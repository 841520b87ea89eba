--------------------------- MODULE NetPollProofs ----------------------------
(***************************************************************************)
(* Proofs about NetPoll, for any number of tasks, any deadlines, any       *)
(* number of frames per poll and any use the tasks make of the kernel.     *)
(***************************************************************************)
EXTENDS NetPoll, FiniteSetTheorems, TLAPS

PollStates == {"out", "frame", "reply", "wait"}

\* Whoever is inside net_poll is alone there, and the flag says so.
IInv ==
    /\ poll \in [Tasks -> PollStates]
    /\ active \in BOOLEAN
    /\ active <=> \E t \in Tasks : poll[t] # "out"
    /\ \A t, u \in Tasks : poll[t] # "out" /\ poll[u] # "out" => t = u

LEMMA InitIInv == Init => IInv
BY DEF Init, IInv, PollStates

\* Steps that neither enter nor leave net_poll.
LEMMA Untouched ==
    ASSUME IInv, UNCHANGED <<poll, active>>
    PROVE  IInv'
BY DEF IInv

\* A step inside net_poll, of the task that is inside.
LEMMA StaysInside ==
    ASSUME IInv, NEW t \in Tasks, poll[t] # "out", NEW s \in PollStates \ {"out"},
           poll' = [poll EXCEPT ![t] = s], active' = active
    PROVE  IInv'
BY DEF IInv, PollStates

\* The compare-and-exchange lets one task in.
LEMMA PollEnters ==
    ASSUME IInv, NEW t \in Tasks, net_poll(t)
    PROVE  IInv'
<1>1. ~active /\ active' = TRUE /\ poll' = [poll EXCEPT ![t] = "frame"]
  BY DEF net_poll, PollRefused
<1>2. \A u \in Tasks : poll[u] = "out"
  BY <1>1 DEF IInv
<1>3. poll'[t] = "frame" /\ \A u \in Tasks \ {t} : poll'[u] = "out"
  BY <1>1, <1>2 DEF IInv
<1> QED BY <1>1, <1>3 DEF IInv, PollStates

\* The flag is cleared by the task that set it.
LEMMA PollLeaves ==
    ASSUME IInv, NEW t \in Tasks, NoMoreFrames(t)
    PROVE  IInv'
<1>1. poll[t] # "out" /\ active' = FALSE /\ poll' = [poll EXCEPT ![t] = "out"]
  BY DEF NoMoreFrames, PollEnds
<1>2. \A u \in Tasks : poll'[u] = "out"
  BY <1>1 DEF IInv
<1> QED BY <1>1, <1>2 DEF IInv, PollStates

LEMMA HandlerStays ==
    ASSUME IInv, NEW t \in Tasks, net_handle_ethernet(t)
    PROVE  IInv'
<1>1. poll[t] = "frame" /\ active' = active
  BY DEF net_handle_ethernet
<1>2. poll' = poll \/ poll' = [poll EXCEPT ![t] = "reply"]
  BY DEF net_handle_ethernet
<1>3. CASE poll' = poll
  BY <1>1, <1>3, Untouched
<1>4. CASE poll' = [poll EXCEPT ![t] = "reply"]
  BY <1>1, <1>4, StaysInside DEF PollStates
<1> QED BY <1>2, <1>3, <1>4

LEMMA ReplyStays ==
    ASSUME IInv, NEW t \in Tasks, ReplyResolves(t) \/ ReplyRetries(t) \/ ReplyEnds(t)
    PROVE  IInv'
<1>1. CASE ReplyResolves(t)
  <2>1. poll[t] = "reply" /\ active' = active
    BY <1>1 DEF ReplyResolves
  <2>2. poll' = [poll EXCEPT ![t] = "frame"] \/ poll' = [poll EXCEPT ![t] = "wait"]
    BY <1>1 DEF ReplyResolves
  <2> QED BY <2>1, <2>2, StaysInside DEF PollStates
<1>2. CASE ReplyRetries(t)
  BY <1>2, Untouched DEF ReplyRetries
<1>3. CASE ReplyEnds(t)
  <2>1. poll[t] = "wait" /\ active' = active /\ poll' = [poll EXCEPT ![t] = "frame"]
    BY <1>3 DEF ReplyEnds
  <2> QED BY <2>1, StaysInside DEF PollStates
<1> QED BY <1>1, <1>2, <1>3

LEMMA NextIInv == IInv /\ [Next]_vars => IInv'
<1> SUFFICES ASSUME IInv, [Next]_vars
             PROVE  IInv'
  OBVIOUS
<1>1. ASSUME NEW t \in Tasks, Enter(t)
      PROVE  IInv'
  <2>1. UNCHANGED <<poll, active>>
    BY <1>1 DEF Enter, terminal_wait_input, sys_sleep, net_call
  <2> QED BY <2>1, Untouched
<1>2. ASSUME NEW t \in Tasks, InKernel(t)
      PROVE  IInv'
  <2>1. CASE net_poll(t)
    BY <2>1, PollEnters
  <2>2. CASE NoMoreFrames(t)
    BY <2>2, PollLeaves
  <2>3. CASE net_handle_ethernet(t)
    BY <2>3, HandlerStays
  <2>4. CASE ReplyResolves(t) \/ ReplyRetries(t) \/ ReplyEnds(t)
    BY <2>4, ReplyStays
  <2>5. CASE \/ InputTaken(t) \/ StiWindow(t) \/ SleepLook(t)
             \/ ResolveLook(t) \/ ReceiveLook(t) \/ net_poll_returns(t)
    <3>1. UNCHANGED <<poll, active>>
      BY <2>5 DEF InputTaken, StiWindow, SleepLook, ResolveLook, ReceiveLook, net_poll_returns
    <3> QED BY <3>1, Untouched
  <2> QED BY <1>2, <2>1, <2>2, <2>3, <2>4, <2>5 DEF InKernel
<1>3. CASE TimerFires \/ TimerInterrupt \/ StrayArrives \/ InputArrives \/ GatewayForgotten
  <2>1. UNCHANGED <<poll, active>>
    BY <1>3 DEF TimerFires, TimerInterrupt, StrayArrives, InputArrives, GatewayForgotten
  <2> QED BY <2>1, Untouched
<1>4. CASE UNCHANGED vars
  BY <1>4, Untouched DEF vars
<1> QED BY <1>1, <1>2, <1>3, <1>4 DEF Next

-----------------------------------------------------------------------------
\* Wherever tasks are preempted, woken or refused, one task at a time is
\* inside net_poll and g_net_poll_active is set exactly while one is, for any
\* number of tasks.
THEOREM PollExclusive == Spec => []OnePollAtATime
<1>1. IInv => OnePollAtATime
  <2> SUFFICES ASSUME IInv PROVE OnePollAtATime
    OBVIOUS
  <2> DEFINE inside == {t \in Tasks : poll[t] # "out"}
  <2>1. Cardinality(inside) <= 1
    <3>1. CASE inside = {}
      BY <3>1, FS_EmptySet
    <3>2. CASE inside # {}
      <4>1. PICK t \in inside : TRUE
        BY <3>2
      <4>2. inside = {t}
        BY <4>1 DEF IInv
      <4>3. Cardinality({t}) = 1
        BY FS_Singleton
      <4> QED BY <4>2, <4>3
    <3> QED BY <3>1, <3>2
  <2>2. active = (\E t \in Tasks : poll[t] # "out")
    BY DEF IInv
  <2> QED BY <2>1, <2>2 DEF OnePollAtATime
<1> QED BY <1>1, InitIInv, NextIInv, PTL DEF Spec

=============================================================================
