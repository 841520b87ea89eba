------------------------------ MODULE NetPoll ------------------------------
(***************************************************************************)
(* net_poll and those who call it on one CPU: tasks that wait for input    *)
(* (terminal_wait_input), sleep (sys_sleep) or make a network call that    *)
(* resolves the gateway's hardware address, sends, and polls for an answer.*)
(*                                                                         *)
(* net_poll takes frames out of the NIC and handles them; the handler of a *)
(* segment that must be answered (tcp_send_reset_for_segment) resolves the *)
(* gateway's address itself, by polling again inside net_poll.  A flag,    *)
(* g_net_poll_active, turns polls inside a poll, and polls of a task that  *)
(* runs while another one was preempted in its poll, into nothing.         *)
(*                                                                         *)
(* The timer latches an interrupt; it is delivered when the running task   *)
(* has interrupts enabled, counts deadlines down and switches tasks if the *)
(* running one may be preempted: in user mode or in terminal_wait_input.   *)
(* An answer is credited to whatever call its task is making: TcpClient    *)
(* and Dns are about which one it belongs to.  usb_poll is left out.       *)
(* Of the ARP cache only the gateway's entry counts: known or not.         *)
(***************************************************************************)
EXTENDS Integers, Sequences, FiniteSets

CONSTANTS
    NTasks,       \* user tasks, all of one priority
    Uses,         \* what they do: a subset of {"input", "sleep", "call"}
    ArpTicks,     \* deadline of arp_resolve
    CallTicks,    \* deadline of a call, and length of a sleep
    PollFrames,   \* frames one net_poll handles (8)
    NicSize,      \* bound on the frames waiting in the NIC
    MayForget     \* the gateway's entry may expire or be evicted

ASSUME NetPollAssumption ==
    /\ NTasks \in Nat \ {0}
    /\ Uses \subseteq {"input", "sleep", "call"}
    /\ ArpTicks \in Nat \ {0} /\ CallTicks \in Nat \ {0}
    /\ PollFrames \in Nat \ {0} /\ NicSize \in Nat \ {0}
    /\ MayForget \in BOOLEAN

Tasks == 1..NTasks

VARIABLES
    current,
    ctx,       \* where each task is outside net_poll
    poll,      \* and inside: "out", "frame", "reply" or "wait"
    n,         \* frames its net_poll has handled
    intr,      \* its interrupt flag
    left,      \* ticks to its deadline
    inner,     \* ticks to the deadline of an arp_resolve inside its net_poll
    got,       \* its call has been answered
    active,    \* g_net_poll_active
    gateway,   \* the gateway is in the ARP cache
    nic,       \* frames waiting in the NIC
    input,     \* input is waiting
    pending    \* the timer's interrupt is latched

vars == <<current, ctx, poll, n, intr, left, inner, got, active, gateway, nic,
          input, pending>>

Runs(t) == current = t /\ ~(pending /\ intr[t])

-----------------------------------------------------------------------------
(* The network, external: frames arrive, requests may be answered or lost. *)

Answered(frame) == {nic} \cup (IF Len(nic) < NicSize THEN {Append(nic, frame)} ELSE {})

\* A segment for no connection, from beyond the gateway.
StrayArrives ==
    /\ Len(nic) < NicSize
    /\ nic' = Append(nic, <<"stray">>)
    /\ UNCHANGED <<current, ctx, poll, n, intr, left, inner, got, active, gateway,
                   input, pending>>

InputArrives ==
    /\ ~input
    /\ input' = TRUE
    /\ UNCHANGED <<current, ctx, poll, n, intr, left, inner, got, active, gateway,
                   nic, pending>>

\* Two minutes without a sign of the gateway, or sixteen other hosts.
GatewayForgotten ==
    /\ MayForget /\ gateway
    /\ gateway' = FALSE
    /\ UNCHANGED <<current, ctx, poll, n, intr, left, inner, got, active, nic,
                   input, pending>>

-----------------------------------------------------------------------------
(* The timer.                                                              *)

TimerFires ==
    /\ ~pending
    /\ pending' = TRUE
    /\ UNCHANGED <<current, ctx, poll, n, intr, left, inner, got, active, gateway,
                   nic, input>>

\* user mode, or kernel_preempt_ok of terminal_wait_input
Preemptible(t) == ctx[t] \in {"user", "input", "sti"}

\* The loops run while pit_get_ticks() <= deadline.
Down(k) == IF k = 0 THEN 0 ELSE k - 1

\* Deadlines come nearer; hlt in arch_idle_once ends with interrupts off; the
\* next task of the ready queue runs.
TimerInterrupt ==
    /\ pending /\ intr[current]
    /\ pending' = FALSE
    /\ left' = [t \in Tasks |-> Down(left[t])]
    /\ inner' = [t \in Tasks |-> Down(inner[t])]
    /\ IF ctx[current] = "hlt"
       THEN /\ ctx' = [ctx EXCEPT ![current] = "awake"]
            /\ intr' = [intr EXCEPT ![current] = FALSE]
       ELSE UNCHANGED <<ctx, intr>>
    /\ current' = IF Preemptible(current) THEN (current % NTasks) + 1 ELSE current
    /\ UNCHANGED <<poll, n, got, active, gateway, nic, input>>

-----------------------------------------------------------------------------
(* System calls begin and end with interrupts enabled.                     *)

Return(t) ==
    /\ ctx' = [ctx EXCEPT ![t] = "user"]
    /\ intr' = [intr EXCEPT ![t] = TRUE]

terminal_wait_input(t) ==
    /\ Runs(t) /\ ctx[t] = "user" /\ "input" \in Uses
    /\ ctx' = [ctx EXCEPT ![t] = "input"]
    /\ UNCHANGED <<current, poll, n, intr, left, inner, got, active, gateway, nic,
                   input, pending>>

InputTaken(t) ==
    /\ Runs(t) /\ ctx[t] = "input" /\ poll[t] = "out" /\ input
    /\ input' = FALSE
    /\ Return(t)
    /\ UNCHANGED <<current, poll, n, left, inner, got, active, gateway, nic, pending>>

sys_sleep(t) ==
    /\ Runs(t) /\ ctx[t] = "user" /\ "sleep" \in Uses
    /\ ctx' = [ctx EXCEPT ![t] = "hlt"]
    /\ left' = [left EXCEPT ![t] = CallTicks]
    /\ UNCHANGED <<current, poll, n, intr, inner, got, active, gateway, nic,
                   input, pending>>

\* arp_resolve asks, unless the cache has the gateway.
arp_resolve(t) ==
    /\ left' = [left EXCEPT ![t] = ArpTicks]
    /\ nic' \in Answered(<<"arp">>)

\* The request of a call is sent; an answer may come.
SendRequest(t) ==
    /\ ctx' = [ctx EXCEPT ![t] = "receive"]
    /\ left' = [left EXCEPT ![t] = CallTicks]
    /\ nic' \in Answered(<<"answer", t>>)

net_call(t) ==
    /\ Runs(t) /\ ctx[t] = "user" /\ "call" \in Uses
    /\ got' = [got EXCEPT ![t] = FALSE]
    /\ IF gateway
       THEN SendRequest(t)
       ELSE arp_resolve(t) /\ ctx' = [ctx EXCEPT ![t] = "resolve"]
    /\ UNCHANGED <<current, poll, n, intr, inner, active, gateway, input, pending>>

-----------------------------------------------------------------------------
(* net_poll                                                                *)

\* Where a caller goes on after net_poll.
After(c) ==
    CASE c = "input"   -> "sti"
      [] c = "awake"   -> "slept"
      [] c = "resolve" -> "resolveLook"
      [] c = "receive" -> "receiveLook"

\* The head of each loop: no input, a hlt that is over, a deadline to come.
CallsPoll(t) ==
    /\ poll[t] = "out"
    /\ \/ ctx[t] = "input" /\ ~input
       \/ ctx[t] = "awake"
       \/ ctx[t] \in {"resolve", "receive"} /\ left[t] > 0

\* Slip: the flag is not looked at.
PollRefused_Never(t) == FALSE

\* The compare-and-exchange fails.
PollRefused(t) == active

net_poll_returns(t) ==
    /\ Runs(t) /\ CallsPoll(t) /\ PollRefused(t)
    /\ ctx' = [ctx EXCEPT ![t] = After(ctx[t])]
    /\ UNCHANGED <<current, poll, n, intr, left, inner, got, active, gateway, nic,
                   input, pending>>

net_poll(t) ==
    /\ Runs(t) /\ CallsPoll(t) /\ ~PollRefused(t)
    /\ active' = TRUE
    /\ poll' = [poll EXCEPT ![t] = "frame"]
    /\ n' = [n EXCEPT ![t] = 0]
    /\ UNCHANGED <<current, ctx, intr, left, inner, got, gateway, nic, input, pending>>

PollEnds(t) ==
    /\ poll' = [poll EXCEPT ![t] = "out"]
    /\ ctx' = [ctx EXCEPT ![t] = After(ctx[t])]
    /\ active' = FALSE

\* i < 8, and rtl8139_poll_frame finds a frame.
MoreFrames(t) == n[t] < PollFrames /\ nic # <<>>

NoMoreFrames(t) ==
    /\ Runs(t) /\ poll[t] = "frame" /\ ~MoreFrames(t)
    /\ PollEnds(t)
    /\ UNCHANGED <<current, n, intr, left, inner, got, gateway, nic, input, pending>>

\* net_handle_arp, a handler that marks a call answered, or net_handle_tcp
\* with a segment to be reset.
net_handle_ethernet(t) ==
    /\ Runs(t) /\ poll[t] = "frame" /\ MoreFrames(t)
    /\ nic' = Tail(nic)
    /\ n' = [n EXCEPT ![t] = IF @ < PollFrames THEN @ + 1 ELSE @]
    /\ LET frame == Head(nic)
       IN  \/ /\ frame[1] = "arp"
              /\ gateway' = TRUE
              /\ UNCHANGED <<poll, got>>
           \/ /\ frame[1] = "answer"
              /\ got' = [got EXCEPT ![frame[2]] = ctx[frame[2]] \in
                             {"receive", "receiveLook"}]
              /\ UNCHANGED <<poll, gateway>>
           \/ /\ frame[1] = "stray"
              /\ poll' = [poll EXCEPT ![t] = "reply"]
              /\ UNCHANGED <<got, gateway>>
    /\ UNCHANGED <<current, ctx, intr, left, inner, active, input, pending>>

\* arp_resolve inside the handler: known, or asked for.
ReplyResolves(t) ==
    /\ Runs(t) /\ poll[t] = "reply"
    /\ IF gateway
       THEN poll' = [poll EXCEPT ![t] = "frame"] /\ UNCHANGED <<inner, nic>>
       ELSE /\ poll' = [poll EXCEPT ![t] = "wait"]
            /\ inner' = [inner EXCEPT ![t] = ArpTicks]
            /\ nic' \in Answered(<<"arp">>)
    /\ UNCHANGED <<current, ctx, n, intr, left, got, active, gateway, input, pending>>

\* Slip: no deadline inside the handler.
ReplyEnds_WhenKnown(t) ==
    /\ Runs(t) /\ poll[t] = "wait" /\ gateway
    /\ poll' = [poll EXCEPT ![t] = "frame"]
    /\ UNCHANGED <<current, ctx, n, intr, left, inner, got, active, gateway, nic,
                   input, pending>>

\* Its loop polls in vain, for the flag is set; it ends with the deadline,
\* or when the entry has appeared.
ReplyEnds(t) ==
    /\ Runs(t) /\ poll[t] = "wait" /\ (gateway \/ inner[t] = 0)
    /\ poll' = [poll EXCEPT ![t] = "frame"]
    /\ UNCHANGED <<current, ctx, n, intr, left, inner, got, active, gateway, nic,
                   input, pending>>

\* It asks again when a retry interval, here a tick, has passed.
ReplyRetries(t) ==
    /\ Runs(t) /\ poll[t] = "wait" /\ ~gateway /\ inner[t] \in 1..ArpTicks - 1
    /\ nic' \in Answered(<<"arp">>)
    /\ UNCHANGED <<current, ctx, poll, n, intr, left, inner, got, active, gateway,
                   input, pending>>

-----------------------------------------------------------------------------
(* The loops' looks after net_poll.                                        *)

\* sti; pause; pause; pause; cli
StiWindow(t) ==
    /\ Runs(t) /\ ctx[t] = "sti"
    /\ IF ~intr[t]
       THEN intr' = [intr EXCEPT ![t] = TRUE] /\ UNCHANGED ctx
       ELSE /\ intr' = [intr EXCEPT ![t] = FALSE]
            /\ ctx' = [ctx EXCEPT ![t] = "input"]
    /\ UNCHANGED <<current, poll, n, left, inner, got, active, gateway, nic, input,
                   pending>>

SleepLook(t) ==
    /\ Runs(t) /\ ctx[t] = "slept"
    /\ IF left[t] = 0
       THEN Return(t)
       ELSE /\ ctx' = [ctx EXCEPT ![t] = "hlt"]
            /\ intr' = [intr EXCEPT ![t] = TRUE]
    /\ UNCHANGED <<current, poll, n, left, inner, got, active, gateway, nic, input,
                   pending>>

\* arp_resolve of a call: the request is sent; polling goes on, with another
\* ARP request when a retry interval has passed; or it fails.
ResolveLook(t) ==
    /\ Runs(t) /\ poll[t] = "out"
    /\ \/ /\ ctx[t] \in {"resolve", "resolveLook"} /\ gateway
          /\ SendRequest(t)
          /\ UNCHANGED intr
       \/ /\ ctx[t] = "resolveLook" /\ ~gateway
          /\ ctx' = [ctx EXCEPT ![t] = "resolve"]
          /\ nic' \in IF left[t] < ArpTicks THEN Answered(<<"arp">>) ELSE {nic}
          /\ UNCHANGED <<left, intr>>
       \/ /\ ctx[t] = "resolve" /\ ~gateway /\ left[t] = 0
          /\ Return(t)
          /\ UNCHANGED <<left, nic>>
    /\ UNCHANGED <<current, poll, n, inner, got, active, gateway, input, pending>>

ReceiveLook(t) ==
    /\ Runs(t)
    /\ \/ ctx[t] = "receiveLook" /\ got[t] /\ Return(t)
       \/ ctx[t] = "receiveLook" /\ ~got[t]
          /\ ctx' = [ctx EXCEPT ![t] = "receive"] /\ UNCHANGED intr
       \/ ctx[t] = "receive" /\ poll[t] = "out" /\ left[t] = 0 /\ Return(t)
    /\ UNCHANGED <<current, poll, n, left, inner, got, active, gateway, nic, input,
                   pending>>

Init ==
    /\ current = 1
    /\ ctx = [t \in Tasks |-> "user"]
    /\ poll = [t \in Tasks |-> "out"]
    /\ n = [t \in Tasks |-> 0]
    /\ intr = [t \in Tasks |-> TRUE]
    /\ left = [t \in Tasks |-> 0]
    /\ inner = [t \in Tasks |-> 0]
    /\ got = [t \in Tasks |-> FALSE]
    /\ active = FALSE
    /\ gateway \in {TRUE, ~MayForget}
    /\ nic = <<>>
    /\ input = FALSE
    /\ pending = FALSE

Enter(t) == terminal_wait_input(t) \/ sys_sleep(t) \/ net_call(t)

InKernel(t) ==
    \/ InputTaken(t) \/ StiWindow(t) \/ SleepLook(t)
    \/ ResolveLook(t) \/ ReceiveLook(t)
    \/ net_poll_returns(t) \/ net_poll(t) \/ NoMoreFrames(t)
    \/ net_handle_ethernet(t) \/ ReplyResolves(t) \/ ReplyRetries(t) \/ ReplyEnds(t)

Next ==
    \/ \E t \in Tasks : Enter(t) \/ InKernel(t)
    \/ TimerFires
    \/ TimerInterrupt
    \/ StrayArrives
    \/ InputArrives
    \/ GatewayForgotten

Spec == Init /\ [][Next]_vars

(***************************************************************************)
(* The timer keeps firing, an interrupt that can be delivered is, and the  *)
(* CPU executes the running task between two interrupts.                   *)
(***************************************************************************)
Fairness ==
    /\ WF_vars(TimerFires)
    /\ WF_vars(TimerInterrupt)
    /\ \A t \in Tasks : SF_vars(InKernel(t))

FairSpec == Spec /\ Fairness

-----------------------------------------------------------------------------
(* Properties.                                                             *)

\* Types of the state.
TypeOK ==
    /\ current \in Tasks
    /\ \A t \in Tasks :
        /\ ctx[t] \in {"user", "input", "sti", "hlt", "awake", "slept", "resolve",
                       "resolveLook", "receive", "receiveLook"}
        /\ poll[t] \in {"out", "frame", "reply", "wait"}
        /\ n[t] \in 0..PollFrames
        /\ left[t] \in Nat /\ inner[t] \in Nat
    /\ Len(nic) <= NicSize

\* Whatever tasks are preempted in the middle of net_poll, one of them at a
\* time is inside, so the frame in g_rx_frame is handled before another one
\* is copied over it; and the flag is set exactly while one is.
OnePollAtATime ==
    /\ Cardinality({t \in Tasks : poll[t] # "out"}) <= 1
    /\ active = (\E t \in Tasks : poll[t] # "out")

\* A network call returns to its program, with an answer or at its deadline,
\* also when another task was preempted in net_poll and every poll of the call
\* is refused, and when a handler inside its poll resolves an address.
NetworkCallsReturn ==
    \A t \in Tasks :
        ctx[t] \in {"resolve", "resolveLook", "receive", "receiveLook"}
            ~> ctx[t] = "user"

\* A task that waits in terminal_wait_input looks at the input again and
\* again, however many frames arrive.
InputKeepsBeingPolled ==
    \A t \in Tasks :
        ctx[t] \in {"input", "sti"}
            ~> (ctx[t] = "input" /\ poll[t] = "out") \/ ctx[t] = "user"

=============================================================================
