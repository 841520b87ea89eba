----------------------------- MODULE TcpClient -----------------------------
(***************************************************************************)
(* The kernel's TCP: one HTTP request at a time (net_http_get_ipv4), one   *)
(* port probe at a time (net_tcp_probe_ipv4) and the reset of every        *)
(* segment that belongs to neither, over a network that loses, repeats and *)
(* reorders segments.                                                      *)
(*                                                                         *)
(* Both calls are system calls that keep the CPU: they send, then call     *)
(* net_poll until an answer or a deadline.  net_poll hands at most         *)
(* PollFrames frames to net_handle_tcp before the caller looks at its      *)
(* state again.  Outside a call the idle loop and the waiting tasks poll.  *)
(*                                                                         *)
(* Ticks are left out: a deadline may pass at any time the code compares   *)
(* the clock with it.  A peer is an address and a port of it.  The byte at *)
(* position i of what a peer sends to client port p is <<p, i>>.           *)
(***************************************************************************)
EXTENDS Integers, Sequences, FiniteSets

CONSTANTS
    Peers,              \* addresses and ports the client talks to
    Listening,          \* those of them with a server
    MinPort, MaxPort,   \* TCP_MIN_SRC_PORT (49152) and 65535
    SeqSpace,           \* 2^32
    ISNs,               \* initial sequence numbers of either side
    ReqLen,             \* length of the request
    StreamLen,          \* length of a response, headers and body
    HdrLen, StatusLen,  \* where its headers end, where its status code ends
    Capacities,         \* values of out_body_capacity
    PollFrames,         \* frames one net_poll handles (8)
    MaxCalls            \* bound on the calls of a behaviour

ASSUME TcpAssumption ==
    /\ Listening \subseteq Peers
    /\ MinPort \in Nat \ {0} /\ MaxPort \in Nat /\ MinPort <= MaxPort
    /\ SeqSpace \in Nat /\ ISNs \subseteq 0..(SeqSpace - 1) /\ ISNs # {}
    /\ ReqLen \in Nat \ {0} /\ StreamLen \in Nat /\ Capacities \subseteq Nat \ {0}
    /\ StatusLen \in Nat \ {0} /\ HdrLen \in Nat /\ StatusLen <= HdrLen /\ HdrLen <= StreamLen
    \* no port is used twice while segments of its first use are about
    /\ MaxCalls \in Nat /\ MaxCalls <= MaxPort - MinPort
    /\ StreamLen + ReqLen + 3 < SeqSpace
    /\ PollFrames \in Nat \ {0}

VARIABLES
    g_tcp_client,       \* tcp_client_state_t; rx holds the bytes of rx_buffer
    g_tcp_probe_state,  \* tcp_probe_state_t
    g_tcp_src_port,
    pc,                 \* where the calling task is
    frames,             \* frames handled since the caller's last look
    last_rx_length,
    result,             \* what the last call returned
    calls,
    toServer,           \* every segment the client ever sent
    server              \* the peers' side of each client port

vars == <<g_tcp_client, g_tcp_probe_state, g_tcp_src_port, pc, frames,
          last_rx_length, result, calls, toServer, server>>

Ports == MinPort..MaxPort
Plus(seq, n) == (seq + n) % SeqSpace

\* memset(&g_tcp_client, 0, sizeof(g_tcp_client))
NoClient ==
    [active |-> FALSE, established |-> FALSE, finished |-> FALSE,
     reset |-> FALSE, truncated |-> FALSE, src_port |-> 0,
     peer |-> "none", snd_nxt |-> 0, rcv_nxt |-> 0,
     capacity |-> 0, rx |-> <<>>]

NoProbe ==
    [waiting |-> FALSE, received |-> FALSE, open |-> FALSE, src_port |-> 0,
     peer |-> "none", sequence |-> 0]

NoResult == [call |-> "none"]

-----------------------------------------------------------------------------
(* The peers, external: only what a correct TCP does with these segments.  *)

NoConnection ==
    [st |-> "none", peer |-> "none", irs |-> 0, iss |-> 0, opened |-> FALSE,
     est |-> FALSE, req |-> FALSE, refused |-> FALSE, aborted |-> FALSE]

\* sequence number the peer expects next
Expected(c) == Plus(c.irs, IF c.req THEN 1 + ReqLen ELSE 1)

Segment(c, p, seq, ack, flags, data) ==
    [peer |-> c.peer, port |-> p, seq |-> seq, ack |-> ack,
     flags |-> flags, data |-> data]

\* bytes i+1 to j of the response
Bytes(p, i, j) == [n \in 1..(j - i) |-> <<p, i + n>>]

\* Pieces of the response; FIN goes with the last one or alone.
Cuts ==
    {cut \in [from : 0..StreamLen, to : 0..StreamLen, flags : {{"ACK"}, {"ACK", "FIN"}}] :
        /\ cut.from <= cut.to
        /\ "FIN" \in cut.flags => cut.to = StreamLen
        /\ "FIN" \notin cut.flags => cut.from < cut.to}

\* Every segment a peer may have in flight to port p: it retransmits, and it
\* cuts the response anew each time.
InFlight(p) ==
    LET c == server[p]
        acks == {Plus(c.irs, 1)} \cup (IF c.req THEN {Expected(c)} ELSE {})
    IN  (IF c.opened
         THEN {Segment(c, p, c.iss, Plus(c.irs, 1), {"SYN", "ACK"}, <<>>)}
         ELSE {})
        \cup (IF c.est
              THEN {Segment(c, p, Plus(c.iss, 1), a, {"ACK"}, <<>>) : a \in acks}
              ELSE {})
        \cup (IF c.req
              THEN {Segment(c, p, Plus(c.iss, 1 + cut.from), Expected(c), cut.flags,
                            Bytes(p, cut.from, cut.to)) : cut \in Cuts}
              ELSE {})
        \cup (IF c.refused
              THEN {Segment(c, p, 0, Plus(c.irs, 1), {"RST", "ACK"}, <<>>)}
              ELSE {})
        \cup (IF c.aborted
              THEN {Segment(c, p, Plus(c.iss, 1), Expected(c), {"RST", "ACK"}, <<>>)}
              ELSE {})

\* A stranger that tries to open a connection to this machine.
StraySyn ==
    [peer |-> "stranger", port |-> MinPort, seq |-> 0, ack |-> 0,
     flags |-> {"SYN"}, data |-> <<>>]

ServerReceivesSyn(m) ==
    LET p == m.port
        c == [NoConnection EXCEPT !.peer = m.peer, !.irs = m.seq]
    IN  /\ m.flags = {"SYN"}
        /\ server[p].st = "none"
        /\ \E iss \in ISNs :
             server' = [server EXCEPT ![p] =
                IF m.peer \in Listening
                THEN [c EXCEPT !.st = "syn", !.iss = iss, !.opened = TRUE]
                ELSE [c EXCEPT !.st = "closed", !.refused = TRUE]]

\* An acknowledgement opens the connection, the request comes with one.
ServerReceivesAck(m) ==
    LET p == m.port
        c == server[p]
        est == c.st = "est" \/ m.ack = Plus(c.iss, 1)
        req == c.req \/ (est /\ m.len > 0 /\ m.seq = Expected(c))
    IN  /\ "ACK" \in m.flags /\ "RST" \notin m.flags
        /\ c.st \in {"syn", "est"}
        /\ est
        /\ server' = [server EXCEPT ![p].st = "est", ![p].est = TRUE,
                                    ![p].req = req]
        /\ server' # server

\* RFC 5961: a reset counts at exactly the expected number; any other one in
\* the window is answered with an acknowledgement (always among InFlight).
ServerReceivesReset(m) ==
    /\ "RST" \in m.flags
    /\ server[m.port].st \in {"syn", "est"}
    /\ m.seq = Expected(server[m.port])
    /\ server' = [server EXCEPT ![m.port].st = "closed"]

ServerReceives(m) ==
    /\ \/ ServerReceivesSyn(m)
       \/ ServerReceivesAck(m)
       \/ ServerReceivesReset(m)
    /\ UNCHANGED <<g_tcp_client, g_tcp_probe_state, g_tcp_src_port, pc, frames,
                   last_rx_length, result, calls, toServer>>

ServerAborts(p) ==
    /\ server[p].st \in {"syn", "est"}
    /\ server' = [server EXCEPT ![p].st = "closed", ![p].aborted = TRUE]
    /\ UNCHANGED <<g_tcp_client, g_tcp_probe_state, g_tcp_src_port, pc, frames,
                   last_rx_length, result, calls, toServer>>

-----------------------------------------------------------------------------
(* Sending.                                                                *)

tcp_segment_advance(flags, len) ==
    len + (IF "SYN" \in flags THEN 1 ELSE 0) + (IF "FIN" \in flags THEN 1 ELSE 0)

Sent(peer, port, seq, ack, flags, len) ==
    [peer |-> peer, port |-> port, seq |-> seq, ack |-> ack, flags |-> flags,
     len |-> len]

\* The segment tcp_client_send_segment sends; snd_nxt moves behind it.
ClientSegment(c, flags, len) ==
    Sent(c.peer, c.src_port, c.snd_nxt,
         IF "ACK" \in flags THEN c.rcv_nxt ELSE 0, flags, len)

Advanced(c, flags, len) ==
    [c EXCEPT !.snd_nxt = Plus(@, tcp_segment_advance(flags, len))]

\* Segments tcp_client_abort sends.
AbortSegments(c) ==
    IF c.active /\ c.established /\ ~c.reset
    THEN {Sent(c.peer, c.src_port, c.snd_nxt, c.rcv_nxt, {"RST", "ACK"}, 0)}
    ELSE {}

\* Slip: the reset carries no sequence number of the peer's choice.
ResetFor_Zero(m) ==
    IF "RST" \in m.flags THEN {}
    ELSE {Sent(m.peer, m.port, 0, 0, {"RST"}, 0)}

\* tcp_send_reset_for_segment
ResetFor(m) ==
    IF "RST" \in m.flags THEN {}
    ELSE IF "ACK" \in m.flags
    THEN {Sent(m.peer, m.port, m.ack, 0, {"RST"}, 0)}
    ELSE {Sent(m.peer, m.port, 0,
               Plus(m.seq, tcp_segment_advance(m.flags, Len(m.data))),
               {"RST", "ACK"}, 0)}

-----------------------------------------------------------------------------
(* Receiving: what net_handle_tcp makes of a segment.                      *)

tcp_client_matches(m) ==
    /\ g_tcp_client.active
    /\ m.peer = g_tcp_client.peer
    /\ m.port = g_tcp_client.src_port

\* Slip: the reply to an older probe counts too.
ProbeMatches_AnyPort(m) ==
    /\ g_tcp_probe_state.waiting /\ ~g_tcp_probe_state.received
    /\ m.peer = g_tcp_probe_state.peer

ProbeMatches(m) ==
    /\ g_tcp_probe_state.waiting /\ ~g_tcp_probe_state.received
    /\ m.peer = g_tcp_probe_state.peer
    /\ m.port = g_tcp_probe_state.src_port

SynAck(m, ack) == {"SYN", "ACK"} \subseteq m.flags /\ m.ack = ack

ProbeReset(m) == ProbeMatches(m) /\ "RST" \in m.flags

ProbeOpen(m) ==
    /\ ProbeMatches(m) /\ "RST" \notin m.flags
    /\ SynAck(m, Plus(g_tcp_probe_state.sequence, 1))

\* Slip: whatever comes is appended.
InOrder_Always(c, m) == TRUE

InOrder(c, m) == m.seq = c.rcv_nxt

\* The bytes that fit are kept, all of them are acknowledged.
Stored(c, m) ==
    LET room == c.capacity - Len(c.rx)
        kept == IF Len(m.data) > room THEN room ELSE Len(m.data)
    IN  [c EXCEPT !.rx = @ \o SubSeq(m.data, 1, kept),
                  !.truncated = @ \/ Len(m.data) > room,
                  !.rcv_nxt = Plus(@, Len(m.data))]

\* The client's state after tcp_client_handle_segment.
tcp_client_handle_segment(c, m) ==
    LET fin == "FIN" \in m.flags
        s == Stored(c, m)
    IN  IF "RST" \in m.flags THEN [c EXCEPT !.reset = TRUE, !.finished = TRUE]
        ELSE IF ~c.established
        THEN IF SynAck(m, c.snd_nxt)
             THEN [c EXCEPT !.established = TRUE, !.rcv_nxt = Plus(m.seq, 1)]
             ELSE c
        ELSE IF ~InOrder(c, m) THEN c
        ELSE IF fin
             THEN [s EXCEPT !.rcv_nxt = Plus(@, 1), !.finished = TRUE]
             ELSE s

\* It acknowledges what opens the connection, what carries data or FIN, and
\* what is out of order.
Acknowledges(c, m) ==
    /\ "RST" \notin m.flags
    /\ \/ ~c.established /\ SynAck(m, c.snd_nxt)
       \/ c.established /\ (Len(m.data) > 0 \/ "FIN" \in m.flags)
       \/ c.established /\ ~InOrder(c, m) /\ "SYN" \in m.flags

\* One frame of net_poll that holds TCP segment m.
net_handle_tcp(m) ==
    /\ IF pc = "idle"
       THEN UNCHANGED frames
       ELSE frames < PollFrames /\ frames' = frames + 1
    /\ \/ /\ ProbeReset(m)
          /\ g_tcp_probe_state' = [g_tcp_probe_state EXCEPT !.received = TRUE,
                                                            !.open = FALSE]
          /\ UNCHANGED <<g_tcp_client, toServer>>
       \/ /\ ProbeOpen(m)
          /\ g_tcp_probe_state' = [g_tcp_probe_state EXCEPT !.received = TRUE,
                                                            !.open = TRUE]
          /\ toServer' = toServer \cup
                {Sent(m.peer, m.port, Plus(g_tcp_probe_state.sequence, 1),
                      Plus(m.seq, 1), {"RST", "ACK"}, 0)}
          /\ UNCHANGED g_tcp_client
       \/ /\ ~ProbeReset(m) /\ ~ProbeOpen(m)
          /\ tcp_client_matches(m)
          /\ g_tcp_client' = tcp_client_handle_segment(g_tcp_client, m)
          /\ toServer' = IF Acknowledges(g_tcp_client, m)
                         THEN toServer \cup {ClientSegment(g_tcp_client', {"ACK"}, 0)}
                         ELSE toServer
          /\ UNCHANGED g_tcp_probe_state
       \/ /\ ~ProbeReset(m) /\ ~ProbeOpen(m)
          /\ ~tcp_client_matches(m)
          /\ toServer' = toServer \cup ResetFor(m)
          /\ UNCHANGED <<g_tcp_client, g_tcp_probe_state>>
    /\ UNCHANGED <<g_tcp_src_port, pc, last_rx_length, result, calls, server>>

-----------------------------------------------------------------------------
(* The calls.                                                              *)

\* g_tcp_src_port++ on 16 bits, kept above TCP_MIN_SRC_PORT
NextPort == IF g_tcp_src_port = MaxPort THEN MinPort ELSE g_tcp_src_port + 1

Begin ==
    /\ pc = "idle" /\ calls < MaxCalls
    /\ calls' = calls + 1
    /\ g_tcp_src_port' = NextPort
    /\ frames' = 0
    /\ UNCHANGED server

\* ok: the SYN could be sent (the next hop's address resolved)
net_http_get_ipv4(peer, isn, capacity, ok) ==
    LET c == [NoClient EXCEPT !.active = TRUE, !.src_port = g_tcp_src_port,
                              !.peer = peer, !.snd_nxt = isn,
                              !.capacity = capacity]
    IN  /\ Begin
        /\ IF ok
           THEN /\ g_tcp_client' = Advanced(c, {"SYN"}, 0)
                /\ toServer' = toServer \cup {ClientSegment(c, {"SYN"}, 0)}
                /\ pc' = "connect"
                /\ UNCHANGED result
           ELSE /\ g_tcp_client' = NoClient
                /\ result' = [call |-> "get", ok |-> FALSE, end |-> "unsent"]
                /\ UNCHANGED <<toServer, pc>>
        /\ UNCHANGED <<g_tcp_probe_state, last_rx_length>>

\* tcp_client_abort, memset, return false
GiveUp(end) ==
    /\ toServer' = toServer \cup AbortSegments(g_tcp_client)
    /\ g_tcp_client' = NoClient
    /\ result' = [call |-> "get", ok |-> FALSE, end |-> end]
    /\ pc' = "idle"
    /\ frames' = 0

CallUnchanged == UNCHANGED <<g_tcp_probe_state, g_tcp_src_port, calls, server>>

\* The look after a net_poll: a reset comes first.
ConnectReset ==
    /\ pc = "connect" /\ frames > 0 /\ g_tcp_client.reset
    /\ GiveUp("reset")
    /\ UNCHANGED last_rx_length /\ CallUnchanged

\* Established: the request goes out, or cannot be sent.
ConnectDone(ok) ==
    /\ pc = "connect" /\ frames > 0
    /\ ~g_tcp_client.reset /\ g_tcp_client.established
    /\ \/ /\ ok
          /\ toServer' = toServer \cup
                             {ClientSegment(g_tcp_client, {"ACK", "PSH"}, ReqLen)}
          /\ g_tcp_client' = Advanced(g_tcp_client, {"ACK", "PSH"}, ReqLen)
          /\ pc' = "response"
          /\ frames' = 0
          /\ last_rx_length' = Len(g_tcp_client.rx)
          /\ UNCHANGED result
       \/ /\ ~ok
          /\ GiveUp("unsent")
          /\ UNCHANGED last_rx_length
    /\ CallUnchanged

ConnectAgain ==
    /\ pc = "connect" /\ frames > 0
    /\ ~g_tcp_client.reset /\ ~g_tcp_client.established
    /\ frames' = 0
    /\ UNCHANGED <<g_tcp_client, pc, last_rx_length, result, toServer>>
    /\ CallUnchanged

\* The deadline is compared at the head of the loop only.
ConnectTimeout ==
    /\ pc = "connect" /\ frames = 0
    /\ GiveUp("deadline")
    /\ UNCHANGED last_rx_length /\ CallUnchanged

\* The status code and the body that net_http_get_ipv4 cuts out of the bytes
\* it received: all of them when the end of the headers is not among them.
StatusKnown(rx) == Len(rx) >= StatusLen
Body(rx) == IF Len(rx) >= HdrLen THEN SubSeq(rx, HdrLen + 1, Len(rx)) ELSE rx

Return(end) ==
    LET c == g_tcp_client
    IN  /\ result' = [call |-> "get", ok |-> ~c.reset /\ c.rx # <<>>, end |-> end,
                      port |-> c.src_port, body |-> Body(c.rx),
                      status |-> StatusKnown(c.rx), truncated |-> c.truncated]
        /\ toServer' = toServer \cup AbortSegments(c)
        /\ g_tcp_client' = NoClient
        /\ pc' = "idle"
        /\ frames' = 0
        /\ UNCHANGED last_rx_length

\* Nothing new since the last look, and something before: idle_deadline.
IdleExpired == Len(g_tcp_client.rx) > 0 /\ Len(g_tcp_client.rx) = last_rx_length

ResponseEnds ==
    /\ pc = "response"
    /\ \/ g_tcp_client.reset /\ Return("reset")
       \/ ~g_tcp_client.reset /\ g_tcp_client.finished /\ Return("fin")
       \/ ~g_tcp_client.finished /\ IdleExpired /\ Return("quiet")
    /\ CallUnchanged

ResponseAgain ==
    /\ pc = "response" /\ frames > 0
    /\ ~g_tcp_client.finished
    /\ last_rx_length' = Len(g_tcp_client.rx)
    /\ frames' = 0
    /\ UNCHANGED <<g_tcp_client, pc, result, toServer>>
    /\ CallUnchanged

ResponseTimeout ==
    /\ pc = "response" /\ frames = 0
    /\ Return("deadline")
    /\ CallUnchanged

net_tcp_probe_ipv4(peer, isn, ok) ==
    LET b == [NoProbe EXCEPT !.waiting = TRUE, !.src_port = g_tcp_src_port,
                             !.peer = peer, !.sequence = isn]
    IN  /\ Begin
        /\ IF ok
           THEN /\ g_tcp_probe_state' = b
                /\ toServer' = toServer \cup
                       {Sent(peer, g_tcp_src_port, isn, 0, {"SYN"}, 0)}
                /\ pc' = "probe"
                /\ UNCHANGED result
           ELSE /\ g_tcp_probe_state' = [b EXCEPT !.waiting = FALSE]
                /\ result' = [call |-> "probe", ok |-> FALSE]
                /\ UNCHANGED <<toServer, pc>>
        /\ UNCHANGED <<g_tcp_client, last_rx_length>>

ProbeReturns(res) ==
    /\ g_tcp_probe_state' = [g_tcp_probe_state EXCEPT !.waiting = FALSE]
    /\ result' = res
    /\ pc' = "idle"
    /\ frames' = 0
    /\ UNCHANGED <<g_tcp_client, g_tcp_src_port, last_rx_length, calls, toServer,
                   server>>

ProbeAnswered ==
    /\ pc = "probe" /\ g_tcp_probe_state.received
    /\ ProbeReturns([call |-> "probe", ok |-> TRUE,
                     peer |-> g_tcp_probe_state.peer,
                     port |-> g_tcp_probe_state.src_port,
                     open |-> g_tcp_probe_state.open])

ProbeAgain ==
    /\ pc = "probe" /\ frames > 0 /\ ~g_tcp_probe_state.received
    /\ frames' = 0
    /\ UNCHANGED <<g_tcp_client, pc, last_rx_length, result, toServer>>
    /\ CallUnchanged

ProbeTimeout ==
    /\ pc = "probe" /\ frames = 0
    /\ ProbeReturns([call |-> "probe", ok |-> FALSE])

-----------------------------------------------------------------------------
\* What an earlier call from port MinPort may have left at a peer: nothing,
\* a connection whose reset was lost, one the server has aborted, a refusal.
LeftBehind ==
    LET isn == CHOOSE n \in ISNs : TRUE
        Open(peer) == [NoConnection EXCEPT !.st = "est", !.peer = peer, !.irs = isn,
                                           !.iss = isn, !.opened = TRUE,
                                           !.est = TRUE, !.req = TRUE]
    IN  {NoConnection}
        \cup {Open(peer) : peer \in Listening}
        \cup {[Open(peer) EXCEPT !.st = "closed", !.aborted = TRUE] : peer \in Listening}
        \cup {[NoConnection EXCEPT !.st = "closed", !.peer = peer, !.irs = isn,
                                   !.refused = TRUE] : peer \in Peers \ Listening}

Init ==
    /\ g_tcp_client = NoClient
    /\ g_tcp_probe_state = NoProbe
    /\ g_tcp_src_port = MaxPort
    /\ pc = "idle"
    /\ frames = 0
    /\ last_rx_length = 0
    /\ result = NoResult
    /\ calls = 0
    /\ toServer = {}
    /\ \E old \in LeftBehind :
          server = [p \in Ports |-> IF p = MinPort THEN old ELSE NoConnection]

Calls ==
    \E peer \in Peers, isn \in ISNs, ok \in BOOLEAN :
        \/ \E capacity \in Capacities : net_http_get_ipv4(peer, isn, capacity, ok)
        \/ net_tcp_probe_ipv4(peer, isn, ok)

Looks ==
    \/ ConnectReset
    \/ \E ok \in BOOLEAN : ConnectDone(ok)
    \/ ConnectAgain
    \/ ResponseEnds
    \/ ResponseAgain
    \/ ProbeAnswered
    \/ ProbeAgain

Deadline == ConnectTimeout \/ ResponseTimeout \/ ProbeTimeout

Receive(p) == \E m \in InFlight(p) : net_handle_tcp(m)

Next ==
    \/ Calls
    \/ Looks
    \/ Deadline
    \/ \E p \in Ports : Receive(p)
    \/ net_handle_tcp(StraySyn)
    \/ \E m \in toServer : ServerReceives(m)
    \/ \E p \in Ports : ServerAborts(p)

Spec == Init /\ [][Next]_vars

(***************************************************************************)
(* The clock goes on, so a deadline is met however often frames keep the   *)
(* caller from comparing it; a caller that has polled looks; a network     *)
(* that is tried again and again delivers, and idle polling takes what it  *)
(* delivers.                                                               *)
(***************************************************************************)
Fairness ==
    /\ SF_vars(Deadline)
    /\ WF_vars(Looks)
    /\ \A p \in Ports : WF_vars(pc = "idle" /\ Receive(p))
    /\ WF_vars(\E m \in toServer : ServerReceives(m))

FairSpec == Spec /\ Fairness

-----------------------------------------------------------------------------
(* Properties.                                                             *)

Client ==
    [active : BOOLEAN, established : BOOLEAN, finished : BOOLEAN,
     reset : BOOLEAN, truncated : BOOLEAN, src_port : Ports \cup {0},
     peer : Peers \cup {"none"}, snd_nxt : 0..(SeqSpace - 1),
     rcv_nxt : 0..(SeqSpace - 1), capacity : Capacities \cup {0},
     rx : Seq(Ports \X (1..StreamLen))]

\* Types of the state.
TypeOK ==
    /\ g_tcp_client \in Client
    /\ g_tcp_probe_state \in
         [waiting : BOOLEAN, received : BOOLEAN, open : BOOLEAN,
          src_port : Ports \cup {0}, peer : Peers \cup {"none"},
          sequence : 0..(SeqSpace - 1)]
    /\ g_tcp_src_port \in Ports
    /\ pc \in {"idle", "connect", "response", "probe"}
    /\ frames \in 0..PollFrames
    /\ calls \in 0..MaxCalls

Acked(c) == (c.rcv_nxt + SeqSpace - Plus(server[c.src_port].iss, 1)) % SeqSpace

\* What a request returns is what the peer sent.  The buffer holds the
\* beginning of the connection's bytes, each once and in order, whatever
\* segments were lost, repeated, cut differently, delayed, or left over from
\* an earlier call; the truncation flag tells exactly whether bytes that were
\* acknowledged to the peer are missing from it; and a response that ended
\* with the peer's FIN and is not marked truncated has the whole body.
\* Segments reach rx_buffer only while the call that owns the buffer runs
\* (sys_net_http_get frees it when the call returns) and never pass its end.
ResponseExact ==
    LET c == g_tcp_client
        fin == IF c.finished /\ ~c.reset THEN 1 ELSE 0
    IN  /\ c.rx = Bytes(c.src_port, 0, Len(c.rx))
        /\ Len(c.rx) <= c.capacity
        /\ c.active => pc \in {"connect", "response"}
        /\ c.active /\ c.established /\ ~c.reset
              => c.truncated = (Acked(c) - fin > Len(c.rx))
        /\ result.call = "get" /\ result.end = "fin" /\ result.ok /\ ~result.truncated
              => result.status /\ result.body = Bytes(result.port, HdrLen, StreamLen)

\* A probe that is answered says "open" exactly when there is a server (or
\* this server itself took its answer back), even when resets and answers
\* that belong to earlier calls to the same peer come in late.
ProbeTruthful ==
    result.call = "probe" /\ result.ok
        => \/ result.open = (result.peer \in Listening)
           \/ server[result.port].aborted

\* net_http_get_ipv4 and net_tcp_probe_ipv4 return, whatever arrives, and no
\* peer is left with a connection nobody knows of: a call that is over is
\* closed at the peer by the reset of tcp_client_abort or, if that was lost
\* or carried a number the peer does not expect, by the reset that answers
\* the peer's next segment.
ConnectionsEnd ==
    /\ pc # "idle" ~> pc = "idle"
    /\ \A p \in Ports :
          server[p].st \in {"syn", "est"} ~> server[p].st = "closed"

=============================================================================
