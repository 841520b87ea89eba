-------------------------------- MODULE Nic --------------------------------
(***************************************************************************)
(* net_driver.c: an E1000 with rings of descriptors or, failing that, an   *)
(* RTL8139 with one ring of bytes for what arrives and a few buffers for   *)
(* what is sent.  The card works on its own between any two steps of the   *)
(* driver; busy waits end whenever the card is done, or at any time        *)
(* without it (a link that is down, a slow card).  Polls come one at a     *)
(* time (NetPoll), calls of send_frame from several tasks, one of which    *)
(* may be preempted in the driver.                                         *)
(***************************************************************************)
EXTENDS Integers, Sequences

CONSTANTS
    Frames,         \* what is sent or arrives: sequences of bytes
    Senders,        \* tasks that send
    Capacity,       \* of the buffer a poll copies to
    MinLength,      \* 60: shorter frames are padded
    BufferSize,     \* of a transmit buffer
    E1000RxCount, E1000TxCount, RtlTxCount,
    RingSize,       \* RTL_RX_BUFFER_SIZE
    MaxLength       \* 1792: the RTL8139 driver takes no more, check sequence included

Aligned(n) == ((n + 3) \div 4) * 4
RingNeeds(frame) == Aligned(4 + Len(frame) + 4)

ASSUME NicAssumption ==
    /\ Frames \subseteq Seq(0 .. 255)
    /\ \A frame \in Frames : Len(frame) \in 1 .. BufferSize /\ RingNeeds(frame) < RingSize
    /\ Capacity \in Nat /\ BufferSize \in Nat /\ MinLength \in 1 .. BufferSize
    /\ {E1000RxCount, E1000TxCount, RtlTxCount} \subseteq Nat \ {0, 1}
    /\ RingSize \in Nat \ {0} /\ RingSize % 4 = 0 /\ MaxLength \in Nat

VARIABLES
    backend,     \* g_net_backend_ops
    rx,          \* descriptors or ring, with the card's and the driver's places
    tx,          \* transmit buffers, likewise
    pending,     \* history: frames the card has stored that no poll has returned
    received,    \* history: what the last poll returned, what it had to return
    astray,      \* history: the driver took its place in the ring for lost
    calls,       \* of send_frame, by task: how far, its buffer and frame, and as
                 \* history how many frames the card has to deal with to its own
    handed,      \* history: frames given to the card that it has not dealt with
    sent,        \* history: what the card sent last, what it had to send
    answer,      \* what the last call of send_frame said, and how many were left
    reused       \* history: a buffer was taken that another call was about to use,
                 \* or one the card was not done with

rx_vars == <<rx, pending, received, astray>>
tx_vars == <<tx, calls, handed, sent, answer, reused>>
nic_vars == <<backend, rx_vars, tx_vars>>

Cut(frame) == SubSeq(frame, 1, IF Len(frame) < Capacity THEN Len(frame) ELSE Capacity)
FirstOf(queue, none) == IF queue = <<>> THEN none ELSE Head(queue)
Rest(queue) == SubSeq(queue, 2, Len(queue))
NoFrame == [frame |-> <<>>, over |-> FALSE]

\* A poll returns a frame; the first of those waiting was expected.
Returned(got) ==
    LET want == FirstOf(pending, NoFrame)
    IN  /\ received' = [got |-> got, want |-> Cut(want.frame), over |-> want.over]
        /\ pending' = Rest(pending)

-----------------------------------------------------------------------------
(* Receiving with an E1000.                                                *)

e1000_setup_rx ==
    [desc |-> [i \in 0 .. E1000RxCount - 1 |-> [done |-> FALSE, frame |-> <<>>]],
     rdh |-> 0, rdt |-> E1000RxCount - 1, head |-> 0, step |-> "copy"]

\* The card may use the descriptors from RDH up to RDT; it drops a frame when
\* there is none.
E1000Stores(frame) ==
    /\ backend = "e1000" /\ rx.rdh # rx.rdt
    /\ rx' = [rx EXCEPT !.desc[rx.rdh] = [done |-> TRUE, frame |-> frame],
                        !.rdh = (@ + 1) % E1000RxCount]
    /\ pending' = Append(pending, [frame |-> frame, over |-> FALSE])
    /\ UNCHANGED <<received, astray, backend, tx_vars>>

\* Slip: the descriptor is given back as it is.
StepAfter_NotCleared(step) == IF step = "copy" THEN "tail" ELSE "copy"

\* The frame is copied, the descriptor marked empty and given back to the card.
StepAfter(step) ==
    CASE step = "copy" -> "clear" [] step = "clear" -> "tail" [] step = "tail" -> "copy"

e1000_hw_poll_frame ==
    /\ backend = "e1000" /\ rx.step = "copy" /\ rx.desc[rx.head].done
    /\ Returned(Cut(rx.desc[rx.head].frame))
    /\ rx' = [rx EXCEPT !.step = StepAfter(@)]
    /\ UNCHANGED <<astray, backend, tx_vars>>

E1000PollReleases ==
    /\ backend = "e1000" /\ rx.step # "copy"
    /\ rx' = [rx EXCEPT !.desc[rx.head].done = @ /\ rx.step # "clear",
                        !.rdt = IF rx.step = "tail" THEN rx.head ELSE @,
                        !.head = IF StepAfter(rx.step) = "copy"
                                 THEN (@ + 1) % E1000RxCount ELSE @,
                        !.step = StepAfter(@)]
    /\ UNCHANGED <<pending, received, astray, backend, tx_vars>>

-----------------------------------------------------------------------------
(* Receiving with an RTL8139.  RCR has WRAP set: the card writes a frame   *)
(* past the end of the ring rather than to its beginning.                  *)

rtl8139_rx == [ring |-> [b \in 0 .. 2 * RingSize - 1 |-> 0], end |-> 0, rx_offset |-> 0]

\* A header with the length, the frame and its check sequence.
Stored(ring, at, frame) ==
    [b \in DOMAIN ring |->
        IF b = at THEN Len(frame) + 4
        ELSE IF b \in at + 4 .. at + 3 + Len(frame) THEN frame[b - at - 3]
        ELSE IF b \in at .. at + 7 + Len(frame) THEN 0
        ELSE ring[b]]

\* A frame for which there is no room is dropped.
RtlStores(frame) ==
    /\ backend = "rtl8139"
    /\ pending = <<>> \/ RingNeeds(frame) < (rx.rx_offset - rx.end) % RingSize
    /\ rx' = [rx EXCEPT !.ring = Stored(@, rx.end, frame),
                        !.end = (@ + RingNeeds(frame)) % RingSize]
    /\ pending' = Append(pending, [frame |-> frame,
                                   over |-> rx.end + 4 + Len(frame) > RingSize])
    /\ UNCHANGED <<received, astray, backend, tx_vars>>

rtl8139_ring_read_u8(offset) == rx.ring[offset % RingSize]

rtl8139_ring_copy(offset, length) == [i \in 1 .. length |-> rtl8139_ring_read_u8(offset + i - 1)]

LengthFound == rtl8139_ring_read_u8(rx.rx_offset)

rtl8139_hw_poll_frame ==
    /\ backend = "rtl8139" /\ pending # <<>> /\ LengthFound \in 4 .. MaxLength
    /\ Returned(Cut(rtl8139_ring_copy(rx.rx_offset + 4, LengthFound - 4)))
    /\ rx' = [rx EXCEPT !.rx_offset = Aligned(@ + LengthFound + 4) % RingSize]
    /\ UNCHANGED <<astray, backend, tx_vars>>

\* A header that cannot be right sends the driver to the beginning of the
\* ring.  The card goes on where it was, so that frames are no longer found.
RtlPollResets ==
    /\ backend = "rtl8139" /\ pending # <<>> /\ LengthFound \notin 4 .. MaxLength
    /\ rx' = [rx EXCEPT !.rx_offset = 0]
    /\ astray' = TRUE
    /\ UNCHANGED <<pending, received, backend, tx_vars>>

-----------------------------------------------------------------------------
(* Sending.                                                                *)

TxCount == IF backend = "e1000" THEN E1000TxCount ELSE RtlTxCount

e1000_setup_tx(count) ==
    [slot |-> [i \in 0 .. count - 1 |-> [status |-> "done", length |-> 0,
                                         bytes |-> [b \in 1 .. BufferSize |-> 0]]],
     next |-> 0, card |-> 0]

NoCall == [at |-> "none", slot |-> 0, frame |-> <<>>, left |-> 0]

\* Calls that use the next buffer and have not moved on from it: an E1000's
\* tail moves before the wait for the card, tx_index of an RTL8139 after it.
Undecided ==
    {c \in Senders : \/ calls[c].at = "chosen"
                     \/ calls[c].at = "waits" /\ backend = "rtl8139"}

\* The tail, or tx_index, is read.
ChoosesBuffer(c, frame) ==
    /\ calls[c].at = "none"
    /\ calls' = [calls EXCEPT ![c] = [at |-> "chosen", slot |-> tx.next, frame |-> frame,
                                     left |-> 0]]
    /\ reused' = (reused \/ Undecided # {})
    /\ UNCHANGED <<tx, handed, sent, answer, backend, rx_vars>>

PaddedLength(frame) == IF Len(frame) < MinLength THEN MinLength ELSE Len(frame)

\* The frame over what an earlier one left, zeros up to the minimum.
Filled(bytes, frame) ==
    [b \in 1 .. BufferSize |->
        IF b <= Len(frame) THEN frame[b] ELSE IF b <= MinLength THEN 0 ELSE bytes[b]]

Given(slot, frame) ==
    [status |-> "given", length |-> PaddedLength(frame),
     bytes |-> Filled(tx.slot[slot].bytes, frame)]

Padded(frame) == frame \o [b \in 1 .. PaddedLength(frame) - Len(frame) |-> 0]

E1000Free(c) == tx.slot[calls[c].slot].status = "done"

SlotAfter(slot) == (slot + 1) % TxCount

\* The call of c has handed its frame over.
HandsOver(c) ==
    /\ handed' = Append(handed, Padded(calls[c].frame))
    /\ calls' = [calls EXCEPT ![c].at = "waits", ![c].left = Len(handed')]
    /\ UNCHANGED <<sent, answer, backend, rx_vars>>

\* TDT moves on before the wait for the card.
e1000_hw_send_frame(c) ==
    LET slot == calls[c].slot
    IN  /\ backend = "e1000" /\ calls[c].at = "chosen" /\ E1000Free(c)
        /\ tx' = [tx EXCEPT !.slot[slot] = Given(slot, calls[c].frame),
                            !.next = SlotAfter(slot)]
        /\ HandsOver(c)
        /\ UNCHANGED reused

\* All descriptors are in use and stay so for the whole wait.
E1000SendRefused(c) ==
    /\ backend = "e1000" /\ calls[c].at = "chosen" /\ ~E1000Free(c)
    /\ calls' = [calls EXCEPT ![c] = NoCall]
    /\ answer' = [said |-> FALSE, left |-> 0]
    /\ UNCHANGED <<tx, handed, sent, reused, backend, rx_vars>>

\* The buffer is used whether or not the card is done with it.
rtl8139_hw_send_frame(c) ==
    LET slot == calls[c].slot
    IN  /\ backend = "rtl8139" /\ calls[c].at = "chosen"
        /\ reused' = (reused \/ tx.slot[slot].status = "given")
        /\ tx' = [tx EXCEPT !.slot[slot] = Given(slot, calls[c].frame)]
        /\ HandsOver(c)

\* The card has said how it went, or the wait was long enough.
SendReturns(c) ==
    LET slot == calls[c].slot
    IN  /\ calls[c].at = "waits"
        /\ answer' = [said |-> tx.slot[slot].status = "done", left |-> calls[c].left]
        /\ calls' = [calls EXCEPT ![c] = NoCall]
        /\ tx' = IF backend = "e1000" THEN tx ELSE [tx EXCEPT !.next = SlotAfter(slot)]
        /\ UNCHANGED <<handed, sent, reused, backend, rx_vars>>

\* The card deals with its next buffer: an E1000 as far as TDT, an RTL8139
\* while one is given, and that may abort.
CardSends(status) ==
    LET slot == tx.slot[tx.card]
    IN  /\ IF backend = "e1000" THEN tx.card # tx.next /\ status = "done"
           ELSE slot.status = "given"
        /\ tx' = [tx EXCEPT !.slot[tx.card].status = status, !.card = SlotAfter(@)]
        /\ handed' = Rest(handed)
        /\ sent' = IF status = "done"
                   THEN [got |-> SubSeq(slot.bytes, 1, slot.length),
                         want |-> FirstOf(handed, <<>>)]
                   ELSE sent
        /\ calls' = [c \in Senders |->
                        [calls[c] EXCEPT !.left = IF @ > 0 THEN @ - 1 ELSE 0]]
        /\ UNCHANGED <<answer, reused, backend, rx_vars>>

-----------------------------------------------------------------------------
e1000_hw_init ==
    /\ backend = "e1000"
    /\ rx = e1000_setup_rx
    /\ tx = e1000_setup_tx(E1000TxCount)

rtl8139_hw_init ==
    /\ backend = "rtl8139"
    /\ rx = rtl8139_rx
    /\ tx = e1000_setup_tx(RtlTxCount)

\* The RTL8139 is used where there is no E1000 or it cannot be set up.
rtl8139_init == e1000_hw_init \/ rtl8139_hw_init

NicInit ==
    /\ rtl8139_init
    /\ pending = <<>> /\ received = [got |-> <<>>, want |-> <<>>, over |-> FALSE]
    /\ astray = FALSE
    /\ calls = [c \in Senders |-> NoCall]
    /\ handed = <<>> /\ sent = [got |-> <<>>, want |-> <<>>]
    /\ answer = [said |-> FALSE, left |-> 0] /\ reused = FALSE

ReceiveNext ==
    \/ \E frame \in Frames : E1000Stores(frame) \/ RtlStores(frame)
    \/ e1000_hw_poll_frame
    \/ E1000PollReleases
    \/ rtl8139_hw_poll_frame
    \/ RtlPollResets

SendNext ==
    \/ \E c \in Senders :
          \/ \E frame \in Frames : ChoosesBuffer(c, frame)
          \/ e1000_hw_send_frame(c)
          \/ rtl8139_hw_send_frame(c)
          \/ E1000SendRefused(c)
          \/ SendReturns(c)
    \/ \E status \in {"done", "aborted"} : CardSends(status)

-----------------------------------------------------------------------------
(* Properties.                                                             *)

\* The driver looks where the first frame that waits is.
LooksAtNext ==
    pending # <<>> =>
        IF backend = "e1000" THEN rx.step = "copy" => rx.desc[rx.head].done
        ELSE LengthFound = Len(Head(pending).frame) + 4

\* Polls return the frames that arrived, each once, in order and byte for
\* byte, while the card stores others, and the next one is always found; a
\* frame an RTL8139 stores across the end of its ring is damaged, those after
\* it are not.  Nothing is promised of what an RTL8139 receives once a frame
\* longer than 1792 bytes came (net_driver.c:230).  The card sends what it was
\* given, in order and padded with zeros, and a call says TRUE only for a
\* frame that went out, other calls waiting beside it or not.  Nothing is
\* promised of what is sent once two calls were about to use one buffer (626
\* to 652, 172 to 193), or an RTL8139 buffer was used again before the card
\* had sent it.
FramesIntact ==
    /\ ~astray => (~received.over => received.got = received.want) /\ LooksAtNext
    /\ ~reused => sent.got = sent.want /\ (answer.said => answer.left = 0)

=============================================================================
