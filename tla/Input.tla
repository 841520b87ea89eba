------------------------------- MODULE Input -------------------------------
(***************************************************************************)
(* The keyboard and mouse drivers: PS/2 interrupts and injected USB        *)
(* reports on one side, sys_kb_poll, terminal_read and sys_mouse_poll on   *)
(* the other.  Both drivers turn interrupts off while they use their ring  *)
(* or queue, so each function is one step.  The rings are sequences of at  *)
(* most one element less than their arrays hold.                           *)
(*                                                                         *)
(* A person uses the keyboard and the mouse that are in use: the USB       *)
(* device once one is registered, the PS/2 device otherwise.               *)
(***************************************************************************)
EXTENDS Integers, Sequences, FiniteSets, SequencesExt

CONSTANTS
    Letters,          \* keys that caps lock changes
    OtherKeys,        \* keys that it does not
    Moves,            \* movements of a mouse between two reports: right, down
    KeyBufferSize,    \* KEY_BUFFER_SIZE
    MouseQueueSize,   \* MOUSE_QUEUE_SIZE
    Width, Height     \* of the framebuffer

CapsLock == "caps lock"
ShiftKeys == {"left shift", "right shift"}
Keys == Letters \cup OtherKeys

ASSUME InputAssumption ==
    /\ CapsLock \notin Keys /\ Letters \cap OtherKeys = {}
    /\ KeyBufferSize \in Nat /\ KeyBufferSize > 1
    /\ MouseQueueSize \in Nat /\ MouseQueueSize > 1
    /\ Width \in Nat \ {0} /\ Height \in Nat \ {0}
    /\ \A move \in Moves : move.right \in Int /\ move.down \in Int

VARIABLES
    keyboard,   \* key_buffer, shift_pressed, caps_lock, usb_hid_active
    mouse,      \* mouse_x, mouse_y, mouse_buttons, queue, usb_hid_active
    person,     \* what is held down, on the keyboard in use
    lost,       \* history: "keyboard", "mouse": what was done there has got lost in
                \* one of the ways named at the properties
    typed,      \* history: characters typed that nobody has read yet
    hand,       \* history: where the mouse was moved to, and its button
    seen        \* what the reader of mouse events knows

input_vars == <<keyboard, mouse, person, typed, hand, seen>>

\* The elements of a sequence that are in a set.
Only(seq, S) ==
    FoldLeft(LAMBDA kept, e : IF e \in S THEN Append(kept, e) ELSE kept, <<>>, seq)

-----------------------------------------------------------------------------
(* keyboard.c                                                              *)

\* Either shift key is down.
Shifted(who) == who.shift # {}

Upper(key, shift, caps) == IF key \in Letters THEN shift # caps ELSE shift

Char(key, shift, caps) ==
    [key |-> key, upper |-> Upper(key, shift, caps), again |-> FALSE]

\* Characters that were typed, without those a held key repeats.
Plain(chars) == Only(chars, {c \in ToSet(chars) : ~c.again})

\* A ring and what is expected of it: a character that finds the ring full is
\* lost, and nobody waits for it any more.
key_buffer_push(s, c) ==
    IF Len(s.buffer) < KeyBufferSize - 1
    THEN [s EXCEPT !.buffer = Append(@, c)]
    ELSE IF c.again \/ Len(Plain(s.buffer)) >= Len(s.typed) THEN s
    ELSE [s EXCEPT !.typed = RemoveAt(@, Len(Plain(s.buffer)) + 1)]

Pushed(chars, expected) ==
    FoldLeft(key_buffer_push, [buffer |-> keyboard.buffer, typed |-> expected], chars)

PressedChar(key) == Char(key, keyboard.shift, keyboard.caps)

\* A make code; a key that repeats sends it again.
keyboard_handler(key) ==
    LET s == Pushed(<<PressedChar(key)>>,
                    Append(typed, Char(key, Shifted(person), person.caps)))
    IN  /\ ~keyboard.usb
        /\ keyboard' = [keyboard EXCEPT !.buffer = s.buffer]
        /\ typed' = s.typed
        /\ UNCHANGED <<mouse, person, lost, hand, seen>>

\* The person with one more shift key down, or one less.
Holding(key, down) ==
    [person EXCEPT !.shift = IF down THEN @ \cup {key} ELSE @ \ {key}]

\* A make or break code of a shift key.  One flag stands for both keys: when
\* one is released while the other is held, the driver takes shift for up.
HandleShift(key, down) ==
    /\ ~keyboard.usb
    /\ down \/ key \in person.shift
    /\ keyboard' = [keyboard EXCEPT !.shift = down]
    /\ person' = Holding(key, down)
    /\ lost' = lost \cup {type \in {"keyboard"} : Shifted(person') # down}
    /\ UNCHANGED <<mouse, typed, hand, seen>>

HandleCapsLock ==
    /\ ~keyboard.usb
    /\ keyboard' = [keyboard EXCEPT !.caps = ~@]
    /\ person' = [person EXCEPT !.caps = ~@]
    /\ UNCHANGED <<mouse, lost, typed, hand, seen>>

\* The reader, whichever call it makes, takes one character.
keyboard_getchar ==
    /\ keyboard.buffer # <<>>
    /\ keyboard' = [keyboard EXCEPT !.buffer = Tail(@)]
    /\ typed' = IF Head(keyboard.buffer).again \/ typed = <<>> THEN typed ELSE Tail(typed)
    /\ UNCHANGED <<mouse, person, hand, seen>>

-----------------------------------------------------------------------------
(* mouse.c                                                                 *)

clamp_i32(v, lo, hi) == IF v < lo THEN lo ELSE IF v > hi THEN hi ELSE v

\* Slip: an event that finds the queue full is dropped.
mouse_queue_push_DropsNew(queue, ev) ==
    IF Len(queue) < MouseQueueSize - 1 THEN Append(queue, ev) ELSE queue

mouse_queue_push(queue, ev) ==
    IF Len(queue) < MouseQueueSize - 1 THEN Append(queue, ev) ELSE Append(Tail(queue), ev)

\* dy counts upwards, the screen downwards.
mouse_apply_delta(dx, dy, button) ==
    LET ev == [x |-> clamp_i32(mouse.x + dx, 0, Width - 1),
               y |-> clamp_i32(mouse.y - dy, 0, Height - 1), button |-> button]
    IN  IF ev = [x |-> mouse.x, y |-> mouse.y, button |-> mouse.button] THEN mouse
        ELSE [mouse EXCEPT !.x = ev.x, !.y = ev.y, !.button = button,
                           !.queue = mouse_queue_push(@, ev)]

\* Where a movement takes the hand.
Moved(move, button) ==
    [x |-> clamp_i32(hand.x + move.right, 0, Width - 1),
     y |-> clamp_i32(hand.y + move.down, 0, Height - 1), button |-> button]

\* The cast to int8_t.
Int8(v) == ((v + 128) % 256) - 128

\* A PS/2 packet has nine bits of a count and a flag for more; the driver
\* takes the lower eight, or none.
PacketDelta(v) == IF v \in -256 .. 255 THEN Int8(v) ELSE 0

mouse_handle_packet(move, button) ==
    mouse_apply_delta(PacketDelta(move.right), PacketDelta(-move.down), button)

\* The three bytes of a packet.  None of them is ever missing, so that the
\* search for a first byte finds it at once.
mouse_handler(move, button) ==
    /\ ~mouse.usb
    /\ mouse' = mouse_handle_packet(move, button)
    /\ hand' = Moved(move, button)
    /\ lost' = lost \cup {type \in {"mouse"} : \/ PacketDelta(move.right) # move.right
                                              \/ PacketDelta(-move.down) # -move.down}
    /\ UNCHANGED <<keyboard, person, typed, seen>>

mouse_poll_event ==
    /\ mouse.queue # <<>>
    /\ seen' = Head(mouse.queue)
    /\ mouse' = [mouse EXCEPT !.queue = Tail(@)]
    /\ UNCHANGED <<keyboard, person, typed, hand>>

-----------------------------------------------------------------------------
Centre == [x |-> Width \div 2, y |-> Height \div 2, button |-> FALSE]

keyboard_init ==
    keyboard = [buffer |-> <<>>, shift |-> FALSE, caps |-> FALSE, usb |-> FALSE]

mouse_init ==
    mouse = [x |-> Centre.x, y |-> Centre.y, button |-> FALSE, queue |-> <<>>,
             usb |-> FALSE]

InputInit ==
    /\ keyboard_init
    /\ mouse_init
    /\ person = [shift |-> {}, caps |-> FALSE, keys |-> <<>>]
    /\ lost = {}
    /\ typed = <<>>
    /\ hand = Centre
    /\ seen = Centre

Ps2Types ==
    \/ \E key \in Keys : keyboard_handler(key)
    \/ \E key \in ShiftKeys, down \in BOOLEAN : HandleShift(key, down)
    \/ HandleCapsLock

Ps2Points == \E move \in Moves, button \in BOOLEAN : mouse_handler(move, button)

ReaderNext == keyboard_getchar \/ mouse_poll_event

=============================================================================
