------------------------------ MODULE UsbHid -------------------------------
(***************************************************************************)
(* usb/uhci.c: the devices found on the ports of a controller at boot, and *)
(* usb_poll, which asks the keyboards and mice among them for reports and  *)
(* passes them to the drivers of Input.                                    *)
(*                                                                         *)
(* A transfer is one step of the controller between the driver's looks at  *)
(* its descriptor.  A device repeats a report until it gets the            *)
(* acknowledgement, which may be lost; data toggles tell a repetition from *)
(* a new report.  Ticks are left out: a device may be due, a key may be    *)
(* held long enough to repeat, and a wait may be over, whenever the code   *)
(* compares the clock.                                                     *)
(*                                                                         *)
(* Two polls may overlap: terminal_wait_input begins its first one with    *)
(* interrupts on and kernel_preempt_ok set, and a task that runs during    *)
(* its wait may poll too.  There is one descriptor for all transfers.      *)
(***************************************************************************)
EXTENDS Input

CONSTANTS
    Ports,        \* 1 .. UHCI_MAX_PORTS
    Plugs,        \* what may be plugged in: interfaces at each port that is used
    MaxHid,       \* USB_HID_MAX_DEVICES
    MaxAddress,   \* 126
    FifoSize      \* reports a device keeps until it is asked

Interfaces == {"keyboard", "mouse"}

ASSUME UsbAssumption ==
    /\ IsFiniteSet(Ports) /\ Ports = 1 .. Cardinality(Ports)
    /\ \A plug \in Plugs : DOMAIN plug \subseteq Ports
    /\ MaxHid \in Nat /\ MaxAddress \in Nat /\ FifoSize \in Nat \ {0}

VARIABLES
    plug,                  \* the devices
    device,                \* their state, by port
    g_next_usb_address,
    g_hid_devices,
    port,                  \* the port usb_probe_uhci looks at next
    td                     \* the transfer under way, of which entry

usb_state == <<plug, device, g_next_usb_address, g_hid_devices, port, lost>>
usb_vars == <<usb_state, td>>
bus_vars == <<plug, device, g_next_usb_address, g_hid_devices, port, td>>

Scanned == port > Cardinality(Ports)
NoTd == [slot |-> 0, done |-> FALSE, report |-> {}]

\* Devices that listen at an address.
Answering(addr) == {p \in DOMAIN plug : device[p].enabled /\ device[p].addr = addr}

-----------------------------------------------------------------------------
(* Boot.                                                                   *)

\* The address is spent whether or not the device took it.
NextAddress == g_next_usb_address + 1

\* A key that cannot repeat stands for repeat_usage = 0.
usb_hid_register_device(type, addr) ==
    [type |-> type, addr |-> addr, toggle |-> FALSE, caps |-> FALSE,
     last |-> IF type = "mouse" THEN {FALSE} ELSE {}, repeat |-> CapsLock]

\* The entries for the interfaces of a device, in the order its descriptor
\* lists them, as far as there is room.
Registered(p, addr) ==
    LET new == Only(<<"keyboard", "mouse">>, plug[p])
        all == g_hid_devices \o
               [k \in DOMAIN new |-> usb_hid_register_device(new[k], addr)]
    IN  SubSeq(all, 1, IF Len(all) < MaxHid THEN Len(all) ELSE MaxHid)

Has(hids, type) == \E k \in DOMAIN hids : hids[k].type = type

\* Nothing at the port, or a port that cannot be enabled.
PortSkipped ==
    /\ ~Scanned
    /\ port' = port + 1
    /\ UNCHANGED <<plug, device, g_next_usb_address, g_hid_devices, td, lost, input_vars>>

\* Reset, which takes the device back to address 0.
uhci_port_reset_enable(p) ==
    [device EXCEPT ![p].enabled = TRUE, ![p].addr = 0]

\* A device that does not describe itself is left enabled at address 0.
EnumerationFails ==
    /\ ~Scanned /\ port \in DOMAIN plug
    /\ device' = uhci_port_reset_enable(port)
    /\ port' = port + 1
    /\ UNCHANGED <<plug, g_next_usb_address, g_hid_devices, td, lost, input_vars>>

\* How far the requests to a device get: any may be the last, and a transfer
\* that fails in its last stage has had its effect.
uhci_control_transfer ==
    {way \in [taken : BOOLEAN, configured : BOOLEAN] : way.configured => way.taken}

\* The device that answers at address 0 describes itself and is given an
\* address; the descriptors and the configuration follow.
uhci_enumerate_hid_on_port(taken, configured) ==
    LET reset == uhci_port_reset_enable(port)
        addr == g_next_usb_address
    IN  /\ ~Scanned /\ port \in DOMAIN plug /\ addr \in 1 .. MaxAddress
        /\ g_next_usb_address' = NextAddress
        /\ \E p \in Answering(0) \cup {port} :
              /\ device' = IF taken THEN [reset EXCEPT ![p].addr = addr] ELSE reset
              /\ g_hid_devices' = IF configured THEN Registered(p, addr)
                                  ELSE g_hid_devices
        /\ keyboard' = [keyboard EXCEPT !.usb = Has(g_hid_devices', "keyboard")]
        /\ mouse' = [mouse EXCEPT !.usb = Has(g_hid_devices', "mouse")]
        /\ port' = port + 1
        /\ UNCHANGED <<plug, td, lost, person, typed, hand, seen>>

-----------------------------------------------------------------------------
(* The devices: external.                                                  *)

\* The devices in use: those that are polled.
InUse(type) ==
    {p \in DOMAIN plug : \E k \in DOMAIN g_hid_devices :
        g_hid_devices[k].type = type /\ p \in Answering(g_hid_devices[k].addr)
        /\ type \in plug[p]}

Reports(p, type, report) ==
    /\ Len(device[p].fifo[type]) < FifoSize
    /\ device' = [device EXCEPT ![p].fifo[type] = Append(@, report)]

KeyReport(who) == [shift |-> Shifted(who), keys |-> who.keys]

UsbKeyDown(p, key) ==
    /\ ~Contains(person.keys, key)
    /\ person' = [person EXCEPT !.keys = Append(@, key),
                                !.caps = IF key = CapsLock THEN ~@ ELSE @]
    /\ typed' = IF key = CapsLock THEN typed
                ELSE Append(typed, Char(key, Shifted(person), person.caps))
    /\ Reports(p, "keyboard", KeyReport(person'))

UsbKeyUp(p, key) ==
    /\ Contains(person.keys, key)
    /\ person' = [person EXCEPT !.keys = Only(@, ToSet(@) \ {key})]
    /\ Reports(p, "keyboard", KeyReport(person'))
    /\ UNCHANGED typed

\* A report has a bit for each shift key; the driver looks at both.
UsbShift(p, key) ==
    /\ person' = Holding(key, key \notin person.shift)
    /\ Reports(p, "keyboard", KeyReport(person'))
    /\ UNCHANGED typed

\* A report has a byte for each direction; a device that has moved further
\* tells the rest in the next one.
UsbMouse(p, move, button) ==
    /\ move.right \in -128 .. 127 /\ move.down \in -128 .. 127
    /\ hand' = Moved(move, button)
    /\ Reports(p, "mouse", [dx |-> move.right, dy |-> move.down, button |-> button])

\* One keyboard and one mouse are in a person's hands.
UsbTypes ==
    /\ \E p \in InUse("keyboard") :
          /\ \A q \in InUse("keyboard") : p <= q
          /\ \/ \E key \in Keys \cup {CapsLock} : UsbKeyDown(p, key) \/ UsbKeyUp(p, key)
             \/ \E key \in ShiftKeys : UsbShift(p, key)
    /\ UNCHANGED <<plug, g_next_usb_address, g_hid_devices, port, td, lost, keyboard,
                   mouse, hand, seen>>

UsbPoints ==
    /\ \E p \in InUse("mouse"), move \in Moves, button \in BOOLEAN :
          /\ \A q \in InUse("mouse") : p <= q
          /\ UsbMouse(p, move, button)
    /\ UNCHANGED <<plug, g_next_usb_address, g_hid_devices, port, td, lost, keyboard,
                   mouse, person, typed, seen>>

-----------------------------------------------------------------------------
(* usb_poll                                                                *)

Polled == {g_hid_devices[k].type : k \in DOMAIN g_hid_devices}

\* A device that is due gets a transfer.  During another poll's transfer it
\* takes its descriptor and its buffer away: both polls may then use the same
\* report and change their toggles, and what becomes of the reports of any
\* device is left open.
usb_poll(slot) ==
    /\ Scanned
    /\ td' = [slot |-> slot, done |-> FALSE, report |-> {}]
    /\ lost' = IF td = NoTd THEN lost ELSE lost \cup Polled
    /\ UNCHANGED <<plug, device, g_next_usb_address, g_hid_devices, port, input_vars>>

\* The device with the entry's address has a report for its interface, with
\* its toggle as the descriptor expects it, or not.
Offers(p, fits) ==
    LET hid == g_hid_devices[td.slot]
    IN  /\ td.slot # 0 /\ ~td.done
        /\ p \in Answering(hid.addr) /\ hid.type \in plug[p]
        /\ device[p].fifo[hid.type] # <<>>
        /\ (device[p].toggle[hid.type] = hid.toggle) = fits

Acknowledged(p) ==
    LET type == g_hid_devices[td.slot].type
    IN  [device EXCEPT ![p].fifo[type] = Tail(@), ![p].toggle[type] = ~@]

\* The controller discards a repetition but acknowledges it.
Repetition(p) ==
    /\ Offers(p, FALSE)
    /\ device' = Acknowledged(p)
    /\ UNCHANGED <<plug, g_next_usb_address, g_hid_devices, port, lost, td, input_vars>>

\* It stores a report and acknowledges it; the device may not hear that.
Transfer(p, heard) ==
    /\ Offers(p, TRUE)
    /\ td' = [td EXCEPT !.done = TRUE,
                        !.report = {Head(device[p].fifo[g_hid_devices[td.slot].type])}]
    /\ device' = IF heard THEN Acknowledged(p) ELSE device
    /\ UNCHANGED <<plug, g_next_usb_address, g_hid_devices, port, lost, input_vars>>

\* The wait ends without a report: no answer, a device with nothing to say,
\* or an error on the line.
PollGivesUp ==
    /\ td.slot # 0 /\ ~td.done
    /\ td' = NoTd
    /\ UNCHANGED <<usb_state, input_vars>>

\* The report comes after the last look and before the descriptor is taken
\* away, or it came after a NAK whose bit is still set.  The device believes
\* it delivered, and the toggles disagree.
PollGivesUpLate ==
    /\ td.done
    /\ td' = NoTd
    /\ lost' = lost \cup {g_hid_devices[td.slot].type}
    /\ UNCHANGED <<plug, device, g_next_usb_address, g_hid_devices, port, input_vars>>

\* Slip: the toggle is left alone.
NextToggle_Kept(toggle) == toggle

NextToggle(toggle) == ~toggle

NewKeys(hid, report) == Only(report.keys, ToSet(report.keys) \ hid.last)

\* Caps lock and the characters after the new keys, in their order.
Typing(hid, report) ==
    FoldLeft(LAMBDA s, key :
                IF key = CapsLock THEN [s EXCEPT !.caps = ~@]
                ELSE [s EXCEPT !.chars = Append(@, Char(key, report.shift, s.caps))],
             [caps |-> hid.caps, chars |-> <<>>], NewKeys(hid, report))

\* The key that repeats while it is held: the first new one, or else the first.
RepeatCandidate(new, report) ==
    LET held == Only(report.keys, Keys)
    IN  IF new # <<>> THEN new[1].key ELSE IF held # <<>> THEN held[1] ELSE CapsLock

usb_hid_process_keyboard(hid, report, due) ==
    LET typing == Typing(hid, report)
        candidate == RepeatCandidate(typing.chars, report)
        again == IF due /\ candidate # CapsLock /\ candidate = hid.repeat
                 THEN <<[Char(candidate, report.shift, typing.caps) EXCEPT !.again = TRUE]>>
                 ELSE <<>>
        s == Pushed(typing.chars \o again, typed)
    IN  /\ keyboard' = [keyboard EXCEPT !.buffer = s.buffer]
        /\ typed' = s.typed
        /\ g_hid_devices' = [g_hid_devices EXCEPT ![td.slot] =
               [hid EXCEPT !.toggle = NextToggle(@), !.caps = typing.caps,
                           !.last = ToSet(report.keys), !.repeat = candidate]]
        /\ UNCHANGED <<mouse, lost>>

\* A report of a mouse counts downwards, and -128 is its own negation.
usb_hid_process_mouse(hid, report) ==
    /\ mouse' = IF report.dx # 0 \/ report.dy # 0 \/ report.button \notin hid.last
                THEN mouse_apply_delta(report.dx, Int8(-report.dy), report.button)
                ELSE mouse
    /\ lost' = lost \cup {type \in {"mouse"} : Int8(-report.dy) # -report.dy}
    /\ g_hid_devices' = [g_hid_devices EXCEPT ![td.slot] =
           [hid EXCEPT !.toggle = NextToggle(@), !.last = {report.button}]]
    /\ UNCHANGED <<keyboard, typed>>

\* A look finds the report.
PollReceives(due) ==
    LET hid == g_hid_devices[td.slot]
    IN  /\ td.done
        /\ \E report \in td.report :
              IF hid.type = "keyboard" THEN usb_hid_process_keyboard(hid, report, due)
              ELSE usb_hid_process_mouse(hid, report)
        /\ td' = NoTd
        /\ UNCHANGED <<plug, device, g_next_usb_address, port, person, hand, seen>>

-----------------------------------------------------------------------------
UsbInit ==
    /\ InputInit
    /\ plug \in Plugs
    /\ device = [p \in DOMAIN plug |->
                    [enabled |-> FALSE, addr |-> 0,
                     toggle |-> [type \in Interfaces |-> FALSE],
                     fifo |-> [type \in Interfaces |-> <<>>]]]
    /\ g_next_usb_address = 1
    /\ g_hid_devices = <<>>
    /\ port = 1
    /\ td = NoTd

UsbNext ==
    \/ PortSkipped
    \/ EnumerationFails
    \/ \E way \in uhci_control_transfer : uhci_enumerate_hid_on_port(way.taken, way.configured)
    \/ \E slot \in DOMAIN g_hid_devices : usb_poll(slot)
    \/ \E p \in DOMAIN plug : Repetition(p) \/ Transfer(p, TRUE) \/ Transfer(p, FALSE)
    \/ PollGivesUp
    \/ PollGivesUpLate
    \/ \E due \in BOOLEAN : PollReceives(due)
    \/ ReaderNext /\ UNCHANGED usb_vars

\* A keyboard and a mouse are used once the ports have been scanned.
Types == Scanned /\ (UsbTypes \/ (Ps2Types /\ UNCHANGED bus_vars))
Points == Scanned /\ (UsbPoints \/ (Ps2Points /\ UNCHANGED bus_vars))

-----------------------------------------------------------------------------
(* Properties.                                                             *)

\* Nothing that a device of this type has said is still on its way.
Quiet(type) ==
    /\ \A p \in DOMAIN plug : device[p].fifo[type] = <<>>
    /\ td.slot # 0 => g_hid_devices[td.slot].type # type

\* Readers get the characters that were typed, each once, in order and with
\* the case that shift and caps lock gave it when its key went down, whatever
\* reports were repeated or polls answered with nothing; a held key may repeat
\* in between.  A full ring loses characters one by one.  Nothing is promised
\* after a poll that gave up while its report came, after two polls that
\* overlapped (usb_poll), and after one of two shift keys of a PS/2 keyboard
\* was released while the other was held (keyboard.c:74).
KeysReadAsTyped ==
    "keyboard" \notin lost =>
        /\ IsPrefix(Plain(keyboard.buffer), typed)
        /\ Quiet("keyboard") => Plain(keyboard.buffer) = typed

\* Once the reader has taken every event it knows where the mouse was moved
\* to and whether its button is down, although events are dropped when it is
\* slow, both kinds of mouse count y their own way, and the edge of the screen
\* cuts movements short.  Nothing is promised after a poll that gave up while
\* its report came, after two polls that overlapped, and after a movement that
\* a conversion of the code changes: by more than a signed byte between two
\* packets of a PS/2 mouse (mouse.c:123-127), or by -128 downwards in a report
\* of a USB mouse (uhci.c:513).
PointerFollows ==
    "mouse" \notin lost /\ Quiet("mouse") /\ mouse.queue = <<>> => seen = hand

=============================================================================
