----------------------------- MODULE MCDevices -----------------------------
(***************************************************************************)
(* The drivers of the devices.  A behaviour is about one of them: a person *)
(* types or uses the mouse, or frames arrive or are sent.                  *)
(***************************************************************************)
EXTENDS UsbHid, Nic

VARIABLE use

vars == <<use, usb_vars, input_vars, nic_vars>>

Init ==
    /\ use \in {"keyboard", "mouse", "receive", "send"}
    /\ UsbInit
    /\ NicInit
    /\ use \in {"keyboard", "mouse"} => backend = "e1000"
    /\ use \in {"receive", "send"} => plug = <<>>
    /\ use = "keyboard" => 2 \notin DOMAIN plug

\* Behaviours are followed until something happens after which the properties
\* promise nothing.
Next ==
    /\ lost = {} /\ ~astray /\ ~reused
    /\ \/ use \in {"keyboard", "mouse"} /\ UsbNext /\ UNCHANGED nic_vars
       \/ use = "keyboard" /\ Types /\ UNCHANGED nic_vars
       \/ use = "mouse" /\ Points /\ UNCHANGED nic_vars
       \/ use = "receive" /\ ReceiveNext /\ UNCHANGED <<usb_vars, input_vars>>
       \/ use = "send" /\ SendNext /\ UNCHANGED <<usb_vars, input_vars>>
    /\ UNCHANGED use

Spec == Init /\ [][Next]_vars

Move(right, down) == [right |-> right, down |-> down]
MCMoves == {Move(1, 1), Move(-1, 0), Move(0, 0),
            Move(0, -128), Move(0, 200), Move(300, 0)}
MCPlugs == {<<>>, (1 :> {"keyboard"}), (1 :> {"keyboard", "mouse"}),
            (1 :> {} @@ 2 :> {"keyboard", "mouse"})}
MCFrames == {<<1>>, <<2, 1, 2, 1, 2>>, <<1, 1, 2, 1, 2, 2>>}
MCTasks == Permutations(Senders)
=============================================================================
