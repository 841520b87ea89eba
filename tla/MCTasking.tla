----------------------------- MODULE MCTasking -----------------------------
(***************************************************************************)
(* Instances of Tasking: the programs of src/userland and what they call.  *)
(***************************************************************************)
EXTENDS Tasking, TLC

\* shell.c runs commands and reads lines; the desktop drives programs through
\* PTYs, collects them and sleeps once a frame; everything else computes,
\* sleeps and exits.
ShippedCalls ==
    ("shell" :> {"exec", "read", "exit"}) @@
    ("desktop" :> {"pty_open", "pty_spawn", "pty_close", "waitpid", "sleep", "exit"}) @@
    ("app" :> {"sleep", "exit"})

\* A program that may make every call that creates, collects or ends a task
\* or touches a PTY, in any order.
AnyCalls == "any" :> (Syscalls \ {"read", "sleep"})

UserAddresses == Permutations(Addr \ {Idle})
=============================================================================
