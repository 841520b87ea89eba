------------------------------ MODULE MCMemory ------------------------------
(***************************************************************************)
(* Two-byte pages.  The boot tables are frames 1 to 3; PML4 entry 0 is the *)
(* kernel's identity map, 1 is the processes', 2 the kernel's half with    *)
(* the direct map and the window of kernel stacks.                         *)
(***************************************************************************)
EXTENDS UserAccess

MCFan == <<4, 2, 3, 3>>

Row(entries) ==
    [i \in 0 .. 3 |-> IF i \in DOMAIN entries THEN entries[i] ELSE NoEntry]
TableEntry(f) == [phys |-> f, flags |-> {"present", "write"}]
HugeEntry == [phys |-> 0, flags |-> {"present", "write", "huge"}]

MCBootTables ==
    1 :> Row(0 :> TableEntry(2) @@ 2 :> TableEntry(3)) @@
    2 :> Row(0 :> HugeEntry) @@ 3 :> Row(0 :> HugeEntry)

MCBootRanges == {<<0, 7>>}

\* How much memory the firmware leaves.
MCFirmwareRanges == {<<2 * k - 1, 99>> : k \in {5, 7, 8} \cup 11 .. 22} \cup {<<67, 99>>}

\* .data begins in the last page of .text; .bss follows.
Text == [vaddr |-> 48, filesz |-> 3, memsz |-> 3, writable |-> FALSE, inside |-> TRUE]
Data == [vaddr |-> 51, filesz |-> 1, memsz |-> 2, writable |-> TRUE, inside |-> TRUE]
NoBss == [vaddr |-> 60, filesz |-> 0, memsz |-> 0, writable |-> TRUE, inside |-> TRUE]
Truncated == [vaddr |-> 51, filesz |-> 1, memsz |-> 2, writable |-> TRUE, inside |-> FALSE]

MCPrograms == {<<Text, Data>>, <<Text, NoBss, Truncated>>}

MCAddrs == {0, 47, 48, 51, 63, 95}
=============================================================================
