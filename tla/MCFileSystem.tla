------------------------------ MODULE MCFileSystem ------------------------------
(* A disk of three clusters of two sectors and one spare table entry.        *)
EXTENDS FileSystem

\* Created as A.X, a file is called AX until the next boot.
MCNames == {<<"A", ".", "X">>, <<"A", "X">>}
MCBootDirs == <<<<"D">>>>
MCMountName == <<"T">>
MCTmpPaths == {<<"E">>, <<"E", "F">>}

Blank == [c \in Clusters |-> [p \in 0 .. ClusterBytes - 1 |-> 0]]
Empty == [fat |-> [c \in Entries |-> 0], data |-> Blank, root |-> [s \in Slots |-> EndSlot]]

\* A disk with one file of one full cluster.
OneFile ==
    [fat  |-> [Empty.fat EXCEPT ![2] = EOC],
     data |-> [Blank EXCEPT ![2] = [p \in DOMAIN @ |-> Value + 1]],
     root |-> [Empty.root EXCEPT ![1] = UsedSlot(To83(<<"A", "X">>), FALSE, 2, ClusterBytes)]]

MCWrites == {[offset |-> 0, size |-> 1], [offset |-> 1, size |-> 2]}

\* The bytes of a free cluster are zeroed before they are read, so states that
\* differ only there are the same.
View == <<fat, [c \in {d \in Clusters : fat[d] # 0} |-> data[c]], root, nodes, boot, op, want,
          damaged, faults, calls, tmp, tmp_want>>

\* tmpfs and the disk share no state but the mount point: no call on the disk
\* is followed while tmpfs holds something.
TmpfsApart == DOMAIN tmp # {} => op = NoOp /\ faults = 0

MCDisks == {OneFile}
=============================================================================
