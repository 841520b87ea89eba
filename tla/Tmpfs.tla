---------------------------------- MODULE Tmpfs ----------------------------------
(***************************************************************************)
(* The memory file system of tmpfs.c, below its mount point.  A node is    *)
(* named by its path from there.  Memory from kmalloc holds whatever was   *)
(* there before: such a byte is Garbage, and reading it may give anything. *)
(***************************************************************************)
EXTENDS Naturals, Sequences, SequencesExt

CONSTANTS
    TmpPaths,   \* the paths programs use below the mount point
    Value,      \* the byte that programs write
    Garbage,    \* the content of memory not yet written
    MaxTmp      \* bound: end of the furthest write

VARIABLES
    tmp,        \* the nodes that exist, by path
    tmp_want    \* history: what was last written at each offset

tmp_vars == <<tmp, tmp_want>>

NoBytes == [p \in 0 .. MaxTmp - 1 |-> Garbage]

TmpParentExists(path) ==
    Len(path) = 1 \/ (Front(path) \in DOMAIN tmp /\ tmp[Front(path)].dir)

TmpChildren(path) == {q \in DOMAIN tmp : Len(q) = Len(path) + 1 /\ Front(q) = path}

NewNode(dir) == [dir |-> dir, size |-> 0, allocated_size |-> 0, data |-> NoBytes]

With(path, node) == [q \in DOMAIN tmp \union {path} |-> IF q = path THEN node ELSE tmp[q]]

\* tmpfs_create_file and tmpfs_create_dir behind the lookups of sys_fs_touch
\* and sys_fs_mkdir.  If kmalloc fails nothing is left behind.
TmpCreate(path, dir) ==
    /\ path \notin DOMAIN tmp
    /\ TmpParentExists(path)
    /\ tmp' = With(path, NewNode(dir))
    /\ UNCHANGED tmp_want

TmpDelete(path) ==
    /\ path \in DOMAIN tmp
    /\ tmp[path].dir => TmpChildren(path) = {}
    /\ tmp' = [q \in DOMAIN tmp \ {path} |-> tmp[q]]
    /\ tmp_want' = [tmp_want EXCEPT ![path] = NoBytes]

\* The buffer a write of bytes up to "needed" goes to: a fresh one of twice
\* the size, to which the file's bytes are copied, if the old one is short.
Grown(node, needed) ==
    IF needed <= node.allocated_size THEN node
    ELSE [node EXCEPT !.allocated_size = 2 * needed,
                      !.data = [p \in 0 .. MaxTmp - 1 |->
                                  IF p < node.size THEN node.data[p] ELSE Garbage]]

\* sys_fs_write over tmpfs: a missing file is created first.  (If the buffer
\* then cannot be allocated the empty file stays, as after TmpCreate.)
tmpfs_write(path, offset, size) ==
    /\ IF path \in DOMAIN tmp THEN ~tmp[path].dir ELSE TmpParentExists(path)
    /\ offset + size <= MaxTmp
    /\ LET old == IF path \in DOMAIN tmp THEN tmp[path] ELSE NewNode(FALSE)
           node == Grown(old, offset + size)
           Put(bytes) == [p \in DOMAIN bytes |->
                            IF p \in offset .. offset + size - 1 THEN Value ELSE bytes[p]]
       IN  /\ tmp' = With(path, [node EXCEPT !.data = Put(@),
                                             !.size = IF offset + size > @ THEN offset + size ELSE @])
           /\ tmp_want' = [tmp_want EXCEPT ![path] = Put(@)]

TmpNext ==
    \E path \in TmpPaths :
          \/ \E dir \in BOOLEAN : TmpCreate(path, dir)
          \/ TmpDelete(path)
          \/ \E offset \in 0 .. MaxTmp - 1, size \in 1 .. MaxTmp : tmpfs_write(path, offset, size)

\* tmpfs_read below sys_fs_read: the bytes up to the end of the file.
tmpfs_read(node, offset, size) ==
    [p \in {q \in offset .. offset + size - 1 : q < node.size} |-> node.data[p]]

\* Every byte a program has written to a tmpfs file is in the file and still
\* the byte it wrote, however often the buffer was moved to a larger one.
TmpfsKeepsBytes ==
    \A path \in DOMAIN tmp, p \in 0 .. MaxTmp - 1 :
       ~tmp[path].dir /\ tmp_want[path][p] # Garbage =>
          LET bytes == tmpfs_read(tmp[path], 0, MaxTmp)
          IN  /\ p \in DOMAIN bytes
              /\ p < tmp[path].allocated_size
              /\ bytes[p] = tmp_want[path][p]
=============================================================================
