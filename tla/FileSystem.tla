------------------------------- MODULE FileSystem -------------------------------
(***************************************************************************)
(* The files of the system: fat16.c at the root of vfs.c, tmpfs over one   *)
(* name, the file calls of syscall.c and the boot code of kernel.c that    *)
(* mounts the disk, ensures the standard directories and mounts tmpfs.     *)
(*                                                                         *)
(* A file call is never preempted, so one call is under way at a time.     *)
(* Each of its sector writes is a step of its own, which may be carried    *)
(* out, fail without effect, or be carried out and reported as failed (a   *)
(* timeout of the cache flush, or a failure on the second copy of the      *)
(* allocation table, which is never read).  Reads of the table may fail    *)
(* too; the code then sees the value 0.  The machine may be reset between  *)
(* any two steps.                                                          *)
(*                                                                         *)
(* FAT files live only in the root directory: fat16_create_file refuses    *)
(* any other parent.  Letter case is left out: lookups ignore it and the   *)
(* disk holds upper case only.                                             *)
(***************************************************************************)
EXTENDS Naturals, FiniteSets, FiniteSetsExt, Sequences, SequencesExt, Tmpfs

CONSTANTS
    LastCluster,       \* clusters with sectors on the disk: 2..LastCluster
    LastEntry,         \* entries of the allocation table: 2..LastEntry
    SectorsPerCluster,
    SectorBytes,
    RootEntries,       \* slots of the root directory
    BaseLen, ExtLen,   \* 8 and 3: the characters of a name on disk
    Names,             \* the names programs use, as sequences of characters
    BootDirs,          \* persistent_dirs of bootstrap_filesystem_layout
    MountName,         \* "tmp"
    Disks,             \* the disks the system may be started with
    Writes,            \* bound: the offsets and sizes of the writes programs make
    MaxLen,            \* the end of the furthest of these
    MaxFaults,         \* bound: failures of the disk or of kmalloc, and resets
    MaxCalls           \* bound: calls on the disk between two resets

ASSUME FileSystemAssumption ==
    /\ LastCluster \in Nat \ {0, 1}
    /\ LastEntry \in Nat /\ LastEntry >= LastCluster
    /\ {SectorsPerCluster, SectorBytes, RootEntries, BaseLen} \subseteq Nat \ {0}
    /\ ExtLen \in Nat

Clusters == 2 .. LastCluster
Entries == 2 .. LastEntry
EOC == LastEntry + 1                       \* 0xFFFF: the last of a chain
ClusterBytes == SectorsPerCluster * SectorBytes
Slots == 1 .. RootEntries
Offsets == 0 .. MaxLen - 1

VARIABLES
    fat,      \* the allocation table: 0 is free
    data,     \* the bytes of each cluster
    root,     \* the slots of the root directory
    nodes,    \* the children of the root node, in list order
    boot,     \* the directories boot still has to ensure, then the mount
    op,       \* the call under way
    want,     \* history: per slot and offset, the bytes a reader may see
    damaged,  \* history: the slots whose file the code, or a failure, has spoilt
    faults,   \* failures and resets so far
    calls     \* calls since the last reset

disk == <<fat, data, root>>
vars == <<fat, data, root, nodes, boot, op, want, damaged, faults, calls, tmp, tmp_want>>

-----------------------------------------------------------------------------
(* Names.  On disk a name is a base and an extension.                       *)

Upto(s, n) == SubSeq(s, 1, Min({n, Len(s)}))

To83(name) ==
    LET dot == Min({i \in 1 .. Len(name) : name[i] = "."} \union {Len(name) + 1})
    IN  [base |-> Upto(name, Min({dot - 1, BaseLen})),
         ext  |-> IF dot - 1 <= BaseLen
                  THEN Upto(SubSeq(name, dot + 1, Len(name)), ExtLen)
                  ELSE <<>>]

\* The name a new file gets in memory: the dot is put in only while the last
\* character of a full base is copied.
CreatedFileName(e) ==
    e.base \o (IF Len(e.base) = BaseLen /\ e.ext # <<>> THEN <<".">> ELSE <<>>) \o e.ext

CreatedDirName(e) == e.base \o e.ext

CreatedName(e, dir) == IF dir THEN CreatedDirName(e) ELSE CreatedFileName(e)

\* The name the same entry gets at the next boot.
MountedName(e) ==
    e.base \o (IF e.ext # <<>> THEN <<".">> ELSE <<>>) \o e.ext

-----------------------------------------------------------------------------
(* Directory slots and nodes.                                               *)

EndSlot == [mark |-> "end", name83 |-> To83(<<>>), dir |-> FALSE, cluster |-> 0, size |-> 0]
ErasedSlot == [EndSlot EXCEPT !.mark = "erased"]
UsedSlot(name83, dir, cluster, size) ==
    [mark |-> "used", name83 |-> name83, dir |-> dir, cluster |-> cluster, size |-> size]

\* The slots a scan of the directory sees: those before the first end mark.
Visible(r) == {s \in Slots : \A t \in 1 .. s : r[t].mark # "end"}

Listed(r) == {s \in Visible(r) : r[s].mark = "used"}

\* fat16_create: one node per entry, in slot order.  An entry whose node
\* cannot be allocated or whose sector cannot be read is passed over.
fat16_create(r, skipped) ==
    LET slots == SetToSortSeq(Listed(r) \ skipped, <)
    IN  [i \in 1 .. Len(slots) |->
           LET e == r[slots[i]]
           IN  [name |-> MountedName(e.name83), dir |-> e.dir, fs |-> "fat16",
                size |-> e.size, cluster |-> e.cluster, slot |-> slots[i]]]

\* vfs_find_child: the position of the first child of that name, if any.
Found(name) ==
    {i \in 1 .. Len(nodes) : nodes[i].name = name /\ \A j \in 1 .. i - 1 : nodes[j].name # name}

\* The scan of the create functions ends at the first slot it may use, so a
\* duplicate is noticed only before that slot.
CreateSlots(name83) ==
    {s \in Slots : /\ root[s].mark # "used"
                   /\ \A t \in 1 .. s - 1 : root[t].mark = "used" /\ root[t].name83 # name83}

\* The scan of fat16_delete: the first entry of that name.
DeleteSlots(name83) ==
    LET found == {s \in Listed(root) : root[s].name83 = name83}
    IN  {s \in found : \A t \in found : s <= t}

-----------------------------------------------------------------------------
(* Chains.                                                                  *)

\* The cluster k links after c; 0 once the chain has ended.
ClusterAt[k \in 0 .. LastEntry, c \in 0 .. EOC] ==
    IF c \notin Entries THEN 0
    ELSE IF k = 0 THEN c ELSE ClusterAt[k - 1, fat[c]]

Chain(c) == {ClusterAt[k, c] : k \in 0 .. LastEntry} \ {0}

\* fat16_read: whether the chain reaches the last byte asked for, and the
\* bytes copied.
fat16_read(node, offset, size) ==
    LET len == Min({size, node.size - offset})
        at(p) == ClusterAt[p \div ClusterBytes, node.cluster]
    IN  [ok |-> at(offset + len - 1) \in Clusters,
         byte |-> [p \in offset .. offset + len - 1 |-> data[at(p)][p % ClusterBytes]]]

\* sys_fs_read of a file of the disk: nothing at or behind its end.
sys_fs_read(node, offset, size) ==
    IF offset >= node.size THEN [ok |-> TRUE, byte |-> <<>>] ELSE fat16_read(node, offset, size)

\* fat16_directory_cluster_empty: the first entry is the end mark.
DirEmpty(c) == c \in Clusters => data[c][0] = 0

-----------------------------------------------------------------------------
(* The call under way.  pc is the next disk write; "data" also covers the   *)
(* walk along the chain.                                                    *)

NoOp == [pc |-> "idle", slot |-> 0, name83 |-> To83(<<>>), node |-> 0, offset |-> 0, size |-> 0,
         done |-> 0, cur |-> 0, pos |-> 0, then |-> "none", new |-> 0]

Ready == op = NoOp /\ boot = <<>> /\ damaged = {}

\* The call under way is deleting the ith child.
Deleting(i) == op.pc \in {"release", "erase"} /\ op.node = i

\* The first clusters by which the files of slot s are reached, from memory
\* and from the disk.
Heads(s) ==
    {nodes[i].cluster : i \in {j \in 1 .. Len(nodes) : nodes[j].slot = s /\ ~Deleting(j)}}
    \union {root[t].cluster : t \in {u \in Listed(root) \intersect {s} :
                                       ~(op.pc \in {"release", "erase"} /\ op.slot = u)}}

\* The slot of the file that the call under way writes or creates.
OpSlot == IF op.node = 0 THEN op.slot ELSE nodes[op.node].slot

Fail(spoilt) == op' = NoOp /\ damaged' = damaged \union spoilt

Creating(s, name) == [NoOp EXCEPT !.pc = "entry", !.slot = s, !.name83 = To83(name)]

MakingDir(s, name) == [Creating(s, name) EXCEPT !.pc = "mark", !.then = "dir"]

\* fat16_write from its first lines: a file without a chain gets its head.
Writing(i, cluster, offset, size) ==
    [NoOp EXCEPT !.pc = IF cluster = 0 THEN "mark" ELSE "data", !.then = "head",
                 !.node = i, !.cur = cluster, !.offset = offset, !.size = size]

\* While a write is under way, and after it failed, a reader may see the old
\* or the new byte; after it succeeded, the new one.
MayRead(s, offset, size) ==
    [want EXCEPT ![s] = [p \in Offsets |->
        IF p \in offset .. offset + size - 1 THEN @[p] \union {Value} ELSE @[p]]]
MustRead(s, offset, size) ==
    [want EXCEPT ![s] = [p \in Offsets |->
        IF p \in offset .. offset + size - 1 THEN {Value} ELSE @[p]]]

Zeroes == [p \in Offsets |-> {0}]

-----------------------------------------------------------------------------
(* The calls.  A call that is refused changes nothing and is not shown.     *)

sys_fs_touch(name) ==
    /\ Ready
    /\ Found(name) = {}
    /\ \E s \in CreateSlots(To83(name)) : op' = Creating(s, name)
    /\ UNCHANGED <<disk, nodes, boot, want, damaged, tmp_vars>>

sys_fs_mkdir(name) ==
    /\ Ready
    /\ Found(name) = {}
    /\ \E s \in CreateSlots(To83(name)) : op' = MakingDir(s, name)
    /\ UNCHANGED <<disk, nodes, boot, want, damaged, tmp_vars>>

\* A file that is not found is created first.
open_or_create_file_for_write(name, offset, size) ==
    \/ \E i \in Found(name) :
         /\ ~nodes[i].dir
         /\ op' = Writing(i, nodes[i].cluster, offset, size)
         /\ want' = MayRead(nodes[i].slot, offset, size)
    \/ /\ Found(name) = {}
       /\ \E s \in CreateSlots(To83(name)) :
            op' = [Creating(s, name) EXCEPT !.offset = offset, !.size = size]
       /\ UNCHANGED want

sys_fs_write(name, offset, size) ==
    /\ Ready
    /\ open_or_create_file_for_write(name, offset, size)
    /\ UNCHANGED <<disk, nodes, boot, damaged, tmp_vars>>

\* fat16_delete up to its first write.  The entry is found by the name of the
\* node, and its cluster, not the node's, is what will be released.  A file
\* created as A.X is called AX until the next boot: if the disk has an AX, it
\* is that older file which loses its chain and its entry.
sys_fs_delete(name) ==
    /\ Ready
    /\ \E i \in Found(name) : \E s \in DeleteSlots(To83(nodes[i].name)) :
         /\ nodes[i].fs = "fat16"
         /\ root[s].dir => DirEmpty(root[s].cluster)
         /\ op' = [NoOp EXCEPT !.pc = IF root[s].cluster = 0 THEN "erase" ELSE "release",
                               !.slot = s, !.node = i, !.cur = root[s].cluster]
         /\ damaged' = {s} \ {nodes[i].slot}
    /\ UNCHANGED <<disk, nodes, boot, want, tmp_vars>>

\* tmpfs_delete on the mount point itself.  Over a directory of the disk it
\* frees the directory's cluster number as if it were a pointer.
DeleteMountPoint ==
    /\ Ready
    /\ \E i \in Found(MountName) :
         /\ nodes[i].fs = "tmpfs"
         /\ DOMAIN tmp = {}
         /\ nodes' = RemoveAt(nodes, i)
         /\ damaged' = IF nodes[i].cluster = 0 THEN {} ELSE Slots
    /\ UNCHANGED <<disk, boot, op, want, tmp_vars>>

\* A call on a path below the mount point.
TmpfsCall ==
    /\ Ready
    /\ \E i \in Found(MountName) : nodes[i].fs = "tmpfs"
    /\ TmpNext
    /\ UNCHANGED <<disk, nodes, boot, op, want, damaged>>

-----------------------------------------------------------------------------
(* The disk writes of a call.                                               *)

\* What the disk may hold after an ata_write_sector that reports failure: the
\* time-out may have struck before the transfer or after it.
FailedWrite(old, new) == {old, new}

\* What fat16_read_fat_entry returns if ata_read_sector fails.
Misread == 0

\* fat16_allocate_cluster, the scan and its mark.  The entry found may be of
\* no cluster on the disk.
FirstZero == {c \in Entries : fat[c] = 0 /\ \A d \in 2 .. c - 1 : fat[d] # 0}
Marked_NotYet(c) == fat
Marked(c) == [fat EXCEPT ![c] = EOC]

Mark ==
    /\ op.pc = "mark"
    /\ \E c \in FirstZero :
         /\ fat' = Marked(c)
         /\ op' = [op EXCEPT !.pc = "zero", !.new = c]
    /\ UNCHANGED <<data, root, nodes, boot, want, damaged, tmp_vars>>

\* An entry that cannot be read counts as free: its owner and the file that
\* asked for a cluster now share it.
MarkMisread ==
    /\ op.pc = "mark"
    /\ \E c \in Entries :
         /\ \A d \in 2 .. c : fat[d] # 0
         /\ fat' = Marked(c)
         /\ op' = [op EXCEPT !.pc = "zero", !.new = c]
         /\ damaged' = damaged \union {OpSlot}
                         \union {s \in Slots : \E h \in Heads(s) : c \in Chain(h)}
    /\ UNCHANGED <<data, root, nodes, boot, want, tmp_vars>>

MarkFails ==
    /\ op.pc = "mark"
    /\ \E c \in FirstZero : fat' \in FailedWrite(fat, Marked(c))
    /\ Fail({})
    /\ UNCHANGED <<data, root, nodes, boot, want, tmp_vars>>

\* The scan goes on to 0xFFF0 whatever the length of the table.  On a full
\* table it may take a word behind the table for an entry and mark that.
MarkBeyondTable ==
    /\ op.pc = "mark"
    /\ \A c \in Entries : fat[c] # 0
    /\ \E spoilt \in {{}, Slots} : Fail(spoilt)
    /\ UNCHANGED <<disk, nodes, boot, want, tmp_vars>>

\* The rest of fat16_allocate_cluster, and what its caller does next.
Zero ==
    /\ op.pc = "zero"
    /\ op.new \in Clusters
    /\ data' = [data EXCEPT ![op.new] = [p \in DOMAIN @ |-> 0]]
    /\ CASE op.then = "dir" -> op' = [op EXCEPT !.pc = "entry"] /\ nodes' = nodes
         [] op.then = "head" -> /\ op' = [op EXCEPT !.pc = "data", !.cur = op.new]
                                /\ nodes' = [nodes EXCEPT ![op.node].cluster = op.new]
         [] op.then = "link" -> op' = [op EXCEPT !.pc = "link"] /\ nodes' = nodes
    /\ UNCHANGED <<fat, root, boot, want, damaged, tmp_vars>>

\* The sectors of the entry found lie behind the end of the disk.
ZeroRefused ==
    /\ op.pc = "zero"
    /\ op.new \notin Clusters
    /\ Fail({})
    /\ UNCHANGED <<disk, nodes, boot, want, tmp_vars>>

ZeroFails ==
    /\ op.pc = "zero"
    /\ op.new \in Clusters
    /\ \E k \in 0 .. SectorsPerCluster :
         data' = [data EXCEPT ![op.new] = [p \in DOMAIN @ |->
                                             IF p < k * SectorBytes THEN 0 ELSE @[p]]]
    /\ Fail({})
    /\ UNCHANGED <<fat, root, nodes, boot, want, tmp_vars>>

Linked == [fat EXCEPT ![op.cur] = op.new]

Link ==
    /\ op.pc = "link"
    /\ fat' = Linked
    /\ op' = [op EXCEPT !.pc = "data", !.cur = op.new, !.pos = @ + 1]
    /\ UNCHANGED <<data, root, nodes, boot, want, damaged, tmp_vars>>

LinkFails ==
    /\ op.pc = "link"
    /\ fat' \in FailedWrite(fat, Linked)
    /\ Fail({})
    /\ UNCHANGED <<data, root, nodes, boot, want, tmp_vars>>

\* The position in the chain of the cluster for the next byte.
Needed == (op.offset + op.done) \div ClusterBytes

\* The table entry of the current cluster was read as "next".
Moved(next) ==
    IF next \in Entries THEN [op EXCEPT !.cur = next, !.pos = @ + 1]
                        ELSE [op EXCEPT !.pc = "mark", !.then = "link"]

\* Both loops of fat16_write: on to the next cluster, or to a new one where
\* the chain ends.
Advance ==
    /\ op.pc = "data"
    /\ op.pos < Needed
    /\ op' = Moved(fat[op.cur])
    /\ UNCHANGED <<disk, nodes, boot, want, damaged, tmp_vars>>

\* An entry that cannot be read looks like the end of the chain: the rest of
\* the file is about to be replaced by a new cluster.
AdvanceMisread ==
    /\ op.pc = "data"
    /\ op.pos < Needed
    /\ fat[op.cur] \in Entries
    /\ op' = Moved(Misread)
    /\ damaged' = damaged \union {OpSlot}
    /\ UNCHANGED <<disk, nodes, boot, want, tmp_vars>>

\* Where in its cluster the next byte of the write goes.
IntraCluster_NotReset == IF op.done = 0 THEN op.offset % ClusterBytes
                         ELSE Min({ClusterBytes - 1, (op.offset % ClusterBytes) + op.done})
IntraCluster == (op.offset + op.done) % ClusterBytes

\* The bytes the next sector write carries.
CopySize == Min({SectorBytes - (IntraCluster % SectorBytes), op.size - op.done})

SectorPut ==
    [data EXCEPT ![op.cur] = [p \in DOMAIN @ |->
        IF p \in IntraCluster .. IntraCluster + CopySize - 1 THEN Value ELSE @[p]]]

Put ==
    /\ op.pc = "data"
    /\ op.pos = Needed
    /\ op.done + CopySize < op.size
    /\ data' = SectorPut
    /\ op' = [op EXCEPT !.done = @ + CopySize]
    /\ UNCHANGED <<fat, root, nodes, boot, want, damaged, tmp_vars>>

\* The last sector, after which fat16_write records the length in the node
\* (and nowhere else) and returns.
PutLast ==
    /\ op.pc = "data"
    /\ op.pos = Needed
    /\ op.done + CopySize = op.size
    /\ data' = SectorPut
    /\ nodes' = [nodes EXCEPT ![op.node].size = Max({@, op.offset + op.size})]
    /\ want' = MustRead(nodes[op.node].slot, op.offset, op.size)
    /\ op' = NoOp
    /\ UNCHANGED <<fat, root, boot, damaged, tmp_vars>>

PutFails ==
    /\ op.pc = "data"
    /\ op.pos = Needed
    /\ data' \in FailedWrite(data, SectorPut)
    /\ Fail({})
    /\ UNCHANGED <<fat, root, nodes, boot, want, tmp_vars>>

\* The entry of a new file or directory and its node.
NewEntry == [root EXCEPT ![op.slot] = UsedSlot(op.name83, op.new # 0, op.new, 0)]

Entry ==
    LET dir == op.new # 0
        node == [name |-> CreatedName(op.name83, dir), dir |-> dir, fs |-> "fat16",
                 size |-> 0, cluster |-> op.new, slot |-> op.slot]
    IN  /\ op.pc = "entry"
        /\ root' = NewEntry
        /\ nodes' = <<node>> \o nodes
        /\ op' = IF op.size = 0 THEN NoOp ELSE Writing(1, 0, op.offset, op.size)
        /\ want' = [MayRead(op.slot, op.offset, op.size) EXCEPT ![op.slot] =
                      [p \in Offsets |-> (@[p] \intersect {Value}) \union {0}]]
        /\ UNCHANGED <<fat, data, boot, damaged, tmp_vars>>

\* The entry is not written, or it is but the call fails all the same (a late
\* disk error, no memory for the node).  mkdir then frees its cluster.
EntryFails ==
    /\ op.pc = "entry"
    /\ root' \in FailedWrite(root, NewEntry)
    /\ fat' \in {fat, IF op.new = 0 THEN fat ELSE [fat EXCEPT ![op.new] = 0]}
    /\ want' = [want EXCEPT ![op.slot] = Zeroes]
    /\ Fail(IF root' # root /\ fat' # fat THEN {op.slot} ELSE {})
    /\ UNCHANGED <<data, nodes, boot, tmp_vars>>

\* fat16_release_cluster_chain, one entry.  op.done says that something has
\* been released.
Released(next) ==
    /\ fat' = [fat EXCEPT ![op.cur] = 0]
    /\ op' = IF next \in Entries \ {op.cur}
             THEN [op EXCEPT !.cur = next, !.done = 1]
             ELSE [op EXCEPT !.pc = "erase", !.done = 1]
    /\ UNCHANGED <<data, root, nodes, boot, want, damaged, tmp_vars>>

Release == op.pc = "release" /\ Released(fat[op.cur])

\* The rest of the chain stays allocated.
ReleaseMisread == op.pc = "release" /\ fat[op.cur] \in Entries /\ Released(Misread)

ReleaseFails ==
    /\ op.pc = "release"
    /\ fat' \in FailedWrite(fat, [fat EXCEPT ![op.cur] = 0])
    /\ Fail(IF op.done = 1 \/ fat' # fat THEN {op.slot} ELSE {})
    /\ UNCHANGED <<data, root, nodes, boot, want, tmp_vars>>

\* What fat16_delete leaves in the slot.
Erased_AsEnd == [root EXCEPT ![op.slot] = EndSlot]
Erased == [root EXCEPT ![op.slot] = ErasedSlot]

Erase ==
    /\ op.pc = "erase"
    /\ root' = Erased
    /\ nodes' = RemoveAt(nodes, op.node)
    /\ want' = [want EXCEPT ![op.slot] = Zeroes]
    /\ op' = NoOp
    /\ UNCHANGED <<fat, data, boot, damaged, tmp_vars>>

EraseFails ==
    /\ op.pc = "erase"
    /\ root' \in FailedWrite(root, Erased)
    /\ Fail(IF op.done = 1 \/ root' # root THEN {op.slot} ELSE {})
    /\ UNCHANGED <<fat, data, nodes, boot, want, tmp_vars>>

-----------------------------------------------------------------------------
(* Boot.                                                                    *)

BootList == Append(BootDirs, MountName)

\* What is left of the bytes to be read in slot s: fat16_write never updates
\* the entry, so a file that was created since the last boot has no chain at
\* the next one and starts again empty.
LeftByReset(s) == IF root[s].cluster = 0 THEN Zeroes ELSE want[s]

\* Reset at any moment: memory is lost, the disk stays.
Reboot ==
    /\ damaged = {}
    /\ damaged' = IF op.pc \in {"release", "erase"} /\ op.done = 1 THEN {op.slot} ELSE {}
    /\ \E skipped \in SUBSET Listed(root) : nodes' = fat16_create(root, skipped)
    /\ boot' = BootList
    /\ op' = NoOp
    /\ want' = [s \in Slots |-> LeftByReset(s)]
    /\ tmp' = <<>>
    /\ tmp_want' = [path \in TmpPaths |-> NoBytes]
    /\ UNCHANGED disk

\* vfs_ensure_directory for the next standard directory.
EnsureDirectory ==
    /\ op = NoOp
    /\ damaged = {}
    /\ Len(boot) > 1
    /\ boot' = Tail(boot)
    /\ \/ /\ Found(Head(boot)) # {} \/ CreateSlots(To83(Head(boot))) = {}
          /\ UNCHANGED op
       \/ /\ Found(Head(boot)) = {}
          /\ \E s \in CreateSlots(To83(Head(boot))) : op' = MakingDir(s, Head(boot))
    /\ UNCHANGED <<disk, nodes, want, damaged, tmp_vars>>

\* vfs_mount_at: over a directory of that name, or at a new node.
MountPoint == [name |-> MountName, dir |-> TRUE, fs |-> "tmpfs", size |-> 0, cluster |-> 0, slot |-> 0]

vfs_mount_at ==
    /\ op = NoOp
    /\ damaged = {}
    /\ Len(boot) = 1
    /\ boot' = <<>>
    /\ nodes' = IF Found(MountName) = {} THEN <<MountPoint>> \o nodes
                ELSE [i \in 1 .. Len(nodes) |->
                        IF i \in Found(MountName) /\ nodes[i].dir
                        THEN [nodes[i] EXCEPT !.fs = "tmpfs"] ELSE nodes[i]]
    /\ UNCHANGED <<disk, op, want, damaged, tmp_vars>>

MountFails ==
    /\ op = NoOp
    /\ damaged = {}
    /\ Len(boot) = 1
    /\ boot' = <<>>
    /\ UNCHANGED <<disk, nodes, op, want, damaged, tmp_vars>>

Init ==
    /\ \E d \in Disks :
         /\ fat = d.fat /\ data = d.data /\ root = d.root
         /\ want = [s \in Slots |-> [p \in Offsets |->
              LET c == ClusterAt[p \div ClusterBytes, d.root[s].cluster]
              IN  {IF c = 0 THEN 0 ELSE d.data[c][p % ClusterBytes]}]]
    /\ nodes = fat16_create(root, {})
    /\ boot = BootList
    /\ op = NoOp
    /\ damaged = {}
    /\ faults = 0
    /\ calls = 0
    /\ tmp = <<>>
    /\ tmp_want = [path \in TmpPaths |-> NoBytes]

Call ==
    \E name \in Names :
       \/ sys_fs_touch(name)
       \/ sys_fs_mkdir(name)
       \/ sys_fs_delete(name)
       \/ \E w \in Writes : sys_fs_write(name, w.offset, w.size)

Step ==
    \/ DeleteMountPoint \/ TmpfsCall
    \/ Mark \/ MarkBeyondTable \/ Zero \/ ZeroRefused \/ Link
    \/ Advance \/ Put \/ PutLast
    \/ Entry \/ Release \/ Erase
    \/ EnsureDirectory \/ vfs_mount_at

Fault ==
    \/ MarkMisread \/ MarkFails \/ ZeroFails \/ LinkFails
    \/ AdvanceMisread \/ PutFails \/ EntryFails
    \/ ReleaseMisread \/ ReleaseFails \/ EraseFails
    \/ MountFails

Next ==
    \/ Call /\ calls < MaxCalls /\ calls' = calls + 1 /\ UNCHANGED faults
    \/ Step /\ UNCHANGED <<faults, calls>>
    \/ faults < MaxFaults /\ faults' = faults + 1 /\ Fault /\ UNCHANGED calls
    \/ faults < MaxFaults /\ faults' = faults + 1 /\ Reboot /\ calls' = 0

Spec == Init /\ [][Next]_vars

-----------------------------------------------------------------------------
(* Properties.  They speak of every file but those in damaged: the code     *)
(* releases a chain before it erases the entry that names it, so a delete   *)
(* cut short in between spoils its file; so do a misread table, a delete by *)
(* a name two files share and the few others marked above.  The damage is   *)
(* shown to end there; the calls after it, which may hand a lost cluster to *)
(* other files, are not followed.                                           *)

DiskKeepsBytes ==
    \A i \in 1 .. Len(nodes) : ~Deleting(i) /\ nodes[i].slot \notin damaged =>
        LET result == sys_fs_read(nodes[i], 0, MaxLen)
        IN  /\ result.ok
            /\ \A p \in DOMAIN result.byte : result.byte[p] \in want[nodes[i].slot][p]

\* A read of an undamaged file returns, at every offset up to its length, the
\* byte last written there through that file.  On the disk it may, after a
\* write that failed or was cut short, be the byte before it, and bytes never
\* written read as zero; calls on other files, failures and full disks do not
\* change that.  A reset does: it cuts every file to the length of its entry,
\* which fat16_write never updates (fat16.c:326), and one created since the
\* boot before is empty again.  In tmpfs it holds however often the buffer
\* was moved to a larger one.
ReadsWhatWasWritten == DiskKeepsBytes /\ TmpfsKeepsBytes

\* The chains of all undamaged files and directories, listed in memory or
\* only on the disk, are made of allocated clusters of the disk, come to an
\* end, and have no cluster in common: no cluster is given to two of them, and
\* no call on a file, failed, cut short or sent to the wrong file by a shared
\* name, takes a cluster from a third.
ChainsSound ==
    /\ \A s \in Slots \ damaged : \A c \in Heads(s) \ {0} :
          /\ Chain(c) \subseteq Clusters
          /\ \E d \in Chain(c) : fat[d] = EOC
    /\ \A s \in Slots \ damaged : \A t \in Slots \ (damaged \union {s}) :
          \A c \in Heads(s), d \in Heads(t) : Chain(c) \intersect Chain(d) = {}

\* Every undamaged file and directory of the disk that programs can see now
\* is found again at the next boot, with its kind, its name on the disk and
\* no more than its length.  Its chain is found again if it had one when it
\* was mounted or is a directory; the chain of a file created since is known
\* to its node only (fat16.c:267) and its entry has none.  No create, failure
\* or delete of another file hides it.
VisibleAfterReboot ==
    \A i \in 1 .. Len(nodes) : nodes[i].slot \in Slots \ damaged =>
       LET e == root[nodes[i].slot]
       IN  /\ nodes[i].slot \in Listed(root)
           /\ e.dir = nodes[i].dir
           /\ e.cluster = nodes[i].cluster \/ (e.cluster = 0 /\ e.size = 0 /\ ~e.dir)
           /\ e.size <= nodes[i].size
           /\ nodes[i].name \in {MountedName(e.name83), CreatedName(e.name83, e.dir)}
=============================================================================
