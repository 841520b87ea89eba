----------------------------- MODULE UserAccess -----------------------------
(***************************************************************************)
(* The kernel's access to a process's memory, mm/uaccess.c: system calls   *)
(* check and copy ranges and strings that a program names by its own       *)
(* addresses.  The loops go page by page through the page tables of the    *)
(* calling process and stop at the first page that is not there or does    *)
(* not allow the access; what was copied before stays.  The calls are not  *)
(* preempted.  stac and clac do not change what is copied.                 *)
(***************************************************************************)
EXTENDS AddressSpace

CONSTANTS
    UserStart, UserEnd,  \* USER_SPACE_START, USER_SPACE_END
    Addrs,               \* addresses programs pass to system calls
    Sizes,               \* and sizes
    MaxCopies            \* bound on calls

ASSUME UserAccessAssumption ==
    /\ Addrs \subseteq Nat /\ Sizes \subseteq Nat
    /\ UserStart = Span[4] * PageSize /\ UserEnd = KernelHalf * Span[4] * PageSize
    /\ MaxCopies \in Nat

VARIABLES
    reply,     \* the last call, its arguments and its result
    written,   \* history: addresses each process had written
    copies

userVars == <<reply, written, copies>>
vars == <<pmmVars, vmVars, userVars>>

EINVAL == "EINVAL"
EFAULT == "EFAULT"

-----------------------------------------------------------------------------
\* Sizes and addresses are unsigned: no sum is formed that could wrap.
validate_user_range(addr, size) ==
    IF addr < UserStart \/ addr >= UserEnd THEN EFAULT
    ELSE IF size > UserEnd THEN EINVAL
    ELSE IF addr > UserEnd - size THEN EFAULT
    ELSE "ok"

\* Slip: the leaf is not asked for PAGE_WRITE.
check_page_permissions_Leaf(root, v, write) ==
    \A l \in Levels :
        LET flags == EntryAt(root, v, l).flags
        IN  {"present", "user"} \subseteq flags /\ (write /\ l > 1 => "write" \in flags)

\* Present and user at every level, and writable for a write.
check_page_permissions(root, v, write) ==
    \A l \in Levels :
        LET flags == EntryAt(root, v, l).flags
        IN  {"present", "user"} \subseteq flags /\ (write => "write" \in flags)

\* How many bytes the loops get through.
Reach(root, addr, size, write) ==
    LET stops == {n \in 0 .. size - 1 :
                    ~check_page_permissions(root, (addr + n) \div PageSize, write)}
    IN  IF stops = {} THEN size ELSE CHOOSE n \in stops : \A m \in stops : n <= m

\* The checks before the loops.
Refused(addr, size) ==
    IF addr = 0 \/ size = 0 THEN EINVAL ELSE validate_user_range(addr, size)

Outcome(root, addr, size, write) ==
    IF Refused(addr, size) # "ok" THEN Refused(addr, size)
    ELSE IF Reach(root, addr, size, write) < size THEN EFAULT ELSE "ok"

Running(t) == call = Idle /\ space[t] # NoFrame /\ copies < MaxCopies

Reply(op, t, addr, size, ret, text) ==
    reply' = [op |-> op, t |-> t, addr |-> addr, size |-> size, ret |-> ret, text |-> text]

Reads == /\ copies' = copies + 1
         /\ UNCHANGED <<pmmVars, vmVars, written>>

\* The byte that the kernel's buffer holds for each copy_to_user.
KernelByte == 2

\* copy_to_user and, with zeroes, clear_user.
Write(op, t, addr, size, byte) ==
    LET root == space[t]
        ok == Refused(addr, size) = "ok"
        n == IF ok THEN Reach(root, addr, size, TRUE) ELSE 0
        cells == addr .. addr + n - 1
    IN  /\ Running(t)
        /\ bytes' = Stored(root, [a \in cells |-> byte])
        /\ written' = [written EXCEPT ![t] = @ \cup cells]
        /\ copies' = copies + 1
        /\ Reply(op, t, addr, size, Outcome(root, addr, size, TRUE), <<>>)
        /\ UNCHANGED <<pmmVars, tables, space, kstack, image, next_virt, call, dropped>>

copy_to_user(t, addr, size) == Write("copy_to_user", t, addr, size, KernelByte)
clear_user(t, addr, size) == Write("clear_user", t, addr, size, 0)

\* The n bytes at addr.
Load(root, addr, n) ==
    [i \in 1 .. n |-> LET loc == At(root, addr + i - 1) IN bytes[loc[1]][loc[2]]]

copy_from_user(t, addr, size) ==
    LET ret == Outcome(space[t], addr, size, FALSE)
    IN  /\ Running(t)
        /\ Reply("copy_from_user", t, addr, size, ret,
                 IF ret = "ok" THEN Load(space[t], addr, size) ELSE <<>>)
        /\ Reads

\* Slip: the offset in the first page is forgotten.
PagesOf_NoOffset(addr, size) ==
    addr \div PageSize .. addr \div PageSize + (size - 1) \div PageSize

\* start_page to end_page
PagesOf(addr, size) == addr \div PageSize .. (addr + size - 1) \div PageSize

\* verify_user_read, verify_user_write: the pages of the range are looked at.
Verify(op, t, addr, size, write) ==
    LET pages == PagesOf(addr, size)
        ret == IF Refused(addr, size) # "ok" THEN Refused(addr, size)
               ELSE IF \A v \in pages : check_page_permissions(space[t], v, write) THEN "ok"
               ELSE EFAULT
    IN  /\ Running(t)
        /\ Reply(op, t, addr, size, ret, <<>>)
        /\ Reads

verify_user_read(t, addr, size) == Verify("verify_user_read", t, addr, size, FALSE)
verify_user_write(t, addr, size) == Verify("verify_user_write", t, addr, size, TRUE)

\* The length up to a zero or max: the loop ends before it looks at a page
\* that it does not need.
strnlen_user(root, addr, max) ==
    LET readable(n) == /\ addr + n < UserEnd
                       /\ check_page_permissions(root, (addr + n) \div PageSize, FALSE)
        stops == {n \in 0 .. max - 1 : \/ ~readable(n)
                                       \/ Load(root, addr + n, 1) = <<0>>}
        n == CHOOSE k \in stops : \A m \in stops : k <= m
    IN  IF validate_user_range(addr, 1) # "ok" THEN [err |-> EFAULT, len |-> 0]
        ELSE IF stops = {} THEN [err |-> "ok", len |-> max]
        ELSE IF readable(n) THEN [err |-> "ok", len |-> n]
        ELSE [err |-> EFAULT, len |-> 0]

\* An empty string is refused by copy_from_user; a long one is cut.
strncpy_from_user(t, addr, max_len) ==
    LET found == strnlen_user(space[t], addr, max_len - 1)
        ret == IF addr = 0 \/ max_len = 0 THEN EINVAL
               ELSE IF found.err # "ok" THEN found.err
               ELSE Outcome(space[t], addr, found.len, FALSE)
    IN  /\ Running(t)
        /\ Reply("strncpy_from_user", t, addr, max_len, ret,
                 IF ret = "ok" THEN Load(space[t], addr, found.len) ELSE <<>>)
        /\ Reads

UInit ==
    /\ VmInit
    /\ reply = [op |-> "none"]
    /\ written = [t \in Slots |-> {}]
    /\ copies = 0

\* A new process has written nothing.
Kernel ==
    /\ VmNext
    /\ reply' = [op |-> "none"]
    /\ written' = [t \in Slots |-> IF space'[t] = NoFrame THEN {} ELSE written[t]]
    /\ UNCHANGED copies

UNext ==
    \/ Kernel
    \/ \E t \in Slots, addr \in Addrs, size \in Sizes :
          \/ copy_to_user(t, addr, size) \/ clear_user(t, addr, size)
          \/ copy_from_user(t, addr, size)
          \/ verify_user_read(t, addr, size) \/ verify_user_write(t, addr, size)
          \/ strncpy_from_user(t, addr, size)

USpec == UInit /\ [][UNext]_vars

-----------------------------------------------------------------------------
(* Properties.                                                             *)

\* Every live process has its program's image, apart from what it had the
\* kernel write.
ProgramsIntact == \A t \in Live : ImageLoaded(t, written[t])

\* A program's own pages: of its writable segments, and its stack.
MayWrite(t, a) ==
    \/ a \div PageSize \in StackTop - StackPages .. StackTop - 1
    \/ \E i \in DOMAIN image[t] : /\ image[t][i].writable /\ image[t][i].memsz # 0
                                  /\ a \div PageSize \in FirstPage(image[t][i]) .. LastPage(image[t][i])

\* The bytes each process sees.
Sees == [t \in Live |-> [a \in UserStart .. UserEnd - 1 |->
            IF vmm_get_physical(space[t], a \div PageSize) = NoFrame THEN -1
            ELSE Load(space[t], a, 1)[1]]]

\* A call that writes to a process succeeds exactly if the program may write
\* every byte of the range; then every byte has its new value.  It never
\* changes a byte outside the range, one the program may not write, or one of
\* another process, however the range lies across pages and segments.
WriteConfined ==
    reply'.op \in {"copy_to_user", "clear_user"} =>
        LET t == reply'.t
            range == reply'.addr .. reply'.addr + reply'.size - 1
            value == IF reply'.op = "clear_user" THEN 0 ELSE KernelByte
        IN  /\ (reply'.ret = "ok") =
                  (range # {} /\ \A a \in range : MayWrite(t, a))
            /\ reply'.ret = "ok" => \A a \in range : Sees'[t][a] = value
            /\ \A u \in Live, a \in UserStart .. UserEnd - 1 :
                  Sees'[u][a] # Sees[u][a] => u = t /\ a \in range /\ MayWrite(t, a)

\* Every step of the system respects this.
WritesConfined == [][WriteConfined]_vars

\* What verify_user_write or verify_user_read accepts can be written or read
\* completely, and a string that is accepted is the one in memory: without a
\* zero, and cut only where the buffer ends or a zero follows.
ReadsTruthful ==
    /\ reply.op = "verify_user_write" /\ reply.ret = "ok" =>
          Reach(space[reply.t], reply.addr, reply.size, TRUE) = reply.size
    /\ reply.op = "verify_user_read" /\ reply.ret = "ok" =>
          Reach(space[reply.t], reply.addr, reply.size, FALSE) = reply.size
    /\ reply.op = "strncpy_from_user" /\ reply.ret = "ok" =>
          LET n == Len(reply.text)
          IN  /\ n < reply.size
              /\ reply.text = Load(space[reply.t], reply.addr, n)
              /\ \A i \in 1 .. n : reply.text[i] # 0
              /\ n < reply.size - 1 => Sees[reply.t][reply.addr + n] = 0
=============================================================================
