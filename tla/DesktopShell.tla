---------------------------- MODULE DesktopShell ----------------------------
(***************************************************************************)
(* The shell window of the desktop, src/userland/programs/desktop/shell.c: *)
(* its scrollback and history rings, its built-in commands, and the        *)
(* external command it runs on a pseudo terminal.  Programs, and ptysh.c,  *)
(* the other host of pseudo terminals, run beside it: every system call is *)
(* an action, and tasks interleave between system calls.                   *)
(*                                                                         *)
(* A command line is a record [cmd, arg].  A text pushed to the scrollback *)
(* is one line, "text".  Ring slots that hold nothing are not shown.       *)
(***************************************************************************)
EXTENDS Pty, SequencesExt

CONSTANTS ScrollMax,    \* SHELL_SCROLLBACK
          ViewMax,      \* SHELL_VIEW_MAX
          HistoryMax,   \* SHELL_HISTORY_MAX
          DrainChunk,   \* the 256 bytes of a read in shell_drain_pty_output
          PathMax,      \* SHELL_PATH_MAX, in path segments
          DirNames,     \* names of directories
          NameOrder     \* names in the order a listing has them

ShellAssumption ==
    /\ ScrollMax \in Nat \ {0} /\ HistoryMax \in Nat \ {0}
    /\ ViewMax \in 2 .. ScrollMax
    /\ DrainChunk \in 1 .. BufSize
    /\ PathMax \in Nat \ {0}

ASSUME ShellConstants == ShellAssumption

VARIABLES shell,     \* desktop_shell_t
          children,  \* what became of each task started on a PTY
          ptysh,     \* where ptysh is, its PTY, and those it left open
          fs         \* the paths that exist, as sequences of names

shellVars == <<shell, children, ptysh, fs>>

-----------------------------------------------------------------------------
(* Scrollback and history.                                                 *)

\* A full ring gives up its oldest line.  log is what was pushed, for the
\* properties.
shell_push_scrollback_line(sh, l) ==
    [sh EXCEPT !.scrollback[sh.scroll_head] = l,
               !.scroll_head = (@ + 1) % ScrollMax,
               !.scroll_count = IF @ < ScrollMax THEN @ + 1 ELSE @,
               !.log = LET all == Append(@, l)
                       IN  SubSeq(all, IF Len(all) > ScrollMax THEN 2 ELSE 1, Len(all))]

\* Messages, output and listings.
shell_push_text(sh) == shell_push_scrollback_line(sh, "text")

\* Slip: the oldest line is taken to be in slot 0 of a full ring too.
shell_refresh_view_FromZero(sh) ==
    LET take == Least(sh.scroll_count, ViewMax - 1)
    IN  [i \in 1 .. take |-> sh.scrollback[(sh.scroll_count - take + i - 1) % ScrollMax]]

\* The lines above the prompt.
shell_refresh_view(sh) ==
    LET take == Least(sh.scroll_count, ViewMax - 1)
        oldest == IF sh.scroll_count < ScrollMax THEN 0 ELSE sh.scroll_head
    IN  [i \in 1 .. take |-> sh.scrollback[(oldest + sh.scroll_count - take + i - 1) % ScrollMax]]

shell_history_start(sh) == IF sh.history_count < HistoryMax THEN 0 ELSE sh.history_next

\* The command !! stands for, or none.
shell_history_get_last(sh) ==
    IF sh.history_count = 0 THEN <<>>
    ELSE <<sh.history[(sh.history_next - 1) % HistoryMax]>>

\* The command !n stands for, or none.
shell_history_get_by_number(sh, n) ==
    IF n \notin 1 .. sh.history_count THEN <<>>
    ELSE <<sh.history[(shell_history_start(sh) + n - 1) % HistoryMax]>>

shell_history_add(sh, l) ==
    IF shell_history_get_last(sh) = <<l>> THEN sh
    ELSE [sh EXCEPT !.history[sh.history_next] = l,
                    !.history_next = (@ + 1) % HistoryMax,
                    !.history_count = IF @ < HistoryMax THEN @ + 1 ELSE @,
                    !.past = LET all == Append(@, l)
                             IN  SubSeq(all, IF Len(all) > HistoryMax THEN 2 ELSE 1, Len(all))]

IsRecall(l) == l.cmd \in {"!!", "!n"}

shell_history_expand(sh, l) ==
    CASE l.cmd = "!!" -> shell_history_get_last(sh)
      [] l.cmd = "!n" -> shell_history_get_by_number(sh, l.arg)
      [] OTHER -> <<l>>

\* shell_run_line up to the execution: the echo behind the prompt, the
\* expansion and the history.
Entered(sh, l) ==
    LET echoed == shell_push_scrollback_line(sh, l.cmd)
        found == shell_history_expand(sh, l)
    IN  CASE found = <<>> -> [sh |-> shell_push_text(echoed), run |-> <<>>]
          [] found # <<>> /\ IsRecall(l) ->
                [sh |-> shell_history_add(shell_push_scrollback_line(echoed, found[1].cmd), found[1]), run |-> found]
          [] OTHER -> [sh |-> shell_history_add(echoed, l), run |-> found]

-----------------------------------------------------------------------------
(* Paths and the file system under them.                                   *)

\* shell_normalize_path, segment by segment from the root or from cwd.  The
\* answer is a set: empty when the path is too long.
shell_normalize_path(cwd, path) ==
    LET Step(done, seg) ==
            CASE seg = "." -> done
              [] seg = ".." -> IF done = <<>> THEN done ELSE Front(done)
              [] OTHER -> Append(done, seg)
        full == FoldLeft(Step, IF path.abs THEN <<>> ELSE cwd, path.segs)
    IN  {p \in {full} : Len(p) <= PathMax}

IsDirectory(files, p) == p = <<>> \/ (p \in files /\ Last(p) \in DirNames)

Children(p) == {q \in fs : q # <<>> /\ Front(q) = p}

\* sys_listdir
Listing(files, p) == SelectSeq(NameOrder, LAMBDA n : Append(p, n) \in files)

CanDelete(p) == p \in fs /\ Children(p) = {}

CanCreate(p) == p # <<>> /\ p \notin fs /\ IsDirectory(fs, Front(p))

\* cd: "-" goes back.
ChangedDir(sh, l) ==
    LET target == IF l.arg.back THEN {sh.prev_cwd} ELSE shell_normalize_path(sh.cwd, l.arg)
    IN  IF \E p \in target : IsDirectory(fs, p)
        THEN [sh EXCEPT !.prev_cwd = IF target = {sh.cwd} THEN @ ELSE sh.cwd,
                        !.cwd = CHOOSE p \in target : TRUE]
        ELSE shell_push_text(sh)

-----------------------------------------------------------------------------
(* The external command.  Each action is one system call of the desktop.   *)

shell_clear_external_state(sh) ==
    [sh EXCEPT !.ext_running = FALSE, !.ext_pid = 0, !.ext_pty = NoPty]

\* sys_pty_open of shell_start_external_command; ext_pty is set early to
\* name the local variable pty_id.
OpenSession(sh) ==
    /\ ~sh.ext_running
    /\ \E p \in Ptys : pty_open(p) /\ shell' = [sh EXCEPT !.ext_pty = p]
    /\ UNCHANGED <<children, ptysh, fs>>

\* One of the names shell_try_spawn_command_pty tries is a program.
SpawnSucceeds(t) ==
    /\ children[t] = "none"
    /\ pty_attach_slave(shell.ext_pty, t)
    /\ children' = [children EXCEPT ![t] = "running"]
    /\ shell' = [shell EXCEPT !.ext_running = TRUE, !.ext_pid = t]
    /\ UNCHANGED <<ptysh, fs>>

\* Slip: the session opened for a command that does not exist is not closed.
SpawnFails_KeepsSession ==
    /\ shell' = shell_push_text([shell EXCEPT !.ext_pty = NoPty])
    /\ UNCHANGED <<ptyVars, children, ptysh, fs>>

\* None of them is.
SpawnFails ==
    /\ pty_close(shell.ext_pty)
    /\ shell' = shell_push_text([shell EXCEPT !.ext_pty = NoPty])
    /\ UNCHANGED <<children, ptysh, fs>>

\* sys_pty_out_avail and sys_pty_read in shell_drain_pty_output.
DrainOutput ==
    /\ pty_host_read(shell.ext_pty, Least(DrainChunk, slave_to_host[shell.ext_pty].count))
    /\ shell' = shell_push_text(shell)
    /\ UNCHANGED <<children, ptysh, fs>>

Drained == slave_to_host[shell.ext_pty].count = 0

\* sys_pty_close of shell_pump_external, refused while the program is there.
CloseRefused == slave_pid[shell.ext_pty] # 0

CloseSession ==
    /\ pty_close(shell.ext_pty)
    /\ UNCHANGED <<shell, children, ptysh, fs>>

\* sys_waitpid, which returns when the child has terminated; its exit code
\* is shown when it is not 0.
CollectChild ==
    /\ children[shell.ext_pid] = "terminated"
    /\ children' = [children EXCEPT ![shell.ext_pid] = "reaped"]
    /\ \E code \in {0, 1} :
          shell' = shell_clear_external_state(
                      IF code = 0 THEN shell ELSE shell_push_text(shell))
    /\ UNCHANGED <<ptyVars, ptysh, fs>>

\* Enter in shell_submit_input while a command runs: the line goes to it.
SendLine(chunk) ==
    /\ shell.ext_running
    /\ pty_host_write(shell.ext_pty, chunk)
    /\ UNCHANGED <<shell, children, ptysh, fs>>

-----------------------------------------------------------------------------
(* Programs on a PTY.                                                      *)

ProgramWrites(t, chunk) ==
    /\ pty_slave_write(t, chunk)
    /\ UNCHANGED shellVars

ProgramReads(t) ==
    /\ pty_slave_read(t, 1)
    /\ UNCHANGED shellVars

\* sys_exit
ProgramExits(t) ==
    /\ children[t] = "running"
    /\ pty_detach_slave(t)
    /\ children' = [children EXCEPT ![t] = "terminated"]
    /\ UNCHANGED <<shell, ptysh, fs>>

-----------------------------------------------------------------------------
(* ptysh.c: a bridge between the console and a program on a PTY.           *)

PtyshOpens ==
    /\ ptysh.at = "start"
    /\ \E p \in Ptys : pty_open(p) /\ ptysh' = [ptysh EXCEPT !.at = "spawn", !.pty = p]
    /\ UNCHANGED <<shell, children, fs>>

PtyshSpawns(t) ==
    /\ ptysh.at = "spawn"
    /\ children[t] = "none"
    /\ pty_attach_slave(ptysh.pty, t)
    /\ children' = [children EXCEPT ![t] = "running"]
    /\ ptysh' = [ptysh EXCEPT !.at = "bridge"]
    /\ UNCHANGED <<shell, fs>>

PtyshReads ==
    /\ ptysh.at \in {"bridge", "closing"}
    /\ pty_host_read(ptysh.pty, Least(DrainChunk, slave_to_host[ptysh.pty].count))
    /\ UNCHANGED shellVars

\* A key goes to the program.
PtyshKey(chunk) ==
    /\ ptysh.at = "bridge"
    /\ pty_host_write(ptysh.pty, chunk)
    /\ UNCHANGED shellVars

\* ESC sends it "exit" and ends the bridge.
PtyshEscape ==
    /\ ptysh.at = "bridge"
    /\ \E exit \in Chunks : Len(exit) = BufSize + 1 /\ pty_host_write(ptysh.pty, exit)
    /\ ptysh' = [ptysh EXCEPT !.at = "closing"]
    /\ UNCHANGED <<shell, children, fs>>

\* The spawn failed, or the bridge has ended: ptysh closes its PTY, which is
\* refused while the program is still there, and exits.
PtyshCloses ==
    /\ ptysh.at \in {"spawn", "closing"}
    /\ ptysh' = [at |-> "start", pty |-> NoPty,
                 left |-> ptysh.left \cup {p \in {ptysh.pty} : slave_pid[p] # 0}]
    /\ IF slave_pid[ptysh.pty] = 0 THEN pty_close(ptysh.pty) ELSE UNCHANGED ptyVars
    /\ UNCHANGED <<shell, children, fs>>

Programs(output) ==
    \/ \E t \in Pids, chunk \in output : ProgramWrites(t, chunk)
    \/ \E t \in Pids : ProgramReads(t) \/ ProgramExits(t)

Ptysh ==
    \/ PtyshOpens \/ PtyshReads \/ PtyshEscape \/ PtyshCloses
    \/ \E t \in Pids : PtyshSpawns(t)

-----------------------------------------------------------------------------
\* shell_init, before any program has run.
ShellInit ==
    /\ PtyInit
    /\ children = [t \in Pids |-> "none"]
    /\ ptysh = [at |-> "start", pty |-> NoPty, left |-> {}]
    /\ shell = LET blank == [cwd |-> <<>>, prev_cwd |-> <<>>,
                             ext_running |-> FALSE, ext_pid |-> 0, ext_pty |-> NoPty,
                             history |-> [i \in 0 .. HistoryMax - 1 |-> ""],
                             history_next |-> 0, history_count |-> 0, past |-> <<>>,
                             scrollback |-> [i \in 0 .. ScrollMax - 1 |-> ""],
                             scroll_head |-> 0, scroll_count |-> 0, log |-> <<>>]
               IN  shell_push_scrollback_line(shell_push_scrollback_line(blank, "boot"), "help")
=============================================================================
