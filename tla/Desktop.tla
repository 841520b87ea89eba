------------------------------- MODULE Desktop -------------------------------
(***************************************************************************)
(* The desktop program, src/userland/programs/desktop: the loop of main.c  *)
(* that polls the keyboard and the mouse, pumps the external command of    *)
(* the shell window, refreshes the panels and renders a frame; the keys    *)
(* and clicks of input.c; and the file panel of runtime.c.  It composes    *)
(* DesktopWindows and DesktopShell.  Programs on pseudo terminals, ptysh   *)
(* and other users of the file system act between its system calls.        *)
(*                                                                         *)
(* Entries of the file panel are numbered from 1, entry 1 being "..".      *)
(***************************************************************************)
EXTENDS DesktopWindows, DesktopShell

CONSTANTS FilesSlots,  \* files_visible_slots()
          EntryMax,    \* FILES_ENTRY_MAX
          ElfNames,    \* names of programs
          Points,      \* where the mouse is moved to, bounded
          Users        \* what a user does and who else is there, bounded

DesktopAssumption ==
    /\ FilesSlots \in Nat \ {0} /\ EntryMax \in Nat \ {0}
    /\ Points \subseteq Pixels /\ Points # {}
    /\ \A u \in Users : u.typed \cup u.output \subseteq Chunks

ASSUME DesktopConstants == DesktopAssumption

VARIABLES rt,      \* desktop_runtime_t and the frame's flags
          prev,    \* the snapshot of the frame's beginning
          pc,      \* where the desktop is
          resume,  \* where it goes on when a command has been started
          events,  \* keys and mouse events handled in this frame
          user     \* who sits at the machine

desktopVars == <<rt, prev, pc, resume, events, user>>

vars == <<desktopVars, shellVars, ptyVars>>

kernelVars == <<children, ptysh, ptyVars>>

-----------------------------------------------------------------------------
(* The file panel.                                                         *)

\* shell_sync_window: the window shows the end of the scrollback and the
\* prompt.
Synced(d, sh) ==
    [d EXCEPT !.lines[ShellWindow] =
        [view |-> shell_refresh_view(sh),
         prompt |-> IF sh.ext_running THEN <<"(pty)">> ELSE sh.cwd]]

ScrolledTo(offset, sel, n) ==
    LET a == IF offset >= n THEN n - 1 ELSE offset
        b == IF sel - 1 < a THEN sel - 1 ELSE a
    IN  IF n <= FilesSlots THEN 0
        ELSE IF sel - 1 >= b + FilesSlots THEN sel - FilesSlots ELSE b

\* The lines of the panel: the path, and the entries from the offset on.
files_rebuild_view(d, cwd) ==
    LET n == Len(d.files_entries)
        sel == IF d.files_selected \in 1 .. n THEN d.files_selected ELSE 1
        off == ScrolledTo(d.files_offset, sel, n)
    IN  [d EXCEPT !.files_selected = sel, !.files_offset = off,
                  !.lines[FilesWindow] =
                      [path |-> cwd,
                       entries |-> SubSeq(d.files_entries, off + 1, Least(n, off + FilesSlots)),
                       selected |-> d.files_entries[sel]]]

\* With what sys_listdir finds in the file system files.
desktop_refresh_files_panel(d, files, cwd) ==
    LET found == <<"..">> \o (IF IsDirectory(files, cwd) THEN Listing(files, cwd) ELSE <<>>)
    IN  files_rebuild_view([d EXCEPT !.files_entries = SubSeq(found, 1, Least(Len(found), EntryMax)),
                                     !.files_cwd = cwd], cwd)

\* J and K.
desktop_files_select_next(d, delta) ==
    LET next == clamp_i32(d.files_selected + delta, 1, Len(d.files_entries))
    IN  IF next = d.files_selected THEN d
        ELSE Changed(files_rebuild_view([d EXCEPT !.files_selected = next], shell.cwd))

SelectedName(d) == d.files_entries[d.files_selected]

\* The entries a click can hit.
EntriesShown(d) ==
    d.files_offset + 1 .. Least(Len(d.files_entries), d.files_offset + FilesSlots)

-----------------------------------------------------------------------------
(* Command lines.  sh is the shell after the echo and the history, d the   *)
(* runtime; a command that is started leaves the loop for "spawn".         *)

AfterCommand(d) ==
    /\ rt' = Changed(Synced(d, shell'))
    /\ UNCHANGED <<prev, user>>

BuiltIn(sh, d) ==
    /\ shell' = sh
    /\ UNCHANGED <<fs, kernelVars, pc, resume>>
    /\ AfterCommand(d)

\* touch, mkdir and rm.
ChangeFiles(sh, d, l) ==
    LET paths == shell_normalize_path(sh.cwd, l.arg)
        Works(p) == IF l.cmd = "rm" THEN CanDelete(p) ELSE CanCreate(p)
        done == {p \in paths : Works(p)}
    IN  /\ fs' = IF l.cmd = "rm" THEN fs \ done ELSE fs \cup done
        /\ shell' = shell_push_text(sh)
        /\ UNCHANGED <<kernelVars, pc, resume>>
        /\ AfterCommand(d)

\* shell_start_external_command up to sys_pty_open.
StartCommand(sh, d) ==
    \/ /\ sh.ext_running \/ used = Ptys
       /\ BuiltIn(shell_push_text(sh), d)
    \/ /\ OpenSession(sh)
       /\ pc' = "spawn" /\ resume' = pc
       /\ AfterCommand(d)

\* shell_run_line and shell_execute_command.
shell_run_line(d, line) ==
    LET e == Entered(shell, line)
        l == e.run[1]
    IN  \/ e.run = <<>> /\ BuiltIn(e.sh, d)
        \/ e.run # <<>> /\ l.cmd = "echo" /\ BuiltIn(shell_push_text(e.sh), d)
        \/ e.run # <<>> /\ l.cmd = "cd" /\ BuiltIn(ChangedDir(e.sh, l), d)
        \/ /\ e.run # <<>> /\ l.cmd = "clear"
           /\ BuiltIn([e.sh EXCEPT !.scroll_count = 0, !.scroll_head = 0, !.log = <<>>], d)
        \/ /\ e.run # <<>> /\ l.cmd = "exit"
           /\ BuiltIn(shell_push_text(e.sh), Hidden(d, ShellWindow))
        \/ e.run # <<>> /\ l.cmd \in {"touch", "rm"} /\ ChangeFiles(e.sh, d, l)
        \/ e.run # <<>> /\ l.cmd = "run" /\ StartCommand(e.sh, d)

\* O, Enter, U and a double click in the panel.
desktop_files_activate_selected(d) ==
    LET name == SelectedName(d)
        Opened(dir) ==
            /\ shell' = [shell EXCEPT !.prev_cwd = IF dir = shell.cwd THEN @ ELSE shell.cwd,
                                      !.cwd = dir]
            /\ rt' = Changed(desktop_refresh_files_panel(Synced(d, shell'), fs, dir))
            /\ UNCHANGED <<fs, kernelVars, pc, resume, prev, user>>
    IN  \/ name = ".." /\ Opened(IF shell.cwd = <<>> THEN <<>> ELSE Front(shell.cwd))
        \/ /\ name \in DirNames
           /\ Opened(IF Len(shell.cwd) < PathMax THEN Append(shell.cwd, name) ELSE shell.cwd)
        \/ /\ name \in ElfNames /\ Len(shell.cwd) < PathMax
           /\ shell_run_line(files_rebuild_view(d, shell.cwd), [cmd |-> "run", arg |-> name])
        \/ /\ name # ".." /\ name \notin DirNames
           /\ name \notin ElfNames \/ Len(shell.cwd) >= PathMax
           /\ rt' = Changed(files_rebuild_view(d, shell.cwd))
           /\ UNCHANGED <<shell, fs, kernelVars, pc, resume, prev, user>>

\* D: the path is the shell's directory and the selected name.
desktop_files_delete_selected(d) ==
    LET name == SelectedName(d)
        refused == name = ".." \/ Len(shell.cwd) >= PathMax
        path == Append(shell.cwd, name)
    IN  /\ fs' = IF ~refused /\ CanDelete(path) THEN fs \ {path} ELSE fs
        /\ rt' = Changed(IF refused THEN files_rebuild_view(d, shell.cwd)
                         ELSE desktop_refresh_files_panel(d, fs', shell.cwd))
        /\ UNCHANGED <<shell, kernelVars, pc, resume, prev, user>>

-----------------------------------------------------------------------------
(* desktop_poll_keyboard: the keys, in the order the code tries them.      *)

ShellFocused == rt.active_idx = ShellWindow /\ ShellWindow \in Visible(rt)

FilesFocused == rt.active_idx = FilesWindow /\ FilesWindow \in Visible(rt)

\* A key or mouse event is handled at this place of the loop.
Event(at) ==
    /\ pc = at
    /\ events < user.events
    /\ events' = events + 1

Key(k) == Event("keyboard") /\ k \in user.keys

\* The key changes the windows only.
WindowKey(d) ==
    /\ rt' = d
    /\ UNCHANGED <<shellVars, ptyVars, prev, pc, resume, user>>

\* ESC ends the desktop; a running command is left to itself.
KeyEscape ==
    /\ Key("escape")
    /\ pc' = "closed"
    /\ UNCHANGED <<rt, prev, resume, user, shellVars, ptyVars>>

KeyTab == Key("tab") /\ WindowKey(Cycled(rt))

\* Typing a line into the shell window and Enter.
KeyLine ==
    /\ Key("line")
    /\ ShellFocused
    /\ \/ /\ ~shell.ext_running
          /\ \E line \in user.lines : shell_run_line(rt, line)
       \/ /\ \E chunk \in user.typed : SendLine(chunk)
          /\ rt' = Changed(Synced(rt, shell))
          /\ UNCHANGED <<prev, pc, resume, user>>

KeySelect ==
    /\ Key("select")
    /\ FilesFocused
    /\ \E delta \in {-1, 1} : WindowKey(desktop_files_select_next(rt, delta))

\* U and backspace open the parent, O and Enter the selected entry.
KeyOpen ==
    /\ Key("open")
    /\ FilesFocused
    /\ \E sel \in {1, rt.files_selected} :
          desktop_files_activate_selected([rt EXCEPT !.files_selected = sel])

KeyDelete ==
    /\ Key("delete")
    /\ FilesFocused
    /\ desktop_files_delete_selected(rt)

KeyRefresh ==
    /\ Key("refresh")
    /\ FilesFocused
    /\ WindowKey(Changed(desktop_refresh_files_panel(rt, fs, shell.cwd)))

\* 1 to 9
KeyToggle ==
    /\ Key("toggle")
    /\ ~ShellFocused
    /\ \E i \in Windows :
          WindowKey(IF i \in Visible(rt) THEN Hidden(rt, i)
                    ELSE Shown(IF i = ShellWindow THEN Synced(rt, shell) ELSE rt, i))

\* The window that takes W, A, S, D, C and X.
WindowFocused == ~ShellFocused /\ rt.active_idx \in Visible(rt)

KeyMove ==
    /\ Key("move")
    /\ WindowFocused
    /\ \E step \in {<<-1, 0>>, <<1, 0>>, <<0, -1>>, <<0, 1>>} :
          /\ step = <<1, 0>> => ~FilesFocused
          /\ WindowKey(Moved(rt, step[1], step[2]))

KeyTheme == Key("theme") /\ WindowFocused /\ WindowKey(Rethemed(rt))

KeyClose == Key("close") /\ WindowFocused /\ WindowKey(Hidden(rt, rt.active_idx))

Keyboard ==
    \/ KeyEscape \/ KeyTab \/ KeyLine
    \/ KeySelect \/ KeyOpen \/ KeyDelete \/ KeyRefresh
    \/ KeyToggle \/ KeyMove \/ KeyTheme \/ KeyClose

-----------------------------------------------------------------------------
(* desktop_poll_mouse                                                      *)

\* The mouse moves to p with the button as it was, or lets it go.
MouseMove(p, down) ==
    /\ Event("mouse")
    /\ user.clicks # {}
    /\ down => rt.left
    /\ LET d == [CursorAt(rt, p) EXCEPT !.left = down]
       IN  WindowKey(IF down THEN Dragged(d) ELSE IF rt.left THEN Released(d) ELSE d)

\* The button goes down at p.
PressedAt(p) == [CursorAt(rt, p) EXCEPT !.left = TRUE]

Press(p, what) == Event("mouse") /\ what \in user.clicks /\ ~rt.left /\ p \in Points

PressIcon(p) ==
    /\ Press(p, "window")
    /\ LET i == hit_test_icon(p)
       IN  /\ i # -1
           /\ WindowKey(IconPressed(IF i = ShellWindow THEN Synced(PressedAt(p), shell)
                                    ELSE PressedAt(p), i))

PressBackground(p) ==
    /\ Press(p, "window")
    /\ hit_test_icon(p) = -1
    /\ hit_test_window(rt, p) = -1
    /\ WindowKey(BackgroundPressed(PressedAt(p)))

\* A window anywhere but on an entry of the file panel.
PressWindow(p) ==
    /\ Press(p, "window")
    /\ hit_test_icon(p) = -1
    /\ hit_test_window(rt, p) # -1
    /\ WindowKey(WindowPressed(PressedAt(p), hit_test_window(rt, p)))

\* An entry of the file panel; the second click in time opens it.
PressEntry(p, e, quick) ==
    /\ Press(p, "entry")
    /\ hit_test_icon(p) = -1
    /\ hit_test_window(rt, p) = FilesWindow
    /\ point_in_rect(p, window_body_rect(rt.windows[FilesWindow]))
    /\ e \in EntriesShown(rt)
    /\ LET d == Released(focus_window(PressedAt(p), FilesWindow))
           f == IF e = d.files_selected THEN d
                ELSE Changed(files_rebuild_view([d EXCEPT !.files_selected = e], shell.cwd))
           again == e = rt.files_last_click /\ quick
       IN  IF again THEN desktop_files_activate_selected([f EXCEPT !.files_last_click = -1])
           ELSE WindowKey([f EXCEPT !.files_last_click = e])

Mouse ==
    \E p \in Points :
       \/ \E down \in BOOLEAN : MouseMove(p, down)
       \/ PressIcon(p) \/ PressBackground(p) \/ PressWindow(p)
       \/ \E e \in 1 .. EntryMax, quick \in BOOLEAN : PressEntry(p, e, quick)

-----------------------------------------------------------------------------
(* The rest of the loop of main.c.  Each action is a system call or the    *)
(* code between two.                                                       *)

Goto(to) == pc' = to /\ UNCHANGED <<prev, resume, user>>

\* No key, or no mouse event, is left.
PollingDone ==
    /\ pc \in {"keyboard", "mouse"}
    /\ Goto(IF pc = "keyboard" THEN "mouse" ELSE "drain")
    /\ UNCHANGED <<rt, events, shellVars, ptyVars>>

\* The end of shell_start_external_command: the spawn, and a first drain.
Spawn ==
    /\ pc = "spawn"
    /\ \/ /\ \E t \in Pids : SpawnSucceeds(t)
          /\ Goto("started")
          /\ rt' = [Synced(rt, shell') EXCEPT !.force_full_redraw = TRUE]
       \/ /\ SpawnFails
          /\ Goto(resume)
          /\ rt' = Synced(rt, shell')
    /\ UNCHANGED events

\* main.c takes a change of the shell's text to the window.
Pumped(d) ==
    IF ShellWindow \in Visible(d) THEN Changed(Synced(d, shell')) ELSE Synced(d, shell')

\* shell_drain_pty_output, at the start of a command or in every frame.
Drain ==
    /\ pc \in {"started", "drain"}
    /\ shell.ext_running
    /\ DrainOutput
    /\ rt' = Pumped(rt)
    /\ UNCHANGED <<prev, pc, resume, events, user>>

\* Slip: the pump drains and leaves it at that.
DrainEnds_NoClose ==
    /\ pc \in {"started", "drain"}
    /\ shell.ext_running => Drained
    /\ Goto(IF pc = "started" THEN resume ELSE "panels")
    /\ UNCHANGED <<rt, events, shellVars, ptyVars>>

DrainEnds ==
    /\ pc \in {"started", "drain"}
    /\ shell.ext_running => Drained
    /\ Goto(CASE pc = "started" -> resume
              [] pc = "drain" /\ shell.ext_running -> "close"
              [] OTHER -> "panels")
    /\ UNCHANGED <<rt, events, shellVars, ptyVars>>

\* shell_pump_external: the close, and the wait once it succeeds.
Close ==
    /\ pc = "close"
    /\ \/ CloseRefused /\ Goto("panels") /\ UNCHANGED <<shellVars, ptyVars>>
       \/ CloseSession /\ Goto("wait")
    /\ UNCHANGED <<rt, events>>

Wait ==
    /\ pc = "wait"
    /\ CollectChild
    /\ rt' = Pumped(rt)
    /\ Goto("panels")
    /\ UNCHANGED events

\* Slip: the file panel is refreshed by the clock only.
FilesRefreshed_Periodic(d, periodic) ==
    IF FilesWindow \in Visible(d) /\ periodic
    THEN Changed(desktop_refresh_files_panel(d, fs, shell.cwd)) ELSE d

\* desktop_refresh_dynamic_panels: the file panel follows the shell's
\* directory and the clock.
FilesRefreshed(d, periodic) ==
    IF FilesWindow \in Visible(d) /\ (d.files_cwd # shell.cwd \/ periodic)
    THEN Changed(desktop_refresh_files_panel(d, fs, shell.cwd)) ELSE d

\* The network panel and what the network calls answered, by the clock.
NetworkRefreshed(d, periodic, report) ==
    LET panels == {i \in Visible(d) : i > FilesWindow}
    IN  IF periodic /\ panels # {}
        THEN Changed([d EXCEPT !.lines = [i \in Windows |-> IF i \in panels THEN report ELSE @[i]]])
        ELSE d

\* The panels, the frame, and the sleep until the next one.
Render ==
    /\ pc = "panels"
    /\ \E periodic \in BOOLEAN, report \in {0, 1} :
          LET d == NetworkRefreshed(FilesRefreshed(rt, periodic), periodic, report)
          IN  rt' = NewFrame(desktop_render_frame(prev, desktop_finalize_state(d)))
    /\ prev' = desktop_snapshot_save(rt')
    /\ pc' = "keyboard"
    /\ events' = 0
    /\ UNCHANGED <<resume, user, shellVars, ptyVars>>

\* Other programs create and delete files.
OtherFiles ==
    /\ \E p \in user.others :
          \/ CanCreate(p) /\ fs' = fs \cup {p}
          \/ CanDelete(p) /\ fs' = fs \ {p}
    /\ UNCHANGED <<desktopVars, shell, kernelVars>>

\* The steps of the loop up to the frame, one or more of them at every place.
Loop == PollingDone \/ Spawn \/ Drain \/ DrainEnds \/ Close \/ Wait

Next ==
    \/ Keyboard
    \/ Mouse
    \/ Loop
    \/ Render
    \/ Programs(user.output) /\ UNCHANGED desktopVars
    \/ user.ptysh /\ Ptysh /\ UNCHANGED desktopVars
    \/ \E chunk \in user.typed : PtyshKey(chunk) /\ UNCHANGED desktopVars
    \/ OtherFiles

\* desktop_runtime_init and the first repaint of main.c.  Windows start in
\* places that overlap.
Init ==
    /\ ShellInit
    /\ user \in Users
    /\ fs = user.files
    /\ pc = IF user.desktop THEN "keyboard" ELSE "closed"
    /\ resume = "keyboard" /\ events = 0
    /\ rt = LET blank ==
                  [windows |-> [i \in Windows |->
                       clamp_window([x |-> 1 + i, y |-> 1 + (i % 2), theme |-> i % ThemeCount,
                                     visible |-> TRUE])],
                   lines |-> [i \in Windows |-> 0],
                   z_order |-> bring_to_front([k \in 1 .. WindowCount |-> k - 1], ShellWindow),
                   active_idx |-> ShellWindow, dragging_idx |-> -1, drag_off |-> [x |-> 0, y |-> 0],
                   cursor |-> CHOOSE p \in Points : TRUE, left |-> FALSE,
                   cursor_save |-> [valid |-> FALSE, at |-> CHOOSE p \in Points : TRUE, pixel |-> <<>>],
                   screen |-> [c \in Pixels |-> <<"background">>],
                   scene_changed |-> FALSE, cursor_changed |-> FALSE, force_full_redraw |-> FALSE,
                   files_cwd |-> <<>>, files_entries |-> <<"..">>, files_selected |-> 1,
                   files_offset |-> 0, files_last_click |-> -1]
                d == desktop_refresh_files_panel(Synced(blank, shell), fs, <<>>)
                over == Overlaid([c \in Pixels |-> Scene(d, c)], d.cursor)
            IN  [d EXCEPT !.screen = over.screen, !.cursor_save = over.save]
    /\ prev = desktop_snapshot_save(rt)

\* The desktop keeps running: a frame begins every 16 ms, keys and mouse
\* events of a frame run out, and the scheduler gives it its turns.  Only
\* Render goes from the panels to the keyboard, and it always can.
FrameEnds == pc = "panels" /\ pc' = "keyboard"

Spec == Init /\ [][Next]_vars /\ WF_vars(Loop) /\ WF_pc(FrameEnds)

-----------------------------------------------------------------------------
\* At the beginning of a frame the screen shows the scene under the cursor:
\* what desktop_render_frame repainted is enough, whatever was moved, hidden,
\* raised, rethemed or rewritten since the last frame.
ScreenShowsScene ==
    pc = "keyboard" /\ events = 0 =>
        \A c \in Pixels :
            rt.screen[c] = IF c = rt.cursor THEN <<"cursor">> ELSE Scene(rt, c)

\* Keys go to the window on top, or to none, and a dragged window can be
\* seen: however windows are hidden, raised and cycled through.
KeysGoToTopWindow ==
    /\ rt.active_idx \in {-1, top_visible_window(rt)}
    /\ rt.dragging_idx \in {-1} \cup Visible(rt)
    /\ \A i \in Windows : \E k \in 1 .. WindowCount : rt.z_order[k] = i

\* The shell's rings hold the latest lines and commands, oldest first, with
\* the window showing the end of the lines and !n naming the nth command.
RingsKeepLatest ==
    /\ LET view == shell_refresh_view(shell)
       IN  view = SubSeq(shell.log, Len(shell.log) - Len(view) + 1, Len(shell.log))
    /\ Len(shell_refresh_view(shell)) = Least(Len(shell.log), ViewMax - 1)
    /\ \A n \in 1 .. HistoryMax :
          shell_history_get_by_number(shell, n) =
              IF n <= Len(shell.past) THEN <<shell.past[n]>> ELSE <<>>

\* A program started on a session keeps it, alone, until it exits: no close,
\* reopening or second start takes it away.  The running command has a
\* session of its own and the desktop never blocks in waitpid for a command
\* that still runs.  Once its command is collected or could not be started,
\* the desktop has closed every session it opened.  Two are left open for
\* good: that of a ptysh which was refused its close, and, because the loop of
\* desktop_main ends without a close, that of a command which had not been
\* collected when the desktop was left.
CommandOwnsSession ==
    /\ SlaveKeepsSession
    /\ pc = "wait" => children[shell.ext_pid] = "terminated"
    /\ shell.ext_running /\ children[shell.ext_pid] = "running" =>
          slave_pid[shell.ext_pty] = shell.ext_pid
    /\ shell.ext_running /\ pc # "wait" => shell.ext_pty \in used \ {ptysh.pty}
    /\ ~shell.ext_running /\ pc # "spawn" => used \subseteq {ptysh.pty} \cup ptysh.left
    /\ used \subseteq {shell.ext_pty, ptysh.pty} \cup ptysh.left

\* What the screen shows selected in the file panel when a frame begins is
\* what D removes from the directory whose entries are shown: the shell's
\* directory and the panel's entries agree again before every frame is shown,
\* and nothing else is removed.
DeletesWhatIsShown ==
    [][KeyDelete /\ events = 0 =>
         \A p \in fs \ fs' :
             \E c \in Pixels : LET seen == rt.screen[c]
                               IN  /\ seen[1] = "body" /\ seen[2] = FilesWindow
                                   /\ p = Append(rt.files_cwd, seen[5].selected)]_vars

\* A command that has ended is collected and the prompt comes back, unless
\* the desktop is closed.
CommandCollected ==
    (shell.ext_running /\ children[shell.ext_pid] = "terminated")
        ~> (~shell.ext_running \/ pc = "closed")
=============================================================================
