------------------------------ MODULE MCDesktop ------------------------------
(***************************************************************************)
(* Instances of Desktop.  Each user does one kind of thing, so that each   *)
(* is explored in full and they do not multiply: users differ in the keys  *)
(* they press, the lines they type, what they click on, how much they do   *)
(* in one frame, the files there are, and who else is at work.             *)
(***************************************************************************)
EXTENDS Desktop

Line(c, a) == [cmd |-> c, arg |-> a]

Rel(segs) == [abs |-> FALSE, back |-> FALSE, segs |-> segs]

Back == [abs |-> FALSE, back |-> TRUE, segs |-> <<>>]

Nobody == [keys |-> {}, lines |-> {}, clicks |-> {}, events |-> 2, typed |-> {}, output |-> {},
           files |-> {}, others |-> {}, ptysh |-> FALSE, desktop |-> TRUE]

\* Runs commands and closes the desktop under them, while ptysh runs others.
Typist == [Nobody EXCEPT !.keys = {"line", "escape"}, !.lines = {Line("run", 0)},
                         !.events = 1, !.ptysh = TRUE]

\* Runs commands and types lines for them.
Talker == [Nobody EXCEPT !.keys = {"line"}, !.lines = {Line("run", 0)}, !.typed = {<<0>>},
                         !.events = 1, !.output = {<<1, 0, 1>>}]

\* Use ptysh without the desktop: for programs that read, and that write.
Bridger == [Nobody EXCEPT !.ptysh = TRUE, !.typed = {<<0>>}, !.desktop = FALSE]

Reader == [Nobody EXCEPT !.ptysh = TRUE, !.output = {<<1>>}, !.desktop = FALSE]

\* Starts programs from the file panel.
Launcher == [Nobody EXCEPT !.keys = {"tab", "select", "open"}, !.files = {<<"b.elf">>}, !.events = 1]

\* Types built-in commands and recalls them.
Historian == [Nobody EXCEPT !.keys = {"line"}, !.events = 1, !.files = {<<"d">>},
                            !.lines = {Line("echo", 0), Line("clear", 0),
                                       Line("cd", Rel(<<"d">>)), Line("cd", Back),
                                       Line("touch", Rel(<<"..", "a">>)), Line("rm", Rel(<<"a">>)),
                                       Line("!!", 0), Line("!n", 1), Line("!n", 2)}]

\* Walks through directories and deletes, while others change them too.
Clerk == [Nobody EXCEPT !.keys = {"line", "tab", "select", "open", "delete", "refresh"},
                        !.lines = {Line("cd", Rel(<<"d">>))},
                        !.files = {<<"d">>, <<"a">>, <<"d", "a">>}, !.others = {<<"a">>}]

\* The same with the mouse.
Clicker == [Nobody EXCEPT !.clicks = {"entry"}, !.keys = {"tab", "delete"}, !.files = {<<"d">>, <<"d", "a">>},
                          !.events = 1]

\* Arranges windows: with the mouse, with keys, their themes.
Dragger == [Nobody EXCEPT !.clicks = {"window"}, !.events = 1]

Mover == [Nobody EXCEPT !.keys = {"tab", "move", "close"}]

Decorator == [Nobody EXCEPT !.keys = {"tab", "toggle", "theme", "line"}, !.lines = {Line("exit", 0)},
                            !.events = 1]

MCUsers ==
    {Typist, Talker, Bridger, Reader, Launcher, Historian, Clerk, Clicker, Dragger, Mover, Decorator}

MCChunks == {<<0>>, <<1>>, <<1, 0, 1>>}

MCNames == <<"d", "a", "b.elf">>

MCPoints == {[x |-> 0, y |-> 0], [x |-> 0, y |-> 2], [x |-> 2, y |-> 1], [x |-> 2, y |-> 3]}
=============================================================================
