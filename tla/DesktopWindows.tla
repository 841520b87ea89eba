--------------------------- MODULE DesktopWindows ---------------------------
(***************************************************************************)
(* The windows of the desktop, src/userland/programs/desktop: the stacking *)
(* order and the focus (window.c, input.c), and what one frame repaints    *)
(* (frame.c, render.c, cursor.c, geometry.c).  The frame buffer is a grid  *)
(* of cells, scaled down so that a title bar, an icon and the cursor are   *)
(* one cell high.  A cell shows what was painted there last; text, colours *)
(* and frames inside a cell are abstracted to what they depend on.         *)
(*                                                                         *)
(* desktop_runtime_t and the frame's flags are one record, rt, and the     *)
(* functions of the source are operators from records to records.          *)
(***************************************************************************)
EXTENDS Integers, Sequences, FiniteSets, FiniteSetsExt, SequencesExt

CONSTANTS WindowCount,    \* WINDOW_COUNT
          FbWidth,        \* cells of the frame buffer
          FbHeight,
          WinWidth,       \* cells of a window
          WinHeight,
          ThemeCount,     \* desktop_theme_count()
          MaxDirtyRects   \* MAX_DIRTY_RECTS

Windows == 0 .. WindowCount - 1

ShellWindow == 0
FilesWindow == 1

WindowsAssumption ==
    /\ WindowCount \in Nat /\ WindowCount >= 2
    /\ FbWidth \in Nat /\ FbHeight \in Nat
    /\ WinWidth \in 2 .. FbWidth - 1
    /\ WinHeight \in 2 .. FbHeight - 1
    /\ FbHeight > WindowCount
    /\ ThemeCount \in Nat \ {0}
    /\ MaxDirtyRects \in Nat \ {0}

ASSUME WindowsConstants == WindowsAssumption

-----------------------------------------------------------------------------
(* geometry.c                                                              *)

make_rect(x, y, w, h) == [x |-> x, y |-> y, w |-> w, h |-> h]

rect_valid(r) == r.w > 0 /\ r.h > 0

point_in_rect(p, r) ==
    /\ rect_valid(r)
    /\ p.x >= r.x /\ p.x < r.x + r.w
    /\ p.y >= r.y /\ p.y < r.y + r.h

rect_intersects(a, b) ==
    /\ rect_valid(a) /\ rect_valid(b)
    /\ a.x + a.w > b.x /\ b.x + b.w > a.x
    /\ a.y + a.h > b.y /\ b.y + b.h > a.y

rect_intersection(a, b) ==
    LET x1 == Max({a.x, b.x})
        y1 == Max({a.y, b.y})
        x2 == Min({a.x + a.w, b.x + b.w})
        y2 == Min({a.y + a.h, b.y + b.h})
    IN  make_rect(x1, y1, Max({x2 - x1, 0}), Max({y2 - y1, 0}))

rect_union(a, b) ==
    LET x1 == Min({a.x, b.x})
        y1 == Min({a.y, b.y})
    IN  make_rect(x1, y1, Max({a.x + a.w, b.x + b.w}) - x1,
                          Max({a.y + a.h, b.y + b.h}) - y1)

FbRect == make_rect(0, 0, FbWidth, FbHeight)

clip_to_fb(r) == rect_intersection(r, FbRect)

Pixels == [x : 0 .. FbWidth - 1, y : 0 .. FbHeight - 1]

desktop_top_rect == make_rect(0, 0, FbWidth, 1)

icon_rect(i) == make_rect(0, 1 + i, 1, 1)

clamp_i32(v, lo, hi) == IF v < lo THEN lo ELSE IF v > hi THEN hi ELSE v

-----------------------------------------------------------------------------
(* window.c                                                                *)

window_rect(w) == make_rect(w.x, w.y, WinWidth, WinHeight)

window_body_rect(w) == make_rect(w.x, w.y + 1, WinWidth, WinHeight - 1)

close_button_rect(w) == make_rect(w.x + WinWidth - 1, w.y, 1, 1)

\* The title bar, close button included.
TitleRect(w) == make_rect(w.x, w.y, WinWidth, 1)

clamp_window(w) ==
    [w EXCEPT !.x = clamp_i32(@, 1, FbWidth - WinWidth),
              !.y = clamp_i32(@, 1, FbHeight - WinHeight)]

Visible(d) == {i \in Windows : d.windows[i].visible}

\* The window nearest to the viewer among those in S, or -1.
TopOf(d, S) ==
    IF S = {} THEN -1
    ELSE d.z_order[Max({k \in 1 .. WindowCount : d.z_order[k] \in S})]

top_visible_window(d) == TopOf(d, Visible(d))

\* The windows above i move down by one.
bring_to_front(z, i) ==
    LET pos == CHOOSE k \in 1 .. WindowCount : z[k] = i
    IN  [k \in 1 .. WindowCount |->
            IF k < pos THEN z[k] ELSE IF k < WindowCount THEN z[k + 1] ELSE i]

\* The next visible window after the active one, round the stacking order.
cycle_focus_window(d) ==
    IF d.active_idx \notin Visible(d) THEN top_visible_window(d)
    ELSE LET at == CHOOSE k \in 1 .. WindowCount : d.z_order[k] = d.active_idx
             Nth(step) == d.z_order[((at - 1 + step) % WindowCount) + 1]
         IN  Nth(Min({step \in 1 .. WindowCount : Nth(step) \in Visible(d)}))

hit_test_icon(p) ==
    LET hit == {i \in Windows : point_in_rect(p, icon_rect(i))}
    IN  IF hit = {} THEN -1 ELSE Min(hit)

hit_test_window(d, p) ==
    TopOf(d, {i \in Visible(d) : point_in_rect(p, window_rect(d.windows[i]))})

-----------------------------------------------------------------------------
(* Focus, visibility and dragging, input.c.                                *)

Changed(d) == [d EXCEPT !.scene_changed = TRUE]

\* Slip: the window gets the focus but stays where it is in the stack.
focus_window_NotRaised(d, i) == [d EXCEPT !.active_idx = i, !.scene_changed = TRUE]

focus_window(d, i) ==
    LET z == bring_to_front(d.z_order, i)
    IN  [d EXCEPT !.active_idx = i, !.z_order = z,
                  !.scene_changed = @ \/ d.active_idx # i \/ z # d.z_order]

\* A window is hidden: by its key, X, the close button or "exit" in the shell.
Hidden(d, i) ==
    LET e == [d EXCEPT !.windows[i].visible = FALSE]
    IN  [e EXCEPT !.dragging_idx = IF @ = i THEN -1 ELSE @,
                  !.active_idx = IF @ = i THEN top_visible_window(e) ELSE @,
                  !.scene_changed = TRUE]

Shown(d, i) == Changed(focus_window([d EXCEPT !.windows[i].visible = TRUE], i))

\* The keys of a window that has the focus: W A S D move it, C gives it the
\* next theme.
Moved(d, dx, dy) ==
    Changed([d EXCEPT !.windows[d.active_idx].x = @ + dx, !.windows[d.active_idx].y = @ + dy])

Rethemed(d) ==
    Changed([d EXCEPT !.windows[d.active_idx].theme = (@ + 1) % ThemeCount])

\* Tab
Cycled(d) ==
    LET next == cycle_focus_window(d)
    IN  IF next \in Windows THEN focus_window(d, next)
        ELSE [d EXCEPT !.active_idx = -1, !.scene_changed = @ \/ d.active_idx # -1]

\* A mouse event moves the cursor first.
CursorAt(d, p) == [d EXCEPT !.cursor = p, !.cursor_changed = @ \/ d.cursor # p]

\* What a dragged window does while the button is down.
Dragged(d) ==
    IF d.dragging_idx \notin Visible(d) THEN d
    ELSE LET w == d.windows[d.dragging_idx]
             to == [w EXCEPT !.x = d.cursor.x - d.drag_off.x, !.y = d.cursor.y - d.drag_off.y]
         IN  [d EXCEPT !.windows[d.dragging_idx] = to, !.scene_changed = @ \/ to # w]

Released(d) == [d EXCEPT !.dragging_idx = -1]

\* The button goes down on an icon, on a window outside the entries of the
\* file panel, or on the background.
IconPressed(d, i) == Released(IF d.windows[i].visible THEN focus_window(d, i) ELSE Shown(d, i))

WindowPressed(d, i) ==
    LET e == focus_window(d, i)
        w == d.windows[i]
    IN  IF point_in_rect(d.cursor, close_button_rect(w)) THEN Hidden(e, i)
        ELSE IF point_in_rect(d.cursor, TitleRect(w))
             THEN Dragged([e EXCEPT !.dragging_idx = i,
                                    !.drag_off = [x |-> d.cursor.x - w.x, y |-> d.cursor.y - w.y]])
             ELSE Released(e)

BackgroundPressed(d) ==
    Released([d EXCEPT !.active_idx = -1, !.scene_changed = @ \/ d.active_idx # -1])

-----------------------------------------------------------------------------
(* Rendering.  Scene is what a repaint of everything would show.           *)

Scene(d, c) ==
    LET i == hit_test_window(d, c)
        icon == hit_test_icon(c)
    IN  CASE i # -1 /\ point_in_rect(c, window_body_rect(d.windows[i])) ->
                <<"body", i, d.windows[i].theme, i = d.active_idx, d.lines[i]>>
          [] i # -1 /\ ~point_in_rect(c, window_body_rect(d.windows[i])) ->
                <<"frame", i, d.windows[i].theme, i = d.active_idx>>
          [] i = -1 /\ icon # -1 -> <<"icon", icon, d.windows[icon].visible, icon = d.active_idx>>
          [] i = -1 /\ icon = -1 /\ point_in_rect(c, desktop_top_rect) ->
                <<"bar", Cardinality(Visible(d)),
                  IF d.active_idx \in Visible(d) THEN d.active_idx ELSE -1>>
          [] OTHER -> <<"background">>

\* One round of the loop of dirty_add: a rectangle of the set that meets the
\* new one is swallowed by it.
Swallow(s) ==
    LET met == {q \in s.rest : rect_intersects(q, s.r)}
        q == CHOOSE q \in met : TRUE
    IN  IF met = {} THEN s ELSE [rest |-> s.rest \ {q}, r |-> rect_union(q, s.r)]

\* A rectangle joins the dirty set, swallowing those it meets; one too many
\* makes it the whole screen.
dirty_add(dirty, r) ==
    LET merged[n \in 0 .. Cardinality(dirty)] ==
            IF n = 0 THEN [rest |-> dirty, r |-> r] ELSE Swallow(merged[n - 1])
        end == merged[Cardinality(dirty)]
    IN  CASE ~rect_valid(r) -> dirty
          [] rect_valid(r) /\ Cardinality(end.rest) < MaxDirtyRects -> end.rest \cup {end.r}
          [] OTHER -> {FbRect}

\* Slip: a moved window is repainted where it is, not where it was.
DirtyWindow_NewPlace(p, d, i) ==
    LET was == p.windows[i]
        is == d.windows[i]
    IN  {window_rect(w) : w \in {w \in {is} : w.visible /\ was # is}}

\* The rectangles window i makes dirty since the snapshot p.
DirtyWindow(p, d, i) ==
    LET was == p.windows[i]
        is == d.windows[i]
        restyled == was.theme # is.theme \/ (i = p.active_idx) # (i = d.active_idx)
        both == {w \in {was, is} : w.visible}
    IN  {window_rect(w) : w \in IF was # is \/ restyled \/ p.z_order # d.z_order THEN both ELSE {}}
          \cup (IF d.scene_changed THEN {window_body_rect(w) : w \in both} ELSE {})

\* The icons and the bar.
DirtyDesktop(p, d) ==
    LET Focus(e, i) == i = e.active_idx
    IN  {icon_rect(i) : i \in {i \in Windows :
            Focus(p, i) # Focus(d, i) \/ p.windows[i].visible # d.windows[i].visible}}
          \cup (IF \/ Cardinality(Visible(p)) # Cardinality(Visible(d))
                   \/ p.active_idx # d.active_idx
                THEN {desktop_top_rect} ELSE {})

\* What is repainted: rectangles, or the whole screen.
Dirty(p, d) ==
    LET rects == (UNION {DirtyWindow(p, d, i) : i \in Windows}) \cup DirtyDesktop(p, d)
        set == FoldSet(LAMBDA r, dirty : dirty_add(dirty, clip_to_fb(r)), {}, rects)
    IN  IF \/ d.force_full_redraw
           \/ d.scene_changed /\ d.dragging_idx # -1
           \/ d.scene_changed /\ set = {}
           \/ (d.scene_changed \/ d.cursor_changed) /\ ~d.cursor_save.valid
        THEN {FbRect} ELSE set

cursor_restore_under(screen, save) ==
    IF save.valid THEN [screen EXCEPT ![save.at] = save.pixel] ELSE screen

\* cursor_capture_under and draw_cursor
Overlaid(screen, at) ==
    [screen |-> [screen EXCEPT ![at] = <<"cursor">>],
     save |-> [valid |-> TRUE, at |-> at, pixel |-> screen[at]]]

\* desktop_finalize_state and the repairs of sanitize_runtime_state, which
\* find nothing else to repair.
desktop_finalize_state(d) ==
    LET ws == [i \in Windows |-> IF d.windows[i].visible THEN clamp_window(d.windows[i])
                                 ELSE d.windows[i]]
        lost == d.active_idx \in Windows \ Visible(d)
    IN  [d EXCEPT !.windows = ws, !.active_idx = IF lost THEN top_visible_window(d) ELSE @,
                  !.scene_changed = @ \/ ws # d.windows \/ lost]

\* desktop_render_frame, with the snapshot p of the frame's beginning.
desktop_render_frame(p, d) ==
    LET overlay == d.cursor_changed \/ d.scene_changed
        under == IF overlay THEN cursor_restore_under(d.screen, d.cursor_save) ELSE d.screen
        dirty == Dirty(p, d)
        painted == [c \in Pixels |-> IF \E r \in dirty : point_in_rect(c, r)
                                     THEN Scene(d, c) ELSE under[c]]
        over == Overlaid(painted, d.cursor)
    IN  IF overlay THEN [d EXCEPT !.screen = over.screen, !.cursor_save = over.save]
        ELSE [d EXCEPT !.screen = painted]

\* The beginning of a frame: no flag is set.
NewFrame(d) ==
    [d EXCEPT !.scene_changed = FALSE, !.cursor_changed = FALSE, !.force_full_redraw = FALSE]

desktop_snapshot_save(d) ==
    [windows |-> d.windows, z_order |-> d.z_order, active_idx |-> d.active_idx]
=============================================================================
