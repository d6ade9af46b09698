---------------------------- MODULE FrameLayout ----------------------------
(***************************************************************************)
(* How render.py divides a frame among the windows: render_session and its *)
(* helpers.  A frame is a stack of panes, each some body rows and a mode   *)
(* line, above one shared echo row.  Windows are numbered from 1.          *)
(***************************************************************************)
EXTENDS Integers, FiniteSets

(* session.py: what a window needs for C-x 2 to make it.                   *)
MIN_WINDOW_ROWS == 3

AtLeast(a, b) == IF a < b THEN b ELSE a
AtMost(a, b)  == IF a < b THEN a ELSE b

(* The rows left above the echo row.                                       *)
PaneBudget(height) == height - 1

(* A pane is shown when body and mode line both fit; the focused one is.   *)
VisibleCount(height, count) == AtMost(count, AtLeast(PaneBudget(height) \div 2, 1))

(* Mutant: the slice starts at the focused window.                         *)
FirstVisibleAtFocus(count, focus, visible) == focus

(* The first window of the contiguous slice around the focused one.        *)
FirstVisible(count, focus, visible) ==
    AtMost(AtLeast(focus - ((visible - 1) \div 2), 1), count - visible + 1)

(* Pane k of the slice, from the top: where it begins and how many rows it *)
(* has.  The rows that do not divide evenly go to the bottom pane.         *)
BaseRows(height, visible) == PaneBudget(height) \div visible
PaneTop(height, visible, k) == (k - 1) * BaseRows(height, visible)
PaneRows(height, visible, k) ==
    IF k < visible THEN BaseRows(height, visible)
    ELSE PaneBudget(height) - (visible - 1) * BaseRows(height, visible)

(* The row of the cursor in a pane that begins at row top: the point's     *)
(* line, or the last body row when the line is below it.                   *)
CursorRow(top, rows, line) ==
    IF rows <= 1 THEN top ELSE top + AtMost(line, rows - 2)

=============================================================================
