------------------------------- MODULE Viewport -------------------------------
(***************************************************************************)
(* Where things are in a terminal (cutty_terminal/src/term/mod.rs): the    *)
(* heights of the two screens, the scrolled-back view, the scrolling       *)
(* region, the line of the cursor, of the vi mode cursor and of the        *)
(* selection's anchors.                                                    *)
(*                                                                         *)
(* A grid is [history, limit, offset, cursor]: the number of lines in its  *)
(* scrollback, max_scroll_limit, display_offset and the line of its        *)
(* cursor; what is in the lines is the subject of modules Grid and Screen, *)
(* and so is the saved cursor, of which only GridSpec!CursorsInViewport is *)
(* used: it is on the screen.  The cursors are in column 0 here.  Every    *)
(* method is an operator from terminal to terminal, so that methods can    *)
(* call others.                                                            *)
(***************************************************************************)
EXTENDS Selection

CONSTANTS Columns,      \* the width, MIN_COLUMNS or more
          Heights,      \* heights of the window
          Histories     \* values of scrolling_history

ASSUME ViewportAssumption ==
  /\ Columns \in Nat \ {0, 1}
  /\ Heights \subseteq Nat \ {0} /\ \E h \in Heights : \A k \in Heights : k <= h
  /\ Histories \subseteq Nat /\ Histories # {}

dims(t) == [lines |-> t.lines, columns |-> Columns, history |-> t.grid.history]

(* The lines of Grid::scroll_up, as in module Grid. *)
GridScrollUp(g, start, end, n) ==
  IF end - start <= n /\ start # 0 THEN g
  ELSE [g EXCEPT !.offset = IF @ # 0 THEN Smaller(@ + n, g.limit) ELSE 0,
                 !.history = IF start = 0 THEN Smaller(@ + n, g.limit) ELSE @]

(* Grid::grow_lines and Grid::shrink_lines *)
GridGrow(g, lines, target) ==
  LET added  == target - lines
      pulled == Smaller(g.history, added)
      up     == IF pulled # added THEN GridScrollUp(g, 0, target, added - pulled) ELSE g
      less   == Larger(up.history - added, 0)
      off    == Larger(up.offset - added, 0)
  IN  [up EXCEPT !.cursor = @ + pulled, !.history = less,
                 !.offset = IF up.history # 0 THEN Smaller(off, less) ELSE off]

GridShrink(g, lines, target) ==
  LET needed == Larger(g.cursor + 1 - target, 0)
      up     == IF needed > 0 THEN GridScrollUp(g, 0, lines, needed) ELSE g
  IN  [up EXCEPT !.cursor = Smaller(@, target - 1)]

GridResize(g, lines, target) ==
  CASE lines < target -> GridGrow(g, lines, target)
    [] lines > target -> GridShrink(g, lines, target)
    [] OTHER -> g

NewGrid(limit) == [history |-> 0, limit |-> limit, offset |-> 0, cursor |-> 0]

(* Term::new *)
new_term(lines, history) ==
  [lines |-> lines, grid |-> NewGrid(history), inactive |-> NewGrid(0),
   region |-> [start |-> 0, end |-> lines], vi |-> 0, sel |-> NoSelection, mode |-> {}]

(* Term::vi_mode_recompute_selection *)
vi_mode_recompute_selection(t) ==
  IF "VI" \in t.mode /\ t.sel # NoSelection /\ ~is_empty(t.sel)
    THEN [t EXCEPT !.sel = include_all(update(@, Point(t.vi, 0), "Left"))]
    ELSE t

(* Term::scroll_display: the vi mode cursor is kept in the viewport.  Page and
   end scrolls are large counts. *)
scroll_display(t, count) ==
  LET off == Smaller(Larger(t.grid.offset + count, 0), t.grid.history)
  IN  vi_mode_recompute_selection(
        [t EXCEPT !.grid.offset = off,
                  !.vi = Smaller(bottommost_line(dims(t)) - off, Larger(-off, @))])

(* Term::scroll_to_point *)
scroll_to_point(t, line) ==
  LET off == t.grid.offset
  IN  CASE line < -off           -> scroll_display(t, -(line + off))
        [] line >= t.lines - off -> scroll_display(t, -(line + off - t.lines + 1))
        [] OTHER                 -> t

(* Term::vi_motion, to a line the motion arrives at (module ViMode), and
   Term::vi_goto_point. *)
vi_motion(t, line) ==
  IF "VI" \notin t.mode THEN t
  ELSE vi_mode_recompute_selection([scroll_to_point(t, line) EXCEPT !.vi = line])
vi_goto_point(t, line) ==
  vi_mode_recompute_selection([scroll_to_point(t, line) EXCEPT !.vi = line])

(* Term::toggle_vi_mode *)
toggle_vi_mode(t) ==
  LET off == t.grid.offset
  IN  IF "VI" \in t.mode THEN [t EXCEPT !.mode = @ \ {"VI"}]
      ELSE [t EXCEPT !.mode = @ \union {"VI"},
                     !.vi = IF t.grid.cursor > bottommost_line(dims(t)) - off THEN -off
                            ELSE t.grid.cursor]

Rotated(t, top, bottom, delta) ==
  IF t.sel = NoSelection THEN NoSelection ELSE rotate(t.sel, dims(t), top, bottom, delta)

(* Term::scroll_down_relative *)
scroll_down_relative(t, origin, n) ==
  LET end == t.region.end
      lines == Smaller(Smaller(n, end - t.region.start), end - origin)
  IN  [t EXCEPT !.sel = Rotated(t, origin, end, -lines),
                !.vi = IF origin <= @ /\ @ < end THEN Smaller(@ + lines, end - 1) ELSE @]

(* Term::scroll_up_relative *)
scroll_up_relative(t, origin, n) ==
  LET end   == t.region.end
      lines == Smaller(n, end - t.region.start)
      g     == GridScrollUp(t.grid, origin, end, lines)
      top   == IF origin = 0 THEN -g.offset ELSE origin
  IN  [t EXCEPT !.sel = Rotated(t, origin, end, lines), !.grid = g,
                !.vi = IF top <= @ /\ @ < end THEN Larger(@ - lines, top) ELSE @]

InRegion(t, line) == t.region.start <= line /\ line < t.region.end

insert_blank_lines(t, n) ==
  IF InRegion(t, t.grid.cursor) THEN scroll_down_relative(t, t.grid.cursor, n) ELSE t

delete_lines(t, n) ==
  LET lines == Smaller(t.lines - t.grid.cursor, n)
  IN  IF lines > 0 /\ InRegion(t, t.grid.cursor)
        THEN scroll_up_relative(t, t.grid.cursor, lines) ELSE t

(* Mutant of linefeed: the last line of the screen is not the end. *)
linefeed_Overruns(t) ==
  IF t.grid.cursor + 1 = t.region.end THEN scroll_up_relative(t, t.region.start, 1)
  ELSE [t EXCEPT !.grid.cursor = @ + 1]

(* Handler::linefeed; wrapline does the same at the end of the region. *)
linefeed(t) ==
  LET next == t.grid.cursor + 1
  IN  CASE next = t.region.end -> scroll_up_relative(t, t.region.start, 1)
        [] next # t.region.end /\ next < t.lines -> [t EXCEPT !.grid.cursor = next]
        [] OTHER -> t

reverse_index(t) ==
  IF t.grid.cursor = t.region.start THEN scroll_down_relative(t, t.region.start, 1)
  ELSE [t EXCEPT !.grid.cursor = Larger(@ - 1, 0)]

(* Handler::goto, to which all absolute and relative motions lead. *)
goto(t, line, origin) ==
  LET offset == IF origin THEN t.region.start ELSE 0
      max    == IF origin THEN t.region.end - 1 ELSE bottommost_line(dims(t))
  IN  [t EXCEPT !.grid.cursor = Larger(Smaller(line + offset, max), 0)]

(* Handler::set_scrolling_region; top and bottom count from 1. *)
set_scrolling_region(t, top, bottom, origin) ==
  IF top >= bottom THEN t
  ELSE goto([t EXCEPT !.region = [start |-> Smaller(top - 1, t.lines),
                                  end |-> Smaller(bottom, t.lines)]], 0, origin)

(* Term::swap_alt: the alternate screen takes over the cursor. *)
swap_alt(t) ==
  LET enter == "ALT_SCREEN" \notin t.mode
      i == IF enter THEN [t.inactive EXCEPT !.cursor = t.grid.cursor] ELSE t.inactive
  IN  [t EXCEPT !.grid = i, !.inactive = t.grid, !.sel = NoSelection,
                !.mode = IF enter THEN @ \union {"ALT_SCREEN"} ELSE @ \ {"ALT_SCREEN"}]

(* Handler::restore_cursor_position, to the line the cursor was saved at. *)
restore_cursor_position(t, line) == [t EXCEPT !.grid.cursor = line]

Unless(t, top, bottom) ==
  IF t.sel # NoSelection /\ intersects_range(t.sel, top, bottom) THEN NoSelection ELSE t.sel

(* Handler::clear_line and the modes of Handler::clear_screen.  `used` lines
   of the viewport have content when it is cleared. *)
clear_line(t) == [t EXCEPT !.sel = Unless(t, t.grid.cursor, t.grid.cursor)]

clear_above(t) == [t EXCEPT !.sel = Unless(t, 0, t.grid.cursor)]
clear_below(t) == [t EXCEPT !.sel = Unless(t, t.grid.cursor, t.lines - 1)]

clear_all(t, used) ==
  LET g == IF "ALT_SCREEN" \in t.mode THEN t.grid ELSE GridScrollUp(t.grid, 0, t.lines, used)
      lines == Larger(g.offset - t.grid.offset, 0)
      u == [t EXCEPT !.grid = g, !.sel = NoSelection]
  IN  IF "ALT_SCREEN" \in t.mode THEN u
      ELSE [u EXCEPT !.vi = line_clamp(@ - lines, dims(u), "Grid")]

clear_saved(t) ==
  IF t.grid.history = 0 THEN t
  ELSE LET u == [t EXCEPT !.grid.history = 0, !.grid.offset = 0]
       IN  [u EXCEPT !.vi = line_clamp(@, dims(u), "Cursor"),
                     !.sel = IF t.sel # NoSelection
                                /\ Smaller(t.sel.start.point.line, t.sel.end.point.line) < 0
                               THEN NoSelection ELSE @]

(* Handler::reset_state; Grid::reset empties both grids. *)
reset_state(t) ==
  LET alt == "ALT_SCREEN" \in t.mode
      Emptied(g) == NewGrid(g.limit)
  IN  [t EXCEPT !.grid = Emptied(IF alt THEN t.inactive ELSE t.grid),
                !.inactive = Emptied(IF alt THEN t.grid ELSE t.inactive),
                !.region = [start |-> 0, end |-> t.lines], !.sel = NoSelection, !.vi = 0,
                !.mode = @ \intersect {"VI"}]

(* Term::set_options: the limit of the primary screen. *)
set_options(t, history) ==
  LET Update(g) == [g EXCEPT !.history = Smaller(@, history), !.offset = Smaller(@, history),
                             !.limit = history]
  IN  IF "ALT_SCREEN" \in t.mode THEN [t EXCEPT !.inactive = Update(@)]
                                 ELSE [t EXCEPT !.grid = Update(@)]

(* Mutant of resize_lines: the vi mode cursor moves by the full difference. *)
resize_lines_FullDelta(t, lines) ==
  LET delta == Smaller(lines - t.lines, t.grid.history)
      u == [t EXCEPT !.grid = GridResize(@, t.lines, lines), !.lines = lines,
                     !.inactive = GridResize(@, t.lines, lines)]
      top == -u.grid.offset
  IN  [u EXCEPT !.vi = Larger(Smaller(t.vi + delta, top + lines - 1), top),
                !.sel = IF t.sel = NoSelection THEN @
                        ELSE rotate(t.sel, dims(u), 0, Larger(lines, t.lines), -delta),
                !.region = [start |-> 0, end |-> lines]]

(* Term::resize to another height. *)
resize_lines(t, lines) ==
  LET least == Smaller(0, lines - t.grid.cursor - 1)
      delta == Smaller(Larger(lines - t.lines, least), t.grid.history)
      u == [t EXCEPT !.grid = GridResize(@, t.lines, lines), !.lines = lines,
                     !.inactive = GridResize(@, t.lines, lines)]
      top == -u.grid.offset
  IN  [u EXCEPT !.vi = Larger(Smaller(t.vi + delta, top + lines - 1), top),
                !.sel = IF t.sel = NoSelection THEN @
                        ELSE rotate(t.sel, dims(u), 0, Larger(lines, t.lines), -delta),
                !.region = [start |-> 0, end |-> lines]]

(* Term::resize to another width: reflowing the primary screen (module
   Reflow) leaves some scrollback and puts its cursor and view somewhere;
   the alternate screen only loses or gains columns. *)
resize_columns(t, history, offset, cursor) ==
  LET Reflowed(g) == [g EXCEPT !.history = history, !.offset = offset, !.cursor = cursor]
      u == IF "ALT_SCREEN" \in t.mode THEN [t EXCEPT !.inactive = Reflowed(@)]
                                      ELSE [t EXCEPT !.grid = Reflowed(@)]
      top == -u.grid.offset
  IN  [u EXCEPT !.vi = Larger(Smaller(@, top + t.lines - 1), top), !.sel = NoSelection,
                !.region = [start |-> 0, end |-> t.lines]]
===============================================================================
