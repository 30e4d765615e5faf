-------------------------------- MODULE Grid --------------------------------
(***************************************************************************)
(* The terminal grid (grid/mod.rs, and the line half of grid/resize.rs):   *)
(* viewport, scrollback, the scrolled-back view and the two cursors, on    *)
(* top of the ring buffer of module Storage.                               *)
(*                                                                         *)
(* A row is opaque: NewRow is an empty row, any other member of Row is one *)
(* with content.  A template is what resetting a row with it leaves, so    *)
(* templates are rows too.  Columns, and the reflow they cause, are not    *)
(* modelled here.                                                          *)
(*                                                                         *)
(* This module has no variables: each operator returns the grid that the   *)
(* method of the same name leaves behind.                                  *)
(***************************************************************************)
EXTENDS Storage

MinOf(a, b) == IF a < b THEN a ELSE b
MaxOf(a, b) == IF a > b THEN a ELSE b

(* Line ranges from..to - 1 in the order a loop visits them. *)
Upward(from, to)   == [i \in 1..(to - from) |-> to - i]
Downward(from, to) == [i \in 1..(to - from) |-> from + i - 1]

(* `for i in ..` over swap(i, i + d), and over reset. *)
SwapAll(raw, lines, d) ==
  LET r[k \in 0..Len(lines)] == IF k = 0 THEN raw ELSE swap(r[k - 1], lines[k], lines[k] + d)
  IN  r[Len(lines)]
ResetAll(raw, lines, template) ==
  LET r[k \in 0..Len(lines)] == IF k = 0 THEN raw ELSE SetRow(r[k - 1], lines[k], template)
  IN  r[Len(lines)]

DefaultCursor == [line |-> 0, template |-> NewRow]

(* Grid::new *)
new(lines, max_scroll_limit) ==
  [raw |-> with_capacity(lines), lines |-> lines, display_offset |-> 0,
   max_scroll_limit |-> max_scroll_limit, cursor |-> DefaultCursor, saved_cursor |-> DefaultCursor]

(* Dimensions::history_size *)
history_size(g) == MaxOf(g.raw.len - g.lines, 0)

update_history(g, history) ==
  [g EXCEPT !.raw = IF history_size(g) > history THEN shrink_lines(@, history_size(g) - history) ELSE @,
            !.display_offset = MinOf(@, history),
            !.max_scroll_limit = history]

(* Grid::scroll_display by a number of lines; Top and Bottom are the two
   extremes of it, PageUp and PageDown are Delta by a viewport. *)
scroll_display(g, count) ==
  [g EXCEPT !.display_offset = MinOf(MaxOf(@ + count, 0), history_size(g))]

increase_scroll_limit(g, positions) ==
  LET count == MinOf(positions, g.max_scroll_limit - history_size(g))
  IN  IF count # 0 THEN [g EXCEPT !.raw = initialize(@, count)] ELSE g

decrease_scroll_limit(g, lines) ==
  LET count == MinOf(lines, history_size(g))
      h     == [g EXCEPT !.raw = shrink_lines(@, count)]
  IN  IF count # 0 THEN [h EXCEPT !.display_offset = MinOf(@, history_size(h))] ELSE g

(* Mutant of scroll_down: after rotating, the fixed lines above the region
   are not swapped back. *)
scroll_down_NoSwapBack(g, start, end, positions) ==
  LET t      == g.cursor.template
      parked == SwapAll(g.raw, Downward(end, g.lines), -positions)
      moved  == SwapAll(g.raw, Upward(start + positions, end), -positions)
  IN  [g EXCEPT !.raw =
        IF end - start <= positions THEN ResetAll(@, Downward(start, end), t)
        ELSE IF g.max_scroll_limit = 0
               THEN ResetAll(rotate_down(parked, positions), Downward(0, positions), t)
        ELSE ResetAll(moved, Upward(start, start + positions), t)]

(* Grid::scroll_down of the lines start..end - 1. *)
scroll_down(g, start, end, positions) ==
  LET t      == g.cursor.template
      parked == SwapAll(g.raw, Downward(end, g.lines), -positions)
      turned == ResetAll(rotate_down(parked, positions), Downward(0, positions), t)
      moved  == SwapAll(g.raw, Upward(start + positions, end), -positions)
  IN  [g EXCEPT !.raw =
        IF end - start <= positions THEN ResetAll(@, Downward(start, end), t)
        ELSE IF g.max_scroll_limit = 0 THEN SwapAll(turned, Downward(0, start), positions)
        ELSE ResetAll(moved, Upward(start, start + positions), t)]

(* Mutants of scroll_up: the recycled rows are not reset; the scrolled-back
   view is not moved along. *)
scroll_up_NoReset(g, start, end, positions) ==
  LET more == increase_scroll_limit(g, positions).raw
  IN  [g EXCEPT !.raw =
        IF start = 0
          THEN SwapAll(rotate(more, -positions), Upward(end, g.lines), -positions)
          ELSE SwapAll(g.raw, Downward(start, MaxOf(end - positions, start)), positions)]

scroll_up_OffsetStays(g, start, end, positions) ==
  LET raw   == scroll_up_NoReset(g, start, end, positions).raw
      first == MaxOf(end - positions, start)
  IN  [g EXCEPT !.raw = ResetAll(raw, Downward(first, end), g.cursor.template)]

(* Grid::scroll_up of the lines start..end - 1. *)
scroll_up(g, start, end, positions) ==
  LET t    == g.cursor.template
      off  == IF g.display_offset # 0 THEN MinOf(g.display_offset + positions, g.max_scroll_limit) ELSE 0
      more == increase_scroll_limit(g, positions).raw
      whole == SwapAll(rotate(SwapAll(more, Upward(0, start), positions), -positions),
                       Upward(end, g.lines), -positions)
      part == SwapAll(g.raw, Downward(start, end - positions), positions)
  IN  IF end - start <= positions /\ start # 0
        THEN [g EXCEPT !.raw = ResetAll(@, Downward(start, end), t)]
        ELSE [g EXCEPT !.display_offset = off,
                       !.raw = ResetAll(IF start = 0 THEN whole ELSE part,
                                        Downward(end - positions, end), t)]

(* The rows of the viewport down to the last one with content. *)
UsedLines(g) ==
  LET used == {l \in 0..(g.lines - 1) : RowAt(g.raw, l) # NewRow}
  IN  IF used = {} THEN 0 ELSE (CHOOSE l \in used : \A m \in used : m <= l) + 1

clear_viewport(g) ==
  LET positions == UsedLines(g)
      up        == scroll_up(g, 0, g.lines, positions)
  IN  [up EXCEPT !.raw = ResetAll(@, Downward(0, g.lines - positions), g.cursor.template)]

clear_history(g) ==
  [g EXCEPT !.raw = shrink_lines(@, history_size(g)), !.display_offset = 0]

reset_region(g, start, end) ==
  [g EXCEPT !.raw = ResetAll(@, Downward(start, end), g.cursor.template)]

(* Grid::reset *)
reset(g) ==
  LET h == clear_history(g)
  IN  [h EXCEPT !.cursor = DefaultCursor, !.saved_cursor = DefaultCursor,
                !.raw = ResetAll(@, Downward(-history_size(h), h.lines), NewRow)]

(* resize.rs, Grid::grow_lines *)
grow_lines(g, target) ==
  LET added  == target - g.lines
      taller == [g EXCEPT !.raw = grow_visible_lines(@, target), !.lines = target]
      pulled == MinOf(history_size(taller), added)
      moved  == IF pulled # added THEN scroll_up(taller, 0, target, added - pulled) ELSE taller
  IN  decrease_scroll_limit(
        [moved EXCEPT !.cursor.line = @ + pulled, !.saved_cursor.line = @ + pulled,
                      !.display_offset = MaxOf(@ - added, 0)],
        added)

(* Mutant of ShrinkViewport: the saved cursor is not clamped. *)
ShrinkViewport_SavedCursorStays(g, target) ==
  LET needed   == MaxOf(g.cursor.line + 1 - target, 0)
      scrolled == IF needed > 0 THEN scroll_up(g, 0, g.lines, needed) ELSE g
  IN  [scrolled EXCEPT !.cursor.line = MinOf(@, target - 1),
                       !.raw = shrink_visible_lines(rotate(@, g.lines - target), target),
                       !.lines = target]

(* resize.rs, Grid::shrink_lines *)
ShrinkViewport(g, target) ==
  LET needed   == MaxOf(g.cursor.line + 1 - target, 0)
      scrolled == IF needed > 0 THEN scroll_up(g, 0, g.lines, needed) ELSE g
  IN  [scrolled EXCEPT
         !.cursor.line = IF needed > 0 THEN MinOf(@, target - 1) ELSE @,
         !.saved_cursor.line = MinOf(@, target - 1),
         !.raw = shrink_visible_lines(rotate(@, g.lines - target), target),
         !.lines = target]

(* resize.rs, Grid::resize of the height: rows are reset with a default
   template while it runs, and the cursor's own one comes back after it. *)
resize(g, target) ==
  LET plain == [g EXCEPT !.cursor.template = NewRow]
      done  == CASE g.lines < target -> grow_lines(plain, target)
                 [] g.lines > target -> ShrinkViewport(plain, target)
                 [] OTHER            -> plain
  IN  [done EXCEPT !.cursor.template = g.cursor.template]
===============================================================================
