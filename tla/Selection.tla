------------------------------ MODULE Selection ------------------------------
(***************************************************************************)
(* Text selections (cutty_terminal/src/selection.rs): an anchor is a cell  *)
(* and the side of it where the selection begins or ends.                  *)
(*                                                                         *)
(* Operators only; the selections a terminal holds are in module Viewport, *)
(* the text they select is in module TextSpec.                             *)
(***************************************************************************)
EXTENDS Index

CONSTANT NoSelection   \* Option::None

ASSUME SelectionAssumption ==
  LET Anchors == [point : [line : Int, column : Int], side : {"Left", "Right"}]
  IN  NoSelection \notin [ty : {"Simple", "Lines", "Block", "Semantic"}, start : Anchors, end : Anchors]

(* Selection::new and Selection::update *)
new_selection(ty, point, side) ==
  [ty |-> ty, start |-> [point |-> point, side |-> side], end |-> [point |-> point, side |-> side]]
update(s, point, side) == [s EXCEPT !.end = [point |-> point, side |-> side]]

(* The swap that orders the anchors, as done by most methods. *)
Swapped(s) == Before(s.end.point, s.start.point)
Ordered(s) == IF Swapped(s) THEN [s EXCEPT !.start = s.end, !.end = s.start] ELSE s

is_empty(s) ==
  LET o == Ordered(s)
      Adjacent(a, b) == a.point.column + 1 = b.point.column
      Facing(a, b)   == a.side = "Right" /\ b.side = "Left"
  IN  CASE s.ty = "Simple" ->
             \/ o.start = o.end
             \/ Facing(o.start, o.end) /\ Adjacent(o.start, o.end)
                /\ o.start.point.line = o.end.point.line
        [] s.ty = "Block" ->
             \/ s.start.point.column = s.end.point.column /\ s.start.side = s.end.side
             \/ Adjacent(s.start, s.end) /\ Facing(s.start, s.end)
             \/ Adjacent(s.end, s.start) /\ Facing(s.end, s.start)
        [] OTHER -> FALSE

(* Does the selection touch one of the lines top..bottom? *)
intersects_range(s, top, bottom) ==
  /\ bottom >= Smaller(s.start.point.line, s.end.point.line)
  /\ top <= Larger(s.start.point.line, s.end.point.line)

(* Mutant of rotate: a selection whose start leaves the region stays. *)
rotate_KeepsStart(s, d, top, bottom, delta) ==
  IF s.start.point.line \in top..(bottom - 1)
    THEN [s EXCEPT !.end.point.line =
            IF @ \in top..(bottom - 1) THEN Larger(top, Smaller(@ - delta, bottom - 1)) ELSE @]
    ELSE s

(* Selection::rotate: the lines top..bottom - 1 moved up by delta; a region
   that begins at line 0 takes the scrollback along. *)
rotate(s, d, top, bottom, delta) ==
  LET o == Ordered(s)
      Moves(a)   == (a.point.line >= top \/ top = 0) /\ a.point.line < bottom
      Moved(a)   == [a EXCEPT !.point.line = Smaller(@ - delta, bottommost_line(d))]
      Clip(a, line, column, side) ==
        IF s.ty = "Block" THEN [a EXCEPT !.point.line = line]
                          ELSE [point |-> Point(line, column), side |-> side]
      start1 == IF Moves(o.start) THEN Moved(o.start) ELSE o.start
      gone1  == Moves(o.start) /\ start1.point.line >= bottom /\ o.end.point.line < bottom
      start2 == IF Moves(o.start) /\ start1.point.line < top /\ top # 0
                  THEN Clip(start1, top, 0, "Left") ELSE start1
      end1   == IF Moves(o.end) THEN Moved(o.end) ELSE o.end
      gone2  == Moves(o.end) /\ end1.point.line < start2.point.line
      end2   == IF Moves(o.end) /\ end1.point.line >= bottom
                  THEN Clip(end1, bottom - 1, last_column(d), "Right") ELSE end1
  IN  IF gone1 \/ gone2 THEN NoSelection
      ELSE IF Swapped(s) THEN [s EXCEPT !.start = end2, !.end = start2]
      ELSE [s EXCEPT !.start = start2, !.end = end2]

(* Selection::include_all *)
include_all(s) ==
  LET p == s.start.point
      q == s.end.point
      backwards == IF s.ty = "Block"
                     THEN p.column > q.column \/ (p.column = q.column /\ p.line > q.line)
                     ELSE Before(q, p)
  IN  [s EXCEPT !.start.side = IF backwards THEN "Right" ELSE "Left",
                !.end.side = IF backwards THEN "Left" ELSE "Right"]

SelectionRange(start, end, block) == [start |-> start, end |-> end, is_block |-> block]

(* Mutant of range_simple: the first cell stays, covered or not. *)
range_simple_KeepsFirst(start, end, d) ==
  SelectionRange(start.point,
                 IF end.side = "Left" /\ start.point # end.point
                   THEN IF end.point.column = 0 THEN Point(end.point.line - 1, last_column(d))
                                                ELSE Point(end.point.line, end.point.column - 1)
                   ELSE end.point, FALSE)

(* Selection::range_simple on ordered, clamped anchors: a cell whose half at
   the selection is not covered is left out. *)
range_simple(start, end, d) ==
  LET same == start.point = end.point
      e == IF end.side = "Left" /\ ~same
             THEN IF end.point.column = 0 THEN Point(end.point.line - 1, last_column(d))
                                          ELSE Point(end.point.line, end.point.column - 1)
             ELSE end.point
      p == start.point
      s == IF start.side = "Right" /\ p # e
             THEN IF p.column + 1 = d.columns THEN Point(p.line + 1, 0)
                                              ELSE Point(p.line, p.column + 1)
             ELSE p
  IN  SelectionRange(s, e, FALSE)

(* Selection::range_block: the columns and their sides are ordered first. *)
range_block(start, end) ==
  LET flip == start.point.column > end.point.column
      s == IF flip THEN [point |-> Point(start.point.line, end.point.column), side |-> end.side]
                   ELSE start
      e == IF flip THEN [point |-> Point(end.point.line, start.point.column), side |-> start.side]
                   ELSE end
      q == IF e.side = "Left" /\ s.point # e.point /\ e.point.column > 0
             THEN Point(e.point.line, e.point.column - 1) ELSE e.point
      p == IF s.side = "Right" /\ s.point # q
             THEN Point(s.point.line, s.point.column + 1) ELSE s.point
  IN  SelectionRange(p, q, TRUE)

(* Selection::to_range for the types that do not look at the text. *)
to_range(s, d) ==
  LET o == Ordered(s)
      Clamped(a) == [a EXCEPT !.point = grid_clamp(@, d, "Grid")]
  IN  IF o.end.point.line < topmost_line(d) \/ is_empty(s) THEN NoSelection
      ELSE IF s.ty = "Block" THEN range_block(Clamped(o.start), Clamped(o.end))
      ELSE range_simple(Clamped(o.start), Clamped(o.end), d)

(* SelectionRange::contains *)
contains(r, p) ==
  /\ r.start.line <= p.line /\ p.line <= r.end.line
  /\ r.start.column <= p.column \/ (r.start.line # p.line /\ ~r.is_block)
  /\ p.column <= r.end.column \/ (r.end.line # p.line /\ ~r.is_block)
===============================================================================
