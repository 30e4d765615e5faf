-------------------------------- MODULE Index --------------------------------
(***************************************************************************)
(* Points of the grid and their arithmetic (cutty_terminal/src/index.rs).  *)
(*                                                                         *)
(* A point is [line, column]; line 0 is the first line of the screen, the  *)
(* scrollback has negative lines.  `d` gives the dimensions of a grid:     *)
(* [lines, columns, history].                                              *)
(***************************************************************************)
EXTENDS Integers

Smaller(a, b) == IF a <= b THEN a ELSE b
Larger(a, b)  == IF a >= b THEN a ELSE b

Point(line, column) == [line |-> line, column |-> column]

(* Dimensions *)
topmost_line(d)    == -d.history
bottommost_line(d) == d.lines - 1
last_column(d)     == d.columns - 1
total_lines(d)     == d.lines + d.history

GridLines(d) == topmost_line(d)..bottommost_line(d)
Points(d)    == [line : GridLines(d), column : 0..last_column(d)]

(* Ord for Point: by line, then by column. *)
Before(p, q) == p.line < q.line \/ (p.line = q.line /\ p.column < q.column)

(* The remainder of Rust's %, which has the sign of its first argument. *)
Rem(a, n) == IF a >= 0 THEN a % n ELSE -((-a) % n)

(* Line::grid_clamp *)
line_clamp(l, d, boundary) ==
  CASE boundary = "Cursor" -> Larger(0, Smaller(bottommost_line(d), l))
    [] boundary = "Grid"   -> Larger(topmost_line(d), Smaller(bottommost_line(d), l))
    [] boundary = "None"   ->
         IF l >= d.lines THEN topmost_line(d) + Rem(l - d.lines, total_lines(d))
                         ELSE bottommost_line(d) + Rem(l - d.lines + 1, total_lines(d))

(* Point::grid_clamp: a point above the boundary becomes its first cell, one
   below it the last cell; without a boundary it wraps around. *)
grid_clamp(p, d, boundary) ==
  LET column == Smaller(p.column, last_column(d))
  IN  CASE boundary = "Cursor" /\ p.line < 0 -> Point(0, 0)
        [] boundary = "Grid" /\ p.line < topmost_line(d) -> Point(topmost_line(d), 0)
        [] boundary # "None" /\ p.line > bottommost_line(d) ->
             Point(bottommost_line(d), last_column(d))
        [] boundary = "None" -> Point(line_clamp(p.line, d, boundary), column)
        [] OTHER -> Point(p.line, column)

(* Point::sub and Point::add: columns back or forth, across lines. *)
point_sub(p, d, boundary, rhs) ==
  grid_clamp(Point(p.line - Larger(rhs + d.columns - 1 - p.column, 0) \div d.columns,
                   (d.columns + p.column - (rhs % d.columns)) % d.columns), d, boundary)

point_add(p, d, boundary, rhs) ==
  grid_clamp(Point(p.line + (rhs + p.column) \div d.columns, (p.column + rhs) % d.columns),
             d, boundary)
===============================================================================
