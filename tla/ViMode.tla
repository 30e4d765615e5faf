-------------------------------- MODULE ViMode --------------------------------
(***************************************************************************)
(* The motions of the vi mode cursor (vi_mode.rs).                         *)
(***************************************************************************)
EXTENDS Search

is_space(g, p) == ~IsSpacer(CellAt(g, p)) /\ CellAt(g, p).c \in {" ", "\t"}
is_wrap(g, p)  == Has(CellAt(g, p), "WRAPLINE")
is_boundary(g, p, direction) ==
  \/ p.line <= topmost_line(dims(g)) /\ p.column = 0 /\ direction = "Left"
  \/ p.line = bottommost_line(dims(g)) /\ p.column + 1 >= g.columns /\ direction = "Right"

advance(g, p, direction) ==
  IF direction = "Left" THEN point_sub(p, dims(g), "Grid", 1) ELSE point_add(p, dims(g), "Grid", 1)

(* first_occupied_in_line and last_occupied_in_line; <<>> in a blank line *)
OccupiedIn(g, line) == {c \in 0..last_column(dims(g)) : ~is_space(g, Point(line, c))}
first_occupied_in_line(g, line) ==
  IF OccupiedIn(g, line) = {} THEN <<>> ELSE << Point(line, Least(OccupiedIn(g, line))) >>
last_occupied_in_line(g, line) ==
  IF OccupiedIn(g, line) = {} THEN <<>> ELSE << Point(line, Greatest(OccupiedIn(g, line))) >>
Or(option, p) == IF option = <<>> THEN p ELSE option[1]

(* The column `unwrap_or_default` gives for a blank line. *)
FirstColumn(g, line) == Or(first_occupied_in_line(g, line), Point(0, 0)).column

(* while Cond { point = advance(point) }, where Cond stops at the boundary *)
SkipWhile(g, p, direction, Cond(_)) ==
  LET k == Pos(g, p)
      stops == {j \in Cells(g) : (IF direction = "Right" THEN j >= k ELSE j <= k) /\ ~Cond(At(g, j))}
  IN  At(g, IF direction = "Right" THEN Least(stops) ELSE Greatest(stops))

Left(g, p) ==
  LET q == expand_wide(g, p, "Left")
      above == Point(q.line - 1, last_column(dims(g)))
  IN  IF q.column = 0 /\ q.line > topmost_line(dims(g)) /\ is_wrap(g, above) THEN above
      ELSE Point(q.line, Larger(q.column - 1, 0))

Right(g, p) ==
  LET q == expand_wide(g, p, "Right")
  IN  IF is_wrap(g, q) THEN Point(q.line + 1, 0)
      ELSE Point(q.line, Smaller(q.column + 1, last_column(dims(g))))

FirstMotion(g, p) ==
  LET q == expand_wide(g, p, "Left")
  IN  IF q.column = 0 THEN line_search_left(g, q) ELSE Point(q.line, 0)

(* The line on which the lines wrapped from this one end. *)
RECURSIVE Unwrapping(_, _)
Unwrapping(g, p) == IF is_wrap(g, p) THEN Unwrapping(g, Point(p.line + 1, p.column)) ELSE p

last(g, p) ==
  LET q == expand_wide(g, p, "Right")
      occupied == Or(last_occupied_in_line(g, q.line), Point(0, 0))
      bottom   == Unwrapping(g, q)
  IN  IF q.column < occupied.column THEN occupied
      ELSE IF is_wrap(g, q) THEN Or(last_occupied_in_line(g, bottom.line), bottom)
      ELSE Point(q.line, last_column(dims(g)))

first_occupied(g, p) ==
  LET end == last_column(dims(g))
      q   == expand_wide(g, p, "Left")
      here   == Or(first_occupied_in_line(g, q.line), Point(q.line, end))
      start  == line_search_left(g, q).line
      above  == {l \in start..(q.line - 1) : OccupiedIn(g, l) # {}}
      stop   == line_search_right(g, Point(q.line, 0)).line
      below  == {l \in q.line..stop : OccupiedIn(g, l) # {}}
  IN  IF q # here THEN here
      ELSE IF above # {} THEN first_occupied_in_line(g, Least(above))[1]
      ELSE IF below # {} THEN first_occupied_in_line(g, Least(below))[1]
      ELSE Point(stop, end)

(* semantic: like w, b, e and ge of vi *)
semantic(g, p, direction, side, escape_chars) ==
  LET Bound(q) == is_boundary(g, q, direction)
      Expand(q) == IF Contains1(g, Pos(g, q), escape_chars) THEN q
                   ELSE IF direction = "Left" THEN semantic_search_left(g, q, escape_chars)
                   ELSE semantic_search_right(g, q, escape_chars)
      edge  == expand_wide(g, IF direction # side /\ ~Bound(p) THEN Expand(p) ELSE p, direction)
      Step(q) == IF direction = "Left" THEN expand_wide(g, q, direction) ELSE q
      Moved(q) == IF Bound(q) THEN q ELSE Step(advance(g, q, direction))
      Ended(q) == IF direction = side /\ ~Bound(q) THEN Expand(q) ELSE q
  IN  Ended(Moved(SkipWhile(g, edge, direction, LAMBDA q : ~Bound(q) /\ is_space(g, advance(g, q, direction)))))

(* Mutant of word: the motion to the other end starts inside the word it is in. *)
word_StartsInside(g, p, direction, side) ==
  LET start == expand_wide(g, p, direction)
      Go(q)   == ~is_boundary(g, q, direction)
      beyond == SkipWhile(g, start, direction, LAMBDA r : Go(r) /\ ~is_space(g, r))
  IN  SkipWhile(g, beyond, direction, LAMBDA r : Go(r) /\ is_space(g, r))

(* word: like W, B, E and gE of vi.  In the direction of the side the motion
   ends inside the word it comes to, else at its beginning. *)
word(g, p, direction, side) ==
  LET start == expand_wide(g, p, direction)
      Go(q)   == ~is_boundary(g, q, direction)
      Next(q) == advance(g, q, direction)
      before == SkipWhile(g, start, direction, LAMBDA q : Go(q) /\ is_space(g, Next(q)))
      inside == SkipWhile(g, before, direction, LAMBDA q : Go(q) /\ ~is_space(g, Next(q)))
      beyond == SkipWhile(g, start, direction, LAMBDA q : Go(q) /\ ~is_space(g, q))
  IN  IF direction = side THEN inside
      ELSE SkipWhile(g, beyond, direction, LAMBDA q : Go(q) /\ is_space(g, q))

(* The end of the next paragraph, among the lines a motion goes through. *)
ParagraphUp(g, p) ==
  LET lines == topmost_line(dims(g))..(p.line - 1)
      Clear(l) == is_clear(RowAt(g, l))
      ends  == {l \in lines : Clear(l) /\ \E m \in lines : m > l /\ ~Clear(m)}
  IN  Point(IF ends = {} THEN topmost_line(dims(g)) ELSE Greatest(ends), 0)

ParagraphDown(g, p) ==
  LET lines == p.line..(bottommost_line(dims(g)) - 1)
      Clear(l) == is_clear(RowAt(g, l))
      ends  == {l \in lines : Clear(l) /\ \E m \in lines : m < l /\ ~Clear(m)}
  IN  Point(IF ends = {} THEN bottommost_line(dims(g)) ELSE Least(ends), 0)

AtLine(g, line) == Point(line, FirstColumn(g, line))

Motions == {"Up", "Down", "Left", "Right", "First", "Last", "FirstOccupied", "High", "Middle", "Low",
            "Bracket", "ParagraphUp", "ParagraphDown"}
Sides == {"Left", "Right"}

(* ViModeCursor::motion, but for the motions by words *)
motion(g, p, m) ==
  CASE m = "Up"    -> IF p.line > topmost_line(dims(g)) THEN Point(p.line - 1, p.column) ELSE p
    [] m = "Down"  -> IF p.line + 1 < g.lines THEN Point(p.line + 1, p.column) ELSE p
    [] m = "Left"  -> Left(g, p)
    [] m = "Right" -> Right(g, p)
    [] m = "First" -> FirstMotion(g, p)
    [] m = "Last"  -> last(g, p)
    [] m = "FirstOccupied" -> first_occupied(g, p)
    [] m = "High"   -> AtLine(g, -g.offset)
    [] m = "Middle" -> AtLine(g, -g.offset + g.lines \div 2 - 1)
    [] m = "Low"    -> AtLine(g, -g.offset + g.lines - 1)
    [] m = "Bracket" -> bracket_search(g, p)
    [] m = "ParagraphUp"   -> ParagraphUp(g, p)
    [] m = "ParagraphDown" -> ParagraphDown(g, p)

(* ViModeCursor::scroll *)
scroll(g, p, lines) == AtLine(g, line_clamp(p.line - lines, dims(g), "Grid"))
===============================================================================
