---------------------------- MODULE ViewportProofs ----------------------------
(***************************************************************************)
(* Proofs about the lines of a terminal, for every set of heights, every   *)
(* scrollback limit and every width: both cursors, the scrolling region    *)
(* and the scrollback stay in bounds, and the vi mode cursor and the       *)
(* selection stay with their text.  Placed is the inductive invariant;     *)
(* Good(t, u) is what every method but a change of height guarantees of    *)
(* the terminal u it makes of t.                                           *)
(*                                                                         *)
(* The second part is about a window on such a terminal, for every user    *)
(* and every bound: WindowSound is its inductive invariant, of which       *)
(* Fine(x) is the part that is about the window alone; Calm(x, y) is what  *)
(* a part of a handler guarantees of the window y it makes of x, and       *)
(* Step(x, y) what an event guarantees.                                    *)
(***************************************************************************)
EXTENDS ViewportSpec, WindowSpec, SequenceTheorems, WellFoundedInduction, TLAPS

Anchor     == [point : [line : Int, column : Int], side : {"Left", "Right"}]
Selections == [ty : {"Simple", "Lines", "Block", "Semantic"}, start : Anchor, end : Anchor]
GridType   == [history : Nat, limit : Nat, offset : Nat, cursor : Nat]
TermType   ==
  [lines : Nat \ {0}, grid : GridType, inactive : GridType, region : [start : Nat, end : Nat],
   vi : Int, sel : Selections \union {NoSelection}, mode : SUBSET {"VI", "ALT_SCREEN"}]

(* A grid of so many lines. *)
Fits(g, lines) ==
  /\ g \in GridType
  /\ g.history <= g.limit /\ g.offset <= g.limit /\ g.cursor < lines

(* The inductive invariant: types, both grids and the scrolling region. *)
Placed(t) ==
  /\ t \in TermType
  /\ Fits(t.grid, t.lines) /\ Fits(t.inactive, t.lines)
  /\ t.region.start <= t.region.end /\ t.region.end <= t.lines

(* The assumption, part by part. *)
LEMMA Sizes ==
  /\ Columns \in Nat \ {0, 1} /\ Heights \subseteq Nat \ {0} /\ Histories \subseteq Nat
  BY ViewportAssumption, Zenon

(* The tallest height is one of them. *)
LEMMA Tallest == MaxHeight \in Heights
  <1>1. \E h \in Heights : \A k \in Heights : k <= h BY ViewportAssumption, Zenon
  <1>2. QED BY <1>1, Zenon DEF MaxHeight
-------------------------------------------------------------------------------
(* Replacing the fields of a grid. *)
LEMMA MadeFits ==
  ASSUME NEW g \in GridType, NEW lines \in Nat,
         NEW his \in Nat, his <= g.limit, NEW off \in Nat, off <= g.limit,
         NEW cur \in Nat, cur < lines
  PROVE  Fits([g EXCEPT !.cursor = cur, !.history = his, !.offset = off], lines)
  BY DEF Fits, GridType

(* Grid::scroll_up keeps the scrollback and the view within the limit. *)
LEMMA ScrollUpFits ==
  ASSUME NEW lines \in Nat, NEW g, Fits(g, lines), NEW start \in Nat, NEW end \in Nat, NEW n \in Nat
  PROVE  Fits(GridScrollUp(g, start, end, n), lines)
         /\ GridScrollUp(g, start, end, n).cursor = g.cursor
         /\ GridScrollUp(g, start, end, n).limit = g.limit
  <1> DEFINE off == IF g.offset # 0 THEN Smaller(g.offset + n, g.limit) ELSE 0
             his == IF start = 0 THEN Smaller(g.history + n, g.limit) ELSE g.history
             h   == [g EXCEPT !.offset = off, !.history = his]
  <1>1. /\ off \in Nat /\ off <= g.limit /\ his \in Nat /\ his <= g.limit
        /\ g \in GridType /\ g.cursor < lines
    BY DEF Fits, GridType, Smaller
  <1>2. GridScrollUp(g, start, end, n) \in {g, h}
    BY DEF GridScrollUp
  <1> HIDE DEF off, his
  <1>3. /\ h \in GridType /\ h.offset = off /\ h.history = his
        /\ h.limit = g.limit /\ h.cursor = g.cursor
    BY <1>1 DEF GridType
  <1>4. Fits(h, lines) BY <1>1, <1>3 DEF Fits
  <1>5. QED BY <1>2, <1>3, <1>4

(* Growing and shrinking keep it, and the cursor on the screen. *)
LEMMA GrowFits ==
  ASSUME NEW lines \in Nat, NEW target \in Nat, lines < target, NEW g, Fits(g, lines)
  PROVE  Fits(GridGrow(g, lines, target), target)
  <1> DEFINE added  == target - lines
             pulled == Smaller(g.history, added)
             up     == IF pulled # added THEN GridScrollUp(g, 0, target, added - pulled) ELSE g
  <1>1. added \in Nat /\ pulled \in Nat /\ pulled <= added BY DEF Fits, GridType, Smaller
  <1>2. Fits(up, lines)
    <2>1. added - pulled \in Nat /\ 0 \in Nat BY <1>1
    <2>2. Fits(GridScrollUp(g, 0, target, added - pulled), lines)
      <3> HIDE DEF added, pulled
      <3>1. QED BY <2>1, ScrollUpFits
    <2>3. QED BY <2>2
  <1> DEFINE his == Larger(up.history - added, 0)
             off == Larger(up.offset - added, 0)
             new == IF up.history # 0 THEN Smaller(off, his) ELSE off
             cur == up.cursor + pulled
  <1> HIDE DEF up, pulled
  <1>3. /\ his \in Nat /\ his <= up.limit /\ new \in Nat /\ new <= up.limit
        /\ up \in GridType /\ cur \in Nat /\ cur < target
    BY <1>1, <1>2 DEF Fits, GridType, Smaller, Larger
  <1>4. Fits([up EXCEPT !.cursor = cur, !.history = his, !.offset = new], target)
    <2> HIDE DEF his, new, cur
    <2>1. QED BY <1>3, MadeFits, Zenon
  <1>5. QED BY <1>4, Zenon DEF GridGrow, up, pulled

(* Grid::shrink_lines puts the cursor back on the screen. *)
LEMMA ShrinkFits ==
  ASSUME NEW lines \in Nat, NEW target \in Nat \ {0}, lines > target, NEW g, Fits(g, lines)
  PROVE  Fits(GridShrink(g, lines, target), target)
  <1> DEFINE needed == Larger(g.cursor + 1 - target, 0)
             up     == IF needed > 0 THEN GridScrollUp(g, 0, lines, needed) ELSE g
  <1>1. needed \in Nat BY DEF Fits, GridType, Larger
  <1>2. Fits(up, lines) BY <1>1, ScrollUpFits
  <1> DEFINE cur == Smaller(up.cursor, target - 1)
  <1> HIDE DEF up
  <1>3. cur \in Nat /\ cur < target /\ up \in GridType
    BY <1>2 DEF Fits, GridType, Smaller
  <1>4. Fits([up EXCEPT !.cursor = cur], target)
    <2> HIDE DEF cur
    <2>1. QED BY <1>2, <1>3 DEF Fits, GridType
  <1>5. QED BY <1>4 DEF GridShrink, up

(* Grid::resize, in either direction. *)
LEMMA ResizeFits ==
  ASSUME NEW lines \in Nat \ {0}, NEW target \in Nat \ {0}, NEW g, Fits(g, lines)
  PROVE  Fits(GridResize(g, lines, target), target)
  <1>1. lines \in Nat /\ target \in Nat OBVIOUS
  <1>2. CASE lines < target BY <1>1, <1>2, GrowFits DEF GridResize
  <1>3. CASE lines > target BY <1>1, <1>3, ShrinkFits DEF GridResize
  <1>4. CASE lines = target BY <1>1, <1>4 DEF GridResize
  <1>5. QED BY <1>1, <1>2, <1>3, <1>4
-------------------------------------------------------------------------------
(* Selections keep their type. *)
Dims == [lines : Nat, columns : Nat, history : Nat]

(* The line of an anchor after rotating, before it is clipped to the region. *)
Shifted(l, d, delta) == Smaller(l - delta, d.lines - 1)
Turns(l, top, bottom) == (l >= top \/ top = 0) /\ l < bottom
FirstLine(l, d, top, bottom, delta) ==
  IF ~Turns(l, top, bottom) THEN l
  ELSE IF Shifted(l, d, delta) < top /\ top # 0 THEN top ELSE Shifted(l, d, delta)
LastLine(l, d, top, bottom, delta) ==
  IF ~Turns(l, top, bottom) THEN l
  ELSE IF Shifted(l, d, delta) >= bottom THEN bottom - 1 ELSE Shifted(l, d, delta)

(* An anchor on another line. *)
LEMMA AnchorMoves ==
  ASSUME NEW a \in Anchor, NEW l \in Int
  PROVE  [a EXCEPT !.point.line = l] \in Anchor /\ [a EXCEPT !.point.line = l].point.line = l
  BY DEF Anchor

(* Ordering the anchors of a selection orders their lines. *)
LEMMA OrderedLines ==
  ASSUME NEW s \in Selections
  PROVE  /\ Ordered(s) \in Selections
         /\ Ordered(s).start.point.line = Smaller(s.start.point.line, s.end.point.line)
         /\ Ordered(s).end.point.line = Larger(s.start.point.line, s.end.point.line)
  <1>1. s.start \in Anchor /\ s.end \in Anchor BY DEF Selections
  <1>2. /\ s.start.point.line \in Int /\ s.end.point.line \in Int
        /\ s.start.point.column \in Int /\ s.end.point.column \in Int
    BY <1>1 DEF Anchor
  <1>3. CASE Swapped(s)
    <2>1. Ordered(s) = [s EXCEPT !.start = s.end, !.end = s.start] BY <1>3 DEF Ordered
    <2>2. Ordered(s) \in Selections /\ Ordered(s).start = s.end /\ Ordered(s).end = s.start
      BY <1>1, <2>1 DEF Selections
    <2>3. s.end.point.line <= s.start.point.line BY <1>2, <1>3 DEF Swapped, Before
    <2>4. QED BY <1>2, <2>2, <2>3 DEF Smaller, Larger
  <1>4. CASE ~Swapped(s)
    <2>1. Ordered(s) = s BY <1>4 DEF Ordered
    <2>2. s.start.point.line <= s.end.point.line BY <1>2, <1>4 DEF Swapped, Before
    <2>3. QED BY <1>2, <2>1, <2>2 DEF Smaller, Larger
  <1>5. QED BY <1>3, <1>4

(* What Selection::rotate does with the lines of a selection. *)
LEMMA RotateLines ==
  ASSUME NEW s \in Selections, NEW d \in Dims, NEW top \in Int, NEW bottom \in Int,
         NEW delta \in Int, rotate(s, d, top, bottom, delta) # NoSelection
  PROVE  LET r  == rotate(s, d, top, bottom, delta)
             lo == Smaller(s.start.point.line, s.end.point.line)
             hi == Larger(s.start.point.line, s.end.point.line)
             f  == FirstLine(lo, d, top, bottom, delta)
             e  == LastLine(hi, d, top, bottom, delta)
         IN  /\ r \in Selections
             /\ \/ r.start.point.line = f /\ r.end.point.line = e
                \/ r.start.point.line = e /\ r.end.point.line = f
             /\ ~(Turns(hi, top, bottom) /\ Shifted(hi, d, delta) < f)
             /\ ~(Turns(lo, top, bottom) /\ Shifted(lo, d, delta) >= bottom /\ hi < bottom)
  <1> DEFINE o == Ordered(s)
      Moves(a)   == (a.point.line >= top \/ top = 0) /\ a.point.line < bottom
      Moved(a)   == [a EXCEPT !.point.line = Smaller(@ - delta, bottommost_line(d))]
      Clip(a, line, column, side) ==
        IF s.ty = "Block" THEN [a EXCEPT !.point.line = line]
                          ELSE [point |-> Point(line, column), side |-> side]
      start1 == IF Moves(o.start) THEN Moved(o.start) ELSE o.start
      gone1  == Moves(o.start) /\ start1.point.line >= bottom /\ o.end.point.line < bottom
      start2 == IF Moves(o.start) /\ start1.point.line < top /\ top # 0
                  THEN Clip(start1, top, 0, "Left") ELSE start1
      end1   == IF Moves(o.end) THEN Moved(o.end) ELSE o.end
      gone2  == Moves(o.end) /\ end1.point.line < start2.point.line
      end2   == IF Moves(o.end) /\ end1.point.line >= bottom
                  THEN Clip(end1, bottom - 1, last_column(d), "Right") ELSE end1
      lo == Smaller(s.start.point.line, s.end.point.line)
      hi == Larger(s.start.point.line, s.end.point.line)
      f  == FirstLine(lo, d, top, bottom, delta)
      e  == LastLine(hi, d, top, bottom, delta)
  <1>1. /\ o.start \in Anchor /\ o.end \in Anchor
        /\ o.start.point.line = lo /\ o.end.point.line = hi
        /\ lo \in Int /\ hi \in Int /\ d.lines \in Int /\ d.columns \in Int
    <2>1. o \in Selections /\ o.start.point.line = lo /\ o.end.point.line = hi BY OrderedLines
    <2>2. QED BY <2>1 DEF Selections, Anchor, Smaller, Larger, Dims
  <1>2. Shifted(lo, d, delta) \in Int /\ Shifted(hi, d, delta) \in Int
    BY <1>1 DEF Shifted, Smaller
  <1>3. (Moves(o.start) <=> Turns(lo, top, bottom)) /\ (Moves(o.end) <=> Turns(hi, top, bottom))
    BY <1>1 DEF Turns
  <1>4. /\ Moved(o.start) = [o.start EXCEPT !.point.line = Shifted(lo, d, delta)]
        /\ Moved(o.end) = [o.end EXCEPT !.point.line = Shifted(hi, d, delta)]
    BY <1>1 DEF Shifted, bottommost_line
  <1>5. /\ start1 \in Anchor /\ end1 \in Anchor
        /\ start1.point.line = IF Turns(lo, top, bottom) THEN Shifted(lo, d, delta) ELSE lo
        /\ end1.point.line = IF Turns(hi, top, bottom) THEN Shifted(hi, d, delta) ELSE hi
    <2> HIDE DEF Moved, o, lo, hi, Moves
    <2>1. /\ Moved(o.start) \in Anchor /\ Moved(o.start).point.line = Shifted(lo, d, delta)
          /\ Moved(o.end) \in Anchor /\ Moved(o.end).point.line = Shifted(hi, d, delta)
      BY <1>1, <1>2, <1>4, AnchorMoves
    <2>2. QED BY <1>1, <1>3, <2>1
  <1>6. \A a \in Anchor, l \in Int, c \in Int, b \in {"Left", "Right"} :
          Clip(a, l, c, b) \in Anchor /\ Clip(a, l, c, b).point.line = l
    <2> SUFFICES ASSUME NEW a \in Anchor, NEW l \in Int, NEW c \in Int, NEW b \in {"Left", "Right"}
                 PROVE  Clip(a, l, c, b) \in Anchor /\ Clip(a, l, c, b).point.line = l
      OBVIOUS
    <2>1. [a EXCEPT !.point.line = l] \in Anchor /\ [a EXCEPT !.point.line = l].point.line = l BY AnchorMoves
    <2>2. [point |-> Point(l, c), side |-> b] \in Anchor BY DEF Point, Anchor
    <2>3. [point |-> Point(l, c), side |-> b].point.line = l BY DEF Point
    <2>4. QED BY <2>1, <2>2, <2>3
  <1>7. last_column(d) \in Int BY <1>1 DEF last_column
  <1> HIDE DEF Clip, Moved, Moves, o, lo, hi, start1, end1
  <1>8. start2 \in Anchor /\ start2.point.line = f
    BY <1>1, <1>2, <1>3, <1>5, <1>6 DEF FirstLine
  <1>9. end2 \in Anchor /\ end2.point.line = e
    BY <1>1, <1>2, <1>3, <1>5, <1>6, <1>7 DEF LastLine
  <1>10. rotate(s, d, top, bottom, delta) =
           IF gone1 \/ gone2 THEN NoSelection
           ELSE IF Swapped(s) THEN [s EXCEPT !.start = end2, !.end = start2]
           ELSE [s EXCEPT !.start = start2, !.end = end2]
    BY Zenon DEF rotate, Clip, Moved, Moves, o, start1, end1
  <1>11. ~gone1 /\ ~gone2 BY <1>10
  <1> HIDE DEF start2, end2
  <1>12. \/ rotate(s, d, top, bottom, delta) = [s EXCEPT !.start = end2, !.end = start2]
         \/ rotate(s, d, top, bottom, delta) = [s EXCEPT !.start = start2, !.end = end2]
    BY <1>10, <1>11
  <1>13. /\ rotate(s, d, top, bottom, delta) \in Selections
         /\ LET r == rotate(s, d, top, bottom, delta)
            IN \/ r.start.point.line = f /\ r.end.point.line = e
               \/ r.start.point.line = e /\ r.end.point.line = f
    BY <1>8, <1>9, <1>12 DEF Selections
  <1>14. QED BY <1>1, <1>3, <1>5, <1>8, <1>11, <1>13 DEF lo, hi

(* Selecting, updating and including both ends make selections. *)
LEMMA NewType ==
  ASSUME NEW p \in [line : Int, column : Int], NEW side \in {"Left", "Right"}
  PROVE  new_selection("Simple", p, side) \in Selections
  BY DEF Selections, Anchor, new_selection

(* Selection::update moves one end. *)
LEMMA UpdateType ==
  ASSUME NEW s \in Selections, NEW p \in [line : Int, column : Int], NEW side \in {"Left", "Right"}
  PROVE  update(s, p, side) \in Selections
  BY DEF Selections, Anchor, update

(* Selection::include_all changes sides only. *)
LEMMA IncludeType ==
  ASSUME NEW s \in Selections
  PROVE  include_all(s) \in Selections
  <1> DEFINE back == IF s.ty = "Block"
                       THEN \/ s.start.point.column > s.end.point.column
                            \/ s.start.point.column = s.end.point.column
                               /\ s.start.point.line > s.end.point.line
                       ELSE Before(s.end.point, s.start.point)
             a == IF back THEN "Right" ELSE "Left"
             b == IF back THEN "Left" ELSE "Right"
  <1>1. include_all(s) = [s EXCEPT !.start.side = a, !.end.side = b] BY Zenon DEF include_all
  <1>2. a \in {"Left", "Right"} /\ b \in {"Left", "Right"} OBVIOUS
  <1> HIDE DEF a, b
  <1>3. /\ s.start \in Anchor /\ s.end \in Anchor
        /\ [s.start EXCEPT !.side = a] \in Anchor /\ [s.end EXCEPT !.side = b] \in Anchor
    BY <1>2 DEF Selections, Anchor
  <1>4. include_all(s) = [s EXCEPT !.start = [s.start EXCEPT !.side = a],
                                   !.end = [s.end EXCEPT !.side = b]]
    BY <1>1, <1>3 DEF Selections
  <1>5. QED BY <1>3, <1>4 DEF Selections
-------------------------------------------------------------------------------
(* Every method of the terminal keeps it placed. *)

AnySelection == Selections \union {NoSelection}

(* The dimensions a terminal gives to its selection. *)
LEMMA DimsType ==
  ASSUME NEW t \in TermType
  PROVE  dims(t) \in Dims /\ dims(t).lines = t.lines /\ dims(t).history = t.grid.history
  BY Sizes DEF TermType, GridType, dims, Dims

(* Rotating the selection of a terminal gives a selection or none. *)
LEMMA RotatedType ==
  ASSUME NEW t \in TermType, NEW top \in Int, NEW bottom \in Int, NEW delta \in Int
  PROVE  Rotated(t, top, bottom, delta) \in AnySelection
  <1>1. CASE t.sel = NoSelection BY <1>1 DEF Rotated, AnySelection
  <1>2. CASE t.sel # NoSelection
    <2>1. t.sel \in Selections BY <1>2 DEF TermType
    <2>2. rotate(t.sel, dims(t), top, bottom, delta) \in AnySelection
      BY <2>1, DimsType, RotateLines DEF AnySelection
    <2>3. QED BY <1>2, <2>2 DEF Rotated
  <1>3. QED BY <1>1, <1>2

(* Changing the view, the vi mode cursor and the selection. *)
LEMMA ViewPlaced ==
  ASSUME NEW t, Placed(t), NEW g, Fits(g, t.lines), NEW v \in Int, NEW s \in AnySelection
  PROVE  /\ Placed([t EXCEPT !.grid = g, !.vi = v, !.sel = s])
         /\ Placed([t EXCEPT !.sel = s, !.grid = g, !.vi = v])
         /\ Placed([t EXCEPT !.grid = g, !.vi = v])
         /\ Placed([t EXCEPT !.grid = g, !.sel = s])
         /\ Placed([t EXCEPT !.sel = s, !.vi = v])
         /\ Placed([t EXCEPT !.vi = v])
         /\ Placed([t EXCEPT !.sel = s])
         /\ Placed([t EXCEPT !.grid = g])
  BY DEF Placed, Fits, TermType, AnySelection

(* Term::vi_mode_recompute_selection changes the selection only. *)
LEMMA RecomputePlaced ==
  ASSUME NEW t, Placed(t)
  PROVE  /\ Placed(vi_mode_recompute_selection(t))
         /\ \E s \in AnySelection : vi_mode_recompute_selection(t) = [t EXCEPT !.sel = s]
  <1> DEFINE p == Point(t.vi, 0)
  <1>1. p \in [line : Int, column : Int] BY DEF Placed, TermType, Point
  <1>2. t.sel \in AnySelection BY DEF Placed, TermType, AnySelection
  <1>3. t = [t EXCEPT !.sel = t.sel] BY DEF Placed, TermType
  <1>4. t.sel # NoSelection => include_all(update(t.sel, p, "Left")) \in AnySelection
    BY <1>1, <1>2, UpdateType, IncludeType DEF AnySelection
  <1>5. \/ vi_mode_recompute_selection(t) = t
        \/ /\ t.sel # NoSelection
           /\ vi_mode_recompute_selection(t) =
                [t EXCEPT !.sel = include_all(update(t.sel, p, "Left"))]
    BY DEF vi_mode_recompute_selection
  <1>6. \E s \in AnySelection : vi_mode_recompute_selection(t) = [t EXCEPT !.sel = s]
    BY <1>2, <1>3, <1>4, <1>5
  <1>7. Fits(t.grid, t.lines) /\ t.vi \in Int BY DEF Placed, TermType
  <1>8. PICK s \in AnySelection : vi_mode_recompute_selection(t) = [t EXCEPT !.sel = s] BY <1>6
  <1>9. Placed([t EXCEPT !.sel = s]) BY <1>7, ViewPlaced
  <1>10. QED BY <1>6, <1>8, <1>9

(* A step from one terminal to another keeps the vi mode cursor in the grid,
   in the cases ViStaysInGrid speaks of. *)
Stays(t, u) ==
  /\ ViInGrid(t)
  /\ u.grid.offset <= u.grid.history
  /\ ("ALT_SCREEN" \in t.mode) = ("ALT_SCREEN" \in u.mode)
  /\ u.grid.limit >= t.grid.limit
  => ViInGrid(u)

(* What is proved of every method but the resizes. *)
Good(t, u) == Placed(u) /\ u.lines = t.lines /\ Stays(t, u)

(* ViInGrid in numbers. *)
LEMMA ViLines ==
  ASSUME NEW t, Placed(t)
  PROVE  /\ ViInGrid(t) <=> -t.grid.history <= t.vi /\ t.vi <= t.lines - 1
         /\ t.vi \in Int /\ t.lines \in Nat \ {0}
         /\ t.grid.history \in Nat /\ t.grid.offset \in Nat /\ t.grid.limit \in Nat
         /\ t.grid.cursor \in Nat /\ t.grid.cursor < t.lines
         /\ t.region.start \in Nat /\ t.region.end \in Nat
         /\ t.region.start <= t.region.end /\ t.region.end <= t.lines
  <1>1. /\ t.vi \in Int /\ t.lines \in Nat \ {0} /\ t.grid \in GridType
        /\ t.region.start \in Nat /\ t.region.end \in Nat
        /\ t.region.start <= t.region.end /\ t.region.end <= t.lines
    BY DEF Placed, TermType
  <1>2. t.lines \in Nat \ {0} BY <1>1
  <1>3. /\ t.grid.history \in Nat /\ t.grid.offset \in Nat /\ t.grid.limit \in Nat
        /\ t.grid.cursor \in Nat /\ t.grid.cursor < t.lines
    BY <1>1 DEF Placed, Fits, GridType
  <1>4. ViInGrid(t) <=> -t.grid.history <= t.vi /\ t.vi <= t.lines - 1
    BY <1>1, <1>2, <1>3 DEF ViInGrid, GridLines, topmost_line, bottommost_line, dims
  <1>5. QED BY <1>1, <1>2, <1>3, <1>4

(* Another selection changes nothing else. *)
LEMMA SamePlace ==
  ASSUME NEW t, Placed(t), NEW s \in AnySelection
  PROVE  Good(t, t) /\ Good(t, [t EXCEPT !.sel = s])
  <1>1. Placed([t EXCEPT !.sel = s]) BY ViewPlaced DEF Placed, TermType
  <1>2. LET u == [t EXCEPT !.sel = s] IN u.grid = t.grid /\ u.lines = t.lines /\ u.vi = t.vi
    BY DEF Placed, TermType
  <1>3. QED BY <1>1, <1>2, ViLines DEF Good, Stays

(* Scrolling the view: the vi mode cursor is in the viewport afterwards. *)
LEMMA ScrollDisplayGood ==
  ASSUME NEW t, Placed(t), NEW count \in Int
  PROVE  LET u == scroll_display(t, count)
         IN  /\ Good(t, u) /\ u.grid.history = t.grid.history /\ u.mode = t.mode
             /\ u.grid.limit = t.grid.limit /\ ViInGrid(u)
  <1> DEFINE off == Smaller(Larger(t.grid.offset + count, 0), t.grid.history)
             v   == Smaller(bottommost_line(dims(t)) - off, Larger(-off, t.vi))
             g   == [t.grid EXCEPT !.offset = off]
             w   == [t EXCEPT !.grid = g, !.vi = v]
             u   == scroll_display(t, count)
  <1>1. /\ off \in Nat /\ off <= t.grid.history /\ v \in Int /\ -off <= v /\ v <= t.lines - 1
    BY ViLines DEF Smaller, Larger, bottommost_line, dims
  <1> HIDE DEF off, v
  <1>2. /\ Fits(g, t.lines) /\ g.history = t.grid.history /\ g.limit = t.grid.limit
    BY <1>1 DEF Placed, Fits, GridType
  <1>3. [t EXCEPT !.grid.offset = off, !.vi = v] = w
    BY DEF Placed, TermType
  <1>4. u = vi_mode_recompute_selection(w)
    BY <1>3 DEF scroll_display, off, v
  <1> HIDE DEF g
  <1>5. Placed(w)
    <2>1. t.sel \in AnySelection BY DEF Placed, TermType, AnySelection
    <2>2. QED BY <1>1, <1>2, <2>1, ViewPlaced
  <1>6. w.grid = g /\ w.vi = v /\ w.lines = t.lines /\ w.mode = t.mode BY DEF Placed, TermType
  <1>7. PICK s \in AnySelection : u = [w EXCEPT !.sel = s] BY <1>4, <1>5, RecomputePlaced
  <1>8. Placed(u) BY <1>4, <1>5, RecomputePlaced
  <1>9. u.grid = g /\ u.vi = v /\ u.lines = t.lines /\ u.mode = t.mode
    BY <1>5, <1>6, <1>7 DEF Placed, TermType
  <1>10. ViInGrid(u) BY <1>1, <1>2, <1>8, <1>9, ViLines
  <1>11. QED BY <1>2, <1>8, <1>9, <1>10 DEF Good, Stays

(* Term::scroll_to_point leaves the scrollback and the screen alone. *)
LEMMA ScrollToPointGood ==
  ASSUME NEW t, Placed(t), NEW line \in Int
  PROVE  LET u == scroll_to_point(t, line)
         IN  /\ Placed(u) /\ u.lines = t.lines /\ u.grid.history = t.grid.history
             /\ u.mode = t.mode /\ u.grid.limit = t.grid.limit
  <1>1. t.grid.offset \in Int /\ t.lines \in Int BY ViLines
  <1>2. -(line + t.grid.offset) \in Int /\ -(line + t.grid.offset - t.lines + 1) \in Int
    BY <1>1
  <1>3. \/ scroll_to_point(t, line) = t
        \/ scroll_to_point(t, line) = scroll_display(t, -(line + t.grid.offset))
        \/ scroll_to_point(t, line) = scroll_display(t, -(line + t.grid.offset - t.lines + 1))
    BY <1>1 DEF scroll_to_point
  <1>4. QED BY <1>2, <1>3, ScrollDisplayGood DEF Good

(* The vi mode cursor goes to a line; when that is one of the grid, it is there. *)
LEMMA GotoPointGood ==
  ASSUME NEW t, Placed(t), NEW line \in Int, ViInGrid(t) => line \in GridLines(dims(t))
  PROVE  Good(t, vi_goto_point(t, line)) /\ Good(t, vi_motion(t, line))
  <1> DEFINE p == scroll_to_point(t, line)
             w == [p EXCEPT !.vi = line]
             u == vi_mode_recompute_selection(w)
  <1>1. line \in GridLines(dims(t)) => -t.grid.history <= line /\ line <= t.lines - 1
    BY ViLines DEF GridLines, topmost_line, bottommost_line, dims
  <1>2. /\ Placed(p) /\ p.lines = t.lines /\ p.grid.history = t.grid.history
        /\ p.mode = t.mode /\ p.grid.limit = t.grid.limit
    BY ScrollToPointGood
  <1> HIDE DEF p
  <1>3. Placed(w)
    <2>1. p.sel \in AnySelection /\ Fits(p.grid, p.lines) BY <1>2 DEF Placed, TermType, AnySelection
    <2>2. QED BY <1>2, <2>1, ViewPlaced
  <1>4. w.grid = p.grid /\ w.lines = t.lines /\ w.vi = line BY <1>2 DEF Placed, TermType
  <1>5. Placed(u) /\ \E s \in AnySelection : u = [w EXCEPT !.sel = s] BY <1>3, RecomputePlaced
  <1>6. u.grid = p.grid /\ u.lines = t.lines /\ u.vi = line
    BY <1>3, <1>4, <1>5 DEF Placed, TermType
  <1>7. Good(t, u)
    <2>1. ViInGrid(u) <=> -t.grid.history <= line /\ line <= t.lines - 1
      BY <1>2, <1>5, <1>6, ViLines
    <2>2. QED BY <1>1, <1>5, <1>6, <2>1 DEF Good, Stays
  <1>8. vi_goto_point(t, line) = u BY DEF vi_goto_point, p
  <1>9. vi_motion(t, line) \in {t, u} BY DEF vi_motion, p
  <1>10. Good(t, t) BY SamePlace DEF AnySelection
  <1>11. QED BY <1>7, <1>8, <1>9, <1>10

(* Term::toggle_vi_mode puts the vi mode cursor at the cursor or into the view. *)
LEMMA ToggleGood ==
  ASSUME NEW t, Placed(t)
  PROVE  Good(t, toggle_vi_mode(t))
  <1> DEFINE v == IF t.grid.cursor > bottommost_line(dims(t)) - t.grid.offset THEN -t.grid.offset
                  ELSE t.grid.cursor
             m == t.mode \union {"VI"}
             u == [t EXCEPT !.mode = t.mode \union {"VI"}, !.vi = v]
             w == [t EXCEPT !.mode = t.mode \ {"VI"}]
  <1>1. v \in Int /\ (v = -t.grid.offset \/ (0 <= v /\ v <= t.lines - 1))
    BY ViLines DEF bottommost_line, dims
  <1>2. toggle_vi_mode(t) \in {u, w} BY DEF toggle_vi_mode
  <1> HIDE DEF v
  <1>3. Placed(u) /\ u.grid = t.grid /\ u.vi = v /\ u.lines = t.lines
    BY <1>1 DEF Placed, TermType
  <1>4. Placed(w) /\ w.grid = t.grid /\ w.vi = t.vi /\ w.lines = t.lines
    BY DEF Placed, TermType
  <1>5. Good(t, u)
    <2>1. ViInGrid(u) <=> -t.grid.history <= v /\ v <= t.lines - 1 BY <1>3, ViLines
    <2>2. t.grid.offset <= t.grid.history => ViInGrid(u) BY <1>1, <2>1, ViLines
    <2>3. QED BY <1>3, <2>2 DEF Good, Stays
  <1>6. Good(t, w) BY <1>4, ViLines DEF Good, Stays
  <1>7. QED BY <1>2, <1>5, <1>6

(* Scrolling lines of the screen. *)
LEMMA ScrollDownGood ==
  ASSUME NEW t, Placed(t), NEW origin \in Nat, NEW n \in Nat
  PROVE  Good(t, scroll_down_relative(t, origin, n))
  <1> DEFINE end   == t.region.end
             lines == Smaller(Smaller(n, end - t.region.start), end - origin)
             r     == Rotated(t, origin, end, -lines)
             v     == IF origin <= t.vi /\ t.vi < end THEN Smaller(t.vi + lines, end - 1) ELSE t.vi
             u     == scroll_down_relative(t, origin, n)
  <1>1. end \in Nat /\ lines \in Int /\ -lines \in Int /\ v \in Int BY ViLines DEF Smaller
  <1>2. ViInGrid(t) => -t.grid.history <= v /\ v <= t.lines - 1 BY ViLines DEF Smaller
  <1>3. u = [t EXCEPT !.sel = r, !.vi = v] BY DEF scroll_down_relative
  <1>4. r \in AnySelection
    <2>1. t \in TermType BY DEF Placed
    <2> HIDE DEF lines, end
    <2>2. QED BY <1>1, <2>1, RotatedType
  <1> HIDE DEF r, v
  <1>5. Placed(u)
    <2>1. Fits(t.grid, t.lines) BY DEF Placed
    <2>2. Placed([t EXCEPT !.sel = r, !.vi = v]) BY <1>1, <1>4, <2>1, ViewPlaced
    <2>3. QED BY <1>3, <2>2
  <1>6. u.grid = t.grid /\ u.vi = v /\ u.lines = t.lines BY <1>3 DEF Placed, TermType
  <1>7. QED BY <1>2, <1>5, <1>6, ViLines DEF Good, Stays

(* Term::scroll_up_relative, whose first line may be in the scrollback. *)
LEMMA ScrollUpGood ==
  ASSUME NEW t, Placed(t), NEW origin \in Nat, NEW n \in Nat
  PROVE  Good(t, scroll_up_relative(t, origin, n))
  <1> DEFINE end   == t.region.end
             lines == Smaller(n, end - t.region.start)
             g     == GridScrollUp(t.grid, origin, end, lines)
             top   == IF origin = 0 THEN -g.offset ELSE origin
             r     == Rotated(t, origin, end, lines)
             v     == IF top <= t.vi /\ t.vi < end THEN Larger(t.vi - lines, top) ELSE t.vi
             u     == scroll_up_relative(t, origin, n)
  <1>1. end \in Nat /\ lines \in Nat BY ViLines DEF Smaller
  <1>2. u = [t EXCEPT !.sel = r, !.grid = g, !.vi = v] BY DEF scroll_up_relative
  <1>3. r \in AnySelection
    <2>1. t \in TermType /\ lines \in Int BY <1>1 DEF Placed
    <2> HIDE DEF lines, end
    <2>2. QED BY <1>1, <2>1, RotatedType
  <1>4. Fits(g, t.lines)
    <2>1. Fits(t.grid, t.lines) BY DEF Placed
    <2> HIDE DEF lines, end
    <2>2. QED BY <1>1, <2>1, ViLines, ScrollUpFits
  <1>5. g.history >= t.grid.history
    BY <1>1, <1>4, ViLines DEF GridScrollUp, Smaller, Placed, Fits, GridType
  <1>6. g.offset \in Nat /\ g.history \in Nat BY <1>4 DEF Fits, GridType
  <1> HIDE DEF g
  <1>7. v \in Int /\ (ViInGrid(t) /\ g.offset <= g.history => -g.history <= v /\ v <= t.lines - 1)
    <2> HIDE DEF lines
    <2>1. QED BY <1>1, <1>5, <1>6, ViLines DEF Larger
  <1> HIDE DEF r, v
  <1>8. Placed(u)
    <2>1. Placed([t EXCEPT !.sel = r, !.grid = g, !.vi = v]) BY <1>3, <1>4, <1>7, ViewPlaced
    <2>2. QED BY <1>2, <2>1
  <1>9. u.grid = g /\ u.vi = v /\ u.lines = t.lines BY <1>2 DEF Placed, TermType
  <1>10. QED BY <1>7, <1>8, <1>9, ViLines DEF Good, Stays

(* Inserting and deleting lines scrolls a part of the region. *)
LEMMA InsertGood ==
  ASSUME NEW t, Placed(t), NEW n \in Nat
  PROVE  Good(t, insert_blank_lines(t, n)) /\ Good(t, delete_lines(t, n))
  <1>1. Good(t, t) BY SamePlace DEF AnySelection
  <1>2. Good(t, insert_blank_lines(t, n))
    BY <1>1, ViLines, ScrollDownGood DEF insert_blank_lines
  <1>3. Good(t, delete_lines(t, n))
    <2> DEFINE lines == Smaller(t.lines - t.grid.cursor, n)
    <2>1. lines \in Nat BY ViLines DEF Smaller
    <2>2. delete_lines(t, n) \in {t, scroll_up_relative(t, t.grid.cursor, lines)}
      BY DEF delete_lines
    <2> HIDE DEF lines
    <2>3. QED BY <1>1, <2>1, <2>2, ViLines, ScrollUpGood
  <1>4. QED BY <1>2, <1>3

(* Moving the cursor. *)
LEMMA CursorGood ==
  ASSUME NEW t, Placed(t), NEW c \in Nat, c < t.lines
  PROVE  Good(t, [t EXCEPT !.grid.cursor = c])
  <1> DEFINE g == [t.grid EXCEPT !.cursor = c]
             u == [t EXCEPT !.grid = g]
  <1>1. Fits(g, t.lines) /\ g.history = t.grid.history BY DEF Placed, Fits, GridType
  <1>2. [t EXCEPT !.grid.cursor = c] = u BY DEF Placed, TermType
  <1> HIDE DEF g
  <1>3. Placed(u)
    <2>1. t.vi \in Int /\ NoSelection \in AnySelection BY ViLines DEF AnySelection
    <2>2. QED BY <1>1, <2>1, ViewPlaced
  <1>4. u.grid = g /\ u.vi = t.vi /\ u.lines = t.lines BY DEF Placed, TermType
  <1>5. QED BY <1>1, <1>2, <1>3, <1>4, ViLines DEF Good, Stays

(* Line feeds scroll at the ends of the region and stop at those of the screen. *)
LEMMA LinefeedGood ==
  ASSUME NEW t, Placed(t)
  PROVE  Good(t, linefeed(t)) /\ Good(t, reverse_index(t))
  <1>1. Good(t, t) BY SamePlace DEF AnySelection
  <1>2. Good(t, linefeed(t))
    <2> DEFINE c == t.grid.cursor + 1
    <2>1. CASE c = t.region.end
      <3>1. linefeed(t) = scroll_up_relative(t, t.region.start, 1) BY <2>1 DEF linefeed
      <3>2. QED BY <3>1, ViLines, ScrollUpGood
    <2>2. CASE c # t.region.end /\ c < t.lines
      <3>1. linefeed(t) = [t EXCEPT !.grid.cursor = c] BY <2>2 DEF linefeed
      <3>2. c \in Nat BY ViLines
      <3>3. QED BY <2>2, <3>1, <3>2, CursorGood
    <2>3. CASE c # t.region.end /\ ~(c < t.lines)
      BY <1>1, <2>3 DEF linefeed
    <2>4. QED BY <2>1, <2>2, <2>3
  <1>3. Good(t, reverse_index(t))
    <2> DEFINE c == Larger(t.grid.cursor - 1, 0)
    <2>1. c \in Nat /\ c < t.lines BY ViLines DEF Larger
    <2>2. reverse_index(t) \in {scroll_down_relative(t, t.region.start, 1),
                                 [t EXCEPT !.grid.cursor = c]}
      BY DEF reverse_index
    <2> HIDE DEF c
    <2>3. QED BY <2>1, <2>2, ViLines, ScrollDownGood, CursorGood
  <1>4. QED BY <1>2, <1>3

(* Handler::goto stays within the region or the screen. *)
LEMMA GotoGood ==
  ASSUME NEW t, Placed(t), NEW line \in Nat, NEW o \in BOOLEAN
  PROVE  Good(t, goto(t, line, o))
  <1> DEFINE offset == IF o THEN t.region.start ELSE 0
             max    == IF o THEN t.region.end - 1 ELSE bottommost_line(dims(t))
             c      == Larger(Smaller(line + offset, max), 0)
  <1>1. c \in Nat /\ c < t.lines
    BY ViLines DEF Larger, Smaller, bottommost_line, dims
  <1>2. goto(t, line, o) = [t EXCEPT !.grid.cursor = c] BY DEF goto
  <1> HIDE DEF c
  <1>3. QED BY <1>1, <1>2, CursorGood

(* A region that does not fit the screen is cut. *)
LEMMA RegionGood ==
  ASSUME NEW t, Placed(t), NEW top \in Nat \ {0}, NEW bottom \in Nat, NEW o \in BOOLEAN
  PROVE  Good(t, set_scrolling_region(t, top, bottom, o))
  <1> DEFINE r == [start |-> Smaller(top - 1, t.lines), end |-> Smaller(bottom, t.lines)]
             w == [t EXCEPT !.region = r]
  <1>1. CASE top >= bottom
    <2>1. Good(t, t) BY SamePlace DEF AnySelection
    <2>2. QED BY <1>1, <2>1 DEF set_scrolling_region
  <1>2. CASE top < bottom
    <2>1. /\ r \in [start : Nat, end : Nat] /\ r.start <= r.end /\ r.end <= t.lines
      BY <1>2, ViLines DEF Smaller
    <2> HIDE DEF r
    <2>2. Placed(w) /\ w.grid = t.grid /\ w.vi = t.vi /\ w.lines = t.lines /\ w.mode = t.mode
      BY <2>1 DEF Placed, TermType
    <2> HIDE DEF w
    <2>3. Good(w, goto(w, 0, o)) BY <2>2, GotoGood
    <2>4. ViInGrid(t) <=> ViInGrid(w) BY <2>2, ViLines
    <2>5. Good(t, goto(w, 0, o)) BY <2>2, <2>3, <2>4 DEF Good, Stays
    <2>6. set_scrolling_region(t, top, bottom, o) = goto(w, 0, o)
      BY <1>2 DEF set_scrolling_region, w, r
    <2>7. QED BY <2>5, <2>6
  <1>3. QED BY <1>1, <1>2

(* Swapping the screens; the vi mode cursor is not moved. *)
LEMMA SwapGood ==
  ASSUME NEW t, Placed(t)
  PROVE  Good(t, swap_alt(t))
  <1> DEFINE enter == "ALT_SCREEN" \notin t.mode
             j == IF enter THEN [t.inactive EXCEPT !.cursor = t.grid.cursor] ELSE t.inactive
             m == IF enter THEN t.mode \union {"ALT_SCREEN"} ELSE t.mode \ {"ALT_SCREEN"}
             u == [t EXCEPT !.grid = j, !.inactive = t.grid, !.sel = NoSelection, !.mode = m]
  <1>1. Fits(j, t.lines) /\ Fits(t.grid, t.lines)
    BY ViLines DEF Placed, Fits, GridType
  <1>2. m \in SUBSET {"VI", "ALT_SCREEN"} /\ ~(("ALT_SCREEN" \in t.mode) = ("ALT_SCREEN" \in m))
    BY DEF Placed, TermType
  <1>3. swap_alt(t) = u BY DEF swap_alt
  <1> HIDE DEF j, m
  <1>4. u \in TermType
    <2>1. j \in GridType /\ t.grid \in GridType BY <1>1 DEF Fits
    <2>2. QED BY <1>2, <2>1 DEF Placed, TermType
  <1>5. u.grid = j /\ u.inactive = t.grid /\ u.lines = t.lines /\ u.mode = m /\ u.region = t.region
    BY DEF Placed, TermType
  <1>6. Placed(u) BY <1>1, <1>4, <1>5 DEF Placed
  <1>7. QED BY <1>2, <1>3, <1>5, <1>6 DEF Good, Stays

(* Clearing: the selection, and with the screen the view, may change. *)
LEMMA ClearSomeGood ==
  ASSUME NEW t, Placed(t)
  PROVE  Good(t, clear_line(t)) /\ Good(t, clear_above(t)) /\ Good(t, clear_below(t))
  <1>1. \A a, b : Unless(t, a, b) \in AnySelection
    BY DEF Unless, AnySelection, Placed, TermType
  <1>2. QED BY <1>1, SamePlace DEF clear_line, clear_above, clear_below

(* Clearing the scrollback brings the vi mode cursor onto the screen. *)
LEMMA ClearSavedGood ==
  ASSUME NEW t, Placed(t)
  PROVE  Good(t, clear_saved(t))
  <1>1. CASE t.grid.history = 0
    <2>1. Good(t, t) BY SamePlace DEF AnySelection
    <2>2. QED BY <1>1, <2>1 DEF clear_saved
  <1>2. CASE t.grid.history # 0
    <2> DEFINE g == [t.grid EXCEPT !.history = 0, !.offset = 0]
               w == [t EXCEPT !.grid.history = 0, !.grid.offset = 0]
               v == line_clamp(t.vi, dims(w), "Cursor")
               s == IF t.sel # NoSelection
                       /\ Smaller(t.sel.start.point.line, t.sel.end.point.line) < 0
                      THEN NoSelection ELSE t.sel
               u == [t EXCEPT !.grid = g, !.vi = v, !.sel = s]
    <2>1. Fits(g, t.lines) /\ g.history = 0
      <3>1. t.grid \in GridType /\ 0 <= t.grid.limit /\ t.grid.cursor < t.lines
        BY ViLines DEF Placed, Fits
      <3>2. g \in GridType /\ g.history = 0 /\ g.offset = 0 /\ g.limit = t.grid.limit
            /\ g.cursor = t.grid.cursor
        BY <3>1 DEF GridType
      <3>3. QED BY <3>1, <3>2 DEF Fits
    <2>2. w = [t EXCEPT !.grid = g] BY DEF Placed, TermType
    <2>3. s \in AnySelection BY DEF Placed, TermType, AnySelection
    <2>4. [w EXCEPT !.vi = v, !.sel = s] = u
      <3> HIDE DEF v, s, g
      <3>1. QED BY <2>2 DEF Placed, TermType
    <2>5. w.lines = t.lines BY <2>2 DEF Placed, TermType
    <2>6. v \in 0..(t.lines - 1)
      BY <2>5, ViLines DEF line_clamp, Larger, Smaller, bottommost_line, dims
    <2>7. clear_saved(t) = u
      <3>1. w.vi = t.vi /\ w.sel = t.sel BY <2>2 DEF Placed, TermType
      <3>2. clear_saved(t) = [w EXCEPT !.vi = v, !.sel = s] BY <1>2, <3>1 DEF clear_saved
      <3>3. QED BY <2>4, <3>2
    <2> HIDE DEF g, v, s
    <2>8. v \in Int /\ 0 <= v /\ v <= t.lines - 1 BY <2>6, ViLines
    <2>9. Placed(u) BY <2>1, <2>3, <2>8, ViewPlaced
    <2>10. u.grid = g /\ u.vi = v /\ u.lines = t.lines BY DEF Placed, TermType
    <2>11. ViInGrid(u)
      <3>1. ViInGrid(u) <=> -g.history <= v /\ v <= t.lines - 1 BY <2>9, <2>10, ViLines
      <3>2. QED BY <2>1, <2>8, <3>1
    <2>12. QED BY <2>7, <2>9, <2>10, <2>11 DEF Good, Stays
  <1>3. QED BY <1>1, <1>2

(* Clearing the screen scrolls what is on it into the scrollback. *)
LEMMA ClearAllGood ==
  ASSUME NEW t, Placed(t), NEW used \in Nat
  PROVE  Good(t, clear_all(t, used))
  <1> DEFINE g == IF "ALT_SCREEN" \in t.mode THEN t.grid ELSE GridScrollUp(t.grid, 0, t.lines, used)
             w == [t EXCEPT !.grid = g, !.sel = NoSelection]
             v == line_clamp(t.vi - Larger(g.offset - t.grid.offset, 0), dims(w), "Grid")
             u == [t EXCEPT !.grid = g, !.vi = v, !.sel = NoSelection]
  <1>1. Fits(g, t.lines)
    <2>1. Fits(t.grid, t.lines) BY DEF Placed
    <2>2. Fits(GridScrollUp(t.grid, 0, t.lines, used), t.lines) BY <2>1, ViLines, ScrollUpFits
    <2>3. QED BY <2>1, <2>2
  <1>2. NoSelection \in AnySelection /\ t.vi \in Int BY ViLines DEF AnySelection
  <1>3. CASE "ALT_SCREEN" \in t.mode
    <2>1. w.grid = t.grid /\ w.vi = t.vi /\ w.lines = t.lines BY <1>3 DEF Placed, TermType
    <2>2. clear_all(t, used) = w BY <1>3 DEF clear_all
    <2> HIDE DEF g
    <2>3. Placed(w) BY <1>1, <1>2, ViewPlaced
    <2>4. QED BY <2>1, <2>2, <2>3, ViLines DEF Good, Stays
  <1>4. CASE "ALT_SCREEN" \notin t.mode
    <2> HIDE DEF g
    <2>1. w.grid = g /\ w.lines = t.lines /\ w.vi = t.vi BY DEF Placed, TermType
    <2>2. g.history \in Nat /\ g.offset \in Nat BY <1>1 DEF Fits, GridType
    <2>3. v \in Int /\ -g.history <= v /\ v <= t.lines - 1
      BY <2>1, <2>2, ViLines
      DEF line_clamp, Larger, Smaller, topmost_line, bottommost_line, dims
    <2>4. clear_all(t, used) = [w EXCEPT !.vi = v] BY <1>4, <2>1 DEF clear_all, g
    <2>5. [w EXCEPT !.vi = v] = u BY DEF Placed, TermType
    <2> HIDE DEF v
    <2>6. Placed(u) BY <1>1, <1>2, <2>3, ViewPlaced
    <2>7. u.grid = g /\ u.vi = v /\ u.lines = t.lines BY DEF Placed, TermType
    <2>8. QED BY <2>2, <2>3, <2>4, <2>5, <2>6, <2>7, ViLines DEF Good, Stays
  <1>5. QED BY <1>3, <1>4

(* A new grid is a grid. *)
LEMMA NewGridFits ==
  ASSUME NEW limit \in Nat, NEW lines \in Nat \ {0}
  PROVE  Fits(NewGrid(limit), lines)
  BY DEF Fits, GridType, NewGrid

(* Another scrolling region, and a line for the vi mode cursor. *)
LEMMA RegionTyped ==
  ASSUME NEW t \in TermType, NEW r \in [start : Nat, end : Nat], NEW v \in Int
  PROVE  [t EXCEPT !.region = r, !.vi = v] \in TermType
  BY DEF TermType

(* Handler::reset_state, on either screen. *)
LEMMA ResetGood ==
  ASSUME NEW t, Placed(t)
  PROVE  Good(t, reset_state(t))
  <1> DEFINE alt == "ALT_SCREEN" \in t.mode
             g == NewGrid((IF alt THEN t.inactive ELSE t.grid).limit)
             h == NewGrid((IF alt THEN t.grid ELSE t.inactive).limit)
             r == [start |-> 0, end |-> t.lines]
             m == t.mode \intersect {"VI"}
             u == [t EXCEPT !.grid = g, !.inactive = h, !.region = r, !.sel = NoSelection, !.vi = 0,
                            !.mode = m]
  <1>1. reset_state(t) = u BY DEF reset_state
  <1>2. Fits(g, t.lines) /\ Fits(h, t.lines)
    <2>1. t.grid.limit \in Nat /\ t.inactive.limit \in Nat BY DEF Placed, Fits, GridType
    <2>2. QED BY <2>1, ViLines, NewGridFits
  <1>3. r \in [start : Nat, end : Nat] /\ r.start = 0 /\ r.end = t.lines /\ 0 <= t.lines BY ViLines
  <1>4. m \in SUBSET {"VI", "ALT_SCREEN"} BY DEF Placed, TermType
  <1> HIDE DEF g, h, r, m
  <1>5. u \in TermType
    <2>1. g \in GridType /\ h \in GridType BY <1>2 DEF Fits
    <2> DEFINE w == [t EXCEPT !.grid = g, !.inactive = h, !.sel = NoSelection, !.mode = m]
    <2>2. w \in TermType BY <1>4, <2>1 DEF Placed, TermType
    <2>3. u = [w EXCEPT !.region = r, !.vi = 0] BY DEF Placed, TermType
    <2> HIDE DEF w, u
    <2>4. r \in [start : Nat, end : Nat] /\ 0 \in Int BY <1>3
    <2>5. [w EXCEPT !.region = r, !.vi = 0] \in TermType BY <2>2, <2>4, RegionTyped, Zenon
    <2>6. QED BY <2>3, <2>5, Zenon
  <1>6. u.grid = g /\ u.inactive = h /\ u.lines = t.lines /\ u.region = r /\ u.vi = 0
    BY DEF Placed, TermType
  <1>7. Placed(u) BY <1>2, <1>3, <1>5, <1>6, ViLines DEF Placed
  <1>8. ViInGrid(u)
    <2>1. ViInGrid(u) <=> -u.grid.history <= 0 /\ 0 <= t.lines - 1 BY <1>6, <1>7, ViLines
    <2>2. u.grid.history \in Nat BY <1>7, ViLines
    <2>3. QED BY <2>1, <2>2, ViLines
  <1>9. QED BY <1>1, <1>6, <1>7, <1>8 DEF Good, Stays

(* A smaller limit drops scrollback; a larger one leaves it. *)
LEMMA OptionsGood ==
  ASSUME NEW t, Placed(t), NEW history \in Nat
  PROVE  Good(t, set_options(t, history))
  <1> DEFINE Update(g) == [g EXCEPT !.history = Smaller(@, history), !.offset = Smaller(@, history),
                                    !.limit = history]
  <1>1. ASSUME NEW g, Fits(g, t.lines)
        PROVE  /\ Fits(Update(g), t.lines) /\ Update(g).limit = history
               /\ (history >= g.limit => Update(g).history = g.history)
    <2> DEFINE a == Smaller(g.history, history)
               b == Smaller(g.offset, history)
               h == [g EXCEPT !.history = a, !.offset = b, !.limit = history]
    <2>1. /\ g \in GridType /\ g.cursor < t.lines
          /\ a \in Nat /\ a <= history /\ b \in Nat /\ b <= history
          /\ (history >= g.limit => a = g.history)
      BY <1>1 DEF Fits, GridType, Smaller
    <2>2. Update(g) = h BY <2>1 DEF GridType
    <2> HIDE DEF a, b
    <2>3. h \in GridType /\ h.history = a /\ h.offset = b /\ h.limit = history
          /\ h.cursor = g.cursor
      BY <2>1 DEF GridType
    <2> HIDE DEF h, Update
    <2>4. QED BY <2>1, <2>2, <2>3 DEF Fits
  <1> HIDE DEF Update
  <1>2. CASE "ALT_SCREEN" \in t.mode
    <2> DEFINE h == Update(t.inactive)
               u == [t EXCEPT !.inactive = h]
    <2>1. set_options(t, history) = u BY <1>2 DEF set_options, Update
    <2>2. Fits(h, t.lines) BY <1>1 DEF Placed
    <2> HIDE DEF h
    <2>3. /\ u.grid = t.grid /\ u.inactive = h /\ u.lines = t.lines
          /\ u.vi = t.vi /\ u.region = t.region
      BY DEF Placed, TermType
    <2>4. u \in TermType BY <2>2 DEF Placed, TermType, Fits
    <2>5. Placed(u) BY <2>2, <2>3, <2>4 DEF Placed
    <2>6. QED BY <2>1, <2>3, <2>5, ViLines DEF Good, Stays
  <1>3. CASE "ALT_SCREEN" \notin t.mode
    <2> DEFINE g == Update(t.grid)
               u == [t EXCEPT !.grid = g]
    <2>1. set_options(t, history) = u BY <1>3 DEF set_options, Update
    <2>2. /\ Fits(g, t.lines) /\ g.limit = history
          /\ (history >= t.grid.limit => g.history = t.grid.history)
      BY <1>1 DEF Placed
    <2> HIDE DEF g
    <2>3. u.grid = g /\ u.lines = t.lines /\ u.vi = t.vi BY DEF Placed, TermType
    <2>4. Placed(u)
      <3>1. t.vi \in Int /\ NoSelection \in AnySelection BY ViLines DEF AnySelection
      <3>2. QED BY <2>2, <3>1, ViewPlaced
    <2>5. QED BY <2>1, <2>2, <2>3, <2>4, ViLines DEF Good, Stays
  <1>4. QED BY <1>2, <1>3
-------------------------------------------------------------------------------
(* Resizing. *)

(* How far the cursor moves when the height changes: as far as the text. *)
LEMMA ResizeCursor ==
  ASSUME NEW lines \in Nat \ {0}, NEW target \in Nat \ {0}, lines # target, NEW g, Fits(g, lines)
  PROVE  GridResize(g, lines, target).cursor - g.cursor =
           Smaller(Larger(target - lines, Smaller(0, target - g.cursor - 1)), g.history)
  <1>0. g.history \in Nat /\ g.cursor \in Nat /\ g.cursor < lines /\ g \in GridType
    BY DEF Fits, GridType
  <1>1. CASE lines < target
    <2> DEFINE added  == target - lines
               pulled == Smaller(g.history, added)
               up     == IF pulled # added THEN GridScrollUp(g, 0, target, added - pulled) ELSE g
               less   == Larger(up.history - added, 0)
               off    == Larger(up.offset - added, 0)
    <2>1. GridResize(g, lines, target) =
            [up EXCEPT !.cursor = @ + pulled, !.history = less,
                       !.offset = IF up.history # 0 THEN Smaller(off, less) ELSE off]
      BY <1>1 DEF GridResize, GridGrow
    <2>2. added \in Nat /\ pulled \in Nat /\ added - pulled \in Nat BY <1>0, <1>1 DEF Smaller
    <2>3. up.cursor = g.cursor /\ up \in GridType
      <3>1. GridScrollUp(g, 0, target, added - pulled).cursor = g.cursor
            /\ GridScrollUp(g, 0, target, added - pulled) \in GridType
        <4> HIDE DEF added, pulled
        <4>1. QED BY <2>2, ScrollUpFits DEF Fits
      <3>2. QED BY <1>0, <3>1
    <2> HIDE DEF up, less, off
    <2>4. GridResize(g, lines, target).cursor = g.cursor + pulled
      <3> HIDE DEF pulled
      <3>1. QED BY <2>1, <2>3 DEF GridType
    <2>5. QED BY <1>0, <1>1, <2>4 DEF Smaller, Larger
  <1>2. CASE lines > target
    <2> DEFINE needed == Larger(g.cursor + 1 - target, 0)
               up     == IF needed > 0 THEN GridScrollUp(g, 0, lines, needed) ELSE g
    <2>1. GridResize(g, lines, target) = [up EXCEPT !.cursor = Smaller(@, target - 1)]
      BY <1>2 DEF GridResize, GridShrink
    <2>2. needed \in Nat BY <1>0 DEF Larger
    <2>3. up.cursor = g.cursor /\ up \in GridType
      <3>1. GridScrollUp(g, 0, lines, needed).cursor = g.cursor
            /\ GridScrollUp(g, 0, lines, needed) \in GridType
        <4> HIDE DEF needed
        <4>1. QED BY <2>2, ScrollUpFits DEF Fits
      <3>2. QED BY <1>0, <3>1
    <2> HIDE DEF up
    <2>4. GridResize(g, lines, target).cursor = Smaller(g.cursor, target - 1)
      BY <2>1, <2>3 DEF GridType
    <2>5. QED BY <1>0, <1>2, <2>4 DEF Smaller, Larger
  <1>3. QED BY <1>1, <1>2

(* The cursor, and with it the vi mode cursor, moves with the text. *)
Moves(t, u) ==
  u.lines # t.lines =>
    LET moved == t.vi + u.grid.cursor - t.grid.cursor
        top   == -u.grid.offset
    IN  u.vi = Larger(top, Smaller(moved, top + u.lines - 1))

(* Term::resize to another height, with everything that moves. *)
LEMMA ResizeLinesGood ==
  ASSUME NEW t, Placed(t), NEW lines \in Nat \ {0}, lines # t.lines
  PROVE  LET u == resize_lines(t, lines) IN Placed(u) /\ Stays(t, u) /\ Moves(t, u)
  <1> DEFINE g == GridResize(t.grid, t.lines, lines)
             i == GridResize(t.inactive, t.lines, lines)
             least == Smaller(0, lines - t.grid.cursor - 1)
             delta == Smaller(Larger(lines - t.lines, least), t.grid.history)
             w == [t EXCEPT !.grid = g, !.lines = lines, !.inactive = i]
             v == Larger(Smaller(t.vi + delta, -g.offset + lines - 1), -g.offset)
             s == IF t.sel = NoSelection THEN t.sel
                  ELSE rotate(t.sel, dims(w), 0, Larger(lines, t.lines), -delta)
             r == [start |-> 0, end |-> lines]
             u == [w EXCEPT !.vi = v, !.sel = s, !.region = r]
  <1>1. lines \in Nat \ {0} /\ t.lines \in Nat \ {0} BY DEF Placed, TermType
  <1>2. Fits(g, lines) /\ Fits(i, lines) BY <1>1, ResizeFits DEF Placed
  <1>3. g.cursor - t.grid.cursor = delta
    <2>1. Fits(t.grid, t.lines) BY DEF Placed
    <2>2. QED BY <1>1, <2>1, ViLines, ResizeCursor
  <1>4. delta \in Int BY <1>1, ViLines DEF Smaller, Larger
  <1> HIDE DEF g, i
  <1>5. /\ w \in TermType /\ w.grid = g /\ w.inactive = i /\ w.lines = lines
        /\ w.vi = t.vi /\ w.sel = t.sel /\ w.mode = t.mode
    BY <1>2 DEF Placed, TermType, Fits
  <1>6. resize_lines(t, lines) = u
    <2>1. -w.grid.offset = -g.offset BY <1>5
    <2>2. resize_lines(t, lines) =
            [w EXCEPT !.vi = Larger(Smaller(t.vi + delta, -w.grid.offset + lines - 1),
                                    -w.grid.offset),
                      !.sel = IF t.sel = NoSelection THEN @
                              ELSE rotate(t.sel, dims(w), 0, Larger(lines, t.lines), -delta),
                      !.region = [start |-> 0, end |-> lines]]
      BY Zenon DEF resize_lines, g, i
    <2>3. QED BY <1>5, <2>1, <2>2, Zenon
  <1>7. s \in AnySelection
    <2>1. CASE t.sel = NoSelection BY <2>1 DEF AnySelection
    <2>2. CASE t.sel # NoSelection
      <3>1. t.sel \in Selections BY <2>2 DEF Placed, TermType
      <3>2. dims(w) \in Dims BY <1>5, DimsType
      <3>3. 0 \in Int /\ Larger(lines, t.lines) \in Int /\ -delta \in Int
        BY <1>1, <1>4, ViLines DEF Larger
      <3> DEFINE b == Larger(lines, t.lines)
                 e == -delta
      <3> HIDE DEF b, e, delta, w
      <3>4. rotate(t.sel, dims(w), 0, b, e) \in AnySelection
        BY <3>1, <3>2, <3>3, RotateLines DEF AnySelection, b, e
      <3>5. QED BY <2>2, <3>4 DEF b, e
    <2>3. QED BY <2>1, <2>2
  <1>8. g.offset \in Nat /\ g.history \in Nat /\ g.cursor \in Nat BY <1>2 DEF Fits, GridType
  <1>9. v \in Int /\ -g.offset <= v /\ v <= lines - 1
    BY <1>1, <1>4, <1>8, ViLines DEF Larger, Smaller
  <1>10. v = Larger(-g.offset, Smaller(t.vi + g.cursor - t.grid.cursor, -g.offset + lines - 1))
    <2>1. t.vi + g.cursor - t.grid.cursor = t.vi + delta BY <1>3, <1>4, <1>8, ViLines
    <2> HIDE DEF delta
    <2>2. QED BY <1>1, <1>4, <1>8, <2>1, ViLines DEF Larger, Smaller
  <1>11. r \in [start : Nat, end : Nat] /\ r.start = 0 /\ r.end = lines /\ 0 <= lines BY <1>1
  <1> HIDE DEF v, s, r, w
  <1>12. u \in TermType /\ u.grid = g /\ u.inactive = i /\ u.lines = lines /\ u.vi = v
         /\ u.region = r /\ u.mode = t.mode
    <2> DEFINE x == [w EXCEPT !.sel = s]
    <2>1. x \in TermType BY <1>5, <1>7 DEF TermType, AnySelection
    <2>2. u = [x EXCEPT !.region = r, !.vi = v] BY <1>5 DEF TermType
    <2>3. u \in TermType
      <3> HIDE DEF x, u
      <3>1. QED BY <1>9, <1>11, <2>1, <2>2, RegionTyped
    <2>4. QED BY <1>5, <2>3 DEF TermType
  <1> HIDE DEF u
  <1>13. Placed(u) BY <1>1, <1>2, <1>11, <1>12 DEF Placed
  <1>14. Stays(t, u)
    <2>1. ViInGrid(u) <=> -g.history <= v /\ v <= lines - 1 BY <1>12, <1>13, ViLines
    <2>2. g.offset <= g.history => ViInGrid(u) BY <1>1, <1>8, <1>9, <2>1
    <2>3. QED BY <1>12, <2>2 DEF Stays
  <1>15. Moves(t, u) BY <1>10, <1>12 DEF Moves
  <1>16. QED BY <1>6, <1>13, <1>14, <1>15

(* Term::resize to another width, wherever reflowing puts cursor and view. *)
LEMMA ResizeColumnsGood ==
  ASSUME NEW t, Placed(t), NEW h \in Nat, NEW off \in Nat, NEW c \in Nat, c < t.lines, off <= h,
         h <= (IF "ALT_SCREEN" \in t.mode THEN t.inactive ELSE t.grid).limit
  PROVE  Good(t, resize_columns(t, h, off, c))
  <1> DEFINE Reflowed(g) == [g EXCEPT !.history = h, !.offset = off, !.cursor = c]
             w == IF "ALT_SCREEN" \in t.mode THEN [t EXCEPT !.inactive = Reflowed(@)]
                                             ELSE [t EXCEPT !.grid = Reflowed(@)]
             top == -w.grid.offset
             v == Larger(Smaller(w.vi, top + t.lines - 1), top)
             r == [start |-> 0, end |-> t.lines]
             u == [w EXCEPT !.vi = v, !.sel = NoSelection, !.region = r]
  <1>1. resize_columns(t, h, off, c) = u BY Zenon DEF resize_columns
  <1>2. ASSUME NEW g, Fits(g, t.lines), h <= g.limit PROVE Fits(Reflowed(g), t.lines)
    <2>1. /\ g \in GridType /\ g.limit \in Nat /\ off <= g.limit BY <1>2 DEF Fits, GridType
    <2>2. /\ Reflowed(g) \in GridType /\ Reflowed(g).history = h /\ Reflowed(g).offset = off
          /\ Reflowed(g).cursor = c /\ Reflowed(g).limit = g.limit
      BY <2>1 DEF GridType
    <2> HIDE DEF Reflowed
    <2>3. QED BY <1>2, <2>1, <2>2 DEF Fits
  <1> HIDE DEF Reflowed
  <1>3. Placed(w) /\ w.lines = t.lines /\ w.mode = t.mode /\ w.vi = t.vi
    <2>1. CASE "ALT_SCREEN" \in t.mode
      <3>1. w = [t EXCEPT !.inactive = Reflowed(t.inactive)] BY <2>1
      <3>2. Fits(Reflowed(t.inactive), t.lines) BY <1>2, <2>1 DEF Placed
      <3> HIDE DEF w
      <3>3. /\ w \in TermType /\ w.inactive = Reflowed(t.inactive) /\ w.grid = t.grid
            /\ w.lines = t.lines /\ w.mode = t.mode /\ w.vi = t.vi /\ w.region = t.region
        BY <3>1, <3>2 DEF Placed, TermType, Fits
      <3>4. QED BY <3>2, <3>3 DEF Placed
    <2>2. CASE "ALT_SCREEN" \notin t.mode
      <3>1. w = [t EXCEPT !.grid = Reflowed(t.grid)] BY <2>2
      <3>2. Fits(Reflowed(t.grid), t.lines) BY <1>2, <2>2 DEF Placed
      <3> HIDE DEF w
      <3>3. /\ w \in TermType /\ w.grid = Reflowed(t.grid) /\ w.inactive = t.inactive
            /\ w.lines = t.lines /\ w.mode = t.mode /\ w.vi = t.vi /\ w.region = t.region
        BY <3>1, <3>2 DEF Placed, TermType, Fits
      <3>4. QED BY <3>2, <3>3 DEF Placed
    <2>3. QED BY <2>1, <2>2
  <1> HIDE DEF w
  <1>4. v \in Int /\ -w.grid.offset <= v /\ v <= t.lines - 1
    BY <1>3, ViLines DEF Larger, Smaller
  <1>5. r \in [start : Nat, end : Nat] /\ r.start = 0 /\ r.end = t.lines /\ 0 <= t.lines BY ViLines
  <1> HIDE DEF v, r
  <1>6. u \in TermType /\ u.grid = w.grid /\ u.inactive = w.inactive /\ u.lines = t.lines
        /\ u.vi = v /\ u.region = r
    <2>0. w \in TermType BY <1>3 DEF Placed
    <2> DEFINE x == [w EXCEPT !.sel = NoSelection]
    <2>1. x \in TermType BY <2>0 DEF TermType
    <2>2. u = [x EXCEPT !.region = r, !.vi = v] BY <2>0 DEF TermType
    <2>3. u \in TermType
      <3> HIDE DEF x, u
      <3>1. QED BY <1>4, <1>5, <2>1, <2>2, RegionTyped
    <2>4. QED BY <1>3, <2>0, <2>3 DEF TermType
  <1> HIDE DEF u
  <1>7. Placed(u) BY <1>3, <1>5, <1>6 DEF Placed
  <1>8. u.grid.offset <= u.grid.history => ViInGrid(u)
    <2>1. ViInGrid(u) <=> -u.grid.history <= v /\ v <= t.lines - 1 BY <1>6, <1>7, ViLines
    <2>2. u.grid.history \in Nat /\ u.grid.offset \in Nat BY <1>7, ViLines
    <2>3. QED BY <1>4, <1>6, <2>1, <2>2
  <1>9. QED BY <1>1, <1>6, <1>7, <1>8 DEF Good, Stays
-------------------------------------------------------------------------------
(* Every step. *)

(* Selecting with the mouse. *)
LEMMA SelectGood ==
  ASSUME Placed(term), NEW from \in Int, NEW to \in Int, Select(from, to)
  PROVE  Good(term, term')
  <1> DEFINE a == Point(from, 0)
             b == Point(to, Columns - 1)
             s == update(new_selection("Simple", a, "Left"), b, "Right")
             r == update(new_selection("Simple", b, "Right"), a, "Left")
  <1>1. a \in [line : Int, column : Int] /\ b \in [line : Int, column : Int]
    BY Sizes DEF Point
  <1> HIDE DEF a, b
  <1>2. s \in AnySelection /\ r \in AnySelection
    BY <1>1, NewType, UpdateType DEF AnySelection
  <1>3. term' \in {[term EXCEPT !.sel = s], [term EXCEPT !.sel = r]}
    BY Zenon DEF Select, a, b
  <1> HIDE DEF s, r
  <1>4. QED BY <1>2, <1>3, SamePlace

(* Everything the user does, one step per action. *)
LEMMA UserGood ==
  ASSUME Placed(term), UserStep
  PROVE  Good(term, term')
  <1>1. MaxHeight \in Nat /\ Histories \subseteq Nat BY Tallest, Sizes
  <1>2. ASSUME NEW count \in {-1, 1, MaxHeight}, ScrollDisplay(count) PROVE Good(term, term')
    <2>1. count \in Int BY <1>1
    <2>2. QED BY <1>2, <2>1, ScrollDisplayGood DEF ScrollDisplay
  <1>3. CASE ToggleVi BY <1>3, ToggleGood DEF ToggleVi
  <1>4. ASSUME NEW line \in GridLines(dims(term)), ViGoto(line) PROVE Good(term, term')
    <2>1. line \in Int BY ViLines DEF GridLines, topmost_line, bottommost_line, dims
    <2>2. QED BY <1>4, <2>1, GotoPointGood DEF ViGoto
  <1>5. ASSUME NEW line \in MotionTargets, ViMotion(line) PROVE Good(term, term')
    <2>1. /\ line \in {term.vi - 1, term.vi + 1}
          /\ line = term.vi - 1 => term.vi > -term.grid.history
          /\ line = term.vi + 1 => term.vi + 1 < term.lines
      BY ViLines DEF MotionTargets, topmost_line, dims
    <2>2. line \in Int /\ (ViInGrid(term) => line \in GridLines(dims(term)))
      BY <2>1, ViLines DEF GridLines, topmost_line, bottommost_line, dims
    <2>3. QED BY <1>5, <2>2, GotoPointGood DEF ViMotion
  <1>6. ASSUME NEW from \in GridLines(dims(term)), NEW to \in GridLines(dims(term)),
               Select(from, to)
        PROVE  Good(term, term')
    <2>1. from \in Int /\ to \in Int
      BY ViLines DEF GridLines, topmost_line, bottommost_line, dims
    <2>2. QED BY <1>6, <2>1, SelectGood
  <1>7. ASSUME NEW history \in Histories, SetOptions(history) PROVE Good(term, term')
    BY <1>1, <1>7, OptionsGood DEF SetOptions
  <1>8. QED BY <1>2, <1>3, <1>4, <1>5, <1>6, <1>7 DEF UserStep

(* Everything the program does, one step per action. *)
LEMMA ProgramGood ==
  ASSUME Placed(term), ProgramStep
  PROVE  Good(term, term')
  <1> USE ViLines
  <1>1. MaxHeight \in Nat \ {0} BY Tallest, Sizes
  <1>2. ASSUME NEW n \in {1, MaxHeight},
               ScrollUp(n) \/ ScrollDown(n) \/ InsertLines(n) \/ DeleteLines(n)
        PROVE  Good(term, term')
    <2>1. n \in Nat BY <1>1
    <2>2. CASE ScrollUp(n) BY <2>1, <2>2, ScrollUpGood DEF ScrollUp
    <2>3. CASE ScrollDown(n) BY <2>1, <2>3, ScrollDownGood DEF ScrollDown
    <2>4. CASE InsertLines(n) BY <2>1, <2>4, InsertGood DEF InsertLines
    <2>5. CASE DeleteLines(n) BY <2>1, <2>5, InsertGood DEF DeleteLines
    <2>6. QED BY <1>2, <2>2, <2>3, <2>4, <2>5
  <1>3. CASE LineFeed BY <1>3, LinefeedGood DEF LineFeed
  <1>4. CASE ReverseIndex BY <1>4, LinefeedGood DEF ReverseIndex
  <1>5. CASE SwapAlt BY <1>5, SwapGood DEF SwapAlt
  <1>6. CASE Reset BY <1>6, ResetGood DEF Reset
  <1>7. ASSUME NEW line \in ScreenLines, NEW o \in BOOLEAN, Goto(line, o) \/ RestoreCursor(line)
        PROVE  Good(term, term')
    <2>1. line \in Nat /\ line < term.lines BY DEF ScreenLines
    <2>2. CASE Goto(line, o) BY <2>1, <2>2, GotoGood DEF Goto
    <2>3. CASE RestoreCursor(line)
      BY <2>1, <2>3, CursorGood DEF RestoreCursor, restore_cursor_position
    <2>4. QED BY <1>7, <2>2, <2>3
  <1>8. ASSUME NEW bottom \in 2..(MaxHeight + 1), NEW top \in 1..MaxHeight, NEW o \in BOOLEAN,
               SetRegion(top, bottom, o)
        PROVE  Good(term, term')
    <2>1. top \in Nat \ {0} /\ bottom \in Nat BY <1>1
    <2>2. QED BY <1>8, <2>1, RegionGood DEF SetRegion
  <1>9. ASSUME NEW used \in {0, 1, term.lines}, ClearAll(used) PROVE Good(term, term')
    <2>1. used \in Nat OBVIOUS
    <2>2. QED BY <1>9, <2>1, ClearAllGood DEF ClearAll
  <1>10. CASE ClearSome BY <1>10, ClearSomeGood, ClearSavedGood DEF ClearSome
  <1>11. QED BY <1>2, <1>3, <1>4, <1>5, <1>6, <1>7, <1>8, <1>9, <1>10 DEF ProgramStep

(* Both kinds of resizes. *)
LEMMA WindowGood ==
  ASSUME Placed(term), WindowStep
  PROVE  Placed(term') /\ Stays(term, term') /\ Moves(term, term')
  <1>1. ASSUME NEW lines \in Heights, ResizeLines(lines)
        PROVE  Placed(term') /\ Stays(term, term') /\ Moves(term, term')
    BY <1>1, Sizes, ResizeLinesGood DEF ResizeLines
  <1>2. ASSUME NEW h \in 0..Primary.limit, NEW off \in 0..Primary.limit, NEW c \in ScreenLines,
               ResizeColumns(h, off, c)
        PROVE  Placed(term') /\ Stays(term, term') /\ Moves(term, term')
    <2>1. h \in Nat /\ off \in Nat OBVIOUS
    <2>2. c \in Nat /\ c < term.lines BY ViLines DEF ScreenLines
    <2>3. Good(term, resize_columns(term, h, off, c))
      BY <1>2, <2>1, <2>2, ResizeColumnsGood DEF ResizeColumns, Primary
    <2>4. QED BY <1>2, <2>3 DEF ResizeColumns, Good, Moves
  <1>3. QED BY <1>1, <1>2 DEF WindowStep

(* A step of any kind. *)
LEMMA NextGood ==
  ASSUME Placed(term), [Next]_term
  PROVE  Placed(term') /\ Stays(term, term') /\ Moves(term, term')
  <1>1. CASE UserStep BY <1>1, UserGood DEF Good, Moves
  <1>2. CASE ProgramStep BY <1>2, ProgramGood DEF Good, Moves
  <1>3. CASE WindowStep BY <1>3, WindowGood
  <1>4. CASE term' = term
    <2>1. Good(term, term) BY SamePlace DEF AnySelection
    <2>2. QED BY <1>4, <2>1 DEF Good, Moves
  <1>5. QED BY <1>1, <1>2, <1>3, <1>4 DEF Next

(* The height is one that the window can have. *)
LEMMA HeightStays ==
  ASSUME Placed(term), term.lines \in Heights, [Next]_term
  PROVE  term'.lines \in Heights
  <1>1. CASE UserStep BY <1>1, UserGood DEF Good
  <1>2. CASE ProgramStep BY <1>2, ProgramGood DEF Good
  <1>3. CASE WindowStep
    <2>1. ASSUME NEW lines \in Heights, ResizeLines(lines) PROVE term'.lines \in Heights
      BY <2>1 DEF ResizeLines, resize_lines, Placed, TermType
    <2>2. ASSUME NEW h \in 0..Primary.limit, NEW off \in 0..Primary.limit, NEW c \in ScreenLines,
                 ResizeColumns(h, off, c)
          PROVE  term'.lines \in Heights
      BY <2>2 DEF ResizeColumns, resize_columns, Placed, TermType
    <2>3. QED BY <1>3, <2>1, <2>2 DEF WindowStep
  <1>4. CASE term' = term BY <1>4
  <1>5. QED BY <1>1, <1>2, <1>3, <1>4 DEF Next

(* Term::new *)
LEMMA InitPlaced ==
  ASSUME Init
  PROVE  Placed(term)
  <1>1. PICK lines \in Heights, history \in Histories : term = new_term(lines, history)
    BY DEF Init
  <1>2. lines \in Nat \ {0} /\ history \in Nat /\ 0 \in Nat BY Sizes
  <1>3. Fits(NewGrid(history), lines) /\ Fits(NewGrid(0), lines) BY <1>2, NewGridFits
  <1>4. NewGrid(history) \in GridType /\ NewGrid(0) \in GridType BY <1>3 DEF Fits
  <1>5. term \in TermType
    BY <1>1, <1>2, <1>4 DEF new_term, TermType
  <1>6. /\ term.grid = NewGrid(history) /\ term.inactive = NewGrid(0) /\ term.lines = lines
        /\ term.region.start = 0 /\ term.region.end = lines
    BY <1>1 DEF new_term
  <1>7. QED BY <1>2, <1>3, <1>5, <1>6 DEF Placed

(* PlacedInv: in whatever order the handlers of term/mod.rs scroll, resize,
   clear, swap the screens and move the view, the cursor of each screen is on
   it, its scrollback and view are within its limit, and the scrolling region
   begins before it ends and ends on the screen. *)
THEOREM PlacedInv == Spec => []Placed(term)
  <1>1. Init => Placed(term) BY InitPlaced
  <1>2. Placed(term) /\ [Next]_term => Placed(term)' BY NextGood
  <1>3. QED BY <1>1, <1>2, PTL DEF Spec

(* ViewportInv always holds, for every height and scrollback limit: no handler
   leaves a cursor, the region or the scrollback of either screen out of
   bounds, whether the screen is shown or not when the window is resized. *)
THEOREM ViewportSafe == Spec => []ViewportInv
  <1>1. Placed(term) /\ term.lines \in Heights => ViewportInv
    <2> SUFFICES ASSUME Placed(term), term.lines \in Heights PROVE ViewportInv OBVIOUS
    <2>1. /\ term.lines \in Heights /\ term.mode \subseteq {"VI", "ALT_SCREEN"} /\ term.vi \in Int
      BY DEF Placed, TermType
    <2>2. ASSUME NEW g, Fits(g, term.lines)
          PROVE  g.history \in 0..g.limit /\ g.offset \in 0..g.limit /\ g.cursor \in ScreenLines
      BY <2>2, ViLines DEF Fits, GridType, ScreenLines
    <2>3. Fits(term.grid, term.lines) /\ Fits(term.inactive, term.lines) BY DEF Placed
    <2>4. QED BY <2>1, <2>2, <2>3, ViLines DEF ViewportInv, TypeOK, OnScreen
  <1>2. Init => term.lines \in Heights BY DEF Init, new_term
  <1>3. Placed(term) /\ term.lines \in Heights /\ [Next]_term => (term.lines \in Heights)' BY HeightStays
  <1>4. QED BY <1>1, <1>2, <1>3, PlacedInv, PTL DEF Spec

(* ViFollowsText, for every height and scrollback limit: what scrolls the view
   or the text leaves the vi mode cursor in the grid, and Term::resize moves it
   by as many lines as the text. *)
THEOREM ViFollowsTextHolds == Spec => ViFollowsText
  <1>1. Placed(term) /\ [Next]_term => [ViStaysInGrid /\ ViMovesWithContent]_term
    <2> SUFFICES ASSUME Placed(term), [Next]_term PROVE ViStaysInGrid /\ ViMovesWithContent
      OBVIOUS
    <2>1. Stays(term, term') /\ Moves(term, term') BY NextGood
    <2>2. QED BY <2>1 DEF Stays, Moves, ViStaysInGrid, ViMovesWithContent
  <1>2. QED BY <1>1, PlacedInv, PTL DEF Spec, ViFollowsText
-------------------------------------------------------------------------------
(* Scrolling never selects other text. *)

(* l is one of the lines rotating the lines lo to hi selects. *)
Arrives(l, lo, hi, d, top, bottom, delta) ==
  LET f == FirstLine(lo, d, top, bottom, delta)
      e == LastLine(hi, d, top, bottom, delta)
  IN  /\ Smaller(f, e) <= l /\ l <= Larger(f, e)
      /\ ~(Turns(hi, top, bottom) /\ Shifted(hi, d, delta) < f)
      /\ ~(Turns(lo, top, bottom) /\ Shifted(lo, d, delta) >= bottom /\ hi < bottom)

(* The line a selected line came from, scrolling up by n. *)
LEMMA UpKeeps ==
  ASSUME NEW d \in Dims, NEW lo \in Int, NEW hi \in Int, lo <= hi,
         NEW top \in Int, NEW bottom \in Int, 0 <= top, top < bottom, bottom <= d.lines,
         NEW n \in Int, 0 < n, n <= bottom - top,
         NEW l \in Int, Arrives(l, lo, hi, d, top, bottom, n)
  PROVE  \/ bottom - n <= l /\ l <= bottom - 1
         \/ \E k \in lo..hi : l = UpBy(k, top, bottom, n)
  <1> DEFINE lines == d.lines
             f == FirstLine(lo, d, top, bottom, n)
             e == LastLine(hi, d, top, bottom, n)
  <1>0. lines \in Int BY DEF Dims
  <1>9. /\ Smaller(f, e) <= l /\ l <= Larger(f, e)
        /\ ~(Turns(hi, top, bottom) /\ Shifted(hi, d, n) < f)
        /\ ~(Turns(lo, top, bottom) /\ Shifted(lo, d, n) >= bottom /\ hi < bottom)
    BY Zenon DEF Arrives
  <1>1. \A k \in Int : k < bottom => Shifted(k, d, n) = k - n BY <1>0 DEF Shifted, Smaller
  <1>2. f = (IF ~Turns(lo, top, bottom) THEN lo
             ELSE IF lo - n < top /\ top # 0 THEN top ELSE lo - n)
    BY <1>1 DEF FirstLine, Turns
  <1>3. e = (IF ~Turns(hi, top, bottom) THEN hi ELSE hi - n)
    BY <1>1 DEF LastLine, Turns
  <1>4. ~(Turns(hi, top, bottom) /\ hi - n < f) BY <1>1, <1>9 DEF Turns
  <1>5. f <= l /\ l <= e BY <1>2, <1>3, <1>4, <1>9 DEF Smaller, Larger, Turns
  <1>6. CASE l >= bottom \/ (l < top /\ top # 0)
    <2>1. lo <= l /\ l <= hi BY <1>2, <1>3, <1>5, <1>6 DEF Turns
    <2>2. l = UpBy(l, top, bottom, n) BY <1>6 DEF UpBy
    <2>3. QED BY <2>1, <2>2
  <1>7. CASE ~(l >= bottom \/ (l < top /\ top # 0)) /\ l < bottom - n
    <2>1. lo <= l + n /\ l + n <= hi BY <1>2, <1>3, <1>5, <1>7 DEF Turns
    <2>2. l = UpBy(l + n, top, bottom, n) BY <1>7 DEF UpBy
    <2>3. l + n \in lo..hi BY <2>1
    <2>4. QED BY <2>2, <2>3
  <1>8. QED BY <1>6, <1>7

(* And scrolling down. *)
LEMMA DownKeeps ==
  ASSUME NEW d \in Dims, NEW lo \in Int, NEW hi \in Int, lo <= hi,
         0 <= lo, hi < d.lines,
         NEW top \in Int, NEW bottom \in Int, 0 <= top, top < bottom, bottom <= d.lines,
         NEW n \in Int, 0 < n, n <= bottom - top,
         ~(/\ lo < bottom /\ bottom <= lo + n /\ hi < lo + n
           /\ (bottom <= hi \/ bottom = d.lines)),
         NEW l \in Int, Arrives(l, lo, hi, d, top, bottom, -n)
  PROVE  \/ top <= l /\ l <= top + n - 1
         \/ \E k \in lo..hi : l = DownBy(k, top, bottom, n)
  <1> DEFINE lines == d.lines
             f == FirstLine(lo, d, top, bottom, -n)
             e == LastLine(hi, d, top, bottom, -n)
  <1>0. lines \in Int BY DEF Dims
  <1>9. /\ Smaller(f, e) <= l /\ l <= Larger(f, e)
        /\ ~(Turns(hi, top, bottom) /\ Shifted(hi, d, -n) < f)
        /\ ~(Turns(lo, top, bottom) /\ Shifted(lo, d, -n) >= bottom /\ hi < bottom)
    BY Zenon DEF Arrives
  <1>1. \A k \in Int : Shifted(k, d, -n) = (IF k + n <= lines - 1 THEN k + n ELSE lines - 1)
    BY <1>0 DEF Shifted, Smaller
  <1> DEFINE a == IF lo + n <= lines - 1 THEN lo + n ELSE lines - 1
             b == IF hi + n <= lines - 1 THEN hi + n ELSE lines - 1
  <1>2. f = (IF ~Turns(lo, top, bottom) THEN lo ELSE IF a < top /\ top # 0 THEN top ELSE a)
    BY <1>1 DEF FirstLine
  <1>3. e = (IF ~Turns(hi, top, bottom) THEN hi ELSE IF b >= bottom THEN bottom - 1 ELSE b)
    BY <1>1 DEF LastLine
  <1>4. /\ ~(Turns(hi, top, bottom) /\ b < f)
        /\ ~(Turns(lo, top, bottom) /\ a >= bottom /\ hi < bottom)
    BY <1>1, <1>9
  <1>8. /\ Smaller(f, e) <= l /\ l <= Larger(f, e) /\ bottom <= lines /\ hi < lines
        /\ ~(/\ lo < bottom /\ bottom <= lo + n /\ hi < lo + n /\ (bottom <= hi \/ bottom = lines))
    BY <1>9
  <1> HIDE DEF f, e, lines
  <1>5. CASE l >= bottom \/ l < top
    <2>1. lo <= l /\ l <= hi BY <1>0, <1>2, <1>3, <1>4, <1>5, <1>8 DEF Turns, Smaller, Larger
    <2>2. l = DownBy(l, top, bottom, n) BY <1>5 DEF DownBy
    <2>3. QED BY <2>1, <2>2
  <1>6. CASE ~(l >= bottom \/ l < top) /\ l >= top + n
    <2>1. lo <= l - n /\ l - n <= hi
      BY <1>0, <1>2, <1>3, <1>4, <1>6, <1>8 DEF Turns, Smaller, Larger
    <2>2. l = DownBy(l - n, top, bottom, n) BY <1>6 DEF DownBy
    <2>3. l - n \in lo..hi BY <2>1
    <2>4. QED BY <2>2, <2>3
  <1>7. QED BY <1>5, <1>6

(* SelectionFollowsText always holds, for every height and width: when lines
   scroll, Selection::rotate selects no text that was not selected, but for the
   two cases down that the property excludes. *)
THEOREM SelectionFollowsTextHolds == Spec => []SelectionFollowsText
  <1>1. Placed(term) => SelectionFollowsText
    <2> SUFFICES ASSUME Placed(term), term.sel # NoSelection,
                        NEW top \in ScreenLines, NEW bottom \in (top + 1)..term.lines,
                        NEW n \in 1..(bottom - top)
                 PROVE  LET first == Smaller(term.sel.start.point.line, term.sel.end.point.line)
                            last  == Larger(term.sel.start.point.line, term.sel.end.point.line)
                            old   == LinesOf(term.sel)
                            up    == rotate(term.sel, dims(term), top, bottom, n)
                            down  == rotate(term.sel, dims(term), top, bottom, -n)
                        IN  /\ up # NoSelection =>
                                 LinesOf(up) \subseteq {UpBy(l, top, bottom, n) : l \in old}
                                                         \union (bottom - n)..(bottom - 1)
                            /\ old \subseteq ScreenLines
                               /\ ~(/\ first < bottom /\ bottom <= first + n /\ last < first + n
                                    /\ (bottom <= last \/ bottom = term.lines))
                               /\ down # NoSelection =>
                                 LinesOf(down) \subseteq {DownBy(l, top, bottom, n) : l \in old}
                                                           \union top..(top + n - 1)
      BY Zenon DEF SelectionFollowsText
    <2> DEFINE s    == term.sel
               d    == dims(term)
               lo   == Smaller(s.start.point.line, s.end.point.line)
               hi   == Larger(s.start.point.line, s.end.point.line)
    <2>1. s \in Selections /\ d \in Dims /\ d.lines = term.lines
      BY DimsType DEF Placed, TermType
    <2>2. /\ s.start.point.line \in Int /\ s.end.point.line \in Int
      BY <2>1 DEF Selections, Anchor
    <2>3. lo \in Int /\ hi \in Int /\ lo <= hi /\ LinesOf(s) = lo..hi
      BY <2>2 DEF LinesOf, Smaller, Larger
    <2>4. /\ top \in Int /\ bottom \in Int /\ n \in Int /\ -n \in Int /\ term.lines \in Int
          /\ 0 <= top /\ top < bottom /\ bottom <= term.lines /\ 0 < n /\ n <= bottom - top
      BY ViLines DEF ScreenLines
    <2>5. ASSUME NEW delta \in Int, rotate(s, d, top, bottom, delta) # NoSelection
          PROVE  LET r == rotate(s, d, top, bottom, delta)
                     f == FirstLine(lo, d, top, bottom, delta)
                     e == LastLine(hi, d, top, bottom, delta)
                 IN  /\ f \in Int /\ e \in Int /\ LinesOf(r) = Smaller(f, e)..Larger(f, e)
                     /\ ~(Turns(hi, top, bottom) /\ Shifted(hi, d, delta) < f)
                     /\ ~(Turns(lo, top, bottom) /\ Shifted(lo, d, delta) >= bottom /\ hi < bottom)
      <3> DEFINE r == rotate(s, d, top, bottom, delta)
                 f == FirstLine(lo, d, top, bottom, delta)
                 e == LastLine(hi, d, top, bottom, delta)
      <3>1. /\ r \in Selections
            /\ \/ r.start.point.line = f /\ r.end.point.line = e
               \/ r.start.point.line = e /\ r.end.point.line = f
            /\ ~(Turns(hi, top, bottom) /\ Shifted(hi, d, delta) < f)
            /\ ~(Turns(lo, top, bottom) /\ Shifted(lo, d, delta) >= bottom /\ hi < bottom)
        <4> HIDE DEF s, d
        <4>1. QED BY <2>1, <2>4, <2>5, RotateLines
      <3>2. f \in Int /\ e \in Int
        <4> HIDE DEF s, d, lo, hi
        <4>1. d.lines - 1 \in Int /\ lo - delta \in Int /\ hi - delta \in Int BY <2>1, <2>3, <2>4
        <4>2. QED BY <2>3, <2>4, <4>1 DEF FirstLine, LastLine, Shifted, Smaller
      <3> HIDE DEF r, f, e
      <3>3. LinesOf(r) = Smaller(f, e)..Larger(f, e)
        BY <3>1, <3>2 DEF LinesOf, Smaller, Larger
      <3>4. QED BY <3>1, <3>2, <3>3 DEF r, f, e
    <2> HIDE DEF lo, hi, s, d
    <2>6. ASSUME rotate(s, d, top, bottom, n) # NoSelection,
                 NEW l \in LinesOf(rotate(s, d, top, bottom, n))
          PROVE  l \in {UpBy(k, top, bottom, n) : k \in lo..hi} \union (bottom - n)..(bottom - 1)
      <3> DEFINE f == FirstLine(lo, d, top, bottom, n)
                 e == LastLine(hi, d, top, bottom, n)
      <3>1. /\ f \in Int /\ e \in Int /\ l \in Smaller(f, e)..Larger(f, e)
            /\ ~(Turns(hi, top, bottom) /\ Shifted(hi, d, n) < f)
        BY <2>4, <2>5, <2>6
      <3>2. l \in Int /\ Smaller(f, e) <= l /\ l <= Larger(f, e) BY <3>1 DEF Smaller, Larger
      <3>4. \/ bottom - n <= l /\ l <= bottom - 1
            \/ \E k \in lo..hi : l = UpBy(k, top, bottom, n)
        <4>1. Arrives(l, lo, hi, d, top, bottom, n)
          BY <2>4, <2>5, <2>6, <3>2 DEF Arrives
        <4>2. bottom <= d.lines BY <2>1, <2>4
        <4>3. QED BY <2>1, <2>3, <2>4, <3>2, <4>1, <4>2, UpKeeps
      <3>5. QED BY <2>4, <3>2, <3>4
    <2>7. ASSUME lo..hi \subseteq ScreenLines,
                 ~(/\ lo < bottom /\ bottom <= lo + n /\ hi < lo + n
                   /\ (bottom <= hi \/ bottom = term.lines)),
                 rotate(s, d, top, bottom, -n) # NoSelection,
                 NEW l \in LinesOf(rotate(s, d, top, bottom, -n))
          PROVE  l \in {DownBy(k, top, bottom, n) : k \in lo..hi} \union top..(top + n - 1)
      <3> DEFINE f == FirstLine(lo, d, top, bottom, -n)
                 e == LastLine(hi, d, top, bottom, -n)
      <3>1. /\ f \in Int /\ e \in Int /\ l \in Smaller(f, e)..Larger(f, e)
            /\ ~(Turns(hi, top, bottom) /\ Shifted(hi, d, -n) < f)
            /\ ~(Turns(lo, top, bottom) /\ Shifted(lo, d, -n) >= bottom /\ hi < bottom)
        BY <2>4, <2>5, <2>7
      <3>2. l \in Int /\ Smaller(f, e) <= l /\ l <= Larger(f, e) BY <3>1 DEF Smaller, Larger
      <3>4. 0 <= lo /\ hi < term.lines
        <4>1. lo \in ScreenLines /\ hi \in ScreenLines BY <2>3, <2>7
        <4>2. QED BY <2>3, <2>4, <4>1 DEF ScreenLines
      <3>5. \/ top <= l /\ l <= top + n - 1
            \/ \E k \in lo..hi : l = DownBy(k, top, bottom, n)
        <4>1. Arrives(l, lo, hi, d, top, bottom, -n)
          BY <2>4, <2>5, <2>7, <3>2 DEF Arrives
        <4>2. bottom <= d.lines /\ hi < d.lines /\ 0 <= lo BY <2>1, <2>4, <3>4
        <4>3. ~(/\ lo < bottom /\ bottom <= lo + n /\ hi < lo + n
                /\ (bottom <= hi \/ bottom = d.lines))
          BY <2>1, <2>7
        <4>4. QED BY <2>1, <2>3, <2>4, <3>2, <4>1, <4>2, <4>3, DownKeeps
      <3>6. QED BY <2>4, <3>2, <3>5
    <2>8. QED BY <2>3, <2>6, <2>7 DEF lo, hi, s, d
  <1>2. QED BY <1>1, PlacedInv, PTL
-------------------------------------------------------------------------------
(* Windows *)

(* The terminal of a window: on its primary screen, with the whole screen as its scrolling
   region, and with a view of lines that it has. *)
Lies(t) ==
  /\ Placed(t) /\ t.grid.offset <= t.grid.history
  /\ t.region = [start |-> 0, end |-> t.lines] /\ t.mode \subseteq {"VI"}

(* The vi mode cursor is in the view. *)
InView(t) == t.vi + t.grid.offset \in 0 .. t.lines - 1

(* Two terminals of one size. *)
Alike(t, u) ==
  /\ u.lines = t.lines /\ u.grid.history = t.grid.history /\ u.mode = t.mode

(* None is not a selection. *)
LEMMA NoneSelected == NoSelection \notin Selections
  BY SelectionAssumption DEF Selections, Anchor

(* Selection::include_all leaves no empty selection. *)
LEMMA NeverEmpty ==
  ASSUME NEW s \in Selections
  PROVE  ~is_empty(include_all(s)) /\ include_all(s) \in Selections
  <1> DEFINE p == s.start.point
             q == s.end.point
             back == IF s.ty = "Block" THEN p.column > q.column \/ (p.column = q.column /\ p.line > q.line)
                     ELSE Before(q, p)
             a == [point |-> p, side |-> IF back THEN "Right" ELSE "Left"]
             b == [point |-> q, side |-> IF back THEN "Left" ELSE "Right"]
             r == [ty |-> s.ty, start |-> a, end |-> b]
  <1>1. /\ p \in [line : Int, column : Int] /\ q \in [line : Int, column : Int]
        /\ s.start \in Anchor /\ s.end \in Anchor
    BY DEF Selections, Anchor
  <1>2. include_all(s) = r
    <2>1. s = [ty |-> s.ty, start |-> s.start, end |-> s.end] BY DEF Selections
    <2>2. s.start = [point |-> p, side |-> s.start.side] /\ s.end = [point |-> q, side |-> s.end.side]
      BY <1>1 DEF Anchor
    <2>3. include_all(s) = [s EXCEPT !.start.side = IF back THEN "Right" ELSE "Left",
                                     !.end.side = IF back THEN "Left" ELSE "Right"]
      BY Zenon DEF include_all
    <2> DEFINE left == IF back THEN "Right" ELSE "Left"
               right == IF back THEN "Left" ELSE "Right"
    <2> HIDE DEF p, q, back, left, right
    <2>4. include_all(s) = [s EXCEPT !.start.side = left, !.end.side = right] BY <2>3, Zenon DEF left, right
    <2>5. /\ [s.start EXCEPT !.side = left] = [point |-> p, side |-> left]
          /\ [s.end EXCEPT !.side = right] = [point |-> q, side |-> right]
      BY <2>2
    <2>6. include_all(s) = [ty |-> s.ty, start |-> [s.start EXCEPT !.side = left], end |-> [s.end EXCEPT !.side = right]]
      BY <2>1, <2>4
    <2>7. QED BY <2>5, <2>6 DEF left, right
  <1>3. r \in Selections BY <1>2, IncludeType
  <1>4. Swapped(r) <=> Before(q, p) BY DEF Swapped
  <1>5. CASE s.ty = "Block"
    <2>1. is_empty(r) =
            \/ p.column = q.column /\ a.side = b.side
            \/ p.column + 1 = q.column /\ a.side = "Right" /\ b.side = "Left"
            \/ q.column + 1 = p.column /\ b.side = "Right" /\ a.side = "Left"
      BY <1>5 DEF is_empty
    <2>2. p.column \in Int /\ q.column \in Int BY <1>1
    <2>3. back <=> p.column > q.column \/ (p.column = q.column /\ p.line > q.line) BY <1>5
    <2>4. a.side # b.side /\ (a.side = "Right" <=> back) /\ (b.side = "Right" <=> ~back) BY DEF a, b
    <2> HIDE DEF p, q, back, a, b
    <2>5. ~is_empty(r) BY <2>1, <2>2, <2>3, <2>4
    <2>6. QED BY <1>2, <1>3, <2>5
  <1>6. CASE s.ty = "Simple"
    <2>1. back <=> Before(q, p) BY <1>6
    <2>2. /\ Ordered(r).start = IF back THEN b ELSE a
          /\ Ordered(r).end = IF back THEN a ELSE b
      BY <1>4, <2>1 DEF Ordered
    <2>3. (IF back THEN b ELSE a).side = "Left" /\ (IF back THEN a ELSE b).side = "Right" OBVIOUS
    <2> HIDE DEF p, q, back, a, b
    <2>4. Ordered(r).start.side = "Left" /\ Ordered(r).end.side = "Right" BY <2>2, <2>3
    <2>5. is_empty(r) => Ordered(r).start = Ordered(r).end \/ Ordered(r).start.side = "Right"
      BY <1>6 DEF is_empty
    <2>6. ~is_empty(r) BY <2>4, <2>5
    <2>7. QED BY <1>2, <1>3, <2>6
  <1>7. CASE s.ty \notin {"Block", "Simple"}
    <2>1. ~is_empty(r) BY <1>7 DEF is_empty
    <2>2. QED BY <1>2, <1>3, <2>1
  <1>8. QED BY <1>5, <1>6, <1>7

(* What is known of a terminal, in numbers. *)
LEMMA Lying ==
  ASSUME NEW t, Lies(t)
  PROVE  /\ t.vi \in Int /\ t.lines \in Nat \ {0} /\ t.grid.history \in Nat /\ t.grid.offset \in Nat
         /\ t.grid.cursor \in 0 .. t.lines - 1 /\ t.grid.offset \in 0 .. t.grid.history
         /\ t.sel \in AnySelection
         /\ GridLines(dims(t)) = -t.grid.history .. t.lines - 1
         /\ InView(t) => t.vi \in GridLines(dims(t))
  <1>1. Placed(t) BY DEF Lies
  <1>2. /\ t.vi \in Int /\ t.lines \in Nat \ {0} /\ t.grid.history \in Nat /\ t.grid.offset \in Nat
        /\ t.grid.cursor \in Nat /\ t.grid.cursor < t.lines
    BY <1>1, ViLines
  <1>3. t.sel \in AnySelection BY <1>1 DEF Placed, TermType, AnySelection
  <1>4. GridLines(dims(t)) = -t.grid.history .. t.lines - 1
    BY DEF GridLines, topmost_line, bottommost_line, dims
  <1>5. t.grid.cursor \in 0 .. t.lines - 1 BY <1>2
  <1>6. t.grid.offset \in 0 .. t.grid.history
    <2>1. t.grid.offset <= t.grid.history BY DEF Lies
    <2>2. QED BY <1>2, <2>1
  <1>7. InView(t) => t.vi \in GridLines(dims(t))
    <2>1. InView(t) => t.vi + t.grid.offset \in 0 .. t.lines - 1 BY DEF InView
    <2>2. t.grid.offset <= t.grid.history BY DEF Lies
    <2>3. t.vi + t.grid.offset \in 0 .. t.lines - 1 => t.vi \in -t.grid.history .. t.lines - 1 BY <1>2, <2>2
    <2>4. QED BY <1>4, <2>1, <2>3
  <1>8. QED BY <1>2, <1>3, <1>4, <1>5, <1>6, <1>7

(* What a new selection, or that of vi mode, shows: it is never empty. *)
Recomputed(t, u) ==
  \/ u.sel = t.sel
  \/ /\ "VI" \in t.mode /\ t.sel # NoSelection /\ ~is_empty(t.sel)
     /\ u.sel \in Selections /\ u.sel # NoSelection /\ ~is_empty(u.sel)

(* Term::vi_mode_recompute_selection *)
LEMMA RecomputeLies ==
  ASSUME NEW t, Lies(t)
  PROVE  LET u == vi_mode_recompute_selection(t)
         IN  Lies(u) /\ Alike(t, u) /\ u.vi = t.vi /\ u.grid = t.grid /\ Recomputed(t, u)
  <1> DEFINE u == vi_mode_recompute_selection(t)
             p == Point(t.vi, 0)
             r == include_all(update(t.sel, p, "Left"))
  <1>1. Placed(t) BY DEF Lies
  <1>2. PICK s \in AnySelection : u = [t EXCEPT !.sel = s] BY <1>1, RecomputePlaced
  <1>3. Placed(u) BY <1>1, RecomputePlaced
  <1>4. /\ u.lines = t.lines /\ u.grid = t.grid /\ u.mode = t.mode /\ u.vi = t.vi /\ u.region = t.region
    BY <1>1, <1>2 DEF Placed, TermType
  <1>5. Recomputed(t, u)
    <2>1. CASE "VI" \in t.mode /\ t.sel # NoSelection /\ ~is_empty(t.sel)
      <3>1. p \in [line : Int, column : Int] BY Lying DEF Point
      <3>2. t.sel \in Selections BY <2>1, Lying DEF AnySelection
      <3>3. update(t.sel, p, "Left") \in Selections BY <3>1, <3>2, UpdateType
      <3>4. r \in Selections /\ ~is_empty(r) BY <3>3, NeverEmpty
      <3>5. r # NoSelection BY <3>4, NoneSelected
      <3>6. u = [t EXCEPT !.sel = r] BY <2>1 DEF vi_mode_recompute_selection
      <3> HIDE DEF r
      <3>7. u.sel = r BY <1>1, <3>6 DEF Placed, TermType
      <3>8. QED BY <2>1, <3>4, <3>5, <3>7 DEF Recomputed
    <2>2. CASE ~("VI" \in t.mode /\ t.sel # NoSelection /\ ~is_empty(t.sel))
      <3>1. u = t BY <2>2 DEF vi_mode_recompute_selection
      <3>2. QED BY <3>1 DEF Recomputed
    <2>3. QED BY <2>1, <2>2
  <1> HIDE DEF u
  <1>6. QED BY <1>3, <1>4, <1>5 DEF Lies, Alike, u

(* Another line of the vi mode cursor, another view. *)
LEMMA MovedLies ==
  ASSUME NEW t, Lies(t), NEW v \in Int
  PROVE  LET u == [t EXCEPT !.vi = v]
         IN  Lies(u) /\ Alike(t, u) /\ u.vi = v /\ u.grid = t.grid /\ u.sel = t.sel
  <1> DEFINE u == [t EXCEPT !.vi = v]
  <1>1. Placed(t) /\ Fits(t.grid, t.lines) BY DEF Lies, Placed
  <1>2. Placed(u) BY <1>1, Lying, ViewPlaced
  <1>3. /\ u.lines = t.lines /\ u.grid = t.grid /\ u.mode = t.mode /\ u.vi = v /\ u.region = t.region
        /\ u.sel = t.sel
    BY <1>1 DEF Placed, TermType
  <1> HIDE DEF u
  <1>4. QED BY <1>2, <1>3 DEF Lies, Alike, u

(* Another selection. *)
LEMMA SelectedLies ==
  ASSUME NEW t, Lies(t), NEW s \in AnySelection
  PROVE  LET u == [t EXCEPT !.sel = s]
         IN  Lies(u) /\ Alike(t, u) /\ u.vi = t.vi /\ u.grid = t.grid /\ u.sel = s
  <1> DEFINE u == [t EXCEPT !.sel = s]
  <1>1. Placed(t) /\ Fits(t.grid, t.lines) BY DEF Lies, Placed
  <1>2. Placed(u) BY <1>1, Lying, ViewPlaced
  <1>3. /\ u.lines = t.lines /\ u.grid = t.grid /\ u.mode = t.mode /\ u.vi = t.vi /\ u.region = t.region
        /\ u.sel = s
    BY <1>1 DEF Placed, TermType
  <1> HIDE DEF u
  <1>4. QED BY <1>2, <1>3 DEF Lies, Alike, u

(* Term::scroll_display: wherever the vi mode cursor was, it is in the view. *)
LEMMA ScrollLies ==
  ASSUME NEW t, Lies(t), NEW count \in Int
  PROVE  LET u == scroll_display(t, count)
         IN  /\ Lies(u) /\ InView(u) /\ Alike(t, u) /\ Recomputed(t, u)
             /\ u.grid.offset = Smaller(Larger(t.grid.offset + count, 0), t.grid.history)
  <1> DEFINE off == Smaller(Larger(t.grid.offset + count, 0), t.grid.history)
             v   == Smaller(bottommost_line(dims(t)) - off, Larger(-off, t.vi))
             g   == [t.grid EXCEPT !.offset = off]
             r   == [t EXCEPT !.grid = g, !.vi = v]
             u   == scroll_display(t, count)
  <1>1. /\ off \in Nat /\ off <= t.grid.history /\ v \in Int /\ v + off \in 0 .. t.lines - 1
    <2>1. /\ t.vi \in Int /\ t.lines \in Nat \ {0} /\ t.grid.history \in Nat /\ t.grid.offset \in Nat
      BY Lying
    <2>2. bottommost_line(dims(t)) = t.lines - 1 BY DEF bottommost_line, dims
    <2>3. QED BY <2>1, <2>2 DEF Smaller, Larger
  <1> HIDE DEF v
  <1>2. Placed(t) BY DEF Lies
  <1>3. u = vi_mode_recompute_selection(r)
    <2>1. [t EXCEPT !.grid.offset = off, !.vi = v] = r BY <1>2 DEF Placed, TermType
    <2>2. QED BY <2>1 DEF scroll_display, v
  <1> HIDE DEF off
  <1>4. /\ Fits(g, t.lines) /\ g.history = t.grid.history /\ g.offset = off
    BY <1>1, <1>2 DEF Placed, Fits, GridType
  <1> HIDE DEF g
  <1>5. Placed(r) BY <1>1, <1>2, <1>4, Lying, ViewPlaced
  <1>6. /\ r.grid = g /\ r.vi = v /\ r.lines = t.lines /\ r.mode = t.mode /\ r.sel = t.sel /\ r.region = t.region
    BY <1>2 DEF Placed, TermType
  <1> HIDE DEF r
  <1>7. Lies(r) BY <1>1, <1>4, <1>5, <1>6 DEF Lies
  <1>8. Lies(u) /\ Alike(r, u) /\ u.vi = v /\ u.grid = g /\ Recomputed(r, u) BY <1>3, <1>6, <1>7, RecomputeLies
  <1>9. InView(u) BY <1>1, <1>4, <1>6, <1>8 DEF InView, Alike
  <1>10. Alike(t, u) BY <1>4, <1>6, <1>8 DEF Alike
  <1>11. Recomputed(t, u) BY <1>6, <1>8 DEF Recomputed
  <1>12. QED BY <1>4, <1>8, <1>9, <1>10, <1>11 DEF off

(* Term::scroll_to_point: a line of the grid is in the view afterwards. *)
LEMMA ScrollToLies ==
  ASSUME NEW t, Lies(t), InView(t), NEW line \in Int
  PROVE  LET u == scroll_to_point(t, line)
         IN  /\ Lies(u) /\ InView(u) /\ Alike(t, u) /\ Recomputed(t, u)
             /\ line \in GridLines(dims(t)) => line + u.grid.offset \in 0 .. t.lines - 1
  <1> DEFINE u == scroll_to_point(t, line)
             up == -(line + t.grid.offset)
             down == -(line + t.grid.offset - t.lines + 1)
  <1>1. /\ t.grid.offset \in Nat /\ t.lines \in Nat \ {0} /\ t.grid.history \in Nat
        /\ t.grid.offset <= t.grid.history
        /\ GridLines(dims(t)) = -t.grid.history .. t.lines - 1
    BY Lying
  <1>2. up \in Int /\ down \in Int BY <1>1
  <1>3. CASE line < -t.grid.offset
    <2>1. u = scroll_display(t, up) BY <1>1, <1>3 DEF scroll_to_point
    <2>2. /\ Lies(u) /\ InView(u) /\ Alike(t, u) /\ Recomputed(t, u)
          /\ u.grid.offset = Smaller(Larger(t.grid.offset + up, 0), t.grid.history)
      BY <1>2, <2>1, ScrollLies
    <2> HIDE DEF u
    <2>3. line \in GridLines(dims(t)) => u.grid.offset = -line
      BY <1>1, <1>3, <2>2 DEF Smaller, Larger
    <2>4. QED BY <1>1, <2>2, <2>3 DEF u
  <1>4. CASE ~(line < -t.grid.offset) /\ line >= t.lines - t.grid.offset
    <2>1. u = scroll_display(t, down) BY <1>1, <1>4 DEF scroll_to_point
    <2>2. /\ Lies(u) /\ InView(u) /\ Alike(t, u) /\ Recomputed(t, u)
          /\ u.grid.offset = Smaller(Larger(t.grid.offset + down, 0), t.grid.history)
      BY <1>2, <2>1, ScrollLies
    <2> HIDE DEF u
    <2>3. line \in GridLines(dims(t)) => u.grid.offset = t.lines - 1 - line
      BY <1>1, <1>4, <2>2 DEF Smaller, Larger
    <2>4. QED BY <1>1, <2>2, <2>3 DEF u
  <1>5. CASE ~(line < -t.grid.offset) /\ ~(line >= t.lines - t.grid.offset)
    <2>1. u = t BY <1>5 DEF scroll_to_point
    <2>2. QED BY <1>1, <1>5, <2>1 DEF Alike, Recomputed
  <1>6. QED BY <1>3, <1>4, <1>5

(* Term::vi_goto_point and Term::vi_motion, to a line of the grid. *)
LEMMA GotoLies ==
  ASSUME NEW t, Lies(t), InView(t), NEW line \in GridLines(dims(t))
  PROVE  LET u == vi_goto_point(t, line)
             m == vi_motion(t, line)
         IN  /\ Lies(u) /\ InView(u) /\ Alike(t, u)
             /\ Lies(m) /\ InView(m) /\ Alike(t, m)
  <1> DEFINE p == scroll_to_point(t, line)
             r == [p EXCEPT !.vi = line]
             u == vi_mode_recompute_selection(r)
  <1>1. line \in Int BY Lying
  <1>2. Lies(p) /\ Alike(t, p) /\ line + p.grid.offset \in 0 .. t.lines - 1 BY <1>1, ScrollToLies
  <1> HIDE DEF p
  <1>3. Lies(r) /\ Alike(p, r) /\ r.vi = line /\ r.grid = p.grid BY <1>1, <1>2, MovedLies
  <1> HIDE DEF r
  <1>4. Lies(u) /\ Alike(r, u) /\ u.vi = line /\ u.grid = p.grid BY <1>3, RecomputeLies
  <1> HIDE DEF u
  <1>5. InView(u) /\ Alike(t, u) BY <1>2, <1>3, <1>4 DEF InView, Alike
  <1>6. vi_goto_point(t, line) = u BY DEF vi_goto_point, p, r, u
  <1>7. vi_motion(t, line) = IF "VI" \notin t.mode THEN t ELSE u BY DEF vi_motion, p, r, u
  <1>8. Alike(t, t) BY DEF Alike
  <1>9. QED BY <1>4, <1>5, <1>6, <1>7, <1>8

(* Term::toggle_vi_mode *)
LEMMA ToggleLies ==
  ASSUME NEW t, Lies(t), InView(t)
  PROVE  LET u == toggle_vi_mode(t)
         IN  /\ Lies(u) /\ InView(u) /\ u.lines = t.lines /\ u.grid = t.grid
             /\ ("VI" \in u.mode) = ("VI" \notin t.mode)
  <1> DEFINE v == IF t.grid.cursor > bottommost_line(dims(t)) - t.grid.offset THEN -t.grid.offset
                  ELSE t.grid.cursor
             u == toggle_vi_mode(t)
  <1>1. /\ t.lines \in Nat \ {0} /\ t.grid.offset \in Nat /\ t.grid.cursor \in 0 .. t.lines - 1 BY Lying
  <1>2. v \in Int /\ v + t.grid.offset \in 0 .. t.lines - 1
    BY <1>1 DEF bottommost_line, dims
  <1>3. Placed(t) BY DEF Lies
  <1>4. Placed(u) BY <1>3, ToggleGood DEF Good
  <1>5. CASE "VI" \in t.mode
    <2>1. u = [t EXCEPT !.mode = t.mode \ {"VI"}] BY <1>5 DEF toggle_vi_mode
    <2>2. /\ u.lines = t.lines /\ u.grid = t.grid /\ u.vi = t.vi /\ u.region = t.region
          /\ u.mode = t.mode \ {"VI"}
      BY <1>3, <2>1 DEF Placed, TermType
    <2> HIDE DEF u
    <2>3. QED BY <1>4, <1>5, <2>2 DEF Lies, InView, u
  <1>6. CASE "VI" \notin t.mode
    <2>1. u = [t EXCEPT !.mode = t.mode \union {"VI"}, !.vi = v] BY <1>6 DEF toggle_vi_mode
    <2> HIDE DEF v
    <2>2. /\ u.lines = t.lines /\ u.grid = t.grid /\ u.vi = v /\ u.region = t.region
          /\ u.mode = t.mode \union {"VI"}
      BY <1>3, <2>1 DEF Placed, TermType
    <2> HIDE DEF u
    <2>3. QED BY <1>2, <1>4, <1>6, <2>2 DEF Lies, InView, u
  <1>7. QED BY <1>5, <1>6

(* Handler::linefeed: text and view move together. *)
LEMMA LinefeedLies ==
  ASSUME NEW t, Lies(t), InView(t)
  PROVE  LET u == linefeed(t)
         IN  /\ Lies(u) /\ InView(u) /\ u.lines = t.lines /\ u.mode = t.mode
             /\ u.grid.history \in Nat /\ u.grid.history >= t.grid.history
  <1> DEFINE u == linefeed(t)
  <1>1. /\ t.vi \in Int /\ t.lines \in Nat \ {0} /\ t.grid.history \in Nat /\ t.grid.offset \in Nat
        /\ t.grid.cursor \in 0 .. t.lines - 1 /\ t.grid.offset <= t.grid.history
    BY Lying
  <1>2. Placed(t) /\ t.region.start = 0 /\ t.region.end = t.lines BY DEF Lies
  <1>3. Placed(u) /\ u.lines = t.lines BY <1>2, LinefeedGood DEF Good
  <1>4. CASE t.grid.cursor + 1 = t.lines
    <2> DEFINE g == GridScrollUp(t.grid, 0, t.lines, 1)
               top == -g.offset
               v == IF top <= t.vi /\ t.vi < t.lines THEN Larger(t.vi - 1, top) ELSE t.vi
               r == Rotated(t, 0, t.lines, 1)
    <2>1. u = scroll_up_relative(t, 0, 1) BY <1>2, <1>4 DEF linefeed
    <2>2. Smaller(1, t.lines - 0) = 1 BY <1>1 DEF Smaller
    <2>3. u = [t EXCEPT !.sel = r, !.grid = g, !.vi = v] BY <1>2, <2>1, <2>2 DEF scroll_up_relative
    <2>4. t.grid \in GridType /\ t.grid.limit \in Nat /\ t.grid.history <= t.grid.limit
      BY <1>2 DEF Placed, Fits, GridType
    <2>5. /\ g.offset = IF t.grid.offset # 0 THEN Smaller(t.grid.offset + 1, t.grid.limit) ELSE 0
          /\ g.history = Smaller(t.grid.history + 1, t.grid.limit)
      <3> DEFINE off == IF t.grid.offset # 0 THEN Smaller(t.grid.offset + 1, t.grid.limit) ELSE 0
                 his == Smaller(t.grid.history + 1, t.grid.limit)
      <3>1. g = [t.grid EXCEPT !.offset = off, !.history = his] BY DEF GridScrollUp
      <3> HIDE DEF off, his, g
      <3>2. g.offset = off /\ g.history = his BY <2>4, <3>1 DEF GridType
      <3>3. QED BY <3>2 DEF off, his
    <2> HIDE DEF g
    <2>6. /\ g.offset \in Nat /\ g.history \in Nat /\ g.offset <= g.history /\ g.history >= t.grid.history
          /\ v + g.offset \in 0 .. t.lines - 1
      <3>1. 0 <= t.vi + t.grid.offset /\ t.vi + t.grid.offset <= t.lines - 1 BY <1>1 DEF InView
      <3>2. /\ g.offset \in Nat /\ g.history \in Nat /\ g.offset <= g.history /\ g.history >= t.grid.history
            /\ \/ t.grid.offset = 0 /\ g.offset = 0
               \/ g.offset = t.grid.offset + 1
               \/ g.offset = t.grid.offset
        BY <1>1, <2>4, <2>5 DEF Smaller
      <3>3. v + g.offset \in 0 .. t.lines - 1 BY <1>1, <3>1, <3>2 DEF Larger
      <3>4. QED BY <3>2, <3>3
    <2> HIDE DEF v, r
    <2>7. u.grid = g /\ u.vi = v /\ u.mode = t.mode /\ u.region = t.region BY <1>2, <2>3 DEF Placed, TermType
    <2> HIDE DEF u
    <2>8. QED BY <1>3, <2>6, <2>7 DEF Lies, InView, u
  <1>5. CASE t.grid.cursor + 1 # t.lines
    <2> DEFINE c == t.grid.cursor + 1
    <2>1. u = [t EXCEPT !.grid.cursor = c] BY <1>1, <1>2, <1>5 DEF linefeed
    <2>2. t.grid \in GridType BY <1>2 DEF Placed, Fits
    <2> HIDE DEF c
    <2>3. u.grid = [t.grid EXCEPT !.cursor = c] /\ u.vi = t.vi /\ u.mode = t.mode /\ u.region = t.region
      BY <1>2, <2>1 DEF Placed, TermType
    <2>4. u.grid.offset = t.grid.offset /\ u.grid.history = t.grid.history BY <2>2, <2>3 DEF GridType
    <2> HIDE DEF u
    <2>5. QED BY <1>1, <1>3, <2>3, <2>4 DEF Lies, InView, u
  <1>6. QED BY <1>4, <1>5

(* Grid::resize keeps the view within the scrollback. *)
LEMMA ResizeView ==
  ASSUME NEW lines \in Nat \ {0}, NEW target \in Nat \ {0}, NEW g, Fits(g, lines), g.offset <= g.history
  PROVE  LET r == GridResize(g, lines, target) IN r.offset <= r.history
  <1> DEFINE r == GridResize(g, lines, target)
  <1>1. g \in GridType /\ g.history <= g.limit BY DEF Fits
  <1>2. g.history \in Nat /\ g.offset \in Nat /\ g.limit \in Nat /\ g.cursor \in Nat BY <1>1 DEF GridType
  <1>3. ASSUME NEW n \in Nat, NEW end \in Nat
        PROVE  LET u == GridScrollUp(g, 0, end, n)
               IN  u \in GridType /\ u.offset <= u.history
    <2>1. GridScrollUp(g, 0, end, n) =
            [g EXCEPT !.offset = IF g.offset # 0 THEN Smaller(g.offset + n, g.limit) ELSE 0,
                      !.history = Smaller(g.history + n, g.limit)]
      BY DEF GridScrollUp
    <2>2. /\ (IF g.offset # 0 THEN Smaller(g.offset + n, g.limit) ELSE 0) \in Nat
          /\ Smaller(g.history + n, g.limit) \in Nat
          /\ (IF g.offset # 0 THEN Smaller(g.offset + n, g.limit) ELSE 0) <= Smaller(g.history + n, g.limit)
      BY <1>1, <1>2 DEF Smaller
    <2>3. QED BY <1>1, <2>1, <2>2 DEF GridType
  <1>4. CASE lines < target
    <2> DEFINE added  == target - lines
               pulled == Smaller(g.history, added)
               up     == IF pulled # added THEN GridScrollUp(g, 0, target, added - pulled) ELSE g
               less   == Larger(up.history - added, 0)
               off    == Larger(up.offset - added, 0)
    <2>1. added \in Nat /\ pulled \in Nat /\ added - pulled \in Nat BY <1>2, <1>4 DEF Smaller
    <2>2. r = [up EXCEPT !.cursor = @ + pulled, !.history = less,
                         !.offset = IF up.history # 0 THEN Smaller(off, less) ELSE off]
      BY <1>4 DEF GridResize, GridGrow
    <2> HIDE DEF added, pulled
    <2>3. up \in GridType /\ up.offset <= up.history BY <1>1, <1>3, <2>1
    <2> HIDE DEF up
    <2>4. up.offset \in Nat /\ up.history \in Nat BY <2>3 DEF GridType
    <2>5. (IF up.history # 0 THEN Smaller(off, less) ELSE off) <= less
      BY <2>1, <2>3, <2>4 DEF Smaller, Larger
    <2>6. r.history = less /\ r.offset = IF up.history # 0 THEN Smaller(off, less) ELSE off
      BY <2>2, <2>3 DEF GridType
    <2>7. QED BY <2>5, <2>6
  <1>5. CASE lines > target
    <2> DEFINE needed == Larger(g.cursor + 1 - target, 0)
               up     == IF needed > 0 THEN GridScrollUp(g, 0, lines, needed) ELSE g
    <2>1. needed \in Nat BY <1>2 DEF Larger
    <2>2. r = [up EXCEPT !.cursor = Smaller(@, target - 1)] BY <1>5 DEF GridResize, GridShrink
    <2> HIDE DEF needed
    <2>3. up \in GridType /\ up.offset <= up.history BY <1>1, <1>3, <2>1
    <2> HIDE DEF up
    <2>4. QED BY <2>2, <2>3 DEF GridType
  <1>6. CASE lines = target BY <1>6 DEF GridResize
  <1>7. QED BY <1>4, <1>5, <1>6

(* Term::resize to another height. *)
LEMMA ResizeLies ==
  ASSUME NEW t, Lies(t), NEW lines \in Nat \ {0}, lines # t.lines
  PROVE  LET u == resize_lines(t, lines) IN Lies(u) /\ InView(u) /\ u.lines = lines /\ u.mode = t.mode
  <1> DEFINE u == resize_lines(t, lines)
             g == GridResize(t.grid, t.lines, lines)
             i == GridResize(t.inactive, t.lines, lines)
             least == Smaller(0, lines - t.grid.cursor - 1)
             delta == Smaller(Larger(lines - t.lines, least), t.grid.history)
             r == [t EXCEPT !.grid = g, !.lines = lines, !.inactive = i]
             top == -r.grid.offset
             v == Larger(Smaller(t.vi + delta, top + lines - 1), top)
             s == IF t.sel = NoSelection THEN r.sel
                  ELSE rotate(t.sel, dims(r), 0, Larger(lines, t.lines), -delta)
  <1>1. Placed(t) /\ t.lines \in Nat \ {0} /\ Fits(t.grid, t.lines) BY Lying DEF Lies, Placed
  <1>2. Placed(u) BY <1>1, ResizeLinesGood
  <1>3. g.offset <= g.history
    <2>1. t.grid.offset <= t.grid.history BY DEF Lies
    <2>2. QED BY <1>1, <2>1, ResizeView
  <1>4. u = [r EXCEPT !.vi = v, !.sel = s, !.region = [start |-> 0, end |-> lines]]
    BY Zenon DEF resize_lines
  <1>5. Fits(g, lines) BY <1>1, ResizeFits
  <1> HIDE DEF g, i
  <1>i. Fits(i, lines)
    <2>1. Fits(t.inactive, t.lines) BY <1>1 DEF Placed
    <2>2. QED BY <1>1, <2>1, ResizeFits DEF i
  <1>6. r \in TermType /\ r.grid = g /\ r.lines = lines /\ r.mode = t.mode
    BY <1>1, <1>5, <1>i DEF Placed, TermType, Fits
  <1>7. r.grid = g BY <1>6
  <1>8. g.offset \in Nat /\ delta \in Int /\ t.vi \in Int
    <2>1. g.offset \in Nat BY <1>5 DEF Fits, GridType
    <2>2. t.vi \in Int /\ t.grid.cursor \in Int /\ t.grid.history \in Int BY Lying
    <2>3. delta \in Int BY <1>1, <2>2 DEF Smaller, Larger
    <2>4. QED BY <2>1, <2>2, <2>3
  <1>9. v \in Int /\ v + g.offset \in 0 .. lines - 1
    <2> HIDE DEF delta, r
    <2>1. QED BY <1>7, <1>8 DEF Smaller, Larger
  <1> HIDE DEF v, s, r
  <1>10. u.grid = g /\ u.lines = lines /\ u.vi = v /\ u.mode = t.mode /\ u.region = [start |-> 0, end |-> lines]
    BY <1>4, <1>6 DEF TermType
  <1> HIDE DEF u
  <1>11. QED BY <1>2, <1>3, <1>9, <1>10 DEF Lies, InView, u

-------------------------------------------------------------------------------
(* The window. *)
Timers == {"BlinkCursor", "BlinkTimeout", "DelayedSearch"}
HintActions == {"none", "Command", "Copy", "Paste", "Select", "MoveViModeCursor"}
WindowType ==
  [t : TermType, height : Nat \ {0}, blinking : BOOLEAN,
   history : Seq(Nat), index : Int, dfas : BOOLEAN, focused : Int, origin : Int, delta : Int,
   direction : {"Left", "Right"}, charPending : BOOLEAN, character : BOOLEAN, hint : HintActions,
   preedit : BOOLEAN, isFocused : BOOLEAN, hidden : BOOLEAN, timedOut : BOOLEAN, timers : SUBSET Timers,
   queue : Seq(Timers), ime : SUBSET {"FOCUS", "VI"}, dirty : BOOLEAN, pending : BOOLEAN, written : BOOLEAN]

(* The line of a match, or none. *)
Matches(t) == GridLines(dims(t)) \union {NoMatch}
Blinks(x) == x.timedOut => ~x.hidden /\ "BlinkCursor" \notin x.timers

(* What every handler keeps true of a window. *)
Fine(x) ==
  /\ x \in WindowType /\ Lies(x.t) /\ InView(x.t)
  /\ x.index \in -1 .. Len(x.history) - 1 /\ Len(x.history) <= MaxSearchHistory
  /\ x.focused \in Matches(x.t) /\ Blinks(x)

Shown(t) == IF t.sel = NoSelection \/ is_empty(t.sel) THEN NoSelection ELSE t.sel

(* Two windows with one set of modes that look the same. *)
Looks(x, y) ==
  /\ "VI" \in x.t.mode => y.t.vi = x.t.vi
  /\ y.t.grid.offset = x.t.grid.offset /\ Shown(y.t) = Shown(x.t)
  /\ y.hidden = x.hidden /\ y.focused = x.focused /\ y.dfas = x.dfas

(* What is not changed by handlers that neither begin nor end anything. *)
Frame(x, y) ==
  /\ y.history = x.history /\ y.index = x.index /\ y.charPending = x.charPending /\ y.ime = x.ime
  /\ y.hint = x.hint /\ y.preedit = x.preedit /\ y.pending = x.pending

(* What such handlers guarantee, y being what they make of x; and that they have it drawn. *)
Tame(x, y) == Fine(y) /\ Alike(x.t, y.t) /\ Frame(x, y) /\ (x.dirty => y.dirty)
Calm(x, y) == Tame(x, y) /\ (y.dirty \/ Looks(x, y))

(* One such handler after another. *)
LEMMA TameTwice ==
  ASSUME NEW x, NEW y, NEW z, Tame(x, y), Tame(y, z)
  PROVE  Tame(x, z)
  BY DEF Tame, Alike, Frame

LEMMA CalmTwice ==
  ASSUME NEW x, NEW y, NEW z, Calm(x, y), Calm(y, z)
  PROVE  Calm(x, z)
  <1>1. Tame(x, z) /\ y.t.mode = x.t.mode BY TameTwice DEF Calm, Tame, Alike
  <1>2. z.dirty \/ Looks(x, z) BY <1>1 DEF Calm, Tame, Looks
  <1>3. QED BY <1>1, <1>2 DEF Calm

LEMMA CalmSelf ==
  ASSUME NEW x, Fine(x)
  PROVE  Calm(x, x)
  BY DEF Calm, Tame, Frame, Alike, Looks

(* What a handler has to show. *)
LEMMA Tames ==
  ASSUME NEW x, Fine(x), NEW y, y \in WindowType, Frame(x, y), Lies(y.t), InView(y.t), Alike(x.t, y.t),
         y.focused \in Matches(x.t), Blinks(y), x.dirty => y.dirty
  PROVE  Tame(x, y)
  <1>1. Matches(y.t) = Matches(x.t) BY DEF Alike, Matches, GridLines, dims, topmost_line, bottommost_line
  <1>2. Fine(y) BY <1>1 DEF Fine, Frame
  <1>3. QED BY <1>2 DEF Tame

(* What is known of a window. *)
LEMMA Fining ==
  ASSUME NEW x, Fine(x)
  PROVE  /\ x \in WindowType /\ x.t \in TermType /\ Lies(x.t) /\ InView(x.t) /\ x.focused \in Matches(x.t)
         /\ x.delta \in Int /\ x.origin \in Int /\ x.dirty \in BOOLEAN /\ x.timers \subseteq Timers
         /\ Matches(x.t) \subseteq Int /\ NoMatch \in Matches(x.t)
         /\ x.t.vi \in Int /\ x.t.grid.offset \in Nat /\ x.t.lines \in Nat \ {0} /\ x.t.grid.history \in Nat
         /\ x.t.sel \in AnySelection
  <1>1. x \in WindowType /\ Lies(x.t) /\ InView(x.t) /\ x.focused \in Matches(x.t) BY DEF Fine
  <1>2. x.delta \in Int /\ x.origin \in Int /\ x.dirty \in BOOLEAN /\ x.timers \subseteq Timers /\ x.t \in TermType
    BY <1>1 DEF WindowType
  <1>3. /\ x.t.vi \in Int /\ x.t.grid.offset \in Nat /\ x.t.lines \in Nat \ {0} /\ x.t.grid.history \in Nat
        /\ x.t.sel \in AnySelection /\ GridLines(dims(x.t)) = -x.t.grid.history .. x.t.lines - 1
    BY <1>1, Lying
  <1>4. Matches(x.t) \subseteq Int /\ NoMatch \in Matches(x.t) BY <1>3 DEF Matches, NoMatch
  <1>5. QED BY <1>1, <1>2, <1>3, <1>4

(* mark_dirty *)
LEMMA DirtyTame ==
  ASSUME NEW x, Fine(x)
  PROVE  Calm(x, mark_dirty(x)) /\ mark_dirty(x).dirty /\ mark_dirty(x).t = x.t
  <1> DEFINE y == mark_dirty(x)
  <1>1. y = [x EXCEPT !.dirty = TRUE] BY DEF mark_dirty
  <1>x. x \in WindowType BY DEF Fine
  <1>2. y \in WindowType BY <1>1, <1>x DEF WindowType
  <1>f. Frame(x, y) BY <1>1, <1>x DEF WindowType, Frame
  <1>3. /\ y.t = x.t /\ y.focused = x.focused /\ y.timedOut = x.timedOut /\ y.hidden = x.hidden
        /\ y.timers = x.timers /\ y.dirty
    BY <1>1, <1>x DEF WindowType
  <1> HIDE DEF y
  <1>4. Tame(x, y) BY <1>2, <1>f, <1>3, Tames DEF Fine, Alike, Blinks
  <1>5. QED BY <1>3, <1>4 DEF Calm, y

(* A tame handler whose window is marked dirty is calm. *)
LEMMA DirtyCalm ==
  ASSUME NEW x, NEW z, Tame(x, z)
  PROVE  Calm(x, mark_dirty(z)) /\ mark_dirty(z).dirty /\ mark_dirty(z).t = z.t
  <1>1. Tame(z, mark_dirty(z)) /\ mark_dirty(z).dirty /\ mark_dirty(z).t = z.t BY DirtyTame DEF Tame, Calm
  <1>2. Tame(x, mark_dirty(z)) BY <1>1, TameTwice
  <1>3. QED BY <1>1, <1>2 DEF Calm

(* ActionContext::clear_selection *)
LEMMA ClearCalm ==
  ASSUME NEW x, Fine(x)
  PROVE  LET y == clear_selection(x) IN Calm(x, y) /\ y.t.sel = NoSelection /\ y.t.grid = x.t.grid /\ y.t.vi = x.t.vi
  <1> DEFINE y == clear_selection(x)
             u == [x.t EXCEPT !.sel = NoSelection]
             b == x.dirty \/ (x.t.sel # NoSelection /\ ~is_empty(x.t.sel))
  <1>1. Lies(u) /\ Alike(x.t, u) /\ u.vi = x.t.vi /\ u.grid = x.t.grid /\ u.sel = NoSelection
    BY Fining, SelectedLies DEF AnySelection
  <1>2. InView(u) /\ u \in TermType BY <1>1, Fining DEF InView, Alike, Lies, Placed
  <1>3. b \/ Shown(u) = Shown(x.t) BY <1>1 DEF Shown
  <1>4. y = [x EXCEPT !.t = u, !.dirty = b] BY DEF clear_selection
  <1>5. b \in BOOLEAN /\ (x.dirty => b) OBVIOUS
  <1>6. x \in WindowType BY DEF Fine
  <1> HIDE DEF u, b, y
  <1>7. y \in WindowType BY <1>2, <1>4, <1>5, <1>6 DEF WindowType
  <1>8. Frame(x, y) BY <1>4, <1>6 DEF WindowType, Frame
  <1>9. /\ y.t = u /\ y.focused = x.focused /\ y.timedOut = x.timedOut /\ y.hidden = x.hidden
        /\ y.timers = x.timers /\ y.dirty = b /\ y.dfas = x.dfas
    BY <1>4, <1>6 DEF WindowType
  <1>10. Blinks(y) BY <1>9 DEF Fine, Blinks
  <1>11. Tame(x, y) BY <1>1, <1>2, <1>5, <1>7, <1>8, <1>9, <1>10, Fining, Tames
  <1>12. y.dirty \/ Looks(x, y) BY <1>1, <1>3, <1>9 DEF Looks
  <1>13. QED BY <1>1, <1>9, <1>11, <1>12 DEF Calm, y

(* ActionContext::start_selection *)
LEMMA StartCalm ==
  ASSUME NEW x, Fine(x), NEW ty \in {"Simple", "Lines", "Block", "Semantic"}, NEW line \in Int
  PROVE  LET y == start_selection(x, ty, line)
         IN  Calm(x, y) /\ y.t.grid = x.t.grid /\ y.t.sel \in Selections
  <1> DEFINE y == start_selection(x, ty, line)
             s == new_selection(ty, Point(line, 0), "Left")
             u == [x.t EXCEPT !.sel = s]
  <1>1. s \in Selections BY DEF new_selection, Selections, Anchor, Point
  <1>2. y = [x EXCEPT !.t = u, !.dirty = TRUE] BY DEF start_selection
  <1> HIDE DEF s
  <1>3. Lies(u) /\ Alike(x.t, u) /\ u.vi = x.t.vi /\ u.grid = x.t.grid /\ u.sel = s
    BY <1>1, Fining, SelectedLies DEF AnySelection
  <1>4. InView(u) /\ u \in TermType BY <1>3, Fining DEF InView, Alike, Lies, Placed
  <1>5. x \in WindowType BY DEF Fine
  <1> HIDE DEF u, y
  <1>6. y \in WindowType BY <1>2, <1>4, <1>5 DEF WindowType
  <1>7. Frame(x, y) BY <1>2, <1>5 DEF WindowType, Frame
  <1>8. /\ y.t = u /\ y.focused = x.focused /\ y.timedOut = x.timedOut /\ y.hidden = x.hidden
        /\ y.timers = x.timers /\ y.dirty
    BY <1>2, <1>5 DEF WindowType
  <1>9. Blinks(y) BY <1>8 DEF Fine, Blinks
  <1>10. Tame(x, y) BY <1>3, <1>4, <1>6, <1>7, <1>8, <1>9, Fining, Tames
  <1>11. QED BY <1>1, <1>3, <1>8, <1>10 DEF Calm, y

(* A view, a selection and a match that are drawn. *)
LEMMA DrawnCalm ==
  ASSUME NEW x, Fine(x), NEW u, Lies(u), InView(u), Alike(x.t, u), NEW d \in Int, NEW f \in Matches(x.t),
         NEW y, y = [x EXCEPT !.t = u, !.delta = d, !.focused = f, !.dirty = TRUE]
  PROVE  Calm(x, y) /\ y.t = u /\ y.dirty
  <1>1. x \in WindowType /\ u \in TermType /\ f \in Int BY Fining DEF Lies, Placed
  <1>2. y \in WindowType BY <1>1 DEF WindowType
  <1>3. Frame(x, y) BY <1>1 DEF WindowType, Frame
  <1>4. /\ y.t = u /\ y.focused = f /\ y.timedOut = x.timedOut /\ y.hidden = x.hidden
        /\ y.timers = x.timers /\ y.dirty
    BY <1>1 DEF WindowType
  <1>5. Blinks(y) BY <1>4 DEF Fine, Blinks
  <1>6. Tame(x, y) BY <1>2, <1>3, <1>4, <1>5, Tames
  <1>7. QED BY <1>4, <1>6 DEF Calm

LEMMA ShownCalm ==
  ASSUME NEW x, Fine(x), NEW u, Lies(u), InView(u), Alike(x.t, u), NEW y, y = [x EXCEPT !.t = u, !.dirty = TRUE]
  PROVE  Calm(x, y) /\ y.t = u /\ y.dirty
  <1>1. x \in WindowType /\ u \in TermType BY Fining DEF Lies, Placed
  <1>2. y \in WindowType BY <1>1 DEF WindowType
  <1>3. Frame(x, y) BY <1>1 DEF WindowType, Frame
  <1>4. /\ y.t = u /\ y.focused = x.focused /\ y.timedOut = x.timedOut /\ y.hidden = x.hidden
        /\ y.timers = x.timers /\ y.dirty
    BY <1>1 DEF WindowType
  <1>5. Blinks(y) BY <1>4 DEF Fine, Blinks
  <1>6. Tame(x, y) BY <1>2, <1>3, <1>4, <1>5, Fining, Tames
  <1>7. QED BY <1>4, <1>6 DEF Calm

(* ActionContext::update_selection: in vi mode to a line of the view. *)
LEMMA UpdateCalm ==
  ASSUME NEW x, Fine(x), NEW line \in Int, NEW side \in {"Left", "Right"},
         ViMode(x) => line + x.t.grid.offset \in 0 .. x.t.lines - 1
  PROVE  LET y == update_selection(x, line, side)
         IN  Calm(x, y) /\ (x.t.sel # NoSelection => y.dirty) /\ y.t.grid = x.t.grid
  <1> DEFINE y == update_selection(x, line, side)
             s == update(x.t.sel, Point(line, 0), side)
             a == include_all(s)
  <1>1. CASE x.t.sel = NoSelection
    <2>1. y = x BY <1>1 DEF update_selection
    <2>2. QED BY <1>1, <2>1, CalmSelf
  <1>2. CASE x.t.sel # NoSelection
    <2>1. x.t.sel \in Selections BY <1>2, Fining DEF AnySelection
    <2>2. Point(line, 0) \in [line : Int, column : Int] BY DEF Point
    <2>3. s \in Selections BY <2>1, <2>2, UpdateType
    <2> HIDE DEF s
    <2>4. a \in Selections BY <2>3, NeverEmpty
    <2> HIDE DEF a
    <2> DEFINE p == [x.t EXCEPT !.sel = s]
               v == [x.t EXCEPT !.sel = a]
               u == [v EXCEPT !.vi = line]
    <2>5. /\ Lies(p) /\ Alike(x.t, p) /\ p.vi = x.t.vi /\ p.grid = x.t.grid
          /\ Lies(v) /\ Alike(x.t, v) /\ v.grid = x.t.grid
      BY <2>3, <2>4, Fining, SelectedLies DEF AnySelection
    <2>6. InView(p) BY <2>5, Fining DEF InView, Alike
    <2>7. CASE ViMode(x) /\ ~search_active(x)
      <3>1. Lies(u) /\ Alike(v, u) /\ u.vi = line /\ u.grid = v.grid
        <4> HIDE DEF v
        <4>1. QED BY <2>5, MovedLies
      <3>2. y = [x EXCEPT !.t = u, !.dirty = TRUE]
        <4>1. y = [x EXCEPT !.t.sel = a, !.t.vi = line, !.dirty = TRUE] BY <1>2, <2>7 DEF update_selection, s, a
        <4>2. x \in WindowType BY DEF Fine
        <4>3. [x EXCEPT !.t.sel = a, !.t.vi = line, !.dirty = TRUE] = [x EXCEPT !.t = u, !.dirty = TRUE]
          BY <4>2 DEF WindowType
        <4>4. QED BY <4>1, <4>3
      <3> HIDE DEF v, u
      <3>3. InView(u) /\ Alike(x.t, u) BY <2>5, <2>7, <3>1 DEF InView, Alike
      <3> HIDE DEF y
      <3>4. Calm(x, y) /\ y.dirty BY <3>1, <3>2, <3>3, ShownCalm
      <3>5. y.t = u BY <3>2, Fining DEF WindowType
      <3>6. QED BY <2>5, <3>1, <3>4, <3>5 DEF y
    <2>8. CASE ~(ViMode(x) /\ ~search_active(x))
      <3>1. y = [x EXCEPT !.t = p, !.dirty = TRUE] BY <1>2, <2>8 DEF update_selection, s
      <3> HIDE DEF p, y
      <3>2. Calm(x, y) /\ y.dirty BY <2>5, <2>6, <3>1, ShownCalm
      <3>3. y.t = p BY <3>1, Fining DEF WindowType
      <3>4. QED BY <2>5, <3>2, <3>3 DEF y
    <2>9. QED BY <2>7, <2>8
  <1>3. QED BY <1>1, <1>2

(* ActionContext::toggle_selection *)
LEMMA ToggleCalm ==
  ASSUME NEW x, Fine(x), NEW ty \in {"Simple", "Lines", "Block", "Semantic"}
  PROVE  LET y == toggle_selection(x, ty) IN Calm(x, y) /\ (y.t.sel # NoSelection => y.dirty)
  <1> DEFINE y == toggle_selection(x, ty)
  <1>1. CASE x.t.sel # NoSelection /\ ~is_empty(x.t.sel) /\ x.t.sel.ty = ty
    <2>1. y = clear_selection(x) BY <1>1 DEF toggle_selection
    <2>2. QED BY <2>1, ClearCalm
  <1>2. CASE x.t.sel # NoSelection /\ ~is_empty(x.t.sel) /\ x.t.sel.ty # ty
    <2> DEFINE s == [x.t.sel EXCEPT !.ty = ty]
               u == [x.t EXCEPT !.sel = s]
    <2>1. y = mark_dirty([x EXCEPT !.t.sel.ty = ty]) BY <1>2 DEF toggle_selection
    <2>2. y = [x EXCEPT !.t = u, !.dirty = TRUE] BY <2>1 DEF mark_dirty
    <2>3. x.t.sel \in Selections BY <1>2, Fining DEF AnySelection
    <2>4. s \in Selections BY <2>3 DEF Selections
    <2> HIDE DEF s
    <2>5. Lies(u) /\ Alike(x.t, u) /\ u.vi = x.t.vi /\ u.grid = x.t.grid BY <2>4, Fining, SelectedLies DEF AnySelection
    <2>6. InView(u) BY <2>5, Fining DEF InView, Alike
    <2> HIDE DEF u, y
    <2>7. Calm(x, y) /\ y.dirty BY <2>2, <2>5, <2>6, ShownCalm
    <2>8. QED BY <2>7 DEF y
  <1>3. CASE x.t.sel = NoSelection \/ is_empty(x.t.sel)
    <2>1. y = start_selection(x, ty, x.t.vi) BY <1>3 DEF toggle_selection
    <2>2. Calm(x, y) BY <2>1, Fining, StartCalm
    <2>3. y.dirty
      <3>1. x \in WindowType BY DEF Fine
      <3>2. QED BY <2>1, <3>1 DEF start_selection, WindowType
    <2>4. QED BY <2>2, <2>3
  <1>4. QED BY <1>1, <1>2, <1>3

(* ActionContext::update_cursor_blinking *)
LEMMA BlinkingCalm ==
  ASSUME NEW x, Fine(x)
  PROVE  LET y == update_cursor_blinking(x) IN Calm(x, y) /\ y.t = x.t
  <1> DEFINE y == update_cursor_blinking(x)
             none == x.timers \ {"BlinkCursor", "BlinkTimeout"}
             both == none \union {"BlinkCursor", "BlinkTimeout"}
  <1>1. x \in WindowType /\ none \in SUBSET Timers /\ both \in SUBSET Timers BY Fining DEF Timers
  <1>2. CASE x.blinking /\ ~x.preedit /\ x.isFocused
    <2>1. y = [x EXCEPT !.timers = both, !.timedOut = FALSE] BY <1>1, <1>2 DEF update_cursor_blinking, WindowType
    <2> HIDE DEF both, y
    <2>2. y \in WindowType BY <1>1, <2>1 DEF WindowType
    <2>3. Frame(x, y) BY <1>1, <2>1 DEF WindowType, Frame
    <2>4. /\ y.t = x.t /\ y.focused = x.focused /\ ~y.timedOut /\ y.hidden = x.hidden /\ y.dirty = x.dirty
          /\ y.dfas = x.dfas
      BY <1>1, <2>1 DEF WindowType
    <2>5. Tame(x, y) BY <2>2, <2>3, <2>4, Fining, Tames DEF Blinks, Alike
    <2>6. Looks(x, y) BY <2>4 DEF Looks
    <2>7. QED BY <2>4, <2>5, <2>6 DEF Calm, y
  <1>3. CASE ~(x.blinking /\ ~x.preedit /\ x.isFocused)
    <2>1. y = [x EXCEPT !.timers = none, !.timedOut = FALSE, !.hidden = FALSE, !.dirty = TRUE]
      BY <1>1, <1>3 DEF update_cursor_blinking, WindowType
    <2> HIDE DEF none, y
    <2>2. y \in WindowType BY <1>1, <2>1 DEF WindowType
    <2>3. Frame(x, y) BY <1>1, <2>1 DEF WindowType, Frame
    <2>4. /\ y.t = x.t /\ y.focused = x.focused /\ ~y.timedOut /\ y.dirty
      BY <1>1, <2>1 DEF WindowType
    <2>5. Tame(x, y) BY <2>2, <2>3, <2>4, Fining, Tames DEF Blinks, Alike
    <2>6. QED BY <2>4, <2>5 DEF Calm, y
  <1>4. QED BY <1>2, <1>3

(* ActionContext::on_typing_start *)
LEMMA TypingCalm ==
  ASSUME NEW x, Fine(x)
  PROVE  LET y == on_typing_start(x) IN Calm(x, y) /\ y.t = x.t
  <1> DEFINE y == on_typing_start(x)
             b == x.dirty \/ x.hidden
  <1>1. CASE "BlinkCursor" \in x.timers
    <2>1. y = [x EXCEPT !.hidden = FALSE, !.dirty = b] BY <1>1 DEF on_typing_start
    <2>2. x \in WindowType /\ b \in BOOLEAN /\ x.hidden \in BOOLEAN BY DEF Fine, WindowType
    <2>b. (x.dirty => b) /\ (b \/ ~x.hidden) OBVIOUS
    <2> HIDE DEF b, y
    <2>3. y \in WindowType BY <2>1, <2>2 DEF WindowType
    <2>4. Frame(x, y) BY <2>1, <2>2 DEF WindowType, Frame
    <2>5. /\ y.t = x.t /\ y.focused = x.focused /\ ~y.hidden /\ y.dirty = b /\ y.timers = x.timers
          /\ y.timedOut = x.timedOut /\ y.hidden = FALSE /\ y.dfas = x.dfas
      BY <2>1, <2>2 DEF WindowType
    <2>6. Blinks(y) BY <2>5 DEF Fine, Blinks
    <2>7. Tame(x, y) BY <2>b, <2>3, <2>4, <2>5, <2>6, Fining, Tames DEF Alike
    <2>8. y.dirty \/ Looks(x, y)
      <3>1. CASE x.hidden BY <2>b, <2>5, <3>1
      <3>2. CASE ~x.hidden
        <4>1. x.hidden = FALSE BY <2>2, <3>2
        <4>2. QED BY <2>5, <4>1 DEF Looks
      <3>3. QED BY <3>1, <3>2
    <2>9. QED BY <2>5, <2>7, <2>8 DEF Calm, y
  <1>2. CASE "BlinkCursor" \notin x.timers /\ x.timedOut
    <2>1. y = update_cursor_blinking(x) BY <1>2 DEF on_typing_start
    <2>2. QED BY <2>1, BlinkingCalm
  <1>3. CASE "BlinkCursor" \notin x.timers /\ ~x.timedOut
    <2>1. y = x BY <1>3 DEF on_typing_start
    <2>2. QED BY <2>1, CalmSelf
  <1>4. QED BY <1>1, <1>2, <1>3

(* The events BlinkCursor and BlinkCursorTimeout *)
LEMMA BlinkCalm ==
  ASSUME NEW x, Fine(x)
  PROVE  Calm(x, BlinkCursor(x)) /\ Calm(x, BlinkCursorTimeout(x))
  <1>1. x \in WindowType /\ x.timers \in SUBSET Timers /\ x.hidden \in BOOLEAN BY Fining DEF WindowType
  <1>2. Calm(x, BlinkCursor(x))
    <2> DEFINE y == BlinkCursor(x)
    <2>1. CASE x.timedOut
      <3>1. y = x BY <2>1 DEF BlinkCursor
      <3>2. QED BY <3>1, CalmSelf
    <2>2. CASE ~x.timedOut
      <3> DEFINE h == ~x.hidden
      <3>1. y = [x EXCEPT !.hidden = h, !.dirty = TRUE] BY <2>2 DEF BlinkCursor
      <3>h. h \in BOOLEAN OBVIOUS
      <3> HIDE DEF h, y
      <3>2. y \in WindowType BY <1>1, <3>1, <3>h DEF WindowType
      <3>3. Frame(x, y) BY <1>1, <3>1 DEF WindowType, Frame
      <3>4. y.t = x.t /\ y.focused = x.focused /\ y.dirty /\ y.timedOut = x.timedOut BY <1>1, <3>1 DEF WindowType
      <3>5. Tame(x, y) BY <2>2, <3>2, <3>3, <3>4, Fining, Tames DEF Alike, Blinks
      <3>6. QED BY <3>4, <3>5 DEF Calm, y
    <2>3. QED BY <2>1, <2>2
  <1>3. Calm(x, BlinkCursorTimeout(x))
    <2> DEFINE y == BlinkCursorTimeout(x)
               s == x.timers \ {"BlinkCursor"}
    <2>1. y = [x EXCEPT !.timers = s, !.timedOut = TRUE, !.hidden = FALSE, !.dirty = TRUE]
      BY <1>1 DEF BlinkCursorTimeout, Unschedule, WindowType
    <2>s. s \in SUBSET Timers /\ "BlinkCursor" \notin s BY <1>1
    <2> HIDE DEF s, y
    <2>2. y \in WindowType BY <1>1, <2>1, <2>s DEF WindowType
    <2>3. Frame(x, y) BY <1>1, <2>1 DEF WindowType, Frame
    <2>4. y.t = x.t /\ y.focused = x.focused /\ y.dirty /\ ~y.hidden /\ y.timers = s BY <1>1, <2>1 DEF WindowType
    <2>5. Tame(x, y) BY <2>s, <2>2, <2>3, <2>4, Fining, Tames DEF Alike, Blinks
    <2>6. QED BY <2>4, <2>5 DEF Calm, y
  <1>4. QED BY <1>2, <1>3

(* A window whose vi mode cursor may be out of the view. *)
Loose(x) ==
  /\ x \in WindowType /\ Lies(x.t)
  /\ x.index \in -1 .. Len(x.history) - 1 /\ Len(x.history) <= MaxSearchHistory
  /\ x.focused \in Matches(x.t) /\ Blinks(x)

LEMMA LooseTames ==
  ASSUME NEW x, Loose(x), NEW y, y \in WindowType, Frame(x, y), Lies(y.t), InView(y.t), Alike(x.t, y.t),
         y.focused \in Matches(x.t), Blinks(y), x.dirty => y.dirty
  PROVE  Tame(x, y)
  <1>1. Matches(y.t) = Matches(x.t) BY DEF Alike, Matches, GridLines, dims, topmost_line, bottommost_line
  <1>2. Fine(y) BY <1>1 DEF Fine, Frame, Loose
  <1>3. QED BY <1>2 DEF Tame

LEMMA LooksTwice ==
  ASSUME NEW x, NEW y, NEW z, Looks(x, y), Looks(y, z), y.t.mode = x.t.mode
  PROVE  Looks(x, z)
  BY DEF Looks

(* ActionContext::scroll: a view, a cursor or a selection that moves is drawn. *)
LEMMA ScrollCalm ==
  ASSUME NEW x, Loose(x), NEW count \in Int
  PROVE  LET y == scroll(x, count)
         IN  /\ Calm(x, y)
             /\ y.t.grid.offset = Smaller(Larger(x.t.grid.offset + count, 0), x.t.grid.history)
  <1> DEFINE t == scroll_display(x.t, count)
             changed == x.t.grid.offset - t.grid.offset
             d == IF search_active(x) THEN x.delta + changed ELSE x.delta
             s0 == [x EXCEPT !.t = t, !.delta = d]
             selecting == ViMode(x) /\ t.sel # NoSelection /\ ~is_empty(t.sel)
             s1 == IF selecting THEN update_selection(s0, t.vi, "Right") ELSE s0
             s2 == IF ViMode(x) THEN on_typing_start(s1) ELSE s1
             moved == changed # 0 \/ (ViMode(x) /\ t.vi # x.t.vi)
             b == s2.dirty \/ moved
             y == scroll(x, count)
  <1>1. y = [s2 EXCEPT !.dirty = b]
    <2>1. [x EXCEPT !.t = t, !.delta = IF search_active(x) THEN @ + changed ELSE @] = s0 OBVIOUS
    <2>2. QED BY <2>1, Zenon DEF scroll, Scrolled
  <1>2. x \in WindowType /\ Lies(x.t) /\ x.delta \in Int /\ x.t.grid.offset \in Int
    BY Lying DEF Loose, WindowType
  <1>3. /\ Lies(t) /\ InView(t) /\ Alike(x.t, t) /\ Recomputed(x.t, t)
        /\ t.grid.offset = Smaller(Larger(x.t.grid.offset + count, 0), x.t.grid.history)
    BY <1>2, ScrollLies
  <1> HIDE DEF t
  <1>4. t \in TermType /\ t.vi \in Int /\ t.grid.offset \in Int BY <1>3, Lying DEF Lies, Placed
  <1>5. d \in Int BY <1>2, <1>4
  <1> HIDE DEF d, s0, s1, s2, y
  <1>6. Tame(x, s0) /\ s0.t = t /\ s0.dirty = x.dirty /\ s0.hidden = x.hidden /\ s0.focused = x.focused /\ s0.dfas = x.dfas
    <2>1. s0 \in WindowType BY <1>2, <1>4, <1>5 DEF s0, WindowType
    <2>2. Frame(x, s0) BY <1>2 DEF s0, WindowType, Frame
    <2>3. /\ s0.t = t /\ s0.dirty = x.dirty /\ s0.hidden = x.hidden /\ s0.focused = x.focused /\ s0.dfas = x.dfas
          /\ s0.timers = x.timers /\ s0.timedOut = x.timedOut
      BY <1>2 DEF s0, WindowType
    <2>4. Blinks(s0) /\ x.focused \in Matches(x.t) BY <2>3 DEF Loose, Blinks
    <2>5. Tame(x, s0) BY <1>3, <2>1, <2>2, <2>3, <2>4, LooseTames
    <2>6. QED BY <2>3, <2>5
  <1>7. Fine(s0) BY <1>6 DEF Tame
  <1>8. Calm(s0, s1) /\ (selecting => s1.dirty) /\ s1.t.grid = t.grid
    <2>1. CASE selecting
      <3>1. s1 = update_selection(s0, t.vi, "Right") BY <2>1 DEF s1
      <3>2. t.vi + s0.t.grid.offset \in 0 .. s0.t.lines - 1 BY <1>3, <1>6 DEF InView
      <3>3. s0.t.sel # NoSelection BY <1>6, <2>1
      <3>4. Calm(s0, s1) /\ (s0.t.sel # NoSelection => s1.dirty) /\ s1.t.grid = s0.t.grid
        BY <1>4, <1>7, <3>1, <3>2, UpdateCalm
      <3>5. QED BY <1>6, <3>3, <3>4
    <2>2. CASE ~selecting
      <3>1. s1 = s0 BY <2>2 DEF s1
      <3>2. QED BY <1>6, <1>7, <2>2, <3>1, CalmSelf
    <2>3. QED BY <2>1, <2>2
  <1>9. Fine(s1) BY <1>8 DEF Calm, Tame
  <1>10. Calm(s1, s2) /\ s2.t = s1.t BY <1>9, TypingCalm, CalmSelf DEF s2
  <1>11. Fine(s2) /\ s2 \in WindowType BY <1>10 DEF Calm, Tame, Fine
  <1>12. b \in BOOLEAN /\ (s2.dirty => b) OBVIOUS
  <1>b. b => s2.dirty \/ moved OBVIOUS
  <1>m. ~b => ~s2.dirty /\ ~moved OBVIOUS
  <1> HIDE DEF b
  <1>13. Tame(s2, y) /\ y.t = s2.t /\ y.dirty = b /\ y.hidden = s2.hidden /\ y.focused = s2.focused /\ y.dfas = s2.dfas
    <2>1. y \in WindowType BY <1>1, <1>11, <1>12 DEF WindowType
    <2>2. Frame(s2, y) BY <1>1, <1>11 DEF WindowType, Frame
    <2>3. /\ y.t = s2.t /\ y.dirty = b /\ y.hidden = s2.hidden /\ y.focused = s2.focused /\ y.dfas = s2.dfas
          /\ y.timers = s2.timers /\ y.timedOut = s2.timedOut
      BY <1>1, <1>11 DEF WindowType
    <2>4. Blinks(y) BY <1>11, <2>3 DEF Fine, Blinks
    <2>5. Tame(s2, y) BY <1>11, <1>12, <2>1, <2>2, <2>3, <2>4, Fining, Tames DEF Alike
    <2>6. QED BY <2>3, <2>5
  <1>14. Tame(x, y)
    <2>1. Tame(s0, s1) /\ Tame(s1, s2) BY <1>8, <1>10 DEF Calm
    <2>2. Tame(x, s1) BY <1>6, <2>1, TameTwice
    <2>3. Tame(x, s2) BY <2>1, <2>2, TameTwice
    <2>4. QED BY <1>13, <2>3, TameTwice
  <1>15. ASSUME ~y.dirty PROVE Looks(x, y)
    <2>1. ~b BY <1>13, <1>15
    <2>2. ~s2.dirty /\ changed = 0 /\ (ViMode(x) => t.vi = x.t.vi) BY <1>m, <2>1
    <2>3. ~s1.dirty BY <1>10, <2>2 DEF Calm, Tame
    <2>4. ~selecting BY <1>8, <2>3
    <2>5. t.grid.offset = x.t.grid.offset BY <1>2, <1>4, <2>2
    <2>6. Shown(t) = Shown(x.t) BY <1>3, <2>4 DEF Recomputed, Shown, ViMode
    <2>7. Looks(x, s0) BY <1>6, <2>2, <2>5, <2>6 DEF Looks, ViMode
    <2>8. Looks(s0, s1) /\ Looks(s1, s2) BY <1>8, <1>10, <2>2, <2>3 DEF Calm
    <2>9. s0.t.mode = x.t.mode /\ s1.t.mode = x.t.mode /\ s2.t.mode = x.t.mode
      BY <1>6, <1>8, <1>10 DEF Calm, Tame, Alike
    <2>10. Looks(s2, y) BY <1>13 DEF Looks
    <2>11. Looks(x, s1) BY <2>7, <2>8, <2>9, LooksTwice
    <2>12. Looks(x, s2) BY <2>8, <2>9, <2>11, LooksTwice
    <2>13. QED BY <2>9, <2>10, <2>12, LooksTwice
  <1>16. y.t.grid.offset = t.grid.offset BY <1>8, <1>10, <1>13
  <1>17. QED BY <1>3, <1>14, <1>15, <1>16 DEF Calm, y

LEMMA FineLoose ==
  ASSUME NEW x, Fine(x)
  PROVE  Loose(x)
  BY DEF Fine, Loose

(* ActionContext::search_reset_state *)
LEMMA ResetTame ==
  ASSUME NEW x, Fine(x)
  PROVE  LET y == search_reset_state(x) IN Tame(x, y) /\ (ViMode(x) => y.dirty)
  <1> DEFINE y == search_reset_state(x)
             s == x.timers \ {"DelayedSearch"}
  <1>1. x \in WindowType /\ s \in SUBSET Timers /\ NoMatch \in Int BY Fining DEF NoMatch
  <1>2. CASE ~ViMode(x)
    <2>1. y = [x EXCEPT !.timers = s, !.focused = NoMatch] BY <1>2 DEF search_reset_state, Unschedule
    <2>s. "BlinkCursor" \in s <=> "BlinkCursor" \in x.timers OBVIOUS
    <2> HIDE DEF s, y
    <2>2. y \in WindowType BY <1>1, <2>1 DEF WindowType
    <2>3. Frame(x, y) BY <1>1, <2>1 DEF WindowType, Frame
    <2>4. /\ y.t = x.t /\ y.focused = NoMatch /\ y.timedOut = x.timedOut /\ y.hidden = x.hidden
          /\ y.timers = s /\ y.dirty = x.dirty
      BY <1>1, <2>1 DEF WindowType
    <2>5. Blinks(y) BY <2>s, <2>4 DEF Fine, Blinks
    <2>6. Tame(x, y) BY <2>2, <2>3, <2>4, <2>5, Fining, Tames DEF Alike
    <2>7. QED BY <1>2, <2>6 DEF y
  <1>3. CASE ViMode(x)
    <2> DEFINE v == [x.t EXCEPT !.vi = x.origin]
               u == scroll_display(v, x.delta)
    <2>1. y = [x EXCEPT !.timers = s, !.focused = NoMatch, !.t = u, !.delta = 0, !.dirty = TRUE]
      BY <1>3 DEF search_reset_state, Unschedule
    <2>2. Lies(v) /\ Alike(x.t, v) BY Fining, MovedLies
    <2> HIDE DEF v
    <2>3. Lies(u) /\ InView(u) /\ Alike(v, u) BY <2>2, Fining, ScrollLies
    <2> HIDE DEF u
    <2>4. Alike(x.t, u) BY <2>2, <2>3 DEF Alike
    <2>u. u \in TermType BY <2>3 DEF Lies, Placed
    <2>s. "BlinkCursor" \in s <=> "BlinkCursor" \in x.timers OBVIOUS
    <2> HIDE DEF s, y
    <2>5. y \in WindowType
      <3> DEFINE d == 0
      <3>1. y = [x EXCEPT !.timers = s, !.focused = NoMatch, !.t = u, !.delta = d, !.dirty = TRUE] BY <2>1
      <3>2. d \in Int OBVIOUS
      <3> HIDE DEF d
      <3>3. QED BY <1>1, <2>u, <3>1, <3>2 DEF WindowType
    <2>6. Frame(x, y) BY <1>1, <2>1 DEF WindowType, Frame
    <2>7. /\ y.t = u /\ y.focused = NoMatch /\ y.timedOut = x.timedOut /\ y.hidden = x.hidden
          /\ y.timers = s /\ y.dirty
      BY <1>1, <2>1 DEF WindowType
    <2>8. Blinks(y) BY <2>s, <2>7 DEF Fine, Blinks
    <2>9. Tame(x, y) BY <2>3, <2>4, <2>5, <2>6, <2>7, <2>8, Fining, Tames
    <2>10. QED BY <2>7, <2>9 DEF y
  <1>4. QED BY <1>2, <1>3

(* ActionContext::goto_match *)
LEMMA GotoCalm ==
  ASSUME NEW x, Fine(x), NEW limited, NEW found \in Matches(x.t)
  PROVE  Calm(x, goto_match(x, limited, found)) /\ (x.dfas => goto_match(x, limited, found).dirty)
  <1> DEFINE y == goto_match(x, limited, found)
             limit == limited /\ SearchLimit <= total_lines(dims(x.t))
             less == x.timers \ {"DelayedSearch"}
             more == x.timers \union {"DelayedSearch"}
             u == IF ViMode(x) THEN vi_goto_point(x.t, found) ELSE scroll_to_point(x.t, found)
             d == x.delta + x.t.grid.offset - u.grid.offset
  <1>1. x \in WindowType /\ less \in SUBSET Timers /\ more \in SUBSET Timers
    BY Fining DEF Timers
  <1>n. NoMatch \in Int BY DEF NoMatch
  <1>s. /\ "BlinkCursor" \in less <=> "BlinkCursor" \in x.timers
        /\ "BlinkCursor" \in more <=> "BlinkCursor" \in x.timers
    OBVIOUS
  <1>2. CASE ~x.dfas
    <2>1. y = x BY <1>2 DEF goto_match
    <2>2. QED BY <1>2, <2>1, CalmSelf
  <1>3. CASE x.dfas /\ found # NoMatch
    <2>1. y = [x EXCEPT !.timers = less, !.t = u, !.focused = found, !.dirty = TRUE, !.delta = d]
      <3>1. y = [Unschedule(x, "DelayedSearch") EXCEPT !.t = u, !.focused = found, !.dirty = TRUE,
                    !.delta = @ + x.t.grid.offset - u.grid.offset]
        BY <1>3 DEF goto_match
      <3>2. Unschedule(x, "DelayedSearch") = [x EXCEPT !.timers = less] BY DEF Unschedule
      <3> HIDE DEF u, less
      <3>3. QED BY <1>1, <3>1, <3>2 DEF WindowType
    <2>2. found \in GridLines(dims(x.t)) /\ found \in Int BY <1>3, Fining DEF Matches
    <2>3. Lies(u) /\ InView(u) /\ Alike(x.t, u) BY <2>2, Fining, GotoLies, ScrollToLies
    <2> HIDE DEF u
    <2>4. u \in TermType /\ d \in Int
      <3>1. u.grid.offset \in Nat /\ u \in TermType BY <2>3, Lying DEF Lies, Placed
      <3>2. QED BY <3>1, Fining
    <2> HIDE DEF less, d, y
    <2>5. y \in WindowType BY <1>1, <2>1, <2>2, <2>4 DEF WindowType
    <2>6. Frame(x, y) BY <1>1, <2>1 DEF WindowType, Frame
    <2>7. /\ y.t = u /\ y.focused = found /\ y.timedOut = x.timedOut /\ y.hidden = x.hidden
          /\ y.timers = less /\ y.dirty
      BY <1>1, <2>1 DEF WindowType
    <2>8. Blinks(y) BY <1>s, <2>7 DEF Fine, Blinks
    <2>9. Tame(x, y) BY <2>3, <2>5, <2>6, <2>7, <2>8, Tames
    <2>10. QED BY <2>7, <2>9 DEF Calm, y
  <1>4. CASE x.dfas /\ found = NoMatch /\ ~limit
    <2>1. y = mark_dirty(search_reset_state(x)) BY <1>4 DEF goto_match
    <2>2. QED BY <2>1, ResetTame, DirtyCalm
  <1>5. CASE x.dfas /\ found = NoMatch /\ limit
    <2>1. y = [x EXCEPT !.timers = more, !.focused = NoMatch, !.dirty = TRUE]
      BY <1>5 DEF goto_match, Schedule
    <2> HIDE DEF more, y
    <2>2. y \in WindowType BY <1>1, <1>n, <2>1 DEF WindowType
    <2>3. Frame(x, y) BY <1>1, <2>1 DEF WindowType, Frame
    <2>4. /\ y.t = x.t /\ y.focused = NoMatch /\ y.timedOut = x.timedOut /\ y.hidden = x.hidden
          /\ y.timers = more /\ y.dirty
      BY <1>1, <2>1 DEF WindowType
    <2>5. Blinks(y) BY <1>s, <2>4 DEF Fine, Blinks
    <2>6. Tame(x, y) BY <2>2, <2>3, <2>4, <2>5, Fining, Tames DEF Alike
    <2>7. QED BY <2>4, <2>6 DEF Calm, y
  <1>6. QED BY <1>2, <1>3, <1>4, <1>5

(* The jumps of vi mode: start_seeded_search and the actions of vi mode. *)
LEMMA JumpCalm ==
  ASSUME NEW x, Fine(x), NEW line \in Matches(x.t)
  PROVE  Calm(x, ViJump(x, line))
  <1> DEFINE y == ViJump(x, line)
             u == vi_goto_point(x.t, line)
  <1>1. CASE line = NoMatch
    <2>1. y = x BY <1>1 DEF ViJump
    <2>2. QED BY <2>1, CalmSelf
  <1>2. CASE line # NoMatch
    <2>1. y = [x EXCEPT !.t = u, !.dirty = TRUE] BY <1>2 DEF ViJump, mark_dirty
    <2>2. line \in GridLines(dims(x.t)) BY <1>2 DEF Matches
    <2>3. Lies(u) /\ InView(u) /\ Alike(x.t, u) BY <2>2, Fining, GotoLies
    <2> HIDE DEF u, y
    <2>4. Calm(x, y) /\ y.t = u /\ y.dirty BY <2>1, <2>3, ShownCalm
    <2>5. QED BY <2>4 DEF y
  <1>3. QED BY <1>1, <1>2

LEMMA MotionCalm ==
  ASSUME NEW x, Fine(x), NEW line \in GridLines(dims(x.t))
  PROVE  Calm(x, mark_dirty([x EXCEPT !.t = vi_motion(x.t, line)]))
  <1> DEFINE y == mark_dirty([x EXCEPT !.t = vi_motion(x.t, line)])
             u == vi_motion(x.t, line)
  <1>1. y = [x EXCEPT !.t = u, !.dirty = TRUE] BY DEF mark_dirty
  <1>2. Lies(u) /\ InView(u) /\ Alike(x.t, u) BY Fining, GotoLies
  <1> HIDE DEF u, y
  <1>3. Calm(x, y) /\ y.t = u /\ y.dirty BY <1>1, <1>2, ShownCalm
  <1>4. QED BY <1>3 DEF y

(* The ends of the scrollback. *)
LEMMA EndedCalm ==
  ASSUME NEW x, Fine(x), NEW line \in Int, line + x.t.grid.offset \in 0 .. x.t.lines - 1
  PROVE  Calm(x, mark_dirty([x EXCEPT !.t = vi_motion([x.t EXCEPT !.vi = line], line)]))
  <1> DEFINE v == [x.t EXCEPT !.vi = line]
             u == vi_motion(v, line)
             y == mark_dirty([x EXCEPT !.t = vi_motion([x.t EXCEPT !.vi = line], line)])
  <1>1. y = [x EXCEPT !.t = u, !.dirty = TRUE] BY DEF mark_dirty
  <1>2. Lies(v) /\ Alike(x.t, v) /\ v.vi = line /\ v.grid = x.t.grid BY Fining, MovedLies
  <1> HIDE DEF v
  <1>3. InView(v) BY <1>2 DEF InView, Alike
  <1>4. line \in GridLines(dims(v)) BY <1>2, <1>3, Lying
  <1>5. Lies(u) /\ InView(u) /\ Alike(v, u) BY <1>2, <1>3, <1>4, GotoLies
  <1> HIDE DEF u, y
  <1>6. Alike(x.t, u) BY <1>2, <1>5 DEF Alike
  <1>7. Calm(x, y) /\ y.t = u /\ y.dirty BY <1>1, <1>5, <1>6, ShownCalm
  <1>8. QED BY <1>7 DEF y

(* A page: the vi mode cursor moves first. *)
LEMMA PagedCalm ==
  ASSUME NEW x, Fine(x), NEW v \in Int, NEW count \in Int
  PROVE  Calm(x, scroll([x EXCEPT !.t.vi = v, !.dirty = @ \/ v # x.t.vi], count))
  <1> DEFINE u == [x.t EXCEPT !.vi = v]
             b == x.dirty \/ v # x.t.vi
             s == [x EXCEPT !.t = u, !.dirty = b]
             y == scroll(s, count)
  <1>1. [x EXCEPT !.t.vi = v, !.dirty = @ \/ v # x.t.vi] = s OBVIOUS
  <1>2. Lies(u) /\ Alike(x.t, u) /\ u.vi = v /\ u.grid = x.t.grid /\ u.sel = x.t.sel BY Fining, MovedLies
  <1>3. b \in BOOLEAN /\ (x.dirty => b) /\ (b \/ v = x.t.vi) OBVIOUS
  <1>4. x \in WindowType /\ u \in TermType BY <1>2 DEF Fine, Lies, Placed
  <1> HIDE DEF u, b, s, y
  <1>5. s \in WindowType BY <1>3, <1>4 DEF s, WindowType
  <1>6. Frame(x, s) BY <1>4 DEF s, WindowType, Frame
  <1>7. /\ s.t = u /\ s.focused = x.focused /\ s.timedOut = x.timedOut /\ s.hidden = x.hidden
        /\ s.timers = x.timers /\ s.dirty = b /\ s.dfas = x.dfas
    BY <1>4 DEF s, WindowType
  <1>8. Matches(u) = Matches(x.t) BY <1>2 DEF Alike, Matches, GridLines, dims, topmost_line, bottommost_line
  <1>9. Loose(s) BY <1>2, <1>5, <1>6, <1>7, <1>8 DEF Loose, Fine, Frame, Blinks
  <1>10. Calm(s, y) BY <1>9, ScrollCalm DEF y
  <1>11. s.dirty \/ Looks(x, s) BY <1>2, <1>3, <1>7 DEF Looks, Shown
  <1>12. Tame(x, y) BY <1>2, <1>3, <1>6, <1>7, <1>10 DEF Calm, Tame, Alike, Frame
  <1>13. y.dirty \/ Looks(x, y)
    <2>1. s.t.mode = x.t.mode BY <1>2, <1>7 DEF Alike
    <2>2. s.dirty => y.dirty BY <1>10 DEF Calm, Tame
    <2>3. y.dirty \/ Looks(s, y) BY <1>10 DEF Calm
    <2>4. QED BY <1>11, <2>1, <2>2, <2>3, LooksTwice
  <1>14. Calm(x, y) BY <1>12, <1>13 DEF Calm
  <1>15. QED BY <1>1, <1>14 DEF y

(* The actions that scroll. *)
LEMMA ScrollActionCalm ==
  ASSUME NEW x, Fine(x), NEW action \in ScrollActions
  PROVE  Calm(x, ScrollAction(x, action))
  <1> DEFINE n == x.t.lines
             half == n \div 2
             t == x.t
  <1>1. n \in Int /\ half \in Int /\ -n \in Int /\ -half \in Int
    <2>1. n \in Int BY Fining
    <2>2. QED BY <2>1
  <1>2. /\ x.t.vi \in Int /\ x.t.grid.history \in Nat /\ x.t.grid.offset \in Nat /\ x.t.lines \in Nat \ {0}
        /\ x.t.grid.offset <= x.t.grid.history
    BY Fining DEF Lies
  <1>3. bottommost_line(dims(x.t)) = x.t.lines - 1 /\ topmost_line(dims(x.t)) = -x.t.grid.history
    BY DEF bottommost_line, topmost_line, dims
  <1>4. Loose(x) BY FineLoose
  <1>5. ASSUME NEW count \in Int
        PROVE  LET v == Larger(Smaller(t.vi - count, bottommost_line(dims(t))), topmost_line(dims(t)))
               IN  Calm(x, scroll([x EXCEPT !.t.vi = v, !.dirty = @ \/ v # t.vi], count))
    <2> DEFINE v == Larger(Smaller(t.vi - count, bottommost_line(dims(t))), topmost_line(dims(t)))
    <2>1. v \in Int BY <1>2, <1>3 DEF Smaller, Larger
    <2> HIDE DEF v
    <2>2. Calm(x, scroll([x EXCEPT !.t.vi = v, !.dirty = @ \/ v # x.t.vi], count)) BY <2>1, PagedCalm
    <2>3. QED BY <2>2 DEF v
  <1> DEFINE P(count) == LET v == Larger(Smaller(t.vi - count, bottommost_line(dims(t))), topmost_line(dims(t)))
                         IN  scroll([x EXCEPT !.t.vi = v, !.dirty = @ \/ v # t.vi], count)
  <1>6. \A count \in Int : Calm(x, P(count)) BY <1>5
  <1> HIDE DEF P
  <1>7. CASE action = "ScrollPageUp"
    <2>1. ScrollAction(x, action) = P(n) BY <1>7 DEF ScrollAction, P
    <2>2. QED BY <1>1, <1>6, <2>1
  <1>8. CASE action = "ScrollPageDown"
    <2>1. ScrollAction(x, action) = P(-n) BY <1>8 DEF ScrollAction, P
    <2>2. QED BY <1>1, <1>6, <2>1
  <1>9. CASE action = "ScrollHalfPageUp"
    <2>1. ScrollAction(x, action) = P(half) BY <1>9 DEF ScrollAction, P
    <2>2. QED BY <1>1, <1>6, <2>1
  <1>10. CASE action = "ScrollHalfPageDown"
    <2>1. ScrollAction(x, action) = P(-half) BY <1>10 DEF ScrollAction, P
    <2>2. QED BY <1>1, <1>6, <2>1
  <1>11. CASE action = "ScrollLineUp"
    <2>1. ScrollAction(x, action) = scroll(x, 1) BY <1>11 DEF ScrollAction
    <2>2. QED BY <1>4, <2>1, ScrollCalm
  <1>12. CASE action = "ScrollLineDown"
    <2>1. ScrollAction(x, action) = scroll(x, -1) BY <1>12 DEF ScrollAction
    <2>2. QED BY <1>4, <2>1, ScrollCalm
  <1>13. CASE action = "ScrollToTop"
    <2> DEFINE s == scroll(x, x.t.grid.history)
               line == topmost_line(dims(x.t))
    <2>1. ScrollAction(x, action) = mark_dirty([s EXCEPT !.t = vi_motion([s.t EXCEPT !.vi = line], line)])
      BY <1>13 DEF ScrollAction
    <2>2. /\ Calm(x, s)
          /\ s.t.grid.offset = Smaller(Larger(x.t.grid.offset + x.t.grid.history, 0), x.t.grid.history)
      BY <1>2, <1>4, ScrollCalm
    <2> HIDE DEF s
    <2>3. s.t.grid.offset = x.t.grid.history BY <1>2, <2>2 DEF Smaller, Larger
    <2>4. Fine(s) /\ s.t.lines = x.t.lines BY <2>2 DEF Calm, Tame, Alike
    <2>5. line \in Int /\ line + s.t.grid.offset \in 0 .. s.t.lines - 1 BY <1>2, <1>3, <2>3, <2>4
    <2> HIDE DEF line
    <2>6. QED BY <2>1, <2>2, <2>4, <2>5, EndedCalm, CalmTwice
  <1>14. CASE action = "ScrollToBottom"
    <2> DEFINE k == -x.t.grid.offset
               s == scroll(x, k)
               line == bottommost_line(dims(x.t))
    <2>1. ScrollAction(x, action) = mark_dirty([s EXCEPT !.t = vi_motion([s.t EXCEPT !.vi = line], line)])
      BY <1>14 DEF ScrollAction
    <2>k. k \in Int BY <1>2
    <2>2. /\ Calm(x, s)
          /\ s.t.grid.offset = Smaller(Larger(x.t.grid.offset + k, 0), x.t.grid.history)
      <3> HIDE DEF k
      <3>1. QED BY <1>4, <2>k, ScrollCalm
    <2> HIDE DEF s
    <2>3. s.t.grid.offset = 0 BY <1>2, <2>2 DEF Smaller, Larger
    <2>4. Fine(s) /\ s.t.lines = x.t.lines BY <2>2 DEF Calm, Tame, Alike
    <2>5. line \in Int /\ line + s.t.grid.offset \in 0 .. s.t.lines - 1 BY <1>2, <1>3, <2>3, <2>4
    <2> HIDE DEF line
    <2>6. QED BY <2>1, <2>2, <2>4, <2>5, EndedCalm, CalmTwice
  <1>15. QED BY <1>7, <1>8, <1>9, <1>10, <1>11, <1>12, <1>13, <1>14 DEF ScrollActions

(* ActionContext::on_terminal_input_start *)
LEMMA InputCalm ==
  ASSUME NEW x, Fine(x)
  PROVE  Calm(x, on_terminal_input_start(x))
  <1> DEFINE s == clear_selection(on_typing_start(x))
             k == -s.t.grid.offset
  <1>1. Calm(x, s)
    <2>1. Calm(x, on_typing_start(x)) BY TypingCalm
    <2>2. Fine(on_typing_start(x)) BY <2>1 DEF Calm, Tame
    <2>3. Calm(on_typing_start(x), s) BY <2>2, ClearCalm
    <2>4. QED BY <2>1, <2>3, CalmTwice
  <1>2. on_terminal_input_start(x) = IF s.t.grid.offset # 0 THEN scroll(s, k) ELSE s BY DEF on_terminal_input_start
  <1> HIDE DEF s
  <1>3. Fine(s) BY <1>1 DEF Calm, Tame
  <1>4. k \in Int /\ Loose(s)
    <2>1. s.t.grid.offset \in Nat BY <1>3, Fining
    <2>2. QED BY <1>3, <2>1, FineLoose
  <1> HIDE DEF k
  <1>5. Calm(s, scroll(s, k)) BY <1>4, ScrollCalm
  <1>6. QED BY <1>1, <1>2, <1>5, CalmTwice

(* Writing to the program. *)
LEMMA WriteCalm ==
  ASSUME NEW x, Fine(x)
  PROVE  Calm(x, Write(x))
  <1> DEFINE s == on_terminal_input_start(x)
             y == Write(x)
  <1>1. Calm(x, s) BY InputCalm
  <1>2. y = [s EXCEPT !.written = TRUE] BY DEF Write
  <1> HIDE DEF s, y
  <1>3. Fine(s) /\ s \in WindowType BY <1>1 DEF Calm, Tame, Fine
  <1>4. y \in WindowType BY <1>2, <1>3 DEF WindowType
  <1>5. Frame(s, y) BY <1>2, <1>3 DEF WindowType, Frame
  <1>6. /\ y.t = s.t /\ y.focused = s.focused /\ y.timedOut = s.timedOut /\ y.hidden = s.hidden
        /\ y.timers = s.timers /\ y.dirty = s.dirty /\ y.dfas = s.dfas
    BY <1>2, <1>3 DEF WindowType
  <1>7. Blinks(y) BY <1>3, <1>6 DEF Fine, Blinks
  <1>8. Tame(s, y) BY <1>3, <1>4, <1>5, <1>6, <1>7, Fining, Tames DEF Alike
  <1>9. Looks(s, y) BY <1>6 DEF Looks
  <1>10. Calm(s, y) BY <1>8, <1>9 DEF Calm
  <1>11. Calm(x, y) BY <1>1, <1>10, CalmTwice
  <1>12. QED BY <1>11 DEF y

-------------------------------------------------------------------------------
(* What the handlers of events guarantee. *)
ImeOk(x) == ViMode(x) /\ ~search_active(x) /\ ~x.charPending => "VI" \in x.ime

(* The regexes of a history after the first are still there, or emptied. *)
Regexes(g, h) ==
  LET begun == Len(h) - Len(g)
  IN  Len(h) < MaxSearchHistory =>
        /\ begun >= 0
        /\ \A i \in 2 .. Len(g) : h[i + begun] \in {g[i], 0}

Pace(x, y) ==
  /\ Fine(y) /\ y.t.lines = x.t.lines /\ y.t.grid.history = x.t.grid.history
  /\ y.hint \in {x.hint, "none"}
  /\ x.hint # "MoveViModeCursor" /\ ImeOk(x) => ImeOk(y)
  /\ Regexes(x.history, y.history)
  /\ x.dirty => y.dirty
  /\ x.pending => y.pending

(* Nothing to draw, and no stale match. *)
Still(x, y) == Visible(y) = Visible(x) /\ (StaleMatch(y) => StaleMatch(x))

Step(x, y) == Pace(x, y) /\ (y.dirty \/ y.pending \/ StaleMatch(x) \/ Still(x, y))

LEMMA RegexesSelf ==
  ASSUME NEW g \in Seq(Nat)
  PROVE  Regexes(g, g)
  <1>1. Len(g) \in Nat /\ Len(g) - Len(g) = 0 OBVIOUS
  <1>2. ASSUME NEW i \in 2 .. Len(g) PROVE g[i + 0] = g[i]
    <2>1. i + 0 = i BY <1>1
    <2>2. QED BY <2>1
  <1>3. QED BY <1>1, <1>2 DEF Regexes

LEMMA RegexesTwice ==
  ASSUME NEW g \in Seq(Nat), NEW h \in Seq(Nat), NEW k \in Seq(Nat), Regexes(g, h), Regexes(h, k)
  PROVE  Regexes(g, k)
  <1> DEFINE a == Len(h) - Len(g)
             b == Len(k) - Len(h)
             c == Len(k) - Len(g)
  <1>1. Len(g) \in Nat /\ Len(h) \in Nat /\ Len(k) \in Nat /\ MaxSearchHistory \in Nat BY WindowAssumption
  <1>2. SUFFICES ASSUME Len(k) < MaxSearchHistory
                 PROVE  c >= 0 /\ \A i \in 2 .. Len(g) : k[i + c] \in {g[i], 0}
    BY DEF Regexes
  <1>3. b >= 0 /\ \A i \in 2 .. Len(h) : k[i + b] \in {h[i], 0} BY <1>2 DEF Regexes
  <1>4. Len(h) < MaxSearchHistory BY <1>1, <1>2, <1>3
  <1>5. a >= 0 /\ \A i \in 2 .. Len(g) : h[i + a] \in {g[i], 0} BY <1>4 DEF Regexes
  <1>6. c >= 0 BY <1>1, <1>3, <1>5
  <1>7. ASSUME NEW i \in 2 .. Len(g) PROVE k[i + c] \in {g[i], 0}
    <2>1. i + a \in 2 .. Len(h) /\ (i + a) + b = i + c BY <1>1, <1>5
    <2>2. k[(i + a) + b] \in {h[i + a], 0} BY <1>3, <2>1
    <2>3. h[i + a] \in {g[i], 0} BY <1>5
    <2> HIDE DEF a, b, c
    <2>4. QED BY <2>1, <2>2, <2>3
  <1>8. QED BY <1>6, <1>7

LEMMA FineHistory ==
  ASSUME NEW x, Fine(x)
  PROVE  x.history \in Seq(Nat) /\ Len(x.history) \in Nat /\ x.index \in Int /\ x.hint \in HintActions
  <1>1. x \in WindowType BY DEF Fine
  <1>2. x.history \in Seq(Nat) /\ x.index \in Int /\ x.hint \in HintActions BY <1>1 DEF WindowType
  <1>3. QED BY <1>2

(* A tame handler is one of them. *)
LEMMA TamePace ==
  ASSUME NEW x, Fine(x), NEW y, Tame(x, y)
  PROVE  Pace(x, y)
  <1>1. Regexes(x.history, y.history) BY FineHistory, RegexesSelf DEF Tame, Frame
  <1>2. ImeOk(x) => ImeOk(y) BY DEF Tame, Frame, Alike, ImeOk, ViMode, search_active
  <1>3. QED BY <1>1, <1>2 DEF Tame, Pace, Frame, Alike

LEMMA CalmStep ==
  ASSUME NEW x, Fine(x), NEW y, Calm(x, y)
  PROVE  Step(x, y)
  <1>1. Pace(x, y) BY TamePace DEF Calm
  <1>2. Looks(x, y) => Still(x, y)
    <2>1. SUFFICES ASSUME Looks(x, y) PROVE Still(x, y) OBVIOUS
    <2>2. /\ ViMode(y) = ViMode(x) /\ search_active(y) = search_active(x) /\ Regex(y) = Regex(x)
          /\ y.preedit = x.preedit /\ y.hint = x.hint
      BY DEF Calm, Tame, Frame, Alike, ViMode, search_active, Regex
    <2>3. ViMode(x) => y.t.vi = x.t.vi BY <2>1 DEF Looks, ViMode
    <2>4. /\ y.t.grid.offset = x.t.grid.offset /\ Shown(y.t) = Shown(x.t) /\ y.hidden = x.hidden
          /\ y.focused = x.focused /\ y.dfas = x.dfas
      BY <2>1 DEF Looks
    <2>5. StaleMatch(y) => StaleMatch(x) BY <2>2, <2>4 DEF StaleMatch
    <2>6. Visible(y) = Visible(x) BY <2>2, <2>3, <2>4 DEF Visible, Shown
    <2>7. QED BY <2>5, <2>6 DEF Still
  <1>3. QED BY <1>1, <1>2 DEF Calm, Step

(* One handler after another. *)
LEMMA PaceTwice ==
  ASSUME NEW x, Fine(x), NEW y, NEW z, Pace(x, y), Pace(y, z)
  PROVE  Pace(x, z)
  <1>1. Fine(y) /\ Fine(z) BY DEF Pace
  <1>2. x.history \in Seq(Nat) /\ y.history \in Seq(Nat) /\ z.history \in Seq(Nat) BY <1>1, FineHistory
  <1>3. Regexes(x.history, y.history) /\ Regexes(y.history, z.history) BY DEF Pace
  <1>4. Regexes(x.history, z.history) BY <1>2, <1>3, RegexesTwice
  <1>5. x.hint # "MoveViModeCursor" => y.hint # "MoveViModeCursor" BY DEF Pace
  <1>6. QED BY <1>1, <1>4, <1>5 DEF Pace

LEMMA StepTwice ==
  ASSUME NEW x, Fine(x), NEW y, NEW z, Step(x, y), Step(y, z)
  PROVE  Step(x, z)
  <1>1. Pace(x, z) BY PaceTwice DEF Step
  <1>2. (y.dirty => z.dirty) /\ (y.pending => z.pending) BY DEF Step, Pace
  <1>3. QED BY <1>1, <1>2 DEF Step, Still

LEMMA StepSelf ==
  ASSUME NEW x, Fine(x)
  PROVE  Step(x, x)
  BY CalmSelf, CalmStep

LEMMA CalmThenStep ==
  ASSUME NEW x, Fine(x), NEW y, NEW z, Calm(x, y), Step(y, z)
  PROVE  Step(x, z)
  BY CalmStep, StepTwice

LEMMA StepThenCalm ==
  ASSUME NEW x, Fine(x), NEW y, NEW z, Step(x, y), Calm(y, z)
  PROVE  Step(x, z)
  <1>1. Fine(y) BY DEF Step, Pace
  <1>2. QED BY <1>1, CalmStep, StepTwice

(* What depends on the size of the terminal only. *)
LEMMA SameMatches ==
  ASSUME NEW x, NEW y, y.t.lines = x.t.lines, y.t.grid.history = x.t.grid.history
  PROVE  Matches(y.t) = Matches(x.t)
  BY DEF Matches, GridLines, dims, topmost_line, bottommost_line

(* What a handler that begins or ends something has to show. *)
LEMMA Paces ==
  ASSUME NEW x, Fine(x), NEW y, y \in WindowType, y.t = x.t, y.focused \in Matches(x.t),
         y.timedOut = x.timedOut, y.hidden = x.hidden, y.timers = x.timers,
         y.index \in -1 .. Len(y.history) - 1, Len(y.history) <= MaxSearchHistory,
         y.hint \in {x.hint, "none"}, ImeOk(x) => ImeOk(y), Regexes(x.history, y.history),
         x.dirty => y.dirty, x.pending => y.pending
  PROVE  Pace(x, y)
  <1>1. Lies(y.t) /\ InView(y.t) /\ Blinks(y) BY DEF Fine, Blinks
  <1>2. Fine(y) BY <1>1 DEF Fine
  <1>3. QED BY <1>2 DEF Pace

(* A regex that is one, or not. *)
LEMMA DfasTame ==
  ASSUME NEW x, Fine(x), NEW b \in BOOLEAN
  PROVE  LET y == [x EXCEPT !.dfas = b]
         IN  Tame(x, y) /\ y.t = x.t /\ y.index = x.index /\ y.dirty = x.dirty
  <1> DEFINE y == [x EXCEPT !.dfas = b]
  <1>1. x \in WindowType BY DEF Fine
  <1>2. y \in WindowType BY <1>1 DEF WindowType
  <1>3. Frame(x, y) BY <1>1 DEF WindowType, Frame
  <1>4. /\ y.t = x.t /\ y.focused = x.focused /\ y.timedOut = x.timedOut /\ y.hidden = x.hidden
        /\ y.timers = x.timers /\ y.dirty = x.dirty
    BY <1>1 DEF WindowType
  <1> HIDE DEF y
  <1>5. Blinks(y) BY <1>4 DEF Fine, Blinks
  <1>6. Tame(x, y) BY <1>2, <1>3, <1>4, <1>5, Fining, Tames DEF Alike
  <1>7. QED BY <1>3, <1>4, <1>6 DEF y, Frame

(* ActionContext::update_search *)
LEMMA SearchCalm ==
  ASSUME NEW x, Fine(x), NEW valid \in BOOLEAN, NEW found \in Matches(x.t)
  PROVE  LET y == update_search(x, valid, found) IN Calm(x, y) /\ (search_active(x) => y.dirty)
  <1> DEFINE y == update_search(x, valid, found)
  <1>1. CASE ~search_active(x)
    <2>1. y = x BY <1>1 DEF update_search
    <2>2. QED BY <1>1, <2>1, CalmSelf
  <1>2. CASE search_active(x) /\ Regex(x) = 0
    <2> DEFINE r == search_reset_state(x)
               s == [r EXCEPT !.dfas = FALSE]
    <2>1. y = mark_dirty(s) BY <1>2 DEF update_search
    <2>2. Tame(x, r) BY ResetTame
    <2> HIDE DEF r
    <2>3. Fine(r) BY <2>2 DEF Tame
    <2>4. Tame(r, s) BY <2>3, DfasTame
    <2> HIDE DEF s
    <2>5. Tame(x, s) BY <2>2, <2>4, TameTwice
    <2>6. QED BY <2>1, <2>5, DirtyCalm
  <1>3. CASE search_active(x) /\ Regex(x) # 0
    <2> DEFINE r == [x EXCEPT !.dfas = valid]
               s == goto_match(r, TRUE, found)
    <2>1. y = mark_dirty(s) BY <1>3 DEF update_search
    <2>2. Tame(x, r) /\ r.t = x.t BY DfasTame
    <2> HIDE DEF r
    <2>3. Fine(r) BY <2>2 DEF Tame
    <2>4. Calm(r, s) BY <2>2, <2>3, GotoCalm
    <2> HIDE DEF s
    <2>5. Tame(x, s) BY <2>2, <2>4, TameTwice DEF Calm
    <2>6. QED BY <2>1, <2>5, DirtyCalm
  <1>4. QED BY <1>1, <1>2, <1>3

(* ActionContext::exit_search *)
LEMMA ExitStep ==
  ASSUME NEW x, Fine(x)
  PROVE  LET y == exit_search(x) IN Step(x, y) /\ y.t = x.t /\ ~search_active(y) /\ y.pending
  <1> DEFINE y == exit_search(x)
             ime == IF ViMode(x) THEN x.ime \union {"VI"} ELSE x.ime \ {"VI"}
             none == NoMatch
             gone == -1
  <1>1. x \in WindowType BY DEF Fine
  <1>2. y = [x EXCEPT !.ime = ime, !.pending = TRUE, !.index = gone, !.focused = none]
    BY DEF exit_search, set_ime_inhibitor
  <1>3. ime \in SUBSET {"FOCUS", "VI"} /\ (ViMode(x) => "VI" \in ime)
    <2>1. x.ime \in SUBSET {"FOCUS", "VI"} BY <1>1 DEF WindowType
    <2>2. QED BY <2>1
  <1>4. none \in Int /\ none \in Matches(x.t) /\ gone \in Int BY Fining DEF NoMatch
  <1> HIDE DEF y, ime, none, gone
  <1>5. y \in WindowType BY <1>1, <1>2, <1>3, <1>4 DEF WindowType
  <1>6. /\ y.t = x.t /\ y.focused = none /\ y.timedOut = x.timedOut /\ y.hidden = x.hidden /\ y.timers = x.timers
        /\ y.dirty = x.dirty /\ y.pending /\ y.index = gone /\ y.history = x.history /\ y.hint = x.hint
        /\ y.ime = ime
    BY <1>1, <1>2 DEF WindowType
  <1>7. ImeOk(y) BY <1>3, <1>6 DEF ImeOk, ViMode
  <1>8. Regexes(x.history, y.history) BY <1>6, FineHistory, RegexesSelf
  <1>9. y.index \in -1 .. Len(y.history) - 1 /\ Len(y.history) <= MaxSearchHistory
    <2>1. Len(x.history) \in Nat /\ Len(x.history) <= MaxSearchHistory BY FineHistory DEF Fine
    <2>2. QED BY <1>6, <2>1 DEF gone
  <1>10. Pace(x, y) BY <1>4, <1>5, <1>6, <1>7, <1>8, <1>9, Paces
  <1>11. QED BY <1>6, <1>10 DEF Step, y, search_active, gone

(* ActionContext::cancel_search *)
LEMMA CancelStep ==
  ASSUME NEW x, Fine(x)
  PROVE  LET y == cancel_search(x) IN Step(x, y) /\ y.t.mode = x.t.mode /\ ~search_active(y)
  <1> DEFINE s == IF ViMode(x) THEN search_reset_state(x)
                  ELSE IF x.focused # NoMatch
                    THEN update_selection(start_selection(x, "Simple", x.focused), x.focused, "Right")
                  ELSE x
             r == [s EXCEPT !.dfas = FALSE]
             y == exit_search(r)
  <1>1. cancel_search(x) = y BY Zenon DEF cancel_search
  <1>2. Tame(x, s)
    <2>1. CASE ViMode(x) BY <2>1, ResetTame
    <2>2. CASE ~ViMode(x) /\ x.focused # NoMatch
      <3> DEFINE a == start_selection(x, "Simple", x.focused)
                 b == update_selection(a, x.focused, "Right")
      <3>1. s = b BY <2>2
      <3>2. x.focused \in Int BY Fining
      <3>3. Calm(x, a) BY <3>2, StartCalm
      <3> HIDE DEF a, s
      <3>4. Fine(a) /\ ~ViMode(a) BY <2>2, <3>3 DEF Calm, Tame, Alike, ViMode
      <3>5. Calm(a, b) BY <3>2, <3>4, UpdateCalm
      <3>6. Calm(x, b) BY <3>3, <3>5, CalmTwice
      <3>7. QED BY <3>1, <3>6 DEF Calm
    <2>3. CASE ~ViMode(x) /\ x.focused = NoMatch
      <3>1. s = x BY <2>3
      <3>2. QED BY <3>1, CalmSelf DEF Calm
    <2>4. QED BY <2>1, <2>2, <2>3
  <1> HIDE DEF s
  <1>3. Fine(s) BY <1>2 DEF Tame
  <1>4. Tame(s, r) BY <1>3, DfasTame
  <1> HIDE DEF r
  <1>5. Tame(x, r) BY <1>2, <1>4, TameTwice
  <1>6. Fine(r) /\ r.t.mode = x.t.mode BY <1>5 DEF Tame, Alike
  <1>7. Step(r, y) /\ y.t = r.t /\ ~search_active(y) /\ y.pending BY <1>6, ExitStep
  <1> HIDE DEF y
  <1>8. Pace(x, y) BY <1>5, <1>7, TamePace, PaceTwice DEF Step
  <1>9. Step(x, y) BY <1>7, <1>8 DEF Step
  <1>10. QED BY <1>1, <1>6, <1>7, <1>9

(* ActionContext::confirm_search *)
LEMMA ConfirmStep ==
  ASSUME NEW x, Fine(x), NEW found \in Matches(x.t)
  PROVE  Step(x, confirm_search(x, found))
  <1>1. CASE ~ViMode(x)
    <2>1. confirm_search(x, found) = cancel_search(x) BY <1>1 DEF confirm_search
    <2>2. QED BY <2>1, CancelStep
  <1>2. CASE ViMode(x)
    <2> DEFINE s == IF "DelayedSearch" \in x.timers THEN goto_match(x, FALSE, found) ELSE x
    <2>1. confirm_search(x, found) = exit_search(s) BY <1>2 DEF confirm_search
    <2>2. Calm(x, s) BY GotoCalm, CalmSelf
    <2> HIDE DEF s
    <2>3. Fine(s) BY <2>2 DEF Calm, Tame
    <2>4. Step(s, exit_search(s)) BY <2>3, ExitStep
    <2>5. QED BY <2>1, <2>2, <2>4, CalmThenStep
  <1>3. QED BY <1>1, <1>2

(* The history of a search that starts. *)
LEMMA NewRegexes ==
  ASSUME NEW g \in Seq(Nat), Len(g) <= MaxSearchHistory
  PROVE  LET h == NewRegex(g)
         IN  h \in Seq(Nat) /\ Len(h) \in 1 .. MaxSearchHistory /\ Regexes(g, h)
  <1> DEFINE c == << 0 >> \o g
             n == Smaller(Len(g) + 1, MaxSearchHistory)
             h == SubSeq(c, 1, n)
  <1>1. Len(g) \in Nat /\ MaxSearchHistory \in Nat \ {0} BY WindowAssumption
  <1>2. CASE g # << >> /\ Head(g) = 0
    <2>1. NewRegex(g) = g BY <1>2 DEF NewRegex
    <2>2. Len(g) # 0 BY <1>2, EmptySeq
    <2>3. QED BY <1>1, <2>1, <2>2, RegexesSelf
  <1>3. CASE ~(g # << >> /\ Head(g) = 0)
    <2>1. NewRegex(g) = h BY <1>3 DEF NewRegex
    <2>2. << 0 >> \in Seq(Nat) /\ Len(<< 0 >>) = 1 OBVIOUS
    <2>3. c \in Seq(Nat) /\ Len(c) = Len(g) + 1 BY <1>1, <2>2
    <2>4. ASSUME NEW i \in 1 .. Len(g) PROVE c[i + 1] = g[i]
      <3>1. i + 1 \in 1 .. Len(c) /\ i + 1 > 1 /\ (i + 1) - 1 = i BY <1>1, <2>3
      <3>2. QED BY <1>1, <2>2, <3>1
    <2> HIDE DEF c
    <2>5. n \in Nat /\ 1 <= n /\ n <= Len(c) /\ n <= MaxSearchHistory BY <1>1, <2>3 DEF Smaller
    <2>6. n < MaxSearchHistory => n = Len(g) + 1 BY <1>1 DEF Smaller
    <2> HIDE DEF n
    <2>7. h \in Seq(Nat) /\ Len(h) = n /\ \A i \in 1 .. n : h[i] = c[i]
      BY <2>3, <2>5
    <2> HIDE DEF h
    <2>8. Regexes(g, h)
      <3>1. SUFFICES ASSUME Len(h) < MaxSearchHistory
                     PROVE  /\ Len(h) - Len(g) >= 0
                            /\ \A i \in 2 .. Len(g) : h[i + (Len(h) - Len(g))] \in {g[i], 0}
        BY DEF Regexes
      <3>2. n = Len(g) + 1 /\ Len(h) - Len(g) = 1 BY <1>1, <2>6, <2>7, <3>1
      <3>3. ASSUME NEW i \in 2 .. Len(g) PROVE h[i + 1] = g[i]
        <4>1. i \in 1 .. Len(g) /\ i + 1 \in 1 .. n BY <1>1, <3>2
        <4>2. QED BY <2>4, <2>7, <4>1
      <3>4. QED BY <3>2, <3>3
    <2>9. QED BY <1>1, <2>1, <2>5, <2>7, <2>8
  <1>4. QED BY <1>2, <1>3

(* ActionContext::start_search *)
LEMMA StartStep ==
  ASSUME NEW x, Fine(x), NEW direction \in {"Left", "Right"}
  PROVE  LET y == start_search(x, direction) IN Step(x, y) /\ y.t = x.t /\ search_active(y)
  <1> DEFINE y == start_search(x, direction)
             t == x.t
             h == NewRegex(x.history)
             atBottom == t.grid.cursor + 1 = t.lines
             top == -t.grid.offset - 1
             o == IF ViMode(x) THEN (IF atBottom THEN t.vi - 1 ELSE t.vi)
                  ELSE IF direction = "Right" THEN top ELSE top + bottommost_line(dims(t))
             d == IF ViMode(x) THEN 0 ELSE x.delta
             ime == x.ime \ {"VI"}
             none == NoMatch
             first == 0
  <1>1. x \in WindowType BY DEF Fine
  <1>2. y = [x EXCEPT !.history = h, !.index = first, !.direction = direction, !.focused = none,
                      !.pending = TRUE, !.origin = o, !.delta = d, !.ime = ime]
    <2> DEFINE s == [x EXCEPT !.history = h, !.index = 0, !.direction = direction, !.focused = NoMatch,
                              !.pending = TRUE, !.origin = o, !.delta = d]
    <2>1. y = set_ime_inhibitor(s, "VI", FALSE) BY DEF start_search
    <2>2. y = [s EXCEPT !.ime = s.ime \ {"VI"}] BY <2>1 DEF set_ime_inhibitor
    <2> HIDE DEF h, o, d
    <2>3. s.ime = x.ime BY <1>1 DEF WindowType
    <2>4. QED BY <2>2, <2>3
  <1>3. /\ o \in Int /\ d \in Int /\ first \in Int /\ ime \in SUBSET {"FOCUS", "VI"}
        /\ none \in Int /\ none \in Matches(x.t)
    <2>1. t.vi \in Int /\ t.grid.offset \in Int /\ t.lines \in Int /\ x.delta \in Int /\ none \in Matches(x.t)
      BY Fining
    <2>2. bottommost_line(dims(t)) = t.lines - 1 BY DEF bottommost_line, dims
    <2>3. o \in Int BY <2>1, <2>2
    <2>4. d \in Int BY <2>1
    <2>5. ime \in SUBSET {"FOCUS", "VI"} BY <1>1 DEF WindowType
    <2>6. none \in Int BY DEF NoMatch
    <2>7. QED BY <2>1, <2>3, <2>4, <2>5, <2>6
  <1>4. h \in Seq(Nat) /\ Len(h) \in 1 .. MaxSearchHistory /\ Regexes(x.history, h)
    <2>1. x.history \in Seq(Nat) /\ Len(x.history) <= MaxSearchHistory BY FineHistory DEF Fine
    <2>2. QED BY <2>1, NewRegexes
  <1> HIDE DEF y, h, o, d, ime, none, first
  <1>5. y \in WindowType
    <2> DEFINE s == [x EXCEPT !.history = h, !.index = first, !.direction = direction, !.focused = none]
    <2>1. s \in WindowType BY <1>1, <1>3, <1>4 DEF WindowType
    <2>2. y = [s EXCEPT !.pending = TRUE, !.origin = o, !.delta = d, !.ime = ime] BY <1>2
    <2> HIDE DEF s
    <2>3. QED BY <1>3, <2>1, <2>2 DEF WindowType
  <1>6. /\ y.t = x.t /\ y.focused = none /\ y.timedOut = x.timedOut /\ y.hidden = x.hidden /\ y.timers = x.timers
        /\ y.dirty = x.dirty /\ y.pending /\ y.index = first /\ y.history = h /\ y.hint = x.hint
    BY <1>1, <1>2 DEF WindowType
  <1>7. search_active(y) BY <1>6 DEF search_active, first
  <1>8. ImeOk(y) BY <1>7 DEF ImeOk
  <1>9. y.index \in -1 .. Len(y.history) - 1 /\ Len(y.history) <= MaxSearchHistory
    <2>1. MaxSearchHistory \in Nat BY WindowAssumption
    <2>2. QED BY <1>4, <1>6, <2>1 DEF first
  <1>10. Pace(x, y) BY <1>3, <1>4, <1>5, <1>6, <1>8, <1>9, Paces
  <1>11. QED BY <1>6, <1>7, <1>10 DEF Step, y

(* Another regex of the first of the history, or of the one that is shown when that is emptied. *)
LEMMA Replaced ==
  ASSUME NEW g \in Seq(Nat), NEW k \in 1 .. Len(g), NEW r \in Nat, k = 1 \/ r = 0
  PROVE  LET h == [g EXCEPT ![k] = r] IN h \in Seq(Nat) /\ Len(h) = Len(g) /\ Regexes(g, h) /\ h[k] = r
  <1> DEFINE h == [g EXCEPT ![k] = r]
  <1>1. /\ h \in Seq(Nat) /\ Len(h) = Len(g)
        /\ \A i \in 1 .. Len(g) : h[i] = IF i = k THEN r ELSE g[i]
    BY ExceptSeq
  <1> HIDE DEF h
  <1>2. Len(g) \in Nat /\ Len(h) - Len(g) = 0 BY <1>1
  <1>3. ASSUME NEW i \in 2 .. Len(g) PROVE h[i + 0] \in {g[i], 0}
    <2>1. i + 0 = i /\ i \in 1 .. Len(g) /\ i # 1 BY <1>2
    <2>2. h[i] = IF i = k THEN r ELSE g[i] BY <1>1, <2>1
    <2>3. QED BY <2>1, <2>2
  <1>4. Regexes(g, h) BY <1>2, <1>3 DEF Regexes
  <1>5. QED BY <1>1, <1>4 DEF h

(* A window that searches for another regex. *)
Edited(x, h, k, u) == [x EXCEPT !.history = h, !.index = k, !.t = u]

LEMMA EditPace ==
  ASSUME NEW x, Fine(x), search_active(x), NEW h \in Seq(Nat), Len(h) = Len(x.history), Regexes(x.history, h),
         NEW k \in 0 .. Len(h) - 1, NEW u, Lies(u), InView(u), Alike(x.t, u)
  PROVE  LET y == Edited(x, h, k, u)
         IN  Pace(x, y) /\ search_active(y) /\ y.history = h /\ y.index = k /\ Matches(y.t) = Matches(x.t)
  <1> DEFINE y == Edited(x, h, k, u)
  <1>1. y = [x EXCEPT !.history = h, !.index = k, !.t = u] BY DEF Edited
  <1> HIDE DEF y
  <1>2. u \in TermType BY DEF Lies, Placed
  <1>3. x \in WindowType /\ Len(h) \in Nat BY DEF Fine
  <1>5. k \in Int BY <1>3
  <1>6. y \in WindowType BY <1>1, <1>2, <1>3, <1>5 DEF WindowType
  <1>7. /\ y.t = u /\ y.focused = x.focused /\ y.timedOut = x.timedOut /\ y.hidden = x.hidden /\ y.timers = x.timers
        /\ y.dirty = x.dirty /\ y.pending = x.pending /\ y.index = k /\ y.history = h /\ y.hint = x.hint
    BY <1>1, <1>3 DEF WindowType
  <1>8. search_active(y)
    <2>1. k # -1 BY <1>3
    <2>2. QED BY <1>7, <2>1 DEF search_active
  <1>9. ImeOk(y) BY <1>8 DEF ImeOk
  <1>10. y.index \in -1 .. Len(y.history) - 1 /\ Len(y.history) <= MaxSearchHistory
    <2>1. Len(x.history) <= MaxSearchHistory BY DEF Fine
    <2>2. QED BY <1>3, <1>7, <2>1
  <1>11. Matches(y.t) = Matches(x.t) BY <1>7, SameMatches DEF Alike
  <1>12. Blinks(y) BY <1>7 DEF Fine, Blinks
  <1>13. Fine(y) BY <1>2, <1>6, <1>7, <1>10, <1>11, <1>12 DEF Fine
  <1>14. Pace(x, y) BY <1>7, <1>9, <1>13 DEF Pace, Alike
  <1>15. QED BY <1>7, <1>8, <1>11, <1>14 DEF y

(* ... and looks for it. *)
LEMMA EditStep ==
  ASSUME NEW x, Fine(x), NEW z, Pace(x, z), search_active(z), NEW valid \in BOOLEAN, NEW found \in Matches(z.t)
  PROVE  Step(x, update_search(z, valid, found))
  <1> DEFINE y == update_search(z, valid, found)
  <1>1. Fine(z) BY DEF Pace
  <1>2. Calm(z, y) /\ y.dirty BY <1>1, SearchCalm
  <1> HIDE DEF y
  <1>3. Pace(z, y) BY <1>1, <1>2, TamePace DEF Calm
  <1>4. Pace(x, y) BY <1>3, PaceTwice
  <1>5. QED BY <1>2, <1>4 DEF Step, y

(* ActionContext::search_input *)
LEMMA SearchInputStep ==
  ASSUME NEW x, Fine(x), NEW c, NEW valid \in BOOLEAN, NEW found \in Matches(x.t)
  PROVE  Step(x, search_input(x, c, valid, found))
  <1> DEFINE y == search_input(x, c, valid, found)
  <1>1. CASE ~search_active(x)
    <2>1. y = x BY <1>1 DEF search_input
    <2>2. QED BY <2>1, StepSelf
  <1>2. CASE search_active(x)
    <2> DEFINE g == x.history
               one == 1
               zero == 0
               r == Regex(x)
               h == [g EXCEPT ![one] = r]
               front == [x EXCEPT !.history = h, !.index = zero]
               e == IF c = "backspace" THEN Larger(r - 1, 0) ELSE r + 1
               k == [g EXCEPT ![one] = e]
               s == IF ViMode(x) THEN x.t.sel ELSE NoSelection
               edited == [x EXCEPT !.history = k, !.index = zero, !.t = [x.t EXCEPT !.sel = s]]
    <2>1. g \in Seq(Nat) /\ Len(g) \in Nat /\ x.index \in 0 .. Len(g) - 1 /\ x \in WindowType
      <3>1. g \in Seq(Nat) /\ x.index \in Int /\ Len(g) \in Nat BY FineHistory
      <3>2. x.index \in -1 .. Len(g) - 1 /\ x.index # -1 /\ x \in WindowType BY <1>2 DEF Fine, search_active
      <3>3. QED BY <3>1, <3>2
    <2>2. one \in 1 .. Len(g) /\ x.index + 1 \in 1 .. Len(g) /\ zero \in 0 .. Len(g) - 1 BY <2>1
    <2>3. r \in Nat BY <2>1, <2>2 DEF Regex
    <2>4. e \in Nat BY <2>3 DEF Larger
    <2> HIDE DEF r, e
    <2>5. /\ h \in Seq(Nat) /\ Len(h) = Len(g) /\ Regexes(g, h) /\ h[one] = r
          /\ k \in Seq(Nat) /\ Len(k) = Len(g) /\ Regexes(g, k)
      BY <2>1, <2>2, <2>3, <2>4, Replaced
    <2>6. s \in AnySelection BY Fining DEF AnySelection
    <2>7. front = [x EXCEPT !.history = h, !.index = zero, !.t = x.t]
      <3> HIDE DEF h, zero
      <3>1. QED BY <2>1 DEF WindowType
    <2>8. c = "other" => y = front
      <3>1. [x EXCEPT !.history[1] = Regex(x), !.index = 0] = front BY DEF r
      <3>2. QED BY <1>2, <3>1 DEF search_input
    <2>9. c # "other" => y = update_search(edited, valid, found)
      <3> DEFINE f == [x EXCEPT !.history[1] = Regex(x), !.index = 0]
                 d == [f EXCEPT !.history[1] = IF c = "backspace" THEN Larger(@ - 1, 0) ELSE @ + 1,
                                !.t.sel = IF ViMode(x) THEN @ ELSE NoSelection]
      <3>1. f = front BY DEF r
      <3>2. f.history = h /\ f.t = x.t
        <4> HIDE DEF h, zero
        <4>1. QED BY <2>1, <3>1 DEF WindowType
      <3>3. d = [f EXCEPT !.history = [f.history EXCEPT ![1] = IF c = "backspace" THEN Larger(f.history[1] - 1, 0)
                                                               ELSE f.history[1] + 1],
                          !.t = [f.t EXCEPT !.sel = IF ViMode(x) THEN f.t.sel ELSE NoSelection]]
        OBVIOUS
      <3>4. h[1] = r BY <2>5
      <3>5. [h EXCEPT ![1] = e] = k BY <2>1
      <3> HIDE DEF f
      <3>6. d = [f EXCEPT !.history = k, !.t = [x.t EXCEPT !.sel = s]] BY <3>2, <3>3, <3>4, <3>5 DEF e
      <3>7. d = edited
        <4> DEFINE v == [x.t EXCEPT !.sel = s]
        <4> HIDE DEF h, k, zero, v, d
        <4>1. d = [front EXCEPT !.history = k, !.t = v] BY <3>1, <3>6 DEF v
        <4>2. edited = [x EXCEPT !.history = k, !.index = zero, !.t = v] BY DEF v
        <4>3. [front EXCEPT !.history = k, !.t = v] = [x EXCEPT !.history = k, !.index = zero, !.t = v]
          BY <2>1 DEF WindowType
        <4>4. QED BY <4>1, <4>2, <4>3
      <3>8. c # "other" => y = update_search(d, valid, found) BY <1>2 DEF search_input, f
      <3>9. QED BY <3>7, <3>8
    <2>10. Pace(x, front) /\ front.history = h /\ front.index = zero
      <3>1. Lies(x.t) /\ InView(x.t) /\ Alike(x.t, x.t) BY Fining DEF Alike
      <3>2. zero \in 0 .. Len(h) - 1 BY <2>2, <2>5
      <3> HIDE DEF h, zero, front
      <3>3. front = Edited(x, h, zero, x.t) BY <2>7 DEF Edited
      <3>4. h \in Seq(Nat) /\ Len(h) = Len(x.history) /\ Regexes(x.history, h) BY <2>5
      <3>5. QED BY <1>2, <3>1, <3>2, <3>3, <3>4, EditPace
    <2>11. Pace(x, edited) /\ search_active(edited) /\ Matches(edited.t) = Matches(x.t)
      <3> DEFINE u == [x.t EXCEPT !.sel = s]
      <3>1. Lies(u) /\ Alike(x.t, u) /\ u.vi = x.t.vi /\ u.grid = x.t.grid
        <4> HIDE DEF s
        <4>1. QED BY <2>6, Fining, SelectedLies
      <3>2. edited = [x EXCEPT !.history = k, !.index = zero, !.t = u] OBVIOUS
      <3>3. zero \in 0 .. Len(k) - 1 BY <2>2, <2>5
      <3> HIDE DEF k, zero, u, edited
      <3>4. InView(u) BY <3>1, Fining DEF InView, Alike
      <3>5. edited = Edited(x, k, zero, u) BY <3>2 DEF Edited
      <3>6. k \in Seq(Nat) /\ Len(k) = Len(x.history) /\ Regexes(x.history, k) BY <2>5
      <3>7. QED BY <1>2, <3>1, <3>3, <3>4, <3>5, <3>6, EditPace
    <2>12. CASE c = "other"
      <3>1. front.t = x.t /\ front.hidden = x.hidden /\ front.preedit = x.preedit /\ front.hint = x.hint
            /\ front.focused = x.focused /\ front.dfas = x.dfas
        <4> HIDE DEF h, zero
        <4>1. QED BY <2>1 DEF WindowType
      <3>2. search_active(front) /\ Regex(front) = Regex(x)
        <4>1. front.index = 0 /\ front.history = h BY <2>10
        <4>2. h[0 + 1] = Regex(x) BY <2>5 DEF r
        <4> HIDE DEF front, h
        <4>3. QED BY <4>1, <4>2 DEF search_active, Regex
      <3> HIDE DEF front
      <3>3. Still(x, front) BY <1>2, <3>1, <3>2 DEF Still, Visible, StaleMatch, ViMode
      <3>4. Step(x, front) BY <2>10, <3>3 DEF Step
      <3>5. QED BY <2>8, <2>12, <3>4
    <2>13. CASE c # "other"
      <3> HIDE DEF edited, y
      <3>1. Step(x, update_search(edited, valid, found)) BY <2>11, EditStep
      <3>2. QED BY <2>9, <2>13, <3>1 DEF y
    <2>14. QED BY <2>12, <2>13
  <1>3. QED BY <1>1, <1>2


(* ActionContext::search_pop_word, search_history_previous and search_history_next *)
LEMMA PopStep ==
  ASSUME NEW x, Fine(x)
  PROVE  Step(x, search_pop_word(x))
  <1> DEFINE y == search_pop_word(x)
  <1>1. CASE ~search_active(x)
    <2>1. y = x BY <1>1 DEF search_pop_word
    <2>2. QED BY <2>1, StepSelf
  <1>2. CASE search_active(x)
    <2> DEFINE g == x.history
               i == x.index
               k == i + 1
               none == 0
               h == [g EXCEPT ![k] = none]
               z == Edited(x, h, i, x.t)
    <2>1. g \in Seq(Nat) /\ Len(g) \in Nat /\ i \in 0 .. Len(g) - 1 /\ x \in WindowType
      <3>1. g \in Seq(Nat) /\ i \in Int /\ Len(g) \in Nat BY FineHistory
      <3>2. i \in -1 .. Len(g) - 1 /\ i # -1 /\ x \in WindowType BY <1>2 DEF Fine, search_active
      <3>3. QED BY <3>1, <3>2
    <2>2. k \in 1 .. Len(g) /\ none \in Nat BY <2>1
    <2>3. h \in Seq(Nat) /\ Len(h) = Len(g) /\ Regexes(g, h) BY <2>1, <2>2, Replaced
    <2>4. y = update_search(z, FALSE, NoMatch)
      <3>1. y = update_search([x EXCEPT !.history[k] = 0], FALSE, NoMatch) BY <1>2 DEF search_pop_word
      <3>2. [x EXCEPT !.history[k] = 0] = [x EXCEPT !.history = h] OBVIOUS
      <3> HIDE DEF h
      <3>3. [x EXCEPT !.history = h] = [x EXCEPT !.history = h, !.index = x.index, !.t = x.t]
        BY <2>1 DEF WindowType
      <3>4. QED BY <3>1, <3>2, <3>3 DEF Edited
    <2>5. Lies(x.t) /\ InView(x.t) /\ Alike(x.t, x.t) BY Fining DEF Alike
    <2>6. i \in 0 .. Len(h) - 1 /\ h \in Seq(Nat) /\ Len(h) = Len(x.history) /\ Regexes(x.history, h) BY <2>1, <2>3
    <2> HIDE DEF h, y, i
    <2>7. Pace(x, z) /\ search_active(z) /\ Matches(z.t) = Matches(x.t)
      BY <1>2, <2>5, <2>6, EditPace
    <2>8. NoMatch \in Matches(z.t) BY <2>7, Fining
    <2> HIDE DEF z
    <2>9. QED BY <2>4, <2>7, <2>8, EditStep DEF y
  <1>3. QED BY <1>1, <1>2

LEMMA RecallStep ==
  ASSUME NEW x, Fine(x), search_active(x), NEW i \in 0 .. Len(x.history) - 1,
         NEW valid \in BOOLEAN, NEW found \in Matches(x.t)
  PROVE  Step(x, update_search([x EXCEPT !.index = i], valid, found))
  <1> DEFINE z == Edited(x, x.history, i, x.t)
  <1>1. x \in WindowType /\ x.history \in Seq(Nat) BY FineHistory DEF Fine
  <1>2. z = [x EXCEPT !.index = i] BY <1>1 DEF WindowType, Edited
  <1>3. Lies(x.t) /\ InView(x.t) /\ Alike(x.t, x.t) BY Fining DEF Alike
  <1>4. Regexes(x.history, x.history) BY <1>1, RegexesSelf
  <1>5. Pace(x, z) /\ search_active(z) /\ Matches(z.t) = Matches(x.t) BY <1>1, <1>3, <1>4, EditPace
  <1> HIDE DEF z
  <1>6. Step(x, update_search(z, valid, found)) BY <1>5, EditStep
  <1>7. QED BY <1>2, <1>6

LEMMA HistoryStep ==
  ASSUME NEW x, Fine(x), search_active(x), NEW valid \in BOOLEAN, NEW found \in Matches(x.t)
  PROVE  /\ Step(x, search_history_previous(x, valid, found))
         /\ Step(x, search_history_next(x, valid, found))
  <1> DEFINE up == x.index + 1
             down == x.index - 1
  <1>1. x.index \in 0 .. Len(x.history) - 1 /\ Len(x.history) \in Nat
    <2>1. Len(x.history) \in Nat BY FineHistory
    <2>2. x.index \in -1 .. Len(x.history) - 1 /\ x.index # -1 BY DEF Fine, search_active
    <2>3. QED BY <2>1, <2>2
  <1>2. Step(x, search_history_previous(x, valid, found))
    <2>1. CASE x.index + 1 >= Len(x.history)
      <3>1. search_history_previous(x, valid, found) = x BY <2>1 DEF search_history_previous
      <3>2. QED BY <3>1, StepSelf
    <2>2. CASE ~(x.index + 1 >= Len(x.history))
      <3>1. search_history_previous(x, valid, found) = update_search([x EXCEPT !.index = up], valid, found)
        BY <2>2 DEF search_history_previous
      <3>2. up \in 0 .. Len(x.history) - 1 BY <1>1, <2>2
      <3> HIDE DEF up
      <3>3. QED BY <3>1, <3>2, RecallStep
    <2>3. QED BY <2>1, <2>2
  <1>3. Step(x, search_history_next(x, valid, found))
    <2>1. CASE x.index = 0
      <3>1. search_history_next(x, valid, found) = x BY <2>1 DEF search_history_next
      <3>2. QED BY <3>1, StepSelf
    <2>2. CASE x.index # 0
      <3>1. search_history_next(x, valid, found) = update_search([x EXCEPT !.index = down], valid, found)
        BY <2>2 DEF search_history_next
      <3>2. down \in 0 .. Len(x.history) - 1 BY <1>1, <2>2
      <3> HIDE DEF down
      <3>3. QED BY <3>1, <3>2, RecallStep
    <2>3. QED BY <2>1, <2>2
  <1>4. QED BY <1>2, <1>3

(* A view and an origin that a search takes. *)
Carried(x, u, d, o) == [x EXCEPT !.delta = d, !.t = u, !.origin = o]

LEMMA CarriedTame ==
  ASSUME NEW x, Fine(x), NEW u, Lies(u), InView(u), Alike(x.t, u), NEW d \in Int, NEW o \in Int
  PROVE  LET y == Carried(x, u, d, o) IN Tame(x, y) /\ y.t = u /\ y.focused = x.focused /\ y.dfas = x.dfas /\ y.dirty = x.dirty
  <1> DEFINE y == Carried(x, u, d, o)
  <1>1. y = [x EXCEPT !.delta = d, !.t = u, !.origin = o] BY DEF Carried
  <1>2. x \in WindowType /\ u \in TermType BY DEF Fine, Lies, Placed
  <1> HIDE DEF y
  <1>3. y \in WindowType BY <1>1, <1>2 DEF WindowType
  <1>4. Frame(x, y) BY <1>1, <1>2 DEF WindowType, Frame
  <1>5. /\ y.t = u /\ y.focused = x.focused /\ y.timedOut = x.timedOut /\ y.hidden = x.hidden
        /\ y.timers = x.timers /\ y.dirty = x.dirty /\ y.dfas = x.dfas
    BY <1>1, <1>2 DEF WindowType
  <1>6. Blinks(y) BY <1>5 DEF Fine, Blinks
  <1>7. Tame(x, y) BY <1>3, <1>4, <1>5, <1>6, Fining, Tames
  <1>8. QED BY <1>5, <1>7 DEF y

(* ActionContext::advance_search_origin *)
LEMMA AdvanceStep ==
  ASSUME NEW x, Fine(x), search_active(x), NEW found \in Matches(x.t)
  PROVE  Step(x, advance_search_origin(x, found))
  <1> DEFINE s == IF x.focused = NoMatch THEN x
                  ELSE [x EXCEPT !.t = scroll_to_point(x.t, x.focused), !.delta = 0, !.origin = x.focused]
             m == goto_match(s, FALSE, found)
             there == scroll_to_point(m.t, m.focused)
             delta == there.grid.offset - m.t.grid.offset
             u == scroll_display(there, -delta)
             y == IF m.focused = NoMatch THEN m ELSE Carried(m, u, delta, m.focused)
             zero == 0
  <1>1. advance_search_origin(x, found) = y BY DEF advance_search_origin, Carried
  <1>2. Tame(x, s) /\ (x.focused = NoMatch => s = x) /\ s.dfas = x.dfas
    <2>1. CASE x.focused = NoMatch
      <3>1. s = x BY <2>1
      <3>2. QED BY <3>1, CalmSelf DEF Calm
    <2>2. CASE x.focused # NoMatch
      <3> DEFINE v == scroll_to_point(x.t, x.focused)
      <3>1. s = Carried(x, v, zero, x.focused) BY <2>2 DEF Carried
      <3>2. x.focused \in Int /\ zero \in Int BY Fining
      <3>3. Lies(v) /\ InView(v) /\ Alike(x.t, v) BY <3>2, Fining, ScrollToLies
      <3> HIDE DEF v, s, zero
      <3>4. QED BY <2>2, <3>1, <3>2, <3>3, CarriedTame
    <2>3. QED BY <2>1, <2>2
  <1> HIDE DEF s
  <1>3. Fine(s) /\ found \in Matches(s.t) BY <1>2, SameMatches DEF Tame, Alike
  <1>4. Calm(s, m) /\ (s.dfas => m.dirty) BY <1>3, GotoCalm
  <1> HIDE DEF m
  <1>5. Fine(m) /\ Tame(x, m) BY <1>2, <1>4, TameTwice DEF Calm, Tame
  <1>6. Tame(m, y) /\ (m.focused = NoMatch => y = m)
    <2>1. CASE m.focused = NoMatch
      <3>1. y = m BY <2>1
      <3>2. QED BY <1>5, <3>1, CalmSelf DEF Calm
    <2>2. CASE m.focused # NoMatch
      <3>1. y = Carried(m, u, delta, m.focused) BY <2>2
      <3>2. m.focused \in Int /\ m.t.grid.offset \in Nat BY <1>5, Fining
      <3>3. Lies(there) /\ InView(there) /\ Alike(m.t, there) BY <1>5, <3>2, Fining, ScrollToLies
      <3> HIDE DEF there
      <3>4. there.grid.offset \in Nat BY <3>3, Lying
      <3>5. delta \in Int /\ -delta \in Int BY <3>2, <3>4
      <3> HIDE DEF delta
      <3>6. Lies(u) /\ InView(u) /\ Alike(there, u) BY <3>3, <3>5, ScrollLies
      <3>7. Alike(m.t, u) BY <3>3, <3>6 DEF Alike
      <3> HIDE DEF u, y
      <3>8. QED BY <1>5, <2>2, <3>1, <3>2, <3>5, <3>6, <3>7, CarriedTame
    <2>3. QED BY <2>1, <2>2
  <1> HIDE DEF y
  <1>7. Tame(x, y) BY <1>5, <1>6, TameTwice
  <1>8. Pace(x, y) BY <1>7, TamePace
  <1>9. CASE x.focused # NoMatch /\ ~x.dfas
    <2>1. StaleMatch(x) BY <1>9 DEF StaleMatch
    <2>2. QED BY <1>1, <1>8, <2>1 DEF Step
  <1>10. CASE x.dfas
    <2>1. y.dirty BY <1>2, <1>4, <1>6, <1>10 DEF Tame
    <2>2. QED BY <1>1, <1>8, <2>1 DEF Step
  <1>11. CASE x.focused = NoMatch
    <2>1. Calm(x, m) BY <1>2, <1>4, <1>11
    <2>2. CASE m.focused = NoMatch
      <3>1. Step(x, m) BY <2>1, CalmStep
      <3>2. QED BY <1>1, <1>6, <2>2, <3>1
    <2>3. CASE m.focused # NoMatch
      <3>1. m.dirty BY <1>11, <2>1, <2>3 DEF Calm, Looks
      <3>2. y.dirty BY <1>6, <3>1 DEF Tame
      <3>3. QED BY <1>1, <1>8, <3>2 DEF Step
    <2>4. QED BY <2>2, <2>3
  <1>12. QED BY <1>9, <1>10, <1>11

(* ActionContext::start_seeded_search *)
LEMMA SeededStep ==
  ASSUME NEW x, Fine(x), NEW direction \in {"Left", "Right"}, NEW found \in Matches(x.t), NEW next \in Matches(x.t)
  PROVE  Step(x, start_seeded_search(x, direction, found, next))
  <1> DEFINE a == clear_selection(x)
             b == start_search(a, direction)
             c == search_input(b, "print", TRUE, found)
             d == confirm_search(c, found)
             y == ViJump(d, next)
  <1>1. start_seeded_search(x, direction, found, next) = y BY DEF start_seeded_search
  <1>2. Step(x, a) BY ClearCalm, CalmStep
  <1> HIDE DEF a
  <1>3. Fine(a) BY <1>2 DEF Step, Pace
  <1>4. Step(a, b) BY <1>3, StartStep
  <1> HIDE DEF b
  <1>5. Step(x, b) BY <1>2, <1>4, StepTwice
  <1>6. Fine(b) /\ found \in Matches(b.t) BY <1>5, SameMatches DEF Step, Pace
  <1>7. Step(b, c) BY <1>6, SearchInputStep
  <1> HIDE DEF c
  <1>8. Step(x, c) BY <1>5, <1>7, StepTwice
  <1>9. Fine(c) /\ found \in Matches(c.t) BY <1>8, SameMatches DEF Step, Pace
  <1>10. Step(c, d) BY <1>9, ConfirmStep
  <1> HIDE DEF d
  <1>11. Step(x, d) BY <1>8, <1>10, StepTwice
  <1>12. Fine(d) /\ next \in Matches(d.t) BY <1>11, SameMatches DEF Step, Pace
  <1>13. Calm(d, y) BY <1>12, JumpCalm
  <1> HIDE DEF y
  <1>14. QED BY <1>1, <1>11, <1>13, StepThenCalm


-------------------------------------------------------------------------------
(* The inline search, vi mode and hints. *)
LEMMA UnseenStep ==
  ASSUME NEW x, Fine(x), NEW y, Pace(x, y), y.t = x.t, y.hidden = x.hidden, y.preedit = x.preedit, y.hint = x.hint,
         y.index = x.index, y.history = x.history, y.focused = x.focused, y.dfas = x.dfas
  PROVE  Step(x, y)
  <1>1. Still(x, y) BY DEF Still, Visible, StaleMatch, search_active, Regex, ViMode
  <1>2. QED BY <1>1 DEF Step

(* ActionContext::start_inline_search *)
LEMMA InlineStartStep ==
  ASSUME NEW x, Fine(x)
  PROVE  Step(x, start_inline_search(x))
  <1> DEFINE y == start_inline_search(x)
  <1>1. y = [x EXCEPT !.charPending = TRUE, !.character = FALSE] BY DEF start_inline_search
  <1>2. x \in WindowType BY DEF Fine
  <1> HIDE DEF y
  <1>3. y \in WindowType BY <1>1, <1>2 DEF WindowType
  <1>4. /\ y.t = x.t /\ y.focused = x.focused /\ y.timedOut = x.timedOut /\ y.hidden = x.hidden /\ y.timers = x.timers
        /\ y.dirty = x.dirty /\ y.pending = x.pending /\ y.index = x.index /\ y.history = x.history /\ y.hint = x.hint
        /\ y.charPending
    BY <1>1, <1>2 DEF WindowType
  <1>5. y.preedit = x.preedit /\ y.dfas = x.dfas BY <1>1, <1>2 DEF WindowType
  <1>6. ImeOk(y) BY <1>4 DEF ImeOk
  <1>7. Regexes(x.history, y.history) BY <1>4, FineHistory, RegexesSelf
  <1>8. y.index \in -1 .. Len(y.history) - 1 /\ Len(y.history) <= MaxSearchHistory BY <1>4 DEF Fine
  <1>9. Pace(x, y) BY <1>3, <1>4, <1>6, <1>7, <1>8, Fining, Paces
  <1>10. Step(x, y) BY <1>4, <1>5, <1>9, UnseenStep
  <1>11. QED BY <1>10 DEF y

(* The input method is off, or on while a character is awaited. *)
LEMMA ImePace ==
  ASSUME NEW x, Fine(x), NEW ime \in SUBSET {"FOCUS", "VI"}, ImeOk(x) => ImeOk([x EXCEPT !.ime = ime])
  PROVE  Step(x, [x EXCEPT !.ime = ime])
  <1> DEFINE y == [x EXCEPT !.ime = ime]
  <1>2. x \in WindowType BY DEF Fine
  <1>3. y \in WindowType BY <1>2 DEF WindowType
  <1>4. /\ y.t = x.t /\ y.focused = x.focused /\ y.timedOut = x.timedOut /\ y.hidden = x.hidden /\ y.timers = x.timers
        /\ y.dirty = x.dirty /\ y.pending = x.pending /\ y.index = x.index /\ y.history = x.history /\ y.hint = x.hint
    BY <1>2 DEF WindowType
  <1>5. y.preedit = x.preedit /\ y.dfas = x.dfas BY <1>2 DEF WindowType
  <1>6. ImeOk(x) => ImeOk(y) OBVIOUS
  <1> HIDE DEF y
  <1>7. Regexes(x.history, y.history) BY <1>4, FineHistory, RegexesSelf
  <1>8. y.index \in -1 .. Len(y.history) - 1 /\ Len(y.history) <= MaxSearchHistory BY <1>4 DEF Fine
  <1>9. Pace(x, y) BY <1>3, <1>4, <1>6, <1>7, <1>8, Fining, Paces
  <1>10. Step(x, y) BY <1>4, <1>5, <1>9, UnseenStep
  <1>11. QED BY <1>10 DEF y

(* ActionContext::inline_search *)
LEMMA InlineStep ==
  ASSUME NEW x, Fine(x), NEW found
  PROVE  Step(x, inline_search(x, found))
  <1>1. Step(x, x) BY StepSelf
  <1>2. Step(x, mark_dirty(x)) BY DirtyTame, CalmStep
  <1>3. QED BY <1>1, <1>2 DEF inline_search

(* ActionContext::inline_search_input *)
LEMMA InlineInputStep ==
  ASSUME NEW x, Fine(x), NEW text, NEW found
  PROVE  Step(x, inline_search_input(x, text, found))
  <1>1. CASE text = << >>
    <2>1. inline_search_input(x, text, found) = x BY <1>1 DEF inline_search_input
    <2>2. QED BY <2>1, StepSelf
  <1>2. CASE text # << >>
    <2> DEFINE ime == x.ime \union {"VI"}
               z == [set_ime_inhibitor(x, "VI", TRUE) EXCEPT !.charPending = FALSE, !.character = TRUE]
    <2>1. inline_search_input(x, text, found) = inline_search(z, found) BY <1>2 DEF inline_search_input
    <2>2. z = [x EXCEPT !.ime = ime, !.charPending = FALSE, !.character = TRUE] BY DEF set_ime_inhibitor
    <2>3. x \in WindowType BY DEF Fine
    <2>4. ime \in SUBSET {"FOCUS", "VI"} /\ "VI" \in ime BY <2>3 DEF WindowType
    <2> HIDE DEF z, ime
    <2>5. z \in WindowType BY <2>2, <2>3, <2>4 DEF WindowType
    <2>6. /\ z.t = x.t /\ z.focused = x.focused /\ z.timedOut = x.timedOut /\ z.hidden = x.hidden /\ z.timers = x.timers
          /\ z.dirty = x.dirty /\ z.pending = x.pending /\ z.index = x.index /\ z.history = x.history /\ z.hint = x.hint
          /\ z.ime = ime
      BY <2>2, <2>3 DEF WindowType
    <2>7. z.preedit = x.preedit /\ z.dfas = x.dfas BY <2>2, <2>3 DEF WindowType
    <2>8. ImeOk(z) BY <2>4, <2>6 DEF ImeOk
    <2>9. Regexes(x.history, z.history) BY <2>6, FineHistory, RegexesSelf
    <2>10. z.index \in -1 .. Len(z.history) - 1 /\ Len(z.history) <= MaxSearchHistory BY <2>6 DEF Fine
    <2>11. Pace(x, z) BY <2>5, <2>6, <2>8, <2>9, <2>10, Fining, Paces
    <2>12. Step(x, z) BY <2>6, <2>7, <2>11, UnseenStep
    <2>13. Fine(z) BY <2>11 DEF Pace
    <2>14. Step(z, inline_search(z, found)) BY <2>13, InlineStep
    <2>15. QED BY <2>1, <2>12, <2>14, StepTwice
  <1>3. QED BY <1>1, <1>2

(* A terminal in another mode, drawn, with the input method on or off. *)
Moded(x, ime, r) == [x EXCEPT !.ime = ime, !.t = r, !.dirty = TRUE]

LEMMA ModedFine ==
  ASSUME NEW x, Fine(x), NEW ime \in SUBSET {"FOCUS", "VI"}, NEW r, Lies(r), InView(r),
         r.lines = x.t.lines, r.grid.history = x.t.grid.history
  PROVE  LET y == Moded(x, ime, r)
         IN  /\ Fine(y) /\ y.t = r /\ y.ime = ime /\ y.dirty /\ y.pending = x.pending /\ y.hint = x.hint
             /\ y.history = x.history
  <1> DEFINE y == Moded(x, ime, r)
  <1>1. y = [x EXCEPT !.ime = ime, !.t = r, !.dirty = TRUE] BY DEF Moded
  <1>2. x \in WindowType /\ r \in TermType BY DEF Fine, Lies, Placed
  <1> HIDE DEF y
  <1>3. y \in WindowType BY <1>1, <1>2 DEF WindowType
  <1>4. /\ y.t = r /\ y.focused = x.focused /\ y.timedOut = x.timedOut /\ y.hidden = x.hidden /\ y.timers = x.timers
        /\ y.dirty /\ y.pending = x.pending /\ y.index = x.index /\ y.history = x.history /\ y.hint = x.hint
        /\ y.ime = ime
    BY <1>1, <1>2 DEF WindowType
  <1>5. Matches(y.t) = Matches(x.t) BY <1>4, SameMatches
  <1>6. Blinks(y) BY <1>4 DEF Fine, Blinks
  <1>7. Fine(y) BY <1>3, <1>4, <1>5, <1>6 DEF Fine
  <1>8. QED BY <1>4, <1>7 DEF y

(* ActionContext::toggle_vi_mode *)
LEMMA ToggleStep ==
  ASSUME NEW x, Fine(x)
  PROVE  Step(x, toggle_vi_mode_ui(x))
  <1> DEFINE s == IF ViMode(x) THEN [x EXCEPT !.dfas = FALSE] ELSE clear_selection(x)
             u == IF search_active(s) THEN cancel_search(s) ELSE s
             r == toggle_vi_mode(u.t)
             ime == IF ~ViMode(x) THEN u.ime \union {"VI"} ELSE u.ime \ {"VI"}
             y == Moded(u, ime, r)
  <1>1. Tame(x, s) BY DfasTame, ClearCalm DEF Calm
  <1>3. toggle_vi_mode_ui(x) = [ [u EXCEPT !.ime = ime] EXCEPT !.t = toggle_vi_mode([u EXCEPT !.ime = ime].t), !.dirty = TRUE]
    BY Zenon DEF toggle_vi_mode_ui, set_ime_inhibitor
  <1> HIDE DEF s
  <1>2. Fine(s) /\ s.t.mode = x.t.mode /\ Pace(x, s) BY <1>1, TamePace DEF Tame, Alike
  <1>4. Pace(s, u) /\ u.t.mode = s.t.mode BY <1>2, CancelStep, StepSelf DEF Step
  <1> HIDE DEF u
  <1>5. Pace(x, u) /\ Fine(u) /\ u.t.mode = x.t.mode BY <1>2, <1>4, PaceTwice DEF Pace
  <1>6. u \in WindowType BY <1>5 DEF Fine
  <1>7. ime \in SUBSET {"FOCUS", "VI"} /\ (~ViMode(x) => "VI" \in ime)
    <2>1. u.ime \in SUBSET {"FOCUS", "VI"} BY <1>6 DEF WindowType
    <2>2. QED BY <2>1
  <1> HIDE DEF ime
  <1>8. toggle_vi_mode_ui(x) = y
    <2>1. [u EXCEPT !.ime = ime].t = u.t BY <1>6 DEF WindowType
    <2>2. toggle_vi_mode_ui(x) = [ [u EXCEPT !.ime = ime] EXCEPT !.t = r, !.dirty = TRUE] BY <1>3, <2>1
    <2> HIDE DEF r
    <2>3. [ [u EXCEPT !.ime = ime] EXCEPT !.t = r, !.dirty = TRUE] = [u EXCEPT !.ime = ime, !.t = r, !.dirty = TRUE]
      BY <1>6 DEF WindowType
    <2>4. QED BY <2>2, <2>3 DEF Moded
  <1>9. Lies(r) /\ InView(r) /\ r.lines = u.t.lines /\ r.grid = u.t.grid /\ ("VI" \in r.mode) = ("VI" \notin u.t.mode)
    BY <1>5, Fining, ToggleLies
  <1> HIDE DEF r
  <1>10. /\ Fine(y) /\ y.t = r /\ y.ime = ime /\ y.dirty /\ y.pending = u.pending /\ y.hint = u.hint
         /\ y.history = u.history
    BY <1>5, <1>7, <1>9, ModedFine
  <1> HIDE DEF y
  <1>11. ImeOk(y)
    <2>1. ViMode(y) => ~ViMode(x) BY <1>5, <1>9, <1>10 DEF ViMode
    <2>2. QED BY <1>7, <1>10, <2>1 DEF ImeOk
  <1>12. Regexes(u.history, y.history) BY <1>5, <1>10, FineHistory, RegexesSelf
  <1>13. Pace(u, y) BY <1>9, <1>10, <1>11, <1>12 DEF Pace
  <1>14. Pace(x, y) BY <1>5, <1>13, PaceTwice
  <1>15. QED BY <1>8, <1>10, <1>14 DEF Step

(* ActionContext::paste *)
LEMMA PasteStep ==
  ASSUME NEW x, Fine(x), NEW valid \in BOOLEAN, NEW found \in Matches(x.t)
  PROVE  Step(x, paste(x, valid, found))
  <1>1. CASE search_active(x)
    <2>1. paste(x, valid, found) = search_input(x, "print", valid, found) BY <1>1 DEF paste
    <2>2. QED BY <2>1, SearchInputStep
  <1>2. CASE ~search_active(x) /\ x.charPending
    <2>1. paste(x, valid, found) = inline_search_input(x, << 1 >>, found) BY <1>2 DEF paste
    <2>2. QED BY <2>1, InlineInputStep
  <1>3. CASE ~search_active(x) /\ ~x.charPending
    <2>1. paste(x, valid, found) = Write(x) BY <1>3 DEF paste
    <2>2. QED BY <2>1, WriteCalm, CalmStep
  <1>4. QED BY <1>1, <1>2, <1>3

(* A hint is chosen, or canceled. *)
Chosen(x) == [x EXCEPT !.hint = "none"]

LEMMA ChosenPace ==
  ASSUME NEW x, Fine(x)
  PROVE  Pace(x, Chosen(x)) /\ Chosen(x).t = x.t /\ Chosen(x).hint = "none"
  <1> DEFINE y == Chosen(x)
  <1>1. y = [x EXCEPT !.hint = "none"] BY DEF Chosen
  <1>2. x \in WindowType BY DEF Fine
  <1> HIDE DEF y
  <1>3. y \in WindowType BY <1>1, <1>2 DEF WindowType, HintActions
  <1>4. /\ y.t = x.t /\ y.focused = x.focused /\ y.timedOut = x.timedOut /\ y.hidden = x.hidden /\ y.timers = x.timers
        /\ y.dirty = x.dirty /\ y.pending = x.pending /\ y.index = x.index /\ y.history = x.history
        /\ y.charPending = x.charPending /\ y.ime = x.ime
    BY <1>1, <1>2 DEF WindowType
  <1>5. y.hint = "none" BY <1>1, <1>2 DEF WindowType
  <1>6. ImeOk(x) => ImeOk(y) BY <1>4 DEF ImeOk, ViMode, search_active
  <1>7. Regexes(x.history, y.history) BY <1>4, FineHistory, RegexesSelf
  <1>8. y.index \in -1 .. Len(y.history) - 1 /\ Len(y.history) <= MaxSearchHistory BY <1>4 DEF Fine
  <1>9. Pace(x, y) BY <1>3, <1>4, <1>5, <1>6, <1>7, <1>8, Fining, Paces
  <1>10. QED BY <1>4, <1>5, <1>9 DEF y

(* ActionContext::trigger_hint *)
LEMMA TriggerStep ==
  ASSUME NEW x, Fine(x), NEW action \in {"Command", "Copy", "Paste", "Select"}, NEW line \in Int,
         line + x.t.grid.offset \in 0 .. x.t.lines - 1, NEW valid \in BOOLEAN, NEW found \in Matches(x.t)
  PROVE  Step(x, trigger_hint(x, action, line, valid, found))
  <1>1. CASE action \in {"Command", "Copy"}
    <2>1. trigger_hint(x, action, line, valid, found) = x BY <1>1 DEF trigger_hint
    <2>2. QED BY <2>1, StepSelf
  <1>2. CASE action = "Paste"
    <2>1. trigger_hint(x, action, line, valid, found) = paste(x, valid, found) BY <1>2 DEF trigger_hint
    <2>2. QED BY <2>1, PasteStep
  <1>3. CASE action = "Select"
    <2> DEFINE a == start_selection(x, "Simple", line)
               b == update_selection(a, line, "Right")
    <2>1. trigger_hint(x, action, line, valid, found) = b BY <1>3 DEF trigger_hint
    <2>2. Calm(x, a) /\ a.t.grid = x.t.grid BY StartCalm
    <2> HIDE DEF a
    <2>3. Fine(a) /\ line + a.t.grid.offset \in 0 .. a.t.lines - 1 BY <2>2 DEF Calm, Tame, Alike
    <2>4. Calm(a, b) BY <2>3, UpdateCalm
    <2> HIDE DEF b
    <2>5. QED BY <2>1, <2>2, <2>4, CalmTwice, CalmStep
  <1>4. QED BY <1>1, <1>2, <1>3

(* A window that is marked dirty. *)
LEMMA DirtyStep ==
  ASSUME NEW x, Fine(x), NEW z, Pace(x, z)
  PROVE  Step(x, mark_dirty(z)) /\ mark_dirty(z).dirty
  <1>1. Fine(z) BY DEF Pace
  <1>2. Pace(z, mark_dirty(z)) /\ mark_dirty(z).dirty BY <1>1, DirtyTame, TamePace DEF Calm
  <1>3. Pace(x, mark_dirty(z)) BY <1>2, PaceTwice
  <1>4. QED BY <1>2, <1>3 DEF Step

(* ActionContext::hint_input *)
LEMMA HintInputStep ==
  ASSUME NEW x, Fine(x), x.hint # "none", NEW cancel \in BOOLEAN, NEW line \in {NoMatch, -x.t.grid.offset},
         NEW valid \in BOOLEAN, NEW found \in Matches(x.t)
  PROVE  Step(x, hint_input(x, cancel, line, valid, found))
  <1> DEFINE y == hint_input(x, cancel, line, valid, found)
             z == Chosen(x)
  <1>1. Pace(x, z) /\ z.t = x.t /\ z.hint = "none" /\ Fine(z) BY ChosenPace DEF Pace
  <1>2. CASE cancel
    <2>1. y = mark_dirty(z) BY <1>2 DEF hint_input, Chosen
    <2> HIDE DEF z
    <2>2. QED BY <1>1, <2>1, DirtyStep
  <1>3. CASE ~cancel /\ line = NoMatch
    <2>1. y = mark_dirty(x) BY <1>3 DEF hint_input
    <2>2. QED BY <2>1, DirtyTame, CalmStep
  <1>4. CASE ~cancel /\ line # NoMatch
    <2> DEFINE m == trigger_hint(z, x.hint, line, valid, found)
    <2>1. y = mark_dirty(m) BY <1>4 DEF hint_input, Chosen
    <2>2. /\ line \in Int /\ line + x.t.grid.offset \in 0 .. x.t.lines - 1 /\ line \in GridLines(dims(x.t))
      <3>1. /\ x.t.grid.offset \in Nat /\ x.t.lines \in Nat \ {0} /\ x.t.grid.offset <= x.t.grid.history
            /\ x.t.grid.history \in Nat /\ GridLines(dims(x.t)) = -x.t.grid.history .. x.t.lines - 1
        BY Fining, Lying
      <3>2. line = -x.t.grid.offset BY <1>4
      <3> DEFINE o == x.t.grid.offset
                 l == x.t.lines
                 g == x.t.grid.history
      <3>3. o \in Nat /\ l \in Nat \ {0} /\ g \in Nat /\ o <= g BY <3>1
      <3> HIDE DEF o, l, g
      <3>4. -o \in Int /\ -o + o \in 0 .. l - 1 /\ -o \in -g .. l - 1 BY <3>3
      <3>5. QED BY <3>1, <3>2, <3>4 DEF o, l, g
    <2>3. CASE x.hint # "MoveViModeCursor"
      <3>1. x.hint \in {"Command", "Copy", "Paste", "Select"} BY <2>3, FineHistory DEF HintActions
      <3> HIDE DEF z
      <3>2. Step(z, m) BY <1>1, <2>2, <3>1, TriggerStep
      <3> HIDE DEF m
      <3>3. Pace(x, m) BY <1>1, <3>2, PaceTwice DEF Step
      <3>4. QED BY <2>1, <3>3, DirtyStep
    <2>4. CASE x.hint = "MoveViModeCursor"
      <3> DEFINE p == IF ViMode(z) THEN z.t ELSE toggle_vi_mode(z.t)
                 r == vi_goto_point(p, line)
                 v == Moded(z, z.ime, r)
      <3>1. y = mark_dirty(mark_dirty([z EXCEPT !.t = r])) BY <2>1, <2>4 DEF trigger_hint
      <3> HIDE DEF z
      <3>2. z \in WindowType /\ z.ime \in SUBSET {"FOCUS", "VI"}
        <4>1. z \in WindowType BY <1>1 DEF Fine
        <4>2. QED BY <4>1 DEF WindowType
      <3>3. Lies(p) /\ InView(p) /\ p.lines = z.t.lines /\ p.grid = z.t.grid
        BY <1>1, Fining, ToggleLies
      <3> HIDE DEF p
      <3>4. line \in GridLines(dims(p))
        <4>1. GridLines(dims(p)) = GridLines(dims(x.t)) BY <1>1, <3>3 DEF GridLines, dims, topmost_line, bottommost_line
        <4>2. QED BY <2>2, <4>1
      <3>5. Lies(r) /\ InView(r) /\ r.lines = z.t.lines /\ r.grid.history = z.t.grid.history
        BY <3>3, <3>4, GotoLies DEF Alike
      <3> HIDE DEF r
      <3>6. y = v
        <4>1. mark_dirty(mark_dirty([z EXCEPT !.t = r])) = [z EXCEPT !.ime = z.ime, !.t = r, !.dirty = TRUE]
          BY <3>2 DEF mark_dirty, WindowType
        <4>2. QED BY <3>1, <4>1 DEF Moded
      <3>7. /\ Fine(v) /\ v.t = r /\ v.dirty /\ v.pending = z.pending /\ v.hint = z.hint /\ v.history = z.history
        BY <1>1, <3>2, <3>5, ModedFine
      <3> HIDE DEF v
      <3>8. Pace(x, v) BY <1>1, <2>4, <3>5, <3>7 DEF Pace
      <3>9. QED BY <3>6, <3>7, <3>8 DEF Step
    <2>5. QED BY <2>3, <2>4
  <1>5. QED BY <1>2, <1>3, <1>4


-------------------------------------------------------------------------------
(* The actions of Action::execute, with the outcomes that searches can have. *)
Likely(o, t) == o.valid \in BOOLEAN /\ o.found \in Matches(t) /\ o.next \in Matches(t)

(* The motions of vi mode. *)
LEMMA ViMotionStep ==
  ASSUME NEW x, Fine(x), NEW next \in Matches(x.t)
  PROVE  Step(x, mark_dirty([on_typing_start(x) EXCEPT !.t = vi_motion(@, IF next = NoMatch THEN @.vi ELSE next)]))
  <1> DEFINE s == on_typing_start(x)
             line == IF next = NoMatch THEN s.t.vi ELSE next
             y == mark_dirty([s EXCEPT !.t = vi_motion(@, IF next = NoMatch THEN @.vi ELSE next)])
  <1>1. Calm(x, s) /\ s.t = x.t BY TypingCalm
  <1>2. y = mark_dirty([s EXCEPT !.t = vi_motion(s.t, line)]) OBVIOUS
  <1> HIDE DEF s, y
  <1>3. Fine(s) BY <1>1 DEF Calm, Tame
  <1>4. line \in GridLines(dims(s.t))
    <2>1. s.t.vi \in GridLines(dims(s.t)) BY <1>3, Fining, Lying
    <2>2. next # NoMatch => next \in GridLines(dims(s.t)) BY <1>1 DEF Matches
    <2>3. QED BY <2>1, <2>2
  <1> HIDE DEF line
  <1>5. Calm(s, y) BY <1>2, <1>3, <1>4, MotionCalm
  <1>6. Step(x, y) BY <1>1, <1>5, CalmTwice, CalmStep
  <1>7. QED BY <1>6 DEF y, s

(* The selections of vi mode. *)
LEMMA ViSelectStep ==
  ASSUME NEW x, Fine(x), NEW ty \in {"Simple", "Lines", "Block", "Semantic"}
  PROVE  LET s == toggle_selection(x, ty)
         IN  Step(x, IF s.t.sel = NoSelection THEN s ELSE [s EXCEPT !.t.sel = include_all(@)])
  <1> DEFINE s == toggle_selection(x, ty)
             a == include_all(s.t.sel)
             u == [s.t EXCEPT !.sel = a]
             y == IF s.t.sel = NoSelection THEN s ELSE [s EXCEPT !.t.sel = include_all(@)]
  <1>1. Calm(x, s) /\ (s.t.sel # NoSelection => s.dirty) BY ToggleCalm
  <1>2. s.t.sel # NoSelection => y = [s EXCEPT !.t = u] BY Zenon
  <1> HIDE DEF s
  <1>3. Fine(s) /\ s \in WindowType BY <1>1 DEF Calm, Tame, Fine
  <1>4. CASE s.t.sel = NoSelection
    <2>1. y = s BY <1>4
    <2>2. Step(x, s) BY <1>1, CalmStep
    <2>3. QED BY <2>1, <2>2 DEF s
  <1>5. CASE s.t.sel # NoSelection
    <2>1. s.t.sel \in Selections BY <1>3, <1>5, Fining DEF AnySelection
    <2>2. a \in Selections BY <2>1, NeverEmpty
    <2> HIDE DEF a
    <2>3. Lies(u) /\ Alike(s.t, u) /\ u.vi = s.t.vi /\ u.grid = s.t.grid
      BY <1>3, <2>2, Fining, SelectedLies DEF AnySelection
    <2>4. InView(u) BY <1>3, <2>3, Fining DEF InView, Alike
    <2> HIDE DEF u
    <2>5. y = [s EXCEPT !.t = u, !.dirty = TRUE]
      <3>1. s.dirty = TRUE
        <4>1. s.dirty \in BOOLEAN BY <1>3 DEF WindowType
        <4>2. QED BY <1>1, <1>5, <4>1
      <3>2. y = [s EXCEPT !.t = u] BY <1>2, <1>5
      <3> HIDE DEF y
      <3>3. QED BY <1>3, <3>1, <3>2 DEF WindowType
    <2> HIDE DEF y
    <2>6. Calm(s, y) BY <1>3, <2>3, <2>4, <2>5, ShownCalm
    <2>7. Step(x, y) BY <1>1, <2>6, CalmTwice, CalmStep
    <2>8. QED BY <2>7 DEF y, s
  <1>6. QED BY <1>4, <1>5

(* The actions of vi mode. *)
LEMMA ViActionStep ==
  ASSUME NEW x, Fine(x), NEW action, NEW o, Likely(o, x.t)
  PROVE  Step(x, ViAction(x, action, o))
  <1> DEFINE y == ViAction(x, action, o)
             Inline == {"InlineSearchForward", "InlineSearchBackward", "InlineSearchForwardShort",
                        "InlineSearchBackwardShort"}
             moved == mark_dirty([on_typing_start(x) EXCEPT
                                    !.t = vi_motion(@, IF o.next = NoMatch THEN @.vi ELSE o.next)])
             chosen == LET s == toggle_selection(x, SelectionType[action])
                       IN  IF s.t.sel = NoSelection THEN s ELSE [s EXCEPT !.t.sel = include_all(@)]
             jumped == ViJump(on_typing_start(x), IF x.dfas THEN o.next ELSE NoMatch)
             centered == scroll(x, -x.t.grid.offset + (x.t.lines \div 2) - 1 - x.t.vi)
             seeded == start_seeded_search(x, IF action = "SemanticSearchForward" THEN "Right" ELSE "Left", o.found, o.next)
  <1>e. y = CASE ~ViMode(x) -> x
              [] ViMode(x) /\ action \in ViMotions -> moved
              [] ViMode(x) /\ action \in DOMAIN SelectionType -> chosen
              [] ViMode(x) /\ action \in {"SearchNext", "SearchPrevious"} -> jumped
              [] ViMode(x) /\ action = "CenterAroundViCursor" -> centered
              [] ViMode(x) /\ action \in Inline -> start_inline_search(x)
              [] ViMode(x) /\ action \in {"InlineSearchNext", "InlineSearchPrevious"} -> inline_search(x, o.found)
              [] ViMode(x) /\ action \in {"SemanticSearchForward", "SemanticSearchBackward"} -> seeded
              [] OTHER -> x
    BY Zenon DEF ViAction
  <1>o. o.valid \in BOOLEAN /\ o.found \in Matches(x.t) /\ o.next \in Matches(x.t) BY DEF Likely
  <1>s. Step(x, x) BY StepSelf
  <1>d. DOMAIN SelectionType = {"ToggleNormalSelection", "ToggleLineSelection", "ToggleBlockSelection",
                                "ToggleSemanticSelection"}
    BY DEF SelectionType
  <1>1. CASE ~ViMode(x) BY <1>1, <1>s DEF ViAction
  <1>2. CASE ViMode(x) /\ action \in ViMotions
    <2>1. y = moved
      <3> HIDE DEF y, moved, chosen, jumped, centered, seeded
      <3>1. QED BY <1>d, <1>e, <1>2 DEF ViMotions
    <2>2. Step(x, moved) BY <1>o, ViMotionStep
    <2> HIDE DEF moved, y
    <2>3. QED BY <2>1, <2>2 DEF y
  <1>3. CASE ViMode(x) /\ action \in DOMAIN SelectionType
    <2> DEFINE ty == SelectionType[action]
               s == toggle_selection(x, ty)
    <2>1. ty \in {"Simple", "Lines", "Block", "Semantic"} BY <1>3 DEF SelectionType
    <2>2. action \notin ViMotions BY <1>3, <1>d DEF ViMotions
    <2>3. y = chosen
      <3> HIDE DEF y, moved, chosen, jumped, centered, seeded
      <3>1. QED BY <1>d, <1>e, <1>3, <2>2
    <2>4. Step(x, chosen)
      <3> HIDE DEF ty
      <3>1. Step(x, IF s.t.sel = NoSelection THEN s ELSE [s EXCEPT !.t.sel = include_all(@)]) BY <2>1, ViSelectStep
      <3>2. QED BY <3>1 DEF ty
    <2> HIDE DEF chosen, y
    <2>5. QED BY <2>3, <2>4 DEF y
  <1>4. CASE ViMode(x) /\ action \in {"SearchNext", "SearchPrevious"}
    <2> DEFINE s == on_typing_start(x)
               line == IF x.dfas THEN o.next ELSE NoMatch
    <2>1. action \notin ViMotions /\ action \notin DOMAIN SelectionType BY <1>4, <1>d DEF ViMotions
    <2>2. y = ViJump(s, line) BY <1>4, <2>1 DEF ViAction
    <2>3. Calm(x, s) /\ s.t = x.t BY TypingCalm
    <2> HIDE DEF s
    <2>4. Fine(s) /\ line \in Matches(s.t) BY <1>o, <2>3, Fining DEF Calm, Tame
    <2> HIDE DEF line
    <2>5. Calm(s, y) BY <2>2, <2>4, JumpCalm
    <2>6. QED BY <2>3, <2>5, CalmTwice, CalmStep
  <1>5. CASE ViMode(x) /\ action = "CenterAroundViCursor"
    <2> DEFINE half == x.t.lines \div 2
               n == -x.t.grid.offset + half - 1 - x.t.vi
    <2>1. action \notin ViMotions /\ action \notin DOMAIN SelectionType BY <1>5, <1>d DEF ViMotions
    <2>2. y = scroll(x, n) BY <1>5, <2>1 DEF ViAction
    <2>3. x.t.vi \in Int /\ x.t.grid.offset \in Nat /\ x.t.lines \in Nat BY Fining
    <2>4. half \in Int BY <2>3
    <2> HIDE DEF half
    <2>5. n \in Int BY <2>3, <2>4
    <2> HIDE DEF n
    <2>6. Calm(x, y) BY <2>2, <2>5, FineLoose, ScrollCalm
    <2>7. QED BY <2>6, CalmStep
  <1>6. CASE ViMode(x) /\ action \in Inline
    <2>1. action \notin ViMotions /\ action \notin DOMAIN SelectionType BY <1>6, <1>d DEF ViMotions
    <2>2. y = start_inline_search(x) BY <1>6, <2>1 DEF ViAction
    <2>3. QED BY <2>2, InlineStartStep
  <1>7. CASE ViMode(x) /\ action \in {"InlineSearchNext", "InlineSearchPrevious"}
    <2>1. action \notin ViMotions /\ action \notin DOMAIN SelectionType BY <1>7, <1>d DEF ViMotions
    <2>2. y = inline_search(x, o.found) BY <1>7, <2>1 DEF ViAction
    <2>3. QED BY <2>2, InlineStep
  <1>8. CASE ViMode(x) /\ action \in {"SemanticSearchForward", "SemanticSearchBackward"}
    <2> DEFINE direction == IF action = "SemanticSearchForward" THEN "Right" ELSE "Left"
    <2>1. action \notin ViMotions /\ action \notin DOMAIN SelectionType BY <1>8, <1>d DEF ViMotions
    <2>2. y = start_seeded_search(x, direction, o.found, o.next) BY <1>8, <2>1 DEF ViAction
    <2>3. direction \in {"Left", "Right"} OBVIOUS
    <2> HIDE DEF direction
    <2>4. QED BY <1>o, <2>2, <2>3, SeededStep
  <1>9. CASE /\ ViMode(x) /\ action \notin ViMotions /\ action \notin DOMAIN SelectionType
             /\ action \notin {"SearchNext", "SearchPrevious"} /\ action # "CenterAroundViCursor" /\ action \notin Inline
             /\ action \notin {"InlineSearchNext", "InlineSearchPrevious"}
             /\ action \notin {"SemanticSearchForward", "SemanticSearchBackward"}
    <2>1. y = x BY <1>9 DEF ViAction
    <2>2. QED BY <1>s, <2>1
  <1>10. QED BY <1>1, <1>2, <1>3, <1>4, <1>5, <1>6, <1>7, <1>8, <1>9

(* The actions of a search. *)
LEMMA SearchActionStep ==
  ASSUME NEW x, Fine(x), NEW action \in SearchActions, NEW o, Likely(o, x.t)
  PROVE  Step(x, SearchAction(x, action, o))
  <1> DEFINE y == SearchAction(x, action, o)
  <1>o. o.valid \in BOOLEAN /\ o.found \in Matches(x.t) BY DEF Likely
  <1>1. CASE ~search_active(x)
    <2>1. y = x BY <1>1 DEF SearchAction
    <2>2. QED BY <2>1, StepSelf
  <1>2. CASE search_active(x) /\ action \in {"SearchFocusNext", "SearchFocusPrevious"}
    <2>1. y = advance_search_origin(x, o.found) BY <1>2 DEF SearchAction
    <2>2. QED BY <1>o, <1>2, <2>1, AdvanceStep
  <1>3. CASE search_active(x) /\ action = "SearchConfirm"
    <2>1. y = confirm_search(x, o.found) BY <1>3 DEF SearchAction
    <2>2. QED BY <1>o, <2>1, ConfirmStep
  <1>4. CASE search_active(x) /\ action = "SearchCancel"
    <2>1. y = cancel_search(x) BY <1>4 DEF SearchAction
    <2>2. QED BY <2>1, CancelStep
  <1>5. CASE search_active(x) /\ action = "SearchClear"
    <2> DEFINE s == cancel_search(x)
    <2>1. y = start_search(s, x.direction) BY <1>5 DEF SearchAction
    <2>2. x.direction \in {"Left", "Right"}
      <3>1. x \in WindowType BY DEF Fine
      <3>2. QED BY <3>1 DEF WindowType
    <2>3. Step(x, s) BY CancelStep
    <2> HIDE DEF s
    <2>4. Fine(s) BY <2>3 DEF Step, Pace
    <2>5. Step(s, y) BY <2>1, <2>2, <2>4, StartStep
    <2>6. QED BY <2>3, <2>5, StepTwice
  <1>6. CASE search_active(x) /\ action = "SearchDeleteWord"
    <2>1. y = search_pop_word(x) BY <1>6 DEF SearchAction
    <2>2. QED BY <2>1, PopStep
  <1>7. CASE search_active(x) /\ action = "SearchHistoryPrevious"
    <2>1. y = search_history_previous(x, o.valid, o.found) BY <1>7 DEF SearchAction
    <2>2. QED BY <1>o, <1>7, <2>1, HistoryStep
  <1>8. CASE search_active(x) /\ action = "SearchHistoryNext"
    <2>1. y = search_history_next(x, o.valid, o.found) BY <1>8 DEF SearchAction
    <2>2. QED BY <1>o, <1>8, <2>1, HistoryStep
  <1>9. QED BY <1>1, <1>2, <1>3, <1>4, <1>5, <1>6, <1>7, <1>8 DEF SearchActions

(* Action::execute *)
LEMMA ExecuteStep ==
  ASSUME NEW x, Fine(x), NEW action, NEW o, Likely(o, x.t)
  PROVE  Step(x, execute(x, action, o))
  <1> DEFINE y == execute(x, action, o)
             pasted == paste(x, o.valid, o.found)
             toggled == toggle_vi_mode_ui(on_typing_start(x))
             searching == SearchAction(x, action, o)
             forward == start_search(x, "Right")
             backward == start_search(x, "Left")
             cleared == clear_selection(x)
             sized == [x EXCEPT !.pending = TRUE]
             scrolled == ScrollAction(x, action)
             moved == ViAction(x, action, o)
  <1>e. y = CASE action = "Esc" -> pasted
              [] action = "ToggleViMode" -> toggled
              [] action \in SearchActions -> searching
              [] action = "SearchForward" -> forward
              [] action = "SearchBackward" -> backward
              [] action = "ClearSelection" -> cleared
              [] action \in {"Paste", "PasteSelection"} -> pasted
              [] action \in {"IncreaseFontSize", "DecreaseFontSize", "ResetFontSize"} -> sized
              [] action \in ScrollActions -> scrolled
              [] action \in NoEffect -> x
              [] OTHER -> moved
    BY Zenon DEF execute
  <1>g. SUFFICES Step(x, y) OBVIOUS
  <1> HIDE DEF y, pasted, toggled, searching, forward, backward, cleared, sized, scrolled, moved
  <1>o. o.valid \in BOOLEAN /\ o.found \in Matches(x.t) BY DEF Likely
  <1>1. CASE action \in {"Esc", "Paste", "PasteSelection"}
    <2>0. y = pasted BY <1>e, <1>1 DEF SearchActions, ScrollActions, NoEffect
    <2>1. y = paste(x, o.valid, o.found) BY <2>0 DEF pasted
    <2>2. QED BY <1>o, <2>1, PasteStep
  <1>2. CASE action = "ToggleViMode"
    <2> DEFINE s == on_typing_start(x)
    <2>0. y = toggled BY <1>e, <1>2 DEF SearchActions, ScrollActions, NoEffect
    <2>1. y = toggle_vi_mode_ui(s) BY <2>0 DEF toggled
    <2>2. Calm(x, s) BY TypingCalm
    <2> HIDE DEF s
    <2>3. Fine(s) BY <2>2 DEF Calm, Tame
    <2>4. Step(s, y) BY <2>1, <2>3, ToggleStep
    <2>5. QED BY <2>2, <2>4, CalmThenStep
  <1>3. CASE action \in SearchActions
    <2>0. y = searching BY <1>e, <1>3 DEF SearchActions, ScrollActions, NoEffect
    <2>1. y = SearchAction(x, action, o) BY <2>0 DEF searching
    <2>2. QED BY <1>3, <2>1, SearchActionStep
  <1>4. CASE action = "SearchForward"
    <2>0. y = forward BY <1>e, <1>4 DEF SearchActions, ScrollActions, NoEffect
    <2>1. y = start_search(x, "Right") BY <2>0 DEF forward
    <2>2. QED BY <2>1, StartStep
  <1>5. CASE action = "SearchBackward"
    <2>0. y = backward BY <1>e, <1>5 DEF SearchActions, ScrollActions, NoEffect
    <2>1. y = start_search(x, "Left") BY <2>0 DEF backward
    <2>2. QED BY <2>1, StartStep
  <1>6. CASE action = "ClearSelection"
    <2>0. y = cleared BY <1>e, <1>6 DEF SearchActions, ScrollActions, NoEffect
    <2>1. y = clear_selection(x) BY <2>0 DEF cleared
    <2>2. QED BY <2>1, ClearCalm, CalmStep
  <1>7. CASE action \in {"IncreaseFontSize", "DecreaseFontSize", "ResetFontSize"}
    <2>0. y = sized BY <1>e, <1>7 DEF SearchActions, ScrollActions, NoEffect
    <2>1. y = [x EXCEPT !.pending = TRUE] BY <2>0 DEF sized
    <2>2. x \in WindowType BY DEF Fine
    <2> HIDE DEF y
    <2>3. y \in WindowType BY <2>1, <2>2 DEF WindowType
    <2>4. /\ y.t = x.t /\ y.focused = x.focused /\ y.timedOut = x.timedOut /\ y.hidden = x.hidden /\ y.timers = x.timers
          /\ y.dirty = x.dirty /\ y.pending /\ y.index = x.index /\ y.history = x.history
          /\ y.charPending = x.charPending /\ y.ime = x.ime /\ y.hint = x.hint
      BY <2>1, <2>2 DEF WindowType
    <2>5. ImeOk(x) => ImeOk(y) BY <2>4 DEF ImeOk, ViMode, search_active
    <2>6. Regexes(x.history, y.history) BY <2>4, FineHistory, RegexesSelf
    <2>7. y.index \in -1 .. Len(y.history) - 1 /\ Len(y.history) <= MaxSearchHistory BY <2>4 DEF Fine
    <2>8. Pace(x, y) BY <2>3, <2>4, <2>5, <2>6, <2>7, Fining, Paces
    <2>9. QED BY <2>4, <2>8 DEF Step, y
  <1>8. CASE action \in ScrollActions
    <2>0. y = scrolled BY <1>e, <1>8 DEF SearchActions, ScrollActions, NoEffect
    <2>1. y = ScrollAction(x, action) BY <2>0 DEF scrolled
    <2>2. QED BY <1>8, <2>1, ScrollActionCalm, CalmStep
  <1>9. CASE action \in NoEffect
    <2>0. y = x BY <1>e, <1>9 DEF SearchActions, ScrollActions, NoEffect
    <2>1. y = x BY <2>0
    <2>2. QED BY <2>1, StepSelf
  <1>10. CASE /\ action \notin {"Esc", "Paste", "PasteSelection", "ToggleViMode", "SearchForward", "SearchBackward",
                                "ClearSelection", "IncreaseFontSize", "DecreaseFontSize", "ResetFontSize"}
              /\ action \notin SearchActions /\ action \notin ScrollActions /\ action \notin NoEffect
    <2>0. y = moved BY <1>e, <1>10 DEF SearchActions, ScrollActions, NoEffect
    <2>1. y = ViAction(x, action, o) BY <2>0 DEF moved
    <2>2. QED BY <2>1, ViActionStep
  <1>11. QED BY <1>1, <1>2, <1>3, <1>4, <1>5, <1>6, <1>7, <1>8, <1>9, <1>10


-------------------------------------------------------------------------------
(* The bindings: a sequence, and the loop over it. *)

(* A set of natural numbers that is not empty has a least member. *)
LEMMA LeastNumber ==
  ASSUME NEW T \in SUBSET Nat, T # {}
  PROVE  \E n \in T : \A k \in T : n <= k
  <1> DEFINE R == OpToRel(<, Nat)
  <1>1. \A j, k \in Nat : <<j, k>> \in R <=> j < k BY Zenon DEF OpToRel
  <1>2. IsWellFoundedOn(R, Nat) BY NatLessThanWellFounded, Zenon
  <1> HIDE DEF R
  <1>3. PICK n \in T : \A k \in T : ~ (<<k, n>> \in R) BY <1>2, WFMin
  <1>4. ASSUME NEW k \in T PROVE n <= k
    <2>1. ~(<<k, n>> \in R) BY <1>3
    <2>2. ~(k < n) BY <1>1, <2>1, Zenon
    <2>3. QED BY <2>2
  <1>5. QED BY <1>4

(* What is so before a loop and kept by each of its n rounds is so after
   every round. *)
LEMMA EveryRound ==
  ASSUME NEW n \in Nat, NEW K, 0 \in K, \A k \in 1..n : k - 1 \in K => k \in K
  PROVE  \A k \in 0..n : k \in K
  <1> DEFINE T == {k \in 0..n : k \notin K}
  <1> SUFFICES ASSUME T # {} PROVE FALSE OBVIOUS
  <1>0. T \in SUBSET Nat OBVIOUS
  <1>1. PICK m \in T : \A k \in T : m <= k
    <2> HIDE DEF T
    <2>1. QED BY <1>0, LeastNumber
  <1>2. m \in 1..n BY <1>1
  <1>3. m - 1 \in 0..n /\ ~(m <= m - 1) BY <1>2
  <1>4. m - 1 \in K BY <1>1, <1>3
  <1>5. QED BY <1>1, <1>2, <1>4

IsSeq(s) == \E T : s \in Seq(T)

LEMMA JoinedSeq ==
  ASSUME NEW s, NEW t, IsSeq(s), IsSeq(t)
  PROVE  IsSeq(s \o t)
  <1>1. PICK S : s \in Seq(S) BY DEF IsSeq
  <1>2. PICK T : t \in Seq(T) BY DEF IsSeq
  <1>3. s \in Seq(S \union T) /\ t \in Seq(S \union T) BY <1>1, <1>2
  <1>4. s \o t \in Seq(S \union T) BY <1>3
  <1>5. QED BY <1>4 DEF IsSeq

LEMMA RowsSeq ==
  ASSUME NEW n \in Nat, NEW rows, DOMAIN rows = 1 .. n, NEW location, NEW mods, NEW mode, NEW notmode
  PROVE  IsSeq(On(rows, location, mods, mode, notmode))
  <1> DEFINE b == On(rows, location, mods, mode, notmode)
             E(i) == [key |-> rows[i][1], location |-> location, mods |-> mods, mode |-> mode,
                      notmode |-> notmode, action |-> rows[i][2]]
             T == {E(i) : i \in 1 .. n}
  <1>1. b = [i \in 1 .. n |-> E(i)] BY DEF On
  <1> HIDE DEF E, b
  <1>2. b \in [1 .. n -> T] BY <1>1
  <1>3. b \in Seq(T) BY <1>2, SeqDef
  <1>4. QED BY <1>3 DEF IsSeq, b

LEMMA RowsAnywhere ==
  ASSUME NEW n \in Nat, NEW rows, DOMAIN rows = 1 .. n, NEW mods, NEW mode, NEW notmode
  PROVE  IsSeq(Anywhere(rows, mods, mode, notmode))
  BY RowsSeq DEF Anywhere

LEMMA RowsVi ==
  ASSUME NEW n \in Nat, NEW rows, DOMAIN rows = 1 .. n, NEW mods
  PROVE  IsSeq(Vi(mods, rows))
  BY RowsAnywhere DEF Vi

LEMMA ProgramSeq == IsSeq(ProgramKeys)
  <1> DEFINE r1 == << << "Copy", "Copy" >> >>
             k1 == Anywhere(r1, {}, {}, {})
  <1>1. IsSeq(k1)
    <2>1. DOMAIN r1 = 1 .. 1 OBVIOUS
    <2> HIDE DEF r1
    <2>2. QED BY <2>1, RowsAnywhere
  <1> HIDE DEF k1
  <1> DEFINE r2 == << << "Copy", "ClearSelection" >> >>
             k2 == Anywhere(r2, {}, {"VI"}, {})
  <1>2. IsSeq(k2)
    <2>1. DOMAIN r2 = 1 .. 1 OBVIOUS
    <2> HIDE DEF r2
    <2>2. QED BY <2>1, RowsAnywhere
  <1> HIDE DEF k2
  <1> DEFINE r3 == << << "Paste", "Paste" >> >>
             k3 == Anywhere(r3, {}, {}, {"VI"})
  <1>3. IsSeq(k3)
    <2>1. DOMAIN r3 = 1 .. 1 OBVIOUS
    <2> HIDE DEF r3
    <2>2. QED BY <2>1, RowsAnywhere
  <1> HIDE DEF k3
  <1> DEFINE r4 == << << "Paste", "Paste" >> >>
             k4 == Anywhere(r4, {}, UI, {})
  <1>4. IsSeq(k4)
    <2>1. DOMAIN r4 = 1 .. 1 OBVIOUS
    <2> HIDE DEF r4
    <2>2. QED BY <2>1, RowsAnywhere
  <1> HIDE DEF k4
  <1> DEFINE r5 == << << "l", "ClearLogNotice" >>, << "l", "ReceiveChar" >> >>
             k5 == Anywhere(r5, {"CONTROL"}, {}, {})
  <1>5. IsSeq(k5)
    <2>1. DOMAIN r5 = 1 .. 2 OBVIOUS
    <2> HIDE DEF r5
    <2>2. QED BY <2>1, RowsAnywhere
  <1> HIDE DEF k5
  <1> DEFINE r6 == << << "Home", "ScrollToTop" >>, << "End", "ScrollToBottom" >>, << "PageUp", "ScrollPageUp"
                   >>, << "PageDown", "ScrollPageDown" >> >>
             k6 == Anywhere(r6, {"SHIFT"}, {}, {"ALT_SCREEN"})
  <1>6. IsSeq(k6)
    <2>1. DOMAIN r6 = 1 .. 4 OBVIOUS
    <2> HIDE DEF r6
    <2>2. QED BY <2>1, RowsAnywhere
  <1> HIDE DEF k6
  <1> DEFINE r7 == << << "Home", "Esc" >>, << "End", "Esc" >>, << "ArrowUp", "Esc" >>, << "ArrowDown", "Esc" >>,
                   << "ArrowRight", "Esc" >>, << "ArrowLeft", "Esc" >> >>
             k7 == Anywhere(r7, {}, {"APP_CURSOR"}, UI)
  <1>7. IsSeq(k7)
    <2>1. DOMAIN r7 = 1 .. 6 OBVIOUS
    <2> HIDE DEF r7
    <2>2. QED BY <2>1, RowsAnywhere
  <1> HIDE DEF k7
  <1> DEFINE r8 == << << "F1", "Esc" >>, << "F2", "Esc" >>, << "F3", "Esc" >>, << "F4", "Esc" >> >>
             k8 == Anywhere(r8, {}, {}, UI \union Kitty)
  <1>8. IsSeq(k8)
    <2>1. DOMAIN r8 = 1 .. 4 OBVIOUS
    <2> HIDE DEF r8
    <2>2. QED BY <2>1, RowsAnywhere
  <1> HIDE DEF k8
  <1> DEFINE r9 == << << "Tab", "Esc" >> >>
             k9 == Anywhere(r9, {"SHIFT"}, {}, UI \union Kitty)
  <1>9. IsSeq(k9)
    <2>1. DOMAIN r9 = 1 .. 1 OBVIOUS
    <2> HIDE DEF r9
    <2>2. QED BY <2>1, RowsAnywhere
  <1> HIDE DEF k9
  <1> DEFINE r10 == << << "Tab", "Esc" >> >>
             k10 == Anywhere(r10, {"SHIFT", "ALT"}, {}, UI \union Kitty)
  <1>10. IsSeq(k10)
    <2>1. DOMAIN r10 = 1 .. 1 OBVIOUS
    <2> HIDE DEF r10
    <2>2. QED BY <2>1, RowsAnywhere
  <1> HIDE DEF k10
  <1> DEFINE r11 == << << "Backspace", "Esc" >> >>
             k11 == Anywhere(r11, {}, {}, UI \union {"REPORT_ALL_KEYS_AS_ESC"})
  <1>11. IsSeq(k11)
    <2>1. DOMAIN r11 = 1 .. 1 OBVIOUS
    <2> HIDE DEF r11
    <2>2. QED BY <2>1, RowsAnywhere
  <1> HIDE DEF k11
  <1> DEFINE r12 == << << "Backspace", "Esc" >> >>
             k12 == Anywhere(r12, {"ALT"}, {}, UI \union Kitty)
  <1>12. IsSeq(k12)
    <2>1. DOMAIN r12 = 1 .. 1 OBVIOUS
    <2> HIDE DEF r12
    <2>2. QED BY <2>1, RowsAnywhere
  <1> HIDE DEF k12
  <1> DEFINE r13 == << << "Backspace", "Esc" >> >>
             k13 == Anywhere(r13, {"SHIFT"}, {}, UI \union Kitty)
  <1>13. IsSeq(k13)
    <2>1. DOMAIN r13 = 1 .. 1 OBVIOUS
    <2> HIDE DEF r13
    <2>2. QED BY <2>1, RowsAnywhere
  <1> HIDE DEF k13
  <1> DEFINE r14 == << << "Enter", "Esc" >> >>
             k14 == On(r14, "Numpad", {}, {}, UI \union Kitty)
  <1>14. IsSeq(k14)
    <2>1. DOMAIN r14 = 1 .. 1 OBVIOUS
    <2> HIDE DEF r14
    <2>2. QED BY <2>1, RowsSeq
  <1> HIDE DEF k14
  <1> DEFINE j2 == k1 \o k2
             j3 == j2 \o k3
             j4 == j3 \o k4
             j5 == j4 \o k5
             j6 == j5 \o k6
             j7 == j6 \o k7
             j8 == j7 \o k8
             j9 == j8 \o k9
             j10 == j9 \o k10
             j11 == j10 \o k11
             j12 == j11 \o k12
             j13 == j12 \o k13
             j14 == j13 \o k14
  <1>j2. IsSeq(j2) BY <1>1, <1>2, JoinedSeq
  <1> HIDE DEF j2
  <1>j3. IsSeq(j3) BY <1>j2, <1>3, JoinedSeq
  <1> HIDE DEF j3
  <1>j4. IsSeq(j4) BY <1>j3, <1>4, JoinedSeq
  <1> HIDE DEF j4
  <1>j5. IsSeq(j5) BY <1>j4, <1>5, JoinedSeq
  <1> HIDE DEF j5
  <1>j6. IsSeq(j6) BY <1>j5, <1>6, JoinedSeq
  <1> HIDE DEF j6
  <1>j7. IsSeq(j7) BY <1>j6, <1>7, JoinedSeq
  <1> HIDE DEF j7
  <1>j8. IsSeq(j8) BY <1>j7, <1>8, JoinedSeq
  <1> HIDE DEF j8
  <1>j9. IsSeq(j9) BY <1>j8, <1>9, JoinedSeq
  <1> HIDE DEF j9
  <1>j10. IsSeq(j10) BY <1>j9, <1>10, JoinedSeq
  <1> HIDE DEF j10
  <1>j11. IsSeq(j11) BY <1>j10, <1>11, JoinedSeq
  <1> HIDE DEF j11
  <1>j12. IsSeq(j12) BY <1>j11, <1>12, JoinedSeq
  <1> HIDE DEF j12
  <1>j13. IsSeq(j13) BY <1>j12, <1>13, JoinedSeq
  <1> HIDE DEF j13
  <1>j14. IsSeq(j14) BY <1>j13, <1>14, JoinedSeq
  <1> HIDE DEF j14
  <1>q. ProgramKeys = j14 BY Zenon DEF ProgramKeys, k1, k2, k3, k4, k5, k6, k7, k8, k9, k10, k11, k12, k13, k14, j2, j3, j4, j5, j6, j7, j8, j9, j10, j11, j12, j13, j14
  <1>15. QED BY <1>q, <1>j14

LEMMA ViSeq == IsSeq(ViKeys)
  <1> DEFINE r1 == << << "Space", "ToggleViMode" >> >>
             k1 == Anywhere(r1, {"SHIFT", "CONTROL"}, {}, {"SEARCH"})
  <1>1. IsSeq(k1)
    <2>1. DOMAIN r1 = 1 .. 1 OBVIOUS
    <2> HIDE DEF r1
    <2>2. QED BY <2>1, RowsAnywhere
  <1> HIDE DEF k1
  <1> DEFINE r2 == << << "Space", "ScrollToBottom" >> >>
             k2 == Vi({"SHIFT", "CONTROL"}, r2)
  <1>2. IsSeq(k2)
    <2>1. DOMAIN r2 = 1 .. 1 OBVIOUS
    <2> HIDE DEF r2
    <2>2. QED BY <2>1, RowsVi
  <1> HIDE DEF k2
  <1> DEFINE r3 == << << "Escape", "ClearSelection" >>, << "i", "ToggleViMode" >>, << "i", "ScrollToBottom" >>,
                   << "g", "ScrollToTop" >>, << "y", "Copy" >>, << "y", "ClearSelection" >>, << "/",
                   "SearchForward" >>, << "v", "ToggleNormalSelection" >>, << "n", "SearchNext" >>, << "Enter",
                   "Open" >>, << "z", "CenterAroundViCursor" >>, << "f", "InlineSearchForward" >>, << "t",
                   "InlineSearchForwardShort" >>, << ";", "InlineSearchNext" >>, << ",", "InlineSearchPrevious"
                   >>, << "k", "Up" >>, << "j", "Down" >>, << "h", "Left" >>, << "l", "Right" >>, << "ArrowUp",
                   "Up" >>, << "ArrowDown", "Down" >>, << "ArrowLeft", "Left" >>, << "ArrowRight", "Right" >>,
                   << "0", "First" >>, << "Home", "First" >>, << "End", "Last" >>, << "b", "SemanticLeft" >>, <<
                   "w", "SemanticRight" >>, << "e", "SemanticRightEnd" >> >>
             k3 == Vi({}, r3)
  <1>3. IsSeq(k3)
    <2>1. DOMAIN r3 = 1 .. 29 OBVIOUS
    <2> HIDE DEF r3
    <2>2. QED BY <2>1, RowsVi
  <1> HIDE DEF k3
  <1> DEFINE r4 == << << "c", "ToggleViMode" >>, << "y", "ScrollLineUp" >>, << "e", "ScrollLineDown" >>, << "b",
                   "ScrollPageUp" >>, << "f", "ScrollPageDown" >>, << "u", "ScrollHalfPageUp" >>, << "d",
                   "ScrollHalfPageDown" >>, << "v", "ToggleBlockSelection" >> >>
             k4 == Vi({"CONTROL"}, r4)
  <1>4. IsSeq(k4)
    <2>1. DOMAIN r4 = 1 .. 8 OBVIOUS
    <2> HIDE DEF r4
    <2>2. QED BY <2>1, RowsVi
  <1> HIDE DEF k4
  <1> DEFINE r5 == << << "v", "ToggleSemanticSelection" >> >>
             k5 == Vi({"ALT"}, r5)
  <1>5. IsSeq(k5)
    <2>1. DOMAIN r5 = 1 .. 1 OBVIOUS
    <2> HIDE DEF r5
    <2>2. QED BY <2>1, RowsVi
  <1> HIDE DEF k5
  <1> DEFINE r6 == << << "g", "ScrollToBottom" >>, << "?", "SearchBackward" >>, << "y", "ToggleNormalSelection"
                   >>, << "y", "Last" >>, << "y", "Copy" >>, << "y", "ClearSelection" >>, << "v",
                   "ToggleLineSelection" >>, << "n", "SearchPrevious" >>, << "f", "InlineSearchBackward" >>, <<
                   "t", "InlineSearchBackwardShort" >>, << "*", "SemanticSearchForward" >>, << "#",
                   "SemanticSearchBackward" >>, << "$", "Last" >>, << "^", "FirstOccupied" >>, << "h", "High"
                   >>, << "m", "Middle" >>, << "l", "Low" >>, << "b", "WordLeft" >>, << "w", "WordRight" >>, <<
                   "e", "WordRightEnd" >>, << "%", "Bracket" >>, << "{", "ParagraphUp" >>, << "}",
                   "ParagraphDown" >> >>
             k6 == Vi({"SHIFT"}, r6)
  <1>6. IsSeq(k6)
    <2>1. DOMAIN r6 = 1 .. 23 OBVIOUS
    <2> HIDE DEF r6
    <2>2. QED BY <2>1, RowsVi
  <1> HIDE DEF k6
  <1> DEFINE r7 == << << "Enter", "SearchConfirm" >> >>
             k7 == Anywhere(r7, {}, UI, {})
  <1>7. IsSeq(k7)
    <2>1. DOMAIN r7 = 1 .. 1 OBVIOUS
    <2> HIDE DEF r7
    <2>2. QED BY <2>1, RowsAnywhere
  <1> HIDE DEF k7
  <1> DEFINE j2 == k1 \o k2
             j3 == j2 \o k3
             j4 == j3 \o k4
             j5 == j4 \o k5
             j6 == j5 \o k6
             j7 == j6 \o k7
  <1>j2. IsSeq(j2) BY <1>1, <1>2, JoinedSeq
  <1> HIDE DEF j2
  <1>j3. IsSeq(j3) BY <1>j2, <1>3, JoinedSeq
  <1> HIDE DEF j3
  <1>j4. IsSeq(j4) BY <1>j3, <1>4, JoinedSeq
  <1> HIDE DEF j4
  <1>j5. IsSeq(j5) BY <1>j4, <1>5, JoinedSeq
  <1> HIDE DEF j5
  <1>j6. IsSeq(j6) BY <1>j5, <1>6, JoinedSeq
  <1> HIDE DEF j6
  <1>j7. IsSeq(j7) BY <1>j6, <1>7, JoinedSeq
  <1> HIDE DEF j7
  <1>q. ViKeys = j7 BY Zenon DEF ViKeys, k1, k2, k3, k4, k5, k6, k7, j2, j3, j4, j5, j6, j7
  <1>8. QED BY <1>q, <1>j7

LEMMA SearchSeq == IsSeq(SearchKeys)
  <1> DEFINE r1 == << << "Escape", "SearchCancel" >>, << "ArrowUp", "SearchHistoryPrevious" >>, << "ArrowDown",
                   "SearchHistoryNext" >> >>
             k1 == Anywhere(r1, {}, {"SEARCH"}, {})
  <1>1. IsSeq(k1)
    <2>1. DOMAIN r1 = 1 .. 3 OBVIOUS
    <2> HIDE DEF r1
    <2>2. QED BY <2>1, RowsAnywhere
  <1> HIDE DEF k1
  <1> DEFINE r2 == << << "c", "SearchCancel" >>, << "u", "SearchClear" >>, << "w", "SearchDeleteWord" >>, <<
                   "p", "SearchHistoryPrevious" >>, << "n", "SearchHistoryNext" >> >>
             k2 == Anywhere(r2, {"CONTROL"}, {"SEARCH"}, {})
  <1>2. IsSeq(k2)
    <2>1. DOMAIN r2 = 1 .. 5 OBVIOUS
    <2> HIDE DEF r2
    <2>2. QED BY <2>1, RowsAnywhere
  <1> HIDE DEF k2
  <1> DEFINE r3 == << << "Enter", "SearchFocusNext" >> >>
             k3 == Anywhere(r3, {}, {"SEARCH"}, {"VI"})
  <1>3. IsSeq(k3)
    <2>1. DOMAIN r3 = 1 .. 1 OBVIOUS
    <2> HIDE DEF r3
    <2>2. QED BY <2>1, RowsAnywhere
  <1> HIDE DEF k3
  <1> DEFINE r4 == << << "Enter", "SearchFocusPrevious" >> >>
             k4 == Anywhere(r4, {"SHIFT"}, {"SEARCH"}, {"VI"})
  <1>4. IsSeq(k4)
    <2>1. DOMAIN r4 = 1 .. 1 OBVIOUS
    <2> HIDE DEF r4
    <2>2. QED BY <2>1, RowsAnywhere
  <1> HIDE DEF k4
  <1> DEFINE j2 == k1 \o k2
             j3 == j2 \o k3
             j4 == j3 \o k4
  <1>j2. IsSeq(j2) BY <1>1, <1>2, JoinedSeq
  <1> HIDE DEF j2
  <1>j3. IsSeq(j3) BY <1>j2, <1>3, JoinedSeq
  <1> HIDE DEF j3
  <1>j4. IsSeq(j4) BY <1>j3, <1>4, JoinedSeq
  <1> HIDE DEF j4
  <1>q. SearchKeys = j4 BY Zenon DEF SearchKeys, k1, k2, k3, k4, j2, j3, j4
  <1>5. QED BY <1>q, <1>j4

LEMMA CommonSeq == IsSeq(common_keybindings)
  <1> DEFINE r1 == << << "v", "Paste" >> >>
             k1 == Anywhere(r1, {"CONTROL", "SHIFT"}, {}, {"VI"})
  <1>1. IsSeq(k1)
    <2>1. DOMAIN r1 = 1 .. 1 OBVIOUS
    <2> HIDE DEF r1
    <2>2. QED BY <2>1, RowsAnywhere
  <1> HIDE DEF k1
  <1> DEFINE r2 == << << "v", "Paste" >> >>
             k2 == Anywhere(r2, {"CONTROL", "SHIFT"}, UI, {})
  <1>2. IsSeq(k2)
    <2>1. DOMAIN r2 = 1 .. 1 OBVIOUS
    <2> HIDE DEF r2
    <2>2. QED BY <2>1, RowsAnywhere
  <1> HIDE DEF k2
  <1> DEFINE r3 == << << "f", "SearchForward" >>, << "b", "SearchBackward" >> >>
             k3 == Anywhere(r3, {"CONTROL", "SHIFT"}, {}, {"SEARCH"})
  <1>3. IsSeq(k3)
    <2>1. DOMAIN r3 = 1 .. 2 OBVIOUS
    <2> HIDE DEF r3
    <2>2. QED BY <2>1, RowsAnywhere
  <1> HIDE DEF k3
  <1> DEFINE r4 == << << "Insert", "PasteSelection" >> >>
             k4 == Anywhere(r4, {"SHIFT"}, {}, {"VI"})
  <1>4. IsSeq(k4)
    <2>1. DOMAIN r4 = 1 .. 1 OBVIOUS
    <2> HIDE DEF r4
    <2>2. QED BY <2>1, RowsAnywhere
  <1> HIDE DEF k4
  <1> DEFINE r5 == << << "c", "Copy" >> >>
             k5 == Anywhere(r5, {"CONTROL", "SHIFT"}, {}, {})
  <1>5. IsSeq(k5)
    <2>1. DOMAIN r5 = 1 .. 1 OBVIOUS
    <2> HIDE DEF r5
    <2>2. QED BY <2>1, RowsAnywhere
  <1> HIDE DEF k5
  <1> DEFINE r6 == << << "c", "ClearSelection" >> >>
             k6 == Vi({"CONTROL", "SHIFT"}, r6)
  <1>6. IsSeq(k6)
    <2>1. DOMAIN r6 = 1 .. 1 OBVIOUS
    <2> HIDE DEF r6
    <2>2. QED BY <2>1, RowsVi
  <1> HIDE DEF k6
  <1> DEFINE r7 == << << "0", "ResetFontSize" >>, << "=", "IncreaseFontSize" >>, << "+", "IncreaseFontSize" >>,
                   << "-", "DecreaseFontSize" >> >>
             k7 == Anywhere(r7, {"CONTROL"}, {}, {})
  <1>7. IsSeq(k7)
    <2>1. DOMAIN r7 = 1 .. 4 OBVIOUS
    <2> HIDE DEF r7
    <2>2. QED BY <2>1, RowsAnywhere
  <1> HIDE DEF k7
  <1> DEFINE r8 == << << "+", "IncreaseFontSize" >>, << "-", "DecreaseFontSize" >> >>
             k8 == On(r8, "Numpad", {"CONTROL"}, {}, {})
  <1>8. IsSeq(k8)
    <2>1. DOMAIN r8 = 1 .. 2 OBVIOUS
    <2> HIDE DEF r8
    <2>2. QED BY <2>1, RowsSeq
  <1> HIDE DEF k8
  <1> DEFINE j2 == k1 \o k2
             j3 == j2 \o k3
             j4 == j3 \o k4
             j5 == j4 \o k5
             j6 == j5 \o k6
             j7 == j6 \o k7
             j8 == j7 \o k8
  <1>j2. IsSeq(j2) BY <1>1, <1>2, JoinedSeq
  <1> HIDE DEF j2
  <1>j3. IsSeq(j3) BY <1>j2, <1>3, JoinedSeq
  <1> HIDE DEF j3
  <1>j4. IsSeq(j4) BY <1>j3, <1>4, JoinedSeq
  <1> HIDE DEF j4
  <1>j5. IsSeq(j5) BY <1>j4, <1>5, JoinedSeq
  <1> HIDE DEF j5
  <1>j6. IsSeq(j6) BY <1>j5, <1>6, JoinedSeq
  <1> HIDE DEF j6
  <1>j7. IsSeq(j7) BY <1>j6, <1>7, JoinedSeq
  <1> HIDE DEF j7
  <1>j8. IsSeq(j8) BY <1>j7, <1>8, JoinedSeq
  <1> HIDE DEF j8
  <1>q. common_keybindings = j8 BY Zenon DEF common_keybindings, k1, k2, k3, k4, k5, k6, k7, k8, j2, j3, j4, j5, j6, j7, j8
  <1>9. QED BY <1>q, <1>j8

LEMMA BindingsSeq == Len(default_key_bindings) \in Nat
  <1> DEFINE a == ProgramKeys \o ViKeys
             b == a \o SearchKeys
             c == b \o common_keybindings
  <1>1. IsSeq(a) BY ProgramSeq, ViSeq, JoinedSeq
  <1> HIDE DEF a
  <1>2. IsSeq(b) BY <1>1, SearchSeq, JoinedSeq
  <1> HIDE DEF b
  <1>3. IsSeq(c) BY <1>2, CommonSeq, JoinedSeq
  <1> HIDE DEF c
  <1>4. default_key_bindings = c BY Zenon DEF default_key_bindings, a, b, c
  <1>5. Len(c) \in Nat BY <1>3 DEF IsSeq
  <1>6. QED BY <1>4, <1>5


(* The loop of process_key_bindings *)
LEMMA ExecutedStep ==
  ASSUME NEW x, Fine(x), NEW key, NEW mods, NEW o, Likely(o, x.t)
  PROVE  Step(x, Executed(x, key, mods, o))
  <1> DEFINE n == Len(default_key_bindings)
             mode == BindingMode(x.t.mode, search_active(x))
             input == Trigger(key, mods)
             base == x
             Round(w, k) == IF is_triggered_by(default_key_bindings[k], mode, mods, input)
                              THEN execute(w, default_key_bindings[k].action, o)
                            ELSE w
  <1>1. n \in Nat BY BindingsSeq
  <1>r. ASSUME NEW w, Step(x, w), NEW k PROVE Step(x, Round(w, k))
    <2>1. Fine(w) /\ Likely(o, w.t) BY <1>r, SameMatches DEF Step, Pace, Likely
    <2>2. Step(w, execute(w, default_key_bindings[k].action, o)) BY <2>1, ExecuteStep
    <2>3. Step(x, execute(w, default_key_bindings[k].action, o)) BY <1>r, <2>2, StepTwice
    <2>4. QED BY <1>r, <2>3
  <1> HIDE DEF n, base, Round
  <1>2. \E r : r = [k \in 0 .. n |-> IF k = 0 THEN base ELSE Round(r[k - 1], k)]
    <2> DEFINE Runs(m, r) == r = [k \in 0 .. m |-> IF k = 0 THEN base ELSE Round(r[k - 1], k)]
               K == {m \in 0 .. n : \E r : Runs(m, r)}
    <2>1. 0 \in K
      <3>1. Runs(0, [k \in 0 .. 0 |-> base]) OBVIOUS
      <3> HIDE DEF Runs
      <3>2. QED BY <1>1, <3>1
    <2>2. ASSUME NEW m \in 1 .. n, m - 1 \in K PROVE m \in K
      <3>1. PICK r : Runs(m - 1, r) BY <2>2
      <3> DEFINE longer == [k \in 0 .. m |-> IF k = m THEN Round(r[m - 1], m) ELSE r[k]]
      <3>2. ASSUME NEW k \in 0 .. m PROVE longer[k] = IF k = 0 THEN base ELSE Round(longer[k - 1], k)
        <4>1. CASE k = m
          <5>1. k - 1 \in 0 .. m /\ k - 1 # m /\ k # 0 BY <4>1
          <5>2. longer[k - 1] = r[m - 1] BY <4>1, <5>1
          <5>3. QED BY <4>1, <5>1, <5>2
        <4>2. CASE k # m /\ k # 0
          <5>1. k - 1 \in 0 .. m /\ k - 1 # m /\ k \in 0 .. (m - 1) BY <4>2
          <5>2. longer[k - 1] = r[k - 1] /\ longer[k] = r[k] BY <4>2, <5>1
          <5>3. r[k] = Round(r[k - 1], k) BY <3>1, <4>2, <5>1
          <5>4. QED BY <4>2, <5>2, <5>3
        <4>3. CASE k # m /\ k = 0
          <5>1. k \in 0 .. (m - 1) BY <4>3
          <5>2. r[k] = base BY <3>1, <4>3, <5>1
          <5>3. QED BY <4>3, <5>2
        <4>4. QED BY <4>1, <4>2, <4>3
      <3>3. longer = [k \in 0 .. m |-> longer[k]] OBVIOUS
      <3> HIDE DEF longer
      <3>4. Runs(m, longer) BY <3>2, <3>3
      <3> HIDE DEF Runs
      <3>5. QED BY <3>4
    <2> HIDE DEF K
    <2>3. \A m \in 0 .. n : m \in K BY <1>1, <2>1, <2>2, EveryRound
    <2>4. n \in K BY <1>1, <2>3
    <2>5. QED BY <2>4 DEF K
  <1> DEFINE g == CHOOSE r : r = [k \in 0 .. n |-> IF k = 0 THEN base ELSE Round(r[k - 1], k)]
  <1>g. g = [k \in 0 .. n |-> IF k = 0 THEN base ELSE Round(g[k - 1], k)] BY <1>2, Zenon
  <1>3. g[0] = base
    <2> HIDE DEF g
    <2>1. QED BY <1>1, <1>g
  <1>4. ASSUME NEW k \in 1 .. n PROVE g[k] = Round(g[k - 1], k)
    <2> HIDE DEF g
    <2>1. k \in 0 .. n /\ k # 0 BY <1>1
    <2>2. QED BY <1>g, <2>1
  <1>5. Executed(x, key, mods, o) = g[n] BY Zenon DEF Executed, n, g, base, Round
  <1> HIDE DEF g
  <1> DEFINE K == {k \in 0 .. n : Step(x, g[k])}
  <1>6. 0 \in K
    <2>1. Step(x, g[0]) BY <1>3, StepSelf DEF base
    <2>2. QED BY <1>1, <2>1
  <1>7. ASSUME NEW k \in 1 .. n, k - 1 \in K PROVE k \in K
    <2>1. Step(x, g[k - 1]) BY <1>7
    <2>2. Step(x, g[k]) BY <1>4, <1>r, <2>1
    <2>3. QED BY <1>1, <2>2
  <1>8. n \in K
    <2>1. \A k \in 0 .. n : k \in K
      <3> HIDE DEF K
      <3>1. QED BY <1>1, <1>6, <1>7, EveryRound
    <2>2. QED BY <1>1, <2>1
  <1>9. QED BY <1>5, <1>8

(* Processor::key_input *)
LEMMA KeyPressStep ==
  ASSUME NEW x, Fine(x), NEW key, NEW mods, NEW o, Likely(o, x.t), o.line \in {NoMatch, -x.t.grid.offset}
  PROVE  Step(x, KeyPress(x, key, mods, o))
  <1> DEFINE y == KeyPress(x, key, mods, o)
             text == Text(key, mods)
             triggered == Triggered(default_key_bindings, BindingMode(x.t.mode, search_active(x)), mods, key)
             Unbound(done) ==
               IF search_active(done)
                 THEN (IF text = << >> THEN done ELSE search_input(done, SearchKey(text[1]), o.valid, o.found))
               ELSE IF ViMode(x) \/ KeyPressed(key, mods, x.t.mode, "Pressed") = Nothing THEN done
               ELSE Write(done)
             Bound(done) == IF process_key_bindings(triggered) THEN done ELSE Unbound(done)
             hinted == IF text = << >> THEN x ELSE hint_input(x, text[1] \in {3, 27}, o.line, o.valid, o.found)
             found == inline_search_input(x, text, o.found)
             done == Executed(x, key, mods, o)
             bound == Bound(done)
  <1>o. o.valid \in BOOLEAN /\ o.found \in Matches(x.t) BY DEF Likely
  <1>e. y = CASE x.preedit -> x
              [] ~x.preedit /\ x.hint # "none" -> hinted
              [] ~x.preedit /\ x.hint = "none" /\ x.charPending -> found
              [] OTHER -> bound
    BY Zenon DEF KeyPress
  <1>1. Step(x, x) BY StepSelf
  <1>2. x.hint # "none" => Step(x, hinted)
    <2> DEFINE cancel == text[1] \in {3, 27}
               line == o.line
    <2>1. cancel \in BOOLEAN OBVIOUS
    <2>2. hinted = IF text = << >> THEN x ELSE hint_input(x, cancel, line, o.valid, o.found) OBVIOUS
    <2>3. line \in {NoMatch, -x.t.grid.offset} OBVIOUS
    <2> HIDE DEF cancel, line, hinted
    <2>4. x.hint # "none" => Step(x, hint_input(x, cancel, line, o.valid, o.found))
      BY <1>o, <2>1, <2>3, HintInputStep
    <2>5. QED BY <1>1, <2>2, <2>4
  <1>3. Step(x, found) BY InlineInputStep
  <1>4. Step(x, bound)
    <2>1. Step(x, done) BY ExecutedStep
    <2> HIDE DEF done
    <2>2. Fine(done) /\ o.found \in Matches(done.t) BY <1>o, <2>1, SameMatches DEF Step, Pace
    <2>3. Step(done, done) BY <2>2, StepSelf
    <2> DEFINE c == SearchKey(text[1])
    <2>4. Step(done, search_input(done, c, o.valid, o.found)) BY <1>o, <2>2, SearchInputStep
    <2>5. Step(done, Write(done)) BY <2>2, WriteCalm, CalmStep
    <2>6. Step(done, bound) BY <2>3, <2>4, <2>5
    <2> HIDE DEF bound
    <2>7. QED BY <2>1, <2>6, StepTwice
  <1>g. SUFFICES Step(x, y) OBVIOUS
  <1> HIDE DEF y, hinted, found, bound
  <1>5. x.preedit \in BOOLEAN /\ x.charPending \in BOOLEAN
    <2>1. x \in WindowType BY DEF Fine
    <2>2. QED BY <2>1 DEF WindowType
  <1>6. CASE x.preedit
    <2>1. y = x BY <1>e, <1>6
    <2>2. QED BY <1>1, <2>1
  <1>7. CASE ~x.preedit /\ x.hint # "none"
    <2>1. y = hinted BY <1>e, <1>7
    <2>2. QED BY <1>2, <1>7, <2>1
  <1>8. CASE ~x.preedit /\ x.hint = "none" /\ x.charPending
    <2>1. y = found BY <1>e, <1>8
    <2>2. QED BY <1>3, <2>1
  <1>9. CASE ~x.preedit /\ x.hint = "none" /\ ~x.charPending
    <2>1. y = bound BY <1>e, <1>9
    <2>2. QED BY <1>4, <2>1
  <1>10. QED BY <1>6, <1>7, <1>8, <1>9

(* The release of a key *)
LEMMA KeyReleaseStep ==
  ASSUME NEW x, Fine(x)
  PROVE  Step(x, KeyRelease(x))
  <1> DEFINE ime == x.ime \ {"VI"}
             y == [x EXCEPT !.ime = ime]
  <1>1. CASE ~x.preedit /\ x.charPending
    <2>1. KeyRelease(x) = y BY <1>1 DEF KeyRelease, set_ime_inhibitor
    <2>2. x \in WindowType BY DEF Fine
    <2>3. ime \in SUBSET {"FOCUS", "VI"} BY <2>2 DEF WindowType
    <2> HIDE DEF ime
    <2>4. y.charPending = x.charPending BY <2>2 DEF WindowType
    <2>5. ImeOk(y) BY <1>1, <2>4 DEF ImeOk
    <2>6. QED BY <2>1, <2>3, <2>5, ImePace
  <1>2. CASE ~(~x.preedit /\ x.charPending)
    <2>1. KeyRelease(x) = x BY <1>2 DEF KeyRelease
    <2>2. QED BY <2>1, StepSelf
  <1>3. QED BY <1>1, <1>2


-------------------------------------------------------------------------------
(* The other events. *)

(* What is not looked at: `written`, and the events of timers. *)
LEMMA WrittenCalm ==
  ASSUME NEW x, Fine(x)
  PROVE  LET y == [x EXCEPT !.written = FALSE] IN Calm(x, y) /\ y.t = x.t
  <1> DEFINE y == [x EXCEPT !.written = FALSE]
  <1>1. x \in WindowType BY DEF Fine
  <1>2. y \in WindowType BY <1>1 DEF WindowType
  <1>3. Frame(x, y) BY <1>1 DEF WindowType, Frame
  <1>4. /\ y.t = x.t /\ y.focused = x.focused /\ y.timedOut = x.timedOut /\ y.hidden = x.hidden
        /\ y.timers = x.timers /\ y.dirty = x.dirty /\ y.dfas = x.dfas
    BY <1>1 DEF WindowType
  <1> HIDE DEF y
  <1>5. Blinks(y) BY <1>4 DEF Fine, Blinks
  <1>6. Tame(x, y) BY <1>2, <1>3, <1>4, <1>5, Fining, Tames DEF Alike
  <1>7. QED BY <1>4, <1>6 DEF y, Calm, Looks

Queued(x, ts, q) == [x EXCEPT !.timers = ts, !.queue = q]

LEMMA QueueCalm ==
  ASSUME NEW x, Fine(x), NEW q \in Seq(Timers), NEW ts \in SUBSET Timers, ts \subseteq x.timers
  PROVE  LET y == Queued(x, ts, q) IN Calm(x, y) /\ y.t = x.t
  <1> DEFINE y == Queued(x, ts, q)
  <1> USE DEF Queued
  <1>1. x \in WindowType BY DEF Fine
  <1>2. y \in WindowType BY <1>1 DEF WindowType
  <1>3. Frame(x, y) BY <1>1 DEF WindowType, Frame
  <1>4. /\ y.t = x.t /\ y.focused = x.focused /\ y.timedOut = x.timedOut /\ y.hidden = x.hidden
        /\ y.timers = ts /\ y.dirty = x.dirty /\ y.dfas = x.dfas
    BY <1>1 DEF WindowType
  <1> HIDE DEF y
  <1>5. Blinks(y) BY <1>4 DEF Fine, Blinks
  <1>6. Tame(x, y) BY <1>2, <1>3, <1>4, <1>5, Fining, Tames DEF Alike
  <1>7. QED BY <1>4, <1>6 DEF y, Calm, Looks

(* Scheduler::update *)
LEMMA FireCalm ==
  ASSUME NEW x, Fine(x), NEW timer \in x.timers
  PROVE  Calm(x, FireTimer(x, timer))
  <1> DEFINE ts == IF timer = "BlinkCursor" THEN x.timers ELSE x.timers \ {timer}
             q == Append(x.queue, timer)
  <1>1. x \in WindowType BY DEF Fine
  <1>2. x.timers \in SUBSET Timers /\ x.queue \in Seq(Timers) BY <1>1 DEF WindowType
  <1>3. ts \in SUBSET Timers /\ ts \subseteq x.timers /\ q \in Seq(Timers) BY <1>2
  <1>4. FireTimer(x, timer) = Queued(x, ts, q) BY Zenon DEF FireTimer, Queued
  <1> HIDE DEF ts, q
  <1>5. QED BY <1>3, <1>4, QueueCalm

(* The next event of a timer is taken from the queue. *)
LEMMA TakenCalm ==
  ASSUME NEW x, Fine(x), x.queue # << >>
  PROVE  /\ Head(x.queue) \in Timers
         /\ LET y == [x EXCEPT !.queue = Tail(@)] IN Calm(x, y) /\ y.t = x.t
  <1> DEFINE q == Tail(x.queue)
             y == [x EXCEPT !.queue = q]
  <1>1. x \in WindowType BY DEF Fine
  <1>2. x.timers \in SUBSET Timers /\ x.queue \in Seq(Timers) BY <1>1 DEF WindowType
  <1>3. q \in Seq(Timers) /\ Head(x.queue) \in Timers BY <1>2
  <1> HIDE DEF q
  <1>4. y = Queued(x, x.timers, q) BY <1>1 DEF WindowType, Queued
  <1> HIDE DEF y
  <1>5. Calm(x, y) /\ y.t = x.t BY <1>2, <1>3, <1>4, QueueCalm
  <1>6. QED BY <1>3, <1>5 DEF y, q

(* Processor::handle_event: the events of timers. *)
LEMMA TimerStep ==
  ASSUME NEW x, Fine(x), NEW event \in Timers, NEW o, Likely(o, x.t)
  PROVE  Step(x, TimerEvent(x, event, o))
  <1>o. o.found \in Matches(x.t) BY DEF Likely
  <1>1. CASE event = "BlinkCursor"
    <2>1. TimerEvent(x, event, o) = BlinkCursor(x) BY <1>1 DEF TimerEvent
    <2>2. QED BY <2>1, BlinkCalm, CalmStep
  <1>2. CASE event = "BlinkTimeout"
    <2>1. TimerEvent(x, event, o) = BlinkCursorTimeout(x) BY <1>2 DEF TimerEvent
    <2>2. QED BY <2>1, BlinkCalm, CalmStep
  <1>3. CASE event = "DelayedSearch"
    <2>1. TimerEvent(x, event, o) = goto_match(x, FALSE, o.found) BY <1>3 DEF TimerEvent
    <2>2. QED BY <1>o, <2>1, GotoCalm, CalmStep
  <1>4. QED BY <1>1, <1>2, <1>3 DEF Timers

(* A change of focus *)
LEMMA FocusStep ==
  ASSUME NEW x, Fine(x), NEW is_focused \in BOOLEAN
  PROVE  Step(x, Focused(x, is_focused))
  <1> DEFINE f == [x EXCEPT !.isFocused = is_focused, !.dirty = TRUE]
             b == update_cursor_blinking(f)
             ime == IF ~is_focused THEN b.ime \union {"FOCUS"} ELSE b.ime \ {"FOCUS"}
             y == [b EXCEPT !.ime = ime]
  <1>1. Focused(x, is_focused) = y BY Zenon DEF Focused, set_ime_inhibitor
  <1>2. Calm(x, f)
    <2>1. x \in WindowType BY DEF Fine
    <2>2. f \in WindowType BY <2>1 DEF WindowType
    <2>3. Frame(x, f) BY <2>1 DEF WindowType, Frame
    <2>4. /\ f.t = x.t /\ f.focused = x.focused /\ f.timedOut = x.timedOut /\ f.hidden = x.hidden
          /\ f.timers = x.timers /\ f.dirty
      BY <2>1 DEF WindowType
    <2> HIDE DEF f
    <2>5. Blinks(f) BY <2>4 DEF Fine, Blinks
    <2>6. Tame(x, f) BY <2>2, <2>3, <2>4, <2>5, Fining, Tames DEF Alike
    <2>7. QED BY <2>4, <2>6 DEF Calm
  <1> HIDE DEF f
  <1>3. Fine(f) BY <1>2 DEF Calm, Tame
  <1>4. Calm(f, b) BY <1>3, BlinkingCalm
  <1> HIDE DEF b
  <1>5. Calm(x, b) BY <1>2, <1>4, CalmTwice
  <1>6. Fine(b) /\ b \in WindowType BY <1>5 DEF Calm, Tame, Fine
  <1>7. ime \in SUBSET {"FOCUS", "VI"} /\ ("VI" \in b.ime => "VI" \in ime)
    <2>1. b.ime \in SUBSET {"FOCUS", "VI"} BY <1>6 DEF WindowType
    <2>2. QED BY <2>1
  <1> HIDE DEF ime
  <1>8. ImeOk(b) => ImeOk(y)
    <2>1. y.t = b.t /\ y.index = b.index /\ y.charPending = b.charPending /\ y.ime = ime BY <1>6 DEF WindowType
    <2> HIDE DEF y
    <2>2. QED BY <1>7, <2>1 DEF ImeOk, ViMode, search_active
  <1>9. Step(b, y) BY <1>6, <1>7, <1>8, ImePace
  <1> HIDE DEF y
  <1>10. QED BY <1>1, <1>5, <1>9, CalmThenStep

(* The input method *)
LEMMA CommitStep ==
  ASSUME NEW x, Fine(x), NEW o, Likely(o, x.t)
  PROVE  Step(x, Commit(x, o))
  <1> DEFINE d == mark_dirty(x)
             p == paste(d, o.valid, o.found)
             y == update_cursor_blinking(p)
  <1>1. Commit(x, o) = y BY DEF Commit
  <1>2. Calm(x, d) /\ d.t = x.t BY DirtyTame
  <1> HIDE DEF d
  <1>3. Fine(d) /\ o.valid \in BOOLEAN /\ o.found \in Matches(d.t) BY <1>2 DEF Calm, Tame, Likely
  <1>4. Step(d, p) BY <1>3, PasteStep
  <1> HIDE DEF p
  <1>5. Step(x, p) BY <1>2, <1>4, CalmThenStep
  <1>6. Fine(p) BY <1>5 DEF Step, Pace
  <1>7. Calm(p, y) BY <1>6, BlinkingCalm
  <1> HIDE DEF y
  <1>8. QED BY <1>1, <1>5, <1>7, StepThenCalm

LEMMA PreeditStep ==
  ASSUME NEW x, Fine(x), NEW preedit \in BOOLEAN
  PROVE  Step(x, Preedit(x, preedit))
  <1> DEFINE z == [x EXCEPT !.preedit = preedit]
             b == update_cursor_blinking(z)
  <1>1. CASE x.preedit = preedit
    <2>1. Preedit(x, preedit) = x BY <1>1 DEF Preedit
    <2>2. QED BY <2>1, StepSelf
  <1>2. CASE x.preedit # preedit
    <2>1. Preedit(x, preedit) = mark_dirty(b) BY <1>2 DEF Preedit
    <2>2. x \in WindowType BY DEF Fine
    <2>3. z \in WindowType BY <2>2 DEF WindowType
    <2>4. /\ z.t = x.t /\ z.focused = x.focused /\ z.timedOut = x.timedOut /\ z.hidden = x.hidden /\ z.timers = x.timers
          /\ z.dirty = x.dirty /\ z.pending = x.pending /\ z.index = x.index /\ z.history = x.history
          /\ z.charPending = x.charPending /\ z.ime = x.ime /\ z.hint = x.hint
      BY <2>2 DEF WindowType
    <2> HIDE DEF z
    <2>5. ImeOk(x) => ImeOk(z) BY <2>4 DEF ImeOk, ViMode, search_active
    <2>6. Regexes(x.history, z.history) BY <2>4, FineHistory, RegexesSelf
    <2>7. z.index \in -1 .. Len(z.history) - 1 /\ Len(z.history) <= MaxSearchHistory BY <2>4 DEF Fine
    <2>8. Pace(x, z) BY <2>3, <2>4, <2>5, <2>6, <2>7, Fining, Paces
    <2>9. Fine(z) BY <2>8 DEF Pace
    <2>10. Pace(z, b) BY <2>9, BlinkingCalm, TamePace DEF Calm
    <2> HIDE DEF b
    <2>11. Pace(x, b) BY <2>8, <2>10, PaceTwice
    <2>12. QED BY <2>1, <2>11, DirtyStep
  <1>3. QED BY <1>1, <1>2

(* ActionContext::scroll by the wheel *)
LEMMA WheelStep ==
  ASSUME NEW x, Fine(x), NEW n \in Int
  PROVE  Step(x, scroll(x, n))
  BY FineLoose, ScrollCalm, CalmStep

(* What ends nothing, begins nothing and leaves the modes alone. *)
Held(x, y) ==
  /\ y.hint = x.hint /\ y.history = x.history /\ y.index = x.index /\ y.charPending = x.charPending
  /\ y.ime = x.ime /\ y.t.mode = x.t.mode

LEMMA HeldKeeps ==
  ASSUME NEW x, Fine(x), NEW y, Held(x, y)
  PROVE  (ImeOk(x) => ImeOk(y)) /\ Regexes(x.history, y.history)
  <1>1. Regexes(x.history, y.history) BY FineHistory, RegexesSelf DEF Held
  <1>2. ImeOk(x) => ImeOk(y) BY DEF Held, ImeOk, ViMode, search_active
  <1>3. QED BY <1>1, <1>2

(* WindowContext::submit_display_update *)
LEMMA SubmitFine ==
  ASSUME NEW x, Fine(x), NEW was
  PROVE  LET y == submit_display_update(x, was) IN Fine(y) /\ Held(x, y) /\ (y = x \/ y.dirty)
  <1> DEFINE y == submit_display_update(x, was)
             t == x.t
             lines == Larger(x.height - (IF search_active(x) THEN 1 ELSE 0), 1)
             cursorAtBottom == t.grid.cursor + 1 = t.lines
             originAtBottom == IF ViMode(x) THEN t.vi = t.lines - 1 ELSE x.direction = "Left"
             WithBar(u) ==
               CASE was \/ ~search_active(x) -> u
                 [] u.grid.offset = 0 /\ cursorAtBottom /\ ~originAtBottom /\ ~was /\ search_active(x) -> scroll_display(u, 1)
                 [] u.grid.offset # 0 /\ originAtBottom /\ ~was /\ search_active(x) -> scroll_display(u, -1)
                 [] OTHER -> u
             p == IF lines = t.lines THEN t ELSE resize_lines(t, lines)
             u == WithBar(p)
             f == IF lines = t.lines THEN x.focused ELSE NoMatch
  <1>1. CASE ~x.pending
    <2>1. y = x BY <1>1, Zenon DEF submit_display_update
    <2>2. Held(x, x) BY DEF Held
    <2>3. QED BY <2>1, <2>2
  <1>2. CASE x.pending
    <2>1. y = [x EXCEPT !.t = u, !.pending = FALSE, !.dirty = TRUE, !.focused = f]
      BY <1>2, Zenon DEF submit_display_update
    <2>2. x \in WindowType BY DEF Fine
    <2>3. lines \in Nat \ {0}
      <3>1. x.height \in Nat \ {0} BY <2>2 DEF WindowType
      <3>2. QED BY <3>1 DEF Larger
    <2> HIDE DEF lines
    <2>4. Lies(p) /\ InView(p) /\ p.mode = t.mode
      <3>1. CASE lines = t.lines BY <3>1, Fining
      <3>2. CASE lines # t.lines BY <2>3, <3>2, Fining, ResizeLies
      <3>3. QED BY <3>1, <3>2
    <2>5. p = t \/ f = NoMatch OBVIOUS
    <2> HIDE DEF p
    <2>6. Lies(u) /\ InView(u) /\ Alike(p, u)
      <3> DEFINE up == scroll_display(p, 1)
                 down == scroll_display(p, -1)
      <3>1. Lies(up) /\ InView(up) /\ Alike(p, up) BY <2>4, ScrollLies
      <3>2. Lies(down) /\ InView(down) /\ Alike(p, down) BY <2>4, ScrollLies
      <3>3. Alike(p, p) BY DEF Alike
      <3>4. u \in {p, up, down}
        <4> HIDE DEF cursorAtBottom, originAtBottom, up, down
        <4>1. u = CASE was \/ ~search_active(x) -> p
                    [] p.grid.offset = 0 /\ cursorAtBottom /\ ~originAtBottom /\ ~was /\ search_active(x) -> up
                    [] p.grid.offset # 0 /\ originAtBottom /\ ~was /\ search_active(x) -> down
                    [] OTHER -> p
          BY Zenon DEF up, down
        <4> HIDE DEF u
        <4>2. QED BY <4>1
      <3> HIDE DEF u, up, down
      <3>5. QED BY <2>4, <3>1, <3>2, <3>3, <3>4
    <2> HIDE DEF u
    <2>7. f \in Matches(u) /\ f \in Int
      <3>1. Matches(u) = Matches(p) BY <2>6 DEF Alike, Matches, GridLines, dims, topmost_line, bottommost_line
      <3>2. NoMatch \in Matches(p) /\ NoMatch \in Int BY DEF Matches, NoMatch
      <3>3. p = t => x.focused \in Matches(p) BY Fining
      <3>4. x.focused \in Int BY Fining
      <3>5. f \in {x.focused, NoMatch} OBVIOUS
      <3> HIDE DEF f
      <3>6. QED BY <2>5, <3>1, <3>2, <3>3, <3>4, <3>5
    <2>8. u \in TermType BY <2>6 DEF Lies, Placed
    <2> HIDE DEF f, y
    <2>9. y \in WindowType BY <2>1, <2>2, <2>7, <2>8 DEF WindowType
    <2>10. /\ y.t = u /\ y.focused = f /\ y.timedOut = x.timedOut /\ y.hidden = x.hidden /\ y.timers = x.timers
           /\ y.dirty /\ y.index = x.index /\ y.history = x.history /\ y.hint = x.hint
           /\ y.charPending = x.charPending /\ y.ime = x.ime
      BY <2>1, <2>2 DEF WindowType
    <2>11. Blinks(y) BY <2>10 DEF Fine, Blinks
    <2>12. Fine(y) BY <2>6, <2>7, <2>9, <2>10, <2>11 DEF Fine
    <2>13. Held(x, y) BY <2>4, <2>6, <2>10 DEF Held, Alike
    <2>14. QED BY <2>10, <2>12, <2>13 DEF y
  <1>3. QED BY <1>1, <1>2

(* A hint is asked for. *)
LEMMA HintFine ==
  ASSUME NEW x, Fine(x), NEW action \in HintActions
  PROVE  LET y == mark_dirty([x EXCEPT !.hint = action])
         IN  Fine(y) /\ y.dirty /\ y.hint = action /\ (ImeOk(x) => ImeOk(y)) /\ y.history = x.history
  <1> DEFINE y == mark_dirty([x EXCEPT !.hint = action])
  <1>1. x \in WindowType BY DEF Fine
  <1>2. y = [x EXCEPT !.hint = action, !.dirty = TRUE] BY DEF mark_dirty
  <1> HIDE DEF y
  <1>3. y \in WindowType BY <1>1, <1>2 DEF WindowType
  <1>4. /\ y.t = x.t /\ y.focused = x.focused /\ y.timedOut = x.timedOut /\ y.hidden = x.hidden /\ y.timers = x.timers
        /\ y.dirty /\ y.index = x.index /\ y.history = x.history /\ y.charPending = x.charPending /\ y.ime = x.ime
        /\ y.hint = action
    BY <1>1, <1>2 DEF WindowType
  <1>5. Blinks(y) BY <1>4 DEF Fine, Blinks
  <1>6. Fine(y) BY <1>3, <1>4, <1>5 DEF Fine
  <1>7. ImeOk(x) => ImeOk(y) BY <1>4 DEF ImeOk, ViMode, search_active
  <1>8. QED BY <1>4, <1>6, <1>7 DEF y

(* The window is drawn. *)
LEMMA DrawFine ==
  ASSUME NEW x, Fine(x)
  PROVE  LET y == [x EXCEPT !.dirty = FALSE] IN Fine(y) /\ Held(x, y) /\ Visible(y) = Visible(x)
  <1> DEFINE y == [x EXCEPT !.dirty = FALSE]
  <1>1. x \in WindowType BY DEF Fine
  <1>2. y \in WindowType BY <1>1 DEF WindowType
  <1>3. /\ y.t = x.t /\ y.focused = x.focused /\ y.timedOut = x.timedOut /\ y.hidden = x.hidden /\ y.timers = x.timers
        /\ y.index = x.index /\ y.history = x.history /\ y.charPending = x.charPending /\ y.ime = x.ime
        /\ y.hint = x.hint
    BY <1>1 DEF WindowType
  <1>4. y.preedit = x.preedit BY <1>1 DEF WindowType
  <1> HIDE DEF y
  <1>5. Blinks(y) BY <1>3 DEF Fine, Blinks
  <1>6. Fine(y) BY <1>2, <1>3, <1>5 DEF Fine
  <1>7. Held(x, y) BY <1>3 DEF Held
  <1>8. Visible(y) = Visible(x) BY <1>3, <1>4 DEF Visible, ViMode, search_active, Regex
  <1>9. QED BY <1>6, <1>7, <1>8 DEF y

(* The program writes a line. *)
LEMMA OutputFine ==
  ASSUME NEW x, Fine(x)
  PROVE  LET y == mark_dirty([x EXCEPT !.t = linefeed(@)]) IN Fine(y) /\ Held(x, y) /\ y.dirty
  <1> DEFINE u == linefeed(x.t)
             y == mark_dirty([x EXCEPT !.t = linefeed(@)])
  <1>1. x \in WindowType BY DEF Fine
  <1>2. y = [x EXCEPT !.t = u, !.dirty = TRUE] BY DEF mark_dirty
  <1>3. /\ Lies(u) /\ InView(u) /\ u.lines = x.t.lines /\ u.mode = x.t.mode
        /\ u.grid.history \in Nat /\ u.grid.history >= x.t.grid.history
    BY Fining, LinefeedLies
  <1> HIDE DEF u, y
  <1>4. u \in TermType BY <1>3 DEF Lies, Placed
  <1>5. x.focused \in Matches(u)
    <2>1. /\ GridLines(dims(x.t)) = -x.t.grid.history .. x.t.lines - 1
          /\ GridLines(dims(u)) = -u.grid.history .. u.lines - 1
      BY <1>3, Fining, Lying
    <2>2. x.t.grid.history \in Nat /\ x.t.lines \in Nat /\ x.focused \in Int BY Fining
    <2>3. -x.t.grid.history .. x.t.lines - 1 \subseteq -u.grid.history .. u.lines - 1 BY <1>3, <2>2
    <2>4. x.focused \in Matches(x.t) BY Fining
    <2>5. QED BY <2>1, <2>3, <2>4 DEF Matches
  <1>6. y \in WindowType BY <1>1, <1>2, <1>4 DEF WindowType
  <1>7. /\ y.t = u /\ y.focused = x.focused /\ y.timedOut = x.timedOut /\ y.hidden = x.hidden /\ y.timers = x.timers
        /\ y.dirty /\ y.index = x.index /\ y.history = x.history /\ y.charPending = x.charPending /\ y.ime = x.ime
        /\ y.hint = x.hint
    BY <1>1, <1>2 DEF WindowType
  <1>8. Blinks(y) BY <1>7 DEF Fine, Blinks
  <1>9. Fine(y) BY <1>3, <1>5, <1>6, <1>7, <1>8 DEF Fine
  <1>10. Held(x, y) BY <1>3, <1>7 DEF Held
  <1>11. QED BY <1>7, <1>9, <1>10 DEF y


-------------------------------------------------------------------------------
(* The inductive invariant of the window: what every handler keeps, and the input method
   for users without a hint that moves the vi mode cursor. *)
WindowSound ==
  /\ Fine(window)
  /\ "MoveViModeCursor" \notin scenario.events => ImeOk(window) /\ window.hint # "MoveViModeCursor"

(* What an event guarantees. *)
LEMMA EventSound ==
  ASSUME WindowSound, Step(window, window'), UNCHANGED scenario
  PROVE  WindowSound' /\ RedrawsChanges /\ OldRegexesStay
  <1>1. Pace(window, window') BY DEF Step
  <1>2. WindowSound' BY <1>1 DEF WindowSound, Pace, Fine, ImeOk, Blinks, Lies, InView, ViMode, search_active
  <1>3. RedrawsChanges BY DEF Step, Still, RedrawsChanges
  <1>4. OldRegexesStay BY <1>1 DEF Pace, Regexes, OldRegexesStay
  <1>5. QED BY <1>2, <1>3, <1>4

LEMMA HeldSound ==
  ASSUME WindowSound, Fine(window'), Held(window, window'), window'.dirty \/ Visible(window') = Visible(window),
         UNCHANGED scenario
  PROVE  WindowSound' /\ RedrawsChanges /\ OldRegexesStay
  <1>1. Fine(window) BY DEF WindowSound
  <1>2. (ImeOk(window) => ImeOk(window')) /\ Regexes(window.history, window'.history) BY <1>1, HeldKeeps
  <1>3. WindowSound' BY <1>2 DEF WindowSound, Held, Fine, ImeOk, Blinks, Lies, InView, ViMode, search_active
  <1>4. RedrawsChanges BY DEF RedrawsChanges
  <1>5. OldRegexesStay BY <1>2 DEF Regexes, OldRegexesStay
  <1>6. QED BY <1>3, <1>4, <1>5

(* The outcomes of searches are lines of the terminal. *)
LEMMA OutcomesLikely ==
  ASSUME Fine(window), NEW o \in Outcomes
  PROVE  Likely(o, window.t) /\ o.line \in {NoMatch, -window.t.grid.offset}
  <1> DEFINE top == topmost_line(dims(window.t))
             last == window.t.lines - 1
             t == window.t
  <1>1. /\ t.lines \in Nat \ {0} /\ t.grid.history \in Nat /\ GridLines(dims(t)) = -t.grid.history .. t.lines - 1
    BY Fining, Lying
  <1>2. top = -t.grid.history BY DEF topmost_line, dims
  <1>3. top \in GridLines(dims(t)) /\ 0 \in GridLines(dims(t)) /\ last \in GridLines(dims(t)) BY <1>1, <1>2
  <1>4. NoMatch \in Matches(t) /\ top \in Matches(t) /\ 0 \in Matches(t) /\ last \in Matches(t)
    BY <1>3 DEF Matches
  <1>5. /\ o.valid \in BOOLEAN /\ o.found \in {NoMatch, top, 0, last} /\ o.next \in {NoMatch, top, 0}
        /\ o.line \in {NoMatch, -t.grid.offset}
    BY DEF Outcomes
  <1> HIDE DEF top, last
  <1>6. QED BY <1>4, <1>5 DEF Likely

(* A new window. *)
LEMMA InitSound ==
  ASSUME WindowInit
  PROVE  WindowSound
  <1>1. PICK lines \in Heights, limit \in Histories : \E c \in {0, lines - 1} :
          window = update_cursor_blinking(NewWindow([new_term(lines, limit) EXCEPT !.grid.history = Smaller(limit, 1),
                                                                                   !.grid.cursor = c], scenario.blinking))
    BY DEF WindowInit
  <1>2. PICK c \in {0, lines - 1} :
          window = update_cursor_blinking(NewWindow([new_term(lines, limit) EXCEPT !.grid.history = Smaller(limit, 1),
                                                                                   !.grid.cursor = c], scenario.blinking))
    BY <1>1
  <1> DEFINE h == Smaller(limit, 1)
             zero == 0
             g == [history |-> h, limit |-> limit, offset |-> zero, cursor |-> c]
             i == NewGrid(0)
             r == [start |-> 0, end |-> lines]
             none == {}
             t == [lines |-> lines, grid |-> g, inactive |-> i, region |-> r, vi |-> zero, sel |-> NoSelection,
                   mode |-> none]
             x == NewWindow(t, scenario.blinking)
  <1>3. lines \in Nat \ {0} /\ limit \in Nat BY Sizes
  <1>4. h \in Nat /\ h <= limit /\ c \in Nat /\ c < lines /\ zero \in Nat BY <1>3 DEF Smaller
  <1>5. window = update_cursor_blinking(x)
    <2>1. [new_term(lines, limit) EXCEPT !.grid.history = h, !.grid.cursor = c] = t
      <3> DEFINE e == NewGrid(limit)
                 n == new_term(lines, limit)
      <3>1. e = [history |-> zero, limit |-> limit, offset |-> zero, cursor |-> zero] BY DEF NewGrid
      <3> HIDE DEF e, h
      <3>2. n = [lines |-> lines, grid |-> e, inactive |-> i, region |-> r, vi |-> zero, sel |-> NoSelection,
                 mode |-> none]
        BY DEF new_term, e, i
      <3> HIDE DEF n, i, r, zero, none
      <3> DEFINE f == [history |-> h, limit |-> limit, offset |-> zero, cursor |-> zero]
                 m == [n EXCEPT !.grid.history = h]
      <3>3. [e EXCEPT !.history = h] = f /\ [f EXCEPT !.cursor = c] = g BY <3>1
      <3> HIDE DEF f, g
      <3>4. n.grid = e BY <3>2
      <3>5. m = [n EXCEPT !.grid = f] BY <3>3, <3>4
      <3>6. m = [lines |-> lines, grid |-> f, inactive |-> i, region |-> r, vi |-> zero, sel |-> NoSelection,
                 mode |-> none]
        BY <3>2, <3>5
      <3>7. [n EXCEPT !.grid.history = h, !.grid.cursor = c] = [m EXCEPT !.grid.cursor = c] OBVIOUS
      <3> HIDE DEF m
      <3>8. [m EXCEPT !.grid.cursor = c] = [m EXCEPT !.grid = g] BY <3>3, <3>6
      <3>9. [m EXCEPT !.grid = g] = t BY <3>6
      <3>10. QED BY <3>7, <3>8, <3>9 DEF n
    <2>2. QED BY <1>2, <2>1
  <1>6. Fits(g, lines) /\ Fits(i, lines)
    <2>1. g \in GridType /\ g.history = h /\ g.limit = limit /\ g.offset = 0 /\ g.cursor = c
      <3> HIDE DEF h
      <3>1. QED BY <1>3, <1>4 DEF GridType
    <2> HIDE DEF g, h
    <2>2. Fits(g, lines) BY <1>3, <1>4, <2>1 DEF Fits
    <2>3. Fits(i, lines) BY <1>3, NewGridFits
    <2>4. QED BY <2>2, <2>3
  <1>g. g.offset = 0 /\ g.history = h OBVIOUS
  <1>r. r \in [start : Nat, end : Nat] /\ r.start = 0 /\ r.end = lines BY <1>3
  <1>m. none \in SUBSET {"VI", "ALT_SCREEN"} /\ none \subseteq {"VI"} /\ "VI" \notin none OBVIOUS
  <1> HIDE DEF g, i, h, r, none
  <1>7. t \in TermType
    <2>1. g \in GridType /\ i \in GridType BY <1>6 DEF Fits
    <2>2. QED BY <1>3, <1>4, <1>r, <1>m, <2>1 DEF TermType
  <1>8. /\ t.lines = lines /\ t.grid = g /\ t.inactive = i /\ t.region = r /\ t.vi = 0 /\ t.mode = none
    OBVIOUS
  <1> HIDE DEF t
  <1>9. Placed(t) BY <1>3, <1>6, <1>7, <1>8, <1>r DEF Placed
  <1>10. Lies(t) /\ InView(t)
    <2>1. t.grid.offset <= t.grid.history BY <1>4, <1>8, <1>g
    <2>2. Lies(t) BY <1>8, <1>9, <1>m, <2>1 DEF Lies, r
    <2>3. InView(t) BY <1>3, <1>8, <1>g DEF InView
    <2>4. QED BY <2>2, <2>3
  <1> DEFINE b == scenario.blinking
             gone == -1
             match == NoMatch
             seq == << >>
             away == {}
             w == [t |-> t, height |-> lines, blinking |-> b,
                   history |-> seq, index |-> gone, dfas |-> FALSE, focused |-> match, origin |-> zero, delta |-> zero,
                   direction |-> "Right", charPending |-> FALSE, character |-> FALSE, hint |-> "none", preedit |-> FALSE,
                   isFocused |-> TRUE, hidden |-> FALSE, timedOut |-> FALSE, timers |-> away, queue |-> seq,
                   ime |-> away, dirty |-> FALSE, pending |-> FALSE, written |-> FALSE]
  <1>11. x = w BY <1>8 DEF NewWindow
  <1>12. /\ b \in BOOLEAN /\ gone \in Int /\ match \in Int /\ seq \in Seq(Nat) /\ seq \in Seq(Timers) /\ Len(seq) = 0
         /\ away \in SUBSET Timers /\ away \in SUBSET {"FOCUS", "VI"}
    BY WindowAssumption DEF WindowInit, NoMatch
  <1>w. zero \in Int /\ (lines \in Nat \ {0}) BY <1>3
  <1> HIDE DEF b, match, seq, away, gone, zero
  <1>13. w \in WindowType BY <1>3, <1>7, <1>12, <1>w DEF WindowType, HintActions
  <1>14. /\ w.t = t /\ w.index = gone /\ w.history = seq /\ w.focused = match /\ ~w.timedOut /\ w.hint = "none" OBVIOUS
  <1> HIDE DEF w, x
  <1>15. Fine(w)
    <2>1. w.index \in -1 .. Len(w.history) - 1 /\ Len(w.history) <= MaxSearchHistory
      BY <1>12, <1>14, WindowAssumption DEF gone
    <2>2. w.focused \in Matches(w.t) BY <1>14 DEF Matches, match
    <2>3. Blinks(w) BY <1>14 DEF Blinks
    <2>4. QED BY <1>10, <1>13, <1>14, <2>1, <2>2, <2>3 DEF Fine
  <1>16. Calm(w, window) /\ window.t = w.t BY <1>5, <1>11, <1>15, BlinkingCalm
  <1>17. Fine(window) /\ window.hint = "none" BY <1>14, <1>16 DEF Calm, Tame, Frame
  <1>18. ImeOk(window) BY <1>8, <1>14, <1>16, <1>m DEF ImeOk, ViMode
  <1>19. QED BY <1>17, <1>18 DEF WindowSound

(* Every step keeps the invariant, redraws what it changes and keeps the history. *)
LEMMA NextSound ==
  ASSUME WindowSound, WindowNext
  PROVE  WindowSound' /\ RedrawsChanges /\ OldRegexesStay
  <1> DEFINE written == [window EXCEPT !.written = FALSE]
  <1>f. Fine(window) BY DEF WindowSound
  <1>w. Calm(window, written) /\ written.t = window.t BY <1>f, WrittenCalm
  <1> HIDE DEF written
  <1>x. Fine(written) BY <1>w DEF Calm, Tame
  <1>1. CASE KeyDown
    <2>1. PICK p \in scenario.presses, o \in Outcomes : window' = KeyPress(written, p[1], p[2], o) /\ UNCHANGED scenario
      BY <1>1 DEF KeyDown, Handle, written
    <2>2. Likely(o, written.t) /\ o.line \in {NoMatch, -written.t.grid.offset} BY <1>f, <1>w, OutcomesLikely
    <2>3. Step(written, window') BY <1>x, <2>1, <2>2, KeyPressStep
    <2>4. Step(window, window') BY <1>f, <1>w, <2>3, CalmThenStep
    <2>5. QED BY <2>1, <2>4, EventSound
  <1>2. CASE KeyUp
    <2>1. window' = KeyRelease(window) /\ UNCHANGED scenario BY <1>2 DEF KeyUp, Handle
    <2>2. QED BY <1>f, <2>1, KeyReleaseStep, EventSound
  <1>3. CASE FocusChange
    <2>1. window' = Focused(window, ~window.isFocused) /\ UNCHANGED scenario BY <1>3 DEF FocusChange, Handle
    <2> DEFINE b == ~window.isFocused
    <2>2. b \in BOOLEAN OBVIOUS
    <2>3. window' = Focused(window, b) BY <2>1
    <2> HIDE DEF b
    <2>4. Step(window, window') BY <1>f, <2>2, <2>3, FocusStep
    <2>5. QED BY <2>1, <2>4, EventSound
  <1>4. CASE InputMethod
    <2>1. UNCHANGED scenario BY <1>4 DEF InputMethod, Handle
    <2>2. CASE window' = Preedit(window, ~window.preedit)
      <3> DEFINE b == ~window.preedit
      <3>1. b \in BOOLEAN OBVIOUS
      <3>2. window' = Preedit(window, b) BY <2>2
      <3> HIDE DEF b
      <3>3. Step(window, window') BY <1>f, <3>1, <3>2, PreeditStep
      <3>4. QED BY <2>1, <3>3, EventSound
    <2>3. CASE \E o \in Outcomes : window' = Commit(written, o)
      <3>1. PICK o \in Outcomes : window' = Commit(written, o) BY <2>3
      <3>2. Likely(o, written.t) BY <1>f, <1>w, OutcomesLikely
      <3>3. Step(written, window') BY <1>x, <3>1, <3>2, CommitStep
      <3>4. Step(window, window') BY <1>f, <1>w, <3>3, CalmThenStep
      <3>5. QED BY <2>1, <3>4, EventSound
    <2>4. QED BY <1>4, <2>2, <2>3 DEF InputMethod, Handle, written
  <1>5. CASE StartHint
    <2>1. PICK action \in {"Command", "Copy", "Paste", "Select", "MoveViModeCursor"} :
            /\ action \in scenario.events /\ window' = mark_dirty([window EXCEPT !.hint = action]) /\ UNCHANGED scenario
      BY <1>5 DEF StartHint, Handle
    <2>2. action \in HintActions BY DEF HintActions
    <2>3. /\ Fine(window') /\ window'.dirty /\ window'.hint = action /\ (ImeOk(window) => ImeOk(window'))
          /\ window'.history = window.history
      BY <1>f, <2>1, <2>2, HintFine
    <2>4. WindowSound'
      <3>1. "MoveViModeCursor" \notin scenario.events => action # "MoveViModeCursor" BY <2>1
      <3>2. QED BY <2>1, <2>3, <3>1 DEF WindowSound, Fine, ImeOk, Blinks, Lies, InView, ViMode, search_active
    <2>5. RedrawsChanges BY <2>3 DEF RedrawsChanges
    <2>6. Regexes(window.history, window'.history) BY <1>f, <2>3, FineHistory, RegexesSelf
    <2>7. OldRegexesStay BY <2>6 DEF Regexes, OldRegexesStay
    <2>8. QED BY <2>4, <2>5, <2>7
  <1>6. CASE ScrollWheel
    <2>1. PICK n \in {-1, 1} : window' = scroll(window, n) /\ UNCHANGED scenario BY <1>6 DEF ScrollWheel, Handle
    <2>2. n \in Int OBVIOUS
    <2>3. Step(window, window') BY <1>f, <2>1, <2>2, WheelStep
    <2>4. QED BY <2>1, <2>3, EventSound
  <1>7. CASE Expire
    <2>1. PICK timer \in window.timers : window' = FireTimer(window, timer) BY <1>7 DEF Expire
    <2>2. UNCHANGED scenario BY <1>7 DEF Expire
    <2>3. Step(window, window') BY <1>f, <2>1, FireCalm, CalmStep
    <2>4. QED BY <2>2, <2>3, EventSound
  <1>8. CASE Arrive
    <2> DEFINE taken == [window EXCEPT !.queue = Tail(@)]
               event == Head(window.queue)
    <2>1. window.queue # << >> BY <1>8 DEF Arrive
    <2>2. PICK o \in Outcomes : window' = TimerEvent(taken, event, o) /\ UNCHANGED scenario
      BY <1>8 DEF Arrive, Handle
    <2>3. event \in Timers /\ Calm(window, taken) /\ taken.t = window.t BY <1>f, <2>1, TakenCalm
    <2> HIDE DEF taken, event
    <2>4. Fine(taken) /\ Likely(o, taken.t) BY <1>f, <2>3, OutcomesLikely DEF Calm, Tame
    <2>5. Step(taken, window') BY <2>2, <2>3, <2>4, TimerStep
    <2>6. Step(window, window') BY <1>f, <2>3, <2>5, CalmThenStep
    <2>7. QED BY <2>2, <2>6, EventSound
  <1>9. CASE EndOfBatch
    <2>1. window' = submit_display_update(window, batch.was) /\ UNCHANGED scenario BY <1>9 DEF EndOfBatch
    <2>2. Fine(window') /\ Held(window, window') /\ (window' = window \/ window'.dirty) BY <1>f, <2>1, SubmitFine
    <2>3. window'.dirty \/ Visible(window') = Visible(window) BY <2>2
    <2>4. QED BY <2>1, <2>2, <2>3, HeldSound
  <1>10. CASE Draw
    <2>1. window' = [window EXCEPT !.dirty = FALSE] /\ UNCHANGED scenario BY <1>10 DEF Draw
    <2>2. Fine(window') /\ Held(window, window') /\ Visible(window') = Visible(window) BY <1>f, <2>1, DrawFine
    <2>3. QED BY <2>1, <2>2, HeldSound
  <1>11. CASE Output
    <2>1. window' = mark_dirty([window EXCEPT !.t = linefeed(@)]) /\ UNCHANGED scenario BY <1>11 DEF Output
    <2>2. Fine(window') /\ Held(window, window') /\ window'.dirty BY <1>f, <2>1, OutputFine
    <2>3. QED BY <2>1, <2>2, HeldSound
  <1>12. QED BY <1>1, <1>2, <1>3, <1>4, <1>5, <1>6, <1>7, <1>8, <1>9, <1>10, <1>11 DEF WindowNext

LEMMA StutterSound ==
  ASSUME WindowSound, UNCHANGED windowVars
  PROVE  WindowSound' /\ RedrawsChanges /\ OldRegexesStay
  <1>1. window' = window /\ scenario' = scenario BY DEF windowVars
  <1>2. Fine(window) BY DEF WindowSound
  <1>3. Step(window, window') BY <1>1, <1>2, StepSelf
  <1>4. QED BY <1>1, <1>3, EventSound

(* What the invariant says of the window. *)
LEMMA SoundWindow ==
  ASSUME WindowSound
  PROVE  WindowInv
  <1>1. Fine(window) BY DEF WindowSound
  <1>2. WindowTypeOK
    <2>1. /\ window.index \in -1 .. Len(window.history) - 1 /\ Len(window.history) <= MaxSearchHistory
          /\ window.focused \in Matches(window.t) /\ Lies(window.t) /\ window \in WindowType
      BY <1>1 DEF Fine
    <2>2. window.timers \subseteq Timers /\ window.ime \subseteq {"FOCUS", "VI"} BY <2>1 DEF WindowType
    <2>3. window.t.grid.offset \in 0 .. window.t.grid.history /\ window.t.grid.cursor \in 0 .. window.t.lines - 1
      BY <2>1, Lying
    <2>4. QED BY <2>1, <2>2, <2>3 DEF WindowTypeOK, Timers, Matches
  <1>3. ViInView BY <1>1 DEF Fine, InView, ViInView
  <1>4. TimedOutShows BY <1>1 DEF Fine, Blinks, TimedOutShows
  <1>5. ImeOffInViMode BY DEF WindowSound, ImeOk, ImeOffInViMode
  <1>6. QED BY <1>2, <1>3, <1>4, <1>5 DEF WindowInv

(* In whatever order keys, timers, focus changes, hints, output and the input method come, the
   window stays as its modes say: the indices of the search and of the view are in bounds, the
   vi mode cursor is in the view, a cursor that has timed out is shown, and the input method is
   off in vi mode (the handlers of cutty/src/event.rs). *)
THEOREM WindowStaysSound == WindowSpec => []WindowInv
  <1>1. WindowInit => WindowSound BY InitSound
  <1>2. WindowSound /\ [WindowNext]_windowVars => WindowSound' BY NextSound, StutterSound
  <1>3. WindowSound => WindowInv BY SoundWindow
  <1>4. QED BY <1>1, <1>2, <1>3, PTL DEF WindowSpec

(* No event changes what the window shows without asking for it to be drawn, nor a regex of an
   earlier search (mark_dirty of cutty/src/event.rs, SearchState::history). *)
THEOREM WindowStepsSound == WindowSpec => WindowSteps
  <1>1. WindowInit => WindowSound BY InitSound
  <1>2. WindowSound /\ [WindowNext]_windowVars => WindowSound' BY NextSound, StutterSound
  <1>3. WindowSound /\ [WindowNext]_windowVars => [RedrawsChanges /\ OldRegexesStay]_windowVars
    BY NextSound, StutterSound
  <1>4. QED BY <1>1, <1>2, <1>3, PTL DEF WindowSpec, WindowSteps
===============================================================================
