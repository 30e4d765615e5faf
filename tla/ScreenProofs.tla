----------------------------- MODULE ScreenProofs -----------------------------
(***************************************************************************)
(* Proofs about the cells of the screen, for screens of every size: the    *)
(* cursor stays in the grid, every cell written since the last frame is in *)
(* the damage of the next, and printing keeps wide characters whole.       *)
(*                                                                         *)
(* Good is the inductive invariant.  Writing damages nothing by itself, so *)
(* it has to say where the cells that are written and not yet damaged are: *)
(* on the line of the cursor, between a column that will be damaged and    *)
(* the cursor.                                                             *)
(***************************************************************************)
EXTENDS ScreenSpec, WellFoundedInduction, TLAPS

Rows   == 0..(Lines - 1)
Kinds  == {"plain", "wide", "spacer", "leading"}
Bounds == [left : 0..Columns, right : 0..Columns]
Screens ==
  [cells : [Cells -> Kinds], cursor : Cells, wrap : BOOLEAN, mode : SUBSET {"INSERT", "LINE_WRAP"},
   tabs : SUBSET (0..Last), full : BOOLEAN, damage : [Rows -> Bounds], last : Cells,
   dirty : SUBSET Cells]

(* Something at or before p, or at or behind it, is in the damage of the next
   frame, to which the last position of the cursor belongs. *)
ReachesLeft(s, p) ==
  s.damage[p.line].left <= p.column \/ (s.last.line = p.line /\ s.last.column <= p.column)
ReachesRight(s, p) ==
  p.column <= s.damage[p.line].right \/ (s.last.line = p.line /\ p.column <= s.last.column)
Behind(s, p) == s.cursor.line = p.line /\ p.column <= s.cursor.column
Shown(s, p) == ReachesLeft(s, p) /\ (ReachesRight(s, p) \/ Behind(s, p))
Has(s, p) == AllDamaged(s) \/ InBounds(s.damage[p.line], p.column)

(* What holds while the cursor is on its way, and the inductive invariant. *)
Half(s) == s \in Screens /\ (AllDamaged(s) \/ \A p \in s.dirty : Shown(s, p))
Good(s) == Half(s) /\ (AllDamaged(s) \/ ReachesLeft(s, s.cursor))

(* The size of the screen and its cells. *)
LEMMA Sizes ==
  /\ Lines \in Nat \ {0} /\ Columns \in Nat /\ Columns >= 2 /\ Last \in Nat /\ Last = Columns - 1
  /\ Cells = [line : Rows, column : 0..Last]
  <1>1. Dims.lines = Lines /\ Dims.columns = Columns /\ Dims.history = 0 BY DEF Dims
  <1>2. GridLines(Dims) = Rows
    BY <1>1, ScreenAssumption DEF GridLines, topmost_line, bottommost_line, Rows
  <1>3. Cells = [line : Rows, column : 0..Last]
    BY <1>1, <1>2, Zenon DEF Cells, Points, last_column, Last
  <1>4. QED BY <1>3, ScreenAssumption DEF Last

(* Points are cells if their line and column are. *)
LEMMA PointIs ==
  ASSUME NEW l \in Rows, NEW c \in 0..Last
  PROVE  Point(l, c) \in Cells /\ Point(l, c).line = l /\ Point(l, c).column = c
  BY Sizes DEF Point

LEMMA CellIs ==
  ASSUME NEW p \in Cells
  PROVE  p.line \in Rows /\ p.column \in 0..Last /\ p = Point(p.line, p.column)
  BY Sizes DEF Point
-------------------------------------------------------------------------------
(* Damage. *)

(* TermDamageState::damage_line, when not everything is damaged. *)
Within(d, s, l, a, b) ==
  \A k \in Rows :
    /\ d.damage[k] \in Bounds /\ s.damage[k] \in Bounds
    /\ d.damage[k].left <= s.damage[k].left /\ s.damage[k].right <= d.damage[k].right
    /\ k = l => d.damage[k].left <= a /\ b <= d.damage[k].right

(* d differs from s in the damage only. *)
Kept(d, s) ==
  /\ d.cells = s.cells /\ d.cursor = s.cursor /\ d.wrap = s.wrap /\ d.mode = s.mode
  /\ d.tabs = s.tabs /\ d.last = s.last /\ d.dirty = s.dirty /\ d.full = s.full

LEMMA DamageIs ==
  ASSUME NEW s \in Screens, NEW l \in Rows, NEW a \in 0..Columns, NEW b \in 0..Columns
  PROVE  LET d == damage_line(s, l, a, b)
         IN  d \in Screens /\ Kept(d, s) /\ (AllDamaged(s) \/ Within(d, s, l, a, b))
  <1> DEFINE d == damage_line(s, l, a, b)
             new == expand(s.damage[l], a, b)
  <1>1. CASE AllDamaged(s)
    <2>1. d = s BY <1>1 DEF damage_line
    <2>2. QED BY <1>1, <2>1 DEF Kept
  <1>2. CASE ~AllDamaged(s)
    <2>1. d = [s EXCEPT !.damage = [s.damage EXCEPT ![l] = new]]
      BY <1>2 DEF damage_line, Screens
    <2>2. s.damage \in [Rows -> Bounds] /\ s.damage[l] \in Bounds BY DEF Screens
    <2>3. /\ new \in Bounds /\ new.left <= s.damage[l].left /\ s.damage[l].right <= new.right
          /\ new.left <= a /\ b <= new.right
      BY <2>2, Sizes DEF expand, Bounds, Smaller, Larger
    <2> HIDE DEF new
    <2>4. /\ d \in Screens /\ d.cells = s.cells /\ d.cursor = s.cursor /\ d.wrap = s.wrap
          /\ d.mode = s.mode /\ d.tabs = s.tabs /\ d.last = s.last /\ d.dirty = s.dirty
          /\ d.full = s.full /\ d.damage = [s.damage EXCEPT ![l] = new]
      BY <2>1, <2>2, <2>3 DEF Screens
    <2> HIDE DEF d
    <2>5. ASSUME NEW k \in Rows
          PROVE  /\ d.damage[k] \in Bounds /\ s.damage[k] \in Bounds
                 /\ d.damage[k].left <= s.damage[k].left /\ s.damage[k].right <= d.damage[k].right
                 /\ k = l => d.damage[k].left <= a /\ b <= d.damage[k].right
      <3>1. s.damage[k] \in Bounds /\ d.damage[k] = IF k = l THEN new ELSE s.damage[k]
        BY <2>2, <2>4
      <3>2. QED BY <2>3, <3>1, Sizes DEF Bounds
    <2>6. Within(d, s, l, a, b) BY <2>5 DEF Within
    <2>7. Kept(d, s) BY <2>4 DEF Kept
    <2>8. QED BY <2>4, <2>6, <2>7 DEF d
  <1>3. QED BY <1>1, <1>2

(* A range of a line is damaged; the cells in it will be drawn. *)
LEMMA LineDamaged ==
  ASSUME NEW s, Half(s), NEW l \in Rows, NEW a \in 0..Columns, NEW b \in 0..Columns
  PROVE  LET d == damage_line(s, l, a, b)
         IN  /\ Half(d) /\ (Good(s) => Good(d)) /\ (AllDamaged(d) <=> AllDamaged(s))
             /\ d.cells = s.cells /\ d.cursor = s.cursor /\ d.wrap = s.wrap /\ d.mode = s.mode
             /\ d.tabs = s.tabs /\ d.last = s.last /\ d.dirty = s.dirty /\ d.full = s.full
             /\ \A p \in Cells : Has(s, p) => Has(d, p)
             /\ \A p \in Cells : p.line = l /\ a <= p.column /\ p.column <= b => Has(d, p)
  <1> DEFINE d == damage_line(s, l, a, b)
  <1>1. s \in Screens BY DEF Half
  <1>2. d \in Screens /\ Kept(d, s) /\ (AllDamaged(s) \/ Within(d, s, l, a, b))
    BY <1>1, DamageIs
  <1>3. CASE AllDamaged(s)
    <2>1. d = s BY <1>3 DEF damage_line
    <2>2. QED BY <1>3, <2>1 DEF Has
  <1>4. CASE ~AllDamaged(s)
    <2> HIDE DEF d
    <2>1. ~AllDamaged(d) BY <1>2, <1>4 DEF AllDamaged, Kept
    <2>2. ASSUME NEW p \in Cells
          PROVE  /\ d.damage[p.line].left <= s.damage[p.line].left
                 /\ s.damage[p.line].right <= d.damage[p.line].right
                 /\ p.line = l => d.damage[p.line].left <= a /\ b <= d.damage[p.line].right
                 /\ d.damage[p.line].left \in Int /\ d.damage[p.line].right \in Int
                 /\ s.damage[p.line].left \in Int /\ s.damage[p.line].right \in Int
                 /\ p.column \in Int
      BY <1>2, <1>4, CellIs, Sizes DEF Within, Bounds
    <2>3. /\ \A p \in Cells : Has(s, p) => Has(d, p)
          /\ \A p \in Cells : p.line = l /\ a <= p.column /\ p.column <= b => Has(d, p)
      BY <1>4, <2>1, <2>2, Sizes DEF Has, InBounds
    <2>4. \A p \in Cells : (ReachesLeft(s, p) => ReachesLeft(d, p)) /\ (Shown(s, p) => Shown(d, p))
      BY <1>2, <2>2, Sizes DEF ReachesLeft, ReachesRight, Behind, Shown, Kept
    <2>5. Half(d) BY <1>1, <1>2, <1>4, <2>1, <2>4 DEF Half, Screens, Kept
    <2>6. Good(s) => Good(d) BY <1>1, <1>2, <1>4, <2>4, <2>5 DEF Good, Screens, Kept
    <2>7. QED BY <1>2, <1>4, <2>1, <2>3, <2>5, <2>6 DEF d, Kept
  <1>5. QED BY <1>3, <1>4

(* The cell of the cursor is damaged. *)
LEMMA CursorDamaged ==
  ASSUME NEW s, Half(s)
  PROVE  LET d == damage_cursor(s)
         IN  /\ Good(d) /\ Has(d, d.cursor) /\ (AllDamaged(d) <=> AllDamaged(s))
             /\ d.cells = s.cells /\ d.cursor = s.cursor /\ d.wrap = s.wrap /\ d.mode = s.mode
             /\ d.tabs = s.tabs /\ d.last = s.last /\ d.dirty = s.dirty /\ d.full = s.full
             /\ \A p \in Cells : Has(s, p) => Has(d, p)
  <1> DEFINE c == s.cursor
             d == damage_line(s, c.line, c.column, c.column)
  <1>1. damage_cursor(s) = d BY DEF damage_cursor, damage_point
  <1>2. c \in Cells BY DEF Half, Screens
  <1>3. c.line \in Rows /\ c.column \in 0..Columns /\ c.column <= c.column BY <1>2, CellIs, Sizes
  <1>4. /\ Half(d) /\ (AllDamaged(d) <=> AllDamaged(s))
        /\ d.cells = s.cells /\ d.cursor = s.cursor /\ d.wrap = s.wrap /\ d.mode = s.mode
        /\ d.tabs = s.tabs /\ d.last = s.last /\ d.dirty = s.dirty /\ d.full = s.full
        /\ \A p \in Cells : Has(s, p) => Has(d, p)
        /\ \A p \in Cells : p.line = c.line /\ c.column <= p.column /\ p.column <= c.column => Has(d, p)
    BY <1>3, LineDamaged
  <1> HIDE DEF d
  <1>5. Has(d, d.cursor) BY <1>2, <1>3, <1>4
  <1>6. Good(d) BY <1>4, <1>5 DEF Good, Has, InBounds, ReachesLeft
  <1>7. QED BY <1>1, <1>4, <1>5, <1>6

(* A cell that is damaged will be drawn. *)
LEMMA HasShown ==
  ASSUME NEW s, NEW p, Has(s, p)
  PROVE  AllDamaged(s) \/ Shown(s, p)
  BY DEF Has, InBounds, Shown, ReachesLeft, ReachesRight

(* Nothing is damaged; the cursor is only taken from a cell that is, or on to
   the right. *)
LEMMA Carried ==
  ASSUME NEW s, Half(s), NEW u \in Screens, AllDamaged(u) <=> AllDamaged(s),
         u.damage = s.damage, u.last = s.last,
         AllDamaged(u) \/ \A p \in u.dirty : p \in s.dirty \/ Shown(u, p),
         Has(s, s.cursor) \/ (u.cursor.line = s.cursor.line /\ s.cursor.column <= u.cursor.column)
  PROVE  /\ Half(u) /\ \A p : Has(u, p) <=> Has(s, p)
         /\ Good(s) /\ u.cursor.line = s.cursor.line /\ s.cursor.column <= u.cursor.column => Good(u)
  <1>1. \A p : Has(u, p) <=> Has(s, p) BY DEF Has
  <1>2. CASE AllDamaged(s) BY <1>1, <1>2 DEF Half, Good
  <1>3. CASE ~AllDamaged(s)
    <2>1. /\ s \in Screens /\ s.cursor \in Cells /\ u.cursor \in Cells /\ s.last \in Cells
          /\ s.damage \in [Rows -> Bounds] /\ s.dirty \in SUBSET Cells
      BY DEF Half, Screens
    <2>2. /\ s.cursor.line \in Rows /\ s.cursor.column \in Int /\ u.cursor.column \in Int
          /\ s.damage[s.cursor.line] \in Bounds /\ s.last.column \in Int
      BY <2>1, CellIs, Sizes
    <2>3. ASSUME NEW p \in Cells
          PROVE  /\ Shown(s, p) => Shown(u, p)
                 /\ ReachesLeft(s, p) <=> ReachesLeft(u, p)
      <3>1. /\ p.column \in Int /\ s.damage[p.line] \in Bounds
            /\ s.damage[p.line].left \in Int /\ s.damage[p.line].right \in Int
        BY <2>1, CellIs, Sizes DEF Bounds
      <3>2. ReachesLeft(s, p) <=> ReachesLeft(u, p) BY DEF ReachesLeft
      <3>3. ReachesRight(s, p) <=> ReachesRight(u, p) BY DEF ReachesRight
      <3>4. Behind(s, p) => ReachesRight(u, p) \/ Behind(u, p)
        BY <1>3, <2>2, <3>1 DEF Behind, ReachesRight, Has, InBounds
      <3>5. QED BY <3>2, <3>3, <3>4 DEF Shown
    <2>4. Half(u) BY <1>3, <2>1, <2>3 DEF Half
    <2>5. Good(s) /\ u.cursor.line = s.cursor.line /\ s.cursor.column <= u.cursor.column
            => ReachesLeft(u, u.cursor)
      <3>1. s.damage[s.cursor.line].left \in Int BY <2>2, Sizes DEF Bounds
      <3>2. QED BY <1>3, <2>2, <3>1 DEF Good, ReachesLeft
    <2>6. QED BY <1>1, <2>4, <2>5 DEF Good
  <1>4. QED BY <1>2, <1>3

(* Everything is damaged. *)
LEMMA NoDamage == NothingDamaged \in [Rows -> Bounds]
  BY Sizes DEF NothingDamaged, Rows, Bounds, undamaged

LEMMA FullGood ==
  ASSUME NEW s \in Screens
  PROVE  LET d == mark_fully_damaged(s)
         IN  /\ Good(d) /\ AllDamaged(d) /\ d.full /\ d.last = s.last
             /\ d.cells = s.cells /\ d.cursor = s.cursor /\ d.wrap = s.wrap /\ d.mode = s.mode
             /\ d.tabs = s.tabs
  <1> DEFINE d == mark_fully_damaged(s)
  <1>1. /\ d \in Screens /\ d.full /\ d.last = s.last
        /\ d.cells = s.cells /\ d.cursor = s.cursor /\ d.wrap = s.wrap /\ d.mode = s.mode
        /\ d.tabs = s.tabs
    BY NoDamage DEF mark_fully_damaged, Screens
  <1> HIDE DEF d
  <1>2. AllDamaged(d) BY <1>1 DEF AllDamaged
  <1>3. Good(d) BY <1>1, <1>2 DEF Good, Half
  <1>4. QED BY <1>1, <1>2, <1>3 DEF d

(* Cells get other contents, and those that do will be drawn. *)
LEMMA ChangeGood ==
  ASSUME NEW s, Good(s), NEW cells \in [Cells -> Kinds], NEW written \in SUBSET Cells,
         AllDamaged(s) \/ \A p \in written : Shown(s, p)
  PROVE  LET d == Change(s, cells, written)
         IN  /\ Good(d) /\ (AllDamaged(d) <=> AllDamaged(s)) /\ d.last = s.last
             /\ d.cells = cells /\ d.cursor = s.cursor /\ d.wrap = s.wrap /\ d.mode = s.mode
             /\ d.tabs = s.tabs /\ d.damage = s.damage /\ \A p : Has(d, p) <=> Has(s, p)
  <1> DEFINE dirty == IF AllDamaged(s) THEN {} ELSE s.dirty \union written
             d == [s EXCEPT !.cells = cells, !.dirty = dirty]
  <1>1. s \in Screens /\ Half(s) /\ s.dirty \in SUBSET Cells /\ s.cursor \in Cells
    BY DEF Good, Half, Screens
  <1>2. Change(s, cells, written) = d BY <1>1 DEF Change, Screens
  <1>3. dirty \in SUBSET Cells /\ (AllDamaged(s) \/ dirty = s.dirty \union written) BY <1>1
  <1> HIDE DEF dirty
  <1>4. /\ d \in Screens /\ d.last = s.last /\ d.full = s.full /\ d.dirty = dirty
        /\ d.cells = cells /\ d.cursor = s.cursor /\ d.wrap = s.wrap /\ d.mode = s.mode
        /\ d.tabs = s.tabs /\ d.damage = s.damage
    BY <1>1, <1>3 DEF Screens
  <1> HIDE DEF d
  <1>5. AllDamaged(d) <=> AllDamaged(s) BY <1>4 DEF AllDamaged
  <1>6. \A p : Shown(s, p) => Shown(d, p)
    BY <1>4 DEF Shown, ReachesLeft, ReachesRight, Behind
  <1>7. d.cursor.line = s.cursor.line /\ s.cursor.column <= d.cursor.column
    BY <1>1, <1>4, CellIs, Sizes
  <1>8. AllDamaged(d) \/ \A p \in d.dirty : p \in s.dirty \/ Shown(d, p)
    BY <1>3, <1>4, <1>5, <1>6
  <1>9. Good(d) /\ \A p : Has(d, p) <=> Has(s, p)
    BY <1>1, <1>4, <1>5, <1>7, <1>8, Carried
  <1>10. QED BY <1>2, <1>4, <1>5, <1>9
-------------------------------------------------------------------------------
(* Motions. *)

(* u differs from s in the cursor and input_needs_wrap only. *)
Same(u, s) ==
  /\ u.cells = s.cells /\ u.mode = s.mode /\ u.tabs = s.tabs /\ u.last = s.last
  /\ u.full = s.full /\ u.damage = s.damage /\ u.dirty = s.dirty

LEMMA MovedIs ==
  ASSUME NEW s \in Screens, NEW p \in Cells, NEW w \in BOOLEAN
  PROVE  LET u == [s EXCEPT !.cursor = p, !.wrap = w]
         IN  u \in Screens /\ Same(u, s) /\ u.cursor = p /\ u.wrap = w
  BY DEF Screens, Same

LEMMA ColumnIs ==
  ASSUME NEW s \in Screens, NEW c \in 0..Last
  PROVE  LET u == [s EXCEPT !.cursor.column = c]
         IN  u \in Screens /\ Same(u, s) /\ u.cursor = Point(s.cursor.line, c) /\ u.wrap = s.wrap
  <1> DEFINE p == [s.cursor EXCEPT !.column = c]
             u == [s EXCEPT !.cursor.column = c]
  <1>1. p = Point(s.cursor.line, c) /\ p \in Cells BY Sizes DEF Screens, Point
  <1>2. u = [s EXCEPT !.cursor = p] BY DEF Screens
  <1> HIDE DEF p
  <1>3. u \in Screens /\ Same(u, s) /\ u.cursor = p /\ u.wrap = s.wrap
    BY <1>1, <1>2 DEF Screens, Same
  <1>4. QED BY <1>1, <1>3

LEMMA LineIs ==
  ASSUME NEW s \in Screens, NEW l \in Rows
  PROVE  LET u == [s EXCEPT !.cursor.line = l]
         IN  u \in Screens /\ Same(u, s) /\ u.cursor = Point(l, s.cursor.column) /\ u.wrap = s.wrap
  <1> DEFINE p == [s.cursor EXCEPT !.line = l]
             u == [s EXCEPT !.cursor.line = l]
  <1>1. p = Point(l, s.cursor.column) /\ p \in Cells BY Sizes DEF Screens, Point
  <1>2. u = [s EXCEPT !.cursor = p] BY DEF Screens
  <1> HIDE DEF p
  <1>3. u \in Screens /\ Same(u, s) /\ u.cursor = p /\ u.wrap = s.wrap
    BY <1>1, <1>2 DEF Screens, Same
  <1>4. QED BY <1>1, <1>3

LEMMA WrapIs ==
  ASSUME NEW s \in Screens, NEW w \in BOOLEAN
  PROVE  LET u == [s EXCEPT !.wrap = w]
         IN  u \in Screens /\ Same(u, s) /\ u.cursor = s.cursor /\ u.wrap = w
  BY DEF Screens, Same

LEMMA SameDamage ==
  ASSUME NEW s, NEW u, Same(u, s)
  PROVE  (AllDamaged(u) <=> AllDamaged(s)) /\ \A q : Has(u, q) <=> Has(s, q)
  BY DEF Same, AllDamaged, Has

(* The cursor leaves a cell that is damaged, for any other. *)
LEMMA PlaceHalf ==
  ASSUME NEW s, Half(s), Has(s, s.cursor), NEW u \in Screens, Same(u, s)
  PROVE  Half(u)
  BY SameDamage, Carried DEF Same

(* The cursor goes on to the right. *)
LEMMA RightGood ==
  ASSUME NEW s, Good(s), NEW u \in Screens, Same(u, s),
         u.cursor.line = s.cursor.line, s.cursor.column <= u.cursor.column
  PROVE  Good(u)
  <1>1. Half(s) /\ (AllDamaged(u) <=> AllDamaged(s)) BY SameDamage DEF Good
  <1>2. QED BY <1>1, Carried DEF Same

(* The cursor is in a cell that is damaged. *)
LEMMA HereGood ==
  ASSUME NEW s, Half(s), Has(s, s.cursor)
  PROVE  Good(s)
  BY DEF Good, Has, InBounds, ReachesLeft

(* input_needs_wrap changes alone. *)
LEMMA WrapGood ==
  ASSUME NEW s, Good(s), NEW w \in BOOLEAN
  PROVE  LET u == [s EXCEPT !.wrap = w]
         IN  Good(u) /\ Same(u, s) /\ u.cursor = s.cursor /\ u.wrap = w
  <1> DEFINE u == [s EXCEPT !.wrap = w]
  <1>1. s \in Screens /\ s.cursor \in Cells BY DEF Good, Half, Screens
  <1>2. u \in Screens /\ Same(u, s) /\ u.cursor = s.cursor /\ u.wrap = w BY <1>1, WrapIs
  <1> HIDE DEF u
  <1>3. s.cursor.column \in Int BY <1>1, CellIs, Sizes
  <1>4. Good(u) BY <1>2, <1>3, RightGood
  <1>5. QED BY <1>2, <1>4 DEF u

(* Term::scroll_up_relative and scroll_down_relative *)
LEMMA ScrollTyped ==
  ASSUME NEW s \in Screens, NEW origin \in Rows, NEW n \in Nat
  PROVE  /\ ScrolledUp(s, origin, n) \in [Cells -> Kinds]
         /\ ScrolledDown(s, origin, n) \in [Cells -> Kinds]
  <1>1. s.cells \in [Cells -> Kinds] BY DEF Screens
  <1>2. ASSUME NEW p \in Cells
        PROVE  /\ ~(p.line < origin) /\ p.line + n < Lines => Point(p.line + n, p.column) \in Cells
               /\ ~(p.line < origin) /\ p.line - n >= origin => Point(p.line - n, p.column) \in Cells
    <2>1. p.line \in Rows /\ p.column \in 0..Last BY CellIs
    <2>2. /\ p.line + n < Lines => p.line + n \in Rows
          /\ p.line - n >= origin => p.line - n \in Rows
      BY <2>1, Sizes DEF Rows
    <2>3. QED BY <2>1, <2>2, PointIs
  <1>3. "plain" \in Kinds BY DEF Kinds
  <1>4. QED BY <1>1, <1>2, <1>3 DEF ScrolledUp, ScrolledDown

LEMMA ScrollGood ==
  ASSUME NEW s \in Screens, NEW origin \in Rows, NEW n \in Nat
  PROVE  LET u == scroll_up_relative(s, origin, n)
         IN  /\ Good(u) /\ Good(scroll_down_relative(s, origin, n)) /\ AllDamaged(u)
             /\ u.cells = ScrolledUp(s, origin, Smaller(n, Lines)) /\ u.cursor = s.cursor
             /\ u.wrap = s.wrap /\ u.mode = s.mode
  <1> DEFINE a == ScrolledUp(s, origin, Smaller(n, Lines))
             b == ScrolledDown(s, origin, Smaller(n, Lines - origin))
  <1>1. Smaller(n, Lines) \in Nat /\ Smaller(n, Lines - origin) \in Nat
    BY Sizes DEF Smaller, Rows
  <1>2. a \in [Cells -> Kinds] /\ b \in [Cells -> Kinds] BY <1>1, ScrollTyped
  <1>3. /\ scroll_up_relative(s, origin, n) = mark_fully_damaged([s EXCEPT !.cells = a])
        /\ scroll_down_relative(s, origin, n) = mark_fully_damaged([s EXCEPT !.cells = b])
    BY Zenon DEF scroll_up_relative, scroll_down_relative
  <1> HIDE DEF a, b
  <1>4. /\ [s EXCEPT !.cells = a] \in Screens /\ [s EXCEPT !.cells = b] \in Screens
        /\ [s EXCEPT !.cells = a].cells = a /\ [s EXCEPT !.cells = a].cursor = s.cursor
        /\ [s EXCEPT !.cells = a].wrap = s.wrap /\ [s EXCEPT !.cells = a].mode = s.mode
    BY <1>2 DEF Screens
  <1>5. QED BY <1>3, <1>4, FullGood DEF a

(* The cursor goes from a cell to another, and both are damaged. *)
LEMMA GotoGood ==
  ASSUME NEW s, Half(s), NEW v \in Screens, Same(v, damage_cursor(s))
  PROVE  LET u == damage_cursor(v)
         IN  /\ Good(u) /\ u.cells = s.cells /\ u.cursor = v.cursor /\ u.wrap = v.wrap
             /\ u.mode = s.mode
  <1> DEFINE d == damage_cursor(s)
  <1>1. Half(d) /\ Has(d, d.cursor) /\ d.cells = s.cells /\ d.mode = s.mode
    BY CursorDamaged DEF Good
  <1> HIDE DEF d
  <1>2. Half(v) BY <1>1, PlaceHalf DEF d
  <1>3. v.cells = s.cells /\ v.mode = s.mode BY <1>1 DEF Same, d
  <1>4. QED BY <1>2, <1>3, CursorDamaged

(* Handler::linefeed and reverse_index *)
LEMMA LineGood ==
  ASSUME NEW s, Good(s)
  PROVE  Good(linefeed(s)) /\ Good(reverse_index(s))
  <1> DEFINE c == s.cursor
             d == damage_cursor(s)
  <1>1. s \in Screens /\ Half(s) /\ c \in Cells BY DEF Good, Half, Screens
  <1>2. c.line \in Rows /\ c.column \in 0..Last /\ 0 \in Rows /\ 1 \in Nat
    BY <1>1, CellIs, Sizes DEF Rows
  <1>3. d \in Screens /\ d.cursor = c BY <1>1, CursorDamaged DEF Good, Half
  <1>4. ASSUME NEW l \in Rows
        PROVE  Good(damage_cursor([d EXCEPT !.cursor.line = l]))
    <2> DEFINE v == [d EXCEPT !.cursor.line = l]
    <2>1. v \in Screens /\ Same(v, d) BY <1>3, LineIs
    <2> HIDE DEF v
    <2>2. QED BY <1>1, <2>1, GotoGood DEF v
  <1>5. Good(linefeed(s))
    <2>1. CASE c.line + 1 = Lines
      <3>1. linefeed(s) = scroll_up_relative(s, 0, 1) BY <2>1 DEF linefeed
      <3>2. QED BY <1>1, <1>2, <3>1, ScrollGood
    <2>2. CASE c.line + 1 # Lines
      <3>1. linefeed(s) = damage_cursor([d EXCEPT !.cursor.line = c.line + 1])
        BY <1>3, <2>2 DEF linefeed, Screens
      <3>2. c.line + 1 \in Rows BY <1>2, <2>2, Sizes DEF Rows
      <3>3. QED BY <1>4, <3>1, <3>2
    <2>3. QED BY <2>1, <2>2
  <1>6. Good(reverse_index(s))
    <2>1. CASE c.line = 0
      <3>1. reverse_index(s) = scroll_down_relative(s, 0, 1) BY <2>1 DEF reverse_index
      <3>2. QED BY <1>1, <1>2, <3>1, ScrollGood
    <2>2. CASE c.line # 0
      <3>1. reverse_index(s) = damage_cursor([d EXCEPT !.cursor.line = c.line - 1])
        BY <1>3, <2>2 DEF reverse_index, Screens
      <3>2. c.line - 1 \in Rows BY <1>2, <2>2, Sizes DEF Rows
      <3>3. QED BY <1>4, <3>1, <3>2
    <2>3. QED BY <2>1, <2>2
  <1>7. QED BY <1>5, <1>6

(* Handler::goto and restore_cursor_position *)
LEMMA CursorIs ==
  ASSUME NEW s \in Screens, NEW p \in Cells
  PROVE  LET u == [s EXCEPT !.cursor = p] IN u \in Screens /\ Same(u, s) /\ u.cursor = p
  BY DEF Screens, Same

LEMMA JumpGood ==
  ASSUME NEW s, Good(s), NEW p \in Cells
  PROVE  /\ \A line \in Int, column \in Nat : Good(goto(s, line, column))
         /\ Good(restore_cursor_position(s, p, FALSE))
  <1> DEFINE d == damage_cursor(s)
  <1>1. Half(s) /\ d \in Screens BY CursorDamaged DEF Good, Half
  <1>2. ASSUME NEW q \in Cells
        PROVE  Good(damage_cursor([d EXCEPT !.cursor = q]))
    <2> DEFINE v == [d EXCEPT !.cursor = q]
    <2>1. v \in Screens /\ Same(v, d) BY <1>1, CursorIs
    <2> HIDE DEF v
    <2>2. QED BY <1>1, <2>1, GotoGood DEF v
  <1>3. ASSUME NEW line \in Int, NEW column \in Nat
        PROVE  Good(goto(s, line, column))
    <2> DEFINE to == Point(Larger(Smaller(line, Lines - 1), 0), Smaller(column, Last))
               e  == damage_cursor([d EXCEPT !.cursor = to])
    <2>1. Larger(Smaller(line, Lines - 1), 0) \in Rows /\ Smaller(column, Last) \in 0..Last
      BY Sizes DEF Larger, Smaller, Rows
    <2>2. to \in Cells BY <2>1, PointIs
    <2>3. goto(s, line, column) = [e EXCEPT !.wrap = FALSE] BY Zenon DEF goto
    <2> HIDE DEF to
    <2>4. Good(e) BY <1>2, <2>2
    <2> HIDE DEF e
    <2>5. QED BY <2>3, <2>4, WrapGood
  <1>4. Good(restore_cursor_position(s, p, FALSE))
    <2> DEFINE v == [d EXCEPT !.cursor = p, !.wrap = FALSE]
    <2>1. v \in Screens /\ Same(v, d) BY <1>1, MovedIs
    <2>2. restore_cursor_position(s, p, FALSE) = damage_cursor(v) BY Zenon DEF restore_cursor_position
    <2> HIDE DEF v
    <2>3. QED BY <1>1, <2>1, <2>2, GotoGood
  <1>5. QED BY <1>3, <1>4

(* The cursor moves within its line, over columns that are damaged. *)
LEMMA AlongGood ==
  ASSUME NEW s, Good(s), NEW a \in 0..Last, NEW b \in 0..Last, NEW c \in {a, b},
         s.cursor.column \in {a, b}, a <= b, NEW u \in Screens,
         Same(u, damage_line(s, s.cursor.line, a, b)), u.cursor = Point(s.cursor.line, c)
  PROVE  Good(u)
  <1> DEFINE d == damage_line(s, s.cursor.line, a, b)
  <1>1. Half(s) /\ s.cursor \in Cells BY DEF Good, Half, Screens
  <1>2. s.cursor.line \in Rows /\ a \in 0..Columns /\ b \in 0..Columns BY <1>1, CellIs, Sizes
  <1>3. /\ Half(d) /\ d.cursor = s.cursor
        /\ \A p \in Cells : p.line = s.cursor.line /\ a <= p.column /\ p.column <= b => Has(d, p)
    BY <1>1, <1>2, LineDamaged
  <1>4. u.cursor \in Cells /\ u.cursor.line = s.cursor.line /\ u.cursor.column = c
    BY <1>2, PointIs
  <1>5. Has(d, d.cursor) /\ Has(d, u.cursor) BY <1>1, <1>3, <1>4, Sizes
  <1> HIDE DEF d
  <1>6. Half(u) BY <1>3, <1>5, PlaceHalf DEF d
  <1>7. Has(u, u.cursor) BY <1>5, SameDamage DEF d
  <1>8. QED BY <1>6, <1>7, HereGood

(* Handler::move_forward, move_backward, backspace and carriage_return *)
LEMMA MoveGood ==
  ASSUME NEW s, Good(s), NEW n \in Nat
  PROVE  Good(move_forward(s, n)) /\ Good(move_backward(s, n))
  <1>1. s \in Screens /\ Half(s) /\ s.cursor \in Cells BY DEF Good, Half, Screens
  <1>2. s.cursor.line \in Rows /\ s.cursor.column \in 0..Last BY <1>1, CellIs
  <1> DEFINE here == s.cursor.column
  <1>3. ASSUME NEW a \in 0..Last, NEW b \in 0..Last, NEW c \in {a, b}, here \in {a, b}, a <= b
        PROVE  Good([damage_line(s, s.cursor.line, a, b) EXCEPT !.cursor.column = c, !.wrap = FALSE])
    <2> DEFINE d == damage_line(s, s.cursor.line, a, b)
               u == [d EXCEPT !.cursor.column = c]
               v == [d EXCEPT !.cursor.column = c, !.wrap = FALSE]
    <2>1. a \in 0..Columns /\ b \in 0..Columns BY Sizes
    <2>2. d \in Screens /\ d.cursor = s.cursor BY <1>1, <1>2, <2>1, LineDamaged DEF Half
    <2>3. u \in Screens /\ Same(u, d) /\ u.cursor = Point(s.cursor.line, c) BY <2>2, ColumnIs
    <2>4. v = [u EXCEPT !.wrap = FALSE] BY <2>2 DEF Screens
    <2> HIDE DEF u, v
    <2>5. Good(u) BY <1>3, <2>3, AlongGood
    <2>6. Good(v) BY <2>4, <2>5, WrapGood
    <2>7. QED BY <2>6 DEF v
  <1>4. Good(move_forward(s, n))
    <2> DEFINE column == Smaller(here + n, Last)
    <2>1. column \in 0..Last /\ here <= column BY <1>2, Sizes DEF Smaller
    <2>2. move_forward(s, n)
            = [damage_line(s, s.cursor.line, here, column) EXCEPT !.cursor.column = column, !.wrap = FALSE]
      BY Zenon DEF move_forward
    <2> HIDE DEF column
    <2>3. QED BY <1>2, <1>3, <2>1, <2>2
  <1>5. Good(move_backward(s, n))
    <2> DEFINE column == Larger(here - n, 0)
    <2>1. column \in 0..Last /\ column <= here BY <1>2, Sizes DEF Larger
    <2>2. move_backward(s, n)
            = [damage_line(s, s.cursor.line, column, here) EXCEPT !.cursor.column = column, !.wrap = FALSE]
      BY Zenon DEF move_backward
    <2> HIDE DEF column
    <2>3. QED BY <1>2, <1>3, <2>1, <2>2
  <1>6. QED BY <1>4, <1>5

LEMMA ReturnGood ==
  ASSUME NEW s, Good(s)
  PROVE  Good(backspace(s)) /\ Good(carriage_return(s))
  <1>1. s.cursor.column \in Nat /\ 1 \in Nat
    <2>1. s.cursor \in Cells BY DEF Good, Half, Screens
    <2>2. QED BY <2>1, CellIs, Sizes
  <1>2. Good(backspace(s)) BY <1>1, MoveGood DEF backspace
  <1>3. QED BY <1>1, <1>2, MoveGood DEF carriage_return
-------------------------------------------------------------------------------
(* Tab stops. *)

(* Sets of columns have a least and a greatest one. *)
LEMMA Least ==
  ASSUME NEW T \in SUBSET Nat, T # {}
  PROVE  \E n \in T : \A k \in T : n <= k
  <1> DEFINE R == OpToRel(<, Nat)
  <1>1. \A j, k \in Nat : <<j, k>> \in R <=> j < k BY Zenon DEF OpToRel
  <1>2. IsWellFoundedOn(R, Nat) BY NatLessThanWellFounded, Zenon
  <1> HIDE DEF R
  <1>3. PICK n \in T : \A k \in T : ~ (<<k, n>> \in R) BY <1>2, WFMin
  <1>4. ASSUME NEW k \in T PROVE n <= k
    <2>1. ~(<<k, n>> \in R) BY <1>3
    <2>2. ~(k < n) BY <1>1, <2>1, Zenon
    <2>3. QED BY <2>2
  <1>5. QED BY <1>4

LEMMA Greatest ==
  ASSUME NEW N \in Nat, NEW T \in SUBSET (0..N), T # {}
  PROVE  \E n \in T : \A k \in T : k <= n
  <1> DEFINE U == {k \in 0..N : N - k \in T}
  <1>1. U \in SUBSET Nat OBVIOUS
  <1>2. U # {}
    <2>1. PICK t \in T : TRUE OBVIOUS
    <2>2. N - t \in U OBVIOUS
    <2>3. QED BY <2>2
  <1>3. PICK u \in U : \A k \in U : u <= k BY <1>1, <1>2, Least
  <1>4. \A k \in T : N - k \in U OBVIOUS
  <1>5. \A k \in T : k <= N - u BY <1>3, <1>4
  <1>6. QED BY <1>5

(* The stop behind a column is behind it, the stop before it is before it. *)
LEMMA StopIs ==
  ASSUME NEW s \in Screens, NEW column \in 0..Last
  PROVE  /\ NextStop(s, column) \in 0..Last /\ column <= NextStop(s, column)
         /\ PreviousStop(s, column) \in 0..Last /\ PreviousStop(s, column) <= column
  <1>1. s.tabs \in SUBSET (0..Last) /\ Last \in Nat BY Sizes DEF Screens
  <1>2. NextStop(s, column) \in 0..Last /\ column <= NextStop(s, column)
    <2> DEFINE from == Smaller(column + 1, Last)
               IsStop(c) == /\ c = Last \/ c \in s.tabs
                            /\ \A k \in (column + 1)..(c - 1) : k \notin s.tabs
               T == {c \in from..Last : c = Last \/ c \in s.tabs}
    <2>1. /\ from \in 0..Last /\ from <= column + 1 /\ column <= from
          /\ \A k \in Int : k < Last /\ column + 1 <= k => k \in from..Last
      BY <1>1 DEF Smaller
    <2>2. NextStop(s, column) = CHOOSE c \in from..Last : IsStop(c) BY Zenon DEF NextStop
    <2> HIDE DEF from
    <2>3. Last \in T /\ T \in SUBSET Nat BY <1>1, <2>1
    <2>4. PICK n \in T : \A k \in T : n <= k BY <2>3, Least
    <2>5. \A k \in (column + 1)..(n - 1) : k \notin s.tabs BY <1>1, <2>1, <2>4
    <2>6. n \in from..Last /\ IsStop(n) BY <2>4, <2>5
    <2> HIDE DEF IsStop
    <2>7. NextStop(s, column) \in from..Last BY <2>2, <2>6
    <2>8. QED BY <1>1, <2>1, <2>7
  <1>3. PreviousStop(s, column) \in 0..Last /\ PreviousStop(s, column) <= column
    <2> DEFINE before == {c \in s.tabs : c < column}
    <2>1. CASE before = {} BY <2>1 DEF PreviousStop
    <2>2. CASE before # {}
      <3>1. PreviousStop(s, column) = CHOOSE c \in before : \A k \in before : k <= c
        BY <2>2 DEF PreviousStop
      <3>2. before \in SUBSET (0..Last) BY <1>1
      <3>3. \A c \in before : c <= column BY <1>1
      <3> HIDE DEF before
      <3>4. \E n \in before : \A k \in before : k <= n BY <1>1, <2>2, <3>2, Greatest
      <3>5. PreviousStop(s, column) \in before BY <3>1, <3>4
      <3>6. QED BY <3>2, <3>3, <3>5
    <2>3. QED BY <2>1, <2>2
  <1>4. QED BY <1>2, <1>3
-------------------------------------------------------------------------------
(* Printing. *)

(* Term::wrapline *)
LEMMA WrapLineGood ==
  ASSUME NEW s, Good(s)
  PROVE  LET u == wrapline(s)
         IN  /\ Good(u) /\ u.mode = s.mode
             /\ u.cells \in {s.cells, ScrolledUp(s, 0, 1)}
             /\ "LINE_WRAP" \in s.mode => u.cursor.column = 0
  <1>1. s \in Screens /\ Half(s) /\ s.cursor \in Cells BY DEF Good, Half, Screens
  <1>2. s.cursor.line \in Rows BY <1>1, CellIs
  <1>3. CASE "LINE_WRAP" \notin s.mode
    <2>1. wrapline(s) = s BY <1>3 DEF wrapline
    <2>2. QED BY <1>3, <2>1
  <1>4. CASE "LINE_WRAP" \in s.mode
    <2> DEFINE t == IF s.cursor.line + 1 >= Lines THEN linefeed(s)
                    ELSE [damage_cursor(s) EXCEPT !.cursor.line = @ + 1]
               v == [t EXCEPT !.cursor.column = 0, !.wrap = FALSE]
               u == damage_cursor(v)
    <2>1. wrapline(s) = u BY <1>4, Zenon DEF wrapline
    <2>2. /\ t \in Screens /\ t.mode = s.mode /\ t.cells \in {s.cells, ScrolledUp(s, 0, 1)}
          /\ Half(t) /\ (AllDamaged(t) \/ \E d : Half(d) /\ Has(d, d.cursor) /\ Same(t, d))
      <3>1. CASE s.cursor.line + 1 >= Lines
        <4>1. s.cursor.line + 1 = Lines BY <1>2, <3>1, Sizes DEF Rows
        <4>2. t = scroll_up_relative(s, 0, 1) BY <3>1, <4>1 DEF linefeed
        <4>3. Smaller(1, Lines) = 1 /\ 0 \in Rows /\ 1 \in Nat BY Sizes DEF Smaller, Rows
        <4> HIDE DEF t
        <4>4. Good(t) /\ AllDamaged(t) /\ t.mode = s.mode /\ t.cells = ScrolledUp(s, 0, 1)
          BY <1>1, <4>2, <4>3, ScrollGood
        <4>5. QED BY <4>4 DEF Good, Half
      <3>2. CASE ~(s.cursor.line + 1 >= Lines)
        <4> DEFINE d == damage_cursor(s)
        <4>1. Half(d) /\ Has(d, d.cursor) /\ d.cells = s.cells /\ d.mode = s.mode /\ d.cursor = s.cursor
          BY <1>1, CursorDamaged DEF Good
        <4>2. t = [d EXCEPT !.cursor.line = s.cursor.line + 1] BY <3>2, <4>1 DEF Half, Screens
        <4>3. s.cursor.line + 1 \in Rows BY <1>2, <3>2, Sizes DEF Rows
        <4> HIDE DEF t, d
        <4>4. t \in Screens /\ Same(t, d) BY <4>1, <4>2, <4>3, LineIs DEF Half
        <4>5. Half(t) BY <4>1, <4>4, PlaceHalf
        <4>6. QED BY <4>1, <4>4, <4>5 DEF Same
      <3>3. QED BY <3>1, <3>2
    <2> HIDE DEF t
    <2>3. v \in Screens /\ Same(v, t) /\ v.cursor.column = 0
      <3> DEFINE w == [t EXCEPT !.cursor.column = 0]
      <3>1. 0 \in 0..Last /\ t.cursor \in Cells BY <2>2, Sizes DEF Screens
      <3>2. w \in Screens /\ Same(w, t) /\ w.cursor = Point(t.cursor.line, 0) BY <2>2, <3>1, ColumnIs
      <3>3. v = [w EXCEPT !.wrap = FALSE] BY <2>2 DEF Screens
      <3> HIDE DEF w, v
      <3>4. v \in Screens /\ Same(v, w) /\ v.cursor = w.cursor BY <3>2, <3>3, WrapIs
      <3>5. v.cursor.column = 0 BY <3>1, <3>2, <3>4, CellIs, PointIs
      <3>6. QED BY <3>2, <3>4, <3>5 DEF Same
    <2> HIDE DEF v
    <2>4. Half(v)
      <3>1. CASE AllDamaged(t) BY <2>3, <3>1, SameDamage DEF Half
      <3>2. CASE \E d : Half(d) /\ Has(d, d.cursor) /\ Same(t, d)
        <4>1. PICK d : Half(d) /\ Has(d, d.cursor) /\ Same(t, d) BY <3>2
        <4>2. Same(v, d) BY <2>3, <4>1 DEF Same
        <4>3. QED BY <2>3, <4>1, <4>2, PlaceHalf
      <3>3. QED BY <2>2, <3>1, <3>2
    <2>5. v.cells = t.cells /\ v.mode = t.mode BY <2>3 DEF Same
    <2>6. Good(u) /\ u.cells = v.cells /\ u.mode = v.mode /\ u.cursor = v.cursor
      BY <2>4, CursorDamaged
    <2>7. QED BY <2>1, <2>2, <2>3, <2>5, <2>6
  <1>5. QED BY <1>3, <1>4

(* Term::write_at_cursor: the cell of the cursor will be drawn. *)
Written(s, cells) == Change(s, cells, {s.cursor})

LEMMA WrittenGood ==
  ASSUME NEW s, Good(s), NEW cells \in [Cells -> Kinds]
  PROVE  LET d == Written(s, cells)
         IN  /\ Good(d) /\ d.cells = cells /\ d.cursor = s.cursor /\ d.wrap = s.wrap /\ d.mode = s.mode
             /\ d.tabs = s.tabs
  <1>1. s.cursor \in Cells /\ {s.cursor} \in SUBSET Cells BY DEF Good, Half, Screens
  <1>2. s.cursor.column \in Int BY <1>1, CellIs, Sizes
  <1>3. AllDamaged(s) \/ Shown(s, s.cursor) BY <1>2 DEF Good, Shown, Behind
  <1>4. QED BY <1>1, <1>3, ChangeGood DEF Written

(* The cells once the one of the cursor is overwritten: the other half of a
   wide character is cleared, and else at most a filler. *)
Right(p) == Point(p.line, p.column + 1)
Left(p)  == Point(p.line, p.column - 1)
Overwritten(new, old, p, kind) ==
  /\ new \in [Cells -> Kinds] /\ new[p] = kind
  /\ old[p] = "wide" /\ p.column < Last /\ old[Right(p)] = "spacer" => new[Right(p)] = "plain"
  /\ old[p] = "spacer" /\ p.column > 0 /\ old[Left(p)] = "wide" => new[Left(p)] = "plain"
  /\ \A q \in Cells \ {p} :
       \/ new[q] = old[q]
       \/ /\ new[q] = "plain"
          /\ \/ old[q] = "leading"
             \/ q = Right(p) /\ old[p] = "wide"
             \/ q = Left(p) /\ (old[p] = "spacer" \/ (old[p] = "wide" /\ p.column = Last))

LEMMA WriteGood ==
  ASSUME NEW s, Good(s), NEW kind \in Kinds
  PROVE  LET d == write_at_cursor(s, kind)
         IN  /\ Good(d) /\ d.cursor = s.cursor /\ d.wrap = s.wrap /\ d.mode = s.mode
             /\ d.tabs = s.tabs /\ Overwritten(d.cells, s.cells, s.cursor, kind)
  <1> DEFINE p     == s.cursor
             half  == s.cells[p] \in {"wide", "spacer"}
             right == Point(p.line, p.column + 1)
             left  == Point(p.line, p.column - 1)
             above == Point(p.line - 1, Last)
             toRight == s.cells[p] = "wide" /\ p.column < Last
             toLeft  == half /\ ~toRight /\ p.column > 0
             filler  == half /\ p.column <= 1 /\ p.line # 0
             Cleared_ == (IF toRight THEN {right} ELSE {}) \union (IF toLeft THEN {left} ELSE {})
                         \union (IF filler THEN {above} ELSE {})
             Loses(q) == \/ q = right /\ s.cells[q] = "spacer"
                         \/ q = left /\ s.cells[q] = "wide"
                         \/ q = above /\ s.cells[q] = "leading"
             cells == [q \in Cells |-> IF q = p THEN kind
                                       ELSE IF q \in Cleared_ /\ Loses(q) THEN "plain" ELSE s.cells[q]]
  <1>1. write_at_cursor(s, kind) = Written(s, cells) BY Zenon DEF write_at_cursor, Written
  <1>2. s.cells \in [Cells -> Kinds] /\ "plain" \in Kinds BY DEF Good, Half, Screens, Kinds
  <1>3. p \in Cells /\ p.line \in Rows /\ p.column \in 0..Last
    <2>1. p \in Cells BY DEF Good, Half, Screens
    <2>2. QED BY <2>1, CellIs
  <1>4. right = Right(p) /\ left = Left(p) BY DEF Right, Left
  <1>5. /\ p.column < Last => right \in Cells /\ right # p
        /\ p.column > 0 => left \in Cells /\ left # p
        /\ right # left /\ right # above /\ left # above
    <2>1. /\ right.line = p.line /\ right.column = p.column + 1
          /\ left.line = p.line /\ left.column = p.column - 1 /\ above.line = p.line - 1
      BY DEF Point
    <2>2. p.line # p.line - 1 /\ p.column + 1 # p.column - 1 /\ p.column + 1 # p.column
          /\ p.column # p.column - 1
      BY <1>3, Sizes DEF Rows
    <2>3. right # left /\ right # above /\ left # above /\ right # p /\ left # p BY <2>1, <2>2
    <2>4. /\ p.column < Last => p.column + 1 \in 0..Last
          /\ p.column > 0 => p.column - 1 \in 0..Last
      BY <1>3, Sizes
    <2>5. QED BY <1>3, <2>3, <2>4, PointIs
  <1> HIDE DEF p, right, left, above
  <1>6. cells \in [Cells -> Kinds] BY <1>2
  <1>7. cells[p] = kind BY <1>3
  <1>8. s.cells[p] = "wide" /\ p.column < Last /\ s.cells[right] = "spacer" => cells[right] = "plain"
    BY <1>3, <1>5
  <1>9. s.cells[p] = "spacer" /\ p.column > 0 /\ s.cells[left] = "wide" => cells[left] = "plain"
    BY <1>3, <1>5
  <1>10. ASSUME NEW q \in Cells \ {p}
         PROVE  \/ cells[q] = s.cells[q]
                \/ /\ cells[q] = "plain"
                   /\ \/ s.cells[q] = "leading"
                      \/ q = right /\ s.cells[p] = "wide"
                      \/ q = left /\ (s.cells[p] = "spacer" \/ (s.cells[p] = "wide" /\ p.column = Last))
    <2>1. cells[q] = IF q \in Cleared_ /\ Loses(q) THEN "plain" ELSE s.cells[q] BY <1>3
    <2>2. CASE q \in Cleared_ /\ Loses(q)
      <3>1. s.cells[q] = "leading" \/ q = right \/ q = left BY <2>2
      <3>2. QED BY <1>3, <1>5, <2>1, <2>2, <3>1, Sizes
    <2>3. QED BY <2>1, <2>2
  <1>11. Overwritten(cells, s.cells, p, kind)
    BY <1>4, <1>6, <1>7, <1>8, <1>9, <1>10 DEF Overwritten
  <1> HIDE DEF cells
  <1>12. QED BY <1>1, <1>6, <1>11, WrittenGood DEF p

(* A line is changed where it is damaged. *)
LEMMA RowGood ==
  ASSUME NEW s, Good(s), NEW cells \in [Cells -> Kinds], NEW a \in 0..Columns, NEW b \in 0..Columns,
         NEW l \in Int, NEW r \in Int, a <= l, r <= b
  PROVE  Good(Change(damage_line(s, s.cursor.line, a, b), cells, RowCells(s, l, r)))
  <1> DEFINE d == damage_line(s, s.cursor.line, a, b)
  <1>1. Half(s) /\ s.cursor \in Cells BY DEF Good, Half, Screens
  <1>2. s.cursor.line \in Rows BY <1>1, CellIs
  <1>3. /\ Good(d)
        /\ \A p \in Cells : p.line = s.cursor.line /\ a <= p.column /\ p.column <= b => Has(d, p)
    BY <1>1, <1>2, LineDamaged
  <1> HIDE DEF d
  <1>4. RowCells(s, l, r) \in SUBSET Cells BY DEF RowCells
  <1>5. ASSUME NEW p \in RowCells(s, l, r)
        PROVE  AllDamaged(d) \/ Shown(d, p)
    <2>1. p \in Cells /\ p.line = s.cursor.line /\ p.column \in l..r BY DEF RowCells
    <2>2. a <= p.column /\ p.column <= b BY <2>1, Sizes
    <2>3. Has(d, p) BY <1>3, <2>1, <2>2
    <2>4. QED BY <2>3, HasShown
  <1>6. QED BY <1>3, <1>4, <1>5, ChangeGood DEF d

LEMMA InRowIs ==
  ASSUME NEW s \in Screens
  PROVE  /\ \A c \in 0..Last : InRow(s, c) \in Kinds
         /\ s.cursor.column \in 0..Last /\ s.cells \in [Cells -> Kinds] /\ "plain" \in Kinds
  <1>1. s.cursor \in Cells /\ s.cells \in [Cells -> Kinds] BY DEF Screens
  <1>2. s.cursor.line \in Rows /\ s.cursor.column \in 0..Last BY <1>1, CellIs
  <1>3. ASSUME NEW c \in 0..Last PROVE InRow(s, c) \in Kinds
    <2>1. Point(s.cursor.line, c) \in Cells BY <1>2, PointIs
    <2>2. QED BY <1>1, <2>1 DEF InRow
  <1>4. QED BY <1>1, <1>2, <1>3 DEF Kinds

(* Handler::insert_blank, erase_chars, delete_chars and clear_line *)
LEMMA BlankGood ==
  ASSUME NEW s, Good(s), NEW n \in Nat
  PROVE  Good(insert_blank(s, n))
  <1> DEFINE col   == s.cursor.column
             count == Smaller(n, Columns - col)
             dest  == col + count
             NewCell(c) == IF c < col THEN InRow(s, c)
                           ELSE IF c < dest THEN "plain" ELSE InRow(s, c - count)
             cells == [p \in Cells |-> IF p.line = s.cursor.line THEN NewCell(p.column) ELSE s.cells[p]]
  <1>1. insert_blank(s, n) = Change(damage_line(s, s.cursor.line, 0, Last), cells, RowCells(s, col, Last))
    BY DEF insert_blank, Row
  <1>2. s \in Screens BY DEF Good, Half
  <1>3. /\ \A c \in 0..Last : InRow(s, c) \in Kinds
        /\ col \in 0..Last /\ s.cells \in [Cells -> Kinds] /\ "plain" \in Kinds
    BY <1>2, InRowIs
  <1> HIDE DEF col
  <1>4. count \in 0..Columns BY <1>3, Sizes DEF Smaller
  <1> HIDE DEF count
  <1>5. \A c \in 0..Last : NewCell(c) \in Kinds BY <1>3, <1>4, Sizes
  <1> HIDE DEF NewCell
  <1>6. cells \in [Cells -> Kinds] BY <1>3, <1>5, CellIs
  <1> HIDE DEF cells
  <1>7. 0 \in 0..Columns /\ Last \in 0..Columns /\ 0 <= col /\ col \in Int /\ Last \in Int /\ Last <= Last
    BY <1>3, Sizes
  <1>8. QED BY <1>1, <1>6, <1>7, RowGood

LEMMA EraseGood ==
  ASSUME NEW s, Good(s), NEW n \in Nat
  PROVE  Good(erase_chars(s, n))
  <1> DEFINE col == s.cursor.column
             end == Smaller(col + n, Columns)
             NewCell(c) == IF col <= c /\ c < end THEN "plain" ELSE InRow(s, c)
             cells == [p \in Cells |-> IF p.line = s.cursor.line THEN NewCell(p.column) ELSE s.cells[p]]
  <1>1. erase_chars(s, n) = Change(damage_line(s, s.cursor.line, col, end), cells, RowCells(s, col, end - 1))
    BY DEF erase_chars, Row
  <1>2. s \in Screens BY DEF Good, Half
  <1>3. /\ \A c \in 0..Last : InRow(s, c) \in Kinds
        /\ col \in 0..Last /\ s.cells \in [Cells -> Kinds] /\ "plain" \in Kinds
    BY <1>2, InRowIs
  <1> HIDE DEF col
  <1>4. end \in 0..Columns BY <1>3, Sizes DEF Smaller
  <1> HIDE DEF end
  <1>5. \A c \in 0..Last : NewCell(c) \in Kinds BY <1>3
  <1> HIDE DEF NewCell
  <1>6. cells \in [Cells -> Kinds] BY <1>3, <1>5, CellIs
  <1> HIDE DEF cells
  <1>7. col \in 0..Columns /\ col <= col /\ col \in Int /\ end - 1 \in Int /\ end - 1 <= end
    BY <1>3, <1>4, Sizes
  <1>8. QED BY <1>1, <1>4, <1>6, <1>7, RowGood

LEMMA DeleteGood ==
  ASSUME NEW s, Good(s), NEW n \in Nat
  PROVE  Good(delete_chars(s, n))
  <1> DEFINE col   == s.cursor.column
             count == Smaller(n, Columns)
             end   == Smaller(col + count, Last)
             shift == end - col
             left  == Smaller(col, Columns - count)
             NewCell(c) == IF c >= Columns - count THEN "plain"
                           ELSE IF c >= col THEN InRow(s, c + shift) ELSE InRow(s, c)
             cells == [p \in Cells |-> IF p.line = s.cursor.line THEN NewCell(p.column) ELSE s.cells[p]]
  <1>1. delete_chars(s, n) = Change(damage_line(s, s.cursor.line, 0, Last), cells, RowCells(s, left, Last))
    BY DEF delete_chars, Row
  <1>2. s \in Screens BY DEF Good, Half
  <1>3. /\ \A c \in 0..Last : InRow(s, c) \in Kinds
        /\ col \in 0..Last /\ s.cells \in [Cells -> Kinds] /\ "plain" \in Kinds
    BY <1>2, InRowIs
  <1> HIDE DEF col
  <1>4. count \in 0..Columns BY Sizes DEF Smaller
  <1> HIDE DEF count
  <1>5. shift \in 0..count /\ 0 <= left /\ left \in Int BY <1>3, <1>4, Sizes DEF Smaller
  <1> HIDE DEF shift, left
  <1>6. \A c \in 0..Last : NewCell(c) \in Kinds BY <1>3, <1>4, <1>5, Sizes
  <1> HIDE DEF NewCell
  <1>7. cells \in [Cells -> Kinds] BY <1>3, <1>6, CellIs
  <1> HIDE DEF cells
  <1>8. 0 \in 0..Columns /\ Last \in 0..Columns /\ Last \in Int /\ Last <= Last BY Sizes
  <1>9. QED BY <1>1, <1>5, <1>7, <1>8, RowGood

LEMMA ClearLineGood ==
  ASSUME NEW s, Good(s), NEW mode
  PROVE  Good(clear_line(s, mode))
  <1> DEFINE col   == s.cursor.column
             left  == IF mode = "Right" THEN col ELSE 0
             right == IF mode = "Left" THEN col ELSE Last
             NewCell(c) == IF left <= c /\ c <= right THEN "plain" ELSE InRow(s, c)
             cells == [p \in Cells |-> IF p.line = s.cursor.line THEN NewCell(p.column) ELSE s.cells[p]]
  <1>1. CASE mode = "Right" /\ s.wrap
    <2>1. clear_line(s, mode) = s BY <1>1 DEF clear_line
    <2>2. QED BY <2>1
  <1>2. CASE ~(mode = "Right" /\ s.wrap)
    <2>1. clear_line(s, mode)
            = Change(damage_line(s, s.cursor.line, left, right), cells, RowCells(s, left, right))
      BY <1>2 DEF clear_line, Row
    <2>2. s \in Screens BY DEF Good, Half
    <2>3. /\ \A c \in 0..Last : InRow(s, c) \in Kinds
          /\ col \in 0..Last /\ s.cells \in [Cells -> Kinds] /\ "plain" \in Kinds
      BY <2>2, InRowIs
    <2> HIDE DEF col
    <2>4. /\ left \in 0..Columns /\ right \in 0..Columns /\ left \in Int /\ right \in Int
          /\ left <= left /\ right <= right
      BY <2>3, Sizes
    <2> HIDE DEF left, right
    <2>5. \A c \in 0..Last : NewCell(c) \in Kinds BY <2>3
    <2> HIDE DEF NewCell
    <2>6. cells \in [Cells -> Kinds] BY <2>3, <2>5, CellIs
    <2> HIDE DEF cells
    <2>7. QED BY <2>1, <2>4, <2>6, RowGood
  <1>3. QED BY <1>1, <1>2

(* Handler::clear_screen, decaln, reset_state and the lines inserted and
   deleted: everything is damaged. *)
LEMMA AllCellsGood ==
  ASSUME NEW s \in Screens, NEW cells \in [Cells -> Kinds]
  PROVE  Good(mark_fully_damaged([s EXCEPT !.cells = cells]))
  <1>1. [s EXCEPT !.cells = cells] \in Screens BY DEF Screens
  <1>2. QED BY <1>1, FullGood

LEMMA ClearGood ==
  ASSUME NEW s, Good(s), NEW mode
  PROVE  Good(clear_screen(s, mode)) /\ Good(decaln(s))
  <1>1. s \in Screens /\ s.cells \in [Cells -> Kinds] /\ "plain" \in Kinds
    BY DEF Good, Half, Screens, Kinds
  <1>2. Good(clear_screen(s, mode))
    <2> DEFINE c == s.cursor
               Cleared(p) ==
                 CASE mode = "Above" -> (c.line > 1 /\ p.line < c.line)
                                          \/ (p.line = c.line /\ p.column <= c.column)
                   [] mode = "Below" -> ~Before(p, c)
                   [] mode = "All"   -> TRUE
               cells == [p \in Cells |-> IF Cleared(p) THEN "plain" ELSE s.cells[p]]
    <2>1. clear_screen(s, mode) = mark_fully_damaged([s EXCEPT !.cells = cells])
      BY <1>1 DEF clear_screen, Screens
    <2> HIDE DEF Cleared
    <2>2. cells \in [Cells -> Kinds] BY <1>1
    <2> HIDE DEF cells
    <2>3. QED BY <1>1, <2>1, <2>2, AllCellsGood
  <1>3. Good(decaln(s))
    <2>1. [p \in Cells |-> "plain"] \in [Cells -> Kinds] BY <1>1
    <2>2. QED BY <1>1, <2>1, AllCellsGood DEF decaln
  <1>4. QED BY <1>2, <1>3

LEMMA NewIs == new_screen \in Screens /\ new_screen.full
  <1>1. Point(0, 0) \in Cells BY Sizes, PointIs DEF Rows
  <1>2. [p \in Cells |-> "plain"] \in [Cells -> Kinds] BY DEF Kinds
  <1>3. {0} \in SUBSET (0..Last) /\ {"LINE_WRAP"} \in SUBSET {"INSERT", "LINE_WRAP"} BY Sizes
  <1>4. {} \in SUBSET Cells OBVIOUS
  <1>5. QED BY <1>1, <1>2, <1>3, <1>4, NoDamage DEF new_screen, Screens

LEMMA NewGood == Good(new_screen)
  BY NewIs DEF Good, Half, AllDamaged

LEMMA ResetGood ==
  ASSUME NEW s, Good(s)
  PROVE  Good(reset_state(s))
  <1>1. s.last \in Cells BY DEF Good, Half, Screens
  <1>2. [new_screen EXCEPT !.last = s.last] \in Screens BY <1>1, NewIs DEF Screens
  <1>3. QED BY <1>2, FullGood DEF reset_state

LEMMA LinesGood ==
  ASSUME NEW s, Good(s), NEW n \in Nat
  PROVE  Good(insert_blank_lines(s, n)) /\ Good(delete_lines(s, n))
  <1>1. s \in Screens /\ s.cursor \in Cells BY DEF Good, Half, Screens
  <1>2. s.cursor.line \in Rows BY <1>1, CellIs
  <1>3. Smaller(Lines - s.cursor.line, n) \in Nat BY <1>2, Sizes DEF Rows, Smaller
  <1>4. QED BY <1>1, <1>2, <1>3, ScrollGood DEF insert_blank_lines, delete_lines
-------------------------------------------------------------------------------
(* The renderer. *)

(* Term::damage: once it is asked for, the damage covers every cell that will
   be drawn. *)
LEMMA DamageCovers ==
  ASSUME NEW s, Good(s)
  PROVE  LET d == damage(s)
         IN  /\ d \in Screens /\ d.cells = s.cells /\ d.cursor = s.cursor /\ d.wrap = s.wrap
             /\ d.mode = s.mode /\ d.tabs = s.tabs /\ d.last = s.cursor
             /\ AllDamaged(s) => d.full
             /\ ~AllDamaged(s) => \A p \in s.dirty : InBounds(d.damage[p.line], p.column)
  <1> DEFINE r == IF "INSERT" \in s.mode THEN mark_fully_damaged(s) ELSE s
             t == [r EXCEPT !.last = s.cursor]
             u == IF s.last # s.cursor THEN damage_point(t, s.last) ELSE t
             d == IF t.full THEN t ELSE damage_cursor(u)
  <1>1. damage(s) = d BY Zenon DEF damage
  <1>2. s \in Screens /\ s.cursor \in Cells /\ s.last \in Cells BY DEF Good, Half, Screens
  <1>3. /\ r \in Screens /\ r.cells = s.cells /\ r.cursor = s.cursor /\ r.wrap = s.wrap
        /\ r.mode = s.mode /\ r.tabs = s.tabs
        /\ (AllDamaged(s) => r.full) /\ (~AllDamaged(s) => r = s)
    <2>1. CASE "INSERT" \in s.mode BY <1>2, <2>1, FullGood DEF AllDamaged, Good, Half
    <2>2. CASE "INSERT" \notin s.mode BY <1>2, <2>2 DEF AllDamaged
    <2>3. QED BY <2>1, <2>2
  <1> HIDE DEF r
  <1>4. /\ t \in Screens /\ t.cells = s.cells /\ t.cursor = s.cursor /\ t.wrap = s.wrap
        /\ t.mode = s.mode /\ t.tabs = s.tabs /\ t.last = s.cursor /\ t.full = r.full
        /\ t.damage = r.damage
    BY <1>2, <1>3 DEF Screens
  <1> HIDE DEF t
  <1>5. CASE AllDamaged(s)
    <2>1. d = t BY <1>3, <1>4, <1>5
    <2>2. QED BY <1>1, <1>3, <1>4, <1>5, <2>1
  <1>6. CASE ~AllDamaged(s)
    <2>1. ~t.full /\ ~AllDamaged(t) /\ t.damage = s.damage BY <1>3, <1>4, <1>6 DEF AllDamaged
    <2>2. /\ s.cursor.line \in Rows /\ s.cursor.column \in 0..Columns
          /\ s.last.line \in Rows /\ s.last.column \in 0..Columns
      BY <1>2, CellIs, Sizes
    <2>3. /\ u \in Screens /\ u.cells = s.cells /\ u.cursor = s.cursor /\ u.wrap = s.wrap
          /\ u.mode = s.mode /\ u.tabs = s.tabs /\ u.last = s.cursor /\ u.full = t.full
          /\ IF s.last # s.cursor THEN Within(u, t, s.last.line, s.last.column, s.last.column) ELSE u = t
      <3>1. CASE s.last # s.cursor
        <4>1. u = damage_line(t, s.last.line, s.last.column, s.last.column)
          BY <3>1 DEF damage_point
        <4> HIDE DEF u, d
        <4>2. t \in Screens BY <1>4
        <4>3. u \in Screens /\ Kept(u, t) /\ (AllDamaged(t) \/ Within(u, t, s.last.line, s.last.column, s.last.column))
          BY <2>2, <4>1, <4>2, DamageIs
        <4>4. QED BY <1>4, <2>1, <3>1, <4>3 DEF Kept
      <3>2. CASE s.last = s.cursor BY <1>4, <3>2
      <3>3. QED BY <3>1, <3>2
    <2> HIDE DEF u
    <2>4. ~AllDamaged(u) BY <1>4, <2>1, <2>3 DEF AllDamaged
    <2>5. d = damage_line(u, s.cursor.line, s.cursor.column, s.cursor.column)
      BY <2>1, <2>3 DEF damage_cursor, damage_point
    <2> HIDE DEF d
    <2>6. /\ d \in Screens /\ Kept(d, u)
          /\ Within(d, u, s.cursor.line, s.cursor.column, s.cursor.column)
      BY <2>2, <2>3, <2>4, <2>5, DamageIs
    <2>7. ASSUME NEW p \in s.dirty
          PROVE  InBounds(d.damage[p.line], p.column)
      <3>1. p \in Cells /\ Shown(s, p) BY <1>2, <1>6 DEF Good, Half, Screens
      <3>2. p.line \in Rows /\ p.column \in Int BY <3>1, CellIs, Sizes
      <3>3. /\ d.damage[p.line] \in Bounds /\ u.damage[p.line] \in Bounds
            /\ d.damage[p.line].left <= u.damage[p.line].left
            /\ u.damage[p.line].right <= d.damage[p.line].right
            /\ p.line = s.cursor.line => /\ d.damage[p.line].left <= s.cursor.column
                                         /\ s.cursor.column <= d.damage[p.line].right
        BY <2>6, <3>2 DEF Within
      <3>4. /\ s.damage[p.line] \in Bounds
            /\ u.damage[p.line].left <= s.damage[p.line].left
            /\ s.damage[p.line].right <= u.damage[p.line].right
        <4>1. s.damage[p.line] \in Bounds BY <1>2, <3>2 DEF Screens
        <4>2. CASE s.last # s.cursor BY <2>1, <2>3, <3>2, <4>1, <4>2 DEF Within
        <4>3. CASE s.last = s.cursor BY <2>1, <2>3, <4>1, <4>3, Sizes DEF Bounds
        <4>4. QED BY <4>2, <4>3
      <3>5. p.line = s.last.line => /\ d.damage[p.line].left <= s.last.column
                                    /\ s.last.column <= d.damage[p.line].right
        <4>1. CASE s.last = s.cursor BY <3>3, <4>1
        <4>2. CASE s.last # s.cursor
          <5>1. p.line = s.last.line => /\ u.damage[p.line].left <= s.last.column
                                        /\ s.last.column <= u.damage[p.line].right
            BY <2>3, <3>2, <4>2 DEF Within
          <5>2. QED BY <2>2, <3>3, <5>1, Sizes DEF Bounds
        <4>3. QED BY <4>1, <4>2
      <3>6. d.damage[p.line].left <= p.column
        BY <2>2, <3>1, <3>2, <3>3, <3>4, <3>5, Sizes DEF Shown, ReachesLeft, Bounds
      <3>7. p.column <= d.damage[p.line].right
        BY <2>2, <3>1, <3>2, <3>3, <3>4, <3>5, Sizes DEF Shown, ReachesRight, Behind, Bounds
      <3>8. QED BY <3>6, <3>7 DEF InBounds
    <2>8. QED BY <1>1, <1>6, <2>3, <2>6, <2>7 DEF Kept
  <1>7. QED BY <1>5, <1>6

(* Term::reset_damage, after damage: the cursor is where it was drawn. *)
LEMMA DrawGood ==
  ASSUME NEW s, Good(s)
  PROVE  Good(reset_damage(damage(s)))
  <1> DEFINE d == damage(s)
             r == reset_damage(d)
  <1>1. d \in Screens /\ d.cursor = s.cursor /\ d.last = s.cursor BY DamageCovers
  <1> HIDE DEF d
  <1>2. r \in Screens /\ r.cursor = r.last /\ r.dirty = {}
    BY <1>1, NoDamage DEF reset_damage, Screens
  <1> HIDE DEF r
  <1>3. ReachesLeft(r, r.cursor)
    <2>1. r.cursor \in Cells BY <1>2 DEF Screens
    <2>2. r.cursor.column \in Int BY <2>1, CellIs, Sizes
    <2>3. QED BY <1>2, <2>2 DEF ReachesLeft
  <1>4. Good(r) BY <1>2, <1>3 DEF Good, Half
  <1>5. QED BY <1>4 DEF d, r
-------------------------------------------------------------------------------
(* Tabs and modes. *)

LEMMA TabGood ==
  ASSUME NEW s, Good(s)
  PROVE  Good(put_tab(s)) /\ Good(move_forward_tabs(s)) /\ Good(move_backward_tabs(s))
  <1>1. s \in Screens /\ Half(s) /\ s.cursor \in Cells /\ s.cells \in [Cells -> Kinds]
    BY DEF Good, Half, Screens
  <1>2. s.cursor.line \in Rows /\ s.cursor.column \in 0..Last BY <1>1, CellIs
  <1> DEFINE here == s.cursor.column
             next == NextStop(s, here)
             previous == PreviousStop(s, here)
  <1>3. next \in 0..Last /\ here <= next /\ previous \in 0..Last /\ previous <= here
    BY <1>1, <1>2, StopIs
  <1>4. ASSUME NEW a \in 0..Last, NEW b \in 0..Last, NEW c \in {a, b}, here \in {a, b}, a <= b
        PROVE  Good([damage_line(s, s.cursor.line, a, b) EXCEPT !.cursor.column = c])
    <2> DEFINE d == damage_line(s, s.cursor.line, a, b)
               u == [d EXCEPT !.cursor.column = c]
    <2>1. a \in 0..Columns /\ b \in 0..Columns BY Sizes
    <2>2. d \in Screens /\ d.cursor = s.cursor BY <1>1, <1>2, <2>1, DamageIs DEF Kept
    <2>3. u \in Screens /\ Same(u, d) /\ u.cursor = Point(s.cursor.line, c) BY <2>2, ColumnIs
    <2> HIDE DEF u
    <2>4. Good(u) BY <1>4, <2>3, AlongGood
    <2>5. QED BY <2>4 DEF u
  <1>5. Good(move_forward_tabs(s))
    <2>1. move_forward_tabs(s) = [damage_line(s, s.cursor.line, here, next) EXCEPT !.cursor.column = next]
      BY Zenon DEF move_forward_tabs
    <2> HIDE DEF next
    <2>2. QED BY <1>2, <1>3, <1>4, <2>1
  <1>6. Good(move_backward_tabs(s))
    <2>1. move_backward_tabs(s)
            = [damage_line(s, s.cursor.line, previous, here) EXCEPT !.cursor.column = previous]
      BY Zenon DEF move_backward_tabs
    <2> HIDE DEF previous
    <2>2. QED BY <1>2, <1>3, <1>4, <2>1
  <1>7. Good(put_tab(s))
    <2>1. CASE s.wrap
      <3>1. put_tab(s) = wrapline(s) BY <2>1 DEF put_tab
      <3>2. QED BY <3>1, WrapLineGood
    <2>2. CASE ~s.wrap
      <3> DEFINE d == Written(s, s.cells)
                 u == [d EXCEPT !.cursor.column = next]
      <3>1. Good(d) /\ d \in Screens /\ d.cursor = s.cursor BY <1>1, WrittenGood DEF Good, Half
      <3>2. put_tab(s) = [d EXCEPT !.cursor.column = NextStop(s, @)] BY <2>2 DEF put_tab, Written
      <3>3. put_tab(s) = u BY <3>1, <3>2 DEF Screens
      <3> HIDE DEF next, d
      <3>4. u \in Screens /\ Same(u, d) /\ u.cursor = Point(s.cursor.line, next)
        BY <1>3, <3>1, ColumnIs
      <3> HIDE DEF u
      <3>5. u.cursor.line = s.cursor.line /\ u.cursor.column = next BY <1>2, <1>3, <3>4, PointIs
      <3>6. Good(u) BY <1>3, <3>1, <3>4, <3>5, RightGood
      <3>7. QED BY <3>3, <3>6
    <2>3. QED BY <2>1, <2>2
  <1>8. QED BY <1>5, <1>6, <1>7

(* Tab stops and LINE_WRAP change alone. *)
LEMMA OptionsGood ==
  ASSUME NEW s, Good(s), NEW u \in Screens, u.cursor = s.cursor, u.full = s.full,
         u.damage = s.damage, u.last = s.last, u.dirty = s.dirty,
         "INSERT" \in u.mode <=> "INSERT" \in s.mode
  PROVE  Good(u)
  <1>1. AllDamaged(u) <=> AllDamaged(s) BY DEF AllDamaged
  <1>2. s.cursor \in Cells /\ Half(s) BY DEF Good, Half, Screens
  <1>3. s.cursor.column \in Int BY <1>2, CellIs, Sizes
  <1>4. QED BY <1>1, <1>2, <1>3, Carried

LEMMA StopsGood ==
  ASSUME NEW s, Good(s)
  PROVE  /\ Good(set_horizontal_tabstop(s)) /\ Good(clear_tab(s)) /\ Good(clear_all_tabs(s))
         /\ Good(toggle_line_wrap(s))
  <1>1. s \in Screens /\ s.cursor \in Cells BY DEF Good, Half, Screens
  <1>2. s.cursor.column \in 0..Last BY <1>1, CellIs
  <1>3. ASSUME NEW tabs \in SUBSET (0..Last)
        PROVE  Good([s EXCEPT !.tabs = tabs])
    <2> DEFINE u == [s EXCEPT !.tabs = tabs]
    <2>1. /\ u \in Screens /\ u.cursor = s.cursor /\ u.full = s.full /\ u.damage = s.damage
          /\ u.last = s.last /\ u.dirty = s.dirty /\ u.mode = s.mode
      BY <1>1 DEF Screens
    <2> HIDE DEF u
    <2>2. Good(u) BY <2>1, OptionsGood
    <2>3. QED BY <2>2 DEF u
  <1>4. /\ set_horizontal_tabstop(s) = [s EXCEPT !.tabs = s.tabs \union {s.cursor.column}]
        /\ clear_tab(s) = [s EXCEPT !.tabs = s.tabs \ {s.cursor.column}]
        /\ clear_all_tabs(s) = [s EXCEPT !.tabs = {}]
    BY <1>1 DEF set_horizontal_tabstop, clear_tab, clear_all_tabs, Screens
  <1>5. /\ s.tabs \union {s.cursor.column} \in SUBSET (0..Last)
        /\ s.tabs \ {s.cursor.column} \in SUBSET (0..Last) /\ {} \in SUBSET (0..Last)
    BY <1>1, <1>2 DEF Screens
  <1>6. Good(toggle_line_wrap(s))
    <2> DEFINE mode == IF "LINE_WRAP" \in s.mode THEN s.mode \ {"LINE_WRAP"}
                       ELSE s.mode \union {"LINE_WRAP"}
               u == [s EXCEPT !.mode = mode]
    <2>1. toggle_line_wrap(s) = u BY <1>1 DEF toggle_line_wrap, Screens
    <2>2. /\ mode \in SUBSET {"INSERT", "LINE_WRAP"}
          /\ "INSERT" \in mode <=> "INSERT" \in s.mode
      BY <1>1 DEF Screens
    <2> HIDE DEF mode
    <2>3. /\ u \in Screens /\ u.cursor = s.cursor /\ u.full = s.full /\ u.damage = s.damage
          /\ u.last = s.last /\ u.dirty = s.dirty /\ u.mode = mode
      BY <1>1, <2>2 DEF Screens
    <2> HIDE DEF u
    <2>4. QED BY <2>1, <2>2, <2>3, OptionsGood
  <1>7. QED BY <1>3, <1>4, <1>5, <1>6

LEMMA InsertModeGood ==
  ASSUME NEW s, Good(s)
  PROVE  Good(enter_insert_mode(s)) /\ Good(leave_insert_mode(s))
  <1>1. s \in Screens BY DEF Good, Half
  <1>2. /\ s.mode \union {"INSERT"} \in SUBSET {"INSERT", "LINE_WRAP"}
        /\ s.mode \ {"INSERT"} \in SUBSET {"INSERT", "LINE_WRAP"}
    BY <1>1 DEF Screens
  <1>3. Good(enter_insert_mode(s))
    <2> DEFINE u == enter_insert_mode(s)
    <2>1. u \in Screens /\ u.mode = s.mode \union {"INSERT"}
      BY <1>1, <1>2, NoDamage DEF enter_insert_mode, Screens
    <2> HIDE DEF u
    <2>2. AllDamaged(u) BY <2>1 DEF AllDamaged
    <2>3. Good(u) BY <2>1, <2>2 DEF Good, Half
    <2>4. QED BY <2>3 DEF u
  <1>4. Good(leave_insert_mode(s))
    <2> DEFINE u == [s EXCEPT !.mode = @ \ {"INSERT"}]
    <2>1. u \in Screens BY <1>1, <1>2 DEF Screens
    <2>2. leave_insert_mode(s) = mark_fully_damaged(u) BY Zenon DEF leave_insert_mode
    <2> HIDE DEF u
    <2>3. QED BY <2>1, <2>2, FullGood
  <1>5. QED BY <1>3, <1>4
-------------------------------------------------------------------------------
(* Handler::input *)

LEMMA ShiftGood ==
  ASSUME NEW s, Good(s), NEW width \in {1, 2}
  PROVE  LET t == ShiftForInsert(s, width)
         IN  /\ Good(t) /\ t.cursor = s.cursor /\ t.mode = s.mode
             /\ "INSERT" \notin s.mode => t = s
  <1> DEFINE col == s.cursor.column
             Tail(c) == CHOOSE t \in (Columns - width)..Last : (t - c) % width = 0
             NewCell(c) == IF c < col THEN InRow(s, c)
                           ELSE IF c >= col + width THEN InRow(s, c - width) ELSE InRow(s, Tail(c))
             cells == [p \in Cells |-> IF p.line = s.cursor.line THEN NewCell(p.column) ELSE s.cells[p]]
  <1>1. CASE ~("INSERT" \in s.mode /\ col + width < Columns)
    <2>1. ShiftForInsert(s, width) = s BY <1>1 DEF ShiftForInsert
    <2>2. QED BY <2>1
  <1>2. CASE "INSERT" \in s.mode /\ col + width < Columns
    <2>1. ShiftForInsert(s, width) = Change(s, cells, RowCells(s, col, Last))
      BY <1>2 DEF ShiftForInsert, Row
    <2>2. s \in Screens BY DEF Good, Half
    <2>3. /\ \A c \in 0..Last : InRow(s, c) \in Kinds
          /\ col \in 0..Last /\ s.cells \in [Cells -> Kinds] /\ "plain" \in Kinds
      BY <2>2, InRowIs
    <2> HIDE DEF col
    <2>4. ASSUME NEW c \in 0..Last
          PROVE  Tail(c) \in 0..Last
      <3>1. \E t \in (Columns - width)..Last : (t - c) % width = 0
        <4>1. CASE width = 1
          <5>1. Last \in (Columns - width)..Last /\ (Last - c) % width = 0 BY <4>1, Sizes
          <5>2. QED BY <5>1
        <4>2. CASE width = 2
          <5>1. Last \in (Columns - width)..Last /\ Last - 1 \in (Columns - width)..Last BY <4>2, Sizes
          <5>2. (Last - c) % 2 = 0 \/ (Last - 1 - c) % 2 = 0 BY Sizes
          <5>3. QED BY <4>2, <5>1, <5>2
        <4>3. QED BY <4>1, <4>2
      <3>2. Tail(c) \in (Columns - width)..Last BY <3>1
      <3> HIDE DEF Tail
      <3>3. QED BY <3>2, Sizes
    <2> HIDE DEF Tail
    <2>5. \A c \in 0..Last : NewCell(c) \in Kinds BY <2>3, <2>4, Sizes
    <2> HIDE DEF NewCell
    <2>6. cells \in [Cells -> Kinds] BY <2>3, <2>5, CellIs
    <2> HIDE DEF cells
    <2>7. RowCells(s, col, Last) \in SUBSET Cells /\ AllDamaged(s) BY <1>2 DEF RowCells, AllDamaged
    <2>8. QED BY <1>2, <2>1, <2>6, <2>7, ChangeGood
  <1>3. QED BY <1>1, <1>2

LEMMA AdvanceGood ==
  ASSUME NEW s, Good(s)
  PROVE  Good(Advance(s)) /\ Advance(s).cells = s.cells
  <1>1. s \in Screens /\ s.cursor \in Cells BY DEF Good, Half, Screens
  <1>2. s.cursor.line \in Rows /\ s.cursor.column \in 0..Last BY <1>1, CellIs
  <1>3. CASE s.cursor.column + 1 < Columns
    <2> DEFINE c == s.cursor.column + 1
               u == [s EXCEPT !.cursor.column = c]
    <2>1. Advance(s) = u BY <1>1, <1>3 DEF Advance, Screens
    <2>2. c \in 0..Last /\ s.cursor.column <= c BY <1>2, <1>3, Sizes
    <2> HIDE DEF c
    <2>3. u \in Screens /\ Same(u, s) /\ u.cursor = Point(s.cursor.line, c) BY <1>1, <2>2, ColumnIs
    <2> HIDE DEF u
    <2>4. u.cursor.line = s.cursor.line /\ u.cursor.column = c BY <1>2, <2>2, <2>3, PointIs
    <2>5. Good(u) BY <2>2, <2>3, <2>4, RightGood
    <2>6. QED BY <2>1, <2>3, <2>5 DEF Same
  <1>4. CASE ~(s.cursor.column + 1 < Columns)
    <2>1. Advance(s) = [s EXCEPT !.wrap = TRUE] BY <1>4 DEF Advance
    <2>2. QED BY <2>1, WrapGood DEF Same
  <1>5. QED BY <1>3, <1>4

(* A wide character is written: its cell and the one to its right. *)
LEMMA WideGood ==
  ASSUME NEW s, Good(s), s.cursor.column < Last
  PROVE  /\ Good(WriteWide(s))
         /\ \E mid : /\ Overwritten(mid, s.cells, s.cursor, "wide")
                     /\ Overwritten(WriteWide(s).cells, mid, Right(s.cursor), "spacer")
  <1> DEFINE a == write_at_cursor(s, "wide")
             c == s.cursor.column + 1
             b == [a EXCEPT !.cursor.column = c]
             w == write_at_cursor(b, "spacer")
  <1>1. s.cursor \in Cells /\ "wide" \in Kinds /\ "spacer" \in Kinds
    BY DEF Good, Half, Screens, Kinds
  <1>2. s.cursor.line \in Rows /\ s.cursor.column \in 0..Last BY <1>1, CellIs
  <1>3. c \in 0..Last /\ s.cursor.column <= c BY <1>2, Sizes
  <1>4. Good(a) /\ a.cursor = s.cursor /\ Overwritten(a.cells, s.cells, s.cursor, "wide")
    BY <1>1, WriteGood
  <1>5. a \in Screens BY <1>4 DEF Good, Half
  <1>6. WriteWide(s) = w BY <1>4, <1>5 DEF WriteWide, Screens
  <1>7. Right(s.cursor) = Point(s.cursor.line, c) BY DEF Right
  <1> HIDE DEF a, c
  <1>8. b \in Screens /\ Same(b, a) /\ b.cursor = Point(s.cursor.line, c)
    BY <1>3, <1>4, <1>5, ColumnIs
  <1> HIDE DEF b
  <1>9. b.cursor.line = a.cursor.line /\ b.cursor.column = c BY <1>2, <1>3, <1>4, <1>8, PointIs
  <1>10. Good(b) BY <1>3, <1>4, <1>8, <1>9, RightGood
  <1>11. Good(w) /\ Overwritten(w.cells, b.cells, b.cursor, "spacer") BY <1>1, <1>10, WriteGood
  <1> HIDE DEF w
  <1>12. b.cells = a.cells BY <1>8 DEF Same
  <1>13. QED BY <1>4, <1>6, <1>7, <1>8, <1>11, <1>12
-------------------------------------------------------------------------------
(* Wide characters. *)

LEMMA Beside ==
  ASSUME NEW q \in Cells
  PROVE  /\ q.column < Last => /\ Right(q) \in Cells /\ Left(Right(q)) = q
                               /\ Right(q).column > 0 /\ Right(q) # q
         /\ q.column > 0 => /\ Left(q) \in Cells /\ Right(Left(q)) = q
                            /\ Left(q).column < Last /\ Left(q) # q
  <1>1. q.line \in Rows /\ q.column \in 0..Last /\ q = Point(q.line, q.column) BY CellIs
  <1>2. ASSUME q.column < Last
        PROVE  Right(q) \in Cells /\ Left(Right(q)) = q /\ Right(q).column > 0 /\ Right(q) # q
    <2>1. q.column + 1 \in 0..Last BY <1>1, <1>2, Sizes
    <2>2. Right(q) \in Cells /\ Right(q).line = q.line /\ Right(q).column = q.column + 1
      BY <1>1, <2>1, PointIs DEF Right
    <2>3. q.column + 1 - 1 = q.column /\ q.column + 1 > 0 /\ q.column + 1 # q.column BY <1>1, Sizes
    <2>4. QED BY <1>1, <2>2, <2>3 DEF Left
  <1>3. ASSUME q.column > 0
        PROVE  Left(q) \in Cells /\ Right(Left(q)) = q /\ Left(q).column < Last /\ Left(q) # q
    <2>1. q.column - 1 \in 0..Last BY <1>1, <1>3, Sizes
    <2>2. Left(q) \in Cells /\ Left(q).line = q.line /\ Left(q).column = q.column - 1
      BY <1>1, <2>1, PointIs DEF Left
    <2>3. q.column - 1 + 1 = q.column /\ q.column - 1 < Last /\ q.column - 1 # q.column BY <1>1, Sizes
    <2>4. QED BY <1>1, <2>2, <2>3 DEF Right
  <1>4. QED BY <1>2, <1>3

(* Each half has the other, but the one that is being written at p. *)
Almost(cells, p) ==
  \A q \in Cells :
    /\ cells[q] = "wide" /\ q # p => q.column < Last /\ cells[Right(q)] = "spacer"
    /\ cells[q] = "spacer" => q.column > 0 /\ cells[Left(q)] = "wide"

LEMMA PairedIs ==
  ASSUME NEW cells
  PROVE  Paired(cells) <=>
           \A q \in Cells :
             /\ cells[q] = "wide" => q.column < Last /\ cells[Right(q)] = "spacer"
             /\ cells[q] = "spacer" => q.column > 0 /\ cells[Left(q)] = "wide"
  BY DEF Paired, Right, Left

(* What is written is no half of a wide character, or its left half. *)
LEMMA LeftPairs ==
  ASSUME NEW old, Paired(old), NEW p \in Cells, NEW kind \in {"plain", "leading", "wide"}, NEW new,
         Overwritten(new, old, p, kind)
  PROVE  /\ Almost(new, p) /\ (kind # "wide" => Paired(new))
         /\ p.column < Last => new[Right(p)] # "spacer"
  <1>1. \A q \in Cells :
          /\ old[q] = "wide" => q.column < Last /\ old[Right(q)] = "spacer"
          /\ old[q] = "spacer" => q.column > 0 /\ old[Left(q)] = "wide"
    BY PairedIs
  <1>2. /\ new[p] = kind
        /\ old[p] = "wide" /\ p.column < Last /\ old[Right(p)] = "spacer" => new[Right(p)] = "plain"
        /\ old[p] = "spacer" /\ p.column > 0 /\ old[Left(p)] = "wide" => new[Left(p)] = "plain"
    BY DEF Overwritten
  <1>3. \A q \in Cells \ {p} :
          \/ new[q] = old[q]
          \/ /\ new[q] = "plain"
             /\ \/ old[q] = "leading"
                \/ q = Right(p) /\ old[p] = "wide"
                \/ q = Left(p) /\ (old[p] = "spacer" \/ (old[p] = "wide" /\ p.column = Last))
    BY DEF Overwritten
  <1>4. ~(old[p] = "wide" /\ p.column = Last) BY <1>1, Sizes
  <1>5. ASSUME NEW q \in Cells, new[q] = "wide", q # p
        PROVE  q.column < Last /\ new[Right(q)] = "spacer"
    <2>1. old[q] = "wide" BY <1>3, <1>5
    <2>2. q.column < Last /\ old[Right(q)] = "spacer" BY <1>1, <2>1
    <2>3. Right(q) \in Cells /\ Left(Right(q)) = q /\ Right(q).column > 0 BY <2>2, Beside
    <2>4. Right(q) # p BY <1>2, <1>5, <2>1, <2>2, <2>3
    <2>5. ~(Right(q) = Right(p) /\ old[p] = "wide") BY <1>1, <1>5, <2>3, Beside
    <2>6. ~(Right(q) = Left(p) /\ old[p] = "spacer") BY <1>1, <2>2
    <2>7. QED BY <1>3, <1>4, <2>2, <2>3, <2>4, <2>5, <2>6
  <1>6. ASSUME NEW q \in Cells, new[q] = "spacer"
        PROVE  q.column > 0 /\ new[Left(q)] = "wide"
    <2>1. q # p /\ old[q] = "spacer" BY <1>2, <1>3, <1>6
    <2>2. q.column > 0 /\ old[Left(q)] = "wide" BY <1>1, <2>1
    <2>3. Left(q) \in Cells /\ Right(Left(q)) = q /\ Left(q).column < Last BY <2>2, Beside
    <2>4. Left(q) # p BY <1>2, <1>6, <2>1, <2>2, <2>3
    <2>5. ~(Left(q) = Right(p) /\ old[p] = "wide") BY <1>1, <2>2
    <2>6. ~(Left(q) = Left(p) /\ old[p] = "spacer") BY <1>1, <2>1, <2>3, Beside
    <2>7. QED BY <1>3, <1>4, <2>2, <2>3, <2>4, <2>5, <2>6
  <1>7. Almost(new, p) BY <1>5, <1>6 DEF Almost
  <1>8. kind # "wide" => Paired(new) BY <1>2, <1>5, <1>6, PairedIs
  <1>9. ASSUME p.column < Last, new[Right(p)] = "spacer"
        PROVE  FALSE
    <2>1. Right(p) \in Cells /\ Left(Right(p)) = p /\ Right(p) # p BY <1>9, Beside
    <2>2. old[Right(p)] = "spacer" BY <1>3, <1>9, <2>1
    <2>3. old[p] = "wide" BY <1>1, <2>1, <2>2
    <2>4. QED BY <1>2, <1>9, <2>2, <2>3
  <1>10. QED BY <1>7, <1>8, <1>9

(* Its right half follows. *)
LEMMA RightPairs ==
  ASSUME NEW p \in Cells, p.column < Last, NEW mid, Almost(mid, p), mid[p] = "wide",
         mid[Right(p)] # "spacer", NEW new, Overwritten(new, mid, Right(p), "spacer")
  PROVE  Paired(new)
  <1> DEFINE r == Right(p)
  <1>1. r \in Cells /\ Left(r) = p /\ r.column > 0 /\ r # p BY Beside
  <1> HIDE DEF r
  <1>2. \A q \in Cells :
          /\ mid[q] = "wide" /\ q # p => q.column < Last /\ mid[Right(q)] = "spacer"
          /\ mid[q] = "spacer" => q.column > 0 /\ mid[Left(q)] = "wide"
    BY DEF Almost
  <1>3. /\ new[r] = "spacer" /\ mid[r] # "spacer"
        /\ mid[r] = "wide" /\ r.column < Last /\ mid[Right(r)] = "spacer" => new[Right(r)] = "plain"
    BY DEF Overwritten, r
  <1>4. \A q \in Cells \ {r} :
          \/ new[q] = mid[q]
          \/ /\ new[q] = "plain"
             /\ \/ mid[q] = "leading"
                \/ q = Right(r) /\ mid[r] = "wide"
                \/ q = Left(r) /\ (mid[r] = "spacer" \/ (mid[r] = "wide" /\ r.column = Last))
    BY DEF Overwritten, r
  <1>5. /\ mid[r] = "wide" => /\ r.column < Last /\ mid[Right(r)] = "spacer" /\ Right(r) \in Cells
                              /\ Left(Right(r)) = r
        /\ ~(mid[r] = "wide" /\ r.column = Last)
    BY <1>1, <1>2, Beside, Sizes
  <1>6. ASSUME NEW q \in Cells, new[q] = "wide"
        PROVE  q.column < Last /\ new[Right(q)] = "spacer"
    <2>1. q # r /\ mid[q] = "wide" BY <1>3, <1>4, <1>6
    <2>2. CASE q = p BY <1>3, <2>2 DEF r
    <2>3. CASE q # p
      <3>1. q.column < Last /\ mid[Right(q)] = "spacer" BY <1>2, <2>1, <2>3
      <3>2. Right(q) \in Cells /\ Left(Right(q)) = q BY <3>1, Beside
      <3>3. Right(q) # r BY <1>1, <2>3, <3>2
      <3>4. ~(Right(q) = Right(r) /\ mid[r] = "wide") BY <1>5, <2>1, <3>2
      <3>5. QED BY <1>3, <1>4, <1>5, <3>1, <3>2, <3>3, <3>4
    <2>4. QED BY <2>2, <2>3
  <1>7. ASSUME NEW q \in Cells, new[q] = "spacer"
        PROVE  q.column > 0 /\ new[Left(q)] = "wide"
    <2>1. CASE q = r
      <3>1. ~(p = Right(r) /\ mid[r] = "wide") BY <1>5
      <3>2. new[p] = "wide" BY <1>1, <1>3, <1>4, <1>5, <3>1
      <3>3. QED BY <1>1, <2>1, <3>2
    <2>2. CASE q # r
      <3>1. mid[q] = "spacer" BY <1>4, <1>7, <2>2
      <3>2. q.column > 0 /\ mid[Left(q)] = "wide" BY <1>2, <3>1
      <3>3. Left(q) \in Cells /\ Right(Left(q)) = q /\ Left(q).column < Last BY <3>2, Beside
      <3>4. Left(q) # r BY <1>3, <1>7, <3>1, <3>2, <3>3
      <3>5. ~(Left(q) = Right(r) /\ mid[r] = "wide") BY <1>5, <3>2
      <3>6. QED BY <1>3, <1>4, <1>5, <3>2, <3>3, <3>4, <3>5
    <2>3. QED BY <2>1, <2>2
  <1>8. QED BY <1>6, <1>7, PairedIs

(* Lines that scroll keep their pairs. *)
LEMMA ScrollPairs ==
  ASSUME NEW s \in Screens, Paired(s.cells)
  PROVE  Paired(ScrolledUp(s, 0, 1))
  <1> DEFINE new == ScrolledUp(s, 0, 1)
             Under(q) == Point(q.line + 1, q.column)
  <1>1. ASSUME NEW q \in Cells
        PROVE  /\ new[q] = IF q.line + 1 < Lines THEN s.cells[Under(q)] ELSE "plain"
               /\ q.line + 1 < Lines => /\ Under(q) \in Cells /\ Under(q).column = q.column
                                        /\ Right(Under(q)) = Under(Right(q))
                                        /\ Left(Under(q)) = Under(Left(q))
               /\ Right(q).line = q.line /\ Left(q).line = q.line
    <2>1. q.line \in Rows /\ q.column \in 0..Last BY CellIs
    <2>2. ~(q.line < 0) /\ (q.line + 1 < Lines => q.line + 1 \in Rows) BY <2>1, Sizes DEF Rows
    <2>3. new[q] = IF q.line + 1 < Lines THEN s.cells[Under(q)] ELSE "plain"
      BY <2>2 DEF ScrolledUp
    <2>4. QED BY <2>1, <2>2, <2>3, PointIs DEF Right, Left, Point
  <1>2. \A q \in Cells :
          /\ s.cells[q] = "wide" => q.column < Last /\ s.cells[Right(q)] = "spacer"
          /\ s.cells[q] = "spacer" => q.column > 0 /\ s.cells[Left(q)] = "wide"
    BY PairedIs
  <1> HIDE DEF new, Under
  <1>3. ASSUME NEW q \in Cells, new[q] = "wide"
        PROVE  q.column < Last /\ new[Right(q)] = "spacer"
    <2>1. q.line + 1 < Lines /\ s.cells[Under(q)] = "wide" BY <1>1, <1>3
    <2>2. q.column < Last /\ s.cells[Right(Under(q))] = "spacer" BY <1>1, <1>2, <2>1
    <2>3. Right(q) \in Cells BY <2>2, Beside
    <2>4. QED BY <1>1, <2>1, <2>2, <2>3
  <1>4. ASSUME NEW q \in Cells, new[q] = "spacer"
        PROVE  q.column > 0 /\ new[Left(q)] = "wide"
    <2>1. q.line + 1 < Lines /\ s.cells[Under(q)] = "spacer" BY <1>1, <1>4
    <2>2. q.column > 0 /\ s.cells[Left(Under(q))] = "wide" BY <1>1, <1>2, <2>1
    <2>3. Left(q) \in Cells BY <2>2, Beside
    <2>4. QED BY <1>1, <2>1, <2>2, <2>3
  <1>5. QED BY <1>3, <1>4, PairedIs DEF new

(* Handler::input keeps what Good says and, outside insert mode, the pairs. *)
LEMMA InputGood ==
  ASSUME NEW s, Good(s), NEW width \in {1, 2}
  PROVE  LET u == input(s, width)
         IN  Good(u) /\ ("INSERT" \notin s.mode /\ Paired(s.cells) => Paired(u.cells))
  <1> DEFINE w == IF s.wrap THEN wrapline(s) ELSE s
             t == ShiftForInsert(w, width)
             fits == t.cursor.column + 1 < Columns
             Keeps == "INSERT" \notin s.mode /\ Paired(s.cells)
  <1>1. s \in Screens BY DEF Good, Half
  <1>2. ASSUME NEW x, Good(x), Paired(x.cells)
        PROVE  Paired(wrapline(x).cells)
    <2>1. x \in Screens /\ wrapline(x).cells \in {x.cells, ScrolledUp(x, 0, 1)}
      BY <1>2, WrapLineGood DEF Good, Half
    <2>2. QED BY <1>2, <2>1, ScrollPairs
  <1>3. Good(w) /\ w.mode = s.mode /\ (Keeps => Paired(w.cells))
    <2>1. CASE s.wrap BY <1>2, <2>1, WrapLineGood
    <2>2. CASE ~s.wrap BY <2>2
    <2>3. QED BY <2>1, <2>2
  <1> HIDE DEF w
  <1>4. Good(t) /\ t.mode = s.mode /\ (Keeps => Paired(t.cells))
    <2>1. Good(t) /\ t.mode = w.mode /\ ("INSERT" \notin w.mode => t = w) BY <1>3, ShiftGood
    <2> HIDE DEF t
    <2>2. QED BY <1>3, <2>1
  <1>5. t.cursor \in Cells BY <1>4 DEF Good, Half, Screens
  <1>6. t.cursor.column \in 0..Last BY <1>5, CellIs
  <1>7. ASSUME NEW kind \in {"plain", "leading"}
        PROVE  LET a == write_at_cursor(t, kind)
               IN  Good(a) /\ a.mode = s.mode /\ (Keeps => Paired(a.cells))
    <2> DEFINE a == write_at_cursor(t, kind)
    <2>1. kind \in Kinds /\ kind \in {"plain", "leading", "wide"} /\ kind # "wide" BY DEF Kinds
    <2>2. Good(a) /\ a.mode = t.mode /\ Overwritten(a.cells, t.cells, t.cursor, kind)
      BY <1>4, <2>1, WriteGood
    <2> HIDE DEF t, a
    <2>3. Keeps => Paired(a.cells) BY <1>4, <1>5, <2>1, <2>2, LeftPairs
    <2>4. QED BY <1>4, <2>2, <2>3 DEF a
  <1>8. ASSUME NEW x, Good(x), x.cursor.column < Last, Keeps => Paired(x.cells)
        PROVE  LET u == Advance(WriteWide(x)) IN Good(u) /\ (Keeps => Paired(u.cells))
    <2> DEFINE a == WriteWide(x)
    <2>1. x.cursor \in Cells BY <1>8 DEF Good, Half, Screens
    <2>2. Good(a) BY <1>8, WideGood
    <2>3. PICK mid : /\ Overwritten(mid, x.cells, x.cursor, "wide")
                     /\ Overwritten(a.cells, mid, Right(x.cursor), "spacer")
      BY <1>8, WideGood
    <2> HIDE DEF a
    <2>4. ASSUME Keeps PROVE Paired(a.cells)
      <3>1. mid[x.cursor] = "wide" BY <2>3 DEF Overwritten
      <3>2. Almost(mid, x.cursor) /\ mid[Right(x.cursor)] # "spacer"
        BY <1>8, <2>1, <2>3, <2>4, LeftPairs
      <3>3. QED BY <1>8, <2>1, <2>3, <3>1, <3>2, RightPairs
    <2>5. Good(Advance(a)) /\ Advance(a).cells = a.cells BY <2>2, AdvanceGood
    <2>6. QED BY <2>4, <2>5 DEF a
  <1> HIDE DEF t
  <1>9. CASE width = 1
    <2> DEFINE a == write_at_cursor(t, "plain")
    <2>1. input(s, width) = Advance(a) BY <1>9 DEF input, t, w
    <2>2. Good(a) /\ (Keeps => Paired(a.cells)) BY <1>7
    <2> HIDE DEF a
    <2>3. Good(Advance(a)) /\ Advance(a).cells = a.cells BY <2>2, AdvanceGood
    <2>4. QED BY <2>1, <2>2, <2>3
  <1>10. CASE width = 2 /\ fits
    <2>1. input(s, width) = Advance(WriteWide(t)) BY <1>10 DEF input, t, w
    <2>2. t.cursor.column < Last BY <1>6, <1>10, Sizes
    <2>3. QED BY <1>4, <1>8, <2>1, <2>2
  <1>11. CASE width = 2 /\ ~fits /\ "LINE_WRAP" \in s.mode
    <2> DEFINE a == write_at_cursor(t, "leading")
               b == wrapline(a)
    <2>1. input(s, width) = Advance(WriteWide(b)) BY <1>11 DEF input, t, w
    <2>2. Good(a) /\ a.mode = s.mode /\ (Keeps => Paired(a.cells)) BY <1>7
    <2> HIDE DEF a
    <2>3. Good(b) /\ b.cursor.column = 0 BY <1>11, <2>2, WrapLineGood
    <2>4. Keeps => Paired(b.cells) BY <1>2, <2>2
    <2> HIDE DEF b
    <2>5. b.cursor.column < Last BY <2>3, Sizes
    <2>6. QED BY <1>8, <2>1, <2>3, <2>4, <2>5
  <1>12. CASE width = 2 /\ ~fits /\ "LINE_WRAP" \notin s.mode
    <2>1. input(s, width) = [t EXCEPT !.wrap = TRUE] BY <1>12 DEF input, t, w
    <2>2. QED BY <1>4, <2>1, WrapGood DEF Same
  <1>13. QED BY <1>9, <1>10, <1>11, <1>12
-------------------------------------------------------------------------------
(* The specification. *)

(* Forgetting cells that are damaged already keeps what Good says. *)
LEMMA StepGood ==
  ASSUME NEW s, Good(s), Step(s)
  PROVE  Good(screen') /\ screen'.cells = s.cells
  <1> DEFINE dirty == {p \in s.dirty : ~InBounds(s.damage[p.line], p.column)}
             u == [s EXCEPT !.dirty = dirty]
  <1>1. s \in Screens /\ Half(s) /\ s.cursor \in Cells BY DEF Good, Half, Screens
  <1>2. screen' = u BY <1>1 DEF Step, Screens
  <1>3. dirty \in SUBSET Cells /\ dirty \subseteq s.dirty BY <1>1 DEF Screens
  <1> HIDE DEF dirty
  <1>4. /\ u \in Screens /\ u.cells = s.cells /\ u.cursor = s.cursor /\ u.mode = s.mode
        /\ u.full = s.full /\ u.damage = s.damage /\ u.last = s.last /\ u.dirty = dirty
    BY <1>1, <1>3 DEF Screens
  <1> HIDE DEF u
  <1>5. AllDamaged(u) <=> AllDamaged(s) BY <1>4 DEF AllDamaged
  <1>6. s.cursor.column \in Int BY <1>1, CellIs, Sizes
  <1>7. Good(u) BY <1>1, <1>3, <1>4, <1>5, <1>6, Carried
  <1>8. QED BY <1>2, <1>4, <1>7

LEMMA NextGood ==
  ASSUME Good(screen), Next
  PROVE  Good(screen')
  <1> DEFINE s == screen
  <1>1. s \in Screens /\ s.cursor \in Cells BY DEF Good, Half, Screens
  <1>2. /\ 1 \in Nat /\ Columns \in Nat /\ Lines \in Nat /\ 0 \in Rows /\ 0 \in 0..Last
        /\ Lines - 1 \in Rows /\ Last \in 0..Last
    BY Sizes DEF Rows
  <1>3. \A n \in Counts : n \in Nat BY <1>2 DEF Counts
  <1>4. CASE Draw BY <1>4, DrawGood, StepGood DEF Draw
  <1>5. CASE \E width \in Widths : Input(width)
    BY <1>5, InputGood, StepGood, ScreenSpecAssumption DEF Input
  <1>6. CASE Motion
    <2>1. ASSUME NEW p \in Cells, Step(goto(s, p.line, p.column)) PROVE Good(screen')
      <3>1. p.line \in Int /\ p.column \in Nat BY CellIs, Sizes DEF Rows
      <3>2. QED BY <2>1, <3>1, JumpGood, StepGood
    <2>2. QED BY <1>3, <1>6, <2>1, MoveGood, ReturnGood, LineGood, StepGood DEF Motion
  <1>7. CASE Tabs BY <1>7, TabGood, StopsGood, StepGood DEF Tabs
  <1>8. CASE Scroll
    <2>1. \A n \in {1, Lines} : /\ Good(scroll_up_relative(s, 0, n)) /\ Good(scroll_down_relative(s, 0, n))
                                /\ Good(insert_blank_lines(s, n)) /\ Good(delete_lines(s, n))
      BY <1>1, <1>2, ScrollGood, LinesGood
    <2>2. \A mode : Good(clear_screen(s, mode)) BY ClearGood
    <2>3. Good(decaln(s)) /\ Good(reset_state(s)) BY ClearGood, ResetGood
    <2>4. QED BY <1>8, <2>1, <2>2, <2>3, StepGood DEF Scroll
  <1>9. CASE Edit
    BY <1>3, <1>9, BlankGood, EraseGood, DeleteGood, ClearLineGood, StepGood DEF Edit
  <1>10. CASE Modes BY <1>10, StopsGood, InsertModeGood, StepGood DEF Modes
  <1>11. CASE Restore
    <2>1. Point(0, 0) \in Cells /\ Point(Lines - 1, Last) \in Cells BY <1>2, PointIs
    <2>2. QED BY <1>11, <2>1, JumpGood, StepGood DEF Restore
  <1>12. QED BY <1>4, <1>5, <1>6, <1>7, <1>8, <1>9, <1>10, <1>11 DEF Next

(* What is asked for follows: the damage covers the cells written. *)
LEMMA GoodSafe ==
  ASSUME Good(screen)
  PROVE  ScreenInv
  <1> DEFINE d == damage(screen)
  <1>1. /\ screen \in Screens /\ screen.cursor \in Cells /\ screen.last \in Cells
        /\ screen.dirty \in SUBSET Cells
    BY DEF Good, Half, Screens
  <1>2. TypeOK BY <1>1 DEF TypeOK, Screens, Kinds
  <1>3. /\ AllDamaged(screen) => d.full
        /\ ~AllDamaged(screen) => \A p \in screen.dirty : InBounds(d.damage[p.line], p.column)
    BY DamageCovers
  <1> HIDE DEF d
  <1>4. Damaged(screen) = IF d.full THEN Cells ELSE {p \in Cells : InBounds(d.damage[p.line], p.column)}
    BY Zenon DEF Damaged, d
  <1>5. WritesAreDamaged BY <1>1, <1>3, <1>4 DEF WritesAreDamaged
  <1>6. QED BY <1>2, <1>5 DEF ScreenInv

IInv == Good(screen)

(* However a program writes, moves, scrolls, edits and changes modes between
   two frames, on a screen of any size: the cells written and not yet damaged
   are on the line of the cursor and not behind it, and something at or before
   them is in the damage of the next frame.  Term::input relies on it when it
   writes and records no damage. *)
THEOREM GoodHolds == Spec => []IInv
  <1>1. Init => IInv BY NewGood DEF Init, IInv
  <1>2. IInv /\ [Next]_screen => IInv' BY NextGood DEF IInv
  <1>3. QED BY <1>1, <1>2, PTL DEF Spec

(* ScreenInv, on a screen of any size: the cursor, the tab stops and the damage
   stay within the grid, and a cell that the handlers of term/mod.rs have
   written since the last frame is in the damage that Term::damage reports for
   the next one. *)
THEOREM ScreenSafe == Spec => []ScreenInv
  <1>1. IInv => ScreenInv BY GoodSafe DEF IInv
  <1>2. QED BY <1>1, GoodHolds, PTL

(* InputKeepsPairs, on a screen of any size: outside insert mode Handler::input
   never leaves half of a wide character where there was none, whichever half
   write_at_cursor overwrites and wherever wrapline takes the cursor. *)
THEOREM InputKeepsPairsHolds == Spec => InputKeepsPairs
  <1> DEFINE A == /\ \E width \in Widths : Input(width)
                  /\ "INSERT" \notin screen.mode
                  /\ Paired(screen.cells)
                  => Paired(screen'.cells)
  <1>1. ASSUME IInv, [Next]_screen
        PROVE  [A]_screen
    BY <1>1, InputGood, StepGood, ScreenSpecAssumption DEF Input, IInv
  <1>2. QED BY <1>1, GoodHolds, PTL DEF Spec, InputKeepsPairs
===============================================================================
