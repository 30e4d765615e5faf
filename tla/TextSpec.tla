------------------------------- MODULE TextSpec -------------------------------
(***************************************************************************)
(* Text that a program prints, wraps and overwrites, in a window whose     *)
(* width changes at any time (Reflow), and what searching it (Search),     *)
(* moving in it (ViMode) and copying it find.                              *)
(***************************************************************************)
EXTENDS ViMode, Selection, Search

CONSTANTS Width,      \* the characters a program prints, with the cells they take
          Columns,    \* the widths a window may have
          Lines, Limit,
          EscapeChars, \* semantic_escape_chars
          Words,      \* what is searched for
          HintWords,  \* what hints match
          Texts,      \* bound: what the program prints at first
          MaxCells,   \* bound: cells of the grids in which text is looked for, before those steps
          MaxSteps    \* bound: steps of the program after that

VARIABLES grid, steps

vars == << grid, steps >>

Typed(g, c) == IF c = NewLine THEN linefeed(carriage_return(g)) ELSE input(g, c, Width[c])

(* The window opens in some width, and the program prints something. *)
Init ==
  /\ steps = 0
  /\ \E columns \in Columns, text \in Texts :
       grid = FoldLeft(Typed, NewGrid(Lines, columns, Limit), text)

(* It prints more, or moves its cursor. *)
Step(g) == steps < MaxSteps /\ grid' = g /\ steps' = steps + 1
More(c)  == Step(Typed(grid, c))
Goto(p)  == p.line >= 0 /\ p # grid.cursor /\ Step([grid EXCEPT !.cursor = p, !.wrap = FALSE])
(* The user scrolls, and changes the width of the window. *)
Scroll(delta) == grid' = scroll_display(grid, delta) /\ UNCHANGED steps
Resize(columns) == columns # grid.columns /\ grid' = resize(grid, TRUE, columns) /\ UNCHANGED steps

Next ==
  \/ \E c \in DOMAIN Width \union {NewLine} : More(c)
  \/ \E p \in Points(dims(grid)) : Goto(p)
  \/ \E columns \in Columns : Resize(columns)
  \/ \E delta \in {-1, 1} : Scroll(delta)

Spec == Init /\ [][Next]_vars
-------------------------------------------------------------------------------
(* The characters of a row and of a sequence of rows, without the blanks. *)
Ink(r) == LET inked == SelectSeq(r.inner, LAMBDA x : x.c # " ") IN [i \in DOMAIN inked |-> inked[i].c]
Text(rows) == FoldLeft(LAMBDA a, r : a \o Ink(r), <<>>, rows)

(* The rows are all as wide as the grid and count no more cells than they have,
   there are a screen of them and at most `Limit` more, the cursor is on the
   screen and the view in the scrollback. *)
TypeOK ==
  /\ Len(grid.rows) \in grid.lines..(grid.lines + grid.limit)
  /\ \A i \in DOMAIN grid.rows : len(grid.rows[i]) = grid.columns /\ grid.rows[i].occ \in 0..grid.columns
  /\ grid.cursor \in Points(dims(grid)) /\ grid.cursor.line >= 0
  /\ grid.offset \in 0..dims(grid).history

(* No character lies beyond the `occ` of its row, however rows were cut, joined
   and appended to by a reflow: Row::reset would leave it behind. *)
TextWithinOcc ==
  \A i \in DOMAIN grid.rows : \A k \in (grid.rows[i].occ + 1)..grid.columns : grid.rows[i].inner[k].c = " "

(* A reflow keeps the text in its order.  It loses the beginning only when the
   scrollback is full (shrink_columns truncates it), and what is below the
   cursor's line only when the window grows (grow_columns pulls content down). *)
TextStays ==
  grid'.columns # grid.columns =>
    LET all  == Text(grid.rows)
        upto == Text(SubSeq(grid.rows, 1, Index(grid, grid.cursor.line)))
    IN  \E from \in 0..Len(all), to \in Len(upto)..Len(all) :
          /\ Text(grid'.rows) = SubSeq(all, from + 1, to)
          /\ from > 0 => Len(grid'.rows) = grid'.lines + grid'.limit
          /\ to < Len(all) => grid'.columns > grid.columns

(* A cursor behind all of the text stays behind all of it in a reflow, while it
   does not reach the first line.  (With wide characters it does not: the
   filler is not counted in shrink_columns.) *)
InkBefore(g) ==
  LET k == Index(g, g.cursor.line)
      n == IF g.wrap THEN g.cursor.column + 1 ELSE g.cursor.column
  IN  Text(SubSeq(g.rows, 1, k - 1)) \o Ink([inner |-> SubSeq(g.rows[k].inner, 1, n)])
CursorStays ==
  /\ grid'.columns # grid.columns /\ grid'.cursor.line > 0 /\ InkBefore(grid) = Text(grid.rows)
  /\ \A i \in DOMAIN grid.rows : \A k \in 1..grid.columns : ~Has(grid.rows[i].inner[k], "WIDE_CHAR")
  => /\ IsSuffix(InkBefore(grid'), InkBefore(grid))
     /\ Len(grid'.rows) < grid.lines + grid.limit => InkBefore(grid') = InkBefore(grid)

(* ReflowKeepsText: grow_columns and shrink_columns lose, repeat and reorder no
   text but what the limits of the grid make them cut, and the cursor stays
   behind the text that it was behind. *)
ReflowKeepsText == [][TextStays /\ CursorStays]_vars

(* The two halves of a wide character stay next to each other, in one row. *)
WidePairs ==
  \A i \in DOMAIN grid.rows : \A k \in 1..grid.columns :
    LET cell == grid.rows[i].inner[k]
    IN  /\ Has(cell, "WIDE_CHAR") => k < grid.columns /\ Has(grid.rows[i].inner[k + 1], "WIDE_CHAR_SPACER")
        /\ Has(cell, "WIDE_CHAR_SPACER") => k > 1 /\ Has(grid.rows[i].inner[k - 1], "WIDE_CHAR")
-------------------------------------------------------------------------------
(* Where text is looked for. *)
Here == IF steps = 0 /\ Cardinality(Cells(grid)) <= MaxCells THEN Points(dims(grid)) ELSE {}

(* What is copied from the whole grid, printed again, gives the same rows,
   wrapped in the same places: bounds_to_string breaks lines exactly where the
   program did.  (Not asked when a reflow left a wrapped line without rest.) *)
Shown(rows) ==
  [i \in DOMAIN rows |-> [k \in DOMAIN rows[i].inner |->
     << rows[i].inner[k].c, Has(rows[i].inner[k], "WRAPLINE") >>]]
CopyReprints ==
  LET d    == dims(grid)
      copy == bounds_to_string(grid, Point(topmost_line(d), 0), Point(bottommost_line(d), last_column(d)))
      Sound(i, k) == k = grid.columns /\ i < Len(grid.rows) /\ Ink(grid.rows[i + 1]) # <<>>
  IN  (\A i \in DOMAIN grid.rows : \A k \in 1..grid.columns :
         Has(grid.rows[i].inner[k], "WRAPLINE") => Sound(i, k)) =>
      Shown(FoldLeft(Typed, NewGrid(Len(grid.rows), grid.columns, 0), copy).rows) = Shown(grid.rows)

(* What is copied from a range that does not end at a filler is the text in it,
   with the whole of a wide character whose second half it begins at. *)
CopiesTheRange ==
  \A p, q \in Here :
    LET from == IF Has(CellAt(grid, p), "WIDE_CHAR_SPACER") THEN Pos(grid, p) - 1 ELSE Pos(grid, p)
        to   == Pos(grid, q)
        cells == [i \in 1..(to - from + 1) |-> Nth(grid, from + i - 1)]
        copy  == SelectSeq(bounds_to_string(grid, p, q), LAMBDA c : c \notin {NewLine, " "})
    IN  ~Before(q, p) /\ ~Has(CellAt(grid, q), "LEADING_WIDE_CHAR_SPACER") => copy = Ink([inner |-> cells])

(* A simple selection has the cells that lie between its anchors, whichever was
   set first: "Only cells that are completely covered are counted in a
   selection" (selection.rs).  The anchors are not the two sides of a line
   break: range_simple takes the cell before it then. *)
SelectsCovered ==
  Text(grid.rows) = <<>> =>
    \A p, q \in Here, a, b \in Sides :
      LET s == update(new_selection("Simple", p, a), q, b)
          Edge(anchor) == Pos(grid, anchor.point) + (IF anchor.side = "Right" THEN 1 ELSE 0)
          covered == {k \in Cells(grid) : Smaller(Edge(s.start), Edge(s.end)) <= k
                                           /\ k < Larger(Edge(s.start), Edge(s.end))}
          range == to_range(s, dims(grid))
      IN  Edge(s.start) # Edge(s.end) \/ p.line = q.line =>
            covered = IF range = NoSelection THEN {} ELSE {k \in Cells(grid) : contains(range, At(grid, k))}

(* A selection of lines has the whole of the program's lines that its anchors
   are on, wrapped as they are, and one of words has no more than that. *)
SelectsWholeLines ==
  \A p, q \in Here :
    LET lines == range_lines(grid, p, q)
        words == range_semantic(grid, p, q, EscapeChars)
        from  == Pos(grid, lines[1])
        to    == Pos(grid, lines[2])
    IN  ~Before(q, p) =>
          /\ from <= Pos(grid, p) /\ Pos(grid, q) <= to
          /\ from = 0 \/ LineEnds(grid, from - 1)
          /\ to = Greatest(Cells(grid)) \/ LineEnds(grid, to)
          /\ \A k \in from..(to - 1) : LineEnds(grid, k) => Pos(grid, p) <= k /\ k < Pos(grid, q)
          /\ p = q \/ (from <= Pos(grid, words[1]) /\ Pos(grid, words[2]) <= to)

(* No motion of the vi mode cursor leaves the grid. *)
MotionsStayInGrid ==
  /\ \A p \in Here, m \in Motions : motion(grid, p, m) \in Here
  /\ \A p \in Here, lines \in -2..2 : scroll(grid, p, lines) \in Here
  /\ \A p \in Here, direction, side \in Sides :
       {word(grid, p, direction, side), semantic(grid, p, direction, side, EscapeChars)} \subseteq Here

(* From the bracket that matches this one, the search comes back to this one. *)
BracketsMatch ==
  \A p \in Here : bracket_search(grid, bracket_search(grid, p)) = p

(* The word motions go to the nearest beginning or end of a word beyond the
   cursor, or to the end of the grid when there is none. *)
WordsAreReached ==
  LET Space(k) == is_space(grid, At(grid, k))
      all == Cells(grid)
      starts == {k \in all : ~Space(k) /\ (k = 0 \/ Space(k - 1))}
      ends   == {k \in all : ~Space(k) /\ (k = Greatest(all) \/ Space(k + 1))}
      Target(k, direction, side) ==
        LET S == {j \in IF side = "Left" THEN starts ELSE ends : IF direction = "Right" THEN j > k ELSE j < k}
        IN  IF S = {} THEN (IF direction = "Right" THEN Greatest(all) ELSE 0)
            ELSE IF direction = "Right" THEN Least(S) ELSE Greatest(S)
  IN  \A p \in Here, direction, side \in Sides :
        LET from == expand_wide(grid, p, direction)
        IN  Pos(grid, word(grid, p, direction, side)) = Target(Pos(grid, from), direction, side)

(* The semantic word around a character contains it, has no separator, does not
   go over the end of a line, and cannot be made longer. *)
SemanticWords ==
  \A p \in Here :
    LET l == Pos(grid, semantic_search_left(grid, p, EscapeChars))
        r == Pos(grid, semantic_search_right(grid, p, EscapeChars))
        k == Pos(grid, p)
        Esc(j) == Contains1(grid, j, EscapeChars)
    IN  ~Esc(k) /\ ~IsSpacer(Nth(grid, k)) =>
          /\ k \in l..r
          /\ \A j \in l..r : ~Esc(j) /\ (j < r => ~LineEnds(grid, j))
          /\ l = 0 \/ LineEnds(grid, l - 1) \/ IsSpacer(Nth(grid, l - 1)) \/ Esc(l - 1)
          /\ r = Greatest(Cells(grid)) \/ LineEnds(grid, r) \/ Esc(r + 1)

(* The search finds a match whenever there is one, and the one nearest to the
   origin in the direction of the search, around the end of the grid if need
   be, though search_next enumerates matches from the beginning of the line. *)
SearchFindsNearest ==
  \A p \in Here, w \in Words, direction, side \in Sides :
    LET origin == Pos(grid, expand_wide(grid, p, direction))
        Place(m) == IF side = "Right" THEN m.end ELSE m.start
        Far(m) == IF direction = "Right" THEN Ahead(grid, origin, Place(m)) ELSE Behind(grid, origin, Place(m))
        all    == Occurrences(grid, w)
        Nearest(found) == IF all = {} THEN found = <<>> ELSE \A m \in all : Far(found[1]) <= Far(m)
    IN  Nearest(search_next(grid, w, p, direction, side))

(* A hint that is shown is found again from each of its cells, so that selecting it
   (HintMatch::text) and pointing at it give the same match, however much of it the
   post-processing has cut off.  (Not for a match in the last cell of the grid, where
   the search does not go on behind it but begins at the same cell for ever.) *)
HintsAreFoundAgain ==
  Here # {} =>
    \A pattern \in HintWords : \A raw \in ToSet(visible_regex_match_iter(grid, pattern)) :
      raw.end < Greatest(Cells(grid)) =>
        \A h \in ToSet(HintPostProcessor(grid, pattern, raw, raw.end)) :
          \A k \in h.start..h.end : regex_match_at(grid, pattern, k) = << h >>

(* TextInv: a reflow leaves rows whose counters cover their text and wide
   characters whose halves are together. *)
TextInv == TypeOK /\ TextWithinOcc /\ WidePairs

(* MotionsAgree: the motions of the vi mode cursor go where the text says, over
   wrapped lines, wide characters and the corners of the grid. *)
MotionsAgree == MotionsStayInGrid /\ WordsAreReached /\ BracketsMatch

(* SearchesAgree: what is searched for is found wherever the search begins, and
   is the same from each of its cells. *)
SearchesAgree == SearchFindsNearest /\ SemanticWords /\ HintsAreFoundAgain

(* SelectionsAgree: every kind of selection has the cells it should, and its
   copy is their text. *)
SelectionsAgree == SelectsCovered /\ SelectsWholeLines /\ CopiesTheRange /\ CopyReprints
===============================================================================
