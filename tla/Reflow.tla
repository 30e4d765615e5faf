-------------------------------- MODULE Reflow --------------------------------
(***************************************************************************)
(* A grid with its text: cells (term/cell.rs) and rows (grid/row.rs), how  *)
(* Term::input lays characters out in rows, and how Grid::grow_columns and *)
(* shrink_columns reflow them (grid/resize.rs).                            *)
(*                                                                         *)
(* A cell is its character, its background and the flags that layout       *)
(* depends on.  A row keeps in `occ` how many of its cells were touched    *)
(* since it was last reset, so that Row::reset can skip the others when    *)
(* the ring buffer recycles the row.                                       *)
(*                                                                         *)
(* `rows` of a grid holds the scrollback and the screen, the oldest row    *)
(* first; that the ring buffer holds its rows in this order is             *)
(* StorageSpec's matter.  resize.rs numbers the rows from the bottom: `i`  *)
(* below.                                                                  *)
(***************************************************************************)
EXTENDS Index, SequencesExt

(* Cell::default, `impl From<Color> for Cell` and GridCell::reset; the
   placeholder before a wide character that did not fit. *)
Cell(c, flags, bg) == [c |-> c, flags |-> flags, bg |-> bg]
Blank(bg)     == Cell(" ", {}, bg)
DefaultCell   == Blank("default")
LeadingSpacer == Cell(" ", {"LEADING_WIDE_CHAR_SPACER"}, "default")
Spacers       == {"WIDE_CHAR_SPACER", "LEADING_WIDE_CHAR_SPACER"}

(* GridCell::is_empty *)
cell_is_empty(cell) ==
  cell.c \in {" ", "\t"} /\ cell.bg = "default" /\ cell.flags \intersect (Spacers \union {"WRAPLINE"}) = {}

Has(cell, flag)     == flag \in cell.flags
With(cell, flag)    == [cell EXCEPT !.flags = @ \union {flag}]
Without(cell, flag) == [cell EXCEPT !.flags = @ \ {flag}]

MkRow(inner, occ) == [inner |-> inner, occ |-> occ]
Defaults(n)       == [i \in 1..n |-> DefaultCell]
len(r)            == Len(r.inner)

(* Row::new and Row::grow *)
grow(r, columns) == MkRow(r.inner \o Defaults(Larger(columns - len(r), 0)), r.occ)
NewRow(columns)  == grow(MkRow(<<>>, 0), columns)

(* Row::shrink: what is left of the row, and the cells it returns, which are
   the removed ones up to the last that is not empty. *)
shrink(r, columns) ==
  IF len(r) <= columns THEN r ELSE MkRow(SubSeq(r.inner, 1, columns), Smaller(r.occ, columns))

Removed(r, columns) ==
  LET used == {i \in (columns + 1)..len(r) : ~cell_is_empty(r.inner[i])}
  IN  IF used = {} THEN <<>>
      ELSE SubSeq(r.inner, columns + 1, CHOOSE i \in used : \A j \in used : j <= i)

(* Row::reset: every cell is dirty when the last one has another background. *)
reset(r, bg) ==
  LET dirty == IF r.inner[len(r)].bg # bg THEN len(r) ELSE r.occ
  IN  MkRow([i \in 1..dirty |-> Blank(bg)] \o SubSeq(r.inner, dirty + 1, len(r)), 0)

(* IndexMut: the cell of a column is replaced. *)
SetCell(r, column, cell) ==
  MkRow([r.inner EXCEPT ![column + 1] = cell], Larger(r.occ, column + 1))

(* Row::last_mut hands out the last cell, here to change its wrap flag. *)
Wrapped(r)   == MkRow([r.inner EXCEPT ![len(r)] = With(@, "WRAPLINE")], len(r))
Unwrapped(r) == MkRow([r.inner EXCEPT ![len(r)] = Without(@, "WRAPLINE")], len(r))

append(r, cells)       == MkRow(r.inner \o cells, r.occ + Len(cells))
append_front(r, cells) == MkRow(cells \o r.inner, r.occ + Len(cells))

(* Row::front_split_off, what is left of the row *)
front_split_off(r, at) == MkRow(SubSeq(r.inner, at + 1, len(r)), Larger(r.occ - at, 0))

is_clear(r) == \A i \in 1..len(r) : cell_is_empty(r.inner[i])

(* LineLength::line_length *)
line_length(r) ==
  LET used == {i \in 1..len(r) : r.inner[i].c # " "}
  IN  IF Has(r.inner[len(r)], "WRAPLINE") THEN len(r)
      ELSE IF used = {} THEN 0 ELSE CHOOSE i \in used : \A j \in used : j <= i
-------------------------------------------------------------------------------
dims(g) == [lines |-> g.lines, columns |-> g.columns, history |-> Len(g.rows) - g.lines]

NewGrid(lines, columns, limit) ==
  [rows |-> <<>> \o [i \in 1..lines |-> NewRow(columns)], lines |-> lines, columns |-> columns,
   limit |-> limit, offset |-> 0, cursor |-> Point(0, 0), wrap |-> FALSE, template |-> "default"]

Index(g, line)    == Len(g.rows) - g.lines + line + 1
RowAt(g, line)    == g.rows[Index(g, line)]
CellAt(g, p)      == RowAt(g, p.line).inner[p.column + 1]
PutCell(g, p, cell) == [g EXCEPT !.rows[Index(g, p.line)] = SetCell(@, p.column, cell)]

(* Handler::linefeed with the whole screen as region: in the last line the
   text scrolls up, and a row beyond the scrollback limit is recycled. *)
linefeed(g) ==
  LET full == Len(g.rows) >= g.limit + g.lines
      new  == reset(IF full THEN g.rows[1] ELSE NewRow(g.columns), g.template)
      kept == IF full THEN Tail(g.rows) ELSE g.rows
  IN  IF g.cursor.line + 1 < g.lines THEN [g EXCEPT !.cursor.line = @ + 1]
      ELSE [g EXCEPT !.rows = Append(kept, new),
                     !.offset = IF @ = 0 THEN 0 ELSE Smaller(@ + 1, g.limit)]

carriage_return(g) == [g EXCEPT !.cursor.column = 0, !.wrap = FALSE]

wrapline(g) == carriage_return(linefeed(PutCell(g, g.cursor, With(CellAt(g, g.cursor), "WRAPLINE"))))

(* Cell::clear_wide *)
clear_wide(cell) == [Without(cell, "WIDE_CHAR") EXCEPT !.c = " "]

(* Term::write_at_cursor: overwriting one half of a wide character takes the
   other half and the filler on the line above away. *)
write_at_cursor(g, c, flags) ==
  LET p    == g.cursor
      old  == CellAt(g, p)
      half == Has(old, "WIDE_CHAR") \/ Has(old, "WIDE_CHAR_SPACER")
      right == Point(p.line, p.column + 1)
      left  == Point(p.line, p.column - 1)
      above == Point(p.line - 1, last_column(dims(g)))
      one == IF ~half THEN g
             ELSE IF Has(old, "WIDE_CHAR") /\ p.column < last_column(dims(g))
                    THEN PutCell(g, right, Without(CellAt(g, right), "WIDE_CHAR_SPACER"))
             ELSE IF p.column > 0 THEN PutCell(g, left, clear_wide(CellAt(g, left))) ELSE g
      two == IF half /\ p.column <= 1 /\ p.line # topmost_line(dims(g))
               THEN PutCell(one, above, Without(CellAt(one, above), "LEADING_WIDE_CHAR_SPACER")) ELSE one
  IN  PutCell(two, p, Cell(c, flags, g.template))

Advance(g) == IF g.cursor.column + 1 < g.columns THEN [g EXCEPT !.cursor.column = @ + 1]
                                                 ELSE [g EXCEPT !.wrap = TRUE]

(* Handler::input with line wrapping on *)
input(g, c, width) ==
  LET t    == IF g.wrap THEN wrapline(g) ELSE g
      fits == t.cursor.column + 1 < t.columns
      u    == IF fits THEN t ELSE wrapline(write_at_cursor(t, " ", {"LEADING_WIDE_CHAR_SPACER"}))
      wide == [write_at_cursor(u, c, {"WIDE_CHAR"}) EXCEPT !.cursor.column = @ + 1]
  IN  Advance(IF width = 1 THEN write_at_cursor(t, c, {})
              ELSE write_at_cursor(wide, " ", {"WIDE_CHAR_SPACER"}))

(* Grid::scroll_display by lines *)
scroll_display(g, delta) ==
  [g EXCEPT !.offset = Larger(0, Smaller(@ + delta, dims(g).history))]
-------------------------------------------------------------------------------
(* Both directions take the cursor out of the "wraps next" state first, by
   moving it beyond the last column. *)
Unpend(g, columns, reflow) ==
  LET pending == g.wrap /\ reflow
  IN  [g EXCEPT !.columns = columns, !.rows = <<>>,
                !.wrap = IF pending THEN FALSE ELSE @,
                !.cursor.column = IF pending THEN @ + 1 ELSE @]

CursorRow(g) == g.lines - g.cursor.line - 1
HistoryOffset(g) == Smaller(g.offset, Len(g.rows) - g.lines)
Push(a, row) == [a EXCEPT !.rows = Append(@, row)]

should_reflow(a) ==
  /\ a.rows # <<>> /\ len(Last(a.rows)) > 0 /\ len(Last(a.rows)) < a.columns
  /\ Has(Last(Last(a.rows).inner), "WRAPLINE")

(* Mutant of Pulled: a wide character is torn apart at the new width. *)
Pulled_SplitsWide(last, row, columns) ==
  LET base  == LET u == Unwrapped(last)
               IN  IF Has(Last(u.inner), "LEADING_WIDE_CHAR_SPACER") THEN shrink(u, len(u) - 1) ELSE u
      room  == columns - len(base)
      count == Smaller(len(row), room)
  IN  [last |-> append(base, SubSeq(row.inner, 1, count)), rest |-> front_split_off(row, count),
       num_wrapped |-> room]

(* The cells of `row` that fit behind those of the row above it, where a
   wide character that would be torn apart leaves a filler. *)
Pulled(last, row, columns) ==
  LET base  == LET u == Unwrapped(last)
               IN  IF Has(Last(u.inner), "LEADING_WIDE_CHAR_SPACER") THEN shrink(u, len(u) - 1) ELSE u
      room  == columns - len(base)
      count == Smaller(len(row), room)
      torn  == Has(row.inner[count], "WIDE_CHAR")
      taken == IF torn THEN count - 1 ELSE count
      cells == SubSeq(row.inner, 1, taken) \o (IF torn THEN << LeadingSpacer >> ELSE <<>>)
  IN  [last |-> append(base, cells), rest |-> front_split_off(row, taken),
       num_wrapped |-> IF torn THEN room - 1 ELSE room]

(* One round of the loop of Grid::grow_columns. *)
GrowRow(a, i, row) ==
  LET p       == Pulled(Last(a.rows), row, a.columns)
      gone    == is_clear(p.rest)
      pulled  == [a EXCEPT !.rows[Len(a.rows)] = p.last]
      kept    == [a EXCEPT !.rows = Append([@ EXCEPT ![Len(a.rows)] = Wrapped(p.last)], p.rest)]
      d       == [lines |-> a.lines, columns |-> a.columns, history |-> 0]
      moved   == point_sub(a.cursor, d, "Cursor", p.num_wrapped)
      clamped == moved.column = 0 /\ gone
      target  == IF clamped THEN point_sub(moved, d, "Cursor", 1) ELSE moved
      delta   == a.cursor.line - target.line
      placed(b) == [b EXCEPT !.cursor.column = target.column, !.wrap = @ \/ clamped]
  IN  IF ~(a.reflow /\ should_reflow(a)) THEN Push(a, row)
      ELSE IF i = CursorRow(a)
        THEN IF delta # 0 /\ gone THEN placed(pulled)
             ELSE [placed(kept) EXCEPT !.delta = @ + delta]
      ELSE IF gone
        THEN [pulled EXCEPT !.offset = IF i < a.offset THEN Larger(@ - 1, 0) ELSE @,
                            !.cursor.line = IF i < CursorRow(a) THEN @ + 1 ELSE @]
      ELSE kept

(* Grid::grow_columns, after the loop: the screen is filled up, and content
   is pulled down until the cursor is where it belongs. *)
FillScreen(a) ==
  LET missing == Larger(a.lines - Len(a.rows), 0)
  IN  [a EXCEPT !.rows = @ \o [i \in 1..missing |-> NewRow(a.columns)],
                !.cursor.line = IF missing > 0 THEN Larger(@ - missing, 0) ELSE @]

PullDown(a) ==
  LET available == Smaller(CursorRow(a), Len(a.rows) - a.lines)
      overflow  == Larger(a.delta - available, 0)
  IN  IF a.delta = 0 THEN a
      ELSE [a EXCEPT !.rows = SubSeq(@, 1, Len(@) + overflow - a.delta),
                     !.cursor.line = Larger(@ - overflow, 0)]

Numbered(rows) == [k \in 1..Len(rows) |-> << Len(rows) - k, rows[k] >>]
Round(g, reflow, columns) == Unpend(g, columns, reflow) @@ [reflow |-> reflow, delta |-> 0, buffered |-> <<>>]
Grid(a) == [f \in DOMAIN a \ {"reflow", "delta", "buffered"} |-> a[f]]

grow_columns(g, reflow, columns) ==
  LET looped == FoldLeft(LAMBDA a, r : GrowRow(a, r[1], r[2]), Round(g, reflow, columns), Numbered(g.rows))
      filled == PullDown(FillScreen(looped))
      grown  == [filled EXCEPT !.rows = FoldLeft(LAMBDA rows, r : Append(rows, grow(r, columns)), <<>>, @)]
  IN  Grid([grown EXCEPT !.offset = HistoryOffset(grown)])
-------------------------------------------------------------------------------
(* Grid::shrink_columns: the row that stays, and the cells that go on to the
   next one; "stop" when a filler was all that was cut off. *)
Cut(row, columns) ==
  LET cut    == shrink(row, columns)
      torn   == len(cut) >= columns /\ Has(cut.inner[columns], "WIDE_CHAR")
      kept   == IF torn THEN SetCell(cut, columns - 1, LeadingSpacer) ELSE cut
      rest   == (IF torn THEN << cut.inner[columns] >> ELSE <<>>) \o Removed(row, columns)
      filler == rest # <<>> /\ Has(Last(rest), "LEADING_WIDE_CHAR_SPACER")
      wrapped == IF ~filler THEN rest
                 ELSE LET front == Front(rest)
                      IN  [front EXCEPT ![Len(front)] = With(@, "WRAPLINE")]
  IN  IF filler /\ Len(rest) = 1 THEN [kept |-> Wrapped(kept), wrapped |-> <<>>, stop |-> TRUE]
      ELSE [kept |-> Wrapped(kept), wrapped |-> wrapped, stop |-> FALSE]

(* A line is added at row i: lines above it move up, and the cursor with the
   text it is on. *)
CursorWraps(a, i) ==
  LET here == i = CursorRow(a)
      up   == (here /\ a.cursor.column < a.columns) \/ i < CursorRow(a)
  IN  [a EXCEPT !.cursor.line = IF up THEN Larger(@ - 1, 0) ELSE @,
                !.cursor.column = IF here /\ @ >= a.columns THEN @ - a.columns ELSE @]

(* The inner loop of Grid::shrink_columns, until the row fits or its rest
   joins the next one. *)
RECURSIVE ShrinkRest(_, _, _)
ShrinkRest(a, i, row) ==
  LET fits  == Removed(row, a.columns) = <<>>
      blank == i = CursorRow(a) /\ a.cursor.column > a.columns
      cut   == Cut(row, a.columns)
      rest  == cut.wrapped
      pushed == Push(a, cut.kept)
      joins == /\ rest # <<>> /\ Has(Last(rest), "WRAPLINE") /\ i >= 1 /\ Len(rest) < a.columns
      moved == CursorWraps(pushed, i)
      next  == MkRow(rest \o Defaults(Larger(a.columns - Len(rest), 0)), Len(rest))
  IN  IF ~a.reflow \/ (fits /\ ~blank) THEN Push(a, shrink(row, a.columns))
      ELSE IF cut.stop THEN pushed
      ELSE IF joins
        THEN [pushed EXCEPT !.buffered = [rest EXCEPT ![Len(rest)] = Without(@, "WRAPLINE")]]
      ELSE ShrinkRest([moved EXCEPT !.offset = IF i < @ THEN @ + 1 ELSE @], i, next)

(* Mutant of ShrinkRow: cells that went on to this row are lost. *)
ShrinkRow_Forgets(a, i, row) == ShrinkRest([a EXCEPT !.buffered = <<>>], i, row)

ShrinkRow(a, i, row) ==
  LET n == Len(a.buffered)
      b == [a EXCEPT !.buffered = <<>>, !.cursor.column = IF i = CursorRow(a) THEN @ + n ELSE @]
  IN  ShrinkRest(b, i, IF n > 0 THEN append_front(row, a.buffered) ELSE row)

(* Grid::shrink_columns, after the loop *)
PlaceCursor(a) ==
  LET end == CellAt(a, Point(a.cursor.line, a.columns - 1))
  IN  IF ~a.reflow THEN [a EXCEPT !.cursor.column = Smaller(@, a.columns - 1)]
      ELSE IF a.cursor.column = a.columns /\ ~Has(end, "WRAPLINE")
             THEN [a EXCEPT !.wrap = TRUE, !.cursor.column = @ - 1]
      ELSE [a EXCEPT !.cursor = grid_clamp(@, dims(a), "Cursor")]

shrink_columns(g, reflow, columns) ==
  LET looped  == FoldLeft(LAMBDA a, r : ShrinkRow(a, r[1], r[2]), Round(g, reflow, columns), Numbered(g.rows))
      dropped == Larger(Len(looped.rows) - g.limit - g.lines, 0)
      cut     == [looped EXCEPT !.rows = SubSeq(@, dropped + 1, Len(@))]
  IN  Grid(PlaceCursor([cut EXCEPT !.offset = HistoryOffset(cut)]))

(* Grid::resize, of the width *)
resize(g, reflow, columns) ==
  IF columns > g.columns THEN grow_columns(g, reflow, columns)
  ELSE IF columns < g.columns THEN shrink_columns(g, reflow, columns) ELSE g
===============================================================================
