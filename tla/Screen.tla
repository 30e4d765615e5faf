-------------------------------- MODULE Screen --------------------------------
(***************************************************************************)
(* The cells of the screen under the handlers that write, erase and shift  *)
(* them, and the damage they record for the renderer                       *)
(* (cutty_terminal/src/term/mod.rs).                                       *)
(*                                                                         *)
(* A screen is [cells, cursor, wrap, mode, tabs, full, damage, last,       *)
(* dirty].                                                                 *)
(* Of a cell only its part in a wide character is kept: the character      *)
(* itself ("wide"), the cell to its right ("spacer"), the filler before a  *)
(* wide character that did not fit ("leading"), or none ("plain").  `wrap` *)
(* is input_needs_wrap, `damage` the damaged columns [left, right] of each *)
(* line, `last` the cursor the renderer was last told of.                  *)
(* `dirty` is history: the cells written, erased or shifted since.         *)
(* Scrolling regions and the scrollback are in module Viewport; here the   *)
(* region is the screen and scrolling_history is 0.                        *)
(***************************************************************************)
EXTENDS Index, FiniteSets

CONSTANTS Lines, Columns   \* the size of the screen

ASSUME ScreenAssumption == Lines \in Nat \ {0} /\ Columns \in Nat \ {0, 1}

Dims  == [lines |-> Lines, columns |-> Columns, history |-> 0]
Cells == Points(Dims)
Last  == Columns - 1

(* LineDamageBounds::undamaged, expand and is_damaged *)
undamaged == [left |-> Columns, right |-> 0]
expand(b, left, right) == [left |-> Smaller(b.left, left), right |-> Larger(b.right, right)]
InBounds(b, column) == b.left <= column /\ column <= b.right

NothingDamaged == [line \in 0..(Lines - 1) |-> undamaged]

(* TermDamageState::damage_line and damage_point, Term::damage_cursor and
   Term::mark_fully_damaged.  When everything is damaged, what else is does
   not matter: reset forgets both.  In insert mode everything will be, by
   damage or by leaving the mode. *)
AllDamaged(s) == s.full \/ "INSERT" \in s.mode
damage_line(s, line, left, right) ==
  IF AllDamaged(s) THEN s ELSE [s EXCEPT !.damage[line] = expand(@, left, right)]
damage_point(s, p) == damage_line(s, p.line, p.column, p.column)
damage_cursor(s) == damage_point(s, s.cursor)
mark_fully_damaged(s) ==
  [s EXCEPT !.full = TRUE, !.damage = NothingDamaged, !.dirty = {}]

(* Cells get other contents; nothing is noted when all is damaged anyway. *)
Change(s, cells, written) ==
  [s EXCEPT !.cells = cells, !.dirty = IF AllDamaged(s) THEN {} ELSE @ \union written]

(* Term::new *)
new_screen ==
  [cells |-> [p \in Cells |-> "plain"], cursor |-> Point(0, 0), wrap |-> FALSE,
   mode |-> {"LINE_WRAP"}, tabs |-> {0}, full |-> TRUE, damage |-> NothingDamaged,
   last |-> Point(0, 0), dirty |-> {}]

(* Term::damage: the old and the new position of the cursor are damaged too. *)
damage(s) ==
  LET t == [(IF "INSERT" \in s.mode THEN mark_fully_damaged(s) ELSE s) EXCEPT !.last = s.cursor]
      u == IF s.last # s.cursor THEN damage_point(t, s.last) ELSE t
  IN  IF t.full THEN t ELSE damage_cursor(u)

(* TermDamageIterator *)
Damaged(s) ==
  IF damage(s).full THEN Cells
  ELSE {p \in Cells : InBounds(damage(s).damage[p.line], p.column)}

(* Term::reset_damage *)
reset_damage(s) == [s EXCEPT !.full = FALSE, !.damage = NothingDamaged, !.dirty = {}]

(* Grid::scroll_up and scroll_down of the lines from origin. *)
ScrolledUp(s, origin, n) ==
  [p \in Cells |-> IF p.line < origin THEN s.cells[p]
                   ELSE IF p.line + n < Lines THEN s.cells[Point(p.line + n, p.column)]
                   ELSE "plain"]
ScrolledDown(s, origin, n) ==
  [p \in Cells |-> IF p.line < origin THEN s.cells[p]
                   ELSE IF p.line - n >= origin THEN s.cells[Point(p.line - n, p.column)]
                   ELSE "plain"]

(* Term::scroll_up_relative and scroll_down_relative *)
scroll_up_relative(s, origin, n) ==
  mark_fully_damaged([s EXCEPT !.cells = ScrolledUp(s, origin, Smaller(n, Lines))])
scroll_down_relative(s, origin, n) ==
  mark_fully_damaged([s EXCEPT !.cells = ScrolledDown(s, origin, Smaller(n, Lines - origin))])

insert_blank_lines(s, n) == scroll_down_relative(s, s.cursor.line, n)
delete_lines(s, n) == scroll_up_relative(s, s.cursor.line, Smaller(Lines - s.cursor.line, n))

(* Handler::linefeed and reverse_index *)
linefeed(s) ==
  IF s.cursor.line + 1 = Lines THEN scroll_up_relative(s, 0, 1)
  ELSE damage_cursor([damage_cursor(s) EXCEPT !.cursor.line = @ + 1])
reverse_index(s) ==
  IF s.cursor.line = 0 THEN scroll_down_relative(s, 0, 1)
  ELSE damage_cursor([damage_cursor(s) EXCEPT !.cursor.line = @ - 1])

(* Mutant of wrapline: the line that is left is not damaged. *)
wrapline_LeavesUndamaged(s) ==
  IF "LINE_WRAP" \notin s.mode THEN s
  ELSE LET t == IF s.cursor.line + 1 >= Lines THEN linefeed(s) ELSE [s EXCEPT !.cursor.line = @ + 1]
       IN  damage_cursor([t EXCEPT !.cursor.column = 0, !.wrap = FALSE])

(* Term::wrapline *)
wrapline(s) ==
  IF "LINE_WRAP" \notin s.mode THEN s
  ELSE LET t == IF s.cursor.line + 1 >= Lines THEN linefeed(s)
                ELSE [damage_cursor(s) EXCEPT !.cursor.line = @ + 1]
       IN  damage_cursor([t EXCEPT !.cursor.column = 0, !.wrap = FALSE])

(* Mutant of write_at_cursor: the other half of a wide character stays. *)
write_at_cursor_HalfStays(s, kind) == Change(s, [s.cells EXCEPT ![s.cursor] = kind], {s.cursor})

(* Term::write_at_cursor: overwriting one half of a wide character clears the
   other, and the filler on the line above. *)
write_at_cursor(s, kind) ==
  LET p     == s.cursor
      half  == s.cells[p] \in {"wide", "spacer"}
      right == Point(p.line, p.column + 1)
      left  == Point(p.line, p.column - 1)
      above == Point(p.line - 1, Last)
      toRight == s.cells[p] = "wide" /\ p.column < Last
      toLeft  == half /\ ~toRight /\ p.column > 0
      filler  == half /\ p.column <= 1 /\ p.line # 0
      Cleared == (IF toRight THEN {right} ELSE {}) \union (IF toLeft THEN {left} ELSE {})
                   \union (IF filler THEN {above} ELSE {})
      Loses(q) == \/ q = right /\ s.cells[q] = "spacer"
                  \/ q = left /\ s.cells[q] = "wide"
                  \/ q = above /\ s.cells[q] = "leading"
  IN  Change(s, [q \in Cells |-> IF q = p THEN kind
                                 ELSE IF q \in Cleared /\ Loses(q) THEN "plain" ELSE s.cells[q]],
             {p})

(* The cells of the cursor's line get others, as a function of the column. *)
Row(s, NewCell(_)) ==
  [p \in Cells |-> IF p.line = s.cursor.line THEN NewCell(p.column) ELSE s.cells[p]]
InRow(s, column) == s.cells[Point(s.cursor.line, column)]
RowCells(s, left, right) == {p \in Cells : p.line = s.cursor.line /\ p.column \in left..right}

(* In insert mode cells are first swapped to the right; the last ones come out
   at the cursor, where they are overwritten. *)
ShiftForInsert(s, width) ==
  LET col == s.cursor.column
      Tail(c) == CHOOSE t \in (Columns - width)..Last : (t - c) % width = 0
      NewCell(c) == IF c < col THEN InRow(s, c)
                    ELSE IF c >= col + width THEN InRow(s, c - width) ELSE InRow(s, Tail(c))
  IN  IF "INSERT" \in s.mode /\ col + width < Columns
        THEN Change(s, Row(s, NewCell), RowCells(s, col, Last)) ELSE s

(* Handler::input, of a character of width 0, 1 or 2. *)
ZeroWidth(s) ==
  LET column == IF s.wrap THEN s.cursor.column ELSE Larger(s.cursor.column - 1, 0)
      base   == IF InRow(s, column) = "spacer" THEN Larger(column - 1, 0) ELSE column
  IN  Change(s, s.cells, {Point(s.cursor.line, base)})

(* The end of input: to the next column, or to wrap there next time. *)
Advance(s) == IF s.cursor.column + 1 < Columns THEN [s EXCEPT !.cursor.column = @ + 1]
                                               ELSE [s EXCEPT !.wrap = TRUE]
WriteWide(s) ==
  write_at_cursor([write_at_cursor(s, "wide") EXCEPT !.cursor.column = @ + 1], "spacer")

input(s, width) ==
  LET t == ShiftForInsert(IF s.wrap THEN wrapline(s) ELSE s, width)
      fits == t.cursor.column + 1 < Columns
  IN  CASE width = 0 -> ZeroWidth(s)
        [] width = 1 -> Advance(write_at_cursor(t, "plain"))
        [] width = 2 /\ fits -> Advance(WriteWide(t))
        [] width = 2 /\ ~fits /\ "LINE_WRAP" \in s.mode ->
             Advance(WriteWide(wrapline(write_at_cursor(t, "leading"))))
        [] width = 2 /\ ~fits /\ "LINE_WRAP" \notin s.mode -> [t EXCEPT !.wrap = TRUE]

(* Handler::decaln *)
decaln(s) == mark_fully_damaged([s EXCEPT !.cells = [p \in Cells |-> "plain"]])

(* Handler::goto and the motions that end in it. *)
goto(s, line, column) ==
  LET to == Point(Larger(Smaller(line, Lines - 1), 0), Smaller(column, Last))
  IN  [damage_cursor([damage_cursor(s) EXCEPT !.cursor = to]) EXCEPT !.wrap = FALSE]

(* Handler::move_forward, move_backward, backspace and carriage_return *)
move_forward(s, n) ==
  LET column == Smaller(s.cursor.column + n, Last)
  IN  [damage_line(s, s.cursor.line, s.cursor.column, column)
        EXCEPT !.cursor.column = column, !.wrap = FALSE]

move_backward(s, n) ==
  LET column == Larger(s.cursor.column - n, 0)
  IN  [damage_line(s, s.cursor.line, column, s.cursor.column)
        EXCEPT !.cursor.column = column, !.wrap = FALSE]

backspace(s)       == IF s.cursor.column > 0 THEN move_backward(s, 1) ELSE s
carriage_return(s) == move_backward(s, s.cursor.column)

(* The next tab stop, or the last column; the tab stop before, or here. *)
NextStop(s, column) ==
  CHOOSE c \in Smaller(column + 1, Last)..Last :
    /\ c = Last \/ c \in s.tabs
    /\ \A k \in (column + 1)..(c - 1) : k \notin s.tabs
PreviousStop(s, column) ==
  LET before == {c \in s.tabs : c < column}
  IN  IF before = {} THEN column ELSE CHOOSE c \in before : \A k \in before : k <= c

(* Handler::put_tab, move_forward_tabs and move_backward_tabs, of one tab: more
   repeat it.  put_tab writes the tab into a blank cell and damages nothing. *)
put_tab(s) ==
  IF s.wrap THEN wrapline(s)
  ELSE [Change(s, s.cells, {s.cursor}) EXCEPT !.cursor.column = NextStop(s, @)]
move_forward_tabs(s) ==
  LET column == NextStop(s, s.cursor.column)
  IN  [damage_line(s, s.cursor.line, s.cursor.column, column) EXCEPT !.cursor.column = column]
move_backward_tabs(s) ==
  LET column == PreviousStop(s, s.cursor.column)
  IN  [damage_line(s, s.cursor.line, column, s.cursor.column) EXCEPT !.cursor.column = column]

(* Handler::set_horizontal_tabstop and clear_tabs *)
set_horizontal_tabstop(s) == [s EXCEPT !.tabs = @ \union {s.cursor.column}]
clear_tab(s)      == [s EXCEPT !.tabs = @ \ {s.cursor.column}]
clear_all_tabs(s) == [s EXCEPT !.tabs = {}]

(* Handler::insert_blank *)
insert_blank(s, n) ==
  LET count == Smaller(n, Columns - s.cursor.column)
      dest  == s.cursor.column + count
      NewCell(c) == IF c < s.cursor.column THEN InRow(s, c)
                    ELSE IF c < dest THEN "plain" ELSE InRow(s, c - count)
  IN  Change(damage_line(s, s.cursor.line, 0, Last), Row(s, NewCell),
             RowCells(s, s.cursor.column, Last))

(* Handler::erase_chars; the damage may end one column beyond the line. *)
erase_chars(s, n) ==
  LET end == Smaller(s.cursor.column + n, Columns)
      NewCell(c) == IF s.cursor.column <= c /\ c < end THEN "plain" ELSE InRow(s, c)
  IN  Change(damage_line(s, s.cursor.line, s.cursor.column, end), Row(s, NewCell),
             RowCells(s, s.cursor.column, end - 1))

(* Handler::delete_chars: the last `count` cells are cleared, also the ones
   before the cursor when there are not as many after it. *)
delete_chars(s, n) ==
  LET count == Smaller(n, Columns)
      end   == Smaller(s.cursor.column + count, Last)
      shift == end - s.cursor.column
      NewCell(c) == IF c >= Columns - count THEN "plain"
                    ELSE IF c >= s.cursor.column THEN InRow(s, c + shift) ELSE InRow(s, c)
  IN  Change(damage_line(s, s.cursor.line, 0, Last), Row(s, NewCell),
             RowCells(s, Smaller(s.cursor.column, Columns - count), Last))

(* Handler::clear_line *)
clear_line(s, mode) ==
  LET left  == IF mode = "Right" THEN s.cursor.column ELSE 0
      right == IF mode = "Left" THEN s.cursor.column ELSE Last
      NewCell(c) == IF left <= c /\ c <= right THEN "plain" ELSE InRow(s, c)
  IN  IF mode = "Right" /\ s.wrap THEN s
      ELSE Change(damage_line(s, s.cursor.line, left, right), Row(s, NewCell),
                  RowCells(s, left, right))

(* Handler::clear_screen: above the cursor, line 0 stays when the cursor is in
   line 1. *)
clear_screen(s, mode) ==
  LET c == s.cursor
      Cleared(p) ==
        CASE mode = "Above" -> (c.line > 1 /\ p.line < c.line)
                                 \/ (p.line = c.line /\ p.column <= c.column)
          [] mode = "Below" -> ~Before(p, c)
          [] mode = "All"   -> TRUE
  IN  mark_fully_damaged([s EXCEPT !.cells = [p \in Cells |-> IF Cleared(p) THEN "plain" ELSE @[p]]])

(* INSERT and LINE_WRAP in set_mode, unset_mode, set_private_mode and
   unset_private_mode *)
enter_insert_mode(s) ==
  [s EXCEPT !.mode = @ \union {"INSERT"}, !.damage = NothingDamaged, !.dirty = {}]
leave_insert_mode(s) == mark_fully_damaged([s EXCEPT !.mode = @ \ {"INSERT"}])
toggle_line_wrap(s) ==
  [s EXCEPT !.mode = IF "LINE_WRAP" \in @ THEN @ \ {"LINE_WRAP"} ELSE @ \union {"LINE_WRAP"}]

(* Handler::reset_state *)
reset_state(s) ==
  mark_fully_damaged([new_screen EXCEPT !.last = s.last])

(* Handler::restore_cursor_position, to a position saved before. *)
restore_cursor_position(s, p, wrap) ==
  damage_cursor([damage_cursor(s) EXCEPT !.cursor = p, !.wrap = wrap])
===============================================================================
