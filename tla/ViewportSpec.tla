----------------------------- MODULE ViewportSpec -----------------------------
(***************************************************************************)
(* A terminal under the parser (escape sequences), the UI (scrolling, vi   *)
(* mode, mouse selections) and the window (resizes).                       *)
(***************************************************************************)
EXTENDS Viewport

CONSTANT SelectionDepth   \* how far above the screen a selection is followed

VARIABLE term

Init == \E lines \in Heights, history \in Histories : term = new_term(lines, history)

Primary == IF "ALT_SCREEN" \in term.mode THEN term.inactive ELSE term.grid
ScreenLines == 0..(term.lines - 1)

(* The user. *)
ScrollDisplay(count) == term' = scroll_display(term, count)
ToggleVi             == term' = toggle_vi_mode(term)
ViGoto(line)         == term' = vi_goto_point(term, line)
ViMotion(line)       == "VI" \in term.mode /\ term' = vi_motion(term, line)

(* Selecting with the mouse: from the left of a line to the right of another,
   or the other way round. *)
Select(from, to) ==
  LET a == Point(from, 0)
      b == Point(to, Columns - 1)
      s == new_selection("Simple", a, "Left")
      r == new_selection("Simple", b, "Right")
  IN  term' \in {[term EXCEPT !.sel = update(s, b, "Right")], [term EXCEPT !.sel = update(r, a, "Left")]}

(* The window. *)
ResizeLines(lines) == lines # term.lines /\ term' = resize_lines(term, lines)
ResizeColumns(h, off, c) ==
  /\ h <= Primary.limit /\ off <= h
  /\ term' = resize_columns(term, h, off, c)

(* The program. *)
ScrollUp(n)      == term' = scroll_up_relative(term, term.region.start, n)
ScrollDown(n)    == term' = scroll_down_relative(term, term.region.start, n)
InsertLines(n)   == term' = insert_blank_lines(term, n)
DeleteLines(n)   == term' = delete_lines(term, n)
LineFeed         == term' = linefeed(term)
ReverseIndex     == term' = reverse_index(term)
Goto(line, o)    == term' = goto(term, line, o)
SetRegion(top, bottom, o) == term' = set_scrolling_region(term, top, bottom, o)
SwapAlt          == term' = swap_alt(term)
RestoreCursor(line) == term' = restore_cursor_position(term, line)
ClearAll(used)   == term' = clear_all(term, used)
ClearSome        == term' \in {clear_line(term), clear_above(term), clear_below(term),
                               clear_saved(term)}
Reset            == term' = reset_state(term)

SetOptions(history) == term' = set_options(term, history)

(* Where a vi motion may arrive: at a neighbouring line, by the conditions of
   Up and Down.  The motions to other lines of the grid do what ViGoto does. *)
MotionTargets ==
  {l \in {term.vi - 1} : term.vi > topmost_line(dims(term))}
    \union {l \in {term.vi + 1} : term.vi + 1 < term.lines}

MaxHeight == CHOOSE h \in Heights : \A k \in Heights : k <= h

UserStep ==
  \/ \E count \in {-1, 1, MaxHeight} : ScrollDisplay(count)
  \/ ToggleVi
  \/ \E line \in GridLines(dims(term)) : ViGoto(line)
  \/ \E line \in MotionTargets : ViMotion(line)
  \/ \E from, to \in GridLines(dims(term)) : from <= to /\ Select(from, to)
  \/ \E history \in Histories : SetOptions(history)

WindowStep ==
  \/ \E lines \in Heights : ResizeLines(lines)
  \/ \E h, off \in 0..Primary.limit, c \in ScreenLines : ResizeColumns(h, off, c)

ProgramStep ==
  \/ \E n \in {1, MaxHeight} :
       ScrollUp(n) \/ ScrollDown(n) \/ InsertLines(n) \/ DeleteLines(n)
  \/ LineFeed \/ ReverseIndex \/ SwapAlt \/ Reset
  \/ \E line \in ScreenLines, o \in BOOLEAN : Goto(line, o) \/ RestoreCursor(line)
  \/ \E bottom \in 2..(MaxHeight + 1), top \in 1..MaxHeight, o \in BOOLEAN :
       (o => top = 2) /\ SetRegion(top, bottom, o)
  \/ \E used \in {0, 1, term.lines} : ClearAll(used)
  \/ ClearSome

(* The bound of the model: text that has left the scrollback stays selected,
   on ever smaller lines; it is followed for SelectionDepth lines. *)
SelectionWithinBound ==
  term'.sel # NoSelection =>
    -SelectionDepth <= Smaller(term'.sel.start.point.line, term'.sel.end.point.line)

Next == (UserStep \/ WindowStep \/ ProgramStep) /\ SelectionWithinBound

Spec == Init /\ [][Next]_term
-------------------------------------------------------------------------------
(* TypeOK: heights, offsets and modes keep their types, and the scrollback of
   either screen stays within its limit. *)
TypeOK ==
  /\ term.lines \in Heights /\ term.mode \subseteq {"VI", "ALT_SCREEN"} /\ term.vi \in Int
  /\ \A g \in {term.grid, term.inactive} :
       g.history \in 0..g.limit /\ g.offset \in 0..g.limit

(* OnScreen: "The normal cursor coordinates are always in viewport": whatever
   resizes, screen swaps, regions and saved cursors come together, the
   cursors of both screens are on lines that exist there, and the region is
   within the screen. *)
OnScreen ==
  /\ {term.grid.cursor, term.inactive.cursor} \subseteq ScreenLines
  /\ term.region.start <= term.region.end /\ term.region.end <= term.lines

ViInGrid(t) == t.vi \in GridLines(dims(t))

(* ViStaysInGrid: scrolling, clearing, resizing, resetting and motions keep
   the vi mode cursor on a line that exists.  Only swapping the screens and a
   smaller scrolling_history can leave it on one that does not.  (A display
   offset beyond the scrollback, left by scrolling a region, is excluded.) *)
ViStaysInGrid ==
  /\ ViInGrid(term)
  /\ term'.grid.offset <= term'.grid.history
  /\ ("ALT_SCREEN" \in term.mode) = ("ALT_SCREEN" \in term'.mode)
  /\ term'.grid.limit >= term.grid.limit
  => ViInGrid(term')

(* ViMovesWithContent: a change of height moves the vi mode cursor with the
   text, that is by as many lines as the cursor, and clamps it to the view. *)
ViMovesWithContent ==
  term'.lines # term.lines =>
    LET moved == term.vi + term'.grid.cursor - term.grid.cursor
        top   == -term'.grid.offset
    IN  term'.vi = Larger(top, Smaller(moved, top + term'.lines - 1))

(* ViFollowsText: in whatever order the program and the user move lines, the
   vi mode cursor stays in the grid, and with its text when the height changes. *)
ViFollowsText == [][ViStaysInGrid /\ ViMovesWithContent]_term

LinesOf(s) == Smaller(s.start.point.line, s.end.point.line)..Larger(s.start.point.line, s.end.point.line)

(* Where the text of a line goes, or NoSelection when it is discarded. *)
UpBy(l, top, bottom, n) ==
  IF l >= bottom \/ (l < top /\ top # 0) THEN l
  ELSE IF l - n >= top \/ top = 0 THEN l - n ELSE NoSelection
DownBy(l, top, bottom, n) ==
  IF l >= bottom \/ l < top THEN l ELSE IF l + n < bottom THEN l + n ELSE NoSelection

(* SelectionFollowsText: scrolling any region up, or down, never selects text
   that was not selected: a line that is selected afterwards holds text
   selected before, or is blank.  (Down, two cases are excluded: selections in
   the scrollback, which move though their text does not, and a start that is
   pushed out of the region and overtakes the end.) *)
SelectionFollowsText ==
  term.sel # NoSelection =>
    \A top \in ScreenLines : \A bottom \in (top + 1)..term.lines : \A n \in 1..(bottom - top) :
      LET first == Smaller(term.sel.start.point.line, term.sel.end.point.line)
          last  == Larger(term.sel.start.point.line, term.sel.end.point.line)
          old   == LinesOf(term.sel)
          up    == rotate(term.sel, dims(term), top, bottom, n)
          down  == rotate(term.sel, dims(term), top, bottom, -n)
          Overtakes == /\ first < bottom /\ bottom <= first + n /\ last < first + n
                       /\ (bottom <= last \/ bottom = term.lines)
          Kept(s, Move(_, _, _, _), blank) ==
            s # NoSelection => LinesOf(s) \subseteq {Move(l, top, bottom, n) : l \in old} \union blank
      IN  /\ Kept(up, UpBy, (bottom - n)..(bottom - 1))
          /\ old \subseteq ScreenLines /\ ~Overtakes => Kept(down, DownBy, top..(top + n - 1))

(* ViewportInv: the cursors, the region and the scrollback of both screens stay
   within the screen and the limits. *)
ViewportInv == TypeOK /\ OnScreen
===============================================================================
