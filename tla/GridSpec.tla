------------------------------- MODULE GridSpec -------------------------------
(***************************************************************************)
(* A grid as the terminal uses it (term/mod.rs): one action per method of  *)
(* grid/mod.rs and grid/resize.rs that changes it, plus the cursor moves   *)
(* and row writes the terminal makes directly.                             *)
(***************************************************************************)
EXTENDS Grid

CONSTANTS Heights,  \* viewport heights a resize may ask for
          Limits,   \* scrollback limits: 0 for the alternate screen
          MaxRows,  \* bound: lines and scrollback limit of a grid together
          Templates \* rows that the template cells in use reset a row to

ASSUME GridAssumption ==
  /\ Heights \subseteq Nat \ {0} /\ Heights # {}
  /\ Limits \subseteq Nat /\ Limits # {}
  /\ MaxRows \in Nat
  /\ Templates \subseteq Row /\ NewRow \in Templates

VARIABLE grid

ViewLines == 0..(grid.lines - 1)

Init ==
  \E lines \in Heights, limit \in Limits : lines + limit <= MaxRows /\ grid = new(lines, limit)

(* Term::scroll_up_relative clamps to the region when it starts at the top;
   a region that starts at the cursor line may be asked for more. *)
ScrollUp(start, end, n) ==
  /\ start < end /\ (start = 0 => n <= end)
  /\ grid' = scroll_up(grid, start, end, n)

ScrollDown(start, end, n) ==
  /\ start < end /\ n <= end - start
  /\ grid' = scroll_down(grid, start, end, n)

ScrollDisplay(count) == grid' = scroll_display(grid, count)
UpdateHistory(limit) == grid.lines + limit <= MaxRows /\ grid' = update_history(grid, limit)
ClearViewport        == grid' = clear_viewport(grid)
ClearHistory         == grid' = clear_history(grid)
ResetGrid            == grid' = reset(grid)

ResetRegion(start, end) == start < end /\ grid' = reset_region(grid, start, end)

Resize(lines) == lines + grid.max_scroll_limit <= MaxRows /\ grid' = resize(grid, lines)

(* Writing through Term::input, Term::goto, setting a background, DECSC and
   DECRC. *)
WriteRow(row)    == grid' = [grid EXCEPT !.raw = SetRow(@, grid.cursor.line, row)]
Goto(line)       == grid' = [grid EXCEPT !.cursor.line = line]
SetTemplate(row) == grid' = [grid EXCEPT !.cursor.template = row]
SaveCursor       == grid' = [grid EXCEPT !.saved_cursor = grid.cursor]
RestoreCursor    == grid' = [grid EXCEPT !.cursor = grid.saved_cursor]

Next ==
  \/ \E start, end \in 0..grid.lines, n \in 1..grid.lines : ScrollUp(start, end, n)
  \/ \E start, end \in 0..grid.lines, n \in 1..grid.lines : ScrollDown(start, end, n)
  \/ \E count \in {-grid.lines, -1, 1, grid.lines} : ScrollDisplay(count)
  \/ \E limit \in Limits : UpdateHistory(limit)
  \/ ClearViewport
  \/ ClearHistory
  \/ ResetGrid
  \/ \E start, end \in 0..grid.lines : ResetRegion(start, end)
  \/ \E lines \in Heights : Resize(lines)
  \/ \E row \in Row : WriteRow(row)
  \/ \E line \in ViewLines : Goto(line)
  \/ \E row \in Templates : SetTemplate(row)
  \/ SaveCursor
  \/ RestoreCursor

Spec == Init /\ [][Next]_grid
-------------------------------------------------------------------------------
(* TypeOK: the fields of a grid keep their types, and its storage is one
   that every method of Storage may be called on. *)
TypeOK ==
  /\ grid.raw \in StorageType /\ IsWellFormed(grid.raw)
  /\ grid.lines \in Heights /\ grid.max_scroll_limit \in Limits
  /\ grid.display_offset \in Nat
  /\ \A c \in {grid.cursor, grid.saved_cursor} : c.line \in Nat /\ c.template \in Templates

(* HistoryWithinLimit: the scrollback never exceeds max_scroll_limit, so the
   unsigned subtraction in increase_scroll_limit cannot wrap, and the height
   kept by the grid is the one kept by its storage. *)
HistoryWithinLimit ==
  /\ history_size(grid) <= grid.max_scroll_limit
  /\ grid.lines = grid.raw.visible_lines

(* CursorsInViewport: no resize, in any order with cursor moves, saves and
   scrolls, leaves a cursor on a line that grid[cursor] cannot index. *)
CursorsInViewport == {grid.cursor.line, grid.saved_cursor.line} \subseteq ViewLines

(* RefinesScrollBuffer: rotating the ring buffer and swapping the fixed lines
   back, or swapping line by line, moves the same lines to the same places as
   a plain screen with a scrollback list; recycled rows never show up. *)
HistoryOf(g) == [i \in 1..history_size(g) |-> RowAt(g.raw, i - 1 - history_size(g))]
ScreenOf(g)  == [i \in 1..g.lines |-> RowAt(g.raw, i - 1)]
SB == INSTANCE ScrollBuffer
        WITH history <- HistoryOf(grid), screen <- ScreenOf(grid), limit <- grid.max_scroll_limit
RefinesScrollBuffer == SB!Spec

Regions == {r \in (0..(grid.lines - 1)) \X (1..grid.lines) : r[1] < r[2]}

(* OperationsMatch: in every reachable grid, both implementations of
   scroll_down (rotating when there is no scrollback, swapping otherwise),
   scroll_up, and growing or shrinking the viewport put exactly the lines of
   the plain buffer on the screen: blank lines have the cursor's background
   after a scroll and the default one after a resize. *)
OperationsMatch ==
  LET t == grid.cursor.template
  IN  /\ \A r \in Regions : \A n \in 1..(r[2] - r[1]) :
           /\ ScreenOf(scroll_down(grid, r[1], r[2], n)) = SB!ScrolledDown(r[1], r[2], n, t)
           /\ ScreenOf(scroll_up(grid, r[1], r[2], n)) = SB!ScrolledUp(r[1], r[2], n, t)
      /\ \A lines \in Heights :
           LET off == MaxOf(grid.cursor.line + 1 - lines, 0)
           IN  ScreenOf(resize(grid, lines)) =
                 IF lines >= grid.lines THEN SB!Grown(lines)
                                        ELSE SubSeq(ScreenOf(grid), off + 1, off + lines)

(* StaysStationary: while the user looks at the scrollback, lines scrolled
   off the top move the view along with them, so that every displayed line
   above the end of the scrolled region keeps showing the same row. *)
StaysStationary ==
  \A end \in 1..grid.lines : \A n \in 1..end :
    LET off == grid.display_offset
        up  == scroll_up(grid, 0, end, n)
    IN  off \in 1..history_size(grid) /\ off + n <= grid.max_scroll_limit
        => /\ up.display_offset <= history_size(up)
           /\ \A i \in 0..(grid.lines - 1) :
                i - off < end => RowAt(up.raw, i - up.display_offset) = RowAt(grid.raw, i - off)

(* GridInv: in any order of scrolls, limit changes, resizes and cursor moves
   the scrollback keeps to its limit, which scroll_up subtracts it from, and
   both cursors are on lines of the screen. *)
GridInv == TypeOK /\ HistoryWithinLimit /\ CursorsInViewport
===============================================================================
