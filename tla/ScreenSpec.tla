------------------------------ MODULE ScreenSpec ------------------------------
(***************************************************************************)
(* A screen that a program writes on and the renderer draws.               *)
(***************************************************************************)
EXTENDS Screen

CONSTANTS Widths,       \* widths of the characters that are written
          TabColumns,   \* columns at which tab stops are set
          MaxWide       \* bound on the cells of wide characters while damage is partial

(* Input of a zero-width character changes a cell and damages nothing, so that
   WritesAreDamaged is about the characters that take columns. *)
ASSUME ScreenSpecAssumption == Widths \subseteq {1, 2}

VARIABLE screen

Init == screen = new_screen

Counts == {1, Columns}

(* The step to s.  A dirty cell within the damage of its line stays so until
   the next frame, and need not be remembered. *)
Step(s) ==
  screen' = [s EXCEPT !.dirty = {p \in @ : ~InBounds(s.damage[p.line], p.column)}]

(* The renderer takes the damage and resets it under one lock. *)
Draw == Step(reset_damage(damage(screen)))

Input(width) == Step(input(screen, width))

Motion ==
  \/ \E p \in Cells : Step(goto(screen, p.line, p.column))
  \/ \E n \in Counts : Step(move_forward(screen, n)) \/ Step(move_backward(screen, n))
  \/ Step(backspace(screen)) \/ Step(carriage_return(screen))
  \/ Step(linefeed(screen)) \/ Step(reverse_index(screen))

Tabs ==
  \/ Step(put_tab(screen)) \/ Step(move_forward_tabs(screen)) \/ Step(move_backward_tabs(screen))
  \/ screen.cursor.column \in TabColumns /\ Step(set_horizontal_tabstop(screen))
  \/ Step(clear_tab(screen)) \/ Step(clear_all_tabs(screen))

Scroll ==
  \/ \E n \in {1, Lines} :
       \/ Step(scroll_up_relative(screen, 0, n)) \/ Step(scroll_down_relative(screen, 0, n))
       \/ Step(insert_blank_lines(screen, n)) \/ Step(delete_lines(screen, n))
  \/ \E mode \in {"Above", "Below", "All"} : Step(clear_screen(screen, mode))
  \/ Step(decaln(screen)) \/ Step(reset_state(screen))

Edit ==
  \/ \E n \in Counts : \/ Step(insert_blank(screen, n)) \/ Step(erase_chars(screen, n))
                        \/ Step(delete_chars(screen, n))
  \/ \E mode \in {"Left", "Right", "All"} : Step(clear_line(screen, mode))

Modes ==
  \/ "INSERT" \in screen.mode /\ Step(leave_insert_mode(screen))
  \/ "INSERT" \notin screen.mode /\ Step(enter_insert_mode(screen))
  \/ Step(toggle_line_wrap(screen))

Restore == \E p \in {Point(0, 0), Point(Lines - 1, Last)} : Step(restore_cursor_position(screen, p, FALSE))

(* The bound of the model: wide characters are few, and none while the tab
   stops are not those of a new screen. *)
FewWide ==
  ~AllDamaged(screen') =>
    Cardinality({p \in Cells : screen'.cells[p] # "plain"}) <= IF screen'.tabs = new_screen.tabs THEN MaxWide ELSE 0

Next ==
  /\ \/ Draw
     \/ \E width \in Widths : Input(width)
     \/ Motion \/ Tabs \/ Scroll \/ Edit \/ Modes \/ Restore
  /\ FewWide

Spec == Init /\ [][Next]_screen
-------------------------------------------------------------------------------
(* TypeOK: the cursor stays in the grid, so that no cell, tab stop or line of
   the damage is indexed out of bounds. *)
TypeOK ==
  /\ {screen.cursor, screen.last} \subseteq Cells
  /\ screen.cells \in [Cells -> {"plain", "wide", "spacer", "leading"}]
  /\ screen.tabs \subseteq 0..Last

(* WritesAreDamaged: however writes, motions, wraps and draws interleave, a
   cell written since the last frame is in the damage of the next: input
   records nothing by itself, it relies on every motion noting the columns it
   passes and on the cursors of the two frames. *)
WritesAreDamaged == screen.dirty \subseteq Damaged(screen)

(* Each half of a wide character has the other. *)
Paired(cells) ==
  \A p \in Cells :
    /\ cells[p] = "wide" => p.column < Last /\ cells[Point(p.line, p.column + 1)] = "spacer"
    /\ cells[p] = "spacer" => p.column > 0 /\ cells[Point(p.line, p.column - 1)] = "wide"

(* InputKeepsPairs: outside insert mode, input never leaves half of a wide
   character, whatever it overwrites and wherever it wraps. *)
InputKeepsPairs ==
  [][/\ \E width \in Widths : Input(width)
     /\ "INSERT" \notin screen.mode
     /\ Paired(screen.cells)
     => Paired(screen'.cells)]_screen

(* ScreenInv: the cursor stays in the grid, and every cell written since the
   last frame is in the damage of the next. *)
ScreenInv == TypeOK /\ WritesAreDamaged
===============================================================================
