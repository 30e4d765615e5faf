----------------------------- MODULE ScrollBuffer -----------------------------
(***************************************************************************)
(* What a terminal grid promises about its lines (grid/mod.rs and          *)
(* grid/resize.rs): a screen of lines and, above it, the newest `limit`    *)
(* lines that were scrolled off its top.  No ring buffer, no swaps, no     *)
(* cached rows: every operation says directly which lines are where        *)
(* afterwards.                                                             *)
(***************************************************************************)
EXTENDS Integers, Sequences

CONSTANTS Row, NewRow, Heights, Limits

VARIABLES history,  \* scrollback, oldest line first
          screen,   \* the viewport, topmost line first
          limit     \* how many scrollback lines are kept

vars == <<history, screen, limit>>

Height == Len(screen)

Blank(n, row) == [i \in 1..n |-> row]

Newest(s, n) == IF Len(s) <= n THEN s ELSE SubSeq(s, Len(s) - n + 1, Len(s))

Init ==
  /\ history = <<>>
  /\ \E n \in Heights : screen = Blank(n, NewRow)
  /\ limit \in Limits

(* The lines `from`..`to` of the screen, counted from 1, are replaced. *)
Patched(from, to, rows) ==
  SubSeq(screen, 1, from - 1) \o rows \o SubSeq(screen, to + 1, Height)

(* Lines start + 1..end move up by n, or down by n, and rows t fill the gap.
   Only a region that begins at the top feeds the scrollback. *)
Moved(start, end, n) == IF n > end - start THEN end - start ELSE n

ScrolledUp(start, end, n, t) ==
  LET k == Moved(start, end, n)
  IN  Patched(start + 1, end, SubSeq(screen, start + k + 1, end) \o Blank(k, t))

HistoryWith(n) == Newest(history \o SubSeq(screen, 1, n), limit)

ScrolledDown(start, end, n, t) ==
  LET k == Moved(start, end, n)
  IN  Patched(start + 1, end, Blank(k, t) \o SubSeq(screen, start + 1, end - k))

ScrollUp(start, end, n, t) ==
  /\ screen' = ScrolledUp(start, end, n, t)
  /\ history' = IF start = 0 THEN HistoryWith(Moved(start, end, n)) ELSE history
  /\ UNCHANGED limit

ScrollDown(start, end, n, t) ==
  /\ screen' = ScrolledDown(start, end, n, t)
  /\ UNCHANGED <<history, limit>>

(* The used lines move into the scrollback, the screen is cleared. *)
ClearViewport(t) ==
  LET used == {l \in 1..Height : screen[l] # NewRow}
      k    == IF used = {} THEN 0 ELSE CHOOSE l \in used : \A m \in used : m <= l
  IN  /\ history' = HistoryWith(k)
      /\ screen' = Blank(Height, t)
      /\ UNCHANGED limit

SetLimit(n) ==
  /\ limit' = n
  /\ history' = Newest(history, n)
  /\ UNCHANGED screen

Fill(from, to, t) ==
  /\ screen' = Patched(from, to, Blank(to - from + 1, t))
  /\ UNCHANGED <<history, limit>>

DropHistory ==
  /\ history' = <<>>
  /\ UNCHANGED <<screen, limit>>

Reset ==
  /\ history' = <<>>
  /\ screen' = Blank(Height, NewRow)
  /\ UNCHANGED limit

(* Growing takes lines back from the scrollback first, and adds empty ones
   at the bottom when there are none left. *)
Pulled(target) == IF target - Height > Len(history) THEN Len(history) ELSE target - Height

Grown(target) ==
  LET k == Pulled(target)
  IN  SubSeq(history, Len(history) - k + 1, Len(history)) \o screen
        \o Blank(target - Height - k, NewRow)

Grow(target) ==
  LET k == Pulled(target)
  IN  /\ target > Height
      /\ screen' = Grown(target)
      /\ history' = SubSeq(history, 1, Len(history) - k)
      /\ UNCHANGED limit

(* Shrinking scrolls n lines off the top, so that the cursor stays on the
   screen, and cuts the rest off the bottom. *)
Shrink(target, n) ==
  /\ target < Height
  /\ screen' = SubSeq(screen, n + 1, n + target)
  /\ history' = HistoryWith(n)
  /\ UNCHANGED limit

Next ==
  \/ \E start, end \in 0..Height, n \in 0..Height, t \in Row :
       start < end /\ (ScrollUp(start, end, n, t) \/ ScrollDown(start, end, n, t))
  \/ \E t \in Row : ClearViewport(t)
  \/ \E n \in Limits : SetLimit(n)
  \/ \E from, to \in 1..Height, t \in Row : from <= to /\ Fill(from, to, t)
  \/ DropHistory
  \/ Reset
  \/ \E target \in Heights : Grow(target)
  \/ \E target \in Heights : \E n \in 0..(Height - target) : Shrink(target, n)

Spec == Init /\ [][Next]_vars
===============================================================================
