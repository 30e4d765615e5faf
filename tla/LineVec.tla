------------------------------- MODULE LineVec -------------------------------
(***************************************************************************)
(* What a grid's storage promises (grid/storage.rs): a plain vector of     *)
(* rows, bottommost line first, whose rotation really moves the rows, as   *)
(* slice::rotate_left does.  The first `len` rows are the active lines,    *)
(* line l being entry visible - l of the vector; the rows after them are   *)
(* kept allocated.                                                         *)
(***************************************************************************)
EXTENDS Integers, SequencesExt

CONSTANTS Row, NewRow, MAX_CACHE_SIZE, MaxCap

VARIABLES vec,      \* all allocated rows, bottommost line first
          len,      \* number of active lines
          visible   \* height of the viewport

vars == <<vec, len, visible>>

NewRows(n) == [i \in 1..n |-> NewRow]

(* Cyclic shift of the whole vector by k entries towards its start. *)
RotatedLeft(k) ==
  [i \in 1..Len(vec) |-> IF i + k > Len(vec) THEN vec[i + k - Len(vec)] ELSE vec[i + k]]

Lines == (visible - len)..(visible - 1)

Init == \E n \in 1..MaxCap : vec = NewRows(n) /\ len = n /\ visible = n

Write(line, row) ==
  /\ vec' = [vec EXCEPT ![visible - line] = row]
  /\ UNCHANGED <<len, visible>>

Swap(a, b) ==
  /\ vec' = [vec EXCEPT ![visible - a] = vec[visible - b], ![visible - b] = vec[visible - a]]
  /\ UNCHANGED <<len, visible>>

(* Rotation by k entries to the left; by a negative count, to the right. *)
Rotate(k) ==
  /\ vec' = RotatedLeft(IF k < 0 THEN k + Len(vec) ELSE k)
  /\ UNCHANGED <<len, visible>>

(* Growing to n active lines: missing rows are allocated, cached ones come
   back as they are.  The new lines join the viewport or the scrollback. *)
Grow(n) ==
  /\ n >= len
  /\ vec' = IF n > Len(vec)
              THEN vec \o NewRows(IF n - len > MAX_CACHE_SIZE THEN n - len ELSE MAX_CACHE_SIZE)
              ELSE vec
  /\ len' = n
  /\ visible' \in {visible, visible + (n - len)}

(* Shrinking to n active lines: rows are given back only when more than the
   cache allows are left over. *)
Shrink(n) ==
  /\ n <= len
  /\ vec' = IF Len(vec) > n + MAX_CACHE_SIZE THEN SubSeq(vec, 1, n) ELSE vec
  /\ len' = n
  /\ visible' \in {visible, visible - (len - n)}

(* Trimming the allocation to the active lines. *)
Truncate ==
  /\ vec' = SubSeq(vec, 1, len)
  /\ UNCHANGED <<len, visible>>

(* One step of rebuilding the active lines: a line is merged into its
   neighbour, or a line is split off. *)
Rebuild(rows) ==
  /\ vec' = rows
  /\ len' = Len(rows)
  /\ UNCHANGED visible

Active == SubSeq(vec, 1, len)

Next ==
  \/ \E line \in Lines, row \in Row : Write(line, row)
  \/ \E a, b \in Lines : Swap(a, b)
  \/ \E k \in (-Len(vec))..Len(vec) : Rotate(k)
  \/ \E n \in 0..MaxCap : Grow(n) \/ Shrink(n)
  \/ Truncate
  \/ \E i \in 1..len : Rebuild(RemoveAt(Active, i))
  \/ \E i \in 1..(len + 1), row \in Row : Rebuild(InsertAt(Active, i, row))

Spec == Init /\ [][Next]_vars
===============================================================================
