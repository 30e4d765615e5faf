----------------------------- MODULE StorageSpec -----------------------------
(***************************************************************************)
(* The storage as a state machine: one action per method the grid calls    *)
(* (grid/storage.rs, called from grid/mod.rs and grid/resize.rs), each     *)
(* guarded by what its debug assertions and callers guarantee.             *)
(***************************************************************************)
EXTENDS Storage, SequencesExt

CONSTANTS MaxLen   \* bound on the number of active lines

ASSUME MaxLenAssumption == MaxLen \in Nat \ {0}

VARIABLES st

Lines == (st.visible_lines - st.len)..(st.visible_lines - 1)

StorageInit == \E lines \in 1..MaxLen : st = with_capacity(lines)

Write(line, row) == st' = SetRow(st, line, row)
Swap(a, b)       == st' = swap(st, a, b)
Rotate(count)    == st' = rotate(st, count)
RotateDown(n)    == st' = rotate_down(st, n)

(* Grid::increase_scroll_limit and Grid::initialize_all. *)
Initialize(n) == st.len + n <= MaxLen /\ st' = initialize(st, n)

GrowVisibleLines(next) ==
  /\ st.visible_lines < next
  /\ st.len + (next - st.visible_lines) <= MaxLen
  /\ st' = grow_visible_lines(st, next)

ShrinkVisibleLines(next) ==
  /\ next < st.visible_lines
  /\ st' = shrink_visible_lines(st, next)

(* Grid::decrease_scroll_limit, update_history and clear_history: only
   scrollback lines are dropped. *)
ShrinkLines(n) ==
  /\ n <= st.len - st.visible_lines
  /\ st' = shrink_lines(st, n)

Truncate == st' = truncate(st)

(* A column resize takes all rows out and puts them back merged (a wrapped
   line joins the one above it) or split, one line at a time here; the
   result never has fewer rows than the viewport. *)
MergeRow(i) ==
  /\ st.len > st.visible_lines
  /\ st' = replace_inner(st, RemoveAt(take_all(st), i))

SplitRow(i, row) ==
  /\ st.len < MaxLen
  /\ st' = replace_inner(st, InsertAt(take_all(st), i, row))

StorageNext ==
  \/ \E line \in Lines, row \in Row : Write(line, row)
  \/ \E a, b \in Lines : Swap(a, b)
  \/ \E count \in (-Cap(st))..Cap(st) : Rotate(count)
  \/ \E n \in 0..Cap(st) : RotateDown(n)
  \/ \E n \in 1..MaxLen : Initialize(n)
  \/ \E next \in 1..MaxLen : GrowVisibleLines(next)
  \/ \E next \in 1..MaxLen : ShrinkVisibleLines(next)
  \/ \E n \in 1..MaxLen : ShrinkLines(n)
  \/ Truncate
  \/ \E i \in 1..st.len : MergeRow(i)
  \/ \E i \in 1..(st.len + 1), row \in Row : SplitRow(i, row)

StorageSpec == StorageInit /\ [][StorageNext]_st
-------------------------------------------------------------------------------
(* StorageTypeOK: the fields of Storage keep their types. *)
StorageTypeOK == st \in StorageType

(* WellFormed: after any sequence of rotations, reallocations, truncations
   and rebuilds the viewport lies within the active lines, these within the
   allocated rows, and `zero` is a slot. *)
WellFormed == IsWellFormed(st)

(* SlotsDistinct: whatever sequence of rotations, reallocations and
   truncations came before, every active line has a slot inside `inner` and
   no two lines share one. *)
SlotsDistinct ==
  /\ \A line \in Lines : compute_index(st, line) \in 0..(Cap(st) - 1)
  /\ \A a, b \in Lines : a # b => compute_index(st, a) # compute_index(st, b)

(* RefinesLineVec: moving only the `zero` offset, and re-zeroing before each
   reallocation, is indistinguishable from a vector that is rotated in memory. *)
LV == INSTANCE LineVec
        WITH vec <- Unrolled(st), len <- st.len, visible <- st.visible_lines, MaxCap <- MaxLen
RefinesLineVec == LV!Spec

(* StorageInv: no sequence of rotations, reallocations and truncations leaves
   a line without a slot of its own inside the allocated rows. *)
StorageInv == StorageTypeOK /\ WellFormed /\ SlotsDistinct
===============================================================================
