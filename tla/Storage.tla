------------------------------- MODULE Storage -------------------------------
(***************************************************************************)
(* The ring buffer behind every grid (cutty_terminal/src/grid/storage.rs). *)
(*                                                                         *)
(* A storage is a record: `inner` is the allocated vector of rows, `zero`  *)
(* the slot that holds the bottommost line, `visible_lines` the height of  *)
(* the viewport and `len` the number of active lines (viewport and         *)
(* scrollback).  Slots past `len` are a cache of rows that keep whatever   *)
(* they held when they were cut off.  Lines are numbered as in the code:   *)
(* 0 is the top of the viewport, visible_lines - 1 its bottom, negative    *)
(* numbers are scrollback.                                                 *)
(*                                                                         *)
(* This module has no variables: each operator returns the storage that    *)
(* the method of the same name leaves behind.                              *)
(***************************************************************************)
EXTENDS Integers, Sequences

CONSTANTS Row,            \* what a row can hold
          NewRow,         \* what Row::new gives
          MAX_CACHE_SIZE  \* rows kept allocated beyond the active ones

ASSUME StorageAssumption ==
  /\ NewRow \in Row
  /\ MAX_CACHE_SIZE \in Nat

StorageType == [inner: Seq(Row), zero: Nat, visible_lines: Nat, len: Nat]

(* The allocated size, Vec::len of `inner`. *)
Cap(s) == Len(s.inner)

(* The viewport is part of the active lines, these fit in the allocated rows,
   and `zero` is a slot: what the comment in compute_index relies on ("both
   `self.zero` and `requested` are always smaller than `self.inner.len()`"). *)
IsWellFormed(s) ==
  /\ 1 <= s.visible_lines
  /\ s.visible_lines <= s.len
  /\ s.len <= Cap(s)
  /\ s.zero < Cap(s)

(* The storage with these fields. *)
MkStorage(inner, zero, visible_lines, len) ==
  [inner |-> inner, zero |-> zero, visible_lines |-> visible_lines, len |-> len]

NewRows(n) == [i \in 1..n |-> NewRow]

(* Storage::with_capacity: only the viewport is allocated. *)
with_capacity(lines) == MkStorage(NewRows(lines), 0, lines, lines)

(* Mutant of compute_index: the wrap-around is off by one. *)
compute_index_LateWrap(s, line) ==
  LET zeroed == s.zero + (s.visible_lines - line - 1)
  IN  IF zeroed > Cap(s) THEN zeroed - Cap(s) ELSE zeroed

(* Storage::compute_index: the slot of a line, with one conditional
   subtraction instead of a remainder. *)
compute_index(s, line) ==
  LET zeroed == s.zero + (s.visible_lines - line - 1)
  IN  IF zeroed >= Cap(s) THEN zeroed - Cap(s) ELSE zeroed

(* Index and IndexMut; slots are counted from 0, sequences from 1. *)
RowAt(s, line) == s.inner[compute_index(s, line) + 1]

SetRow(s, line, row) ==
  MkStorage([s.inner EXCEPT ![compute_index(s, line) + 1] = row], s.zero, s.visible_lines, s.len)

swap(s, a, b) == SetRow(SetRow(s, a, RowAt(s, b)), b, RowAt(s, a))

rotate(s, count) ==
  MkStorage(s.inner, (s.zero + count + Cap(s)) % Cap(s), s.visible_lines, s.len)

rotate_down(s, count) ==
  MkStorage(s.inner, (s.zero + count) % Cap(s), s.visible_lines, s.len)

(* The rows in the order slice::rotate_left(zero) leaves them in. *)
Unrolled(s) ==
  [i \in 1..Cap(s) |-> IF s.zero + i > Cap(s) THEN s.inner[s.zero + i - Cap(s)]
                                              ELSE s.inner[s.zero + i]]

rezero(s) ==
  IF s.zero = 0 THEN s ELSE MkStorage(Unrolled(s), 0, s.visible_lines, s.len)

(* Vec::truncate(len), which leaves a shorter vector alone. *)
truncate(s) ==
  LET z == rezero(s)
  IN  MkStorage(IF s.len < Cap(s) THEN SubSeq(z.inner, 1, s.len) ELSE z.inner,
              z.zero, s.visible_lines, s.len)

shrink_lines(s, shrinkage) ==
  LET t == MkStorage(s.inner, s.zero, s.visible_lines, s.len - shrinkage)
  IN  IF Cap(s) > t.len + MAX_CACHE_SIZE THEN truncate(t) ELSE t

(* Mutant of initialize: rows are appended without re-zeroing first. *)
initialize_NoRezero(s, additional) ==
  LET extra == IF additional > MAX_CACHE_SIZE THEN additional ELSE MAX_CACHE_SIZE
  IN  MkStorage(IF s.len + additional > Cap(s) THEN s.inner \o NewRows(extra) ELSE s.inner,
                s.zero, s.visible_lines, s.len + additional)

(* Storage::initialize: reuses cached rows as they are when there are
   enough of them, and allocates new ones otherwise. *)
initialize(s, additional) ==
  LET extra == IF additional > MAX_CACHE_SIZE THEN additional ELSE MAX_CACHE_SIZE
      z     == rezero(s)
  IN  IF s.len + additional > Cap(s)
        THEN MkStorage(z.inner \o NewRows(extra), z.zero, s.visible_lines, s.len + additional)
        ELSE MkStorage(s.inner, s.zero, s.visible_lines, s.len + additional)

grow_visible_lines(s, next) ==
  LET t == initialize(s, next - s.visible_lines)
  IN  MkStorage(t.inner, t.zero, next, t.len)

shrink_visible_lines(s, next) ==
  LET t == shrink_lines(s, s.visible_lines - next)
  IN  MkStorage(t.inner, t.zero, next, t.len)

(* Storage::take_all, the active rows, and Storage::replace_inner. *)
take_all(s)           == truncate(s).inner
replace_inner(s, vec) == MkStorage(vec, 0, s.visible_lines, Len(vec))
===============================================================================
