----------------------------- MODULE GridProofs -----------------------------
(***************************************************************************)
(* Proofs about the ring buffer and the grid on it, for every set of       *)
(* heights, scrollback limits, cache sizes, rows and templates.  First the *)
(* buffer: its well-formedness is inductive, every active line has its own *)
(* slot, and it implements a vector that is rotated in memory.  Then what  *)
(* each method of grid/mod.rs and grid/resize.rs does to the lines, the    *)
(* invariant that holds in every order of them, and that the grid          *)
(* implements a plain screen with a scrollback list.                       *)
(*                                                                         *)
(* The loops of swaps and resets are proved round by round (EveryRound: a  *)
(* first round that fails does not exist), on top of what is shown about   *)
(* one access to the ring buffer.  The variable `st` of StorageSpec plays  *)
(* no part in the proofs about the grid.                                   *)
(***************************************************************************)
EXTENDS GridSpec, StorageSpec, WellFoundedInduction, TLAPS

(* The storages every method may be called on. *)
Good == {s \in StorageType : IsWellFormed(s)}

(* A remainder by the allocated size is at most two subtractions when the
   dividend is below three times that size (rotate and rotate_down). *)
LEMMA ModSmall ==
  ASSUME NEW n \in Nat, n > 0, NEW x \in Int, 0 <= x, x < 3 * n
  PROVE  x % n = IF x >= 2 * n THEN x - 2 * n ELSE IF x >= n THEN x - n ELSE x
  BY Z3

(* The constructor gives back its fields, and is well-formed when they are. *)
LEMMA MkStorageFields ==
  ASSUME NEW inner, NEW zero, NEW v, NEW len
  PROVE  /\ MkStorage(inner, zero, v, len).inner = inner
         /\ MkStorage(inner, zero, v, len).zero = zero
         /\ MkStorage(inner, zero, v, len).visible_lines = v
         /\ MkStorage(inner, zero, v, len).len = len
         /\ Cap(MkStorage(inner, zero, v, len)) = Len(inner)
  BY DEF MkStorage, Cap

LEMMA MkStorageGood ==
  ASSUME NEW inner \in Seq(Row), NEW zero \in Nat, NEW v \in Nat, NEW len \in Nat,
         1 <= v, v <= len, len <= Len(inner), zero < Len(inner)
  PROVE  MkStorage(inner, zero, v, len) \in Good
  BY DEF MkStorage, Cap, Good, StorageType, IsWellFormed

(* The fields of a well-formed storage. *)
LEMMA GoodFields ==
  ASSUME NEW s \in Good
  PROVE  /\ s.inner \in Seq(Row) /\ s.zero \in Nat /\ s.visible_lines \in Nat /\ s.len \in Nat
         /\ Cap(s) \in Nat /\ Cap(s) = Len(s.inner) /\ Cap(s) > 0
         /\ 1 <= s.visible_lines /\ s.visible_lines <= s.len /\ s.len <= Cap(s)
         /\ s.zero < Cap(s)
         /\ s = MkStorage(s.inner, s.zero, s.visible_lines, s.len)
  BY DEF MkStorage, Cap, Good, StorageType, IsWellFormed

(* The numbers alone, for arithmetic. *)
LEMMA GoodNums ==
  ASSUME NEW s \in Good
  PROVE  /\ s.zero \in Nat /\ s.visible_lines \in Nat /\ s.len \in Nat /\ Cap(s) \in Nat
         /\ Cap(s) > 0 /\ 1 <= s.visible_lines /\ s.visible_lines <= s.len /\ s.len <= Cap(s)
         /\ s.zero < Cap(s)
  BY GoodFields

(* The unrolled buffer is a sequence of all the allocated rows. *)
LEMMA UnrolledSeq ==
  ASSUME NEW s \in Good
  PROVE  /\ Unrolled(s) \in Seq(Row)
         /\ Len(Unrolled(s)) = Cap(s)
         /\ s.zero = 0 => Unrolled(s) = s.inner
  <1> USE GoodFields
  <1>1. ASSUME NEW i \in 1..Cap(s)
        PROVE  (IF s.zero + i > Cap(s) THEN s.inner[s.zero + i - Cap(s)]
                                       ELSE s.inner[s.zero + i]) \in Row
    <2>1. CASE s.zero + i > Cap(s)
      <3>1. s.zero + i - Cap(s) \in 1..Len(s.inner) BY <2>1
      <3>2. QED BY <3>1, <2>1
    <2>2. CASE ~(s.zero + i > Cap(s))
      <3>1. s.zero + i \in 1..Len(s.inner) BY <2>2
      <3>2. QED BY <3>1, <2>2
    <2>3. QED BY <2>1, <2>2
  <1>2. Unrolled(s) \in [1..Cap(s) -> Row]
    BY <1>1 DEF Unrolled
  <1>3. Unrolled(s) \in Seq(Row) /\ Len(Unrolled(s)) = Cap(s)
    BY <1>2
  <1>4. ASSUME s.zero = 0 PROVE Unrolled(s) = s.inner
    <2>1. \A i \in 1..Cap(s) : Unrolled(s)[i] = s.inner[i]
      BY <1>4 DEF Unrolled
    <2>2. QED BY <2>1, <1>3
  <1>5. QED BY <1>3, <1>4

(* Rezero keeps the rows, in order, and every other field. *)
LEMMA RezeroGood ==
  ASSUME NEW s \in Good
  PROVE  /\ rezero(s) \in Good
         /\ rezero(s).zero = 0
         /\ rezero(s).len = s.len
         /\ rezero(s).visible_lines = s.visible_lines
         /\ rezero(s).inner = Unrolled(s)
         /\ Cap(rezero(s)) = Cap(s)
  <1>1. CASE s.zero = 0
    BY <1>1, UnrolledSeq DEF rezero
  <1>2. CASE s.zero # 0
    <2>1. rezero(s) = MkStorage(Unrolled(s), 0, s.visible_lines, s.len)
      BY <1>2 DEF rezero
    <2>2. rezero(s) \in Good
      BY <2>1, MkStorageGood, GoodFields, UnrolledSeq
    <2>3. QED BY <2>1, <2>2, MkStorageFields, UnrolledSeq
  <1>3. QED BY <1>1, <1>2

-------------------------------------------------------------------------------
(* Slots: where entry i of the unrolled buffer lives in `inner`. *)
Slot(s, i) == IF s.zero + i > Cap(s) THEN s.zero + i - Cap(s) ELSE s.zero + i

LinesOf(s) == (s.visible_lines - s.len)..(s.visible_lines - 1)

(* compute_index is in range and is the slot of the line's entry. *)
LEMMA SlotOfLine ==
  ASSUME NEW s \in Good, NEW line \in LinesOf(s)
  PROVE  /\ s.visible_lines - line \in 1..s.len
         /\ s.visible_lines - line \in 1..Cap(s)
         /\ compute_index(s, line) \in 0..(Cap(s) - 1)
         /\ compute_index(s, line) + 1 = Slot(s, s.visible_lines - line)
  <1>1. s.visible_lines - line \in 1..s.len /\ s.visible_lines - line \in 1..Cap(s) /\ line \in Int
    BY GoodNums DEF LinesOf
  <1>2. compute_index(s, line) + 1 = Slot(s, s.visible_lines - line)
    BY <1>1, GoodNums DEF compute_index, Slot
  <1>3. Slot(s, s.visible_lines - line) \in 1..Cap(s)
    BY <1>1, GoodNums DEF Slot
  <1>4. compute_index(s, line) \in 0..(Cap(s) - 1)
    BY <1>1, <1>3, GoodNums DEF compute_index, Slot
  <1>5. QED BY <1>1, <1>2, <1>4

(* Slots are in range, pairwise distinct, and hold the unrolled entries. *)
LEMMA Slots ==
  ASSUME NEW s \in Good
  PROVE  /\ \A i \in 1..Cap(s) : Slot(s, i) \in 1..Cap(s)
         /\ \A i, j \in 1..Cap(s) : i # j => Slot(s, i) # Slot(s, j)
         /\ \A i \in 1..Cap(s) : Unrolled(s)[i] = s.inner[Slot(s, i)]
  <1>1. \A i \in 1..Cap(s) : Slot(s, i) \in 1..Cap(s)
    BY GoodNums DEF Slot
  <1>2. \A i, j \in 1..Cap(s) : i # j => Slot(s, i) # Slot(s, j)
    BY GoodNums DEF Slot
  <1>3. \A i \in 1..Cap(s) : Unrolled(s)[i] = s.inner[Slot(s, i)]
    BY GoodFields DEF Slot, Unrolled
  <1>4. QED BY <1>1, <1>2, <1>3

(* IndexMut: writing a line changes that entry of the vector and no other. *)
LEMMA SetRowProps ==
  ASSUME NEW s \in Good, NEW line \in LinesOf(s), NEW row \in Row
  PROVE  /\ SetRow(s, line, row) \in Good
         /\ SetRow(s, line, row).len = s.len
         /\ SetRow(s, line, row).visible_lines = s.visible_lines
         /\ SetRow(s, line, row).zero = s.zero
         /\ Cap(SetRow(s, line, row)) = Cap(s)
         /\ Unrolled(SetRow(s, line, row)) = [Unrolled(s) EXCEPT ![s.visible_lines - line] = row]
  <1> DEFINE k == s.visible_lines - line
             r == SetRow(s, line, row)
             inn == [s.inner EXCEPT ![compute_index(s, line) + 1] = row]
  <1>1. k \in 1..Cap(s) /\ compute_index(s, line) + 1 = Slot(s, k) /\ Slot(s, k) \in 1..Cap(s)
    BY SlotOfLine, Slots
  <1>2. inn \in Seq(Row) /\ Len(inn) = Cap(s)
    BY <1>1, GoodFields
  <1>3. r = MkStorage(inn, s.zero, s.visible_lines, s.len)
    BY DEF SetRow
  <1> HIDE DEF r, inn, k
  <1>4. r \in Good
    BY <1>2, <1>3, GoodFields, MkStorageGood
  <1>5. /\ r.inner = inn /\ r.zero = s.zero /\ r.visible_lines = s.visible_lines
        /\ r.len = s.len /\ Cap(r) = Cap(s)
    BY <1>2, <1>3, MkStorageFields
  <1>6. \A i \in 1..Cap(s) : Slot(r, i) = Slot(s, i)
    BY <1>5 DEF Slot
  <1>7. ASSUME NEW i \in 1..Cap(s)
        PROVE  Unrolled(r)[i] = [Unrolled(s) EXCEPT ![k] = row][i]
    <2>1. Unrolled(r)[i] = inn[Slot(s, i)]
      BY <1>4, <1>5, <1>6, <1>7, Slots
    <2>2. Slot(s, i) \in 1..Len(s.inner)
      BY <1>7, Slots, GoodFields
    <2>3. CASE i = k
      <3>1. inn[Slot(s, i)] = row BY <2>2, <2>3, <1>1, GoodFields DEF inn
      <3>2. QED BY <2>1, <2>3, <3>1, <1>1, UnrolledSeq, GoodFields
    <2>4. CASE i # k
      <3>1. Slot(s, i) # Slot(s, k) BY <2>4, <1>1, <1>7, Slots
      <3>2. inn[Slot(s, i)] = s.inner[Slot(s, i)] BY <3>1, <2>2, <1>1, GoodFields DEF inn
      <3>3. QED BY <2>1, <2>4, <3>2, <1>1, <1>7, UnrolledSeq, Slots, GoodFields
    <2>5. QED BY <2>3, <2>4
  <1>8. Unrolled(r) = [Unrolled(s) EXCEPT ![k] = row]
    BY <1>7, <1>1, <1>4, <1>5, UnrolledSeq, GoodFields
  <1>9. QED BY <1>4, <1>5, <1>8 DEF k, r

(* RowAt reads the line's entry of the vector. *)
LEMMA RowAtProps ==
  ASSUME NEW s \in Good, NEW line \in LinesOf(s)
  PROVE  /\ RowAt(s, line) = Unrolled(s)[s.visible_lines - line]
         /\ RowAt(s, line) \in Row
  <1>1. /\ s.visible_lines - line \in 1..Cap(s)
        /\ compute_index(s, line) + 1 = Slot(s, s.visible_lines - line)
    BY SlotOfLine
  <1>2. RowAt(s, line) = Unrolled(s)[s.visible_lines - line]
    BY <1>1, Slots DEF RowAt
  <1>3. QED BY <1>1, <1>2, UnrolledSeq, GoodFields

LEMMA SwapProps ==
  ASSUME NEW s \in Good, NEW a \in LinesOf(s), NEW b \in LinesOf(s)
  PROVE  /\ swap(s, a, b) \in Good
         /\ swap(s, a, b).len = s.len
         /\ swap(s, a, b).visible_lines = s.visible_lines
         /\ Unrolled(swap(s, a, b)) =
              [Unrolled(s) EXCEPT ![s.visible_lines - a] = Unrolled(s)[s.visible_lines - b],
                                  ![s.visible_lines - b] = Unrolled(s)[s.visible_lines - a]]
  <1> DEFINE t == SetRow(s, a, RowAt(s, b))
  <1>1. /\ t \in Good /\ t.len = s.len /\ t.visible_lines = s.visible_lines
        /\ Unrolled(t) = [Unrolled(s) EXCEPT ![s.visible_lines - a] = RowAt(s, b)]
    BY SetRowProps, RowAtProps
  <1>2. swap(s, a, b) = SetRow(t, b, RowAt(s, a))
    BY DEF swap
  <1> HIDE DEF t
  <1>3. b \in LinesOf(t) BY <1>1 DEF LinesOf
  <1>4. /\ swap(s, a, b) \in Good /\ swap(s, a, b).len = s.len
        /\ swap(s, a, b).visible_lines = s.visible_lines
        /\ Unrolled(swap(s, a, b)) = [Unrolled(t) EXCEPT ![s.visible_lines - b] = RowAt(s, a)]
    BY <1>1, <1>2, <1>3, SetRowProps, RowAtProps
  <1>5. QED BY <1>1, <1>4, RowAtProps

(* Rotation moves only `zero`; the vector seen through it is shifted. *)
LEMMA RotateProps ==
  ASSUME NEW s \in Good, NEW c \in (-Cap(s))..Cap(s)
  PROVE  /\ rotate(s, c) \in Good
         /\ rotate(s, c).len = s.len
         /\ rotate(s, c).visible_lines = s.visible_lines
         /\ Cap(rotate(s, c)) = Cap(s)
         /\ Unrolled(rotate(s, c)) =
              LET k == IF c < 0 THEN c + Cap(s) ELSE c
              IN  [i \in 1..Cap(s) |-> IF i + k > Cap(s) THEN Unrolled(s)[i + k - Cap(s)]
                                                         ELSE Unrolled(s)[i + k]]
  <1> DEFINE r == rotate(s, c)
             z == (s.zero + c + Cap(s)) % Cap(s)
             k == IF c < 0 THEN c + Cap(s) ELSE c
             x == s.zero + c + Cap(s)
  <1>0. x \in Int /\ 0 <= x /\ x < 3 * Cap(s) /\ Cap(s) \in Nat /\ Cap(s) > 0
    BY GoodNums
  <1>1. z = IF x >= 2 * Cap(s) THEN x - 2 * Cap(s) ELSE IF x >= Cap(s) THEN x - Cap(s) ELSE x
    <2> HIDE DEF x
    <2>1. x % Cap(s) = IF x >= 2 * Cap(s) THEN x - 2 * Cap(s) ELSE IF x >= Cap(s) THEN x - Cap(s) ELSE x
      BY <1>0, ModSmall
    <2>2. QED BY <2>1 DEF x
  <1>2. z \in Nat /\ z < Cap(s) /\ k \in 0..Cap(s)
        /\ z = IF s.zero + k >= Cap(s) THEN s.zero + k - Cap(s) ELSE s.zero + k
    <2> HIDE DEF z
    <2>1. c \in Int /\ -Cap(s) <= c /\ c <= Cap(s) BY GoodNums
    <2>2. QED BY <1>1, <2>1, GoodNums
  <1>3. r = MkStorage(s.inner, z, s.visible_lines, s.len)
    BY DEF rotate
  <1> HIDE DEF r, z, k, x
  <1>4. r \in Good
    BY <1>2, <1>3, GoodFields, MkStorageGood
  <1>5. /\ r.inner = s.inner /\ r.zero = z /\ r.visible_lines = s.visible_lines
        /\ r.len = s.len /\ Cap(r) = Cap(s)
    BY <1>3, MkStorageFields, GoodFields
  <1>6. ASSUME NEW i \in 1..Cap(s)
        PROVE  Unrolled(r)[i] = IF i + k > Cap(s) THEN Unrolled(s)[i + k - Cap(s)]
                                                  ELSE Unrolled(s)[i + k]
    <2>1. Unrolled(r)[i] = s.inner[Slot(r, i)]
      BY <1>4, <1>5, Slots
    <2>2. CASE i + k > Cap(s)
      <3>1. i + k - Cap(s) \in 1..Cap(s) BY <2>2, <1>2, GoodNums
      <3>2. Slot(s, i + k - Cap(s)) = Slot(r, i) BY <2>2, <1>2, <1>5, GoodNums DEF Slot, k
      <3>3. QED BY <2>1, <2>2, <3>1, <3>2, Slots
    <2>3. CASE ~(i + k > Cap(s))
      <3>1. i + k \in 1..Cap(s) BY <2>3, <1>2, GoodNums
      <3>2. Slot(s, i + k) = Slot(r, i) BY <2>3, <1>2, <1>5, GoodNums DEF Slot, k
      <3>3. QED BY <2>1, <2>3, <3>1, <3>2, Slots
    <2>4. QED BY <2>2, <2>3
  <1>7. Unrolled(r) = [i \in 1..Cap(s) |-> IF i + k > Cap(s) THEN Unrolled(s)[i + k - Cap(s)]
                                                            ELSE Unrolled(s)[i + k]]
    <2>1. Unrolled(r) = [i \in 1..Cap(s) |-> Unrolled(r)[i]]
      BY <1>5 DEF Unrolled
    <2>2. QED BY <2>1, <1>6
  <1>8. QED BY <1>4, <1>5, <1>7 DEF r, k

(* rotate_down is rotation by a non-negative count. *)
LEMMA RotateDownIsRotate ==
  ASSUME NEW s \in Good, NEW c \in 0..Cap(s)
  PROVE  rotate_down(s, c) = rotate(s, c)
  <1> DEFINE x == s.zero + c
             y == s.zero + c + Cap(s)
  <1>1. /\ x \in Int /\ 0 <= x /\ x < 3 * Cap(s) /\ Cap(s) \in Nat /\ Cap(s) > 0
        /\ y \in Int /\ 0 <= y /\ y < 3 * Cap(s) /\ y = x + Cap(s)
        /\ x < 2 * Cap(s)
    BY GoodNums
  <1> HIDE DEF x, y
  <1>2. /\ x % Cap(s) = IF x >= 2 * Cap(s) THEN x - 2 * Cap(s) ELSE IF x >= Cap(s) THEN x - Cap(s) ELSE x
        /\ y % Cap(s) = IF y >= 2 * Cap(s) THEN y - 2 * Cap(s) ELSE IF y >= Cap(s) THEN y - Cap(s) ELSE y
    BY <1>1, ModSmall
  <1>3. x % Cap(s) = y % Cap(s)
    BY <1>1, <1>2
  <1>4. QED BY <1>3 DEF rotate, rotate_down, x, y

(* A vector whose `zero` is 0 is its own unrolling. *)
LEMMA UnrolledOfFlat ==
  ASSUME NEW inner \in Seq(Row), NEW v \in Nat, NEW len \in Nat,
         1 <= v, v <= len, len <= Len(inner)
  PROVE  /\ MkStorage(inner, 0, v, len) \in Good
         /\ Unrolled(MkStorage(inner, 0, v, len)) = inner
  <1>1. MkStorage(inner, 0, v, len) \in Good
    BY MkStorageGood
  <1>2. QED BY <1>1, UnrolledSeq, MkStorageFields

(* The unrolling depends on the rows and on `zero` only. *)
LEMMA UnrolledOfFields ==
  ASSUME NEW s \in Good, NEW v, NEW len
  PROVE  Unrolled(MkStorage(s.inner, s.zero, v, len)) = Unrolled(s)
  BY MkStorageFields DEF Unrolled, Cap

(* A prefix of the unrolled rows. *)
LEMMA PrefixSeq ==
  ASSUME NEW vec \in Seq(Row), NEW n \in Nat, n <= Len(vec)
  PROVE  SubSeq(vec, 1, n) \in Seq(Row) /\ Len(SubSeq(vec, 1, n)) = n
  OBVIOUS

LEMMA TruncateProps ==
  ASSUME NEW s \in Good
  PROVE  /\ truncate(s) \in Good
         /\ truncate(s) = MkStorage(SubSeq(Unrolled(s), 1, s.len), 0, s.visible_lines, s.len)
         /\ Unrolled(truncate(s)) = SubSeq(Unrolled(s), 1, s.len)
  <1> DEFINE pre == SubSeq(Unrolled(s), 1, s.len)
  <1>1. pre \in Seq(Row) /\ Len(pre) = s.len
    BY UnrolledSeq, PrefixSeq, GoodNums
  <1>2. ASSUME ~(s.len < Cap(s)) PROVE Unrolled(s) = pre
    <2>1. s.len = Len(Unrolled(s)) BY <1>2, UnrolledSeq, GoodNums
    <2>2. QED BY <2>1, UnrolledSeq
  <1>3. truncate(s) = MkStorage(pre, 0, s.visible_lines, s.len)
    <2>1. truncate(s) = MkStorage(IF s.len < Cap(s) THEN pre ELSE Unrolled(s), 0,
                                  s.visible_lines, s.len)
      BY RezeroGood DEF truncate
    <2>2. QED BY <2>1, <1>2
  <1> HIDE DEF pre
  <1>4. truncate(s) \in Good /\ Unrolled(truncate(s)) = pre
    BY <1>1, <1>3, UnrolledOfFlat, GoodNums
  <1>5. QED BY <1>3, <1>4 DEF pre

LEMMA ShrinkLinesProps ==
  ASSUME NEW s \in Good, NEW n \in Nat, NEW v \in Nat, 1 <= v, v <= s.len - n
  PROVE  LET t == shrink_lines(s, n)
             r == MkStorage(t.inner, t.zero, v, t.len)
         IN  /\ r \in Good
             /\ r.len = s.len - n
             /\ r.visible_lines = v
             /\ Unrolled(r) = IF Cap(s) > s.len - n + MAX_CACHE_SIZE
                                THEN SubSeq(Unrolled(s), 1, s.len - n) ELSE Unrolled(s)
  <1> DEFINE m == s.len - n
             t == shrink_lines(s, n)
             r == MkStorage(t.inner, t.zero, v, t.len)
             u == MkStorage(s.inner, s.zero, s.visible_lines, m)
  <1>0. m \in Nat /\ m <= s.len /\ m <= Cap(s) /\ v <= m
    BY GoodNums
  <1>1. t = IF Cap(s) > m + MAX_CACHE_SIZE THEN truncate(u) ELSE u
    BY MkStorageFields DEF shrink_lines
  <1> HIDE DEF m, t, r, u
  <1>2. u.inner = s.inner /\ u.zero = s.zero /\ u.len = m /\ Cap(u) = Cap(s)
    BY MkStorageFields, GoodFields DEF u
  <1>3. rezero(u).inner = Unrolled(s) /\ rezero(u).zero = 0
    <2>1. Unrolled(u) = Unrolled(s) BY UnrolledOfFields DEF u
    <2>2. CASE s.zero = 0
      BY <2>2, <1>2, UnrolledSeq DEF rezero
    <2>3. CASE s.zero # 0
      BY <2>1, <2>3, <1>2, MkStorageFields DEF rezero
    <2>4. QED BY <2>2, <2>3
  <1>4. CASE Cap(s) > m + MAX_CACHE_SIZE
    <2> DEFINE pre == SubSeq(Unrolled(s), 1, m)
    <2>1. m < Cap(s)
      BY <1>4, <1>0, GoodNums, StorageAssumption
    <2>2. t = MkStorage(pre, 0, u.visible_lines, m)
      BY <1>1, <1>2, <1>3, <1>4, <2>1 DEF truncate
    <2>3. pre \in Seq(Row) /\ Len(pre) = m
      BY <1>0, UnrolledSeq, PrefixSeq, GoodNums
    <2> HIDE DEF pre
    <2>4. r = MkStorage(pre, 0, v, m)
      BY <2>2, MkStorageFields DEF r
    <2>5. r \in Good /\ Unrolled(r) = pre
      BY <2>3, <2>4, <1>0, UnrolledOfFlat
    <2>6. r.len = m /\ r.visible_lines = v
      BY <2>4, MkStorageFields
    <2>7. QED BY <2>5, <2>6, <1>4 DEF r, t, m, pre
  <1>5. CASE ~(Cap(s) > m + MAX_CACHE_SIZE)
    <2>1. t = u BY <1>1, <1>5
    <2>2. r = MkStorage(s.inner, s.zero, v, m) BY <2>1, <1>2 DEF r
    <2>3. r \in Good BY <2>2, <1>0, GoodFields, MkStorageGood
    <2>4. Unrolled(r) = Unrolled(s) BY <2>2, UnrolledOfFields
    <2>5. QED BY <2>2, <2>3, <2>4, <1>5, MkStorageFields DEF r, t, m
  <1>6. QED BY <1>4, <1>5

(* Rows allocated by initialize, and the vector with them at its end. *)
LEMMA NewRowsSeq ==
  ASSUME NEW n \in Nat
  PROVE  NewRows(n) \in Seq(Row) /\ Len(NewRows(n)) = n
  BY StorageAssumption DEF NewRows

LEMMA ConcatSeq ==
  ASSUME NEW a \in Seq(Row), NEW b \in Seq(Row)
  PROVE  a \o b \in Seq(Row) /\ Len(a \o b) = Len(a) + Len(b)
  OBVIOUS

LEMMA InitializeProps ==
  ASSUME NEW s \in Good, NEW n \in Nat, NEW v \in Nat, 1 <= v, v <= s.len + n
  PROVE  LET t == initialize(s, n)
             r == MkStorage(t.inner, t.zero, v, t.len)
         IN  /\ r \in Good
             /\ r.len = s.len + n
             /\ r.visible_lines = v
             /\ Unrolled(r) = IF s.len + n > Cap(s)
                                THEN Unrolled(s) \o NewRows(IF n > MAX_CACHE_SIZE THEN n ELSE MAX_CACHE_SIZE)
                                ELSE Unrolled(s)
  <1> DEFINE t == initialize(s, n)
             r == MkStorage(t.inner, t.zero, v, t.len)
             extra == IF n > MAX_CACHE_SIZE THEN n ELSE MAX_CACHE_SIZE
             m == s.len + n
  <1>0. extra \in Nat /\ extra >= n /\ m \in Nat
    BY StorageAssumption, GoodNums
  <1>1. CASE m > Cap(s)
    <2> DEFINE vec == Unrolled(s) \o NewRows(extra)
    <2>1. t = MkStorage(vec, 0, s.visible_lines, m)
      BY <1>1, RezeroGood DEF initialize
    <2> HIDE DEF extra, m, t, r
    <2>2. vec \in Seq(Row) /\ Len(vec) = Cap(s) + extra
      <3>1. NewRows(extra) \in Seq(Row) /\ Len(NewRows(extra)) = extra
        BY <1>0, NewRowsSeq
      <3>2. Unrolled(s) \in Seq(Row) /\ Len(Unrolled(s)) = Cap(s)
        BY UnrolledSeq
      <3>3. QED BY <3>1, <3>2, ConcatSeq
    <2> HIDE DEF vec
    <2>3. r = MkStorage(vec, 0, v, m)
      BY <2>1, MkStorageFields DEF r
    <2>4. m <= Cap(s) + extra
      BY <1>0, GoodNums DEF m
    <2>5. r \in Good /\ Unrolled(r) = vec
      BY <2>2, <2>3, <2>4, <1>0, UnrolledOfFlat DEF m
    <2>6. r.len = m /\ r.visible_lines = v
      BY <2>3, MkStorageFields
    <2>7. QED BY <2>5, <2>6, <1>1 DEF r, t, m, vec, extra
  <1>2. CASE ~(m > Cap(s))
    <2>1. t = MkStorage(s.inner, s.zero, s.visible_lines, m)
      BY <1>2 DEF initialize
    <2> HIDE DEF extra, m, t, r
    <2>2. r = MkStorage(s.inner, s.zero, v, m)
      BY <2>1, MkStorageFields DEF r
    <2>3. m <= Len(s.inner) BY <1>0, <1>2, GoodFields
    <2>4. r \in Good BY <2>2, <2>3, <1>0, GoodFields, MkStorageGood DEF m
    <2>5. Unrolled(r) = Unrolled(s) BY <2>2, UnrolledOfFields
    <2>6. QED BY <2>2, <2>4, <2>5, <1>2, MkStorageFields DEF r, t, m
  <1>3. QED BY <1>1, <1>2

(* Taking the rows out and putting a rebuilt vector back. *)
LEMMA TakeAllIsActive ==
  ASSUME NEW s \in Good
  PROVE  /\ take_all(s) = SubSeq(Unrolled(s), 1, s.len)
         /\ take_all(s) \in Seq(Row)
         /\ Len(take_all(s)) = s.len
  <1>1. take_all(s) = SubSeq(Unrolled(s), 1, s.len)
    <2> DEFINE pre == SubSeq(Unrolled(s), 1, s.len)
    <2>1. truncate(s) = MkStorage(pre, 0, s.visible_lines, s.len)
      BY TruncateProps
    <2> HIDE DEF pre
    <2>2. truncate(s).inner = pre BY <2>1, MkStorageFields
    <2>3. QED BY <2>2 DEF take_all, pre
  <1>2. QED BY <1>1, UnrolledSeq, PrefixSeq, GoodNums

LEMMA ReplaceInnerProps ==
  ASSUME NEW s \in Good, NEW vec \in Seq(Row), s.visible_lines <= Len(vec)
  PROVE  /\ replace_inner(s, vec) \in Good
         /\ replace_inner(s, vec).len = Len(vec)
         /\ replace_inner(s, vec).visible_lines = s.visible_lines
         /\ Unrolled(replace_inner(s, vec)) = vec
  <1>1. Len(vec) \in Nat OBVIOUS
  <1>2. 1 <= s.visible_lines /\ s.visible_lines \in Nat BY GoodNums
  <1>3. /\ MkStorage(vec, 0, s.visible_lines, Len(vec)) \in Good
        /\ Unrolled(MkStorage(vec, 0, s.visible_lines, Len(vec))) = vec
    BY <1>1, <1>2, UnrolledOfFlat
  <1>4. replace_inner(s, vec) = MkStorage(vec, 0, s.visible_lines, Len(vec))
    BY DEF replace_inner
  <1>5. replace_inner(s, vec).len = Len(vec) /\ replace_inner(s, vec).visible_lines = s.visible_lines
    BY <1>4, MkStorageFields
  <1>6. QED BY <1>3, <1>4, <1>5

LEMMA RemoveAtSeq ==
  ASSUME NEW vec \in Seq(Row), NEW i \in 1..Len(vec)
  PROVE  RemoveAt(vec, i) \in Seq(Row) /\ Len(RemoveAt(vec, i)) = Len(vec) - 1
  <1> DEFINE a == SubSeq(vec, 1, i - 1)
             b == SubSeq(vec, i + 1, Len(vec))
  <1>1. a \in Seq(Row) /\ Len(a) = i - 1
    OBVIOUS
  <1>2. b \in Seq(Row) /\ Len(b) = Len(vec) - i
    OBVIOUS
  <1>3. RemoveAt(vec, i) = a \o b
    BY DEF RemoveAt
  <1> HIDE DEF a, b
  <1>4. a \o b \in Seq(Row) /\ Len(a \o b) = Len(a) + Len(b)
    BY <1>1, <1>2, ConcatSeq
  <1>5. (i - 1) + (Len(vec) - i) = Len(vec) - 1
    OBVIOUS
  <1>6. QED BY <1>1, <1>2, <1>3, <1>4, <1>5

LEMMA InsertAtSeq ==
  ASSUME NEW vec \in Seq(Row), NEW i \in 1..(Len(vec) + 1), NEW row \in Row
  PROVE  InsertAt(vec, i, row) \in Seq(Row) /\ Len(InsertAt(vec, i, row)) = Len(vec) + 1
  <1> DEFINE a == SubSeq(vec, 1, i - 1)
             b == SubSeq(vec, i, Len(vec))
             c == <<row>>
  <1>1. a \in Seq(Row) /\ Len(a) = i - 1
    OBVIOUS
  <1>2. b \in Seq(Row) /\ Len(b) = Len(vec) - i + 1
    OBVIOUS
  <1>3. c \in Seq(Row) /\ Len(c) = 1
    OBVIOUS
  <1>4. InsertAt(vec, i, row) = (a \o c) \o b
    BY DEF InsertAt
  <1> HIDE DEF a, b, c
  <1>5. a \o c \in Seq(Row) /\ Len(a \o c) = Len(a) + Len(c)
    BY <1>1, <1>3, ConcatSeq
  <1> DEFINE ac == a \o c
  <1> HIDE DEF ac
  <1>6. ac \o b \in Seq(Row) /\ Len(ac \o b) = Len(ac) + Len(b)
    BY <1>2, <1>5, ConcatSeq DEF ac
  <1>7. ((i - 1) + 1) + (Len(vec) - i + 1) = Len(vec) + 1
    OBVIOUS
  <1>8. QED BY <1>1, <1>2, <1>3, <1>4, <1>5, <1>6, <1>7 DEF ac

-------------------------------------------------------------------------------
(* The inductive invariant: the storage is one every method may be called on. *)
IInv == st \in Good /\ st.len <= MaxLen

LEMMA IInvParts == IInv => StorageTypeOK /\ WellFormed
  BY DEF IInv, Good, StorageTypeOK, WellFormed

(* A step, as what it does to the vector seen through `zero`. *)
RowsAfter(vec, len, v) == st' \in Good /\ Unrolled(st') = vec /\ st'.len = len /\ st'.visible_lines = v

LEMMA InitGood ==
  ASSUME StorageInit
  PROVE  /\ IInv
         /\ \E n \in 1..MaxLen : Unrolled(st) = NewRows(n) /\ st.len = n /\ st.visible_lines = n
  <1>1. PICK lines \in 1..MaxLen : st = MkStorage(NewRows(lines), 0, lines, lines)
    BY DEF StorageInit, with_capacity
  <1>2. lines \in Nat /\ 1 <= lines /\ NewRows(lines) \in Seq(Row) /\ Len(NewRows(lines)) = lines
    BY MaxLenAssumption, NewRowsSeq
  <1>3. st \in Good /\ Unrolled(st) = NewRows(lines)
    BY <1>1, <1>2, UnrolledOfFlat
  <1>4. st.len = lines /\ st.visible_lines = lines
    BY <1>1, MkStorageFields
  <1>5. QED BY <1>1, <1>2, <1>3, <1>4 DEF IInv

(* Every step of the ring buffer is a step of the plain vector, and leads
   from good storages to good ones. *)
LEMMA StepRefines ==
  ASSUME IInv, StorageNext
  PROVE  IInv' /\ LV!Next
  <1> DEFINE U == Unrolled(st)
             C == Cap(st)
             V == st.visible_lines
             N == st.len
  <1>0. /\ Len(U) = C /\ U \in Seq(Row) /\ C \in Nat /\ V \in Nat /\ N \in Nat
        /\ 1 <= V /\ V <= N /\ N <= C /\ N <= MaxLen /\ st \in Good
    BY UnrolledSeq, GoodNums DEF IInv
  <1>a. Lines = LinesOf(st) BY DEF Lines, LinesOf
  <1>1. ASSUME NEW line \in Lines, NEW row \in Row, Write(line, row)
        PROVE  IInv' /\ LV!Next
    <2>1. RowsAfter([U EXCEPT ![V - line] = row], N, V)
      BY <1>0, <1>1, <1>a, SetRowProps DEF Write, RowsAfter
    <2>2. LV!Write(line, row)
      BY <2>1 DEF RowsAfter, LV!Write
    <2>3. line \in LV!Lines BY DEF Lines, LV!Lines
    <2>4. QED BY <2>1, <2>2, <2>3, <1>0 DEF IInv, RowsAfter, LV!Next
  <1>2. ASSUME NEW a \in Lines, NEW b \in Lines, Swap(a, b)
        PROVE  IInv' /\ LV!Next
    <2>1. RowsAfter([U EXCEPT ![V - a] = U[V - b], ![V - b] = U[V - a]], N, V)
      BY <1>0, <1>2, <1>a, SwapProps DEF Swap, RowsAfter
    <2>2. LV!Swap(a, b)
      BY <2>1 DEF RowsAfter, LV!Swap
    <2>3. a \in LV!Lines /\ b \in LV!Lines BY DEF Lines, LV!Lines
    <2>4. QED BY <2>1, <2>2, <2>3, <1>0 DEF IInv, RowsAfter, LV!Next
  <1>b. ASSUME NEW c \in (-C)..C, st' = rotate(st, c)
        PROVE  IInv' /\ LV!Next
    <2>1. /\ st' \in Good /\ st'.len = N /\ st'.visible_lines = V
          /\ Unrolled(st') = LET k == IF c < 0 THEN c + C ELSE c
                             IN  [i \in 1..C |-> IF i + k > C THEN U[i + k - C] ELSE U[i + k]]
      BY <1>0, <1>b, RotateProps
    <2>2. LV!Rotate(c)
      BY <2>1, <1>0 DEF LV!Rotate, LV!RotatedLeft
    <2>3. c \in (-Len(U))..Len(U) BY <1>0
    <2>4. QED BY <2>1, <2>2, <2>3, <1>0 DEF IInv, LV!Next
  <1>3. ASSUME NEW c \in (-C)..C, Rotate(c)
        PROVE  IInv' /\ LV!Next
    BY <1>3, <1>b DEF Rotate
  <1>4. ASSUME NEW n \in 0..C, RotateDown(n)
        PROVE  IInv' /\ LV!Next
    <2>1. n \in (-C)..C BY <1>0
    <2>2. st' = rotate(st, n) BY <1>0, <1>4, RotateDownIsRotate DEF RotateDown
    <2>3. QED BY <2>1, <2>2, <1>b
  <1>5. ASSUME NEW n \in 1..MaxLen, Initialize(n)
        PROVE  IInv' /\ LV!Next
    <2> DEFINE t == initialize(st, n)
               more == IF n > MAX_CACHE_SIZE THEN n ELSE MAX_CACHE_SIZE
    <2>1. n \in Nat /\ N + n \in 0..MaxLen /\ V \in Nat /\ 1 <= V /\ V <= N + n
      BY <1>5, <1>0, MaxLenAssumption DEF Initialize
    <2>2. st' = MkStorage(t.inner, t.zero, V, t.len)
      <3>1. st' = t BY <1>5 DEF Initialize
      <3>2. t = MkStorage(t.inner, t.zero, V, t.len)
        BY <1>0, RezeroGood, MkStorageFields DEF initialize
      <3>3. QED BY <3>1, <3>2
    <2> HIDE DEF t
    <2>3. /\ st' \in Good /\ st'.len = N + n /\ st'.visible_lines = V
          /\ Unrolled(st') = IF N + n > C THEN U \o NewRows(more) ELSE U
      BY <2>1, <2>2, <1>0, InitializeProps DEF t
    <2>4. (N + n) - N = n /\ N + n >= N /\ V \in {V, V + ((N + n) - N)}
      BY <2>1, <1>0
    <2>5. LV!Grow(N + n)
      BY <2>3, <2>4, <1>0 DEF LV!Grow, LV!NewRows, NewRows
    <2>6. QED BY <2>1, <2>3, <2>5, <1>0 DEF IInv, LV!Next
  <1>6. ASSUME NEW next \in 1..MaxLen, GrowVisibleLines(next)
        PROVE  IInv' /\ LV!Next
    <2> DEFINE t == initialize(st, (next - V))
               more == IF (next - V) > MAX_CACHE_SIZE THEN (next - V) ELSE MAX_CACHE_SIZE
    <2>1. (next - V) \in Nat /\ N + (next - V) \in 0..MaxLen /\ next \in Nat /\ 1 <= next /\ next <= N + (next - V)
      BY <1>6, <1>0, MaxLenAssumption DEF GrowVisibleLines
    <2>2. st' = MkStorage(t.inner, t.zero, next, t.len)
      BY <1>6 DEF GrowVisibleLines, grow_visible_lines
    <2> HIDE DEF t
    <2>3. /\ st' \in Good /\ st'.len = N + (next - V) /\ st'.visible_lines = next
          /\ Unrolled(st') = IF N + (next - V) > C THEN U \o NewRows(more) ELSE U
      BY <2>1, <2>2, <1>0, InitializeProps DEF t
    <2>4. (N + (next - V)) - N = (next - V) /\ N + (next - V) >= N /\ next \in {V, V + ((N + (next - V)) - N)}
      BY <2>1, <1>0
    <2>5. LV!Grow(N + (next - V))
      BY <2>3, <2>4, <1>0 DEF LV!Grow, LV!NewRows, NewRows
    <2>6. QED BY <2>1, <2>3, <2>5, <1>0 DEF IInv, LV!Next
  <1>7. ASSUME NEW next \in 1..MaxLen, ShrinkVisibleLines(next)
        PROVE  IInv' /\ LV!Next
    <2> DEFINE t == shrink_lines(st, (V - next))
               m == N - (V - next)
    <2>1. (V - next) \in Nat /\ m \in 0..MaxLen /\ m \in Nat /\ next \in Nat /\ 1 <= next /\ next <= m
      BY <1>7, <1>0, MaxLenAssumption DEF ShrinkVisibleLines
    <2>2. st' = MkStorage(t.inner, t.zero, next, t.len)
      BY <1>7 DEF ShrinkVisibleLines, shrink_visible_lines
    <2> HIDE DEF t
    <2>3. /\ st' \in Good /\ st'.len = m /\ st'.visible_lines = next
          /\ Unrolled(st') = IF C > m + MAX_CACHE_SIZE THEN SubSeq(U, 1, m) ELSE U
      BY <2>1, <2>2, <1>0, ShrinkLinesProps DEF t
    <2>4. N - m = (V - next) /\ m <= N /\ next \in {V, V - (N - m)}
      BY <2>1, <1>0
    <2> HIDE DEF m
    <2>5. LV!Shrink(m)
      BY <2>3, <2>4, <1>0 DEF LV!Shrink
    <2>6. QED BY <2>1, <2>3, <2>5, <1>0 DEF IInv, LV!Next
  <1>8. ASSUME NEW n \in 1..MaxLen, ShrinkLines(n)
        PROVE  IInv' /\ LV!Next
    <2> DEFINE t == shrink_lines(st, n)
               m == N - n
    <2>1. n \in Nat /\ m \in 0..MaxLen /\ m \in Nat /\ V \in Nat /\ 1 <= V /\ V <= m
      BY <1>8, <1>0, MaxLenAssumption DEF ShrinkLines
    <2>2. st' = MkStorage(t.inner, t.zero, V, t.len)
      <3>1. st' = t BY <1>8 DEF ShrinkLines
      <3>2. t = MkStorage(t.inner, t.zero, V, t.len)
        BY MkStorageFields DEF shrink_lines, truncate
      <3>3. QED BY <3>1, <3>2
    <2> HIDE DEF t
    <2>3. /\ st' \in Good /\ st'.len = m /\ st'.visible_lines = V
          /\ Unrolled(st') = IF C > m + MAX_CACHE_SIZE THEN SubSeq(U, 1, m) ELSE U
      BY <2>1, <2>2, <1>0, ShrinkLinesProps DEF t
    <2>4. N - m = n /\ m <= N /\ V \in {V, V - (N - m)}
      BY <2>1, <1>0
    <2> HIDE DEF m
    <2>5. LV!Shrink(m)
      BY <2>3, <2>4, <1>0 DEF LV!Shrink
    <2>6. QED BY <2>1, <2>3, <2>5, <1>0 DEF IInv, LV!Next
  <1>9. ASSUME Truncate
        PROVE  IInv' /\ LV!Next
    <2>1. RowsAfter(SubSeq(U, 1, N), N, V)
      BY <1>0, <1>9, TruncateProps, MkStorageFields DEF Truncate, RowsAfter
    <2>2. LV!Truncate
      BY <2>1 DEF RowsAfter, LV!Truncate
    <2>3. QED BY <2>1, <2>2, <1>0 DEF IInv, RowsAfter, LV!Next
  <1>10. ASSUME NEW i \in 1..N, MergeRow(i)
         PROVE  IInv' /\ LV!Next
    <2> DEFINE vec == RemoveAt(take_all(st), i)
    <2>1. take_all(st) = SubSeq(U, 1, N) /\ take_all(st) \in Seq(Row) /\ Len(take_all(st)) = N
      BY <1>0, TakeAllIsActive
    <2>2. vec \in Seq(Row) /\ Len(vec) = N - 1
      BY <2>1, RemoveAtSeq
    <2>3. V <= Len(vec) /\ st' = replace_inner(st, vec)
      BY <1>10, <1>0, <2>2 DEF MergeRow
    <2> HIDE DEF vec
    <2>4. RowsAfter(vec, Len(vec), V)
      BY <2>2, <2>3, <1>0, ReplaceInnerProps DEF RowsAfter
    <2>5. LV!Rebuild(vec)
      BY <2>4 DEF RowsAfter, LV!Rebuild
    <2>6. vec = LV!RemoveAt(LV!Active, i)
      BY <2>1 DEF vec, LV!Active, RemoveAt, LV!RemoveAt
    <2>7. Len(vec) <= MaxLen
      BY <1>10, <1>0, <2>2, MaxLenAssumption DEF MergeRow
    <2>8. QED BY <2>4, <2>5, <2>6, <2>7 DEF IInv, RowsAfter, LV!Next
  <1>11. ASSUME NEW i \in 1..(N + 1), NEW row \in Row, SplitRow(i, row)
         PROVE  IInv' /\ LV!Next
    <2> DEFINE vec == InsertAt(take_all(st), i, row)
    <2>1. take_all(st) = SubSeq(U, 1, N) /\ take_all(st) \in Seq(Row) /\ Len(take_all(st)) = N
      BY <1>0, TakeAllIsActive
    <2>2. vec \in Seq(Row) /\ Len(vec) = N + 1
      BY <2>1, InsertAtSeq
    <2>3. V <= Len(vec) /\ st' = replace_inner(st, vec)
      BY <1>11, <1>0, <2>2 DEF SplitRow
    <2> HIDE DEF vec
    <2>4. RowsAfter(vec, Len(vec), V)
      BY <2>2, <2>3, <1>0, ReplaceInnerProps DEF RowsAfter
    <2>5. LV!Rebuild(vec)
      BY <2>4 DEF RowsAfter, LV!Rebuild
    <2>6. vec = LV!InsertAt(LV!Active, i, row)
      BY <2>1 DEF vec, LV!Active, InsertAt, LV!InsertAt
    <2>7. Len(vec) <= MaxLen
      BY <1>11, <1>0, <2>2, MaxLenAssumption DEF SplitRow
    <2>8. QED BY <2>4, <2>5, <2>6, <2>7 DEF IInv, RowsAfter, LV!Next
  <1>12. QED
    BY <1>1, <1>2, <1>3, <1>4, <1>5, <1>6, <1>7, <1>8, <1>9, <1>10, <1>11 DEF StorageNext

LEMMA StutterRefines ==
  ASSUME IInv, UNCHANGED st
  PROVE  IInv' /\ UNCHANGED LV!vars
  BY DEF IInv, Good, StorageType, IsWellFormed, Cap, Unrolled, LV!vars

LEMMA Inductive == StorageSpec => []IInv
  <1>1. StorageInit => IInv BY InitGood
  <1>2. IInv /\ [StorageNext]_st => IInv'
    BY StepRefines, StutterRefines
  <1>3. QED BY <1>1, <1>2, PTL DEF StorageSpec

(* The fields of a storage keep their types through every sequence of the
   methods the grid calls. *)
THEOREM TypeCorrect == StorageSpec => []StorageTypeOK
  <1>1. IInv => StorageTypeOK BY IInvParts
  <1>2. QED BY <1>1, Inductive, PTL

(* After any sequence of rotations, reallocations, truncations and rebuilds
   the viewport lies within the active lines, these within the allocated
   rows, and `zero` is a slot of the buffer. *)
THEOREM AlwaysWellFormed == StorageSpec => []WellFormed
  <1>1. IInv => WellFormed BY IInvParts
  <1>2. QED BY <1>1, Inductive, PTL

(* compute_index, with its single conditional subtraction, gives every
   active line a slot inside the buffer, and no two lines the same one. *)
THEOREM LinesHaveOwnSlots == StorageSpec => []SlotsDistinct
  <1>1. IInv => SlotsDistinct
    <2> SUFFICES ASSUME IInv PROVE SlotsDistinct OBVIOUS
    <2>1. st \in Good /\ Lines = LinesOf(st) BY DEF IInv, Lines, LinesOf
    <2>2. \A line \in Lines : compute_index(st, line) \in 0..(Cap(st) - 1)
      BY <2>1, SlotOfLine
    <2>3. ASSUME NEW a \in Lines, NEW b \in Lines, a # b
          PROVE  compute_index(st, a) # compute_index(st, b)
      <3>1. st.visible_lines - a \in 1..Cap(st) /\ st.visible_lines - b \in 1..Cap(st)
        BY <2>1, SlotOfLine
      <3>2. st.visible_lines - a # st.visible_lines - b
        BY <2>1, <2>3, GoodNums DEF LinesOf
      <3>3. Slot(st, st.visible_lines - a) # Slot(st, st.visible_lines - b)
        BY <2>1, <3>1, <3>2, Slots
      <3>4. QED BY <2>1, <3>3, SlotOfLine
    <2>4. QED BY <2>2, <2>3 DEF SlotsDistinct
  <1>2. QED BY <1>1, Inductive, PTL

(* The invariant that StorageSpec's run checks holds for every set of rows,
   cache size and line bound. *)
THEOREM StorageConsistent == StorageSpec => []StorageInv
  <1>1. StorageTypeOK /\ WellFormed /\ SlotsDistinct => StorageInv BY DEF StorageInv
  <1>2. QED BY <1>1, TypeCorrect, AlwaysWellFormed, LinesHaveOwnSlots, PTL

(* The ring buffer, which moves only `zero` and puts the rows in order
   before it reallocates, implements the vector that is rotated in memory:
   no reader or writer of lines can tell them apart. *)
THEOREM StorageImplementsLineVec == StorageSpec => RefinesLineVec
  <1>1. StorageInit => LV!Init
    BY InitGood DEF LV!Init, LV!NewRows, NewRows
  <1>2. IInv /\ [StorageNext]_st => [LV!Next]_LV!vars
    BY StepRefines, StutterRefines
  <1>3. QED BY <1>1, <1>2, Inductive, PTL DEF StorageSpec, LV!Spec, RefinesLineVec

-------------------------------------------------------------------------------
(* The grid. *)

(* The storages with the lines of s, on which every method may be called. *)
Same(s) == {t \in Good : t.len = s.len /\ t.visible_lines = s.visible_lines}

(* Such storages have the same lines. *)
LEMMA SameLines ==
  ASSUME NEW s \in Good, NEW t \in Same(s)
  PROVE  t \in Good /\ LinesOf(t) = LinesOf(s) /\ Same(t) = Same(s) /\ s \in Same(s)
  BY DEF Same, LinesOf

(* What a storage's lines are after one line is written, two are swapped,
   and all are rotated. *)
LEMMA SetRowRows ==
  ASSUME NEW s \in Good, NEW line \in LinesOf(s), NEW row \in Row
  PROVE  /\ SetRow(s, line, row) \in Same(s)
         /\ \A l \in LinesOf(s) :
              RowAt(SetRow(s, line, row), l) = IF l = line THEN row ELSE RowAt(s, l)
  <1> DEFINE t == SetRow(s, line, row)
             V == s.visible_lines
  <1>1. /\ t \in Good /\ t.len = s.len /\ t.visible_lines = V
        /\ Unrolled(t) = [Unrolled(s) EXCEPT ![V - line] = row]
    BY SetRowProps
  <1> HIDE DEF t
  <1>2. t \in Same(s) BY <1>1 DEF Same
  <1>3. ASSUME NEW l \in LinesOf(s)
        PROVE  RowAt(t, l) = IF l = line THEN row ELSE RowAt(s, l)
    <2>1. RowAt(t, l) = Unrolled(t)[V - l] BY <1>1, <1>2, SameLines, RowAtProps
    <2>2. RowAt(s, l) = Unrolled(s)[V - l] BY RowAtProps
    <2>3. /\ V - l \in 1..Cap(s) /\ V - line \in 1..Cap(s) /\ l \in Int /\ line \in Int
          /\ V \in Int
      BY SlotOfLine, GoodNums DEF LinesOf
    <2>4. DOMAIN Unrolled(s) = 1..Cap(s) BY DEF Unrolled
    <2>5. V - l = V - line => l = line BY <2>3
    <2>6. QED BY <1>1, <2>1, <2>2, <2>3, <2>4, <2>5
  <1>4. QED BY <1>2, <1>3 DEF t

(* Storage::swap exchanges two lines. *)
LEMMA SwapRows ==
  ASSUME NEW s \in Good, NEW a \in LinesOf(s), NEW b \in LinesOf(s)
  PROVE  /\ swap(s, a, b) \in Same(s)
         /\ \A l \in LinesOf(s) :
              RowAt(swap(s, a, b), l) = IF l = b THEN RowAt(s, a)
                                        ELSE IF l = a THEN RowAt(s, b) ELSE RowAt(s, l)
  <1> DEFINE t == SetRow(s, a, RowAt(s, b))
  <1>1. RowAt(s, a) \in Row /\ RowAt(s, b) \in Row BY RowAtProps
  <1>2. /\ t \in Same(s)
        /\ \A l \in LinesOf(s) : RowAt(t, l) = IF l = a THEN RowAt(s, b) ELSE RowAt(s, l)
    BY <1>1, SetRowRows
  <1>3. swap(s, a, b) = SetRow(t, b, RowAt(s, a)) BY DEF swap
  <1> HIDE DEF t
  <1>4. t \in Good /\ LinesOf(t) = LinesOf(s) /\ Same(t) = Same(s) BY <1>2, SameLines
  <1>5. /\ swap(s, a, b) \in Same(s)
        /\ \A l \in LinesOf(s) : RowAt(swap(s, a, b), l) = IF l = b THEN RowAt(s, a) ELSE RowAt(t, l)
    BY <1>1, <1>3, <1>4, SetRowRows
  <1>6. QED BY <1>2, <1>5

(* The line seen at l was seen n further down, or n further up, before. *)
LEMMA RotateRows ==
  ASSUME NEW s \in Good, NEW n \in 0..s.len
  PROVE  /\ rotate(s, -n) \in Same(s)
         /\ \A l \in LinesOf(s) : l + n \in LinesOf(s) => RowAt(rotate(s, -n), l) = RowAt(s, l + n)
         /\ rotate(s, n) \in Same(s) /\ rotate_down(s, n) = rotate(s, n)
         /\ \A l \in LinesOf(s) : l - n \in LinesOf(s) => RowAt(rotate(s, n), l) = RowAt(s, l - n)
  <1> DEFINE up == rotate(s, -n)
             down == rotate(s, n)
             C == Cap(s)
             V == s.visible_lines
             U == Unrolled(s)
  <1>1. n \in 0..C /\ n \in (-C)..C /\ -n \in (-C)..C /\ n \in Nat BY GoodNums
  <1>2. /\ up \in Good /\ up.len = s.len /\ up.visible_lines = V
        /\ Unrolled(up) = LET k == IF -n < 0 THEN -n + C ELSE -n
                          IN  [i \in 1..C |-> IF i + k > C THEN U[i + k - C] ELSE U[i + k]]
    BY <1>1, RotateProps
  <1>3. /\ down \in Good /\ down.len = s.len /\ down.visible_lines = V
        /\ Unrolled(down) = LET k == IF n < 0 THEN n + C ELSE n
                            IN  [i \in 1..C |-> IF i + k > C THEN U[i + k - C] ELSE U[i + k]]
    BY <1>1, RotateProps
  <1>4. rotate_down(s, n) = down BY <1>1, RotateDownIsRotate
  <1> HIDE DEF up, down
  <1>5. up \in Same(s) /\ down \in Same(s) BY <1>2, <1>3 DEF Same
  <1>6. LinesOf(up) = LinesOf(s) /\ LinesOf(down) = LinesOf(s) BY <1>5, SameLines
  <1>7. ASSUME NEW l \in LinesOf(s), l + n \in LinesOf(s)
        PROVE  RowAt(up, l) = RowAt(s, l + n)
    <2>1. RowAt(up, l) = Unrolled(up)[V - l] /\ RowAt(s, l + n) = U[V - (l + n)]
      BY <1>2, <1>6, <1>7, RowAtProps
    <2>2. V - l \in 1..C /\ V - (l + n) \in 1..C /\ l \in Int /\ V \in Int /\ C \in Nat
      BY <1>7, SlotOfLine, GoodNums DEF LinesOf
    <2> HIDE DEF V, C, U
    <2>3. V - (l + n) = (V - l) - n BY <1>1, <2>2
    <2>4. Unrolled(up)[V - l] = U[V - (l + n)] BY <1>1, <1>2, <2>2, <2>3
    <2>5. QED BY <2>1, <2>4
  <1>8. ASSUME NEW l \in LinesOf(s), l - n \in LinesOf(s)
        PROVE  RowAt(down, l) = RowAt(s, l - n)
    <2>1. RowAt(down, l) = Unrolled(down)[V - l] /\ RowAt(s, l - n) = U[V - (l - n)]
      BY <1>3, <1>6, <1>8, RowAtProps
    <2>2. V - l \in 1..C /\ V - (l - n) \in 1..C /\ l \in Int /\ V \in Int /\ C \in Nat
      BY <1>8, SlotOfLine, GoodNums DEF LinesOf
    <2> HIDE DEF V, C, U
    <2>3. V - (l - n) = (V - l) + n BY <1>1, <2>2
    <2>4. Unrolled(down)[V - l] = U[V - (l - n)] BY <1>1, <1>3, <2>2, <2>3
    <2>5. QED BY <2>1, <2>4
  <1>9. QED BY <1>4, <1>5, <1>7, <1>8 DEF up, down

(* Storages whose vectors begin with the same rows have the same lines,
   counted from the bottom. *)
LEMMA PrefixRows ==
  ASSUME NEW s \in Good, NEW t \in Good,
         \A i \in 1..s.len : i <= t.len => Unrolled(t)[i] = Unrolled(s)[i],
         NEW l \in LinesOf(t), NEW m \in LinesOf(s),
         t.visible_lines - l = s.visible_lines - m
  PROVE  RowAt(t, l) = RowAt(s, m)
  <1>1. RowAt(t, l) = Unrolled(t)[t.visible_lines - l] /\ RowAt(s, m) = Unrolled(s)[s.visible_lines - m]
    BY RowAtProps
  <1>2. s.visible_lines - m \in 1..s.len /\ t.visible_lines - l \in 1..t.len BY SlotOfLine
  <1>3. s.visible_lines - m <= t.len BY <1>2, GoodNums
  <1>4. QED BY <1>1, <1>2, <1>3

(* Joining keeps the entries in front. *)
LEMMA PrefixOfConcat ==
  ASSUME NEW a \in Seq(Row), NEW b \in Seq(Row), NEW i \in 1..Len(a)
  PROVE  (a \o b)[i] = a[i]
  OBVIOUS

(* So does cutting the end off. *)
LEMMA PrefixOfPrefix ==
  ASSUME NEW a \in Seq(Row), NEW m \in 0..Len(a), NEW i \in 1..m
  PROVE  SubSeq(a, 1, m)[i] = a[i]
  OBVIOUS

(* Growing the buffer keeps its lines; the added ones are above them. *)
LEMMA InitializeRows ==
  ASSUME NEW s \in Good, NEW n \in Nat, NEW v \in Nat, 1 <= v, v <= s.len + n
  PROVE  LET t == initialize(s, n)
             r == MkStorage(t.inner, t.zero, v, t.len)
         IN  /\ r \in Good /\ r.len = s.len + n /\ r.visible_lines = v
             /\ \A i \in 1..s.len : i <= r.len => Unrolled(r)[i] = Unrolled(s)[i]
             /\ v = s.visible_lines => r = t
  <1> DEFINE t == initialize(s, n)
             r == MkStorage(t.inner, t.zero, v, t.len)
             more == IF n > MAX_CACHE_SIZE THEN n ELSE MAX_CACHE_SIZE
             U == Unrolled(s)
  <1>1. /\ r \in Good /\ r.len = s.len + n /\ r.visible_lines = v
        /\ Unrolled(r) = IF s.len + n > Cap(s) THEN U \o NewRows(more) ELSE U
    BY InitializeProps
  <1>2. ASSUME v = s.visible_lines PROVE r = t
    BY <1>2, RezeroGood, MkStorageFields DEF initialize
  <1>3. U \in Seq(Row) /\ Len(U) = Cap(s) /\ s.len <= Cap(s) /\ s.len \in Nat /\ Cap(s) \in Nat
    BY UnrolledSeq, GoodNums
  <1>4. NewRows(more) \in Seq(Row) BY NewRowsSeq, StorageAssumption
  <1> HIDE DEF r, t, U, more
  <1>5. ASSUME NEW i \in 1..s.len PROVE Unrolled(r)[i] = U[i]
    <2>1. i \in 1..Len(U) BY <1>3
    <2>2. (U \o NewRows(more))[i] = U[i] BY <1>3, <1>4, <2>1, PrefixOfConcat
    <2>3. QED BY <1>1, <2>2
  <1>6. QED BY <1>1, <1>2, <1>5 DEF r, t, U

(* Shrinking it drops lines from the top. *)
LEMMA ShrinkRows ==
  ASSUME NEW s \in Good, NEW n \in Nat, NEW v \in Nat, 1 <= v, v <= s.len - n
  PROVE  LET t == shrink_lines(s, n)
             r == MkStorage(t.inner, t.zero, v, t.len)
         IN  /\ r \in Good /\ r.len = s.len - n /\ r.visible_lines = v
             /\ \A i \in 1..s.len : i <= r.len => Unrolled(r)[i] = Unrolled(s)[i]
             /\ v = s.visible_lines => r = t
  <1> DEFINE t == shrink_lines(s, n)
             r == MkStorage(t.inner, t.zero, v, t.len)
             m == s.len - n
             U == Unrolled(s)
  <1>1. /\ r \in Good /\ r.len = m /\ r.visible_lines = v
        /\ Unrolled(r) = IF Cap(s) > m + MAX_CACHE_SIZE THEN SubSeq(U, 1, m) ELSE U
    BY ShrinkLinesProps
  <1>2. ASSUME v = s.visible_lines PROVE r = t
    BY <1>2, MkStorageFields DEF shrink_lines, truncate
  <1>3. U \in Seq(Row) /\ Len(U) = Cap(s) /\ m \in 0..Len(U)
    BY UnrolledSeq, GoodNums
  <1> HIDE DEF r, t, U, m
  <1>4. ASSUME NEW i \in 1..s.len, i <= r.len PROVE Unrolled(r)[i] = U[i]
    <2>1. i \in 1..m BY <1>1, <1>3, <1>4, GoodNums
    <2>2. SubSeq(U, 1, m)[i] = U[i] BY <1>3, <2>1, PrefixOfPrefix
    <2>3. QED BY <1>1, <2>2
  <1>5. QED BY <1>1, <1>2, <1>4 DEF r, t, U, m
-------------------------------------------------------------------------------
(* Loops. *)

(* A set of natural numbers that is not empty has a least member. *)
LEMMA LeastNumber ==
  ASSUME NEW T \in SUBSET Nat, T # {}
  PROVE  \E n \in T : \A k \in T : n <= k
  <1> DEFINE R == OpToRel(<, Nat)
  <1>1. \A j, k \in Nat : <<j, k>> \in R <=> j < k BY Zenon DEF OpToRel
  <1>2. IsWellFoundedOn(R, Nat) BY NatLessThanWellFounded, Zenon
  <1> HIDE DEF R
  <1>3. PICK n \in T : \A k \in T : ~ (<<k, n>> \in R) BY <1>2, WFMin
  <1>4. ASSUME NEW k \in T PROVE n <= k
    <2>1. ~(<<k, n>> \in R) BY <1>3
    <2>2. ~(k < n) BY <1>1, <2>1, Zenon
    <2>3. QED BY <2>2
  <1>5. QED BY <1>4

(* What is so before a loop and kept by each of its n rounds is so after
   every round. *)
LEMMA EveryRound ==
  ASSUME NEW n \in Nat, NEW K, 0 \in K, \A k \in 1..n : k - 1 \in K => k \in K
  PROVE  \A k \in 0..n : k \in K
  <1> DEFINE T == {k \in 0..n : k \notin K}
  <1> SUFFICES ASSUME T # {} PROVE FALSE OBVIOUS
  <1>0. T \in SUBSET Nat OBVIOUS
  <1>1. PICK m \in T : \A k \in T : m <= k
    <2> HIDE DEF T
    <2>1. QED BY <1>0, LeastNumber
  <1>2. m \in 1..n BY <1>1
  <1>3. m - 1 \in 0..n /\ ~(m <= m - 1) BY <1>2
  <1>4. m - 1 \in K BY <1>1, <1>3
  <1>5. QED BY <1>1, <1>2, <1>4

(* A loop of n rounds that stays within S runs. *)
Looped(n, S, base, F) ==
  \E r \in [0..n -> S] : r[0] = base /\ \A k \in 1..n : r[k] = F[k][r[k - 1]]

(* Every such loop runs to its end, whatever its rounds do. *)
LEMMA LoopRuns ==
  ASSUME NEW n \in Nat, NEW S, NEW base \in S, NEW F \in [1..n -> [S -> S]]
  PROVE  Looped(n, S, base, F)
  <1> DEFINE Runs(m, r) == r[0] = base /\ \A k \in 1..m : r[k] = F[k][r[k - 1]]
             K == {m \in 0..n : \E r \in [0..m -> S] : Runs(m, r)}
  <1>1. 0 \in K
    <2> DEFINE r == [k \in 0..0 |-> base]
    <2>1. r \in [0..0 -> S] /\ Runs(0, r) /\ 0 \in 0..n OBVIOUS
    <2> HIDE DEF r, Runs
    <2>2. QED BY <2>1
  <1>2. ASSUME NEW m \in 1..n, m - 1 \in K PROVE m \in K
    <2>1. PICK r \in [0..(m - 1) -> S] : Runs(m - 1, r) BY <1>2
    <2> DEFINE q == [k \in 0..m |-> IF k = m THEN F[m][r[m - 1]] ELSE r[k]]
    <2>2. F[m][r[m - 1]] \in S OBVIOUS
    <2>3. q \in [0..m -> S]
      <3>1. ASSUME NEW k \in 0..m, k # m PROVE r[k] \in S
        <4>1. k \in 0..(m - 1) BY <3>1
        <4>2. QED BY <4>1
      <3>2. QED BY <2>2, <3>1
    <2>4. q[0] = base BY <2>1
    <2>5. ASSUME NEW k \in 1..m PROVE q[k] = F[k][q[k - 1]]
      <3>1. k - 1 \in 0..m /\ k - 1 # m BY <2>5
      <3>2. q[k - 1] = r[k - 1] BY <3>1
      <3>3. CASE k = m BY <3>2, <3>3
      <3>4. CASE k # m
        <4>1. k \in 1..(m - 1) BY <3>4
        <4>2. q[k] = r[k] BY <3>4
        <4>3. QED BY <2>1, <3>2, <4>1, <4>2
      <3>5. QED BY <3>3, <3>4
    <2> HIDE DEF q
    <2>6. Runs(m, q) BY <2>4, <2>5
    <2> HIDE DEF Runs
    <2>7. QED BY <2>3, <2>6
  <1>3. \A m \in 0..n : m \in K
    <2> HIDE DEF K
    <2>1. QED BY <1>1, <1>2, EveryRound
  <1>4. n \in K BY <1>3
  <1>5. QED BY <1>4 DEF Looped

(* The storages r that a loop of swaps passes through. *)
Swapped(raw, lines, d, r) ==
  /\ \A k \in 0..Len(lines) : r[k] \in Same(raw)
  /\ r[0] = raw
  /\ \A k \in 1..Len(lines) : r[k] = swap(r[k - 1], lines[k], lines[k] + d)
  /\ SwapAll(raw, lines, d) = r[Len(lines)]

(* A loop of swaps over lines that exist, and the storages between them. *)
LEMMA SwapLoop ==
  ASSUME NEW raw \in Good, NEW lines \in Seq(Int), NEW d \in Int,
         \A k \in 1..Len(lines) : lines[k] \in LinesOf(raw) /\ lines[k] + d \in LinesOf(raw)
  PROVE  \E r : Swapped(raw, lines, d, r)
  <1> DEFINE n == Len(lines)
             S == Same(raw)
             Round(x, k) == swap(x, lines[k], lines[k] + d)
             F == [k \in 1..n |-> [x \in S |-> Round(x, k)]]
  <1>1. n \in Nat /\ raw \in S BY SameLines DEF Same
  <1>2. ASSUME NEW x \in S, NEW k \in 1..n PROVE Round(x, k) \in S
    <2>1. x \in Good /\ LinesOf(x) = LinesOf(raw) /\ Same(x) = Same(raw) BY SameLines
    <2>2. QED BY <2>1, SwapRows
  <1> HIDE DEF n, S
  <1>3. F \in [1..n -> [S -> S]]
    <2> HIDE DEF Round
    <2>1. QED BY <1>2
  <1>4. PICK f \in [0..n -> S] : f[0] = raw /\ \A k \in 1..n : f[k] = F[k][f[k - 1]]
    <2> HIDE DEF F
    <2>1. Looped(n, S, raw, F) BY <1>1, <1>3, LoopRuns
    <2>2. QED BY <2>1 DEF Looped
  <1>5. f = [k \in 0..n |-> IF k = 0 THEN raw ELSE Round(f[k - 1], k)]
    <2>1. ASSUME NEW k \in 0..n
          PROVE  f[k] = IF k = 0 THEN raw ELSE Round(f[k - 1], k)
      <3>1. CASE k = 0 BY <1>4, <3>1
      <3>2. CASE k # 0
        <4>1. k \in 1..n /\ k - 1 \in 0..n BY <1>1, <3>2
        <4>2. f[k - 1] \in S BY <4>1
        <4> HIDE DEF Round
        <4>3. QED BY <1>4, <3>2, <4>1, <4>2
      <3>3. QED BY <3>1, <3>2
    <2> HIDE DEF Round
    <2>2. f = [k \in 0..n |-> f[k]] OBVIOUS
    <2>3. QED BY <2>1, <2>2
  <1> DEFINE g == CHOOSE r : r = [k \in 0..n |-> IF k = 0 THEN raw ELSE Round(r[k - 1], k)]
  <1>6. SwapAll(raw, lines, d) = g[n] BY Zenon DEF SwapAll, n
  <1>7. g = [k \in 0..n |-> IF k = 0 THEN raw ELSE Round(g[k - 1], k)] BY Zenon, <1>5
  <1> HIDE DEF g
  <1>8. g[0] = raw
    <2> HIDE DEF Round
    <2>1. QED BY <1>1, <1>7
  <1>9. ASSUME NEW k \in 1..n PROVE g[k] = Round(g[k - 1], k)
    <2>1. k \in 0..n /\ k # 0 BY <1>1
    <2> HIDE DEF Round
    <2>2. QED BY <1>7, <2>1
  <1>10. \A k \in 0..n : g[k] \in S
    <2> DEFINE K == {k \in 0..n : g[k] \in S}
    <2>1. 0 \in K BY <1>1, <1>8
    <2>2. ASSUME NEW k \in 1..n, k - 1 \in K PROVE k \in K
      <3>1. Round(g[k - 1], k) \in S BY <1>2, <2>2
      <3>2. QED BY <1>1, <1>9, <3>1
    <2> HIDE DEF K
    <2>3. \A k \in 0..n : k \in K BY <1>1, <2>1, <2>2, EveryRound
    <2>4. QED BY <2>3 DEF K
  <1>11. Swapped(raw, lines, d, g) BY <1>6, <1>8, <1>9, <1>10 DEF n, S, Swapped
  <1>12. QED BY <1>11

(* The storages that a loop of resets passes through, and its result. *)
LEMMA ResetLoop ==
  ASSUME NEW raw \in Good, NEW lines \in Seq(Int), NEW t \in Row,
         \A k \in 1..Len(lines) : lines[k] \in LinesOf(raw)
  PROVE  \E r : /\ \A k \in 0..Len(lines) : r[k] \in Same(raw)
                /\ r[0] = raw
                /\ \A k \in 1..Len(lines) : r[k] = SetRow(r[k - 1], lines[k], t)
                /\ ResetAll(raw, lines, t) = r[Len(lines)]
  <1> DEFINE n == Len(lines)
             S == Same(raw)
             Round(x, k) == SetRow(x, lines[k], t)
             F == [k \in 1..n |-> [x \in S |-> Round(x, k)]]
  <1>1. n \in Nat /\ raw \in S BY SameLines DEF Same
  <1>2. ASSUME NEW x \in S, NEW k \in 1..n PROVE Round(x, k) \in S
    <2>1. x \in Good /\ LinesOf(x) = LinesOf(raw) /\ Same(x) = Same(raw) BY SameLines
    <2>2. QED BY <2>1, SetRowRows
  <1> HIDE DEF n, S
  <1>3. F \in [1..n -> [S -> S]]
    <2> HIDE DEF Round
    <2>1. QED BY <1>2
  <1>4. PICK f \in [0..n -> S] : f[0] = raw /\ \A k \in 1..n : f[k] = F[k][f[k - 1]]
    <2> HIDE DEF F
    <2>1. Looped(n, S, raw, F) BY <1>1, <1>3, LoopRuns
    <2>2. QED BY <2>1 DEF Looped
  <1>5. f = [k \in 0..n |-> IF k = 0 THEN raw ELSE Round(f[k - 1], k)]
    <2>1. ASSUME NEW k \in 0..n
          PROVE  f[k] = IF k = 0 THEN raw ELSE Round(f[k - 1], k)
      <3>1. CASE k = 0 BY <1>4, <3>1
      <3>2. CASE k # 0
        <4>1. k \in 1..n /\ k - 1 \in 0..n BY <1>1, <3>2
        <4>2. f[k - 1] \in S BY <4>1
        <4> HIDE DEF Round
        <4>3. QED BY <1>4, <3>2, <4>1, <4>2
      <3>3. QED BY <3>1, <3>2
    <2> HIDE DEF Round
    <2>2. f = [k \in 0..n |-> f[k]] OBVIOUS
    <2>3. QED BY <2>1, <2>2
  <1> DEFINE g == CHOOSE r : r = [k \in 0..n |-> IF k = 0 THEN raw ELSE Round(r[k - 1], k)]
  <1>6. ResetAll(raw, lines, t) = g[n] BY Zenon DEF ResetAll, n
  <1>7. g = [k \in 0..n |-> IF k = 0 THEN raw ELSE Round(g[k - 1], k)] BY Zenon, <1>5
  <1> HIDE DEF g
  <1>8. g[0] = raw
    <2> HIDE DEF Round
    <2>1. QED BY <1>1, <1>7
  <1>9. ASSUME NEW k \in 1..n PROVE g[k] = Round(g[k - 1], k)
    <2>1. k \in 0..n /\ k # 0 BY <1>1
    <2> HIDE DEF Round
    <2>2. QED BY <1>7, <2>1
  <1>10. \A k \in 0..n : g[k] \in S
    <2> DEFINE K == {k \in 0..n : g[k] \in S}
    <2>1. 0 \in K BY <1>1, <1>8
    <2>2. ASSUME NEW k \in 1..n, k - 1 \in K PROVE k \in K
      <3>1. Round(g[k - 1], k) \in S BY <1>2, <2>2
      <3>2. QED BY <1>1, <1>9, <3>1
    <2> HIDE DEF K
    <2>3. \A k \in 0..n : k \in K BY <1>1, <2>1, <2>2, EveryRound
    <2>4. QED BY <2>3 DEF K
  <1>11. QED BY <1>6, <1>8, <1>9, <1>10 DEF n, S

(* A loop of resets leaves the template on the lines it visited. *)
LEMMA ResetRows ==
  ASSUME NEW raw \in Good, NEW lines \in Seq(Int), NEW t \in Row,
         \A k \in 1..Len(lines) : lines[k] \in LinesOf(raw)
  PROVE  /\ ResetAll(raw, lines, t) \in Same(raw)
         /\ \A l \in LinesOf(raw) :
              RowAt(ResetAll(raw, lines, t), l) =
                IF \E k \in 1..Len(lines) : lines[k] = l THEN t ELSE RowAt(raw, l)
  <1> DEFINE n == Len(lines)
  <1>1. PICK r : /\ \A k \in 0..n : r[k] \in Same(raw)
                 /\ r[0] = raw
                 /\ \A k \in 1..n : r[k] = SetRow(r[k - 1], lines[k], t)
                 /\ ResetAll(raw, lines, t) = r[n]
    BY ResetLoop
  <1>2. n \in Nat OBVIOUS
  <1> DEFINE K == {k \in 0..n : \A l \in LinesOf(raw) :
                     RowAt(r[k], l) = IF \E j \in 1..k : lines[j] = l THEN t ELSE RowAt(raw, l)}
  <1>3. 0 \in K BY <1>1, <1>2
  <1>4. ASSUME NEW k \in 1..n, k - 1 \in K PROVE k \in K
    <2> DEFINE q == r[k - 1]
    <2>1. /\ k \in 0..n /\ k - 1 \in 0..n /\ k \in Int
          /\ \A j \in 1..k : j = k \/ j \in 1..(k - 1)
          /\ \A j \in 1..(k - 1) : j \in 1..k
      BY <1>2
    <2>2. q \in Good /\ LinesOf(q) = LinesOf(raw) BY <1>1, <2>1, SameLines
    <2>3. r[k] = SetRow(q, lines[k], t) /\ lines[k] \in LinesOf(q) BY <1>1, <2>2
    <2>4. \A l \in LinesOf(raw) : RowAt(q, l) = IF \E j \in 1..(k - 1) : lines[j] = l THEN t ELSE RowAt(raw, l)
      BY <1>4
    <2> HIDE DEF q, K, n
    <2>5. ASSUME NEW l \in LinesOf(raw)
          PROVE  RowAt(r[k], l) = IF \E j \in 1..k : lines[j] = l THEN t ELSE RowAt(raw, l)
      <3>1. RowAt(r[k], l) = IF l = lines[k] THEN t ELSE RowAt(q, l) BY <2>2, <2>3, SetRowRows
      <3>2. RowAt(q, l) = IF \E j \in 1..(k - 1) : lines[j] = l THEN t ELSE RowAt(raw, l)
        BY <2>4
      <3>3. (\E j \in 1..k : lines[j] = l) <=> (lines[k] = l \/ \E j \in 1..(k - 1) : lines[j] = l)
        BY <2>1
      <3>4. QED BY <3>1, <3>2, <3>3
    <2>6. QED BY <2>1, <2>5 DEF K
  <1> HIDE DEF K
  <1>5. \A k \in 0..n : k \in K BY <1>2, <1>3, <1>4, EveryRound
  <1>6. n \in K BY <1>2, <1>5
  <1>7. n \in 0..n BY <1>2
  <1>8. QED BY <1>1, <1>6, <1>7 DEF K

(* What n swaps of two lines p apart do, going down from line a: R[k] are
   the lines in L after k of them.  The lines move up by p, and those that
   they replace end up behind the last one. *)
SwapsDown(n, p, a, L, R) ==
  \A k \in 1..n :
    /\ a + k - 1 \in L /\ a + k - 1 + p \in L
    /\ \A l \in L : R[k][l] = IF l = a + k - 1 + p THEN R[k - 1][a + k - 1]
                              ELSE IF l = a + k - 1 THEN R[k - 1][a + k - 1 + p]
                              ELSE R[k - 1][l]

MovedUp(n, p, a, L, R) ==
  \A l \in L : /\ a <= l /\ l < a + n => R[n][l] = R[0][l + p]
               /\ a + n <= l /\ l < a + n + p
                  => \E m \in L : a <= m /\ m < a + p /\ R[n][l] = R[0][m]
               /\ l < a \/ l >= a + n + p => R[n][l] = R[0][l]

(* By induction over the rounds: each swap moves one row up by p. *)
LEMMA SwapsGoingDown ==
  ASSUME NEW n \in Nat, NEW p \in Nat, NEW a \in Int, NEW L \in SUBSET Int, NEW R,
         SwapsDown(n, p, a, L, R)
  PROVE  MovedUp(n, p, a, L, R)
  <1> DEFINE Moved(k) ==
               \A l \in L : /\ a <= l /\ l < a + k => R[k][l] = R[0][l + p]
                            /\ a + k <= l /\ l < a + k + p
                               => \E m \in L : a <= m /\ m < a + p /\ R[k][l] = R[0][m]
                            /\ l < a \/ l >= a + k + p => R[k][l] = R[0][l]
             K == {k \in 0..n : Moved(k)}
  <1>1. 0 \in K
    <2>1. ASSUME NEW l \in L
          PROVE  /\ a <= l /\ l < a + 0 => R[0][l] = R[0][l + p]
                 /\ a + 0 <= l /\ l < a + 0 + p
                    => \E m \in L : a <= m /\ m < a + p /\ R[0][l] = R[0][m]
                 /\ l < a \/ l >= a + 0 + p => R[0][l] = R[0][l]
      <3>1. l \in Int OBVIOUS
      <3>2. QED BY <3>1
    <2>2. Moved(0) BY <2>1
    <2> HIDE DEF Moved
    <2>3. QED BY <2>2
  <1>2. ASSUME NEW k \in 1..n, k - 1 \in K PROVE k \in K
    <2> DEFINE j == a + k - 1
    <2>1. j \in Int /\ j = a + (k - 1) /\ j \in L /\ j + p \in L BY DEF SwapsDown
    <2>2. \A l \in L : R[k][l] = IF l = j + p THEN R[k - 1][j]
                                 ELSE IF l = j THEN R[k - 1][j + p] ELSE R[k - 1][l]
      BY DEF SwapsDown
    <2>3. \A l \in L : /\ a <= l /\ l < j => R[k - 1][l] = R[0][l + p]
                       /\ j <= l /\ l < j + p
                          => \E m \in L : a <= m /\ m < a + p /\ R[k - 1][l] = R[0][m]
                       /\ l < a \/ l >= j + p => R[k - 1][l] = R[0][l]
      BY <1>2, <2>1
    <2>4. k \in 0..n /\ a + k = j + 1 /\ a <= j OBVIOUS
    <2> HIDE DEF j
    <2>5. ASSUME NEW l \in L
          PROVE  /\ a <= l /\ l < j + 1 => R[k][l] = R[0][l + p]
                 /\ j + 1 <= l /\ l < j + 1 + p
                    => \E m \in L : a <= m /\ m < a + p /\ R[k][l] = R[0][m]
                 /\ l < a \/ l >= j + 1 + p => R[k][l] = R[0][l]
      <3>1. l \in Int OBVIOUS
      <3>2. CASE l # j /\ l # j + p
        <4>1. R[k][l] = R[k - 1][l] BY <2>2, <3>2
        <4>2. /\ a <= l /\ l < j => R[k - 1][l] = R[0][l + p]
              /\ j <= l /\ l < j + p
                 => \E m \in L : a <= m /\ m < a + p /\ R[k - 1][l] = R[0][m]
              /\ l < a \/ l >= j + p => R[k - 1][l] = R[0][l]
          BY <2>3
        <4>3. QED BY <2>1, <3>1, <3>2, <4>1, <4>2
      <3>3. CASE l = j
        <4>1. R[k][l] = R[k - 1][l + p] BY <2>2, <3>3
        <4>2. R[k - 1][l + p] = R[0][l + p] BY <2>1, <2>3, <3>3
        <4>3. QED BY <2>1, <2>4, <3>3, <4>1, <4>2
      <3>4. CASE l = j + p /\ p # 0
        <4>1. R[k][l] = R[k - 1][j] BY <2>2, <3>4
        <4>2. \E m \in L : a <= m /\ m < a + p /\ R[k - 1][j] = R[0][m] BY <2>1, <2>3, <3>4
        <4>3. QED BY <2>1, <2>4, <3>4, <4>1, <4>2
      <3>5. QED BY <2>1, <3>2, <3>3, <3>4
    <2>6. Moved(k) BY <2>4, <2>5
    <2> HIDE DEF Moved
    <2>7. QED BY <2>4, <2>6
  <1> HIDE DEF Moved
  <1>3. \A k \in 0..n : k \in K
    <2> HIDE DEF K
    <2>1. QED BY <1>1, <1>2, EveryRound
  <1>4. Moved(n) BY <1>3
  <1>5. QED BY <1>4 DEF Moved, MovedUp

(* The same, going up from line b - 1. *)
SwapsUp(n, p, b, L, R) ==
  \A k \in 1..n :
    /\ b - k \in L /\ b - k - p \in L
    /\ \A l \in L : R[k][l] = IF l = b - k - p THEN R[k - 1][b - k]
                              ELSE IF l = b - k THEN R[k - 1][b - k - p]
                              ELSE R[k - 1][l]

MovedDown(n, p, b, L, R) ==
  \A l \in L : /\ b - n <= l /\ l < b => R[n][l] = R[0][l - p]
               /\ l < b - n - p \/ l >= b => R[n][l] = R[0][l]

(* The same from the bottom: each swap moves one row down by p. *)
LEMMA SwapsGoingUp ==
  ASSUME NEW n \in Nat, NEW p \in Nat, NEW b \in Int, NEW L \in SUBSET Int, NEW R,
         SwapsUp(n, p, b, L, R)
  PROVE  MovedDown(n, p, b, L, R)
  <1> DEFINE Moved(k) ==
               \A l \in L : /\ b - k <= l /\ l < b => R[k][l] = R[0][l - p]
                            /\ l < b - k - p \/ l >= b => R[k][l] = R[0][l]
             K == {k \in 0..n : Moved(k)}
  <1>1. 0 \in K
    <2>1. ASSUME NEW l \in L
          PROVE  /\ b - 0 <= l /\ l < b => R[0][l] = R[0][l - p]
                 /\ l < b - 0 - p \/ l >= b => R[0][l] = R[0][l]
      <3>1. l \in Int OBVIOUS
      <3>2. QED BY <3>1
    <2>2. Moved(0) BY <2>1
    <2> HIDE DEF Moved
    <2>3. QED BY <2>2
  <1>2. ASSUME NEW k \in 1..n, k - 1 \in K PROVE k \in K
    <2> DEFINE j == b - k
    <2>1. j \in Int /\ j + 1 = b - (k - 1) /\ j \in L /\ j - p \in L BY DEF SwapsUp
    <2>2. \A l \in L : R[k][l] = IF l = j - p THEN R[k - 1][j]
                                 ELSE IF l = j THEN R[k - 1][j - p] ELSE R[k - 1][l]
      BY DEF SwapsUp
    <2>3. \A l \in L : /\ j + 1 <= l /\ l < b => R[k - 1][l] = R[0][l - p]
                       /\ l < j + 1 - p \/ l >= b => R[k - 1][l] = R[0][l]
      <3>1. Moved(k - 1) /\ b - (k - 1) = j + 1 /\ b - (k - 1) - p = j + 1 - p BY <1>2, <2>1
      <3> HIDE DEF j
      <3>2. QED BY <3>1
    <2>4. k \in 0..n /\ j < b OBVIOUS
    <2> HIDE DEF j
    <2>5. ASSUME NEW l \in L
          PROVE  /\ j <= l /\ l < b => R[k][l] = R[0][l - p]
                 /\ l < j - p \/ l >= b => R[k][l] = R[0][l]
      <3>1. l \in Int OBVIOUS
      <3>2. CASE l # j /\ l # j - p
        <4>1. R[k][l] = R[k - 1][l] BY <2>2, <3>2
        <4>2. QED BY <2>1, <2>3, <3>1, <3>2, <4>1
      <3>3. CASE l = j
        <4>1. R[k][l] = R[k - 1][l - p] BY <2>2, <3>3
        <4>2. R[k - 1][l - p] = R[0][l - p] BY <2>1, <2>3, <3>3
        <4>3. QED BY <2>1, <2>4, <3>3, <4>1, <4>2
      <3>4. CASE l = j - p /\ p # 0
        BY <2>1, <2>4, <3>4
      <3>5. QED BY <2>1, <3>2, <3>3, <3>4
    <2>6. Moved(k) BY <2>5 DEF j
    <2> HIDE DEF Moved
    <2>7. QED BY <2>4, <2>6
  <1> HIDE DEF Moved
  <1>3. \A k \in 0..n : k \in K
    <2> HIDE DEF K
    <2>1. QED BY <1>1, <1>2, EveryRound
  <1>4. Moved(n) BY <1>3
  <1>5. QED BY <1>4 DEF Moved, MovedDown


(* The lines that a loop over a range visits, in either order. *)
LEMMA DownwardIs ==
  ASSUME NEW from \in Int, NEW to \in Int, from <= to
  PROVE  /\ Downward(from, to) \in Seq(Int) /\ Len(Downward(from, to)) = to - from
         /\ \A k \in 1..(to - from) : Downward(from, to)[k] = from + k - 1
  BY DEF Downward

(* From the last line of the range to its first. *)
LEMMA UpwardIs ==
  ASSUME NEW from \in Int, NEW to \in Int, from <= to
  PROVE  /\ Upward(from, to) \in Seq(Int) /\ Len(Upward(from, to)) = to - from
         /\ \A k \in 1..(to - from) : Upward(from, to)[k] = to - k
  BY DEF Upward

(* The lines from..to - 1 of t come from p lines below, or above, in raw. *)
FromBelow(raw, t, from, to, p) ==
  /\ t \in Same(raw)
  /\ \A l \in LinesOf(raw) :
       /\ from <= l /\ l < to => RowAt(t, l) = RowAt(raw, l + p)
       /\ to <= l /\ l < to + p
          => \E m \in LinesOf(raw) : from <= m /\ m < from + p /\ RowAt(t, l) = RowAt(raw, m)
       /\ l < from \/ l >= to + p => RowAt(t, l) = RowAt(raw, l)

FromAbove(raw, t, from, to, p) ==
  /\ t \in Same(raw)
  /\ \A l \in LinesOf(raw) :
       /\ from <= l /\ l < to => RowAt(t, l) = RowAt(raw, l - p)
       /\ l < from - p \/ l >= to => RowAt(t, l) = RowAt(raw, l)

(* Swapping each line of from..to - 1 with the one p below it, top down, moves
   lines up: those that lay above them are behind them afterwards. *)
LEMMA SwapUpRows ==
  ASSUME NEW raw \in Good, NEW from \in Int, NEW to \in Int, from <= to, NEW p \in Nat,
         \A l \in Int : from <= l /\ l < to => l \in LinesOf(raw) /\ l + p \in LinesOf(raw)
  PROVE  FromBelow(raw, SwapAll(raw, Downward(from, to), p), from, to, p)
  <1> DEFINE t == SwapAll(raw, Downward(from, to), p)
             lines == Downward(from, to)
             L == LinesOf(raw)
             n == to - from
             a == from
  <1>1. /\ lines \in Seq(Int) /\ Len(lines) = n /\ n \in Nat /\ p \in Int
        /\ \A k \in 1..n : lines[k] = from + k - 1
    BY DownwardIs
  <1>2. L \in SUBSET Int BY GoodNums DEF LinesOf
  <1> HIDE DEF lines, n
  <1>3. \A k \in 1..n : lines[k] \in L /\ lines[k] + p \in L
    <2>1. ASSUME NEW k \in 1..n PROVE lines[k] \in L /\ lines[k] + p \in L
      <3>1. lines[k] \in Int /\ from <= lines[k] /\ lines[k] < to BY <1>1 DEF n
      <3>2. lines[k] \in L /\ lines[k] + p \in L BY <3>1
      <3>3. lines[k] + p = lines[k] + p BY <3>1
      <3>4. QED BY <3>2, <3>3
    <2>2. QED BY <2>1
  <1>4. PICK r : /\ \A k \in 0..n : r[k] \in Same(raw)
                 /\ r[0] = raw
                 /\ \A k \in 1..n : r[k] = swap(r[k - 1], lines[k], lines[k] + p)
                 /\ t = r[n]
    <2>1. PICK r : Swapped(raw, lines, p, r)
      <3> DEFINE d == p
      <3>1. d \in Int BY <1>1
      <3>2. \A k \in 1..Len(lines) : lines[k] \in LinesOf(raw) /\ lines[k] + d \in LinesOf(raw)
        BY <1>1, <1>3
      <3> HIDE DEF d
      <3>3. \E r : Swapped(raw, lines, d, r) BY <1>1, <3>1, <3>2, SwapLoop
      <3>4. QED BY <3>3 DEF d
    <2>2. t = SwapAll(raw, lines, p) BY DEF lines
    <2> HIDE DEF t
    <2>3. QED BY <1>1, <2>1, <2>2 DEF Swapped
  <1> HIDE DEF t
  <1> DEFINE R == [k \in 0..n |-> [l \in L |-> RowAt(r[k], l)]]
  <1>5. /\ \A l \in L : R[0][l] = RowAt(raw, l) /\ R[n][l] = RowAt(t, l)
        /\ t \in Same(raw)
    BY <1>1, <1>4
  <1>6. ASSUME NEW k \in 1..n
        PROVE  /\ a + k - 1 \in L /\ a + k - 1 + p \in L
               /\ \A l \in L : R[k][l] = IF l = a + k - 1 + p THEN R[k - 1][a + k - 1]
                                         ELSE IF l = a + k - 1 THEN R[k - 1][a + k - 1 + p]
                                         ELSE R[k - 1][l]
    <2> DEFINE q == r[k - 1]
    <2>1. k \in 0..n /\ k - 1 \in 0..n BY <1>1
    <2>2. q \in Good /\ LinesOf(q) = L BY <1>4, <2>1, SameLines
    <2>3. r[k] = swap(q, lines[k], lines[k] + p) BY <1>4
    <2>4. lines[k] \in L /\ lines[k] + p \in L BY <1>3
    <2>5. a + k - 1 = lines[k] /\ a + k - 1 + p = lines[k] + p
      BY <1>1
    <2> HIDE DEF q, L
    <2>6. \A l \in L : RowAt(r[k], l) = IF l = lines[k] + p THEN RowAt(q, lines[k])
                                        ELSE IF l = lines[k] THEN RowAt(q, lines[k] + p)
                                        ELSE RowAt(q, l)
      BY <2>2, <2>3, <2>4, SwapRows
    <2>7. \A l \in L : R[k][l] = RowAt(r[k], l) /\ R[k - 1][l] = RowAt(q, l) BY <2>1 DEF q
    <2> HIDE DEF R
    <2>8. QED BY <2>4, <2>5, <2>6, <2>7
  <1> HIDE DEF R, L
  <1>7. \A l \in L : /\ a <= l /\ l < a + n => R[n][l] = R[0][l + p]
                     /\ a + n <= l /\ l < a + n + p
                        => \E m \in L : a <= m /\ m < a + p /\ R[n][l] = R[0][m]
                     /\ l < a \/ l >= a + n + p => R[n][l] = R[0][l]
    <2>1. a \in Int OBVIOUS
    <2>2. SwapsDown(n, p, a, L, R) BY <1>6, Zenon DEF SwapsDown
    <2> HIDE DEF a
    <2>3. MovedUp(n, p, a, L, R) BY <1>1, <1>2, <2>1, <2>2, SwapsGoingDown
    <2>4. QED BY <2>3, Zenon DEF MovedUp
  <1>8. \A l \in Int : from <= l /\ l < to => l + p \in L BY DEF L
  <1>9. from \in Int /\ to \in Int /\ from + n = to /\ from + n + p = to + p BY DEF n
  <1>10. ASSUME NEW l \in L
         PROVE  LET row == RowAt(t, l)
              IN  /\ from <= l /\ l < to => row = RowAt(raw, l + p)
                  /\ to <= l /\ l < to + p
                     => \E m \in L : from <= m /\ m < from + p /\ row = RowAt(raw, m)
                  /\ l < from \/ l >= to + p => row = RowAt(raw, l)
    <2>1. l \in Int /\ R[n][l] = RowAt(t, l) /\ R[0][l] = RowAt(raw, l)
          /\ \A m \in L : R[0][m] = RowAt(raw, m)
      BY <1>2, <1>5
    <2>2. ASSUME from <= l, l < to PROVE RowAt(t, l) = RowAt(raw, l + p)
      <3>1. l + p \in L /\ R[n][l] = R[0][l + p] BY <1>7, <1>8, <1>9, <2>1, <2>2
      <3>2. QED BY <2>1, <3>1
    <2>3. ASSUME to <= l, l < to + p
          PROVE  \E m \in L : from <= m /\ m < from + p /\ RowAt(t, l) = RowAt(raw, m)
      <3>1. PICK m \in L : from <= m /\ m < from + p /\ R[n][l] = R[0][m]
        BY <1>7, <1>9, <2>1, <2>3
      <3>2. QED BY <2>1, <3>1
    <2>4. ASSUME l < from \/ l >= to + p PROVE RowAt(t, l) = RowAt(raw, l)
      <3>1. R[n][l] = R[0][l] BY <1>7, <1>9, <2>1, <2>4
      <3>2. QED BY <2>1, <3>1
    <2>5. QED BY <2>2, <2>3, <2>4
  <1>11. QED BY <1>5, <1>10 DEF t, L, FromBelow

(* Swapping each with the one p above it, top down, moves them up too. *)
LEMMA SwapUpRowsBelow ==
  ASSUME NEW raw \in Good, NEW from \in Int, NEW to \in Int, from <= to, NEW p \in Nat,
         \A l \in Int : from <= l /\ l < to => l \in LinesOf(raw) /\ l - p \in LinesOf(raw)
  PROVE  FromBelow(raw, SwapAll(raw, Downward(from, to), -p), from - p, to - p, p)
  <1> DEFINE t == SwapAll(raw, Downward(from, to), -p)
             lines == Downward(from, to)
             L == LinesOf(raw)
             n == to - from
             a == from - p
  <1>1. /\ lines \in Seq(Int) /\ Len(lines) = n /\ n \in Nat /\ -p \in Int
        /\ \A k \in 1..n : lines[k] = from + k - 1
    BY DownwardIs
  <1>2. L \in SUBSET Int BY GoodNums DEF LinesOf
  <1> HIDE DEF lines, n
  <1>3. \A k \in 1..n : lines[k] \in L /\ lines[k] + (-p) \in L
    <2>1. ASSUME NEW k \in 1..n PROVE lines[k] \in L /\ lines[k] + (-p) \in L
      <3>1. lines[k] \in Int /\ from <= lines[k] /\ lines[k] < to BY <1>1 DEF n
      <3>2. lines[k] \in L /\ lines[k] - p \in L BY <3>1
      <3>3. lines[k] - p = lines[k] + (-p) BY <3>1
      <3>4. QED BY <3>2, <3>3
    <2>2. QED BY <2>1
  <1>4. PICK r : /\ \A k \in 0..n : r[k] \in Same(raw)
                 /\ r[0] = raw
                 /\ \A k \in 1..n : r[k] = swap(r[k - 1], lines[k], lines[k] + (-p))
                 /\ t = r[n]
    <2>1. PICK r : Swapped(raw, lines, -p, r)
      <3> DEFINE d == -p
      <3>1. d \in Int BY <1>1
      <3>2. \A k \in 1..Len(lines) : lines[k] \in LinesOf(raw) /\ lines[k] + d \in LinesOf(raw)
        BY <1>1, <1>3
      <3> HIDE DEF d
      <3>3. \E r : Swapped(raw, lines, d, r) BY <1>1, <3>1, <3>2, SwapLoop
      <3>4. QED BY <3>3 DEF d
    <2>2. t = SwapAll(raw, lines, -p) BY DEF lines
    <2> HIDE DEF t
    <2>3. QED BY <1>1, <2>1, <2>2 DEF Swapped
  <1> HIDE DEF t
  <1> DEFINE R == [k \in 0..n |-> [l \in L |-> RowAt(r[k], l)]]
  <1>5. /\ \A l \in L : R[0][l] = RowAt(raw, l) /\ R[n][l] = RowAt(t, l)
        /\ t \in Same(raw)
    BY <1>1, <1>4
  <1>6. ASSUME NEW k \in 1..n
        PROVE  /\ a + k - 1 \in L /\ a + k - 1 + p \in L
               /\ \A l \in L : R[k][l] = IF l = a + k - 1 + p THEN R[k - 1][a + k - 1]
                                         ELSE IF l = a + k - 1 THEN R[k - 1][a + k - 1 + p]
                                         ELSE R[k - 1][l]
    <2> DEFINE q == r[k - 1]
    <2>1. k \in 0..n /\ k - 1 \in 0..n BY <1>1
    <2>2. q \in Good /\ LinesOf(q) = L BY <1>4, <2>1, SameLines
    <2>3. r[k] = swap(q, lines[k], lines[k] + (-p)) BY <1>4
    <2>4. lines[k] \in L /\ lines[k] + (-p) \in L BY <1>3
    <2>5. a + k - 1 = lines[k] + (-p) /\ a + k - 1 + p = lines[k]
      BY <1>1
    <2> HIDE DEF q, L
    <2>6. \A l \in L : RowAt(r[k], l) = IF l = lines[k] + (-p) THEN RowAt(q, lines[k])
                                        ELSE IF l = lines[k] THEN RowAt(q, lines[k] + (-p))
                                        ELSE RowAt(q, l)
      BY <2>2, <2>3, <2>4, SwapRows
    <2>7. \A l \in L : R[k][l] = RowAt(r[k], l) /\ R[k - 1][l] = RowAt(q, l) BY <2>1 DEF q
    <2> HIDE DEF R
    <2>8. QED BY <2>4, <2>5, <2>6, <2>7
  <1> HIDE DEF R, L
  <1>7. \A l \in L : /\ a <= l /\ l < a + n => R[n][l] = R[0][l + p]
                     /\ a + n <= l /\ l < a + n + p
                        => \E m \in L : a <= m /\ m < a + p /\ R[n][l] = R[0][m]
                     /\ l < a \/ l >= a + n + p => R[n][l] = R[0][l]
    <2>1. a \in Int OBVIOUS
    <2>2. SwapsDown(n, p, a, L, R) BY <1>6, Zenon DEF SwapsDown
    <2> HIDE DEF a
    <2>3. MovedUp(n, p, a, L, R) BY <1>1, <1>2, <2>1, <2>2, SwapsGoingDown
    <2>4. QED BY <2>3, Zenon DEF MovedUp
  <1>8. \A l \in Int : from <= l /\ l < to => l - p \in L BY DEF L
  <1>9. from \in Int /\ to \in Int /\ from + n = to /\ from + n + p = to + p BY DEF n
  <1>10. ASSUME NEW l \in L
         PROVE  LET row == RowAt(t, l)
              IN  /\ from - p <= l /\ l < to - p => row = RowAt(raw, l + p)
                  /\ to - p <= l /\ l < to
                     => \E m \in L : from - p <= m /\ m < from /\ row = RowAt(raw, m)
                  /\ l < from - p \/ l >= to => row = RowAt(raw, l)
    <2>1. l \in Int /\ R[n][l] = RowAt(t, l) /\ R[0][l] = RowAt(raw, l)
          /\ \A m \in L : R[0][m] = RowAt(raw, m)
      BY <1>2, <1>5
    <2>2. ASSUME from - p <= l, l < to - p PROVE RowAt(t, l) = RowAt(raw, l + p)
      <3>1. l + p \in Int /\ from <= l + p /\ l + p < to BY <1>9, <2>1, <2>2
      <3>2. l + p \in L BY <3>1 DEF L
      <3>3. a <= l /\ l < a + n BY <1>1, <1>9, <2>1, <2>2
      <3>4. R[n][l] = R[0][l + p] BY <1>7, <3>3
      <3>5. QED BY <2>1, <3>2, <3>4
    <2>3. ASSUME l < from - p \/ l >= to PROVE RowAt(t, l) = RowAt(raw, l)
      <3>1. R[n][l] = R[0][l] BY <1>1, <1>7, <1>9, <2>1, <2>3
      <3>2. QED BY <2>1, <3>1
    <2>4. ASSUME to - p <= l, l < to
          PROVE  \E m \in L : from - p <= m /\ m < from /\ RowAt(t, l) = RowAt(raw, m)
      <3>1. a + n <= l /\ l < a + n + p /\ a + p = from BY <1>1, <1>9, <2>1, <2>4
      <3>2. PICK m \in L : a <= m /\ m < a + p /\ R[n][l] = R[0][m] BY <1>7, <3>1
      <3>3. QED BY <2>1, <3>1, <3>2
    <2>5. QED BY <2>2, <2>3, <2>4
  <1>11. (to - p) + p = to /\ (from - p) + p = from BY <1>9
  <1>12. QED BY <1>5, <1>10, <1>11 DEF t, L, FromBelow

(* Swapping each with the one p above it, bottom up, moves them down. *)
LEMMA SwapDownRows ==
  ASSUME NEW raw \in Good, NEW from \in Int, NEW to \in Int, from <= to, NEW p \in Nat,
         \A l \in Int : from <= l /\ l < to => l \in LinesOf(raw) /\ l - p \in LinesOf(raw)
  PROVE  FromAbove(raw, SwapAll(raw, Upward(from, to), -p), from, to, p)
  <1> DEFINE t == SwapAll(raw, Upward(from, to), -p)
             lines == Upward(from, to)
             L == LinesOf(raw)
             n == to - from
             a == to
  <1>1. /\ lines \in Seq(Int) /\ Len(lines) = n /\ n \in Nat /\ -p \in Int
        /\ \A k \in 1..n : lines[k] = to - k
    BY UpwardIs
  <1>2. L \in SUBSET Int BY GoodNums DEF LinesOf
  <1> HIDE DEF lines, n
  <1>3. \A k \in 1..n : lines[k] \in L /\ lines[k] + (-p) \in L
    <2>1. ASSUME NEW k \in 1..n PROVE lines[k] \in L /\ lines[k] + (-p) \in L
      <3>1. lines[k] \in Int /\ from <= lines[k] /\ lines[k] < to BY <1>1 DEF n
      <3>2. lines[k] \in L /\ lines[k] - p \in L BY <3>1
      <3>3. lines[k] - p = lines[k] + (-p) BY <3>1
      <3>4. QED BY <3>2, <3>3
    <2>2. QED BY <2>1
  <1>4. PICK r : /\ \A k \in 0..n : r[k] \in Same(raw)
                 /\ r[0] = raw
                 /\ \A k \in 1..n : r[k] = swap(r[k - 1], lines[k], lines[k] + (-p))
                 /\ t = r[n]
    <2>1. PICK r : Swapped(raw, lines, -p, r)
      <3> DEFINE d == -p
      <3>1. d \in Int BY <1>1
      <3>2. \A k \in 1..Len(lines) : lines[k] \in LinesOf(raw) /\ lines[k] + d \in LinesOf(raw)
        BY <1>1, <1>3
      <3> HIDE DEF d
      <3>3. \E r : Swapped(raw, lines, d, r) BY <1>1, <3>1, <3>2, SwapLoop
      <3>4. QED BY <3>3 DEF d
    <2>2. t = SwapAll(raw, lines, -p) BY DEF lines
    <2> HIDE DEF t
    <2>3. QED BY <1>1, <2>1, <2>2 DEF Swapped
  <1> HIDE DEF t
  <1> DEFINE R == [k \in 0..n |-> [l \in L |-> RowAt(r[k], l)]]
  <1>5. /\ \A l \in L : R[0][l] = RowAt(raw, l) /\ R[n][l] = RowAt(t, l)
        /\ t \in Same(raw)
    BY <1>1, <1>4
  <1>6. ASSUME NEW k \in 1..n
        PROVE  /\ a - k \in L /\ a - k - p \in L
               /\ \A l \in L : R[k][l] = IF l = a - k - p THEN R[k - 1][a - k]
                                         ELSE IF l = a - k THEN R[k - 1][a - k - p]
                                         ELSE R[k - 1][l]
    <2> DEFINE q == r[k - 1]
    <2>1. k \in 0..n /\ k - 1 \in 0..n BY <1>1
    <2>2. q \in Good /\ LinesOf(q) = L BY <1>4, <2>1, SameLines
    <2>3. r[k] = swap(q, lines[k], lines[k] + (-p)) BY <1>4
    <2>4. lines[k] \in L /\ lines[k] + (-p) \in L BY <1>3
    <2>5. a - k = lines[k] /\ a - k - p = lines[k] + (-p)
      BY <1>1
    <2> HIDE DEF q, L
    <2>6. \A l \in L : RowAt(r[k], l) = IF l = lines[k] + (-p) THEN RowAt(q, lines[k])
                                        ELSE IF l = lines[k] THEN RowAt(q, lines[k] + (-p))
                                        ELSE RowAt(q, l)
      BY <2>2, <2>3, <2>4, SwapRows
    <2>7. \A l \in L : R[k][l] = RowAt(r[k], l) /\ R[k - 1][l] = RowAt(q, l) BY <2>1 DEF q
    <2> HIDE DEF R
    <2>8. QED BY <2>4, <2>5, <2>6, <2>7
  <1> HIDE DEF R, L
  <1>7. \A l \in L : /\ a - n <= l /\ l < a => R[n][l] = R[0][l - p]
                     /\ l < a - n - p \/ l >= a => R[n][l] = R[0][l]
    <2>1. a \in Int OBVIOUS
    <2>2. SwapsUp(n, p, a, L, R) BY <1>6, Zenon DEF SwapsUp
    <2> HIDE DEF a
    <2>3. MovedDown(n, p, a, L, R) BY <1>1, <1>2, <2>1, <2>2, SwapsGoingUp
    <2>4. QED BY <2>3, Zenon DEF MovedDown
  <1>8. \A l \in Int : from <= l /\ l < to => l - p \in L BY DEF L
  <1>9. from \in Int /\ to \in Int /\ from + n = to /\ from + n + p = to + p BY DEF n
  <1>10. ASSUME NEW l \in L
         PROVE  LET row == RowAt(t, l)
              IN  /\ from <= l /\ l < to => row = RowAt(raw, l - p)
                  /\ l < from - p \/ l >= to => row = RowAt(raw, l)
    <2>1. l \in Int /\ R[n][l] = RowAt(t, l) /\ R[0][l] = RowAt(raw, l)
          /\ \A m \in L : R[0][m] = RowAt(raw, m)
      BY <1>2, <1>5
    <2>2. ASSUME from <= l, l < to PROVE RowAt(t, l) = RowAt(raw, l - p)
      <3>1. l - p \in L BY <1>8, <2>1, <2>2
      <3>2. a - n <= l /\ l < a BY <1>1, <1>9, <2>1, <2>2
      <3>3. R[n][l] = R[0][l - p] BY <1>7, <3>2
      <3>4. QED BY <2>1, <3>1, <3>3
    <2>3. ASSUME l < from - p \/ l >= to PROVE RowAt(t, l) = RowAt(raw, l)
      <3>1. R[n][l] = R[0][l] BY <1>1, <1>7, <1>9, <2>1, <2>3
      <3>2. QED BY <2>1, <3>1
    <2>4. QED BY <2>2, <2>3
  <1>11. QED BY <1>5, <1>10 DEF t, L, FromAbove

(* Resetting the lines from..to - 1, in either order. *)
LEMMA ResetRange ==
  ASSUME NEW raw \in Good, NEW from \in Int, NEW to \in Int, from <= to, NEW t \in Row,
         \A l \in Int : from <= l /\ l < to => l \in LinesOf(raw),
         NEW lines \in {Downward(from, to), Upward(from, to)}
  PROVE  /\ ResetAll(raw, lines, t) \in Same(raw)
         /\ \A l \in LinesOf(raw) :
              RowAt(ResetAll(raw, lines, t), l) =
                IF from <= l /\ l < to THEN t ELSE RowAt(raw, l)
  <1>1. lines \in Seq(Int) /\ Len(lines) = to - from BY DownwardIs, UpwardIs
  <1>2. ASSUME NEW k \in 1..Len(lines) PROVE lines[k] \in Int /\ from <= lines[k] /\ lines[k] < to
    <2>1. CASE lines = Downward(from, to)
      <3>1. lines[k] = from + k - 1 BY <1>1, <2>1, DownwardIs
      <3>2. QED BY <1>1, <3>1
    <2>2. CASE lines = Upward(from, to)
      <3>1. lines[k] = to - k BY <1>1, <2>2, UpwardIs
      <3>2. QED BY <1>1, <3>1
    <2>3. QED BY <2>1, <2>2
  <1>3. ASSUME NEW l \in Int, from <= l, l < to PROVE \E k \in 1..Len(lines) : lines[k] = l
    <2>1. CASE lines = Downward(from, to)
      <3> DEFINE k == l - from + 1
      <3>1. k \in 1..(to - from) /\ from + k - 1 = l BY <1>3
      <3> HIDE DEF k
      <3>2. lines[k] = l BY <2>1, <3>1, DownwardIs
      <3>3. QED BY <1>1, <3>1, <3>2
    <2>2. CASE lines = Upward(from, to)
      <3> DEFINE k == to - l
      <3>1. k \in 1..(to - from) /\ to - k = l BY <1>3
      <3> HIDE DEF k
      <3>2. lines[k] = l BY <2>2, <3>1, UpwardIs
      <3>3. QED BY <1>1, <3>1, <3>2
    <2>3. QED BY <2>1, <2>2
  <1>4. \A k \in 1..Len(lines) : lines[k] \in LinesOf(raw) BY <1>2
  <1>5. /\ ResetAll(raw, lines, t) \in Same(raw)
        /\ \A l \in LinesOf(raw) :
             RowAt(ResetAll(raw, lines, t), l) =
               IF \E k \in 1..Len(lines) : lines[k] = l THEN t ELSE RowAt(raw, l)
    BY <1>1, <1>4, ResetRows
  <1>6. \A l \in LinesOf(raw) : l \in Int BY GoodNums DEF LinesOf
  <1>7. QED BY <1>2, <1>3, <1>5, <1>6

-------------------------------------------------------------------------------
(* The grid's methods. *)

Cursors == [line: Nat, template: Templates]

Grids == [raw: Good, lines: Nat, display_offset: Nat, max_scroll_limit: Nat,
          cursor: Cursors, saved_cursor: Cursors]

(* A grid that its methods may be called on. *)
Sound(g) ==
  /\ g \in Grids
  /\ g.lines = g.raw.visible_lines
  /\ g.raw.len - g.lines <= g.max_scroll_limit

(* Methods that scroll keep everything but the rows and the view. *)
Kept(g, u) ==
  /\ u \in Grids /\ u.lines = g.lines /\ u.max_scroll_limit = g.max_scroll_limit
  /\ u.cursor = g.cursor /\ u.saved_cursor = g.saved_cursor

(* The numbers of a grid, and the lines it has. *)
LEMMA SoundFacts ==
  ASSUME NEW g, Sound(g)
  PROVE  /\ g \in Grids /\ g.raw \in Good /\ g.lines \in Nat /\ 1 <= g.lines
         /\ g.raw.len \in Nat /\ g.lines <= g.raw.len
         /\ g.lines = g.raw.visible_lines
         /\ g.max_scroll_limit \in Nat /\ g.display_offset \in Nat
         /\ history_size(g) = g.raw.len - g.lines
         /\ history_size(g) \in Nat /\ history_size(g) <= g.max_scroll_limit
         /\ g.cursor \in Cursors /\ g.saved_cursor \in Cursors
         /\ g.cursor.template \in Row /\ g.cursor.template \in Templates
         /\ LinesOf(g.raw) = (-history_size(g))..(g.lines - 1)
         /\ LinesOf(g.raw) \subseteq Int
  <1>1. g \in Grids /\ g.raw \in Good /\ g.lines = g.raw.visible_lines BY DEF Sound, Grids
  <1>2. g.raw.len \in Nat /\ g.lines \in Nat /\ 1 <= g.lines /\ g.lines <= g.raw.len BY <1>1, GoodNums
  <1>3. /\ g.max_scroll_limit \in Nat /\ g.display_offset \in Nat
        /\ g.cursor \in Cursors /\ g.saved_cursor \in Cursors
        /\ g.raw.len - g.lines <= g.max_scroll_limit
    BY <1>1 DEF Sound, Grids
  <1>4. g.cursor.template \in Templates BY <1>3 DEF Cursors
  <1>5. g.cursor.template \in Row BY <1>4, GridAssumption
  <1>6. history_size(g) = g.raw.len - g.lines BY <1>2 DEF history_size, MaxOf
  <1>7. LinesOf(g.raw) = (-history_size(g))..(g.lines - 1) BY <1>1, <1>2, <1>6 DEF LinesOf
  <1>8. QED BY <1>1, <1>2, <1>3, <1>4, <1>5, <1>6, <1>7

(* The scrollback after n more lines. *)
HistoryAfter(g, n) == MinOf(history_size(g) + n, g.max_scroll_limit)

(* Grid::increase_scroll_limit *)
LEMMA IncreaseRows ==
  ASSUME NEW g, Sound(g), NEW n \in Nat
  PROVE  LET more == increase_scroll_limit(g, n).raw
         IN  /\ more \in Good /\ more.visible_lines = g.lines
             /\ more.len = g.lines + HistoryAfter(g, n)
             /\ \A l \in LinesOf(g.raw) : l \in LinesOf(more) /\ RowAt(more, l) = RowAt(g.raw, l)
  <1> DEFINE more == increase_scroll_limit(g, n).raw
             count == MinOf(n, g.max_scroll_limit - history_size(g))
             s == g.raw
             r == initialize(s, count)
  <1>1. /\ count \in Nat /\ s.len + count = g.lines + HistoryAfter(g, n)
        /\ HistoryAfter(g, n) \in Nat
    <2> DEFINE h == history_size(g)
    <2>1. /\ h \in Nat /\ h <= g.max_scroll_limit /\ g.max_scroll_limit \in Nat
          /\ g.raw.len = g.lines + h /\ g.lines \in Nat
      BY SoundFacts
    <2> HIDE DEF h
    <2>2. QED BY <2>1 DEF HistoryAfter, MinOf, h
  <1>2. /\ s \in Good /\ s.visible_lines = g.lines /\ g \in Grids /\ s.len \in Nat
        /\ g.lines \in Nat /\ 1 <= g.lines /\ g.lines <= s.len
    BY SoundFacts
  <1>3. more = IF count # 0 THEN r ELSE s
    <2>1. increase_scroll_limit(g, n) = IF count # 0 THEN [g EXCEPT !.raw = r] ELSE g
      BY Zenon DEF increase_scroll_limit
    <2> HIDE DEF count, r
    <2>2. QED BY <1>2, <2>1 DEF Grids
  <1> HIDE DEF more, count, s
  <1>4. CASE count = 0
    <2>1. more = s BY <1>3, <1>4
    <2>2. QED BY <1>1, <1>2, <1>4, <2>1 DEF more, s
  <1>5. CASE count # 0
    <2>1. more = r BY <1>3, <1>5
    <2>2. /\ r \in Good /\ r.len = s.len + count /\ r.visible_lines = g.lines
          /\ \A i \in 1..s.len : i <= r.len => Unrolled(r)[i] = Unrolled(s)[i]
      <3>1. g.lines <= s.len + count BY <1>1, <1>2
      <3> DEFINE t == initialize(s, count)
                 q == MkStorage(t.inner, t.zero, g.lines, t.len)
      <3>2. /\ q \in Good /\ q.len = s.len + count /\ q.visible_lines = g.lines
            /\ \A i \in 1..s.len : i <= q.len => Unrolled(q)[i] = Unrolled(s)[i]
            /\ g.lines = s.visible_lines => q = t
        BY <1>1, <1>2, <3>1, InitializeRows
      <3> HIDE DEF q, t
      <3>3. QED BY <1>2, <3>2 DEF t
    <2> HIDE DEF r
    <2>3. ASSUME NEW l \in LinesOf(s)
          PROVE  l \in LinesOf(r) /\ RowAt(r, l) = RowAt(s, l)
      <3>1. l \in LinesOf(r) BY <1>1, <1>2, <2>2 DEF LinesOf
      <3>2. QED BY <1>2, <2>2, <3>1, PrefixRows
    <2>4. QED BY <1>1, <2>1, <2>2, <2>3 DEF more, s
  <1>6. QED BY <1>4, <1>5

(* What scrolling n lines off the top of 0..end - 1 leaves: they are above
   the screen, lines of the template are below, the rest stays. *)
OffTheTop(g, end, n, u) ==
  /\ Kept(g, u)
  /\ u.raw.visible_lines = g.lines /\ u.raw.len = g.lines + HistoryAfter(g, n)
  /\ u.display_offset = IF g.display_offset # 0 THEN MinOf(g.display_offset + n, g.max_scroll_limit) ELSE 0
  /\ \A l \in LinesOf(u.raw) :
       /\ l < end - n => l + n \in LinesOf(g.raw) /\ RowAt(u.raw, l) = RowAt(g.raw, l + n)
       /\ end - n <= l /\ l < end => RowAt(u.raw, l) = g.cursor.template
       /\ end <= l => RowAt(u.raw, l) = RowAt(g.raw, l)

(* Grid::scroll_up of a region that starts at the top of the screen. *)
LEMMA ScrollUpTop ==
  ASSUME NEW g, Sound(g), NEW end \in 1..g.lines, NEW n \in 0..end
  PROVE  OffTheTop(g, end, n, scroll_up(g, 0, end, n)) /\ Sound(scroll_up(g, 0, end, n))
  <1> DEFINE t == g.cursor.template
             off == IF g.display_offset # 0 THEN MinOf(g.display_offset + n, g.max_scroll_limit) ELSE 0
             more == increase_scroll_limit(g, n).raw
             none == SwapAll(more, Upward(0, 0), n)
             turned == rotate(none, -n)
             whole == SwapAll(turned, Upward(end, g.lines), -n)
             raw == ResetAll(whole, Downward(end - n, end), t)
             u == [g EXCEPT !.display_offset = off, !.raw = raw]
             h == history_size(g)
             V == g.lines
  <1>1. scroll_up(g, 0, end, n) = u BY Zenon DEF scroll_up
  <1>2. /\ n \in Nat /\ end \in Int /\ n <= end /\ end <= V /\ V \in Nat /\ 1 <= V
        /\ h \in Nat /\ h <= g.max_scroll_limit /\ g.max_scroll_limit \in Nat
        /\ g.display_offset \in Nat /\ t \in Row /\ g \in Grids /\ g.raw \in Good
        /\ LinesOf(g.raw) = (-h)..(V - 1)
    BY SoundFacts
  <1>3. /\ more \in Good /\ more.visible_lines = V /\ more.len = V + HistoryAfter(g, n)
        /\ \A l \in LinesOf(g.raw) : RowAt(more, l) = RowAt(g.raw, l)
    BY <1>2, IncreaseRows
  <1> DEFINE k == HistoryAfter(g, n)
  <1>4. k \in Nat /\ h <= k /\ k <= h + n /\ k <= g.max_scroll_limit BY <1>2 DEF HistoryAfter, MinOf
  <1>5. off \in Nat BY <1>2 DEF MinOf
  <1> HIDE DEF more, off, t, h, V, k
  <1> DEFINE L == (-k)..(V - 1)
  <1>6. LinesOf(more) = L BY <1>2, <1>3, <1>4 DEF LinesOf, k
  <1>7. none \in Same(more) /\ \A l \in L : RowAt(none, l) = RowAt(more, l)
    <2>1. Upward(0, 0) \in Seq(Int) /\ Len(Upward(0, 0)) = 0 BY DEF Upward
    <2>2. PICK r : Swapped(more, Upward(0, 0), n, r) BY <1>2, <1>3, <2>1, SwapLoop
    <2>3. none = more BY <2>1, <2>2 DEF Swapped
    <2> HIDE DEF none
    <2>4. QED BY <1>3, <2>3 DEF Same
  <1> HIDE DEF none
  <1>8. none \in Good /\ LinesOf(none) = L /\ none.len = V + k /\ none.visible_lines = V
        /\ Same(none) = Same(more)
    BY <1>3, <1>6, <1>7, SameLines DEF Same, k
  <1>9. /\ turned \in Same(none)
        /\ \A l \in L : l + n \in L => RowAt(turned, l) = RowAt(none, l + n)
    <2>1. n \in 0..none.len BY <1>2, <1>4, <1>8
    <2>2. QED BY <1>8, <2>1, RotateRows
  <1> HIDE DEF turned
  <1>10. turned \in Good /\ LinesOf(turned) = L /\ Same(turned) = Same(more)
    BY <1>8, <1>9, SameLines
  <1>11. /\ whole \in Same(turned)
         /\ \A l \in L : /\ end <= l /\ l < V => RowAt(whole, l) = RowAt(turned, l - n)
                         /\ l < end - n \/ l >= V => RowAt(whole, l) = RowAt(turned, l)
    <2>1. \A l \in Int : end <= l /\ l < V => l \in L /\ l - n \in L BY <1>2, <1>4
    <2> HIDE DEF L
    <2>2. FromAbove(turned, SwapAll(turned, Upward(end, V), -n), end, V, n)
      <3>1. \A l \in Int : end <= l /\ l < V => l \in LinesOf(turned) /\ l - n \in LinesOf(turned)
        BY <1>10, <2>1
      <3>2. V \in Int /\ turned \in Good /\ end <= V BY <1>2, <1>10
      <3>3. n \in Nat /\ end \in Int BY <1>2
      <3>4. QED BY <3>1, <3>2, <3>3, SwapDownRows
    <2>3. whole = SwapAll(turned, Upward(end, V), -n) BY DEF V
    <2> HIDE DEF whole
    <2>4. QED BY <1>10, <2>2, <2>3 DEF FromAbove
  <1> HIDE DEF whole
  <1>12. whole \in Good /\ LinesOf(whole) = L /\ Same(whole) = Same(more)
    BY <1>10, <1>11, SameLines
  <1>13. /\ raw \in Same(whole)
         /\ \A l \in L : RowAt(raw, l) = IF end - n <= l /\ l < end THEN t ELSE RowAt(whole, l)
    <2> DEFINE first == end - n
    <2>1. first \in Int /\ first <= end /\ \A l \in Int : first <= l /\ l < end => l \in L
      BY <1>2, <1>4
    <2> HIDE DEF L, first
    <2>2. /\ ResetAll(whole, Downward(first, end), t) \in Same(whole)
          /\ \A l \in L : RowAt(ResetAll(whole, Downward(first, end), t), l) =
                            IF first <= l /\ l < end THEN t ELSE RowAt(whole, l)
      BY <1>2, <1>12, <2>1, ResetRange
    <2>3. QED BY <2>2 DEF first
  <1> HIDE DEF raw
  <1>14. /\ raw \in Good /\ raw.len = V + k /\ raw.visible_lines = V /\ LinesOf(raw) = L
    BY <1>3, <1>12, <1>13, SameLines DEF Same, k
  <1>15. /\ u \in Grids /\ u.raw = raw /\ u.display_offset = off /\ u.lines = V
         /\ u.max_scroll_limit = g.max_scroll_limit
         /\ u.cursor = g.cursor /\ u.saved_cursor = g.saved_cursor
    BY <1>2, <1>5, <1>14 DEF Grids, V
  <1> HIDE DEF u
  <1>16. ASSUME NEW l \in L
         PROVE  /\ l < end - n => l + n \in LinesOf(g.raw) /\ RowAt(raw, l) = RowAt(g.raw, l + n)
                /\ end - n <= l /\ l < end => RowAt(raw, l) = t
                /\ end <= l => RowAt(raw, l) = RowAt(g.raw, l)
    <2>1. l \in Int /\ -k <= l /\ l < V BY <1>2, <1>4
    <2>2. ASSUME l < end - n PROVE l + n \in LinesOf(g.raw) /\ RowAt(raw, l) = RowAt(g.raw, l + n)
      <3>1. l + n \in LinesOf(g.raw) /\ l + n \in L BY <1>2, <1>4, <2>1, <2>2
      <3>2. RowAt(raw, l) = RowAt(whole, l) BY <1>2, <1>13, <2>1, <2>2
      <3>3. RowAt(whole, l) = RowAt(turned, l) BY <1>11, <2>2
      <3>4. RowAt(turned, l) = RowAt(none, l + n) BY <1>9, <3>1
      <3>5. QED BY <1>3, <1>7, <3>1, <3>2, <3>3, <3>4
    <2>3. ASSUME end - n <= l, l < end PROVE RowAt(raw, l) = t BY <1>13, <2>3
    <2>4. ASSUME end <= l PROVE RowAt(raw, l) = RowAt(g.raw, l)
      <3>1. l - n \in L /\ (l - n) + n = l /\ l \in LinesOf(g.raw) BY <1>2, <1>4, <2>1, <2>4
      <3>2. RowAt(raw, l) = RowAt(whole, l) BY <1>2, <1>13, <2>1, <2>4
      <3>3. RowAt(whole, l) = RowAt(turned, l - n) BY <1>11, <2>1, <2>4
      <3>4. RowAt(turned, l - n) = RowAt(none, l) BY <1>9, <3>1
      <3>5. QED BY <1>3, <1>7, <3>1, <3>2, <3>3, <3>4
    <2>5. QED BY <2>2, <2>3, <2>4
  <1>17. Kept(g, u) BY <1>15 DEF Kept, V
  <1>18. OffTheTop(g, end, n, u)
    BY <1>14, <1>15, <1>16, <1>17 DEF OffTheTop, V, k, off, t
  <1>19. Sound(u) BY <1>2, <1>4, <1>14, <1>15 DEF Sound
  <1>20. QED BY <1>1, <1>18, <1>19

(* What scrolling a region that starts below the top leaves: rows move up
   within it and those of the template follow. *)
WithinRegion(g, start, end, n, u) ==
  /\ Kept(g, u) /\ u.raw \in Same(g.raw)
  /\ \A l \in LinesOf(g.raw) :
       RowAt(u.raw, l) = IF start <= l /\ l < end
                           THEN IF l + n < end THEN RowAt(g.raw, l + n) ELSE g.cursor.template
                           ELSE RowAt(g.raw, l)

(* A grid whose rows, and its view, were changed. *)
WithRows(g, raw)      == [g EXCEPT !.raw = raw]
WithView(g, off, raw) == [g EXCEPT !.display_offset = off, !.raw = raw]

(* Only the rows, or only the rows and the view, differ. *)
LEMMA KeptBy ==
  ASSUME NEW g, Sound(g), NEW raw \in Good, NEW off \in Nat
  PROVE  /\ Kept(g, WithRows(g, raw)) /\ WithRows(g, raw).raw = raw
         /\ WithRows(g, raw).display_offset = g.display_offset
         /\ Kept(g, WithView(g, off, raw)) /\ WithView(g, off, raw).raw = raw
         /\ WithView(g, off, raw).display_offset = off
         /\ raw \in Same(g.raw) => Sound(WithRows(g, raw)) /\ Sound(WithView(g, off, raw))
  <1> DEFINE u == WithView(g, off, raw)
             w == WithRows(g, raw)
  <1>1. g \in Grids /\ g.lines = g.raw.visible_lines /\ g.raw.len - g.lines <= g.max_scroll_limit
    BY DEF Sound
  <1>2. /\ u \in Grids /\ u.raw = raw /\ u.display_offset = off /\ u.lines = g.lines
        /\ u.max_scroll_limit = g.max_scroll_limit
        /\ u.cursor = g.cursor /\ u.saved_cursor = g.saved_cursor
    BY <1>1 DEF Grids, WithView
  <1>3. /\ w \in Grids /\ w.raw = raw /\ w.display_offset = g.display_offset /\ w.lines = g.lines
        /\ w.max_scroll_limit = g.max_scroll_limit
        /\ w.cursor = g.cursor /\ w.saved_cursor = g.saved_cursor
    BY <1>1 DEF Grids, WithRows
  <1> HIDE DEF u, w
  <1>4. Kept(g, u) /\ Kept(g, w) BY <1>2, <1>3 DEF Kept
  <1>5. raw \in Same(g.raw) => Sound(u) /\ Sound(w) BY <1>1, <1>2, <1>3 DEF Sound, Same
  <1>6. QED BY <1>2, <1>3, <1>4, <1>5 DEF u, w

(* Grid::scroll_up of a region that starts below the top. *)
LEMMA ScrollUpPart ==
  ASSUME NEW g, Sound(g), NEW start \in Int, NEW end \in Int, 1 <= start, start < end,
         end <= g.lines, NEW n \in Nat
  PROVE  WithinRegion(g, start, end, n, scroll_up(g, start, end, n))
         /\ Sound(scroll_up(g, start, end, n))
  <1> DEFINE t == g.cursor.template
             off == IF g.display_offset # 0 THEN MinOf(g.display_offset + n, g.max_scroll_limit) ELSE 0
             L == LinesOf(g.raw)
             u == scroll_up(g, start, end, n)
  <1>1. /\ g.raw \in Good /\ g.lines \in Nat /\ g.max_scroll_limit \in Nat
        /\ g.display_offset \in Nat /\ t \in Row
        /\ \A l \in Int : start <= l /\ l < end => l \in L
        /\ \A l \in L : l \in Int
    BY SoundFacts
  <1>2. CASE end - start <= n
    <2> DEFINE raw == ResetAll(g.raw, Downward(start, end), t)
    <2>1. u = WithRows(g, raw)
      <3>1. end - start <= n /\ start # 0 BY <1>2
      <3>2. QED BY Zenon, <3>1 DEF scroll_up, WithRows, WithView
    <2>2. /\ raw \in Same(g.raw)
          /\ \A l \in L : RowAt(raw, l) = IF start <= l /\ l < end THEN t ELSE RowAt(g.raw, l)
      <3>1. start <= end BY <1>2
      <3> HIDE DEF L, t
      <3>2. QED BY <1>1, <3>1, ResetRange DEF L
    <2> HIDE DEF raw, u
    <2>3. raw \in Good BY <2>2 DEF Same
    <2>4. Kept(g, u) /\ u.raw = raw /\ Sound(u) BY <1>1, <2>1, <2>2, <2>3, KeptBy
    <2>5. \A l \in L : start <= l => ~(l + n < end) BY <1>1, <1>2
    <2>6. QED BY <2>2, <2>4, <2>5 DEF WithinRegion, u
  <1>3. CASE ~(end - start <= n)
    <2> DEFINE part == SwapAll(g.raw, Downward(start, end - n), n)
               raw == ResetAll(part, Downward(end - n, end), t)
               first == end - n
    <2>1. u = WithView(g, off, raw)
      <3>1. start # 0 OBVIOUS
      <3>2. QED BY Zenon, <1>3, <3>1 DEF scroll_up, WithRows, WithView
    <2>2. off \in Nat BY <1>1 DEF MinOf
    <2>3. first \in Int /\ start <= first /\ first <= end /\ first + n = end BY <1>3
    <2>4. /\ part = SwapAll(g.raw, Downward(start, first), n)
          /\ raw = ResetAll(part, Downward(first, end), t)
      OBVIOUS
    <2> HIDE DEF part, raw, first, off, u, L, t
    <2>5. FromBelow(g.raw, part, start, first, n)
      <3>1. \A l \in Int : start <= l /\ l < first => l \in L /\ l + n \in L
        <4>1. ASSUME NEW l \in Int, start <= l, l < first PROVE l \in L /\ l + n \in L
          <5>1. l < end /\ l + n \in Int /\ start <= l + n /\ l + n < end BY <2>3, <4>1
          <5>2. QED BY <1>1, <4>1, <5>1
        <4>2. QED BY <4>1
      <3>2. QED BY <1>1, <2>3, <2>4, <3>1, SwapUpRows DEF L
    <2>6. part \in Good /\ LinesOf(part) = L /\ Same(part) = Same(g.raw)
      BY <1>1, <2>5, SameLines DEF FromBelow, L
    <2>7. /\ raw \in Same(part)
          /\ \A l \in L : RowAt(raw, l) = IF first <= l /\ l < end THEN t ELSE RowAt(part, l)
      <3>1. \A l \in Int : first <= l /\ l < end => l \in LinesOf(part) BY <1>1, <2>3, <2>6
      <3>2. QED BY <1>1, <2>3, <2>4, <2>6, <3>1, ResetRange
    <2>8. raw \in Same(g.raw) BY <2>6, <2>7
    <2>r. raw \in Good BY <2>8 DEF Same
    <2>9. Kept(g, u) /\ u.raw = raw /\ Sound(u) BY <2>1, <2>2, <2>8, <2>r, KeptBy
    <2>10. ASSUME NEW l \in L
           PROVE  RowAt(raw, l) = IF start <= l /\ l < end
                                    THEN IF l + n < end THEN RowAt(g.raw, l + n) ELSE t
                                    ELSE RowAt(g.raw, l)
      <3>1. l \in Int BY <1>1
      <3>2. CASE start <= l /\ l < first BY <2>3, <2>5, <2>7, <3>1, <3>2 DEF FromBelow, L
      <3>3. CASE first <= l /\ l < end BY <2>3, <2>7, <3>1, <3>3
      <3>4. CASE l < start \/ end <= l BY <2>3, <2>5, <2>7, <3>1, <3>4 DEF FromBelow, L
      <3>5. QED BY <2>3, <3>1, <3>2, <3>3, <3>4
    <2>11. QED BY <2>8, <2>9, <2>10 DEF WithinRegion, u, L, t
  <1>4. QED BY <1>2, <1>3

(* What scrolling a region down leaves. *)
DownInRegion(g, start, end, n, u) ==
  /\ Kept(g, u) /\ u.raw \in Same(g.raw) /\ u.display_offset = g.display_offset
  /\ \A l \in LinesOf(g.raw) :
       RowAt(u.raw, l) = IF start <= l /\ l < end
                           THEN IF l - n >= start THEN RowAt(g.raw, l - n) ELSE g.cursor.template
                           ELSE RowAt(g.raw, l)

(* Grid::scroll_down, by rotating without scrollback and by swapping with it.
   *)
LEMMA ScrollDownRegion ==
  ASSUME NEW g, Sound(g), NEW start \in Int, NEW end \in Int, 0 <= start, start < end,
         end <= g.lines, NEW n \in Nat
  PROVE  DownInRegion(g, start, end, n, scroll_down(g, start, end, n))
         /\ Sound(scroll_down(g, start, end, n))
  <1> DEFINE t == g.cursor.template
             L == LinesOf(g.raw)
             u == scroll_down(g, start, end, n)
             V == g.lines
  <1>1. /\ g.raw \in Good /\ V \in Nat /\ g.max_scroll_limit \in Nat
        /\ g.display_offset \in Nat /\ t \in Row
        /\ \A l \in Int : 0 <= l /\ l < V => l \in L
        /\ \A l \in L : l \in Int /\ l < V
        /\ g.max_scroll_limit = 0 => \A l \in L : 0 <= l
        /\ V <= g.raw.len /\ g.raw.len \in Nat
    BY SoundFacts
  <1>r. ASSUME NEW raw \in Same(g.raw), u = WithRows(g, raw),
               \A l \in L : RowAt(raw, l) = IF start <= l /\ l < end
                                              THEN IF l - n >= start THEN RowAt(g.raw, l - n) ELSE t
                                              ELSE RowAt(g.raw, l)
        PROVE  DownInRegion(g, start, end, n, u) /\ Sound(u)
    <2> HIDE DEF u
    <2>1. raw \in Good BY DEF Same
    <2>2. Kept(g, u) /\ u.raw = raw /\ Sound(u) /\ u.display_offset = g.display_offset
      BY <1>1, <1>r, <2>1, KeptBy
    <2>3. QED BY <1>r, <2>2 DEF DownInRegion
  <1>2. CASE end - start <= n
    <2> DEFINE raw == ResetAll(g.raw, Downward(start, end), t)
    <2>1. u = WithRows(g, raw) BY Zenon, <1>2 DEF scroll_down, WithRows
    <2>2. /\ raw \in Same(g.raw)
          /\ \A l \in L : RowAt(raw, l) = IF start <= l /\ l < end THEN t ELSE RowAt(g.raw, l)
      <3>1. start <= end /\ \A l \in Int : start <= l /\ l < end => l \in L BY <1>1
      <3> HIDE DEF L, t
      <3>2. QED BY <1>1, <3>1, ResetRange DEF L
    <2> HIDE DEF raw, u
    <2>3. \A l \in L : l < end => ~(l - n >= start) BY <1>1, <1>2
    <2>4. QED BY <1>r, <2>1, <2>2, <2>3 DEF u
  <1>3. CASE ~(end - start <= n) /\ g.max_scroll_limit # 0
    <2> DEFINE first == start + n
               moved == SwapAll(g.raw, Upward(start + n, end), -n)
               raw == ResetAll(moved, Upward(start, start + n), t)
    <2>1. u = WithRows(g, raw) BY Zenon, <1>3 DEF scroll_down, WithRows
    <2>2. first \in Int /\ start <= first /\ first <= end /\ first - n = start BY <1>3
    <2>3. /\ moved = SwapAll(g.raw, Upward(first, end), -n)
          /\ raw = ResetAll(moved, Upward(start, first), t)
      OBVIOUS
    <2> HIDE DEF moved, raw, first, u, L, t
    <2>4. FromAbove(g.raw, moved, first, end, n)
      <3>1. \A l \in Int : first <= l /\ l < end => l \in L /\ l - n \in L
        <4>1. ASSUME NEW l \in Int, first <= l, l < end PROVE l \in L /\ l - n \in L
          <5>1. 0 <= l /\ l < V /\ l - n \in Int /\ 0 <= l - n /\ l - n < V BY <1>1, <2>2, <4>1
          <5>2. QED BY <1>1, <4>1, <5>1
        <4>2. QED BY <4>1
      <3>2. QED BY <1>1, <2>2, <2>3, <3>1, SwapDownRows DEF L
    <2>5. moved \in Good /\ LinesOf(moved) = L /\ Same(moved) = Same(g.raw)
      BY <1>1, <2>4, SameLines DEF FromAbove, L
    <2>6. /\ raw \in Same(moved)
          /\ \A l \in L : RowAt(raw, l) = IF start <= l /\ l < first THEN t ELSE RowAt(moved, l)
      <3>1. \A l \in Int : start <= l /\ l < first => l \in LinesOf(moved) BY <1>1, <2>2, <2>5
      <3>2. QED BY <1>1, <2>2, <2>3, <2>5, <3>1, ResetRange
    <2>7. raw \in Same(g.raw) BY <2>5, <2>6
    <2>8. ASSUME NEW l \in L
          PROVE  RowAt(raw, l) = IF start <= l /\ l < end
                                   THEN IF l - n >= start THEN RowAt(g.raw, l - n) ELSE t
                                   ELSE RowAt(g.raw, l)
      <3>1. l \in Int BY <1>1
      <3>2. CASE start <= l /\ l < first BY <2>2, <2>6, <3>1, <3>2
      <3>3. CASE first <= l /\ l < end BY <2>2, <2>4, <2>6, <3>1, <3>3 DEF FromAbove, L
      <3>4. CASE l < start \/ end <= l BY <2>2, <2>4, <2>6, <3>1, <3>4 DEF FromAbove, L
      <3>5. QED BY <2>2, <3>1, <3>2, <3>3, <3>4
    <2>9. QED BY <1>r, <2>1, <2>7, <2>8 DEF u
  <1>4. CASE ~(end - start <= n) /\ g.max_scroll_limit = 0
    <2> DEFINE parked == SwapAll(g.raw, Downward(end, V), -n)
               down == rotate_down(parked, n)
               turned == ResetAll(down, Downward(0, n), t)
               raw == SwapAll(turned, Downward(0, start), n)
    <2>1. u = WithRows(g, raw) BY Zenon, <1>4 DEF scroll_down, WithRows
    <2>2. n < end - start /\ end - n > start /\ n <= g.raw.len /\ n \in 0..g.raw.len BY <1>1, <1>4
    <2>3. /\ \A l \in L : 0 <= l /\ l \in Int /\ l < V
          /\ \A l \in Int : 0 <= l /\ l < V => l \in L
      BY <1>1, <1>4
    <2> HIDE DEF u, L, t
    <2>4. FromBelow(g.raw, parked, end - n, V - n, n)
      <3>1. \A l \in Int : end <= l /\ l < V => l \in L /\ l - n \in L
        <4>1. ASSUME NEW l \in Int, end <= l, l < V PROVE l \in L /\ l - n \in L
          <5>1. 0 <= l /\ l - n \in Int /\ 0 <= l - n /\ l - n < V BY <1>1, <2>2, <4>1
          <5>2. QED BY <1>1, <4>1, <5>1
        <4>2. QED BY <4>1
      <3>2. end <= V /\ V \in Int /\ g.raw \in Good BY <1>1
      <3>3. \A l \in Int : end <= l /\ l < V => l \in LinesOf(g.raw) /\ l - n \in LinesOf(g.raw)
        BY <3>1 DEF L
      <3> HIDE DEF V
      <3>4. QED BY <3>2, <3>3, SwapUpRowsBelow
    <2> HIDE DEF parked
    <2>5. parked \in Good /\ LinesOf(parked) = L /\ Same(parked) = Same(g.raw)
      BY <1>1, <2>4, SameLines DEF FromBelow, L
    <2>6. /\ down \in Same(parked)
          /\ \A l \in L : l - n \in L => RowAt(down, l) = RowAt(parked, l - n)
      <3>1. n \in 0..parked.len BY <1>1, <2>2, <2>4 DEF FromBelow, Same
      <3>2. QED BY <2>5, <3>1, RotateRows
    <2> HIDE DEF down
    <2>7. down \in Good /\ LinesOf(down) = L /\ Same(down) = Same(g.raw)
      BY <2>5, <2>6, SameLines
    <2>8. /\ turned \in Same(down)
          /\ \A l \in L : RowAt(turned, l) = IF 0 <= l /\ l < n THEN t ELSE RowAt(down, l)
      <3>1. \A l \in Int : 0 <= l /\ l < n => l \in LinesOf(down) BY <1>1, <2>2, <2>3, <2>7
      <3>2. QED BY <1>1, <2>7, <3>1, ResetRange
    <2> HIDE DEF turned
    <2>9. turned \in Good /\ LinesOf(turned) = L /\ Same(turned) = Same(g.raw)
      BY <2>7, <2>8, SameLines
    <2>10. FromBelow(turned, raw, 0, start, n)
      <3>1. \A l \in Int : 0 <= l /\ l < start => l \in LinesOf(turned) /\ l + n \in LinesOf(turned)
        <4>1. ASSUME NEW l \in Int, 0 <= l, l < start PROVE l \in L /\ l + n \in L
          <5>1. l < V /\ l + n \in Int /\ 0 <= l + n /\ l + n < V BY <1>1, <2>2, <4>1
          <5>2. QED BY <1>1, <4>1, <5>1
        <4>2. QED BY <2>9, <4>1
      <3>2. QED BY <2>9, <3>1, SwapUpRows
    <2> HIDE DEF raw
    <2>11. raw \in Same(g.raw) BY <2>9, <2>10 DEF FromBelow
    <2>12. ASSUME NEW l \in L, n <= l
           PROVE  RowAt(turned, l) = IF end <= l THEN RowAt(g.raw, l) ELSE RowAt(g.raw, l - n)
      <3>a. l \in Int /\ 0 <= l /\ l < V BY <2>3
      <3>b. l - n \in Int /\ 0 <= l - n /\ l - n < V /\ (l - n) + n = l BY <1>1, <2>12, <3>a
      <3>1. l \in Int /\ 0 <= l /\ l < V /\ l - n \in L /\ (l - n) + n = l BY <2>3, <3>a, <3>b
      <3>2. RowAt(turned, l) = RowAt(parked, l - n) BY <2>6, <2>8, <2>12, <3>1
      <3>3. CASE end <= l
        <4>1. end - n <= l - n /\ l - n < V - n BY <1>1, <3>1, <3>3
        <4>2. RowAt(parked, l - n) = RowAt(g.raw, (l - n) + n) BY <2>4, <3>1, <4>1 DEF FromBelow, L
        <4>3. QED BY <3>1, <3>2, <3>3, <4>2
      <3>4. CASE ~(end <= l)
        <4>1. l - n < end - n BY <3>1, <3>4
        <4>2. RowAt(parked, l - n) = RowAt(g.raw, l - n) BY <2>4, <3>1, <4>1 DEF FromBelow, L
        <4>3. QED BY <3>2, <3>4, <4>2
      <3>5. QED BY <3>3, <3>4
    <2>13. ASSUME NEW l \in L
           PROVE  RowAt(raw, l) = IF start <= l /\ l < end
                                    THEN IF l - n >= start THEN RowAt(g.raw, l - n) ELSE t
                                    ELSE RowAt(g.raw, l)
      <3>1. l \in Int /\ 0 <= l /\ l < V BY <2>3
      <3>2. CASE l < start
        <4>1. RowAt(raw, l) = RowAt(turned, l + n) BY <2>9, <2>10, <3>1, <3>2 DEF FromBelow
        <4>2. l + n \in Int /\ n <= l + n /\ l + n < end /\ (l + n) - n = l /\ l + n \in L
          BY <1>1, <2>2, <3>1, <3>2
        <4>3. RowAt(turned, l + n) = RowAt(g.raw, l) BY <2>12, <4>2
        <4>4. QED BY <3>1, <3>2, <4>1, <4>3
      <3>3. CASE start <= l /\ l < start + n
        <4>1. PICK m \in L : 0 <= m /\ m < n /\ RowAt(raw, l) = RowAt(turned, m)
          <5>1. 0 + n = n OBVIOUS
          <5>2. QED BY <2>9, <2>10, <3>1, <3>3, <5>1 DEF FromBelow
        <4>2. RowAt(raw, l) = t BY <2>8, <4>1
        <4>3. l < end /\ ~(l - n >= start) BY <2>2, <3>1, <3>3
        <4>4. QED BY <3>3, <4>2, <4>3
      <3>4. CASE start + n <= l
        <4>1. RowAt(raw, l) = RowAt(turned, l) BY <2>9, <2>10, <3>1, <3>4 DEF FromBelow
        <4>2. n <= l /\ start <= l /\ l - n >= start BY <3>1, <3>4
        <4>3. QED BY <2>12, <3>1, <4>1, <4>2
      <3>5. QED BY <3>1, <3>2, <3>3, <3>4
    <2>14. QED BY <1>r, <2>1, <2>11, <2>13 DEF u
  <1>5. QED BY <1>2, <1>3, <1>4

(* Dropping the oldest lines keeps the others where they are. *)
Trimmed(g, k, r) ==
  /\ r \in Good /\ r.visible_lines = g.lines /\ r.len = g.lines + k
  /\ \A l \in LinesOf(r) : l \in LinesOf(g.raw) /\ RowAt(r, l) = RowAt(g.raw, l)

(* Storage::shrink_lines drops the oldest lines, and dropping none is no
   change. *)
LEMMA TrimRows ==
  ASSUME NEW g, Sound(g), NEW k \in 0..history_size(g)
  PROVE  /\ Trimmed(g, k, shrink_lines(g.raw, history_size(g) - k))
         /\ Trimmed(g, history_size(g), g.raw)
  <1> DEFINE s == g.raw
             n == history_size(g) - k
             r == shrink_lines(s, n)
  <1>1. /\ s \in Good /\ s.visible_lines = g.lines /\ s.len \in Nat /\ g.lines \in Nat /\ 1 <= g.lines
        /\ history_size(g) = s.len - g.lines /\ s.len = g.lines + history_size(g)
    BY SoundFacts
  <1>2. n \in Nat /\ g.lines <= s.len - n /\ s.len - n = g.lines + k /\ k \in Nat BY <1>1
  <1>3. /\ r \in Good /\ r.len = s.len - n /\ r.visible_lines = g.lines
        /\ \A i \in 1..s.len : i <= r.len => Unrolled(r)[i] = Unrolled(s)[i]
    <2> DEFINE q == MkStorage(r.inner, r.zero, g.lines, r.len)
    <2> HIDE DEF n
    <2>1. /\ q \in Good /\ q.len = s.len - n /\ q.visible_lines = g.lines
          /\ \A i \in 1..s.len : i <= q.len => Unrolled(q)[i] = Unrolled(s)[i]
          /\ g.lines = s.visible_lines => q = r
      BY <1>1, <1>2, ShrinkRows
    <2> HIDE DEF q, r
    <2>2. QED BY <1>1, <2>1
  <1> HIDE DEF r, n
  <1>4. ASSUME NEW l \in LinesOf(r) PROVE l \in LinesOf(s) /\ RowAt(r, l) = RowAt(s, l)
    <2>1. l \in LinesOf(s) BY <1>1, <1>2, <1>3 DEF LinesOf
    <2>2. r.visible_lines - l = s.visible_lines - l BY <1>1, <1>3
    <2>3. QED BY <1>1, <1>3, <2>1, <2>2, PrefixRows
  <1>5. Trimmed(g, k, r) BY <1>2, <1>3, <1>4 DEF Trimmed
  <1>6. Trimmed(g, history_size(g), g.raw) BY <1>1 DEF Trimmed
  <1>7. QED BY <1>5, <1>6 DEF r, n

(* A trimmed grid. *)
LEMMA TrimmedHistory ==
  ASSUME NEW g, Sound(g), NEW k \in Nat, NEW u \in Grids,
         Trimmed(g, k, u.raw), u.lines = g.lines, k <= u.max_scroll_limit
  PROVE  Sound(u) /\ history_size(u) = k
  <1>1. u.raw.len = g.lines + k /\ u.raw.visible_lines = g.lines /\ g.lines \in Nat
    BY SoundFacts DEF Trimmed
  <1>2. Sound(u) BY <1>1 DEF Sound
  <1>3. QED BY <1>1, <1>2, SoundFacts

(* Grid::update_history *)
LEMMA UpdateHistoryIs ==
  ASSUME NEW g, Sound(g), NEW h \in Nat
  PROVE  LET u == update_history(g, h)
         IN  /\ Sound(u) /\ u.lines = g.lines /\ u.max_scroll_limit = h
             /\ u.cursor = g.cursor /\ u.saved_cursor = g.saved_cursor
             /\ history_size(u) = MinOf(history_size(g), h)
             /\ Trimmed(g, MinOf(history_size(g), h), u.raw)
  <1> DEFINE u == update_history(g, h)
             old == history_size(g)
             raw == IF old > h THEN shrink_lines(g.raw, old - h) ELSE g.raw
             k == MinOf(old, h)
  <1>1. g \in Grids /\ old \in Nat /\ g.display_offset \in Nat BY SoundFacts
  <1>2. k \in Nat /\ k <= h /\ (old > h => k = h /\ h \in 0..old) /\ (~(old > h) => k = old)
    BY <1>1 DEF MinOf
  <1>3. Trimmed(g, k, raw)
    <2> HIDE DEF k
    <2>1. CASE old > h BY <1>2, <2>1, TrimRows
    <2>2. CASE ~(old > h)
      <3>1. 0 \in 0..old BY <1>1
      <3>2. QED BY <1>2, <2>2, <3>1, TrimRows
    <2>3. QED BY <2>1, <2>2
  <1>4. u = [g EXCEPT !.raw = raw, !.display_offset = MinOf(g.display_offset, h), !.max_scroll_limit = h]
    BY <1>1, Zenon DEF update_history
  <1>5. raw \in Good /\ MinOf(g.display_offset, h) \in Nat
    <2> HIDE DEF raw
    <2>1. QED BY <1>1, <1>3 DEF Trimmed, MinOf
  <1> HIDE DEF raw, u, k
  <1>6. /\ u \in Grids /\ u.lines = g.lines /\ u.max_scroll_limit = h /\ u.raw = raw
        /\ u.cursor = g.cursor /\ u.saved_cursor = g.saved_cursor
    BY <1>1, <1>4, <1>5 DEF Grids
  <1>7. Sound(u) /\ history_size(u) = k BY <1>2, <1>3, <1>6, TrimmedHistory
  <1>8. QED BY <1>3, <1>6, <1>7 DEF u, k

(* Grid::decrease_scroll_limit *)
LEMMA DecreaseIs ==
  ASSUME NEW g, Sound(g), NEW n \in Nat
  PROVE  LET u == decrease_scroll_limit(g, n)
             k == history_size(g) - MinOf(n, history_size(g))
         IN  /\ Sound(u) /\ Kept(g, u) /\ history_size(u) = k /\ Trimmed(g, k, u.raw)
  <1> DEFINE u == decrease_scroll_limit(g, n)
             old == history_size(g)
             count == MinOf(n, old)
             k == old - count
             raw == shrink_lines(g.raw, count)
             h == [g EXCEPT !.raw = raw]
  <1>1. g \in Grids /\ old \in Nat /\ g.display_offset \in Nat /\ old <= g.max_scroll_limit
        /\ g.max_scroll_limit \in Nat
    BY SoundFacts
  <1>2. count \in Nat /\ k \in 0..old /\ k \in Nat /\ old - k = count /\ k <= g.max_scroll_limit
    BY <1>1 DEF MinOf
  <1>3. Trimmed(g, k, raw) /\ Trimmed(g, old, g.raw)
    <2> HIDE DEF k, count
    <2>1. QED BY <1>2, TrimRows
  <1>4. u = IF count # 0 THEN [h EXCEPT !.display_offset = MinOf(h.display_offset, history_size(h))] ELSE g
    BY <1>1, Zenon DEF decrease_scroll_limit
  <1>5. raw \in Good BY <1>3 DEF Trimmed
  <1> HIDE DEF raw, k, count
  <1>6. h \in Grids /\ h.raw = raw /\ Kept(g, h) BY <1>1, <1>5 DEF Grids, Kept
  <1> HIDE DEF h, u, old
  <1>7. CASE count # 0
    <2> DEFINE off == MinOf(h.display_offset, history_size(h))
    <2>1. Sound(h) BY <1>2, <1>3, <1>6, TrimmedHistory DEF Kept
    <2>2. off \in Nat BY <2>1, SoundFacts DEF MinOf
    <2>3. u = [h EXCEPT !.display_offset = off] BY <1>4, <1>7
    <2> HIDE DEF off
    <2>4. u \in Grids /\ u.raw = raw /\ Kept(g, u) BY <1>6, <2>2, <2>3 DEF Grids, Kept
    <2>5. Sound(u) /\ history_size(u) = k BY <1>2, <1>3, <2>4, TrimmedHistory DEF Kept
    <2>6. QED BY <1>3, <2>4, <2>5 DEF u, k, count, old
  <1>8. CASE count = 0
    <2>1. u = g /\ k = old BY <1>1, <1>2, <1>4, <1>8
    <2>2. Kept(g, u) BY <1>1, <2>1 DEF Kept
    <2>3. QED BY <1>3, <2>1, <2>2 DEF u, k, count, old
  <1>9. QED BY <1>7, <1>8

(* Grid::clear_history *)
LEMMA ClearHistoryIs ==
  ASSUME NEW g, Sound(g)
  PROVE  LET u == clear_history(g)
         IN  Sound(u) /\ Kept(g, u) /\ history_size(u) = 0 /\ Trimmed(g, 0, u.raw)
  <1> DEFINE u == clear_history(g)
             raw == shrink_lines(g.raw, history_size(g))
  <1>1. /\ g \in Grids /\ history_size(g) \in Nat /\ 0 \in 0..history_size(g)
        /\ history_size(g) - 0 = history_size(g) /\ 0 <= g.max_scroll_limit
    BY SoundFacts
  <1>2. Trimmed(g, 0, raw) BY <1>1, TrimRows
  <1>3. u = [g EXCEPT !.raw = raw, !.display_offset = 0] BY <1>1, Zenon DEF clear_history
  <1>4. raw \in Good BY <1>2 DEF Trimmed
  <1> HIDE DEF u, raw
  <1>5. u \in Grids /\ u.raw = raw /\ Kept(g, u) BY <1>1, <1>3, <1>4 DEF Grids, Kept
  <1>6. Sound(u) /\ history_size(u) = 0 BY <1>1, <1>2, <1>5, TrimmedHistory DEF Kept
  <1>7. QED BY <1>2, <1>5, <1>6 DEF u

(* Grid::reset_region *)
LEMMA ResetRegionIs ==
  ASSUME NEW g, Sound(g), NEW start \in Int, NEW end \in Int, 0 <= start, start <= end, end <= g.lines
  PROVE  LET u == reset_region(g, start, end)
         IN  /\ Sound(u) /\ Kept(g, u) /\ u.raw \in Same(g.raw)
             /\ \A l \in LinesOf(g.raw) :
                  RowAt(u.raw, l) = IF start <= l /\ l < end THEN g.cursor.template ELSE RowAt(g.raw, l)
  <1> DEFINE u == reset_region(g, start, end)
             t == g.cursor.template
             raw == ResetAll(g.raw, Downward(start, end), t)
  <1>1. /\ g.raw \in Good /\ t \in Row /\ \A l \in Int : start <= l /\ l < end => l \in LinesOf(g.raw)
    BY SoundFacts
  <1>2. u = WithRows(g, raw) BY Zenon DEF reset_region, WithRows
  <1>3. /\ raw \in Same(g.raw)
        /\ \A l \in LinesOf(g.raw) : RowAt(raw, l) = IF start <= l /\ l < end THEN t ELSE RowAt(g.raw, l)
    <2> HIDE DEF t
    <2>1. QED BY <1>1, ResetRange
  <1> HIDE DEF raw, u
  <1>4. raw \in Good /\ 0 \in Nat BY <1>3 DEF Same
  <1>5. Kept(g, u) /\ u.raw = raw /\ Sound(u) BY <1>2, <1>3, <1>4, KeptBy
  <1>6. QED BY <1>3, <1>5 DEF u

(* A bounded set of numbers that is not empty has a greatest member. *)
LEMMA GreatestNumber ==
  ASSUME NEW N \in Nat, NEW T \in SUBSET (0..N), T # {}
  PROVE  \E n \in T : \A k \in T : k <= n
  <1> DEFINE U == {k \in 0..N : N - k \in T}
  <1>1. U \in SUBSET Nat OBVIOUS
  <1>2. U # {}
    <2>1. PICK t \in T : TRUE OBVIOUS
    <2>2. N - t \in U OBVIOUS
    <2>3. QED BY <2>2
  <1>3. PICK u \in U : \A k \in U : u <= k BY <1>1, <1>2, LeastNumber
  <1>4. \A k \in T : N - k \in U OBVIOUS
  <1>5. \A k \in T : k <= N - u BY <1>3, <1>4
  <1>6. QED BY <1>5

(* The lines down to the last one with content. *)
LEMMA UsedLinesAre ==
  ASSUME NEW g, Sound(g)
  PROVE  /\ UsedLines(g) \in 0..g.lines
         /\ \A l \in 0..(g.lines - 1) : RowAt(g.raw, l) # NewRow => l < UsedLines(g)
         /\ UsedLines(g) # 0 => RowAt(g.raw, UsedLines(g) - 1) # NewRow
  <1> DEFINE used == {l \in 0..(g.lines - 1) : RowAt(g.raw, l) # NewRow}
             top == CHOOSE l \in used : \A m \in used : m <= l
  <1>1. g.lines \in Nat /\ 1 <= g.lines BY SoundFacts
  <1>2. UsedLines(g) = IF used = {} THEN 0 ELSE top + 1 BY Zenon DEF UsedLines
  <1>3. CASE used = {} BY <1>1, <1>2, <1>3
  <1>4. CASE used # {}
    <2>1. used \in SUBSET (0..(g.lines - 1)) /\ g.lines - 1 \in Nat BY <1>1
    <2>2. \A l \in 0..(g.lines - 1) : RowAt(g.raw, l) # NewRow <=> l \in used OBVIOUS
    <2> HIDE DEF used
    <2>3. \E l \in used : \A m \in used : m <= l BY <1>4, <2>1, GreatestNumber
    <2>4. top \in used /\ \A m \in used : m <= top BY <2>3
    <2> HIDE DEF top
    <2>5. top \in 0..(g.lines - 1) BY <2>1, <2>4
    <2>6. UsedLines(g) = top + 1 BY <1>2, <1>4
    <2>7. UsedLines(g) - 1 = top BY <2>5, <2>6
    <2>8. RowAt(g.raw, top) # NewRow BY <2>2, <2>4, <2>5
    <2>9. QED BY <1>1, <2>2, <2>4, <2>5, <2>6, <2>7, <2>8
  <1>5. QED BY <1>3, <1>4

(* Grid::clear_viewport: the used lines are above the screen afterwards, and
   the screen has the template's. *)
Cleared(g, n, u) ==
  /\ Sound(u) /\ Kept(g, u) /\ history_size(u) = HistoryAfter(g, n)
  /\ \A l \in LinesOf(u.raw) :
       /\ l < 0 => l + n \in LinesOf(g.raw) /\ RowAt(u.raw, l) = RowAt(g.raw, l + n)
       /\ 0 <= l => RowAt(u.raw, l) = g.cursor.template

(* The scrollback after lines went off the top. *)
LEMMA HistoryOfTop ==
  ASSUME NEW g, Sound(g), NEW end, NEW n \in Nat, NEW u, Sound(u), OffTheTop(g, end, n, u)
  PROVE  /\ history_size(u) = HistoryAfter(g, n) /\ HistoryAfter(g, n) \in Nat
         /\ HistoryAfter(g, n) <= history_size(g) + n
         /\ LinesOf(u.raw) = (-HistoryAfter(g, n))..(g.lines - 1)
  <1>1. /\ u.raw.len = g.lines + HistoryAfter(g, n) /\ u.lines = g.lines
        /\ g.lines \in Nat /\ history_size(u) = u.raw.len - u.lines
        /\ LinesOf(u.raw) = (-history_size(u))..(u.lines - 1)
    BY SoundFacts DEF OffTheTop, Kept
  <1>2. HistoryAfter(g, n) \in Nat /\ HistoryAfter(g, n) <= history_size(g) + n
    BY SoundFacts DEF HistoryAfter, MinOf
  <1>3. history_size(u) = HistoryAfter(g, n) BY <1>1, <1>2
  <1>4. QED BY <1>1, <1>2, <1>3

(* Grid::clear_viewport scrolls as many lines off as were used. *)
LEMMA ClearViewportIs ==
  ASSUME NEW g, Sound(g)
  PROVE  Cleared(g, UsedLines(g), clear_viewport(g))
  <1> DEFINE n == UsedLines(g)
             V == g.lines
             up == scroll_up(g, 0, V, n)
             t == g.cursor.template
             raw == ResetAll(up.raw, Downward(0, V - n), t)
             u == clear_viewport(g)
             h == HistoryAfter(g, n)
  <1>1. n \in 0..V /\ n \in Nat /\ V \in Nat /\ 1 <= V /\ V \in 1..V BY UsedLinesAre, SoundFacts
  <1>2. u = WithRows(up, raw) BY Zenon DEF clear_viewport, WithRows
  <1> HIDE DEF n, V, u
  <1>3. OffTheTop(g, V, n, up) /\ Sound(up) BY <1>1, ScrollUpTop DEF V
  <1> HIDE DEF up
  <1>4. /\ history_size(up) = h /\ h \in Nat /\ LinesOf(up.raw) = (-h)..(V - 1)
        /\ up.raw \in Good /\ t \in Row /\ up.lines = V
    <2>1. up.raw \in Good /\ t \in Row BY <1>3, SoundFacts
    <2>2. up.lines = V BY <1>3 DEF V, OffTheTop, Kept
    <2>3. /\ history_size(up) = HistoryAfter(g, n) /\ HistoryAfter(g, n) \in Nat
          /\ LinesOf(up.raw) = (-HistoryAfter(g, n))..(g.lines - 1)
      BY <1>1, <1>3, HistoryOfTop
    <2>4. QED BY <2>1, <2>2, <2>3 DEF V
  <1> DEFINE last == V - n
  <1>5. last \in Int /\ 0 <= last /\ last <= V BY <1>1
  <1>6. raw = ResetAll(up.raw, Downward(0, last), t) OBVIOUS
  <1> HIDE DEF last, raw, h, t
  <1>7. /\ raw \in Same(up.raw)
        /\ \A l \in LinesOf(up.raw) : RowAt(raw, l) = IF 0 <= l /\ l < last THEN t ELSE RowAt(up.raw, l)
    <2>1. \A l \in Int : 0 <= l /\ l < last => l \in LinesOf(up.raw) BY <1>1, <1>4, <1>5
    <2> DEFINE s == up.raw
               from == 0
    <2>2. s \in Good /\ from \in Int /\ from <= last BY <1>4, <1>5
    <2>3. \A l \in Int : from <= l /\ l < last => l \in LinesOf(s) BY <2>1
    <2> HIDE DEF s, from
    <2>4. /\ ResetAll(s, Downward(from, last), t) \in Same(s)
          /\ \A l \in LinesOf(s) : RowAt(ResetAll(s, Downward(from, last), t), l) =
                                     IF from <= l /\ l < last THEN t ELSE RowAt(s, l)
      BY <1>4, <1>5, <2>2, <2>3, ResetRange
    <2>5. QED BY <1>6, <2>4 DEF s, from
  <1>8. raw \in Good /\ 0 \in Nat BY <1>7 DEF Same
  <1>9. Kept(up, u) /\ u.raw = raw /\ Sound(u) BY <1>2, <1>3, <1>7, <1>8, KeptBy
  <1>10. Kept(g, u) BY <1>3, <1>9 DEF OffTheTop, Kept
  <1>11. u.lines = V /\ LinesOf(u.raw) = LinesOf(up.raw) BY <1>4, <1>7, <1>9, SameLines DEF Kept
  <1>12. history_size(u) = h
    <2>1. u.raw.len = up.raw.len BY <1>7, <1>9 DEF Same
    <2>2. QED BY <1>3, <1>4, <1>9, <1>11, <2>1, SoundFacts
  <1>13. ASSUME NEW l \in LinesOf(u.raw)
         PROVE  /\ l < 0 => l + n \in LinesOf(g.raw) /\ RowAt(u.raw, l) = RowAt(g.raw, l + n)
                /\ 0 <= l => RowAt(u.raw, l) = g.cursor.template
    <2>1. l \in Int /\ l < V BY <1>1, <1>4, <1>11
    <2>2. /\ l < last => l + n \in LinesOf(g.raw) /\ RowAt(up.raw, l) = RowAt(g.raw, l + n)
          /\ last <= l => RowAt(up.raw, l) = t
      BY <1>3, <1>11, <2>1 DEF OffTheTop, last, t
    <2>3. RowAt(u.raw, l) = IF 0 <= l /\ l < last THEN t ELSE RowAt(up.raw, l)
      BY <1>7, <1>9, <1>11
    <2>4. QED BY <1>5, <2>1, <2>2, <2>3 DEF t
  <1>14. QED BY <1>9, <1>10, <1>12, <1>13 DEF Cleared, u, n, h

(* Grid::reset *)
LEMMA ResetIs ==
  ASSUME NEW g, Sound(g)
  PROVE  LET u == reset(g)
         IN  /\ Sound(u) /\ u.lines = g.lines /\ u.max_scroll_limit = g.max_scroll_limit
             /\ u.cursor = DefaultCursor /\ u.saved_cursor = DefaultCursor
             /\ history_size(u) = 0
             /\ \A l \in LinesOf(u.raw) : RowAt(u.raw, l) = NewRow
  <1> DEFINE u == reset(g)
             h == clear_history(g)
             raw == ResetAll(h.raw, Downward(-history_size(h), h.lines), NewRow)
  <1>1. /\ Sound(h) /\ Kept(g, h) /\ history_size(h) = 0 BY ClearHistoryIs
  <1>2. u = [h EXCEPT !.cursor = DefaultCursor, !.saved_cursor = DefaultCursor, !.raw = raw]
    BY <1>1, Zenon DEF reset
  <1> HIDE DEF h, u
  <1>3. /\ h.raw \in Good /\ h \in Grids /\ h.lines = g.lines /\ h.max_scroll_limit = g.max_scroll_limit
        /\ h.lines \in Nat /\ LinesOf(h.raw) = (-history_size(h))..(h.lines - 1)
    BY <1>1, SoundFacts DEF Kept
  <1>4. NewRow \in Row /\ DefaultCursor \in Cursors
    BY StorageAssumption, GridAssumption DEF DefaultCursor, Cursors
  <1>5. raw \in Same(h.raw) /\ \A l \in LinesOf(h.raw) : RowAt(raw, l) = NewRow
    <2> DEFINE from == -history_size(h)
               to == h.lines
               s == h.raw
    <2>1. from \in Int /\ to \in Int /\ from <= to /\ s \in Good BY <1>1, <1>3
    <2>2. LinesOf(s) = from..(to - 1) BY <1>3
    <2>3. raw = ResetAll(s, Downward(from, to), NewRow) OBVIOUS
    <2> HIDE DEF raw, from, to, s
    <2>4. /\ \A l \in Int : from <= l /\ l < to => l \in LinesOf(s)
          /\ \A l \in LinesOf(s) : from <= l /\ l < to
      BY <2>1, <2>2
    <2>5. /\ raw \in Same(s)
          /\ \A l \in LinesOf(s) : RowAt(raw, l) = IF from <= l /\ l < to THEN NewRow ELSE RowAt(s, l)
      BY <1>4, <2>1, <2>3, <2>4, ResetRange
    <2>6. QED BY <2>4, <2>5 DEF s
  <1> HIDE DEF raw
  <1>6. raw \in Good /\ raw.len = h.raw.len /\ raw.visible_lines = h.raw.visible_lines
        /\ LinesOf(raw) = LinesOf(h.raw)
    BY <1>3, <1>5, SameLines DEF Same
  <1>7. /\ u \in Grids /\ u.raw = raw /\ u.lines = g.lines /\ u.max_scroll_limit = g.max_scroll_limit
        /\ u.cursor = DefaultCursor /\ u.saved_cursor = DefaultCursor
    BY <1>2, <1>3, <1>4, <1>6 DEF Grids
  <1>8. Sound(u) BY <1>1, <1>3, <1>6, <1>7 DEF Sound
  <1>9. history_size(u) = 0 BY <1>1, <1>3, <1>6, <1>7, <1>8, SoundFacts
  <1>10. QED BY <1>5, <1>6, <1>7, <1>8, <1>9 DEF u

(* Both cursors are on lines of the screen. *)
InView(g) == g.cursor.line < g.lines /\ g.saved_cursor.line < g.lines

(* What a grid that grew to `target` lines looks like: k lines came back from
   the scrollback, and lines of the template follow at the bottom. *)
Pulled(g, target) == MinOf(history_size(g), target - g.lines)

Grew(g, target, u) ==
  /\ Sound(u) /\ InView(u) /\ u.lines = target /\ u.max_scroll_limit = g.max_scroll_limit
  /\ u.cursor.template = g.cursor.template /\ u.saved_cursor.template = g.saved_cursor.template
  /\ history_size(u) = history_size(g) - Pulled(g, target)
  /\ \A l \in LinesOf(u.raw) :
       /\ l < g.lines + Pulled(g, target)
          => /\ l - Pulled(g, target) \in LinesOf(g.raw)
             /\ RowAt(u.raw, l) = RowAt(g.raw, l - Pulled(g, target))
       /\ g.lines + Pulled(g, target) <= l => RowAt(u.raw, l) = g.cursor.template

(* The first step: a taller viewport over the same lines. *)
Taller(g, target) == [g EXCEPT !.raw = grow_visible_lines(g.raw, target), !.lines = target]

(* The taller viewport is over the same lines, which it numbers anew. *)
LEMMA TallerIs ==
  ASSUME NEW g, Sound(g), NEW target \in Nat, g.lines < target
  PROVE  LET u == Taller(g, target)
         IN  /\ Sound(u) /\ u.lines = target /\ u.max_scroll_limit = g.max_scroll_limit
             /\ u.cursor = g.cursor /\ u.saved_cursor = g.saved_cursor
             /\ history_size(u) = history_size(g)
             /\ \A l \in LinesOf(u.raw) :
                  l - (target - g.lines) \in LinesOf(g.raw)
                  => RowAt(u.raw, l) = RowAt(g.raw, l - (target - g.lines))
  <1> DEFINE u == Taller(g, target)
             s == g.raw
             n == target - g.lines
             t == initialize(s, n)
             r == MkStorage(t.inner, t.zero, target, t.len)
  <1>1. /\ g \in Grids /\ s \in Good /\ s.visible_lines = g.lines /\ s.len \in Nat /\ g.lines \in Nat
        /\ history_size(g) = s.len - g.lines /\ history_size(g) <= g.max_scroll_limit
        /\ g.lines <= s.len /\ g.max_scroll_limit \in Nat
    BY SoundFacts
  <1>2. n \in Nat /\ 1 <= target /\ target <= s.len + n /\ s.len + n = target + (s.len - g.lines)
    BY <1>1
  <1>3. grow_visible_lines(s, target) = r
    <2>1. target - s.visible_lines = n BY <1>1
    <2>2. QED BY <2>1, Zenon DEF grow_visible_lines
  <1> HIDE DEF n
  <1>4. /\ r \in Good /\ r.len = s.len + n /\ r.visible_lines = target
        /\ \A i \in 1..s.len : i <= r.len => Unrolled(r)[i] = Unrolled(s)[i]
    BY <1>1, <1>2, InitializeRows
  <1>5. u = [g EXCEPT !.raw = r, !.lines = target] BY <1>3 DEF Taller
  <1> HIDE DEF r, t, u
  <1>6. /\ u \in Grids /\ u.raw = r /\ u.lines = target /\ u.max_scroll_limit = g.max_scroll_limit
        /\ u.cursor = g.cursor /\ u.saved_cursor = g.saved_cursor
    BY <1>1, <1>4, <1>5 DEF Grids
  <1>7. Sound(u) BY <1>1, <1>2, <1>4, <1>6 DEF Sound
  <1>8. history_size(u) = history_size(g) BY <1>1, <1>2, <1>4, <1>6, <1>7, SoundFacts
  <1>9. ASSUME NEW l \in LinesOf(r), l - n \in LinesOf(s) PROVE RowAt(r, l) = RowAt(s, l - n)
    <2>1. l \in Int /\ r.visible_lines - l = s.visible_lines - (l - n)
      BY <1>1, <1>2, <1>4, GoodNums DEF LinesOf, n
    <2>2. QED BY <1>1, <1>4, <1>9, <2>1, PrefixRows
  <1>10. QED BY <1>6, <1>7, <1>8, <1>9 DEF u, n

(* Grid::grow_lines, with and without enough scrollback to fill the new lines.
   *)
LEMMA GrowLinesIs ==
  ASSUME NEW g, Sound(g), InView(g), NEW target \in Nat, g.lines < target
  PROVE  Grew(g, target, grow_lines(g, target))
  <1> DEFINE added == target - g.lines
             h == history_size(g)
             taller == Taller(g, target)
             pulled == MinOf(history_size(taller), added)
             moved == IF pulled # added THEN scroll_up(taller, 0, target, added - pulled) ELSE taller
             placed == [moved EXCEPT !.cursor.line = moved.cursor.line + pulled,
                                     !.saved_cursor.line = moved.saved_cursor.line + pulled,
                                     !.display_offset = MaxOf(moved.display_offset - added, 0)]
             u == decrease_scroll_limit(placed, added)
             V == g.lines
  <1>1. grow_lines(g, target) = u
    <2>1. g \in Grids BY SoundFacts
    <2>2. taller = [g EXCEPT !.raw = grow_visible_lines(@, target), !.lines = target]
      BY <2>1 DEF Taller
    <2> HIDE DEF taller
    <2>3. QED BY <2>2, Zenon DEF grow_lines
  <1>2. /\ Sound(taller) /\ taller.lines = target /\ taller.max_scroll_limit = g.max_scroll_limit
        /\ taller.cursor = g.cursor /\ taller.saved_cursor = g.saved_cursor
        /\ history_size(taller) = h
        /\ \A l \in LinesOf(taller.raw) :
             l - added \in LinesOf(g.raw) => RowAt(taller.raw, l) = RowAt(g.raw, l - added)
    BY TallerIs
  <1>3. /\ V \in Nat /\ 1 <= V /\ h \in Nat /\ LinesOf(g.raw) = (-h)..(V - 1) /\ h <= g.max_scroll_limit
        /\ g.max_scroll_limit \in Nat /\ V < target
        /\ g.cursor \in Cursors /\ g.saved_cursor \in Cursors
    BY SoundFacts
  <1>4. /\ added \in Nat /\ added >= 1 /\ target = V + added BY <1>3
  <1>5. /\ pulled \in Nat /\ pulled = Pulled(g, target) /\ pulled <= h /\ pulled <= added
        /\ pulled # added => pulled = h
    BY <1>2, <1>3, <1>4 DEF Pulled, MinOf
  <1> HIDE DEF taller, added, pulled, u, V, h
  <1>6. LinesOf(taller.raw) = (-h)..(target - 1) BY <1>2, SoundFacts
  <1> DEFINE k == history_size(moved)
  (* The rows after the optional scroll: counted from the top of the screen
     the old lines are `pulled` lower. *)
  <1>7. /\ Sound(moved) /\ moved.lines = target /\ moved.max_scroll_limit = g.max_scroll_limit
        /\ moved.cursor = g.cursor /\ moved.saved_cursor = g.saved_cursor
        /\ k \in Nat /\ k - MinOf(added, k) = h - pulled
        /\ LinesOf(moved.raw) = (-k)..(target - 1)
        /\ \A l \in LinesOf(moved.raw) :
             /\ l < V + pulled /\ l - pulled \in LinesOf(g.raw) => RowAt(moved.raw, l) = RowAt(g.raw, l - pulled)
             /\ V + pulled <= l => RowAt(moved.raw, l) = g.cursor.template
    <2>1. CASE pulled = added
      <3>1. moved = taller BY <2>1
      <3>2. k = h BY <1>2, <3>1
      <3>3. h - MinOf(added, h) = h - pulled BY <1>3, <1>4, <1>5, <2>1 DEF MinOf
      <3>4. ASSUME NEW l \in LinesOf(taller.raw)
            PROVE  /\ l < V + pulled /\ l - pulled \in LinesOf(g.raw)
                      => RowAt(taller.raw, l) = RowAt(g.raw, l - pulled)
                   /\ ~(V + pulled <= l)
        <4>1. l \in Int /\ l < target BY <1>3, <1>6
        <4>2. QED BY <1>2, <1>3, <1>4, <1>5, <2>1, <4>1
      <3> HIDE DEF moved, k
      <3>5. QED BY <1>2, <1>3, <1>6, <3>1, <3>2, <3>3, <3>4
    <2>2. CASE pulled # added
      <3> DEFINE n == added - pulled
      <3>1. n \in Nat /\ n \in 0..target /\ target \in 1..taller.lines /\ target - n = V + pulled
            /\ n + pulled = added
        BY <1>2, <1>3, <1>4, <1>5
      <3>2. moved = scroll_up(taller, 0, target, n) BY <2>2
      <3> HIDE DEF n, moved
      <3>3. OffTheTop(taller, target, n, moved) /\ Sound(moved) BY <1>2, <3>1, <3>2, ScrollUpTop
      <3>4. /\ k = HistoryAfter(taller, n) /\ k \in Nat /\ k <= h + n
            /\ LinesOf(moved.raw) = (-k)..(target - 1)
        BY <1>2, <3>1, <3>3, HistoryOfTop
      <3>5. k - MinOf(added, k) = h - pulled
        <4>1. pulled = h /\ added = n + h /\ k <= added BY <1>3, <1>4, <1>5, <2>2, <3>1, <3>4
        <4> HIDE DEF k
        <4>2. MinOf(added, k) = k BY <1>4, <3>4, <4>1 DEF MinOf
        <4>3. QED BY <1>3, <3>4, <4>1, <4>2
      <3>6. /\ moved.lines = target /\ moved.max_scroll_limit = g.max_scroll_limit
            /\ moved.cursor = g.cursor /\ moved.saved_cursor = g.saved_cursor
        BY <1>2, <3>3 DEF OffTheTop, Kept
      <3>7. ASSUME NEW l \in LinesOf(moved.raw)
            PROVE  /\ l < V + pulled /\ l - pulled \in LinesOf(g.raw)
                      => RowAt(moved.raw, l) = RowAt(g.raw, l - pulled)
                   /\ V + pulled <= l => RowAt(moved.raw, l) = g.cursor.template
        <4>1. l \in Int /\ l < target BY <1>3, <1>4, <3>4
        <4>2. ASSUME l < V + pulled, l - pulled \in LinesOf(g.raw)
              PROVE  RowAt(moved.raw, l) = RowAt(g.raw, l - pulled)
          <5>1. l < target - n BY <3>1, <4>2
          <5>2. l + n \in LinesOf(taller.raw) /\ RowAt(moved.raw, l) = RowAt(taller.raw, l + n)
            BY <3>3, <5>1 DEF OffTheTop
          <5>3. (l + n) - added = l - pulled BY <1>4, <1>5, <3>1, <4>1
          <5>4. RowAt(taller.raw, l + n) = RowAt(g.raw, (l + n) - added) BY <1>2, <4>2, <5>2, <5>3
          <5>5. QED BY <5>2, <5>3, <5>4
        <4>3. ASSUME V + pulled <= l PROVE RowAt(moved.raw, l) = g.cursor.template
          <5>1. target - n <= l /\ l < target BY <3>1, <4>1, <4>3
          <5>2. RowAt(moved.raw, l) = taller.cursor.template BY <3>3, <5>1 DEF OffTheTop
          <5>3. QED BY <1>2, <5>2
        <4>4. QED BY <4>2, <4>3
      <3>8. QED BY <3>3, <3>4, <3>5, <3>6, <3>7
    <2>3. QED BY <2>1, <2>2
  <1> HIDE DEF moved, k
  <1>8. /\ placed \in Grids /\ placed.raw = moved.raw /\ placed.lines = target
        /\ placed.max_scroll_limit = g.max_scroll_limit
        /\ placed.cursor.line = g.cursor.line + pulled /\ placed.cursor.template = g.cursor.template
        /\ placed.saved_cursor.line = g.saved_cursor.line + pulled
        /\ placed.saved_cursor.template = g.saved_cursor.template
    <2>1. moved \in Grids /\ moved.display_offset \in Nat BY <1>7, SoundFacts
    <2>2. MaxOf(moved.display_offset - added, 0) \in Nat BY <1>4, <2>1 DEF MaxOf
    <2>3. g.cursor.line + pulled \in Nat /\ g.saved_cursor.line + pulled \in Nat
      BY <1>3, <1>5 DEF Cursors
    <2>4. QED BY <1>3, <1>7, <2>1, <2>2, <2>3 DEF Grids, Cursors
  <1> HIDE DEF placed
  <1>9. Sound(placed) /\ history_size(placed) = k
    BY <1>7, <1>8, SoundFacts DEF Sound, k, history_size
  <1>10. /\ Sound(u) /\ Kept(placed, u) /\ history_size(u) = k - MinOf(added, k)
         /\ Trimmed(placed, k - MinOf(added, k), u.raw)
    BY <1>4, <1>9, DecreaseIs DEF u
  <1>11. InView(u)
    <2>1. g.cursor.line < V /\ g.saved_cursor.line < V /\ g.cursor.line \in Nat /\ g.saved_cursor.line \in Nat
      BY <1>3 DEF InView, V, Cursors
    <2>2. QED BY <1>3, <1>4, <1>5, <1>8, <1>10, <2>1 DEF InView, Kept
  <1>12. ASSUME NEW l \in LinesOf(u.raw)
         PROVE  /\ l < V + pulled => l - pulled \in LinesOf(g.raw) /\ RowAt(u.raw, l) = RowAt(g.raw, l - pulled)
                /\ V + pulled <= l => RowAt(u.raw, l) = g.cursor.template
    <2>1. l \in LinesOf(moved.raw) /\ RowAt(u.raw, l) = RowAt(moved.raw, l)
      BY <1>8, <1>10 DEF Trimmed
    <2>2. l \in Int /\ -(h - pulled) <= l
      <3>1. LinesOf(u.raw) = (-history_size(u))..(u.lines - 1) BY <1>10, SoundFacts
      <3>2. history_size(u) = h - pulled BY <1>7, <1>10
      <3>3. h - pulled \in Int /\ u.lines \in Int BY <1>3, <1>5, <1>10, SoundFacts
      <3>4. QED BY <3>1, <3>2, <3>3
    <2>3. l < V + pulled => l - pulled \in LinesOf(g.raw) BY <1>3, <1>5, <2>2
    <2>4. QED BY <1>7, <2>1, <2>3
  <1>13. QED BY <1>1, <1>5, <1>7, <1>8, <1>10, <1>11, <1>12 DEF Grew, Kept, V, h

(* Cutting lines off the bottom of the viewport. *)
LEMMA CutRows ==
  ASSUME NEW s \in Good, NEW target \in Nat, 1 <= target, target < s.visible_lines
  PROVE  LET r == shrink_visible_lines(rotate(s, s.visible_lines - target), target)
         IN  /\ r \in Good /\ r.visible_lines = target
             /\ r.len = s.len - (s.visible_lines - target)
             /\ \A l \in LinesOf(r) : l \in LinesOf(s) /\ RowAt(r, l) = RowAt(s, l)
  <1> DEFINE V == s.visible_lines
             c == V - target
             q == rotate(s, c)
             t == shrink_lines(q, c)
             r == shrink_visible_lines(q, target)
  <1>1. V \in Nat /\ s.len \in Nat /\ V <= s.len /\ c \in Nat /\ c \in 0..s.len /\ target <= s.len - c
        /\ V - c = target
    BY GoodNums
  <1> HIDE DEF c
  <1>2. q \in Same(s) /\ \A l \in LinesOf(s) : l - c \in LinesOf(s) => RowAt(q, l) = RowAt(s, l - c)
    BY <1>1, RotateRows
  <1> HIDE DEF q
  <1>3. q \in Good /\ q.visible_lines = V /\ q.len = s.len /\ LinesOf(q) = LinesOf(s)
    BY <1>2, SameLines DEF Same
  <1>4. r = MkStorage(t.inner, t.zero, target, t.len)
    <2>1. q.visible_lines - target = c BY <1>3 DEF c
    <2>2. QED BY <2>1, Zenon DEF shrink_visible_lines
  <1>5. /\ r \in Good /\ r.len = s.len - c /\ r.visible_lines = target
        /\ \A i \in 1..q.len : i <= r.len => Unrolled(r)[i] = Unrolled(q)[i]
    BY <1>1, <1>3, <1>4, ShrinkRows
  <1> HIDE DEF r, t
  <1>6. ASSUME NEW l \in LinesOf(r) PROVE l \in LinesOf(s) /\ RowAt(r, l) = RowAt(s, l)
    <2>1. /\ l \in Int /\ l \in LinesOf(s) /\ l + c \in LinesOf(s) /\ (l + c) - c = l
          /\ r.visible_lines - l = q.visible_lines - (l + c)
      <3> DEFINE m == s.len
      <3>1. /\ LinesOf(r) = (target - (m - c))..(target - 1) /\ LinesOf(s) = (V - m)..(V - 1)
        BY <1>5 DEF LinesOf
      <3>2. r.visible_lines = target /\ q.visible_lines = V BY <1>3, <1>5
      <3>3. m \in Int /\ V \in Int /\ c \in Int /\ c >= 0 /\ target \in Int /\ V - c = target /\ m \in Int
        BY <1>1
      <3> HIDE DEF m, V
      <3>4. l \in (target - (m - c))..(target - 1) BY <3>1
      <3>5. l \in Int /\ target - (m - c) <= l /\ l <= target - 1 BY <3>3, <3>4
      <3>6. V - m <= l /\ l <= V - 1 /\ V - m <= l + c /\ l + c <= V - 1 BY <3>3, <3>5
      <3>7. l \in LinesOf(s) /\ l + c \in LinesOf(s) BY <3>1, <3>3, <3>5, <3>6
      <3>8. (l + c) - c = l /\ target - l = V - (l + c) BY <3>3, <3>5
      <3>9. QED BY <3>2, <3>5, <3>7, <3>8
    <2> DEFINE m == l + c
    <2>2. m \in LinesOf(q) /\ r.visible_lines - l = q.visible_lines - m BY <1>3, <2>1
    <2>3. RowAt(q, m) = RowAt(s, l) BY <1>2, <2>1
    <2> HIDE DEF m
    <2>4. RowAt(r, l) = RowAt(q, m)
      <3>1. \A i \in 1..q.len : i <= r.len => Unrolled(r)[i] = Unrolled(q)[i] BY <1>5
      <3>2. q \in Good /\ r \in Good BY <1>3, <1>5
      <3>3. QED BY <2>2, <3>1, <3>2, PrefixRows
    <2>5. QED BY <2>1, <2>3, <2>4
  <1>7. QED BY <1>5, <1>6 DEF r, q, c

(* What a grid that shrank to `target` lines looks like: just enough lines
   were scrolled off for the cursor to stay on the screen. *)
Needed(g, target) == MaxOf(g.cursor.line + 1 - target, 0)

Shrank(g, target, u) ==
  /\ Sound(u) /\ InView(u) /\ u.lines = target /\ u.max_scroll_limit = g.max_scroll_limit
  /\ u.cursor.template = g.cursor.template /\ u.saved_cursor.template = g.saved_cursor.template
  /\ history_size(u) = HistoryAfter(g, Needed(g, target))
  /\ \A l \in LinesOf(u.raw) :
       /\ l + Needed(g, target) \in LinesOf(g.raw)
       /\ RowAt(u.raw, l) = RowAt(g.raw, l + Needed(g, target))

(* Grid::shrink_lines, with and without lines to scroll off for the cursor. *)
LEMMA ShrinkViewportIs ==
  ASSUME NEW g, Sound(g), InView(g), NEW target \in Nat, 1 <= target, target < g.lines
  PROVE  Shrank(g, target, ShrinkViewport(g, target)) /\ Needed(g, target) \in 0..(g.lines - target)
  <1> DEFINE V == g.lines
             n == Needed(g, target)
             scrolled == IF n > 0 THEN scroll_up(g, 0, V, n) ELSE g
             raw == shrink_visible_lines(rotate(scrolled.raw, V - target), target)
             line == IF n > 0 THEN MinOf(scrolled.cursor.line, target - 1) ELSE scrolled.cursor.line
             saved == MinOf(scrolled.saved_cursor.line, target - 1)
             u == ShrinkViewport(g, target)
             k == HistoryAfter(g, n)
  <1>1. /\ V \in Nat /\ V \in 1..V /\ g.cursor \in Cursors /\ g.saved_cursor \in Cursors
        /\ g.cursor.line \in Nat /\ g.saved_cursor.line \in Nat /\ g.cursor.line < V
        /\ g \in Grids /\ g.raw \in Good /\ g.raw.visible_lines = V
        /\ history_size(g) \in Nat /\ history_size(g) <= g.max_scroll_limit /\ g.max_scroll_limit \in Nat
        /\ LinesOf(g.raw) = (-history_size(g))..(V - 1) /\ g.raw.len = V + history_size(g)
    <2>1. g.cursor \in Cursors /\ g.saved_cursor \in Cursors BY SoundFacts
    <2>2. QED BY <2>1, SoundFacts DEF InView, Cursors
  <1>2. n \in Nat /\ n <= V - target /\ n \in 0..V /\ n \in 0..(V - target)
        /\ (n = 0 => g.cursor.line < target)
    BY <1>1 DEF Needed, MaxOf
  <1>3. u = [scrolled EXCEPT !.cursor.line = line, !.saved_cursor.line = saved, !.raw = raw, !.lines = target]
    <2>1. scrolled \in Grids
      <3>1. CASE n > 0 BY <1>1, <1>2, <3>1, ScrollUpTop DEF OffTheTop, Kept
      <3>2. CASE ~(n > 0) BY <1>1, <3>2
      <3>3. QED BY <3>1, <3>2
    <2>2. QED BY <2>1, Zenon DEF ShrinkViewport, Needed
  <1>4. /\ Sound(scrolled) /\ Kept(g, scrolled) /\ history_size(scrolled) = k
        /\ k \in Nat /\ LinesOf(scrolled.raw) = (-k)..(V - 1)
        /\ \A l \in LinesOf(scrolled.raw) :
             l < V - n => l + n \in LinesOf(g.raw) /\ RowAt(scrolled.raw, l) = RowAt(g.raw, l + n)
    <2> HIDE DEF n
    <2>1. CASE n > 0
      <3>1. scrolled = scroll_up(g, 0, V, n) BY <2>1
      <3> HIDE DEF scrolled
      <3>2. OffTheTop(g, V, n, scrolled) /\ Sound(scrolled) BY <1>1, <1>2, <3>1, ScrollUpTop
      <3>3. /\ history_size(scrolled) = k /\ k \in Nat /\ LinesOf(scrolled.raw) = (-k)..(V - 1)
        BY <1>2, <3>2, HistoryOfTop
      <3>4. QED BY <3>2, <3>3 DEF OffTheTop
    <2>2. CASE ~(n > 0)
      <3>1. scrolled = g /\ n = 0 BY <1>2, <2>2
      <3>2. k = history_size(g) BY <1>1, <3>1 DEF HistoryAfter, MinOf
      <3>3. Kept(g, g) BY <1>1 DEF Kept
      <3>4. \A l \in LinesOf(g.raw) : l + n \in LinesOf(g.raw) /\ l + n = l BY <1>1, <3>1
      <3> HIDE DEF scrolled, k
      <3>5. QED BY <1>1, <3>1, <3>2, <3>3, <3>4
    <2>3. QED BY <2>1, <2>2
  <1> HIDE DEF scrolled, n, u, k
  <1>5. /\ scrolled.raw \in Good /\ scrolled.raw.visible_lines = V /\ scrolled.raw.len = V + k
        /\ scrolled \in Grids /\ scrolled.cursor = g.cursor /\ scrolled.saved_cursor = g.saved_cursor
        /\ scrolled.max_scroll_limit = g.max_scroll_limit /\ k <= g.max_scroll_limit
    <2>1. scrolled.lines = V BY <1>4 DEF Kept
    <2>2. /\ scrolled.raw \in Good /\ scrolled.raw.visible_lines = V
          /\ k = scrolled.raw.len - V /\ scrolled.raw.len \in Nat /\ k <= scrolled.max_scroll_limit
      BY <1>4, <2>1, SoundFacts
    <2>3. QED BY <1>1, <1>4, <2>2 DEF Kept
  <1>6. /\ raw \in Good /\ raw.visible_lines = target /\ raw.len = target + k
        /\ \A l \in LinesOf(raw) : l \in LinesOf(scrolled.raw) /\ RowAt(raw, l) = RowAt(scrolled.raw, l)
    <2> DEFINE s == scrolled.raw
    <2>1. s \in Good /\ s.visible_lines = V /\ s.len = V + k /\ target < s.visible_lines BY <1>5
    <2>2. raw = shrink_visible_lines(rotate(s, s.visible_lines - target), target) BY <2>1
    <2> HIDE DEF s, raw
    <2>3. /\ raw \in Good /\ raw.visible_lines = target
          /\ raw.len = s.len - (s.visible_lines - target)
          /\ \A l \in LinesOf(raw) : l \in LinesOf(s) /\ RowAt(raw, l) = RowAt(s, l)
      BY <2>1, <2>2, CutRows
    <2>4. (V + k) - (V - target) = target + k BY <1>1, <1>4
    <2>5. QED BY <2>1, <2>3, <2>4 DEF s
  <1>7. line \in Nat /\ line < target /\ saved \in Nat /\ saved < target
    BY <1>1, <1>2, <1>5 DEF MinOf
  <1> HIDE DEF raw, line, saved
  <1>8. /\ u \in Grids /\ u.raw = raw /\ u.lines = target /\ u.max_scroll_limit = g.max_scroll_limit
        /\ u.cursor.line = line /\ u.saved_cursor.line = saved
        /\ u.cursor.template = g.cursor.template /\ u.saved_cursor.template = g.saved_cursor.template
    BY <1>1, <1>3, <1>5, <1>6, <1>7 DEF Grids, Cursors
  <1>9. Sound(u) BY <1>4, <1>5, <1>6, <1>8 DEF Sound
  <1>10. history_size(u) = k BY <1>4, <1>6, <1>8, <1>9, SoundFacts
  <1>11. InView(u) BY <1>7, <1>8 DEF InView
  <1>12. ASSUME NEW l \in LinesOf(raw)
         PROVE  l + n \in LinesOf(g.raw) /\ RowAt(raw, l) = RowAt(g.raw, l + n)
    <2>1. l \in Int /\ l < target BY <1>4, <1>6 DEF LinesOf
    <2>2. l < V - n BY <1>1, <1>2, <2>1
    <2>3. QED BY <1>4, <1>6, <2>2
  <1>13. Shrank(g, target, u) BY <1>8, <1>9, <1>10, <1>11, <1>12 DEF Shrank, n, k
  <1>14. QED BY <1>2, <1>13 DEF u, n, V

(* Grid::resize puts the cursor's template back; blank lines are NewRow. *)
Resized(g, target, u) ==
  \E v, w \in Grids :
    /\ v = [g EXCEPT !.cursor.template = NewRow]
    /\ u = [w EXCEPT !.cursor.template = g.cursor.template]
    /\ Sound(v) /\ InView(v) /\ Sound(u) /\ InView(u) /\ u.lines = target
    /\ u.raw = w.raw /\ v.raw = g.raw /\ u.max_scroll_limit = g.max_scroll_limit
    /\ history_size(u) = history_size(w) /\ history_size(v) = history_size(g)
    /\ v.lines = g.lines /\ v.cursor.line = g.cursor.line /\ v.cursor.template = NewRow
    /\ g.max_scroll_limit = v.max_scroll_limit
    /\ u.cursor.template = g.cursor.template /\ u.saved_cursor.template = g.saved_cursor.template
    /\ g.lines < target => Grew(v, target, w)
    /\ g.lines > target => Shrank(v, target, w)
    /\ g.lines = target => w = v

(* Grid::resize of the height, in either direction. *)
LEMMA ResizeIs ==
  ASSUME NEW g, Sound(g), InView(g), NEW target \in Nat, 1 <= target
  PROVE  Resized(g, target, resize(g, target))
  <1> DEFINE v == [g EXCEPT !.cursor.template = NewRow]
             w == CASE g.lines < target -> grow_lines(v, target)
                    [] g.lines > target -> ShrinkViewport(v, target)
                    [] OTHER -> v
             u == [w EXCEPT !.cursor.template = g.cursor.template]
  <1>1. resize(g, target) = u BY Zenon DEF resize
  <1>2. /\ g \in Grids /\ g.cursor \in Cursors /\ g.saved_cursor \in Cursors /\ g.lines \in Nat
        /\ g.cursor.template \in Templates /\ NewRow \in Templates
    BY SoundFacts, GridAssumption
  <1>3. /\ v \in Grids /\ v.raw = g.raw /\ v.lines = g.lines /\ v.max_scroll_limit = g.max_scroll_limit
        /\ v.cursor.line = g.cursor.line /\ v.cursor.template = NewRow /\ v.saved_cursor = g.saved_cursor
    BY <1>2 DEF Grids, Cursors
  <1> HIDE DEF v
  <1>4. Sound(v) /\ InView(v) BY <1>3 DEF Sound, InView
  <1>5. /\ g.lines < target => w = grow_lines(v, target)
        /\ g.lines > target => w = ShrinkViewport(v, target)
        /\ g.lines = target => w = v
    BY <1>2
  <1> HIDE DEF w
  <1>6. /\ g.lines < target => Grew(v, target, w)
        /\ g.lines > target => Shrank(v, target, w)
    BY <1>2, <1>3, <1>4, <1>5, GrowLinesIs, ShrinkViewportIs
  <1>7. /\ Sound(w) /\ InView(w) /\ w.lines = target /\ w.max_scroll_limit = g.max_scroll_limit
        /\ w.saved_cursor.template = g.saved_cursor.template
    <2>1. CASE g.lines < target BY <1>3, <1>6, <2>1 DEF Grew
    <2>2. CASE g.lines > target BY <1>3, <1>6, <2>2 DEF Shrank
    <2>3. CASE g.lines = target BY <1>3, <1>4, <1>5, <2>3
    <2>4. QED BY <1>2, <2>1, <2>2, <2>3
  <1>8. w \in Grids /\ w.cursor \in Cursors BY <1>7, SoundFacts
  <1>9. /\ u \in Grids /\ u.raw = w.raw /\ u.lines = w.lines /\ u.max_scroll_limit = w.max_scroll_limit
        /\ u.cursor.line = w.cursor.line /\ u.cursor.template = g.cursor.template
        /\ u.saved_cursor = w.saved_cursor
    BY <1>2, <1>8 DEF Grids, Cursors
  <1> HIDE DEF u
  <1>10. Sound(u) /\ InView(u) BY <1>7, <1>9 DEF Sound, InView
  <1>11. history_size(u) = history_size(w) /\ history_size(v) = history_size(g)
    BY <1>3, <1>9 DEF history_size
  <1>12. QED
    BY <1>1, <1>3, <1>4, <1>5, <1>6, <1>7, <1>8, <1>9, <1>10, <1>11 DEF Resized, u, v

-------------------------------------------------------------------------------
(* The inductive invariant: a grid its methods may be called on, whose
   cursors are on the screen.  The cursors are needed because resizing
   scrolls by where the cursor is, the exact storage because no method is
   called on any other. *)
GridGood(g) ==
  /\ Sound(g) /\ InView(g)
  /\ g.lines \in Heights /\ g.max_scroll_limit \in Limits

(* The invariant implies everything GridInv says. *)
LEMMA GridGoodParts ==
  ASSUME GridGood(grid)
  PROVE  TypeOK /\ HistoryWithinLimit /\ CursorsInViewport
  <1>1. /\ grid.raw \in Good /\ grid.lines = grid.raw.visible_lines /\ grid.lines \in Nat
        /\ grid.display_offset \in Nat /\ history_size(grid) <= grid.max_scroll_limit
        /\ grid.cursor \in Cursors /\ grid.saved_cursor \in Cursors
    BY SoundFacts DEF GridGood
  <1>2. /\ grid.cursor.line \in Nat /\ grid.cursor.template \in Templates
        /\ grid.saved_cursor.line \in Nat /\ grid.saved_cursor.template \in Templates
    BY <1>1 DEF Cursors
  <1>3. TypeOK BY <1>1, <1>2 DEF TypeOK, GridGood, Good
  <1>4. CursorsInViewport
    <2>1. grid.cursor.line \in 0..(grid.lines - 1) /\ grid.saved_cursor.line \in 0..(grid.lines - 1)
      BY <1>1, <1>2 DEF GridGood, InView
    <2>2. QED BY <2>1 DEF CursorsInViewport, ViewLines
  <1>5. QED BY <1>1, <1>3, <1>4 DEF HistoryWithinLimit

(* A new grid has the lines of its viewport, all of them empty. *)
LEMMA NewIs ==
  ASSUME NEW lines \in Nat \ {0}, NEW limit \in Nat
  PROVE  LET g == new(lines, limit)
         IN  /\ Sound(g) /\ InView(g) /\ g.lines = lines /\ g.max_scroll_limit = limit
             /\ history_size(g) = 0
             /\ \A l \in LinesOf(g.raw) : RowAt(g.raw, l) = NewRow
  <1> DEFINE g == new(lines, limit)
             s == with_capacity(lines)
             rows == NewRows(lines)
  <1>1. lines \in Nat /\ 1 <= lines /\ rows \in Seq(Row) /\ Len(rows) = lines BY NewRowsSeq
  <1>2. s = MkStorage(rows, 0, lines, lines) BY DEF with_capacity
  <1>3. s \in Good /\ Unrolled(s) = rows BY <1>1, <1>2, UnrolledOfFlat
  <1>4. s.len = lines /\ s.visible_lines = lines BY <1>2, MkStorageFields
  <1>5. ASSUME NEW l \in LinesOf(s) PROVE RowAt(s, l) = NewRow
    <2>1. RowAt(s, l) = rows[s.visible_lines - l] /\ s.visible_lines - l \in 1..s.len
      BY <1>3, RowAtProps, SlotOfLine
    <2>2. QED BY <1>4, <2>1 DEF NewRows
  <1>6. NewRow \in Templates BY GridAssumption
  <1> HIDE DEF s, rows
  <1>7. g = [raw |-> s, lines |-> lines, display_offset |-> 0, max_scroll_limit |-> limit,
             cursor |-> DefaultCursor, saved_cursor |-> DefaultCursor]
    BY DEF new, s
  <1>8. DefaultCursor \in Cursors /\ DefaultCursor.line = 0 BY <1>6 DEF DefaultCursor, Cursors
  <1>9. /\ g \in Grids /\ g.raw = s /\ g.lines = lines /\ g.max_scroll_limit = limit
        /\ g.cursor.line = 0 /\ g.saved_cursor.line = 0
    BY <1>1, <1>3, <1>7, <1>8 DEF Grids
  <1> HIDE DEF g
  <1>10. Sound(g) BY <1>1, <1>4, <1>9 DEF Sound
  <1>11. history_size(g) = 0 BY <1>1, <1>4, <1>9, <1>10, SoundFacts
  <1>12. InView(g) BY <1>1, <1>9 DEF InView
  <1>13. QED BY <1>5, <1>9, <1>10, <1>11, <1>12 DEF g

(* A step that keeps the height, the limit and the cursors. *)
LEMMA KeptGood ==
  ASSUME NEW g, NEW u, GridGood(g), Sound(u), Kept(g, u)
  PROVE  GridGood(u)
  BY DEF GridGood, Kept, InView

(* Grid::scroll_display only moves the view. *)
LEMMA ScrollDisplayIs ==
  ASSUME NEW g, Sound(g), NEW count \in Int
  PROVE  LET u == scroll_display(g, count)
         IN  Sound(u) /\ Kept(g, u) /\ u.raw = g.raw
  <1> DEFINE off == MinOf(MaxOf(g.display_offset + count, 0), history_size(g))
             u == scroll_display(g, count)
  <1>1. off \in Nat BY SoundFacts DEF MinOf, MaxOf
  <1>2. g \in Grids BY SoundFacts
  <1>3. u = [g EXCEPT !.display_offset = off] BY <1>2, Zenon DEF scroll_display
  <1> HIDE DEF off, u
  <1>4. u \in Grids /\ u.raw = g.raw /\ Kept(g, u) BY <1>1, <1>2, <1>3 DEF Grids, Kept
  <1>5. Sound(u) BY <1>4 DEF Sound, Kept
  <1>6. QED BY <1>4, <1>5 DEF u

(* Term::input and the rest write a row of the screen. *)
LEMMA WriteRowIs ==
  ASSUME NEW g, Sound(g), InView(g), NEW row \in Row
  PROVE  LET u == [g EXCEPT !.raw = SetRow(g.raw, g.cursor.line, row)]
         IN  /\ Sound(u) /\ Kept(g, u) /\ u.raw \in Same(g.raw) /\ g.cursor.line \in 0..(g.lines - 1)
             /\ \A l \in LinesOf(g.raw) :
                  RowAt(u.raw, l) = IF l = g.cursor.line THEN row ELSE RowAt(g.raw, l)
  <1> DEFINE c == g.cursor.line
             raw == SetRow(g.raw, c, row)
  <1>1. /\ g.cursor \in Cursors /\ g.lines \in Nat /\ history_size(g) \in Nat
        /\ LinesOf(g.raw) = (-history_size(g))..(g.lines - 1) /\ g.raw \in Good
        /\ g.display_offset \in Nat
    BY SoundFacts
  <1>2. c \in Nat /\ c < g.lines BY <1>1 DEF Cursors, InView
  <1>3. c \in 0..(g.lines - 1) /\ c \in LinesOf(g.raw) BY <1>1, <1>2
  <1>4. /\ raw \in Same(g.raw)
        /\ \A l \in LinesOf(g.raw) : RowAt(raw, l) = IF l = c THEN row ELSE RowAt(g.raw, l)
    BY <1>1, <1>3, SetRowRows
  <1>5. raw \in Good BY <1>4 DEF Same
  <1> HIDE DEF raw
  <1>6. /\ Kept(g, WithRows(g, raw)) /\ WithRows(g, raw).raw = raw /\ Sound(WithRows(g, raw))
    BY <1>1, <1>4, <1>5, KeptBy
  <1>7. QED BY <1>3, <1>4, <1>6 DEF WithRows, raw

(* Moves, saves and restores of the cursors keep every row. *)
WithCursors(g, c, d) == [g EXCEPT !.cursor = c, !.saved_cursor = d]

(* Neither the rows nor the limit depend on the cursors. *)
LEMMA CursorMoves ==
  ASSUME NEW g, GridGood(g), NEW c \in Cursors, NEW d \in Cursors,
         c.line < g.lines, d.line < g.lines,
         NEW u, u = WithCursors(g, c, d)
  PROVE  GridGood(u) /\ u.raw = g.raw /\ u.lines = g.lines /\ u.max_scroll_limit = g.max_scroll_limit
  <1>1. g \in Grids BY SoundFacts DEF GridGood
  <1>2. /\ u \in Grids /\ u.raw = g.raw /\ u.lines = g.lines /\ u.cursor = c /\ u.saved_cursor = d
        /\ u.max_scroll_limit = g.max_scroll_limit
    BY <1>1 DEF Grids, WithCursors
  <1>3. Sound(u) BY <1>2 DEF GridGood, Sound
  <1>4. QED BY <1>2, <1>3 DEF GridGood, InView

-------------------------------------------------------------------------------
(* Sequences of rows: what is where in a part of one, and in two joined. *)
LEMMA PartIs ==
  ASSUME NEW s \in Seq(Row), NEW a \in Int, NEW b \in Int, 1 <= a, a <= b + 1, b <= Len(s)
  PROVE  /\ SubSeq(s, a, b) \in Seq(Row) /\ Len(SubSeq(s, a, b)) = b - a + 1
         /\ \A i \in 1..(b - a + 1) : SubSeq(s, a, b)[i] = s[a + i - 1]
  OBVIOUS

(* Two sequences joined. *)
LEMMA JoinIs ==
  ASSUME NEW a \in Seq(Row), NEW b \in Seq(Row)
  PROVE  /\ a \o b \in Seq(Row) /\ Len(a \o b) = Len(a) + Len(b)
         /\ \A i \in 1..(Len(a) + Len(b)) :
              (a \o b)[i] = IF i <= Len(a) THEN a[i] ELSE b[i - Len(a)]
  OBVIOUS

(* A number of equal rows. *)
LEMMA BlankIs ==
  ASSUME NEW n \in Nat, NEW t \in Row
  PROVE  /\ SB!Blank(n, t) \in Seq(Row) /\ Len(SB!Blank(n, t)) = n
         /\ \A i \in 1..n : SB!Blank(n, t)[i] = t
  BY DEF SB!Blank

(* Sequences with the same entries are equal. *)
LEMMA SameSeq ==
  ASSUME NEW a \in Seq(Row), NEW b \in Seq(Row), Len(a) = Len(b),
         \A i \in 1..Len(a) : a[i] = b[i]
  PROVE  a = b
  OBVIOUS

(* The newest n entries of a sequence. *)
LEMMA NewestIs ==
  ASSUME NEW s \in Seq(Row), NEW n \in Nat
  PROVE  LET k == MinOf(Len(s), n)
         IN  /\ SB!Newest(s, n) \in Seq(Row) /\ Len(SB!Newest(s, n)) = k
             /\ \A i \in 1..k : SB!Newest(s, n)[i] = s[Len(s) - k + i]
  <1>1. Len(s) \in Nat OBVIOUS
  <1>2. CASE Len(s) < n
    <2>1. SB!Newest(s, n) = s BY <1>1, <1>2 DEF SB!Newest
    <2>2. MinOf(Len(s), n) = Len(s) BY <1>2 DEF MinOf
    <2>3. \A i \in 1..Len(s) : Len(s) - Len(s) + i = i BY <1>1
    <2>4. QED BY <2>1, <2>2, <2>3
  <1>3. CASE Len(s) = n
    <2>1. SB!Newest(s, n) = s BY <1>1, <1>3 DEF SB!Newest
    <2>2. MinOf(Len(s), n) = Len(s) BY <1>3 DEF MinOf
    <2>3. \A i \in 1..Len(s) : Len(s) - Len(s) + i = i BY <1>1
    <2>4. QED BY <2>1, <2>2, <2>3
  <1>4. CASE Len(s) > n
    <2> DEFINE a == Len(s) - n + 1
               b == Len(s)
               p == SubSeq(s, a, b)
    <2>1. SB!Newest(s, n) = p BY <1>1, <1>4 DEF SB!Newest
    <2>2. MinOf(Len(s), n) = n BY <1>1, <1>4 DEF MinOf
    <2>3. a \in Int /\ b \in Int /\ 1 <= a /\ a <= b + 1 /\ b - a + 1 = n /\ b <= Len(s) BY <1>1, <1>4
    <2>4. \A i \in 1..n : a + i - 1 = Len(s) - n + i BY <1>1
    <2> HIDE DEF a, b
    <2>5. p \in Seq(Row) /\ Len(p) = b - a + 1 /\ \A i \in 1..(b - a + 1) : p[i] = s[a + i - 1]
      BY <2>3, PartIs
    <2> HIDE DEF p
    <2>6. Len(p) = n /\ \A i \in 1..n : p[i] = s[Len(s) - n + i] BY <2>3, <2>4, <2>5
    <2>7. QED BY <2>1, <2>2, <2>5, <2>6
  <1>5. QED BY <1>1, <1>2, <1>3, <1>4

(* Replacing the entries from..to of a sequence. *)
PatchOf(s, from, to, rows) == SubSeq(s, 1, from - 1) \o rows \o SubSeq(s, to + 1, Len(s))

(* Entries outside the replaced ones stay. *)
LEMMA PatchIs ==
  ASSUME NEW s \in Seq(Row), NEW from \in Int, NEW to \in Int, 1 <= from, from <= to + 1,
         to <= Len(s), NEW rows \in Seq(Row), Len(rows) = to - from + 1
  PROVE  LET p == PatchOf(s, from, to, rows)
         IN  /\ p \in Seq(Row) /\ Len(p) = Len(s)
             /\ \A i \in 1..Len(s) :
                  p[i] = IF from <= i /\ i <= to THEN rows[i - from + 1] ELSE s[i]
  <1> DEFINE one == 1
             f == from - 1
             e == to + 1
             N == Len(s)
             a == SubSeq(s, one, f)
             b == a \o rows
             c == SubSeq(s, e, N)
             p == b \o c
  <1>1. /\ N \in Int /\ one = 1 /\ f \in Int /\ e \in Int /\ one <= f + 1 /\ f <= Len(s) /\ N = Len(s)
        /\ 1 <= e /\ e <= N + 1 /\ f - one + 1 = f /\ N - e + 1 = N - to /\ f = from - 1 /\ e = to + 1
    OBVIOUS
  <1>2. PatchOf(s, from, to, rows) = p BY DEF PatchOf
  <1> HIDE DEF one, f, e, N
  <1>3. a \in Seq(Row) /\ Len(a) = f /\ \A i \in 1..f : a[i] = s[one + i - 1]
    <2>1. one \in Int /\ 1 <= one BY <1>1
    <2>2. a \in Seq(Row) /\ Len(a) = f - one + 1 /\ \A i \in 1..(f - one + 1) : a[i] = s[one + i - 1]
      BY <1>1, <2>1, PartIs
    <2>3. QED BY <1>1, <2>2
  <1>4. c \in Seq(Row) /\ Len(c) = N - to /\ \A i \in 1..(N - to) : c[i] = s[e + i - 1]
    <2>1. c \in Seq(Row) /\ Len(c) = N - e + 1 /\ \A i \in 1..(N - e + 1) : c[i] = s[e + i - 1]
      BY <1>1, PartIs
    <2>2. QED BY <1>1, <2>1
  <1> HIDE DEF a, c
  <1>5. /\ b \in Seq(Row) /\ Len(b) = Len(a) + Len(rows)
        /\ \A i \in 1..(Len(a) + Len(rows)) : b[i] = IF i <= Len(a) THEN a[i] ELSE rows[i - Len(a)]
    BY <1>3, JoinIs
  <1> HIDE DEF b
  <1>6. /\ p \in Seq(Row) /\ Len(p) = Len(b) + Len(c)
        /\ \A i \in 1..(Len(b) + Len(c)) : p[i] = IF i <= Len(b) THEN b[i] ELSE c[i - Len(b)]
    BY <1>4, <1>5, JoinIs
  <1> HIDE DEF p
  <1>7. Len(b) = to /\ Len(a) + Len(rows) = to /\ Len(b) + Len(c) = N BY <1>1, <1>3, <1>4, <1>5
  <1>8. ASSUME NEW i \in 1..N PROVE p[i] = IF from <= i /\ i <= to THEN rows[i - from + 1] ELSE s[i]
    <2>1. i \in Int BY <1>1
    <2>2. p[i] = IF i <= to THEN b[i] ELSE c[i - to] BY <1>6, <1>7
    <2>3. CASE i <= f
      <3>1. i \in 1..f /\ i \in 1..to /\ i <= to /\ ~(from <= i) /\ one + i - 1 = i BY <1>1, <2>1, <2>3
      <3>2. b[i] = a[i] BY <1>3, <1>5, <1>7, <3>1, <2>3
      <3>3. QED BY <1>3, <2>2, <3>1, <3>2
    <2>4. CASE f < i /\ i <= to
      <3>1. i \in 1..to /\ ~(i <= f) /\ from <= i /\ i - f = i - from + 1 BY <1>1, <2>1, <2>4
      <3>2. b[i] = rows[i - f] BY <1>3, <1>5, <1>7, <3>1
      <3>3. QED BY <2>2, <2>4, <3>1, <3>2
    <2>5. CASE to < i
      <3>1. i - to \in 1..(N - to) /\ e + (i - to) - 1 = i /\ ~(i <= to) BY <1>1, <2>1, <2>5
      <3>2. QED BY <1>4, <2>2, <3>1
    <2>6. QED BY <1>1, <2>1, <2>3, <2>4, <2>5
  <1>9. QED BY <1>1, <1>2, <1>6, <1>7, <1>8

(* The two scrolls of the plain buffer, entry by entry. *)
UpOf(s, start, end, n, t) ==
  LET k == SB!Moved(start, end, n)
  IN  PatchOf(s, start + 1, end, SubSeq(s, start + k + 1, end) \o SB!Blank(k, t))

DownOf(s, start, end, n, t) ==
  LET k == SB!Moved(start, end, n)
  IN  PatchOf(s, start + 1, end, SB!Blank(k, t) \o SubSeq(s, start + 1, end - k))

MovesUp(s, start, end, n, t, p) ==
  /\ p \in Seq(Row) /\ Len(p) = Len(s)
  /\ \A i \in 1..Len(s) :
       p[i] = IF start + 1 <= i /\ i <= end
                THEN IF i + n <= end THEN s[i + n] ELSE t
                ELSE s[i]

MovesDown(s, start, end, n, t, p) ==
  /\ p \in Seq(Row) /\ Len(p) = Len(s)
  /\ \A i \in 1..Len(s) :
       p[i] = IF start + 1 <= i /\ i <= end
                THEN IF start + 1 <= i - n THEN s[i - n] ELSE t
                ELSE s[i]

(* Scrolling the plain buffer up. *)
LEMMA UpIs ==
  ASSUME NEW s \in Seq(Row), NEW start \in Nat, NEW end \in Nat, start < end, end <= Len(s),
         NEW n \in Nat, NEW t \in Row
  PROVE  MovesUp(s, start, end, n, t, UpOf(s, start, end, n, t))
  <1> DEFINE k == SB!Moved(start, end, n)
             f == start + k + 1
             a == SubSeq(s, f, end)
             b == SB!Blank(k, t)
             r == a \o b
             from == start + 1
             p == PatchOf(s, from, end, r)
  <1>1. k \in Nat /\ k <= end - start /\ (n > end - start => k = end - start)
    BY DEF SB!Moved
  <1>2. n <= end - start => k = n BY DEF SB!Moved
  <1>3. UpOf(s, start, end, n, t) = p BY Zenon DEF UpOf
  <1> HIDE DEF k
  <1>4. f \in Int /\ 1 <= f /\ f <= end + 1 /\ end - f + 1 = end - start - k /\ f = start + k + 1
    BY <1>1
  <1>5. from \in Int /\ 1 <= from /\ from <= end + 1 /\ from = start + 1 OBVIOUS
  <1> HIDE DEF f, from
  <1>6. a \in Seq(Row) /\ Len(a) = end - f + 1 /\ \A i \in 1..(end - f + 1) : a[i] = s[f + i - 1]
    BY <1>4, PartIs
  <1>7. b \in Seq(Row) /\ Len(b) = k /\ \A i \in 1..k : b[i] = t BY <1>1, BlankIs
  <1> HIDE DEF a, b
  <1>8. /\ r \in Seq(Row) /\ Len(r) = Len(a) + Len(b)
        /\ \A i \in 1..(Len(a) + Len(b)) : r[i] = IF i <= Len(a) THEN a[i] ELSE b[i - Len(a)]
    BY <1>6, <1>7, JoinIs
  <1> HIDE DEF r
  <1>9. Len(r) = end - from + 1 /\ Len(a) + Len(b) = end - start BY <1>1, <1>4, <1>5, <1>6, <1>7, <1>8
  <1>10. /\ p \in Seq(Row) /\ Len(p) = Len(s)
         /\ \A i \in 1..Len(s) : p[i] = IF from <= i /\ i <= end THEN r[i - from + 1] ELSE s[i]
    BY <1>5, <1>8, <1>9, PatchIs
  <1> HIDE DEF p
  <1>11. ASSUME NEW i \in Int, from <= i, i <= end
         PROVE  r[i - from + 1] = IF i + n <= end THEN s[i + n] ELSE t
    <2> DEFINE j == i - from + 1
    <2>1. j \in 1..(end - start) /\ j = i - start BY <1>5, <1>11
    <2> HIDE DEF j
    <2>2. r[j] = IF j <= Len(a) THEN a[j] ELSE b[j - Len(a)] BY <1>8, <1>9, <2>1
    <2>3. CASE i + n <= end
      <3>1. k = n BY <1>2, <1>5, <1>11, <2>3
      <3>2. j \in 1..(end - f + 1) /\ j <= Len(a) /\ f + j - 1 = i + n
        BY <1>4, <1>5, <1>6, <1>11, <2>1, <2>3, <3>1
      <3>3. QED BY <1>6, <2>2, <2>3, <3>2 DEF j
    <2>4. CASE ~(i + n <= end)
      <3>1. ~(i + k <= end)
        <4>1. CASE n <= end - start BY <1>2, <2>4, <4>1
        <4>2. CASE n > end - start BY <1>1, <1>5, <1>11, <4>2
        <4>3. QED BY <4>1, <4>2
      <3>2. ~(j <= Len(a)) /\ j - Len(a) \in 1..k
        BY <1>1, <1>4, <1>5, <1>6, <1>11, <2>1, <3>1
      <3>3. QED BY <1>7, <2>2, <2>4, <3>2 DEF j
    <2>5. QED BY <2>3, <2>4
  <1>12. ASSUME NEW i \in 1..Len(s)
         PROVE  p[i] = IF start + 1 <= i /\ i <= end
                         THEN IF i + n <= end THEN s[i + n] ELSE t
                         ELSE s[i]
    <2>1. i \in Int OBVIOUS
    <2>2. CASE from <= i /\ i <= end BY <1>5, <1>10, <1>11, <2>1, <2>2
    <2>3. CASE ~(from <= i /\ i <= end) BY <1>5, <1>10, <2>1, <2>3
    <2>4. QED BY <2>2, <2>3
  <1>13. QED BY <1>3, <1>10, <1>12 DEF MovesUp

(* Scrolling the plain buffer down. *)
LEMMA DownIs ==
  ASSUME NEW s \in Seq(Row), NEW start \in Nat, NEW end \in Nat, start < end, end <= Len(s),
         NEW n \in Nat, NEW t \in Row
  PROVE  MovesDown(s, start, end, n, t, DownOf(s, start, end, n, t))
  <1> DEFINE k == SB!Moved(start, end, n)
             e == end - k
             from == start + 1
             a == SubSeq(s, from, e)
             b == SB!Blank(k, t)
             r == b \o a
             p == PatchOf(s, from, end, r)
  <1>1. k \in Nat /\ k <= end - start /\ (n > end - start => k = end - start)
    BY DEF SB!Moved
  <1>2. n <= end - start => k = n BY DEF SB!Moved
  <1>3. DownOf(s, start, end, n, t) = p BY Zenon DEF DownOf
  <1> HIDE DEF k
  <1>4. e \in Int /\ e = end - k BY <1>1
  <1>5. from \in Int /\ 1 <= from /\ from <= end + 1 /\ from = start + 1 /\ from <= e + 1 /\ e <= Len(s)
        /\ e - from + 1 = end - start - k
    BY <1>1, <1>4
  <1> HIDE DEF e, from
  <1>6. a \in Seq(Row) /\ Len(a) = e - from + 1 /\ \A i \in 1..(e - from + 1) : a[i] = s[from + i - 1]
    BY <1>4, <1>5, PartIs
  <1>7. b \in Seq(Row) /\ Len(b) = k /\ \A i \in 1..k : b[i] = t BY <1>1, BlankIs
  <1> HIDE DEF a, b
  <1>8. /\ r \in Seq(Row) /\ Len(r) = Len(b) + Len(a)
        /\ \A i \in 1..(Len(b) + Len(a)) : r[i] = IF i <= Len(b) THEN b[i] ELSE a[i - Len(b)]
    BY <1>6, <1>7, JoinIs
  <1> HIDE DEF r
  <1>9. Len(r) = end - from + 1 /\ Len(b) + Len(a) = end - start BY <1>1, <1>4, <1>5, <1>6, <1>7, <1>8
  <1>10. /\ p \in Seq(Row) /\ Len(p) = Len(s)
         /\ \A i \in 1..Len(s) : p[i] = IF from <= i /\ i <= end THEN r[i - from + 1] ELSE s[i]
    BY <1>5, <1>8, <1>9, PatchIs
  <1> HIDE DEF p
  <1>11. ASSUME NEW i \in Int, from <= i, i <= end
         PROVE  r[i - from + 1] = IF from <= i - n THEN s[i - n] ELSE t
    <2> DEFINE j == i - from + 1
    <2>1. j \in 1..(end - start) /\ j = i - start BY <1>5, <1>11
    <2> HIDE DEF j
    <2>2. r[j] = IF j <= k THEN b[j] ELSE a[j - k] BY <1>7, <1>8, <1>9, <2>1
    <2>3. CASE from <= i - n
      <3>1. k = n BY <1>2, <1>5, <1>11, <2>3
      <3>2. j - k \in 1..(e - from + 1) /\ ~(j <= k) /\ from + (j - k) - 1 = i - n
        BY <1>4, <1>5, <1>11, <2>1, <2>3, <3>1
      <3>3. QED BY <1>6, <2>2, <2>3, <3>2 DEF j
    <2>4. CASE ~(from <= i - n)
      <3>1. j <= k
        <4>1. CASE n <= end - start BY <1>2, <1>5, <1>11, <2>1, <2>4, <4>1
        <4>2. CASE n > end - start BY <1>1, <1>5, <1>11, <2>1, <4>2
        <4>3. QED BY <4>1, <4>2
      <3>2. j \in 1..k BY <1>1, <2>1, <3>1
      <3>3. QED BY <1>7, <2>2, <2>4, <3>1, <3>2 DEF j
    <2>5. QED BY <2>3, <2>4
  <1>12. ASSUME NEW i \in 1..Len(s)
         PROVE  p[i] = IF start + 1 <= i /\ i <= end
                         THEN IF start + 1 <= i - n THEN s[i - n] ELSE t
                         ELSE s[i]
    <2>1. i \in Int OBVIOUS
    <2>2. CASE from <= i /\ i <= end BY <1>5, <1>10, <1>11, <2>1, <2>2
    <2>3. CASE ~(from <= i /\ i <= end) BY <1>5, <1>10, <2>1, <2>3
    <2>4. QED BY <2>2, <2>3
  <1>13. QED BY <1>3, <1>10, <1>12 DEF MovesDown

(* The lines of a grid as the two sequences of the plain buffer. *)
LEMMA ScreenIs ==
  ASSUME NEW g, Sound(g)
  PROVE  /\ ScreenOf(g) \in Seq(Row) /\ Len(ScreenOf(g)) = g.lines
         /\ \A i \in 1..g.lines : i - 1 \in LinesOf(g.raw) /\ ScreenOf(g)[i] = RowAt(g.raw, i - 1)
  <1>1. /\ g.lines \in Nat /\ history_size(g) \in Nat /\ g.raw \in Good
        /\ LinesOf(g.raw) = (-history_size(g))..(g.lines - 1)
    BY SoundFacts
  <1>2. \A i \in 1..g.lines : i - 1 \in LinesOf(g.raw) BY <1>1
  <1>3. \A i \in 1..g.lines : RowAt(g.raw, i - 1) \in Row BY <1>1, <1>2, RowAtProps
  <1>4. QED BY <1>1, <1>2, <1>3 DEF ScreenOf

(* The scrollback, oldest line first. *)
LEMMA HistoryIs ==
  ASSUME NEW g, Sound(g)
  PROVE  LET h == history_size(g)
         IN  /\ HistoryOf(g) \in Seq(Row) /\ Len(HistoryOf(g)) = h
             /\ \A i \in 1..h : i - 1 - h \in LinesOf(g.raw) /\ HistoryOf(g)[i] = RowAt(g.raw, i - 1 - h)
  <1> DEFINE h == history_size(g)
  <1>1. g.lines \in Nat /\ h \in Nat /\ g.raw \in Good /\ LinesOf(g.raw) = (-h)..(g.lines - 1)
    BY SoundFacts
  <1>2. HistoryOf(g) = [i \in 1..h |-> RowAt(g.raw, i - 1 - h)] BY DEF HistoryOf
  <1> HIDE DEF h
  <1>3. \A i \in 1..h : i - 1 - h \in LinesOf(g.raw) BY <1>1
  <1>4. \A i \in 1..h : RowAt(g.raw, i - 1 - h) \in Row BY <1>1, <1>3, RowAtProps
  <1>5. HistoryOf(g) \in Seq(Row) /\ Len(HistoryOf(g)) = h
        /\ \A i \in 1..h : HistoryOf(g)[i] = RowAt(g.raw, i - 1 - h)
    BY <1>1, <1>2, <1>4
  <1>6. QED BY <1>3, <1>5 DEF h

(* A sequence with the rows of the screen is the screen. *)
LEMMA ScreenBy ==
  ASSUME NEW u, Sound(u), NEW p \in Seq(Row), Len(p) = u.lines,
         \A i \in 1..u.lines : p[i] = RowAt(u.raw, i - 1)
  PROVE  ScreenOf(u) = p
  <1>1. /\ ScreenOf(u) \in Seq(Row) /\ Len(ScreenOf(u)) = Len(p)
        /\ \A i \in 1..Len(ScreenOf(u)) : ScreenOf(u)[i] = p[i]
    BY ScreenIs
  <1>2. QED BY <1>1, SameSeq

(* A sequence with the rows of the scrollback is the scrollback. *)
LEMMA HistoryBy ==
  ASSUME NEW u, Sound(u), NEW k, k = history_size(u), NEW p \in Seq(Row), Len(p) = k,
         \A i \in 1..k : p[i] = RowAt(u.raw, i - 1 - k)
  PROVE  HistoryOf(u) = p
  <1>1. /\ HistoryOf(u) \in Seq(Row) /\ Len(HistoryOf(u)) = Len(p)
        /\ \A i \in 1..Len(HistoryOf(u)) : HistoryOf(u)[i] = p[i]
    BY HistoryIs
  <1>2. QED BY <1>1, SameSeq

(* Grids with the same rows show the same sequences. *)
LEMMA SameViews ==
  ASSUME NEW g, NEW u, u.raw = g.raw, u.lines = g.lines
  PROVE  ScreenOf(u) = ScreenOf(g) /\ HistoryOf(u) = HistoryOf(g) /\ history_size(u) = history_size(g)
  BY DEF ScreenOf, HistoryOf, history_size

(* n lines of the screen went on top of it. *)
Fed(g, n, u) ==
  /\ history_size(u) = HistoryAfter(g, n)
  /\ \A l \in LinesOf(u.raw) :
       l < 0 => l + n \in LinesOf(g.raw) /\ RowAt(u.raw, l) = RowAt(g.raw, l + n)

(* The scrollback is then the newest lines of the old one and those n. *)
LEMMA FedHistory ==
  ASSUME NEW g, Sound(g), NEW n \in 0..g.lines, NEW u, Sound(u), Fed(g, n, u)
  PROVE  HistoryOf(u) = SB!Newest(HistoryOf(g) \o SubSeq(ScreenOf(g), 1, n), g.max_scroll_limit)
  <1> DEFINE one == 1
             h == history_size(g)
             k == history_size(u)
             H == HistoryOf(g)
             S == ScreenOf(g)
             T == SubSeq(S, one, n)
             A == H \o T
             m == g.max_scroll_limit
             p == SB!Newest(A, m)
  <1>1. h \in Nat /\ k \in Nat /\ m \in Nat /\ n \in Int /\ g.lines \in Nat BY SoundFacts
  <1>2. k = MinOf(h + n, m) BY DEF Fed, HistoryAfter
  <1>3. H \in Seq(Row) /\ Len(H) = h /\ \A i \in 1..h : H[i] = RowAt(g.raw, i - 1 - h) BY HistoryIs
  <1>4. S \in Seq(Row) /\ Len(S) = g.lines /\ \A i \in 1..g.lines : S[i] = RowAt(g.raw, i - 1) BY ScreenIs
  <1>5. \A l \in LinesOf(u.raw) : l < 0 => RowAt(u.raw, l) = RowAt(g.raw, l + n) BY DEF Fed
  <1>6. one = 1 /\ one \in Int /\ 1 <= one /\ one <= n + 1 /\ n <= Len(S) /\ n - one + 1 = n
        /\ n \in 0..g.lines
    BY <1>1, <1>4
  <1>7. LinesOf(u.raw) = (-k)..(u.lines - 1) /\ u.lines \in Nat BY SoundFacts
  <1> HIDE DEF H, S, h, k, m, one
  <1>8. T \in Seq(Row) /\ Len(T) = n /\ \A i \in 1..n : T[i] = S[i]
    <2>1. T \in Seq(Row) /\ Len(T) = n - one + 1 /\ \A i \in 1..(n - one + 1) : T[i] = S[one + i - 1]
      BY <1>1, <1>4, <1>6, PartIs
    <2>2. \A i \in 1..n : one + i - 1 = i BY <1>1, <1>6
    <2>3. QED BY <1>6, <2>1, <2>2
  <1> HIDE DEF T
  <1>9. /\ A \in Seq(Row) /\ Len(A) = Len(H) + Len(T)
        /\ \A i \in 1..(Len(H) + Len(T)) : A[i] = IF i <= Len(H) THEN H[i] ELSE T[i - Len(H)]
    BY <1>3, <1>8, JoinIs
  <1> HIDE DEF A
  <1>10. ASSUME NEW i \in 1..(h + n) PROVE A[i] = RowAt(g.raw, i - 1 - h)
    <2>1. i \in Int /\ A[i] = IF i <= h THEN H[i] ELSE T[i - h] BY <1>1, <1>3, <1>8, <1>9
    <2>2. CASE i <= h
      <3>1. i \in 1..h BY <1>1, <2>1, <2>2
      <3>2. QED BY <1>3, <2>1, <2>2, <3>1
    <2>3. CASE ~(i <= h)
      <3>1. i - h \in 1..n /\ i - h \in 1..g.lines /\ (i - h) - 1 = i - 1 - h BY <1>1, <1>6, <2>1, <2>3
      <3>2. QED BY <1>4, <1>8, <2>1, <2>3, <3>1
    <2>4. QED BY <2>2, <2>3
  <1>11. Len(A) = h + n BY <1>3, <1>8, <1>9
  <1>12. /\ p \in Seq(Row) /\ Len(p) = k /\ \A i \in 1..k : p[i] = A[Len(A) - k + i]
    <2>1. /\ p \in Seq(Row) /\ Len(p) = MinOf(Len(A), m)
          /\ \A i \in 1..MinOf(Len(A), m) : p[i] = A[Len(A) - MinOf(Len(A), m) + i]
      BY <1>1, <1>9, NewestIs
    <2>2. QED BY <1>2, <1>11, <2>1
  <1> HIDE DEF p
  <1>13. k <= h + n BY <1>1, <1>2 DEF MinOf
  <1>14. ASSUME NEW i \in 1..k PROVE p[i] = RowAt(u.raw, i - 1 - k)
    <2> DEFINE l == i - 1 - k
               j == h + n - k + i
    <2>1. i \in Int /\ j \in 1..(h + n) /\ j - 1 - h = l + n /\ l < 0 /\ l \in LinesOf(u.raw)
      BY <1>1, <1>7, <1>13
    <2> HIDE DEF l, j
    <2>2. RowAt(u.raw, l) = RowAt(g.raw, l + n) BY <1>5, <2>1
    <2>3. A[j] = RowAt(g.raw, j - 1 - h) BY <1>10, <2>1
    <2>4. p[i] = A[j]
      <3>1. Len(A) - k + i = j BY <1>1, <1>11 DEF j
      <3>2. QED BY <1>12, <3>1
    <2>5. QED BY <2>1, <2>2, <2>3, <2>4 DEF l
  <1>15. k = history_size(u) BY DEF k
  <1>16. HistoryOf(u) = p BY <1>12, <1>14, <1>15, HistoryBy
  <1>17. QED BY <1>16 DEF p, A, T, H, S, m, one

(* The oldest lines were dropped, the others stayed. *)
LEMMA TrimmedViews ==
  ASSUME NEW g, Sound(g), NEW u, Sound(u), u.lines = g.lines, NEW limit \in Nat,
         history_size(u) = MinOf(history_size(g), limit),
         \A l \in LinesOf(u.raw) : RowAt(u.raw, l) = RowAt(g.raw, l)
  PROVE  HistoryOf(u) = SB!Newest(HistoryOf(g), limit) /\ ScreenOf(u) = ScreenOf(g)
  <1> DEFINE h == history_size(g)
             k == history_size(u)
             H == HistoryOf(g)
             p == SB!Newest(H, limit)
  <1>1. h \in Nat /\ k \in Nat /\ u.lines \in Nat /\ LinesOf(u.raw) = (-k)..(u.lines - 1) BY SoundFacts
  <1>2. H \in Seq(Row) /\ Len(H) = h /\ \A i \in 1..h : H[i] = RowAt(g.raw, i - 1 - h) BY HistoryIs
  <1>3. k = MinOf(h, limit) /\ k <= h BY <1>1 DEF MinOf
  <1>4. k = history_size(u) OBVIOUS
  <1> HIDE DEF H, h, k
  <1>5. p \in Seq(Row) /\ Len(p) = k /\ \A i \in 1..k : p[i] = H[h - k + i]
    <2>1. /\ p \in Seq(Row) /\ Len(p) = MinOf(Len(H), limit)
          /\ \A i \in 1..MinOf(Len(H), limit) : p[i] = H[Len(H) - MinOf(Len(H), limit) + i]
      BY <1>2, NewestIs
    <2>2. QED BY <1>2, <1>3, <2>1
  <1> HIDE DEF p
  <1>6. ASSUME NEW i \in 1..k PROVE p[i] = RowAt(u.raw, i - 1 - k)
    <2> DEFINE l == i - 1 - k
               j == h - k + i
    <2>1. j \in 1..h /\ j - 1 - h = l /\ l \in LinesOf(u.raw) BY <1>1, <1>3
    <2> HIDE DEF l, j
    <2>2. RowAt(u.raw, l) = RowAt(g.raw, l) BY <2>1
    <2>3. H[j] = RowAt(g.raw, l) BY <1>2, <2>1
    <2>4. p[i] = H[j] BY <1>5 DEF j
    <2>5. QED BY <2>2, <2>3, <2>4 DEF l
  <1>7. HistoryOf(u) = p BY <1>4, <1>5, <1>6, HistoryBy
  <1>8. ScreenOf(u) = ScreenOf(g)
    <2>1. ScreenOf(g) \in Seq(Row) /\ Len(ScreenOf(g)) = u.lines BY ScreenIs
    <2>2. \A i \in 1..u.lines : i - 1 \in LinesOf(u.raw) BY ScreenIs
    <2>3. \A i \in 1..u.lines : ScreenOf(g)[i] = RowAt(u.raw, i - 1) BY <2>2, ScreenIs
    <2>4. QED BY <2>1, <2>3, ScreenBy
  <1>9. QED BY <1>7, <1>8 DEF p, H

(* The screen after a scroll is that of the plain buffer. *)
LEMMA UpScreen ==
  ASSUME NEW g, Sound(g), NEW start \in Nat, NEW end \in Nat, start < end, end <= g.lines,
         NEW n \in Nat, start = 0 => n <= end
  PROVE  LET u == scroll_up(g, start, end, n)
         IN  /\ ScreenOf(u) = UpOf(ScreenOf(g), start, end, n, g.cursor.template)
             /\ Sound(u) /\ Kept(g, u)
             /\ start = 0 => Fed(g, n, u)
             /\ start # 0 => HistoryOf(u) = HistoryOf(g)
  <1> DEFINE u == scroll_up(g, start, end, n)
             t == g.cursor.template
             S == ScreenOf(g)
             p == UpOf(S, start, end, n, t)
             V == g.lines
  <1>1. /\ V \in Nat /\ t \in Row /\ history_size(g) \in Nat /\ end \in 1..V
        /\ LinesOf(g.raw) = (-history_size(g))..(V - 1)
    BY SoundFacts
  <1>2. S \in Seq(Row) /\ Len(S) = V /\ \A i \in 1..V : i - 1 \in LinesOf(g.raw) /\ S[i] = RowAt(g.raw, i - 1)
    BY ScreenIs
  <1>3. end <= V OBVIOUS
  <1> HIDE DEF S, t, V
  <1>4. /\ p \in Seq(Row) /\ Len(p) = Len(S)
        /\ \A i \in 1..Len(S) :
             p[i] = IF start + 1 <= i /\ i <= end
                      THEN IF i + n <= end THEN S[i + n] ELSE t
                      ELSE S[i]
    <2>1. end <= Len(S) BY <1>2, <1>3
    <2>2. MovesUp(S, start, end, n, t, p) BY <1>1, <1>2, <2>1, UpIs
    <2> HIDE DEF p
    <2>3. QED BY <2>2 DEF MovesUp
  <1> HIDE DEF p
  <1>5. CASE start = 0
    <2>1. u = scroll_up(g, 0, end, n) /\ n \in 0..end BY <1>5
    <2> HIDE DEF u
    <2>2. OffTheTop(g, end, n, u) /\ Sound(u) BY <1>1, <2>1, ScrollUpTop DEF V
    <2>3. history_size(u) = HistoryAfter(g, n) /\ LinesOf(u.raw) = (-HistoryAfter(g, n))..(V - 1)
          /\ HistoryAfter(g, n) \in Nat /\ Kept(g, u)
      <3>1. history_size(u) = HistoryAfter(g, n) /\ HistoryAfter(g, n) \in Nat
            /\ LinesOf(u.raw) = (-HistoryAfter(g, n))..(g.lines - 1)
        BY <2>2, HistoryOfTop
      <3>2. Kept(g, u) BY <2>2 DEF OffTheTop
      <3>3. QED BY <3>1, <3>2 DEF V
    <2>4. \A l \in LinesOf(u.raw) :
            /\ l < end - n => l + n \in LinesOf(g.raw) /\ RowAt(u.raw, l) = RowAt(g.raw, l + n)
            /\ end - n <= l /\ l < end => RowAt(u.raw, l) = t
            /\ end <= l => RowAt(u.raw, l) = RowAt(g.raw, l)
      BY <2>2 DEF OffTheTop, t
    <2>5. Fed(g, n, u)
      <3>1. ASSUME NEW l \in LinesOf(u.raw) PROVE l \in Int /\ (l < 0 => l < end - n)
        <4>1. l \in Int BY <1>1, <2>3, <3>1
        <4>2. QED BY <2>1, <4>1
      <3>2. QED BY <2>3, <2>4, <3>1 DEF Fed
    <2>6. ASSUME NEW i \in 1..V PROVE p[i] = RowAt(u.raw, i - 1)
      <3> DEFINE l == i - 1
      <3>1. i \in Int /\ l \in Int /\ l = i - 1 /\ l \in LinesOf(u.raw) /\ start + 1 <= i BY <1>1, <1>5, <2>3
      <3> HIDE DEF l
      <3>2. CASE i + n <= end
        <4>1. p[i] = S[i + n] /\ i + n \in 1..V /\ (i + n) - 1 = l + n /\ l < end - n
          BY <1>1, <1>2, <1>4, <2>1, <3>1, <3>2
        <4>2. QED BY <1>2, <2>4, <3>1, <4>1 DEF l
      <3>3. CASE ~(i + n <= end) /\ i <= end
        <4>1. p[i] = t /\ end - n <= l /\ l < end BY <1>2, <1>4, <2>1, <3>1, <3>3
        <4>2. QED BY <2>4, <3>1, <4>1 DEF l
      <3>4. CASE ~(i <= end)
        <4>1. p[i] = S[i] /\ end <= l BY <1>2, <1>4, <3>1, <3>4
        <4>2. QED BY <1>2, <2>4, <3>1, <4>1 DEF l
      <3>5. QED BY <2>1, <3>1, <3>2, <3>3, <3>4
    <2>7. ScreenOf(u) = p BY <1>2, <1>4, <2>2, <2>3, <2>6, ScreenBy DEF Kept, V
    <2>8. QED BY <1>5, <2>2, <2>3, <2>5, <2>7 DEF u, p, S, t
  <1>6. CASE start # 0
    <2>1. start \in Int /\ end \in Int /\ 1 <= start BY <1>6
    <2>2. WithinRegion(g, start, end, n, u) /\ Sound(u) BY <2>1, ScrollUpPart
    <2> HIDE DEF u
    <2>3. Kept(g, u) /\ u.raw \in Same(g.raw) BY <2>2 DEF WithinRegion
    <2>4. \A l \in LinesOf(g.raw) :
            RowAt(u.raw, l) = IF start <= l /\ l < end
                                THEN IF l + n < end THEN RowAt(g.raw, l + n) ELSE t
                                ELSE RowAt(g.raw, l)
      BY <2>2 DEF WithinRegion, t
    <2>5. ASSUME NEW i \in 1..V PROVE p[i] = RowAt(u.raw, i - 1)
      <3> DEFINE l == i - 1
      <3>1. i \in Int /\ l \in Int /\ l = i - 1 /\ l \in LinesOf(g.raw) BY <1>1, <1>2
      <3> HIDE DEF l
      <3>2. CASE start <= l /\ l < end /\ l + n < end
        <4>1. i + n \in 1..V /\ (i + n) - 1 = l + n /\ start + 1 <= i /\ i <= end /\ i + n <= end
          BY <1>1, <1>3, <3>1, <3>2
        <4>2. p[i] = S[i + n] BY <1>2, <1>4, <4>1
        <4>3. QED BY <1>2, <2>4, <3>1, <3>2, <4>1, <4>2 DEF l
      <3>3. CASE start <= l /\ l < end /\ ~(l + n < end)
        <4>1. p[i] = t BY <1>2, <1>4, <3>1, <3>3
        <4>2. QED BY <2>4, <3>1, <3>3, <4>1 DEF l
      <3>4. CASE ~(start <= l /\ l < end)
        <4>1. p[i] = S[i] BY <1>2, <1>4, <3>1, <3>4
        <4>2. QED BY <1>2, <2>4, <3>1, <3>4, <4>1 DEF l
      <3>5. QED BY <3>2, <3>3, <3>4
    <2>6. ScreenOf(u) = p BY <1>2, <1>4, <2>2, <2>3, <2>5, ScreenBy DEF Kept, V
    <2>7. HistoryOf(u) = HistoryOf(g)
      <3> DEFINE h == history_size(g)
                 H == HistoryOf(g)
      <3>1. h = history_size(u) /\ LinesOf(u.raw) = LinesOf(g.raw)
        BY <2>2, <2>3, SoundFacts, SameLines DEF Same, Kept
      <3>2. H \in Seq(Row) /\ Len(H) = h
            /\ \A i \in 1..h : i - 1 - h \in LinesOf(g.raw) /\ H[i] = RowAt(g.raw, i - 1 - h)
        BY HistoryIs
      <3>3. h \in Nat BY SoundFacts
      <3> HIDE DEF h, H
      <3>4. ASSUME NEW i \in 1..h PROVE H[i] = RowAt(u.raw, i - 1 - h)
        <4>1. i - 1 - h \in LinesOf(g.raw) BY <3>2
        <4>3. i - 1 - h < 0 /\ i - 1 - h \in Int BY <3>3
        <4>4. ~(start <= i - 1 - h) BY <4>3
        <4>2. QED BY <2>4, <3>2, <4>1, <4>4
      <3>5. HistoryOf(u) = H BY <2>2, <3>1, <3>2, <3>4, HistoryBy
      <3>6. QED BY <3>5 DEF H
    <2>8. QED BY <1>6, <2>2, <2>3, <2>6, <2>7 DEF u, p, S, t
  <1>7. QED BY <1>5, <1>6

(* The same for Grid::scroll_down, which never touches the scrollback. *)
LEMMA DownScreen ==
  ASSUME NEW g, Sound(g), NEW start \in Nat, NEW end \in Nat, start < end, end <= g.lines,
         NEW n \in Nat
  PROVE  LET u == scroll_down(g, start, end, n)
         IN  /\ ScreenOf(u) = DownOf(ScreenOf(g), start, end, n, g.cursor.template)
             /\ Sound(u) /\ Kept(g, u) /\ HistoryOf(u) = HistoryOf(g)
  <1> DEFINE u == scroll_down(g, start, end, n)
             t == g.cursor.template
             S == ScreenOf(g)
             p == DownOf(S, start, end, n, t)
             V == g.lines
  <1>1. /\ V \in Nat /\ t \in Row /\ history_size(g) \in Nat
        /\ LinesOf(g.raw) = (-history_size(g))..(V - 1)
    BY SoundFacts
  <1>2. S \in Seq(Row) /\ Len(S) = V /\ \A i \in 1..V : i - 1 \in LinesOf(g.raw) /\ S[i] = RowAt(g.raw, i - 1)
    BY ScreenIs
  <1>3. end <= V OBVIOUS
  <1> HIDE DEF S, t, V
  <1>4. /\ p \in Seq(Row) /\ Len(p) = Len(S)
        /\ \A i \in 1..Len(S) :
             p[i] = IF start + 1 <= i /\ i <= end
                      THEN IF start + 1 <= i - n THEN S[i - n] ELSE t
                      ELSE S[i]
    <2>1. end <= Len(S) BY <1>2, <1>3
    <2>2. MovesDown(S, start, end, n, t, p) BY <1>1, <1>2, <2>1, DownIs
    <2> HIDE DEF p
    <2>3. QED BY <2>2 DEF MovesDown
  <1> HIDE DEF p
  <1>5. start \in Int /\ end \in Int /\ 0 <= start OBVIOUS
  <1>6. DownInRegion(g, start, end, n, u) /\ Sound(u) BY <1>5, ScrollDownRegion
  <1> HIDE DEF u
  <1>7. Kept(g, u) /\ u.raw \in Same(g.raw) BY <1>6 DEF DownInRegion
  <1>8. \A l \in LinesOf(g.raw) :
          RowAt(u.raw, l) = IF start <= l /\ l < end
                              THEN IF l - n >= start THEN RowAt(g.raw, l - n) ELSE t
                              ELSE RowAt(g.raw, l)
    BY <1>6 DEF DownInRegion, t
  <1>9. ASSUME NEW i \in 1..V PROVE p[i] = RowAt(u.raw, i - 1)
    <2> DEFINE l == i - 1
    <2>1. i \in Int /\ l \in Int /\ l = i - 1 /\ l \in LinesOf(g.raw) BY <1>1, <1>2
    <2> HIDE DEF l
    <2>2. CASE start <= l /\ l < end /\ l - n >= start
      <3>1. i - n \in 1..V /\ (i - n) - 1 = l - n /\ start + 1 <= i /\ i <= end /\ start + 1 <= i - n
        BY <1>1, <1>3, <2>1, <2>2
      <3>2. p[i] = S[i - n] BY <1>2, <1>4, <3>1
      <3>3. QED BY <1>2, <1>8, <2>1, <2>2, <3>1, <3>2 DEF l
    <2>3. CASE start <= l /\ l < end /\ ~(l - n >= start)
      <3>1. start + 1 <= i /\ i <= end /\ ~(start + 1 <= i - n) BY <2>1, <2>3
      <3>2. p[i] = t BY <1>2, <1>4, <3>1
      <3>3. QED BY <1>8, <2>1, <2>3, <3>2 DEF l
    <2>4. CASE ~(start <= l /\ l < end)
      <3>1. p[i] = S[i] BY <1>2, <1>4, <2>1, <2>4
      <3>2. QED BY <1>2, <1>8, <2>1, <2>4, <3>1 DEF l
    <2>5. QED BY <2>2, <2>3, <2>4
  <1>10. ScreenOf(u) = p BY <1>2, <1>4, <1>6, <1>7, <1>9, ScreenBy DEF Kept, V
  <1>11. HistoryOf(u) = HistoryOf(g)
    <2> DEFINE h == history_size(g)
               H == HistoryOf(g)
    <2>1. h = history_size(u) /\ LinesOf(u.raw) = LinesOf(g.raw)
      BY <1>6, <1>7, SoundFacts, SameLines DEF Same, Kept
    <2>2. H \in Seq(Row) /\ Len(H) = h
          /\ \A i \in 1..h : i - 1 - h \in LinesOf(g.raw) /\ H[i] = RowAt(g.raw, i - 1 - h)
      BY HistoryIs
    <2>3. h \in Nat BY SoundFacts
    <2> HIDE DEF h, H
    <2>4. ASSUME NEW i \in 1..h PROVE H[i] = RowAt(u.raw, i - 1 - h)
      <3>1. i - 1 - h \in LinesOf(g.raw) BY <2>2
      <3>2. i - 1 - h < 0 /\ i - 1 - h \in Int BY <2>3
      <3>3. ~(start <= i - 1 - h) BY <3>2
      <3>4. QED BY <1>8, <2>2, <3>1, <3>3
    <2>5. HistoryOf(u) = H BY <1>6, <2>1, <2>2, <2>4, HistoryBy
    <2>6. QED BY <2>5 DEF H
  <1>12. QED BY <1>6, <1>7, <1>10, <1>11 DEF u, p, S, t

(* Filling lines start..end - 1 of the screen with one row. *)
LEMMA FilledScreen ==
  ASSUME NEW g, Sound(g), NEW u, Sound(u), Kept(g, u), u.raw \in Same(g.raw),
         NEW start \in Nat, NEW end \in Nat, start < end, end <= g.lines, NEW t \in Row,
         \A l \in LinesOf(g.raw) :
           RowAt(u.raw, l) = IF start <= l /\ l < end THEN t ELSE RowAt(g.raw, l)
  PROVE  /\ ScreenOf(u) = PatchOf(ScreenOf(g), start + 1, end, SB!Blank(end - (start + 1) + 1, t))
         /\ HistoryOf(u) = HistoryOf(g)
  <1> DEFINE S == ScreenOf(g)
             V == g.lines
             k == end - (start + 1) + 1
             from == start + 1
             b == SB!Blank(k, t)
             p == PatchOf(S, from, end, b)
  <1>1. V \in Nat /\ end <= V BY SoundFacts
  <1>2. S \in Seq(Row) /\ Len(S) = V /\ \A i \in 1..V : i - 1 \in LinesOf(g.raw) /\ S[i] = RowAt(g.raw, i - 1)
    BY ScreenIs
  <1>3. k \in Nat /\ from \in Int /\ 1 <= from /\ from <= end + 1 /\ k = end - from + 1 /\ from = start + 1
        /\ end <= Len(S) /\ end \in Int
    BY <1>1, <1>2
  <1> HIDE DEF S, V, k, from
  <1>4. b \in Seq(Row) /\ Len(b) = k /\ \A i \in 1..k : b[i] = t BY <1>3, BlankIs
  <1> HIDE DEF b
  <1>5. Len(b) = end - from + 1 BY <1>3, <1>4
  <1>6. /\ p \in Seq(Row) /\ Len(p) = Len(S)
        /\ \A i \in 1..Len(S) : p[i] = IF from <= i /\ i <= end THEN b[i - from + 1] ELSE S[i]
    BY <1>2, <1>3, <1>4, <1>5, PatchIs
  <1> HIDE DEF p
  <1>7. ASSUME NEW i \in 1..V PROVE p[i] = RowAt(u.raw, i - 1)
    <2> DEFINE l == i - 1
    <2>1. i \in Int /\ l \in Int /\ l = i - 1 /\ l \in LinesOf(g.raw)
      <3>1. i \in Int BY <1>1
      <3>2. i - 1 \in LinesOf(g.raw) BY <1>2
      <3>3. QED BY <3>1, <3>2
    <2> HIDE DEF l
    <2>2. CASE start <= l /\ l < end
      <3>1. from <= i /\ i <= end BY <1>3, <2>1, <2>2
      <3>4. i - from + 1 \in Int /\ 1 <= i - from + 1 /\ i - from + 1 <= k BY <1>3, <2>1, <3>1
      <3>5. i - from + 1 \in 1..k BY <1>3, <3>4
      <3>2. p[i] = t BY <1>2, <1>4, <1>6, <3>1, <3>5
      <3>3. QED BY <2>1, <2>2, <3>2 DEF l
    <2>3. CASE ~(start <= l /\ l < end)
      <3>1. ~(from <= i /\ i <= end) BY <1>3, <2>1, <2>3
      <3>2. p[i] = S[i] BY <1>2, <1>6, <3>1
      <3>3. QED BY <1>2, <2>1, <2>3, <3>2 DEF l
    <2>4. QED BY <2>2, <2>3
  <1>8. ScreenOf(u) = p BY <1>2, <1>6, <1>7, ScreenBy DEF Kept, V
  <1>9. HistoryOf(u) = HistoryOf(g)
    <2> DEFINE h == history_size(g)
               H == HistoryOf(g)
    <2>1. h = history_size(u) BY SoundFacts DEF Same, Kept
    <2>2. H \in Seq(Row) /\ Len(H) = h
          /\ \A i \in 1..h : i - 1 - h \in LinesOf(g.raw) /\ H[i] = RowAt(g.raw, i - 1 - h)
      BY HistoryIs
    <2>3. h \in Nat BY SoundFacts
    <2> HIDE DEF h, H
    <2>4. ASSUME NEW i \in 1..h PROVE H[i] = RowAt(u.raw, i - 1 - h)
      <3>1. i - 1 - h \in LinesOf(g.raw) BY <2>2
      <3>2. i - 1 - h < 0 /\ i - 1 - h \in Int BY <2>3
      <3>3. ~(start <= i - 1 - h) BY <3>2
      <3>4. QED BY <2>2, <3>1, <3>3
    <2>5. HistoryOf(u) = H BY <2>1, <2>2, <2>4, HistoryBy
    <2>6. QED BY <2>5 DEF H
  <1>10. QED BY <1>8, <1>9 DEF p, b, S, k, from

(* The screen of the plain buffer when it grows: lines come back from the
   scrollback, and empty ones follow. *)
PulledFrom(H, S, target) == IF target - Len(S) > Len(H) THEN Len(H) ELSE target - Len(S)

GrownOf(H, S, target) ==
  LET k == PulledFrom(H, S, target)
  IN  SubSeq(H, Len(H) - k + 1, Len(H)) \o S \o SB!Blank(target - Len(S) - k, NewRow)

GrowsTo(H, S, k, target, p) ==
  /\ p \in Seq(Row) /\ Len(p) = target
  /\ \A i \in 1..target :
       p[i] = IF i <= k THEN H[Len(H) - k + i] ELSE IF i <= k + Len(S) THEN S[i - k] ELSE NewRow

(* Its lines, one by one. *)
LEMMA GrownIs ==
  ASSUME NEW H \in Seq(Row), NEW S \in Seq(Row), NEW target \in Nat, Len(S) <= target
  PROVE  GrowsTo(H, S, PulledFrom(H, S, target), target, GrownOf(H, S, target))
  <1> DEFINE k == PulledFrom(H, S, target)
             h == Len(H)
             V == Len(S)
             from == h - k + 1
             rest == target - V - k
             a == SubSeq(H, from, h)
             b == a \o S
             c == SB!Blank(rest, NewRow)
             p == b \o c
  <1>1. h \in Nat /\ V \in Nat /\ V <= target /\ h = Len(H) /\ V = Len(S) OBVIOUS
  <1>2. k = IF target - V > h THEN h ELSE target - V BY DEF PulledFrom
  <1>3. GrownOf(H, S, target) = p BY Zenon DEF GrownOf
  <1> HIDE DEF k, h, V
  <1>4. k \in Nat /\ k <= h /\ k + V <= target BY <1>1, <1>2
  <1>5. /\ from \in Int /\ 1 <= from /\ from <= h + 1 /\ h <= Len(H) /\ h - from + 1 = k /\ h \in Int
        /\ rest \in Nat /\ rest = target - (k + V) /\ from = h - k + 1
    BY <1>1, <1>4
  <1> HIDE DEF from, rest
  <1>6. a \in Seq(Row) /\ Len(a) = k /\ \A i \in 1..k : a[i] = H[from + i - 1]
    <2>1. a \in Seq(Row) /\ Len(a) = h - from + 1 /\ \A i \in 1..(h - from + 1) : a[i] = H[from + i - 1]
      BY <1>5, PartIs
    <2>2. QED BY <1>5, <2>1
  <1>7. c \in Seq(Row) /\ Len(c) = rest /\ \A i \in 1..rest : c[i] = NewRow
    BY <1>5, BlankIs, StorageAssumption
  <1> HIDE DEF a, c
  <1>8. /\ b \in Seq(Row) /\ Len(b) = Len(a) + Len(S)
        /\ \A i \in 1..(Len(a) + Len(S)) : b[i] = IF i <= Len(a) THEN a[i] ELSE S[i - Len(a)]
    BY <1>6, JoinIs
  <1> HIDE DEF b
  <1>9. /\ p \in Seq(Row) /\ Len(p) = Len(b) + Len(c)
        /\ \A i \in 1..(Len(b) + Len(c)) : p[i] = IF i <= Len(b) THEN b[i] ELSE c[i - Len(b)]
    BY <1>7, <1>8, JoinIs
  <1> HIDE DEF p
  <1>10. Len(b) = k + V /\ Len(b) + Len(c) = target /\ Len(a) + Len(S) = k + V
    BY <1>1, <1>4, <1>5, <1>6, <1>7, <1>8
  <1>11. ASSUME NEW i \in 1..target
         PROVE  p[i] = IF i <= k THEN H[h - k + i] ELSE IF i <= k + V THEN S[i - k] ELSE NewRow
    <2>1. i \in Int BY <1>1
    <2>2. p[i] = IF i <= k + V THEN b[i] ELSE c[i - (k + V)] BY <1>9, <1>10
    <2>3. CASE i <= k
      <3>1. i \in 1..k /\ i \in 1..(k + V) /\ i <= k + V /\ from + i - 1 = h - k + i
        BY <1>1, <1>4, <1>5, <2>1, <2>3
      <3>2. b[i] = a[i] BY <1>6, <1>8, <1>10, <2>3, <3>1
      <3>3. QED BY <1>6, <2>2, <2>3, <3>1, <3>2
    <2>4. CASE ~(i <= k) /\ i <= k + V
      <3>1. i \in 1..(k + V) BY <1>1, <1>4, <2>1, <2>4
      <3>2. b[i] = S[i - k] BY <1>6, <1>8, <1>10, <2>4, <3>1
      <3>3. QED BY <2>2, <2>4, <3>2
    <2>5. CASE ~(i <= k) /\ ~(i <= k + V)
      <3>1. i - (k + V) \in 1..rest BY <1>1, <1>4, <1>5, <2>1, <2>5
      <3>2. QED BY <1>7, <2>2, <2>5, <3>1
    <2>6. QED BY <2>3, <2>4, <2>5
  <1>12. Len(p) = target BY <1>9, <1>10
  <1>13. QED BY <1>3, <1>9, <1>11, <1>12 DEF GrowsTo, k, h, V

(* A grid that grew shows them. *)
LEMMA GrowViews ==
  ASSUME NEW g, Sound(g), NEW target \in Nat, g.lines < target, NEW u, Grew(g, target, u),
         g.cursor.template = NewRow
  PROVE  /\ ScreenOf(u) = GrownOf(HistoryOf(g), ScreenOf(g), target)
         /\ HistoryOf(u) =
              SubSeq(HistoryOf(g), 1,
                     Len(HistoryOf(g)) - PulledFrom(HistoryOf(g), ScreenOf(g), target))
  <1> DEFINE H == HistoryOf(g)
             S == ScreenOf(g)
             h == history_size(g)
             V == g.lines
             k == PulledFrom(H, S, target)
             p == GrownOf(H, S, target)
             m == history_size(u)
  <1>1. h \in Nat /\ V \in Nat /\ V < target BY SoundFacts
  <1>2. H \in Seq(Row) /\ Len(H) = h /\ \A i \in 1..h : H[i] = RowAt(g.raw, i - 1 - h) BY HistoryIs
  <1>3. S \in Seq(Row) /\ Len(S) = V /\ \A i \in 1..V : S[i] = RowAt(g.raw, i - 1) BY ScreenIs
  <1>4. k = Pulled(g, target) /\ k \in Nat /\ k <= h /\ k + V <= target
    BY <1>1, <1>2, <1>3 DEF Pulled, PulledFrom, MinOf
  <1>5. /\ Sound(u) /\ u.lines = target /\ m = h - k
    BY <1>4 DEF Grew
  <1>6. \A l \in LinesOf(u.raw) : /\ l < V + k => RowAt(u.raw, l) = RowAt(g.raw, l - k)
                                  /\ V + k <= l => RowAt(u.raw, l) = NewRow
    BY <1>4 DEF Grew
  <1>7. LinesOf(u.raw) = (-m)..(target - 1) BY <1>5, SoundFacts
  <1> HIDE DEF H, S, h, V, k, m
  <1>8. GrowsTo(H, S, k, target, p)
    <2>1. Len(S) <= target BY <1>1, <1>3
    <2>2. QED BY <1>2, <1>3, <2>1, GrownIs DEF k
  <1> HIDE DEF p
  <1>9. /\ p \in Seq(Row) /\ Len(p) = target
        /\ \A i \in 1..target :
             p[i] = IF i <= k THEN H[h - k + i] ELSE IF i <= k + V THEN S[i - k] ELSE NewRow
    BY <1>2, <1>3, <1>8 DEF GrowsTo
  <1>10. ASSUME NEW i \in 1..target PROVE p[i] = RowAt(u.raw, i - 1)
    <2> DEFINE l == i - 1
    <2>1. i \in Int /\ l \in Int /\ l = i - 1 /\ l \in LinesOf(u.raw) BY <1>1, <1>4, <1>5, <1>7
    <2> HIDE DEF l
    <2>2. CASE i <= k
      <3>1. h - k + i \in 1..h /\ (h - k + i) - 1 - h = l - k /\ l < V + k BY <1>1, <1>4, <2>1, <2>2
      <3>2. H[h - k + i] = RowAt(g.raw, l - k) BY <1>2, <3>1
      <3>3. QED BY <1>6, <1>9, <2>1, <2>2, <3>1, <3>2 DEF l
    <2>3. CASE ~(i <= k) /\ i <= k + V
      <3>1. i - k \in 1..V /\ (i - k) - 1 = l - k /\ l < V + k BY <1>1, <1>4, <2>1, <2>3
      <3>2. S[i - k] = RowAt(g.raw, l - k) BY <1>3, <3>1
      <3>3. QED BY <1>6, <1>9, <2>1, <2>3, <3>1, <3>2 DEF l
    <2>4. CASE ~(i <= k) /\ ~(i <= k + V)
      <3>1. V + k <= l BY <1>1, <1>4, <2>1, <2>4
      <3>2. QED BY <1>6, <1>9, <2>1, <2>4, <3>1 DEF l
    <2>5. QED BY <2>2, <2>3, <2>4
  <1>11. ScreenOf(u) = p BY <1>5, <1>9, <1>10, ScreenBy
  <1> DEFINE one == 1
             e == Len(H) - k
             q == SubSeq(H, one, e)
  <1>12. one = 1 /\ one \in Int /\ e = h - k /\ e = m /\ e \in Int /\ one <= e + 1 /\ e <= Len(H) /\ e - one + 1 = e
    BY <1>1, <1>2, <1>4, <1>5
  <1> HIDE DEF one, e
  <1>13. q \in Seq(Row) /\ Len(q) = m /\ \A i \in 1..m : q[i] = H[i]
    <2>1. q \in Seq(Row) /\ Len(q) = e - one + 1 /\ \A i \in 1..(e - one + 1) : q[i] = H[one + i - 1]
      BY <1>2, <1>12, PartIs
    <2>2. \A i \in 1..m : one + i - 1 = i BY <1>12
    <2>3. QED BY <1>12, <2>1, <2>2
  <1> HIDE DEF q
  <1>14. ASSUME NEW i \in 1..m PROVE q[i] = RowAt(u.raw, i - 1 - m)
    <2> DEFINE l == i - 1 - m
    <2>1. i \in 1..h /\ i \in Int /\ l \in LinesOf(u.raw) /\ l < V + k /\ i - 1 - h = l - k
      BY <1>1, <1>4, <1>5, <1>7
    <2> HIDE DEF l
    <2>2. q[i] = H[i] /\ H[i] = RowAt(g.raw, i - 1 - h) BY <1>2, <1>13, <2>1
    <2>3. QED BY <1>6, <2>1, <2>2 DEF l
  <1>15. m = history_size(u) BY DEF m
  <1>16. HistoryOf(u) = q BY <1>5, <1>13, <1>14, <1>15, HistoryBy
  <1>17. QED BY <1>11, <1>16 DEF p, q, one, e, H, S, k

(* A grid that shrank shows a part of its screen. *)
LEMMA ShrinkViews ==
  ASSUME NEW g, Sound(g), InView(g), NEW target \in Nat, 1 <= target, target < g.lines,
         NEW u, Shrank(g, target, u)
  PROVE  LET n == Needed(g, target)
         IN  /\ n \in 0..(g.lines - target)
             /\ ScreenOf(u) = SubSeq(ScreenOf(g), n + 1, n + target)
             /\ Fed(g, n, u)
  <1> DEFINE n == Needed(g, target)
             V == g.lines
             S == ScreenOf(g)
             a == n + 1
             b == n + target
             q == SubSeq(S, a, b)
  <1>1. V \in Nat /\ target < V /\ g.cursor.line \in Nat /\ g.cursor.line < V
    <2>1. g.cursor \in Cursors BY SoundFacts
    <2>2. QED BY <2>1, SoundFacts DEF Cursors, InView
  <1>2. n \in Nat /\ n <= V - target BY <1>1 DEF Needed, MaxOf
  <1>3. Sound(u) /\ u.lines = target /\ history_size(u) = HistoryAfter(g, n) BY DEF Shrank
  <1>4. \A l \in LinesOf(u.raw) : l + n \in LinesOf(g.raw) /\ RowAt(u.raw, l) = RowAt(g.raw, l + n)
    BY DEF Shrank
  <1>5. S \in Seq(Row) /\ Len(S) = V /\ \A i \in 1..V : S[i] = RowAt(g.raw, i - 1) BY ScreenIs
  <1>6. \A i \in 1..target : i - 1 \in LinesOf(u.raw) BY <1>3, ScreenIs
  <1> HIDE DEF n, V, S
  <1>7. /\ a \in Int /\ b \in Int /\ 1 <= a /\ a <= b + 1 /\ b <= Len(S) /\ b - a + 1 = target /\ a = n + 1
    BY <1>1, <1>2, <1>5
  <1> HIDE DEF a, b
  <1>8. q \in Seq(Row) /\ Len(q) = target /\ \A i \in 1..target : q[i] = S[a + i - 1]
    <2>1. q \in Seq(Row) /\ Len(q) = b - a + 1 /\ \A i \in 1..(b - a + 1) : q[i] = S[a + i - 1]
      BY <1>5, <1>7, PartIs
    <2>2. QED BY <1>7, <2>1
  <1> HIDE DEF q
  <1>9. ASSUME NEW i \in 1..target PROVE q[i] = RowAt(u.raw, i - 1)
    <2> DEFINE l == i - 1
    <2>1. l \in LinesOf(u.raw) BY <1>6
    <2>2. a + i - 1 \in 1..V /\ (a + i - 1) - 1 = l + n BY <1>1, <1>2, <1>7
    <2> HIDE DEF l
    <2>3. q[i] = S[a + i - 1] /\ S[a + i - 1] = RowAt(g.raw, l + n) BY <1>5, <1>8, <2>2
    <2>4. QED BY <1>4, <2>1, <2>3 DEF l
  <1>10. ScreenOf(u) = q BY <1>3, <1>8, <1>9, ScreenBy
  <1>11. Fed(g, n, u) BY <1>3, <1>4 DEF Fed
  <1>12. n \in 0..(V - target) BY <1>1, <1>2
  <1>13. QED BY <1>10, <1>11, <1>12 DEF q, n, S, V, a, b

(* Resizing, as what it does to the two sequences. *)
ResizedViews(g, target, u) ==
  /\ Sound(u) /\ InView(u) /\ u.lines = target /\ u.max_scroll_limit = g.max_scroll_limit
  /\ g.lines <= target => ScreenOf(u) = GrownOf(HistoryOf(g), ScreenOf(g), target)
  /\ g.lines < target =>
       HistoryOf(u) = SubSeq(HistoryOf(g), 1,
                             Len(HistoryOf(g)) - PulledFrom(HistoryOf(g), ScreenOf(g), target))
  /\ g.lines = target => ScreenOf(u) = ScreenOf(g) /\ HistoryOf(u) = HistoryOf(g)
  /\ g.lines > target =>
       /\ Needed(g, target) \in 0..(g.lines - target)
       /\ ScreenOf(u) = SubSeq(ScreenOf(g), Needed(g, target) + 1, Needed(g, target) + target)
       /\ HistoryOf(u) = SB!Newest(HistoryOf(g) \o SubSeq(ScreenOf(g), 1, Needed(g, target)),
                                   g.max_scroll_limit)

(* Growing to the same height changes nothing. *)
LEMMA GrownToSame ==
  ASSUME NEW H \in Seq(Row), NEW S \in Seq(Row)
  PROVE  GrownOf(H, S, Len(S)) = S
  <1> DEFINE V == Len(S)
             k == PulledFrom(H, S, V)
             p == GrownOf(H, S, V)
  <1>1. V \in Nat /\ V = Len(S) /\ Len(H) \in Nat OBVIOUS
  <1>2. k = 0 BY <1>1 DEF PulledFrom
  <1> HIDE DEF V
  <1>3. GrowsTo(H, S, k, V, p)
    <2>1. Len(S) <= V BY <1>1
    <2>2. QED BY <1>1, <2>1, GrownIs
  <1> HIDE DEF p, k
  <1>4. p \in Seq(Row) /\ Len(p) = V BY <1>3 DEF GrowsTo
  <1>5. ASSUME NEW i \in 1..V PROVE p[i] = S[i]
    <2>1. ~(i <= k) /\ i <= k + Len(S) /\ i - k = i BY <1>1, <1>2
    <2>2. QED BY <1>3, <2>1 DEF GrowsTo
  <1>6. p = S BY <1>1, <1>4, <1>5, SameSeq
  <1>7. QED BY <1>6 DEF p, V

(* Grid::resize does to the sequences what the plain buffer does. *)
LEMMA ResizeViews ==
  ASSUME NEW g, Sound(g), InView(g), NEW target \in Nat, 1 <= target
  PROVE  ResizedViews(g, target, resize(g, target))
  <1> DEFINE u == resize(g, target)
  <1>1. Resized(g, target, u) BY ResizeIs
  <1> HIDE DEF u
  <1>2. PICK v, w \in Grids :
    /\ Sound(v) /\ InView(v) /\ Sound(u) /\ InView(u) /\ u.lines = target
    /\ u.raw = w.raw /\ v.raw = g.raw /\ u.max_scroll_limit = g.max_scroll_limit
    /\ v.lines = g.lines /\ v.cursor.line = g.cursor.line /\ v.cursor.template = NewRow
    /\ g.max_scroll_limit = v.max_scroll_limit
    /\ g.lines < target => Grew(v, target, w)
    /\ g.lines > target => Shrank(v, target, w)
    /\ g.lines = target => w = v
    BY <1>1 DEF Resized
  <1>3. g.lines \in Nat BY SoundFacts
  <1>4. ScreenOf(v) = ScreenOf(g) /\ HistoryOf(v) = HistoryOf(g) BY <1>2, SameViews
  <1>5. Needed(v, target) = Needed(g, target) BY <1>2 DEF Needed
  <1>6. CASE g.lines < target
    <2>1. Grew(v, target, w) /\ w.lines = target /\ v.lines < target BY <1>2, <1>6 DEF Grew
    <2>2. ScreenOf(u) = ScreenOf(w) /\ HistoryOf(u) = HistoryOf(w) BY <1>2, <2>1, SameViews
    <2>3. /\ ScreenOf(w) = GrownOf(HistoryOf(v), ScreenOf(v), target)
          /\ HistoryOf(w) = SubSeq(HistoryOf(v), 1,
                 Len(HistoryOf(v)) - PulledFrom(HistoryOf(v), ScreenOf(v), target))
      BY <1>2, <2>1, GrowViews
    <2>4. g.lines <= target /\ ~(g.lines = target) /\ ~(g.lines > target) BY <1>3, <1>6
    <2>5. QED BY <1>2, <1>4, <2>2, <2>3, <2>4 DEF ResizedViews, u
  <1>7. CASE g.lines = target
    <2>1. u.raw = g.raw /\ u.lines = g.lines BY <1>2, <1>7
    <2>2. ScreenOf(u) = ScreenOf(g) /\ HistoryOf(u) = HistoryOf(g) BY <2>1, SameViews
    <2>3. HistoryOf(g) \in Seq(Row) /\ ScreenOf(g) \in Seq(Row) /\ Len(ScreenOf(g)) = target
      BY <1>7, ScreenIs, HistoryIs
    <2>4. GrownOf(HistoryOf(g), ScreenOf(g), target) = ScreenOf(g) BY <2>3, GrownToSame
    <2>5. ~(g.lines < target) /\ ~(g.lines > target) BY <1>3, <1>7
    <2>6. QED BY <1>2, <1>7, <2>2, <2>4, <2>5 DEF ResizedViews, u
  <1>8. CASE g.lines > target
    <2> DEFINE n == Needed(v, target)
    <2>1. Shrank(v, target, w) /\ Sound(w) /\ w.lines = target /\ target < v.lines BY <1>2, <1>8 DEF Shrank
    <2>2. ScreenOf(u) = ScreenOf(w) /\ HistoryOf(u) = HistoryOf(w) BY <1>2, <2>1, SameViews
    <2>3. /\ n \in 0..(v.lines - target) /\ ScreenOf(w) = SubSeq(ScreenOf(v), n + 1, n + target)
          /\ Fed(v, n, w)
      BY <1>2, <2>1, ShrinkViews
    <2>4. n \in 0..v.lines BY <1>2, <1>3, <2>3
    <2>5. HistoryOf(w) = SB!Newest(HistoryOf(v) \o SubSeq(ScreenOf(v), 1, n), v.max_scroll_limit)
      BY <1>2, <2>1, <2>3, <2>4, FedHistory
    <2>6. ~(g.lines <= target) /\ ~(g.lines < target) /\ ~(g.lines = target) BY <1>3, <1>8
    <2>7. QED BY <1>2, <1>4, <1>5, <2>2, <2>3, <2>5, <2>6 DEF ResizedViews, u
  <1>9. QED BY <1>3, <1>6, <1>7, <1>8

(* The plain buffer's number of used lines is the grid's. *)
UsedIn(S) ==
  LET used == {l \in 1..Len(S) : S[l] # NewRow}
  IN  IF used = {} THEN 0 ELSE CHOOSE l \in used : \A m \in used : m <= l

(* Counting from 0 or from 1, the last line with content is the same. *)
LEMMA UsedInIs ==
  ASSUME NEW g, Sound(g)
  PROVE  UsedIn(ScreenOf(g)) = UsedLines(g)
  <1> DEFINE S == ScreenOf(g)
             V == g.lines
             n == UsedLines(g)
             used == {l \in 1..Len(S) : S[l] # NewRow}
             top == CHOOSE l \in used : \A m \in used : m <= l
  <1>1. V \in Nat /\ n \in 0..V BY UsedLinesAre, SoundFacts
  <1>2. \A l \in 0..(V - 1) : RowAt(g.raw, l) # NewRow => l < n BY UsedLinesAre
  <1>3. n # 0 => RowAt(g.raw, n - 1) # NewRow BY UsedLinesAre
  <1>4. Len(S) = V /\ \A i \in 1..V : S[i] = RowAt(g.raw, i - 1) BY ScreenIs
  <1>5. UsedIn(S) = IF used = {} THEN 0 ELSE top BY Zenon DEF UsedIn
  <1> HIDE DEF S, V, n
  <1>6. ASSUME NEW l \in used PROVE l \in Int /\ 1 <= l /\ l <= n
    <2>1. l \in 1..V /\ l - 1 \in 0..(V - 1) /\ RowAt(g.raw, l - 1) # NewRow BY <1>1, <1>4
    <2>2. l - 1 < n BY <1>2, <2>1
    <2>3. QED BY <1>1, <2>1, <2>2
  <1>7. CASE n = 0
    <2>1. used = {} BY <1>6, <1>7
    <2>2. QED BY <1>5, <1>7, <2>1 DEF S, n
  <1>8. CASE n # 0
    <2>1. n \in 1..V BY <1>1, <1>8
    <2>2. n \in used BY <1>3, <1>4, <1>8, <2>1
    <2>3. \A m \in used : m <= n BY <1>6
    <2> HIDE DEF used
    <2>4. top \in used /\ \A m \in used : m <= top BY <2>2, <2>3
    <2> HIDE DEF top
    <2>5. top <= n /\ n <= top /\ top \in Int BY <1>6, <2>2, <2>4
    <2>6. top = n BY <1>1, <2>5
    <2>7. QED BY <1>5, <2>2, <2>6 DEF S, n
  <1>9. QED BY <1>7, <1>8

(* A screen all of whose lines are one row. *)
LEMMA BlankScreen ==
  ASSUME NEW u, Sound(u), NEW t \in Row, \A l \in LinesOf(u.raw) : 0 <= l => RowAt(u.raw, l) = t
  PROVE  ScreenOf(u) = SB!Blank(u.lines, t)
  <1> DEFINE V == u.lines
             p == SB!Blank(V, t)
  <1>1. V \in Nat BY SoundFacts
  <1>2. p \in Seq(Row) /\ Len(p) = V /\ \A i \in 1..V : p[i] = t BY <1>1, BlankIs
  <1> HIDE DEF p
  <1>3. \A i \in 1..V : i - 1 \in LinesOf(u.raw) BY ScreenIs
  <1>4. \A i \in 1..V : 0 <= i - 1 BY <1>1
  <1>5. \A i \in 1..V : p[i] = RowAt(u.raw, i - 1) BY <1>2, <1>3, <1>4
  <1>6. ScreenOf(u) = p BY <1>2, <1>5, ScreenBy
  <1>7. QED BY <1>6 DEF p

(* A grid without scrollback lines. *)
LEMMA NoHistory ==
  ASSUME NEW u, Sound(u), history_size(u) = 0
  PROVE  HistoryOf(u) = <<>>
  <1>1. HistoryOf(u) \in Seq(Row) /\ Len(HistoryOf(u)) = 0 BY HistoryIs
  <1>2. QED BY <1>1

-------------------------------------------------------------------------------
(* The plain buffer that the grid implements, in terms of the two sequences. *)
LEMMA BufferIs ==
  /\ SB!Height = Len(ScreenOf(grid))
  /\ \A from, to, rows : SB!Patched(from, to, rows) = PatchOf(ScreenOf(grid), from, to, rows)
  /\ \A n : SB!HistoryWith(n)
            = SB!Newest(HistoryOf(grid) \o SubSeq(ScreenOf(grid), 1, n), grid.max_scroll_limit)
  /\ \A target : SB!Pulled(target) = PulledFrom(HistoryOf(grid), ScreenOf(grid), target)
  BY DEF SB!Height, SB!Patched, PatchOf, SB!HistoryWith, SB!Pulled, PulledFrom

(* Its scrolls. *)
LEMMA ScrollsAre ==
  ASSUME NEW start, NEW end, NEW n, NEW t
  PROVE  /\ SB!ScrolledUp(start, end, n, t) = UpOf(ScreenOf(grid), start, end, n, t)
         /\ SB!ScrolledDown(start, end, n, t) = DownOf(ScreenOf(grid), start, end, n, t)
  <1>1. SB!ScrolledUp(start, end, n, t) = UpOf(ScreenOf(grid), start, end, n, t)
    BY BufferIs, Zenon DEF SB!ScrolledUp, UpOf
  <1>2. SB!ScrolledDown(start, end, n, t) = DownOf(ScreenOf(grid), start, end, n, t)
    BY BufferIs, Zenon DEF SB!ScrolledDown, DownOf
  <1>3. QED BY <1>1, <1>2

(* Its growing. *)
LEMMA GrownAre ==
  ASSUME NEW target
  PROVE  SB!Grown(target) = GrownOf(HistoryOf(grid), ScreenOf(grid), target)
  BY BufferIs, Zenon DEF SB!Grown, GrownOf, SB!Height

(* What a step leaves of the plain buffer. *)
Buffer(H, S, limit) ==
  HistoryOf(grid') = H /\ ScreenOf(grid') = S /\ grid'.max_scroll_limit = limit

(* A step that moves no line is a stutter of the plain buffer. *)
LEMMA Unmoved ==
  ASSUME Buffer(HistoryOf(grid), ScreenOf(grid), grid.max_scroll_limit)
  PROVE  UNCHANGED SB!vars
  BY DEF Buffer, SB!vars

(* One lemma per operation: the invariant is kept, and the plain buffer takes
   a step. *)
LEMMA ScrollUpStep ==
  ASSUME GridGood(grid), NEW start \in 0..grid.lines, NEW end \in 0..grid.lines,
         NEW n \in 1..grid.lines, ScrollUp(start, end, n)
  PROVE  GridGood(grid)' /\ SB!Next
  <1> DEFINE t == grid.cursor.template
             u == scroll_up(grid, start, end, n)
  <1>1. Sound(grid) BY DEF GridGood
  <1>2. /\ grid.lines \in Nat /\ t \in Row BY <1>1, SoundFacts
  <1>3. /\ start \in Nat /\ end \in Nat /\ n \in Nat /\ start < end /\ end <= grid.lines
        /\ (start = 0 => n <= end) /\ grid' = u
    BY <1>2 DEF ScrollUp
  <1>4. /\ ScreenOf(u) = UpOf(ScreenOf(grid), start, end, n, t)
        /\ Sound(u) /\ Kept(grid, u)
        /\ start = 0 => Fed(grid, n, u)
        /\ start # 0 => HistoryOf(u) = HistoryOf(grid)
    BY <1>1, <1>3, UpScreen
  <1> HIDE DEF u
  <1>5. GridGood(grid') BY <1>3, <1>4, KeptGood
  <1>6. SB!ScrollUp(start, end, n, t)
    <2>1. ScreenOf(grid') = SB!ScrolledUp(start, end, n, t) BY <1>3, <1>4, ScrollsAre
    <2>2. grid'.max_scroll_limit = grid.max_scroll_limit BY <1>3, <1>4 DEF Kept
    <2>3. HistoryOf(grid') = IF start = 0 THEN SB!HistoryWith(SB!Moved(start, end, n)) ELSE HistoryOf(grid)
      <3>1. CASE start = 0
        <4>1. n \in 0..grid.lines /\ SB!Moved(start, end, n) = n BY <1>2, <1>3, <3>1 DEF SB!Moved
        <4>2. HistoryOf(u) = SB!Newest(HistoryOf(grid) \o SubSeq(ScreenOf(grid), 1, n), grid.max_scroll_limit)
          BY <1>1, <1>4, <3>1, <4>1, FedHistory
        <4>3. QED BY <1>3, <3>1, <4>1, <4>2, BufferIs
      <3>2. CASE start # 0 BY <1>3, <1>4, <3>2
      <3>3. QED BY <3>1, <3>2
    <2>4. QED BY <2>1, <2>2, <2>3 DEF SB!ScrollUp
  <1>7. SB!Height = grid.lines BY <1>1, BufferIs, ScreenIs
  <1>8. start \in 0..SB!Height /\ end \in 0..SB!Height /\ n \in 0..SB!Height BY <1>2, <1>7
  <1>9. SB!Next BY <1>2, <1>3, <1>6, <1>8 DEF SB!Next
  <1>10. QED BY <1>5, <1>9

(* Grid::scroll_down scrolls the plain buffer down. *)
LEMMA ScrollDownStep ==
  ASSUME GridGood(grid), NEW start \in 0..grid.lines, NEW end \in 0..grid.lines,
         NEW n \in 1..grid.lines, ScrollDown(start, end, n)
  PROVE  GridGood(grid)' /\ SB!Next
  <1> DEFINE t == grid.cursor.template
             u == scroll_down(grid, start, end, n)
  <1>1. Sound(grid) BY DEF GridGood
  <1>2. /\ grid.lines \in Nat /\ t \in Row BY <1>1, SoundFacts
  <1>3. /\ start \in Nat /\ end \in Nat /\ n \in Nat /\ start < end /\ end <= grid.lines /\ grid' = u
    BY <1>2 DEF ScrollDown
  <1>4. /\ ScreenOf(u) = DownOf(ScreenOf(grid), start, end, n, t)
        /\ Sound(u) /\ Kept(grid, u) /\ HistoryOf(u) = HistoryOf(grid)
    BY <1>1, <1>3, DownScreen
  <1> HIDE DEF u
  <1>5. GridGood(grid') BY <1>3, <1>4, KeptGood
  <1>6. SB!ScrollDown(start, end, n, t)
    <2>1. ScreenOf(grid') = SB!ScrolledDown(start, end, n, t) BY <1>3, <1>4, ScrollsAre
    <2>2. grid'.max_scroll_limit = grid.max_scroll_limit BY <1>3, <1>4 DEF Kept
    <2>3. QED BY <1>3, <1>4, <2>1, <2>2 DEF SB!ScrollDown
  <1>7. SB!Height = grid.lines BY <1>1, BufferIs, ScreenIs
  <1>8. start \in 0..SB!Height /\ end \in 0..SB!Height /\ n \in 0..SB!Height BY <1>2, <1>7
  <1>9. SB!Next BY <1>2, <1>3, <1>6, <1>8 DEF SB!Next
  <1>10. QED BY <1>5, <1>9

(* Grid::update_history sets the plain buffer's limit. *)
LEMMA UpdateHistoryStep ==
  ASSUME GridGood(grid), NEW limit \in Limits, UpdateHistory(limit)
  PROVE  GridGood(grid)' /\ SB!Next
  <1> DEFINE u == update_history(grid, limit)
             k == MinOf(history_size(grid), limit)
  <1>1. Sound(grid) /\ limit \in Nat /\ grid' = u BY GridAssumption DEF GridGood, UpdateHistory
  <1>2. /\ Sound(u) /\ u.lines = grid.lines /\ u.max_scroll_limit = limit
        /\ u.cursor = grid.cursor /\ u.saved_cursor = grid.saved_cursor
        /\ history_size(u) = k /\ Trimmed(grid, k, u.raw)
    BY <1>1, UpdateHistoryIs
  <1> HIDE DEF u
  <1>3. GridGood(grid') BY <1>1, <1>2 DEF GridGood, InView
  <1>4. \A l \in LinesOf(u.raw) : RowAt(u.raw, l) = RowAt(grid.raw, l) BY <1>2 DEF Trimmed
  <1>5. HistoryOf(u) = SB!Newest(HistoryOf(grid), limit) /\ ScreenOf(u) = ScreenOf(grid)
    BY <1>1, <1>2, <1>4, TrimmedViews
  <1>6. SB!SetLimit(limit) BY <1>1, <1>2, <1>5 DEF SB!SetLimit
  <1>7. QED BY <1>3, <1>6 DEF SB!Next

(* Grid::clear_viewport clears the plain buffer's screen into its scrollback.
   *)
LEMMA ClearViewportStep ==
  ASSUME GridGood(grid), ClearViewport
  PROVE  GridGood(grid)' /\ SB!Next
  <1> DEFINE t == grid.cursor.template
             u == clear_viewport(grid)
             n == UsedLines(grid)
  <1>1. Sound(grid) /\ grid' = u BY DEF GridGood, ClearViewport
  <1>2. t \in Row /\ n \in 0..grid.lines BY <1>1, SoundFacts, UsedLinesAre
  <1>3. Cleared(grid, n, u) BY <1>1, ClearViewportIs
  <1> HIDE DEF u, n
  <1>4. Sound(u) /\ Kept(grid, u) /\ Fed(grid, n, u)
        /\ \A l \in LinesOf(u.raw) : 0 <= l => RowAt(u.raw, l) = t
    BY <1>3 DEF Cleared, Fed
  <1>5. GridGood(grid') BY <1>1, <1>4, KeptGood
  <1>6. HistoryOf(u) = SB!Newest(HistoryOf(grid) \o SubSeq(ScreenOf(grid), 1, n), grid.max_scroll_limit)
    BY <1>1, <1>2, <1>4, FedHistory
  <1>7. ScreenOf(u) = SB!Blank(u.lines, t) BY <1>2, <1>4, BlankScreen
  <1>8. SB!Height = u.lines BY <1>1, <1>4, BufferIs, ScreenIs DEF Kept
  <1>9. n = UsedIn(ScreenOf(grid)) BY <1>1, UsedInIs DEF n
  <1>10. HistoryOf(grid') = SB!HistoryWith(UsedIn(ScreenOf(grid))) BY <1>1, <1>6, <1>9, BufferIs
  <1>11. ScreenOf(grid') = SB!Blank(SB!Height, t) /\ grid'.max_scroll_limit = grid.max_scroll_limit
    BY <1>1, <1>4, <1>7, <1>8 DEF Kept
  <1>12. SB!ClearViewport(t)
    BY <1>10, <1>11, Zenon DEF SB!ClearViewport, UsedIn, SB!Height
  <1>13. QED BY <1>2, <1>5, <1>12 DEF SB!Next

(* Grid::clear_history drops its scrollback. *)
LEMMA ClearHistoryStep ==
  ASSUME GridGood(grid), ClearHistory
  PROVE  GridGood(grid)' /\ SB!Next
  <1> DEFINE u == clear_history(grid)
             zero == 0
  <1>1. Sound(grid) /\ grid' = u BY DEF GridGood, ClearHistory
  <1>2. Sound(u) /\ Kept(grid, u) /\ history_size(u) = 0 /\ Trimmed(grid, 0, u.raw)
    BY <1>1, ClearHistoryIs
  <1> HIDE DEF u
  <1>3. GridGood(grid') BY <1>1, <1>2, KeptGood
  <1>4. \A l \in LinesOf(u.raw) : RowAt(u.raw, l) = RowAt(grid.raw, l) BY <1>2 DEF Trimmed
  <1>5. zero \in Nat /\ history_size(u) = MinOf(history_size(grid), zero) /\ u.lines = grid.lines
    BY <1>1, <1>2, SoundFacts DEF MinOf, Kept
  <1> HIDE DEF zero
  <1>6. ScreenOf(u) = ScreenOf(grid) BY <1>1, <1>2, <1>4, <1>5, TrimmedViews
  <1>7. HistoryOf(u) = <<>> BY <1>2, NoHistory
  <1>8. SB!DropHistory BY <1>1, <1>2, <1>6, <1>7 DEF SB!DropHistory, Kept
  <1>9. QED BY <1>3, <1>8 DEF SB!Next

(* Grid::reset empties it. *)
LEMMA ResetStep ==
  ASSUME GridGood(grid), ResetGrid
  PROVE  GridGood(grid)' /\ SB!Next
  <1> DEFINE u == reset(grid)
  <1>1. Sound(grid) /\ grid' = u /\ grid.lines \in Nat /\ 1 <= grid.lines
    BY SoundFacts DEF GridGood, ResetGrid
  <1>2. /\ Sound(u) /\ u.lines = grid.lines /\ u.max_scroll_limit = grid.max_scroll_limit
        /\ u.cursor = DefaultCursor /\ u.saved_cursor = DefaultCursor
        /\ history_size(u) = 0
        /\ \A l \in LinesOf(u.raw) : RowAt(u.raw, l) = NewRow
    BY <1>1, ResetIs
  <1> HIDE DEF u
  <1>3. DefaultCursor.line = 0 BY DEF DefaultCursor
  <1>4. GridGood(grid') BY <1>1, <1>2, <1>3 DEF GridGood, InView
  <1>5. ScreenOf(u) = SB!Blank(u.lines, NewRow) BY <1>2, BlankScreen, StorageAssumption
  <1>6. HistoryOf(u) = <<>> BY <1>2, NoHistory
  <1>7. SB!Height = u.lines BY <1>1, <1>2, BufferIs, ScreenIs
  <1>8. SB!Reset BY <1>1, <1>2, <1>5, <1>6, <1>7 DEF SB!Reset
  <1>9. QED BY <1>4, <1>8 DEF SB!Next

(* Grid::reset_region and writing a row fill lines of its screen. *)
LEMMA FillStep ==
  ASSUME GridGood(grid), Sound(grid'), Kept(grid, grid'), grid'.raw \in Same(grid.raw),
         NEW start \in Nat, NEW end \in Nat, start < end, end <= grid.lines, NEW t \in Row,
         \A l \in LinesOf(grid.raw) :
           RowAt(grid'.raw, l) = IF start <= l /\ l < end THEN t ELSE RowAt(grid.raw, l)
  PROVE  GridGood(grid)' /\ SB!Next
  <1> DEFINE from == start + 1
  <1>1. Sound(grid) /\ grid.lines \in Nat BY SoundFacts DEF GridGood
  <1>2. GridGood(grid') BY KeptGood
  <1>3. /\ ScreenOf(grid') = PatchOf(ScreenOf(grid), from, end, SB!Blank(end - from + 1, t))
        /\ HistoryOf(grid') = HistoryOf(grid)
    BY <1>1, FilledScreen
  <1>4. SB!Height = grid.lines BY <1>1, BufferIs, ScreenIs
  <1>5. from \in 1..SB!Height /\ end \in 1..SB!Height /\ from <= end BY <1>1, <1>4
  <1> HIDE DEF from
  <1>6. ScreenOf(grid') = SB!Patched(from, end, SB!Blank(end - from + 1, t)) BY <1>3, BufferIs
  <1>7. SB!Fill(from, end, t) BY <1>3, <1>6 DEF SB!Fill, Kept
  <1>8. QED BY <1>2, <1>5, <1>7 DEF SB!Next

(* Grid::resize grows or shrinks it, or leaves it alone. *)
LEMMA ResizeStep ==
  ASSUME GridGood(grid), NEW lines \in Heights, Resize(lines)
  PROVE  GridGood(grid)' /\ (SB!Next \/ UNCHANGED SB!vars)
  <1> DEFINE u == resize(grid, lines)
             n == Needed(grid, lines)
  <1>1. /\ Sound(grid) /\ InView(grid) /\ lines \in Nat /\ 1 <= lines /\ grid' = u
        /\ grid.lines \in Nat /\ grid.max_scroll_limit \in Limits
    BY GridAssumption, SoundFacts DEF GridGood, Resize
  <1>2. ResizedViews(grid, lines, u) BY <1>1, ResizeViews
  <1> HIDE DEF u, n
  <1>3. /\ Sound(u) /\ InView(u) /\ u.lines = lines /\ u.max_scroll_limit = grid.max_scroll_limit
    BY <1>2 DEF ResizedViews
  <1>4. GridGood(grid') BY <1>1, <1>3 DEF GridGood
  <1>5. SB!Height = grid.lines BY <1>1, BufferIs, ScreenIs
  <1>6. CASE grid.lines < lines
    <2>1. ScreenOf(u) = GrownOf(HistoryOf(grid), ScreenOf(grid), lines)
      BY <1>1, <1>2, <1>6 DEF ResizedViews
    <2>2. HistoryOf(u) = SubSeq(HistoryOf(grid), 1,
                           Len(HistoryOf(grid)) - PulledFrom(HistoryOf(grid), ScreenOf(grid), lines))
      BY <1>2, <1>6 DEF ResizedViews
    <2>3. ScreenOf(grid') = SB!Grown(lines) /\ lines > SB!Height
      BY <1>1, <1>5, <1>6, <2>1, GrownAre
    <2>4. HistoryOf(grid') = SubSeq(HistoryOf(grid), 1, Len(HistoryOf(grid)) - SB!Pulled(lines))
      BY <1>1, <2>2, BufferIs
    <2>5. grid'.max_scroll_limit = grid.max_scroll_limit BY <1>1, <1>3
    <2>6. SB!Grow(lines) BY <2>3, <2>4, <2>5, Zenon DEF SB!Grow
    <2>7. QED BY <1>4, <2>6 DEF SB!Next
  <1>7. CASE grid.lines = lines
    <2>1. ScreenOf(u) = ScreenOf(grid) /\ HistoryOf(u) = HistoryOf(grid)
      BY <1>2, <1>7 DEF ResizedViews
    <2>2. Buffer(HistoryOf(grid), ScreenOf(grid), grid.max_scroll_limit) BY <1>1, <1>3, <2>1 DEF Buffer
    <2>3. QED BY <1>4, <2>2, Unmoved
  <1>8. CASE grid.lines > lines
    <2>1. /\ n \in 0..(grid.lines - lines)
          /\ ScreenOf(u) = SubSeq(ScreenOf(grid), n + 1, n + lines)
          /\ HistoryOf(u) = SB!Newest(HistoryOf(grid) \o SubSeq(ScreenOf(grid), 1, n), grid.max_scroll_limit)
      BY <1>2, <1>8 DEF ResizedViews, n
    <2>2. HistoryOf(grid') = SB!HistoryWith(n) /\ ScreenOf(grid') = SubSeq(ScreenOf(grid), n + 1, n + lines)
          /\ grid'.max_scroll_limit = grid.max_scroll_limit
      BY <1>1, <1>3, <2>1, BufferIs
    <2>3. lines < SB!Height /\ n \in 0..(SB!Height - lines) BY <1>5, <1>8, <2>1
    <2>4. SB!Shrink(lines, n) BY <2>2, <2>3 DEF SB!Shrink
    <2>5. QED BY <1>4, <2>3, <2>4 DEF SB!Next
  <1>9. QED BY <1>1, <1>6, <1>7, <1>8

(* Every step keeps the invariant and is a step or a stutter of the plain
   buffer. *)
LEMMA GridStep ==
  ASSUME GridGood(grid), Next
  PROVE  GridGood(grid)' /\ (SB!Next \/ UNCHANGED SB!vars)
  <1>1. /\ Sound(grid) /\ InView(grid) /\ grid \in Grids /\ grid.lines \in Nat
        /\ grid.cursor \in Cursors /\ grid.saved_cursor \in Cursors
        /\ grid.cursor.template \in Row
    BY SoundFacts DEF GridGood
  <1>2. /\ grid.cursor.line \in Nat /\ grid.cursor.template \in Templates
        /\ grid.cursor.line < grid.lines /\ grid.saved_cursor.line < grid.lines
    BY <1>1 DEF Cursors, InView
  <1>3. ASSUME NEW start \in 0..grid.lines, NEW end \in 0..grid.lines, NEW n \in 1..grid.lines,
               ScrollUp(start, end, n) \/ ScrollDown(start, end, n)
        PROVE  GridGood(grid)' /\ SB!Next
    BY <1>3, ScrollUpStep, ScrollDownStep
  <1>4. ASSUME NEW count \in {-grid.lines, -1, 1, grid.lines}, ScrollDisplay(count)
        PROVE  GridGood(grid)' /\ UNCHANGED SB!vars
    <2>1. count \in Int /\ grid' = scroll_display(grid, count) BY <1>1, <1>4 DEF ScrollDisplay
    <2>2. Sound(grid') /\ Kept(grid, grid') /\ grid'.raw = grid.raw BY <1>1, <2>1, ScrollDisplayIs
    <2>3. GridGood(grid') BY <2>2, KeptGood
    <2>4. grid'.lines = grid.lines /\ grid'.max_scroll_limit = grid.max_scroll_limit BY <2>2 DEF Kept
    <2>5. ScreenOf(grid') = ScreenOf(grid) /\ HistoryOf(grid') = HistoryOf(grid)
      BY <2>2, <2>4, SameViews
    <2>6. QED BY <2>3, <2>4, <2>5, Unmoved DEF Buffer
  <1>5. ASSUME NEW start \in 0..grid.lines, NEW end \in 0..grid.lines, ResetRegion(start, end)
        PROVE  GridGood(grid)' /\ SB!Next
    <2>1. /\ start \in Nat /\ end \in Nat /\ start \in Int /\ end \in Int /\ 0 <= start /\ start < end
          /\ start <= end /\ end <= grid.lines
      BY <1>1, <1>5 DEF ResetRegion
    <2>2. grid' = reset_region(grid, start, end) BY <1>5 DEF ResetRegion
    <2>3. /\ Sound(grid') /\ Kept(grid, grid') /\ grid'.raw \in Same(grid.raw)
          /\ \A l \in LinesOf(grid.raw) :
               RowAt(grid'.raw, l) = IF start <= l /\ l < end THEN grid.cursor.template ELSE RowAt(grid.raw, l)
      BY <1>1, <2>1, <2>2, ResetRegionIs
    <2>4. QED BY <1>1, <2>1, <2>3, FillStep
  <1>6. ASSUME NEW row \in Row, WriteRow(row)
        PROVE  GridGood(grid)' /\ SB!Next
    <2> DEFINE c == grid.cursor.line
               e == c + 1
    <2>1. grid' = [grid EXCEPT !.raw = SetRow(grid.raw, c, row)] BY <1>6 DEF WriteRow
    <2>2. /\ Sound(grid') /\ Kept(grid, grid') /\ grid'.raw \in Same(grid.raw)
          /\ \A l \in LinesOf(grid.raw) : RowAt(grid'.raw, l) = IF l = c THEN row ELSE RowAt(grid.raw, l)
      BY <1>1, <2>1, WriteRowIs
    <2>3. c \in Nat /\ e \in Nat /\ c < e /\ e <= grid.lines BY <1>1, <1>2
    <2>4. LinesOf(grid.raw) \subseteq Int BY <1>1, SoundFacts
    <2>5. \A l \in Int : l = c <=> c <= l /\ l < e BY <2>3
    <2> HIDE DEF c, e
    <2>6. \A l \in LinesOf(grid.raw) :
            RowAt(grid'.raw, l) = IF c <= l /\ l < e THEN row ELSE RowAt(grid.raw, l)
      BY <2>2, <2>4, <2>5
    <2>7. QED BY <2>2, <2>3, <2>6, FillStep
  <1>7. ASSUME NEW c \in Cursors, NEW d \in Cursors, c.line < grid.lines, d.line < grid.lines,
               grid' = WithCursors(grid, c, d)
        PROVE  GridGood(grid)' /\ UNCHANGED SB!vars
    <2>1. /\ GridGood(grid') /\ grid'.raw = grid.raw /\ grid'.lines = grid.lines
          /\ grid'.max_scroll_limit = grid.max_scroll_limit
      BY <1>7, CursorMoves
    <2>2. ScreenOf(grid') = ScreenOf(grid) /\ HistoryOf(grid') = HistoryOf(grid)
      BY <2>1, SameViews
    <2>3. QED BY <2>1, <2>2, Unmoved DEF Buffer
  <1>8. ASSUME NEW line \in ViewLines, Goto(line)
        PROVE  GridGood(grid)' /\ UNCHANGED SB!vars
    <2> DEFINE c == [grid.cursor EXCEPT !.line = line]
    <2>1. line \in Nat /\ line < grid.lines BY <1>1 DEF ViewLines
    <2>2. c \in Cursors /\ c.line = line BY <1>1, <2>1 DEF Cursors
    <2>3. grid' = WithCursors(grid, c, grid.saved_cursor)
      BY <1>1, <1>8 DEF Goto, Grids, WithCursors
    <2> HIDE DEF c
    <2>4. QED BY <1>1, <1>2, <1>7, <2>1, <2>2, <2>3
  <1>9. ASSUME NEW row \in Templates, SetTemplate(row)
        PROVE  GridGood(grid)' /\ UNCHANGED SB!vars
    <2> DEFINE c == [grid.cursor EXCEPT !.template = row]
    <2>1. c \in Cursors /\ c.line = grid.cursor.line BY <1>1 DEF Cursors
    <2>2. grid' = WithCursors(grid, c, grid.saved_cursor)
      BY <1>1, <1>9 DEF SetTemplate, Grids, WithCursors
    <2> HIDE DEF c
    <2>3. QED BY <1>1, <1>2, <1>7, <2>1, <2>2
  <1>10. ASSUME SaveCursor PROVE GridGood(grid)' /\ UNCHANGED SB!vars
    <2>1. grid' = WithCursors(grid, grid.cursor, grid.cursor)
      BY <1>1, <1>10 DEF SaveCursor, Grids, WithCursors
    <2>2. QED BY <1>1, <1>2, <1>7, <2>1
  <1>11. ASSUME RestoreCursor PROVE GridGood(grid)' /\ UNCHANGED SB!vars
    <2>1. grid' = WithCursors(grid, grid.saved_cursor, grid.saved_cursor)
      BY <1>1, <1>11 DEF RestoreCursor, Grids, WithCursors
    <2>2. QED BY <1>1, <1>2, <1>7, <2>1
  <1>12. QED
    BY <1>3, <1>4, <1>5, <1>6, <1>8, <1>9, <1>10, <1>11, UpdateHistoryStep, ClearViewportStep,
       ClearHistoryStep, ResetStep, ResizeStep DEF Next

(* So is a step that changes nothing. *)
LEMMA GridStutter ==
  ASSUME GridGood(grid), UNCHANGED grid
  PROVE  GridGood(grid)' /\ UNCHANGED SB!vars
  BY Unmoved DEF Buffer

(* A new grid satisfies the invariant and is a new plain buffer. *)
LEMMA GridInit ==
  ASSUME Init
  PROVE  GridGood(grid) /\ SB!Init
  <1>1. PICK lines \in Heights, limit \in Limits : grid = new(lines, limit) BY DEF Init
  <1>2. lines \in Nat \ {0} /\ limit \in Nat BY GridAssumption
  <1>3. /\ Sound(grid) /\ InView(grid) /\ grid.lines = lines /\ grid.max_scroll_limit = limit
        /\ history_size(grid) = 0 /\ \A l \in LinesOf(grid.raw) : RowAt(grid.raw, l) = NewRow
    BY <1>1, <1>2, NewIs
  <1>4. GridGood(grid) BY <1>3 DEF GridGood
  <1>5. ScreenOf(grid) = SB!Blank(lines, NewRow) BY <1>3, BlankScreen, StorageAssumption
  <1>6. HistoryOf(grid) = <<>> BY <1>3, NoHistory
  <1>7. SB!Init BY <1>3, <1>5, <1>6 DEF SB!Init
  <1>8. QED BY <1>4, <1>7

(* The invariant holds in every reachable state. *)
LEMMA GridInductive == Spec => []GridGood(grid)
  <1>1. Init => GridGood(grid) BY GridInit
  <1>2. GridGood(grid) /\ [Next]_grid => GridGood(grid)' BY GridStep, GridStutter
  <1>3. QED BY <1>1, <1>2, PTL DEF Spec

(* In any order of scrolls, limit changes, resizes and cursor moves the
   storage is one its methods may be called on, the scrollback keeps to its
   limit, which scroll_up subtracts it from, and both cursors are on lines of
   the screen. *)
THEOREM GridConsistent == Spec => []GridInv
  <1>1. GridGood(grid) => GridInv BY GridGoodParts DEF GridInv
  <1>2. QED BY <1>1, GridInductive, PTL

(* Rotating the ring buffer and swapping the fixed lines back, or swapping
   line by line, is the same as moving lines of a plain screen with a
   scrollback list: no recycled row ever shows up and none is lost. *)
THEOREM GridImplementsScrollBuffer == Spec => RefinesScrollBuffer
  <1>1. Init => SB!Init BY GridInit
  <1>2. GridGood(grid) /\ [Next]_grid => [SB!Next]_SB!vars BY GridStep, GridStutter
  <1>3. QED BY <1>1, <1>2, GridInductive, PTL DEF Spec, SB!Spec, RefinesScrollBuffer

(* Every scroll and every change of the height puts exactly the lines of the
   plain buffer on the screen, whichever of their implementations runs. *)
THEOREM ScrollsMatchBuffer == Spec => []OperationsMatch
  <1>1. ASSUME GridGood(grid) PROVE OperationsMatch
    <2> DEFINE t == grid.cursor.template
    <2>1. Sound(grid) /\ InView(grid) /\ grid.lines \in Nat BY <1>1, SoundFacts DEF GridGood
    <2>2. ASSUME NEW r \in Regions, NEW n \in 1..(r[2] - r[1])
          PROVE  /\ ScreenOf(scroll_down(grid, r[1], r[2], n)) = SB!ScrolledDown(r[1], r[2], n, t)
                 /\ ScreenOf(scroll_up(grid, r[1], r[2], n)) = SB!ScrolledUp(r[1], r[2], n, t)
      <3> DEFINE a == r[1]
                 b == r[2]
      <3>1. a \in Nat /\ b \in Nat /\ a < b /\ b <= grid.lines BY <2>1 DEF Regions
      <3>2. n \in Nat /\ (a = 0 => n <= b) BY <3>1
      <3> HIDE DEF a, b
      <3>3. ScreenOf(scroll_down(grid, a, b, n)) = DownOf(ScreenOf(grid), a, b, n, t)
        BY <2>1, <3>1, <3>2, DownScreen
      <3>4. ScreenOf(scroll_up(grid, a, b, n)) = UpOf(ScreenOf(grid), a, b, n, t)
        BY <2>1, <3>1, <3>2, UpScreen
      <3>5. QED BY <3>3, <3>4, ScrollsAre DEF a, b
    <2>3. ASSUME NEW lines \in Heights
          PROVE  ScreenOf(resize(grid, lines)) =
                   IF lines >= grid.lines
                     THEN SB!Grown(lines)
                     ELSE SubSeq(ScreenOf(grid), MaxOf(grid.cursor.line + 1 - lines, 0) + 1,
                                 MaxOf(grid.cursor.line + 1 - lines, 0) + lines)
      <3>1. lines \in Nat /\ 1 <= lines BY GridAssumption
      <3>2. ResizedViews(grid, lines, resize(grid, lines)) BY <2>1, <3>1, ResizeViews
      <3>3. CASE lines >= grid.lines
        <4>1. grid.lines <= lines BY <2>1, <3>1, <3>3
        <4>2. QED BY <3>2, <3>3, <4>1, GrownAre DEF ResizedViews
      <3>4. CASE ~(lines >= grid.lines)
        <4>1. grid.lines > lines BY <2>1, <3>1, <3>4
        <4>2. QED BY <3>2, <3>4, <4>1 DEF ResizedViews, Needed
      <3>5. QED BY <3>3, <3>4
    <2>4. QED BY <2>2, <2>3, Zenon DEF OperationsMatch
  <1>2. QED BY <1>1, GridInductive, PTL

(* While the user looks at the scrollback, lines that are scrolled off the
   top move the view along, so that what is on display stays there. *)
THEOREM ViewStaysStationary == Spec => []StaysStationary
  <1>1. ASSUME GridGood(grid) PROVE StaysStationary
    <2>1. /\ Sound(grid) /\ grid.lines \in Nat /\ grid.display_offset \in Nat
          /\ history_size(grid) \in Nat /\ grid.max_scroll_limit \in Nat
          /\ LinesOf(grid.raw) = (-history_size(grid))..(grid.lines - 1)
      BY <1>1, SoundFacts DEF GridGood
    <2>2. ASSUME NEW end \in 1..grid.lines, NEW n \in 1..end,
                 grid.display_offset \in 1..history_size(grid),
                 grid.display_offset + n <= grid.max_scroll_limit
          PROVE  LET off == grid.display_offset
                     up  == scroll_up(grid, 0, end, n)
                 IN  /\ up.display_offset <= history_size(up)
                     /\ \A i \in 0..(grid.lines - 1) :
                          i - off < end => RowAt(up.raw, i - up.display_offset) = RowAt(grid.raw, i - off)
      <3> DEFINE off == grid.display_offset
                 up == scroll_up(grid, 0, end, n)
                 h == history_size(grid)
                 k == HistoryAfter(grid, n)
      <3>1. n \in 0..end /\ n \in Nat /\ end \in Nat BY <2>1
      <3>2. OffTheTop(grid, end, n, up) /\ Sound(up) BY <2>1, <3>1, ScrollUpTop
      <3> HIDE DEF up
      <3>3. history_size(up) = k /\ k \in Nat /\ LinesOf(up.raw) = (-k)..(grid.lines - 1)
        BY <2>1, <3>1, <3>2, HistoryOfTop
      <3>4. k = MinOf(h + n, grid.max_scroll_limit) BY DEF HistoryAfter
      <3>5. up.display_offset = off + n
        <4>1. up.display_offset = IF off # 0 THEN MinOf(off + n, grid.max_scroll_limit) ELSE 0
          BY <3>2 DEF OffTheTop
        <4>2. QED BY <2>1, <2>2, <3>1, <4>1 DEF MinOf
      <3>6. \A l \in LinesOf(up.raw) :
              /\ l < end - n => RowAt(up.raw, l) = RowAt(grid.raw, l + n)
        BY <3>2 DEF OffTheTop
      <3> HIDE DEF k, h, off
      <3>7. off \in Nat /\ h \in Nat /\ off <= h /\ off + n <= grid.max_scroll_limit /\ 1 <= off
        BY <2>1, <2>2 DEF off, h
      <3>8. off + n <= k BY <2>1, <3>1, <3>4, <3>7 DEF MinOf
      <3>9. ASSUME NEW i \in 0..(grid.lines - 1), i - off < end
            PROVE  RowAt(up.raw, i - up.display_offset) = RowAt(grid.raw, i - off)
        <4> DEFINE l == i - (off + n)
        <4>1. l \in LinesOf(up.raw) /\ l + n = i - off /\ l < end - n BY <2>1, <3>1, <3>3, <3>7, <3>8, <3>9
        <4> HIDE DEF l
        <4>2. RowAt(up.raw, l) = RowAt(grid.raw, i - off) BY <3>6, <4>1
        <4>3. QED BY <3>5, <4>2 DEF l
      <3>10. QED BY <3>3, <3>5, <3>8, <3>9 DEF up, off
    <2>3. QED BY <2>2 DEF StaysStationary
  <1>2. QED BY <1>1, GridInductive, PTL
==============================================================================
