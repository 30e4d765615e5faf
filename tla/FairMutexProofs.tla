--------------------------- MODULE FairMutexProofs ---------------------------
(***************************************************************************)
(* Proofs about the terminal's lock, for any sets of locking and reading   *)
(* threads.                                                                *)
(***************************************************************************)
EXTENDS FairMutexSpec, TLAPS

(* The inductive invariant: each mutex is owned by exactly the thread whose
   code holds its guard. *)
HoldsNext == {"lock_data", "leased", "reading", "ending"}

OwnersMatch ==
  \A t \in Thread : /\ next = t <=> pc[t] \in HoldsNext
                    /\ data = t <=> pc[t] \in Inside

IInv == TypeOK /\ OwnersMatch

LEMMA OwnersAreThreads ==
  ASSUME NEW t \in Thread
  PROVE  t # NoOne
  BY FairMutexAssumption DEF Thread

LEMMA InitInductive == Init => IInv
  BY OwnersAreThreads DEF Init, IInv, TypeOK, OwnersMatch, HoldsNext, Inside

LEMMA OvertakeType ==
  ASSUME TypeOK, NEW t \in Thread, Overtake(t)
  PROVE  overtaken' \in [Thread -> 0..2]
  BY DEF TypeOK, Overtake

LEMMA StepInductive ==
  ASSUME IInv, [Next]_vars
  PROVE  IInv'
  <1> USE DEF IInv, TypeOK
  <1>1. CASE UNCHANGED vars
    BY <1>1 DEF vars, OwnersMatch
  <1>2. ASSUME NEW t \in Thread, Step(t)
        PROVE  IInv'
    <2> USE OwnersAreThreads DEF OwnersMatch, HoldsNext, Inside, Become
    <2>1. CASE Ask(t)
      BY <2>1 DEF Ask
    <2>2. CASE Lease(t)
      BY <2>2 DEF Lease, lease
    <2>3. CASE LockData(t)
      BY <2>3, OvertakeType DEF LockData, lock_data
    <2>4. CASE LockUnfair(t)
      BY <2>4, OvertakeType DEF LockUnfair, lock_unfair
    <2>5. CASE GiveUp(t)
      BY <2>5 DEF GiveUp, drop_lease
    <2>6. CASE Unlock(t)
      BY <2>6 DEF Unlock, unlock
    <2>7. CASE DropLease(t)
      BY <2>7 DEF DropLease, drop_lease
    <2>8. QED BY <1>2, <2>1, <2>2, <2>3, <2>4, <2>5, <2>6, <2>7 DEF Step
  <1>3. QED BY <1>1, <1>2 DEF Next

LEMMA Inductive == Spec => []IInv
  BY InitInductive, StepInductive, PTL DEF Spec

(* Owners are always threads or nobody. *)
THEOREM TypeCorrect == Spec => []TypeOK
  <1>1. IInv => TypeOK BY DEF IInv
  <1>2. QED BY <1>1, Inductive, PTL

(* The terminal is never accessed by two threads at once, for any number of
   threads and any mix of FairMutex::lock with the leased, unfair locking of
   pty_read. *)
THEOREM Exclusive == Spec => []MutualExclusion
  <1>1. IInv => MutualExclusion
    BY DEF IInv, OwnersMatch, MutualExclusion
  <1>2. QED BY <1>1, Inductive, PTL

(* The invariant that FairMutexSpec's run checks holds for any sets of lockers
   and readers. *)
THEOREM MutexConsistent == Spec => []MutexInv
  <1>1. TypeOK /\ MutualExclusion => MutexInv BY DEF MutexInv
  <1>2. QED BY <1>1, TypeCorrect, Exclusive, PTL

(* Holding `next` means being next: while a thread holds it and waits for the
   data, no other thread begins an access. *)
THEOREM LeaseHolderIsNext == Spec => LeaseIsNext
  <1> DEFINE P == \A t \in Thread : pc[t] \in {"lock_data", "leased"} => overtaken'[t] = overtaken[t]
  <1>1. IInv /\ [Next]_vars => [P]_vars
    <2> SUFFICES ASSUME IInv, NEW u \in Thread, Step(u),
                        NEW t \in Thread, pc[t] \in {"lock_data", "leased"}
                 PROVE  overtaken'[t] = overtaken[t]
      BY DEF Next
    <2> USE DEF IInv, TypeOK
    <2>1. next = t BY DEF OwnersMatch, HoldsNext
    <2>2. CASE Ask(u)
      <3>1. t # u BY <2>2 DEF Ask
      <3>2. QED BY <2>2, <3>1 DEF Ask
    <2>3. CASE LockData(u) \/ LockUnfair(u)
      <3>1. next = u BY <2>3 DEF LockData, LockUnfair, OwnersMatch, HoldsNext
      <3>2. QED BY <2>1, <2>3, <3>1 DEF LockData, LockUnfair, Overtake
    <2>4. CASE Lease(u) \/ GiveUp(u) \/ Unlock(u) \/ DropLease(u)
      BY <2>4 DEF Lease, GiveUp, Unlock, DropLease
    <2>5. QED BY <2>2, <2>3, <2>4 DEF Step
  <1>2. QED BY <1>1, Inductive, PTL DEF Spec, LeaseIsNext
===============================================================================
