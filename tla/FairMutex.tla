------------------------------ MODULE FairMutex ------------------------------
(***************************************************************************)
(* The terminal's lock (cutty_terminal/src/sync.rs): a mutex `data` around *)
(* the terminal and a mutex `next` that reserves the next access to it.    *)
(*                                                                         *)
(* Each operator is one atomic step of a thread on the two parking_lot     *)
(* mutexes, which are external.  A free mutex goes to any contender:       *)
(* parking_lot lets a running thread barge in before a parked one, and     *)
(* only promises that a waiter gets the lock eventually.                   *)
(***************************************************************************)
CONSTANTS NoOne   \* owner of a free mutex

VARIABLES next,   \* owner of the next-to-access mutex
          data    \* owner of the mutex around the data

(* Mutant of lease: the reservation is taken while another thread has it. *)
lease_Stolen(t) == next' = t

(* FairMutex::lease, and the first half of FairMutex::lock. *)
lease(t) == next = NoOne /\ next' = t

(* The second half of FairMutex::lock: `_next` is dropped on return. *)
lock_data(t) ==
  /\ next = t /\ data = NoOne
  /\ data' = t
  /\ next' = NoOne

(* Mutant of lock_unfair: the data is entered without waiting for it. *)
lock_unfair_NoWait(t) == data' = t

(* FairMutex::lock_unfair, and FairMutex::try_lock_unfair when it succeeds;
   the latter fails otherwise and changes nothing. *)
lock_unfair(t) == data = NoOne /\ data' = t

(* Dropping a MutexGuard. *)
unlock(t)        == data = t /\ data' = NoOne
drop_lease(t)    == next = t /\ next' = NoOne
===============================================================================
