---------------------------- MODULE FairMutexSpec ----------------------------
(***************************************************************************)
(* The lock under the use the program makes of it.  Lockers call           *)
(* FairMutex::lock around an access: the UI (window_context.rs), and the   *)
(* PTY thread to end a synchronized update or to exit.  Readers do what    *)
(* EventLoop::pty_read does (event_loop.rs): lease, try_lock_unfair in a   *)
(* loop or lock_unfair when the read buffer is full, and drop both guards  *)
(* at the end.                                                             *)
(***************************************************************************)
EXTENDS Naturals, FairMutex

CONSTANTS Locker, Reader

ASSUME FairMutexAssumption == NoOne \notin Locker \cup Reader

Thread == Locker \cup Reader

VARIABLES pc,        \* what each thread is doing
          overtaken  \* accesses others have begun since the thread asked

vars == <<next, data, pc, overtaken>>

Waiting == {"lock", "lock_data", "read", "leased"}

Init ==
  /\ next = NoOne /\ data = NoOne
  /\ pc = [t \in Thread |-> "idle"]
  /\ overtaken = [t \in Thread |-> 0]

Become(t, where) == pc' = [pc EXCEPT ![t] = where]

(* A thread calls lock, or begins to read, and so starts to wait. *)
Ask(t) ==
  /\ pc[t] = "idle"
  /\ \/ t \in Locker /\ Become(t, "lock")
     \/ t \in Reader /\ Become(t, "read")
  /\ overtaken' = [overtaken EXCEPT ![t] = 0]
  /\ UNCHANGED <<next, data>>

Lease(t) ==
  /\ pc[t] \in {"lock", "read"}
  /\ lease(t)
  /\ Become(t, IF pc[t] = "lock" THEN "lock_data" ELSE "leased")
  /\ UNCHANGED <<data, overtaken>>

(* Whoever waits is overtaken by the access t begins.  The count saturates:
   one and more than one are what matters. *)
Overtake(t) ==
  overtaken' = [u \in Thread |-> IF u # t /\ pc[u] \in Waiting /\ overtaken[u] < 2
                                   THEN overtaken[u] + 1 ELSE overtaken[u]]

LockData(t) ==
  /\ pc[t] = "lock_data"
  /\ lock_data(t)
  /\ Become(t, "locked")
  /\ Overtake(t)

LockUnfair(t) ==
  /\ pc[t] = "leased"
  /\ lock_unfair(t)
  /\ Become(t, "reading")
  /\ Overtake(t)
  /\ UNCHANGED next

(* Mutant of GiveUp: the lease is kept on the early return. *)
GiveUp_KeepsLease(t) ==
  /\ pc[t] = "leased"
  /\ Become(t, "idle")
  /\ UNCHANGED <<next, data, overtaken>>

(* A read that finds nothing, or fails, ends without having locked. *)
GiveUp(t) ==
  /\ pc[t] = "leased"
  /\ drop_lease(t)
  /\ Become(t, "idle")
  /\ UNCHANGED <<data, overtaken>>

(* Guards drop in the reverse order of their declaration, so a reader gives
   the data back before its lease. *)
Unlock(t) ==
  /\ pc[t] \in {"locked", "reading"}
  /\ unlock(t)
  /\ Become(t, IF pc[t] = "reading" THEN "ending" ELSE "idle")
  /\ UNCHANGED <<next, overtaken>>

DropLease(t) ==
  /\ pc[t] = "ending"
  /\ drop_lease(t)
  /\ Become(t, "idle")
  /\ UNCHANGED <<data, overtaken>>

Step(t) ==
  \/ Ask(t) \/ Lease(t) \/ LockData(t) \/ LockUnfair(t)
  \/ GiveUp(t) \/ Unlock(t) \/ DropLease(t)

Next == \E t \in Thread : Step(t)

(* parking_lot hands a mutex to every waiter eventually (strong fairness of
   acquisition); a holder goes on and releases (weak fairness). *)
Fairness ==
  \A t \in Thread :
    /\ SF_vars(Lease(t)) /\ SF_vars(LockData(t)) /\ SF_vars(LockUnfair(t))
    /\ WF_vars(Unlock(t)) /\ WF_vars(DropLease(t))

Spec == Init /\ [][Next]_vars /\ Fairness
-------------------------------------------------------------------------------
(* TypeOK: owners are threads or nobody, and a thread that is done with the
   terminal owns neither mutex. *)
TypeOK ==
  /\ next \in Thread \cup {NoOne}
  /\ data \in Thread \cup {NoOne}
  /\ pc \in [Thread -> {"idle", "lock", "lock_data", "locked", "read", "leased", "reading", "ending"}]
  /\ overtaken \in [Thread -> 0..2]
  /\ \A t \in Thread : pc[t] = "idle" => t \notin {next, data}

Inside == {"locked", "reading"}

(* MutualExclusion: whatever mix of fair and unfair locking is used, two
   threads are never both inside the terminal. *)
MutualExclusion == \A t, u \in Thread : pc[t] \in Inside /\ pc[u] \in Inside => t = u

(* LeaseIsNext: a thread that holds `next` waits for the one access under way
   at most: nobody begins another one before it, not even through the unfair
   operations, which skip `next`. *)
LeaseIsNext ==
  [][\A t \in Thread : pc[t] \in {"lock_data", "leased"} => overtaken'[t] = overtaken[t]]_vars

(* EveryoneGetsIn: a thread that asks for the terminal gets it, though readers
   hold the lease over a whole read; only a reader may leave without it. *)
EveryoneGetsIn ==
  \A t \in Thread : /\ pc[t] = "lock" ~> pc[t] = "locked"
                    /\ pc[t] = "read" ~> pc[t] \in {"reading", "idle"}

(* MutexInv: the terminal is exclusive, and nobody who is done with it keeps
   either mutex. *)
MutexInv == TypeOK /\ MutualExclusion
===============================================================================
