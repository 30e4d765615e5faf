--------------------------- MODULE EventLoopProofs ---------------------------
(***************************************************************************)
(* Proofs about the PTY event loop, for any number of messages, any sizes  *)
(* of messages, buffers and pipes, and any amount of output.               *)
(*                                                                         *)
(* Locks is the inductive invariant all proofs rest on: types, who owns    *)
(* each of the two mutexes at every point of the two threads, and where    *)
(* the bytes of the child are.  NoLost, Interest, Announced and            *)
(* InputConserved are each inductive with it.                              *)
(***************************************************************************)
EXTENDS EventLoop, SequenceTheorems, TLAPS

Message == {Input(m) : m \in Nat} \union {Resize, Shutdown}
ByteType == Nat \X Nat

(* What TypeOK leaves out. *)
Typed ==
  /\ rx \in Seq(Message) /\ write_list \in Seq(Nat)
  /\ writing \in Seq(ByteType) /\ written \in Seq(ByteType)
  /\ sent \in Nat /\ resizes \in Nat /\ produced \in Nat
Flags ==
  /\ interest \in BOOLEAN /\ notify \in BOOLEAN /\ notified \in BOOLEAN /\ wakeup \in BOOLEAN
  /\ drawing \in BOOLEAN /\ stale \in BOOLEAN /\ alive \in BOOLEAN

Reading == {"read", "try_lock", "lock", "parse", "read_end"}

(* Each mutex is owned by the thread whose code holds its guard. *)
PtyOwns ==
  /\ pc \in Reading => next = "pty"
  /\ next = "pty" => pc \in Reading \union {"stop_sync", "exit"}
  /\ data = "pty" => pc \in {"read", "try_lock", "parse", "read_end", "stop_sync", "exit"}
  /\ pc = "parse" => data = "pty"
  /\ pc \in {"stop_sync", "exit"} /\ data = "pty" => next # "pty"
UiOwns ==
  /\ ui = "idle" => next # "ui" /\ data # "ui"
  /\ ui = "data" => next = "ui" /\ data # "ui"
  /\ ui = "locked" => next # "ui" /\ data = "ui"

(* The counters of pty_read, and where the bytes of the child are. *)
Counters ==
  /\ pc \notin Reading => unprocessed = 0 /\ processed = 0
  /\ pc \in {"try_lock", "lock", "parse"} => unprocessed > 0
  /\ pc = "read" => unprocessed < READ_BUFFER_SIZE
  /\ timeout = "none" => sync_bytes = 0
  /\ output + unprocessed + sync_bytes + lost <= produced /\ produced <= MaxOutput

Locks == TypeOK /\ Typed /\ Flags /\ PtyOwns /\ UiOwns /\ Counters

(* The loop starts with free locks, empty counters and no bytes anywhere. *)
LEMMA InitLocks == Init => Locks
  <1> SUFFICES ASSUME Init PROVE Locks OBVIOUS
  <1> USE EventLoopAssumption DEF Init
  <1>1. TypeOK BY DEF TypeOK
  <1>2. Typed BY EmptySeq DEF Typed
  <1>3. Flags BY Zenon DEF Flags
  <1>4. PtyOwns /\ UiOwns BY DEF PtyOwns, UiOwns, Reading
  <1>5. Counters BY DEF Counters, Reading
  <1>6. QED BY <1>1, <1>2, <1>3, <1>4, <1>5 DEF Locks

(* An input message is a sequence of MsgLen bytes. *)
LEMMA BytesType ==
  ASSUME NEW m \in Nat
  PROVE  Bytes(m) \in Seq(ByteType) /\ Len(Bytes(m)) = MsgLen
  BY EventLoopAssumption DEF Bytes, ByteType

(* Each step leaves every guard with the thread whose code holds it. *)
LEMMA StepOwners ==
  ASSUME Locks, [Next]_vars
  PROVE  PtyOwns' /\ UiOwns'
  <1> USE EventLoopAssumption
          DEF Locks, TypeOK, PtyOwns, UiOwns, Reading, loop, read, parser, uivars, shared, kernel,
              locks, lease, lock_data, lock_unfair, unlock
  <1>1. CASE LockNext
    BY <1>1 DEF LockNext
  <1>2. CASE LockData
    BY <1>2 DEF LockData
  <1>3. CASE StopSync
    BY <1>3 DEF StopSync
  <1>4. CASE HandleChild
    BY <1>4 DEF HandleChild
  <1>5. CASE Exit
    BY <1>5 DEF Exit
  <1>6. CASE TakeLease
    BY <1>6 DEF TakeLease
  <1>7. CASE \E n \in 1..(READ_BUFFER_SIZE - unprocessed) : ReadSome(n)
    BY <1>7 DEF ReadSome
  <1>8. CASE ReadBlocks
    BY <1>8 DEF ReadBlocks
  <1>9. CASE ReadEIO
    BY <1>9 DEF ReadEIO, LeaveRead
  <1>10. CASE ReadError
    BY <1>10 DEF ReadError, LeaveRead
  <1>11. CASE TryLock
    BY <1>11 DEF TryLock
  <1>12. CASE ForceLock
    BY <1>12 DEF ForceLock
  <1>13. CASE \E held \in 0..unprocessed : Parse(held)
    BY <1>13 DEF Parse
  <1>14. CASE ReadEnd
    BY <1>14 DEF ReadEnd, LeaveRead
  <1>15. CASE UiNext
    BY <1>15 DEF UiNext
  <1>16. CASE UiData
    BY <1>16 DEF UiData
  <1>17. CASE UiUnlock
    BY <1>17 DEF UiUnlock
  <1>18. CASE \/ Wait \/ PollError \/ Woken \/ Receive \/ Drained \/ SkipHangup \/ StartRead
             \/ StartWrite \/ Reregister
    BY <1>18 DEF Wait, PollError, Woken, Receive, Drained, SkipHangup, StartRead, StartWrite,
                 Reregister
  <1>19. CASE \/ (\E n \in 1..MsgLen : WriteSome(n)) \/ WriteBlocks \/ WriteError \/ SendInput
             \/ SendResize \/ SendShutdown \/ Notify \/ ChildWrites \/ ChildReads
    BY <1>19 DEF WriteSome, WriteBlocks, WriteError, SendInput, Send, SendResize, SendShutdown,
                 Notify, ChildWrites, ChildReads
  <1>20. CASE \/ ChildExits \/ OtherChildExits \/ TimePasses \/ UNCHANGED vars
    BY <1>20 DEF ChildExits, OtherChildExits, TimePasses, vars
  <1>21. QED
    BY <1>1, <1>2, <1>3, <1>4, <1>5, <1>6, <1>7, <1>8, <1>9, <1>10, <1>11, <1>12, <1>13,
       <1>14, <1>15, <1>16, <1>17, <1>18, <1>19, <1>20
    DEF Next, PtyStep, UiStep, Environment

(* Each step keeps the channel, the write list and the bytes sequences. *)
LEMMA StepTyped ==
  ASSUME Locks, [Next]_vars
  PROVE  Typed'
  <1> USE EventLoopAssumption DEF Locks, Typed, loop, read, parser, uivars, shared, kernel, locks
  <1>1. CASE Receive
    <2>1. rx' \in Seq(Message) BY <1>1 DEF Receive
    <2>2. Head(rx) \in Message BY <1>1 DEF Receive
    <2>3. write_list' \in Seq(Nat) BY <1>1, <2>2 DEF Receive, Message, Input, Resize, Shutdown
    <2>4. QED BY <1>1, <2>1, <2>3 DEF Receive
  <1>2. CASE StartWrite
    <2>1. write_list # <<>> => Bytes(Head(write_list)) \in Seq(ByteType) BY BytesType
    <2>2. QED BY <1>2, <2>1 DEF StartWrite
  <1>3. CASE \E n \in 1..MsgLen : WriteSome(n)
    <2>1. PICK n \in 1..MsgLen : WriteSome(n) BY <1>3
    <2>2. SubSeq(writing, 1, n) \in Seq(ByteType) /\ written' \in Seq(ByteType)
      BY <2>1 DEF WriteSome
    <2>3. n < Len(writing) => SubSeq(writing, n + 1, Len(writing)) \in Seq(ByteType)
      BY <2>1 DEF WriteSome
    <2>4. write_list # <<>> => Bytes(Head(write_list)) \in Seq(ByteType) BY BytesType
    <2>5. write_list # <<>> => Tail(write_list) \in Seq(Nat) OBVIOUS
    <2>6. writing' \in Seq(ByteType)
      BY <2>1, <2>3, <2>4, EmptySeq DEF WriteSome
    <2>7. write_list' \in Seq(Nat)
      BY <2>1, <2>5, EmptySeq DEF WriteSome
    <2>8. QED BY <2>1, <2>2, <2>6, <2>7 DEF WriteSome
  <1>4. CASE SendInput
    <2>1. Input(sent + 1) \in Message BY DEF Message
    <2>2. QED BY <1>4, <2>1 DEF SendInput, Send
  <1>5. CASE SendResize
    BY <1>5 DEF SendResize, Send, Message
  <1>6. CASE SendShutdown
    BY <1>6 DEF SendShutdown, Send, Message
  <1>7. CASE ChildWrites
    BY <1>7 DEF ChildWrites
  <1>8. CASE \/ Wait \/ PollError \/ Woken \/ LockNext \/ LockData \/ StopSync \/ Drained
            \/ HandleChild \/ Exit
    BY <1>8 DEF Wait, PollError, Woken, LockNext, LockData, StopSync, Drained, HandleChild,
                Exit
  <1>9. CASE \/ SkipHangup \/ StartRead \/ Reregister \/ TakeLease
            \/ (\E n \in 1..(READ_BUFFER_SIZE - unprocessed) : ReadSome(n)) \/ ReadBlocks
            \/ ReadEIO \/ ReadError \/ TryLock
    BY <1>9 DEF SkipHangup, StartRead, Reregister, TakeLease, ReadSome, ReadBlocks, ReadEIO,
                LeaveRead, ReadError, TryLock
  <1>10. CASE \/ ForceLock \/ (\E held \in 0..unprocessed : Parse(held)) \/ ReadEnd \/ WriteBlocks
             \/ WriteError \/ Notify \/ UiNext \/ UiData \/ UiUnlock
    BY <1>10 DEF ForceLock, Parse, ReadEnd, LeaveRead, WriteBlocks, WriteError, Notify, UiNext,
                 UiData, UiUnlock
  <1>11. CASE \/ ChildReads \/ ChildExits \/ OtherChildExits \/ TimePasses \/ UNCHANGED vars
    BY <1>11 DEF ChildReads, ChildExits, OtherChildExits, TimePasses, vars
  <1>12. QED
    BY <1>1, <1>2, <1>3, <1>4, <1>5, <1>6, <1>7, <1>8, <1>9, <1>10, <1>11
    DEF Next, PtyStep, UiStep, Environment

(* Each step keeps the loop and its counters in range. *)
LEMMA StepType ==
  ASSUME Locks, [Next]_vars
  PROVE  TypeOK'
  <1> USE EventLoopAssumption
          DEF Locks, TypeOK, Typed, Counters, PtyOwns, Reading, loop, read, parser,
              uivars, shared, kernel, locks, lease, lock_data, lock_unfair, unlock
  <1>1. CASE Wait
    BY <1>1 DEF Wait, Ready
  <1>2. CASE PollError
    BY <1>2 DEF PollError
  <1>3. CASE Woken
    BY <1>3 DEF Woken
  <1>4. CASE LockNext
    BY <1>4 DEF LockNext
  <1>5. CASE LockData
    BY <1>5 DEF LockData
  <1>6. CASE StopSync
    BY <1>6 DEF StopSync
  <1>7. CASE Receive
    BY <1>7 DEF Receive
  <1>8. CASE Drained
    BY <1>8 DEF Drained
  <1>9. CASE HandleChild
    BY <1>9 DEF HandleChild
  <1>10. CASE Exit
    BY <1>10 DEF Exit
  <1>11. CASE SkipHangup
    BY <1>11 DEF SkipHangup
  <1>12. CASE StartRead
    BY <1>12 DEF StartRead
  <1>13. CASE StartWrite
    BY <1>13 DEF StartWrite
  <1>14. CASE Reregister
    BY <1>14 DEF Reregister
  <1>15. CASE TakeLease
    BY <1>15 DEF TakeLease
  <1>16. CASE \E n \in 1..(READ_BUFFER_SIZE - unprocessed) : ReadSome(n)
    BY <1>16 DEF ReadSome
  <1>17. CASE ReadBlocks
    BY <1>17 DEF ReadBlocks
  <1>18. CASE ReadEIO
    BY <1>18 DEF ReadEIO, LeaveRead
  <1>19. CASE ReadError
    BY <1>19 DEF ReadError, LeaveRead
  <1>20. CASE TryLock
    BY <1>20 DEF TryLock
  <1>21. CASE ForceLock
    BY <1>21 DEF ForceLock
  <1>22. CASE \E held \in 0..unprocessed : Parse(held)
    BY <1>22 DEF Parse
  <1>23. CASE ReadEnd
    BY <1>23 DEF ReadEnd, LeaveRead
  <1>24. CASE \E n \in 1..MsgLen : WriteSome(n)
    BY <1>24 DEF WriteSome
  <1>25. CASE WriteBlocks
    BY <1>25 DEF WriteBlocks
  <1>26. CASE WriteError
    BY <1>26 DEF WriteError
  <1>27. CASE SendInput
    BY <1>27 DEF SendInput, Send
  <1>28. CASE SendResize
    BY <1>28 DEF SendResize, Send
  <1>29. CASE SendShutdown
    BY <1>29 DEF SendShutdown, Send
  <1>30. CASE Notify
    BY <1>30 DEF Notify
  <1>31. CASE UiNext
    BY <1>31 DEF UiNext
  <1>32. CASE UiData
    BY <1>32 DEF UiData
  <1>33. CASE UiUnlock
    BY <1>33 DEF UiUnlock
  <1>34. CASE ChildWrites
    BY <1>34 DEF ChildWrites
  <1>35. CASE ChildReads
    BY <1>35 DEF ChildReads
  <1>36. CASE ChildExits
    BY <1>36 DEF ChildExits
  <1>37. CASE OtherChildExits
    BY <1>37 DEF OtherChildExits
  <1>38. CASE TimePasses
    BY <1>38 DEF TimePasses
  <1>39. CASE UNCHANGED vars
    BY <1>39 DEF vars
  <1>40. QED
    BY <1>1, <1>2, <1>3, <1>4, <1>5, <1>6, <1>7, <1>8, <1>9, <1>10, <1>11, <1>12, <1>13,
       <1>14, <1>15, <1>16, <1>17, <1>18, <1>19, <1>20, <1>21, <1>22, <1>23, <1>24, <1>25,
       <1>26, <1>27, <1>28, <1>29, <1>30, <1>31, <1>32, <1>33, <1>34, <1>35, <1>36, <1>37,
       <1>38, <1>39
    DEF Next, PtyStep, UiStep, Environment

(* Each step keeps count of the bytes of the child. *)
LEMMA StepCounters ==
  ASSUME Locks, [Next]_vars
  PROVE  Counters'
  <1> USE EventLoopAssumption
          DEF Locks, TypeOK, Typed, Counters, Reading, loop, read, parser, uivars,
              shared, kernel, locks
  <1>1. CASE StopSync
    BY <1>1 DEF StopSync
  <1>2. CASE HandleChild
    BY <1>2 DEF HandleChild
  <1>3. CASE StartRead
    BY <1>3 DEF StartRead
  <1>4. CASE TakeLease
    BY <1>4 DEF TakeLease
  <1>5. CASE \E n \in 1..(READ_BUFFER_SIZE - unprocessed) : ReadSome(n)
    BY <1>5 DEF ReadSome
  <1>6. CASE ReadBlocks
    BY <1>6 DEF ReadBlocks
  <1>7. CASE ReadEIO
    BY <1>7 DEF ReadEIO, LeaveRead
  <1>8. CASE ReadError
    BY <1>8 DEF ReadError, LeaveRead
  <1>9. CASE TryLock
    BY <1>9 DEF TryLock
  <1>10. CASE \E held \in 0..unprocessed : Parse(held)
    BY <1>10 DEF Parse
  <1>11. CASE ReadEnd
    BY <1>11 DEF ReadEnd, LeaveRead
  <1>12. CASE ChildWrites
    BY <1>12 DEF ChildWrites
  <1>13. CASE TimePasses
    BY <1>13 DEF TimePasses
  <1>14. CASE \/ Wait \/ PollError \/ Woken \/ LockNext \/ LockData \/ Receive \/ Drained \/ Exit
             \/ SkipHangup
    BY <1>14 DEF Wait, PollError, Woken, LockNext, LockData, Receive, Drained, Exit, SkipHangup
  <1>15. CASE \/ StartWrite \/ Reregister \/ ForceLock \/ (\E n \in 1..MsgLen : WriteSome(n))
             \/ WriteBlocks \/ WriteError \/ SendInput \/ SendResize \/ SendShutdown
    BY <1>15 DEF StartWrite, Reregister, ForceLock, WriteSome, WriteBlocks, WriteError,
                 SendInput, Send, SendResize, SendShutdown
  <1>16. CASE \/ Notify \/ UiNext \/ UiData \/ UiUnlock \/ ChildReads \/ ChildExits
             \/ OtherChildExits \/ UNCHANGED vars
    BY <1>16 DEF Notify, UiNext, UiData, UiUnlock, ChildReads, ChildExits, OtherChildExits,
                 vars
  <1>17. QED
    BY <1>1, <1>2, <1>3, <1>4, <1>5, <1>6, <1>7, <1>8, <1>9, <1>10, <1>11, <1>12, <1>13,
       <1>14, <1>15, <1>16
    DEF Next, PtyStep, UiStep, Environment

(* Each step keeps the flags Boolean. *)
LEMMA StepFlags ==
  ASSUME Locks, [Next]_vars
  PROVE  Flags'
  <1> USE DEF Locks, Flags, loop, read, parser, uivars, shared, kernel, locks
  <1>1. CASE Wait
    BY <1>1, Zenon DEF Wait
  <1>2. CASE PollError
    BY <1>2, Zenon DEF PollError
  <1>3. CASE Woken
    BY <1>3, Zenon DEF Woken
  <1>4. CASE LockNext
    BY <1>4, Zenon DEF LockNext
  <1>5. CASE LockData
    BY <1>5, Zenon DEF LockData
  <1>6. CASE StopSync
    BY <1>6, Zenon DEF StopSync
  <1>7. CASE Receive
    BY <1>7, Zenon DEF Receive
  <1>8. CASE Drained
    BY <1>8, Zenon DEF Drained
  <1>9. CASE HandleChild
    BY <1>9, Zenon DEF HandleChild
  <1>10. CASE Exit
    BY <1>10, Zenon DEF Exit
  <1>11. CASE SkipHangup
    BY <1>11, Zenon DEF SkipHangup
  <1>12. CASE StartRead
    BY <1>12, Zenon DEF StartRead
  <1>13. CASE StartWrite
    BY <1>13, Zenon DEF StartWrite
  <1>14. CASE Reregister
    BY <1>14, Zenon DEF Reregister, needs_write
  <1>15. CASE TakeLease
    BY <1>15, Zenon DEF TakeLease
  <1>16. CASE \E n \in 1..(READ_BUFFER_SIZE - unprocessed) : ReadSome(n)
    BY <1>16, Zenon DEF ReadSome
  <1>17. CASE ReadBlocks
    BY <1>17, Zenon DEF ReadBlocks
  <1>18. CASE ReadEIO
    BY <1>18, Zenon DEF ReadEIO, LeaveRead
  <1>19. CASE ReadError
    BY <1>19, Zenon DEF ReadError, LeaveRead
  <1>20. CASE TryLock
    BY <1>20, Zenon DEF TryLock
  <1>21. CASE ForceLock
    BY <1>21, Zenon DEF ForceLock
  <1>22. CASE \E held \in 0..unprocessed : Parse(held)
    BY <1>22, Zenon DEF Parse
  <1>23. CASE ReadEnd
    BY <1>23, Zenon DEF ReadEnd, LeaveRead
  <1>24. CASE \E n \in 1..MsgLen : WriteSome(n)
    BY <1>24, Zenon DEF WriteSome
  <1>25. CASE WriteBlocks
    BY <1>25, Zenon DEF WriteBlocks
  <1>26. CASE WriteError
    BY <1>26, Zenon DEF WriteError
  <1>27. CASE SendInput
    BY <1>27, Zenon DEF SendInput, Send
  <1>28. CASE SendResize
    BY <1>28, Zenon DEF SendResize, Send
  <1>29. CASE SendShutdown
    BY <1>29, Zenon DEF SendShutdown, Send
  <1>30. CASE Notify
    BY <1>30, Zenon DEF Notify
  <1>31. CASE UiNext
    BY <1>31, Zenon DEF UiNext
  <1>32. CASE UiData
    BY <1>32, Zenon DEF UiData
  <1>33. CASE UiUnlock
    BY <1>33, Zenon DEF UiUnlock
  <1>34. CASE ChildWrites
    BY <1>34, Zenon DEF ChildWrites
  <1>35. CASE ChildReads
    BY <1>35, Zenon DEF ChildReads
  <1>36. CASE ChildExits
    BY <1>36, Zenon DEF ChildExits
  <1>37. CASE OtherChildExits
    BY <1>37, Zenon DEF OtherChildExits
  <1>38. CASE TimePasses
    BY <1>38, Zenon DEF TimePasses
  <1>39. CASE UNCHANGED vars
    BY <1>39, Zenon DEF vars
  <1>40. QED
    BY <1>1, <1>2, <1>3, <1>4, <1>5, <1>6, <1>7, <1>8, <1>9, <1>10, <1>11, <1>12, <1>13,
       <1>14, <1>15, <1>16, <1>17, <1>18, <1>19, <1>20, <1>21, <1>22, <1>23, <1>24, <1>25,
       <1>26, <1>27, <1>28, <1>29, <1>30, <1>31, <1>32, <1>33, <1>34, <1>35, <1>36, <1>37,
       <1>38, <1>39
    DEF Next, PtyStep, UiStep, Environment

(* Together: Locks is inductive. *)
LEMMA StepLocks ==
  ASSUME Locks, [Next]_vars
  PROVE  Locks'
  BY StepOwners, StepTyped, StepType, StepCounters, StepFlags DEF Locks

(* The locks, the counters and the types of the loop for every value of the
   constants. *)
THEOREM LocksInv == Spec => []Locks
  BY InitLocks, StepLocks, PTL DEF Spec

(* EventLoopInv always holds: pty_read never reads into a full buffer, and no
   path out of it, stop_sync or exit keeps a lock. *)
THEOREM EventLoopSafe == Spec => []EventLoopInv
  <1>1. Locks => EventLoopInv
    BY EventLoopAssumption
    DEF Locks, PtyOwns, Counters, Reading, EventLoopInv, TypeOK, GuardsDropped, ReadsIntoRoom
  <1>2. QED BY <1>1, LocksInv, PTL
-------------------------------------------------------------------------------
(* A message in the channel is seen: from the moment the loop may go to sleep
   until it has drained the channel. *)
NoLost == pc \notin {"woken", "drain", "done"} /\ rx # <<>> => notified \/ notify

(* Each step keeps a message announced, whoever takes it. *)
LEMMA StepNoLost ==
  ASSUME Locks, NoLost, [Next]_vars
  PROVE  NoLost'
  <1> USE DEF NoLost, loop, read, parser, uivars, shared, kernel, locks
  <1>1. CASE Wait
    BY <1>1 DEF Wait
  <1>2. CASE PollError
    BY <1>2 DEF PollError
  <1>3. CASE Woken
    BY <1>3 DEF Woken
  <1>4. CASE LockNext
    BY <1>4 DEF LockNext
  <1>5. CASE LockData
    BY <1>5 DEF LockData
  <1>6. CASE StopSync
    BY <1>6 DEF StopSync
  <1>7. CASE Receive
    BY <1>7 DEF Receive
  <1>8. CASE Drained
    BY <1>8 DEF Drained
  <1>9. CASE HandleChild
    BY <1>9 DEF HandleChild
  <1>10. CASE Exit
    BY <1>10 DEF Exit
  <1>11. CASE SkipHangup
    BY <1>11 DEF SkipHangup
  <1>12. CASE StartRead
    BY <1>12 DEF StartRead
  <1>13. CASE StartWrite
    BY <1>13 DEF StartWrite
  <1>14. CASE Reregister
    BY <1>14 DEF Reregister
  <1>15. CASE TakeLease
    BY <1>15 DEF TakeLease
  <1>16. CASE \E n \in 1..(READ_BUFFER_SIZE - unprocessed) : ReadSome(n)
    BY <1>16 DEF ReadSome
  <1>17. CASE ReadBlocks
    BY <1>17 DEF ReadBlocks
  <1>18. CASE ReadEIO
    BY <1>18 DEF ReadEIO, LeaveRead
  <1>19. CASE ReadError
    BY <1>19 DEF ReadError, LeaveRead
  <1>20. CASE TryLock
    BY <1>20 DEF TryLock
  <1>21. CASE ForceLock
    BY <1>21 DEF ForceLock
  <1>22. CASE \E held \in 0..unprocessed : Parse(held)
    BY <1>22 DEF Parse
  <1>23. CASE ReadEnd
    BY <1>23 DEF ReadEnd, LeaveRead
  <1>24. CASE \E n \in 1..MsgLen : WriteSome(n)
    BY <1>24 DEF WriteSome
  <1>25. CASE WriteBlocks
    BY <1>25 DEF WriteBlocks
  <1>26. CASE WriteError
    BY <1>26 DEF WriteError
  <1>27. CASE SendInput
    BY <1>27 DEF SendInput, Send
  <1>28. CASE SendResize
    BY <1>28 DEF SendResize, Send
  <1>29. CASE SendShutdown
    BY <1>29 DEF SendShutdown, Send
  <1>30. CASE Notify
    BY <1>30 DEF Notify
  <1>31. CASE UiNext
    BY <1>31 DEF UiNext
  <1>32. CASE UiData
    BY <1>32 DEF UiData
  <1>33. CASE UiUnlock
    BY <1>33 DEF UiUnlock
  <1>34. CASE ChildWrites
    BY <1>34 DEF ChildWrites
  <1>35. CASE ChildReads
    BY <1>35 DEF ChildReads
  <1>36. CASE ChildExits
    BY <1>36 DEF ChildExits
  <1>37. CASE OtherChildExits
    BY <1>37 DEF OtherChildExits
  <1>38. CASE TimePasses
    BY <1>38 DEF TimePasses
  <1>39. CASE UNCHANGED vars
    BY <1>39 DEF vars
  <1>40. QED
    BY <1>1, <1>2, <1>3, <1>4, <1>5, <1>6, <1>7, <1>8, <1>9, <1>10, <1>11, <1>12, <1>13,
       <1>14, <1>15, <1>16, <1>17, <1>18, <1>19, <1>20, <1>21, <1>22, <1>23, <1>24, <1>25,
       <1>26, <1>27, <1>28, <1>29, <1>30, <1>31, <1>32, <1>33, <1>34, <1>35, <1>36, <1>37,
       <1>38, <1>39
    DEF Next, PtyStep, UiStep, Environment

(* NoLostWakeup always holds: however sending, notifying, polling and draining
   interleave, the loop never sleeps on a message. *)
THEOREM NoLostWakeupHolds == Spec => []NoLostWakeup
  <1>1. Init => NoLost BY DEF Init, NoLost
  <1>2. NoLost => NoLostWakeup BY DEF NoLost, NoLostWakeup
  <1>3. QED BY <1>1, <1>2, StepNoLost, LocksInv, PTL DEF Spec
-------------------------------------------------------------------------------
(* From one registration to the next the interest is what it was set to. *)
Interest == pc \in {"poll", "woken", "stop_sync"} => interest = needs_write

(* Each step that changes what is left to write comes before a registration. *)
LEMMA StepInterest ==
  ASSUME Locks, Interest, [Next]_vars
  PROVE  Interest'
  <1> USE DEF Interest, needs_write, Locks, TypeOK, PtyOwns, Reading,
              loop, read, parser, uivars, shared, kernel, locks
  <1>1. CASE Wait
    BY <1>1 DEF Wait
  <1>2. CASE PollError
    BY <1>2 DEF PollError
  <1>3. CASE Woken
    BY <1>3 DEF Woken
  <1>4. CASE LockNext
    BY <1>4 DEF LockNext
  <1>5. CASE LockData
    BY <1>5 DEF LockData
  <1>6. CASE StopSync
    BY <1>6 DEF StopSync
  <1>7. CASE Receive
    BY <1>7 DEF Receive
  <1>8. CASE Drained
    BY <1>8 DEF Drained
  <1>9. CASE HandleChild
    BY <1>9 DEF HandleChild
  <1>10. CASE Exit
    BY <1>10 DEF Exit
  <1>11. CASE SkipHangup
    BY <1>11 DEF SkipHangup
  <1>12. CASE StartRead
    BY <1>12 DEF StartRead
  <1>13. CASE StartWrite
    BY <1>13 DEF StartWrite
  <1>14. CASE Reregister
    BY <1>14 DEF Reregister
  <1>15. CASE TakeLease
    BY <1>15 DEF TakeLease
  <1>16. CASE \E n \in 1..(READ_BUFFER_SIZE - unprocessed) : ReadSome(n)
    BY <1>16 DEF ReadSome
  <1>17. CASE ReadBlocks
    BY <1>17 DEF ReadBlocks
  <1>18. CASE ReadEIO
    BY <1>18 DEF ReadEIO, LeaveRead
  <1>19. CASE ReadError
    BY <1>19 DEF ReadError, LeaveRead
  <1>20. CASE TryLock
    BY <1>20 DEF TryLock
  <1>21. CASE ForceLock
    BY <1>21 DEF ForceLock
  <1>22. CASE \E held \in 0..unprocessed : Parse(held)
    BY <1>22 DEF Parse
  <1>23. CASE ReadEnd
    BY <1>23 DEF ReadEnd, LeaveRead
  <1>24. CASE \E n \in 1..MsgLen : WriteSome(n)
    BY <1>24 DEF WriteSome
  <1>25. CASE WriteBlocks
    BY <1>25 DEF WriteBlocks
  <1>26. CASE WriteError
    BY <1>26 DEF WriteError
  <1>27. CASE SendInput
    BY <1>27 DEF SendInput, Send
  <1>28. CASE SendResize
    BY <1>28 DEF SendResize, Send
  <1>29. CASE SendShutdown
    BY <1>29 DEF SendShutdown, Send
  <1>30. CASE Notify
    BY <1>30 DEF Notify
  <1>31. CASE UiNext
    BY <1>31 DEF UiNext
  <1>32. CASE UiData
    BY <1>32 DEF UiData
  <1>33. CASE UiUnlock
    BY <1>33 DEF UiUnlock
  <1>34. CASE ChildWrites
    BY <1>34 DEF ChildWrites
  <1>35. CASE ChildReads
    BY <1>35 DEF ChildReads
  <1>36. CASE ChildExits
    BY <1>36 DEF ChildExits
  <1>37. CASE OtherChildExits
    BY <1>37 DEF OtherChildExits
  <1>38. CASE TimePasses
    BY <1>38 DEF TimePasses
  <1>39. CASE UNCHANGED vars
    BY <1>39 DEF vars
  <1>40. QED
    BY <1>1, <1>2, <1>3, <1>4, <1>5, <1>6, <1>7, <1>8, <1>9, <1>10, <1>11, <1>12, <1>13,
       <1>14, <1>15, <1>16, <1>17, <1>18, <1>19, <1>20, <1>21, <1>22, <1>23, <1>24, <1>25,
       <1>26, <1>27, <1>28, <1>29, <1>30, <1>31, <1>32, <1>33, <1>34, <1>35, <1>36, <1>37,
       <1>38, <1>39
    DEF Next, PtyStep, UiStep, Environment

(* WriteInterest always holds: every path back to the poll registers for
   writability if and only if bytes are left to be written. *)
THEOREM WriteInterestHolds == Spec => []WriteInterest
  <1>1. Init => Interest BY DEF Init, Interest, needs_write
  <1>2. Interest => WriteInterest BY DEF Interest, WriteInterest
  <1>3. QED BY <1>1, <1>2, StepInterest, LocksInv, PTL DEF Spec
-------------------------------------------------------------------------------
(* A change to the terminal has been announced, is being drawn, or will be
   announced at the end of the running pty_read: part of what that one has
   parsed was not held back. *)
Announced ==
  /\ after_read = "exit" => ~alive
  /\ pc = "exit" => ~alive
  /\ ui = "idle" => ~drawing
  /\ pc \notin Reading \union {"failed", "done"} /\ alive /\ stale => wakeup \/ drawing
  /\ pc \in Reading /\ alive /\ stale =>
       wakeup \/ drawing \/ (processed > 0 /\ sync_bytes < processed)

(* Each step announces a change, or leaves it to the end of pty_read. *)
LEMMA StepAnnounced ==
  ASSUME Locks, Announced, [Next]_vars
  PROVE  Announced'
  <1> USE EventLoopAssumption
          DEF Announced, Locks, TypeOK, Flags, Counters, Reading, loop, read, parser, uivars,
              shared, kernel, locks
  <1>1. CASE Wait
    BY <1>1 DEF Wait
  <1>2. CASE PollError
    BY <1>2 DEF PollError
  <1>3. CASE Woken
    BY <1>3 DEF Woken
  <1>4. CASE LockNext
    BY <1>4 DEF LockNext
  <1>5. CASE LockData
    BY <1>5 DEF LockData
  <1>6. CASE StopSync
    BY <1>6 DEF StopSync
  <1>7. CASE Receive
    BY <1>7 DEF Receive
  <1>8. CASE Drained
    BY <1>8 DEF Drained
  <1>9. CASE HandleChild
    BY <1>9 DEF HandleChild
  <1>10. CASE Exit
    BY <1>10 DEF Exit
  <1>11. CASE SkipHangup
    BY <1>11 DEF SkipHangup
  <1>12. CASE StartRead
    BY <1>12 DEF StartRead
  <1>13. CASE StartWrite
    BY <1>13 DEF StartWrite
  <1>14. CASE Reregister
    BY <1>14 DEF Reregister
  <1>15. CASE TakeLease
    BY <1>15 DEF TakeLease
  <1>16. CASE \E n \in 1..(READ_BUFFER_SIZE - unprocessed) : ReadSome(n)
    BY <1>16 DEF ReadSome
  <1>17. CASE ReadBlocks
    BY <1>17 DEF ReadBlocks
  <1>18. CASE ReadEIO
    BY <1>18 DEF ReadEIO, LeaveRead
  <1>19. CASE ReadError
    BY <1>19 DEF ReadError, LeaveRead
  <1>20. CASE TryLock
    BY <1>20 DEF TryLock
  <1>21. CASE ForceLock
    BY <1>21 DEF ForceLock
  <1>22. CASE \E held \in 0..unprocessed : Parse(held)
    BY <1>22 DEF Parse
  <1>23. CASE ReadEnd
    BY <1>23 DEF ReadEnd, LeaveRead
  <1>24. CASE \E n \in 1..MsgLen : WriteSome(n)
    BY <1>24 DEF WriteSome
  <1>25. CASE WriteBlocks
    BY <1>25 DEF WriteBlocks
  <1>26. CASE WriteError
    BY <1>26 DEF WriteError
  <1>27. CASE SendInput
    BY <1>27 DEF SendInput, Send
  <1>28. CASE SendResize
    BY <1>28 DEF SendResize, Send
  <1>29. CASE SendShutdown
    BY <1>29 DEF SendShutdown, Send
  <1>30. CASE Notify
    BY <1>30 DEF Notify
  <1>31. CASE UiNext
    BY <1>31 DEF UiNext
  <1>32. CASE UiData
    BY <1>32 DEF UiData
  <1>33. CASE UiUnlock
    BY <1>33 DEF UiUnlock
  <1>34. CASE ChildWrites
    BY <1>34 DEF ChildWrites
  <1>35. CASE ChildReads
    BY <1>35 DEF ChildReads
  <1>36. CASE ChildExits
    BY <1>36 DEF ChildExits
  <1>37. CASE OtherChildExits
    BY <1>37 DEF OtherChildExits
  <1>38. CASE TimePasses
    BY <1>38 DEF TimePasses
  <1>39. CASE UNCHANGED vars
    BY <1>39 DEF vars
  <1>40. QED
    BY <1>1, <1>2, <1>3, <1>4, <1>5, <1>6, <1>7, <1>8, <1>9, <1>10, <1>11, <1>12, <1>13,
       <1>14, <1>15, <1>16, <1>17, <1>18, <1>19, <1>20, <1>21, <1>22, <1>23, <1>24, <1>25,
       <1>26, <1>27, <1>28, <1>29, <1>30, <1>31, <1>32, <1>33, <1>34, <1>35, <1>36, <1>37,
       <1>38, <1>39
    DEF Next, PtyStep, UiStep, Environment

(* NoSilentChange always holds: however reads mix with synchronized updates,
   what changed has been announced by the time the loop sleeps. *)
THEOREM NoSilentChangeHolds == Spec => []NoSilentChange
  <1>1. Init => Announced BY DEF Init, Announced, Reading
  <1>2. Announced => NoSilentChange BY DEF Announced, NoSilentChange, Reading
  <1>3. QED BY <1>1, <1>2, StepAnnounced, LocksInv, PTL DEF Spec
-------------------------------------------------------------------------------
(* InputConserved is inductive given the types. *)

(* The bytes of one of n messages are among the first n * MsgLen. *)
LEMMA Position ==
  ASSUME NEW n \in Nat, NEW m \in 1..n, NEW k \in 1..MsgLen
  PROVE  (m - 1) * MsgLen + k \in 1..(n * MsgLen)
  <1>1. PICK d \in Nat : n = m + d
    <2>1. n - m \in Nat /\ n = m + (n - m) OBVIOUS
    <2>2. QED BY <2>1
  <1>2. n * MsgLen = (m - 1) * MsgLen + MsgLen + d * MsgLen
    BY <1>1, EventLoopAssumption
  <1>3. (m - 1) * MsgLen \in Nat /\ d * MsgLen \in Nat
    BY EventLoopAssumption
  <1>4. QED BY <1>2, <1>3, EventLoopAssumption

(* Cutting the message in progress in two changes nothing. *)
LEMMA Rejoined ==
  ASSUME NEW s \in Seq(ByteType), NEW t \in Seq(ByteType), NEW n \in 1..Len(t)
  PROVE  (s \o SubSeq(t, 1, n)) \o SubSeq(t, n + 1, Len(t)) = s \o t
  <1> DEFINE u == SubSeq(t, 1, n)
             v == SubSeq(t, n + 1, Len(t))
  <1>1. u \in Seq(ByteType) /\ v \in Seq(ByteType)
    OBVIOUS
  <1>2. u \o v = t
    <2>1. u \o v = SubSeq(t, 1, Len(t))
      BY ConcatAdjacentSubSeq
    <2>2. QED BY <2>1, SubSeqFull
  <1>3. (s \o u) \o v = s \o (u \o v)
    <2> HIDE DEF u, v
    <2>1. QED BY <1>1, ConcatAssociative
  <1>4. QED BY <1>2, <1>3

(* The next message begins behind the ones before it. *)
LEMMA BeginNext ==
  ASSUME NEW n \in Nat, NEW s \in Seq(ByteType), Len(s) = n * MsgLen,
         \A m \in 1..n, k \in 1..MsgLen : s[(m - 1) * MsgLen + k] = <<m, k>>
  PROVE  /\ Len(s \o Bytes(n + 1)) = (n + 1) * MsgLen
         /\ \A m \in 1..(n + 1), k \in 1..MsgLen :
              (s \o Bytes(n + 1))[(m - 1) * MsgLen + k] = <<m, k>>
  <1>1. Bytes(n + 1) \in Seq(ByteType) /\ Len(Bytes(n + 1)) = MsgLen
    BY BytesType
  <1>2. Len(s \o Bytes(n + 1)) = (n + 1) * MsgLen
    <2>1. (n + 1) * MsgLen = n * MsgLen + MsgLen /\ n * MsgLen \in Nat
      BY EventLoopAssumption
    <2>2. Len(s \o Bytes(n + 1)) = Len(s) + MsgLen BY <1>1, ConcatProperties
    <2>3. QED BY <2>1, <2>2
  <1>3. ASSUME NEW m \in 1..n, NEW k \in 1..MsgLen
        PROVE  (s \o Bytes(n + 1))[(m - 1) * MsgLen + k] = <<m, k>>
    <2>1. (m - 1) * MsgLen + k \in 1..Len(s) BY Position
    <2> DEFINE p == (m - 1) * MsgLen + k
    <2>2. p \in 1..Len(s) => (s \o Bytes(n + 1))[p] = s[p]
      <3> HIDE DEF p
      <3>1. QED BY <1>1, ConcatProperties
    <2>3. QED BY <2>1, <2>2
  <1>4. ASSUME NEW k \in 1..MsgLen
        PROVE  (s \o Bytes(n + 1))[n * MsgLen + k] = <<n + 1, k>>
    <2>1. Bytes(n + 1)[k] = <<n + 1, k>> BY DEF Bytes
    <2> DEFINE l == n * MsgLen
    <2>2. l \in Nat BY EventLoopAssumption
    <2>3. Len(s) = l => (s \o Bytes(n + 1))[l + k] = Bytes(n + 1)[k]
      <3> HIDE DEF l
      <3>1. QED BY <1>1, <2>2, EventLoopAssumption
    <2>4. QED BY <2>1, <2>3
  <1>5. QED
    <2>1. \A m \in 1..(n + 1) : m \in 1..n \/ (m = n + 1 /\ m - 1 = n) OBVIOUS
    <2>2. QED BY <1>2, <1>3, <1>4, <2>1

(* Waiting, of any channel, element by element. *)
Holds(q, n, last) ==
  /\ \A i \in 1..Len(q) : q[i].type = "Input" => q[i].id \in (n + 1)..last
  /\ \A m \in (n + 1)..last : \E i \in 1..Len(q) : q[i] = Input(m)
  /\ \A i, j \in 1..Len(q) :
       i < j /\ q[i].type = "Input" /\ q[j].type = "Input" => q[i].id < q[j].id

(* A message is an input, or one of the other two. *)
LEMMA MessageKinds ==
  ASSUME NEW x \in Message
  PROVE  \/ x.type = "Input" /\ x.id \in Nat /\ x = Input(x.id) /\ x \notin {Resize, Shutdown}
         \/ x.type # "Input" /\ x \in {Resize, Shutdown}
  BY DEF Message, Input, Resize, Shutdown

(* An input is no other message. *)
LEMMA InputKind ==
  ASSUME NEW m \in Nat
  PROVE  Input(m) \in Message /\ Input(m).type = "Input" /\ Input(m).id = m
         /\ Input(m) \notin {Resize, Shutdown}
  BY DEF Message, Input, Resize, Shutdown

(* The two ways of saying it agree. *)
LEMMA WaitingHolds ==
  ASSUME NEW n \in Nat, sent \in Nat, rx \in Seq(Message)
  PROVE  Waiting(n) <=> Holds(rx, n, sent)
  <1>1. DOMAIN rx = 1..Len(rx) /\ \A i \in 1..Len(rx) : rx[i] \in Message
    OBVIOUS
  <1>2. \A m \in (n + 1)..sent : m \in Nat OBVIOUS
  <1>3. ASSUME Waiting(n) PROVE Holds(rx, n, sent)
    <2>1. ASSUME NEW i \in 1..Len(rx), rx[i].type = "Input" PROVE rx[i].id \in (n + 1)..sent
      <3>1. rx[i] \notin {Resize, Shutdown} BY <1>1, <2>1, MessageKinds
      <3>2. rx[i] \in {Input(m) : m \in (n + 1)..sent} BY <1>1, <1>3, <3>1 DEF Waiting
      <3>3. PICK m \in (n + 1)..sent : rx[i] = Input(m) BY <3>2
      <3>4. QED BY <1>2, <3>3, InputKind
    <2>2. ASSUME NEW m \in (n + 1)..sent PROVE \E i \in 1..Len(rx) : rx[i] = Input(m)
      <3>1. Input(m) \in {rx[i] : i \in DOMAIN rx} BY <1>3 DEF Waiting
      <3>2. QED BY <1>1, <3>1
    <2>3. QED BY <1>1, <1>3, <2>1, <2>2 DEF Waiting, Holds
  <1>4. ASSUME Holds(rx, n, sent) PROVE Waiting(n)
    <2>1. ASSUME NEW i \in 1..Len(rx), rx[i] \notin {Resize, Shutdown}
          PROVE  rx[i] \in {Input(m) : m \in (n + 1)..sent}
      <3>1. rx[i].type = "Input" /\ rx[i] = Input(rx[i].id) BY <1>1, <2>1, MessageKinds
      <3>2. QED BY <1>4, <3>1 DEF Holds
    <2>2. ASSUME NEW m \in (n + 1)..sent
          PROVE  Input(m) \in {rx[i] : i \in DOMAIN rx} \ {Resize, Shutdown}
      <3>1. Input(m) \notin {Resize, Shutdown} BY <1>2, InputKind
      <3>2. QED BY <1>1, <1>4, <3>1 DEF Holds
    <2>3. {rx[i] : i \in DOMAIN rx} \ {Resize, Shutdown} = {Input(m) : m \in (n + 1)..sent}
      BY <1>1, <2>1, <2>2
    <2>4. QED BY <1>1, <1>4, <2>3 DEF Waiting, Holds
  <1>5. QED BY <1>3, <1>4

(* The first input in the channel is the next one. *)
LEMMA TailHolds ==
  ASSUME NEW n \in Nat, NEW last \in Nat, NEW q \in Seq(Message), q # <<>>, Holds(q, n, last)
  PROVE  IF Head(q).type = "Input"
           THEN Head(q).id = n + 1 /\ n + 1 <= last /\ Holds(Tail(q), n + 1, last)
           ELSE Holds(Tail(q), n, last)
  <1>1. /\ Head(q) = q[1] /\ 1 \in 1..Len(q) /\ Len(Tail(q)) = Len(q) - 1
        /\ \A i \in 1..Len(Tail(q)) : Tail(q)[i] = q[i + 1] /\ i + 1 \in 1..Len(q)
    BY HeadTailProperties
  <1>2. \A i \in 1..Len(q) : i = 1 \/ (i - 1 \in 1..Len(Tail(q)) /\ q[i] = Tail(q)[i - 1])
    BY <1>1
  <1>3. \A i, j \in 1..Len(Tail(q)) :
          i < j /\ Tail(q)[i].type = "Input" /\ Tail(q)[j].type = "Input"
          => Tail(q)[i].id < Tail(q)[j].id
    BY <1>1 DEF Holds
  <1>4. CASE Head(q).type = "Input"
    <2>1. q[1].id \in (n + 1)..last BY <1>1, <1>4 DEF Holds
    <2>2. \A i \in 1..Len(q) : i # 1 /\ q[i].type = "Input" => q[i].id > q[1].id
      BY <1>1, <1>4 DEF Holds
    <2>3. q[1].id = n + 1
      <3>1. PICK i \in 1..Len(q) : q[i] = Input(n + 1) BY <2>1 DEF Holds
      <3>2. q[i].type = "Input" /\ q[i].id = n + 1 BY <3>1, InputKind
      <3>3. QED BY <2>1, <2>2, <3>2
    <2>4. \A i \in 1..Len(Tail(q)) :
            Tail(q)[i].type = "Input" => Tail(q)[i].id \in (n + 1 + 1)..last
      <3>1. SUFFICES ASSUME NEW i \in 1..Len(Tail(q)), Tail(q)[i].type = "Input"
                     PROVE  Tail(q)[i].id \in (n + 1 + 1)..last
        OBVIOUS
      <3>2. q[i + 1].type = "Input" /\ i + 1 \in 1..Len(q) /\ i + 1 # 1 BY <1>1, <3>1
      <3>3. q[i + 1].id \in (n + 1)..last /\ q[i + 1].id > n + 1 BY <2>2, <2>3, <3>2 DEF Holds
      <3>4. QED BY <1>1, <3>3
    <2>5. \A m \in (n + 1 + 1)..last : \E i \in 1..Len(Tail(q)) : Tail(q)[i] = Input(m)
      <3>1. SUFFICES ASSUME NEW m \in (n + 1 + 1)..last
                     PROVE  \E i \in 1..Len(Tail(q)) : Tail(q)[i] = Input(m)
        OBVIOUS
      <3>2. PICK i \in 1..Len(q) : q[i] = Input(m) BY DEF Holds
      <3>3. q[i].id = m BY <3>2, InputKind
      <3>4. i # 1 BY <2>3, <3>3
      <3>5. QED BY <1>2, <3>2, <3>4
    <2>6. QED BY <1>1, <1>3, <1>4, <2>1, <2>3, <2>4, <2>5 DEF Holds
  <1>5. CASE Head(q).type # "Input"
    <2>1. \A i \in 1..Len(Tail(q)) : Tail(q)[i].type = "Input" => Tail(q)[i].id \in (n + 1)..last
      BY <1>1 DEF Holds
    <2>2. \A m \in (n + 1)..last : \E i \in 1..Len(Tail(q)) : Tail(q)[i] = Input(m)
      <3>1. SUFFICES ASSUME NEW m \in (n + 1)..last
                     PROVE  \E i \in 1..Len(Tail(q)) : Tail(q)[i] = Input(m)
        OBVIOUS
      <3>2. PICK i \in 1..Len(q) : q[i] = Input(m) BY DEF Holds
      <3>3. q[i].type = "Input" BY <3>2, InputKind
      <3>4. i # 1 BY <1>1, <1>5, <3>3
      <3>5. QED BY <1>2, <3>2, <3>4
    <2>3. QED BY <1>3, <1>5, <2>1, <2>2 DEF Holds
  <1>6. QED BY <1>4, <1>5

(* Sending the next input, or another message, to the channel. *)
LEMMA AppendHolds ==
  ASSUME NEW n \in Nat, NEW last \in Nat, n <= last, NEW q \in Seq(Message), Holds(q, n, last),
         NEW x \in Message
  PROVE  IF x.type = "Input"
           THEN x = Input(last + 1) => Holds(Append(q, x), n, last + 1)
           ELSE Holds(Append(q, x), n, last)
  <1> DEFINE a == Append(q, x)
  <1>1. /\ Len(a) = Len(q) + 1 /\ a[Len(q) + 1] = x
        /\ \A i \in 1..Len(q) : a[i] = q[i] /\ i \in 1..Len(a)
    OBVIOUS
  <1>2. \A i \in 1..Len(a) : i \in 1..Len(q) \/ i = Len(q) + 1 BY <1>1
  <1> HIDE DEF a
  <1>3. CASE x.type = "Input" /\ x = Input(last + 1)
    <2>1. x.id = last + 1 BY <1>3, InputKind
    <2>2. \A i \in 1..Len(a) : a[i].type = "Input" => a[i].id \in (n + 1)..(last + 1)
      BY <1>1, <1>2, <2>1 DEF Holds
    <2>3. \A m \in (n + 1)..(last + 1) : \E i \in 1..Len(a) : a[i] = Input(m)
      <3>1. SUFFICES ASSUME NEW m \in (n + 1)..(last + 1) PROVE \E i \in 1..Len(a) : a[i] = Input(m)
        OBVIOUS
      <3>2. CASE m = last + 1 BY <1>1, <1>3, <3>2
      <3>3. CASE m \in (n + 1)..last BY <1>1, <3>3 DEF Holds
      <3>4. QED BY <3>2, <3>3
    <2>4. \A i, j \in 1..Len(a) :
            i < j /\ a[i].type = "Input" /\ a[j].type = "Input" => a[i].id < a[j].id
      <3>1. SUFFICES ASSUME NEW i \in 1..Len(a), NEW j \in 1..Len(a),
                            i < j, a[i].type = "Input", a[j].type = "Input"
                     PROVE  a[i].id < a[j].id
        OBVIOUS
      <3>2. i \in 1..Len(q) BY <1>1, <3>1
      <3>3. CASE j \in 1..Len(q) BY <1>1, <3>1, <3>2, <3>3 DEF Holds
      <3>4. CASE j = Len(q) + 1
        <4>1. a[i].id \in (n + 1)..last BY <1>1, <3>1, <3>2 DEF Holds
        <4>2. QED BY <1>1, <2>1, <3>4, <4>1
      <3>5. QED BY <1>2, <3>3, <3>4
    <2>5. Holds(a, n, last + 1) BY <2>2, <2>3, <2>4 DEF Holds
    <2>6. QED BY <1>3, <2>5 DEF a
  <1>4. CASE x.type # "Input"
    <2>1. \A i \in 1..Len(a) : a[i].type = "Input" => i \in 1..Len(q) /\ a[i] = q[i]
      BY <1>1, <1>2, <1>4
    <2>2. \A m \in (n + 1)..last : \E i \in 1..Len(a) : a[i] = Input(m) BY <1>1 DEF Holds
    <2>3. Holds(a, n, last) BY <2>1, <2>2 DEF Holds
    <2>4. QED BY <1>4, <2>3 DEF a
  <1>5. QED BY <1>3, <1>4

(* A list is known by its elements. *)
LEMMA Counted ==
  ASSUME NEW b \in Nat, NEW list \in Seq(Nat), \A i \in 1..Len(list) : list[i] = b + i
  PROVE  list = [i \in 1..Len(list) |-> b + i]
  <1> DEFINE t == [i \in 1..Len(list) |-> b + i]
  <1>1. t \in Seq(Nat) /\ Len(t) = Len(list) /\ \A i \in 1..Len(list) : t[i] = b + i
    OBVIOUS
  <1> HIDE DEF t
  <1>2. list = t BY <1>1, SeqEqual
  <1>3. QED BY <1>2 DEF t

(* InputConserved with b messages begun: `bytes` are written or being written,
   `list` is the write list, q the channel and s messages were sent. *)
Accounted(b, q, list, bytes, s) ==
  /\ b + Len(list) <= s
  /\ list = [i \in 1..Len(list) |-> b + i]
  /\ Len(bytes) = b * MsgLen
  /\ \A m \in 1..b, k \in 1..MsgLen : bytes[(m - 1) * MsgLen + k] = <<m, k>>
  /\ Holds(q, b + Len(list), s)

AllAccounted == \E b \in 0..sent : Accounted(b, rx, write_list, written \o writing, sent)

(* InputConserved, said with Accounted. *)
LEMMA Account == Typed => (InputConserved <=> AllAccounted)
  <1> SUFFICES ASSUME Typed PROVE InputConserved <=> AllAccounted
    OBVIOUS
  <1>1. \A b \in 0..sent : b + Len(write_list) \in Nat
    BY DEF Typed
  <1>2. \A b \in 0..sent :
          Waiting(b + Len(write_list)) <=> Holds(rx, b + Len(write_list), sent)
    BY <1>1, WaitingHolds DEF Typed
  <1>3. QED BY <1>2 DEF InputConserved, AllAccounted, Accounted, Begun

(* The loop begins with the next message of the write list. *)
LEMMA TakeAccounted ==
  ASSUME NEW b \in Nat, NEW q, NEW list \in Seq(Nat), NEW bytes \in Seq(ByteType), NEW s \in Nat,
         Accounted(b, q, list, bytes, s), list # <<>>
  PROVE  b + 1 <= s /\ Accounted(b + 1, q, Tail(list), bytes \o Bytes(Head(list)), s)
  <1>1. Len(list) \in Nat \ {0} BY EmptySeq
  <1>2. \A i \in 1..Len(list) : list[i] = b + i BY DEF Accounted
  <1>3. Head(list) = b + 1 BY <1>1, <1>2
  <1>4. /\ Tail(list) \in Seq(Nat) /\ Len(Tail(list)) = Len(list) - 1
        /\ \A i \in 1..Len(Tail(list)) : Tail(list)[i] = list[i + 1]
    BY HeadTailProperties
  <1>5. \A i \in 1..Len(Tail(list)) : Tail(list)[i] = b + 1 + i BY <1>1, <1>2, <1>4
  <1>6. Tail(list) = [i \in 1..Len(Tail(list)) |-> b + 1 + i]
    <2> DEFINE rest == Tail(list)
               c    == b + 1
    <2>1. rest \in Seq(Nat) /\ c \in Nat /\ \A i \in 1..Len(rest) : rest[i] = c + i BY <1>4, <1>5
    <2>2. rest = [i \in 1..Len(rest) |-> c + i]
      <3> HIDE DEF rest, c
      <3>1. QED BY <2>1, Counted
    <2>3. QED BY <2>2
  <1>7. b + 1 + Len(Tail(list)) = b + Len(list) BY <1>1, <1>4
  <1>8. /\ Len(bytes \o Bytes(b + 1)) = (b + 1) * MsgLen
        /\ \A m \in 1..(b + 1), k \in 1..MsgLen :
             (bytes \o Bytes(b + 1))[(m - 1) * MsgLen + k] = <<m, k>>
    BY BeginNext DEF Accounted
  <1>9. b + 1 <= s BY <1>1 DEF Accounted
  <1>10. b + 1 + Len(Tail(list)) <= s /\ Holds(q, b + 1 + Len(Tail(list)), s)
    BY <1>7 DEF Accounted
  <1>11. QED BY <1>3, <1>6, <1>8, <1>9, <1>10 DEF Accounted

(* One message is taken from the channel. *)
LEMMA ReceiveAccounted ==
  ASSUME NEW b \in Nat, NEW q \in Seq(Message), NEW list \in Seq(Nat), NEW bytes, NEW s \in Nat,
         Accounted(b, q, list, bytes, s), q # <<>>
  PROVE  IF Head(q).type = "Input" THEN Accounted(b, Tail(q), Append(list, Head(q).id), bytes, s)
                                   ELSE Accounted(b, Tail(q), list, bytes, s)
  <1>1. Holds(q, b + Len(list), s) /\ b + Len(list) \in Nat BY DEF Accounted
  <1>2. CASE Head(q).type = "Input"
    <2> DEFINE more == Append(list, Head(q).id)
    <2>1. /\ Head(q).id = b + Len(list) + 1 /\ b + Len(list) + 1 <= s
          /\ Holds(Tail(q), b + Len(list) + 1, s)
      BY <1>1, <1>2, TailHolds
    <2>2. /\ more \in Seq(Nat) /\ Len(more) = Len(list) + 1
          /\ more[Len(list) + 1] = b + Len(list) + 1
          /\ \A i \in 1..Len(list) : more[i] = list[i]
      BY <2>1
    <2>3. \A i \in 1..Len(list) : list[i] = b + i BY DEF Accounted
    <2> HIDE DEF more
    <2>4. \A i \in 1..Len(more) : more[i] = b + i
      <3>1. SUFFICES ASSUME NEW i \in 1..Len(more) PROVE more[i] = b + i OBVIOUS
      <3>2. CASE i \in 1..Len(list) BY <2>2, <2>3, <3>2
      <3>3. CASE i = Len(list) + 1
        <4>1. b + i = b + Len(list) + 1 BY <3>3
        <4>2. QED BY <2>2, <3>3, <4>1
      <3>4. QED BY <2>2, <3>2, <3>3
    <2>5. more = [i \in 1..Len(more) |-> b + i] BY <2>2, <2>4, Counted
    <2>6. b + Len(more) = b + Len(list) + 1 BY <2>2
    <2>7. Accounted(b, Tail(q), more, bytes, s) BY <2>1, <2>5, <2>6 DEF Accounted
    <2>8. QED BY <1>2, <2>7 DEF more
  <1>3. CASE Head(q).type # "Input"
    <2>1. Holds(Tail(q), b + Len(list), s) BY <1>1, <1>3, TailHolds
    <2>2. QED BY <1>3, <2>1 DEF Accounted
  <1>4. QED BY <1>2, <1>3

(* The part of the state that InputConserved is about. *)
input == <<rx, write_list, writing, written, sent>>

(* The other steps leave that part alone. *)
LEMMA InputSteps ==
  ASSUME [Next]_vars
  PROVE  \/ Receive \/ StartWrite \/ (\E n \in 1..MsgLen : WriteSome(n))
         \/ SendInput \/ SendResize \/ SendShutdown \/ UNCHANGED input
  <1> USE DEF input, loop, read, parser, uivars, shared, kernel, locks
  <1>1. CASE \/ Wait \/ PollError \/ Woken \/ LockNext \/ LockData \/ StopSync
    BY <1>1 DEF Wait, PollError, Woken, LockNext, LockData, StopSync
  <1>2. CASE \/ Drained \/ HandleChild \/ Exit \/ SkipHangup \/ StartRead \/ Reregister
    BY <1>2 DEF Drained, HandleChild, Exit, SkipHangup, StartRead, Reregister
  <1>3. CASE \/ TakeLease \/ (\E n \in 1..(READ_BUFFER_SIZE - unprocessed) : ReadSome(n))
            \/ ReadBlocks \/ ReadEIO \/ ReadError \/ TryLock
    BY <1>3 DEF TakeLease, ReadSome, ReadBlocks, ReadEIO, LeaveRead, ReadError, TryLock
  <1>4. CASE \/ ForceLock \/ (\E held \in 0..unprocessed : Parse(held)) \/ ReadEnd \/ WriteBlocks
            \/ WriteError \/ Notify
    BY <1>4 DEF ForceLock, Parse, ReadEnd, LeaveRead, WriteBlocks, WriteError, Notify
  <1>5. CASE \/ UiNext \/ UiData \/ UiUnlock \/ ChildWrites \/ ChildReads \/ ChildExits
    BY <1>5 DEF UiNext, UiData, UiUnlock, ChildWrites, ChildReads, ChildExits
  <1>6. CASE \/ OtherChildExits \/ TimePasses \/ UNCHANGED vars
    BY <1>6 DEF OtherChildExits, TimePasses, vars
  <1>7. QED
    BY <1>1, <1>2, <1>3, <1>4, <1>5, <1>6
    DEF Next, PtyStep, UiStep, Environment

(* Each step moves bytes on by one place, or leaves them. *)
LEMMA StepConserved ==
  ASSUME Locks, InputConserved, [Next]_vars
  PROVE  InputConserved'
  <1> USE EventLoopAssumption
  <1>1. /\ rx \in Seq(Message) /\ write_list \in Seq(Nat) /\ sent \in Nat
        /\ writing \in Seq(ByteType) /\ written \in Seq(ByteType)
    BY DEF Locks, Typed
  <1>2. PICK b \in 0..sent : Accounted(b, rx, write_list, written \o writing, sent)
    BY Account DEF Locks, AllAccounted
  <1>3. /\ b \in Nat /\ b + Len(write_list) \in Nat /\ b + Len(write_list) <= sent
        /\ Holds(rx, b + Len(write_list), sent)
    BY <1>1, <1>2 DEF Accounted
  <1>4. SUFFICES \E c \in 0..sent' : Accounted(c, rx', write_list', written' \o writing', sent')
    <2>1. Typed' BY StepTyped
    <2>2. Typed' => (InputConserved' <=> AllAccounted') BY Account, PTL
    <2>3. QED BY <2>1, <2>2 DEF AllAccounted
  <1>5. CASE Receive
    <2>1. Accounted(b, rx', write_list', written \o writing, sent)
      BY <1>1, <1>2, <1>5, ReceiveAccounted DEF Receive
    <2>2. UNCHANGED <<written, writing, sent>> BY <1>5 DEF Receive, uivars, kernel
    <2>3. QED BY <2>1, <2>2
  <1>6. CASE StartWrite
    <2>1. UNCHANGED <<rx, written, sent>> BY <1>6 DEF StartWrite, uivars, kernel
    <2>2. CASE writing = <<>> /\ write_list # <<>>
      <3>1. written \o writing = written BY <1>1, <2>2
      <3>2. writing' = Bytes(Head(write_list)) /\ write_list' = Tail(write_list)
        BY <1>6, <2>2 DEF StartWrite
      <3>3. b + 1 <= sent /\ Accounted(b + 1, rx, write_list', written \o writing', sent)
        BY <1>1, <1>2, <2>2, <3>1, <3>2, TakeAccounted
      <3>4. QED BY <1>1, <2>1, <3>3
    <2>3. CASE ~(writing = <<>> /\ write_list # <<>>)
      BY <1>2, <1>6, <2>1, <2>3 DEF StartWrite
    <2>4. QED BY <2>2, <2>3
  <1>7. CASE \E n \in 1..MsgLen : WriteSome(n)
    <2>1. PICK n \in 1..MsgLen : WriteSome(n) BY <1>7
    <2>2. UNCHANGED <<rx, sent>> BY <2>1 DEF WriteSome, uivars
    <2>3. n \in 1..Len(writing) BY <1>1, <2>1 DEF WriteSome
    <2>4. CASE n < Len(writing)
      <3>1. /\ written' = written \o SubSeq(writing, 1, n)
            /\ writing' = SubSeq(writing, n + 1, Len(writing)) /\ write_list' = write_list
        BY <2>1, <2>4 DEF WriteSome
      <3>2. written' \o writing' = written \o writing
        BY <1>1, <2>3, <3>1, Rejoined
      <3>3. QED BY <1>2, <2>2, <3>1, <3>2
    <2>5. CASE n = Len(writing)
      <3>1. written' = written \o writing
        BY <1>1, <2>1, <2>5, SubSeqFull DEF WriteSome
      <3>2. written' \in Seq(ByteType) BY <1>1, <3>1
      <3>3. CASE write_list # <<>>
        <4>1. writing' = Bytes(Head(write_list)) /\ write_list' = Tail(write_list)
          BY <2>1, <2>5, <3>3 DEF WriteSome
        <4>2. Accounted(b, rx, write_list, written', sent) BY <1>2, <3>1
        <4>3. b + 1 <= sent /\ Accounted(b + 1, rx, write_list', written' \o writing', sent)
          BY <1>1, <1>3, <3>2, <3>3, <4>1, <4>2, TakeAccounted
        <4>4. QED BY <1>1, <2>2, <4>3
      <3>4. CASE write_list = <<>>
        <4>1. writing' = <<>> /\ write_list' = write_list BY <2>1, <2>5, <3>4 DEF WriteSome
        <4>2. written' \o writing' = written' BY <3>2, <4>1, ConcatEmptySeq
        <4>3. QED BY <1>2, <2>2, <3>1, <4>1, <4>2
      <3>5. QED BY <3>3, <3>4
    <2>6. QED BY <1>1, <2>3, <2>4, <2>5
  <1>8. CASE SendInput
    <2>1. /\ UNCHANGED <<write_list, writing, written>>
          /\ rx' = Append(rx, Input(sent + 1)) /\ sent' = sent + 1
      BY <1>8 DEF SendInput, Send, kernel
    <2>2. Input(sent + 1) \in Message /\ Input(sent + 1).type = "Input" BY <1>1, InputKind
    <2>3. Holds(rx', b + Len(write_list), sent')
      BY <1>1, <1>3, <2>1, <2>2, AppendHolds
    <2>4. b + Len(write_list) <= sent' /\ b \in 0..sent' BY <1>1, <1>3, <2>1
    <2>5. Accounted(b, rx', write_list', written' \o writing', sent')
      BY <1>2, <2>1, <2>3, <2>4 DEF Accounted
    <2>6. QED BY <2>4, <2>5
  <1>9. CASE SendResize \/ SendShutdown
    <2>1. PICK x \in {Resize, Shutdown} :
            UNCHANGED <<write_list, writing, written, sent>> /\ rx' = Append(rx, x)
      BY <1>9 DEF SendResize, SendShutdown, Send, kernel
    <2>2. x \in Message /\ x.type # "Input" BY DEF Message, Resize, Shutdown
    <2>3. Holds(rx', b + Len(write_list), sent)
      BY <1>1, <1>3, <2>1, <2>2, AppendHolds
    <2>4. QED BY <1>2, <2>1, <2>3 DEF Accounted
  <1>10. CASE UNCHANGED input
    BY <1>2, <1>10 DEF input
  <1>11. QED BY <1>5, <1>6, <1>7, <1>8, <1>9, <1>10, InputSteps

(* InputConserved always holds: whatever the sizes of messages and of the
   pipe, and however writes are cut short, each byte the UI sent is once in
   the PTY, in the message being written, in the write list or in the
   channel, in the order it was sent. *)
THEOREM InputConservedHolds == Spec => []InputConserved
  <1>1. Init => InputConserved
    <2> SUFFICES ASSUME Init PROVE InputConserved OBVIOUS
    <2>1. Typed BY InitLocks DEF Locks
    <2>2. Len(written \o writing) = 0 BY DEF Init
    <2>3. Holds(rx, 0, 0) BY DEF Init, Holds
    <2>4. Accounted(0, rx, write_list, written \o writing, sent)
      BY <2>2, <2>3, EventLoopAssumption DEF Init, Accounted
    <2>5. QED BY <2>1, <2>4, Account DEF Init, AllAccounted
  <1>2. QED BY <1>1, StepConserved, LocksInv, PTL DEF Spec
===============================================================================
