------------------------------ MODULE EventLoop ------------------------------
(***************************************************************************)
(* The PTY event loop (cutty_terminal/src/event_loop.rs) with its          *)
(* neighbours: the UI thread, which sends it messages and draws the        *)
(* terminal, the terminal's lock (module FairMutex), the kernel's PTY      *)
(* buffers and the child process at the other end.                         *)
(*                                                                         *)
(* An input message is a number and stands for MsgLen bytes <<m, 1>> ..    *)
(* <<m, MsgLen>>; the child's output is counted in bytes.  Waiting, every  *)
(* channel receive, read, write, lock attempt and release of the PTY       *)
(* thread is a step of its own, so the other actors interleave there.      *)
(***************************************************************************)
EXTENDS Integers, Sequences, FairMutex

CONSTANTS MaxMsgs,           \* bound: input and resize messages the UI sends
          MsgLen,            \* bytes in an input message
          OtherChildren,     \* does the process have other children?
          MaxOutput,         \* bound: bytes the child writes
          PipeSize,          \* room in the kernel for input bytes
          READ_BUFFER_SIZE,
          MAX_LOCKED_READ,
          DrainOnExit,       \* the drain_on_exit option
          IoErrors           \* may a poll, read or write fail for good?

ASSUME EventLoopAssumption ==
  /\ MaxMsgs \in Nat /\ MaxOutput \in Nat /\ OtherChildren \in BOOLEAN
  /\ MsgLen \in Nat \ {0} /\ PipeSize \in Nat \ {0}
  /\ READ_BUFFER_SIZE \in Nat \ {0} /\ MAX_LOCKED_READ \in Nat \ {0}
  /\ DrainOnExit \in BOOLEAN /\ IoErrors \in BOOLEAN
  /\ NoOne \notin {"pty", "ui"}

VARIABLES
  \* the PTY thread
  pc,           \* where it is
  events,       \* polled events not handled yet
  rx,           \* the message channel
  write_list,   \* State::write_list
  writing,      \* State::writing, <<>> or <<bytes left to write>>
  interest,     \* is writability polled for?
  unprocessed, processed,   \* the counters of pty_read
  after_read,   \* where pty_read returns to
  \* the parser's synchronized update
  sync_bytes,   \* bytes held back
  timeout,      \* "none", "armed" or "due"
  \* the UI thread
  ui,           \* "idle", "data" or "locked"
  drawing,      \* is it after the lock to draw?
  notify,       \* a message is sent, Poller::notify is still to be called
  sent,         \* input messages sent so far
  resizes,      \* resize messages sent so far
  closing,      \* Shutdown was sent
  \* between them
  notified,     \* pending Poller::notify
  wakeup,       \* pending Event::Wakeup
  stale,        \* the terminal changed since it was drawn
  exited,       \* Term::exit was called
  \* the kernel and the child
  pipe,         \* input bytes the child has not read
  written,      \* all input bytes accepted so far
  output,       \* output bytes not read from the PTY yet
  produced,     \* output bytes written by the child so far
  lost,         \* output bytes read and then thrown away
  alive,        \* the child runs, the PTY is open
  sigchld       \* a byte is in the signal pipe

loop   == <<events, rx, write_list, writing, interest>>
read   == <<unprocessed, processed, after_read>>
parser == <<sync_bytes, timeout>>
uivars == <<ui, drawing, notify, sent, resizes, closing>>
shared == <<notified, wakeup, stale, exited>>
kernel == <<pipe, written, output, produced, lost, alive, sigchld>>
locks  == <<next, data>>
vars   == <<pc, loop, read, parser, uivars, shared, kernel, locks>>

Input(m) == [type |-> "Input", id |-> m]
Resize   == [type |-> "Resize"]
Shutdown == [type |-> "Shutdown"]

Bytes(m) == [k \in 1..MsgLen |-> <<m, k>>]

needs_write == writing # <<>> \/ write_list # <<>>

Init ==
  /\ pc = "poll" /\ events = {} /\ rx = <<>> /\ write_list = <<>> /\ writing = <<>>
  /\ interest = FALSE
  /\ unprocessed = 0 /\ processed = 0 /\ after_read = "events"
  /\ sync_bytes = 0 /\ timeout = "none"
  /\ ui = "idle" /\ drawing = FALSE /\ notify = FALSE /\ sent = 0 /\ resizes = 0 /\ closing = FALSE
  /\ notified = FALSE /\ wakeup = FALSE /\ stale = FALSE /\ exited = FALSE
  /\ pipe = 0 /\ written = <<>> /\ output = 0 /\ produced = 0 /\ lost = 0
  /\ alive = TRUE /\ sigchld = FALSE
  /\ next = NoOne /\ data = NoOne
-------------------------------------------------------------------------------
(* The PTY thread: EventLoop::spawn. *)

(* Level-triggered readiness.  A hung-up PTY reports that with everything. *)
Ready ==
  {e \in {"child", "readable", "writable", "hup"} :
     \/ e = "child" /\ sigchld
     \/ e = "readable" /\ (output > 0 \/ ~alive)
     \/ e = "writable" /\ interest /\ pipe < PipeSize
     \/ e = "hup" /\ ~alive}

(* Mutant of Wait: the timeout of a synchronized update is not passed on. *)
Wait_NoTimeout ==
  /\ pc = "poll"
  /\ Ready # {} \/ notified
  /\ events' = Ready
  /\ notified' = FALSE
  /\ pc' = "woken"
  /\ UNCHANGED <<rx, write_list, writing, interest, read, parser, uivars, wakeup, stale, exited,
                 kernel, locks>>

(* Poller::wait returns with what is ready, on a notification, or when the
   timeout of a synchronized update has passed. *)
Wait ==
  /\ pc = "poll"
  /\ Ready # {} \/ notified \/ timeout = "due"
  /\ events' = Ready
  /\ notified' = FALSE
  /\ pc' = "woken"
  /\ UNCHANGED <<rx, write_list, writing, interest, read, parser, uivars, wakeup, stale, exited,
                 kernel, locks>>

PollError ==
  /\ IoErrors /\ pc = "poll"
  /\ pc' = "failed"
  /\ UNCHANGED <<loop, read, parser, uivars, shared, kernel, locks>>

(* Nothing polled and nothing in the channel is taken for the timeout. *)
Woken ==
  /\ pc = "woken"
  /\ pc' = IF events = {} /\ rx = <<>> THEN "stop_sync" ELSE "drain"
  /\ UNCHANGED <<loop, read, parser, uivars, shared, kernel, locks>>

(* FairMutex::lock, for stop_sync and for exit. *)
LockNext ==
  /\ pc \in {"stop_sync", "exit"}
  /\ next # "pty" /\ data # "pty"
  /\ lease("pty")
  /\ UNCHANGED <<pc, loop, read, parser, uivars, shared, kernel, data>>

LockData ==
  /\ pc \in {"stop_sync", "exit"}
  /\ lock_data("pty")
  /\ UNCHANGED <<pc, loop, read, parser, uivars, shared, kernel>>

(* Mutant of StopSync: the UI is not woken up. *)
StopSync_NoWakeup ==
  /\ pc = "stop_sync"
  /\ unlock("pty")
  /\ sync_bytes' = 0 /\ timeout' = "none"
  /\ stale' = (stale \/ sync_bytes > 0)
  /\ pc' = "poll"
  /\ UNCHANGED <<loop, read, uivars, notified, wakeup, exited, kernel, next>>

(* Processor::stop_sync hands the held back bytes to the terminal. *)
StopSync ==
  /\ pc = "stop_sync"
  /\ unlock("pty")
  /\ sync_bytes' = 0 /\ timeout' = "none"
  /\ stale' = (stale \/ sync_bytes > 0)
  /\ wakeup' = TRUE
  /\ pc' = "poll"
  /\ UNCHANGED <<loop, read, uivars, notified, exited, kernel, next>>

(* Mutant of Receive: one message per iteration is taken, not all. *)
Receive_One ==
  /\ pc = "drain" /\ rx # <<>>
  /\ rx' = Tail(rx)
  /\ write_list' = IF Head(rx).type = "Input" THEN Append(write_list, Head(rx).id) ELSE write_list
  /\ pc' = IF Head(rx) = Shutdown THEN "done" ELSE "events"
  /\ UNCHANGED <<events, writing, interest, read, parser, uivars, shared, kernel, locks>>

(* One turn of drain_recv_channel. *)
Receive ==
  /\ pc = "drain" /\ rx # <<>>
  /\ rx' = Tail(rx)
  /\ write_list' = IF Head(rx).type = "Input" THEN Append(write_list, Head(rx).id) ELSE write_list
  /\ pc' = IF Head(rx) = Shutdown THEN "done" ELSE "drain"
  /\ UNCHANGED <<events, writing, interest, read, parser, uivars, shared, kernel, locks>>

Drained ==
  /\ pc = "drain" /\ rx = <<>>
  /\ pc' = "events"
  /\ UNCHANGED <<loop, read, parser, uivars, shared, kernel, locks>>

(* Mutant of HandleChild: draining the output replaces the exit. *)
HandleChild_NoExit ==
  /\ pc = "events" /\ "child" \in events
  /\ events' = events \ {"child"}
  /\ sigchld' = FALSE
  /\ pc' = IF alive THEN "events" ELSE IF DrainOnExit THEN "lease" ELSE "exit"
  /\ after_read' = "events"
  /\ UNCHANGED <<rx, write_list, writing, interest, unprocessed, processed, parser, uivars, shared,
                 pipe, written, output, produced, lost, alive, locks>>

(* The PTY_CHILD_EVENT_TOKEN arm, with next_child_event: one byte of the
   signal pipe is read, then the child is asked for. *)
HandleChild ==
  /\ pc = "events" /\ "child" \in events
  /\ events' = events \ {"child"}
  /\ sigchld' = FALSE
  /\ pc' = IF alive THEN "events" ELSE IF DrainOnExit THEN "lease" ELSE "exit"
  /\ after_read' = IF alive THEN after_read ELSE "exit"
  /\ UNCHANGED <<rx, write_list, writing, interest, unprocessed, processed, parser, uivars, shared,
                 pipe, written, output, produced, lost, alive, locks>>

(* The terminal is told to exit; the loop ends. *)
Exit ==
  /\ pc = "exit"
  /\ unlock("pty")
  /\ exited' = TRUE /\ wakeup' = TRUE
  /\ pc' = "done"
  /\ UNCHANGED <<loop, read, parser, uivars, notified, stale, kernel, next>>

(* The PTY_READ_WRITE_TOKEN arm: no I/O on a dead PTY. *)
SkipHangup ==
  /\ pc = "events" /\ "hup" \in events
  /\ events' = events \ {"readable", "writable", "hup"}
  /\ UNCHANGED <<pc, rx, write_list, writing, interest, read, parser, uivars, shared, kernel, locks>>

StartRead ==
  /\ pc = "events" /\ "hup" \notin events /\ "readable" \in events
  /\ events' = events \ {"readable"}
  /\ after_read' = IF "writable" \in events THEN "write" ELSE "events"
  /\ pc' = "lease"
  /\ UNCHANGED <<rx, write_list, writing, interest, unprocessed, processed, parser, uivars, shared,
                 kernel, locks>>

(* The `while let` of pty_write, entered with State::ensure_next. *)
StartWrite ==
  /\ \/ pc = "events" /\ "hup" \notin events /\ "readable" \notin events /\ "writable" \in events
     \/ pc = "write"
  /\ events' = events \ {"writable"}
  /\ writing' = IF writing = <<>> /\ write_list # <<>> THEN Bytes(Head(write_list)) ELSE writing
  /\ write_list' = IF writing = <<>> /\ write_list # <<>> THEN Tail(write_list) ELSE write_list
  /\ pc' = IF needs_write THEN "writing" ELSE "events"
  /\ UNCHANGED <<rx, interest, read, parser, uivars, shared, kernel, locks>>

(* Mutants of Reregister: the interest is only ever added; it is never
   updated. *)
Reregister_Sticky ==
  /\ pc = "events" /\ events = {}
  /\ interest' = (interest \/ needs_write)
  /\ pc' = "poll"
  /\ UNCHANGED <<events, rx, write_list, writing, read, parser, uivars, shared, kernel, locks>>

Reregister_Never ==
  /\ pc = "events" /\ events = {}
  /\ pc' = "poll"
  /\ UNCHANGED <<loop, read, parser, uivars, shared, kernel, locks>>

(* The end of an iteration: the interest in writability is updated. *)
Reregister ==
  /\ pc = "events" /\ events = {}
  /\ interest' = needs_write
  /\ pc' = "poll"
  /\ UNCHANGED <<events, rx, write_list, writing, read, parser, uivars, shared, kernel, locks>>
-------------------------------------------------------------------------------
(* EventLoop::pty_read. *)

TakeLease ==
  /\ pc = "lease"
  /\ lease("pty")
  /\ pc' = "read"
  /\ UNCHANGED <<loop, read, parser, uivars, shared, kernel, data>>

ReadSome(n) ==
  /\ pc = "read" /\ n <= output
  /\ unprocessed' = unprocessed + n
  /\ output' = output - n
  /\ pc' = "try_lock"
  /\ UNCHANGED <<loop, processed, after_read, parser, uivars, shared,
                 pipe, written, produced, lost, alive, sigchld, locks>>

(* The read would block. *)
ReadBlocks ==
  /\ pc = "read" /\ output = 0 /\ alive
  /\ pc' = IF unprocessed = 0 THEN "read_end" ELSE "try_lock"
  /\ UNCHANGED <<loop, read, parser, uivars, shared, kernel, locks>>

(* pty_read returns: its guards are dropped and its counters are gone. *)
LeaveRead ==
  /\ unprocessed' = 0 /\ processed' = 0 /\ after_read' = "events"
  /\ next = "pty"
  /\ next' = NoOne
  /\ data' = IF data = "pty" THEN NoOne ELSE data

(* Mutant of ReadEIO: the early return keeps the guards. *)
ReadEIO_KeepsGuards ==
  /\ pc = "read" /\ output = 0 /\ ~alive
  /\ lost' = lost + unprocessed
  /\ events' = IF after_read = "write" THEN events \ {"writable"} ELSE events
  /\ pc' = IF after_read = "exit" THEN "exit" ELSE "events"
  /\ UNCHANGED <<rx, write_list, writing, interest, read, parser, uivars, shared,
                 pipe, written, output, produced, alive, sigchld, locks>>

(* A read fails with EIO once the PTY is hung up and empty, and the error
   leaves pty_read at once; the loop then goes on to the next event. *)
ReadEIO ==
  /\ pc = "read" /\ output = 0 /\ ~alive
  /\ lost' = lost + unprocessed
  /\ LeaveRead
  /\ events' = IF after_read = "write" THEN events \ {"writable"} ELSE events
  /\ pc' = IF after_read = "exit" THEN "exit" ELSE "events"
  /\ UNCHANGED <<rx, write_list, writing, interest, parser, uivars, shared,
                 pipe, written, output, produced, alive, sigchld>>

ReadError ==
  /\ IoErrors /\ pc = "read"
  /\ lost' = lost + unprocessed
  /\ LeaveRead
  /\ pc' = IF after_read = "exit" THEN "exit" ELSE "failed"
  /\ UNCHANGED <<loop, parser, uivars, shared,
                 pipe, written, output, produced, alive, sigchld>>

TryLock ==
  /\ pc = "try_lock"
  /\ \/ data = "pty" /\ UNCHANGED data /\ pc' = "parse"
     \/ lock_unfair("pty") /\ pc' = "parse"
     \/ data \notin {"pty", NoOne} /\ UNCHANGED data
        /\ pc' = IF unprocessed >= READ_BUFFER_SIZE THEN "lock" ELSE "read"
  /\ UNCHANGED <<loop, read, parser, uivars, shared, kernel, next>>

(* The buffer is full: wait for the terminal. *)
ForceLock ==
  /\ pc = "lock"
  /\ lock_unfair("pty")
  /\ pc' = "parse"
  /\ UNCHANGED <<loop, read, parser, uivars, shared, kernel, next>>

(* Processor::advance over the buffer.  `held` of its bytes end up held back
   by a synchronized update: all of them while one goes on, those after its
   start, or none after its end. *)
Parse(held) ==
  /\ pc = "parse"
  /\ \/ timeout = "none" /\ held = 0 /\ UNCHANGED parser
     \/ timeout = "none" /\ held > 0 /\ sync_bytes' = held /\ timeout' = "armed"
     \/ timeout # "none" /\ held = unprocessed /\ sync_bytes' = sync_bytes + held
        /\ timeout' \in {timeout, "armed"}
     \/ timeout # "none" /\ held = 0 /\ sync_bytes' = 0 /\ timeout' = "none"
  /\ stale' = (stale \/ held < unprocessed)
  /\ processed' = processed + unprocessed
  /\ unprocessed' = 0
  /\ pc' = IF processed + unprocessed >= MAX_LOCKED_READ THEN "read_end" ELSE "read"
  /\ UNCHANGED <<loop, after_read, uivars, notified, wakeup, exited, kernel, locks>>

(* Mutant of ReadEnd: nothing is announced while bytes are held back. *)
ReadEnd_QuietInSync ==
  /\ pc = "read_end"
  /\ wakeup' = (wakeup \/ (sync_bytes = 0 /\ processed > 0))
  /\ LeaveRead
  /\ pc' = after_read
  /\ UNCHANGED <<loop, parser, uivars, notified, stale, exited, kernel>>

ReadEnd ==
  /\ pc = "read_end"
  /\ wakeup' = (wakeup \/ (sync_bytes < processed /\ processed > 0))
  /\ LeaveRead
  /\ pc' = after_read
  /\ UNCHANGED <<loop, parser, uivars, notified, stale, exited, kernel>>
-------------------------------------------------------------------------------
(* The inner loop of pty_write. *)

(* write(2) takes n bytes; the next message follows a finished one. *)
WriteSome(n) ==
  /\ pc = "writing" /\ writing # <<>>
  /\ n <= Len(writing) /\ pipe + n <= PipeSize
  /\ written' = written \o SubSeq(writing, 1, n)
  /\ pipe' = pipe + n
  /\ IF n < Len(writing)
       THEN /\ writing' = SubSeq(writing, n + 1, Len(writing))
            /\ UNCHANGED <<pc, write_list>>
       ELSE /\ writing' = IF write_list # <<>> THEN Bytes(Head(write_list)) ELSE <<>>
            /\ write_list' = IF write_list # <<>> THEN Tail(write_list) ELSE <<>>
            /\ pc' = IF write_list # <<>> THEN "writing" ELSE "events"
  /\ UNCHANGED <<events, rx, interest, read, parser, uivars, shared,
                 output, produced, lost, alive, sigchld, locks>>

(* Mutant of WriteBlocks: the message in progress is not put back. *)
WriteBlocks_Forgets ==
  /\ pc = "writing" /\ pipe = PipeSize
  /\ writing' = <<>>
  /\ pc' = "events"
  /\ UNCHANGED <<events, rx, write_list, interest, read, parser, uivars, shared, kernel, locks>>

(* It takes nothing, or would block: the rest waits for the next event. *)
WriteBlocks ==
  /\ pc = "writing" /\ pipe = PipeSize
  /\ pc' = "events"
  /\ UNCHANGED <<loop, read, parser, uivars, shared, kernel, locks>>

WriteError ==
  /\ IoErrors /\ pc = "writing"
  /\ pc' = "failed"
  /\ UNCHANGED <<loop, read, parser, uivars, shared, kernel, locks>>
-------------------------------------------------------------------------------
(* The UI thread. *)

(* EventLoopSender::send: into the channel, then Poller::notify. *)
Send(m) ==
  /\ ~notify /\ ~closing
  /\ rx' = Append(rx, m)
  /\ notify' = TRUE
  /\ UNCHANGED <<pc, events, write_list, writing, interest, read, parser, ui, drawing,
                 shared, kernel, locks>>

SendInput ==
  /\ sent + resizes < MaxMsgs
  /\ sent' = sent + 1
  /\ Send(Input(sent + 1))
  /\ UNCHANGED <<resizes, closing>>

SendResize ==
  /\ sent + resizes < MaxMsgs
  /\ resizes' = resizes + 1
  /\ Send(Resize)
  /\ UNCHANGED <<sent, closing>>

SendShutdown ==
  /\ Send(Shutdown)
  /\ closing' = TRUE
  /\ UNCHANGED <<sent, resizes>>

Notify ==
  /\ notify
  /\ notify' = FALSE
  /\ notified' = TRUE
  /\ UNCHANGED <<pc, loop, read, parser, ui, drawing, sent, resizes, closing, wakeup, stale, exited,
                 kernel, locks>>

(* FairMutex::lock, first half: to handle window events, or to draw. *)
UiNext ==
  /\ ui = "idle" /\ ~notify
  /\ lease("ui")
  /\ ui' = "data"
  /\ drawing' \in {FALSE, wakeup}
  /\ wakeup' = (wakeup /\ ~drawing')
  /\ UNCHANGED <<pc, loop, read, parser, notify, sent, resizes, closing, notified, stale, exited,
                 kernel, data>>

UiData ==
  /\ ui = "data" /\ ~notify
  /\ lock_data("ui")
  /\ ui' = "locked"
  /\ UNCHANGED <<pc, loop, read, parser, drawing, notify, sent, resizes, closing, shared, kernel>>

UiUnlock ==
  /\ ui = "locked" /\ ~notify
  /\ unlock("ui")
  /\ ui' = "idle"
  /\ drawing' = FALSE
  /\ stale' = (stale /\ ~drawing)
  /\ UNCHANGED <<pc, loop, read, parser, notify, sent, resizes, closing, notified, wakeup, exited,
                 kernel, next>>
-------------------------------------------------------------------------------
(* The child, the kernel and time. *)

ChildWrites ==
  /\ alive /\ produced < MaxOutput
  /\ output' = output + 1
  /\ produced' = produced + 1
  /\ UNCHANGED <<pc, loop, read, parser, uivars, shared, pipe, written, lost, alive, sigchld, locks>>

ChildReads ==
  /\ alive /\ pipe > 0
  /\ pipe' = pipe - 1
  /\ UNCHANGED <<pc, loop, read, parser, uivars, shared, written, output, produced, lost, alive,
                 sigchld, locks>>

ChildExits ==
  /\ alive
  /\ alive' = FALSE
  /\ sigchld' = TRUE
  /\ UNCHANGED <<pc, loop, read, parser, uivars, shared, pipe, written, output, produced, lost, locks>>

(* The handler of every PTY hears of every child of the process. *)
OtherChildExits ==
  /\ OtherChildren
  /\ sigchld' = TRUE
  /\ UNCHANGED <<pc, loop, read, parser, uivars, shared, pipe, written, output, produced, lost, alive,
                 locks>>

TimePasses ==
  /\ timeout = "armed"
  /\ timeout' = "due"
  /\ UNCHANGED <<pc, loop, read, sync_bytes, uivars, shared, kernel, locks>>

PtyStep ==
  \/ Wait \/ PollError \/ Woken \/ LockNext \/ LockData \/ StopSync \/ Receive \/ Drained
  \/ HandleChild \/ Exit \/ SkipHangup \/ StartRead \/ StartWrite \/ Reregister
  \/ TakeLease \/ (\E n \in 1..(READ_BUFFER_SIZE - unprocessed) : ReadSome(n)) \/ ReadBlocks
  \/ ReadEIO \/ ReadError \/ TryLock \/ ForceLock \/ (\E held \in 0..unprocessed : Parse(held))
  \/ ReadEnd \/ (\E n \in 1..MsgLen : WriteSome(n)) \/ WriteBlocks \/ WriteError

UiStep == SendInput \/ SendResize \/ SendShutdown \/ Notify \/ UiNext \/ UiData \/ UiUnlock

Environment == ChildWrites \/ ChildReads \/ ChildExits \/ OtherChildExits \/ TimePasses

Next == PtyStep \/ UiStep \/ Environment

(* Every actor goes on.  A thread waiting for a mutex gets it eventually
   (strong fairness: parking_lot is eventually fair); the UI comes round to
   drawing whatever else it locks the terminal for; the child reads its
   input; time passes.  Nobody is obliged to send, to write or to exit. *)
Fairness ==
  /\ WF_vars(PtyStep)
  /\ SF_vars(LockNext) /\ SF_vars(LockData) /\ SF_vars(TakeLease) /\ SF_vars(ForceLock)
  /\ WF_vars(Notify) /\ SF_vars(UiNext /\ drawing')
  /\ SF_vars(UiData) /\ WF_vars(UiUnlock)
  /\ WF_vars(ChildReads) /\ WF_vars(TimePasses)

Spec == Init /\ [][Next]_vars /\ Fairness
-------------------------------------------------------------------------------
(* TypeOK: the state of the loop and its counters stay in range. *)
TypeOK ==
  /\ pc \in {"poll", "woken", "stop_sync", "drain", "events", "exit", "lease", "read", "try_lock",
             "lock", "parse", "read_end", "write", "writing", "done", "failed"}
  /\ events \subseteq {"child", "readable", "writable", "hup"}
  /\ after_read \in {"events", "write", "exit"}
  /\ unprocessed \in 0..READ_BUFFER_SIZE /\ processed \in Nat
  /\ timeout \in {"none", "armed", "due"} /\ sync_bytes \in 0..MaxOutput
  /\ ui \in {"idle", "data", "locked"}
  /\ pipe \in 0..PipeSize /\ output \in 0..MaxOutput /\ lost \in 0..MaxOutput
  /\ {next, data} \subseteq {"pty", "ui", NoOne}

(* The bytes written or being written are those of the first n messages. *)
Begun(n) ==
  /\ Len(written \o writing) = n * MsgLen
  /\ \A m \in 1..n, k \in 1..MsgLen : (written \o writing)[(m - 1) * MsgLen + k] = <<m, k>>

(* The inputs in the channel are exactly those after the first n, in order. *)
Waiting(n) ==
  /\ {rx[i] : i \in DOMAIN rx} \ {Resize, Shutdown} = {Input(m) : m \in (n + 1)..sent}
  /\ \A i, j \in DOMAIN rx :
       i < j /\ rx[i].type = "Input" /\ rx[j].type = "Input" => rx[i].id < rx[j].id

(* InputConserved: every byte the UI sent is, in order and exactly once,
   accepted by the PTY, or about to be written, or queued: partial writes,
   full pipes and errors that put the current message back lose, repeat or
   reorder nothing. *)
InputConserved ==
  \E begun \in 0..sent :
    /\ Begun(begun)
    /\ begun + Len(write_list) <= sent
    /\ write_list = [i \in 1..Len(write_list) |-> begun + i]
    /\ Waiting(begun + Len(write_list))

(* NoLostWakeup: the loop never goes to sleep on a message: one that is in the
   channel while it polls has its notification pending or on its way. *)
NoLostWakeup == pc = "poll" /\ rx # <<>> => notified \/ notify

(* WriteInterest: the loop polls for writability exactly while it has bytes to
   write; otherwise it would stall, or spin on a writable PTY. *)
WriteInterest == pc = "poll" => interest = needs_write

(* GuardsDropped: no path out of pty_read, stop_sync or exit keeps the lease
   or the terminal locked while the loop sleeps or after it ended. *)
GuardsDropped == pc \in {"poll", "done", "failed"} => next # "pty" /\ data # "pty"

(* ReadsIntoRoom: the buffer is never full when pty_read reads again: the lock
   is forced, and the buffer parsed, before that. *)
ReadsIntoRoom == pc = "read" => unprocessed < READ_BUFFER_SIZE

(* NoSilentChange: while the child lives, a change to the terminal that is not
   drawn yet has been announced to the UI by the time the loop sleeps, though
   synchronized bytes are not announced. *)
NoSilentChange == pc = "poll" /\ alive /\ stale => wakeup \/ drawing

(* InputDelivered: whatever is sent is written to the PTY, however often
   writes block half way, unless the loop ends first. *)
InputDelivered ==
  \A m \in 1..MaxMsgs : sent >= m ~> Len(written) >= m * MsgLen \/ ~alive \/ pc \in {"done", "failed"}

(* ExitNoticed: the exit of the child always ends the loop, and the terminal is
   told unless the window was closed or an I/O error had ended the loop. *)
ExitNoticed == ~alive ~> (pc = "done" /\ (exited \/ closing)) \/ pc = "failed"

(* ChangesDrawn: every change to the terminal is drawn, unless the window is
   being closed or an I/O error ended the loop. *)
ChangesDrawn == stale ~> ~stale \/ closing \/ pc = "failed"

(* SyncEnds: a synchronized update that is never ended by the application ends
   by its timeout, unless children of the process keep exiting: each SIGCHLD
   is an event, and only a poll without events is taken for the timeout. *)
SyncEnds ==
  <>[][~OtherChildExits]_vars => (timeout # "none" ~> timeout = "none" \/ pc \in {"done", "failed"})

(* EventLoopInv: pty_read never reads into a full buffer, and whichever way it
   ends, by an error too, it leaves no lock behind. *)
EventLoopInv == TypeOK /\ GuardsDropped /\ ReadsIntoRoom
===============================================================================
