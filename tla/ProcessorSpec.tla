---------------------------- MODULE ProcessorSpec ----------------------------
(***************************************************************************)
(* The processor in the loop of winit: events are delivered one by one,    *)
(* then about_to_wait is called and the loop waits for more.  The PTY      *)
(* threads, the users of the windows, the clients of the IPC socket, an    *)
(* editor of the configuration files, the monitor of those, and the clock  *)
(* act in between.                                                         *)
(***************************************************************************)
EXTENDS Processor

CONSTANTS Scenarios,     \* what happens in a behaviour: [daemon, hold, blinks, inputs,
                         \* max], the last one a bound on the inputs
          MaxWindows,    \* bound on the windows that are created
          MaxEvents,     \* bound on the events on their way
          MaxFrames      \* bound on the frame timers and events of a window

(* The options of the program, and the setting of the cursor, are Boolean. *)
ASSUME ProcessorAssumption == \A s \in Scenarios : {s.daemon, s.hold, s.blinks} \subseteq BOOLEAN

VARIABLES p,
          awake,      \* events have been delivered since about_to_wait
          files,      \* the configuration in the files, or Broken
          created,    \* the number of windows created
          inputs,     \* the number of inputs so far
          scenario

vars == << p, awake, files, created, inputs, scenario >>

Main == [version |-> 0, paths |-> {"main"}]
Started(s) ==
  LET q == [windows |-> << >>, events |-> << >>, timers |-> EmptyBag, config |-> Main, globals |-> << >>,
            monitor |-> NewMonitor(Main.paths), blinks |-> s.blinks, exiting |-> FALSE]
  IN  IF s.daemon THEN q ELSE create_initial_window(q, 1, s.hold)

Init ==
  /\ scenario \in Scenarios
  /\ p = Started(scenario)
  /\ created = (IF scenario.daemon THEN 0 ELSE 1)
  /\ awake = TRUE /\ files = Main /\ inputs = 0

Sent(kind, w) == Cardinality({i \in DOMAIN p.events : p.events[i].kind = kind /\ p.events[i].window = w})
Pending(id) == IF BagIn(id, p.timers) THEN p.timers[id] ELSE 0

(* The processor's own steps *)
Deliver ==
  /\ ~p.exiting /\ p.events # << >>
  /\ LET e == Head(p.events)
     IN  /\ p' = user_event([p EXCEPT !.events = Tail(@)], e, created + 1, files, scenario.daemon)
         /\ created' = IF e.kind = "CreateWindow" THEN created + 1 ELSE created
  /\ awake' = TRUE
  /\ UNCHANGED << files, inputs, scenario >>

Redraw(w) ==
  /\ Pending(TimerId("Frame", w)) + Sent("Frame", w) < MaxFrames
  /\ \E over \in BOOLEAN : p' = draw(handle_event(p, w, TRUE), w, over)
  /\ awake' = TRUE
RedrawRequested(w) ==
  ~p.exiting /\ w \in Open(p) /\ p.windows[w].requested /\ Redraw(w) /\ UNCHANGED << files, created, inputs, scenario >>

AboutToWait ==
  /\ ~p.exiting /\ awake
  /\ \E order \in Orders(p) : p' = about_to_wait(p, order, << >>)
  /\ awake' = FALSE
  /\ UNCHANGED << files, created, inputs, scenario >>
Fires(id) ==
  /\ BagIn(id, p.timers)
  /\ \E order \in Orders(p) : p' = about_to_wait(p, order, << id >>)
  /\ awake' = FALSE
FrameExpires(w) == ~p.exiting /\ Fires(TimerId("Frame", w)) /\ UNCHANGED << files, created, inputs, scenario >>

(* What comes from the outside *)
Input(kind) == /\ ~p.exiting /\ kind \in scenario.inputs /\ inputs < scenario.max /\ Len(p.events) < MaxEvents
               /\ inputs' = inputs + 1
               /\ UNCHANGED << created, scenario >>

CursorBlinks == Input("Blink") /\ (\E w \in Open(p) : Fires(TimerId("BlinkCursor", w))) /\ UNCHANGED files
OsRedraw == Input("redraw") /\ (\E w \in Open(p) : Redraw(w)) /\ UNCHANGED files
WindowEvent ==
  /\ \E kind \in {"Input", "Resized", "Occluded", "PopMessage", "CloseRequested"} :
       Input(kind) /\ \E w \in Open(p) :
         \E arg \in IF kind = "Occluded" THEN BOOLEAN ELSE {0} : p' = Stage(p, Event(kind, w, arg))
  /\ awake' = TRUE /\ UNCHANGED files
Pty ==
  /\ \E w \in Open(p) :
       \/ Input("Wakeup") /\ p' = Send(p, Event("Wakeup", w, 0))
       \/ Input("Bell") /\ p' = Send(Send(p, Event("Bell", w, 0)), Event("Wakeup", w, 0))
       \/ Input("Exit") /\ p' = Send(p, Event("Exit", w, 0))
  /\ UNCHANGED << awake, files >>
Log ==
  /\ Input("Message") /\ \E n \in 1 .. 2 : p' = Send(p, Event("Message", 0, [target |-> "other", lines |-> n]))
  /\ UNCHANGED << awake, files >>
Ipc ==
  /\ \/ Input("IpcConfig") /\ \E w \in 0 .. created, options \in {<< >>, << 1 >>, << 2 >>} :
             p' = Send(p, Event("IpcConfig", w, options))
     \/ Input("Broken") /\ p' = Send(p, Event("IpcConfig", 0, << Broken >>))
     \/ Input("IpcGetConfig") /\ \E w \in 0 .. created : p' = Send(p, Event("IpcGetConfig", w, 0))
     \/ Input("CreateWindow") /\ created + Sent("CreateWindow", 0) < MaxWindows
                              /\ p' = Send(p, Event("CreateWindow", 0, << >>))
  /\ UNCHANGED << awake, files >>
Signal == Input("Shutdown") /\ p' = Send(p, Event("Shutdown", 0, 0)) /\ UNCHANGED << awake, files >>

(* An edit of a file is seen by a monitor that watches it; the monitor sends an event
   once no more edits have come for a while. *)
Version == IF files = Broken THEN inputs ELSE files.version
Edit ==
  /\ Input("Edit")
  /\ files' \in {[version |-> Version + 1, paths |-> paths] : paths \in {{"main"}, {"main", "import"}}} \union {Broken}
  /\ p' = IF p.monitor.state = "watching" THEN [p EXCEPT !.monitor.received = TRUE] ELSE p
  /\ UNCHANGED awake
Watch ==
  /\ ~p.exiting /\ p.monitor.state = "starting" /\ p' = [p EXCEPT !.monitor.state = "watching"]
  /\ UNCHANGED << awake, files, created, inputs, scenario >>
Debounced ==
  /\ ~p.exiting /\ p.monitor.received
  /\ p' = Send([p EXCEPT !.monitor.received = FALSE], Event("ConfigReload", 0, 0))
  /\ UNCHANGED << awake, files, created, inputs, scenario >>

Next ==
  \/ Deliver \/ AboutToWait \/ CursorBlinks \/ OsRedraw \/ WindowEvent \/ Pty \/ Log \/ Ipc \/ Signal
  \/ Edit \/ Watch \/ Debounced
  \/ \E w \in 1 .. MaxWindows : RedrawRequested(w) \/ FrameExpires(w)

(* The loop delivers what was sent to it and calls about_to_wait; the clock goes on. *)
Fairness ==
  /\ WF_vars(Deliver) /\ WF_vars(AboutToWait)
  /\ \A w \in 1 .. MaxWindows : WF_vars(RedrawRequested(w)) /\ WF_vars(FrameExpires(w))
Spec == Init /\ [][Next]_vars /\ Fairness

Flags == {"dirty", "has_frame", "requested", "occluded", "hold", "bell", "pending"}

\* The state of the processor and its windows.
TypeOK ==
  /\ Open(p) \subseteq 1 .. created
  /\ \A w \in Open(p) :
       /\ (\A f \in Flags : p.windows[w][f] \in BOOLEAN) /\ p.windows[w].bar \in 0 .. 2
       /\ Broken \notin ToSet(p.windows[w].options)
  /\ IsABag(p.timers)
  /\ p.monitor.state \in {"off", "starting", "watching"}

FrameComing(w) == BagIn(TimerId("Frame", w), p.timers) \/ Event("Frame", w, 0) \in ToSet(p.events)

\* A frame is never lost: when the loop waits, a window that is dirty and visible has
\* asked for a redraw, or waits for the frame that will ask for it (has_frame and
\* requested_redraw, with Wakeup, Frame, draw and handle_event taking turns).
NoLostFrame ==
  ~awake => \A w \in Open(p) : p.windows[w].dirty /\ ~p.windows[w].occluded =>
              p.windows[w].requested \/ (~p.windows[w].has_frame /\ FrameComing(w))

\* A window without a frame always has one coming, or it would never draw again.
FrameAlwaysComes == \A w \in Open(p) : ~p.windows[w].has_frame => FrameComing(w)

\* A window that is dirty and stays visible is drawn in the end.
EventuallyDrawn ==
  \A w \in 1 .. MaxWindows :
    w \in Open(p) /\ p.windows[w].dirty ~>
      p.exiting \/ w \notin Open(p) \/ ~p.windows[w].dirty \/ p.windows[w].occluded \/ p.windows[w].bell

\* Timers do not outlive their window: "This must be called when a window is removed to
\* ensure that timers on intervals do not stick around forever" (unschedule_window).
TimersOfOpenWindows == \A id \in BagToSet(p.timers) : id.window \in Open(p)

\* When the loop waits and nothing is on its way, the lines taken from the terminal are
\* those of the message bar: messages that come, are closed or are removed by a reload
\* resize it.  The messages about IPC options are removed without that
\* (reset_window_config), so the behaviours with such options are left out.
BarMatchesMessages ==
  ~awake /\ p.events = << >> /\ "IpcConfig" \notin scenario.inputs =>
    \A w \in Open(p) : p.windows[w].bar = BarLines(p.windows[w].messages)

\* All windows have the latest configuration that was read, with their own options on it.
ConfigAgrees ==
  \A w \in Open(p) : /\ p.windows[w].config.version = p.config.version
                      /\ p.windows[w].options # << >> => p.windows[w].config.setting = Last(p.windows[w].options)

\* A window that waits to be drawn has what it waits for on its way.
FramesCome == NoLostFrame /\ FrameAlwaysComes

\* Timers, lines of the message bar and configurations belong to the windows that are
\* open and agree with them, in whatever order windows, messages and reloads come and go.
ProcessorInv == TypeOK /\ TimersOfOpenWindows /\ BarMatchesMessages /\ ConfigAgrees
===============================================================================
