------------------------------ MODULE Processor ------------------------------
(***************************************************************************)
(* The event processor and its windows (cutty/src/event.rs, with           *)
(* window_context.rs, scheduler.rs, message_bar.rs, config/monitor.rs,     *)
(* the frames of display/mod.rs and the options of cli.rs).                *)
(*                                                                         *)
(* The processor is a record p: the open windows, the user events that     *)
(* were sent to it and not delivered, the bag of timers, the configuration *)
(* (a version of the files and the paths they come from), the global IPC   *)
(* options, the configuration monitor, whether the cursor is configured to *)
(* blink, and whether the processor exits.  An event is                    *)
(* [kind, window, arg], where window 0 is none.  An option is a value for  *)
(* one setting, which is 0 without one, or Broken.  A message is           *)
(* [target, lines].                                                        *)
(***************************************************************************)
EXTENDS Integers, Sequences, FiniteSets, Bags, SequencesExt

CONSTANT Broken    \* an option, or a configuration, that cannot be applied

Event(kind, window, arg) == [kind |-> kind, window |-> window, arg |-> arg]
Send(p, e) == [p EXCEPT !.events = Append(@, e)]

(* Scheduler *)
TimerId(topic, window) == [topic |-> topic, window |-> window]
schedule(p, id) == [p EXCEPT !.timers = @ (+) SetToBag({id})]
unschedule(p, id) == [p EXCEPT !.timers = @ (-) SetToBag({id})]

unschedule_window(p, window) ==
  [p EXCEPT !.timers = [id \in {i \in BagToSet(@) : i.window # window} |-> @[id]]]

(* MessageBuffer; the lines of the bar are those of the first message (mutant: of all). *)
Without(messages, removed) ==
  LET kept[k \in 0 .. Len(messages)] ==
        IF k = 0 THEN << >>
        ELSE IF messages[k] \in removed THEN kept[k - 1] ELSE Append(kept[k - 1], messages[k])
  IN  kept[Len(messages)]
pop(messages) == IF messages = << >> THEN messages ELSE Without(Tail(messages), {Head(messages)})
remove_target(messages, target) == Without(messages, {m \in ToSet(messages) : m.target = target})
is_queued(messages, m) == m \in ToSet(messages)
BarLines(messages) == IF messages = << >> THEN 0 ELSE Head(messages).lines

(* ParsedOptions::override_config: the options that are kept, and the value
   they give the setting.  Each broken option is replaced by the last one. *)
swap_remove(s, i) == IF i = Len(s) THEN Front(s) ELSE [Front(s) EXCEPT ![i] = Last(s)]
override_config(options) ==
  LET Step(s) == IF s.kept[s.i] = Broken THEN [s EXCEPT !.kept = swap_remove(@, s.i)] ELSE [s EXCEPT !.i = @ + 1]
      after[k \in 0 .. Len(options)] == IF k = 0 THEN [kept |-> options, i |-> 1] ELSE Step(after[k - 1])
  IN  after[Len(options)].kept
Effective(base, options) == [version |-> base.version, setting |-> IF options = << >> THEN 0 ELSE Last(options)]

(* WindowContext::new, initial and additional, and Window::new *)
NewContext(base, options, hold) ==
  [dirty |-> FALSE, has_frame |-> TRUE, requested |-> FALSE, occluded |-> FALSE, queue |-> << >>,
   hold |-> hold, bell |-> FALSE, messages |-> << >>, pending |-> FALSE, bar |-> 0,
   options |-> override_config(options), config |-> Effective(base, override_config(options))]

request_redraw(c) == [c EXCEPT !.requested = TRUE]
Open(p) == DOMAIN p.windows
LogBroken(p, options) == IF Broken \in ToSet(options) THEN Send(p, Event("Message", 0, [target |-> "ipc", lines |-> 1])) ELSE p

(* WindowContext::update_config, reset_window_config and add_window_config; the
   fonts and the padding stay the same. *)
update_config(c, base) ==
  LET kept == override_config(c.options)
  IN  [c EXCEPT !.options = kept, !.config = Effective(base, kept), !.dirty = TRUE,
                !.queue = Append(@, Event("CursorBlinkingChange", 0, 0))]
reset_window_config(c, base) ==
  update_config([c EXCEPT !.messages = remove_target(@, "ipc"), !.options = << >>], base)
add_window_config(c, base, options) ==
  update_config([c EXCEPT !.messages = remove_target(@, "ipc"), !.options = @ \o options], base)

(* input::Processor::handle_event, by what an event does to the frame: Input
   stands for the events that change what is shown. *)
HandleStaged(p, w, e) ==
  CASE e.kind = "Input" -> [p EXCEPT !.windows[w].dirty = TRUE]
    [] e.kind = "Resized" -> [p EXCEPT !.windows[w].pending = TRUE]
    [] e.kind = "Occluded" -> [p EXCEPT !.windows[w].occluded = e.arg]
    [] e.kind = "Bell" -> [p EXCEPT !.windows[w].bell = TRUE]
    [] e.kind = "Message" ->
         IF is_queued(p.windows[w].messages, e.arg) THEN p
         ELSE [p EXCEPT !.windows[w].messages = Append(@, e.arg), !.windows[w].pending = TRUE]
    [] e.kind = "PopMessage" ->
         IF p.windows[w].messages = << >> THEN p
         ELSE [p EXCEPT !.windows[w].messages = pop(@), !.windows[w].pending = TRUE]
    [] e.kind = "CursorBlinkingChange" ->
         LET q == unschedule(p, TimerId("BlinkCursor", w))
         IN  IF p.blinks THEN schedule(q, TimerId("BlinkCursor", w)) ELSE [q EXCEPT !.windows[w].dirty = TRUE]
    [] e.kind = "BlinkCursor" -> [p EXCEPT !.windows[w].dirty = TRUE]
    [] e.kind = "CloseRequested" -> Send([p EXCEPT !.windows[w].hold = FALSE], Event("Exit", w, 0))

(* The staged events of a window are handled in their order. *)
HandleQueue(p, w) ==
  LET queue == p.windows[w].queue
      after[k \in 0 .. Len(queue)] ==
        IF k = 0 THEN [p EXCEPT !.windows[w].queue = << >>] ELSE HandleStaged(after[k - 1], w, queue[k])
  IN  after[Len(queue)]

(* Mutant of handle_event: no frame is asked for. *)
handle_event_NeverAsks(p, w, redraw) ==
  LET c == p.windows[w]
      q == HandleQueue(p, w)
  IN  IF c.queue = << >> THEN p
      ELSE [q EXCEPT !.windows[w].dirty = @ \/ q.windows[w].pending, !.windows[w].pending = FALSE,
                     !.windows[w].bar = IF q.windows[w].pending THEN BarLines(q.windows[w].messages) ELSE @]

(* WindowContext::handle_event at AboutToWait and RedrawRequested: the staged events
   are handled, the display is updated and the next frame asked for. *)
handle_event(p, w, redraw) ==
  LET c == p.windows[w]
      q == HandleQueue(p, w)
      d == q.windows[w]
      u == IF d.pending THEN [d EXCEPT !.pending = FALSE, !.bar = BarLines(d.messages), !.dirty = TRUE] ELSE d
  IN  IF c.queue = << >> THEN p
      ELSE [q EXCEPT !.windows[w] = IF u.dirty /\ u.has_frame /\ ~u.occluded /\ ~redraw
                                      THEN request_redraw(u) ELSE u]

(* Mutant of draw: the window stays dirty. *)
draw_StaysDirty(p, w, over) ==
  LET c == [p.windows[w] EXCEPT !.requested = FALSE]
  IN  IF c.occluded THEN [p EXCEPT !.windows[w] = c]
      ELSE schedule([p EXCEPT !.windows[w] = [c EXCEPT !.has_frame = FALSE, !.bell = c.bell /\ ~over]], TimerId("Frame", w))

(* WindowContext::draw, with VisualBell::completed, and Display::request_frame;
   `over` tells whether the bell has rung its time. *)
draw(p, w, over) ==
  LET c == [p.windows[w] EXCEPT !.requested = FALSE]
      d == [c EXCEPT !.dirty = c.bell /\ ~c.has_frame, !.bell = c.bell /\ ~over, !.requested = c.bell /\ c.has_frame]
  IN  IF c.occluded THEN [p EXCEPT !.windows[w] = c]
      ELSE schedule([p EXCEPT !.windows[w] = [d EXCEPT !.has_frame = FALSE]], TimerId("Frame", w))

(* ConfigMonitor: needs_restart compares the hashes of the paths; a monitor that is
   started begins to watch later, in its thread. *)
NoMonitor == [state |-> "off", paths |-> {}, received |-> FALSE]
NewMonitor(paths) == IF paths = {} THEN NoMonitor ELSE [state |-> "starting", paths |-> paths, received |-> FALSE]
needs_restart(monitor, paths) == paths = monitor.paths

(* Processor::create_initial_window and create_window *)
Insert(p, w, c) ==
  LET q == [p EXCEPT !.windows = [v \in Open(p) \union {w} |-> IF v = w THEN c ELSE p.windows[v]]]
  IN  IF p.blinks THEN Send(q, Event("CursorBlinkingChange", w, 0)) ELSE q
create_initial_window(p, w, hold) == Insert(p, w, NewContext(p.config, << >>, hold))
create_window(p, w, options) ==
  LogBroken(Insert(p, w, NewContext(p.config, options \o p.globals, FALSE)), options \o p.globals)

(* The handlers of Processor::user_event *)
IpcConfig(p, window, reset, options) ==
  LET targets == {w \in Open(p) : window \in {0, w}}
      q == [p EXCEPT !.windows = [w \in Open(p) |->
              IF w \notin targets THEN p.windows[w]
              ELSE IF reset THEN reset_window_config(p.windows[w], p.config)
              ELSE add_window_config(p.windows[w], p.config, options)],
                     !.globals = IF window # 0 THEN @ ELSE IF reset THEN << >> ELSE @ \o options]
  IN  IF targets = {} \/ reset THEN q ELSE LogBroken(q, options)

(* A reply with the global configuration drops the options that cannot be applied. *)
IpcGetConfig(p, window) ==
  IF window \in Open(p) THEN p ELSE LogBroken([p EXCEPT !.globals = override_config(@)], p.globals)

(* Mutant of ConfigReload: the lines of a removed message stay. *)
ConfigReload_KeepsLines(p, read) ==
  LET cleared == [w \in Open(p) |-> [p.windows[w] EXCEPT !.messages = remove_target(@, "config")]]
  IN  IF read = Broken
        THEN Send([p EXCEPT !.windows = cleared], Event("Message", 0, [target |-> "config", lines |-> 2]))
        ELSE [p EXCEPT !.config = read, !.windows = [w \in Open(p) |-> update_config(cleared[w], read)]]

(* `read` is the configuration that is read from the files, or Broken. *)
ConfigReload(p, read) ==
  LET Cleared(c) == IF c.messages = << >> THEN c
                    ELSE [c EXCEPT !.messages = remove_target(@, "config"), !.pending = TRUE]
      cleared == [w \in Open(p) |-> Cleared(p.windows[w])]
  IN  IF read = Broken
        THEN Send([p EXCEPT !.windows = cleared], Event("Message", 0, [target |-> "config", lines |-> 2]))
        ELSE [p EXCEPT !.config = read,
                       !.monitor = IF @.state # "off" /\ needs_restart(@, read.paths) THEN NewMonitor(read.paths) ELSE @,
                       !.windows = [w \in Open(p) |-> update_config(cleared[w], read)]]

CreateWindow(p, w, options) ==
  IF Open(p) = {} THEN create_initial_window(p, w, FALSE) ELSE create_window(p, w, options)

(* An event for all windows, or for one that may be closed by now, is staged. *)
Stage(p, e) ==
  LET Put(c) == [c EXCEPT !.queue = Append(@, e)]
  IN  [p EXCEPT !.windows = [w \in Open(p) |-> IF e.window \in {0, w} THEN Put(p.windows[w]) ELSE p.windows[w]]]

Wakeup(p, w) ==
  IF w \notin Open(p) THEN p
  ELSE [p EXCEPT !.windows[w] = LET c == [@ EXCEPT !.dirty = TRUE] IN IF c.has_frame THEN request_redraw(c) ELSE c]

Exit(p, w, daemon) ==
  IF w \notin Open(p) \/ p.windows[w].hold THEN p
  ELSE LET q == unschedule_window([p EXCEPT !.windows = [v \in Open(p) \ {w} |-> @[v]]], w)
       IN  [q EXCEPT !.exiting = @ \/ (Open(q) = {} /\ ~daemon)]

Frame(p, w) ==
  IF w \notin Open(p) THEN p
  ELSE [p EXCEPT !.windows[w] = LET c == [@ EXCEPT !.has_frame = TRUE] IN IF c.dirty THEN request_redraw(c) ELSE c]

(* Processor::user_event; new is the id of a window that may be created. *)
user_event(p, e, new, read, daemon) ==
  CASE e.kind = "IpcConfig"    -> IpcConfig(p, e.window, e.arg = << >>, e.arg)
    [] e.kind = "IpcGetConfig" -> IpcGetConfig(p, e.window)
    [] e.kind = "ConfigReload" -> ConfigReload(p, read)
    [] e.kind = "CreateWindow" -> CreateWindow(p, new, e.arg)
    [] e.kind = "Shutdown"     -> [p EXCEPT !.exiting = TRUE]
    [] e.kind = "Wakeup"       -> Wakeup(p, e.window)
    [] e.kind = "Exit"         -> Exit(p, e.window, daemon)
    [] e.kind = "Frame"        -> Frame(p, e.window)
    [] OTHER                   -> Stage(p, e)

(* Scheduler::update sends the event of a timer that is due and repeats it. *)
Due(p, id) ==
  LET sent == Send(p, Event(id.topic, id.window, 0))
  IN  IF id.topic = "Frame" THEN unschedule(sent, id) ELSE sent

(* Processor::about_to_wait, with the windows in the order that their map yields
   them; `due` has the timer that has reached its deadline, if there is one. *)
HandleWindows(p, order) ==
  LET after[k \in 0 .. Len(order)] == IF k = 0 THEN p ELSE handle_event(after[k - 1], order[k], FALSE)
  IN  after[Len(order)]
Orders(p) == {order \in [1 .. Cardinality(Open(p)) -> Open(p)] : \A w \in Open(p) : \E i \in DOMAIN order : order[i] = w}
about_to_wait(p, order, due) ==
  LET q == HandleWindows(p, order)
  IN  IF due # << >> /\ BagIn(Head(due), q.timers) THEN Due(q, Head(due)) ELSE q
===============================================================================
