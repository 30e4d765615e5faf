----------------------------- MODULE WindowSpec ------------------------------
(***************************************************************************)
(* A window under the keys of its user, the input method, the timers and   *)
(* a program that writes lines.  Events come in batches, at the end of     *)
(* which the display is updated (WindowContext::handle_event); the program *)
(* writes between them, as a batch holds the lock on the terminal.         *)
(***************************************************************************)
EXTENDS Window

CONSTANTS Scenarios,    \* what a user does in a behaviour: [blinking, presses,
                        \* events, varies], the last one for the outcomes of searches
          MaxRegex,     \* bound on the length of a regex
          MaxDelta,     \* bound on a search's delta, which one outside vi mode does not reset
          MaxQueue      \* bound on the timer events on their way

ASSUME WindowAssumption ==
  /\ MaxSearchHistory \in Nat \ {0} /\ SearchLimit \in Nat /\ MaxRegex \in Nat /\ MaxDelta \in Nat /\ MaxQueue \in Nat
  /\ \A s \in Scenarios : s.blinking \in BOOLEAN

VARIABLES window,
          scenario,
          batch,     \* whether a batch is open, and whether a search was active before
          before     \* the line of the vi mode cursor when the search began, counted from
                     \* the oldest line, or NoMatch when something else has moved it

windowVars == << window, scenario, batch, before >>

Closed == [open |-> FALSE, was |-> FALSE]

WindowInit ==
  /\ scenario \in Scenarios
  /\ \E lines \in Heights, limit \in Histories :
       \E c \in {0, lines - 1} :
         window = update_cursor_blinking(NewWindow([new_term(lines, limit) EXCEPT !.grid.history = Smaller(limit, 1),
                                                                                  !.grid.cursor = c], scenario.blinking))
  /\ batch = Closed
  /\ before = NoMatch

Outcomes ==
  [valid : IF "valid" \in scenario.varies THEN BOOLEAN ELSE {TRUE},
   found : IF "found" \in scenario.varies THEN {NoMatch, topmost_line(dims(window.t)), 0, window.t.lines - 1} ELSE {NoMatch},
   next : IF "next" \in scenario.varies THEN {NoMatch, topmost_line(dims(window.t)), 0} ELSE {NoMatch},
   line : IF "line" \in scenario.varies THEN {NoMatch, -window.t.grid.offset} ELSE {NoMatch}]

Absolute(x) == x.t.grid.history + x.t.vi

(* An event of a batch: window becomes v. *)
Handle(v) ==
  /\ window' = v
  /\ batch' = IF batch.open THEN batch ELSE [open |-> TRUE, was |-> search_active(window)]
  /\ UNCHANGED scenario

(* A search that the display has been updated for. *)
Kept == IF search_active(window) /\ ~(batch.open /\ ~batch.was) THEN before ELSE NoMatch

(* The vi mode cursor is in the last line of a view that the search bar covers: one
   that is scrolled back, or that does not scroll for the bar, as the cursor of the
   program is above its last line. *)
UnderTheBar(x) ==
  x.t.vi + x.t.grid.offset = x.t.lines - 1 /\ (x.t.grid.offset # 0 \/ x.t.grid.cursor # x.t.lines - 1)

(* The bar can be given its line without losing the oldest line, from which lines are
   counted. *)
Recoverable(x) == ~x.pending /\ ~UnderTheBar(x) /\ x.t.grid.history < x.t.grid.limit

Bounded(v) == (\A i \in DOMAIN v.history : v.history[i] <= MaxRegex) /\ v.delta \in -MaxDelta .. MaxDelta

KeyDown ==
  \E p \in scenario.presses, x \in Outcomes :
    \E v \in {KeyPress([window EXCEPT !.written = FALSE], p[1], p[2], x)} :
      /\ Bounded(v)
      /\ Handle(v)
      /\ before' = CASE ~search_active(window) /\ search_active(v) /\ ViMode(v) /\ Recoverable(window) -> Absolute(window)
                     [] search_active(window) /\ (search_active(v) \/ p[1].name = "Escape") -> Kept
                     [] OTHER -> NoMatch

KeyUp ==
  "release" \in scenario.events /\ Handle(KeyRelease(window)) /\ before' = Kept

FocusChange ==
  "focus" \in scenario.events /\ Handle(Focused(window, ~window.isFocused)) /\ before' = Kept

InputMethod ==
  /\ window.ime = {}
  /\ \/ "preedit" \in scenario.events /\ Handle(Preedit(window, ~window.preedit))
     \/ "commit" \in scenario.events
        /\ \E x \in Outcomes : \E v \in {Commit([window EXCEPT !.written = FALSE], x)} : Bounded(v) /\ Handle(v)
  /\ before' = Kept

StartHint ==
  /\ \E action \in {"Command", "Copy", "Paste", "Select", "MoveViModeCursor"} :
       action \in scenario.events /\ window.hint = "none" /\ Handle(mark_dirty([window EXCEPT !.hint = action]))
  /\ before' = Kept

ScrollWheel ==
  /\ "wheel" \in scenario.events
  /\ \E n \in {-1, 1} : Handle(scroll(window, n))
  /\ before' = Kept

(* A timer expires, and its event arrives. *)
Expire ==
  /\ Len(window.queue) < MaxQueue
  /\ \E timer \in window.timers : window' = FireTimer(window, timer)
  /\ UNCHANGED << scenario, batch, before >>

Arrive ==
  /\ window.queue # << >>
  /\ \E x \in Outcomes : Handle(TimerEvent([window EXCEPT !.queue = Tail(@)], Head(window.queue), x))
  /\ before' = Kept

(* The end of a batch. *)
EndOfBatch ==
  /\ batch.open
  /\ window' = submit_display_update(window, batch.was)
  /\ batch' = Closed
  /\ UNCHANGED << scenario, before >>

Draw ==
  /\ ~batch.open /\ window.dirty
  /\ window' = [window EXCEPT !.dirty = FALSE]
  /\ UNCHANGED << scenario, batch, before >>

(* The program writes a line; its Wakeup event marks the window dirty. *)
Output ==
  /\ "output" \in scenario.events /\ ~batch.open
  /\ window.t.grid.history < window.t.grid.limit
  /\ window' = mark_dirty([window EXCEPT !.t = linefeed(@)])
  /\ before' = NoMatch
  /\ UNCHANGED << scenario, batch >>

WindowNext == KeyDown \/ KeyUp \/ FocusChange \/ InputMethod \/ StartHint \/ ScrollWheel \/ Expire \/ Arrive
        \/ EndOfBatch \/ Draw \/ Output
WindowSpec == WindowInit /\ [][WindowNext]_windowVars

(* The window's state: the index is one of the history, the cursor is on the screen
   and the focused match in the grid. *)
WindowTypeOK ==
  /\ window.index \in -1 .. Len(window.history) - 1
  /\ Len(window.history) <= MaxSearchHistory
  /\ window.t.grid.offset \in 0 .. window.t.grid.history
  /\ window.t.grid.cursor \in 0 .. window.t.lines - 1
  /\ window.timers \subseteq {"BlinkCursor", "BlinkTimeout", "DelayedSearch"}
  /\ window.ime \subseteq {"FOCUS", "VI"}
  /\ window.focused \in GridLines(dims(window.t)) \union {NoMatch}

(* The vi mode cursor is in a line of the view, wherever searches, hints, output and the
   line of the search bar have moved either ("Clamp vi mode cursor to the viewport", scroll_display). *)
ViInView == window.t.vi + window.t.grid.offset \in 0 .. window.t.lines - 1

(* Leaving a search in vi mode by canceling it, with nothing but the search and the
   user having moved the view since it began, the cursor not on the line that the
   search bar covers then, and room in the scrollback (a full one loses the line from which
   lines are counted here), brings the vi mode cursor back to the text that it
   was on (search_reset_state, "Recover pre-search state in vi mode", with the line of
   the search bar taken from the terminal and given back). *)
CancelRecovers ==
  before # NoMatch /\ ~search_active(window) /\ ~batch.open => Absolute(window) = before

(* Once blinking has timed out the cursor is visible and stays so until the user types:
   a BlinkCursor event that was on its way does not hide it, and its timer is gone. *)
TimedOutShows == window.timedOut => ~window.hidden /\ "BlinkCursor" \notin window.timers

(* In vi mode, unless a character is awaited by a search or an inline search, the input
   method is off ("We don't want IME in Vi mode.", toggle_vi_mode).  Left out are users of a
   hint that moves the vi mode cursor: trigger_hint enters vi mode and leaves the input
   method on. *)
ImeOffInViMode ==
  ViMode(window) /\ ~search_active(window) /\ ~window.charPending /\ "MoveViModeCursor" \notin scenario.events =>
    "VI" \in window.ime

(* What a window shows: of the vi mode cursor in vi mode, of a selection when it has cells. *)
Visible(x) == << ViMode(x), IF ViMode(x) THEN x.t.vi ELSE 0, x.t.grid.offset,
                 IF x.t.sel = NoSelection \/ is_empty(x.t.sel) THEN NoSelection ELSE x.t.sel, x.hidden, x.preedit, x.hint,
                 IF search_active(x) THEN Regex(x) ELSE -1, x.focused >>

(* The match of a regex that is not valid any more: the next search from it moves the view to
   it and then, with no dfas, returns before it marks the window dirty (advance_search_origin). *)
StaleMatch(x) == search_active(x) /\ ~x.dfas /\ x.focused # NoMatch

(* An event that changes what the window shows asks for it to be drawn. *)
RedrawsChanges ==
  Visible(window') # Visible(window) => window'.dirty \/ window'.pending \/ StaleMatch(window)

(* The regexes of earlier searches stay in the history, behind those of the searches that
   an event begins ("the first element is the user's current input", SearchState); the one
   that is shown again may be emptied, as search_pop_word deletes its word in place.  With a
   full history the oldest ones go. *)
OldRegexesStay ==
  LET begun == Len(window'.history) - Len(window.history)
  IN  Len(window'.history) < MaxSearchHistory =>
        /\ begun >= 0
        /\ \A i \in 2 .. Len(window.history) : window'.history[i + begun] \in {window.history[i], 0}

(* WindowSteps: no event changes what the window shows without having it drawn, nor a
   regex of an earlier search. *)
WindowSteps == [][RedrawsChanges /\ OldRegexesStay]_windowVars

(* WindowInv: in whatever order keys, timers, focus changes and the input method come,
   blinking, the input method and the vi mode cursor end up as the window's modes say. *)
WindowInv == WindowTypeOK /\ ViInView /\ TimedOutShows /\ ImeOffInViMode
===============================================================================
