------------------------------- MODULE Window --------------------------------
(***************************************************************************)
(* What a window does with keys, text, focus, hints and timer events       *)
(* (cutty/src/event.rs, Action::execute of cutty/src/input/mod.rs and      *)
(* key_input of cutty/src/input/keyboard.rs).                              *)
(*                                                                         *)
(* A window is a record: the terminal t of module Viewport; the search:    *)
(* history of regexes, of which only the length is kept, index in it or    *)
(* None, whether it has a dfas, the line of the focused match, origin,     *)
(* delta (display_offset_delta) and direction; the inline search; the hint *)
(* being selected; the preedit text, focus and cursor blinking of the      *)
(* display, and whether its cursor is configured to blink; the timers of   *)
(* the scheduler for this window and the events that timers have sent and  *)
(* the window has not seen; the reasons why the input method is off; dirty *)
(* and pending_update.dirty; and whether the last event wrote to the       *)
(* program.  `found` is what a search finds: a line, or NoMatch.           *)
(***************************************************************************)
EXTENDS Viewport, Bindings

CONSTANTS MaxSearchHistory,   \* MAX_SEARCH_HISTORY_SIZE
          SearchLimit         \* MAX_SEARCH_WHILE_TYPING

NoMatch == 1000

NewWindow(t, blinking) ==
  [t |-> t, height |-> t.lines, blinking |-> blinking,
   history |-> << >>, index |-> -1, dfas |-> FALSE, focused |-> NoMatch, origin |-> 0, delta |-> 0,
   direction |-> "Right",
   charPending |-> FALSE, character |-> FALSE,
   hint |-> "none", preedit |-> FALSE,
   isFocused |-> TRUE, hidden |-> FALSE, timedOut |-> FALSE, timers |-> {}, queue |-> << >>,
   ime |-> {}, dirty |-> FALSE, pending |-> FALSE, written |-> FALSE]

ViMode(w) == "VI" \in w.t.mode
search_active(w) == w.index # -1
mark_dirty(w) == [w EXCEPT !.dirty = TRUE]
Unschedule(w, timer) == [w EXCEPT !.timers = @ \ {timer}]
Schedule(w, timer) == [w EXCEPT !.timers = @ \union {timer}]

(* Window::set_ime_inhibitor *)
set_ime_inhibitor(w, inhibitor, inhibit) ==
  [w EXCEPT !.ime = IF inhibit THEN @ \union {inhibitor} ELSE @ \ {inhibitor}]

(* ActionContext::update_cursor_blinking, schedule_blinking and
   schedule_blinking_timeout; the program shows the cursor. *)
update_cursor_blinking(w) ==
  LET reset == [w EXCEPT !.timers = @ \ {"BlinkCursor", "BlinkTimeout"}, !.timedOut = FALSE]
  IN  IF w.blinking /\ ~w.preedit /\ w.isFocused
        THEN [reset EXCEPT !.timers = @ \union {"BlinkCursor", "BlinkTimeout"}]
        ELSE [reset EXCEPT !.hidden = FALSE, !.dirty = TRUE]

(* ActionContext::on_typing_start *)
on_typing_start(w) ==
  IF "BlinkCursor" \in w.timers THEN [w EXCEPT !.hidden = FALSE, !.dirty = @ \/ w.hidden]
  ELSE IF w.timedOut THEN update_cursor_blinking(w) ELSE w

(* ActionContext::clear_selection, start_selection, update_selection and
   toggle_selection *)
clear_selection(w) ==
  [w EXCEPT !.t.sel = NoSelection, !.dirty = @ \/ (w.t.sel # NoSelection /\ ~is_empty(w.t.sel))]
start_selection(w, ty, line) ==
  [w EXCEPT !.t.sel = new_selection(ty, Point(line, 0), "Left"), !.dirty = TRUE]
update_selection(w, line, side) ==
  LET sel == update(w.t.sel, Point(line, 0), side)
  IN  IF w.t.sel = NoSelection THEN w
      ELSE IF ViMode(w) /\ ~search_active(w)
        THEN [w EXCEPT !.t.sel = include_all(sel), !.t.vi = line, !.dirty = TRUE]
        ELSE [w EXCEPT !.t.sel = sel, !.dirty = TRUE]
toggle_selection(w, ty) ==
  CASE w.t.sel # NoSelection /\ ~is_empty(w.t.sel) /\ w.t.sel.ty = ty -> clear_selection(w)
    [] w.t.sel # NoSelection /\ ~is_empty(w.t.sel) /\ w.t.sel.ty # ty -> mark_dirty([w EXCEPT !.t.sel.ty = ty])
    [] OTHER -> start_selection(w, ty, w.t.vi)

(* Mutant of scroll: a move of the vi mode cursor alone is not drawn. *)
scroll_CursorUndrawn(w, count) ==
  LET t == scroll_display(w.t, count)
      changed == w.t.grid.offset - t.grid.offset
  IN  [w EXCEPT !.t = t, !.delta = IF search_active(w) THEN @ + changed ELSE @, !.dirty = @ \/ changed < 0]

(* ActionContext::scroll, once the terminal has scrolled its display. *)
Scrolled(w, t) ==
  LET changed == w.t.grid.offset - t.grid.offset
      Selecting(s) == IF ViMode(w) /\ t.sel # NoSelection /\ ~is_empty(t.sel) THEN update_selection(s, t.vi, "Right") ELSE s
      Typing(s) == IF ViMode(w) THEN on_typing_start(s) ELSE s
  IN  [Typing(Selecting([w EXCEPT !.t = t, !.delta = IF search_active(w) THEN @ + changed ELSE @])) EXCEPT
         !.dirty = @ \/ changed # 0 \/ (ViMode(w) /\ t.vi # w.t.vi)]
scroll(w, count) == Scrolled(w, scroll_display(w.t, count))

(* Mutant of search_reset_state: the view stays where the search left it. *)
search_reset_state_ViewStays(w) ==
  LET s == [Unschedule(w, "DelayedSearch") EXCEPT !.focused = NoMatch]
  IN  IF ~ViMode(w) THEN s
      ELSE [s EXCEPT !.t = scroll_display([w.t EXCEPT !.vi = w.origin], 0), !.delta = 0, !.dirty = TRUE]

(* ActionContext::search_reset_state *)
search_reset_state(w) ==
  LET s == [Unschedule(w, "DelayedSearch") EXCEPT !.focused = NoMatch]
  IN  IF ~ViMode(w) THEN s
      ELSE [s EXCEPT !.t = scroll_display([w.t EXCEPT !.vi = w.origin], w.delta), !.delta = 0, !.dirty = TRUE]

(* ActionContext::goto_match *)
goto_match(w, limited, found) ==
  LET limit == limited /\ SearchLimit <= total_lines(dims(w.t))
      t == IF ViMode(w) THEN vi_goto_point(w.t, found) ELSE scroll_to_point(w.t, found)
  IN  CASE ~w.dfas -> w
        [] w.dfas /\ found # NoMatch ->
             [Unschedule(w, "DelayedSearch") EXCEPT !.t = t, !.focused = found, !.dirty = TRUE,
                !.delta = @ + w.t.grid.offset - t.grid.offset]
        [] w.dfas /\ found = NoMatch /\ ~limit -> mark_dirty(search_reset_state(w))
        [] w.dfas /\ found = NoMatch /\ limit ->
             [Schedule(w, "DelayedSearch") EXCEPT !.focused = NoMatch, !.dirty = TRUE]

Regex(w) == w.history[w.index + 1]

(* ActionContext::update_search; `valid` tells whether the regex is one. *)
update_search(w, valid, found) ==
  IF ~search_active(w) THEN w
  ELSE mark_dirty(IF Regex(w) = 0 THEN [search_reset_state(w) EXCEPT !.dfas = FALSE]
                  ELSE goto_match([w EXCEPT !.dfas = valid], TRUE, found))

(* ActionContext::exit_search *)
exit_search(w) ==
  [set_ime_inhibitor(w, "VI", ViMode(w)) EXCEPT !.pending = TRUE, !.index = -1, !.focused = NoMatch]

(* ActionContext::cancel_search *)
cancel_search(w) ==
  LET s == IF ViMode(w) THEN search_reset_state(w)
           ELSE IF w.focused # NoMatch
             THEN update_selection(start_selection(w, "Simple", w.focused), w.focused, "Right")
           ELSE w
  IN  exit_search([s EXCEPT !.dfas = FALSE])

(* ActionContext::confirm_search *)
confirm_search(w, found) ==
  IF ~ViMode(w) THEN cancel_search(w)
  ELSE exit_search(IF "DelayedSearch" \in w.timers THEN goto_match(w, FALSE, found) ELSE w)

(* The history of a search that starts. *)
NewRegex(history) ==
  IF history # << >> /\ Head(history) = 0 THEN history
  ELSE SubSeq(<< 0 >> \o history, 1, Smaller(Len(history) + 1, MaxSearchHistory))

(* ActionContext::start_search: the origin is a line. *)
start_search(w, direction) ==
  LET t == w.t
      atBottom == t.grid.cursor + 1 = t.lines
      top == -t.grid.offset - 1
      s == [w EXCEPT
              !.history = NewRegex(@), !.index = 0, !.direction = direction, !.focused = NoMatch, !.pending = TRUE,
              !.origin = IF ViMode(w) THEN (IF atBottom THEN t.vi - 1 ELSE t.vi)
                         ELSE IF direction = "Right" THEN top ELSE top + bottommost_line(dims(t)),
              !.delta = IF ViMode(w) THEN 0 ELSE @]
  IN  set_ime_inhibitor(s, "VI", FALSE)

(* ActionContext::search_input, for a printable character, a backspace or
   another control character. *)
search_input(w, c, valid, found) ==
  LET front == [w EXCEPT !.history[1] = Regex(w), !.index = 0]
      edited == [front EXCEPT !.history[1] = IF c = "backspace" THEN Larger(@ - 1, 0) ELSE @ + 1,
                              !.t.sel = IF ViMode(w) THEN @ ELSE NoSelection]
  IN  CASE ~search_active(w) -> w
        [] search_active(w) /\ c = "other" -> front
        [] search_active(w) /\ c # "other" -> update_search(edited, valid, found)

(* ActionContext::search_pop_word, on a regex of one word: the one that is
   shown, be it of the history. *)
search_pop_word(w) == IF ~search_active(w) THEN w ELSE update_search([w EXCEPT !.history[w.index + 1] = 0], FALSE, NoMatch)

(* ActionContext::search_history_previous and search_history_next *)
search_history_previous(w, valid, found) ==
  IF w.index + 1 >= Len(w.history) THEN w ELSE update_search([w EXCEPT !.index = @ + 1], valid, found)
search_history_next(w, valid, found) ==
  IF w.index = 0 THEN w ELSE update_search([w EXCEPT !.index = @ - 1], valid, found)

(* ActionContext::advance_search_origin; the lines next to a match are those of
   the match. *)
advance_search_origin(w, found) ==
  LET s == IF w.focused = NoMatch THEN w
           ELSE [w EXCEPT !.t = scroll_to_point(w.t, w.focused), !.delta = 0, !.origin = w.focused]
      From(u, there) ==
        LET delta == there.grid.offset - u.t.grid.offset
        IN  [u EXCEPT !.delta = delta, !.t = scroll_display(there, -delta), !.origin = u.focused]
      Advanced(u) == IF u.focused = NoMatch THEN u ELSE From(u, scroll_to_point(u.t, u.focused))
  IN  Advanced(goto_match(s, FALSE, found))

(* ActionContext::start_seeded_search, with a word of one character. *)
ViJump(w, line) == IF line = NoMatch THEN w ELSE mark_dirty([w EXCEPT !.t = vi_goto_point(w.t, line)])
start_seeded_search(w, direction, found, next) ==
  ViJump(confirm_search(search_input(start_search(clear_selection(w), direction), "print", TRUE, found), found), next)

(* ActionContext::start_inline_search, inline_search and inline_search_input:
   what is found is in the line of the cursor. *)
start_inline_search(w) == [w EXCEPT !.charPending = TRUE, !.character = FALSE]
inline_search(w, found) == IF w.character /\ found # NoMatch THEN mark_dirty(w) ELSE w
inline_search_input(w, text, found) ==
  IF text = << >> THEN w
  ELSE inline_search([set_ime_inhibitor(w, "VI", TRUE) EXCEPT !.charPending = FALSE, !.character = TRUE], found)

(* ActionContext::toggle_vi_mode *)
toggle_vi_mode_ui(w) ==
  LET s == IF ViMode(w) THEN [w EXCEPT !.dfas = FALSE] ELSE clear_selection(w)
      u == IF search_active(s) THEN cancel_search(s) ELSE s
      v == set_ime_inhibitor(u, "VI", ~ViMode(w))
  IN  [v EXCEPT !.t = toggle_vi_mode(v.t), !.dirty = TRUE]

(* ActionContext::on_terminal_input_start *)
on_terminal_input_start(w) ==
  LET s == clear_selection(on_typing_start(w))
  IN  IF s.t.grid.offset # 0 THEN scroll(s, -s.t.grid.offset) ELSE s
Write(w) == [on_terminal_input_start(w) EXCEPT !.written = TRUE]

(* ActionContext::paste of one character. *)
paste(w, valid, found) ==
  CASE search_active(w) -> search_input(w, "print", valid, found)
    [] ~search_active(w) /\ w.charPending -> inline_search_input(w, << 1 >>, found)
    [] OTHER -> Write(w)

(* ActionContext::trigger_hint on the match in a line. *)
trigger_hint(w, action, line, valid, found) ==
  CASE action \in {"Command", "Copy"} -> w
    [] action = "Paste" -> paste(w, valid, found)
    [] action = "Select" -> update_selection(start_selection(w, "Simple", line), line, "Right")
    [] action = "MoveViModeCursor" ->
         mark_dirty([w EXCEPT !.t = vi_goto_point(IF ViMode(w) THEN w.t ELSE toggle_vi_mode(w.t), line)])

(* ActionContext::hint_input and HintState::keyboard_input: a character cancels,
   selects the match of its label (in a line of the view) or narrows the choice. *)
hint_input(w, cancel, line, valid, found) ==
  CASE cancel -> mark_dirty([w EXCEPT !.hint = "none"])
    [] ~cancel /\ line = NoMatch -> mark_dirty(w)
    [] OTHER -> mark_dirty(trigger_hint([w EXCEPT !.hint = "none"], w.hint, line, valid, found))


(* The actions of Action::execute, by what they do; x has the outcomes of
   searches and motions: valid, found, next, and the line of a hint. *)
ViMotions == {"Up", "Down", "Left", "Right", "First", "Last", "FirstOccupied", "High", "Middle", "Low",
              "SemanticLeft", "SemanticRight", "SemanticRightEnd", "WordLeft", "WordRight",
              "WordRightEnd", "Bracket", "ParagraphUp", "ParagraphDown"}
SelectionType == [ToggleNormalSelection |-> "Simple", ToggleLineSelection |-> "Lines",
                  ToggleBlockSelection |-> "Block", ToggleSemanticSelection |-> "Semantic"]

ViAction(w, action, x) ==
  CASE ~ViMode(w) -> w
    [] ViMode(w) /\ action \in ViMotions ->
         mark_dirty([on_typing_start(w) EXCEPT !.t = vi_motion(@, IF x.next = NoMatch THEN @.vi ELSE x.next)])
    [] ViMode(w) /\ action \in DOMAIN SelectionType ->
         LET s == toggle_selection(w, SelectionType[action])
         IN  IF s.t.sel = NoSelection THEN s ELSE [s EXCEPT !.t.sel = include_all(@)]
    [] ViMode(w) /\ action \in {"SearchNext", "SearchPrevious"} ->
         ViJump(on_typing_start(w), IF w.dfas THEN x.next ELSE NoMatch)
    [] ViMode(w) /\ action = "CenterAroundViCursor" ->
         scroll(w, -w.t.grid.offset + (w.t.lines \div 2) - 1 - w.t.vi)
    [] ViMode(w) /\ action \in {"InlineSearchForward", "InlineSearchBackward", "InlineSearchForwardShort",
                                "InlineSearchBackwardShort"} -> start_inline_search(w)
    [] ViMode(w) /\ action \in {"InlineSearchNext", "InlineSearchPrevious"} -> inline_search(w, x.found)
    [] ViMode(w) /\ action \in {"SemanticSearchForward", "SemanticSearchBackward"} ->
         start_seeded_search(w, IF action = "SemanticSearchForward" THEN "Right" ELSE "Left", x.found, x.next)
    [] OTHER -> w

SearchAction(w, action, x) ==
  CASE ~search_active(w) -> w
    [] search_active(w) /\ action \in {"SearchFocusNext", "SearchFocusPrevious"} -> advance_search_origin(w, x.found)
    [] search_active(w) /\ action = "SearchConfirm" -> confirm_search(w, x.found)
    [] search_active(w) /\ action = "SearchCancel" -> cancel_search(w)
    [] search_active(w) /\ action = "SearchClear" -> start_search(cancel_search(w), w.direction)
    [] search_active(w) /\ action = "SearchDeleteWord" -> search_pop_word(w)
    [] search_active(w) /\ action = "SearchHistoryPrevious" -> search_history_previous(w, x.valid, x.found)
    [] search_active(w) /\ action = "SearchHistoryNext" -> search_history_next(w, x.valid, x.found)

(* The scrolling actions: pages take the vi mode cursor along, and so do the
   ends of the scrollback. *)
ScrollAction(w, action) ==
  LET t == w.t
      Pages == [ScrollPageUp |-> t.lines, ScrollPageDown |-> -t.lines,
                ScrollHalfPageUp |-> t.lines \div 2, ScrollHalfPageDown |-> -(t.lines \div 2)]
      Paged(count) ==
        LET vi == Larger(Smaller(t.vi - count, bottommost_line(dims(t))), topmost_line(dims(t)))
        IN  scroll([w EXCEPT !.t.vi = vi, !.dirty = @ \/ vi # t.vi], count)
      Ended(s, line) == mark_dirty([s EXCEPT !.t = vi_motion([s.t EXCEPT !.vi = line], line)])
  IN  CASE action \in DOMAIN Pages   -> Paged(Pages[action])
        [] action = "ScrollLineUp"   -> scroll(w, 1)
        [] action = "ScrollLineDown" -> scroll(w, -1)
        [] action = "ScrollToTop"    -> Ended(scroll(w, t.grid.history), topmost_line(dims(t)))
        [] action = "ScrollToBottom" -> Ended(scroll(w, -t.grid.offset), bottommost_line(dims(t)))
ScrollActions == {"ScrollPageUp", "ScrollPageDown", "ScrollHalfPageUp", "ScrollHalfPageDown",
                  "ScrollLineUp", "ScrollLineDown", "ScrollToTop", "ScrollToBottom"}
SearchActions == {"SearchFocusNext", "SearchFocusPrevious", "SearchConfirm", "SearchCancel", "SearchClear",
                  "SearchDeleteWord", "SearchHistoryPrevious", "SearchHistoryNext"}
NoEffect == {"Copy", "ClearLogNotice", "ReceiveChar", "Open"}

(* Action::execute *)
execute(w, action, x) ==
  CASE action = "Esc" -> paste(w, x.valid, x.found)
    [] action = "ToggleViMode" -> toggle_vi_mode_ui(on_typing_start(w))
    [] action \in SearchActions -> SearchAction(w, action, x)
    [] action = "SearchForward" -> start_search(w, "Right")
    [] action = "SearchBackward" -> start_search(w, "Left")
    [] action = "ClearSelection" -> clear_selection(w)
    [] action \in {"Paste", "PasteSelection"} -> paste(w, x.valid, x.found)
    [] action \in {"IncreaseFontSize", "DecreaseFontSize", "ResetFontSize"} -> [w EXCEPT !.pending = TRUE]
    [] action \in ScrollActions -> ScrollAction(w, action)
    [] action \in NoEffect -> w
    [] OTHER -> ViAction(w, action, x)

(* The loop of Processor::process_key_bindings: the actions of the bindings that are
   triggered, in their order. *)
Executed(w, key, mods, x) ==
  LET mode == BindingMode(w.t.mode, search_active(w))
      input == Trigger(key, mods)
      After[k \in 0 .. Len(default_key_bindings)] ==
        IF k = 0 THEN w
        ELSE IF is_triggered_by(default_key_bindings[k], mode, mods, input)
          THEN execute(After[k - 1], default_key_bindings[k].action, x)
        ELSE After[k - 1]
  IN  After[Len(default_key_bindings)]

(* Processor::key_input.  A key of a search is a printable character, a
   backspace or another control character. *)
SearchKey(code) == IF code \in {8, 127} THEN "backspace" ELSE IF code \in 32 .. 126 THEN "print" ELSE "other"
KeyPress(w, key, mods, x) ==
  LET text == Text(key, mods)
      triggered == Triggered(default_key_bindings, BindingMode(w.t.mode, search_active(w)), mods, key)
      Unbound(done) ==
        IF search_active(done)
          THEN (IF text = << >> THEN done ELSE search_input(done, SearchKey(text[1]), x.valid, x.found))
        ELSE IF ViMode(w) \/ KeyPressed(key, mods, w.t.mode, "Pressed") = Nothing THEN done
        ELSE Write(done)
      Bound(done) == IF process_key_bindings(triggered) THEN done ELSE Unbound(done)
  IN  CASE w.preedit -> w
        [] ~w.preedit /\ w.hint # "none" ->
             IF text = << >> THEN w ELSE hint_input(w, text[1] \in {3, 27}, x.line, x.valid, x.found)
        [] ~w.preedit /\ w.hint = "none" /\ w.charPending -> inline_search_input(w, text, x.found)
        [] OTHER -> Bound(Executed(w, key, mods, x))

(* The release of a key; what is sent for it is Keyboard!key_release. *)
KeyRelease(w) == IF ~w.preedit /\ w.charPending THEN set_ime_inhibitor(w, "VI", FALSE) ELSE w

(* Processor::handle_event: focus, input method and timer events. *)
Focused(w, is_focused) ==
  set_ime_inhibitor(update_cursor_blinking([w EXCEPT !.isFocused = is_focused, !.dirty = TRUE]),
                    "FOCUS", ~is_focused)
Commit(w, x) == update_cursor_blinking(paste(mark_dirty(w), x.valid, x.found))
Preedit(w, preedit) ==
  IF w.preedit = preedit THEN w ELSE mark_dirty(update_cursor_blinking([w EXCEPT !.preedit = preedit]))

(* Mutant of BlinkCursor: it does not look whether the timeout is reached. *)
BlinkCursor_Always(w) == [w EXCEPT !.hidden = ~@, !.dirty = TRUE]
BlinkCursor(w) == IF w.timedOut THEN w ELSE [w EXCEPT !.hidden = ~@, !.dirty = TRUE]
BlinkCursorTimeout(w) == [Unschedule(w, "BlinkCursor") EXCEPT !.timedOut = TRUE, !.hidden = FALSE, !.dirty = TRUE]
TimerEvent(w, event, x) ==
  CASE event = "BlinkCursor" -> BlinkCursor(w)
    [] event = "BlinkTimeout" -> BlinkCursorTimeout(w)
    [] event = "DelayedSearch" -> goto_match(w, FALSE, x.found)

(* WindowContext::submit_display_update and Display::handle_update: the search
   bar takes a line from the terminal.  `was` tells whether a search was active
   before the events that lead here. *)
submit_display_update(w, was) ==
  LET t == w.t
      lines == Larger(w.height - (IF search_active(w) THEN 1 ELSE 0), 1)
      cursorAtBottom == t.grid.cursor + 1 = t.lines
      originAtBottom == IF ViMode(w) THEN t.vi = t.lines - 1 ELSE w.direction = "Left"
      WithBar(u) ==
        CASE was \/ ~search_active(w) -> u
          [] u.grid.offset = 0 /\ cursorAtBottom /\ ~originAtBottom /\ ~was /\ search_active(w) -> scroll_display(u, 1)
          [] u.grid.offset # 0 /\ originAtBottom /\ ~was /\ search_active(w) -> scroll_display(u, -1)
          [] OTHER -> u
  IN  IF ~w.pending THEN w
      ELSE [w EXCEPT !.t = WithBar(IF lines = t.lines THEN t ELSE resize_lines(t, lines)), !.pending = FALSE, !.dirty = TRUE,
                     !.focused = IF lines = t.lines THEN @ ELSE NoMatch]

(* Scheduler::update: a timer sends its event; the cursor's is repeated. *)
FireTimer(w, timer) ==
  [w EXCEPT !.timers = IF timer = "BlinkCursor" THEN @ ELSE @ \ {timer}, !.queue = Append(@, timer)]

===============================================================================
