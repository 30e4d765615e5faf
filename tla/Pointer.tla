------------------------------- MODULE Pointer -------------------------------
(***************************************************************************)
(* Mouse and touch input of a window (cutty/src/input/mod.rs, and Mouse,   *)
(* TouchPurpose and the selection methods of cutty/src/event.rs).          *)
(*                                                                         *)
(* A pointer is [mode, buttons, mods, at, click, lastButton, selection,    *)
(* scrolling, block, message, accumulated, touch, and what the last event  *)
(* did: launched, lines].  `at` is the place of the mouse: a cell of the   *)
(* text, or "above" or "below" it.  `selection` is "none", "empty" or      *)
(* "some".  `scrolling` tells whether the SelectionScrolling timer runs,   *)
(* `block` is block_hint_launcher.  Pixels and lines are along the y axis; *)
(* the x axis is treated alike.  What is reported to the program changes   *)
(* nothing here.                                                           *)
(***************************************************************************)
EXTENDS Integers, Sequences, FiniteSets

CONSTANTS CellHeight,   \* pixels
          Multiplier,   \* scrolling.multiplier
          NoFinger

ASSUME PointerAssumption == CellHeight \in Nat \ {0} /\ Multiplier \in Nat \ {0}

MouseModes == {"MOUSE_REPORT_CLICK", "MOUSE_MOTION", "MOUSE_DRAG"}
NoTouch == [purpose |-> "None", first |-> NoFinger, slots |-> {}]

NewPointer ==
  [mode |-> {}, buttons |-> {}, mods |-> {}, at |-> "a", click |-> "None", lastButton |-> "Left",
   selection |-> "none", scrolling |-> FALSE, block |-> FALSE, message |-> FALSE,
   accumulated |-> 0, touch |-> NoTouch, launched |-> FALSE, lines |-> 0]

(* ActionContext::mouse_mode *)
mouse_mode(p) == p.mode \intersect MouseModes # {} /\ "VI" \notin p.mode
ToProgram(p) == "SHIFT" \notin p.mods /\ mouse_mode(p)
selection_is_empty(p) == p.selection # "some"

(* ActionContext::pointer_clear_selection, pointer_start_selection and pointer_update_selection *)
pointer_clear_selection(p) == [p EXCEPT !.selection = "none"]
pointer_start_selection(p, ty) == [p EXCEPT !.selection = IF ty \in {"Simple", "Block"} THEN "empty" ELSE "some"]
pointer_update_selection(p) == [p EXCEPT !.selection = IF @ = "none" THEN @ ELSE "some"]

(* Processor::update_selection_scrolling *)
update_selection_scrolling(p, at) == [p EXCEPT !.scrolling = at \in {"above", "below"}]

(* Processor::mouse_moved *)
mouse_moved(p, at) ==
  LET pressed == p.buttons \intersect {"Left", "Right"} # {}
      s == IF ~selection_is_empty(p) /\ pressed THEN update_selection_scrolling(p, at) ELSE p
      q == [s EXCEPT !.at = at, !.block = TRUE]
  IN  IF p.at = at THEN s
      ELSE IF pressed /\ ("SHIFT" \in p.mods \/ ~mouse_mode(p)) THEN pointer_update_selection(q) ELSE q

(* Processor::on_left_click *)
on_left_click(p) ==
  LET control == "CONTROL" \in p.mods
      selected == pointer_start_selection(IF p.click = "Click" THEN pointer_clear_selection(p) ELSE p,
                    CASE p.click = "DoubleClick" -> "Semantic" [] p.click = "TripleClick" -> "Lines"
                      [] OTHER -> IF control THEN "Block" ELSE "Simple")
  IN  IF p.click = "Click" THEN [selected EXCEPT !.block = ~selection_is_empty(p)]
      ELSE IF control THEN p ELSE [selected EXCEPT !.block = TRUE]

(* Processor::on_mouse_press; `soon` says that CLICK_THRESHOLD has not passed
   since the last click. *)
on_mouse_press(p, button, soon) ==
  LET click == CASE button # p.lastButton -> "Click"
                 [] button = p.lastButton /\ p.click = "Click" /\ soon -> "DoubleClick"
                 [] button = p.lastButton /\ p.click = "DoubleClick" /\ soon -> "TripleClick"
                 [] OTHER -> "Click"
      q == [p EXCEPT !.click = click, !.lastButton = button]
  IN  IF ToProgram(p) THEN [p EXCEPT !.click = "None"]
      ELSE IF button = "Left" THEN on_left_click(q) ELSE q

(* ActionContext::expand_selection, the action bound to the right button. *)
expand_selection(p) == IF p.click = "None" THEN p ELSE pointer_update_selection(p)

(* Processor::process_mouse_bindings: bindings without shift are used in mouse
   mode when shift is held, and only then. *)
process_mouse_bindings(p, button) ==
  IF button = "Right" /\ (mouse_mode(p) <=> "SHIFT" \in p.mods) THEN expand_selection(p) ELSE p

(* Processor::on_mouse_release; `hint` says that a hint is highlighted. *)
on_mouse_release(p, button, hint) ==
  IF ToProgram(p) THEN p
  ELSE [p EXCEPT !.launched = hint /\ button = "Left" /\ ~p.block, !.scrolling = FALSE]

(* Processor::mouse_input; a press on the close button of the message bar,
   below the text, does nothing else. *)
OnCloseButton(p) == p.message /\ p.at = "below"
Press(p, button, soon) ==
  LET q == [p EXCEPT !.buttons = @ \union {button}]
  IN  IF OnCloseButton(p) THEN [pointer_clear_selection(q) EXCEPT !.message = FALSE]
      ELSE process_mouse_bindings(on_mouse_press(q, button, soon), button)
Release(p, button, hint) == on_mouse_release([p EXCEPT !.buttons = @ \ {button}], button, hint)

(* Processor::scroll_terminal: the lines go to a binding, the program or the
   display, in the direction of this event. *)
scroll_terminal(p, px, multiplier) ==
  LET total == p.accumulated + px * (IF mouse_mode(p) THEN 1 ELSE multiplier)
      size  == IF total < 0 THEN -total ELSE total
      lines == size \div CellHeight
      rest  == size % CellHeight
  IN  [p EXCEPT !.accumulated = IF total < 0 THEN -rest ELSE rest,
                !.lines = IF px > 0 THEN lines ELSE -lines]

(* Processor::mouse_wheel_input *)
Wheel(p, lines)    == scroll_terminal(p, lines * CellHeight, Multiplier)
Touchpad(p, px)    == scroll_terminal(p, px, Multiplier)
TouchpadStarted(p) == [p EXCEPT !.accumulated = 0]

Gesture(p, purpose, first, slots) ==
  [p EXCEPT !.touch = [purpose |-> purpose, first |-> first, slots |-> slots]]

(* Processor::on_touch_start; the new finger is not among the slots of a
   gesture that it makes invalid. *)
on_touch_start(p, id) ==
  LET t == p.touch
  IN  CASE t.purpose = "None" -> Gesture(p, "Tap", id, {id})
        [] t.purpose \in {"Tap", "ZoomPendingSlot"} -> Gesture(p, "Zoom", t.first, {t.first, id})
        [] t.purpose \in {"Zoom", "Scroll", "Select"} -> Gesture(p, "Invalid", NoFinger, t.slots)
        [] t.purpose = "Invalid" -> Gesture(p, "Invalid", NoFinger, t.slots \union {id})

(* Processor::on_touch_motion, to `at` and by px, with `drag` the direction that
   exceeds MAX_TAP_DISTANCE.  Any finger that moves goes on with a scroll, and
   TouchZoom::font_delta takes one that is not its first slot for the second. *)
on_touch_motion(p, id, at, px, drag) ==
  LET t == p.touch
      select == Press(mouse_moved([p EXCEPT !.touch.purpose = "Select"], "a"), "Left", FALSE)
  IN  CASE t.purpose = "Tap" /\ drag = "x" -> mouse_moved(select, at)
        [] t.purpose = "Scroll" \/ (t.purpose = "Tap" /\ drag = "y") ->
             scroll_terminal(Gesture(p, "Scroll", id, {id}), px, 1)
        [] t.purpose = "Zoom" /\ id # t.first -> Gesture(p, "Zoom", t.first, {t.first, id})
        [] t.purpose = "Select" -> mouse_moved(p, at)
        [] OTHER -> p

(* Mutant of on_touch_end: an invalid gesture does not let go of a finger. *)
on_touch_end_Keeps(p, id, hint) ==
  IF p.touch.purpose = "Invalid" THEN p ELSE [p EXCEPT !.touch = NoTouch]

(* Processor::on_touch_end, after the motion up to there. *)
on_touch_end(p, id, hint) ==
  LET gone  == [p EXCEPT !.touch = NoTouch]
      slots == p.touch.slots \ {id}
      other == CHOOSE s \in slots : TRUE
      tap   == Press(mouse_moved(gone, "a"), "Left", FALSE)
  IN  CASE p.touch.purpose = "Tap" -> Release(tap, "Left", hint)
        [] p.touch.purpose = "Zoom" -> Gesture(p, "ZoomPendingSlot", other, {other})
        [] p.touch.purpose = "Invalid" -> IF slots = {} THEN gone ELSE Gesture(p, "Invalid", NoFinger, slots)
        [] p.touch.purpose = "Select" -> Release(gone, "Left", hint)
        [] OTHER -> gone

(* Processor::modifiers_input *)
modifiers_input(p, mods) == [p EXCEPT !.mods = mods]
-------------------------------------------------------------------------------
(* How the mouse is reported to the program (Processor::mouse_report): a report is
   the sequence of its bytes after the introducer, which tells the encodings apart no
   further than SGR from the others; SGR's are the numbers it has in decimal.  No
   report at all is the empty sequence. *)
Byte(n) == n % 256

(* normal_mouse_report *)
mouse_pos_encode(pos) == << Byte(192 + (33 + pos) \div 64), Byte(128 + ((33 + pos) % 64)) >>

normal_mouse_report(line, column, button, utf8) ==
  LET max_point == IF utf8 THEN 2015 ELSE 223
      Encoded(pos) == IF utf8 /\ pos >= 95 THEN mouse_pos_encode(pos) ELSE << Byte(33 + pos) >>
  IN  IF line >= max_point \/ column >= max_point THEN << >>
      ELSE << 32 + button >> \o Encoded(column) \o Encoded(line)

sgr_mouse_report(line, column, button, state) == << button, column + 1, line + 1, state >>

(* mouse_report; the line is one of the grid, negative in the scrollback. *)
mouse_report(line, column, button, state, mods, modes) ==
  LET bits == (IF "SHIFT" \in mods THEN 4 ELSE 0) + (IF "ALT" \in mods THEN 8 ELSE 0) + (IF "CONTROL" \in mods THEN 16 ELSE 0)
  IN  IF line < 0 THEN << >>
      ELSE IF "SGR_MOUSE" \in modes THEN sgr_mouse_report(line, column, button + bits, state)
      ELSE normal_mouse_report(line, column, (IF state = "Released" THEN 3 ELSE button) + bits, "UTF8_MOUSE" \in modes)
-------------------------------------------------------------------------------
(* What a program reads: the position that a sequence of bytes, UTF-8 or not, begins with
   and the bytes that follow it. *)
ReadPosition(bytes, utf8) ==
  IF utf8 /\ bytes[1] >= 192
    THEN [at |-> (bytes[1] - 192) * 64 + bytes[2] - 128 - 33, rest |-> SubSeq(bytes, 3, Len(bytes))]
    ELSE [at |-> bytes[1] - 33, rest |-> Tail(bytes)]
===============================================================================
