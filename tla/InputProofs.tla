----------------------------- MODULE InputProofs -----------------------------
(***************************************************************************)
(* Proofs about the input of a window.                                     *)
(*                                                                         *)
(* The mouse and the touch screen, for any cell height, multiplier, scroll *)
(* deltas and set of fingers: gestures follow the fingers, scrolls add up, *)
(* and only a click launches a hint.  PointerGood is the inductive         *)
(* invariant.  It adds to PointerInv that block_hint_launcher is set       *)
(* whenever the mouse has moved since the press, which is why a release    *)
(* after a drag launches nothing, and which two fingers a zoom has, which  *)
(* is why it goes on with the other one when either goes up.               *)
(*                                                                         *)
(* The hint labels, for any alphabets and screens: they tell the matches   *)
(* apart, select the match they are drawn at, and never run out.  HintGood *)
(* is the inductive invariant, below.                                      *)
(*                                                                         *)
(* The damage of frames, for any windows, selections and hints: it has     *)
(* every cell that looks different from the frame before.  DamageGood is   *)
(* the inductive invariant: what was drawn last is what the tracker        *)
(* remembers, or it is damaged already.                                    *)
(***************************************************************************)
EXTENDS PointerSpec, HintSpec, DamageSpec, SequenceTheorems, FiniteSetTheorems, WellFoundedInduction, TLAPS

(* What a scroll may leave over: less than a line. *)
Leftovers == (1 - CellHeight)..(CellHeight - 1)

(* Division with remainder, the two operators scroll_terminal uses. *)
LEMMA DivMod ==
  ASSUME NEW n \in Nat, NEW d \in Nat \ {0}
  PROVE  /\ n \div d \in Nat /\ n % d \in 0..(d - 1)
         /\ n = d * (n \div d) + (n % d)
         /\ n < d => n \div d = 0
BY SMT

(* The arithmetic of scroll_terminal: lines and what is left over add up to the pixels.
   An event whose direction is not that of the total scrolls no line. *)
LEMMA Scrolled ==
  ASSUME NEW p, p.accumulated \in Leftovers, NEW px \in Int, NEW m \in Nat \ {0}
  PROVE  LET total == p.accumulated + px * m
             size  == IF total < 0 THEN -total ELSE total
             lines == size \div CellHeight
             rest  == size % CellHeight
             q == IF total < 0 THEN -rest ELSE rest
             l == IF px > 0 THEN lines ELSE -lines
         IN  q \in Leftovers /\ total = CellHeight * l + q
<1> DEFINE total == p.accumulated + px * m
           size  == IF total < 0 THEN -total ELSE total
           lines == size \div CellHeight
           rest  == size % CellHeight
<1>1. px * m \in Int /\ (px > 0 => px * m > 0) /\ (px < 0 => px * m < 0) /\ (px = 0 => px * m = 0)
  BY SMT
<1>2. p.accumulated \in Int /\ CellHeight \in Nat \ {0}
  BY PointerAssumption DEF Leftovers
<1>3. total \in Int /\ size \in Nat
  BY <1>1, <1>2
<1>4. lines \in Nat /\ rest \in 0..(CellHeight - 1) /\ size = (CellHeight * lines) + rest /\ (size < CellHeight => lines = 0)
  <2> HIDE DEF size
  <2> QED BY <1>2, <1>3, DivMod
<1>5. (IF total < 0 THEN -rest ELSE rest) \in Leftovers
  <2> HIDE DEF total, size, lines, rest
  <2> QED BY <1>2, <1>3, <1>4 DEF Leftovers
<1>6. total = CellHeight * (IF px > 0 THEN lines ELSE -lines) + (IF total < 0 THEN -rest ELSE rest)
  <2>1. CASE px > 0 /\ total < 0
    <3>1. size < CellHeight
      BY <2>1, <1>1, <1>2 DEF Leftovers
    <3>2. lines = 0
      BY <3>1, <1>4
    <3> QED BY <2>1, <3>2, <1>2, <1>3, <1>4
  <2>2. CASE ~(px > 0) /\ ~(total < 0)
    <3>1. size < CellHeight
      BY <2>2, <1>1, <1>2 DEF Leftovers
    <3>2. lines = 0
      BY <3>1, <1>4
    <3> QED BY <2>2, <3>2, <1>2, <1>3, <1>4
  <2>3. CASE px > 0 /\ ~(total < 0)
    BY <2>3, <1>2, <1>3, <1>4
  <2>4. CASE ~(px > 0) /\ total < 0
    <3>1. CellHeight * (-lines) = -(CellHeight * lines)
      <4> HIDE DEF lines
      <4> QED BY <1>2, <1>4
    <3>2. size = -total
      BY <2>4
    <3> HIDE DEF total, size, lines, rest
    <3> QED BY <2>4, <3>1, <3>2, <1>2, <1>3, <1>4
  <2> QED BY <2>1, <2>2, <2>3, <2>4
<1> QED BY <1>5, <1>6
(* The states of a pointer. *)
Purposes == {"None", "Tap", "Select", "Scroll", "Zoom", "ZoomPendingSlot", "Invalid"}
Touches == [purpose : Purposes, first : Fingers \union {NoFinger}, slots : SUBSET Fingers]
Buttons == {"Left", "Right"}
Clicks == {"None", "Click", "DoubleClick", "TripleClick"}
Pointers ==
  [mode : SUBSET (MouseModes \union {"VI"}), buttons : SUBSET Buttons, mods : SUBSET {"SHIFT", "CONTROL", "ALT"},
   at : Places, click : Clicks, lastButton : Buttons, selection : {"none", "empty", "some"},
   scrolling : BOOLEAN, block : BOOLEAN, message : BOOLEAN,
   accumulated : Int, touch : Touches, launched : BOOLEAN, lines : Int]

(* What steps of the mouse leave alone; Unmoved: its place, too. *)
Kept(q, p) ==
  /\ q \in Pointers /\ q.touch = p.touch /\ q.accumulated = p.accumulated
  /\ q.launched => p.launched

Unmoved(q, p) == Kept(q, p) /\ q.at = p.at

(* The steps on the selection touch nothing else. *)
LEMMA SelectionSteps ==
  ASSUME NEW p \in Pointers
  PROVE  /\ \A at : LET q == update_selection_scrolling(p, at) IN Unmoved(q, p) /\ q.block = p.block
         /\ LET q == pointer_clear_selection(p) IN Unmoved(q, p) /\ q.block = p.block
         /\ LET q == pointer_update_selection(p) IN Unmoved(q, p) /\ q.block = p.block
         /\ \A ty : LET q == pointer_start_selection(p, ty) IN Unmoved(q, p) /\ q.block = p.block
<1>1. ASSUME NEW at PROVE LET q == update_selection_scrolling(p, at) IN Unmoved(q, p) /\ q.block = p.block
  <2> DEFINE on == at \in {"above", "below"}
  <2>1. on \in BOOLEAN
    OBVIOUS
  <2>2. update_selection_scrolling(p, at) = [p EXCEPT !.scrolling = on]
    BY Zenon DEF update_selection_scrolling
  <2> HIDE DEF on
  <2> QED BY <2>1, <2>2 DEF Pointers, Kept, Unmoved
<1>2. LET q == pointer_clear_selection(p) IN Unmoved(q, p) /\ q.block = p.block
  BY DEF Pointers, Kept, Unmoved, pointer_clear_selection
<1>3. LET q == pointer_update_selection(p) IN Unmoved(q, p) /\ q.block = p.block
  BY DEF Pointers, Kept, Unmoved, pointer_update_selection
<1>4. ASSUME NEW ty PROVE LET q == pointer_start_selection(p, ty) IN Unmoved(q, p) /\ q.block = p.block
  BY DEF Pointers, Kept, Unmoved, pointer_start_selection
<1> QED BY <1>1, <1>2, <1>3, <1>4

(* What two steps keep, both keep. *)
LEMMA KeptTransitive ==
  ASSUME NEW p, NEW q, NEW r, Unmoved(q, p), Unmoved(r, q)
  PROVE  Unmoved(r, p)
BY DEF Kept, Unmoved

(* mouse_moved comes to the place and blocks hints if that is another one. *)
LEMMA Moved ==
  ASSUME NEW p \in Pointers, NEW at \in Places
  PROVE  LET q == mouse_moved(p, at)
         IN  Kept(q, p) /\ q.at = at /\ (at # p.at \/ p.block => q.block)
<1> DEFINE pressed == p.buttons \intersect {"Left", "Right"} # {}
           s == IF ~selection_is_empty(p) /\ pressed THEN update_selection_scrolling(p, at) ELSE p
           q == [s EXCEPT !.at = at, !.block = TRUE]
           u == pointer_update_selection(q)
<1>1. Unmoved(s, p) /\ s.block = p.block
  BY SelectionSteps DEF Unmoved, Kept
<1>2. Kept(q, p) /\ q.at = at /\ q.block
  <2> HIDE DEF s
  <2> QED BY <1>1 DEF Unmoved, Kept, Pointers
<1>3. Unmoved(u, q) /\ u.block = q.block
  <2> HIDE DEF q
  <2> QED BY <1>2, SelectionSteps DEF Kept
<1>4. mouse_moved(p, at) \in {u, q} \/ (p.at = at /\ mouse_moved(p, at) = s)
  BY Zenon DEF mouse_moved
<1> HIDE DEF s, q, u
<1>5. CASE p.at = at /\ mouse_moved(p, at) = s
  BY <1>1, <1>5 DEF Unmoved
<1>6. CASE mouse_moved(p, at) = q
  BY <1>2, <1>6
<1>7. CASE mouse_moved(p, at) = u
  BY <1>2, <1>3, <1>7 DEF Unmoved, Kept
<1> QED BY <1>4, <1>5, <1>6, <1>7

(* Blocking hints changes nothing else. *)
LEMMA Blocked ==
  ASSUME NEW p \in Pointers, NEW on \in BOOLEAN
  PROVE  Unmoved([p EXCEPT !.block = on], p)
BY DEF Unmoved, Kept, Pointers

(* on_left_click is a step of selection and block_hint_launcher only. *)
LEMMA LeftClicked ==
  ASSUME NEW p \in Pointers
  PROVE  Unmoved(on_left_click(p), p)
<1> DEFINE c == IF p.click = "Click" THEN pointer_clear_selection(p) ELSE p
           ty == CASE p.click = "DoubleClick" -> "Semantic" [] p.click = "TripleClick" -> "Lines"
                   [] OTHER -> IF "CONTROL" \in p.mods THEN "Block" ELSE "Simple"
           selected == pointer_start_selection(c, ty)
<1>1. Unmoved(p, p)
  BY DEF Unmoved, Kept
<1>2. Unmoved(c, p)
  BY <1>1, SelectionSteps
<1> HIDE DEF c, ty
<1>3. Unmoved(selected, c)
  BY <1>2, SelectionSteps DEF Unmoved, Kept
<1>4. Unmoved(selected, p)
  BY <1>2, <1>3, KeptTransitive
<1> HIDE DEF selected
<1>5. \A on \in BOOLEAN : Unmoved([selected EXCEPT !.block = on], p)
  BY <1>4, Blocked, KeptTransitive DEF Unmoved, Kept
<1>6. \/ on_left_click(p) = p
      \/ on_left_click(p) = [selected EXCEPT !.block = ~selection_is_empty(p)]
      \/ on_left_click(p) = [selected EXCEPT !.block = TRUE]
  BY Zenon DEF on_left_click, selected, c, ty
<1>7. (~selection_is_empty(p)) \in BOOLEAN
  BY DEF selection_is_empty
<1> QED BY Zenon, <1>1, <1>5, <1>6, <1>7

(* A press, on the close button, to the program or to the selection, scrolls nothing,
   ends no gesture and launches nothing. *)
LEMMA Pressed ==
  ASSUME NEW p \in Pointers, NEW button \in Buttons, NEW soon \in BOOLEAN
  PROVE  Unmoved(Press(p, button, soon), p)
<1> DEFINE q == [p EXCEPT !.buttons = @ \union {button}]
           click == CASE button # q.lastButton -> "Click"
                      [] button = q.lastButton /\ q.click = "Click" /\ soon -> "DoubleClick"
                      [] button = q.lastButton /\ q.click = "DoubleClick" /\ soon -> "TripleClick"
                      [] OTHER -> "Click"
           clicked == [q EXCEPT !.click = click, !.lastButton = button]
           pressed == on_mouse_press(q, button, soon)
<1>1. Unmoved(q, p)
  BY DEF Unmoved, Kept, Pointers
<1> HIDE DEF q
<1>2. q \in Pointers
  BY <1>1 DEF Unmoved, Kept
<1>3. click \in {"Click", "DoubleClick", "TripleClick"}
  BY Zenon
<1> HIDE DEF click
<1>4. Unmoved(clicked, q) /\ Unmoved([q EXCEPT !.click = "None"], q)
  BY <1>2, <1>3 DEF Unmoved, Kept, Pointers, Clicks
<1> HIDE DEF clicked
<1>5. pressed \in {[q EXCEPT !.click = "None"], on_left_click(clicked), clicked}
  BY Zenon DEF on_mouse_press, clicked, click
<1>6. Unmoved(on_left_click(clicked), q)
  BY <1>4, LeftClicked, KeptTransitive DEF Unmoved, Kept
<1>7. Unmoved(pressed, p)
  BY <1>1, <1>4, <1>5, <1>6, KeptTransitive
<1>8. pressed \in Pointers
  BY <1>7 DEF Unmoved, Kept
<1> HIDE DEF pressed
<1>9. Unmoved(process_mouse_bindings(pressed, button), p)
  <2>1. process_mouse_bindings(pressed, button) \in {pressed, pointer_update_selection(pressed)}
    BY Zenon DEF process_mouse_bindings, expand_selection
  <2> QED BY <1>7, <1>8, <2>1, SelectionSteps, KeptTransitive
<1>10. Unmoved([pointer_clear_selection(q) EXCEPT !.message = FALSE], p)
  <2>1. Unmoved(pointer_clear_selection(q), p)
    BY <1>1, <1>2, SelectionSteps, KeptTransitive
  <2> QED BY <2>1 DEF Unmoved, Kept, Pointers
<1>11. Press(p, button, soon) \in {[pointer_clear_selection(q) EXCEPT !.message = FALSE],
                                   process_mouse_bindings(pressed, button)}
  BY Zenon DEF Press, q, pressed
<1> QED BY Zenon, <1>9, <1>10, <1>11

(* A release launches a hint only if hints are not blocked. *)
LEMMA Released ==
  ASSUME NEW p \in Pointers, NEW button \in Buttons, NEW hint \in BOOLEAN, ~p.launched
  PROVE  LET q == Release(p, button, hint)
         IN  /\ q \in Pointers /\ q.touch = p.touch /\ q.accumulated = p.accumulated
             /\ q.block = p.block /\ (q.launched => ~p.block)
BY DEF Release, on_mouse_release, Pointers

(* scroll_terminal leaves less than a line over and loses nothing. *)
LEMMA ScrolledTo ==
  ASSUME NEW p \in Pointers, p.accumulated \in Leftovers, NEW px \in Int, NEW multiplier \in Nat \ {0}
  PROVE  LET q == scroll_terminal(p, px, multiplier)
         IN  /\ q \in Pointers /\ q.touch = p.touch /\ q.accumulated \in Leftovers
             /\ q.block = p.block /\ q.launched = p.launched
             /\ p.accumulated + px * (IF mouse_mode(p) THEN 1 ELSE multiplier) = CellHeight * q.lines + q.accumulated
<1> DEFINE m == IF mouse_mode(p) THEN 1 ELSE multiplier
           total == p.accumulated + px * m
           size  == IF total < 0 THEN -total ELSE total
           lines == size \div CellHeight
           rest  == size % CellHeight
           left == IF total < 0 THEN -rest ELSE rest
           l == IF px > 0 THEN lines ELSE -lines
<1>1. m \in Nat \ {0}
  OBVIOUS
<1>2. scroll_terminal(p, px, multiplier) = [p EXCEPT !.accumulated = left, !.lines = l]
  BY Zenon DEF scroll_terminal
<1>3. left \in Leftovers /\ total = CellHeight * l + left
  <2> HIDE DEF m
  <2> QED BY <1>1, Scrolled
<1>4. left \in Int /\ l \in Int
  <2>1. size \in Nat /\ CellHeight \in Nat \ {0}
    <3> HIDE DEF m
    <3> QED BY <1>1, PointerAssumption DEF Pointers
  <2>2. lines \in Nat
    <3> HIDE DEF size
    <3> QED BY <2>1
  <2> HIDE DEF left, lines
  <2> QED BY <1>3, <2>2, PointerAssumption DEF Leftovers
<1> HIDE DEF left, l, total
<1>5. /\ [p EXCEPT !.accumulated = left, !.lines = l] \in Pointers
      /\ [p EXCEPT !.accumulated = left, !.lines = l].accumulated = left
      /\ [p EXCEPT !.accumulated = left, !.lines = l].lines = l
      /\ [p EXCEPT !.accumulated = left, !.lines = l].touch = p.touch
      /\ [p EXCEPT !.accumulated = left, !.lines = l].block = p.block
      /\ [p EXCEPT !.accumulated = left, !.lines = l].launched = p.launched
  BY <1>4 DEF Pointers
<1> QED BY <1>2, <1>3, <1>5 DEF total

(* The gesture is of fingers on the screen. *)
Held(t, fs) ==
  /\ t.slots \subseteq fs
  /\ t.purpose = "None" <=> t.slots = {}
  /\ t.purpose \in {"Tap", "Select", "Scroll", "ZoomPendingSlot"} => t.slots = {t.first}
  /\ t.purpose = "Zoom" => \E other \in fs \ {t.first} : t.slots = {t.first, other}

(* The inductive invariant, of a pointer, the fingers and whether the mouse has moved. *)
Good(p, fs, mv) ==
  /\ p \in Pointers /\ fs \subseteq Fingers
  /\ p.accumulated \in Leftovers
  /\ Held(p.touch, fs)
  /\ mv => p.block
  /\ p.launched => ~mv

PointerGood == moved \in BOOLEAN /\ Good(pointer, fingers, moved)

(* A new gesture; the fields that neither a gesture nor a scroll changes. *)
Gestured(q, p, purpose, first, slots) ==
  /\ q \in Pointers /\ q.accumulated = p.accumulated /\ q.block = p.block /\ q.launched = p.launched
  /\ q.touch = [purpose |-> purpose, first |-> first, slots |-> slots]
Still(q, p) == q \in Pointers /\ q.block = p.block /\ q.launched = p.launched

(* A new gesture changes nothing else. *)
LEMMA Gestures ==
  ASSUME NEW p \in Pointers, NEW purpose \in Purposes, NEW first \in Fingers \union {NoFinger}, NEW slots \in SUBSET Fingers
  PROVE  LET q == Gesture(p, purpose, first, slots)
         IN  Gestured(q, p, purpose, first, slots)
BY DEF Gesture, Pointers, Touches, Still, Gestured

(* The lines of an event are gone with it. *)
LEMMA StepForgetsLines ==
  ASSUME NEW p, NEW fs, NEW mv, Good(p, fs, mv)
  PROVE  Good([p EXCEPT !.lines = 0], fs, mv)
BY DEF Good, Pointers

(* The launch of an event is gone with it. *)
LEMMA Fresh ==
  ASSUME NEW p, NEW fs, NEW mv, Good(p, fs, mv)
  PROVE  Good([p EXCEPT !.launched = FALSE], fs, mv) /\ ~[p EXCEPT !.launched = FALSE].launched
BY DEF Good, Pointers

(* The invariant holds at the start. *)
LEMMA InitGood == PointerInit => PointerGood
<1> SUFFICES ASSUME PointerInit PROVE PointerGood
  OBVIOUS
<1>1. NoTouch \in Touches
  BY DEF NoTouch, Touches, Purposes
<1>2. NewPointer \in Pointers
  BY <1>1 DEF NewPointer, Pointers, Buttons, Clicks, Places
<1>3. Held(NoTouch, {})
  BY DEF Held, NoTouch
<1>4. NewPointer.touch = NoTouch /\ NewPointer.accumulated = 0 /\ ~NewPointer.launched
  BY DEF NewPointer
<1>5. Good(NewPointer, {}, FALSE)
  BY <1>2, <1>3, <1>4, PointerAssumption DEF Good, Leftovers
<1> QED BY <1>5 DEF PointerInit, PointerGood

(* A finger that comes down keeps the invariant (on_touch_start). *)
LEMMA TouchStarts ==
  ASSUME NEW p, NEW fs, NEW mv, Good(p, fs, mv), ~p.launched, NEW id \in Fingers \ fs
  PROVE  Good(on_touch_start(p, id), fs \union {id}, mv)
<1> DEFINE t == p.touch
           q == on_touch_start(p, id)
<1>1. p \in Pointers /\ t \in Touches /\ Held(t, fs) /\ fs \subseteq Fingers
  BY DEF Good, Pointers
<1>2. t.purpose \in Purposes /\ t.slots \subseteq Fingers /\ t.first \in Fingers \union {NoFinger}
  BY <1>1 DEF Touches
<1>3. ASSUME NEW purpose \in Purposes, NEW first \in Fingers \union {NoFinger}, NEW slots \in SUBSET Fingers,
             q = Gesture(p, purpose, first, slots),
             Held([purpose |-> purpose, first |-> first, slots |-> slots], fs \union {id})
      PROVE  Good(q, fs \union {id}, mv)
  BY <1>1, <1>3, Gestures DEF Good, Gestured
<1>4. CASE t.purpose = "None"
  <2>1. q = Gesture(p, "Tap", id, {id})
    BY <1>4 DEF on_touch_start
  <2>2. Held([purpose |-> "Tap", first |-> id, slots |-> {id}], fs \union {id})
    BY DEF Held
  <2> QED BY <1>3, <2>1, <2>2 DEF Purposes
<1>5. CASE t.purpose \in {"Tap", "ZoomPendingSlot"}
  <2>1. q = Gesture(p, "Zoom", t.first, {t.first, id})
    BY <1>5 DEF on_touch_start
  <2>2. t.first \in fs
    BY <1>1, <1>5 DEF Held
  <2>3. Held([purpose |-> "Zoom", first |-> t.first, slots |-> {t.first, id}], fs \union {id})
    BY <2>2 DEF Held
  <2> QED BY <1>1, <1>3, <2>1, <2>2, <2>3 DEF Purposes
<1>6. CASE t.purpose \in {"Zoom", "Scroll", "Select"}
  <2>1. q = Gesture(p, "Invalid", NoFinger, t.slots)
    BY <1>6 DEF on_touch_start
  <2>2. Held([purpose |-> "Invalid", first |-> NoFinger, slots |-> t.slots], fs \union {id})
    BY <1>1, <1>6 DEF Held
  <2> QED BY <1>2, <1>3, <2>1, <2>2 DEF Purposes
<1>7. CASE t.purpose = "Invalid"
  <2>1. q = Gesture(p, "Invalid", NoFinger, t.slots \union {id})
    BY <1>7 DEF on_touch_start
  <2>2. Held([purpose |-> "Invalid", first |-> NoFinger, slots |-> t.slots \union {id}], fs \union {id})
    BY <1>1, <1>7 DEF Held
  <2> QED BY <1>2, <1>3, <2>1, <2>2 DEF Purposes
<1> QED BY <1>2, <1>4, <1>5, <1>6, <1>7 DEF Purposes

(* A finger that moves keeps the invariant, with `now` telling whether the mouse has come
   to another cell (on_touch_motion).  A gesture that stays a tap has not moved. *)
LEMMA TouchMoves ==
  ASSUME NEW p, NEW fs, NEW mv \in BOOLEAN, Good(p, fs, mv), ~p.launched, NEW id \in fs, NEW at \in Places,
         NEW px, p.touch.purpose \in {"Tap", "Scroll"} => px \in Int, NEW drag, NEW now \in BOOLEAN,
         p.touch.purpose = "Tap" /\ now => drag = "x" /\ at # "a",
         p.touch.purpose = "Select" /\ now => mv \/ at # p.at,
         p.touch.purpose \notin {"Tap", "Select"} /\ now => mv
  PROVE  LET q == on_touch_motion(p, id, at, px, drag)
         IN  Good(q, fs, now) /\ ~q.launched /\ (q.touch.purpose = "Tap" => ~now)
<1> DEFINE t == p.touch
           q == on_touch_motion(p, id, at, px, drag)
<1> SUFFICES Good(q, fs, now) /\ ~q.launched /\ (q.touch.purpose = "Tap" => ~now)
  OBVIOUS
<1>1. /\ p \in Pointers /\ t \in Touches /\ Held(t, fs) /\ fs \subseteq Fingers
      /\ p.accumulated \in Leftovers /\ (mv => p.block)
  BY DEF Good, Pointers
<1>2. t.purpose \in Purposes /\ t.slots \subseteq Fingers /\ t.first \in Fingers \union {NoFinger}
  BY <1>1 DEF Touches
<1>3. CASE t.purpose = "Tap" /\ drag = "x"
  <2> DEFINE chosen == [p EXCEPT !.touch.purpose = "Select"]
             there  == mouse_moved(chosen, "a")
             select == Press(there, "Left", FALSE)
  <2>1. q = mouse_moved(select, at)
    BY Zenon, <1>3 DEF on_touch_motion
  <2>2. chosen.touch = [purpose |-> "Select", first |-> t.first, slots |-> t.slots]
    BY <1>1 DEF Pointers, Touches
  <2>3. chosen \in Pointers /\ chosen.accumulated = p.accumulated /\ ~chosen.launched
    BY <1>1 DEF Pointers, Touches, Purposes
  <2> HIDE DEF chosen
  <2>4. Kept(there, chosen) /\ there.at = "a"
    BY <2>3, Moved DEF Places
  <2>5. there \in Pointers
    BY <2>4 DEF Kept
  <2> HIDE DEF there
  <2>6. Unmoved(select, there)
    BY <2>5, Pressed DEF Buttons
  <2>7. select \in Pointers /\ select.at = "a" /\ select.touch = chosen.touch /\ select.accumulated = p.accumulated
        /\ ~select.launched
    BY <2>3, <2>4, <2>6 DEF Unmoved, Kept
  <2> HIDE DEF select
  <2>8. Kept(q, select) /\ (at # "a" => q.block)
    BY <2>1, <2>7, Moved
  <2>9. q.touch = chosen.touch /\ q.touch.purpose = "Select" /\ ~q.launched
    BY <2>2, <2>7, <2>8 DEF Kept
  <2>10. Held(q.touch, fs)
    BY <1>1, <1>3, <2>2, <2>9 DEF Held
  <2>11. now => q.block
    BY <1>3, <2>8
  <2> HIDE DEF q
  <2> QED BY <1>1, <2>7, <2>8, <2>9, <2>10, <2>11 DEF Good, Kept
<1>4. CASE t.purpose = "Scroll" \/ (t.purpose = "Tap" /\ drag = "y")
  <2> DEFINE g == Gesture(p, "Scroll", id, {id})
  <2>1. q = scroll_terminal(g, px, 1)
    <3>1. ~(t.purpose = "Tap" /\ drag = "x")
      BY <1>4
    <3> QED BY Zenon, <1>4, <3>1 DEF on_touch_motion
  <2>2. /\ Still(g, p) /\ g.accumulated = p.accumulated
        /\ g.touch = [purpose |-> "Scroll", first |-> id, slots |-> {id}]
    <3>1. "Scroll" \in Purposes /\ id \in Fingers \union {NoFinger} /\ {id} \in SUBSET Fingers
      BY <1>1 DEF Purposes
    <3>2. Gestured(g, p, "Scroll", id, {id})
      BY <1>1, <3>1, Gestures
    <3> QED BY <3>2 DEF Gestured, Still
  <2> HIDE DEF g
  <2>3. px \in Int
    BY <1>4
  <2>4. Still(q, g) /\ q.touch = g.touch /\ q.accumulated \in Leftovers
    BY <1>1, <2>1, <2>2, <2>3, ScrolledTo DEF Still
  <2>5. Held(q.touch, fs) /\ q.touch.purpose = "Scroll"
    BY <2>2, <2>4 DEF Held
  <2>6. now => p.block
    BY <1>1, <1>4
  <2> HIDE DEF q
  <2> QED BY <1>1, <2>2, <2>4, <2>5, <2>6 DEF Good, Still
<1>5. CASE t.purpose = "Zoom" /\ id # t.first
  <2>1. q = Gesture(p, "Zoom", t.first, {t.first, id})
    <3>1. ~(t.purpose = "Tap" /\ drag = "x") /\ ~(t.purpose = "Scroll" \/ (t.purpose = "Tap" /\ drag = "y"))
      BY <1>5
    <3> QED BY Zenon, <1>5, <3>1 DEF on_touch_motion
  <2>2. t.first \in fs
    BY <1>1, <1>5 DEF Held
  <2>3. /\ Still(q, p) /\ q.accumulated = p.accumulated
        /\ q.touch = [purpose |-> "Zoom", first |-> t.first, slots |-> {t.first, id}]
    <3>1. "Zoom" \in Purposes /\ t.first \in Fingers \union {NoFinger} /\ {t.first, id} \in SUBSET Fingers
      BY <1>1, <2>2 DEF Purposes
    <3>2. Gestured(q, p, "Zoom", t.first, {t.first, id})
      BY <1>1, <2>1, <3>1, Gestures
    <3> QED BY <3>2 DEF Gestured, Still
  <2>4. Held(q.touch, fs) /\ q.touch.purpose = "Zoom"
    BY <1>5, <2>2, <2>3 DEF Held
  <2>5. now => p.block
    BY <1>1, <1>5
  <2> HIDE DEF q
  <2> QED BY <1>1, <2>3, <2>4, <2>5 DEF Good, Still
<1>6. CASE t.purpose = "Select"
  <2>1. q = mouse_moved(p, at)
    <3>1. /\ ~(t.purpose = "Tap" /\ drag = "x") /\ ~(t.purpose = "Scroll" \/ (t.purpose = "Tap" /\ drag = "y"))
          /\ ~(t.purpose = "Zoom" /\ id # t.first)
      BY <1>6
    <3> QED BY Zenon, <1>6, <3>1 DEF on_touch_motion
  <2>2. Kept(q, p) /\ (at # p.at \/ p.block => q.block)
    BY <1>1, <2>1, Moved
  <2>3. now => q.block
    BY <1>1, <1>6, <2>2
  <2> HIDE DEF q
  <2> QED BY <1>1, <1>6, <2>2, <2>3 DEF Good, Kept
<1>7. CASE ~ \/ t.purpose = "Tap" /\ drag = "x"
             \/ t.purpose = "Scroll" \/ (t.purpose = "Tap" /\ drag = "y")
             \/ t.purpose = "Zoom" /\ id # t.first
             \/ t.purpose = "Select"
  <2>1. q = p
    BY Zenon, <1>7 DEF on_touch_motion
  <2>2. t.purpose = "Tap" => ~now
    BY <1>7
  <2>3. now => p.block
    BY <1>1, <1>7, <2>2
  <2> HIDE DEF q
  <2> QED BY <1>1, <2>1, <2>2, <2>3 DEF Good, Still
<1> QED BY <1>3, <1>4, <1>5, <1>6, <1>7

(* A finger that goes up keeps the invariant (on_touch_end). *)
LEMMA TouchEnds ==
  ASSUME NEW p, NEW fs, NEW mv \in BOOLEAN, Good(p, fs, mv), ~p.launched, NEW id \in fs, NEW hint \in BOOLEAN,
         p.touch.purpose = "Tap" => ~mv
  PROVE  Good(on_touch_end(p, id, hint), fs \ {id}, mv)
<1> DEFINE t == p.touch
           q == on_touch_end(p, id, hint)
           gone  == [p EXCEPT !.touch = NoTouch]
           slots == t.slots \ {id}
           other == CHOOSE s \in slots : TRUE
           left == fs \ {id}
<1> SUFFICES Good(q, left, mv)
  OBVIOUS
<1>1. /\ p \in Pointers /\ t \in Touches /\ Held(t, fs) /\ fs \subseteq Fingers
      /\ p.accumulated \in Leftovers /\ (mv => p.block)
  BY DEF Good, Pointers
<1>2. t.purpose \in Purposes /\ t.slots \subseteq Fingers /\ t.first \in Fingers \union {NoFinger} /\ slots \subseteq left
  BY <1>1 DEF Touches, Held
<1>3. /\ gone \in Pointers /\ gone.touch = NoTouch /\ gone.accumulated = p.accumulated /\ ~gone.launched
      /\ gone.block = p.block
  BY <1>1 DEF Pointers, Touches, NoTouch, Purposes
<1>4. Held(NoTouch, left)
  BY DEF Held, NoTouch
<1> HIDE DEF gone
<1>5. Good(gone, left, mv)
  BY <1>1, <1>3, <1>4 DEF Good, Still
<1>6. CASE t.purpose = "Tap"
  <2> DEFINE there == mouse_moved(gone, "a")
             tap   == Press(there, "Left", FALSE)
  <2>1. q = Release(tap, "Left", hint)
    BY Zenon, <1>6 DEF on_touch_end, gone
  <2>2. Kept(there, gone)
    BY <1>3, Moved DEF Places
  <2>3. there \in Pointers
    BY <2>2 DEF Kept
  <2> HIDE DEF there
  <2>4. Unmoved(tap, there)
    BY <2>3, Pressed DEF Buttons
  <2>5. tap \in Pointers /\ tap.touch = NoTouch /\ tap.accumulated = p.accumulated /\ ~tap.launched
    BY <1>3, <2>2, <2>4 DEF Unmoved, Kept
  <2> HIDE DEF tap
  <2>6. q \in Pointers /\ q.touch = NoTouch /\ q.accumulated = p.accumulated
    BY <2>1, <2>5, Released DEF Buttons
  <2> HIDE DEF q
  <2> QED BY <1>1, <1>4, <1>6, <2>6 DEF Good, Still
<1>7. CASE t.purpose = "Zoom"
  <2>1. q = Gesture(p, "ZoomPendingSlot", other, {other})
    BY Zenon, <1>7 DEF on_touch_end
  <2>2. other \in slots
    <3>1. PICK o \in fs \ {t.first} : t.slots = {t.first, o}
      BY <1>1, <1>7 DEF Held
    <3>2. \E s \in slots : TRUE
      BY <3>1
    <3> QED BY Zenon, <3>2
  <2> HIDE DEF other, slots
  <2>3. other \in Fingers /\ other \in left
    BY <1>1, <1>2, <2>2
  <2>4. /\ Still(q, p) /\ q.accumulated = p.accumulated
        /\ q.touch = [purpose |-> "ZoomPendingSlot", first |-> other, slots |-> {other}]
    <3>1. "ZoomPendingSlot" \in Purposes /\ other \in Fingers \union {NoFinger} /\ {other} \in SUBSET Fingers
      BY <2>3 DEF Purposes
    <3>2. Gestured(q, p, "ZoomPendingSlot", other, {other})
      BY <1>1, <2>1, <3>1, Gestures
    <3> QED BY <3>2 DEF Gestured, Still
  <2>5. Held(q.touch, left)
    BY <2>3, <2>4 DEF Held
  <2> HIDE DEF q
  <2> QED BY <1>1, <2>4, <2>5 DEF Good, Still
<1>8. CASE t.purpose = "Invalid"
  <2>1. q = IF slots = {} THEN gone ELSE Gesture(p, "Invalid", NoFinger, slots)
    BY Zenon, <1>8 DEF on_touch_end, gone
  <2>2. CASE slots = {}
    BY <1>5, <2>1, <2>2
  <2>3. CASE slots # {}
    <3> HIDE DEF slots
    <3>1. /\ Still(q, p) /\ q.accumulated = p.accumulated
          /\ q.touch = [purpose |-> "Invalid", first |-> NoFinger, slots |-> slots]
      <4>1. "Invalid" \in Purposes
        BY DEF Purposes
      <4>2. Gestured(q, p, "Invalid", NoFinger, slots)
        BY <1>1, <1>2, <2>1, <2>3, <4>1, Gestures
      <4> QED BY <4>2 DEF Gestured, Still
    <3>2. Held(q.touch, left)
      BY <1>2, <2>3, <3>1 DEF Held
    <3> HIDE DEF q
    <3> QED BY <1>1, <3>1, <3>2 DEF Good, Still
  <2> QED BY <2>2, <2>3
<1>9. CASE t.purpose = "Select"
  <2>1. q = Release(gone, "Left", hint)
    BY Zenon, <1>9 DEF on_touch_end, gone
  <2>2. /\ q \in Pointers /\ q.touch = gone.touch /\ q.accumulated = gone.accumulated
        /\ q.block = gone.block /\ (q.launched => ~gone.block)
    BY <1>3, <2>1, Released DEF Buttons
  <2> HIDE DEF q
  <2> QED BY <1>1, <1>3, <1>4, <2>2 DEF Good, Still
<1>10. CASE t.purpose \notin {"Tap", "Zoom", "Invalid", "Select"}
  <2>1. q = gone
    BY <1>10 DEF on_touch_end, gone
  <2> QED BY <1>5, <2>1
<1> QED BY <1>6, <1>7, <1>8, <1>9, <1>10

(* Every step keeps the invariant. *)
LEMMA StepGood ==
  ASSUME PointerGood, [PointerNext]_pointerVars
  PROVE  PointerGood'
<1> DEFINE now == Now
<1>1. Good(now, fingers, moved) /\ ~now.launched
  BY Fresh DEF PointerGood, Now
<1>2. now \in Pointers /\ fingers \subseteq Fingers /\ now.accumulated \in Leftovers /\ Held(now.touch, fingers)
      /\ (moved => now.block)
  BY <1>1 DEF Good
<1>3. now.touch = pointer.touch /\ now.at = pointer.at /\ now.buttons = pointer.buttons
  BY DEF PointerGood, Good, Pointers, Now
<1>4. moved \in BOOLEAN
  BY DEF PointerGood
<1>5. ASSUME NEW p, NEW fs, NEW mv \in BOOLEAN, Step(p), fingers' = fs, moved' = mv, Good(p, fs, mv)
      PROVE  PointerGood'
  BY <1>5, StepForgetsLines DEF PointerGood, Step
<1>6. CASE Move
  <2>1. PICK at \in Places : Step(mouse_moved(Now, at)) /\ moved' = (moved \/ at # pointer.at)
    BY <1>6 DEF Move
  <2> DEFINE q == mouse_moved(Now, at)
  <2>2. Kept(q, now) /\ (at # now.at \/ now.block => q.block)
    BY <1>2, Moved
  <2> HIDE DEF q
  <2>3. Good(q, fingers, moved')
    BY <1>1, <1>2, <1>3, <2>1, <2>2 DEF Good, Kept
  <2>4. moved' \in BOOLEAN
    BY <1>4, <2>1
  <2> QED BY <1>5, <1>6, <2>1, <2>3, <2>4 DEF Move, MouseOnly, q
<1>7. CASE Click
  <2>1. PICK button \in {"Left", "Right"} \ pointer.buttons, soon \in BOOLEAN : Step(Press(Now, button, soon))
    BY <1>7 DEF Click
  <2> DEFINE q == Press(Now, button, soon)
  <2>2. Kept(q, now)
    BY <1>2, Pressed DEF Unmoved, Buttons
  <2> HIDE DEF q
  <2>3. Good(q, fingers, FALSE)
    BY <1>1, <1>2, <2>2 DEF Good, Kept
  <2> QED BY <1>5, <1>7, <2>1, <2>3 DEF Click, MouseOnly, q
<1>8. CASE Unclick
  <2>1. PICK button \in pointer.buttons, hint \in BOOLEAN : Step(Release(Now, button, hint))
    BY <1>8 DEF Unclick
  <2> DEFINE q == Release(Now, button, hint)
  <2>2. button \in Buttons
    BY <1>2, <1>3 DEF Pointers
  <2>3. /\ q \in Pointers /\ q.touch = now.touch /\ q.accumulated = now.accumulated
        /\ q.block = now.block /\ (q.launched => ~now.block)
    BY <1>1, <1>2, <2>2, Released
  <2> HIDE DEF q
  <2>4. Good(q, fingers, moved)
    BY <1>2, <2>3 DEF Good
  <2> QED BY <1>4, <1>5, <1>8, <2>1, <2>4 DEF Unclick, MouseOnly, q
<1>9. CASE Scroll
  <2>1. ASSUME NEW px \in Int
        PROVE  Good(scroll_terminal(Now, px, Multiplier), fingers, moved)
    <3> DEFINE q == scroll_terminal(Now, px, Multiplier)
    <3> SUFFICES Good(q, fingers, moved)
      OBVIOUS
    <3>1. Still(q, now) /\ q.touch = now.touch /\ q.accumulated \in Leftovers
      BY <1>2, ScrolledTo, PointerAssumption DEF Still
    <3> HIDE DEF q
    <3> QED BY <1>1, <1>2, <3>1 DEF Good, Still
  <2>2. ASSUME NEW lines \in {-1, 1} PROVE lines * CellHeight \in Int
    BY PointerAssumption
  <2>3. Good(TouchpadStarted(Now), fingers, moved)
    BY <1>1, PointerAssumption DEF TouchpadStarted, Good, Pointers, Leftovers
  <2>4. \/ \E lines \in {-1, 1} : Step(Wheel(Now, lines))
        \/ \E px \in Deltas : Step(Touchpad(Now, px))
        \/ Step(TouchpadStarted(Now))
    BY <1>9 DEF Scroll
  <2>5. fingers' = fingers /\ moved' = moved
    BY <1>9 DEF Scroll, MouseOnly
  <2>6. CASE \E lines \in {-1, 1} : Step(Wheel(Now, lines))
    <3>1. PICK lines \in {-1, 1} : Step(Wheel(Now, lines))
      BY <2>6
    <3>2. Good(Wheel(Now, lines), fingers, moved)
      BY <2>1, <2>2 DEF Wheel
    <3> QED BY <1>4, <1>5, <2>5, <3>1, <3>2
  <2>7. CASE \E px \in Deltas : Step(Touchpad(Now, px))
    <3>1. PICK px \in Deltas : Step(Touchpad(Now, px))
      BY <2>7
    <3>2. Good(Touchpad(Now, px), fingers, moved)
      BY <2>1, PointerSpecAssumption DEF Touchpad
    <3> QED BY <1>4, <1>5, <2>5, <3>1, <3>2
  <2>8. CASE Step(TouchpadStarted(Now))
    BY <1>4, <1>5, <2>3, <2>5, <2>8
  <2> QED BY <2>4, <2>6, <2>7, <2>8
<1>10. CASE Down
  <2>1. PICK id \in Fingers \ fingers : Step(on_touch_start(Now, id)) /\ fingers' = fingers \union {id} /\ moved' = moved
    BY <1>10 DEF Down
  <2>2. Good(on_touch_start(Now, id), fingers \union {id}, moved)
    BY <1>1, TouchStarts
  <2> QED BY <1>4, <1>5, <2>1, <2>2
<1>11. ASSUME NEW id \in fingers, NEW at \in For({"Tap", "Select"}, Places), NEW px \in For({"Tap", "Scroll"}, Deltas),
              NEW drag \in For({"Tap"}, {"none", "x", "y"}), moved' = MovedTo(at, drag)
       PROVE  LET q == on_touch_motion(Now, id, at, px, drag)
              IN  Good(q, fingers, moved') /\ ~q.launched /\ (q.touch.purpose = "Tap" => ~moved')
  <2>1. at \in Places /\ (pointer.touch.purpose \in {"Tap", "Scroll"} => px \in Int)
    <3>1. (CHOOSE v \in Places : TRUE) \in Places
      BY DEF Places
    <3> QED BY <1>11, <3>1, PointerSpecAssumption DEF For
  <2>3. moved' \in BOOLEAN
    BY <1>4, <1>11 DEF MovedTo
  <2>4. /\ pointer.touch.purpose = "Tap" /\ moved' => drag = "x" /\ at # "a"
        /\ pointer.touch.purpose = "Select" /\ moved' => moved \/ at # pointer.at
        /\ pointer.touch.purpose \notin {"Tap", "Select"} /\ moved' => moved
    BY <1>4, <1>11 DEF MovedTo
  <2>5. /\ now.touch.purpose \in {"Tap", "Scroll"} => px \in Int
        /\ now.touch.purpose = "Tap" /\ moved' => drag = "x" /\ at # "a"
        /\ now.touch.purpose = "Select" /\ moved' => moved \/ at # now.at
        /\ now.touch.purpose \notin {"Tap", "Select"} /\ moved' => moved
    BY <1>3, <2>1, <2>4
  <2> DEFINE q == on_touch_motion(now, id, at, px, drag)
  <2>6. Good(q, fingers, moved') /\ ~q.launched /\ (q.touch.purpose = "Tap" => ~moved')
    <3> HIDE DEF now
    <3> QED BY <1>4, <1>1, <1>11, <2>1, <2>3, <2>5, TouchMoves
  <2> QED BY <2>6
<1>12. CASE Motion
  <2>1. PICK id \in fingers, at \in For({"Tap", "Select"}, Places), px \in For({"Tap", "Scroll"}, Deltas),
             drag \in For({"Tap"}, {"none", "x", "y"}) :
               Step(on_touch_motion(Now, id, at, px, drag)) /\ fingers' = fingers /\ moved' = MovedTo(at, drag)
    BY <1>12 DEF Motion, Drag
  <2> DEFINE q == on_touch_motion(Now, id, at, px, drag)
  <2>2. Good(q, fingers, moved')
    BY <1>11, <2>1
  <2>3. moved' \in BOOLEAN
    BY <1>4, <2>1 DEF MovedTo
  <2> HIDE DEF q
  <2> QED BY <1>5, <2>1, <2>2, <2>3 DEF q
<1>13. CASE Up
  <2>1. PICK id \in fingers, at \in For({"Tap", "Select"}, Places), px \in For({"Tap", "Scroll"}, Deltas),
             drag \in For({"Tap"}, {"none", "x", "y"}) :
               /\ \E hint \in BOOLEAN : Step(on_touch_end(on_touch_motion(Now, id, at, px, drag), id, hint)) /\ fingers' = fingers \ {id}
               /\ moved' = MovedTo(at, drag)
    BY <1>13 DEF Up, Drag
  <2>2. PICK hint \in BOOLEAN : Step(on_touch_end(on_touch_motion(Now, id, at, px, drag), id, hint)) /\ fingers' = fingers \ {id}
    BY <2>1
  <2> DEFINE q == on_touch_motion(Now, id, at, px, drag)
  <2>3. Good(q, fingers, moved') /\ ~q.launched /\ (q.touch.purpose = "Tap" => ~moved')
    BY <1>11, <2>1
  <2> HIDE DEF q
  <2>4. moved' \in BOOLEAN
    BY <1>4, <2>1 DEF MovedTo
  <2>5. Good(on_touch_end(q, id, hint), fingers \ {id}, moved')
    BY <2>3, <2>4, TouchEnds
  <2> QED BY <1>5, <2>2, <2>4, <2>5 DEF q
<1>14. CASE Modifiers
  <2>1. PICK mods \in SUBSET {"SHIFT"} : Step(modifiers_input(Now, mods))
    BY <1>14 DEF Modifiers
  <2>2. Good(modifiers_input(Now, mods), fingers, moved)
    BY <1>1 DEF modifiers_input, Good, Pointers
  <2> QED BY <1>4, <1>5, <1>14, <2>1, <2>2 DEF Modifiers
<1>15. CASE Switch
  <2>1. fingers' = fingers /\ moved' = moved
    BY <1>15 DEF Switch
  <2>2. CASE \E mode \in {{}, {"MOUSE_DRAG"}} : Step([Now EXCEPT !.mode = mode])
    <3>1. PICK mode \in {{}, {"MOUSE_DRAG"}} : Step([Now EXCEPT !.mode = mode])
      BY <2>2
    <3>2. Good([Now EXCEPT !.mode = mode], fingers, moved)
      BY <1>1 DEF Good, Pointers, MouseModes
    <3> QED BY <1>4, <1>5, <2>1, <3>1, <3>2
  <2>3. CASE Step([Now EXCEPT !.message = TRUE])
    <3>1. Good([Now EXCEPT !.message = TRUE], fingers, moved)
      BY <1>1 DEF Good, Pointers
    <3> QED BY <1>4, <1>5, <2>1, <2>3, <3>1
  <2> QED BY <1>15, <2>2, <2>3 DEF Switch
<1>16. CASE UNCHANGED pointerVars
  BY <1>16 DEF pointerVars, PointerGood
<1> QED BY <1>6, <1>7, <1>8, <1>9, <1>10, <1>12, <1>13, <1>14, <1>15, <1>16 DEF PointerNext

(* A byte does not wrap around. *)
LEMMA ByteOf ==
  ASSUME NEW k \in 0..255
  PROVE  Byte(k) = k
BY DEF Byte

(* The bytes of a position, the first one that has none, and what reading a report should find. *)
Encoding(n, utf8) == IF utf8 /\ n >= 95 THEN mouse_pos_encode(n) ELSE << Byte(33 + n) >>
MaxPoint(utf8) == IF utf8 THEN 2015 ELSE 223

(* A position that is encoded, in one byte or two, is read back, and what follows it is left. *)
LEMMA ReadsEncoding ==
  ASSUME NEW utf8 \in BOOLEAN, NEW n \in 0..(MaxPoint(utf8) - 1), NEW s \in Seq(Int)
  PROVE  /\ Encoding(n, utf8) \in Seq(Int) 
         /\ ReadPosition(Encoding(n, utf8) \o s, utf8) = [at |-> n, rest |-> s]
<1>1. CASE utf8 /\ n >= 95
  <2> DEFINE hi == (33 + n) \div 64
             lo == (33 + n) % 64
             e  == << 192 + hi, 128 + lo >>
  <2>1. n \in 0..2014 /\ hi \in 0..31 /\ lo \in 0..63 /\ 33 + n = hi * 64 + lo
    BY <1>1 DEF MaxPoint
  <2>2. Encoding(n, utf8) = e
    <3>1. Encoding(n, utf8) = << Byte(192 + hi), Byte(128 + lo) >>
      BY Zenon, <1>1 DEF Encoding, mouse_pos_encode
    <3>2. Byte(192 + hi) = 192 + hi /\ Byte(128 + lo) = 128 + lo
      <4> HIDE DEF hi, lo
      <4>1. 192 + hi \in 0..255 /\ 128 + lo \in 0..255
        BY <2>1
      <4> QED BY <4>1, ByteOf
    <3> QED BY <3>1, <3>2
  <2> HIDE DEF hi, lo
  <2>3. e \in Seq(Int) /\ Len(e) = 2 /\ e[1] = 192 + hi /\ e[2] = 128 + lo
    BY <2>1
  <2>4. /\ (e \o s)[1] = 192 + hi /\ (e \o s)[2] = 128 + lo /\ Len(e \o s) = Len(s) + 2 /\ e \o s \in Seq(Int)
    BY <2>3
  <2>5. SubSeq(e \o s, 3, Len(e \o s)) = s
    BY <2>3, <2>4
  <2> HIDE DEF e
  <2>6. ReadPosition(e \o s, utf8)
          = [at |-> ((e \o s)[1] - 192) * 64 + (e \o s)[2] - 128 - 33, rest |-> SubSeq(e \o s, 3, Len(e \o s))]
    <3>1. utf8 /\ (e \o s)[1] >= 192
      BY <1>1, <2>1, <2>4
    <3> QED BY Zenon, <3>1 DEF ReadPosition
  <2>7. ((e \o s)[1] - 192) * 64 + (e \o s)[2] - 128 - 33 = n
    BY <2>1, <2>4
  <2> QED BY Zenon, <2>2, <2>3, <2>5, <2>6, <2>7
<1>2. CASE ~(utf8 /\ n >= 95)
  <2> DEFINE e == << 33 + n >>
  <2>1. n \in 0..2014 /\ n < 223
    BY <1>2 DEF MaxPoint
  <2>2. Encoding(n, utf8) = e
    <3>1. Encoding(n, utf8) = << Byte(33 + n) >>
      BY Zenon, <1>2 DEF Encoding
    <3>2. Byte(33 + n) = 33 + n
      <4>1. 33 + n \in 0..255
        BY <2>1
      <4> QED BY <4>1, ByteOf
    <3> QED BY <3>1, <3>2
  <2>3. e \in Seq(Int) /\ Len(e) = 1 /\ e[1] = 33 + n
    BY <2>1
  <2>4. /\ (e \o s)[1] = 33 + n /\ e \o s \in Seq(Int) /\ Tail(e \o s) = s
    BY <2>3
  <2>5. ~(utf8 /\ 33 + n >= 192)
    BY <1>2, <2>1
  <2> HIDE DEF e
  <2>6. ReadPosition(e \o s, utf8) = [at |-> (e \o s)[1] - 33, rest |-> Tail(e \o s)]
    <3>1. ~(utf8 /\ (e \o s)[1] >= 192)
      BY <2>4, <2>5
    <3> QED BY Zenon, <3>1 DEF ReadPosition
  <2>7. (e \o s)[1] - 33 = n
    BY <2>1, <2>4
  <2>8. Tail(e \o s) = s
    BY <2>4
  <2> QED BY Zenon, <2>2, <2>3, <2>6, <2>7, <2>8
<1> QED BY <1>1, <1>2

Reads(report, line, column, utf8) ==
  LET x == ReadPosition(Tail(report), utf8)
      y == ReadPosition(x.rest, utf8)
  IN  IF line < 0 \/ line >= MaxPoint(utf8) \/ column >= MaxPoint(utf8) THEN report = << >>
      ELSE x.at = column /\ y.at = line /\ y.rest = << >>

(* EveryReportRead: whatever the line, also one of the scrollback, the column, the button's state
   and the modifiers, the program that reads a report of normal_mouse_report finds the cell in it,
   or there is no report because the encoding cannot tell the position. *)
THEOREM EveryReportRead ==
  ASSUME NEW line \in Int, NEW column \in Nat, NEW state, NEW mods, NEW utf8 \in BOOLEAN
  PROVE  Reads(mouse_report(line, column, 0, state, mods, IF utf8 THEN {"UTF8_MOUSE"} ELSE {}), line, column, utf8)
<1> DEFINE modes == IF utf8 THEN {"UTF8_MOUSE"} ELSE {}
           bits == (IF "SHIFT" \in mods THEN 4 ELSE 0) + (IF "ALT" \in mods THEN 8 ELSE 0) + (IF "CONTROL" \in mods THEN 16 ELSE 0)
           button == (IF state = "Released" THEN 3 ELSE 0) + bits
           report == mouse_report(line, column, 0, state, mods, modes)
<1> SUFFICES Reads(report, line, column, utf8)
  OBVIOUS
<1>1. "SGR_MOUSE" \notin modes /\ ("UTF8_MOUSE" \in modes <=> utf8)
  OBVIOUS
<1> HIDE DEF modes
<1>2. bits \in Nat
  OBVIOUS
<1> HIDE DEF bits
<1>3. button \in Nat
  BY <1>2
<1> HIDE DEF button
<1>4. line < 0 => report = << >>
  BY Zenon DEF mouse_report
<1>5. ~(line < 0) => report = normal_mouse_report(line, column, button, "UTF8_MOUSE" \in modes)
  BY Zenon, <1>1 DEF mouse_report, bits, button
<1>6. ~(line < 0) => report = normal_mouse_report(line, column, button, utf8)
  <2>1. ("UTF8_MOUSE" \in modes) = utf8
    BY <1>1
  <2> QED BY Zenon, <1>5, <2>1
<1> HIDE DEF report
<1>7. normal_mouse_report(line, column, button, utf8)
        = IF line >= MaxPoint(utf8) \/ column >= MaxPoint(utf8) THEN << >>
          ELSE << 32 + button >> \o Encoding(column, utf8) \o Encoding(line, utf8)
  BY Zenon DEF normal_mouse_report, MaxPoint, Encoding
<1>8. CASE line < 0 \/ line >= MaxPoint(utf8) \/ column >= MaxPoint(utf8)
  BY Zenon, <1>4, <1>6, <1>7, <1>8 DEF Reads
<1>9. CASE ~(line < 0 \/ line >= MaxPoint(utf8) \/ column >= MaxPoint(utf8))
  <2> DEFINE c == Encoding(column, utf8)
             l == Encoding(line, utf8)
  <2>1. line \in 0..(MaxPoint(utf8) - 1) /\ column \in 0..(MaxPoint(utf8) - 1)
    BY <1>9 DEF MaxPoint
  <2>2. << >> \in Seq(Int)
    OBVIOUS
  <2>3. l \in Seq(Int) /\ ReadPosition(l \o << >>, utf8) = [at |-> line, rest |-> << >>]
    BY <2>1, <2>2, ReadsEncoding
  <2>4. c \in Seq(Int) /\ ReadPosition(c \o l, utf8) = [at |-> column, rest |-> l]
    BY <2>1, <2>3, ReadsEncoding
  <2> HIDE DEF c, l
  <2>5. l \o << >> = l
    BY <2>3
  <2>6. Tail(<< 32 + button >> \o c \o l) = c \o l
    BY <1>3, <2>3, <2>4
  <2>7. Tail(report) = c \o l
    BY Zenon, <1>6, <1>7, <1>9, <2>6 DEF c, l
  <2> DEFINE x == ReadPosition(Tail(report), utf8)
             y == ReadPosition(x.rest, utf8)
  <2>8. x = [at |-> column, rest |-> l]
    BY Zenon, <2>4, <2>7
  <2> HIDE DEF x
  <2>9. x.at = column /\ x.rest = l
    BY <2>8
  <2>10. y = [at |-> line, rest |-> << >>]
    BY Zenon, <2>3, <2>5, <2>9
  <2> HIDE DEF y
  <2>11. y.at = line /\ y.rest = << >>
    BY <2>10
  <2> QED BY Zenon, <1>9, <2>9, <2>11 DEF Reads, x, y
<1> QED BY Zenon, <1>8, <1>9

(* GoodHolds: the invariant holds in whatever order mouse, wheel, fingers, modifiers and modes
   change (input/mod.rs). *)
THEOREM GoodHolds == PointerSpec => []PointerGood
BY InitGood, StepGood, PTL DEF PointerSpec

(* The invariant says what PointerInv says. *)
LEMMA GoodIsPointerInv == PointerGood => PointerInv
<1> SUFFICES ASSUME PointerGood PROVE PointerInv
  OBVIOUS
<1> DEFINE t == pointer.touch
<1>1. pointer \in Pointers /\ pointer.accumulated \in Leftovers /\ Held(t, fingers)
  BY DEF PointerGood, Good
<1>2. t.purpose = "Zoom" => Cardinality(t.slots) = 2
  <2> SUFFICES ASSUME t.purpose = "Zoom" PROVE Cardinality(t.slots) = 2
    OBVIOUS
  <2>1. PICK other \in fingers \ {t.first} : t.slots = {t.first, other}
    BY <1>1 DEF Held
  <2>2. IsFiniteSet({other}) /\ Cardinality({other}) = 1
    BY FS_Singleton
  <2>3. Cardinality({other} \union {t.first}) = 2
    <3>1. t.first \notin {other}
      BY <2>1
    <3>2. Cardinality({other} \union {t.first}) = Cardinality({other}) + 1
      BY Zenon, <2>2, <3>1, FS_AddElement
    <3> QED BY <2>2, <3>2
  <2>4. {other} \union {t.first} = {t.first, other}
    OBVIOUS
  <2> QED BY <2>1, <2>3, <2>4
<1>3. PointerTypeOK
  BY <1>1, <1>2 DEF PointerTypeOK, Held, Leftovers
<1>4. TouchTracksFingers
  BY <1>1 DEF TouchTracksFingers, Held
<1>5. WheelConserves
  <2> SUFFICES ASSUME NEW px \in Deltas
               PROVE  LET q == scroll_terminal(Now, px, Multiplier)
                          m == IF mouse_mode(pointer) THEN 1 ELSE Multiplier
                      IN  pointer.accumulated + px * m = CellHeight * q.lines + q.accumulated
    BY Zenon DEF WheelConserves
  <2>1. Now \in Pointers /\ Now.accumulated = pointer.accumulated /\ Now.mode = pointer.mode
    BY <1>1 DEF Now, Pointers
  <2>2. mouse_mode(Now) = mouse_mode(pointer)
    BY <2>1 DEF mouse_mode
  <2>3. px \in Int /\ Multiplier \in Nat \ {0}
    BY PointerSpecAssumption, PointerAssumption
  <2> DEFINE q == scroll_terminal(Now, px, Multiplier)
  <2>4. Now.accumulated + px * (IF mouse_mode(Now) THEN 1 ELSE Multiplier) = CellHeight * q.lines + q.accumulated
    BY <1>1, <2>1, <2>3, ScrolledTo
  <2> QED BY <2>1, <2>2, <2>4
<1>6. LaunchesOnlyClicks
  BY DEF PointerGood, Good, LaunchesOnlyClicks
<1>7. ReportsTheCell
  <2> SUFFICES ASSUME NEW line \in Corners \union {-1}, NEW column \in Corners, NEW state \in {"Pressed", "Released"},
                      NEW utf8 \in BOOLEAN
               PROVE  LET report == mouse_report(line, column, 0, state, pointer.mods, IF utf8 THEN {"UTF8_MOUSE"} ELSE {})
                          last   == (IF utf8 THEN 2047 ELSE 255) - 33
                          x      == ReadPosition(Tail(report), utf8)
                          y      == ReadPosition(x.rest, utf8)
                      IN  IF line < 0 \/ line > last \/ column > last THEN report = << >>
                          ELSE x.at = column /\ y.at = line /\ y.rest = << >>
    BY Zenon DEF ReportsTheCell
  <2>1. line \in Int /\ column \in Nat
    BY DEF Corners
  <2>2. /\ line > (IF utf8 THEN 2047 ELSE 255) - 33 <=> line >= MaxPoint(utf8)
        /\ column > (IF utf8 THEN 2047 ELSE 255) - 33 <=> column >= MaxPoint(utf8)
    BY <2>1 DEF MaxPoint
  <2> DEFINE report == mouse_report(line, column, 0, state, pointer.mods, IF utf8 THEN {"UTF8_MOUSE"} ELSE {})
             x      == ReadPosition(Tail(report), utf8)
             y      == ReadPosition(x.rest, utf8)
  <2>3. IF line < 0 \/ line >= MaxPoint(utf8) \/ column >= MaxPoint(utf8) THEN report = << >>
        ELSE x.at = column /\ y.at = line /\ y.rest = << >>
    <3>1. Reads(report, line, column, utf8)
      BY <2>1, EveryReportRead
    <3> HIDE DEF report
    <3> QED BY Zenon, <3>1 DEF Reads
  <2> HIDE DEF report, x, y
  <2>4. IF line < 0 \/ line > (IF utf8 THEN 2047 ELSE 255) - 33 \/ column > (IF utf8 THEN 2047 ELSE 255) - 33
        THEN report = << >> ELSE x.at = column /\ y.at = line /\ y.rest = << >>
    <3> DEFINE none == report = << >>
               same == x.at = column /\ y.at = line /\ y.rest = << >>
    <3>1. IF line < 0 \/ line >= MaxPoint(utf8) \/ column >= MaxPoint(utf8) THEN none ELSE same
      BY <2>3
    <3> HIDE DEF none, same
    <3>2. IF line < 0 \/ line > (IF utf8 THEN 2047 ELSE 255) - 33 \/ column > (IF utf8 THEN 2047 ELSE 255) - 33
          THEN none ELSE same
      BY <2>2, <3>1
    <3> QED BY <3>2 DEF none, same
  <2> QED BY Zenon, <2>4 DEF report, x, y
<1> QED BY <1>3, <1>4, <1>5, <1>6, <1>7 DEF PointerInv

(* PointerSafe: gestures follow the fingers, no scroll is lost, a drag launches no hint and reports
   name the right cell (Processor::on_touch_*, scroll_terminal, on_mouse_release, mouse_report). *)
THEOREM PointerSafe == PointerSpec => []PointerInv
BY GoodHolds, GoodIsPointerInv, PTL

(***************************************************************************)
(* Hint labels                                                             *)
(***************************************************************************)

(* A set of natural numbers that is not empty has a least member. *)
LEMMA LeastNumber ==
  ASSUME NEW T \in SUBSET Nat, T # {}
  PROVE  \E n \in T : \A k \in T : n <= k
  <1> DEFINE R == OpToRel(<, Nat)
  <1>1. \A j, k \in Nat : <<j, k>> \in R <=> j < k BY Zenon DEF OpToRel
  <1>2. IsWellFoundedOn(R, Nat) BY NatLessThanWellFounded, Zenon
  <1> HIDE DEF R
  <1>3. PICK n \in T : \A k \in T : ~ (<<k, n>> \in R) BY <1>2, WFMin
  <1>4. ASSUME NEW k \in T PROVE n <= k
    <2>1. ~(<<k, n>> \in R) BY <1>3
    <2>2. ~(k < n) BY <1>1, <2>1, Zenon
    <2>3. QED BY <2>2
  <1>5. QED BY <1>4

(* What is so before a loop and kept by each of its n rounds is so after
   every round. *)
LEMMA EveryRound ==
  ASSUME NEW n \in Nat, NEW K, 0 \in K, \A k \in 1..n : k - 1 \in K => k \in K
  PROVE  \A k \in 0..n : k \in K
  <1> DEFINE T == {k \in 0..n : k \notin K}
  <1> SUFFICES ASSUME T # {} PROVE FALSE OBVIOUS
  <1>0. T \in SUBSET Nat OBVIOUS
  <1>1. PICK m \in T : \A k \in T : m <= k
    <2> HIDE DEF T
    <2>1. QED BY <1>0, LeastNumber
  <1>2. m \in 1..n BY <1>1
  <1>3. m - 1 \in 0..n /\ ~(m <= m - 1) BY <1>2
  <1>4. m - 1 \in K BY <1>1, <1>3
  <1>5. QED BY <1>1, <1>2, <1>4

(* What the configuration asks of an alphabet, and that its characters differ. *)
IsAlphabet(a) ==
  /\ a \in Seq(ToSet(a)) /\ Len(a) >= 2
  /\ \A i, j \in DOMAIN a : a[i] = a[j] => i = j
  /\ "backspace" \notin ToSet(a) /\ "escape" \notin ToSet(a)

(* The indices of a label, the last character's first: it is from the part of the
   alphabet up to the split point, the others are behind it. *)
IsIndices(a, x) ==
  /\ x \in Seq(Nat) /\ Len(x) >= 1 /\ x[1] \in 0 .. split_point(a)
  /\ \A k \in 2 .. Len(x) : x[k] \in (split_point(a) + 1) .. (Len(a) - 1)

(* The order in which labels come: by length, then by the first character that differs. *)
Earlier(x, y) ==
  \/ Len(x) < Len(y)
  \/ Len(x) = Len(y) /\ \E k \in 1 .. Len(x) : x[k] < y[k] /\ \A j \in (k + 1) .. Len(x) : x[j] = y[j]

(* Both parts of the alphabet have a character. *)
LEMMA SplitPoint ==
  ASSUME NEW a, IsAlphabet(a)
  PROVE  split_point(a) \in Nat /\ split_point(a) + 1 <= Len(a) - 1 /\ Len(a) \in Nat
  <1>1. Len(a) \in Nat BY DEF IsAlphabet
  <1> DEFINE n == Len(a)
  <1>2. n \in Nat /\ n >= 2 BY <1>1 DEF IsAlphabet
  <1> HIDE DEF n
  <1>3. (n - 1) \div 2 \in Nat /\ (n - 1) \div 2 + 1 <= n - 1 BY <1>2
  <1>4. QED BY <1>2, <1>3 DEF split_point, n

(* Incrementing indices makes them those of a later label. *)
LEMMA IncrementKeeps ==
  ASSUME NEW a, IsAlphabet(a), NEW x, IsIndices(a, x)
  PROVE  IsIndices(a, increment(a, x)) /\ Earlier(x, increment(a, x))
  <1> DEFINE split == split_point(a)
             n == Len(a)
             l == Len(x)
             last == {k \in 2 .. Len(x) : x[k] + 1 # Len(a)}
             stops == IF last = {} THEN Len(x) + 1 ELSE Min(last)
             e(k) == CASE k = 1 -> 0 [] 1 < k /\ k < stops -> split + 1
                       [] k = stops -> x[k] + 1 [] k > stops -> x[k]
             next == [k \in 1 .. Len(x) |-> e(k)]
             y == increment(a, x)
  <1>0. /\ split \in Nat /\ n \in Nat /\ split + 1 <= n - 1 BY SplitPoint
  <1>1. /\ x \in Seq(Nat) /\ l \in Nat /\ l >= 1 /\ x[1] \in 0 .. split
        /\ \A k \in 2 .. l : x[k] \in (split + 1) .. (n - 1)
        /\ x \in [1 .. l -> Nat]
    BY DEF IsIndices
  <1>2. y = IF x[1] < split THEN [x EXCEPT ![1] = @ + 1] ELSE IF last = {} THEN Append(next, split + 1) ELSE next
    BY Zenon DEF increment
  <1> HIDE DEF y
  <1>3. CASE x[1] < split
    <2>1. y = [x EXCEPT ![1] = x[1] + 1] BY <1>2, <1>3
    <2>2. y \in Seq(Nat) /\ Len(y) = l /\ y[1] = x[1] + 1 /\ \A k \in 2 .. l : y[k] = x[k]
      <3> HIDE DEF split, n, last, stops, next
      <3>1. x[1] + 1 \in Nat BY <1>1
      <3>2. QED BY <2>1, <3>1, <1>1, ExceptSeq
    <2> HIDE DEF split, n, l, last, stops, next
    <2>3. y[1] \in 0 .. split BY <1>0, <1>1, <1>3, <2>2
    <2>4. IsIndices(a, y) BY <1>1, <2>2, <2>3 DEF IsIndices, split, n, l
    <2>5. x[1] < y[1] BY <1>1, <2>2
    <2>6. Earlier(x, y) BY <1>1, <2>2, <2>5 DEF Earlier, l
    <2>7. QED BY <2>4, <2>6 DEF y
  <1>4. CASE ~(x[1] < split) /\ last = {}
    <2>1. y = Append(next, split + 1) BY <1>2, <1>4
    <2>2. stops = l + 1 BY <1>4
    <2>3. \A k \in 1 .. l : next[k] = IF k = 1 THEN 0 ELSE split + 1
      <3> SUFFICES ASSUME NEW k \in 1 .. l PROVE next[k] = IF k = 1 THEN 0 ELSE split + 1 OBVIOUS
      <3>1. k = 1 \/ (1 < k /\ k < l + 1 /\ k # 1) BY <1>1
      <3>2. QED BY <2>2, <3>1
    <2>4. next \in Seq(Nat) /\ Len(next) = l
      <3>1. next \in [1 .. l -> Nat]
        <4> HIDE DEF e
        <4>1. next = [k \in 1 .. l |-> next[k]] OBVIOUS
        <4> HIDE DEF next
        <4>2. \A k \in 1 .. l : next[k] \in Nat BY <1>0, <2>3
        <4>3. QED BY <4>1, <4>2
      <3> HIDE DEF next
      <3>2. QED BY <1>1, <3>1
    <2> HIDE DEF split, n, l, last, stops, next
    <2>5. y \in Seq(Nat) /\ Len(y) = l + 1 /\ \A k \in 1 .. (l + 1) : y[k] = IF k = 1 THEN 0 ELSE split + 1
      BY <1>0, <1>1, <2>1, <2>3, <2>4
    <2>6. Len(y) >= 1 /\ y[1] \in 0 .. split BY <1>0, <1>1, <2>5
    <2>7. \A k \in 2 .. Len(y) : y[k] \in (split + 1) .. (n - 1) BY <1>0, <1>1, <2>5
    <2>8. IsIndices(a, y) BY <2>5, <2>6, <2>7 DEF IsIndices, split, n
    <2>9. Earlier(x, y)
      <3>1. l < Len(y) BY <1>1, <2>5
      <3>2. QED BY <3>1 DEF Earlier, l
    <2>10. QED BY <2>8, <2>9 DEF y
  <1>5. CASE ~(x[1] < split) /\ last # {}
    <2>1. y = next BY <1>2, <1>5
    <2>2. stops \in last /\ \A k \in last : stops <= k
      <3>1. last \in SUBSET Nat OBVIOUS
      <3> HIDE DEF last
      <3>2. PICK m \in last : \A k \in last : m <= k BY <1>5, <3>1, LeastNumber
      <3>3. Min(last) \in last /\ \A k \in last : Min(last) <= k BY <3>2, Zenon DEF Min
      <3>4. QED BY <1>5, <3>3
    <2>3. stops \in 2 .. l /\ x[stops] + 1 # n
      <3> HIDE DEF stops
      <3>1. QED BY <2>2
    <2> HIDE DEF stops
    <2>4. \A k \in 1 .. l : next[k] = IF k = 1 THEN 0 ELSE IF k < stops THEN split + 1 ELSE IF k = stops THEN x[k] + 1 ELSE x[k]
      <3> SUFFICES ASSUME NEW k \in 1 .. l
                   PROVE next[k] = IF k = 1 THEN 0 ELSE IF k < stops THEN split + 1 ELSE IF k = stops THEN x[k] + 1 ELSE x[k]
        OBVIOUS
      <3>0. next[k] = CASE k = 1 -> 0 [] 1 < k /\ k < stops -> split + 1 [] k = stops -> x[k] + 1 [] k > stops -> x[k] OBVIOUS
      <3> HIDE DEF next, l, split
      <3>1. \/ k = 1 /\ ~(1 < k) /\ k # stops /\ ~(k > stops)
            \/ k # 1 /\ 1 < k /\ k < stops /\ k # stops /\ ~(k > stops)
            \/ k # 1 /\ k = stops /\ ~(k < stops) /\ ~(k > stops)
            \/ k # 1 /\ ~(k < stops) /\ k # stops /\ k > stops
        BY <1>1, <2>3
      <3>2. QED BY <3>0, <3>1
    <2>d. DOMAIN next = 1 .. l OBVIOUS
    <2>f. next = [k \in 1 .. l |-> next[k]]
      <3> HIDE DEF e
      <3>1. QED OBVIOUS
    <2> HIDE DEF split, n, l, last, next
    <2>5. \A k \in 2 .. l : next[k] \in (split + 1) .. (n - 1)
      <3> SUFFICES ASSUME NEW k \in 2 .. l PROVE next[k] \in (split + 1) .. (n - 1) OBVIOUS
      <3>1. x[k] \in (split + 1) .. (n - 1) /\ k \in 1 .. l /\ k # 1 BY <1>1
      <3>2. CASE k < stops
        <4>1. next[k] = split + 1 BY <2>4, <3>1, <3>2
        <4>2. QED BY <1>0, <4>1
      <3>3. CASE k = stops
        <4>1. next[k] = x[k] + 1 /\ x[k] + 1 # n BY <2>3, <2>4, <3>1, <3>3
        <4>2. QED BY <1>0, <3>1, <4>1
      <3>4. CASE ~(k < stops) /\ k # stops
        <4>1. next[k] = x[k] BY <2>4, <3>1, <3>4
        <4>2. QED BY <3>1, <4>1
      <3>5. QED BY <3>2, <3>3, <3>4
    <2>6. next[1] = 0 BY <1>1, <2>4
    <2>7. \A k \in 1 .. l : next[k] \in Nat BY <1>0, <1>1, <2>5, <2>6
    <2>8. next \in [1 .. l -> Nat] BY <2>7, <2>f
    <2>9. next \in Seq(Nat) /\ Len(next) = l BY <1>1, <2>8
    <2>10. IsIndices(a, next) BY <1>0, <1>1, <2>5, <2>6, <2>9 DEF IsIndices, split, n
    <2>11. stops \in 1 .. l /\ stops # 1 /\ ~(stops < stops) BY <1>1, <2>3
    <2>12. next[stops] = x[stops] + 1 BY <2>4, <2>11
    <2>13. x[stops] \in Nat BY <1>1, <2>11
    <2>14. x[stops] < next[stops] BY <2>12, <2>13
    <2>15. \A j \in (stops + 1) .. l : x[j] = next[j]
      <3> SUFFICES ASSUME NEW j \in (stops + 1) .. l PROVE x[j] = next[j] OBVIOUS
      <3>1. j \in 1 .. l /\ j # 1 /\ ~(j < stops) /\ j # stops BY <1>1, <2>11
      <3>2. QED BY <2>4, <3>1
    <2>16. Earlier(x, next) BY <2>9, <2>11, <2>14, <2>15 DEF Earlier, l
    <2>17. QED BY <2>1, <2>10, <2>16 DEF y
  <1>6. QED BY <1>3, <1>4, <1>5

(* The order of labels is one: transitive, and none is earlier than itself. *)
LEMMA EarlierTransitive ==
  ASSUME NEW x \in Seq(Nat), NEW y \in Seq(Nat), NEW z \in Seq(Nat), Earlier(x, y), Earlier(y, z)
  PROVE  Earlier(x, z)
  <1>1. Len(x) \in Nat /\ Len(y) \in Nat /\ Len(z) \in Nat OBVIOUS
  <1>2. CASE Len(x) < Len(y) \/ Len(y) < Len(z)
    <2>1. Len(x) < Len(z) BY <1>1, <1>2 DEF Earlier
    <2>2. QED BY <2>1 DEF Earlier
  <1>3. CASE ~(Len(x) < Len(y)) /\ ~(Len(y) < Len(z))
    <2> DEFINE n == Len(x)
    <2>1. Len(y) = n /\ Len(z) = n /\ n \in Nat BY <1>1, <1>3 DEF Earlier
    <2>2. PICK k \in 1 .. n : x[k] < y[k] /\ \A j \in (k + 1) .. n : x[j] = y[j] BY <1>3, <2>1 DEF Earlier
    <2>3. PICK m \in 1 .. n : y[m] < z[m] /\ \A j \in (m + 1) .. n : y[j] = z[j] BY <1>3, <2>1 DEF Earlier
    <2>t. ASSUME NEW i \in 1 .. n PROVE x[i] \in Nat /\ y[i] \in Nat /\ z[i] \in Nat
      <3>1. i \in 1 .. Len(x) /\ i \in 1 .. Len(y) /\ i \in 1 .. Len(z) BY <2>1
      <3>2. QED BY <3>1, ElementOfSeq
    <2> HIDE DEF n
    <2>4. \E h \in 1 .. n : x[h] < z[h] /\ \A j \in (h + 1) .. n : x[j] = z[j]
      <3>1. CASE k < m
        <4>1. x[m] = y[m] BY <2>1, <2>2, <3>1
        <4>2. x[m] < z[m] BY <2>3, <2>t, <4>1
        <4>3. ASSUME NEW j \in (m + 1) .. n PROVE x[j] = z[j]
          <5>1. j \in (k + 1) .. n BY <2>1, <3>1
          <5>2. QED BY <2>2, <2>3, <5>1
        <4>4. QED BY <4>2, <4>3
      <3>2. CASE m < k
        <4>1. y[k] = z[k] BY <2>1, <2>3, <3>2
        <4>2. x[k] < z[k] BY <2>2, <2>t, <4>1
        <4>3. ASSUME NEW j \in (k + 1) .. n PROVE x[j] = z[j]
          <5>1. j \in (m + 1) .. n BY <2>1, <3>2
          <5>2. QED BY <2>2, <2>3, <5>1
        <4>4. QED BY <4>2, <4>3
      <3>3. CASE m = k
        <4>1. x[k] < z[k] BY <2>2, <2>3, <2>t, <3>3
        <4>2. QED BY <2>2, <2>3, <3>3, <4>1
      <3>4. QED BY <3>1, <3>2, <3>3
    <2>5. QED BY <2>1, <2>4 DEF Earlier, n
  <1>4. QED BY <1>2, <1>3

(* Indices that come one before the other differ. *)
LEMMA EarlierDiffers ==
  ASSUME NEW x \in Seq(Nat), NEW y \in Seq(Nat), Earlier(x, y) \/ Earlier(y, x)
  PROVE  Len(x) # Len(y) \/ \E k \in 1 .. Len(x) : x[k] # y[k]
  <1>1. Len(x) \in Nat /\ Len(y) \in Nat /\ \A k \in 1 .. Len(x) : x[k] \in Nat OBVIOUS
  <1>2. QED BY <1>1 DEF Earlier

(* HintIndices as a loop. *)
LEMMA IndicesLoop ==
  ASSUME NEW a, NEW n \in Nat
  PROVE  /\ HintIndices(a, n)[0] = << 0 >>
         /\ \A k \in 1 .. n : HintIndices(a, n)[k] = increment(a, HintIndices(a, n)[k - 1])
  <1> DEFINE base == << 0 >>
             Round(x, k) == increment(a, x)
  <1>1. n \in Nat OBVIOUS
  <1> HIDE DEF base, Round
  <1>2. \E r : r = [k \in 0 .. n |-> IF k = 0 THEN base ELSE Round(r[k - 1], k)]
    <2> DEFINE Runs(m, r) == r = [k \in 0 .. m |-> IF k = 0 THEN base ELSE Round(r[k - 1], k)]
               K == {m \in 0 .. n : \E r : Runs(m, r)}
    <2>1. 0 \in K
      <3>1. Runs(0, [k \in 0 .. 0 |-> base]) OBVIOUS
      <3> HIDE DEF Runs
      <3>2. QED BY <1>1, <3>1
    <2>2. ASSUME NEW m \in 1 .. n, m - 1 \in K PROVE m \in K
      <3>1. PICK r : Runs(m - 1, r) BY <2>2
      <3> DEFINE longer == [k \in 0 .. m |-> IF k = m THEN Round(r[m - 1], m) ELSE r[k]]
      <3>2. ASSUME NEW k \in 0 .. m PROVE longer[k] = IF k = 0 THEN base ELSE Round(longer[k - 1], k)
        <4>1. CASE k = m
          <5>1. k - 1 \in 0 .. m /\ k - 1 # m /\ k # 0 BY <4>1
          <5>2. longer[k - 1] = r[m - 1] BY <4>1, <5>1
          <5>3. QED BY <4>1, <5>1, <5>2
        <4>2. CASE k # m /\ k # 0
          <5>1. k - 1 \in 0 .. m /\ k - 1 # m /\ k \in 0 .. (m - 1) BY <4>2
          <5>2. longer[k - 1] = r[k - 1] /\ longer[k] = r[k] BY <4>2, <5>1
          <5>3. r[k] = Round(r[k - 1], k) BY <3>1, <4>2, <5>1
          <5>4. QED BY <4>2, <5>2, <5>3
        <4>3. CASE k # m /\ k = 0
          <5>1. k \in 0 .. (m - 1) BY <4>3
          <5>2. r[k] = base BY <3>1, <4>3, <5>1
          <5>3. QED BY <4>3, <5>2
        <4>4. QED BY <4>1, <4>2, <4>3
      <3>3. longer = [k \in 0 .. m |-> longer[k]] OBVIOUS
      <3> HIDE DEF longer
      <3>4. Runs(m, longer) BY <3>2, <3>3
      <3> HIDE DEF Runs
      <3>5. QED BY <3>4
    <2> HIDE DEF K
    <2>3. \A m \in 0 .. n : m \in K BY <1>1, <2>1, <2>2, EveryRound
    <2>4. n \in K BY <1>1, <2>3
    <2>5. QED BY <2>4 DEF K
  <1> DEFINE g == CHOOSE r : r = [k \in 0 .. n |-> IF k = 0 THEN base ELSE Round(r[k - 1], k)]
  <1>g. g = [k \in 0 .. n |-> IF k = 0 THEN base ELSE Round(g[k - 1], k)] BY <1>2, Zenon
  <1>3. g[0] = base
    <2> HIDE DEF g
    <2>1. QED BY <1>1, <1>g
  <1>4. ASSUME NEW k \in 1 .. n PROVE g[k] = Round(g[k - 1], k)
    <2> HIDE DEF g
    <2>1. k \in 0 .. n /\ k # 0 BY <1>1
    <2>2. QED BY <1>g, <2>1
  <1>5. HintIndices(a, n) = g BY Zenon DEF HintIndices, g, base, Round
  <1> HIDE DEF g
  <1>6. QED BY <1>3, <1>4, <1>5 DEF base, Round

(* The indices are those of labels, each later than the ones before. *)
LEMMA IndicesGrow ==
  ASSUME NEW a, IsAlphabet(a), NEW n \in Nat
  PROVE  \A k \in 0 .. n : /\ IsIndices(a, HintIndices(a, n)[k])
                           /\ \A j \in 0 .. (k - 1) : Earlier(HintIndices(a, n)[j], HintIndices(a, n)[k])
  <1> DEFINE r == HintIndices(a, n)
             Fine(k) == IsIndices(a, r[k]) /\ \A j \in 0 .. (k - 1) : Earlier(r[j], r[k])
             K == {k \in 0 .. n : \A i \in 0 .. k : Fine(i)}
  <1>1. r[0] = << 0 >> /\ \A k \in 1 .. n : r[k] = increment(a, r[k - 1]) BY IndicesLoop
  <1> HIDE DEF r
  <1>2. 0 \in K
    <2>1. IsIndices(a, << 0 >>)
      <3>1. 0 \in 0 .. split_point(a) BY SplitPoint
      <3>2. QED BY <3>1 DEF IsIndices
    <2>2. QED BY <1>1, <2>1
  <1>3. ASSUME NEW k \in 1 .. n, k - 1 \in K PROVE k \in K
    <2>1. Fine(k - 1)
      <3>1. k - 1 \in 0 .. (k - 1) OBVIOUS
      <3>2. QED BY <1>3, <3>1
    <2>2. r[k] = increment(a, r[k - 1]) BY <1>1
    <2>3. IsIndices(a, r[k]) /\ Earlier(r[k - 1], r[k]) BY <2>1, <2>2, IncrementKeeps
    <2>4. ASSUME NEW j \in 0 .. (k - 1) PROVE Earlier(r[j], r[k])
      <3>1. CASE j = k - 1 BY <2>3, <3>1
      <3>2. CASE j # k - 1
        <4>1. j \in 0 .. ((k - 1) - 1) /\ j \in 0 .. (k - 1) BY <3>2
        <4>2. Earlier(r[j], r[k - 1]) BY <2>1, <4>1
        <4>3. IsIndices(a, r[j]) BY <1>3, <4>1
        <4>4. r[j] \in Seq(Nat) /\ r[k - 1] \in Seq(Nat) /\ r[k] \in Seq(Nat) BY <2>1, <2>3, <4>3 DEF IsIndices
        <4>5. QED BY <2>3, <4>2, <4>4, EarlierTransitive
      <3>3. QED BY <3>1, <3>2
    <2>5. Fine(k) BY <2>3, <2>4
    <2> HIDE DEF Fine
    <2>6. ASSUME NEW i \in 0 .. k PROVE Fine(i)
      <3>1. CASE i = k BY <2>5, <3>1
      <3>2. CASE i # k
        <4>1. i \in 0 .. (k - 1) BY <3>2
        <4>2. QED BY <1>3, <4>1
      <3>3. QED BY <3>1, <3>2
    <2>7. QED BY <2>6
  <1>4. \A k \in 0 .. n : k \in K
    <2> HIDE DEF K
    <2>1. QED BY <1>2, <1>3, EveryRound
  <1>5. ASSUME NEW k \in 0 .. n PROVE Fine(k)
    <2>1. k \in K /\ k \in 0 .. k BY <1>4
    <2>2. QED BY <2>1
  <1>6. QED BY <1>5 DEF r

(* The characters that only end a label, and the others. *)
Tails(a) == {a[i] : i \in 1 .. (split_point(a) + 1)}
Heads(a) == {a[i] : i \in (split_point(a) + 2) .. Len(a)}

(* A label: a character that ends it behind others that do not. *)
IsLabel(a, label) ==
  /\ label \in Seq(ToSet(a)) /\ Len(label) >= 1 /\ label[Len(label)] \in Tails(a)
  /\ \A i \in 1 .. (Len(label) - 1) : label[i] \in Heads(a)

(* The two parts are of the alphabet, and share no character. *)
LEMMA PartsOfAlphabet ==
  ASSUME NEW a, IsAlphabet(a)
  PROVE  /\ Tails(a) \subseteq ToSet(a) /\ Heads(a) \subseteq ToSet(a)
         /\ \A c : ~(c \in Tails(a) /\ c \in Heads(a))
  <1>1. DOMAIN a = 1 .. Len(a) /\ Len(a) \in Nat BY DEF IsAlphabet
  <1>2. split_point(a) \in Nat /\ split_point(a) + 1 <= Len(a) - 1 BY SplitPoint
  <1>3. ASSUME NEW i \in 1 .. (split_point(a) + 1) PROVE i \in DOMAIN a BY <1>1, <1>2
  <1>4. ASSUME NEW i \in (split_point(a) + 2) .. Len(a) PROVE i \in DOMAIN a BY <1>1, <1>2
  <1>5. Tails(a) \subseteq ToSet(a) BY <1>3 DEF Tails, ToSet
  <1>6. Heads(a) \subseteq ToSet(a) BY <1>4 DEF Heads, ToSet
  <1>7. ASSUME NEW c, c \in Tails(a), c \in Heads(a) PROVE FALSE
    <2>1. PICK i \in 1 .. (split_point(a) + 1) : c = a[i] BY <1>7 DEF Tails
    <2>2. PICK j \in (split_point(a) + 2) .. Len(a) : c = a[j] BY <1>7 DEF Heads
    <2>3. i = j BY <1>3, <1>4, <2>1, <2>2 DEF IsAlphabet
    <2>4. QED BY <1>2, <2>3
  <1>8. QED BY <1>5, <1>6, <1>7

(* The label that has these indices. *)
LabelOf(a, indices) == Reverse([i \in DOMAIN indices |-> a[indices[i] + 1]])

(* The indices give a label, the last character's index first. *)
LEMMA LabelOfIndices ==
  ASSUME NEW a, IsAlphabet(a), NEW x, IsIndices(a, x)
  PROVE  /\ IsLabel(a, LabelOf(a, x)) /\ Len(LabelOf(a, x)) = Len(x)
         /\ \A i \in 1 .. Len(x) : LabelOf(a, x)[i] = a[x[Len(x) - i + 1] + 1]
  <1> DEFINE n == Len(x)
             e(i) == a[x[i] + 1]
             f == [i \in DOMAIN x |-> e(i)]
             y == LabelOf(a, x)
  <1>1. x \in Seq(Nat) /\ n \in Nat /\ n >= 1 /\ DOMAIN x = 1 .. n BY DEF IsIndices
  <1>2. split_point(a) \in Nat /\ split_point(a) + 1 <= Len(a) - 1 /\ Len(a) \in Nat BY SplitPoint
  <1>3. /\ e(1) \in Tails(a)
        /\ \A i \in 2 .. n : e(i) \in Heads(a)
    <2>1. x[1] + 1 \in 1 .. (split_point(a) + 1) BY <1>2 DEF IsIndices
    <2>2. ASSUME NEW i \in 2 .. n PROVE x[i] + 1 \in (split_point(a) + 2) .. Len(a)
      <3>1. x[i] \in (split_point(a) + 1) .. (Len(a) - 1) BY DEF IsIndices
      <3> DEFINE xi == x[i]
      <3> HIDE DEF xi
      <3>2. xi \in (split_point(a) + 1) .. (Len(a) - 1) BY <3>1 DEF xi
      <3>3. xi + 1 \in (split_point(a) + 2) .. Len(a) BY <1>2, <3>2
      <3>4. QED BY <3>3 DEF xi
    <2>3. QED BY <2>1, <2>2 DEF Tails, Heads
  <1>4. \A i \in 1 .. n : e(i) \in ToSet(a)
    <2>1. Tails(a) \subseteq ToSet(a) /\ Heads(a) \subseteq ToSet(a) BY PartsOfAlphabet
    <2>2. ASSUME NEW i \in 1 .. n PROVE i = 1 \/ i \in 2 .. n BY <1>1
    <2> HIDE DEF e, n
    <2>3. QED BY <1>3, <2>1, <2>2
  <1>5. f \in [1 .. n -> ToSet(a)] /\ \A i \in 1 .. n : f[i] = e(i)
    <2> HIDE DEF e, n
    <2>1. QED BY <1>1, <1>4
  <1>6. y = Reverse(f) BY DEF LabelOf
  <1>7. Len(f) = n /\ f \in Seq(ToSet(a))
    <2> HIDE DEF f, n
    <2>1. QED BY <1>1, <1>5
  <1> HIDE DEF f, y, e, n
  <1>8. y = [i \in 1 .. n |-> f[(n - i) + 1]] BY <1>6, <1>7 DEF Reverse
  <1>9. \A i \in 1 .. n : (n - i) + 1 \in 1 .. n BY <1>1
  <1>10. y \in [1 .. n -> ToSet(a)] BY <1>5, <1>8, <1>9
  <1>11. y \in Seq(ToSet(a)) /\ Len(y) = n BY <1>1, <1>10
  <1>12. \A i \in 1 .. n : y[i] = e((n - i) + 1) BY <1>5, <1>8, <1>9
  <1>13. n \in 1 .. n /\ (n - n) + 1 = 1 BY <1>1
  <1>14. y[n] = e((n - n) + 1) BY <1>12, <1>13
  <1>15. y[n] \in Tails(a) BY <1>3, <1>13, <1>14
  <1>16. ASSUME NEW i \in 1 .. (n - 1) PROVE y[i] \in Heads(a)
    <2>1. i \in 1 .. n /\ (n - i) + 1 \in 2 .. n BY <1>1
    <2>2. QED BY <1>3, <1>12, <2>1
  <1>17. IsLabel(a, y) BY <1>1, <1>11, <1>15, <1>16 DEF IsLabel
  <1>18. QED BY <1>11, <1>12, <1>17 DEF y, n, e

(* IsPrefix, position by position. *)
LEMMA PrefixMeans ==
  ASSUME NEW S, NEW s \in Seq(S), NEW t \in Seq(S)
  PROVE  IsPrefix(s, t) <=> Len(s) <= Len(t) /\ \A i \in 1 .. Len(s) : s[i] = t[i]
  <1>0. Len(s) \in Nat /\ Len(t) \in Nat OBVIOUS
  <1>1. SubSeq(s, 1, Len(s)) = s BY SubSeqFull
  <1>2. ASSUME Len(s) <= Len(t)
        PROVE  /\ SubSeq(t, 1, Len(s)) \in Seq(S) /\ Len(SubSeq(t, 1, Len(s))) = Len(s)
               /\ \A i \in 1 .. Len(s) : SubSeq(t, 1, Len(s))[i] = t[i]
    <2> DEFINE m == Len(s)
    <2>1. \A i \in 1 .. m : t[i] \in S
      <3>1. \A i \in 1 .. m : i \in 1 .. Len(t) BY <1>0, <1>2
      <3>2. QED BY <3>1, ElementOfSeq
    <2>2. m \in Nat BY <1>0
    <2> HIDE DEF m
    <2>3. /\ SubSeq(t, 1, m) \in Seq(S) /\ Len(SubSeq(t, 1, m)) = IF 1 <= m THEN m - 1 + 1 ELSE 0
          /\ \A i \in 1 .. m - 1 + 1 : SubSeq(t, 1, m)[i] = t[1 + i - 1]
      BY <2>1, <2>2, SubSeqProperties
    <2>4. Len(SubSeq(t, 1, m)) = m BY <2>2, <2>3
    <2>5. ASSUME NEW i \in 1 .. m PROVE SubSeq(t, 1, m)[i] = t[i]
      <3>1. i \in 1 .. m - 1 + 1 /\ 1 + i - 1 = i BY <2>2
      <3>2. QED BY <2>3, <3>1
    <2>6. QED BY <2>3, <2>4, <2>5 DEF m
  <1>3. ASSUME Len(s) <= Len(t), \A i \in 1 .. Len(s) : s[i] = t[i] PROVE s = SubSeq(t, 1, Len(s))
    <2> DEFINE u == SubSeq(t, 1, Len(s))
    <2>1. u \in Seq(S) /\ Len(s) = Len(u) /\ \A i \in 1 .. Len(s) : s[i] = u[i] BY <1>2, <1>3
    <2> HIDE DEF u
    <2>2. s = u BY <2>1, SeqEqual
    <2>3. QED BY <2>2 DEF u
  <1>4. QED BY <1>1, <1>2, <1>3 DEF IsPrefix

(* The last character of a label ends it, so that a label begins another one only if
   both have the same indices. *)
LEMMA LabelsDiffer ==
  ASSUME NEW a, IsAlphabet(a), NEW x, IsIndices(a, x), NEW y, IsIndices(a, y),
         Earlier(x, y) \/ Earlier(y, x)
  PROVE  ~IsPrefix(LabelOf(a, x), LabelOf(a, y))
  <1> DEFINE p == LabelOf(a, x)
             q == LabelOf(a, y)
             m == Len(x)
             n == Len(y)
  <1>1. /\ IsLabel(a, p) /\ Len(p) = m /\ \A i \in 1 .. m : p[i] = a[x[m - i + 1] + 1]
        /\ IsLabel(a, q) /\ Len(q) = n /\ \A i \in 1 .. n : q[i] = a[y[n - i + 1] + 1]
    BY LabelOfIndices
  <1>2. m \in Nat /\ n \in Nat /\ m >= 1 /\ n >= 1 /\ x \in Seq(Nat) /\ y \in Seq(Nat) BY DEF IsIndices
  <1> HIDE DEF p, q
  <1> SUFFICES ASSUME IsPrefix(p, q) PROVE FALSE BY DEF p, q
  <1>3. m <= n /\ \A i \in 1 .. m : p[i] = q[i]
    <2>1. p \in Seq(ToSet(a)) /\ q \in Seq(ToSet(a)) BY <1>1 DEF IsLabel
    <2>2. QED BY <1>1, <2>1, PrefixMeans
  <1>4. m = n
    <2> SUFFICES ASSUME m < n PROVE FALSE BY <1>2, <1>3
    <2>1. m \in 1 .. m /\ m \in 1 .. (n - 1) BY <1>2
    <2>2. p[m] \in Tails(a) /\ q[m] \in Heads(a) BY <1>1, <2>1 DEF IsLabel
    <2>3. QED BY <1>3, <2>1, <2>2, PartsOfAlphabet
  <1>5. ASSUME NEW k \in 1 .. m PROVE x[k] = y[k]
    <2> DEFINE i == m - k + 1
    <2>1. i \in 1 .. m /\ m - i + 1 = k BY <1>2
    <2> HIDE DEF i
    <2>2. a[x[k] + 1] = a[y[k] + 1]
      <3>1. p[i] = a[x[m - i + 1] + 1] BY <1>1, <2>1
      <3>2. q[i] = a[y[n - i + 1] + 1] BY <1>1, <1>4, <2>1
      <3>3. p[i] = q[i] BY <1>3, <2>1
      <3>4. QED BY <1>4, <2>1, <3>1, <3>2, <3>3
    <2>3. x[k] + 1 \in DOMAIN a /\ y[k] + 1 \in DOMAIN a /\ x[k] \in Nat /\ y[k] \in Nat
      <3>1. split_point(a) \in Nat /\ split_point(a) + 1 <= Len(a) - 1 /\ Len(a) \in Nat BY SplitPoint
      <3>2. DOMAIN a = 1 .. Len(a) BY DEF IsAlphabet
      <3>3. k = 1 \/ k \in 2 .. m BY <1>2
      <3>4. x[k] \in 0 .. (Len(a) - 1)
        <4>1. x[k] \in 0 .. split_point(a) \/ x[k] \in (split_point(a) + 1) .. (Len(a) - 1) BY <3>3 DEF IsIndices
        <4> DEFINE xk == x[k]
        <4> HIDE DEF xk
        <4>2. xk \in 0 .. split_point(a) \/ xk \in (split_point(a) + 1) .. (Len(a) - 1) BY <4>1 DEF xk
        <4>3. xk \in 0 .. (Len(a) - 1) BY <3>1, <4>2
        <4>4. QED BY <4>3 DEF xk
      <3>5. y[k] \in 0 .. (Len(a) - 1)
        <4>1. y[k] \in 0 .. split_point(a) \/ y[k] \in (split_point(a) + 1) .. (Len(a) - 1) BY <1>4, <3>3 DEF IsIndices
        <4> DEFINE yk == y[k]
        <4> HIDE DEF yk
        <4>2. yk \in 0 .. split_point(a) \/ yk \in (split_point(a) + 1) .. (Len(a) - 1) BY <4>1 DEF yk
        <4>3. yk \in 0 .. (Len(a) - 1) BY <3>1, <4>2
        <4>4. QED BY <4>3 DEF yk
      <3>6. QED BY <3>1, <3>2, <3>4, <3>5
    <2>4. x[k] + 1 = y[k] + 1 BY <2>2, <2>3 DEF IsAlphabet
    <2>5. QED BY <2>3, <2>4
  <1>6. QED BY <1>2, <1>4, <1>5, EarlierDiffers

(* What HintLabels promises: n labels, none of which begins another one. *)
LEMMA LabelsOfAlphabet ==
  ASSUME NEW a, IsAlphabet(a), NEW n \in Nat
  PROVE  /\ \A k \in 1 .. n : IsLabel(a, HintLabels(a, n)[k])
         /\ \A j, k \in 1 .. n : j # k => ~IsPrefix(HintLabels(a, n)[j], HintLabels(a, n)[k])
  <1> DEFINE r == HintIndices(a, n)
  <1>1. \A k \in 1 .. n : HintLabels(a, n)[k] = LabelOf(a, r[k - 1]) BY Zenon DEF HintLabels, LabelOf
  <1>2. \A k \in 0 .. n : IsIndices(a, r[k]) /\ \A j \in 0 .. (k - 1) : Earlier(r[j], r[k]) BY IndicesGrow
  <1> HIDE DEF r
  <1>3. ASSUME NEW k \in 1 .. n PROVE k - 1 \in 0 .. n OBVIOUS
  <1>4. ASSUME NEW k \in 1 .. n PROVE IsLabel(a, HintLabels(a, n)[k])
    <2>1. IsIndices(a, r[k - 1]) BY <1>2, <1>3
    <2>2. IsLabel(a, LabelOf(a, r[k - 1])) BY <2>1, LabelOfIndices
    <2>3. QED BY <1>1, <2>2
  <1>5. ASSUME NEW j \in 1 .. n, NEW k \in 1 .. n, j # k PROVE ~IsPrefix(HintLabels(a, n)[j], HintLabels(a, n)[k])
    <2>1. IsIndices(a, r[j - 1]) /\ IsIndices(a, r[k - 1]) BY <1>2, <1>3
    <2>2. Earlier(r[j - 1], r[k - 1]) \/ Earlier(r[k - 1], r[j - 1])
      <3>1. j - 1 \in 0 .. ((k - 1) - 1) \/ k - 1 \in 0 .. ((j - 1) - 1) BY <1>5
      <3>2. QED BY <1>2, <1>3, <3>1
    <2>3. ~IsPrefix(LabelOf(a, r[j - 1]), LabelOf(a, r[k - 1])) BY <2>1, <2>2, LabelsDiffer
    <2>4. QED BY <1>1, <2>3
  <1>6. QED BY <1>4, <1>5

(* What is left of a label: the part behind the keys that begin it. *)
Rest(keys, label, left) ==
  /\ Len(keys) < Len(label) /\ \A i \in 1 .. Len(keys) : keys[i] = label[i]
  /\ keys \o left = label
  /\ Len(left) = Len(label) - Len(keys)
  /\ \A i \in 1 .. Len(left) : left[i] = label[Len(keys) + i]

(* Left returns the rest of a label that the keys properly begin, else nothing. *)
LEMMA LeftMeans ==
  ASSUME NEW S, NEW keys \in Seq(S), NEW label \in Seq(S)
  PROVE  /\ Left(keys, label) \in Seq(S)
         /\ Left(keys, label) # << >> => Rest(keys, label, Left(keys, label))
         /\ IsPrefix(keys, label) /\ Len(keys) # Len(label) => Left(keys, label) # << >>
  <1> DEFINE m == Len(keys)
             n == Len(label)
             s == SubSeq(label, m + 1, n)
  <1>1. m \in Nat /\ n \in Nat OBVIOUS
  <1>2. \A i \in (m + 1) .. n : label[i] \in S
    <2>1. ASSUME NEW i \in (m + 1) .. n PROVE i \in 1 .. n BY <1>1
    <2>2. QED BY <2>1, ElementOfSeq
  <1>3. /\ s \in Seq(S) /\ Len(s) = IF m + 1 <= n THEN n - (m + 1) + 1 ELSE 0
        /\ \A i \in 1 .. n - (m + 1) + 1 : s[i] = label[(m + 1) + i - 1]
    <2>1. m + 1 \in Int /\ n \in Int BY <1>1
    <2> HIDE DEF n, m
    <2>2. QED BY <1>2, <2>1, SubSeqProperties
  <1>4. IsPrefix(keys, label) <=> m <= n /\ \A i \in 1 .. m : keys[i] = label[i] BY PrefixMeans
  <1>5. Left(keys, label) = IF IsPrefix(keys, label) THEN s ELSE << >> BY DEF Left
  <1>6. CASE ~IsPrefix(keys, label) BY <1>5, <1>6
  <1>7. CASE IsPrefix(keys, label) /\ ~(m < n)
    <2>1. m = n BY <1>1, <1>4, <1>7
    <2>2. Len(s) = 0 BY <1>1, <1>3, <2>1
    <2>3. s = << >> BY <1>3, <2>2, EmptySeq
    <2>4. QED BY <1>3, <1>5, <1>7, <2>1, <2>3
  <1>8. CASE IsPrefix(keys, label) /\ m < n
    <2> HIDE DEF s
    <2>1. Len(s) = n - m /\ Len(s) # 0 BY <1>1, <1>3, <1>8
    <2>2. s # << >> BY <2>1
    <2>3. ASSUME NEW i \in 1 .. Len(s) PROVE s[i] = label[m + i]
      <3>1. i \in 1 .. n - (m + 1) + 1 /\ (m + 1) + i - 1 = m + i BY <1>1, <2>1
      <3>2. QED BY <1>3, <3>1
    <2>4. keys \o s = label
      <3> DEFINE t == keys \o s
      <3>1. /\ t \in Seq(S) /\ Len(t) = m + Len(s)
            /\ \A i \in 1 .. m + Len(s) : t[i] = IF i <= m THEN keys[i] ELSE s[i - m]
        BY <1>3, ConcatProperties
      <3> HIDE DEF t
      <3>2. Len(t) = n BY <1>1, <2>1, <3>1
      <3>3. ASSUME NEW i \in 1 .. Len(t) PROVE t[i] = label[i]
        <4>0. i \in 1 .. m + Len(s) BY <3>1
        <4>1. CASE i <= m
          <5>1. i \in 1 .. m BY <1>1, <4>1
          <5>2. QED BY <1>4, <1>8, <3>1, <4>0, <4>1, <5>1
        <4>2. CASE ~(i <= m)
          <5>1. i - m \in 1 .. Len(s) /\ m + (i - m) = i BY <1>1, <2>1, <3>2, <4>2
          <5>2. QED BY <2>3, <3>1, <4>0, <4>2, <5>1
        <4>3. QED BY <4>1, <4>2
      <3>4. t = label BY <3>1, <3>2, <3>3, SeqEqual
      <3>5. QED BY <3>4 DEF t
    <2>5. Rest(keys, label, s) BY <1>4, <1>8, <2>1, <2>3, <2>4 DEF Rest
    <2>6. QED BY <1>3, <1>5, <1>8, <2>2, <2>5
  <1>9. QED BY <1>6, <1>7, <1>8

(* Labels of which none begins another one. *)
Apart(labels) ==
  \A i, j \in DOMAIN labels : i # j /\ labels[i] # << >> => ~IsPrefix(labels[i], labels[j])

(* The labels left behind the same keys. *)
LEMMA LabelsLeftApart ==
  ASSUME NEW a, IsAlphabet(a), NEW n \in Nat, NEW keys \in Seq(ToSet(a))
  PROVE  /\ DOMAIN LabelsLeft(a, keys, n) = 1 .. n
         /\ \A i \in 1 .. n : /\ LabelsLeft(a, keys, n)[i] = Left(keys, HintLabels(a, n)[n + 1 - i])
                              /\ IsLabel(a, HintLabels(a, n)[n + 1 - i])
                              /\ LabelsLeft(a, keys, n)[i] \in Seq(ToSet(a))
         /\ Apart(LabelsLeft(a, keys, n))
  <1> DEFINE left == LabelsLeft(a, keys, n)
             all == HintLabels(a, n)
             e(i) == Left(keys, all[n + 1 - i])
  <1>1. left = [i \in 1 .. n |-> e(i)] BY Zenon DEF LabelsLeft
  <1>2. DOMAIN left = 1 .. n /\ \A i \in 1 .. n : left[i] = e(i)
    <2> HIDE DEF left, e
    <2>1. QED BY <1>1
  <1>3. ASSUME NEW i \in 1 .. n PROVE n + 1 - i \in 1 .. n OBVIOUS
  <1>4. /\ \A k \in 1 .. n : IsLabel(a, all[k])
        /\ \A j, k \in 1 .. n : j # k => ~IsPrefix(all[j], all[k])
    BY LabelsOfAlphabet
  <1> HIDE DEF left, all
  <1>5. ASSUME NEW i \in 1 .. n
        PROVE  /\ left[i] = Left(keys, all[n + 1 - i]) /\ IsLabel(a, all[n + 1 - i])
               /\ all[n + 1 - i] \in Seq(ToSet(a)) /\ left[i] \in Seq(ToSet(a))
    <2>1. left[i] = Left(keys, all[n + 1 - i]) /\ IsLabel(a, all[n + 1 - i]) BY <1>2, <1>3, <1>4
    <2>2. all[n + 1 - i] \in Seq(ToSet(a)) BY <2>1 DEF IsLabel
    <2>3. QED BY <2>1, <2>2, LeftMeans
  <1>6. ASSUME NEW i \in 1 .. n, NEW j \in 1 .. n, i # j, left[i] # << >>, IsPrefix(left[i], left[j]) PROVE FALSE
    <2> DEFINE p == all[n + 1 - i]
               q == all[n + 1 - j]
               m == Len(keys)
    <2>1. p \in Seq(ToSet(a)) /\ q \in Seq(ToSet(a)) /\ left[i] = Left(keys, p) /\ left[j] = Left(keys, q) BY <1>5
    <2>2. ~IsPrefix(p, q)
      <3>1. n + 1 - i \in 1 .. n /\ n + 1 - j \in 1 .. n /\ n + 1 - i # n + 1 - j BY <1>6
      <3>2. QED BY <1>4, <3>1
    <2> HIDE DEF p, q
    <2>3. /\ left[i] \in Seq(ToSet(a)) /\ left[j] \in Seq(ToSet(a)) BY <1>5
    <2>4. /\ m < Len(p) /\ \A k \in 1 .. m : keys[k] = p[k]
          /\ Len(left[i]) = Len(p) - m /\ \A k \in 1 .. Len(left[i]) : left[i][k] = p[m + k]
      <3>1. Rest(keys, p, left[i])
        <4>1. Rest(keys, p, Left(keys, p)) BY <1>6, <2>1, LeftMeans
        <4>2. QED BY <2>1, <4>1
      <3>2. QED BY <3>1 DEF Rest
    <2>5. Len(left[i]) <= Len(left[j]) /\ \A k \in 1 .. Len(left[i]) : left[i][k] = left[j][k]
      BY <1>6, <2>3, PrefixMeans
    <2>n. m \in Nat /\ Len(p) \in Nat /\ Len(q) \in Nat BY <2>1
    <2>6. left[j] # << >>
      <3>1. Len(left[i]) >= 1 BY <2>4, <2>n
      <3>2. Len(left[j]) \in Nat /\ Len(left[j]) # 0
        <4>1. Len(left[j]) \in Nat /\ Len(left[i]) \in Nat BY <2>3
        <4>2. QED BY <2>5, <3>1, <4>1
      <3>3. QED BY <3>2
    <2>7. /\ m < Len(q) /\ \A k \in 1 .. m : keys[k] = q[k]
          /\ Len(left[j]) = Len(q) - m /\ \A k \in 1 .. Len(left[j]) : left[j][k] = q[m + k]
      <3>1. Rest(keys, q, left[j])
        <4>1. Rest(keys, q, Left(keys, q)) BY <2>1, <2>6, LeftMeans
        <4>2. QED BY <2>1, <4>1
      <3>2. QED BY <3>1 DEF Rest
    <2>8. Len(p) <= Len(q) BY <2>4, <2>5, <2>7, <2>n
    <2>9. ASSUME NEW k \in 1 .. Len(p) PROVE p[k] = q[k]
      <3>1. CASE k <= m
        <4>1. k \in 1 .. m BY <2>n, <3>1
        <4>2. QED BY <2>4, <2>7, <4>1
      <3>2. CASE ~(k <= m)
        <4>1. k - m \in 1 .. Len(left[i]) /\ k - m \in 1 .. Len(left[j]) /\ m + (k - m) = k
          BY <2>4, <2>7, <2>8, <2>n, <3>2
        <4>2. left[i][k - m] = p[k] /\ left[j][k - m] = q[k] BY <2>4, <2>7, <4>1
        <4>3. QED BY <2>5, <4>1, <4>2
      <3>3. QED BY <3>1, <3>2
    <2>10. QED BY <2>1, <2>2, <2>8, <2>9, PrefixMeans
  <1>7. Apart(left) BY <1>2, <1>6 DEF Apart
  <1>8. QED BY <1>2, <1>5, <1>7 DEF left, all

(* A hint state of an alphabet: its keys do not end a label, and are forgotten with the hint. *)
HintType(a, h) ==
  /\ h = [hint |-> h.hint, alphabet |-> a, matches |-> h.matches, labels |-> h.labels, keys |-> h.keys]
  /\ h.keys \in Seq(Heads(a)) /\ (~active(h) => h.keys = << >>) /\ Apart(h.labels)

(* The keys properly begin one of n labels. *)
BeginsOne(a, keys, n) ==
  \E k \in 1 .. n : IsPrefix(keys, HintLabels(a, n)[k]) /\ Len(keys) < Len(HintLabels(a, n)[k])
Begins(a, keys, n) == keys = << >> \/ BeginsOne(a, keys, n)

(* The matches and labels of a screen. *)
Count(found) == Cardinality(Longest(found))
Labelled(a, h, found) ==
  h.matches = Sorted(Longest(found)) /\ h.labels = LabelsLeft(a, h.keys, Count(found))

(* A screen has finitely many matches to label. *)
LEMMA CountNat ==
  ASSUME NEW found, IsFiniteSet(found)
  PROVE  Count(found) \in Nat
  <1>1. Longest(found) \subseteq found BY DEF Longest
  <1>2. IsFiniteSet(Longest(found)) BY <1>1, FS_Subset
  <1>3. QED BY <1>2, FS_CardinalityType DEF Count

(* Keys are of the alphabet. *)
LEMMA KeysInAlphabet ==
  ASSUME NEW a, IsAlphabet(a), NEW keys \in Seq(Heads(a))
  PROVE  keys \in Seq(ToSet(a))
  BY PartsOfAlphabet, SeqMonotonic

(* Records of a hint state with some fields changed. *)
HintFields(hint, a, m, l, k) == [hint |-> hint, alphabet |-> a, matches |-> m, labels |-> l, keys |-> k]
Relabelled(h, m, l) == [h EXCEPT !.matches = m, !.labels = l]
Restarted(h, hint, m, l, k) == [h EXCEPT !.hint = hint, !.matches = m, !.labels = l, !.keys = k]

(* What stop and update_matches assign. *)
LEMMA FieldsChanged ==
  ASSUME NEW h, NEW hint, NEW a, NEW m, NEW l, NEW k, NEW new, NEW m2, NEW l2, NEW k2,
         h = HintFields(hint, a, m, l, k)
  PROVE  /\ Relabelled(h, m2, l2) = HintFields(hint, a, m2, l2, k)
         /\ Restarted(h, new, m2, l2, k2) = HintFields(new, a, m2, l2, k2)
  <1> DEFINE h1 == [h EXCEPT !.matches = m2]
             h2 == [h1 EXCEPT !.labels = l2]
             h3 == [h2 EXCEPT !.keys = k2]
             h4 == [h3 EXCEPT !.hint = new]
  <1> USE DEF HintFields
  <1>1. Relabelled(h, m2, l2) = h2 BY DEF Relabelled
  <1>2. Restarted(h, new, m2, l2, k2) = h4 BY DEF Restarted
  <1>3. h1 = HintFields(hint, a, m2, l, k) OBVIOUS
  <1> HIDE DEF h1
  <1>4. h2 = HintFields(hint, a, m2, l2, k) BY <1>3
  <1> HIDE DEF h2
  <1>5. h3 = HintFields(hint, a, m2, l2, k2) BY <1>4
  <1> HIDE DEF h3
  <1>6. h4 = HintFields(new, a, m2, l2, k2) BY <1>5
  <1> HIDE DEF h4, HintFields
  <1>7. QED BY <1>1, <1>2, <1>4, <1>6

(* Stopping and the keys a hint state may be left with. *)
LEMMA NoKeys ==
  ASSUME NEW a, NEW h, HintType(a, h)
  PROVE  /\ HintType(a, stop(h)) /\ ~active(stop(h)) /\ stop(h).keys = << >> /\ stop(h).matches = << >>
         /\ stop(h).labels = << >>
         /\ HintType(a, [h EXCEPT !.keys = << >>]) /\ [h EXCEPT !.keys = << >>].keys = << >>
  <1> DEFINE none == << >>
  <1>1. none \in Seq(Heads(a)) /\ DOMAIN none = {} OBVIOUS
  <1> HIDE DEF none
  <1>2. Apart(none) BY <1>1 DEF Apart
  <1> DEFINE r == [hint |-> "none", alphabet |-> a, matches |-> none, labels |-> none, keys |-> none]
             u == [hint |-> h.hint, alphabet |-> a, matches |-> h.matches, labels |-> h.labels, keys |-> none]
  <1>3. stop(h) = r
    <2>1. h = HintFields(h.hint, a, h.matches, h.labels, h.keys) BY DEF HintType, HintFields
    <2>2. Restarted(h, "none", none, none, none) = HintFields("none", a, none, none, none) BY <2>1, FieldsChanged
    <2>3. Restarted(h, "none", none, none, none) = stop(h) BY DEF Restarted, stop, none
    <2>4. QED BY <2>2, <2>3 DEF HintFields
  <1>4. [h EXCEPT !.keys = none] = u BY DEF HintType
  <1>5. HintType(a, r) /\ ~active(r) /\ r.keys = none /\ r.matches = none /\ r.labels = none BY <1>1, <1>2 DEF HintType, active
  <1>6. HintType(a, u) /\ u.keys = none BY <1>1, <1>2 DEF HintType, active
  <1> HIDE DEF r, u
  <1>7. QED BY <1>3, <1>4, <1>5, <1>6 DEF none

(* The keys of a hint in use may change. *)
LEMMA OtherKeys ==
  ASSUME NEW a, NEW h, HintType(a, h), active(h), NEW keys \in Seq(Heads(a))
  PROVE  HintType(a, [h EXCEPT !.keys = keys]) /\ [h EXCEPT !.keys = keys].keys = keys
  <1> DEFINE u == [hint |-> h.hint, alphabet |-> a, matches |-> h.matches, labels |-> h.labels, keys |-> keys]
  <1>1. [h EXCEPT !.keys = keys] = u BY DEF HintType
  <1>2. HintType(a, u) /\ u.keys = keys BY DEF HintType, active
  <1>3. QED BY <1>1, <1>2

(* update_matches *)
LEMMA UpdateKeeps ==
  ASSUME NEW a, IsAlphabet(a), NEW h, HintType(a, h), NEW found, IsFiniteSet(found)
  PROVE  LET u == update_matches(h, found)
         IN  /\ HintType(a, u)
             /\ active(u) => found # {} /\ u.keys = h.keys /\ Labelled(a, u, found)
             /\ ~active(u) => u.keys = << >>
             /\ active(h) /\ found = {} => u.matches = << >> /\ u.labels = << >>
             /\ active(h) /\ found # {} => active(u)
  <1> DEFINE u == update_matches(h, found)
             matches == Sorted(Longest(found))
             labels == LabelsLeft(a, h.keys, Count(found))
             v == [hint |-> h.hint, alphabet |-> a, matches |-> matches, labels |-> labels, keys |-> h.keys]
  <1>0. h.alphabet = a BY DEF HintType
  <1>1. u = IF ~active(h) THEN h ELSE IF found = {} THEN stop(h)
            ELSE [h EXCEPT !.matches = matches, !.labels = labels]
    BY <1>0, Zenon DEF update_matches, Count
  <1> HIDE DEF u
  <1>2. CASE ~active(h) BY <1>1, <1>2 DEF HintType, u
  <1>3. CASE active(h) /\ found = {} BY <1>1, <1>3, NoKeys DEF u
  <1>4. CASE active(h) /\ found # {}
    <2>1. Apart(labels)
      <3>1. Count(found) \in Nat BY CountNat
      <3>2. h.keys \in Seq(ToSet(a)) BY KeysInAlphabet DEF HintType
      <3>3. QED BY <3>1, <3>2, LabelsLeftApart
    <2> HIDE DEF matches, labels
    <2>2. u = [h EXCEPT !.matches = matches, !.labels = labels] BY <1>1, <1>4
    <2>3. u = v
      <3>1. h = HintFields(h.hint, a, h.matches, h.labels, h.keys) BY DEF HintType, HintFields
      <3>2. Relabelled(h, matches, labels) = HintFields(h.hint, a, matches, labels, h.keys) BY <3>1, FieldsChanged
      <3>3. QED BY <2>2, <3>2 DEF HintFields, Relabelled
    <2>4. HintType(a, v) /\ active(v) BY <1>4, <2>1 DEF HintType, active
    <2>5. Labelled(a, v, found) BY DEF Labelled, matches, labels
    <2>6. v.keys = h.keys OBVIOUS
    <2> HIDE DEF v
    <2>7. QED BY <1>4, <2>3, <2>4, <2>5, <2>6 DEF u
  <1>5. QED BY <1>2, <1>3, <1>4

(* A set of numbers up to n that is not empty has a greatest member. *)
LEMMA GreatestNumber ==
  ASSUME NEW n \in Nat, NEW T \in SUBSET (1 .. n), T # {}
  PROVE  Max(T) \in T
  <1> DEFINE D == {n - k : k \in T}
  <1>1. D \in SUBSET Nat /\ D # {}
    <2>1. ASSUME NEW k \in T PROVE n - k \in Nat
      <3>1. k \in 1 .. n OBVIOUS
      <3>2. QED BY <3>1
    <2>2. QED BY <2>1
  <1>2. PICK d \in D : \A e \in D : d <= e
    <2> HIDE DEF D
    <2>1. QED BY <1>1, LeastNumber
  <1>3. PICK m \in T : d = n - m BY <1>2
  <1>4. ASSUME NEW k \in T PROVE m >= k
    <2>1. n - m <= n - k BY <1>2, <1>3
    <2>2. m \in Nat /\ k \in Nat OBVIOUS
    <2>3. QED BY <2>1, <2>2
  <1>5. \E m2 \in T : \A k \in T : m2 >= k BY <1>4
  <1>6. QED BY <1>5, Zenon DEF Max

(* Chosen: what a character leaves, and what it selects. *)
Choice(a, found, u, c, r) ==
  /\ HintType(a, r.state)
  /\ r.state.keys = u.keys \/ Begins(a, r.state.keys, Count(found))
  /\ r.match # << >> =>
       \E i \in 1 .. Count(found) : active(u) /\ r.match = << Sorted(Longest(found))[i] >>
                                     /\ LabelsLeft(a, u.keys, Count(found))[i] = << c >>

(* Chosen, for a hint state whose labels are those of the screen. *)
LEMMA ChosenKeeps ==
  ASSUME NEW a, IsAlphabet(a), NEW found, IsFiniteSet(found), NEW c,
         NEW u, HintType(a, u), active(u) => Labelled(a, u, found)
  PROVE  Choice(a, found, u, c, Chosen(u, c))
  <1> DEFINE n == Count(found)
             hits == {i \in DOMAIN u.labels : u.labels[i] # << >> /\ Head(u.labels[i]) = c}
             index == Max(hits)
             r == Chosen(u, c)
             appended == [u EXCEPT !.keys = Append(@, c)]
             cleared == IF u.hint = "persist" THEN [u EXCEPT !.keys = << >>] ELSE stop(u)
  <1>1. r = IF ~active(u) \/ hits = {} THEN [state |-> u, match |-> << >>]
            ELSE IF Len(u.labels[index]) > 1 THEN [state |-> appended, match |-> << >>]
            ELSE [state |-> cleared, match |-> << u.matches[index] >>]
    BY Zenon DEF Chosen
  <1>2. n \in Nat BY CountNat
  <1>3. u.keys \in Seq(ToSet(a)) BY KeysInAlphabet DEF HintType
  <1> HIDE DEF r, n
  <1>4. CASE ~active(u) \/ hits = {}
    <2> HIDE DEF hits
    <2>1. r.state = u /\ r.match = << >> BY <1>1, <1>4
    <2>2. QED BY <2>1 DEF r, Choice
  <1>5. CASE active(u) /\ hits # {}
    <2> DEFINE label == u.labels[index]
               all == HintLabels(a, n)
               k == n + 1 - index
    <2>1. u.labels = LabelsLeft(a, u.keys, n) /\ u.matches = Sorted(Longest(found)) BY <1>5 DEF Labelled, n
    <2>2. /\ DOMAIN u.labels = 1 .. n
          /\ \A i \in 1 .. n : /\ u.labels[i] = Left(u.keys, all[n + 1 - i])
                               /\ IsLabel(a, all[n + 1 - i])
                               /\ u.labels[i] \in Seq(ToSet(a))
      BY <1>2, <1>3, <2>1, LabelsLeftApart
    <2>3. hits \in SUBSET (1 .. n) BY <2>2
    <2>4. index \in hits
      <3> HIDE DEF hits
      <3>1. QED BY <1>2, <1>5, <2>3, GreatestNumber
    <2> HIDE DEF index, all
    <2>5. index \in 1 .. n /\ label # << >> /\ Head(label) = c BY <2>2, <2>4
    <2> HIDE DEF hits
    <2>6. k \in 1 .. n BY <1>2, <2>5
    <2>7. /\ label = Left(u.keys, all[k]) /\ IsLabel(a, all[k]) /\ all[k] \in Seq(ToSet(a))
          /\ label \in Seq(ToSet(a))
      BY <2>2, <2>5 DEF IsLabel
    <2> HIDE DEF label, k
    <2>8. Rest(u.keys, all[k], label) BY <1>3, <2>5, <2>7, LeftMeans
    <2>9. Len(label) \in Nat /\ Len(label) >= 1 /\ label[1] = c BY <2>5, <2>7
    <2>10. CASE Len(label) > 1
      <3> DEFINE longer == Append(u.keys, c)
                 m == Len(u.keys)
      <3>0. m \in Nat /\ Len(all[k]) \in Nat BY <1>3, <2>7
      <3>1. c \in Heads(a)
        <4>1. m < Len(all[k]) /\ Len(label) = Len(all[k]) - m /\ label[1] = all[k][m + 1]
          <5>1. 1 \in 1 .. Len(label) BY <2>9
          <5>2. QED BY <2>8, <5>1 DEF Rest
        <4>2. m + 1 \in 1 .. (Len(all[k]) - 1)
          <5> DEFINE x == Len(all[k])
                     y == Len(label)
          <5>1. m \in Nat /\ x \in Nat /\ y = x - m /\ y > 1 BY <2>10, <3>0, <4>1
          <5> HIDE DEF x, y, m
          <5>2. m + 1 \in 1 .. (x - 1) BY <5>1
          <5>3. QED BY <5>2 DEF x
        <4>3. QED BY <2>7, <2>9, <4>1, <4>2 DEF IsLabel
      <3>2. longer \in Seq(Heads(a)) BY <3>1 DEF HintType
      <3>3. HintType(a, appended) /\ appended.keys = longer
        <4>1. appended = [u EXCEPT !.keys = longer] BY DEF HintType
        <4> HIDE DEF longer, appended
        <4>2. QED BY <1>5, <3>2, <4>1, OtherKeys
      <3>4. Len(longer) = m + 1 /\ longer[m + 1] = c /\ \A i \in 1 .. m : longer[i] = u.keys[i]
        BY <1>3, <3>0, <3>1 DEF HintType
      <3>5. longer \in Seq(ToSet(a)) BY <3>2, KeysInAlphabet
      <3> HIDE DEF longer, m
      <3>6. m < Len(all[k]) /\ Len(label) = Len(all[k]) - m /\ label[1] = all[k][m + 1] /\ \A i \in 1 .. m : u.keys[i] = all[k][i]
        <4>1. 1 \in 1 .. Len(label) BY <2>9
        <4>2. QED BY <2>8, <4>1 DEF Rest, m
      <3>7. Len(longer) < Len(all[k]) /\ Len(longer) <= Len(all[k]) BY <2>9, <2>10, <3>0, <3>4, <3>6
      <3>8. ASSUME NEW i \in 1 .. Len(longer) PROVE longer[i] = all[k][i]
        <4>1. i = m + 1 \/ i \in 1 .. m BY <3>0, <3>4
        <4>2. QED BY <2>9, <3>4, <3>6, <4>1
      <3>9. IsPrefix(longer, all[k]) BY <2>7, <3>5, <3>7, <3>8, PrefixMeans
      <3>10. Begins(a, longer, n) BY <2>6, <3>7, <3>9 DEF Begins, BeginsOne, all
      <3> HIDE DEF appended
      <3>11. r.state = appended /\ r.match = << >> BY <1>1, <1>5, <2>10 DEF label
      <3>12. QED BY <3>3, <3>10, <3>11 DEF r, n, Choice
    <2>11. CASE ~(Len(label) > 1)
      <3>1. Len(label) = 1
        <4> DEFINE y == Len(label)
        <4>1. y \in Nat /\ y >= 1 /\ ~(y > 1) BY <2>9, <2>11
        <4> HIDE DEF y
        <4>2. y = 1 BY <4>1
        <4>3. QED BY <4>2 DEF y
      <3>2. label = << c >> BY <2>7, <2>9, <3>1
      <3>3. HintType(a, cleared) /\ cleared.keys = << >> BY NoKeys
      <3> HIDE DEF cleared
      <3>4. r.state = cleared /\ r.match = << u.matches[index] >> BY <1>1, <1>5, <2>11 DEF label
      <3>5. Begins(a, r.state.keys, n) BY <3>3, <3>4 DEF Begins
      <3>6. r.match = << Sorted(Longest(found))[index] >> /\ LabelsLeft(a, u.keys, n)[index] = << c >>
        BY <2>1, <3>2, <3>4 DEF label
      <3>7. QED BY <1>5, <2>5, <3>3, <3>4, <3>5, <3>6 DEF r, n, Choice
    <2>12. QED BY <2>10, <2>11
  <1>6. QED BY <1>4, <1>5

(* What a frame shows: the matches of the screen, and the labels left behind its keys. *)
Frame(a, found, d) ==
  /\ d.keys \in Seq(Heads(a)) /\ d.matches = Sorted(Longest(found))
  /\ d.labels = LabelsLeft(a, d.keys, Count(found))

(* The inductive invariant.  To HintInv it adds that the keys do not end a label, so that a
   frame whose keys are a whole label cannot be; that keys typed for this screen begin one of
   its labels; and that a frame that is not outdated shows this screen and this alphabet. *)
HintGood ==
  /\ hints.alphabet \in Alphabets /\ HintType(hints.alphabet, hints)
  /\ IsFiniteSet(onScreen) /\ steady \in BOOLEAN
  /\ steady => Begins(hints.alphabet, hints.keys, Count(onScreen))
  /\ \/ drawn = Outdated
     \/ onScreen = {} /\ drawn.matches = << >>
     \/ Frame(hints.alphabet, onScreen, drawn)
  /\ SomeLabelIsLeft /\ PicksWhatWasDrawn

(* The alphabets of the configuration. *)
LEMMA AlphabetsAre ==
  ASSUME NEW a \in Alphabets PROVE IsAlphabet(a)
  BY HintAssumption DEF IsAlphabet

(* A frame of a screen with matches whose keys begin a label shows one. *)
LEMMA LabelShown ==
  ASSUME NEW a, IsAlphabet(a), NEW n \in Nat, NEW keys \in Seq(Heads(a)), Begins(a, keys, n), n # 0
  PROVE  \E i \in DOMAIN LabelsLeft(a, keys, n) : LabelsLeft(a, keys, n)[i] # << >>
  <1> DEFINE all == HintLabels(a, n)
  <1>1. keys \in Seq(ToSet(a)) BY KeysInAlphabet
  <1>2. /\ DOMAIN LabelsLeft(a, keys, n) = 1 .. n
        /\ \A i \in 1 .. n : /\ LabelsLeft(a, keys, n)[i] = Left(keys, all[n + 1 - i])
                             /\ IsLabel(a, all[n + 1 - i])
    BY <1>1, LabelsLeftApart
  <1> HIDE DEF all
  <1>3. PICK k \in 1 .. n : IsPrefix(keys, all[k]) /\ Len(keys) # Len(all[k])
    <2>n. \A k \in 1 .. n : IsLabel(a, all[k]) BY LabelsOfAlphabet DEF all
    <2>1. CASE keys = << >>
      <3>1. n \in 1 .. n OBVIOUS
      <3>2. Len(keys) = 0 /\ 1 .. Len(keys) = {} BY <2>1
      <3>3. all[n] \in Seq(ToSet(a)) /\ Len(all[n]) \in Nat /\ Len(all[n]) >= 1 BY <2>n, <3>1 DEF IsLabel
      <3>4. Len(keys) <= Len(all[n]) /\ Len(keys) # Len(all[n]) BY <3>2, <3>3
      <3>5. IsPrefix(keys, all[n]) BY <1>1, <3>2, <3>3, <3>4, PrefixMeans
      <3>6. QED BY <3>1, <3>4, <3>5
    <2>2. CASE BeginsOne(a, keys, n)
      <3>1. PICK k \in 1 .. n : IsPrefix(keys, all[k]) /\ Len(keys) < Len(all[k]) BY <2>2 DEF BeginsOne, all
      <3>2. Len(all[k]) \in Nat /\ Len(keys) \in Nat BY <1>1, <2>n DEF IsLabel
      <3>3. QED BY <3>1, <3>2
    <2>3. QED BY <2>1, <2>2 DEF Begins
  <1>4. n + 1 - k \in 1 .. n /\ n + 1 - (n + 1 - k) = k OBVIOUS
  <1>5. all[k] \in Seq(ToSet(a)) BY <1>2, <1>4 DEF IsLabel
  <1>6. Left(keys, all[k]) # << >> BY <1>1, <1>3, <1>5, LeftMeans
  <1>7. QED BY <1>2, <1>4, <1>6

(* A frame shows the match with this label at position i. *)
DrawnAt(d, i, match, label) ==
  /\ i \in DOMAIN d.matches /\ d.matches[i] = match
  /\ IF d.labels[i] # << >> THEN d.keys \o d.labels[i] = label ELSE ~IsPrefix(d.keys, label)

(* A character that completes a label selects the match the label is drawn at. *)
LEMMA PickIsDrawn ==
  ASSUME NEW a, IsAlphabet(a), NEW found, IsFiniteSet(found), NEW d, Frame(a, found, d),
         NEW keys \in Seq(Heads(a)), NEW c, NEW i \in 1 .. Count(found),
         LabelsLeft(a, keys, Count(found))[i] = << c >>
  PROVE  DrawnAt(d, i, Sorted(Longest(found))[i], Append(keys, c))
  <1> DEFINE n == Count(found)
             label == HintLabels(a, n)[n + 1 - i]
  <1>0. n \in Nat BY CountNat
  <1>1. keys \in Seq(ToSet(a)) /\ d.keys \in Seq(ToSet(a)) BY KeysInAlphabet DEF Frame
  <1>2. /\ LabelsLeft(a, keys, n)[i] = Left(keys, label)
        /\ d.labels[i] = Left(d.keys, label)
        /\ IsLabel(a, label)
    <2> HIDE DEF n
    <2>1. i \in 1 .. n BY DEF n
    <2>2. LabelsLeft(a, keys, n)[i] = Left(keys, label) /\ IsLabel(a, label) BY <1>0, <1>1, <2>1, LabelsLeftApart
    <2>3. LabelsLeft(a, d.keys, n)[i] = Left(d.keys, label) BY <1>0, <1>1, <2>1, LabelsLeftApart
    <2>4. d.labels = LabelsLeft(a, d.keys, n) BY DEF Frame, n
    <2>5. QED BY <2>2, <2>3, <2>4
  <1>3. label \in Seq(ToSet(a)) /\ Len(label) \in Nat /\ Len(label) >= 1 BY <1>2 DEF IsLabel
  <1> HIDE DEF label
  <1>4. keys \o << c >> = label
    <2>1. Left(keys, label) = << c >> BY <1>2 DEF n
    <2>2. Left(keys, label) # << >> BY <2>1
    <2>3. Rest(keys, label, Left(keys, label)) BY <1>1, <1>3, <2>2, LeftMeans
    <2>4. QED BY <2>1, <2>3 DEF Rest
  <1>5. Append(keys, c) = label
    <2>1. c \in ToSet(a)
      <3>1. Left(keys, label) \in Seq(ToSet(a)) BY <1>1, <1>3, LeftMeans
      <3>2. << c >> \in Seq(ToSet(a)) BY <1>2, <3>1 DEF n
      <3>3. QED BY <3>2
    <2>2. Append(keys, c) = keys \o << c >> BY <1>1, <2>1
    <2>3. QED BY <1>4, <2>2
  <1>6. ASSUME d.labels[i] # << >> PROVE d.keys \o d.labels[i] = label
    <2>1. Rest(d.keys, label, Left(d.keys, label)) BY <1>1, <1>2, <1>3, <1>6, LeftMeans
    <2>2. QED BY <1>2, <2>1 DEF Rest
  <1>7. ASSUME d.labels[i] = << >>, IsPrefix(d.keys, label) PROVE FALSE
    <2> DEFINE m == Len(d.keys)
    <2>1. m = Len(label) BY <1>1, <1>2, <1>3, <1>7, LeftMeans
    <2>2. \A k \in 1 .. m : d.keys[k] = label[k] BY <1>1, <1>3, <1>7, PrefixMeans
    <2>3. m \in 1 .. m BY <1>3, <2>1
    <2>4. d.keys[m] = label[m] BY <2>2, <2>3
    <2>5. d.keys[m] \in Heads(a) BY <2>3, ElementOfSeq DEF Frame
    <2>6. label[m] \in Tails(a) BY <1>2, <2>1 DEF IsLabel
    <2>7. QED BY <2>4, <2>5, <2>6, PartsOfAlphabet
  <1>8. i \in DOMAIN d.matches /\ d.matches[i] = Sorted(Longest(found))[i]
    <2>1. d.matches = Sorted(Longest(found)) BY DEF Frame
    <2>2. DOMAIN Sorted(Longest(found)) = 1 .. Count(found) BY DEF Sorted, Count
    <2>3. QED BY <2>1, <2>2
  <1>9. QED BY <1>5, <1>6, <1>7, <1>8 DEF DrawnAt

(* Taking back a key. *)
LEMMA FrontKeys ==
  ASSUME NEW a, IsAlphabet(a), NEW n \in Nat, NEW keys \in Seq(Heads(a)), keys # << >>
  PROVE  Front(keys) \in Seq(Heads(a)) /\ (Begins(a, keys, n) => Begins(a, Front(keys), n))
  <1> DEFINE m == Len(keys)
             s == Front(keys)
  <1>1. m \in Nat /\ m >= 1
    <2>1. m \in Nat \ {0} BY EmptySeq
    <2>2. QED BY <2>1
  <1>2. /\ s \in Seq(Heads(a)) /\ Len(s) = m - 1 /\ \A i \in 1 .. (m - 1) : s[i] = keys[i]
    <2>1. \A i \in 1 .. (m - 1) : keys[i] \in Heads(a)
      <3>1. ASSUME NEW i \in 1 .. (m - 1) PROVE i \in 1 .. Len(keys) BY <1>1
      <3>2. QED BY <3>1, ElementOfSeq
    <2> DEFINE l == m - 1
    <2>2. l \in Nat BY <1>1
    <2>3. s = SubSeq(keys, 1, l) BY DEF Front
    <2> HIDE DEF l, s
    <2>4. /\ s \in Seq(Heads(a)) /\ Len(s) = IF 1 <= l THEN l - 1 + 1 ELSE 0
          /\ \A i \in 1 .. l - 1 + 1 : s[i] = keys[1 + i - 1]
      <3>1. \A i \in 1 .. l : keys[i] \in Heads(a) BY <2>1 DEF l
      <3>2. QED BY <2>2, <2>3, <3>1, SubSeqProperties
    <2>5. Len(s) = l BY <2>2, <2>4
    <2>6. ASSUME NEW i \in 1 .. l PROVE s[i] = keys[i]
      <3>1. i \in 1 .. l - 1 + 1 /\ 1 + i - 1 = i BY <2>2
      <3>2. QED BY <2>4, <3>1
    <2>7. QED BY <2>4, <2>5, <2>6 DEF l
  <1> HIDE DEF s
  <1>3. ASSUME Begins(a, keys, n) PROVE Begins(a, s, n)
    <2> DEFINE all == HintLabels(a, n)
    <2>1. PICK k \in 1 .. n : IsPrefix(keys, all[k]) /\ Len(keys) < Len(all[k]) BY <1>3 DEF Begins, BeginsOne
    <2>2. all[k] \in Seq(ToSet(a)) BY LabelsOfAlphabet DEF IsLabel
    <2> HIDE DEF all
    <2>3. keys \in Seq(ToSet(a)) /\ s \in Seq(ToSet(a)) BY <1>2, KeysInAlphabet
    <2>4. m <= Len(all[k]) /\ \A i \in 1 .. m : keys[i] = all[k][i] BY <2>1, <2>2, <2>3, PrefixMeans
    <2>5. Len(all[k]) \in Nat BY <2>2
    <2>6. Len(s) <= Len(all[k]) /\ Len(s) < Len(all[k]) BY <1>1, <1>2, <2>4, <2>5
    <2>7. ASSUME NEW i \in 1 .. Len(s) PROVE s[i] = all[k][i]
      <3>1. i \in 1 .. (m - 1) /\ i \in 1 .. m BY <1>1, <1>2
      <3>2. QED BY <1>2, <2>4, <3>1
    <2>8. IsPrefix(s, all[k]) BY <2>2, <2>3, <2>6, <2>7, PrefixMeans
    <2>9. QED BY <2>6, <2>8 DEF Begins, BeginsOne, all
  <1>4. QED BY <1>2, <1>3 DEF s

(* A window starts without a hint. *)
LEMMA HintsBegin == HintInit => HintGood
  <1> SUFFICES ASSUME HintInit PROVE HintGood OBVIOUS
  <1> DEFINE a == CHOOSE alphabet \in Alphabets : TRUE
             none == << >>
  <1>1. a \in Alphabets BY HintAssumption
  <1>2. none \in Seq(Heads(a)) /\ DOMAIN none = {} OBVIOUS
  <1>3. hints = [hint |-> "none", alphabet |-> a, matches |-> none, labels |-> none, keys |-> none]
    BY DEF HintInit, NewHints
  <1>4. onScreen = {} /\ drawn = Outdated /\ picked = NoPick /\ steady = TRUE BY DEF HintInit
  <1> HIDE DEF a, none
  <1>5. hints.alphabet = a /\ hints.keys = none /\ hints.labels = none BY <1>3
  <1>6. HintType(a, hints) BY <1>2, <1>3 DEF HintType, Apart, none
  <1>7. Begins(a, none, Count(onScreen)) BY DEF Begins, none
  <1>8. IsFiniteSet(onScreen) BY <1>4, FS_EmptySet
  <1>9. SomeLabelIsLeft BY <1>4 DEF SomeLabelIsLeft, Outdated
  <1>10. PicksWhatWasDrawn BY <1>4 DEF PicksWhatWasDrawn, NoPick
  <1>11. QED BY <1>1, <1>4, <1>5, <1>6, <1>7, <1>8, <1>9, <1>10 DEF HintGood

(* Steps after which nothing has been drawn or picked. *)
LEMMA NothingDrawn ==
  drawn' = Outdated /\ picked' = NoPick => SomeLabelIsLeft' /\ PicksWhatWasDrawn'
  BY DEF SomeLabelIsLeft, PicksWhatWasDrawn, Outdated, NoPick

(* StartHintMode keeps the invariant: no keys are left from the last time. *)
LEMMA StartKeeps == HintGood /\ StartHintMode => HintGood'
  <1> SUFFICES ASSUME HintGood, StartHintMode PROVE HintGood' OBVIOUS
  <1> DEFINE a == hints.alphabet
  <1>1. PICK hint \in {"once", "persist"} : hints' = [hints EXCEPT !.hint = hint] BY DEF StartHintMode, start
  <1>2. ~active(hints) /\ picked' = NoPick /\ drawn' = Outdated /\ steady' = TRUE /\ onScreen' = onScreen
    BY DEF StartHintMode
  <1>3. HintType(a, hints) /\ a \in Alphabets BY DEF HintGood
  <1>4. hints.keys = << >> BY <1>2, <1>3 DEF HintType
  <1>5. hints' = [hint |-> hint, alphabet |-> a, matches |-> hints.matches, labels |-> hints.labels, keys |-> hints.keys]
    <2>1. hints = [hint |-> hints.hint, alphabet |-> a, matches |-> hints.matches, labels |-> hints.labels, keys |-> hints.keys]
      BY <1>3 DEF HintType
    <2> HIDE DEF a
    <2>2. QED BY <1>1, <2>1
  <1>6. hints'.hint = hint /\ hints'.alphabet = a /\ hints'.matches = hints.matches /\ hints'.labels = hints.labels /\ hints'.keys = hints.keys
    BY <1>5
  <1> HIDE DEF a
  <1>7. HintType(a, hints') BY <1>3, <1>4, <1>5, <1>6 DEF HintType
  <1>8. Begins(a, hints'.keys, Count(onScreen')) BY <1>4, <1>6 DEF Begins
  <1>9. SomeLabelIsLeft' /\ PicksWhatWasDrawn' BY <1>2, NothingDrawn
  <1>10. QED BY <1>2, <1>3, <1>6, <1>7, <1>8, <1>9 DEF HintGood

(* DrawHints keeps the invariant. *)
LEMMA DrawKeeps == HintGood /\ DrawHints => HintGood'
  <1> SUFFICES ASSUME HintGood, DrawHints PROVE HintGood' OBVIOUS
  <1> DEFINE a == hints.alphabet
             u == update_matches(hints, onScreen)
  <1>1. /\ active(hints) /\ hints' = u /\ picked' = NoPick /\ onScreen' = onScreen /\ steady' = steady
        /\ drawn' = [keys |-> u.keys, matches |-> u.matches, labels |-> u.labels, steady |-> steady]
    BY DEF DrawHints
  <1>2. HintType(a, hints) /\ a \in Alphabets /\ IsAlphabet(a) /\ IsFiniteSet(onScreen) BY AlphabetsAre DEF HintGood
  <1>3. /\ HintType(a, u)
        /\ active(u) => onScreen # {} /\ u.keys = hints.keys /\ Labelled(a, u, onScreen)
        /\ ~active(u) => u.keys = << >>
        /\ onScreen = {} => u.matches = << >> /\ u.labels = << >>
        /\ onScreen # {} => active(u)
    BY <1>1, <1>2, UpdateKeeps
  <1> HIDE DEF u
  <1>4. u.alphabet = a /\ u.keys \in Seq(Heads(a)) BY <1>3 DEF HintType
  <1>5. drawn'.keys = u.keys /\ drawn'.matches = u.matches /\ drawn'.labels = u.labels /\ drawn'.steady = steady BY <1>1
  <1>6. PicksWhatWasDrawn' BY <1>1 DEF PicksWhatWasDrawn, NoPick
  <1>7. steady => Begins(a, u.keys, Count(onScreen))
    <2>1. CASE active(u) BY <1>3, <2>1 DEF HintGood
    <2>2. CASE ~active(u) BY <1>3, <2>2 DEF Begins
    <2>3. QED BY <2>1, <2>2
  <1>8. CASE onScreen = {}
    <2>1. SomeLabelIsLeft' BY <1>3, <1>5, <1>8 DEF SomeLabelIsLeft
    <2> HIDE DEF a
    <2>2. QED BY <1>1, <1>2, <1>3, <1>4, <1>5, <1>6, <1>7, <1>8, <2>1 DEF HintGood, a
  <1>9. CASE onScreen # {}
    <2>1. Frame(a, onScreen, drawn') BY <1>3, <1>4, <1>5, <1>9 DEF Frame, Labelled
    <2>2. SomeLabelIsLeft'
      <3> DEFINE n == Count(onScreen)
      <3>1. n \in Nat BY <1>2, CountNat
      <3>2. u.labels = LabelsLeft(a, u.keys, n) /\ u.matches = Sorted(Longest(onScreen)) BY <1>3, <1>9 DEF Labelled
      <3>3. u.matches # << >> => n # 0
        <4> SUFFICES ASSUME n = 0 PROVE u.matches = << >> OBVIOUS
        <4> DEFINE e(i) == CHOOSE m \in Longest(onScreen) : Cardinality({f \in Longest(onScreen) : f.start < m.start}) = i - 1
        <4>1. Sorted(Longest(onScreen)) = [i \in 1 .. n |-> e(i)] BY Zenon DEF Sorted, Count
        <4> HIDE DEF e, n
        <4>2. [i \in 1 .. n |-> e(i)] = << >> BY n = 0
        <4>3. QED BY <3>2, <4>1, <4>2
      <3> HIDE DEF n, a
      <3>4. ASSUME u.matches # << >>, steady PROVE \E i \in DOMAIN u.labels : u.labels[i] # << >>
        <4>1. Begins(a, u.keys, n) BY <1>7, <3>4 DEF n
        <4>2. QED BY <1>2, <1>4, <3>1, <3>2, <3>3, <3>4, <4>1, LabelShown
      <3>5. QED BY <1>5, <3>4 DEF SomeLabelIsLeft
    <2> HIDE DEF a
    <2>3. QED BY <1>1, <1>2, <1>3, <1>4, <1>5, <1>6, <1>7, <2>1, <2>2 DEF HintGood, a
  <1>10. QED BY <1>8, <1>9

(* ScreenChanges keeps the invariant. *)
LEMMA ScreenKeeps == HintGood /\ ScreenChanges => HintGood'
  <1> SUFFICES ASSUME HintGood, ScreenChanges PROVE HintGood' OBVIOUS
  <1>1. /\ onScreen' \in Screens /\ drawn' = Outdated /\ picked' = NoPick
        /\ steady' = (hints.keys = << >>) /\ hints' = hints
    BY DEF ScreenChanges
  <1>2. IsFiniteSet(onScreen') BY <1>1, HintAssumption
  <1>3. steady' => Begins(hints.alphabet, hints.keys, Count(onScreen')) BY <1>1 DEF Begins
  <1>4. SomeLabelIsLeft' /\ PicksWhatWasDrawn' BY <1>1, NothingDrawn
  <1>5. QED BY <1>1, <1>2, <1>3, <1>4 DEF HintGood

(* NewAlphabet keeps the invariant: the keys of the old one are cleared. *)
LEMMA AlphabetKeeps == HintGood /\ NewAlphabet => HintGood'
  <1> SUFFICES ASSUME HintGood, NewAlphabet PROVE HintGood' OBVIOUS
  <1>1. PICK a \in Alphabets \ {hints.alphabet} : hints' = update_alphabet(hints, a) BY DEF NewAlphabet
  <1>2. drawn' = Outdated /\ picked' = NoPick /\ onScreen' = onScreen /\ steady' = steady BY DEF NewAlphabet
  <1> DEFINE b == hints.alphabet
             none == << >>
  <1>3. HintType(b, hints) BY DEF HintGood
  <1>4. hints' = [hints EXCEPT !.alphabet = a, !.keys = << >>] BY <1>1 DEF update_alphabet
  <1>5. hints' = [hint |-> hints.hint, alphabet |-> a, matches |-> hints.matches, labels |-> hints.labels, keys |-> none]
    <2> DEFINE h1 == [hints EXCEPT !.alphabet = a]
    <2>1. hints = [hint |-> hints.hint, alphabet |-> b, matches |-> hints.matches, labels |-> hints.labels, keys |-> hints.keys]
      BY <1>3 DEF HintType
    <2> HIDE DEF b, none
    <2>2. h1 = [hint |-> hints.hint, alphabet |-> a, matches |-> hints.matches, labels |-> hints.labels, keys |-> hints.keys]
      BY <2>1
    <2>3. hints' = [h1 EXCEPT !.keys = none] BY <1>4 DEF none
    <2> HIDE DEF h1
    <2>4. QED BY <2>2, <2>3
  <1>6. hints'.alphabet = a /\ hints'.keys = none /\ hints'.hint = hints.hint /\ hints'.matches = hints.matches /\ hints'.labels = hints.labels
    BY <1>5
  <1>7. none \in Seq(Heads(a)) OBVIOUS
  <1> HIDE DEF b, none
  <1>8. Apart(hints.labels) BY <1>3 DEF HintType
  <1>9. HintType(a, hints') BY <1>5, <1>6, <1>7, <1>8 DEF HintType, none
  <1>10. Begins(a, hints'.keys, Count(onScreen')) BY <1>6 DEF Begins, none
  <1>11. SomeLabelIsLeft' /\ PicksWhatWasDrawn' BY <1>2, NothingDrawn
  <1>12. QED BY <1>2, <1>6, <1>9, <1>10, <1>11 DEF HintGood

(* TypeHint keeps the invariant. *)
LEMMA TypeKeeps ==
  ASSUME HintGood, NEW c \in ToSet(hints.alphabet) \union {"backspace", "escape"}, TypeHint(c)
  PROVE  HintGood'
  <1> DEFINE a == hints.alphabet
             n == Count(onScreen)
             g == CASE c = "backspace" -> IF hints.keys = << >> THEN hints ELSE [hints EXCEPT !.keys = Front(@)]
                    [] c = "escape" -> stop(hints)
                    [] OTHER -> hints
             u == update_matches(g, onScreen)
             r == Chosen(u, c)
  <1>1. /\ active(hints) /\ hints' = r.state /\ steady' = (steady \/ hints'.keys = << >>)
        /\ picked' = [match |-> r.match, typed |-> IF r.match = << >> THEN << >> ELSE Append(hints.keys, c)]
        /\ onScreen' = onScreen /\ drawn' = drawn
    <2>1. keyboard_input(hints, onScreen, c) = r
      <3>1. CASE c = "backspace" BY <3>1 DEF keyboard_input
      <3>2. CASE c = "escape" BY <3>2 DEF keyboard_input
      <3>3. CASE c # "backspace" /\ c # "escape" BY <3>3 DEF keyboard_input
      <3>4. QED BY <3>1, <3>2, <3>3
    <2> HIDE DEF r
    <2>2. QED BY <2>1 DEF TypeHint
  <1>2. HintType(a, hints) /\ a \in Alphabets /\ IsAlphabet(a) /\ IsFiniteSet(onScreen) /\ n \in Nat BY AlphabetsAre, CountNat DEF HintGood
  <1>3. hints.keys \in Seq(Heads(a)) BY <1>2 DEF HintType
  <1>4. HintType(a, g) /\ (Begins(a, hints.keys, n) => Begins(a, g.keys, n))
    <2>1. CASE c = "backspace" /\ hints.keys # << >>
      <3>1. g = [hints EXCEPT !.keys = Front(hints.keys)] BY <2>1
      <3> HIDE DEF a, n, g
      <3>2. Front(hints.keys) \in Seq(Heads(a)) /\ (Begins(a, hints.keys, n) => Begins(a, Front(hints.keys), n))
        BY <1>2, <1>3, <2>1, FrontKeys
      <3>3. HintType(a, g) /\ g.keys = Front(hints.keys) BY <1>1, <1>2, <3>1, <3>2, OtherKeys
      <3>4. QED BY <3>2, <3>3
    <2>2. CASE c = "escape"
      <3>1. g = stop(hints) BY <2>2
      <3>2. HintType(a, stop(hints)) /\ stop(hints).keys = << >> BY <1>2, NoKeys
      <3>3. QED BY <3>1, <3>2 DEF Begins
    <2>3. CASE c # "escape" /\ ~(c = "backspace" /\ hints.keys # << >>)
      <3>1. g = hints BY <2>3
      <3>2. QED BY <1>2, <3>1
    <2>4. QED BY <2>1, <2>2, <2>3
  <1>g. c \in ToSet(a) => g = hints
    <2>1. c \in ToSet(a) => c # "backspace" /\ c # "escape" BY <1>2 DEF IsAlphabet
    <2>2. QED BY <2>1
  <1> HIDE DEF g, a
  <1>5. /\ HintType(a, u)
        /\ active(u) => onScreen # {} /\ u.keys = g.keys /\ Labelled(a, u, onScreen)
        /\ ~active(u) => u.keys = << >>
    BY <1>2, <1>4, UpdateKeeps
  <1> HIDE DEF u
  <1>6. /\ HintType(a, r.state)
        /\ r.state.keys = u.keys \/ Begins(a, r.state.keys, n)
        /\ r.match # << >> =>
             \E i \in 1 .. n : active(u) /\ r.match = << Sorted(Longest(onScreen))[i] >>
                                 /\ LabelsLeft(a, u.keys, n)[i] = << c >>
    <2>1. Choice(a, onScreen, u, c, r) BY <1>2, <1>5, ChosenKeeps
    <2> HIDE DEF r
    <2>2. QED BY <2>1 DEF Choice
  <1> HIDE DEF r
  <1>7. r.state.alphabet = a BY <1>6 DEF HintType
  <1>8. steady' => Begins(a, hints'.keys, n)
    <2>1. CASE hints'.keys = << >> BY <2>1 DEF Begins
    <2>2. CASE steady
      <3>1. Begins(a, g.keys, n) BY <1>4, <2>2 DEF HintGood, a, n
      <3>2. Begins(a, u.keys, n) BY <1>5, <3>1 DEF Begins
      <3>3. QED BY <1>1, <1>6, <3>2
    <2>3. QED BY <1>1, <2>1, <2>2
  <1>9. SomeLabelIsLeft' BY <1>1 DEF SomeLabelIsLeft, HintGood
  <1>10. PicksWhatWasDrawn'
    <2> SUFFICES ASSUME r.match # << >>, drawn # Outdated
                 PROVE  \E i \in DOMAIN drawn.matches :
                          /\ drawn.matches[i] = r.match[1]
                          /\ IF drawn.labels[i] # << >> THEN drawn.keys \o drawn.labels[i] = Append(hints.keys, c)
                                                        ELSE ~IsPrefix(drawn.keys, Append(hints.keys, c))
      <3>1. picked'.match = r.match BY <1>1
      <3>2. r.match # << >> => picked'.typed = Append(hints.keys, c) BY <1>1
      <3>3. QED BY <1>1, <3>1, <3>2 DEF PicksWhatWasDrawn
    <2>1. PICK i \in 1 .. n : active(u) /\ r.match = << Sorted(Longest(onScreen))[i] >>
                                /\ LabelsLeft(a, u.keys, n)[i] = << c >>
      BY <1>6
    <2>2. u.keys \in Seq(Heads(a)) BY <1>5 DEF HintType
    <2>3. c \in ToSet(a)
      <3>1. u.keys \in Seq(ToSet(a)) BY <1>2, <2>2, KeysInAlphabet
      <3>2. LabelsLeft(a, u.keys, n)[i] \in Seq(ToSet(a)) BY <1>2, <3>1, LabelsLeftApart
      <3>3. << c >> \in Seq(ToSet(a)) BY <2>1, <3>2
      <3>4. QED BY <3>3
    <2>4. u.keys = hints.keys BY <1>5, <1>g, <2>1, <2>3
    <2>5. Frame(a, onScreen, drawn) BY <1>5, <2>1 DEF HintGood, a
    <2>6. DrawnAt(drawn, i, Sorted(Longest(onScreen))[i], Append(hints.keys, c))
      BY <1>2, <1>3, <2>1, <2>4, <2>5, PickIsDrawn DEF n
    <2>7. DrawnAt(drawn, i, r.match[1], Append(hints.keys, c)) BY <2>1, <2>6
    <2>8. QED BY <2>7 DEF DrawnAt
  <1>11. \/ drawn = Outdated
         \/ onScreen = {} /\ drawn.matches = << >>
         \/ Frame(a, onScreen, drawn)
    BY DEF HintGood, a
  <1>12. steady' \in BOOLEAN BY <1>1 DEF HintGood
  <1>13. QED BY <1>1, <1>2, <1>6, <1>7, <1>8, <1>9, <1>10, <1>11, <1>12 DEF HintGood, n

(* Every step keeps the invariant. *)
LEMMA HintsGoOn == HintGood /\ [HintNext]_hintVars => HintGood'
  <1> SUFFICES ASSUME HintGood, [HintNext]_hintVars PROVE HintGood' OBVIOUS
  <1>1. CASE StartHintMode BY <1>1, StartKeeps
  <1>2. CASE DrawHints BY <1>2, DrawKeeps
  <1>3. CASE ScreenChanges BY <1>3, ScreenKeeps
  <1>4. CASE NewAlphabet BY <1>4, AlphabetKeeps
  <1>5. CASE \E c \in ToSet(hints.alphabet) \union {"backspace", "escape"} : TypeHint(c) BY <1>5, TypeKeeps
  <1>6. CASE UNCHANGED hintVars
    BY <1>6 DEF hintVars, HintGood, SomeLabelIsLeft, PicksWhatWasDrawn
  <1>7. QED BY <1>1, <1>2, <1>3, <1>4, <1>5, <1>6 DEF HintNext

(* However keys, frames, output and new alphabets interleave (keyboard_input, update_matches,
   update_alphabet), the labels of the matches tell them apart, a match is selected by the
   label drawn at it, and a frame has a label left to type: for alphabets of any length of
   at least two different characters and any number of matches. *)
THEOREM HintLabelsSound == LabelsSpec => []HintInv
  <1>1. HintGood => HintInv BY DEF HintGood, HintInv, HintType, LabelsTellApart, Apart
  <1>2. QED BY <1>1, HintsBegin, HintsGoOn, PTL DEF LabelsSpec

(***************************************************************************)
(* The damage of frames (DamageSpec).                                      *)
(***************************************************************************)
(* The values of a frame: a line's damage is empty or inside of the window, or goes one
   column beyond it under the text of an input method. *)
SizeType ==
  [lines : Nat \ {0}, columns : Nat \ {0}, bar : Nat, cellWidth : Nat \ {0}, cellHeight : Nat \ {0}, padding : Nat]
LineBounds(size) == [left : 0 .. size.columns, right : 0 .. size.columns]
RectType == [x : Int, y : Int, width : Int, height : Int]
FrameType(size) ==
  [full : BOOLEAN, lines : [0 .. (size.lines - 1) -> LineBounds(size)], rects : Seq(RectType)]

(* The damage of the frame g has that of f. *)
Grows(f, g, size) ==
  /\ g \in FrameType(size) /\ (f.full => g.full) /\ DamagedCells(f, size) \subseteq DamagedCells(g, size)

(* Expanded bounds have the old ones and the new ones. *)
LEMMA ExpandedBounds ==
  ASSUME NEW n \in Nat, NEW b \in [left : 0 .. n, right : 0 .. n], NEW l \in 0 .. n, NEW r \in 0 .. n
  PROVE  /\ Expanded(b, l, r) \in [left : 0 .. n, right : 0 .. n]
         /\ Expanded(b, l, r).left <= b.left /\ b.right <= Expanded(b, l, r).right
         /\ Expanded(b, l, r).left <= l /\ r <= Expanded(b, l, r).right
  <1> DEFINE x == b.left
             y == b.right
  <1>1. x \in 0 .. n /\ y \in 0 .. n OBVIOUS
  <1>2. Expanded(b, l, r) = [left |-> Smaller(x, l), right |-> Larger(y, r)] BY DEF Expanded, Bounds
  <1> HIDE DEF x, y
  <1>3. Smaller(x, l) \in 0 .. n /\ Smaller(x, l) <= x /\ Smaller(x, l) <= l BY <1>1 DEF Smaller
  <1>4. Larger(y, r) \in 0 .. n /\ y <= Larger(y, r) /\ r <= Larger(y, r) BY <1>1 DEF Larger
  <1> DEFINE e == [left |-> Smaller(x, l), right |-> Larger(y, r)]
  <1>5. e \in [left : 0 .. n, right : 0 .. n] /\ e.left = Smaller(x, l) /\ e.right = Larger(y, r) BY <1>3, <1>4
  <1> HIDE DEF e
  <1>6. Expanded(b, l, r) = e BY <1>2 DEF e
  <1>7. QED BY <1>3, <1>4, <1>5, <1>6 DEF x, y

(* The least and the greatest of numbers up to n. *)
LEMMA Extremes ==
  ASSUME NEW n \in Nat, NEW T \in SUBSET (0 .. n), T # {}
  PROVE  /\ Min(T) \in 0 .. n /\ \A k \in T : Min(T) <= k
         /\ Max(T) \in 0 .. n /\ \A k \in T : k <= Max(T)
  <1>1. Min(T) \in T /\ \A k \in T : Min(T) <= k
    <2>1. T \in SUBSET Nat OBVIOUS
    <2>2. \E m \in T : \A k \in T : m <= k BY <2>1, LeastNumber
    <2>3. QED BY <2>2, Zenon DEF Min
  <1>2. Max(T) \in T /\ \A k \in T : Max(T) >= k
    <2> DEFINE D == {n - k : k \in T}
    <2>1. D \in SUBSET Nat /\ D # {}
      <3>1. ASSUME NEW k \in T PROVE n - k \in Nat
        <4>1. k \in 0 .. n OBVIOUS
        <4>2. QED BY <4>1
      <3>2. QED BY <3>1
    <2>2. PICK d \in D : \A e \in D : d <= e
      <3> HIDE DEF D
      <3>1. QED BY <2>1, LeastNumber
    <2>3. PICK m \in T : d = n - m BY <2>2
    <2>4. ASSUME NEW k \in T PROVE m >= k
      <3>1. n - m <= n - k BY <2>2, <2>3
      <3>2. m \in 0 .. n /\ k \in 0 .. n OBVIOUS
      <3>3. QED BY <3>1, <3>2
    <2>5. \E m2 \in T : \A k \in T : m2 >= k BY <2>4
    <2>6. QED BY <2>5, Zenon DEF Max
  <1>3. ASSUME NEW k \in T PROVE k <= Max(T)
    <2>1. Max(T) \in 0 .. n /\ k \in 0 .. n BY <1>2
    <2>2. QED BY <1>2, <2>1
  <1>4. QED BY <1>1, <1>2, <1>3

(* A frame with other lines. *)
LEMMA LinesSet ==
  ASSUME NEW size, NEW f \in FrameType(size), NEW lines \in [0 .. (size.lines - 1) -> LineBounds(size)]
  PROVE  /\ [f EXCEPT !.lines = lines] \in FrameType(size)
         /\ [f EXCEPT !.lines = lines].full = f.full /\ [f EXCEPT !.lines = lines].rects = f.rects
         /\ [f EXCEPT !.lines = lines].lines = lines
  BY DEF FrameType

(* Lines whose bounds grow have the damage they had. *)
LEMMA LinesGrow ==
  ASSUME NEW size \in SizeType, NEW f \in FrameType(size), NEW g \in FrameType(size), f.full => g.full,
         \A l \in 0 .. (size.lines - 1) : g.lines[l].left <= f.lines[l].left /\ f.lines[l].right <= g.lines[l].right
  PROVE  Grows(f, g, size)
  <1>1. ASSUME NEW p \in Cells(size), InBounds(f.lines[p.line], p.column) PROVE InBounds(g.lines[p.line], p.column)
    <2>1. p.line \in 0 .. (size.lines - 1) /\ p.column \in 0 .. (size.columns - 1) BY DEF Cells
    <2> DEFINE a == f.lines[p.line]
               b == g.lines[p.line]
               c == p.column
    <2>2. a \in LineBounds(size) /\ b \in LineBounds(size) BY <2>1 DEF FrameType
    <2>3. a.left \in Int /\ a.right \in Int /\ b.left \in Int /\ b.right \in Int /\ c \in Int
      <3> HIDE DEF a, b
      <3>1. QED BY <2>1, <2>2 DEF LineBounds
    <2>4. b.left <= a.left /\ a.right <= b.right BY <2>1
    <2>5. a.left <= c /\ c <= a.right BY <1>1 DEF InBounds
    <2> HIDE DEF a, b, c
    <2>6. b.left <= c /\ c <= b.right BY <2>3, <2>4, <2>5
    <2>7. QED BY <2>6 DEF InBounds, a, b, c
  <1>2. QED BY <1>1 DEF Grows, DamagedCells

(* What damage_spans damages: the spans, besides what was damaged. *)
SpanCells(size, spans) == {p \in Cells(size) : \E o \in spans : p.line = o.line /\ InBounds(o, p.column)}

(* damage_spans keeps the damage of a frame and adds the cells of the spans. *)
LEMMA SpansDamaged ==
  ASSUME NEW size \in SizeType, NEW f \in FrameType(size), NEW spans,
         \A o \in spans : o.left \in 0 .. size.columns /\ o.right \in 0 .. size.columns
  PROVE  LET g == damage_spans(f, spans)
         IN  Grows(f, g, size) /\ g.full = f.full /\ g.rects = f.rects /\ SpanCells(size, spans) \subseteq DamagedCells(g, size)
  <1> DEFINE g == damage_spans(f, spans)
             n == size.columns
             On(l) == {o \in spans : o.line = l}
             least(l) == Min({o.left : o \in On(l)})
             most(l) == Max({o.right : o \in On(l)})
             e(l) == IF On(l) = {} THEN f.lines[l] ELSE Expanded(f.lines[l], least(l), most(l))
             lines == [l \in DOMAIN f.lines |-> e(l)]
  <1>0. n \in Nat BY DEF SizeType
  <1>1. g = [f EXCEPT !.lines = lines] BY Zenon DEF damage_spans
  <1>2. DOMAIN f.lines = 0 .. (size.lines - 1) BY DEF FrameType
  <1>3. ASSUME NEW l \in 0 .. (size.lines - 1)
        PROVE  /\ e(l) \in LineBounds(size)
               /\ e(l).left <= f.lines[l].left /\ f.lines[l].right <= e(l).right
               /\ \A o \in On(l) : e(l).left <= o.left /\ o.right <= e(l).right
    <2> DEFINE b == f.lines[l]
    <2>1. b \in LineBounds(size) BY DEF FrameType
    <2>2. CASE On(l) = {}
      <3> HIDE DEF On, b
      <3>1. e(l) = b BY <2>2 DEF b
      <3>2. b.left <= b.left /\ b.right <= b.right BY <2>1 DEF LineBounds
      <3>3. QED BY <2>1, <2>2, <3>1, <3>2 DEF b
    <2>3. CASE On(l) # {}
      <3> DEFINE L == {o.left : o \in On(l)}
                 R == {o.right : o \in On(l)}
                 x == Min(L)
                 y == Max(R)
      <3>1. L \in SUBSET (0 .. n) /\ R \in SUBSET (0 .. n) OBVIOUS
      <3>2. L # {} /\ R # {}
        <4> HIDE DEF On
        <4>1. QED BY <2>3
      <3>3. ASSUME NEW o \in On(l) PROVE o.left \in L /\ o.right \in R
        <4> HIDE DEF On
        <4>1. QED OBVIOUS
      <3>4. e(l) = Expanded(b, x, y)
        <4> HIDE DEF On
        <4>1. QED BY <2>3
      <3> HIDE DEF L, R, e, On, b
      <3>5. x \in 0 .. n /\ y \in 0 .. n /\ (\A k \in L : x <= k) /\ (\A k \in R : k <= y) BY <1>0, <3>1, <3>2, Extremes
      <3> HIDE DEF x, y
      <3>6. b \in [left : 0 .. n, right : 0 .. n] BY <2>1 DEF LineBounds
      <3> HIDE DEF n
      <3>7. /\ e(l) \in [left : 0 .. n, right : 0 .. n] /\ e(l).left <= b.left /\ b.right <= e(l).right
            /\ e(l).left <= x /\ y <= e(l).right
        BY <1>0, <3>4, <3>5, <3>6, ExpandedBounds
      <3>8. ASSUME NEW o \in On(l) PROVE e(l).left <= o.left /\ o.right <= e(l).right
        <4>1. o.left \in 0 .. n /\ o.right \in 0 .. n BY <3>1, <3>3
        <4>2. x <= o.left /\ o.right <= y BY <3>3, <3>5
        <4>3. e(l).left \in 0 .. n /\ e(l).right \in 0 .. n BY <3>7
        <4>4. QED BY <1>0, <3>5, <3>7, <4>1, <4>2, <4>3
      <3>9. QED BY <3>7, <3>8 DEF b, n, LineBounds
    <2>4. QED BY <2>2, <2>3
  <1> HIDE DEF e
  <1>4. lines \in [0 .. (size.lines - 1) -> LineBounds(size)] BY <1>2, <1>3
  <1>5. \A l \in 0 .. (size.lines - 1) : lines[l] = e(l) BY <1>2
  <1> HIDE DEF lines, g
  <1>6. g \in FrameType(size) /\ g.full = f.full /\ g.rects = f.rects /\ g.lines = lines BY <1>1, <1>4, LinesSet
  <1>7. Grows(f, g, size)
    <2>1. \A l \in 0 .. (size.lines - 1) : g.lines[l].left <= f.lines[l].left /\ f.lines[l].right <= g.lines[l].right
      BY <1>3, <1>5, <1>6
    <2>2. f.full => g.full BY <1>6
    <2>3. QED BY <1>6, <2>1, <2>2, LinesGrow
  <1>8. ASSUME NEW p \in SpanCells(size, spans) PROVE p \in DamagedCells(g, size)
    <2>1. PICK o \in spans : p.line = o.line /\ InBounds(o, p.column) BY DEF SpanCells
    <2>2. p \in Cells(size) BY DEF SpanCells
    <2>3. p.line \in 0 .. (size.lines - 1) /\ p.column \in 0 .. (size.columns - 1) BY <2>2 DEF Cells
    <2>4. o \in On(p.line) BY <2>1
    <2> DEFINE b == g.lines[p.line]
    <2>5. b = e(p.line) BY <1>5, <1>6, <2>3
    <2>6. b.left <= o.left /\ o.right <= b.right /\ b \in LineBounds(size) BY <1>3, <2>3, <2>4, <2>5
    <2>7. o.left <= p.column /\ p.column <= o.right BY <2>1 DEF InBounds
    <2>8. b.left <= p.column /\ p.column <= b.right
      <3>1. b.left \in Int /\ b.right \in Int /\ o.left \in Int /\ o.right \in Int /\ p.column \in Int
        <4> HIDE DEF b
        <4>1. b.left \in Int /\ b.right \in Int BY <2>6 DEF LineBounds
        <4>2. o.left \in Int /\ o.right \in Int OBVIOUS
        <4>3. QED BY <2>3, <4>1, <4>2
      <3> HIDE DEF b
      <3>2. QED BY <2>6, <2>7, <3>1
    <2>9. InBounds(b, p.column) BY <2>8 DEF InBounds
    <2>10. QED BY <2>2, <2>9 DEF DamagedCells
  <1>9. QED BY <1>6, <1>7, <1>8 DEF g


(* A set of points is damaged as the spans of one column. *)
LEMMA PointsDamaged ==
  ASSUME NEW size \in SizeType, NEW f \in FrameType(size), NEW points, \A p \in points : p.column \in 0 .. size.columns
  PROVE  LET g == damage_points(f, points)
         IN  Grows(f, g, size) /\ g.full = f.full /\ g.rects = f.rects /\ points \intersect Cells(size) \subseteq DamagedCells(g, size)
  <1> DEFINE S == {[line |-> p.line, left |-> p.column, right |-> p.column] : p \in points}
             g == damage_spans(f, S)
  <1>1. \A o \in S : o.left \in 0 .. size.columns /\ o.right \in 0 .. size.columns OBVIOUS
  <1>2. points \intersect Cells(size) \subseteq SpanCells(size, S)
    <2> SUFFICES ASSUME NEW p \in points, p \in Cells(size) PROVE p \in SpanCells(size, S) OBVIOUS
    <2> DEFINE o == [line |-> p.line, left |-> p.column, right |-> p.column]
    <2>1. o \in S OBVIOUS
    <2>2. p.column \in Int /\ p.column <= p.column BY DEF Cells
    <2>3. p.line = o.line /\ o.left <= p.column /\ p.column <= o.right BY <2>2
    <2> HIDE DEF S, o
    <2>4. QED BY <2>1, <2>3 DEF SpanCells, InBounds
  <1>3. damage_points(f, points) = g BY DEF damage_points
  <1> HIDE DEF S
  <1>4. Grows(f, g, size) /\ g.full = f.full /\ g.rects = f.rects /\ SpanCells(size, S) \subseteq DamagedCells(g, size)
    BY <1>1, SpansDamaged
  <1> HIDE DEF g
  <1>5. QED BY <1>2, <1>3, <1>4

(* A frame that is damaged as a whole. *)
LEMMA FullDamaged ==
  ASSUME NEW size, NEW f \in FrameType(size)
  PROVE  LET g == mark_frame_damaged(f)
         IN  g.full /\ g.full = TRUE /\ g.lines = f.lines /\ g.rects = f.rects /\ Grows(f, g, size)
  <1> DEFINE g == mark_frame_damaged(f)
  <1>1. g \in FrameType(size) /\ g.full = TRUE /\ g.lines = f.lines /\ g.rects = f.rects BY DEF FrameType, mark_frame_damaged
  <1> HIDE DEF g
  <1>2. DamagedCells(f, size) \subseteq DamagedCells(g, size) BY <1>1 DEF DamagedCells
  <1>3. QED BY <1>1, <1>2 DEF Grows, g

(* A frame that is damaged as a whole has every cell. *)
LEMMA FullHasAll ==
  ASSUME NEW size, NEW f, f.full
  PROVE  DamagedCells(f, size) = Cells(size)
  BY DEF DamagedCells

(* Growing twice is growing. *)
LEMMA GrowsMore ==
  ASSUME NEW size, NEW f, NEW g, NEW h, Grows(f, g, size), Grows(g, h, size)
  PROVE  Grows(f, h, size)
  BY DEF Grows

(* A frame has its own damage. *)
LEMMA GrowsSelf ==
  ASSUME NEW size, NEW f \in FrameType(size)
  PROVE  Grows(f, f, size)
  BY DEF Grows

(* A frame that was just reset is a frame without damage of the whole. *)
LEMMA ResetFrame ==
  ASSUME NEW size \in SizeType
  PROVE  reset_frame(size) \in FrameType(size) /\ ~reset_frame(size).full
  <1> DEFINE n == size.columns
             b == Bounds(n, 0)
  <1>1. b \in LineBounds(size)
    <2>1. n \in 0 .. n /\ 0 \in 0 .. n BY DEF SizeType
    <2>2. QED BY <2>1 DEF LineBounds, Bounds
  <1>2. << >> \in Seq(RectType) OBVIOUS
  <1>3. reset_frame(size) = [full |-> FALSE, lines |-> [l \in 0 .. (size.lines - 1) |-> b], rects |-> << >>] BY DEF reset_frame
  <1> HIDE DEF b
  <1>4. QED BY <1>1, <1>2, <1>3 DEF FrameType

(* What the terminal damaged is in the damage of the frame. *)
LEMMA AppliedDamage ==
  ASSUME NEW size \in SizeType, NEW f \in FrameType(size), NEW s, s.damage \in FrameType(size), s.offset \in Nat
  PROVE  LET g == apply_damage(f, s)
         IN  /\ Grows(f, g, size) /\ (s.damage.full => g.full)
             /\ DamagedCells(apply_damage(reset_frame(size), s), size) \subseteq DamagedCells(g, size)
  <1> DEFINE d == s.damage
             offset == s.offset
             n == size.columns
             g == apply_damage(f, s)
             r == reset_frame(size)
  <1>0. r \in FrameType(size) BY ResetFrame
  <1>00. n \in Nat \ {0} BY DEF SizeType
  <1>1. CASE d.full
    <2>1. g = mark_frame_damaged(f) BY <1>1 DEF apply_damage
    <2>2. g.full /\ Grows(f, g, size) BY <2>1, FullDamaged
    <2>3. DamagedCells(g, size) = Cells(size) BY <2>2, FullHasAll
    <2>4. DamagedCells(apply_damage(r, s), size) \subseteq Cells(size) BY DEF DamagedCells
    <2>5. QED BY <2>2, <2>3, <2>4
  <1>2. CASE ~d.full
    <2> DEFINE e(b, l) == IF l >= offset THEN Expanded(b, d.lines[l - offset].left, d.lines[l - offset].right) ELSE b
               lines(h) == [l \in DOMAIN h.lines |-> e(h.lines[l], l)]
    <2>1. ASSUME NEW h PROVE apply_damage(h, s) = [h EXCEPT !.lines = lines(h)]
      BY <1>2, Zenon DEF apply_damage
    <2>2. ASSUME NEW h \in FrameType(size)
          PROVE  /\ apply_damage(h, s) \in FrameType(size)
                 /\ apply_damage(h, s).full = h.full
                 /\ \A l \in 0 .. (size.lines - 1) : apply_damage(h, s).lines[l] = e(h.lines[l], l)
      <3>1. DOMAIN h.lines = 0 .. (size.lines - 1) /\ \A l \in 0 .. (size.lines - 1) : h.lines[l] \in LineBounds(size) BY DEF FrameType
      <3>2. ASSUME NEW l \in 0 .. (size.lines - 1) PROVE e(h.lines[l], l) \in LineBounds(size)
        <4>1. CASE l >= offset
          <5> DEFINE k == l - offset
                     c == d.lines[k]
                     b == h.lines[l]
          <5>1. k \in 0 .. (size.lines - 1) BY <4>1 DEF SizeType
          <5>2. c \in LineBounds(size) /\ b \in LineBounds(size) BY <3>1, <5>1 DEF FrameType
          <5>3. e(b, l) = Expanded(b, c.left, c.right) BY <4>1
          <5> HIDE DEF c, b, e
          <5>4. c.left \in 0 .. n /\ c.right \in 0 .. n /\ b \in [left : 0 .. n, right : 0 .. n] BY <5>2 DEF LineBounds
          <5> HIDE DEF n
          <5> DEFINE cl == c.left
                     cr == c.right
          <5> HIDE DEF cl, cr
          <5>5. e(b, l) \in [left : 0 .. n, right : 0 .. n]
            <6>1. cl \in 0 .. n /\ cr \in 0 .. n /\ e(b, l) = Expanded(b, cl, cr) BY <5>3, <5>4 DEF cl, cr
            <6>2. Expanded(b, cl, cr) \in [left : 0 .. n, right : 0 .. n] BY <1>00, <5>4, <6>1, ExpandedBounds
            <6>3. QED BY <6>1, <6>2
          <5>6. QED BY <5>5 DEF b, LineBounds, n
        <4>2. CASE ~(l >= offset) BY <3>1, <4>2
        <4>3. QED BY <4>1, <4>2
      <3> HIDE DEF e
      <3>3. lines(h) \in [0 .. (size.lines - 1) -> LineBounds(size)] BY <3>1, <3>2
      <3>4. \A l \in 0 .. (size.lines - 1) : lines(h)[l] = e(h.lines[l], l) BY <3>1
      <3> DEFINE Ls == lines(h)
                 k == [h EXCEPT !.lines = Ls]
      <3>5. apply_damage(h, s) = k /\ Ls \in [0 .. (size.lines - 1) -> LineBounds(size)] BY <2>1, <3>3
      <3> HIDE DEF Ls
      <3>6. k \in FrameType(size) /\ k.full = h.full /\ k.lines = Ls BY <3>5, LinesSet
      <3> HIDE DEF k
      <3>7. \A l \in 0 .. (size.lines - 1) : k.lines[l] = e(h.lines[l], l) BY <3>4, <3>6 DEF Ls
      <3>8. QED BY <3>5, <3>6, <3>7
    <2>3. g \in FrameType(size) /\ g.full = f.full /\ \A l \in 0 .. (size.lines - 1) : g.lines[l] = e(f.lines[l], l) BY <2>2
    <2> DEFINE z == apply_damage(r, s)
    <2>4. z.full = FALSE /\ \A l \in 0 .. (size.lines - 1) : z.lines[l] = e(Bounds(n, 0), l)
      <3>1. r.full = FALSE /\ \A l \in 0 .. (size.lines - 1) : r.lines[l] = Bounds(n, 0) BY DEF reset_frame
      <3> HIDE DEF r, e
      <3>2. QED BY <1>0, <2>2, <3>1
    <2>5. ASSUME NEW l \in 0 .. (size.lines - 1)
          PROVE  /\ g.lines[l].left <= f.lines[l].left /\ f.lines[l].right <= g.lines[l].right
                 /\ \A c \in 0 .. (n - 1) : InBounds(z.lines[l], c) => InBounds(g.lines[l], c)
      <3> DEFINE b == f.lines[l]
                 a == g.lines[l]
                 y == z.lines[l]
      <3>1. b \in [left : 0 .. n, right : 0 .. n] BY DEF FrameType, LineBounds
      <3>2. a = e(b, l) /\ y = e(Bounds(n, 0), l) BY <2>3, <2>4
      <3>3. CASE l >= offset
        <4> DEFINE k == l - offset
                   dl == d.lines[k].left
                   dr == d.lines[k].right
        <4>1. k \in 0 .. (size.lines - 1) BY <3>3 DEF SizeType
        <4>2. d.lines[k] \in LineBounds(size) BY <4>1 DEF FrameType
        <4>3. dl \in 0 .. n /\ dr \in 0 .. n BY <4>2 DEF LineBounds
        <4>4. a = Expanded(b, dl, dr) /\ y = Expanded(Bounds(n, 0), dl, dr) BY <3>2, <3>3
        <4>5. a.left <= b.left /\ b.right <= a.right /\ a.left <= dl /\ dr <= a.right /\ a.left \in Int /\ a.right \in Int
          <5> HIDE DEF a, b, dl, dr, n
          <5>1. /\ Expanded(b, dl, dr) \in [left : 0 .. n, right : 0 .. n]
                /\ Expanded(b, dl, dr).left <= b.left /\ b.right <= Expanded(b, dl, dr).right
                /\ Expanded(b, dl, dr).left <= dl /\ dr <= Expanded(b, dl, dr).right
            BY <1>00, <3>1, <4>3, ExpandedBounds
          <5>2. QED BY <4>4, <5>1
        <4>6. y.left = dl /\ y.right = dr
          <5> HIDE DEF y, dl, dr, n, a
          <5>1. Smaller(n, dl) = dl /\ Larger(0, dr) = dr BY <1>00, <4>3 DEF Smaller, Larger
          <5>2. y = [left |-> Smaller(n, dl), right |-> Larger(0, dr)] BY <4>4 DEF Expanded, Bounds
          <5>3. QED BY <5>1, <5>2
        <4>7. ASSUME NEW c \in 0 .. (n - 1), InBounds(y, c) PROVE InBounds(a, c)
          <5>1. dl <= c /\ c <= dr BY <4>6, <4>7 DEF InBounds
          <5> HIDE DEF a, dl, dr, n
          <5>2. a.left <= c /\ c <= a.right BY <1>00, <4>3, <4>5, <5>1
          <5>3. QED BY <5>2 DEF InBounds
        <4>8. QED BY <4>5, <4>7
      <3>4. CASE ~(l >= offset)
        <4>1. a = b /\ y = Bounds(n, 0) BY <3>2, <3>4
        <4> HIDE DEF a, b, y, n
        <4>2. a.left <= b.left /\ b.right <= a.right BY <3>1, <4>1
        <4>3. ASSUME NEW c \in 0 .. (n - 1) PROVE ~InBounds(y, c)
          <5>1. y.left = n BY <4>1 DEF Bounds
          <5>2. ~(n <= c) BY <1>00
          <5>3. QED BY <5>1, <5>2 DEF InBounds
        <4>4. QED BY <4>2, <4>3 DEF a, b, y
      <3>5. QED BY <3>3, <3>4
    <2> HIDE DEF e, g, z
    <2>6. Grows(f, g, size) BY <2>3, <2>5, LinesGrow
    <2>7. ASSUME NEW p \in DamagedCells(z, size) PROVE p \in DamagedCells(g, size)
      <3>1. p \in Cells(size) /\ p.line \in 0 .. (size.lines - 1) /\ p.column \in 0 .. (n - 1) BY DEF DamagedCells, Cells
      <3>2. InBounds(z.lines[p.line], p.column) BY <2>4 DEF DamagedCells
      <3>3. InBounds(g.lines[p.line], p.column) BY <2>5, <3>1, <3>2
      <3>4. QED BY <3>1, <3>3 DEF DamagedCells
    <2>8. QED BY <1>2, <2>6, <2>7 DEF g, z
  <1>3. QED BY <1>1, <1>2


(* Ranges of the grid, and the cells of the screen that they are on. *)
GridPlaces == [line : Int, column : Int]
Ranges == [start : GridPlaces, end : GridPlaces]
CellsAt(size, offset, option) ==
  {p \in Cells(size) : \E r \in ToSet(option) : Within(r, viewport_to_point(offset, p))}

(* damage_selection marks every line of the screen that a selection has a cell on,
   also when the selection begins above it or ends below it. *)
LEMMA SelectedCellsOnLines ==
  ASSUME NEW size \in SizeType, NEW offset \in Nat, NEW r \in Ranges, NEW p \in Cells(size),
         Within(r, viewport_to_point(offset, p))
  PROVE  p.line \in SelectedLines(r, offset, size)
  <1> DEFINE l == p.line
             last == size.lines - 1
             from == r.start.line
             till == r.end.line
             end == till + offset
             abs == IF from < 0 THEN -from ELSE from
  <1>1. l \in 0 .. last /\ last \in Nat
    <2>1. size.lines \in Nat \ {0} BY DEF SizeType
    <2>2. l \in 0 .. last BY DEF Cells
    <2>3. QED BY <2>1, <2>2
  <1>2. from \in Int /\ till \in Int BY DEF Ranges, GridPlaces
  <1>3. from <= l - offset /\ l - offset <= till
    <2>1. ~(l - offset < from) /\ ~(till < l - offset) BY DEF Within, Before, viewport_to_point, Point
    <2> HIDE DEF l, from, till
    <2>2. QED BY <1>1, <1>2, <2>1
  <1>4. SelectedLines(r, offset, size) = IF end < 0 \/ abs < offset - last THEN {}
                                         ELSE Larger(from + offset, 0) .. Larger(0, Smaller(end, last))
    BY DEF SelectedLines
  <1> HIDE DEF l, last, from, till
  <1>5. ~(end < 0 \/ abs < offset - last) BY <1>1, <1>2, <1>3
  <1>6. l \in Larger(from + offset, 0) .. Larger(0, Smaller(end, last)) BY <1>1, <1>2, <1>3 DEF Larger, Smaller
  <1>7. QED BY <1>4, <1>5, <1>6 DEF l

(* The frames that the decorations of a screen are added to. *)
ViFrame(f, v, w) == IF f.full THEN f ELSE damage_points(f, ToSet(w) \union ToSet(v))
HitLines(selection, old, offset, size) ==
  UNION {SelectedLines(r, offset, size) : r \in ToSet(selection) \union ToSet(old)}
SelectionFrame(f, selection, old, offset, size) ==
  IF f.full \/ selection = old THEN f
  ELSE damage_spans(f, {[line |-> l, left |-> 0, right |-> size.columns - 1] : l \in HitLines(selection, old, offset, size)})
BarRect(size) ==
  LET top == size.padding + size.lines * size.cellHeight
  IN  [x |-> 0, y |-> viewport_y_to_damage_y(size, top, Height(size) - top), width |-> Width(size), height |-> Height(size) - top]
BarFrame(f, size) == IF size.bar = 0 THEN f ELSE [f EXCEPT !.rects = Append(f.rects, BarRect(size))]

(* damage_vi_cursor has the cursor that was drawn last and the one drawn now. *)
LEMMA ViFrameDamaged ==
  ASSUME NEW size \in SizeType, NEW f \in FrameType(size), NEW v, NEW w, ToSet(w) \subseteq Cells(size),
         f.full \/ ToSet(v) \subseteq Cells(size)
  PROVE  LET g == ViFrame(f, v, w)
         IN  Grows(f, g, size) /\ g.full = f.full /\ g.rects = f.rects /\
             (f.full \/ ToSet(v) \union ToSet(w) \subseteq DamagedCells(g, size))
  <1>1. CASE f.full
    <2>1. ViFrame(f, v, w) = f BY <1>1 DEF ViFrame
    <2>2. Grows(f, f, size) BY GrowsSelf
    <2>3. QED BY <1>1, <2>1, <2>2
  <1>2. CASE ~f.full
    <2> DEFINE P == ToSet(w) \union ToSet(v)
               g == damage_points(f, P)
    <2>1. ViFrame(f, v, w) = g BY <1>2 DEF ViFrame
    <2>2. P \subseteq Cells(size) /\ P = ToSet(v) \union ToSet(w) BY <1>2
    <2> HIDE DEF P
    <2>3. ASSUME NEW p \in P PROVE p.column \in 0 .. size.columns
      <3>1. p.column \in 0 .. (size.columns - 1) BY <2>2 DEF Cells
      <3>2. size.columns \in Nat BY DEF SizeType
      <3>3. QED BY <3>1, <3>2
    <2>4. Grows(f, g, size) /\ g.full = f.full /\ g.rects = f.rects /\ P \intersect Cells(size) \subseteq DamagedCells(g, size)
      BY <2>3, PointsDamaged
    <2> HIDE DEF g
    <2>5. QED BY <2>1, <2>2, <2>4
  <1>3. QED BY <1>1, <1>2

(* damage_selection has the cells of the last and of the new selection when they differ. *)
LEMMA SelectionFrameDamaged ==
  ASSUME NEW size \in SizeType, NEW f \in FrameType(size), NEW selection, NEW old, NEW offset \in Nat,
         ToSet(selection) \subseteq Ranges, ToSet(old) \subseteq Ranges
  PROVE  LET g == SelectionFrame(f, selection, old, offset, size)
         IN  Grows(f, g, size) /\ g.full = f.full /\ g.rects = f.rects /\
             (f.full \/ selection = old
              \/ CellsAt(size, offset, selection) \union CellsAt(size, offset, old) \subseteq DamagedCells(g, size))
  <1>1. CASE f.full \/ selection = old
    <2>1. SelectionFrame(f, selection, old, offset, size) = f BY <1>1 DEF SelectionFrame
    <2>2. Grows(f, f, size) BY GrowsSelf
    <2>3. QED BY <1>1, <2>1, <2>2
  <1>2. CASE ~(f.full \/ selection = old)
    <2> DEFINE n == size.columns - 1
               H == HitLines(selection, old, offset, size)
               S == {[line |-> l, left |-> 0, right |-> n] : l \in H}
               g == damage_spans(f, S)
    <2>1. SelectionFrame(f, selection, old, offset, size) = g BY <1>2 DEF SelectionFrame
    <2>2. 0 \in 0 .. size.columns /\ n \in 0 .. size.columns /\ n \in Nat
      <3>1. size.columns \in Nat \ {0} BY DEF SizeType
      <3>2. QED BY <3>1
    <2>3. \A a \in S : a.left \in 0 .. size.columns /\ a.right \in 0 .. size.columns BY <2>2
    <2>4. ASSUME NEW p \in Cells(size), p.line \in H PROVE p \in SpanCells(size, S)
      <3> DEFINE a == [line |-> p.line, left |-> 0, right |-> n]
      <3>1. a \in S BY <2>4
      <3>2. p.column \in 0 .. n BY DEF Cells
      <3>3. p.line = a.line /\ a.left <= p.column /\ p.column <= a.right BY <2>2, <3>2
      <3> HIDE DEF a, S
      <3>4. QED BY <3>1, <3>3 DEF SpanCells, InBounds
    <2> HIDE DEF S
    <2>5. Grows(f, g, size) /\ g.full = f.full /\ g.rects = f.rects /\ SpanCells(size, S) \subseteq DamagedCells(g, size)
      BY <2>3, SpansDamaged
    <2> HIDE DEF g
    <2>6. ASSUME NEW p \in CellsAt(size, offset, selection) \union CellsAt(size, offset, old) PROVE p \in DamagedCells(g, size)
      <3>1. p \in Cells(size) BY DEF CellsAt
      <3>2. PICK r \in ToSet(selection) \union ToSet(old) : Within(r, viewport_to_point(offset, p)) BY DEF CellsAt
      <3>3. r \in Ranges BY <3>2
      <3>4. p.line \in SelectedLines(r, offset, size) BY <3>1, <3>2, <3>3, SelectedCellsOnLines
      <3>5. p.line \in H BY <3>2, <3>4, Zenon DEF HitLines
      <3>6. QED BY <2>4, <2>5, <3>1, <3>5
    <2>7. QED BY <2>1, <2>5, <2>6
  <1>3. QED BY <1>1, <1>2

(* The size of the window in pixels. *)
LEMMA Extents ==
  ASSUME NEW size \in SizeType
  PROVE  Width(size) \in Nat /\ Height(size) \in Nat /\ size.lines * size.cellHeight \in Nat
  <1> DEFINE a == size.columns * size.cellWidth
             b == (size.lines + size.bar) * size.cellHeight
             c == size.lines * size.cellHeight
  <1>1. ASSUME NEW x \in Nat, NEW y \in Nat PROVE x * y \in Nat OBVIOUS
  <1>2. /\ size.columns \in Nat /\ size.cellWidth \in Nat /\ size.lines \in Nat /\ size.bar \in Nat /\ size.cellHeight \in Nat
        /\ size.padding \in Nat
    BY DEF SizeType
  <1>3. size.lines + size.bar \in Nat BY <1>2
  <1>4. a \in Nat /\ b \in Nat /\ c \in Nat BY <1>1, <1>2, <1>3
  <1>5. Width(size) = 2 * size.padding + a /\ Height(size) = 2 * size.padding + b BY DEF Width, Height
  <1> HIDE DEF a, b
  <1>6. QED BY <1>2, <1>4, <1>5

(* The rectangle of the message bar is added to the damage. *)
LEMMA BarFrameDamaged ==
  ASSUME NEW size \in SizeType, NEW f \in FrameType(size)
  PROVE  LET g == BarFrame(f, size)
         IN  Grows(f, g, size) /\ g.full = f.full /\ (size.bar > 0 => BarRect(size) \in ToSet(g.rects))
  <1>1. CASE size.bar = 0
    <2>1. BarFrame(f, size) = f /\ ~(size.bar > 0) BY <1>1 DEF BarFrame
    <2>2. Grows(f, f, size) BY GrowsSelf
    <2>3. QED BY <2>1, <2>2
  <1>2. CASE size.bar # 0
    <2> DEFINE b == BarRect(size)
               q == Append(f.rects, b)
               g == [f EXCEPT !.rects = q]
    <2>1. BarFrame(f, size) = g BY <1>2 DEF BarFrame
    <2>2. b \in RectType
      <3> DEFINE top == size.padding + size.lines * size.cellHeight
                 W == Width(size)
                 H == Height(size)
                 h == H - top
      <3>1. top \in Int /\ W \in Int /\ H \in Int BY Extents DEF SizeType
      <3>2. b = [x |-> 0, y |-> H - top - h, width |-> W, height |-> h] BY DEF BarRect, viewport_y_to_damage_y
      <3> HIDE DEF top, W, H, b
      <3>3. QED BY <3>1, <3>2 DEF RectType
    <2> HIDE DEF b
    <2>3. f.rects \in Seq(RectType) BY DEF FrameType
    <2>4. q \in Seq(RectType) /\ Len(q) = Len(f.rects) + 1 /\ q[Len(f.rects) + 1] = b BY <2>2, <2>3
    <2>5. Len(f.rects) + 1 \in DOMAIN q BY <2>3, <2>4
    <2> HIDE DEF q
    <2>6. b \in ToSet(q) BY <2>4, <2>5 DEF ToSet
    <2>7. g \in FrameType(size) /\ g.full = f.full /\ g.lines = f.lines /\ g.rects = q BY <2>4 DEF FrameType
    <2> HIDE DEF g
    <2>8. DamagedCells(f, size) \subseteq DamagedCells(g, size) BY <2>7 DEF DamagedCells
    <2>9. QED BY <2>1, <2>6, <2>7, <2>8 DEF Grows, b
  <1>3. QED BY <1>1, <1>2


(* A tracker of two frames, the vi cursor and the selection drawn last. *)
TrackerOf(f, g, v, old) == [frames |-> << f, g >>, old_vi |-> v, old_selection |-> old]

SetFrames(t, h, k) == [t EXCEPT !.frames = << h, k >>]
SetVi(t, w) == [t EXCEPT !.old_vi = w]
SetSelection(t, selection) == [t EXCEPT !.old_selection = selection]

(* The fields of a tracker. *)
LEMMA TrackerFields ==
  ASSUME NEW f, NEW g, NEW v, NEW old
  PROVE  /\ TrackerOf(f, g, v, old).frames[1] = f /\ TrackerOf(f, g, v, old).frames[2] = g
         /\ TrackerOf(f, g, v, old).old_vi = v /\ TrackerOf(f, g, v, old).old_selection = old
  BY DEF TrackerOf

(* A tracker with other frames. *)
LEMMA TrackerSetFrames ==
  ASSUME NEW f, NEW g, NEW v, NEW old, NEW h, NEW k
  PROVE  SetFrames(TrackerOf(f, g, v, old), h, k) = TrackerOf(h, k, v, old)
  BY DEF TrackerOf, SetFrames

(* A tracker with another vi cursor. *)
LEMMA TrackerSetVi ==
  ASSUME NEW f, NEW g, NEW v, NEW old, NEW w
  PROVE  SetVi(TrackerOf(f, g, v, old), w) = TrackerOf(f, g, w, old)
  BY DEF TrackerOf, SetVi

(* A tracker with another selection. *)
LEMMA TrackerSetSelection ==
  ASSUME NEW f, NEW g, NEW v, NEW old, NEW selection
  PROVE  SetSelection(TrackerOf(f, g, v, old), selection) = TrackerOf(f, g, v, selection)
  BY DEF TrackerOf, SetSelection

(* A tracker with another first frame. *)
LEMMA TrackerWithFrame ==
  ASSUME NEW f, NEW g, NEW v, NEW old, NEW h
  PROVE  WithFrame(TrackerOf(f, g, v, old), h) = TrackerOf(h, g, v, old)
  BY DEF TrackerOf, WithFrame

(* What damage_vi_cursor does to a tracker. *)
LEMMA TrackerVi ==
  ASSUME NEW f, NEW g, NEW v, NEW old, NEW w
  PROVE  damage_vi_cursor(TrackerOf(f, g, v, old), w) = TrackerOf(ViFrame(f, v, w), g, w, old)
  <1> DEFINE t == TrackerOf(f, g, v, old)
             now == SetVi(t, w)
             p == damage_points(f, ToSet(w) \union ToSet(v))
  <1>1. t.frames[1] = f /\ t.old_vi = v /\ now = TrackerOf(f, g, w, old) BY TrackerFields, TrackerSetVi
  <1>2. damage_vi_cursor(t, w) = IF t.frames[1].full THEN now
                                 ELSE WithFrame(now, damage_points(t.frames[1], ToSet(w) \union ToSet(t.old_vi)))
    BY Zenon DEF damage_vi_cursor, SetVi
  <1> HIDE DEF t, now
  <1>3. damage_vi_cursor(t, w) = IF f.full THEN now ELSE WithFrame(now, p) BY <1>1, <1>2
  <1>4. ViFrame(f, v, w) = IF f.full THEN f ELSE p BY DEF ViFrame
  <1> HIDE DEF p
  <1>5. WithFrame(now, p) = TrackerOf(p, g, w, old) BY <1>1, TrackerWithFrame
  <1>6. QED BY <1>1, <1>3, <1>4, <1>5 DEF t

(* What damage_selection does to a tracker. *)
LEMMA TrackerSelection ==
  ASSUME NEW f, NEW g, NEW v, NEW old, NEW selection, NEW offset, NEW size
  PROVE  damage_selection(TrackerOf(f, g, v, old), selection, offset, size)
           = TrackerOf(SelectionFrame(f, selection, old, offset, size), g, v, selection)
  <1> DEFINE t == TrackerOf(f, g, v, old)
             now == SetSelection(t, selection)
             H == HitLines(selection, old, offset, size)
             Spans(hit) == {[line |-> l, left |-> 0, right |-> size.columns - 1] : l \in hit}
             Hit(was) == UNION {SelectedLines(r, offset, size) : r \in ToSet(selection) \union ToSet(was)}
             p == damage_spans(f, Spans(H))
  <1>1. t.frames[1] = f /\ t.old_selection = old /\ now = TrackerOf(f, g, v, selection) BY TrackerFields, TrackerSetSelection
  <1>2. damage_selection(t, selection, offset, size)
          = IF t.frames[1].full \/ selection = t.old_selection THEN now
            ELSE WithFrame(now, damage_spans(t.frames[1], Spans(Hit(t.old_selection))))
    BY Zenon DEF damage_selection, SetSelection
  <1>3. Hit(old) = H BY Zenon DEF HitLines
  <1>4. SelectionFrame(f, selection, old, offset, size) = IF f.full \/ selection = old THEN f ELSE p
    BY Zenon DEF SelectionFrame
  <1> HIDE DEF t, now, Hit, H, Spans
  <1>5. damage_selection(t, selection, offset, size) = IF f.full \/ selection = old THEN now ELSE WithFrame(now, p)
    BY <1>1, <1>2, <1>3
  <1> HIDE DEF p
  <1>6. WithFrame(now, p) = TrackerOf(p, g, v, selection) BY <1>1, TrackerWithFrame
  <1>7. QED BY <1>1, <1>4, <1>5, <1>6 DEF t

(* The frames after Decorate. *)
Covered1(f, s) == IF s.overlay THEN mark_frame_damaged(f) ELSE f
Underlines(s) == CellsOf(s, s.hint) \union CellsOf(s, s.viHint)
Drawn(f, v, old, s) ==
  BarFrame(damage_spans(damage_points(
      SelectionFrame(ViFrame(Covered1(f, s), v, ViPoint(s)), s.selection, old, s.offset, s.size),
      Underlines(s)), Painted(s)), s.size)
Later(g, s) == damage_spans(Covered1(g, s), Painted(s))

(* What Display::draw does to a tracker, one decoration after the other. *)
LEMMA TrackerDecorated ==
  ASSUME NEW f, NEW g, NEW v, NEW old, NEW s
  PROVE  Decorate(TrackerOf(f, g, v, old), s) = TrackerOf(Drawn(f, v, old, s), Later(g, s), ViPoint(s), s.selection)
  <1> DEFINE t1 == TrackerOf(f, g, v, old)
             t2 == IF s.overlay THEN [t1 EXCEPT !.frames = << mark_frame_damaged(@[1]), mark_frame_damaged(@[2]) >>] ELSE t1
             tv == damage_vi_cursor(t2, ViPoint(s))
             t3 == damage_selection(tv, s.selection, s.offset, s.size)
             t4 == WithFrame(t3, damage_points(t3.frames[1], CellsOf(s, s.hint) \union CellsOf(s, s.viHint)))
             t5 == [t4 EXCEPT !.frames = << damage_spans(@[1], Painted(s)), damage_spans(@[2], Painted(s)) >>]
             top == s.size.padding + s.size.lines * s.size.cellHeight
             t6 == IF s.size.bar = 0 THEN t5
                   ELSE WithFrame(t5, add_viewport_rect(t5.frames[1], s.size, 0, top, Width(s.size), Height(s.size) - top))
             f2 == Covered1(f, s)
             g2 == Covered1(g, s)
             f3 == ViFrame(f2, v, ViPoint(s))
             f4 == SelectionFrame(f3, s.selection, old, s.offset, s.size)
             f5 == damage_points(f4, Underlines(s))
             f6 == damage_spans(f5, Painted(s))
             g6 == damage_spans(g2, Painted(s))
             f7 == BarFrame(f6, s.size)
             w == ViPoint(s)
             sel == s.selection
  <1>0. Decorate(t1, s) = t6 BY Zenon DEF Decorate
  <1>00. Drawn(f, v, old, s) = f7 /\ Later(g, s) = g6 BY Zenon DEF Drawn, Later
  <1>1. t1.frames[1] = f /\ t1.frames[2] = g BY TrackerFields
  <1>2. t2 = TrackerOf(f2, g2, v, old)
    <2> DEFINE a == mark_frame_damaged(f)
               b == mark_frame_damaged(g)
    <2>1. t2 = IF s.overlay THEN SetFrames(t1, mark_frame_damaged(t1.frames[1]), mark_frame_damaged(t1.frames[2])) ELSE t1
      BY Zenon DEF SetFrames
    <2>2. f2 = (IF s.overlay THEN a ELSE f) /\ g2 = (IF s.overlay THEN b ELSE g) BY Zenon DEF Covered1
    <2> HIDE DEF t2, f2, g2
    <2>3. t2 = IF s.overlay THEN SetFrames(t1, a, b) ELSE t1 BY <1>1, <2>1
    <2> HIDE DEF a, b
    <2>4. SetFrames(t1, a, b) = TrackerOf(a, b, v, old) BY TrackerSetFrames
    <2>5. QED BY <2>2, <2>3, <2>4
  <1> HIDE DEF t1, t2, f2, g2
  <1>3. tv = TrackerOf(f3, g2, w, old) BY <1>2, TrackerVi
  <1> HIDE DEF tv, f3, w
  <1>4. t3 = TrackerOf(f4, g2, w, sel) BY <1>3, TrackerSelection
  <1> HIDE DEF t3, f4, sel
  <1>5. t4 = TrackerOf(f5, g2, w, sel)
    <2>1. t3.frames[1] = f4 BY <1>4, TrackerFields
    <2>2. t4 = WithFrame(t3, f5) BY <2>1 DEF Underlines
    <2> HIDE DEF f5, t4
    <2>3. QED BY <1>4, <2>2, TrackerWithFrame
  <1> HIDE DEF t4, f5
  <1>6. t5 = TrackerOf(f6, g6, w, sel)
    <2>1. t4.frames[1] = f5 /\ t4.frames[2] = g2 BY <1>5, TrackerFields
    <2>2. t5 = SetFrames(t4, damage_spans(t4.frames[1], Painted(s)), damage_spans(t4.frames[2], Painted(s))) BY Zenon DEF SetFrames
    <2> HIDE DEF t5
    <2>3. t5 = SetFrames(t4, f6, g6) BY <2>1, <2>2
    <2> HIDE DEF f6, g6
    <2>4. QED BY <1>5, <2>3, TrackerSetFrames
  <1> HIDE DEF t5, f6, g6
  <1>7. t6 = TrackerOf(f7, g6, w, sel)
    <2>1. t5.frames[1] = f6 BY <1>6, TrackerFields
    <2> DEFINE b == [f6 EXCEPT !.rects = Append(f6.rects, BarRect(s.size))]
    <2>2. add_viewport_rect(f6, s.size, 0, top, Width(s.size), Height(s.size) - top) = b
      BY DEF add_viewport_rect, BarRect
    <2>3. f7 = IF s.size.bar = 0 THEN f6 ELSE b BY Zenon DEF BarFrame
    <2>4. t6 = IF s.size.bar = 0 THEN t5 ELSE WithFrame(t5, b) BY <2>1, <2>2
    <2> HIDE DEF t6, f7, b
    <2>5. WithFrame(t5, b) = TrackerOf(b, g6, w, sel) BY <1>6, TrackerWithFrame
    <2>6. QED BY <1>6, <2>3, <2>4, <2>5
  <1> HIDE DEF t6, f7
  <1>8. QED BY <1>0, <1>00, <1>7 DEF t1, w, sel


(* What is painted over the text is in the columns of the window, or ends one behind the last. *)
LEMMA PaintedFits ==
  ASSUME NEW s, s.size \in SizeType, NEW a \in Painted(s)
  PROVE  a.left \in 0 .. s.size.columns /\ a.right \in 0 .. s.size.columns
  <1> DEFINE n == s.size.columns
  <1>1. n \in Nat \ {0} BY DEF SizeType
  <1>2. CASE a \in Indicator(s)
    <2>1. a = [line |-> 0, left |-> n \div 2, right |-> n - 1] BY <1>2 DEF Indicator
    <2>2. a.left = n \div 2 /\ a.right = n - 1 BY <2>1
    <2> HIDE DEF n
    <2>3. n \div 2 \in 0 .. n /\ n - 1 \in 0 .. n BY <1>1
    <2>4. QED BY <2>2, <2>3 DEF n
  <1>3. CASE a \in Preview(s)
    <2> DEFINE P(at) == {q \in ToSet(at) : s.preedit /\ q.line < s.size.lines}
               At == IF s.vi = << >> THEN point_to_viewport(s.offset, Point(0, 0)) ELSE ViPoint(s)
    <2>1. Preview(s) = {[line |-> p.line, left |-> 0, right |-> n] : p \in P(At)} BY Zenon DEF Preview
    <2> HIDE DEF P, At
    <2>2. PICK p \in P(At) : a = [line |-> p.line, left |-> 0, right |-> n] BY <1>3, <2>1
    <2>3. a.left = 0 /\ a.right = n BY <2>2
    <2> HIDE DEF n
    <2>4. QED BY <1>1, <2>3 DEF n
  <1>4. QED BY <1>2, <1>3 DEF Painted

(* What the frame d is damaged by on top of f, and the next frame k. *)
Adorned(f, v, old, s, d, k) ==
  LET size == s.size
  IN  /\ Grows(f, d, size) /\ k \in FrameType(size)
      /\ s.overlay => d.full /\ k.full
      /\ d.full \/ ToSet(v) \union ToSet(ViPoint(s)) \subseteq DamagedCells(d, size)
      /\ \/ d.full \/ s.selection = old
         \/ CellsAt(size, s.offset, s.selection) \union CellsAt(size, s.offset, old) \subseteq DamagedCells(d, size)
      /\ Underlines(s) \subseteq DamagedCells(d, size)
      /\ SpanCells(size, Painted(s)) \subseteq DamagedCells(d, size) \intersect DamagedCells(k, size)
      /\ size.bar > 0 => BarRect(size) \in ToSet(d.rects)

(* The overlays of a window damage its frames as a whole. *)
LEMMA CoveredFrame ==
  ASSUME NEW size, NEW f \in FrameType(size), NEW s
  PROVE  Grows(f, Covered1(f, s), size) /\ (s.overlay => Covered1(f, s).full)
  <1>1. CASE s.overlay
    <2>1. Covered1(f, s) = mark_frame_damaged(f) BY <1>1 DEF Covered1
    <2>2. QED BY <2>1, FullDamaged
  <1>2. CASE ~s.overlay
    <2>1. Covered1(f, s) = f BY <1>2 DEF Covered1
    <2>2. QED BY <1>2, <2>1, GrowsSelf
  <1>3. QED BY <1>1, <1>2

(* Display::draw damages all decorations, those drawn last and those drawn now, in this
   frame, and what is painted over the text in the next frame as well. *)
LEMMA DecoratedFrames ==
  ASSUME NEW size \in SizeType, NEW f \in FrameType(size), NEW g \in FrameType(size), NEW v, NEW old, NEW s,
         s.size = size, s.offset \in Nat, ToSet(s.selection) \subseteq Ranges, ToSet(old) \subseteq Ranges,
         ToSet(ViPoint(s)) \subseteq Cells(size), f.full \/ ToSet(v) \subseteq Cells(size)
  PROVE  Adorned(f, v, old, s, Drawn(f, v, old, s), Later(g, s))
  <1> DEFINE w == ViPoint(s)
             sel == s.selection
             offset == s.offset
             f2 == Covered1(f, s)
             g2 == Covered1(g, s)
             f3 == ViFrame(f2, v, w)
             f4 == SelectionFrame(f3, sel, old, offset, size)
             f5 == damage_points(f4, Underlines(s))
             f6 == damage_spans(f5, Painted(s))
             g6 == damage_spans(g2, Painted(s))
             f7 == BarFrame(f6, size)
  <1>0. Drawn(f, v, old, s) = f7 /\ Later(g, s) = g6 BY DEF Drawn, Later
  <1>00. \A a \in Painted(s) : a.left \in 0 .. size.columns /\ a.right \in 0 .. size.columns BY PaintedFits
  <1>000. Underlines(s) \subseteq Cells(size) BY DEF Underlines, CellsOf
  <1>0000. \A p \in Underlines(s) : p.column \in 0 .. size.columns
    <2> SUFFICES ASSUME NEW p \in Cells(size) PROVE p.column \in 0 .. size.columns BY <1>000
    <2>1. p.column \in 0 .. (size.columns - 1) BY DEF Cells
    <2>2. size.columns \in Nat BY DEF SizeType
    <2>3. QED BY <2>1, <2>2
  <1> HIDE DEF w, sel, offset
  <1>2. Grows(f, f2, size) /\ (s.overlay => f2.full) /\ Grows(g, g2, size) /\ (s.overlay => g2.full) BY CoveredFrame
  <1>22. f2 \in FrameType(size) /\ g2 \in FrameType(size) /\ (f2.full \/ ToSet(v) \subseteq Cells(size)) BY <1>2 DEF Grows
  <1> HIDE DEF f2, g2
  <1>3. /\ Grows(f2, f3, size) /\ f3.full = f2.full
        /\ f2.full \/ ToSet(v) \union ToSet(w) \subseteq DamagedCells(f3, size)
    BY <1>22, ViFrameDamaged DEF w
  <1>33. f3 \in FrameType(size) BY <1>3 DEF Grows
  <1> HIDE DEF f3
  <1>4. /\ Grows(f3, f4, size) /\ f4.full = f3.full
        /\ f3.full \/ sel = old \/ CellsAt(size, offset, sel) \union CellsAt(size, offset, old) \subseteq DamagedCells(f4, size)
    <2>1. offset \in Nat /\ ToSet(sel) \subseteq Ranges BY DEF offset, sel
    <2>2. QED BY <1>33, <2>1, SelectionFrameDamaged
  <1>44. f4 \in FrameType(size) BY <1>4 DEF Grows
  <1> HIDE DEF f4
  <1>5. Grows(f4, f5, size) /\ f5.full = f4.full /\ Underlines(s) \subseteq DamagedCells(f5, size)
    <2> DEFINE U == Underlines(s)
    <2>1. \A p \in U : p.column \in 0 .. size.columns BY <1>0000
    <2> HIDE DEF U
    <2>2. Grows(f4, f5, size) /\ f5.full = f4.full /\ U \intersect Cells(size) \subseteq DamagedCells(f5, size)
      BY <1>44, <2>1, PointsDamaged DEF U
    <2>3. QED BY <1>000, <2>2 DEF U
  <1>55. f5 \in FrameType(size) BY <1>5 DEF Grows
  <1> HIDE DEF f5
  <1>6. /\ Grows(f5, f6, size) /\ f6.full = f5.full /\ SpanCells(size, Painted(s)) \subseteq DamagedCells(f6, size)
        /\ Grows(g2, g6, size) /\ g6.full = g2.full /\ SpanCells(size, Painted(s)) \subseteq DamagedCells(g6, size)
    BY <1>00, <1>22, <1>55, SpansDamaged
  <1>66. f6 \in FrameType(size) /\ g6 \in FrameType(size) BY <1>6 DEF Grows
  <1> HIDE DEF f6, g6
  <1>7. Grows(f6, f7, size) /\ f7.full = f6.full /\ (size.bar > 0 => BarRect(size) \in ToSet(f7.rects))
    BY <1>66, BarFrameDamaged
  <1> HIDE DEF f7
  <1>8. Grows(f, f7, size) BY <1>2, <1>3, <1>4, <1>5, <1>6, <1>7, GrowsMore
  <1>9. /\ DamagedCells(f3, size) \subseteq DamagedCells(f4, size) /\ DamagedCells(f4, size) \subseteq DamagedCells(f5, size)
        /\ DamagedCells(f5, size) \subseteq DamagedCells(f6, size) /\ DamagedCells(f6, size) \subseteq DamagedCells(f7, size)
    BY <1>4, <1>5, <1>6, <1>7 DEF Grows
  <1>10. f7.full = f2.full /\ f7.full = f3.full BY <1>3, <1>4, <1>5, <1>6, <1>7
  <1>11. s.overlay => f7.full /\ g6.full BY <1>2, <1>6, <1>10
  <1>12. f7.full \/ ToSet(v) \union ToSet(w) \subseteq DamagedCells(f7, size) BY <1>3, <1>9, <1>10
  <1>13. f7.full \/ sel = old \/ CellsAt(size, offset, sel) \union CellsAt(size, offset, old) \subseteq DamagedCells(f7, size)
    BY <1>4, <1>9, <1>10
  <1>14. Underlines(s) \subseteq DamagedCells(f7, size) BY <1>5, <1>9
  <1>15. SpanCells(size, Painted(s)) \subseteq DamagedCells(f7, size) \intersect DamagedCells(g6, size) BY <1>6, <1>9
  <1>16. QED BY <1>0, <1>7, <1>8, <1>11, <1>12, <1>13, <1>14, <1>15, <1>66 DEF Adorned, w, sel, offset


(* The states of a window that draws frames. *)
Frames == UNION {FrameType(size) : size \in Sizes}
ScreenType ==
  [size : Sizes, offset : Nat, vi : Option(GridPlaces), selection : Option(Ranges), hint : Option(Ranges),
   viHint : Option(Ranges), hintAge : Nat, viHintAge : Nat, overlay : BOOLEAN, preedit : BOOLEAN,
   damage : Frames, changes : Nat]
ViFits(s) == s.vi = << >> \/ (s.vi[1].line + s.offset \in 0 .. (s.size.lines - 1) /\ s.vi[1].column \in 0 .. (s.size.columns - 1))
GoodScreen(s) == s \in ScreenType /\ s.damage \in FrameType(s.size) /\ ViFits(s)
GoodTracker(t, size) ==
  /\ t = TrackerOf(t.frames[1], t.frames[2], t.old_vi, t.old_selection)
  /\ t.frames[1] \in FrameType(size) /\ t.frames[2] \in FrameType(size) /\ t.old_selection \in Option(Ranges)
(* What was shown last is damaged, or is what the tracker remembers. *)
Remembered(t, s, old) ==
  LET f == t.frames[1]
  IN  /\ old.vi \subseteq Cells(s.size) /\ old.selected \subseteq Cells(s.size) /\ old.underlined \subseteq Cells(s.size)
      /\ old.painted \subseteq DamagedCells(f, s.size)
      /\ old.overlay => f.full
      /\ f.full \/ old.vi = ToSet(t.old_vi)
      /\ \/ f.full \/ s.damage.full
         \/ old.selected = CellsAt(s.size, s.offset, t.old_selection) /\ old.underlined = Underlines(s)
DamageGood == GoodScreen(screen) /\ GoodTracker(tracker, screen.size) /\ Remembered(tracker, screen, shown)

(* What DamageAssumption says of the constants. *)
LEMMA SizesTyped ==
  /\ Sizes \subseteq SizeType /\ MaxOffset \in Nat
  /\ SelectedRanges \subseteq Ranges /\ HintRanges \subseteq Ranges
  BY DamageAssumption DEF SizeType, Ranges, GridPlaces

(* The value of an option. *)
LEMMA Options ==
  ASSUME NEW T, NEW o \in Option(T)
  PROVE  ToSet(o) \subseteq T
  BY DEF Option, ToSet

(* The cells of a range depend on the size and on the scroll position only. *)
LEMMA SameCells ==
  ASSUME NEW s, NEW option
  PROVE  CellsOf(s, option) = CellsAt(s.size, s.offset, option)
  BY Zenon DEF CellsOf, CellsAt

(* The hints of a frame are kept, or the frame is damaged as a whole. *)
HintKept(f, hint, r) ==
  /\ r.age \in Nat
  /\ \/ r.frame = f /\ r.hint = hint
     \/ r.frame = mark_frame_damaged(f) /\ r.hint = << >>

(* validate_hint_highlight drops a hint only together with damaging the whole frame. *)
LEMMA HintsKept ==
  ASSUME NEW f, NEW s, NEW hint, NEW age \in Nat
  PROVE  HintKept(f, hint, validate_hint_highlight(f, s, hint, age))
  <1> DEFINE InView(p) == SelectSeq(point_to_viewport(s.offset, p), LAMBDA q : q.line < s.size.lines)
             first == (InView(hint[1].start) \o << Point(0, 0) >>)[1]
             last  == (InView(hint[1].end) \o << Point(s.size.lines - 1, s.size.columns - 1) >>)[1]
             hit == intersects(f, first, last)
             r == validate_hint_highlight(f, s, hint, age)
  <1>1. r = IF hint = << >> THEN [frame |-> f, hint |-> hint, age |-> age]
            ELSE IF age >= 1 /\ hit THEN [frame |-> mark_frame_damaged(f), hint |-> << >>, age |-> 2]
            ELSE [frame |-> f, hint |-> hint, age |-> Smaller(age + 1, 2)]
    BY Zenon DEF validate_hint_highlight
  <1> HIDE DEF hit, r
  <1>2. Smaller(age + 1, 2) \in Nat BY DEF Smaller
  <1>3. QED BY <1>1, <1>2 DEF HintKept, r

(* The vi cursor is drawn inside of the window. *)
LEMMA ViPointFits ==
  ASSUME NEW s, GoodScreen(s)
  PROVE  ToSet(ViPoint(s)) \subseteq Cells(s.size)
  <1>1. CASE s.vi = << >>
    <2>1. ViPoint(s) = << >> BY <1>1 DEF ViPoint
    <2>2. QED BY <2>1 DEF ToSet
  <1>2. CASE s.vi # << >>
    <2> DEFINE p == s.vi[1]
               l == p.line + s.offset
               c == p.column
               q == Point(l, c)
    <2>1. l \in 0 .. (s.size.lines - 1) /\ c \in 0 .. (s.size.columns - 1) BY <1>2 DEF GoodScreen, ViFits
    <2>2. ViPoint(s) = IF l < 0 THEN << >> ELSE << q >> BY <1>2 DEF ViPoint, point_to_viewport
    <2> HIDE DEF l, c
    <2>3. q \in Cells(s.size) BY <2>1 DEF Point, Cells
    <2>4. ~(l < 0) BY <2>1
    <2> HIDE DEF q
    <2>5. QED BY <2>2, <2>3, <2>4 DEF ToSet
  <1>3. QED BY <1>1, <1>2

(* What a frame shows is inside of the window. *)
LEMMA ShowFits ==
  ASSUME NEW s, GoodScreen(s)
  PROVE  /\ Show(s).vi = ToSet(ViPoint(s)) /\ Show(s).selected = CellsAt(s.size, s.offset, s.selection)
         /\ Show(s).underlined = Underlines(s) /\ Show(s).overlay = s.overlay
         /\ Show(s).painted = SpanCells(s.size, Painted(s))
         /\ Show(s).vi \subseteq Cells(s.size) /\ Show(s).selected \subseteq Cells(s.size)
         /\ Show(s).underlined \subseteq Cells(s.size) /\ Show(s).painted \subseteq Cells(s.size)
  <1> DEFINE a == ToSet(ViPoint(s))
             b == CellsOf(s, s.selection)
             c == CellsOf(s, s.hint) \union CellsOf(s, s.viHint)
             d == {p \in Cells(s.size) : \E o \in Painted(s) : p.line = o.line /\ InBounds(o, p.column)}
             r == [vi |-> a, selected |-> b, underlined |-> c, overlay |-> s.overlay, painted |-> d]
  <1>1. Show(s) = r BY Zenon DEF Show
  <1>2. a \subseteq Cells(s.size) BY ViPointFits
  <1>3. b = CellsAt(s.size, s.offset, s.selection) /\ b \subseteq Cells(s.size) BY SameCells DEF CellsAt
  <1>4. c = Underlines(s) /\ c \subseteq Cells(s.size) BY DEF Underlines, CellsOf
  <1>5. d = SpanCells(s.size, Painted(s)) /\ d \subseteq Cells(s.size) BY Zenon DEF SpanCells
  <1> HIDE DEF a, b, c, d
  <1>6. r.vi = a /\ r.selected = b /\ r.underlined = c /\ r.overlay = s.overlay /\ r.painted = d OBVIOUS
  <1> HIDE DEF r
  <1>7. QED BY <1>1, <1>2, <1>3, <1>4, <1>5, <1>6 DEF a


(* The frame and the hint that validate_hint_highlight leaves. *)
LEMMA HintsFrame ==
  ASSUME NEW size, NEW f \in FrameType(size), NEW hint \in Option(Ranges), NEW r, HintKept(f, hint, r)
  PROVE  Grows(f, r.frame, size) /\ r.hint \in Option(Ranges) /\ r.age \in Nat /\ (r.frame.full \/ r.hint = hint)
  <1>1. CASE r.frame = f /\ r.hint = hint
    <2>1. Grows(f, f, size) BY GrowsSelf
    <2>2. QED BY <1>1, <2>1 DEF HintKept
  <1>2. CASE r.frame = mark_frame_damaged(f) /\ r.hint = << >>
    <2> DEFINE g == mark_frame_damaged(f)
    <2>1. g.full /\ Grows(f, g, size) BY FullDamaged
    <2> HIDE DEF g
    <2>2. r.frame = g BY <1>2 DEF g
    <2>3. QED BY <1>2, <2>1, <2>2 DEF HintKept, Option
  <1>3. QED BY <1>1, <1>2 DEF HintKept

(* The screen of a frame that is drawn. *)
DrawnScreen(was, h, v) ==
  [was EXCEPT !.hint = h.hint, !.hintAge = h.age, !.viHint = v.hint, !.viHintAge = v.age,
              !.damage = reset_frame(was.size), !.changes = 0]

(* Drawing keeps the screen well formed. *)
LEMMA DrawnScreenFits ==
  ASSUME NEW was, GoodScreen(was), NEW h, NEW v, h.hint \in Option(Ranges), v.hint \in Option(Ranges),
         h.age \in Nat, v.age \in Nat
  PROVE  LET s == DrawnScreen(was, h, v)
         IN  /\ GoodScreen(s) /\ s.size = was.size /\ s.offset = was.offset /\ s.selection = was.selection
             /\ s.hint = h.hint /\ s.viHint = v.hint /\ s.damage = reset_frame(was.size)
  <1> DEFINE s == DrawnScreen(was, h, v)
             r == reset_frame(was.size)
  <1>1. was \in ScreenType /\ was.size \in Sizes BY DEF GoodScreen, ScreenType
  <1>2. r \in FrameType(was.size) BY <1>1, SizesTyped, ResetFrame
  <1>3. r \in Frames BY <1>1, <1>2 DEF Frames
  <1> HIDE DEF r
  <1>4. s = [was EXCEPT !.hint = h.hint, !.hintAge = h.age, !.viHint = v.hint, !.viHintAge = v.age, !.damage = r, !.changes = 0]
    BY DEF DrawnScreen, r
  <1>5. s \in ScreenType
    <2> DEFINE a == h.hint
               b == v.hint
               c == h.age
               d == v.age
    <2>1. a \in Option(Ranges) /\ b \in Option(Ranges) /\ c \in Nat /\ d \in Nat OBVIOUS
    <2>2. s = [was EXCEPT !.hint = a, !.hintAge = c, !.viHint = b, !.viHintAge = d, !.damage = r, !.changes = 0] BY <1>4
    <2> HIDE DEF a, b, c, d, s
    <2> DEFINE x == [was EXCEPT !.hint = a, !.hintAge = c, !.viHint = b, !.viHintAge = d, !.damage = r, !.changes = 0]
    <2>3. x \in ScreenType BY <1>1, <1>3, <2>1 DEF ScreenType
    <2> HIDE DEF x
    <2>4. QED BY <2>2, <2>3 DEF x
  <1>6. /\ s.size = was.size /\ s.offset = was.offset /\ s.selection = was.selection /\ s.vi = was.vi
        /\ s.hint = h.hint /\ s.viHint = v.hint /\ s.damage = r
    BY <1>1, <1>4 DEF ScreenType
  <1> HIDE DEF s
  <1>7. ViFits(s) BY <1>6 DEF ViFits, GoodScreen
  <1>8. QED BY <1>2, <1>5, <1>6, <1>7 DEF GoodScreen, s, r

(* What a frame submits is typed, and has the message bar. *)
SubmittedGood ==
  submitted # << >> => /\ submitted[1] \in FrameType(screen.size)
                       /\ screen.size.bar > 0 => BarRect(screen.size) \in ToSet(submitted[1].rects)

(* Display::draw: the submitted damage has every change, and the tracker remembers what
   was drawn. *)
LEMMA DrawStep ==
  ASSUME DamageGood, DrawFrame
  PROVE  DamageGood' /\ ChangesAreDamaged /\ SubmittedGood'
  <1> DEFINE size == screen.size
             f == tracker.frames[1]
             g == tracker.frames[2]
             w == tracker.old_vi
             old == tracker.old_selection
             a == apply_damage(f, screen)
             h == validate_hint_highlight(a, screen, screen.hint, screen.hintAge)
             v == validate_hint_highlight(h.frame, screen, screen.viHint, screen.viHintAge)
             s == DrawnScreen(screen, h, v)
             F == v.frame
             t == Decorate(WithFrame(tracker, F), s)
             D == Drawn(F, w, old, s)
             K == Later(g, s)
  <1>1. screen' = s /\ tracker' = swap_damage(t, s.size) /\ submitted' = << t.frames[1] >> /\ shown' = Show(s)
    BY DEF DrawFrame, DrawnScreen
  <1>2. /\ GoodScreen(screen) /\ GoodTracker(tracker, size) /\ Remembered(tracker, screen, shown) BY DEF DamageGood
  <1>3. /\ size \in SizeType /\ screen.offset \in Nat /\ screen.damage \in FrameType(size)
        /\ screen.hint \in Option(Ranges) /\ screen.viHint \in Option(Ranges) /\ screen.hintAge \in Nat /\ screen.viHintAge \in Nat
        /\ screen.selection \in Option(Ranges)
    BY <1>2, SizesTyped DEF GoodScreen, ScreenType
  <1>4. /\ tracker = TrackerOf(f, g, w, old) /\ f \in FrameType(size) /\ g \in FrameType(size) /\ old \in Option(Ranges)
    BY <1>2 DEF GoodTracker
  <1> HIDE DEF f, g, w, old
  <1> DEFINE z == DamagedCells(apply_damage(reset_frame(size), screen), size)
  <1>5. Grows(f, a, size) /\ (screen.damage.full => a.full) /\ z \subseteq DamagedCells(a, size)
    BY <1>3, <1>4, AppliedDamage
  <1>6. a \in FrameType(size) BY <1>5 DEF Grows
  <1> HIDE DEF a
  <1>7. Grows(a, h.frame, size) /\ h.hint \in Option(Ranges) /\ h.age \in Nat /\ (h.frame.full \/ h.hint = screen.hint)
    <2>1. HintKept(a, screen.hint, h) BY <1>3, HintsKept
    <2> HIDE DEF h
    <2>2. QED BY <1>3, <1>6, <2>1, HintsFrame
  <1> DEFINE hf == h.frame
  <1>8. hf \in FrameType(size) /\ Grows(a, hf, size) BY <1>7 DEF Grows
  <1>9. v = validate_hint_highlight(hf, screen, screen.viHint, screen.viHintAge) OBVIOUS
  <1> HIDE DEF h, v
  <1>10. Grows(hf, F, size) /\ v.hint \in Option(Ranges) /\ v.age \in Nat /\ (F.full \/ v.hint = screen.viHint)
    <2> HIDE DEF hf
    <2>1. HintKept(hf, screen.viHint, v) BY <1>3, <1>9, HintsKept
    <2>2. QED BY <1>3, <1>8, <2>1, HintsFrame
  <1>11. F \in FrameType(size) BY <1>10 DEF Grows
  <1>12. Grows(f, F, size) /\ Grows(a, F, size)
    <2> HIDE DEF hf, F
    <2>1. QED BY <1>5, <1>8, <1>10, GrowsMore
  <1>13. /\ GoodScreen(s) /\ s.size = size /\ s.offset = screen.offset /\ s.selection = screen.selection
         /\ s.hint = h.hint /\ s.viHint = v.hint /\ s.damage = reset_frame(size)
    BY <1>2, <1>7, <1>10, DrawnScreenFits
  <1>14. F.full \/ Underlines(s) = Underlines(screen)
    <2>1. CASE F.full BY <2>1
    <2>2. CASE ~F.full
      <3>1. ~hf.full BY <1>10, <2>2 DEF Grows
      <3>2. s.hint = screen.hint /\ s.viHint = screen.viHint BY <1>7, <1>10, <1>13, <2>2, <3>1
      <3> HIDE DEF s
      <3>3. QED BY <1>13, <3>2 DEF Underlines, CellsOf
    <2>3. QED BY <2>1, <2>2
  <1> HIDE DEF s, F, hf
  <1>15. t = TrackerOf(D, K, ViPoint(s), s.selection)
    <2>1. WithFrame(tracker, F) = TrackerOf(F, g, w, old) BY <1>4, TrackerWithFrame
    <2>2. QED BY <2>1, TrackerDecorated
  <1>16. F.full \/ (~f.full /\ ~screen.damage.full) BY <1>5, <1>12 DEF Grows
  <1>17. /\ shown.vi \subseteq Cells(size) /\ shown.selected \subseteq Cells(size) /\ shown.underlined \subseteq Cells(size)
         /\ shown.painted \subseteq DamagedCells(f, size) /\ (shown.overlay => f.full) /\ (f.full \/ shown.vi = ToSet(w))
         /\ F.full \/ (shown.selected = CellsAt(size, s.offset, old) /\ shown.underlined = Underlines(s))
    BY <1>2, <1>13, <1>14, <1>16 DEF Remembered, f, w, old
  <1>18. Adorned(F, w, old, s, D, K)
    <2>1. ToSet(s.selection) \subseteq Ranges /\ ToSet(old) \subseteq Ranges BY <1>3, <1>4, <1>13, Options
    <2>2. ToSet(ViPoint(s)) \subseteq Cells(size) BY <1>13, ViPointFits
    <2>3. F.full \/ ToSet(w) \subseteq Cells(size) BY <1>16, <1>17
    <2>4. QED BY <1>3, <1>4, <1>11, <1>13, <2>1, <2>2, <2>3, DecoratedFrames
  <1> HIDE DEF t, D, K
  <1>19. /\ Grows(F, D, size) /\ K \in FrameType(size) /\ (s.overlay => D.full /\ K.full)
         /\ D.full \/ ToSet(w) \union ToSet(ViPoint(s)) \subseteq DamagedCells(D, size)
         /\ \/ D.full \/ s.selection = old
            \/ CellsAt(size, s.offset, s.selection) \union CellsAt(size, s.offset, old) \subseteq DamagedCells(D, size)
         /\ Underlines(s) \subseteq DamagedCells(D, size)
         /\ SpanCells(size, Painted(s)) \subseteq DamagedCells(D, size) \intersect DamagedCells(K, size)
         /\ size.bar > 0 => BarRect(size) \in ToSet(D.rects)
    BY <1>13, <1>18 DEF Adorned
  <1>20. D \in FrameType(size) BY <1>19 DEF Grows
  <1>21. t.frames[1] = D /\ t.frames[2] = K BY <1>15, TrackerFields
  <1>22. tracker' = TrackerOf(K, reset_frame(size), ViPoint(s), s.selection)
    <2> DEFINE r == reset_frame(size)
    <2>1. tracker' = SetFrames(t, K, r) BY <1>1, <1>13, <1>21 DEF swap_damage, SetFrames
    <2> HIDE DEF r
    <2>2. QED BY <1>15, <2>1, TrackerSetFrames DEF r
  <1>23. /\ Show(s).vi = ToSet(ViPoint(s)) /\ Show(s).selected = CellsAt(size, s.offset, s.selection)
         /\ Show(s).underlined = Underlines(s) /\ Show(s).overlay = s.overlay
         /\ Show(s).painted = SpanCells(size, Painted(s))
         /\ Show(s).vi \subseteq Cells(size) /\ Show(s).selected \subseteq Cells(size)
         /\ Show(s).underlined \subseteq Cells(size) /\ Show(s).painted \subseteq Cells(size)
    BY <1>13, ShowFits
  <1>24. GoodTracker(tracker', size)
    <2> DEFINE x == ViPoint(s)
               y == s.selection
               r == reset_frame(size)
    <2>1. r \in FrameType(size) /\ y \in Option(Ranges) BY <1>3, <1>13, ResetFrame
    <2>2. tracker' = TrackerOf(K, r, x, y) BY <1>22
    <2> HIDE DEF x, y, r
    <2>3. tracker'.frames[1] = K /\ tracker'.frames[2] = r /\ tracker'.old_vi = x /\ tracker'.old_selection = y
      BY <2>2, TrackerFields
    <2>4. QED BY <1>19, <2>1, <2>2, <2>3 DEF GoodTracker
  <1>25. Remembered(tracker', s, Show(s))
    <2> DEFINE x == ViPoint(s)
               y == s.selection
               r == reset_frame(size)
    <2>2. tracker' = TrackerOf(K, r, x, y) BY <1>22
    <2> HIDE DEF x, y, r
    <2>3. tracker'.frames[1] = K /\ tracker'.old_vi = x /\ tracker'.old_selection = y
      BY <2>2, TrackerFields
    <2>4. QED BY <1>13, <1>19, <1>23, <2>3 DEF Remembered, x, y
  <1>26. DamageGood' BY <1>1, <1>13, <1>24, <1>25 DEF DamageGood
  <1>27. submitted' = << D >> BY <1>1, <1>21
  <1>28. SubmittedGood' BY <1>1, <1>13, <1>19, <1>20, <1>27 DEF SubmittedGood
  <1>29. ChangesAreDamaged
    <2>1. z \subseteq DamagedCells(D, size)
      <3> HIDE DEF z
      <3>1. QED BY <1>5, <1>12, <1>19 DEF Grows
    <2>2. Differs(shown, s) \subseteq DamagedCells(D, size)
      <3> DEFINE new == Show(s)
                 rest == SymDiff(shown.vi, new.vi) \union SymDiff(shown.selected, new.selected) \union
                         SymDiff(shown.underlined, new.underlined) \union shown.painted \union new.painted
      <3>1. Differs(shown, s) = IF shown.overlay \/ new.overlay THEN Cells(size) ELSE rest BY <1>13 DEF Differs
      <3>2. shown.painted \subseteq DamagedCells(D, size) BY <1>12, <1>17, <1>19 DEF Grows
      <3>3. CASE D.full
        <4>1. DamagedCells(D, size) = Cells(size) BY <3>3, FullHasAll
        <4>2. rest \subseteq Cells(size) BY <1>17, <1>23, <3>2, <4>1 DEF SymDiff
        <4> HIDE DEF rest, new
        <4>3. QED BY <3>1, <4>1, <4>2
      <3>4. CASE ~D.full
        <4>1. ~F.full /\ ~f.full /\ ~s.overlay BY <1>12, <1>19, <3>4 DEF Grows
        <4>2. ~shown.overlay /\ ~new.overlay BY <1>17, <1>23, <4>1
        <4>3. shown.vi \union new.vi \subseteq DamagedCells(D, size) BY <1>17, <1>19, <1>23, <3>4, <4>1
        <4>4. shown.underlined = new.underlined BY <1>17, <1>23, <4>1
        <4>5. \/ shown.selected = new.selected
              \/ shown.selected \union new.selected \subseteq DamagedCells(D, size)
          BY <1>17, <1>19, <1>23, <3>4, <4>1
        <4>6. new.painted \subseteq DamagedCells(D, size) BY <1>19, <1>23
        <4> HIDE DEF new
        <4>7. rest \subseteq DamagedCells(D, size) BY <3>2, <4>3, <4>4, <4>5, <4>6 DEF SymDiff
        <4>8. QED BY <3>1, <4>2, <4>7
      <3>5. QED BY <3>3, <3>4
    <2>3. submitted'[1] = D /\ screen' = s BY <1>1, <1>27
    <2>4. QED BY <2>1, <2>2, <2>3 DEF ChangesAreDamaged
  <1>30. QED BY <1>26, <1>28, <1>29


(* Products of numbers of cells and their extent. *)
LEMMA Products ==
  ASSUME NEW a \in Int, NEW b \in Int, NEW c \in Nat
  PROVE  /\ a * c \in Int /\ (a + b) * c = a * c + b * c /\ (a - b) * c = a * c - b * c
         /\ (a + 1) * c = a * c + c /\ (0 <= a => 0 <= a * c)
  <1>1. a * c \in Int /\ b * c \in Int OBVIOUS
  <1>2. (a + b) * c = a * c + b * c /\ (a - b) * c = a * c - b * c OBVIOUS
  <1>3. (a + 1) * c = a * c + c OBVIOUS
  <1>4. 0 <= a => 0 <= a * c OBVIOUS
  <1>5. QED BY <1>1, <1>2, <1>3, <1>4

(* More cells are not narrower. *)
LEMMA MoreCells ==
  ASSUME NEW a \in Int, NEW b \in Int, NEW c \in Nat, a <= b
  PROVE  a * c <= b * c
  <1> DEFINE k == b - a
  <1>1. k \in Int /\ 0 <= k /\ b = a + k OBVIOUS
  <1> HIDE DEF k
  <1>2. 0 <= k * c /\ (a + k) * c = a * c + k * c BY <1>1, Products
  <1>3. a * c \in Int /\ k * c \in Int BY <1>1
  <1>4. b * c = a * c + k * c BY <1>1, <1>2
  <1>5. QED BY <1>2, <1>3, <1>4

(* The rectangle r, whose y axis points up, has the cell p. *)
CellX(size, p) == size.padding + p.column * size.cellWidth
CellY(size, p) == Height(size) - size.padding - (p.line + 1) * size.cellHeight
Inside(size, p, r) ==
  /\ r.x <= CellX(size, p) /\ CellX(size, p) + size.cellWidth <= r.x + r.width
  /\ r.y <= CellY(size, p) /\ CellY(size, p) + size.cellHeight <= r.y + r.height

(* Cells are inside of the window. *)
LEMMA CellFits ==
  ASSUME NEW size \in SizeType, NEW p \in Cells(size)
  PROVE  /\ CellX(size, p) \in Nat /\ CellX(size, p) + size.cellWidth <= Width(size)
         /\ CellY(size, p) \in Nat /\ CellY(size, p) + size.cellHeight <= Height(size)
         /\ CellY(size, p) = Height(size) - size.padding - p.line * size.cellHeight - size.cellHeight
         /\ p.line * size.cellHeight \in Nat
  <1> DEFINE cw == size.cellWidth
             ch == size.cellHeight
             n == size.columns
             m == size.lines + size.bar
             l == p.line
             c == p.column
             d == size.padding
             x == c * cw
             y == l * ch
             w == n * cw
             h == m * ch
  <1>1. cw \in Nat /\ ch \in Nat /\ n \in Nat /\ m \in Nat /\ d \in Nat /\ l \in Nat /\ c \in Nat /\ c + 1 <= n /\ l + 1 <= m
    <2>1. /\ size.cellWidth \in Nat /\ size.cellHeight \in Nat /\ size.columns \in Nat /\ size.lines \in Nat /\ size.bar \in Nat
          /\ size.padding \in Nat BY DEF SizeType
    <2>2. p.line \in 0 .. (size.lines - 1) /\ p.column \in 0 .. (size.columns - 1) BY DEF Cells
    <2>3. QED BY <2>1, <2>2
  <1>2. /\ Width(size) = 2 * d + w /\ Height(size) = 2 * d + h /\ CellX(size, p) = d + x
        /\ CellY(size, p) = Height(size) - d - (l + 1) * ch
    BY DEF Width, Height, CellX, CellY
  <1> HIDE DEF cw, ch, n, m, l, c, d
  <1>3. x \in Int /\ 0 <= x /\ y \in Int /\ 0 <= y /\ w \in Int /\ h \in Int
    <2>1. 0 <= c /\ 0 <= l BY <1>1
    <2>2. QED BY <1>1, <2>1, Products
  <1>4. (c + 1) * cw = x + cw /\ (l + 1) * ch = y + ch BY <1>1, Products
  <1>5. x + cw <= w /\ y + ch <= h
    <2> DEFINE c1 == c + 1
               l1 == l + 1
    <2>1. c1 \in Int /\ l1 \in Int /\ c1 <= n /\ l1 <= m BY <1>1
    <2>2. c1 * cw = x + cw /\ l1 * ch = y + ch BY <1>4
    <2> HIDE DEF c1, l1
    <2>3. c1 * cw <= w /\ l1 * ch <= h BY <1>1, <2>1, MoreCells
    <2>4. QED BY <2>2, <2>3
  <1> HIDE DEF x, y, w, h
  <1>6. CellY(size, p) = Height(size) - d - y - ch BY <1>1, <1>2, <1>3, <1>4
  <1>7. CellX(size, p) \in Nat /\ CellX(size, p) + cw <= Width(size) BY <1>1, <1>2, <1>3, <1>5
  <1>8. CellY(size, p) \in Nat /\ CellY(size, p) + ch <= Height(size) BY <1>1, <1>2, <1>3, <1>5, <1>6
  <1>9. y \in Nat BY <1>3
  <1>10. QED BY <1>6, <1>7, <1>8, <1>9 DEF cw, ch, d, y, l

(* The rectangle of a line has the damaged cells of that line. *)
LineRect(f, size, l) == overdamage(size, rect_for_line(size, l, f.lines[l]))

(* The rectangle of a line is a rectangle. *)
LEMMA LineRectTyped ==
  ASSUME NEW size \in SizeType, NEW f \in FrameType(size), NEW l \in 0 .. (size.lines - 1)
  PROVE  LineRect(f, size, l) \in RectType
  <1> DEFINE b == f.lines[l]
             left == b.left
             right == b.right
             cw == size.cellWidth
             ch == size.cellHeight
             W == Width(size)
             H == Height(size)
             x0 == size.padding + left * cw
             y0 == H - size.padding - (l + 1) * ch
             w0 == (right - left + 1) * cw
             x == Larger(x0 - cw, 0)
             y == Larger(y0 - ch \div 2, 0)
  <1>1. left \in Int /\ right \in Int
    <2>1. b \in LineBounds(size) BY DEF FrameType
    <2>2. size.columns \in Nat BY DEF SizeType
    <2> HIDE DEF b
    <2>3. QED BY <2>1, <2>2 DEF LineBounds
  <1>2. cw \in Nat /\ ch \in Nat /\ size.padding \in Nat /\ W \in Int /\ H \in Int BY Extents DEF SizeType
  <1> DEFINE r0 == [x |-> x0, y |-> y0, width |-> w0, height |-> ch]
             r == [x |-> x, width |-> Smaller(Larger(W - x, 0), w0 + 2 * cw),
                   y |-> y, height |-> Smaller(Larger(H - y, 0), ch + ch)]
  <1>3. rect_for_line(size, l, f.lines[l]) = r0 BY DEF rect_for_line
  <1>4. overdamage(size, r0) = r BY DEF overdamage
  <1> HIDE DEF left, right, cw, ch, W, H
  <1>5. x0 \in Int /\ y0 \in Int /\ w0 \in Int
    <2>1. left * cw \in Int /\ (l + 1) * ch \in Int /\ w0 \in Int
      <3>1. ASSUME NEW i \in Int, NEW j \in Int PROVE i * j \in Int OBVIOUS
      <3>2. l + 1 \in Int /\ right - left + 1 \in Int BY <1>1
      <3>3. QED BY <1>1, <1>2, <3>1, <3>2
    <2>2. QED BY <1>2, <2>1
  <1> HIDE DEF x0, y0, w0
  <1>6. x \in Int /\ y \in Int BY <1>2, <1>5 DEF Larger
  <1> HIDE DEF x, y
  <1>7. r \in RectType BY <1>2, <1>5, <1>6 DEF Larger, Smaller, RectType
  <1>8. QED BY <1>3, <1>4, <1>7 DEF LineRect

(* The rectangle of a line has the damaged cells of that line, also where overdamage cuts
   it off at the border of the window. *)
LEMMA LineRectCovers ==
  ASSUME NEW size \in SizeType, NEW f \in FrameType(size), NEW p \in Cells(size), InBounds(f.lines[p.line], p.column)
  PROVE  Inside(size, p, LineRect(f, size, p.line))
  <1> DEFINE l == p.line
             c == p.column
             b == f.lines[l]
             left == b.left
             right == b.right
             cw == size.cellWidth
             ch == size.cellHeight
             d == size.padding
             W == Width(size)
             H == Height(size)
             X == CellX(size, p)
             Y == CellY(size, p)
             x0 == d + left * cw
             y0 == H - d - (l + 1) * ch
             w0 == (right - left + 1) * cw
             x == Larger(x0 - cw, 0)
             y == Larger(y0 - ch \div 2, 0)
             width == Smaller(Larger(W - x, 0), w0 + 2 * cw)
             height == Smaller(Larger(H - y, 0), ch + ch)
             r0 == [x |-> x0, y |-> y0, width |-> w0, height |-> ch]
             r == [x |-> x, width |-> width, y |-> y, height |-> height]
  <1>1. left \in Int /\ right \in Int /\ l \in Int /\ c \in Int /\ left <= c /\ c <= right
    <2>1. p.line \in 0 .. (size.lines - 1) /\ p.column \in 0 .. (size.columns - 1) BY DEF Cells
    <2>2. b \in LineBounds(size) BY <2>1 DEF FrameType
    <2>3. left <= c /\ c <= right BY DEF InBounds
    <2>4. size.columns \in Nat /\ size.lines \in Nat BY DEF SizeType
    <2> HIDE DEF b
    <2>5. left \in Int /\ right \in Int BY <2>2, <2>4 DEF LineBounds
    <2>6. QED BY <2>1, <2>3, <2>4, <2>5
  <1>2. cw \in Nat /\ ch \in Nat /\ d \in Nat /\ W \in Int /\ H \in Int BY Extents DEF SizeType
  <1>3. LineRect(f, size, p.line) = r
    <2>1. rect_for_line(size, l, f.lines[l]) = r0 BY DEF rect_for_line
    <2>2. overdamage(size, r0) = r BY DEF overdamage
    <2>3. QED BY <2>1, <2>2 DEF LineRect
  <1>4. X \in Int /\ 0 <= X /\ Y \in Int /\ 0 <= Y /\ X + cw <= W /\ Y + ch <= H /\ X = d + c * cw /\ Y = y0
    <2>1. X = d + c * cw /\ Y = y0 BY DEF CellX, CellY
    <2>2. X \in Nat /\ X + cw <= W /\ Y \in Nat /\ Y + ch <= H BY CellFits
    <2> HIDE DEF X, Y, y0
    <2>3. QED BY <2>1, <2>2
  <1> HIDE DEF left, right, l, c, cw, ch, d, W, H, X, Y, b
  <1>5. left * cw <= c * cw /\ c * cw <= right * cw BY <1>1, <1>2, MoreCells
  <1>6. left * cw \in Int /\ right * cw \in Int /\ c * cw \in Int BY <1>1, <1>2, Products
  <1>7. w0 = right * cw - left * cw + cw
    <2> DEFINE k == right - left
    <2>1. k \in Int BY <1>1
    <2>2. (k + 1) * cw = k * cw + cw
      <3> HIDE DEF k
      <3>1. QED BY <1>2, <2>1, Products
    <2>3. k * cw = right * cw - left * cw BY <1>1, <1>2, Products
    <2>4. QED BY <2>2, <2>3
  <1> DEFINE u == left * cw
             e == right * cw
             q == c * cw
  <1>8. u \in Int /\ e \in Int /\ q \in Int /\ u <= q /\ q <= e /\ x0 = d + u /\ X = d + q /\ w0 = e - u + cw
    BY <1>4, <1>5, <1>6, <1>7
  <1> HIDE DEF u, e, q, x0, w0, y0
  <1>9. x \in Int /\ x <= X /\ x0 - cw <= x /\ 0 <= x BY <1>2, <1>4, <1>8 DEF Larger
  <1>10. y \in Int /\ y <= Y /\ Y - ch <= y BY <1>2, <1>4 DEF Larger
  <1> HIDE DEF x, y
  <1>11. X + cw <= x + width BY <1>2, <1>4, <1>8, <1>9 DEF Larger, Smaller
  <1>12. Y + ch <= y + height BY <1>2, <1>4, <1>10 DEF Larger, Smaller
  <1> HIDE DEF width, height
  <1>13. r.x = x /\ r.y = y /\ r.width = width /\ r.height = height OBVIOUS
  <1> HIDE DEF r
  <1>14. QED BY <1>3, <1>9, <1>10, <1>11, <1>12, <1>13 DEF Inside, X, Y, cw, ch


(* A merged rectangle has what the two rectangles had. *)
LEMMA MergedCovers ==
  ASSUME NEW size \in SizeType, NEW p \in Cells(size), NEW a \in RectType, NEW b \in RectType
  PROVE  /\ merge_rects(a, b) \in RectType
         /\ Inside(size, p, a) \/ Inside(size, p, b) => Inside(size, p, merge_rects(a, b))
  <1> DEFINE X == CellX(size, p)
             Y == CellY(size, p)
             cw == size.cellWidth
             ch == size.cellHeight
             x == Smaller(a.x, b.x)
             y == Smaller(a.y, b.y)
             w == Larger(a.x + a.width, b.x + b.width) - x
             h == Larger(a.y + a.height, b.y + b.height) - y
             r == [x |-> x, width |-> w, y |-> y, height |-> h]
  <1>1. X \in Int /\ Y \in Int /\ cw \in Int /\ ch \in Int
    <2>1. CellX(size, p) \in Nat /\ CellY(size, p) \in Nat BY CellFits
    <2>2. QED BY <2>1 DEF SizeType
  <1>2. merge_rects(a, b) = r BY DEF merge_rects
  <1>3. /\ a.x \in Int /\ a.y \in Int /\ a.width \in Int /\ a.height \in Int
        /\ b.x \in Int /\ b.y \in Int /\ b.width \in Int /\ b.height \in Int BY DEF RectType
  <1>4. x \in Int /\ y \in Int /\ w \in Int /\ h \in Int BY <1>3 DEF Smaller, Larger
  <1>5. /\ x <= a.x /\ x <= b.x /\ a.x + a.width <= x + w /\ b.x + b.width <= x + w
        /\ y <= a.y /\ y <= b.y /\ a.y + a.height <= y + h /\ b.y + b.height <= y + h
    BY <1>3 DEF Smaller, Larger
  <1> HIDE DEF x, y, w, h, X, Y, cw, ch
  <1>6. r \in RectType /\ r.x = x /\ r.y = y /\ r.width = w /\ r.height = h BY <1>4 DEF RectType
  <1> HIDE DEF r
  <1>7. ASSUME NEW s \in {a, b}, Inside(size, p, s) PROVE Inside(size, p, r)
    <2>1. s.x <= X /\ X + cw <= s.x + s.width /\ s.y <= Y /\ Y + ch <= s.y + s.height
      BY <1>7 DEF Inside, X, Y, cw, ch
    <2>2. /\ s.x \in Int /\ s.y \in Int /\ s.width \in Int /\ s.height \in Int
          /\ x <= s.x /\ s.x + s.width <= x + w /\ y <= s.y /\ s.y + s.height <= y + h
      BY <1>3, <1>5
    <2>3. x <= X /\ X + cw <= x + w /\ y <= Y /\ Y + ch <= y + h BY <1>1, <1>4, <2>1, <2>2
    <2>4. QED BY <1>6, <2>3 DEF Inside, X, Y, cw, ch
  <1>8. QED BY <1>2, <1>6, <1>7

(* The rectangles q have the damaged cells of the first n lines. *)
HasCell(size, p, q) == \E i \in 1 .. Len(q) : Inside(size, p, q[i])
HasLines(f, size, n, q) ==
  /\ q \in Seq(RectType)
  /\ \A p \in Cells(size) : p.line < n /\ InBounds(f.lines[p.line], p.column) => HasCell(size, p, q)
(* What a line adds to the rectangles of the lines above it. *)
NextRects(f, size, q, n) ==
  IF ~is_damaged(f.lines[n - 1]) THEN q
  ELSE IF Len(q) > 0 /\ rects_overlap(q[Len(q)], LineRect(f, size, n - 1))
    THEN [q EXCEPT ![Len(q)] = merge_rects(@, LineRect(f, size, n - 1))]
    ELSE Append(q, LineRect(f, size, n - 1))

(* One round of RenderDamageIterator::next keeps the cells of the lines above and adds
   those of its line, whether it merges or begins a rectangle. *)
LEMMA NextRectsCover ==
  ASSUME NEW size \in SizeType, NEW f \in FrameType(size), NEW n \in 1 .. size.lines, NEW q, HasLines(f, size, n - 1, q)
  PROVE  HasLines(f, size, n, NextRects(f, size, q, n))
  <1> DEFINE l == n - 1
             b == f.lines[l]
             r == LineRect(f, size, l)
             last == Len(q)
             k == NextRects(f, size, q, n)
  <1>0. l \in 0 .. (size.lines - 1) /\ n \in Int
    <2>1. size.lines \in Nat BY DEF SizeType
    <2>2. QED BY <2>1
  <1>1. q \in Seq(RectType) /\ last \in Nat BY DEF HasLines
  <1>2. r \in RectType BY <1>0, LineRectTyped
  <1>3. b.left \in Int /\ b.right \in Int
    <2>1. b \in LineBounds(size) BY <1>0 DEF FrameType
    <2>2. size.columns \in Nat BY DEF SizeType
    <2> HIDE DEF b
    <2>3. QED BY <2>1, <2>2 DEF LineBounds
  <1>4. k = IF ~is_damaged(b) THEN q
            ELSE IF last > 0 /\ rects_overlap(q[last], r) THEN [q EXCEPT ![last] = merge_rects(q[last], r)]
            ELSE Append(q, r)
    BY DEF NextRects
  <1>5. ASSUME NEW p \in Cells(size), p.line < n, InBounds(f.lines[p.line], p.column), p.line # l
        PROVE  HasCell(size, p, q)
    <2>1. p.line \in Int BY DEF Cells
    <2>2. p.line < l BY <1>0, <1>5, <2>1
    <2>3. QED BY <1>5, <2>2 DEF HasLines
  <1>6. ASSUME NEW p \in Cells(size), InBounds(f.lines[p.line], p.column), p.line = l
        PROVE  is_damaged(b) /\ Inside(size, p, r)
    <2>1. b.left <= p.column /\ p.column <= b.right BY <1>6 DEF InBounds
    <2>2. p.column \in Int BY DEF Cells
    <2> HIDE DEF b, r
    <2>3. b.left <= b.right BY <1>3, <2>1, <2>2
    <2>4. is_damaged(b) BY <2>3 DEF is_damaged
    <2>5. Inside(size, p, r) BY <1>6, LineRectCovers DEF r
    <2>6. QED BY <2>4, <2>5
  <1> HIDE DEF l, b, r
  <1>7. CASE ~is_damaged(b)
    <2>1. k = q BY <1>4, <1>7
    <2>2. ASSUME NEW p \in Cells(size), p.line < n, InBounds(f.lines[p.line], p.column) PROVE HasCell(size, p, k)
      BY <1>5, <1>6, <1>7, <2>1, <2>2
    <2>3. QED BY <1>1, <2>1, <2>2 DEF HasLines
  <1>8. CASE is_damaged(b) /\ last > 0 /\ rects_overlap(q[last], r)
    <2> DEFINE m == merge_rects(q[last], r)
               k2 == [q EXCEPT ![last] = m]
               a == q[last]
    <2>1. k = k2 BY <1>4, <1>8
    <2>2. last \in 1 .. last /\ a \in RectType BY <1>1, <1>8
    <2>3. ASSUME NEW p \in Cells(size)
          PROVE  m \in RectType /\ (Inside(size, p, a) \/ Inside(size, p, r) => Inside(size, p, m))
      <3> HIDE DEF a
      <3>1. QED BY <1>2, <2>2, MergedCovers DEF a
    <2>4. m \in RectType
      <3> DEFINE zero == [line |-> 0, column |-> 0]
      <3>1. zero \in Cells(size) BY DEF Cells, SizeType
      <3> HIDE DEF zero, m
      <3>2. QED BY <2>3, <3>1
    <2> HIDE DEF m
    <2>5. /\ k2 \in Seq(RectType) /\ Len(k2) = last /\ k2[last] = m
          /\ \A i \in 1 .. last : i # last => k2[i] = q[i]
      BY <1>1, <2>2, <2>4
    <2> HIDE DEF k2, k, last
    <2>6. ASSUME NEW p \in Cells(size), p.line < n, InBounds(f.lines[p.line], p.column) PROVE HasCell(size, p, k2)
      <3>1. CASE p.line = l
        <4>1. Inside(size, p, k2[last]) BY <1>6, <2>3, <2>5, <2>6, <3>1
        <4>2. QED BY <2>2, <2>5, <4>1 DEF HasCell
      <3>2. CASE p.line # l
        <4>1. PICK i \in 1 .. last : Inside(size, p, q[i]) BY <1>5, <2>6, <3>2 DEF HasCell, last
        <4>2. CASE i = last
          <5>1. Inside(size, p, k2[last]) BY <2>3, <2>5, <4>1, <4>2
          <5>2. QED BY <2>2, <2>5, <5>1 DEF HasCell
        <4>3. CASE i # last
          <5>1. Inside(size, p, k2[i]) BY <2>5, <4>1, <4>3
          <5>2. QED BY <2>5, <5>1 DEF HasCell
        <4>4. QED BY <4>2, <4>3
      <3>3. QED BY <3>1, <3>2
    <2>7. QED BY <2>1, <2>5, <2>6 DEF HasLines, k
  <1>9. CASE is_damaged(b) /\ ~(last > 0 /\ rects_overlap(q[last], r))
    <2> DEFINE k2 == Append(q, r)
    <2>1. k = k2 BY <1>4, <1>9
    <2>2. /\ k2 \in Seq(RectType) /\ Len(k2) = last + 1 /\ k2[last + 1] = r
          /\ \A i \in 1 .. last : k2[i] = q[i]
      BY <1>1, <1>2
    <2>3. last + 1 \in 1 .. (last + 1) /\ \A i \in 1 .. last : i \in 1 .. (last + 1) BY <1>1
    <2> HIDE DEF k2, k, last
    <2>4. ASSUME NEW p \in Cells(size), p.line < n, InBounds(f.lines[p.line], p.column) PROVE HasCell(size, p, k2)
      <3>1. CASE p.line = l
        <4>1. Inside(size, p, k2[last + 1]) BY <1>6, <2>2, <2>4, <3>1
        <4>2. QED BY <2>2, <2>3, <4>1 DEF HasCell
      <3>2. CASE p.line # l
        <4>1. PICK i \in 1 .. last : Inside(size, p, q[i]) BY <1>5, <2>4, <3>2 DEF HasCell, last
        <4>2. Inside(size, p, k2[i]) BY <2>2, <4>1
        <4>3. QED BY <2>2, <2>3, <4>1, <4>2 DEF HasCell
      <3>3. QED BY <3>1, <3>2
    <2>5. QED BY <2>1, <2>2, <2>4 DEF HasLines, k
  <1>10. QED BY <1>7, <1>8, <1>9

(* The rectangles of all lines have all damaged cells. *)
LEMMA LineRectsCover ==
  ASSUME NEW size \in SizeType, NEW f \in FrameType(size)
  PROVE  HasLines(f, size, size.lines, LineRects(f, size))
  <1> DEFINE n == size.lines
             base == << >>
             Round(q, k) == NextRects(f, size, q, k)
  <1>1. n \in Nat BY DEF SizeType
  <1>0. LineRects(f, size) = (CHOOSE r : r = [k \in 0 .. n |-> IF k = 0 THEN base ELSE Round(r[k - 1], k)])[n]
    BY Zenon DEF LineRects, NextRects, LineRect
  <1>00. HasLines(f, size, 0, base)
    <2>1. \A p \in Cells(size) : ~(p.line < 0) BY DEF Cells, SizeType
    <2>2. QED BY <2>1 DEF HasLines
  <1>000. ASSUME NEW k \in 1 .. n, NEW q, HasLines(f, size, k - 1, q) PROVE HasLines(f, size, k, Round(q, k))
    BY <1>000, NextRectsCover
  <1> HIDE DEF n, base, Round
  <1>2. \E r : r = [k \in 0 .. n |-> IF k = 0 THEN base ELSE Round(r[k - 1], k)]
    <2> DEFINE Runs(m, r) == r = [k \in 0 .. m |-> IF k = 0 THEN base ELSE Round(r[k - 1], k)]
               K == {m \in 0 .. n : \E r : Runs(m, r)}
    <2>1. 0 \in K
      <3>1. Runs(0, [k \in 0 .. 0 |-> base]) OBVIOUS
      <3> HIDE DEF Runs
      <3>2. QED BY <1>1, <3>1
    <2>2. ASSUME NEW m \in 1 .. n, m - 1 \in K PROVE m \in K
      <3>1. PICK r : Runs(m - 1, r) BY <2>2
      <3> DEFINE longer == [k \in 0 .. m |-> IF k = m THEN Round(r[m - 1], m) ELSE r[k]]
      <3>2. ASSUME NEW k \in 0 .. m PROVE longer[k] = IF k = 0 THEN base ELSE Round(longer[k - 1], k)
        <4>1. CASE k = m
          <5>1. k - 1 \in 0 .. m /\ k - 1 # m /\ k # 0 BY <4>1
          <5>2. longer[k - 1] = r[m - 1] BY <4>1, <5>1
          <5>3. QED BY <4>1, <5>1, <5>2
        <4>2. CASE k # m /\ k # 0
          <5>1. k - 1 \in 0 .. m /\ k - 1 # m /\ k \in 0 .. (m - 1) BY <4>2
          <5>2. longer[k - 1] = r[k - 1] /\ longer[k] = r[k] BY <4>2, <5>1
          <5>3. r[k] = Round(r[k - 1], k) BY <3>1, <4>2, <5>1
          <5>4. QED BY <4>2, <5>2, <5>3
        <4>3. CASE k # m /\ k = 0
          <5>1. k \in 0 .. (m - 1) BY <4>3
          <5>2. r[k] = base BY <3>1, <4>3, <5>1
          <5>3. QED BY <4>3, <5>2
        <4>4. QED BY <4>1, <4>2, <4>3
      <3>3. longer = [k \in 0 .. m |-> longer[k]] OBVIOUS
      <3> HIDE DEF longer
      <3>4. Runs(m, longer) BY <3>2, <3>3
      <3> HIDE DEF Runs
      <3>5. QED BY <3>4
    <2> HIDE DEF K
    <2>3. \A m \in 0 .. n : m \in K BY <1>1, <2>1, <2>2, EveryRound
    <2>4. n \in K BY <1>1, <2>3
    <2>5. QED BY <2>4 DEF K
  <1> DEFINE g == CHOOSE r : r = [k \in 0 .. n |-> IF k = 0 THEN base ELSE Round(r[k - 1], k)]
  <1>g. g = [k \in 0 .. n |-> IF k = 0 THEN base ELSE Round(g[k - 1], k)] BY <1>2, Zenon
  <1>3. g[0] = base
    <2> HIDE DEF g
    <2>1. QED BY <1>1, <1>g
  <1>4. ASSUME NEW k \in 1 .. n PROVE g[k] = Round(g[k - 1], k)
    <2> HIDE DEF g
    <2>1. k \in 0 .. n /\ k # 0 BY <1>1
    <2>2. QED BY <1>g, <2>1
  <1> HIDE DEF g
  <1> DEFINE K == {k \in 0 .. n : HasLines(f, size, k, g[k])}
  <1>5. 0 \in K BY <1>00, <1>1, <1>3
  <1>6. ASSUME NEW k \in 1 .. n, k - 1 \in K PROVE k \in K
    <2>1. HasLines(f, size, k - 1, g[k - 1]) BY <1>6
    <2>2. HasLines(f, size, k, g[k]) BY <1>000, <1>4, <2>1
    <2>3. QED BY <1>1, <2>2
  <1> HIDE DEF K
  <1>7. \A k \in 0 .. n : k \in K BY <1>1, <1>5, <1>6, EveryRound
  <1>8. n \in K BY <1>1, <1>7
  <1>9. HasLines(f, size, n, g[n]) BY <1>8 DEF K
  <1>10. QED BY <1>0, <1>9 DEF g, n


(* The rectangles of a frame that is damaged as a whole, or by lines. *)
LEMMA RectsHave ==
  ASSUME SubmittedGood, screen.size \in SizeType
  PROVE  RectsCoverDamage
  <1> SUFFICES ASSUME submitted # << >> PROVE RectsCoverDamage BY DEF RectsCoverDamage
  <1> DEFINE size == screen.size
             f == submitted[1]
             W == Width(size)
             H == Height(size)
             d == size.padding
             ch == size.cellHeight
             cw == size.cellWidth
             shape == shape_frame_damage(f, size)
             rects == ToSet(shape)
             top == d + size.lines * ch
             Holds(r, x, y, w, h) == /\ r.x <= x /\ x + w <= r.x + r.width
                                     /\ damage_y_to_viewport_y(size, r) <= y
                                     /\ y + h <= damage_y_to_viewport_y(size, r) + r.height
  <1>1. f \in FrameType(size) /\ (size.bar > 0 => BarRect(size) \in ToSet(f.rects)) BY DEF SubmittedGood
  <1>2. W \in Nat /\ H \in Nat /\ d \in Nat /\ ch \in Nat /\ cw \in Nat /\ top \in Nat
    <2>1. W \in Nat /\ H \in Nat /\ size.lines * ch \in Nat BY Extents
    <2>2. d \in Nat /\ ch \in Nat /\ cw \in Nat BY DEF SizeType
    <2> HIDE DEF W, H
    <2>3. QED BY <2>1, <2>2
  <1>3. ASSUME NEW r \in RectType, NEW p \in Cells(size), Inside(size, p, r)
        PROVE  Holds(r, d + p.column * cw, d + p.line * ch, cw, ch)
    <2> DEFINE X == d + p.column * cw
               y == p.line * ch
               Y == CellY(size, p)
    <2>1. X = CellX(size, p) BY DEF CellX
    <2>2. Y \in Nat /\ Y = H - d - y - ch /\ y \in Nat BY CellFits
    <2>3. r.x <= X /\ X + cw <= r.x + r.width /\ r.y <= Y /\ Y + ch <= r.y + r.height BY <1>3, <2>1 DEF Inside
    <2>4. r.y \in Int /\ r.height \in Int BY DEF RectType
    <2>5. damage_y_to_viewport_y(size, r) = H - r.y - r.height BY DEF damage_y_to_viewport_y
    <2> HIDE DEF X, y, Y, H, d, ch, cw
    <2>6. H - r.y - r.height <= d + y /\ d + y + ch <= H - r.y - r.height + r.height BY <1>2, <2>2, <2>3, <2>4
    <2>7. QED BY <2>3, <2>5, <2>6 DEF X, y
  <1>4. ASSUME NEW r, r.x = 0, r.y = 0, r.width = W, r.height = H - top
        PROVE  Holds(r, 0, top, W, H - top)
    <2>1. damage_y_to_viewport_y(size, r) = H - r.y - r.height BY DEF damage_y_to_viewport_y
    <2> HIDE DEF H, W, top
    <2>2. H - r.y - r.height = top BY <1>2, <1>4
    <2>3. QED BY <1>2, <1>4, <2>1, <2>2
  <1>5. CASE f.full
    <2> DEFINE r == [x |-> 0, y |-> 0, width |-> W, height |-> H]
    <2>1. shape = << r >> BY <1>5 DEF shape_frame_damage
    <2>2. r \in rects
      <3> HIDE DEF r, shape
      <3>1. QED BY <2>1 DEF ToSet
    <2>3. r \in RectType BY <1>2 DEF RectType
    <2>4. r.x = 0 /\ r.y = 0 /\ r.width = W /\ r.height = H OBVIOUS
    <2> HIDE DEF r, rects
    <2>5. ASSUME NEW p \in DamagedCells(f, size) PROVE \E s \in rects : Holds(s, d + p.column * cw, d + p.line * ch, cw, ch)
      <3>1. p \in Cells(size) BY DEF DamagedCells
      <3> DEFINE X == CellX(size, p)
                 Y == CellY(size, p)
      <3>2. X \in Nat /\ X + cw <= W /\ Y \in Nat /\ Y + ch <= H BY <3>1, CellFits
      <3> HIDE DEF X, Y, W, H, cw, ch
      <3>3. r.x <= X /\ X + cw <= r.x + r.width /\ r.y <= Y /\ Y + ch <= r.y + r.height BY <1>2, <2>4, <3>2
      <3>4. Inside(size, p, r) BY <3>3 DEF Inside, X, Y, cw, ch
      <3>5. Holds(r, d + p.column * cw, d + p.line * ch, cw, ch) BY <1>3, <2>3, <3>1, <3>4
      <3> HIDE DEF Holds
      <3>6. QED BY <2>2, <3>5
    <2>6. Holds(r, 0, top, W, H - top)
      <3>1. damage_y_to_viewport_y(size, r) = H - r.y - r.height BY DEF damage_y_to_viewport_y
      <3> HIDE DEF H, W, top
      <3>2. H - r.y - r.height = 0 BY <1>2, <2>4
      <3>3. QED BY <1>2, <2>4, <3>1, <3>2
    <2>7. \E s \in rects : Holds(s, 0, top, W, H - top)
      <3> HIDE DEF Holds
      <3>1. QED BY <2>2, <2>6
    <2>8. QED BY <2>5, <2>7 DEF RectsCoverDamage, rects
  <1>6. CASE ~f.full
    <2> DEFINE q == LineRects(f, size)
               k == q \o f.rects
    <2>1. shape = k BY <1>6 DEF shape_frame_damage
    <2>2. q \in Seq(RectType) /\ f.rects \in Seq(RectType) /\ HasLines(f, size, size.lines, q)
      <3>1. HasLines(f, size, size.lines, q) BY <1>1, LineRectsCover
      <3>2. QED BY <1>1, <3>1 DEF HasLines, FrameType
    <2> HIDE DEF q
    <2>3. ASSUME NEW i \in 1 .. Len(q) PROVE q[i] \in rects /\ q[i] \in RectType
      <3>1. i \in DOMAIN k /\ k[i] = q[i] /\ q[i] \in RectType BY <2>2
      <3> HIDE DEF k
      <3>2. k[i] \in ToSet(k) BY <3>1 DEF ToSet
      <3>3. QED BY <2>1, <3>1, <3>2
    <2>4. ASSUME NEW s \in ToSet(f.rects) PROVE s \in rects
      <3>1. PICK i \in DOMAIN f.rects : s = f.rects[i] BY DEF ToSet
      <3>2. i \in 1 .. Len(f.rects) BY <2>2
      <3> DEFINE j == Len(q) + i
      <3>3. j \in DOMAIN k /\ k[j] = f.rects[i] BY <2>2, <3>2
      <3> HIDE DEF k, j
      <3>4. k[j] \in ToSet(k) BY <3>3 DEF ToSet
      <3>5. QED BY <2>1, <3>1, <3>3, <3>4
    <2> HIDE DEF rects, k
    <2>5. ASSUME NEW p \in DamagedCells(f, size) PROVE \E s \in rects : Holds(s, d + p.column * cw, d + p.line * ch, cw, ch)
      <3>1. p \in Cells(size) /\ InBounds(f.lines[p.line], p.column) BY <1>6 DEF DamagedCells
      <3>2. p.line < size.lines
        <4>1. p.line \in 0 .. (size.lines - 1) BY <3>1 DEF Cells
        <4>2. size.lines \in Nat BY DEF SizeType
        <4>3. QED BY <4>1, <4>2
      <3>3. HasCell(size, p, q) BY <2>2, <3>1, <3>2 DEF HasLines
      <3>4. PICK i \in 1 .. Len(q) : Inside(size, p, q[i]) BY <3>3 DEF HasCell
      <3>5. Holds(q[i], d + p.column * cw, d + p.line * ch, cw, ch) BY <1>3, <2>3, <3>1, <3>4
      <3> HIDE DEF Holds
      <3>6. QED BY <2>3, <3>5
    <2>6. ASSUME size.bar > 0 PROVE \E s \in rects : Holds(s, 0, top, W, H - top)
      <3> DEFINE r == BarRect(size)
      <3>1. r \in rects BY <1>1, <2>4, <2>6
      <3>2. r = [x |-> 0, y |-> H - top - (H - top), width |-> W, height |-> H - top]
        BY DEF BarRect, viewport_y_to_damage_y
      <3>3. r.x = 0 /\ r.y = H - top - (H - top) /\ r.width = W /\ r.height = H - top BY <3>2
      <3> HIDE DEF r, W, H, top
      <3>4. r.y = 0 BY <1>2, <3>3
      <3>5. Holds(r, 0, top, W, H - top) BY <1>4, <3>3, <3>4
      <3> HIDE DEF Holds
      <3>6. QED BY <3>1, <3>5
    <2>7. QED BY <2>5, <2>6 DEF RectsCoverDamage, rects
  <1>7. QED BY <1>5, <1>6


(* The changes between two frames keep what the tracker remembers of the last frame. *)
LEMMA StillRemembered ==
  ASSUME NEW t, NEW s, NEW old, Remembered(t, s, old), NEW z, z.size = s.size,
         \/ z.damage.full
         \/ z.damage.full = s.damage.full /\ z.offset = s.offset /\ z.hint = s.hint /\ z.viHint = s.viHint
  PROVE  Remembered(t, z, old)
  <1>1. CASE z.damage.full BY <1>1 DEF Remembered
  <1>2. CASE z.damage.full = s.damage.full /\ z.offset = s.offset /\ z.hint = s.hint /\ z.viHint = s.viHint
    <2>1. Underlines(z) = Underlines(s) BY <1>2 DEF Underlines, CellsOf
    <2>2. QED BY <1>2, <2>1 DEF Remembered
  <1>3. QED BY <1>1, <1>2

Counted(s) == [s EXCEPT !.changes = @ + 1]

(* Counting a change leaves the rest of the screen alone. *)
LEMMA CountedScreen ==
  ASSUME NEW s, GoodScreen(s)
  PROVE  /\ GoodScreen(Counted(s)) /\ Counted(s).size = s.size /\ Counted(s).damage = s.damage /\ Counted(s).offset = s.offset
         /\ Counted(s).hint = s.hint /\ Counted(s).viHint = s.viHint
  <1> DEFINE z == Counted(s)
  <1>1. s \in ScreenType BY DEF GoodScreen
  <1> DEFINE n == s.changes + 1
  <1>2. n \in Nat BY <1>1 DEF ScreenType
  <1>3. z = [s EXCEPT !.changes = n] BY DEF Counted
  <1> HIDE DEF n
  <1>4. /\ z \in ScreenType /\ z.size = s.size /\ z.damage = s.damage /\ z.offset = s.offset /\ z.hint = s.hint
        /\ z.viHint = s.viHint /\ z.vi = s.vi
    BY <1>1, <1>2, <1>3 DEF ScreenType
  <1> HIDE DEF z
  <1>5. ViFits(z) BY <1>4 DEF ViFits, GoodScreen
  <1>6. QED BY <1>4, <1>5 DEF GoodScreen, z

(* A change that does not move the view without damaging it keeps the invariant. *)
LEMMA ChangeKeeps ==
  ASSUME DamageGood, NEW s, GoodScreen(s), s.size = screen.size,
         \/ s.damage.full
         \/ s.damage.full = screen.damage.full /\ s.offset = screen.offset /\ s.hint = screen.hint /\ s.viHint = screen.viHint,
         ShowElse(s)
  PROVE  DamageGood' /\ submitted' = << >>
  <1> DEFINE z == Counted(s)
  <1>1. screen' = z /\ submitted' = << >> /\ shown' = shown /\ tracker' = tracker BY DEF ShowElse, Change, Counted
  <1>2. /\ GoodScreen(z) /\ z.size = s.size /\ z.damage = s.damage /\ z.offset = s.offset /\ z.hint = s.hint /\ z.viHint = s.viHint
    BY CountedScreen
  <1> HIDE DEF z
  <1>3. Remembered(tracker, z, shown) BY <1>2, StillRemembered DEF DamageGood
  <1>4. QED BY <1>1, <1>2, <1>3 DEF DamageGood

(* A new window satisfies the invariant. *)
LEMMA DamageStarts == DamageInit => DamageGood /\ SubmittedGood
  <1> SUFFICES ASSUME DamageInit PROVE DamageGood /\ SubmittedGood OBVIOUS
  <1> DEFINE size == CHOOSE size \in Sizes : TRUE
             r == reset_frame(size)
             m == mark_frame_damaged(r)
  <1>1. size \in Sizes /\ size \in SizeType BY DamageAssumption, SizesTyped
  <1>2. /\ screen = [size |-> size, offset |-> 0, vi |-> << >>, selection |-> << >>, hint |-> << >>, viHint |-> << >>,
                     hintAge |-> 0, viHintAge |-> 0, overlay |-> FALSE, preedit |-> FALSE, damage |-> r, changes |-> 0]
        /\ tracker = NewTracker(screen.size) /\ shown = Unknown /\ submitted = << >>
    BY DEF DamageInit
  <1> HIDE DEF size
  <1>3. r \in FrameType(size) BY <1>1, ResetFrame
  <1>4. r \in Frames BY <1>1, <1>3 DEF Frames
  <1> HIDE DEF r
  <1>5. m.full /\ m \in FrameType(size) BY <1>3, FullDamaged DEF Grows
  <1>6. << >> \in Option(GridPlaces) /\ << >> \in Option(Ranges) BY DEF Option
  <1>7. screen \in ScreenType /\ screen.size = size /\ screen.damage = r /\ screen.vi = << >>
    <2> DEFINE e == << >>
    <2>1. e \in Option(GridPlaces) /\ e \in Option(Ranges) BY <1>6
    <2> HIDE DEF e
    <2>2. screen = [size |-> size, offset |-> 0, vi |-> e, selection |-> e, hint |-> e, viHint |-> e,
                    hintAge |-> 0, viHintAge |-> 0, overlay |-> FALSE, preedit |-> FALSE, damage |-> r, changes |-> 0]
      BY <1>2 DEF e
    <2>3. QED BY <1>1, <1>4, <2>1, <2>2 DEF ScreenType, e
  <1>8. GoodScreen(screen) BY <1>3, <1>7 DEF GoodScreen, ViFits
  <1>9. tracker = TrackerOf(m, r, << >>, << >>)
    <2>1. tracker = [[frames |-> << >>, old_vi |-> << >>, old_selection |-> << >>] EXCEPT !.frames = << m, r >>]
      BY <1>2, <1>7 DEF NewTracker, resize_tracker, r
    <2> HIDE DEF m
    <2>2. QED BY <2>1 DEF TrackerOf
  <1> HIDE DEF m
  <1>10. tracker.frames[1] = m /\ tracker.frames[2] = r /\ tracker.old_vi = << >> /\ tracker.old_selection = << >>
    BY <1>9, TrackerFields
  <1>11. GoodTracker(tracker, size) BY <1>3, <1>5, <1>6, <1>9, <1>10 DEF GoodTracker
  <1>12. Remembered(tracker, screen, shown)
    <2>1. shown.vi = {} /\ shown.selected = {} /\ shown.underlined = {} /\ shown.painted = {} BY <1>2 DEF Unknown
    <2>2. QED BY <1>5, <1>10, <2>1 DEF Remembered
  <1>13. QED BY <1>2, <1>7, <1>8, <1>11, <1>12 DEF DamageGood, SubmittedGood


(* Printing keeps the invariant. *)
LEMMA PrintCellKeeps ==
  ASSUME DamageGood, PrintCell
  PROVE  DamageGood' /\ submitted' = << >>
  <1>1. PICK p \in PrintedCells \intersect Cells(screen.size) :
          ShowElse([screen EXCEPT !.damage = damage_frame_point(@, p)]) BY DEF PrintCell
  <1> DEFINE size == screen.size
             d == screen.damage
             g == damage_frame_point(d, p)
             s == [screen EXCEPT !.damage = g]
  <1>2. GoodScreen(screen) /\ screen \in ScreenType /\ size \in SizeType /\ size \in Sizes /\ d \in FrameType(size)
    BY SizesTyped DEF DamageGood, GoodScreen, ScreenType
  <1>3. ShowElse(s) BY <1>1
  <1>4. g \in FrameType(size) /\ g.full = d.full
    <2> DEFINE l == p.line
               c == p.column
               n == size.columns
               b == d.lines[l]
               e == Expanded(b, c, c)
               lines == [d.lines EXCEPT ![l] = e]
               k == [d EXCEPT !.lines = lines]
    <2>1. g = k BY DEF damage_frame_point, damage_line
    <2>2. l \in 0 .. (size.lines - 1) /\ c \in 0 .. n /\ n \in Nat
      <3>1. l \in 0 .. (size.lines - 1) /\ c \in 0 .. (n - 1) BY DEF Cells
      <3>2. n \in Nat BY <1>2 DEF SizeType
      <3> HIDE DEF n
      <3>3. QED BY <3>1, <3>2
    <2>3. b \in LineBounds(size) /\ d.lines \in [0 .. (size.lines - 1) -> LineBounds(size)] BY <1>2, <2>2 DEF FrameType
    <2> HIDE DEF b, c, n, d, l
    <2>4. b \in [left : 0 .. n, right : 0 .. n] BY <2>3 DEF LineBounds, n
    <2>5. e \in [left : 0 .. n, right : 0 .. n] BY <2>2, <2>4, ExpandedBounds
    <2>6. e \in LineBounds(size) BY <2>5 DEF LineBounds, n
    <2> HIDE DEF e, g
    <2>7. lines \in [0 .. (size.lines - 1) -> LineBounds(size)] BY <2>3, <2>6
    <2> HIDE DEF lines
    <2>8. k \in FrameType(size) /\ k.full = d.full BY <1>2, <2>7, LinesSet
    <2> HIDE DEF k
    <2>9. QED BY <2>1, <2>8
  <1>5. g \in Frames BY <1>2, <1>4 DEF Frames
  <1> HIDE DEF g, d
  <1>6. /\ s \in ScreenType /\ s.size = screen.size /\ s.damage = g /\ s.offset = screen.offset /\ s.hint = screen.hint
        /\ s.viHint = screen.viHint /\ s.vi = screen.vi
    BY <1>2, <1>5 DEF ScreenType
  <1> HIDE DEF s
  <1>7. GoodScreen(s) BY <1>2, <1>4, <1>6 DEF GoodScreen, ViFits
  <1>8. s.damage.full = screen.damage.full BY <1>4, <1>6 DEF d
  <1>9. QED BY <1>3, <1>6, <1>7, <1>8, ChangeKeeps

(* Scrolling keeps the invariant: it damages the whole frame. *)
LEMMA ScrollViewKeeps ==
  ASSUME DamageGood, ScrollView
  PROVE  DamageGood' /\ submitted' = << >>
  <1> DEFINE size == screen.size
             d == screen.damage
             g == mark_frame_damaged(d)
             Vi(offset) == IF screen.vi = << >> THEN screen.vi ELSE
                           << Point(Larger(-offset, Smaller(screen.size.lines - 1 - offset, screen.vi[1].line)), screen.vi[1].column) >>
  <1>1. PICK offset \in (0 .. MaxOffset) \ {screen.offset} :
          ShowElse([screen EXCEPT !.offset = offset, !.damage = g, !.vi = Vi(offset)]) BY Zenon DEF ScrollView
  <1> DEFINE vi == Vi(offset)
             s == [screen EXCEPT !.offset = offset, !.damage = g, !.vi = vi]
  <1>2. GoodScreen(screen) /\ screen \in ScreenType /\ size \in SizeType /\ size \in Sizes /\ d \in FrameType(size) /\ offset \in Nat
    BY SizesTyped DEF DamageGood, GoodScreen, ScreenType
  <1>3. ShowElse(s) BY <1>1
  <1>4. g \in FrameType(size) /\ g.full BY <1>2, FullDamaged DEF Grows
  <1>5. g \in Frames BY <1>2, <1>4 DEF Frames
  <1>6. /\ vi \in Option(GridPlaces)
        /\ vi = << >> \/ (vi[1].line + offset \in 0 .. (size.lines - 1) /\ vi[1].column \in 0 .. (size.columns - 1))
    <2>1. CASE screen.vi = << >> BY <2>1 DEF Option
    <2>2. CASE screen.vi # << >>
      <3> DEFINE p == screen.vi[1]
                 n == size.lines
                 l == p.line
                 k == Larger(-offset, Smaller(n - 1 - offset, l))
                 q == Point(k, p.column)
      <3>1. p \in GridPlaces
        <4>1. screen.vi \in Option(GridPlaces) BY <1>2 DEF ScreenType
        <4>2. QED BY <2>2, <4>1 DEF Option
      <3>2. p.column \in 0 .. (size.columns - 1) BY <1>2, <2>2 DEF GoodScreen, ViFits
      <3>3. vi = << q >> BY <2>2
      <3>4. n \in Nat \ {0} /\ l \in Int BY <1>2, <3>1 DEF SizeType, GridPlaces
      <3> HIDE DEF p, l, n
      <3>5. k \in Int /\ k + offset \in 0 .. (n - 1) BY <1>2, <3>4 DEF Larger, Smaller
      <3> HIDE DEF k
      <3>6. q \in GridPlaces /\ q.line = k /\ q.column = p.column BY <3>1, <3>5 DEF GridPlaces, Point
      <3> HIDE DEF q, vi
      <3>7. QED BY <3>2, <3>3, <3>5, <3>6 DEF Option, n
    <2>3. QED BY <2>1, <2>2
  <1> HIDE DEF g, d, vi
  <1>7. s \in ScreenType /\ s.size = screen.size /\ s.damage = g /\ s.offset = offset /\ s.vi = vi
    BY <1>2, <1>5, <1>6 DEF ScreenType
  <1> HIDE DEF s
  <1>8. GoodScreen(s) BY <1>4, <1>6, <1>7 DEF GoodScreen, ViFits
  <1>9. s.damage.full BY <1>4, <1>7
  <1>10. QED BY <1>3, <1>7, <1>8, <1>9, ChangeKeeps

(* Moving the vi cursor keeps the invariant: it stays in view. *)
LEMMA MoveViKeeps ==
  ASSUME DamageGood, MoveVi
  PROVE  DamageGood' /\ submitted' = << >>
  <1> DEFINE size == screen.size
             offset == screen.offset
             P == {viewport_to_point(screen.offset, p) : p \in ViCursors \intersect Cells(screen.size)}
  <1>1. PICK vi \in Option(P) : ShowElse([screen EXCEPT !.vi = vi])
    <2>1. PICK x \in Option(P) \ {screen.vi} : ShowElse([screen EXCEPT !.vi = x]) BY Zenon DEF MoveVi
    <2>2. QED BY <2>1
  <1> DEFINE s == [screen EXCEPT !.vi = vi]
  <1>2. GoodScreen(screen) /\ screen \in ScreenType /\ size \in SizeType /\ offset \in Nat
    BY SizesTyped DEF DamageGood, GoodScreen, ScreenType
  <1>3. ShowElse(s) BY <1>1
  <1>4. ASSUME NEW x \in P
        PROVE  x \in GridPlaces /\ x.line + offset \in 0 .. (size.lines - 1) /\ x.column \in 0 .. (size.columns - 1)
    <2>1. PICK p \in Cells(size) : x = viewport_to_point(offset, p) OBVIOUS
    <2>2. p.line \in 0 .. (size.lines - 1) /\ p.column \in 0 .. (size.columns - 1) BY DEF Cells
    <2>3. x.line = p.line - offset /\ x.column = p.column /\ x = [line |-> p.line - offset, column |-> p.column]
      BY <2>1 DEF viewport_to_point, Point
    <2>4. size.lines \in Int /\ size.columns \in Int BY <1>2 DEF SizeType
    <2>5. p.line - offset + offset = p.line /\ p.line - offset \in Int /\ p.column \in Int BY <1>2, <2>2, <2>4
    <2>6. QED BY <2>2, <2>3, <2>5 DEF GridPlaces
  <1>5. /\ vi \in Option(GridPlaces)
        /\ vi = << >> \/ (vi[1].line + offset \in 0 .. (size.lines - 1) /\ vi[1].column \in 0 .. (size.columns - 1))
    <2> HIDE DEF P
    <2>1. CASE vi = << >> BY <2>1 DEF Option
    <2>2. CASE vi # << >>
      <3>1. PICK x \in P : vi = << x >> BY <2>2 DEF Option
      <3>2. vi[1] = x BY <3>1
      <3>3. QED BY <1>4, <3>1, <3>2 DEF Option
    <2>3. QED BY <2>1, <2>2
  <1>6. /\ s \in ScreenType /\ s.size = screen.size /\ s.damage = screen.damage /\ s.offset = screen.offset /\ s.hint = screen.hint
        /\ s.viHint = screen.viHint /\ s.vi = vi
    BY <1>2, <1>5 DEF ScreenType
  <1> HIDE DEF s
  <1>7. GoodScreen(s) BY <1>2, <1>5, <1>6 DEF GoodScreen, ViFits
  <1>8. s.damage.full = screen.damage.full BY <1>6
  <1>9. QED BY <1>3, <1>6, <1>7, <1>8, ChangeKeeps

(* Selecting keeps the invariant: the tracker compares with the selection drawn last. *)
LEMMA SelectKeeps ==
  ASSUME DamageGood, Select
  PROVE  DamageGood' /\ submitted' = << >>
  <1>1. PICK selection \in Option(SelectedRanges) : ShowElse([screen EXCEPT !.selection = selection]) BY DEF Select
  <1> DEFINE s == [screen EXCEPT !.selection = selection]
  <1>2. GoodScreen(screen) /\ screen \in ScreenType BY DEF DamageGood, GoodScreen
  <1>3. ShowElse(s) BY <1>1
  <1>4. selection \in Option(Ranges) BY SizesTyped DEF Option
  <1>5. /\ s \in ScreenType /\ s.size = screen.size /\ s.damage = screen.damage /\ s.offset = screen.offset /\ s.hint = screen.hint
        /\ s.viHint = screen.viHint /\ s.vi = screen.vi
    BY <1>2, <1>4 DEF ScreenType
  <1> HIDE DEF s
  <1>6. GoodScreen(s) BY <1>2, <1>5 DEF GoodScreen, ViFits
  <1>7. s.damage.full = screen.damage.full BY <1>5
  <1>8. QED BY <1>3, <1>5, <1>6, <1>7, ChangeKeeps

(* Overlays and input methods keep the invariant. *)
LEMMA OverlayKeeps ==
  ASSUME DamageGood, Overlay \/ Compose
  PROVE  DamageGood' /\ submitted' = << >>
  <1>1. PICK x \in BOOLEAN, y \in BOOLEAN : ShowElse([screen EXCEPT !.overlay = x]) \/ ShowElse([screen EXCEPT !.preedit = y])
    <2> DEFINE c == ~screen.overlay
               d == ~screen.preedit
    <2>1. (c \in BOOLEAN) /\ (d \in BOOLEAN) OBVIOUS
    <2>2. ShowElse([screen EXCEPT !.overlay = c]) \/ ShowElse([screen EXCEPT !.preedit = d]) BY DEF Overlay, Compose
    <2> HIDE DEF c, d
    <2>3. QED BY <2>1, <2>2
  <1> DEFINE a == [screen EXCEPT !.overlay = x]
             b == [screen EXCEPT !.preedit = y]
  <1>2. GoodScreen(screen) /\ screen \in ScreenType BY DEF DamageGood, GoodScreen
  <1>3. ASSUME NEW s \in {a, b}
        PROVE  /\ s \in ScreenType /\ s.size = screen.size /\ s.damage = screen.damage /\ s.offset = screen.offset
               /\ s.hint = screen.hint /\ s.viHint = screen.viHint /\ s.vi = screen.vi
    <2>1. CASE s = a BY <1>2, <2>1 DEF ScreenType
    <2>2. CASE s = b BY <1>2, <2>2 DEF ScreenType
    <2>3. QED BY <2>1, <2>2
  <1>4. PICK s \in {a, b} : ShowElse(s) BY <1>1
  <1> HIDE DEF a, b
  <1>5. GoodScreen(s) BY <1>2, <1>3 DEF GoodScreen, ViFits
  <1>6. s.size = screen.size /\ s.damage.full = screen.damage.full /\ s.offset = screen.offset /\ s.hint = screen.hint /\ s.viHint = screen.viHint
    BY <1>3
  <1>7. QED BY <1>4, <1>5, <1>6, ChangeKeeps


(* Changing the hints keeps the invariant: it damages the whole frame. *)
LEMMA HintsKeep ==
  ASSUME DamageGood, update_highlighted_hints
  PROVE  DamageGood' /\ submitted' = << >>
  <1>1. PICK viHint \in (IF screen.vi = << >> THEN {<< >>} ELSE Option(HintRanges)), hint \in Option(HintRanges) :
          /\ Change([screen EXCEPT !.viHint = viHint, !.viHintAge = 0, !.hint = hint, !.hintAge = 0])
          /\ tracker' = IF << viHint, hint >> = << screen.viHint, screen.hint >> THEN tracker
                        ELSE WithFrame(tracker, mark_frame_damaged(tracker.frames[1]))
    BY DEF update_highlighted_hints
  <1> DEFINE s == [screen EXCEPT !.viHint = viHint, !.viHintAge = 0, !.hint = hint, !.hintAge = 0]
             z == Counted(s)
             size == screen.size
             f == tracker.frames[1]
             g == tracker.frames[2]
             w == tracker.old_vi
             old == tracker.old_selection
             m == mark_frame_damaged(f)
  <1>2. /\ GoodScreen(screen) /\ screen \in ScreenType /\ GoodTracker(tracker, size) /\ Remembered(tracker, screen, shown)
    BY DEF DamageGood, GoodScreen
  <1>3. viHint \in Option(Ranges) /\ hint \in Option(Ranges) BY SizesTyped DEF Option
  <1>4. screen' = z /\ submitted' = << >> /\ shown' = shown BY <1>1 DEF Change, Counted
  <1>5. /\ s \in ScreenType /\ s.size = size /\ s.damage = screen.damage /\ s.offset = screen.offset /\ s.hint = hint
        /\ s.viHint = viHint /\ s.vi = screen.vi
    BY <1>2, <1>3 DEF ScreenType
  <1> HIDE DEF s
  <1>6. GoodScreen(s) BY <1>2, <1>5 DEF GoodScreen, ViFits
  <1>7. GoodScreen(z) /\ z.size = size /\ z.damage = screen.damage /\ z.offset = screen.offset /\ z.hint = hint /\ z.viHint = viHint
    BY <1>5, <1>6, CountedScreen
  <1> HIDE DEF z
  <1>8. CASE << viHint, hint >> = << screen.viHint, screen.hint >>
    <2>1. tracker' = tracker /\ viHint = screen.viHint /\ hint = screen.hint BY <1>1, <1>8
    <2>2. z.damage.full = screen.damage.full BY <1>7
    <2>3. Remembered(tracker, z, shown) BY <1>2, <1>7, <2>1, <2>2, StillRemembered
    <2>4. QED BY <1>2, <1>4, <1>7, <2>1, <2>3 DEF DamageGood
  <1>9. CASE << viHint, hint >> # << screen.viHint, screen.hint >>
    <2>1. tracker' = WithFrame(tracker, m) BY <1>1, <1>9
    <2>2. /\ tracker = TrackerOf(f, g, w, old) /\ f \in FrameType(size) /\ g \in FrameType(size) /\ old \in Option(Ranges)
      BY <1>2 DEF GoodTracker
    <2>3. shown.painted \subseteq DamagedCells(f, size) BY <1>2 DEF Remembered
    <2> HIDE DEF f, g, w, old
    <2>4. m.full /\ m \in FrameType(size) /\ DamagedCells(f, size) \subseteq DamagedCells(m, size)
      BY <2>2, FullDamaged DEF Grows
    <2> HIDE DEF m
    <2>5. tracker' = TrackerOf(m, g, w, old) BY <2>1, <2>2, TrackerWithFrame
    <2>6. tracker'.frames[1] = m /\ tracker'.frames[2] = g /\ tracker'.old_vi = w /\ tracker'.old_selection = old
      BY <2>5, TrackerFields
    <2>7. GoodTracker(tracker', size) BY <2>2, <2>4, <2>5, <2>6 DEF GoodTracker
    <2>8. Remembered(tracker', z, shown) BY <1>2, <1>7, <2>3, <2>4, <2>6 DEF Remembered
    <2>9. QED BY <1>4, <1>7, <2>7, <2>8 DEF DamageGood
  <1>10. QED BY <1>8, <1>9

(* Resizing keeps the invariant: the frames begin anew and are damaged as a whole. *)
LEMMA ResizeWindowKeeps ==
  ASSUME DamageGood, ResizeWindow
  PROVE  DamageGood' /\ submitted' = << >>
  <1>1. PICK size \in Sizes :
          /\ screen' = [screen EXCEPT !.size = size, !.offset = 0, !.vi = << >>, !.selection = << >>,
                                      !.damage = mark_frame_damaged(reset_frame(size)), !.changes = @ + 1]
          /\ tracker' = resize_tracker(tracker, size) /\ shown' = Unknown /\ submitted' = << >>
    BY DEF ResizeWindow
  <1> DEFINE r == reset_frame(size)
             m == mark_frame_damaged(r)
             e == << >>
             n == screen.changes + 1
             f == tracker.frames[1]
             g == tracker.frames[2]
             w == tracker.old_vi
             old == tracker.old_selection
  <1>2. screen \in ScreenType /\ GoodTracker(tracker, screen.size) BY DEF DamageGood, GoodScreen
  <1>3. r \in FrameType(size) BY SizesTyped, ResetFrame
  <1>4. tracker = TrackerOf(f, g, w, old) /\ old \in Option(Ranges) BY <1>2 DEF GoodTracker
  <1>5. tracker' = SetFrames(tracker, m, r) BY <1>1 DEF resize_tracker, SetFrames
  <1> HIDE DEF r
  <1>6. m.full /\ m \in FrameType(size) BY <1>3, FullDamaged DEF Grows
  <1>7. n \in Nat /\ e \in Option(GridPlaces) /\ e \in Option(Ranges) BY <1>2 DEF ScreenType, Option
  <1>8. screen' = [screen EXCEPT !.size = size, !.offset = 0, !.vi = e, !.selection = e, !.damage = m, !.changes = n]
    BY <1>1 DEF r
  <1> HIDE DEF m, n, f, g, w, old
  <1>9. m \in Frames BY <1>6 DEF Frames
  <1>10. screen' \in ScreenType /\ screen'.size = size /\ screen'.damage = m /\ screen'.vi = << >>
    <2> HIDE DEF e
    <2>1. screen' \in ScreenType /\ screen'.size = size /\ screen'.damage = m /\ screen'.vi = e
      BY <1>2, <1>7, <1>8, <1>9 DEF ScreenType
    <2>2. QED BY <2>1 DEF e
  <1>11. GoodScreen(screen') BY <1>6, <1>10 DEF GoodScreen, ViFits
  <1>12. tracker' = TrackerOf(m, r, w, old) BY <1>4, <1>5, TrackerSetFrames
  <1>13. tracker'.frames[1] = m /\ tracker'.frames[2] = r /\ tracker'.old_vi = w /\ tracker'.old_selection = old
    BY <1>12, TrackerFields
  <1>14. GoodTracker(tracker', size) BY <1>3, <1>4, <1>6, <1>12, <1>13 DEF GoodTracker
  <1>15. Remembered(tracker', screen', shown')
    <2>1. shown'.vi = {} /\ shown'.selected = {} /\ shown'.underlined = {} /\ shown'.painted = {} BY <1>1 DEF Unknown
    <2>2. QED BY <1>6, <1>13, <2>1 DEF Remembered
  <1>16. QED BY <1>1, <1>10, <1>11, <1>14, <1>15 DEF DamageGood

(* Every step keeps the invariant and damages what it changes. *)
LEMMA DamageSteps ==
  ASSUME DamageGood, [DamageNext]_damageVars
  PROVE  DamageGood' /\ (SubmittedGood => SubmittedGood') /\ [ChangesAreDamaged]_damageVars
  <1>1. CASE DrawFrame BY <1>1, DrawStep
  <1>2. ASSUME DamageGood' /\ submitted' = << >>
        PROVE  DamageGood' /\ SubmittedGood' /\ ChangesAreDamaged
    BY <1>2 DEF SubmittedGood, ChangesAreDamaged
  <1>3. CASE PrintCell BY <1>2, <1>3, PrintCellKeeps
  <1>4. CASE ScrollView BY <1>2, <1>4, ScrollViewKeeps
  <1>5. CASE MoveVi BY <1>2, <1>5, MoveViKeeps
  <1>6. CASE Select BY <1>2, <1>6, SelectKeeps
  <1>7. CASE Overlay \/ Compose BY <1>2, <1>7, OverlayKeeps
  <1>8. CASE update_highlighted_hints BY <1>2, <1>8, HintsKeep
  <1>9. CASE ResizeWindow BY <1>2, <1>9, ResizeWindowKeeps
  <1>10. CASE UNCHANGED damageVars
    <2>1. tracker' = tracker /\ screen' = screen /\ shown' = shown /\ submitted' = submitted BY <1>10 DEF damageVars
    <2>2. DamageGood' BY <2>1 DEF DamageGood
    <2>3. SubmittedGood => SubmittedGood' BY <2>1 DEF SubmittedGood
    <2>4. QED BY <1>10, <2>2, <2>3
  <1>11. QED BY <1>1, <1>3, <1>4, <1>5, <1>6, <1>7, <1>8, <1>9, <1>10 DEF DamageNext

(* Every frame of Display::draw gives the compositor each cell that looks different from the
   frame before and the message bar, for windows, selections and hints of every size and
   place and for any number of changes between two frames. *)
THEOREM FramesCoverTheirChanges == FramesSpec => DamageCovers
  <1>1. FramesSpec => [](DamageGood /\ SubmittedGood)
    <2>1. DamageInit => DamageGood /\ SubmittedGood BY DamageStarts
    <2>2. (DamageGood /\ SubmittedGood) /\ [DamageNext]_damageVars => (DamageGood /\ SubmittedGood)' BY DamageSteps
    <2>3. QED BY <2>1, <2>2, PTL DEF FramesSpec
  <1>2. DamageGood /\ SubmittedGood => RectsCoverDamage
    <2> SUFFICES ASSUME DamageGood, SubmittedGood PROVE RectsCoverDamage OBVIOUS
    <2>1. screen.size \in SizeType BY SizesTyped DEF DamageGood, GoodScreen, ScreenType
    <2>2. QED BY <2>1, RectsHave
  <1>3. DamageGood /\ [DamageNext]_damageVars => [ChangesAreDamaged]_damageVars BY DamageSteps
  <1>4. QED BY <1>1, <1>2, <1>3, PTL DEF FramesSpec, DamageCovers
===============================================================================
