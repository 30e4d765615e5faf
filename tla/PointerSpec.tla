----------------------------- MODULE PointerSpec -----------------------------
(***************************************************************************)
(* A window with a mouse, a touch screen and a program that switches its   *)
(* mouse mode.                                                             *)
(***************************************************************************)
EXTENDS Pointer

CONSTANTS Fingers,    \* fingers on the touch screen
          Deltas      \* pixels of a scroll

ASSUME PointerSpecAssumption == Deltas \subseteq Int

VARIABLES pointer, fingers, moved

pointerVars == <<pointer, fingers, moved>>

(* `fingers` are the ones on the screen; `moved` tells whether the mouse has
   come to another cell since the last press. *)
PointerInit == pointer = NewPointer /\ fingers = {} /\ moved = FALSE

Places == {"a", "b", "below"}
Now == [pointer EXCEPT !.launched = FALSE]
Step(p) == pointer' = [p EXCEPT !.lines = 0]

(* The mouse, while no finger is down: the bound of the model. *)
MouseOnly == fingers = {} /\ UNCHANGED fingers
Move == MouseOnly /\ \E at \in Places : Step(mouse_moved(Now, at)) /\ moved' = (moved \/ at # pointer.at)
Click ==
  /\ MouseOnly
  /\ \E button \in {"Left", "Right"} \ pointer.buttons, soon \in BOOLEAN : Step(Press(Now, button, soon))
  /\ moved' = FALSE
Unclick ==
  /\ MouseOnly
  /\ \E button \in pointer.buttons, hint \in BOOLEAN : Step(Release(Now, button, hint))
  /\ UNCHANGED moved
Scroll ==
  /\ MouseOnly
  /\ \/ \E lines \in {-1, 1} : Step(Wheel(Now, lines))
     \/ \E px \in Deltas : Step(Touchpad(Now, px))
     \/ Step(TouchpadStarted(Now))
  /\ UNCHANGED moved

(* The fingers, while the mouse has no button down of its own; more than one
   only without a message and shift, the other bound of the model. *)
Down ==
  /\ pointer.buttons = {} \/ fingers # {}
  /\ fingers = {} \/ (~pointer.message /\ pointer.mods = {})
  /\ \E id \in Fingers \ fingers : Step(on_touch_start(Now, id)) /\ fingers' = fingers \union {id}
  /\ UNCHANGED moved
(* A tap presses where it began, before the motion. *)
MovedTo(at, drag) ==
  CASE pointer.touch.purpose = "Tap"    -> drag = "x" /\ at # "a"
    [] pointer.touch.purpose = "Select" -> moved \/ at # pointer.at
    [] OTHER -> moved
(* Where the finger goes matters to some gestures only. *)
For(purposes, values) == IF pointer.touch.purpose \in purposes THEN values ELSE {CHOOSE v \in values : TRUE}
Drag(Act(_, _, _, _)) ==
  \E id \in fingers, at \in For({"Tap", "Select"}, Places), px \in For({"Tap", "Scroll"}, Deltas),
     drag \in For({"Tap"}, {"none", "x", "y"}) :
    /\ Act(id, at, on_touch_motion(Now, id, at, px, drag), drag)
    /\ moved' = MovedTo(at, drag)
Motion ==
  LET Act(id, at, p, drag) == Step(p) /\ UNCHANGED fingers
  IN  Drag(Act)
Up ==
  LET Act(id, at, p, drag) ==
        \E hint \in BOOLEAN : Step(on_touch_end(p, id, hint)) /\ fingers' = fingers \ {id}
  IN  Drag(Act)

Modifiers ==
  /\ \E mods \in SUBSET {"SHIFT"} : Step(modifiers_input(Now, mods))
  /\ UNCHANGED <<fingers, moved>>
(* The program and the user switch modes, a message comes up. *)
Switch ==
  /\ \/ \E mode \in {{}, {"MOUSE_DRAG"}} : Step([Now EXCEPT !.mode = mode])
     \/ fingers = {} /\ Step([Now EXCEPT !.message = TRUE])
  /\ UNCHANGED <<fingers, moved>>

PointerNext ==
  Move \/ Click \/ Unclick \/ Scroll \/ Down \/ Motion \/ Up \/ Modifiers \/ Switch

PointerSpec == PointerInit /\ [][PointerNext]_pointerVars
-------------------------------------------------------------------------------
(* PointerTypeOK: a scroll is never left with a whole line. *)
PointerTypeOK ==
  /\ pointer.accumulated \in (1 - CellHeight)..(CellHeight - 1)
  /\ pointer.touch.purpose \in {"Tap", "Select", "Scroll", "ZoomPendingSlot"}
       => pointer.touch.slots = {pointer.touch.first}
  /\ pointer.touch.purpose = "Zoom" => Cardinality(pointer.touch.slots) = 2

(* TouchTracksFingers: whichever fingers go down, move and go up in whatever
   order, the slots of the gesture are fingers on the screen, so that it ends
   when they do. *)
TouchTracksFingers ==
  pointer.touch.slots \subseteq fingers /\ (pointer.touch.purpose = "None" <=> pointer.touch.slots = {})

(* WheelConserves: no scroll is lost or made up: what was left over before and
   the pixels of the event are the lines that are scrolled, in their direction,
   and what is left over now. *)
WheelConserves ==
  \A px \in Deltas :
    LET q == scroll_terminal(Now, px, Multiplier)
        m == IF mouse_mode(pointer) THEN 1 ELSE Multiplier
    IN  pointer.accumulated + px * m = CellHeight * q.lines + q.accumulated

(* LaunchesOnlyClicks: a hint is launched by a release only if the mouse has
   not moved since the press, also when the mouse mode or shift changed between
   the two or a finger took the place of the mouse. *)
LaunchesOnlyClicks == pointer.launched => ~moved

(* ReportsTheCell: a program that reads a report finds the cell of the mouse in it, up to
   the last position an encoding can tell, beyond which nothing is reported: the bytes of
   a position neither wrap around nor run into those of the other one. *)
Corners == {0, 94, 95, 222, 223, 2014, 2015}
ReportsTheCell ==
  ToProgram(pointer) /\ pointer.buttons = {} /\ fingers = {} =>
    \A line \in Corners \union {-1}, column \in Corners, state \in {"Pressed", "Released"}, utf8 \in BOOLEAN :
      LET report == mouse_report(line, column, 0, state, pointer.mods, IF utf8 THEN {"UTF8_MOUSE"} ELSE {})
          last   == (IF utf8 THEN 2047 ELSE 255) - 33
          x      == ReadPosition(Tail(report), utf8)
          y      == ReadPosition(x.rest, utf8)
      IN  IF line < 0 \/ line > last \/ column > last THEN report = << >>
          ELSE x.at = column /\ y.at = line /\ y.rest = << >>

(* PointerInv: mouse, wheel and fingers, mixed in any order: gestures follow the fingers,
   no drag launches a hint, no scroll is lost and reports name the right cell. *)
PointerInv == PointerTypeOK /\ TouchTracksFingers /\ WheelConserves /\ LaunchesOnlyClicks /\ ReportsTheCell
===============================================================================
