------------------------------ MODULE InputSpec ------------------------------
(***************************************************************************)
(* A window with all its input: the events that WindowSpec handles, the    *)
(* mouse and the touch screen of PointerSpec, the keys of KeyboardSpec,    *)
(* the hint labels of HintSpec and the frames of DamageSpec.               *)
(***************************************************************************)
EXTENDS WindowSpec, PointerSpec, KeyboardSpec, HintSpec, DamageSpec

vars == << windowVars, pointerVars, keyboardVars, hintVars, damageVars >>

Init == WindowInit /\ PointerInit /\ KeyboardInit /\ HintInit /\ DamageInit

(* The bound of the model: the pointer is used in a scenario of its own, and
   so are the modes that keys depend on, the labels and the frames. *)
InScenario(name) == name \in scenario.events /\ window.t.grid.cursor = 0 /\ ~window.dirty /\ UNCHANGED windowVars
Next ==
  \/ WindowNext /\ UNCHANGED << pointerVars, keyboardVars, hintVars, damageVars >>
  \/ InScenario("pointer") /\ PointerNext /\ UNCHANGED << keyboardVars, hintVars, damageVars >>
  \/ InScenario("keyboard") /\ KeyboardNext /\ UNCHANGED << pointerVars, hintVars, damageVars >>
  \/ InScenario("labels") /\ HintNext /\ UNCHANGED << pointerVars, keyboardVars, damageVars >>
  \/ InScenario("damage") /\ DamageNext /\ UNCHANGED << pointerVars, keyboardVars, hintVars >>

Spec == Init /\ [][Next]_vars
===============================================================================
