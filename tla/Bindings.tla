------------------------------ MODULE Bindings -------------------------------
(***************************************************************************)
(* Key bindings (cutty/src/config/bindings.rs, deserialize_bindings of     *)
(* cutty/src/config/ui_config.rs and process_key_bindings of               *)
(* cutty/src/input/keyboard.rs).  A binding is [key, location, mods, mode, *)
(* notmode, action]; an action that writes to the program is named "Esc".  *)
(* The bindings are those of platforms other than macOS and Windows.       *)
(***************************************************************************)
EXTENDS Keyboard

BindingModes == {"APP_CURSOR", "APP_KEYPAD", "ALT_SCREEN", "VI", "SEARCH",
                 "DISAMBIGUATE_ESC_CODES", "REPORT_ALL_KEYS_AS_ESC"}

(* BindingMode::new *)
BindingMode(mode, search) == (mode \intersect BindingModes) \union (IF search THEN {"SEARCH"} ELSE {})

(* <KeyLocation as PartialEq>::eq and From<WinitKeyLocation> *)
KeyLocation(location) == IF location \in {"Left", "Right"} THEN "Any" ELSE location
SameLocation(a, b) == a = "Any" \/ b = "Any" \/ a = b

(* Binding::is_triggered_by; the input is a [key, location]. *)
is_triggered_by(binding, mode, mods, input) ==
  /\ binding.key = input.key
  /\ SameLocation(binding.location, input.location)
  /\ binding.mods = mods
  /\ binding.mode \subseteq mode
  /\ mode \intersect binding.notmode = {}

(* Binding::triggers_match *)
triggers_match(a, b) ==
  /\ a.key = b.key /\ SameLocation(a.location, b.location) /\ a.mods = b.mods
  /\ a.mode = {} \/ b.mode = {} \/ a.mode \intersect b.mode # {}
  /\ a.mode \intersect b.notmode = {}
  /\ b.mode \intersect a.notmode = {}

(* deserialize_bindings *)
deserialize_bindings(bindings, default) ==
  bindings \o SelectSeq(default, LAMBDA b : \A i \in DOMAIN bindings : ~triggers_match(b, bindings[i]))

(* The macros bindings! and trigger!: a row is << key, action >>. *)
On(rows, location, mods, mode, notmode) ==
  [i \in DOMAIN rows |-> [key |-> rows[i][1], location |-> location, mods |-> mods, mode |-> mode,
                          notmode |-> notmode, action |-> rows[i][2]]]
Anywhere(rows, mods, mode, notmode) == On(rows, "Any", mods, mode, notmode)

Kitty == {"REPORT_ALL_KEYS_AS_ESC", "DISAMBIGUATE_ESC_CODES"}
UI == {"VI", "SEARCH"}
Vi(mods, rows) == Anywhere(rows, mods, {"VI"}, {"SEARCH"})

(* The first part of default_key_bindings: clipboard, scrolling and the keys
   that the program may ask for, which keyboard.rs does not build. *)
ProgramKeys ==
     Anywhere(<< << "Copy", "Copy" >> >>, {}, {}, {})
  \o Anywhere(<< << "Copy", "ClearSelection" >> >>, {}, {"VI"}, {})
  \o Anywhere(<< << "Paste", "Paste" >> >>, {}, {}, {"VI"})
  \o Anywhere(<< << "Paste", "Paste" >> >>, {}, UI, {})
  \o Anywhere(<< << "l", "ClearLogNotice" >>, << "l", "ReceiveChar" >> >>, {"CONTROL"}, {}, {})
  \o Anywhere(<< << "Home", "ScrollToTop" >>, << "End", "ScrollToBottom" >>, << "PageUp", "ScrollPageUp" >>,
            << "PageDown", "ScrollPageDown" >> >>, {"SHIFT"}, {}, {"ALT_SCREEN"})
  \o Anywhere(<< << "Home", "Esc" >>, << "End", "Esc" >>, << "ArrowUp", "Esc" >>, << "ArrowDown", "Esc" >>,
            << "ArrowRight", "Esc" >>, << "ArrowLeft", "Esc" >> >>, {}, {"APP_CURSOR"}, UI)
  \o Anywhere(<< << "F1", "Esc" >>, << "F2", "Esc" >>, << "F3", "Esc" >>, << "F4", "Esc" >> >>,
         {}, {}, UI \union Kitty)
  \o Anywhere(<< << "Tab", "Esc" >> >>, {"SHIFT"}, {}, UI \union Kitty)
  \o Anywhere(<< << "Tab", "Esc" >> >>, {"SHIFT", "ALT"}, {}, UI \union Kitty)
  \o Anywhere(<< << "Backspace", "Esc" >> >>, {}, {}, UI \union {"REPORT_ALL_KEYS_AS_ESC"})
  \o Anywhere(<< << "Backspace", "Esc" >> >>, {"ALT"}, {}, UI \union Kitty)
  \o Anywhere(<< << "Backspace", "Esc" >> >>, {"SHIFT"}, {}, UI \union Kitty)
  \o On(<< << "Enter", "Esc" >> >>, "Numpad", {}, {}, UI \union Kitty)

(* The bytes that an Esc binding writes. *)
EscBytes(binding) ==
  CASE binding.key \in DOMAIN Letters -> << 27, Code["O"], Code[Letters[binding.key]] >>
    [] binding.key = "Enter" -> << 10 >>
    [] OTHER -> (IF "ALT" \in binding.mods THEN << 27 >> ELSE << >>)
                \o (IF binding.key = "Tab" THEN << 27, Code["["], Code["Z"] >> ELSE << 127 >>)

(* The vi mode part of default_key_bindings. *)
ViKeys ==
     Anywhere(<< << "Space", "ToggleViMode" >> >>, {"SHIFT", "CONTROL"}, {}, {"SEARCH"})
  \o Vi({"SHIFT", "CONTROL"}, << << "Space", "ScrollToBottom" >> >>)
  \o Vi({}, << << "Escape", "ClearSelection" >>, << "i", "ToggleViMode" >>, << "i", "ScrollToBottom" >>,
               << "g", "ScrollToTop" >>, << "y", "Copy" >>, << "y", "ClearSelection" >>,
               << "/", "SearchForward" >>, << "v", "ToggleNormalSelection" >>, << "n", "SearchNext" >>,
               << "Enter", "Open" >>, << "z", "CenterAroundViCursor" >>, << "f", "InlineSearchForward" >>,
               << "t", "InlineSearchForwardShort" >>, << ";", "InlineSearchNext" >>,
               << ",", "InlineSearchPrevious" >>, << "k", "Up" >>, << "j", "Down" >>, << "h", "Left" >>,
               << "l", "Right" >>, << "ArrowUp", "Up" >>, << "ArrowDown", "Down" >>,
               << "ArrowLeft", "Left" >>, << "ArrowRight", "Right" >>, << "0", "First" >>,
               << "Home", "First" >>, << "End", "Last" >>, << "b", "SemanticLeft" >>,
               << "w", "SemanticRight" >>, << "e", "SemanticRightEnd" >> >>)
  \o Vi({"CONTROL"}, << << "c", "ToggleViMode" >>, << "y", "ScrollLineUp" >>, << "e", "ScrollLineDown" >>,
               << "b", "ScrollPageUp" >>, << "f", "ScrollPageDown" >>, << "u", "ScrollHalfPageUp" >>,
               << "d", "ScrollHalfPageDown" >>, << "v", "ToggleBlockSelection" >> >>)
  \o Vi({"ALT"}, << << "v", "ToggleSemanticSelection" >> >>)
  \o Vi({"SHIFT"}, << << "g", "ScrollToBottom" >>, << "?", "SearchBackward" >>,
               << "y", "ToggleNormalSelection" >>, << "y", "Last" >>, << "y", "Copy" >>,
               << "y", "ClearSelection" >>, << "v", "ToggleLineSelection" >>, << "n", "SearchPrevious" >>,
               << "f", "InlineSearchBackward" >>, << "t", "InlineSearchBackwardShort" >>,
               << "*", "SemanticSearchForward" >>, << "#", "SemanticSearchBackward" >>,
               << "$", "Last" >>, << "^", "FirstOccupied" >>, << "h", "High" >>, << "m", "Middle" >>,
               << "l", "Low" >>, << "b", "WordLeft" >>, << "w", "WordRight" >>, << "e", "WordRightEnd" >>,
               << "%", "Bracket" >>, << "{", "ParagraphUp" >>, << "}", "ParagraphDown" >> >>)
  \o Anywhere(<< << "Enter", "SearchConfirm" >> >>, {}, UI, {})

(* The search part of default_key_bindings. *)
SearchKeys ==
     Anywhere(<< << "Escape", "SearchCancel" >>, << "ArrowUp", "SearchHistoryPrevious" >>,
            << "ArrowDown", "SearchHistoryNext" >> >>, {}, {"SEARCH"}, {})
  \o Anywhere(<< << "c", "SearchCancel" >>, << "u", "SearchClear" >>, << "w", "SearchDeleteWord" >>,
            << "p", "SearchHistoryPrevious" >>, << "n", "SearchHistoryNext" >> >>,
         {"CONTROL"}, {"SEARCH"}, {})
  \o Anywhere(<< << "Enter", "SearchFocusNext" >> >>, {}, {"SEARCH"}, {"VI"})
  \o Anywhere(<< << "Enter", "SearchFocusPrevious" >> >>, {"SHIFT"}, {"SEARCH"}, {"VI"})

(* common_keybindings *)
common_keybindings ==
     Anywhere(<< << "v", "Paste" >> >>, {"CONTROL", "SHIFT"}, {}, {"VI"})
  \o Anywhere(<< << "v", "Paste" >> >>, {"CONTROL", "SHIFT"}, UI, {})
  \o Anywhere(<< << "f", "SearchForward" >>, << "b", "SearchBackward" >> >>, {"CONTROL", "SHIFT"}, {}, {"SEARCH"})
  \o Anywhere(<< << "Insert", "PasteSelection" >> >>, {"SHIFT"}, {}, {"VI"})
  \o Anywhere(<< << "c", "Copy" >> >>, {"CONTROL", "SHIFT"}, {}, {})
  \o Vi({"CONTROL", "SHIFT"}, << << "c", "ClearSelection" >> >>)
  \o Anywhere(<< << "0", "ResetFontSize" >>, << "=", "IncreaseFontSize" >>, << "+", "IncreaseFontSize" >>,
            << "-", "DecreaseFontSize" >> >>, {"CONTROL"}, {}, {})
  \o On(<< << "+", "IncreaseFontSize" >>, << "-", "DecreaseFontSize" >> >>, "Numpad", {"CONTROL"}, {}, {})

default_key_bindings == ProgramKeys \o ViKeys \o SearchKeys \o common_keybindings

(* Processor::process_key_bindings: the key as bindings name it; the bindings that
   run, in this order; and the character goes on if one of them is ReceiveChar. *)
Trigger(key, mods) ==
  LET logical == logical_key(key, mods)
  IN  [key |-> IF IsCharacter(key) THEN to_lowercase(logical) ELSE logical, location |-> KeyLocation(key.location)]
Triggered(bindings, mode, mods, key) ==
  LET input == Trigger(key, mods)
  IN  SelectSeq(bindings, LAMBDA b : is_triggered_by(b, mode, mods, input))
process_key_bindings(triggered) == triggered # << >> /\ \A i \in DOMAIN triggered : triggered[i].action # "ReceiveChar"

(* Processor::key_input, with no preedit text, hint or inline search: all that
   a press writes to the program.  A paste in search mode goes to the search. *)
Writes(binding, search) ==
  \/ binding.action = "Esc"
  \/ binding.action \in {"Paste", "PasteSelection"} /\ ~search
key_input(key, mods, mode, search, state) ==
  LET triggered == Triggered(default_key_bindings, BindingMode(mode, search), mods, key)
      writers   == SelectSeq(triggered, LAMBDA b : Writes(b, search))
      typed     == IF process_key_bindings(triggered) \/ search \/ "VI" \in mode THEN Nothing
                   ELSE KeyPressed(key, mods, mode, state)
  IN  IF writers = << >> THEN typed
      ELSE IF writers[1].action = "Esc" THEN [groups |-> << EscBytes(writers[1]) >>, terminator |-> "text"]
      ELSE [groups |-> << >>, terminator |-> writers[1].action]
===============================================================================
