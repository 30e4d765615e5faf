------------------------------ MODULE Keyboard -------------------------------
(***************************************************************************)
(* What a key press, repeat or release sends to the program                *)
(* (cutty/src/input/keyboard.rs): the text of the key, or an escape        *)
(* sequence of xterm or of the kitty keyboard protocol.                    *)
(*                                                                         *)
(* A key is [name, shifted, location].  The name is a character for a key  *)
(* that types one, and then `shifted` is the character it types with       *)
(* shift; any other name is that of a NamedKey.  A sequence is             *)
(* [groups, terminator]: ESC [, the groups of parameters, separated by `;` *)
(* (`:` inside a group), and the terminator.  Text is a group of code      *)
(* points with the terminator "text".                                      *)
(***************************************************************************)
EXTENDS Integers, Sequences, SequencesExt

Ascii ==
  << " ", "!", "\"", "#", "$", "%", "&", "'", "(", ")", "*", "+", ",", "-", ".", "/",
     "0", "1", "2", "3", "4", "5", "6", "7", "8", "9", ":", ";", "<", "=", ">", "?",
     "@", "A", "B", "C", "D", "E", "F", "G", "H", "I", "J", "K", "L", "M", "N", "O",
     "P", "Q", "R", "S", "T", "U", "V", "W", "X", "Y", "Z", "[", "\\", "]", "^", "_",
     "grave", "a", "b", "c", "d", "e", "f", "g", "h", "i", "j", "k", "l", "m", "n", "o",
     "p", "q", "r", "s", "t", "u", "v", "w", "x", "y", "z", "{", "|", "}", "~" >>
Characters == ToSet(Ascii)
Code == [c \in Characters |-> 31 + CHOOSE i \in 1 .. Len(Ascii) : Ascii[i] = c]
to_lowercase(c) == IF Code[c] \in 65 .. 90 THEN Ascii[Code[c] + 1] ELSE c

FKeys == << "F1", "F2", "F3", "F4", "F5", "F6", "F7", "F8", "F9", "F10", "F11", "F12",
            "F13", "F14", "F15", "F16", "F17", "F18", "F19", "F20", "F21", "F22", "F23", "F24",
            "F25", "F26", "F27", "F28", "F29", "F30", "F31", "F32", "F33", "F34", "F35" >>

(* NamedKey::to_text, KeyEvent::logical_key and text_with_all_modifiers: control
   turns a letter into a control character. *)
to_text == [Tab |-> 9, Enter |-> 13, Escape |-> 27, Space |-> 32, Backspace |-> 8]
IsCharacter(key) == key.name \in Characters
logical_key(key, mods) ==
  IF IsCharacter(key) /\ "SHIFT" \in mods THEN key.shifted ELSE key.name
Text(key, mods) ==
  IF IsCharacter(key)
    THEN LET c == logical_key(key, mods)
         IN  << IF "CONTROL" \in mods /\ Code[c] \in 64 .. 126 THEN Code[c] % 32 ELSE Code[c] >>
  ELSE IF key.name \in DOMAIN to_text THEN << to_text[key.name] >>
  ELSE << >>

(* SequenceModifiers::encode_esc_sequence *)
encode_esc_sequence(mods) ==
  1 + (IF "SHIFT" \in mods THEN 1 ELSE 0) + (IF "ALT" \in mods THEN 2 ELSE 0)
    + (IF "CONTROL" \in mods THEN 4 ELSE 0) + (IF "SUPER" \in mods THEN 8 ELSE 0)

(* is_control_character *)
is_control_character(text) == Len(text) = 1 /\ (text[1] < 32 \/ text[1] \in 127 .. 159)

Base(payload, terminator) == [payload |-> payload, terminator |-> terminator]
None == Base(<< >>, "none")
IsBase(base) == base.terminator # "none"

kitty_seq(mode) ==
  mode \intersect {"REPORT_ALL_KEYS_AS_ESC", "DISAMBIGUATE_ESC_CODES", "REPORT_EVENT_TYPES"} # {}
kitty_event_type(mode, state) == "REPORT_EVENT_TYPES" \in mode /\ state \in {"Repeat", "Released"}

(* SequenceBuilder::try_build_numpad *)
NumpadNamed ==
  [Enter |-> 57414, ArrowLeft |-> 57417, ArrowRight |-> 57418, ArrowUp |-> 57419,
   ArrowDown |-> 57420, PageUp |-> 57421, PageDown |-> 57422, Home |-> 57423,
   End |-> 57424, Insert |-> 57425, Delete |-> 57426]
NumpadCharacters == << "0", "1", "2", "3", "4", "5", "6", "7", "8", "9", ".", "/", "*", "-", "+" >>
try_build_numpad(key, mods, mode) ==
  LET logical == logical_key(key, mods)
  IN  CASE ~kitty_seq(mode) \/ key.location # "Numpad" -> None
        [] logical \in DOMAIN NumpadNamed -> Base(<< NumpadNamed[logical] >>, "u")
        [] logical = "=" -> Base(<< 57415 >>, "u")
        [] Contains(NumpadCharacters, logical) ->
             Base(<< 57398 + SelectInSeq(NumpadCharacters, LAMBDA c : c = logical) >>, "u")
        [] OTHER -> None

(* Mutant of try_build_named_kitty: F3 keeps the terminator of the kitty keys,
   and so the sequence of Enter. *)
try_build_named_kitty_F3(key, mode) ==
  IF kitty_seq(mode) /\ key.name = "F3" THEN Base(<< 13 >>, "u") ELSE None

(* SequenceBuilder::try_build_named_kitty *)
KittyNamed ==
  [ScrollLock |-> 57359, PrintScreen |-> 57361, Pause |-> 57362, ContextMenu |-> 57363,
   MediaPlay |-> 57428, MediaPause |-> 57429, MediaPlayPause |-> 57430, MediaStop |-> 57432,
   MediaFastForward |-> 57433, MediaRewind |-> 57434, MediaTrackNext |-> 57435,
   MediaTrackPrevious |-> 57436, MediaRecord |-> 57437, AudioVolumeDown |-> 57438,
   AudioVolumeUp |-> 57439, AudioVolumeMute |-> 57440]
try_build_named_kitty(key, mode) ==
  LET f == SelectInSeq(FKeys, LAMBDA n : n = key.name)
  IN  CASE ~kitty_seq(mode) -> None
        [] f = 3 -> Base(<< 13 >>, "~")
        [] f >= 13 -> Base(<< 57363 + f >>, "u")
        [] key.name \in DOMAIN KittyNamed -> Base(<< KittyNamed[key.name] >>, "u")
        [] OTHER -> None

(* SequenceBuilder::try_build_named_normal *)
Letters == [Home |-> "H", End |-> "F", ArrowLeft |-> "D", ArrowRight |-> "C", ArrowUp |-> "A",
            ArrowDown |-> "B", F1 |-> "P", F2 |-> "Q", F3 |-> "R", F4 |-> "S"]
Numbers == [PageUp |-> 5, PageDown |-> 6, Insert |-> 2, Delete |-> 3]
FNumbers == << 0, 0, 0, 0, 15, 17, 18, 19, 20, 21, 23, 24, 25, 26, 28, 29, 31, 32, 33, 34 >>
try_build_named_normal(key, mods, mode, state, associated_text) ==
  LET one_based == IF mods = {} /\ ~kitty_event_type(mode, state) /\ associated_text = << >>
                     THEN << >> ELSE << 1 >>
      f == SelectInSeq(FKeys, LAMBDA n : n = key.name)
  IN  CASE key.name \in DOMAIN Letters -> Base(one_based, Letters[key.name])
        [] key.name \in DOMAIN Numbers -> Base(<< Numbers[key.name] >>, "~")
        [] f \in 5 .. 20 -> Base(<< FNumbers[f] >>, "~")
        [] OTHER -> None

(* SequenceBuilder::try_build_control_char_or_mod *)
Controls == [Tab |-> 9, Enter |-> 13, Escape |-> 27, Space |-> 32, Backspace |-> 127]
ModifierKeys == << "Shift", "Control", "Alt", "Super", "Hyper", "Meta" >>
Locks == [CapsLock |-> 57358, NumLock |-> 57360]
try_build_control_char_or_mod(key, mode) ==
  LET m == SelectInSeq(ModifierKeys, LAMBDA n : n = key.name)
  IN  CASE key.name \in DOMAIN Controls /\ kitty_seq(mode) -> Base(<< Controls[key.name] >>, "u")
        [] "REPORT_ALL_KEYS_AS_ESC" \notin mode -> None
        [] m > 0 -> Base(<< (IF key.location = "Left" THEN 57440 ELSE 57446) + m >>, "u")
        [] key.name \in DOMAIN Locks -> Base(<< Locks[key.name] >>, "u")
        [] OTHER -> None

(* The modifiers it leaves: those of a modifier key are set from the key itself. *)
OwnModifier(key) ==
  CASE key.name = "Shift" -> {"SHIFT"} [] key.name = "Control" -> {"CONTROL"}
    [] key.name = "Alt" -> {"ALT"} [] key.name = "Super" -> {"SUPER"} [] OTHER -> {}
SequenceMods(key, mods, mode, state) ==
  IF "REPORT_ALL_KEYS_AS_ESC" \notin mode THEN mods
  ELSE IF state = "Released" THEN mods \ OwnModifier(key) ELSE mods \union OwnModifier(key)

(* SequenceBuilder::try_build_textual *)
try_build_textual(key, mods, mode) ==
  LET ch == logical_key(key, mods)
      unicode == IF "SHIFT" \notin mods THEN ch
                 ELSE IF to_lowercase(ch) # ch THEN to_lowercase(ch) ELSE key.name
  IN  CASE ~(IsCharacter(key) /\ kitty_seq(mode)) -> None
        [] "REPORT_ALTERNATE_KEYS" \in mode /\ ch # unicode -> Base(<< Code[unicode], Code[ch] >>, "u")
        [] OTHER -> Base(<< Code[unicode] >>, "u")

Nothing == [groups |-> << >>, terminator |-> "none"]

(* build_sequence *)
build_sequence(key, mods, mode, state) ==
  LET text == Text(key, mods)
      associated_text ==
        IF /\ "REPORT_ASSOCIATED_TEXT" \in mode /\ state # "Released"
           /\ text # << >> /\ ~is_control_character(text)
          THEN text ELSE << >>
      tries == << try_build_numpad(key, mods, mode),
                  try_build_named_kitty(key, mode),
                  try_build_named_normal(key, mods, mode, state, associated_text),
                  try_build_control_char_or_mod(key, mode),
                  try_build_textual(key, mods, mode) >>
      found  == SelectInSeq(tries, IsBase)
      modifiers == IF found = 4 THEN SequenceMods(key, mods, mode, state) ELSE mods
      event  == IF ~kitty_event_type(mode, state) THEN << >>
                ELSE IF state = "Repeat" THEN << 2 >> ELSE << 3 >>
      second == IF event # << >> \/ modifiers # {} \/ associated_text # << >>
                  THEN << << encode_esc_sequence(modifiers) >> \o event >> ELSE << >>
      third  == IF associated_text # << >> THEN << associated_text >> ELSE << >>
  IN  IF found = 0 THEN Nothing
      ELSE [groups |-> << tries[found].payload >> \o second \o third,
            terminator |-> tries[found].terminator]

(* Processor::alt_send_esc, off macOS; the modifiers that it leaves. *)
AltSendEsc(key, mods) == IF IsCharacter(key) /\ Len(Text(key, mods)) # 1 THEN mods \ {"ALT"} ELSE mods

(* Processor::should_build_sequence *)
should_build_sequence(key, mods, mode) ==
  \/ "REPORT_ALL_KEYS_AS_ESC" \in mode
  \/ /\ "DISAMBIGUATE_ESC_CODES" \in mode
     /\ \/ key.name = "Escape"
        \/ key.location = "Numpad"
        \/ mods # {} /\ (mods # {"SHIFT"} \/ key.name \in {"Tab", "Enter", "Backspace"})
  \/ Text(key, mods) = << >>

(* The end of Processor::key_input: what a press or a repeat writes. *)
KeyPressed(key, modifiers, mode, state) ==
  LET mods == AltSendEsc(key, modifiers)
  IN  IF should_build_sequence(key, mods, mode) THEN build_sequence(key, mods, mode, state)
      ELSE [groups |-> << (IF "ALT" \in mods THEN << 27 >> ELSE << >>) \o Text(key, mods) >>,
            terminator |-> "text"]

(* Processor::key_release, once no vi mode, search or hint keeps the key. *)
key_release(key, modifiers, mode) ==
  IF \/ "REPORT_EVENT_TYPES" \notin mode
     \/ key.name \in {"Enter", "Tab", "Backspace"} /\ "REPORT_ALL_KEYS_AS_ESC" \notin mode
    THEN Nothing
    ELSE build_sequence(key, AltSendEsc(key, modifiers), mode, "Released")
===============================================================================
