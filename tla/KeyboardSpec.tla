---------------------------- MODULE KeyboardSpec -----------------------------
(***************************************************************************)
(* The keyboard under every combination of modes that the program (kitty   *)
(* flags, application cursor, alternate screen) and the user (vi mode,     *)
(* search) may set.                                                        *)
(***************************************************************************)
EXTENDS Bindings, FiniteSets

CONSTANTS Keys, KeyModifiers,
          UserBindings  \* what the user may bind

VARIABLES keyModes,   \* TermMode, as far as keys depend on it
          searching,  \* whether a search is active
          hasFocus    \* whether the window has the keyboard focus

keyboardVars == << keyModes, searching, hasFocus >>

ProgramModes == {"REPORT_ALL_KEYS_AS_ESC", "DISAMBIGUATE_ESC_CODES", "REPORT_EVENT_TYPES",
                 "REPORT_ALTERNATE_KEYS", "REPORT_ASSOCIATED_TEXT", "APP_CURSOR", "ALT_SCREEN"}

KeyboardInit == keyModes = {} /\ searching = FALSE /\ hasFocus = FALSE

(* The program sets or unsets a mode. *)
SetMode == \E m \in ProgramModes : keyModes' = (keyModes \ {m}) \union ({m} \ keyModes) /\ UNCHANGED << searching, hasFocus >>
(* The user enters or leaves vi mode, a search. *)
ToggleVi == keyModes' = (keyModes \ {"VI"}) \union ({"VI"} \ keyModes) /\ UNCHANGED << searching, hasFocus >>
ToggleSearch == searching' = ~searching /\ UNCHANGED << keyModes, hasFocus >>
(* The window gets and loses the focus. *)
Focus == hasFocus' = ~hasFocus /\ UNCHANGED << keyModes, searching >>

KeyboardNext == SetMode \/ ToggleVi \/ ToggleSearch \/ Focus
KeyboardSpec == KeyboardInit /\ [][KeyboardNext]_keyboardVars

States == {"Pressed", "Repeat", "Released"}
Events == {<< key, mods, state >> : key \in Keys, mods \in SUBSET KeyModifiers, state \in States}
Sent(e) == IF e[3] = "Released" THEN key_release(e[1], e[2], keyModes) ELSE key_input(e[1], e[2], keyModes, FALSE, e[3])

(* What a sequence is meant to tell of an event: a modifier key sets its own
   modifier, and the xterm sequences do not tell the keys of the numpad apart. *)
Canonical(e) ==
  << IF kitty_seq(keyModes) THEN e[1] ELSE [e[1] EXCEPT !.location = "Standard"],
     e[2] \ OwnModifier(e[1]),
     IF "REPORT_EVENT_TYPES" \in keyModes THEN e[3] ELSE "Pressed" >>

(* No two keys, or the same key with other modifiers or another event, are told to
   the program by the same escape sequence; once the program has asked for
   disambiguation, what is sent as text was typed with shift at most, and a control
   character is sent as text only for Enter, Tab and Backspace without modifiers;
   once it has asked for all keys, nothing is sent as text but by a binding.
   build_sequence, should_build_sequence and the default bindings agree on this. *)
Unambiguous ==
  hasFocus /\ "VI" \notin keyModes /\ ~searching =>
    \E sent \in {[e \in Events |-> Sent(e)]} :
      LET escapes == {e \in Events : sent[e].terminator \notin {"text", "none", "Paste", "PasteSelection"}}
      IN  /\ Cardinality({sent[e] : e \in escapes}) = Cardinality({Canonical(e) : e \in escapes})
          /\ "DISAMBIGUATE_ESC_CODES" \in keyModes =>
               \A e \in Events :
                 sent[e].terminator = "text" /\ sent[e].groups[1][1] # 27 =>
                   /\ e[2] \subseteq {"SHIFT"}
                   /\ is_control_character(sent[e].groups[1]) =>
                        e[2] = {} /\ e[1].name \in {"Enter", "Tab", "Backspace"}
          /\ "REPORT_ALL_KEYS_AS_ESC" \in keyModes =>
               \A e \in Events : sent[e].terminator = "text" => "APP_CURSOR" \in keyModes /\ e[1].name \in DOMAIN Letters

(* While vi mode or a search takes the keys, no key writes to the program: a default
   binding that writes excludes both modes (bindings.rs), a paste goes to the search
   and key_input returns before a sequence is built. *)
KeysStayInTheUI ==
  hasFocus /\ (searching \/ "VI" \in keyModes) =>
    \A key \in Keys, mods \in SUBSET KeyModifiers :
      key_input(key, mods, keyModes, searching, "Pressed").terminator = "none"

(* A binding of the user takes the place of the defaults that would run together with
   it in some mode, and of no other: deserialize_bindings drops no default binding
   that can never meet the user's. *)
UserBindingsReplaceRivals ==
  hasFocus /\ keyModes = {} /\ ~searching =>
    \A user \in UserBindings, i \in DOMAIN default_key_bindings :
      LET b == default_key_bindings[i]
      IN  ~Contains(deserialize_bindings(<< user >>, default_key_bindings), b) =>
            /\ b.key = user.key /\ b.mods = user.mods
            /\ \E m \in SUBSET BindingModes :
                 \A x \in {b, user} : x.mode \subseteq m /\ m \intersect x.notmode = {}

(* KeyboardInv: in every combination of modes a key means one thing: to the program, or
   to the UI, by the binding of the user before the default. *)
KeyboardInv == Unambiguous /\ KeysStayInTheUI /\ UserBindingsReplaceRivals
===============================================================================
