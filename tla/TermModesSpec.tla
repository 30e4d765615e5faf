---------------------------- MODULE TermModesSpec ----------------------------
(***************************************************************************)
(* A program that sets and reads the modes, stacks and attributes of a     *)
(* terminal, under options that are reloaded and with a user who toggles   *)
(* vi mode and a renderer that draws.                                      *)
(***************************************************************************)
EXTENDS TermModes

CONSTANTS Titles, Styles,   \* titles and cursor styles a program sets
          Keyboards,        \* keyboard modes it pushes, sets and unsets
          SomeModes,        \* private modes it sets, of those with one pattern a few
          SomeAttrs,        \* attributes it sets
          Configs,          \* options of the terminal
          MaxBusy           \* bound on what differs from a new terminal at a time

Modes == DOMAIN PrivateFlag \union {"BlinkingCursor", "ColumnMode", "SyncUpdate", "Unknown"}
Attrs == DOMAIN InsertedBy \union DOMAIN RemovedBy \union {"Reset"}
CursorStyles == [shape : {"Block", "Underline", "Beam", "HollowBlock", "Hidden"}, blinking : BOOLEAN]

ASSUME TermModesSpecAssumption ==
  /\ None \notin CursorStyles /\ Styles \subseteq CursorStyles
  /\ Keyboards \subseteq SUBSET KittyModes /\ SomeModes \subseteq Modes /\ SomeAttrs \subseteq Attrs
  /\ Configs \subseteq [kitty : BOOLEAN, osc52 : {"Disabled", "OnlyCopy", "OnlyPaste", "CopyPaste"},
                        style : CursorStyles, viStyle : CursorStyles \union {None}]

VARIABLE term

Init == \E config \in Configs : term = new_term(config)

PublicModes == DOMAIN PublicFlag \union {"Unknown"}

(* The bound of the model. *)
Busy(t) ==
  Cardinality((t.mode \ DefaultMode) \union (DefaultMode \ t.mode)) + Len(t.keyboard)
    + Len(t.inactive) + Len(t.titles) + (IF t.title = None THEN 0 ELSE 1)
    + (IF t.style = None THEN 0 ELSE 1) + Cardinality(t.cursor.template)
    + Cardinality(t.other.template) + Cardinality(t.colors)
    + (IF t.cursor.charsets = t.other.charsets THEN 0 ELSE 1) + (IF t.charset = "G0" THEN 0 ELSE 1)

(* One handler runs under the lock of the terminal; what the one before it sent
   is in the UI's queue.  A handler sends one event at most, and answers to
   queries are not kept. *)
Now == [term EXCEPT !.sent = <<>>]
IsNotice(event) == event[1] \in {"CursorBlinkingChange", "MouseCursorDirty", "Title", "ResetTitle"}
Step(t) ==
  /\ ~term.panicked
  /\ Busy(t) <= MaxBusy
  /\ term' = [t EXCEPT !.sent = IF @ # <<>> /\ IsNotice(@[1]) THEN @ ELSE <<>>]

PrivateMode ==
  \E mode \in SomeModes : \/ Step(set_private_mode(Now, mode))
                          \/ Step(unset_private_mode(Now, mode))
                          \/ Step(report_private_mode(Now, mode))
PublicMode ==
  \E mode \in PublicModes : \/ Step(set_mode(Now, mode))
                            \/ Step(unset_mode(Now, mode))
                            \/ Step(report_mode(Now, mode))
Keyboard ==
  \/ Step(report_keyboard_mode(Now))
  \/ \E n \in {1, MaxStackDepth + 1} : Step(pop_keyboard_modes(Now, n))
  \/ \E mode \in Keyboards : \/ Step(push_keyboard_mode(Now, mode))
                             \/ \E apply \in {"Replace", "Union", "Difference"} :
                                  Step(set_keyboard_mode(Now, mode, apply))
Keypad == Step(set_keypad_application_mode(Now)) \/ Step(unset_keypad_application_mode(Now))
Title ==
  \/ \E title \in Titles \union {None} : Step(set_title(Now, title))
  \/ Step(push_title(Now))
  \/ Step(pop_title(Now))
Style ==
  \/ \E style \in Styles \union {None} : Step(set_cursor_style(Now, style))
  \/ \E style \in Styles : Step(set_cursor_shape(Now, style.shape))
Attributes ==
  \/ \E attr \in SomeAttrs : Step(terminal_attribute(Now, attr))
  \/ \E on \in BOOLEAN : Step(set_hyperlink(Now, on))
  \/ \E charset \in {"Ascii", "LineDrawing"} : Step(configure_charset(Now, "G1", charset))
  \/ \E index \in {"G0", "G1"} : Step(set_active_charset(Now, index))
Color ==
  \E index \in {"Cursor", "Red"} : \/ Step(set_color(Now, index)) \/ Step(reset_color(Now, index))
                                   \/ Step(dynamic_color_sequence(Now, index))
Clipboard ==
  \E clipboard \in {"c", "p", "x"} : \/ Step(clipboard_store(Now, clipboard))
                                     \/ Step(clipboard_load(Now, clipboard))
Query ==
  \/ \E intermediate \in {"none", ">", "="} : Step(identify_terminal(Now, intermediate))
  \/ \E arg \in {5, 6, 7} : Step(device_status(Now, arg))
  \/ \E unit \in {"pixels", "chars"} : Step(text_area_size(Now, unit))
  \/ Step(bell(Now))
Reset == Step(reset_state(Now))
SetOptions == \E config \in Configs : Step(set_options(Now, config))
ToggleVi == Step(toggle_vi_mode(Now))
Draw == term.damaged /\ Step([Now EXCEPT !.damaged = FALSE])

Next ==
  \/ PrivateMode \/ PublicMode \/ Keyboard \/ Keypad \/ Title \/ Style \/ Attributes
  \/ Color \/ Clipboard \/ Query \/ Reset \/ SetOptions \/ ToggleVi \/ Draw

Spec == Init /\ [][Next]_term
-------------------------------------------------------------------------------
(* TypeOK: the title stack keeps to its maximum depth. *)
TypeOK ==
  /\ Len(term.titles) <= MaxStackDepth
  /\ \A i \in DOMAIN term.keyboard : term.keyboard[i] \subseteq KittyModes
  /\ term.style # None => DOMAIN term.style = {"shape", "blinking"}

(* ReportsWhatWasSet: a program that sets or unsets a mode, in whatever state
   the terminal is, and asks for it reads what it wrote; the modes without a
   state of their own are reported the same in both cases. *)
Answer(t) == t.sent[Len(t.sent)][3]
ReportsWhatWasSet ==
  /\ \A mode \in Modes :
       <<Answer(report_private_mode(set_private_mode(Now, mode), mode)),
         Answer(report_private_mode(unset_private_mode(Now, mode), mode))>>
       = CASE mode = "SyncUpdate" -> <<"Reset", "Reset">>
           [] mode \in {"ColumnMode", "Unknown"} -> <<"NotSupported", "NotSupported">>
           [] OTHER -> <<"Set", "Reset">>
  /\ \A mode \in DOMAIN PublicFlag :
       /\ Answer(report_mode(set_mode(Now, mode), mode)) = "Set"
       /\ Answer(report_mode(unset_mode(Now, mode), mode)) = "Reset"

(* OneOfEach: however modes and attributes are set, unset, saved with a screen
   and brought back, there is at most one mouse protocol, one mouse encoding
   and one underline. *)
OneOfEach ==
  \A some \in {term.mode \intersect MouseModes, term.mode \intersect MouseEncodings,
               term.cursor.template \intersect Underlines,
               term.other.template \intersect Underlines} : Cardinality(some) <= 1

(* NoKittyWhenOff: with the kitty protocol off in the options, no keyboard mode
   is active and none can come back from the stack of either screen. *)
NoKittyWhenOff ==
  ~term.config.kitty =>
    term.mode \intersect KittyModes = {} /\ term.keyboard = <<>> /\ term.inactive = <<>>

(* TellsTheUI: the UI is sent an event whenever the cursor begins or ceases to
   blink, the mouse mode changes or the title changes; new options are its own
   doing, and a reset tells of the blinking only. *)
Sent(t, name) == \E i \in DOMAIN t.sent : t.sent[i][1] = name
TellsTheUI ==
  [][term'.config = term.config =>
       /\ cursor_style(term).blinking # cursor_style(term').blinking
            => Sent(term', "CursorBlinkingChange")
       /\ ~Reset => /\ term.mode \intersect MouseModes # term'.mode \intersect MouseModes
                         => Sent(term', "MouseCursorDirty")
                    /\ term.title # term'.title
                         => Sent(term', IF term'.title = None THEN "ResetTitle" ELSE "Title")]_term

(* KeyboardStackBounded: "Max size of the keyboard modes." *)
KeyboardStackBounded == Len(term.keyboard) <= MaxStackDepth /\ ~term.panicked

(* ModesInv: after any sequence of sets, resets, pushes, pops, screen switches
   and new options, modes are reported as they were set, rivals exclude each
   other, and what the options turn off stays off on both screens. *)
ModesInv == TypeOK /\ ReportsWhatWasSet /\ OneOfEach /\ NoKittyWhenOff
===============================================================================
