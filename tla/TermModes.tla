------------------------------ MODULE TermModes ------------------------------
(***************************************************************************)
(* The modes, stacks and attributes of the terminal, and the handlers that *)
(* set and report them (cutty_terminal/src/term/mod.rs).                   *)
(*                                                                         *)
(* A terminal is [mode, keyboard, inactive, title, titles, style, cursor,  *)
(* other, charset, colors, config, damaged, sent, panicked]: the TermMode  *)
(* flags, the keyboard mode stacks of the active and the other screen, the *)
(* title and its stack, the cursor style, what the cursor of each screen   *)
(* writes with, the active charset, the colors that were set, the options, *)
(* whether everything is damaged, the events the last handler sent to the  *)
(* UI, and whether it panicked.                                            *)
(***************************************************************************)
EXTENDS Naturals, Sequences, FiniteSets

CONSTANTS None,            \* Rust's None
          MaxStackDepth    \* TITLE_STACK_MAX_DEPTH and KEYBOARD_MODE_STACK_MAX_DEPTH

ASSUME TermModesAssumption == MaxStackDepth \in Nat \ {0}

MouseModes == {"MOUSE_REPORT_CLICK", "MOUSE_MOTION", "MOUSE_DRAG"}
MouseEncodings == {"SGR_MOUSE", "UTF8_MOUSE"}
KittyModes == {"DISAMBIGUATE_ESC_CODES", "REPORT_EVENT_TYPES", "REPORT_ALTERNATE_KEYS",
               "REPORT_ALL_KEYS_AS_ESC", "REPORT_ASSOCIATED_TEXT"}
Underlines == {"UNDERLINE", "DOUBLE_UNDERLINE", "UNDERCURL", "DOTTED_UNDERLINE", "DASHED_UNDERLINE"}
DefaultMode == {"SHOW_CURSOR", "LINE_WRAP", "ALTERNATE_SCROLL", "URGENCY_HINTS"}

(* The flag of each private and public mode that has one. *)
PrivateFlag ==
  [UrgencyHints |-> "URGENCY_HINTS", ShowCursor |-> "SHOW_CURSOR", CursorKeys |-> "APP_CURSOR",
   ReportMouseClicks |-> "MOUSE_REPORT_CLICK", ReportCellMouseMotion |-> "MOUSE_DRAG",
   ReportAllMouseMotion |-> "MOUSE_MOTION", ReportFocusInOut |-> "FOCUS_IN_OUT",
   BracketedPaste |-> "BRACKETED_PASTE", SgrMouse |-> "SGR_MOUSE", Utf8Mouse |-> "UTF8_MOUSE",
   AlternateScroll |-> "ALTERNATE_SCROLL", LineWrap |-> "LINE_WRAP", Origin |-> "ORIGIN",
   SwapScreenAndSetRestoreCursor |-> "ALT_SCREEN"]
PublicFlag == [Insert |-> "INSERT", LineFeedNewLine |-> "LINE_FEED_NEW_LINE"]

(* Term::new *)
NewCursor == [template |-> {}, charsets |-> [G0 |-> "Ascii", G1 |-> "Ascii"]]
new_term(config) ==
  [mode |-> DefaultMode, keyboard |-> <<>>, inactive |-> <<>>, title |-> None, titles |-> <<>>,
   style |-> None, cursor |-> NewCursor, other |-> NewCursor, charset |-> "G0", colors |-> {},
   config |-> config, damaged |-> TRUE, sent |-> <<>>, panicked |-> FALSE]

Send(t, event) == [t EXCEPT !.sent = Append(@, event)]
mark_fully_damaged(t) == [t EXCEPT !.damaged = TRUE]
Insert(t, flags) == [t EXCEPT !.mode = @ \union flags]
Remove(t, flags) == [t EXCEPT !.mode = @ \ flags]
Top(stack) == IF stack = <<>> THEN {} ELSE stack[Len(stack)]

(* Term::cursor_style; get_or_insert makes the default style the own one. *)
StyleOrDefault(t) == IF t.style = None THEN t.config.style ELSE t.style
cursor_style(t) ==
  IF "VI" \in t.mode /\ t.config.viStyle # None THEN t.config.viStyle ELSE StyleOrDefault(t)

(* Term::set_keyboard_mode *)
ApplyKeyboardMode(t, mode, apply) ==
  LET active == t.mode \intersect KittyModes
  IN  Insert(Remove(t, KittyModes), CASE apply = "Replace"    -> mode
                                      [] apply = "Union"      -> active \union mode
                                      [] apply = "Difference" -> active \ mode)

(* Term::swap_alt; the alternate screen starts with the cursor of the other. *)
swap_alt(t) ==
  LET swapped == [t EXCEPT !.keyboard = t.inactive, !.inactive = t.keyboard, !.other = t.cursor,
                           !.cursor = IF "ALT_SCREEN" \in t.mode THEN t.other ELSE t.cursor]
      flipped == IF "ALT_SCREEN" \in t.mode THEN Remove(swapped, {"ALT_SCREEN"})
                                            ELSE Insert(swapped, {"ALT_SCREEN"})
  IN  mark_fully_damaged(ApplyKeyboardMode(flipped, Top(t.inactive), "Replace"))

(* Mutant of set_options: the stack of the other screen is kept. *)
set_options_KeepsInactive(t, config) ==
  LET told == Send([t EXCEPT !.config = config],
                   IF t.title = None THEN <<"ResetTitle">> ELSE <<"Title", t.title>>)
      cleared == IF config.kitty = t.config.kitty THEN told
                 ELSE Remove([told EXCEPT !.keyboard = <<>>], KittyModes)
  IN  mark_fully_damaged(cleared)

(* Term::set_options *)
set_options(t, config) ==
  LET told == Send([t EXCEPT !.config = config],
                   IF t.title = None THEN <<"ResetTitle">> ELSE <<"Title", t.title>>)
      cleared == IF config.kitty = t.config.kitty THEN told
                 ELSE Remove([told EXCEPT !.keyboard = <<>>, !.inactive = <<>>], KittyModes)
  IN  mark_fully_damaged(cleared)

(* Term::toggle_vi_mode, as far as modes go. *)
toggle_vi_mode(t) ==
  Send([t EXCEPT !.mode = IF "VI" \in @ THEN @ \ {"VI"} ELSE @ \union {"VI"}],
       <<"CursorBlinkingChange">>)

(* Handler::report_keyboard_mode, push_, pop_ and set_keyboard_mode.  A full
   keyboard stack makes room in the title stack; Vec::remove panics when that
   is empty. *)
report_keyboard_mode(t) ==
  IF t.config.kitty THEN Send(t, <<"KeyboardMode", Top(t.keyboard)>>) ELSE t
push_keyboard_mode(t, mode) ==
  LET full == Len(t.keyboard) >= MaxStackDepth
      room == IF full THEN [t EXCEPT !.titles = Tail(@)] ELSE t
  IN  IF ~t.config.kitty THEN t
      ELSE IF full /\ t.titles = <<>> THEN [t EXCEPT !.panicked = TRUE]
      ELSE ApplyKeyboardMode([room EXCEPT !.keyboard = Append(@, mode)], mode, "Replace")
pop_keyboard_modes(t, n) ==
  LET rest == SubSeq(t.keyboard, 1, IF n >= Len(t.keyboard) THEN 0 ELSE Len(t.keyboard) - n)
  IN  IF t.config.kitty
        THEN ApplyKeyboardMode([t EXCEPT !.keyboard = rest], Top(rest), "Replace") ELSE t
set_keyboard_mode(t, mode, apply) ==
  IF t.config.kitty THEN ApplyKeyboardMode(t, mode, apply) ELSE t

(* Mutant of reset_state: the blinking of the own style may end unnoticed. *)
reset_state_Silent(t) ==
  mark_fully_damaged([new_term(t.config) EXCEPT !.mode = @ \union (t.mode \intersect {"VI"}),
                                                !.colors = t.colors])

(* Handler::reset_state; the colors stay, and no event tells of the title. *)
reset_state(t) ==
  Send(mark_fully_damaged([new_term(t.config) EXCEPT !.mode = @ \union (t.mode \intersect {"VI"}),
                                                     !.colors = t.colors]),
       <<"CursorBlinkingChange">>)

(* Handler::terminal_attribute, set_hyperlink (like a flag here),
   configure_charset and set_active_charset *)
InsertedBy ==
  [Reverse |-> "INVERSE", Bold |-> "BOLD", Dim |-> "DIM", Italic |-> "ITALIC",
   Underline |-> "UNDERLINE", DoubleUnderline |-> "DOUBLE_UNDERLINE", Undercurl |-> "UNDERCURL",
   DottedUnderline |-> "DOTTED_UNDERLINE", DashedUnderline |-> "DASHED_UNDERLINE",
   Hidden |-> "HIDDEN", Strike |-> "STRIKEOUT", Foreground |-> "fg", Background |-> "bg",
   UnderlineColor |-> "underline_color"]
RemovedBy ==
  [CancelReverse |-> {"INVERSE"}, CancelBold |-> {"BOLD"}, CancelBoldDim |-> {"BOLD", "DIM"},
   CancelItalic |-> {"ITALIC"}, CancelUnderline |-> Underlines, CancelHidden |-> {"HIDDEN"},
   CancelStrike |-> {"STRIKEOUT"}]

terminal_attribute(t, attr) ==
  LET old  == t.cursor.template
      kept == IF attr \in DOMAIN InsertedBy /\ InsertedBy[attr] \in Underlines
                THEN old \ Underlines ELSE old
  IN  [t EXCEPT !.cursor.template =
         CASE attr \in DOMAIN InsertedBy -> kept \union {InsertedBy[attr]}
           [] attr \in DOMAIN RemovedBy  -> old \ RemovedBy[attr]
           [] attr = "Reset"             -> old \intersect {"hyperlink"}]
set_hyperlink(t, on) ==
  [t EXCEPT !.cursor.template = IF on THEN @ \union {"hyperlink"} ELSE @ \ {"hyperlink"}]
configure_charset(t, index, charset) == [t EXCEPT !.cursor.charsets[index] = charset]
set_active_charset(t, index) == [t EXCEPT !.charset = index]

(* "Mouse protocols are mutually exclusive.", and so are mouse encodings. *)
Rivals(flag) == IF flag \in MouseModes THEN MouseModes
                ELSE IF flag \in MouseEncodings THEN MouseEncodings ELSE {}

(* Handler::set_private_mode, unset_private_mode and report_private_mode *)
Blink(t, on) ==
  Send([t EXCEPT !.style = [StyleOrDefault(t) EXCEPT !.blinking = on]], <<"CursorBlinkingChange">>)
set_private_mode(t, mode) ==
  CASE mode = "SwapScreenAndSetRestoreCursor" -> IF "ALT_SCREEN" \in t.mode THEN t ELSE swap_alt(t)
    [] mode = "BlinkingCursor" -> Blink(t, TRUE)
    [] mode = "ColumnMode" -> mark_fully_damaged(t)
    [] mode \in {"SyncUpdate", "Unknown"} -> t
    [] mode \in DOMAIN PrivateFlag \ {"SwapScreenAndSetRestoreCursor"} ->
         LET flag == PrivateFlag[mode]
             s    == Insert(Remove(t, Rivals(flag)), {flag})
         IN  IF flag \in MouseModes THEN Send(s, <<"MouseCursorDirty">>) ELSE s

unset_private_mode(t, mode) ==
  CASE mode = "SwapScreenAndSetRestoreCursor" -> IF "ALT_SCREEN" \in t.mode THEN swap_alt(t) ELSE t
    [] mode = "BlinkingCursor" -> Blink(t, FALSE)
    [] mode = "ColumnMode" -> mark_fully_damaged(t)
    [] mode \in {"SyncUpdate", "Unknown"} -> t
    [] mode \in DOMAIN PrivateFlag \ {"SwapScreenAndSetRestoreCursor"} ->
         LET s == Remove(t, {PrivateFlag[mode]})
         IN  IF PrivateFlag[mode] \in MouseModes THEN Send(s, <<"MouseCursorDirty">>) ELSE s

ModeState(on) == IF on THEN "Set" ELSE "Reset"
report_private_mode(t, mode) ==
  LET s == IF mode = "BlinkingCursor" THEN [t EXCEPT !.style = StyleOrDefault(t)] ELSE t
      state == CASE mode \in DOMAIN PrivateFlag -> ModeState(PrivateFlag[mode] \in t.mode)
                 [] mode = "BlinkingCursor" -> ModeState(s.style.blinking)
                 [] mode = "SyncUpdate" -> "Reset"
                 [] mode \in {"ColumnMode", "Unknown"} -> "NotSupported"
  IN  Send(s, <<"Report", mode, state>>)

(* Handler::set_mode, unset_mode and report_mode *)
set_mode(t, mode) == IF mode \in DOMAIN PublicFlag THEN Insert(t, {PublicFlag[mode]}) ELSE t
unset_mode(t, mode) ==
  IF mode = "Insert" THEN mark_fully_damaged(Remove(t, {"INSERT"}))
  ELSE IF mode \in DOMAIN PublicFlag THEN Remove(t, {PublicFlag[mode]}) ELSE t
report_mode(t, mode) ==
  Send(t, <<"Report", mode, IF mode \in DOMAIN PublicFlag THEN ModeState(PublicFlag[mode] \in t.mode)
                                                           ELSE "NotSupported">>)

(* Handler::set_keypad_application_mode and unset_keypad_application_mode *)
set_keypad_application_mode(t) == Insert(t, {"APP_KEYPAD"})
unset_keypad_application_mode(t) == Remove(t, {"APP_KEYPAD"})

(* Handler::set_cursor_style and set_cursor_shape *)
set_cursor_style(t, style) == Send([t EXCEPT !.style = style], <<"CursorBlinkingChange">>)
set_cursor_shape(t, shape) == [t EXCEPT !.style = [StyleOrDefault(t) EXCEPT !.shape = shape]]

(* Handler::set_title, push_title and pop_title *)
set_title(t, title) ==
  Send([t EXCEPT !.title = title], IF title = None THEN <<"ResetTitle">> ELSE <<"Title", title>>)
push_title(t) ==
  LET room == IF Len(t.titles) >= MaxStackDepth THEN Tail(t.titles) ELSE t.titles
  IN  [t EXCEPT !.titles = Append(room, t.title)]
pop_title(t) ==
  IF t.titles = <<>> THEN t
  ELSE set_title([t EXCEPT !.titles = SubSeq(@, 1, Len(@) - 1)], t.titles[Len(t.titles)])

(* Handler::set_color, reset_color and dynamic_color_sequence *)
set_color(t, index) ==
  [(IF index # "Cursor" /\ index \notin t.colors THEN mark_fully_damaged(t) ELSE t)
     EXCEPT !.colors = @ \union {index}]
reset_color(t, index) ==
  [(IF index # "Cursor" /\ index \in t.colors THEN mark_fully_damaged(t) ELSE t)
     EXCEPT !.colors = @ \ {index}]
dynamic_color_sequence(t, index) == Send(t, <<"ColorRequest", index>>)

(* Handler::clipboard_store and clipboard_load, as Osc52 allows. *)
ClipboardTypes == [c |-> "Clipboard", p |-> "Selection", s |-> "Selection"]
clipboard_store(t, clipboard) ==
  IF t.config.osc52 \in {"OnlyCopy", "CopyPaste"} /\ clipboard \in DOMAIN ClipboardTypes
    THEN Send(t, <<"ClipboardStore", ClipboardTypes[clipboard]>>) ELSE t
clipboard_load(t, clipboard) ==
  IF t.config.osc52 \in {"OnlyPaste", "CopyPaste"} /\ clipboard \in DOMAIN ClipboardTypes
    THEN Send(t, <<"ClipboardLoad", ClipboardTypes[clipboard]>>) ELSE t

(* Handler::identify_terminal, device_status, text_area_size_pixels,
   text_area_size_chars and bell: what is asked is answered. *)
identify_terminal(t, intermediate) ==
  IF intermediate \in {"none", ">"} THEN Send(t, <<"DeviceAttributes", intermediate>>) ELSE t
device_status(t, arg) == IF arg \in {5, 6} THEN Send(t, <<"DeviceStatus", arg>>) ELSE t
text_area_size(t, unit) == Send(t, <<"TextAreaSize", unit>>)
bell(t) == Send(t, <<"Bell">>)
===============================================================================
