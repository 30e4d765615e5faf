----------------------------- MODULE MCTermModes -----------------------------
(* Small instances of TermModesSpec for TLC. *)
EXTENDS TermModesSpec

MCStyles == {[shape |-> "Beam", blinking |-> on] : on \in BOOLEAN}
MCModes == {"ReportMouseClicks", "ReportAllMouseMotion", "SgrMouse", "Utf8Mouse",
            "SwapScreenAndSetRestoreCursor", "BlinkingCursor", "ColumnMode", "SyncUpdate"}
MCKeyboards == {{}, {"DISAMBIGUATE_ESC_CODES"}}
MCAttrs == {"Underline", "Undercurl", "CancelUnderline", "Reset"}
MCConfigs ==
  {[kitty |-> FALSE, osc52 |-> "OnlyCopy", style |-> [shape |-> "Block", blinking |-> FALSE], viStyle |-> None],
   [kitty |-> TRUE, osc52 |-> "CopyPaste", style |-> [shape |-> "Block", blinking |-> TRUE],
    viStyle |-> [shape |-> "Block", blinking |-> FALSE]]}
===============================================================================
