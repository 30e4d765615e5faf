----------------------------- MODULE MCProcessor -----------------------------
(* Small instances of ProcessorSpec for TLC. *)
EXTENDS ProcessorSpec

Frames == [daemon |-> FALSE, hold |-> FALSE, blinks |-> FALSE,
           inputs |-> {"redraw", "Input", "Occluded", "Wakeup", "Bell", "Exit"}, max |-> 4]
Closing == [daemon |-> FALSE, hold |-> TRUE, blinks |-> TRUE,
            inputs |-> {"CreateWindow", "CloseRequested", "Exit", "Shutdown", "Blink"}, max |-> 3]
Messages == [daemon |-> FALSE, hold |-> FALSE, blinks |-> FALSE, inputs |-> {"Message", "PopMessage", "Edit", "Resized"},
             max |-> 3]
Options == [daemon |-> TRUE, hold |-> FALSE, blinks |-> FALSE, inputs |-> {"CreateWindow", "IpcConfig", "Edit"}, max |-> 3]

Invalid == [daemon |-> FALSE, hold |-> FALSE, blinks |-> FALSE, inputs |-> {"CreateWindow", "Broken", "IpcGetConfig"}, max |-> 2]

MCScenarios == {Frames, Closing, Messages, Options, Invalid}
===============================================================================
