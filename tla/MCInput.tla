------------------------------- MODULE MCInput -------------------------------
(* Small instances of InputSpec for TLC. *)
EXTENDS InputSpec, TLC

Key(name, shifted, location) == [name |-> name, shifted |-> shifted, location |-> location]
Named(names, location) == {Key(n, n, location) : n \in names}

MCKeys ==
  {Key("a", "A", "Standard"), Key("i", "I", "Standard"), Key("m", "M", "Standard"),
   Key("1", "!", "Standard"), Key("[", "{", "Standard"), Key("1", "1", "Numpad"), Key("+", "+", "Numpad")}
  \union Named({"Tab", "Enter", "Escape", "Space", "Backspace", "Home", "ArrowUp", "F1", "F3", "F13",
                "PageUp", "Insert"}, "Standard")
  \union Named({"Enter", "Home", "Insert"}, "Numpad")
  \union Named({"Shift"}, "Left") \union Named({"Shift"}, "Right")
  \union Named({"CapsLock", "MediaPlay"}, "Standard")

MCUserBindings ==
  {[key |-> "Enter", location |-> "Any", mods |-> {}, mode |-> mn[1], notmode |-> mn[2],
    action |-> "Quit"] :
     mn \in {<< {}, {} >>, << {"VI"}, {} >>, << {"SEARCH"}, {} >>, << {}, {"SEARCH"} >>}}

Plain(names) == {<< Key(n, n, "Standard"), {} >> : n \in names}
Control(names) == {<< Key(n, n, "Standard"), {"CONTROL"} >> : n \in names}
PressVi == {<< Key("Space", "Space", "Standard"), {"SHIFT", "CONTROL"} >>}

Search == [blinking |-> FALSE, presses |-> PressVi \union Plain({"/", "Escape", "Enter", "n"}),
           events |-> {"wheel"}, varies |-> {"found"}]
Find == [blinking |-> FALSE, presses |-> {<< Key("f", "F", "Standard"), {"CONTROL", "SHIFT"} >>} \union Plain({"a", "Enter", "Escape"}),
         events |-> {}, varies |-> {"found", "valid"}]
Blink == [blinking |-> TRUE, presses |-> PressVi \union Plain({"a"}), events |-> {"focus", "preedit", "commit"}, varies |-> {}]
Recall == [blinking |-> FALSE, presses |-> PressVi \union Plain({"/", "ArrowUp", "ArrowDown", "Backspace", "Enter", "a"})
                                   \union Control({"w", "u"}),
           events |-> {}, varies |-> {"valid"}]
Busy == [blinking |-> FALSE, presses |-> PressVi \union Plain({"/", "Escape", "a"}), events |-> {"output"}, varies |-> {"found"}]
Hints == [blinking |-> FALSE, presses |-> PressVi \union Plain({"a", "Escape", "v"}),
          events |-> {"Select", "Paste", "Copy", "commit"}, varies |-> {"line"}]
Inline == [blinking |-> FALSE, presses |-> PressVi \union Plain({"f", ";", "j", "*", "/"}),
           events |-> {"release", "commit", "preedit"}, varies |-> {"next", "found"}]
Jump == [blinking |-> FALSE, presses |-> PressVi \union Plain({"a", "j"}),
         events |-> {"MoveViModeCursor", "output", "wheel"}, varies |-> {"line"}]
KeyModes == [blinking |-> FALSE, presses |-> {}, events |-> {"keyboard"}, varies |-> {}]
Mouse == [blinking |-> FALSE, presses |-> {}, events |-> {"pointer"}, varies |-> {}]

Labels == [blinking |-> FALSE, presses |-> {}, events |-> {"labels"}, varies |-> {}]
Frames == [blinking |-> FALSE, presses |-> {}, events |-> {"damage"}, varies |-> {}]

MCScenarios == {Search, Find, Blink, Recall, Busy, Hints, Jump, Inline, Mouse, KeyModes, Labels, Frames}

Span(from, to) == [start |-> from, end |-> to]
MCAlphabets == {<< "j", "f" >>, << "j", "f", "k" >>, << "j", "f", "k", "d", "l" >>}
MCScreens == {{}, {Span(1, 1), Span(1, 2), Span(3, 3)}, {Span(k, k) : k \in 1..4}, {Span(k, k) : k \in 2..8}}

Size(lines, bar) == [lines |-> lines, columns |-> 3, bar |-> bar, cellWidth |-> 2, cellHeight |-> 2, padding |-> 1]
MCSizes == {Size(2, 0), Size(1, 1)}
MCViCursors == {Point(0, 2)}
MCSelectedRanges == {Span(Point(-1, 1), Point(0, 1))}
MCHintRanges == {Span(Point(0, 0), Point(1, 1))}
MCPrintedCells == {Point(0, 0), Point(1, 1)}

MCDeltas == {-1, 3}
AnyFingers == Permutations(Fingers)
===============================================================================
