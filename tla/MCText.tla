-------------------------------- MODULE MCText --------------------------------
(* Small instances of TextSpec for TLC. *)
EXTENDS TextSpec
MCWidth == [c \in {"a", "W", " ", "(", ")"} |-> IF c = "W" THEN 2 ELSE 1]
MCWords == {<< "a" >>, << "a", "W" >>}
MCHintWords == {<< "a", ")" >>, << ")", "a" >>, << "a", "(" >>, << "W" >>}
MCTexts == UNION {[1..n -> {"a", "W", NewLine}] : n \in 0..5} \union UNION {[1..n -> {"a", "W", " ", "(", ")"}] : n \in 1..3}
           \union [1..4 -> {"a", " ", "W"}] \union [1..4 -> {"a", "(", ")"}]
===============================================================================
