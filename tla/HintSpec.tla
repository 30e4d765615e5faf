------------------------------- MODULE HintSpec -------------------------------
(***************************************************************************)
(* The keyboard hints of a window (cutty/src/display/hint.rs): labels are  *)
(* shown at the matches on the screen, and typing one selects its match.   *)
(* A screen that changes: the user types labels, faster than frames are    *)
(* drawn or not, while the program prints and the configuration is         *)
(* reloaded.                                                               *)
(*                                                                         *)
(* A match is [start, end]; characters and labels are sequences over the   *)
(* alphabet.  The hint in use is none, one that ends with a selection, or  *)
(* one that persists.                                                      *)
(***************************************************************************)
EXTENDS Integers, Sequences, FiniteSets, SequencesExt, FiniteSetsExt

NewHints(alphabet) ==
  [hint |-> "none", alphabet |-> alphabet, matches |-> << >>, labels |-> << >>, keys |-> << >>]
active(h) == h.hint # "none"
start(h, hint) == [h EXCEPT !.hint = hint]
stop(h) == [h EXCEPT !.hint = "none", !.matches = << >>, !.labels = << >>, !.keys = << >>]
-------------------------------------------------------------------------------
(* HintLabels: characters up to the split point end a label, the others come
   before them.  The next label is kept as indices, the last character's first. *)
split_point(alphabet) == (Len(alphabet) - 1) \div 2

increment(alphabet, indices) ==
  LET split == split_point(alphabet)
      last  == {k \in 2..Len(indices) : indices[k] + 1 # Len(alphabet)}
      stops == IF last = {} THEN Len(indices) + 1 ELSE Min(last)
      next  == [k \in 1..Len(indices) |-> CASE k = 1 -> 0 [] 1 < k /\ k < stops -> split + 1
                                            [] k = stops -> indices[k] + 1 [] k > stops -> indices[k]]
  IN  IF indices[1] < split THEN [indices EXCEPT ![1] = @ + 1]
      ELSE IF last = {} THEN Append(next, split + 1) ELSE next

(* The indices of the first n labels and of the one after them. *)
HintIndices(alphabet, n) ==
  LET after[k \in 0 .. n] == IF k = 0 THEN << 0 >> ELSE increment(alphabet, after[k - 1])
  IN  after

(* The first n labels. *)
HintLabels(alphabet, n) ==
  [k \in 1 .. n |->
     LET indices == HintIndices(alphabet, n)[k - 1]
     IN  Reverse([i \in DOMAIN indices |-> alphabet[indices[i] + 1]])]
-------------------------------------------------------------------------------
(* The longest match of each start, in the order of the screen. *)
Longest(found) == {m \in found : \A f \in found : f.start = m.start => f.end <= m.end}
Sorted(longest) ==
  [i \in 1 .. Cardinality(longest) |->
     CHOOSE m \in longest : Cardinality({f \in longest : f.start < m.start}) = i - 1]

(* What is left behind the keys of the labels of n matches, the last match first. *)
Left(keys, label) == IF IsPrefix(keys, label) THEN SubSeq(label, Len(keys) + 1, Len(label)) ELSE << >>
LabelsLeft(alphabet, keys, n) ==
  LET all == HintLabels(alphabet, n)
  IN  [i \in 1 .. n |-> Left(keys, all[n + 1 - i])]

(* HintState::update_matches *)
update_matches(h, found) ==
  LET longest == Longest(found)
  IN  IF ~active(h) THEN h
      ELSE IF found = {} THEN stop(h)
      ELSE [h EXCEPT !.matches = Sorted(longest),
                     !.labels = LabelsLeft(h.alphabet, h.keys, Cardinality(longest))]

(* The outcome of a character: the match of the last label that begins with it
   when that is the whole label. *)
Chosen(u, c) ==
  LET hits  == {i \in DOMAIN u.labels : u.labels[i] # << >> /\ Head(u.labels[i]) = c}
      index == Max(hits)
  IN  IF ~active(u) \/ hits = {} THEN [state |-> u, match |-> << >>]
      ELSE IF Len(u.labels[index]) > 1 THEN [state |-> [u EXCEPT !.keys = Append(@, c)], match |-> << >>]
      ELSE [state |-> IF u.hint = "persist" THEN [u EXCEPT !.keys = << >>] ELSE stop(u), match |-> << u.matches[index] >>]

(* Mutant of keyboard_input: the labels are those of the last frame. *)
keyboard_input_Stale(h, found, c) ==
  CASE c = "backspace" -> Chosen(IF h.keys = << >> THEN h ELSE [h EXCEPT !.keys = Front(@)], c)
    [] c = "escape"    -> Chosen(stop(h), c)
    [] OTHER           -> Chosen(h, c)

(* HintState::keyboard_input *)
keyboard_input(h, found, c) ==
  CASE c = "backspace" -> Chosen(update_matches(IF h.keys = << >> THEN h ELSE [h EXCEPT !.keys = Front(@)], found), c)
    [] c = "escape"    -> Chosen(update_matches(stop(h), found), c)
    [] OTHER           -> Chosen(update_matches(h, found), c)

update_alphabet(h, alphabet) ==
  IF h.alphabet = alphabet THEN h ELSE [h EXCEPT !.alphabet = alphabet, !.keys = << >>]
-------------------------------------------------------------------------------
CONSTANTS Alphabets,     \* what hints.alphabet may be
          Screens        \* the sets of matches that may be on the screen

(* HintsAlphabet::deserialize asks for two characters, and none of width 0 such as
   backspace and escape; a screen has finitely many matches.  That the characters
   differ is up to the user. *)
ASSUME HintAssumption ==
  /\ Alphabets # {}
  /\ \A a \in Alphabets :
       /\ a \in Seq(ToSet(a)) /\ Len(a) >= 2
       /\ \A i, j \in DOMAIN a : a[i] = a[j] => i = j
       /\ "backspace" \notin ToSet(a) /\ "escape" \notin ToSet(a)
  /\ \A found \in Screens : IsFiniteSet(found)

VARIABLES hints,
          onScreen,      \* the matches on the screen now
          drawn,         \* what the last frame shows: [keys, matches, labels, steady], or Outdated
          picked,        \* the last selection: [match, typed], or NoPick
          steady         \* the keys were typed for the matches on the screen now

hintVars == << hints, onScreen, drawn, picked, steady >>

Outdated == [keys |-> << >>, matches |-> << >>, labels |-> << >>, steady |-> FALSE]
NoPick == [match |-> << >>, typed |-> << >>]

HintInit ==
  /\ hints = NewHints(CHOOSE alphabet \in Alphabets : TRUE)
  /\ onScreen = {} /\ drawn = Outdated /\ picked = NoPick /\ steady = TRUE

StartHintMode ==
  /\ ~active(hints) /\ \E hint \in {"once", "persist"} : hints' = start(hints, hint)
  /\ picked' = NoPick /\ drawn' = Outdated /\ steady' = TRUE /\ UNCHANGED onScreen

(* RenderableContent::new *)
DrawHints ==
  /\ active(hints) /\ hints' = update_matches(hints, onScreen)
  /\ drawn' = [keys |-> hints'.keys, matches |-> hints'.matches, labels |-> hints'.labels, steady |-> steady]
  /\ picked' = NoPick /\ UNCHANGED << onScreen, steady >>

TypeHint(c) ==
  /\ active(hints)
  /\ LET r == keyboard_input(hints, onScreen, c)
     IN  /\ hints' = r.state
         /\ picked' = [match |-> r.match, typed |-> IF r.match = << >> THEN << >> ELSE Append(hints.keys, c)]
  /\ steady' = (steady \/ hints'.keys = << >>)
  /\ UNCHANGED << onScreen, drawn >>

(* The program prints, or the user scrolls. *)
ScreenChanges ==
  /\ onScreen' \in Screens \ {onScreen} /\ drawn' = Outdated /\ picked' = NoPick
  /\ steady' = (hints.keys = << >>) /\ UNCHANGED hints

(* WindowContext::update_config *)
NewAlphabet ==
  /\ \E alphabet \in Alphabets \ {hints.alphabet} : hints' = update_alphabet(hints, alphabet)
  /\ drawn' = Outdated /\ picked' = NoPick /\ UNCHANGED << onScreen, steady >>

HintNext ==
  \/ StartHintMode \/ DrawHints \/ ScreenChanges \/ NewAlphabet
  \/ \E c \in ToSet(hints.alphabet) \union {"backspace", "escape"} : TypeHint(c)

LabelsSpec == HintInit /\ [][HintNext]_hintVars
-------------------------------------------------------------------------------
\* No label is the beginning of another one, so that each match can be selected and
\* none is selected before its label has been typed: part of the alphabet ends labels
\* and nothing else (HintLabels::increment).
LabelsTellApart ==
  \A i, j \in DOMAIN hints.labels :
    i # j /\ hints.labels[i] # << >> => ~IsPrefix(hints.labels[i], hints.labels[j])

\* A match is selected by the label that was drawn at it, even if several keys come before
\* the next frame: keyboard_input computes the labels again, for the keys typed so far.
PicksWhatWasDrawn ==
  picked.match # << >> /\ drawn # Outdated =>
    \E i \in DOMAIN drawn.matches :
      /\ drawn.matches[i] = picked.match[1]
      /\ IF drawn.labels[i] # << >> THEN drawn.keys \o drawn.labels[i] = picked.typed
                                    ELSE ~IsPrefix(drawn.keys, picked.typed)

\* A frame with hints shows a label that can be typed, unless the screen has changed under
\* the keys: keys are only kept while they begin a label, and a new alphabet, which makes
\* them meaningless, clears them (update_alphabet).
SomeLabelIsLeft == drawn.matches # << >> /\ drawn.steady => \E i \in DOMAIN drawn.labels : drawn.labels[i] # << >>

\* Whatever is typed while the screen and the alphabet change, labels tell matches apart,
\* select the match they are drawn at, and never run out.
HintInv == LabelsTellApart /\ PicksWhatWasDrawn /\ SomeLabelIsLeft
===============================================================================
