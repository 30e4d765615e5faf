--------------------------- MODULE TermModesProofs ---------------------------
(***************************************************************************)
(* Proofs about the modes, stacks and attributes of a terminal, for every  *)
(* depth of the stacks and every set of titles, styles, keyboard modes and *)
(* options: rivals exclude each other, what the options turn off stays     *)
(* off, a mode is reported as it was set, and the UI is told of changes.   *)
(*                                                                         *)
(* Good is the inductive invariant; Fine(t, u) is what every handler       *)
(* guarantees of the terminal u it makes of t.                             *)
(***************************************************************************)
EXTENDS TermModesSpec, FiniteSetTheorems, SequenceTheorems, TLAPS

(* What modes and templates consist of. *)
Flags == {PrivateFlag[m] : m \in DOMAIN PrivateFlag} \union {PublicFlag[m] : m \in DOMAIN PublicFlag}
           \union KittyModes \union {"VI", "APP_KEYPAD"}
Marks == {InsertedBy[a] : a \in DOMAIN InsertedBy} \union {"hyperlink"}
Colors == {"Cursor", "Red"}

Stacks  == Seq(SUBSET KittyModes)
Names   == Titles \union {None}
Charsets == [G0 : {"Ascii", "LineDrawing"}, G1 : {"Ascii", "LineDrawing"}]
Cursors == [template : SUBSET Marks, charsets : Charsets]

(* Terminals that have sent what is in the set. *)
Terms(sent) ==
  [mode : SUBSET Flags, keyboard : Stacks, inactive : Stacks, title : Names, titles : Seq(Names),
   style : CursorStyles \union {None}, cursor : Cursors, other : Cursors, charset : {"G0", "G1"},
   colors : SUBSET Colors, config : Configs, damaged : BOOLEAN, sent : sent, panicked : BOOLEAN]

AtMostOne(set) == \A a, b \in set : a = b

(* The inductive invariant. *)
Good(t) ==
  /\ t \in Terms({t.sent})
  /\ Len(t.titles) <= MaxStackDepth
  /\ AtMostOne(t.mode \intersect MouseModes) /\ AtMostOne(t.mode \intersect MouseEncodings)
  /\ AtMostOne(t.cursor.template \intersect Underlines)
  /\ AtMostOne(t.other.template \intersect Underlines)
  /\ ~t.config.kitty =>
       t.mode \intersect KittyModes = {} /\ t.keyboard = <<>> /\ t.inactive = <<>>

(* A terminal that is about to run a handler. *)
Ready(t) == Good(t) /\ t.sent = <<>>

(* What the UI is told of. *)
Told(t, u) ==
  u.config = t.config =>
    /\ cursor_style(t).blinking # cursor_style(u).blinking => Sent(u, "CursorBlinkingChange")
    /\ t.mode \intersect MouseModes # u.mode \intersect MouseModes => Sent(u, "MouseCursorDirty")
    /\ t.title # u.title => Sent(u, IF u.title = None THEN "ResetTitle" ELSE "Title")

SentOne(u) == u.sent = <<>> \/ \E e : u.sent = <<e>>

Fine(t, u) == Good(u) /\ Told(t, u) /\ SentOne(u)

(* The assumption, part by part. *)
LEMMA Constants ==
  /\ MaxStackDepth \in Nat \ {0} /\ None \notin CursorStyles /\ Styles \subseteq CursorStyles
  /\ Keyboards \subseteq SUBSET KittyModes /\ SomeModes \subseteq Modes /\ SomeAttrs \subseteq Attrs
  /\ \A config \in Configs : /\ config.kitty \in BOOLEAN /\ config.style \in CursorStyles
                             /\ config.viStyle \in CursorStyles \union {None}
  BY TermModesAssumption, TermModesSpecAssumption
-------------------------------------------------------------------------------
(* Events. *)
LEMMA AppendOne == ASSUME NEW e PROVE Append(<<>>, e) = <<e>>
  OBVIOUS

(* One event was sent. *)
LEMMA SentIs ==
  ASSUME NEW u, NEW e, u.sent = <<e>>
  PROVE  SentOne(u) /\ \A name : Sent(u, name) <=> e[1] = name
  BY DEF SentOne, Sent

(* A handler that changes neither modes, stacks, titles, styles nor cursors. *)
LEMMA SameFine ==
  ASSUME NEW t, Ready(t), NEW u, u \in Terms({u.sent}), SentOne(u),
         u.mode = t.mode, u.title = t.title, u.titles = t.titles, u.keyboard = t.keyboard,
         u.inactive = t.inactive, u.cursor = t.cursor, u.other = t.other, u.config = t.config,
         u.style = t.style
  PROVE  Fine(t, u)
  <1>1. cursor_style(u) = cursor_style(t) BY DEF cursor_style, StyleOrDefault
  <1>2. QED BY <1>1 DEF Ready, Fine, Good, Told

(* An answer is sent, or nothing happens. *)
LEMMA AnswerFine ==
  ASSUME NEW t, Ready(t), NEW e
  PROVE  Fine(t, Send(t, e)) /\ Fine(t, t)
  <1> DEFINE u == Send(t, e)
  <1>1. t \in Terms({t.sent}) /\ t.sent = <<>> BY DEF Ready, Good
  <1>2. u.sent = <<e>> BY <1>1, AppendOne DEF Send, Terms
  <1>3. /\ u \in Terms({u.sent}) /\ u.mode = t.mode /\ u.title = t.title
        /\ u.titles = t.titles /\ u.keyboard = t.keyboard /\ u.inactive = t.inactive
        /\ u.cursor = t.cursor /\ u.other = t.other /\ u.config = t.config /\ u.style = t.style
    BY <1>1, <1>2 DEF Terms, Send
  <1> HIDE DEF u
  <1>4. Fine(t, u) BY <1>2, <1>3, SentIs, SameFine
  <1>5. Fine(t, t) BY <1>1, SameFine DEF SentOne
  <1>6. QED BY <1>4, <1>5 DEF u

(* Damage, colors and the active charset. *)
LEMMA OtherFine ==
  ASSUME NEW t, Ready(t), NEW d \in BOOLEAN, NEW c \in SUBSET Colors, NEW i \in {"G0", "G1"}
  PROVE  /\ Fine(t, [t EXCEPT !.damaged = d]) /\ Fine(t, [t EXCEPT !.charset = i])
         /\ Fine(t, [t EXCEPT !.colors = c]) /\ Fine(t, [t EXCEPT !.damaged = d, !.colors = c])
  <1>1. t \in Terms({t.sent}) /\ t.sent = <<>> BY DEF Ready, Good
  <1>2. ASSUME NEW u, u \in {[t EXCEPT !.damaged = d], [t EXCEPT !.charset = i],
                             [t EXCEPT !.colors = c], [t EXCEPT !.damaged = d, !.colors = c]}
        PROVE  Fine(t, u)
    <2>1. /\ u \in Terms({u.sent}) /\ u.mode = t.mode /\ u.title = t.title
          /\ u.titles = t.titles /\ u.keyboard = t.keyboard /\ u.inactive = t.inactive
          /\ u.cursor = t.cursor /\ u.other = t.other /\ u.config = t.config /\ u.style = t.style
          /\ u.sent = <<>>
      <3>1. CASE u = [t EXCEPT !.damaged = d] BY <1>1, <3>1 DEF Terms
      <3>2. CASE u = [t EXCEPT !.charset = i] BY <1>1, <3>2 DEF Terms
      <3>3. CASE u = [t EXCEPT !.colors = c] BY <1>1, <3>3 DEF Terms
      <3>4. CASE u = [t EXCEPT !.damaged = d, !.colors = c] BY <1>1, <3>4 DEF Terms
      <3>5. QED BY <1>2, <3>1, <3>2, <3>3, <3>4
    <2>2. QED BY <2>1, SameFine DEF SentOne
  <1>3. QED BY <1>2
-------------------------------------------------------------------------------
(* Replacing some of the fields; the rest is not touched. *)

(* Modes and the damage. *)
LEMMA ModeFine ==
  ASSUME NEW t, Ready(t), NEW m \in SUBSET Flags, NEW d \in BOOLEAN, NEW u,
         u = [t EXCEPT !.mode = m, !.damaged = d],
         "VI" \in m <=> "VI" \in t.mode,
         m \intersect MouseModes = t.mode \intersect MouseModes,
         AtMostOne(m \intersect MouseEncodings),
         ~t.config.kitty => m \intersect KittyModes = {}
  PROVE  Fine(t, u)
  <1>1. t \in Terms({t.sent}) BY DEF Ready, Good
  <1>2. /\ u \in Terms({t.sent}) /\ u.sent = t.sent /\ u.mode = m /\ u.title = t.title
        /\ u.titles = t.titles /\ u.keyboard = t.keyboard /\ u.inactive = t.inactive
        /\ u.cursor = t.cursor /\ u.other = t.other /\ u.config = t.config /\ u.style = t.style
    BY <1>1 DEF Terms
  <1>3. cursor_style(u) = cursor_style(t) BY <1>2 DEF cursor_style, StyleOrDefault
  <1>4. QED BY <1>2, <1>3 DEF Ready, Fine, Good, Told, SentOne

(* Modes that have an event for the UI. *)
LEMMA ModeSent ==
  ASSUME NEW t, Ready(t), NEW m \in SUBSET Flags, NEW e,
         (e = <<"MouseCursorDirty">> /\ ("VI" \in m <=> "VI" \in t.mode))
           \/ (e = <<"CursorBlinkingChange">> /\ m \intersect MouseModes = t.mode \intersect MouseModes),
         AtMostOne(m \intersect MouseModes), AtMostOne(m \intersect MouseEncodings),
         ~t.config.kitty => m \intersect KittyModes = {}
  PROVE  Fine(t, Send([t EXCEPT !.mode = m], e))
  <1> DEFINE u == Send([t EXCEPT !.mode = m], e)
  <1>1. t \in Terms({t.sent}) /\ t.sent = <<>> BY DEF Ready, Good
  <1>2. u.sent = <<e>> BY <1>1, AppendOne DEF Send, Terms
  <1>3. /\ u \in Terms({u.sent}) /\ u.mode = m /\ u.title = t.title
        /\ u.titles = t.titles /\ u.keyboard = t.keyboard /\ u.inactive = t.inactive
        /\ u.cursor = t.cursor /\ u.other = t.other /\ u.config = t.config /\ u.style = t.style
    BY <1>1, <1>2 DEF Terms, Send
  <1> HIDE DEF u
  <1>4. SentOne(u) /\ \A name : Sent(u, name) <=> e[1] = name BY <1>2, SentIs
  <1>5. ("VI" \in m <=> "VI" \in t.mode) => cursor_style(u) = cursor_style(t)
    BY <1>3 DEF cursor_style, StyleOrDefault
  <1>6. Told(t, u) BY <1>3, <1>4, <1>5 DEF Told
  <1>7. Good(u) BY <1>3 DEF Ready, Good
  <1>8. QED BY <1>4, <1>6, <1>7 DEF Fine, u

(* The cursor style: an event is sent unless it blinks as before. *)
LEMMA StyleFine ==
  ASSUME NEW t, Ready(t), NEW y \in CursorStyles \union {None}
  PROVE  /\ Fine(t, Send([t EXCEPT !.style = y], <<"CursorBlinkingChange">>))
         /\ (y # None /\ y.blinking = StyleOrDefault(t).blinking => Fine(t, [t EXCEPT !.style = y]))
  <1> DEFINE u == Send([t EXCEPT !.style = y], <<"CursorBlinkingChange">>)
             v == [t EXCEPT !.style = y]
  <1>1. t \in Terms({t.sent}) /\ t.sent = <<>> BY DEF Ready, Good
  <1>2. u.sent = << <<"CursorBlinkingChange">> >> BY <1>1, AppendOne DEF Send, Terms
  <1>3. /\ u \in Terms({u.sent}) /\ u.mode = t.mode /\ u.title = t.title
        /\ u.titles = t.titles /\ u.keyboard = t.keyboard /\ u.inactive = t.inactive
        /\ u.cursor = t.cursor /\ u.other = t.other /\ u.config = t.config /\ u.style = y
    BY <1>1, <1>2 DEF Terms, Send
  <1>4. /\ v \in Terms({v.sent}) /\ v.mode = t.mode /\ v.title = t.title
        /\ v.titles = t.titles /\ v.keyboard = t.keyboard /\ v.inactive = t.inactive
        /\ v.cursor = t.cursor /\ v.other = t.other /\ v.config = t.config /\ v.style = y
        /\ v.sent = <<>>
    BY <1>1 DEF Terms
  <1> HIDE DEF u, v
  <1>5. Fine(t, u)
    <2>1. SentOne(u) /\ Sent(u, "CursorBlinkingChange") BY <1>2, SentIs
    <2>2. Good(u) /\ Told(t, u) BY <1>3, <2>1 DEF Ready, Good, Told
    <2>3. QED BY <2>1, <2>2 DEF Fine
  <1>6. ASSUME y # None, y.blinking = StyleOrDefault(t).blinking PROVE Fine(t, v)
    <2>1. cursor_style(v).blinking = cursor_style(t).blinking
      BY <1>4, <1>6 DEF cursor_style, StyleOrDefault
    <2>2. QED BY <1>4, <2>1 DEF Ready, Good, Told, SentOne, Fine
  <1>7. QED BY <1>5, <1>6 DEF u, v

(* Handler::set_cursor_style and set_cursor_shape, and the blinking mode. *)
LEMMA StylesFine ==
  ASSUME NEW t, Ready(t), NEW y \in CursorStyles \union {None}, NEW z \in CursorStyles, NEW on \in BOOLEAN
  PROVE  /\ Fine(t, set_cursor_style(t, y)) /\ Fine(t, set_cursor_shape(t, z.shape))
         /\ Fine(t, Blink(t, on))
  <1> DEFINE o == StyleOrDefault(t)
             a == [o EXCEPT !.shape = z.shape]
             b == [o EXCEPT !.blinking = on]
  <1>1. o \in CursorStyles
    <2>1. t.config \in Configs /\ t.style \in CursorStyles \union {None} BY DEF Ready, Good, Terms
    <2>2. t.config.style \in CursorStyles BY <2>1, Constants
    <2>3. QED BY <2>1, <2>2 DEF StyleOrDefault
  <1> HIDE DEF o
  <1>2. a \in CursorStyles /\ a.blinking = o.blinking /\ b \in CursorStyles
    BY <1>1 DEF CursorStyles
  <1>3. a # None BY <1>2, Constants
  <1> HIDE DEF a, b
  <1>4. Fine(t, set_cursor_style(t, y)) BY StyleFine DEF set_cursor_style
  <1>5. Fine(t, [t EXCEPT !.style = a]) BY <1>2, <1>3, StyleFine DEF o
  <1>6. Fine(t, Send([t EXCEPT !.style = b], <<"CursorBlinkingChange">>)) BY <1>2, StyleFine
  <1>7. QED BY <1>4, <1>5, <1>6, Zenon DEF set_cursor_shape, Blink, a, b, o

(* Titles: the stack makes room at its maximum. *)
LEMMA TitleFine ==
  ASSUME NEW t, Ready(t), NEW name \in Names, NEW stack \in Seq(Names), Len(stack) <= MaxStackDepth
  PROVE  /\ Fine(t, set_title([t EXCEPT !.titles = stack], name))
         /\ Fine(t, set_title(t, name)) /\ Fine(t, [t EXCEPT !.titles = stack])
  <1> DEFINE e == IF name = None THEN <<"ResetTitle">> ELSE <<"Title", name>>
             u == set_title([t EXCEPT !.titles = stack], name)
             v == [t EXCEPT !.titles = stack]
             w == set_title(t, name)
  <1>1. t \in Terms({t.sent}) /\ t.sent = <<>> BY DEF Ready, Good
  <1>2. /\ u = Send([[t EXCEPT !.titles = stack] EXCEPT !.title = name], e)
        /\ w = Send([t EXCEPT !.title = name], e)
    BY Zenon DEF set_title
  <1>0. e[1] = IF name = None THEN "ResetTitle" ELSE "Title" OBVIOUS
  <1> HIDE DEF e, u, w
  <1>3. u.sent = <<e>> /\ w.sent = <<e>> BY <1>1, <1>2, AppendOne DEF Send, Terms
  <1>4. /\ u \in Terms({u.sent}) /\ u.mode = t.mode /\ u.title = name
        /\ u.titles = stack /\ u.keyboard = t.keyboard /\ u.inactive = t.inactive
        /\ u.cursor = t.cursor /\ u.other = t.other /\ u.config = t.config /\ u.style = t.style
    BY <1>1, <1>2, <1>3 DEF Terms, Send
  <1>5. /\ v \in Terms({v.sent}) /\ v.mode = t.mode /\ v.title = t.title
        /\ v.titles = stack /\ v.keyboard = t.keyboard /\ v.inactive = t.inactive
        /\ v.cursor = t.cursor /\ v.other = t.other /\ v.config = t.config /\ v.style = t.style
        /\ v.sent = <<>>
    BY <1>1 DEF Terms
  <1>6. /\ w \in Terms({w.sent}) /\ w.mode = t.mode /\ w.title = name
        /\ w.titles = t.titles /\ w.keyboard = t.keyboard /\ w.inactive = t.inactive
        /\ w.cursor = t.cursor /\ w.other = t.other /\ w.config = t.config /\ w.style = t.style
    BY <1>1, <1>2, <1>3 DEF Terms, Send
  <1> HIDE DEF v
  <1>7. /\ cursor_style(u) = cursor_style(t) /\ cursor_style(v) = cursor_style(t)
        /\ cursor_style(w) = cursor_style(t)
    BY <1>4, <1>5, <1>6 DEF cursor_style, StyleOrDefault
  <1>8. Fine(t, u) BY <1>0, <1>3, <1>4, <1>7, SentIs DEF Ready, Fine, Good, Told
  <1>9. Fine(t, w) BY <1>0, <1>3, <1>6, <1>7, SentIs DEF Ready, Fine, Good, Told
  <1>10. Fine(t, v) BY <1>5, <1>7 DEF Ready, Fine, Good, Told, SentOne
  <1>11. QED BY <1>8, <1>9, <1>10 DEF u, v, w

(* Handler::push_title and pop_title. *)
LEMMA StackFine ==
  ASSUME NEW t, Ready(t)
  PROVE  Fine(t, push_title(t)) /\ Fine(t, pop_title(t))
  <1>1. /\ t.titles \in Seq(Names) /\ Len(t.titles) <= MaxStackDepth /\ t.title \in Names
        /\ MaxStackDepth \in Nat \ {0}
    BY Constants DEF Ready, Good, Terms
  <1>2. Fine(t, push_title(t))
    <2> DEFINE room == IF Len(t.titles) >= MaxStackDepth THEN Tail(t.titles) ELSE t.titles
               full == Append(room, t.title)
    <2>1. room \in Seq(Names) /\ Len(room) < MaxStackDepth
      BY <1>1
    <2> HIDE DEF room
    <2>2. full \in Seq(Names) /\ Len(full) <= MaxStackDepth BY <1>1, <2>1
    <2> HIDE DEF full
    <2>3. Fine(t, [t EXCEPT !.titles = full]) BY <1>1, <2>2, TitleFine
    <2>4. QED BY <2>3, Zenon DEF push_title, full, room
  <1>3. CASE t.titles = <<>> BY <1>2, <1>3, AnswerFine DEF pop_title
  <1>4. CASE t.titles # <<>>
    <2> DEFINE rest == SubSeq(t.titles, 1, Len(t.titles) - 1)
               name == t.titles[Len(t.titles)]
    <2>1. rest \in Seq(Names) /\ Len(rest) <= MaxStackDepth /\ name \in Names
      BY <1>1, <1>4
    <2>2. pop_title(t) = set_title([t EXCEPT !.titles = rest], name) BY <1>4 DEF pop_title
    <2> HIDE DEF rest, name
    <2>3. Fine(t, set_title([t EXCEPT !.titles = rest], name)) BY <2>1, TitleFine
    <2>4. QED BY <1>2, <2>2, <2>3
  <1>5. QED BY <1>2, <1>3, <1>4

(* What the cursor writes with: one underline at most. *)
LEMMA CursorFine ==
  ASSUME NEW t, Ready(t), NEW c \in Cursors, AtMostOne(c.template \intersect Underlines)
  PROVE  Fine(t, [t EXCEPT !.cursor = c])
  <1> DEFINE u == [t EXCEPT !.cursor = c]
  <1>1. t \in Terms({t.sent}) /\ t.sent = <<>> BY DEF Ready, Good
  <1>2. /\ u \in Terms({u.sent}) /\ u.mode = t.mode /\ u.title = t.title
        /\ u.titles = t.titles /\ u.keyboard = t.keyboard /\ u.inactive = t.inactive
        /\ u.cursor = c /\ u.other = t.other /\ u.config = t.config /\ u.style = t.style
        /\ u.sent = <<>>
    BY <1>1 DEF Terms
  <1> HIDE DEF u
  <1>3. cursor_style(u) = cursor_style(t) BY <1>2 DEF cursor_style, StyleOrDefault
  <1>4. Fine(t, u) BY <1>2, <1>3 DEF Ready, Fine, Good, Told, SentOne
  <1>5. QED BY <1>4 DEF u

(* The same, given what is written. *)
LEMMA TemplateFine ==
  ASSUME NEW t, Ready(t), NEW a \in SUBSET Marks, AtMostOne(a \intersect Underlines)
  PROVE  Fine(t, [t EXCEPT !.cursor.template = a])
  <1> DEFINE c == [t.cursor EXCEPT !.template = a]
  <1>1. t \in Terms({t.sent}) /\ t.cursor \in Cursors BY DEF Ready, Good, Terms
  <1>2. c \in Cursors /\ c.template = a BY <1>1 DEF Cursors
  <1>3. [t EXCEPT !.cursor.template = a] = [t EXCEPT !.cursor = c] BY <1>1 DEF Terms
  <1> HIDE DEF c
  <1>4. QED BY <1>2, <1>3, CursorFine

(* Handler::terminal_attribute: an underline replaces the one before it. *)
LEMMA AttributeFine ==
  ASSUME NEW t, Ready(t), NEW attr \in Attrs
  PROVE  Fine(t, terminal_attribute(t, attr))
  <1> DEFINE old  == t.cursor.template
             kept == IF attr \in DOMAIN InsertedBy /\ InsertedBy[attr] \in Underlines
                       THEN old \ Underlines ELSE old
             a == CASE attr \in DOMAIN InsertedBy -> kept \union {InsertedBy[attr]}
                    [] attr \in DOMAIN RemovedBy  -> old \ RemovedBy[attr]
                    [] attr = "Reset"             -> old \intersect {"hyperlink"}
  <1>1. old \in SUBSET Marks /\ AtMostOne(old \intersect Underlines)
    BY DEF Ready, Good, Terms, Cursors
  <1>2. attr \in DOMAIN InsertedBy => InsertedBy[attr] \in Marks BY DEF Marks
  <1>3. /\ attr \in DOMAIN RemovedBy => attr \notin DOMAIN InsertedBy
        /\ attr = "Reset" => attr \notin DOMAIN InsertedBy /\ attr \notin DOMAIN RemovedBy
    BY DEF InsertedBy, RemovedBy
  <1> HIDE DEF old
  <1>4. a \in SUBSET Marks /\ AtMostOne(a \intersect Underlines)
    <2>1. CASE attr \in DOMAIN InsertedBy
      <3>1. a = kept \union {InsertedBy[attr]} BY <1>3, <2>1
      <3>2. QED BY <1>1, <1>2, <2>1, <3>1 DEF AtMostOne
    <2>2. CASE attr \in DOMAIN RemovedBy
      <3>1. a = old \ RemovedBy[attr] BY <1>3, <2>2
      <3>2. QED BY <1>1, <3>1 DEF AtMostOne
    <2>3. CASE attr = "Reset"
      <3>1. a = old \intersect {"hyperlink"} BY <1>3, <2>3
      <3>2. QED BY <1>1, <3>1 DEF AtMostOne
    <2>4. QED BY <2>1, <2>2, <2>3 DEF Attrs
  <1>5. terminal_attribute(t, attr) = [t EXCEPT !.cursor.template = a]
    BY Zenon DEF terminal_attribute, old
  <1> HIDE DEF a
  <1>6. QED BY <1>4, <1>5, TemplateFine

(* Handler::set_hyperlink and configure_charset. *)
LEMMA HyperlinkFine ==
  ASSUME NEW t, Ready(t), NEW on \in BOOLEAN, NEW charset \in {"Ascii", "LineDrawing"}
  PROVE  Fine(t, set_hyperlink(t, on)) /\ Fine(t, configure_charset(t, "G1", charset))
  <1> DEFINE old == t.cursor.template
             a == IF on THEN old \union {"hyperlink"} ELSE old \ {"hyperlink"}
             c == [t.cursor EXCEPT !.charsets["G1"] = charset]
  <1>1. old \in SUBSET Marks /\ AtMostOne(old \intersect Underlines)
    BY DEF Ready, Good, Terms, Cursors
  <1>2. a \in SUBSET Marks /\ AtMostOne(a \intersect Underlines)
    <2>1. "hyperlink" \in Marks /\ "hyperlink" \notin Underlines BY DEF Marks, Underlines
    <2> HIDE DEF old
    <2>2. a \in SUBSET Marks BY <1>1, <2>1
    <2>3. a \intersect Underlines = old \intersect Underlines BY <2>1
    <2>4. QED BY <1>1, <2>2, <2>3
  <1>3. Fine(t, set_hyperlink(t, on))
    <2>1. set_hyperlink(t, on) = [t EXCEPT !.cursor.template = a] BY DEF set_hyperlink
    <2> HIDE DEF a
    <2>2. QED BY <1>2, <2>1, TemplateFine
  <1>4. t \in Terms({t.sent}) /\ t.cursor \in Cursors BY DEF Ready, Good, Terms
  <1>5. c \in Cursors /\ c.template = old
    <2>1. t.cursor.charsets \in Charsets BY <1>4 DEF Cursors
    <2>2. [t.cursor.charsets EXCEPT !["G1"] = charset] \in Charsets BY <2>1 DEF Charsets
    <2>3. QED BY <1>4, <2>2 DEF Cursors
  <1>6. configure_charset(t, "G1", charset) = [t EXCEPT !.cursor = c]
    BY <1>4 DEF configure_charset, Terms
  <1> HIDE DEF c
  <1>7. QED BY <1>1, <1>3, <1>5, <1>6, CursorFine
-------------------------------------------------------------------------------
(* Keyboard modes and the screens. *)

(* Which flags are which. *)
LEMMA Kinds ==
  /\ KittyModes \subseteq Flags /\ "ALT_SCREEN" \in Flags /\ "VI" \in Flags /\ "APP_KEYPAD" \in Flags
  /\ KittyModes \intersect MouseModes = {} /\ KittyModes \intersect MouseEncodings = {}
  /\ \A f \in {"VI", "ALT_SCREEN", "APP_KEYPAD"} :
       f \notin KittyModes /\ f \notin MouseModes /\ f \notin MouseEncodings
  <1>1. "SwapScreenAndSetRestoreCursor" \in DOMAIN PrivateFlag
        /\ PrivateFlag["SwapScreenAndSetRestoreCursor"] = "ALT_SCREEN"
    BY DEF PrivateFlag
  <1>2. "ALT_SCREEN" \in Flags BY <1>1 DEF Flags
  <1>3. QED BY <1>2 DEF Flags, KittyModes, MouseModes, MouseEncodings

(* Nothing is sent, and what the UI shows stays the same. *)
LEMMA QuietFine ==
  ASSUME NEW t, Ready(t), NEW u, u \in Terms({u.sent}), u.sent = <<>>,
         u.title = t.title, u.style = t.style, u.config = t.config,
         Len(u.titles) <= MaxStackDepth,
         "VI" \in u.mode <=> "VI" \in t.mode,
         u.mode \intersect MouseModes = t.mode \intersect MouseModes,
         AtMostOne(u.mode \intersect MouseEncodings),
         u.cursor \in {t.cursor, t.other}, u.other \in {t.cursor, t.other},
         ~t.config.kitty => u.mode \intersect KittyModes = {} /\ u.keyboard = <<>> /\ u.inactive = <<>>
  PROVE  Fine(t, u)
  <1>1. cursor_style(u) = cursor_style(t) BY DEF cursor_style, StyleOrDefault
  <1>2. Good(u) BY DEF Ready, Good
  <1>3. QED BY <1>1, <1>2 DEF Fine, Told, SentOne

(* The mode of a stack that is active. *)
LEMMA TopOf ==
  ASSUME NEW stack \in Stacks
  PROVE  Top(stack) \in SUBSET KittyModes /\ Top(<<>>) = {}
  BY DEF Top, Stacks

(* Term::set_keyboard_mode replaces keyboard modes by keyboard modes. *)
Replaced(t, x) == [t EXCEPT !.mode = (t.mode \ KittyModes) \union x]
Applied(t, u) == \E x \in SUBSET KittyModes : u = Replaced(t, x)

(* Whatever is applied; a replacement leaves the given modes. *)
LEMMA ApplyIs ==
  ASSUME NEW s, NEW t \in Terms(s), NEW mode \in SUBSET KittyModes,
         NEW apply \in {"Replace", "Union", "Difference"}
  PROVE  /\ Applied(t, ApplyKeyboardMode(t, mode, apply))
         /\ ApplyKeyboardMode(t, mode, "Replace") = Replaced(t, mode)
  <1>1. ASSUME NEW y \in {"Replace", "Union", "Difference"}
        PROVE  \E x \in SUBSET KittyModes : /\ ApplyKeyboardMode(t, mode, y) = Replaced(t, x)
                                            /\ y = "Replace" => x = mode
    <2> DEFINE active == t.mode \intersect KittyModes
               x == CASE y = "Replace"    -> mode
                      [] y = "Union"      -> active \union mode
                      [] y = "Difference" -> active \ mode
    <2>1. x \in SUBSET KittyModes /\ (y = "Replace" => x = mode) OBVIOUS
    <2>2. ApplyKeyboardMode(t, mode, y) = Insert(Remove(t, KittyModes), x)
      BY Zenon DEF ApplyKeyboardMode
    <2> HIDE DEF x
    <2>3. Insert(Remove(t, KittyModes), x) = Replaced(t, x)
      BY DEF Insert, Remove, Terms, Replaced
    <2>4. QED BY <2>1, <2>2, <2>3
  <1>2. QED BY <1>1 DEF Applied

(* The modes that result. *)
LEMMA ReplacedKitty ==
  ASSUME NEW m \in SUBSET Flags, NEW x \in SUBSET KittyModes
  PROVE  LET n == (m \ KittyModes) \union x
         IN  /\ n \in SUBSET Flags /\ n \intersect KittyModes = x
             /\ "VI" \in n <=> "VI" \in m
             /\ "ALT_SCREEN" \in n <=> "ALT_SCREEN" \in m
             /\ n \intersect MouseModes = m \intersect MouseModes
             /\ n \intersect MouseEncodings = m \intersect MouseEncodings
  BY Kinds

(* Handler::push_keyboard_mode; the title stack may lose an entry. *)
LEMMA PushFine ==
  ASSUME NEW t, Ready(t), NEW mode \in SUBSET KittyModes
  PROVE  Fine(t, push_keyboard_mode(t, mode))
  <1> DEFINE full   == Len(t.keyboard) >= MaxStackDepth
             titles == IF full THEN Tail(t.titles) ELSE t.titles
             k == Append(t.keyboard, mode)
             room == IF full THEN [t EXCEPT !.titles = Tail(@)] ELSE t
             v == [room EXCEPT !.keyboard = Append(@, mode)]
             w == [t EXCEPT !.titles = titles, !.keyboard = k]
             m == (t.mode \ KittyModes) \union mode
             u == [w EXCEPT !.mode = m]
  <1>1. t \in Terms({t.sent}) /\ t.sent = <<>> BY DEF Ready, Good
  <1>2. /\ t.titles \in Seq(Names) /\ Len(t.titles) <= MaxStackDepth /\ t.keyboard \in Stacks
        /\ MaxStackDepth \in Nat /\ t.mode \in SUBSET Flags
    BY Constants DEF Ready, Good, Terms
  <1>3. CASE ~t.config.kitty BY <1>3, AnswerFine DEF push_keyboard_mode
  <1>4. CASE t.config.kitty /\ full /\ t.titles = <<>>
    <2> DEFINE q == [t EXCEPT !.panicked = TRUE]
    <2>1. push_keyboard_mode(t, mode) = q BY <1>4 DEF push_keyboard_mode
    <2>2. /\ q \in Terms({q.sent}) /\ q.mode = t.mode /\ q.title = t.title
          /\ q.titles = t.titles /\ q.keyboard = t.keyboard /\ q.inactive = t.inactive
          /\ q.cursor = t.cursor /\ q.other = t.other /\ q.config = t.config /\ q.style = t.style
          /\ q.sent = <<>>
      BY <1>1 DEF Terms
    <2> HIDE DEF q
    <2>3. QED BY <2>1, <2>2, SameFine DEF SentOne
  <1>5. CASE t.config.kitty /\ ~(full /\ t.titles = <<>>)
    <2>1. push_keyboard_mode(t, mode) = ApplyKeyboardMode(v, mode, "Replace")
      BY <1>5, Zenon DEF push_keyboard_mode
    <2>2. titles \in Seq(Names) /\ Len(titles) <= MaxStackDepth BY <1>2, <1>5
    <2>3. k \in Stacks BY <1>2 DEF Stacks
    <2>4. v = w BY <1>1 DEF Terms
    <2> HIDE DEF titles, k, full, v, room
    <2>5. /\ w \in Terms({t.sent}) /\ w.mode = t.mode /\ w.title = t.title /\ w.titles = titles
          /\ w.cursor = t.cursor /\ w.other = t.other /\ w.config = t.config /\ w.style = t.style
      BY <1>1, <2>2, <2>3 DEF Terms
    <2> HIDE DEF w
    <2>6. ApplyKeyboardMode(w, mode, "Replace") = u BY <2>5, ApplyIs DEF Replaced
    <2>7. /\ m \in SUBSET Flags /\ ("VI" \in m <=> "VI" \in t.mode)
          /\ m \intersect MouseModes = t.mode \intersect MouseModes
          /\ m \intersect MouseEncodings = t.mode \intersect MouseEncodings
      BY <1>2, ReplacedKitty
    <2> HIDE DEF m
    <2>8. /\ u \in Terms({u.sent}) /\ u.sent = t.sent /\ u.mode = m /\ u.title = t.title
          /\ u.titles = titles
          /\ u.cursor = t.cursor /\ u.other = t.other /\ u.config = t.config /\ u.style = t.style
      BY <2>5, <2>7 DEF Terms
    <2> HIDE DEF u
    <2>9. AtMostOne(t.mode \intersect MouseEncodings) BY DEF Ready, Good
    <2>10. Fine(t, u)
      BY <1>1, <1>5, <2>2, <2>7, <2>8, <2>9, QuietFine
    <2>11. QED BY <2>1, <2>4, <2>6, <2>10
  <1>6. QED BY <1>3, <1>4, <1>5

(* Handler::pop_keyboard_modes and report_keyboard_mode. *)
LEMMA PopFine ==
  ASSUME NEW t, Ready(t), NEW n \in Nat \ {0}
  PROVE  Fine(t, pop_keyboard_modes(t, n)) /\ Fine(t, report_keyboard_mode(t))
  <1> DEFINE rest == SubSeq(t.keyboard, 1, IF n >= Len(t.keyboard) THEN 0 ELSE Len(t.keyboard) - n)
             w == [t EXCEPT !.keyboard = rest]
             m == (t.mode \ KittyModes) \union Top(rest)
             u == [w EXCEPT !.mode = m]
  <1>1. t \in Terms({t.sent}) /\ t.sent = <<>> BY DEF Ready, Good
  <1>2. /\ t.keyboard \in Stacks /\ t.mode \in SUBSET Flags /\ Len(t.titles) <= MaxStackDepth
        /\ AtMostOne(t.mode \intersect MouseEncodings)
    BY DEF Ready, Good, Terms
  <1>3. rest \in Stacks BY <1>2 DEF Stacks
  <1>4. pop_keyboard_modes(t, n)
          = IF t.config.kitty THEN ApplyKeyboardMode(w, Top(rest), "Replace") ELSE t
    BY Zenon DEF pop_keyboard_modes
  <1> HIDE DEF rest
  <1>5. /\ w \in Terms({t.sent}) /\ w.sent = t.sent /\ w.mode = t.mode /\ w.title = t.title
        /\ w.titles = t.titles /\ w.cursor = t.cursor /\ w.other = t.other
        /\ w.config = t.config /\ w.style = t.style
    BY <1>1, <1>3 DEF Terms
  <1> HIDE DEF w
  <1>6. Top(rest) \in SUBSET KittyModes BY <1>3, TopOf
  <1>7. ApplyKeyboardMode(w, Top(rest), "Replace") = u BY <1>5, <1>6, ApplyIs DEF Replaced
  <1>8. /\ m \in SUBSET Flags /\ ("VI" \in m <=> "VI" \in t.mode)
        /\ m \intersect MouseModes = t.mode \intersect MouseModes
        /\ m \intersect MouseEncodings = t.mode \intersect MouseEncodings
    BY <1>2, <1>6, ReplacedKitty
  <1> HIDE DEF m
  <1>9. /\ u \in Terms({u.sent}) /\ u.sent = t.sent /\ u.mode = m /\ u.title = t.title
        /\ u.titles = t.titles
        /\ u.cursor = t.cursor /\ u.other = t.other /\ u.config = t.config /\ u.style = t.style
    BY <1>5, <1>8 DEF Terms
  <1> HIDE DEF u
  <1>10. CASE t.config.kitty
    <2>1. Fine(t, u) BY <1>1, <1>2, <1>8, <1>9, <1>10, QuietFine
    <2>2. QED BY <1>4, <1>7, <1>10, <2>1, AnswerFine DEF report_keyboard_mode
  <1>11. CASE ~t.config.kitty BY <1>4, <1>11, AnswerFine DEF report_keyboard_mode
  <1>12. QED BY <1>10, <1>11

(* Handler::set_keyboard_mode. *)
LEMMA SetKeyboardFine ==
  ASSUME NEW t, Ready(t), NEW mode \in SUBSET KittyModes,
         NEW apply \in {"Replace", "Union", "Difference"}
  PROVE  Fine(t, set_keyboard_mode(t, mode, apply))
  <1>1. t \in Terms({t.sent}) /\ t.sent = <<>> BY DEF Ready, Good
  <1>2. PICK x \in SUBSET KittyModes : ApplyKeyboardMode(t, mode, apply) = Replaced(t, x)
    <2>1. Applied(t, ApplyKeyboardMode(t, mode, apply)) BY <1>1, ApplyIs
    <2>2. QED BY <2>1 DEF Applied
  <1> DEFINE m == (t.mode \ KittyModes) \union x
  <1>3. t.mode \in SUBSET Flags /\ AtMostOne(t.mode \intersect MouseEncodings) /\ t.damaged \in BOOLEAN
    BY DEF Ready, Good, Terms
  <1>4. /\ m \in SUBSET Flags /\ ("VI" \in m <=> "VI" \in t.mode)
        /\ m \intersect MouseModes = t.mode \intersect MouseModes
        /\ m \intersect MouseEncodings = t.mode \intersect MouseEncodings
    BY <1>3, ReplacedKitty
  <1>5. ApplyKeyboardMode(t, mode, apply) = [t EXCEPT !.mode = m] BY <1>2 DEF Replaced
  <1> HIDE DEF m
  <1>6. [t EXCEPT !.mode = m] = [t EXCEPT !.mode = m, !.damaged = t.damaged] BY <1>1 DEF Terms
  <1>7. CASE t.config.kitty
    <2>1. Fine(t, [t EXCEPT !.mode = m, !.damaged = t.damaged]) BY <1>3, <1>4, <1>7, ModeFine
    <2>2. QED BY <1>5, <1>6, <1>7, <2>1 DEF set_keyboard_mode
  <1>8. CASE ~t.config.kitty BY <1>8, AnswerFine DEF set_keyboard_mode
  <1>9. QED BY <1>7, <1>8

(* Term::swap_alt brings the keyboard modes of the other screen back. *)
LEMMA SwapFine ==
  ASSUME NEW t, Ready(t)
  PROVE  /\ Fine(t, swap_alt(t))
         /\ "ALT_SCREEN" \in swap_alt(t).mode <=> "ALT_SCREEN" \notin t.mode
         /\ swap_alt(t).sent = <<>> /\ swap_alt(t).style = t.style
  <1> DEFINE c == IF "ALT_SCREEN" \in t.mode THEN t.other ELSE t.cursor
             swapped == [t EXCEPT !.keyboard = t.inactive, !.inactive = t.keyboard,
                                  !.other = t.cursor, !.cursor = c]
             f == IF "ALT_SCREEN" \in t.mode THEN t.mode \ {"ALT_SCREEN"}
                                             ELSE t.mode \union {"ALT_SCREEN"}
             flipped == IF "ALT_SCREEN" \in t.mode THEN Remove(swapped, {"ALT_SCREEN"})
                                                   ELSE Insert(swapped, {"ALT_SCREEN"})
             w == [swapped EXCEPT !.mode = f]
             m == (f \ KittyModes) \union Top(t.inactive)
             v == [w EXCEPT !.mode = m]
             u == [v EXCEPT !.damaged = TRUE]
  <1>1. t \in Terms({t.sent}) /\ t.sent = <<>> BY DEF Ready, Good
  <1>2. /\ t.keyboard \in Stacks /\ t.inactive \in Stacks /\ t.mode \in SUBSET Flags
        /\ Len(t.titles) <= MaxStackDepth /\ AtMostOne(t.mode \intersect MouseEncodings)
        /\ t.cursor \in Cursors /\ t.other \in Cursors
    BY DEF Ready, Good, Terms
  <1>3. swap_alt(t) = mark_fully_damaged(ApplyKeyboardMode(flipped, Top(t.inactive), "Replace"))
    BY Zenon DEF swap_alt
  <1>4. c \in {t.cursor, t.other} /\ c \in Cursors BY <1>2
  <1> HIDE DEF c
  <1>5. /\ swapped \in Terms({t.sent}) /\ swapped.sent = t.sent /\ swapped.mode = t.mode
        /\ swapped.title = t.title /\ swapped.titles = t.titles /\ swapped.cursor = c
        /\ swapped.other = t.cursor /\ swapped.config = t.config /\ swapped.style = t.style
        /\ swapped.keyboard = t.inactive /\ swapped.inactive = t.keyboard
    BY <1>1, <1>2, <1>4 DEF Terms
  <1> HIDE DEF swapped
  <1>6. /\ f \in SUBSET Flags /\ ("VI" \in f <=> "VI" \in t.mode)
        /\ f \intersect MouseModes = t.mode \intersect MouseModes
        /\ f \intersect MouseEncodings = t.mode \intersect MouseEncodings
        /\ ("ALT_SCREEN" \in f <=> "ALT_SCREEN" \notin t.mode)
    BY <1>2, Kinds
  <1>7. flipped = w BY <1>5 DEF Insert, Remove, Terms
  <1> HIDE DEF f, flipped
  <1>8. /\ w \in Terms({t.sent}) /\ w.sent = t.sent /\ w.mode = f
        /\ w.title = t.title /\ w.titles = t.titles /\ w.cursor = c
        /\ w.other = t.cursor /\ w.config = t.config /\ w.style = t.style
        /\ w.keyboard = t.inactive /\ w.inactive = t.keyboard
    BY <1>5, <1>6 DEF Terms
  <1> HIDE DEF w
  <1>9. Top(t.inactive) \in SUBSET KittyModes /\ Top(<<>>) = {} BY <1>2, TopOf
  <1>10. ApplyKeyboardMode(w, Top(t.inactive), "Replace") = v
    BY <1>8, <1>9, ApplyIs DEF Replaced
  <1>11. /\ m \in SUBSET Flags /\ ("VI" \in m <=> "VI" \in f)
         /\ m \intersect MouseModes = f \intersect MouseModes
         /\ m \intersect MouseEncodings = f \intersect MouseEncodings
         /\ ("ALT_SCREEN" \in m <=> "ALT_SCREEN" \in f)
         /\ m \intersect KittyModes = Top(t.inactive)
    BY <1>6, <1>9, ReplacedKitty
  <1> HIDE DEF m
  <1>12. v \in Terms({t.sent}) /\ v.mode = m BY <1>8, <1>11 DEF Terms
  <1>13. /\ u \in Terms({u.sent}) /\ u.sent = t.sent /\ u.mode = m /\ u.title = t.title
         /\ u.titles = t.titles /\ u.keyboard = t.inactive /\ u.inactive = t.keyboard
         /\ u.cursor = c /\ u.other = t.cursor /\ u.config = t.config /\ u.style = t.style
    BY <1>8, <1>12 DEF Terms
  <1>14. swap_alt(t) = u BY <1>3, <1>7, <1>10 DEF mark_fully_damaged
  <1> HIDE DEF u
  <1>15. ~t.config.kitty => u.mode \intersect KittyModes = {} /\ u.keyboard = <<>> /\ u.inactive = <<>>
    BY <1>9, <1>11, <1>13 DEF Ready, Good
  <1>16. Fine(t, u)
    BY <1>1, <1>2, <1>4, <1>6, <1>11, <1>13, <1>15, QuietFine
  <1>17. QED BY <1>1, <1>6, <1>11, <1>13, <1>14, <1>16
-------------------------------------------------------------------------------
(* Setting, unsetting and reporting modes. *)

(* A handler that sends nothing changes nothing that the UI is told of. *)
LEMMA Chain ==
  ASSUME NEW t, NEW v, NEW w, Fine(t, v), v.sent = <<>>, v.config = t.config, Fine(v, w)
  PROVE  Fine(t, w)
  <1>1. \A name : ~Sent(v, name) BY DEF Sent
  <1>2. /\ cursor_style(t).blinking = cursor_style(v).blinking /\ t.title = v.title
        /\ t.mode \intersect MouseModes = v.mode \intersect MouseModes
    BY <1>1 DEF Fine, Told
  <1>3. QED BY <1>2 DEF Fine, Told

(* Flags of private modes are neither keyboard modes nor vi mode. *)
LEMMA PrivateFlags ==
  ASSUME NEW mode \in DOMAIN PrivateFlag
  PROVE  /\ PrivateFlag[mode] \in Flags /\ PrivateFlag[mode] \notin KittyModes
         /\ PrivateFlag[mode] # "VI" /\ MouseModes \intersect MouseEncodings = {}
         /\ mode \notin {"BlinkingCursor", "ColumnMode", "SyncUpdate", "Unknown"}
  <1>1. PrivateFlag[mode] \in Flags BY DEF Flags
  <1>2. QED BY <1>1 DEF PrivateFlag, KittyModes, MouseModes, MouseEncodings

(* Setting a flag drops its rivals, and unsetting it only itself. *)
LEMMA FlagFine ==
  ASSUME NEW t, Ready(t), NEW mode \in DOMAIN PrivateFlag, mode # "SwapScreenAndSetRestoreCursor"
  PROVE  /\ Fine(t, set_private_mode(t, mode)) /\ Fine(t, unset_private_mode(t, mode))
         /\ PrivateFlag[mode] \in set_private_mode(t, mode).mode
         /\ PrivateFlag[mode] \notin unset_private_mode(t, mode).mode
  <1> DEFINE flag == PrivateFlag[mode]
             m == (t.mode \ Rivals(flag)) \union {flag}
             n == t.mode \ {flag}
  <1>1. /\ flag \in Flags /\ flag \notin KittyModes /\ flag # "VI"
        /\ MouseModes \intersect MouseEncodings = {} /\ "VI" \notin Rivals(flag)
        /\ mode \notin {"BlinkingCursor", "ColumnMode", "SyncUpdate", "Unknown"}
    <2>1. "VI" \notin Rivals(flag) BY Kinds DEF Rivals
    <2>2. QED BY <2>1, PrivateFlags
  <1> HIDE DEF flag
  <1>2. /\ t \in Terms({t.sent}) /\ t.mode \in SUBSET Flags /\ t.damaged \in BOOLEAN /\ t.sent = <<>>
        /\ AtMostOne(t.mode \intersect MouseModes) /\ AtMostOne(t.mode \intersect MouseEncodings)
        /\ ~t.config.kitty => t.mode \intersect KittyModes = {}
    BY DEF Ready, Good, Terms
  <1>3. /\ m \in SUBSET Flags /\ n \in SUBSET Flags
        /\ ("VI" \in m <=> "VI" \in t.mode) /\ ("VI" \in n <=> "VI" \in t.mode)
        /\ ~t.config.kitty => m \intersect KittyModes = {} /\ n \intersect KittyModes = {}
        /\ flag \in m /\ flag \notin n
    BY <1>1, <1>2
  <1>4. /\ AtMostOne(m \intersect MouseModes) /\ AtMostOne(m \intersect MouseEncodings)
        /\ AtMostOne(n \intersect MouseModes) /\ AtMostOne(n \intersect MouseEncodings)
    BY <1>1, <1>2 DEF AtMostOne, Rivals
  <1>5. flag \notin MouseModes => /\ m \intersect MouseModes = t.mode \intersect MouseModes
                                  /\ n \intersect MouseModes = t.mode \intersect MouseModes
    BY <1>1 DEF Rivals
  <1>6. /\ Insert(Remove(t, Rivals(flag)), {flag}) = [t EXCEPT !.mode = m]
        /\ Remove(t, {flag}) = [t EXCEPT !.mode = n]
    BY <1>2 DEF Insert, Remove, Terms
  <1>7. /\ set_private_mode(t, mode)
             = LET s == Insert(Remove(t, Rivals(flag)), {flag})
               IN  IF flag \in MouseModes THEN Send(s, <<"MouseCursorDirty">>) ELSE s
        /\ unset_private_mode(t, mode)
             = LET s == Remove(t, {flag})
               IN  IF flag \in MouseModes THEN Send(s, <<"MouseCursorDirty">>) ELSE s
    BY <1>1 DEF set_private_mode, unset_private_mode, flag
  <1> HIDE DEF m, n
  <1>8. CASE flag \in MouseModes
    <2>1. ASSUME NEW x \in {m, n}
          PROVE  /\ Fine(t, Send([t EXCEPT !.mode = x], <<"MouseCursorDirty">>))
                 /\ Send([t EXCEPT !.mode = x], <<"MouseCursorDirty">>).mode = x
      <3>1. Fine(t, Send([t EXCEPT !.mode = x], <<"MouseCursorDirty">>))
        BY <1>2, <1>3, <1>4, <2>1, ModeSent
      <3>2. QED BY <1>2, <3>1 DEF Send, Terms
    <2>2. QED BY <1>3, <1>6, <1>7, <1>8, <2>1 DEF flag
  <1>9. CASE flag \notin MouseModes
    <2>1. ASSUME NEW x \in {m, n}
          PROVE  Fine(t, [t EXCEPT !.mode = x]) /\ [t EXCEPT !.mode = x].mode = x
      <3>1. [t EXCEPT !.mode = x] = [t EXCEPT !.mode = x, !.damaged = t.damaged]
        BY <1>2 DEF Terms
      <3>2. Fine(t, [t EXCEPT !.mode = x, !.damaged = t.damaged])
        BY <1>2, <1>3, <1>4, <1>5, <1>9, <2>1, ModeFine
      <3>3. QED BY <1>2, <3>1, <3>2 DEF Terms
    <2>2. QED BY <1>3, <1>6, <1>7, <1>9, <2>1 DEF flag
  <1>10. QED BY <1>8, <1>9

(* Handler::set_private_mode and unset_private_mode; what they leave behind. *)
Holds(u, mode, on) ==
  /\ mode \in DOMAIN PrivateFlag => (PrivateFlag[mode] \in u.mode <=> on)
  /\ mode = "BlinkingCursor" => u.style \in CursorStyles /\ u.style.blinking = on

(* Blink sets the blinking of a style of its own. *)
LEMMA BlinkIs ==
  ASSUME NEW t, Ready(t), NEW on \in BOOLEAN
  PROVE  Blink(t, on).style \in CursorStyles /\ Blink(t, on).style.blinking = on
  <1> DEFINE o == StyleOrDefault(t)
             b == [o EXCEPT !.blinking = on]
  <1>1. t \in Terms({t.sent}) /\ t.config \in Configs /\ t.style \in CursorStyles \union {None}
    BY DEF Ready, Good, Terms
  <1>2. o \in CursorStyles BY <1>1, Constants DEF StyleOrDefault
  <1>3. Blink(t, on) = Send([t EXCEPT !.style = b], <<"CursorBlinkingChange">>)
    BY Zenon DEF Blink
  <1> HIDE DEF o
  <1>4. b \in CursorStyles /\ b.blinking = on BY <1>2 DEF CursorStyles
  <1> HIDE DEF b
  <1>5. Blink(t, on).style = b BY <1>1, <1>3 DEF Send, Terms
  <1>6. QED BY <1>4, <1>5

(* Both handlers, mode by mode. *)
LEMMA PrivateFine ==
  ASSUME NEW t, Ready(t), NEW mode \in Modes
  PROVE  /\ Fine(t, set_private_mode(t, mode)) /\ Holds(set_private_mode(t, mode), mode, TRUE)
         /\ Fine(t, unset_private_mode(t, mode)) /\ Holds(unset_private_mode(t, mode), mode, FALSE)
  <1> DEFINE screen == "SwapScreenAndSetRestoreCursor"
  <1>0. /\ screen \in DOMAIN PrivateFlag /\ PrivateFlag[screen] = "ALT_SCREEN"
        /\ {"BlinkingCursor", "ColumnMode", "SyncUpdate", "Unknown"} \intersect DOMAIN PrivateFlag = {}
    BY DEF PrivateFlag
  <1>1. CASE mode = screen
    <2>1. /\ set_private_mode(t, mode) = IF "ALT_SCREEN" \in t.mode THEN t ELSE swap_alt(t)
          /\ unset_private_mode(t, mode) = IF "ALT_SCREEN" \in t.mode THEN swap_alt(t) ELSE t
      BY <1>1 DEF set_private_mode, unset_private_mode
    <2>2. Fine(t, t) BY AnswerFine
    <2>3. QED BY <1>0, <1>1, <2>1, <2>2, SwapFine DEF Holds
  <1>2. CASE mode = "BlinkingCursor"
    <2>1. set_private_mode(t, mode) = Blink(t, TRUE) /\ unset_private_mode(t, mode) = Blink(t, FALSE)
      BY <1>0, <1>2 DEF set_private_mode, unset_private_mode
    <2>2. Fine(t, Blink(t, TRUE)) /\ Fine(t, Blink(t, FALSE))
      <3>1. [shape |-> "Block", blinking |-> TRUE] \in CursorStyles BY DEF CursorStyles
      <3>2. QED BY <3>1, StylesFine
    <2>3. QED BY <1>0, <1>2, <2>1, <2>2, BlinkIs DEF Holds
  <1>3. CASE mode = "ColumnMode"
    <2>1. /\ set_private_mode(t, mode) = mark_fully_damaged(t)
          /\ unset_private_mode(t, mode) = mark_fully_damaged(t)
      BY <1>0, <1>3 DEF set_private_mode, unset_private_mode
    <2>2. Fine(t, mark_fully_damaged(t)) BY OtherFine DEF mark_fully_damaged
    <2>3. QED BY <1>0, <1>3, <2>1, <2>2 DEF Holds
  <1>4. CASE mode \in {"SyncUpdate", "Unknown"}
    <2>1. set_private_mode(t, mode) = t /\ unset_private_mode(t, mode) = t
      BY <1>0, <1>4 DEF set_private_mode, unset_private_mode
    <2>2. QED BY <1>0, <1>4, <2>1, AnswerFine DEF Holds
  <1>5. CASE mode \in DOMAIN PrivateFlag /\ mode # screen
    BY <1>0, <1>5, FlagFine DEF Holds
  <1>6. QED BY <1>1, <1>2, <1>3, <1>4, <1>5 DEF Modes

(* What a terminal answers is what its last event says. *)
LEMMA AnswerIs ==
  ASSUME NEW s, NEW u \in Terms(s), SentOne(u), NEW e
  PROVE  Answer(Send(u, e)) = e[3]
  <1>1. Send(u, e).sent = Append(u.sent, e) BY DEF Send, Terms
  <1>2. CASE u.sent = <<>>
    <2>1. Send(u, e).sent = <<e>> BY <1>1, <1>2, AppendOne
    <2>2. QED BY <2>1 DEF Answer
  <1>3. ASSUME NEW d, u.sent = <<d>> PROVE Answer(Send(u, e)) = e[3]
    <2>1. <<d>> \in Seq({d, e}) /\ Len(<<d>>) = 1 OBVIOUS
    <2>2. Len(Append(<<d>>, e)) = 2 /\ Append(<<d>>, e)[2] = e BY <2>1
    <2>3. QED BY <1>1, <1>3, <2>2 DEF Answer
  <1>4. QED BY <1>2, <1>3 DEF SentOne

(* Handler::report_private_mode may give the terminal a style of its own. *)
LEMMA ReportFine ==
  ASSUME NEW t, Ready(t), NEW mode \in Modes
  PROVE  Fine(t, report_private_mode(t, mode))
  <1> DEFINE o == StyleOrDefault(t)
             s == IF mode = "BlinkingCursor" THEN [t EXCEPT !.style = o] ELSE t
             state == CASE mode \in DOMAIN PrivateFlag -> ModeState(PrivateFlag[mode] \in t.mode)
                        [] mode = "BlinkingCursor" -> ModeState(s.style.blinking)
                        [] mode = "SyncUpdate" -> "Reset"
                        [] mode \in {"ColumnMode", "Unknown"} -> "NotSupported"
             e == <<"Report", mode, state>>
  <1>1. report_private_mode(t, mode) = Send(s, e) BY Zenon DEF report_private_mode
  <1> HIDE DEF e
  <1>2. t \in Terms({t.sent}) /\ t.config \in Configs /\ t.style \in CursorStyles \union {None}
    BY DEF Ready, Good, Terms
  <1>3. o \in CursorStyles /\ o # None BY <1>2, Constants DEF StyleOrDefault
  <1>4. Fine(t, [t EXCEPT !.style = o]) /\ Fine(t, t) BY <1>3, StyleFine, AnswerFine
  <1> HIDE DEF o
  <1>5. s.sent = <<>> /\ s.config = t.config BY <1>2 DEF Ready, Terms
  <1>6. Fine(t, s) BY <1>4
  <1> HIDE DEF s
  <1>7. Ready(s) BY <1>5, <1>6 DEF Ready, Fine
  <1>8. Fine(s, Send(s, e)) BY <1>7, AnswerFine
  <1>9. QED BY <1>1, <1>5, <1>6, <1>8, Chain

(* A mode is reported as it holds. *)
Expected(mode, on) ==
  CASE mode = "SyncUpdate" -> "Reset"
    [] mode \in {"ColumnMode", "Unknown"} -> "NotSupported"
    [] OTHER -> ModeState(on)

(* Whatever was sent before, the report says how the mode is. *)
LEMMA ReportIs ==
  ASSUME NEW u, Good(u), SentOne(u), NEW mode \in Modes, NEW on \in BOOLEAN, Holds(u, mode, on)
  PROVE  Answer(report_private_mode(u, mode)) = Expected(mode, on)
  <1> DEFINE o == StyleOrDefault(u)
             s == IF mode = "BlinkingCursor" THEN [u EXCEPT !.style = o] ELSE u
             state == CASE mode \in DOMAIN PrivateFlag -> ModeState(PrivateFlag[mode] \in u.mode)
                        [] mode = "BlinkingCursor" -> ModeState(s.style.blinking)
                        [] mode = "SyncUpdate" -> "Reset"
                        [] mode \in {"ColumnMode", "Unknown"} -> "NotSupported"
             e == <<"Report", mode, state>>
  <1>1. report_private_mode(u, mode) = Send(s, e) BY Zenon DEF report_private_mode
  <1>2. u \in Terms({u.sent}) /\ u.config \in Configs /\ u.style \in CursorStyles \union {None}
    BY DEF Good, Terms
  <1>3. o \in CursorStyles BY <1>2, Constants DEF StyleOrDefault
  <1>4. mode = "BlinkingCursor" => o = u.style
    BY Constants DEF Holds, StyleOrDefault
  <1> HIDE DEF o
  <1>5. /\ s \in Terms({u.sent}) /\ s.sent = u.sent
        /\ mode = "BlinkingCursor" => s.style = u.style
    BY <1>2, <1>3, <1>4 DEF Terms
  <1> HIDE DEF s
  <1>6. {"BlinkingCursor", "ColumnMode", "SyncUpdate", "Unknown"} \intersect DOMAIN PrivateFlag = {}
    BY DEF PrivateFlag
  <1>7. state = Expected(mode, on)
    <2>1. CASE mode \in DOMAIN PrivateFlag
      <3>1. state = ModeState(PrivateFlag[mode] \in u.mode) BY <1>6, <2>1
      <3>2. Expected(mode, on) = ModeState(on) BY <1>6, <2>1 DEF Expected
      <3>3. PrivateFlag[mode] \in u.mode <=> on BY <2>1 DEF Holds
      <3>4. QED BY <3>1, <3>2, <3>3 DEF ModeState
    <2>2. CASE mode = "BlinkingCursor"
      <3>1. state = ModeState(s.style.blinking) BY <1>6, <2>2
      <3>2. Expected(mode, on) = ModeState(on) BY <2>2 DEF Expected
      <3>3. s.style.blinking = on BY <1>5, <2>2 DEF Holds
      <3>4. QED BY <3>1, <3>2, <3>3
    <2>3. CASE mode \in {"SyncUpdate", "ColumnMode", "Unknown"} BY <1>6, <2>3 DEF Expected
    <2>4. QED BY <2>1, <2>2, <2>3 DEF Modes
  <1> HIDE DEF state
  <1>8. e[3] = state OBVIOUS
  <1> HIDE DEF e
  <1>9. Answer(Send(s, e)) = e[3] BY <1>5, AnswerIs DEF SentOne
  <1>10. QED BY <1>1, <1>7, <1>8, <1>9

(* Handler::set_mode, unset_mode and report_mode, and the keypad. *)
LEMMA PublicFine ==
  ASSUME NEW t, Ready(t), NEW mode \in PublicModes
  PROVE  /\ Fine(t, set_mode(t, mode)) /\ Fine(t, unset_mode(t, mode)) /\ Fine(t, report_mode(t, mode))
         /\ Fine(t, set_keypad_application_mode(t)) /\ Fine(t, unset_keypad_application_mode(t))
         /\ mode \in DOMAIN PublicFlag => /\ PublicFlag[mode] \in set_mode(t, mode).mode
                                          /\ PublicFlag[mode] \notin unset_mode(t, mode).mode
  <1>1. /\ t \in Terms({t.sent}) /\ t.mode \in SUBSET Flags /\ t.damaged \in BOOLEAN
        /\ AtMostOne(t.mode \intersect MouseEncodings)
        /\ ~t.config.kitty => t.mode \intersect KittyModes = {}
    BY DEF Ready, Good, Terms
  <1>2. ASSUME NEW f, f \in {"INSERT", "LINE_FEED_NEW_LINE", "APP_KEYPAD"}
        PROVE  /\ Fine(t, Insert(t, {f})) /\ f \in Insert(t, {f}).mode
               /\ Fine(t, Remove(t, {f})) /\ f \notin Remove(t, {f}).mode
               /\ Fine(t, mark_fully_damaged(Remove(t, {f})))
               /\ f \notin mark_fully_damaged(Remove(t, {f})).mode
    <2>1. /\ f \in Flags /\ f # "VI" /\ f \notin KittyModes /\ f \notin MouseModes
          /\ f \notin MouseEncodings
      <3>1. f \in Flags BY <1>2, Kinds DEF Flags, PublicFlag
      <3>2. QED BY <1>2, <3>1 DEF KittyModes, MouseModes, MouseEncodings
    <2> DEFINE m == t.mode \union {f}
               n == t.mode \ {f}
    <2>2. ASSUME NEW x, x = m \/ x = n
          PROVE  /\ x \in SUBSET Flags /\ ("VI" \in x <=> "VI" \in t.mode)
                 /\ x \intersect MouseModes = t.mode \intersect MouseModes
                 /\ AtMostOne(x \intersect MouseEncodings)
                 /\ ~t.config.kitty => x \intersect KittyModes = {}
      BY <1>1, <2>1, <2>2 DEF AtMostOne
    <2>3. /\ Insert(t, {f}) = [t EXCEPT !.mode = m, !.damaged = t.damaged]
          /\ Remove(t, {f}) = [t EXCEPT !.mode = n, !.damaged = t.damaged]
          /\ mark_fully_damaged(Remove(t, {f})) = [t EXCEPT !.mode = n, !.damaged = TRUE]
      BY <1>1 DEF Insert, Remove, mark_fully_damaged, Terms
    <2>4. f \in m /\ f \notin n OBVIOUS
    <2> HIDE DEF m, n
    <2>5. /\ Fine(t, [t EXCEPT !.mode = m, !.damaged = t.damaged])
          /\ Fine(t, [t EXCEPT !.mode = n, !.damaged = t.damaged])
          /\ Fine(t, [t EXCEPT !.mode = n, !.damaged = TRUE])
      BY <1>1, <2>2, ModeFine
    <2>6. QED BY <1>1, <2>3, <2>4, <2>5 DEF Terms
  <1>3. /\ DOMAIN PublicFlag = {"Insert", "LineFeedNewLine"} /\ PublicFlag["Insert"] = "INSERT"
        /\ PublicFlag["LineFeedNewLine"] = "LINE_FEED_NEW_LINE"
    BY DEF PublicFlag
  <1>4. Fine(t, t) /\ Fine(t, report_mode(t, mode)) BY AnswerFine DEF report_mode
  <1> HIDE DEF Insert, Remove, mark_fully_damaged
  <1>5. Fine(t, set_keypad_application_mode(t)) /\ Fine(t, unset_keypad_application_mode(t))
    BY <1>2 DEF set_keypad_application_mode, unset_keypad_application_mode
  <1>6. CASE mode = "Insert" BY <1>2, <1>3, <1>4, <1>5, <1>6 DEF set_mode, unset_mode
  <1>7. CASE mode = "LineFeedNewLine" BY <1>2, <1>3, <1>4, <1>5, <1>7 DEF set_mode, unset_mode
  <1>8. CASE mode = "Unknown" BY <1>3, <1>4, <1>5, <1>8 DEF set_mode, unset_mode
  <1>9. QED BY <1>3, <1>6, <1>7, <1>8 DEF PublicModes
-------------------------------------------------------------------------------
(* Everything else a program, the options, the user or the renderer does. *)

(* Handler::set_color and reset_color; the renderer draws. *)
LEMMA ColorFine ==
  ASSUME NEW t, Ready(t), NEW index \in Colors
  PROVE  /\ Fine(t, set_color(t, index)) /\ Fine(t, reset_color(t, index))
         /\ Fine(t, dynamic_color_sequence(t, index)) /\ Fine(t, [t EXCEPT !.damaged = FALSE])
  <1>1. t \in Terms({t.sent}) /\ t.colors \in SUBSET Colors BY DEF Ready, Good, Terms
  <1>2. /\ t.colors \union {index} \in SUBSET Colors /\ t.colors \ {index} \in SUBSET Colors
        /\ "G0" \in {"G0", "G1"}
    BY <1>1
  <1>3. ASSUME NEW c \in SUBSET Colors
        PROVE  /\ Fine(t, [t EXCEPT !.colors = c])
               /\ [mark_fully_damaged(t) EXCEPT !.colors = c] = [t EXCEPT !.damaged = TRUE, !.colors = c]
               /\ Fine(t, [mark_fully_damaged(t) EXCEPT !.colors = c])
    <2>1. [mark_fully_damaged(t) EXCEPT !.colors = c] = [t EXCEPT !.damaged = TRUE, !.colors = c]
      BY <1>1 DEF mark_fully_damaged, Terms
    <2>2. QED BY <1>2, <2>1, OtherFine
  <1>4. /\ set_color(t, index) \in {[t EXCEPT !.colors = t.colors \union {index}],
                                    [mark_fully_damaged(t) EXCEPT !.colors = t.colors \union {index}]}
        /\ reset_color(t, index) \in {[t EXCEPT !.colors = t.colors \ {index}],
                                      [mark_fully_damaged(t) EXCEPT !.colors = t.colors \ {index}]}
    BY <1>1 DEF set_color, reset_color, mark_fully_damaged, Terms
  <1>5. Fine(t, [t EXCEPT !.damaged = FALSE]) BY <1>1, <1>2, OtherFine
  <1>6. Fine(t, set_color(t, index)) BY <1>2, <1>3, <1>4
  <1>7. Fine(t, reset_color(t, index)) BY <1>2, <1>3, <1>4
  <1>8. QED BY <1>5, <1>6, <1>7, AnswerFine DEF dynamic_color_sequence

(* Handlers that only answer. *)
LEMMA QueryFine ==
  ASSUME NEW t, Ready(t), NEW x
  PROVE  /\ Fine(t, clipboard_store(t, x)) /\ Fine(t, clipboard_load(t, x))
         /\ Fine(t, identify_terminal(t, x)) /\ Fine(t, device_status(t, x))
         /\ Fine(t, text_area_size(t, x)) /\ Fine(t, bell(t))
  BY AnswerFine DEF clipboard_store, clipboard_load, identify_terminal, device_status,
                    text_area_size, bell

(* Term::toggle_vi_mode *)
LEMMA ViFine ==
  ASSUME NEW t, Ready(t)
  PROVE  Fine(t, toggle_vi_mode(t))
  <1> DEFINE m == IF "VI" \in t.mode THEN t.mode \ {"VI"} ELSE t.mode \union {"VI"}
             e == <<"CursorBlinkingChange">>
  <1>1. /\ t \in Terms({t.sent}) /\ t.mode \in SUBSET Flags
        /\ AtMostOne(t.mode \intersect MouseModes) /\ AtMostOne(t.mode \intersect MouseEncodings)
        /\ ~t.config.kitty => t.mode \intersect KittyModes = {}
    BY DEF Ready, Good, Terms
  <1>2. toggle_vi_mode(t) = Send([t EXCEPT !.mode = m], e) BY <1>1 DEF toggle_vi_mode, Terms
  <1>3. /\ m \in SUBSET Flags /\ m \intersect MouseModes = t.mode \intersect MouseModes
        /\ m \intersect MouseEncodings = t.mode \intersect MouseEncodings
        /\ m \intersect KittyModes = t.mode \intersect KittyModes
    BY <1>1, Kinds
  <1> HIDE DEF m
  <1>4. Fine(t, Send([t EXCEPT !.mode = m], e)) BY <1>1, <1>3, ModeSent
  <1>5. QED BY <1>2, <1>4

(* A new terminal. *)
LEMMA DefaultFlags ==
  /\ DefaultMode \subseteq Flags /\ DefaultMode \intersect KittyModes = {}
  /\ DefaultMode \intersect MouseModes = {} /\ DefaultMode \intersect MouseEncodings = {}
  <1>1. \A m \in DOMAIN PrivateFlag : PrivateFlag[m] \in Flags BY DEF Flags
  <1>2. /\ PrivateFlag["UrgencyHints"] = "URGENCY_HINTS" /\ PrivateFlag["ShowCursor"] = "SHOW_CURSOR"
        /\ PrivateFlag["AlternateScroll"] = "ALTERNATE_SCROLL" /\ PrivateFlag["LineWrap"] = "LINE_WRAP"
        /\ {"UrgencyHints", "ShowCursor", "AlternateScroll", "LineWrap"} \subseteq DOMAIN PrivateFlag
    BY DEF PrivateFlag
  <1>3. DefaultMode \subseteq Flags BY <1>1, <1>2 DEF DefaultMode
  <1>4. QED BY <1>3 DEF DefaultMode, KittyModes, MouseModes, MouseEncodings

(* Term::new makes a terminal that is ready. *)
LEMMA NewGood ==
  ASSUME NEW config \in Configs
  PROVE  Ready(new_term(config))
  <1> DEFINE t == new_term(config)
  <1>1. NewCursor \in Cursors /\ NewCursor.template = {}
    BY DEF NewCursor, Cursors, Charsets, Marks
  <1>2. /\ t.mode = DefaultMode /\ t.keyboard = <<>> /\ t.inactive = <<>> /\ t.titles = <<>>
        /\ t.cursor = NewCursor /\ t.other = NewCursor /\ t.sent = <<>>
    BY DEF new_term
  <1>3. t \in Terms({t.sent})
    <2>1. <<>> \in Stacks /\ <<>> \in Seq(Names) BY DEF Stacks
    <2> HIDE DEF NewCursor
    <2>2. QED BY <1>1, <2>1, DefaultFlags DEF new_term, Terms, Names, Stacks
  <1>4. Len(<<>>) <= MaxStackDepth BY Constants
  <1> HIDE DEF t
  <1>5. Good(t) BY <1>1, <1>2, <1>3, <1>4, DefaultFlags DEF Good, AtMostOne
  <1>6. QED BY <1>2, <1>5 DEF Ready, t

(* Handler::reset_state tells of the blinking. *)
LEMMA ResetGood ==
  ASSUME NEW t, Ready(t)
  PROVE  /\ Good(reset_state(t)) /\ reset_state(t).config = t.config
         /\ SentOne(reset_state(t)) /\ Sent(reset_state(t), "CursorBlinkingChange")
  <1> DEFINE v == new_term(t.config)
             m == v.mode \union (t.mode \intersect {"VI"})
             w == mark_fully_damaged([v EXCEPT !.mode = m, !.colors = t.colors])
             e == <<"CursorBlinkingChange">>
             u == Send(w, e)
  <1>1. t.config \in Configs /\ t.mode \in SUBSET Flags /\ t.colors \in SUBSET Colors
    BY DEF Ready, Good, Terms
  <1>2. Ready(v) /\ v.config = t.config /\ v.mode = DefaultMode
    BY <1>1, NewGood DEF new_term
  <1>3. reset_state(t) = u
    <2>1. reset_state(t) = Send(mark_fully_damaged([v EXCEPT !.mode = @ \union (t.mode \intersect {"VI"}),
                                                             !.colors = t.colors]), e)
      BY Zenon DEF reset_state
    <2>2. QED BY <2>1 DEF new_term
  <1> HIDE DEF v
  <1>4. v \in Terms({v.sent}) /\ v.sent = <<>> BY <1>2 DEF Ready, Good
  <1>5. /\ m \in SUBSET Flags /\ m \intersect MouseModes = {} /\ m \intersect MouseEncodings = {}
        /\ m \intersect KittyModes = {}
    BY <1>1, <1>2, DefaultFlags, Kinds
  <1> HIDE DEF m
  <1>6. u.sent = <<e>> BY <1>4, AppendOne DEF Send, mark_fully_damaged, Terms
  <1>7. /\ u \in Terms({u.sent}) /\ u.mode = m /\ u.title = v.title
        /\ u.titles = v.titles /\ u.keyboard = v.keyboard /\ u.inactive = v.inactive
        /\ u.cursor = v.cursor /\ u.other = v.other /\ u.config = v.config
    BY <1>1, <1>4, <1>5, <1>6 DEF Terms, Send, mark_fully_damaged
  <1>8. e[1] = "CursorBlinkingChange" OBVIOUS
  <1> HIDE DEF u, e
  <1>9. SentOne(u) /\ Sent(u, "CursorBlinkingChange") BY <1>6, <1>8, SentIs
  <1>10. Good(u) BY <1>2, <1>5, <1>7 DEF Ready, Good, AtMostOne
  <1>11. QED BY <1>2, <1>3, <1>7, <1>9, <1>10

(* Term::set_options; turning the kitty protocol off or on clears both stacks. *)
LEMMA OptionsFine ==
  ASSUME NEW t, Ready(t), NEW config \in Configs
  PROVE  Fine(t, set_options(t, config))
  <1> DEFINE e == IF t.title = None THEN <<"ResetTitle">> ELSE <<"Title", t.title>>
             told == Send([t EXCEPT !.config = config], e)
             cleared == IF config.kitty = t.config.kitty THEN told
                        ELSE Remove([told EXCEPT !.keyboard = <<>>, !.inactive = <<>>], KittyModes)
             u == mark_fully_damaged(cleared)
  <1>1. set_options(t, config) = u BY Zenon DEF set_options
  <1>2. /\ t \in Terms({t.sent}) /\ t.sent = <<>> /\ t.mode \in SUBSET Flags /\ t.config \in Configs
        /\ config.kitty \in BOOLEAN /\ t.config.kitty \in BOOLEAN
    BY Constants DEF Ready, Good, Terms
  <1> HIDE DEF e
  <1>3. told.sent = <<e>> BY <1>2, AppendOne DEF Send, Terms
  <1>4. /\ told \in Terms({told.sent}) /\ told.mode = t.mode /\ told.title = t.title
        /\ told.titles = t.titles /\ told.keyboard = t.keyboard /\ told.inactive = t.inactive
        /\ told.cursor = t.cursor /\ told.other = t.other /\ told.config = config
        /\ told.style = t.style
    BY <1>2, <1>3 DEF Terms, Send
  <1> HIDE DEF told
  <1>5. /\ u \in Terms({told.sent}) /\ u.sent = told.sent /\ u.titles = t.titles /\ u.title = t.title
        /\ u.cursor = t.cursor /\ u.other = t.other /\ u.config = config /\ u.style = t.style
        /\ config.kitty = t.config.kitty =>
             u.mode = t.mode /\ u.keyboard = t.keyboard /\ u.inactive = t.inactive
        /\ config.kitty # t.config.kitty =>
             u.mode = t.mode \ KittyModes /\ u.keyboard = <<>> /\ u.inactive = <<>>
    <2>1. CASE config.kitty = t.config.kitty
      BY <1>4, <2>1 DEF Terms, mark_fully_damaged
    <2>2. CASE config.kitty # t.config.kitty
      <3>1. t.mode \ KittyModes \in SUBSET Flags /\ <<>> \in Stacks BY <1>2 DEF Stacks
      <3>2. QED BY <1>4, <2>2, <3>1 DEF Terms, mark_fully_damaged, Remove
    <2>3. QED BY <2>1, <2>2
  <1> HIDE DEF u
  <1>6. Good(u)
    <2>1. CASE config.kitty = t.config.kitty BY <1>5, <2>1 DEF Ready, Good
    <2>2. CASE config.kitty # t.config.kitty
      <3>1. /\ u.mode \subseteq t.mode /\ u.mode \intersect KittyModes = {} BY <1>5, <2>2
      <3>2. QED BY <1>5, <2>2, <3>1 DEF Ready, Good, AtMostOne
    <2>3. QED BY <2>1, <2>2
  <1>7. Told(t, u)
    <2>1. ASSUME config = t.config PROVE cursor_style(u) = cursor_style(t)
      BY <1>5, <2>1 DEF cursor_style, StyleOrDefault
    <2>2. QED BY <1>5, <2>1 DEF Told
  <1>8. SentOne(u) BY <1>3, <1>5 DEF SentOne
  <1>9. QED BY <1>1, <1>6, <1>7, <1>8 DEF Fine
-------------------------------------------------------------------------------
(* Steps. *)

(* What is left of the events once the answers are taken out. *)
Kept(u) == [u EXCEPT !.sent = IF @ # <<>> /\ IsNotice(@[1]) THEN @ ELSE <<>>]
Notices == {"CursorBlinkingChange", "MouseCursorDirty", "Title", "ResetTitle"}

(* Dropping the answers keeps the events the UI is told by. *)
LEMMA KeptGood ==
  ASSUME NEW u, Good(u)
  PROVE  /\ Good(Kept(u)) /\ \A name \in Notices : Sent(u, name) /\ SentOne(u) => Sent(Kept(u), name)
         /\ cursor_style(Kept(u)) = cursor_style(u) /\ Kept(u).mode = u.mode
         /\ Kept(u).title = u.title /\ Kept(u).config = u.config
  <1> DEFINE kept == IF u.sent # <<>> /\ IsNotice(u.sent[1]) THEN u.sent ELSE <<>>
             v == [u EXCEPT !.sent = kept]
  <1>1. u \in Terms({u.sent}) BY DEF Good
  <1>2. Kept(u) = v BY <1>1 DEF Kept, Terms
  <1>3. ASSUME NEW name \in Notices, Sent(u, name), SentOne(u) PROVE kept = u.sent
    <2>1. PICK i \in DOMAIN u.sent : u.sent[i][1] = name BY <1>3 DEF Sent
    <2>2. u.sent # <<>> BY <2>1
    <2>3. PICK e : u.sent = <<e>> BY <1>3, <2>2 DEF SentOne
    <2>4. u.sent[1] = e /\ e[1] = name BY <2>1, <2>3
    <2>5. IsNotice(u.sent[1]) BY <2>4 DEF IsNotice, Notices
    <2>6. QED BY <2>2, <2>5
  <1> HIDE DEF kept
  <1>4. /\ v \in Terms({v.sent}) /\ v.sent = kept /\ v.mode = u.mode /\ v.title = u.title
        /\ v.titles = u.titles /\ v.keyboard = u.keyboard /\ v.inactive = u.inactive
        /\ v.cursor = u.cursor /\ v.other = u.other /\ v.config = u.config /\ v.style = u.style
    BY <1>1 DEF Terms
  <1> HIDE DEF v
  <1>5. Good(v) BY <1>4 DEF Good
  <1>6. cursor_style(v) = cursor_style(u) BY <1>4 DEF cursor_style, StyleOrDefault
  <1>7. \A name \in Notices : Sent(u, name) /\ SentOne(u) => Sent(v, name)
    BY <1>3, <1>4 DEF Sent
  <1>8. QED BY <1>2, <1>4, <1>5, <1>6, <1>7

(* The terminal before a handler runs differs in the events only. *)
LEMMA NowReady ==
  ASSUME Good(term)
  PROVE  /\ Ready(Now) /\ cursor_style(Now) = cursor_style(term) /\ Now.mode = term.mode
         /\ Now.title = term.title /\ Now.config = term.config
  <1> DEFINE v == [term EXCEPT !.sent = <<>>]
  <1>1. term \in Terms({term.sent}) BY DEF Good
  <1>2. /\ v \in Terms({v.sent}) /\ v.sent = <<>> /\ v.mode = term.mode /\ v.title = term.title
        /\ v.titles = term.titles /\ v.keyboard = term.keyboard /\ v.inactive = term.inactive
        /\ v.cursor = term.cursor /\ v.other = term.other /\ v.config = term.config
        /\ v.style = term.style
    BY <1>1 DEF Terms
  <1> HIDE DEF v
  <1>3. Ready(v) BY <1>2 DEF Ready, Good
  <1>4. cursor_style(v) = cursor_style(term) BY <1>2 DEF cursor_style, StyleOrDefault
  <1>5. Now = v BY DEF Now, v
  <1>6. QED BY <1>2, <1>3, <1>4, <1>5

(* A step of a handler that guarantees Fine. *)
LEMMA StepFine ==
  ASSUME Good(term), NEW u, Fine(Now, u), Step(u)
  PROVE  Good(term') /\ Told(term, term')
  <1>1. term' = Kept(u) BY DEF Step, Kept
  <1>2. Good(u) /\ Told(Now, u) /\ SentOne(u) BY DEF Fine
  <1>3. /\ Good(term') /\ cursor_style(term') = cursor_style(u) /\ term'.mode = u.mode
        /\ term'.title = u.title /\ term'.config = u.config
        /\ \A name \in Notices : Sent(u, name) => Sent(term', name)
    BY <1>1, <1>2, KeptGood
  <1>4. /\ cursor_style(Now) = cursor_style(term) /\ Now.mode = term.mode
        /\ Now.title = term.title /\ Now.config = term.config
    BY NowReady
  <1>5. Told(term, term') BY <1>2, <1>3, <1>4 DEF Told, Notices
  <1>6. QED BY <1>3, <1>5

(* Every step but a reset makes a fine terminal. *)
LEMMA NextFine ==
  ASSUME Good(term), Next
  PROVE  /\ Good(term') /\ (Reset \/ Told(term, term'))
         /\ term'.config = term.config =>
              (cursor_style(term).blinking # cursor_style(term').blinking
                 => Sent(term', "CursorBlinkingChange"))
  <1>0. Ready(Now) BY NowReady
  <1>1. SUFFICES ASSUME ~Reset PROVE Good(term') /\ Told(term, term')
    <2>1. CASE Reset
      <3> DEFINE u == reset_state(Now)
      <3>1. Good(u) /\ SentOne(u) /\ Sent(u, "CursorBlinkingChange") BY <1>0, ResetGood
      <3>2. term' = Kept(u) BY <2>1 DEF Reset, Step, Kept
      <3> HIDE DEF u
      <3>3. QED BY <2>1, <3>1, <3>2, KeptGood DEF Notices
    <2>2. QED BY <1>1, <2>1 DEF Told
  <1>2. CASE PrivateMode
    <2>1. PICK mode \in SomeModes : \/ Step(set_private_mode(Now, mode))
                                    \/ Step(unset_private_mode(Now, mode))
                                    \/ Step(report_private_mode(Now, mode))
      BY <1>2 DEF PrivateMode
    <2>2. mode \in Modes BY Constants
    <2>3. /\ Fine(Now, set_private_mode(Now, mode)) /\ Fine(Now, unset_private_mode(Now, mode))
          /\ Fine(Now, report_private_mode(Now, mode))
      BY <1>0, <2>2, PrivateFine, ReportFine
    <2>4. QED BY <2>1, <2>3, StepFine
  <1>3. CASE PublicMode BY <1>0, <1>3, PublicFine, StepFine DEF PublicMode
  <1>4. CASE Keyboard
    <2>1. ASSUME NEW mode \in Keyboards
          PROVE  /\ Fine(Now, push_keyboard_mode(Now, mode))
                 /\ \A apply \in {"Replace", "Union", "Difference"} :
                      Fine(Now, set_keyboard_mode(Now, mode, apply))
      BY <1>0, Constants, PushFine, SetKeyboardFine
    <2>2. ASSUME NEW n \in {1, MaxStackDepth + 1}
          PROVE  Fine(Now, pop_keyboard_modes(Now, n)) /\ Fine(Now, report_keyboard_mode(Now))
      <3>1. n \in Nat \ {0} BY Constants
      <3>2. QED BY <1>0, <3>1, PopFine
    <2>3. QED BY <1>4, <2>1, <2>2, StepFine DEF Keyboard
  <1>5. CASE Keypad
    <2>1. "Unknown" \in PublicModes BY DEF PublicModes
    <2>2. QED BY <1>0, <1>5, <2>1, PublicFine, StepFine DEF Keypad
  <1>6. CASE Title
    <2>1. <<>> \in Seq(Names) /\ Len(<<>>) <= MaxStackDepth BY Constants
    <2>2. \A title \in Titles \union {None} : Fine(Now, set_title(Now, title))
      BY <1>0, <2>1, TitleFine DEF Names
    <2>3. QED BY <1>0, <1>6, <2>2, StackFine, StepFine DEF Title
  <1>7. CASE Style
    <2>1. [shape |-> "Block", blinking |-> TRUE] \in CursorStyles BY DEF CursorStyles
    <2>2. \A style \in Styles \union {None} : Fine(Now, set_cursor_style(Now, style))
      BY <1>0, <2>1, Constants, StylesFine
    <2>3. \A style \in Styles : Fine(Now, set_cursor_shape(Now, style.shape))
      BY <1>0, Constants, StylesFine
    <2>4. QED BY <1>7, <2>2, <2>3, StepFine DEF Style
  <1>8. CASE Attributes
    <2>1. \A attr \in SomeAttrs : Fine(Now, terminal_attribute(Now, attr))
      BY <1>0, Constants, AttributeFine
    <2>2. /\ \A on \in BOOLEAN : Fine(Now, set_hyperlink(Now, on))
          /\ \A charset \in {"Ascii", "LineDrawing"} : Fine(Now, configure_charset(Now, "G1", charset))
      BY <1>0, HyperlinkFine
    <2>3. \A index \in {"G0", "G1"} : Fine(Now, set_active_charset(Now, index))
      BY <1>0, OtherFine DEF set_active_charset
    <2>4. QED BY <1>8, <2>1, <2>2, <2>3, StepFine DEF Attributes
  <1>9. CASE Color BY <1>0, <1>9, ColorFine, StepFine DEF Color, Colors
  <1>10. CASE Clipboard BY <1>0, <1>10, QueryFine, StepFine DEF Clipboard
  <1>11. CASE Query BY <1>0, <1>11, QueryFine, StepFine DEF Query
  <1>12. CASE SetOptions BY <1>0, <1>12, OptionsFine, StepFine DEF SetOptions
  <1>13. CASE ToggleVi BY <1>0, <1>13, ViFine, StepFine DEF ToggleVi
  <1>14. CASE Draw
    <2>1. "Red" \in Colors BY DEF Colors
    <2>2. Fine(Now, [Now EXCEPT !.damaged = FALSE]) BY <1>0, <2>1, ColorFine
    <2>3. QED BY <1>14, <2>2, StepFine DEF Draw
  <1>15. QED
    BY <1>1, <1>2, <1>3, <1>4, <1>5, <1>6, <1>7, <1>8, <1>9, <1>10, <1>11, <1>12, <1>13, <1>14
       DEF Next
-------------------------------------------------------------------------------
(* What the invariant says. *)

(* What AtMostOne says of the size of a set. *)
LEMMA AtMostOneIs ==
  ASSUME NEW set, AtMostOne(set)
  PROVE  Cardinality(set) <= 1
  <1>1. CASE set = {} BY <1>1, FS_EmptySet
  <1>2. CASE set # {}
    <2>1. PICK a : a \in set BY <1>2
    <2>2. set = {a} BY <2>1 DEF AtMostOne
    <2>3. QED BY <2>2, FS_Singleton
  <1>3. QED BY <1>1, <1>2

(* A mode set or unset in a good terminal is reported so. *)
LEMMA GoodReports ==
  ASSUME Good(term)
  PROVE  ReportsWhatWasSet
  <1>1. Ready(Now) BY NowReady
  <1>2. ASSUME NEW mode \in Modes
        PROVE  /\ Answer(report_private_mode(set_private_mode(Now, mode), mode)) = Expected(mode, TRUE)
               /\ Answer(report_private_mode(unset_private_mode(Now, mode), mode)) = Expected(mode, FALSE)
    <2>1. /\ Good(set_private_mode(Now, mode)) /\ SentOne(set_private_mode(Now, mode))
          /\ Good(unset_private_mode(Now, mode)) /\ SentOne(unset_private_mode(Now, mode))
          /\ Holds(set_private_mode(Now, mode), mode, TRUE)
          /\ Holds(unset_private_mode(Now, mode), mode, FALSE)
      BY <1>1, PrivateFine DEF Fine
    <2>2. QED BY <2>1, ReportIs
  <1>3. ASSUME NEW mode \in Modes
        PROVE  <<Expected(mode, TRUE), Expected(mode, FALSE)>>
                 = CASE mode = "SyncUpdate" -> <<"Reset", "Reset">>
                     [] mode \in {"ColumnMode", "Unknown"} -> <<"NotSupported", "NotSupported">>
                     [] OTHER -> <<"Set", "Reset">>
    BY DEF Expected, ModeState
  <1>4. ASSUME NEW mode \in DOMAIN PublicFlag
        PROVE  /\ Answer(report_mode(set_mode(Now, mode), mode)) = "Set"
               /\ Answer(report_mode(unset_mode(Now, mode), mode)) = "Reset"
    <2>1. mode \in PublicModes BY DEF PublicModes
    <2>2. /\ Good(set_mode(Now, mode)) /\ SentOne(set_mode(Now, mode))
          /\ Good(unset_mode(Now, mode)) /\ SentOne(unset_mode(Now, mode))
          /\ PublicFlag[mode] \in set_mode(Now, mode).mode
          /\ PublicFlag[mode] \notin unset_mode(Now, mode).mode
      BY <1>1, <2>1, PublicFine DEF Fine
    <2>3. ASSUME NEW u, Good(u), SentOne(u)
          PROVE  Answer(report_mode(u, mode)) = ModeState(PublicFlag[mode] \in u.mode)
      <3> DEFINE e == <<"Report", mode, ModeState(PublicFlag[mode] \in u.mode)>>
      <3>1. report_mode(u, mode) = Send(u, e) BY <1>4 DEF report_mode
      <3>2. e[3] = ModeState(PublicFlag[mode] \in u.mode) OBVIOUS
      <3> HIDE DEF e
      <3>3. u \in Terms({u.sent}) BY <2>3 DEF Good
      <3>4. Answer(Send(u, e)) = e[3] BY <2>3, <3>3, AnswerIs
      <3>5. QED BY <3>1, <3>2, <3>4
    <2>4. QED BY <2>2, <2>3 DEF ModeState
  <1>5. QED BY <1>2, <1>3, <1>4 DEF ReportsWhatWasSet

(* The inductive invariant implies ModesInv. *)
LEMMA GoodModes ==
  ASSUME Good(term)
  PROVE  ModesInv
  <1>1. TypeOK
    <2>1. /\ Len(term.titles) <= MaxStackDepth /\ term.keyboard \in Stacks
          /\ term.style \in CursorStyles \union {None}
      BY DEF Good, Terms
    <2>2. QED BY <2>1 DEF TypeOK, Stacks, CursorStyles
  <1>2. OneOfEach BY AtMostOneIs DEF Good, OneOfEach
  <1>3. NoKittyWhenOff BY DEF Good, NoKittyWhenOff
  <1>4. QED BY <1>1, <1>2, <1>3, GoodReports DEF ModesInv
-------------------------------------------------------------------------------
(* GoodInv: the inductive invariant holds; besides what ModesInv says, modes,
   stacks, templates and styles are made of what they may be made of, on the
   screen that is not shown too. *)
THEOREM GoodInv == Spec => []Good(term)
  <1>1. Init => Good(term) BY NewGood DEF Init, Ready
  <1>2. Good(term) /\ [Next]_term => Good(term)'
    BY NextFine
  <1>3. QED BY <1>1, <1>2, PTL DEF Spec

(* ModesSafe: in every reachable terminal a mode reads as it was set, there is
   one mouse protocol, one encoding and one underline at most, and no keyboard
   mode survives the options that turn the kitty protocol off. *)
THEOREM ModesSafe == Spec => []ModesInv
  BY GoodInv, GoodModes, PTL

(* TellsTheUIHolds: no handler changes the blinking of the cursor, the mouse
   mode or the title without the event that tells the UI. *)
THEOREM TellsTheUIHolds == Spec => TellsTheUI
  <1>1. Good(term) /\ [Next]_term =>
          [term'.config = term.config =>
             /\ cursor_style(term).blinking # cursor_style(term').blinking
                  => Sent(term', "CursorBlinkingChange")
             /\ ~Reset => /\ term.mode \intersect MouseModes # term'.mode \intersect MouseModes
                               => Sent(term', "MouseCursorDirty")
                          /\ term.title # term'.title
                               => Sent(term', IF term'.title = None THEN "ResetTitle"
                                                                    ELSE "Title")]_term
    BY NextFine DEF Told
  <1>2. QED BY <1>1, GoodInv, PTL DEF Spec, TellsTheUI
===============================================================================
