--------------------------- MODULE ProcessorProofs ----------------------------
(***************************************************************************)
(* Proofs about the event processor and its windows, for every scenario:   *)
(* any inputs in any number, any windows, timers and events on their way.  *)
(*                                                                         *)
(* Sound and BarComes are the parts of the inductive invariant.  Sound     *)
(* adds to what the runs check that a window with nothing staged and a     *)
(* frame has asked for what it has to draw, whether or not the loop waits; *)
(* BarComes that lines of the bar which are not those of its message have  *)
(* what will correct them staged or on its way.  Each handler is shown to  *)
(* keep both; the loops over staged events and over windows are proved     *)
(* round by round (EveryRound).                                            *)
(***************************************************************************)
EXTENDS ProcessorSpec, SequenceTheorems, FiniteSetTheorems, TLAPS

(* The values that the processor keeps. *)
Setting == {0, 1, 2, Broken}
Message == [target : {"ipc", "config", "other"}, lines : 1 .. 2]
Arguments == BOOLEAN \union {0} \union Message \union Seq(Setting)

(* The events that are sent to the processor, and those that are staged for a window. *)
StagedKinds == {"Input", "Resized", "Occluded", "Bell", "Message", "PopMessage",
                "CursorBlinkingChange", "BlinkCursor", "CloseRequested"}
SentKinds == {"IpcConfig", "IpcGetConfig", "ConfigReload", "CreateWindow", "Shutdown", "Wakeup",
              "Exit", "Frame", "Bell", "Message", "CursorBlinkingChange", "BlinkCursor"}
EventsOf(kinds) ==
  {e \in [kind : kinds, window : Nat, arg : Arguments] :
     /\ e.kind = "Occluded" => e.arg \in BOOLEAN
     /\ e.kind = "Message" => e.arg \in Message
     /\ e.kind \in {"IpcConfig", "CreateWindow"} => e.arg \in Seq(Setting)}
Staged == EventsOf(StagedKinds)
Delivered == EventsOf(SentKinds)

Config == [version : Nat, paths : SUBSET {"main", "import"}]
WindowConfig == [version : Nat, setting : Setting]
ContextType ==
  [dirty : BOOLEAN, has_frame : BOOLEAN, requested : BOOLEAN, occluded : BOOLEAN, queue : Seq(Staged),
   hold : BOOLEAN, bell : BOOLEAN, messages : Seq(Message), pending : BOOLEAN, bar : 0 .. 2,
   options : Seq(Setting \ {Broken}), config : WindowConfig]
Windows == UNION {[D -> ContextType] : D \in SUBSET Nat}
Topics == [topic : {"Frame", "BlinkCursor"}, window : Nat]
Timers == UNION {[D -> Nat \ {0}] : D \in SUBSET Topics}
Monitor == [state : {"off", "starting", "watching"}, paths : SUBSET {"main", "import"}, received : BOOLEAN]

Processors ==
  [windows : Windows, events : Seq(Delivered), timers : Timers, config : Config, globals : Seq(Setting),
   monitor : Monitor, blinks : BOOLEAN, exiting : BOOLEAN]

(* A partial function to a set. *)
LEMMA WindowsMembers ==
  ASSUME NEW f
  PROVE  f \in Windows <=> /\ f = [v \in DOMAIN f |-> f[v]] /\ DOMAIN f \subseteq Nat
                           /\ \A v \in DOMAIN f : f[v] \in ContextType
  <1> HIDE DEF ContextType
  <1>1. ASSUME f \in Windows
        PROVE  /\ f = [v \in DOMAIN f |-> f[v]] /\ DOMAIN f \subseteq Nat
               /\ \A v \in DOMAIN f : f[v] \in ContextType
    <2>1. PICK D \in SUBSET Nat : f \in [D -> ContextType] BY <1>1 DEF Windows
    <2>2. QED BY <2>1
  <1>2. ASSUME f = [v \in DOMAIN f |-> f[v]], DOMAIN f \subseteq Nat, \A v \in DOMAIN f : f[v] \in ContextType
        PROVE  f \in Windows
    <2>1. f \in [DOMAIN f -> ContextType] BY <1>2
    <2>2. QED BY <1>2, <2>1 DEF Windows
  <1>3. QED BY <1>1, <1>2

(* A bag of timers, by its members. *)
LEMMA TimersMembers ==
  ASSUME NEW f
  PROVE  f \in Timers <=> /\ f = [id \in DOMAIN f |-> f[id]] /\ DOMAIN f \subseteq Topics
                          /\ \A id \in DOMAIN f : f[id] \in Nat \ {0}
  <1> HIDE DEF Topics
  <1>1. ASSUME f \in Timers
        PROVE  /\ f = [id \in DOMAIN f |-> f[id]] /\ DOMAIN f \subseteq Topics
               /\ \A id \in DOMAIN f : f[id] \in Nat \ {0}
    <2>1. PICK D \in SUBSET Topics : f \in [D -> Nat \ {0}] BY <1>1 DEF Timers
    <2>2. QED BY <2>1
  <1>2. ASSUME f = [id \in DOMAIN f |-> f[id]], DOMAIN f \subseteq Topics, \A id \in DOMAIN f : f[id] \in Nat \ {0}
        PROVE  f \in Timers
    <2>1. f \in [DOMAIN f -> Nat \ {0}] BY <1>2
    <2>2. QED BY <1>2, <2>1 DEF Timers
  <1>3. QED BY <1>1, <1>2

(* Timers that are added and removed. *)
LEMMA AddTimer ==
  ASSUME NEW b \in Timers, NEW id \in Topics
  PROVE  (b (+) SetToBag({id})) \in Timers /\ DOMAIN (b (+) SetToBag({id})) = DOMAIN b \union {id}
  <1> DEFINE c == b (+) SetToBag({id})
  <1>1. DOMAIN b \subseteq Topics /\ \A i \in DOMAIN b : b[i] \in Nat \ {0} BY TimersMembers
  <1>2. c = [i \in DOMAIN b \union {id} |-> (IF i \in DOMAIN b THEN b[i] ELSE 0) + (IF i \in {id} THEN 1 ELSE 0)]
    BY DEF (+), SetToBag
  <1> HIDE DEF c
  <1>3. /\ DOMAIN c = DOMAIN b \union {id}
        /\ c = [i \in DOMAIN c |-> c[i]]
        /\ \A i \in DOMAIN c : c[i] \in Nat \ {0}
    BY <1>1, <1>2
  <1>4. c \in Timers BY <1>1, <1>3, TimersMembers
  <1>5. QED BY <1>3, <1>4 DEF c

(* Taking a timer away keeps the others. *)
LEMMA RemoveTimer ==
  ASSUME NEW b \in Timers, NEW id
  PROVE  /\ (b (-) SetToBag({id})) \in Timers /\ DOMAIN (b (-) SetToBag({id})) \subseteq DOMAIN b
         /\ \A i \in DOMAIN b : i # id => i \in DOMAIN (b (-) SetToBag({id}))
  <1> DEFINE c == b (-) SetToBag({id})
             d == [i \in DOMAIN b |-> IF i = id THEN b[i] - 1 ELSE b[i]]
  <1>1. DOMAIN b \subseteq Topics /\ \A i \in DOMAIN b : b[i] \in Nat \ {0} BY TimersMembers
  <1>2. c = [i \in {j \in DOMAIN d : d[j] > 0} |-> d[i]]
    BY DEF (-), SetToBag
  <1> HIDE DEF c
  <1>3. /\ DOMAIN c \subseteq DOMAIN b
        /\ c = [i \in DOMAIN c |-> c[i]]
        /\ \A i \in DOMAIN c : c[i] \in Nat \ {0}
        /\ \A i \in DOMAIN b : i # id => i \in DOMAIN c
    BY <1>1, <1>2
  <1>4. c \in Timers BY <1>1, <1>3, TimersMembers
  <1>5. QED BY <1>3, <1>4 DEF c

(* The timers of a window that is closed. *)
LEMMA RemoveWindowTimers ==
  ASSUME NEW b \in Timers, NEW w
  PROVE  /\ [id \in {i \in DOMAIN b : i.window # w} |-> b[id]] \in Timers
  <1> DEFINE c == [id \in {i \in DOMAIN b : i.window # w} |-> b[id]]
  <1>1. DOMAIN b \subseteq Topics /\ \A i \in DOMAIN b : b[i] \in Nat \ {0} BY TimersMembers
  <1>2. /\ DOMAIN c \subseteq DOMAIN b /\ c = [i \in DOMAIN c |-> c[i]]
        /\ \A i \in DOMAIN c : c[i] \in Nat \ {0}
    BY <1>1
  <1> HIDE DEF c
  <1>3. c \in Timers BY <1>1, <1>2, TimersMembers
  <1>4. QED BY <1>3 DEF c

(* The members of a queue that grows at its end and shrinks at its head. *)
LEMMA AppendMembers ==
  ASSUME NEW S, NEW s \in Seq(S), NEW e \in S
  PROVE  Append(s, e) \in Seq(S) /\ ToSet(Append(s, e)) = ToSet(s) \union {e} /\ Append(s, e) # << >>
  <1>1. Append(s, e) \in Seq(S) /\ Len(Append(s, e)) = Len(s) + 1 /\ Len(s) \in Nat OBVIOUS
  <1>2. DOMAIN Append(s, e) = 1 .. (Len(s) + 1) /\ DOMAIN s = 1 .. Len(s) OBVIOUS
  <1>3. \A i \in 1 .. Len(s) : Append(s, e)[i] = s[i] OBVIOUS
  <1>4. Append(s, e)[Len(s) + 1] = e OBVIOUS
  <1>5. ASSUME NEW i \in 1 .. (Len(s) + 1) PROVE i \in 1 .. Len(s) \/ i = Len(s) + 1 BY <1>1
  <1>6. ASSUME NEW i \in 1 .. Len(s) PROVE i \in 1 .. (Len(s) + 1) BY <1>1
  <1>7. Len(s) + 1 \in 1 .. (Len(s) + 1) BY <1>1
  <1>8. ToSet(Append(s, e)) = ToSet(s) \union {e}
    <2> DEFINE t == Append(s, e)
               n == Len(s)
    <2> HIDE DEF t, n
    <2>1. ASSUME NEW x \in ToSet(t) PROVE x \in ToSet(s) \union {e}
      <3>1. PICK i \in 1 .. (n + 1) : x = t[i] BY <1>2 DEF ToSet, t, n
      <3>2. QED BY <1>2, <1>3, <1>4, <1>5, <3>1 DEF ToSet, t, n
    <2>2. ASSUME NEW x \in ToSet(s) PROVE x \in ToSet(t)
      <3>1. PICK i \in 1 .. n : x = s[i] BY <1>2 DEF ToSet, n
      <3>2. i \in DOMAIN t /\ t[i] = x BY <1>2, <1>3, <1>6, <3>1 DEF t, n
      <3>3. QED BY <3>2 DEF ToSet
    <2>3. e \in ToSet(t)
      <3>1. n + 1 \in DOMAIN t /\ t[n + 1] = e BY <1>2, <1>4, <1>7 DEF t, n
      <3>2. QED BY <3>1 DEF ToSet
    <2>4. QED BY <2>1, <2>2, <2>3 DEF t
  <1>9. QED BY <1>1, <1>8

(* The first and the other members of a queue. *)
LEMMA TailMembers ==
  ASSUME NEW S, NEW s \in Seq(S), s # << >>
  PROVE  Tail(s) \in Seq(S) /\ Head(s) \in S /\ ToSet(s) = ToSet(Tail(s)) \union {Head(s)}
  <1>1. Len(s) \in Nat \ {0} /\ Tail(s) \in Seq(S) /\ Head(s) \in S /\ Head(s) = s[1] /\ Len(Tail(s)) = Len(s) - 1
    OBVIOUS
  <1>2. DOMAIN s = 1 .. Len(s) /\ DOMAIN Tail(s) = 1 .. (Len(s) - 1) BY <1>1
  <1>3. \A i \in 1 .. (Len(s) - 1) : Tail(s)[i] = s[i + 1] OBVIOUS
  <1> DEFINE t == Tail(s)
             n == Len(s)
             h == Head(s)
  <1> HIDE DEF t, n, h
  <1>4. ASSUME NEW x \in ToSet(s) PROVE x \in ToSet(t) \union {h}
    <2>1. PICK i \in 1 .. n : x = s[i] BY <1>2 DEF ToSet, n
    <2>2. CASE i = 1 BY <1>1, <2>1, <2>2 DEF h
    <2>3. CASE i # 1
      <3>1. i - 1 \in 1 .. (n - 1) /\ i = (i - 1) + 1 BY <1>1, <2>3 DEF n
      <3>2. t[i - 1] = x BY <1>3, <2>1, <3>1 DEF t, n
      <3>3. QED BY <1>2, <3>1, <3>2 DEF ToSet, t, n
    <2>4. QED BY <2>2, <2>3
  <1>5. ASSUME NEW x \in ToSet(t) PROVE x \in ToSet(s)
    <2>1. PICK i \in 1 .. (n - 1) : x = t[i] BY <1>2 DEF ToSet, t, n
    <2>2. i + 1 \in 1 .. n BY <1>1 DEF n
    <2>3. x = s[i + 1] BY <1>3, <2>1 DEF t, n
    <2>4. QED BY <1>2, <2>2, <2>3 DEF ToSet, n
  <1>6. h \in ToSet(s)
    <2>1. 1 \in DOMAIN s BY <1>1, <1>2
    <2>2. QED BY <1>1, <2>1 DEF ToSet, h
  <1>7. QED BY <1>1, <1>4, <1>5, <1>6 DEF t, h

-------------------------------------------------------------------------------
(* Loops. *)

(* A set of natural numbers that is not empty has a least member. *)
LEMMA LeastNumber ==
  ASSUME NEW T \in SUBSET Nat, T # {}
  PROVE  \E n \in T : \A k \in T : n <= k
  <1> DEFINE R == OpToRel(<, Nat)
  <1>1. \A j, k \in Nat : <<j, k>> \in R <=> j < k BY Zenon DEF OpToRel
  <1>2. IsWellFoundedOn(R, Nat) BY NatLessThanWellFounded, Zenon
  <1> HIDE DEF R
  <1>3. PICK n \in T : \A k \in T : ~ (<<k, n>> \in R) BY <1>2, WFMin
  <1>4. ASSUME NEW k \in T PROVE n <= k
    <2>1. ~(<<k, n>> \in R) BY <1>3
    <2>2. ~(k < n) BY <1>1, <2>1, Zenon
    <2>3. QED BY <2>2
  <1>5. QED BY <1>4

(* What is so before a loop and kept by each of its n rounds is so after
   every round. *)
LEMMA EveryRound ==
  ASSUME NEW n \in Nat, NEW K, 0 \in K, \A k \in 1..n : k - 1 \in K => k \in K
  PROVE  \A k \in 0..n : k \in K
  <1> DEFINE T == {k \in 0..n : k \notin K}
  <1> SUFFICES ASSUME T # {} PROVE FALSE OBVIOUS
  <1>0. T \in SUBSET Nat OBVIOUS
  <1>1. PICK m \in T : \A k \in T : m <= k
    <2> HIDE DEF T
    <2>1. QED BY <1>0, LeastNumber
  <1>2. m \in 1..n BY <1>1
  <1>3. m - 1 \in 0..n /\ ~(m <= m - 1) BY <1>2
  <1>4. m - 1 \in K BY <1>1, <1>3
  <1>5. QED BY <1>1, <1>2, <1>4


(* What override_config passes through: r[k] after k options. *)
Overridden(options, r) ==
  /\ r[0] = [kept |-> options, i |-> 1]
  /\ \A k \in 1 .. Len(options) :
       r[k] = IF r[k - 1].kept[r[k - 1].i] = Broken THEN [r[k - 1] EXCEPT !.kept = swap_remove(@, r[k - 1].i)]
              ELSE [r[k - 1] EXCEPT !.i = @ + 1]
  /\ override_config(options) = r[Len(options)].kept

(* override_config runs to its end. *)
LEMMA OverrideLoop ==
  ASSUME NEW options \in Seq(Setting)
  PROVE  \E r : Overridden(options, r)
  <1> DEFINE n == Len(options)
             base == [kept |-> options, i |-> 1]
             Round(x, k) == IF x.kept[x.i] = Broken THEN [x EXCEPT !.kept = swap_remove(@, x.i)]
                            ELSE [x EXCEPT !.i = @ + 1]
  <1>1. n \in Nat OBVIOUS
  <1> HIDE DEF n, base, Round
  <1>2. \E r : r = [k \in 0 .. n |-> IF k = 0 THEN base ELSE Round(r[k - 1], k)]
    <2> DEFINE Runs(m, r) == r = [k \in 0 .. m |-> IF k = 0 THEN base ELSE Round(r[k - 1], k)]
               K == {m \in 0 .. n : \E r : Runs(m, r)}
    <2>1. 0 \in K
      <3>1. Runs(0, [k \in 0 .. 0 |-> base]) OBVIOUS
      <3> HIDE DEF Runs
      <3>2. QED BY <1>1, <3>1
    <2>2. ASSUME NEW m \in 1 .. n, m - 1 \in K PROVE m \in K
      <3>1. PICK r : Runs(m - 1, r) BY <2>2
      <3> DEFINE q == [k \in 0 .. m |-> IF k = m THEN Round(r[m - 1], m) ELSE r[k]]
      <3>2. ASSUME NEW k \in 0 .. m PROVE q[k] = IF k = 0 THEN base ELSE Round(q[k - 1], k)
        <4>1. CASE k = m
          <5>1. k - 1 \in 0 .. m /\ k - 1 # m /\ k # 0 BY <4>1
          <5>2. q[k - 1] = r[m - 1] BY <4>1, <5>1
          <5>3. QED BY <4>1, <5>1, <5>2
        <4>2. CASE k # m /\ k # 0
          <5>1. k - 1 \in 0 .. m /\ k - 1 # m /\ k \in 0 .. (m - 1) BY <4>2
          <5>2. q[k - 1] = r[k - 1] /\ q[k] = r[k] BY <4>2, <5>1
          <5>3. r[k] = Round(r[k - 1], k) BY <3>1, <4>2, <5>1
          <5>4. QED BY <4>2, <5>2, <5>3
        <4>3. CASE k # m /\ k = 0
          <5>1. k \in 0 .. (m - 1) BY <4>3
          <5>2. r[k] = base BY <3>1, <4>3, <5>1
          <5>3. QED BY <4>3, <5>2
        <4>4. QED BY <4>1, <4>2, <4>3
      <3>3. q = [k \in 0 .. m |-> q[k]] OBVIOUS
      <3> HIDE DEF q
      <3>4. Runs(m, q) BY <3>2, <3>3
      <3> HIDE DEF Runs
      <3>5. QED BY <3>4
    <2> HIDE DEF K
    <2>3. \A m \in 0 .. n : m \in K BY <1>1, <2>1, <2>2, EveryRound
    <2>4. n \in K BY <1>1, <2>3
    <2>5. QED BY <2>4 DEF K
  <1> DEFINE g == CHOOSE r : r = [k \in 0 .. n |-> IF k = 0 THEN base ELSE Round(r[k - 1], k)]
  <1>g. g = [k \in 0 .. n |-> IF k = 0 THEN base ELSE Round(g[k - 1], k)] BY <1>2, Zenon
  <1>3. g[0] = base
    <2> HIDE DEF g
    <2>1. QED BY <1>1, <1>g
  <1>4. ASSUME NEW k \in 1 .. n PROVE g[k] = Round(g[k - 1], k)
    <2> HIDE DEF g
    <2>1. k \in 0 .. n /\ k # 0 BY <1>1
    <2>2. QED BY <1>g, <2>1
  <1>5. override_config(options) = g[n].kept BY Zenon DEF override_config, n, g, base, Round
  <1> HIDE DEF g
  <1>6. Overridden(options, g)
    <2>1. g[0] = [kept |-> options, i |-> 1] BY <1>3 DEF base
    <2>2. ASSUME NEW k \in 1 .. Len(options)
          PROVE  g[k] = IF g[k - 1].kept[g[k - 1].i] = Broken
                          THEN [g[k - 1] EXCEPT !.kept = swap_remove(@, g[k - 1].i)]
                          ELSE [g[k - 1] EXCEPT !.i = @ + 1]
      BY <1>4 DEF n, Round
    <2>3. QED BY <2>1, <2>2, <1>5 DEF Overridden, n
  <1>7. QED BY <1>6

(* Where a broken option is the last one it goes; else the last one takes its place. *)
LEMMA SwapRemove ==
  ASSUME NEW s \in Seq(Setting), NEW i \in 1 .. Len(s)
  PROVE  /\ swap_remove(s, i) \in Seq(Setting) /\ Len(swap_remove(s, i)) = Len(s) - 1
         /\ \A j \in 1 .. (i - 1) : swap_remove(s, i)[j] = s[j]
  <1> DEFINE n == Len(s)
             f == Front(s)
  <1>1. n \in Nat /\ i \in 1 .. n /\ s[n] \in Setting BY DEF n
  <1>2. f \in Seq(Setting) /\ Len(f) = n - 1 /\ \A j \in 1 .. (n - 1) : f[j] = s[j]
    <2> DEFINE m == n - 1
    <2>1. n >= 1 /\ m \in 0 .. n BY <1>1
    <2>2. f = SubSeq(s, 1, m) BY DEF Front, n
    <2> HIDE DEF m, f
    <2>3. m \in 1 - 1 .. Len(s) /\ 1 \in 1 .. Len(s) + 1 /\ 1 - 1 = 0 /\ Len(s) = n BY <2>1 DEF n
    <2>4. f \in Seq(Setting) /\ Len(f) = (IF 1 <= m THEN m - 1 + 1 ELSE 0) /\ \A j \in 1 .. m - 1 + 1 : f[j] = s[1 + j - 1]
      BY <2>2, <2>3, SubSeqProperties
    <2>5. m - 1 + 1 = m /\ \A j \in 1 .. m : 1 + j - 1 = j BY <1>1, <2>1
    <2>6. m \in Nat /\ Len(f) = m BY <2>1, <2>4
    <2>7. QED BY <2>4, <2>5, <2>6 DEF m
  <1>3. Last(s) = s[n] BY DEF Last, n
  <1> HIDE DEF n, f
  <1>4. CASE i = n
    <2>1. swap_remove(s, i) = f BY <1>4 DEF swap_remove, n, f
    <2>2. QED BY <1>1, <1>2, <1>4, <2>1 DEF n
  <1>5. CASE i # n
    <2>1. swap_remove(s, i) = [f EXCEPT ![i] = s[n]] BY <1>3, <1>5 DEF swap_remove, n, f
    <2>2. i \in 1 .. (n - 1) BY <1>1, <1>5
    <2> DEFINE g == [f EXCEPT ![i] = s[n]]
               m == n - 1
    <2>3. m \in Nat /\ i \in 1 .. m /\ Len(f) = m BY <1>1, <1>2, <2>2
    <2> HIDE DEF m
    <2>4. f \in [1 .. m -> Setting] BY <1>2, <2>3
    <2>5. g \in [1 .. m -> Setting] /\ \A j \in 1 .. m : j # i => g[j] = f[j] BY <1>1, <2>3, <2>4
    <2> HIDE DEF g
    <2>6. g \in Seq(Setting) /\ Len(g) = m BY <2>3, <2>5, SeqDef
    <2>7. ASSUME NEW j \in 1 .. (i - 1) PROVE g[j] = s[j]
      <3>1. j \in 1 .. m /\ j # i BY <2>3
      <3>2. QED BY <1>2, <2>5, <3>1 DEF m
    <2>8. QED BY <2>1, <2>6, <2>7 DEF g, m, n
  <1>6. QED BY <1>4, <1>5

(* The options that remain can be applied. *)
LEMMA OverrideConfig ==
  ASSUME NEW options \in Seq(Setting)
  PROVE  override_config(options) \in Seq(Setting \ {Broken})
  <1>1. PICK r : Overridden(options, r) BY OverrideLoop
  <1> DEFINE n == Len(options)
             After(k) == /\ r[k] = [kept |-> r[k].kept, i |-> r[k].i]
                         /\ r[k].kept \in Seq(Setting) /\ r[k].i \in 1 .. (k + 1)
                         /\ Len(r[k].kept) - r[k].i = n - k - 1
                         /\ \A j \in 1 .. (r[k].i - 1) : r[k].kept[j] # Broken
             K == {k \in 0 .. n : After(k)}
  <1>2. n \in Nat OBVIOUS
  <1>3. 0 \in K
    <2>1. r[0] = [kept |-> options, i |-> 1] BY <1>1 DEF Overridden
    <2>2. r[0].kept = options /\ r[0].i = 1 BY <2>1
    <2>3. QED BY <1>2, <2>1, <2>2
  <1>4. ASSUME NEW k \in 1 .. n, k - 1 \in K PROVE k \in K
    <2> DEFINE a == r[k - 1]
    <2>1. /\ a = [kept |-> a.kept, i |-> a.i]
          /\ a.kept \in Seq(Setting) /\ a.i \in 1 .. k /\ Len(a.kept) - a.i = n - k
          /\ \A j \in 1 .. (a.i - 1) : a.kept[j] # Broken
      BY <1>4
    <2>2. Len(a.kept) \in Nat BY <2>1
    <2>3. a.i \in 1 .. Len(a.kept) BY <1>2, <2>1, <2>2
    <2>4. r[k] = IF a.kept[a.i] = Broken THEN [a EXCEPT !.kept = swap_remove(@, a.i)] ELSE [a EXCEPT !.i = @ + 1]
      BY <1>1 DEF Overridden
    <2> HIDE DEF a
    <2>5. CASE a.kept[a.i] = Broken
      <3>1. r[k] = [kept |-> swap_remove(a.kept, a.i), i |-> a.i]
        <4>1. r[k] = [a EXCEPT !.kept = swap_remove(a.kept, a.i)] BY <2>4, <2>5
        <4>2. QED BY <2>1, <4>1
      <3>2. r[k].kept = swap_remove(a.kept, a.i) /\ r[k].i = a.i BY <3>1
      <3>3. /\ r[k].kept \in Seq(Setting) /\ Len(r[k].kept) = Len(a.kept) - 1
            /\ \A j \in 1 .. (r[k].i - 1) : r[k].kept[j] = a.kept[j]
        BY <2>1, <2>3, <3>2, SwapRemove
      <3>4. \A j \in 1 .. (r[k].i - 1) : r[k].kept[j] # Broken BY <2>1, <3>2, <3>3
      <3>5. r[k].i \in 1 .. (k + 1) /\ Len(r[k].kept) - r[k].i = n - k - 1 BY <1>2, <2>1, <2>2, <3>2, <3>3
      <3>6. QED BY <3>1, <3>2, <3>3, <3>4, <3>5
    <2>6. CASE a.kept[a.i] # Broken
      <3>1. r[k] = [kept |-> a.kept, i |-> a.i + 1] BY <2>1, <2>4, <2>6
      <3>2. r[k].kept = a.kept /\ r[k].i = a.i + 1 BY <3>1
      <3>3. ASSUME NEW j \in 1 .. (r[k].i - 1) PROVE r[k].kept[j] # Broken
        <4>1. j \in 1 .. (a.i - 1) \/ j = a.i BY <2>1, <3>2
        <4>2. QED BY <2>1, <2>6, <3>2, <4>1
      <3>4. r[k].i \in 1 .. (k + 1) /\ Len(r[k].kept) - r[k].i = n - k - 1 BY <1>2, <2>1, <2>2, <3>2
      <3>5. QED BY <2>1, <3>1, <3>2, <3>3, <3>4
    <2>7. QED BY <2>5, <2>6
  <1> HIDE DEF K
  <1>5. \A k \in 0 .. n : k \in K BY <1>2, <1>3, <1>4, EveryRound
  <1>6. After(n)
    <2>1. n \in K BY <1>2, <1>5
    <2>2. QED BY <2>1 DEF K
  <1> DEFINE o == r[n].kept
  <1>7. o \in Seq(Setting) /\ Len(o) \in Nat /\ r[n].i = Len(o) + 1 BY <1>2, <1>6
  <1>8. \A j \in 1 .. Len(o) : o[j] \in Setting \ {Broken} BY <1>6, <1>7
  <1>9. override_config(options) = o BY <1>1 DEF Overridden
  <1> HIDE DEF o, n, After
  <1>10. o \in Seq(Setting \ {Broken})
    <2>1. o = [j \in 1 .. Len(o) |-> o[j]] BY <1>7
    <2>2. o \in [1 .. Len(o) -> Setting \ {Broken}] BY <1>8, <2>1
    <2>3. QED BY <1>7, <2>2, SeqDef
  <1>11. QED BY <1>9, <1>10

(* The messages that stay: r[k] of the first k. *)
Sifted(messages, removed, r) ==
  /\ r[0] = << >>
  /\ \A k \in 1 .. Len(messages) :
       r[k] = IF messages[k] \in removed THEN r[k - 1] ELSE Append(r[k - 1], messages[k])
  /\ Without(messages, removed) = r[Len(messages)]

(* Without runs to its end. *)
LEMMA WithoutLoop ==
  ASSUME NEW messages \in Seq(Message), NEW removed
  PROVE  \E r : Sifted(messages, removed, r)
  <1> DEFINE n == Len(messages)
             base == << >>
             Round(x, k) == IF messages[k] \in removed THEN x ELSE Append(x, messages[k])
  <1>1. n \in Nat OBVIOUS
  <1> HIDE DEF n, base, Round
  <1>2. \E r : r = [k \in 0 .. n |-> IF k = 0 THEN base ELSE Round(r[k - 1], k)]
    <2> DEFINE Runs(m, r) == r = [k \in 0 .. m |-> IF k = 0 THEN base ELSE Round(r[k - 1], k)]
               K == {m \in 0 .. n : \E r : Runs(m, r)}
    <2>1. 0 \in K
      <3>1. Runs(0, [k \in 0 .. 0 |-> base]) OBVIOUS
      <3> HIDE DEF Runs
      <3>2. QED BY <1>1, <3>1
    <2>2. ASSUME NEW m \in 1 .. n, m - 1 \in K PROVE m \in K
      <3>1. PICK r : Runs(m - 1, r) BY <2>2
      <3> DEFINE q == [k \in 0 .. m |-> IF k = m THEN Round(r[m - 1], m) ELSE r[k]]
      <3>2. ASSUME NEW k \in 0 .. m PROVE q[k] = IF k = 0 THEN base ELSE Round(q[k - 1], k)
        <4>1. CASE k = m
          <5>1. k - 1 \in 0 .. m /\ k - 1 # m /\ k # 0 BY <4>1
          <5>2. q[k - 1] = r[m - 1] BY <4>1, <5>1
          <5>3. QED BY <4>1, <5>1, <5>2
        <4>2. CASE k # m /\ k # 0
          <5>1. k - 1 \in 0 .. m /\ k - 1 # m /\ k \in 0 .. (m - 1) BY <4>2
          <5>2. q[k - 1] = r[k - 1] /\ q[k] = r[k] BY <4>2, <5>1
          <5>3. r[k] = Round(r[k - 1], k) BY <3>1, <4>2, <5>1
          <5>4. QED BY <4>2, <5>2, <5>3
        <4>3. CASE k # m /\ k = 0
          <5>1. k \in 0 .. (m - 1) BY <4>3
          <5>2. r[k] = base BY <3>1, <4>3, <5>1
          <5>3. QED BY <4>3, <5>2
        <4>4. QED BY <4>1, <4>2, <4>3
      <3>3. q = [k \in 0 .. m |-> q[k]] OBVIOUS
      <3> HIDE DEF q
      <3>4. Runs(m, q) BY <3>2, <3>3
      <3> HIDE DEF Runs
      <3>5. QED BY <3>4
    <2> HIDE DEF K
    <2>3. \A m \in 0 .. n : m \in K BY <1>1, <2>1, <2>2, EveryRound
    <2>4. n \in K BY <1>1, <2>3
    <2>5. QED BY <2>4 DEF K
  <1> DEFINE g == CHOOSE r : r = [k \in 0 .. n |-> IF k = 0 THEN base ELSE Round(r[k - 1], k)]
  <1>g. g = [k \in 0 .. n |-> IF k = 0 THEN base ELSE Round(g[k - 1], k)] BY <1>2, Zenon
  <1>3. g[0] = base
    <2> HIDE DEF g
    <2>1. QED BY <1>1, <1>g
  <1>4. ASSUME NEW k \in 1 .. n PROVE g[k] = Round(g[k - 1], k)
    <2> HIDE DEF g
    <2>1. k \in 0 .. n /\ k # 0 BY <1>1
    <2>2. QED BY <1>g, <2>1
  <1>5. Without(messages, removed) = g[n] BY Zenon DEF Without, n, g, base, Round
  <1> HIDE DEF g
  <1>6. Sifted(messages, removed, g) BY <1>3, <1>4, <1>5 DEF Sifted, n, base, Round
  <1>7. QED BY <1>6

(* They are messages that were there and are not removed. *)
LEMMA WithoutMembers ==
  ASSUME NEW messages \in Seq(Message), NEW removed
  PROVE  /\ Without(messages, removed) \in Seq(Message)
         /\ \A i \in DOMAIN Without(messages, removed) :
              /\ Without(messages, removed)[i] \in ToSet(messages)
              /\ Without(messages, removed)[i] \notin removed
  <1> HIDE DEF Message
  <1>1. PICK r : Sifted(messages, removed, r) BY WithoutLoop
  <1> DEFINE n == Len(messages)
             Kept == {m \in Message : m \in ToSet(messages) /\ m \notin removed}
             K == {k \in 0 .. n : r[k] \in Seq(Kept)}
  <1>2. n \in Nat OBVIOUS
  <1>3. 0 \in K
    <2>1. << >> \in Seq(Kept) OBVIOUS
    <2>2. r[0] = << >> BY <1>1 DEF Sifted
    <2> HIDE DEF Kept
    <2>3. r[0] \in Seq(Kept) BY <2>1, <2>2, Zenon
    <2>4. 0 \in 0 .. n BY <1>2
    <2>5. QED BY <2>3, <2>4, Zenon
  <1>4. ASSUME NEW k \in 1 .. n, k - 1 \in K PROVE k \in K
    <2>1. r[k - 1] \in Seq(Kept) BY <1>4
    <2>2. messages[k] \in Message /\ messages[k] \in ToSet(messages) BY DEF ToSet
    <2>3. r[k] = IF messages[k] \in removed THEN r[k - 1] ELSE Append(r[k - 1], messages[k]) BY <1>1 DEF Sifted
    <2>4. CASE messages[k] \in removed BY <2>1, <2>3, <2>4, <1>2
    <2>5. CASE messages[k] \notin removed
      <3>1. messages[k] \in Kept BY <2>2, <2>5
      <3> HIDE DEF Kept
      <3>2. r[k] \in Seq(Kept) BY <2>1, <2>3, <2>5, <3>1
      <3>3. QED BY <1>2, <3>2
    <2>6. QED BY <2>4, <2>5
  <1> HIDE DEF K
  <1>5. \A k \in 0 .. n : k \in K BY <1>2, <1>3, <1>4, EveryRound
  <1>6. r[n] \in Seq(Kept)
    <2>1. n \in K BY <1>2, <1>5
    <2>2. QED BY <2>1 DEF K
  <1>7. Without(messages, removed) = r[n] BY <1>1 DEF Sifted
  <1> DEFINE o == r[n]
  <1>8. \A i \in DOMAIN o : o[i] \in Kept
    <2> HIDE DEF Kept
    <2>1. QED BY <1>6
  <1>9. o \in Seq(Message)
    <2>1. Kept \subseteq Message OBVIOUS
    <2> HIDE DEF Kept, o
    <2>2. QED BY <1>6, <2>1, SeqMonotonic DEF o
  <1>10. QED BY <1>7, <1>8, <1>9

-------------------------------------------------------------------------------
(* What the operations keep. *)

(* The parts of the processor that handling a window leaves alone. *)
SameSettings(q, s) == /\ s.config = q.config /\ s.globals = q.globals /\ s.monitor = q.monitor
                      /\ s.blinks = q.blinks /\ s.exiting = q.exiting

(* From q to s only the window w has changed, and is c. *)
WindowSet(q, s, w, c) ==
  /\ s \in Processors /\ Open(s) = Open(q)
  /\ s.windows[w] = c /\ \A v \in Open(q) : v # w => s.windows[v] = q.windows[v]
  /\ s.events = q.events /\ s.timers = q.timers /\ SameSettings(q, s)

(* The parts of a processor. *)
LEMMA Parts ==
  ASSUME NEW q \in Processors
  PROVE  /\ q.windows \in Windows /\ q.events \in Seq(Delivered) /\ q.timers \in Timers /\ q.config \in Config
         /\ q.globals \in Seq(Setting) /\ q.monitor \in Monitor /\ q.blinks \in BOOLEAN /\ q.exiting \in BOOLEAN
         /\ Open(q) \subseteq Nat /\ \A w \in Open(q) : q.windows[w] \in ContextType
  <1> HIDE DEF ContextType, Windows, Delivered, Timers, Config, Setting, Monitor
  <1>1. /\ q.windows \in Windows /\ q.events \in Seq(Delivered) /\ q.timers \in Timers /\ q.config \in Config
        /\ q.globals \in Seq(Setting) /\ q.monitor \in Monitor /\ q.blinks \in BOOLEAN /\ q.exiting \in BOOLEAN
    BY DEF Processors
  <1>2. QED BY <1>1, WindowsMembers DEF Open

(* Setting a window changes nothing else. *)
LEMMA SetWindow ==
  ASSUME NEW q \in Processors, NEW w \in Open(q), NEW c \in ContextType
  PROVE  WindowSet(q, [q EXCEPT !.windows[w] = c], w, c)
  <1> HIDE DEF ContextType, Windows, Delivered, Timers, Config, Setting, Monitor
  <1> DEFINE f == [q.windows EXCEPT ![w] = c]
             s == [q EXCEPT !.windows[w] = c]
  <1>1. /\ q.windows = [v \in DOMAIN q.windows |-> q.windows[v]] /\ DOMAIN q.windows \subseteq Nat
        /\ \A v \in DOMAIN q.windows : q.windows[v] \in ContextType
    BY Parts, WindowsMembers
  <1>2. /\ DOMAIN f = DOMAIN q.windows /\ f = [v \in DOMAIN f |-> f[v]]
        /\ f[w] = c /\ \A v \in DOMAIN q.windows : v # w => f[v] = q.windows[v]
    BY <1>1 DEF Open
  <1>3. s = [q EXCEPT !.windows = f] OBVIOUS
  <1> HIDE DEF f, s
  <1>4. f \in Windows BY <1>1, <1>2, WindowsMembers
  <1>5. s \in Processors /\ s.windows = f /\ s.events = q.events /\ s.timers = q.timers /\ SameSettings(q, s)
    BY <1>3, <1>4 DEF Processors, SameSettings
  <1>6. QED BY <1>2, <1>5 DEF WindowSet, Open, s

(* The processor with other events and other timers. *)
LEMMA SetEvents ==
  ASSUME NEW q \in Processors, NEW es \in Seq(Delivered)
  PROVE  /\ [q EXCEPT !.events = es] \in Processors /\ [q EXCEPT !.events = es].events = es
         /\ [q EXCEPT !.events = es].windows = q.windows /\ [q EXCEPT !.events = es].timers = q.timers
         /\ SameSettings(q, [q EXCEPT !.events = es])
  <1> HIDE DEF ContextType, Windows, Delivered, Timers, Config, Setting, Monitor
  <1>1. QED BY DEF Processors, SameSettings

(* Setting the timers changes nothing else. *)
LEMMA SetTimers ==
  ASSUME NEW q \in Processors, NEW b \in Timers
  PROVE  /\ [q EXCEPT !.timers = b] \in Processors /\ [q EXCEPT !.timers = b].events = q.events
         /\ [q EXCEPT !.timers = b].windows = q.windows /\ [q EXCEPT !.timers = b].timers = b
         /\ SameSettings(q, [q EXCEPT !.timers = b])
  <1> HIDE DEF ContextType, Windows, Delivered, Timers, Config, Setting, Monitor
  <1>1. QED BY DEF Processors, SameSettings

(* An event that is sent comes last. *)
LEMMA SendEvent ==
  ASSUME NEW q \in Processors, NEW e \in Delivered
  PROVE  /\ Send(q, e) \in Processors /\ ToSet(Send(q, e).events) = ToSet(q.events) \union {e}
         /\ Send(q, e).windows = q.windows /\ Send(q, e).timers = q.timers /\ SameSettings(q, Send(q, e))
         /\ Send(q, e).events # << >>
  <1> HIDE DEF Delivered, Processors, Timers, Config, Setting, Monitor
  <1> DEFINE es == Append(q.events, e)
  <1>1. es \in Seq(Delivered) /\ ToSet(es) = ToSet(q.events) \union {e} /\ es # << >> BY Parts, AppendMembers
  <1>2. Send(q, e) = [q EXCEPT !.events = es] BY DEF Send
  <1> HIDE DEF es
  <1>3. QED BY <1>1, <1>2, SetEvents

(* A timer of a window. *)
LEMMA Schedule ==
  ASSUME NEW q \in Processors, NEW id \in Topics
  PROVE  /\ schedule(q, id) \in Processors /\ DOMAIN schedule(q, id).timers = DOMAIN q.timers \union {id}
         /\ schedule(q, id).windows = q.windows /\ schedule(q, id).events = q.events
         /\ SameSettings(q, schedule(q, id))
  <1> HIDE DEF Topics, Processors, Timers, Delivered, Setting
  <1> DEFINE b == q.timers (+) SetToBag({id})
  <1>1. b \in Timers /\ DOMAIN b = DOMAIN q.timers \union {id} BY Parts, AddTimer
  <1>2. schedule(q, id) = [q EXCEPT !.timers = b] BY DEF schedule
  <1> HIDE DEF b
  <1>3. QED BY <1>1, <1>2, SetTimers

(* unschedule takes away this timer at most. *)
LEMMA Unschedule ==
  ASSUME NEW q \in Processors, NEW id
  PROVE  /\ unschedule(q, id) \in Processors /\ DOMAIN unschedule(q, id).timers \subseteq DOMAIN q.timers
         /\ \A i \in DOMAIN q.timers : i # id => i \in DOMAIN unschedule(q, id).timers
         /\ unschedule(q, id).windows = q.windows /\ unschedule(q, id).events = q.events
         /\ SameSettings(q, unschedule(q, id))
  <1> HIDE DEF Topics, Processors, Timers, Delivered, Setting
  <1> DEFINE b == q.timers (-) SetToBag({id})
  <1>1. /\ b \in Timers /\ DOMAIN b \subseteq DOMAIN q.timers
        /\ \A i \in DOMAIN q.timers : i # id => i \in DOMAIN b
    BY Parts, RemoveTimer
  <1>2. unschedule(q, id) = [q EXCEPT !.timers = b] BY DEF unschedule
  <1> HIDE DEF b
  <1>3. QED BY <1>1, <1>2, SetTimers

(* The message about a broken option; and messages without one about options. *)
IpcMessage == [target |-> "ipc", lines |-> 1]
NoIpc(messages) == \A i \in DOMAIN messages : messages[i].target # "ipc"

(* What handling staged events of the window w leaves alone: the other windows, the
   settings, the frame and the options of w, the frame timers and the events
   on their way, to which only exits are added. *)
Handled(q, s, w) ==
  /\ s \in Processors /\ Open(s) = Open(q) /\ SameSettings(q, s)
  /\ \A v \in Open(q) : v # w => s.windows[v] = q.windows[v]
  /\ ToSet(q.events) \subseteq ToSet(s.events)
  /\ \A e \in ToSet(s.events) : e \in ToSet(q.events) \/ e.kind = "Exit"
  /\ \A id \in DOMAIN s.timers : id \in DOMAIN q.timers \/ id.window = w
  /\ \A id \in DOMAIN q.timers : id.topic = "Frame" => id \in DOMAIN s.timers
  /\ s.windows[w].has_frame = q.windows[w].has_frame /\ s.windows[w].requested = q.windows[w].requested
  /\ s.windows[w].options = q.windows[w].options /\ s.windows[w].config = q.windows[w].config
  /\ s.windows[w].queue = q.windows[w].queue

(* Messages that change ask for the bar to change. *)
BarAsked(c, d) == d.pending \/ (d.messages = c.messages /\ d.bar = c.bar /\ ~c.pending)

(* A window changed in what its events may change. *)
LEMMA HandledSet ==
  ASSUME NEW q \in Processors, NEW w \in Open(q), NEW s, NEW c, WindowSet(q, s, w, c),
         c.has_frame = q.windows[w].has_frame, c.requested = q.windows[w].requested,
         c.options = q.windows[w].options, c.config = q.windows[w].config, c.queue = q.windows[w].queue
  PROVE  Handled(q, s, w)
  <1> HIDE DEF Processors
  <1>1. QED BY DEF Handled, WindowSet, Open

(* Handling nothing is handling events. *)
LEMMA HandledSame ==
  ASSUME NEW q \in Processors, NEW w \in Open(q)
  PROVE  Handled(q, q, w)
  <1> HIDE DEF Processors
  <1>1. QED BY DEF Handled, SameSettings, Open

(* Handling events one after the other is handling events. *)
LEMMA HandledTrans ==
  ASSUME NEW q, NEW s, NEW t, NEW w, Handled(q, s, w), Handled(s, t, w)
  PROVE  Handled(q, t, w)
  <1> HIDE DEF Processors
  <1>1. t \in Processors /\ Open(t) = Open(q) /\ SameSettings(q, t) BY DEF Handled, SameSettings
  <1>2. \A v \in Open(q) : v # w => t.windows[v] = q.windows[v] BY DEF Handled
  <1>3. /\ ToSet(q.events) \subseteq ToSet(t.events)
        /\ \A e \in ToSet(t.events) : e \in ToSet(q.events) \/ e.kind = "Exit"
    BY DEF Handled
  <1>4. /\ \A id \in DOMAIN t.timers : id \in DOMAIN q.timers \/ id.window = w
        /\ \A id \in DOMAIN q.timers : id.topic = "Frame" => id \in DOMAIN t.timers
    BY DEF Handled
  <1>5. QED BY <1>1, <1>2, <1>3, <1>4 DEF Handled

(* One event of a window, of any kind. *)
LEMMA HandleStagedKeeps ==
  ASSUME NEW q \in Processors, NEW w \in Open(q), NEW e \in Staged
  PROVE  /\ Handled(q, HandleStaged(q, w, e), w)
         /\ BarAsked(q.windows[w], HandleStaged(q, w, e).windows[w])
         /\ e.kind = "Message" /\ e.arg = IpcMessage /\ NoIpc(q.windows[w].messages)
              => HandleStaged(q, w, e).windows[w].pending
  <1> DEFINE c == q.windows[w]
             s == HandleStaged(q, w, e)
  <1>1. c \in ContextType BY Parts
  <1>2. /\ e.kind \in StagedKinds
        /\ e.kind = "Occluded" => e.arg \in BOOLEAN
        /\ e.kind = "Message" => e.arg \in Message
    BY DEF Staged, EventsOf
  <1>3. w \in Nat BY Parts
  <1> HIDE DEF Processors, Staged, Windows, Delivered, Timers, Message
  <1>4. CASE e.kind = "Input"
    <2> DEFINE d == [c EXCEPT !.dirty = TRUE]
    <2>1. s = [q EXCEPT !.windows[w] = d] BY <1>4 DEF HandleStaged
    <2>2. d \in ContextType BY <1>1 DEF ContextType
    <2>3. WindowSet(q, s, w, d) BY <2>1, <2>2, SetWindow
    <2>4. Handled(q, s, w) BY <1>1, <2>3, HandledSet DEF ContextType
    <2>5. BarAsked(c, s.windows[w]) BY <1>1, <2>3 DEF BarAsked, WindowSet, ContextType
    <2>6. QED BY <1>4, <2>4, <2>5
  <1>5. CASE e.kind = "Resized"
    <2> DEFINE d == [c EXCEPT !.pending = TRUE]
    <2>1. s = [q EXCEPT !.windows[w] = d] BY <1>5 DEF HandleStaged
    <2>2. d \in ContextType BY <1>1 DEF ContextType
    <2>3. WindowSet(q, s, w, d) BY <2>1, <2>2, SetWindow
    <2>4. Handled(q, s, w) BY <1>1, <2>3, HandledSet DEF ContextType
    <2>5. BarAsked(c, s.windows[w]) BY <1>1, <2>3 DEF BarAsked, WindowSet, ContextType
    <2>6. QED BY <1>5, <2>4, <2>5
  <1>6. CASE e.kind = "Occluded"
    <2> DEFINE b == e.arg
               d == [c EXCEPT !.occluded = b]
    <2>1. s = [q EXCEPT !.windows[w] = d] BY <1>6 DEF HandleStaged
    <2>0. b \in BOOLEAN BY <1>2, <1>6
    <2> HIDE DEF b
    <2>2. d \in ContextType BY <1>1, <2>0 DEF ContextType
    <2>3. WindowSet(q, s, w, d) BY <2>1, <2>2, SetWindow
    <2>4. Handled(q, s, w) BY <1>1, <2>3, HandledSet DEF ContextType
    <2>5. BarAsked(c, s.windows[w]) BY <1>1, <2>3 DEF BarAsked, WindowSet, ContextType
    <2>6. QED BY <1>6, <2>4, <2>5
  <1>7. CASE e.kind = "Bell"
    <2> DEFINE d == [c EXCEPT !.bell = TRUE]
    <2>1. s = [q EXCEPT !.windows[w] = d] BY <1>7 DEF HandleStaged
    <2>2. d \in ContextType BY <1>1 DEF ContextType
    <2>3. WindowSet(q, s, w, d) BY <2>1, <2>2, SetWindow
    <2>4. Handled(q, s, w) BY <1>1, <2>3, HandledSet DEF ContextType
    <2>5. BarAsked(c, s.windows[w]) BY <1>1, <2>3 DEF BarAsked, WindowSet, ContextType
    <2>6. QED BY <1>7, <2>4, <2>5
  <1>8. CASE e.kind = "Message"
    <2>1. CASE is_queued(c.messages, e.arg)
      <3>1. s = q BY <1>8, <2>1 DEF HandleStaged
      <3>2. Handled(q, s, w) BY <3>1, HandledSame
      <3>3. BarAsked(c, s.windows[w]) BY <1>1, <3>1 DEF BarAsked, ContextType
      <3>4. ASSUME e.arg = IpcMessage PROVE ~NoIpc(c.messages)
        <4>1. PICK i \in DOMAIN c.messages : c.messages[i] = e.arg BY <2>1 DEF is_queued, ToSet
        <4>2. c.messages[i].target = "ipc" BY <3>4, <4>1 DEF IpcMessage
        <4>3. QED BY <4>2 DEF NoIpc
      <3>5. QED BY <3>2, <3>3, <3>4
    <2>2. CASE ~is_queued(c.messages, e.arg)
      <3> DEFINE d == [c EXCEPT !.messages = Append(@, e.arg), !.pending = TRUE]
      <3>1. s = [q EXCEPT !.windows[w] = d]
        <4>1. s = [q EXCEPT !.windows[w].messages = Append(@, e.arg), !.windows[w].pending = TRUE]
          BY <1>8, <2>2 DEF HandleStaged
        <4>2. QED BY <4>1, <1>1, Parts DEF ContextType, Processors, Open
      <3>2. Append(c.messages, e.arg) \in Seq(Message) BY <1>1, <1>2, <1>8 DEF ContextType
      <3>3. d \in ContextType BY <1>1, <3>2 DEF ContextType
      <3>4. WindowSet(q, s, w, d) BY <3>1, <3>3, SetWindow
      <3>5. Handled(q, s, w) BY <1>1, <3>4, HandledSet DEF ContextType
      <3>6. d.pending BY <1>1 DEF ContextType
      <3>7. QED BY <3>4, <3>5, <3>6 DEF BarAsked, WindowSet
    <2>3. QED BY <2>1, <2>2
  <1>9. CASE e.kind = "PopMessage"
    <2>1. CASE c.messages = << >>
      <3>1. s = q BY <1>9, <2>1 DEF HandleStaged
      <3>2. Handled(q, s, w) BY <3>1, HandledSame
      <3>3. BarAsked(c, s.windows[w]) BY <1>1, <3>1 DEF BarAsked, ContextType
      <3>4. QED BY <1>9, <3>2, <3>3
    <2>2. CASE c.messages # << >>
      <3> DEFINE d == [c EXCEPT !.messages = pop(@), !.pending = TRUE]
      <3>1. s = [q EXCEPT !.windows[w] = d]
        <4>1. s = [q EXCEPT !.windows[w].messages = pop(@), !.windows[w].pending = TRUE]
          BY <1>9, <2>2 DEF HandleStaged
        <4>2. QED BY <4>1, <1>1, Parts DEF ContextType, Processors, Open
      <3>2. pop(c.messages) \in Seq(Message)
        <4>1. c.messages \in Seq(Message) BY <1>1 DEF ContextType
        <4>2. Tail(c.messages) \in Seq(Message) BY <2>2, <4>1
        <4>3. QED BY <2>2, <4>2, WithoutMembers DEF pop
      <3>3. d \in ContextType BY <1>1, <3>2 DEF ContextType
      <3>4. WindowSet(q, s, w, d) BY <3>1, <3>3, SetWindow
      <3>5. Handled(q, s, w) BY <1>1, <3>4, HandledSet DEF ContextType
      <3>6. d.pending BY <1>1 DEF ContextType
      <3>7. QED BY <1>9, <3>4, <3>5, <3>6 DEF BarAsked, WindowSet
    <2>3. QED BY <2>1, <2>2
  <1>10. CASE e.kind = "CursorBlinkingChange"
    <2> DEFINE id == TimerId("BlinkCursor", w)
               t == unschedule(q, id)
    <2>1. id \in Topics /\ id.topic = "BlinkCursor" /\ id.window = w BY <1>3 DEF TimerId, Topics
    <2> HIDE DEF id
    <2>2. /\ t \in Processors /\ DOMAIN t.timers \subseteq DOMAIN q.timers
          /\ \A i \in DOMAIN q.timers : i # id => i \in DOMAIN t.timers
          /\ t.windows = q.windows /\ t.events = q.events /\ SameSettings(q, t)
      BY Unschedule
    <2>3. w \in Open(t) BY <2>2 DEF Open
    <2>4. Handled(q, t, w) BY <2>1, <2>2 DEF Handled, Open
    <2>5. s = IF q.blinks THEN schedule(t, id) ELSE [t EXCEPT !.windows[w].dirty = TRUE]
      BY <1>10 DEF HandleStaged, id
    <2> HIDE DEF t
    <2>6. CASE q.blinks
      <3>1. s = schedule(t, id) BY <2>5, <2>6
      <3>2. /\ s \in Processors /\ DOMAIN s.timers = DOMAIN t.timers \union {id}
            /\ s.windows = t.windows /\ s.events = t.events /\ SameSettings(t, s)
        BY <2>1, <2>2, <3>1, Schedule
      <3>3. Handled(t, s, w) BY <2>1, <3>2 DEF Handled, Open
      <3>4. Handled(q, s, w) BY <2>4, <3>3, HandledTrans
      <3>5. BarAsked(c, s.windows[w]) BY <1>1, <2>2, <3>2 DEF BarAsked, ContextType
      <3>6. QED BY <1>10, <3>4, <3>5
    <2>7. CASE ~q.blinks
      <3> DEFINE d == [c EXCEPT !.dirty = TRUE]
      <3>1. s = [t EXCEPT !.windows[w] = d] BY <2>2, <2>5, <2>7
      <3>2. d \in ContextType BY <1>1 DEF ContextType
      <3>3. WindowSet(t, s, w, d) BY <2>2, <2>3, <3>1, <3>2, SetWindow
      <3>4. Handled(t, s, w) BY <1>1, <2>2, <2>3, <3>3, HandledSet DEF ContextType
      <3>5. Handled(q, s, w) BY <2>4, <3>4, HandledTrans
      <3>6. BarAsked(c, s.windows[w]) BY <1>1, <3>3 DEF BarAsked, WindowSet, ContextType
      <3>7. QED BY <1>10, <3>5, <3>6
    <2>8. QED BY <2>6, <2>7
  <1>11. CASE e.kind = "BlinkCursor"
    <2> DEFINE d == [c EXCEPT !.dirty = TRUE]
    <2>1. s = [q EXCEPT !.windows[w] = d] BY <1>11 DEF HandleStaged
    <2>2. d \in ContextType BY <1>1 DEF ContextType
    <2>3. WindowSet(q, s, w, d) BY <2>1, <2>2, SetWindow
    <2>4. Handled(q, s, w) BY <1>1, <2>3, HandledSet DEF ContextType
    <2>5. BarAsked(c, s.windows[w]) BY <1>1, <2>3 DEF BarAsked, WindowSet, ContextType
    <2>6. QED BY <1>11, <2>4, <2>5
  <1>12. CASE e.kind = "CloseRequested"
    <2> DEFINE d == [c EXCEPT !.hold = FALSE]
               t == [q EXCEPT !.windows[w] = d]
               x == Event("Exit", w, 0)
    <2>1. d \in ContextType BY <1>1 DEF ContextType
    <2>2. WindowSet(q, t, w, d) BY <2>1, SetWindow
    <2>3. Handled(q, t, w)
      <3> HIDE DEF t
      <3>1. QED BY <1>1, <2>2, HandledSet DEF ContextType
    <2>4. x \in Delivered /\ x.kind = "Exit" BY <1>3 DEF Event, Delivered, EventsOf, SentKinds, Arguments
    <2>5. s = Send(t, x) BY <1>12 DEF HandleStaged
    <2>6. t \in Processors /\ t.windows[w] = d BY <2>2 DEF WindowSet
    <2> HIDE DEF t, x
    <2>7. /\ s \in Processors /\ ToSet(s.events) = ToSet(t.events) \union {x}
          /\ s.windows = t.windows /\ s.timers = t.timers /\ SameSettings(t, s)
      BY <2>4, <2>5, <2>6, SendEvent
    <2>8. Handled(t, s, w) BY <2>4, <2>7 DEF Handled, Open
    <2>9. Handled(q, s, w) BY <2>3, <2>8, HandledTrans
    <2>10. BarAsked(c, s.windows[w]) BY <1>1, <2>6, <2>7 DEF BarAsked, ContextType
    <2>11. QED BY <1>12, <2>9, <2>10
  <1> HIDE DEF c, s
  <1>13. Handled(q, s, w) BY <1>2, <1>4, <1>5, <1>6, <1>7, <1>8, <1>9, <1>10, <1>11, <1>12 DEF StagedKinds, c, s
  <1>14. BarAsked(c, s.windows[w]) BY <1>2, <1>4, <1>5, <1>6, <1>7, <1>8, <1>9, <1>10, <1>11, <1>12 DEF StagedKinds, c, s
  <1>15. QED BY <1>8, <1>13, <1>14 DEF c, s

(* The processor once the events of a window have been taken from its queue. *)
Taken(q, w) == [q EXCEPT !.windows[w].queue = << >>]
IsIpc(e) == e.kind = "Message" /\ e.arg = IpcMessage

(* What handling the queue of the window w passes through: r[k] after k events. *)
QueueHandled(q, w, r) ==
  /\ r[0] = Taken(q, w)
  /\ \A k \in 1 .. Len(q.windows[w].queue) : r[k] = HandleStaged(r[k - 1], w, q.windows[w].queue[k])
  /\ HandleQueue(q, w) = r[Len(q.windows[w].queue)]

(* HandleQueue runs to its end. *)
LEMMA QueueLoop ==
  ASSUME NEW q, NEW w, Len(q.windows[w].queue) \in Nat
  PROVE  \E r : QueueHandled(q, w, r)
  <1> DEFINE n == Len(q.windows[w].queue)
             base == [q EXCEPT !.windows[w].queue = << >>]
             Round(x, k) == HandleStaged(x, w, q.windows[w].queue[k])
  <1>1. n \in Nat OBVIOUS
  <1> HIDE DEF n, base, Round
  <1>2. \E r : r = [k \in 0 .. n |-> IF k = 0 THEN base ELSE Round(r[k - 1], k)]
    <2> DEFINE Runs(m, r) == r = [k \in 0 .. m |-> IF k = 0 THEN base ELSE Round(r[k - 1], k)]
               K == {m \in 0 .. n : \E r : Runs(m, r)}
    <2>1. 0 \in K
      <3>1. Runs(0, [k \in 0 .. 0 |-> base]) OBVIOUS
      <3> HIDE DEF Runs
      <3>2. QED BY <1>1, <3>1
    <2>2. ASSUME NEW m \in 1 .. n, m - 1 \in K PROVE m \in K
      <3>1. PICK r : Runs(m - 1, r) BY <2>2
      <3> DEFINE longer == [k \in 0 .. m |-> IF k = m THEN Round(r[m - 1], m) ELSE r[k]]
      <3>2. ASSUME NEW k \in 0 .. m PROVE longer[k] = IF k = 0 THEN base ELSE Round(longer[k - 1], k)
        <4>1. CASE k = m
          <5>1. k - 1 \in 0 .. m /\ k - 1 # m /\ k # 0 BY <4>1
          <5>2. longer[k - 1] = r[m - 1] BY <4>1, <5>1
          <5>3. QED BY <4>1, <5>1, <5>2
        <4>2. CASE k # m /\ k # 0
          <5>1. k - 1 \in 0 .. m /\ k - 1 # m /\ k \in 0 .. (m - 1) BY <4>2
          <5>2. longer[k - 1] = r[k - 1] /\ longer[k] = r[k] BY <4>2, <5>1
          <5>3. r[k] = Round(r[k - 1], k) BY <3>1, <4>2, <5>1
          <5>4. QED BY <4>2, <5>2, <5>3
        <4>3. CASE k # m /\ k = 0
          <5>1. k \in 0 .. (m - 1) BY <4>3
          <5>2. r[k] = base BY <3>1, <4>3, <5>1
          <5>3. QED BY <4>3, <5>2
        <4>4. QED BY <4>1, <4>2, <4>3
      <3>3. longer = [k \in 0 .. m |-> longer[k]] OBVIOUS
      <3> HIDE DEF longer
      <3>4. Runs(m, longer) BY <3>2, <3>3
      <3> HIDE DEF Runs
      <3>5. QED BY <3>4
    <2> HIDE DEF K
    <2>3. \A m \in 0 .. n : m \in K BY <1>1, <2>1, <2>2, EveryRound
    <2>4. n \in K BY <1>1, <2>3
    <2>5. QED BY <2>4 DEF K
  <1> DEFINE g == CHOOSE r : r = [k \in 0 .. n |-> IF k = 0 THEN base ELSE Round(r[k - 1], k)]
  <1>g. g = [k \in 0 .. n |-> IF k = 0 THEN base ELSE Round(g[k - 1], k)] BY <1>2, Zenon
  <1>3. g[0] = base
    <2> HIDE DEF g
    <2>1. QED BY <1>1, <1>g
  <1>4. ASSUME NEW k \in 1 .. n PROVE g[k] = Round(g[k - 1], k)
    <2> HIDE DEF g
    <2>1. k \in 0 .. n /\ k # 0 BY <1>1
    <2>2. QED BY <1>g, <2>1
  <1>5. HandleQueue(q, w) = g[n] BY Zenon DEF HandleQueue, n, g, base, Round
  <1> HIDE DEF g
  <1>6. QueueHandled(q, w, g) BY <1>3, <1>4, <1>5 DEF QueueHandled, Taken, n, base, Round
  <1>7. QED BY <1>6

(* Taking the queue leaves the rest of the window. *)
LEMMA TakenQueue ==
  ASSUME NEW q \in Processors, NEW w \in Open(q)
  PROVE  WindowSet(q, Taken(q, w), w, [q.windows[w] EXCEPT !.queue = << >>])
  <1> HIDE DEF Processors, Windows, Delivered, Timers, Message, Staged
  <1> DEFINE c == q.windows[w]
             none == << >>
             d == [c EXCEPT !.queue = none]
  <1>1. c \in ContextType BY Parts
  <1>0. none \in Seq(Staged) OBVIOUS
  <1>3. Taken(q, w) = [q EXCEPT !.windows[w] = d] BY DEF Taken
  <1>2. d \in ContextType
    <2> HIDE DEF none
    <2>1. QED BY <1>0, <1>1 DEF ContextType
  <1>4. QED BY <1>2, <1>3, SetWindow

(* Messages that changed, or the one about options that has come, ask for the bar. *)
LEMMA HandleQueueKeeps ==
  ASSUME NEW q \in Processors, NEW w \in Open(q)
  PROVE  /\ Handled(Taken(q, w), HandleQueue(q, w), w)
         /\ BarAsked(q.windows[w], HandleQueue(q, w).windows[w])
         /\ NoIpc(q.windows[w].messages) /\ (\E i \in DOMAIN q.windows[w].queue : IsIpc(q.windows[w].queue[i]))
              => HandleQueue(q, w).windows[w].pending
  <1> HIDE DEF Processors, Windows, Delivered, Timers, Message, Staged
  <1> DEFINE c == q.windows[w]
             n == Len(c.queue)
             t == Taken(q, w)
             b == [c EXCEPT !.queue = << >>]
  <1>1. c \in ContextType BY Parts
  <1>2. c.queue \in Seq(Staged) BY <1>1 DEF ContextType
  <1>3. n \in Nat /\ DOMAIN c.queue = 1 .. n /\ \A k \in 1 .. n : c.queue[k] \in Staged BY <1>2
  <1>4. WindowSet(q, t, w, b) BY TakenQueue
  <1>5. b.messages = c.messages /\ b.bar = c.bar /\ b.pending = c.pending BY <1>1 DEF ContextType
  <1>6. t \in Processors /\ w \in Open(t) /\ t.windows[w] = b BY <1>4 DEF WindowSet
  <1>7. PICK r : QueueHandled(q, w, r)
    <2>1. Len(q.windows[w].queue) \in Nat BY <1>3
    <2>2. QED BY <2>1, QueueLoop
  <1>8. r[0] = t /\ HandleQueue(q, w) = r[n] BY <1>7 DEF QueueHandled
  <1>9. \A k \in 1 .. n : r[k] = HandleStaged(r[k - 1], w, c.queue[k]) BY <1>7 DEF QueueHandled
  <1> HIDE DEF t, b, c, n
  <1> DEFINE After(k) == /\ Handled(t, r[k], w) /\ BarAsked(c, r[k].windows[w])
                         /\ \A j \in 1 .. k : IsIpc(c.queue[j]) /\ NoIpc(c.messages) => r[k].windows[w].pending
             K == {k \in 0 .. n : After(k)}
  <1>10. 0 \in K
    <2>1. Handled(t, r[0], w) BY <1>6, <1>8, HandledSame
    <2>2. BarAsked(c, r[0].windows[w]) BY <1>1, <1>5, <1>6, <1>8 DEF BarAsked, ContextType
    <2>3. QED BY <1>3, <2>1, <2>2
  <1>11. ASSUME NEW k \in 1 .. n, k - 1 \in K PROVE k \in K
    <2> DEFINE a == r[k - 1]
               e == c.queue[k]
    <2>1. /\ Handled(t, a, w) /\ BarAsked(c, a.windows[w])
          /\ \A j \in 1 .. (k - 1) : IsIpc(c.queue[j]) /\ NoIpc(c.messages) => a.windows[w].pending
      BY <1>11
    <2>2. a \in Processors /\ w \in Open(a) BY <1>6, <2>1 DEF Handled
    <2>3. e \in Staged /\ r[k] = HandleStaged(a, w, e) BY <1>3, <1>9
    <2> HIDE DEF a, e
    <2>4. /\ Handled(a, r[k], w) /\ BarAsked(a.windows[w], r[k].windows[w])
          /\ IsIpc(e) /\ NoIpc(a.windows[w].messages) => r[k].windows[w].pending
      BY <2>2, <2>3, HandleStagedKeeps DEF IsIpc
    <2>5. Handled(t, r[k], w) BY <2>1, <2>4, HandledTrans
    <2>6. BarAsked(c, r[k].windows[w]) BY <2>1, <2>4 DEF BarAsked
    <2>7. ASSUME NEW j \in 1 .. k, IsIpc(c.queue[j]), NoIpc(c.messages) PROVE r[k].windows[w].pending
      <3>1. CASE j \in 1 .. (k - 1) BY <2>1, <2>4, <2>7, <3>1 DEF BarAsked
      <3>2. CASE j = k
        <4>1. IsIpc(e) BY <2>7, <3>2 DEF e
        <4>2. QED BY <2>1, <2>4, <2>7, <4>1 DEF BarAsked
      <3>3. QED BY <3>1, <3>2
    <2>8. QED BY <1>3, <2>5, <2>6, <2>7
  <1> HIDE DEF K
  <1>12. \A k \in 0 .. n : k \in K BY <1>3, <1>10, <1>11, EveryRound
  <1>13. After(n)
    <2>1. n \in K BY <1>3, <1>12
    <2>2. QED BY <2>1 DEF K
  <1>14. QED BY <1>3, <1>8, <1>13 DEF c, t

-------------------------------------------------------------------------------
(* The inductive invariant. *)

(* The frame of a window is on its way. *)
FrameOn(q, w) == TimerId("Frame", w) \in DOMAIN q.timers \/ Event("Frame", w, 0) \in ToSet(q.events)

(* A window with nothing staged has asked for what it has to draw. *)
Awaits(c) == c.dirty /\ ~c.occluded /\ c.has_frame /\ c.queue = << >> => c.requested

(* A window has the configuration of the processor, with its options. *)
Configured(c, base) ==
  c.config.version = base.version /\ (c.options # << >> => c.config.setting = Last(c.options))

(* The processor with its windows, those of W having asked for their frames. *)
Sound(q, W) ==
  /\ q \in Processors
  /\ \A id \in DOMAIN q.timers : id.window \in Open(q)
  /\ \A w \in Open(q) : /\ w \in W => Awaits(q.windows[w])
                        /\ ~q.windows[w].has_frame => FrameOn(q, w)
                        /\ Configured(q.windows[w], q.config)

(* A message about an option is on its way to the window, or staged for it; so is any
   message for all windows. *)
IpcComing(q, w) ==
  \/ Event("Message", 0, IpcMessage) \in ToSet(q.events)
  \/ \E i \in DOMAIN q.windows[w].queue : IsIpc(q.windows[w].queue[i])
MessageComing(q) == \E e \in ToSet(q.events) : e.kind = "Message" /\ e.window = 0

(* While no IPC options are set but broken ones, the lines of the message bar are those of
   its message, or will be when what has been asked for is done or has come. *)
BarOfWindow(q, w) ==
  /\ \/ q.windows[w].pending
     \/ q.windows[w].bar = BarLines(q.windows[w].messages)
     \/ NoIpc(q.windows[w].messages) /\ IpcComing(q, w)
  /\ q.windows[w].pending => q.windows[w].queue # << >> \/ MessageComing(q)
BarComes(q) ==
  /\ \A e \in ToSet(q.events) : e.kind = "IpcConfig" => e.window = 0 /\ e.arg = << Broken >>
  /\ \A w \in Open(q) : BarOfWindow(q, w)

-------------------------------------------------------------------------------
(* Handling the events of windows. *)

(* The bar of a window whose queue has been handled. *)
BarSettled(c, d) ==
  \/ d = c
  \/ /\ ~d.pending
     /\ \/ d.bar = BarLines(d.messages)
        \/ /\ d.messages = c.messages /\ d.bar = c.bar /\ ~c.pending
           /\ ~(NoIpc(c.messages) /\ \E i \in DOMAIN c.queue : IsIpc(c.queue[i]))

(* What is left alone, and what is so, when the staged events of w have been handled. *)
EventHandled(q, s, w) ==
  /\ s \in Processors /\ Open(s) = Open(q) /\ SameSettings(q, s)
  /\ \A v \in Open(q) : v # w => s.windows[v] = q.windows[v]
  /\ ToSet(q.events) \subseteq ToSet(s.events)
  /\ \A e \in ToSet(s.events) : e \in ToSet(q.events) \/ e.kind = "Exit"
  /\ \A id \in DOMAIN s.timers : id \in DOMAIN q.timers \/ id.window = w
  /\ \A id \in DOMAIN q.timers : id.topic = "Frame" => id \in DOMAIN s.timers
  /\ s.windows[w].has_frame = q.windows[w].has_frame
  /\ s.windows[w].options = q.windows[w].options /\ s.windows[w].config = q.windows[w].config
  /\ s.windows[w].queue = << >>
  /\ BarSettled(q.windows[w], s.windows[w])

(* handle_event draws, asks for a frame or waits for one. *)
LEMMA HandleEvent ==
  ASSUME NEW q \in Processors, NEW w \in Open(q), NEW redraw \in BOOLEAN
  PROVE  /\ EventHandled(q, handle_event(q, w, redraw), w)
         /\ Awaits(q.windows[w]) /\ ~redraw => Awaits(handle_event(q, w, redraw).windows[w])
  <1> HIDE DEF Processors, Windows, Delivered, Timers, Message, Staged
  <1> DEFINE c == q.windows[w]
             t == Taken(q, w)
             b == [c EXCEPT !.queue = << >>]
             h == HandleQueue(q, w)
             d == h.windows[w]
             bar == BarLines(d.messages)
             u == IF d.pending THEN [d EXCEPT !.pending = FALSE, !.bar = bar, !.dirty = TRUE] ELSE d
             x == IF u.dirty /\ u.has_frame /\ ~u.occluded /\ ~redraw THEN request_redraw(u) ELSE u
             s == handle_event(q, w, redraw)
  <1>1. c \in ContextType BY Parts
  <1>2. CASE c.queue = << >>
    <2>1. s = q BY <1>2 DEF handle_event
    <2>2. EventHandled(q, q, w) BY <1>2 DEF EventHandled, BarSettled, SameSettings, Open
    <2>3. QED BY <2>1, <2>2
  <1>3. CASE c.queue # << >>
    <2>1. s = [h EXCEPT !.windows[w] = x] BY <1>3 DEF handle_event
    <2>2. Handled(t, h, w) /\ BarAsked(c, d) BY HandleQueueKeeps
    <2>3. NoIpc(c.messages) /\ (\E i \in DOMAIN c.queue : IsIpc(c.queue[i])) => d.pending BY HandleQueueKeeps
    <2>4. WindowSet(q, t, w, b) BY TakenQueue
    <2>5. h \in Processors /\ w \in Open(h) /\ w \in Open(t) BY <2>2, <2>4 DEF Handled, WindowSet
    <2>6. d \in ContextType BY <2>5, Parts
    <2>7. bar \in 0 .. 2
      <3>1. d.messages \in Seq(Message) BY <2>6 DEF ContextType
      <3>2. CASE d.messages = << >> BY <3>2 DEF BarLines
      <3>3. CASE d.messages # << >>
        <4>1. Head(d.messages) \in Message BY <3>1, <3>3
        <4>2. Head(d.messages).lines \in 1 .. 2 BY <4>1 DEF Message
        <4>3. QED BY <3>3, <4>2 DEF BarLines
      <3>4. QED BY <3>2, <3>3
    <2>8. /\ b.has_frame = c.has_frame /\ b.options = c.options /\ b.config = c.config /\ b.queue = << >>
      BY <1>1 DEF ContextType
    <2>9. t.windows[w] = b BY <2>4 DEF WindowSet
    <2>10. /\ d.has_frame = c.has_frame /\ d.options = c.options /\ d.config = c.config /\ d.queue = << >>
      <3> HIDE DEF t, b, c, h
      <3>1. QED BY <2>2, <2>8, <2>9 DEF Handled
    <2> HIDE DEF bar, d
    <2>11. /\ u \in ContextType /\ ~u.pending /\ u.has_frame = d.has_frame /\ u.options = d.options
           /\ u.config = d.config /\ u.queue = d.queue /\ u.messages = d.messages
           /\ u.bar = IF d.pending THEN bar ELSE d.bar
      <3>1. CASE d.pending BY <2>6, <2>7, <3>1 DEF ContextType
      <3>2. CASE ~d.pending BY <2>6, <3>2 DEF ContextType
      <3>3. QED BY <3>1, <3>2
    <2> HIDE DEF u
    <2>12. /\ x \in ContextType /\ x.pending = u.pending /\ x.has_frame = u.has_frame /\ x.options = u.options
           /\ x.config = u.config /\ x.queue = u.queue /\ x.messages = u.messages /\ x.bar = u.bar
           /\ ~redraw => Awaits(x)
      BY <2>11 DEF ContextType, request_redraw, Awaits
    <2> HIDE DEF x
    <2>13. WindowSet(h, s, w, x) BY <2>1, <2>5, <2>12, SetWindow
    <2>14. BarSettled(c, x)
      <3>1. CASE d.pending BY <2>11, <2>12, <3>1 DEF BarSettled, bar
      <3>2. CASE ~d.pending BY <2>2, <2>3, <2>11, <2>12, <3>2 DEF BarSettled, BarAsked
      <3>3. QED BY <3>1, <3>2
    <2> HIDE DEF s, h, t, b, c
    <2>15. EventHandled(q, s, w)
      <3>1. s \in Processors /\ Open(s) = Open(q) /\ SameSettings(q, s)
        BY <2>2, <2>4, <2>13 DEF Handled, WindowSet, SameSettings
      <3>2. \A v \in Open(q) : v # w => s.windows[v] = q.windows[v]
        BY <2>2, <2>4, <2>13 DEF Handled, WindowSet
      <3>3. /\ ToSet(q.events) \subseteq ToSet(s.events)
            /\ \A e \in ToSet(s.events) : e \in ToSet(q.events) \/ e.kind = "Exit"
            /\ \A id \in DOMAIN s.timers : id \in DOMAIN q.timers \/ id.window = w
            /\ \A id \in DOMAIN q.timers : id.topic = "Frame" => id \in DOMAIN s.timers
        BY <2>2, <2>4, <2>13 DEF Handled, WindowSet
      <3>4. s.windows[w] = x BY <2>13 DEF WindowSet
      <3>5. /\ s.windows[w].has_frame = c.has_frame /\ s.windows[w].options = c.options
            /\ s.windows[w].config = c.config /\ s.windows[w].queue = << >>
        BY <2>10, <2>11, <2>12, <3>4
      <3>6. QED BY <2>14, <3>1, <3>2, <3>3, <3>4, <3>5 DEF EventHandled, c
    <2>16. s.windows[w] = x BY <2>13 DEF WindowSet
    <2>17. QED BY <2>12, <2>15, <2>16 DEF s
  <1>4. QED BY <1>2, <1>3

(* handle_event keeps the windows sound. *)
LEMMA EventKeepsSound ==
  ASSUME NEW q, NEW W, Sound(q, W), NEW w \in Open(q), NEW s, EventHandled(q, s, w),
         w \in W => Awaits(s.windows[w])
  PROVE  Sound(s, W)
  <1> HIDE DEF Processors
  <1>1. s \in Processors /\ Open(s) = Open(q) /\ s.config = q.config BY DEF EventHandled, SameSettings
  <1>2. \A id \in DOMAIN s.timers : id.window \in Open(s) BY <1>1 DEF EventHandled, Sound
  <1>3. ASSUME NEW v \in Open(s)
        PROVE  /\ v \in W => Awaits(s.windows[v])
               /\ ~s.windows[v].has_frame => FrameOn(s, v)
               /\ Configured(s.windows[v], s.config)
    <2>0. TimerId("Frame", v).topic = "Frame" BY DEF TimerId
    <2>1. FrameOn(q, v) => FrameOn(s, v) BY <2>0 DEF FrameOn, EventHandled
    <2>2. /\ v \in W => Awaits(q.windows[v])
          /\ ~q.windows[v].has_frame => FrameOn(q, v)
          /\ Configured(q.windows[v], q.config)
      BY <1>1 DEF Sound
    <2>3. CASE v # w
      <3>1. s.windows[v] = q.windows[v] BY <1>1, <2>3 DEF EventHandled
      <3>2. QED BY <1>1, <2>1, <2>2, <3>1
    <2>4. CASE v = w
      <3>1. /\ s.windows[w].has_frame = q.windows[w].has_frame
            /\ s.windows[w].options = q.windows[w].options /\ s.windows[w].config = q.windows[w].config
        BY DEF EventHandled
      <3>2. QED BY <1>1, <2>1, <2>2, <2>4, <3>1 DEF Configured
    <2>5. QED BY <2>3, <2>4
  <1>4. QED BY <1>1, <1>2, <1>3 DEF Sound

(* handle_event keeps the bar coming. *)
LEMMA EventKeepsBar ==
  ASSUME NEW q, BarComes(q), NEW w \in Open(q), NEW s, EventHandled(q, s, w)
  PROVE  BarComes(s)
  <1> HIDE DEF Processors
  <1>1. Open(s) = Open(q) BY DEF EventHandled
  <1>2. ASSUME NEW e \in ToSet(s.events), e.kind = "IpcConfig" PROVE e.window = 0 /\ e.arg = << Broken >>
    BY <1>2 DEF EventHandled, BarComes
  <1>3. ASSUME NEW v \in Open(s) PROVE BarOfWindow(s, v)
    <2>1. BarOfWindow(q, v) BY <1>1 DEF BarComes
    <2>2. ToSet(q.events) \subseteq ToSet(s.events) BY DEF EventHandled
    <2>3. MessageComing(q) => MessageComing(s) BY <2>2 DEF MessageComing
    <2>4. CASE s.windows[v] = q.windows[v] BY <2>1, <2>2, <2>3, <2>4 DEF BarOfWindow, IpcComing
    <2>5. CASE s.windows[v] # q.windows[v]
      <3>1. v = w BY <1>1, <2>5 DEF EventHandled
      <3> DEFINE c == q.windows[v]
                 d == s.windows[v]
      <3>2. BarSettled(c, d) BY <3>1 DEF EventHandled
      <3>3. /\ ~d.pending
            /\ \/ d.bar = BarLines(d.messages)
               \/ /\ d.messages = c.messages /\ d.bar = c.bar /\ ~c.pending
                  /\ ~(NoIpc(c.messages) /\ \E i \in DOMAIN c.queue : IsIpc(c.queue[i]))
        BY <2>5, <3>2 DEF BarSettled
      <3>4. CASE d.bar = BarLines(d.messages) BY <3>3, <3>4 DEF BarOfWindow
      <3>5. CASE /\ d.messages = c.messages /\ d.bar = c.bar /\ ~c.pending
                 /\ ~(NoIpc(c.messages) /\ \E i \in DOMAIN c.queue : IsIpc(c.queue[i]))
        BY <2>1, <2>2, <3>3, <3>5 DEF BarOfWindow, IpcComing
      <3>6. QED BY <3>3, <3>4, <3>5
    <2>6. QED BY <2>4, <2>5
  <1>4. QED BY <1>2, <1>3 DEF BarComes

(* The windows are handled one after the other: r[k] when k have been. *)
WindowsHandled(q, order, r) ==
  /\ r[0] = q
  /\ \A k \in 1 .. Len(order) : r[k] = handle_event(r[k - 1], order[k], FALSE)
  /\ HandleWindows(q, order) = r[Len(order)]

(* HandleWindows runs to its end. *)
LEMMA WindowsLoop ==
  ASSUME NEW q, NEW order, Len(order) \in Nat
  PROVE  \E r : WindowsHandled(q, order, r)
  <1> DEFINE n == Len(order)
             base == q
             Round(x, k) == handle_event(x, order[k], FALSE)
  <1>1. n \in Nat OBVIOUS
  <1> HIDE DEF n, base, Round
  <1>2. \E r : r = [k \in 0 .. n |-> IF k = 0 THEN base ELSE Round(r[k - 1], k)]
    <2> DEFINE Runs(m, r) == r = [k \in 0 .. m |-> IF k = 0 THEN base ELSE Round(r[k - 1], k)]
               K == {m \in 0 .. n : \E r : Runs(m, r)}
    <2>1. 0 \in K
      <3>1. Runs(0, [k \in 0 .. 0 |-> base]) OBVIOUS
      <3> HIDE DEF Runs
      <3>2. QED BY <1>1, <3>1
    <2>2. ASSUME NEW m \in 1 .. n, m - 1 \in K PROVE m \in K
      <3>1. PICK r : Runs(m - 1, r) BY <2>2
      <3> DEFINE longer == [k \in 0 .. m |-> IF k = m THEN Round(r[m - 1], m) ELSE r[k]]
      <3>2. ASSUME NEW k \in 0 .. m PROVE longer[k] = IF k = 0 THEN base ELSE Round(longer[k - 1], k)
        <4>1. CASE k = m
          <5>1. k - 1 \in 0 .. m /\ k - 1 # m /\ k # 0 BY <4>1
          <5>2. longer[k - 1] = r[m - 1] BY <4>1, <5>1
          <5>3. QED BY <4>1, <5>1, <5>2
        <4>2. CASE k # m /\ k # 0
          <5>1. k - 1 \in 0 .. m /\ k - 1 # m /\ k \in 0 .. (m - 1) BY <4>2
          <5>2. longer[k - 1] = r[k - 1] /\ longer[k] = r[k] BY <4>2, <5>1
          <5>3. r[k] = Round(r[k - 1], k) BY <3>1, <4>2, <5>1
          <5>4. QED BY <4>2, <5>2, <5>3
        <4>3. CASE k # m /\ k = 0
          <5>1. k \in 0 .. (m - 1) BY <4>3
          <5>2. r[k] = base BY <3>1, <4>3, <5>1
          <5>3. QED BY <4>3, <5>2
        <4>4. QED BY <4>1, <4>2, <4>3
      <3>3. longer = [k \in 0 .. m |-> longer[k]] OBVIOUS
      <3> HIDE DEF longer
      <3>4. Runs(m, longer) BY <3>2, <3>3
      <3> HIDE DEF Runs
      <3>5. QED BY <3>4
    <2> HIDE DEF K
    <2>3. \A m \in 0 .. n : m \in K BY <1>1, <2>1, <2>2, EveryRound
    <2>4. n \in K BY <1>1, <2>3
    <2>5. QED BY <2>4 DEF K
  <1> DEFINE g == CHOOSE r : r = [k \in 0 .. n |-> IF k = 0 THEN base ELSE Round(r[k - 1], k)]
  <1>g. g = [k \in 0 .. n |-> IF k = 0 THEN base ELSE Round(g[k - 1], k)] BY <1>2, Zenon
  <1>3. g[0] = base
    <2> HIDE DEF g
    <2>1. QED BY <1>1, <1>g
  <1>4. ASSUME NEW k \in 1 .. n PROVE g[k] = Round(g[k - 1], k)
    <2> HIDE DEF g
    <2>1. k \in 0 .. n /\ k # 0 BY <1>1
    <2>2. QED BY <1>g, <2>1
  <1>5. HandleWindows(q, order) = g[n] BY Zenon DEF HandleWindows, n, g, base, Round
  <1> HIDE DEF g
  <1>6. WindowsHandled(q, order, g) BY <1>3, <1>4, <1>5 DEF WindowsHandled, n, base, Round
  <1>7. QED BY <1>6

(* Then no event is staged. *)
LEMMA HandleWindowsKeeps ==
  ASSUME NEW q, Sound(q, Open(q)), NEW order \in Orders(q), Cardinality(Open(q)) \in Nat
  PROVE  /\ Sound(HandleWindows(q, order), Open(HandleWindows(q, order)))
         /\ Open(HandleWindows(q, order)) = Open(q)
         /\ \A w \in Open(q) : HandleWindows(q, order).windows[w].queue = << >>
         /\ BarComes(q) => BarComes(HandleWindows(q, order))
  <1> HIDE DEF Processors
  <1> DEFINE n == Cardinality(Open(q))
  <1>1. order \in [1 .. n -> Open(q)] /\ \A w \in Open(q) : \E i \in DOMAIN order : order[i] = w BY DEF Orders
  <1>2. n \in Nat OBVIOUS
  <1> HIDE DEF n
  <1>3. order \in Seq(Open(q)) /\ Len(order) = n BY <1>1, <1>2, SeqDef
  <1>4. PICK r : WindowsHandled(q, order, r)
    <2>1. Len(order) \in Nat BY <1>2, <1>3
    <2>2. QED BY <2>1, WindowsLoop
  <1>5. r[0] = q /\ HandleWindows(q, order) = r[n] BY <1>3, <1>4 DEF WindowsHandled
  <1>6. \A k \in 1 .. n : r[k] = handle_event(r[k - 1], order[k], FALSE) BY <1>3, <1>4 DEF WindowsHandled
  <1> DEFINE After(k) == /\ Sound(r[k], Open(q)) /\ Open(r[k]) = Open(q)
                         /\ \A j \in 1 .. k : r[k].windows[order[j]].queue = << >>
                         /\ BarComes(q) => BarComes(r[k])
             K == {k \in 0 .. n : After(k)}
  <1>7. 0 \in K BY <1>2, <1>5
  <1>8. ASSUME NEW k \in 1 .. n, k - 1 \in K PROVE k \in K
    <2> DEFINE a == r[k - 1]
               w == order[k]
    <2>1. Sound(a, Open(q)) /\ Open(a) = Open(q) /\ (BarComes(q) => BarComes(a)) BY <1>8
    <2>2. \A j \in 1 .. (k - 1) : a.windows[order[j]].queue = << >> BY <1>8
    <2>4. w \in Open(q) /\ r[k] = handle_event(a, w, FALSE) BY <1>1, <1>6
    <2> HIDE DEF a, w
    <2>5. a \in Processors /\ w \in Open(a) /\ Awaits(a.windows[w]) BY <2>1, <2>4 DEF Sound
    <2>6. EventHandled(a, r[k], w) /\ Awaits(r[k].windows[w]) BY <2>4, <2>5, HandleEvent
    <2>7. Sound(r[k], Open(q)) BY <2>1, <2>5, <2>6, EventKeepsSound
    <2>8. Open(r[k]) = Open(q) BY <2>1, <2>6 DEF EventHandled
    <2>9. ASSUME NEW j \in 1 .. k PROVE r[k].windows[order[j]].queue = << >>
      <3>1. CASE order[j] = w BY <2>6, <3>1 DEF EventHandled
      <3>2. CASE order[j] # w
        <4>1. j \in 1 .. (k - 1) /\ j \in 1 .. n BY <1>2, <3>2 DEF w
        <4>2. order[j] \in Open(a) BY <1>1, <2>1, <4>1
        <4>3. r[k].windows[order[j]] = a.windows[order[j]] BY <2>6, <3>2, <4>2 DEF EventHandled
        <4>4. QED BY <2>2, <4>1, <4>3
      <3>3. QED BY <3>1, <3>2
    <2>10. BarComes(q) => BarComes(r[k]) BY <2>1, <2>5, <2>6, EventKeepsBar
    <2>11. QED BY <1>2, <2>7, <2>8, <2>9, <2>10
  <1> HIDE DEF K
  <1>9. \A k \in 0 .. n : k \in K BY <1>2, <1>7, <1>8, EveryRound
  <1>10. After(n)
    <2>1. n \in K BY <1>2, <1>9
    <2>2. QED BY <2>1 DEF K
  <1>11. ASSUME NEW w \in Open(q) PROVE r[n].windows[w].queue = << >>
    <2>1. PICK i \in DOMAIN order : order[i] = w BY <1>1
    <2>2. i \in 1 .. n BY <1>1
    <2>3. QED BY <1>10, <2>1, <2>2
  <1>12. QED BY <1>5, <1>10, <1>11

-------------------------------------------------------------------------------
(* Events and timers. *)

(* An event sent keeps the invariant. *)
LEMMA SendKeeps ==
  ASSUME NEW q, NEW W, Sound(q, W), NEW e \in Delivered
  PROVE  /\ Sound(Send(q, e), W) /\ Open(Send(q, e)) = Open(q)
         /\ BarComes(q) /\ (e.kind = "IpcConfig" => e.window = 0 /\ e.arg = << Broken >>) => BarComes(Send(q, e))
  <1> HIDE DEF Processors, Delivered
  <1> DEFINE s == Send(q, e)
  <1>1. q \in Processors BY DEF Sound
  <1>2. /\ s \in Processors /\ ToSet(s.events) = ToSet(q.events) \union {e}
        /\ s.windows = q.windows /\ s.timers = q.timers /\ SameSettings(q, s)
    BY <1>1, SendEvent
  <1> HIDE DEF s
  <1>3. Open(s) = Open(q) /\ s.config = q.config BY <1>2 DEF Open, SameSettings
  <1>4. \A w : FrameOn(q, w) => FrameOn(s, w) BY <1>2 DEF FrameOn
  <1>5. Sound(s, W) BY <1>2, <1>3, <1>4 DEF Sound
  <1>6. ASSUME BarComes(q), e.kind = "IpcConfig" => e.window = 0 /\ e.arg = << Broken >> PROVE BarComes(s)
    <2>1. MessageComing(q) => MessageComing(s) BY <1>2 DEF MessageComing
    <2>2. \A w : IpcComing(q, w) => IpcComing(s, w) BY <1>2 DEF IpcComing
    <2>3. \A w \in Open(s) : BarOfWindow(s, w) BY <1>2, <1>3, <1>6, <2>1, <2>2 DEF BarComes, BarOfWindow
    <2>4. QED BY <1>2, <1>6, <2>3 DEF BarComes
  <1>7. QED BY <1>3, <1>5, <1>6 DEF s

(* The log of a broken option, which sends the message for the bar, keeps the invariant. *)
LEMMA LogBrokenKeeps ==
  ASSUME NEW q, Sound(q, Open(q)), NEW options
  PROVE  /\ Sound(LogBroken(q, options), Open(q)) /\ Open(LogBroken(q, options)) = Open(q)
         /\ BarComes(q) => BarComes(LogBroken(q, options))
  <1> HIDE DEF Processors
  <1> DEFINE e == Event("Message", 0, [target |-> "ipc", lines |-> 1])
  <1>1. e \in Delivered /\ e.kind = "Message"
    BY DEF Event, Delivered, EventsOf, SentKinds, Arguments, Message
  <1>2. LogBroken(q, options) = IF Broken \in ToSet(options) THEN Send(q, e) ELSE q BY DEF LogBroken
  <1> HIDE DEF e, Delivered
  <1>3. QED BY <1>1, <1>2, SendKeeps

(* A timer that is due: the frame it stands for is now an event. *)
LEMMA DueKeeps ==
  ASSUME NEW q, NEW W, Sound(q, W), NEW id \in DOMAIN q.timers
  PROVE  Sound(Due(q, id), W) /\ Due(q, id).windows = q.windows /\ (BarComes(q) => BarComes(Due(q, id)))
  <1> DEFINE e == Event(id.topic, id.window, 0)
             t == Send(q, e)
             s == Due(q, id)
  <1>1. q \in Processors BY DEF Sound
  <1>2. id \in Topics BY <1>1, Parts, TimersMembers
  <1>3. e \in Delivered /\ e.kind # "IpcConfig"
    BY <1>2 DEF Topics, Event, Delivered, EventsOf, SentKinds, Arguments
  <1> HIDE DEF Processors, Delivered
  <1>4. /\ t \in Processors /\ ToSet(t.events) = ToSet(q.events) \union {e}
        /\ t.windows = q.windows /\ t.timers = q.timers /\ SameSettings(q, t)
    <2> HIDE DEF e
    <2>1. QED BY <1>1, <1>3, SendEvent
  <1>5. Sound(t, W) /\ (BarComes(q) => BarComes(t))
    <2> HIDE DEF e
    <2>1. QED BY <1>3, SendKeeps
  <1>6. s = IF id.topic = "Frame" THEN unschedule(t, id) ELSE t BY DEF Due
  <1>7. CASE id.topic # "Frame" BY <1>4, <1>5, <1>6, <1>7
  <1>8. CASE id.topic = "Frame"
    <2>1. s = unschedule(t, id) BY <1>6, <1>8
    <2>2. e = Event("Frame", id.window, 0) BY <1>8
    <2>3. id = TimerId("Frame", id.window) BY <1>2, <1>8 DEF Topics, TimerId
    <2> HIDE DEF s, t, e
    <2>4. /\ s \in Processors /\ DOMAIN s.timers \subseteq DOMAIN t.timers
          /\ \A i \in DOMAIN t.timers : i # id => i \in DOMAIN s.timers
          /\ s.windows = t.windows /\ s.events = t.events /\ SameSettings(t, s)
      BY <1>4, <2>1, Unschedule
    <2>5. Open(s) = Open(t) /\ s.config = t.config BY <2>4 DEF Open, SameSettings
    <2>6. ASSUME NEW w, FrameOn(t, w) PROVE FrameOn(s, w)
      <3>1. CASE TimerId("Frame", w) = id
        <4>1. id.window = w BY <3>1 DEF TimerId
        <4>2. QED BY <1>4, <2>2, <2>4, <4>1 DEF FrameOn
      <3>2. CASE TimerId("Frame", w) # id BY <2>4, <2>6, <3>2 DEF FrameOn
      <3>3. QED BY <3>1, <3>2
    <2>7. Sound(s, W) BY <1>5, <2>4, <2>5, <2>6 DEF Sound
    <2>8. ASSUME BarComes(t) PROVE BarComes(s)
      <3>1. MessageComing(t) <=> MessageComing(s) BY <2>4 DEF MessageComing
      <3>2. \A w : IpcComing(t, w) <=> IpcComing(s, w) BY <2>4 DEF IpcComing
      <3>3. \A w \in Open(s) : BarOfWindow(s, w) BY <2>4, <2>5, <2>8, <3>1, <3>2 DEF BarComes, BarOfWindow
      <3>4. QED BY <2>4, <2>8, <3>3 DEF BarComes
    <2>9. QED BY <1>4, <1>5, <2>4, <2>7, <2>8 DEF s
  <1>9. QED BY <1>7, <1>8

(* A window that is drawn waits for its frame, whose timer is set. *)
LEMMA DrawKeeps ==
  ASSUME NEW q, NEW w \in Open(q), Sound(q, Open(q) \ {w}), NEW over \in BOOLEAN
  PROVE  /\ Sound(draw(q, w, over), Open(q)) /\ Open(draw(q, w, over)) = Open(q)
         /\ BarComes(q) => BarComes(draw(q, w, over))
  <1> HIDE DEF Processors, Delivered, Windows, Timers, Message, Staged
  <1> DEFINE s == draw(q, w, over)
             a == q.windows[w]
             c == [a EXCEPT !.requested = FALSE]
             d == [c EXCEPT !.dirty = c.bell /\ ~c.has_frame, !.bell = c.bell /\ ~over, !.requested = c.bell /\ c.has_frame]
             f == [d EXCEPT !.has_frame = FALSE]
             id == TimerId("Frame", w)
  <1>1. q \in Processors /\ a \in ContextType /\ w \in Nat BY Parts DEF Sound
  <1>2. s = IF c.occluded THEN [q EXCEPT !.windows[w] = c] ELSE schedule([q EXCEPT !.windows[w] = f], id)
    BY DEF draw
  <1>3. /\ c \in ContextType /\ c.has_frame = a.has_frame /\ c.options = a.options /\ c.config = a.config
        /\ c.messages = a.messages /\ c.pending = a.pending /\ c.bar = a.bar /\ c.queue = a.queue
    BY <1>1 DEF ContextType
  <1> HIDE DEF c
  <1>4. /\ d \in ContextType /\ d.options = c.options /\ d.config = c.config
        /\ d.messages = c.messages /\ d.pending = c.pending /\ d.bar = c.bar /\ d.queue = c.queue
    <2> DEFINE x == c.bell /\ ~c.has_frame
               y == c.bell /\ ~over
               z == c.bell /\ c.has_frame
    <2>1. x \in BOOLEAN /\ y \in BOOLEAN /\ z \in BOOLEAN OBVIOUS
    <2>2. d = [c EXCEPT !.dirty = x, !.bell = y, !.requested = z] OBVIOUS
    <2> HIDE DEF x, y, z, d
    <2>3. QED BY <1>3, <2>1, <2>2 DEF ContextType
  <1> HIDE DEF d
  <1>5. /\ f \in ContextType /\ ~f.has_frame /\ f.options = d.options /\ f.config = d.config
        /\ f.messages = d.messages /\ f.pending = d.pending /\ f.bar = d.bar /\ f.queue = d.queue
    BY <1>4 DEF ContextType
  <1> HIDE DEF f, s
  <1>6. \E x : /\ s \in Processors /\ Open(s) = Open(q) /\ SameSettings(q, s) /\ s.events = q.events
               /\ s.windows[w] = x /\ \A v \in Open(q) : v # w => s.windows[v] = q.windows[v]
               /\ x \in ContextType /\ Awaits(x) /\ x.options = a.options /\ x.config = a.config
               /\ x.messages = a.messages /\ x.pending = a.pending /\ x.bar = a.bar /\ x.queue = a.queue
               /\ DOMAIN q.timers \subseteq DOMAIN s.timers
               /\ \A i \in DOMAIN s.timers : i \in DOMAIN q.timers \/ i.window = w
               /\ x.has_frame # a.has_frame => id \in DOMAIN s.timers
    <2>1. CASE c.occluded
      <3>1. WindowSet(q, s, w, c) BY <1>1, <1>2, <1>3, <2>1, SetWindow
      <3>2. Awaits(c) BY <2>1 DEF Awaits
      <3>3. QED BY <1>3, <3>1, <3>2 DEF WindowSet
    <2>2. CASE ~c.occluded
      <3> DEFINE t == [q EXCEPT !.windows[w] = f]
      <3>1. WindowSet(q, t, w, f) BY <1>1, <1>5, SetWindow
      <3>2. s = schedule(t, id) BY <1>2, <2>2
      <3>3. id \in Topics /\ id.window = w BY <1>1 DEF TimerId, Topics
      <3> HIDE DEF t, id
      <3>4. t \in Processors BY <3>1 DEF WindowSet
      <3>5. /\ s \in Processors /\ DOMAIN s.timers = DOMAIN t.timers \union {id}
            /\ s.windows = t.windows /\ s.events = t.events /\ SameSettings(t, s)
        BY <3>2, <3>3, <3>4, Schedule
      <3>6. Awaits(f) BY <1>5 DEF Awaits
      <3>7. SameSettings(q, s) /\ Open(s) = Open(q) /\ s.events = q.events /\ s.windows[w] = f
        BY <3>1, <3>5 DEF WindowSet, SameSettings, Open
      <3>8. \A v \in Open(q) : v # w => s.windows[v] = q.windows[v] BY <3>1, <3>5 DEF WindowSet
      <3>9. DOMAIN s.timers = DOMAIN q.timers \union {id} BY <3>1, <3>5 DEF WindowSet
      <3>10. /\ f.options = a.options /\ f.config = a.config /\ f.messages = a.messages
             /\ f.pending = a.pending /\ f.bar = a.bar /\ f.queue = a.queue
        BY <1>3, <1>4, <1>5
      <3>11. QED BY <1>5, <3>3, <3>5, <3>6, <3>7, <3>8, <3>9, <3>10
    <2>3. QED BY <2>1, <2>2
  <1> HIDE DEF a
  <1>7. s.config = q.config /\ \A v : FrameOn(q, v) => FrameOn(s, v) BY <1>6 DEF FrameOn, SameSettings
  <1>8. Sound(s, Open(q))
    <2>1. \A i \in DOMAIN s.timers : i.window \in Open(s) BY <1>6 DEF Sound
    <2>2. ASSUME NEW v \in Open(s)
          PROVE  /\ Awaits(s.windows[v])
                 /\ ~s.windows[v].has_frame => FrameOn(s, v)
                 /\ Configured(s.windows[v], s.config)
      <3>1. v \in Open(q) BY <1>6
      <3>2. /\ v # w => Awaits(q.windows[v])
            /\ ~q.windows[v].has_frame => FrameOn(q, v)
            /\ Configured(q.windows[v], q.config)
        BY <3>1 DEF Sound
      <3>3. CASE v # w BY <1>6, <1>7, <3>1, <3>2, <3>3
      <3>4. CASE v = w
        <4>1. a.has_frame \in BOOLEAN /\ s.windows[w].has_frame \in BOOLEAN BY <1>1, <1>6 DEF ContextType
        <4>2. Awaits(s.windows[w]) /\ Configured(s.windows[w], s.config)
          BY <1>6, <1>7, <3>2, <3>4 DEF Configured, a
        <4>3. ~s.windows[w].has_frame => FrameOn(s, w)
          <5>1. s.windows[w].has_frame # a.has_frame => FrameOn(s, w) BY <1>6 DEF FrameOn
          <5>2. ~a.has_frame => FrameOn(s, w) BY <1>7, <3>2, <3>4 DEF a
          <5>3. QED BY <4>1, <5>1, <5>2
        <4>4. QED BY <3>4, <4>2, <4>3
      <3>5. QED BY <3>3, <3>4
    <2>3. QED BY <1>6, <2>1, <2>2 DEF Sound
  <1>9. ASSUME BarComes(q) PROVE BarComes(s)
    <2>1. MessageComing(q) <=> MessageComing(s) BY <1>6 DEF MessageComing
    <2>2. \A e \in ToSet(s.events) : e.kind = "IpcConfig" => e.window = 0 /\ e.arg = << Broken >>
      BY <1>6, <1>9 DEF BarComes
    <2>3. ASSUME NEW v \in Open(s) PROVE BarOfWindow(s, v)
      <3>1. BarOfWindow(q, v) BY <1>6, <1>9 DEF BarComes
      <3>2. /\ s.windows[v].messages = q.windows[v].messages /\ s.windows[v].pending = q.windows[v].pending
            /\ s.windows[v].bar = q.windows[v].bar /\ s.windows[v].queue = q.windows[v].queue
        BY <1>6 DEF a
      <3>3. IpcComing(q, v) => IpcComing(s, v) BY <1>6, <3>2 DEF IpcComing
      <3>4. QED BY <2>1, <3>1, <3>2, <3>3 DEF BarOfWindow
    <2>4. QED BY <2>2, <2>3 DEF BarComes
  <1>10. QED BY <1>6, <1>8, <1>9 DEF s

-------------------------------------------------------------------------------
(* The windows of a processor, changed together. *)

(* From q to s only the windows have changed. *)
WindowsSet(q, s, f) ==
  s \in Processors /\ s.windows = f /\ s.events = q.events /\ s.timers = q.timers /\ SameSettings(q, s)

(* Setting all windows changes nothing else. *)
LEMMA SetWindows ==
  ASSUME NEW q \in Processors, NEW f \in Windows
  PROVE  WindowsSet(q, [q EXCEPT !.windows = f], f)
  <1> HIDE DEF ContextType, Windows, Delivered, Timers, Config, Setting, Monitor
  <1>1. QED BY DEF Processors, SameSettings, WindowsSet

(* What d keeps of a window c whose contents do not matter: only frames and events that
   are staged can have been added. *)
StillComes(c, d) ==
  /\ d.has_frame = c.has_frame /\ d.pending = c.pending /\ d.bar = c.bar
  /\ \A i \in DOMAIN c.queue : i \in DOMAIN d.queue /\ d.queue[i] = c.queue[i]
  /\ c.queue # << >> => d.queue # << >>

(* The window c with e staged. *)
StagedFor(c, d, e) ==
  /\ d \in ContextType /\ StillComes(c, d) /\ d.queue # << >> /\ \E i \in DOMAIN d.queue : d.queue[i] = e
  /\ d.options = c.options /\ d.config = c.config /\ d.messages = c.messages

(* An event put in the queue of a window. *)
LEMMA StageWindow ==
  ASSUME NEW c \in ContextType, NEW e \in Staged
  PROVE  StagedFor(c, [c EXCEPT !.queue = Append(@, e)], e)
  <1> HIDE DEF Staged
  <1> DEFINE a == Append(c.queue, e)
             d == [c EXCEPT !.queue = a]
  <1>1. c.queue \in Seq(Staged) BY DEF ContextType
  <1>2. /\ a \in Seq(Staged) /\ Len(a) = Len(c.queue) + 1 /\ Len(c.queue) \in Nat
        /\ \A i \in 1 .. Len(c.queue) : a[i] = c.queue[i]
        /\ a[Len(c.queue) + 1] = e
    BY <1>1
  <1>3. DOMAIN a = 1 .. (Len(c.queue) + 1) /\ DOMAIN c.queue = 1 .. Len(c.queue) BY <1>1, <1>2
  <1>4. a # << >> BY <1>1, AppendMembers
  <1> HIDE DEF a
  <1>5. /\ d \in ContextType /\ d.queue = a /\ d.has_frame = c.has_frame /\ d.pending = c.pending /\ d.bar = c.bar
        /\ d.options = c.options /\ d.config = c.config /\ d.messages = c.messages
    BY <1>2 DEF ContextType
  <1> HIDE DEF d
  <1>6. Len(c.queue) + 1 \in DOMAIN a BY <1>2, <1>3
  <1>7. \A i \in DOMAIN c.queue : i \in DOMAIN a BY <1>2, <1>3
  <1>8. StillComes(c, d) BY <1>2, <1>3, <1>4, <1>5, <1>7 DEF StillComes
  <1>9. StagedFor(c, d, e) BY <1>2, <1>4, <1>5, <1>6, <1>8 DEF StagedFor
  <1>10. d = [c EXCEPT !.queue = Append(@, e)] BY DEF d, a
  <1>11. QED BY <1>9, <1>10

(* An event that is staged, for the window it is for or for all of them. *)
LEMMA StageSet ==
  ASSUME NEW q \in Processors, NEW e \in Staged
  PROVE  \E f \in Windows :
           /\ WindowsSet(q, Stage(q, e), f) /\ DOMAIN f = Open(q)
           /\ \A w \in Open(q) : IF e.window \in {0, w} THEN StagedFor(q.windows[w], f[w], e) ELSE f[w] = q.windows[w]
  <1> HIDE DEF Processors, Staged, ContextType, Windows
  <1> DEFINE Put(c) == [c EXCEPT !.queue = Append(@, e)]
             f == [w \in Open(q) |-> IF e.window \in {0, w} THEN Put(q.windows[w]) ELSE q.windows[w]]
  <1>1. Open(q) \subseteq Nat /\ \A w \in Open(q) : q.windows[w] \in ContextType BY Parts
  <1>2. Stage(q, e) = [q EXCEPT !.windows = f] BY DEF Stage
  <1>3. ASSUME NEW w \in Open(q) PROVE StagedFor(q.windows[w], Put(q.windows[w]), e)
    BY <1>1, StageWindow
  <1> HIDE DEF Put
  <1>4. /\ DOMAIN f = Open(q) /\ f = [w \in DOMAIN f |-> f[w]]
        /\ \A w \in Open(q) : f[w] = IF e.window \in {0, w} THEN Put(q.windows[w]) ELSE q.windows[w]
    OBVIOUS
  <1> HIDE DEF f
  <1>5. \A w \in Open(q) : f[w] \in ContextType BY <1>1, <1>3, <1>4 DEF StagedFor
  <1>6. f \in Windows BY <1>1, <1>4, <1>5, WindowsMembers
  <1>7. WindowsSet(q, Stage(q, e), f) BY <1>2, <1>6, SetWindows
  <1>8. \A w \in Open(q) : IF e.window \in {0, w} THEN StagedFor(q.windows[w], f[w], e) ELSE f[w] = q.windows[w]
    BY <1>3, <1>4
  <1>9. QED BY <1>4, <1>6, <1>7, <1>8

(* e has been taken from the events of r, when it was delivered. *)
TakenFrom(r, q, e) == /\ ToSet(q.events) \subseteq ToSet(r.events) /\ ToSet(r.events) \subseteq ToSet(q.events) \union {e}
                      /\ q.windows = r.windows

(* Events put in the queues of windows keep the invariant. *)
LEMMA StageKeeps ==
  ASSUME NEW q, Sound(q, Open(q)), NEW e \in Staged
  PROVE  /\ Sound(Stage(q, e), Open(q)) /\ Open(Stage(q, e)) = Open(q)
         /\ \A r : BarComes(r) /\ TakenFrom(r, q, e) => BarComes(Stage(q, e))
  <1> HIDE DEF Processors, Staged, ContextType, Windows
  <1> DEFINE s == Stage(q, e)
  <1>1. q \in Processors BY DEF Sound
  <1>2. PICK f \in Windows :
           /\ WindowsSet(q, s, f) /\ DOMAIN f = Open(q)
           /\ \A w \in Open(q) : IF e.window \in {0, w} THEN StagedFor(q.windows[w], f[w], e) ELSE f[w] = q.windows[w]
    BY <1>1, StageSet
  <1> HIDE DEF s
  <1>3. /\ s \in Processors /\ Open(s) = Open(q) /\ s.windows = f /\ s.events = q.events /\ s.timers = q.timers
        /\ s.config = q.config
    BY <1>2 DEF WindowsSet, Open, SameSettings
  <1>4. \A w : FrameOn(q, w) => FrameOn(s, w) BY <1>3 DEF FrameOn
  <1>5. ASSUME NEW w \in Open(s)
        PROVE  /\ Awaits(s.windows[w])
               /\ ~s.windows[w].has_frame => FrameOn(s, w)
               /\ Configured(s.windows[w], s.config)
    <2>1. w \in Open(q) BY <1>3
    <2>2. /\ Awaits(q.windows[w])
          /\ ~q.windows[w].has_frame => FrameOn(q, w)
          /\ Configured(q.windows[w], q.config)
      BY <2>1 DEF Sound
    <2>3. CASE e.window \in {0, w}
      <3>1. StagedFor(q.windows[w], s.windows[w], e) BY <1>2, <1>3, <2>1, <2>3
      <3>2. QED BY <1>3, <1>4, <2>2, <3>1 DEF StagedFor, StillComes, Awaits, Configured
    <2>4. CASE e.window \notin {0, w} BY <1>2, <1>3, <1>4, <2>1, <2>2, <2>4
    <2>5. QED BY <2>3, <2>4
  <1>6. Sound(s, Open(q)) BY <1>3, <1>5 DEF Sound
  <1>7. ASSUME NEW r, BarComes(r), TakenFrom(r, q, e) PROVE BarComes(s)
    <2>1. Open(r) = Open(q) BY <1>7 DEF TakenFrom, Open
    <2>2. \A x \in ToSet(s.events) : x.kind = "IpcConfig" => x.window = 0 /\ x.arg = << Broken >>
      BY <1>3, <1>7 DEF BarComes, TakenFrom
    <2>3. ASSUME NEW w \in Open(s) PROVE BarOfWindow(s, w)
      <3>1. w \in Open(q) /\ BarOfWindow(r, w) BY <1>3, <1>7, <2>1 DEF BarComes
      <3>2. r.windows[w] = q.windows[w] BY <1>7 DEF TakenFrom
      <3>3. CASE e.window \in {0, w}
        <4> DEFINE c == q.windows[w]
                   d == s.windows[w]
        <4>1. StagedFor(c, d, e) BY <1>2, <1>3, <3>1, <3>3
        <4>2. IpcComing(r, w) => IpcComing(s, w)
          <5>1. CASE Event("Message", 0, IpcMessage) \in ToSet(r.events)
            <6>1. CASE Event("Message", 0, IpcMessage) = e
              <7>1. IsIpc(e) BY <6>1 DEF IsIpc, Event
              <7>2. QED BY <4>1, <7>1 DEF StagedFor, IpcComing
            <6>2. CASE Event("Message", 0, IpcMessage) # e BY <1>3, <1>7, <5>1, <6>2 DEF TakenFrom, IpcComing
            <6>3. QED BY <6>1, <6>2
          <5>2. CASE \E i \in DOMAIN r.windows[w].queue : IsIpc(r.windows[w].queue[i])
            <6>1. PICK i \in DOMAIN c.queue : IsIpc(c.queue[i]) BY <3>2, <5>2
            <6>2. i \in DOMAIN d.queue /\ d.queue[i] = c.queue[i] BY <4>1 DEF StagedFor, StillComes
            <6>3. QED BY <6>1, <6>2 DEF IpcComing
          <5>3. QED BY <5>1, <5>2 DEF IpcComing
        <4>3. /\ d.pending = c.pending /\ d.bar = c.bar /\ d.messages = c.messages /\ d.queue # << >>
          BY <4>1 DEF StagedFor, StillComes
        <4>4. QED BY <3>1, <3>2, <4>2, <4>3 DEF BarOfWindow
      <3>4. CASE e.window \notin {0, w}
        <4>1. s.windows[w] = r.windows[w] BY <1>2, <1>3, <3>1, <3>2, <3>4
        <4>2. Event("Message", 0, IpcMessage) # e BY <3>4 DEF Event
        <4>3. \A x \in ToSet(r.events) : x.window = 0 => x \in ToSet(s.events) BY <1>3, <1>7, <3>4 DEF TakenFrom
        <4>4. MessageComing(r) => MessageComing(s) BY <4>3 DEF MessageComing
        <4>5. IpcComing(r, w) => IpcComing(s, w) BY <4>1, <4>3 DEF IpcComing, Event
        <4>6. QED BY <3>1, <4>1, <4>4, <4>5 DEF BarOfWindow
      <3>5. QED BY <3>3, <3>4
    <2>4. QED BY <2>2, <2>3 DEF BarComes
  <1>8. QED BY <1>3, <1>6, <1>7 DEF s

-------------------------------------------------------------------------------
(* Configurations. *)

(* A window whose options may have broken ones among them. *)
Unapplied ==
  [dirty : BOOLEAN, has_frame : BOOLEAN, requested : BOOLEAN, occluded : BOOLEAN, queue : Seq(Staged),
   hold : BOOLEAN, bell : BOOLEAN, messages : Seq(Message), pending : BOOLEAN, bar : 0 .. 2,
   options : Seq(Setting), config : WindowConfig]

(* Any window may take new options. *)
LEMMA UnappliedContext ==
  ASSUME NEW c \in ContextType
  PROVE  c \in Unapplied
  <1> HIDE DEF Setting, Staged, Message, WindowConfig
  <1>1. c.options \in Seq(Setting \ {Broken}) BY DEF ContextType
  <1>2. c.options \in Seq(Setting)
    <2> DEFINE S == Setting \ {Broken}
    <2>1. S \subseteq Setting OBVIOUS
    <2> HIDE DEF S
    <2>2. QED BY <1>1, <2>1, SeqMonotonic DEF S
  <1>3. QED BY <1>2 DEF ContextType, Unapplied

(* The setting that the options which are left give. *)
LEMMA EffectiveConfig ==
  ASSUME NEW base \in Config, NEW o \in Seq(Setting \ {Broken})
  PROVE  /\ Effective(base, o) \in WindowConfig /\ Effective(base, o).version = base.version
         /\ o # << >> => Effective(base, o).setting = Last(o)
  <1>1. base.version \in Nat BY DEF Config
  <1>2. CASE o = << >> BY <1>1, <1>2 DEF Effective, WindowConfig, Setting
  <1>3. CASE o # << >>
    <2>1. Last(o) \in Setting
      <3> HIDE DEF Setting
      <3>1. Len(o) \in Nat \ {0} BY <1>3
      <3>2. o[Len(o)] \in Setting \ {Broken} BY <3>1
      <3>3. QED BY <3>2 DEF Last
    <2> HIDE DEF Setting
    <2>2. QED BY <1>1, <1>3, <2>1 DEF Effective, WindowConfig
  <1>4. QED BY <1>2, <1>3

(* A window whose configuration is updated is dirty and has an event staged. *)
Updated(c, d, base) ==
  d \in ContextType /\ StillComes(c, d) /\ d.queue # << >> /\ d.messages = c.messages /\ Configured(d, base)

(* update_config applies the options of the window to the new configuration. *)
LEMMA UpdateConfig ==
  ASSUME NEW c \in Unapplied, NEW base \in Config
  PROVE  Updated(c, update_config(c, base), base)
  <1> DEFINE kept == override_config(c.options)
             cfg == Effective(base, kept)
             e == Event("CursorBlinkingChange", 0, 0)
             a == Append(c.queue, e)
             d == [c EXCEPT !.options = kept, !.config = cfg, !.dirty = TRUE, !.queue = a]
  <1>1. d = update_config(c, base) BY DEF update_config
  <1>2. c.options \in Seq(Setting) /\ c.queue \in Seq(Staged)
    <2> HIDE DEF Setting, Staged, Message, WindowConfig
    <2>1. QED BY DEF Unapplied
  <1>3. kept \in Seq(Setting \ {Broken}) BY <1>2, OverrideConfig
  <1> HIDE DEF kept
  <1>4. cfg \in WindowConfig /\ cfg.version = base.version /\ (kept # << >> => cfg.setting = Last(kept))
    BY <1>3, EffectiveConfig
  <1>5. e \in Staged BY DEF Event, Staged, EventsOf, StagedKinds, Arguments
  <1> HIDE DEF cfg, e, Setting, Staged, Message, WindowConfig, Config
  <1>6. /\ a \in Seq(Staged) /\ Len(a) = Len(c.queue) + 1 /\ Len(c.queue) \in Nat
        /\ \A i \in 1 .. Len(c.queue) : a[i] = c.queue[i]
    BY <1>2, <1>5
  <1>7. DOMAIN a = 1 .. (Len(c.queue) + 1) /\ DOMAIN c.queue = 1 .. Len(c.queue) BY <1>2, <1>6
  <1>8. a # << >> BY <1>2, <1>5, AppendMembers
  <1> HIDE DEF a
  <1>9. /\ d \in ContextType /\ d.queue = a /\ d.has_frame = c.has_frame /\ d.pending = c.pending /\ d.bar = c.bar
        /\ d.options = kept /\ d.config = cfg /\ d.messages = c.messages
    BY <1>3, <1>4, <1>6 DEF ContextType, Unapplied
  <1> HIDE DEF d
  <1>10. \A i \in DOMAIN c.queue : i \in DOMAIN a BY <1>6, <1>7
  <1>11. StillComes(c, d) BY <1>6, <1>7, <1>8, <1>9, <1>10 DEF StillComes
  <1>12. Configured(d, base) BY <1>4, <1>9 DEF Configured
  <1>13. Updated(c, d, base) BY <1>8, <1>9, <1>11, <1>12 DEF Updated
  <1>14. QED BY <1>1, <1>13

(* remove_target leaves no message of the target. *)
LEMMA RemoveTarget ==
  ASSUME NEW messages \in Seq(Message), NEW target
  PROVE  /\ remove_target(messages, target) \in Seq(Message)
         /\ target = "ipc" => NoIpc(remove_target(messages, target))
  <1> HIDE DEF Message
  <1> DEFINE D == {m \in ToSet(messages) : m.target = target}
             o == Without(messages, D)
  <1>1. remove_target(messages, target) = o BY DEF remove_target
  <1>2. /\ o \in Seq(Message)
        /\ \A i \in DOMAIN o : o[i] \in ToSet(messages) /\ o[i] \notin D
    <2> HIDE DEF D
    <2>1. QED BY WithoutMembers
  <1> HIDE DEF o
  <1>3. target = "ipc" => NoIpc(o) BY <1>2 DEF NoIpc
  <1>4. QED BY <1>1, <1>2, <1>3

(* A window whose options are reset, or have some added: the messages about options go. *)
Reoptioned(c, d, base) ==
  d \in ContextType /\ StillComes(c, d) /\ d.queue # << >> /\ NoIpc(d.messages) /\ Configured(d, base)

(* A window with new options of its own. *)
LEMMA WindowOptions ==
  ASSUME NEW c \in ContextType, NEW base \in Config, NEW options \in Seq(Setting)
  PROVE  Reoptioned(c, reset_window_config(c, base), base) /\ Reoptioned(c, add_window_config(c, base, options), base)
  <1> HIDE DEF Setting, Staged, Message, WindowConfig, Config
  <1> DEFINE m == remove_target(c.messages, "ipc")
  <1>1. c.messages \in Seq(Message) BY DEF ContextType
  <1>2. m \in Seq(Message) /\ NoIpc(m) BY <1>1, RemoveTarget
  <1>3. c \in Unapplied BY UnappliedContext
  <1> HIDE DEF m
  <1>4. ASSUME NEW o \in Seq(Setting)
        PROVE  Reoptioned(c, update_config([c EXCEPT !.messages = m, !.options = o], base), base)
    <2> DEFINE b == [c EXCEPT !.messages = m, !.options = o]
               d == update_config(b, base)
    <2>1. /\ b \in Unapplied /\ b.messages = m /\ b.has_frame = c.has_frame /\ b.pending = c.pending
          /\ b.bar = c.bar /\ b.queue = c.queue
      BY <1>2, <1>3 DEF Unapplied
    <2> HIDE DEF b
    <2>2. Updated(b, d, base) BY <2>1, UpdateConfig
    <2> HIDE DEF d
    <2>3. Reoptioned(c, d, base) BY <1>2, <2>1, <2>2 DEF Updated, Reoptioned, StillComes
    <2>4. QED BY <2>3 DEF d, b
  <1>5. Reoptioned(c, reset_window_config(c, base), base)
    <2> DEFINE o == << >>
    <2>1. o \in Seq(Setting) OBVIOUS
    <2>2. reset_window_config(c, base) = update_config([c EXCEPT !.messages = m, !.options = o], base)
      BY DEF reset_window_config, m
    <2> HIDE DEF o
    <2>3. QED BY <1>4, <2>1, <2>2
  <1>6. Reoptioned(c, add_window_config(c, base, options), base)
    <2> DEFINE o == c.options \o options
    <2>1. c.options \in Seq(Setting) BY <1>3 DEF Unapplied
    <2>2. o \in Seq(Setting) BY <2>1
    <2>3. add_window_config(c, base, options) = update_config([c EXCEPT !.messages = m, !.options = o], base)
      BY DEF add_window_config, m
    <2> HIDE DEF o
    <2>4. QED BY <1>4, <2>2, <2>3
  <1>7. QED BY <1>5, <1>6

(* IpcConfig keeps the invariant. *)
LEMMA IpcConfigKeeps ==
  ASSUME NEW q, Sound(q, Open(q)), NEW window \in Nat, NEW reset \in BOOLEAN, NEW options \in Seq(Setting)
  PROVE  /\ Sound(IpcConfig(q, window, reset, options), Open(q))
         /\ Open(IpcConfig(q, window, reset, options)) = Open(q)
         /\ BarComes(q) /\ window = 0 /\ ~reset /\ Broken \in ToSet(options)
              => BarComes(IpcConfig(q, window, reset, options))
  <1> HIDE DEF Setting, Staged, Message, WindowConfig, Config, ContextType, Windows, Timers, Monitor, Delivered
  <1> DEFINE targets == {w \in Open(q) : window \in {0, w}}
             New(c) == IF reset THEN reset_window_config(c, q.config) ELSE add_window_config(c, q.config, options)
             f == [w \in Open(q) |->
                     IF w \notin targets THEN q.windows[w]
                     ELSE IF reset THEN reset_window_config(q.windows[w], q.config)
                     ELSE add_window_config(q.windows[w], q.config, options)]
             g == IF window # 0 THEN q.globals ELSE IF reset THEN << >> ELSE q.globals \o options
             t == [q EXCEPT !.windows = f, !.globals = g]
             s == IpcConfig(q, window, reset, options)
  <1>1. /\ q \in Processors /\ q.config \in Config /\ q.globals \in Seq(Setting)
        /\ Open(q) \subseteq Nat /\ \A w \in Open(q) : q.windows[w] \in ContextType
    BY Parts DEF Sound
  <1>2. s = IF targets = {} \/ reset THEN t ELSE LogBroken(t, options) BY DEF IpcConfig
  <1>3. ASSUME NEW w \in targets PROVE Reoptioned(q.windows[w], f[w], q.config)
    <2>1. w \in Open(q) /\ f[w] = New(q.windows[w]) OBVIOUS
    <2> HIDE DEF f, targets
    <2>2. QED BY <1>1, <2>1, WindowOptions
  <1>4. \A w \in Open(q) : w \notin targets => f[w] = q.windows[w] OBVIOUS
  <1>5. DOMAIN f = Open(q) /\ f = [w \in DOMAIN f |-> f[w]] OBVIOUS
  <1> HIDE DEF f
  <1>6. \A w \in Open(q) : f[w] \in ContextType BY <1>1, <1>3, <1>4 DEF Reoptioned
  <1>7. f \in Windows BY <1>1, <1>5, <1>6, WindowsMembers
  <1>8. g \in Seq(Setting)
    <2>1. q.globals \o options \in Seq(Setting) /\ << >> \in Seq(Setting) BY <1>1
    <2>2. QED BY <1>1, <2>1
  <1> HIDE DEF g
  <1>9. /\ t \in Processors /\ t.windows = f /\ t.events = q.events /\ t.timers = q.timers /\ t.config = q.config
    BY <1>1, <1>7, <1>8 DEF Processors
  <1> HIDE DEF t, s
  <1>10. Open(t) = Open(q) BY <1>5, <1>9 DEF Open
  <1> HIDE DEF Processors
  <1>11. Sound(t, Open(t))
    <2>1. \A w : FrameOn(q, w) => FrameOn(t, w) BY <1>9 DEF FrameOn
    <2>2. ASSUME NEW w \in Open(t)
          PROVE  Awaits(t.windows[w]) /\ (~t.windows[w].has_frame => FrameOn(t, w)) /\ Configured(t.windows[w], t.config)
      <3>1. w \in Open(q) BY <1>10
      <3>2. /\ Awaits(q.windows[w]) /\ (~q.windows[w].has_frame => FrameOn(q, w))
            /\ Configured(q.windows[w], q.config)
        BY <3>1 DEF Sound
      <3>3. CASE w \in targets
        <4>1. Reoptioned(q.windows[w], f[w], q.config) BY <1>3, <3>3
        <4>2. QED BY <1>9, <2>1, <3>2, <4>1 DEF Reoptioned, StillComes, Awaits
      <3>4. CASE w \notin targets BY <1>4, <1>9, <2>1, <3>1, <3>2, <3>4
      <3>5. QED BY <3>3, <3>4
    <2>3. QED BY <1>9, <1>10, <2>2 DEF Sound
  <1>12. Sound(LogBroken(t, options), Open(t)) /\ Open(LogBroken(t, options)) = Open(t)
    BY <1>11, LogBrokenKeeps
  <1>13. ASSUME BarComes(q), window = 0, ~reset, Broken \in ToSet(options) PROVE BarComes(s)
    <2>1. targets = Open(q) BY <1>13
    <2>2. CASE targets = {}
      <3>1. Open(t) = {} /\ s = t BY <1>2, <1>10, <2>1, <2>2
      <3>2. QED BY <1>9, <1>13, <3>1 DEF BarComes
    <2>3. CASE targets # {}
      <3> DEFINE e == Event("Message", 0, [target |-> "ipc", lines |-> 1])
      <3>1. s = Send(t, e) BY <1>2, <1>13, <2>3 DEF LogBroken
      <3>2. e \in Delivered /\ e.kind = "Message" /\ e = Event("Message", 0, IpcMessage)
        BY DEF Event, Delivered, EventsOf, SentKinds, Arguments, Message, IpcMessage
      <3> HIDE DEF e
      <3>3. ToSet(s.events) = ToSet(t.events) \union {e} /\ s.windows = t.windows
        BY <1>9, <3>1, <3>2, SendEvent
      <3>4. \A x \in ToSet(s.events) : x.kind = "IpcConfig" => x.window = 0 /\ x.arg = << Broken >>
        BY <1>9, <1>13, <3>2, <3>3 DEF BarComes
      <3>5. ASSUME NEW w \in Open(s) PROVE BarOfWindow(s, w)
        <4>1. w \in targets BY <1>10, <2>1, <3>3, <3>5 DEF Open
        <4>2. Reoptioned(q.windows[w], s.windows[w], q.config) BY <1>3, <1>9, <3>3, <4>1
        <4>3. IpcComing(s, w) BY <3>2, <3>3 DEF IpcComing
        <4>4. QED BY <4>2, <4>3 DEF Reoptioned, BarOfWindow
      <3>6. QED BY <3>4, <3>5 DEF BarComes
    <2>4. QED BY <2>2, <2>3
  <1>14. QED BY <1>2, <1>10, <1>11, <1>12, <1>13 DEF s

(* IpcGetConfig keeps the invariant. *)
LEMMA IpcGetConfigKeeps ==
  ASSUME NEW q, Sound(q, Open(q)), NEW window
  PROVE  /\ Sound(IpcGetConfig(q, window), Open(q)) /\ Open(IpcGetConfig(q, window)) = Open(q)
         /\ BarComes(q) => BarComes(IpcGetConfig(q, window))
  <1> HIDE DEF Setting, ContextType, Windows, Timers, Monitor, Delivered, Config
  <1> DEFINE g == override_config(q.globals)
             t == [q EXCEPT !.globals = g]
  <1>1. q \in Processors /\ q.globals \in Seq(Setting) BY Parts DEF Sound
  <1>2. g \in Seq(Setting \ {Broken}) BY <1>1, OverrideConfig
  <1>3. g \in Seq(Setting)
    <2> DEFINE S == Setting \ {Broken}
    <2>1. S \subseteq Setting OBVIOUS
    <2> HIDE DEF S, g
    <2>2. QED BY <1>2, <2>1, SeqMonotonic DEF S
  <1>4. IpcGetConfig(q, window) = IF window \in Open(q) THEN q ELSE LogBroken(t, q.globals) BY DEF IpcGetConfig
  <1> HIDE DEF g
  <1>5. /\ t \in Processors /\ t.windows = q.windows /\ t.events = q.events /\ t.timers = q.timers
        /\ t.config = q.config
    BY <1>1, <1>3 DEF Processors
  <1> HIDE DEF t, Processors
  <1>6. Open(t) = Open(q) BY <1>5 DEF Open
  <1>7. Sound(t, Open(t)) BY <1>5, <1>6 DEF Sound, FrameOn
  <1>8. BarComes(q) => BarComes(t) BY <1>5, <1>6 DEF BarComes, BarOfWindow, IpcComing, MessageComing
  <1>9. /\ Sound(LogBroken(t, q.globals), Open(t)) /\ Open(LogBroken(t, q.globals)) = Open(t)
        /\ BarComes(t) => BarComes(LogBroken(t, q.globals))
    BY <1>7, LogBrokenKeeps
  <1>10. QED BY <1>4, <1>6, <1>8, <1>9

(* The messages about the configuration go, and the bar is asked for. *)
Cleared(c) == IF c.messages = << >> THEN c ELSE [c EXCEPT !.messages = remove_target(@, "config"), !.pending = TRUE]

(* A window without the messages of the last reload. *)
LEMMA ClearedWindow ==
  ASSUME NEW c \in ContextType
  PROVE  /\ Cleared(c) \in ContextType /\ Cleared(c).queue = c.queue /\ Cleared(c).has_frame = c.has_frame
         /\ Cleared(c).dirty = c.dirty /\ Cleared(c).occluded = c.occluded /\ Cleared(c).requested = c.requested
         /\ Cleared(c).options = c.options /\ Cleared(c).config = c.config /\ Cleared(c).bar = c.bar
         /\ Cleared(c) = c \/ Cleared(c).pending
  <1> HIDE DEF Setting, Staged, Message, WindowConfig
  <1>1. CASE c.messages = << >> BY <1>1 DEF Cleared
  <1>2. CASE c.messages # << >>
    <2> DEFINE m == remove_target(c.messages, "config")
    <2>1. m \in Seq(Message) BY RemoveTarget DEF ContextType
    <2>2. Cleared(c) = [c EXCEPT !.messages = m, !.pending = TRUE] BY <1>2 DEF Cleared
    <2> HIDE DEF m
    <2>3. QED BY <2>1, <2>2 DEF ContextType
  <1>3. QED BY <1>1, <1>2

(* A monitor that has just been started. *)
LEMMA NewMonitorType ==
  ASSUME NEW paths \in SUBSET {"main", "import"}
  PROVE  NewMonitor(paths) \in Monitor
  BY DEF NewMonitor, NoMonitor, Monitor

(* ConfigReload keeps the invariant. *)
LEMMA ConfigReloadKeeps ==
  ASSUME NEW q, Sound(q, Open(q)), NEW read \in Config \union {Broken}
  PROVE  /\ Sound(ConfigReload(q, read), Open(q)) /\ Open(ConfigReload(q, read)) = Open(q)
         /\ BarComes(q) => BarComes(ConfigReload(q, read))
  <1> HIDE DEF Setting, Staged, Message, WindowConfig, Config, ContextType, Windows, Timers, Monitor, Delivered
  <1> DEFINE f == [w \in Open(q) |-> Cleared(q.windows[w])]
             s == ConfigReload(q, read)
  <1>1. /\ q \in Processors /\ Open(q) \subseteq Nat /\ \A w \in Open(q) : q.windows[w] \in ContextType
    BY Parts DEF Sound
  <1>2. /\ DOMAIN f = Open(q) /\ f = [w \in DOMAIN f |-> f[w]]
        /\ \A w \in Open(q) : f[w] = Cleared(q.windows[w])
    OBVIOUS
  <1>3. CASE read = Broken
    <2> DEFINE t == [q EXCEPT !.windows = f]
               e == Event("Message", 0, [target |-> "config", lines |-> 2])
    <2>1. s = Send(t, e) BY <1>3 DEF ConfigReload, Cleared
    <2>2. e \in Delivered /\ e.kind = "Message" /\ e.window = 0
      BY DEF Event, Delivered, EventsOf, SentKinds, Arguments, Message
    <2> HIDE DEF e, f
    <2>3. \A w \in Open(q) : f[w] \in ContextType BY <1>1, <1>2, ClearedWindow
    <2>4. f \in Windows BY <1>1, <1>2, <2>3, WindowsMembers
    <2>5. WindowsSet(q, t, f) BY <1>1, <2>4, SetWindows
    <2> HIDE DEF t, Processors
    <2>6. /\ t \in Processors /\ t.windows = f /\ t.events = q.events /\ t.timers = q.timers
          /\ t.config = q.config /\ Open(t) = Open(q)
      BY <1>2, <2>5 DEF WindowsSet, SameSettings, Open
    <2>7. /\ s \in Processors /\ ToSet(s.events) = ToSet(t.events) \union {e}
          /\ s.windows = t.windows /\ s.timers = t.timers /\ SameSettings(t, s)
      BY <2>1, <2>2, <2>6, SendEvent
    <2>8. Open(s) = Open(q) /\ s.config = q.config BY <2>6, <2>7 DEF Open, SameSettings
    <2> HIDE DEF s
    <2>9. \A w : FrameOn(q, w) => FrameOn(s, w) BY <2>6, <2>7 DEF FrameOn
    <2>10. ASSUME NEW w \in Open(s)
           PROVE  Awaits(s.windows[w]) /\ (~s.windows[w].has_frame => FrameOn(s, w)) /\ Configured(s.windows[w], s.config)
      <3> DEFINE c == q.windows[w]
                 d == s.windows[w]
      <3>1. w \in Open(q) /\ d = Cleared(c) /\ c \in ContextType BY <1>1, <1>2, <2>6, <2>7, <2>8
      <3>2. Awaits(c) /\ (~c.has_frame => FrameOn(q, w)) /\ Configured(c, q.config) BY <3>1 DEF Sound
      <3> HIDE DEF c, d
      <3>3. /\ d.queue = c.queue /\ d.has_frame = c.has_frame /\ d.dirty = c.dirty /\ d.occluded = c.occluded
            /\ d.requested = c.requested /\ d.options = c.options /\ d.config = c.config
        BY <3>1, ClearedWindow
      <3>4. Awaits(d) /\ (~d.has_frame => FrameOn(s, w)) /\ Configured(d, s.config)
        BY <2>8, <2>9, <3>2, <3>3 DEF Awaits, Configured
      <3>5. QED BY <3>4 DEF d
    <2>11. Sound(s, Open(q)) BY <2>6, <2>7, <2>8, <2>10 DEF Sound
    <2>12. ASSUME BarComes(q) PROVE BarComes(s)
      <3>1. MessageComing(s) BY <2>2, <2>7 DEF MessageComing
      <3>2. \A x \in ToSet(s.events) : x.kind = "IpcConfig" => x.window = 0 /\ x.arg = << Broken >>
        BY <2>2, <2>6, <2>7, <2>12 DEF BarComes
      <3>3. ASSUME NEW w \in Open(s) PROVE BarOfWindow(s, w)
        <4> DEFINE c == q.windows[w]
                   d == s.windows[w]
        <4>1. w \in Open(q) /\ d = Cleared(c) /\ c \in ContextType BY <1>1, <1>2, <2>6, <2>7, <2>8
        <4>2. BarOfWindow(q, w) BY <2>12, <4>1 DEF BarComes
        <4>3. d = c \/ d.pending BY <4>1, ClearedWindow
        <4>4. CASE d.pending BY <3>1, <4>4 DEF BarOfWindow
        <4>5. CASE d = c
          <5>1. IpcComing(q, w) => IpcComing(s, w) BY <2>6, <2>7, <4>5 DEF IpcComing
          <5>2. QED BY <3>1, <4>2, <4>5, <5>1 DEF BarOfWindow
        <4>6. QED BY <4>3, <4>4, <4>5
      <3>4. QED BY <3>2, <3>3 DEF BarComes
    <2>13. QED BY <2>8, <2>11, <2>12 DEF s
  <1>4. CASE read # Broken
    <2> DEFINE g == [w \in Open(q) |-> update_config(f[w], read)]
               m == IF q.monitor.state # "off" /\ needs_restart(q.monitor, read.paths) THEN NewMonitor(read.paths)
                    ELSE q.monitor
    <2>1. s = [q EXCEPT !.config = read, !.monitor = m, !.windows = g] BY <1>4 DEF ConfigReload, Cleared
    <2>2. read \in Config BY <1>4
    <2>3. /\ DOMAIN g = Open(q) /\ g = [w \in DOMAIN g |-> g[w]]
          /\ \A w \in Open(q) : g[w] = update_config(f[w], read)
      OBVIOUS
    <2>4. m \in Monitor
      <3>1. q.monitor \in Monitor BY <1>1, Parts
      <3>2. read.paths \in SUBSET {"main", "import"} BY <2>2 DEF Config
      <3>3. NewMonitor(read.paths) \in Monitor BY <3>2, NewMonitorType
      <3>4. QED BY <3>1, <3>3
    <2> HIDE DEF f, g, m
    <2>5. ASSUME NEW w \in Open(q)
          PROVE  f[w] \in ContextType /\ Updated(f[w], g[w], read)
      <3>1. f[w] \in ContextType BY <1>1, <1>2, ClearedWindow
      <3>2. f[w] \in Unapplied BY <3>1, UnappliedContext
      <3>3. QED BY <2>2, <2>3, <3>1, <3>2, UpdateConfig
    <2>6. \A w \in Open(q) : g[w] \in ContextType BY <2>5 DEF Updated
    <2>7. g \in Windows BY <1>1, <2>3, <2>6, WindowsMembers
    <2>8. /\ s \in Processors /\ s.windows = g /\ s.events = q.events /\ s.timers = q.timers /\ s.config = read
      BY <1>1, <2>1, <2>2, <2>4, <2>7 DEF Processors
    <2> HIDE DEF s, Processors
    <2>9. Open(s) = Open(q) BY <2>3, <2>8 DEF Open
    <2>10. \A w : FrameOn(q, w) => FrameOn(s, w) BY <2>8 DEF FrameOn
    <2>11. ASSUME NEW w \in Open(q)
           PROVE  /\ s.windows[w].has_frame = q.windows[w].has_frame /\ s.windows[w].queue # << >>
                  /\ StillComes(f[w], s.windows[w]) /\ s.windows[w].messages = f[w].messages
                  /\ Configured(s.windows[w], s.config)
      <3>1. f[w].has_frame = q.windows[w].has_frame BY <1>1, <1>2, ClearedWindow
      <3>2. Updated(f[w], s.windows[w], read) BY <2>5, <2>8
      <3>3. QED BY <2>8, <3>1, <3>2 DEF Updated, StillComes
    <2>12. Sound(s, Open(q))
      <3>1. ASSUME NEW w \in Open(s)
            PROVE  Awaits(s.windows[w]) /\ (~s.windows[w].has_frame => FrameOn(s, w)) /\ Configured(s.windows[w], s.config)
        <4>1. w \in Open(q) BY <2>9
        <4>2. ~q.windows[w].has_frame => FrameOn(q, w) BY <4>1 DEF Sound
        <4>3. QED BY <2>10, <2>11, <4>1, <4>2 DEF Awaits
      <3>2. QED BY <2>8, <2>9, <3>1 DEF Sound
    <2>13. ASSUME BarComes(q) PROVE BarComes(s)
      <3>1. ASSUME NEW w \in Open(s) PROVE BarOfWindow(s, w)
        <4> DEFINE c == q.windows[w]
                   b == f[w]
                   d == s.windows[w]
        <4>1. w \in Open(q) /\ b = Cleared(c) /\ c \in ContextType BY <1>1, <1>2, <2>9
        <4>2. BarOfWindow(q, w) BY <2>13, <4>1 DEF BarComes
        <4>3. b = c \/ b.pending BY <4>1, ClearedWindow
        <4>4. /\ d.queue # << >> /\ d.messages = b.messages /\ d.pending = b.pending /\ d.bar = b.bar
              /\ \A i \in DOMAIN b.queue : i \in DOMAIN d.queue /\ d.queue[i] = b.queue[i]
          BY <2>11, <4>1 DEF StillComes
        <4>5. CASE b.pending BY <4>4, <4>5 DEF BarOfWindow
        <4>6. CASE b = c
          <5>1. IpcComing(q, w) => IpcComing(s, w) BY <2>8, <4>4, <4>6 DEF IpcComing
          <5>2. QED BY <4>2, <4>4, <4>6, <5>1 DEF BarOfWindow
        <4>7. QED BY <4>3, <4>5, <4>6
      <3>2. QED BY <2>8, <2>13, <3>1 DEF BarComes
    <2>14. QED BY <2>9, <2>12, <2>13 DEF s
  <1>5. QED BY <1>3, <1>4

-------------------------------------------------------------------------------
(* Windows that come and go. *)

(* A new window has the configuration with its options, and no bar yet. *)
LEMMA NewWindow ==
  ASSUME NEW base \in Config, NEW options \in Seq(Setting), NEW hold \in BOOLEAN
  PROVE  /\ NewContext(base, options, hold) \in ContextType /\ NewContext(base, options, hold).has_frame
         /\ Awaits(NewContext(base, options, hold)) /\ Configured(NewContext(base, options, hold), base)
         /\ ~NewContext(base, options, hold).pending
         /\ NewContext(base, options, hold).bar = BarLines(NewContext(base, options, hold).messages)
  <1> DEFINE kept == override_config(options)
             cfg == Effective(base, kept)
             c == NewContext(base, options, hold)
  <1>1. kept \in Seq(Setting \ {Broken}) BY OverrideConfig
  <1>2. cfg \in WindowConfig /\ cfg.version = base.version /\ (kept # << >> => cfg.setting = Last(kept))
    BY <1>1, EffectiveConfig
  <1>3. c = [dirty |-> FALSE, has_frame |-> TRUE, requested |-> FALSE, occluded |-> FALSE, queue |-> << >>,
             hold |-> hold, bell |-> FALSE, messages |-> << >>, pending |-> FALSE, bar |-> 0,
             options |-> kept, config |-> cfg]
    BY DEF NewContext
  <1> HIDE DEF kept, cfg, c, Setting, Staged, Message, WindowConfig, Config
  <1>4. /\ c.has_frame /\ ~c.dirty /\ ~c.pending /\ c.bar = 0 /\ c.messages = << >> /\ c.options = kept
        /\ c.config = cfg
    BY <1>3
  <1>5. << >> \in Seq(Staged) /\ << >> \in Seq(Message) OBVIOUS
  <1>6. c \in ContextType BY <1>1, <1>2, <1>3, <1>5 DEF ContextType
  <1>7. Awaits(c) /\ Configured(c, base) BY <1>2, <1>4 DEF Awaits, Configured
  <1>8. c.bar = BarLines(c.messages) BY <1>4 DEF BarLines
  <1>9. QED BY <1>4, <1>6, <1>7, <1>8 DEF c

(* A window added keeps the invariant. *)
LEMMA InsertKeeps ==
  ASSUME NEW q, Sound(q, Open(q)), NEW w \in Nat, NEW c \in ContextType, c.has_frame, Awaits(c),
         Configured(c, q.config), ~c.pending, c.bar = BarLines(c.messages)
  PROVE  /\ Sound(Insert(q, w, c), Open(Insert(q, w, c))) /\ Open(Insert(q, w, c)) = Open(q) \union {w}
         /\ BarComes(q) => BarComes(Insert(q, w, c))
         /\ Insert(q, w, c).globals = q.globals
  <1> HIDE DEF Setting, Staged, Message, WindowConfig, Config, ContextType, Windows, Timers, Monitor, Delivered
  <1> DEFINE f == [v \in Open(q) \union {w} |-> IF v = w THEN c ELSE q.windows[v]]
             t == [q EXCEPT !.windows = f]
             e == Event("CursorBlinkingChange", w, 0)
             s == Insert(q, w, c)
  <1>1. /\ q \in Processors /\ Open(q) \subseteq Nat /\ \A v \in Open(q) : q.windows[v] \in ContextType
    BY Parts DEF Sound
  <1>2. s = IF q.blinks THEN Send(t, e) ELSE t BY DEF Insert
  <1>3. /\ DOMAIN f = Open(q) \union {w} /\ f = [v \in DOMAIN f |-> f[v]] /\ f[w] = c
        /\ \A v \in Open(q) : v # w => f[v] = q.windows[v]
    OBVIOUS
  <1>4. e \in Delivered /\ e.kind # "IpcConfig"
    BY DEF Event, Delivered, EventsOf, SentKinds, Arguments
  <1> HIDE DEF f, e, s
  <1>5. DOMAIN f \subseteq Nat /\ \A v \in DOMAIN f : f[v] \in ContextType BY <1>1, <1>3
  <1>6. f \in Windows BY <1>3, <1>5, WindowsMembers
  <1>7. WindowsSet(q, t, f) BY <1>1, <1>6, SetWindows
  <1> HIDE DEF t, Processors
  <1>8. /\ t \in Processors /\ t.windows = f /\ t.events = q.events /\ t.timers = q.timers
        /\ t.config = q.config /\ Open(t) = Open(q) \union {w} /\ t.globals = q.globals
    BY <1>3, <1>7 DEF WindowsSet, SameSettings, Open
  <1>9. Sound(t, Open(t))
    <2>1. \A v : FrameOn(q, v) => FrameOn(t, v) BY <1>8 DEF FrameOn
    <2>2. ASSUME NEW v \in Open(t)
          PROVE  Awaits(t.windows[v]) /\ (~t.windows[v].has_frame => FrameOn(t, v)) /\ Configured(t.windows[v], t.config)
      <3>1. CASE v = w BY <1>3, <1>8, <3>1
      <3>2. CASE v # w
        <4>1. v \in Open(q) /\ t.windows[v] = q.windows[v] BY <1>3, <1>8, <3>2
        <4>2. QED BY <1>8, <2>1, <4>1 DEF Sound
      <3>3. QED BY <3>1, <3>2
    <2>3. \A id \in DOMAIN t.timers : id.window \in Open(t) BY <1>8 DEF Sound
    <2>4. QED BY <1>8, <2>2, <2>3 DEF Sound
  <1>10. ASSUME BarComes(q) PROVE BarComes(t)
    <2>1. MessageComing(q) => MessageComing(t) BY <1>8 DEF MessageComing
    <2>2. ASSUME NEW v \in Open(t) PROVE BarOfWindow(t, v)
      <3>1. CASE v = w BY <1>3, <1>8, <3>1 DEF BarOfWindow
      <3>2. CASE v # w
        <4>1. v \in Open(q) /\ t.windows[v] = q.windows[v] BY <1>3, <1>8, <3>2
        <4>2. BarOfWindow(q, v) BY <1>10, <4>1 DEF BarComes
        <4>3. IpcComing(q, v) => IpcComing(t, v) BY <1>8, <4>1 DEF IpcComing
        <4>4. QED BY <2>1, <4>1, <4>2, <4>3 DEF BarOfWindow
      <3>3. QED BY <3>1, <3>2
    <2>3. QED BY <1>8, <1>10, <2>2 DEF BarComes
  <1>11. /\ Sound(Send(t, e), Open(t)) /\ Open(Send(t, e)) = Open(t) /\ (BarComes(t) => BarComes(Send(t, e)))
    BY <1>4, <1>9, SendKeeps
  <1>12. Send(t, e).globals = t.globals BY <1>4, <1>8, SendEvent DEF SameSettings
  <1>13. QED BY <1>2, <1>8, <1>9, <1>10, <1>11, <1>12 DEF s

(* The first and every other window that is created. *)
LEMMA CreateKeeps ==
  ASSUME NEW q, Sound(q, Open(q)), NEW w \in Nat, NEW options \in Seq(Setting)
  PROVE  /\ \A hold \in BOOLEAN :
              /\ Sound(create_initial_window(q, w, hold), Open(create_initial_window(q, w, hold)))
              /\ Open(create_initial_window(q, w, hold)) = Open(q) \union {w}
              /\ BarComes(q) => BarComes(create_initial_window(q, w, hold))
         /\ Sound(CreateWindow(q, w, options), Open(CreateWindow(q, w, options)))
         /\ Open(CreateWindow(q, w, options)) = Open(q) \union {w}
         /\ BarComes(q) => BarComes(CreateWindow(q, w, options))
  <1> HIDE DEF Setting, Config, ContextType
  <1>1. q \in Processors /\ q.config \in Config /\ q.globals \in Seq(Setting) BY Parts DEF Sound
  <1> HIDE DEF Processors
  <1>2. ASSUME NEW hold \in BOOLEAN
        PROVE  /\ Sound(create_initial_window(q, w, hold), Open(create_initial_window(q, w, hold)))
               /\ Open(create_initial_window(q, w, hold)) = Open(q) \union {w}
               /\ BarComes(q) => BarComes(create_initial_window(q, w, hold))
    <2> DEFINE none == << >>
               c == NewContext(q.config, none, hold)
    <2>1. none \in Seq(Setting) OBVIOUS
    <2>2. create_initial_window(q, w, hold) = Insert(q, w, c) BY DEF create_initial_window
    <2> HIDE DEF none
    <2>3. /\ c \in ContextType /\ c.has_frame /\ Awaits(c) /\ Configured(c, q.config) /\ ~c.pending
          /\ c.bar = BarLines(c.messages)
      BY <1>1, <2>1, NewWindow
    <2> HIDE DEF c
    <2>4. QED BY <2>2, <2>3, InsertKeeps
  <1>3. /\ Sound(create_window(q, w, options), Open(create_window(q, w, options)))
        /\ Open(create_window(q, w, options)) = Open(q) \union {w}
        /\ BarComes(q) => BarComes(create_window(q, w, options))
    <2> DEFINE o == options \o q.globals
               c == NewContext(q.config, o, FALSE)
               t == Insert(q, w, c)
    <2>1. o \in Seq(Setting) BY <1>1
    <2>2. create_window(q, w, options) = LogBroken(t, o) BY DEF create_window
    <2> HIDE DEF o
    <2>3. /\ c \in ContextType /\ c.has_frame /\ Awaits(c) /\ Configured(c, q.config) /\ ~c.pending
          /\ c.bar = BarLines(c.messages)
      BY <1>1, <2>1, NewWindow
    <2> HIDE DEF c
    <2>4. Sound(t, Open(t)) /\ Open(t) = Open(q) \union {w} /\ (BarComes(q) => BarComes(t))
      BY <2>3, InsertKeeps
    <2> HIDE DEF t
    <2>5. /\ Sound(LogBroken(t, o), Open(t)) /\ Open(LogBroken(t, o)) = Open(t)
          /\ BarComes(t) => BarComes(LogBroken(t, o))
      BY <2>4, LogBrokenKeeps
    <2>6. QED BY <2>2, <2>4, <2>5
  <1>4. CreateWindow(q, w, options) = IF Open(q) = {} THEN create_initial_window(q, w, FALSE) ELSE create_window(q, w, options)
    BY DEF CreateWindow
  <1>5. QED BY <1>2, <1>3, <1>4

(* A window that is closed leaves no timer. *)
LEMMA ExitKeeps ==
  ASSUME NEW q, Sound(q, Open(q)), NEW w, NEW daemon \in BOOLEAN
  PROVE  /\ Sound(Exit(q, w, daemon), Open(Exit(q, w, daemon))) /\ Open(Exit(q, w, daemon)) \subseteq Open(q)
         /\ BarComes(q) => BarComes(Exit(q, w, daemon))
  <1> HIDE DEF Setting, Staged, Message, WindowConfig, Config, ContextType, Windows, Timers, Monitor, Delivered
  <1> DEFINE f == [v \in Open(q) \ {w} |-> q.windows[v]]
             b == [id \in {i \in DOMAIN q.timers : i.window # w} |-> q.timers[id]]
             t == [q EXCEPT !.windows = f]
             u == [t EXCEPT !.timers = b]
             s == Exit(q, w, daemon)
  <1>1. /\ q \in Processors /\ Open(q) \subseteq Nat /\ \A v \in Open(q) : q.windows[v] \in ContextType
        /\ q.timers \in Timers
    BY Parts DEF Sound
  <1>2. CASE w \notin Open(q) \/ q.windows[w].hold
    <2>1. s = q BY <1>2 DEF Exit
    <2>2. QED BY <2>1
  <1>3. CASE ~(w \notin Open(q) \/ q.windows[w].hold)
    <2>1. /\ DOMAIN f = Open(q) \ {w} /\ f = [v \in DOMAIN f |-> f[v]]
          /\ \A v \in Open(q) \ {w} : f[v] = q.windows[v]
      OBVIOUS
    <2>2. f \in Windows
      <3> HIDE DEF f
      <3>1. DOMAIN f \subseteq Nat /\ \A v \in DOMAIN f : f[v] \in ContextType BY <1>1, <2>1
      <3>2. QED BY <2>1, <3>1, WindowsMembers
    <2>3. b \in Timers BY <1>1, RemoveWindowTimers
    <2>4. DOMAIN b = {i \in DOMAIN q.timers : i.window # w} OBVIOUS
    <2>5. t.timers = q.timers BY <1>1 DEF Processors
    <2>6. unschedule_window(t, w) = u BY <2>5 DEF unschedule_window, BagToSet
    <2>7. s = [u EXCEPT !.exiting = u.exiting \/ (Open(u) = {} /\ ~daemon)]
      <3>1. s = LET x == unschedule_window(t, w) IN [x EXCEPT !.exiting = @ \/ (Open(x) = {} /\ ~daemon)]
        BY <1>3 DEF Exit
      <3> HIDE DEF t, u
      <3>2. QED BY <2>6, <3>1
    <2> HIDE DEF f, b
    <2>8. t \in Processors /\ t.windows = f /\ t.events = q.events /\ t.config = q.config
      BY <1>1, <2>2 DEF Processors
    <2> HIDE DEF t
    <2>9. u \in Processors /\ u.windows = f /\ u.events = q.events /\ u.config = q.config /\ u.timers = b
      BY <2>3, <2>8 DEF Processors
    <2> HIDE DEF u, s
    <2>10. s \in Processors /\ s.windows = f /\ s.events = q.events /\ s.config = q.config /\ s.timers = b
      <3> DEFINE x == u.exiting \/ (Open(u) = {} /\ ~daemon)
      <3>1. x \in BOOLEAN BY <2>9 DEF Processors
      <3> HIDE DEF x
      <3>2. s = [u EXCEPT !.exiting = x] BY <2>7 DEF x
      <3>3. QED BY <2>9, <3>1, <3>2 DEF Processors
    <2> HIDE DEF Processors
    <2>11. Open(s) = Open(q) \ {w} BY <2>1, <2>10 DEF Open
    <2>12. ASSUME NEW v \in Open(s)
           PROVE  Awaits(s.windows[v]) /\ (~s.windows[v].has_frame => FrameOn(s, v)) /\ Configured(s.windows[v], s.config)
      <3>1. v \in Open(q) /\ v # w /\ s.windows[v] = q.windows[v] BY <2>1, <2>10, <2>11
      <3>2. TimerId("Frame", v).window # w BY <3>1 DEF TimerId
      <3>3. FrameOn(q, v) => FrameOn(s, v) BY <2>4, <2>10, <3>2 DEF FrameOn
      <3>4. QED BY <2>10, <3>1, <3>3 DEF Sound
    <2>13. \A id \in DOMAIN s.timers : id.window \in Open(s) BY <2>4, <2>10, <2>11 DEF Sound
    <2>14. Sound(s, Open(s)) BY <2>10, <2>12, <2>13 DEF Sound
    <2>15. ASSUME BarComes(q) PROVE BarComes(s)
      <3>1. ASSUME NEW v \in Open(s) PROVE BarOfWindow(s, v)
        <4>1. v \in Open(q) /\ s.windows[v] = q.windows[v] BY <2>1, <2>10, <2>11
        <4>2. BarOfWindow(q, v) BY <2>15, <4>1 DEF BarComes
        <4>3. QED BY <2>10, <4>1, <4>2 DEF BarOfWindow, IpcComing, MessageComing
      <3>2. QED BY <2>10, <2>15, <3>1 DEF BarComes
    <2>16. QED BY <2>11, <2>14, <2>15 DEF s
  <1>4. QED BY <1>2, <1>3

-------------------------------------------------------------------------------
(* Frames and what the terminals change. *)

(* The frame of the window w has changed: it may not wait for another one. *)
LEMMA FrameChanged ==
  ASSUME NEW q \in Processors, NEW w \in Open(q), NEW s, NEW d, WindowSet(q, s, w, d),
         Awaits(d), ~d.has_frame => FrameOn(q, w),
         d.options = q.windows[w].options, d.config = q.windows[w].config, d.queue = q.windows[w].queue,
         d.messages = q.windows[w].messages, d.pending = q.windows[w].pending, d.bar = q.windows[w].bar,
         \A id \in DOMAIN q.timers : id.window \in Open(q),
         \A v \in Open(q) : Configured(q.windows[v], q.config),
         \A v \in Open(q) \ {w} : Awaits(q.windows[v]) /\ (~q.windows[v].has_frame => FrameOn(q, v))
  PROVE  Sound(s, Open(q)) /\ Open(s) = Open(q) /\ (BarComes(q) => BarComes(s))
  <1> HIDE DEF Processors
  <1>1. /\ s \in Processors /\ Open(s) = Open(q) /\ s.events = q.events /\ s.timers = q.timers
        /\ s.config = q.config /\ s.windows[w] = d /\ \A v \in Open(q) : v # w => s.windows[v] = q.windows[v]
    BY DEF WindowSet, SameSettings
  <1>2. \A v : FrameOn(q, v) => FrameOn(s, v) BY <1>1 DEF FrameOn
  <1>3. ASSUME NEW v \in Open(s)
        PROVE  Awaits(s.windows[v]) /\ (~s.windows[v].has_frame => FrameOn(s, v)) /\ Configured(s.windows[v], s.config)
    <2>1. CASE v = w BY <1>1, <1>2, <2>1 DEF Configured
    <2>2. CASE v # w BY <1>1, <1>2, <2>2
    <2>3. QED BY <2>1, <2>2
  <1>4. Sound(s, Open(q)) BY <1>1, <1>3 DEF Sound
  <1>5. ASSUME BarComes(q) PROVE BarComes(s)
    <2>1. MessageComing(q) => MessageComing(s) BY <1>1 DEF MessageComing
    <2>2. ASSUME NEW v \in Open(s) PROVE BarOfWindow(s, v)
      <3>1. BarOfWindow(q, v) BY <1>1, <1>5 DEF BarComes
      <3>2. /\ s.windows[v].messages = q.windows[v].messages /\ s.windows[v].pending = q.windows[v].pending
            /\ s.windows[v].bar = q.windows[v].bar /\ s.windows[v].queue = q.windows[v].queue
        BY <1>1
      <3>3. IpcComing(q, v) => IpcComing(s, v) BY <1>1, <3>2 DEF IpcComing
      <3>4. QED BY <2>1, <3>1, <3>2, <3>3 DEF BarOfWindow
    <2>3. QED BY <1>1, <1>5, <2>2 DEF BarComes
  <1>6. QED BY <1>1, <1>4, <1>5

(* Wakeup keeps the invariant. *)
LEMMA WakeupKeeps ==
  ASSUME NEW q, Sound(q, Open(q)), NEW w
  PROVE  Sound(Wakeup(q, w), Open(q)) /\ Open(Wakeup(q, w)) = Open(q) /\ (BarComes(q) => BarComes(Wakeup(q, w)))
  <1> HIDE DEF Setting, Staged, Message, WindowConfig
  <1> DEFINE a == q.windows[w]
             c == [a EXCEPT !.dirty = TRUE]
             d == IF c.has_frame THEN request_redraw(c) ELSE c
             s == Wakeup(q, w)
  <1>1. CASE w \notin Open(q)
    <2>1. s = q BY <1>1 DEF Wakeup
    <2>2. QED BY <2>1
  <1>2. CASE w \in Open(q)
    <2>1. q \in Processors /\ a \in ContextType BY <1>2, Parts DEF Sound
    <2> HIDE DEF Processors
    <2>2. s = [q EXCEPT !.windows[w] = d] BY <1>2 DEF Wakeup
    <2>3. /\ d \in ContextType /\ d.has_frame = a.has_frame /\ Awaits(d)
          /\ d.options = a.options /\ d.config = a.config /\ d.queue = a.queue
          /\ d.messages = a.messages /\ d.pending = a.pending /\ d.bar = a.bar
      BY <2>1 DEF ContextType, request_redraw, Awaits
    <2> HIDE DEF d, s
    <2>4. WindowSet(q, s, w, d) BY <1>2, <2>1, <2>2, <2>3, SetWindow
    <2>5. /\ \A id \in DOMAIN q.timers : id.window \in Open(q)
          /\ \A v \in Open(q) : Configured(q.windows[v], q.config)
          /\ \A v \in Open(q) : Awaits(q.windows[v]) /\ (~q.windows[v].has_frame => FrameOn(q, v))
      BY DEF Sound
    <2>6. ~d.has_frame => FrameOn(q, w) BY <1>2, <2>3, <2>5
    <2>7. Sound(s, Open(q)) /\ Open(s) = Open(q) /\ (BarComes(q) => BarComes(s))
      BY <1>2, <2>1, <2>3, <2>4, <2>5, <2>6, FrameChanged
    <2>8. QED BY <2>7 DEF s
  <1>3. QED BY <1>1, <1>2

(* Frame gives the window its frame, which makes the rest of the invariant whole. *)
LEMMA FrameKeeps ==
  ASSUME NEW q \in Processors, NEW w,
         \A id \in DOMAIN q.timers : id.window \in Open(q),
         \A v \in Open(q) : Configured(q.windows[v], q.config),
         \A v \in Open(q) : Awaits(q.windows[v]),
         \A v \in Open(q) \ {w} : ~q.windows[v].has_frame => FrameOn(q, v)
  PROVE  Sound(Frame(q, w), Open(q)) /\ Open(Frame(q, w)) = Open(q) /\ (BarComes(q) => BarComes(Frame(q, w)))
  <1> HIDE DEF Setting, Staged, Message, WindowConfig
  <1> DEFINE a == q.windows[w]
             c == [a EXCEPT !.has_frame = TRUE]
             d == IF c.dirty THEN request_redraw(c) ELSE c
             s == Frame(q, w)
  <1>1. CASE w \notin Open(q)
    <2> HIDE DEF Processors
    <2>1. s = q BY <1>1 DEF Frame
    <2>2. Sound(q, Open(q)) BY <1>1 DEF Sound
    <2>3. QED BY <2>1, <2>2
  <1>2. CASE w \in Open(q)
    <2>1. a \in ContextType BY <1>2, Parts
    <2> HIDE DEF Processors
    <2>2. s = [q EXCEPT !.windows[w] = d] BY <1>2 DEF Frame
    <2>3. /\ d \in ContextType /\ d.has_frame /\ Awaits(d)
          /\ d.options = a.options /\ d.config = a.config /\ d.queue = a.queue
          /\ d.messages = a.messages /\ d.pending = a.pending /\ d.bar = a.bar
      BY <2>1 DEF ContextType, request_redraw, Awaits
    <2> HIDE DEF d, s
    <2>4. WindowSet(q, s, w, d) BY <1>2, <2>1, <2>2, <2>3, SetWindow
    <2>5. Sound(s, Open(q)) /\ Open(s) = Open(q) /\ (BarComes(q) => BarComes(s))
      BY <1>2, <2>3, <2>4, FrameChanged
    <2>6. QED BY <2>5 DEF s
  <1>3. QED BY <1>1, <1>2

-------------------------------------------------------------------------------
(* The steps of the processor. *)

(* The event e has been taken from those that were sent. *)
Dequeued(r, q, e) ==
  /\ q \in Processors /\ q.windows = r.windows /\ q.timers = r.timers /\ SameSettings(r, q)
  /\ e \in Delivered /\ ToSet(r.events) = ToSet(q.events) \union {e}

(* Taking the first event leaves the rest. *)
LEMMA Dequeue ==
  ASSUME NEW r \in Processors, r.events # << >>
  PROVE  Dequeued(r, [r EXCEPT !.events = Tail(@)], Head(r.events))
  <1> HIDE DEF Delivered, Processors
  <1> DEFINE es == Tail(r.events)
             e == Head(r.events)
             q == [r EXCEPT !.events = es]
  <1>1. r.events \in Seq(Delivered) BY Parts
  <1>2. es \in Seq(Delivered) /\ e \in Delivered /\ ToSet(r.events) = ToSet(es) \union {e} BY <1>1, TailMembers
  <1>3. q = [r EXCEPT !.events = Tail(@)] OBVIOUS
  <1> HIDE DEF es, e
  <1>4. q \in Processors /\ q.events = es /\ q.windows = r.windows /\ q.timers = r.timers /\ SameSettings(r, q)
    BY <1>2, SetEvents
  <1> HIDE DEF q
  <1>5. Dequeued(r, q, e) BY <1>2, <1>4 DEF Dequeued
  <1>6. QED BY <1>3, <1>5 DEF e

(* user_event keeps the invariant, for every event. *)
LEMMA UserEventKeeps ==
  ASSUME NEW r, Sound(r, Open(r)), NEW q, NEW e, Dequeued(r, q, e), NEW new \in Nat,
         NEW read \in Config \union {Broken}, NEW daemon \in BOOLEAN
  PROVE  /\ Sound(user_event(q, e, new, read, daemon), Open(user_event(q, e, new, read, daemon)))
         /\ BarComes(r) => BarComes(user_event(q, e, new, read, daemon))
         /\ Open(user_event(q, e, new, read, daemon))
              \subseteq Open(r) \union (IF e.kind = "CreateWindow" THEN {new} ELSE {})
  <1> DEFINE s == user_event(q, e, new, read, daemon)
             Goal == /\ Sound(s, Open(s)) /\ (BarComes(r) => BarComes(s))
                     /\ Open(s) \subseteq Open(r) \union (IF e.kind = "CreateWindow" THEN {new} ELSE {})
  <1> SUFFICES Goal OBVIOUS
  <1>10. s = user_event(q, e, new, read, daemon) OBVIOUS
  <1>2. e \in Delivered BY DEF Dequeued
  <1>3. /\ e.kind \in SentKinds /\ e.window \in Nat
        /\ e.kind \in {"IpcConfig", "CreateWindow"} => e.arg \in Seq(Setting)
        /\ e.kind \in StagedKinds => e \in Staged
    <2> HIDE DEF Setting, Message, StagedKinds, SentKinds
    <2>1. QED BY <1>2 DEF Delivered, Staged, EventsOf
  <1> HIDE DEF Setting, Staged, Message, Delivered, Config, Processors, s
  <1>4. q \in Processors /\ q.windows = r.windows /\ q.timers = r.timers /\ SameSettings(r, q)
    BY DEF Dequeued
  <1>5. Open(q) = Open(r) /\ q.config = r.config /\ ToSet(r.events) = ToSet(q.events) \union {e}
    BY DEF Open, SameSettings, Dequeued
  <1>6. /\ \A id \in DOMAIN q.timers : id.window \in Open(q)
        /\ \A v \in Open(q) : Configured(q.windows[v], q.config)
        /\ \A v \in Open(q) : Awaits(q.windows[v])
    BY <1>4, <1>5 DEF Sound
  <1>7. ASSUME NEW v \in Open(q), ~(e.kind = "Frame" /\ e.window = v), ~q.windows[v].has_frame PROVE FrameOn(q, v)
    <2>1. FrameOn(r, v) BY <1>4, <1>5, <1>7 DEF Sound
    <2>2. Event("Frame", v, 0) # e BY <1>7 DEF Event
    <2>3. QED BY <1>4, <1>5, <2>1, <2>2 DEF FrameOn
  <1>8. e.kind # "Frame" => Sound(q, Open(q)) BY <1>4, <1>6, <1>7 DEF Sound
  <1>9. ASSUME BarComes(r), e.kind # "Message" PROVE BarComes(q)
    <2>1. MessageComing(r) => MessageComing(q) BY <1>5, <1>9 DEF MessageComing
    <2>2. Event("Message", 0, IpcMessage) # e BY <1>9 DEF Event
    <2>3. ASSUME NEW v \in Open(q) PROVE BarOfWindow(q, v)
      <3>1. BarOfWindow(r, v) BY <1>5, <1>9 DEF BarComes
      <3>2. IpcComing(r, v) => IpcComing(q, v) BY <1>4, <1>5, <2>2 DEF IpcComing
      <3>3. QED BY <1>4, <2>1, <3>1, <3>2 DEF BarOfWindow
    <2>4. QED BY <1>5, <1>9, <2>3 DEF BarComes
  <1>11. CASE e.kind = "IpcConfig"
    <2> DEFINE reset == e.arg = << >>
    <2>1. s = IpcConfig(q, e.window, reset, e.arg) BY <1>10, <1>11 DEF user_event
    <2>2. reset \in BOOLEAN /\ e.arg \in Seq(Setting) BY <1>3, <1>11
    <2>3. ASSUME BarComes(r) PROVE e.window = 0 /\ ~reset /\ Broken \in ToSet(e.arg)
      <3>1. e.window = 0 /\ e.arg = << Broken >> BY <1>5, <1>11, <2>3 DEF BarComes
      <3>2. QED BY <3>1 DEF ToSet
    <2> HIDE DEF reset
    <2>4. /\ Sound(s, Open(q)) /\ Open(s) = Open(q)
          /\ BarComes(q) /\ e.window = 0 /\ ~reset /\ Broken \in ToSet(e.arg) => BarComes(s)
      BY <1>3, <1>8, <1>11, <2>1, <2>2, IpcConfigKeeps
    <2>5. QED BY <1>5, <1>9, <1>11, <2>3, <2>4
  <1>12. CASE e.kind = "IpcGetConfig"
    <2>1. s = IpcGetConfig(q, e.window) BY <1>10, <1>12 DEF user_event
    <2>2. Sound(s, Open(q)) /\ Open(s) = Open(q) /\ (BarComes(q) => BarComes(s))
      BY <1>8, <1>12, <2>1, IpcGetConfigKeeps
    <2>3. QED BY <1>5, <1>9, <1>12, <2>2
  <1>13. CASE e.kind = "ConfigReload"
    <2>1. s = ConfigReload(q, read) BY <1>10, <1>13 DEF user_event
    <2>2. Sound(s, Open(q)) /\ Open(s) = Open(q) /\ (BarComes(q) => BarComes(s))
      BY <1>8, <1>13, <2>1, ConfigReloadKeeps
    <2>3. QED BY <1>5, <1>9, <1>13, <2>2
  <1>14. CASE e.kind = "CreateWindow"
    <2>1. s = CreateWindow(q, new, e.arg) BY <1>10, <1>14 DEF user_event
    <2>2. e.arg \in Seq(Setting) BY <1>3, <1>14
    <2>3. Sound(s, Open(s)) /\ Open(s) = Open(q) \union {new} /\ (BarComes(q) => BarComes(s))
      BY <1>8, <1>14, <2>1, <2>2, CreateKeeps
    <2>4. QED BY <1>5, <1>9, <1>14, <2>3
  <1>15. CASE e.kind = "Shutdown"
    <2>1. s = [q EXCEPT !.exiting = TRUE] BY <1>10, <1>15 DEF user_event
    <2>2. s \in Processors /\ s.windows = q.windows /\ s.events = q.events /\ s.timers = q.timers /\ s.config = q.config
      <3> HIDE DEF ContextType, Windows, Timers, Monitor
      <3>1. QED BY <1>4, <2>1 DEF Processors
    <2>3. Open(s) = Open(q) BY <2>2 DEF Open
    <2>4. Sound(s, Open(s)) BY <1>8, <1>15, <2>2, <2>3 DEF Sound, FrameOn
    <2>5. BarComes(q) => BarComes(s) BY <2>2, <2>3 DEF BarComes, BarOfWindow, IpcComing, MessageComing
    <2>6. QED BY <1>5, <1>9, <1>15, <2>3, <2>4, <2>5
  <1>16. CASE e.kind = "Wakeup"
    <2>1. s = Wakeup(q, e.window) BY <1>10, <1>16 DEF user_event
    <2>2. Sound(s, Open(q)) /\ Open(s) = Open(q) /\ (BarComes(q) => BarComes(s))
      BY <1>8, <1>16, <2>1, WakeupKeeps
    <2>3. QED BY <1>5, <1>9, <1>16, <2>2
  <1>17. CASE e.kind = "Exit"
    <2>1. s = Exit(q, e.window, daemon) BY <1>10, <1>17 DEF user_event
    <2>2. Sound(s, Open(s)) /\ Open(s) \subseteq Open(q) /\ (BarComes(q) => BarComes(s))
      BY <1>8, <1>17, <2>1, ExitKeeps
    <2>3. QED BY <1>5, <1>9, <1>17, <2>2
  <1>18. CASE e.kind = "Frame"
    <2>1. s = Frame(q, e.window) BY <1>10, <1>18 DEF user_event
    <2>2. \A v \in Open(q) \ {e.window} : ~q.windows[v].has_frame => FrameOn(q, v) BY <1>7
    <2>3. Sound(s, Open(q)) /\ Open(s) = Open(q) /\ (BarComes(q) => BarComes(s))
      BY <1>4, <1>6, <2>1, <2>2, FrameKeeps
    <2>4. QED BY <1>5, <1>9, <1>18, <2>3
  <1>19. CASE e.kind \in {"Bell", "Message", "CursorBlinkingChange", "BlinkCursor"}
    <2>1. s = Stage(q, e) BY <1>10, <1>19 DEF user_event
    <2>2. e \in Staged BY <1>3, <1>19 DEF StagedKinds
    <2>3. Sound(q, Open(q)) BY <1>8, <1>19
    <2>4. TakenFrom(r, q, e) BY <1>4, <1>5 DEF TakenFrom
    <2>5. Sound(s, Open(q)) /\ Open(s) = Open(q) /\ (BarComes(r) => BarComes(s))
      BY <2>1, <2>2, <2>3, <2>4, StageKeeps
    <2>6. QED BY <1>5, <1>19, <2>5
  <1>20. QED BY <1>3, <1>11, <1>12, <1>13, <1>14, <1>15, <1>16, <1>17, <1>18, <1>19 DEF SentKinds

-------------------------------------------------------------------------------
(* The specification. *)

(* The inductive invariant: the windows are sound; when the loop waits nothing is
   staged; and without IPC options the message bars come right. *)
IInv ==
  /\ scenario \in Scenarios /\ created \in Nat /\ inputs \in Nat /\ files \in Config \union {Broken}
  /\ Open(p) \subseteq 1 .. created
  /\ Sound(p, Open(p))
  /\ ~awake => \A w \in Open(p) : p.windows[w].queue = << >>
  /\ "IpcConfig" \notin scenario.inputs => BarComes(p)

(* The invariant holds before the first window. *)
LEMMA InvInit == Init => IInv
  <1> SUFFICES ASSUME Init PROVE IInv OBVIOUS
  <1> USE DEF Init
  <1> DEFINE none == << >>
             q == [windows |-> none, events |-> none, timers |-> EmptyBag, config |-> Main, globals |-> none,
                   monitor |-> NewMonitor(Main.paths), blinks |-> scenario.blinks, exiting |-> FALSE]
  <1>1. p = IF scenario.daemon THEN q ELSE create_initial_window(q, 1, scenario.hold) BY DEF Started
  <1>2. scenario.daemon \in BOOLEAN /\ scenario.hold \in BOOLEAN /\ scenario.blinks \in BOOLEAN
    BY ProcessorAssumption
  <1>3. Main \in Config BY DEF Main, Config
  <1>4. NewMonitor(Main.paths) \in Monitor
    <2>1. Main.paths \in SUBSET {"main", "import"} BY DEF Main
    <2>2. QED BY <2>1, NewMonitorType
  <1>5. none \in Windows /\ DOMAIN none = {}
    <2>1. DOMAIN none = {} OBVIOUS
    <2>2. none = [v \in DOMAIN none |-> none[v]] OBVIOUS
    <2> HIDE DEF none
    <2>3. QED BY <2>1, <2>2, WindowsMembers
  <1>6. EmptyBag \in Timers /\ DOMAIN EmptyBag = {}
    <2> DEFINE b == EmptyBag
    <2>1. DOMAIN b = {} /\ b = [id \in DOMAIN b |-> b[id]] BY DEF EmptyBag, SetToBag
    <2> HIDE DEF b
    <2>2. b \in Timers BY <2>1, TimersMembers
    <2>3. QED BY <2>1, <2>2 DEF b
  <1>7. none \in Seq(Delivered) /\ none \in Seq(Setting) /\ ToSet(none) = {} BY DEF ToSet
  <1> HIDE DEF none, Windows, Timers, Delivered, Setting, Monitor, Config
  <1>8. /\ q \in Processors /\ q.windows = none /\ q.events = none /\ q.timers = EmptyBag
    BY <1>2, <1>3, <1>4, <1>5, <1>6, <1>7 DEF Processors
  <1> HIDE DEF q, Processors
  <1>9. Open(q) = {} BY <1>5, <1>8 DEF Open
  <1>10. Sound(q, Open(q)) BY <1>6, <1>8, <1>9 DEF Sound
  <1>11. BarComes(q) BY <1>7, <1>8, <1>9 DEF BarComes
  <1>12. << >> \in Seq(Setting) OBVIOUS
  <1>13. CASE scenario.daemon BY <1>1, <1>3, <1>9, <1>10, <1>11, <1>13 DEF IInv
  <1>14. CASE ~scenario.daemon
    <2> DEFINE s == create_initial_window(q, 1, scenario.hold)
    <2>1. Sound(s, Open(s)) /\ Open(s) = Open(q) \union {1} /\ (BarComes(q) => BarComes(s))
      BY <1>2, <1>10, <1>12, CreateKeeps
    <2>2. p = s /\ created = 1 BY <1>1, <1>14
    <2> HIDE DEF s
    <2>3. Open(p) \subseteq 1 .. created BY <1>9, <2>1, <2>2
    <2>4. QED BY <1>3, <1>11, <2>1, <2>2, <2>3 DEF IInv
  <1>15. QED BY <1>2, <1>13, <1>14

(* A window is drawn, at its own request or at the one of the system. *)
LEMMA RedrawKeeps ==
  ASSUME NEW q, Sound(q, Open(q)), NEW w \in Open(q), NEW over \in BOOLEAN
  PROVE  /\ Sound(draw(handle_event(q, w, TRUE), w, over), Open(q))
         /\ Open(draw(handle_event(q, w, TRUE), w, over)) = Open(q)
         /\ BarComes(q) => BarComes(draw(handle_event(q, w, TRUE), w, over))
  <1> HIDE DEF Processors
  <1> DEFINE t == handle_event(q, w, TRUE)
             W == Open(q) \ {w}
  <1>1. q \in Processors BY DEF Sound
  <1>2. EventHandled(q, t, w) BY <1>1, HandleEvent
  <1> HIDE DEF t
  <1>3. Open(t) = Open(q) BY <1>2 DEF EventHandled
  <1>4. Sound(q, W) BY DEF Sound
  <1>5. w \notin W OBVIOUS
  <1> HIDE DEF W
  <1>6. Sound(t, W) BY <1>2, <1>4, <1>5, EventKeepsSound
  <1>7. BarComes(q) => BarComes(t) BY <1>2, EventKeepsBar
  <1>8. Sound(t, Open(t) \ {w}) /\ w \in Open(t) BY <1>3, <1>6 DEF W
  <1>9. /\ Sound(draw(t, w, over), Open(t)) /\ Open(draw(t, w, over)) = Open(t)
        /\ BarComes(t) => BarComes(draw(t, w, over))
    BY <1>8, DrawKeeps
  <1>10. QED BY <1>3, <1>7, <1>9 DEF t

(* about_to_wait, with a timer that is due or without one. *)
LEMMA AboutToWaitKeeps ==
  ASSUME NEW q, Sound(q, Open(q)), NEW n \in Nat, Open(q) \subseteq 1 .. n, NEW order \in Orders(q)
  PROVE  /\ /\ Sound(about_to_wait(q, order, << >>), Open(q)) /\ Open(about_to_wait(q, order, << >>)) = Open(q)
            /\ BarComes(q) => BarComes(about_to_wait(q, order, << >>))
            /\ \A w \in Open(q) : about_to_wait(q, order, << >>).windows[w].queue = << >>
         /\ \A id \in DOMAIN q.timers :
              /\ Sound(about_to_wait(q, order, << id >>), Open(q)) /\ Open(about_to_wait(q, order, << id >>)) = Open(q)
              /\ BarComes(q) => BarComes(about_to_wait(q, order, << id >>))
              /\ \A w \in Open(q) : about_to_wait(q, order, << id >>).windows[w].queue = << >>
  <1> HIDE DEF Processors
  <1> DEFINE t == HandleWindows(q, order)
  <1>1. IsFiniteSet(1 .. n) BY FS_Interval
  <1>2. IsFiniteSet(Open(q)) BY <1>1, FS_Subset
  <1>3. Cardinality(Open(q)) \in Nat BY <1>2, FS_CardinalityType
  <1>4. /\ Sound(t, Open(t)) /\ Open(t) = Open(q)
        /\ \A w \in Open(q) : t.windows[w].queue = << >>
        /\ BarComes(q) => BarComes(t)
    BY <1>3, HandleWindowsKeeps
  <1>5. about_to_wait(q, order, << >>) = t BY DEF about_to_wait
  <1>6. ASSUME NEW id \in DOMAIN q.timers 
        PROVE  about_to_wait(q, order, << id >>) = IF id \in DOMAIN t.timers THEN Due(t, id) ELSE t
    BY DEF about_to_wait, BagIn, BagToSet
  <1> HIDE DEF t
  <1>7. ASSUME NEW id \in DOMAIN t.timers
        PROVE  /\ Sound(Due(t, id), Open(q)) /\ Open(Due(t, id)) = Open(q)
               /\ BarComes(q) => BarComes(Due(t, id))
               /\ \A w \in Open(q) : Due(t, id).windows[w].queue = << >>
    <2>2. Sound(Due(t, id), Open(t)) /\ Due(t, id).windows = t.windows /\ (BarComes(t) => BarComes(Due(t, id)))
      BY <1>4, DueKeeps
    <2>3. Open(Due(t, id)) = Open(t) BY <2>2 DEF Open
    <2>4. QED BY <1>4, <2>2, <2>3
  <1>8. QED BY <1>4, <1>5, <1>6, <1>7

(* What the monitor does leaves the windows alone. *)
LEMMA MonitorKeeps ==
  ASSUME NEW q, Sound(q, Open(q)), NEW m \in Monitor
  PROVE  /\ Sound([q EXCEPT !.monitor = m], Open(q)) /\ [q EXCEPT !.monitor = m].windows = q.windows
         /\ BarComes(q) => BarComes([q EXCEPT !.monitor = m])
  <1> HIDE DEF Windows, Timers, Delivered, Setting, Monitor, Config
  <1> DEFINE s == [q EXCEPT !.monitor = m]
  <1>1. q \in Processors BY DEF Sound
  <1>2. s \in Processors /\ s.windows = q.windows /\ s.events = q.events /\ s.timers = q.timers /\ s.config = q.config
    BY <1>1 DEF Processors
  <1> HIDE DEF s, Processors
  <1>3. Open(s) = Open(q) BY <1>2 DEF Open
  <1>4. Sound(s, Open(q)) BY <1>2, <1>3 DEF Sound, FrameOn
  <1>5. BarComes(q) => BarComes(s) BY <1>2, <1>3 DEF BarComes, BarOfWindow, IpcComing, MessageComing
  <1>6. QED BY <1>2, <1>4, <1>5 DEF s

(* A step that changes neither which windows are open nor what is staged for them. *)
LEMMA InvKept ==
  ASSUME IInv, Sound(p', Open(p)), p'.windows = p.windows,
         "IpcConfig" \notin scenario.inputs => (BarComes(p) => BarComes(p')),
         awake' = awake, files' \in Config \union {Broken}, created' = created, inputs' \in Nat, scenario' = scenario
  PROVE  IInv'
  <1> HIDE DEF Config
  <1>1. Open(p') = Open(p) BY DEF Open
  <1>2. QED BY <1>1 DEF IInv

(* A step that sends one event. *)
LEMMA SendStep ==
  ASSUME IInv, NEW e \in Delivered, p' = Send(p, e),
         e.kind = "IpcConfig" /\ "IpcConfig" \notin scenario.inputs => e.window = 0 /\ e.arg = << Broken >>,
         UNCHANGED << awake, files, created, scenario >>, inputs' \in Nat
  PROVE  IInv'
  <1> HIDE DEF Delivered, Config, Processors
  <1>1. Sound(p, Open(p)) /\ p \in Processors /\ files \in Config \union {Broken} BY DEF IInv, Sound
  <1>2. Sound(p', Open(p)) /\ p'.windows = p.windows BY <1>1, SendKeeps, SendEvent
  <1>3. "IpcConfig" \notin scenario.inputs => (BarComes(p) => BarComes(p')) BY <1>1, SendKeeps
  <1>4. QED BY <1>1, <1>2, <1>3, InvKept

(* The events that are sent from the outside. *)
LEMMA SentEvents ==
  ASSUME NEW w \in Nat
  PROVE  /\ \A kind \in SentKinds \ {"Message", "IpcConfig", "CreateWindow"} : Event(kind, w, 0) \in Delivered
         /\ \A target \in {"ipc", "config", "other"}, n \in 1 .. 2 :
              Event("Message", w, [target |-> target, lines |-> n]) \in Delivered
         /\ \A kind \in {"IpcConfig", "CreateWindow"}, o \in Seq(Setting) : Event(kind, w, o) \in Delivered
         /\ \A kind, arg : Event(kind, w, arg).kind = kind /\ Event(kind, w, arg).window = w /\ Event(kind, w, arg).arg = arg
  <1>1. \A kind, arg : Event(kind, w, arg).kind = kind /\ Event(kind, w, arg).window = w /\ Event(kind, w, arg).arg = arg
    BY DEF Event
  <1>2. ASSUME NEW kind \in SentKinds \ {"Message", "IpcConfig", "CreateWindow"} PROVE Event(kind, w, 0) \in Delivered
    BY DEF Event, Delivered, EventsOf, SentKinds, Arguments
  <1>3. ASSUME NEW target \in {"ipc", "config", "other"}, NEW n \in 1 .. 2
        PROVE  Event("Message", w, [target |-> target, lines |-> n]) \in Delivered
    BY DEF Event, Delivered, EventsOf, SentKinds, Arguments, Message
  <1>4. ASSUME NEW kind \in {"IpcConfig", "CreateWindow"}, NEW o \in Seq(Setting) PROVE Event(kind, w, o) \in Delivered
    <2> HIDE DEF Setting
    <2>1. QED BY DEF Event, Delivered, EventsOf, SentKinds, Arguments
  <1>5. QED BY <1>1, <1>2, <1>3, <1>4

(* Every step keeps the invariant. *)
LEMMA InvNext == IInv /\ [Next]_vars => IInv'
  <1> SUFFICES ASSUME IInv, [Next]_vars PROVE IInv' OBVIOUS
  <1> HIDE DEF Config, Delivered, Setting, Monitor, Staged, Processors, Windows, Timers, SentKinds, Message
  <1>1. /\ scenario \in Scenarios /\ created \in Nat /\ inputs \in Nat /\ files \in Config \union {Broken}
        /\ Open(p) \subseteq 1 .. created /\ Sound(p, Open(p)) /\ p \in Processors
        /\ Open(p) \subseteq Nat /\ inputs + 1 \in Nat
    BY DEF IInv, Sound
  <1>2. "IpcConfig" \notin scenario.inputs => BarComes(p) BY DEF IInv
  <1>3. scenario.daemon \in BOOLEAN BY <1>1, ProcessorAssumption
  <1>4. CASE Deliver
    <2> DEFINE e == Head(p.events)
               q == [p EXCEPT !.events = Tail(@)]
               s == user_event(q, e, created + 1, files, scenario.daemon)
    <2>1. /\ p.events # << >> /\ p' = s /\ created' = (IF e.kind = "CreateWindow" THEN created + 1 ELSE created)
          /\ awake' = TRUE /\ files' = files /\ inputs' = inputs /\ scenario' = scenario
      BY <1>4 DEF Deliver
    <2>2. Dequeued(p, q, e) BY <1>1, <2>1, Dequeue
    <2> HIDE DEF e, q
    <2>3. created + 1 \in Nat BY <1>1
    <2>4. /\ Sound(s, Open(s)) /\ (BarComes(p) => BarComes(s))
          /\ Open(s) \subseteq Open(p) \union (IF e.kind = "CreateWindow" THEN {created + 1} ELSE {})
      BY <1>1, <1>3, <2>2, <2>3, UserEventKeeps
    <2> HIDE DEF s
    <2>5. created' \in Nat /\ Open(s) \subseteq 1 .. created' BY <1>1, <2>1, <2>4
    <2>6. QED BY <1>1, <1>2, <2>1, <2>4, <2>5 DEF IInv
  <1>5. ASSUME NEW w \in Open(p), Redraw(w), UNCHANGED << files, created, scenario >>, inputs' \in Nat PROVE IInv'
    <2>1. PICK over \in BOOLEAN : p' = draw(handle_event(p, w, TRUE), w, over) BY <1>5 DEF Redraw
    <2>2. awake' = TRUE BY <1>5 DEF Redraw
    <2>3. Sound(p', Open(p)) /\ Open(p') = Open(p) /\ (BarComes(p) => BarComes(p')) BY <1>1, <2>1, RedrawKeeps
    <2>4. QED BY <1>1, <1>2, <1>5, <2>2, <2>3 DEF IInv
  <1>6. CASE AboutToWait
    <2>1. PICK order \in Orders(p) : p' = about_to_wait(p, order, << >>) BY <1>6 DEF AboutToWait
    <2>2. UNCHANGED << files, created, inputs, scenario >> BY <1>6 DEF AboutToWait
    <2>3. /\ Sound(p', Open(p)) /\ Open(p') = Open(p) /\ (BarComes(p) => BarComes(p'))
          /\ \A w \in Open(p) : p'.windows[w].queue = << >>
      BY <1>1, <2>1, AboutToWaitKeeps
    <2>4. QED BY <1>1, <1>2, <2>2, <2>3 DEF IInv
  <1>7. ASSUME NEW id, Fires(id), UNCHANGED << files, created, scenario >>, inputs' \in Nat PROVE IInv'
    <2>1. id \in DOMAIN p.timers BY <1>7 DEF Fires, BagIn, BagToSet
    <2>2. PICK order \in Orders(p) : p' = about_to_wait(p, order, << id >>) BY <1>7 DEF Fires
    <2>3. /\ Sound(p', Open(p)) /\ Open(p') = Open(p) /\ (BarComes(p) => BarComes(p'))
          /\ \A w \in Open(p) : p'.windows[w].queue = << >>
      BY <1>1, <2>1, <2>2, AboutToWaitKeeps
    <2>4. QED BY <1>1, <1>2, <1>7, <2>3 DEF IInv
  <1>8. CASE CursorBlinks
    <2>1. PICK w \in Open(p) : Fires(TimerId("BlinkCursor", w)) BY <1>8 DEF CursorBlinks
    <2>2. UNCHANGED << files, created, scenario >> /\ inputs' \in Nat BY <1>1, <1>8 DEF CursorBlinks, Input
    <2>3. QED BY <1>7, <2>1, <2>2
  <1>9. CASE OsRedraw
    <2>1. PICK w \in Open(p) : Redraw(w) BY <1>9 DEF OsRedraw
    <2>2. UNCHANGED << files, created, scenario >> /\ inputs' \in Nat BY <1>1, <1>9 DEF OsRedraw, Input
    <2>3. QED BY <1>5, <2>1, <2>2
  <1>10. ASSUME NEW w \in 1 .. MaxWindows, RedrawRequested(w) \/ FrameExpires(w) PROVE IInv'
    <2>1. UNCHANGED << files, created, inputs, scenario >> BY <1>10 DEF RedrawRequested, FrameExpires
    <2>2. CASE RedrawRequested(w)
      <3>1. w \in Open(p) /\ Redraw(w) BY <2>2 DEF RedrawRequested
      <3>2. QED BY <1>1, <1>5, <2>1, <3>1
    <2>3. CASE FrameExpires(w)
      <3>1. Fires(TimerId("Frame", w)) BY <2>3 DEF FrameExpires
      <3>2. QED BY <1>1, <1>7, <2>1, <3>1
    <2>4. QED BY <1>10, <2>2, <2>3
  <1>11. CASE WindowEvent
    <2>0. PICK kind \in {"Input", "Resized", "Occluded", "PopMessage", "CloseRequested"}, w \in Open(p) :
            Input(kind) /\ \E arg \in IF kind = "Occluded" THEN BOOLEAN ELSE {0} : p' = Stage(p, Event(kind, w, arg))
      BY <1>11 DEF WindowEvent
    <2>1. PICK arg \in IF kind = "Occluded" THEN BOOLEAN ELSE {0} : Input(kind) /\ p' = Stage(p, Event(kind, w, arg))
      BY <2>0
    <2>2. awake' = TRUE /\ UNCHANGED << files, created, scenario >> /\ inputs' \in Nat
      BY <1>1, <1>11, <2>1 DEF WindowEvent, Input
    <2> DEFINE e == Event(kind, w, arg)
    <2>3. e \in Staged
      <3>1. w \in Nat BY <1>1
      <3>2. QED BY <2>1, <3>1 DEF Event, Staged, EventsOf, StagedKinds, Arguments
    <2> HIDE DEF e
    <2>4. p' = Stage(p, e) BY <2>1 DEF e
    <2>5. TakenFrom(p, p, e) BY DEF TakenFrom
    <2>6. Sound(p', Open(p)) /\ Open(p') = Open(p) /\ (BarComes(p) => BarComes(p'))
      BY <1>1, <2>3, <2>4, <2>5, StageKeeps
    <2>7. QED BY <1>1, <1>2, <2>2, <2>6 DEF IInv
  <1>12. CASE Pty
    <2>1. PICK w \in Open(p) :
            \/ Input("Wakeup") /\ p' = Send(p, Event("Wakeup", w, 0))
            \/ Input("Bell") /\ p' = Send(Send(p, Event("Bell", w, 0)), Event("Wakeup", w, 0))
            \/ Input("Exit") /\ p' = Send(p, Event("Exit", w, 0))
      BY <1>12 DEF Pty
    <2>2. UNCHANGED << awake, files, created, scenario >> /\ inputs' \in Nat BY <1>1, <1>12, <2>1 DEF Pty, Input
    <2>3. w \in Nat BY <1>1
    <2> DEFINE a == Event("Wakeup", w, 0)
               b == Event("Bell", w, 0)
               c == Event("Exit", w, 0)
    <2>4. /\ a \in Delivered /\ b \in Delivered /\ c \in Delivered
          /\ a.kind = "Wakeup" /\ b.kind = "Bell" /\ c.kind = "Exit"
      BY <2>3, SentEvents DEF SentKinds
    <2> HIDE DEF a, b, c
    <2>5. p' = Send(p, a) \/ p' = Send(Send(p, b), a) \/ p' = Send(p, c) BY <2>1 DEF a, b, c
    <2>6. CASE p' = Send(p, a) BY <2>2, <2>4, <2>6, SendStep
    <2>7. CASE p' = Send(p, c) BY <2>2, <2>4, <2>7, SendStep
    <2>8. CASE p' = Send(Send(p, b), a)
      <3> DEFINE q == Send(p, b)
      <3>1. Sound(q, Open(p)) /\ Open(q) = Open(p) /\ (BarComes(p) => BarComes(q)) BY <1>1, <2>4, SendKeeps
      <3>2. q \in Processors /\ q.windows = p.windows BY <1>1, <2>4, SendEvent
      <3> HIDE DEF q
      <3>3. p' = Send(q, a) BY <2>8 DEF q
      <3>4. Sound(p', Open(p)) /\ (BarComes(q) => BarComes(p')) BY <2>4, <3>1, <3>3, SendKeeps
      <3>5. p'.windows = p.windows BY <2>4, <3>2, <3>3, SendEvent
      <3>6. QED BY <1>1, <2>2, <3>1, <3>4, <3>5, InvKept
    <2>9. QED BY <2>5, <2>6, <2>7, <2>8
  <1>13. CASE Log
    <2>1. PICK n \in 1 .. 2 : p' = Send(p, Event("Message", 0, [target |-> "other", lines |-> n])) BY <1>13 DEF Log
    <2>2. UNCHANGED << awake, files, created, scenario >> /\ inputs' \in Nat BY <1>1, <1>13 DEF Log, Input
    <2> DEFINE e == Event("Message", 0, [target |-> "other", lines |-> n])
    <2>3. e \in Delivered /\ e.kind = "Message" BY SentEvents
    <2> HIDE DEF e
    <2>4. p' = Send(p, e) BY <2>1 DEF e
    <2>5. QED BY <2>2, <2>3, <2>4, SendStep
  <1>14. CASE Ipc
    <2>1. UNCHANGED << awake, files, created, scenario >> /\ inputs' \in Nat BY <1>1, <1>14 DEF Ipc, Input
    <2>2. CASE \E w \in 0 .. created, options \in {<< >>, << 1 >>, << 2 >>} :
                 Input("IpcConfig") /\ p' = Send(p, Event("IpcConfig", w, options))
      <3>1. PICK w \in 0 .. created, options \in {<< >>, << 1 >>, << 2 >>} :
              Input("IpcConfig") /\ p' = Send(p, Event("IpcConfig", w, options))
        BY <2>2
      <3>2. w \in Nat BY <1>1
      <3>3. options \in Seq(Setting)
        <4>1. 1 \in Setting /\ 2 \in Setting BY DEF Setting
        <4>2. << >> \in Seq(Setting) /\ << 1 >> \in Seq(Setting) /\ << 2 >> \in Seq(Setting) BY <4>1
        <4>3. QED BY <3>1, <4>2
      <3> DEFINE e == Event("IpcConfig", w, options)
      <3>4. e \in Delivered BY <3>2, <3>3, SentEvents
      <3>5. "IpcConfig" \in scenario.inputs BY <3>1 DEF Input
      <3> HIDE DEF e
      <3>6. p' = Send(p, e) BY <3>1 DEF e
      <3>7. QED BY <2>1, <3>4, <3>5, <3>6, SendStep
    <2>3. CASE p' = Send(p, Event("IpcConfig", 0, << Broken >>))
      <3> DEFINE o == << Broken >>
                 e == Event("IpcConfig", 0, o)
      <3>1. o \in Seq(Setting) BY DEF Setting
      <3> HIDE DEF o
      <3>2. e \in Delivered /\ e.window = 0 /\ e.arg = o BY <3>1, SentEvents
      <3> HIDE DEF e
      <3>3. p' = Send(p, e) BY <2>3 DEF e, o
      <3>4. e.arg = << Broken >> BY <3>2 DEF o
      <3>5. QED BY <2>1, <3>2, <3>3, <3>4, SendStep
    <2>4. CASE \E w \in 0 .. created : p' = Send(p, Event("IpcGetConfig", w, 0))
      <3>1. PICK w \in 0 .. created : p' = Send(p, Event("IpcGetConfig", w, 0)) BY <2>4
      <3> DEFINE e == Event("IpcGetConfig", w, 0)
      <3>2. w \in Nat BY <1>1
      <3>3. e \in Delivered /\ e.kind = "IpcGetConfig" BY <3>2, SentEvents DEF SentKinds
      <3> HIDE DEF e
      <3>4. p' = Send(p, e) BY <3>1 DEF e
      <3>5. QED BY <2>1, <3>3, <3>4, SendStep
    <2>5. CASE p' = Send(p, Event("CreateWindow", 0, << >>))
      <3> DEFINE o == << >>
                 e == Event("CreateWindow", 0, o)
      <3>1. o \in Seq(Setting) OBVIOUS
      <3> HIDE DEF o
      <3>0. 0 \in Nat /\ "CreateWindow" \in {"IpcConfig", "CreateWindow"} OBVIOUS
      <3>a. e \in Delivered BY <3>0, <3>1, SentEvents
      <3>b. e.kind = "CreateWindow" BY DEF Event
      <3>2. e \in Delivered /\ e.kind = "CreateWindow" BY <3>a, <3>b
      <3> HIDE DEF e
      <3>3. p' = Send(p, e) BY <2>5 DEF e, o
      <3>4. QED BY <2>1, <3>2, <3>3, SendStep
    <2>6. QED BY <1>14, <2>2, <2>3, <2>4, <2>5 DEF Ipc
  <1>15. CASE Signal
    <2>1. UNCHANGED << awake, files, created, scenario >> /\ inputs' \in Nat BY <1>1, <1>15 DEF Signal, Input
    <2> DEFINE e == Event("Shutdown", 0, 0)
    <2>2. e \in Delivered /\ e.kind = "Shutdown" BY SentEvents DEF SentKinds
    <2> HIDE DEF e
    <2>3. p' = Send(p, e) BY <1>15 DEF Signal, e
    <2>4. QED BY <2>1, <2>2, <2>3, SendStep
  <1>16. CASE Edit
    <2>1. /\ UNCHANGED << awake, created, scenario >> /\ inputs' \in Nat
          /\ p' = IF p.monitor.state = "watching" THEN [p EXCEPT !.monitor.received = TRUE] ELSE p
      BY <1>1, <1>16 DEF Edit, Input
    <2>2. files' \in Config \union {Broken}
      <3>1. Version + 1 \in Nat
        <4>1. CASE files = Broken BY <1>1, <4>1 DEF Version
        <4>2. CASE files # Broken
          <5>1. files.version \in Nat BY <1>1, <4>2 DEF Config
          <5>2. QED BY <4>2, <5>1 DEF Version
        <4>3. QED BY <4>1, <4>2
      <3>2. ASSUME NEW paths \in {{"main"}, {"main", "import"}}
            PROVE  [version |-> Version + 1, paths |-> paths] \in Config
        BY <3>1 DEF Config
      <3>3. QED BY <1>16, <3>2 DEF Edit
    <2>3. CASE p.monitor.state = "watching"
      <3> DEFINE m == [p.monitor EXCEPT !.received = TRUE]
      <3>1. p.monitor \in Monitor BY <1>1, Parts
      <3>2. m \in Monitor BY <3>1 DEF Monitor
      <3>3. p' = [p EXCEPT !.monitor = m] BY <2>1, <2>3
      <3> HIDE DEF m
      <3>4. Sound(p', Open(p)) /\ p'.windows = p.windows /\ (BarComes(p) => BarComes(p'))
        BY <1>1, <3>2, <3>3, MonitorKeeps
      <3>5. QED BY <2>1, <2>2, <3>4, InvKept
    <2>4. CASE p.monitor.state # "watching"
      <3>1. p' = p BY <2>1, <2>4
      <3>2. QED BY <1>1, <2>1, <2>2, <3>1, InvKept
    <2>5. QED BY <2>3, <2>4
  <1>17. CASE Watch
    <2> DEFINE m == [p.monitor EXCEPT !.state = "watching"]
    <2>1. UNCHANGED << awake, files, created, inputs, scenario >> /\ p' = [p EXCEPT !.monitor = m]
      BY <1>17 DEF Watch
    <2>2. p.monitor \in Monitor BY <1>1, Parts
    <2>3. m \in Monitor BY <2>2 DEF Monitor
    <2> HIDE DEF m
    <2>4. Sound(p', Open(p)) /\ p'.windows = p.windows /\ (BarComes(p) => BarComes(p'))
      BY <1>1, <2>1, <2>3, MonitorKeeps
    <2>5. QED BY <1>1, <2>1, <2>4, InvKept
  <1>18. CASE Debounced
    <2> DEFINE m == [p.monitor EXCEPT !.received = FALSE]
               q == [p EXCEPT !.monitor = m]
               e == Event("ConfigReload", 0, 0)
    <2>1. UNCHANGED << awake, files, created, inputs, scenario >> /\ p' = Send(q, e)
      BY <1>18 DEF Debounced
    <2>2. p.monitor \in Monitor BY <1>1, Parts
    <2>3. m \in Monitor BY <2>2 DEF Monitor
    <2>0. 0 \in Nat /\ "ConfigReload" \in SentKinds \ {"Message", "IpcConfig", "CreateWindow"} BY DEF SentKinds
    <2>a. e \in Delivered BY <2>0, SentEvents
    <2>b. e.kind = "ConfigReload" BY DEF Event
    <2>4. e \in Delivered /\ e.kind = "ConfigReload" BY <2>a, <2>b
    <2> HIDE DEF m, e
    <2>5. Sound(q, Open(p)) /\ q.windows = p.windows /\ (BarComes(p) => BarComes(q)) BY <1>1, <2>3, MonitorKeeps
    <2> HIDE DEF q
    <2>6. Sound(p', Open(p)) /\ (BarComes(q) => BarComes(p')) BY <2>1, <2>4, <2>5, SendKeeps
    <2>7. q \in Processors BY <2>5 DEF Sound
    <2>8. p'.windows = p.windows BY <2>1, <2>4, <2>5, <2>7, SendEvent
    <2>9. QED BY <1>1, <2>1, <2>5, <2>6, <2>8, InvKept
  <1>19. CASE UNCHANGED vars BY <1>19 DEF vars, IInv
  <1>20. QED BY <1>4, <1>6, <1>8, <1>9, <1>10, <1>11, <1>12, <1>13, <1>14, <1>15, <1>16, <1>17, <1>18, <1>19 DEF Next

(* The inductive invariant has what the runs check. *)
LEMMA InvImplies == IInv => ProcessorInv /\ FramesCome
  <1> SUFFICES ASSUME IInv PROVE ProcessorInv /\ FramesCome OBVIOUS
  <1> HIDE DEF Config, Delivered, Setting, Staged, Windows, Message, WindowConfig
  <1>1. Sound(p, Open(p)) /\ p \in Processors BY DEF IInv, Sound
  <1>2. \A w \in Open(p) : p.windows[w] \in ContextType BY <1>1, Parts
  <1>3. TypeOK
    <2>1. ASSUME NEW w \in Open(p)
          PROVE  /\ \A f \in Flags : p.windows[w][f] \in BOOLEAN
                 /\ p.windows[w].bar \in 0 .. 2 /\ Broken \notin ToSet(p.windows[w].options)
      <3> DEFINE c == p.windows[w]
      <3>1. c \in ContextType BY <1>2
      <3> HIDE DEF c
      <3>2. \A f \in Flags : c[f] \in BOOLEAN BY <3>1 DEF ContextType, Flags
      <3>3. c.bar \in 0 .. 2 /\ c.options \in Seq(Setting \ {Broken}) BY <3>1 DEF ContextType
      <3>4. \A i \in DOMAIN c.options : c.options[i] # Broken BY <3>3
      <3>5. Broken \notin ToSet(c.options) BY <3>4 DEF ToSet
      <3>6. QED BY <3>2, <3>3, <3>5 DEF c
    <2>2. IsABag(p.timers)
      <3> DEFINE b == p.timers
      <3>1. b \in Timers BY <1>1, Parts
      <3>2. b = [id \in DOMAIN b |-> b[id]] /\ \A id \in DOMAIN b : b[id] \in Nat \ {0} BY <3>1, TimersMembers
      <3> HIDE DEF b
      <3>3. \A id \in DOMAIN b : b[id] \in {n \in Nat : n > 0} BY <3>2
      <3>4. b \in [DOMAIN b -> {n \in Nat : n > 0}] BY <3>2, <3>3
      <3>5. QED BY <3>4 DEF IsABag, b
    <2>3. p.monitor.state \in {"off", "starting", "watching"}
      <3>1. p.monitor \in Monitor BY <1>1, Parts
      <3>2. QED BY <3>1 DEF Monitor
    <2>4. Open(p) \subseteq 1 .. created BY DEF IInv
    <2>5. QED BY <2>1, <2>2, <2>3, <2>4 DEF TypeOK
  <1> HIDE DEF Processors, ContextType
  <1>4. TimersOfOpenWindows BY <1>1 DEF TimersOfOpenWindows, Sound, BagToSet
  <1>5. ConfigAgrees BY <1>1 DEF ConfigAgrees, Sound, Configured
  <1>6. BarMatchesMessages
    <2> SUFFICES ASSUME ~awake, p.events = << >>, "IpcConfig" \notin scenario.inputs, NEW w \in Open(p)
                 PROVE  p.windows[w].bar = BarLines(p.windows[w].messages)
      BY DEF BarMatchesMessages
    <2>1. BarOfWindow(p, w) BY DEF IInv, BarComes
    <2>2. p.windows[w].queue = << >> BY DEF IInv
    <2>3. ToSet(p.events) = {} BY DEF ToSet
    <2>4. ~MessageComing(p) BY <2>3 DEF MessageComing
    <2>5. ~IpcComing(p, w) BY <2>2, <2>3 DEF IpcComing
    <2>6. QED BY <2>1, <2>2, <2>4, <2>5 DEF BarOfWindow
  <1>7. ASSUME NEW w \in Open(p), ~p.windows[w].has_frame PROVE FrameComing(w)
    BY <1>1, <1>7 DEF Sound, FrameOn, FrameComing, BagIn, BagToSet
  <1>8. FrameAlwaysComes BY <1>7 DEF FrameAlwaysComes
  <1>9. NoLostFrame
    <2> SUFFICES ASSUME ~awake, NEW w \in Open(p), p.windows[w].dirty, ~p.windows[w].occluded
                 PROVE  p.windows[w].requested \/ (~p.windows[w].has_frame /\ FrameComing(w))
      BY DEF NoLostFrame
    <2>1. Awaits(p.windows[w]) BY <1>1 DEF Sound
    <2>2. p.windows[w].queue = << >> BY DEF IInv
    <2>3. QED BY <1>7, <2>1, <2>2 DEF Awaits
  <1>10. QED BY <1>3, <1>4, <1>5, <1>6, <1>8, <1>9 DEF ProcessorInv, FramesCome

(* In every scenario, with any number of windows, events, timers and inputs, the timers
   belong to open windows, a bar that waits for nothing has the lines of its message, and
   all windows have the configuration that was read last with their own options. *)
THEOREM ProcessorStaysSound == Spec => []ProcessorInv
  BY InvInit, InvNext, InvImplies, PTL DEF Spec

(* In every scenario no frame is lost: a window that waits with something to draw has asked
   for it, or waits for a frame that is timed or on its way. *)
THEOREM ProcessorFramesCome == Spec => []FramesCome
  BY InvInit, InvNext, InvImplies, PTL DEF Spec
===============================================================================
