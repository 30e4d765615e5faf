------------------------------ MODULE DamageSpec ------------------------------
(***************************************************************************)
(* A window that draws frames while what it shows changes: the text, the   *)
(* scroll position, the vi mode cursor, the selection, the highlighted     *)
(* hints, and what is painted over the text.                               *)
(***************************************************************************)
EXTENDS Damage

CONSTANTS Sizes,          \* SizeInfo of the window
          ViCursors,      \* where the vi mode cursor goes: points of the screen
          SelectedRanges, \* [start, end]
          HintRanges,     \* [start, end]
          PrintedCells,   \* where the program prints
          MaxOffset,      \* how far the view scrolls
          MaxChanges      \* changes between two frames

(* A window has a line and a column at least, cells have an extent. *)
ASSUME DamageAssumption ==
  /\ Sizes # {}
  /\ Sizes \subseteq [lines : Nat \ {0}, columns : Nat \ {0}, bar : Nat,
                     cellWidth : Nat \ {0}, cellHeight : Nat \ {0}, padding : Nat]
  /\ LET Places == [line : Int, column : Int]
     IN  SelectedRanges \union HintRanges \subseteq [start : Places, end : Places]
  /\ MaxOffset \in Nat /\ MaxChanges \in Nat

VARIABLES tracker,
          screen,   \* [size, offset, vi, selection, hint, viHint, hintAge, viHintAge, overlay,
                    \*  preedit, damage, changes]: see Show and the actions
          shown,    \* what the last frame shows, or nothing
          submitted \* the damage of the last frame, until something changes

damageVars == << tracker, screen, shown, submitted >>

Cells(size) == [line : 0..(size.lines - 1), column : 0..(size.columns - 1)]
Within(range, p) == ~Before(p, range.start) /\ ~Before(range.end, p)
Option(values) == {<< >>} \union {<< v >> : v \in values}

(* point_to_viewport and viewport_to_point *)
point_to_viewport(offset, p) == IF p.line + offset < 0 THEN << >> ELSE << Point(p.line + offset, p.column) >>
viewport_to_point(offset, p) == Point(p.line - offset, p.column)
CellsOf(s, option) == {p \in Cells(s.size) : \E r \in ToSet(option) : Within(r, viewport_to_point(s.offset, p))}
ViPoint(s) == IF s.vi = << >> THEN << >> ELSE point_to_viewport(s.offset, s.vi[1])

(* What is painted over the text: the line indicator of vi mode, in the right half of
   the first line, and the text of an input method, in the line of the cursor. *)
Indicator(s) == IF s.vi = << >> THEN {} ELSE {[line |-> 0, left |-> s.size.columns \div 2, right |-> s.size.columns - 1]}
Preview(s) ==
  LET at == IF s.vi = << >> THEN point_to_viewport(s.offset, Point(0, 0)) ELSE ViPoint(s)
  IN  {[line |-> p.line, left |-> 0, right |-> s.size.columns] :
         p \in {q \in ToSet(at) : s.preedit /\ q.line < s.size.lines}}
Painted(s) == Indicator(s) \union Preview(s)

Show(s) ==
  [vi |-> ToSet(ViPoint(s)), selected |-> CellsOf(s, s.selection),
   underlined |-> CellsOf(s, s.hint) \union CellsOf(s, s.viHint), overlay |-> s.overlay,
   painted |-> {p \in Cells(s.size) : \E o \in Painted(s) : p.line = o.line /\ InBounds(o, p.column)}]
Unknown == [vi |-> {}, selected |-> {}, underlined |-> {}, overlay |-> TRUE, painted |-> {}]

DamageInit ==
  /\ screen = [size |-> CHOOSE size \in Sizes : TRUE, offset |-> 0, vi |-> << >>, selection |-> << >>,
               hint |-> << >>, viHint |-> << >>, hintAge |-> 0, viHintAge |-> 0, overlay |-> FALSE,
               preedit |-> FALSE, damage |-> reset_frame(CHOOSE size \in Sizes : TRUE), changes |-> 0]
  /\ tracker = NewTracker(screen.size) /\ shown = Unknown
  /\ submitted = << >>
-------------------------------------------------------------------------------
(* TermDamage *)
apply_damage(f, s) ==
  IF s.damage.full THEN mark_frame_damaged(f)
  ELSE [f EXCEPT !.lines = [l \in DOMAIN f.lines |->
         IF l >= s.offset THEN Expanded(f.lines[l], s.damage.lines[l - s.offset].left, s.damage.lines[l - s.offset].right)
                          ELSE f.lines[l]]]

(* Display::validate_hint_highlights for one of the two hints: [frame, hint, age].
   Ages above 2 are the same. *)
validate_hint_highlight(f, s, hint, age) ==
  LET InView(p) == SelectSeq(point_to_viewport(s.offset, p), LAMBDA q : q.line < s.size.lines)
      first == (InView(hint[1].start) \o << Point(0, 0) >>)[1]
      last  == (InView(hint[1].end) \o << Point(s.size.lines - 1, s.size.columns - 1) >>)[1]
  IN  IF hint = << >> THEN [frame |-> f, hint |-> hint, age |-> age]
      ELSE IF age >= 1 /\ intersects(f, first, last) THEN [frame |-> mark_frame_damaged(f), hint |-> << >>, age |-> 2]
      ELSE [frame |-> f, hint |-> hint, age |-> Smaller(age + 1, 2)]

(* What Display::draw adds to the damage of the terminal and of dropped hints. *)
Decorate(t1, s) ==
  LET t2 == IF s.overlay THEN [t1 EXCEPT !.frames = << mark_frame_damaged(@[1]), mark_frame_damaged(@[2]) >>] ELSE t1
      t3 == damage_selection(damage_vi_cursor(t2, ViPoint(s)), s.selection, s.offset, s.size)
      t4 == WithFrame(t3, damage_points(t3.frames[1], CellsOf(s, s.hint) \union CellsOf(s, s.viHint)))
      t5 == [t4 EXCEPT !.frames = << damage_spans(@[1], Painted(s)), damage_spans(@[2], Painted(s)) >>]
      top == s.size.padding + s.size.lines * s.size.cellHeight
  IN  IF s.size.bar = 0 THEN t5
      ELSE WithFrame(t5, add_viewport_rect(t5.frames[1], s.size, 0, top, Width(s.size), Height(s.size) - top))

(* Display::draw *)
DrawFrame ==
  \E h \in {validate_hint_highlight(apply_damage(tracker.frames[1], screen), screen, screen.hint, screen.hintAge)} :
  \E v \in {validate_hint_highlight(h.frame, screen, screen.viHint, screen.viHintAge)} :
  \E s \in {[screen EXCEPT !.hint = h.hint, !.hintAge = h.age, !.viHint = v.hint, !.viHintAge = v.age,
                          !.damage = reset_frame(screen.size), !.changes = 0]} :
  \E drawn_tracker \in {Decorate(WithFrame(tracker, v.frame), s)} :
    /\ screen' = s /\ tracker' = swap_damage(drawn_tracker, s.size)
    /\ submitted' = << drawn_tracker.frames[1] >> /\ shown' = Show(s)

(* The changes between two frames. *)
Change(s) == screen.changes < MaxChanges /\ screen' = [s EXCEPT !.changes = @ + 1] /\ submitted' = << >> /\ UNCHANGED shown
ShowElse(s) == Change(s) /\ UNCHANGED tracker

(* The program prints (see ScreenSpec). *)
PrintCell ==
  \E p \in PrintedCells \intersect Cells(screen.size) :
    ShowElse([screen EXCEPT !.damage = damage_frame_point(@, p)])
(* Term::scroll_display *)
ScrollView ==
  \E offset \in (0..MaxOffset) \ {screen.offset} :
    LET Clamped(p) == Point(Larger(-offset, Smaller(screen.size.lines - 1 - offset, p.line)), p.column)
    IN  ShowElse([screen EXCEPT !.offset = offset, !.damage = mark_frame_damaged(@),
                                !.vi = IF @ = << >> THEN @ ELSE << Clamped(@[1]) >>])
(* Term::toggle_vi_mode and Term::vi_motion: the cursor stays in view. *)
MoveVi ==
  \E vi \in Option({viewport_to_point(screen.offset, p) : p \in ViCursors \intersect Cells(screen.size)}) \ {screen.vi} :
    ShowElse([screen EXCEPT !.vi = vi])
Select == \E selection \in Option(SelectedRanges) \ {screen.selection} : ShowElse([screen EXCEPT !.selection = selection])
(* The visual bell, hint mode and search repaint the window. *)
Overlay == ShowElse([screen EXCEPT !.overlay = ~@])
Compose == ShowElse([screen EXCEPT !.preedit = ~@])

(* Display::update_highlighted_hints, with the hints that are found at the cursors;
   how the window looks otherwise and whether it is dirty is left out. *)
update_highlighted_hints ==
  \E viHint \in IF screen.vi = << >> THEN {<< >>} ELSE Option(HintRanges), hint \in Option(HintRanges) :
    /\ Change([screen EXCEPT !.viHint = viHint, !.viHintAge = 0, !.hint = hint, !.hintAge = 0])
    /\ tracker' = IF << viHint, hint >> = << screen.viHint, screen.hint >> THEN tracker
                  ELSE WithFrame(tracker, mark_frame_damaged(tracker.frames[1]))

(* Display::handle_update *)
ResizeWindow ==
  \E size \in Sizes \ {screen.size} :
    /\ screen.changes < MaxChanges
    /\ screen' = [screen EXCEPT !.size = size, !.offset = 0, !.vi = << >>, !.selection = << >>,
                                !.damage = mark_frame_damaged(reset_frame(size)), !.changes = @ + 1]
    /\ tracker' = resize_tracker(tracker, size) /\ shown' = Unknown /\ submitted' = << >>

DamageNext ==
  \/ DrawFrame \/ PrintCell \/ ScrollView \/ MoveVi \/ Select \/ Overlay \/ Compose
  \/ update_highlighted_hints \/ ResizeWindow

FramesSpec == DamageInit /\ [][DamageNext]_damageVars
-------------------------------------------------------------------------------
Differs(old, s) ==
  LET new == Show(s)
  IN  IF old.overlay \/ new.overlay THEN Cells(s.size)
      ELSE SymDiff(old.vi, new.vi) \union SymDiff(old.selected, new.selected) \union
           SymDiff(old.underlined, new.underlined) \union old.painted \union new.painted
DamagedCells(f, size) == {p \in Cells(size) : f.full \/ InBounds(f.lines[p.line], p.column)}

\* The damage of a frame has every cell that looks different from the frame before, whatever
\* has changed in between and in which order: decorations are compared with those drawn last,
\* not with those of the last change, and what is painted over the text is damaged twice, so
\* that it is removed too.
ChangesAreDamaged ==
  submitted' # << >> =>
    Differs(shown, screen') \union DamagedCells(apply_damage(reset_frame(screen.size), screen), screen.size)
      \subseteq DamagedCells(submitted'[1], screen.size)

\* The rectangles of a frame contain all damaged cells and the message bar, also where those
\* of neighbouring lines are merged or cut off at the border of the window.
RectsCoverDamage ==
  LET size  == screen.size
      rects == ToSet(shape_frame_damage(submitted[1], size))
      Covered(x, y, width, height) ==
        \E r \in rects : /\ r.x <= x /\ x + width <= r.x + r.width
                         /\ damage_y_to_viewport_y(size, r) <= y
                         /\ y + height <= damage_y_to_viewport_y(size, r) + r.height
  IN  submitted # << >> =>
        /\ \A p \in DamagedCells(submitted[1], size) :
             Covered(size.padding + p.column * size.cellWidth, size.padding + p.line * size.cellHeight,
                     size.cellWidth, size.cellHeight)
        /\ size.bar > 0 =>
             LET top == size.padding + size.lines * size.cellHeight
             IN  Covered(0, top, Width(size), Height(size) - top)

\* Every cell that a frame changes is in the damage, and in the rectangles, that the
\* compositor is given for it.
DamageCovers == [][ChangesAreDamaged /\ RectsCoverDamage']_damageVars
===============================================================================
