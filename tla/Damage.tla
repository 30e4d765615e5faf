-------------------------------- MODULE Damage --------------------------------
(***************************************************************************)
(* The damage of frames (cutty/src/display/damage.rs, and where            *)
(* Display::draw records it): which lines and which rectangles of pixels   *)
(* differ from the frame before.                                           *)
(*                                                                         *)
(* A tracker is [frames, old_vi, old_selection]: the damage of this frame  *)
(* and of the next one, and what was drawn last.  A frame is [full, lines, *)
(* rects]; the damage of a line is its columns left..right.  An optional   *)
(* value is a sequence of at most one.  `size` is SizeInfo: [lines,        *)
(* columns, bar, cellWidth, cellHeight, padding], `bar` the lines below    *)
(* the text; the y axis of a rectangle points up.                          *)
(***************************************************************************)
EXTENDS Index, Sequences, FiniteSets, FiniteSetsExt, SequencesExt

Width(size)  == 2 * size.padding + size.columns * size.cellWidth
Height(size) == 2 * size.padding + (size.lines + size.bar) * size.cellHeight

(* LineDamageBounds *)
Bounds(left, right) == [left |-> left, right |-> right]
Expanded(bounds, left, right) == Bounds(Smaller(bounds.left, left), Larger(bounds.right, right))
is_damaged(bounds) == bounds.left <= bounds.right
InBounds(bounds, column) == bounds.left <= column /\ column <= bounds.right

(* FrameDamage *)
reset_frame(size) ==
  [full |-> FALSE, lines |-> [l \in 0..(size.lines - 1) |-> Bounds(size.columns, 0)], rects |-> << >>]
damage_line(f, line, left, right) == [f EXCEPT !.lines[line] = Expanded(@, left, right)]
damage_frame_point(f, p) == damage_line(f, p.line, p.column, p.column)
(* damage_line for each span [line, left, right]; damage_frame_point for each point. *)
damage_spans(f, spans) ==
  LET On(l) == {o \in spans : o.line = l}
  IN  [f EXCEPT !.lines = [l \in DOMAIN f.lines |->
         IF On(l) = {} THEN f.lines[l]
         ELSE Expanded(f.lines[l], Min({o.left : o \in On(l)}), Max({o.right : o \in On(l)}))]]
damage_points(f, points) ==
  damage_spans(f, {[line |-> p.line, left |-> p.column, right |-> p.column] : p \in points})
mark_frame_damaged(f) == [f EXCEPT !.full = TRUE]
viewport_y_to_damage_y(size, y, height) == Height(size) - y - height
add_viewport_rect(f, size, x, y, width, height) ==
  [f EXCEPT !.rects = Append(@, [x |-> x, y |-> viewport_y_to_damage_y(size, y, height), width |-> width, height |-> height])]
intersects(f, first, last) ==
  \/ f.full
  \/ InBounds(f.lines[first.line], first.column)
  \/ InBounds(f.lines[last.line], last.column)
  \/ \E l \in (first.line + 1)..(last.line - 1) : is_damaged(f.lines[l])
-------------------------------------------------------------------------------
(* DamageTracker *)
resize_tracker(t, size) ==
  [t EXCEPT !.frames = << mark_frame_damaged(reset_frame(size)), reset_frame(size) >>]
NewTracker(size) == resize_tracker([frames |-> << >>, old_vi |-> << >>, old_selection |-> << >>], size)

(* Mutant of swap_damage: nothing is kept for the next frame. *)
swap_damage_Forgets(t, size) == [t EXCEPT !.frames = << reset_frame(size), reset_frame(size) >>]

swap_damage(t, size) == [t EXCEPT !.frames = << @[2], reset_frame(size) >>]
WithFrame(t, f) == [t EXCEPT !.frames = << f, @[2] >>]

damage_vi_cursor(t, vi) ==
  LET now == [t EXCEPT !.old_vi = vi]
  IN  IF t.frames[1].full THEN now
      ELSE WithFrame(now, damage_points(t.frames[1], ToSet(vi) \union ToSet(t.old_vi)))

(* The lines of the screen that a selection, in lines of the grid, is on. *)
SelectedLines(selection, offset, size) ==
  LET last == size.lines - 1
      start == selection.start.line
      end  == selection.end.line + offset
  IN  IF end < 0 \/ (IF start < 0 THEN -start ELSE start) < offset - last THEN {}
      ELSE Larger(start + offset, 0)..Larger(0, Smaller(end, last))

damage_selection(t, selection, offset, size) ==
  LET now == [t EXCEPT !.old_selection = selection]
      hit == UNION {SelectedLines(r, offset, size) : r \in ToSet(selection) \union ToSet(t.old_selection)}
  IN  IF t.frames[1].full \/ selection = t.old_selection THEN now
      ELSE WithFrame(now, damage_spans(t.frames[1], {[line |-> l, left |-> 0, right |-> size.columns - 1] : l \in hit}))
-------------------------------------------------------------------------------
(* RenderDamageIterator *)
rect_for_line(size, line, bounds) ==
  [x |-> size.padding + bounds.left * size.cellWidth,
   y |-> Height(size) - size.padding - (line + 1) * size.cellHeight,
   width |-> (bounds.right - bounds.left + 1) * size.cellWidth, height |-> size.cellHeight]
overdamage(size, r) ==
  LET x == Larger(r.x - size.cellWidth, 0)
      y == Larger(r.y - size.cellHeight \div 2, 0)
  IN  [x |-> x, width |-> Smaller(Larger(Width(size) - x, 0), r.width + 2 * size.cellWidth),
       y |-> y, height |-> Smaller(Larger(Height(size) - y, 0), r.height + size.cellHeight)]
rects_overlap(a, b) ==
  ~(a.x + a.width < b.x \/ b.x + b.width < a.x \/ a.y + a.height < b.y \/ b.y + b.height < a.y)

merge_rects(a, b) ==
  LET x == Smaller(a.x, b.x)
      y == Smaller(a.y, b.y)
  IN  [x |-> x, width |-> Larger(a.x + a.width, b.x + b.width) - x,
       y |-> y, height |-> Larger(a.y + a.height, b.y + b.height) - y]

(* RenderDamageIterator::next: a rectangle takes in the following lines while they overlap it. *)
LineRects(f, size) ==
  LET Rect(l) == overdamage(size, rect_for_line(size, l, f.lines[l]))
      upto[n \in 0..size.lines] ==
        IF n = 0 THEN << >>
        ELSE LET rects == upto[n - 1]
                 last  == Len(rects)
             IN  IF ~is_damaged(f.lines[n - 1]) THEN rects
                 ELSE IF last > 0 /\ rects_overlap(rects[last], Rect(n - 1))
                   THEN [rects EXCEPT ![last] = merge_rects(@, Rect(n - 1))]
                   ELSE Append(rects, Rect(n - 1))
  IN  upto[size.lines]

shape_frame_damage(f, size) ==
  IF f.full THEN << [x |-> 0, y |-> 0, width |-> Width(size), height |-> Height(size)] >>
  ELSE LineRects(f, size) \o f.rects
damage_y_to_viewport_y(size, r) == Height(size) - r.y - r.height
===============================================================================
