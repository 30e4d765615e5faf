-------------------------------- MODULE Search --------------------------------
(***************************************************************************)
(* Finding text in the grid (term/search.rs) and copying it out of it      *)
(* (Term::bounds_to_string in term/mod.rs).                                *)
(*                                                                         *)
(* The cells of the grid are numbered in reading order from 0: a loop over *)
(* GridIterator is then a choice among the numbers it goes through.  The   *)
(* regex is a word, the automaton that recognizes it is regex_automata's.  *)
(***************************************************************************)
EXTENDS Reflow

Pos(g, p) == (p.line - topmost_line(dims(g))) * g.columns + p.column
At(g, k)  == Point(k \div g.columns + topmost_line(dims(g)), k % g.columns)
Cells(g)  == 0..(Len(g.rows) * g.columns - 1)
Nth(g, k) == g.rows[k \div g.columns + 1].inner[(k % g.columns) + 1]

Least(S)    == CHOOSE k \in S : \A j \in S : k <= j
Greatest(S) == CHOOSE k \in S : \A j \in S : k >= j

IsSpacer(cell) == cell.flags \intersect Spacers # {}
LineEnds(g, k) == k % g.columns = g.columns - 1 /\ ~Has(Nth(g, k), "WRAPLINE")
Contains1(g, k, needles) == ~IsSpacer(Nth(g, k)) /\ Nth(g, k).c \in needles

(* Term::expand_wide *)
expand_wide(g, p, direction) ==
  LET cell == CellAt(g, p)
      base == IF Has(cell, "WIDE_CHAR_SPACER") THEN Point(p.line, p.column - 1) ELSE p
      prev == point_sub(base, dims(g), "Grid", 1)
  IN  CASE direction = "Right" /\ Has(cell, "LEADING_WIDE_CHAR_SPACER") -> Point(p.line + 1, 1)
        [] direction = "Right" /\ Has(cell, "WIDE_CHAR") ->
             Point(p.line, Smaller(p.column + 1, last_column(dims(g))))
        [] direction = "Left" /\ (Has(cell, "WIDE_CHAR") \/ Has(cell, "WIDE_CHAR_SPACER")) ->
             IF Has(CellAt(g, prev), "LEADING_WIDE_CHAR_SPACER") THEN prev ELSE base
        [] OTHER -> p

(* Term::inline_search_left and inline_search_right: the next of the needles
   on this line, or where the line ends. *)
inline_search_left(g, p, needles) ==
  LET k     == Pos(g, p)
      ends  == {j \in Cells(g) : j < k /\ LineEnds(g, j)}
      first == IF ends = {} THEN 0 ELSE Greatest(ends) + 1
      found == {j \in first..(k - 1) : Contains1(g, j, needles)}
  IN  IF found # {} THEN [ok |-> TRUE, point |-> At(g, Greatest(found))]
                    ELSE [ok |-> FALSE, point |-> At(g, Smaller(first, k))]

inline_search_right(g, p, needles) ==
  LET k     == Pos(g, p)
      ends  == {j \in Cells(g) : j > k /\ LineEnds(g, j)}
      last  == IF ends = {} THEN Greatest(Cells(g)) ELSE Least(ends)
      found == {j \in (k + 1)..last : Contains1(g, j, needles)}
  IN  IF LineEnds(g, k) THEN [ok |-> FALSE, point |-> p]
      ELSE IF found # {} THEN [ok |-> TRUE, point |-> At(g, Least(found))]
                         ELSE [ok |-> FALSE, point |-> At(g, last)]

(* Term::semantic_search_left and semantic_search_right: the ends of the word
   at a point; a separator that was found is not part of it. *)
semantic_search_left(g, p, escape_chars) ==
  LET r    == inline_search_left(g, p, escape_chars)
      next == {j \in Cells(g) : j > Pos(g, r.point) /\ ~IsSpacer(Nth(g, j))}
  IN  IF r.ok /\ next # {} THEN At(g, Least(next)) ELSE r.point

semantic_search_right(g, p, escape_chars) ==
  LET r == inline_search_right(g, p, escape_chars)
  IN  IF r.ok THEN At(g, Larger(Pos(g, r.point) - 1, 0)) ELSE r.point

(* Term::line_search_left and line_search_right *)
line_search_left(g, p) ==
  LET k    == Pos(g, Point(p.line, 0))
      ends == {j \in Cells(g) : j < k /\ LineEnds(g, j)}
  IN  At(g, IF ends = {} THEN 0 ELSE Greatest(ends) + 1)

line_search_right(g, p) ==
  LET ends == {j \in Cells(g) : j >= Pos(g, p) /\ LineEnds(g, j)}
  IN  At(g, IF ends = {} THEN Greatest(Cells(g)) ELSE Least(ends))

(* Selection::range_lines *)
range_lines(g, start, end) == << line_search_left(g, start), line_search_right(g, end) >>

BRACKET_PAIRS == << << "(", ")" >>, << "[", "]" >>, << "{", "}" >>, << "<", ">" >> >>

(* Term::bracket_search: the first opposite bracket with as many brackets of
   each kind before it; the point itself without one. *)
bracket_search(g, p) ==
  LET c     == CellAt(g, p).c
      Opens(i) == BRACKET_PAIRS[i][1] = c
      pairs == {i \in DOMAIN BRACKET_PAIRS : c \in {BRACKET_PAIRS[i][1], BRACKET_PAIRS[i][2]}}
      i     == CHOOSE j \in pairs : TRUE
      other == IF Opens(i) THEN BRACKET_PAIRS[i][2] ELSE BRACKET_PAIRS[i][1]
      k     == Pos(g, p)
      Between(j) == IF j > k THEN (k + 1)..(j - 1) ELSE (j + 1)..(k - 1)
      Count(j, ch) == Cardinality({n \in Between(j) : Nth(g, n).c = ch})
      there == {j \in Cells(g) : /\ IF Opens(i) THEN j > k ELSE j < k
                                 /\ Nth(g, j).c = other /\ Count(j, c) = Count(j, other)}
  IN  IF pairs = {} \/ there = {} THEN p ELSE At(g, IF Opens(i) THEN Least(there) ELSE Greatest(there))

(* Selection::range_semantic: between two brackets, or of whole words. *)
range_semantic(g, start, end, escape_chars) ==
  LET matching == bracket_search(g, start)
  IN  IF start = end /\ matching # start
        THEN IF Before(matching, start) THEN << matching, start >> ELSE << start, matching >>
      ELSE << semantic_search_left(g, start, escape_chars), semantic_search_right(g, end, escape_chars) >>
-------------------------------------------------------------------------------
(* Term::regex_search_right and regex_search_left: the next match of a word
   from one cell to another, around the ends of the grid.  A match does not go
   over the end of a line, and takes the spacers of its characters along. *)
Chars(g)   == SelectSeq([k \in 1..Cardinality(Cells(g)) |-> k - 1], LAMBDA k : ~IsSpacer(Nth(g, k)))
Occurrences(g, word) ==
  LET cs == Chars(g)
      Matches(i) == \A n \in DOMAIN word : Nth(g, cs[i + n - 1]).c = word[n]
      Joined(i)  == \A k \in cs[i]..(cs[i + Len(word) - 1] - 1) : ~LineEnds(g, k)
  IN  {[start |-> Pos(g, expand_wide(g, At(g, cs[i]), "Left")),
        end   |-> Pos(g, expand_wide(g, At(g, cs[i + Len(word) - 1]), "Right"))] :
         i \in {j \in 1..(Len(cs) - Len(word) + 1) : Matches(j) /\ Joined(j)}}

Ahead(g, from, to)  == (to - from) % Cardinality(Cells(g))
Behind(g, from, to) == (from - to) % Cardinality(Cells(g))

regex_search(g, word, direction, start, end) ==
  LET Far(k)  == IF direction = "Right" THEN Ahead(g, start, k) ELSE Behind(g, start, k)
      Within(m) == IF direction = "Right" THEN Far(m.start) <= Far(m.end) /\ Far(m.end) <= Far(end)
                                          ELSE Far(m.end) <= Far(m.start) /\ Far(m.start) <= Far(end)
      found == {m \in Occurrences(g, word) : Within(m)}
      Near(m) == IF direction = "Right" THEN Far(m.end) ELSE Far(m.start)
  IN  IF found = {} THEN <<>> ELSE << CHOOSE m \in found : \A n \in found : Near(m) <= Near(n) >>

(* RegexIter: the matches one after the other; after a match the search goes
   on behind it, until it has come to the end. *)
RECURSIVE RegexIter(_, _, _, _, _)
RegexIter(g, word, direction, point, end) ==
  LET Skip(p) == Pos(g, IF direction = "Right" THEN point_add(p, dims(g), "None", 1)
                                              ELSE point_sub(p, dims(g), "None", 1))
      From(found) ==
        IF found = <<>> THEN <<>>
        ELSE IF point = end \/ found[1].end = end THEN found
        ELSE found \o RegexIter(g, word, direction, Skip(expand_wide(g, At(g, found[1].end), direction)), end)
  IN  From(regex_search(g, word, direction, point, end))

(* Mutant of search_next: the first match of the line, before the origin or not. *)
search_next_AnyOnLine(g, word, at, direction, side) ==
  LET right == direction = "Right"
      start == IF right THEN line_search_left(g, at) ELSE line_search_right(g, at)
      end   == IF right THEN point_sub(start, dims(g), "None", 1) ELSE point_add(start, dims(g), "None", 1)
      all   == RegexIter(g, word, direction, Pos(g, start), Pos(g, end))
  IN  IF all = <<>> THEN <<>> ELSE << all[1] >>

(* Term::search_next: matches are enumerated from the beginning (or the end)
   of the line the origin is on, and the first one beyond the origin taken. *)
search_next(g, word, at, direction, side) ==
  LET origin == expand_wide(g, at, direction)
      right  == direction = "Right"
      start  == IF right THEN line_search_left(g, origin) ELSE line_search_right(g, origin)
      end    == IF right THEN point_sub(start, dims(g), "None", 1) ELSE point_add(start, dims(g), "None", 1)
      Side(m) == At(g, IF side = "Right" THEN m.end ELSE m.start)
      Beyond(p) == IF right
        THEN p.line < start.line \/ p.line > origin.line \/ (p.line = origin.line /\ p.column >= origin.column)
        ELSE p.line > start.line \/ p.line < origin.line \/ (p.line = origin.line /\ p.column <= origin.column)
      First(all) ==
        IF all = <<>> THEN <<>> ELSE << Head(SelectSeq(all, LAMBDA m : Beyond(Side(m))) \o all) >>
  IN  First(RegexIter(g, word, direction, Pos(g, start), Pos(g, end)))
-------------------------------------------------------------------------------
NewLine == "\n"

(* Term::line_to_string, without tabs and zero-width characters: the cells up
   to the last used one, a line break unless the line wraps, and the wide
   character that a selected filler stands for.  That is looked for in the line
   before; above the first line there is none to read. *)
line_to_string(g, line, from, to, include_wrapped_wide) ==
  LET row    == RowAt(g, line)
      length == Smaller(line_length(row), to + 1)
      start  == IF Has(row.inner[from + 1], "WIDE_CHAR_SPACER") THEN from - 1 ELSE from
      text   == SelectSeq(SubSeq(row.inner, start + 1, length), LAMBDA cell : ~IsSpacer(cell))
      breaks == to >= g.columns - 1 /\ (length = 0 \/ ~Has(row.inner[length], "WRAPLINE"))
      filler == /\ length = g.columns /\ length >= 2 /\ include_wrapped_wide
                /\ Has(row.inner[length], "LEADING_WIDE_CHAR_SPACER") /\ line > topmost_line(dims(g))
  IN  [i \in DOMAIN text |-> text[i].c] \o (IF breaks THEN << NewLine >> ELSE <<>>)
        \o (IF filler THEN << CellAt(g, Point(line - 1, 0)).c >> ELSE <<>>)

(* Term::bounds_to_string: the lines from one point to another, without the
   line break after the last one. *)
bounds_to_string(g, start, end) ==
  LET lines == [i \in 1..(end.line - start.line + 1) |-> start.line + i - 1]
      String(l) == line_to_string(g, l, IF l = start.line THEN start.column ELSE 0,
                                  IF l = end.line THEN end.column ELSE last_column(dims(g)), l = end.line)
      all == FoldLeft(LAMBDA s, l : s \o String(l), <<>>, lines)
  IN  IF all # <<>> /\ Last(all) = NewLine THEN Front(all) ELSE all
-------------------------------------------------------------------------------
(* The matches that hints are shown at and that the mouse highlights
   (cutty/src/display/hint.rs).  A match is [start, end], numbers of cells. *)
MAX_SEARCH_LINES == 100

(* visible_regex_match_iter *)
visible_regex_match_iter(g, word) ==
  LET first == -g.offset
      last  == first + bottommost_line(dims(g))
      left  == line_search_left(g, Point(first, 0))
      right == line_search_right(g, Point(last, 0))
      from  == Point(Larger(left.line, first - MAX_SEARCH_LINES), left.column)
      to    == Point(Smaller(right.line, last + MAX_SEARCH_LINES), right.column)
  IN  SelectSeq(RegexIter(g, word, "Right", Pos(g, from), Pos(g, to)),
                LAMBDA m : At(g, m.end).line >= first /\ At(g, m.start).line <= last)

(* HintPostProcessor::hint_post_processing: a match ends before a bracket that
   closes nothing, or else before the delimiters at its end. *)
Delimiters == {".", ",", ":", ";", "?", "!", "(", "[", "'"}
hint_post_processing(g, m) ==
  LET Count(c, k) == Cardinality({j \in m.start..(k - 1) : Nth(g, j).c = c})
      closing == {k \in m.start..m.end : \E b \in {<< "(", ")" >>, << "[", "]" >>} :
                    Nth(g, k).c = b[2] /\ Count(b[1], k) = Count(b[2], k)}
      kept    == {k \in m.start..m.end : k = m.start \/ Nth(g, k).c \notin Delimiters}
      end     == IF closing = {} THEN Greatest(kept) ELSE Larger(Least(closing) - 1, 0)
  IN  IF m.start > end THEN << >> ELSE << [start |-> m.start, end |-> end] >>

(* HintPostProcessor: the processed matches inside of one, which ends at `end`.
   The search goes on behind a match, in the cell before which the grid ends too. *)
RECURSIVE HintPostProcessor(_, _, _, _)
HintPostProcessor(g, word, m, end) ==
  LET Search(next) == IF next > end THEN << >> ELSE regex_search(g, word, "Right", next, end)
      Rest(found) == IF found = << >> THEN << >> ELSE HintPostProcessor(g, word, found[1], end)
      From(processed) ==
        LET behind == IF processed = << >> THEN m.start ELSE processed[1].end
        IN  processed \o Rest(Search(Smaller(behind + 1, Greatest(Cells(g)))))
  IN  From(hint_post_processing(g, m))

Covers(m, k) == m.start <= k /\ k <= m.end

(* regex_match_at, with post-processing *)
regex_match_at(g, word, k) ==
  LET Covering(ms) == SelectSeq(ms, LAMBDA m : Covers(m, k))
      First(ms) == SubSeq(ms, 1, Smaller(1, Len(ms)))
      Processed(raw) == IF raw = << >> THEN << >> ELSE HintPostProcessor(g, word, raw[1], raw[1].end)
  IN  First(Covering(Processed(Covering(visible_regex_match_iter(g, word)))))
===============================================================================
