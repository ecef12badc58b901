------------------------------ MODULE EditText ------------------------------
(***************************************************************************)
(* How the edit tool finds the text to replace (file/edit/fuzzy.rs) and    *)
(* gives the file back its line ends (textutil.rs).  A text is a sequence  *)
(* of characters: "n" and "r" end lines, "s" is blank, the others are      *)
(* letters.  Five ways of matching are tried in order, each less exact     *)
(* than the one before; the first that finds something decides.            *)
(***************************************************************************)
EXTENDS Integers, Sequences, SequencesExt, FiniteSetsExt

CONSTANTS
  Char,        \* characters
  MaxContent,  \* bound: characters of a file
  MaxOld,      \* bound: characters of the text to replace
  New          \* texts to put in its place

VARIABLES
  file,  \* the text of the file
  edit   \* the last edit: [before, old, new, all, way, matches]

vars == <<file, edit>>

Text(n) == UNION {[1..k -> Char] : k \in 0..n}
Ways == <<"exact", "newline_normalized", "line_trimmed", "indentation_flexible", "block_anchor">>
Way == ToSet(Ways) \union {"none", "error", "panic"}
TypeOK == file \in Seq(Char \union UNION {ToSet(t) : t \in New}) /\ edit.way \in Way /\ edit.all \in BOOLEAN
NoEdit == [before |-> <<>>, old |-> <<>>, new |-> <<>>, all |-> FALSE, way |-> "none", matches |-> {}]
Init == file \in Text(MaxContent) /\ edit = NoEdit

(***************************************************************************)
(* Lines                                                                   *)
(***************************************************************************)
\* split('\n')
Lines(text) ==
  FoldLeft(LAMBDA ls, c : IF c = "n" THEN Append(ls, <<>>) ELSE Front(ls) \o <<Append(Last(ls), c)>>,
           <<<<>>>>, text)
\* join("\n")
Joined(ls) == Tail(FoldLeft(LAMBDA text, l : text \o <<"n">> \o l, <<>>, ls))
Blank == {"s", "r", "n"}
TrimStart(l) == IF \A i \in 1..Len(l) : l[i] \in Blank THEN <<>>
                ELSE SubSeq(l, Min({i \in 1..Len(l) : l[i] \notin Blank}), Len(l))
Trim(l) == Reverse(TrimStart(Reverse(TrimStart(l))))
TrimCr(l) == IF l # <<>> /\ Last(l) = "r" THEN Front(l) ELSE l
\* What a way of matching keeps of a line before it compares it.
Kept(way, l) == CASE way = "newline_normalized" -> TrimCr(l)
                  [] way = "line_trimmed" -> Trim(l)
                  [] way = "indentation_flexible" -> TrimStart(l)
Each(way, ls) == [i \in 1..Len(ls) |-> Kept(way, ls[i])]
\* A match is a place in the text and a length.  lines_to_match: a block of lines reaches
\* to the start of the line after it, or to the end of the text.
Offset(ls, n) == FoldLeft(LAMBDA sum, l : sum + Len(l) + 1, 0, SubSeq(ls, 1, n))
Least(a, b) == IF a < b THEN a ELSE b
Block(text, ls, i, n) ==
  LET start == Offset(ls, i)
      end == Least(Offset(ls, Least(i + n, Len(ls))), Len(text))
  IN [at |-> start, len |-> end - start]

(***************************************************************************)
(* The five ways                                                           *)
(***************************************************************************)
\* Matches may overlap: the search goes on one character after each of them.
Exact(text, old) ==
  {[at |-> i, len |-> Len(old)] :
     i \in {j \in 0 .. Len(text) - Len(old) : SubSeq(text, j + 1, j + Len(old)) = old}}
\* Blocks of lines that are equal in what is kept of every line.
Alike(way, text, old) ==
  LET ls == Lines(text) pattern == Each(way, Lines(old)) n == Len(pattern)
  IN {Block(text, ls, i, n) :
        i \in {j \in 0 .. Len(ls) - n : Each(way, SubSeq(ls, j + 1, j + n)) = pattern}}
NewlineNormalized(text, old) ==
  IF "r" \notin ToSet(text) \union ToSet(old) THEN {} ELSE Alike("newline_normalized", text, old)

\* The lines two sequences share in order, as TextDiff counts them: the ratio is twice
\* their number over the number of both.
Pick(s, places) ==
  LET order == SetToSortSeq(places, <) IN [i \in 1..Len(order) |-> s[order[i]]]
Shared(a, b) ==
  Max({Cardinality(p) : p \in {q \in SUBSET (1..Len(a)) :
         \E r \in SUBSET (1..Len(b)) : Pick(a, q) = Pick(b, r)}})
Middle(ls, n) == LET m == SubSeq(ls, 2, n - 1) IN IF m = <<<<>>>> THEN <<>> ELSE m
Enough(a, b, percent) ==
  Len(a) + Len(b) = 0 \/ 200 * Shared(a, b) >= percent * (Len(a) + Len(b))
\* First and last line anchor a block; one candidate may differ more in between.
Anchors(ls, pattern) ==
  LET n == Len(pattern)
  IN {i \in 0 .. (IF Len(ls) > n THEN Len(ls) - n ELSE 0) :
        Trim(ls[i + 1]) = Trim(pattern[1])
        /\ (i + n <= Len(ls) => Trim(ls[i + n]) = Trim(pattern[n]))}
\* A text with fewer lines than the pattern is indexed past its end.
Overruns(text, old) ==
  LET ls == Lines(text) pattern == Lines(old)
  IN Len(pattern) >= 2 /\ Len(pattern) > Len(ls) /\ Trim(ls[1]) = Trim(pattern[1])
BlockAnchor(text, old) ==
  LET ls == Lines(text) pattern == Lines(old) n == Len(pattern)
      found == Anchors(ls, pattern)
      percent == IF Cardinality(found) = 1 THEN 50 ELSE 70
  IN IF n < 2 THEN {}
     ELSE {Block(text, ls, i, n) : i \in {j \in found :
             n <= 2 \/ Enough(Middle(SubSeq(ls, j + 1, j + n), n), Middle(pattern, n), percent)}}

Found(way, text, old) ==
  CASE way = "exact" -> Exact(text, old)
    [] way = "newline_normalized" -> NewlineNormalized(text, old)
    [] way = "block_anchor" -> BlockAnchor(text, old)
    [] OTHER -> Alike(way, text, old)

(***************************************************************************)
(* fuzzy_find_and_replace                                                  *)
(***************************************************************************)
\* lines().count(): a line end at the end of the text starts no line.
LineCount(text) == LET ls == Lines(text)
                       n == IF Last(ls) = <<>> THEN Len(ls) - 1 ELSE Len(ls)
                   IN IF n < 1 THEN 1 ELSE n
Disproportionate(found, old) ==
  \/ LineCount(found) >= LineCount(old) + 3 /\ LineCount(found) >= 2 * LineCount(old)
  \/ /\ LineCount(old) > 1
     /\ Len(Trim(found)) > Len(Trim(old)) + 500 /\ Len(Trim(found)) > 4 * Len(Trim(old))
At(text, m) == SubSeq(text, m.at + 1, m.at + m.len)
\* apply_replacements works from the last match to the first.
Replace(text, new, m) ==
  LET end == Least(m.at + m.len, Len(text))
  IN IF m.at >= end THEN text ELSE SubSeq(text, 1, m.at) \o new \o SubSeq(text, end + 1, Len(text))
Replaced(text, matches, new) ==
  FoldLeft(LAMBDA t, m : Replace(t, new, m), text, SetToSortSeq(matches, LAMBDA a, b : a.at > b.at))
\* The first way that finds anything, and what becomes of its matches.
First(hits, overruns) ==
  IF hits # {} THEN Ways[Min(hits)] ELSE IF overruns THEN "panic" ELSE "none"
Deciding(text, old) ==
  First({i \in 1..Len(Ways) : (i < 5 \/ ~Overruns(text, old)) /\ Found(Ways[i], text, old) # {}},
        Overruns(text, old))
Matches(way, text, old) == IF way \in ToSet(Ways) THEN Found(way, text, old) ELSE {}
EditRefused(text, old, new, all, matches) ==
  \/ old = <<>> \/ old = new
  \/ Cardinality(matches) > 1 /\ ~all
  \/ \E m \in matches : Disproportionate(At(text, m), old)
Outcome(text, old, new, all, way, matches) ==
  LET refused == EditRefused(text, old, new, all, matches)
  IN [before |-> text, old |-> old, new |-> new, all |-> all,
      way |-> IF refused THEN "error" ELSE way, matches |-> IF refused THEN {} ELSE matches]

\* LineEnding: a file with one CRLF is written with CRLF throughout, any other with LF.
Normalized(text) ==
  FoldLeft(LAMBDA out, i : CASE text[i] # "r" -> Append(out, text[i])
                             [] i < Len(text) /\ text[i + 1] = "n" -> out
                             [] OTHER -> Append(out, "n"),
           <<>>, [i \in 1..Len(text) |-> i])
HasCrlf(text) == \E i \in 1 .. Len(text) - 1 : text[i] = "r" /\ text[i + 1] = "n"
\* Mutant: the text is written as the model gave it.
EndedAsGiven(text, crlf) == text
Ended(text, crlf) ==
  IF crlf THEN FoldLeft(LAMBDA out, c : IF c = "n" THEN out \o <<"r", "n">> ELSE Append(out, c), <<>>, Normalized(text))
  ELSE Normalized(text)

Edit(old, new, all) ==
  /\ edit = NoEdit
  /\ \E way \in {Deciding(file, old)} : \E matches \in {Matches(way, file, old)} :
       edit' = Outcome(file, old, new, all, way, matches)
  /\ file' = IF edit'.matches = {} THEN file
             ELSE Ended(Replaced(file, edit'.matches, new), HasCrlf(file))
Next == \E old \in Text(MaxOld), new \in New, all \in BOOLEAN : Edit(old, new, all)
Spec == Init /\ [][Next]_vars

(***************************************************************************)
(* Properties                                                              *)
(***************************************************************************)
Applied == edit.matches # {}
\* The line ends aside, an edit with one match puts the new text in the place of one run of
\* characters and leaves all before and after it; the run is the old text, blanks at the
\* borders of its lines, the lines between first and last, and one line end aside
\* (fuzzy.rs fuzzy_find_and_replace, apply_replacements).  A match of no length, which a
\* blank old text has at a blank line, is counted and replaces nothing.
OneRunReplaced ==
  Applied /\ Cardinality(edit.matches) = 1 =>
    LET m == CHOOSE x \in edit.matches : TRUE
        run == At(edit.before, m)
        lines == IF run # <<>> /\ Last(run) = "n" /\ Len(Lines(run)) > Len(Lines(edit.old))
                 THEN Front(Lines(run)) ELSE Lines(run)
    IN m.len > 0 =>
       /\ Normalized(file) = Normalized(SubSeq(edit.before, 1, m.at) \o edit.new
                                        \o SubSeq(edit.before, m.at + m.len + 1, Len(edit.before)))
       /\ edit.way = "exact" \/ Len(lines) = Len(Lines(edit.old))
       /\ edit.way = "exact" => run = edit.old
       /\ Trim(lines[1]) = Trim(Lines(edit.old)[1]) \/ edit.way = "exact"
\* A file whose lines all end alike is written back with the same line ends, whatever the
\* ends in the new text (textutil.rs LineEnding::apply).
Uniform(text, crlf) ==
  \A i \in 1..Len(text) :
    /\ text[i] = "n" => (crlf <=> i > 1 /\ text[i - 1] = "r")
    /\ text[i] = "r" => i < Len(text) /\ text[i + 1] = "n"
LineEndsKept ==
  Applied /\ Uniform(edit.before, HasCrlf(edit.before)) => Uniform(file, HasCrlf(edit.before))
=============================================================================
