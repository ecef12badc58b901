------------------------------ MODULE Excerpts ------------------------------
(***************************************************************************)
(* What a tool shows of something too long: the windows of read and the    *)
(* pages of webfetch, which a model follows from one to the next by the    *)
(* hint it is given; the first results of a search; and the excerpts of a  *)
(* command's output and of an overwritten file, whose middle is left out.  *)
(* A text is measured in units; a page may begin and end only between two  *)
(* characters, and some characters are longer than one unit.               *)
(***************************************************************************)
EXTENDS Integers, Sequences

CONSTANTS
  Costs,     \* files: what their first line costs, their first two together, and so on
  Budget,    \* MAX_READ_CHARS: what the lines of a window may cost together
  MaxOffset, \* bound: the first entry a call asks of a directory
  MaxUnits,  \* bound: units of a text
  Limits,    \* the limits a call may ask for
  Most       \* search_max_results

VARIABLES
  source,  \* what is read: [kind, costs |-> one of Costs, units, inside |-> places within a character]
  reader   \* the model that reads: [next, shown |-> what it saw, omitted |-> what it was told to be left out, done]

vars == <<source, reader>>

Source ==
  [kind : {"file", "directory", "search", "diff"}, costs : Costs, units : {0}, inside : {{}}]
    \cup UNION {[kind : {"web", "output"}, costs : {<<>>}, units : {n},
                 inside : SUBSET (1 .. n - 1)] : n \in 1..MaxUnits}
TypeOK ==
  /\ source \in Source
  /\ reader \in [next : Nat, shown : Seq(Nat), omitted : Nat, done : BOOLEAN]
Init ==
  /\ source \in Source
  /\ reader = [next |-> IF source.kind = "file" THEN 1 ELSE 0, shown |-> <<>>, omitted |-> 0, done |-> FALSE]

Least(a, b) == IF a < b THEN a ELSE b
Greatest(a, b) == IF a > b THEN a ELSE b
Run(a, b) == [i \in 1 .. Greatest(0, b - a) |-> a + i]  \* a+1 .. b, in order

(***************************************************************************)
(* read of a file: read_file_impl                                          *)
(***************************************************************************)
Lines == Len(source.costs)
Upto(n) == IF n = 0 THEN 0 ELSE source.costs[n]
Cost(a, b) == Upto(b) - Upto(a - 1)
Max(S) == CHOOSE n \in S : \A m \in S : m <= n
Min(S) == CHOOSE n \in S : \A m \in S : n <= m
\* The lines of the window that fit: the limit or the budget, whichever comes first.  A
\* first line that alone is too long is shown in part, and what is cut of it is lost.
Fitting(offset, limit) ==
  {n \in 0 .. Least(limit, Greatest(0, Lines - offset + 1)) : Cost(offset, offset + n - 1) <= Budget}
Collected(offset, limit) ==
  IF Max(Fitting(offset, limit)) = 0 /\ offset <= Lines THEN 1 ELSE Max(Fitting(offset, limit))
ReadWindow(limit) ==
  LET last == reader.next - 1 + Collected(reader.next, limit)
  IN /\ source.kind = "file" /\ ~reader.done
     /\ reader' = [reader EXCEPT !.next = last + 1, !.shown = @ \o Run(reader.next - 1, last),
                                 !.done = last >= Lines]
     /\ UNCHANGED source
\* list_directory: offset - 1 entries are skipped.  Past the end the length of the page is
\* negative; a build with checks panics, the other shows nothing, as here.
ListDirectory(offset, limit) ==
  LET start == offset - 1 end == Least(start + limit, Lines)
  IN /\ source.kind = "directory" /\ ~reader.done
     /\ reader' = [reader EXCEPT !.shown = Run(start, end), !.done = end >= Lines]
     /\ UNCHANGED source

(***************************************************************************)
(* grep and glob: search_content, search_files                             *)
(***************************************************************************)
Clamped(limit) == Greatest(1, Least(limit, Most))
\* search_files knows all the files that match, the newest first, and shows the first ones.
FirstOnes(limit) == Run(0, Least(Clamped(limit), Lines))
\* To search_content one match more than the limit is enough to know that there are more.
Search(limit) ==
  /\ source.kind = "search" /\ ~reader.done /\ reader.shown = <<>>
  /\ reader' = [reader EXCEPT !.shown = FirstOnes(limit),
                              !.done = Lines <= Clamped(limit)]
  /\ UNCHANGED source

(***************************************************************************)
(* webfetch: apply_pagination                                              *)
(***************************************************************************)
\* ceil_char_boundary
Ceil(place) ==
  IF place >= source.units THEN source.units
  ELSE Min({p \in place .. source.units : p \notin source.inside})
FetchPage(limit) ==
  LET end == Least(reader.next + limit, source.units)
  IN /\ source.kind = "web" /\ ~reader.done
     /\ reader' = [reader EXCEPT !.next = end, !.shown = @ \o Run(Ceil(reader.next), Ceil(end)),
                                 !.done = end >= source.units]
     /\ UNCHANGED source

(***************************************************************************)
(* The middle left out                                                     *)
(***************************************************************************)
\* truncate_output keeps 40 of 100 parts at the head and the rest at the tail.
HeadPart(limit) == (limit * 4) \div 10
TruncateOutput(limit) ==
  LET tail == Ceil(Greatest(0, source.units - (limit - HeadPart(limit))))
  IN /\ source.kind = "output" /\ ~reader.done
     /\ reader' = [reader EXCEPT
          !.shown = IF source.units <= limit THEN Run(0, source.units)
                    ELSE Run(0, Ceil(HeadPart(limit))) \o Run(tail, source.units),
          !.omitted = IF source.units <= limit THEN 0 ELSE tail - Ceil(HeadPart(limit)),
          !.done = TRUE]
     /\ UNCHANGED source
\* truncate_middle: whole lines from both ends, four parts of five at the head.
Used(a, b) == Cost(a, b) + (b - a + 1)
DiffHead(limit) == Max({n \in 0..Lines : n = 0 \/ Used(1, n) <= (limit * 4) \div 5})
DiffTail(limit) ==
  Min({n \in DiffHead(limit) .. Lines : n = Lines \/ Used(n + 1, Lines) <= limit \div 5})
TruncateDiff(limit) ==
  /\ source.kind = "diff" /\ ~reader.done
  /\ reader' = [reader EXCEPT
       !.shown = IF Used(1, Lines) <= limit THEN Run(0, Lines)
                 ELSE Run(0, DiffHead(limit)) \o Run(DiffTail(limit), Lines),
       !.omitted = IF Used(1, Lines) <= limit THEN 0 ELSE DiffTail(limit) - DiffHead(limit),
       !.done = TRUE]
  /\ UNCHANGED source

Next == \E limit \in Limits :
  \/ ReadWindow(limit) \/ Search(limit) \/ FetchPage(limit)
  \/ TruncateOutput(limit) \/ TruncateDiff(limit)
  \/ \E offset \in 1 .. MaxOffset : ListDirectory(offset, limit)
Spec == Init /\ [][Next]_vars

(***************************************************************************)
(* Properties                                                              *)
(***************************************************************************)
\* A model that follows the hints sees every line of a file, or every unit of a page, once
\* and in order, however the limits of its calls vary (read/handler.rs, pagination.rs): no
\* character is cut in two, none is lost between two pages and none is shown twice.
HintsCoverAll ==
  /\ reader.shown = Run(0, Len(reader.shown)) \/ source.kind \notin {"file", "web"}
  /\ source.kind = "file" /\ reader.done => Len(reader.shown) = Lines
  /\ source.kind = "web" /\ reader.done => Len(reader.shown) = source.units
\* What is not shown is told: a result that does not say so is complete, and an excerpt
\* without its middle counts what it left out and keeps both ends in order
\* (output.rs truncate_output, write/diff.rs truncate_middle, search_content).
NothingHidden ==
  /\ source.kind = "search" /\ reader.done => Len(reader.shown) = Lines
  /\ source.kind \in {"output", "diff"} /\ reader.done =>
       /\ Len(reader.shown) + reader.omitted = IF source.kind = "output" THEN source.units ELSE Lines
       /\ \A i \in 1 .. Len(reader.shown) - 1 : reader.shown[i] < reader.shown[i + 1]
=============================================================================
