----------------------------- MODULE PartsProofs ------------------------------
(***************************************************************************)
(* Theorems about the parts that CoreParts sets side by side.  ToolProofs  *)
(* has the inductive invariants of the tools, plugins and replies; those   *)
(* of the services of a session, the shadow repository, keys, definitions, *)
(* the exit of events and the histories are here, each in a section of its *)
(* own.  The last section puts them all into the behaviours of CoreParts.  *)
(***************************************************************************)
EXTENDS ToolProofs

(***************************************************************************)
(* The services of a session                                               *)
(***************************************************************************)
HistoryRow == [kind : {"user", "assistant", "compaction"}, id : Nat, read : SUBSET Nat]
TaskStep == {"idle", "pre", "inject", "title", "turn", "load", "stream", "drain", "mark", "prompt"}
TaskRecord == [phase : {"Idle", "Running"}, step : TaskStep, todo : Seq({"user", "compress"}),
               usage : BOOLEAN, gate : BOOLEAN, injected : BOOLEAN]
WorkRecord == [reason : {"auto", "manual"}, read : SUBSET Nat, pieces : Int, queue : Int]
UiRecord == [busy : BOOLEAN, ended : SUBSET Nat, title : Nat, renamed : BOOLEAN]
ServiceType ==
  /\ rows \in Seq(HistoryRow) /\ minted \in [rows : Nat, titles : Nat] /\ title \in Nat
  /\ task \in TaskRecord /\ work \in WorkRecord /\ ui \in UiRecord
  /\ titler \in [step : {"none", "asking", "telling"}, name : Nat]
  /\ cutter \in {"idle", "waiting", "quiet"}

\* What keeps a cut out of a compression: the phase covers all the task does but wait.
PhaseInv ==
  /\ task.phase = "Idle" <=> task.step = "idle"
  /\ cutter = "quiet" => task.phase = "Idle"
\* While a model writes the summary, the rows are those that were read for it.
ReadInv == task.step \in {"stream", "drain", "mark"} => work.read = Work!IdsIn(Work!Visible(rows))
\* A boundary is reported when the compression that wrote it ends.
ReportInv ==
  /\ ui.busy => task.step \in {"load", "stream", "drain", "mark", "prompt"}
  /\ \A i \in Work!Boundaries(rows) :
       rows[i].id \in ui.ended \/ (task.step = "prompt" /\ rows[i].id = minted.rows)
\* The title's own task is started once, and tells the title it stored.
TitleInv ==
  /\ titler.step # "none" => task.gate
  /\ titler.step = "telling" /\ ~ui.renamed => titler.name = title
ServiceInv ==
  /\ ServiceType /\ PhaseInv /\ ReadInv /\ ReportInv /\ TitleInv
  /\ Work!SummaryCoversRows /\ Work!TitleIsStored

LEMMA SamePrefix ==
  ASSUME NEW S, NEW s \in Seq(S), NEW t \in Seq(S), NEW k \in Nat, k <= Len(s), k <= Len(t),
         \A i \in 1..k : s[i] = t[i]
  PROVE  SubSeq(s, 1, k) = SubSeq(t, 1, k)
<1>1. ASSUME NEW r \in Seq(S), k <= Len(r)
      PROVE  SubSeq(r, 1, k) \in Seq(S) /\ Len(SubSeq(r, 1, k)) = k
             /\ \A i \in 1..k : SubSeq(r, 1, k)[i] = r[i]
  <2>1. \A i \in 1..k : r[i] \in S
    BY <1>1
  <2> QED
    BY <2>1, SubSeqProperties, Z3
<1> DEFINE a == SubSeq(s, 1, k)  b == SubSeq(t, 1, k)
<1>2. a \in Seq(S) /\ b \in Seq(S) /\ Len(a) = k /\ Len(b) = k /\ \A i \in 1..k : a[i] = b[i]
  BY <1>1
<1> HIDE DEF a, b
<1>3. a = b
  BY <1>2, SeqEqual
<1> QED
  BY <1>3 DEF a, b

\* Visible rows are rows: the last boundary is one of them.
LEMMA VisibleIds ==
  ASSUME NEW rs \in Seq(HistoryRow)
  PROVE  Work!IdsIn(Work!Visible(rs)) \in SUBSET Nat
<1>0. /\ Len(rs) \in Nat /\ DOMAIN rs = 1..Len(rs) /\ \A i \in 1..Len(rs) : rs[i] \in HistoryRow
  OBVIOUS
<1>1. CASE Work!Boundaries(rs) = {}
  BY <1>0, <1>1 DEF Work!Visible, Work!IdsIn, HistoryRow
<1>2. CASE Work!Boundaries(rs) # {}
  <2> DEFINE B == Work!Boundaries(rs)
             last == CHOOSE i \in B : \A j \in B : j <= i
             v == SubSeq(rs, last, Len(rs))
  <2>1. B \in SUBSET Nat /\ B # {} /\ B \subseteq 1..Len(rs) /\ \A j \in B : j <= Len(rs)
    BY <1>0, <1>2 DEF Work!Boundaries
  <2> HIDE DEF B
  <2>2. \E i \in B : \A j \in B : j <= i
    BY <1>0, <2>1, GreatestNumber
  <2>3. last \in 1..Len(rs)
    BY <2>1, <2>2
  <2> HIDE DEF last
  <2>4. \A i \in last..Len(rs) : rs[i] \in HistoryRow
    BY <1>0, <2>3
  <2>5. v \in Seq(HistoryRow)
    BY <1>0, <2>3, <2>4, SubSeqProperties
  <2>6. Work!Visible(rs) = v
    BY <1>2 DEF Work!Visible, B, last
  <2> HIDE DEF v
  <2> QED
    <3>1. DOMAIN v = 1..Len(v) /\ \A i \in DOMAIN v : v[i].id \in Nat
      <4>1. DOMAIN v = 1..Len(v) /\ \A i \in DOMAIN v : v[i] \in HistoryRow
        BY <2>5
      <4> QED
        BY <4>1 DEF HistoryRow
    <3> QED
      BY <2>6, <3>1 DEF Work!IdsIn
<1> QED
  BY <1>1, <1>2

LEMMA ServiceTypeStep == ServiceType /\ [Work!Next]_Work!vars => ServiceType'
<1> SUFFICES ASSUME ServiceType, [Work!Next]_Work!vars PROVE ServiceType'
  OBVIOUS
<1> USE DEF ServiceType
<1>m. ASSUME NEW kind \in {"user", "assistant", "compaction"}, NEW read \in SUBSET Nat,
             Work!Mint(kind, read)
      PROVE  rows' \in Seq(HistoryRow) /\ minted' \in [rows : Nat, titles : Nat]
  <2> DEFINE r == Work!Row(kind, minted.rows + 1, read)
  <2>1. r \in HistoryRow
    BY DEF Work!Row, HistoryRow
  <2>2. rows' = Append(rows, r) /\ minted' = [minted EXCEPT !.rows = @ + 1]
    BY <1>m DEF Work!Mint
  <2> HIDE DEF r
  <2> QED
    BY <2>1, <2>2
<1>s. ASSUME NEW saved \in BOOLEAN, Work!SetTitle(saved)
      PROVE  title' \in Nat /\ minted' \in [rows : Nat, titles : Nat] /\ UNCHANGED <<rows, work, cutter>>
  BY <1>s DEF Work!SetTitle
\* What the records may become.
<1>t. /\ \A step \in TaskStep : [task EXCEPT !.step = step] \in TaskRecord
      /\ [task EXCEPT !.step = "idle", !.phase = "Idle"] \in TaskRecord
      /\ [task EXCEPT !.step = "turn", !.gate = TRUE] \in TaskRecord
      /\ \A above \in BOOLEAN : [task EXCEPT !.step = "idle", !.phase = "Idle", !.usage = above] \in TaskRecord
  BY DEF TaskRecord, TaskStep
<1>h. ASSUME task.todo # << >>
      PROVE  /\ [task EXCEPT !.todo = Tail(@)] \in TaskRecord
             /\ [task EXCEPT !.todo = Tail(@), !.injected = TRUE] \in TaskRecord
             /\ [task EXCEPT !.todo = Tail(@), !.step = "load"] \in TaskRecord
  <2>1. Tail(task.todo) \in Seq({"user", "compress"})
    BY <1>h DEF TaskRecord
  <2> QED
    BY <2>1 DEF TaskRecord, TaskStep
<1>w. /\ Work!NoWork \in WorkRecord
      /\ \A reason \in {"auto", "manual"} : [Work!NoWork EXCEPT !.reason = reason] \in WorkRecord
  BY DEF Work!NoWork, WorkRecord
<1>v. /\ \A busy \in BOOLEAN : [ui EXCEPT !.busy = busy] \in UiRecord
      /\ [ui EXCEPT !.busy = FALSE, !.ended = @ \union {minted.rows}] \in UiRecord
      /\ \A renamed \in BOOLEAN : [ui EXCEPT !.renamed = renamed] \in UiRecord
      /\ \A name \in Nat : [ui EXCEPT !.title = name] \in UiRecord
      /\ \A name \in Nat : [ui EXCEPT !.title = name, !.renamed = FALSE] \in UiRecord
  BY DEF UiRecord
<1>b. ASSUME NEW b \in Work!Batches, Work!TakeBatch(b) PROVE ServiceType'
  <2>1. b \in Seq({"user", "compress"})
    <3>1. b = <<"user">> \/ b = <<"user", "user">> \/ b = <<"compress">> \/ b = <<"user", "compress">>
      BY DEF Work!Batches
    <3>2. \A x, y \in {"user", "compress"} :
            <<x>> \in Seq({"user", "compress"}) /\ <<x, y>> \in Seq({"user", "compress"})
      OBVIOUS
    <3> QED
      BY <3>1, <3>2
  <2>2. PICK step \in {"pre", "inject"} :
          task' = [task EXCEPT !.phase = "Running", !.todo = b, !.injected = FALSE, !.step = step]
    BY <1>b DEF Work!TakeBatch
  <2>3. task' \in TaskRecord
    BY <2>1, <2>2 DEF TaskRecord, TaskStep
  <2> QED
    BY <1>b, <2>3 DEF Work!TakeBatch
<1>1. CASE Work!SkipCompression \/ Work!BatchDone
  BY <1>1, <1>t DEF Work!SkipCompression, Work!BatchDone, Work!Goto, TaskStep
<1>2. ASSUME NEW reason \in {"auto", "manual"}, Work!Begin(reason) PROVE ServiceType'
  BY <1>2, <1>t, <1>w, <1>v DEF Work!Begin, Work!Goto, TaskStep
<1>3. ASSUME NEW blocked \in BOOLEAN, Work!InjectUser(blocked) PROVE ServiceType'
  <2>1. rows' \in Seq(HistoryRow) /\ minted' \in [rows : Nat, titles : Nat]
    BY <1>3, <1>m DEF Work!InjectUser
  <2> QED
    BY <1>3, <1>h, <2>1 DEF Work!InjectUser
<1>4. CASE Work!ManualUnresolved
  BY <1>4, <1>h DEF Work!ManualUnresolved
<1>5. CASE Work!ManualCompress
  <2>1. task' \in TaskRecord
    BY <1>5, <1>h DEF Work!ManualCompress
  <2>2. work' \in WorkRecord /\ ui' \in UiRecord
    BY <1>5, <1>w, <1>v DEF Work!ManualCompress
  <2> QED
    BY <1>5, <2>1, <2>2 DEF Work!ManualCompress
<1>6. CASE Work!LoadRows
  <2> DEFINE read == Work!IdsIn(Work!Visible(rows))
  <2>1. read \in SUBSET Nat
    BY VisibleIds
  <2>2. work' = [work EXCEPT !.read = read]
    BY <1>6 DEF Work!LoadRows
  <2> HIDE DEF read
  <2>3. work' \in WorkRecord
    BY <2>1, <2>2 DEF WorkRecord
  <2> QED
    BY <1>6, <1>t, <2>3 DEF Work!LoadRows, Work!Goto, TaskStep
<1>7. CASE Work!Failed
  BY <1>7, <1>t, <1>w, <1>v DEF Work!Failed, Work!Goto, TaskStep
<1>8. CASE Work!Piece
  <2>1. work' \in WorkRecord
    <3> DEFINE queue == IF work.queue < Buffer THEN work.queue + 1 ELSE work.queue
    <3>1. queue \in Int /\ work.pieces + 1 \in Int
      BY DEF WorkRecord
    <3>2. work' = [work EXCEPT !.pieces = work.pieces + 1, !.queue = queue]
      BY <1>8 DEF Work!Piece, WorkRecord
    <3> HIDE DEF queue
    <3> QED
      BY <3>1, <3>2 DEF WorkRecord
  <2> QED
    BY <1>8, <2>1 DEF Work!Piece
<1>9. CASE Work!ShowPiece
  <2>1. work' \in WorkRecord
    BY <1>9 DEF Work!ShowPiece, WorkRecord
  <2> QED
    BY <1>9, <2>1 DEF Work!ShowPiece
<1>10. CASE Work!SummaryEnds \/ Work!Drained
  BY <1>10, <1>t DEF Work!SummaryEnds, Work!Drained, Work!Goto, TaskStep
<1>11. CASE Work!MarkCompaction
  <2>1. work.read \in SUBSET Nat
    BY DEF WorkRecord
  <2> QED
    BY <1>11, <2>1, <1>m, <1>t DEF Work!MarkCompaction, Work!Goto, TaskStep
<1>12. CASE Work!Ended
  BY <1>12, <1>t, <1>w, <1>v DEF Work!Ended, Work!Goto, TaskStep
<1>13. CASE Work!SkipTitle \/ Work!NoTitle \/ Work!TellTitle
  BY <1>13, <1>t, <1>v DEF Work!SkipTitle, Work!NoTitle, Work!TellTitle
<1>14. ASSUME NEW saved \in BOOLEAN, NEW enabled \in BOOLEAN, Work!Placeholder(saved, enabled)
       PROVE  ServiceType'
  BY <1>14, <1>s, <1>t, <1>v DEF Work!Placeholder
<1>15. CASE Work!Generated
  <2>1. title' \in Nat /\ minted' \in [rows : Nat, titles : Nat] /\ UNCHANGED <<rows, work, cutter>>
    BY <1>15, <1>s DEF Work!Generated
  <2> QED
    BY <1>15, <2>1, <1>v DEF Work!Generated
<1>16. CASE Work!UpdateTitle
  <2>1. title' \in Nat /\ minted' \in [rows : Nat, titles : Nat] /\ UNCHANGED <<rows, work, cutter>>
    BY <1>16, <1>s DEF Work!UpdateTitle
  <2> QED
    BY <1>16, <2>1, <1>v DEF Work!UpdateTitle
<1>17. ASSUME NEW above \in BOOLEAN, Work!Reply(above) PROVE ServiceType'
  BY <1>17, <1>m, <1>t DEF Work!Reply
<1>18. CASE Work!TurnEnds \/ Work!StopSession \/ Work!StopReturns \/ Work!StopTimesOut \/ Work!NoCut
  BY <1>18, <1>t DEF Work!TurnEnds, Work!StopSession, Work!StopReturns, Work!StopTimesOut, Work!NoCut
<1>19. ASSUME NEW n \in DOMAIN rows, Work!CutTo(n) PROVE ServiceType'
  <2>1. n \in Nat /\ \A k \in 1..(n - 1) : rows[k] \in HistoryRow
    OBVIOUS
  <2>2. SubSeq(rows, 1, n - 1) \in Seq(HistoryRow)
    BY <2>1, SubSeqProperties
  <2> QED
    BY <1>19, <2>2 DEF Work!CutTo
<1>20. CASE UNCHANGED Work!vars
  BY <1>20 DEF Work!vars
<1> QED
  BY <1>b, <1>1, <1>2, <1>3, <1>4, <1>5, <1>6, <1>7, <1>8, <1>9, <1>10, <1>11, <1>12, <1>13, <1>14,
     <1>15, <1>16, <1>17, <1>18, <1>19, <1>20
  DEF Work!Next, Work!LoadFails, Work!SummaryFails, Work!MarkFails, Work!AutoCompress

LEMMA PhaseStep == ServiceType /\ PhaseInv /\ [Work!Next]_Work!vars => PhaseInv'
<1> SUFFICES ASSUME ServiceType, PhaseInv, [Work!Next]_Work!vars PROVE PhaseInv'
  OBVIOUS
<1> USE DEF PhaseInv
<1>t. /\ DOMAIN task = {"phase", "step", "todo", "usage", "gate", "injected"}
      /\ task.phase \in {"Idle", "Running"} /\ cutter \in {"idle", "waiting", "quiet"}
  BY DEF ServiceType, TaskRecord
\* The task goes from one step of its work to another.
<1>w. ASSUME task.step # "idle", task'.step # "idle", task'.phase = task.phase, cutter' = cutter PROVE PhaseInv'
  BY <1>w
<1>i. ASSUME task'.step = "idle", task'.phase = "Idle" PROVE PhaseInv'
  BY <1>i
<1>u. ASSUME task'.step = task.step, task'.phase = task.phase,
             cutter' # "quiet" \/ cutter' = cutter \/ task.phase = "Idle" PROVE PhaseInv'
  BY <1>u
<1>1. ASSUME NEW b \in Work!Batches, Work!TakeBatch(b) PROVE PhaseInv'
  BY <1>1, <1>t DEF Work!TakeBatch, Work!At
<1>2. CASE Work!SkipCompression \/ Work!AutoCompress \/ Work!ManualCompress \/ Work!LoadRows
             \/ Work!LoadFails \/ Work!SummaryFails \/ Work!MarkFails \/ Work!SummaryEnds
             \/ Work!Drained \/ Work!MarkCompaction \/ Work!Ended \/ Work!SkipTitle
             \/ (\E saved, enabled \in BOOLEAN : Work!Placeholder(saved, enabled))
  BY <1>2, <1>t, <1>w DEF Work!SkipCompression, Work!AutoCompress, Work!ManualCompress,
     Work!LoadRows, Work!LoadFails, Work!SummaryFails, Work!MarkFails, Work!SummaryEnds,
     Work!Drained, Work!MarkCompaction, Work!Ended, Work!SkipTitle, Work!Placeholder,
     Work!Begin, Work!Failed, Work!Goto, Work!At, Work!SetTitle
<1>3. CASE Work!BatchDone \/ Work!TurnEnds \/ (\E above \in BOOLEAN : Work!Reply(above))
  BY <1>3, <1>t, <1>i, <1>w DEF Work!BatchDone, Work!TurnEnds, Work!Reply, Work!At
<1>4. CASE \/ \E blocked \in BOOLEAN : Work!InjectUser(blocked)
           \/ Work!ManualUnresolved \/ Work!Piece \/ Work!ShowPiece
           \/ Work!NoTitle \/ Work!Generated \/ Work!TellTitle \/ Work!UpdateTitle
           \/ Work!StopSession \/ Work!StopReturns \/ Work!StopTimesOut \/ Work!NoCut
           \/ (\E n \in DOMAIN rows : Work!CutTo(n)) \/ UNCHANGED Work!vars
  BY <1>4, <1>t, <1>u DEF Work!InjectUser, Work!ManualUnresolved, Work!Piece, Work!ShowPiece,
     Work!NoTitle, Work!Generated, Work!TellTitle, Work!UpdateTitle, Work!SetTitle,
     Work!StopSession, Work!StopReturns, Work!StopTimesOut, Work!NoCut, Work!CutTo, Work!vars
<1> QED
  BY <1>1, <1>2, <1>3, <1>4 DEF Work!Next

LEMMA ReadStep == ServiceType /\ PhaseInv /\ ReadInv /\ [Work!Next]_Work!vars => ReadInv'
<1> SUFFICES ASSUME ServiceType, PhaseInv, ReadInv, [Work!Next]_Work!vars PROVE ReadInv'
  OBVIOUS
<1> DEFINE Summary == {"stream", "drain", "mark"}
<1>t. /\ DOMAIN task = {"phase", "step", "todo", "usage", "gate", "injected"}
      /\ DOMAIN work = {"reason", "read", "pieces", "queue"}
  BY DEF ServiceType, TaskRecord, WorkRecord
<1>o. ASSUME task'.step \notin Summary PROVE ReadInv'
  BY <1>o DEF ReadInv
<1>k. ASSUME task.step \in Summary, rows' = rows, work'.read = work.read PROVE ReadInv'
  BY <1>k DEF ReadInv
<1>u. ASSUME task'.step = task.step, rows' = rows, work' = work PROVE ReadInv'
  BY <1>u DEF ReadInv
<1>1. ASSUME NEW b \in Work!Batches, Work!TakeBatch(b) PROVE ReadInv'
  BY <1>1, <1>t, <1>o DEF Work!TakeBatch
<1>2. CASE Work!SkipCompression \/ Work!AutoCompress \/ Work!ManualCompress
             \/ Work!LoadFails \/ Work!SummaryFails \/ Work!MarkFails \/ Work!MarkCompaction
             \/ Work!Ended \/ Work!SkipTitle \/ Work!BatchDone \/ Work!TurnEnds
             \/ (\E saved, enabled \in BOOLEAN : Work!Placeholder(saved, enabled))
             \/ (\E above \in BOOLEAN : Work!Reply(above))
  BY <1>2, <1>t, <1>o DEF Work!SkipCompression, Work!AutoCompress, Work!ManualCompress,
     Work!LoadFails, Work!SummaryFails, Work!MarkFails, Work!MarkCompaction, Work!Ended,
     Work!SkipTitle, Work!BatchDone, Work!TurnEnds, Work!Placeholder, Work!Reply,
     Work!Begin, Work!Failed, Work!Goto, Work!At
<1>3. CASE Work!LoadRows
  <2>1. work'.read = Work!IdsIn(Work!Visible(rows)) /\ rows' = rows
    BY <1>3, <1>t DEF Work!LoadRows
  <2> QED
    BY <2>1 DEF ReadInv
<1>4. CASE Work!Piece \/ Work!ShowPiece \/ Work!SummaryEnds \/ Work!Drained
  <2>1. task.step \in Summary /\ rows' = rows
    BY <1>4 DEF Work!Piece, Work!ShowPiece, Work!SummaryEnds, Work!Drained, Work!At
  <2>2. work'.read = work.read
    BY <1>4, <1>t DEF Work!Piece, Work!ShowPiece, Work!SummaryEnds, Work!Drained
  <2> QED
    BY <2>1, <2>2, <1>k
<1>5. CASE \/ Work!NoTitle \/ Work!Generated \/ Work!TellTitle \/ Work!UpdateTitle
           \/ Work!StopSession \/ Work!StopReturns \/ Work!StopTimesOut \/ Work!NoCut
           \/ UNCHANGED Work!vars
  BY <1>5, <1>u DEF Work!NoTitle, Work!Generated, Work!TellTitle, Work!UpdateTitle, Work!SetTitle,
     Work!StopSession, Work!StopReturns, Work!StopTimesOut, Work!NoCut, Work!vars
<1>6. CASE (\E blocked \in BOOLEAN : Work!InjectUser(blocked)) \/ Work!ManualUnresolved
             \/ (\E n \in DOMAIN rows : Work!CutTo(n))
  <2>1. task'.step \in {"inject", "idle"}
    BY <1>6, <1>t DEF Work!InjectUser, Work!ManualUnresolved, Work!CutTo, Work!At, PhaseInv
  <2> QED
    BY <2>1, <1>o
<1> QED
  BY <1>1, <1>2, <1>3, <1>4, <1>5, <1>6 DEF Work!Next

LEMMA CoversStep ==
  /\ ServiceType /\ ReadInv /\ Work!SummaryCoversRows /\ [Work!Next]_Work!vars
  => Work!SummaryCoversRows'
<1> SUFFICES ASSUME ServiceType, ReadInv, Work!SummaryCoversRows, [Work!Next]_Work!vars,
                    NEW i \in Work!Boundaries(rows')
             PROVE  rows'[i].read = Work!IdsIn(Work!Visible(SubSeq(rows', 1, i - 1)))
  BY DEF Work!SummaryCoversRows, Work!Boundaries
<1> DEFINE n == Len(rows)
<1>t. /\ rows \in Seq(HistoryRow) /\ rows' \in Seq(HistoryRow) /\ n \in Nat /\ DOMAIN rows = 1..n
      /\ i \in 1..Len(rows') /\ rows'[i].kind = "compaction" /\ Len(rows') \in Nat
  BY ServiceTypeStep DEF ServiceType, Work!Boundaries
\* A boundary that stays, over rows that stay.
<1>k. ASSUME i \in 1..n, \A k \in 1..i : rows'[k] = rows[k]
      PROVE  rows'[i].read = Work!IdsIn(Work!Visible(SubSeq(rows', 1, i - 1)))
  <2>1. i - 1 \in Nat /\ i - 1 <= n /\ i - 1 <= Len(rows') /\ \A k \in 1..(i - 1) : rows'[k] = rows[k]
    BY <1>k, <1>t
  <2>2. SubSeq(rows', 1, i - 1) = SubSeq(rows, 1, i - 1)
    BY <2>1, <1>t, SamePrefix
  <2>3. i \in Work!Boundaries(rows) /\ rows'[i] = rows[i]
    BY <1>k, <1>t DEF Work!Boundaries
  <2> QED
    BY <2>2, <2>3 DEF Work!SummaryCoversRows
<1>1. CASE rows' = rows
  BY <1>1, <1>k, <1>t
<1>2. ASSUME NEW kind, NEW read, Work!Mint(kind, read), kind = "compaction" => task.step = "mark" /\ read = work.read
      PROVE  rows'[i].read = Work!IdsIn(Work!Visible(SubSeq(rows', 1, i - 1)))
  <2> DEFINE r == Work!Row(kind, minted.rows + 1, read)
  <2>0. rows' = Append(rows, r)
    BY <1>2 DEF Work!Mint
  <2>1. /\ Len(rows') = n + 1 /\ rows'[n + 1] = r
        /\ \A k \in 1..n : rows'[k] = rows[k]
    BY <2>0, <1>t, AppendProperties
  <2>2. CASE i \in 1..n
    BY <2>1, <2>2, <1>k, <1>t
  <2>3. CASE i = n + 1
    <3>1. kind = "compaction" /\ rows'[i].read = read
      BY <2>1, <2>3, <1>t DEF Work!Row
    <3>2. read = Work!IdsIn(Work!Visible(rows))
      BY <3>1, <1>2 DEF ReadInv
    <3>3. SubSeq(rows', 1, n) = SubSeq(rows, 1, n)
      BY <2>1, <1>t, SamePrefix
    <3>4. SubSeq(rows, 1, n) = rows
      <4>1. \A k \in 1..n : rows[k] \in HistoryRow
        BY <1>t
      <4>2. /\ SubSeq(rows, 1, n) \in Seq(HistoryRow) /\ Len(SubSeq(rows, 1, n)) = n
            /\ \A k \in 1..n : SubSeq(rows, 1, n)[k] = rows[k]
        BY <4>1, <1>t, SubSeqProperties, Z3
      <4> QED
        BY <4>2, <1>t, SeqEqual
    <3>5. SubSeq(rows', 1, i - 1) = rows
      BY <2>3, <3>3, <3>4, <1>t
    <3> QED
      BY <3>1, <3>2, <3>5
  <2> QED
    BY <2>1, <2>2, <2>3, <1>t
<1>3. ASSUME NEW m \in DOMAIN rows, Work!CutTo(m)
      PROVE  rows'[i].read = Work!IdsIn(Work!Visible(SubSeq(rows', 1, i - 1)))
  <2> DEFINE l == m - 1
  <2>1. rows' = SubSeq(rows, 1, l) /\ l \in Nat /\ l <= n
    BY <1>3, <1>t DEF Work!CutTo
  <2> HIDE DEF l
  <2>2. \A k \in 1..l : rows[k] \in HistoryRow
    BY <2>1, <1>t
  <2>3. Len(rows') = l /\ \A k \in 1..l : rows'[k] = rows[k]
    BY <2>1, <2>2, SubSeqProperties, Z3
  <2> QED
    BY <2>1, <2>3, <1>t, <1>k
<1>4. CASE Work!MarkCompaction
  BY <1>4, <1>2 DEF Work!MarkCompaction, Work!At
<1>5. ASSUME NEW blocked \in BOOLEAN, Work!InjectUser(blocked)
      PROVE  rows' = rows \/ Work!Mint("user", {})
  BY <1>5 DEF Work!InjectUser
<1>6. ASSUME NEW above \in BOOLEAN, Work!Reply(above) PROVE Work!Mint("assistant", {})
  BY <1>6 DEF Work!Reply
<1>7. "user" # "compaction" /\ "assistant" # "compaction"
  OBVIOUS
<1>8. ASSUME rows' # rows
      PROVE  \/ Work!MarkCompaction \/ (\E blocked \in BOOLEAN : Work!InjectUser(blocked))
             \/ (\E above \in BOOLEAN : Work!Reply(above)) \/ (\E m \in DOMAIN rows : Work!CutTo(m))
  BY <1>8 DEF Work!Next, Work!TakeBatch, Work!SkipCompression, Work!AutoCompress, Work!Begin,
     Work!BatchDone, Work!ManualCompress, Work!ManualUnresolved, Work!LoadRows, Work!LoadFails,
     Work!Failed, Work!Piece, Work!ShowPiece, Work!SummaryFails, Work!SummaryEnds,
     Work!Drained, Work!MarkFails, Work!Ended, Work!SkipTitle, Work!Placeholder, Work!SetTitle,
     Work!NoTitle, Work!Generated, Work!TellTitle, Work!UpdateTitle, Work!TurnEnds,
     Work!StopSession, Work!StopReturns, Work!StopTimesOut, Work!NoCut, Work!vars
<1> QED
  BY <1>1, <1>2, <1>3, <1>4, <1>5, <1>6, <1>7, <1>8

LEMMA ReportStep == ServiceType /\ PhaseInv /\ ReportInv /\ [Work!Next]_Work!vars => ReportInv'
<1> SUFFICES ASSUME ServiceType, PhaseInv, ReportInv, [Work!Next]_Work!vars PROVE ReportInv'
  OBVIOUS
<1> DEFINE Compressing == {"load", "stream", "drain", "mark", "prompt"}
           n == Len(rows)
<1>t. /\ DOMAIN task = {"phase", "step", "todo", "usage", "gate", "injected"}
      /\ DOMAIN ui = {"busy", "ended", "title", "renamed"}
      /\ DOMAIN minted = {"rows", "titles"}
      /\ rows \in Seq(HistoryRow) /\ n \in Nat /\ DOMAIN rows = 1..n
  BY DEF ServiceType, TaskRecord, UiRecord
\* The history is what it was, or shorter.
<1>k. ASSUME DOMAIN rows' \subseteq DOMAIN rows, \A i \in DOMAIN rows' : rows'[i] = rows[i],
             ui'.ended = ui.ended, ui'.busy => task'.step \in Compressing,
             task.step = "prompt" => task'.step = "prompt" /\ minted'.rows = minted.rows
      PROVE  ReportInv'
  BY <1>k DEF ReportInv, Work!Boundaries
<1>1. ASSUME NEW b \in Work!Batches, Work!TakeBatch(b) PROVE ReportInv'
  BY <1>1, <1>t, <1>k DEF Work!TakeBatch, Work!At, ReportInv
<1>2. CASE Work!SkipCompression \/ Work!BatchDone \/ Work!SkipTitle \/ Work!TurnEnds
             \/ Work!ManualUnresolved
  BY <1>2, <1>t, <1>k DEF Work!SkipCompression, Work!BatchDone, Work!SkipTitle, Work!TurnEnds,
     Work!ManualUnresolved, Work!At, Work!Goto, ReportInv
<1>3. CASE Work!AutoCompress \/ Work!ManualCompress \/ Work!LoadRows \/ Work!SummaryEnds \/ Work!Drained
  <2>1. task'.step \in Compressing /\ task.step # "prompt" /\ rows' = rows
    BY <1>3, <1>t DEF Work!AutoCompress, Work!Begin, Work!ManualCompress, Work!LoadRows,
       Work!SummaryEnds, Work!Drained, Work!At, Work!Goto
  <2>2. ui'.ended = ui.ended
    BY <1>3, <1>t DEF Work!AutoCompress, Work!Begin, Work!ManualCompress, Work!LoadRows,
       Work!SummaryEnds, Work!Drained
  <2> QED
    BY <2>1, <2>2, <1>k
<1>4. CASE Work!LoadFails \/ Work!SummaryFails \/ Work!MarkFails
  <2>1. /\ task.step # "prompt" /\ ui' = [ui EXCEPT !.busy = FALSE] /\ rows' = rows
    BY <1>4 DEF Work!LoadFails, Work!SummaryFails, Work!MarkFails, Work!Failed, Work!At
  <2> QED
    BY <2>1, <1>t, <1>k
<1>5. CASE Work!Ended
  <2>1. /\ ui'.busy = FALSE /\ ui'.ended = ui.ended \union {minted.rows} /\ rows' = rows
    BY <1>5, <1>t DEF Work!Ended
  <2> QED
    BY <2>1 DEF ReportInv, Work!Boundaries
<1>m. ASSUME NEW kind, NEW read, Work!Mint(kind, read)
      PROVE  /\ DOMAIN rows' = 1..(n + 1) /\ \A i \in 1..n : rows'[i] = rows[i]
             /\ rows'[n + 1].kind = kind /\ rows'[n + 1].id = minted.rows + 1
             /\ minted'.rows = minted.rows + 1
  <2> DEFINE r == Work!Row(kind, minted.rows + 1, read)
  <2>1. rows' = Append(rows, r) /\ minted' = [minted EXCEPT !.rows = @ + 1]
    BY <1>m DEF Work!Mint
  <2>2. r.kind = kind /\ r.id = minted.rows + 1
    BY DEF Work!Row
  <2> HIDE DEF r
  <2>3. DOMAIN rows' = 1..(n + 1) /\ rows'[n + 1] = r /\ \A i \in 1..n : rows'[i] = rows[i]
    BY <2>1, <1>t, AppendProperties
  <2> QED
    BY <2>1, <2>2, <2>3, <1>t
<1>6. CASE Work!MarkCompaction
  <2>1. /\ task'.step = "prompt" /\ task.step = "mark" /\ ui' = ui
    BY <1>6, <1>t DEF Work!MarkCompaction, Work!Goto, Work!At
  <2>2. /\ DOMAIN rows' = 1..(n + 1) /\ \A i \in 1..n : rows'[i] = rows[i]
        /\ rows'[n + 1].id = minted'.rows
    BY <1>6, <1>m DEF Work!MarkCompaction
  <2>3. ASSUME NEW i \in Work!Boundaries(rows')
        PROVE  rows'[i].id \in ui.ended \/ rows'[i].id = minted'.rows
    <3>1. i \in 1..n \/ i = n + 1
      BY <2>2, <1>t DEF Work!Boundaries
    <3>2. CASE i \in 1..n
      BY <3>2, <2>1, <2>2, <2>3, <1>t DEF ReportInv, Work!Boundaries
    <3> QED
      BY <3>1, <3>2, <2>2
  <2> QED
    BY <2>1, <2>3 DEF ReportInv
\* A row that is no boundary.
<1>7. ASSUME NEW kind, NEW read, Work!Mint(kind, read), kind # "compaction", ui' = ui,
             task.step \notin Compressing, task'.step \notin Compressing
      PROVE  ReportInv'
  <2>1. Work!Boundaries(rows') = Work!Boundaries(rows)
    BY <1>7, <1>m, <1>t DEF Work!Boundaries
  <2>2. \A i \in Work!Boundaries(rows) : rows'[i] = rows[i]
    BY <1>7, <1>m, <1>t DEF Work!Boundaries
  <2> QED
    BY <1>7, <2>1, <2>2 DEF ReportInv
<1>8. ASSUME NEW blocked \in BOOLEAN, Work!InjectUser(blocked) PROVE ReportInv'
  <2>1. task.step = "inject" /\ task'.step = "inject" /\ ui' = ui /\ (rows' = rows \/ Work!Mint("user", {}))
    BY <1>8, <1>t DEF Work!InjectUser, Work!At
  <2>2. CASE rows' = rows
    BY <2>1, <2>2, <1>k DEF ReportInv
  <2> QED
    BY <2>1, <2>2, <1>7
<1>9. ASSUME NEW above \in BOOLEAN, Work!Reply(above) PROVE ReportInv'
  <2>1. task.step = "turn" /\ task'.step = "idle" /\ ui' = ui /\ Work!Mint("assistant", {})
    BY <1>9, <1>t DEF Work!Reply, Work!At
  <2> QED
    BY <2>1, <1>7
\* The title's task, the application, and the channel of pieces.
<1>u. ASSUME task' = task, rows' = rows, minted'.rows = minted.rows, ui'.ended = ui.ended, ui'.busy = ui.busy
      PROVE  ReportInv'
  BY <1>u, <1>k DEF ReportInv
<1>s. ASSUME NEW saved \in BOOLEAN, Work!SetTitle(saved) PROVE minted'.rows = minted.rows /\ rows' = rows
  BY <1>s, <1>t DEF Work!SetTitle
<1>10. ASSUME NEW saved \in BOOLEAN, NEW enabled \in BOOLEAN, Work!Placeholder(saved, enabled)
       PROVE  ReportInv'
  <2>1. task.step = "title" /\ rows' = rows
    BY <1>10, <1>s DEF Work!Placeholder, Work!At
  <2>2. ui'.ended = ui.ended /\ ui'.busy = ui.busy
    BY <1>10, <1>t DEF Work!Placeholder
  <2> QED
    BY <2>1, <2>2, <1>k DEF ReportInv
<1>11. CASE Work!Generated \/ Work!UpdateTitle
  <2>1. rows' = rows /\ minted'.rows = minted.rows /\ task' = task
    BY <1>11, <1>s DEF Work!Generated, Work!UpdateTitle
  <2>2. ui'.ended = ui.ended /\ ui'.busy = ui.busy
    BY <1>11, <1>t DEF Work!Generated, Work!UpdateTitle
  <2> QED
    BY <2>1, <2>2, <1>u
<1>12. CASE Work!NoTitle \/ Work!TellTitle \/ Work!Piece \/ Work!ShowPiece \/ Work!StopSession
              \/ Work!StopReturns \/ Work!StopTimesOut \/ Work!NoCut \/ UNCHANGED Work!vars
  <2>1. rows' = rows /\ minted' = minted /\ task' = task
    BY <1>12 DEF Work!NoTitle, Work!TellTitle, Work!Piece, Work!ShowPiece, Work!StopSession,
       Work!StopReturns, Work!StopTimesOut, Work!NoCut, Work!vars
  <2>2. ui'.ended = ui.ended /\ ui'.busy = ui.busy
    BY <1>12, <1>t DEF Work!NoTitle, Work!TellTitle, Work!Piece, Work!ShowPiece, Work!StopSession,
       Work!StopReturns, Work!StopTimesOut, Work!NoCut, Work!vars
  <2> QED
    BY <2>1, <2>2, <1>u
<1>13. ASSUME NEW m \in DOMAIN rows, Work!CutTo(m) PROVE ReportInv'
  <2> DEFINE l == m - 1
  <2>1. /\ rows' = SubSeq(rows, 1, l) /\ l \in Nat /\ l <= n
        /\ ui' = ui /\ task' = task /\ minted' = minted
    BY <1>13, <1>t DEF Work!CutTo
  <2> HIDE DEF l
  <2>2. \A k \in 1..l : rows[k] \in HistoryRow
    BY <2>1, <1>t
  <2>3. /\ rows' \in Seq(HistoryRow) /\ Len(rows') = l /\ \A k \in 1..l : rows'[k] = rows[k]
    BY <2>1, <2>2, SubSeqProperties, Z3
  <2>4. DOMAIN rows' = 1..l /\ DOMAIN rows = 1..n
    BY <2>1, <2>3, <1>t
  <2>5. \A i \in DOMAIN rows' : i \in DOMAIN rows /\ rows'[i] = rows[i]
    BY <2>1, <2>3, <2>4, <1>t
  <2>6. ui'.busy => task'.step \in {"load", "stream", "drain", "mark", "prompt"}
    BY <2>1 DEF ReportInv
  <2> QED
    BY <2>1, <2>5, <2>6, <1>k
<1> QED
  BY <1>1, <1>2, <1>3, <1>4, <1>5, <1>6, <1>8, <1>9, <1>10, <1>11, <1>12, <1>13 DEF Work!Next

LEMMA TitleStep ==
  /\ ServiceType /\ TitleInv /\ Work!TitleIsStored /\ [Work!Next]_Work!vars
  => TitleInv' /\ Work!TitleIsStored'
<1> SUFFICES ASSUME ServiceType, TitleInv, Work!TitleIsStored, [Work!Next]_Work!vars
             PROVE  TitleInv' /\ Work!TitleIsStored'
  OBVIOUS
<1> USE DEF TitleInv, Work!TitleIsStored
<1>t. /\ DOMAIN task = {"phase", "step", "todo", "usage", "gate", "injected"}
      /\ DOMAIN ui = {"busy", "ended", "title", "renamed"}
      /\ DOMAIN titler = {"step", "name"} /\ titler.step \in {"none", "asking", "telling"}
  BY DEF ServiceType, TaskRecord, UiRecord
<1>k. ASSUME titler' = titler, title' = title, task.gate => task'.gate, ui'.title = ui.title,
             ui'.renamed = ui.renamed
      PROVE  TitleInv' /\ Work!TitleIsStored'
  BY <1>k
<1>1. ASSUME NEW saved \in BOOLEAN, NEW enabled \in BOOLEAN, Work!Placeholder(saved, enabled)
      PROVE  TitleInv' /\ Work!TitleIsStored'
  <2>1. /\ ~task.gate /\ task' = [task EXCEPT !.step = "turn", !.gate = TRUE]
        /\ titler' = [titler EXCEPT !.step = IF enabled THEN "asking" ELSE "none"]
    BY <1>1 DEF Work!Placeholder
  <2>2. task'.gate /\ titler.step = "none" /\ titler'.step \in {"asking", "none"}
    BY <2>1, <1>t
  <2>3. CASE saved
    <3>1. ui'.title = title' /\ ~ui'.renamed
      BY <1>1, <2>3, <1>t DEF Work!Placeholder
    <3> QED
      BY <2>2, <3>1
  <2>4. CASE ~saved
    <3>1. ui' = ui /\ title' = title
      BY <1>1, <2>4 DEF Work!Placeholder, Work!SetTitle
    <3> QED
      BY <2>2, <3>1
  <2> QED
    BY <2>3, <2>4
<1>2. CASE Work!NoTitle
  <2>1. titler.step = "asking" /\ titler'.step = "none" /\ UNCHANGED <<task, ui, title>>
    BY <1>2, <1>t DEF Work!NoTitle
  <2> QED
    BY <2>1
<1>3. CASE Work!Generated
  <2>1. /\ titler.step = "asking" /\ titler' = [step |-> "telling", name |-> title'] /\ task' = task
    BY <1>3 DEF Work!Generated
  <2> QED
    BY <2>1
<1>4. CASE Work!TellTitle
  <2>1. /\ titler.step = "telling" /\ titler'.step = "none" /\ UNCHANGED <<task, title>>
        /\ ui'.title = titler.name /\ ui'.renamed = ui.renamed
    BY <1>4, <1>t DEF Work!TellTitle
  <2> QED
    BY <2>1
<1>5. CASE Work!UpdateTitle
  <2>1. ui'.renamed /\ UNCHANGED <<task, titler>>
    BY <1>5, <1>t DEF Work!UpdateTitle
  <2> QED
    BY <2>1
\* No other step touches the title.
<1>6. CASE (\E b \in Work!Batches : Work!TakeBatch(b)) \/ Work!SkipCompression \/ Work!BatchDone
             \/ Work!ManualUnresolved \/ (\E blocked \in BOOLEAN : Work!InjectUser(blocked))
             \/ Work!SkipTitle \/ Work!TurnEnds \/ (\E above \in BOOLEAN : Work!Reply(above))
  <2>1. titler' = titler /\ title' = title /\ ui' = ui
    BY <1>6 DEF Work!TakeBatch, Work!SkipCompression, Work!BatchDone, Work!ManualUnresolved,
       Work!InjectUser, Work!SkipTitle, Work!TurnEnds, Work!Reply
  <2>2. task.gate => task'.gate
    BY <1>6, <1>t DEF Work!TakeBatch, Work!SkipCompression, Work!BatchDone, Work!ManualUnresolved,
       Work!InjectUser, Work!SkipTitle, Work!TurnEnds, Work!Reply, Work!Goto
  <2> QED
    BY <2>1, <2>2, <1>k
<1>7. CASE Work!AutoCompress \/ Work!ManualCompress \/ Work!LoadFails \/ Work!SummaryFails
             \/ Work!MarkFails \/ Work!Ended
  <2>1. titler' = titler /\ title' = title
    BY <1>7 DEF Work!AutoCompress, Work!Begin, Work!ManualCompress, Work!LoadFails,
       Work!SummaryFails, Work!MarkFails, Work!Failed, Work!Ended
  <2>2. task'.gate = task.gate
    BY <1>7, <1>t DEF Work!AutoCompress, Work!Begin, Work!ManualCompress, Work!LoadFails,
       Work!SummaryFails, Work!MarkFails, Work!Failed, Work!Ended, Work!Goto
  <2>3. ui'.title = ui.title /\ ui'.renamed = ui.renamed
    BY <1>7, <1>t DEF Work!AutoCompress, Work!Begin, Work!ManualCompress, Work!LoadFails,
       Work!SummaryFails, Work!MarkFails, Work!Failed, Work!Ended
  <2> QED
    BY <2>1, <2>2, <2>3, <1>k
<1>8. CASE Work!LoadRows \/ Work!Piece \/ Work!ShowPiece \/ Work!SummaryEnds \/ Work!Drained
             \/ Work!MarkCompaction \/ Work!StopSession \/ Work!StopReturns \/ Work!StopTimesOut
             \/ Work!NoCut \/ (\E n \in DOMAIN rows : Work!CutTo(n)) \/ UNCHANGED Work!vars
  <2>1. titler' = titler /\ title' = title /\ ui' = ui
    BY <1>8 DEF Work!LoadRows, Work!Piece, Work!ShowPiece, Work!SummaryEnds, Work!Drained,
       Work!MarkCompaction, Work!StopSession, Work!StopReturns, Work!StopTimesOut, Work!NoCut,
       Work!CutTo, Work!vars
  <2>2. task'.gate = task.gate
    BY <1>8, <1>t DEF Work!LoadRows, Work!Piece, Work!ShowPiece, Work!SummaryEnds, Work!Drained,
       Work!MarkCompaction, Work!StopSession, Work!StopReturns, Work!StopTimesOut, Work!NoCut,
       Work!CutTo, Work!vars, Work!Goto
  <2> QED
    BY <2>1, <2>2, <1>k
<1> QED
  BY <1>1, <1>2, <1>3, <1>4, <1>5, <1>6, <1>7, <1>8 DEF Work!Next

LEMMA ServiceStart == Work!Init => ServiceInv
<1> SUFFICES ASSUME Work!Init PROVE ServiceInv
  OBVIOUS
<1> USE DEF Work!Init
<1>1. << >> \in Seq(HistoryRow) /\ << >> \in Seq({"user", "compress"}) /\ Work!Boundaries(<< >>) = {}
  BY DEF Work!Boundaries
<1>2. task \in TaskRecord /\ ui \in UiRecord /\ work \in WorkRecord
  BY <1>1 DEF TaskRecord, TaskStep, UiRecord, WorkRecord, Work!NoWork
<1>3. ServiceType
  BY <1>1, <1>2 DEF ServiceType
<1>4. PhaseInv /\ ReadInv /\ ReportInv /\ TitleInv
  BY <1>1 DEF PhaseInv, ReadInv, ReportInv, TitleInv
<1> QED
  BY <1>1, <1>3, <1>4 DEF ServiceInv, Work!SummaryCoversRows, Work!TitleIsStored

LEMMA ServiceStep == ServiceInv /\ [Work!Next]_Work!vars => ServiceInv'
BY ServiceTypeStep, PhaseStep, ReadStep, CoversStep, ReportStep, TitleStep DEF ServiceInv

LEMMA ServiceGives ==
  ServiceInv => Work!SummaryCoversRows /\ Work!CompressionReported /\ Work!TitleIsStored
BY DEF ServiceInv, ReportInv, Work!CompressionReported, Work!At

(***************************************************************************)
(* The shadow repository                                                   *)
(***************************************************************************)
SnapshotRow == [tree : Shadow!Tree, files : SUBSET File]
ShadowType ==
  /\ tree \in Shadow!Tree
  /\ DOMAIN repo = {"index", "known", "trees"} /\ repo.index \in Shadow!Tree
  /\ snaps \in [Session -> Seq(SnapshotRow)]
  /\ op \in [step : {"none", "add", "write", "diff", "checkout", "delete"},
             by : Session \cup {"nobody"}, at : Nat, prev : Shadow!Tree \cup {Shadow!NoTree},
             touched : SUBSET File, left : SUBSET File, meddled : SUBSET File]

\* What the one who holds the lock has in hand: a track the session's latest tree, a
\* restoration one of its rows.
HandInv ==
  /\ op.step # "none" => op.by \in Session
  /\ op.step \in {"add", "write", "diff"} => op.prev = Shadow!Latest(op.by)
  /\ op.step \in {"checkout", "delete"} => op.at \in DOMAIN snaps[op.by]

\* The rows between two rows of a session name every file in which their trees differ:
\* that of the later of the two alone would not outlive its row.
NamedBetween(s, i, j) == UNION {snaps[s][k].files : k \in i..j}
CoverInv ==
  \A s \in Session : \A i, j \in DOMAIN snaps[s] :
    i <= j => Shadow!Diff(snaps[s][i].tree, snaps[s][j].tree) \subseteq NamedBetween(s, i, j)

\* While the files of the base are checked out, those not left are as the base has them;
\* those it does not have come later.
RestoreInv ==
  /\ op.step = "checkout" =>
       \A f \in op.touched \ (op.left \cup op.meddled) :
         Shadow!Base[f] # Shadow!Absent => tree[f] = Shadow!Base[f]
  /\ op.step = "delete" => \A f \in op.left : Shadow!Base[f] = Shadow!Absent

ShadowInv ==
  /\ ShadowType /\ HandInv /\ CoverInv /\ RestoreInv
  /\ Shadow!RestoredToBase /\ Shadow!BaseIsKept

LEMMA SnapshotRows ==
  ASSUME ShadowType, NEW s \in Session
  PROVE  /\ snaps[s] \in Seq(SnapshotRow) /\ Len(snaps[s]) \in Nat /\ DOMAIN snaps[s] = 1..Len(snaps[s])
         /\ \A j \in DOMAIN snaps[s] : /\ snaps[s][j] \in SnapshotRow
                                      /\ snaps[s][j].tree \in Shadow!Tree
                                      /\ snaps[s][j].files \in SUBSET File
         /\ snaps[s] # << >> => Len(snaps[s]) \in DOMAIN snaps[s]
<1>1. snaps[s] \in Seq(SnapshotRow)
  BY DEF ShadowType
<1>2. Len(snaps[s]) \in Nat /\ DOMAIN snaps[s] = 1..Len(snaps[s])
  BY <1>1
<1>3. \A j \in DOMAIN snaps[s] : snaps[s][j] \in SnapshotRow
  BY <1>1
<1>4. snaps[s] # << >> => Len(snaps[s]) \in DOMAIN snaps[s]
  BY <1>1, <1>2
<1> QED
  BY <1>1, <1>2, <1>3, <1>4 DEF SnapshotRow

\* A rollback leaves the rows before its target.
LEMMA CutRows ==
  ASSUME ShadowType, NEW s \in Session, NEW at \in DOMAIN snaps[s]
  PROVE  /\ Shadow!Cut(s, at) \in [Session -> Seq(SnapshotRow)]
         /\ at - 1 \in Nat /\ at - 1 < Len(snaps[s])
         /\ DOMAIN Shadow!Cut(s, at)[s] = 1..(at - 1)
         /\ \A k \in 1..(at - 1) : Shadow!Cut(s, at)[s][k] = snaps[s][k]
         /\ \A q \in Session \ {s} : Shadow!Cut(s, at)[q] = snaps[q]
<1>1. snaps[s] \in Seq(SnapshotRow) /\ Len(snaps[s]) \in Nat /\ DOMAIN snaps[s] = 1..Len(snaps[s])
  BY SnapshotRows
<1> DEFINE m == at - 1
<1>2. m \in Nat /\ m < Len(snaps[s])
  BY <1>1
<1>3. Shadow!Cut(s, at) = [snaps EXCEPT ![s] = SubSeq(@, 1, m)]
  BY DEF Shadow!Cut
<1> HIDE DEF m
<1>4. \A k \in 1..m : snaps[s][k] \in SnapshotRow
  BY <1>1, <1>2
<1>5. /\ SubSeq(snaps[s], 1, m) \in Seq(SnapshotRow) /\ Len(SubSeq(snaps[s], 1, m)) = m
      /\ \A k \in 1..m : SubSeq(snaps[s], 1, m)[k] = snaps[s][k]
  BY <1>2, <1>4, SubSeqProperties, Z3
<1>6. DOMAIN SubSeq(snaps[s], 1, m) = 1..m
  BY <1>5
<1>7. /\ Shadow!Cut(s, at) \in [Session -> Seq(SnapshotRow)]
      /\ Shadow!Cut(s, at)[s] = SubSeq(snaps[s], 1, m)
      /\ \A q \in Session \ {s} : Shadow!Cut(s, at)[q] = snaps[q]
  BY <1>3, <1>5 DEF ShadowType
<1> QED
  BY <1>2, <1>5, <1>6, <1>7 DEF m

LEMMA ShadowTypeStep == ShadowType /\ HandInv /\ [Shadow!Next]_Shadow!vars => ShadowType' /\ HandInv'
<1> SUFFICES ASSUME ShadowType, HandInv, [Shadow!Next]_Shadow!vars PROVE ShadowType' /\ HandInv'
  OBVIOUS
<1>t. \A s \in Session :
        /\ snaps[s] \in Seq(SnapshotRow) /\ Len(snaps[s]) \in Nat /\ DOMAIN snaps[s] = 1..Len(snaps[s])
        /\ \A j \in DOMAIN snaps[s] : snaps[s][j].tree \in Shadow!Tree /\ snaps[s][j].files \in SUBSET File
        /\ snaps[s] # << >> => Len(snaps[s]) \in DOMAIN snaps[s]
  BY SnapshotRows
<1>h. /\ op.step # "none" => op.by \in Session
      /\ op.step \in {"checkout", "delete"} => op.at \in DOMAIN snaps[op.by]
  BY DEF HandInv
<1>n. ASSUME UNCHANGED <<tree, repo>>, op' = Shadow!NoOp, snaps' \in [Session -> Seq(SnapshotRow)]
      PROVE  ShadowType' /\ HandInv'
  <2>1. op'.step = "none"
    BY <1>n DEF Shadow!NoOp
  <2>2. Shadow!NoOp \in [step : {"none"}, by : {"nobody"}, at : Nat, prev : {Shadow!NoTree},
                         touched : SUBSET File, left : SUBSET File, meddled : SUBSET File]
    BY DEF Shadow!NoOp
  <2> QED
    BY <1>n, <2>1, <2>2 DEF ShadowType, HandInv
\* A step that leaves the rows alone and goes on with what it has in hand.
<1>g. ASSUME snaps' = snaps, tree' \in Shadow!Tree,
             DOMAIN repo' = DOMAIN repo, repo'.index \in Shadow!Tree,
             NEW step \in {"none", "write", "diff", "checkout", "delete"},
             NEW left \in SUBSET File, NEW meddled \in SUBSET File,
             op' = [op EXCEPT !.step = step, !.left = left, !.meddled = meddled],
             step = op.step \/ (op.step = "add" /\ step = "write") \/ (op.step = "write" /\ step = "diff")
               \/ (op.step = "checkout" /\ step = "delete")
      PROVE  ShadowType' /\ HandInv'
  <2>1. \A s : Shadow!Latest(s)' = Shadow!Latest(s)
    BY <1>g DEF Shadow!Latest
  <2>2. op' \in [step : {"none", "add", "write", "diff", "checkout", "delete"},
             by : Session \cup {"nobody"}, at : Nat, prev : Shadow!Tree \cup {Shadow!NoTree},
             touched : SUBSET File, left : SUBSET File, meddled : SUBSET File]
    BY <1>g DEF ShadowType
  <2>3. op'.step = step /\ op'.by = op.by /\ op'.prev = op.prev /\ op'.at = op.at
    BY <1>g DEF ShadowType
  <2>4. HandInv'
    BY <1>g, <2>1, <2>3 DEF HandInv
  <2> QED
    BY <1>g, <2>2, <2>4 DEF ShadowType
<1>1. ASSUME NEW s \in Session, Shadow!BeginTrack(s) PROVE ShadowType' /\ HandInv'
  <2>1. /\ op' = [Shadow!NoOp EXCEPT !.step = "add", !.by = s, !.prev = Shadow!Latest(s)]
        /\ UNCHANGED <<tree, repo, snaps>>
    BY <1>1 DEF Shadow!BeginTrack, Shadow!Previous
  <2>2. Shadow!Latest(s) \in Shadow!Tree \cup {Shadow!NoTree}
    BY <1>t DEF Shadow!Latest
  <2>3. Shadow!Latest(s)' = Shadow!Latest(s)
    BY <2>1 DEF Shadow!Latest
  <2> QED
    BY <2>1, <2>2, <2>3 DEF Shadow!NoOp, ShadowType, HandInv
<1>2. ASSUME NEW s \in Session, NEW i, Shadow!BeginRestore(s, i) PROVE ShadowType' /\ HandInv'
  <2> DEFINE touched == Shadow!Touched(s, i)
             left == Shadow!Preview(s, i).restore
  <2>1. i \in DOMAIN snaps[s] /\ UNCHANGED <<tree, repo, snaps>>
    BY <1>2 DEF Shadow!BeginRestore, Shadow!Impact
  <2>2. op' = [Shadow!NoOp EXCEPT !.step = "checkout", !.by = s, !.at = i, !.touched = touched,
                                  !.left = left]
    BY <1>2 DEF Shadow!BeginRestore
  <2>3. i \in Nat /\ i >= 1
    BY <2>1, <1>t
  <2>4. \A j \in i..Len(snaps[s]) : snaps[s][j].files \in SUBSET File
    BY <2>3, <1>t
  <2>5. touched \in SUBSET File
    BY <2>4 DEF Shadow!Touched
  <2>6. left \in SUBSET File
    BY <2>5 DEF Shadow!Preview, Shadow!Classified
  <2> HIDE DEF touched, left
  <2>7. op' = [step |-> "checkout", by |-> s, at |-> i, prev |-> Shadow!NoTree, touched |-> touched,
               left |-> left, meddled |-> {}]
    BY <2>2 DEF Shadow!NoOp
  <2> QED
    BY <2>1, <2>3, <2>5, <2>6, <2>7 DEF ShadowType, HandInv
<1>3. CASE Shadow!StageAll
  <2> DEFINE staged == Shadow!Staged
  <2>1. staged \in Shadow!Tree
    BY DEF Shadow!Staged, Shadow!Tree, ShadowType
  <2>2. /\ repo' = [repo EXCEPT !.index = staged, !.known = @ /\ staged = repo.index]
        /\ op.step = "add" /\ op' = [op EXCEPT !.step = "write"] /\ UNCHANGED <<tree, snaps>>
    BY <1>3 DEF Shadow!StageAll
  <2> HIDE DEF staged
  <2>3. op' = [op EXCEPT !.step = "write", !.left = op.left, !.meddled = op.meddled]
    BY <2>2 DEF ShadowType
  <2> QED
    BY <2>1, <2>2, <2>3, <1>g DEF ShadowType
<1>4. CASE Shadow!WriteTree
  <2>1. /\ repo' = [repo EXCEPT !.known = TRUE, !.trees = Shadow!Written]
        /\ op.step = "write" /\ op' = [op EXCEPT !.step = "diff"] /\ UNCHANGED <<tree, snaps>>
    BY <1>4 DEF Shadow!WriteTree
  <2>2. op' = [op EXCEPT !.step = "diff", !.left = op.left, !.meddled = op.meddled]
    BY <2>1 DEF ShadowType
  <2> QED
    BY <2>1, <2>2, <1>g DEF ShadowType
<1>5. CASE Shadow!DiffTree
  <2> DEFINE r == Shadow!Outcome(repo.index, Shadow!Changed(op.prev, repo.index))
  <2>1. /\ snaps' = [snaps EXCEPT ![op.by] = Append(@, r)] /\ op' = Shadow!NoOp
        /\ UNCHANGED <<tree, repo>> /\ op.by \in Session
    BY <1>5, <1>h DEF Shadow!DiffTree
  <2>2. r \in SnapshotRow
    BY DEF SnapshotRow, Shadow!Outcome, Shadow!Changed, Shadow!Diff, ShadowType
  <2> HIDE DEF r
  <2>3. snaps' \in [Session -> Seq(SnapshotRow)]
    <3>1. Append(snaps[op.by], r) \in Seq(SnapshotRow)
      BY <2>1, <2>2, <1>t
    <3> QED
      BY <2>1, <3>1 DEF ShadowType
  <2> QED
    BY <2>1, <2>3, <1>n
<1>6. CASE Shadow!TrackFails \/ Shadow!RestoreFails
  BY <1>6, <1>n DEF Shadow!TrackFails, Shadow!RestoreFails, ShadowType
<1>7. CASE Shadow!Checkout
  <2> DEFINE chunk == Shadow!Chunk(op.left)
             index == Shadow!FromBase(chunk, repo.index)
  <2>1. /\ tree' = Shadow!FromBase(chunk, tree) /\ op.step = "checkout"
        /\ repo' = [repo EXCEPT !.index = index, !.known = @ /\ index = repo.index]
        /\ op' = [op EXCEPT !.left = @ \ chunk, !.meddled = @ \ chunk] /\ snaps' = snaps
    BY <1>7 DEF Shadow!Checkout
  <2>2. Shadow!Base \in Shadow!Tree
    BY <2>1, <1>h, <1>t DEF Shadow!Base
  <2>3. tree' \in Shadow!Tree /\ index \in Shadow!Tree
    BY <2>1, <2>2 DEF Shadow!FromBase, Shadow!Tree, ShadowType
  <2> HIDE DEF chunk, index
  <2>4. op' = [op EXCEPT !.step = "checkout", !.left = op.left \ chunk, !.meddled = op.meddled \ chunk]
    BY <2>1 DEF ShadowType
  <2>5. /\ op.left \ chunk \in SUBSET File /\ op.meddled \ chunk \in SUBSET File
        /\ snaps' = snaps /\ DOMAIN repo' = DOMAIN repo /\ repo'.index = index
    BY <2>1 DEF ShadowType
  <2> QED
    BY <2>1, <2>3, <2>4, <2>5, <1>g
<1>8. CASE Shadow!CheckedOut
  <2> DEFINE left == Shadow!Classified(Shadow!Base, op.touched).delete
  <2>1. op.step = "checkout" /\ UNCHANGED <<tree, repo, snaps>>
        /\ op' = [op EXCEPT !.step = "delete", !.left = left]
    BY <1>8 DEF Shadow!CheckedOut
  <2>2. left \in SUBSET File
    BY DEF Shadow!Classified, ShadowType
  <2> HIDE DEF left
  <2>3. op' = [op EXCEPT !.step = "delete", !.left = left, !.meddled = op.meddled]
    BY <2>1 DEF ShadowType
  <2> QED
    BY <2>1, <2>2, <2>3, <1>g DEF ShadowType
<1>9. ASSUME NEW f \in File, Shadow!Delete(f) PROVE ShadowType' /\ HandInv'
  <2>1. tree' \in Shadow!Tree
    BY <1>9 DEF Shadow!Delete, Shadow!Tree, ShadowType
  <2>2. /\ op' = [op EXCEPT !.step = op.step, !.left = op.left \ {f}, !.meddled = op.meddled \ {f}]
        /\ op.step = "delete" /\ UNCHANGED <<repo, snaps>>
    BY <1>9 DEF Shadow!Delete, ShadowType
  <2>3. op.left \ {f} \in SUBSET File /\ op.meddled \ {f} \in SUBSET File /\ repo.index \in Shadow!Tree
    BY DEF ShadowType
  <2> QED
    BY <2>1, <2>2, <2>3, <1>g
<1>10. CASE Shadow!Restored
  <2>1. /\ snaps' = Shadow!Cut(op.by, op.at) /\ op' = Shadow!NoOp
        /\ UNCHANGED <<tree, repo>> /\ op.by \in Session /\ op.at \in DOMAIN snaps[op.by]
    BY <1>10, <1>h DEF Shadow!Restored
  <2> QED
    BY <2>1, <1>n, CutRows
\* The session that holds the lock, if one does, is another: its rows are all there.
<1>17. ASSUME NEW s \in Session, NEW i, NEW files, Shadow!CutOnly(s, i, files)
       PROVE  ShadowType' /\ HandInv'
  <2>1. /\ snaps' = Shadow!Cut(s, i) /\ i \in DOMAIN snaps[s] /\ op.by # s
        /\ UNCHANGED <<tree, repo, op>>
    BY <1>17 DEF Shadow!CutOnly
  <2>2. snaps' \in [Session -> Seq(SnapshotRow)]
    BY <2>1, CutRows
  <2>3. snaps'[op.by] = snaps[op.by]
    BY <2>1 DEF Shadow!Cut, ShadowType
  <2>4. Shadow!Latest(op.by)' = Shadow!Latest(op.by)
    BY <2>1, <2>3 DEF Shadow!Latest
  <2> QED
    BY <2>1, <2>2, <2>3, <2>4 DEF ShadowType, HandInv
<1>18. CASE Shadow!Restart
  BY <1>18, <1>n DEF Shadow!Restart, ShadowType
<1>11. ASSUME NEW f \in File, NEW c \in Small \cup Big \cup {Shadow!Absent}, Shadow!Edit(f, c)
       PROVE  ShadowType' /\ HandInv'
  <2>1. tree' \in Shadow!Tree
    BY <1>11 DEF Shadow!Edit, Shadow!Tree, ShadowType
  <2>2. op' = op \/ op' = [op EXCEPT !.meddled = @ \cup {f}]
    BY <1>11 DEF Shadow!Edit
  <2>3. PICK meddled \in SUBSET File : op' = [op EXCEPT !.step = op.step, !.left = op.left, !.meddled = meddled]
    BY <2>2 DEF ShadowType
  <2>4. UNCHANGED <<repo, snaps>>
    BY <1>11 DEF Shadow!Edit
  <2>5. CASE op.step = "add"
    <3>1. \A s : Shadow!Latest(s)' = Shadow!Latest(s)
      BY <2>4 DEF Shadow!Latest
    <3> QED
      BY <2>1, <2>3, <2>4, <2>5, <3>1 DEF ShadowType, HandInv
  <2>6. CASE op.step # "add"
    BY <2>1, <2>3, <2>4, <2>6, <1>g DEF ShadowType
  <2> QED
    BY <2>5, <2>6
<1>12. ASSUME UNCHANGED <<tree, snaps, op>>, DOMAIN repo' = DOMAIN repo, repo'.index = repo.index
       PROVE  ShadowType' /\ HandInv'
  <2>1. \A s : Shadow!Latest(s)' = Shadow!Latest(s)
    BY <1>12 DEF Shadow!Latest
  <2> QED
    BY <1>12, <2>1 DEF ShadowType, HandInv
<1>13. CASE Shadow!Gc
  <2>1. DOMAIN repo' = DOMAIN repo /\ repo'.index = repo.index /\ UNCHANGED <<tree, snaps, op>>
    BY <1>13 DEF Shadow!Gc, ShadowType
  <2> QED
    BY <2>1, <1>12
<1>14. ASSUME NEW f \in File, Shadow!EditIgnore(f) PROVE ShadowType' /\ HandInv'
  BY <1>12, <1>14 DEF Shadow!EditIgnore
<1>15. CASE Shadow!NextDay
  BY <1>12, <1>15 DEF Shadow!NextDay
<1>16. CASE UNCHANGED Shadow!vars
  BY <1>12, <1>16 DEF Shadow!vars
<1> QED
  BY <1>1, <1>2, <1>3, <1>4, <1>5, <1>6, <1>7, <1>8, <1>9, <1>10, <1>11, <1>13, <1>14, <1>15, <1>16,
     <1>17, <1>18
  DEF Shadow!Next

LEMMA CoverStep ==
  ShadowType /\ HandInv /\ CoverInv /\ [Shadow!Next]_Shadow!vars => CoverInv'
<1> SUFFICES ASSUME ShadowType, HandInv, CoverInv, [Shadow!Next]_Shadow!vars,
                    NEW s \in Session, NEW i \in DOMAIN snaps'[s], NEW j \in DOMAIN snaps'[s], i <= j
             PROVE  Shadow!Diff(snaps'[s][i].tree, snaps'[s][j].tree) \subseteq NamedBetween(s, i, j)'
  BY DEF CoverInv
<1> DEFINE n == Len(snaps[s])
<1>t. /\ snaps[s] \in Seq(SnapshotRow) /\ n \in Nat /\ DOMAIN snaps[s] = 1..n
      /\ \A k \in 1..n : snaps[s][k].tree \in Shadow!Tree
      /\ \A q \in Session : DOMAIN snaps[q] = 1..Len(snaps[q])
      /\ snaps \in [Session -> Seq(SnapshotRow)]
  BY SnapshotRows DEF ShadowType
\* Rows that stay in their places.
<1>s. ASSUME i \in 1..n, j \in 1..n, \A k \in i..j : snaps'[s][k] = snaps[s][k]
      PROVE  Shadow!Diff(snaps'[s][i].tree, snaps'[s][j].tree) \subseteq NamedBetween(s, i, j)'
  <2>1. snaps'[s][i] = snaps[s][i] /\ snaps'[s][j] = snaps[s][j]
    BY <1>s, <1>t
  <2>2. NamedBetween(s, i, j)' = NamedBetween(s, i, j)
    BY <1>s DEF NamedBetween
  <2> QED
    BY <1>s, <1>t, <2>1, <2>2 DEF CoverInv
<1>1. CASE snaps'[s] = snaps[s]
  BY <1>1, <1>s, <1>t
<1>2. CASE Shadow!DiffTree /\ op.by = s
  <2> DEFINE r == [tree |-> repo.index, files |-> Shadow!Changed(op.prev, repo.index)]
  <2>1. snaps'[s] = Append(snaps[s], r)
    BY <1>2, <1>t DEF Shadow!DiffTree, Shadow!Outcome
  <2>2. /\ DOMAIN snaps'[s] = 1..(n + 1) /\ snaps'[s][n + 1] = r
        /\ \A k \in 1..n : snaps'[s][k] = snaps[s][k]
    BY <2>1, <1>t
  <2>3. CASE j \in 1..n
    BY <2>2, <2>3, <1>s, <1>t
  <2>4. CASE i = n + 1
    BY <2>2, <2>4, <1>t DEF Shadow!Diff
  <2>5. CASE i \in 1..n /\ j = n + 1
    <3> DEFINE last == snaps[s][n].tree
    <3>1. n \in 1..n /\ last \in Shadow!Tree /\ op.prev = last
      <4>1. snaps[s] # << >>
        BY <1>t, <2>5
      <4> QED
        BY <4>1, <2>5, <1>2, <1>t DEF Shadow!DiffTree, HandInv, Shadow!Latest
    <3>2. Shadow!Diff(last, repo.index) \subseteq r.files
      <4>1. CASE last = Shadow!NoTree
        <5>1. File = {}
          BY <3>1, <4>1 DEF Shadow!Tree, Shadow!NoTree
        <5> QED
          BY <5>1 DEF Shadow!Diff
      <4>2. CASE last # Shadow!NoTree
        BY <3>1, <4>2 DEF Shadow!Changed
      <4> QED
        BY <4>1, <4>2
    <3>3. Shadow!Diff(snaps[s][i].tree, last) \subseteq NamedBetween(s, i, n)
      BY <3>1, <2>5, <1>t DEF CoverInv
    <3>4. NamedBetween(s, i, n) \cup r.files \subseteq NamedBetween(s, i, j)'
      <4> HIDE DEF r
      <4>1. r.files \subseteq NamedBetween(s, i, j)'
        BY <2>2, <2>5, <1>t DEF NamedBetween
      <4>2. ASSUME NEW k \in i..n PROVE snaps[s][k].files \subseteq NamedBetween(s, i, j)'
        <5>1. k \in i..j /\ k \in 1..n
          BY <4>2, <2>5, <1>t
        <5> QED
          BY <5>1, <2>2 DEF NamedBetween
      <4> QED
        BY <4>1, <4>2 DEF NamedBetween
    <3>5. snaps'[s][i].tree = snaps[s][i].tree /\ snaps'[s][j].tree = repo.index
      BY <2>2, <2>5
    <3> QED
      BY <3>2, <3>3, <3>4, <3>5 DEF Shadow!Diff
  <2> QED
    BY <2>2, <2>3, <2>4, <2>5, <1>t
<1>3. ASSUME NEW at \in DOMAIN snaps[s], snaps' = Shadow!Cut(s, at)
      PROVE  Shadow!Diff(snaps'[s][i].tree, snaps'[s][j].tree) \subseteq NamedBetween(s, i, j)'
  <2>1. /\ at - 1 \in Nat /\ at - 1 < n
        /\ DOMAIN snaps'[s] = 1..(at - 1) /\ \A k \in 1..(at - 1) : snaps'[s][k] = snaps[s][k]
    BY <1>3, CutRows
  <2>2. i \in 1..n /\ j \in 1..n /\ \A k \in i..j : k \in 1..(at - 1)
    BY <2>1, <1>t
  <2> QED
    BY <2>1, <2>2, <1>s
<1>4. ASSUME snaps'[s] # snaps[s]
      PROVE  \/ Shadow!DiffTree /\ op.by = s
             \/ \E at \in DOMAIN snaps[s] : snaps' = Shadow!Cut(s, at)
  <2>1. \/ Shadow!DiffTree \/ Shadow!Restored
        \/ \E q \in Session, at \in 1..MaxSnaps, files \in BOOLEAN : Shadow!CutOnly(q, at, files)
    BY <1>4 DEF Shadow!Next, Shadow!BeginTrack, Shadow!BeginRestore, Shadow!StageAll, Shadow!WriteTree,
       Shadow!TrackFails, Shadow!Checkout, Shadow!CheckedOut, Shadow!RestoreFails, Shadow!Delete,
       Shadow!EditIgnore, Shadow!Edit, Shadow!Gc, Shadow!NextDay, Shadow!Restart, Shadow!vars
  <2>2. CASE Shadow!DiffTree
    BY <1>4, <1>t, <2>2 DEF Shadow!DiffTree
  <2>3. CASE Shadow!Restored
    <3>1. /\ snaps' = Shadow!Cut(op.by, op.at) /\ op.by \in Session /\ op.at \in DOMAIN snaps[op.by]
      BY <2>3 DEF Shadow!Restored, HandInv
    <3>2. op.by = s
      BY <3>1, <1>4, CutRows
    <3> QED
      BY <3>1, <3>2
  <2>4. ASSUME NEW q \in Session, NEW at, NEW files, Shadow!CutOnly(q, at, files)
        PROVE  \E k \in DOMAIN snaps[s] : snaps' = Shadow!Cut(s, k)
    <3>1. snaps' = Shadow!Cut(q, at) /\ at \in DOMAIN snaps[q]
      BY <2>4 DEF Shadow!CutOnly
    <3>2. q = s
      BY <3>1, <1>4, CutRows
    <3> QED
      BY <3>1, <3>2
  <2> QED
    BY <2>1, <2>2, <2>3, <2>4
<1> QED
  BY <1>1, <1>2, <1>3, <1>4

LEMMA RestoreStep ==
  /\ ShadowType /\ HandInv /\ RestoreInv /\ Shadow!RestoredToBase /\ Shadow!BaseIsKept
  /\ [Shadow!Next]_Shadow!vars
  => RestoreInv' /\ Shadow!RestoredToBase' /\ Shadow!BaseIsKept'
<1> SUFFICES ASSUME ShadowType, HandInv, RestoreInv, Shadow!RestoredToBase, Shadow!BaseIsKept,
                    [Shadow!Next]_Shadow!vars
             PROVE  RestoreInv' /\ Shadow!RestoredToBase' /\ Shadow!BaseIsKept'
  OBVIOUS
<1> USE DEF RestoreInv, Shadow!RestoredToBase, Shadow!BaseIsKept
<1>t. /\ tree \in Shadow!Tree /\ DOMAIN repo = {"index", "known", "trees"}
      /\ DOMAIN op = {"step", "by", "at", "prev", "touched", "left", "meddled"}
      /\ op.touched \in SUBSET File
  BY DEF ShadowType
<1>b. ASSUME NEW s \in Session, NEW i, Shadow!BeginRestore(s, i)
      PROVE  RestoreInv' /\ Shadow!RestoredToBase' /\ Shadow!BaseIsKept'
  <2> DEFINE touched == Shadow!Touched(s, i)
             base == snaps[s][i].tree
             left == Shadow!Preview(s, i).restore
  <2>1. op' = [step |-> "checkout", by |-> s, at |-> i, prev |-> Shadow!NoTree, touched |-> touched,
               left |-> left, meddled |-> {}]
    BY <1>b DEF Shadow!BeginRestore, Shadow!NoOp
  <2>0. touched \subseteq File
    <3>1. /\ i \in DOMAIN snaps[s] /\ DOMAIN snaps[s] = 1..Len(snaps[s]) /\ Len(snaps[s]) \in Nat
          /\ \A j \in DOMAIN snaps[s] : snaps[s][j].files \in SUBSET File
      BY <1>b, SnapshotRows DEF Shadow!BeginRestore, Shadow!Impact
    <3>2. \A j \in i..Len(snaps[s]) : snaps[s][j].files \in SUBSET File
      BY <3>1
    <3> QED
      BY <3>2 DEF Shadow!Touched
  <2>2. left = {f \in touched : base[f] # Shadow!Absent}
    BY <2>0 DEF Shadow!Preview, Shadow!Classified, Shadow!InTree
  <2>3. Shadow!Stored(base) /\ UNCHANGED <<tree, repo, snaps>>
    BY <1>b DEF Shadow!BeginRestore
  <2>4. Shadow!Base' = base
    BY <2>1, <2>3 DEF Shadow!Base
  <2> HIDE DEF touched, base, left
  <2>5. op'.step = "checkout" /\ op'.touched = touched /\ op'.left = left /\ op'.meddled = {}
    BY <2>1
  <2> QED
    BY <2>2, <2>3, <2>4, <2>5 DEF Shadow!Stored
<1>c. CASE Shadow!Checkout
  <2> DEFINE chunk == Shadow!Chunk(op.left)
             index == Shadow!FromBase(chunk, repo.index)
  <2>1. /\ op.step = "checkout" /\ snaps' = snaps
        /\ tree' = Shadow!FromBase(chunk, tree)
        /\ repo' = [repo EXCEPT !.index = index, !.known = @ /\ index = repo.index]
        /\ op' = [op EXCEPT !.left = @ \ chunk, !.meddled = @ \ chunk]
    BY <1>c DEF Shadow!Checkout
  <2>2. /\ op'.step = "checkout" /\ op'.touched = op.touched /\ op'.by = op.by /\ op'.at = op.at
        /\ op'.left = op.left \ chunk /\ op'.meddled = op.meddled \ chunk
    BY <2>1, <1>t
  <2>3. Shadow!Base' = Shadow!Base
    BY <2>1, <2>2 DEF Shadow!Base
  <2>4. repo'.trees = repo.trees
    BY <2>1, <1>t
  <2>5. \A f \in File : tree'[f] = IF f \in chunk THEN Shadow!Base[f] ELSE tree[f]
    BY <2>1 DEF Shadow!FromBase
  <2> HIDE DEF chunk, index
  <2> QED
    BY <2>1, <2>2, <2>3, <2>4, <2>5, <1>t DEF Shadow!Stored
<1>d. CASE Shadow!CheckedOut
  <2>1. /\ op.step = "checkout" /\ op.left = {} /\ UNCHANGED <<tree, repo, snaps>>
        /\ op' = [op EXCEPT !.step = "delete", !.left = Shadow!Classified(Shadow!Base, op.touched).delete]
    BY <1>d DEF Shadow!CheckedOut
  <2>2. /\ op'.step = "delete" /\ op'.touched = op.touched /\ op'.by = op.by /\ op'.at = op.at
        /\ op'.left = {f \in op.touched : Shadow!Base[f] = Shadow!Absent} /\ op'.meddled = op.meddled
    BY <2>1, <1>t DEF Shadow!Classified, Shadow!InTree
  <2>3. Shadow!Base' = Shadow!Base
    BY <2>1, <2>2 DEF Shadow!Base
  <2> QED
    BY <2>1, <2>2, <2>3
<1>e. ASSUME NEW f \in File, Shadow!Delete(f)
      PROVE  RestoreInv' /\ Shadow!RestoredToBase' /\ Shadow!BaseIsKept'
  <2>1. /\ op.step = "delete" /\ f \in op.left /\ UNCHANGED <<repo, snaps>>
        /\ tree' = [tree EXCEPT ![f] = Shadow!Absent]
        /\ op' = [op EXCEPT !.left = @ \ {f}, !.meddled = @ \ {f}]
    BY <1>e DEF Shadow!Delete
  <2>2. /\ op'.step = "delete" /\ op'.touched = op.touched /\ op'.by = op.by /\ op'.at = op.at
        /\ op'.left = op.left \ {f} /\ op'.meddled = op.meddled \ {f}
    BY <2>1, <1>t
  <2>3. Shadow!Base' = Shadow!Base
    BY <2>1, <2>2 DEF Shadow!Base
  <2>4. \A g \in File : tree'[g] = IF g = f THEN Shadow!Absent ELSE tree[g]
    BY <2>1, <1>t DEF Shadow!Tree
  <2> QED
    BY <2>1, <2>2, <2>3, <2>4, <1>t
<1>f. ASSUME NEW f \in File, NEW c \in Small \cup Big \cup {Shadow!Absent}, Shadow!Edit(f, c)
      PROVE  RestoreInv' /\ Shadow!RestoredToBase' /\ Shadow!BaseIsKept'
  <2>1. UNCHANGED <<repo, snaps>> /\ tree' = [tree EXCEPT ![f] = c]
    BY <1>f DEF Shadow!Edit
  <2>2. (op = Shadow!NoOp /\ op' = op) \/ op' = [op EXCEPT !.meddled = @ \cup {f}]
    BY <1>f DEF Shadow!Edit
  <2>3. CASE op = Shadow!NoOp /\ op' = op
    BY <2>3 DEF Shadow!NoOp
  <2>4. CASE op' = [op EXCEPT !.meddled = @ \cup {f}]
    <3>1. /\ op'.step = op.step /\ op'.touched = op.touched /\ op'.by = op.by /\ op'.at = op.at
          /\ op'.left = op.left /\ op'.meddled = op.meddled \cup {f}
      BY <2>4, <1>t
    <3>2. Shadow!Base' = Shadow!Base
      BY <2>1, <3>1 DEF Shadow!Base
    <3>3. \A g \in File : g # f => tree'[g] = tree[g]
      BY <2>1, <1>t DEF Shadow!Tree
    <3> QED
      BY <2>1, <3>1, <3>2, <3>3, <1>t DEF Shadow!Stored
  <2> QED
    BY <2>2, <2>3, <2>4
\* Every other step has no restoration in hand, before or after it.
<1>o. ASSUME op'.step \notin {"checkout", "delete"}
      PROVE  RestoreInv' /\ Shadow!RestoredToBase' /\ Shadow!BaseIsKept'
  BY <1>o
<1>u. ASSUME UNCHANGED <<tree, snaps, op>>, repo' = repo \/ op = Shadow!NoOp
      PROVE  RestoreInv' /\ Shadow!RestoredToBase' /\ Shadow!BaseIsKept'
  <2>1. Shadow!Base' = Shadow!Base
    BY <1>u DEF Shadow!Base
  <2> QED
    <3>1. CASE repo' = repo
      BY <1>u, <2>1, <3>1 DEF Shadow!Stored
    <3>2. CASE op = Shadow!NoOp
      <4>1. op'.step = "none"
        BY <1>u, <3>2 DEF Shadow!NoOp
      <4> QED
        BY <4>1, <1>o
    <3> QED
      BY <1>u, <3>1, <3>2
<1>1. ASSUME NEW s \in Session, Shadow!BeginTrack(s) PROVE op'.step = "add"
  BY <1>1 DEF Shadow!BeginTrack, Shadow!NoOp
<1>2. CASE Shadow!StageAll \/ Shadow!WriteTree \/ Shadow!DiffTree \/ Shadow!TrackFails
             \/ Shadow!Restored \/ Shadow!RestoreFails \/ Shadow!Restart
  <2>1. op' = [op EXCEPT !.step = "write"] \/ op' = [op EXCEPT !.step = "diff"] \/ op' = Shadow!NoOp
    BY <1>2 DEF Shadow!StageAll, Shadow!WriteTree, Shadow!DiffTree, Shadow!TrackFails,
       Shadow!Restored, Shadow!RestoreFails, Shadow!Restart
  <2>2. op'.step \in {"none", "write", "diff"}
    <3>1. CASE op' = [op EXCEPT !.step = "write"] \/ op' = [op EXCEPT !.step = "diff"]
      BY <3>1, <1>t
    <3>2. CASE op' = Shadow!NoOp
      BY <3>2 DEF Shadow!NoOp
    <3> QED
      BY <2>1, <3>1, <3>2
  <2> QED
    BY <2>2, <1>o
<1>3. CASE Shadow!Gc \/ Shadow!NextDay \/ (\E f \in File : Shadow!EditIgnore(f)) \/ UNCHANGED Shadow!vars
  BY <1>3, <1>u DEF Shadow!Gc, Shadow!NextDay, Shadow!EditIgnore, Shadow!vars
\* A session that does not hold the lock loses its last rows: those in hand stay.
<1>4. ASSUME NEW s \in Session, NEW at, NEW files, Shadow!CutOnly(s, at, files)
      PROVE  RestoreInv' /\ Shadow!RestoredToBase' /\ Shadow!BaseIsKept'
  <2>1. /\ snaps' = Shadow!Cut(s, at) /\ at \in DOMAIN snaps[s] /\ op.by # s
        /\ UNCHANGED <<tree, repo, op>>
    BY <1>4 DEF Shadow!CutOnly
  <2>2. snaps'[op.by] = snaps[op.by]
    BY <2>1 DEF Shadow!Cut, ShadowType
  <2>3. Shadow!Base' = Shadow!Base
    BY <2>1, <2>2 DEF Shadow!Base
  <2> QED
    BY <2>1, <2>3 DEF Shadow!Stored
<1> QED
  BY <1>b, <1>c, <1>d, <1>e, <1>f, <1>o, <1>1, <1>2, <1>3, <1>4 DEF Shadow!Next

LEMMA ShadowStart == Shadow!Init => ShadowInv
<1> SUFFICES ASSUME Shadow!Init PROVE ShadowInv
  OBVIOUS
<1>1. /\ tree \in Shadow!Tree /\ op = Shadow!NoOp /\ snaps = [s \in Session |-> << >>]
      /\ repo = [index |-> Shadow!Empty, known |-> FALSE, trees |-> << >>]
  BY DEF Shadow!Init
<1>2. Shadow!Empty \in Shadow!Tree
  BY DEF Shadow!Empty, Shadow!Tree
<1>3. ShadowType
  <2>1. << >> \in Seq(SnapshotRow)
    OBVIOUS
  <2>2. Shadow!NoOp \in [step : {"none"}, by : {"nobody"}, at : Nat, prev : {Shadow!NoTree},
                       touched : SUBSET File, left : SUBSET File, meddled : SUBSET File]
    BY DEF Shadow!NoOp
  <2> QED
    BY <1>1, <1>2, <2>1, <2>2 DEF ShadowType
<1>4. op.step = "none"
  BY <1>1 DEF Shadow!NoOp
<1>5. CoverInv
  BY <1>1 DEF CoverInv
<1> QED
  BY <1>3, <1>4, <1>5 DEF ShadowInv, HandInv, RestoreInv, Shadow!RestoredToBase, Shadow!BaseIsKept

LEMMA ShadowStep == ShadowInv /\ [Shadow!Next]_Shadow!vars => ShadowInv'
BY ShadowTypeStep, CoverStep, RestoreStep DEF ShadowInv

LEMMA ShadowGives ==
  ShadowInv => Shadow!RestoredToBase /\ Shadow!RowsCoverChanges /\ Shadow!BaseIsKept
<1> SUFFICES ASSUME ShadowInv PROVE Shadow!RowsCoverChanges
  BY DEF ShadowInv
<1> SUFFICES ASSUME NEW s \in Session, NEW i \in DOMAIN snaps[s]
             PROVE  Shadow!Diff(snaps[s][i].tree, Shadow!Latest(s)) \subseteq Shadow!Touched(s, i)
  BY DEF Shadow!RowsCoverChanges
<1>1. ShadowType /\ CoverInv
  BY DEF ShadowInv
<1>2. DOMAIN snaps[s] = 1..Len(snaps[s]) /\ Len(snaps[s]) \in Nat
  BY <1>1, SnapshotRows
<1>3. snaps[s] # << >> /\ Len(snaps[s]) \in DOMAIN snaps[s] /\ i <= Len(snaps[s])
  BY <1>2
<1> QED
  BY <1>1, <1>3 DEF CoverInv, NamedBetween, Shadow!Latest, Shadow!Touched

(***************************************************************************)
(* Keys of providers: a promised key stays where each step of a reload     *)
(* will look for it, and is with the engine once the step is done.         *)
(***************************************************************************)
\* A definition whose key is that of its variable.
Points(definition) == definition.pointer = TRUE /\ definition.inline = 0

EngineFields == {"up", "step", "registry", "config", "todo", "at", "current", "sure"}
AdminFields == {"step", "kind", "p", "env", "key", "doc", "alone"}
KeyType ==
  /\ DOMAIN toml = {"state", "providers"} /\ DOMAIN toml.providers = Provider
  /\ toml.state \in {"whole", "cut"} /\ env.state \in {"whole", "cut"}
  /\ DOMAIN env = {"state", "vars"} /\ DOMAIN env.vars = Provider
  /\ DOMAIN proc = Provider /\ DOMAIN promise = Provider /\ DOMAIN providers.providers = Provider
  /\ DOMAIN engine = Engine /\ DOMAIN admin = Admin
  /\ \A e \in Engine : DOMAIN engine[e] = EngineFields /\ DOMAIN engine[e].registry = Provider
                         /\ (engine[e].step \in {"put", "build"} => engine[e].todo \subseteq Provider)
  /\ \A a \in Admin : /\ DOMAIN admin[a] = AdminFields /\ DOMAIN admin[a].env = Provider
                      /\ DOMAIN admin[a].doc = Provider /\ admin[a].alone \in BOOLEAN
                      /\ admin[a].step # "idle" =>
                           admin[a].p \in Provider /\ admin[a].kind \in {"create", "update", "delete"}

\* A file is cut while an operation writes it and only then.
CutInv ==
  /\ env.state = "cut" => \A p \in Provider : env.vars[p] = 0
  /\ toml.state = "whole" \/ \E a \in Admin : admin[a].step = "write"
  /\ env.state = "whole" \/ \E a \in Admin : admin[a].step = "env_write"

\* A key under way is in the .env that will be written, and its definition points to it; in
\* the toml it stays what it is while no other operation is beside.
OpInv ==
  \A a \in Admin :
    /\ admin[a].step # "idle" /\ admin[a].key # 0 =>
         admin[a].kind # "delete" /\ admin[a].env[admin[a].p] = admin[a].key
    /\ admin[a].step \in {"truncate", "write"} /\ admin[a].key # 0 => Points(admin[a].doc[admin[a].p])
    /\ admin[a].step \in {"env", "env_write"} => admin[a].key # 0
    /\ admin[a].step \in {"env", "env_write"} /\ admin[a].alone =>
         toml.state = "whole" /\ Points(toml.providers[admin[a].p])
LoneInv ==
  \A a \in Admin : admin[a].step # "idle" /\ admin[a].alone =>
    \A b \in Admin : b # a => admin[b].step = "idle"

\* What keeps a promise: the two files, the process, and the files an operation will write,
\* which is alone.
Kept(p) ==
  /\ toml.state = "whole" => Points(toml.providers[p])
  /\ env.state = "whole" => env.vars[p] = promise[p]
  /\ proc[p] \in {0, promise[p]}
  /\ \A a \in Admin :
       /\ admin[a].step # "idle" => admin[a].alone
       /\ admin[a].step \in {"truncate", "write"} /\ p # admin[a].p => Points(admin[a].doc[p])
       /\ admin[a].step # "idle" /\ p # admin[a].p => admin[a].env[p] = promise[p]
       /\ admin[a].step \in {"write", "env", "env_write"} => p # admin[a].p
PromiseInv == \A p \in Provider : promise[p] # 0 => Kept(p)

\* What a reload has of a promised key after each of its steps; if it has any, no other
\* reload is beside it.
EngineInv ==
  \A e \in Engine :
    /\ ~engine[e].up => engine[e].step = "idle"
    /\ engine[e].step # "idle" => engine[e].sure = {}
    /\ \A p \in engine[e].sure : p \in Provider /\ promise[p] # 0 /\ engine[e].registry[p].key = promise[p]
    /\ engine[e].step # "idle" =>
         \A p \in engine[e].current :
           /\ p \in Provider /\ promise[p] # 0 /\ Points(engine[e].config[p])
           /\ \A f \in Engine : f # e => engine[f].step = "idle"
    /\ engine[e].step \in {"put", "build"} =>
         \A p \in engine[e].current :
           proc[p] = promise[p] /\ (p \notin engine[e].todo => engine[e].registry[p].key = promise[p])
    /\ engine[e].step = "build" =>
         \A p \in engine[e].current : p \in engine[e].at => providers.providers[p] = engine[e].config[p]
KeyInv == KeyType /\ CutInv /\ OpInv /\ LoneInv /\ PromiseInv /\ EngineInv

LEMMA KeyStart == Manager!Init => KeyInv
<1> SUFFICES ASSUME Manager!Init PROVE KeyInv
  OBVIOUS
<1>1. /\ DOMAIN toml = {"state", "providers"} /\ toml.state = "whole" /\ DOMAIN toml.providers = Provider
      /\ env = [state |-> "whole", vars |-> Manager!NoVars]
      /\ proc = Manager!NoVars /\ providers = [providers |-> Manager!Nothing, models |-> {}]
      /\ engine = [e \in Engine |-> Manager!Dead] /\ admin = [a \in Admin |-> Manager!Idle]
      /\ promise = Manager!NoVars
  BY DEF Manager!Init, Manager!Nothing, Manager!Handwritten
<1>2. /\ DOMAIN Manager!NoVars = Provider /\ DOMAIN Manager!Nothing = Provider
      /\ \A p \in Provider : Manager!NoVars[p] = 0
  BY DEF Manager!NoVars, Manager!Nothing
<1>3. /\ DOMAIN Manager!Dead = EngineFields /\ DOMAIN Manager!Dead.registry = Provider
      /\ Manager!Dead.step = "idle" /\ Manager!Dead.sure = {}
  BY DEF Manager!Dead, EngineFields
<1>4. /\ DOMAIN Manager!Idle = AdminFields /\ Manager!Idle.step = "idle"
      /\ DOMAIN Manager!Idle.env = Provider /\ DOMAIN Manager!Idle.doc = Provider
      /\ Manager!Idle.alone = FALSE
  BY <1>2 DEF Manager!Idle, AdminFields
<1>5. KeyType
  BY <1>1, <1>2, <1>3, <1>4 DEF KeyType
<1>6. CutInv /\ OpInv /\ LoneInv /\ PromiseInv /\ EngineInv
  BY <1>1, <1>2, <1>3, <1>4 DEF CutInv, OpInv, LoneInv, PromiseInv, EngineInv
<1> QED
  BY <1>5, <1>6 DEF KeyInv

\* A step of a reload replaces fields of the engine.
LEMMA ReloadStep ==
  ASSUME KeyType, NEW e \in Engine, NEW fields, Manager!Reloading(e, fields)
  PROVE  /\ DOMAIN engine' = Engine /\ DOMAIN engine'[e] = EngineFields
         /\ \A f \in EngineFields :
              engine'[e][f] = IF f \in DOMAIN fields THEN fields[f] ELSE engine[e][f]
         /\ \A f \in Engine : f # e => engine'[f] = engine[f]
BY DEF KeyType, Manager!Reloading

\* An operation that is not alone has no promise beside it.
LEMMA NothingPromised ==
  ASSUME KeyInv, NEW a \in Admin, admin[a].step # "idle", ~admin[a].alone
  PROVE  \A p \in Provider : promise[p] = 0
BY DEF KeyInv, PromiseInv, Kept

LEMMA IdleIs ==
  /\ DOMAIN Manager!Idle = AdminFields /\ Manager!Idle.step = "idle"
  /\ DOMAIN Manager!Idle.env = Provider /\ DOMAIN Manager!Idle.doc = Provider
  /\ Manager!Idle.alone = FALSE
BY DEF Manager!Idle, AdminFields, Manager!NoVars, Manager!Nothing

\* What an operation leaves alone.
LEMMA OperationRests ==
  ASSUME KeyInv, UNCHANGED <<proc, providers, engine, promise>>
  PROVE  EngineInv'
BY DEF KeyInv, EngineInv, Points

LEMMA PrepareStep ==
  ASSUME KeyInv, NEW a \in Admin, NEW kind \in {"create", "update", "delete"}, NEW p \in Provider, NEW key,
         kind = "delete" => key = 0, Manager!Prepare(a, kind, p, key)
  PROVE  KeyInv'
<1>1. /\ admin[a].step = "idle" /\ DOMAIN admin' = Admin
      /\ DOMAIN admin'[a] = AdminFields /\ admin'[a].step = "toml" /\ admin'[a].kind = kind
      /\ admin'[a].p = p /\ admin'[a].key = key /\ DOMAIN admin'[a].doc = Provider
      /\ admin'[a].env = [env.vars EXCEPT ![p] = IF key = 0 THEN @ ELSE key]
      /\ admin'[a].alone = (Manager!UnderWay = {})
      /\ UNCHANGED <<toml, env, proc, providers>>
  BY DEF KeyInv, KeyType, Manager!Prepare, Manager!Idle, AdminFields, Manager!files, Manager!Nothing
<1>2. /\ DOMAIN admin'[a].env = Provider /\ (key # 0 => admin'[a].env[p] = key)
      /\ \A q \in Provider : q # p => admin'[a].env[q] = env.vars[q]
  BY <1>1 DEF KeyInv, KeyType
<1>3. \A b \in Admin : b # a => admin'[b] = [admin[b] EXCEPT !.alone = FALSE]
  BY DEF Manager!Prepare
<1>4. \A b \in Admin : b # a =>
        /\ DOMAIN admin'[b] = AdminFields /\ admin'[b].alone = FALSE
        /\ admin'[b].step = admin[b].step /\ admin'[b].kind = admin[b].kind /\ admin'[b].p = admin[b].p
        /\ admin'[b].key = admin[b].key /\ admin'[b].env = admin[b].env /\ admin'[b].doc = admin[b].doc
  <2>1. \A b \in Admin : DOMAIN admin[b] = AdminFields
    BY DEF KeyInv, KeyType
  <2> QED
    BY <1>3, <2>1 DEF AdminFields
<1>5. CutInv'
  BY <1>1, <1>4 DEF KeyInv, CutInv
<1>6. OpInv' /\ LoneInv'
  <2>1. OpInv'
    <3> SUFFICES ASSUME NEW b \in Admin
                 PROVE  /\ admin'[b].step # "idle" /\ admin'[b].key # 0 =>
                             admin'[b].kind # "delete" /\ admin'[b].env[admin'[b].p] = admin'[b].key
                        /\ admin'[b].step \in {"truncate", "write"} /\ admin'[b].key # 0 =>
                             Points(admin'[b].doc[admin'[b].p])
                        /\ admin'[b].step \in {"env", "env_write"} => admin'[b].key # 0
                        /\ ~(admin'[b].step \in {"env", "env_write"} /\ admin'[b].alone)
      BY DEF OpInv, Points
    <3>1. CASE b = a
      BY <1>1, <1>2, <3>1
    <3>2. CASE b # a
      BY <1>4, <3>2 DEF KeyInv, OpInv
    <3> QED
      BY <3>1, <3>2
  <2>2. LoneInv'
    <3>1. admin'[a].alone => \A b \in Admin : b # a => admin'[b].step = "idle"
      <4>1. Manager!UnderWay = {} => \A b \in Admin : admin[b].step = "idle"
        BY DEF Manager!UnderWay
      <4> QED
        BY <1>1, <1>4, <4>1
    <3>2. \A b \in Admin : b # a => admin'[b].alone = FALSE
      BY <1>4
    <3> QED
      BY <3>1, <3>2 DEF LoneInv
  <2> QED
    BY <2>1, <2>2
<1>7. CASE Manager!UnderWay = {}
  <2>1. UNCHANGED <<promise, engine>>
    BY <1>7 DEF Manager!Prepare
  <2>2. \A b \in Admin : b # a => admin'[b].step = "idle"
    BY <1>4, <1>7 DEF Manager!UnderWay
  <2>3. env.state = "whole"
    BY <1>1, <1>7 DEF KeyInv, KeyType, CutInv, Manager!UnderWay
  <2>4. EngineInv'
    BY <1>1, <2>1, OperationRests
  <2>5. PromiseInv'
    <3> SUFFICES ASSUME NEW q \in Provider, promise[q] # 0
                 PROVE  Kept(q)'
      BY <2>1 DEF PromiseInv
    <3>1. Kept(q)
      BY DEF KeyInv, PromiseInv
    <3>2. \A b \in Admin :
            /\ admin'[b].step # "idle" => admin'[b].alone
            /\ admin'[b].step \notin {"truncate", "write", "env", "env_write"}
            /\ admin'[b].step # "idle" /\ q # admin'[b].p => admin'[b].env[q] = promise[q]
      BY <1>1, <1>2, <1>7, <2>2, <2>3, <3>1 DEF Kept
    <3> QED
      BY <1>1, <2>1, <3>1, <3>2 DEF Kept, Points
  <2>6. KeyType'
    <3>1. \A b \in Admin : /\ DOMAIN admin'[b] = AdminFields /\ DOMAIN admin'[b].env = Provider
                           /\ DOMAIN admin'[b].doc = Provider /\ admin'[b].alone \in BOOLEAN
                           /\ admin'[b].step # "idle" =>
                                admin'[b].p \in Provider /\ admin'[b].kind \in {"create", "update", "delete"}
      BY <1>1, <1>2, <1>4, <2>2 DEF KeyInv, KeyType
    <3> QED
      BY <1>1, <2>1, <3>1 DEF KeyInv, KeyType
  <2> QED
    BY <1>5, <1>6, <2>4, <2>5, <2>6 DEF KeyInv
<1>8. CASE Manager!UnderWay # {}
  <2>1. promise' = Manager!NoVars
    BY <1>8 DEF Manager!Prepare
  <2>2. engine' = [e \in Engine |-> [engine[e] EXCEPT !.sure = {}, !.current = {}]]
    BY <1>8 DEF Manager!Prepare, Manager!Forgotten
  <2>3. DOMAIN promise' = Provider /\ \A q \in Provider : promise'[q] = 0
    BY <2>1 DEF Manager!NoVars
  <2>4. DOMAIN engine' = Engine /\ \A e \in Engine :
          /\ DOMAIN engine'[e] = EngineFields /\ engine'[e].sure = {} /\ engine'[e].current = {}
          /\ engine'[e].up = engine[e].up /\ engine'[e].step = engine[e].step
          /\ engine'[e].registry = engine[e].registry /\ engine'[e].todo = engine[e].todo
    <3>1. \A e \in Engine : DOMAIN engine[e] = EngineFields
      BY DEF KeyInv, KeyType
    <3> QED
      BY <2>2, <3>1 DEF EngineFields
  <2>5. EngineInv'
    BY <2>4 DEF KeyInv, EngineInv
  <2>6. PromiseInv'
    BY <2>3 DEF PromiseInv
  <2>7. KeyType'
    <3>1. \A b \in Admin : /\ DOMAIN admin'[b] = AdminFields /\ DOMAIN admin'[b].env = Provider
                           /\ DOMAIN admin'[b].doc = Provider /\ admin'[b].alone \in BOOLEAN
                           /\ admin'[b].step # "idle" =>
                                admin'[b].p \in Provider /\ admin'[b].kind \in {"create", "update", "delete"}
      BY <1>1, <1>2, <1>4 DEF KeyInv, KeyType
    <3> QED
      BY <1>1, <2>3, <2>4, <3>1 DEF KeyInv, KeyType
  <2> QED
    BY <1>5, <1>6, <2>5, <2>6, <2>7 DEF KeyInv
<1> QED
  BY <1>7, <1>8

\* An operation under way that makes no promise keeps those there are, if it is alone.
LEMMA PromisesStay ==
  ASSUME KeyInv, NEW a \in Admin, admin[a].step # "idle",
         UNCHANGED promise,
         ASSUME admin[a].alone, NEW q \in Provider, promise[q] # 0, Kept(q),
                \A b \in Admin : b # a => admin[b].step = "idle"
         PROVE  Kept(q)'
  PROVE  PromiseInv'
<1> SUFFICES ASSUME NEW q \in Provider, promise[q] # 0 PROVE Kept(q)'
  BY DEF PromiseInv
<1>1. admin[a].alone
  BY NothingPromised DEF KeyInv, KeyType
<1>2. Kept(q)
  BY DEF KeyInv, PromiseInv
<1>3. \A b \in Admin : b # a => admin[b].step = "idle"
  BY <1>1 DEF KeyInv, LoneInv
<1> QED
  BY <1>1, <1>2, <1>3

LEMMA PatchStep ==
  ASSUME KeyInv, NEW a \in Admin, Manager!Patch(a)
  PROVE  KeyInv'
<1> DEFINE p == admin[a].p
<1>1. /\ admin[a].step = "toml" /\ UNCHANGED <<toml, env, proc, providers, engine, promise>>
      /\ DOMAIN admin' = Admin /\ \A b \in Admin : b # a => admin'[b] = admin[b]
  BY DEF KeyInv, KeyType, Manager!Patch, Manager!files
<1>2. EngineInv' /\ p \in Provider
  BY <1>1, OperationRests DEF KeyInv, KeyType
<1>4. CASE admin' = [admin EXCEPT ![a] = Manager!Idle]
  <2>1. admin'[a] = Manager!Idle
    BY <1>4 DEF KeyInv, KeyType
  <2>2. KeyType' /\ CutInv' /\ OpInv' /\ LoneInv'
    <3>1. KeyType' /\ CutInv' /\ LoneInv'
      BY <1>1, <1>2, <2>1, IdleIs DEF KeyInv, KeyType, CutInv, LoneInv
    <3>2. OpInv'
      BY <1>1, <2>1, IdleIs DEF KeyInv, OpInv, Points
    <3> QED
      BY <3>1, <3>2
  <2>3. PromiseInv'
    <3>1. ASSUME NEW q \in Provider, promise[q] # 0, Kept(q),
                 \A b \in Admin : b # a => admin[b].step = "idle"
          PROVE  Kept(q)'
      BY <1>1, <2>1, <3>1, IdleIs DEF Kept, Points
    <3> QED
      BY <1>1, <3>1, PromisesStay
  <2> QED
    BY <1>2, <2>2, <2>3 DEF KeyInv
<1>5. CASE \E spec \in {s \in Manager!Spec_ : Manager!Valid(s) /\ s.key = admin[a].key} :
             admin' = [admin EXCEPT ![a].step = "truncate",
               ![a].doc = [toml.providers EXCEPT ![p] = Manager!Edited(admin[a].kind, @, spec)]]
  <2>1. PICK spec \in {s \in Manager!Spec_ : Manager!Valid(s) /\ s.key = admin[a].key} :
             admin' = [admin EXCEPT ![a].step = "truncate",
               ![a].doc = [toml.providers EXCEPT ![p] = Manager!Edited(admin[a].kind, @, spec)]]
    BY <1>5
  <2>2. /\ DOMAIN admin'[a] = AdminFields /\ admin'[a].step = "truncate"
        /\ admin'[a].kind = admin[a].kind /\ admin'[a].p = p /\ admin'[a].key = admin[a].key
        /\ admin'[a].env = admin[a].env /\ admin'[a].alone = admin[a].alone
        /\ admin'[a].doc = [toml.providers EXCEPT ![p] = Manager!Edited(admin[a].kind, @, spec)]
    BY <2>1 DEF KeyInv, KeyType, AdminFields
  <2>3. /\ DOMAIN admin'[a].doc = Provider
        /\ \A q \in Provider : q # p => admin'[a].doc[q] = toml.providers[q]
        /\ admin'[a].doc[p] = Manager!Edited(admin[a].kind, toml.providers[p], spec)
    BY <1>2, <2>2 DEF KeyInv, KeyType
  <2>4. ASSUME admin[a].key # 0 PROVE Points(admin'[a].doc[p])
    <3>1. spec.pointer = TRUE /\ spec.key # 0
      BY <2>1, <2>4 DEF Manager!Valid, Manager!Spec_
    <3>2. /\ Manager!Inserted(spec).pointer = TRUE /\ Manager!Inserted(spec).inline = 0
          /\ Manager!Patched(toml.providers[p], spec).pointer = TRUE
          /\ Manager!Patched(toml.providers[p], spec).inline = 0
      BY <3>1 DEF Manager!Inserted, Manager!Patched
    <3>3. admin[a].kind \in {"create", "update"}
      BY <1>1, <2>4 DEF KeyInv, KeyType, OpInv
    <3> QED
      BY <2>3, <3>2, <3>3 DEF Manager!Edited, Points
  <2>5. KeyType' /\ CutInv' /\ LoneInv'
    BY <1>1, <1>2, <2>2, <2>3 DEF KeyInv, KeyType, CutInv, LoneInv
  <2>6. OpInv'
    <3> SUFFICES ASSUME NEW b \in Admin
                 PROVE  /\ admin'[b].step # "idle" /\ admin'[b].key # 0 =>
                             admin'[b].kind # "delete" /\ admin'[b].env[admin'[b].p] = admin'[b].key
                        /\ admin'[b].step \in {"truncate", "write"} /\ admin'[b].key # 0 =>
                             Points(admin'[b].doc[admin'[b].p])
                        /\ admin'[b].step \in {"env", "env_write"} => admin'[b].key # 0
                        /\ admin'[b].step \in {"env", "env_write"} /\ admin'[b].alone =>
                             toml'.state = "whole" /\ Points(toml'.providers[admin'[b].p])
      BY DEF OpInv, Points
    <3>1. CASE b = a
      BY <1>1, <2>2, <2>4, <3>1 DEF KeyInv, OpInv
    <3>2. CASE b # a
      BY <1>1, <3>2 DEF KeyInv, OpInv
    <3> QED
      BY <3>1, <3>2
  <2>7. PromiseInv'
    <3>1. ASSUME admin[a].alone, NEW q \in Provider, promise[q] # 0, Kept(q),
                 \A b \in Admin : b # a => admin[b].step = "idle"
          PROVE  Kept(q)'
      <4>1. toml.state = "whole"
        BY <1>1, <3>1 DEF KeyInv, CutInv
      <4> SUFFICES ASSUME NEW b \in Admin
                   PROVE  /\ toml'.state = "whole" => Points(toml'.providers[q])
                          /\ env'.state = "whole" => env'.vars[q] = promise'[q]
                          /\ proc'[q] \in {0, promise'[q]}
                          /\ admin'[b].step # "idle" => admin'[b].alone
                          /\ admin'[b].step \in {"truncate", "write"} /\ q # admin'[b].p =>
                               Points(admin'[b].doc[q])
                          /\ admin'[b].step # "idle" /\ q # admin'[b].p => admin'[b].env[q] = promise'[q]
                          /\ admin'[b].step \in {"write", "env", "env_write"} => q # admin'[b].p
        BY DEF Kept, Points
      <4>2. CASE b = a
        <5>1. UNCHANGED <<toml, env, proc, promise>> /\ admin'[a].step = "truncate"
          BY <1>1, <2>2
        <5>2. q # p => Points(admin'[a].doc[q]) /\ admin'[a].env[q] = promise[q]
          BY <1>1, <2>2, <2>3, <3>1, <4>1 DEF Kept
        <5> QED
          BY <2>2, <3>1, <4>2, <5>1, <5>2 DEF Kept
      <4>3. CASE b # a
        <5>1. UNCHANGED <<toml, env, proc, promise>> /\ admin'[b] = admin[b] /\ admin[b].step = "idle"
          BY <1>1, <3>1, <4>3
        <5> QED
          BY <3>1, <5>1 DEF Kept
      <4> QED
        BY <4>2, <4>3
    <3> QED
      BY <1>1, <3>1, PromisesStay
  <2> QED
    BY <1>2, <2>5, <2>6, <2>7 DEF KeyInv
<1> QED
  BY <1>4, <1>5 DEF Manager!Patch

LEMMA TruncateStep ==
  ASSUME KeyInv, NEW a \in Admin, Manager!Truncate(a)
  PROVE  KeyInv'
<1> DEFINE p == admin[a].p
<1>1. /\ admin[a].step = "truncate" /\ admin' = [admin EXCEPT ![a].step = "write"]
      /\ toml' = [state |-> "cut", providers |-> Manager!Nothing]
      /\ promise' = [promise EXCEPT ![p] = 0]
      /\ UNCHANGED <<env, proc, providers>>
  BY DEF Manager!Truncate
<1>0. engine' = [e \in Engine |-> [engine[e] EXCEPT !.sure = @ \ {p}, !.current = @ \ {p}]]
  BY DEF Manager!Truncate
<1>2. p \in Provider
  BY <1>1 DEF KeyInv, KeyType
<1>3. /\ DOMAIN admin' = Admin /\ DOMAIN admin'[a] = AdminFields /\ admin'[a].step = "write"
      /\ admin'[a].kind = admin[a].kind /\ admin'[a].p = p /\ admin'[a].key = admin[a].key
      /\ admin'[a].env = admin[a].env /\ admin'[a].doc = admin[a].doc
      /\ admin'[a].alone = admin[a].alone /\ \A b \in Admin : b # a => admin'[b] = admin[b]
  BY <1>1 DEF KeyInv, KeyType, AdminFields
<1>4. DOMAIN engine' = Engine /\ \A e \in Engine : DOMAIN engine'[e] = DOMAIN engine[e]
  BY <1>0
<1>5. \A e \in Engine : /\ engine'[e].up = engine[e].up /\ engine'[e].step = engine[e].step
                        /\ engine'[e].registry = engine[e].registry
                        /\ engine'[e].config = engine[e].config /\ engine'[e].todo = engine[e].todo
                        /\ engine'[e].at = engine[e].at
                        /\ engine'[e].sure = engine[e].sure \ {p}
                        /\ engine'[e].current = engine[e].current \ {p}
  <2> SUFFICES ASSUME NEW e \in Engine
               PROVE  /\ engine'[e].up = engine[e].up /\ engine'[e].step = engine[e].step
                      /\ engine'[e].registry = engine[e].registry
                      /\ engine'[e].config = engine[e].config /\ engine'[e].todo = engine[e].todo
                      /\ engine'[e].at = engine[e].at
                      /\ engine'[e].sure = engine[e].sure \ {p}
                      /\ engine'[e].current = engine[e].current \ {p}
    OBVIOUS
  <2>1. DOMAIN engine[e] = EngineFields
    BY DEF KeyInv, KeyType
  <2>2. engine'[e] = [engine[e] EXCEPT !.sure = @ \ {p}, !.current = @ \ {p}]
    BY <1>0
  <2> QED
    BY <2>1, <2>2 DEF EngineFields
<1>6. /\ DOMAIN promise' = Provider /\ promise'[p] = 0
      /\ \A q \in Provider : q # p => promise'[q] = promise[q]
  BY <1>1, <1>2 DEF KeyInv, KeyType
<1>7. DOMAIN Manager!Nothing = Provider
  BY DEF Manager!Nothing
<1>8. toml'.state = "cut" /\ DOMAIN toml' = {"state", "providers"} /\ DOMAIN toml'.providers = Provider
  BY <1>1, <1>7
<1>9. KeyType'
  BY <1>1, <1>2, <1>3, <1>4, <1>5, <1>6, <1>8 DEF KeyInv, KeyType
<1>10. CutInv' /\ LoneInv'
  BY <1>1, <1>3 DEF KeyInv, CutInv, LoneInv
<1>11. OpInv'
  <2>1. \A b \in Admin : ~(admin'[b].step \in {"env", "env_write"} /\ admin'[b].alone)
    BY <1>1, <1>3 DEF KeyInv, LoneInv
  <2> QED
    BY <1>1, <1>3, <2>1 DEF KeyInv, OpInv, Points
<1>12. PromiseInv'
  <2> SUFFICES ASSUME NEW q \in Provider, promise'[q] # 0 PROVE Kept(q)'
    BY DEF PromiseInv
  <2>1. q # p /\ promise'[q] = promise[q]
    BY <1>6
  <2>2. Kept(q)
    BY <2>1 DEF KeyInv, PromiseInv
  <2> QED
    BY <1>1, <1>3, <1>8, <2>1, <2>2 DEF Kept, Points
<1>13. EngineInv'
  <2> SUFFICES ASSUME NEW e \in Engine
               PROVE  /\ ~engine'[e].up => engine'[e].step = "idle"
                      /\ engine'[e].step # "idle" => engine'[e].sure = {}
                      /\ \A q \in engine'[e].sure : q \in Provider /\ promise'[q] # 0
                                                    /\ engine'[e].registry[q].key = promise'[q]
                      /\ engine'[e].step # "idle" =>
                           \A q \in engine'[e].current :
                             /\ q \in Provider /\ promise'[q] # 0 /\ Points(engine'[e].config[q])
                             /\ \A f \in Engine : f # e => engine'[f].step = "idle"
                      /\ engine'[e].step \in {"put", "build"} =>
                           \A q \in engine'[e].current :
                             proc'[q] = promise'[q]
                             /\ (q \notin engine'[e].todo => engine'[e].registry[q].key = promise'[q])
                      /\ engine'[e].step = "build" =>
                           \A q \in engine'[e].current :
                             q \in engine'[e].at => providers'.providers[q] = engine'[e].config[q]
    BY <1>4 DEF EngineInv, Points
  <2>1. \A q \in engine'[e].sure \cup engine'[e].current : q # p
    BY <1>5
  <2> QED
    BY <1>1, <1>5, <1>6, <2>1 DEF KeyInv, EngineInv
<1> QED
  BY <1>9, <1>10, <1>11, <1>12, <1>13 DEF KeyInv

LEMMA FillStep ==
  ASSUME KeyInv, NEW a \in Admin, Manager!Fill(a)
  PROVE  KeyInv'
<1>1. /\ admin[a].step = "write" /\ toml' = [state |-> "whole", providers |-> admin[a].doc]
      /\ admin' = IF admin[a].key = 0 THEN [admin EXCEPT ![a] = Manager!Idle]
                                      ELSE [admin EXCEPT ![a].step = "env"]
      /\ UNCHANGED <<env, proc, providers, engine, promise>> /\ DOMAIN admin' = Admin
      /\ \A b \in Admin : b # a => admin'[b] = admin[b]
  BY DEF KeyInv, KeyType, Manager!Fill
<1>2. EngineInv' /\ admin[a].p \in Provider
  BY <1>1, OperationRests DEF KeyInv, KeyType
<1>3. DOMAIN toml' = {"state", "providers"} /\ DOMAIN toml'.providers = Provider
      /\ toml'.state = "whole" /\ toml'.providers = admin[a].doc
  BY <1>1 DEF KeyInv, KeyType
<1>4. \A b \in Admin : b # a => ~(admin'[b].step \in {"env", "env_write"} /\ admin'[b].alone)
  BY <1>1 DEF KeyInv, LoneInv
<1>5. CASE admin[a].key = 0
  <2>1. admin'[a] = Manager!Idle
    BY <1>1, <1>5 DEF KeyInv, KeyType
  <2>2. KeyType' /\ CutInv' /\ LoneInv'
    BY <1>1, <1>2, <1>3, <2>1, IdleIs DEF KeyInv, KeyType, CutInv, LoneInv
  <2>3. OpInv'
    BY <1>1, <1>4, <2>1, IdleIs DEF KeyInv, OpInv, Points
  <2>4. PromiseInv'
    <3>1. ASSUME admin[a].alone, NEW q \in Provider, promise[q] # 0, Kept(q),
                 \A b \in Admin : b # a => admin[b].step = "idle"
          PROVE  Kept(q)'
      BY <1>1, <1>3, <2>1, <3>1, IdleIs DEF Kept, Points
    <3> QED
      BY <1>1, <3>1, PromisesStay
  <2> QED
    BY <1>2, <2>2, <2>3, <2>4 DEF KeyInv
<1>6. CASE admin[a].key # 0
  <2>1. /\ DOMAIN admin'[a] = AdminFields /\ admin'[a].step = "env"
        /\ admin'[a].kind = admin[a].kind /\ admin'[a].p = admin[a].p /\ admin'[a].key = admin[a].key
        /\ admin'[a].env = admin[a].env /\ admin'[a].doc = admin[a].doc
        /\ admin'[a].alone = admin[a].alone
    BY <1>1, <1>6 DEF KeyInv, KeyType, AdminFields
  <2>2. KeyType' /\ CutInv' /\ LoneInv'
    BY <1>1, <1>2, <1>3, <2>1 DEF KeyInv, KeyType, CutInv, LoneInv
  <2>3. OpInv'
    BY <1>1, <1>3, <1>4, <1>6, <2>1 DEF KeyInv, OpInv, Points
  <2>4. PromiseInv'
    <3>1. ASSUME admin[a].alone, NEW q \in Provider, promise[q] # 0, Kept(q),
                 \A b \in Admin : b # a => admin[b].step = "idle"
          PROVE  Kept(q)'
      <4> SUFFICES ASSUME NEW b \in Admin
                   PROVE  /\ toml'.state = "whole" => Points(toml'.providers[q])
                          /\ env'.state = "whole" => env'.vars[q] = promise'[q]
                          /\ proc'[q] \in {0, promise'[q]}
                          /\ admin'[b].step # "idle" => admin'[b].alone
                          /\ admin'[b].step \in {"truncate", "write"} /\ q # admin'[b].p =>
                               Points(admin'[b].doc[q])
                          /\ admin'[b].step # "idle" /\ q # admin'[b].p => admin'[b].env[q] = promise'[q]
                          /\ admin'[b].step \in {"write", "env", "env_write"} => q # admin'[b].p
        BY DEF Kept, Points
      <4>1. UNCHANGED <<env, proc, promise>> /\ q # admin[a].p /\ Points(toml'.providers[q])
        BY <1>1, <1>3, <3>1 DEF Kept
      <4>2. CASE b = a
        <5>1. admin'[b].step = "env" /\ admin'[b].alone = admin[a].alone /\ admin'[b].p = admin[a].p
              /\ admin'[b].env = admin[a].env
          BY <2>1, <4>2
        <5>2. admin[a].env[q] = promise[q] /\ (env.state = "whole" => env.vars[q] = promise[q])
              /\ proc[q] \in {0, promise[q]}
          BY <1>1, <3>1, <4>1 DEF Kept
        <5> QED
          BY <3>1, <4>1, <5>1, <5>2
      <4>3. CASE b # a
        <5>1. admin'[b] = admin[b] /\ admin[b].step = "idle"
          BY <1>1, <3>1, <4>3
        <5> QED
          BY <3>1, <4>1, <5>1 DEF Kept
      <4> QED
        BY <4>2, <4>3
    <3> QED
      BY <1>1, <3>1, PromisesStay
  <2> QED
    BY <1>2, <2>2, <2>3, <2>4 DEF KeyInv
<1> QED
  BY <1>5, <1>6

LEMMA TruncateEnvStep ==
  ASSUME KeyInv, NEW a \in Admin, Manager!TruncateEnv(a)
  PROVE  KeyInv'
<1>1. /\ admin[a].step = "env" /\ env' = [state |-> "cut", vars |-> Manager!NoVars]
      /\ admin' = [admin EXCEPT ![a].step = "env_write"]
      /\ UNCHANGED <<toml, proc, providers, engine, promise>> /\ DOMAIN admin' = Admin
      /\ \A b \in Admin : b # a => admin'[b] = admin[b]
  BY DEF KeyInv, KeyType, Manager!TruncateEnv
<1>2. EngineInv'
  BY <1>1, OperationRests
<1>3. DOMAIN env' = {"state", "vars"} /\ DOMAIN env'.vars = Provider /\ env'.state = "cut"
      /\ \A p \in Provider : env'.vars[p] = 0
  BY <1>1 DEF Manager!NoVars
<1>4. /\ DOMAIN admin'[a] = AdminFields /\ admin'[a].step = "env_write"
      /\ admin'[a].kind = admin[a].kind /\ admin'[a].p = admin[a].p /\ admin'[a].key = admin[a].key
      /\ admin'[a].env = admin[a].env /\ admin'[a].doc = admin[a].doc /\ admin'[a].alone = admin[a].alone
  BY <1>1 DEF KeyInv, KeyType, AdminFields
<1>5. KeyType'
  BY <1>1, <1>3, <1>4 DEF KeyInv, KeyType
<1>6. CutInv' /\ OpInv' /\ LoneInv'
  BY <1>1, <1>3, <1>4 DEF KeyInv, CutInv, OpInv, LoneInv, Points
<1>7. PromiseInv'
  <2>1. ASSUME admin[a].alone, NEW q \in Provider, promise[q] # 0, Kept(q),
               \A b \in Admin : b # a => admin[b].step = "idle"
        PROVE  Kept(q)'
    BY <1>1, <1>3, <1>4, <2>1 DEF Kept, Points
  <2> QED
    BY <1>1, <2>1, PromisesStay
<1> QED
  BY <1>2, <1>5, <1>6, <1>7 DEF KeyInv

LEMMA FillEnvStep ==
  ASSUME KeyInv, NEW a \in Admin, Manager!FillEnv(a)
  PROVE  KeyInv'
<1> DEFINE p == admin[a].p
<1>1. /\ admin[a].step = "env_write" /\ env' = [state |-> "whole", vars |-> admin[a].env]
      /\ promise' = Manager!Promised(a) /\ admin' = [admin EXCEPT ![a] = Manager!Idle]
      /\ UNCHANGED <<toml, proc, providers, engine>> /\ DOMAIN admin' = Admin
      /\ \A b \in Admin : b # a => admin'[b] = admin[b]
  BY DEF KeyInv, KeyType, Manager!FillEnv
<1>2. p \in Provider
  BY <1>1 DEF KeyInv, KeyType
<1>4. admin'[a] = Manager!Idle
  BY <1>1 DEF KeyInv, KeyType
<1>5. /\ DOMAIN env' = {"state", "vars"} /\ DOMAIN env'.vars = Provider /\ env'.state = "whole"
      /\ env'.vars = admin[a].env
  BY <1>1 DEF KeyInv, KeyType
<1>6. /\ DOMAIN promise' = Provider /\ \A q \in Provider : q # p => promise'[q] = promise[q]
      /\ promise[p] = 0
      /\ promise'[p] # 0 => admin[a].alone /\ promise'[p] = admin[a].key /\ proc[p] \in {0, admin[a].key}
  <2>1. promise[p] = 0
    BY <1>1, <1>2 DEF KeyInv, PromiseInv, Kept
  <2> QED
    BY <1>1, <1>2, <2>1 DEF KeyInv, KeyType, Manager!Promised
<1>7. /\ admin[a].key # 0 /\ admin[a].env[p] = admin[a].key
      /\ admin[a].alone => toml.state = "whole" /\ Points(toml.providers[p])
  BY <1>1 DEF KeyInv, OpInv
<1>8. KeyType'
  BY <1>1, <1>2, <1>4, <1>5, <1>6, IdleIs DEF KeyInv, KeyType
<1>9. CutInv' /\ OpInv' /\ LoneInv'
  BY <1>1, <1>4, <1>5, IdleIs DEF KeyInv, CutInv, OpInv, LoneInv, Points
<1>10. PromiseInv'
  <2> SUFFICES ASSUME NEW q \in Provider, promise'[q] # 0
               PROVE  Kept(q)'
    BY DEF PromiseInv
  <2>1. admin[a].alone
    <3>1. CASE q = p
      BY <1>6, <3>1
    <3>2. CASE q # p
      BY <1>1, <1>6, <3>2, NothingPromised DEF KeyInv, KeyType
    <3> QED
      BY <3>1, <3>2
  <2>2. \A b \in Admin : admin'[b].step = "idle"
    BY <1>1, <1>4, <2>1, IdleIs DEF KeyInv, LoneInv
  <2>3. Points(toml.providers[q]) /\ env'.vars[q] = promise'[q] /\ proc[q] \in {0, promise'[q]}
    <3>1. CASE q = p
      BY <1>5, <1>6, <1>7, <3>1
    <3>2. CASE q # p
      BY <1>1, <1>5, <1>6, <1>7, <2>1, <3>2 DEF KeyInv, PromiseInv, Kept
    <3> QED
      BY <3>1, <3>2
  <2> QED
    BY <1>1, <2>2, <2>3 DEF Kept, Points
<1>11. EngineInv'
  <2>1. \A e \in Engine : \A q \in engine[e].sure : q # p
    BY <1>6 DEF KeyInv, EngineInv
  <2>2. \A e \in Engine : engine[e].step # "idle" => \A q \in engine[e].current : q # p
    BY <1>6 DEF KeyInv, EngineInv
  <2> QED
    BY <1>1, <1>6, <2>1, <2>2 DEF KeyInv, EngineInv, Points
<1> QED
  BY <1>8, <1>9, <1>10, <1>11 DEF KeyInv

\* What a step of an engine leaves alone.
LEMMA FilesRest ==
  ASSUME KeyInv, UNCHANGED <<toml, env, admin, promise>>,
         \A p \in Provider : promise[p] # 0 => proc'[p] \in {0, promise[p]}
  PROVE  CutInv' /\ OpInv' /\ LoneInv' /\ PromiseInv'
<1>1. CutInv' /\ OpInv' /\ LoneInv'
  BY DEF KeyInv, CutInv, OpInv, LoneInv, Points
<1>2. PromiseInv'
  BY DEF KeyInv, PromiseInv, Kept, Points
<1> QED
  BY <1>1, <1>2

\* While an engine reloads no other reload has a key it could spoil, so that of this engine
\* alone is to be shown what its reload has.
LEMMA OfTheEngine ==
  ASSUME EngineInv, NEW e \in Engine, engine[e].step # "idle", UNCHANGED promise,
         \A f \in Engine : f # e => engine'[f] = engine[f],
         engine'[e].current \subseteq engine[e].current,
         engine[e].up => engine'[e].up,
         engine'[e].step # "idle" => engine'[e].sure = {},
         \A p \in engine'[e].sure : p \in Provider /\ promise'[p] # 0 /\ engine'[e].registry[p].key = promise'[p],
         engine'[e].step # "idle" =>
           \A p \in engine'[e].current : p \in Provider /\ promise'[p] # 0 /\ Points(engine'[e].config[p]),
         engine'[e].step \in {"put", "build"} =>
           \A p \in engine'[e].current :
             proc'[p] = promise'[p] /\ (p \notin engine'[e].todo => engine'[e].registry[p].key = promise'[p]),
         engine'[e].step = "build" =>
           \A p \in engine'[e].current :
             p \in engine'[e].at => providers'.providers[p] = engine'[e].config[p]
  PROVE  EngineInv'
<1>1. \A f \in Engine : f # e => (engine[f].step # "idle" => \A p \in engine[f].current : FALSE)
  BY DEF EngineInv
<1>2. engine[e].up
  BY DEF EngineInv
<1>3. \A p \in engine'[e].current : \A f \in Engine : f # e => engine'[f].step = "idle"
  BY DEF EngineInv
<1> SUFFICES ASSUME NEW g \in Engine
             PROVE  /\ ~engine'[g].up => engine'[g].step = "idle"
                    /\ engine'[g].step # "idle" => engine'[g].sure = {}
                    /\ \A q \in engine'[g].sure : q \in Provider /\ promise'[q] # 0
                                                  /\ engine'[g].registry[q].key = promise'[q]
                    /\ engine'[g].step # "idle" =>
                         \A q \in engine'[g].current :
                           /\ q \in Provider /\ promise'[q] # 0 /\ Points(engine'[g].config[q])
                           /\ \A f \in Engine : f # g => engine'[f].step = "idle"
                    /\ engine'[g].step \in {"put", "build"} =>
                         \A q \in engine'[g].current :
                           proc'[q] = promise'[q]
                           /\ (q \notin engine'[g].todo => engine'[g].registry[q].key = promise'[q])
                    /\ engine'[g].step = "build" =>
                         \A q \in engine'[g].current :
                           q \in engine'[g].at => providers'.providers[q] = engine'[g].config[q]
  BY DEF EngineInv, Points
<1>4. CASE g = e
  BY <1>2, <1>3, <1>4
<1>5. CASE g # e
  <2>1. engine'[g] = engine[g]
    BY <1>5
  <2> QED
    BY <1>1, <1>5, <2>1 DEF EngineInv
<1> QED
  BY <1>4, <1>5

LEMMA BootStep ==
  ASSUME KeyInv, NEW e \in Engine, Manager!Boot(e)
  PROVE  KeyInv'
<1>1. /\ ~engine[e].up /\ engine[e].step = "idle" /\ UNCHANGED <<toml, env, admin, promise>>
      /\ proc' = Manager!Loaded /\ providers' = Manager!Registered
  BY DEF Manager!Boot, Manager!files, KeyInv, EngineInv
<1>2. DOMAIN proc' = Provider /\ \A p \in Provider : proc'[p] = IF env.vars[p] # 0 THEN env.vars[p] ELSE proc[p]
  BY <1>1 DEF Manager!Loaded
<1>3. /\ DOMAIN providers'.providers = Provider
      /\ \A p \in Provider : providers.providers[p] # Manager!Absent => providers' = providers
  BY <1>1 DEF Manager!Registered, Manager!Known, KeyInv, KeyType
<1>4. \A p \in Provider : promise[p] # 0 =>
        proc'[p] \in {0, promise[p]} /\ (proc[p] = promise[p] => proc'[p] = promise[p])
  <2> SUFFICES ASSUME NEW p \in Provider, promise[p] # 0
               PROVE  proc'[p] \in {0, promise[p]} /\ (proc[p] = promise[p] => proc'[p] = promise[p])
    OBVIOUS
  <2>1. proc[p] \in {0, promise[p]} /\ (env.state = "whole" => env.vars[p] = promise[p])
    BY DEF KeyInv, PromiseInv, Kept
  <2>2. env.state # "whole" => env.vars[p] = 0
    BY DEF KeyInv, KeyType, CutInv
  <2> QED
    BY <1>2, <2>1, <2>2
<1>5. CutInv' /\ OpInv' /\ LoneInv' /\ PromiseInv'
  BY <1>1, <1>4, FilesRest
\* A reload beside it: a key it has put is known to the cache, which is then left as it is.
<1>6. \A f \in Engine : engine[f].step = "build" =>
        \A p \in engine[f].current :
          p \in engine[f].at => providers'.providers[p] = engine[f].config[p]
  <2> SUFFICES ASSUME NEW f \in Engine, engine[f].step = "build",
                      NEW p \in engine[f].current, p \in engine[f].at
               PROVE  providers'.providers[p] = engine[f].config[p]
    OBVIOUS
  <2>1. p \in Provider /\ Points(engine[f].config[p]) /\ providers.providers[p] = engine[f].config[p]
    BY DEF KeyInv, EngineInv
  <2>2. providers.providers[p] # Manager!Absent
    BY <2>1 DEF Points, Manager!Absent
  <2> QED
    BY <1>3, <2>1, <2>2
<1>7. \A f \in Engine : engine[f].step \in {"put", "build"} =>
        \A p \in engine[f].current :
          proc'[p] = promise[p] /\ (p \notin engine[f].todo => engine[f].registry[p].key = promise[p])
  BY <1>4 DEF KeyInv, EngineInv
<1>8. CASE UNCHANGED engine
  <2>1. KeyType'
    BY <1>1, <1>2, <1>3, <1>8 DEF KeyInv, KeyType
  <2>2. EngineInv'
    BY <1>1, <1>6, <1>7, <1>8 DEF KeyInv, EngineInv, Points
  <2> QED
    BY <1>5, <2>1, <2>2 DEF KeyInv
<1>9. CASE engine' = [engine EXCEPT ![e] = [Manager!Dead EXCEPT !.up = TRUE,
                        !.registry = Manager!Built(Manager!Registered, Manager!Loaded)]]
  <2>1. /\ DOMAIN engine' = Engine /\ DOMAIN engine'[e] = EngineFields /\ engine'[e].step = "idle"
        /\ engine'[e].sure = {} /\ DOMAIN engine'[e].registry = Provider /\ engine'[e].up = TRUE
        /\ \A f \in Engine : f # e => engine'[f] = engine[f]
    BY <1>9 DEF KeyInv, KeyType, Manager!Dead, Manager!Built, EngineFields
  <2>2. KeyType'
    <3>1. \A f \in Engine : DOMAIN engine'[f] = EngineFields /\ DOMAIN engine'[f].registry = Provider
                            /\ (engine'[f].step \in {"put", "build"} => engine'[f].todo \subseteq Provider)
      BY <2>1 DEF KeyInv, KeyType
    <3> QED
      BY <1>1, <1>2, <1>3, <2>1, <3>1 DEF KeyInv, KeyType
  <2>3. EngineInv'
    <3> SUFFICES ASSUME NEW g \in Engine
             PROVE  /\ ~engine'[g].up => engine'[g].step = "idle"
                    /\ engine'[g].step # "idle" => engine'[g].sure = {}
                    /\ \A q \in engine'[g].sure : q \in Provider /\ promise'[q] # 0
                                                  /\ engine'[g].registry[q].key = promise'[q]
                    /\ engine'[g].step # "idle" =>
                         \A q \in engine'[g].current :
                           /\ q \in Provider /\ promise'[q] # 0 /\ Points(engine'[g].config[q])
                           /\ \A f \in Engine : f # g => engine'[f].step = "idle"
                    /\ engine'[g].step \in {"put", "build"} =>
                         \A q \in engine'[g].current :
                           proc'[q] = promise'[q]
                           /\ (q \notin engine'[g].todo => engine'[g].registry[q].key = promise'[q])
                    /\ engine'[g].step = "build" =>
                         \A q \in engine'[g].current :
                           q \in engine'[g].at => providers'.providers[q] = engine'[g].config[q]
      BY DEF EngineInv, Points
    <3>1. CASE g = e
      BY <2>1, <3>1
    <3>2. CASE g # e
      <4>1. engine'[g] = engine[g]
        BY <2>1, <3>2
      <4>2. engine[g].step # "idle" =>
              \A q \in engine[g].current : \A f \in Engine : f # g => engine'[f].step = "idle"
        BY <2>1 DEF KeyInv, EngineInv
      <4> QED
        BY <1>1, <1>6, <1>7, <4>1, <4>2 DEF KeyInv, EngineInv
    <3> QED
      BY <3>1, <3>2
  <2> QED
    BY <1>5, <2>2, <2>3 DEF KeyInv
<1> QED
  BY <1>8, <1>9 DEF Manager!Boot

LEMMA BeginStep ==
  ASSUME KeyInv, NEW e \in Engine, Manager!Begin(e)
  PROVE  KeyInv'
<1> DEFINE now == IF Manager!Reloads = {} /\ toml.state = "whole" /\ env.state = "whole"
                  THEN {p \in Provider : promise[p] # 0} ELSE {}
<1>1. /\ engine[e].up /\ engine[e].step = "idle"
      /\ UNCHANGED <<toml, env, proc, providers, admin, promise>>
  BY DEF Manager!Begin, Manager!files
<1>2. CutInv' /\ OpInv' /\ LoneInv' /\ PromiseInv'
  BY <1>1, FilesRest DEF KeyInv, PromiseInv, Kept
<1>3. CASE UNCHANGED engine
  <2>1. KeyType' /\ EngineInv'
    BY <1>1, <1>3 DEF KeyInv, KeyType, EngineInv, Points
  <2> QED
    BY <1>2, <2>1 DEF KeyInv
<1>4. CASE engine' = [f \in Engine |->
                        IF f = e
                        THEN [engine[e] EXCEPT !.step = "load_env", !.config = toml.providers,
                                               !.sure = {}, !.current = now]
                        ELSE [engine[f] EXCEPT !.current = {}]]
  <2>1. \A f \in Engine : DOMAIN engine[f] = EngineFields
    BY DEF KeyInv, KeyType
  <2>2. /\ DOMAIN engine' = Engine /\ DOMAIN engine'[e] = EngineFields
        /\ engine'[e].step = "load_env" /\ engine'[e].config = toml.providers
        /\ engine'[e].sure = {} /\ engine'[e].current = now
        /\ engine'[e].up = engine[e].up /\ engine'[e].registry = engine[e].registry
    <3>1. engine'[e] = [engine[e] EXCEPT !.step = "load_env", !.config = toml.providers,
                                         !.sure = {}, !.current = now]
      BY <1>4
    <3> HIDE DEF now
    <3> QED
      BY <1>4, <2>1, <3>1 DEF EngineFields
  <2>3. \A f \in Engine : f # e =>
          /\ DOMAIN engine'[f] = EngineFields /\ engine'[f].current = {}
          /\ engine'[f].up = engine[f].up /\ engine'[f].step = engine[f].step
          /\ engine'[f].sure = engine[f].sure /\ engine'[f].registry = engine[f].registry
          /\ engine'[f].todo = engine[f].todo
    <3>1. \A f \in Engine : f # e => engine'[f] = [engine[f] EXCEPT !.current = {}]
      BY <1>4
    <3> QED
      BY <2>1, <3>1 DEF EngineFields
  <2>4. \A p \in now : /\ p \in Provider /\ promise[p] # 0 /\ Points(toml.providers[p])
                       /\ \A f \in Engine : f # e => engine[f].step = "idle"
    BY DEF KeyInv, PromiseInv, Kept, Manager!Reloads
  <2> HIDE DEF now
  <2>5. KeyType'
    <3>1. \A f \in Engine : DOMAIN engine'[f] = EngineFields /\ DOMAIN engine'[f].registry = Provider
                            /\ (engine'[f].step \in {"put", "build"} => engine'[f].todo \subseteq Provider)
      BY <2>2, <2>3 DEF KeyInv, KeyType
    <3> QED
      BY <1>1, <2>2, <3>1 DEF KeyInv, KeyType
  <2>6. EngineInv'
    <3> SUFFICES ASSUME NEW g \in Engine
             PROVE  /\ ~engine'[g].up => engine'[g].step = "idle"
                    /\ engine'[g].step # "idle" => engine'[g].sure = {}
                    /\ \A q \in engine'[g].sure : q \in Provider /\ promise'[q] # 0
                                                  /\ engine'[g].registry[q].key = promise'[q]
                    /\ engine'[g].step # "idle" =>
                         \A q \in engine'[g].current :
                           /\ q \in Provider /\ promise'[q] # 0 /\ Points(engine'[g].config[q])
                           /\ \A f \in Engine : f # g => engine'[f].step = "idle"
                    /\ engine'[g].step \in {"put", "build"} =>
                         \A q \in engine'[g].current :
                           proc'[q] = promise'[q]
                           /\ (q \notin engine'[g].todo => engine'[g].registry[q].key = promise'[q])
                    /\ engine'[g].step = "build" =>
                         \A q \in engine'[g].current :
                           q \in engine'[g].at => providers'.providers[q] = engine'[g].config[q]
      BY DEF EngineInv, Points
    <3>1. CASE g = e
      BY <1>1, <2>2, <2>3, <2>4, <3>1
    <3>2. CASE g # e
      BY <1>1, <2>3, <3>2 DEF KeyInv, EngineInv
    <3> QED
      BY <3>1, <3>2
  <2> QED
    BY <1>2, <2>5, <2>6 DEF KeyInv
<1> QED
  BY <1>3, <1>4 DEF Manager!Begin

LEMMA LoadMissingStep ==
  ASSUME KeyInv, NEW e \in Engine, Manager!LoadMissing(e)
  PROVE  KeyInv'
<1> DEFINE now == IF env.state = "whole" THEN engine[e].current ELSE {}
           fields == [step |-> "put", todo |-> Manager!Known(engine[e].config), current |-> now]
<1>1. /\ engine[e].step = "load_env" /\ UNCHANGED <<toml, env, providers, admin, promise>>
      /\ Manager!Reloading(e, fields)
  BY DEF Manager!LoadMissing, Manager!files
<1>2. /\ DOMAIN proc' = Provider
      /\ \A p \in Provider : proc'[p] = IF proc[p] # 0 THEN proc[p] ELSE env.vars[p]
  BY DEF Manager!LoadMissing
<1>3. \A p \in Provider : promise[p] # 0 =>
        proc'[p] \in {0, promise[p]} /\ (env.state = "whole" => proc'[p] = promise[p])
  <2> SUFFICES ASSUME NEW p \in Provider, promise[p] # 0
               PROVE  proc'[p] \in {0, promise[p]} /\ (env.state = "whole" => proc'[p] = promise[p])
    OBVIOUS
  <2>1. proc[p] \in {0, promise[p]} /\ (env.state = "whole" => env.vars[p] = promise[p])
    BY DEF KeyInv, PromiseInv, Kept
  <2>2. env.state # "whole" => env.vars[p] = 0
    BY DEF KeyInv, KeyType, CutInv
  <2> QED
    BY <1>2, <2>1, <2>2
<1>4. CutInv' /\ OpInv' /\ LoneInv' /\ PromiseInv'
  BY <1>1, <1>3, FilesRest
<1>5. DOMAIN fields = {"step", "todo", "current"}
  OBVIOUS
<1>6. /\ DOMAIN engine' = Engine /\ DOMAIN engine'[e] = EngineFields
      /\ \A f \in EngineFields :
           engine'[e][f] = IF f \in DOMAIN fields THEN fields[f] ELSE engine[e][f]
      /\ \A f \in Engine : f # e => engine'[f] = engine[f]
  <2> HIDE DEF fields
  <2> QED
    BY <1>1, ReloadStep DEF KeyInv
<1>7. /\ engine'[e].step = "put" /\ engine'[e].todo = Manager!Known(engine[e].config)
      /\ engine'[e].current = now /\ engine'[e].config = engine[e].config
      /\ engine'[e].sure = engine[e].sure
      /\ engine'[e].up = engine[e].up /\ engine'[e].registry = engine[e].registry
  BY <1>5, <1>6 DEF EngineFields
<1>8. Manager!Known(engine[e].config) \subseteq Provider
  BY DEF Manager!Known
<1>9. KeyType'
  BY <1>1, <1>2, <1>6, <1>7, <1>8 DEF KeyInv, KeyType
<1>10. \A p \in engine[e].current : p \in Provider /\ promise[p] # 0 /\ Points(engine[e].config[p])
  BY <1>1 DEF KeyInv, EngineInv
<1>11. engine[e].up /\ engine[e].sure = {}
  BY <1>1 DEF KeyInv, EngineInv
<1>12. \A p \in now : /\ p \in Provider /\ promise[p] # 0 /\ Points(engine[e].config[p])
                      /\ proc'[p] = promise[p] /\ p \in Manager!Known(engine[e].config)
  BY <1>3, <1>10 DEF Manager!Known, Manager!Absent, Points
<1>13. now \subseteq engine[e].current
  OBVIOUS
<1> HIDE DEF now, fields
<1>14. EngineInv'
  <2>1. /\ engine'[e].up /\ engine'[e].sure = {} /\ engine'[e].current \subseteq engine[e].current
        /\ engine'[e].step = "put" /\ engine[e].step # "idle"
    BY <1>1, <1>7, <1>11, <1>13
  <2>2. \A p \in engine'[e].current : p \in Provider /\ promise'[p] # 0 /\ Points(engine'[e].config[p])
    BY <1>1, <1>7, <1>12
  <2>3. \A p \in engine'[e].current :
          proc'[p] = promise'[p] /\ (p \notin engine'[e].todo => engine'[e].registry[p].key = promise'[p])
    BY <1>1, <1>7, <1>12
  <2> QED
    BY <1>1, <1>6, <2>1, <2>2, <2>3, OfTheEngine DEF KeyInv
<1> QED
  BY <1>4, <1>9, <1>14 DEF KeyInv

LEMMA PutOneStep ==
  ASSUME KeyInv, NEW e \in Engine, NEW p \in Provider, Manager!PutOne(e, p)
  PROVE  KeyInv'
<1> DEFINE fields == [step |-> "build", at |-> {p}]
<1>1. /\ engine[e].step = "put" /\ UNCHANGED <<toml, env, proc, admin, promise>>
      /\ Manager!Reloading(e, fields) /\ providers' = Manager!Put(providers, engine[e].config, p)
  BY DEF Manager!PutOne, Manager!files
<1>2. CutInv' /\ OpInv' /\ LoneInv' /\ PromiseInv'
  BY <1>1, FilesRest DEF KeyInv, PromiseInv, Kept
<1>3. DOMAIN providers'.providers = Provider /\ providers'.providers[p] = engine[e].config[p]
  BY <1>1 DEF KeyInv, KeyType, Manager!Put
<1>4. DOMAIN fields = {"step", "at"}
  OBVIOUS
<1>5. /\ DOMAIN engine' = Engine /\ DOMAIN engine'[e] = EngineFields
      /\ \A f \in EngineFields :
           engine'[e][f] = IF f \in DOMAIN fields THEN fields[f] ELSE engine[e][f]
      /\ \A f \in Engine : f # e => engine'[f] = engine[f]
  <2> HIDE DEF fields
  <2> QED
    BY <1>1, ReloadStep DEF KeyInv
<1>6. /\ engine'[e].step = "build" /\ engine'[e].at = {p} /\ engine'[e].todo = engine[e].todo
      /\ engine'[e].current = engine[e].current /\ engine'[e].config = engine[e].config
      /\ engine'[e].sure = engine[e].sure
      /\ engine'[e].up = engine[e].up /\ engine'[e].registry = engine[e].registry
  BY <1>4, <1>5 DEF EngineFields
<1>7. KeyType'
  BY <1>1, <1>3, <1>5, <1>6 DEF KeyInv, KeyType
<1>8. /\ engine[e].up /\ engine[e].sure = {}
      /\ \A q \in engine[e].current : q \in Provider /\ promise[q] # 0 /\ Points(engine[e].config[q])
      /\ \A q \in engine[e].current :
           proc[q] = promise[q] /\ (q \notin engine[e].todo => engine[e].registry[q].key = promise[q])
  BY <1>1 DEF KeyInv, EngineInv
<1> HIDE DEF fields
<1>9. EngineInv'
  <2>1. engine'[e].up /\ (engine'[e].step # "idle" => engine'[e].sure = {})
    BY <1>1, <1>3, <1>6, <1>8
  <2>2. \A q \in engine'[e].sure : q \in Provider /\ promise'[q] # 0 /\ engine'[e].registry[q].key = promise'[q]
    BY <1>1, <1>3, <1>6, <1>8
  <2>3. engine'[e].step # "idle" =>
          \A q \in engine'[e].current : q \in Provider /\ promise'[q] # 0 /\ Points(engine'[e].config[q])
    BY <1>1, <1>3, <1>6, <1>8
  <2>4. engine'[e].step \in {"put", "build"} =>
          \A q \in engine'[e].current :
            proc'[q] = promise'[q] /\ (q \notin engine'[e].todo => engine'[e].registry[q].key = promise'[q])
    BY <1>1, <1>3, <1>6, <1>8
  <2>5. engine'[e].step = "build" =>
          \A q \in engine'[e].current :
            q \in engine'[e].at => providers'.providers[q] = engine'[e].config[q]
    BY <1>1, <1>3, <1>6, <1>8
  <2> QED
    BY <1>1, <1>5, <1>6, <2>1, <2>2, <2>3, <2>4, <2>5, OfTheEngine DEF KeyInv
<1> QED
  BY <1>2, <1>7, <1>9 DEF KeyInv

LEMMA BuildOneStep ==
  ASSUME KeyInv, NEW e \in Engine, NEW p \in Provider, Manager!BuildOne(e, p)
  PROVE  KeyInv'
<1> DEFINE new == Manager!Instance(engine[e].config[p].protocol, Manager!Resolved(providers, p, proc))
           registry == [engine[e].registry EXCEPT ![p] = new]
           fields == [step |-> "put", todo |-> engine[e].todo \ {p}, at |-> {}, registry |-> registry]
<1>1. /\ engine[e].step = "build" /\ p \in engine[e].at
      /\ UNCHANGED <<toml, env, proc, providers, admin, promise>> /\ Manager!Reloading(e, fields)
  BY DEF Manager!BuildOne, Manager!files
<1>2. CutInv' /\ OpInv' /\ LoneInv' /\ PromiseInv'
  BY <1>1, FilesRest DEF KeyInv, PromiseInv, Kept
<1>3. DOMAIN fields = {"step", "todo", "at", "registry"}
  OBVIOUS
<1>4. /\ DOMAIN engine' = Engine /\ DOMAIN engine'[e] = EngineFields
      /\ \A f \in EngineFields :
           engine'[e][f] = IF f \in DOMAIN fields THEN fields[f] ELSE engine[e][f]
      /\ \A f \in Engine : f # e => engine'[f] = engine[f]
  <2> HIDE DEF fields
  <2> QED
    BY <1>1, ReloadStep DEF KeyInv
<1>5. /\ engine'[e].step = "put" /\ engine'[e].todo = engine[e].todo \ {p}
      /\ engine'[e].current = engine[e].current /\ engine'[e].config = engine[e].config
      /\ engine'[e].sure = engine[e].sure
      /\ engine'[e].up = engine[e].up /\ engine'[e].registry = registry
  BY <1>3, <1>4 DEF EngineFields
<1>6. /\ DOMAIN registry = Provider /\ registry[p] = new
      /\ \A q \in Provider : q # p => registry[q] = engine[e].registry[q]
      /\ engine[e].todo \subseteq Provider
  BY <1>1 DEF KeyInv, KeyType
<1> HIDE DEF registry, fields
<1>7. KeyType'
  BY <1>1, <1>4, <1>5, <1>6 DEF KeyInv, KeyType
<1>8. /\ engine[e].up /\ engine[e].sure = {}
      /\ \A q \in engine[e].current : q \in Provider /\ promise[q] # 0 /\ Points(engine[e].config[q])
      /\ \A q \in engine[e].current :
           proc[q] = promise[q] /\ (q \notin engine[e].todo => engine[e].registry[q].key = promise[q])
      /\ p \in engine[e].current => providers.providers[p] = engine[e].config[p]
  BY <1>1 DEF KeyInv, EngineInv
<1>9. p \in engine[e].current => registry[p].key = promise[p]
  <2> SUFFICES ASSUME p \in engine[e].current PROVE new.key = promise[p]
    BY <1>6
  <2>1. Manager!Resolved(providers, p, proc) = promise[p]
    BY <1>8 DEF Manager!Resolved, Points
  <2> QED
    BY <1>8, <2>1 DEF Manager!Instance
<1>10. EngineInv'
  <2>1. engine'[e].up /\ (engine'[e].step # "idle" => engine'[e].sure = {})
    BY <1>1, <1>5, <1>6, <1>8, <1>9
  <2>2. \A q \in engine'[e].sure : q \in Provider /\ promise'[q] # 0 /\ engine'[e].registry[q].key = promise'[q]
    BY <1>1, <1>5, <1>6, <1>8, <1>9
  <2>3. engine'[e].step # "idle" =>
          \A q \in engine'[e].current : q \in Provider /\ promise'[q] # 0 /\ Points(engine'[e].config[q])
    BY <1>1, <1>5, <1>6, <1>8, <1>9
  <2>4. engine'[e].step \in {"put", "build"} =>
          \A q \in engine'[e].current :
            proc'[q] = promise'[q] /\ (q \notin engine'[e].todo => engine'[e].registry[q].key = promise'[q])
    BY <1>1, <1>5, <1>6, <1>8, <1>9
  <2>5. engine'[e].step = "build" =>
          \A q \in engine'[e].current :
            q \in engine'[e].at => providers'.providers[q] = engine'[e].config[q]
    BY <1>1, <1>5, <1>6, <1>8, <1>9
  <2> QED
    BY <1>1, <1>4, <1>5, <2>1, <2>2, <2>3, <2>4, <2>5, OfTheEngine DEF KeyInv
<1> QED
  BY <1>2, <1>7, <1>10 DEF KeyInv

LEMMA SweepStep ==
  ASSUME KeyInv, NEW e \in Engine, Manager!Sweep(e)
  PROVE  KeyInv'
<1> DEFINE stale == Manager!Stale(e)
           registry == [p \in Provider |-> IF p \in stale THEN Manager!NoInstance ELSE engine[e].registry[p]]
           fields == [step |-> "idle", config |-> Manager!Nothing, current |-> {},
                      sure |-> engine[e].current, registry |-> registry]
<1>1. /\ engine[e].step = "put" /\ engine[e].todo = {}
      /\ UNCHANGED <<toml, env, proc, admin, promise>> /\ Manager!Reloading(e, fields)
      /\ providers' = Manager!Purged(providers, stale)
  BY DEF Manager!Sweep, Manager!files
<1>2. CutInv' /\ OpInv' /\ LoneInv' /\ PromiseInv'
  BY <1>1, FilesRest DEF KeyInv, PromiseInv, Kept
<1>3. DOMAIN fields = {"step", "config", "current", "sure", "registry"}
  OBVIOUS
<1>4. /\ DOMAIN engine' = Engine /\ DOMAIN engine'[e] = EngineFields
      /\ \A f \in EngineFields :
           engine'[e][f] = IF f \in DOMAIN fields THEN fields[f] ELSE engine[e][f]
      /\ \A f \in Engine : f # e => engine'[f] = engine[f]
  <2> HIDE DEF fields
  <2> QED
    BY <1>1, ReloadStep DEF KeyInv
<1>5. /\ engine'[e].step = "idle" /\ engine'[e].sure = engine[e].current
      /\ engine'[e].current = {} /\ engine'[e].up = engine[e].up
      /\ engine'[e].registry = registry
  BY <1>3, <1>4 DEF EngineFields
<1>6. DOMAIN registry = Provider /\ \A q \in Provider : q \notin stale => registry[q] = engine[e].registry[q]
  OBVIOUS
<1>7. DOMAIN providers'.providers = Provider
  BY <1>1 DEF Manager!Purged
<1>8. \A q \in engine[e].current : /\ q \in Provider /\ promise[q] # 0 /\ Points(engine[e].config[q])
                                   /\ engine[e].registry[q].key = promise[q]
  BY <1>1 DEF KeyInv, EngineInv
<1>9. \A q \in engine[e].current : q \notin stale
  BY <1>8 DEF Manager!Stale, Manager!Absent, Points
<1> HIDE DEF registry, fields, stale
<1>10. KeyType'
  BY <1>1, <1>4, <1>5, <1>6, <1>7 DEF KeyInv, KeyType
<1>11. EngineInv'
  BY <1>1, <1>4, <1>5, <1>6, <1>8, <1>9, OfTheEngine DEF KeyInv
<1> QED
  BY <1>2, <1>10, <1>11 DEF KeyInv

LEMMA CrashStep ==
  ASSUME KeyInv, Manager!Crash
  PROVE  KeyInv'
<1>1. /\ proc' = Manager!NoVars /\ providers' = [providers |-> Manager!Nothing, models |-> {}]
      /\ engine' = [e \in Engine |-> Manager!Dead] /\ admin' = [a \in Admin |-> Manager!Idle]
      /\ promise' = IF toml.state = "cut" \/ env.state = "cut" THEN Manager!NoVars ELSE promise
      /\ toml' = [toml EXCEPT !.state = "whole"] /\ env' = [env EXCEPT !.state = "whole"]
  BY DEF Manager!Crash
<1>2. /\ DOMAIN Manager!NoVars = Provider /\ DOMAIN Manager!Nothing = Provider
      /\ \A p \in Provider : Manager!NoVars[p] = 0
  BY DEF Manager!NoVars, Manager!Nothing
<1>3. /\ DOMAIN Manager!Dead = EngineFields /\ DOMAIN Manager!Dead.registry = Provider
      /\ Manager!Dead.step = "idle" /\ Manager!Dead.sure = {}
  BY DEF Manager!Dead, EngineFields
<1>4. /\ DOMAIN Manager!Idle = AdminFields /\ Manager!Idle.step = "idle"
      /\ DOMAIN Manager!Idle.env = Provider /\ DOMAIN Manager!Idle.doc = Provider
      /\ Manager!Idle.alone = FALSE
  BY <1>2 DEF Manager!Idle, AdminFields
<1>5. /\ DOMAIN toml' = {"state", "providers"} /\ toml'.providers = toml.providers /\ toml'.state = "whole"
      /\ DOMAIN env' = {"state", "vars"} /\ env'.vars = env.vars /\ env'.state = "whole"
  BY <1>1 DEF KeyInv, KeyType
<1>6. \A p \in Provider : promise'[p] # 0 =>
        /\ promise'[p] = promise[p] /\ Points(toml.providers[p]) /\ env.vars[p] = promise[p]
  <2>1. CASE toml.state = "whole" /\ env.state = "whole"
    BY <1>1, <2>1 DEF KeyInv, PromiseInv, Kept
  <2>2. CASE toml.state = "cut" \/ env.state = "cut"
    BY <1>1, <1>2, <2>2
  <2> QED
    BY <2>1, <2>2 DEF KeyInv, KeyType
<1>7. KeyType'
  <2>1. DOMAIN promise' = Provider
    BY <1>1, <1>2 DEF KeyInv, KeyType
  <2> QED
    BY <1>1, <1>2, <1>3, <1>4, <1>5, <2>1 DEF KeyInv, KeyType
<1>8. CutInv' /\ OpInv' /\ LoneInv'
  BY <1>1, <1>4, <1>5 DEF CutInv, OpInv, LoneInv
<1>9. PromiseInv'
  BY <1>1, <1>2, <1>4, <1>5, <1>6 DEF PromiseInv, Kept, Points
<1>10. EngineInv'
  BY <1>1, <1>3 DEF EngineInv
<1> QED
  BY <1>7, <1>8, <1>9, <1>10 DEF KeyInv

LEMMA KeyStep ==
  ASSUME KeyInv, [Manager!Next]_(Manager!vars)
  PROVE  KeyInv'
<1>1. CASE UNCHANGED Manager!vars
  BY <1>1 DEF Manager!vars, KeyInv, KeyType, CutInv, OpInv, LoneInv, PromiseInv, Kept, EngineInv, Points
<1>2. CASE \E a \in Admin :
       \/ \E kind \in {"create", "update", "delete"}, p \in Provider, key \in Key \cup {0} :
            (kind = "delete" => key = 0) /\ Manager!Prepare(a, kind, p, key)
       \/ Manager!Patch(a) \/ Manager!Truncate(a) \/ Manager!Fill(a)
       \/ Manager!TruncateEnv(a) \/ Manager!FillEnv(a)
  BY <1>2, PrepareStep, PatchStep, TruncateStep, FillStep, TruncateEnvStep, FillEnvStep
<1>3. CASE \E e \in Engine :
       \/ Manager!Boot(e) \/ Manager!Begin(e) \/ Manager!LoadMissing(e) \/ Manager!Sweep(e)
       \/ \E p \in Provider : Manager!PutOne(e, p) \/ Manager!BuildOne(e, p)
  BY <1>3, BootStep, BeginStep, LoadMissingStep, SweepStep, PutOneStep, BuildOneStep
<1>4. CASE Manager!Crash
  BY <1>4, CrashStep
<1> QED
  BY <1>1, <1>2, <1>3, <1>4 DEF Manager!Next

LEMMA KeyGives == KeyInv => Manager!SavedIsUsable
BY DEF KeyInv, EngineInv, Manager!SavedIsUsable

(***************************************************************************)
(* Definitions and skills: a choice is what is listed as long as no file   *)
(* has changed since, a session what is found.                             *)
(***************************************************************************)
DiscLimits == Layers \in Nat /\ Disc!NoArgument \notin Dir /\ Disc!NoArgument \notin Linked

\* The first layer of a set of layers is one of them, and none of them is before it.
LEMMA FirstLayer ==
  ASSUME NEW S \in SUBSET Disc!Layer, Layers \in Nat
  PROVE  /\ S = {} => Disc!FirstOf(S) = Disc!InTable
         /\ S # {} => Disc!FirstOf(S) \in S /\ \A l \in S : Disc!FirstOf(S) <= l
<1>1. CASE S = {}
  BY <1>1 DEF Disc!FirstOf
<1>2. CASE S # {}
  <2>1. S \subseteq Nat /\ S # {}
    BY <1>2 DEF Disc!Layer
  <2>2. \E n \in S : \A y \in S : n <= y
    BY <2>1, LeastNumber
  <2>3. Disc!FirstOf(S) = CHOOSE x \in S : \A y \in S : x <= y
    BY <1>2 DEF Disc!FirstOf, Disc!Min
  <2> QED
    BY <2>2, <2>3
<1> QED
  BY <1>1, <1>2

LEMMA LayersAndTable == Layers \in Nat => Disc!InTable \notin Disc!Layer
BY DEF Disc!InTable, Disc!Layer

\* Where the file that decides is of the mode asked for, it is also the one that is listed.
LEMMA FoundIsListed ==
  ASSUME Layers \in Nat, NEW id \in Id, NEW usage \in Disc!Usage, Disc!Resolves(id, usage)
  PROVE  id \in Disc!Listed(usage) /\ Disc!FoundAt(id) = Disc!ListedAt(id)
<1> DEFINE F == {l \in Disc!Layer : defs[l][id] # "absent"}
           L == {l \in Disc!Layer : defs[l][id] \in Disc!Usage}
<1>1. L \subseteq F /\ L \subseteq Disc!Layer /\ F \subseteq Disc!Layer
  BY DEF Disc!Usage
<1>2. Disc!FoundAt(id) = Disc!FirstOf(F) /\ Disc!ListedAt(id) = Disc!FirstOf(L)
  BY DEF Disc!FoundAt, Disc!ListedAt
<1>3. CASE F = {}
  <2>1. L = {}
    BY <1>1, <1>3
  <2>2. Disc!FoundAt(id) = Disc!ListedAt(id)
    BY <1>2, <1>3, <2>1
  <2> QED
    BY <2>2 DEF Disc!Resolves, Disc!Listed
<1>4. CASE F # {}
  <2>1. Disc!FirstOf(F) \in F /\ \A l \in F : Disc!FirstOf(F) <= l
    BY <1>1, <1>4, FirstLayer
  <2>2. Disc!FirstOf(F) \in Disc!Layer /\ defs[Disc!FirstOf(F)][id] = usage
    BY <1>1, <1>2, <2>1, LayersAndTable DEF Disc!Resolves, Disc!ModeAt
  <2>3. Disc!FirstOf(F) \in L
    BY <2>2
  <2>4. Disc!FirstOf(L) \in L /\ \A l \in L : Disc!FirstOf(L) <= l
    BY <1>1, <2>3, FirstLayer
  <2>5. Disc!FirstOf(L) = Disc!FirstOf(F)
    <3>1. Disc!FirstOf(L) <= Disc!FirstOf(F) /\ Disc!FirstOf(F) <= Disc!FirstOf(L)
      BY <1>1, <2>1, <2>3, <2>4
    <3>2. Disc!FirstOf(L) \in Nat /\ Disc!FirstOf(F) \in Nat
      BY <2>2, <2>4 DEF Disc!Layer
    <3> QED
      BY <3>1, <3>2
  <2> QED
    BY <1>2, <2>5 DEF Disc!Resolves, Disc!Listed
<1> QED
  BY <1>3, <1>4

ChoiceInv ==
  choice.state = "chosen" =>
    /\ choice.at \in Nat /\ choice.at <= edits
    /\ choice.at = edits => choice.id \in Disc!Listed(choice.usage)
                              /\ choice.layer = Disc!ListedAt(choice.id)
SessionInv ==
  session.state = "running" =>
    /\ session.at \in Nat /\ session.at <= edits /\ session.id \in Id /\ session.usage \in Disc!Usage
    /\ session.at = edits => Disc!Resolves(session.id, session.usage)
                               /\ session.layer = Disc!FoundAt(session.id)
SameInv ==
  session.state = "running" /\ choice.state = "chosen" /\ session.at = choice.at
    /\ session.id = choice.id => session.layer = choice.layer /\ session.usage = choice.usage
\* No file has the empty name.
NamedInv ==
  /\ \A l \in Disc!Layer : \A s \in skills[l] : Disc!NoArgument \notin s.linked
  /\ Disc!NoArgument \notin built.linked
DiscInv == edits \in Nat /\ NamedInv /\ ChoiceInv /\ SessionInv /\ SameInv

LEMMA DiscStart == DiscLimits /\ Disc!Init => DiscInv
<1> SUFFICES ASSUME DiscLimits, Disc!Init PROVE DiscInv
  OBVIOUS
<1>1. PICK w \in Disc!Worlds : skills = w.skills /\ built = w.built
  BY DEF Disc!Init
<1>2. built.linked \subseteq Linked /\ \A l \in Disc!Layer : skills[l] \subseteq Disc!Skill
  BY <1>1 DEF Disc!Worlds
<1>3. NamedInv
  BY <1>2 DEF NamedInv, DiscLimits, Disc!Skill
<1> QED
  BY <1>3 DEF Disc!Init, DiscInv, ChoiceInv, SessionInv, SameInv

\* What is listed and found is a matter of the files.
LEMMA SameFiles ==
  ASSUME defs' = defs, built' = built
  PROVE  /\ \A id : Disc!ListedAt(id)' = Disc!ListedAt(id) /\ Disc!FoundAt(id)' = Disc!FoundAt(id)
         /\ \A usage : Disc!Listed(usage)' = Disc!Listed(usage)
         /\ \A id, usage : Disc!Resolves(id, usage)' <=> Disc!Resolves(id, usage)
<1>1. \A layer, id : Disc!ModeAt(layer, id)' = Disc!ModeAt(layer, id)
  BY DEF Disc!ModeAt
<1>2. \A id : Disc!ListedAt(id)' = Disc!ListedAt(id) /\ Disc!FoundAt(id)' = Disc!FoundAt(id)
  BY DEF Disc!ListedAt, Disc!FoundAt
<1> QED
  BY <1>1, <1>2 DEF Disc!Listed, Disc!Resolves

\* What is chosen and what runs at one moment agree.
LEMMA ChosenAgrees ==
  ASSUME Layers \in Nat, NEW id \in Id, NEW u \in Disc!Usage, NEW v,
         Disc!Resolves(id, u), id \in Disc!Listed(v)
  PROVE  u = v /\ Disc!FoundAt(id) = Disc!ListedAt(id)
BY FoundIsListed DEF Disc!Resolves, Disc!Listed

LEMMA DiscStep == DiscLimits /\ DiscInv /\ [Disc!Next]_Disc!vars => DiscInv'
<1> SUFFICES ASSUME DiscLimits, DiscInv, [Disc!Next]_Disc!vars PROVE DiscInv'
  OBVIOUS
<1> USE DEF DiscInv, DiscLimits
<1>0. NamedInv'
  BY DEF NamedInv, Disc!Next, Disc!vars, Disc!Choose, Disc!Start, Disc!Edit
<1>1. CASE UNCHANGED Disc!vars
  <2>1. defs' = defs /\ built' = built /\ UNCHANGED <<choice, session, edits>>
    BY <1>1 DEF Disc!vars
  <2>2. ChoiceInv' /\ SessionInv' /\ SameInv'
    BY <2>1, SameFiles DEF ChoiceInv, SessionInv, SameInv
  <2> QED
    BY <1>0, <2>1, <2>2
<1>2. ASSUME NEW id \in Id, NEW usage \in Disc!Usage, Disc!Choose(id, usage) PROVE DiscInv'
  <2>1. /\ id \in Disc!Listed(usage) /\ defs' = defs /\ built' = built
        /\ UNCHANGED <<skills, session, edits>>
        /\ choice' = [state |-> "chosen", id |-> id, usage |-> usage, layer |-> Disc!ListedAt(id),
                      at |-> edits]
    BY <1>2 DEF Disc!Choose
  <2>2. choice'.state = "chosen" /\ choice'.id = id /\ choice'.usage = usage
        /\ choice'.layer = Disc!ListedAt(id) /\ choice'.at = edits
    BY <2>1
  <2>3. ChoiceInv'
    BY <2>1, <2>2, SameFiles DEF ChoiceInv
  <2>4. SessionInv'
    BY <2>1, SameFiles DEF SessionInv
  <2>5. SameInv'
    BY <2>1, <2>2, ChosenAgrees DEF SameInv, SessionInv
  <2> QED
    BY <1>0, <2>1, <2>3, <2>4, <2>5
<1>3. ASSUME NEW id \in Id, NEW usage \in Disc!Usage, Disc!Start(id, usage) PROVE DiscInv'
  <2>1. defs' = defs /\ built' = built /\ UNCHANGED <<skills, choice, edits>>
    BY <1>3 DEF Disc!Start
  <2>2. ChoiceInv'
    BY <2>1, SameFiles DEF ChoiceInv
  <2>3. CASE Disc!Resolves(id, usage)
    <3>1. session'.state = "running" /\ session'.id = id /\ session'.usage = usage
          /\ session'.layer = Disc!FoundAt(id) /\ session'.at = edits
      BY <1>3, <2>3 DEF Disc!Start
    <3>2. SessionInv'
      BY <2>1, <2>3, <3>1, SameFiles DEF SessionInv
    <3>3. SameInv'
      <4> SUFFICES ASSUME choice.state = "chosen", choice.at = edits, choice.id = id
                   PROVE  Disc!FoundAt(id) = choice.layer /\ usage = choice.usage
        BY <2>1, <3>1 DEF SameInv
      <4>1. id \in Disc!Listed(choice.usage) /\ choice.layer = Disc!ListedAt(id)
        BY DEF ChoiceInv
      <4> QED
        BY <2>3, <4>1, ChosenAgrees
    <3> QED
      BY <1>0, <2>1, <2>2, <3>2, <3>3
  <2>4. CASE ~Disc!Resolves(id, usage)
    <3>1. session'.state = "failed"
      BY <1>3, <2>4 DEF Disc!Start
    <3> QED
      BY <1>0, <2>1, <2>2, <3>1 DEF SessionInv, SameInv
  <2> QED
    BY <2>3, <2>4
<1>4. ASSUME NEW layer \in Disc!Layer, NEW id \in Id, NEW what, Disc!Edit(layer, id, what)
      PROVE  DiscInv'
  <2>1. edits' = edits + 1 /\ choice' = choice /\ session' = session
    BY <1>4 DEF Disc!Edit
  <2>2. choice.state = "chosen" => choice.at \in Nat /\ choice.at <= edits' /\ choice.at # edits'
    BY <2>1 DEF ChoiceInv
  <2>3. session.state = "running" => session.at \in Nat /\ session.at <= edits' /\ session.at # edits'
                                     /\ session.id \in Id /\ session.usage \in Disc!Usage
    BY <2>1 DEF SessionInv
  <2>4. ChoiceInv' /\ SessionInv'
    BY <2>1, <2>2, <2>3 DEF ChoiceInv, SessionInv
  <2> QED
    BY <1>0, <2>1, <2>4 DEF SameInv
<1> QED
  BY <1>1, <1>2, <1>3, <1>4 DEF Disc!Next

\* What is listed is found where it is listed, when heads agree with directories.
LEMMA ListedLoads ==
  ASSUME Layers \in Nat, Disc!Conventional, NEW n \in Dir
  PROVE  /\ Disc!SkillListedAt(n) = Disc!Candidate(n) /\ Disc!SkillLoadedAt(n) = Disc!Candidate(n)
         /\ Disc!SkillListed(n) <=> Disc!SkillLoads(n)
<1> DEFINE S == {l \in Disc!Layer : \E s \in skills[l] : s.dir = n}
<1>1. S = {l \in Disc!Layer : \E s \in skills[l] : Disc!NameOf(s) = n}
  BY DEF Disc!Conventional
<1>2. Disc!SkillListedAt(n) = Disc!FirstOf(S) /\ Disc!Candidate(n) = Disc!FirstOf(S)
  BY <1>1 DEF Disc!SkillListedAt, Disc!Candidate
<1>3. S \subseteq Disc!Layer
  OBVIOUS
<1>4. Disc!SkillLoadedAt(n) = Disc!Candidate(n)
  <2>1. CASE S = {}
    BY <1>2, <1>3, <2>1, FirstLayer, LayersAndTable DEF Disc!SkillLoadedAt
  <2>2. CASE S # {}
    <3>1. Disc!Candidate(n) \in S
      BY <1>2, <1>3, <2>2, FirstLayer
    <3>2. \E s \in skills[Disc!Candidate(n)] : s.dir = n /\ s.described
      BY <3>1 DEF Disc!Conventional
    <3> QED
      BY <3>1, <3>2 DEF Disc!SkillLoadedAt
  <2> QED
    BY <2>1, <2>2
<1> QED
  BY <1>2, <1>4 DEF Disc!SkillListed, Disc!SkillLoads

LEMMA DiscGives ==
  DiscLimits /\ DiscInv =>
    Disc!PersonaNeverReplaced /\ Disc!SkillsOfferedLoad /\ Disc!WhatIsNamedIsShown
<1> SUFFICES ASSUME DiscLimits, DiscInv
             PROVE  Disc!PersonaNeverReplaced /\ Disc!SkillsOfferedLoad /\ Disc!WhatIsNamedIsShown
  OBVIOUS
<1> USE DEF DiscLimits
<1>1. Disc!PersonaNeverReplaced
  BY FoundIsListed DEF Disc!PersonaNeverReplaced, DiscInv, SameInv
<1>2. Disc!SkillsOfferedLoad
  BY ListedLoads DEF Disc!SkillsOfferedLoad
<1>3. ASSUME Disc!Conventional, NEW n \in Disc!SkillIndex
      PROVE  /\ Disc!SkillTool(n, Disc!NoArgument) = [shows |-> "skill", of |-> Disc!SkillListedAt(n)]
             /\ \A f \in Disc!FilesNamed(n) \ Dotted :
                  Disc!SkillTool(n, f) = [shows |-> "file", of |-> Disc!SkillListedAt(n)]
  <2>1. n \in Dir /\ Disc!SkillListed(n) /\ n # Disc!NoArgument
    BY DEF Disc!SkillIndex
  <2>2. /\ Disc!SkillListedAt(n) = Disc!Candidate(n) /\ Disc!SkillLoadedAt(n) = Disc!Candidate(n)
        /\ Disc!SkillLoads(n)
    BY <1>3, <2>1, ListedLoads
  <2>3. Disc!SkillTool(n, Disc!NoArgument) = [shows |-> "skill", of |-> Disc!SkillListedAt(n)]
    BY <2>1, <2>2 DEF Disc!SkillTool
  <2>4. ASSUME NEW f \in Disc!FilesNamed(n) \ Dotted
        PROVE  Disc!SkillTool(n, f) = [shows |-> "file", of |-> Disc!SkillListedAt(n)]
    <3>1. f \in Disc!LinkedAt(Disc!Candidate(n), n) /\ Disc!FileLoads(n, f)
      BY <2>2, <2>4 DEF Disc!FilesNamed, Disc!FileLoads
    <3>2. f # Disc!NoArgument
      <4>1. CASE Disc!Candidate(n) = Disc!InTable
        BY <3>1, <4>1 DEF Disc!LinkedAt, DiscInv, NamedInv
      <4>2. CASE Disc!Candidate(n) # Disc!InTable
        <5>1. Disc!Candidate(n) \in Disc!Layer
          BY <4>2, FirstLayer DEF Disc!Candidate
        <5> QED
          BY <3>1, <4>2, <5>1 DEF Disc!LinkedAt, DiscInv, NamedInv
      <4> QED
        BY <4>1, <4>2
    <3> QED
      BY <2>1, <2>2, <3>1, <3>2 DEF Disc!SkillTool
  <2> QED
    BY <2>3, <2>4
<1> QED
  BY <1>1, <1>2, <1>3 DEF Disc!WhatIsNamedIsShown

(***************************************************************************)
(* The exit of events: an event is with its session's channel, with the    *)
(* forwarder or through, the events of a life one after the other; the     *)
(* forwarder of a life begins once and ends, unless it is aborted, when    *)
(* that life is over and its channel empty.                                *)
(***************************************************************************)
FanLimits == MaxLives \in Nat /\ MaxSent \in Nat
Numbered == Fan!Stream \X Nat
FanTypes ==
  /\ tasks \in [Owner -> [life : 0..MaxLives, state : {"off", "on", "ending"}, call : {"none", "mounted"}]]
  /\ emitted \in [Fan!Stream -> Nat] /\ streams \in [Fan!Stream -> Seq(Numbered)]
  /\ forwarders \in [Fan!Stream -> [state : {"none", "waiting", "putting", "ended"},
                                    held : Seq(Numbered), aborted : BOOLEAN]]
  /\ table \in [Owner -> 0..MaxLives]
  /\ closer \in [Owner -> [step : {"none", "task", "table", "join", "drained", "left"},
                           life : 0..MaxLives]]
  /\ exit \in Seq(Numbered) /\ seen \in Seq(Numbered)

\* Nothing is emitted in this life any more.
Over(s) == tasks[s[1]].life > s[2] \/ (tasks[s[1]].life = s[2] /\ tasks[s[1]].state = "off")
ForwarderInv ==
  \A s \in Fan!Stream :
    /\ IF forwarders[s].state = "putting" THEN Len(forwarders[s].held) = 1 ELSE forwarders[s].held = <<>>
    /\ s[2] > tasks[s[1]].life => forwarders[s].state = "none"
    /\ forwarders[s].state = "ended" /\ ~forwarders[s].aborted => streams[s] = <<>> /\ Over(s)
LifeInv ==
  \A o \in Owner :
    /\ tasks[o].state # "off" => tasks[o].life >= 1
    /\ tasks[o].call = "mounted" =>
         tasks[o].life >= 1 /\ forwarders[<<o, tasks[o].life>>].state = "none"
    /\ closer[o].step = "join" => closer[o].life >= 1
    /\ closer[o].step = "drained" =>
         /\ closer[o].life >= 1 /\ forwarders[<<o, closer[o].life>>].state = "ended"
         /\ ~forwarders[<<o, closer[o].life>>].aborted

\* In a sequence of events: those of a life up to the n-th are there; each comes after those
\* before it in its life; and none comes twice.
Through(a, s, n) == \A k \in 1..n : \E i \in 1 .. Len(a) : a[i] = <<s, k>>
Lacks(a, s, n) == \A i \in 1 .. Len(a) : a[i] # <<s, n>>
InTurn(a) ==
  \A i \in 1 .. Len(a) : \A k \in 1 .. a[i][2] - 1 : \E j \in 1 .. i - 1 : a[j] = <<a[i][1], k>>
Unrepeated(a) == \A i \in 1 .. Len(a) : \A j \in 1 .. i - 1 : a[j] # a[i]

Whole(s) == forwarders[s].state # "ended" \/ ~forwarders[s].aborted
Done(s) == emitted[s] - Len(streams[s]) - Len(forwarders[s].held)
StreamInv ==
  \A s \in Fan!Stream :
    /\ Done(s) >= 0
    /\ \A i \in 1 .. Len(forwarders[s].held) : forwarders[s].held[i] = <<s, Done(s) + i>>
    /\ \A i \in 1 .. Len(streams[s]) :
         streams[s][i] = <<s, Done(s) + Len(forwarders[s].held) + i>>
    /\ Whole(s) => Through(Fan!Arrived, s, Done(s))
ArrivedInv ==
  /\ \A s \in Fan!Stream : \A i \in 1 .. Len(Fan!Arrived) :
       Fan!Arrived[i][1] = s => Fan!Arrived[i][2] \in 1 .. Done(s)
  /\ InTurn(Fan!Arrived) /\ Unrepeated(Fan!Arrived)
FanInv == FanTypes /\ ForwarderInv /\ LifeInv /\ StreamInv /\ ArrivedInv

LEMMA FanStart == FanLimits /\ Fan!Init => FanInv
<1> SUFFICES ASSUME FanLimits, Fan!Init PROVE FanInv
  OBVIOUS
<1>1. FanTypes
  BY DEF FanLimits, Fan!Init, FanTypes, Fan!NoFwd, Fan!Stream, Fan!Life
<1>2. \A s \in Fan!Stream : streams[s] = <<>> /\ forwarders[s].held = <<>> /\ emitted[s] = 0
                            /\ forwarders[s].state = "none"
  BY DEF Fan!Init, Fan!NoFwd
<1>3. ForwarderInv /\ LifeInv
  BY <1>2 DEF ForwarderInv, LifeInv, Fan!Init
<1>4. Fan!Arrived = <<>>
  BY DEF Fan!Init, Fan!Arrived
<1>5. ASSUME NEW s \in Fan!Stream
      PROVE  Len(forwarders[s].held) = 0 /\ Len(streams[s]) = 0 /\ Done(s) = 0
  BY <1>2 DEF Done
<1>6. StreamInv
  BY <1>5 DEF StreamInv, Through
<1>7. ArrivedInv
  BY <1>4 DEF ArrivedInv, InTurn, Unrepeated
<1> QED
  BY <1>1, <1>3, <1>6, <1>7 DEF FanInv

LEMMA FanTyped == FanLimits /\ FanTypes /\ LifeInv /\ [Fan!Next]_Fan!vars => FanTypes'
<1> SUFFICES ASSUME FanLimits, FanTypes, LifeInv, [Fan!Next]_Fan!vars PROVE FanTypes'
  OBVIOUS
<1> DEFINE Fwd == [state : {"none", "waiting", "putting", "ended"}, held : Seq(Numbered), aborted : BOOLEAN]
           Task1 == [life : 0..MaxLives, state : {"off", "on", "ending"}, call : {"none", "mounted"}]
           Closer1 == [step : {"none", "task", "table", "join", "drained", "left"}, life : 0..MaxLives]
<1>e. <<>> \in Seq(Numbered)
  OBVIOUS
<1>1. ASSUME NEW s \in Owner, Fan!Mount(s) PROVE FanTypes'
  BY <1>1 DEF Fan!Mount, FanTypes, FanLimits
<1>2. ASSUME NEW s \in Owner, Fan!Register(s) PROVE FanTypes'
  BY <1>2 DEF Fan!Register, FanTypes, FanLimits
<1>3. ASSUME NEW s \in Owner, Fan!Emit(s) PROVE FanTypes'
  <2> DEFINE c == Fan!Current(s)
  <2>1. tasks[s].life \in 1..MaxLives
    <3>1. tasks[s].state # "off"
      BY <1>3 DEF Fan!Emit
    <3>2. tasks[s].life >= 1
      BY <3>1 DEF LifeInv
    <3>3. tasks[s] \in Task1
      BY DEF FanTypes
    <3> QED
      BY <3>2, <3>3 DEF FanLimits
  <2>2. c \in Fan!Stream
    BY <2>1 DEF Fan!Current, Fan!Stream, Fan!Life
  <2> HIDE DEF c
  <2>3. emitted[c] + 1 \in Nat /\ <<c, emitted[c] + 1>> \in Numbered
    BY <2>2 DEF Numbered, FanTypes
  <2>4. /\ emitted' = [emitted EXCEPT ![c] = @ + 1]
        /\ streams' = [streams EXCEPT ![c] = Append(@, <<c, emitted[c] + 1>>)]
        /\ UNCHANGED <<tasks, forwarders, table, closer, exit, seen>>
    BY <1>3 DEF Fan!Emit, c
  <2>5. emitted' \in [Fan!Stream -> Nat] /\ streams' \in [Fan!Stream -> Seq(Numbered)]
    BY <2>2, <2>3, <2>4 DEF FanTypes
  <2> QED
    BY <2>4, <2>5 DEF FanTypes
<1>4. ASSUME NEW s \in Fan!Stream, Fan!Take(s) PROVE FanTypes'
  <2>1. streams[s] \in Seq(Numbered) /\ streams[s] # <<>> /\ forwarders[s] \in Fwd
    BY <1>4 DEF Fan!Take, FanTypes
  <2>2. Tail(streams[s]) \in Seq(Numbered) /\ <<Head(streams[s])>> \in Seq(Numbered)
    BY <2>1
  <2>3. [forwarders[s] EXCEPT !.state = "putting", !.held = <<Head(streams[s])>>] \in Fwd
    BY <2>1, <2>2
  <2>4. /\ forwarders' = [forwarders EXCEPT ![s] =
                            [@ EXCEPT !.state = "putting", !.held = <<Head(streams[s])>>]]
        /\ streams' = [streams EXCEPT ![s] = Tail(@)]
        /\ UNCHANGED <<tasks, emitted, table, closer, exit, seen>>
    BY <1>4 DEF Fan!Take
  <2>5. forwarders' \in [Fan!Stream -> Fwd] /\ streams' \in [Fan!Stream -> Seq(Numbered)]
    BY <2>2, <2>3, <2>4 DEF FanTypes
  <2> QED
    BY <2>4, <2>5 DEF FanTypes
<1>5. ASSUME NEW s \in Fan!Stream, Fan!Put(s) PROVE FanTypes'
  <2>1. forwarders[s] \in Fwd /\ forwarders[s].held \in Seq(Numbered) /\ exit \in Seq(Numbered)
    BY DEF FanTypes
  <2>2. [forwarders[s] EXCEPT !.state = "waiting", !.held = <<>>] \in Fwd
    BY <2>1, <1>e
  <2>3. /\ forwarders' = [forwarders EXCEPT ![s] = [@ EXCEPT !.state = "waiting", !.held = <<>>]]
        /\ exit' = exit \o forwarders[s].held
        /\ UNCHANGED <<tasks, emitted, streams, table, closer, seen>>
    BY <1>5 DEF Fan!Put
  <2>4. forwarders' \in [Fan!Stream -> Fwd] /\ exit' \in Seq(Numbered)
    BY <2>1, <2>2, <2>3 DEF FanTypes
  <2> QED
    BY <2>3, <2>4 DEF FanTypes
<1>6. ASSUME NEW s \in Fan!Stream, Fan!End(s) \/ Fan!Die(s) PROVE FanTypes'
  <2>1. forwarders[s] \in Fwd
    BY DEF FanTypes
  <2>2. /\ [forwarders[s] EXCEPT !.state = "ended"] \in Fwd
        /\ [forwarders[s] EXCEPT !.state = "ended", !.held = <<>>] \in Fwd
    BY <2>1, <1>e
  <2>3. /\ \/ forwarders' = [forwarders EXCEPT ![s] = [@ EXCEPT !.state = "ended"]]
           \/ forwarders' = [forwarders EXCEPT ![s] = [@ EXCEPT !.state = "ended", !.held = <<>>]]
        /\ UNCHANGED <<tasks, emitted, streams, table, closer, exit, seen>>
    BY <1>6 DEF Fan!End, Fan!Die
  <2>4. forwarders' \in [Fan!Stream -> Fwd]
    BY <2>2, <2>3 DEF FanTypes
  <2> QED
    BY <2>3, <2>4 DEF FanTypes
<1>7. ASSUME NEW s \in Owner, Fan!Destroy(s) PROVE FanTypes'
  <2>1. tasks' = [tasks EXCEPT ![s].state = "ending"]
    BY <1>7 DEF Fan!Destroy
  <2>2. closer' = [closer EXCEPT ![s] = [step |-> "task", life |-> 0]]
    BY <1>7 DEF Fan!Destroy, Fan!Closed
  <2>3. tasks' \in [Owner -> Task1]
    BY <2>1 DEF FanTypes
  <2>4. closer' \in [Owner -> Closer1]
    BY <2>2 DEF FanTypes, FanLimits
  <2> QED
    BY <1>7, <2>3, <2>4 DEF Fan!Destroy, FanTypes
<1>8. ASSUME NEW s \in Owner, Fan!TaskEnds(s) PROVE FanTypes'
  <2>1. tasks' = [tasks EXCEPT ![s].state = "off"]
    BY <1>8 DEF Fan!TaskEnds
  <2>2. closer' = closer \/ closer' = [closer EXCEPT ![s] = [step |-> "table", life |-> 0]]
    BY <1>8 DEF Fan!TaskEnds, Fan!Closed
  <2>3. tasks' \in [Owner -> Task1]
    BY <2>1 DEF FanTypes
  <2>4. closer' \in [Owner -> Closer1]
    <3>1. closer \in [Owner -> Closer1] /\ 0 \in 0..MaxLives
      BY DEF FanTypes, FanLimits
    <3>2. CASE closer' = [closer EXCEPT ![s] = [step |-> "table", life |-> 0]]
      BY <3>1, <3>2
    <3> QED
      BY <2>2, <3>1, <3>2
  <2> QED
    BY <1>8, <2>3, <2>4 DEF Fan!TaskEnds, FanTypes
<1>9. ASSUME NEW s \in Owner, Fan!Unforward(s) PROVE FanTypes'
  BY <1>9 DEF Fan!Unforward, Fan!Closed, FanTypes, FanLimits
<1>10. ASSUME NEW s \in Owner, Fan!Joined(s) PROVE FanTypes'
  BY <1>10 DEF Fan!Joined, Fan!Closed, FanTypes
<1>11. ASSUME NEW s \in Owner, Fan!TimedOut(s) PROVE FanTypes'
  BY <1>11 DEF Fan!TimedOut, Fan!Closed, FanTypes
<1>12. CASE Fan!Recv
  BY <1>12 DEF Fan!Recv, FanTypes
<1>13. CASE Fan!Shutdown
  <2>1. ASSUME NEW o \in Owner PROVE [tasks[o] EXCEPT !.state = "ending"] \in Task1 /\ tasks[o] \in Task1
    BY DEF FanTypes
  <2>2. tasks' = [s \in Owner |-> IF tasks[s].state = "on" THEN [tasks[s] EXCEPT !.state = "ending"]
                                  ELSE tasks[s]]
    BY <1>13 DEF Fan!Shutdown
  <2>3. tasks' \in [Owner -> Task1]
    BY <2>1, <2>2
  <2> QED
    BY <1>13, <2>3 DEF Fan!Shutdown, FanTypes
<1>14. CASE Fan!DrainTable
  BY <1>14 DEF Fan!DrainTable, FanTypes, FanLimits
<1>15. CASE Fan!Dropped \/ UNCHANGED Fan!vars
  BY <1>15 DEF Fan!Dropped, Fan!vars, FanTypes
<1> QED
  BY <1>1, <1>2, <1>3, <1>4, <1>5, <1>6, <1>7, <1>8, <1>9, <1>10, <1>11, <1>12, <1>13, <1>14, <1>15
  DEF Fan!Next

LEMMA StreamPair == \A s \in Fan!Stream : s[1] \in Owner /\ s[2] \in 1..MaxLives /\ s = <<s[1], s[2]>>
BY DEF Fan!Stream, Fan!Life

\* What a step leaves alone keeps its invariant.
LEMMA ForwarderKept ==
  ASSUME FanLimits, FanTypes, ForwarderInv, UNCHANGED <<forwarders, streams>>,
         \A o \in Owner : /\ tasks'[o].life \in Nat /\ tasks'[o].life >= tasks[o].life
                          /\ tasks[o].state = "off" /\ tasks'[o].state # "off" =>
                               tasks'[o].life > tasks[o].life
  PROVE  ForwarderInv'
<1> SUFFICES ASSUME NEW s \in Fan!Stream
    PROVE  /\ s[2] > tasks'[s[1]].life => forwarders[s].state = "none"
           /\ forwarders[s].state = "ended" /\ ~forwarders[s].aborted => streams[s] = <<>> /\ Over(s)'
  BY DEF ForwarderInv
<1>1. s[1] \in Owner /\ s[2] \in Nat /\ tasks[s[1]].life \in Nat
  BY StreamPair DEF FanTypes, FanLimits
<1>2. s[2] > tasks'[s[1]].life => s[2] > tasks[s[1]].life
  BY <1>1
<1>3. Over(s) => Over(s)'
  BY <1>1 DEF Over
<1> QED
  BY <1>2, <1>3 DEF ForwarderInv
LEMMA LifeKept ==
  ASSUME FanLimits, FanTypes, LifeInv, UNCHANGED tasks,
         \A o \in Owner : closer'[o] = closer[o] \/ closer'[o].step \notin {"join", "drained"},
         \A s \in Fan!Stream :
           /\ forwarders[s].state = "none" => forwarders'[s].state = "none"
           /\ forwarders[s].state = "ended" => forwarders'[s].state = "ended"
                                               /\ forwarders'[s].aborted = forwarders[s].aborted
  PROVE  LifeInv'
<1>1. ASSUME NEW o \in Owner, tasks[o].life >= 1 PROVE <<o, tasks[o].life>> \in Fan!Stream
  BY <1>1 DEF FanTypes, FanLimits, Fan!Stream, Fan!Life
<1>2. ASSUME NEW o \in Owner, closer[o].life >= 1 PROVE <<o, closer[o].life>> \in Fan!Stream
  BY <1>2 DEF FanTypes, FanLimits, Fan!Stream, Fan!Life
<1>3. ASSUME NEW o \in Owner, tasks[o].call = "mounted"
      PROVE  tasks[o].life >= 1 /\ forwarders'[<<o, tasks[o].life>>].state = "none"
  BY <1>1, <1>3 DEF LifeInv
<1>4. ASSUME NEW o \in Owner, closer[o].step = "drained"
      PROVE  /\ closer[o].life >= 1 /\ forwarders'[<<o, closer[o].life>>].state = "ended"
             /\ ~forwarders'[<<o, closer[o].life>>].aborted
  BY <1>2, <1>4 DEF LifeInv
<1>5. ASSUME NEW o \in Owner, closer'[o].step \in {"join", "drained"} PROVE closer'[o] = closer[o]
  BY <1>5
<1> QED
  BY <1>3, <1>4, <1>5 DEF LifeInv

LEMMA ControlStep ==
  FanLimits /\ FanTypes /\ ForwarderInv /\ LifeInv /\ [Fan!Next]_Fan!vars => ForwarderInv' /\ LifeInv'
<1> SUFFICES ASSUME FanLimits, FanTypes, ForwarderInv, LifeInv, [Fan!Next]_Fan!vars
             PROVE  ForwarderInv' /\ LifeInv'
  OBVIOUS
<1>t. \A o \in Owner : tasks[o].life \in Nat
  BY DEF FanTypes, FanLimits
<1>1. ASSUME NEW p \in Owner, Fan!Mount(p) PROVE ForwarderInv' /\ LifeInv'
  <2>1. /\ tasks[p].state = "off" /\ tasks[p].life < MaxLives
        /\ UNCHANGED <<forwarders, streams, closer>>
    BY <1>1 DEF Fan!Mount
  <2>2. \A o \in Owner : /\ o # p => tasks'[o] = tasks[o]
                         /\ o = p => /\ tasks'[o].life = tasks[o].life + 1 /\ tasks'[o].state = "on"
                                     /\ tasks'[o].call = "mounted"
    BY <1>1 DEF Fan!Mount, FanTypes
  <2>3. ForwarderInv'
    BY <1>t, <2>1, <2>2, ForwarderKept
  <2>4. <<p, tasks[p].life + 1>> \in Fan!Stream /\ tasks[p].life + 1 > tasks[p].life
    BY <2>1, <1>t DEF Fan!Stream, Fan!Life, FanLimits
  <2>5. forwarders[<<p, tasks[p].life + 1>>].state = "none"
    BY <2>4 DEF ForwarderInv
  <2>6. LifeInv'
    <3>1. ASSUME NEW o \in Owner, o = p
          PROVE  /\ tasks'[o].life >= 1 /\ forwarders'[<<o, tasks'[o].life>>].state = "none"
      <4>1. tasks'[o].life = tasks[p].life + 1
        BY <2>2, <3>1
      <4>2. tasks'[o].life >= 1
        BY <4>1, <1>t
      <4> QED
        BY <4>1, <4>2, <3>1, <2>1, <2>5
    <3>2. ASSUME NEW o \in Owner, o # p PROVE tasks'[o] = tasks[o]
      BY <2>2, <3>2
    <3> QED
      BY <3>1, <3>2, <2>1 DEF LifeInv
  <2> QED
    BY <2>3, <2>6
<1>2. ASSUME NEW p \in Owner, Fan!Register(p) PROVE ForwarderInv' /\ LifeInv'
  <2> DEFINE c == <<p, tasks[p].life>>
  <2>1. tasks[p].life >= 1 /\ forwarders[c].state = "none" /\ UNCHANGED <<streams, closer>>
    BY <1>2 DEF Fan!Register, LifeInv
  <2>2. c \in Fan!Stream
    BY <2>1, <1>t DEF Fan!Stream, Fan!Life, FanTypes, FanLimits
  <2>3. \A o \in Owner : /\ tasks'[o].life = tasks[o].life /\ tasks'[o].state = tasks[o].state
                         /\ o = p => tasks'[o].call = "none"
                         /\ o # p => tasks'[o].call = tasks[o].call
    BY <1>2 DEF Fan!Register, FanTypes
  <2>4. forwarders' = [forwarders EXCEPT ![c].state = "waiting"]
    BY <1>2 DEF Fan!Register, Fan!Current
  <2> HIDE DEF c
  <2>5. \A s \in Fan!Stream : /\ s # c => forwarders'[s] = forwarders[s]
                              /\ s = c => /\ forwarders'[s].state = "waiting"
                                          /\ forwarders'[s].held = forwarders[s].held
    BY <2>4 DEF FanTypes
  <2>6. ForwarderInv'
    <3> SUFFICES ASSUME NEW s \in Fan!Stream
        PROVE  (/\ IF forwarders[s].state = "putting" THEN Len(forwarders[s].held) = 1
                   ELSE forwarders[s].held = <<>>
                /\ s[2] > tasks[s[1]].life => forwarders[s].state = "none"
                /\ forwarders[s].state = "ended" /\ ~forwarders[s].aborted => streams[s] = <<>> /\ Over(s))'
      BY DEF ForwarderInv
    <3>1. s[1] \in Owner /\ tasks'[s[1]].life = tasks[s[1]].life /\ (Over(s) <=> Over(s)')
      BY StreamPair, <2>3 DEF Over
    <3>2. CASE s # c
      BY <3>1, <3>2, <2>1, <2>5 DEF ForwarderInv
    <3>3. CASE s = c
      <4>1. s[1] = p /\ s[2] = tasks[p].life
        BY <3>3 DEF c
      <4> QED
        BY <3>1, <3>3, <4>1, <2>1, <2>5, <1>t DEF ForwarderInv
    <3> QED
      BY <3>2, <3>3
  <2>7. LifeInv'
    <3>1. ASSUME NEW o \in Owner, tasks'[o].call = "mounted"
          PROVE  tasks'[o].life >= 1 /\ forwarders'[<<o, tasks'[o].life>>].state = "none"
      <4>1. o # p /\ tasks[o].call = "mounted" /\ tasks[o].life >= 1
            /\ forwarders[<<o, tasks[o].life>>].state = "none"
        BY <3>1, <2>3 DEF LifeInv
      <4>2. <<o, tasks[o].life>> \in Fan!Stream /\ <<o, tasks[o].life>> # c
        BY <4>1, <1>t DEF Fan!Stream, Fan!Life, FanTypes, FanLimits, c
      <4> QED
        BY <4>1, <4>2, <2>3, <2>5
    <3>2. ASSUME NEW o \in Owner, closer[o].step = "drained"
          PROVE  /\ closer[o].life >= 1 /\ forwarders'[<<o, closer[o].life>>].state = "ended"
                 /\ ~forwarders'[<<o, closer[o].life>>].aborted
      <4>1. closer[o].life >= 1 /\ forwarders[<<o, closer[o].life>>].state = "ended"
            /\ ~forwarders[<<o, closer[o].life>>].aborted
        BY <3>2 DEF LifeInv
      <4>2. closer[o].life \in 1..MaxLives
        BY <4>1 DEF FanTypes, FanLimits
      <4>3. <<o, closer[o].life>> \in Fan!Stream
        BY <4>2 DEF Fan!Stream, Fan!Life
      <4>4. <<o, closer[o].life>> # c
        BY <4>1, <2>1
      <4> QED
        BY <4>1, <4>3, <4>4, <2>5
    <3> QED
      BY <3>1, <3>2, <2>1, <2>3 DEF LifeInv
  <2> QED
    BY <2>6, <2>7
<1>3. ASSUME NEW p \in Owner, Fan!Emit(p) PROVE ForwarderInv' /\ LifeInv'
  <2> DEFINE c == Fan!Current(p)
  <2>1. tasks[p].state # "off" /\ UNCHANGED <<tasks, forwarders, closer>>
    BY <1>3 DEF Fan!Emit
  <2>2. \A s \in Fan!Stream : s # c => streams'[s] = streams[s]
    BY <1>3 DEF Fan!Emit, FanTypes
  <2>3. ASSUME NEW s \in Fan!Stream PROVE s = c => ~Over(s)
    BY <2>1, <1>t, StreamPair DEF Over, Fan!Current
  <2> HIDE DEF c
  <2>4. ForwarderInv'
    <3>1. \A s \in Fan!Stream : Over(s)' <=> Over(s)
      BY <2>1 DEF Over
    <3> QED
      BY <3>1, <2>1, <2>2, <2>3 DEF ForwarderInv
  <2>5. LifeInv'
    BY <2>1 DEF LifeInv
  <2> QED
    BY <2>4, <2>5
<1>4. ASSUME NEW p \in Fan!Stream, Fan!Take(p) \/ Fan!Put(p) \/ Fan!End(p) \/ Fan!Die(p)
      PROVE  ForwarderInv' /\ LifeInv'
  <2>1. /\ UNCHANGED <<tasks, closer>> /\ forwarders[p].state \in {"waiting", "putting"}
        /\ \A s \in Fan!Stream : s # p => forwarders'[s] = forwarders[s] /\ streams'[s] = streams[s]
    BY <1>4 DEF Fan!Take, Fan!Put, Fan!End, Fan!Die, Fan!Running, FanTypes
  <2>2. /\ forwarders'[p].aborted = forwarders[p].aborted /\ forwarders'[p].state # "none"
        /\ IF forwarders'[p].state = "putting" THEN Len(forwarders'[p].held) = 1
           ELSE forwarders'[p].held = <<>>
    <3>1. CASE Fan!Take(p)
      BY <3>1 DEF Fan!Take, FanTypes
    <3>2. CASE Fan!Put(p)
      BY <3>2 DEF Fan!Put, FanTypes
    <3>3. CASE Fan!End(p)
      BY <3>3 DEF Fan!End, FanTypes, ForwarderInv
    <3>4. CASE Fan!Die(p)
      BY <3>4 DEF Fan!Die, FanTypes
    <3> QED
      BY <1>4, <3>1, <3>2, <3>3, <3>4
  <2>3. forwarders'[p].state = "ended" /\ ~forwarders'[p].aborted => streams'[p] = <<>> /\ Over(p)
    <3>1. CASE Fan!Take(p) \/ Fan!Put(p)
      BY <3>1 DEF Fan!Take, Fan!Put, FanTypes
    <3>2. CASE Fan!End(p)
      <4>1. streams'[p] = <<>> /\ (tasks[p[1]].state = "off" \/ tasks[p[1]].life > p[2])
            /\ forwarders[p].state # "none"
        BY <3>2 DEF Fan!End
      <4>2. p[2] <= tasks[p[1]].life
        BY <4>1, <1>t, StreamPair DEF ForwarderInv
      <4> QED
        BY <4>1, <4>2, <1>t, StreamPair DEF Over
    <3>3. CASE Fan!Die(p)
      BY <3>3, <2>2 DEF Fan!Die
    <3> QED
      BY <1>4, <3>1, <3>2, <3>3
  <2>4. forwarders[p].state # "none" /\ forwarders[p].state # "ended"
    BY <2>1
  <2>5. ForwarderInv'
    <3>1. \A s \in Fan!Stream : Over(s)' <=> Over(s)
      BY <2>1 DEF Over
    <3> QED
      BY <3>1, <2>1, <2>2, <2>3, <2>4 DEF ForwarderInv
  <2>6. LifeInv'
    BY <2>1, <2>4, LifeKept
  <2> QED
    BY <2>5, <2>6
<1>5. ASSUME NEW p \in Owner, Fan!Destroy(p) \/ Fan!TaskEnds(p) PROVE ForwarderInv' /\ LifeInv'
  <2>1. tasks[p].state # "off" /\ UNCHANGED <<forwarders, streams>>
    BY <1>5 DEF Fan!Destroy, Fan!TaskEnds
  <2>2. \A o \in Owner : /\ tasks'[o].life = tasks[o].life /\ tasks'[o].call = tasks[o].call
                         /\ o # p => tasks'[o].state = tasks[o].state
    BY <1>5 DEF Fan!Destroy, Fan!TaskEnds, FanTypes
  <2>3. \A o \in Owner : closer'[o] = closer[o] \/ closer'[o].step \in {"task", "table"}
    BY <1>5 DEF Fan!Destroy, Fan!TaskEnds, Fan!Closed, FanTypes
  <2>4. ForwarderInv'
    BY <1>t, <2>1, <2>2, ForwarderKept
  <2>5. \A o \in Owner : closer'[o].step \in {"join", "drained"} => closer'[o] = closer[o]
    BY <2>3
  <2>6. LifeInv'
    BY <2>1, <2>2, <2>5 DEF LifeInv
  <2> QED
    BY <2>4, <2>6
<1>6. ASSUME NEW p \in Owner, Fan!Unforward(p) PROVE ForwarderInv' /\ LifeInv'
  <2>1. /\ UNCHANGED <<tasks, forwarders, streams>>
        /\ closer' = [closer EXCEPT ![p] = [step |-> IF table[p] = 0 THEN "left" ELSE "join",
                                            life |-> table[p]]]
    BY <1>6 DEF Fan!Unforward, Fan!Closed
  <2>2. table[p] = 0 \/ table[p] >= 1
    BY DEF FanTypes, FanLimits
  <2>3. \A o \in Owner : /\ o # p => closer'[o] = closer[o]
                         /\ closer'[p].step # "drained"
                         /\ closer'[p].step = "join" => closer'[p].life >= 1
    BY <2>1, <2>2 DEF FanTypes
  <2>4. ForwarderInv'
    BY <1>t, <2>1, ForwarderKept
  <2>5. LifeInv'
    BY <2>1, <2>3 DEF LifeInv
  <2> QED
    BY <2>4, <2>5
<1>7. ASSUME NEW p \in Owner, Fan!Joined(p) PROVE ForwarderInv' /\ LifeInv'
  <2> DEFINE c == <<p, closer[p].life>>
  <2>1. /\ UNCHANGED <<tasks, forwarders, streams>> /\ closer[p].step = "join"
        /\ forwarders[c].state = "ended"
        /\ closer' = [closer EXCEPT ![p] = [step |-> IF forwarders[c].aborted THEN "left" ELSE "drained",
                                            life |-> closer[p].life]]
    BY <1>7 DEF Fan!Joined, Fan!Closing, Fan!Closed
  <2>2. closer[p].life >= 1
    BY <2>1 DEF LifeInv
  <2>3. \A o \in Owner : /\ o # p => closer'[o] = closer[o]
                         /\ closer'[p].life = closer[p].life /\ closer'[p].step # "join"
                         /\ closer'[p].step = "drained" => ~forwarders[c].aborted
    BY <2>1 DEF FanTypes
  <2>4. ForwarderInv'
    BY <1>t, <2>1, ForwarderKept
  <2>5. LifeInv'
    BY <2>1, <2>2, <2>3 DEF LifeInv
  <2> QED
    BY <2>4, <2>5
<1>8. ASSUME NEW p \in Owner, Fan!TimedOut(p) PROVE ForwarderInv' /\ LifeInv'
  <2> DEFINE c == <<p, closer[p].life>>
  <2>1. /\ UNCHANGED <<tasks, streams>> /\ forwarders[c].state # "ended"
        /\ forwarders' = [forwarders EXCEPT ![c].aborted = TRUE]
        /\ closer' = [closer EXCEPT ![p] = [step |-> "left", life |-> closer[p].life]]
    BY <1>8 DEF Fan!TimedOut, Fan!Closed
  <2> HIDE DEF c
  <2>2. \A s \in Fan!Stream : /\ s # c => forwarders'[s] = forwarders[s]
                              /\ forwarders'[s].state = forwarders[s].state
                              /\ forwarders'[s].held = forwarders[s].held
    BY <2>1 DEF FanTypes
  <2>3. \A o \in Owner : closer'[o] = closer[o] \/ closer'[o].step = "left"
    BY <2>1 DEF FanTypes
  <2>4. ForwarderInv'
    <3>1. \A s \in Fan!Stream : Over(s)' <=> Over(s)
      BY <2>1 DEF Over
    <3> QED
      BY <3>1, <2>1, <2>2 DEF ForwarderInv
  <2>5. \A s \in Fan!Stream : forwarders[s].state = "ended" => forwarders'[s].aborted = forwarders[s].aborted
    BY <2>1, <2>2
  <2>6. \A o \in Owner : closer'[o] = closer[o] \/ closer'[o].step \notin {"join", "drained"}
    BY <2>3
  <2>7. LifeInv'
    BY <2>1, <2>2, <2>5, <2>6, LifeKept
  <2> QED
    BY <2>4, <2>7
<1>9. CASE Fan!Shutdown
  <2>1. \A o \in Owner : /\ tasks'[o].life = tasks[o].life /\ tasks'[o].call = tasks[o].call
                         /\ tasks'[o].state # "off" => tasks[o].state # "off"
    BY <1>9 DEF Fan!Shutdown, FanTypes
  <2>2. UNCHANGED <<forwarders, streams, closer>>
    BY <1>9 DEF Fan!Shutdown
  <2>3. ForwarderInv'
    BY <1>t, <2>1, <2>2, ForwarderKept
  <2>4. LifeInv'
    BY <2>1, <2>2 DEF LifeInv
  <2> QED
    BY <2>3, <2>4
<1>10. CASE Fan!DrainTable
  <2>1. /\ UNCHANGED <<tasks, forwarders, streams>>
        /\ closer' = [s \in Owner |-> IF table[s] = 0 THEN closer[s] ELSE [step |-> "join", life |-> table[s]]]
    BY <1>10 DEF Fan!DrainTable
  <2>2. \A o \in Owner : table[o] = 0 \/ table[o] >= 1
    BY DEF FanTypes, FanLimits
  <2>3. \A o \in Owner : closer'[o] = closer[o] \/ (closer'[o].step = "join" /\ closer'[o].life >= 1)
    BY <2>1, <2>2
  <2>4. ForwarderInv'
    BY <1>t, <2>1, ForwarderKept
  <2>5. LifeInv'
    BY <2>1, <2>3 DEF LifeInv
  <2> QED
    BY <2>4, <2>5
<1>11. CASE Fan!Recv \/ Fan!Dropped \/ UNCHANGED Fan!vars
  <2>1. UNCHANGED <<tasks, forwarders, streams, closer>>
    BY <1>11 DEF Fan!Recv, Fan!Dropped, Fan!vars
  <2> QED
    BY <2>1 DEF ForwarderInv, LifeInv, Over
<1> QED
  BY <1>1, <1>2, <1>3, <1>4, <1>5, <1>6, <1>7, <1>8, <1>9, <1>10, <1>11 DEF Fan!Next

LEMMA ArrivedTyped ==
  ASSUME FanTypes
  PROVE  /\ Fan!Arrived \in Seq(Numbered)
         /\ \A i \in 1 .. Len(Fan!Arrived) :
              /\ Fan!Arrived[i][1] \in Fan!Stream /\ Fan!Arrived[i][2] \in Nat
              /\ Fan!Arrived[i] = <<Fan!Arrived[i][1], Fan!Arrived[i][2]>>
<1>1. Fan!Arrived \in Seq(Numbered)
  BY ConcatProperties DEF FanTypes, Fan!Arrived
<1>2. ASSUME NEW i \in 1 .. Len(Fan!Arrived) PROVE Fan!Arrived[i] \in Numbered
  BY <1>1
<1> QED
  BY <1>1, <1>2 DEF Numbered

\* Steps that move no event.
LEMMA NothingMoves ==
  ASSUME FanTypes, StreamInv, ArrivedInv, UNCHANGED <<emitted, streams>>, Fan!Arrived' = Fan!Arrived,
         \A s \in Fan!Stream : forwarders'[s].held = forwarders[s].held /\ (Whole(s)' => Whole(s))
  PROVE  StreamInv' /\ ArrivedInv'
<1>1. \A s \in Fan!Stream : Done(s)' = Done(s)
  BY DEF Done
<1>2. StreamInv'
  BY <1>1 DEF StreamInv
<1>3. \A i \in 1 .. Len(Fan!Arrived) : Fan!Arrived[i][1] \in Fan!Stream
  BY ArrivedTyped
<1>4. ArrivedInv'
  BY <1>1, <1>3 DEF ArrivedInv
<1> QED
  BY <1>2, <1>4

\* An event is put behind those before it in its life.
LEMMA OneMore ==
  ASSUME NEW a \in Seq(Numbered), NEW s \in Fan!Stream, NEW n \in Nat, n >= 1,
         InTurn(a), Unrepeated(a), Through(a, s, n - 1), Lacks(a, s, n),
         NEW b \in Seq(Numbered), b = a \o <<<<s, n>>>>
  PROVE  /\ InTurn(b) /\ Unrepeated(b) /\ Through(b, s, n)
         /\ Len(b) = Len(a) + 1 /\ b[Len(a) + 1] = <<s, n>> /\ \A i \in 1 .. Len(a) : b[i] = a[i]
<1>1. <<<<s, n>>>> \in Seq(Numbered)
  BY DEF Numbered
<1>2. /\ Len(b) = Len(a) + 1 /\ b[Len(a) + 1] = <<s, n>>
      /\ \A i \in 1 .. Len(a) : b[i] = a[i]
  BY <1>1
<1>3. Len(a) \in Nat
  OBVIOUS
<1>4. Through(b, s, n)
  <2> SUFFICES ASSUME NEW k \in 1..n PROVE \E i \in 1 .. Len(b) : b[i] = <<s, k>>
    BY DEF Through
  <2>1. CASE k = n
    <3>1. Len(a) + 1 \in 1 .. Len(b) /\ b[Len(a) + 1] = <<s, k>>
      BY <2>1, <1>2, <1>3
    <3> QED
      BY <3>1
  <2>2. CASE k # n
    <3>1. k \in 1 .. n - 1
      BY <2>2
    <3>2. PICK i \in 1 .. Len(a) : a[i] = <<s, k>>
      BY <3>1 DEF Through
    <3>3. i \in 1 .. Len(b) /\ b[i] = <<s, k>>
      BY <3>2, <1>2, <1>3
    <3> QED
      BY <3>3
  <2> QED
    BY <2>1, <2>2
<1>5. InTurn(b)
  <2> SUFFICES ASSUME NEW i \in 1 .. Len(b), NEW k \in 1 .. b[i][2] - 1
      PROVE  \E j \in 1 .. i - 1 : b[j] = <<b[i][1], k>>
    BY DEF InTurn
  <2>1. CASE i = Len(a) + 1
    <3>1. b[i][1] = s /\ b[i][2] = n
      BY <2>1, <1>2
    <3>2. PICK j \in 1 .. Len(a) : a[j] = <<s, k>>
      BY <3>1 DEF Through
    <3> QED
      BY <2>1, <3>1, <3>2, <1>2, <1>3
  <2>2. CASE i # Len(a) + 1
    <3>1. i \in 1 .. Len(a) /\ b[i] = a[i]
      BY <2>2, <1>2, <1>3
    <3>2. PICK j \in 1 .. i - 1 : a[j] = <<a[i][1], k>>
      BY <3>1 DEF InTurn
    <3>3. j \in 1 .. Len(a)
      BY <3>1, <1>3
    <3> QED
      BY <3>1, <3>2, <3>3, <1>2
  <2> QED
    BY <2>1, <2>2
<1>6. Unrepeated(b)
  <2> SUFFICES ASSUME NEW i \in 1 .. Len(b), NEW j \in 1 .. i - 1 PROVE b[j] # b[i]
    BY DEF Unrepeated
  <2>1. j \in 1 .. Len(a) /\ b[j] = a[j]
    BY <1>2, <1>3
  <2>2. CASE i = Len(a) + 1
    BY <2>1, <2>2, <1>2 DEF Lacks
  <2>3. CASE i # Len(a) + 1
    <3>1. i \in 1 .. Len(a) /\ b[i] = a[i]
      BY <2>3, <1>2, <1>3
    <3> QED
      BY <2>1, <3>1 DEF Unrepeated
  <2> QED
    BY <2>2, <2>3
<1> QED
  BY <1>2, <1>4, <1>5, <1>6

LEMMA StreamsStep ==
  FanLimits /\ FanTypes /\ FanTypes' /\ ForwarderInv /\ LifeInv /\ StreamInv /\ ArrivedInv
    /\ [Fan!Next]_Fan!vars => StreamInv' /\ ArrivedInv'
<1> SUFFICES ASSUME FanLimits, FanTypes, FanTypes', ForwarderInv, LifeInv, StreamInv, ArrivedInv,
                    [Fan!Next]_Fan!vars
             PROVE  StreamInv' /\ ArrivedInv'
  OBVIOUS
<1>t. ASSUME NEW s \in Fan!Stream
      PROVE  /\ forwarders[s].held \in Seq(Numbered) /\ streams[s] \in Seq(Numbered)
             /\ emitted[s] \in Nat /\ Done(s) \in Nat
             /\ emitted[s] = Done(s) + Len(forwarders[s].held) + Len(streams[s])
  <2>1. forwarders[s].held \in Seq(Numbered) /\ streams[s] \in Seq(Numbered) /\ emitted[s] \in Nat
    BY DEF FanTypes
  <2>2. Len(forwarders[s].held) \in Nat /\ Len(streams[s]) \in Nat /\ Done(s) >= 0
    BY <2>1 DEF StreamInv
  <2> QED
    BY <2>1, <2>2 DEF Done
<1>a. \A i \in 1 .. Len(Fan!Arrived) : Fan!Arrived[i][1] \in Fan!Stream
  BY ArrivedTyped
<1>1. ASSUME NEW o \in Owner, Fan!Emit(o) PROVE StreamInv' /\ ArrivedInv'
  <2>1. tasks[o].state # "off" /\ UNCHANGED <<tasks, forwarders, exit, seen>>
    BY <1>1 DEF Fan!Emit
  <2>2. PICK c \in Fan!Stream : c = Fan!Current(o) /\ ~Over(c)
    <3> DEFINE d == Fan!Current(o)
    <3>1. tasks[o].life >= 1
      BY <2>1 DEF LifeInv
    <3>2. tasks[o].life \in 1..MaxLives
      BY <3>1 DEF FanTypes, FanLimits
    <3>3. d \in Fan!Stream
      BY <3>2 DEF Fan!Current, Fan!Stream, Fan!Life
    <3>4. d[1] = o /\ d[2] = tasks[o].life
      BY DEF Fan!Current
    <3>5. ~Over(d)
      BY <3>2, <3>4, <2>1 DEF Over
    <3> QED
      BY <3>3, <3>5
  <2> DEFINE e == <<c, emitted[c] + 1>>
  <2>3. /\ emitted' = [emitted EXCEPT ![c] = @ + 1]
        /\ streams' = [streams EXCEPT ![c] = Append(@, e)]
    BY <1>1, <2>2 DEF Fan!Emit
  <2>4. Fan!Arrived' = Fan!Arrived
    BY <2>1 DEF Fan!Arrived
  <2>5. /\ emitted'[c] = emitted[c] + 1 /\ streams'[c] = Append(streams[c], e)
        /\ \A s \in Fan!Stream : s # c => emitted'[s] = emitted[s] /\ streams'[s] = streams[s]
    BY <2>2, <2>3 DEF FanTypes
  <2>6. e \in Numbered
    BY <2>2, <1>t DEF Numbered
  <2>7. /\ Len(streams'[c]) = Len(streams[c]) + 1 /\ streams'[c][Len(streams[c]) + 1] = e
        /\ \A i \in 1 .. Len(streams[c]) : streams'[c][i] = streams[c][i]
    BY <2>2, <2>5, <2>6, <1>t, AppendProperties
  <2>8. \A s \in Fan!Stream : Done(s)' = Done(s)
    <3> TAKE s \in Fan!Stream
    <3>1. CASE s # c
      BY <3>1, <2>1, <2>5 DEF Done
    <3>2. CASE s = c
      <4>1. Done(c)' = emitted'[c] - Len(streams'[c]) - Len(forwarders[c].held)
        BY <2>1 DEF Done
      <4>2. /\ emitted[c] = Done(c) + Len(forwarders[c].held) + Len(streams[c])
            /\ Len(streams[c]) \in Nat /\ Done(c) \in Nat /\ Len(forwarders[c].held) \in Nat
        BY <2>2, <1>t
      <4>3. emitted'[c] = emitted[c] + 1 /\ Len(streams'[c]) = Len(streams[c]) + 1
        BY <2>2, <2>5, <2>7
      <4>4. Done(c)' = Done(c)
        BY <4>1, <4>2, <4>3
      <4> QED
        BY <4>4, <3>2
    <3> QED
      BY <3>1, <3>2
  <2>9. \A s \in Fan!Stream : Whole(s)' => Whole(s)
    BY <2>1 DEF Whole
  <2>10. ASSUME NEW i \in 1 .. Len(streams'[c])
         PROVE  streams'[c][i] = <<c, Done(c) + Len(forwarders[c].held) + i>>
    <3>1. CASE i \in 1 .. Len(streams[c])
      BY <3>1, <2>2, <2>7 DEF StreamInv
    <3>2. CASE i = Len(streams[c]) + 1
      <4>1. emitted[c] = Done(c) + Len(forwarders[c].held) + Len(streams[c])
        BY <2>2, <1>t
      <4>2. Len(streams[c]) \in Nat /\ Len(forwarders[c].held) \in Nat /\ Done(c) \in Nat
        BY <2>2, <1>t
      <4>3. i \in Nat
        BY <3>2, <4>2
      <4>4. emitted[c] + 1 = Done(c) + Len(forwarders[c].held) + i
        BY <3>2, <4>1, <4>2, <4>3
      <4> QED
        BY <4>4, <3>2, <2>7
    <3>3. Len(streams[c]) \in Nat
      BY <2>2, <1>t
    <3> QED
      BY <3>1, <3>2, <3>3, <2>7
  <2>11. StreamInv'
    <3> SUFFICES ASSUME NEW s \in Fan!Stream
        PROVE  /\ Done(s) >= 0
               /\ \A i \in 1 .. Len(forwarders[s].held) : forwarders[s].held[i] = <<s, Done(s) + i>>
               /\ \A i \in 1 .. Len(streams'[s]) :
                    streams'[s][i] = <<s, Done(s) + Len(forwarders[s].held) + i>>
               /\ Whole(s) => Through(Fan!Arrived, s, Done(s))
      BY <2>1, <2>4, <2>8, <2>9 DEF StreamInv
    <3>1. CASE s = c
      BY <3>1, <2>10 DEF StreamInv
    <3>2. CASE s # c
      BY <3>2, <2>5 DEF StreamInv
    <3> QED
      BY <3>1, <3>2
  <2>12. ArrivedInv'
    BY <2>4, <2>8, <1>a DEF ArrivedInv
  <2> QED
    BY <2>11, <2>12
<1>2. ASSUME NEW c \in Fan!Stream, Fan!Take(c) PROVE StreamInv' /\ ArrivedInv'
  <2> DEFINE e == Head(streams[c])
  <2>1. /\ forwarders[c].state = "waiting" /\ streams[c] # <<>>
        /\ UNCHANGED <<emitted, exit, seen>>
    BY <1>2 DEF Fan!Take
  <2>2. /\ \A s \in Fan!Stream : s # c => forwarders'[s] = forwarders[s] /\ streams'[s] = streams[s]
        /\ forwarders'[c].state = "putting" /\ forwarders'[c].held = <<e>>
        /\ streams'[c] = Tail(streams[c])
    BY <1>2 DEF Fan!Take, FanTypes
  <2>3. /\ Len(streams'[c]) = Len(streams[c]) - 1 /\ Len(streams[c]) >= 1 /\ e = streams[c][1]
        /\ \A i \in 1 .. Len(streams'[c]) : streams'[c][i] = streams[c][i + 1]
    BY <2>1, <2>2, <1>t
  <2>4. Len(forwarders[c].held) = 0 /\ Len(forwarders'[c].held) = 1 /\ forwarders'[c].held[1] = e
    BY <2>1, <2>2 DEF ForwarderInv
  <2> HIDE DEF e
  <2>5. Fan!Arrived' = Fan!Arrived
    BY <2>1 DEF Fan!Arrived
  <2>6. \A s \in Fan!Stream : Done(s)' = Done(s)
    <3> TAKE s \in Fan!Stream
    <3>1. CASE s # c
      BY <3>1, <2>1, <2>2 DEF Done
    <3>2. CASE s = c
      <4>1. Done(c)' = emitted[c] - Len(streams'[c]) - Len(forwarders'[c].held)
        BY <2>1 DEF Done
      <4> QED
        BY <4>1, <3>2, <2>3, <2>4, <1>t
    <3> QED
      BY <3>1, <3>2
  <2>7. e = <<c, Done(c) + 1>>
    <3>1. 1 \in 1 .. Len(streams[c])
      BY <2>3, <1>t
    <3>2. streams[c][1] = <<c, Done(c) + Len(forwarders[c].held) + 1>>
      BY <3>1 DEF StreamInv
    <3>3. Done(c) + Len(forwarders[c].held) + 1 = Done(c) + 1
      BY <2>4, <1>t
    <3> QED
      BY <3>2, <3>3, <2>3
  <2>8. ASSUME NEW i \in 1 .. Len(streams'[c]) PROVE streams'[c][i] = <<c, Done(c) + 1 + i>>
    <3>1. i + 1 \in 1 .. Len(streams[c])
      BY <2>3, <1>t
    <3>2. streams[c][i + 1] = <<c, Done(c) + Len(forwarders[c].held) + (i + 1)>>
      BY <3>1 DEF StreamInv
    <3>3. Done(c) + Len(forwarders[c].held) + (i + 1) = Done(c) + 1 + i
      <4>1. Done(c) \in Nat /\ i \in Nat
        BY <1>t
      <4> QED
        BY <4>1, <2>4
    <3> QED
      BY <3>2, <3>3, <2>3
  <2>9. Through(Fan!Arrived, c, Done(c))
    BY <2>1 DEF StreamInv, Whole
  <2>10. ASSUME NEW s \in Fan!Stream, s # c
         PROVE  /\ forwarders'[s] = forwarders[s] /\ streams'[s] = streams[s]
                /\ (Whole(s)' <=> Whole(s))
    BY <2>2, <2>10 DEF Whole
  <2>11. StreamInv'
    <3> SUFFICES ASSUME NEW s \in Fan!Stream
        PROVE  /\ Done(s) >= 0
               /\ \A i \in 1 .. Len(forwarders'[s].held) : forwarders'[s].held[i] = <<s, Done(s) + i>>
               /\ \A i \in 1 .. Len(streams'[s]) :
                    streams'[s][i] = <<s, Done(s) + Len(forwarders'[s].held) + i>>
               /\ Whole(s)' => Through(Fan!Arrived, s, Done(s))
      BY <2>5, <2>6 DEF StreamInv
    <3>1. CASE s = c
      BY <3>1, <2>4, <2>7, <2>8, <2>9, <1>t
    <3>2. CASE s # c
      BY <3>2, <2>10 DEF StreamInv
    <3> QED
      BY <3>1, <3>2
  <2>12. ArrivedInv'
    BY <2>5, <2>6, <1>a DEF ArrivedInv
  <2> QED
    BY <2>11, <2>12
<1>3. ASSUME NEW c \in Fan!Stream, Fan!Put(c) PROVE StreamInv' /\ ArrivedInv'
  <2> DEFINE n == Done(c) + 1
  <2>1. /\ forwarders[c].state = "putting" /\ UNCHANGED <<emitted, streams, seen>>
        /\ exit' = exit \o forwarders[c].held
    BY <1>3 DEF Fan!Put
  <2>2. /\ \A s \in Fan!Stream : s # c => forwarders'[s] = forwarders[s]
        /\ forwarders'[c].held = <<>>
    BY <1>3 DEF Fan!Put, FanTypes
  <2>3. /\ Len(forwarders[c].held) = 1 /\ forwarders[c].held = <<forwarders[c].held[1]>>
        /\ Len(forwarders'[c].held) = 0
    BY <2>1, <2>2, <1>t DEF ForwarderInv
  <2>4. forwarders[c].held[1] = <<c, n>>
    BY <2>3 DEF StreamInv
  <2>5. Fan!Arrived' = Fan!Arrived \o <<<<c, n>>>>
    <3>1. exit' = exit \o <<<<c, n>>>>
      BY <2>1, <2>3, <2>4
    <3>2. seen \in Seq(Numbered) /\ exit \in Seq(Numbered) /\ <<<<c, n>>>> \in Seq(Numbered)
      BY <1>t DEF FanTypes, Numbered
    <3>3. seen \o (exit \o <<<<c, n>>>>) = (seen \o exit) \o <<<<c, n>>>>
      BY <3>2
    <3> QED
      BY <2>1, <3>1, <3>3 DEF Fan!Arrived
  <2>6. Done(c)' = n
    <3>1. Done(c)' = emitted[c] - Len(streams[c]) - Len(forwarders'[c].held)
      BY <2>1 DEF Done
    <3>2. /\ emitted[c] = Done(c) + Len(forwarders[c].held) + Len(streams[c])
          /\ Len(streams[c]) \in Nat /\ Done(c) \in Nat
      BY <1>t
    <3> QED
      BY <3>1, <3>2, <2>3
  <2>7. ASSUME NEW s \in Fan!Stream, s # c
        PROVE  /\ forwarders'[s] = forwarders[s] /\ Done(s)' = Done(s) /\ (Whole(s)' <=> Whole(s))
    BY <2>1, <2>2, <2>7 DEF Done, Whole
  <2>8. n \in Nat /\ n >= 1 /\ n - 1 = Done(c)
    BY <1>t
  <2>9. Through(Fan!Arrived, c, n - 1)
    BY <2>1, <2>8 DEF StreamInv, Whole
  <2>10. Lacks(Fan!Arrived, c, n)
    <3>1. ASSUME NEW i \in 1 .. Len(Fan!Arrived), Fan!Arrived[i] = <<c, n>> PROVE FALSE
      <4>1. Fan!Arrived[i][1] = c /\ Fan!Arrived[i][2] = n
        BY <3>1
      <4>2. n \in 1 .. Done(c)
        BY <4>1 DEF ArrivedInv
      <4> QED
        BY <4>2, <1>t
    <3> QED
      BY <3>1 DEF Lacks
  <2> HIDE DEF n
  <2>11. /\ InTurn(Fan!Arrived') /\ Unrepeated(Fan!Arrived') /\ Through(Fan!Arrived', c, n)
         /\ Len(Fan!Arrived') = Len(Fan!Arrived) + 1 /\ Fan!Arrived'[Len(Fan!Arrived) + 1] = <<c, n>>
         /\ \A i \in 1 .. Len(Fan!Arrived) : Fan!Arrived'[i] = Fan!Arrived[i]
    <3>1. Fan!Arrived \in Seq(Numbered)
      BY ArrivedTyped
    <3>2. InTurn(Fan!Arrived) /\ Unrepeated(Fan!Arrived)
      BY DEF ArrivedInv
    <3>3. n \in Nat /\ n >= 1
      BY <2>8
    <3>4. PICK a \in Seq(Numbered) : a = Fan!Arrived
      BY <3>1
    <3>5. PICK b \in Seq(Numbered) : b = Fan!Arrived'
      <4>1. seen' \in Seq(Numbered) /\ exit' \in Seq(Numbered)
        BY DEF FanTypes
      <4>2. Fan!Arrived' = seen' \o exit'
        BY DEF Fan!Arrived
      <4>3. seen' \o exit' \in Seq(Numbered)
        BY <4>1
      <4>4. Fan!Arrived' \in Seq(Numbered)
        BY <4>2, <4>3
      <4> QED
        BY <4>4
    <3>6. /\ InTurn(a) /\ Unrepeated(a) /\ Through(a, c, n - 1) /\ Lacks(a, c, n)
          /\ b = a \o <<<<c, n>>>>
      BY <2>5, <2>9, <2>10, <3>2, <3>4, <3>5
    <3>7. /\ InTurn(b) /\ Unrepeated(b) /\ Through(b, c, n)
          /\ Len(b) = Len(a) + 1 /\ b[Len(a) + 1] = <<c, n>> /\ \A i \in 1 .. Len(a) : b[i] = a[i]
      BY <3>3, <3>6, OneMore
    <3> QED
      BY <3>4, <3>5, <3>7
  <2>12. ASSUME NEW s \in Fan!Stream, NEW m \in Nat, Through(Fan!Arrived, s, m)
         PROVE  Through(Fan!Arrived', s, m)
    <3> SUFFICES ASSUME NEW k \in 1..m
        PROVE  \E i \in 1 .. Len(Fan!Arrived') : Fan!Arrived'[i] = <<s, k>>
      BY DEF Through
    <3>1. PICK i \in 1 .. Len(Fan!Arrived) : Fan!Arrived[i] = <<s, k>>
      BY <2>12 DEF Through
    <3>2. Len(Fan!Arrived) \in Nat
      BY ArrivedTyped
    <3>3. i \in 1 .. Len(Fan!Arrived')
      BY <3>2, <2>11
    <3> QED
      BY <3>1, <3>3, <2>11
  <2>13. StreamInv'
    <3> SUFFICES ASSUME NEW s \in Fan!Stream
        PROVE  /\ Done(s)' >= 0
               /\ \A i \in 1 .. Len(forwarders'[s].held) : forwarders'[s].held[i] = <<s, Done(s)' + i>>
               /\ \A i \in 1 .. Len(streams[s]) :
                    streams[s][i] = <<s, Done(s)' + Len(forwarders'[s].held) + i>>
               /\ Whole(s)' => Through(Fan!Arrived', s, Done(s)')
      BY <2>1 DEF StreamInv
    <3>1. CASE s = c
      <4>1. \A i \in 1 .. Len(streams[c]) : streams[c][i] = <<c, Done(c) + Len(forwarders[c].held) + i>>
        BY DEF StreamInv
      <4>2. Done(c) + Len(forwarders[c].held) = n + Len(forwarders'[c].held)
        BY <2>3, <2>8, <1>t
      <4> QED
        BY <3>1, <4>1, <4>2, <2>3, <2>6, <2>8, <2>11
    <3>2. CASE s # c
      <4>1. Whole(s) => Through(Fan!Arrived', s, Done(s))
        BY <2>12, <1>t DEF StreamInv
      <4> QED
        BY <3>2, <4>1, <2>7 DEF StreamInv
    <3> QED
      BY <3>1, <3>2
  <2>14. ArrivedInv'
    <3>1. ASSUME NEW s \in Fan!Stream, NEW i \in 1 .. Len(Fan!Arrived'), Fan!Arrived'[i][1] = s
          PROVE  Fan!Arrived'[i][2] \in 1 .. Done(s)'
      <4>1. CASE i = Len(Fan!Arrived) + 1
        <5>1. s = c /\ Fan!Arrived'[i][2] = n
          BY <3>1, <4>1, <2>11
        <5>2. n \in 1..n
          BY <2>8
        <5> QED
          BY <5>1, <5>2, <2>6
      <4>2. CASE i # Len(Fan!Arrived) + 1
        <5>1. Len(Fan!Arrived) \in Nat
          BY ArrivedTyped
        <5>2. i \in 1 .. Len(Fan!Arrived)
          BY <4>2, <5>1, <2>11
        <5>3. Fan!Arrived[i][2] \in 1 .. Done(s) /\ Fan!Arrived'[i] = Fan!Arrived[i]
          BY <3>1, <5>2, <2>11 DEF ArrivedInv
        <5>4. Done(s) \in Nat
          BY <1>t
        <5>5. Done(s)' = Done(s) \/ (Done(s)' = n /\ n = Done(s) + 1)
          <6>1. CASE s = c
            BY <6>1, <2>6, <2>8, <5>4
          <6>2. CASE s # c
            BY <6>2, <2>7
          <6> QED
            BY <6>1, <6>2
        <5> QED
          BY <5>3, <5>4, <5>5
      <4> QED
        BY <4>1, <4>2
    <3>2. InTurn(Fan!Arrived)' /\ Unrepeated(Fan!Arrived)'
      BY <2>11
    <3> QED
      BY <3>1, <3>2 DEF ArrivedInv
  <2> QED
    BY <2>13, <2>14
<1>4. ASSUME NEW c \in Fan!Stream, Fan!Die(c) PROVE StreamInv' /\ ArrivedInv'
  <2>1. forwarders[c].aborted /\ UNCHANGED <<emitted, streams, exit, seen>>
    BY <1>4 DEF Fan!Die
  <2>2. /\ \A s \in Fan!Stream : s # c => forwarders'[s] = forwarders[s]
        /\ forwarders'[c].held = <<>> /\ forwarders'[c].state = "ended" /\ forwarders'[c].aborted
    BY <1>4, <2>1 DEF Fan!Die, FanTypes
  <2>3. Fan!Arrived' = Fan!Arrived
    BY <2>1 DEF Fan!Arrived
  <2>4. ASSUME NEW s \in Fan!Stream, s # c
        PROVE  /\ forwarders'[s] = forwarders[s] /\ Done(s)' = Done(s) /\ (Whole(s)' <=> Whole(s))
    BY <2>1, <2>2, <2>4 DEF Done, Whole
  <2>5. Len(forwarders[c].held) \in Nat /\ Len(forwarders'[c].held) = 0
    BY <2>2, <1>t
  <2>6. Done(c)' = Done(c) + Len(forwarders[c].held) /\ Done(c) \in Nat
    <3>1. Done(c)' = emitted[c] - Len(streams[c]) - Len(forwarders'[c].held)
      BY <2>1 DEF Done
    <3>2. /\ emitted[c] = Done(c) + Len(forwarders[c].held) + Len(streams[c])
          /\ Len(streams[c]) \in Nat /\ Done(c) \in Nat
      BY <1>t
    <3> QED
      BY <3>1, <3>2, <2>5
  <2>7. StreamInv'
    <3> SUFFICES ASSUME NEW s \in Fan!Stream
        PROVE  /\ Done(s)' >= 0
               /\ \A i \in 1 .. Len(forwarders'[s].held) : forwarders'[s].held[i] = <<s, Done(s)' + i>>
               /\ \A i \in 1 .. Len(streams[s]) :
                    streams[s][i] = <<s, Done(s)' + Len(forwarders'[s].held) + i>>
               /\ Whole(s)' => Through(Fan!Arrived, s, Done(s)')
      BY <2>1, <2>3 DEF StreamInv
    <3>1. CASE s = c
      <4>1. ~Whole(c)'
        BY <2>2 DEF Whole
      <4>2. \A i \in 1 .. Len(streams[c]) :
              streams[c][i] = <<c, Done(c) + Len(forwarders[c].held) + i>>
        BY DEF StreamInv
      <4>3. Done(c)' + Len(forwarders'[c].held) = Done(c) + Len(forwarders[c].held) /\ Done(c)' >= 0
        BY <2>5, <2>6
      <4>4. \A i \in 1 .. Len(forwarders'[c].held) : FALSE
        BY <2>5
      <4> QED
        BY <3>1, <4>1, <4>2, <4>3, <4>4
    <3>2. CASE s # c
      BY <3>2, <2>4 DEF StreamInv
    <3> QED
      BY <3>1, <3>2
  <2>8. ArrivedInv'
    <3>1. ASSUME NEW s \in Fan!Stream, NEW i \in 1 .. Len(Fan!Arrived), Fan!Arrived[i][1] = s
          PROVE  Fan!Arrived[i][2] \in 1 .. Done(s)'
      <4>1. Fan!Arrived[i][2] \in 1 .. Done(s)
        BY <3>1 DEF ArrivedInv
      <4>2. Done(s) \in Nat
        BY <1>t
      <4>3. Done(s)' >= Done(s) /\ Done(s)' \in Nat
        <5>1. CASE s = c
          BY <5>1, <2>5, <2>6
        <5>2. CASE s # c
          BY <5>2, <2>4, <4>2
        <5> QED
          BY <5>1, <5>2
      <4> QED
        BY <4>1, <4>2, <4>3
    <3>2. InTurn(Fan!Arrived) /\ Unrepeated(Fan!Arrived)
      BY DEF ArrivedInv
    <3> QED
      BY <3>1, <3>2, <2>3 DEF ArrivedInv
  <2> QED
    BY <2>7, <2>8
<1>5. ASSUME NEW o \in Owner,
             Fan!Mount(o) \/ Fan!Destroy(o) \/ Fan!TaskEnds(o) \/ Fan!Unforward(o) \/ Fan!Joined(o)
      PROVE  StreamInv' /\ ArrivedInv'
  <2>1. UNCHANGED <<emitted, streams, forwarders, exit, seen>>
    BY <1>5 DEF Fan!Mount, Fan!Destroy, Fan!TaskEnds, Fan!Unforward, Fan!Joined
  <2> QED
    BY <2>1, NothingMoves DEF Fan!Arrived, Whole
<1>6. CASE Fan!Shutdown \/ Fan!DrainTable \/ Fan!Dropped \/ UNCHANGED Fan!vars
  <2>1. UNCHANGED <<emitted, streams, forwarders, exit, seen>>
    BY <1>6 DEF Fan!Shutdown, Fan!DrainTable, Fan!Dropped, Fan!vars
  <2> QED
    BY <2>1, NothingMoves DEF Fan!Arrived, Whole
<1>7. ASSUME NEW o \in Owner, Fan!Register(o) \/ Fan!TimedOut(o) PROVE StreamInv' /\ ArrivedInv'
  <2>1. UNCHANGED <<emitted, streams, exit, seen>>
    BY <1>7 DEF Fan!Register, Fan!TimedOut
  <2>2. ASSUME NEW s \in Fan!Stream
        PROVE  /\ forwarders'[s].held = forwarders[s].held
               /\ Whole(s)' => Whole(s)
    <3>1. CASE Fan!Register(o)
      <4> DEFINE d == <<o, tasks[o].life>>
      <4>1. forwarders[d].state = "none"
        BY <3>1 DEF Fan!Register, LifeInv
      <4>2. forwarders' = [forwarders EXCEPT ![d].state = "waiting"]
        BY <3>1 DEF Fan!Register, Fan!Current
      <4> HIDE DEF d
      <4>3. CASE s = d
        BY <4>1, <4>2, <4>3 DEF FanTypes, Whole
      <4>4. CASE s # d
        BY <4>2, <4>4 DEF FanTypes, Whole
      <4> QED
        BY <4>3, <4>4
    <3>2. CASE Fan!TimedOut(o)
      <4> DEFINE d == <<o, closer[o].life>>
      <4>1. forwarders[d].state # "ended" /\ forwarders' = [forwarders EXCEPT ![d].aborted = TRUE]
        BY <3>2 DEF Fan!TimedOut
      <4> HIDE DEF d
      <4>2. CASE s = d
        BY <4>1, <4>2 DEF FanTypes, Whole
      <4>3. CASE s # d
        BY <4>1, <4>3 DEF FanTypes, Whole
      <4> QED
        BY <4>2, <4>3
    <3> QED
      BY <1>7, <3>1, <3>2
  <2>3. Fan!Arrived' = Fan!Arrived
    BY <2>1 DEF Fan!Arrived
  <2> QED
    BY <2>1, <2>2, <2>3, NothingMoves
<1>8. ASSUME NEW c \in Fan!Stream, Fan!End(c) PROVE StreamInv' /\ ArrivedInv'
  <2>1. forwarders[c].state # "ended" /\ UNCHANGED <<emitted, streams, exit, seen>>
    BY <1>8 DEF Fan!End
  <2>2. ASSUME NEW s \in Fan!Stream
        PROVE  /\ forwarders'[s].held = forwarders[s].held
               /\ Whole(s)' => Whole(s)
    <3>1. forwarders' = [forwarders EXCEPT ![c].state = "ended"]
      BY <1>8 DEF Fan!End
    <3>2. CASE s = c
      BY <2>1, <3>1, <3>2 DEF FanTypes, Whole
    <3>3. CASE s # c
      BY <3>1, <3>3 DEF FanTypes, Whole
    <3> QED
      BY <3>2, <3>3
  <2>3. Fan!Arrived' = Fan!Arrived
    BY <2>1 DEF Fan!Arrived
  <2> QED
    BY <2>1, <2>2, <2>3, NothingMoves
<1>9. CASE Fan!Recv
  <2>1. /\ exit # <<>> /\ seen' = Append(seen, Head(exit)) /\ exit' = Tail(exit)
        /\ UNCHANGED <<emitted, streams, forwarders>>
    BY <1>9 DEF Fan!Recv
  <2>2. seen \in Seq(Numbered) /\ exit \in Seq(Numbered)
    BY DEF FanTypes
  <2>3. Append(seen, Head(exit)) \o Tail(exit) = seen \o exit
    BY <2>1, <2>2
  <2>4. Fan!Arrived' = Fan!Arrived
    BY <2>1, <2>3 DEF Fan!Arrived
  <2> QED
    BY <2>1, <2>4, NothingMoves DEF Whole
<1> QED
  BY <1>1, <1>2, <1>3, <1>4, <1>5, <1>6, <1>7, <1>8, <1>9 DEF Fan!Next

LEMMA FanStep == FanLimits /\ FanInv /\ [Fan!Next]_Fan!vars => FanInv'
<1> SUFFICES ASSUME FanLimits, FanInv, [Fan!Next]_Fan!vars PROVE FanInv'
  OBVIOUS
<1>1. FanTypes'
  BY FanTyped DEF FanInv
<1>2. ForwarderInv' /\ LifeInv'
  BY ControlStep DEF FanInv
<1>3. StreamInv' /\ ArrivedInv'
  BY <1>1, StreamsStep DEF FanInv
<1> QED
  BY <1>1, <1>2, <1>3 DEF FanInv

LEMMA FanGives == FanLimits /\ FanInv => Fan!StreamsAreWhole /\ Fan!DestroyedIsQuiet
<1> SUFFICES ASSUME FanLimits, FanInv PROVE Fan!StreamsAreWhole /\ Fan!DestroyedIsQuiet
  OBVIOUS
<1>t. FanTypes /\ ForwarderInv /\ LifeInv /\ StreamInv /\ ArrivedInv
  BY DEF FanInv
<1>1. ASSUME NEW s \in Fan!Stream
      PROVE  /\ forwarders[s].held \in Seq(Numbered) /\ streams[s] \in Seq(Numbered)
             /\ Len(forwarders[s].held) \in Nat /\ Len(streams[s]) \in Nat /\ emitted[s] \in Nat
             /\ Fan!Waiting(s) \in Seq(Numbered)
             /\ Len(Fan!Waiting(s)) = Len(forwarders[s].held) + Len(streams[s])
             /\ Fan!Gone(s) = Done(s) /\ Done(s) \in Int
  <2>1. forwarders[s].held \in Seq(Numbered) /\ streams[s] \in Seq(Numbered) /\ emitted[s] \in Nat
    BY <1>t DEF FanTypes
  <2>2. /\ Fan!Waiting(s) \in Seq(Numbered)
        /\ Len(Fan!Waiting(s)) = Len(forwarders[s].held) + Len(streams[s])
        /\ Len(forwarders[s].held) \in Nat /\ Len(streams[s]) \in Nat
    BY <2>1 DEF Fan!Waiting
  <2>3. Fan!Gone(s) = emitted[s] - Len(Fan!Waiting(s))
    BY DEF Fan!Gone
  <2>4. Done(s) = emitted[s] - Len(streams[s]) - Len(forwarders[s].held)
    BY DEF Done
  <2>5. Fan!Gone(s) = Done(s) /\ Done(s) \in Int
    <3>1. Len(Fan!Waiting(s)) = Len(forwarders[s].held) + Len(streams[s])
      BY <2>2
    <3>2. Len(forwarders[s].held) \in Nat /\ Len(streams[s]) \in Nat /\ emitted[s] \in Nat
      BY <2>1, <2>2
    <3>3. PICK h \in Nat, q \in Nat, e \in Nat :
            h = Len(forwarders[s].held) /\ q = Len(streams[s]) /\ e = emitted[s]
      BY <3>2
    <3>4. Fan!Gone(s) = e - (h + q)
      BY <3>1, <3>3, <2>3
    <3>5. Done(s) = e - q - h
      BY <3>3, <2>4
    <3>6. e - (h + q) = e - q - h /\ e - q - h \in Int
      OBVIOUS
    <3> QED
      BY <3>4, <3>5, <3>6
  <2> QED
    BY <2>1, <2>2, <2>5
<1>2. Fan!Arrived \in Seq(Numbered) /\ Len(Fan!Arrived) \in Nat /\ DOMAIN Fan!Arrived = 1 .. Len(Fan!Arrived)
  BY <1>t, ArrivedTyped
<1>3. ASSUME NEW i \in 1 .. Len(Fan!Arrived), NEW s, s = Fan!Arrived[i][1],
             NEW n, n = Fan!Arrived[i][2]
      PROVE  /\ n \in 1..Fan!Gone(s)
             /\ \A k \in 1 .. n - 1 : \E j \in 1 .. i - 1 : Fan!Arrived[j] = <<s, k>>
             /\ \A j \in 1 .. i - 1 : Fan!Arrived[j] # Fan!Arrived[i]
  <2>1. s \in Fan!Stream
    BY <1>t, <1>3, ArrivedTyped
  <2>2. n \in 1..Fan!Gone(s)
    BY <2>1, <1>1, <1>3, <1>t DEF ArrivedInv
  <2>3. \A k \in 1 .. n - 1 : \E j \in 1 .. i - 1 : Fan!Arrived[j] = <<s, k>>
    BY <1>3, <1>t DEF ArrivedInv, InTurn
  <2>4. \A j \in 1 .. i - 1 : Fan!Arrived[j] # Fan!Arrived[i]
    BY <1>t DEF ArrivedInv, Unrepeated
  <2> QED
    BY <2>2, <2>3, <2>4
<1>4. ASSUME NEW s \in Fan!Stream, NEW i \in DOMAIN Fan!Waiting(s)
      PROVE  Fan!Waiting(s)[i] = <<s, Fan!Gone(s) + i>>
  <2> DEFINE h == forwarders[s].held
             q == streams[s]
  <2>1. h \in Seq(Numbered) /\ q \in Seq(Numbered) /\ Len(h) \in Nat /\ Len(q) \in Nat
    BY <1>1
  <2>2. i \in 1 .. Len(h) + Len(q)
    <3>1. Fan!Waiting(s) \in Seq(Numbered) /\ Len(Fan!Waiting(s)) = Len(h) + Len(q)
      BY <1>1
    <3>2. DOMAIN Fan!Waiting(s) = 1 .. Len(Fan!Waiting(s))
      BY <3>1
    <3> QED
      BY <3>1, <3>2
  <2>3. /\ \A k \in 1 .. Len(h) : h[k] = <<s, Done(s) + k>>
        /\ \A k \in 1 .. Len(q) : q[k] = <<s, Done(s) + Len(h) + k>>
        /\ Done(s) \in Nat /\ Fan!Gone(s) = Done(s)
    <3>1. Done(s) \in Int /\ Fan!Gone(s) = Done(s)
      BY <1>1
    <3>2. Done(s) >= 0
      BY <1>t DEF StreamInv
    <3>3. /\ \A k \in 1 .. Len(h) : h[k] = <<s, Done(s) + k>>
          /\ \A k \in 1 .. Len(q) : q[k] = <<s, Done(s) + Len(h) + k>>
      BY <1>t DEF StreamInv
    <3> QED
      BY <3>1, <3>2, <3>3
  <2>4. Fan!Waiting(s) = h \o q
    BY DEF Fan!Waiting
  <2> HIDE DEF h, q
  <2>5. CASE i \in 1 .. Len(h)
    <3>1. (h \o q)[i] = h[i]
      BY <2>1, <2>5
    <3> QED
      BY <3>1, <2>3, <2>4, <2>5
  <2>6. CASE i \notin 1 .. Len(h)
    <3>1. (h \o q)[i] = q[i - Len(h)] /\ i - Len(h) \in 1 .. Len(q)
      BY <2>1, <2>2, <2>6
    <3>2. Done(s) + Len(h) + (i - Len(h)) = Done(s) + i
      BY <2>1, <2>2, <2>3
    <3> QED
      BY <3>1, <3>2, <2>3, <2>4
  <2> QED
    BY <2>5, <2>6
<1>5. ASSUME NEW s \in Fan!Stream, ~forwarders[s].aborted
      PROVE  \A n \in 1..Fan!Gone(s) : \E i \in DOMAIN Fan!Arrived : Fan!Arrived[i] = <<s, n>>
  <2>1. Through(Fan!Arrived, s, Fan!Gone(s))
    BY <1>5, <1>1, <1>t DEF StreamInv, Whole
  <2> QED
    BY <2>1, <1>2 DEF Through
<1>6. Fan!StreamsAreWhole
  BY <1>2, <1>3, <1>4, <1>5 DEF Fan!StreamsAreWhole
<1>7. ASSUME NEW o \in Owner, Fan!Closing(o, "drained")
      PROVE  /\ forwarders[<<o, closer[o].life>>].held = <<>> /\ streams[<<o, closer[o].life>>] = <<>>
             /\ forwarders[<<o, closer[o].life>>].state = "ended"
  <2> DEFINE c == <<o, closer[o].life>>
  <2>1. closer[o].life >= 1 /\ forwarders[c].state = "ended" /\ ~forwarders[c].aborted
    BY <1>7, <1>t DEF Fan!Closing, LifeInv
  <2>2. c \in Fan!Stream
    BY <2>1, <1>t DEF Fan!Stream, Fan!Life, FanTypes, FanLimits
  <2> HIDE DEF c
  <2>3. forwarders[c].held = <<>> /\ streams[c] = <<>>
    BY <2>1, <2>2, <1>t DEF ForwarderInv
  <2> QED
    BY <2>1, <2>3 DEF c
<1>8. Fan!DestroyedIsQuiet
  BY <1>7 DEF Fan!DestroyedIsQuiet
<1> QED
  BY <1>6, <1>8

(***************************************************************************)
(* Histories: a row is what its event was, told again; the pages read so   *)
(* far are a stretch of the rows that ends where the cursor is.            *)
(***************************************************************************)
Text == {"none", "empty", "t", "changed", "placeholder", "text+placeholder"}
Pictures == {Replay!Kept(imgs) : imgs \in {<< >>, <<"url">>, <<"large", "broken">>}} \cup {<< >>}
Finish == {"none", "stop", "tool_calls", "interrupted"}
Cause == {"none", "auto", "manual"}
CallId == {"none", "empty", "a", "b"}
CallName == {"none", "empty", "n", "auto", "manual"}
EventKind == {"none", "user", "assistant", "result", "compression"}
ReplayEvent ==
  [kind : EventKind, seq : Nat, text : Text, think : Text, calls : Seq(Replay!ToolCall), images : Pictures,
   finish : Finish, reason : Cause, tool_call_id : CallId, tool_name : CallName]
ReplayRow ==
  [role : {"user", "assistant", "tool"}, kind : {"message", "compaction"}, seq : Nat, text : Text,
   reasoning : Text, tool_calls : Seq(Replay!ToolCall), images : Pictures, finish : Finish,
   tool_call_id : CallId, tool_name : CallName]
ReplaySteps == {"idle", "calls", "save", "deliver", "run"}
SaidTexts == [text : {"empty", "t"}, think : {"empty", "t"}]
ReplayPipe ==
  [step : ReplaySteps, said : SaidTexts, left : Seq(Replay!ToolCall),
   kept : Seq(Replay!ToolCall), due : SUBSET Replay!ToolCall, event : ReplayEvent]

\* The calls of an event or a row have been parsed.
Clean(cs) == \A i \in DOMAIN cs : cs[i].args # "broken"
\* An event on its way to a row says nothing but what is of its kind.
UserProper(e) ==
  /\ e.kind = "user" /\ e.text # "none" /\ e.think = "none" /\ e.calls = << >>
  /\ e.finish = "none" /\ e.reason = "none" /\ e.tool_call_id = "none" /\ e.tool_name = "none"
AssistantProper(e) ==
  /\ e.kind = "assistant" /\ Clean(e.calls) /\ e.images = << >>
  /\ e.reason = "none" /\ e.tool_call_id = "none" /\ e.tool_name = "none"
ResultProper(e) ==
  /\ e.kind = "result" /\ e.text # "none" /\ e.think = "none" /\ e.calls = << >> /\ e.images = << >>
  /\ e.finish = "none" /\ e.reason = "none" /\ e.tool_call_id # "none" /\ e.tool_name # "none"
Proper(e) == UserProper(e) \/ AssistantProper(e) \/ ResultProper(e)
\* What is kept of the calls is what the reply asks for.
AsRun(m, kept) ==
  /\ m.finish = "tool_calls" => m.tool_calls = kept
  /\ m.finish \in {"stop", "interrupted"} =>
       /\ Len(m.tool_calls) = Len(kept)
       /\ \A k \in DOMAIN kept : m.tool_calls[k].id = kept[k].id

\* An event of the interface is that of its row.
Tells(e, m) ==
  /\ e.seq = m.seq
  /\ e.kind = "compression" => m.kind = "compaction" /\ e = [Replay!ToEvent(m) EXCEPT !.text = e.text]
  /\ e.kind # "compression" => m.kind = "message" /\ Replay!Shown(e) = Replay!Shown(Replay!ToEvent(m))

RowsInv ==
  /\ messages \in Seq(ReplayRow) /\ ran \in Seq(Seq(Replay!ToolCall)) /\ Len(ran) = Len(messages)
  /\ \A i \in DOMAIN messages : messages[i].seq = i /\ AsRun(messages[i], ran[i])
EmissionInv ==
  /\ emission \in ReplayPipe
  /\ emission.step \in {"idle", "calls"} => Clean(emission.kept)
  /\ emission.step = "save" =>
       Proper(emission.event) /\ emission.event.seq = 0
       /\ AsRun(Replay!ToMessage(emission.event), emission.kept)
  /\ emission.step = "deliver" /\ emission.event.seq # 0 =>
       /\ emission.event.seq = Len(messages) /\ Len(messages) # 0
       /\ Tells(emission.event, messages[Len(messages)])
LiveInv ==
  /\ live \subseteq ReplayEvent
  /\ \A e \in live : e.seq \in DOMAIN messages /\ Tells(e, messages[e.seq])
  /\ \A d, e \in live : d.seq = e.seq => d = e
  /\ \A i \in DOMAIN messages :
       messages[i].kind = "message" /\ ~(emission.step = "deliver" /\ emission.event.seq = i) =>
         \E e \in live : e.seq = i
  /\ emission.step = "deliver" => \A e \in live : e.seq # emission.event.seq
PageInv ==
  /\ reading \in [more : BOOLEAN, cursor : Nat, view : Seq(ReplayEvent)]
  /\ reading.more => reading.cursor # 0
  /\ reading.more /\ reading.view # << >> => reading.view[1].seq = reading.cursor
  /\ Replay!PagesReplay
ReplayInv == RowsInv /\ EmissionInv /\ LiveInv /\ PageInv

(* Rows and events -----------------------------------------------------------*)
LEMMA ParsedTypes ==
  ASSUME NEW cs \in Seq(Replay!ToolCall)
  PROVE  /\ Replay!ParsedCalls(cs) \in Seq(Replay!ToolCall) /\ Clean(Replay!ParsedCalls(cs))
         /\ Len(Replay!ParsedCalls(cs)) = Len(cs)
         /\ \A k \in DOMAIN cs : Replay!ParsedCalls(cs)[k].id = cs[k].id
<1>1. \A c \in Replay!ToolCall : Replay!ParsedCall(c) \in Replay!ToolCall /\ Replay!ParsedCall(c).args # "broken"
                              /\ Replay!ParsedCall(c).id = c.id
  BY DEF Replay!ToolCall, Replay!ParsedCall, Replay!Parsed
<1> QED
  BY <1>1 DEF Replay!ParsedCalls, Clean

LEMMA ParsedOnce ==
  ASSUME NEW cs \in Seq(Replay!ToolCall), Clean(cs)
  PROVE  Replay!ParsedCalls(cs) = cs
<1>1. ASSUME NEW c \in Replay!ToolCall, c.args # "broken" PROVE Replay!ParsedCall(c) = c
  BY <1>1 DEF Replay!ToolCall, Replay!ParsedCall, Replay!Parsed
<1> QED
  BY <1>1 DEF Replay!ParsedCalls, Clean

\* Each row has an event of its seq.
LEMMA EventOfRow ==
  ASSUME NEW m \in ReplayRow
  PROVE  Replay!ToEvent(m) \in ReplayEvent /\ Replay!ToEvent(m).seq = m.seq
<1>0. Replay!ParsedCalls(m.tool_calls) \in Seq(Replay!ToolCall)
  BY ParsedTypes DEF ReplayRow
<1>e. << >> \in Pictures /\ << >> \in Seq(Replay!ToolCall)
  BY DEF Pictures
<1>t. Replay!OrEmpty(m.text) \in Text
  BY DEF ReplayRow, Replay!OrEmpty, Replay!Empty, Replay!None, Text
<1>1. CASE m.kind = "compaction"
  <2>1. Replay!Reason(m.tool_name) \in Cause
    BY DEF ReplayRow, Replay!Reason, Cause, CallName
  <2> QED
    BY <1>1, <1>e, <1>t, <2>1 DEF ReplayRow, ReplayEvent, Replay!ToEvent, Replay!ToCompression,
         Replay!CompressionEnded, Replay!Event, Replay!None, EventKind, Finish, CallId, CallName, Text
<1>2. CASE m.kind = "message" /\ m.role = "user"
  BY <1>2, <1>e, <1>t DEF ReplayRow, ReplayEvent, Replay!ToEvent, Replay!ToUser, Replay!Replayed,
       Replay!Event, Replay!None, EventKind, Finish, CallId, CallName, Text, Cause
<1>3. CASE m.kind = "message" /\ m.role = "assistant"
  BY <1>3, <1>e, <1>0 DEF ReplayRow, ReplayEvent, Replay!ToEvent, Replay!ToAssistant,
       Replay!Event, Replay!None, EventKind, Finish, CallId, CallName, Text, Cause
<1>4. CASE m.kind = "message" /\ m.role = "tool"
  BY <1>4, <1>e, <1>t DEF ReplayRow, ReplayEvent, Replay!ToEvent, Replay!ToResult, Replay!Replayed,
       Replay!Event, Replay!OrEmpty, Replay!Empty, Replay!None, EventKind, Finish, CallId, CallName, Text, Cause
<1> QED
  BY <1>1, <1>2, <1>3, <1>4 DEF ReplayRow


LEMMA SameEvent ==
  ASSUME NEW d \in ReplayEvent, NEW e \in ReplayEvent, d.kind = e.kind, d.seq = e.seq, d.text = e.text,
         d.think = e.think, d.calls = e.calls, d.images = e.images, d.finish = e.finish,
         d.reason = e.reason, d.tool_call_id = e.tool_call_id, d.tool_name = e.tool_name
  PROVE  d = e
BY DEF ReplayEvent

\* What an event was is what its row tells, whatever hooks made of its text.
LEMMA RoundTrip ==
  ASSUME NEW e \in ReplayEvent, Proper(e), NEW n \in Nat \ {0}
  PROVE  LET m == [Replay!ToMessage(e) EXCEPT !.seq = n] IN
         /\ m \in ReplayRow /\ m.seq = n /\ m.kind = "message" /\ Tells([e EXCEPT !.seq = n], m)
         /\ m.finish = Replay!ToMessage(e).finish /\ m.tool_calls = Replay!ToMessage(e).tool_calls
<1> DEFINE m == [Replay!ToMessage(e) EXCEPT !.seq = n]
           d == [e EXCEPT !.seq = n]
<1>d. d \in ReplayEvent
  BY DEF ReplayEvent
<1>0. /\ << >> \in Pictures /\ << >> \in Seq(Replay!ToolCall)
      /\ Replay!OrEmpty(e.text) \in Text
  BY DEF Pictures, ReplayEvent, Replay!OrEmpty, Replay!Empty, Replay!None, Text
<1>1. CASE UserProper(e)
  <2>0. Replay!ToMessage(e) = Replay!UserMessage(e)
    BY <1>1 DEF Replay!ToMessage, UserProper
  <2>1. m = [Replay!UserMessage(e) EXCEPT !.seq = n]
    BY <2>0
  <2>r. m.finish = Replay!ToMessage(e).finish /\ m.tool_calls = Replay!ToMessage(e).tool_calls
    BY <2>0, <2>1 DEF Replay!UserMessage, Replay!Message
  <2>2. m \in ReplayRow /\ m.seq = n /\ m.kind = "message" /\ m.role = "user" /\ m.text = e.text
        /\ m.images = e.images
    BY <1>0, <2>1 DEF Replay!UserMessage, Replay!Message, Replay!None, ReplayRow, ReplayEvent,
         Text, Finish, CallId, CallName
  <2>3. Replay!ToEvent(m) = Replay!ToUser(m)
    BY <2>2 DEF Replay!ToEvent
  <2>4. Replay!ToEvent(m) \in ReplayEvent
    BY <2>2, EventOfRow
  <2>5. Replay!ToEvent(m) = d
    <3>1. Replay!OrEmpty(m.text) = e.text
      BY <1>1, <2>2 DEF Replay!OrEmpty, Replay!None, UserProper
    <3> QED
      BY <1>1, <1>d, <2>2, <2>3, <2>4, <3>1, SameEvent DEF Replay!ToUser, Replay!Replayed, Replay!Event, Replay!None,
         UserProper, ReplayEvent
  <2> QED
    BY <1>1, <2>r, <2>2, <2>5 DEF Tells, UserProper, ReplayEvent
<1>2. CASE AssistantProper(e)
  <2>0. Replay!ToMessage(e) = Replay!AssistantMessage(e)
    BY <1>2 DEF Replay!ToMessage, AssistantProper
  <2>1. m = [Replay!AssistantMessage(e) EXCEPT !.seq = n]
    BY <2>0
  <2>r. m.finish = Replay!ToMessage(e).finish /\ m.tool_calls = Replay!ToMessage(e).tool_calls
    BY <2>0, <2>1 DEF Replay!AssistantMessage, Replay!Message
  <2>2. m \in ReplayRow /\ m.seq = n /\ m.kind = "message" /\ m.role = "assistant"
        /\ m.text = (IF e.calls = << >> THEN Replay!OrEmpty(e.text) ELSE e.text)
        /\ m.reasoning = e.think /\ m.tool_calls = e.calls /\ m.finish = e.finish
    BY <1>0, <2>1 DEF Replay!AssistantMessage, Replay!Message, Replay!None, ReplayRow, ReplayEvent,
         Text, Finish, CallId, CallName
  <2>3. Replay!ParsedCalls(m.tool_calls) = e.calls
    BY <1>2, <2>2, ParsedOnce DEF AssistantProper, ReplayEvent
  <2>4. Replay!ToEvent(m) = [d EXCEPT !.text = m.text]
    <3>1. Replay!ToEvent(m) = Replay!ToAssistant(m)
      BY <2>2 DEF Replay!ToEvent
    <3>2. Replay!ToEvent(m) \in ReplayEvent
      BY <2>2, EventOfRow
    <3>3. [d EXCEPT !.text = m.text] \in ReplayEvent
      BY <1>d, <2>2 DEF ReplayEvent, ReplayRow
    <3>4. PICK g \in ReplayEvent : g = Replay!ToEvent(m)
      BY <3>2
    <3>5. PICK h \in ReplayEvent : h = [d EXCEPT !.text = m.text]
      BY <3>3
    <3>6. /\ g.kind = "assistant" /\ g.seq = n /\ g.text = m.text /\ g.think = e.think /\ g.calls = e.calls
          /\ g.images = << >> /\ g.finish = e.finish /\ g.reason = "none" /\ g.tool_call_id = "none"
          /\ g.tool_name = "none"
      BY <2>2, <2>3, <3>1, <3>4 DEF Replay!ToAssistant, Replay!Event, Replay!None
    <3>7. /\ h.kind = "assistant" /\ h.seq = n /\ h.text = m.text /\ h.think = e.think /\ h.calls = e.calls
          /\ h.images = << >> /\ h.finish = e.finish /\ h.reason = "none" /\ h.tool_call_id = "none"
          /\ h.tool_name = "none"
      BY <1>2, <3>5 DEF AssistantProper, ReplayEvent
    <3>8. g = h
      BY <3>6, <3>7 DEF ReplayEvent
    <3> QED
      BY <3>4, <3>5, <3>8
  <2>5. Replay!OrNone(m.text) = Replay!OrNone(e.text)
    BY <2>2 DEF Replay!OrNone, Replay!OrEmpty, Replay!None, Replay!Empty
  <2>6. Replay!Shown(Replay!ToEvent(m)) = Replay!Shown(d)
    BY <2>4, <2>5 DEF Replay!Shown, ReplayEvent
  <2> QED
    BY <1>2, <2>r, <2>2, <2>6 DEF Tells, AssistantProper, ReplayEvent
<1>3. CASE ResultProper(e)
  <2>0. Replay!ToMessage(e) = Replay!ToolMessage(e)
    BY <1>3 DEF Replay!ToMessage, ResultProper
  <2>1. m = [Replay!ToolMessage(e) EXCEPT !.seq = n]
    BY <2>0
  <2>r. m.finish = Replay!ToMessage(e).finish /\ m.tool_calls = Replay!ToMessage(e).tool_calls
    BY <2>0, <2>1 DEF Replay!ToolMessage, Replay!Message
  <2>2. m \in ReplayRow /\ m.seq = n /\ m.kind = "message" /\ m.role = "tool" /\ m.text = e.text
        /\ m.tool_call_id = e.tool_call_id /\ m.tool_name = e.tool_name
    BY <1>0, <2>1 DEF Replay!ToolMessage, Replay!Message, Replay!None, ReplayRow, ReplayEvent,
         Text, Finish, CallId, CallName
  <2>3. Replay!ToEvent(m) = Replay!ToResult(m)
    BY <2>2 DEF Replay!ToEvent
  <2>4. Replay!ToEvent(m) \in ReplayEvent
    BY <2>2, EventOfRow
  <2>5. Replay!ToEvent(m) = d
    <3>1. Replay!OrEmpty(m.text) = e.text
          /\ Replay!OrEmpty(m.tool_call_id) = e.tool_call_id /\ Replay!OrEmpty(m.tool_name) = e.tool_name
      BY <1>3, <2>2 DEF Replay!OrEmpty, Replay!None, ResultProper
    <3>4. PICK g \in ReplayEvent : g = Replay!ToEvent(m)
      BY <2>4
    <3>5. PICK h \in ReplayEvent : h = d
      BY <1>d
    <3>6. /\ g.kind = "result" /\ g.seq = n /\ g.text = e.text /\ g.think = "none" /\ g.calls = << >>
          /\ g.images = << >> /\ g.finish = "none" /\ g.reason = "none" /\ g.tool_call_id = e.tool_call_id
          /\ g.tool_name = e.tool_name
      BY <2>2, <2>3, <3>1, <3>4 DEF Replay!ToResult, Replay!Replayed, Replay!Event, Replay!None
    <3>7. /\ h.kind = "result" /\ h.seq = n /\ h.text = e.text /\ h.think = "none" /\ h.calls = << >>
          /\ h.images = << >> /\ h.finish = "none" /\ h.reason = "none" /\ h.tool_call_id = e.tool_call_id
          /\ h.tool_name = e.tool_name
      BY <1>3, <3>5 DEF ResultProper, ReplayEvent
    <3>8. g = h
      BY <3>6, <3>7 DEF ReplayEvent
    <3> QED
      BY <3>4, <3>5, <3>8
  <2> QED
    BY <1>3, <2>r, <2>2, <2>5 DEF Tells, ResultProper, ReplayEvent
<1> QED
  BY <1>1, <1>2, <1>3 DEF Proper

\* The events the task makes are of their kind.
LEMMA MadeProper ==
  /\ \A text \in {"empty", "t"}, imgs \in {<< >>, <<"url">>, <<"large", "broken">>} :
       Replay!UserEvent(text, imgs) \in ReplayEvent /\ UserProper(Replay!UserEvent(text, imgs))
  /\ \A c \in Replay!ToolCall, text \in {"t"} :
       Replay!ResultEvent(c, text) \in ReplayEvent /\ ResultProper(Replay!ResultEvent(c, text))
<1>0. << >> \in Pictures /\ << >> \in Seq(Replay!ToolCall)
  BY DEF Pictures
<1>a. ASSUME NEW t \in Text, t # "none", NEW k \in Pictures
      PROVE  LET e == [Replay!Event("user", t) EXCEPT !.images = k] IN e \in ReplayEvent /\ UserProper(e)
  BY <1>0, <1>a DEF Replay!Event, Replay!None, ReplayEvent, EventKind, Text, Finish, Cause, CallId,
       CallName, UserProper
<1>1. ASSUME NEW text \in {"empty", "t"}, NEW imgs \in {<< >>, <<"url">>, <<"large", "broken">>}
      PROVE  Replay!UserEvent(text, imgs) \in ReplayEvent /\ UserProper(Replay!UserEvent(text, imgs))
  <2>1. PICK k \in Pictures : k = Replay!Kept(imgs)
    BY DEF Pictures
  <2>2. PICK t \in Text : t # "none" /\ t = (IF Replay!Failed(imgs) THEN Replay!WithPlaceholder(text) ELSE text)
    BY DEF Text, Replay!WithPlaceholder, Replay!Empty
  <2>3. Replay!UserEvent(text, imgs) = [Replay!Event("user", t) EXCEPT !.images = k]
    BY <2>1, <2>2 DEF Replay!UserEvent
  <2> QED
    BY <1>a, <2>1, <2>2, <2>3
<1>2. ASSUME NEW c \in Replay!ToolCall
      PROVE  Replay!ResultEvent(c, "t") \in ReplayEvent /\ ResultProper(Replay!ResultEvent(c, "t"))
  BY <1>0 DEF Replay!ResultEvent, Replay!ToolCall, Replay!Event, Replay!None, ReplayEvent, EventKind, Text,
       Finish, Cause, CallId, CallName, ResultProper
<1> QED
  BY <1>1, <1>2

LEMMA ReplyProper ==
  ASSUME NEW spoken \in SaidTexts, NEW cs \in Seq(Replay!ToolCall), NEW text \in Text
  PROVE  /\ LET e == [Replay!ReplyEvent(spoken, cs) EXCEPT !.text = text] IN
            /\ e \in ReplayEvent /\ AssistantProper(e) /\ e.seq = 0
            /\ Clean(cs) => AsRun(Replay!ToMessage(e), cs)
         /\ LET e == [Replay!InterruptedEvent(spoken, cs) EXCEPT !.text = text] IN
            /\ e \in ReplayEvent /\ AssistantProper(e) /\ e.seq = 0
            /\ AsRun(Replay!ToMessage(e), cs)
<1>0. << >> \in Pictures /\ << >> \in Seq(Replay!ToolCall)
  BY DEF Pictures
<1>t. Replay!OrNone(spoken.think) \in Text
  BY DEF SaidTexts, Replay!OrNone, Replay!None, Replay!Empty, Text
<1>p. PICK ps \in Seq(Replay!ToolCall) :
        /\ ps = Replay!ParsedCalls(cs) /\ Clean(ps) /\ Len(ps) = Len(cs)
        /\ \A k \in DOMAIN cs : ps[k].id = cs[k].id
  BY ParsedTypes
<1>1. ASSUME NEW e, NEW finish \in Finish,
             e = [[Replay!Event("assistant", Replay!OrNone(spoken.text)) EXCEPT
                    !.think = Replay!OrNone(spoken.think), !.calls = ps, !.finish = finish] EXCEPT !.text = text]
      PROVE  /\ e \in ReplayEvent /\ AssistantProper(e) /\ e.seq = 0 /\ e.finish = finish /\ e.calls = ps
             /\ Replay!ToMessage(e).tool_calls = ps /\ Replay!ToMessage(e).finish = finish
  <2>1. /\ e \in ReplayEvent /\ AssistantProper(e) /\ e.seq = 0 /\ e.finish = finish /\ e.calls = ps
        /\ e.kind = "assistant"
    BY <1>0, <1>t, <1>p, <1>1 DEF Replay!Event, Replay!None, ReplayEvent, EventKind, Text, Cause, CallId,
         CallName, AssistantProper
  <2>2. Replay!ToMessage(e) = Replay!AssistantMessage(e)
    BY <2>1 DEF Replay!ToMessage
  <2> QED
    BY <2>1, <2>2 DEF Replay!AssistantMessage, Replay!Message
<1>2. PICK finish \in {"stop", "tool_calls"} : finish = (IF cs = << >> THEN "stop" ELSE "tool_calls")
  OBVIOUS
<1>3. [Replay!ReplyEvent(spoken, cs) EXCEPT !.text = text] =
        [[Replay!Event("assistant", Replay!OrNone(spoken.text)) EXCEPT
           !.think = Replay!OrNone(spoken.think), !.calls = ps, !.finish = finish] EXCEPT !.text = text]
  BY <1>p, <1>2 DEF Replay!ReplyEvent
<1>4. [Replay!InterruptedEvent(spoken, cs) EXCEPT !.text = text] =
        [[Replay!Event("assistant", Replay!OrNone(spoken.text)) EXCEPT
           !.think = Replay!OrNone(spoken.think), !.calls = ps, !.finish = "interrupted"] EXCEPT !.text = text]
  BY <1>p DEF Replay!InterruptedEvent
<1>5. Clean(cs) => ps = cs
  BY <1>p, ParsedOnce
<1>6. finish \in Finish /\ "interrupted" \in Finish
  BY <1>2 DEF Finish
<1>7. ASSUME NEW m, m.tool_calls = ps, m.finish = "interrupted" PROVE AsRun(m, cs)
  BY <1>7, <1>p DEF AsRun
<1>8. ASSUME NEW m, m.tool_calls = ps, m.finish = finish, Clean(cs) PROVE AsRun(m, cs)
  BY <1>8, <1>p, <1>5, <1>2 DEF AsRun
<1> QED
  BY <1>1, <1>3, <1>4, <1>6, <1>7, <1>8


(* What a step leaves alone --------------------------------------------------*)
LEMMA RowsStay ==
  ASSUME RowsInv, messages' = messages, ran' = ran PROVE RowsInv'
BY DEF RowsInv

LEMMA PageStays ==
  ASSUME PageInv, messages' = messages, reading' = reading PROVE PageInv'
BY DEF PageInv, Replay!PagesReplay

LEMMA LiveStays ==
  ASSUME LiveInv, RowsInv, messages' = messages, live' = live, emission.step # "deliver",
         emission'.step # "deliver" \/ emission'.event.seq = 0
  PROVE  LiveInv'
<1>1. \A i \in DOMAIN messages : i # 0
  BY DEF RowsInv
<1>2. \A e \in live : e.seq # 0
  BY <1>1 DEF LiveInv
<1> QED
  BY <1>1, <1>2 DEF LiveInv

LEMMA RestFits ==
  ASSUME NEW due \in SUBSET Replay!ToolCall
  PROVE  /\ Replay!Rest(due) \in ReplayPipe /\ Replay!Rest(due).step \in {"idle", "run"}
         /\ Clean(Replay!Rest(due).kept)
<1>1. << >> \in Pictures /\ << >> \in Seq(Replay!ToolCall)
  BY DEF Pictures
<1>2. Replay!Event("none", Replay!None) \in ReplayEvent
  BY <1>1 DEF Replay!Event, Replay!None, ReplayEvent, EventKind, Text, Finish, Cause, CallId, CallName
<1> QED
  BY <1>1, <1>2 DEF Replay!Rest, Replay!Empty, ReplayPipe, ReplaySteps, SaidTexts, Clean

\* An event goes to its row, or with its hooks nothing is left of it.
LEMMA EmitKeeps ==
  ASSUME ReplayInv, NEW e, NEW kept \in Seq(Replay!ToolCall), NEW due \in SUBSET Replay!ToolCall,
         emission.step \notin {"save", "deliver"},
         \A text \in {e.text, "empty", "changed"} : LET g == [e EXCEPT !.text = text] IN
           g \in ReplayEvent /\ g.seq = 0 /\ Proper(g) /\ AsRun(Replay!ToMessage(g), kept),
         Replay!Emit(e, kept, due)
  PROVE  ReplayInv'
<1>r. PICK r \in ReplayPipe : r = Replay!Rest(due) /\ r.step \in {"idle", "run"} /\ Clean(r.kept)
  BY RestFits
<1>1. messages' = messages /\ ran' = ran /\ live' = live /\ reading' = reading
  BY DEF Replay!Emit
<1>2. CASE emission' = Replay!Rest(due)
  <2>1. emission' = r
    BY <1>2, <1>r
  <2>2. EmissionInv'
    BY <1>r, <2>1 DEF EmissionInv
  <2> QED
    BY <1>1, <1>r, <2>1, <2>2, RowsStay, PageStays, LiveStays DEF ReplayInv
<1>3. CASE \E text \in {e.text, Replay!Empty, "changed"} :
             emission' = [Replay!Rest(due) EXCEPT !.step = "save", !.kept = kept, !.event = [e EXCEPT !.text = text]]
  <2>1. PICK text \in {e.text, "empty", "changed"} :
          emission' = [r EXCEPT !.step = "save", !.kept = kept, !.event = [e EXCEPT !.text = text]]
    BY <1>3, <1>r DEF Replay!Empty
  <2>2. PICK g \in ReplayEvent : g = [e EXCEPT !.text = text] /\ g.seq = 0
    BY <2>1
  <2>3. Proper(g) /\ AsRun(Replay!ToMessage(g), kept)
    BY <2>1, <2>2
  <2>4. emission' = [r EXCEPT !.step = "save", !.kept = kept, !.event = g]
    BY <2>1, <2>2
  <2>5. /\ emission' \in ReplayPipe /\ emission'.step = "save" /\ emission'.event = g /\ emission'.kept = kept
    BY <1>r, <2>2, <2>4 DEF ReplayPipe, ReplaySteps
  <2>6. EmissionInv'
    BY <2>2, <2>3, <2>5 DEF EmissionInv
  <2> QED
    BY <1>1, <2>5, <2>6, RowsStay, PageStays, LiveStays DEF ReplayInv
<1> QED
  BY <1>2, <1>3 DEF Replay!Emit

LEMMA CallListed ==
  ASSUME NEW cs \in Replay!CallLists PROVE cs \in Seq(Replay!ToolCall)
<1>1. \A id \in {"a", "b"}, args \in {"ok", "broken"} : Replay!CallOf(id, args) \in Replay!ToolCall
  BY DEF Replay!CallOf, Replay!ToolCall
<1>2. \/ cs = << >> \/ cs = <<Replay!CallOf("a", "ok")>> \/ cs = <<Replay!CallOf("a", "broken")>>
      \/ cs = <<Replay!CallOf("a", "ok"), Replay!CallOf("b", "broken")>>
  BY DEF Replay!CallLists
<1>3. PICK x \in Replay!ToolCall, y \in Replay!ToolCall, z \in Replay!ToolCall :
        cs = << >> \/ cs = <<x>> \/ cs = <<y>> \/ cs = <<x, z>>
  BY <1>1, <1>2
<1>4. << >> \in Seq(Replay!ToolCall)
  OBVIOUS
<1>5. \A u \in Replay!ToolCall : <<u>> \in Seq(Replay!ToolCall)
  OBVIOUS
<1>6. \A u, v \in Replay!ToolCall : <<u, v>> \in Seq(Replay!ToolCall)
  OBVIOUS
<1> QED
  BY <1>3, <1>4, <1>5, <1>6

LEMMA UserKeeps ==
  ASSUME ReplayInv, NEW text \in {"empty", "t"}, NEW imgs \in {<< >>, <<"url">>, <<"large", "broken">>},
         Replay!User(text, imgs)
  PROVE  ReplayInv'
<1>1. PICK e \in ReplayEvent : e = Replay!UserEvent(text, imgs) /\ UserProper(e)
  BY MadeProper
<1>2. e.seq = 0
  BY <1>1 DEF Replay!UserEvent, Replay!Event
<1>3. Replay!Emit(e, << >>, {}) /\ emission.step = "idle"
  BY <1>1 DEF Replay!User
<1>4. ASSUME NEW t \in {e.text, "empty", "changed"}
      PROVE  LET g == [e EXCEPT !.text = t] IN
             g \in ReplayEvent /\ g.seq = 0 /\ Proper(g) /\ AsRun(Replay!ToMessage(g), << >>)
  <2>1. UserProper([e EXCEPT !.text = t])
    BY <1>1 DEF UserProper, ReplayEvent
  <2>4. [e EXCEPT !.text = t] \in ReplayEvent /\ [e EXCEPT !.text = t].seq = 0
    BY <1>1, <1>2 DEF ReplayEvent, Text
  <2>2. Replay!ToMessage([e EXCEPT !.text = t]) = Replay!UserMessage([e EXCEPT !.text = t])
    BY <2>1 DEF Replay!ToMessage, UserProper
  <2>3. Replay!ToMessage([e EXCEPT !.text = t]).finish = "none"
    BY <2>2 DEF Replay!UserMessage, Replay!Message, Replay!None
  <2> QED
    BY <2>1, <2>3, <2>4 DEF Proper, AsRun
<1>5. << >> \in Seq(Replay!ToolCall) /\ {} \in SUBSET Replay!ToolCall
  OBVIOUS
<1> QED
  BY <1>3, <1>4, <1>5, EmitKeeps

LEMMA ResultKeeps ==
  ASSUME ReplayInv, NEW c \in emission.due, Replay!Result(c, "t") PROVE ReplayInv'
<1>0. c \in Replay!ToolCall /\ emission.due \in SUBSET Replay!ToolCall
  BY DEF ReplayInv, EmissionInv, ReplayPipe
<1>1. PICK e \in ReplayEvent : e = Replay!ResultEvent(c, "t") /\ ResultProper(e)
  BY <1>0, MadeProper
<1>2. e.seq = 0
  BY <1>1 DEF Replay!ResultEvent, Replay!Event
<1>3. Replay!Emit(e, << >>, emission.due \ {c}) /\ emission.step = "run"
  BY <1>1 DEF Replay!Result
<1>4. ASSUME NEW t \in {e.text, "empty", "changed"}
      PROVE  LET g == [e EXCEPT !.text = t] IN
             g \in ReplayEvent /\ g.seq = 0 /\ Proper(g) /\ AsRun(Replay!ToMessage(g), << >>)
  <2>1. ResultProper([e EXCEPT !.text = t])
    BY <1>1 DEF ResultProper, ReplayEvent
  <2>4. [e EXCEPT !.text = t] \in ReplayEvent /\ [e EXCEPT !.text = t].seq = 0
    BY <1>1, <1>2 DEF ReplayEvent, Text
  <2>2. Replay!ToMessage([e EXCEPT !.text = t]) = Replay!ToolMessage([e EXCEPT !.text = t])
    BY <2>1 DEF Replay!ToMessage, ResultProper
  <2>3. Replay!ToMessage([e EXCEPT !.text = t]).finish = "none"
    BY <2>2 DEF Replay!ToolMessage, Replay!Message, Replay!None
  <2> QED
    BY <2>1, <2>3, <2>4 DEF Proper, AsRun
<1>5. << >> \in Seq(Replay!ToolCall) /\ emission.due \ {c} \in SUBSET Replay!ToolCall
  BY <1>0
<1> QED
  BY <1>3, <1>4, <1>5, EmitKeeps

LEMMA InterruptedKeeps ==
  ASSUME ReplayInv, NEW spoken \in SaidTexts, NEW cs \in Seq(Replay!ToolCall), NEW nameless \in BOOLEAN,
         Replay!Interrupted(spoken, cs, nameless)
  PROVE  ReplayInv'
<1>1. PICK e : e = Replay!InterruptedEvent(spoken, cs)
  OBVIOUS
<1>2. \A t \in Text : LET g == [e EXCEPT !.text = t] IN
        g \in ReplayEvent /\ AssistantProper(g) /\ g.seq = 0 /\ AsRun(Replay!ToMessage(g), cs)
  BY <1>1, ReplyProper
<1>3. Replay!OrNone(spoken.text) \in Text
  BY DEF SaidTexts, Replay!OrNone, Replay!None, Replay!Empty, Text
<1>5. e.text \in Text
  BY <1>1, <1>3 DEF Replay!InterruptedEvent, Replay!Event
<1>6. "empty" \in Text /\ "changed" \in Text
  BY DEF Text
<1>7. \A t \in {e.text, "empty", "changed"} : LET g == [e EXCEPT !.text = t] IN
        g \in ReplayEvent /\ g.seq = 0 /\ Proper(g) /\ AsRun(Replay!ToMessage(g), cs)
  BY <1>2, <1>5, <1>6 DEF Proper
<1>8. Replay!Emit(e, cs, {cs[i] : i \in DOMAIN cs}) /\ emission.step = "idle"
  BY <1>1 DEF Replay!Interrupted
<1>9. {cs[i] : i \in DOMAIN cs} \in SUBSET Replay!ToolCall
  OBVIOUS
<1> QED
  BY <1>7, <1>8, <1>9, EmitKeeps

LEMMA EffectiveKeeps ==
  ASSUME ReplayInv, Replay!Effective PROVE ReplayInv'
<1>0. PICK spoken \in SaidTexts, cs \in Seq(Replay!ToolCall) :
        spoken = emission.said /\ cs = emission.kept /\ Clean(cs)
  BY DEF ReplayInv, EmissionInv, ReplayPipe, Replay!Effective
<1>1. PICK e : e = Replay!ReplyEvent(spoken, cs)
  OBVIOUS
<1>2. \A t \in Text : LET g == [e EXCEPT !.text = t] IN
        g \in ReplayEvent /\ AssistantProper(g) /\ g.seq = 0 /\ AsRun(Replay!ToMessage(g), cs)
  BY <1>0, <1>1, ReplyProper
<1>3. Replay!OrNone(spoken.text) \in Text
  BY DEF SaidTexts, Replay!OrNone, Replay!None, Replay!Empty, Text
<1>5. e.text \in Text
  BY <1>1, <1>3 DEF Replay!ReplyEvent, Replay!Event
<1>6. "empty" \in Text /\ "changed" \in Text
  BY DEF Text
<1>7. \A t \in {e.text, "empty", "changed"} : LET g == [e EXCEPT !.text = t] IN
        g \in ReplayEvent /\ g.seq = 0 /\ Proper(g) /\ AsRun(Replay!ToMessage(g), cs)
  BY <1>2, <1>5, <1>6 DEF Proper
<1>8. Replay!Emit(e, cs, {cs[i] : i \in DOMAIN cs}) /\ emission.step = "calls"
  BY <1>0, <1>1 DEF Replay!Effective
<1>9. {cs[i] : i \in DOMAIN cs} \in SUBSET Replay!ToolCall
  OBVIOUS
<1> QED
  BY <1>0, <1>7, <1>8, <1>9, EmitKeeps


LEMMA ReplyKeeps ==
  ASSUME ReplayInv, NEW spoken \in SaidTexts, NEW cs \in Seq(Replay!ToolCall), Replay!Reply(spoken, cs)
  PROVE  ReplayInv'
<1>1. messages' = messages /\ ran' = ran /\ live' = live /\ reading' = reading /\ emission.step = "idle"
  BY DEF Replay!Reply
<1>2. emission' \in ReplayPipe /\ emission'.step = "calls" /\ emission'.kept = emission.kept
  BY DEF Replay!Reply, ReplayInv, EmissionInv, ReplayPipe, ReplaySteps
<1>3. EmissionInv'
  BY <1>1, <1>2 DEF ReplayInv, EmissionInv
<1> QED
  BY <1>1, <1>2, <1>3, RowsStay, PageStays, LiveStays DEF ReplayInv

LEMMA PassKeeps ==
  ASSUME ReplayInv, Replay!PassCall PROVE ReplayInv'
<1>1. messages' = messages /\ ran' = ran /\ live' = live /\ reading' = reading /\ emission.step = "calls"
  BY DEF Replay!PassCall
<1>2. PICK left \in Seq(Replay!ToolCall), old \in Seq(Replay!ToolCall) :
        left = emission.left /\ old = emission.kept /\ left # << >> /\ Clean(old)
  BY <1>1 DEF ReplayInv, EmissionInv, ReplayPipe, Replay!PassCall
<1>3. PICK c \in Replay!ToolCall : c = Head(left)
  BY <1>2
<1>4. PICK kept \in {old} \cup {Append(old, [Replay!ParsedCall(c) EXCEPT !.args = a]) :
                               a \in {Replay!Parsed(c.args), "other"}} :
        emission' = [emission EXCEPT !.left = Tail(left), !.kept = kept]
  BY <1>2, <1>3 DEF Replay!PassCall
<1>5. ASSUME NEW a \in {Replay!Parsed(c.args), "other"}
      PROVE  [Replay!ParsedCall(c) EXCEPT !.args = a] \in Replay!ToolCall
             /\ [Replay!ParsedCall(c) EXCEPT !.args = a].args # "broken"
  BY DEF Replay!Parsed, Replay!ParsedCall, Replay!ToolCall
<1>6. ASSUME NEW d \in Replay!ToolCall, d.args # "broken" PROVE Append(old, d) \in Seq(Replay!ToolCall) /\ Clean(Append(old, d))
  BY <1>2, <1>6 DEF Clean
<1>7. kept \in Seq(Replay!ToolCall) /\ Clean(kept)
  BY <1>2, <1>4, <1>5, <1>6
<1>8. Tail(left) \in Seq(Replay!ToolCall)
  BY <1>2
<1>9. emission' \in ReplayPipe /\ emission'.step = "calls" /\ emission'.kept = kept
  BY <1>1, <1>4, <1>7, <1>8 DEF ReplayInv, EmissionInv, ReplayPipe
<1>10. EmissionInv'
  BY <1>7, <1>9 DEF EmissionInv
<1> QED
  BY <1>1, <1>9, <1>10, RowsStay, PageStays, LiveStays DEF ReplayInv

LEMMA SaveFailsKeeps ==
  ASSUME ReplayInv, Replay!SaveFails PROVE ReplayInv'
<1>1. messages' = messages /\ ran' = ran /\ live' = live /\ reading' = reading /\ emission.step = "save"
  BY DEF Replay!SaveFails
<1>2. emission' \in ReplayPipe /\ emission'.step = "deliver" /\ emission'.event = emission.event
  BY DEF Replay!SaveFails, ReplayInv, EmissionInv, ReplayPipe, ReplaySteps
<1>3. emission.event.seq = 0
  BY <1>1 DEF ReplayInv, EmissionInv
<1>4. EmissionInv'
  BY <1>2, <1>3 DEF EmissionInv
<1> QED
  BY <1>1, <1>2, <1>3, <1>4, RowsStay, PageStays, LiveStays DEF ReplayInv

LEMMA DeliverKeeps ==
  ASSUME ReplayInv, Replay!Deliver PROVE ReplayInv'
<1>1. messages' = messages /\ ran' = ran /\ reading' = reading /\ emission.step = "deliver"
  BY DEF Replay!Deliver
<1>r. PICK r \in ReplayPipe : r = Replay!Rest(emission.due) /\ r.step \in {"idle", "run"} /\ Clean(r.kept)
  BY RestFits DEF ReplayInv, EmissionInv, ReplayPipe
<1>2. emission' = r
  BY <1>r DEF Replay!Deliver
<1>3. EmissionInv'
  BY <1>r, <1>2 DEF EmissionInv
<1>4. PICK e \in ReplayEvent : e = emission.event
  BY DEF ReplayInv, EmissionInv, ReplayPipe
<1>5. CASE e.seq = 0
  <2>1. live' = live
    BY <1>4, <1>5 DEF Replay!Deliver
  <2>2. \A i \in DOMAIN messages : i # 0
    BY DEF ReplayInv, RowsInv
  <2>3. LiveInv'
    BY <1>1, <1>r, <1>2, <1>4, <1>5, <2>1, <2>2 DEF ReplayInv, LiveInv
  <2> QED
    BY <1>1, <1>3, <2>3, RowsStay, PageStays DEF ReplayInv
<1>6. CASE e.seq # 0
  <2>1. live' = live \cup {e}
    BY <1>4, <1>6 DEF Replay!Deliver
  <2>2. e.seq \in DOMAIN messages /\ Tells(e, messages[e.seq])
    BY <1>1, <1>4, <1>6 DEF ReplayInv, EmissionInv, RowsInv
  <2>3. \A d \in live : d.seq # e.seq
    BY <1>1, <1>4 DEF ReplayInv, LiveInv
  <2>4. LiveInv'
    <3>1. live' \subseteq ReplayEvent
      BY <2>1 DEF ReplayInv, LiveInv
    <3>2. \A d \in live' : d.seq \in DOMAIN messages' /\ Tells(d, messages'[d.seq])
      BY <1>1, <2>1, <2>2 DEF ReplayInv, LiveInv
    <3>3. \A d, f \in live' : d.seq = f.seq => d = f
      BY <2>1, <2>3 DEF ReplayInv, LiveInv
    <3>4. ASSUME NEW i \in DOMAIN messages', messages'[i].kind = "message" PROVE \E d \in live' : d.seq = i
      BY <1>1, <1>4, <2>1, <3>4 DEF ReplayInv, LiveInv
    <3> QED
      BY <1>r, <1>2, <3>1, <3>2, <3>3, <3>4 DEF LiveInv
  <2> QED
    BY <1>1, <1>3, <2>4, RowsStay, PageStays DEF ReplayInv
<1> QED
  BY <1>5, <1>6

\* A row at the end leaves all that is told of the others.
LEMMA PageGrows ==
  ASSUME RowsInv, PageInv, NEW m \in ReplayRow, messages' = Append(messages, m), reading' = reading PROVE PageInv'
<1>1. \A i \in DOMAIN messages : i \in DOMAIN messages' /\ messages'[i] = messages[i]
  BY DEF RowsInv
<1> QED
  BY <1>1 DEF PageInv, Replay!PagesReplay

Announces(n) == emission.step = "deliver" /\ emission.event.seq = n
LEMMA LiveGrows ==
  ASSUME RowsInv, LiveInv, NEW m \in ReplayRow, NEW n \in Nat, n = Len(messages) + 1,
         messages' = Append(messages, m), live' = live, emission.step # "deliver",
         Announces(n)' \/ (emission'.step # "deliver" /\ m.kind = "compaction")
  PROVE  LiveInv'
<1>0. DOMAIN messages = 1 .. n - 1 /\ n - 1 \in Nat
  BY DEF RowsInv
<1>1. DOMAIN messages' = 1 .. n /\ messages'[n] = m
      /\ \A i \in DOMAIN messages : messages'[i] = messages[i]
  BY <1>0 DEF RowsInv
<1>2. \A e \in live : e.seq \in 1 .. n - 1 /\ e.seq # n
  BY <1>0 DEF LiveInv
<1>3. \A e \in live' : e.seq \in DOMAIN messages' /\ Tells(e, messages'[e.seq])
  BY <1>0, <1>1, <1>2 DEF LiveInv
<1>4. ASSUME NEW i \in DOMAIN messages', messages'[i].kind = "message",
             ~(emission'.step = "deliver" /\ emission'.event.seq = i)
      PROVE  \E e \in live' : e.seq = i
  <2>1. i # n
    BY <1>1, <1>4 DEF Announces
  <2>2. i \in DOMAIN messages
    BY <1>0, <1>1, <2>1
  <2> QED
    BY <1>1, <1>4, <2>2 DEF LiveInv
<1>5. emission'.step = "deliver" => \A e \in live' : e.seq # emission'.event.seq
  BY <1>2 DEF Announces
<1> QED
  BY <1>3, <1>4, <1>5 DEF LiveInv

LEMMA RowsGrow ==
  ASSUME RowsInv, NEW m \in ReplayRow, NEW kept \in Seq(Replay!ToolCall), m.seq = Len(messages) + 1,
         AsRun(m, kept), messages' = Append(messages, m), ran' = Append(ran, kept)
  PROVE  RowsInv'
BY DEF RowsInv

LEMMA RowsNumbered ==
  ASSUME NEW e \in ReplayEvent, NEW n \in Nat
  PROVE  [e EXCEPT !.seq = n] \in ReplayEvent /\ [e EXCEPT !.seq = n].seq = n
BY DEF ReplayEvent

LEMMA SaveKeeps ==
  ASSUME ReplayInv, Replay!Save PROVE ReplayInv'
<1>0. PICK n \in Nat \ {0} : n = Len(messages) + 1
  BY DEF ReplayInv, RowsInv
<1>1. PICK e \in ReplayEvent, kept \in Seq(Replay!ToolCall) :
        /\ e = emission.event /\ kept = emission.kept /\ emission.step = "save"
        /\ Proper(e) /\ AsRun(Replay!ToMessage(e), kept)
  BY DEF ReplayInv, EmissionInv, ReplayPipe, Replay!Save
<1>m. LET m == [Replay!ToMessage(e) EXCEPT !.seq = n] IN
         /\ m \in ReplayRow /\ m.seq = n /\ m.kind = "message" /\ Tells([e EXCEPT !.seq = n], m)
         /\ m.finish = Replay!ToMessage(e).finish /\ m.tool_calls = Replay!ToMessage(e).tool_calls
  BY <1>0, <1>1, RoundTrip
<1>2. PICK m \in ReplayRow :
        /\ m = [Replay!ToMessage(e) EXCEPT !.seq = n] /\ m.seq = n /\ m.kind = "message"
        /\ Tells([e EXCEPT !.seq = n], m)
        /\ m.finish = Replay!ToMessage(e).finish /\ m.tool_calls = Replay!ToMessage(e).tool_calls
  BY <1>m
<1>3. PICK g \in ReplayEvent : g = [e EXCEPT !.seq = n] /\ g.seq = n
  BY <1>0, <1>1, RowsNumbered
<1>4. /\ messages' = Append(messages, m) /\ ran' = Append(ran, kept)
      /\ live' = live /\ reading' = reading
      /\ emission' = [emission EXCEPT !.step = "deliver", !.event = g]
  BY <1>0, <1>1, <1>2, <1>3 DEF Replay!Save
<1>5. emission' \in ReplayPipe /\ emission'.step = "deliver" /\ emission'.event = g
  BY <1>4 DEF ReplayInv, EmissionInv, ReplayPipe, ReplaySteps
<1>6. AsRun(m, kept)
  BY <1>1, <1>2 DEF AsRun
<1>7. Len(messages') = n /\ messages'[n] = m
  BY <1>0, <1>4 DEF ReplayInv, RowsInv
<1>8. EmissionInv'
  BY <1>2, <1>3, <1>5, <1>7 DEF EmissionInv
<1>9. RowsInv' /\ PageInv'
  BY <1>0, <1>1, <1>2, <1>4, <1>6, RowsGrow, PageGrows DEF ReplayInv
<1>10. LiveInv'
  <2>1. emission.step # "deliver" /\ Announces(n)'
    BY <1>1, <1>3, <1>5 DEF Announces
  <2>2. messages' = Append(messages, m) /\ live' = live /\ m \in ReplayRow
    BY <1>2, <1>4
  <2> QED
    BY <1>0, <2>1, <2>2, LiveGrows DEF ReplayInv, Announces
<1> QED
  BY <1>8, <1>9, <1>10 DEF ReplayInv

LEMMA EndedTypes ==
  ASSUME NEW reason \in {"auto", "manual"}, NEW text \in {"t", "changed"}, NEW n \in Nat
  PROVE  /\ Replay!CompressionEnded(reason, text, "none", n) \in ReplayEvent
         /\ Replay!CompressionEnded(reason, text, "none", n).seq = n
         /\ Replay!CompressionEnded(reason, text, "none", n).kind = "compression"
<1>1. << >> \in Pictures /\ << >> \in Seq(Replay!ToolCall)
  BY DEF Pictures
<1> QED
  BY <1>1 DEF Replay!CompressionEnded, Replay!Event, Replay!None, ReplayEvent, EventKind, Text, Finish,
       Cause, CallId, CallName

LEMMA CompressKeeps ==
  ASSUME ReplayInv, NEW reason \in {"auto", "manual"}, Replay!Compress(reason, "none") PROVE ReplayInv'
<1>0. PICK n \in Nat \ {0} : n = Len(messages) + 1
  BY DEF ReplayInv, RowsInv
<1>e. << >> \in Pictures /\ << >> \in Seq(Replay!ToolCall)
  BY DEF Pictures
<1>1. PICK m : m = [Replay!CompactionMessage(reason, "t", "none") EXCEPT !.seq = n]
  OBVIOUS
<1>2. m \in ReplayRow /\ m.seq = n /\ m.kind = "compaction" /\ AsRun(m, << >>)
  BY <1>e, <1>1 DEF Replay!CompactionMessage, Replay!Message, Replay!None, ReplayRow, Text, Finish, CallId,
       CallName, AsRun
<1>3. messages' = Append(messages, m) /\ ran' = Append(ran, << >>) /\ live' = live /\ reading' = reading
      /\ emission.step = "idle"
  BY <1>0, <1>1 DEF Replay!Compress
<1>4. Len(messages') = n /\ messages'[n] = m
  BY <1>0, <1>2, <1>3 DEF ReplayInv, RowsInv
<1>5. RowsInv' /\ PageInv'
  BY <1>0, <1>e, <1>2, <1>3, RowsGrow, PageGrows DEF ReplayInv
<1>6. CASE emission' = emission
  <2>1. EmissionInv'
    BY <1>3, <1>6 DEF ReplayInv, EmissionInv
  <2> QED
    BY <1>0, <1>2, <1>3, <1>5, <1>6, <2>1, LiveGrows DEF ReplayInv
<1>7. CASE emission' # emission
  <2>1. PICK text \in {"t", "changed"} :
          emission' = [emission EXCEPT !.step = "deliver", !.event = Replay!CompressionEnded(reason, text, "none", n)]
    BY <1>0, <1>7 DEF Replay!Compress
  <2>2. PICK g \in ReplayEvent : /\ g = Replay!CompressionEnded(reason, text, "none", n)
                                 /\ g.seq = n /\ g.kind = "compression"
    BY <1>0, <2>1, EndedTypes
  <2>3. emission' \in ReplayPipe /\ emission'.step = "deliver" /\ emission'.event = g
    BY <2>1, <2>2 DEF ReplayInv, EmissionInv, ReplayPipe, ReplaySteps
  <2>4. Tells(g, m)
    <3>1. /\ m.tool_name = reason /\ m.reasoning = "none" /\ m.text = "t"
      BY <1>1 DEF Replay!CompactionMessage, Replay!Message
    <3>2. Replay!ToEvent(m) = Replay!CompressionEnded(reason, "t", "none", n)
      BY <1>2, <3>1 DEF Replay!ToEvent, Replay!ToCompression, Replay!Reason, Replay!OrEmpty, Replay!None
    <3>3. PICK f \in ReplayEvent : f = Replay!CompressionEnded(reason, "t", "none", n)
      BY EndedTypes
    <3>4. /\ f.kind = g.kind /\ f.seq = g.seq /\ f.think = g.think /\ f.calls = g.calls /\ f.images = g.images
          /\ f.finish = g.finish /\ f.reason = g.reason /\ f.tool_call_id = g.tool_call_id
          /\ f.tool_name = g.tool_name
      BY <2>2, <3>3 DEF Replay!CompressionEnded, Replay!Event
    <3>5. g = [f EXCEPT !.text = g.text]
      BY <3>4 DEF ReplayEvent
    <3> QED
      BY <1>2, <2>2, <3>2, <3>3, <3>5 DEF Tells
  <2>5. EmissionInv'
    BY <1>4, <2>2, <2>3, <2>4 DEF EmissionInv
  <2> QED
    BY <1>0, <1>2, <1>3, <1>5, <2>2, <2>3, <2>5, LiveGrows DEF ReplayInv, Announces
<1> QED
  BY <1>6, <1>7


(* Pages ---------------------------------------------------------------------*)
ReplayLimits == PageSize \in Nat \ {0}

LEMMA BelowIs ==
  ASSUME ReplayLimits, RowsInv, NEW cursor \in Nat
  PROVE  \E n \in 0 .. PageSize, top \in 0 .. Len(messages) :
           /\ n <= top /\ (n < PageSize => n = top)
           /\ top = Replay!Top(cursor)
           /\ Replay!Below(cursor) = [i \in 1 .. n |-> messages[top + 1 - i]]
<1>1. PICK k \in Nat : k = Len(messages)
  BY DEF RowsInv
<1>2. PICK top \in 0 .. k : top = Replay!Top(cursor)
  BY <1>1 DEF Replay!Top, Replay!Least
<1>3. PICK n \in 0 .. PageSize : n = Replay!Least(PageSize, top) /\ n <= top /\ (n < PageSize => n = top)
  BY <1>1, <1>2 DEF ReplayLimits, Replay!Least
<1> QED
  BY <1>1, <1>2, <1>3 DEF Replay!Below

\* What is read is the events of a stretch of rows.
Stretch(view) ==
  \A i \in DOMAIN view : view[1].seq + i - 1 \in DOMAIN messages
                          /\ view[i] = Replay!ToEvent(messages[view[1].seq + i - 1])
JoinsAt(view, cursor) == view # << >> => cursor # 0 /\ view[1].seq = cursor
ReadGives(cursor, top, n, es) ==
  /\ top \in 0 .. Len(messages) /\ n <= top /\ Len(es) = n
  /\ es = Replay!ToEvents(Replay!Below(cursor))
  /\ \A i \in 1 .. n : es[i] = Replay!ToEvent(messages[top - n + i]) /\ es[i].seq = top - n + i
  /\ Len(Replay!Below(cursor)) = n
  /\ n # 0 => Replay!Below(cursor)[n].seq = top - n + 1
  /\ n # 0 => n <= PageSize

LEMMA ReadIs ==
  ASSUME ReplayLimits, RowsInv, NEW cursor \in Nat, NEW top, top = Replay!Top(cursor)
  PROVE  \E n \in Nat, es \in Seq(ReplayEvent) : ReadGives(cursor, top, n, es)
<1>1. PICK n \in 0 .. PageSize, t \in 0 .. Len(messages) :
           /\ n <= t /\ t = top
           /\ Replay!Below(cursor) = [i \in 1 .. n |-> messages[t + 1 - i]]
  BY BelowIs
<1>2. n \in Nat /\ t \in Nat /\ Len(messages) \in Nat
  BY <1>1 DEF ReplayLimits, RowsInv
<1>3. PICK ms \in Seq(ReplayRow) : ms = Replay!Below(cursor) /\ Len(ms) = n
                                  /\ \A i \in 1 .. n : ms[i] = messages[t + 1 - i]
  <2>1. \A i \in 1 .. n : t + 1 - i \in 1 .. Len(messages)
    BY <1>1, <1>2
  <2>2. \A i \in 1 .. n : messages[t + 1 - i] \in ReplayRow
    BY <2>1 DEF RowsInv
  <2> QED
    BY <1>1, <1>2, <2>2
<1>4. \A i \in 1 .. n : t - n + i \in DOMAIN messages /\ ms[n + 1 - i] = messages[t - n + i]
  <2>1. \A i \in 1 .. n : n + 1 - i \in 1 .. n /\ t + 1 - (n + 1 - i) = t - n + i /\ t - n + i \in 1 .. Len(messages)
    BY <1>1, <1>2
  <2> QED
    BY <1>3, <2>1 DEF RowsInv
<1>5. \A i \in DOMAIN messages : Replay!ToEvent(messages[i]) \in ReplayEvent /\ Replay!ToEvent(messages[i]).seq = i
                                 /\ messages[i].seq = i
  BY EventOfRow DEF RowsInv
<1>6. PICK es : es = [i \in 1 .. n |-> Replay!ToEvent(ms[n + 1 - i])]
  OBVIOUS
<1>7. es = Replay!ToEvents(ms)
  BY <1>2, <1>3, <1>6 DEF Replay!ToEvents
<1>8. es \in Seq(ReplayEvent) /\ Len(es) = n
      /\ \A i \in 1 .. n : es[i] = Replay!ToEvent(messages[t - n + i]) /\ es[i].seq = t - n + i
  BY <1>2, <1>4, <1>5, <1>6
<1>9. n # 0 => ms[n].seq = t - n + 1
  <2>1. n # 0 => t + 1 - n \in 1 .. Len(messages) /\ n \in 1 .. n
    BY <1>1, <1>2
  <2>2. DOMAIN messages = 1 .. Len(messages)
    BY DEF RowsInv
  <2>3. PICK j : j = t + 1 - n
    OBVIOUS
  <2>4. n # 0 => ms[n] = messages[j] /\ messages[j].seq = j
    BY <1>3, <1>5, <2>1, <2>2, <2>3
  <2> QED
    BY <1>1, <1>2, <2>3, <2>4
<1>10. /\ top \in 0 .. Len(messages) /\ n <= top /\ n <= PageSize
       /\ es = Replay!ToEvents(Replay!Below(cursor)) /\ Len(Replay!Below(cursor)) = n
  BY <1>1, <1>2, <1>3, <1>7 DEF ReplayLimits
<1>11. /\ \A i \in 1 .. n : es[i] = Replay!ToEvent(messages[top - n + i]) /\ es[i].seq = top - n + i
       /\ n # 0 => Replay!Below(cursor)[n].seq = top - n + 1
  BY <1>1, <1>3, <1>8, <1>9
<1> QED
  BY <1>2, <1>8, <1>10, <1>11 DEF ReadGives

\* A stretch of rows before the view, which begins where the stretch ends.
LEMMA Prepended ==
  ASSUME RowsInv, NEW n \in Nat, NEW top \in 0 .. Len(messages), n <= top, NEW es \in Seq(ReplayEvent), Len(es) = n,
         \A i \in 1 .. n : es[i] = Replay!ToEvent(messages[top - n + i]) /\ es[i].seq = top - n + i,
         NEW view \in Seq(ReplayEvent),
         view # << >> => view[1].seq = top + 1, Stretch(view)
  PROVE  \E all \in Seq(ReplayEvent) :
           all = es \o view /\ Stretch(all) /\ (all # << >> => all[1].seq = top - n + 1)
<1>0. PICK k \in Nat, l \in Nat : k = Len(messages) /\ l = Len(view) /\ DOMAIN messages = 1 .. k
  BY DEF RowsInv
<1>1. PICK all \in Seq(ReplayEvent) : /\ all = es \o view /\ Len(all) = n + l
                                      /\ \A i \in 1 .. n : all[i] = es[i]
                                      /\ \A i \in 1 .. l : all[n + i] = view[i]
  <2>1. /\ es \o view \in Seq(ReplayEvent) /\ Len(es \o view) = n + l
        /\ \A i \in 1 .. n + l : (es \o view)[i] = IF i <= n THEN es[i] ELSE view[i - n]
    BY <1>0, ConcatProperties
  <2>2. \A i \in 1 .. n : i \in 1 .. n + l /\ i <= n
    BY <1>0
  <2>3. \A i \in 1 .. l : n + i \in 1 .. n + l /\ ~(n + i <= n) /\ n + i - n = i
    BY <1>0
  <2>4. \A i \in 1 .. n : (es \o view)[i] = es[i]
    BY <2>1, <2>2
  <2>5. \A i \in 1 .. l : (es \o view)[n + i] = view[i]
    <3>1. TAKE i \in 1 .. l
    <3>2. PICK j \in 1 .. n + l : j = n + i /\ ~(j <= n) /\ j - n = i
      BY <2>3
    <3>3. (es \o view)[j] = view[j - n]
      BY <2>1, <3>2
    <3> QED
      BY <3>2, <3>3
  <2> QED
    BY <2>1, <2>4, <2>5
<1>2. ASSUME n + l # 0 PROVE all[1].seq = top - n + 1
  <2>1. CASE n # 0
    BY <1>1, <2>1
  <2>2. CASE n = 0
    <3>1. view # << >> /\ 1 \in 1 .. l /\ n + 1 = 1
      BY <1>0, <1>2, <2>2
    <3>2. all[1] = view[1]
      BY <1>1, <3>1
    <3> QED
      BY <2>2, <3>1, <3>2, <1>0
  <2> QED
    BY <2>1, <2>2
<1>3. ASSUME NEW i \in 1 .. n + l
      PROVE  top - n + i \in 1 .. k /\ all[i] = Replay!ToEvent(messages[top - n + i])
  <2>0. i \in Nat /\ 1 <= i /\ i <= n + l /\ top \in Nat /\ top <= k
    BY <1>0
  <2>1. CASE i <= n
    <3>1. i \in 1 .. n /\ top - n + i \in 1 .. k
      BY <2>0, <2>1
    <3> QED
      BY <1>1, <3>1
  <2>2. CASE i > n
    <3>1. PICK j \in 1 .. l : j = i - n /\ i = n + j
      BY <1>0, <2>0, <2>2
    <3>2. view # << >> /\ view[1].seq = top + 1
      BY <1>0, <3>1
    <3>3. view[1].seq + j - 1 = top - n + i
      BY <1>0, <3>1, <3>2
    <3>4. top - n + i \in DOMAIN messages /\ view[j] = Replay!ToEvent(messages[top - n + i])
      <4>1. j \in DOMAIN view
        BY <1>0, <3>1
      <4> QED
        BY <3>3, <4>1 DEF Stretch
    <3> QED
      BY <1>0, <1>1, <3>1, <3>4
  <2> QED
    BY <1>0, <2>1, <2>2
<1>4. ASSUME NEW i \in DOMAIN all
      PROVE  all[1].seq + i - 1 \in DOMAIN messages /\ all[i] = Replay!ToEvent(messages[all[1].seq + i - 1])
  <2>1. i \in 1 .. n + l /\ n + l # 0
    BY <1>0, <1>1
  <2>2. all[1].seq + i - 1 = top - n + i
    BY <1>0, <1>2, <2>1
  <2> QED
    BY <1>0, <1>3, <2>1, <2>2
<1>5. all # << >> => n + l # 0
  BY <1>0, <1>1
<1>6. Stretch(all)
  BY <1>4 DEF Stretch
<1> QED
  BY <1>1, <1>2, <1>5, <1>6


LEMMA ReadKeeps ==
  ASSUME ReplayLimits, ReplayInv, Replay!FirstPage \/ Replay!NextPage PROVE ReplayInv'
<1>1. messages' = messages /\ ran' = ran /\ live' = live /\ emission' = emission
  BY DEF Replay!FirstPage, Replay!NextPage, Replay!Read
<1>2. RowsInv' /\ EmissionInv' /\ LiveInv'
  BY <1>1 DEF ReplayInv, RowsInv, EmissionInv, LiveInv
<1>3. PICK cursor \in Nat, view \in Seq(ReplayEvent) :
        Replay!Read(cursor, view) /\ JoinsAt(view, cursor) /\ Stretch(view)
  <2>1. CASE Replay!FirstPage
    <3>1. Replay!Read(0, << >>) /\ << >> \in Seq(ReplayEvent) /\ 0 \in Nat
      BY <2>1 DEF Replay!FirstPage
    <3>2. JoinsAt(<< >>, 0) /\ Stretch(<< >>)
      BY DEF JoinsAt, Stretch
    <3> QED
      BY <3>1, <3>2
  <2>2. CASE Replay!NextPage
    <3>1. Replay!Read(reading.cursor, reading.view) /\ reading.cursor \in Nat /\ reading.view \in Seq(ReplayEvent) /\ reading.more
      BY <2>2 DEF Replay!NextPage, ReplayInv, PageInv
    <3>2. JoinsAt(reading.view, reading.cursor) /\ Stretch(reading.view)
      BY <3>1 DEF ReplayInv, PageInv, Replay!PagesReplay, JoinsAt, Stretch
    <3> QED
      BY <3>1, <3>2
  <2> QED
    BY <2>1, <2>2
<1>4. PICK top : top = Replay!Top(cursor)
  OBVIOUS
<1>5. PICK n \in Nat, es \in Seq(ReplayEvent) : ReadGives(cursor, top, n, es)
  BY <1>3, <1>4, ReadIs DEF ReplayInv
<1>6. view # << >> => view[1].seq = top + 1
  <2>1. ASSUME view # << >> PROVE cursor \in DOMAIN messages /\ cursor # 0
    <3>1. 1 \in DOMAIN view /\ cursor \in Nat
      BY <1>3, <2>1
    <3>2. view[1].seq + 1 - 1 \in DOMAIN messages
      BY <1>3, <3>1 DEF Stretch
    <3> QED
      BY <1>3, <2>1, <3>1, <3>2 DEF JoinsAt
  <2>2. ASSUME cursor \in DOMAIN messages, cursor # 0 PROVE top = cursor - 1
    BY <1>3, <1>4, <2>2 DEF Replay!Top, Replay!Least, ReplayInv, RowsInv
  <2> QED
    BY <1>3, <2>1, <2>2 DEF JoinsAt
<1>7. PICK all \in Seq(ReplayEvent) :
         all = es \o view /\ Stretch(all) /\ (all # << >> => all[1].seq = top - n + 1)
  <2>1. RowsInv /\ top \in 0 .. Len(messages) /\ n <= top /\ Len(es) = n
        /\ \A i \in 1 .. n : es[i] = Replay!ToEvent(messages[top - n + i]) /\ es[i].seq = top - n + i
    BY <1>5 DEF ReplayInv, ReadGives
  <2> QED
    BY <1>3, <1>6, <2>1, Prepended
<1>8. reading' = [more |-> n = PageSize, cursor |-> IF n = PageSize THEN Replay!Below(cursor)[n].seq ELSE 0,
               view |-> all]
  BY <1>3, <1>5, <1>7 DEF Replay!Read, ReadGives
<1>9. n = PageSize => Replay!Below(cursor)[n].seq = top - n + 1 /\ top - n + 1 \in Nat /\ top - n + 1 # 0
  <2>1. n = PageSize => n # 0
    BY DEF ReplayLimits
  <2>2. top \in Nat
    BY <1>5 DEF ReplayInv, RowsInv, ReadGives
  <2> QED
    BY <1>5, <2>1, <2>2 DEF ReadGives
<1>10. reading' \in [more : BOOLEAN, cursor : Nat, view : Seq(ReplayEvent)]
  BY <1>7, <1>8, <1>9
<1>11. /\ reading'.more => reading'.cursor # 0
       /\ reading'.more /\ reading'.view # << >> => reading'.view[1].seq = reading'.cursor
  BY <1>7, <1>8, <1>9
<1>12. Replay!PagesReplay'
  BY <1>1, <1>7, <1>8 DEF Replay!PagesReplay, Stretch
<1> QED
  BY <1>2, <1>10, <1>11, <1>12 DEF ReplayInv, PageInv

\* A stretch of rows from which a cut takes the end.
CutShort(view, target) == [i \in {j \in DOMAIN view : view[j].seq < target} |-> view[i]]
StandsAt(rest, i, target) ==
  rest[1].seq + i - 1 \in 1 .. target - 1 /\ rest[i] = Replay!ToEvent(messages[rest[1].seq + i - 1])
LEMMA Shortened ==
  ASSUME RowsInv, NEW target \in DOMAIN messages, NEW view \in Seq(ReplayEvent),
         Stretch(view),
         NEW rest, rest = CutShort(view, target)
  PROVE  /\ rest \in Seq(ReplayEvent)
         /\ rest # << >> => view # << >> /\ rest[1] = view[1]
         /\ \A i \in DOMAIN rest : StandsAt(rest, i, target)
<1>0. PICK k \in Nat, l \in Nat : k = Len(messages) /\ l = Len(view)
  BY DEF RowsInv
<1>a. DOMAIN messages = 1 .. k /\ DOMAIN view = 1 .. l
  BY <1>0 DEF RowsInv
<1>1. ASSUME NEW i \in DOMAIN view PROVE view[i].seq = view[1].seq + i - 1
  <2>1. PICK s \in DOMAIN messages : s = view[1].seq + i - 1 /\ view[i] = Replay!ToEvent(messages[s])
    BY DEF Stretch
  <2>2. messages[s] \in ReplayRow /\ messages[s].seq = s
    BY DEF RowsInv
  <2> QED
    BY <2>1, <2>2, EventOfRow
<1>2. CASE l = 0
  <2>1. DOMAIN view = {}
    BY <1>a, <1>2
  <2>2. DOMAIN rest = {} /\ rest = [i \in {} |-> view[i]]
    BY <2>1 DEF CutShort
  <2>3. rest = << >>
    BY <2>2
  <2> QED
    BY <2>2, <2>3
<1>3. CASE l # 0
  <2>1. PICK a \in 1 .. k : a = view[1].seq
    <3>1. 1 \in DOMAIN view /\ view[1] \in ReplayEvent
      BY <1>0, <1>a, <1>3
    <3>2. view[1].seq \in Nat /\ view[1].seq + 1 - 1 \in DOMAIN messages
      BY <3>1 DEF ReplayEvent, Stretch
    <3> QED
      BY <1>a, <3>2
  <2>2. \A i \in 1 .. l : view[i].seq = a + i - 1 /\ a + i - 1 \in 1 .. k /\ view[i] = Replay!ToEvent(messages[a + i - 1])
    BY <1>a, <1>1, <2>1 DEF Stretch
  <2>0. target \in Nat /\ a \in Nat
    BY <1>0, <1>a, <2>1
  <2>3. PICK m \in 0 .. l : \A j \in 1 .. l : a + j - 1 < target <=> j <= m
    <3>1. CASE target <= a
      <4>1. 0 \in 0 .. l /\ \A j \in 1 .. l : a + j - 1 < target <=> j <= 0
        BY <2>0, <3>1
      <4> QED
        BY <4>1
    <3>2. CASE a < target /\ target - a <= l
      <4>1. target - a \in 0 .. l /\ \A j \in 1 .. l : a + j - 1 < target <=> j <= target - a
        BY <2>0, <3>2
      <4> QED
        BY <4>1
    <3>3. CASE target - a > l
      <4>1. l \in 0 .. l /\ \A j \in 1 .. l : a + j - 1 < target <=> j <= l
        BY <2>0, <3>3
      <4> QED
        BY <4>1
    <3>4. target <= a \/ (a < target /\ target - a <= l) \/ target - a > l
      BY <1>0, <2>0
    <3> QED
      BY <3>1, <3>2, <3>3, <3>4
  <2>4. m \in Nat /\ m <= l /\ target \in Nat
    BY <1>0, <2>0, <2>3
  <2>5. {j \in DOMAIN view : view[j].seq < target} = 1 .. m
    <3>1. ASSUME NEW j \in 1 .. l PROVE view[j].seq < target <=> j \in 1 .. m
      BY <2>2, <2>3, <2>4, <3>1
    <3>2. 1 .. m \subseteq 1 .. l
      BY <1>0, <2>4
    <3> QED
      BY <1>0, <1>a, <3>1, <3>2
  <2>6. rest = [i \in 1 .. m |-> view[i]]
    BY <2>5 DEF CutShort
  <2>7. \A i \in 1 .. m : i \in 1 .. l /\ view[i] \in ReplayEvent /\ a + i - 1 < target
    <3>1. ASSUME NEW i \in 1 .. m PROVE i \in 1 .. l /\ i <= m
      BY <2>4
    <3> QED
      BY <1>a, <2>3, <3>1
  <2>8. rest \in Seq(ReplayEvent) /\ DOMAIN rest = 1 .. m /\ \A i \in 1 .. m : rest[i] = view[i]
    <3>1. DOMAIN rest = 1 .. m /\ \A i \in 1 .. m : rest[i] = view[i] /\ rest[i] \in ReplayEvent
      BY <2>6, <2>7
    <3>2. rest \in [1 .. m -> ReplayEvent]
      BY <2>6, <3>1
    <3> QED
      BY <2>4, <3>1, <3>2, SeqDef
  <2>9. m # 0 => rest[1] = view[1] /\ rest[1].seq = a
    <3>1. m # 0 => 1 \in 1 .. m
      BY <2>4
    <3> QED
      BY <2>1, <2>8, <3>1
  <2>10. ASSUME NEW i \in DOMAIN rest
         PROVE  StandsAt(rest, i, target)
    <3>1. i \in 1 .. m /\ m # 0
      BY <2>4, <2>8
    <3>2. rest[1].seq + i - 1 = a + i - 1 /\ a + i - 1 < target /\ a + i - 1 \in 1 .. k
      BY <2>2, <2>7, <2>9, <3>1
    <3>3. rest[i] = Replay!ToEvent(messages[a + i - 1])
      BY <2>2, <2>7, <2>8, <3>1
    <3> QED
      BY <2>4, <3>2, <3>3 DEF StandsAt
  <2>11. rest # << >> => m # 0 /\ view # << >>
    <3>1. view = << >> => DOMAIN view = {}
      OBVIOUS
    <3>2. view # << >>
      BY <1>a, <1>3, <3>1
    <3>3. ASSUME m = 0 PROVE rest = << >>
      <4>1. rest \in Seq(ReplayEvent) /\ DOMAIN rest = {}
        BY <2>8, <3>3
      <4> QED
        BY <4>1
    <3> QED
      BY <3>2, <3>3
  <2> QED
    BY <2>8, <2>9, <2>10, <2>11
<1> QED
  BY <1>2, <1>3

LEMMA CutKeeps ==
  ASSUME ReplayInv, NEW target \in DOMAIN messages, Replay!CutTo(target) PROVE ReplayInv'
<1>0. PICK k \in Nat : k = Len(messages) /\ DOMAIN messages = 1 .. k /\ Len(ran) = k
  BY DEF ReplayInv, RowsInv
<1>1. /\ messages' = SubSeq(messages, 1, target - 1) /\ ran' = SubSeq(ran, 1, target - 1)
      /\ live' = {e \in live : e.seq < target} /\ emission' = emission /\ emission.step = "idle"
      /\ reading' = [reading EXCEPT !.view = [i \in {j \in DOMAIN reading.view : reading.view[j].seq < target} |-> reading.view[i]]]
  BY DEF Replay!CutTo
<1>2. target \in 1 .. k /\ target - 1 \in Nat
  BY <1>0
<1>3. /\ messages' \in Seq(ReplayRow) /\ Len(messages') = target - 1 /\ DOMAIN messages' = 1 .. target - 1
      /\ \A i \in 1 .. target - 1 : i \in 1 .. k /\ messages'[i] = messages[i]
  BY <1>0, <1>1, <1>2 DEF ReplayInv, RowsInv
<1>4. /\ ran' \in Seq(Seq(Replay!ToolCall)) /\ Len(ran') = target - 1
      /\ \A i \in 1 .. target - 1 : ran'[i] = ran[i]
  BY <1>0, <1>1, <1>2 DEF ReplayInv, RowsInv
<1>5. RowsInv'
  BY <1>0, <1>3, <1>4 DEF ReplayInv, RowsInv
<1>6. EmissionInv'
  BY <1>1 DEF ReplayInv, EmissionInv
<1>7. LiveInv'
  <2>1. \A e \in live' : e \in live /\ e.seq \in 1 .. k /\ e.seq < target
    BY <1>0, <1>1 DEF ReplayInv, LiveInv
  <2>2. \A e \in live' : e.seq \in DOMAIN messages' /\ Tells(e, messages'[e.seq])
    <3>1. TAKE e \in live'
    <3>2. e.seq \in 1 .. target - 1
      BY <1>2, <2>1
    <3> QED
      BY <1>3, <2>1, <3>2 DEF ReplayInv, LiveInv
  <2>3. ASSUME NEW i \in DOMAIN messages', messages'[i].kind = "message" PROVE \E e \in live' : e.seq = i
    <3>1. i \in DOMAIN messages /\ messages[i].kind = "message" /\ i < target
      BY <1>0, <1>2, <1>3, <2>3
    <3>2. PICK e \in live : e.seq = i
      BY <1>1, <3>1 DEF ReplayInv, LiveInv
    <3> QED
      BY <1>1, <3>1, <3>2
  <2>4. live' \subseteq ReplayEvent /\ \A d, e \in live' : d.seq = e.seq => d = e
    BY <2>1 DEF ReplayInv, LiveInv
  <2> QED
    BY <1>1, <2>2, <2>3, <2>4 DEF LiveInv
<1>8. PICK view \in Seq(ReplayEvent) : view = reading.view /\ Stretch(view)
  BY DEF ReplayInv, PageInv, Replay!PagesReplay, Stretch
<1>9. PICK rest : rest = CutShort(view, target)
  OBVIOUS
<1>10. /\ rest \in Seq(ReplayEvent)
       /\ rest # << >> => view # << >> /\ rest[1] = view[1]
       /\ \A i \in DOMAIN rest : StandsAt(rest, i, target)
  <2>1. RowsInv
    BY DEF ReplayInv
  <2> QED
    BY <1>8, <1>9, <2>1, Shortened
<1>11. reading' = [reading EXCEPT !.view = rest]
  BY <1>1, <1>8, <1>9 DEF CutShort
<1>12. reading'.view = rest /\ reading'.more = reading.more /\ reading'.cursor = reading.cursor
       /\ reading' \in [more : BOOLEAN, cursor : Nat, view : Seq(ReplayEvent)]
  BY <1>10, <1>11 DEF ReplayInv, PageInv
<1>13. Replay!PagesReplay'
  BY <1>3, <1>10, <1>12 DEF Replay!PagesReplay, StandsAt
<1>14. PageInv'
  BY <1>8, <1>10, <1>12, <1>13 DEF ReplayInv, PageInv
<1> QED
  BY <1>5, <1>6, <1>7, <1>14 DEF ReplayInv

LEMMA ReplayStart ==
  Replay!Init => ReplayInv
<1> SUFFICES ASSUME Replay!Init PROVE ReplayInv
  OBVIOUS
<1>1. messages = << >> /\ ran = << >> /\ live = {} /\ emission = Replay!Rest({})
      /\ reading = [more |-> FALSE, cursor |-> 0, view |-> << >>]
  BY DEF Replay!Init
<1>2. PICK r \in ReplayPipe : r = Replay!Rest({}) /\ r.step \in {"idle", "run"} /\ Clean(r.kept)
  BY RestFits
<1>3. RowsInv /\ PageInv
  BY <1>1 DEF RowsInv, PageInv, Replay!PagesReplay
<1>4. EmissionInv
  BY <1>1, <1>2 DEF EmissionInv
<1>5. LiveInv
  BY <1>1, <1>2 DEF LiveInv
<1> QED
  BY <1>3, <1>4, <1>5 DEF ReplayInv

LEMMA SaidListed ==
  ASSUME NEW spoken \in Replay!Said PROVE spoken \in SaidTexts
BY DEF Replay!Said, Replay!Empty, SaidTexts

LEMMA ReplayStep ==
  ASSUME ReplayLimits PROVE ReplayInv /\ [Replay!Next]_Replay!vars => ReplayInv'
<1> SUFFICES ASSUME ReplayInv, [Replay!Next]_Replay!vars PROVE ReplayInv'
  OBVIOUS
<1>1. CASE UNCHANGED Replay!vars
  BY <1>1 DEF Replay!vars, ReplayInv, RowsInv, EmissionInv, LiveInv, PageInv, Replay!PagesReplay
<1>2. ASSUME NEW text \in {Replay!Empty, "t"}, NEW imgs \in {<< >>, <<"url">>, <<"large", "broken">>},
             Replay!User(text, imgs)
      PROVE  ReplayInv'
  BY <1>2, UserKeeps DEF Replay!Empty
<1>3. ASSUME NEW spoken \in Replay!Said, NEW cs \in Replay!CallLists,
             Replay!Reply(spoken, cs) \/ \E nameless \in BOOLEAN : Replay!Interrupted(spoken, cs, nameless)
      PROVE  ReplayInv'
  <2>1. spoken \in SaidTexts /\ cs \in Seq(Replay!ToolCall)
    BY SaidListed, CallListed
  <2> QED
    BY <1>3, <2>1, ReplyKeeps, InterruptedKeeps
<1>4. ASSUME NEW c \in emission.due, Replay!Result(c, "t") PROVE ReplayInv'
  BY <1>4, ResultKeeps
<1>5. ASSUME NEW reason \in {"auto", "manual"}, Replay!Compress(reason, Replay!None) PROVE ReplayInv'
  BY <1>5, CompressKeeps DEF Replay!None
<1>6. ASSUME NEW target \in DOMAIN messages, Replay!CutTo(target) PROVE ReplayInv'
  BY <1>6, CutKeeps
<1> QED
  BY <1>1, <1>2, <1>3, <1>4, <1>5, <1>6, PassKeeps, EffectiveKeeps, SaveKeeps, SaveFailsKeeps, DeliverKeeps,
     ReadKeeps DEF Replay!Next

LEMMA ReplayGives ==
  ReplayInv => Replay!ReplayIsLive /\ Replay!PagesReplay /\ Replay!StoredIsExecuted
<1> SUFFICES ASSUME ReplayInv PROVE Replay!ReplayIsLive /\ Replay!PagesReplay /\ Replay!StoredIsExecuted
  OBVIOUS
<1>1. Replay!PagesReplay
  BY DEF ReplayInv, PageInv
<1>2. Replay!StoredIsExecuted
  BY DEF ReplayInv, RowsInv, AsRun, Replay!StoredIsExecuted
<1>3. ASSUME emission.step \notin {"save", "deliver"}
      PROVE  /\ {Replay!Shown(e) : e \in Replay!Told}
                  = {Replay!Shown(Replay!ToEvent(messages[i])) : i \in Replay!Kinds("message")}
             /\ \A e \in live \ Replay!Told :
                  /\ e.seq \in Replay!Kinds("compaction")
                  /\ e = [Replay!ToEvent(messages[e.seq]) EXCEPT !.text = e.text]
  <2>1. ASSUME NEW e \in Replay!Told
        PROVE  e.seq \in Replay!Kinds("message")
               /\ Replay!Shown(e) = Replay!Shown(Replay!ToEvent(messages[e.seq]))
    BY <2>1 DEF ReplayInv, LiveInv, Tells, Replay!Told, Replay!Kinds
  <2>2. ASSUME NEW i \in Replay!Kinds("message")
        PROVE  \E e \in Replay!Told : Replay!Shown(e) = Replay!Shown(Replay!ToEvent(messages[i]))
    <3>1. i \in DOMAIN messages /\ messages[i].kind = "message"
      BY DEF Replay!Kinds
    <3>2. PICK e \in live : e.seq = i
      BY <1>3, <3>1 DEF ReplayInv, LiveInv
    <3>3. Tells(e, messages[i])
      BY <3>2 DEF ReplayInv, LiveInv
    <3> QED
      BY <3>1, <3>2, <3>3 DEF Tells, Replay!Told
  <2>3. ASSUME NEW e \in live \ Replay!Told
        PROVE  /\ e.seq \in Replay!Kinds("compaction")
               /\ e = [Replay!ToEvent(messages[e.seq]) EXCEPT !.text = e.text]
    BY <2>3 DEF ReplayInv, LiveInv, Tells, Replay!Told, Replay!Kinds
  <2> QED
    BY <2>1, <2>2, <2>3
<1>4. \A d, e \in live : d.seq = e.seq => d = e
  BY DEF ReplayInv, LiveInv
<1> QED
  BY <1>1, <1>2, <1>3, <1>4 DEF Replay!ReplayIsLive

(***************************************************************************)
(* The list of sessions: no session a client has yet to see moves up to    *)
(* where the client has been, unless something before it goes.             *)
(***************************************************************************)
ListLimits == Ticks \in Nat \ {0} /\ ListSize \in Nat
SessionRow ==
  [active : Nat, used : Nat, parent : Nat, workspace : Workspace \union {"nowhere"}, gone : BOOLEAN]
\* Whatever wrote the time of a session, it wrote the second of its last use.
MainInv ==
  /\ main \in Seq(SessionRow) /\ clocks \in [now : Nat, uses : Nat]
  /\ \A r \in DOMAIN main : Lists!Whole(main[r].active) = Lists!Whole(main[r].used)
Ahead(r, filter) == {q \in Lists!Listed(filter) : Lists!Before(q, r)}
Unseen(filter, offset) ==
  \A r \in pager.calm \ pager.shown : Lists!Rank(r, filter) > offset + ListSize
PagerInv ==
  /\ pager \in [step : {"none", "count", "more", "done"}, filter : Workspace \union {"any"}, offset : Nat,
                shown : SUBSET Nat, calm : SUBSET Nat, moved : BOOLEAN]
  /\ pager.calm \subseteq Lists!Listed(pager.filter)
  /\ pager.step = "none" => pager.calm = {} /\ pager.shown = {} /\ ~pager.moved
  /\ pager.step \in {"count", "more"} /\ ~pager.moved => Unseen(pager.filter, pager.offset)
  /\ pager.step = "done" /\ ~pager.moved => pager.calm \subseteq pager.shown
ListInv == MainInv /\ PagerInv

\* A time to the second is a multiple of a second, and the order of two times is theirs.
LEMMA WholeIs ==
  ASSUME ListLimits, NEW t \in Nat
  PROVE  \E q \in Nat, s \in 0..(Ticks - 1), w \in Nat :
           t = q * Ticks + s /\ t % Ticks = s /\ w = q * Ticks /\ Lists!Whole(t) = w
<1>1. PICK n \in Nat \ {0} : n = Ticks
  BY DEF ListLimits
<1>2. t \div n \in Nat /\ t % n \in 0..(n - 1) /\ t = (t \div n) * n + (t % n)
  BY <1>1, Division
<1>3. PICK q \in Nat, s \in 0..(n - 1) : t = q * n + s /\ t % n = s
  BY <1>2
<1>4. PICK w \in Nat : w = q * n
  BY <1>3
<1>5. Lists!Whole(t) = w
  BY <1>1, <1>3, <1>4 DEF Lists!Whole
<1> QED
  BY <1>1, <1>3, <1>4, <1>5

LEMMA WholeSeconds ==
  ASSUME ListLimits, NEW t \in Nat
  PROVE  Lists!Whole(t) \in Nat /\ Lists!Whole(Lists!Whole(t)) = Lists!Whole(t)
<1>0. Ticks \in Nat \ {0}
  BY DEF ListLimits
<1>1. PICK q \in Nat, w \in Nat : w = q * Ticks /\ Lists!Whole(t) = w
  BY WholeIs
<1>2. PICK p \in Nat, s \in 0..(Ticks - 1), v \in Nat :
        w = p * Ticks + s /\ w % Ticks = s /\ v = p * Ticks /\ Lists!Whole(w) = v
  BY WholeIs
<1>3. 0 \in 0..(Ticks - 1) /\ q * Ticks + 0 = p * Ticks + s
  BY <1>0, <1>1, <1>2
<1>4. 0 = s
  BY <1>0, <1>3, OneRemainder
<1>5. v = w
  BY <1>2, <1>4
<1> QED
  BY <1>1, <1>2, <1>5

LEMMA LaterSecond ==
  ASSUME ListLimits, NEW a \in Nat, NEW b \in Nat, Lists!Whole(a) > Lists!Whole(b) PROVE a > b
<1>0. PICK n \in Nat \ {0} : n = Ticks
  BY DEF ListLimits
<1>1. PICK p \in Nat, s \in 0..(n - 1), x \in Nat : a = p * n + s /\ x = p * n /\ Lists!Whole(a) = x
  BY <1>0, WholeIs
<1>2. PICK q \in Nat, u \in 0..(n - 1), y \in Nat : b = q * n + u /\ y = q * n /\ Lists!Whole(b) = y
  BY <1>0, WholeIs
<1>3. x > y /\ a = x + s /\ b = y + u
  BY <1>1, <1>2
<1>4. q < p
  <2>1. CASE p < q
    <3>1. p * n + n <= q * n
      BY <2>1, Multiples
    <3>2. x + n <= y
      BY <1>1, <1>2, <3>1
    <3> QED
      BY <1>3, <3>2
  <2>2. CASE p = q
    BY <1>1, <1>2, <1>3, <2>2
  <2> QED
    BY <2>1, <2>2
<1>5. q * n + n <= p * n
  BY <1>4, Multiples
<1>6. y + n <= x
  BY <1>1, <1>2, <1>5
<1> QED
  BY <1>3, <1>6

LEMMA ListsCardinality == \A S : Lists!Cardinality(S) = Cardinality(S)
BY DEF Lists!Cardinality, Cardinality

LEMMA UpToFinite ==
  ASSUME NEW l \in Nat, NEW T \in SUBSET (1 .. l) PROVE IsFiniteSet(T) /\ Cardinality(T) \in Nat
<1>1. IsFiniteSet(1 .. l)
  BY FS_Interval
<1> QED
  BY <1>1, FS_Subset, FS_CardinalityType

LEMMA ListsFinite ==
  ASSUME MainInv, NEW filter, NEW S \in SUBSET Lists!Listed(filter)
  PROVE  IsFiniteSet(S) /\ Cardinality(S) \in Nat /\ Cardinality(S) <= Lists!Total(filter)
         /\ Lists!Total(filter) \in Nat
<1>1. PICK n \in Nat : n = Len(main)
  BY DEF MainInv
<1>2. Lists!Listed(filter) \subseteq 1 .. n /\ IsFiniteSet(1 .. n)
  BY <1>1, FS_Interval DEF Lists!Listed, Lists!Present, Lists!Rowids
<1>3. IsFiniteSet(Lists!Listed(filter))
  BY <1>2, FS_Subset
<1>4. IsFiniteSet(S) /\ Cardinality(S) <= Cardinality(Lists!Listed(filter))
  BY <1>3, FS_Subset
<1> QED
  BY <1>3, <1>4, FS_CardinalityType, ListsCardinality DEF Lists!Total

LEMMA RankIs ==
  ASSUME MainInv, NEW filter, NEW r
  PROVE  Lists!Rank(r, filter) = Cardinality(Ahead(r, filter)) + 1 /\ Lists!Rank(r, filter) \in Nat
         /\ IsFiniteSet(Ahead(r, filter))
<1>1. Ahead(r, filter) \subseteq Lists!Listed(filter)
  BY DEF Ahead
<1> QED
  BY <1>1, ListsFinite, ListsCardinality DEF Lists!Rank, Ahead

\* The list is as long as the place of its last session.
LEMMA RankWithin ==
  ASSUME MainInv, NEW filter, NEW r \in Lists!Listed(filter) PROVE Lists!Rank(r, filter) <= Lists!Total(filter)
<1>1. Ahead(r, filter) \cup {r} \subseteq Lists!Listed(filter) /\ r \notin Ahead(r, filter)
  <2>1. r \in DOMAIN main /\ r \in Nat
    BY DEF MainInv, Lists!Listed, Lists!Present, Lists!Rowids
  <2>2. main[r] \in SessionRow
    BY <2>1 DEF MainInv
  <2>3. main[r].active \in Nat
    BY <2>2 DEF SessionRow
  <2> QED
    BY <2>1, <2>3 DEF Ahead, Lists!Before
<1>2. IsFiniteSet(Ahead(r, filter))
  BY RankIs
<1>3. Cardinality(Ahead(r, filter) \cup {r}) = Cardinality(Ahead(r, filter)) + 1
  BY <1>1, <1>2, FS_AddElement
<1>4. Cardinality(Ahead(r, filter) \cup {r}) <= Lists!Total(filter)
  BY <1>1, ListsFinite
<1> QED
  BY <1>3, <1>4, RankIs

LEMMA RankGrows ==
  ASSUME MainInv, MainInv', NEW filter, NEW r, Ahead(r, filter) \subseteq Ahead(r, filter)'
  PROVE  Lists!Rank(r, filter) <= Lists!Rank(r, filter)'
<1>1. PICK S, m : S = Ahead(r, filter) /\ m = Lists!Rank(r, filter)
  OBVIOUS
<1>2. PICK T, n : T = Ahead(r, filter)' /\ n = Lists!Rank(r, filter)'
  OBVIOUS
<1>3. m = Cardinality(S) + 1 /\ IsFiniteSet(S)
  BY <1>1, RankIs
<1>4. n = Cardinality(T) + 1 /\ IsFiniteSet(T)
  <2>1. n = Cardinality(T) + 1
    BY <1>2, ListsCardinality DEF Lists!Rank, Ahead
  <2>2. PICK l \in Nat : l = Len(main')
    BY DEF MainInv
  <2>3. T \subseteq 1 .. l
    BY <1>2, <2>2 DEF Ahead, Lists!Listed, Lists!Present, Lists!Rowids
  <2> QED
    BY <2>1, <2>3, UpToFinite
<1>5. S \subseteq T
  BY <1>1, <1>2
<1>6. Cardinality(S) <= Cardinality(T) /\ Cardinality(S) \in Nat /\ Cardinality(T) \in Nat
  BY <1>3, <1>4, <1>5, FS_Subset, FS_CardinalityType
<1> QED
  BY <1>1, <1>2, <1>3, <1>4, <1>6


\* What a change leaves as it is of what a client has read: everything that was there and was
\* left alone is listed, with no less before it.
LEMMA ClientKeeps ==
  ASSUME MainInv, MainInv', PagerInv, ListLimits,
         pager'.step = pager.step, pager'.filter = pager.filter, pager'.offset = pager.offset,
         pager'.shown = pager.shown, pager'.calm \subseteq pager.calm, pager'.moved \in BOOLEAN,
         pager.moved => pager'.moved, pager.step = "none" => ~pager'.moved,
         DOMAIN pager' = DOMAIN pager,
         pager' \in [step : {"none", "count", "more", "done"}, filter : Workspace \union {"any"}, offset : Nat,
                     shown : SUBSET Nat, calm : SUBSET Nat, moved : BOOLEAN],
         NEW filter, filter = pager.filter,
         \A r \in pager'.calm : r \in Lists!Listed(filter)',
         ~pager'.moved => \A r \in pager'.calm : Ahead(r, filter) \subseteq Ahead(r, filter)'
  PROVE  PagerInv'
<1>1. PICK offset \in Nat : offset = pager.offset
  BY DEF PagerInv
<1>2. ASSUME pager.step \in {"count", "more"}, ~pager'.moved, NEW r \in pager'.calm \ pager'.shown
      PROVE  Lists!Rank(r, filter)' > offset + ListSize
  <2>1. PICK m \in Nat : m = Lists!Rank(r, filter) /\ m > offset + ListSize
    <3>1. r \in pager.calm \ pager.shown /\ ~pager.moved
      BY <1>2
    <3>2. Lists!Rank(r, filter) > offset + ListSize
      BY <1>1, <1>2, <3>1 DEF PagerInv, Unseen
    <3> QED
      BY <3>2, RankIs
  <2>2. PICK n \in Nat : n = Lists!Rank(r, filter)'
    <3>1. PICK T : T = Ahead(r, filter)'
      OBVIOUS
    <3>2. PICK l \in Nat : l = Len(main')
      BY DEF MainInv
    <3>3. T \subseteq 1 .. l
      BY <3>1, <3>2 DEF Ahead, Lists!Listed, Lists!Present, Lists!Rowids
    <3>4. Cardinality(T) \in Nat
      BY <3>3, UpToFinite
    <3>5. Lists!Rank(r, filter)' = Cardinality(T) + 1
      BY <3>1, ListsCardinality DEF Lists!Rank, Ahead
    <3> QED
      BY <3>4, <3>5
  <2>3. m <= n
    BY <1>2, <2>1, <2>2, RankGrows
  <2> QED
    BY <1>1, <2>1, <2>2, <2>3 DEF ListLimits
<1>3. pager'.step \in {"count", "more"} /\ ~pager'.moved => Unseen(filter, offset)'
  BY <1>2 DEF Unseen
<1>4. Unseen(pager.filter, pager.offset)' <=> Unseen(filter, offset)'
  BY <1>1 DEF Unseen
<1>5. pager'.calm \subseteq Lists!Listed(pager.filter)'
  BY DEF Lists!Listed
<1>6. pager'.step = "none" => pager'.calm = {} /\ pager'.shown = {} /\ ~pager'.moved
  BY DEF PagerInv
<1>7. pager'.step = "done" /\ ~pager'.moved => pager'.calm \subseteq pager'.shown
  BY DEF PagerInv
<1> QED
  BY <1>3, <1>4, <1>5, <1>6, <1>7 DEF PagerInv

\* A session more comes before or after the others and takes nobody's place.
LEMMA AddedKeeps ==
  ASSUME ListLimits, ListInv, NEW active \in Nat, NEW parent \in Nat, NEW workspace \in Workspace \union {"nowhere"},
         Lists!Whole(active) = Lists!Whole(clocks.now), Lists!Added(active, parent, workspace)
  PROVE  ListInv'
<1>1. PICK row \in SessionRow : /\ main' = Append(main, row) /\ row.active = active /\ row.used = clocks.now
  <2>1. clocks.now \in Nat
    BY DEF ListInv, MainInv
  <2>2. PICK row : row = [active |-> active, used |-> clocks.now, parent |-> parent,
                           workspace |-> workspace, gone |-> FALSE]
    OBVIOUS
  <2>3. row \in SessionRow /\ row.active = active /\ row.used = clocks.now
    BY <2>1, <2>2 DEF SessionRow
  <2> QED
    BY <2>2, <2>3 DEF Lists!Added
<1>2. clocks' = clocks /\ pager' = pager
  BY DEF Lists!Added
<1>3. PICK n \in Nat : n = Len(main) /\ DOMAIN main = 1 .. n
  BY DEF ListInv, MainInv
<1>4. /\ main' \in Seq(SessionRow) /\ Len(main') = n + 1 /\ DOMAIN main' = 1 .. n + 1
      /\ \A r \in 1 .. n : r \in 1 .. n + 1 /\ main'[r] = main[r]
      /\ main'[n + 1] = row
  BY <1>1, <1>3 DEF ListInv, MainInv
<1>5. MainInv'
  <2>1. ASSUME NEW r \in DOMAIN main' PROVE Lists!Whole(main'[r].active) = Lists!Whole(main'[r].used)
    <3>1. CASE r \in 1 .. n
      BY <1>3, <1>4, <3>1 DEF ListInv, MainInv
    <3>2. CASE r = n + 1
      BY <1>1, <1>4, <3>2
    <3> QED
      BY <1>4, <3>1, <3>2
  <2>2. \A t : Lists!Whole(t)' = Lists!Whole(t)
    BY DEF Lists!Whole
  <2> QED
    BY <1>2, <1>4, <2>1, <2>2 DEF ListInv, MainInv, Lists!Whole
<1>6. PICK filter : filter = pager.filter
  OBVIOUS
<1>7. ASSUME NEW r \in Lists!Listed(filter)
      PROVE  r \in Lists!Listed(filter)' /\ r \in 1 .. n
  BY <1>3, <1>4 DEF Lists!Listed, Lists!Present, Lists!Rowids
<1>8. ASSUME NEW r \in Lists!Listed(filter) PROVE Ahead(r, filter) \subseteq Ahead(r, filter)'
  <2>1. ASSUME NEW q \in Ahead(r, filter) PROVE q \in Ahead(r, filter)'
    <3>1. q \in Lists!Listed(filter) /\ Lists!Before(q, r)
      BY DEF Ahead
    <3>2. main'[q] = main[q] /\ main'[r] = main[r]
      BY <1>4, <1>7, <3>1
    <3> QED
      BY <1>7, <3>1, <3>2 DEF Ahead, Lists!Before
  <2> QED
    BY <2>1
<1>9. \A r \in pager.calm : r \in Lists!Listed(filter)
  BY <1>6 DEF ListInv, PagerInv
<1>10. PagerInv'
  BY <1>2, <1>5, <1>6, <1>7, <1>8, <1>9, ClientKeeps DEF ListInv, PagerInv
<1> QED
  BY <1>5, <1>10 DEF ListInv

LEMMA CreateKeeps ==
  ASSUME ListLimits, ListInv, NEW parent, NEW workspace \in Workspace \union {"nowhere"},
         Lists!Create(parent, workspace)
  PROVE  ListInv'
<1>1. parent \in Nat /\ clocks.now \in Nat /\ Lists!Added(clocks.now, parent, workspace)
  BY DEF Lists!Create, Lists!Listed, Lists!Present, Lists!Rowids, ListInv, MainInv
<1> QED
  BY <1>1, AddedKeeps

LEMMA RowOf ==
  ASSUME MainInv, NEW r \in Lists!Rowids
  PROVE  main[r] \in SessionRow /\ r \in Nat /\ r \in DOMAIN main /\ main[r].active \in Nat /\ main[r].used \in Nat
         /\ main[r].workspace \in Workspace \union {"nowhere"}
<1>1. r \in DOMAIN main /\ r \in Nat
  BY DEF MainInv, Lists!Rowids
<1>2. main[r] \in SessionRow
  BY <1>1 DEF MainInv
<1> QED
  BY <1>1, <1>2 DEF SessionRow

LEMMA ForksKeep ==
  ASSUME ListLimits, ListInv, NEW r \in Lists!Rowids, NEW parent \in Lists!Rowids,
         Lists!ForkTo(r) \/ Lists!ForkVisible(r, parent)
  PROVE  ListInv'
<1>1. main[r].workspace \in Workspace \union {"nowhere"} /\ parent \in Nat /\ clocks.now \in Nat
  BY RowOf DEF ListInv, MainInv
<1>2. CASE Lists!ForkTo(r)
  <2>1. Lists!Added(Lists!Whole(clocks.now), 0, main[r].workspace)
    BY <1>2 DEF Lists!ForkTo
  <2>2. Lists!Whole(clocks.now) \in Nat /\ Lists!Whole(Lists!Whole(clocks.now)) = Lists!Whole(clocks.now)
    BY <1>1, WholeSeconds
  <2> QED
    BY <1>1, <2>1, <2>2, AddedKeeps
<1>3. CASE Lists!ForkVisible(r, parent)
  BY <1>1, <1>3, AddedKeeps DEF Lists!ForkVisible
<1> QED
  BY <1>2, <1>3

\* A use or a deletion of a session that is listed before another disturbs the client, or
\* leaves it before the other.
LEMMA UseKeeps ==
  ASSUME ListLimits, ListInv, NEW u \in Lists!Rowids, Lists!Use(u) PROVE ListInv'
<1>0. MainInv /\ PagerInv
  BY DEF ListInv
<1>1. PICK now \in Nat, t \in Nat : now = clocks.now /\ t = Lists!Whole(now) /\ Lists!Whole(t) = t
  BY WholeSeconds DEF ListInv, MainInv
<1>2. /\ main' = [main EXCEPT ![u].active = t, ![u].used = now] /\ ~main[u].gone
      /\ clocks' = [clocks EXCEPT !.uses = @ + 1]
      /\ pager' = [pager EXCEPT !.calm = @ \ {u},
                                !.moved = @ \/ (pager.step # "none" /\ t < main[u].active
                                                 /\ u \in Lists!Listed(pager.filter))]
  BY <1>1 DEF Lists!Use, Lists!Counted, Lists!Disturbed, Lists!Present
<1>3. PICK n \in Nat : n = Len(main) /\ DOMAIN main = 1 .. n /\ Lists!Rowids = 1 .. n
  BY <1>0 DEF MainInv, Lists!Rowids
<1>4. /\ main' \in Seq(SessionRow) /\ Len(main') = n /\ DOMAIN main' = 1 .. n
      /\ \A r \in 1 .. n : r # u => main'[r] = main[r]
      /\ main'[u] = [main[u] EXCEPT !.active = t, !.used = now]
      /\ main'[u] \in SessionRow
  <2>1. main[u] \in SessionRow
    BY <1>0, RowOf
  <2>2. [main[u] EXCEPT !.active = t, !.used = now] \in SessionRow
    BY <1>1, <2>1 DEF SessionRow
  <2>3. PICK row \in SessionRow : row = [main[u] EXCEPT !.active = t, !.used = now]
    BY <2>2
  <2>4. main' = [main EXCEPT ![u] = row]
    BY <1>2, <2>3
  <2>5. main' \in Seq(SessionRow) /\ Len(main') = n
    BY <1>0, <1>3, <2>4 DEF MainInv
  <2>6. \A r \in 1 .. n : main'[r] = IF r = u THEN row ELSE main[r]
    BY <1>0, <1>3, <2>4 DEF MainInv
  <2> QED
    BY <1>3, <2>3, <2>5, <2>6
<1>5. main'[u].active = t /\ main'[u].used = now /\ main'[u].parent = main[u].parent
      /\ main'[u].workspace = main[u].workspace /\ main'[u].gone = main[u].gone
  <2>1. main[u] \in SessionRow
    BY <1>0, RowOf
  <2> QED
    BY <1>4, <2>1 DEF SessionRow
<1>6. MainInv'
  <2>1. ASSUME NEW r \in DOMAIN main' PROVE Lists!Whole(main'[r].active) = Lists!Whole(main'[r].used)
    BY <1>0, <1>1, <1>3, <1>4, <1>5, <2>1 DEF MainInv
  <2>2. clocks' \in [now : Nat, uses : Nat]
    BY <1>0, <1>2 DEF MainInv
  <2> QED
    BY <1>4, <2>1, <2>2 DEF MainInv, Lists!Whole
<1>7. PICK filter : filter = pager.filter
  OBVIOUS
<1>8. ASSUME NEW r PROVE r \in Lists!Listed(filter)' <=> r \in Lists!Listed(filter)
  BY <1>3, <1>4, <1>5 DEF Lists!Listed, Lists!Present, Lists!Rowids
<1>9. ASSUME NEW r \in Lists!Listed(filter), r # u, pager.step # "none", ~pager'.moved
      PROVE  Ahead(r, filter) \subseteq Ahead(r, filter)'
  <2>0. r \in Lists!Rowids /\ main'[r] = main[r]
    BY <1>3, <1>4, <1>9 DEF Lists!Listed, Lists!Present
  <2>1. ASSUME NEW q \in Ahead(r, filter) PROVE q \in Ahead(r, filter)'
    <3>1. q \in Lists!Listed(filter) /\ q \in Lists!Rowids /\ Lists!Before(q, r)
      BY DEF Ahead, Lists!Listed, Lists!Present
    <3>2. CASE q # u
      <4>1. main'[q] = main[q]
        BY <1>3, <1>4, <3>1, <3>2
      <4> QED
        BY <1>8, <2>0, <3>1, <4>1 DEF Ahead, Lists!Before
    <3>3. CASE q = u
      <4>1. ~(t < main[u].active)
        BY <1>2, <1>7, <1>9, <3>1, <3>3, <1>0 DEF PagerInv
      <4>2. main[u].active \in Nat /\ main[r].active \in Nat /\ u \in Nat /\ r \in Nat
        BY <1>0, <2>0, RowOf
      <4>3. main'[u].active >= main[u].active
        BY <1>1, <1>5, <4>1, <4>2
      <4> QED
        BY <1>1, <1>5, <1>8, <2>0, <3>1, <3>3, <4>2, <4>3 DEF Ahead, Lists!Before
    <3> QED
      BY <3>2, <3>3
  <2> QED
    BY <2>1
<1>10. /\ pager'.step = pager.step /\ pager'.filter = pager.filter /\ pager'.offset = pager.offset
       /\ pager'.shown = pager.shown /\ pager'.calm = pager.calm \ {u} /\ DOMAIN pager' = DOMAIN pager
       /\ pager' \in [step : {"none", "count", "more", "done"}, filter : Workspace \union {"any"}, offset : Nat,
                       shown : SUBSET Nat, calm : SUBSET Nat, moved : BOOLEAN]
       /\ pager'.moved \in BOOLEAN /\ (pager.moved => pager'.moved)
       /\ (pager.step = "none" => ~pager'.moved)
  BY <1>0, <1>2 DEF PagerInv
<1>11. \A r \in pager'.calm : r \in Lists!Listed(filter) /\ r # u /\ pager.step # "none"
  BY <1>0, <1>7, <1>10 DEF PagerInv
<1>12. PagerInv'
  BY <1>0, <1>6, <1>7, <1>8, <1>9, <1>10, <1>11, ClientKeeps
<1> QED
  BY <1>6, <1>12 DEF ListInv

LEMMA DeleteKeeps ==
  ASSUME ListLimits, ListInv, NEW u \in Lists!Rowids, Lists!Delete(u) PROVE ListInv'
<1>0. MainInv /\ PagerInv
  BY DEF ListInv
<1>2. /\ main' = [q \in Lists!Rowids |-> IF q \in Lists!Group(u) THEN [main[q] EXCEPT !.gone = TRUE] ELSE main[q]]
      /\ ~main[u].gone /\ clocks' = [clocks EXCEPT !.uses = @ + 1]
      /\ pager' = [pager EXCEPT !.calm = @ \ {u},
                                !.moved = @ \/ (pager.step # "none" /\ u \in Lists!Listed(pager.filter))]
  BY DEF Lists!Delete, Lists!Counted, Lists!Disturbed, Lists!Present
<1>3. PICK n \in Nat : n = Len(main) /\ DOMAIN main = 1 .. n /\ Lists!Rowids = 1 .. n
  BY <1>0 DEF MainInv, Lists!Rowids
<1>4. ASSUME NEW r \in 1 .. n
      PROVE  /\ main'[r] \in SessionRow
             /\ main'[r].active = main[r].active /\ main'[r].used = main[r].used
             /\ r \notin Lists!Group(u) => main'[r] = main[r]
  <2>1. main[r] \in SessionRow
    BY <1>0, <1>3, RowOf
  <2>2. main'[r] = IF r \in Lists!Group(u) THEN [main[r] EXCEPT !.gone = TRUE] ELSE main[r]
    BY <1>2, <1>3
  <2> QED
    BY <2>1, <2>2 DEF SessionRow
<1>5. main' \in Seq(SessionRow) /\ Len(main') = n /\ DOMAIN main' = 1 .. n
  <2>1. main' \in [1 .. n -> SessionRow]
    <3>1. PICK f : f = main' /\ DOMAIN f = 1 .. n
      BY <1>2, <1>3
    <3>2. f = [q \in 1 .. n |-> f[q]]
      BY <1>2, <1>3, <3>1
    <3>3. \A q \in 1 .. n : f[q] \in SessionRow
      BY <1>4, <3>1
    <3> QED
      BY <3>1, <3>2, <3>3
  <2> QED
    BY <2>1, SeqDef
<1>6. MainInv'
  <2>1. ASSUME NEW r \in DOMAIN main' PROVE Lists!Whole(main'[r].active) = Lists!Whole(main'[r].used)
    BY <1>0, <1>3, <1>4, <1>5, <2>1 DEF MainInv
  <2>2. clocks' \in [now : Nat, uses : Nat]
    BY <1>0, <1>2 DEF MainInv
  <2> QED
    BY <1>5, <2>1, <2>2 DEF MainInv, Lists!Whole
<1>7. PICK filter : filter = pager.filter
  OBVIOUS
\* the main sessions stay but for one
<1>8. ASSUME NEW r \in Lists!Listed(filter), r # u PROVE r \in Lists!Listed(filter)' /\ main'[r] = main[r]
  <2>1. r \in 1 .. n /\ main[r].parent = 0
    BY <1>3 DEF Lists!Listed, Lists!Present
  <2>2. u # 0
    BY <1>3
  <2>3. r \notin Lists!Group(u)
    BY <1>8, <2>1, <2>2 DEF Lists!Group
  <2>4. main'[r] = main[r]
    BY <1>4, <2>1, <2>3
  <2> QED
    BY <1>5, <2>1, <2>4 DEF Lists!Listed, Lists!Present, Lists!Rowids
<1>9. ASSUME NEW r \in Lists!Listed(filter), r # u, pager.step # "none", ~pager'.moved
      PROVE  Ahead(r, filter) \subseteq Ahead(r, filter)'
  <2>1. ASSUME NEW q \in Ahead(r, filter) PROVE q \in Ahead(r, filter)'
    <3>1. q \in Lists!Listed(filter) /\ Lists!Before(q, r)
      BY DEF Ahead
    <3>2. q # u
      BY <1>0, <1>2, <1>7, <1>9, <3>1 DEF PagerInv
    <3> QED
      BY <1>8, <1>9, <3>1, <3>2 DEF Ahead, Lists!Before
  <2> QED
    BY <2>1
<1>10. /\ pager'.step = pager.step /\ pager'.filter = pager.filter /\ pager'.offset = pager.offset
       /\ pager'.shown = pager.shown /\ pager'.calm = pager.calm \ {u} /\ DOMAIN pager' = DOMAIN pager
       /\ pager' \in [step : {"none", "count", "more", "done"}, filter : Workspace \union {"any"}, offset : Nat,
                       shown : SUBSET Nat, calm : SUBSET Nat, moved : BOOLEAN]
       /\ pager'.moved \in BOOLEAN /\ (pager.moved => pager'.moved)
       /\ (pager.step = "none" => ~pager'.moved)
  BY <1>0, <1>2 DEF PagerInv
<1>11. \A r \in pager'.calm : r \in Lists!Listed(filter) /\ r # u /\ pager.step # "none"
  BY <1>0, <1>7, <1>10 DEF PagerInv
<1>12. PagerInv'
  BY <1>0, <1>6, <1>7, <1>8, <1>9, <1>10, <1>11, ClientKeeps
<1> QED
  BY <1>6, <1>12 DEF ListInv

\* A page shows all that is listed up to its end.
LEMMA PageKeeps ==
  ASSUME ListLimits, ListInv, NEW filter \in Workspace \union {"any"}, Lists!FirstPage(filter) \/ Lists!NextPage
  PROVE  ListInv'
<1>0. MainInv /\ PagerInv
  BY DEF ListInv
<1>1. PICK f \in Workspace \union {"any"}, offset \in Nat, calm \in SUBSET Nat :
        /\ pager' = [pager EXCEPT !.step = "count", !.filter = f, !.offset = offset,
                                  !.shown = @ \union Lists!PageAt(offset, f), !.calm = calm]
        /\ calm \subseteq Lists!Listed(f)
        /\ ~pager.moved => \A r \in calm \ pager.shown : Lists!Rank(r, f) > offset
  <2>1. CASE Lists!FirstPage(filter)
    <3>1. PICK calm : calm = Lists!Listed(filter)
      OBVIOUS
    <3>2. calm \in SUBSET Nat
      BY <1>0, <3>1 DEF MainInv, Lists!Listed, Lists!Present, Lists!Rowids
    <3>3. pager' = [pager EXCEPT !.step = "count", !.filter = filter, !.offset = 0,
                                 !.shown = @ \union Lists!PageAt(0, filter), !.calm = calm]
      BY <2>1, <3>1 DEF Lists!FirstPage, Lists!ListItems
    <3>4. \A r \in calm : Lists!Rank(r, filter) > 0
      <4>1. \A r \in calm : Cardinality(Ahead(r, filter)) \in Nat
        BY <1>0, RankIs, FS_CardinalityType
      <4> QED
        BY <1>0, <4>1, RankIs
    <3> QED
      BY <3>1, <3>2, <3>3, <3>4
  <2>2. CASE Lists!NextPage
    <3>1. PICK f \in Workspace \union {"any"}, o \in Nat, calm \in SUBSET Nat :
            f = pager.filter /\ o = pager.offset /\ calm = pager.calm /\ calm \subseteq Lists!Listed(f)
            /\ (~pager.moved => Unseen(f, o)) /\ pager.step = "more"
      BY <1>0, <2>2 DEF Lists!NextPage, PagerInv
    <3>2. PICK offset \in Nat : offset = o + ListSize
      BY <3>1 DEF ListLimits
    <3>3. pager' = [pager EXCEPT !.step = "count", !.filter = f, !.offset = offset,
                                 !.shown = @ \union Lists!PageAt(offset, f), !.calm = calm]
      BY <2>2, <3>1, <3>2 DEF Lists!NextPage, Lists!ListItems
    <3>4. ~pager.moved => \A r \in calm \ pager.shown : Lists!Rank(r, f) > offset
      BY <3>1, <3>2 DEF Unseen
    <3> QED
      BY <3>1, <3>3, <3>4
  <2> QED
    BY <2>1, <2>2
<1>2. main' = main /\ clocks' = clocks
  BY DEF Lists!FirstPage, Lists!NextPage, Lists!ListItems
<1>3. MainInv'
  BY <1>0, <1>2 DEF MainInv, Lists!Whole
<1>4. PICK viewed : viewed = Lists!PageAt(offset, f)
  OBVIOUS
<1>5. viewed \in SUBSET Nat
  BY <1>0, <1>4 DEF Lists!PageAt, MainInv, Lists!Listed, Lists!Present, Lists!Rowids
<1>6. /\ pager'.step = "count" /\ pager'.filter = f /\ pager'.offset = offset /\ pager'.calm = calm
      /\ pager'.shown = pager.shown \union viewed /\ pager'.moved = pager.moved
      /\ pager' \in [step : {"none", "count", "more", "done"}, filter : Workspace \union {"any"}, offset : Nat,
                      shown : SUBSET Nat, calm : SUBSET Nat, moved : BOOLEAN]
  BY <1>0, <1>1, <1>4, <1>5 DEF PagerInv
<1>7. ASSUME ~pager.moved, NEW r \in calm \ pager'.shown PROVE Lists!Rank(r, f) > offset + ListSize
  <2>1. PICK m \in Nat : m = Lists!Rank(r, f) /\ m > offset
    <3>1. r \in calm \ pager.shown
      BY <1>6
    <3> QED
      BY <1>0, <1>1, <1>7, <3>1, RankIs
  <2>2. ~(m \in offset + 1 .. offset + ListSize)
    BY <1>1, <1>4, <1>6, <2>1 DEF Lists!PageAt
  <2> QED
    BY <2>1, <2>2 DEF ListLimits
<1>8. \A r : Lists!Rank(r, f)' = Lists!Rank(r, f)
  BY <1>2 DEF Lists!Rank, Lists!Listed, Lists!Present, Lists!Rowids, Lists!Before
<1>9. ~pager'.moved => Unseen(pager.filter, pager.offset)'
  BY <1>6, <1>7, <1>8 DEF Unseen
<1>10. pager'.calm \subseteq Lists!Listed(pager.filter)'
  BY <1>1, <1>2, <1>6 DEF Lists!Listed, Lists!Present, Lists!Rowids
<1>11. PagerInv'
  BY <1>6, <1>9, <1>10 DEF PagerInv
<1> QED
  BY <1>3, <1>11 DEF ListInv

LEMMA CountKeeps ==
  ASSUME ListLimits, ListInv, Lists!CountAll PROVE ListInv'
<1>0. MainInv /\ PagerInv
  BY DEF ListInv
<1>d. PICK f, offset, onview, calm :
        f = pager.filter /\ offset = pager.offset /\ onview = pager.shown /\ calm = pager.calm
  OBVIOUS
<1>a. /\ f = pager.filter /\ offset = pager.offset /\ onview = pager.shown /\ calm = pager.calm
      /\ offset \in Nat
  BY <1>0, <1>d DEF PagerInv
<1>b. PICK total \in Nat : total = Lists!Total(f)
  <2>1. {} \subseteq Lists!Listed(f)
    OBVIOUS
  <2> QED
    BY <1>0, <2>1, ListsFinite
<1>c. \A r \in Lists!Listed(f) : Lists!Rank(r, f) <= total /\ Lists!Rank(r, f) \in Nat
  BY <1>0, <1>b, RankWithin, RankIs
<1>2. PICK step : step = IF offset + ListSize < total THEN "more" ELSE "done"
  OBVIOUS
<1>3. main' = main /\ clocks' = clocks /\ pager.step = "count" /\ pager' = [pager EXCEPT !.step = step]
  BY <1>a, <1>b, <1>c, <1>2 DEF Lists!CountAll
<1>4. MainInv'
  BY <1>0, <1>3 DEF MainInv, Lists!Whole
<1>5. /\ pager'.step = step /\ pager'.filter = f /\ pager'.offset = offset /\ pager'.calm = calm
      /\ pager'.shown = onview /\ pager'.moved = pager.moved
      /\ pager' \in [step : {"none", "count", "more", "done"}, filter : Workspace \union {"any"}, offset : Nat,
                      shown : SUBSET Nat, calm : SUBSET Nat, moved : BOOLEAN]
  BY <1>0, <1>a, <1>b, <1>c, <1>2, <1>3 DEF PagerInv
<1>6. calm \subseteq Lists!Listed(f) /\ (~pager.moved => \A r \in calm \ onview : Lists!Rank(r, f) > offset + ListSize)
  BY <1>0, <1>a, <1>b, <1>c, <1>3 DEF PagerInv, Unseen
<1>7. step = "done" /\ ~pager.moved => calm \subseteq onview
  <2>1. ASSUME step = "done", ~pager.moved, NEW r \in calm \ onview PROVE FALSE
    <3>1. PICK m \in Nat : m = Lists!Rank(r, f) /\ m <= total /\ m > offset + ListSize
      BY <1>a, <1>b, <1>c, <1>6, <2>1
    <3>2. ~(offset + ListSize < total)
      BY <1>2, <2>1
    <3> QED
      BY <1>a, <1>b, <3>1, <3>2 DEF ListLimits
  <2> QED
    BY <2>1
<1>8. \A r : Lists!Rank(r, f)' = Lists!Rank(r, f)
  BY <1>3 DEF Lists!Rank, Lists!Listed, Lists!Present, Lists!Rowids, Lists!Before
<1>9. ~pager'.moved => Unseen(pager.filter, pager.offset)'
  BY <1>5, <1>6, <1>8 DEF Unseen
<1>10. pager'.calm \subseteq Lists!Listed(pager.filter)'
  BY <1>3, <1>5, <1>6 DEF Lists!Listed, Lists!Present, Lists!Rowids
<1>11. step # "none"
  BY <1>2
<1>12. PagerInv'
  BY <1>5, <1>7, <1>9, <1>10, <1>11 DEF PagerInv
<1> QED
  BY <1>4, <1>12 DEF ListInv

LEMMA ListStart == Lists!Init => ListInv
BY DEF Lists!Init, Lists!NoPager, Lists!Any, Lists!Listed, ListInv, MainInv, PagerInv

LEMMA ListStep ==
  ASSUME ListLimits PROVE ListInv /\ [Lists!Next]_Lists!vars => ListInv'
<1> SUFFICES ASSUME ListInv, [Lists!Next]_Lists!vars PROVE ListInv'
  OBVIOUS
<1>1. ASSUME main' = main, clocks' \in [now : Nat, uses : Nat], pager' = pager PROVE ListInv'
  BY <1>1 DEF ListInv, MainInv, PagerInv, Unseen, Lists!Whole, Lists!Rank, Lists!Listed, Lists!Present,
       Lists!Rowids, Lists!Before
<1>2. CASE UNCHANGED Lists!vars
  BY <1>1, <1>2 DEF Lists!vars, ListInv, MainInv
<1>3. CASE Lists!Tick
  BY <1>1, <1>3 DEF Lists!Tick, ListInv, MainInv
<1>4. CASE Lists!Close
  <2>1. main' = main /\ clocks' = clocks /\ pager' = Lists!NoPager
    BY <1>4 DEF Lists!Close
  <2>2. MainInv'
    BY <2>1 DEF ListInv, MainInv, Lists!Whole
  <2>3. PagerInv'
    BY <2>1 DEF Lists!NoPager, Lists!Any, PagerInv
  <2> QED
    BY <2>2, <2>3 DEF ListInv
<1>5. ASSUME NEW parent \in 0 .. MaxSessions, NEW workspace \in Workspace \union {Lists!Nowhere},
             Lists!Create(parent, workspace)
      PROVE  ListInv'
  BY <1>5, CreateKeeps DEF Lists!Nowhere
<1>6. ASSUME NEW r \in Lists!Rowids,
             Lists!ForkTo(r) \/ Lists!Use(r) \/ Lists!Delete(r) \/ \E parent \in Lists!Rowids : Lists!ForkVisible(r, parent)
      PROVE  ListInv'
  BY <1>6, ForksKeep, UseKeeps, DeleteKeeps
<1>7. ASSUME NEW filter \in Workspace \union {Lists!Any}, Lists!FirstPage(filter) PROVE ListInv'
  BY <1>7, PageKeeps DEF Lists!Any
<1>8. ASSUME Lists!NextPage PROVE ListInv'
  <2>1. "any" \in Workspace \union {"any"}
    OBVIOUS
  <2> QED
    BY <1>8, <2>1, PageKeeps
<1> QED
  BY <1>2, <1>3, <1>4, <1>5, <1>6, <1>7, <1>8, CountKeeps DEF Lists!Next

LEMMA ListGives ==
  ASSUME ListLimits PROVE ListInv => Lists!NewestFirst /\ Lists!LeftAloneIsSeen
<1> SUFFICES ASSUME ListInv PROVE Lists!NewestFirst /\ Lists!LeftAloneIsSeen
  OBVIOUS
<1>0. MainInv /\ PagerInv
  BY DEF ListInv
<1>1. ASSUME NEW filter, NEW r \in Lists!Listed(filter), NEW q \in Lists!Listed(filter),
             Lists!Whole(main[r].used) > Lists!Whole(main[q].used)
      PROVE  Lists!Rank(r, filter) < Lists!Rank(q, filter)
  <2>1. r \in Lists!Rowids /\ q \in Lists!Rowids
    BY DEF Lists!Listed, Lists!Present
  <2>2. main[r].active \in Nat /\ main[q].active \in Nat
        /\ Lists!Whole(main[r].active) > Lists!Whole(main[q].active) /\ r \in Nat /\ q \in Nat
    BY <1>0, <1>1, <2>1, RowOf DEF MainInv
  <2>3. main[r].active > main[q].active
    BY <2>2, LaterSecond
  <2>4. r \in Ahead(q, filter) /\ r \notin Ahead(r, filter)
    BY <2>2, <2>3 DEF Ahead, Lists!Before
  <2>5. Ahead(r, filter) \subseteq Ahead(q, filter)
    <3>1. ASSUME NEW p \in Ahead(r, filter) PROVE p \in Ahead(q, filter)
      <4>1. p \in Lists!Listed(filter) /\ p \in Lists!Rowids /\ Lists!Before(p, r)
        BY DEF Ahead, Lists!Listed, Lists!Present
      <4>2. main[p].active \in Nat
        BY <1>0, <4>1, RowOf
      <4> QED
        BY <2>2, <2>3, <4>1, <4>2 DEF Ahead, Lists!Before
    <3> QED
      BY <3>1
  <2>6. PICK S, T : S = Ahead(r, filter) /\ T = Ahead(q, filter) /\ S \subseteq T /\ S # T
    BY <2>4, <2>5
  <2>7. IsFiniteSet(S) /\ IsFiniteSet(T) /\ Lists!Rank(r, filter) = Cardinality(S) + 1
        /\ Lists!Rank(q, filter) = Cardinality(T) + 1
    BY <1>0, <2>6, RankIs
  <2>8. Cardinality(S) <= Cardinality(T) /\ Cardinality(S) # Cardinality(T)
    BY <2>6, <2>7, FS_Subset
  <2> QED
    BY <2>7, <2>8, FS_CardinalityType
<1>2. Lists!NewestFirst
  BY <1>1 DEF Lists!NewestFirst
<1>3. Lists!LeftAloneIsSeen
  BY <1>0 DEF PagerInv, Lists!LeftAloneIsSeen
<1> QED
  BY <1>2, <1>3

(***************************************************************************)
(* The parts side by side                                                  *)
(***************************************************************************)
\* However many calls of however many sessions edit one file, and whoever changes it outside of
\* them: an edit that was made is in the file unless somebody else overwrote it, and a call is
\* told of a change it did not see; a list of todos that is read is one that was submitted,
\* whatever transactions fail, and no id is in it twice (file/edit/filelock.rs,
\* file/tracker.rs, store/todo.rs).
THEOREM ChangesStayWhole ==
  ASSUME EditLimits, MaxItems \in Nat PROVE CoreSpec => []ChangesAreWhole
<1> DEFINE Inv == /\ part = "edits" => EditInv
                  /\ part = "todo" => TodoInv
<1>1. CoreInit => Inv
  BY EditStart, TodoStart DEF CoreInit
<1>2. Inv /\ [CoreNext /\ UNCHANGED part]_<<part, coreVars>> => Inv'
  <2> SUFFICES ASSUME Inv, [CoreNext /\ UNCHANGED part]_<<part, coreVars>>
               PROVE  Inv'
    OBVIOUS
  <2>0. part' = part
    BY DEF coreVars
  <2>1. ASSUME part' = "edits" PROVE (EditInv)'
    <3>1. part = "edits" /\ [Edits!Next]_Edits!vars
      BY <2>0, <2>1 DEF CoreNext, coreVars, Edits!vars
    <3> QED
      BY <3>1, EditStep
  <2>2. ASSUME part' = "todo" PROVE (TodoInv)'
    <3>1. part = "todo" /\ [Todo!Next]_Todo!vars
      BY <2>0, <2>2 DEF CoreNext, coreVars, Todo!vars
    <3> QED
      BY <3>1, TodoStep
  <2> QED
    BY <2>1, <2>2
<1>3. Inv => ChangesAreWhole
  BY EditGives, TodoGives DEF ChangesAreWhole
<1> QED
  BY <1>1, <1>2, <1>3, PTL DEF CoreSpec

\* Whatever a command leaves behind and whenever its time is up, a result without that notice is
\* all it wrote, and the time it got is within the limits; whenever a call of a subagent is
\* dropped, its child's events are shown between one Started and one Ended, and what it
\* answers is the reply they ended with; and however sessions are destroyed and mounted again
\* and however slow the receiver is, each life of a session arrives from its first event on, in
\* order, without a gap and once, to its last event unless its forwarder was aborted; and a
\* reply of a model that was neither cut short nor damaged is handed out with every call, all of
\* its text and its usage, after whatever refusals and time-outs, and a damaged one never with
\* pieces of one call in another (terminal/output.rs, execute.rs, subagent/handler.rs,
\* app/runtime/app.rs; provider/sse.rs, stream_decoder.rs, openai/sse.rs, anthropic/sse.rs).
THEOREM OutputsArriveWhole ==
  ASSUME CommandLimits, FanLimits, StreamLimits PROVE CoreSpec => []OutputsAreWhole
<1> DEFINE Inv == /\ part = "command" => CommandInv
                  /\ part = "errand" => ErrandInv
                  /\ part = "fan" => FanInv
                  /\ part = "stream" => ReplyInv
<1>1. CoreInit => Inv
  BY CommandStart, ErrandStart, FanStart, StreamStart DEF CoreInit
<1>2. Inv /\ [CoreNext /\ UNCHANGED part]_<<part, coreVars>> => Inv'
  <2> SUFFICES ASSUME Inv, [CoreNext /\ UNCHANGED part]_<<part, coreVars>>
               PROVE  Inv'
    OBVIOUS
  <2>0. part' = part
    BY DEF coreVars
  <2>1. ASSUME part' = "command" PROVE (CommandInv)'
    <3>1. part = "command" /\ [Command!Next]_Command!vars
      BY <2>0, <2>1 DEF CoreNext, coreVars, Command!vars
    <3> QED
      BY <3>1, CommandStep
  <2>2. ASSUME part' = "errand" PROVE (ErrandInv)'
    <3>1. part = "errand" /\ [Errand!Next]_Errand!vars
      BY <2>0, <2>2 DEF CoreNext, coreVars, Errand!vars
    <3> QED
      BY <3>1, ErrandStep
  <2>3. ASSUME part' = "fan" PROVE (FanInv)'
    <3>1. part = "fan" /\ [Fan!Next]_Fan!vars
      BY <2>0, <2>3 DEF CoreNext, coreVars, Fan!vars
    <3> QED
      BY <3>1, FanStep
  <2>4. ASSUME part' = "stream" PROVE (ReplyInv)'
    <3>1. part = "stream" /\ [Stream!Next]_Stream!vars
      BY <2>0, <2>4 DEF CoreNext, coreVars, Stream!vars
    <3> QED
      BY <3>1, StreamStep
  <2> QED
    BY <2>1, <2>2, <2>3, <2>4
<1>3. Inv => OutputsAreWhole
  BY CommandGives, ErrandGives, FanGives, StreamGives DEF OutputsAreWhole
<1> QED
  BY <1>1, <1>2, <1>3, PTL DEF CoreSpec

\* However calls of the fetching tool overtake each other, an answer is a page of the site
\* asked for, no older than an entry lives and a request lasts; an entry is what its address
\* served; the cache exceeds its limit by one entry at most.  Whatever limits a model asks for,
\* following the hints of a file or a page shows it every line or unit once and in order, and
\* an excerpt counts what it left out (web/cache.rs, web/handler.rs, web/pagination.rs,
\* file/read/handler.rs, terminal/output.rs, file/write/diff.rs).
THEOREM PagesAreRightAndRecent ==
  ASSUME WebLimits, ReadLimits PROVE CoreSpec => []PagesAreTheirOwn
<1> DEFINE Inv == /\ part = "web" => CacheInv /\ FetchInv
                  /\ part = "reading" => ExcerptInv
<1>1. CoreInit => Inv
  BY WebStart, ReadingStart DEF CoreInit
<1>2. Inv /\ [CoreNext /\ UNCHANGED part]_<<part, coreVars>> => Inv'
  <2> SUFFICES ASSUME Inv, [CoreNext /\ UNCHANGED part]_<<part, coreVars>>
               PROVE  Inv'
    OBVIOUS
  <2>0. part' = part
    BY DEF coreVars
  <2>1. ASSUME part' = "web" PROVE (CacheInv /\ FetchInv)'
    <3>1. part = "web" /\ [Web!Next]_Web!vars
      BY <2>0, <2>1 DEF CoreNext, coreVars, Web!vars
    <3> QED
      BY <3>1, FetchStep, CacheStep
  <2>2. ASSUME part' = "reading" PROVE ExcerptInv'
    <3>1. part = "reading" /\ [Reading!Next]_Reading!vars
      BY <2>0, <2>2 DEF CoreNext, coreVars, Reading!vars
    <3> QED
      BY <3>1, ReadingStep
  <2> QED
    BY <2>1, <2>2
<1>3. Inv => PagesAreTheirOwn
  BY WebGives, ReadingGives DEF PagesAreTheirOwn
<1> QED
  BY <1>1, <1>2, <1>3, PTL DEF CoreSpec

\* However signals of the guard and messages of the session overtake each other, it steps in
\* three times at most before it gives up, touches only results of the turn it saw loop, and
\* finds exactly the cycles of the calls it remembers; whatever hooks panic, hang or block,
\* all of them see every event that got out, once, in their order, as it was sent
\* (loop_guard/guard.rs, escalation.rs, detectors.rs; hooks/registry.rs, core/dispatch.rs).
THEOREM PluginsKeepTheirRules ==
  ASSUME AlternateAt \in Nat, HookLimits PROVE CoreSpec => []PluginsBehave
<1> DEFINE Inv == /\ part = "guard" => GuardInv
                  /\ part = "hooks" => HooksInv
<1>1. CoreInit => Inv
  BY GuardStart, HooksStart DEF CoreInit
<1>2. Inv /\ [CoreNext /\ UNCHANGED part]_<<part, coreVars>> => Inv'
  <2> SUFFICES ASSUME Inv, [CoreNext /\ UNCHANGED part]_<<part, coreVars>>
               PROVE  Inv'
    OBVIOUS
  <2>0. part' = part
    BY DEF coreVars
  <2>1. ASSUME part' = "guard" PROVE (GuardInv)'
    <3>1. part = "guard" /\ [Guard!Next]_Guard!vars
      BY <2>0, <2>1 DEF CoreNext, coreVars, Guard!vars
    <3> QED
      BY <3>1, GuardStep
  <2>2. ASSUME part' = "hooks" PROVE (HooksInv)'
    <3>1. part = "hooks" /\ [Hooks!Next]_Hooks!vars
      BY <2>0, <2>2 DEF CoreNext, coreVars, Hooks!vars
    <3> QED
      BY <3>1, HooksStep
  <2> QED
    BY <2>1, <2>2
<1>3. Inv => PluginsBehave
  BY GuardGives, HooksGive DEF PluginsBehave
<1> QED
  BY <1>1, <1>2, <1>3, PTL DEF CoreSpec

\* A summary stands for exactly the rows below its boundary, none of them unread and none
\* taken away by a rollback, although a model was asked in between; an idle session shows no
\* compression at work and has told of every boundary in its history; the title shown is the
\* stored one, unless the user has renamed the session since (react/compression.rs, title.rs).
THEOREM SummariesAreTrue ==
  CoreSpec => []SummariesAndTitlesAreTrue
<1> DEFINE Inv == part = "work" => ServiceInv
<1>1. CoreInit => Inv
  BY ServiceStart DEF CoreInit
<1>2. Inv /\ [CoreNext /\ UNCHANGED part]_<<part, coreVars>> => Inv'
  <2> SUFFICES ASSUME Inv, [CoreNext /\ UNCHANGED part]_<<part, coreVars>>, part' = "work"
               PROVE  (ServiceInv)'
    OBVIOUS
  <2>1. part = "work" /\ [Work!Next]_Work!vars
    BY DEF CoreNext, coreVars, Work!vars
  <2> QED
    BY <2>1, ServiceStep
<1>3. Inv => SummariesAndTitlesAreTrue
  BY ServiceGives DEF SummariesAndTitlesAreTrue
<1> QED
  BY <1>1, <1>2, <1>3, PTL DEF CoreSpec

\* A restoration that is through has brought every file it set out to touch to what its base
\* says, unless somebody wrote it meanwhile; the rows from any row on name every file in
\* which the session's latest tree differs from that row's; and the base of a restoration
\* under way is not collected (snapshot/lib.rs, react/turn.rs, engine/snapshot_gc.rs).
THEOREM RestorationsAreTrue ==
  CoreSpec => []SnapshotsRestore
<1> DEFINE Inv == part = "shadow" => ShadowInv
<1>1. CoreInit => Inv
  BY ShadowStart DEF CoreInit
<1>2. Inv /\ [CoreNext /\ UNCHANGED part]_<<part, coreVars>> => Inv'
  <2> SUFFICES ASSUME Inv, [CoreNext /\ UNCHANGED part]_<<part, coreVars>>, part' = "shadow"
               PROVE  (ShadowInv)'
    OBVIOUS
  <2>1. part = "shadow" /\ [Shadow!Next]_Shadow!vars
    BY DEF CoreNext, coreVars, Shadow!vars
  <2> QED
    BY <2>1, ShadowStep
<1>3. Inv => SnapshotsRestore
  BY ShadowGives DEF SnapshotsRestore
<1> QED
  BY <1>1, <1>2, <1>3, PTL DEF CoreSpec

\* For any managers and engines in a process, a key that was reported as saved is with an
\* engine after each reload that began later, whatever is written to the two files meanwhile
\* and wherever the process dies, unless operations overlapped since or the reload overlapped
\* another; a session runs with the definition that
\* was chosen for it or fails, and where the heads of skills agree with their directories, each
\* skill that is offered can be loaded, and the files it names can be; each key of the
\* configuration the process was given is what the highest layer says that speaks of it
\* (core/engine/provider_ops.rs, provider/admin/mod.rs, prompt/definitions/query.rs,
\* api/config/loader.rs).
THEOREM SettingsAreKept ==
  ASSUME DiscLimits PROVE CoreSpec => []SettingsHold
<1> DEFINE Inv == /\ part = "admin" => KeyInv
                  /\ part = "disc" => DiscInv
                  /\ part = "conf" => ConfInv
<1>1. CoreInit => Inv
  BY KeyStart, DiscStart, ConfStart DEF CoreInit
<1>2. Inv /\ [CoreNext /\ UNCHANGED part]_<<part, coreVars>> => Inv'
  <2> SUFFICES ASSUME Inv, [CoreNext /\ UNCHANGED part]_<<part, coreVars>>
               PROVE  Inv'
    OBVIOUS
  <2>0. part' = part
    BY DEF coreVars
  <2>1. ASSUME part' = "admin" PROVE (KeyInv)'
    <3>1. part = "admin" /\ [Manager!Next]_Manager!vars
      BY <2>0, <2>1 DEF CoreNext, coreVars, Manager!vars
    <3> QED
      BY <3>1, KeyStep
  <2>2. ASSUME part' = "disc" PROVE (DiscInv)'
    <3>1. part = "disc" /\ [Disc!Next]_Disc!vars
      BY <2>0, <2>2 DEF CoreNext, coreVars, Disc!vars
    <3> QED
      BY <3>1, DiscStep
  <2>3. ASSUME part' = "conf" PROVE ConfInv'
    <3>1. part = "conf" /\ [Conf!Next]_Conf!vars
      BY <2>0, <2>3 DEF CoreNext, coreVars, Conf!vars
    <3> QED
      BY <3>1, ConfStep
  <2> QED
    BY <2>1, <2>2, <2>3
<1>3. Inv => SettingsHold
  BY KeyGives, DiscGives, ConfGives DEF SettingsHold
<1> QED
  BY <1>1, <1>2, <1>3, PTL DEF CoreSpec

\* However events of a session are emitted, changed or blocked by hooks and lost on their way
\* to the table, and however the history is cut meanwhile: between two events, the rows told
\* again are the events that were shown; the pages read are a stretch of the history without
\* gap or repetition; a stored reply asks for exactly the calls that were run.  And a client
\* that pages to the end of the list of sessions, the last used first, has seen every one that
\* was left alone, unless something moved up meanwhile (core/history/mod.rs, react/turn.rs,
\* app/runtime/session_manager.rs, store/session_query.rs).
THEOREM HistoriesAreTrue ==
  ASSUME ReplayLimits, ListLimits PROVE CoreSpec => []HistoryIsWhatHappened
<1> DEFINE Inv == /\ part = "replay" => ReplayInv
                  /\ part = "lists" => ListInv
<1>1. CoreInit => Inv
  BY ReplayStart, ListStart DEF CoreInit
<1>2. Inv /\ [CoreNext /\ UNCHANGED part]_<<part, coreVars>> => Inv'
  <2> SUFFICES ASSUME Inv, [CoreNext /\ UNCHANGED part]_<<part, coreVars>>
               PROVE  Inv'
    OBVIOUS
  <2>0. part' = part
    BY DEF coreVars
  <2>1. ASSUME part' = "replay" PROVE (ReplayInv)'
    <3>1. part = "replay" /\ [Replay!Next]_Replay!vars
      BY <2>0, <2>1 DEF CoreNext, coreVars, Replay!vars
    <3> QED
      BY <3>1, ReplayStep
  <2>2. ASSUME part' = "lists" PROVE (ListInv)'
    <3>1. part = "lists" /\ [Lists!Next]_Lists!vars
      BY <2>0, <2>2 DEF CoreNext, coreVars, Lists!vars
    <3> QED
      BY <3>1, ListStep
  <2> QED
    BY <2>1, <2>2
<1>3. Inv => HistoryIsWhatHappened
  BY ReplayGives, ListGives DEF HistoryIsWhatHappened
<1> QED
  BY <1>1, <1>2, <1>3, PTL DEF CoreSpec

\* Whatever the calls of a reply ask for and however they overlap in time: in a process that
\* works in the workspace, with paths that do not climb above the root, the files and what each
\* call saw of them are as if they had run in the order of the reply; and the directory the
\* check of a command line follows is where the shell is as long as it is known and the line
\* held nothing that the two read otherwise, so what a recursive deletion removes that was let
\* through lies in the workspace, unless its target is relative after such a parting or goes
\* on where the check stops reading (tool_exec/parallel.rs should_parallelize,
\* terminal/safety.rs check_rm_scope).
THEOREM JudgementsAreRight ==
  ASSUME BatchLimits, ScopeLimits PROVE CoreSpec => []JudgementsHold
<1> DEFINE Inv == /\ part = "batch" => BatchInv
                  /\ part = "scope" => ScopeInv
<1>1. CoreInit => Inv
  BY BatchStart, ScopeStart DEF CoreInit
<1>2. Inv /\ [CoreNext /\ UNCHANGED part]_<<part, coreVars>> => Inv'
  <2> SUFFICES ASSUME Inv, [CoreNext /\ UNCHANGED part]_<<part, coreVars>>
               PROVE  Inv'
    OBVIOUS
  <2>0. part' = part
    BY DEF coreVars
  <2>1. ASSUME part' = "batch" PROVE BatchInv'
    <3>1. part = "batch" /\ [Batches!Next]_Batches!vars
      BY <2>0, <2>1 DEF CoreNext, coreVars, Batches!vars
    <3> QED
      BY <3>1, BatchStep
  <2>2. ASSUME part' = "scope" PROVE ScopeInv'
    <3>1. part = "scope" /\ [Scope!Next]_Scope!vars
      BY <2>0, <2>2 DEF CoreNext, coreVars, Scope!vars
    <3> QED
      BY <3>1, ScopeStep
  <2> QED
    BY <2>1, <2>2
<1>3. Inv => JudgementsHold
  BY BatchGives, ScopeGives DEF JudgementsHold
<1> QED
  BY <1>1, <1>2, <1>3, PTL DEF CoreSpec

===============================================================================
