------------------------- MODULE SessionTaskProofs -------------------------
(***************************************************************************)
(* Theorems about SessionTask, for every set of entries and calls, every   *)
(* capacity and every bound: its notices and answers, then what becomes of *)
(* its entries in channel, queues, batch and history taken together; and   *)
(* about the chains of a session, a reply with tool calls and what follows *)
(* it up to the final reply: what may be consumed inside one, and that its *)
(* calls are answered.                                                     *)
(***************************************************************************)
EXTENDS SessionMailbox, TLAPS, SequenceTheorems, FiniteSetTheorems, NumberLemmas

(***************************************************************************)
(* Operators on queues                                                     *)
(***************************************************************************)

\* Taking an entry out of a queue leaves a queue of the same entries' type.
LEMMA WithoutType ==
  ASSUME NEW S, NEW s \in Seq(S), NEW e
  PROVE  Without(s, e) \in Seq(S)
<1>1. CASE e \notin Elements(s)
  BY <1>1 DEF Without
<1>2. CASE e \in Elements(s)
  <2> DEFINE i == CHOOSE i \in DOMAIN s : s[i] = e
  <2>1. i \in 1..Len(s)
    BY <1>2 DEF Elements
  <2> HIDE DEF i
  <2>2. SubSeq(s, 1, i - 1) \in Seq(S) /\ SubSeq(s, i + 1, Len(s)) \in Seq(S)
    BY <2>1, SubSeqProperties
  <2>3. SubSeq(s, 1, i - 1) \o SubSeq(s, i + 1, Len(s)) \in Seq(S)
    BY <2>2
  <2> QED
    BY <1>2, <2>3 DEF Without, i
<1> QED
  BY <1>1, <1>2

\* What is in the history or goes to it is a row.
LEMMA RowType ==
  /\ \A kind \in Kinds, id \in Entry \cup Call \cup {NoId}, calls \in SUBSET Call,
        fate \in Fates : RowOf(kind, id, calls, fate) \in Row
  /\ \A kind \in Kinds, id \in Entry \cup Call \cup {NoId} : Event(kind, id) \in Row
BY DEF RowOf, Event, Row, Fates

\* Emit keeps the types of the history and of the counters.
LEMMA EmitType ==
  ASSUME TypeOK, NEW kind \in Kinds, NEW id \in Entry \cup Call \cup {NoId},
         NEW calls \in SUBSET Call, NEW fate \in HistoryFates,
         Emit(kind, id, calls, fate)
  PROVE  log' \in Seq(Row) /\ count' \in Counters
<1>1. RowOf(kind, id, calls, fate) \in Row
  BY RowType DEF HistoryFates, Fates
<1>2. Losses(fate) \in Nat
  BY DEF Losses
<1>3. log' \in Seq(Row)
  BY <1>1 DEF TypeOK, DataOK, Emit
<1>4. count \in Counters /\ count' = [count EXCEPT !.losses = @ + Losses(fate)]
  BY DEF TypeOK, DataOK, Emit
<1>5. count' \in Counters
  BY <1>2, <1>4 DEF Counters
<1> QED
  BY <1>3, <1>5

\* Counting keeps the type of the counters.
LEMMA CounterType ==
  ASSUME NEW c \in Counters
  PROVE  /\ [c EXCEPT !.sent = @ + 1] \in Counters
         /\ [c EXCEPT !.crashes = @ + 1] \in Counters
         /\ \A n \in Nat :
              [c EXCEPT !.losses = @ + n, !.tools = @ + 1] \in Counters
<1>1. [c EXCEPT !.sent = @ + 1] \in Counters
  BY DEF Counters
<1>2. [c EXCEPT !.crashes = @ + 1] \in Counters
  BY DEF Counters
<1>3. ASSUME NEW n \in Nat
      PROVE  [c EXCEPT !.losses = @ + n, !.tools = @ + 1] \in Counters
  <2>1. c.losses + n \in Nat /\ c.tools + 1 \in Nat
    BY DEF Counters
  <2> QED
    BY <2>1 DEF Counters
<1> QED
  BY <1>1, <1>2, <1>3

(***************************************************************************)
(* Type correctness                                                        *)
(***************************************************************************)
\* The state a session is assembled in is well typed.
LEMMA TypeInit == Init => TypeOK
<1> SUFFICES ASSUME Init PROVE FlagsOK /\ DataOK
  BY DEF TypeOK
<1>1. FlagsOK
  BY DEF Init, FlagsOK
<1>2. DataOK
  BY DEF Init, DataOK, NoRemoval, Counters, Pcs, Timings
<1> QED
  BY <1>1, <1>2

\* Every action keeps the flags boolean.
LEMMA FlagsStep == TypeOK /\ [Next]_vars => FlagsOK'
<1> SUFFICES ASSUME FlagsOK, [Next]_vars PROVE FlagsOK'
  BY DEF TypeOK
<1> USE DEF FlagsOK, gate, batchVars, streamVars
<1> DEFINE Goal == /\ paused' \in BOOLEAN /\ shut' \in BOOLEAN
                   /\ injected' \in BOOLEAN /\ text' \in BOOLEAN
<1>l. late' \subseteq Branches
  BY DEF Next, TaskStep, NewPass, vars, Arrive, Ready
<1> SUFFICES Goal
  BY <1>l
<1>1. CASE CallerStep
  BY <1>1 DEF CallerStep, Send, RemovePending, RemoveGuide, SendInterrupt, Shutdown,
              Crash
<1>2. CASE UNCHANGED stateVars
  BY <1>2 DEF stateVars
<1>3. CASE TakeGuide \/ DrainPending \/ TakePaused \/ PreCompress
  BY <1>3 DEF TakeGuide, DrainPending, TakePaused, PreCompress
<1>4. CASE ConsumeUser \/ ConsumeControl
  BY <1>4 DEF ConsumeUser, ConsumeControl
<1>5. CASE BatchDone \/ Resolve
  BY <1>5 DEF BatchDone, Resolve, OpenStream, EndTurn
<1>6. CASE \/ StreamInbound \/ StreamText \/ (\E c \in Call : StreamCall(c))
           \/ StreamRetry \/ BackoffEnd \/ StreamFail \/ CancelInBackoff
  BY <1>6 DEF StreamInbound, StreamText, StreamCall, StreamRetry, BackoffEnd,
              StreamFail, CancelInBackoff, EndTurn
<1>7. CASE StreamFinal \/ StreamTools
  BY <1>7 DEF StreamFinal, StreamTools
<1>8. CASE \/ \E c \in Call : ToolFinish(c) \/ ToolRecord(c)
           \/ ToolsInbound \/ ToolsDone \/ ToolsDrained
  BY <1>8 DEF ToolFinish, ToolRecord, Record, ToolsInbound, ToolsDone, ToolsDrained
<1>9. CASE \/ CloseStream \/ CloseTools \/ CloseNotify
           \/ \E c \in Call : DrainRecord(c) \/ CloseAbort(c)
  BY <1>9 DEF CloseStream, CloseTools, CloseNotify, DrainRecord, Record, CloseAbort,
              EndTurn
<1>10. CASE IdleShutdown \/ IdleInbound \/ IdleInterrupt
  BY <1>10 DEF IdleShutdown, IdleInbound, IdleInterrupt
<1>11. CASE PollStep \/ BranchStep
  BY <1>3, <1>4, <1>5, <1>6, <1>7, <1>8, <1>9, <1>10, <1>11 DEF PollStep, BranchStep
<1> QED
  BY <1>1, <1>2, <1>11 DEF Next, TaskStep, NewPass, vars

\* Every action keeps the types of the rest of the state.
LEMMA DataStep == TypeOK /\ [Next]_vars => DataOK'
<1> SUFFICES ASSUME TypeOK, DataOK, [Next]_vars PROVE DataOK'
  BY DEF TypeOK
<1> USE EntryAssumption, CallAssumption, NoIdAssumption
<1> USE DEF DataOK, channels, queues, gate, batchVars, streamVars, toolVars,
            callerVars, Pcs, Timings
<1>k. Kinds = {"user", "echo", "compaction", "final", "tooluse", "partial",
               "tool", "aborted", "interrupt", "error"}
  BY DEF Kinds
<1>e. /\ Event("error", NoId) \in Row /\ Event("interrupt", NoId) \in Row
      /\ RowOf("compaction", NoId, {}, "saved") \in Row
      /\ \A e \in Entry : Event("echo", e) \in Row
  BY RowType, <1>k DEF Fates
<1>s. ConsumeSignal => signals' \in Seq(Nat)
  <2>1. CASE UNCHANGED signals
    BY <2>1
  <2>2. CASE signals # <<>> /\ signals' = Tail(signals)
    BY <2>2
  <2> QED
    BY <2>1, <2>2 DEF ConsumeSignal
<1>1. ASSUME NEW e \in Entry, Send(e) PROVE DataOK'
  BY <1>1 DEF Send
<1>2. CASE SendInterrupt
  <2>1. Target \in Nat
    BY DEF Target
  <2>2. count' \in Counters
    BY <1>2, CounterType DEF SendInterrupt
  <2> QED
    BY <1>2, <2>1, <2>2 DEF SendInterrupt
<1>3. ASSUME NEW e \in Entry, RemovePending(e) PROVE DataOK'
  <2>1. Without(pending, e) \in Seq(Entry)
    BY WithoutType
  <2> QED
    BY <1>3, <2>1 DEF RemovePending
<1>4. CASE RemoveGuide
  <2>1. Without(guide, remover.entry) \in Seq(Entry)
    BY WithoutType
  <2>2. remover.entry \in Elements(guide) => remover.entry \in Entry
    BY DEF Elements
  <2> QED
    BY <1>4, <2>1, <2>2 DEF RemoveGuide, NoRemoval
<1>5. CASE Shutdown
  BY <1>5 DEF Shutdown
<1>6. CASE CancelInBackoff
  BY <1>6, <1>e DEF CancelInBackoff, EndTurn
<1>7. CASE Crash
  <2>1. InMemory \subseteq Entry
    BY DEF InMemory, Elements
  <2>2. count' \in Counters
    BY <1>7, CounterType DEF Crash
  <2> QED
    BY <1>7, <2>1, <2>2 DEF Crash, NoRemoval
<1>8. CASE TakeGuide
  <2>1. pc' \in Pcs
    BY <1>8 DEF TakeGuide, AfterTake
  <2> QED
    BY <1>8, <2>1 DEF TakeGuide
<1>9. CASE DrainPending
  BY <1>9 DEF DrainPending
<1>10. CASE TakePaused
  <2>1. pc' \in Pcs
    BY <1>10 DEF TakePaused, AfterTake
  <2> QED
    BY <1>10, <2>1 DEF TakePaused
<1>11. CASE PreCompress
  <2>1. log' \in Seq(Row)
    <3>1. log' = log \/ log' = Append(log, RowOf("compaction", NoId, {}, "saved"))
      BY <1>11 DEF PreCompress
    <3>2. CASE log' = log
      BY <3>2
    <3>3. CASE log' = Append(log, RowOf("compaction", NoId, {}, "saved"))
      BY <3>3, <1>e
    <3> QED
      BY <3>1, <3>2, <3>3
  <2>2. pc' \in Pcs
    BY <1>11 DEF PreCompress
  <2>3. UNCHANGED <<channels, queues, gate, batchVars, streamVars, toolVars,
                    callerVars, turn, count>>
    BY <1>11 DEF PreCompress
  <2> QED
    BY <2>1, <2>2, <2>3
<1>12. CASE ConsumeUser
  <2>1. batch # <<>> /\ Head(batch) \in Entry /\ Tail(batch) \in Seq(Entry)
    BY <1>12 DEF ConsumeUser
  <2>2. log' \in Seq(Row) /\ count' \in Counters
    BY <1>12, <2>1, <1>k, EmitType DEF ConsumeUser
  <2> QED
    BY <1>12, <2>1, <2>2 DEF ConsumeUser
<1>13. CASE ConsumeControl
  <2>1. batch # <<>> /\ Head(batch) \in Entry /\ Tail(batch) \in Seq(Entry)
    BY <1>13 DEF ConsumeControl
  <2>2. PICK rows \in {<<>>, <<RowOf("compaction", NoId, {}, "saved")>>} :
          log' = Append(log, Event("echo", Head(batch))) \o rows
    BY <1>13 DEF ConsumeControl
  <2>3. rows \in Seq(Row)
    <3>1. CASE rows = <<>>
      BY <3>1
    <3>2. CASE rows = <<RowOf("compaction", NoId, {}, "saved")>>
      BY <3>2, <1>e
    <3> QED
      BY <3>1, <3>2
  <2>4. log' \in Seq(Row)
    BY <1>e, <2>1, <2>2, <2>3
  <2> QED
    BY <1>13, <2>1, <2>4 DEF ConsumeControl
<1>14. CASE BatchDone
  BY <1>14 DEF BatchDone, OpenStream, EndTurn
<1>15. CASE Resolve
  <2>1. log' \in Seq(Row)
    <3>1. log' = log \/ log' = Append(log, Event("error", NoId))
      BY <1>15 DEF Resolve
    <3>2. CASE log' = log
      BY <3>2
    <3>3. CASE log' = Append(log, Event("error", NoId))
      BY <3>3, <1>e
    <3> QED
      BY <3>1, <3>2, <3>3
  <2>2. /\ pc' \in Pcs /\ timing' \in Timings
        /\ received' \in SUBSET Call /\ partial' \in SUBSET Call /\ attempt' \in Nat
    <3>1. CASE OpenStream /\ UNCHANGED timing
      BY <3>1 DEF OpenStream
    <3>2. CASE EndTurn("Failed") /\ UNCHANGED streamVars
      BY <3>2 DEF EndTurn
    <3> QED
      BY <1>15, <3>1, <3>2 DEF Resolve
  <2>3. UNCHANGED <<channels, queues, batch, toolVars, callerVars, turn, count>>
    BY <1>15 DEF Resolve
  <2> QED
    BY <2>1, <2>2, <2>3
<1>16. CASE StreamInbound
  BY <1>16 DEF StreamInbound, Enqueue
<1>17. CASE StreamText \/ (\E c \in Call : StreamCall(c)) \/ StreamRetry \/ BackoffEnd
  BY <1>17 DEF StreamText, StreamCall, StreamRetry, BackoffEnd
<1>18. CASE StreamFail
  BY <1>18, <1>e DEF StreamFail, EndTurn
<1>19. CASE StreamFinal
  <2>1. log' \in Seq(Row) /\ count' \in Counters
    BY <1>19, <1>k, EmitType DEF StreamFinal
  <2> QED
    BY <1>19, <2>1 DEF StreamFinal
<1>20. CASE StreamTools
  <2>1. PICK effective \in SUBSET received, fate \in HistoryFates :
          /\ log' = Append(log, RowOf("tooluse", NoId, effective, fate))
          /\ count' = [count EXCEPT !.losses = @ + Losses(fate), !.tools = @ + 1]
          /\ requested' = effective /\ running' = effective
          /\ IF effective = {}
             THEN pc' = "take" /\ timing' = "AfterToolBatch"
             ELSE pc' = "tools" /\ UNCHANGED timing
    BY <1>20 DEF StreamTools
  <2>2. RowOf("tooluse", NoId, effective, fate) \in Row
    BY <1>k, RowType DEF HistoryFates, Fates
  <2>3. Losses(fate) \in Nat
    BY DEF Losses
  <2>4. count' \in Counters
    BY <2>1, <2>3, CounterType
  <2> QED
    BY <1>20, <2>1, <2>2, <2>4 DEF StreamTools
<1>21. ASSUME NEW c \in Call, ToolFinish(c) PROVE DataOK'
  BY <1>21 DEF ToolFinish
<1>22. ASSUME NEW c \in Call, Record(c), pc' = pc PROVE DataOK'
  <2>1. log' \in Seq(Row) /\ count' \in Counters
    BY <1>22, <1>k, EmitType DEF Record
  <2> QED
    BY <1>22, <2>1 DEF Record
<1>23. ASSUME NEW c \in Call, ToolRecord(c) \/ DrainRecord(c) PROVE DataOK'
  BY <1>22, <1>23 DEF ToolRecord, DrainRecord, Record
<1>24. CASE ToolsInbound
  BY <1>24 DEF ToolsInbound, Enqueue
<1>25. CASE ToolsDone \/ ToolsDrained
  BY <1>25 DEF ToolsDone, ToolsDrained
<1>26. CASE CloseStream
  <2>1. log' \in Seq(Row) /\ count' \in Counters
    <3>1. CASE text \/ partial # {}
      BY <1>26, <3>1, <1>k, EmitType DEF CloseStream
    <3>2. CASE ~(text \/ partial # {})
      BY <1>26, <3>2 DEF CloseStream
    <3> QED
      BY <3>1, <3>2
  <2>2. signals' \in Seq(Nat)
    BY <1>26, <1>s DEF CloseStream
  <2> QED
    BY <1>26, <2>1, <2>2 DEF CloseStream
<1>27. CASE CloseTools
  BY <1>27, <1>s DEF CloseTools
<1>28. ASSUME NEW c \in Call, CloseAbort(c) PROVE DataOK'
  <2>1. log' \in Seq(Row) /\ count' \in Counters
    BY <1>28, <1>k, EmitType DEF CloseAbort
  <2> QED
    BY <1>28, <2>1 DEF CloseAbort
<1>29. CASE CloseNotify
  BY <1>29, <1>e DEF CloseNotify, EndTurn
<1>30. CASE IdleShutdown
  BY <1>30 DEF IdleShutdown
<1>31. CASE IdleInbound
  BY <1>31 DEF IdleInbound, Enqueue
<1>32. CASE IdleInterrupt
  BY <1>32, <1>e DEF IdleInterrupt
<1>33. CASE UNCHANGED stateVars
  BY <1>33 DEF stateVars
<1>34. CASE CallerStep
  BY <1>34, <1>1, <1>2, <1>3, <1>4, <1>5, <1>7 DEF CallerStep
<1>35. CASE PollStep \/ BranchStep
  BY <1>35, <1>6, <1>8, <1>9, <1>10, <1>11, <1>12, <1>13, <1>14, <1>15, <1>16, <1>17,
     <1>18, <1>19, <1>20, <1>21, <1>23, <1>24, <1>25, <1>26, <1>27, <1>28, <1>29,
     <1>30, <1>31, <1>32
  DEF PollStep, BranchStep
<1> QED
  BY <1>33, <1>34, <1>35 DEF Next, TaskStep, NewPass, vars

\* The state has its types in every behaviour of the session task.
THEOREM TypeCorrect == Spec => []TypeOK
<1>1. TypeOK /\ [Next]_vars => TypeOK'
  BY FlagsStep, DataStep DEF TypeOK
<1> QED
  BY <1>1, TypeInit, PTL DEF Spec

(***************************************************************************)
(* The interrupt notice is the last event of its turn                      *)
(***************************************************************************)

\* A history ends well for the task: a running turn's last row is no notice.
Unclosed(s) == s # <<>> /\ s[Len(s)].kind # "interrupt"

\* A row may be added if it may follow a notice or if the last row is none.
LEMMA NoticeAppend ==
  ASSUME NEW s \in Seq(Row), NEW r \in Row, NoticeClosesTurn(s),
         Unclosed(s) \/ r.kind \in AfterNotice
  PROVE  /\ NoticeClosesTurn(Append(s, r))
         /\ r.kind # "interrupt" => Unclosed(Append(s, r))
<1> DEFINE t == Append(s, r)
<1>1. Len(t) = Len(s) + 1 /\ t[Len(t)] = r /\ \A i \in DOMAIN s : t[i] = s[i]
  BY AppendProperties
<1>0. DOMAIN t = 1..(Len(s) + 1) /\ DOMAIN s = 1..Len(s) /\ Len(s) \in Nat
  BY AppendProperties
<1> HIDE DEF t
<1>2. ASSUME NEW i \in DOMAIN t, t[i].kind = "interrupt", i + 1 \in DOMAIN t
      PROVE  t[i + 1].kind \in AfterNotice
  <2>1. i \in DOMAIN s
    BY <1>0, <1>2
  <2>2. CASE i + 1 \in DOMAIN s
    BY <1>1, <1>2, <2>1, <2>2 DEF NoticeClosesTurn
  <2>3. CASE i = Len(s)
    BY <1>0, <1>1, <1>2, <2>1, <2>3 DEF Unclosed
  <2> QED
    BY <1>0, <1>2, <2>1, <2>2, <2>3
<1>3. t # <<>>
  BY <1>0
<1> QED
  BY <1>1, <1>2, <1>3 DEF NoticeClosesTurn, Unclosed, t

\* The kind of a row that is built is the kind asked for.
LEMMA KindOf ==
  /\ \A kind, id, calls, fate : RowOf(kind, id, calls, fate).kind = kind
  /\ \A kind, id : Event(kind, id).kind = kind
BY DEF RowOf, Event

\* Every action keeps the notice last: only an idle take starts a turn, and it
\* writes its message first.
LEMMA NoticeStep == TypeOK /\ NoticeInv /\ [Next]_vars => NoticeInv'
<1> SUFFICES ASSUME TypeOK, DataOK, NoticeInv, [Next]_vars PROVE NoticeInv'
  BY DEF TypeOK
<1> USE EntryAssumption, CallAssumption
<1> DEFINE Busy == InTurn \/ (pc = "batch" /\ injected)
<1>k. Kinds = {"user", "echo", "compaction", "final", "tooluse", "partial",
               "tool", "aborted", "interrupt", "error"}
  BY DEF Kinds
<1>h. /\ log \in Seq(Row) /\ batch \in Seq(Entry)
      /\ NoticeClosesTurn(log)
      /\ pc = "precompress" => timing = "Idle" /\ ~injected
      /\ Busy => Unclosed(log)
  BY DEF DataOK, NoticeInv, InterruptLast, Unclosed
<1>g. SUFFICES /\ NoticeClosesTurn(log')
               /\ pc' = "precompress" => timing' = "Idle" /\ ~injected'
               /\ Busy' => Unclosed(log')
  BY DEF NoticeInv, InterruptLast, Unclosed
<1> DEFINE Goal == /\ NoticeClosesTurn(log')
                   /\ pc' = "precompress" => timing' = "Idle" /\ ~injected'
                   /\ Busy' => Unclosed(log')
<1> USE DEF InTurn, channels, queues, gate, batchVars, streamVars, toolVars, callerVars
<1>r. /\ Event("error", NoId) \in Row /\ Event("interrupt", NoId) \in Row
      /\ RowOf("compaction", NoId, {}, "saved") \in Row
      /\ \A e \in Entry : Event("echo", e) \in Row
      /\ \A kind \in Kinds, id \in Entry \cup Call \cup {NoId}, calls \in SUBSET Call,
            fate \in HistoryFates : RowOf(kind, id, calls, fate) \in Row
  BY RowType, <1>k DEF Fates, HistoryFates
\* Steps that leave the history alone and do not start a turn.
<1>1. ASSUME UNCHANGED log, Busy' => Busy, pc' = "precompress" => timing' = "Idle" /\ ~injected'
      PROVE  Goal
  BY <1>h, <1>1
<1>2. CASE CallerStep
  <2>1. UNCHANGED log
    BY <1>2 DEF CallerStep, Send, RemovePending, RemoveGuide, SendInterrupt, Shutdown,
                Crash
  <2>2. (Busy' => Busy) /\ (pc' = "precompress" => timing' = "Idle" /\ ~injected')
    BY <1>2, <1>h DEF CallerStep, Send, RemovePending, RemoveGuide, SendInterrupt,
                      Shutdown, Crash
  <2> QED
    BY <2>1, <2>2, <1>1
<1>4. CASE TakeGuide \/ DrainPending \/ TakePaused
  BY <1>1, <1>4, <1>h DEF TakeGuide, DrainPending, TakePaused, AfterTake
\* Steps that add one row: what the row may follow, and whether a turn runs.
<1>a. ASSUME NEW r \in Row, log' = Append(log, r), pc' # "precompress",
             Unclosed(log) \/ r.kind \in AfterNotice,
             Busy' => r.kind # "interrupt"
      PROVE  Goal
  <2>1. NoticeClosesTurn(log') /\ (r.kind # "interrupt" => Unclosed(log'))
    BY <1>a, <1>h, NoticeAppend
  <2> QED
    BY <2>1, <1>a
\* The rows that go through Emit, in a turn or behind a take.
<1>m. ASSUME NEW kind \in Kinds, NEW id \in Entry \cup Call \cup {NoId},
             NEW calls \in SUBSET Call, NEW fate \in HistoryFates,
             Emit(kind, id, calls, fate), pc' # "precompress",
             Unclosed(log) \/ kind \in AfterNotice, kind # "interrupt"
      PROVE  Goal
  <2>1. log' = Append(log, RowOf(kind, id, calls, fate))
    BY <1>m DEF Emit
  <2>2. RowOf(kind, id, calls, fate) \in Row /\ RowOf(kind, id, calls, fate).kind = kind
    BY <1>r, KindOf
  <2> QED
    BY <1>a, <1>m, <2>1, <2>2
<1>5. CASE PreCompress
  <2>1. /\ pc = "precompress" /\ timing' = "Idle" /\ ~injected'
        /\ (pc' = "exited" \/ pc' = "batch")
    BY <1>5, <1>h DEF PreCompress
  <2>2. CASE log' = log
    BY <1>1, <2>1, <2>2
  <2>3. CASE log' = Append(log, RowOf("compaction", NoId, {}, "saved"))
    BY <1>a, <1>r, <2>1, <2>3, KindOf DEF AfterNotice
  <2> QED
    BY <1>5, <2>2, <2>3 DEF PreCompress
<1>6. CASE ConsumeUser
  <2>1. pc' # "precompress" /\ Head(batch) \in Entry
    BY <1>6, <1>h DEF ConsumeUser
  <2>2. PICK fate \in HistoryFates : Emit("user", Head(batch), {}, fate)
    BY <1>6 DEF ConsumeUser
  <2> QED
    BY <1>m, <1>k, <2>1, <2>2 DEF AfterNotice
<1>7. CASE ConsumeControl
  <2> DEFINE echo == Event("echo", Head(batch))
             note == RowOf("compaction", NoId, {}, "saved")
  <2>1. /\ pc' # "precompress" /\ Head(batch) \in Entry
        /\ pc' = pc /\ timing' = timing /\ injected' = injected
    BY <1>7, <1>h DEF ConsumeControl
  <2>2. echo \in Row /\ note \in Row /\ echo.kind = "echo" /\ note.kind = "compaction"
    BY <1>r, <2>1, KindOf
  <2> HIDE DEF echo, note
  <2>3. log' = Append(log, echo) \/ log' = Append(log, echo) \o <<note>>
    <3>1. Append(log, echo) \o <<>> = Append(log, echo)
      BY <1>h, <2>2
    <3> QED
      BY <1>7, <3>1 DEF ConsumeControl, echo, note
  <2>4. CASE log' = Append(log, echo)
    BY <1>a, <2>1, <2>2, <2>4 DEF AfterNotice
  <2>5. CASE log' = Append(log, echo) \o <<note>>
    <3>1. Append(log, echo) \in Seq(Row) /\ NoticeClosesTurn(Append(log, echo))
      BY <1>h, <2>2, NoticeAppend DEF AfterNotice
    <3>2. log' = Append(Append(log, echo), note)
      BY <2>2, <2>5, <3>1
    <3>3. NoticeClosesTurn(log') /\ Unclosed(log')
      BY <2>2, <3>1, <3>2, NoticeAppend DEF AfterNotice
    <3> QED
      BY <2>1, <3>3
  <2> QED
    BY <2>3, <2>4, <2>5
<1>8. CASE BatchDone
  BY <1>1, <1>8, <1>h DEF BatchDone, OpenStream, EndTurn
<1>9. CASE Resolve
  <2>1. Unclosed(log) /\ (pc' = "stream" \/ pc' = "idle") /\ pc = "resolve"
    BY <1>9, <1>h DEF Resolve, OpenStream, EndTurn
  <2>2. CASE log' = log
    BY <1>1, <2>1, <2>2
  <2>3. CASE log' = Append(log, Event("error", NoId))
    BY <1>a, <1>r, <2>1, <2>3, KindOf
  <2> QED
    BY <1>9, <2>2, <2>3 DEF Resolve
<1>10. CASE \/ StreamInbound \/ StreamText \/ (\E c \in Call : StreamCall(c))
            \/ StreamRetry \/ BackoffEnd
  BY <1>1, <1>10, <1>h
  DEF StreamInbound, StreamText, StreamCall, StreamRetry, BackoffEnd, Polled
<1>11. CASE StreamFail \/ CancelInBackoff
  <2>1. Unclosed(log) /\ pc' = "idle" /\ log' = Append(log, Event("error", NoId))
    BY <1>11, <1>h DEF StreamFail, CancelInBackoff, EndTurn, Polled
  <2> QED
    BY <1>a, <1>r, <2>1, KindOf
<1>12. CASE StreamFinal
  <2>1. Unclosed(log) /\ pc' = "take"
    BY <1>12, <1>h DEF StreamFinal, Polled
  <2>2. PICK fate \in HistoryFates : Emit("final", NoId, {}, fate)
    BY <1>12 DEF StreamFinal
  <2> QED
    BY <1>m, <1>k, <2>1, <2>2
<1>13. CASE StreamTools
  <2>1. Unclosed(log) /\ (pc' = "take" \/ pc' = "tools") /\ received \in SUBSET Call
    BY <1>13, <1>h DEF StreamTools, Polled, DataOK
  <2>2. PICK effective \in SUBSET received, fate \in HistoryFates :
          log' = Append(log, RowOf("tooluse", NoId, effective, fate))
    BY <1>13 DEF StreamTools
  <2>3. RowOf("tooluse", NoId, effective, fate) \in Row
    BY <1>r, <1>k, <2>1
  <2> QED
    BY <1>a, <2>1, <2>2, <2>3, KindOf
<1>14. ASSUME NEW c \in Call, Record(c), pc' = pc, pc \in {"tools", "drain", "closing"} PROVE Goal
  <2>1. Unclosed(log) /\ pc' # "precompress"
    BY <1>14, <1>h
  <2>2. PICK fate \in HistoryFates : Emit("tool", c, {}, fate)
    BY <1>14 DEF Record
  <2> QED
    BY <1>m, <1>k, <2>1, <2>2
<1>15. CASE \E c \in Call : ToolRecord(c) \/ DrainRecord(c)
  BY <1>14, <1>15 DEF ToolRecord, DrainRecord, Record
<1>16. CASE \/ (\E c \in Call : ToolFinish(c)) \/ ToolsInbound \/ ToolsDone
            \/ ToolsDrained \/ CloseTools
  BY <1>1, <1>16, <1>h
  DEF ToolFinish, ToolsPolled, ToolsInbound, ToolsDone, ToolsDrained, CloseTools
<1>17. CASE CloseStream
  <2>1. Unclosed(log) /\ pc \in {"stream", "backoff"} /\ pc' = "closing"
    BY <1>17, <1>h DEF CloseStream
  <2>2. CASE UNCHANGED log
    BY <1>1, <2>1, <2>2
  <2>3. CASE \E fate \in HistoryFates : Emit("partial", NoId, partial \cap ValidCall, fate)
    <3>1. PICK fate \in HistoryFates : Emit("partial", NoId, partial \cap ValidCall, fate)
      BY <2>3
    <3>2. partial \cap ValidCall \in SUBSET Call
      OBVIOUS
    <3> QED
      BY <1>m, <1>k, <2>1, <3>1, <3>2
  <2> QED
    BY <1>17, <2>2, <2>3 DEF CloseStream
<1>18. ASSUME NEW c \in Call, CloseAbort(c) PROVE Goal
  <2>1. Unclosed(log) /\ pc' # "precompress"
    BY <1>18, <1>h DEF CloseAbort
  <2>2. PICK fate \in HistoryFates : Emit("aborted", c, {}, fate)
    BY <1>18 DEF CloseAbort
  <2> QED
    BY <1>m, <1>k, <2>1, <2>2
<1>19. CASE CloseNotify
  <2>1. /\ Unclosed(log) /\ pc' = "idle" /\ log' = Append(log, Event("interrupt", NoId))
    BY <1>19, <1>h DEF CloseNotify, EndTurn
  <2> QED
    BY <1>a, <1>r, <2>1
<1>20. CASE IdleShutdown \/ IdleInbound
  BY <1>1, <1>20, <1>h DEF IdleShutdown, IdleInbound
<1>21. CASE IdleInterrupt
  <2>1. /\ pc' = "take" /\ timing' = "Idle" /\ log' = Append(log, Event("interrupt", NoId))
    BY <1>21 DEF IdleInterrupt
  <2> QED
    BY <1>a, <1>r, <2>1, KindOf DEF AfterNotice
<1>22. CASE UNCHANGED stateVars
  BY <1>1, <1>22, <1>h DEF stateVars
<1>23. CASE PollStep \/ BranchStep
  BY <1>23, <1>4, <1>5, <1>6, <1>7, <1>8, <1>9, <1>10, <1>11, <1>12, <1>13, <1>15,
     <1>16, <1>17, <1>18, <1>19, <1>20, <1>21
  DEF PollStep, BranchStep
<1> QED
  BY <1>2, <1>22, <1>23 DEF Next, TaskStep, NewPass, vars

\* The interrupt notice ends its turn, in every behaviour.
THEOREM InterruptNoticeLast == Spec => []InterruptLast
<1>1. Init => NoticeInv
  BY DEF Init, NoticeInv, InterruptLast, NoticeClosesTurn, InTurn
<1>2. NoticeInv => InterruptLast
  BY DEF NoticeInv
<1> QED
  BY <1>1, <1>2, NoticeStep, TypeCorrect, PTL DEF Spec

(***************************************************************************)
(* No call is answered twice                                               *)
(***************************************************************************)

\* A row may be added if it is no result, or the first result since its call was
\* requested; what is requested afresh stays so unless it is the row's subject,
\* and what the row itself requests is requested afresh.
LEMMA AnswerAppend ==
  ASSUME NEW s \in Seq(Row), NEW r \in Row, RequestedBetween(s),
         r.kind \notin ResultKinds \/ (r.id \in Call => Fresh(s, r.id))
  PROVE  /\ RequestedBetween(Append(s, r))
         /\ \A c \in Call :
              /\ Fresh(s, c) /\ ~IsResult(r, c) => Fresh(Append(s, r), c)
              /\ c \in r.calls /\ ~IsResult(r, c) => Fresh(Append(s, r), c)
<1> DEFINE t == Append(s, r)
           n == Len(s) + 1
<1>1. /\ Len(s) \in Nat /\ DOMAIN s = 1..Len(s) /\ DOMAIN t = 1..n
      /\ t[n] = r /\ \A i \in 1..Len(s) : t[i] = s[i]
  BY AppendProperties
<1> HIDE DEF t
<1>2. ASSUME NEW i \in DOMAIN t, NEW j \in DOMAIN t, NEW c \in Call,
             i < j, IsResult(t[i], c), IsResult(t[j], c)
      PROVE  \E k \in i..j : c \in t[k].calls
  <2>1. CASE j \in DOMAIN s
    <3>1. i \in DOMAIN s /\ t[i] = s[i] /\ t[j] = s[j]
      BY <1>1, <1>2, <2>1
    <3>2. PICK k \in i..j : c \in s[k].calls
      BY <1>2, <2>1, <3>1 DEF RequestedBetween
    <3>3. k \in 1..Len(s)
      BY <1>1, <2>1, <3>1, <3>2
    <3> QED
      BY <1>1, <3>2, <3>3
  <2>2. CASE j = n
    <3>1. i \in DOMAIN s /\ t[i] = s[i]
      BY <1>1, <1>2, <2>2
    <3>2. Fresh(s, c)
      BY <1>1, <1>2, <2>2 DEF IsResult
    <3>3. PICK k \in DOMAIN s : c \in s[k].calls /\ i < k
      BY <1>2, <3>1, <3>2 DEF Fresh
    <3>4. k \in i..j /\ t[k] = s[k]
      BY <1>1, <2>2, <3>1, <3>3
    <3> QED
      BY <3>3, <3>4
  <2> QED
    BY <1>1, <2>1, <2>2
<1>3. ASSUME NEW c \in Call, Fresh(s, c), ~IsResult(r, c) PROVE Fresh(t, c)
  <2>1. PICK k \in DOMAIN s :
          c \in s[k].calls /\ \A i \in DOMAIN s : IsResult(s[i], c) => i < k
    BY <1>3 DEF Fresh
  <2>2. k \in DOMAIN t /\ c \in t[k].calls
    BY <1>1, <2>1
  <2>3. ASSUME NEW i \in DOMAIN t, IsResult(t[i], c) PROVE i < k
    BY <1>1, <1>3, <2>1, <2>3
  <2> QED
    BY <2>2, <2>3 DEF Fresh
<1>4. ASSUME NEW c \in Call, c \in r.calls, ~IsResult(r, c) PROVE Fresh(t, c)
  <2>1. n \in DOMAIN t /\ c \in t[n].calls
    BY <1>1, <1>4
  <2>2. ASSUME NEW i \in DOMAIN t, IsResult(t[i], c) PROVE i < n
    BY <1>1, <1>4, <2>2
  <2> QED
    BY <2>1, <2>2 DEF Fresh
<1> QED
  BY <1>2, <1>3, <1>4 DEF RequestedBetween, t

\* Every action keeps what awaits an answer requested afresh.
LEMMA AnswerStep == TypeOK /\ AnswerInv /\ [Next]_vars => AnswerInv'
<1> SUFFICES ASSUME TypeOK, DataOK, AnswerInv, [Next]_vars PROVE AnswerInv'
  BY DEF TypeOK
<1> USE EntryAssumption, CallAssumption
<1> DEFINE Awaited == running \cup results \cup Unfinished
           Executes == pc \in {"tools", "drain", "closing"}
<1>k. Kinds = {"user", "echo", "compaction", "final", "tooluse", "partial",
               "tool", "aborted", "interrupt", "error"}
  BY DEF Kinds
<1>h. /\ log \in Seq(Row) /\ batch \in Seq(Entry) /\ Awaited \subseteq Call
      /\ RequestedBetween(log)
      /\ Executes => running \cap results = {} /\ \A c \in Awaited : Fresh(log, c)
      /\ pc = "closing" => running = {}
  BY DEF DataOK, AnswerInv, AnsweredOnce, Unfinished
<1> DEFINE Goal ==
      /\ RequestedBetween(log')
      /\ Executes' => running' \cap results' = {} /\ \A c \in Awaited' : Fresh(log', c)
      /\ pc' = "closing" => running' = {}
<1> SUFFICES Goal
  BY DEF AnswerInv, AnsweredOnce
<1> USE DEF channels, queues, gate, batchVars, streamVars, toolVars, callerVars
<1>r. /\ Event("error", NoId) \in Row /\ Event("interrupt", NoId) \in Row
      /\ RowOf("compaction", NoId, {}, "saved") \in Row
      /\ \A e \in Entry : Event("echo", e) \in Row
      /\ \A kind \in Kinds, id \in Entry \cup Call \cup {NoId}, calls \in SUBSET Call,
            fate \in HistoryFates : RowOf(kind, id, calls, fate) \in Row
  BY RowType, <1>k DEF Fates, HistoryFates
<1>f. \A kind, id, calls, fate :
        /\ RowOf(kind, id, calls, fate).kind = kind /\ RowOf(kind, id, calls, fate).id = id
        /\ RowOf(kind, id, calls, fate).calls = calls
        /\ Event(kind, id).kind = kind
  BY DEF RowOf, Event
\* Steps that leave the history alone and await no more results than before.
<1>1. ASSUME UNCHANGED log, Executes' => Executes /\ Awaited' \subseteq Awaited
                                          /\ running' \cap results' = {},
             pc' = "closing" => running' = {}
      PROVE  Goal
  BY <1>h, <1>1
\* Steps that add a row that is no result, while no tools execute afterwards.
<1>2. ASSUME NEW r \in Row, log' = Append(log, r), r.kind \notin ResultKinds, ~Executes'
      PROVE  Goal
  BY <1>h, <1>2, AnswerAppend
<1>3. ASSUME NEW kind \in Kinds, NEW id \in Entry \cup Call \cup {NoId},
             NEW calls \in SUBSET Call, NEW fate \in HistoryFates,
             Emit(kind, id, calls, fate), kind \notin ResultKinds, ~Executes'
      PROVE  Goal
  <2>1. log' = Append(log, RowOf(kind, id, calls, fate))
    BY <1>3 DEF Emit
  <2> QED
    BY <1>2, <1>3, <1>r, <1>f, <2>1
\* The result or the aborted result of an awaited call.
<1>4. ASSUME NEW c \in Awaited, NEW kind \in ResultKinds, NEW fate \in HistoryFates,
             Executes, pc' = pc, Emit(kind, c, {}, fate), running' = running,
             results' = results \ {c}, answered' = answered \cup {c},
             requested' = requested, c \notin running
      PROVE  Goal
  <2> DEFINE r == RowOf(kind, c, {}, fate)
  <2>1. log' = Append(log, r)
    BY <1>4 DEF Emit
  <2>2. r \in Row /\ r.kind = kind /\ r.id = c /\ c \in Call
    BY <1>h, <1>r, <1>f, <1>k DEF ResultKinds
  <2> HIDE DEF r
  <2>3. Fresh(log, c)
    BY <1>4, <1>h
  <2>4. RequestedBetween(log')
    BY <1>h, <2>1, <2>2, <2>3, AnswerAppend
  <2>5. Awaited' \subseteq Awaited \ {c}
    BY <1>4 DEF Unfinished
  <2>6. ASSUME NEW d \in Awaited' PROVE Fresh(log', d)
    <3>1. d \in Awaited /\ d \in Call /\ d # c /\ ~IsResult(r, d)
      BY <1>h, <2>2, <2>5 DEF IsResult
    <3> QED
      BY <1>4, <1>h, <2>1, <2>2, <2>3, <3>1, AnswerAppend
  <2> QED
    BY <1>4, <1>h, <2>4, <2>6
<1>5. CASE CallerStep
  <2>1. CASE Crash
    BY <1>1, <2>1 DEF Crash
  <2>2. CASE ~Crash
    <3>1. UNCHANGED <<log, pc, toolVars>>
      BY <1>5, <2>2
      DEF CallerStep, Send, RemovePending, RemoveGuide, SendInterrupt, Shutdown
    <3> QED
      BY <3>1, <1>1, <1>h DEF Unfinished
  <2> QED
    BY <2>1, <2>2
<1>7. CASE TakeGuide \/ DrainPending \/ TakePaused
  BY <1>1, <1>7 DEF TakeGuide, DrainPending, TakePaused, AfterTake
<1>8. CASE PreCompress
  <2>1. ~Executes'
    BY <1>8 DEF PreCompress
  <2>2. CASE log' = log
    BY <1>1, <2>1, <2>2
  <2>3. CASE log' = Append(log, RowOf("compaction", NoId, {}, "saved"))
    BY <1>2, <1>r, <1>f, <2>1, <2>3 DEF ResultKinds
  <2> QED
    BY <1>8, <2>2, <2>3 DEF PreCompress
<1>9. CASE ConsumeUser
  <2>1. ~Executes' /\ Head(batch) \in Entry
    BY <1>9, <1>h DEF ConsumeUser
  <2>2. PICK fate \in HistoryFates : Emit("user", Head(batch), {}, fate)
    BY <1>9 DEF ConsumeUser
  <2> QED
    BY <1>3, <1>k, <2>1, <2>2 DEF ResultKinds
<1>10. CASE ConsumeControl
  <2> DEFINE echo == Event("echo", Head(batch))
             note == RowOf("compaction", NoId, {}, "saved")
  <2>1. ~Executes' /\ Head(batch) \in Entry
    BY <1>10, <1>h DEF ConsumeControl
  <2>2. /\ echo \in Row /\ note \in Row
        /\ echo.kind \notin ResultKinds /\ note.kind \notin ResultKinds
    BY <1>r, <1>f, <2>1 DEF ResultKinds
  <2> HIDE DEF echo, note
  <2>3. log' = Append(log, echo) \/ log' = Append(log, echo) \o <<note>>
    <3>1. Append(log, echo) \o <<>> = Append(log, echo)
      BY <1>h, <2>2
    <3> QED
      BY <1>10, <3>1 DEF ConsumeControl, echo, note
  <2>4. CASE log' = Append(log, echo)
    BY <1>2, <2>1, <2>2, <2>4
  <2>5. CASE log' = Append(log, echo) \o <<note>>
    <3>1. Append(log, echo) \in Seq(Row) /\ RequestedBetween(Append(log, echo))
      BY <1>h, <2>2, AnswerAppend
    <3>2. log' = Append(Append(log, echo), note)
      BY <2>2, <2>5, <3>1
    <3>3. RequestedBetween(log')
      BY <2>2, <3>1, <3>2, AnswerAppend
    <3> QED
      BY <2>1, <3>3
  <2> QED
    BY <2>3, <2>4, <2>5
<1>11. CASE BatchDone
  BY <1>1, <1>11 DEF BatchDone, OpenStream, EndTurn
<1>12. CASE Resolve
  <2>1. ~Executes'
    BY <1>12 DEF Resolve, OpenStream, EndTurn
  <2>2. CASE log' = log
    BY <1>1, <2>1, <2>2
  <2>3. CASE log' = Append(log, Event("error", NoId))
    BY <1>2, <1>r, <1>f, <2>1, <2>3 DEF ResultKinds
  <2> QED
    BY <1>12, <2>2, <2>3 DEF Resolve
<1>13. CASE \/ StreamInbound \/ StreamText \/ (\E c \in Call : StreamCall(c))
            \/ StreamRetry \/ BackoffEnd
  BY <1>1, <1>13
  DEF StreamInbound, StreamText, StreamCall, StreamRetry, BackoffEnd, Polled
<1>14. CASE StreamFail \/ CancelInBackoff
  <2>1. pc' = "idle" /\ log' = Append(log, Event("error", NoId))
    BY <1>14 DEF StreamFail, CancelInBackoff, EndTurn
  <2> QED
    BY <1>2, <1>r, <1>f, <2>1 DEF ResultKinds
<1>15. CASE StreamFinal
  <2>1. ~Executes'
    BY <1>15 DEF StreamFinal
  <2>2. PICK fate \in HistoryFates : Emit("final", NoId, {}, fate)
    BY <1>15 DEF StreamFinal
  <2> QED
    BY <1>3, <1>k, <2>1, <2>2 DEF ResultKinds
<1>16. CASE StreamTools
  <2>1. received \in SUBSET Call
    BY DEF DataOK
  <2>2. PICK effective \in SUBSET received, fate \in HistoryFates :
          /\ log' = Append(log, RowOf("tooluse", NoId, effective, fate))
          /\ requested' = effective /\ running' = effective
    BY <1>16 DEF StreamTools
  <2> DEFINE r == RowOf("tooluse", NoId, effective, fate)
  <2>3. r \in Row /\ r.kind = "tooluse" /\ r.calls = effective /\ effective \subseteq Call
    BY <1>r, <1>f, <1>k, <2>1
  <2> HIDE DEF r
  <2>4. /\ log' = Append(log, r)
        /\ results' = {} /\ answered' = {} /\ (pc' = "take" \/ pc' = "tools")
    BY <1>16, <2>2 DEF StreamTools, r
  <2>5. Awaited' \subseteq effective
    BY <2>2, <2>4 DEF Unfinished
  <2>6. RequestedBetween(log') /\ \A c \in effective : Fresh(log', c)
    BY <1>h, <2>3, <2>4, AnswerAppend DEF IsResult, ResultKinds
  <2> QED
    BY <2>2, <2>4, <2>5, <2>6
<1>17. ASSUME NEW c \in Call, Record(c), pc' = pc, Executes PROVE Goal
  <2>1. c \in results /\ c \in Awaited /\ c \notin running
    BY <1>17, <1>h DEF Record
  <2>2. PICK fate \in HistoryFates : Emit("tool", c, {}, fate)
    BY <1>17 DEF Record
  <2>3. /\ running' = running /\ results' = results \ {c}
        /\ answered' = answered \cup {c} /\ requested' = requested
    BY <1>17 DEF Record
  <2> QED
    BY <1>4, <1>17, <2>1, <2>2, <2>3 DEF ResultKinds
<1>18. CASE \E c \in Call : ToolRecord(c) \/ DrainRecord(c)
  BY <1>17, <1>18 DEF ToolRecord, DrainRecord, Record
<1>19. ASSUME NEW c \in Call, ToolFinish(c) PROVE Goal
  BY <1>1, <1>19, <1>h DEF ToolFinish, ToolsPolled, Unfinished
<1>20. CASE ToolsInbound
  BY <1>1, <1>20, <1>h DEF ToolsInbound, Unfinished
<1>21. CASE ToolsDone \/ ToolsDrained
  BY <1>1, <1>21, <1>h DEF ToolsDone, ToolsPolled, ToolsDrained, Unfinished
<1>22. CASE CloseTools
  BY <1>1, <1>22, <1>h DEF CloseTools, Unfinished
<1>23. CASE CloseStream
  <2>1. /\ requested' = partial /\ running' = {} /\ results' = {} /\ answered' = {}
        /\ pc' = "closing" /\ partial \subseteq Call
    BY <1>23 DEF CloseStream, DataOK
  <2>2. Awaited' = partial \cap ValidCall
    BY <2>1 DEF Unfinished
  <2>3. CASE text \/ partial # {}
    <3>1. PICK fate \in HistoryFates : Emit("partial", NoId, partial \cap ValidCall, fate)
      BY <1>23, <2>3 DEF CloseStream
    <3> DEFINE r == RowOf("partial", NoId, partial \cap ValidCall, fate)
    <3>2. /\ r \in Row /\ r.kind = "partial" /\ r.calls = partial \cap ValidCall
          /\ log' = Append(log, r)
      <4>1. partial \cap ValidCall \in SUBSET Call
        OBVIOUS
      <4> QED
        BY <1>r, <1>f, <1>k, <3>1, <4>1 DEF Emit
    <3> HIDE DEF r
    <3>3. RequestedBetween(log') /\ \A c \in partial \cap ValidCall : Fresh(log', c)
      BY <1>h, <3>2, AnswerAppend DEF IsResult, ResultKinds
    <3> QED
      BY <2>1, <2>2, <3>3
  <2>4. CASE ~(text \/ partial # {})
    <3>1. UNCHANGED log /\ Awaited' = {}
      BY <1>23, <2>2, <2>4 DEF CloseStream
    <3> QED
      BY <1>h, <2>1, <3>1
  <2> QED
    BY <2>3, <2>4
<1>24. ASSUME NEW c \in Call, CloseAbort(c) PROVE Goal
  <2>1. c \in Awaited /\ c \notin running /\ Executes /\ results \ {c} = results
    BY <1>24, <1>h DEF CloseAbort
  <2>2. PICK fate \in HistoryFates : Emit("aborted", c, {}, fate)
    BY <1>24 DEF CloseAbort
  <2>3. /\ running' = running /\ results' = results /\ pc' = pc
        /\ answered' = answered \cup {c} /\ requested' = requested
    BY <1>24 DEF CloseAbort
  <2> QED
    BY <1>4, <2>1, <2>2, <2>3 DEF ResultKinds
<1>25. CASE CloseNotify
  <2>1. pc' = "idle" /\ log' = Append(log, Event("interrupt", NoId))
    BY <1>25 DEF CloseNotify, EndTurn
  <2> QED
    BY <1>2, <1>r, <1>f, <2>1 DEF ResultKinds
<1>26. CASE IdleShutdown \/ IdleInbound
  BY <1>1, <1>26 DEF IdleShutdown, IdleInbound
<1>27. CASE IdleInterrupt
  <2>1. pc' = "take" /\ log' = Append(log, Event("interrupt", NoId))
    BY <1>27 DEF IdleInterrupt
  <2> QED
    BY <1>2, <1>r, <1>f, <2>1 DEF ResultKinds
<1>28. CASE UNCHANGED stateVars
  BY <1>1, <1>28, <1>h DEF stateVars, Unfinished
<1>29. CASE PollStep \/ BranchStep
  BY <1>29, <1>7, <1>8, <1>9, <1>10, <1>11, <1>12, <1>13, <1>14, <1>15, <1>16,
     <1>18, <1>19, <1>20, <1>21, <1>22, <1>23, <1>24, <1>25, <1>26, <1>27
  DEF PollStep, BranchStep
<1> QED
  BY <1>5, <1>28, <1>29 DEF Next, TaskStep, NewPass, vars

\* Between two results for one call id there is a reply that requests it again,
\* in every behaviour.
THEOREM NoCallAnsweredTwice == Spec => []AnsweredOnce
<1>1. Init => AnswerInv
  BY DEF Init, AnswerInv, AnsweredOnce, RequestedBetween
<1>2. AnswerInv => AnsweredOnce
  BY DEF AnswerInv
<1> QED
  BY <1>1, <1>2, AnswerStep, TypeCorrect, PTL DEF Spec

(***************************************************************************)
(* Counting in sequences                                                   *)
(***************************************************************************)
Places(s, R) == {i \in DOMAIN s : s[i] \in R}
Count(s, R) == Cardinality(Places(s, R))

\* Counts are numbers, and what does not occur is counted zero times.
LEMMA CountType ==
  ASSUME NEW S, NEW s \in Seq(S), NEW R
  PROVE  /\ IsFiniteSet(Places(s, R)) /\ Count(s, R) \in Nat
         /\ Count(s, R) = 0 <=> \A i \in DOMAIN s : s[i] \notin R
<1>1. DOMAIN s = 1..Len(s) /\ Len(s) \in Nat
  OBVIOUS
<1>2. IsFiniteSet(DOMAIN s)
  BY <1>1, FS_Interval
<1>3. Places(s, R) \in SUBSET DOMAIN s
  BY DEF Places
<1>4. IsFiniteSet(Places(s, R))
  BY <1>2, <1>3, FS_Subset
<1>5. Count(s, R) \in Nat /\ (Count(s, R) = 0 <=> Places(s, R) = {})
  BY <1>4, FS_CardinalityType, FS_EmptySet DEF Count
<1> QED
  BY <1>4, <1>5 DEF Places

\* Moving a set of places by a distance changes no count.
LEMMA ShiftedCount ==
  ASSUME NEW P \in SUBSET Nat, IsFiniteSet(P), NEW n \in Nat
  PROVE  /\ IsFiniteSet({i + n : i \in P})
         /\ Cardinality({i + n : i \in P}) = Cardinality(P)
<1> DEFINE Q == {i + n : i \in P}
           f == [i \in P |-> i + n]
<1>1. f \in [P -> Q]
  OBVIOUS
<1>2. \A i, j \in P : f[i] = f[j] => i = j
  OBVIOUS
<1>3. \A q \in Q : \E i \in P : f[i] = q
  OBVIOUS
<1>4. f \in Bijection(P, Q)
  BY <1>1, <1>2, <1>3 DEF Bijection, Injection, Surjection, IsInjective
<1>5. ExistsBijection(P, Q)
  BY <1>4 DEF ExistsBijection
<1> QED
  BY <1>5, FS_Bijection

\* What a concatenation holds is what its halves hold.
LEMMA CountConcat ==
  ASSUME NEW S, NEW s \in Seq(S), NEW t \in Seq(S), NEW R
  PROVE  Count(s \o t, R) = Count(s, R) + Count(t, R)
<1> DEFINE P == Places(s, R)
           Q == {i + Len(s) : i \in Places(t, R)}
<1>1. /\ DOMAIN s = 1..Len(s) /\ Len(s) \in Nat
      /\ DOMAIN t = 1..Len(t) /\ Len(t) \in Nat
  OBVIOUS
<1>2. /\ DOMAIN (s \o t) = 1..(Len(s) + Len(t))
      /\ \A i \in 1..(Len(s) + Len(t)) :
           (s \o t)[i] = IF i <= Len(s) THEN s[i] ELSE t[i - Len(s)]
  BY ConcatProperties
<1>3. Places(s \o t, R) = P \cup Q
  <2>1. ASSUME NEW i \in Places(s \o t, R) PROVE i \in P \cup Q
    <3>1. i \in 1..(Len(s) + Len(t)) /\ (s \o t)[i] \in R
      BY <1>2 DEF Places
    <3>2. CASE i <= Len(s)
      BY <1>1, <1>2, <3>1, <3>2 DEF Places
    <3>3. CASE i > Len(s)
      <4>1. i - Len(s) \in DOMAIN t /\ t[i - Len(s)] \in R
        BY <1>1, <1>2, <3>1, <3>3
      <4>2. i = (i - Len(s)) + Len(s)
        BY <1>1, <3>1
      <4> QED
        BY <4>1, <4>2 DEF Places
    <3> QED
      BY <1>1, <3>1, <3>2, <3>3
  <2>2. ASSUME NEW i \in P PROVE i \in Places(s \o t, R)
    BY <1>1, <1>2 DEF Places
  <2>3. ASSUME NEW j \in Places(t, R) PROVE j + Len(s) \in Places(s \o t, R)
    <3>1. j \in 1..Len(t) /\ t[j] \in R
      BY <1>1 DEF Places
    <3>2. j + Len(s) \in 1..(Len(s) + Len(t)) /\ (s \o t)[j + Len(s)] = t[j]
      BY <1>1, <1>2, <3>1
    <3> QED
      BY <1>2, <3>1, <3>2 DEF Places
  <2> QED
    BY <2>1, <2>2, <2>3
<1>4. P \cap Q = {}
  BY <1>1 DEF Places
<1>5. Places(t, R) \in SUBSET Nat /\ IsFiniteSet(Places(t, R)) /\ IsFiniteSet(P)
  <2>1. Places(t, R) \in SUBSET Nat
    BY <1>1 DEF Places
  <2>2. IsFiniteSet(Places(t, R)) /\ IsFiniteSet(Places(s, R))
    BY CountType
  <2> QED
    BY <2>1, <2>2
<1>6. IsFiniteSet(Q) /\ Cardinality(Q) = Count(t, R)
  BY <1>1, <1>5, ShiftedCount DEF Count
<1> HIDE DEF P, Q
<1>7. Cardinality(P \cup Q) = Cardinality(P) + Cardinality(Q)
  <2>1. Cardinality(P \cup Q) = Cardinality(P) + Cardinality(Q) - Cardinality(P \cap Q)
    BY <1>5, <1>6, FS_Union
  <2>2. Cardinality(P \cap Q) = 0
    BY <1>4, FS_EmptySet
  <2>3. Cardinality(P) \in Nat /\ Cardinality(Q) \in Nat
    BY <1>5, <1>6, FS_CardinalityType
  <2> QED
    BY <2>1, <2>2, <2>3
<1> QED
  BY <1>3, <1>6, <1>7 DEF Count, P

\* One element is counted once or not at all, no element never.
LEMMA CountOne ==
  ASSUME NEW x, NEW R
  PROVE  Count(<<x>>, R) = One(x \in R) /\ Count(<<>>, R) = 0
<1>0. Places(<<>>, R) = {} /\ Cardinality({}) = 0
  BY FS_EmptySet DEF Places
<1>1. CASE x \in R
  <2>1. Places(<<x>>, R) = {1} /\ Cardinality({1}) = 1
    BY <1>1, FS_Singleton DEF Places
  <2> QED
    BY <1>0, <1>1, <2>1 DEF Count, One
<1>2. CASE x \notin R
  <2>1. Places(<<x>>, R) = {}
    BY <1>2 DEF Places
  <2> QED
    BY <1>0, <1>2, <2>1 DEF Count, One
<1> QED
  BY <1>1, <1>2

\* What an append adds to the elements of a sequence.
LEMMA ElementsAppend ==
  ASSUME NEW S, NEW s \in Seq(S), NEW x \in S
  PROVE  Elements(Append(s, x)) = Elements(s) \cup {x}
<1> DEFINE t == Append(s, x)
<1>1. /\ DOMAIN t = 1..(Len(s) + 1) /\ t[Len(s) + 1] = x
      /\ DOMAIN s = 1..Len(s) /\ Len(s) \in Nat
      /\ \A i \in 1..Len(s) : t[i] = s[i]
  BY AppendProperties
<1> HIDE DEF t
<1>2. ASSUME NEW i \in DOMAIN t PROVE t[i] \in Elements(s) \cup {x}
  BY <1>1 DEF Elements
<1>3. ASSUME NEW i \in DOMAIN s PROVE s[i] \in Elements(t)
  BY <1>1 DEF Elements
<1>4. x \in Elements(t)
  BY <1>1 DEF Elements
<1> QED
  BY <1>2, <1>3, <1>4 DEF Elements, t

(***************************************************************************)
(* Entries in queues                                                       *)
(***************************************************************************)

\* An entry occurs in a queue as often as it is counted, and it is an element of
\* the queue when it occurs.
LEMMA OccurrenceType ==
  ASSUME NEW s \in Seq(Entry), NEW e
  PROVE  /\ Occurrences(s, e) = Count(s, {e})
         /\ Occurrences(s, e) \in Nat
         /\ Occurrences(s, e) = 0 <=> e \notin Elements(s)
<1>1. Occurrences(s, e) = Count(s, {e})
  BY DEF Occurrences, Count, Places
<1>2. Count(s, {e}) \in Nat /\ (Count(s, {e}) = 0 <=> \A i \in DOMAIN s : s[i] \notin {e})
  BY CountType
<1> QED
  BY <1>1, <1>2 DEF Elements

\* What each move of the queues does to the occurrences of an entry.
LEMMA OccurrenceMoves ==
  ASSUME NEW s \in Seq(Entry), NEW e
  PROVE  /\ Occurrences(<<>>, e) = 0
         /\ \A t \in Seq(Entry) : Occurrences(s \o t, e) = Occurrences(s, e) + Occurrences(t, e)
         /\ \A x \in Entry : Occurrences(Append(s, x), e) = Occurrences(s, e) + One(x = e)
         /\ s # <<>> => Occurrences(s, e) = One(Head(s) = e) + Occurrences(Tail(s), e)
<1>1. \A t \in Seq(Entry) : Occurrences(t, e) = Count(t, {e})
  BY OccurrenceType
<1>2. \A x : Count(<<x>>, {e}) = One(x = e) /\ Count(<<>>, {e}) = 0
  <2>1. \A x : x \in {e} <=> x = e
    OBVIOUS
  <2> QED
    BY <2>1, CountOne DEF One
<1>3. <<>> \in Seq(Entry) /\ \A x \in Entry : <<x>> \in Seq(Entry)
  OBVIOUS
<1>4. \A t, u \in Seq(Entry) : t \o u \in Seq(Entry) /\ Count(t \o u, {e}) = Count(t, {e}) + Count(u, {e})
  BY CountConcat
<1>5. \A x \in Entry : Append(s, x) = s \o <<x>>
  BY AppendIsConcat
<1>6. s # <<>> => Head(s) \in Entry /\ Tail(s) \in Seq(Entry) /\ s = <<Head(s)>> \o Tail(s)
  OBVIOUS
<1>7. ASSUME NEW x \in Entry
      PROVE  Occurrences(Append(s, x), e) = Occurrences(s, e) + One(x = e)
  <2>1. Append(s, x) \in Seq(Entry) /\ <<x>> \in Seq(Entry) /\ Append(s, x) = s \o <<x>>
    BY <1>5
  <2>2. Count(s \o <<x>>, {e}) = Count(s, {e}) + Count(<<x>>, {e})
    BY <1>4, <2>1
  <2>3. Occurrences(Append(s, x), e) = Count(Append(s, x), {e})
    BY <1>1, <2>1
  <2> QED
    BY <1>1, <1>2, <2>1, <2>2, <2>3
<1>8. ASSUME s # <<>>
      PROVE  Occurrences(s, e) = One(Head(s) = e) + Occurrences(Tail(s), e)
  <2>1. Count(s, {e}) = Count(<<Head(s)>>, {e}) + Count(Tail(s), {e})
    BY <1>3, <1>4, <1>6, <1>8
  <2> QED
    BY <1>1, <1>2, <1>6, <1>8, <2>1
<1>9. ASSUME NEW t \in Seq(Entry)
      PROVE  Occurrences(s \o t, e) = Occurrences(s, e) + Occurrences(t, e)
  BY <1>1, <1>4
<1>10. Occurrences(<<>>, e) = 0
  <2>1. Occurrences(<<>>, e) = Count(<<>>, {e})
    BY <1>3, OccurrenceType
  <2> QED
    BY <2>1, CountOne
<1> QED
  BY <1>7, <1>8, <1>9, <1>10

\* retain_out_matching takes one occurrence of the entry it is asked for, if there
\* is one, and leaves the others.
LEMMA WithoutOccurrences ==
  ASSUME NEW s \in Seq(Entry), NEW x, NEW e
  PROVE  Occurrences(Without(s, x), e)
           = Occurrences(s, e) - One(x = e /\ x \in Elements(s))
<1>1. CASE x \notin Elements(s)
  <2>1. Without(s, x) = s /\ Occurrences(s, e) \in Nat
    BY <1>1, OccurrenceType DEF Without
  <2> QED
    BY <1>1, <2>1 DEF One
<1>2. CASE x \in Elements(s)
  <2> DEFINE i == CHOOSE i \in DOMAIN s : s[i] = x
             a == SubSeq(s, 1, i - 1)
             b == SubSeq(s, i + 1, Len(s))
  <2>1. i \in 1..Len(s) /\ s[i] = x
    BY <1>2 DEF Elements
  <2>2. Without(s, x) = a \o b
    BY <1>2 DEF Without
  <2> HIDE DEF i
  <2>3. /\ a \in Seq(Entry) /\ Len(a) = i - 1 /\ \A k \in 1..(i - 1) : a[k] = s[k]
        /\ b \in Seq(Entry) /\ Len(b) = Len(s) - i /\ \A k \in 1..(Len(s) - i) : b[k] = s[i + k]
        /\ x \in Entry
    BY <2>1
  <2> HIDE DEF a, b
  <2>4. s = Append(a, x) \o b
    <3>1. Append(a, x) \in Seq(Entry) /\ Len(Append(a, x)) = i
          /\ \A k \in 1..i : Append(a, x)[k] = s[k]
      <4> DEFINE h == Append(a, x)
      <4>0. Len(a) \in Nat /\ Len(a) + 1 = i
        BY <2>1, <2>3
      <4>1. /\ h \in Seq(Entry) /\ Len(h) = Len(a) + 1 /\ h[Len(a) + 1] = x
            /\ \A k \in 1..Len(a) : h[k] = a[k]
        BY <2>3, AppendProperties
      <4> HIDE DEF h
      <4>2. \A k \in 1..i : h[k] = s[k]
        <5>1. ASSUME NEW k \in 1..i PROVE h[k] = s[k]
          <6>1. CASE k = i
            BY <2>1, <4>0, <4>1, <6>1
          <6>2. CASE k # i
            <7>1. k \in 1..(i - 1) /\ k \in 1..Len(a)
              BY <2>1, <4>0, <6>2
            <7> QED
              BY <2>3, <4>1, <7>1
          <6> QED
            BY <6>1, <6>2
        <5> QED
          BY <5>1
      <4> QED
        BY <4>0, <4>1, <4>2 DEF h
    <3>2. /\ Append(a, x) \o b \in Seq(Entry)
          /\ Len(Append(a, x) \o b) = Len(s)
          /\ \A k \in 1..Len(s) : (Append(a, x) \o b)[k] =
                IF k <= i THEN Append(a, x)[k] ELSE b[k - i]
      <4> DEFINE h == Append(a, x)
      <4>1. h \in Seq(Entry) /\ b \in Seq(Entry) /\ Len(h) = i /\ Len(b) = Len(s) - i
            /\ i + (Len(s) - i) = Len(s)
        BY <2>1, <2>3, <3>1
      <4> HIDE DEF h
      <4>2. /\ h \o b \in Seq(Entry) /\ Len(h \o b) = Len(h) + Len(b)
            /\ \A k \in 1..(Len(h) + Len(b)) :
                 (h \o b)[k] = IF k <= Len(h) THEN h[k] ELSE b[k - Len(h)]
        BY <4>1, ConcatProperties
      <4> QED
        BY <4>1, <4>2 DEF h
    <3>3. \A k \in 1..Len(s) : (Append(a, x) \o b)[k] = s[k]
      BY <2>1, <2>3, <3>1, <3>2
    <3> DEFINE t == Append(a, x) \o b
    <3>4. t \in Seq(Entry) /\ Len(s) = Len(t) /\ \A k \in 1..Len(s) : s[k] = t[k]
      BY <3>2, <3>3
    <3> HIDE DEF t
    <3>5. s = t
      BY <3>4, SeqEqual
    <3> QED
      BY <3>5 DEF t
  <2>5. Append(a, x) \in Seq(Entry)
    BY <2>3
  <2>6. /\ Occurrences(s, e) = Occurrences(a, e) + One(x = e) + Occurrences(b, e)
        /\ Occurrences(a \o b, e) = Occurrences(a, e) + Occurrences(b, e)
    <3> DEFINE h == Append(a, x)
    <3>1. Occurrences(h, e) = Occurrences(a, e) + One(x = e)
      BY <2>3, OccurrenceMoves
    <3>2. Occurrences(a \o b, e) = Occurrences(a, e) + Occurrences(b, e)
      BY <2>3, OccurrenceMoves
    <3>3. h \in Seq(Entry) /\ s = h \o b
      BY <2>4, <2>5
    <3> HIDE DEF h
    <3>4. Occurrences(s, e) = Occurrences(h, e) + Occurrences(b, e)
      BY <2>3, <3>3, OccurrenceMoves
    <3> QED
      BY <3>1, <3>2, <3>4
  <2>7. Occurrences(a, e) \in Nat /\ Occurrences(b, e) \in Nat
    BY <2>3, OccurrenceType
  <2> QED
    BY <1>2, <2>2, <2>6, <2>7 DEF One
<1> QED
  BY <1>1, <1>2

\* A consumption is a row of a user message or the echo of a command.
Spent(e) == {r \in Row : r.kind \in {"user", "echo"} /\ r.id = e}

\* How often an entry has been consumed, and what one more row does to that.
LEMMA ConsumptionCounts ==
  ASSUME NEW s \in Seq(Row), NEW e
  PROVE  /\ Count(s, Spent(e)) =
              Cardinality({i \in DOMAIN s : s[i].kind \in {"user", "echo"} /\ s[i].id = e})
         /\ Count(s, Spent(e)) \in Nat
         /\ Count(<<>>, Spent(e)) = 0
         /\ \A r \in Row : Count(Append(s, r), Spent(e)) =
                             Count(s, Spent(e)) + One(r.kind \in {"user", "echo"} /\ r.id = e)
<1>1. Places(s, Spent(e)) = {i \in DOMAIN s : s[i].kind \in {"user", "echo"} /\ s[i].id = e}
  <2>1. \A i \in DOMAIN s : s[i] \in Row
    OBVIOUS
  <2> QED
    BY <2>1 DEF Places, Spent
<1>2. ASSUME NEW r \in Row
      PROVE  Count(Append(s, r), Spent(e)) =
               Count(s, Spent(e)) + One(r.kind \in {"user", "echo"} /\ r.id = e)
  <2>1. Append(s, r) = s \o <<r>> /\ <<r>> \in Seq(Row)
    BY AppendIsConcat
  <2>2. Count(s \o <<r>>, Spent(e)) = Count(s, Spent(e)) + Count(<<r>>, Spent(e))
    BY <2>1, CountConcat
  <2>3. Count(<<r>>, Spent(e)) = One(r \in Spent(e))
    BY CountOne
  <2>4. r \in Spent(e) <=> (r.kind \in {"user", "echo"} /\ r.id = e)
    BY DEF Spent
  <2> QED
    BY <2>1, <2>2, <2>3, <2>4 DEF One
<1>3. Count(s, Spent(e)) \in Nat
  BY CountType
<1>4. Count(<<>>, Spent(e)) = 0
  BY CountOne
<1> QED
  BY <1>1, <1>2, <1>3, <1>4 DEF Count

(***************************************************************************)
(* Steps that move no entry                                                *)
(***************************************************************************)

\* The steps that move entries between the channel, the queues, the batch, the
\* history and what is removed or lost.
Moving ==
  \/ \E e \in Entry : Send(e) \/ RemovePending(e)
  \/ RemoveGuide \/ Crash
  \/ TakeGuide \/ DrainPending \/ TakePaused \/ ConsumeUser \/ ConsumeControl
  \/ StreamInbound \/ ToolsInbound \/ IdleInbound

\* The history is left alone or gets a row that consumes no entry.
NothingConsumed ==
  \/ log' = log
  \/ \E r \in Row : log' = Append(log, r) /\ r.kind \notin {"user", "echo"}

\* Every other step leaves the entries where they are.
LEMMA OthersMoveNothing ==
  ASSUME TypeOK, [Next]_vars, ~Moving
  PROVE  UNCHANGED <<inbound, queues, batch, sent, removed, lost, remover>> /\ NothingConsumed
<1> USE CallAssumption DEF queues, channels, batchVars, streamVars, toolVars, callerVars, gate
<1> DEFINE Still == UNCHANGED <<inbound, queues, batch, sent, removed, lost, remover>>
           Silent == Kinds \ {"user", "echo"}
<1>k. Kinds = {"user", "echo", "compaction", "final", "tooluse", "partial",
               "tool", "aborted", "interrupt", "error"}
  BY DEF Kinds
\* Rows that are written by Emit or as an event.
<1>r. ASSUME NEW kind \in Silent, NEW id \in Call \cup {NoId}, NEW calls \in SUBSET Call,
             NEW fate \in Fates, log' = Append(log, RowOf(kind, id, calls, fate))
      PROVE  NothingConsumed
  <2>1. RowOf(kind, id, calls, fate) \in Row /\ RowOf(kind, id, calls, fate).kind = kind
    BY RowType, KindOf
  <2> QED
    BY <1>r, <2>1 DEF NothingConsumed
<1>m. ASSUME NEW kind \in Silent, NEW id \in Call \cup {NoId}, NEW calls \in SUBSET Call,
             NEW fate \in HistoryFates, Emit(kind, id, calls, fate)
      PROVE  NothingConsumed
  <2>1. fate \in Fates
    BY DEF Fates, HistoryFates
  <2> QED
    BY <1>m, <1>r, <2>1 DEF Emit
<1>v. ASSUME NEW kind \in Silent, log' = Append(log, Event(kind, NoId)) PROVE NothingConsumed
  <2>1. log' = Append(log, RowOf(kind, NoId, {}, "event")) /\ "event" \in Fates
    BY <1>v DEF Event, Fates
  <2> QED
    BY <1>r, <2>1
<1>1. CASE SendInterrupt \/ Shutdown
  BY <1>1 DEF SendInterrupt, Shutdown, NothingConsumed
<1>2. CASE PreCompress
  <2>1. Still /\ (log' = log \/ log' = Append(log, RowOf("compaction", NoId, {}, "saved")))
    BY <1>2 DEF PreCompress
  <2>2. CASE log' = log
    BY <2>1, <2>2 DEF NothingConsumed
  <2>3. CASE log' = Append(log, RowOf("compaction", NoId, {}, "saved"))
    BY <1>r, <1>k, <2>1, <2>3 DEF Fates
  <2> QED
    BY <2>1, <2>2, <2>3
<1>3. CASE BatchDone
  BY <1>3 DEF BatchDone, NothingConsumed
<1>4. CASE Resolve
  <2>1. Still /\ (log' = log \/ log' = Append(log, Event("error", NoId)))
    BY <1>4 DEF Resolve
  <2> QED
    BY <1>v, <1>k, <2>1 DEF NothingConsumed
<1>5. CASE StreamText \/ (\E c \in Call : StreamCall(c)) \/ StreamRetry \/ BackoffEnd
  BY <1>5 DEF StreamText, StreamCall, StreamRetry, BackoffEnd, NothingConsumed
<1>6. CASE StreamFail \/ CancelInBackoff
  <2>1. Still /\ log' = Append(log, Event("error", NoId))
    BY <1>6 DEF StreamFail, CancelInBackoff
  <2> QED
    BY <1>v, <1>k, <2>1
<1>7. CASE StreamFinal
  <2>1. Still /\ \E fate \in HistoryFates : Emit("final", NoId, {}, fate)
    BY <1>7 DEF StreamFinal
  <2> QED
    BY <1>m, <1>k, <2>1
<1>8. CASE StreamTools
  <2>1. received \in SUBSET Call
    BY DEF TypeOK, DataOK
  <2>2. Still
    BY <1>8 DEF StreamTools
  <2>3. PICK effective \in SUBSET received, fate \in HistoryFates :
          log' = Append(log, RowOf("tooluse", NoId, effective, fate))
    BY <1>8 DEF StreamTools
  <2>4. fate \in Fates
    BY DEF Fates, HistoryFates
  <2> QED
    BY <1>r, <1>k, <2>1, <2>2, <2>3, <2>4
<1>9. CASE \E c \in Call : ToolFinish(c)
  BY <1>9 DEF ToolFinish, NothingConsumed
<1>10. CASE \E c \in Call : ToolRecord(c) \/ DrainRecord(c)
  <2>1. PICK c \in Call : Record(c)
    BY <1>10 DEF ToolRecord, DrainRecord
  <2>2. Still /\ \E fate \in HistoryFates : Emit("tool", c, {}, fate)
    BY <2>1 DEF Record
  <2> QED
    BY <1>m, <1>k, <2>2
<1>11. CASE ToolsDone \/ ToolsDrained \/ CloseTools \/ IdleShutdown
  BY <1>11 DEF ToolsDone, ToolsDrained, CloseTools, IdleShutdown, NothingConsumed
<1>12. CASE CloseStream
  <2>1. Still
    BY <1>12 DEF CloseStream
  <2>2. CASE text \/ partial # {}
    BY <1>12, <1>m, <1>k, <2>1, <2>2 DEF CloseStream
  <2>3. CASE ~(text \/ partial # {})
    BY <1>12, <2>1, <2>3 DEF CloseStream, NothingConsumed
  <2> QED
    BY <2>2, <2>3
<1>13. CASE \E c \in Call : CloseAbort(c)
  <2>1. PICK c \in Call : CloseAbort(c)
    BY <1>13
  <2>2. Still /\ \E fate \in HistoryFates : Emit("aborted", c, {}, fate)
    BY <2>1 DEF CloseAbort
  <2> QED
    BY <1>m, <1>k, <2>2
<1>14. CASE CloseNotify \/ IdleInterrupt
  <2>1. Still /\ log' = Append(log, Event("interrupt", NoId))
    BY <1>14 DEF CloseNotify, IdleInterrupt
  <2> QED
    BY <1>v, <1>k, <2>1
<1>15. CASE UNCHANGED stateVars
  BY <1>15 DEF stateVars, NothingConsumed
<1>16. CASE CallerStep
  BY <1>1, <1>16 DEF CallerStep, Moving
<1>17. CASE PollStep
  BY <1>5, <1>9, <1>17 DEF PollStep
<1>18. CASE BranchStep
  BY <1>2, <1>3, <1>4, <1>6, <1>7, <1>8, <1>10, <1>11, <1>12, <1>13, <1>14, <1>18
  DEF BranchStep, Moving
<1> QED
  BY <1>15, <1>16, <1>17, <1>18 DEF Next, TaskStep, NewPass, vars

(***************************************************************************)
(* Every accepted entry is in one place                                    *)
(***************************************************************************)

\* A batch is held only where it is prepared or consumed: a take never overwrites one.
BatchHeld == pc \notin {"batch", "precompress", "exited"} => batch = <<>>

LEMMA BatchStep == BatchHeld /\ [Next]_vars => BatchHeld'
<1> SUFFICES ASSUME BatchHeld, [Next]_vars PROVE BatchHeld'
  OBVIOUS
<1> USE DEF BatchHeld, channels, queues, gate, batchVars, streamVars, toolVars, callerVars
<1>1. CASE CallerStep
  BY <1>1 DEF CallerStep, Send, RemovePending, RemoveGuide, SendInterrupt, Shutdown, Crash
<1>2. CASE UNCHANGED stateVars
  BY <1>2 DEF stateVars
<1>3. CASE TakeGuide \/ DrainPending \/ TakePaused \/ PreCompress
  BY <1>3 DEF TakeGuide, DrainPending, TakePaused, PreCompress, AfterTake
<1>4. CASE ConsumeUser \/ ConsumeControl \/ BatchDone \/ Resolve
  BY <1>4 DEF ConsumeUser, ConsumeControl, BatchDone, Resolve, OpenStream, EndTurn
<1>5. CASE \/ StreamInbound \/ StreamText \/ (\E c \in Call : StreamCall(c))
           \/ StreamRetry \/ BackoffEnd \/ StreamFail \/ CancelInBackoff
           \/ StreamFinal \/ StreamTools
  BY <1>5 DEF StreamInbound, StreamText, StreamCall, StreamRetry, BackoffEnd, StreamFail,
              CancelInBackoff, StreamFinal, StreamTools, EndTurn, Polled
<1>6. CASE \/ (\E c \in Call : ToolFinish(c) \/ ToolRecord(c) \/ DrainRecord(c) \/ CloseAbort(c))
           \/ ToolsInbound \/ ToolsDone \/ ToolsDrained
  BY <1>6 DEF ToolFinish, ToolRecord, DrainRecord, CloseAbort, Record, ToolsInbound, ToolsDone,
              ToolsDrained, ToolsPolled
<1>7. CASE CloseStream \/ CloseTools \/ CloseNotify \/ IdleShutdown \/ IdleInbound \/ IdleInterrupt
  BY <1>7 DEF CloseStream, CloseTools, CloseNotify, IdleShutdown, IdleInbound, IdleInterrupt, EndTurn
<1>8. CASE PollStep \/ BranchStep
  BY <1>3, <1>4, <1>5, <1>6, <1>7, <1>8 DEF PollStep, BranchStep
<1> QED
  BY <1>1, <1>2, <1>8 DEF Next, TaskStep, NewPass, vars

\* How many places an entry is in.
InPlaces(e) ==
  Occurrences(inbound, e) + Occurrences(guide, e) + Occurrences(pending, e)
    + Occurrences(batch, e) + Count(log, Spent(e)) + One(e \in removed) + One(e \in lost)

\* The terms of the sum are numbers, and it is the sum of Conservation.
LEMMA PlacesAreCounted ==
  ASSUME TypeOK, NEW e \in Entry
  PROVE  /\ Occurrences(inbound, e) \in Nat /\ Occurrences(guide, e) \in Nat
         /\ Occurrences(pending, e) \in Nat /\ Occurrences(batch, e) \in Nat
         /\ Count(log, Spent(e)) \in Nat /\ Count(log, Spent(e)) = TimesConsumed(e)
         /\ Occurrences(inbound, e) = 0 <=> e \notin Elements(inbound)
         /\ Occurrences(guide, e) = 0 <=> e \notin Elements(guide)
         /\ Occurrences(pending, e) = 0 <=> e \notin Elements(pending)
         /\ Occurrences(batch, e) = 0 <=> e \notin Elements(batch)
<1>1. /\ inbound \in Seq(Entry) /\ guide \in Seq(Entry) /\ pending \in Seq(Entry)
      /\ batch \in Seq(Entry) /\ log \in Seq(Row)
  BY DEF TypeOK, DataOK
<1>2. \A s \in Seq(Entry) : Occurrences(s, e) \in Nat /\ (Occurrences(s, e) = 0 <=> e \notin Elements(s))
  BY OccurrenceType
<1>3. /\ Count(log, Spent(e)) = Cardinality({i \in DOMAIN log : log[i].kind \in {"user", "echo"} /\ log[i].id = e})
      /\ Count(log, Spent(e)) \in Nat
  BY <1>1, ConsumptionCounts
<1> QED
  BY <1>1, <1>2, <1>3 DEF TimesConsumed

\* Conservation, said of one entry.
LEMMA ConservationIs ==
  ASSUME TypeOK
  PROVE  Conservation <=> \A e \in Entry : InPlaces(e) = One(e \in Elements(sent))
BY PlacesAreCounted DEF Conservation, InPlaces

\* No step copies or drops an entry.
LEMMA ConservationStep ==
  ASSUME TypeOK, TypeOK', Conservation, BatchHeld, [Next]_vars
  PROVE  Conservation'
<1> USE DEF channels, queues, gate, batchVars, streamVars, toolVars, callerVars
<1>t. /\ inbound \in Seq(Entry) /\ guide \in Seq(Entry) /\ pending \in Seq(Entry)
      /\ batch \in Seq(Entry) /\ log \in Seq(Row) /\ sent \in Seq(Entry)
      /\ log' \in Seq(Row)
  BY DEF TypeOK, DataOK
<1>s. SUFFICES ASSUME NEW x \in Entry PROVE InPlaces(x)' = One(x \in Elements(sent))'
  <2>1. \A e \in Entry : TimesConsumed(e)' = Count(log', Spent(e))
    BY <1>t, ConsumptionCounts DEF TimesConsumed
  <2> QED
    BY <2>1 DEF Conservation, InPlaces
\* The terms of the sum before the step.
<1> DEFINE i == Occurrences(inbound, x)
           g == Occurrences(guide, x)
           p == Occurrences(pending, x)
           b == Occurrences(batch, x)
           u == Count(log, Spent(x))
<1>n. /\ i \in Nat /\ g \in Nat /\ p \in Nat /\ b \in Nat /\ u \in Nat
      /\ i = 0 <=> x \notin Elements(inbound)
      /\ g = 0 <=> x \notin Elements(guide)
      /\ p = 0 <=> x \notin Elements(pending)
      /\ b = 0 <=> x \notin Elements(batch)
  BY PlacesAreCounted
<1>c. i + g + p + b + u + One(x \in removed) + One(x \in lost) = One(x \in Elements(sent))
  BY ConservationIs DEF InPlaces
<1>o. \A s \in Seq(Entry) :
        /\ Occurrences(<<>>, x) = 0
        /\ \A t \in Seq(Entry) : Occurrences(s \o t, x) = Occurrences(s, x) + Occurrences(t, x)
        /\ \A y \in Entry : Occurrences(Append(s, y), x) = Occurrences(s, x) + One(y = x)
        /\ s # <<>> => Occurrences(s, x) = One(Head(s) = x) + Occurrences(Tail(s), x)
        /\ \A y : Occurrences(Without(s, y), x) = Occurrences(s, x) - One(y = x /\ y \in Elements(s))
  BY OccurrenceMoves, WithoutOccurrences
<1>l. \A r \in Row : Count(Append(log, r), Spent(x)) = u + One(r.kind \in {"user", "echo"} /\ r.id = x)
  BY <1>t, ConsumptionCounts
<1>z. /\ One(x \in removed) \in {0, 1} /\ One(x \in lost) \in {0, 1}
      /\ One(x \in Elements(sent)) \in {0, 1}
  BY DEF One
<1> HIDE DEF i, g, p, b, u
\* A step that leaves the entries alone.
<1>0. ASSUME UNCHANGED <<inbound, queues, batch, sent, removed, lost>>, NothingConsumed
      PROVE  InPlaces(x)' = One(x \in Elements(sent))'
  <2>1. Count(log', Spent(x)) = u
    <3>1. CASE log' = log
      BY <3>1 DEF u
    <3>2. CASE \E r \in Row : log' = Append(log, r) /\ r.kind \notin {"user", "echo"}
      BY <1>l, <1>n, <3>2 DEF One
    <3> QED
      BY <1>0, <3>1, <3>2 DEF NothingConsumed
  <2> QED
    BY <1>0, <1>c, <2>1 DEF InPlaces, i, g, p, b, u
<1>1. ASSUME NEW e \in Entry, Send(e) PROVE InPlaces(x)' = One(x \in Elements(sent))'
  <2>1. /\ e \notin Elements(sent) /\ inbound' = Append(inbound, e) /\ sent' = Append(sent, e)
        /\ UNCHANGED <<queues, batch, log, removed, lost>>
    BY <1>1 DEF Send
  <2>2. Elements(sent') = Elements(sent) \cup {e}
    BY <1>t, <2>1, ElementsAppend
  <2>3. Occurrences(inbound', x) = i + One(e = x)
    BY <1>t, <1>o, <2>1 DEF i
  <2>4. InPlaces(x)' = i + One(e = x) + g + p + b + u + One(x \in removed) + One(x \in lost)
    BY <2>1, <2>3 DEF InPlaces, g, p, b, u
  <2>5. /\ One(x \in Elements(sent))' = One(x \in Elements(sent)) + One(e = x)
        /\ One(e = x) \in {0, 1}
    BY <2>1, <2>2 DEF One
  <2> QED
    BY <1>c, <1>n, <1>z, <2>4, <2>5
<1>2. ASSUME NEW e \in Entry, RemovePending(e) PROVE InPlaces(x)' = One(x \in Elements(sent))'
  <2>1. /\ pending' = Without(pending, e)
        /\ removed' = IF e \in Elements(pending) THEN removed \cup {e} ELSE removed
        /\ UNCHANGED <<inbound, guide, batch, log, sent, lost>>
    BY <1>2 DEF RemovePending
  <2>2. Occurrences(pending', x) = p - One(e = x /\ e \in Elements(pending))
    BY <1>t, <1>o, <2>1 DEF p
  <2>3. InPlaces(x)' = i + g + p + b + u - One(e = x /\ e \in Elements(pending))
                         + One(x \in removed') + One(x \in lost)
    <3>1. InPlaces(x)' = i + g + (p - One(e = x /\ e \in Elements(pending))) + b + u
                         + One(x \in removed') + One(x \in lost)
      BY <2>1, <2>2 DEF InPlaces, i, g, b, u
    <3>2. One(e = x /\ e \in Elements(pending)) \in {0, 1} /\ One(x \in removed') \in {0, 1}
      BY DEF One
    <3> QED
      BY <1>n, <1>z, <3>1, <3>2
  <2>4. CASE e = x /\ e \in Elements(pending)
    <3>1. p > 0 /\ x \in removed'
      BY <1>n, <2>1, <2>4
    <3>2. One(e = x /\ e \in Elements(pending)) = 1 /\ One(x \in removed') = 1
      BY <2>4, <3>1 DEF One
    <3>3. One(x \in removed) = 0
      BY <1>c, <1>n, <1>z, <3>1
    <3> QED
      BY <1>c, <1>n, <1>z, <2>1, <2>3, <3>2, <3>3
  <2>5. CASE ~(e = x /\ e \in Elements(pending))
    <3>1. One(e = x /\ e \in Elements(pending)) = 0 /\ One(x \in removed') = One(x \in removed)
      BY <2>1, <2>5 DEF One
    <3> QED
      BY <1>c, <1>n, <1>z, <2>1, <2>3, <3>1
  <2> QED
    BY <2>4, <2>5
<1>3. CASE RemoveGuide
  <2> DEFINE e == remover.entry
  <2>1. /\ guide' = Without(guide, e)
        /\ removed' = IF e \in Elements(guide) THEN removed \cup {e} ELSE removed
        /\ UNCHANGED <<inbound, pending, batch, log, sent, lost>>
    BY <1>3 DEF RemoveGuide
  <2> HIDE DEF e
  <2>2. Occurrences(guide', x) = g - One(e = x /\ e \in Elements(guide))
    BY <1>t, <1>o, <2>1 DEF g
  <2>3. InPlaces(x)' = i + g + p + b + u - One(e = x /\ e \in Elements(guide))
                         + One(x \in removed') + One(x \in lost)
    <3>1. InPlaces(x)' = i + (g - One(e = x /\ e \in Elements(guide))) + p + b + u
                         + One(x \in removed') + One(x \in lost)
      BY <2>1, <2>2 DEF InPlaces, i, p, b, u
    <3>2. One(e = x /\ e \in Elements(guide)) \in {0, 1} /\ One(x \in removed') \in {0, 1}
      BY DEF One
    <3> QED
      BY <1>n, <1>z, <3>1, <3>2
  <2>4. CASE e = x /\ e \in Elements(guide)
    <3>1. g > 0 /\ x \in removed'
      BY <1>n, <2>1, <2>4
    <3>2. One(e = x /\ e \in Elements(guide)) = 1 /\ One(x \in removed') = 1
      BY <2>4, <3>1 DEF One
    <3>3. One(x \in removed) = 0
      BY <1>c, <1>n, <1>z, <3>1
    <3> QED
      BY <1>c, <1>n, <1>z, <2>1, <2>3, <3>2, <3>3
  <2>5. CASE ~(e = x /\ e \in Elements(guide))
    <3>1. One(e = x /\ e \in Elements(guide)) = 0 /\ One(x \in removed') = One(x \in removed)
      BY <2>1, <2>5 DEF One
    <3> QED
      BY <1>c, <1>n, <1>z, <2>1, <2>3, <3>1
  <2> QED
    BY <2>4, <2>5
<1>4. CASE Crash
  <2>1. /\ inbound' = <<>> /\ guide' = <<>> /\ pending' = <<>> /\ batch' = <<>>
        /\ lost' = lost \cup InMemory
        /\ UNCHANGED <<log, sent, removed>>
    BY <1>4 DEF Crash
  <2>2. Occurrences(<<>>, x) = 0
    BY <1>t, <1>o
  <2>3. x \in InMemory <=> i + g + p + b > 0
    BY <1>n DEF InMemory
  <2>4. InPlaces(x)' = u + One(x \in removed) + One(x \in lost')
    <3>1. InPlaces(x)' = 0 + 0 + 0 + 0 + u + One(x \in removed) + One(x \in lost')
      BY <2>1, <2>2 DEF InPlaces, u
    <3>2. One(x \in lost') \in {0, 1}
      BY DEF One
    <3> QED
      BY <1>n, <1>z, <3>1, <3>2
  <2>5. CASE x \in InMemory
    <3>1. One(x \in lost') = 1
      BY <2>1, <2>5 DEF One
    <3> QED
      BY <1>c, <1>n, <1>z, <2>1, <2>3, <2>4, <2>5, <3>1
  <2>6. CASE x \notin InMemory
    <3>1. One(x \in lost') = One(x \in lost)
      BY <2>1, <2>6 DEF One
    <3> QED
      BY <1>c, <1>n, <1>z, <2>1, <2>3, <2>4, <2>6, <3>1
  <2> QED
    BY <2>5, <2>6
<1>5. CASE TakeGuide
  <2>1. /\ batch = <<>> /\ batch' = guide /\ guide' = <<>>
        /\ UNCHANGED <<inbound, pending, log, sent, removed, lost>>
    BY <1>5 DEF TakeGuide, BatchHeld
  <2>2. Occurrences(<<>>, x) = 0 /\ b = 0
    BY <1>t, <1>o, <2>1 DEF b
  <2> QED
    BY <1>c, <1>n, <2>1, <2>2 DEF InPlaces, i, g, p, u
<1>6. CASE DrainPending
  <2>1. /\ guide' = guide \o pending /\ pending' = <<>>
        /\ UNCHANGED <<inbound, batch, log, sent, removed, lost>>
    BY <1>6 DEF DrainPending
  <2>2. Occurrences(<<>>, x) = 0 /\ Occurrences(guide \o pending, x) = g + p
    BY <1>t, <1>o DEF g, p
  <2> QED
    BY <1>c, <1>n, <2>1, <2>2 DEF InPlaces, i, b, u
<1>7. CASE TakePaused
  <2>1. batch = <<>> /\ batch' = <<>> /\ UNCHANGED <<inbound, queues, log, sent, removed, lost>>
    BY <1>7 DEF TakePaused, BatchHeld
  <2> QED
    BY <1>c, <2>1 DEF InPlaces, i, g, p, b, u
\* The head of the batch goes to the history.
<1>8. ASSUME batch # <<>>, batch' = Tail(batch),
             Count(log', Spent(x)) = u + One(Head(batch) = x),
             UNCHANGED <<inbound, queues, sent, removed, lost>>
      PROVE  InPlaces(x)' = One(x \in Elements(sent))'
  <2>1. b = One(Head(batch) = x) + Occurrences(Tail(batch), x)
    BY <1>t, <1>o, <1>8 DEF b
  <2>2. Tail(batch) \in Seq(Entry)
    BY <1>t, <1>8
  <2>3. Occurrences(Tail(batch), x) \in Nat
    BY <2>2, OccurrenceType
  <2>4. /\ InPlaces(x)' = i + g + p + Occurrences(Tail(batch), x) + (u + One(Head(batch) = x))
                             + One(x \in removed) + One(x \in lost)
        /\ One(x \in Elements(sent))' = One(x \in Elements(sent))
    BY <1>8 DEF InPlaces, i, g, p
  <2>5. One(Head(batch) = x) \in {0, 1}
    BY DEF One
  <2> QED
    BY <1>c, <1>n, <1>z, <2>1, <2>3, <2>4, <2>5
<1>9. CASE ConsumeUser
  <2>1. /\ batch # <<>> /\ Head(batch) \in Entry /\ batch' = Tail(batch)
        /\ UNCHANGED <<inbound, queues, sent, removed, lost>>
    BY <1>9, <1>t DEF ConsumeUser
  <2>2. PICK fate \in HistoryFates : log' = Append(log, RowOf("user", Head(batch), {}, fate))
    BY <1>9 DEF ConsumeUser, Emit
  <2> DEFINE r == RowOf("user", Head(batch), {}, fate)
  <2>3. r \in Row /\ r.kind = "user" /\ r.id = Head(batch)
    BY <2>1, RowType DEF RowOf, Kinds, Fates, HistoryFates
  <2> HIDE DEF r
  <2>4. Count(log', Spent(x)) = u + One(Head(batch) = x)
    BY <1>l, <2>2, <2>3 DEF One, r
  <2> QED
    BY <1>8, <2>1, <2>4
<1>10. CASE ConsumeControl
  <2> DEFINE echo == Event("echo", Head(batch))
             note == RowOf("compaction", NoId, {}, "saved")
  <2>1. /\ batch # <<>> /\ Head(batch) \in Entry /\ batch' = Tail(batch)
        /\ UNCHANGED <<inbound, queues, sent, removed, lost>>
    BY <1>10, <1>t DEF ConsumeControl
  <2>2. /\ echo \in Row /\ echo.kind = "echo" /\ echo.id = Head(batch)
        /\ note \in Row /\ note.kind = "compaction"
    BY <2>1, RowType DEF RowOf, Event, Kinds, Fates
  <2>3. log' = Append(log, echo) \o <<>> \/ log' = Append(log, echo) \o <<note>>
    BY <1>10 DEF ConsumeControl
  <2> HIDE DEF echo, note
  <2> DEFINE s == Append(log, echo)
  <2>4. s \in Seq(Row) /\ Count(s, Spent(x)) = u + One(Head(batch) = x)
    <3>1. s \in Seq(Row)
      BY <1>t, <2>2
    <3>2. Count(s, Spent(x)) = u + One(echo.kind \in {"user", "echo"} /\ echo.id = x)
      BY <1>l, <2>2
    <3> QED
      BY <2>2, <3>1, <3>2 DEF One
  <2> HIDE DEF s
  <2>5. s \o <<>> = s
    BY <2>4
  <2>6. Count(Append(s, note), Spent(x)) = Count(s, Spent(x))
    <3>1. Count(Append(s, note), Spent(x))
            = Count(s, Spent(x)) + One(note.kind \in {"user", "echo"} /\ note.id = x)
      BY <2>2, <2>4, ConsumptionCounts
    <3>2. Count(s, Spent(x)) \in Nat
      BY <2>4, ConsumptionCounts
    <3> QED
      BY <2>2, <3>1, <3>2 DEF One
  <2>7. s \o <<note>> = Append(s, note)
    BY <2>2, <2>4
  <2>8. Count(log', Spent(x)) = u + One(Head(batch) = x)
    <3>1. log' = s \/ log' = Append(s, note)
      BY <2>3, <2>5, <2>7 DEF s
    <3> QED
      BY <2>4, <2>6, <3>1
  <2> QED
    BY <1>8, <2>1, <2>8
\* The head of the channel goes to the queue of its mode.
<1>11. CASE StreamInbound \/ ToolsInbound \/ IdleInbound
  <2> DEFINE e == Head(inbound)
  <2>1. /\ inbound # <<>> /\ Enqueue /\ e \in Entry /\ Tail(inbound) \in Seq(Entry)
        /\ UNCHANGED <<batch, log, sent, removed, lost>>
    BY <1>11, <1>t DEF StreamInbound, ToolsInbound, IdleInbound
  <2>2. /\ inbound' = Tail(inbound)
        /\ guide' = IF e \in Guide THEN Append(guide, e) ELSE guide
        /\ pending' = IF e \in Guide THEN pending ELSE Append(pending, e)
    BY <2>1 DEF Enqueue
  <2>3. i = One(e = x) + Occurrences(Tail(inbound), x) /\ Occurrences(Tail(inbound), x) \in Nat
    BY <1>t, <1>o, <2>1, OccurrenceType DEF i
  <2> HIDE DEF e
  <2>4. /\ Occurrences(Append(guide, e), x) = g + One(e = x)
        /\ Occurrences(Append(pending, e), x) = p + One(e = x)
    BY <1>t, <1>o, <2>1 DEF g, p
  <2>5. One(e = x) \in {0, 1} /\ One(x \in Elements(sent))' = One(x \in Elements(sent))
    BY <2>1 DEF One
  <2>6. CASE e \in Guide
    <3>1. InPlaces(x)' = Occurrences(Tail(inbound), x) + (g + One(e = x)) + p + b + u
                           + One(x \in removed) + One(x \in lost)
      BY <2>1, <2>2, <2>4, <2>6 DEF InPlaces, p, b, u
    <3> QED
      BY <1>c, <1>n, <1>z, <2>3, <2>5, <3>1
  <2>7. CASE e \notin Guide
    <3>1. InPlaces(x)' = Occurrences(Tail(inbound), x) + g + (p + One(e = x)) + b + u
                           + One(x \in removed) + One(x \in lost)
      BY <2>1, <2>2, <2>4, <2>7 DEF InPlaces, g, b, u
    <3> QED
      BY <1>c, <1>n, <1>z, <2>3, <2>5, <3>1
  <2> QED
    BY <2>6, <2>7
<1>12. CASE Moving
  BY <1>1, <1>2, <1>3, <1>4, <1>5, <1>6, <1>7, <1>9, <1>10, <1>11, <1>12 DEF Moving
<1> QED
  BY <1>0, <1>12, OthersMoveNothing

\* Every accepted entry is at every moment in exactly one place: the channel, a queue,
\* the batch, the history, taken back, or lost with the process (react/mod.rs:
\* handle_inbound_item, ConsumeGate::take, consume_batch; engine/queue removal).
THEOREM EntriesAreConserved == Spec => []Conservation
<1>1. Init => Conservation /\ BatchHeld
  <2> SUFFICES ASSUME Init PROVE Conservation /\ BatchHeld
    OBVIOUS
  <2>1. TypeOK
    BY TypeInit
  <2>2. /\ inbound = <<>> /\ guide = <<>> /\ pending = <<>> /\ batch = <<>> /\ log = <<>>
        /\ sent = <<>> /\ removed = {} /\ lost = {}
    BY DEF Init
  <2>3. ASSUME NEW e \in Entry PROVE InPlaces(e) = One(e \in Elements(sent))
    <3>1. Occurrences(<<>>, e) = 0 /\ Count(<<>>, Spent(e)) = 0
      <4>1. <<>> \in Seq(Entry) /\ <<>> \in Seq(Row)
        OBVIOUS
      <4>2. Occurrences(<<>>, e) = 0
        BY <4>1, OccurrenceMoves
      <4>3. Count(<<>>, Spent(e)) = 0
        BY <4>1, ConsumptionCounts
      <4> QED
        BY <4>2, <4>3
    <3>2. Elements(<<>>) = {}
      BY DEF Elements
    <3> QED
      BY <2>2, <3>1, <3>2 DEF InPlaces, One
  <2> QED
    BY <2>1, <2>2, <2>3, ConservationIs DEF BatchHeld
<1>2. TypeOK /\ TypeOK' /\ Conservation /\ BatchHeld /\ [Next]_vars => Conservation' /\ BatchHeld'
  BY ConservationStep, BatchStep
<1> QED
  BY <1>1, <1>2, TypeCorrect, PTL DEF Spec

(***************************************************************************)
(* A removal that finds nothing                                            *)
(***************************************************************************)

\* An entry that is in one place is in no other.
LEMMA OnePlace ==
  ASSUME TypeOK, Conservation, NEW e \in Entry
  PROVE  /\ e \in Elements(pending) \cup Elements(guide)
              => e \in Elements(sent) /\ e \notin Elements(inbound)
         /\ Occurrences(pending, e) \in {0, 1} /\ Occurrences(guide, e) \in {0, 1}
<1> DEFINE i == Occurrences(inbound, e)
           g == Occurrences(guide, e)
           p == Occurrences(pending, e)
           b == Occurrences(batch, e)
           u == Count(log, Spent(e))
<1>1. /\ i \in Nat /\ g \in Nat /\ p \in Nat /\ b \in Nat /\ u \in Nat
      /\ i = 0 <=> e \notin Elements(inbound)
      /\ g = 0 <=> e \notin Elements(guide)
      /\ p = 0 <=> e \notin Elements(pending)
  BY PlacesAreCounted
<1>2. i + g + p + b + u + One(e \in removed) + One(e \in lost) = One(e \in Elements(sent))
  BY ConservationIs DEF InPlaces
<1> HIDE DEF i, g, p, b, u
<1>3. /\ One(e \in removed) \in {0, 1} /\ One(e \in lost) \in {0, 1}
      /\ One(e \in Elements(sent)) \in {0, 1}
      /\ One(e \in Elements(sent)) = 1 <=> e \in Elements(sent)
  BY DEF One
<1>4. i + g + p + b + u <= One(e \in Elements(sent))
  BY <1>1, <1>2, <1>3
<1>5. p \in {0, 1} /\ g \in {0, 1}
  BY <1>1, <1>3, <1>4
<1>6. ASSUME e \in Elements(pending) \cup Elements(guide)
      PROVE  e \in Elements(sent) /\ e \notin Elements(inbound)
  <2>1. p + g >= 1
    BY <1>1, <1>6
  <2>2. One(e \in Elements(sent)) = 1 /\ i = 0
    BY <1>1, <1>3, <1>4, <2>1
  <2> QED
    BY <1>1, <1>3, <2>2
<1> QED
  BY <1>5, <1>6 DEF p, g

\* After retain_out_matching the entry it was asked for is gone.
LEMMA WithoutIsGone ==
  ASSUME NEW s \in Seq(Entry), NEW e, Occurrences(s, e) \in {0, 1}
  PROVE  e \notin Elements(Without(s, e))
<1>1. /\ Without(s, e) \in Seq(Entry)
      /\ Occurrences(Without(s, e), e) = Occurrences(s, e) - One(e = e /\ e \in Elements(s))
      /\ Occurrences(s, e) = 0 <=> e \notin Elements(s)
  BY WithoutType, WithoutOccurrences, OccurrenceType
<1>2. Occurrences(Without(s, e), e) = 0
  <2>1. CASE e \in Elements(s)
    BY <1>1, <2>1 DEF One
  <2>2. CASE e \notin Elements(s)
    BY <1>1, <2>2 DEF One
  <2> QED
    BY <2>1, <2>2
<1> QED
  BY <1>1, <1>2, OccurrenceType

\* Between the two scans of a removal that saw its entry in a queue, the entry has
\* been sent and is neither in the channel nor, any more, in the pending queue.
RemovalInv ==
  (remover.entry # NoId /\ remover.queued)
    => /\ remover.entry \in Elements(sent)
       /\ remover.entry \notin Elements(inbound) \cup Elements(pending)

LEMMA RemovalStep == TypeOK /\ Conservation /\ RemovalInv /\ [Next]_vars => RemovalInv'
<1> SUFFICES ASSUME TypeOK, Conservation, RemovalInv, [Next]_vars PROVE RemovalInv'
  OBVIOUS
<1> USE DEF channels, queues, gate, batchVars, streamVars, toolVars, callerVars
<1>t. /\ inbound \in Seq(Entry) /\ guide \in Seq(Entry) /\ pending \in Seq(Entry)
      /\ sent \in Seq(Entry)
      /\ remover \in [entry : Entry \cup {NoId}, found : BOOLEAN, queued : BOOLEAN]
  BY DEF TypeOK, DataOK
<1>0. ASSUME UNCHANGED <<inbound, pending, sent, remover>> PROVE RemovalInv'
  BY <1>0 DEF RemovalInv
<1>1. ASSUME NEW e \in Entry, Send(e) PROVE RemovalInv'
  <2>1. /\ e \notin Elements(sent) /\ inbound' = Append(inbound, e) /\ sent' = Append(sent, e)
        /\ pending' = pending /\ remover' = remover
    BY <1>1 DEF Send
  <2>2. Elements(sent') = Elements(sent) \cup {e} /\ Elements(inbound') = Elements(inbound) \cup {e}
    BY <1>t, <2>1, ElementsAppend
  <2> QED
    BY <2>1, <2>2 DEF RemovalInv
<1>2. ASSUME NEW e \in Entry, RemovePending(e) PROVE RemovalInv'
  <2>1. /\ pending' = Without(pending, e) /\ inbound' = inbound /\ sent' = sent
        /\ remover' = [entry |-> e, found |-> e \in Elements(pending),
                       queued |-> e \in Elements(pending) \cup Elements(guide)]
    BY <1>2 DEF RemovePending
  <2>2. e \notin Elements(pending')
    BY <1>t, <2>1, OnePlace, WithoutIsGone
  <2>3. e \in Elements(pending) \cup Elements(guide) => e \in Elements(sent) /\ e \notin Elements(inbound)
    BY OnePlace
  <2> QED
    BY <2>1, <2>2, <2>3 DEF RemovalInv
<1>3. CASE RemoveGuide \/ Crash
  BY <1>3 DEF RemoveGuide, Crash, NoRemoval, RemovalInv
<1>4. CASE DrainPending
  <2>1. pending' = <<>> /\ UNCHANGED <<inbound, sent, remover>>
    BY <1>4 DEF DrainPending
  <2> QED
    BY <2>1 DEF RemovalInv, Elements
<1>5. CASE StreamInbound \/ ToolsInbound \/ IdleInbound
  <2> DEFINE e == Head(inbound)
  <2>1. /\ inbound # <<>> /\ Enqueue /\ UNCHANGED <<sent, remover>>
    BY <1>5 DEF StreamInbound, ToolsInbound, IdleInbound
  <2>2. /\ e \in Entry /\ e \in Elements(inbound)
        /\ \A y \in Elements(Tail(inbound)) : y \in Elements(inbound)
    BY <1>t, <2>1 DEF Elements
  <2>3. inbound' = Tail(inbound) /\ (pending' = pending \/ pending' = Append(pending, e))
    BY <2>1 DEF Enqueue
  <2> HIDE DEF e
  <2>4. Elements(Append(pending, e)) = Elements(pending) \cup {e}
    BY <1>t, <2>2, ElementsAppend
  <2> QED
    BY <2>1, <2>2, <2>3, <2>4 DEF RemovalInv
<1>6. CASE TakeGuide \/ TakePaused \/ ConsumeUser \/ ConsumeControl
  BY <1>0, <1>6 DEF TakeGuide, TakePaused, ConsumeUser, ConsumeControl
<1>7. CASE ~Moving
  <2>1. UNCHANGED <<inbound, queues, sent, remover>>
    BY <1>7, OthersMoveNothing
  <2> QED
    BY <1>0, <2>1
<1> QED
  BY <1>1, <1>2, <1>3, <1>4, <1>5, <1>6, <1>7 DEF Moving

\* A removal whose entry was queued when it began leaves the entry in no queue,
\* though the task may drain one queue into the other between the two scans
\* (engine/removal: remove_queued_message).
THEOREM RemovalsAreComplete == Spec => RemovalComplete
<1> DEFINE Done == remover.entry # NoId /\ remover.queued /\ remover' = NoRemoval
                     /\ count.crashes' = count.crashes
           Taken == remover.entry \notin Elements(guide') \cup Elements(pending')
<1>1. Init => RemovalInv
  BY DEF Init, NoRemoval, RemovalInv
<1>2. TypeOK /\ Conservation /\ RemovalInv /\ [Next]_vars => [Done => Taken]_vars
  <2> SUFFICES ASSUME TypeOK, Conservation, RemovalInv, [Next]_vars, Done PROVE Taken
    OBVIOUS
  <2> USE DEF channels, queues, gate, batchVars, streamVars, toolVars, callerVars
  <2>t. /\ guide \in Seq(Entry) /\ count \in Counters
        /\ remover \in [entry : Entry \cup {NoId}, found : BOOLEAN, queued : BOOLEAN]
    BY DEF TypeOK, DataOK
  <2>1. remover' # remover
    BY DEF NoRemoval
  <2>2. ~Crash
    BY <2>t DEF Crash, Counters
  <2>3. \A e \in Entry : ~Send(e) /\ ~RemovePending(e)
    BY <2>1 DEF Send, RemovePending
  <2>4. /\ ~TakeGuide /\ ~DrainPending /\ ~TakePaused /\ ~ConsumeUser /\ ~ConsumeControl
        /\ ~StreamInbound /\ ~ToolsInbound /\ ~IdleInbound
    BY <2>1 DEF TakeGuide, DrainPending, TakePaused, ConsumeUser, ConsumeControl,
                StreamInbound, ToolsInbound, IdleInbound
  <2>5. RemoveGuide
    BY <2>1, <2>2, <2>3, <2>4, OthersMoveNothing DEF Moving
  <2>6. guide' = Without(guide, remover.entry) /\ pending' = pending
    BY <2>5 DEF RemoveGuide
  <2>7. Occurrences(guide, remover.entry) \in {0, 1}
    BY <2>t, OnePlace
  <2> QED
    BY <2>t, <2>6, <2>7, WithoutIsGone DEF RemovalInv
<1>3. TypeOK /\ Conservation /\ RemovalInv /\ [Next]_vars => RemovalInv'
  BY RemovalStep
<1> QED
  BY <1>1, <1>2, <1>3, TypeCorrect, EntriesAreConserved, PTL DEF Spec, RemovalComplete

(***************************************************************************)
(* A paused gate                                                           *)
(***************************************************************************)

\* A row that consumes no entry leaves the consumed entries what they were.
LEMMA ConsumedKept ==
  ASSUME log \in Seq(Row), NothingConsumed
  PROVE  Consumed' = Consumed
<1>1. CASE log' = log
  BY <1>1 DEF Consumed
<1>2. ASSUME NEW r \in Row, log' = Append(log, r), r.kind \notin {"user", "echo"}
      PROVE  Consumed' = Consumed
  <2> DEFINE n == Len(log) + 1
  <2>1. /\ DOMAIN log = 1..Len(log) /\ Len(log) \in Nat
        /\ DOMAIN log' = 1..n /\ log'[n] = r
        /\ \A i \in 1..Len(log) : log'[i] = log[i]
    BY <1>2, AppendProperties
  <2> HIDE DEF n
  <2>2. {i \in DOMAIN log' : log'[i].kind \in {"user", "echo"}}
          = {i \in DOMAIN log : log[i].kind \in {"user", "echo"}}
    BY <1>2, <2>1 DEF n
  <2>3. \A i \in DOMAIN log : log'[i].id = log[i].id
    BY <2>1
  <2> QED
    BY <2>2, <2>3 DEF Consumed
<1> QED
  BY <1>1, <1>2 DEF NothingConsumed

\* Behind a paused gate nothing is taken or about to be consumed.
GateInv == paused => batch = <<>> /\ pc \notin {"precompress", "drained"}

LEMMA GateStep == BatchHeld /\ GateInv /\ [Next]_vars => GateInv'
<1> SUFFICES ASSUME BatchHeld, GateInv, [Next]_vars PROVE GateInv'
  OBVIOUS
<1> USE DEF BatchHeld, GateInv, channels, queues, gate, batchVars, streamVars, toolVars, callerVars
<1>1. CASE CallerStep
  BY <1>1 DEF CallerStep, Send, RemovePending, RemoveGuide, SendInterrupt, Shutdown, Crash
<1>2. CASE UNCHANGED stateVars
  BY <1>2 DEF stateVars
<1>3. CASE TakeGuide \/ DrainPending \/ TakePaused \/ PreCompress
  BY <1>3 DEF TakeGuide, DrainPending, TakePaused, PreCompress, AfterTake, GateOpen
<1>4. CASE ConsumeUser \/ ConsumeControl \/ BatchDone \/ Resolve
  BY <1>4 DEF ConsumeUser, ConsumeControl, BatchDone, Resolve, OpenStream, EndTurn
<1>5. CASE \/ StreamInbound \/ StreamText \/ (\E c \in Call : StreamCall(c))
           \/ StreamRetry \/ BackoffEnd \/ StreamFail \/ CancelInBackoff
           \/ StreamFinal \/ StreamTools
  BY <1>5 DEF StreamInbound, StreamText, StreamCall, StreamRetry, BackoffEnd, StreamFail,
              CancelInBackoff, StreamFinal, StreamTools, EndTurn, Polled
<1>6. CASE \/ (\E c \in Call : ToolFinish(c) \/ ToolRecord(c) \/ DrainRecord(c) \/ CloseAbort(c))
           \/ ToolsInbound \/ ToolsDone \/ ToolsDrained
  BY <1>6 DEF ToolFinish, ToolRecord, DrainRecord, CloseAbort, Record, ToolsInbound, ToolsDone,
              ToolsDrained, ToolsPolled
<1>7. CASE CloseStream \/ CloseTools \/ CloseNotify \/ IdleShutdown \/ IdleInbound \/ IdleInterrupt
  BY <1>7 DEF CloseStream, CloseTools, CloseNotify, IdleShutdown, IdleInbound, IdleInterrupt, EndTurn
<1>8. CASE PollStep \/ BranchStep
  BY <1>3, <1>4, <1>5, <1>6, <1>7, <1>8 DEF PollStep, BranchStep
<1> QED
  BY <1>1, <1>2, <1>8 DEF Next, TaskStep, NewPass, vars

\* After an interrupted or failed turn nothing queued is consumed until a new entry
\* has come through the channel (ConsumeGate::on_turn_end, take, open).
THEOREM PausedGateHolds == Spec => GateHolds
<1> DEFINE Held == (batch' = batch \/ batch' = <<>>) /\ Consumed' = Consumed
<1>1. Init => BatchHeld /\ GateInv
  BY DEF Init, BatchHeld, GateInv
<1>2. TypeOK /\ GateInv /\ [Next]_vars => [paused /\ paused' => Held]_vars
  <2> SUFFICES ASSUME TypeOK, GateInv, [Next]_vars, paused, paused' PROVE Held
    OBVIOUS
  <2> USE DEF channels, queues, gate, batchVars, streamVars, toolVars, callerVars
  <2>1. batch = <<>> /\ pc \notin {"precompress", "drained"}
    BY DEF GateInv
  <2>2. ~ConsumeUser /\ ~ConsumeControl /\ ~TakeGuide /\ ~DrainPending /\ ~IdleInbound
    BY <2>1 DEF ConsumeUser, ConsumeControl, TakeGuide, DrainPending, GateOpen, IdleInbound
  <2>3. CASE Moving
    <3>1. (batch' = batch \/ batch' = <<>>) /\ log' = log
      BY <2>2, <2>3 DEF Moving, Send, RemovePending, RemoveGuide, Crash, TakePaused,
                        StreamInbound, ToolsInbound
    <3> QED
      BY <3>1 DEF Consumed
  <2>4. CASE ~Moving
    <3>1. batch' = batch /\ NothingConsumed
      BY <2>4, OthersMoveNothing
    <3>2. log \in Seq(Row)
      BY DEF TypeOK, DataOK
    <3>3. Consumed' = Consumed
      BY <3>1, <3>2, ConsumedKept
    <3> QED
      BY <3>1, <3>3
  <2> QED
    BY <2>3, <2>4
<1>3. BatchHeld /\ GateInv /\ [Next]_vars => BatchHeld' /\ GateInv'
  BY BatchStep, GateStep
<1> QED
  BY <1>1, <1>2, <1>3, TypeCorrect, PTL DEF Spec, GateHolds

(***************************************************************************)
(* A session is a mailbox                                                  *)
(***************************************************************************)
InOrder(s, R) == \A i, j \in DOMAIN s : i < j => <<s[i], s[j]>> \in R
AllBefore(s, t, R) == \A e \in Elements(s), f \in Elements(t) : <<e, f>> \in R

\* One queue behind another is in order when both are and all of the one may come
\* before all of the other.
LEMMA OrderConcat ==
  ASSUME NEW S, NEW s \in Seq(S), NEW t \in Seq(S), NEW R,
         InOrder(s, R), InOrder(t, R), AllBefore(s, t, R)
  PROVE  InOrder(s \o t, R) /\ Elements(s \o t) = Elements(s) \cup Elements(t)
<1> DEFINE h == s \o t
<1>1. /\ DOMAIN s = 1..Len(s) /\ Len(s) \in Nat
      /\ DOMAIN t = 1..Len(t) /\ Len(t) \in Nat
      /\ DOMAIN h = 1..(Len(s) + Len(t))
      /\ \A i \in 1..(Len(s) + Len(t)) :
           h[i] = IF i <= Len(s) THEN s[i] ELSE t[i - Len(s)]
  BY ConcatProperties
<1> HIDE DEF h
<1>2. ASSUME NEW i \in DOMAIN h
      PROVE  \/ i \in DOMAIN s /\ h[i] = s[i]
             \/ i - Len(s) \in DOMAIN t /\ h[i] = t[i - Len(s)] /\ i > Len(s)
  BY <1>1
<1>3. ASSUME NEW i \in DOMAIN h, NEW j \in DOMAIN h, i < j PROVE <<h[i], h[j]>> \in R
  <2>1. CASE j <= Len(s)
    <3>1. i \in DOMAIN s /\ j \in DOMAIN s /\ h[i] = s[i] /\ h[j] = s[j]
      BY <1>1, <1>3, <2>1
    <3> QED
      BY <1>3, <3>1 DEF InOrder
  <2>2. CASE i <= Len(s) /\ j > Len(s)
    <3>1. /\ i \in DOMAIN s /\ h[i] = s[i]
          /\ j - Len(s) \in DOMAIN t /\ h[j] = t[j - Len(s)]
      BY <1>1, <2>2
    <3> QED
      BY <3>1 DEF AllBefore, Elements
  <2>3. CASE i > Len(s)
    <3>1. /\ i - Len(s) \in DOMAIN t /\ h[i] = t[i - Len(s)]
          /\ j - Len(s) \in DOMAIN t /\ h[j] = t[j - Len(s)]
          /\ i - Len(s) < j - Len(s)
      BY <1>1, <1>3, <2>3
    <3> QED
      BY <3>1 DEF InOrder
  <2> QED
    BY <1>1, <2>1, <2>2, <2>3
<1>4. ASSUME NEW i \in DOMAIN h PROVE h[i] \in Elements(s) \cup Elements(t)
  BY <1>2 DEF Elements
<1>5. ASSUME NEW i \in DOMAIN s PROVE s[i] \in Elements(h)
  BY <1>1 DEF Elements
<1>6. ASSUME NEW j \in DOMAIN t PROVE t[j] \in Elements(h)
  <2>1. j + Len(s) \in DOMAIN h /\ h[j + Len(s)] = t[j]
    BY <1>1
  <2> QED
    BY <2>1 DEF Elements
<1>7. Elements(h) = Elements(s) \cup Elements(t)
  BY <1>4, <1>5, <1>6 DEF Elements
<1> QED
  BY <1>3, <1>7 DEF InOrder, h

\* What is put at the end of a queue must come after all that is in it.
LEMMA OrderAppend ==
  ASSUME NEW S, NEW s \in Seq(S), NEW x \in S, NEW R,
         InOrder(s, R), \A f \in Elements(s) : <<f, x>> \in R
  PROVE  InOrder(Append(s, x), R)
<1> DEFINE h == Append(s, x)
<1>1. /\ DOMAIN s = 1..Len(s) /\ Len(s) \in Nat
      /\ DOMAIN h = 1..(Len(s) + 1) /\ h[Len(s) + 1] = x
      /\ \A i \in 1..Len(s) : h[i] = s[i]
  BY AppendProperties
<1> HIDE DEF h
<1>2. ASSUME NEW i \in DOMAIN h, NEW j \in DOMAIN h, i < j PROVE <<h[i], h[j]>> \in R
  <2>1. i \in DOMAIN s /\ h[i] = s[i]
    BY <1>1, <1>2
  <2>2. CASE j = Len(s) + 1
    BY <1>1, <2>1, <2>2 DEF Elements
  <2>3. CASE j # Len(s) + 1
    <3>1. j \in DOMAIN s /\ h[j] = s[j]
      BY <1>1, <2>3
    <3> QED
      BY <1>2, <2>1, <3>1 DEF InOrder
  <2> QED
    BY <2>2, <2>3
<1> QED
  BY <1>2 DEF InOrder, h

\* The head of a queue comes before the rest, and the rest is in order.
LEMMA OrderTail ==
  ASSUME NEW S, NEW s \in Seq(S), NEW R, s # <<>>, InOrder(s, R)
  PROVE  /\ InOrder(Tail(s), R)
         /\ \A f \in Elements(Tail(s)) : <<Head(s), f>> \in R
         /\ Elements(s) = {Head(s)} \cup Elements(Tail(s))
<1> DEFINE t == Tail(s)
<1>1. /\ DOMAIN s = 1..Len(s) /\ Len(s) \in Nat /\ Len(s) > 0 /\ Head(s) = s[1]
      /\ t \in Seq(S) /\ DOMAIN t = 1..(Len(s) - 1)
      /\ \A i \in 1..(Len(s) - 1) : t[i] = s[i + 1]
  OBVIOUS
<1> HIDE DEF t
<1>2. InOrder(t, R)
  <2>1. ASSUME NEW i \in DOMAIN t, NEW j \in DOMAIN t, i < j PROVE <<t[i], t[j]>> \in R
    <3>1. /\ i + 1 \in DOMAIN s /\ t[i] = s[i + 1]
          /\ j + 1 \in DOMAIN s /\ t[j] = s[j + 1]
          /\ i + 1 < j + 1
      BY <1>1, <2>1
    <3> QED
      BY <3>1 DEF InOrder
  <2> QED
    BY <2>1 DEF InOrder
<1>3. ASSUME NEW i \in DOMAIN t PROVE t[i] \in Elements(s) /\ <<Head(s), t[i]>> \in R
  <2>1. 1 \in DOMAIN s /\ i + 1 \in DOMAIN s /\ 1 < i + 1 /\ t[i] = s[i + 1]
    BY <1>1
  <2> QED
    BY <1>1, <2>1 DEF InOrder, Elements
<1>4. ASSUME NEW i \in DOMAIN s PROVE s[i] \in {Head(s)} \cup Elements(t)
  <2>1. CASE i = 1
    BY <1>1, <2>1
  <2>2. CASE i # 1
    <3>1. i - 1 \in DOMAIN t /\ t[i - 1] = s[i]
      BY <1>1, <2>2
    <3> QED
      BY <3>1 DEF Elements
  <2> QED
    BY <2>1, <2>2
<1>5. Head(s) \in Elements(s)
  BY <1>1 DEF Elements
<1>6. Elements(s) = {Head(s)} \cup Elements(t)
  BY <1>3, <1>4, <1>5 DEF Elements
<1>7. \A f \in Elements(t) : <<Head(s), f>> \in R
  BY <1>3 DEF Elements
<1> QED
  BY <1>2, <1>6, <1>7 DEF t

\* Taking an entry out of a queue leaves the others in order.
LEMMA OrderWithout ==
  ASSUME NEW S, NEW s \in Seq(S), NEW x, NEW R, InOrder(s, R)
  PROVE  InOrder(Without(s, x), R) /\ Elements(Without(s, x)) \subseteq Elements(s)
<1>1. CASE x \notin Elements(s)
  BY <1>1 DEF Without
<1>2. CASE x \in Elements(s)
  <2> DEFINE i == CHOOSE i \in DOMAIN s : s[i] = x
             a == SubSeq(s, 1, i - 1)
             b == SubSeq(s, i + 1, Len(s))
             h == a \o b
  <2>1. i \in 1..Len(s)
    BY <1>2 DEF Elements
  <2>2. Without(s, x) = h
    BY <1>2 DEF Without
  <2> HIDE DEF i
  <2>3. /\ a \in Seq(S) /\ Len(a) = i - 1 /\ \A k \in 1..(i - 1) : a[k] = s[k]
        /\ b \in Seq(S) /\ Len(b) = Len(s) - i /\ \A k \in 1..(Len(s) - i) : b[k] = s[i + k]
        /\ i \in Nat /\ Len(s) \in Nat /\ i - 1 \in Nat /\ DOMAIN s = 1..Len(s)
    BY <2>1
  <2> HIDE DEF a, b
  <2>4. /\ DOMAIN h = 1..(Len(s) - 1)
        /\ \A k \in 1..(Len(s) - 1) : h[k] = IF k <= i - 1 THEN s[k] ELSE s[k + 1]
    <3>1. /\ DOMAIN h = 1..(Len(a) + Len(b))
          /\ \A k \in 1..(Len(a) + Len(b)) :
               h[k] = IF k <= Len(a) THEN a[k] ELSE b[k - Len(a)]
      <4>1. a \in Seq(S) /\ b \in Seq(S)
        BY <2>3
      <4>2. /\ h \in Seq(S) /\ Len(h) = Len(a) + Len(b)
            /\ \A k \in 1..(Len(a) + Len(b)) :
                 h[k] = IF k <= Len(a) THEN a[k] ELSE b[k - Len(a)]
        BY <4>1, ConcatProperties
      <4> HIDE DEF h
      <4> QED
        BY <4>2
    <3> HIDE DEF h
    <3>2. Len(a) + Len(b) = Len(s) - 1
      BY <2>1, <2>3
    <3>3. ASSUME NEW k \in 1..(Len(s) - 1)
          PROVE  h[k] = IF k <= i - 1 THEN s[k] ELSE s[k + 1]
      <4>1. CASE k <= i - 1
        BY <2>3, <3>1, <3>2, <4>1
      <4>2. CASE k > i - 1
        <5>1. k - (i - 1) \in 1..(Len(s) - i) /\ i + (k - (i - 1)) = k + 1
          BY <2>1, <2>3, <4>2
        <5>2. h[k] = b[k - (i - 1)]
          BY <2>3, <3>1, <3>2, <4>2
        <5>3. b[k - (i - 1)] = s[k + 1]
          BY <2>3, <5>1
        <5> QED
          BY <2>3, <4>2, <5>2, <5>3
      <4> QED
        BY <2>3, <4>1, <4>2
    <3> QED
      BY <3>1, <3>2, <3>3
  <2> HIDE DEF h
  <2>5. ASSUME NEW k \in DOMAIN h, NEW l \in DOMAIN h, k < l PROVE <<h[k], h[l]>> \in R
    <3> DEFINE m == IF k <= i - 1 THEN k ELSE k + 1
               n == IF l <= i - 1 THEN l ELSE l + 1
    <3>0. k \in 1..(Len(s) - 1) /\ l \in 1..(Len(s) - 1) /\ k < l
      BY <2>4, <2>5
    <3>1. /\ m \in DOMAIN s /\ n \in DOMAIN s /\ m < n
      BY <2>3, <3>0
    <3>2. h[k] = s[m] /\ h[l] = s[n]
      BY <2>4, <3>0
    <3> HIDE DEF m, n
    <3> QED
      BY <3>1, <3>2 DEF InOrder
  <2>6. ASSUME NEW k \in DOMAIN h PROVE h[k] \in Elements(s)
    <3>0. k \in 1..(Len(s) - 1) /\ k \in DOMAIN s /\ k + 1 \in DOMAIN s
      BY <2>3, <2>4
    <3>1. h[k] = s[k] \/ h[k] = s[k + 1]
      BY <2>4, <3>0
    <3> QED
      BY <3>0, <3>1 DEF Elements
  <2>7. InOrder(h, R) /\ Elements(h) \subseteq Elements(s)
    BY <2>5, <2>6 DEF InOrder, Elements
  <2> QED
    BY <2>2, <2>7
<1> QED
  BY <1>1, <1>2

\* Two entries of one lane may stand one behind the other only in the order in
\* which they were sent; entries of two lanes may stand in any order.
Behind ==
  {p \in Entry \X Entry :
     (p[1] \in Guide <=> p[2] \in Guide)
       => \E k, l \in DOMAIN sent : k < l /\ sent[k] = p[1] /\ sent[l] = p[2]}

\* The batch, the guide queue, the pending queue and the channel, in this order, are
\* one line in the order of sending. The pending queue holds entries of its own lane
\* only, so that a guide entry put before it overtakes none of its own.
LineInv ==
  /\ \A k, l \in DOMAIN sent : sent[k] = sent[l] => k = l
  /\ \A e \in Elements(pending) : e \notin Guide
  /\ InOrder(batch, Behind) /\ InOrder(guide, Behind)
  /\ InOrder(pending, Behind) /\ InOrder(inbound, Behind)
  /\ AllBefore(batch, guide, Behind) /\ AllBefore(batch, pending, Behind)
  /\ AllBefore(batch, inbound, Behind) /\ AllBefore(guide, pending, Behind)
  /\ AllBefore(guide, inbound, Behind) /\ AllBefore(pending, inbound, Behind)

\* What waits for the mailbox is what the session holds in memory.
LEMMA WaitingIsHeld ==
  ASSUME TypeOK, Conservation
  PROVE  /\ Box!Waiting = InMemory
         /\ \A e \in InMemory : e \in Entry /\ e \in Elements(sent)
<1>t. /\ inbound \in Seq(Entry) /\ guide \in Seq(Entry) /\ pending \in Seq(Entry)
      /\ batch \in Seq(Entry) /\ sent \in Seq(Entry)
  BY DEF TypeOK, DataOK
<1>1. ASSUME NEW e \in Entry
      PROVE  e \in InMemory
               <=> e \in Elements(sent) /\ TimesConsumed(e) = 0 /\ e \notin removed \cup lost
  <2> DEFINE i == Occurrences(inbound, e)
             g == Occurrences(guide, e)
             p == Occurrences(pending, e)
             b == Occurrences(batch, e)
             u == TimesConsumed(e)
  <2>1. /\ i \in Nat /\ g \in Nat /\ p \in Nat /\ b \in Nat /\ u \in Nat
        /\ i = 0 <=> e \notin Elements(inbound)
        /\ g = 0 <=> e \notin Elements(guide)
        /\ p = 0 <=> e \notin Elements(pending)
        /\ b = 0 <=> e \notin Elements(batch)
    BY PlacesAreCounted
  <2>2. i + g + p + b + u + One(e \in removed) + One(e \in lost) = One(e \in Elements(sent))
    BY DEF Conservation
  <2> HIDE DEF i, g, p, b, u
  <2>3. /\ One(e \in removed) \in {0, 1} /\ (One(e \in removed) = 0 <=> e \notin removed)
        /\ One(e \in lost) \in {0, 1} /\ (One(e \in lost) = 0 <=> e \notin lost)
        /\ One(e \in Elements(sent)) \in {0, 1}
        /\ (One(e \in Elements(sent)) = 1 <=> e \in Elements(sent))
    BY DEF One
  <2>4. e \in InMemory <=> i + g + p + b > 0
    BY <2>1 DEF InMemory
  <2>5. i + g + p + b > 0
          <=> /\ One(e \in Elements(sent)) = 1 /\ u = 0
              /\ One(e \in removed) = 0 /\ One(e \in lost) = 0
    BY <2>1, <2>2, <2>3
  <2> QED
    BY <2>3, <2>4, <2>5 DEF u
<1>2. \A e \in InMemory : e \in Entry
  BY <1>t DEF InMemory, Elements
<1>3. Box!Known = Elements(sent) /\ \A e \in Elements(sent) : e \in Entry
  BY <1>t DEF Box!Known, Elements
<1>4. Box!Waiting = {e \in Elements(sent) : TimesConsumed(e) = 0 /\ e \notin removed \cup lost}
  BY <1>3 DEF Box!Waiting, Shown, Gone
<1> QED
  BY <1>1, <1>2, <1>3, <1>4

\* No step puts an entry behind one that was sent later.
LEMMA LineStep ==
  ASSUME TypeOK, Conservation, BatchHeld, LineInv, [Next]_vars
  PROVE  LineInv'
<1> USE DEF channels, queues, gate, batchVars, streamVars, toolVars, callerVars
<1>t. /\ inbound \in Seq(Entry) /\ guide \in Seq(Entry) /\ pending \in Seq(Entry)
      /\ batch \in Seq(Entry) /\ sent \in Seq(Entry)
  BY DEF TypeOK, DataOK
<1>e. Elements(<<>>) = {} /\ \A R : InOrder(<<>>, R)
  BY DEF Elements, InOrder
\* A step that sends nothing keeps the order of sending.
<1>s. ASSUME sent' = sent PROVE Behind' = Behind
  BY <1>s DEF Behind
<1>0. ASSUME UNCHANGED <<inbound, queues, batch, sent>> PROVE LineInv'
  BY <1>0, <1>s DEF LineInv
<1>1. ASSUME NEW e \in Entry, Send(e) PROVE LineInv'
  <2>1. /\ e \notin Elements(sent) /\ inbound' = Append(inbound, e) /\ sent' = Append(sent, e)
        /\ UNCHANGED <<queues, batch>>
    BY <1>1 DEF Send
  <2>2. /\ DOMAIN sent = 1..Len(sent) /\ Len(sent) \in Nat
        /\ DOMAIN sent' = 1..(Len(sent) + 1) /\ sent'[Len(sent) + 1] = e
        /\ \A k \in 1..Len(sent) : sent'[k] = sent[k]
    BY <1>t, <2>1, AppendProperties
  <2>3. \A k \in DOMAIN sent : sent[k] # e
    BY <2>1 DEF Elements
  <2>4. \A k, l \in DOMAIN sent' : sent'[k] = sent'[l] => k = l
    <3>1. \A k, l \in DOMAIN sent : sent[k] = sent[l] => k = l
      BY DEF LineInv
    <3>2. ASSUME NEW k \in DOMAIN sent', NEW l \in DOMAIN sent', sent'[k] = sent'[l]
          PROVE  k = l
      <4>1. k = Len(sent) + 1 \/ k \in DOMAIN sent
        BY <2>2
      <4>2. l = Len(sent) + 1 \/ l \in DOMAIN sent
        BY <2>2
      <4> QED
        BY <2>2, <2>3, <3>1, <3>2, <4>1, <4>2
    <3> QED
      BY <3>2
  <2>5. Behind \subseteq Behind'
    <3>1. DOMAIN sent \subseteq DOMAIN sent' /\ \A k \in DOMAIN sent : sent'[k] = sent[k]
      BY <2>2
    <3> QED
      BY <3>1 DEF Behind
  <2>6. ASSUME NEW f \in InMemory PROVE <<f, e>> \in Behind'
    <3>1. f \in Entry /\ f \in Elements(sent)
      BY WaitingIsHeld
    <3>2. PICK k \in DOMAIN sent : sent[k] = f
      BY <3>1 DEF Elements
    <3>3. /\ k \in DOMAIN sent' /\ Len(sent) + 1 \in DOMAIN sent' /\ k < Len(sent) + 1
          /\ sent'[k] = f /\ sent'[Len(sent) + 1] = e
      BY <2>2, <3>2
    <3> QED
      BY <3>1, <3>3 DEF Behind
  <2>7. Elements(inbound') = Elements(inbound) \cup {e}
    BY <1>t, <2>1, ElementsAppend
  <2>8. InOrder(inbound, Behind')
    BY <2>5 DEF LineInv, InOrder
  <2>9. \A f \in Elements(inbound) : <<f, e>> \in Behind'
    BY <2>6 DEF InMemory
  <2> DEFINE R == Behind'
  <2>10. InOrder(inbound', R)
    <3>1. InOrder(inbound, R) /\ \A f \in Elements(inbound) : <<f, e>> \in R
      BY <2>8, <2>9
    <3> HIDE DEF R
    <3> QED
      BY <1>t, <2>1, <3>1, OrderAppend
  <2>11. /\ InOrder(batch, R) /\ InOrder(guide, R) /\ InOrder(pending, R)
         /\ AllBefore(batch, guide, R) /\ AllBefore(batch, pending, R)
         /\ AllBefore(guide, pending, R)
    BY <2>5 DEF LineInv, InOrder, AllBefore
  <2>12. /\ AllBefore(batch, inbound', R) /\ AllBefore(guide, inbound', R)
         /\ AllBefore(pending, inbound', R)
    BY <2>5, <2>6, <2>7 DEF LineInv, AllBefore, InMemory
  <2> QED
    BY <2>1, <2>4, <2>10, <2>11, <2>12 DEF LineInv
<1>2. ASSUME NEW e \in Entry, RemovePending(e) PROVE LineInv'
  <2>1. pending' = Without(pending, e) /\ UNCHANGED <<inbound, guide, batch, sent>>
    BY <1>2 DEF RemovePending
  <2>2. InOrder(pending, Behind)
    BY DEF LineInv
  <2> DEFINE R == Behind
  <2>3. InOrder(pending', R) /\ Elements(pending') \subseteq Elements(pending)
    <3>1. InOrder(pending, R)
      BY <2>2
    <3> HIDE DEF R
    <3> QED
      BY <1>t, <2>1, <3>1, OrderWithout
  <2> QED
    BY <1>s, <2>1, <2>3 DEF LineInv, AllBefore
<1>3. CASE RemoveGuide
  <2>1. guide' = Without(guide, remover.entry) /\ UNCHANGED <<inbound, pending, batch, sent>>
    BY <1>3 DEF RemoveGuide
  <2>2. InOrder(guide, Behind)
    BY DEF LineInv
  <2> DEFINE R == Behind
  <2>3. InOrder(guide', R) /\ Elements(guide') \subseteq Elements(guide)
    <3>1. InOrder(guide, R)
      BY <2>2
    <3> HIDE DEF R
    <3> QED
      BY <1>t, <2>1, <3>1, OrderWithout
  <2> QED
    BY <1>s, <2>1, <2>3 DEF LineInv, AllBefore
<1>4. CASE Crash
  <2>1. /\ inbound' = <<>> /\ guide' = <<>> /\ pending' = <<>> /\ batch' = <<>>
        /\ sent' = sent
    BY <1>4 DEF Crash
  <2> QED
    BY <1>e, <1>s, <2>1 DEF LineInv, AllBefore
<1>5. CASE TakeGuide
  <2>1. batch' = guide /\ guide' = <<>> /\ UNCHANGED <<inbound, pending, sent>>
    BY <1>5 DEF TakeGuide
  <2> QED
    BY <1>e, <1>s, <2>1 DEF LineInv, AllBefore
<1>6. CASE DrainPending
  <2>1. guide' = guide \o pending /\ pending' = <<>> /\ UNCHANGED <<inbound, batch, sent>>
    BY <1>6 DEF DrainPending
  <2>2. InOrder(guide, Behind) /\ InOrder(pending, Behind) /\ AllBefore(guide, pending, Behind)
    BY DEF LineInv
  <2> DEFINE R == Behind
  <2>3. InOrder(guide', R) /\ Elements(guide') = Elements(guide) \cup Elements(pending)
    <3>1. InOrder(guide, R) /\ InOrder(pending, R) /\ AllBefore(guide, pending, R)
      BY <2>2
    <3> HIDE DEF R
    <3> QED
      BY <1>t, <2>1, <3>1, OrderConcat
  <2> QED
    BY <1>e, <1>s, <2>1, <2>3 DEF LineInv, AllBefore
<1>7. CASE TakePaused
  <2>1. batch' = <<>> /\ UNCHANGED <<inbound, queues, sent>>
    BY <1>7 DEF TakePaused
  <2> QED
    BY <1>e, <1>s, <2>1 DEF LineInv, AllBefore
<1>8. CASE ConsumeUser \/ ConsumeControl
  <2>1. batch # <<>> /\ batch' = Tail(batch) /\ UNCHANGED <<inbound, queues, sent>>
    BY <1>8 DEF ConsumeUser, ConsumeControl
  <2>2. InOrder(batch, Behind)
    BY DEF LineInv
  <2> DEFINE R == Behind
  <2>3. InOrder(batch', R) /\ Elements(batch') \subseteq Elements(batch)
    <3>1. InOrder(batch, R)
      BY <2>2
    <3> HIDE DEF R
    <3> QED
      BY <1>t, <2>1, <3>1, OrderTail
  <2> QED
    BY <1>s, <2>1, <2>3 DEF LineInv, AllBefore
<1>9. CASE StreamInbound \/ ToolsInbound \/ IdleInbound
  <2> DEFINE e == Head(inbound)
             R == Behind
  <2>1. inbound # <<>> /\ Enqueue /\ UNCHANGED <<batch, sent>>
    BY <1>9 DEF StreamInbound, ToolsInbound, IdleInbound
  <2>2. /\ inbound' = Tail(inbound)
        /\ guide' = IF e \in Guide THEN Append(guide, e) ELSE guide
        /\ pending' = IF e \in Guide THEN pending ELSE Append(pending, e)
    BY <2>1 DEF Enqueue
  <2>3. InOrder(inbound, R) /\ InOrder(guide, R) /\ InOrder(pending, R)
    BY DEF LineInv
  <2>4. e \in Entry
    BY <1>t, <2>1
  <2> HIDE DEF R, e
  <2>5. /\ InOrder(inbound', R)
        /\ \A f \in Elements(inbound') : <<e, f>> \in R
        /\ Elements(inbound) = {e} \cup Elements(inbound')
    BY <1>t, <2>1, <2>2, <2>3, OrderTail DEF e
  <2>6. /\ \A f \in Elements(batch) : <<f, e>> \in R
        /\ \A f \in Elements(guide) : <<f, e>> \in R
        /\ \A f \in Elements(pending) : <<f, e>> \in R
    BY <2>5 DEF LineInv, AllBefore, R
  <2>7. CASE e \in Guide
    <3>1. guide' = Append(guide, e) /\ pending' = pending
      BY <2>2, <2>7
    <3>2. InOrder(guide', R)
      BY <1>t, <2>3, <2>4, <2>6, <3>1, OrderAppend
    <3>3. Elements(guide') = Elements(guide) \cup {e}
      BY <1>t, <2>4, <3>1, ElementsAppend
    <3>4. ASSUME NEW f \in Elements(pending) PROVE <<e, f>> \in R
      <4>1. f \in Entry /\ f \notin Guide
        BY <1>t DEF Elements, LineInv
      <4> QED
        BY <2>4, <2>7, <4>1 DEF Behind, R
    <3> QED
      BY <1>s, <2>1, <2>5, <2>6, <3>1, <3>2, <3>3, <3>4 DEF LineInv, AllBefore, R
  <2>8. CASE e \notin Guide
    <3>1. pending' = Append(pending, e) /\ guide' = guide
      BY <2>2, <2>8
    <3>2. InOrder(pending', R)
      BY <1>t, <2>3, <2>4, <2>6, <3>1, OrderAppend
    <3>3. Elements(pending') = Elements(pending) \cup {e}
      BY <1>t, <2>4, <3>1, ElementsAppend
    <3> QED
      BY <1>s, <2>1, <2>5, <2>6, <2>8, <3>1, <3>2, <3>3 DEF LineInv, AllBefore, R
  <2> QED
    BY <2>7, <2>8
<1>10. CASE Moving
  BY <1>1, <1>2, <1>3, <1>4, <1>5, <1>6, <1>7, <1>8, <1>9, <1>10 DEF Moving
<1> QED
  BY <1>0, <1>10, OthersMoveNothing

\* How often an entry was consumed is a count of rows, before and after a step.
LEMMA TimesAre ==
  ASSUME NEW e
  PROVE  /\ log \in Seq(Row) => /\ TimesConsumed(e) = Count(log, Spent(e))
                                /\ TimesConsumed(e) \in Nat
         /\ log' \in Seq(Row) => TimesConsumed(e)' = Count(log', Spent(e))
<1>1. ASSUME log \in Seq(Row)
      PROVE  TimesConsumed(e) = Count(log, Spent(e)) /\ TimesConsumed(e) \in Nat
  <2>1. /\ Count(log, Spent(e)) =
              Cardinality({i \in DOMAIN log : log[i].kind \in {"user", "echo"} /\ log[i].id = e})
        /\ Count(log, Spent(e)) \in Nat
    BY <1>1, ConsumptionCounts
  <2> QED
    BY <2>1 DEF TimesConsumed
<1>2. ASSUME log' \in Seq(Row) PROVE TimesConsumed(e)' = Count(log', Spent(e))
  <2>1. Count(log', Spent(e)) =
          Cardinality({i \in DOMAIN log' : log'[i].kind \in {"user", "echo"} /\ log'[i].id = e})
    BY <1>2, ConsumptionCounts
  <2> QED
    BY <2>1 DEF TimesConsumed
<1> QED
  BY <1>1, <1>2

\* A step that consumes nothing shows no entry once more.
LEMMA ShownKept ==
  ASSUME TypeOK, NothingConsumed
  PROVE  Shown' = Shown
<1> SUFFICES ASSUME NEW e \in Entry PROVE TimesConsumed(e)' = TimesConsumed(e)
  BY DEF Shown
<1>1. log \in Seq(Row)
  BY DEF TypeOK, DataOK
<1>2. /\ Count(log, Spent(e)) = TimesConsumed(e) /\ Count(log, Spent(e)) \in Nat
      /\ \A r \in Row : Count(Append(log, r), Spent(e)) =
                          Count(log, Spent(e)) + One(r.kind \in {"user", "echo"} /\ r.id = e)
  BY <1>1, ConsumptionCounts, TimesAre
<1>3. CASE log' = log
  BY <1>3 DEF TimesConsumed
<1>4. ASSUME NEW r \in Row, log' = Append(log, r), r.kind \notin {"user", "echo"}
      PROVE  TimesConsumed(e)' = TimesConsumed(e)
  <2>1. log' \in Seq(Row)
    BY <1>1, <1>4
  <2>2. Count(log', Spent(e)) = TimesConsumed(e)'
    BY <2>1, TimesAre
  <2> QED
    BY <1>2, <1>4, <2>2 DEF One
<1> QED
  BY <1>3, <1>4 DEF NothingConsumed

\* A consumption shows the head of the batch once more, and nothing else.
LEMMA ShownServed ==
  ASSUME TypeOK, ConsumeUser \/ ConsumeControl
  PROVE  Shown' = [Shown EXCEPT ![Head(batch)] = @ + 1]
<1>1. log \in Seq(Row) /\ batch \in Seq(Entry)
  BY DEF TypeOK, DataOK
<1>2. batch # <<>> /\ Head(batch) \in Entry
  BY <1>1 DEF ConsumeUser, ConsumeControl
<1> SUFFICES ASSUME NEW e \in Entry
             PROVE  TimesConsumed(e)' = TimesConsumed(e) + One(Head(batch) = e)
  <2>1. \A x \in Entry : Shown[x] = TimesConsumed(x) /\ Shown'[x] = TimesConsumed(x)'
    BY DEF Shown
  <2>2. \A x \in Entry : TimesConsumed(x) \in Nat
    BY <1>1, TimesAre
  <2>3. \A x \in Entry :
          Shown'[x] = IF x = Head(batch) THEN Shown[x] + 1 ELSE Shown[x]
    BY <2>1, <2>2 DEF One
  <2>4. Shown' \in [Entry -> {Shown'[x] : x \in Entry}] /\ DOMAIN Shown' = Entry /\ DOMAIN Shown = Entry
    BY DEF Shown
  <2>5. Shown = [x \in Entry |-> Shown[x]] /\ Shown' = [x \in Entry |-> Shown'[x]]
    BY DEF Shown
  <2> QED
    BY <1>2, <2>3, <2>4, <2>5
<1>3. /\ Count(log, Spent(e)) = TimesConsumed(e) /\ Count(log, Spent(e)) \in Nat
      /\ \A r \in Row : Count(Append(log, r), Spent(e)) =
                          Count(log, Spent(e)) + One(r.kind \in {"user", "echo"} /\ r.id = e)
  BY <1>1, ConsumptionCounts, TimesAre
<1>4. CASE ConsumeUser
  <2>1. PICK fate \in HistoryFates : log' = Append(log, RowOf("user", Head(batch), {}, fate))
    BY <1>4 DEF ConsumeUser, Emit
  <2> DEFINE r == RowOf("user", Head(batch), {}, fate)
  <2>2. r \in Row /\ r.kind = "user" /\ r.id = Head(batch)
    BY <1>2, RowType DEF RowOf, Kinds, Fates, HistoryFates
  <2> HIDE DEF r
  <2>3. log' = Append(log, r) /\ log' \in Seq(Row)
    BY <1>1, <2>1, <2>2 DEF r
  <2>4. Count(log', Spent(e)) = TimesConsumed(e)'
    BY <2>3, TimesAre
  <2> QED
    BY <1>3, <2>2, <2>3, <2>4 DEF One
<1>5. CASE ConsumeControl
  <2> DEFINE echo == Event("echo", Head(batch))
             note == RowOf("compaction", NoId, {}, "saved")
             s == Append(log, echo)
  <2>1. /\ echo \in Row /\ echo.kind = "echo" /\ echo.id = Head(batch)
        /\ note \in Row /\ note.kind = "compaction"
    BY <1>2, RowType DEF RowOf, Event, Kinds, Fates
  <2>2. log' = s \o <<>> \/ log' = s \o <<note>>
    BY <1>5 DEF ConsumeControl
  <2> HIDE DEF echo, note
  <2>3. s \in Seq(Row) /\ Count(s, Spent(e)) = Count(log, Spent(e)) + One(Head(batch) = e)
    <3>1. s \in Seq(Row)
      BY <1>1, <2>1
    <3>2. Count(s, Spent(e)) = Count(log, Spent(e)) + One(echo.kind \in {"user", "echo"} /\ echo.id = e)
      BY <1>3, <2>1
    <3> QED
      BY <2>1, <3>1, <3>2 DEF One
  <2> HIDE DEF s
  <2>4. s \o <<>> = s /\ s \o <<note>> = Append(s, note) /\ Append(s, note) \in Seq(Row)
    BY <2>1, <2>3
  <2>5. Count(Append(s, note), Spent(e)) = Count(s, Spent(e))
    <3>1. Count(Append(s, note), Spent(e))
            = Count(s, Spent(e)) + One(note.kind \in {"user", "echo"} /\ note.id = e)
      BY <2>1, <2>3, ConsumptionCounts
    <3>2. Count(s, Spent(e)) \in Nat
      BY <2>3, ConsumptionCounts
    <3> QED
      BY <2>1, <3>1, <3>2 DEF One
  <2>6. log' \in Seq(Row) /\ Count(log', Spent(e)) = Count(s, Spent(e))
    BY <2>2, <2>3, <2>4, <2>5
  <2>7. Count(log', Spent(e)) = TimesConsumed(e)'
    BY <2>6, TimesAre
  <2> QED
    BY <1>3, <2>3, <2>6, <2>7
<1> QED
  BY <1>4, <1>5

\* Every step of a session is a step of the mailbox or leaves the mailbox as it is.
LEMMA MailboxStep ==
  ASSUME TypeOK, Conservation, BatchHeld, LineInv, [Next]_vars
  PROVE  [Box!Next]_(Box!vars)
<1> USE DEF channels, queues, gate, batchVars, streamVars, toolVars, callerVars
<1> DEFINE Same == UNCHANGED <<sent, Shown, Gone>>
<1>t. /\ inbound \in Seq(Entry) /\ guide \in Seq(Entry) /\ pending \in Seq(Entry)
      /\ batch \in Seq(Entry) /\ sent \in Seq(Entry)
  BY DEF TypeOK, DataOK
<1>w. Box!Waiting = InMemory /\ \A e \in InMemory : e \in Entry /\ e \in Elements(sent)
  BY WaitingIsHeld
<1>k. Box!Known = Elements(sent)
  BY DEF Box!Known, Elements
<1>0. ASSUME Same PROVE [Box!Next]_(Box!vars)
  BY <1>0 DEF Box!vars
<1>1. ASSUME NEW e \in Entry, Send(e) PROVE [Box!Next]_(Box!vars)
  <2>1. /\ e \notin Elements(sent) /\ sent' = Append(sent, e)
        /\ UNCHANGED <<log, removed, lost>>
    BY <1>1 DEF Send
  <2>2. Shown' = Shown /\ Gone' = Gone
    BY <2>1, ShownKept DEF NothingConsumed, Gone
  <2>3. Box!Accept(e)
    BY <1>k, <2>1, <2>2 DEF Box!Accept
  <2> QED
    BY <2>3 DEF Box!Next
\* One entry is withdrawn from a queue, or none.
<1>2. ASSUME NEW e, NEW s \in {guide, pending},
             removed' = IF e \in Elements(s) THEN removed \cup {e} ELSE removed,
             UNCHANGED <<sent, log, lost>>
      PROVE  [Box!Next]_(Box!vars)
  <2>1. Shown' = Shown
    BY <1>2, ShownKept DEF NothingConsumed
  <2>2. CASE e \in Elements(s)
    <3>1. e \in InMemory
      BY <1>2, <2>2 DEF InMemory
    <3>2. Box!Withdraw(e) /\ e \in Entry
      BY <1>2, <1>w, <2>1, <2>2, <3>1 DEF Box!Withdraw, Gone
    <3> QED
      BY <3>2 DEF Box!Next
  <2>3. CASE e \notin Elements(s)
    BY <1>0, <1>2, <2>1, <2>3 DEF Gone
  <2> QED
    BY <2>2, <2>3
<1>3. CASE (\E e \in Entry : RemovePending(e)) \/ RemoveGuide
  <2>1. CASE \E e \in Entry : RemovePending(e)
    BY <1>2, <2>1 DEF RemovePending
  <2>2. CASE RemoveGuide
    BY <1>2, <2>2 DEF RemoveGuide
  <2> QED
    BY <1>3, <2>1, <2>2
<1>4. CASE Crash
  <2>1. lost' = lost \cup InMemory /\ UNCHANGED <<sent, log, removed>>
    BY <1>4 DEF Crash
  <2>2. Shown' = Shown
    BY <2>1, ShownKept DEF NothingConsumed
  <2>3. Box!LoseAll
    BY <1>w, <2>1, <2>2 DEF Box!LoseAll, Gone
  <2> QED
    BY <2>3 DEF Box!Next
<1>5. CASE TakeGuide \/ DrainPending \/ TakePaused \/ StreamInbound \/ ToolsInbound \/ IdleInbound
  <2>1. UNCHANGED <<sent, log, removed, lost>>
    BY <1>5 DEF TakeGuide, DrainPending, TakePaused, StreamInbound, ToolsInbound, IdleInbound
  <2>2. Shown' = Shown /\ Gone' = Gone
    BY <2>1, ShownKept DEF NothingConsumed, Gone
  <2> QED
    BY <1>0, <2>1, <2>2
\* The head of the batch is served: what waits in its lane stands behind it.
<1>6. CASE ConsumeUser \/ ConsumeControl
  <2> DEFINE e == Head(batch)
  <2>1. batch # <<>> /\ UNCHANGED <<sent, removed, lost>>
    BY <1>6 DEF ConsumeUser, ConsumeControl
  <2>2. Shown' = [Shown EXCEPT ![e] = @ + 1]
    BY <1>6, ShownServed
  <2>3. InOrder(batch, Behind)
    BY DEF LineInv
  <2> DEFINE R == Behind
  <2>4. /\ \A f \in Elements(Tail(batch)) : <<e, f>> \in Behind
        /\ Elements(batch) = {e} \cup Elements(Tail(batch))
    <3>1. InOrder(batch, R)
      BY <2>3
    <3> HIDE DEF R
    <3>2. /\ \A f \in Elements(Tail(batch)) : <<Head(batch), f>> \in R
          /\ Elements(batch) = {Head(batch)} \cup Elements(Tail(batch))
      BY <1>t, <2>1, <3>1, OrderTail
    <3> QED
      BY <3>2 DEF R
  <2> HIDE DEF e
  <2>5. e \in Box!Waiting /\ e \in Entry
    BY <1>w, <2>4 DEF InMemory
  <2>6. ASSUME NEW f \in Box!Ahead(e), f \in Box!Waiting PROVE FALSE
    <3>1. f \in Guide <=> e \in Guide
      BY DEF Box!Ahead, Box!SameLane
    <3>2. PICK i, j \in DOMAIN sent : i < j /\ sent[i] = f /\ sent[j] = e
      BY DEF Box!Ahead
    <3>3. \A k, l \in DOMAIN sent : sent[k] = sent[l] => k = l
      BY DEF LineInv
    <3>4. i \in Nat /\ j \in Nat
      BY <1>t, <3>2
    <3>5. f # e
      BY <3>2, <3>3, <3>4
    <3>6. f \in Elements(Tail(batch)) \cup Elements(guide) \cup Elements(pending) \cup Elements(inbound)
      BY <1>w, <2>4, <2>6, <3>5 DEF InMemory
    <3>7. <<e, f>> \in Behind
      BY <2>4, <3>6 DEF LineInv, AllBefore
    <3>8. PICK k, l \in DOMAIN sent : k < l /\ sent[k] = e /\ sent[l] = f
      BY <3>1, <3>7 DEF Behind
    <3>9. k = j /\ l = i
      BY <3>2, <3>3, <3>8
    <3> QED
      BY <3>2, <3>4, <3>8, <3>9
  <2>7. Box!Serve(e)
    BY <2>1, <2>2, <2>5, <2>6 DEF Box!Serve, Gone
  <2> QED
    BY <2>5, <2>7 DEF Box!Next
<1>7. CASE Moving
  BY <1>1, <1>3, <1>4, <1>5, <1>6, <1>7 DEF Moving
<1>8. CASE ~Moving
  <2>1. UNCHANGED <<sent, removed, lost>> /\ NothingConsumed
    BY <1>8, OthersMoveNothing
  <2>2. Shown' = Shown /\ Gone' = Gone
    BY <2>1, ShownKept DEF Gone
  <2> QED
    BY <1>0, <2>1, <2>2
<1> QED
  BY <1>7, <1>8

\* A session implements a mailbox: whatever the channel, the two queues and the batch
\* do with an entry, it is served at most once, behind the entries of its lane that
\* were sent before it, withdrawn or lost (handle_inbound_item, ConsumeGate::take,
\* consume_batch, remove_queued_message).
THEOREM SessionIsAMailbox == Spec => ImplementsMailbox
<1>1. Init => LineInv /\ Box!Init
  <2> SUFFICES ASSUME Init PROVE LineInv /\ Box!Init
    OBVIOUS
  <2>1. /\ inbound = <<>> /\ guide = <<>> /\ pending = <<>> /\ batch = <<>> /\ log = <<>>
        /\ sent = <<>> /\ removed = {} /\ lost = {}
    BY DEF Init
  <2>2. Elements(<<>>) = {} /\ DOMAIN sent = {}
    BY <2>1 DEF Elements
  <2>3. LineInv
    BY <2>1, <2>2 DEF LineInv, InOrder, AllBefore
  <2>4. \A e \in Entry : TimesConsumed(e) = 0
    <3>1. log \in Seq(Row)
      BY <2>1
    <3>2. \A e \in Entry : Count(log, Spent(e)) = TimesConsumed(e)
      BY <3>1, TimesAre
    <3>3. \A e \in Entry : Count(<<>>, Spent(e)) = 0
      BY <2>1, <3>1, ConsumptionCounts
    <3> QED
      BY <2>1, <3>2, <3>3
  <2> QED
    BY <2>1, <2>3, <2>4 DEF Box!Init, Shown, Gone
<1>2. Init => BatchHeld
  BY DEF Init, BatchHeld
<1>3. TypeOK /\ Conservation /\ BatchHeld /\ LineInv /\ [Next]_vars
        => BatchHeld' /\ LineInv' /\ [Box!Next]_(Box!vars)
  BY BatchStep, LineStep, MailboxStep
<1> QED
  BY <1>1, <1>2, <1>3, TypeCorrect, EntriesAreConserved, PTL DEF Spec, ImplementsMailbox, Box!Spec


(***************************************************************************)
(* When a chain is open                                                    *)
(***************************************************************************)
OpenKinds == {"tooluse", "tool", "aborted", "partial"}
\* The last row before i that is no consumed entry leaves its chain open.
OpenChain(s, i) ==
  \E j \in 1..(i - 1) :
    /\ IsConversation(s[j]) /\ s[j].kind \in OpenKinds
    /\ \A k \in 1..(i - 1) : IsConversation(s[k]) => k <= j

\* ChainOpenBefore chooses that row.
LEMMA OpenIs ==
  ASSUME log \in Seq(Row), NEW i \in 1..(Len(log) + 1)
  PROVE  ChainOpenBefore(i) <=> OpenChain(log, i)
<1> DEFINE P == Previous(i)
           last == CHOOSE j \in P : \A k \in P : k <= j
<1>1. /\ \A j : j \in P <=> j \in 1..(i - 1) /\ IsConversation(log[j])
      /\ P \in SUBSET Nat /\ i - 1 \in Nat /\ \A j \in P : j <= i - 1
  BY DEF Previous
<1>2. ChainOpenBefore(i) <=> P # {} /\ log[last].kind \in OpenKinds
  BY DEF ChainOpenBefore, OpenKinds
<1>3. OpenChain(log, i) <=> \E j \in P : log[j].kind \in OpenKinds /\ \A k \in P : k <= j
  BY <1>1 DEF OpenChain
<1> HIDE DEF P
<1>4. P # {} => \E m \in P : \A k \in P : k <= m
  BY <1>1, GreatestNumber
<1>5. P # {} => last \in P /\ \A k \in P : k <= last
  BY <1>4
<1> HIDE DEF last
<1>6. \A j \in P : (\A k \in P : k <= j) => j = last
  <2>1. ASSUME NEW j \in P, \A k \in P : k <= j PROVE j = last
    <3>1. last \in P /\ last <= j /\ j <= last
      BY <1>5, <2>1
    <3> QED
      BY <1>1, <3>1
  <2> QED
    BY <2>1
<1> QED
  BY <1>2, <1>3, <1>5, <1>6

\* What one more row does to the chains.
LEMMA OpenAppend ==
  ASSUME NEW s \in Seq(Row), NEW r \in Row
  PROVE  /\ \A i \in 1..(Len(s) + 1) : OpenChain(Append(s, r), i) <=> OpenChain(s, i)
         /\ IsConversation(r) => (OpenChain(Append(s, r), Len(s) + 2) <=> r.kind \in OpenKinds)
         /\ ~IsConversation(r) => (OpenChain(Append(s, r), Len(s) + 2) <=> OpenChain(s, Len(s) + 1))
<1> DEFINE t == Append(s, r)
           n == Len(s)
<1>1. n \in Nat /\ t[n + 1] = r /\ \A j \in 1..n : t[j] = s[j]
  BY AppendProperties
<1> HIDE DEF t, n
<1>2. ASSUME NEW i \in 1..(n + 1) PROVE OpenChain(t, i) <=> OpenChain(s, i)
  <2>1. \A j \in 1..(i - 1) : t[j] = s[j]
    BY <1>1
  <2> QED
    BY <2>1 DEF OpenChain
<1>3. 1..((n + 2) - 1) = (1..n) \cup {n + 1} /\ 1..((n + 1) - 1) = 1..n
  BY <1>1
<1>4. ASSUME IsConversation(r) PROVE OpenChain(t, n + 2) <=> r.kind \in OpenKinds
  <2>1. ASSUME r.kind \in OpenKinds PROVE OpenChain(t, n + 2)
    <3>1. n + 1 \in 1..((n + 2) - 1) /\ \A k \in 1..((n + 2) - 1) : k <= n + 1
      BY <1>1
    <3> QED
      BY <1>1, <1>4, <2>1, <3>1 DEF OpenChain
  <2>2. ASSUME OpenChain(t, n + 2) PROVE r.kind \in OpenKinds
    <3>1. PICK j \in 1..((n + 2) - 1) :
            /\ IsConversation(t[j]) /\ t[j].kind \in OpenKinds
            /\ \A k \in 1..((n + 2) - 1) : IsConversation(t[k]) => k <= j
      BY <2>2 DEF OpenChain
    <3>2. n + 1 <= j
      BY <1>1, <1>3, <1>4, <3>1
    <3>3. j = n + 1
      BY <1>1, <3>1, <3>2
    <3> QED
      BY <1>1, <3>1, <3>3
  <2> QED
    BY <2>1, <2>2
<1>5. ASSUME ~IsConversation(r) PROVE OpenChain(t, n + 2) <=> OpenChain(s, n + 1)
  <2>1. ASSUME NEW j \in 1..((n + 2) - 1), IsConversation(t[j])
        PROVE  j \in 1..n /\ t[j] = s[j]
    BY <1>1, <1>3, <1>5, <2>1
  <2>2. OpenChain(t, n + 2) <=>
          \E j \in 1..n : /\ IsConversation(s[j]) /\ s[j].kind \in OpenKinds
                          /\ \A k \in 1..n : IsConversation(s[k]) => k <= j
    BY <1>1, <1>3, <2>1 DEF OpenChain
  <2> QED
    BY <1>3, <2>2 DEF OpenChain
<1> QED
  BY <1>2, <1>4, <1>5 DEF t, n

(***************************************************************************)
(* Pending entries wait for the end of the chain                           *)
(***************************************************************************)
Waits(row) == row.kind \in {"user", "echo"} /\ row.id \notin Guide
Locked(s) == \A i \in DOMAIN s : Waits(s[i]) => ~OpenChain(s, i)
Calm(s) == ~OpenChain(s, Len(s) + 1)

\* A row may be added if it consumes no pending entry or no chain is open.
LEMMA LockedAppend ==
  ASSUME NEW s \in Seq(Row), NEW r \in Row, Locked(s), Waits(r) => Calm(s)
  PROVE  /\ Append(s, r) \in Seq(Row)
         /\ Locked(Append(s, r))
         /\ ~IsConversation(r) => (Calm(Append(s, r)) <=> Calm(s))
         /\ IsConversation(r) /\ r.kind \notin OpenKinds => Calm(Append(s, r))
<1> DEFINE t == Append(s, r)
           n == Len(s)
<1>1. /\ n \in Nat /\ DOMAIN s = 1..n /\ DOMAIN t = 1..(n + 1) /\ Len(t) = n + 1
      /\ t[n + 1] = r /\ \A j \in 1..n : t[j] = s[j]
      /\ t \in Seq(Row)
  BY AppendProperties
<1>2. /\ \A i \in 1..(n + 1) : OpenChain(t, i) <=> OpenChain(s, i)
      /\ IsConversation(r) => (OpenChain(t, n + 2) <=> r.kind \in OpenKinds)
      /\ ~IsConversation(r) => (OpenChain(t, n + 2) <=> OpenChain(s, n + 1))
  BY OpenAppend
<1> HIDE DEF t, n
<1>3. Locked(t)
  <2>1. ASSUME NEW i \in 1..(n + 1), Waits(t[i]) PROVE ~OpenChain(t, i)
    <3>1. CASE i = n + 1
      BY <1>1, <1>2, <2>1, <3>1 DEF Calm, n
    <3>2. CASE i # n + 1
      <4>1. i \in 1..n
        BY <1>1, <3>2
      <4> QED
        BY <1>1, <1>2, <2>1, <4>1 DEF Locked
    <3> QED
      BY <3>1, <3>2
  <2> QED
    BY <1>1, <2>1 DEF Locked
<1>4. Len(t) + 1 = n + 2
  BY <1>1
<1> QED
  BY <1>1, <1>2, <1>3, <1>4 DEF Calm, t, n

\* No step but a crash counts one.
LEMMA CrashesKept ==
  ASSUME count \in Counters, [Next]_vars, ~Crash
  PROVE  count'.crashes = count.crashes
<1> USE DEF channels, queues, gate, batchVars, streamVars, toolVars, callerVars
<1>1. CASE CallerStep
  BY <1>1 DEF CallerStep, Send, RemovePending, RemoveGuide, SendInterrupt, Shutdown, Counters
<1>2. CASE UNCHANGED stateVars
  BY <1>2 DEF stateVars
<1>3. CASE TakeGuide \/ DrainPending \/ TakePaused \/ PreCompress
  BY <1>3 DEF TakeGuide, DrainPending, TakePaused, PreCompress
<1>4. CASE ConsumeUser \/ ConsumeControl \/ BatchDone \/ Resolve
  BY <1>4 DEF ConsumeUser, ConsumeControl, BatchDone, Resolve, Emit, Counters
<1>5. CASE \/ StreamInbound \/ StreamText \/ (\E c \in Call : StreamCall(c))
           \/ StreamRetry \/ BackoffEnd \/ StreamFail \/ CancelInBackoff
           \/ StreamFinal \/ StreamTools
  BY <1>5 DEF StreamInbound, StreamText, StreamCall, StreamRetry, BackoffEnd, StreamFail,
              CancelInBackoff, StreamFinal, StreamTools, Emit, Counters
<1>6. CASE \/ (\E c \in Call : ToolFinish(c) \/ ToolRecord(c) \/ DrainRecord(c) \/ CloseAbort(c))
           \/ ToolsInbound \/ ToolsDone \/ ToolsDrained
  BY <1>6 DEF ToolFinish, ToolRecord, DrainRecord, CloseAbort, Record, ToolsInbound, ToolsDone,
              ToolsDrained, Emit, Counters
<1>7. CASE CloseStream \/ CloseTools \/ CloseNotify \/ IdleShutdown \/ IdleInbound \/ IdleInterrupt
  BY <1>7 DEF CloseStream, CloseTools, CloseNotify, IdleShutdown, IdleInbound, IdleInterrupt, Emit,
              Counters
<1>8. CASE PollStep \/ BranchStep
  BY <1>3, <1>4, <1>5, <1>6, <1>7, <1>8 DEF PollStep, BranchStep
<1> QED
  BY <1>1, <1>2, <1>8 DEF Next, TaskStep, NewPass, vars

\* What leaves or enters a queue of guide entries.
LEMMA GuideKept ==
  ASSUME NEW s \in Seq(Entry)
  PROVE  /\ \A e : Elements(Without(s, e)) \subseteq Elements(s)
         /\ s # <<>> => Head(s) \in Elements(s) /\ Elements(Tail(s)) \subseteq Elements(s)
<1>1. ASSUME NEW e PROVE Elements(Without(s, e)) \subseteq Elements(s)
  <2> DEFINE E == Elements(s)
  <2>1. s \in Seq(E)
    BY DEF Elements
  <2>2. Without(s, e) \in Seq(E)
    BY <2>1, WithoutType
  <2> HIDE DEF E
  <2>3. \A i \in DOMAIN Without(s, e) : Without(s, e)[i] \in E
    BY <2>2
  <2> QED
    BY <2>3 DEF Elements, E
<1>2. s # <<>> => Head(s) \in Elements(s) /\ Elements(Tail(s)) \subseteq Elements(s)
  BY DEF Elements
<1> QED
  BY <1>1, <1>2

\* Why no pending entry is consumed inside a chain: outside a chain the task is idle,
\* resolves, or takes a batch for another reason than a finished tool batch; inside
\* one it takes guide entries only, because the pending queue has been put behind the
\* guide queue at the other moments alone.
ChainInv ==
  count.crashes = 0 =>
    /\ Locked(log)
    /\ pc \in {"idle", "resolve"} => Calm(log)
    /\ pc \in {"take", "drained", "precompress", "batch"} /\ timing # "AfterToolBatch"
         => Calm(log)
    /\ pc \in {"take", "batch"} /\ timing = "AfterToolBatch" => Elements(batch) \subseteq Guide
    /\ pc # "drained" => Elements(guide) \subseteq Guide
    /\ pc \in {"drained", "precompress"} => timing # "AfterToolBatch"

LEMMA ChainStep == TypeOK /\ BatchHeld /\ ChainInv /\ [Next]_vars => ChainInv'
<1> SUFFICES ASSUME TypeOK, BatchHeld, ChainInv, [Next]_vars, count'.crashes = 0
    PROVE  /\ Locked(log')
           /\ pc' \in {"idle", "resolve"} => Calm(log')
           /\ pc' \in {"take", "drained", "precompress", "batch"} /\ timing' # "AfterToolBatch"
                => Calm(log')
           /\ pc' \in {"take", "batch"} /\ timing' = "AfterToolBatch" => Elements(batch') \subseteq Guide
           /\ pc' # "drained" => Elements(guide') \subseteq Guide
           /\ pc' \in {"drained", "precompress"} => timing' # "AfterToolBatch"
  BY DEF ChainInv
<1> DEFINE Goal ==
      /\ Locked(log')
      /\ pc' \in {"idle", "resolve"} => Calm(log')
      /\ pc' \in {"take", "drained", "precompress", "batch"} /\ timing' # "AfterToolBatch"
           => Calm(log')
      /\ pc' \in {"take", "batch"} /\ timing' = "AfterToolBatch" => Elements(batch') \subseteq Guide
      /\ pc' # "drained" => Elements(guide') \subseteq Guide
      /\ pc' \in {"drained", "precompress"} => timing' # "AfterToolBatch"
<1> USE DEF channels, queues, gate, batchVars, streamVars, toolVars, callerVars
<1>t. /\ log \in Seq(Row) /\ batch \in Seq(Entry) /\ guide \in Seq(Entry) /\ inbound \in Seq(Entry)
      /\ count \in Counters /\ timing \in Timings
  BY DEF TypeOK, DataOK
<1>k. Kinds = {"user", "echo", "compaction", "final", "tooluse", "partial",
               "tool", "aborted", "interrupt", "error"}
  BY DEF Kinds
<1>0. count.crashes = 0
  <2>1. CASE Crash
    BY <1>t, <2>1 DEF Crash, Counters
  <2>2. CASE ~Crash
    <3>1. count'.crashes = count.crashes
      BY <1>t, <2>2, CrashesKept
    <3> QED
      BY <3>1
  <2> QED
    BY <2>1, <2>2
<1>i. /\ Locked(log)
      /\ pc \in {"idle", "resolve"} => Calm(log)
      /\ pc \in {"take", "drained", "precompress", "batch"} /\ timing # "AfterToolBatch"
           => Calm(log)
      /\ pc \in {"take", "batch"} /\ timing = "AfterToolBatch" => Elements(batch) \subseteq Guide
      /\ pc # "drained" => Elements(guide) \subseteq Guide
      /\ pc \in {"drained", "precompress"} => timing # "AfterToolBatch"
  BY <1>0 DEF ChainInv
<1>b. pc \notin {"batch", "precompress", "exited"} => batch = <<>>
  BY DEF BatchHeld
<1>e. Elements(<<>>) = {}
  BY DEF Elements
\* Steps that leave the history alone and go nowhere new.
<1>1. CASE CallerStep
  <2>0. ~Crash
    BY <1>0, <1>t DEF Crash, Counters
  <2>1. UNCHANGED <<log, pc, timing, batch>>
    BY <1>1, <2>0 DEF CallerStep, Send, RemovePending, RemoveGuide, SendInterrupt, Shutdown
  <2>2. guide' = guide \/ guide' = Without(guide, remover.entry)
    BY <1>1, <2>0 DEF CallerStep, Send, RemovePending, RemoveGuide, SendInterrupt, Shutdown
  <2>3. Elements(guide') \subseteq Elements(guide)
    BY <1>t, <2>2, GuideKept
  <2> QED
    BY <1>i, <2>1, <2>3
<1>2. CASE \/ UNCHANGED stateVars \/ StreamText \/ (\E c \in Call : StreamCall(c))
           \/ StreamRetry \/ BackoffEnd \/ (\E c \in Call : ToolFinish(c)) \/ ToolsDone
           \/ CloseTools \/ IdleShutdown
  <2>1. UNCHANGED <<log, timing, batch, guide>>
    BY <1>2 DEF stateVars, StreamText, StreamCall, StreamRetry, BackoffEnd, ToolFinish, ToolsDone,
                CloseTools, IdleShutdown
  <2>2. (pc' = pc \/ pc' \notin {"idle", "resolve", "take", "drained", "precompress", "batch"})
        /\ (pc = "drained" => pc' = "drained")
    BY <1>2 DEF stateVars, StreamText, StreamCall, StreamRetry, BackoffEnd, ToolFinish, ToolsDone,
                CloseTools, IdleShutdown, Polled, ToolsPolled
  <2> QED
    BY <1>i, <2>1, <2>2
<1>3. CASE TakeGuide
  <2>1. /\ batch' = guide /\ guide' = <<>> /\ UNCHANGED <<log, timing>>
        /\ pc \in {"take", "drained"} /\ pc' = AfterTake(guide)
    BY <1>3 DEF TakeGuide
  <2> QED
    BY <1>e, <1>i, <2>1 DEF AfterTake
<1>4. CASE DrainPending
  <2>1. /\ pc = "take" /\ pc' = "drained" /\ timing # "AfterToolBatch"
        /\ UNCHANGED <<log, timing, batch>>
    BY <1>4 DEF DrainPending, DrainsPending
  <2> QED
    BY <1>i, <2>1
<1>5. CASE TakePaused
  <2>1. /\ pc = "take" /\ pc' = AfterTake(<<>>) /\ batch' = <<>>
        /\ UNCHANGED <<log, timing, guide>>
    BY <1>5 DEF TakePaused
  <2> QED
    BY <1>e, <1>i, <2>1 DEF AfterTake
<1>6. CASE BatchDone
  <2>1. /\ pc = "batch" /\ UNCHANGED <<log, batch, guide>>
        /\ pc' \in {"idle", "resolve", "stream"}
        /\ pc' \in {"idle", "resolve"} => timing # "AfterToolBatch"
    BY <1>6 DEF BatchDone, OpenStream, EndTurn
  <2> QED
    BY <1>i, <2>1
<1>7. CASE StreamInbound \/ ToolsInbound \/ IdleInbound
  <2>1. /\ inbound # <<>> /\ Enqueue /\ UNCHANGED <<log, batch>>
    BY <1>7 DEF StreamInbound, ToolsInbound, IdleInbound
  <2>2. \/ pc \in {"stream", "backoff", "tools"} /\ pc' = pc
        \/ pc = "idle" /\ pc' = "take" /\ timing' = "Idle"
    BY <1>7 DEF StreamInbound, ToolsInbound, IdleInbound
  <2>3. Elements(guide') \subseteq Guide
    <3> DEFINE e == Head(inbound)
    <3>1. e \in Entry /\ guide' = IF e \in Guide THEN Append(guide, e) ELSE guide
      BY <1>t, <2>1 DEF Enqueue
    <3> HIDE DEF e
    <3>2. Elements(Append(guide, e)) = Elements(guide) \cup {e}
      BY <1>t, <3>1, ElementsAppend
    <3>3. Elements(guide) \subseteq Guide
      BY <1>i, <2>2
    <3> QED
      BY <3>1, <3>2, <3>3
  <2> QED
    BY <1>i, <2>1, <2>2, <2>3
<1>8. CASE ToolsDrained
  <2>1. /\ pc = "drain" /\ pc' = "take" /\ timing' = "AfterToolBatch"
        /\ UNCHANGED <<log, batch, guide>>
    BY <1>8 DEF ToolsDrained
  <2> QED
    BY <1>b, <1>e, <1>i, <2>1
\* Steps that write a row.
<1>9. ASSUME NEW r \in Row, log' = Append(log, r), Waits(r) => Calm(log)
      PROVE  /\ Locked(log')
             /\ ~IsConversation(r) => (Calm(log') <=> Calm(log))
             /\ IsConversation(r) /\ r.kind \notin OpenKinds => Calm(log')
  BY <1>9, <1>i, <1>t, LockedAppend
<1>r. /\ \A kind \in Kinds, id \in Entry \cup Call \cup {NoId}, calls \in SUBSET Call, fate \in Fates :
           LET r == RowOf(kind, id, calls, fate) IN
           /\ r \in Row /\ r.kind = kind /\ r.id = id
           /\ IsConversation(r) <=> kind \notin {"user", "echo", "compaction"}
           /\ Waits(r) <=> kind \in {"user", "echo"} /\ id \notin Guide
      /\ \A kind, id : Event(kind, id) = RowOf(kind, id, {}, "event")
      /\ HistoryFates \subseteq Fates /\ "event" \in Fates /\ "saved" \in Fates
  BY RowType DEF RowOf, Event, IsConversation, Waits, Fates, HistoryFates
\* ... inside a turn: the closing of the turn ends the chain.
<1>10. ASSUME NEW kind \in Kinds \ {"user", "echo", "compaction"}, NEW id \in Call \cup {NoId},
              NEW calls \in SUBSET Call, NEW fate \in Fates,
              log' = Append(log, RowOf(kind, id, calls, fate))
       PROVE  Locked(log') /\ (kind \notin OpenKinds => Calm(log'))
  <2> DEFINE r == RowOf(kind, id, calls, fate)
  <2>1. r \in Row /\ r.kind = kind /\ IsConversation(r) /\ ~Waits(r)
    BY <1>r, <1>10
  <2> HIDE DEF r
  <2> QED
    BY <1>9, <1>10, <2>1 DEF r
<1>v. ASSUME NEW kind \in {"error", "interrupt"}, log' = Append(log, Event(kind, NoId))
      PROVE  Locked(log') /\ Calm(log')
  <2>1. /\ log' = Append(log, RowOf(kind, NoId, {}, "event")) /\ "event" \in Fates
        /\ kind \in Kinds \ {"user", "echo", "compaction"} /\ kind \notin OpenKinds
    BY <1>k, <1>r, <1>v DEF OpenKinds
  <2> QED
    BY <1>10, <2>1
<1>11. CASE Resolve
  <2>1. pc = "resolve" /\ UNCHANGED <<batch, guide>>
    BY <1>11 DEF Resolve
  <2>2. CASE log' = log /\ pc' = "stream"
    BY <1>i, <2>1, <2>2
  <2>3. CASE log' = Append(log, Event("error", NoId)) /\ pc' = "idle"
    <3>1. Locked(log') /\ Calm(log')
      BY <1>v, <2>3
    <3> QED
      BY <1>i, <2>1, <2>3, <3>1
  <2> QED
    BY <1>11, <2>2, <2>3 DEF Resolve, OpenStream, EndTurn
<1>12. CASE StreamFail \/ CancelInBackoff \/ CloseNotify \/ IdleInterrupt
  <2>1. /\ pc \in {"stream", "backoff", "closing", "idle"} /\ UNCHANGED <<batch, guide>>
        /\ pc' \in {"idle", "take"} /\ timing' = "Idle"
        /\ \E kind \in {"error", "interrupt"} : log' = Append(log, Event(kind, NoId))
    BY <1>12 DEF StreamFail, CancelInBackoff, CloseNotify, IdleInterrupt, EndTurn, Polled
  <2>2. Locked(log') /\ Calm(log')
    BY <1>v, <2>1
  <2> QED
    BY <1>i, <2>1, <2>2
<1>13. CASE StreamFinal
  <2>1. /\ pc = "stream" /\ pc' = "take" /\ timing' = "FinalReply" /\ UNCHANGED <<batch, guide>>
        /\ \E fate \in HistoryFates : log' = Append(log, RowOf("final", NoId, {}, fate))
    BY <1>13 DEF StreamFinal, Polled, Emit
  <2>2. Locked(log') /\ Calm(log')
    BY <1>10, <1>k, <1>r, <2>1 DEF OpenKinds
  <2> QED
    BY <1>i, <2>1, <2>2
<1>14. CASE StreamTools
  <2>1. /\ pc = "stream" /\ UNCHANGED <<batch, guide>> /\ received \in SUBSET Call
        /\ pc' = "tools" \/ (pc' = "take" /\ timing' = "AfterToolBatch")
        /\ \E calls \in SUBSET received, fate \in HistoryFates :
             log' = Append(log, RowOf("tooluse", NoId, calls, fate))
    BY <1>14 DEF StreamTools, Polled, TypeOK, DataOK
  <2>2. Locked(log')
    BY <1>10, <1>k, <1>r, <2>1
  <2> QED
    BY <1>b, <1>e, <1>i, <2>1, <2>2
<1>15. CASE \E c \in Call : ToolRecord(c) \/ DrainRecord(c) \/ CloseAbort(c)
  <2>1. /\ pc \in {"tools", "drain", "closing"} /\ pc' = pc /\ UNCHANGED <<batch, guide>>
        /\ \E kind \in {"tool", "aborted"}, c \in Call, fate \in HistoryFates :
             log' = Append(log, RowOf(kind, c, {}, fate))
    BY <1>15 DEF ToolRecord, DrainRecord, Record, CloseAbort, Emit
  <2>2. Locked(log')
    BY <1>10, <1>k, <1>r, <2>1
  <2> QED
    BY <1>i, <2>1, <2>2
<1>16. CASE CloseStream
  <2>1. pc \in {"stream", "backoff"} /\ pc' = "closing" /\ UNCHANGED <<batch, guide>>
    BY <1>16 DEF CloseStream
  <2>2. CASE log' = log
    BY <1>i, <2>1, <2>2
  <2>3. CASE \E fate \in HistoryFates : log' = Append(log, RowOf("partial", NoId, partial \cap ValidCall, fate))
    <3>1. partial \cap ValidCall \in SUBSET Call
      BY DEF TypeOK, DataOK
    <3>2. PICK fate \in Fates : log' = Append(log, RowOf("partial", NoId, partial \cap ValidCall, fate))
      BY <1>r, <2>3
    <3>3. Locked(log')
      BY <1>10, <1>k, <3>1, <3>2
    <3> QED
      BY <1>i, <2>1, <3>3
  <2> QED
    BY <1>16, <2>2, <2>3 DEF CloseStream, Emit
\* ... and where a batch is prepared or consumed.
<1>17. CASE PreCompress
  <2>1. pc = "precompress" /\ pc' \in {"exited", "batch"} /\ UNCHANGED <<batch, guide, timing>>
    BY <1>17 DEF PreCompress
  <2>2. CASE log' = log
    BY <1>i, <2>1, <2>2
  <2>3. CASE log' = Append(log, RowOf("compaction", NoId, {}, "saved"))
    <3>1. Locked(log') /\ (Calm(log') <=> Calm(log))
      BY <1>9, <1>k, <1>r, <2>3
    <3> QED
      BY <1>i, <2>1, <3>1
  <2> QED
    BY <1>17, <2>2, <2>3 DEF PreCompress
<1>18. ASSUME pc = "batch", batch # <<>>, batch' = Tail(batch), UNCHANGED <<pc, timing, guide>>,
              Locked(log'), Calm(log) => Calm(log')
       PROVE  Goal
  BY <1>18, <1>i, <1>t, GuideKept
<1>19. ASSUME pc = "batch", batch # <<>>
       PROVE  Head(batch) \in Entry /\ (Head(batch) \notin Guide => Calm(log))
  BY <1>19, <1>i, <1>t, GuideKept
<1>20. CASE ConsumeUser
  <2>1. /\ pc = "batch" /\ batch # <<>> /\ batch' = Tail(batch) /\ UNCHANGED <<pc, timing, guide>>
        /\ \E fate \in HistoryFates : log' = Append(log, RowOf("user", Head(batch), {}, fate))
    BY <1>20 DEF ConsumeUser, Emit
  <2>2. Locked(log') /\ (Calm(log') <=> Calm(log))
    BY <1>9, <1>19, <1>k, <1>r, <2>1
  <2> QED
    BY <1>18, <2>1, <2>2
<1>21. CASE ConsumeControl
  <2> DEFINE echo == Event("echo", Head(batch))
             note == RowOf("compaction", NoId, {}, "saved")
             s == Append(log, echo)
  <2>1. /\ pc = "batch" /\ batch # <<>> /\ batch' = Tail(batch) /\ UNCHANGED <<pc, timing, guide>>
        /\ log' = s \o <<>> \/ log' = s \o <<note>>
    BY <1>21 DEF ConsumeControl
  <2>2. /\ echo \in Row /\ ~IsConversation(echo) /\ (Waits(echo) => Calm(log))
        /\ note \in Row /\ ~IsConversation(note) /\ ~Waits(note)
    BY <1>19, <1>k, <1>r, <2>1
  <2> HIDE DEF echo, note
  <2>3. s \in Seq(Row) /\ Locked(s) /\ (Calm(s) <=> Calm(log))
    BY <1>i, <1>t, <2>2, LockedAppend
  <2> HIDE DEF s
  <2>4. s \o <<>> = s /\ s \o <<note>> = Append(s, note)
    BY <2>2, <2>3
  <2>5. Locked(Append(s, note)) /\ (Calm(Append(s, note)) <=> Calm(s))
    BY <2>2, <2>3, LockedAppend
  <2>6. Locked(log') /\ (Calm(log') <=> Calm(log))
    BY <2>1, <2>3, <2>4, <2>5
  <2> QED
    BY <1>18, <2>1, <2>6
<1>22. CASE PollStep \/ BranchStep
  BY <1>2, <1>3, <1>4, <1>5, <1>6, <1>7, <1>8, <1>11, <1>12, <1>13, <1>14, <1>15, <1>16, <1>17,
     <1>20, <1>21, <1>22 DEF PollStep, BranchStep
<1> QED
  BY <1>1, <1>2, <1>22 DEF Next, TaskStep, NewPass, vars

\* No entry sent with mode Pending is consumed between a reply with tool calls and the
\* reply, the interrupt or the error that ends its chain (react/mod.rs: ConsumeGate::take
\* by timing).
THEOREM PendingWaitsForTheChain == Spec => []PendingLocked
<1>1. Init => BatchHeld /\ ChainInv
  <2>1. Init => BatchHeld
    BY DEF Init, BatchHeld
  <2>2. ASSUME Init PROVE ChainInv
    <3>1. log = <<>> /\ batch = <<>> /\ guide = <<>> /\ pc = "take" /\ timing = "Idle"
      BY <2>2 DEF Init
    <3> QED
      BY <3>1 DEF ChainInv, Locked, Calm, OpenChain, Elements
  <2> QED
    BY <2>1, <2>2
<1>2. TypeOK /\ BatchHeld /\ ChainInv /\ [Next]_vars => BatchHeld' /\ ChainInv'
  BY BatchStep, ChainStep
<1>3. TypeOK /\ ChainInv => PendingLocked
  <2> SUFFICES ASSUME TypeOK, ChainInv, count.crashes = 0, NEW i \in DOMAIN log,
                      log[i].kind \in {"user", "echo"}, log[i].id \notin Guide
               PROVE  ~ChainOpenBefore(i)
    BY DEF PendingLocked
  <2>1. log \in Seq(Row)
    BY DEF TypeOK, DataOK
  <2>2. ~OpenChain(log, i)
    BY DEF ChainInv, Locked, Waits
  <2>3. i \in 1..(Len(log) + 1)
    BY <2>1
  <2> QED
    BY <2>1, <2>2, <2>3, OpenIs
<1> QED
  BY <1>1, <1>2, <1>3, TypeCorrect, PTL DEF Spec

(***************************************************************************)
(* The calls of a chain are answered                                       *)
(***************************************************************************)
\* Row i's call c has its result before the next reply.
Settled(s, i, c) ==
  \E j \in DOMAIN s :
    j > i /\ IsResult(s[j], c) /\ \A k \in (i + 1)..j : s[k].kind \notin Replies
\* Row i is the last reply.
Latest(s, i) == \A k \in DOMAIN s : k > i => s[k].kind \notin Replies
\* Every valid call of a row has its result, or will get it and no other reply came.
Owed(s, W) ==
  \A i \in DOMAIN s : \A c \in s[i].calls \cap ValidCall :
    Settled(s, i, c) \/ (c \in W /\ Latest(s, i))

\* What one more row does to the calls that are owed an answer: a result settles its
\* own, a reply may be written when nothing is owed, other rows change nothing.
LEMMA OwedAppend ==
  ASSUME NEW s \in Seq(Row), NEW r \in Row, NEW W, NEW V, Owed(s, W),
         \/ /\ r.calls = {} /\ r.kind \notin Replies
            /\ \A c \in W \cap ValidCall : c \in V \/ IsResult(r, c)
         \/ W = {} /\ r.calls \cap ValidCall \subseteq V
  PROVE  Owed(Append(s, r), V)
<1> DEFINE t == Append(s, r)
           n == Len(s)
<1>1. /\ n \in Nat /\ DOMAIN s = 1..n /\ DOMAIN t = 1..(n + 1)
      /\ t[n + 1] = r /\ \A j \in 1..n : t[j] = s[j]
  BY AppendProperties
<1> HIDE DEF t, n
<1>2. ASSUME NEW i \in 1..n, NEW c, Settled(s, i, c) PROVE Settled(t, i, c)
  <2>1. PICK j \in 1..n : j > i /\ IsResult(s[j], c) /\ \A k \in (i + 1)..j : s[k].kind \notin Replies
    BY <1>1, <1>2 DEF Settled
  <2>2. j \in 1..(n + 1) /\ t[j] = s[j] /\ \A k \in (i + 1)..j : k \in 1..n
    BY <1>1
  <2>3. \A k \in (i + 1)..j : t[k].kind \notin Replies
    BY <1>1, <2>1, <2>2
  <2> QED
    BY <1>1, <2>1, <2>2, <2>3 DEF Settled
<1>3. ASSUME NEW i \in 1..n, Latest(s, i), r.kind \notin Replies PROVE Latest(t, i)
  <2>1. \A k \in 1..(n + 1) : k \in 1..n \/ k = n + 1
    BY <1>1
  <2> QED
    BY <1>1, <1>3, <2>1 DEF Latest
<1>4. ASSUME NEW i \in 1..n, NEW c, Latest(s, i), r.kind \notin Replies, IsResult(r, c)
      PROVE  Settled(t, i, c)
  <2>1. n + 1 \in DOMAIN t /\ n + 1 > i /\ IsResult(t[n + 1], c)
    BY <1>1, <1>4
  <2>2. \A k \in (i + 1)..(n + 1) : k \in DOMAIN t /\ k > i
    BY <1>1
  <2>3. \A k \in (i + 1)..(n + 1) : t[k].kind \notin Replies
    BY <1>3, <1>4, <2>2 DEF Latest
  <2> QED
    BY <2>1, <2>3 DEF Settled
<1>5. ASSUME NEW i \in DOMAIN t, NEW c \in t[i].calls \cap ValidCall
      PROVE  Settled(t, i, c) \/ (c \in V /\ Latest(t, i))
  <2>1. CASE i \in 1..n
    <3>1. Settled(s, i, c) \/ (c \in W /\ Latest(s, i))
      BY <1>1, <1>5, <2>1 DEF Owed
    <3>2. CASE Settled(s, i, c)
      BY <1>2, <2>1, <3>2
    <3>3. CASE c \in W /\ Latest(s, i)
      <4>1. r.kind \notin Replies /\ (c \in V \/ IsResult(r, c))
        BY <1>5, <3>3
      <4> QED
        BY <1>3, <1>4, <2>1, <3>3, <4>1
    <3> QED
      BY <3>1, <3>2, <3>3
  <2>2. CASE i = n + 1
    <3>1. t[i] = r /\ Latest(t, i)
      BY <1>1, <2>2 DEF Latest
    <3>2. c \in V
      BY <1>5, <3>1
    <3> QED
      BY <3>1, <3>2
  <2> QED
    BY <1>1, <2>1, <2>2
<1> QED
  BY <1>5 DEF Owed, t

\* Nothing need be owed any longer than it is awaited.
LEMMA OwedMore ==
  ASSUME NEW s, NEW W, NEW V, Owed(s, W), W \cap ValidCall \subseteq V
  PROVE  Owed(s, V)
BY DEF Owed

\* The calls whose result the turn is still to write.
Awaited ==
  CASE pc \in {"tools", "drain"} -> running \cup results
    [] pc = "closing" -> results \cup Unfinished
    [] OTHER -> {}

\* Why every call is answered: what executes or has finished has been requested and
\* is not answered, nothing executes behind the tools phase, and a call without a
\* result is one the turn still waits for.
SettledInv ==
  /\ pc \in {"tools", "drain", "closing"} => running \cup results \subseteq requested \ answered
  /\ pc \in {"drain", "closing"} => running = {}
  /\ count.crashes = 0 => Owed(log, Awaited)

LEMMA SettledStep == TypeOK /\ AnswerInv /\ SettledInv /\ [Next]_vars => SettledInv'
<1> SUFFICES ASSUME TypeOK, AnswerInv, SettledInv, [Next]_vars PROVE SettledInv'
  OBVIOUS
<1> DEFINE Phases == {"tools", "drain", "closing"}
           Parts(rest) ==
             /\ pc' \in Phases => running' \cup results' \subseteq requested' \ answered'
             /\ pc' \in {"drain", "closing"} => running' = {}
             /\ count.crashes = 0 => rest
<1> USE CallAssumption DEF channels, queues, gate, batchVars, streamVars, toolVars, callerVars
<1>t. /\ log \in Seq(Row) /\ received \in SUBSET Call /\ partial \in SUBSET Call
      /\ requested \in SUBSET Call /\ running \in SUBSET Call
      /\ results \in SUBSET Call /\ answered \in SUBSET Call /\ count \in Counters
  BY DEF TypeOK, DataOK
<1>k. Kinds = {"user", "echo", "compaction", "final", "tooluse", "partial",
               "tool", "aborted", "interrupt", "error"}
  BY DEF Kinds
<1>i. /\ pc \in Phases => running \cup results \subseteq requested \ answered
      /\ pc \in {"drain", "closing"} => running = {}
      /\ count.crashes = 0 => Owed(log, Awaited)
  BY DEF SettledInv
<1>w. /\ pc \in {"tools", "drain"} => Awaited = running \cup results
      /\ pc = "closing" => Awaited = results \cup ((requested \cap ValidCall) \ answered)
      /\ pc \notin Phases => Awaited = {}
      /\ pc' \in {"tools", "drain"} => Awaited' = running' \cup results'
      /\ pc' = "closing" => Awaited' = results' \cup ((requested' \cap ValidCall) \ answered')
      /\ pc' \notin Phases => Awaited' = {}
  BY DEF Awaited, Unfinished
<1>0. CASE Crash
  <2>1. pc' = "take" /\ count'.crashes # 0
    BY <1>t, <1>0 DEF Crash, Counters
  <2> QED
    BY <2>1 DEF SettledInv
<1>c. ~Crash => count'.crashes = count.crashes
  BY <1>t, CrashesKept
<1>g. ASSUME ~Crash, Parts(Owed(log', Awaited')) PROVE SettledInv'
  BY <1>c, <1>g DEF SettledInv
<1> HIDE DEF Awaited
\* Steps that write nothing and leave what is awaited alone, or await less.
<1>a. ASSUME ~Crash, log' = log, Awaited \cap ValidCall \subseteq Awaited',
             pc' \in Phases => running' \cup results' \subseteq requested' \ answered',
             pc' \in {"drain", "closing"} => running' = {}
      PROVE  SettledInv'
  <2>1. count.crashes = 0 => Owed(log', Awaited')
    BY <1>a, <1>i, OwedMore
  <2> QED
    BY <1>a, <1>g, <2>1
<1>1. CASE CallerStep /\ ~Crash
  <2>1. UNCHANGED <<log, pc, toolVars>>
    BY <1>1 DEF CallerStep, Send, RemovePending, RemoveGuide, SendInterrupt, Shutdown
  <2> QED
    BY <1>1, <1>a, <1>i, <1>w, <2>1
<1>2. CASE \/ UNCHANGED stateVars \/ TakeGuide \/ DrainPending \/ TakePaused \/ BatchDone
           \/ StreamInbound \/ ToolsInbound \/ IdleInbound \/ IdleShutdown
           \/ StreamText \/ (\E c \in Call : StreamCall(c)) \/ StreamRetry \/ BackoffEnd
  <2>1. UNCHANGED <<log, toolVars, count>> /\ (pc' = pc \/ {pc, pc'} \cap Phases = {})
    BY <1>2 DEF stateVars, TakeGuide, DrainPending, TakePaused, AfterTake, BatchDone, OpenStream,
                EndTurn, StreamInbound, ToolsInbound, IdleInbound, IdleShutdown, StreamText,
                StreamCall, StreamRetry, BackoffEnd, Polled
  <2>2. ~Crash
    BY <1>t, <2>1 DEF Crash, Counters
  <2> QED
    BY <1>a, <1>i, <1>w, <2>1, <2>2
<1>3. CASE \E c \in Call : ToolFinish(c)
  <2>1. PICK c \in Call : ToolFinish(c)
    BY <1>3
  <2>2. /\ pc = "tools" /\ c \in running /\ UNCHANGED <<pc, log, requested, answered, count>>
        /\ running' = running \ {c} /\ results' = results \cup {c}
    BY <2>1 DEF ToolFinish, ToolsPolled
  <2>3. ~Crash
    BY <2>2 DEF Crash
  <2> QED
    BY <1>a, <1>i, <1>w, <2>2, <2>3
<1>4. CASE ToolsDone \/ CloseTools
  <2>1. /\ pc = "tools" /\ UNCHANGED <<log, requested, results, answered, count>> /\ running' = {}
        /\ (pc' = "drain" /\ running = {}) \/ pc' = "closing"
    BY <1>4 DEF ToolsDone, ToolsPolled, CloseTools
  <2>2. ~Crash
    BY <2>1 DEF Crash
  <2> QED
    BY <1>a, <1>i, <1>w, <2>1, <2>2
<1>5. CASE ToolsDrained
  <2>1. pc = "drain" /\ results = {} /\ pc' = "take" /\ UNCHANGED <<log, toolVars, count>>
    BY <1>5 DEF ToolsDrained
  <2>2. ~Crash
    BY <1>t, <2>1 DEF Crash, Counters
  <2> QED
    BY <1>a, <1>i, <1>w, <2>1, <2>2
\* Steps that write one row.
<1>r. /\ \A kind \in Kinds, id \in Entry \cup Call \cup {NoId}, calls \in SUBSET Call, fate \in Fates :
           LET r == RowOf(kind, id, calls, fate) IN
           /\ r \in Row /\ r.kind = kind /\ r.calls = calls
           /\ \A c : IsResult(r, c) <=> kind \in {"tool", "aborted"} /\ id = c
      /\ \A kind, id : Event(kind, id) = RowOf(kind, id, {}, "event")
      /\ HistoryFates \subseteq Fates /\ "event" \in Fates /\ "saved" \in Fates
  BY RowType DEF RowOf, Event, IsResult, ResultKinds, Fates, HistoryFates
<1>b. ASSUME ~Crash, NEW r \in Row, log' = Append(log, r),
             \/ /\ r.calls = {} /\ r.kind \notin Replies
                /\ \A c \in Awaited \cap ValidCall : c \in Awaited' \/ IsResult(r, c)
             \/ Awaited = {} /\ r.calls \cap ValidCall \subseteq Awaited',
             pc' \in Phases => running' \cup results' \subseteq requested' \ answered',
             pc' \in {"drain", "closing"} => running' = {}
      PROVE  SettledInv'
  <2>1. count.crashes = 0 => Owed(log', Awaited')
    BY <1>b, <1>i, <1>t, OwedAppend
  <2> QED
    BY <1>b, <1>g, <2>1
\* ... outside a batch of calls.
<1>6. ASSUME ~Crash, NEW kind \in Kinds, NEW id \in Entry \cup Call \cup {NoId}, NEW fate \in Fates,
             log' = Append(log, RowOf(kind, id, {}, fate)), Awaited = {}, pc' \notin Phases
      PROVE  SettledInv'
  <2> DEFINE r == RowOf(kind, id, {}, fate)
  <2>1. r \in Row /\ r.calls = {}
    BY <1>r
  <2> HIDE DEF r
  <2> QED
    BY <1>6, <1>b, <2>1 DEF r
<1>7. CASE Resolve \/ StreamFail \/ CancelInBackoff \/ IdleInterrupt \/ CloseNotify
  <2>1. /\ pc' \notin Phases
        /\ pc \notin Phases \/ (pc = "closing" /\ results = {} /\ Unfinished = {})
        /\ log' = log \/ \E kind \in {"error", "interrupt"} : log' = Append(log, Event(kind, NoId))
        /\ UNCHANGED <<toolVars, count>>
    BY <1>7 DEF Resolve, StreamFail, CancelInBackoff, IdleInterrupt, CloseNotify, EndTurn, OpenStream,
                Polled
  <2>2. ~Crash
    BY <1>t, <2>1 DEF Crash, Counters
  <2>3. Awaited = {}
    BY <1>w, <2>1 DEF Unfinished
  <2>4. CASE log' = log
    BY <1>a, <2>1, <2>2, <2>3, <2>4
  <2>5. ASSUME NEW kind \in {"error", "interrupt"}, log' = Append(log, Event(kind, NoId))
        PROVE  SettledInv'
    <3>1. log' = Append(log, RowOf(kind, NoId, {}, "event")) /\ "event" \in Fates /\ kind \in Kinds
      BY <1>k, <1>r, <2>5
    <3> QED
      BY <1>6, <2>1, <2>2, <2>3, <3>1
  <2> QED
    BY <2>1, <2>4, <2>5
<1>8. CASE ConsumeUser \/ StreamFinal
  <2>1. /\ {pc, pc'} \cap Phases = {} /\ UNCHANGED toolVars
        /\ \E kind \in {"user", "final"}, id \in Entry \cup {NoId}, fate \in HistoryFates :
             log' = Append(log, RowOf(kind, id, {}, fate))
    <3>1. CASE ConsumeUser
      <4>1. Head(batch) \in Entry
        BY <3>1, EntryAssumption DEF ConsumeUser
      <4> QED
        BY <3>1, <4>1 DEF ConsumeUser, Emit
    <3>2. CASE StreamFinal
      BY <3>2 DEF StreamFinal, Emit, Polled
    <3> QED
      BY <1>8, <3>1, <3>2
  <2>2. ~Crash
    BY <1>8 DEF ConsumeUser, StreamFinal, Emit, Crash, Polled
  <2>3. PICK kind \in Kinds, id \in Entry \cup Call \cup {NoId}, fate \in Fates :
          log' = Append(log, RowOf(kind, id, {}, fate))
    BY <1>k, <1>r, <2>1
  <2>4. Awaited = {} /\ pc' \notin Phases
    BY <1>w, <2>1
  <2> QED
    BY <1>6, <2>2, <2>3, <2>4
<1>9. CASE PreCompress
  <2>1. {pc, pc'} \cap Phases = {} /\ UNCHANGED <<toolVars, count>>
    BY <1>9 DEF PreCompress
  <2>2. ~Crash
    BY <1>t, <2>1 DEF Crash, Counters
  <2>3. Awaited = {} /\ pc' \notin Phases
    BY <1>w, <2>1
  <2>4. CASE log' = log
    BY <1>a, <2>2, <2>3, <2>4
  <2>5. CASE log' = Append(log, RowOf("compaction", NoId, {}, "saved"))
    <3>1. "compaction" \in Kinds /\ "saved" \in Fates
      BY <1>k, <1>r
    <3> QED
      BY <1>6, <2>2, <2>3, <2>5, <3>1
  <2> QED
    BY <1>9, <2>4, <2>5 DEF PreCompress
<1>10. CASE ConsumeControl
  <2> DEFINE echo == Event("echo", Head(batch))
             note == RowOf("compaction", NoId, {}, "saved")
             s == Append(log, echo)
  <2>1. /\ pc = "batch" /\ pc' = "batch" /\ UNCHANGED <<toolVars, count>> /\ batch # <<>>
        /\ log' = s \o <<>> \/ log' = s \o <<note>>
    BY <1>10 DEF ConsumeControl
  <2>2. Head(batch) \in Entry
    BY <2>1 DEF TypeOK, DataOK
  <2>3. /\ echo \in Row /\ echo.calls = {} /\ echo.kind \notin Replies
        /\ note \in Row /\ note.calls = {} /\ note.kind \notin Replies
    <3>1. echo \in Row /\ note \in Row
      BY <1>k, <2>2, RowType DEF Fates
    <3>2. /\ echo.calls = {} /\ echo.kind = "echo"
          /\ note.calls = {} /\ note.kind = "compaction"
      BY DEF Event, RowOf
    <3> QED
      BY <3>1, <3>2 DEF Replies
  <2> HIDE DEF echo, note
  <2>4. ~Crash /\ Awaited = {} /\ Awaited' = {} /\ pc' \notin Phases
    BY <1>t, <1>w, <2>1 DEF Crash, Counters
  <2>5. s \in Seq(Row)
    BY <1>t, <2>3
  <2>6. count.crashes = 0 => Owed(s, {})
    BY <1>i, <1>t, <2>3, <2>4, OwedAppend
  <2> HIDE DEF s
  <2>7. s \o <<>> = s /\ s \o <<note>> = Append(s, note)
    BY <2>3, <2>5
  <2>8. count.crashes = 0 => Owed(Append(s, note), {})
    BY <2>3, <2>5, <2>6, OwedAppend
  <2> QED
    BY <1>g, <2>1, <2>4, <2>6, <2>7, <2>8
\* ... the reply that asks for calls.
<1>11. ASSUME ~Crash, NEW kind \in {"tooluse", "partial"}, NEW calls \in SUBSET Call, NEW fate \in Fates,
              log' = Append(log, RowOf(kind, NoId, calls, fate)), pc \notin Phases,
              calls \cap ValidCall \subseteq Awaited',
              pc' \in Phases => running' \cup results' \subseteq requested' \ answered',
              pc' \in {"drain", "closing"} => running' = {}
       PROVE  SettledInv'
  <2> DEFINE r == RowOf(kind, NoId, calls, fate)
  <2>1. r \in Row /\ r.calls = calls
    <3>1. kind \in Kinds
      BY <1>k
    <3>2. r \in Row
      BY <3>1, RowType
    <3> QED
      BY <3>2 DEF RowOf
  <2>2. Awaited = {}
    BY <1>w, <1>11
  <2> HIDE DEF r
  <2> QED
    BY <1>11, <1>b, <2>1, <2>2 DEF r
<1>12. CASE StreamTools
  <2>1. pc = "stream" /\ results' = {} /\ answered' = {}
    BY <1>12 DEF StreamTools, Polled
  <2>2. PICK calls \in SUBSET received, fate \in HistoryFates :
          /\ log' = Append(log, RowOf("tooluse", NoId, calls, fate))
          /\ requested' = calls /\ running' = calls
          /\ IF calls = {} THEN pc' = "take" ELSE pc' = "tools"
          /\ count' = [count EXCEPT !.losses = @ + Losses(fate), !.tools = @ + 1]
    BY <1>12 DEF StreamTools
  <2>3. ~Crash
    <3>1. count'.crashes = count.crashes
      BY <1>t, <2>2 DEF Counters
    <3> QED
      BY <1>t, <3>1 DEF Crash, Counters
  <2>4. calls \cap ValidCall \subseteq Awaited'
    BY <1>w, <2>1, <2>2
  <2>5. calls \in SUBSET Call /\ fate \in Fates
    BY <1>r, <1>t
  <2> QED
    BY <1>11, <2>1, <2>2, <2>3, <2>4, <2>5
<1>13. CASE CloseStream
  <2>1. /\ pc \in {"stream", "backoff"} /\ pc' = "closing"
        /\ requested' = partial /\ running' = {} /\ results' = {} /\ answered' = {}
    BY <1>13 DEF CloseStream
  <2>2. ~Crash
    BY <2>1 DEF Crash
  <2>3. Awaited' = partial \cap ValidCall /\ Awaited = {}
    BY <1>w, <2>1
  <2>4. CASE text \/ partial # {}
    <3>1. PICK fate \in Fates : log' = Append(log, RowOf("partial", NoId, partial \cap ValidCall, fate))
      BY <1>13, <1>r, <2>4 DEF CloseStream, Emit
    <3>2. partial \cap ValidCall \in SUBSET Call
      BY <1>t
    <3> QED
      BY <1>11, <2>1, <2>2, <2>3, <3>1, <3>2
  <2>5. CASE ~(text \/ partial # {})
    <3>1. log' = log
      BY <1>13, <2>5 DEF CloseStream
    <3> QED
      BY <1>a, <2>1, <2>2, <2>3, <3>1
  <2> QED
    BY <2>4, <2>5
\* ... and the results.
<1>14. ASSUME ~Crash, NEW kind \in {"tool", "aborted"}, NEW c \in Call, NEW fate \in Fates,
              log' = Append(log, RowOf(kind, c, {}, fate)), Awaited \ {c} \subseteq Awaited',
              pc' \in Phases => running' \cup results' \subseteq requested' \ answered',
              pc' \in {"drain", "closing"} => running' = {}
       PROVE  SettledInv'
  <2> DEFINE r == RowOf(kind, c, {}, fate)
  <2>1. r \in Row /\ r.calls = {} /\ r.kind \notin Replies /\ IsResult(r, c)
    <3>1. kind \in Kinds /\ kind \notin Replies
      BY <1>k DEF Replies
    <3>2. r \in Row /\ r.calls = {} /\ r.kind = kind /\ IsResult(r, c)
      BY <1>r, <3>1
    <3> QED
      BY <3>1, <3>2
  <2> HIDE DEF r
  <2> QED
    BY <1>14, <1>b, <2>1 DEF r
<1>15. CASE \E c \in Call : ToolRecord(c) \/ DrainRecord(c) \/ CloseAbort(c)
  <2>1. PICK c \in Call : ToolRecord(c) \/ DrainRecord(c) \/ CloseAbort(c)
    BY <1>15
  <2>2. /\ pc \in Phases /\ pc' = pc /\ UNCHANGED <<requested, running>>
        /\ answered' = answered \cup {c} /\ results' = results \ {c}
        /\ c \in results \/ (pc = "closing" /\ results = {})
        /\ \E kind \in {"tool", "aborted"}, fate \in HistoryFates :
             log' = Append(log, RowOf(kind, c, {}, fate))
    BY <2>1 DEF ToolRecord, DrainRecord, Record, CloseAbort, Emit
  <2>3. ~Crash
    BY <2>2 DEF Crash
  <2>4. c \in results => c \notin running
    BY <2>2 DEF AnswerInv
  <2> QED
    BY <1>14, <1>i, <1>r, <1>w, <2>2, <2>3, <2>4
<1>16. CASE PollStep \/ BranchStep
  BY <1>2, <1>3, <1>4, <1>5, <1>7, <1>8, <1>9, <1>10, <1>12, <1>13, <1>15, <1>16
  DEF PollStep, BranchStep
<1> QED
  BY <1>0, <1>1, <1>2, <1>16 DEF Next, TaskStep, NewPass, vars

\* With every row written, each valid call of a finished chain has its result before
\* the next reply: the batch or the closing protocol has answered it (react/turn.rs:
\* execute_tools, react/interrupt.rs: finish_tool_batch).
THEOREM CallsOfAChainAreAnswered == Spec => []BatchAnswered
<1>1. Init => AnswerInv /\ SettledInv
  <2> SUFFICES ASSUME Init PROVE AnswerInv /\ SettledInv
    OBVIOUS
  <2>1. log = <<>> /\ pc = "take"
    BY DEF Init
  <2> QED
    BY <2>1 DEF AnswerInv, AnsweredOnce, RequestedBetween, SettledInv, Owed
<1>2. TypeOK /\ AnswerInv /\ SettledInv /\ [Next]_vars => AnswerInv' /\ SettledInv'
  BY AnswerStep, SettledStep
<1>3. SettledInv => BatchAnswered
  <2> SUFFICES ASSUME SettledInv, count.crashes = 0, pc \in {"stream", "idle"},
                      NEW i \in DOMAIN log, NEW c \in log[i].calls \cap ValidCall
               PROVE  Settled(log, i, c)
    BY DEF BatchAnswered, Settled
  <2>1. Owed(log, Awaited) /\ Awaited = {}
    BY DEF SettledInv, Awaited
  <2> QED
    BY <2>1 DEF Owed
<1> QED
  BY <1>1, <1>2, <1>3, TypeCorrect, PTL DEF Spec

(***************************************************************************)
(* A model request is well paired                                          *)
(***************************************************************************)
CallsIn(s) == UNION {s[i].calls : i \in DOMAIN s}
\* No two rows ask for the same call.
UniqueCalls(s) == \A i, k \in DOMAIN s : s[i].calls \cap s[k].calls # {} => i = k
\* A result follows the row that asks for it, with results only between them.
Follows(s, i, j) ==
  i < j /\ s[j].id \in s[i].calls /\ \A k \in (i + 1)..j : s[k].kind \in ResultKinds
AnswersFollow(s) ==
  \A j \in DOMAIN s : s[j].kind \in ResultKinds => \E i \in DOMAIN s : Follows(s, i, j)
\* The last row that is no result asks for the call.
Expected(s, c) ==
  \E i \in DOMAIN s :
    c \in s[i].calls /\ \A k \in DOMAIN s : k > i => s[k].kind \in ResultKinds

\* What one more row does to the pairs.
LEMMA PairAppend ==
  ASSUME NEW s \in Seq(Row), NEW r \in Row
  PROVE  /\ CallsIn(Append(s, r)) = CallsIn(s) \cup r.calls
         /\ UniqueCalls(s) /\ r.calls \cap CallsIn(s) = {} => UniqueCalls(Append(s, r))
         /\ AnswersFollow(s) /\ (r.kind \in ResultKinds => Expected(s, r.id))
              => AnswersFollow(Append(s, r))
         /\ \A c : Expected(s, c) /\ r.kind \in ResultKinds => Expected(Append(s, r), c)
         /\ \A c \in r.calls : Expected(Append(s, r), c)
<1> DEFINE t == Append(s, r)
           n == Len(s)
<1>1. /\ n \in Nat /\ DOMAIN s = 1..n /\ DOMAIN t = 1..(n + 1)
      /\ t[n + 1] = r /\ \A j \in 1..n : t[j] = s[j]
  BY AppendProperties
<1> HIDE DEF t, n
<1>2. CallsIn(t) = CallsIn(s) \cup r.calls
  <2>1. \A i \in 1..(n + 1) : t[i].calls \subseteq CallsIn(s) \cup r.calls
    <3>1. \A i \in 1..n : t[i].calls \subseteq CallsIn(s)
      BY <1>1 DEF CallsIn
    <3>2. \A i \in 1..(n + 1) : i \in 1..n \/ i = n + 1
      BY <1>1
    <3> QED
      BY <1>1, <3>1, <3>2
  <2>2. \A i \in 1..n : s[i].calls \subseteq CallsIn(t)
    <3>1. \A i \in 1..n : i \in 1..(n + 1) /\ t[i] = s[i]
      BY <1>1
    <3> QED
      BY <1>1, <3>1 DEF CallsIn
  <2>3. r.calls \subseteq CallsIn(t)
    <3>1. n + 1 \in DOMAIN t /\ t[n + 1] = r
      BY <1>1
    <3> QED
      BY <3>1 DEF CallsIn
  <2>4. CallsIn(t) \subseteq CallsIn(s) \cup r.calls
    BY <1>1, <2>1 DEF CallsIn
  <2>5. CallsIn(s) \subseteq CallsIn(t)
    BY <1>1, <2>2 DEF CallsIn
  <2> QED
    BY <2>3, <2>4, <2>5
<1>3. ASSUME UniqueCalls(s), r.calls \cap CallsIn(s) = {} PROVE UniqueCalls(t)
  <2>1. \A i \in 1..n : s[i].calls \cap r.calls = {}
    BY <1>1, <1>3 DEF CallsIn
  <2>2. \A i \in 1..(n + 1) : i \in 1..n \/ i = n + 1
    BY <1>1
  <2> QED
    BY <1>1, <1>3, <2>1, <2>2 DEF UniqueCalls
<1>4. ASSUME NEW c, Expected(s, c), r.kind \in ResultKinds
      PROVE  \E i \in 1..n : c \in t[i].calls /\ \A k \in 1..(n + 1) : k > i => t[k].kind \in ResultKinds
  <2>1. PICK i \in 1..n : c \in s[i].calls /\ \A k \in 1..n : k > i => s[k].kind \in ResultKinds
    BY <1>1, <1>4 DEF Expected
  <2>2. \A k \in 1..(n + 1) : k \in 1..n \/ k = n + 1
    BY <1>1
  <2>3. \A k \in 1..(n + 1) : k > i => t[k].kind \in ResultKinds
    BY <1>1, <1>4, <2>1, <2>2
  <2> QED
    BY <1>1, <2>1, <2>3
<1>5. ASSUME NEW c, Expected(s, c), r.kind \in ResultKinds PROVE Expected(t, c)
  <2>1. \A i \in 1..n : i \in 1..(n + 1)
    BY <1>1
  <2> QED
    BY <1>1, <1>4, <1>5, <2>1 DEF Expected
<1>6. ASSUME NEW c \in r.calls PROVE Expected(t, c)
  <2>1. n + 1 \in DOMAIN t /\ t[n + 1] = r /\ \A k \in DOMAIN t : ~(k > n + 1)
    BY <1>1
  <2> QED
    BY <2>1 DEF Expected
<1>7. ASSUME AnswersFollow(s), r.kind \in ResultKinds => Expected(s, r.id),
             NEW j \in 1..(n + 1), t[j].kind \in ResultKinds
      PROVE  \E i \in 1..(n + 1) : Follows(t, i, j)
  <2>1. CASE j \in 1..n
    <3>1. PICK i \in 1..n : Follows(s, i, j)
      BY <1>1, <1>7, <2>1 DEF AnswersFollow
    <3>2. \A k \in (i + 1)..j : k \in 1..n
      BY <1>1, <2>1
    <3>3. Follows(t, i, j)
      BY <1>1, <2>1, <3>1, <3>2 DEF Follows
    <3> QED
      BY <1>1, <3>3
  <2>2. CASE j = n + 1
    <3>1. PICK i \in 1..n :
            r.id \in t[i].calls /\ \A k \in 1..(n + 1) : k > i => t[k].kind \in ResultKinds
      BY <1>1, <1>4, <1>7, <2>2
    <3>2. \A k \in (i + 1)..j : k \in 1..(n + 1) /\ k > i
      BY <1>1, <2>2
    <3>3. i \in 1..(n + 1) /\ i < j
      BY <1>1, <2>2
    <3>4. Follows(t, i, j)
      BY <1>1, <2>2, <3>1, <3>2, <3>3 DEF Follows
    <3> QED
      BY <3>3, <3>4
  <2> QED
    BY <1>1, <2>1, <2>2
<1>8. ASSUME AnswersFollow(s), r.kind \in ResultKinds => Expected(s, r.id) PROVE AnswersFollow(t)
  BY <1>1, <1>7, <1>8 DEF AnswersFollow
<1> QED
  BY <1>2, <1>3, <1>5, <1>6, <1>8 DEF t

\* With ids used once, why each call of a request has its result right behind its reply:
\* a decoder collects new ids only, and what still awaits a result has been asked for by
\* the last row that is none.
PairInv ==
  ~RepeatedIds =>
    /\ UniqueCalls(log) /\ AnswersFollow(log)
    /\ pc \in {"stream", "backoff"} => received \cap CallsIn(log) = {} /\ partial = {}
    /\ pc \in {"tools", "drain", "closing"} =>
         \A c \in running \cup results \cup Unfinished : Expected(log, c)

\* In a state where these hold, the request is well paired.
LEMMA PairsSuffice ==
  ASSUME TypeOK, UniqueCalls(log), AnswersFollow(log), AnsweredOnce
  PROVE  RequestPaired
<1> SUFFICES ASSUME RepliesKept
    PROVE  /\ \A i \in Window : \A c \in log[i].calls :
                Cardinality(ResultsIn(c, RunAfter(i))) + One(Placeholder(c)) = 1
           /\ \A j \in Window : log[j].kind \in ResultKinds =>
                \E i \in Window : j \in RunAfter(i) /\ log[j].id \in log[i].calls
  BY DEF RequestPaired
<1>1. log \in Seq(Row) /\ DOMAIN log = 1..Len(log) /\ Len(log) \in Nat
  BY DEF TypeOK, DataOK
\* The window starts at a summary.
<1>2. /\ WindowStart \in Nat
      /\ \A i \in Window : i \in DOMAIN log /\ i >= WindowStart /\ log[i].fate = "saved"
      /\ \A i \in DOMAIN log : log[i].fate = "saved" /\ i >= WindowStart => i \in Window
      /\ WindowStart \in DOMAIN log => log[WindowStart].kind = "compaction"
  <2> DEFINE L == LastCompaction
             last == CHOOSE i \in L : \A j \in L : j <= i
  <2>1. L \in SUBSET Nat /\ \A i \in L : i <= Len(log) /\ i \in DOMAIN log /\ log[i].kind = "compaction"
    BY <1>1 DEF LastCompaction, SavedAt
  <2>2. WindowStart = IF L = {} THEN 0 ELSE last
    BY DEF WindowStart
  <2> HIDE DEF L
  <2>3. L # {} => \E m \in L : \A n \in L : n <= m
    BY <1>1, <2>1, GreatestNumber
  <2>4. L # {} => last \in L
    BY <2>3
  <2> HIDE DEF last
  <2>5. WindowStart \in Nat /\ (WindowStart \in DOMAIN log => log[WindowStart].kind = "compaction")
    BY <1>1, <2>1, <2>2, <2>4
  <2> QED
    BY <2>5 DEF Window, SavedAt
\* A result in the window belongs to the run of the row in the window that asks for it.
<1>3. ASSUME NEW j \in Window, log[j].kind \in ResultKinds
      PROVE  \E i \in Window : j \in RunAfter(i) /\ log[j].id \in log[i].calls
  <2>1. j \in DOMAIN log /\ j >= WindowStart
    BY <1>2
  <2>2. PICK i \in DOMAIN log : Follows(log, i, j)
    BY <1>3, <2>1 DEF AnswersFollow
  <2>3. i < j /\ log[j].id \in log[i].calls /\ \A k \in (i + 1)..j : log[k].kind \in ResultKinds
    BY <2>2 DEF Follows
  <2>4. log[i].fate = "saved"
    BY <2>3 DEF RepliesKept
  <2>5. i >= WindowStart
    <3>1. SUFFICES ASSUME WindowStart > i PROVE FALSE
      BY <1>1, <1>2
    <3>2. WindowStart \in (i + 1)..j /\ WindowStart \in DOMAIN log
      BY <1>1, <1>2, <2>1, <3>1
    <3> QED
      BY <1>2, <2>3, <3>2 DEF ResultKinds
  <2>6. i \in Window
    BY <1>2, <2>4, <2>5
  <2>7. j \in RunAfter(i)
    <3>1. \A k \in Window : i < k /\ k <= j => k \in (i + 1)..j
      BY <1>1, <1>2
    <3> QED
      BY <2>3, <3>1 DEF RunAfter
  <2> QED
    BY <2>3, <2>6, <2>7
<1>4. ASSUME NEW i \in Window, NEW c \in log[i].calls
      PROVE  Cardinality(ResultsIn(c, RunAfter(i))) + One(Placeholder(c)) = 1
  <2> DEFINE R == ResultsIn(c, RunAfter(i))
  <2>0. R \subseteq ResultsIn(c, Window) /\ i \in DOMAIN log
    BY <1>2 DEF ResultsIn, RunAfter
  <2>1. CASE ResultsIn(c, Window) = {}
    <3>1. R = {} /\ Placeholder(c)
      BY <2>0, <2>1 DEF Placeholder
    <3> HIDE DEF R
    <3>2. Cardinality(R) = 0
      BY <3>1, FS_EmptySet
    <3> QED
      BY <3>1, <3>2 DEF One, R
  <2>2. CASE ResultsIn(c, Window) # {}
    <3>1. PICK j \in Window : IsResult(log[j], c)
      BY <2>2 DEF ResultsIn
    <3>2. log[j].kind \in ResultKinds /\ log[j].id = c
      BY <3>1 DEF IsResult
    <3>3. PICK i0 \in Window : j \in RunAfter(i0) /\ c \in log[i0].calls
      BY <1>3, <3>2
    <3>4. i0 = i
      <4>1. i0 \in DOMAIN log /\ c \in log[i0].calls \cap log[i].calls
        BY <1>2, <3>3
      <4> QED
        BY <2>0, <4>1 DEF UniqueCalls
    <3>5. ASSUME NEW k \in R PROVE k = j
      <4>1. /\ k \in DOMAIN log /\ j \in DOMAIN log /\ i < k /\ i < j
            /\ IsResult(log[k], c) /\ IsResult(log[j], c)
        BY <1>2, <3>1, <3>3, <3>4 DEF ResultsIn, RunAfter
      <4>2. c \in Call
        <5>1. log[i] \in Row
          BY <1>1, <2>0
        <5> QED
          BY <5>1 DEF Row
      <4>3. ASSUME NEW a \in DOMAIN log, NEW b \in DOMAIN log, i < a, a < b,
                   IsResult(log[a], c), IsResult(log[b], c)
            PROVE  FALSE
        <5>1. PICK m \in a..b : c \in log[m].calls
          BY <4>2, <4>3 DEF AnsweredOnce, RequestedBetween
        <5>2. m \in DOMAIN log /\ m > i
          BY <1>1, <2>0, <4>3
        <5>3. c \in log[m].calls \cap log[i].calls
          BY <5>1
        <5>4. m = i
          BY <2>0, <5>2, <5>3 DEF UniqueCalls
        <5> QED
          BY <1>1, <2>0, <5>2, <5>4
      <4> QED
        BY <1>1, <4>1, <4>3
    <3>6. j \in R
      BY <3>1, <3>3, <3>4 DEF ResultsIn
    <3>7. R = {j}
      BY <3>5, <3>6
    <3> HIDE DEF R
    <3>8. Cardinality(R) = 1
      BY <3>7, FS_Singleton
    <3> QED
      BY <2>2, <3>8 DEF One, Placeholder, R
  <2> QED
    BY <2>1, <2>2
<1> QED
  BY <1>3, <1>4

LEMMA PairStep == TypeOK /\ AnswerInv /\ PairInv /\ [Next]_vars => PairInv'
<1> SUFFICES ASSUME TypeOK, AnswerInv, PairInv, [Next]_vars, ~RepeatedIds PROVE PairInv'
  BY DEF PairInv
<1> DEFINE Phases == {"tools", "drain", "closing"}
           Wanted == running \cup results \cup ((requested \cap ValidCall) \ answered)
           Collected == received \cap CallsIn(log) = {} /\ partial = {}
<1> USE CallAssumption DEF channels, queues, gate, batchVars, streamVars, toolVars, callerVars
<1>t. /\ log \in Seq(Row) /\ received \in SUBSET Call /\ requested \in SUBSET Call
      /\ running \in SUBSET Call /\ results \in SUBSET Call /\ answered \in SUBSET Call
  BY DEF TypeOK, DataOK
<1>k. Kinds = {"user", "echo", "compaction", "final", "tooluse", "partial",
               "tool", "aborted", "interrupt", "error"}
  BY DEF Kinds
<1>i. /\ UniqueCalls(log) /\ AnswersFollow(log)
      /\ pc \in {"stream", "backoff"} => Collected
      /\ pc \in Phases => \A c \in Wanted : Expected(log, c)
  BY DEF PairInv, Unfinished
<1>g. ASSUME UniqueCalls(log'), AnswersFollow(log'),
             pc' \in {"stream", "backoff"} => Collected',
             pc' \in Phases => \A c \in Wanted' : Expected(log', c)
      PROVE  PairInv'
  BY <1>g DEF PairInv, Unfinished
\* Steps that write nothing.
<1>a. ASSUME log' = log, pc' \in {"stream", "backoff"} => Collected',
             pc' \in Phases => pc \in Phases /\ Wanted' \subseteq Wanted
      PROVE  PairInv'
  BY <1>a, <1>g, <1>i
<1>1. CASE CallerStep
  <2>1. log' = log /\ (UNCHANGED <<pc, streamVars, toolVars>> \/ pc' = "take")
    BY <1>1 DEF CallerStep, Send, RemovePending, RemoveGuide, SendInterrupt, Shutdown, Crash
  <2> QED
    BY <1>a, <1>i, <2>1
<1>2. CASE \/ UNCHANGED stateVars \/ TakeGuide \/ DrainPending \/ TakePaused \/ BatchDone
           \/ StreamInbound \/ ToolsInbound \/ IdleInbound \/ IdleShutdown
           \/ StreamText \/ StreamRetry \/ BackoffEnd \/ ToolsDone \/ CloseTools \/ ToolsDrained
  <2>1. log' = log /\ UNCHANGED <<requested, results, answered>> /\ running' \in {running, {}}
    <3>1. CASE \/ UNCHANGED stateVars \/ TakeGuide \/ DrainPending \/ TakePaused \/ BatchDone
               \/ StreamInbound \/ ToolsInbound \/ IdleInbound \/ IdleShutdown
               \/ StreamText \/ StreamRetry \/ BackoffEnd
      <4>1. log' = log /\ UNCHANGED toolVars
        BY <3>1 DEF stateVars, TakeGuide, DrainPending, TakePaused, BatchDone, StreamInbound,
                    ToolsInbound, IdleInbound, IdleShutdown, StreamText, StreamRetry, BackoffEnd
      <4> QED
        BY <4>1
    <3>2. CASE ToolsDone \/ CloseTools \/ ToolsDrained
      BY <3>2 DEF ToolsDone, CloseTools, ToolsDrained
    <3> QED
      BY <1>2, <3>1, <3>2
  <2>2. /\ pc' \in Phases => pc \in Phases
        /\ pc' \in {"stream", "backoff"} =>
             \/ pc \in {"stream", "backoff"} /\ received' = received /\ partial' = partial
             \/ received' = {} /\ partial' = {}
    <3>1. CASE UNCHANGED stateVars \/ TakeGuide \/ DrainPending \/ TakePaused \/ IdleShutdown
      BY <3>1 DEF stateVars, TakeGuide, DrainPending, TakePaused, AfterTake, IdleShutdown
    <3>2. CASE BatchDone \/ ToolsDone \/ CloseTools \/ ToolsDrained
      BY <3>2 DEF BatchDone, OpenStream, EndTurn, ToolsDone, CloseTools, ToolsDrained, ToolsPolled
    <3>3. CASE StreamInbound \/ ToolsInbound \/ IdleInbound
      BY <3>3 DEF StreamInbound, ToolsInbound, IdleInbound
    <3>4. CASE StreamText \/ StreamRetry \/ BackoffEnd
      BY <3>4 DEF StreamText, StreamRetry, BackoffEnd, Polled
    <3> QED
      BY <1>2, <3>1, <3>2, <3>3, <3>4
  <2> QED
    BY <1>a, <1>i, <2>1, <2>2
<1>3. CASE \E c \in Call : StreamCall(c)
  <2>1. PICK c \in Call : StreamCall(c)
    BY <1>3
  <2>2. /\ pc = "stream" /\ c \notin CallsIn(log) /\ received' = received \cup {c}
        /\ UNCHANGED <<log, pc, partial>>
    BY <2>1 DEF StreamCall, UsedCalls, CallsIn, Polled
  <2> QED
    BY <1>a, <1>i, <2>2
<1>4. CASE \E c \in Call : ToolFinish(c)
  <2>1. PICK c \in Call : ToolFinish(c)
    BY <1>4
  <2>2. /\ pc = "tools" /\ c \in running /\ UNCHANGED <<pc, log, requested, answered>>
        /\ running' = running \ {c} /\ results' = results \cup {c}
    BY <2>1 DEF ToolFinish, ToolsPolled
  <2> QED
    BY <1>a, <2>2
\* Steps that write rows that ask for nothing and answer nothing.
<1>q. ASSUME NEW kind \in Kinds \ ResultKinds, NEW id \in Entry \cup Call \cup {NoId}, NEW fate \in Fates,
             NEW s \in Seq(Row), UniqueCalls(s), AnswersFollow(s)
      PROVE  LET t == Append(s, RowOf(kind, id, {}, fate)) IN
             t \in Seq(Row) /\ UniqueCalls(t) /\ AnswersFollow(t)
  <2> DEFINE r == RowOf(kind, id, {}, fate)
  <2>1. r \in Row /\ r.calls = {} /\ r.kind \notin ResultKinds
    <3>1. r \in Row
      BY RowType
    <3> QED
      BY <3>1 DEF RowOf
  <2> HIDE DEF r
  <2>2. r.calls \cap CallsIn(s) = {}
    BY <2>1
  <2>3. UniqueCalls(Append(s, r)) /\ AnswersFollow(Append(s, r))
    BY <1>q, <2>1, <2>2, PairAppend
  <2> QED
    BY <2>1, <2>3 DEF r
<1>5. ASSUME NEW kind \in Kinds \ ResultKinds, NEW id \in Entry \cup Call \cup {NoId}, NEW fate \in Fates,
             log' = Append(log, RowOf(kind, id, {}, fate)), pc' \notin {"stream", "backoff"},
             pc' \in Phases => Wanted' = {}
      PROVE  PairInv'
  <2>1. UniqueCalls(log') /\ AnswersFollow(log')
    BY <1>5, <1>i, <1>q, <1>t
  <2> QED
    BY <1>5, <1>g, <2>1
<1>f. /\ \A kind, id : Event(kind, id) = RowOf(kind, id, {}, "event")
      /\ HistoryFates \subseteq Fates /\ "event" \in Fates /\ "saved" \in Fates
      /\ {"user", "echo", "compaction", "final", "tooluse", "partial", "interrupt", "error"}
           \subseteq Kinds \ ResultKinds
  BY <1>k DEF Event, Fates, HistoryFates, ResultKinds
<1>6. CASE Resolve \/ PreCompress
  <2>1. CASE log' = log
    <3>1. pc' \notin Phases /\ (pc' \in {"stream", "backoff"} => received' = {} /\ partial' = {})
      BY <1>6 DEF Resolve, PreCompress, OpenStream, EndTurn
    <3> QED
      BY <1>a, <2>1, <3>1
  <2>2. CASE log' # log
    <3>1. /\ pc' \notin Phases \cup {"stream", "backoff"}
          /\ \/ log' = Append(log, RowOf("error", NoId, {}, "event"))
             \/ log' = Append(log, RowOf("compaction", NoId, {}, "saved"))
      BY <1>6, <1>f, <2>2 DEF Resolve, PreCompress, OpenStream, EndTurn
    <3> QED
      BY <1>5, <1>f, <3>1
  <2> QED
    BY <2>1, <2>2
<1>7. CASE \/ StreamFail \/ CancelInBackoff \/ IdleInterrupt \/ CloseNotify
           \/ ConsumeUser \/ StreamFinal
  <2>1. /\ pc' \notin Phases \cup {"stream", "backoff"}
        /\ \E kind \in Kinds \ ResultKinds, id \in Entry \cup Call \cup {NoId}, fate \in Fates :
             log' = Append(log, RowOf(kind, id, {}, fate))
    <3>1. CASE StreamFail \/ CancelInBackoff \/ IdleInterrupt \/ CloseNotify
      <4>1. /\ pc' \in {"idle", "take"}
            /\ \E kind \in {"error", "interrupt"} : log' = Append(log, RowOf(kind, NoId, {}, "event"))
        BY <1>f, <3>1 DEF StreamFail, CancelInBackoff, IdleInterrupt, CloseNotify, EndTurn
      <4> QED
        BY <1>f, <4>1
    <3>2. CASE ConsumeUser
      <4>1. Head(batch) \in Entry /\ pc' = "batch"
        BY <3>2, EntryAssumption DEF ConsumeUser
      <4>2. \E fate \in HistoryFates : log' = Append(log, RowOf("user", Head(batch), {}, fate))
        BY <3>2 DEF ConsumeUser, Emit
      <4> QED
        BY <1>f, <4>1, <4>2
    <3>3. CASE StreamFinal
      <4>1. pc' = "take" /\ \E fate \in HistoryFates : log' = Append(log, RowOf("final", NoId, {}, fate))
        BY <3>3 DEF StreamFinal, Emit
      <4> QED
        BY <1>f, <4>1
    <3> QED
      BY <1>7, <3>1, <3>2, <3>3
  <2> QED
    BY <1>5, <2>1
<1>8. CASE ConsumeControl
  <2> DEFINE echo == RowOf("echo", Head(batch), {}, "event")
             note == RowOf("compaction", NoId, {}, "saved")
             s == Append(log, echo)
  <2>1. /\ pc' = "batch" /\ batch # <<>>
        /\ log' = s \o <<>> \/ log' = s \o <<note>>
    BY <1>8, <1>f DEF ConsumeControl
  <2>2. Head(batch) \in Entry
    BY <2>1 DEF TypeOK, DataOK
  <2>3. s \in Seq(Row) /\ UniqueCalls(s) /\ AnswersFollow(s)
    BY <1>f, <1>i, <1>q, <1>t, <2>2
  <2> HIDE DEF s
  <2>4. UniqueCalls(Append(s, note)) /\ AnswersFollow(Append(s, note))
    BY <1>f, <1>q, <2>3
  <2>5. note \in Row
    BY <1>k, <1>f, RowType
  <2> HIDE DEF note
  <2>6. s \o <<>> = s /\ s \o <<note>> = Append(s, note)
    BY <2>3, <2>5
  <2> QED
    BY <1>g, <2>1, <2>3, <2>4, <2>6
\* The reply that asks for calls, with ids no row has.
<1>9. CASE StreamTools
  <2>1. /\ pc = "stream" /\ results' = {} /\ answered' = {} /\ pc' \notin {"stream", "backoff"}
    BY <1>9 DEF StreamTools, Polled
  <2>2. PICK calls \in SUBSET received, fate \in HistoryFates :
          /\ log' = Append(log, RowOf("tooluse", NoId, calls, fate))
          /\ requested' = calls /\ running' = calls
    BY <1>9 DEF StreamTools
  <2> DEFINE r == RowOf("tooluse", NoId, calls, fate)
  <2>3. r \in Row /\ r.calls = calls /\ r.kind = "tooluse"
    <3>1. calls \in SUBSET Call /\ fate \in Fates /\ "tooluse" \in Kinds
      BY <1>f, <1>t
    <3>2. r \in Row
      BY <3>1, RowType
    <3> QED
      BY <3>2 DEF RowOf
  <2>4. calls \cap CallsIn(log) = {}
    BY <1>i, <2>1
  <2> HIDE DEF r
  <2>5. /\ UniqueCalls(Append(log, r)) /\ AnswersFollow(Append(log, r))
        /\ \A c \in calls : Expected(Append(log, r), c)
    BY <1>i, <1>t, <2>3, <2>4, PairAppend DEF ResultKinds
  <2>6. Wanted' = calls
    BY <2>1, <2>2
  <2> QED
    BY <1>g, <2>1, <2>2, <2>5, <2>6 DEF r
\* A cut stream has decoded no call yet: its partial reply asks for none.
<1>10. CASE CloseStream
  <2>1. /\ pc \in {"stream", "backoff"} /\ pc' = "closing"
        /\ requested' = partial /\ running' = {} /\ results' = {} /\ answered' = {}
    BY <1>10 DEF CloseStream
  <2>2. partial = {} /\ Wanted' = {}
    BY <1>i, <2>1
  <2>3. CASE log' = log
    BY <1>g, <1>i, <2>1, <2>2, <2>3
  <2>4. CASE log' # log
    <3>1. partial \cap ValidCall = {}
      BY <2>2
    <3>2. PICK fate \in HistoryFates : log' = Append(log, RowOf("partial", NoId, {}, fate))
      BY <1>10, <2>4, <3>1 DEF CloseStream, Emit
    <3> QED
      BY <1>5, <1>f, <2>1, <2>2, <3>2
  <2> QED
    BY <2>3, <2>4
\* A result follows what awaits it.
<1>11. CASE \E c \in Call : ToolRecord(c) \/ DrainRecord(c) \/ CloseAbort(c)
  <2>1. PICK c \in Call : ToolRecord(c) \/ DrainRecord(c) \/ CloseAbort(c)
    BY <1>11
  <2>2. /\ pc \in Phases /\ pc' = pc /\ UNCHANGED <<requested, running>>
        /\ answered' = answered \cup {c} /\ results' = results \ {c}
        /\ c \in Wanted
    BY <2>1 DEF ToolRecord, DrainRecord, Record, CloseAbort, Unfinished
  <2>3. PICK kind \in ResultKinds, fate \in Fates : log' = Append(log, RowOf(kind, c, {}, fate))
    <3>1. \E kind \in ResultKinds, fate \in HistoryFates : log' = Append(log, RowOf(kind, c, {}, fate))
      BY <2>1 DEF ToolRecord, DrainRecord, Record, CloseAbort, Emit, ResultKinds
    <3> QED
      BY <1>f, <3>1
  <2> DEFINE r == RowOf(kind, c, {}, fate)
  <2>4. r \in Row /\ r.calls = {} /\ r.kind \in ResultKinds /\ r.id = c
    <3>1. kind \in Kinds
      BY <1>k DEF ResultKinds
    <3>2. r \in Row
      BY <3>1, RowType
    <3> QED
      BY <3>2 DEF RowOf
  <2> HIDE DEF r
  <2>5. \A d \in Wanted : Expected(log, d)
    BY <1>i, <2>2
  <2>6. /\ UniqueCalls(Append(log, r)) /\ AnswersFollow(Append(log, r))
        /\ \A d \in Wanted : Expected(Append(log, r), d)
    <3>1. r.calls \cap CallsIn(log) = {} /\ Expected(log, r.id)
      BY <2>2, <2>4, <2>5
    <3> QED
      BY <1>i, <1>t, <2>4, <2>5, <3>1, PairAppend
  <2>7. Wanted' \subseteq Wanted
    BY <2>2
  <2> QED
    BY <1>g, <2>2, <2>3, <2>6, <2>7 DEF r
<1>12. CASE PollStep \/ BranchStep
  BY <1>2, <1>3, <1>4, <1>6, <1>7, <1>8, <1>9, <1>10, <1>11, <1>12 DEF PollStep, BranchStep
<1> QED
  BY <1>1, <1>2, <1>12 DEF Next, TaskStep, NewPass, vars

\* When every reply with calls has been written and ids are used once, a model request
\* shows each call with exactly one result, written or made up, right behind its reply,
\* and no result without its reply, through interrupts, crashes and compactions
\* (react/builders.rs: build_chat_request, pair_missing_tool_results).
THEOREM RequestsArePaired ==
  ASSUME RepeatedIds = FALSE
  PROVE  Spec => []RequestPaired
<1>1. Init => AnswerInv /\ PairInv
  <2> SUFFICES ASSUME Init PROVE AnswerInv /\ PairInv
    OBVIOUS
  <2>1. log = <<>> /\ pc = "take"
    BY DEF Init
  <2> QED
    BY <2>1 DEF AnswerInv, AnsweredOnce, RequestedBetween, PairInv, UniqueCalls, AnswersFollow
<1>2. TypeOK /\ AnswerInv /\ PairInv /\ [Next]_vars => AnswerInv' /\ PairInv'
  BY AnswerStep, PairStep
<1>3. TypeOK /\ AnswerInv /\ PairInv => RequestPaired
  BY PairsSuffice DEF PairInv, AnswerInv
<1> QED
  BY <1>1, <1>2, <1>3, TypeCorrect, PTL DEF Spec

=============================================================================
