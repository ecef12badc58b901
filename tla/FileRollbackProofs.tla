------------------------- MODULE FileRollbackProofs -------------------------
(***************************************************************************)
(* Theorems about FileRollback, for every workspace, every kind of fault   *)
(* and every bound.                                                        *)
(***************************************************************************)
EXTENDS FileRollback, NumberLemmas, SequenceTheorems

(***************************************************************************)
(* The first of some rows                                                  *)
(***************************************************************************)
\* Rows are ordered by seq and id: among some rows there is a first one.
LEMMA FirstRowIsOne ==
  ASSUME NEW some, some # {}, \A r \in some : r.seq \in Nat /\ r.id \in Nat
  PROVE  FirstRow(some) \in some /\ \A q \in some : UpTo(FirstRow(some), q)
<1> DEFINE Seqs == {r.seq : r \in some}
<1>1. PICK m \in Seqs : \A n \in Seqs : m <= n
  BY LeastNumber
<1> DEFINE Ids == {r.id : r \in {q \in some : q.seq = m}}
<1>2. PICK k \in Ids : \A n \in Ids : k <= n
  <2>1. Ids # {} /\ Ids \in SUBSET Nat
    OBVIOUS
  <2> QED
    BY <2>1, LeastNumber
<1>3. PICK r \in some : r.seq = m /\ r.id = k
  OBVIOUS
<1>4. ASSUME NEW q \in some PROVE UpTo(r, q)
  <2>1. m <= q.seq
    BY <1>1
  <2>2. q.seq = m => k <= q.id
    BY <1>2
  <2> QED
    BY <1>3, <2>1, <2>2 DEF UpTo
<1> QED
  BY <1>3, <1>4 DEF FirstRow

(***************************************************************************)
(* Types                                                                   *)
(***************************************************************************)
\* Inserting a message keeps the history a history and adds one message.
LEMMA InsertType ==
  ASSUME TypeOK, NEW kind \in {"user", "assistant", "compaction"}, Insert(kind)
  PROVE  /\ msgs' \in Seq(Message) /\ count' \in [Counters -> Nat]
         /\ Len(msgs') = Len(msgs) + 1 /\ msgs'[Len(msgs) + 1].kind = kind
         /\ \A i \in DOMAIN msgs : i \in DOMAIN msgs' /\ msgs'[i] = msgs[i]
         /\ count'["rows"] = count["rows"]
<1> DEFINE new == [kind |-> kind, uid |-> count["messages"] + 1, before |-> work,
                   opens |-> Opening, doubted |-> FALSE]
<1>1. count["messages"] \in Nat /\ count["messages"] + 1 \in 1 .. MaxMessages
  BY BoundsAssumption DEF TypeOK, Insert, Counters
<1>2. Opening \in BOOLEAN
  BY DEF Opening
<1>3. new \in Message
  BY <1>1, <1>2 DEF TypeOK, Message
<1>4. msgs' = Append(msgs, new) /\ msgs \in Seq(Message)
  BY DEF TypeOK, Insert
<1>5. count' \in [Counters -> Nat] /\ count'["rows"] = count["rows"]
  BY <1>1 DEF TypeOK, Insert, Counted, Counters
<1> HIDE DEF new
<1>6. /\ msgs' \in Seq(Message) /\ Len(msgs') = Len(msgs) + 1
      /\ msgs'[Len(msgs) + 1] = new
      /\ \A i \in 1 .. Len(msgs) : msgs'[i] = msgs[i]
  BY <1>3, <1>4, AppendProperties
<1> QED
  BY <1>5, <1>6 DEF new

\* Counting keeps the counters' type.
LEMMA CountType ==
  ASSUME TypeOK, NEW what \in Counters, Counted(what)
  PROVE  /\ count' \in [Counters -> Nat]
         /\ count'[what] = count[what] + 1
         /\ \A k \in Counters \ {what} : count'[k] = count[k]
BY DEF TypeOK, Counted

\* What every step but a deletion does to the history: messages stay what they are.
Keeps(old, new) ==
  \A i \in DOMAIN old :
    i \in DOMAIN new /\ new[i].kind = old[i].kind /\ new[i].uid = old[i].uid

\* A doubt about some messages keeps the history a history of the same messages.
LEMMA DoubtType ==
  ASSUME NEW old \in Seq(Message), NEW new, new = [i \in DOMAIN old |-> new[i]],
         \A i \in DOMAIN old : \/ new[i] = old[i]
                               \/ new[i] = [old[i] EXCEPT !.doubted = TRUE]
  PROVE  new \in Seq(Message) /\ Len(new) = Len(old) /\ Keeps(old, new)
<1>1. DOMAIN new = 1 .. Len(old) /\ DOMAIN old = 1 .. Len(old) /\ Len(old) \in Nat
  OBVIOUS
<1>2. ASSUME NEW i \in DOMAIN old
      PROVE  /\ new[i] \in Message
             /\ new[i].kind = old[i].kind /\ new[i].uid = old[i].uid
  <2>1. old[i] \in Message
    BY <1>2
  <2>2. CASE new[i] = old[i]
    BY <2>1, <2>2
  <2>3. CASE new[i] = [old[i] EXCEPT !.doubted = TRUE]
    BY <2>1, <2>3 DEF Message
  <2> QED
    BY <1>2, <2>2, <2>3
<1>3. new \in [1 .. Len(old) -> Message]
  BY <1>1, <1>2
<1>4. new \in Seq(Message)
  BY <1>1, <1>3, IsASeq
<1>5. Len(new) = Len(old)
  BY <1>1, <1>4, LenProperties
<1> QED
  BY <1>1, <1>2, <1>4, <1>5 DEF Keeps

\* The base of a restore is a tree of the workspace, and it restores only files of it.
LEMMA BaseType ==
  ASSUME TypeOK, NEW target, RowsFrom(target) # {}
  PROVE  Base(target) \in Workspace
<1>1. \A r \in RowsFrom(target) : r \in rows /\ r \in Rows
  BY DEF TypeOK, RowsFrom
<1>2. \A r \in RowsFrom(target) : r.seq \in Nat /\ r.id \in Nat /\ r.tree \in Workspace
  BY <1>1 DEF Rows
<1>3. FirstRow(RowsFrom(target)) \in RowsFrom(target)
  BY <1>2, FirstRowIsOne
<1> QED
  BY <1>2, <1>3 DEF Base

LEMMA TouchedType == TypeOK => \A target : Touched(target) \subseteq File
BY DEF TypeOK, Touched, RowsFrom, Rows

LEMMA RestoredType ==
  ASSUME NEW from \in Workspace, NEW base \in Workspace, NEW touched
  PROVE  Restored(from, base, touched) \in Workspace
BY DEF Restored, Workspace

\* A row taken of a message in the history is a row.
LEMMA RecordType ==
  ASSUME TypeOK, NEW seq \in DOMAIN msgs, Record(seq)
  PROVE  /\ rows' \subseteq Rows /\ open' = {} /\ count' \in [Counters -> Nat]
         /\ count'["rows"] = count["rows"] + 1
<1>1. msgs[seq] \in Message /\ seq \in Nat
  BY DEF TypeOK
<1>2. msgs[seq].uid \in 1 .. MaxMessages
  BY <1>1 DEF Message
<1>3. "rows" \in Counters /\ count["rows"] \in Nat
  BY DEF TypeOK, Counters
<1>4. (IF rows = {} THEN {} ELSE Diff(LatestRow.tree, work)) \subseteq File
  BY DEF Diff
<1>5. Row(seq) \in Rows
  BY <1>1, <1>2, <1>3, <1>4 DEF TypeOK, Row, Rows
<1>6. rows' \subseteq Rows /\ open' = {}
  BY <1>5 DEF TypeOK, Record
<1>7. count' \in [Counters -> Nat] /\ count'["rows"] = count["rows"] + 1
  BY <1>3, CountType DEF Record
<1> QED
  BY <1>6, <1>7

(***************************************************************************)
(* The invariant                                                           *)
(***************************************************************************)
IInv == TypeOK /\ AnchorInv

\* The rows stay anchored when the messages stay what they are.
LEMMA KeepsAnchored ==
  ASSUME RowsAnchored, Keeps(msgs, msgs'), rows' = rows
  PROVE  RowsAnchored'
BY DEF RowsAnchored, Keeps

\* A row of the last anchor stands behind all others.
LEMMA RecordAnchored ==
  ASSUME TypeOK, RowsAnchored, \A r \in rows : r.id <= count["rows"],
         NEW seq \in DOMAIN msgs, msgs[seq].kind = "assistant",
         \A r \in rows : r.seq <= seq,
         Record(seq), msgs' = msgs
  PROVE  /\ RowsAnchored'
         /\ \A r \in rows' : r.id <= count'["rows"] /\ r.seq <= seq
<1>1. "rows" \in Counters /\ count["rows"] \in Nat /\ seq \in Nat
  BY DEF TypeOK, Counters
<1>2. rows' = rows \cup {Row(seq)} /\ count'["rows"] = count["rows"] + 1
  BY RecordType DEF Record
<1>3. \A r \in rows : r.id \in Nat /\ r.seq \in Nat
  BY DEF TypeOK, Rows
<1>4. /\ Row(seq).id = count["rows"] + 1 /\ Row(seq).seq = seq
      /\ Row(seq).uid = msgs[seq].uid
  BY DEF Row
<1>5. \A r \in rows' : r.id <= count'["rows"] /\ r.seq <= seq
  BY <1>1, <1>2, <1>3, <1>4
<1>6. \A r \in rows' : /\ r.seq \in DOMAIN msgs'
                       /\ msgs'[r.seq].kind = "assistant" /\ msgs'[r.seq].uid = r.uid
  BY <1>2, <1>4 DEF RowsAnchored
<1>7. ASSUME NEW r \in rows', NEW q \in rows', r.id < q.id PROVE r.seq <= q.seq
  <2>1. CASE r \in rows /\ q \in rows
    BY <1>7, <2>1 DEF RowsAnchored
  <2>2. CASE q = Row(seq)
    BY <1>4, <1>5, <2>2
  <2>3. CASE r = Row(seq) /\ q \in rows
    <3>1. q.id <= count["rows"] /\ q.id \in Nat
      BY <1>3, <2>3
    <3> QED
      BY <1>1, <1>4, <1>7, <2>3, <3>1
  <2> QED
    BY <1>2, <2>1, <2>2, <2>3
<1> QED
  BY <1>5, <1>6, <1>7 DEF RowsAnchored

\* The program starts with an empty history.
LEMMA InvInit == Init => IInv
<1> SUFFICES ASSUME Init PROVE TypeOK /\ AnchorInv
  BY DEF IInv
<1>1. msgs = <<>> /\ msgs \in Seq(Message) /\ rows = {}
  BY DEF Init
<1>2. NoOp \in [at : {"none", "restore", "delete"}, target : Nat, files : BOOLEAN,
                base : Workspace \cup {<<>>}, touched : SUBSET File]
  BY DEF NoOp
<1>3. TypeOK
  BY <1>1, <1>2 DEF Init, TypeOK, NoOp, NoAnchor
<1>4. AnchorInv
  BY DEF Init, AnchorInv, RowsAnchored, NoOp
<1> QED
  BY <1>3, <1>4

\* Steps that insert a message and leave the rows alone.
LEMMA InsertSteps ==
  ASSUME IInv,
         \/ BeginTurn \/ Compact \/ ToolReply \/ FinalReply \/ Consume \/ EndOfLoop
  PROVE  IInv'
<1> USE DEF IInv
<1>t. ledger \in [anchor : Nat, tracked : BOOLEAN] /\ Len(msgs) \in Nat
      /\ DOMAIN msgs = 1 .. Len(msgs)
  BY DEF TypeOK
<1>u. UNCHANGED <<rows, work, op, open>>
  BY DEF BeginTurn, Compact, ToolReply, FinalReply, Consume, EndOfLoop
<1>v. turn' \in {"idle", "begin", "reply", "snapshot", "tools", "batch", "final", "closing"}
  BY DEF BeginTurn, Compact, ToolReply, FinalReply, Consume, EndOfLoop, TypeOK
<1>r. \A r \in rows : r.seq \in DOMAIN msgs
  BY DEF AnchorInv, RowsAnchored
<1>o. op.at = "none"
  <2>1. CASE BeginTurn \/ Compact
    BY <2>1 DEF BeginTurn, Compact
  <2>2. CASE ToolReply \/ FinalReply \/ Consume \/ EndOfLoop
    BY <2>2 DEF AnchorInv, ToolReply, FinalReply, Consume, EndOfLoop
  <2> QED
    BY <2>1, <2>2
<1>1. ASSUME NEW kind \in {"user", "assistant", "compaction"}, Insert(kind),
             ledger' \in [anchor : Nat, tracked : BOOLEAN],
             \/ ledger' = ledger /\ turn # "idle" /\ turn' # "snapshot"
             \/ ledger' = ledger /\ turn' = "idle"
             \/ ledger'.anchor = NoAnchor /\ turn' # "snapshot"
             \/ ledger'.anchor = Len(msgs) + 1 /\ kind = "assistant"
      PROVE  IInv'
  <2>1. /\ msgs' \in Seq(Message) /\ count' \in [Counters -> Nat]
        /\ Len(msgs') = Len(msgs) + 1 /\ msgs'[Len(msgs) + 1].kind = kind
        /\ \A i \in DOMAIN msgs : i \in DOMAIN msgs' /\ msgs'[i] = msgs[i]
        /\ count'["rows"] = count["rows"]
    BY <1>1, InsertType
  <2>2. TypeOK'
    BY <1>1, <1>u, <1>v, <2>1 DEF TypeOK
  <2>3. RowsAnchored'
    BY <1>u, <2>1, KeepsAnchored DEF AnchorInv, Keeps
  <2>4. Len(msgs) + 1 \in DOMAIN msgs'
    BY <1>t, <2>1
  <2>5. \A r \in rows : r.seq <= Len(msgs) + 1
    BY <1>t, <1>r
  <2>6. turn' = "snapshot" => ledger'.anchor # NoAnchor
    BY <1>1, <1>t DEF NoAnchor
  <2>7. turn' # "idle" /\ ledger'.anchor # NoAnchor =>
          /\ ledger'.anchor \in DOMAIN msgs' /\ msgs'[ledger'.anchor].kind = "assistant"
          /\ \A r \in rows' : r.seq <= ledger'.anchor
    BY <1>1, <1>u, <2>1, <2>4, <2>5 DEF AnchorInv
  <2>8. op'.at = "none"
    BY <1>o, <1>u
  <2>9. \A r \in rows' : r.id <= count'["rows"]
    BY <1>u, <2>1 DEF AnchorInv
  <2> QED
    BY <2>2, <2>3, <2>6, <2>7, <2>8, <2>9 DEF AnchorInv
<1>2. CASE BeginTurn
  BY <1>1, <1>2 DEF BeginTurn, NoAnchor
<1>3. CASE Compact
  BY <1>1, <1>3, <1>t DEF Compact, Opening
<1>4. CASE ToolReply
  BY <1>1, <1>4, <1>t DEF ToolReply
<1>5. CASE FinalReply
  <2>1. CASE Insert("assistant")
    BY <1>1, <1>5, <1>t, <2>1 DEF FinalReply
  <2>2. CASE Counted("faults") /\ UNCHANGED <<msgs, ledger>>
    <3>1. /\ count' \in [Counters -> Nat] /\ count'["rows"] = count["rows"]
      BY <2>2, CountType DEF Counters
    <3>2. TypeOK'
      BY <1>u, <1>v, <2>2, <3>1 DEF TypeOK
    <3>3. RowsAnchored'
      BY <1>u, <2>2, KeepsAnchored DEF AnchorInv, Keeps
    <3> QED
      BY <1>5, <1>o, <1>u, <2>2, <3>1, <3>2, <3>3 DEF AnchorInv, FinalReply
  <2> QED
    BY <1>5, <2>1, <2>2 DEF FinalReply
<1>6. CASE Consume
  BY <1>1, <1>6, <1>t DEF Consume
<1>7. CASE EndOfLoop
  <2>1. CASE turn = "reply" /\ Insert("assistant")
    BY <1>1, <1>7, <1>t, <2>1 DEF EndOfLoop
  <2>2. CASE UNCHANGED <<msgs, count>>
    <3>2. TypeOK'
      BY <1>7, <1>u, <1>v, <2>2 DEF TypeOK, EndOfLoop
    <3>3. RowsAnchored'
      BY <1>u, <2>2, KeepsAnchored DEF AnchorInv, Keeps
    <3> QED
      BY <1>7, <1>o, <1>u, <2>2, <3>2, <3>3 DEF AnchorInv, EndOfLoop
  <2> QED
    BY <1>7, <2>1, <2>2 DEF EndOfLoop
<1> QED
  BY <1>2, <1>3, <1>4, <1>5, <1>6, <1>7

\* Steps that take a snapshot row.
LEMMA RecordSteps ==
  ASSUME IInv, BatchRow \/ TailRow
  PROVE  IInv'
<1> USE DEF IInv
<1>t. ledger \in [anchor : Nat, tracked : BOOLEAN]
  BY DEF TypeOK
<1>1. ASSUME Record(ledger.anchor), turn # "idle", ledger.anchor # NoAnchor,
             UNCHANGED <<msgs, work, op>>,
             turn' \in {"tools", "idle"}, ledger' \in [anchor : Nat, tracked : BOOLEAN],
             ledger'.anchor = ledger.anchor
      PROVE  IInv'
  <2>1. /\ ledger.anchor \in DOMAIN msgs /\ msgs[ledger.anchor].kind = "assistant"
        /\ \A r \in rows : r.seq <= ledger.anchor
    BY <1>1 DEF AnchorInv
  <2>2. /\ rows' \subseteq Rows /\ open' = {} /\ count' \in [Counters -> Nat]
    BY <1>1, <2>1, RecordType
  <2>3. /\ RowsAnchored'
        /\ \A r \in rows' : r.id <= count'["rows"] /\ r.seq <= ledger.anchor
    BY <1>1, <2>1, RecordAnchored DEF AnchorInv
  <2>4. TypeOK'
    BY <1>1, <2>2 DEF TypeOK
  <2>5. op.at = "none"
    BY <1>1 DEF AnchorInv
  <2> QED
    BY <1>1, <2>1, <2>3, <2>4, <2>5 DEF AnchorInv
<1>2. CASE BatchRow
  <2>1. turn = "snapshot" /\ ledger.anchor # NoAnchor
    BY <1>2 DEF BatchRow, AnchorInv
  <2>2. ledger' \in [anchor : Nat, tracked : BOOLEAN] /\ ledger'.anchor = ledger.anchor
    BY <1>2, <1>t DEF BatchRow
  <2> QED
    BY <1>1, <1>2, <2>1, <2>2 DEF BatchRow
<1>3. CASE TailRow
  <2>1. CASE TailDue
    BY <1>1, <1>3, <1>t, <2>1 DEF TailRow, TailDue
  <2>2. CASE ~TailDue
    <3>1. UNCHANGED <<msgs, rows, work, ledger, op, open, count>> /\ turn' = "idle"
      BY <1>3, <2>2 DEF TailRow
    <3>2. TypeOK'
      BY <3>1 DEF TypeOK
    <3>3. RowsAnchored'
      BY <3>1, KeepsAnchored DEF AnchorInv, Keeps
    <3> QED
      BY <3>1, <3>2, <3>3 DEF AnchorInv
  <2> QED
    BY <2>1, <2>2
<1> QED
  BY <1>2, <1>3

\* Steps that change neither messages nor rows nor the ledger, a doubt apart.
LEMMA OtherSteps ==
  ASSUME IInv,
         \/ ToolReplyLost \/ BatchRowFails \/ ToolWrites \/ ToolsEnd \/ NextRound
         \/ TailRowFails \/ UserEdits \/ Crash \/ Resolve \/ Restore \/ RestoreFails
  PROVE  IInv'
<1> USE DEF IInv
<1>1. rows' = rows /\ ledger'.anchor = ledger.anchor
      /\ ledger' \in [anchor : Nat, tracked : BOOLEAN]
  BY DEF TypeOK, ToolReplyLost, BatchRowFails, ToolWrites, ToolsEnd, NextRound, TailRowFails,
         UserEdits, Crash, Resolve, Restore, RestoreFails
<1>2. msgs' \in Seq(Message) /\ Len(msgs') = Len(msgs) /\ Keeps(msgs, msgs')
  <2>1. msgs \in Seq(Message)
    BY DEF TypeOK
  <2>2. CASE ToolReplyLost \/ BatchRowFails \/ UserEdits
    <3>1. msgs' = Doubted(msgs, rows)
      BY <2>2 DEF ToolReplyLost, BatchRowFails, UserEdits
    <3> QED
      BY <2>1, <3>1, DoubtType DEF Doubted
  <2>3. CASE Crash
    BY <2>1, <2>3, DoubtType DEF Crash
  <2>4. CASE RestoreFails
    BY <2>1, <2>4, DoubtType DEF RestoreFails
  <2>5. CASE UNCHANGED msgs
    BY <2>1, <2>5 DEF Keeps
  <2> QED
    BY <2>2, <2>3, <2>4, <2>5
    DEF ToolWrites, ToolsEnd, NextRound, TailRowFails, Resolve, Restore
<1>3. count' \in [Counters -> Nat] /\ count'["rows"] = count["rows"]
  <2>1. \/ Counted("faults") \/ Counted("writes") \/ Counted("rollbacks") \/ UNCHANGED count
    BY DEF ToolReplyLost, BatchRowFails, ToolWrites, ToolsEnd, NextRound, TailRowFails,
           UserEdits, Crash, Resolve, Restore, RestoreFails
  <2> QED
    BY <2>1, CountType DEF Counters, TypeOK
<1>4. work' \in Workspace
  <2>1. work \in Workspace
    BY DEF TypeOK
  <2>2. CASE ToolWrites \/ UserEdits
    <3>1. PICK f \in File, c \in Content : work' = [work EXCEPT ![f] = c]
      BY <2>2 DEF ToolWrites, UserEdits
    <3> QED
      BY <2>1, <3>1 DEF Workspace
  <2>3. CASE Restore \/ RestoreFails
    <3>1. op.base \in Workspace
      BY <2>3 DEF TypeOK, Restore, RestoreFails
    <3> QED
      BY <2>1, <2>3, <3>1, RestoredType DEF Restore, RestoreFails
  <2>4. CASE UNCHANGED work
    BY <2>1, <2>4
  <2> QED
    BY <2>2, <2>3, <2>4
    DEF ToolReplyLost, BatchRowFails, ToolsEnd, NextRound, TailRowFails, Crash, Resolve
<1>5. /\ op' \in [at : {"none", "restore", "delete"}, target : Nat, files : BOOLEAN,
                  base : Workspace \cup {<<>>}, touched : SUBSET File]
      /\ op'.at = "restore" => op'.base \in Workspace
      /\ op'.at # "none" => turn' = "idle" /\ op'.target \in DOMAIN msgs
  <2>1. NoOp \in [at : {"none", "restore", "delete"}, target : Nat, files : BOOLEAN,
                  base : Workspace \cup {<<>>}, touched : SUBSET File] /\ NoOp.at = "none"
    BY DEF NoOp
  <2>2. CASE Crash \/ RestoreFails
    BY <2>1, <2>2 DEF Crash, RestoreFails
  <2>3. CASE Restore
    BY <2>3 DEF Restore, TypeOK, AnchorInv
  <2>4. CASE Resolve
    <3>1. PICK target \in 1 .. Len(msgs), files \in {TRUE, ~KeepsFiles} :
            op' = IF files /\ RowsFrom(target) # {}
                  THEN [at |-> "restore", target |-> target, files |-> TRUE,
                        base |-> Base(target), touched |-> Touched(target)]
                  ELSE [NoOp EXCEPT !.at = "delete", !.target = target, !.files = files]
      BY <2>4 DEF Resolve
    <3>2. files \in BOOLEAN /\ target \in Nat /\ target \in DOMAIN msgs
      <4>1. KeepsFiles \in BOOLEAN
        BY BoundsAssumption
      <4>2. files \in BOOLEAN
        BY <4>1, Zenon
      <4>3. msgs \in Seq(Message)
        BY DEF TypeOK
      <4> QED
        BY <4>2, <4>3
    <3>3. turn' = "idle"
      BY <2>4 DEF Resolve
    <3>4. CASE files /\ RowsFrom(target) # {}
      BY <3>1, <3>2, <3>3, <3>4, BaseType, TouchedType
    <3>5. CASE ~(files /\ RowsFrom(target) # {})
      BY <3>1, <3>2, <3>3, <3>5 DEF NoOp
    <3> QED
      BY <3>4, <3>5
  <2>5. CASE UNCHANGED op /\ (turn' = turn \/ op.at = "none")
    BY <2>5 DEF TypeOK, AnchorInv
  <2> QED
    BY <2>2, <2>3, <2>4, <2>5
    DEF ToolReplyLost, BatchRowFails, ToolWrites, ToolsEnd, NextRound, TailRowFails,
        UserEdits, AnchorInv
<1>6. /\ turn' \in {"idle", "begin", "reply", "snapshot", "tools", "batch", "final",
                    "closing"}
      /\ open' \subseteq {"fault", "cut"}
  BY DEF TypeOK, ToolReplyLost, BatchRowFails, ToolWrites, ToolsEnd, NextRound, TailRowFails,
         UserEdits, Crash, Resolve, Restore, RestoreFails
<1>7. turn' # "snapshot" /\ (turn' # "idle" => turn # "idle")
  BY DEF ToolReplyLost, BatchRowFails, ToolWrites, ToolsEnd, NextRound, TailRowFails,
         UserEdits, Crash, Resolve, Restore, RestoreFails, AnchorInv
<1>8. TypeOK'
  BY <1>1, <1>2, <1>3, <1>4, <1>5, <1>6 DEF TypeOK
<1>9. RowsAnchored'
  BY <1>1, <1>2, KeepsAnchored DEF AnchorInv
<1>10. DOMAIN msgs' = DOMAIN msgs
  BY <1>2 DEF TypeOK
<1>11. turn' # "idle" /\ ledger'.anchor # NoAnchor =>
         /\ ledger'.anchor \in DOMAIN msgs' /\ msgs'[ledger'.anchor].kind = "assistant"
         /\ \A r \in rows' : r.seq <= ledger'.anchor
  BY <1>1, <1>2, <1>7 DEF AnchorInv, Keeps
<1> QED
  BY <1>1, <1>3, <1>5, <1>7, <1>8, <1>9, <1>10, <1>11 DEF AnchorInv

\* The deletion of a rollback takes messages and rows by the same comparison.
LEMMA DeleteStep ==
  ASSUME IInv, DeleteFrom
  PROVE  IInv'
<1> USE DEF IInv
<1> DEFINE left == RemainingMessages(op.target)
<1>1. /\ op.target \in 1 .. Len(msgs) /\ turn = "idle" /\ msgs \in Seq(Message)
      /\ Len(msgs) \in Nat
  BY DEF DeleteFrom, AnchorInv, TypeOK
<1>2. /\ left \in Seq(Message) /\ Len(left) = op.target - 1
      /\ \A i \in 1 .. op.target - 1 : left[i] = msgs[i]
  BY <1>1, SubSeqProperties DEF RemainingMessages
<1> HIDE DEF left
<1>3. msgs' \in Seq(Message) /\ Len(msgs') = Len(left) /\ Keeps(left, msgs')
  <2>1. CASE msgs' = left
    BY <1>2, <2>1 DEF Keeps
  <2>2. CASE msgs' = Doubted(left, RemainingRows(op.target))
    BY <1>2, <2>2, DoubtType DEF Doubted
  <2> QED
    BY <2>1, <2>2 DEF DeleteFrom, left
<1>4. rows' = {r \in rows : r.seq < op.target} /\ op' = NoOp
      /\ UNCHANGED <<work, turn, ledger, count>>
  BY DEF DeleteFrom, RemainingRows
<1>5. \A r \in rows' : r \in rows /\ r.seq \in 1 .. op.target - 1
  BY <1>1, <1>4 DEF AnchorInv, RowsAnchored
<1>6. RowsAnchored'
  <2>1. ASSUME NEW r \in rows'
        PROVE  /\ r.seq \in DOMAIN msgs'
               /\ msgs'[r.seq].kind = "assistant" /\ msgs'[r.seq].uid = r.uid
    BY <1>2, <1>3, <1>5 DEF AnchorInv, RowsAnchored, Keeps
  <2>2. \A r, q \in rows' : r.id < q.id => r.seq <= q.seq
    BY <1>5 DEF AnchorInv, RowsAnchored
  <2> QED
    BY <2>1, <2>2 DEF RowsAnchored
<1>7. open' \subseteq {"fault", "cut"}
  <2>2. Uncovered(op.target) \subseteq {"fault", "cut"}
    <3>1. open \subseteq {"fault", "cut"}
      BY DEF TypeOK
    <3>2. \A r \in RowsFrom(op.target) : r.covers \subseteq {"fault", "cut"}
      BY DEF TypeOK, RowsFrom, Rows
    <3> QED
      BY <3>1, <3>2 DEF Uncovered
  <2>3. CutOff \subseteq {"fault", "cut"}
    BY <2>2 DEF CutOff
  <2>4. open' = CutOff
    BY DEF DeleteFrom
  <2> QED
    BY <2>3, <2>4
<1>8. NoOp.at = "none"
      /\ NoOp \in [at : {"none", "restore", "delete"}, target : Nat, files : BOOLEAN,
                   base : Workspace \cup {<<>>}, touched : SUBSET File]
  BY DEF NoOp
<1>9. TypeOK'
  BY <1>3, <1>4, <1>5, <1>7, <1>8 DEF TypeOK
<1> QED
  BY <1>1, <1>4, <1>5, <1>6, <1>8, <1>9 DEF AnchorInv

\* Every step keeps the invariant.
LEMMA InvStep == IInv /\ [Next]_vars => IInv'
<1> SUFFICES ASSUME IInv, [Next]_vars PROVE IInv'
  OBVIOUS
<1>1. CASE UNCHANGED vars
  BY <1>1 DEF vars, IInv, TypeOK, AnchorInv, RowsAnchored
<1>2. CASE Next
  BY <1>2, InsertSteps, RecordSteps, OtherSteps, DeleteStep DEF Next
<1> QED
  BY <1>1, <1>2

(***************************************************************************)
(* Recovery: the invariant                                                 *)
(*                                                                         *)
(* Recoverable speaks of quiet states with nothing open; what makes it true *)
(* is built up row by row in the turns, and taken down by the rollbacks.    *)
(* Rows are in the order of their ids.                                     *)
(***************************************************************************)
\* The first row at or after a message.
FirstFrom(i, r) == r \in RowsFrom(i) /\ \A q \in RowsFrom(i) : r.id <= q.id
\* A file that a row at or after the message names.
TouchedFrom(i, f) == \E p \in RowsFrom(i) : f \in p.files
TouchedBetween(i, t, f) == \E p \in RowsFrom(i) : p.seq < t /\ f \in p.files

Sure(i) == i \in DOMAIN msgs /\ ~msgs[i].doubted
\* Messages that go when the rollback under way deletes; its restore may have been done.
Going(i) == op.at = "delete" /\ op.files /\ i > op.target
Stays(i) == Sure(i) /\ ~Going(i)

\* An id is one row's.
IdInv == \A r, q \in rows : r.id = q.id => r = q

\* The files of the rows between two rows make up for the difference of their trees.
ChainInv ==
  \A r, q \in rows : r.id < q.id =>
    \A f \in File : r.tree[f] # q.tree[f] =>
      \E p \in rows : r.id < p.id /\ p.id <= q.id /\ f \in p.files

\* A message without a row at or after it was inserted into the workspace as it is; one
\* with such rows, into the tree of the first of them.
FreshInv == \A i \in DOMAIN msgs : Stays(i) /\ RowsFrom(i) = {} => msgs[i].before = work
TreeInv ==
  \A i \in DOMAIN msgs, r \in rows : Sure(i) /\ FirstFrom(i, r) => msgs[i].before = r.tree

\* With nothing open, outside a turn that has tracked a batch, the rows at or after a
\* message name every file that differs from the first tree.
NamedInv ==
  open = {} /\ (turn = "idle" \/ ~ledger.tracked) =>
    \A i \in DOMAIN msgs, r \in rows : Stays(i) /\ FirstFrom(i, r) =>
      \A f \in File : r.tree[f] # work[f] => TouchedFrom(i, f)

\* The same when the first row at or after a message that opened a turn was written:
\* the rows before that message name what differed then.
OpenerInv ==
  \A t \in DOMAIN msgs, q \in rows :
    msgs[t].opens /\ FirstFrom(t, q) /\ q.covers = {} =>
      \A i \in DOMAIN msgs, r \in rows :
        i < t /\ Sure(i) /\ FirstFrom(i, r) /\ r.seq < t =>
          \A f \in File : r.tree[f] # q.tree[f] => TouchedBetween(i, t, f)

\* Where the turn is: tools run only when every message has a row or a doubt.
PlaceInv ==
  /\ turn = "tools" => \A i \in DOMAIN msgs : Sure(i) => RowsFrom(i) # {}
  /\ turn = "tools" => open # {} \/ ledger.tracked
  /\ turn = "snapshot" => ledger.anchor = Len(msgs)
  /\ turn = "begin" => ~ledger.tracked
  /\ turn # "idle" /\ ledger.tracked => ledger.anchor # NoAnchor
  /\ turn # "idle" /\ ledger.tracked /\ open = {} =>
       \A t \in DOMAIN msgs : msgs[t].opens => RowsFrom(t) # {}

\* The rollback under way restores to the first row at or after its target, and has done
\* so before it deletes.
RestoreInv ==
  \A t \in DOMAIN msgs : t = op.target =>
    /\ op.at = "restore" =>
         op.files /\ op.touched = Touched(t) /\ \E r \in rows : FirstFrom(t, r) /\ op.base = r.tree
    /\ op.at = "delete" /\ op.files =>
         \A r \in rows : FirstFrom(t, r) =>
           \A f \in File : TouchedFrom(t, f) => work[f] = r.tree[f]

RowsInv == IdInv /\ ChainInv
TargetsInv == FreshInv /\ TreeInv /\ NamedInv /\ OpenerInv
RecoverInv == RowsInv /\ TargetsInv /\ PlaceInv /\ RestoreInv

(***************************************************************************)
(* Recovery: the order of the rows                                         *)
(***************************************************************************)
LEMMA RowNumbers ==
  ASSUME IInv
  PROVE  /\ \A r \in rows : r.id \in Nat /\ r.seq \in Nat /\ r.seq \in DOMAIN msgs
         /\ \A r, q \in rows : r.id < q.id => r.seq <= q.seq
         /\ \A i \in DOMAIN msgs : i \in Nat
         /\ DOMAIN msgs = 1 .. Len(msgs) /\ Len(msgs) \in Nat
BY DEF IInv, TypeOK, AnchorInv, RowsAnchored, Rows

\* The base of a rollback is the tree of the first row at or after the target.
LEMMA BaseIsFirst ==
  ASSUME IInv, NEW i, RowsFrom(i) # {}
  PROVE  \E r \in rows : FirstFrom(i, r) /\ Base(i) = r.tree
<1> DEFINE r == FirstRow(RowsFrom(i))
<1>1. \A q \in RowsFrom(i) : q \in rows /\ q.id \in Nat /\ q.seq \in Nat
  BY RowNumbers DEF RowsFrom
<1>2. r \in RowsFrom(i) /\ \A q \in RowsFrom(i) : UpTo(r, q)
  BY <1>1, FirstRowIsOne
<1>3. Base(i) = r.tree
  BY DEF Base
<1> HIDE DEF r
<1>4. ASSUME NEW q \in RowsFrom(i) PROVE r.id <= q.id
  <2>1. UpTo(r, q) /\ (q.id < r.id => q.seq <= r.seq)
    BY <1>1, <1>2, RowNumbers
  <2> QED
    BY <1>1, <1>2, <2>1 DEF UpTo
<1> QED
  BY <1>1, <1>2, <1>3, <1>4 DEF FirstFrom

\* The latest row has the greatest id.
LEMMA LatestIs ==
  ASSUME IInv, IdInv, rows # {}
  PROVE  LatestRow \in rows /\ \A q \in rows : q.id <= LatestRow.id
<1> DEFINE Ids == {r.id : r \in rows}
<1>1. count["rows"] \in Nat /\ \A r \in rows : r.id <= count["rows"]
  BY DEF IInv, TypeOK, AnchorInv, Counters
<1>2. PICK m \in Ids : \A n \in Ids : n <= m
  <2>1. Ids # {} /\ Ids \in SUBSET Nat /\ \A n \in Ids : n <= count["rows"]
    BY <1>1, RowNumbers
  <2> QED
    BY <1>1, <2>1, GreatestNumber
<1>3. PICK r \in rows : r.id = m
  OBVIOUS
<1>4. ASSUME NEW q \in rows PROVE UpTo(q, r)
  <2>1. q.id <= r.id /\ (q.id < r.id => q.seq <= r.seq)
    BY <1>2, <1>3, RowNumbers
  <2>2. q.id = r.id => q = r
    BY DEF IdInv
  <2> QED
    BY <2>1, <2>2, RowNumbers DEF UpTo
<1>5. LatestRow \in rows /\ \A q \in rows : UpTo(q, LatestRow)
  BY <1>3, <1>4 DEF LatestRow
<1> DEFINE L == LatestRow
<1>6. L \in rows /\ \A q \in rows : UpTo(q, L)
  BY <1>5
<1> HIDE DEF L
<1>7. ASSUME NEW q \in rows PROVE q.id <= L.id
  <2>1. UpTo(q, L) /\ (L.id < q.id => L.seq <= q.seq)
    BY <1>6, RowNumbers
  <2> QED
    BY <1>6, <2>1, RowNumbers DEF UpTo
<1> QED
  BY <1>6, <1>7 DEF L

(***************************************************************************)
(* Recovery: steps that leave the rows alone                               *)
(***************************************************************************)
\* The messages there were stay, with a doubt more perhaps.
MoreDoubt ==
  /\ DOMAIN msgs' = DOMAIN msgs
  /\ \A i \in DOMAIN msgs :
       /\ msgs'[i].before = msgs[i].before /\ msgs'[i].opens = msgs[i].opens
       /\ msgs[i].doubted => msgs'[i].doubted

LEMMA DoubtIsMore ==
  ASSUME msgs \in Seq(Message), msgs' = [i \in DOMAIN msgs |-> msgs'[i]],
         \A i \in DOMAIN msgs : \/ msgs'[i] = msgs[i]
                                \/ msgs'[i] = [msgs[i] EXCEPT !.doubted = TRUE]
  PROVE  /\ MoreDoubt
         /\ \A i \in DOMAIN msgs :
              msgs'[i] = [msgs[i] EXCEPT !.doubted = TRUE] => msgs'[i].doubted
<1>1. DOMAIN msgs' = DOMAIN msgs
  OBVIOUS
<1>2. \A i \in DOMAIN msgs : msgs[i] \in Message
  OBVIOUS
<1>3. ASSUME NEW i \in DOMAIN msgs
      PROVE  /\ msgs'[i].before = msgs[i].before /\ msgs'[i].opens = msgs[i].opens
             /\ msgs[i].doubted => msgs'[i].doubted
             /\ msgs'[i] = [msgs[i] EXCEPT !.doubted = TRUE] => msgs'[i].doubted
  <2>1. msgs[i] \in Message
    BY <1>2
  <2>2. CASE msgs'[i] = msgs[i]
    <3>1. [msgs[i] EXCEPT !.doubted = TRUE].doubted = TRUE
      BY <2>1 DEF Message
    <3> QED
      BY <2>2, <3>1
  <2>3. CASE msgs'[i] = [msgs[i] EXCEPT !.doubted = TRUE]
    BY <2>1, <2>3 DEF Message
  <2> QED
    BY <1>3, <2>2, <2>3
<1> QED
  BY <1>1, <1>3 DEF MoreDoubt

LEMMA DoubtedIsMore ==
  ASSUME msgs \in Seq(Message), msgs' = Doubted(msgs, rows)
  PROVE  MoreDoubt /\ \A i \in DOMAIN msgs : msgs'[i].doubted \/ RowsFrom(i) # {}
<1>1. msgs' = [i \in DOMAIN msgs |-> msgs'[i]]
  BY DEF Doubted
<1>2. \A i \in DOMAIN msgs :
        IF \E r \in rows : r.seq >= i THEN msgs'[i] = msgs[i]
        ELSE msgs'[i] = [msgs[i] EXCEPT !.doubted = TRUE]
  BY DEF Doubted
<1>3. \A i \in DOMAIN msgs : (\E r \in rows : r.seq >= i) => RowsFrom(i) # {}
  BY DEF RowsFrom
<1> QED
  BY <1>1, <1>2, <1>3, DoubtIsMore

\* What the rows say does not change.
LEMMA RowsSame ==
  ASSUME rows' = rows
  PROVE  \A i : /\ RowsFrom(i)' = RowsFrom(i)
                /\ \A r : FirstFrom(i, r)' <=> FirstFrom(i, r)
                /\ \A f : TouchedFrom(i, f)' <=> TouchedFrom(i, f)
                /\ \A t, f : TouchedBetween(i, t, f)' <=> TouchedBetween(i, t, f)
BY DEF RowsFrom, FirstFrom, TouchedFrom, TouchedBetween

LEMMA DoubtKeeps ==
  ASSUME RecoverInv, rows' = rows, MoreDoubt
  PROVE  RowsInv' /\ TreeInv' /\ OpenerInv'
<1> USE DEF RecoverInv, RowsInv, TargetsInv
<1>1. RowsInv'
  BY DEF IdInv, ChainInv
<1>2. \A i : Sure(i)' => Sure(i) /\ msgs'[i].before = msgs[i].before
  BY DEF Sure, MoreDoubt
<1>3. TreeInv'
  <2>1. ASSUME NEW i \in DOMAIN msgs, NEW r \in rows, Sure(i)', FirstFrom(i, r)'
        PROVE  msgs'[i].before = r.tree
    BY <1>2, <2>1, RowsSame DEF TreeInv
  <2> QED
    BY <2>1 DEF TreeInv, MoreDoubt
<1>4. OpenerInv'
  <2>1. ASSUME NEW t \in DOMAIN msgs, NEW q \in rows, msgs'[t].opens, FirstFrom(t, q)',
               q.covers = {}, NEW i \in DOMAIN msgs, NEW r \in rows, i < t, Sure(i)',
               FirstFrom(i, r)', r.seq < t, NEW f \in File, r.tree[f] # q.tree[f]
        PROVE  TouchedBetween(i, t, f)'
    <3>1. msgs[t].opens /\ FirstFrom(t, q) /\ Sure(i) /\ FirstFrom(i, r)
      BY <1>2, <2>1, RowsSame DEF MoreDoubt
    <3>2. TouchedBetween(i, t, f)
      BY <2>1, <3>1 DEF OpenerInv
    <3> QED
      BY <3>2, RowsSame
  <2> QED
    BY <2>1 DEF OpenerInv, MoreDoubt
<1> QED
  BY <1>1, <1>3, <1>4

\* The workspace does not change either.
Closed == open = {} /\ (turn = "idle" \/ ~ledger.tracked)
LEMMA StillKeeps ==
  ASSUME RecoverInv, UNCHANGED <<rows, work>>, MoreDoubt,
         \A i \in DOMAIN msgs : Stays(i)' => Stays(i),
         Closed' => Closed
  PROVE  RowsInv' /\ TargetsInv'
<1> USE DEF RecoverInv, TargetsInv
<1>1. RowsInv' /\ TreeInv' /\ OpenerInv' /\ DOMAIN msgs' = DOMAIN msgs
  BY DoubtKeeps DEF MoreDoubt
<1>2. FreshInv'
  <2>1. ASSUME NEW i \in DOMAIN msgs, Stays(i)', RowsFrom(i)' = {}
        PROVE  msgs'[i].before = work'
    BY <2>1, RowsSame DEF FreshInv, MoreDoubt
  <2> QED
    BY <1>1, <2>1 DEF FreshInv
<1>3. NamedInv'
  <2>1. ASSUME Closed', NEW i \in DOMAIN msgs, NEW r \in rows, Stays(i)', FirstFrom(i, r)',
               NEW f \in File, r.tree[f] # work'[f]
        PROVE  TouchedFrom(i, f)'
    <3>1. Closed /\ Stays(i) /\ FirstFrom(i, r) /\ r.tree[f] # work[f]
      BY <2>1, RowsSame
    <3>2. TouchedFrom(i, f)
      BY <3>1 DEF NamedInv, Closed
    <3> QED
      BY <3>2, RowsSame
  <2> QED
    BY <1>1, <2>1 DEF NamedInv, Closed
<1> QED
  BY <1>1, <1>2, <1>3

\* No rollback is under way, before or after.
LEMMA NoRollback ==
  ASSUME op'.at = "none"
  PROVE  RestoreInv' /\ \A i : Stays(i)' <=> Sure(i)'
BY DEF RestoreInv, Stays, Going

(***************************************************************************)
(* Recovery: a message is inserted                                         *)
(***************************************************************************)
LEMMA InsertKeeps ==
  ASSUME IInv, RecoverInv, NEW kind \in {"user", "assistant", "compaction"}, Insert(kind),
         UNCHANGED <<rows, work, op, open>>, op.at = "none", Closed' => Closed
  PROVE  /\ RowsInv' /\ TargetsInv' /\ RestoreInv'
         /\ DOMAIN msgs' = DOMAIN msgs \cup {Len(msgs) + 1} /\ Len(msgs') = Len(msgs) + 1
         /\ \A i \in DOMAIN msgs : msgs'[i] = msgs[i]
         /\ msgs'[Len(msgs) + 1].opens = Opening
<1> USE DEF RecoverInv, TargetsInv
<1> DEFINE n == Len(msgs) + 1
           new == [kind |-> kind, uid |-> count["messages"] + 1, before |-> work,
                   opens |-> Opening, doubted |-> FALSE]
<1>1. msgs' = Append(msgs, new) /\ msgs \in Seq(Message) /\ Len(msgs) \in Nat
  BY DEF Insert, IInv, TypeOK
<1>2. /\ DOMAIN msgs' = DOMAIN msgs \cup {n} /\ Len(msgs') = n /\ n \notin DOMAIN msgs
      /\ msgs'[n] = new /\ \A i \in DOMAIN msgs : msgs'[i] = msgs[i]
  BY <1>1, AppendProperties
<1>3. new.before = work /\ new.opens = Opening
  OBVIOUS
<1> HIDE DEF new
<1>4. RowsFrom(n) = {} /\ n \in Nat
  BY <1>1, RowNumbers DEF RowsFrom
<1>5. \A i : Stays(i)' <=> Sure(i)'
  BY NoRollback
<1>6. \A i : Stays(i) <=> Sure(i)
  BY DEF Stays, Going
<1>7. \A i \in DOMAIN msgs : Sure(i)' => Sure(i)
  BY <1>2 DEF Sure
<1> HIDE DEF n
<1>8. RowsInv'
  BY DEF RowsInv, IdInv, ChainInv
<1>9. FreshInv'
  <2>1. ASSUME NEW i \in DOMAIN msgs', Stays(i)', RowsFrom(i)' = {} PROVE msgs'[i].before = work'
    <3>1. CASE i = n
      BY <1>2, <1>3, <3>1
    <3>2. CASE i \in DOMAIN msgs
      BY <1>2, <1>5, <1>6, <1>7, <2>1, <3>2, RowsSame DEF FreshInv
    <3> QED
      BY <1>2, <3>1, <3>2
  <2> QED
    BY <2>1 DEF FreshInv
<1>10. \A i \in DOMAIN msgs', r \in rows : FirstFrom(i, r)' => FirstFrom(i, r) /\ i \in DOMAIN msgs
  <2>1. \A r \in rows : ~FirstFrom(n, r)
    BY <1>4 DEF FirstFrom
  <2> QED
    BY <1>2, <2>1, RowsSame
<1>11. TreeInv'
  BY <1>2, <1>7, <1>10 DEF TreeInv
<1>12. NamedInv'
  <2>1. ASSUME Closed', NEW i \in DOMAIN msgs', NEW r \in rows, Stays(i)', FirstFrom(i, r)',
               NEW f \in File, r.tree[f] # work'[f]
        PROVE  TouchedFrom(i, f)'
    <3>1. Closed /\ i \in DOMAIN msgs /\ Stays(i) /\ FirstFrom(i, r) /\ r.tree[f] # work[f]
      BY <1>5, <1>6, <1>7, <1>10, <2>1
    <3>2. TouchedFrom(i, f)
      BY <3>1 DEF NamedInv, Closed
    <3> QED
      BY <3>2, RowsSame
  <2> QED
    BY <2>1 DEF NamedInv, Closed
<1>13. OpenerInv'
  <2>1. ASSUME NEW t \in DOMAIN msgs', NEW q \in rows, msgs'[t].opens, FirstFrom(t, q)',
               q.covers = {}, NEW i \in DOMAIN msgs', NEW r \in rows, i < t, Sure(i)',
               FirstFrom(i, r)', r.seq < t, NEW f \in File, r.tree[f] # q.tree[f]
        PROVE  TouchedBetween(i, t, f)'
    <3>1. /\ t \in DOMAIN msgs /\ i \in DOMAIN msgs
          /\ msgs[t].opens /\ FirstFrom(t, q) /\ Sure(i) /\ FirstFrom(i, r)
      BY <1>2, <1>7, <1>10, <2>1
    <3>2. TouchedBetween(i, t, f)
      BY <2>1, <3>1 DEF OpenerInv
    <3> QED
      BY <3>2, RowsSame
  <2> QED
    BY <2>1 DEF OpenerInv
<1>14. RestoreInv'
  BY NoRollback
<1> QED
  BY <1>2, <1>3, <1>8, <1>9, <1>11, <1>12, <1>13, <1>14 DEF n

LEMMA RecoverInserts ==
  ASSUME IInv, RecoverInv,
         \/ BeginTurn \/ Compact \/ ToolReply \/ Consume
         \/ (FinalReply /\ Insert("assistant")) \/ (EndOfLoop /\ Insert("assistant"))
  PROVE  RecoverInv'
<1> USE DEF RecoverInv
<1>1. UNCHANGED <<rows, work, op, open>> /\ op.at = "none"
  BY DEF BeginTurn, Compact, ToolReply, FinalReply, Consume, EndOfLoop, IInv, AnchorInv
<1>2. PICK kind \in {"user", "assistant", "compaction"} : Insert(kind)
  BY DEF BeginTurn, Compact, ToolReply, FinalReply, Consume, EndOfLoop
<1>t. ledger \in [anchor : Nat, tracked : BOOLEAN] /\ Len(msgs) \in Nat
  BY DEF IInv, TypeOK
<1>3. /\ turn' = "begin" => ~ledger'.tracked
      /\ turn' # "idle" /\ ledger'.tracked => ledger'.anchor # NoAnchor
      /\ turn' # "idle" /\ ledger'.tracked => turn # "idle" /\ ledger.tracked /\ ~Opening
      /\ turn' # "tools"
      /\ turn' = "snapshot" => ledger'.anchor = Len(msgs) + 1
      /\ Closed' => Closed
  <2>1. CASE BeginTurn
    BY <1>1, <2>1 DEF BeginTurn, PlaceInv, Closed, Opening
  <2>2. CASE Compact
    BY <1>1, <2>2 DEF Compact, PlaceInv, Closed, Opening
  <2>3. CASE ToolReply
    BY <1>1, <1>t, <2>3 DEF ToolReply, PlaceInv, Closed, Opening, NoAnchor
  <2>4. CASE Consume
    BY <1>1, <2>4 DEF Consume, PlaceInv, Closed, Opening
  <2>5. CASE FinalReply /\ Insert("assistant")
    <3>1. /\ turn = "reply" /\ turn' = "final" /\ ledger'.tracked = ledger.tracked
          /\ ledger'.anchor = ledger.anchor \/ ledger'.anchor = Len(msgs) + 1
      BY <1>t, <2>5 DEF FinalReply
    <3> QED
      BY <1>1, <1>t, <3>1 DEF PlaceInv, Closed, Opening, NoAnchor
  <2>6. CASE EndOfLoop /\ Insert("assistant")
    BY <1>1, <2>6 DEF EndOfLoop, PlaceInv, Closed, Opening
  <2> QED
    BY <2>1, <2>2, <2>3, <2>4, <2>5, <2>6
<1>4. /\ RowsInv' /\ TargetsInv' /\ RestoreInv'
      /\ DOMAIN msgs' = DOMAIN msgs \cup {Len(msgs) + 1} /\ Len(msgs') = Len(msgs) + 1
      /\ \A i \in DOMAIN msgs : msgs'[i] = msgs[i]
      /\ msgs'[Len(msgs) + 1].opens = Opening
  BY <1>1, <1>2, <1>3, InsertKeeps
<1>5. PlaceInv'
  <2>1. ASSUME turn' # "idle", ledger'.tracked, open' = {}, NEW t \in DOMAIN msgs', msgs'[t].opens
        PROVE  RowsFrom(t)' # {}
    <3>1. t \in DOMAIN msgs /\ msgs[t].opens
      BY <1>3, <1>4, <2>1
    <3>2. RowsFrom(t) # {}
      BY <1>1, <1>3, <2>1, <3>1 DEF PlaceInv
    <3> QED
      BY <1>1, <3>2, RowsSame
  <2> QED
    BY <1>3, <1>4, <2>1 DEF PlaceInv
<1> QED
  BY <1>4, <1>5

(***************************************************************************)
(* Recovery: steps that change neither messages nor rows, a doubt apart    *)
(***************************************************************************)
LEMMA PlaceKept ==
  ASSUME RecoverInv, rows' = rows, MoreDoubt, Len(msgs') = Len(msgs),
         \/ turn' = "idle"
         \/ /\ turn # "idle" /\ ledger' = ledger /\ turn' \in {"reply", "final", "batch", "closing"}
            /\ open' = open
         \/ /\ turn' = "tools" /\ turn = "tools" /\ ledger' = ledger /\ open' = open
         \/ /\ turn' = "tools" /\ open' # {}
            /\ ledger'.tracked => ledger'.anchor # NoAnchor
            /\ \A i \in DOMAIN msgs : msgs'[i].doubted \/ RowsFrom(i) # {}
  PROVE  PlaceInv'
<1>1. \A i : RowsFrom(i)' = RowsFrom(i)
  BY RowsSame
<1>2. \A i : Sure(i)' => Sure(i)
  BY DEF Sure, MoreDoubt
<1>3. /\ DOMAIN msgs' = DOMAIN msgs /\ \A t \in DOMAIN msgs : msgs'[t].opens = msgs[t].opens
  BY DEF MoreDoubt
<1>4. ASSUME turn' = "tools", NEW i \in DOMAIN msgs', Sure(i)' PROVE RowsFrom(i)' # {}
  BY <1>1, <1>2, <1>3, <1>4 DEF RecoverInv, PlaceInv, Sure
<1>5. ASSUME turn' # "idle", ledger'.tracked, open' = {}, NEW t \in DOMAIN msgs', msgs'[t].opens
      PROVE  RowsFrom(t)' # {}
  BY <1>1, <1>3, <1>5 DEF RecoverInv, PlaceInv
<1>6. turn' = "tools" => open' # {} \/ ledger'.tracked
  BY DEF RecoverInv, PlaceInv
<1>7. turn' # "idle" /\ ledger'.tracked => ledger'.anchor # NoAnchor
  BY DEF RecoverInv, PlaceInv
<1>8. turn' \notin {"snapshot", "begin"}
  OBVIOUS
<1> QED
  BY <1>4, <1>5, <1>6, <1>7, <1>8 DEF PlaceInv

\* The workspace stays, and no rollback is under way.
LEMMA RecoverStays ==
  ASSUME IInv, RecoverInv,
         \/ ToolReplyLost \/ BatchRowFails \/ ToolsEnd \/ NextRound \/ TailRowFails
         \/ FinalReply /\ UNCHANGED msgs
         \/ EndOfLoop /\ UNCHANGED msgs
         \/ TailRow /\ ~TailDue
  PROVE  RecoverInv'
<1> USE DEF RecoverInv
<1>t. /\ msgs \in Seq(Message) /\ ledger \in [anchor : Nat, tracked : BOOLEAN]
      /\ turn # "idle"
  BY DEF ToolReplyLost, BatchRowFails, ToolsEnd, NextRound, TailRowFails, FinalReply,
         EndOfLoop, TailRow, IInv, TypeOK
<1>1. UNCHANGED <<rows, work, op>> /\ op.at = "none" /\ op'.at = "none"
  BY <1>t DEF ToolReplyLost, BatchRowFails, ToolsEnd, NextRound, TailRowFails, FinalReply,
         EndOfLoop, TailRow, IInv, AnchorInv
<1>2. CASE ToolReplyLost \/ BatchRowFails
  <2>1. msgs' = Doubted(msgs, rows) /\ turn' = "tools" /\ open' # {}
    BY <1>2 DEF ToolReplyLost, BatchRowFails
  <2>2. MoreDoubt /\ \A i \in DOMAIN msgs : msgs'[i].doubted \/ RowsFrom(i) # {}
    BY <1>t, <2>1, DoubtedIsMore
  <2>3. ledger'.tracked => ledger'.anchor # NoAnchor
    <3>1. CASE ToolReplyLost
      BY <3>1 DEF ToolReplyLost, PlaceInv
    <3>2. CASE BatchRowFails
      BY <1>t, <3>2 DEF BatchRowFails, IInv, AnchorInv
    <3> QED
      BY <1>2, <3>1, <3>2
  <2>4. Len(msgs') = Len(msgs)
    BY <1>t, <2>1, DoubtType DEF Doubted
  <2>5. \A i \in DOMAIN msgs : Stays(i)' => Stays(i)
    BY <1>1, <2>2 DEF Stays, Going, Sure, MoreDoubt
  <2>6. ~Closed'
    BY <2>1 DEF Closed
  <2> QED
    BY <1>1, <2>1, <2>2, <2>3, <2>4, <2>5, <2>6, PlaceKept, StillKeeps, NoRollback
<1>3. CASE ~(ToolReplyLost \/ BatchRowFails)
  <2>1. /\ UNCHANGED <<msgs, ledger>>
        /\ \/ turn' \in {"reply", "final", "batch", "closing"} /\ open' = open
           \/ turn' = "idle" /\ open' = open /\ ~TailDue
           \/ turn' = "idle" /\ open' # {}
    <3>1. CASE ToolsEnd \/ NextRound
      BY <3>1 DEF ToolsEnd, NextRound
    <3>2. CASE TailRowFails
      BY <3>2 DEF TailRowFails
    <3>3. CASE FinalReply /\ UNCHANGED msgs
      <4>1. ASSUME Insert("assistant") PROVE FALSE
        BY <1>t, <3>3, <4>1, AppendProperties DEF Insert
      <4> QED
        BY <3>3, <4>1 DEF FinalReply
    <3>4. CASE EndOfLoop /\ UNCHANGED msgs
      BY <3>4 DEF EndOfLoop
    <3>5. CASE TailRow /\ ~TailDue
      BY <3>5 DEF TailRow
    <3> QED
      BY <1>3, <3>1, <3>2, <3>3, <3>4, <3>5
  <2>2. MoreDoubt /\ Len(msgs') = Len(msgs) /\ \A i \in DOMAIN msgs : Stays(i)' => Stays(i)
    BY <1>1, <2>1 DEF MoreDoubt, Stays, Going, Sure
  <2>3. Closed' => Closed
    BY <1>t, <2>1 DEF Closed, TailDue, PlaceInv
  <2>4. PlaceInv'
    BY <1>t, <1>1, <2>1, <2>2, PlaceKept
  <2> QED
    BY <1>1, <2>2, <2>3, <2>4, StillKeeps, NoRollback
<1> QED
  BY <1>2, <1>3

\* A tool or the user writes: what has no row is doubted already, or is now.
LEMMA RecoverWrites ==
  ASSUME IInv, RecoverInv, ToolWrites \/ UserEdits
  PROVE  RecoverInv'
<1> USE DEF RecoverInv
<1>1. UNCHANGED <<rows, op, ledger>> /\ op.at = "none" /\ op'.at = "none" /\ turn' = turn
      /\ msgs \in Seq(Message)
  BY DEF ToolWrites, UserEdits, IInv, AnchorInv, TypeOK
<1>2. /\ MoreDoubt /\ Len(msgs') = Len(msgs) /\ ~Closed'
      /\ \A i \in DOMAIN msgs : Sure(i)' => RowsFrom(i) # {}
  <2>1. CASE ToolWrites
    BY <1>1, <2>1 DEF ToolWrites, MoreDoubt, PlaceInv, Sure, Closed
  <2>2. CASE UserEdits
    <3>1. msgs' = Doubted(msgs, rows) /\ open' # {}
      BY <2>2 DEF UserEdits
    <3>2. Len(msgs') = Len(msgs)
      BY <1>1, <3>1, DoubtType DEF Doubted
    <3> QED
      BY <1>1, <3>1, <3>2, DoubtedIsMore DEF Sure, Closed
  <2> QED
    BY <2>1, <2>2
<1>3. RowsInv' /\ TreeInv' /\ OpenerInv'
  BY <1>1, <1>2, DoubtKeeps
<1>4. FreshInv'
  <2>1. ASSUME NEW i \in DOMAIN msgs', Stays(i)', RowsFrom(i)' = {} PROVE FALSE
    BY <1>1, <1>2, <2>1, RowsSame DEF Stays, MoreDoubt
  <2> QED
    BY <2>1 DEF FreshInv
<1>5. NamedInv'
  BY <1>2 DEF NamedInv, Closed
<1>6. PlaceInv'
  <2>1. CASE ToolWrites
    BY <1>1, <1>2, <2>1, PlaceKept DEF ToolWrites
  <2>2. CASE UserEdits
    BY <1>1, <1>2, <2>2, PlaceKept DEF UserEdits
  <2> QED
    BY <2>1, <2>2
<1> QED
  BY <1>1, <1>3, <1>4, <1>5, <1>6, NoRollback DEF TargetsInv

\* The process ends; a rollback begins.
LEMMA RecoverCrash ==
  ASSUME IInv, RecoverInv, Crash
  PROVE  RecoverInv'
<1> USE DEF RecoverInv
<1>1. /\ msgs \in Seq(Message) /\ UNCHANGED <<rows, work, ledger>>
      /\ turn' = "idle" /\ op'.at = "none"
      /\ open' = IF turn = "idle" THEN open ELSE open \cup {"fault"}
      /\ msgs' = [i \in DOMAIN msgs |->
                    IF op.at = "delete" /\ op.files /\ i > op.target
                    THEN [msgs[i] EXCEPT !.doubted = TRUE] ELSE msgs[i]]
  BY DEF Crash, NoOp, IInv, TypeOK
<1>2. /\ msgs' = [i \in DOMAIN msgs |-> msgs'[i]]
      /\ \A i \in DOMAIN msgs : \/ msgs'[i] = msgs[i]
                                \/ msgs'[i] = [msgs[i] EXCEPT !.doubted = TRUE]
      /\ \A i \in DOMAIN msgs : Going(i) => msgs'[i] = [msgs[i] EXCEPT !.doubted = TRUE]
  BY <1>1 DEF Going
<1>3. MoreDoubt /\ \A i \in DOMAIN msgs : Going(i) => msgs'[i].doubted
  BY <1>1, <1>2, DoubtIsMore
<1>4. Len(msgs') = Len(msgs)
  BY <1>1, <1>2, DoubtType
<1>5. \A i \in DOMAIN msgs : Stays(i)' => Stays(i)
  BY <1>3 DEF Stays, Sure, MoreDoubt
<1>6. Closed' => Closed
  BY <1>1 DEF Closed
<1> QED
  BY <1>1, <1>3, <1>4, <1>5, <1>6, PlaceKept, StillKeeps, NoRollback

LEMMA RecoverResolve ==
  ASSUME IInv, RecoverInv, Resolve
  PROVE  RecoverInv'
<1> USE DEF RecoverInv
<1>1. /\ UNCHANGED <<msgs, rows, work, turn, ledger, open>> /\ turn = "idle" /\ op.at = "none"
  BY DEF Resolve
<1>2. PICK target, files :
        op' = IF files /\ RowsFrom(target) # {}
              THEN [at |-> "restore", target |-> target, files |-> TRUE,
                    base |-> Base(target), touched |-> Touched(target)]
              ELSE [NoOp EXCEPT !.at = "delete", !.target = target, !.files = files]
  BY DEF Resolve
<1>3. MoreDoubt /\ Len(msgs') = Len(msgs)
  BY <1>1 DEF MoreDoubt
<1>4. \A i \in DOMAIN msgs : Stays(i)' => Stays(i)
  BY <1>1 DEF Stays, Going, Sure
<1>5. Closed' => Closed
  BY <1>1 DEF Closed
<1>r. \A i : RowsFrom(i)' = RowsFrom(i) /\ Touched(i)' = Touched(i)
  BY <1>1 DEF RowsFrom, Touched
<1>6. RestoreInv'
  <2>1. CASE files /\ RowsFrom(target) # {}
    <3>1. /\ op'.at = "restore" /\ op'.files /\ op'.target = target
          /\ op'.base = Base(target) /\ op'.touched = Touched(target)
      BY <1>2, <2>1
    <3>2. PICK r \in rows : FirstFrom(target, r) /\ Base(target) = r.tree
      BY <2>1, BaseIsFirst
    <3>3. FirstFrom(target, r)' /\ r \in rows'
      BY <1>1, <1>r, <3>2, RowsSame
    <3> QED
      BY <1>r, <3>1, <3>2, <3>3 DEF RestoreInv
  <2>2. CASE ~(files /\ RowsFrom(target) # {})
    <3>1. op'.at = "delete" /\ op'.target = target /\ op'.files = files
      BY <1>2, <2>2 DEF NoOp
    <3>2. files => \A r \in rows' : ~FirstFrom(target, r)'
      BY <1>1, <1>r, <2>2, RowsSame DEF FirstFrom
    <3> QED
      BY <3>1, <3>2 DEF RestoreInv
  <2> QED
    BY <2>1, <2>2
<1> QED
  BY <1>1, <1>3, <1>4, <1>5, <1>6, PlaceKept, StillKeeps

\* The restore, done in part or whole: it gives files that the rows at or after the target
\* name the content they have in the first tree, and does not concern what stays.
LEMMA RecoverRestore ==
  ASSUME IInv, RecoverInv, Restore \/ RestoreFails
  PROVE  RecoverInv'
<1> USE DEF RecoverInv
<1>1. /\ msgs \in Seq(Message) /\ UNCHANGED <<rows, turn, ledger, open>>
      /\ op.at = "restore" /\ turn = "idle" /\ op.target \in DOMAIN msgs
      /\ work \in Workspace
  BY DEF Restore, RestoreFails, IInv, AnchorInv, TypeOK, RestoreInv
<1>2. PICK t \in DOMAIN msgs : t = op.target
  BY <1>1
<1>3. PICK b \in rows : FirstFrom(t, b) /\ op.base = b.tree
  BY <1>1, <1>2 DEF RestoreInv
<1>d. op.files /\ op.touched = Touched(t)
  BY <1>1, <1>2 DEF RestoreInv
<1>4. PICK done \in SUBSET op.touched : work' = Restored(work, op.base, done)
  BY DEF Restore, RestoreFails
<1>5. \A f \in File :
        \/ work'[f] = work[f]
        \/ TouchedFrom(t, f) /\ work'[f] = b.tree[f]
  <2>1. \A f \in done : TouchedFrom(t, f)
    BY <1>d DEF Touched, TouchedFrom
  <2> QED
    BY <1>3, <1>4, <2>1 DEF Restored
<1>6. /\ MoreDoubt /\ Len(msgs') = Len(msgs)
      /\ \A i \in DOMAIN msgs : Stays(i)' => Sure(i) /\ Stays(i) /\ i <= t
  <2>1. \A i \in DOMAIN msgs : i \in Nat /\ t \in Nat
    BY <1>1, <1>2, RowNumbers
  <2>2. \A i : Sure(i) => Stays(i)
    BY <1>1 DEF Stays, Going
  <2>3. CASE Restore
    <3>1. msgs' = msgs /\ op' = [op EXCEPT !.at = "delete"]
      BY <2>3 DEF Restore
    <3>2. op'.at = "delete" /\ op'.files /\ op'.target = t
      BY <1>2, <1>d, <3>1 DEF IInv, TypeOK
    <3> QED
      BY <2>1, <2>2, <3>1, <3>2 DEF MoreDoubt, Stays, Going, Sure
  <2>4. CASE RestoreFails
    <3>1. /\ msgs' = [i \in DOMAIN msgs |-> msgs'[i]]
          /\ \A i \in DOMAIN msgs : \/ msgs'[i] = msgs[i]
                                    \/ msgs'[i] = [msgs[i] EXCEPT !.doubted = TRUE]
          /\ \A i \in DOMAIN msgs : i > t => msgs'[i] = [msgs[i] EXCEPT !.doubted = TRUE]
      BY <1>2, <2>4 DEF RestoreFails
    <3>2. MoreDoubt /\ \A i \in DOMAIN msgs : i > t => msgs'[i].doubted
      BY <1>1, <3>1, DoubtIsMore
    <3>3. Len(msgs') = Len(msgs)
      BY <1>1, <3>1, DoubtType
    <3> QED
      BY <2>1, <2>2, <3>2, <3>3 DEF MoreDoubt, Stays, Sure
  <2> QED
    BY <2>3, <2>4
<1>7. \A i \in DOMAIN msgs : i <= t =>
        /\ RowsFrom(t) \subseteq RowsFrom(i) /\ RowsFrom(i) # {}
        /\ \A f : TouchedFrom(t, f) => TouchedFrom(i, f)
  <2>1. t \in Nat
    BY <1>1, <1>2, RowNumbers
  <2>2. \A i \in DOMAIN msgs : i <= t => RowsFrom(t) \subseteq RowsFrom(i)
    BY <2>1, RowNumbers DEF RowsFrom
  <2> QED
    BY <1>3, <2>2 DEF FirstFrom, TouchedFrom
<1>8. RowsInv' /\ TreeInv' /\ OpenerInv'
  BY <1>1, <1>6, DoubtKeeps
<1>9. FreshInv'
  <2>1. ASSUME NEW i \in DOMAIN msgs', Stays(i)' PROVE RowsFrom(i)' # {}
    BY <1>1, <1>6, <1>7, <2>1, RowsSame DEF MoreDoubt
  <2> QED
    BY <2>1 DEF FreshInv
<1>10. NamedInv'
  <2>1. ASSUME Closed', NEW i \in DOMAIN msgs, NEW r \in rows, Stays(i)', FirstFrom(i, r)',
               NEW f \in File, r.tree[f] # work'[f]
        PROVE  TouchedFrom(i, f)'
    <3>1. Closed /\ Stays(i) /\ i <= t /\ FirstFrom(i, r)
      BY <1>1, <1>6, <2>1, RowsSame DEF Closed
    <3>2. TouchedFrom(i, f)
      BY <1>5, <1>7, <2>1, <3>1 DEF TargetsInv, NamedInv, Closed
    <3> QED
      BY <1>1, <3>2, RowsSame
  <2> QED
    BY <1>1, <1>6, <2>1 DEF NamedInv, Closed, MoreDoubt
<1>11. PlaceInv'
  BY <1>1, <1>6, PlaceKept
<1>12. RestoreInv'
  <2>1. CASE RestoreFails
    BY <2>1, NoRollback DEF RestoreFails, NoOp
  <2>2. CASE Restore
    <3>1. op' = [op EXCEPT !.at = "delete"] /\ work' = Restored(work, op.base, op.touched)
      BY <2>2 DEF Restore
    <3>2. op'.at = "delete" /\ op'.target = t
      BY <1>1, <1>2, <3>1 DEF IInv, TypeOK
    <3>3. ASSUME NEW r \in rows, FirstFrom(t, r), NEW f \in File, TouchedFrom(t, f)
          PROVE  work'[f] = r.tree[f]
      <4>1. f \in op.touched
        BY <1>d, <3>3 DEF Touched, TouchedFrom
      <4>2. r = b
        <5>1. r.id <= b.id /\ b.id <= r.id
          BY <1>3, <3>3 DEF FirstFrom
        <5> QED
          BY <5>1, RowNumbers DEF RowsInv, IdInv
      <4> QED
        BY <1>3, <3>1, <4>1, <4>2 DEF Restored
    <3>4. rows' = rows
      BY <1>1
    <3> QED
      BY <3>2, <3>3, <3>4, RowsSame DEF RestoreInv
  <2> QED
    BY <2>1, <2>2
<1> QED
  BY <1>8, <1>9, <1>10, <1>11, <1>12 DEF TargetsInv

(***************************************************************************)
(* Recovery: a row is written                                              *)
(***************************************************************************)
\* The new row is the last, holds the workspace, and names what differs from the latest.
LEMMA RecordKeeps ==
  ASSUME IInv, RecoverInv, NEW seq \in DOMAIN msgs, Record(seq),
         \A r \in rows : r.seq <= seq,
         UNCHANGED <<msgs, work, op>>, op.at = "none", turn # "idle"
  PROVE  /\ RowsInv' /\ TargetsInv' /\ RestoreInv'
         /\ \A i : RowsFrom(i) # {} => RowsFrom(i)' # {}
         /\ \A i \in DOMAIN msgs : i <= seq => RowsFrom(i)' # {}
<1> USE DEF RecoverInv, TargetsInv, RowsInv
<1> DEFINE row == Row(seq)
<1>0. /\ rows' = rows \cup {row} /\ row.tree = work /\ row.covers = open
      /\ row.seq = seq /\ row.id = count["rows"] + 1
      /\ row.files = IF rows = {} THEN {} ELSE Diff(LatestRow.tree, work)
  BY DEF Record, Row
<1> HIDE DEF row
<1>1. PICK new : /\ rows' = rows \cup {new} /\ open' = {} /\ new.tree = work
                 /\ new.covers = open /\ new.seq = seq /\ new.id = count["rows"] + 1
                 /\ new.files = IF rows = {} THEN {} ELSE Diff(LatestRow.tree, work)
  BY <1>0 DEF Record
<1>2. /\ new.id \in Nat /\ new.seq \in Nat
      /\ \A r \in rows : r.id < new.id /\ r.id \in Nat /\ r.seq \in Nat /\ r.seq <= new.seq
      /\ \A i \in DOMAIN msgs : i \in Nat
      /\ \A r, q \in rows : r.id < q.id => r.seq <= q.seq
  <2>1. count["rows"] \in Nat /\ \A r \in rows : r.id <= count["rows"]
    BY DEF IInv, TypeOK, AnchorInv, Counters
  <2> QED
    BY <1>1, <2>1, RowNumbers
<1>3. \A i \in DOMAIN msgs : RowsFrom(i)' = RowsFrom(i) \cup (IF i <= seq THEN {new} ELSE {})
  BY <1>1, <1>2 DEF RowsFrom
<1>4. \A i \in DOMAIN msgs, r \in rows : FirstFrom(i, r)' => FirstFrom(i, r)
  BY <1>1, <1>2, <1>3 DEF FirstFrom, RowsFrom
<1>5. \A i \in DOMAIN msgs : FirstFrom(i, new)' => RowsFrom(i) = {}
  <2>1. ASSUME NEW i \in DOMAIN msgs, FirstFrom(i, new)', NEW q \in RowsFrom(i) PROVE FALSE
    <3>1. q \in rows /\ q \in RowsFrom(i)'
      BY <1>3, <2>1 DEF RowsFrom
    <3>2. new.id <= q.id
      BY <2>1, <3>1 DEF FirstFrom
    <3> QED
      BY <1>2, <3>1, <3>2
  <2> QED
    BY <2>1
<1>6. \A i, f : TouchedFrom(i, f) => TouchedFrom(i, f)'
  BY <1>1 DEF TouchedFrom, RowsFrom
<1>7. \A i, t, f : TouchedBetween(i, t, f) => TouchedBetween(i, t, f)'
  BY <1>1 DEF TouchedBetween, RowsFrom
<1>8. IdInv'
  BY <1>1, <1>2 DEF IdInv
<1>9. ChainInv'
  <2>1. ASSUME NEW r \in rows, NEW f \in File, r.tree[f] # work[f]
        PROVE  \E p \in rows' : r.id < p.id /\ p.id <= new.id /\ f \in p.files
    <3>1. PICK L \in rows : L = LatestRow /\ \A q \in rows : q.id <= L.id
      BY LatestIs
    <3>2. CASE L.tree[f] # work[f]
      <4>1. f \in new.files
        BY <1>1, <2>1, <3>1, <3>2 DEF Diff
      <4> QED
        BY <1>1, <1>2, <4>1
    <3>3. CASE L.tree[f] = work[f]
      <4>1. r # L /\ r.id <= L.id
        BY <2>1, <3>1, <3>3
      <4>2. r.id < L.id
        BY <1>2, <4>1 DEF IdInv
      <4>3. PICK p \in rows : r.id < p.id /\ p.id <= L.id /\ f \in p.files
        BY <2>1, <3>3, <4>2 DEF ChainInv
      <4> QED
        BY <1>1, <1>2, <4>3
    <3> QED
      BY <3>2, <3>3
  <2>2. ASSUME NEW r \in rows', NEW q \in rows', r.id < q.id, NEW f \in File,
               r.tree[f] # q.tree[f]
        PROVE  \E p \in rows' : r.id < p.id /\ p.id <= q.id /\ f \in p.files
    <3>1. CASE r \in rows /\ q \in rows
      BY <1>1, <2>2, <3>1 DEF ChainInv
    <3>2. CASE r \in rows /\ q = new
      BY <1>1, <2>1, <2>2, <3>2
    <3>3. CASE r = new
      BY <1>1, <1>2, <2>2, <3>3
    <3> QED
      BY <1>1, <3>1, <3>2, <3>3
  <2> QED
    BY <2>2 DEF ChainInv
<1>10. \A i : (Stays(i)' <=> Sure(i)) /\ (Stays(i) <=> Sure(i)) /\ (Sure(i)' <=> Sure(i))
  BY DEF Stays, Going, Sure
<1>11. FreshInv'
  BY <1>3, <1>10 DEF FreshInv
<1>12. TreeInv'
  <2>1. ASSUME NEW i \in DOMAIN msgs, NEW r \in rows', Sure(i), FirstFrom(i, r)'
        PROVE  msgs[i].before = r.tree
    <3>1. CASE r \in rows
      BY <1>4, <2>1, <3>1 DEF TreeInv
    <3>2. CASE r = new
      BY <1>1, <1>5, <1>10, <2>1, <3>2 DEF FreshInv
    <3> QED
      BY <1>1, <3>1, <3>2
  <2> QED
    BY <1>10, <2>1 DEF TreeInv
<1>13. NamedInv'
  <2>1. ASSUME NEW i \in DOMAIN msgs, NEW r \in rows', FirstFrom(i, r)',
               NEW f \in File, r.tree[f] # work[f]
        PROVE  TouchedFrom(i, f)'
    <3>1. r \in rows /\ r.seq >= i /\ r.id < new.id
      BY <1>1, <1>2, <2>1 DEF FirstFrom, RowsFrom
    <3>2. PICK p \in rows' : r.id < p.id /\ f \in p.files
      BY <1>1, <1>9, <2>1, <3>1 DEF ChainInv
    <3>3. r.seq <= p.seq /\ p.seq \in Nat /\ r.seq \in Nat /\ i \in Nat
      BY <1>1, <1>2, <3>1, <3>2
    <3>4. p \in RowsFrom(i)'
      BY <3>1, <3>2, <3>3 DEF RowsFrom
    <3> QED
      BY <3>2, <3>4 DEF TouchedFrom
  <2> QED
    BY <2>1 DEF NamedInv
<1>14. OpenerInv'
  <2>1. ASSUME NEW t \in DOMAIN msgs, NEW q \in rows', msgs[t].opens, FirstFrom(t, q)',
               q.covers = {}, NEW i \in DOMAIN msgs, NEW r \in rows', i < t, Sure(i),
               FirstFrom(i, r)', r.seq < t, NEW f \in File, r.tree[f] # q.tree[f]
        PROVE  TouchedBetween(i, t, f)'
    <3>1. q.seq >= t /\ q.seq <= new.seq /\ q.seq \in Nat
      BY <1>1, <1>2, <2>1 DEF FirstFrom, RowsFrom
    <3>2. r \in rows /\ FirstFrom(i, r)
      BY <1>1, <1>2, <1>4, <2>1, <3>1
    <3>3. CASE q \in rows
      <4>1. FirstFrom(t, q)
        BY <1>4, <2>1, <3>3
      <4>2. TouchedBetween(i, t, f)
        BY <2>1, <3>2, <3>3, <4>1 DEF OpenerInv
      <4> QED
        BY <1>7, <4>2
    <3>4. CASE q = new
      <4>1. RowsFrom(t) = {} /\ open = {}
        BY <1>1, <1>5, <2>1, <3>4
      <4>2. ~ledger.tracked
        BY <2>1, <4>1 DEF PlaceInv
      <4>3. TouchedFrom(i, f)
        BY <1>1, <1>10, <2>1, <3>2, <3>4, <4>1, <4>2 DEF NamedInv
      <4>4. PICK p \in RowsFrom(i) : f \in p.files
        BY <4>3 DEF TouchedFrom
      <4>5. p.seq < t
        BY <1>2, <4>1, <4>4 DEF RowsFrom
      <4>6. TouchedBetween(i, t, f)
        BY <4>4, <4>5 DEF TouchedBetween
      <4> QED
        BY <1>7, <4>6
    <3> QED
      BY <1>1, <3>3, <3>4
  <2> QED
    BY <1>10, <2>1 DEF OpenerInv
<1>15. RestoreInv'
  BY NoRollback
<1>16. \A i : RowsFrom(i) # {} => RowsFrom(i)' # {}
  BY <1>1 DEF RowsFrom
<1>17. \A i \in DOMAIN msgs : i <= seq => RowsFrom(i)' # {}
  BY <1>3
<1> QED
  BY <1>8, <1>9, <1>11, <1>12, <1>13, <1>14, <1>15, <1>16, <1>17
LEMMA RecoverRecords ==
  ASSUME IInv, RecoverInv, BatchRow \/ (TailRow /\ TailDue)
  PROVE  RecoverInv'
<1> USE DEF RecoverInv
<1>1. /\ UNCHANGED <<msgs, work, op>> /\ turn # "idle" /\ op.at = "none"
      /\ Record(ledger.anchor) /\ open' = {} /\ ledger.anchor # NoAnchor
      /\ ledger \in [anchor : Nat, tracked : BOOLEAN]
  BY DEF BatchRow, TailRow, TailDue, Record, IInv, AnchorInv, TypeOK
<1>2. PICK seq \in DOMAIN msgs : seq = ledger.anchor /\ \A r \in rows : r.seq <= seq
  BY <1>1 DEF IInv, AnchorInv
<1>3. /\ RowsInv' /\ TargetsInv' /\ RestoreInv'
      /\ \A i \in DOMAIN msgs : i <= seq => RowsFrom(i)' # {}
  BY <1>1, <1>2, RecordKeeps
<1>4. PlaceInv'
  <2>1. CASE BatchRow
    <3>1. turn' = "tools" /\ turn = "snapshot" /\ ledger' = [ledger EXCEPT !.tracked = TRUE]
      BY <2>1 DEF BatchRow
    <3>2. ledger'.tracked /\ ledger'.anchor # NoAnchor
      BY <1>1, <3>1
    <3>3. \A i \in DOMAIN msgs : RowsFrom(i)' # {}
      BY <1>2, <1>3, <3>1, RowNumbers DEF PlaceInv
    <3> QED
      BY <1>1, <3>1, <3>2, <3>3 DEF PlaceInv
  <2>2. CASE TailRow
    BY <2>2 DEF TailRow, PlaceInv
  <2> QED
    BY <2>1, <2>2
<1> QED
  BY <1>3, <1>4

(***************************************************************************)
(* Recovery: the deletion of a rollback                                    *)
(***************************************************************************)
LEMMA DoubtedFields ==
  ASSUME NEW history \in Seq(Message), NEW remaining
  PROVE  LET new == Doubted(history, remaining) IN
         /\ DOMAIN new = DOMAIN history
         /\ \A i \in DOMAIN history :
              /\ new[i].before = history[i].before /\ new[i].opens = history[i].opens
              /\ history[i].doubted => new[i].doubted
              /\ new[i].doubted \/ \E r \in remaining : r.seq >= i
<1> DEFINE new == Doubted(history, remaining)
<1>1. DOMAIN new = DOMAIN history
  BY DEF Doubted
<1>2. ASSUME NEW i \in DOMAIN history
      PROVE  /\ new[i].before = history[i].before /\ new[i].opens = history[i].opens
             /\ history[i].doubted => new[i].doubted
             /\ new[i].doubted \/ \E r \in remaining : r.seq >= i
  <2>1. history[i] \in Message
    OBVIOUS
  <2>2. new[i] = IF \E r \in remaining : r.seq >= i THEN history[i]
                 ELSE [history[i] EXCEPT !.doubted = TRUE]
    BY DEF Doubted
  <2> HIDE DEF new
  <2>3. CASE \E r \in remaining : r.seq >= i
    BY <2>2, <2>3
  <2>4. CASE ~\E r \in remaining : r.seq >= i
    BY <2>1, <2>2, <2>4 DEF Message
  <2> QED
    BY <2>3, <2>4
<1> QED
  BY <1>1, <1>2

\* A message whose first row goes was inserted into the workspace that the restore made.
LEMMA DeletedIsRestored ==
  ASSUME IInv, RecoverInv, op.at = "delete", op.files, open = {},
         NEW t \in DOMAIN msgs, t = op.target, NEW i \in DOMAIN msgs, i <= t, Sure(i),
         NEW r \in rows, FirstFrom(i, r), r.seq >= t
  PROVE  msgs[i].before = work
<1> USE DEF RecoverInv, TargetsInv
<1>1. t \in Nat /\ i \in Nat /\ turn = "idle" /\ Stays(i)
  BY RowNumbers DEF IInv, AnchorInv, Stays, Going
<1>2. FirstFrom(t, r)
  BY <1>1, RowNumbers DEF FirstFrom, RowsFrom
<1>3. ASSUME NEW f \in File, r.tree[f] # work[f] PROVE FALSE
  <2>1. PICK p \in RowsFrom(i) : f \in p.files
    BY <1>1, <1>3 DEF NamedInv, TouchedFrom
  <2>2. p \in rows /\ r.id <= p.id /\ p.id \in Nat /\ r.id \in Nat
    BY <2>1, RowNumbers DEF FirstFrom, RowsFrom
  <2>3. r.seq <= p.seq
    <3>1. CASE r.id = p.id
      BY <2>2, <3>1, RowNumbers DEF RowsInv, IdInv
    <3>2. CASE r.id < p.id
      BY <2>2, <3>2, RowNumbers
    <3> QED
      BY <2>2, <3>1, <3>2
  <2>4. p \in RowsFrom(t)
    BY <1>1, <2>2, <2>3, RowNumbers DEF RowsFrom
  <2> QED
    BY <1>2, <1>3, <2>1, <2>4 DEF RestoreInv, TouchedFrom
<1>4. r.tree = work
  <2>1. r.tree \in Workspace /\ work \in Workspace
    BY DEF IInv, TypeOK, Rows
  <2> QED
    BY <1>3, <2>1 DEF Workspace
<1> QED
  BY <1>4 DEF TreeInv

\* What goes is a suffix of the rows, so the first rows of the messages that stay, and the
\* files named between them, are what they were.
LEMMA RecoverDeletes ==
  ASSUME IInv, RecoverInv, DeleteFrom
  PROVE  RecoverInv'
<1> USE DEF RecoverInv, TargetsInv, RowsInv
<1>1. /\ op.at = "delete" /\ turn = "idle" /\ op.target \in DOMAIN msgs
      /\ msgs \in Seq(Message) /\ op'.at = "none" /\ turn' = "idle" /\ work' = work
  BY DEF DeleteFrom, NoOp, IInv, AnchorInv, TypeOK
<1>2. PICK t \in DOMAIN msgs : t = op.target
  BY <1>1
<1>3. rows' = {r \in rows : r.seq < t} /\ t \in 1 .. Len(msgs) /\ Len(msgs) \in Nat
  BY <1>2, RowNumbers DEF DeleteFrom, RemainingRows
<1>4. /\ DOMAIN msgs' = 1 .. t - 1
      /\ \A i \in DOMAIN msgs' :
           /\ i \in DOMAIN msgs /\ i < t /\ i \in Nat
           /\ msgs'[i].before = msgs[i].before /\ msgs'[i].opens = msgs[i].opens
           /\ msgs[i].doubted => msgs'[i].doubted
           /\ CutOff = {} \/ msgs'[i].doubted \/ \E r \in rows' : r.seq >= i
  <2> DEFINE left == RemainingMessages(op.target)
  <2>1. /\ left \in Seq(Message) /\ DOMAIN left = 1 .. t - 1
        /\ \A i \in 1 .. t - 1 : left[i] = msgs[i]
    BY <1>1, <1>2, <1>3, SubSeqProperties DEF RemainingMessages
  <2>2. rows' = RemainingRows(op.target)
        /\ msgs' = IF CutOff = {} THEN left ELSE Doubted(left, rows')
    BY DEF DeleteFrom
  <2> HIDE DEF left
  <2>3. CASE CutOff = {}
    BY <1>3, <2>1, <2>2, <2>3
  <2>4. CASE CutOff # {}
    <3>1. msgs' = Doubted(left, rows')
      BY <2>2, <2>4
    <3>2. /\ DOMAIN msgs' = DOMAIN left
          /\ \A i \in DOMAIN left :
               /\ msgs'[i].before = left[i].before /\ msgs'[i].opens = left[i].opens
               /\ left[i].doubted => msgs'[i].doubted
               /\ msgs'[i].doubted \/ \E r \in rows' : r.seq >= i
      BY <2>1, <3>1, DoubtedFields
    <3> QED
      BY <1>3, <2>1, <3>2
  <2> QED
    BY <2>3, <2>4
<1>5. open' = CutOff
      /\ (CutOff = {} =>
            /\ op.files /\ msgs[t].opens /\ open = {}
            /\ \A r \in RowsFrom(t) : r.covers = {})
  <2>1. open' = CutOff
    BY DEF DeleteFrom
  <2>2. ASSUME CutOff = {} PROVE op.files /\ msgs[t].opens /\ Uncovered(t) = {}
    <3>1. /\ Uncovered(t) = {}
          /\ (IF msgs[t].opens THEN {} ELSE {"cut"}) = {}
          /\ (IF op.files THEN {} ELSE {"fault"}) = {}
      BY <1>2, <2>2 DEF CutOff
    <3>2. {"cut"} # {} /\ {"fault"} # {}
      OBVIOUS
    <3> QED
      BY <3>1, <3>2
  <2>3. Uncovered(t) = {} => open = {} /\ \A r \in RowsFrom(t) : r.covers = {}
    BY DEF Uncovered
  <2> QED
    BY <2>1, <2>2, <2>3
<1>6. /\ \A r \in rows : r.id \in Nat /\ r.seq \in Nat
      /\ \A r, q \in rows : r.id < q.id => r.seq <= q.seq
  BY RowNumbers
<1>7. \A i \in DOMAIN msgs' : (Stays(i)' => Sure(i) /\ Stays(i)) /\ (Sure(i)' => Sure(i))
  <2>1. \A i \in DOMAIN msgs' : Sure(i)' => Sure(i)
    BY <1>4 DEF Sure
  <2>2. \A i \in DOMAIN msgs' : ~Going(i)
    BY <1>2, <1>3, <1>4 DEF Going
  <2> QED
    BY <2>1, <2>2 DEF Stays
<1>8. \A i : RowsFrom(i)' = {r \in RowsFrom(i) : r.seq < t}
  BY <1>3 DEF RowsFrom
<1>9. \A i, r : FirstFrom(i, r)' => FirstFrom(i, r) /\ r.seq < t
  <2>1. ASSUME NEW i, NEW r, FirstFrom(i, r)' PROVE FirstFrom(i, r) /\ r.seq < t
    <3>1. r \in RowsFrom(i) /\ r.seq < t /\ r \in rows
      BY <1>8, <2>1 DEF FirstFrom, RowsFrom
    <3>2. ASSUME NEW q \in RowsFrom(i) PROVE r.id <= q.id
      <4>1. q \in rows
        BY DEF RowsFrom
      <4>2. CASE q.seq < t
        BY <1>8, <2>1, <4>2 DEF FirstFrom
      <4>3. CASE ~(q.seq < t)
        <5>1. ~(q.id < r.id)
          BY <1>3, <1>6, <3>1, <4>1, <4>3
        <5> QED
          BY <1>6, <3>1, <4>1, <5>1
      <4> QED
        BY <4>2, <4>3
    <3> QED
      BY <3>1, <3>2 DEF FirstFrom
  <2> QED
    BY <2>1
<1>10. IdInv'
  BY <1>3 DEF IdInv
<1>11. ChainInv'
  <2>1. ASSUME NEW r \in rows', NEW q \in rows', r.id < q.id, NEW f \in File,
               r.tree[f] # q.tree[f]
        PROVE  \E p \in rows' : r.id < p.id /\ p.id <= q.id /\ f \in p.files
    <3>1. r \in rows /\ q \in rows /\ q.seq < t
      BY <1>3, <2>1
    <3>2. PICK p \in rows : r.id < p.id /\ p.id <= q.id /\ f \in p.files
      BY <2>1, <3>1 DEF ChainInv
    <3>3. p.seq <= q.seq
      <4>1. CASE p.id = q.id
        BY <1>6, <3>1, <4>1 DEF IdInv
      <4>2. CASE p.id < q.id
        BY <1>6, <3>1, <4>2
      <4> QED
        BY <1>6, <3>1, <3>2, <4>1, <4>2
    <3> QED
      BY <1>3, <1>6, <3>1, <3>2, <3>3
  <2> QED
    BY <2>1 DEF ChainInv
<1>12. FreshInv'
  <2>1. ASSUME NEW i \in DOMAIN msgs', Stays(i)', RowsFrom(i)' = {}
        PROVE  msgs'[i].before = work'
    <3>1. CutOff = {}
      <4>1. ~msgs'[i].doubted
        BY <2>1 DEF Stays, Sure
      <4>2. ~\E r \in rows' : r.seq >= i
        BY <2>1 DEF RowsFrom
      <4> QED
        BY <1>4, <4>1, <4>2
    <3>2. Sure(i) /\ Stays(i) /\ i \in DOMAIN msgs /\ i < t /\ i \in Nat
      BY <1>4, <1>7, <2>1
    <3>3. msgs[i].before = work
      <4>1. CASE RowsFrom(i) = {}
        BY <3>2, <4>1 DEF FreshInv
      <4>2. CASE RowsFrom(i) # {}
        <5>1. PICK r \in rows : FirstFrom(i, r)
          BY <4>2, BaseIsFirst
        <5>2. r.seq >= t
          BY <1>3, <1>6, <1>8, <2>1, <5>1 DEF FirstFrom
        <5> QED
          BY <1>1, <1>2, <1>3, <1>5, <3>1, <3>2, <5>1, <5>2, DeletedIsRestored
      <4> QED
        BY <4>1, <4>2
    <3> QED
      BY <1>1, <1>4, <3>3
  <2> QED
    BY <2>1 DEF FreshInv
<1>13. TreeInv'
  <2>1. ASSUME NEW i \in DOMAIN msgs', NEW r \in rows', Sure(i)', FirstFrom(i, r)'
        PROVE  msgs'[i].before = r.tree
    BY <1>3, <1>4, <1>7, <1>9, <2>1 DEF TreeInv
  <2> QED
    BY <2>1 DEF TreeInv
<1>14. NamedInv'
  <2>1. ASSUME CutOff = {}, NEW i \in DOMAIN msgs', NEW r \in rows', Stays(i)',
               FirstFrom(i, r)', NEW f \in File, r.tree[f] # work[f]
        PROVE  TouchedFrom(i, f)'
    <3>1. /\ i \in DOMAIN msgs /\ i < t /\ i \in Nat /\ Sure(i) /\ Stays(i)
          /\ r \in rows /\ FirstFrom(i, r) /\ r.seq < t
      BY <1>3, <1>4, <1>7, <1>9, <2>1
    <3>2. PICK p \in RowsFrom(i) : f \in p.files
      BY <1>1, <1>5, <2>1, <3>1 DEF NamedInv, TouchedFrom
    <3>3. CASE p.seq < t
      BY <1>8, <3>2, <3>3 DEF TouchedFrom
    <3>4. CASE ~(p.seq < t)
      <4>1. p \in RowsFrom(t)
        BY <1>3, <1>6, <3>2, <3>4 DEF RowsFrom
      <4>2. PICK q \in rows : FirstFrom(t, q)
        BY <4>1, BaseIsFirst
      <4>3. TouchedFrom(t, f)
        BY <3>2, <4>1 DEF TouchedFrom
      <4>4. work[f] = q.tree[f]
        BY <1>1, <1>2, <1>5, <2>1, <4>2, <4>3 DEF RestoreInv
      <4>5. q.covers = {} /\ msgs[t].opens
        BY <1>5, <2>1, <4>2 DEF FirstFrom
      <4>6. TouchedBetween(i, t, f)
        BY <2>1, <3>1, <4>2, <4>4, <4>5 DEF OpenerInv
      <4> QED
        BY <1>8, <4>6 DEF TouchedBetween, TouchedFrom
    <3> QED
      BY <3>3, <3>4
  <2> QED
    BY <1>1, <1>5, <2>1 DEF NamedInv
<1>15. OpenerInv'
  <2>1. ASSUME NEW u \in DOMAIN msgs', NEW q \in rows', msgs'[u].opens, FirstFrom(u, q)',
               q.covers = {}, NEW i \in DOMAIN msgs', NEW r \in rows', i < u, Sure(i)',
               FirstFrom(i, r)', r.seq < u, NEW f \in File, r.tree[f] # q.tree[f]
        PROVE  TouchedBetween(i, u, f)'
    <3>1. /\ u \in DOMAIN msgs /\ i \in DOMAIN msgs /\ q \in rows /\ r \in rows
          /\ msgs[u].opens /\ FirstFrom(u, q) /\ Sure(i) /\ FirstFrom(i, r)
          /\ u < t /\ u \in Nat
      BY <1>3, <1>4, <1>7, <1>9, <2>1
    <3>2. PICK p \in RowsFrom(i) : p.seq < u /\ f \in p.files
      BY <2>1, <3>1 DEF OpenerInv, TouchedBetween
    <3>3. p.seq \in Nat
      BY <1>6, <3>2 DEF RowsFrom
    <3>4. p \in RowsFrom(i)'
      BY <1>3, <1>8, <3>1, <3>2, <3>3
    <3> QED
      BY <3>2, <3>4 DEF TouchedBetween
  <2> QED
    BY <2>1 DEF OpenerInv
<1>16. PlaceInv'
  BY <1>1 DEF PlaceInv
<1>17. RestoreInv'
  BY <1>1, NoRollback
<1> QED
  BY <1>10, <1>11, <1>12, <1>13, <1>14, <1>15, <1>16, <1>17

LEMMA RecoverStart == Init => RecoverInv
<1> SUFFICES ASSUME Init PROVE RecoverInv
  OBVIOUS
<1>1. msgs = <<>> /\ rows = {} /\ op.at = "none" /\ turn = "idle" /\ DOMAIN msgs = {}
  BY DEF Init, NoOp
<1>2. RowsInv
  BY <1>1 DEF RowsInv, IdInv, ChainInv
<1>3. TargetsInv
  BY <1>1 DEF TargetsInv, FreshInv, TreeInv, NamedInv, OpenerInv
<1>4. PlaceInv /\ RestoreInv
  BY <1>1 DEF PlaceInv, RestoreInv
<1> QED
  BY <1>2, <1>3, <1>4 DEF RecoverInv

LEMMA RecoverNext == IInv /\ RecoverInv /\ [Next]_vars => RecoverInv'
<1> SUFFICES ASSUME IInv, RecoverInv, [Next]_vars PROVE RecoverInv'
  OBVIOUS
<1>1. CASE UNCHANGED vars
  <2>1. UNCHANGED <<msgs, rows, work, turn, ledger, op, open>>
    BY <1>1 DEF vars
  <2>2. MoreDoubt /\ \A i \in DOMAIN msgs : Stays(i)' => Stays(i)
    BY <2>1 DEF MoreDoubt, Stays, Sure, Going
  <2>3. RowsInv' /\ TargetsInv'
    BY <2>1, <2>2, StillKeeps DEF Closed
  <2>4. \A i : RowsFrom(i)' = RowsFrom(i) /\ Touched(i)' = Touched(i)
    BY <2>1 DEF RowsFrom, Touched
  <2>5. PlaceInv'
    BY <2>1, <2>4 DEF RecoverInv, PlaceInv, Sure
  <2>6. RestoreInv'
    BY <2>1, <2>4, RowsSame DEF RecoverInv, RestoreInv
  <2> QED
    BY <2>3, <2>5, <2>6 DEF RecoverInv
<1>2. CASE Next
  <2>1. CASE BeginTurn \/ Compact \/ ToolReply \/ Consume
    BY <2>1, RecoverInserts
  <2>2. CASE FinalReply
    <3>1. Insert("assistant") \/ UNCHANGED msgs
      BY <2>2 DEF FinalReply
    <3> QED
      BY <2>2, <3>1, RecoverInserts, RecoverStays
  <2>3. CASE EndOfLoop
    <3>1. Insert("assistant") \/ UNCHANGED msgs
      BY <2>3 DEF EndOfLoop
    <3> QED
      BY <2>3, <3>1, RecoverInserts, RecoverStays
  <2>4. CASE ToolReplyLost \/ BatchRowFails \/ ToolsEnd \/ NextRound \/ TailRowFails
    BY <2>4, RecoverStays
  <2>5. CASE BatchRow \/ TailRow
    BY <2>5, RecoverRecords, RecoverStays
  <2>6. CASE ToolWrites \/ UserEdits
    BY <2>6, RecoverWrites
  <2>7. CASE Crash \/ Resolve
    BY <2>7, RecoverCrash, RecoverResolve
  <2>8. CASE Restore \/ RestoreFails
    BY <2>8, RecoverRestore
  <2>9. CASE DeleteFrom
    BY <2>9, RecoverDeletes
  <2> QED
    BY <1>2, <2>1, <2>2, <2>3, <2>4, <2>5, <2>6, <2>7, <2>8, <2>9 DEF Next
<1> QED
  BY <1>1, <1>2

LEMMA RecoverAlways == Spec => [](IInv /\ RecoverInv)
<1>1. Init => IInv /\ RecoverInv
  BY InvInit, RecoverStart
<1>2. (IInv /\ RecoverInv) /\ [Next]_vars => (IInv /\ RecoverInv)'
  BY InvStep, RecoverNext
<1> QED
  BY <1>1, <1>2, PTL DEF Spec


(***************************************************************************)
(* The theorems                                                            *)
(***************************************************************************)
\* Every variable of the rollback keeps its type; in particular the base of a restore
\* is always a whole tree of the workspace.
THEOREM RollbackTypeCorrect == Spec => []TypeOK
<1>1. IInv => TypeOK
  BY DEF IInv
<1> QED
  BY InvInit, InvStep, <1>1, PTL DEF Spec

\* In every behaviour a snapshot row belongs to the very assistant message it was taken
\* for, although seqs are used again after a rollback, whatever fails or crashes.
THEOREM RowsStayAnchored == Spec => []RowsAnchored
<1>1. IInv => RowsAnchored
  BY DEF IInv, AnchorInv
<1> QED
  BY InvInit, InvStep, <1>1, PTL DEF Spec

\* Whatever turns, interrupts, faults, crashes and rollbacks went before: between turns,
\* with nothing of the workspace left in no row, a rollback to a message that is not
\* doubted makes of the workspace, by the rows that are left, exactly what it was when the
\* message was inserted.
THEOREM FilesAreRecovered == Spec => []Recoverable
<1>1. IInv /\ RecoverInv => Recoverable
  <2>1. ASSUME IInv, RecoverInv, Quiet, open = {}, NEW i \in DOMAIN msgs, ~msgs[i].doubted
        PROVE  AfterRollback(i) = msgs[i].before
    <3>1. Sure(i) /\ Stays(i) /\ Closed
      BY <2>1 DEF Quiet, Sure, Stays, Going, Closed
    <3>2. CASE RowsFrom(i) = {}
      BY <2>1, <3>1, <3>2 DEF AfterRollback, RecoverInv, TargetsInv, FreshInv
    <3>3. CASE RowsFrom(i) # {}
      <4>1. PICK r \in rows : FirstFrom(i, r) /\ Base(i) = r.tree
        BY <2>1, <3>3, BaseIsFirst
      <4>2. msgs[i].before = r.tree
        BY <2>1, <3>1, <4>1 DEF RecoverInv, TargetsInv, TreeInv
      <4>3. \A f \in File : r.tree[f] # work[f] => f \in Touched(i)
        BY <2>1, <3>1, <4>1
        DEF RecoverInv, TargetsInv, NamedInv, Closed, TouchedFrom, Touched
      <4>4. r.tree \in Workspace
        BY <2>1 DEF IInv, TypeOK, Rows
      <4>5. Restored(work, r.tree, Touched(i)) = r.tree
        BY <4>3, <4>4 DEF Restored, Workspace
      <4> QED
        BY <3>3, <4>1, <4>2, <4>5 DEF AfterRollback
    <3> QED
      BY <3>2, <3>3
  <2> QED
    BY <2>1 DEF Recoverable, RecoverableUnder
<1> QED
  BY <1>1, RecoverAlways, PTL

\* Messages go only in a rollback, and one of files too deletes no message whose files are
\* not restored already: whatever failed or crashed before and was called again.
THEOREM NothingGoesUnrestored == Spec => RestoredBeforeDeleted
<1>1. IInv /\ RecoverInv /\ [Next]_vars
        => (Len(msgs') < Len(msgs) /\ op.files /\ open = {} /\ ~msgs[op.target].doubted
              => work' = msgs[op.target].before)
  <2> SUFFICES ASSUME IInv, RecoverInv, [Next]_vars, Len(msgs') < Len(msgs), op.files,
                      open = {}, ~msgs[op.target].doubted
               PROVE  work' = msgs[op.target].before
    OBVIOUS
  <2>1. msgs \in Seq(Message) /\ Len(msgs) \in Nat
    BY DEF IInv, TypeOK
  <2>2. DeleteFrom
    <3>1. ASSUME NEW kind \in {"user", "assistant", "compaction"}, Insert(kind) PROVE FALSE
      BY <2>1, <3>1, InsertType DEF IInv
    <3>2. ASSUME UNCHANGED msgs PROVE FALSE
      BY <2>1, <3>2
    <3>3. ASSUME \/ msgs' = Doubted(msgs, rows)
                 \/ /\ msgs' = [i \in DOMAIN msgs |-> msgs'[i]]
                    /\ \A i \in DOMAIN msgs : \/ msgs'[i] = msgs[i]
                                              \/ msgs'[i] = [msgs[i] EXCEPT !.doubted = TRUE]
          PROVE  FALSE
      BY <2>1, <3>3, DoubtType DEF Doubted
    <3>4. \/ UNCHANGED msgs \/ DeleteFrom
          \/ \E kind \in {"user", "assistant", "compaction"} : Insert(kind)
          \/ msgs' = Doubted(msgs, rows)
          \/ Crash \/ RestoreFails
      BY DEF vars, Next, BeginTurn, Compact, ToolReply, ToolReplyLost, BatchRow, BatchRowFails,
             ToolWrites, ToolsEnd, FinalReply, Consume, NextRound, EndOfLoop, TailRow,
             TailRowFails, UserEdits, Resolve, Restore
    <3>5. ASSUME Crash \/ RestoreFails
          PROVE  /\ msgs' = [i \in DOMAIN msgs |-> msgs'[i]]
                 /\ \A i \in DOMAIN msgs : \/ msgs'[i] = msgs[i]
                                           \/ msgs'[i] = [msgs[i] EXCEPT !.doubted = TRUE]
      BY <3>5 DEF Crash, RestoreFails
    <3> QED
      BY <3>1, <3>2, <3>3, <3>4, <3>5
  <2>3. op.at = "delete" /\ turn = "idle" /\ op.target \in DOMAIN msgs /\ work' = work
    BY <2>2 DEF DeleteFrom, IInv, AnchorInv
  <2>4. PICK t \in DOMAIN msgs : t = op.target
    BY <2>3
  <2>5. t \in Nat /\ Sure(t) /\ Stays(t)
    BY <2>4, RowNumbers DEF Sure, Stays, Going
  <2>6. CASE RowsFrom(t) = {}
    BY <2>3, <2>4, <2>5, <2>6 DEF RecoverInv, TargetsInv, FreshInv
  <2>7. CASE RowsFrom(t) # {}
    <3>1. PICK r \in rows : FirstFrom(t, r)
      BY <2>7, BaseIsFirst
    <3>2. r.seq >= t
      BY <3>1 DEF FirstFrom, RowsFrom
    <3> QED
      BY <2>3, <2>4, <2>5, <3>1, <3>2, DeletedIsRestored
  <2> QED
    BY <2>6, <2>7
<1> QED
  BY <1>1, RecoverAlways, PTL DEF RestoredBeforeDeleted, Spec
=============================================================================
