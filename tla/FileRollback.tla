---------------------------- MODULE FileRollback ----------------------------
(***************************************************************************)
(* The file side of a rollback.  A turn writes its messages and, through   *)
(* the shadow repository, snapshot rows: one before each batch of tools    *)
(* and one at the end of a turn that had such a batch.  A row holds the    *)
(* tree of the workspace and the files that changed since the row before.  *)
(* A rollback to a message restores the files named by the rows at or after *)
(* it to the tree of the first of them, then deletes messages and rows.    *)
(*                                                                         *)
(* One session in one workspace.  Tool results take no part: a message is  *)
(* a user message, a compaction or an assistant message, and its seq is its *)
(* place in the history.                                                   *)
(***************************************************************************)
EXTENDS Naturals, Sequences

CONSTANTS
  File,          \* the files of the workspace
  Content,       \* what a file may hold, its absence included
  FaultKinds,    \* what may go wrong: "reply", "snapshot", "restore", "crash", "edit"
  KeepsFiles,    \* whether message-only rollbacks happen
  MaxMessages,   \* bound: messages ever inserted
  MaxWrites,     \* bound: writes of files by tools
  MaxFaults,     \* bound: faults
  MaxRollbacks   \* bound: rollbacks begun

ASSUME BoundsAssumption ==
  /\ MaxMessages \in Nat /\ MaxWrites \in Nat /\ MaxFaults \in Nat /\ MaxRollbacks \in Nat
  /\ KeepsFiles \in BOOLEAN

VARIABLES
  msgs,     \* the history: kind, uid, the workspace when it was inserted, a doubt
  rows,     \* the snapshot rows of the session
  work,     \* the workspace
  turn,     \* where the turn is
  ledger,   \* the turn's ledger: the last saved assistant message, a batch was tracked
  op,       \* the rollback under way
  open,     \* why changes of the workspace may be in no row yet
  count     \* messages, rows, writes, faults and rollbacks so far

vars == <<msgs, rows, work, turn, ledger, op, open, count>>

Workspace == [File -> Content]
Counters == {"messages", "rows", "writes", "faults", "rollbacks"}
NoAnchor == 0
NoOp == [at |-> "none", target |-> 0, files |-> FALSE, base |-> <<>>, touched |-> {}]

Diff(before, after) == {f \in File : before[f] # after[f]}
Counted(what) == count' = [count EXCEPT ![what] = @ + 1]
MayFault(kind) == kind \in FaultKinds /\ count["faults"] < MaxFaults

\* Before the first call of the model in a turn.
Opening == turn \in {"idle", "begin"}

(* Messages and rows -------------------------------------------------------*)

\* A message gets the seq MAX + 1: seqs are contiguous and a rollback makes them
\* available again.  uid tells a message from another with the same seq.
Insert(kind) ==
  /\ count["messages"] < MaxMessages
  /\ msgs' = Append(msgs, [kind |-> kind, uid |-> count["messages"] + 1, before |-> work,
                           opens |-> Opening, doubted |-> FALSE])
  /\ Counted("messages")

\* Rows are read in the order of seq and, for one seq, of id.
UpTo(r, q) == r.seq < q.seq \/ (r.seq = q.seq /\ r.id <= q.id)
FirstRow(some) == CHOOSE r \in some : \A q \in some : UpTo(r, q)
LatestRow == CHOOSE r \in rows : \A q \in rows : UpTo(q, r)
RowsFrom(target) == {r \in rows : r.seq >= target}

\* A row is anchored to a saved assistant message; its files are the difference to
\* the latest remaining row, none for the first.  Ids are not used again.
Row(seq) ==
  [id |-> count["rows"] + 1, seq |-> seq, uid |-> msgs[seq].uid, tree |-> work, covers |-> open,
   files |-> IF rows = {} THEN {} ELSE Diff(LatestRow.tree, work)]

Record(seq) ==
  /\ rows' = rows \cup {Row(seq)}
  /\ Counted("rows")
  /\ open' = {}

\* The messages no remaining row is at or after: the next row is the first at or after
\* them, and its tree is not the workspace they were inserted into.
Doubted(history, remaining) ==
  [i \in DOMAIN history |->
     IF \E r \in remaining : r.seq >= i THEN history[i]
     ELSE [history[i] EXCEPT !.doubted = TRUE]]

Init ==
  /\ msgs = <<>>
  /\ rows = {}
  /\ work \in Workspace
  /\ turn = "idle"
  /\ ledger = [anchor |-> NoAnchor, tracked |-> FALSE]
  /\ op = NoOp
  /\ open = {}
  /\ count = [k \in Counters |-> 0]

(* The turn ----------------------------------------------------------------*)

\* Mutant: the ledger of the turn before is kept.
BeginTurnWithOldLedger ==
  /\ Opening
  /\ op.at = "none"
  /\ Insert("user")
  /\ turn' = "begin"
  /\ UNCHANGED <<rows, work, ledger, op, open>>

\* A batch of user messages begins a turn.
BeginTurn ==
  /\ Opening
  /\ op.at = "none"
  /\ Insert("user")
  /\ turn' = "begin"
  /\ ledger' = [anchor |-> NoAnchor, tracked |-> FALSE]
  /\ UNCHANGED <<rows, work, op, open>>

\* A compaction before a turn, or on command in the batch that begins it.
Compact ==
  /\ Opening
  /\ op.at = "none"
  /\ msgs # <<>>
  /\ Insert("compaction")
  /\ UNCHANGED <<rows, work, turn, ledger, op, open>>

\* The model asks for tools and the message is saved.
ToolReply ==
  /\ turn = "reply"
  /\ Insert("assistant")
  /\ turn' = "snapshot"
  /\ ledger' = [ledger EXCEPT !.anchor = Len(msgs) + 1]
  /\ UNCHANGED <<rows, work, op, open>>

\* The message of a batch is blocked by a hook or not saved: the batch has no anchor,
\* no snapshot is taken and the tools run all the same.
ToolReplyLost ==
  /\ turn = "reply"
  /\ MayFault("reply")
  /\ Counted("faults")
  /\ turn' = "tools"
  /\ msgs' = Doubted(msgs, rows)
  /\ open' = open \cup {"fault"}
  /\ UNCHANGED <<rows, work, ledger, op>>

\* The snapshot before the tools.  The batch counts as tracked whether or not the row
\* could be written.
BatchRow ==
  /\ turn = "snapshot"
  /\ turn' = "tools"
  /\ ledger' = [ledger EXCEPT !.tracked = TRUE]
  /\ Record(ledger.anchor)
  /\ UNCHANGED <<msgs, work, op>>

BatchRowFails ==
  /\ turn = "snapshot"
  /\ MayFault("snapshot")
  /\ Counted("faults")
  /\ turn' = "tools"
  /\ ledger' = [ledger EXCEPT !.tracked = TRUE]
  /\ msgs' = Doubted(msgs, rows)
  /\ open' = open \cup {"fault"}
  /\ UNCHANGED <<rows, work, op>>

ToolWrites ==
  /\ turn = "tools"
  /\ count["writes"] < MaxWrites
  /\ Counted("writes")
  /\ \E f \in File : \E c \in Content \ {work[f]} :
       /\ work' = [work EXCEPT ![f] = c]
  /\ UNCHANGED <<msgs, rows, turn, ledger, op, open>>

ToolsEnd ==
  /\ turn = "tools"
  /\ turn' = "batch"
  /\ UNCHANGED <<msgs, rows, work, ledger, op, open, count>>

\* The final reply; the anchor stays where it was when the message is not saved.
FinalReply ==
  /\ turn = "reply"
  /\ turn' = "final"
  /\ \/ /\ Insert("assistant")
        /\ ledger' = [ledger EXCEPT !.anchor = Len(msgs) + 1]
     \/ /\ MayFault("reply")
        /\ Counted("faults")
        /\ UNCHANGED <<msgs, ledger>>
  /\ UNCHANGED <<rows, work, op, open>>

\* What was queued meanwhile is consumed after a batch and after a final reply: user
\* messages and a compaction on command enter the history in mid-turn.
Consume ==
  /\ turn \in {"batch", "final"}
  /\ \/ Insert("user") /\ turn' = "batch"
     \/ Insert("compaction") /\ UNCHANGED turn
  /\ UNCHANGED <<rows, work, ledger, op, open>>

NextRound ==
  /\ turn \in {"begin", "batch"}
  /\ turn' = "reply"
  /\ UNCHANGED <<msgs, rows, work, ledger, op, open, count>>

\* The end of the turn: after the final reply, at an interrupt or at a failed call.  An
\* interrupted reply is saved as far as it went; the ledger does not learn of it.
EndOfLoop ==
  /\ turn \in {"final", "reply", "tools"}
  /\ turn' = "closing"
  /\ \/ UNCHANGED <<msgs, count>>
     \/ turn = "reply" /\ Insert("assistant")
  /\ UNCHANGED <<rows, work, ledger, op, open>>

\* Mutant: no row at the end of a turn.
NoTailDue == FALSE

TailDue == ledger.tracked /\ ledger.anchor # NoAnchor

\* The row at the end of a turn whose tools ran after a snapshot.
TailRow ==
  /\ turn = "closing"
  /\ turn' = "idle"
  /\ IF TailDue THEN Record(ledger.anchor) ELSE UNCHANGED <<rows, open, count>>
  /\ UNCHANGED <<msgs, work, ledger, op>>

TailRowFails ==
  /\ turn = "closing"
  /\ TailDue
  /\ MayFault("snapshot")
  /\ Counted("faults")
  /\ turn' = "idle"
  /\ open' = open \cup {"fault"}
  /\ UNCHANGED <<msgs, rows, work, ledger, op>>

(* Outside the turn --------------------------------------------------------*)

\* The user writes a file between two turns.
UserEdits ==
  /\ turn = "idle"
  /\ op.at = "none"
  /\ MayFault("edit")
  /\ Counted("faults")
  /\ \E f \in File : \E c \in Content \ {work[f]} :
       /\ work' = [work EXCEPT ![f] = c]
  /\ msgs' = Doubted(msgs, rows)
  /\ open' = open \cup {"fault"}
  /\ UNCHANGED <<rows, turn, ledger, op>>

\* The process ends: a turn under way loses its last row, a rollback its second half.
Crash ==
  /\ turn # "idle" \/ op.at # "none"
  /\ MayFault("crash")
  /\ Counted("faults")
  /\ turn' = "idle"
  /\ op' = NoOp
  /\ open' = IF turn = "idle" THEN open ELSE open \cup {"fault"}
  /\ msgs' = [i \in DOMAIN msgs |->
                IF op.at = "delete" /\ op.files /\ i > op.target
                THEN [msgs[i] EXCEPT !.doubted = TRUE] ELSE msgs[i]]
  /\ UNCHANGED <<rows, work, ledger>>

(* The rollback ------------------------------------------------------------*)

CutTarget(i) == i \in DOMAIN msgs /\ msgs[i].kind \in {"user", "compaction"}

Base(target) == FirstRow(RowsFrom(target)).tree
Touched(target) == UNION {r.files : r \in RowsFrom(target)}

\* What a restore makes of a workspace: the touched files get the content they have in
\* the base tree, or are deleted when it has none; the others stay.
Restored(from, base, touched) == [f \in File |-> IF f \in touched THEN base[f] ELSE from[f]]

\* The target is checked and the rows from it on are read: without any, or in a
\* rollback of messages only, the files are left alone.  The caller stopped the turn
\* before.
Resolve ==
  /\ turn = "idle"
  /\ op.at = "none"
  /\ count["rollbacks"] < MaxRollbacks
  /\ Counted("rollbacks")
  /\ \E target \in 1 .. Len(msgs), files \in {TRUE, ~KeepsFiles} :
       /\ CutTarget(target)
       /\ LET found == RowsFrom(target) # {} IN
          op' = IF files /\ found
                THEN [at |-> "restore", target |-> target, files |-> TRUE, base |-> Base(target),
                      touched |-> Touched(target)]
                ELSE [NoOp EXCEPT !.at = "delete", !.target = target, !.files = files]
  /\ UNCHANGED <<msgs, rows, work, turn, ledger, open>>

Restore ==
  /\ op.at = "restore"
  /\ work' = Restored(work, op.base, op.touched)
  /\ op' = [op EXCEPT !.at = "delete"]
  /\ UNCHANGED <<msgs, rows, turn, ledger, open, count>>

\* Mutant: a failed restore is logged and the rollback goes on.
RestoreFailsOnward ==
  /\ op.at = "restore"
  /\ MayFault("restore")
  /\ Counted("faults")
  /\ \E done \in SUBSET op.touched : work' = Restored(work, op.base, done)
  /\ op' = [op EXCEPT !.at = "delete"]
  /\ UNCHANGED <<msgs, rows, turn, ledger, open>>

\* The restore stops after some of the files: the rollback ends, the database is as
\* it was and the call may be repeated.
RestoreFails ==
  /\ op.at = "restore"
  /\ MayFault("restore")
  /\ Counted("faults")
  /\ \E done \in SUBSET op.touched : work' = Restored(work, op.base, done)
  /\ op' = NoOp
  /\ msgs' = [i \in DOMAIN msgs |->
                IF i > op.target THEN [msgs[i] EXCEPT !.doubted = TRUE] ELSE msgs[i]]
  /\ UNCHANGED <<rows, turn, ledger, open>>

\* Mutant: the rows are left when the messages go.
AllRows(target) == rows

\* Messages and rows go in one transaction, by the same comparison.
RemainingRows(target) == {r \in rows : r.seq < target}
RemainingMessages(target) == SubSeq(msgs, 1, target - 1)

\* What was covered by the rows that go is uncovered again.
Uncovered(target) == open \cup UNION {r.covers : r \in RowsFrom(target)}

\* Why changes made before the target may be in no remaining row: it entered in
\* mid-turn, or the files were kept.
CutOff ==
  Uncovered(op.target)
    \cup (IF msgs[op.target].opens THEN {} ELSE {"cut"})
    \cup (IF op.files THEN {} ELSE {"fault"})

DeleteFrom ==
  /\ op.at = "delete"
  /\ rows' = RemainingRows(op.target)
  /\ msgs' = LET left == RemainingMessages(op.target) IN
             IF CutOff = {} THEN left ELSE Doubted(left, RemainingRows(op.target))
  /\ open' = CutOff
  /\ op' = NoOp
  /\ UNCHANGED <<work, turn, ledger, count>>

Next ==
  \/ BeginTurn \/ Compact \/ ToolReply \/ ToolReplyLost \/ BatchRow \/ BatchRowFails
  \/ ToolWrites \/ ToolsEnd \/ FinalReply \/ Consume \/ NextRound \/ EndOfLoop
  \/ TailRow \/ TailRowFails \/ UserEdits \/ Crash
  \/ Resolve \/ Restore \/ RestoreFails \/ DeleteFrom

Spec == Init /\ [][Next]_vars

(* Properties --------------------------------------------------------------*)

Message ==
  [kind : {"user", "assistant", "compaction"}, uid : 1 .. MaxMessages, before : Workspace,
   opens : BOOLEAN, doubted : BOOLEAN]
Rows ==
  [id : Nat, seq : Nat, uid : 1 .. MaxMessages, tree : Workspace,
   covers : SUBSET {"fault", "cut"}, files : SUBSET File]

\* Every variable has its type.
TypeOK ==
  /\ msgs \in Seq(Message)
  /\ rows \subseteq Rows
  /\ work \in Workspace
  /\ turn \in {"idle", "begin", "reply", "snapshot", "tools", "batch", "final", "closing"}
  /\ ledger \in [anchor : Nat, tracked : BOOLEAN]
  /\ op \in [at : {"none", "restore", "delete"}, target : Nat, files : BOOLEAN,
             base : Workspace \cup {<<>>}, touched : SUBSET File]
  /\ op.at = "restore" => op.base \in Workspace
  /\ open \subseteq {"fault", "cut"}
  /\ count \in [Counters -> Nat]

\* Messages and rows live and die together (turn.rs, record_snapshot_row): although a
\* seq is used again after a rollback, a row always belongs to the very assistant
\* message it was taken for, and the rows are in the order of the messages.
RowsAnchored ==
  /\ \A r \in rows :
       /\ r.seq \in DOMAIN msgs
       /\ msgs[r.seq].kind = "assistant"
       /\ msgs[r.seq].uid = r.uid
  /\ \A r, q \in rows : r.id < q.id => r.seq <= q.seq

\* Why RowsAnchored holds: ids of rows are never used again, messages go only between
\* turns, from a target that exists, and the anchor of a turn is an assistant message
\* at or after all rows there are.
AnchorInv ==
  /\ RowsAnchored
  /\ \A r \in rows : r.id <= count["rows"]
  /\ op.at # "none" => turn = "idle" /\ op.target \in DOMAIN msgs
  /\ turn = "snapshot" => ledger.anchor # NoAnchor
  /\ turn # "idle" /\ ledger.anchor # NoAnchor =>
       /\ ledger.anchor \in DOMAIN msgs /\ msgs[ledger.anchor].kind = "assistant"
       /\ \A r \in rows : r.seq <= ledger.anchor

Quiet == turn = "idle" /\ op.at = "none"

\* What a rollback to the target makes of the workspace.
AfterRollback(target) ==
  IF RowsFrom(target) = {} THEN work ELSE Restored(work, Base(target), Touched(target))

RecoverableUnder(reasons) ==
  Quiet /\ open \subseteq reasons =>
    \A i \in DOMAIN msgs : CutTarget(i) /\ ~msgs[i].doubted =>
                              AfterRollback(i) = msgs[i].before

\* Between turns, whatever turns, interrupts, crashes and rollbacks went before: a
\* rollback brings the workspace back to what it was when the target was inserted, for
\* every target not doubted and as soon as a row was written after the last fault.
Recoverable == RecoverableUnder({})

\* "with true the files are rolled back with the messages" (session_manager.rs:257), in
\* particular to a target earlier than that of a rollback before.
RecoverableAfterCut == RecoverableUnder({"cut"})

\* A rollback that failed, or was cut off by a crash, may be called again
\* (session_manager.rs, rollback_session): as long as nothing is deleted, no message is
\* gone without its files being restored.
RestoredBeforeDeleted ==
  [][Len(msgs') < Len(msgs) /\ op.files /\ open = {} /\ ~msgs[op.target].doubted
       => work' = msgs[op.target].before]_vars
=============================================================================
