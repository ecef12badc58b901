------------------------------- MODULE TodoList ------------------------------
(* The task list of a session: the tool todowrite (fuyao-tools todo) over the *)
(* table todos (fuyao-session store/todo.rs).  A call replaces the whole list *)
(* in one transaction and answers with what it reads back; a call may be cut  *)
(* short by an interrupt at each await, and the session may be deleted, its   *)
(* parent's deletion included, while the call is under way.                   *)
(*                                                                            *)
(* An item is an id, a content and a status; 0 stands for a blank id or       *)
(* content, "odd" for a status that is none of the four.                      *)
(*                                                                            *)
(* Bounds: MaxItems (TODO_MAX_ITEMS), MaxCalls calls.                         *)
EXTENDS Integers, Sequences

CONSTANTS
  Session, Parent,  \* the sessions; Parent[s] is s's parent, or s itself
  Item,             \* what items a model submits
  MaxItems, MaxCalls

VARIABLES
  table,   \* per session its rows, in sort_order
  tx,      \* the connection: the call that writes, and the rows it has written
  calls,   \* per session its call: [step, list, answer]
  sent,    \* per session the lists its calls submitted
  count

vars == <<table, tx, calls, sent, count>>

Statuses == {"pending", "in_progress", "completed", "cancelled"}
NoTx == [by |-> "", rows |-> << >>]
NoCall == [step |-> "none", list |-> << >>, answer |-> << >>]

TypeOK ==
  /\ DOMAIN table = Session
  /\ tx.by \in Session \cup {""}
  /\ \A s \in Session : /\ calls[s].step \in {"none", "write", "read", "answered", "failed"}
                        /\ \A i \in DOMAIN table[s] : table[s][i].status \in Statuses
  /\ count \in 0 .. MaxCalls

Init ==
  /\ table = [s \in Session |-> << >>]
  /\ tx = NoTx
  /\ calls = [s \in Session |-> NoCall]
  /\ sent = [s \in Session |-> {<< >>}]
  /\ count = 0

Idle(s) == calls[s].step \in {"none", "answered", "failed"}
Blank(item) == item.id = 0 \/ item.content = 0
\* a status that is none of the four, or missing, becomes pending
Status(item) == IF item.status \in Statuses THEN item.status ELSE "pending"
Cleaned(list) == [i \in DOMAIN list |-> [list[i] EXCEPT !.status = Status(list[i])]]
Set(s, call) == calls' = [calls EXCEPT ![s] = call]

\* an item without id or content, or too many items: the whole list is refused
Accepted(list) == Len(list) <= MaxItems /\ \A i \in DOMAIN list : ~Blank(list[i])

Submit(s, list) ==
  /\ Idle(s) /\ count < MaxCalls
  /\ count' = count + 1
  /\ IF Accepted(list)
     THEN /\ Set(s, [NoCall EXCEPT !.step = "write", !.list = Cleaned(list)])
          /\ sent' = [sent EXCEPT ![s] = @ \cup {Cleaned(list)}]
     ELSE Set(s, [NoCall EXCEPT !.step = "failed"]) /\ UNCHANGED sent
  /\ UNCHANGED <<table, tx>>

Ask(s) ==
  /\ Idle(s) /\ count < MaxCalls
  /\ count' = count + 1
  /\ Set(s, [NoCall EXCEPT !.step = "read"])
  /\ UNCHANGED <<table, tx, sent>>

\* the transaction: the old rows go, the new ones come one by one
BeginWrite(s) ==
  /\ calls[s].step = "write" /\ tx = NoTx
  /\ tx' = [by |-> s, rows |-> << >>]
  /\ UNCHANGED <<table, calls, sent, count>>

Written == Len(tx.rows)
Taken(id) == \E i \in DOMAIN tx.rows : tx.rows[i].id = id

InsertRow ==
  /\ tx # NoTx /\ Written < Len(calls[tx.by].list)
  /\ ~Taken(calls[tx.by].list[Written + 1].id)
  /\ tx' = [tx EXCEPT !.rows = Append(@, calls[tx.by].list[Written + 1])]
  /\ UNCHANGED <<table, calls, sent, count>>

\* Mutant: the rows go in one by one, each in a transaction of its own.
RollbackKeeping == table' = [table EXCEPT ![tx.by] = tx.rows]

\* nothing of a transaction that is not committed stays
RolledBack == UNCHANGED table

\* the primary key is the session and the id: a list that has an id twice is not written
InsertFails ==
  /\ tx # NoTx /\ Written < Len(calls[tx.by].list)
  /\ Set(tx.by, [NoCall EXCEPT !.step = "failed"])
  /\ RolledBack
  /\ tx' = NoTx
  /\ UNCHANGED <<sent, count>>

Commit ==
  /\ tx # NoTx /\ Written = Len(calls[tx.by].list)
  /\ table' = [table EXCEPT ![tx.by] = tx.rows]
  /\ Set(tx.by, [calls[tx.by] EXCEPT !.step = "read"])
  /\ tx' = NoTx
  /\ UNCHANGED <<sent, count>>

\* the list is read back outside the transaction
ReadBack(s) ==
  /\ calls[s].step = "read"
  /\ Set(s, [calls[s] EXCEPT !.step = "answered", !.answer = table[s]])
  /\ UNCHANGED <<table, tx, sent, count>>

\* an interrupt drops the call where it waits, its transaction with it
Interrupted(s) ==
  /\ calls[s].step \in {"write", "read"}
  /\ Set(s, NoCall)
  /\ IF tx.by = s THEN RolledBack /\ tx' = NoTx ELSE UNCHANGED <<table, tx>>
  /\ UNCHANGED <<sent, count>>

\* delete_todos_in_tx: the session's rows and its children's
DeleteSession(s) ==
  /\ tx = NoTx /\ \E u \in Session : table[u] # << >>
  /\ table' = [u \in Session |-> IF u = s \/ Parent[u] = s THEN << >> ELSE table[u]]
  /\ UNCHANGED <<tx, calls, sent, count>>

Lists == UNION {[1 .. n -> Item] : n \in 0 .. MaxItems + 1}

Next ==
  \/ InsertRow \/ InsertFails \/ Commit
  \/ \E s \in Session : \/ \E list \in Lists : Submit(s, list)
                        \/ Ask(s) \/ BeginWrite(s) \/ ReadBack(s) \/ Interrupted(s) \/ DeleteSession(s)

Spec == Init /\ [][Next]_vars

(* Properties ----------------------------------------------------------------*)

\* What a session's table holds, and what a call answers, is a whole list that a call
\* of this session submitted, or nothing.
ListsAreWhole ==
  \A s \in Session : table[s] \in sent[s] /\ calls[s].answer \in sent[s]

\* An id is in a list once.
IdsAreUnique ==
  \A s \in Session : \A i, j \in DOMAIN table[s] : table[s][i].id = table[s][j].id => i = j
==============================================================================
