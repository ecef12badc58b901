---------------------------- MODULE SessionStore ----------------------------
(***************************************************************************)
(* The tables of the session store: sessions, messages, todos and file     *)
(* snapshots, and the calls that change them, each of which is one         *)
(* transaction.  A call that fails (an error of the database, a busy lock) *)
(* changes nothing.                                                        *)
(*                                                                         *)
(* Messages are keyed by session and seq.  Of a message the model keeps    *)
(* what the store computes with: role and kind, a compaction being the     *)
(* role "summary".  Every assistant message costs one token.               *)
(*                                                                         *)
(* Tasks of the engine write to the store while the application deletes,   *)
(* forks and rolls back; only messages refer to their session by a foreign *)
(* key.  A client pages through the history of a session meanwhile.        *)
(***************************************************************************)
EXTENDS Naturals, FiniteSets

CONSTANTS
  Sid,        \* ids of sessions; an id is given to one session only
  NoSid,      \* no session: the parent of a main session, the reader at rest
  PageSize,   \* messages of a page
  MaxRows,    \* bound: messages of a session
  MaxWrites   \* bound: messages and compactions written by tasks, all in all

ASSUME StoreAssumption ==
  NoSid \notin Sid /\ PageSize \in Nat \ {0} /\ MaxRows \in Nat /\ MaxWrites \in Nat

VARIABLES
  stored,   \* the sessions that have a row
  given,    \* the ids given to sessions so far
  parent,   \* column parent_session_id: written once, never updated
  meta,     \* the columns the store computes
  rows,     \* the messages of each session: a function from seqs to roles
  todos,    \* the sessions that have rows in todos
  snaps,    \* the msg_seq of each session's rows in file_snapshots
  live,     \* whether the engine runs a task for the session
  anchor,   \* the seq of the assistant message the task saved last in its turn
  reader,   \* a client paging through a history
  refunded, \* history: the tokens of the messages rollbacks have deleted
  torn,     \* history: the sessions deleted while the engine ran or loaded them
  writes    \* counter for MaxWrites

tables == <<stored, given, parent, meta, rows, todos, snaps>>
tasks == <<live, anchor>>
vars == <<tables, tasks, reader, refunded, torn, writes>>

Role == {"user", "assistant", "tool", "summary"}
NoSeq == 0
NoMessages == [q \in {} |-> "user"]
NewMeta == [messages |-> 0, tools |-> 0, spent |-> 0, compressions |-> 0, last |-> NoSeq]
NoReader == [sid |-> NoSid, top |-> 0, cursor |-> 0, shown |-> {}, items |-> 0, more |-> FALSE]

(* What the queries compute ------------------------------------------------*)
Seqs(f, role) == {q \in DOMAIN f : f[q] = role}

\* COALESCE(MAX(seq), 0)
Top(S) == IF S = {} THEN NoSeq ELSE CHOOSE q \in S : \A p \in S : p <= q

Messages(f) == Cardinality(DOMAIN f \ Seqs(f, "summary"))
Tools(f) == Cardinality(Seqs(f, "tool"))
Tokens(f) == Cardinality(Seqs(f, "assistant"))

\* The rows of f with a seq in S: the rest of a deletion.
Rest(f, S) == [q \in DOMAIN f \cap S |-> f[q]]

RowNumber(S, q) == Cardinality({p \in S : p <= q})
\* The same rows copied, in their order, to seqs from 1 on.
Copy(f, S) ==
  LET D == DOMAIN f \cap S
  IN  [n \in 1..Cardinality(D) |-> f[CHOOSE q \in D : RowNumber(D, q) = n]]

Below(t) == 1..(t - 1)
\* From the latest compaction on: what a model is shown.
Window(f) == {q \in DOMAIN f : q >= Top(Seqs(f, "summary"))}

CutTarget(f) == Seqs(f, "user") \cup Seqs(f, "summary")

\* The counts of both forks; a fork of the window leaves the rest as in a new session.
CopiedCounts(f) ==
  [NewMeta EXCEPT !.messages = Messages(f), !.tools = Tools(f), !.spent = Tokens(f)]
Boundary(m, f) ==
  [m EXCEPT !.compressions = Cardinality(Seqs(f, "summary")), !.last = Top(Seqs(f, "summary"))]
\* Mutant: the compaction columns are left as they were.
RecountOnly(m, f) == [m EXCEPT !.messages = Messages(f), !.tools = Tools(f)]
\* Mutant: the ledger is computed anew as well.
RecountAll(m, f) == Boundary(CopiedCounts(f), f)
\* The columns a rollback computes anew; what was spent stays spent.
Recount(m, f) == Boundary([m EXCEPT !.messages = Messages(f), !.tools = Tools(f)], f)
-----------------------------------------------------------------------------
Init ==
  /\ stored = {} /\ given = {} /\ parent = [s \in Sid |-> NoSid]
  /\ meta = [s \in Sid |-> NewMeta] /\ rows = [s \in Sid |-> NoMessages]
  /\ todos = {} /\ snaps = [s \in Sid |-> {}]
  /\ live = [s \in Sid |-> "off"] /\ anchor = [s \in Sid |-> NoSeq]
  /\ reader = NoReader
  /\ refunded = [s \in Sid |-> 0] /\ torn = {} /\ writes = 0

\* insert_session_row_with_retry: an id nobody has, tried until there is one.
NewSession(n, p, f, m) ==
  /\ n \in Sid \ given
  /\ given' = given \cup {n} /\ stored' = stored \cup {n}
  /\ parent' = [parent EXCEPT ![n] = p]
  /\ rows' = [rows EXCEPT ![n] = f] /\ meta' = [meta EXCEPT ![n] = m]
  /\ UNCHANGED <<todos, snaps, reader, refunded, torn, writes>>

\* The engine stores or loads a session and then, after an await, mounts its task.
Loading(s) == live' = [live EXCEPT ![s] = "loading"] /\ UNCHANGED anchor

CreateSession(n) == NewSession(n, NoSid, NoMessages, NewMeta) /\ Loading(n)

Resume(s) ==
  /\ s \in stored /\ live[s] = "off" /\ Loading(s)
  /\ UNCHANGED <<tables, reader, refunded, torn, writes>>

Mount(s) ==
  /\ live[s] = "loading" /\ live' = [live EXCEPT ![s] = "on"]
  /\ UNCHANGED <<tables, anchor, reader, refunded, torn, writes>>

\* A session is destroyed, or the process dies.
Leave(S) ==
  /\ \E s \in S : live[s] # "off"
  /\ live' = [s \in Sid |-> IF s \in S THEN "off" ELSE live[s]]
  /\ anchor' = [s \in Sid |-> IF s \in S THEN NoSeq ELSE anchor[s]]
  /\ UNCHANGED <<tables, reader, refunded, torn, writes>>

\* The subagent tool.  It looks its session up in the table of the engine, not in
\* the store, and is not offered to child sessions.
HasSubagentTool(p) == live[p] = "on" /\ parent[p] = NoSid

CreateChild(p, n) ==
  /\ HasSubagentTool(p)
  /\ NewSession(n, p, NoMessages, NewMeta) /\ Loading(n)

\* A child that starts with what the model of session s is shown.
ForkVisible(p, s, n) ==
  /\ HasSubagentTool(p) /\ s \in stored
  /\ LET f == Copy(rows[s], Window(rows[s]))
     IN  NewSession(n, p, f, CopiedCounts(f)) /\ Loading(n)

ForkTo(s, t, n) ==
  /\ s \in stored /\ t \in CutTarget(rows[s])
  /\ LET f == Copy(rows[s], Below(t))
     IN  NewSession(n, NoSid, f, Boundary(CopiedCounts(f), f))
  /\ UNCHANGED tasks
-----------------------------------------------------------------------------
(* What tasks write --------------------------------------------------------*)

NextSeq(s) == Top(DOMAIN rows[s]) + 1

Appended(s, role) ==
  /\ writes < MaxWrites /\ NextSeq(s) <= MaxRows
  /\ writes' = writes + 1
  /\ rows' = [rows EXCEPT ![s] = [q \in DOMAIN @ \cup {NextSeq(s)} |->
                                    IF q = NextSeq(s) THEN role ELSE @[q]]]

Counted(m, role) ==
  [m EXCEPT !.messages = @ + 1,
            !.tools = IF role = "tool" THEN @ + 1 ELSE @,
            !.spent = IF role = "assistant" THEN @ + 1 ELSE @]

\* A message of a turn, which goes on when a write fails: any role may follow any.
\* The foreign key keeps messages of a deleted session out.
InsertMessage(s, role) ==
  /\ live[s] = "on" /\ s \in stored
  /\ Appended(s, role)
  /\ meta' = [meta EXCEPT ![s] = Counted(@, role)]
  /\ anchor' = [anchor EXCEPT ![s] = IF role = "assistant" THEN NextSeq(s) ELSE @]
  /\ UNCHANGED <<stored, given, parent, todos, snaps, live, reader, refunded, torn>>

EndTurn(s) ==
  /\ anchor[s] # NoSeq /\ anchor' = [anchor EXCEPT ![s] = NoSeq]
  /\ UNCHANGED <<tables, live, reader, refunded, torn, writes>>

MarkCompaction(s) ==
  /\ live[s] = "on" /\ s \in stored
  /\ Appended(s, "summary")
  /\ meta' = [meta EXCEPT ![s].compressions = @ + 1, ![s].last = NextSeq(s)]
  /\ UNCHANGED <<stored, given, parent, todos, snaps, tasks, reader, refunded, torn>>

\* Neither of these two asks whether the session has a row; tools run, and write
\* todos, also when the reply that asked for them was not saved.
InsertFileSnapshot(s) ==
  /\ live[s] = "on" /\ anchor[s] # NoSeq
  /\ snaps' = [snaps EXCEPT ![s] = @ \cup {anchor[s]}]
  /\ UNCHANGED <<stored, given, parent, meta, rows, todos, tasks, reader, refunded, torn, writes>>

WriteTodos(s, some) ==
  /\ live[s] = "on"
  /\ todos' = IF some THEN todos \cup {s} ELSE todos \ {s}
  /\ UNCHANGED <<stored, given, parent, meta, rows, snaps, tasks, reader, refunded, torn, writes>>
-----------------------------------------------------------------------------
(* What the application does -----------------------------------------------*)

\* A client that changed a history under its own feet loads it again.
Reloaded(S) == IF reader.sid \in S THEN NoReader ELSE reader

\* The caller has stopped the session: no turn has a reply to anchor rows at.
RollbackTo(s, t) ==
  /\ s \in stored /\ anchor[s] = NoSeq /\ t \in CutTarget(rows[s])
  /\ LET f == Rest(rows[s], Below(t))
     IN  /\ rows' = [rows EXCEPT ![s] = f]
         /\ meta' = [meta EXCEPT ![s] = Recount(@, f)]
         /\ refunded' = [refunded EXCEPT ![s] = @ + (Tokens(rows[s]) - Tokens(f))]
  /\ snaps' = [snaps EXCEPT ![s] = @ \cap Below(t)]
  /\ reader' = Reloaded({s})
  /\ UNCHANGED <<stored, given, parent, todos, tasks, torn, writes>>

\* Mutant: the children are left.
GroupAlone(s) == {x \in stored : x = s}
\* The session and its children.  The ids are taken from the rows there are: of a
\* session that has none only the children go.
Group(s) == {x \in stored : x = s \/ parent[x] = s}

\* The group goes with all that refers to it.
Delete(s) ==
  /\ Group(s) # {}
  /\ stored' = stored \ Group(s)
  /\ meta' = [x \in Sid |-> IF x \in Group(s) THEN NewMeta ELSE meta[x]]
  /\ rows' = [x \in Sid |-> IF x \in Group(s) THEN NoMessages ELSE rows[x]]
  /\ todos' = todos \ Group(s)
  /\ snaps' = [x \in Sid |-> IF x \in Group(s) THEN {} ELSE snaps[x]]
  /\ torn' = torn \cup {x \in Group(s) : live[x] # "off"}
  /\ refunded' = [x \in Sid |-> IF x \in Group(s) THEN 0 ELSE refunded[x]]
  /\ reader' = Reloaded(Group(s))
  /\ UNCHANGED <<given, parent, tasks, writes>>

\* Mutant: the message at the cursor is in the next page, too.
PageUpTo(f, before) ==
  LET D == {q \in DOMAIN f : before = NoSeq \/ q <= before}
  IN  {q \in D : Cardinality({p \in D : q < p}) < PageSize}
\* list_messages: the newest messages before the cursor.
Page(f, before) ==
  LET D == {q \in DOMAIN f : before = NoSeq \/ q < before}
  IN  {q \in D : Cardinality({p \in D : q < p}) < PageSize}
Full(page) == Cardinality(page) = PageSize
Oldest(page) == CHOOSE q \in page : \A p \in page : q <= p

ShowPage(s, top, page, shown) ==
  /\ reader' = [sid |-> s, top |-> top, more |-> Full(page), shown |-> shown \cup page,
                cursor |-> IF Full(page) THEN Oldest(page) ELSE NoSeq,
                items |-> reader.items + Cardinality(page)]
  /\ UNCHANGED <<tables, tasks, refunded, torn, writes>>

FirstPage(s) ==
  /\ s \in stored /\ reader = NoReader
  /\ ShowPage(s, Top(DOMAIN rows[s]), Page(rows[s], NoSeq), {})

NextPage ==
  /\ reader.more
  /\ ShowPage(reader.sid, reader.top, Page(rows[reader.sid], reader.cursor), reader.shown)

CloseReader ==
  /\ reader # NoReader /\ reader' = NoReader
  /\ UNCHANGED <<tables, tasks, refunded, torn, writes>>
-----------------------------------------------------------------------------
TaskStep(s) ==
  \/ Mount(s) \/ EndTurn(s) \/ MarkCompaction(s) \/ InsertFileSnapshot(s)
  \/ \E role \in Role \ {"summary"} : InsertMessage(s, role)
  \/ \E some \in BOOLEAN : WriteTodos(s, some)
  \/ \E n \in Sid : CreateChild(s, n) \/ \E x \in Sid : ForkVisible(s, x, n)

AppStep(s) ==
  \/ CreateSession(s) \/ Resume(s) \/ Leave({s}) \/ Delete(s)
  \/ \E t \in 1..MaxRows : RollbackTo(s, t) \/ \E n \in Sid : ForkTo(s, t, n)
  \/ FirstPage(s)

Next == (\E s \in Sid : TaskStep(s) \/ AppStep(s)) \/ Leave(Sid) \/ NextPage \/ CloseReader

Spec == Init /\ [][Next]_vars
-----------------------------------------------------------------------------
(* Properties --------------------------------------------------------------*)

\* The tables are well formed; the seqs of a session are 1, 2, .. without a gap,
\* after insertions, deletions and copies.
Meta == [messages : Nat, tools : Nat, spent : Nat, compressions : Nat, last : Nat]
Dense(f) == IsFiniteSet(DOMAIN f) /\ f \in [1..Cardinality(DOMAIN f) -> Role]
TypeOK ==
  /\ given \subseteq Sid /\ stored \subseteq given
  /\ parent \in [Sid -> Sid \cup {NoSid}] /\ meta \in [Sid -> Meta]
  /\ DOMAIN rows = Sid
  /\ \A s \in Sid : Dense(rows[s]) /\ (s \notin stored => rows[s] = NoMessages)
  /\ todos \subseteq given /\ snaps \in [Sid -> SUBSET Nat]
  /\ live \in [Sid -> {"off", "loading", "on"}] /\ anchor \in [Sid -> Nat]
  /\ refunded \in [Sid -> Nat] /\ torn \subseteq given /\ writes \in Nat

\* The counts and the compaction columns of a session, kept up to date by steps of
\* one, say what its rows say.  Only a child may leave out the summary it began
\* with (until a rollback counts anew).
Agrees(m, f, p) ==
  /\ m.messages = Messages(f) /\ m.tools = Tools(f)
  /\ \E inherited \in {{}, {1}} :
       LET own == Seqs(f, "summary") \ inherited
       IN  /\ inherited # {} => p # NoSid
           /\ m.compressions = Cardinality(own) /\ m.last = Top(own)
CountsAreRows == \A s \in stored : Agrees(meta[s], rows[s], parent[s])

\* What a session has cost is in its ledger once: the rows it has, copied or
\* written, and the rows that rollbacks have deleted.
Ledger == \A s \in stored : meta[s].spent = Tokens(rows[s]) + refunded[s]

\* Whoever pages through a history sees each message from the newest of the first
\* page down to the cursor once, whatever is appended in between, and all of them
\* when there are no more pages.
PagesAreWhole ==
  reader # NoReader =>
    /\ reader.shown = {q \in DOMAIN rows[reader.sid] : reader.cursor <= q /\ q <= reader.top}
    /\ reader.items = Cardinality(reader.shown)

\* Rows that refer to a session that is gone, and children whose parent is gone,
\* come from a session deleted while the engine ran it or was loading it.
OrphansAreTorn ==
  /\ \A s \in Sid \ stored : s \in todos \/ snaps[s] # {} => s \in torn
  /\ \A s \in stored : parent[s] = NoSid \/ parent[s] \in stored \cup torn
=============================================================================
