--------------------------- MODULE EngineSessions ---------------------------
(***************************************************************************)
(* The sessions of one engine: the dispatch table that Engine keeps        *)
(* (crates/fuyao-core/src/engine), the forwarder table that App keeps above *)
(* it (crates/fuyao-app/src/runtime/app.rs), and the calls that work on    *)
(* both of them concurrently.                                              *)
(*                                                                         *)
(* A session that is resumed gets a new task; a task is a member of the    *)
(* sequence "task" and stays there when it is over.  What a task does in a *)
(* turn is the subject of SessionTask; here a turn only begins and ends.   *)
(* A call is a record that goes from step to step: between two steps other *)
(* calls and the tasks run, as they do between two awaits of the code.     *)
(***************************************************************************)
EXTENDS Naturals, Sequences, FiniteSets

CONSTANTS
  Sid,         \* session ids
  AppCaller,   \* concurrent users of App
  ToolCaller,  \* executions of the subagent tool
  Closer,      \* the caller of shutdown
  SignalCap,   \* capacity of the interrupt channel of a session
  MaxTasks,    \* bound: tasks spawned in a behaviour
  MaxSends,    \* bound: entries sent to one session
  Expires      \* whether the waits for a task's exit may time out

Caller == AppCaller \cup ToolCaller \cup {Closer}

ASSUME CallerAssumption ==
  /\ AppCaller \cap ToolCaller = {} /\ Closer \notin AppCaller \cup ToolCaller
ASSUME LimitAssumption ==
  /\ SignalCap \in Nat \ {0} /\ MaxTasks \in Nat /\ MaxSends \in Nat
  /\ Expires \in BOOLEAN

NoSid == "none"
ASSUME NoSidAssumption == NoSid \notin Sid

VARIABLES
  flag,     \* Engine.shutdown is set and the root token cancelled
  db,       \* sessions that have a row
  table,    \* Engine.sessions: the task of each mounted session, or 0
  forward,  \* App.forward_tasks: the task each forwarder listens to, or 0
  task,     \* every task ever spawned
  call,     \* the call each caller is executing
  sends,    \* entries accepted per session
  apart     \* history: no two calls of App have had one session in hand at once

engine == <<flag, db, table, forward, task, call, sends>>
vars == <<flag, db, table, forward, task, call, sends, apart>>

Lives == {"idle", "turn", "over"}
Steps == {"none", "mount", "register", "child", "end", "unforward", "signal",
          "wait", "quiet", "drain", "closed"}
Index == 1..Len(task)

\* parent: the task that asked for a child session, or 0; cancelled: the session's
\* token; aborting: JoinHandle::abort has been called; mail: entries in the inbound
\* channel; stops: signals in the interrupt channel; turns: turns begun so far;
\* disposed: times the plugin instances of the handle were disposed.
Task == [sid : Sid, parent : Nat, life : Lives, cancelled : BOOLEAN, aborting : BOOLEAN,
         mail : Nat, stops : Nat, turns : Nat, disposed : Nat]
\* holds: tasks whose handle or channel ends the call owns; parent: the task whose
\* turn runs the tool; seen: turns (task, number) under way when the call began.
Call == [step : Steps, sid : Sid \cup {NoSid}, holds : SUBSET (Nat \ {0}),
         parent : Nat, seen : SUBSET (Nat \X Nat)]

Typed ==
  /\ flag \in BOOLEAN /\ db \subseteq Sid
  /\ table \in [Sid -> Nat] /\ forward \in [Sid -> Nat]
  /\ task \in Seq(Task) /\ call \in [Caller -> Call] /\ sends \in [Sid -> Nat]
TypeOK == Typed /\ apart \in BOOLEAN

NoCall == [step |-> "none", sid |-> NoSid, holds |-> {}, parent |-> 0,
           seen |-> {}]

\* The program starts with the rows of earlier runs and no session mounted.
Init ==
  /\ flag = FALSE /\ db \in SUBSET Sid
  /\ table = [s \in Sid |-> 0] /\ forward = [s \in Sid |-> 0]
  /\ task = <<>>
  /\ call = [c \in Caller |-> NoCall]
  /\ sends = [s \in Sid |-> 0]
  /\ apart = TRUE

(***************************************************************************)
(* Calls                                                                   *)
(***************************************************************************)
\* A caller between two calls; one that was told the session is quiet is, too.
Free(c) == call[c].step \in {"none", "quiet"}
Return(c) == call' = [call EXCEPT ![c] = NoCall]
Goto(c, step, holds) ==
  call' = [call EXCEPT ![c].step = step, ![c].holds = holds]
InTurn(i) == task[i].life = "turn"
TurnsOf(s) == {<<i, task[i].turns>> : i \in {j \in Index : task[j].sid = s /\ InTurn(j)}}
\* Only a stop remembers the turns it found.
Watched(s, step) == {turn \in TurnsOf(s) : step \in {"signal", "quiet"}}
StillRuns(turn) == InTurn(turn[1]) /\ task[turn[1]].turns = turn[2]
Begin(c, s, step, holds) ==
  call' = [call EXCEPT ![c] =
             [NoCall EXCEPT !.step = step, !.sid = s, !.holds = holds,
                            !.seen = Watched(s, step)]]

\* The handle of a session, if it is mounted.
Found(s) == {table[s]} \ {0}

\* App::shutdown consumes the App: no call on it is running or will follow.
AppOpen == call[Closer].step = "none"
Room == Len(task) + Cardinality({c \in Caller : call[c].step = "mount"}) < MaxTasks

\* create_session writes the row first; neither it nor resume looks at the flag.
StartCreate(c, s) ==
  /\ Free(c) /\ AppOpen /\ Room
  /\ s \notin db /\ db' = db \cup {s}
  /\ Begin(c, s, "mount", {})
  /\ UNCHANGED <<flag, table, forward, task, sends>>

\* App::resume_session goes on to the engine when no forwarder is registered.
\* Mutant: it always does.
AlwaysLoads(s) == TRUE
NotForwarded(s) == forward[s] = 0
StartResume(c, s) ==
  /\ Free(c) /\ AppOpen /\ Room
  /\ s \in db /\ NotForwarded(s)
  /\ Begin(c, s, "mount", {})
  /\ UNCHANGED <<flag, db, table, forward, task, sends>>

\* The token of a session is a child of the engine's.
\* Mutant: a token of its own.
OwnToken == FALSE
ChildToken == flag
Spawned(s, p) ==
  [sid |-> s, parent |-> p, life |-> "idle", cancelled |-> ChildToken, aborting |-> FALSE,
   mail |-> 0, stops |-> 0, turns |-> 0, disposed |-> 0]

\* assemble_session and the insertion into the table; a handle it replaces is
\* dropped, its task goes on.
Mount(c) ==
  LET s == call[c].sid
      i == Len(task) + 1
  IN /\ call[c].step = "mount"
     /\ task' = Append(task, Spawned(s, call[c].parent))
     /\ table' = [table EXCEPT ![s] = i]
     /\ Goto(c, IF c \in AppCaller THEN "register" ELSE "child", {i})
     /\ UNCHANGED <<flag, db, forward, sends>>

\* register_forwarder: a forwarder it replaces is aborted.
Register(c) ==
  /\ call[c].step = "register"
  /\ \E i \in call[c].holds : forward' = [forward EXCEPT ![call[c].sid] = i]
  /\ Return(c)
  /\ UNCHANGED <<flag, db, table, task, sends>>

\* Engine::send: looked up in the table, put on the bounded channel of a live task.
Send(s) ==
  LET i == table[s] IN
  /\ ~flag /\ i # 0 /\ task[i].life # "over" /\ sends[s] < MaxSends
  /\ task' = [task EXCEPT ![i].mail = @ + 1]
  /\ sends' = [sends EXCEPT ![s] = @ + 1]
  /\ UNCHANGED <<flag, db, table, forward, call>>

(***************************************************************************)
(* destroy_session and shutdown                                            *)
(***************************************************************************)
\* Mutant: the token is not cancelled.
NotCancelled(S) == UNCHANGED task
Cancel(S) == task' = [i \in Index |->
                        IF i \in S THEN [task[i] EXCEPT !.cancelled = TRUE] ELSE task[i]]

\* Mutants: the root token is cancelled; the handle stays in the table.
Everything(i) == Index
Itself(i) == {i}
Kept(s) == table
Removed(s) == [table EXCEPT ![s] = 0]

StartDestroy(c, s) ==
  LET i == table[s] IN
  /\ Free(c) /\ AppOpen /\ ~flag /\ i # 0
  /\ table' = Removed(s)
  /\ Cancel(Itself(i))
  /\ Begin(c, s, "end", {i})
  /\ UNCHANGED <<flag, db, forward, sends>>

\* end_one_session: the task exits within the timeout or is aborted, which takes
\* effect later; the plugin instances are disposed in either case.
EndOne(c, i) ==
  /\ call[c].step = "end" /\ i \in call[c].holds
  /\ \/ /\ task[i].life = "over"
        /\ task' = [task EXCEPT ![i].disposed = @ + 1]
     \/ /\ Expires /\ task[i].life # "over"
        /\ task' = [task EXCEPT ![i].disposed = @ + 1, ![i].aborting = TRUE]
  /\ call' = [call EXCEPT ![c].holds = @ \ {i}]
  /\ UNCHANGED <<flag, db, table, forward, sends>>

EndAll(c) ==
  /\ call[c].step = "end" /\ call[c].holds = {}
  /\ IF c \in ToolCaller THEN Return(c) ELSE Goto(c, "unforward", {})
  /\ UNCHANGED <<flag, db, table, forward, task, sends>>

\* App removes the forwarder of the session, or at shutdown all of them.
\* Mutant: the forwarder stays registered.
NoForwarders(c) == {}
Forwarders(c) == IF c = Closer THEN Sid ELSE {call[c].sid}
Unforward(c) ==
  /\ call[c].step = "unforward"
  /\ forward' = [s \in Sid |-> IF s \in Forwarders(c) THEN 0 ELSE forward[s]]
  /\ IF c = Closer THEN Goto(c, "closed", {}) ELSE Return(c)
  /\ UNCHANGED <<flag, db, table, task, sends>>

StartShutdown ==
  /\ call[Closer].step = "none" /\ \A c \in AppCaller : Free(c)
  /\ flag' = TRUE /\ Cancel(Index)
  /\ Goto(Closer, "drain", {})
  /\ UNCHANGED <<db, table, forward, sends>>

DrainTable ==
  /\ call[Closer].step = "drain"
  /\ Goto(Closer, "end", UNION {Found(s) : s \in Sid})
  /\ table' = [s \in Sid |-> 0]
  /\ UNCHANGED <<flag, db, forward, task, sends>>

(***************************************************************************)
(* stop_session                                                            *)
(***************************************************************************)
\* A session that is not mounted, or runs no turn, counts as quiet at once.
StopAtOnce(c, s) ==
  /\ Free(c) /\ AppOpen /\ ~flag
  /\ table[s] # 0 => ~InTurn(table[s])
  /\ Begin(c, s, "quiet", Found(s))
  /\ UNCHANGED <<flag, db, table, forward, task, sends>>

StartStop(c, s) ==
  LET i == table[s] IN
  /\ Free(c) /\ AppOpen /\ ~flag /\ i # 0 /\ InTurn(i)
  /\ Begin(c, s, "signal", {i})
  /\ UNCHANGED <<flag, db, table, forward, task, sends>>

\* Told the session is quiet.
Quiet(c) == call' = [call EXCEPT ![c].step = "quiet"]

\* The signal waits for room in the channel, outside the timeout.
StopSignal(c) ==
  /\ call[c].step = "signal"
  /\ \E i \in call[c].holds :
       \/ /\ task[i].life = "over" /\ Quiet(c) /\ UNCHANGED task
       \/ /\ task[i].life # "over" /\ task[i].stops < SignalCap
          /\ task' = [task EXCEPT ![i].stops = @ + 1]
          /\ Goto(c, "wait", {i})
  /\ UNCHANGED <<flag, db, table, forward, sends>>

\* The watch channel keeps only the last phase: a short idle phase may be missed,
\* a running one is never taken for idle.
\* Mutant: the call returns as soon as the signal is in the channel.
Anyhow(i) == TRUE
PhaseIdle(i) == ~InTurn(i)
StopWait(c) ==
  /\ call[c].step = "wait"
  /\ \E i \in call[c].holds : PhaseIdle(i)
  /\ Quiet(c)
  /\ UNCHANGED <<flag, db, table, forward, task, sends>>

StopTimeout(c) ==
  /\ Expires /\ call[c].step = "wait" /\ Return(c)
  /\ UNCHANGED <<flag, db, table, forward, task, sends>>

(***************************************************************************)
(* The subagent tool: a child session of its own, run for one answer       *)
(***************************************************************************)
Mounted(i) == i \in Index /\ table[task[i].sid] = i

\* create_child_session: the parent must be mounted; no look at the flag.
StartChild(c, p, s) ==
  /\ call[c].step = "none" /\ Room
  /\ Mounted(p) /\ InTurn(p) /\ s \notin db /\ db' = db \cup {s}
  /\ call' = [call EXCEPT ![c] = [NoCall EXCEPT !.step = "mount", !.sid = s, !.parent = p,
                                               !.seen = {<<p, task[p].turns>>}]]
  /\ UNCHANGED <<flag, table, forward, task, sends>>

\* The child has answered, has exited or could not be sent its task, or the token
\* of the batch is cancelled: the handler destroys it, whatever comes of that.
ChildDone(c) ==
  LET s == call[c].sid IN
  /\ call[c].step = "child"
  /\ ~flag /\ table[s] # 0
  /\ table' = Removed(s) /\ Cancel(Itself(table[s]))
  /\ Goto(c, "end", {table[s]})
  /\ UNCHANGED <<flag, db, forward, sends>>

ChildGone(c) ==
  /\ call[c].step = "child"
  /\ flag \/ table[call[c].sid] = 0
  /\ Return(c)
  /\ UNCHANGED <<flag, db, table, forward, task, sends>>

\* The parent's turn has ended before the handler: it is dropped where it stands,
\* with all it holds.
ToolDropped(c) ==
  /\ c \in ToolCaller /\ call[c].step \in {"mount", "child", "end"}
  /\ \A turn \in call[c].seen : ~StillRuns(turn)
  /\ Return(c)
  /\ UNCHANGED <<flag, db, table, forward, task, sends>>

(***************************************************************************)
(* Session tasks                                                           *)
(***************************************************************************)
Set(i, new) == task' = [task EXCEPT ![i] = new] /\ UNCHANGED <<flag, db, table, forward, call, sends>>

\* The idle select! prefers shutdown to entries and entries to signals.
TurnBegins(i) ==
  /\ task[i].life = "idle" /\ ~task[i].cancelled /\ task[i].mail > 0
  /\ Set(i, [task[i] EXCEPT !.life = "turn", !.mail = @ - 1, !.turns = @ + 1])

SignalIgnored(i) ==
  /\ task[i].life = "idle" /\ ~task[i].cancelled /\ task[i].mail = 0 /\ task[i].stops > 0
  /\ Set(i, [task[i] EXCEPT !.stops = @ - 1])

\* A running turn moves entries to the queues and serves or keeps them there.
EntryQueued(i) ==
  /\ InTurn(i) /\ task[i].mail > 0
  /\ Set(i, [task[i] EXCEPT !.mail = @ - 1])

\* The turn completes, fails, or is closed by the token or by a signal.
TurnEnds(i) ==
  /\ InTurn(i)
  /\ \/ Set(i, [task[i] EXCEPT !.life = "idle"])
     \/ task[i].stops > 0 /\ Set(i, [task[i] EXCEPT !.life = "idle", !.stops = @ - 1])

\* The receivers of a task that is over are dropped with all that was sent to them,
\* and an abort has nothing to act on.
Over(i) == [task[i] EXCEPT !.life = "over", !.aborting = FALSE, !.mail = 0, !.stops = 0]

TaskExits(i) ==
  /\ task[i].life = "idle" /\ task[i].cancelled
  /\ Set(i, Over(i))

\* The abort takes effect at the task's next await.
AbortLands(i) ==
  /\ task[i].aborting /\ task[i].life # "over"
  /\ Set(i, Over(i))

TaskStep(i) ==
  \/ TurnBegins(i) \/ SignalIgnored(i) \/ EntryQueued(i) \/ TurnEnds(i)
  \/ TaskExits(i) \/ AbortLands(i)

\* What a started call does by itself.
CallStep(c) ==
  \/ Mount(c) \/ Register(c) \/ (\E i \in Index : EndOne(c, i)) \/ EndAll(c)
  \/ Unforward(c) \/ StopSignal(c) \/ StopWait(c) \/ StopTimeout(c)
  \/ ChildDone(c) \/ ChildGone(c) \/ ToolDropped(c)
  \/ c = Closer /\ DrainTable

Step ==
  \/ \E c \in AppCaller, s \in Sid :
       \/ StartCreate(c, s) \/ StartResume(c, s) \/ StartDestroy(c, s)
       \/ StopAtOnce(c, s) \/ StartStop(c, s)
  \/ \E s \in Sid : Send(s)
  \/ \E c \in ToolCaller, p \in Index, s \in Sid : StartChild(c, p, s)
  \/ StartShutdown
  \/ \E c \in Caller : CallStep(c)
  \/ \E i \in Index : TaskStep(i)

\* Call c of App has session s in hand: it mounts it for App, or ends it.
Handling(c, s) ==
  call[c].sid = s /\ call[c].step \in {"mount", "register", "end", "unforward"}
CallsApart == \A s \in Sid : \A a, b \in AppCaller : Handling(a, s) /\ Handling(b, s) => a = b

Next == Step /\ apart' = (apart /\ CallsApart')
Spec == Init /\ [][Next]_vars

(***************************************************************************)
(* Fairness: shutdown and the tasks are scheduled; nothing is asked of the *)
(* other calls.  A task whose token is not cancelled may stay in its turn  *)
(* for ever (a model request that never ends); one that is cancelled may   *)
(* not, since a wait in a turn listens to the token or has a time limit of *)
(* its own.                                                                *)
(***************************************************************************)
CancelledStep(i) == i \in Index /\ task[i].cancelled /\ TaskStep(i)
Fairness ==
  /\ WF_engine(CallStep(Closer))
  /\ \A i \in 1..MaxTasks : WF_engine(CancelledStep(i))
FairSpec == Spec /\ Fairness

(***************************************************************************)
(* Properties                                                              *)
(***************************************************************************)
Owners(i) ==
  {s \in Sid : table[s] = i} \cup {c \in Caller : call[c].step = "end" /\ i \in call[c].holds}

\* Nobody else can end a session that destroy_session or shutdown is ending: a
\* handle is in one place, its instances are disposed once, and never while the
\* session can still be found in the table.
HandleOwnedOnce ==
  \A i \in Index :
    /\ Cardinality(Owners(i)) <= 1 /\ task[i].disposed <= 1
    /\ task[i].disposed = 1 => Owners(i) = {}

\* destroy_session cancels the token of its own session only: a session that is
\* in the table runs on until the engine is shut down, whatever else is destroyed.
Isolation == \A s \in Sid : table[s] # 0 /\ ~flag => ~task[table[s]].cancelled

\* Shutdown reaches every task there is or ever will be, mounted or replaced or
\* created by a subagent while the engine is going down.
ShutdownReachesAll == flag => \A i \in Index : task[i].life # "over" => task[i].cancelled

\* The barrier of stop_session: the turn that ran in the session it found has
\* ended when it returns.
StopBarrier ==
  \A c \in AppCaller : call[c].step = "quiet" =>
    \A turn \in call[c].seen : turn[1] \in call[c].holds => ~StillRuns(turn)

Working(i) == task[i].life # "over" /\ ~task[i].aborting
\* A session that a subagent tool has created: App knows no forwarder of it.
IsChild(s) == \E i \in Index : task[i].sid = s /\ task[i].parent # 0
\* Two tasks that may still write (a task told to abort apart) are of two sessions.
SoleWriter ==
  \A i, j \in Index :
    i # j /\ Working(i) /\ Working(j) /\ ~IsChild(task[i].sid)
      => task[i].sid # task[j].sid

\* A session of App has one task to write its rows while no two calls of App mount or
\* end it at once, however many users App has and whatever else they do: each opening
\* finds out from the two tables, across its awaits, that nobody writes.
WriterWhileApart == apart => SoleWriter

AppIsStill == \A c \in AppCaller \cup {Closer} : call[c].step \in {"none", "quiet", "closed"}
\* Likewise a registered forwarder means a mounted session, once no call is under way:
\* resume_session may rely on it to return at once.
ForwardedIsMounted ==
  apart /\ AppIsStill => \A s \in Sid : ~IsChild(s) => forward[s] \in {0, table[s]}

\* After shutdown every task ends and shutdown returns, whatever the tasks and the
\* other calls were doing.
ShutdownEnds ==
  flag ~> call[Closer].step = "closed" /\ \A i \in Index : task[i].life = "over"
=============================================================================
