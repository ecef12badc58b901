----------------------------- MODULE McpClient -----------------------------
(***************************************************************************)
(* The client of MCP servers (crates/fuyao-mcp): for each server a         *)
(* connection with a keeper task that reconnects it, a circuit breaker, the *)
(* tool handlers that call through both, and the manager with its table of *)
(* connections and its table of tools.                                     *)
(*                                                                         *)
(* A connection is behind a mutex ("holder") that a call keeps for the     *)
(* whole remote call; the manager's two tables are behind mutexes as well. *)
(* The keeper shares the client, the flag "connected" and two signals with *)
(* the calls, but not that mutex.  Starting a server anew makes a further  *)
(* connection; one that it replaces lives on for who still has it.         *)
(***************************************************************************)
EXTENDS Naturals

CONSTANTS
  Server,      \* configured servers
  Caller,      \* tool calls that run at the same time
  Operator,    \* users of the manager's own interface
  Threshold,   \* failures in a row that open the breaker
  MaxRetries,  \* reconnections that may fail in a row
  MaxStarts,   \* bound: connections made to a server
  MaxEvents    \* bound: sessions the servers end and servers started anew, together

ASSUME McpAssumption ==
  /\ Server # {} /\ Threshold \in Nat \ {0} /\ MaxRetries \in Nat /\ MaxEvents \in Nat
  /\ MaxStarts \in Nat \ {0} /\ Caller \cap Operator = {}
Nobody == "nobody"
ASSUME NobodyAssumption == Nobody \notin Caller \cup Operator

VARIABLES
  reach,    \* whether a server accepts a new connection
  link,     \* the connections, those not made yet included
  holder,   \* who holds the mutex of a connection
  breaker,  \* the state of the circuit breaker for each server
  call,     \* what each call is doing
  op,       \* what each user of the manager is doing
  table,    \* connections in MCPManager.connections, one of a server at most
  tools,    \* servers with tools in MCPManager.registered_tools
  handlers, \* connections whose tool handlers have been given out
  lock,     \* who holds the mutexes of the two tables
  events    \* sessions lost and servers started anew so far

vars == <<reach, link, holder, breaker, call, op, table, tools, handlers, lock, events>>
managing == <<op, table, tools, handlers, lock>>

\* The connections to a server, in the order of their making.
Conn == Server \X (1..MaxStarts)
Of(k) == k[1]
Servers(conns) == {Of(k) : k \in conns}

Clients == {"none", "good", "bad"}
Keepers == {"none", "wait", "serve", "store", "sleep", "gone"}
\* detached (history): the keeper was still running when disconnect gave up on it.
Link == [connected : BOOLEAN, client : Clients, keeper : Keepers, retries : Nat,
         permit : BOOLEAN, shut : BOOLEAN, detached : BOOLEAN]
Breaker == [errors : Nat, opened : {"no", "hot", "cool"}]
CallSteps == {"idle", "find", "lock", "rpc", "recover", "pause", "lock again", "rpc again"}
OpSteps == {"idle", "insert", "register", "entries", "status", "stop", "join", "clear",
            "list", "unregister", "reregister"}
Call == [step : CallSteps, conn : Conn, direct : BOOLEAN]
Work == [step : OpSteps, todo : SUBSET Conn, over : SUBSET Server]
TypeOK ==
  /\ reach \in [Server -> BOOLEAN] /\ link \in [Conn -> Link]
  /\ holder \in [Conn -> Caller \cup Operator \cup {Nobody}]
  /\ breaker \in [Server -> Breaker]
  /\ call \in [Caller -> Call] /\ op \in [Operator -> Work]
  /\ table \subseteq Conn /\ tools \subseteq Server /\ handlers \subseteq Conn
  /\ lock \in [{"table", "tools"} -> Operator \cup {Nobody}]
  /\ events \in Nat

NoLink == [connected |-> FALSE, client |-> "none", keeper |-> "none", retries |-> 0,
           permit |-> FALSE, shut |-> FALSE, detached |-> FALSE]
Closed == [errors |-> 0, opened |-> "no"]
NoOp == [step |-> "idle", todo |-> {}, over |-> {}]
NoCall == [step |-> "idle", conn |-> CHOOSE k \in Conn : TRUE, direct |-> FALSE]

Init ==
  /\ reach \in [Server -> BOOLEAN] /\ link = [k \in Conn |-> NoLink]
  /\ holder = [k \in Conn |-> Nobody] /\ breaker = [s \in Server |-> Closed]
  /\ call = [c \in Caller |-> NoCall]
  /\ op = [o \in Operator |-> NoOp]
  /\ table = {} /\ tools = {} /\ handlers = {}
  /\ lock = [l \in {"table", "tools"} |-> Nobody]
  /\ events = 0

(***************************************************************************)
(* The circuit breaker                                                     *)
(***************************************************************************)
\* bump_error: from the threshold on every failure opens the breaker anew.
Bump(b) ==
  IF b.errors + 1 < Threshold THEN [b EXCEPT !.errors = @ + 1]
                              ELSE [errors |-> Threshold, opened |-> "hot"]
\* check_breaker refuses a call while the opened breaker has not cooled down.
Blocks(b) == b.errors >= Threshold /\ b.opened = "hot"
\* The cooling period passes; the next calls are let through, all of them.
Cool(s) ==
  /\ breaker[s].opened = "hot"
  /\ breaker' = [breaker EXCEPT ![s].opened = "cool"]
  /\ UNCHANGED <<reach, link, holder, call, events, managing>>

(***************************************************************************)
(* Tool calls                                                              *)
(***************************************************************************)
At(c) == call[c].conn
Srv(c) == Of(At(c))
Step(c, step) == call' = [call EXCEPT ![c].step = step]
Ends(c) == call' = [call EXCEPT ![c] = NoCall]
InRpc(k) == \E c \in Caller : call[c].step \in {"rpc", "rpc again"} /\ At(c) = k
Listing(k) == \E o \in Operator : op[o].step = "list" /\ holder[k] = o
\* The lock of the client is held by a remote call.
ClientBusy(k) == InRpc(k) \/ Listing(k)

\* A handler is called: the breaker is asked before anything is awaited.
Begin(c, k) ==
  /\ call[c].step = "idle" /\ k \in handlers /\ ~Blocks(breaker[Of(k)])
  /\ call' = [call EXCEPT ![c] = [step |-> "lock", conn |-> k, direct |-> FALSE]]
  /\ UNCHANGED <<reach, link, holder, breaker, events, managing>>

\* MCPManager::call_tool, without breaker or time limit: the tool is looked up in one
\* table, ...
BeginDirect(c, s) ==
  /\ call[c].step = "idle" /\ s \in tools /\ lock["tools"] = Nobody
  /\ call' = [call EXCEPT ![c] = [step |-> "find", conn |-> <<s, 1>>, direct |-> TRUE]]
  /\ UNCHANGED <<reach, link, holder, breaker, events, managing>>
\* ... and the connection of its server in the other, which may have lost it since.
Find(c) ==
  /\ call[c].step = "find" /\ lock["table"] = Nobody
  /\ \/ \E k \in table : /\ Of(k) = Srv(c)
                        /\ call' = [call EXCEPT ![c].step = "lock", ![c].conn = k]
     \/ Srv(c) \notin Servers(table) /\ Ends(c)
  /\ UNCHANGED <<reach, link, holder, breaker, events, managing>>

\* What the outcome of a call does to the breaker and to the call: one that may be
\* recovered goes on, the others end.
Concerns(c, outcome) ==
  IF call[c].direct THEN breaker
  ELSE [breaker EXCEPT ![Srv(c)] = IF outcome = "ok" THEN Closed ELSE Bump(@)]
Recoverable(c, outcome) ==
  outcome = "auth" /\ call[c].step \in {"lock", "rpc"} /\ ~call[c].direct
Settle(c, outcome) ==
  IF Recoverable(c, outcome)
  THEN Step(c, "recover") /\ UNCHANGED breaker
  ELSE Ends(c) /\ breaker' = Concerns(c, outcome)

\* do_call and MCPConnection::call_tool: with the mutex, if the connection is up
\* and has a client, the remote call starts.
Usable(k) == link[k].connected /\ link[k].client # "none"
\* Mutant: the mutex is not waited for.
AcquireAnyway(c) ==
  /\ call[c].step \in {"lock", "lock again"}
  /\ IF Usable(At(c))
     THEN /\ holder' = [holder EXCEPT ![At(c)] = c]
          /\ Step(c, IF call[c].step = "lock" THEN "rpc" ELSE "rpc again")
          /\ UNCHANGED breaker
     ELSE Settle(c, "not connected") /\ UNCHANGED holder
  /\ UNCHANGED <<reach, link, events, managing>>
Acquire(c) ==
  /\ call[c].step \in {"lock", "lock again"} /\ holder[At(c)] = Nobody
  /\ IF Usable(At(c))
     THEN /\ holder' = [holder EXCEPT ![At(c)] = c]
          /\ Step(c, IF call[c].step = "lock" THEN "rpc" ELSE "rpc again")
          /\ UNCHANGED breaker
     ELSE Settle(c, "not connected") /\ UNCHANGED holder
  /\ UNCHANGED <<reach, link, events, managing>>

\* The server's answers.  A client whose session is over gets an error, which may or
\* may not look like one of authentication or session (recovery.rs).
Outcomes(client) == IF client = "good" THEN {"ok", "tool error", "failed"} ELSE {"auth", "failed"}
\* Mutant: the mutex is not given back.
ReleaseNothing(c) == UNCHANGED holder
Release(c) == holder' = [k \in Conn |-> IF holder[k] = c THEN Nobody ELSE holder[k]]
Answer(c) ==
  /\ call[c].step \in {"rpc", "rpc again"}
  /\ \E outcome \in Outcomes(link[At(c)].client) : Settle(c, outcome)
  /\ Release(c)
  /\ UNCHANGED <<reach, link, events, managing>>

\* The time limit of the handler covers the wait for the mutex and the first call;
\* the call after a recovery has none.
Limited(c) == call[c].step \in {"lock", "rpc"} /\ ~call[c].direct
Timeout(c) ==
  /\ Limited(c) /\ Settle(c, "timeout") /\ Release(c)
  /\ UNCHANGED <<reach, link, events, managing>>

\* try_recover_and_retry: the signal goes out only if the mutex is free.
Notify(c) ==
  /\ call[c].step = "recover" /\ Step(c, "pause")
  /\ link' = IF holder[At(c)] = Nobody
             THEN [link EXCEPT ![At(c)].permit = TRUE] ELSE link
  /\ UNCHANGED <<reach, holder, breaker, events, managing>>
PauseOver(c) ==
  /\ call[c].step = "pause" /\ Step(c, "lock again")
  /\ UNCHANGED <<reach, link, holder, breaker, events, managing>>

\* The turn that made the call is interrupted: its future is dropped.
Dropped(c) ==
  /\ call[c].step # "idle" /\ Ends(c) /\ Release(c)
  /\ UNCHANGED <<reach, link, breaker, events, managing>>

(***************************************************************************)
(* The keeper task of a connection                                         *)
(***************************************************************************)
Kept == <<reach, holder, breaker, call, events, managing>>

\* The select at the head of the loop: the shutdown is seen, or the permit is taken
\* and the connection is marked as down; then the shutdown is looked at again.  (The
\* keeper of a connection that nobody has any more finds the channel of the shutdown
\* closed and goes round this select without waiting, but changes nothing.)
Wake(k) ==
  /\ link[k].keeper = "wait"
  /\ \/ link[k].shut /\ link' = [link EXCEPT ![k].keeper = "gone"]
     \/ /\ link[k].permit
        /\ link' = [link EXCEPT ![k].permit = FALSE, ![k].connected = FALSE,
                      ![k].keeper = IF link[k].shut THEN "gone" ELSE "serve"]
  /\ UNCHANGED Kept

\* run_transport: a new session is served; the flag goes up before the client is
\* written, which waits for a remote call that is still using the old one.
Serve(k) ==
  /\ link[k].keeper = "serve" /\ reach[Of(k)]
  /\ link' = [link EXCEPT ![k].connected = TRUE, ![k].keeper = "store"]
  /\ UNCHANGED Kept
Store(k) ==
  /\ link[k].keeper = "store" /\ ~ClientBusy(k)
  /\ link' = [link EXCEPT ![k].client = "good", ![k].retries = 0, ![k].keeper = "wait"]
  /\ UNCHANGED Kept
\* A failed attempt is followed by a pause and by the wait for the next signal.
ServeFails(k) ==
  /\ link[k].keeper = "serve" /\ ~reach[Of(k)]
  /\ IF link[k].shut THEN link' = [link EXCEPT ![k].keeper = "gone"]
     ELSE link' = [link EXCEPT ![k].retries = link[k].retries + 1,
                     ![k].keeper = IF link[k].retries + 1 > MaxRetries THEN "gone" ELSE "sleep"]
  /\ UNCHANGED Kept
SleepOver(k) ==
  /\ link[k].keeper = "sleep" /\ link' = [link EXCEPT ![k].keeper = "wait"] /\ UNCHANGED Kept

(***************************************************************************)
(* The servers (external)                                                  *)
(***************************************************************************)
Lose(k) ==
  /\ events < MaxEvents /\ link[k].client = "good"
  /\ link' = [link EXCEPT ![k].client = "bad"] /\ events' = events + 1
  /\ \E up \in BOOLEAN : reach' = [reach EXCEPT ![Of(k)] = up]
  /\ UNCHANGED <<holder, breaker, call, managing>>
Return(s) ==
  /\ ~reach[s] /\ reach' = [reach EXCEPT ![s] = TRUE]
  /\ UNCHANGED <<link, holder, breaker, call, events, managing>>

(***************************************************************************)
(* The manager                                                             *)
(***************************************************************************)
Op(o, step, todo) == op' = [op EXCEPT ![o] = [@ EXCEPT !.step = step, !.todo = todo]]
Doing(o, step) == op[o].step = step
Free(l) == lock[l] = Nobody
Give(l, o) == lock' = [lock EXCEPT ![l] = o]
Others == <<reach, breaker, call, events>>

\* start_server: an attempt that fails leaves nothing behind, one that succeeds has
\* a connection with its keeper before the two tables know of it.  It may be a server
\* that was stopped or is connected: the entry in the table is overwritten.
Unmade(k) == link[k].keeper = "none"
Start(o, s, i) ==
  /\ Doing(o, "idle") /\ reach[s]
  /\ Unmade(<<s, i>>) /\ \A j \in 1..(i - 1) : ~Unmade(<<s, j>>)
  /\ link' = [link EXCEPT ![<<s, i>>].connected = TRUE, ![<<s, i>>].client = "good",
                          ![<<s, i>>].keeper = "wait"]
  /\ Op(o, "insert", {<<s, i>>})
  /\ IF i = 1 THEN UNCHANGED events ELSE events < MaxEvents /\ events' = events + 1
  /\ UNCHANGED <<reach, breaker, call, holder, table, tools, handlers, lock>>
Insert(o) ==
  /\ Doing(o, "insert") /\ Free("table")
  /\ table' = {k \in table : Of(k) \notin Servers(op[o].todo)} \cup op[o].todo
  /\ Op(o, "register", op[o].todo)
  /\ UNCHANGED <<Others, link, holder, tools, handlers, lock>>
Register(o) ==
  /\ Doing(o, "register") /\ Free("tools")
  /\ tools' = tools \cup Servers(op[o].todo) /\ Op(o, "idle", {})
  /\ UNCHANGED <<Others, link, holder, table, handlers, lock>>

\* get_tool_entries: both tables are locked, that of the tools first.
Entries(o) ==
  /\ Doing(o, "idle") /\ Free("tools")
  /\ Give("tools", o) /\ Op(o, "entries", {})
  /\ UNCHANGED <<Others, link, holder, table, tools, handlers>>
EntriesMade(o) ==
  /\ Doing(o, "entries") /\ Free("table")
  /\ handlers' = handlers \cup {k \in table : Of(k) \in tools}
  /\ Give("tools", Nobody) /\ Op(o, "idle", {})
  /\ UNCHANGED <<Others, link, holder, table, tools>>

\* get_server_status keeps the table of connections while it waits for each of them.
Status(o) ==
  /\ Doing(o, "idle") /\ Free("table") /\ Give("table", o) /\ Op(o, "status", table)
  /\ UNCHANGED <<Others, link, holder, table, tools, handlers>>
StatusOf(o, k) ==
  /\ Doing(o, "status") /\ k \in op[o].todo /\ holder[k] = Nobody
  /\ Op(o, "status", op[o].todo \ {k})
  /\ UNCHANGED <<Others, link, holder, table, tools, handlers, lock>>
StatusKnown(o) ==
  /\ Doing(o, "status") /\ op[o].todo = {} /\ Give("table", Nobody) /\ Op(o, "idle", {})
  /\ UNCHANGED <<Others, link, holder, table, tools, handlers>>

\* stop_server and stop_all: the connections leave the table, which stays locked
\* until each of them is closed and the tools are gone.
Stop(o, stopped) ==
  /\ Doing(o, "idle") /\ Free("table") /\ Give("table", o)
  /\ table' = {k \in table : Of(k) \notin stopped}
  /\ op' = [op EXCEPT ![o] = [step |-> "stop", todo |-> {k \in table : Of(k) \in stopped},
                              over |-> stopped]]
  /\ UNCHANGED <<Others, link, holder, tools, handlers>>
\* disconnect: the keeper is told, ...
Shut(o, k) ==
  /\ Doing(o, "stop") /\ k \in op[o].todo /\ holder[k] = Nobody
  /\ holder' = [holder EXCEPT ![k] = o] /\ Op(o, "join", {k} \cup op[o].todo)
  /\ link' = [link EXCEPT ![k].shut = TRUE, ![k].permit = TRUE]
  /\ UNCHANGED <<Others, table, tools, handlers, lock>>
\* Mutant: the keeper is not waited for.
JoinedAtOnce(o, k) ==
  /\ Doing(o, "join") /\ holder[k] = o
  /\ link' = [link EXCEPT ![k].connected = FALSE, ![k].client = "none"]
  /\ holder' = [holder EXCEPT ![k] = Nobody] /\ Op(o, "stop", op[o].todo \ {k})
  /\ UNCHANGED <<Others, table, tools, handlers, lock>>
\* ... waited for, at most ten seconds, and the client is closed.  Only a keeper that
\* is connecting or pausing can take longer.
Joined(o, k) ==
  /\ Doing(o, "join") /\ holder[k] = o
  /\ link[k].keeper \in {"gone", "serve", "sleep"}
  /\ link' = [link EXCEPT ![k].connected = FALSE, ![k].client = "none", ![k].detached = link[k].keeper # "gone"]
  /\ holder' = [holder EXCEPT ![k] = Nobody] /\ Op(o, "stop", op[o].todo \ {k})
  /\ UNCHANGED <<Others, table, tools, handlers, lock>>
Clear(o) ==
  /\ Doing(o, "stop") /\ op[o].todo = {} /\ Free("tools")
  /\ tools' = tools \ op[o].over /\ Give("table", Nobody)
  /\ op' = [op EXCEPT ![o] = NoOp]
  /\ UNCHANGED <<Others, link, holder, table, handlers>>

\* refresh_tools: the tools are listed under the connection's mutex and replaced in
\* two critical sections.
Refresh(o, k) ==
  /\ Doing(o, "idle") /\ Free("table") /\ k \in table /\ Op(o, "list", {k})
  /\ UNCHANGED <<Others, link, holder, table, tools, handlers, lock>>
List(o) ==
  /\ Doing(o, "list") /\ \A k \in op[o].todo :
       /\ holder[k] = Nobody
       /\ IF Usable(k) THEN holder' = [holder EXCEPT ![k] = o] /\ UNCHANGED op
                       ELSE Op(o, "idle", {}) /\ UNCHANGED holder
  /\ UNCHANGED <<Others, link, table, tools, handlers, lock>>
Listed(o, k) ==
  /\ Doing(o, "list") /\ holder[k] = o
  /\ holder' = [holder EXCEPT ![k] = Nobody]
  /\ \/ link[k].client = "good" /\ Op(o, "unregister", {k})
     \/ Op(o, "idle", {})
  /\ UNCHANGED <<Others, link, table, tools, handlers, lock>>
Unregister(o) ==
  /\ Doing(o, "unregister") /\ Free("tools")
  /\ tools' = tools \ Servers(op[o].todo) /\ Op(o, "reregister", op[o].todo)
  /\ UNCHANGED <<Others, link, holder, table, handlers, lock>>
Reregister(o) ==
  /\ Doing(o, "reregister") /\ Free("tools")
  /\ tools' = tools \cup Servers(op[o].todo) /\ Op(o, "idle", {})
  /\ UNCHANGED <<Others, link, holder, table, handlers, lock>>

(***************************************************************************)
(* The specification                                                       *)
(***************************************************************************)
CallStep(c) ==
  \/ \E k \in Conn : Begin(c, k)
  \/ \E s \in Server : BeginDirect(c, s)
  \/ Find(c) \/ Acquire(c) \/ Answer(c) \/ Timeout(c) \/ Notify(c) \/ PauseOver(c) \/ Dropped(c)
KeeperStep(k) == Wake(k) \/ Serve(k) \/ Store(k) \/ ServeFails(k) \/ SleepOver(k)
\* What the manager's operations do without waiting for a server.
ManagerProgress(o) ==
  \/ Insert(o) \/ Register(o) \/ EntriesMade(o) \/ StatusKnown(o) \/ Clear(o)
  \/ List(o) \/ Unregister(o) \/ Reregister(o)
  \/ \E k \in Conn : StatusOf(o, k) \/ Shut(o, k) \/ Joined(o, k)
ManagerStep(o) ==
  \/ Entries(o) \/ Status(o) \/ Stop(o, Server) \/ ManagerProgress(o)
  \/ \E s \in Server : Stop(o, {s}) \/ \E i \in 1..MaxStarts : Start(o, s, i)
  \/ \E k \in Conn : Refresh(o, k) \/ Listed(o, k)
Next ==
  \/ \E c \in Caller : CallStep(c)
  \/ \E k \in Conn : KeeperStep(k) \/ Lose(k)
  \/ \E s \in Server : Return(s) \/ Cool(s)
  \/ \E o \in Operator : ManagerStep(o)
Spec == Init /\ [][Next]_vars

\* What the client does by itself goes on: mutexes are given in the order of arrival, so
\* a waiting call or operation that could take one again and again gets it, and the time
\* limit and the pauses run out.  Nothing is assumed of the servers: the code does not
\* bound their answers, except to the first call of a handler.
FairSpec ==
  /\ Spec
  /\ \A c \in Caller : /\ SF_vars(Acquire(c) \/ Find(c))
                       /\ WF_vars(Timeout(c) \/ Notify(c) \/ PauseOver(c))
  /\ \A k \in Conn : WF_vars(Wake(k) \/ Store(k) \/ SleepOver(k))
  /\ \A o \in Operator : SF_vars(ManagerProgress(o))

\* Servers that answer whatever they are asked and come back when they went away.
AnsweredSpec ==
  /\ FairSpec
  /\ \A c \in Caller : WF_vars(Answer(c))
  /\ \A k \in Conn : /\ WF_vars(Serve(k) \/ ServeFails(k))
                     /\ \A o \in Operator : WF_vars(Listed(o, k))
  /\ \A s \in Server : WF_vars(Return(s)) /\ WF_vars(Cool(s))

(***************************************************************************)
(* Properties                                                              *)
(***************************************************************************)
\* Disconnect ends everything: once a connection was shut and its mutex given back, no
\* keeper runs, no client is left and no call or listing uses one.  The exception is a
\* keeper that took longer than the ten seconds (connection.rs disconnect).
StoppedIsQuiet ==
  \A k \in Conn : (link[k].shut /\ holder[k] \notin Operator /\ ~link[k].detached) =>
    link[k].keeper = "gone" /\ link[k].client = "none" /\ ~link[k].connected /\ ~InRpc(k)

\* The mutex of a connection and its remote calls belong together: who is in a remote
\* call holds the mutex, also after time-outs, dropped calls and recoveries, so that
\* the client is never used by two calls and never taken away from under one.
OneRpcAtATime ==
  \A c \in Caller : call[c].step \in {"rpc", "rpc again"} =>
    holder[At(c)] = c /\ link[At(c)].client # "none"

\* The breaker's two tables agree: a server has a time of opening exactly when its
\* failures reached the threshold (circuit_breaker.rs bump_error, reset_error).
BreakerAgrees ==
  \A s \in Server : (breaker[s].errors = Threshold) <=> (breaker[s].opened # "no")

\* A server owes an answer that the code waits for without a limit: to the retry after a
\* recovery (bridge.rs:279), to a direct call (lib.rs:278) or to a listing (lib.rs:327).
Unanswered(k) ==
  \/ Listing(k)
  \/ \E c \in Caller : /\ At(c) = k /\ call[c].step \in {"rpc", "rpc again"} /\ ~Limited(c)
\* A call of a tool ends, through recovery and waiting behind other calls, a listing, a
\* stop or a status query, unless a server never answers what it is asked without a
\* limit: on the connection of the call or, for a direct call, which may wait for the
\* table of connections, on any.
CallsEnd ==
  \A c \in Caller : call[c].step # "idle" ~>
    \/ call[c].step = "idle"
    \/ \E k \in Conn : [](Unanswered(k) /\ (call[c].direct \/ At(c) = k))

\* "Reconnects automatically" (connection.rs:7, and the warning "MCP server 重连中"
\* after a failed attempt): a connection that is down comes up again, gives up or is
\* shut down.
Reconnects ==
  \A k \in Conn : (link[k].keeper = "sleep") ~>
    (link[k].keeper \in {"serve", "gone"} \/ link[k].shut)
============================================================================
