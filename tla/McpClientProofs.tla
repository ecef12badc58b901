-------------------------- MODULE McpClientProofs ---------------------------
(***************************************************************************)
(* Theorems about McpClient, for every set of servers, of tool calls and   *)
(* of users of the manager, and every threshold.                           *)
(***************************************************************************)
EXTENDS McpClient, TLAPS

(***************************************************************************)
(* The invariant                                                           *)
(***************************************************************************)
\* A user who holds the mutex of a connection is disconnecting it or listing its tools,
\* and holds no other; a listing never has the mutex of a connection that was shut in time.
OpInv ==
  \A o \in Operator :
    /\ op[o].step = "list" => \E k \in Conn : op[o].todo = {k}
    /\ \A k \in Conn : holder[k] = o =>
         /\ op[o].step \in {"join", "list"} /\ k \in op[o].todo
         /\ op[o].step = "list" => (~link[k].shut \/ link[k].detached)
         /\ \A t \in Conn : holder[t] = o => t = k

IInv == TypeOK /\ OpInv /\ OneRpcAtATime /\ StoppedIsQuiet

(***************************************************************************)
(* Types                                                                   *)
(***************************************************************************)
\* Every change that a step makes to a connection leaves one.
LEMMA LinkFields ==
  ASSUME NEW l \in Link
  PROVE  /\ \A k \in Keepers : [l EXCEPT !.keeper = k] \in Link
         /\ [l EXCEPT !.permit = TRUE] \in Link
         /\ \A k \in Keepers :
              [l EXCEPT !.permit = FALSE, !.connected = FALSE, !.keeper = k] \in Link
         /\ [l EXCEPT !.connected = TRUE, !.keeper = "store"] \in Link
         /\ [l EXCEPT !.client = "good", !.retries = 0, !.keeper = "wait"] \in Link
         /\ \A k \in Keepers : [l EXCEPT !.retries = l.retries + 1, !.keeper = k] \in Link
         /\ [l EXCEPT !.client = "bad"] \in Link
         /\ [l EXCEPT !.connected = TRUE, !.client = "good", !.keeper = "wait"] \in Link
         /\ [l EXCEPT !.shut = TRUE, !.permit = TRUE] \in Link
<1>1. l.retries + 1 \in Nat
  BY DEF Link
<1> QED
  BY <1>1 DEF Link, Clients, Keepers
LEMMA JoinedLink ==
  ASSUME NEW l \in Link
  PROVE  [l EXCEPT !.connected = FALSE, !.client = "none", !.detached = l.keeper # "gone"] \in Link
  BY Zenon DEF Link, Clients
LEMMA LinkTypes ==
  ASSUME link \in [Conn -> Link], NEW k \in Conn, NEW new \in Link,
         link' = [link EXCEPT ![k] = new]
  PROVE  link' \in [Conn -> Link]
  OBVIOUS

\* A connection has a server, and each server has a first connection.
LEMMA Connections ==
  /\ \A k \in Conn : Of(k) \in Server
  /\ \A s \in Server : <<s, 1>> \in Conn
  /\ \A s \in Server, i \in 1..MaxStarts : <<s, i>> \in Conn
  /\ Conn # {} /\ NoCall \in Call /\ NoCall.step = "idle"
<1>1. /\ \A k \in Conn : Of(k) \in Server
      /\ \A s \in Server : <<s, 1>> \in Conn
      /\ \A s \in Server, i \in 1..MaxStarts : <<s, i>> \in Conn
  BY McpAssumption DEF Conn, Of
<1>2. Conn # {}
  BY <1>1, McpAssumption
<1>3. (CHOOSE k \in Conn : TRUE) \in Conn
  BY <1>2
<1>4. NoCall \in Call
  BY <1>3 DEF NoCall, Call, CallSteps
<1>5. NoCall.step = "idle"
  BY DEF NoCall
<1> QED
  BY <1>1, <1>2, <1>4, <1>5
LEMMA ServersOf == \A conns \in SUBSET Conn : Servers(conns) \subseteq Server
  BY Connections DEF Servers

\* Steps of a call keep the types.
LEMMA CallTypes ==
  ASSUME TypeOK, NEW c \in Caller, CallStep(c)
  PROVE  TypeOK'
<1>1. ASSUME (\E k \in Conn : Begin(c, k)) \/ (\E s \in Server : BeginDirect(c, s)) \/ Find(c)
      PROVE  TypeOK'
  <2>1. ASSUME NEW k \in Conn, Begin(c, k) PROVE TypeOK'
    BY <2>1 DEF TypeOK, Begin, managing, Call, CallSteps
  <2>2. ASSUME NEW s \in Server, BeginDirect(c, s) PROVE TypeOK'
    BY <2>2, Connections DEF TypeOK, BeginDirect, managing, Call, CallSteps
  <2>3. ASSUME Find(c) PROVE TypeOK'
    <3>1. call' \in [Caller -> Call]
      <4>1. CASE Ends(c)
        BY <4>1, Connections DEF TypeOK, Ends
      <4>2. CASE \E k \in table : call' = [call EXCEPT ![c].step = "lock", ![c].conn = k]
        <5>1. PICK k \in table : call' = [call EXCEPT ![c].step = "lock", ![c].conn = k]
          BY <4>2
        <5>2. k \in Conn /\ call[c] \in Call /\ call \in [Caller -> Call]
          BY DEF TypeOK
        <5>3. [call[c] EXCEPT !.step = "lock", !.conn = k] \in Call
          BY <5>2 DEF Call, CallSteps
        <5> QED
          BY <5>1, <5>2, <5>3
      <4> QED
        BY <2>3, <4>1, <4>2 DEF Find
    <3> QED
      BY <2>3, <3>1 DEF TypeOK, Find, managing
  <2> QED
    BY <1>1, <2>1, <2>2, <2>3
<1>2. ASSUME NEW step \in CallSteps, Step(c, step)
      PROVE  call' \in [Caller -> Call]
  BY <1>2 DEF TypeOK, Step, Call
<1>12. Ends(c) => call' \in [Caller -> Call]
  BY Connections DEF TypeOK, Ends
<1>3. \A b \in Breaker : Bump(b) \in Breaker
  BY McpAssumption DEF Bump, Breaker
<1>4. ASSUME NEW outcome, Settle(c, outcome)
      PROVE  /\ call' \in [Caller -> Call]
             /\ breaker' \in [Server -> Breaker]
  <2>1. Closed \in Breaker
    BY DEF Closed, Breaker
  <2>2. Srv(c) \in Server /\ breaker \in [Server -> Breaker]
    BY Connections DEF TypeOK, Call, Srv, At
  <2>3. Concerns(c, outcome) \in [Server -> Breaker]
    BY <1>3, <2>1, <2>2 DEF Concerns
  <2>4. "recover" \in CallSteps
    BY DEF CallSteps
  <2> QED
    BY <1>2, <1>4, <1>12, <2>2, <2>3, <2>4 DEF Settle
<1>5. Release(c) => holder' \in [Conn -> Caller \cup Operator \cup {Nobody}]
  BY DEF TypeOK, Release
<1>6. CASE Acquire(c)
  <2>1. breaker' \in [Server -> Breaker] /\ call' \in [Caller -> Call]
    BY <1>2, <1>4, <1>6 DEF Acquire, TypeOK, CallSteps
  <2>2. holder' \in [Conn -> Caller \cup Operator \cup {Nobody}]
    BY <1>6 DEF Acquire, TypeOK, At, Call
  <2> QED
    BY <1>6, <2>1, <2>2 DEF Acquire, TypeOK, managing
<1>7. CASE Answer(c)
  BY <1>4, <1>5, <1>7 DEF Answer, TypeOK, managing
<1>8. CASE Timeout(c)
  BY <1>4, <1>5, <1>8 DEF Timeout, TypeOK, managing
<1>9. CASE Notify(c)
  <2>1. call[c].conn \in Conn /\ link \in [Conn -> Link] /\ "pause" \in CallSteps
    BY DEF TypeOK, CallSteps, Call
  <2>2. [link[call[c].conn] EXCEPT !.permit = TRUE] \in Link
    BY <2>1, LinkFields
  <2>3. link' \in [Conn -> Link]
    BY <1>9, <2>1, <2>2 DEF Notify, At
  <2> QED
    BY <1>2, <1>9, <2>1, <2>3 DEF Notify, TypeOK, managing
<1>10. CASE PauseOver(c)
  BY <1>2, <1>10 DEF PauseOver, TypeOK, managing, CallSteps
<1>11. CASE Dropped(c)
  BY <1>5, <1>11, <1>12 DEF Dropped, TypeOK, managing
<1> QED
  BY <1>1, <1>6, <1>7, <1>8, <1>9, <1>10, <1>11 DEF CallStep

\* Steps of a keeper, of a server and of the clock.
Surrounding ==
  \/ \E k \in Conn : KeeperStep(k) \/ Lose(k)
  \/ \E s \in Server : Return(s) \/ Cool(s)

\* They keep the types.
LEMMA KeeperTypes ==
  ASSUME TypeOK, Surrounding
  PROVE  TypeOK'
<1> USE DEF Kept, managing
<1>0. link \in [Conn -> Link] /\ \A k \in Conn : link[k] \in Link
  BY DEF TypeOK
<1>1. ASSUME NEW k \in Conn, KeeperStep(k) PROVE TypeOK'
  <2>1. \E new \in Link : link' = [link EXCEPT ![k] = new]
    <3>1. CASE Wake(k)
      BY <1>0, <3>1, LinkFields DEF Wake, Keepers
    <3>2. CASE Serve(k)
      BY <1>0, <3>2, LinkFields DEF Serve
    <3>3. CASE Store(k)
      BY <1>0, <3>3, LinkFields DEF Store
    <3>4. CASE ServeFails(k)
      BY <1>0, <3>4, LinkFields DEF ServeFails, Keepers
    <3>5. CASE SleepOver(k)
      BY <1>0, <3>5, LinkFields DEF SleepOver, Keepers
    <3> QED
      BY <1>1, <3>1, <3>2, <3>3, <3>4, <3>5 DEF KeeperStep
  <2>2. link' \in [Conn -> Link]
    BY <1>0, <2>1, LinkTypes
  <2>3. UNCHANGED Kept
    BY <1>1 DEF KeeperStep, Wake, Serve, Store, ServeFails, SleepOver
  <2> QED
    BY <2>2, <2>3 DEF TypeOK
<1>2. ASSUME NEW k \in Conn, Lose(k) PROVE TypeOK'
  <2>1. link' \in [Conn -> Link]
    BY <1>0, <1>2, LinkFields, LinkTypes DEF Lose
  <2>2. events' \in Nat
    BY <1>2 DEF Lose, TypeOK
  <2>3. reach' \in [Server -> BOOLEAN]
    BY <1>2, Connections, Zenon DEF Lose, TypeOK
  <2> QED
    BY <1>2, <2>1, <2>2, <2>3 DEF Lose, TypeOK
<1>3. ASSUME NEW s \in Server, Return(s) PROVE TypeOK'
  <2>1. reach' \in [Server -> BOOLEAN]
    BY <1>3, Zenon DEF Return, TypeOK
  <2> QED
    BY <1>3, <2>1 DEF Return, TypeOK
<1>4. \A s \in Server : Cool(s) => TypeOK'
  BY DEF Cool, managing, TypeOK, Breaker
<1> QED
  BY <1>1, <1>2, <1>3, <1>4 DEF Surrounding

\* Steps of a user of the manager keep the types.
LEMMA ManagerTypes ==
  ASSUME TypeOK, OpInv, NEW o \in Operator, ManagerStep(o)
  PROVE  TypeOK'
<1>1. ASSUME NEW step \in OpSteps, NEW todo \in SUBSET Conn, Op(o, step, todo)
      PROVE  op' \in [Operator -> Work]
  BY <1>1 DEF TypeOK, Op, Work
<1>2. \A l \in {"table", "tools"}, who \in Operator \cup {Nobody} :
        Give(l, who) => lock' \in [{"table", "tools"} -> Operator \cup {Nobody}]
  BY DEF TypeOK, Give
<1>3. /\ op[o].todo \in SUBSET Conn /\ op[o].over \in SUBSET Server
      /\ Servers(op[o].todo) \subseteq Server
  <2>1. op[o].todo \in SUBSET Conn /\ op[o].over \in SUBSET Server
    BY DEF TypeOK, Work
  <2> QED
    BY <2>1, ServersOf
<1>0. link \in [Conn -> Link] /\ \A k \in Conn : link[k] \in Link
  BY DEF TypeOK
<1>4. ASSUME NEW s \in Server, NEW i \in 1..MaxStarts, Start(o, s, i) PROVE TypeOK'
  <2>1. <<s, i>> \in Conn
    BY Connections
  <2>2. link' \in [Conn -> Link]
    BY <1>0, <1>4, <2>1, LinkFields, LinkTypes DEF Start
  <2>3. op' \in [Operator -> Work]
    BY <1>1, <1>4, <2>1 DEF Start, OpSteps
  <2>4. events' \in Nat
    BY <1>4 DEF Start, TypeOK
  <2> QED
    BY <1>4, <2>2, <2>3, <2>4 DEF Start, TypeOK
<1>5. Insert(o) \/ Register(o) => TypeOK'
  BY <1>1, <1>3 DEF Insert, Register, Others, TypeOK, OpSteps
<1>6. Entries(o) \/ EntriesMade(o) => TypeOK'
  BY <1>1, <1>2, <1>3 DEF Entries, EntriesMade, Others, TypeOK, OpSteps
<1>7. Status(o) \/ StatusKnown(o) => TypeOK'
  BY <1>1, <1>2, <1>3 DEF Status, StatusKnown, Others, TypeOK, OpSteps
<1>8. ASSUME NEW k \in Conn, StatusOf(o, k) PROVE TypeOK'
  BY <1>1, <1>3, <1>8 DEF StatusOf, Others, TypeOK, OpSteps
<1>9. ASSUME NEW stopped \in SUBSET Server, Stop(o, stopped) PROVE TypeOK'
  <2>1. op' \in [Operator -> Work]
    BY <1>9 DEF Stop, TypeOK, OpSteps, Work
  <2> QED
    BY <1>2, <1>9, <2>1 DEF Stop, Others, TypeOK
<1>10. ASSUME NEW k \in Conn, Shut(o, k) PROVE TypeOK'
  <2>1. link' \in [Conn -> Link]
    BY <1>0, <1>10, LinkFields, LinkTypes DEF Shut
  <2>2. op' \in [Operator -> Work]
    BY <1>1, <1>3, <1>10 DEF Shut, OpSteps
  <2> QED
    BY <1>10, <2>1, <2>2 DEF Shut, Others, TypeOK
<1>11. ASSUME NEW k \in Conn, Joined(o, k) PROVE TypeOK'
  <2>1. link' \in [Conn -> Link]
    BY <1>0, <1>11, JoinedLink, LinkTypes DEF Joined
  <2>2. op' \in [Operator -> Work]
    BY <1>1, <1>3, <1>11 DEF Joined, OpSteps
  <2> QED
    BY <1>11, <2>1, <2>2 DEF Joined, Others, TypeOK
<1>12. Clear(o) => TypeOK'
  <2>1. NoOp \in Work
    BY DEF NoOp, OpSteps, Work
  <2> QED
    BY <1>2, <2>1 DEF Clear, Others, TypeOK
<1>13. ASSUME NEW k \in Conn, Refresh(o, k) PROVE TypeOK'
  BY <1>1, <1>13 DEF Refresh, Others, TypeOK, OpSteps
<1>14. ASSUME NEW k \in Conn, Listed(o, k) PROVE TypeOK'
  <2>1. op' \in [Operator -> Work]
    BY <1>1, <1>14 DEF Listed, OpSteps
  <2>2. holder' \in [Conn -> Caller \cup Operator \cup {Nobody}]
    BY <1>14 DEF Listed, TypeOK
  <2> QED
    BY <1>14, <2>1, <2>2 DEF Listed, Others, TypeOK
<1>15. Unregister(o) \/ Reregister(o) => TypeOK'
  BY <1>1, <1>3 DEF Unregister, Reregister, Others, TypeOK, OpSteps
<1>16. ASSUME List(o), OpInv PROVE TypeOK'
  <2>1. PICK k \in Conn : op[o].todo = {k}
    BY <1>16 DEF List, Doing, OpInv
  <2>2. /\ holder' \in [Conn -> Caller \cup Operator \cup {Nobody}]
        /\ op' \in [Operator -> Work]
    BY <1>1, <1>16, <2>1 DEF List, TypeOK, OpSteps
  <2> QED
    BY <1>16, <2>2 DEF List, Others, TypeOK
<1> QED
  BY <1>4, <1>5, <1>6, <1>7, <1>8, <1>9, <1>10, <1>11, <1>12, <1>13, <1>14, <1>15, <1>16
     DEF ManagerStep, ManagerProgress

(***************************************************************************)
(* Mutexes and remote calls                                                *)
(***************************************************************************)
InCall(d) == call[d].step \in {"rpc", "rpc again"}

\* A tool call takes a free mutex for itself or gives back its own, and of a connection
\* it changes the signal at most.
LEMMA CallFrame ==
  ASSUME TypeOK, NEW c \in Caller, CallStep(c)
  PROVE  /\ op' = op
         /\ \A d \in Caller : d # c => call'[d] = call[d]
         /\ \A k \in Conn : /\ link'[k].shut = link[k].shut
                            /\ link'[k].detached = link[k].detached
                            /\ link'[k].connected = link[k].connected
                            /\ link'[k].client = link[k].client
                            /\ link'[k].keeper = link[k].keeper
         /\ \A k \in Conn : \/ holder'[k] = holder[k]
                            \/ holder[k] = c /\ holder'[k] = Nobody
                            \/ holder[k] = Nobody /\ holder'[k] = c
         /\ (InCall(c))' => Acquire(c)
<1> USE DEF managing, InCall
<1>1. call \in [Caller -> Call]
  BY DEF TypeOK
<1>2. link \in [Conn -> Link] /\ holder \in [Conn -> Caller \cup Operator \cup {Nobody}]
  BY DEF TypeOK
<1>3. ASSUME (\E k \in Conn : Begin(c, k)) \/ (\E s \in Server : BeginDirect(c, s)) \/ Find(c)
      PROVE  ~(InCall(c))' /\ UNCHANGED <<op, link, holder>> /\ \A d \in Caller : d # c => call'[d] = call[d]
  <2>0. \A new : call' = [call EXCEPT ![c] = new] => /\ call'[c] = new
                                                     /\ \A d \in Caller : d # c => call'[d] = call[d]
    BY <1>1
  <2>1. \E new : call' = [call EXCEPT ![c] = new] /\ new.step \notin {"rpc", "rpc again"}
    <3>1. CASE \E k \in Conn : Begin(c, k)
      BY <3>1 DEF Begin
    <3>2. CASE \E s \in Server : BeginDirect(c, s)
      BY <3>2 DEF BeginDirect
    <3>3. CASE Ends(c)
      BY <3>3, Connections DEF Ends
    <3>4. CASE Find(c) /\ ~Ends(c)
      <4>1. PICK k : call' = [call EXCEPT ![c] = [call[c] EXCEPT !.step = "lock", !.conn = k]]
        BY <3>4 DEF Find
      <4>2. [call[c] EXCEPT !.step = "lock", !.conn = k].step = "lock"
        BY <1>1 DEF Call
      <4> QED
        BY <4>1, <4>2
    <3> QED
      BY <1>3, <3>1, <3>2, <3>3, <3>4
  <2>2. ~(InCall(c))' /\ \A d \in Caller : d # c => call'[d] = call[d]
    BY <2>0, <2>1
  <2> QED
    BY <1>3, <2>2 DEF Begin, BeginDirect, Find
<1>4. \A outcome : Settle(c, outcome) => ~(InCall(c))' /\ \A d \in Caller : d # c => call'[d] = call[d]
  BY <1>1, Connections DEF Settle, Step, Ends, Call
<1>5. Release(c) => \A k \in Conn : holder'[k] = holder[k] \/ (holder[k] = c /\ holder'[k] = Nobody)
  <2> SUFFICES ASSUME Release(c), NEW k \in Conn
               PROVE  holder'[k] = holder[k] \/ (holder[k] = c /\ holder'[k] = Nobody)
    OBVIOUS
  <2> QED
    BY DEF Release
<1>6. CASE Acquire(c)
  <2>1. \A d \in Caller : d # c => call'[d] = call[d]
    BY <1>1, <1>4, <1>6 DEF Acquire, Step, Call
  <2> QED
    BY <1>2, <1>6, <2>1 DEF Acquire
<1>7. CASE Answer(c) \/ Timeout(c)
  BY <1>4, <1>5, <1>7 DEF Answer, Timeout
<1>8. CASE Notify(c)
  <2>1. ~(InCall(c))' /\ \A d \in Caller : d # c => call'[d] = call[d]
    BY <1>1, <1>8 DEF Notify, Step, Call
  <2> QED
    BY <1>1, <1>2, <1>8, <2>1 DEF Notify, Link, At, Call
<1>9. CASE PauseOver(c) \/ Dropped(c)
  <2>1. ~(InCall(c))' /\ \A d \in Caller : d # c => call'[d] = call[d]
    BY <1>1, <1>9, Connections DEF PauseOver, Dropped, Step, Ends, Call
  <2> QED
    BY <1>5, <1>9, <2>1 DEF PauseOver, Dropped
<1> QED
  BY <1>3, <1>6, <1>7, <1>8, <1>9 DEF CallStep

\* A step of a tool call keeps the invariant.
LEMMA CallKeeps ==
  ASSUME IInv, NEW c \in Caller, CallStep(c)
  PROVE  (OpInv /\ OneRpcAtATime /\ StoppedIsQuiet)'
<1> USE DEF InCall
<1>0. TypeOK
  BY DEF IInv
<1>1. c \notin Operator /\ Nobody \notin Operator /\ c # Nobody
  BY McpAssumption, NobodyAssumption
<1>2. \A k \in Conn, o \in Operator : holder'[k] = o <=> holder[k] = o
  BY <1>0, <1>1, CallFrame
<1>3. OpInv'
  <2>1. op' = op /\ OpInv
    BY <1>0, CallFrame DEF IInv
  <2>2. \A k \in Conn : link'[k].shut = link[k].shut /\ link'[k].detached = link[k].detached
    BY <1>0, CallFrame
  <2> QED
    BY <1>2, <2>1, <2>2 DEF OpInv
<1>4. \A d \in Caller : At(d) \in Conn
  BY <1>0 DEF TypeOK, At, Call
<1>5. Acquire(c) /\ (InCall(c))' => /\ holder[At(c)] = Nobody /\ holder'[At(c)] = c
                                  /\ Usable(At(c)) /\ (At(c))' = At(c)
  <2> SUFFICES ASSUME Acquire(c), (InCall(c))'
               PROVE  /\ holder[At(c)] = Nobody /\ holder'[At(c)] = c
                      /\ Usable(At(c)) /\ (At(c))' = At(c)
    OBVIOUS
  <2>1. call \in [Caller -> Call]
    BY <1>0 DEF TypeOK
  <2>2. Usable(At(c))
    BY <1>0, <2>1, Connections DEF Acquire, Settle, Step, Ends, Call
  <2>3. (At(c))' = At(c)
    BY <2>1, <2>2 DEF Acquire, Step, At, Call
  <2> QED
    BY <1>0, <1>4, <2>2, <2>3 DEF Acquire, TypeOK
<1>6. OneRpcAtATime'
  <2> SUFFICES ASSUME NEW d \in Caller, (InCall(d))'
               PROVE  (holder[At(d)] = d /\ link[At(d)].client # "none")'
    BY DEF OneRpcAtATime
  <2>1. CASE d = c
    BY <1>0, <1>4, <1>5, <2>1, CallFrame DEF Usable
  <2>2. CASE d # c
    <3>1. call'[d] = call[d]
      BY <1>0, <2>2, CallFrame
    <3>2. holder[At(d)] = d /\ link[At(d)].client # "none"
      BY <3>1 DEF IInv, OneRpcAtATime
    <3>3. (At(d))' = At(d)
      BY <3>1 DEF At
    <3>4. holder'[At(d)] = d
      BY <1>0, <1>1, <1>4, <2>2, <3>2, CallFrame, NobodyAssumption
    <3>5. link'[At(d)].client = link[At(d)].client
      BY <1>0, <1>4, CallFrame
    <3> QED
      BY <3>2, <3>3, <3>4, <3>5
  <2> QED
    BY <2>1, <2>2
<1>7. StoppedIsQuiet'
  <2> SUFFICES ASSUME NEW k \in Conn, (link[k].shut /\ holder[k] \notin Operator /\ ~link[k].detached)'
               PROVE  (link[k].keeper = "gone" /\ link[k].client = "none" /\ ~link[k].connected /\ ~InRpc(k))'
    BY DEF StoppedIsQuiet
  <2>1. link[k].shut /\ holder[k] \notin Operator /\ ~link[k].detached
    BY <1>0, <1>2, CallFrame
  <2>2. link[k].keeper = "gone" /\ link[k].client = "none" /\ ~link[k].connected /\ ~InRpc(k)
    BY <2>1 DEF IInv, StoppedIsQuiet
  <2>3. (InCall(c))' => (At(c))' # k
    BY <1>0, <1>5, <2>2, CallFrame DEF Usable
  <2>4. ~(InRpc(k))'
    BY <1>0, <2>2, <2>3, CallFrame DEF InRpc, At
  <2> QED
    BY <1>0, <2>2, <2>4, CallFrame
<1> QED
  BY <1>3, <1>6, <1>7

\* A step of a keeper, of a server or of the clock keeps it, too.
LEMMA KeeperKeeps ==
  ASSUME IInv, Surrounding
  PROVE  (OpInv /\ OneRpcAtATime /\ StoppedIsQuiet)'
<1>1. link \in [Conn -> Link]
  BY DEF IInv, TypeOK
<1>2. call' = call /\ holder' = holder /\ op' = op
  BY DEF Surrounding, KeeperStep, Wake, Serve, Store, ServeFails, SleepOver, Lose, Return, Cool, Kept, managing
<1>3. \A t \in Conn :
        /\ link'[t].shut = link[t].shut /\ link'[t].detached = link[t].detached
        /\ link[t].client # "none" => link'[t].client # "none"
        /\ (link[t].keeper = "gone" /\ link[t].client = "none") => link'[t] = link[t]
  <2>1. ASSUME NEW k \in Conn, KeeperStep(k)
        PROVE  \A t \in Conn :
                 /\ link'[t].shut = link[t].shut /\ link'[t].detached = link[t].detached
                 /\ link[t].client # "none" => link'[t].client # "none"
                 /\ (link[t].keeper = "gone" /\ link[t].client = "none") => link'[t] = link[t]
    BY <1>1, <2>1 DEF KeeperStep, Wake, Serve, Store, ServeFails, SleepOver, Link
  <2>2. ASSUME NEW k \in Conn, Lose(k)
        PROVE  \A t \in Conn :
                 /\ link'[t].shut = link[t].shut /\ link'[t].detached = link[t].detached
                 /\ link[t].client # "none" => link'[t].client # "none"
                 /\ link[t].client = "none" => link'[t] = link[t]
    BY <1>1, <2>2 DEF Lose, Link
  <2>3. ASSUME NEW s \in Server, Return(s) \/ Cool(s) PROVE link' = link
    BY <2>3 DEF Return, Cool
  <2> QED
    BY <2>1, <2>2, <2>3 DEF Surrounding
<1>4. OpInv'
  <2>1. OpInv /\ op' = op /\ holder' = holder
    BY <1>2 DEF IInv
  <2>2. \A t \in Conn : link'[t].shut = link[t].shut /\ link'[t].detached = link[t].detached
    BY <1>3
  <2> QED
    BY <2>1, <2>2 DEF OpInv
<1>5. OneRpcAtATime'
  <2>1. \A d \in Caller : call[d].conn \in Conn
    BY DEF IInv, TypeOK, Call
  <2>2. OneRpcAtATime /\ \A t \in Conn : link[t].client # "none" => link'[t].client # "none"
    BY <1>3 DEF IInv
  <2> QED
    BY <1>2, <2>1, <2>2 DEF OneRpcAtATime, At
<1>6. StoppedIsQuiet'
  <2> SUFFICES ASSUME NEW t \in Conn, (link[t].shut /\ holder[t] \notin Operator /\ ~link[t].detached)'
               PROVE  (link[t].keeper = "gone" /\ link[t].client = "none" /\ ~link[t].connected /\ ~InRpc(t))'
    BY DEF StoppedIsQuiet
  <2>1. link[t].shut /\ holder[t] \notin Operator /\ ~link[t].detached
    BY <1>2, <1>3
  <2>2. link[t].keeper = "gone" /\ link[t].client = "none" /\ ~link[t].connected /\ ~InRpc(t)
    BY <2>1 DEF IInv, StoppedIsQuiet
  <2>3. link'[t] = link[t]
    BY <1>3, <2>2
  <2>4. (InRpc(t))' = InRpc(t)
    BY <1>2 DEF InRpc, At
  <2> QED
    BY <2>2, <2>3, <2>4
<1> QED
  BY <1>4, <1>5, <1>6

\* Steps of the manager that take no mutex of a connection and touch none.
Elsewhere(o) ==
  \/ Insert(o) \/ Register(o) \/ Entries(o) \/ EntriesMade(o) \/ Status(o) \/ StatusKnown(o)
  \/ Clear(o) \/ Unregister(o) \/ Reregister(o)
  \/ \E stopped \in SUBSET Server : Stop(o, stopped)
  \/ \E k \in Conn : StatusOf(o, k) \/ Refresh(o, k)

LEMMA ElsewhereKeeps ==
  ASSUME IInv, NEW o \in Operator, Elsewhere(o)
  PROVE  (OpInv /\ OneRpcAtATime /\ StoppedIsQuiet)'
<1>1. UNCHANGED <<link, holder, call>> /\ op[o].step \notin {"join", "list"}
  BY DEF Elsewhere, Insert, Register, Entries, EntriesMade, Status, StatusKnown, Clear,
         Unregister, Reregister, Stop, StatusOf, Refresh, Others, Doing
<1>2. op \in [Operator -> Work]
  BY DEF IInv, TypeOK
<1>3. /\ \A p \in Operator : p # o => op'[p] = op[p]
      /\ op'[o].step = "list" => \E k \in Conn : op'[o].todo = {k}
  <2>1. CASE Insert(o) \/ Register(o) \/ Entries(o) \/ EntriesMade(o) \/ Status(o) \/ StatusKnown(o)
    BY <1>2, <2>1 DEF Insert, Register, Entries, EntriesMade, Status, StatusKnown, Op, Work
  <2>2. CASE Unregister(o) \/ Reregister(o)
    BY <1>2, <2>2 DEF Unregister, Reregister, Op, Work
  <2>5. CASE Clear(o)
    BY <1>2, <2>5 DEF Clear, NoOp, Work
  <2>3. ASSUME NEW stopped \in SUBSET Server, Stop(o, stopped)
        PROVE  op'[o].step = "stop" /\ \A p \in Operator : p # o => op'[p] = op[p]
    BY <1>2, <2>3 DEF Stop, Work
  <2>4. ASSUME NEW k \in Conn, StatusOf(o, k) \/ Refresh(o, k)
        PROVE  /\ \A p \in Operator : p # o => op'[p] = op[p]
               /\ op'[o].step = "list" => op'[o].todo = {k}
    BY <1>2, <2>4 DEF StatusOf, Refresh, Op, Work
  <2> QED
    BY <2>1, <2>2, <2>3, <2>4, <2>5 DEF Elsewhere
<1>4. OpInv'
  BY <1>1, <1>3 DEF IInv, OpInv
<1>5. OneRpcAtATime' /\ StoppedIsQuiet'
  BY <1>1 DEF IInv, OneRpcAtATime, StoppedIsQuiet, InRpc, At
<1> QED
  BY <1>4, <1>5

\* The steps that begin, take, use or give back a connection.
LEMMA HandsOnKeeps ==
  ASSUME IInv, NEW o \in Operator,
         \/ List(o)
         \/ \E s \in Server, i \in 1..MaxStarts : Start(o, s, i)
         \/ \E k \in Conn : Shut(o, k) \/ Joined(o, k) \/ Listed(o, k)
  PROVE  (OpInv /\ OneRpcAtATime /\ StoppedIsQuiet)'
<1>1. /\ op \in [Operator -> Work]
      /\ link \in [Conn -> Link] /\ holder \in [Conn -> Caller \cup Operator \cup {Nobody}]
      /\ \A d \in Caller : At(d) \in Conn
  BY DEF IInv, TypeOK, At, Call
<1>2. Nobody \notin Operator /\ \A d \in Caller : d \notin Operator /\ d # Nobody
  BY McpAssumption, NobodyAssumption
<1>3. OpInv /\ OneRpcAtATime /\ StoppedIsQuiet
  BY DEF IInv
<1>4. call' = call => \A d \in Caller : (At(d))' = At(d)
  BY DEF At
\* A server that nobody touches stays as it was.
<1> DEFINE Still(t) == link'[t] = link[t] /\ holder'[t] = holder[t]
<1>5. ASSUME NEW k \in Conn, call' = call, \A t \in Conn : t # k => Still(t),
             holder[k] \notin Caller
      PROVE  /\ OneRpcAtATime'
             /\ (~(link[k].shut /\ holder[k] \notin Operator /\ ~link[k].detached)
                  \/ (link[k].keeper = "gone" /\ link[k].client = "none" /\ ~link[k].connected))'
                => StoppedIsQuiet'
  <2>1. \A d \in Caller : call[d].step \in {"rpc", "rpc again"} => At(d) # k
    BY <1>1, <1>3, <1>5 DEF OneRpcAtATime
  <2>2. ~(InRpc(k))' /\ \A t \in Conn : (InRpc(t))' = InRpc(t)
    BY <1>5, <2>1 DEF InRpc, At
  <2>3. OneRpcAtATime'
    <3> SUFFICES ASSUME NEW d \in Caller, call'[d].step \in {"rpc", "rpc again"}
                 PROVE  holder'[call'[d].conn] = d /\ link'[call'[d].conn].client # "none"
      BY DEF OneRpcAtATime, At
    <3>1. call[d].step \in {"rpc", "rpc again"} /\ call'[d] = call[d]
      BY <1>5
    <3>2. At(d) # k /\ At(d) \in Conn /\ holder[At(d)] = d /\ link[At(d)].client # "none"
      BY <1>1, <1>3, <2>1, <3>1 DEF OneRpcAtATime
    <3> QED
      BY <1>5, <3>1, <3>2 DEF At
  <2> QED
    BY <1>3, <1>5, <2>2, <2>3 DEF StoppedIsQuiet
<1>6. ASSUME NEW s \in Server, NEW i \in 1..MaxStarts, Start(o, s, i)
      PROVE  (OpInv /\ OneRpcAtATime /\ StoppedIsQuiet)'
  <2>0. <<s, i>> \in Conn
    BY Connections
  <2> DEFINE k == <<s, i>>
  <2> HIDE DEF k
  <2>1. /\ call' = call /\ holder' = holder /\ op[o].step = "idle" /\ op'[o].step = "insert"
        /\ \A p \in Operator : p # o => op'[p] = op[p]
    BY <1>1, <1>6 DEF Start, Doing, Op, Work
  <2>2. /\ \A t \in Conn : t # k => link'[t] = link[t]
        /\ link[k].keeper = "none" /\ link'[k].client # "none"
        /\ link'[k].shut = link[k].shut /\ link'[k].detached = link[k].detached
    BY <1>1, <1>6, <2>0 DEF Start, Unmade, Link, k
  <2>3. OpInv'
    BY <1>3, <2>1, <2>2 DEF OpInv
  <2>4. OneRpcAtATime'
    <3> SUFFICES ASSUME NEW d \in Caller, call[d].step \in {"rpc", "rpc again"}
                 PROVE  holder'[At(d)] = d /\ link'[At(d)].client # "none"
      BY <2>1 DEF OneRpcAtATime, At
    <3>1. At(d) \in Conn /\ holder[At(d)] = d /\ link[At(d)].client # "none"
      BY <1>1, <1>3 DEF OneRpcAtATime
    <3> QED
      BY <2>1, <2>2, <3>1
  <2>5. StoppedIsQuiet'
    BY <1>3, <2>1, <2>2 DEF StoppedIsQuiet, InRpc, At
  <2> QED
    BY <2>3, <2>4, <2>5
<1>7. ASSUME NEW k \in Conn, Shut(o, k) PROVE (OpInv /\ OneRpcAtATime /\ StoppedIsQuiet)'
  <2>1. /\ call' = call /\ holder[k] = Nobody /\ holder'[k] = o
        /\ \A t \in Conn : t # k => Still(t)
        /\ op[o].step = "stop" /\ op'[o].step = "join" /\ k \in op'[o].todo
        /\ \A p \in Operator : p # o => op'[p] = op[p]
    BY <1>1, <1>7 DEF Shut, Others, Doing, Op, Work
  <2>2. OpInv'
    BY <1>2, <1>3, <2>1 DEF OpInv
  <2> QED
    BY <1>2, <1>5, <2>1, <2>2
<1>8. ASSUME NEW k \in Conn, Joined(o, k) PROVE (OpInv /\ OneRpcAtATime /\ StoppedIsQuiet)'
  <2>1. /\ call' = call /\ holder[k] = o /\ holder'[k] = Nobody
        /\ \A t \in Conn : t # k => Still(t)
        /\ op[o].step = "join" /\ op'[o].step = "stop"
        /\ \A p \in Operator : p # o => op'[p] = op[p]
    BY <1>1, <1>8 DEF Joined, Others, Doing, Op, Work
  <2>2. OpInv'
    BY <1>2, <1>3, <2>1 DEF OpInv
  <2>3. link' = [link EXCEPT ![k] = [link[k] EXCEPT !.connected = FALSE, !.client = "none",
                                                    !.detached = link[k].keeper # "gone"]]
    BY <1>8 DEF Joined
  <2>4. /\ link'[k].keeper = link[k].keeper /\ link'[k].client = "none" /\ ~link'[k].connected
        /\ link'[k].detached = (link[k].keeper # "gone")
    BY <1>1, <2>3, Zenon DEF Link
  <2> QED
    BY <1>2, <1>5, <2>1, <2>2, <2>4
<1>9. ASSUME NEW k \in Conn, Listed(o, k) PROVE (OpInv /\ OneRpcAtATime /\ StoppedIsQuiet)'
  <2>1. /\ call' = call /\ link' = link /\ holder[k] = o /\ holder'[k] = Nobody
        /\ \A t \in Conn : t # k => Still(t)
        /\ op[o].step = "list" /\ op'[o].step \in {"unregister", "idle"}
        /\ \A p \in Operator : p # o => op'[p] = op[p]
    <3>1. op' = [op EXCEPT ![o] = [op[o] EXCEPT !.step = "unregister", !.todo = {k}]]
            \/ op' = [op EXCEPT ![o] = [op[o] EXCEPT !.step = "idle", !.todo = {}]]
      BY <1>9 DEF Listed, Op
    <3>2. op'[o].step \in {"unregister", "idle"} /\ \A p \in Operator : p # o => op'[p] = op[p]
      BY <1>1, <3>1 DEF Work
    <3> QED
      BY <1>1, <1>9, <3>2 DEF Listed, Others, Doing
  <2>2. OpInv'
    BY <1>2, <1>3, <2>1 DEF OpInv
  <2>3. ~link[k].shut \/ link[k].detached
    BY <1>3, <2>1 DEF OpInv
  <2> QED
    BY <1>2, <1>5, <2>1, <2>2, <2>3
<1>10. ASSUME List(o) PROVE (OpInv /\ OneRpcAtATime /\ StoppedIsQuiet)'
  <2>1. PICK k \in Conn : op[o].todo = {k}
    BY <1>3, <1>10 DEF List, Doing, OpInv
  <2>2. call' = call /\ link' = link /\ holder[k] = Nobody /\ op[o].step = "list"
    BY <1>10, <2>1 DEF List, Others, Doing
  <2>3. CASE Usable(k)
    <3>1. op' = op /\ holder' = [holder EXCEPT ![k] = o]
      BY <1>10, <2>1, <2>3 DEF List
    <3>2. holder'[k] = o /\ \A t \in Conn : t # k => Still(t)
      BY <1>1, <2>2, <3>1
    <3>3. ~link[k].shut \/ link[k].detached
      BY <1>2, <1>3, <2>2, <2>3 DEF StoppedIsQuiet, Usable
    <3>4. OpInv'
      BY <1>2, <1>3, <2>1, <2>2, <3>1, <3>2, <3>3 DEF OpInv
    <3> QED
      BY <1>2, <1>5, <2>2, <3>2, <3>4
  <2>4. CASE ~Usable(k)
    <3>1. op'[o].step = "idle" /\ holder' = holder /\ \A p \in Operator : p # o => op'[p] = op[p]
      BY <1>1, <1>10, <2>1, <2>4 DEF List, Op, Work
    <3>2. OpInv'
      BY <1>2, <1>3, <2>1, <2>2, <3>1 DEF OpInv
    <3> QED
      BY <1>3, <2>2, <3>1, <3>2 DEF OneRpcAtATime, StoppedIsQuiet, InRpc, At
  <2> QED
    BY <2>3, <2>4
<1> QED
  BY <1>6, <1>7, <1>8, <1>9, <1>10

(***************************************************************************)
(* The theorems                                                            *)
(***************************************************************************)
LEMMA InvariantHolds == Spec => []IInv
<1>1. Init => IInv
  <2> SUFFICES ASSUME Init PROVE IInv
    OBVIOUS
  <2>1. NoLink \in Link
    BY DEF NoLink, Link, Clients, Keepers
  <2>2. Closed \in Breaker
    BY DEF Closed, Breaker
  <2>3. NoOp \in Work
    BY DEF NoOp, OpSteps, Work
  <2>6. TypeOK
    BY <2>1, <2>2, <2>3, Connections DEF Init, TypeOK
  <2>7. OpInv
    BY NobodyAssumption DEF Init, OpInv, NoOp
  <2>8. OneRpcAtATime /\ StoppedIsQuiet
    BY DEF Init, OneRpcAtATime, StoppedIsQuiet, NoLink, NoCall
  <2> QED
    BY <2>6, <2>7, <2>8 DEF IInv
<1>2. IInv /\ [Next]_vars => IInv'
  <2> SUFFICES ASSUME IInv, [Next]_vars PROVE IInv'
    OBVIOUS
  <2>1. ASSUME NEW c \in Caller, CallStep(c) PROVE IInv'
    BY <2>1, CallTypes, CallKeeps DEF IInv
  <2>2. Surrounding => IInv'
    BY KeeperTypes, KeeperKeeps DEF IInv
  <2>3. ASSUME NEW o \in Operator, ManagerStep(o) PROVE IInv'
    <3>1. \/ Elsewhere(o) \/ List(o)
          \/ \E s \in Server, i \in 1..MaxStarts : Start(o, s, i)
          \/ \E k \in Conn : Shut(o, k) \/ Joined(o, k) \/ Listed(o, k)
      BY <2>3 DEF ManagerStep, ManagerProgress, Elsewhere
    <3> QED
      BY <2>3, <3>1, ManagerTypes, ElsewhereKeeps, HandsOnKeeps DEF IInv
  <2>4. CASE UNCHANGED vars
    <3>1. TypeOK'
      BY <2>4 DEF vars, IInv, TypeOK
    <3>2. link' = link /\ holder' = holder /\ op' = op /\ call' = call
      BY <2>4 DEF vars
    <3>3. OpInv'
      BY <3>2 DEF IInv, OpInv
    <3>4. OneRpcAtATime'
      BY <3>2 DEF IInv, OneRpcAtATime, At
    <3>5. StoppedIsQuiet'
      BY <3>2 DEF IInv, StoppedIsQuiet, InRpc, At
    <3> QED
      BY <3>1, <3>3, <3>4, <3>5 DEF IInv
  <2> QED
    BY <2>1, <2>2, <2>3, <2>4 DEF Next, Surrounding
<1> QED
  BY <1>1, <1>2, PTL DEF Spec

\* Every variable has its type: the connections, calls and users of the client.
THEOREM McpTypeCorrect == Spec => []TypeOK
<1>1. IInv => TypeOK
  BY DEF IInv
<1> QED
  BY <1>1, InvariantHolds, PTL

\* The mutex of a connection goes with its one remote call, whatever times out, is dropped,
\* recovered, listed or stopped meanwhile (bridge.rs do_call, connection.rs disconnect).
THEOREM OneCallAtATime == Spec => []OneRpcAtATime
<1>1. IInv => OneRpcAtATime
  BY DEF IInv
<1> QED
  BY <1>1, InvariantHolds, PTL

\* A connection that was shut, with its keeper gone in time, is never used or served again
\* (connection.rs disconnect).
THEOREM StoppedStaysQuiet == Spec => []StoppedIsQuiet
<1>1. IInv => StoppedIsQuiet
  BY DEF IInv
<1> QED
  BY <1>1, InvariantHolds, PTL

\* The two tables of the breaker never disagree, whatever calls report at once
\* (circuit_breaker.rs bump_error, reset_error).
THEOREM BreakersAgree == Spec => []BreakerAgrees
<1> DEFINE Agrees(b) == b.errors <= Threshold /\ (b.errors = Threshold <=> b.opened # "no")
<1> DEFINE BInv == \A s \in Server : Agrees(breaker[s])
<1>1. Agrees(Closed) /\ Init => BInv
  BY DEF Init
<1>2. Agrees(Closed)
  BY McpAssumption DEF Closed
<1>3. \A b \in Breaker : Agrees(b) => Agrees(Bump(b))
  BY McpAssumption DEF Bump, Breaker
<1>4. IInv /\ BInv /\ [Next]_vars => BInv'
  <2> SUFFICES ASSUME IInv, BInv, [Next]_vars PROVE BInv'
    OBVIOUS
  <2>1. breaker \in [Server -> Breaker] /\ \A c \in Caller : Srv(c) \in Server
    BY Connections DEF IInv, TypeOK, Call, At, Srv, Call
  <2>2. ASSUME NEW c \in Caller, NEW outcome, Settle(c, outcome) PROVE BInv'
    <3>1. breaker' = breaker \/ breaker' = [breaker EXCEPT ![Srv(c)] = Closed]
            \/ breaker' = [breaker EXCEPT ![Srv(c)] = Bump(breaker[Srv(c)])]
      BY <2>2 DEF Settle, Concerns
    <3> HIDE DEF Agrees
    <3> QED
      BY <1>2, <1>3, <2>1, <3>1
  <2>3. ASSUME NEW c \in Caller, CallStep(c) PROVE BInv'
    <3>1. breaker' = breaker \/ \E outcome : Settle(c, outcome)
      BY <2>3 DEF CallStep, Begin, BeginDirect, Find, Acquire, Answer, Timeout, Notify, PauseOver, Dropped
    <3> QED
      BY <2>2, <3>1
  <2>4. ASSUME NEW s \in Server, Cool(s) PROVE BInv'
    BY <2>1, <2>4 DEF Cool, Breaker
  <2>5. (\E k \in Conn : KeeperStep(k) \/ Lose(k)) \/ (\E s \in Server : Return(s)) => breaker' = breaker
    BY DEF KeeperStep, Wake, Serve, Store, ServeFails, SleepOver, Lose, Return, Kept
  <2>6. ASSUME NEW o \in Operator, ManagerStep(o) PROVE breaker' = breaker
    BY <2>6 DEF ManagerStep, ManagerProgress, Start, Insert, Register, Entries, EntriesMade,
         Status, StatusOf, StatusKnown, Stop, Shut, Joined, Clear, Refresh, List, Listed,
         Unregister, Reregister, Others
  <2>7. UNCHANGED vars => breaker' = breaker
    BY DEF vars
  <2> QED
    BY <2>3, <2>4, <2>5, <2>6, <2>7 DEF Next
<1>5. BInv => BreakerAgrees
  BY DEF BreakerAgrees
<1> QED
  BY <1>1, <1>2, <1>4, <1>5, InvariantHolds, PTL DEF Spec
=============================================================================
