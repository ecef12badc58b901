------------------------------- MODULE FanOut -------------------------------
(***************************************************************************)
(* The single exit of the application (fuyao-app/src/runtime/app.rs): a    *)
(* forwarder per mounted session takes the session's events from an        *)
(* unbounded channel and puts them into one bounded channel, from which    *)
(* the application's caller receives.  Destroying a session, and shutting  *)
(* down, ends the session's task, then takes the forwarder out of the      *)
(* table and waits for it, with a time limit.                              *)
(*                                                                         *)
(* A session that is mounted again has another channel and another         *)
(* forwarder: a stream is a session and the number of its life.  One       *)
(* caller at a time mounts a session; EngineSessions has the races of two. *)
(***************************************************************************)
EXTENDS Integers, Sequences, FiniteSetsExt

CONSTANTS
  Session,
  Capacity,   \* [engine].fan_out_capacity
  MaxLives,   \* bound: times sessions are mounted, all in all
  MaxEvents   \* bound: events of a life

VARIABLES
  task,   \* per session: [life, state, call |-> whether a caller is mounting it]
  sent,   \* per stream: how many events the task has emitted
  queue,  \* per stream: the events its forwarder has not taken
  fwd,    \* per stream: [state, held |-> the event it is putting, aborted]
  table,  \* forward_tasks: the life whose forwarder is registered, 0 for none
  closer, \* per session, the call that ends it: [step, life |-> the handle it holds]
  fan,    \* the bounded channel
  seen,   \* what recv has returned
  app     \* "open", "closing" since shutdown took the application, "gone"

vars == <<task, sent, queue, fwd, table, closer, fan, seen, app>>

Life == 1..MaxLives
Stream == Session \X Life
Event == Stream \X (1..MaxEvents)
NoFwd == [state |-> "none", held |-> <<>>, aborted |-> FALSE]
Running == {"waiting", "putting"}
TypeOK ==
  /\ task \in [Session -> [life : 0..MaxLives, state : {"off", "on", "ending"},
                           call : {"none", "mounted"}]]
  /\ sent \in [Stream -> 0..MaxEvents]
  /\ \A s \in Stream : queue[s] \in Seq(Event)
  /\ \A s \in Stream : fwd[s].state \in {"none", "ended"} \union Running /\ Len(fwd[s].held) <= 1
  /\ table \in [Session -> 0..MaxLives]
  /\ closer \in [Session -> [step : {"none", "task", "table", "join", "drained", "left"}, life : 0..MaxLives]]
  /\ Len(fan) <= Capacity /\ app \in {"open", "closing", "gone"}
Init ==
  /\ task = [s \in Session |-> [life |-> 0, state |-> "off", call |-> "none"]]
  /\ sent = [s \in Stream |-> 0] /\ queue = [s \in Stream |-> <<>>] /\ fwd = [s \in Stream |-> NoFwd]
  /\ table = [s \in Session |-> 0] /\ closer = [s \in Session |-> [step |-> "none", life |-> 0]]
  /\ fan = <<>> /\ seen = <<>> /\ app = "open"

Current(s) == <<s, task[s].life>>

(***************************************************************************)
(* A session                                                               *)
(***************************************************************************)
\* create_session, resume_session: one with a forwarder is taken for mounted.  The engine
\* mounts the session; its forwarder comes after an await.
Mount(s) ==
  /\ app = "open" /\ table[s] = 0 /\ task[s].state = "off" /\ task[s].call = "none"
  /\ task[s].life < MaxLives /\ MapThenSumSet(LAMBDA t : task[t].life, Session) < MaxLives
  /\ task' = [task EXCEPT ![s] = [life |-> @.life + 1, state |-> "on", call |-> "mounted"]]
  /\ UNCHANGED <<sent, queue, fwd, table, closer, fan, seen, app>>
\* register_forwarder
Register(s) ==
  /\ task[s].call = "mounted"
  /\ task' = [task EXCEPT ![s].call = "none"] /\ table' = [table EXCEPT ![s] = task[s].life]
  /\ fwd' = [fwd EXCEPT ![Current(s)].state = "waiting"]
  /\ UNCHANGED <<sent, queue, closer, fan, seen, app>>
\* The task emits, to its last event, until it ends.
Emit(s) ==
  /\ task[s].state \in {"on", "ending"} /\ sent[Current(s)] < MaxEvents
  /\ sent' = [sent EXCEPT ![Current(s)] = @ + 1]
  /\ queue' = [queue EXCEPT ![Current(s)] = Append(@, <<Current(s), sent[Current(s)] + 1>>)]
  /\ UNCHANGED <<task, fwd, table, closer, fan, seen, app>>

(***************************************************************************)
(* A forwarder: forward_events                                             *)
(***************************************************************************)
Take(s) ==
  /\ fwd[s].state = "waiting" /\ queue[s] # <<>>
  /\ fwd' = [fwd EXCEPT ![s].state = "putting", ![s].held = <<Head(queue[s])>>]
  /\ queue' = [queue EXCEPT ![s] = Tail(@)]
  /\ UNCHANGED <<task, sent, table, closer, fan, seen, app>>
Put(s) ==
  /\ fwd[s].state = "putting" /\ app # "gone" /\ Len(fan) < Capacity
  /\ fan' = fan \o fwd[s].held
  /\ fwd' = [fwd EXCEPT ![s].state = "waiting", ![s].held = <<>>]
  /\ UNCHANGED <<task, sent, queue, table, closer, seen, app>>
\* The channel of the session is closed and empty.
End(s) ==
  /\ fwd[s].state = "waiting" /\ queue[s] = <<>>
  /\ task[s[1]].state = "off" \/ task[s[1]].life > s[2]
  /\ fwd' = [fwd EXCEPT ![s].state = "ended"]
  /\ UNCHANGED <<task, sent, queue, table, closer, fan, seen, app>>
\* An aborted one ends at its next await, whatever it holds.
Die(s) ==
  /\ fwd[s].aborted /\ fwd[s].state \in Running
  /\ fwd' = [fwd EXCEPT ![s].state = "ended", ![s].held = <<>>]
  /\ UNCHANGED <<task, sent, queue, table, closer, fan, seen, app>>

Recv ==
  /\ app = "open" /\ fan # <<>>
  /\ seen' = Append(seen, Head(fan)) /\ fan' = Tail(fan)
  /\ UNCHANGED <<task, sent, queue, fwd, table, closer, app>>

(***************************************************************************)
(* The end of a session: destroy_session, shutdown, end_one_forward_task   *)
(***************************************************************************)
Closing(s, step) == closer[s].step = step
Closed(s, step, life) == closer' = [closer EXCEPT ![s] = [step |-> step, life |-> life]]
\* The engine takes the session out of its own table and tells the task to end.
Destroy(s) ==
  /\ app = "open" /\ task[s].state = "on" /\ closer[s].step \in {"none", "drained", "left"}
  /\ task' = [task EXCEPT ![s].state = "ending"] /\ Closed(s, "task", 0)
  /\ UNCHANGED <<sent, queue, fwd, table, fan, seen, app>>
TaskEnds(s) ==
  /\ task[s].state = "ending" /\ task' = [task EXCEPT ![s].state = "off"]
  /\ IF Closing(s, "task") THEN Closed(s, "table", 0) ELSE UNCHANGED closer
  /\ UNCHANGED <<sent, queue, fwd, table, fan, seen, app>>
\* Without a handle there is nothing to wait for.
Unforward(s) ==
  /\ Closing(s, "table") /\ Closed(s, IF table[s] = 0 THEN "left" ELSE "join", table[s])
  /\ table' = [table EXCEPT ![s] = 0]
  /\ UNCHANGED <<task, sent, queue, fwd, fan, seen, app>>
Joined(s) ==
  /\ Closing(s, "join") /\ fwd[<<s, closer[s].life>>].state = "ended"
  /\ Closed(s, IF fwd[<<s, closer[s].life>>].aborted THEN "left" ELSE "drained", closer[s].life)
  /\ UNCHANGED <<task, sent, queue, fwd, table, fan, seen, app>>
TimedOut(s) ==
  /\ Closing(s, "join") /\ fwd[<<s, closer[s].life>>].state # "ended"
  /\ fwd' = [fwd EXCEPT ![<<s, closer[s].life>>].aborted = TRUE] /\ Closed(s, "left", closer[s].life)
  /\ UNCHANGED <<task, sent, queue, table, fan, seen, app>>

\* The application is consumed: nobody receives any more, nobody mounts or destroys.
Shutdown ==
  /\ app = "open" /\ app' = "closing"
  /\ \A s \in Session : task[s].call = "none" /\ closer[s].step \in {"none", "drained", "left"}
  /\ task' = [s \in Session |-> IF task[s].state = "on" THEN [task[s] EXCEPT !.state = "ending"] ELSE task[s]]
  /\ UNCHANGED <<sent, queue, fwd, table, closer, fan, seen>>
\* When all tasks have ended the table is drained and every forwarder is awaited.
DrainTable ==
  /\ app = "closing" /\ \A s \in Session : task[s].state = "off"
  /\ \E s \in Session : table[s] # 0
  /\ closer' = [s \in Session |-> IF table[s] = 0 THEN closer[s] ELSE [step |-> "join", life |-> table[s]]]
  /\ table' = [s \in Session |-> 0]
  /\ UNCHANGED <<task, sent, queue, fwd, fan, seen, app>>
\* The application is dropped, and the channel with what is in it.
Dropped ==
  /\ app = "closing" /\ app' = "gone"
  /\ \A s \in Session : task[s].state = "off" /\ table[s] = 0 /\ ~Closing(s, "join")
  /\ UNCHANGED <<task, sent, queue, fwd, table, closer, fan, seen>>

Next ==
  \/ \E s \in Session :
       Mount(s) \/ Register(s) \/ Emit(s) \/ Destroy(s) \/ TaskEnds(s)
         \/ Unforward(s) \/ Joined(s) \/ TimedOut(s)
  \/ \E s \in Stream : Take(s) \/ Put(s) \/ End(s) \/ Die(s)
  \/ Recv \/ Shutdown \/ DrainTable \/ Dropped
Spec == Init /\ [][Next]_vars

(***************************************************************************)
(* Properties                                                              *)
(***************************************************************************)
Arrived == seen \o fan
Waiting(s) == fwd[s].held \o queue[s]
\* How many of a life's events its forwarder is done with.
Gone(s) == sent[s] - Len(Waiting(s))
\* A caller receives the events of a life of a session from the first on, in their order,
\* without a gap and once; and unless its forwarder was aborted all of them are on their way
\* (app.rs forward_events: whatever is full, slow, destroyed or mounted again meanwhile).
StreamsAreWhole ==
  /\ \A i \in DOMAIN Arrived :
       LET s == Arrived[i][1]
           n == Arrived[i][2]
       IN /\ n \in 1..Gone(s)
          /\ \A k \in 1 .. n - 1 : \E j \in 1 .. i - 1 : Arrived[j] = <<s, k>>
          /\ \A j \in 1 .. i - 1 : Arrived[j] # Arrived[i]
  /\ \A s \in Stream :
       /\ \A i \in DOMAIN Waiting(s) : Waiting(s)[i] = <<s, Gone(s) + i>>
       /\ ~fwd[s].aborted => \A n \in 1..Gone(s) : \E i \in DOMAIN Arrived : Arrived[i] = <<s, n>>
\* When destroy_session has waited for the forwarder and returned in time, nothing of that
\* life is still to come: the events of a session mounted again follow those it had before.
DestroyedIsQuiet ==
  \A s \in Session : Closing(s, "drained") =>
    LET stream == <<s, closer[s].life>>
    IN fwd[stream].held = <<>> /\ queue[stream] = <<>> /\ fwd[stream].state = "ended"
=============================================================================
