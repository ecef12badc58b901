------------------------ MODULE EngineSessionsProofs ------------------------
(***************************************************************************)
(* Theorems about EngineSessions, for every set of sessions and of callers *)
(* and every bound.                                                        *)
(***************************************************************************)
EXTENDS EngineSessions, TLAPS, SequenceTheorems, FiniteSetTheorems

(***************************************************************************)
(* The invariant                                                           *)
(***************************************************************************)
\* The table holds tasks of the session it files them under, none of them disposed.
TableInv ==
  \A s \in Sid : table[s] # 0 =>
    table[s] \in Index /\ task[table[s]].sid = s /\ task[table[s]].disposed = 0

\* A handle that a call is about to end is in no other call and not in the table.
EndInv ==
  \A c \in Caller : call[c].step = "end" => \A i \in call[c].holds :
    /\ i \in Index /\ task[i].disposed = 0
    /\ \A s \in Sid : table[s] # i
    /\ \A d \in Caller : call[d].step = "end" /\ i \in call[d].holds => d = c

DisposedInv == \A i \in Index : task[i].disposed <= 1

\* A turn that a stopping call has seen is not one to come; when it reports the
\* session quiet, the turn is over.
StopInv ==
  \A c \in Caller : call[c].step \in {"signal", "wait", "quiet"} =>
    /\ \A i, j \in call[c].holds : i = j /\ i \in Index
    /\ \A turn \in call[c].seen : turn[1] \in call[c].holds =>
         /\ turn[1] \in Index /\ turn[2] <= task[turn[1]].turns
         /\ call[c].step = "quiet" => ~StillRuns(turn)

\* A call that mounts a session or waits for a child names the session.
SidOf(c) == call[c].step \in {"mount", "register", "child"} => call[c].sid \in Sid
SidInv == \A c \in Caller : SidOf(c)

IInv ==
  /\ Typed /\ TableInv /\ EndInv /\ DisposedInv /\ SidInv
  /\ Isolation /\ ShutdownReachesAll /\ StopInv

(***************************************************************************)
(* Types                                                                   *)
(***************************************************************************)
\* What a step of a task, a caller's entry or signal, or a cancellation leaves of the
\* tasks: who they are, and turns that only go forward.
Progress ==
  /\ task' \in Seq(Task) /\ Len(task') >= Len(task)
  /\ \A i \in Index :
       /\ task'[i].sid = task[i].sid
       /\ task'[i].turns >= task[i].turns
       /\ task'[i].life = "turn" =>
            \/ task[i].life = "turn" /\ task'[i].turns = task[i].turns
            \/ task'[i].turns > task[i].turns

\* One task changes to a task.
LEMMA OneTaskType ==
  ASSUME task \in Seq(Task), NEW i \in Index, NEW new \in Task,
         task' = [task EXCEPT ![i] = new]
  PROVE  /\ task' \in Seq(Task) /\ Len(task') = Len(task)
         /\ task'[i] = new /\ \A j \in Index : j # i => task'[j] = task[j]
<1>1. task' \in Seq(Task) /\ Len(task') = Len(task)
  BY ExceptSeq DEF Index
<1> QED
  BY <1>1 DEF Index

\* The tokens of some tasks are cancelled; nothing else changes.
LEMMA CancelType ==
  ASSUME task \in Seq(Task), NEW S, Cancel(S)
  PROVE  /\ task' \in Seq(Task) /\ Len(task') = Len(task)
         /\ \A i \in Index : /\ i \in S => task'[i] = [task[i] EXCEPT !.cancelled = TRUE]
                             /\ i \notin S => task'[i] = task[i]
<1>1. ASSUME NEW i \in Index
      PROVE  /\ task'[i] \in Task
             /\ i \in S => task'[i] = [task[i] EXCEPT !.cancelled = TRUE]
             /\ i \notin S => task'[i] = task[i]
  <2>1. task[i] \in Task
    BY DEF Index
  <2>2. task'[i] = IF i \in S THEN [task[i] EXCEPT !.cancelled = TRUE] ELSE task[i]
    BY DEF Cancel
  <2>3. [task[i] EXCEPT !.cancelled = TRUE] \in Task
    BY <2>1 DEF Task
  <2> QED
    BY <2>1, <2>2, <2>3
<1>2. DOMAIN task' = 1 .. Len(task) /\ Len(task) \in Nat
  BY DEF Cancel, Index
<1>3. task' = [i \in 1 .. Len(task) |-> task'[i]]
  BY DEF Cancel, Index
<1>4. task' \in [1 .. Len(task) -> Task]
  BY <1>1, <1>3 DEF Index
<1>5. task' \in Seq(Task) /\ Len(task') = Len(task)
  BY <1>2, <1>4, IsASeq, LenProperties
<1> QED
  BY <1>1, <1>5

\* What the four ways a caller moves on do to its record and to the others'.
Alone(c) == call' \in [Caller -> Call] /\ \A d \in Caller : d # c => call'[d] = call[d]

LEMMA SeenType ==
  ASSUME task \in Seq(Task), NEW s
  PROVE  TurnsOf(s) \subseteq Nat \X Nat
<1>1. \A i \in Index : i \in Nat /\ task[i] \in Task
  BY DEF Index
<1>2. \A i \in Index : <<i, task[i].turns>> \in Nat \X Nat
  BY <1>1 DEF Task
<1> QED
  BY <1>2 DEF TurnsOf

LEMMA CallMoves ==
  ASSUME call \in [Caller -> Call], NEW c \in Caller
  PROVE  /\ Return(c) => Alone(c) /\ call'[c] = NoCall /\ NoCall.step = "none"
         /\ Quiet(c) => /\ Alone(c) /\ call'[c].step = "quiet"
                        /\ call'[c].holds = call[c].holds /\ call'[c].seen = call[c].seen
         /\ \A step \in Steps, holds \in SUBSET (Nat \ {0}) :
              /\ Goto(c, step, holds) =>
                   /\ Alone(c) /\ call'[c].step = step /\ call'[c].holds = holds
                   /\ call'[c].seen = call[c].seen /\ call'[c].sid = call[c].sid
<1>1. NoCall \in Call /\ NoCall.step = "none"
  BY DEF NoCall, Call, Steps
<1>2. call[c] \in Call
  OBVIOUS
<1>3. Return(c) => Alone(c) /\ call'[c] = NoCall
  BY <1>1 DEF Return, Alone
<1>4. Quiet(c) => /\ Alone(c) /\ call'[c].step = "quiet"
                  /\ call'[c].holds = call[c].holds /\ call'[c].seen = call[c].seen
  <2>1. [call[c] EXCEPT !.step = "quiet"] \in Call
    BY <1>2 DEF Call, Steps
  <2>2. ASSUME Quiet(c) PROVE Alone(c) /\ call'[c] = [call[c] EXCEPT !.step = "quiet"]
    BY <2>1, <2>2 DEF Quiet, Alone
  <2> QED
    BY <1>2, <2>2 DEF Call
<1>5. ASSUME NEW step \in Steps, NEW holds \in SUBSET (Nat \ {0}), Goto(c, step, holds)
      PROVE  /\ Alone(c) /\ call'[c].step = step /\ call'[c].holds = holds
             /\ call'[c].seen = call[c].seen /\ call'[c].sid = call[c].sid
  <2>1. [call[c] EXCEPT !.step = step, !.holds = holds] \in Call
    BY <1>2 DEF Call
  <2>2. Alone(c) /\ call'[c] = [call[c] EXCEPT !.step = step, !.holds = holds]
    BY <1>5, <2>1 DEF Goto, Alone
  <2> QED
    BY <1>2, <2>2 DEF Call
<1> QED
  BY <1>1, <1>3, <1>4, <1>5

LEMMA CallBegins ==
  ASSUME call \in [Caller -> Call], NEW c \in Caller, NEW step \in Steps,
         NEW holds \in SUBSET (Nat \ {0}), NEW s \in Sid,
         Begin(c, s, step, holds), TurnsOf(s) \subseteq Nat \X Nat
  PROVE  /\ Alone(c) /\ call'[c].step = step /\ call'[c].holds = holds
         /\ call'[c].seen = Watched(s, step) /\ call'[c].sid = s
         /\ step \in {"signal", "quiet"} => call'[c].seen = TurnsOf(s)
<1> DEFINE new == [NoCall EXCEPT !.step = step, !.sid = s, !.holds = holds,
                                 !.seen = Watched(s, step)]
<1>0. /\ Watched(s, step) \subseteq Nat \X Nat
      /\ step \in {"signal", "quiet"} => Watched(s, step) = TurnsOf(s)
  BY DEF Watched
<1>1. new \in Call
  BY <1>0 DEF NoCall, Call
<1>2. Alone(c) /\ call'[c] = new
  BY <1>1 DEF Begin, Alone
<1> QED
  BY <1>0, <1>2 DEF NoCall

\* Handles in the table are natural numbers.
LEMMA FoundType == Typed => \A s \in Sid : Found(s) \in SUBSET (Nat \ {0})
BY DEF Typed, Found

(***************************************************************************)
(* Steps of a call that leave tasks and table alone                        *)
(***************************************************************************)
\* What StopInv says of one caller, in the state after a step.
StopOf(c) ==
  call[c].step \in {"signal", "wait", "quiet"} =>
    /\ \A i, j \in call[c].holds : i = j /\ i \in Index
    /\ \A turn \in call[c].seen : turn[1] \in call[c].holds =>
         /\ turn[1] \in Index /\ turn[2] <= task[turn[1]].turns
         /\ call[c].step = "quiet" => ~StillRuns(turn)

LEMMA CallOnly ==
  ASSUME IInv, NEW c \in Caller, Alone(c), UNCHANGED <<flag, table, task, sends>>,
         db' \subseteq Sid, forward' \in [Sid -> Nat],
         call'[c].step # "end", StopOf(c)', SidOf(c)'
  PROVE  IInv'
<1> USE DEF IInv
<1>1. Typed'
  BY DEF Typed, Alone
<1>2. TableInv' /\ DisposedInv' /\ Isolation' /\ ShutdownReachesAll'
  BY DEF TableInv, DisposedInv, Isolation, ShutdownReachesAll, Index
<1>3. EndInv'
  <2>1. \A d \in Caller : call'[d].step = "end" => call'[d] = call[d]
    BY DEF Alone
  <2> QED
    BY <2>1 DEF EndInv, Index
<1>4. StopInv'
  <2>2. ASSUME NEW d \in Caller PROVE StopOf(d)'
    <3>1. CASE d = c
      BY <3>1
    <3>2. CASE d # c
      <4>1. call'[d] = call[d]
        BY <3>2 DEF Alone
      <4>2. StopOf(d)
        BY DEF StopInv, StopOf
      <4> QED
        BY <4>1, <4>2 DEF StopOf, Index, StillRuns, InTurn
    <3> QED
      BY <3>1, <3>2
  <2> QED
    BY <2>2 DEF StopInv, StopOf
<1>5. SidInv'
  BY DEF SidInv, SidOf, Alone
<1> QED
  BY <1>1, <1>2, <1>3, <1>4, <1>5

\* A turn under way when a stop begins has the number of the turns begun so far.
LEMMA SeenTurns ==
  ASSUME IInv, NEW s \in Sid, NEW turn \in TurnsOf(s)
  PROVE  /\ turn[1] \in Index /\ turn[2] = task[turn[1]].turns
         /\ turn[2] <= task[turn[1]].turns /\ InTurn(turn[1])
<1>1. PICK i \in Index : turn = <<i, task[i].turns>> /\ InTurn(i)
  BY DEF TurnsOf
<1>2. task \in Seq(Task) /\ i \in 1 .. Len(task)
  BY DEF IInv, Typed, Index
<1>3. task[i] \in Task
  BY <1>2
<1>4. task[i].turns \in Nat
  BY <1>3 DEF Task
<1> QED
  BY <1>1, <1>4

LEMMA BeginSteps ==
  ASSUME IInv, NEW c \in AppCaller, NEW s \in Sid,
         StartCreate(c, s) \/ StartResume(c, s) \/ StopAtOnce(c, s) \/ StartStop(c, s)
  PROVE  IInv'
<1> USE DEF IInv
<1>1. /\ c \in Caller /\ call \in [Caller -> Call] /\ db \subseteq Sid
      /\ forward \in [Sid -> Nat] /\ TurnsOf(s) \subseteq Nat \X Nat
  BY SeenType DEF Caller, Typed
<1>2. Found(s) \in SUBSET (Nat \ {0}) /\ {} \in SUBSET (Nat \ {0})
  BY FoundType
<1>3. CASE StartCreate(c, s) \/ StartResume(c, s)
  <2>1. Begin(c, s, "mount", {})
    BY <1>3 DEF StartCreate, StartResume
  <2>2. Alone(c) /\ call'[c].step = "mount" /\ call'[c].sid = s
    BY <1>1, <1>2, <2>1, CallBegins DEF Steps
  <2>3. StopOf(c)' /\ SidOf(c)'
    BY <2>2 DEF StopOf, SidOf
  <2>4. UNCHANGED <<flag, table, task, sends, forward>> /\ db' \subseteq Sid
    BY <1>1, <1>3 DEF StartCreate, StartResume
  <2> QED
    BY <1>1, <2>2, <2>3, <2>4, CallOnly
<1>4. CASE StopAtOnce(c, s)
  <2>1. Begin(c, s, "quiet", Found(s)) /\ UNCHANGED <<flag, db, table, forward, task, sends>>
        /\ (table[s] # 0 => ~InTurn(table[s]))
    BY <1>4 DEF StopAtOnce
  <2>2. /\ Alone(c) /\ call'[c].step = "quiet" /\ call'[c].holds = Found(s)
        /\ call'[c].seen = TurnsOf(s)
    BY <1>1, <1>2, <2>1, CallBegins DEF Steps
  <2>3. ASSUME NEW turn \in TurnsOf(s), turn[1] \in Found(s) PROVE FALSE
    BY <2>1, <2>3, SeenTurns DEF Found
  <2>4. StopOf(c)' /\ SidOf(c)'
    BY <2>1, <2>2, <2>3 DEF StopOf, Found, TableInv, Index, SidOf
  <2> QED
    BY <1>1, <2>1, <2>2, <2>4, CallOnly
<1>5. CASE StartStop(c, s)
  <2>1. /\ Begin(c, s, "signal", {table[s]}) /\ UNCHANGED <<flag, db, table, forward, task, sends>>
        /\ {table[s]} = Found(s)
    BY <1>5 DEF StartStop, Found
  <2>2. /\ Alone(c) /\ call'[c].step = "signal" /\ call'[c].seen = TurnsOf(s)
        /\ call'[c].holds = {table[s]}
    BY <1>1, <1>2, <2>1, CallBegins DEF Steps
  <2>3. \A turn \in TurnsOf(s) : turn[1] \in Index /\ turn[2] <= task[turn[1]].turns
    BY SeenTurns
  <2>4. StopOf(c)' /\ SidOf(c)'
    BY <1>5, <2>1, <2>2, <2>3 DEF StopOf, Index, StartStop, TableInv, SidOf
  <2> QED
    BY <1>1, <2>1, <2>2, <2>4, CallOnly
<1> QED
  BY <1>3, <1>4, <1>5

\* Steps of a started call that move only the call, the forwarders apart.
LEMMA ReturnSteps ==
  ASSUME IInv, NEW c \in Caller,
         \/ Register(c) \/ EndAll(c) \/ Unforward(c) \/ StopTimeout(c)
         \/ ChildGone(c) \/ ToolDropped(c)
  PROVE  IInv'
<1> USE DEF IInv
<1>1. /\ call \in [Caller -> Call] /\ db \subseteq Sid /\ forward \in [Sid -> Nat]
      /\ {} \in SUBSET (Nat \ {0})
  BY DEF Typed
<1>2. UNCHANGED <<flag, db, table, task, sends>>
  BY DEF Register, EndAll, Unforward, StopTimeout, ChildGone, ToolDropped
<1>3. forward' \in [Sid -> Nat]
  <2>1. CASE Register(c)
    <3>1. PICK i \in call[c].holds : forward' = [forward EXCEPT ![call[c].sid] = i]
      BY <2>1 DEF Register
    <3>2. i \in Nat
      BY <1>1 DEF Call
    <3> QED
      BY <1>1, <3>1, <3>2
  <2>2. CASE Unforward(c)
    BY <1>1, <2>2 DEF Unforward
  <2>3. CASE UNCHANGED forward
    BY <1>1, <2>3
  <2> QED
    BY <2>1, <2>2, <2>3 DEF EndAll, StopTimeout, ChildGone, ToolDropped
<1>4. Alone(c) /\ call'[c].step \in {"none", "unforward", "closed"}
  <2>1. CASE Return(c)
    BY <1>1, <2>1, CallMoves
  <2>2. CASE Goto(c, "unforward", {}) \/ Goto(c, "closed", {})
    BY <1>1, <2>2, CallMoves DEF Steps
  <2> QED
    BY <2>1, <2>2 DEF Register, EndAll, Unforward, StopTimeout, ChildGone, ToolDropped
<1>5. StopOf(c)' /\ SidOf(c)'
  BY <1>4 DEF StopOf, SidOf
<1> QED
  BY <1>1, <1>2, <1>3, <1>4, <1>5, CallOnly

\* A stopping call learns that the session is quiet.
LEMMA QuietSteps ==
  ASSUME IInv, NEW c \in Caller, NEW i \in call[c].holds, Quiet(c),
         call[c].step \in {"signal", "wait"}, ~InTurn(i),
         UNCHANGED <<flag, db, table, forward, task, sends>>
  PROVE  IInv'
<1> USE DEF IInv
<1>1. call \in [Caller -> Call] /\ db \subseteq Sid /\ forward \in [Sid -> Nat]
  BY DEF Typed
<1>2. /\ Alone(c) /\ call'[c].step = "quiet"
      /\ call'[c].holds = call[c].holds /\ call'[c].seen = call[c].seen
  BY <1>1, CallMoves
<1>3. StopOf(c)'
  <2>0. \A j \in call[c].holds : j = i /\ j \in Index
    BY DEF StopInv
  <2>1. ASSUME NEW turn \in call[c].seen, turn[1] \in call[c].holds
        PROVE  turn[1] \in Index /\ turn[2] <= task[turn[1]].turns /\ ~StillRuns(turn)
    BY <2>0, <2>1 DEF StopInv, StillRuns
  <2> QED
    BY <1>2, <2>0, <2>1 DEF StopOf, Index, StillRuns, InTurn
<1>4. SidOf(c)'
  BY <1>2 DEF SidOf
<1> QED
  BY <1>1, <1>2, <1>3, <1>4, CallOnly

LEMMA ChildStarts ==
  ASSUME IInv, NEW c \in ToolCaller, NEW p \in Index, NEW s \in Sid, StartChild(c, p, s)
  PROVE  IInv'
<1> USE DEF IInv
<1>1. /\ c \in Caller /\ call \in [Caller -> Call] /\ db \subseteq Sid
      /\ forward \in [Sid -> Nat] /\ task \in Seq(Task) /\ p \in 1 .. Len(task)
  BY DEF Caller, Typed, Index
<1>2. p \in Nat /\ task[p].turns \in Nat
  <2>1. task[p] \in Task
    BY <1>1
  <2> QED
    BY <2>1 DEF Task, Index
<1> DEFINE new == [NoCall EXCEPT !.step = "mount", !.sid = s, !.parent = p,
                                 !.seen = {<<p, task[p].turns>>}]
<1>3. new \in Call /\ new.step = "mount" /\ new.sid = s
  <2>1. {<<p, task[p].turns>>} \in SUBSET (Nat \X Nat)
    BY <1>2
  <2> QED
    BY <1>2, <2>1 DEF NoCall, Call, Steps
<1>4. call' = [call EXCEPT ![c] = new]
  BY DEF StartChild
<1> HIDE DEF new
<1>5. Alone(c) /\ call'[c].step = "mount" /\ call'[c].sid = s
  BY <1>1, <1>3, <1>4 DEF Alone
<1>6. StopOf(c)' /\ SidOf(c)'
  BY <1>5 DEF StopOf, SidOf
<1> QED
  BY <1>1, <1>5, <1>6, CallOnly DEF StartChild

(***************************************************************************)
(* Steps of the tasks                                                      *)
(***************************************************************************)
\* Progress of the tasks keeps what StopInv says of a caller that does not move.
LEMMA StopKept ==
  ASSUME IInv, Progress, NEW c \in Caller, call'[c] = call[c]
  PROVE  StopOf(c)'
<1> SUFFICES ASSUME call[c].step \in {"signal", "wait", "quiet"}
             PROVE  StopOf(c)'
  BY DEF StopOf
<1>1. \A i, j \in call[c].holds : i = j /\ i \in Index'
  <2>1. \A i, j \in call[c].holds : i = j /\ i \in Index
    BY DEF IInv, StopInv
  <2>2. Len(task) \in Nat /\ Len(task') \in Nat /\ Len(task') >= Len(task)
    BY DEF IInv, Typed, Progress
  <2> QED
    BY <2>1, <2>2 DEF Index
<1>2. ASSUME NEW turn \in call[c].seen, turn[1] \in call[c].holds
      PROVE  /\ turn[1] \in Index' /\ turn[2] <= task'[turn[1]].turns
             /\ call[c].step = "quiet" => ~StillRuns(turn)'
  <2>1. /\ turn[1] \in Index /\ turn[2] <= task[turn[1]].turns
        /\ call[c].step = "quiet" => ~StillRuns(turn)
    BY <1>2 DEF IInv, StopInv
  <2>2. turn[2] \in Nat
    BY <1>2 DEF IInv, Typed, Call
  <2>3. task \in Seq(Task) /\ task' \in Seq(Task) /\ Len(task') >= Len(task)
    BY DEF IInv, Typed, Progress
  <2>4. turn[1] \in Index'
    BY <2>1, <2>3 DEF Index
  <2>5. task[turn[1]] \in Task /\ task'[turn[1]] \in Task
    BY <2>1, <2>3, <2>4 DEF Index
  <2>6. task[turn[1]].turns \in Nat /\ task'[turn[1]].turns \in Nat
    BY <2>5 DEF Task
  <2>7. task'[turn[1]].turns >= task[turn[1]].turns
    BY <2>1 DEF Progress
  <2>8. call[c].step = "quiet" => ~StillRuns(turn)'
    BY <2>1, <2>2, <2>6 DEF Progress, StillRuns, InTurn
  <2> QED
    BY <2>1, <2>2, <2>4, <2>6, <2>7, <2>8
<1> QED
  BY <1>1, <1>2 DEF StopOf

\* StopInv is StopOf of every caller.
LEMMA StopAll == (\A c \in Caller : StopOf(c)') => StopInv'
BY DEF StopInv, StopOf

\* Tasks that make progress with nobody looking keep the invariant.
LEMMA TasksOnly ==
  ASSUME IInv, Progress, Len(task') = Len(task),
         UNCHANGED <<flag, db, table, forward, call>>,
         sends' \in [Sid -> Nat],
         \A i \in Index : /\ task'[i].disposed = task[i].disposed
                          /\ task'[i].cancelled = task[i].cancelled
                          /\ task[i].life = "over" => task'[i].life = "over"
  PROVE  IInv'
<1> USE DEF IInv
<1>1. Typed' /\ Index' = Index
  BY DEF Typed, Progress, Index
<1>2. TableInv' /\ DisposedInv'
  BY <1>1 DEF TableInv, DisposedInv, Progress
<1>3. Isolation'
  BY <1>1 DEF TableInv, Isolation
<1>4. ShutdownReachesAll'
  BY <1>1 DEF ShutdownReachesAll, Progress
<1>5. EndInv'
  BY <1>1 DEF EndInv
<1>6. StopInv' /\ SidInv'
  BY StopKept, StopAll DEF SidInv, SidOf
<1> QED
  BY <1>1, <1>2, <1>3, <1>4, <1>5, <1>6

\* One task changes, remains the same task and goes forward.
LEMMA OneTaskProgress ==
  ASSUME task \in Seq(Task), NEW i \in Index, NEW new \in Task,
         task' = [task EXCEPT ![i] = new], new.sid = task[i].sid,
         new.turns >= task[i].turns,
         new.life = "turn" => \/ task[i].life = "turn" /\ new.turns = task[i].turns
                              \/ new.turns > task[i].turns
  PROVE  /\ Progress /\ Len(task') = Len(task)
         /\ task'[i] = new /\ \A j \in Index : j # i => task'[j] = task[j]
<1>1. /\ task' \in Seq(Task) /\ Len(task') = Len(task)
      /\ task'[i] = new /\ \A j \in Index : j # i => task'[j] = task[j]
  BY OneTaskType
<1>2. \A j \in Index : task[j].turns \in Nat
  <2>1. \A j \in Index : task[j] \in Task
    BY DEF Index
  <2> QED
    BY <2>1 DEF Task
<1>3. Len(task') >= Len(task)
  BY <1>1
<1> QED
  BY <1>1, <1>2, <1>3 DEF Progress

\* One task takes a step of its own, or an entry is sent to it.
LEMMA TaskSteps ==
  ASSUME IInv, \/ \E s \in Sid : Send(s)
               \/ \E i \in Index : TaskStep(i)
  PROVE  IInv'
<1>1. task \in Seq(Task) /\ sends \in [Sid -> Nat] /\ table \in [Sid -> Nat]
  BY DEF IInv, Typed
<1>2. ASSUME NEW i \in Index, NEW new \in Task, task' = [task EXCEPT ![i] = new],
             UNCHANGED <<flag, db, table, forward, call>>, sends' \in [Sid -> Nat],
             new.sid = task[i].sid, new.disposed = task[i].disposed,
             new.cancelled = task[i].cancelled, new.turns >= task[i].turns,
             task[i].life = "over" => new.life = "over",
             new.life = "turn" => \/ task[i].life = "turn" /\ new.turns = task[i].turns
                                  \/ new.turns > task[i].turns
      PROVE  IInv'
  <2>1. /\ Progress /\ Len(task') = Len(task)
        /\ task'[i] = new /\ \A j \in Index : j # i => task'[j] = task[j]
    BY <1>1, <1>2, OneTaskProgress
  <2> QED
    BY <1>2, <2>1, TasksOnly
<1>3. ASSUME NEW s \in Sid, Send(s) PROVE IInv'
  <2> DEFINE i == table[s]
  <2>1. i \in Index
    BY <1>1, <1>3 DEF Send, IInv, TableInv
  <2>2. task[i] \in Task
    BY <1>1, <2>1 DEF Index
  <2> DEFINE new == [task[i] EXCEPT !.mail = @ + 1]
  <2>3. /\ new \in Task /\ new.sid = task[i].sid /\ new.disposed = task[i].disposed
        /\ new.cancelled = task[i].cancelled /\ new.turns = task[i].turns
        /\ new.life = task[i].life /\ new.turns \in Nat
    BY <2>2 DEF Task
  <2>4. sends' \in [Sid -> Nat]
    BY <1>1, <1>3 DEF Send
  <2>5. /\ task' = [task EXCEPT ![i] = new]
        /\ UNCHANGED <<flag, db, table, forward, call>>
    BY <1>3 DEF Send
  <2> HIDE DEF new, i
  <2>6. /\ new.turns >= task[i].turns
        /\ new.life = "turn" => task[i].life = "turn" /\ new.turns = task[i].turns
        /\ task[i].life = "over" => new.life = "over"
    BY <2>3
  <2> QED
    BY <1>2, <2>1, <2>3, <2>4, <2>5, <2>6
<1>4. ASSUME NEW i \in Index, TaskStep(i) PROVE IInv'
  <2>1. task[i] \in Task
    BY <1>1 DEF Index
  <2>2. PICK new : /\ Set(i, new)
                   /\ \/ task[i].life = "idle" /\ task[i].mail > 0
                         /\ new = [task[i] EXCEPT !.life = "turn", !.mail = @ - 1,
                                                  !.turns = @ + 1]
                      \/ task[i].stops > 0 /\ new = [task[i] EXCEPT !.stops = @ - 1]
                      \/ task[i].mail > 0 /\ new = [task[i] EXCEPT !.mail = @ - 1]
                      \/ task[i].life = "turn" /\ new = [task[i] EXCEPT !.life = "idle"]
                      \/ task[i].life = "turn" /\ task[i].stops > 0
                         /\ new = [task[i] EXCEPT !.life = "idle", !.stops = @ - 1]
                      \/ new = Over(i)
    <3>1. CASE TurnBegins(i)
      BY <3>1 DEF TurnBegins
    <3>2. CASE SignalIgnored(i) \/ EntryQueued(i)
      BY <3>2 DEF SignalIgnored, EntryQueued
    <3>3. CASE TurnEnds(i)
      BY <3>3 DEF TurnEnds, InTurn
    <3>4. CASE TaskExits(i)
      BY <3>4 DEF TaskExits
    <3>5. CASE AbortLands(i)
      BY <3>5 DEF AbortLands
    <3> QED
      BY <1>4, <3>1, <3>2, <3>3, <3>4, <3>5 DEF TaskStep
  <2>3. /\ new \in Task /\ new.sid = task[i].sid /\ new.disposed = task[i].disposed
        /\ new.cancelled = task[i].cancelled /\ new.turns >= task[i].turns
        /\ task[i].life = "over" => new.life = "over"
        /\ new.life = "turn" => \/ task[i].life = "turn" /\ new.turns = task[i].turns
                                \/ new.turns > task[i].turns
    <3>1. task[i].turns \in Nat /\ task[i].mail \in Nat /\ task[i].stops \in Nat
      BY <2>1 DEF Task
    <3>2. CASE /\ task[i].life = "idle" /\ task[i].mail > 0
               /\ new = [task[i] EXCEPT !.life = "turn", !.mail = @ - 1, !.turns = @ + 1]
      <4> DEFINE mail == task[i].mail - 1
                 turns == task[i].turns + 1
      <4>1. mail \in Nat /\ turns \in Nat /\ turns > task[i].turns
        BY <3>1, <3>2
      <4>2. new = [task[i] EXCEPT !.life = "turn", !.mail = mail, !.turns = turns]
        BY <3>2
      <4> HIDE DEF mail, turns
      <4>3. /\ new \in Task /\ new.sid = task[i].sid /\ new.disposed = task[i].disposed
            /\ new.cancelled = task[i].cancelled /\ new.turns = turns
        BY <2>1, <4>1, <4>2 DEF Task, Lives
      <4> QED
        BY <3>1, <3>2, <4>1, <4>3
    <3>3. CASE task[i].stops > 0 /\ new = [task[i] EXCEPT !.stops = @ - 1]
      BY <2>1, <3>1, <3>3 DEF Task, Lives
    <3>4. CASE task[i].mail > 0 /\ new = [task[i] EXCEPT !.mail = @ - 1]
      BY <2>1, <3>1, <3>4 DEF Task, Lives
    <3>5. CASE task[i].life = "turn" /\ new = [task[i] EXCEPT !.life = "idle"]
      BY <2>1, <3>1, <3>5 DEF Task, Lives
    <3>6. CASE /\ task[i].life = "turn" /\ task[i].stops > 0
               /\ new = [task[i] EXCEPT !.life = "idle", !.stops = @ - 1]
      <4> DEFINE stops == task[i].stops - 1
      <4>1. stops \in Nat
        BY <3>1, <3>6
      <4>2. new = [task[i] EXCEPT !.life = "idle", !.stops = stops]
        BY <3>6
      <4> HIDE DEF stops
      <4>3. /\ new \in Task /\ new.sid = task[i].sid /\ new.disposed = task[i].disposed
            /\ new.cancelled = task[i].cancelled /\ new.turns = task[i].turns
            /\ new.life = "idle"
        BY <2>1, <4>1, <4>2 DEF Task, Lives
      <4> QED
        BY <3>1, <3>6, <4>3
    <3>7. CASE new = Over(i)
      <4>1. new = [task[i] EXCEPT !.life = "over", !.aborting = FALSE, !.mail = 0, !.stops = 0]
        BY <3>7 DEF Over
      <4>2. new.life = "over" /\ new \in Task
        BY <2>1, <4>1 DEF Task, Lives
      <4>3. /\ new.sid = task[i].sid /\ new.disposed = task[i].disposed
            /\ new.cancelled = task[i].cancelled /\ new.turns = task[i].turns
        BY <2>1, <4>1 DEF Task
      <4> QED
        BY <3>1, <4>2, <4>3
    <3> QED
      BY <2>2, <3>2, <3>3, <3>4, <3>5, <3>6, <3>7
  <2>4. /\ task' = [task EXCEPT ![i] = new]
        /\ UNCHANGED <<flag, db, table, forward, call, sends>>
    BY <2>2 DEF Set
  <2> QED
    BY <1>1, <1>2, <2>3, <2>4
<1> QED
  BY <1>3, <1>4

\* The signal of a stopping call.
LEMMA SignalSteps ==
  ASSUME IInv, NEW c \in Caller, StopSignal(c) \/ StopWait(c)
  PROVE  IInv'
<1> USE DEF IInv
<1>1. CASE StopWait(c)
  BY <1>1, QuietSteps DEF StopWait, PhaseIdle
<1>2. CASE StopSignal(c)
  <2>1. PICK i \in call[c].holds :
          \/ task[i].life = "over" /\ Quiet(c) /\ UNCHANGED task
          \/ /\ task[i].life # "over" /\ task[i].stops < SignalCap
             /\ task' = [task EXCEPT ![i].stops = @ + 1]
             /\ Goto(c, "wait", {i})
    BY <1>2 DEF StopSignal
  <2>2. call[c].step = "signal" /\ UNCHANGED <<flag, db, table, forward, sends>>
    BY <1>2 DEF StopSignal
  <2>3. CASE task[i].life = "over" /\ Quiet(c) /\ UNCHANGED task
    BY <2>2, <2>3, QuietSteps DEF InTurn
  <2>4. CASE /\ task[i].life # "over" /\ task[i].stops < SignalCap
             /\ task' = [task EXCEPT ![i].stops = @ + 1]
             /\ Goto(c, "wait", {i})
    <3>1. i \in Index /\ \A j \in call[c].holds : j = i
      BY <2>2 DEF StopInv
    <3>2. task \in Seq(Task) /\ task[i] \in Task /\ i \in Nat \ {0}
      BY <3>1 DEF Typed, Index
    <3> DEFINE stops == task[i].stops + 1
               new == [task[i] EXCEPT !.stops = stops]
    <3>3. /\ new \in Task /\ new.sid = task[i].sid /\ new.disposed = task[i].disposed
          /\ new.cancelled = task[i].cancelled /\ new.turns = task[i].turns
          /\ new.life = task[i].life /\ new.turns \in Nat
      <4>1. stops \in Nat
        BY <3>2 DEF Task
      <4> HIDE DEF stops
      <4> QED
        BY <3>2, <4>1 DEF Task
    <3>4. task' = [task EXCEPT ![i] = new]
      BY <2>4
    <3> HIDE DEF new
    <3>5. /\ Progress /\ Len(task') = Len(task)
          /\ task'[i] = new /\ \A j \in Index : j # i => task'[j] = task[j]
      <4>1. /\ new.turns >= task[i].turns
            /\ new.life = "turn" => task[i].life = "turn" /\ new.turns = task[i].turns
        BY <3>3
      <4> QED
        BY <3>1, <3>2, <3>3, <3>4, <4>1, OneTaskProgress
    <3>6. /\ Alone(c) /\ call'[c].step = "wait" /\ call'[c].holds = {i}
          /\ call'[c].seen = call[c].seen
      <4>1. call \in [Caller -> Call] /\ {i} \in SUBSET (Nat \ {0})
        BY <3>2 DEF Typed
      <4> QED
        BY <2>4, <4>1, CallMoves DEF Steps
    <3>7. Typed' /\ Index' = Index
      BY <2>2, <3>5, <3>6 DEF Typed, Progress, Alone, Index
    <3>8. \A j \in Index : /\ task'[j].disposed = task[j].disposed
                           /\ task'[j].cancelled = task[j].cancelled
                           /\ task'[j].sid = task[j].sid
                           /\ task'[j].life = task[j].life
                           /\ task'[j].turns = task[j].turns
      BY <3>3, <3>5
    <3>9. TableInv' /\ DisposedInv' /\ Isolation' /\ ShutdownReachesAll'
      BY <2>2, <3>7, <3>8 DEF TableInv, DisposedInv, Isolation, ShutdownReachesAll
    <3>10. EndInv'
      <4>1. \A d \in Caller : call'[d].step = "end" => call'[d] = call[d]
        BY <3>6 DEF Alone
      <4> QED
        BY <2>2, <3>7, <3>8, <4>1 DEF EndInv
    <3>11. StopInv'
      <4>1. \A d \in Caller : d # c => StopOf(d)'
        BY <3>5, <3>6, StopKept DEF Alone
      <4>2. StopOf(c)'
        BY <2>2, <3>1, <3>6, <3>7, <3>8 DEF StopOf, StopInv
      <4> QED
        BY <4>1, <4>2, StopAll
    <3>12. SidInv'
      BY <3>6 DEF SidInv, SidOf, Alone
    <3> QED
      BY <3>7, <3>9, <3>10, <3>11, <3>12
  <2> QED
    BY <2>1, <2>3, <2>4
<1> QED
  BY <1>1, <1>2

(***************************************************************************)
(* Steps that mount and end tasks                                          *)
(***************************************************************************)
\* A mounted task is new: nobody holds it, and it is cancelled if the engine is.
LEMMA MountStep ==
  ASSUME IInv, NEW c \in Caller, Mount(c)
  PROVE  IInv'
<1> USE DEF IInv
<1> DEFINE n == Len(task) + 1
           s == call[c].sid
           new == Spawned(s, call[c].parent)
<1>1. /\ call \in [Caller -> Call] /\ task \in Seq(Task) /\ table \in [Sid -> Nat]
      /\ n \in Nat \ {0} /\ flag \in BOOLEAN
  BY DEF Typed
<1>0. s \in Sid
  BY DEF SidInv, SidOf, Mount
<1>2. /\ new \in Task /\ new.sid = s /\ new.disposed = 0 /\ new.cancelled = flag
  <2>1. call[c].parent \in Nat
    BY <1>1 DEF Call
  <2> QED
    BY <1>1, <1>0, <2>1 DEF Spawned, ChildToken, Task, Lives
<1>3. task' = Append(task, new) /\ table' = [table EXCEPT ![s] = n]
      /\ UNCHANGED <<flag, db, forward, sends>>
  BY DEF Mount
<1> HIDE DEF new
<1>4. /\ task' \in Seq(Task) /\ Len(task') = n /\ task'[n] = new
      /\ \A i \in Index : task'[i] = task[i]
  BY <1>1, <1>2, <1>3, AppendProperties DEF Index
<1>5. Alone(c) /\ call'[c].step \in {"register", "child"} /\ call'[c].sid = s
  <2>1. {n} \in SUBSET (Nat \ {0})
    BY <1>1
  <2>2. Goto(c, "register", {n}) \/ Goto(c, "child", {n})
    BY DEF Mount
  <2> HIDE DEF n
  <2> QED
    BY <1>1, <2>1, <2>2, CallMoves DEF Steps
<1>6. Index' = Index \cup {n} /\ n \notin Index
  BY <1>1, <1>4 DEF Index
<1>7. Progress
  <2>1. \A i \in Index : task[i].turns \in Nat
    <3>1. \A i \in Index : task[i] \in Task
      BY <1>1 DEF Index
    <3> QED
      BY <3>1 DEF Task
  <2> QED
    BY <1>1, <1>4, <2>1 DEF Progress
<1> HIDE DEF n, s
<1>8. Typed'
  BY <1>1, <1>3, <1>4, <1>5 DEF Typed, Alone
<1>9. TableInv'
  BY <1>1, <1>2, <1>3, <1>4, <1>6, <1>0 DEF TableInv
<1>10. EndInv'
  <2>1. \A d \in Caller : call'[d].step = "end" => call'[d] = call[d]
    BY <1>5 DEF Alone
  <2>2. ASSUME NEW d \in Caller, call'[d].step = "end", NEW i \in call'[d].holds
        PROVE  /\ i \in Index' /\ task'[i].disposed = 0
               /\ \A r \in Sid : table'[r] # i
               /\ \A e \in Caller : call'[e].step = "end" /\ i \in call'[e].holds => e = d
    <3>1. i \in Index /\ i # n /\ task[i].disposed = 0 /\ \A r \in Sid : table[r] # i
      BY <1>6, <2>1, <2>2 DEF EndInv
    <3>2. \A r \in Sid : table'[r] # i
      BY <1>1, <1>3, <3>1
    <3>3. \A e \in Caller : call'[e].step = "end" /\ i \in call'[e].holds => e = d
      BY <2>1, <2>2 DEF EndInv
    <3> QED
      BY <1>4, <1>6, <3>1, <3>2, <3>3
  <2> QED
    BY <2>2 DEF EndInv
<1>11. DisposedInv'
  BY <1>2, <1>4, <1>6 DEF DisposedInv
<1>12. Isolation'
  BY <1>1, <1>2, <1>3, <1>4, <1>0 DEF Isolation, TableInv
<1>13. ShutdownReachesAll'
  BY <1>2, <1>3, <1>4, <1>6 DEF ShutdownReachesAll
<1>14. StopInv'
  <2>1. \A d \in Caller : d # c => StopOf(d)'
    BY <1>5, <1>7, StopKept DEF Alone
  <2>2. StopOf(c)'
    BY <1>5 DEF StopOf
  <2> QED
    BY <2>1, <2>2, StopAll
<1>15. SidInv'
  BY <1>5, <1>0 DEF SidInv, SidOf, Alone
<1> QED
  BY <1>8, <1>9, <1>10, <1>11, <1>12, <1>13, <1>14, <1>15

\* A cancellation is progress, and changes the tokens it names only.
LEMMA CancelProgress ==
  ASSUME task \in Seq(Task), NEW S, Cancel(S)
  PROVE  /\ Progress /\ Len(task') = Len(task) /\ Index' = Index
         /\ \A i \in Index :
              /\ task'[i].sid = task[i].sid /\ task'[i].disposed = task[i].disposed
              /\ task'[i].life = task[i].life
              /\ i \in S => task'[i].cancelled
              /\ i \notin S => task'[i] = task[i]
              /\ task[i].cancelled => task'[i].cancelled
<1>1. /\ task' \in Seq(Task) /\ Len(task') = Len(task)
      /\ \A i \in Index : /\ i \in S => task'[i] = [task[i] EXCEPT !.cancelled = TRUE]
                          /\ i \notin S => task'[i] = task[i]
  BY CancelType
<1>2. ASSUME NEW i \in Index
      PROVE  /\ task'[i].sid = task[i].sid /\ task'[i].disposed = task[i].disposed
             /\ task'[i].life = task[i].life /\ task'[i].turns = task[i].turns
             /\ i \in S => task'[i].cancelled
             /\ task[i].cancelled => task'[i].cancelled
             /\ task[i].turns \in Nat
  <2>1. task[i] \in Task
    BY DEF Index
  <2>2. CASE i \in S
    <3>1. task'[i] = [task[i] EXCEPT !.cancelled = TRUE]
      BY <1>1, <2>2
    <3> QED
      BY <2>1, <3>1 DEF Task
  <2>3. CASE i \notin S
    <3>1. task'[i] = task[i]
      BY <1>1, <2>3
    <3> QED
      BY <2>1, <2>3, <3>1 DEF Task
  <2> QED
    BY <2>2, <2>3
<1>3. Progress
  <2>1. Len(task) \in Nat
    BY LenProperties
  <2> QED
    BY <1>1, <1>2, <2>1 DEF Progress
<1> QED
  BY <1>1, <1>2, <1>3 DEF Index

\* A session is taken out of the table by the call that will end it.
LEMMA DestroySteps ==
  ASSUME IInv, NEW c \in Caller, NEW s \in Sid, table[s] # 0, ~flag,
         table' = Removed(s), Cancel(Itself(table[s])), Alone(c),
         call'[c].step = "end", call'[c].holds = {table[s]},
         UNCHANGED <<flag, db, forward, sends>>
  PROVE  IInv'
<1> DEFINE i == table[s]
<1>1. /\ task \in Seq(Task) /\ table \in [Sid -> Nat]
      /\ i \in Index /\ task[i].sid = s /\ task[i].disposed = 0
  BY DEF IInv, Typed, TableInv
<1>2. /\ Progress /\ Index' = Index
      /\ \A j \in Index :
           /\ task'[j].sid = task[j].sid /\ task'[j].disposed = task[j].disposed
           /\ task'[j].life = task[j].life
           /\ j # i => task'[j] = task[j]
           /\ task[j].cancelled => task'[j].cancelled
  BY <1>1, CancelProgress DEF Itself
<1>3. \A r \in Sid : IF r = s THEN table'[r] = 0 ELSE table'[r] = table[r]
  BY <1>1 DEF Removed
<1>4. \A r \in Sid : table'[r] # i
  BY <1>1, <1>3 DEF IInv, TableInv
<1>5. Typed'
  BY <1>1, <1>2 DEF IInv, Typed, Progress, Alone, Removed
<1>6. TableInv' /\ DisposedInv'
  BY <1>2, <1>3 DEF IInv, TableInv, DisposedInv
<1>7. EndInv'
  <2>1. ASSUME NEW d \in Caller, call'[d].step = "end", NEW j \in call'[d].holds
        PROVE  /\ j \in Index' /\ task'[j].disposed = 0 /\ \A r \in Sid : table'[r] # j
               /\ \A e \in Caller : call'[e].step = "end" /\ j \in call'[e].holds => e = d
    <3>1. CASE d = c
      <4>1. j = i
        BY <2>1, <3>1
      <4>2. ASSUME NEW e \in Caller, e # c, call'[e].step = "end", j \in call'[e].holds
            PROVE  FALSE
        BY <4>1, <4>2 DEF IInv, EndInv, Alone
      <4> QED
        BY <1>1, <1>2, <1>4, <3>1, <4>1, <4>2
    <3>2. CASE d # c
      <4>1. /\ call'[d] = call[d] /\ j \in Index /\ task[j].disposed = 0
            /\ \A r \in Sid : table[r] # j
        BY <2>1, <3>2 DEF IInv, EndInv, Alone
      <4>2. j # i
        BY <4>1
      <4>3. ASSUME NEW e \in Caller, call'[e].step = "end", j \in call'[e].holds
            PROVE  e = d
        <5>1. e # c
          BY <4>2, <4>3
        <5>2. call'[e] = call[e]
          BY <5>1 DEF Alone
        <5>3. call[d].step = "end" /\ j \in call[d].holds
          BY <2>1, <4>1
        <5>4. call[e].step = "end" /\ j \in call[e].holds
          BY <4>3, <5>2
        <5> QED
          BY <5>3, <5>4 DEF IInv, EndInv
      <4>4. \A r \in Sid : table'[r] # j
        BY <1>1, <1>3, <4>1 DEF Index
      <4> QED
        BY <1>2, <4>1, <4>3, <4>4
    <3> QED
      BY <3>1, <3>2
  <2> QED
    BY <2>1 DEF EndInv
<1>8. Isolation'
  BY <1>1, <1>2, <1>3, <1>4 DEF IInv, Isolation, TableInv
<1>9. ShutdownReachesAll'
  BY DEF ShutdownReachesAll
<1>10. StopInv'
  <2>1. \A d \in Caller : d # c => StopOf(d)'
    BY <1>2, StopKept DEF Alone
  <2>2. StopOf(c)'
    BY DEF StopOf
  <2> QED
    BY <2>1, <2>2, StopAll
<1>11. SidInv'
  BY DEF IInv, SidInv, SidOf, Alone
<1> QED
  BY <1>5, <1>6, <1>7, <1>8, <1>9, <1>10, <1>11 DEF IInv

LEMMA TakenOut ==
  ASSUME IInv, \/ \E c \in AppCaller, s \in Sid : StartDestroy(c, s)
               \/ \E c \in Caller : ChildDone(c)
  PROVE  IInv'
<1>1. call \in [Caller -> Call] /\ task \in Seq(Task) /\ table \in [Sid -> Nat]
  BY DEF IInv, Typed
<1>2. ASSUME NEW c \in AppCaller, NEW s \in Sid, StartDestroy(c, s) PROVE IInv'
  <2>1. c \in Caller /\ TurnsOf(s) \subseteq Nat \X Nat /\ {table[s]} \in SUBSET (Nat \ {0})
    BY <1>1, <1>2, SeenType DEF Caller, StartDestroy
  <2>2. Begin(c, s, "end", {table[s]})
    BY <1>2 DEF StartDestroy
  <2>3. Alone(c) /\ call'[c].step = "end" /\ call'[c].holds = {table[s]}
    BY <1>1, <2>1, <2>2, CallBegins DEF Steps
  <2> QED
    BY <1>2, <2>1, <2>3, DestroySteps DEF StartDestroy
<1>3. ASSUME NEW c \in Caller, ChildDone(c) PROVE IInv'
  <2> DEFINE s == call[c].sid
  <2>1. s \in Sid
    BY <1>3 DEF IInv, SidInv, SidOf, ChildDone
  <2>2. {table[s]} \in SUBSET (Nat \ {0})
    BY <1>1, <1>3, <2>1 DEF ChildDone
  <2>3. Goto(c, "end", {table[s]})
    BY <1>3 DEF ChildDone
  <2>4. Alone(c) /\ call'[c].step = "end" /\ call'[c].holds = {table[s]}
    BY <1>1, <2>2, <2>3, CallMoves DEF Steps
  <2> QED
    BY <1>3, <2>1, <2>4, DestroySteps DEF ChildDone
<1> QED
  BY <1>2, <1>3

\* The call that ends a session disposes it, once, and lets it go.
LEMMA EndStep ==
  ASSUME IInv, NEW c \in Caller, NEW i \in Index, EndOne(c, i)
  PROVE  IInv'
<1>1. /\ task \in Seq(Task) /\ call \in [Caller -> Call] /\ task[i] \in Task
      /\ call[c].step = "end" /\ i \in call[c].holds /\ call[c] \in Call
      /\ UNCHANGED <<flag, db, table, forward, sends>>
  BY DEF IInv, Typed, EndOne, Index
<1>2. /\ task[i].disposed = 0 /\ \A s \in Sid : table[s] # i
      /\ \A d \in Caller : call[d].step = "end" /\ i \in call[d].holds => d = c
  BY <1>1 DEF IInv, EndInv
<1>3. PICK new : /\ task' = [task EXCEPT ![i] = new]
                 /\ \/ new = [task[i] EXCEPT !.disposed = @ + 1]
                    \/ new = [task[i] EXCEPT !.disposed = @ + 1, !.aborting = TRUE]
  BY DEF EndOne
<1>4. /\ new \in Task /\ new.sid = task[i].sid /\ new.disposed = 1
      /\ new.cancelled = task[i].cancelled /\ new.turns = task[i].turns
      /\ new.life = task[i].life /\ task[i].turns \in Nat
  <2>1. task[i].disposed + 1 = 1 /\ 1 \in Nat
    BY <1>2
  <2>2. \/ new = [task[i] EXCEPT !.disposed = 1]
        \/ new = [task[i] EXCEPT !.disposed = 1, !.aborting = TRUE]
    BY <1>3, <2>1
  <2>3. CASE new = [task[i] EXCEPT !.disposed = 1]
    BY <1>1, <2>1, <2>3 DEF Task
  <2>4. CASE new = [task[i] EXCEPT !.disposed = 1, !.aborting = TRUE]
    BY <1>1, <2>1, <2>4 DEF Task
  <2> QED
    BY <2>2, <2>3, <2>4
<1>5. /\ Progress /\ Len(task') = Len(task)
      /\ task'[i] = new /\ \A j \in Index : j # i => task'[j] = task[j]
  <2>1. /\ new.turns >= task[i].turns
        /\ new.life = "turn" => task[i].life = "turn" /\ new.turns = task[i].turns
    BY <1>4
  <2> QED
    BY <1>1, <1>3, <1>4, <2>1, OneTaskProgress
<1>6. Index' = Index
  BY <1>5 DEF Index
<1> DEFINE rec == [call[c] EXCEPT !.holds = @ \ {i}]
<1>7. /\ rec \in Call /\ rec.step = "end" /\ rec.holds = call[c].holds \ {i}
  BY <1>1 DEF Call
<1>8. call' = [call EXCEPT ![c] = rec]
  BY DEF EndOne
<1> HIDE DEF rec
<1>9. Alone(c) /\ call'[c] = rec
  BY <1>1, <1>7, <1>8 DEF Alone
<1>10. Typed'
  BY <1>1, <1>5, <1>9 DEF IInv, Typed, Progress, Alone
<1>11. \A j \in Index : j # i => task'[j].disposed = task[j].disposed
  BY <1>5
<1>12. \A j \in Index : /\ task'[j].cancelled = task[j].cancelled
                        /\ task'[j].life = task[j].life
                        /\ task'[j].sid = task[j].sid
  BY <1>4, <1>5
<1>13. TableInv' /\ DisposedInv'
  BY <1>1, <1>2, <1>4, <1>5, <1>6, <1>11, <1>12 DEF IInv, TableInv, DisposedInv
<1>14. EndInv'
  <2>1. ASSUME NEW d \in Caller, call'[d].step = "end", NEW j \in call'[d].holds
        PROVE  call[d].step = "end" /\ j \in call[d].holds /\ j # i
    <3>1. CASE d = c
      BY <1>1, <1>7, <1>9, <2>1, <3>1
    <3>2. CASE d # c
      BY <1>2, <1>9, <2>1, <3>2 DEF Alone
    <3> QED
      BY <3>1, <3>2
  <2>2. ASSUME NEW d \in Caller, call'[d].step = "end", NEW j \in call'[d].holds
        PROVE  /\ j \in Index' /\ task'[j].disposed = 0 /\ \A s \in Sid : table'[s] # j
               /\ \A e \in Caller : call'[e].step = "end" /\ j \in call'[e].holds => e = d
    <3>1. call[d].step = "end" /\ j \in call[d].holds /\ j # i
      BY <2>1, <2>2
    <3>2. /\ j \in Index /\ task[j].disposed = 0 /\ \A s \in Sid : table[s] # j
          /\ \A e \in Caller : call[e].step = "end" /\ j \in call[e].holds => e = d
      BY <3>1 DEF IInv, EndInv
    <3> QED
      BY <1>1, <1>6, <1>11, <2>1, <3>1, <3>2
  <2> QED
    BY <2>2 DEF EndInv
<1>15. Isolation' /\ ShutdownReachesAll'
  BY <1>1, <1>6, <1>12 DEF IInv, Isolation, ShutdownReachesAll, TableInv
<1>16. StopInv'
  <2>1. \A d \in Caller : d # c => StopOf(d)'
    BY <1>5, <1>9, StopKept DEF Alone
  <2>2. StopOf(c)'
    BY <1>7, <1>9 DEF StopOf
  <2> QED
    BY <2>1, <2>2, StopAll
<1>17. SidInv'
  BY <1>7, <1>9 DEF IInv, SidInv, SidOf, Alone
<1> QED
  BY <1>10, <1>13, <1>14, <1>15, <1>16, <1>17 DEF IInv

\* Shutdown cancels every task.
LEMMA ShutdownStarts ==
  ASSUME IInv, StartShutdown
  PROVE  IInv'
<1>1. /\ task \in Seq(Task) /\ call \in [Caller -> Call] /\ Closer \in Caller
      /\ Cancel(Index) /\ flag' = TRUE /\ UNCHANGED <<db, table, forward, sends>>
  BY DEF IInv, Typed, StartShutdown, Caller
<1>2. /\ Progress /\ Index' = Index
      /\ \A i \in Index : /\ task'[i].sid = task[i].sid
                          /\ task'[i].disposed = task[i].disposed
                          /\ task'[i].life = task[i].life
                          /\ task'[i].cancelled
  BY <1>1, CancelProgress
<1>3. Alone(Closer) /\ call'[Closer].step = "drain"
  <2>1. Goto(Closer, "drain", {})
    BY DEF StartShutdown
  <2> QED
    BY <1>1, <2>1, CallMoves DEF Steps
<1>4. Typed'
  BY <1>1, <1>2, <1>3 DEF IInv, Typed, Progress, Alone
<1>5. TableInv' /\ DisposedInv' /\ Isolation' /\ ShutdownReachesAll'
  BY <1>1, <1>2 DEF IInv, TableInv, DisposedInv, Isolation, ShutdownReachesAll
<1>6. EndInv'
  <2>1. \A d \in Caller : call'[d].step = "end" => call'[d] = call[d]
    BY <1>3 DEF Alone
  <2> QED
    BY <1>1, <1>2, <2>1 DEF IInv, EndInv
<1>7. StopInv'
  <2>1. \A d \in Caller : d # Closer => StopOf(d)'
    BY <1>2, <1>3, StopKept DEF Alone
  <2>2. StopOf(Closer)'
    BY <1>3 DEF StopOf
  <2> QED
    BY <2>1, <2>2, StopAll
<1>8. SidInv'
  BY <1>3 DEF IInv, SidInv, SidOf, Alone
<1> QED
  BY <1>4, <1>5, <1>6, <1>7, <1>8 DEF IInv

\* Shutdown takes every handle out of the table.
LEMMA TableDrained ==
  ASSUME IInv, DrainTable
  PROVE  IInv'
<1> DEFINE H == UNION {Found(s) : s \in Sid}
<1>1. /\ task \in Seq(Task) /\ call \in [Caller -> Call] /\ Closer \in Caller
      /\ UNCHANGED <<flag, db, forward, task, sends>> /\ table' = [s \in Sid |-> 0]
      /\ table \in [Sid -> Nat]
  BY DEF IInv, Typed, DrainTable, Caller
<1>2. H \in SUBSET (Nat \ {0})
  BY FoundType DEF IInv
<1>3. Alone(Closer) /\ call'[Closer].step = "end" /\ call'[Closer].holds = H
  <2>1. Goto(Closer, "end", H)
    BY DEF DrainTable
  <2> HIDE DEF H
  <2> QED
    BY <1>1, <1>2, <2>1, CallMoves DEF Steps
<1>4. ASSUME NEW i \in H
      PROVE  /\ i \in Index /\ task[i].disposed = 0
             /\ \A d \in Caller : call[d].step = "end" => i \notin call[d].holds
  <2>1. PICK s \in Sid : i = table[s] /\ table[s] # 0
    BY DEF Found
  <2> QED
    BY <2>1 DEF IInv, TableInv, EndInv
<1> HIDE DEF H
<1>5. Index' = Index /\ \A i \in Index : i # 0
  BY <1>1 DEF Index
<1>6. Typed'
  BY <1>1, <1>3 DEF IInv, Typed, Alone
<1>7. TableInv' /\ DisposedInv' /\ Isolation' /\ ShutdownReachesAll'
  BY <1>1, <1>5 DEF IInv, TableInv, DisposedInv, Isolation, ShutdownReachesAll
<1>8. EndInv'
  <2>1. ASSUME NEW d \in Caller, call'[d].step = "end", NEW i \in call'[d].holds
        PROVE  /\ i \in Index /\ task[i].disposed = 0
               /\ \A e \in Caller : call'[e].step = "end" /\ i \in call'[e].holds => e = d
    <3>1. CASE i \in H
      <4>1. \A e \in Caller : call'[e].step = "end" /\ i \in call'[e].holds => e = Closer
        BY <1>3, <1>4, <3>1 DEF Alone
      <4> QED
        BY <1>4, <2>1, <3>1, <4>1
    <3>2. CASE i \notin H
      <4>1. ASSUME NEW e \in Caller, call'[e].step = "end", i \in call'[e].holds
            PROVE  call[e].step = "end" /\ i \in call[e].holds
        BY <1>3, <3>2, <4>1 DEF Alone
      <4> QED
        BY <2>1, <4>1 DEF IInv, EndInv
    <3> QED
      BY <3>1, <3>2
  <2> QED
    BY <1>1, <1>5, <2>1 DEF EndInv
<1>9. StopInv'
  <2>1. Progress
    <3>1. \A i \in Index : task[i].turns \in Nat
      <4>1. \A i \in Index : task[i] \in Task
        BY <1>1 DEF Index
      <4> QED
        BY <4>1 DEF Task
    <3>2. Len(task) \in Nat
      BY <1>1, LenProperties
    <3> QED
      BY <1>1, <3>1, <3>2 DEF Progress
  <2>2. \A d \in Caller : d # Closer => StopOf(d)'
    BY <1>3, <2>1, StopKept DEF Alone
  <2>3. StopOf(Closer)'
    BY <1>3 DEF StopOf
  <2> QED
    BY <2>2, <2>3, StopAll
<1>10. SidInv'
  BY <1>3 DEF IInv, SidInv, SidOf, Alone
<1> QED
  BY <1>6, <1>7, <1>8, <1>9, <1>10 DEF IInv

(***************************************************************************)
(* The invariant is inductive                                              *)
(***************************************************************************)
LEMMA InvInit == Init => IInv
<1> SUFFICES ASSUME Init PROVE IInv
  OBVIOUS
<1>1. task = <<>> /\ Len(task) = 0 /\ Index = {}
  BY DEF Init, Index
<1>2. \A c \in Caller : call[c] = NoCall
  BY DEF Init
<1>3. NoCall \in Call /\ NoCall.step = "none"
  BY DEF NoCall, Call, Steps
<1>4. task \in Seq(Task)
  BY <1>1
<1>5. Typed
  BY <1>3, <1>4 DEF Init, Typed
<1>6. TableInv /\ DisposedInv /\ Isolation /\ ShutdownReachesAll
  BY <1>1 DEF Init, TableInv, DisposedInv, Isolation, ShutdownReachesAll
<1>7. EndInv /\ StopInv /\ SidInv
  BY <1>2, <1>3 DEF EndInv, StopInv, SidInv, SidOf
<1> QED
  BY <1>5, <1>6, <1>7 DEF IInv

LEMMA InvStep == IInv /\ [Next]_vars => IInv'
<1> SUFFICES ASSUME IInv, [Next]_vars PROVE IInv'
  OBVIOUS
<1>1. CASE UNCHANGED vars
  <2>1. Index' = Index
    BY <1>1 DEF vars, Index
  <2>2. Typed' /\ TableInv' /\ DisposedInv'
    BY <1>1, <2>1 DEF vars, IInv, Typed, TableInv, DisposedInv
  <2>3. EndInv'
    BY <1>1, <2>1 DEF vars, IInv, EndInv
  <2>4. SidInv'
    BY <1>1 DEF vars, IInv, SidInv, SidOf
  <2>5. Isolation' /\ ShutdownReachesAll'
    BY <1>1, <2>1 DEF vars, IInv, Isolation, ShutdownReachesAll
  <2>6. StopInv'
    BY <1>1, <2>1 DEF vars, IInv, StopInv, StillRuns, InTurn
  <2> QED
    BY <2>2, <2>3, <2>4, <2>5, <2>6 DEF IInv
<1>2. CASE \E c \in AppCaller, s \in Sid :
             \/ StartCreate(c, s) \/ StartResume(c, s) \/ StartDestroy(c, s)
             \/ StopAtOnce(c, s) \/ StartStop(c, s)
  BY <1>2, BeginSteps, TakenOut
<1>3. CASE \/ \E s \in Sid : Send(s)
           \/ \E i \in Index : TaskStep(i)
  BY <1>3, TaskSteps
<1>4. CASE \E c \in ToolCaller, p \in Index, s \in Sid : StartChild(c, p, s)
  BY <1>4, ChildStarts
<1>5. CASE StartShutdown
  BY <1>5, ShutdownStarts
<1>6. ASSUME NEW c \in Caller, CallStep(c) PROVE IInv'
  <2>1. CASE Mount(c)
    BY <2>1, MountStep
  <2>2. CASE \/ Register(c) \/ EndAll(c) \/ Unforward(c) \/ StopTimeout(c)
             \/ ChildGone(c) \/ ToolDropped(c)
    BY <2>2, ReturnSteps
  <2>3. CASE \E i \in Index : EndOne(c, i)
    BY <2>3, EndStep
  <2>4. CASE StopSignal(c) \/ StopWait(c)
    BY <2>4, SignalSteps
  <2>5. CASE ChildDone(c)
    BY <2>5, TakenOut
  <2>6. CASE DrainTable
    BY <2>6, TableDrained
  <2> QED
    BY <1>6, <2>1, <2>2, <2>3, <2>4, <2>5, <2>6 DEF CallStep
<1> QED
  BY <1>1, <1>2, <1>3, <1>4, <1>5, <1>6 DEF Next, Step

LEMMA InvAlways == Spec => []IInv
BY InvInit, InvStep, PTL DEF Spec

(***************************************************************************)
(* One writer: the invariant                                               *)
(*                                                                         *)
(* SoleWriter is far from inductive: that a resumed session has no task    *)
(* yet follows from what the forwarder table says, which follows from the  *)
(* order in which every call of App changes the two tables.  HandInv says, *)
(* for each session that is not a child's, where its task is to be found.  *)
(***************************************************************************)
Users == AppCaller \cup {Closer}

\* A call of App, or the closer, has something in hand of session s.
Busy(c, s) ==
  \/ c = Closer /\ call[c].step \in {"end", "unforward", "closed"}
  \/ /\ c \in AppCaller /\ call[c].sid = s
     /\ call[c].step \in {"mount", "register", "end", "unforward"}

\* A session with a task, or about to get one, has a row.
RowOfCall(c) == call[c].step = "mount" => call[c].sid \in db
RowInv == (\A i \in Index : task[i].sid \in db) /\ \A c \in Caller : RowOfCall(c)

\* Each kind of caller goes through the steps of its own calls only; a child that the
\* tool mounts has a parent.
RoleOf(c) ==
  /\ c \in AppCaller => call[c].step \notin {"child", "drain", "closed"}
  /\ c \in ToolCaller =>
       /\ call[c].step \in {"none", "mount", "child", "end"}
       /\ call[c].step = "mount" => call[c].parent # 0
       /\ call[c].step = "child" => IsChild(call[c].sid)
  /\ c = Closer => call[c].step \in {"none", "drain", "end", "unforward", "closed"}
RoleInv == \A c \in Caller : RoleOf(c)

\* Nothing of App is under way once the closer has begun.
ClosingInv == call[Closer].step # "none" => \A c \in AppCaller : Free(c)

\* A call ends one handle; the closer ends one of each session.
HoldOf(c) ==
  call[c].step = "end" /\ c \in Users =>
    \A i, j \in call[c].holds : task[i].sid = task[j].sid => i = j
HoldInv == \A c \in Caller : HoldOf(c)

\* A session about to be mounted for App is not mounted, forwarded or written by anyone;
\* one about to be registered is what the table says; one that is being ended is out of
\* the table; otherwise the two tables agree, and who may write is in the table or with
\* the call that ends it.
NobodyWrites(s) == \A i \in Index : task[i].sid = s => ~Working(i)
MountOf(s) ==
  \A c \in AppCaller : call[c].step = "mount" /\ call[c].sid = s =>
    table[s] = 0 /\ forward[s] = 0 /\ NobodyWrites(s)
RegisterOf(s) ==
  \A c \in AppCaller : call[c].step = "register" /\ call[c].sid = s =>
    call[c].holds = {table[s]}
EndOf(s) ==
  \A c \in Users : Busy(c, s) /\ call[c].step \in {"end", "unforward", "closed"} => table[s] = 0
ForwardOf(s) ==
  \/ forward[s] = table[s]
  \/ \E c \in Users : Busy(c, s) /\ call[c].step \in {"register", "end", "unforward"}
WriterOf(s) ==
  \A i \in Index : task[i].sid = s /\ Working(i) =>
    \/ table[s] = i
    \/ \E c \in Users : Busy(c, s) /\ call[c].step = "end" /\ i \in call[c].holds
OneHand(s) == MountOf(s) /\ RegisterOf(s) /\ EndOf(s) /\ ForwardOf(s) /\ WriterOf(s)
HandInv == \A s \in Sid : ~IsChild(s) => OneHand(s)

SoloInv == RowInv /\ RoleInv /\ ClosingInv /\ HoldInv /\ HandInv

(***************************************************************************)
(* One writer: what a step leaves alone                                    *)
(***************************************************************************)
\* Tasks keep their session and their parent, and one that has stopped working has
\* stopped for good.
Grows ==
  /\ Len(task) <= Len(task')
  /\ \A i \in Index : /\ task'[i].sid = task[i].sid /\ task'[i].parent = task[i].parent
                      /\ Working(i)' => Working(i)
\* No task of the session is new.
NoneNew(s) == \A i \in Index' : task'[i].sid = s => i \in Index

\* A cancellation, and a change of one task that leaves it what it is.
LEMMA GrowsBy ==
  ASSUME task \in Seq(Task), task' \in Seq(Task),
         \/ task' = task
         \/ \E S : Cancel(S)
         \/ \E i \in Index, new \in Task :
              /\ task' = [task EXCEPT ![i] = new]
              /\ new.sid = task[i].sid /\ new.parent = task[i].parent
              /\ new.life # "over" /\ ~new.aborting => Working(i)
  PROVE  Grows /\ Index' = Index /\ \A s : NoneNew(s)
<1>0. \A i \in Index : task[i] \in Task
  BY DEF Index
<1>1. CASE task' = task
  BY <1>1 DEF Grows, NoneNew, Index, Working
<1>2. ASSUME NEW S, Cancel(S) PROVE Grows /\ Index' = Index
  <2>1. /\ Len(task') = Len(task)
        /\ \A i \in Index : \/ task'[i] = [task[i] EXCEPT !.cancelled = TRUE]
                            \/ task'[i] = task[i]
    BY <1>2, CancelType
  <2>2. ASSUME NEW i \in Index
        PROVE  /\ task'[i].sid = task[i].sid /\ task'[i].parent = task[i].parent
               /\ task'[i].life = task[i].life /\ task'[i].aborting = task[i].aborting
    BY <1>0, <2>1 DEF Task
  <2> QED
    BY <2>1, <2>2 DEF Grows, Index, Working
<1>3. ASSUME NEW i \in Index, NEW new \in Task, task' = [task EXCEPT ![i] = new],
             new.sid = task[i].sid, new.parent = task[i].parent,
             new.life # "over" /\ ~new.aborting => Working(i)
      PROVE  Grows /\ Index' = Index
  <2>1. /\ Len(task') = Len(task) /\ task'[i] = new
        /\ \A j \in Index : j # i => task'[j] = task[j]
    BY <1>3, OneTaskType
  <2>2. Index' = Index
    BY <2>1 DEF Index
  <2>3. ASSUME NEW j \in Index
        PROVE  /\ task'[j].sid = task[j].sid /\ task'[j].parent = task[j].parent
               /\ Working(j)' => Working(j)
    BY <1>3, <2>1 DEF Working
  <2>4. Len(task) <= Len(task')
    BY <2>1
  <2> QED
    BY <2>2, <2>3, <2>4 DEF Grows
<1>4. Grows /\ Index' = Index
  BY <1>1, <1>2, <1>3 DEF Index
<1> QED
  BY <1>4 DEF NoneNew

\* A child's session remains one.
LEMMA ChildStays ==
  ASSUME task \in Seq(Task), task' \in Seq(Task), Grows, NEW s, IsChild(s)
  PROVE  IsChild(s)'
<1>1. PICK i \in Index : task[i].sid = s /\ task[i].parent # 0
  BY DEF IsChild
<1>2. i \in Index'
  BY <1>1 DEF Index, Grows
<1> QED
  BY <1>1, <1>2 DEF IsChild, Grows

\* A session nobody touches keeps its place.
LEMMA HandKept ==
  ASSUME IInv, NEW s \in Sid, OneHand(s), Grows, NoneNew(s),
         table'[s] = table[s], forward'[s] = forward[s],
         \A c \in Users : Busy(c, s) \/ Busy(c, s)' => call'[c] = call[c]
  PROVE  OneHand(s)'
<1>1. \A i \in Index' : task'[i].sid = s =>
        i \in Index /\ task[i].sid = s /\ (Working(i)' => Working(i))
  BY DEF Grows, NoneNew
<1>2. \A c \in AppCaller : c \in Users
  BY DEF Users
<1>3. \A c \in AppCaller :
        call'[c].step \in {"mount", "register"} /\ call'[c].sid = s => call'[c] = call[c]
  BY <1>2 DEF Busy
<1>4. MountOf(s)'
  BY <1>1, <1>3 DEF OneHand, MountOf, NobodyWrites
<1>5. RegisterOf(s)'
  BY <1>3 DEF OneHand, RegisterOf
<1>6. \A c \in Users : Busy(c, s)' => Busy(c, s) /\ call'[c] = call[c]
  BY DEF Busy
<1>7. \A c \in Users : Busy(c, s) => Busy(c, s)' /\ call'[c] = call[c]
  BY DEF Busy
<1>8. EndOf(s)'
  BY <1>6 DEF OneHand, EndOf
<1>9. ForwardOf(s)'
  BY <1>7 DEF OneHand, ForwardOf
<1>10. WriterOf(s)'
  BY <1>1, <1>7 DEF OneHand, WriterOf
<1> QED
  BY <1>4, <1>5, <1>8, <1>9, <1>10 DEF OneHand

\* What remains to be shown of a step in which one caller moves.
LEMMA SoloStep ==
  ASSUME IInv, SoloInv, task' \in Seq(Task), Grows, NEW c \in Caller, Alone(c),
         db \subseteq db', \A i \in Index' : task'[i].sid \in db',
         RowOfCall(c)', RoleOf(c)', HoldOf(c)', ClosingInv',
         \A s \in Sid : ~IsChild(s)' /\ OneHand(s) => OneHand(s)'
  PROVE  SoloInv'
<1>0. task \in Seq(Task)
  BY DEF IInv, Typed
<1>1. RowInv'
  <2>1. ASSUME NEW d \in Caller PROVE RowOfCall(d)'
    BY DEF SoloInv, RowInv, RowOfCall, Alone
  <2> QED
    BY <2>1 DEF RowInv
<1>2. RoleInv'
  <2>1. ASSUME NEW d \in Caller, d # c PROVE RoleOf(d)'
    <3>1. call'[d] = call[d] /\ RoleOf(d)
      BY <2>1 DEF Alone, SoloInv, RoleInv
    <3>2. IsChild(call[d].sid) => IsChild(call[d].sid)'
      <4> DEFINE s == call[d].sid
      <4>1. IsChild(s) => \E i \in Index' : task'[i].sid = s /\ task'[i].parent # 0
        BY <1>0 DEF IsChild, Grows, Index
      <4> QED
        BY <3>1, <4>1 DEF IsChild
    <3> QED
      BY <3>1, <3>2 DEF RoleOf
  <2> QED
    BY <2>1 DEF RoleInv
<1>3. HoldInv'
  <2>1. ASSUME NEW d \in Caller, d # c PROVE HoldOf(d)'
    <3>1. call'[d] = call[d] /\ HoldOf(d)
      BY <2>1 DEF Alone, SoloInv, HoldInv
    <3>2. call[d].step = "end" => \A i \in call[d].holds : task'[i].sid = task[i].sid
      BY DEF IInv, EndInv, Grows
    <3> QED
      BY <3>1, <3>2 DEF HoldOf
  <2> QED
    BY <2>1 DEF HoldInv
<1>4. HandInv'
  <2>1. \A s \in Sid : ~IsChild(s)' => ~IsChild(s)
    BY <1>0, ChildStays
  <2> QED
    BY <2>1 DEF HandInv, SoloInv
<1> QED
  BY <1>1, <1>2, <1>3, <1>4 DEF SoloInv

\* A caller is a user of App, an execution of the tool, or the closer.
LEMMA Kinds ==
  /\ \A c \in AppCaller : c \in Caller /\ c \in Users /\ c \notin ToolCaller /\ c # Closer
  /\ \A c \in ToolCaller : c \in Caller /\ c \notin Users /\ c # Closer
  /\ Closer \in Caller /\ Closer \in Users /\ Closer \notin AppCaller
  /\ \A c \in Caller : c \in AppCaller \/ c \in ToolCaller \/ c = Closer
BY CallerAssumption DEF Caller, Users

\* Whoever moves, nothing of App goes on beside the closer.
LEMMA ClosingKept ==
  ASSUME ClosingInv, NEW c \in Caller, Alone(c),
         \/ c \in ToolCaller
         \/ c \in AppCaller /\ ~Free(c)
         \/ c \in AppCaller /\ AppOpen
         \/ c = Closer /\ call[Closer].step # "none"
  PROVE  ClosingInv'
<1>1. \A d \in AppCaller : d # c => (Free(d)' <=> Free(d))
  BY Kinds DEF Alone, Free
<1>2. CASE c \in AppCaller
  <2>1. call[Closer].step = "none"
    BY <1>2, Kinds DEF ClosingInv, AppOpen
  <2>2. call'[Closer] = call[Closer]
    BY <1>2, Kinds DEF Alone
  <2> QED
    BY <2>1, <2>2 DEF ClosingInv
<1>3. CASE c \notin AppCaller
  <2>1. call[Closer].step # "none" \/ call'[Closer] = call[Closer]
    BY <1>3, Kinds DEF Alone
  <2> QED
    BY <1>1, <1>3, <2>1 DEF ClosingInv
<1> QED
  BY <1>2, <1>3

\* Rows stay, and no task is new.
LEMMA RowsStay ==
  ASSUME SoloInv, Grows, Index' = Index, db \subseteq db'
  PROVE  \A i \in Index' : task'[i].sid \in db'
BY DEF SoloInv, RowInv, Grows

\* A caller moves with nothing of App in hand, before or after.
LEMMA SoloIdle ==
  ASSUME IInv, SoloInv, task' \in Seq(Task), Grows, Index' = Index,
         NEW c \in Caller, Alone(c),
         db \subseteq db', RowOfCall(c)', RoleOf(c)', HoldOf(c)', ClosingInv',
         \A s \in Sid : ~IsChild(s)' => table'[s] = table[s] /\ forward'[s] = forward[s],
         \A s \in Sid : c \in Users => ~Busy(c, s) /\ ~Busy(c, s)'
  PROVE  SoloInv'
<1>1. \A i \in Index' : task'[i].sid \in db'
  BY RowsStay
<1>2. ASSUME NEW s \in Sid, ~IsChild(s)', OneHand(s) PROVE OneHand(s)'
  <2>1. NoneNew(s)
    BY DEF NoneNew
  <2>2. \A d \in Users : Busy(d, s) \/ Busy(d, s)' => call'[d] = call[d]
    BY DEF Alone, Users, Caller
  <2> QED
    BY <1>2, <2>1, <2>2, HandKept
<1> QED
  BY <1>1, <1>2, SoloStep

\* No caller moves.
LEMMA SoloTasks ==
  ASSUME IInv, SoloInv, task' \in Seq(Task), Grows, Index' = Index,
         UNCHANGED <<db, table, forward, call>>
  PROVE  SoloInv'
<1>0. call \in [Caller -> Call] /\ Closer \in Caller
  BY Kinds DEF IInv, Typed
<1>1. Alone(Closer)
  BY <1>0 DEF Alone
<1>2. RowOfCall(Closer)' /\ ClosingInv'
  BY <1>0 DEF SoloInv, RowInv, RowOfCall, ClosingInv, Free
<1>3. RoleOf(Closer)'
  BY <1>0, Kinds DEF SoloInv, RoleInv, RoleOf
<1>4. HoldOf(Closer)'
  BY <1>0 DEF SoloInv, HoldInv, HoldOf, IInv, EndInv, Grows
<1>5. \A i \in Index' : task'[i].sid \in db'
  BY RowsStay
<1>6. ASSUME NEW s \in Sid, ~IsChild(s)', OneHand(s) PROVE OneHand(s)'
  <2>1. NoneNew(s)
    BY DEF NoneNew
  <2> QED
    BY <1>6, <2>1, HandKept
<1> QED
  BY <1>0, <1>1, <1>2, <1>3, <1>4, <1>5, <1>6, SoloStep

(***************************************************************************)
(* One writer: the steps                                                   *)
(***************************************************************************)
\* A task runs, or an entry is sent to it.
LEMMA SoloRuns ==
  ASSUME IInv, IInv', SoloInv, \/ \E s \in Sid : Send(s)
                               \/ \E i \in Index : TaskStep(i)
  PROVE  SoloInv'
<1>1. task \in Seq(Task) /\ task' \in Seq(Task) /\ \A i \in Index : task[i] \in Task
  BY DEF IInv, Typed, Index
<1>2. /\ UNCHANGED <<db, table, forward, call>>
      /\ \E i \in Index : \E new \in Task :
           /\ task' = [task EXCEPT ![i] = new]
           /\ new.sid = task[i].sid /\ new.parent = task[i].parent
           /\ new.life # "over" => new.aborting = task[i].aborting
           /\ task[i].life = "over" => new.life = "over"
  <2>1. ASSUME NEW i \in Index, NEW new, task' = [task EXCEPT ![i] = new]
        PROVE  new \in Task
    <3>1. task'[i] = new /\ i \in 1 .. Len(task')
      <4>1. DOMAIN task' = DOMAIN task /\ DOMAIN task = 1 .. Len(task)
        BY <1>1, <2>1
      <4> QED
        BY <1>1, <2>1, <4>1 DEF Index
    <3> QED
      BY <1>1, <3>1
  <2>2. ASSUME NEW s \in Sid, Send(s)
        PROVE  /\ UNCHANGED <<db, table, forward, call>>
               /\ \E i \in Index : \E new :
                    /\ task' = [task EXCEPT ![i] = new]
                    /\ new.sid = task[i].sid /\ new.parent = task[i].parent
                    /\ new.aborting = task[i].aborting /\ new.life = task[i].life
    <3> DEFINE i == table[s]
               new == [task[i] EXCEPT !.mail = @ + 1]
    <3>1. i \in Index
      BY <2>2 DEF IInv, TableInv, Send
    <3>2. /\ new.sid = task[i].sid /\ new.parent = task[i].parent
          /\ new.aborting = task[i].aborting /\ new.life = task[i].life
      BY <1>1, <3>1 DEF Task
    <3>3. task' = [task EXCEPT ![i] = new] /\ UNCHANGED <<db, table, forward, call>>
      BY <2>2 DEF Send
    <3> QED
      BY <3>1, <3>2, <3>3
  <2>3. ASSUME NEW i \in Index, TaskStep(i)
        PROVE  /\ UNCHANGED <<db, table, forward, call>>
               /\ \E new :
                    /\ task' = [task EXCEPT ![i] = new]
                    /\ new.sid = task[i].sid /\ new.parent = task[i].parent
                    /\ new.life # "over" => new.aborting = task[i].aborting
                    /\ task[i].life = "over" => new.life = "over"
    <3>1. task[i] \in Task
      BY <1>1
    <3>2. CASE TurnBegins(i)
      BY <3>1, <3>2 DEF TurnBegins, Set, Task
    <3>3. CASE SignalIgnored(i) \/ EntryQueued(i)
      BY <3>1, <3>3 DEF SignalIgnored, EntryQueued, InTurn, Set, Task
    <3>4. CASE TurnEnds(i)
      BY <3>1, <3>4 DEF TurnEnds, InTurn, Set, Task
    <3>5. CASE TaskExits(i) \/ AbortLands(i)
      BY <3>1, <3>5 DEF TaskExits, AbortLands, Over, Set, Task
    <3> QED
      BY <2>3, <3>2, <3>3, <3>4, <3>5 DEF TaskStep
  <2> QED
    BY <2>1, <2>2, <2>3
<1>3. Grows /\ Index' = Index
  <2>1. \A i \in Index, new \in Task :
          (new.life # "over" => new.aborting = task[i].aborting) /\ (task[i].life = "over" => new.life = "over")
          => (new.life # "over" /\ ~new.aborting => Working(i))
    BY DEF Working
  <2> QED
    BY <1>1, <1>2, <2>1, GrowsBy
<1> QED
  BY <1>1, <1>2, <1>3, SoloTasks

\* Ending a handle: the task is over, or told to abort.
LEMMA EndGrows ==
  ASSUME IInv, IInv', NEW c \in Caller, NEW i \in Index, EndOne(c, i)
  PROVE  /\ Grows /\ Index' = Index /\ ~Working(i)' /\ Alone(c)
         /\ call[c].step = "end" /\ i \in call[c].holds
         /\ call'[c].step = "end" /\ call'[c].sid = call[c].sid
         /\ call'[c].holds = call[c].holds \ {i}
         /\ UNCHANGED <<db, table, forward>>
<1>1. /\ task \in Seq(Task) /\ task' \in Seq(Task) /\ task[i] \in Task
      /\ call \in [Caller -> Call] /\ call' \in [Caller -> Call] /\ call[c] \in Call
  BY DEF IInv, Typed, Index
<1>2. PICK new : /\ task' = [task EXCEPT ![i] = new]
                 /\ \/ task[i].life = "over" /\ new = [task[i] EXCEPT !.disposed = @ + 1]
                    \/ new = [task[i] EXCEPT !.disposed = @ + 1, !.aborting = TRUE]
  BY DEF EndOne
<1>3. /\ new \in Task /\ new.sid = task[i].sid /\ new.parent = task[i].parent
      /\ new.life = "over" \/ new.aborting
  <2>1. task[i].disposed + 1 \in Nat
    BY <1>1 DEF Task
  <2> QED
    BY <1>1, <1>2, <2>1 DEF Task
<1>4. Grows /\ Index' = Index
  BY <1>1, <1>2, <1>3, GrowsBy
<1>5. ~Working(i)'
  <2>1. task'[i] = new
    BY <1>1, <1>2, <1>3, OneTaskType
  <2> QED
    BY <1>3, <2>1 DEF Working
<1>6. call' = [call EXCEPT ![c].holds = @ \ {i}]
  BY DEF EndOne
<1>7. /\ Alone(c) /\ call'[c].step = call[c].step /\ call'[c].sid = call[c].sid
      /\ call'[c].holds = call[c].holds \ {i}
  BY <1>1, <1>6 DEF Alone, Call
<1> QED
  BY <1>4, <1>5, <1>7 DEF EndOne

\* stop_session has nothing in hand.
LEMMA SoloStops ==
  ASSUME IInv, IInv', SoloInv,
         \/ \E c \in AppCaller, s \in Sid : StopAtOnce(c, s) \/ StartStop(c, s)
         \/ \E c \in Caller : StopSignal(c) \/ StopWait(c) \/ StopTimeout(c)
  PROVE  SoloInv'
<1>1. /\ task \in Seq(Task) /\ task' \in Seq(Task) /\ \A i \in Index : task[i] \in Task
      /\ call \in [Caller -> Call] /\ call' \in [Caller -> Call]
  BY DEF IInv, Typed, Index
<1>2. ASSUME NEW c \in AppCaller, Alone(c), Grows, Index' = Index,
             UNCHANGED <<db, table, forward>>,
             call[c].step \in {"none", "quiet", "signal", "wait"},
             call'[c].step \in {"none", "quiet", "signal", "wait"},
             AppOpen \/ ~Free(c)
      PROVE  SoloInv'
  <2>1. c \in Caller /\ c \notin ToolCaller /\ c # Closer
    BY Kinds
  <2>2. RowOfCall(c)' /\ RoleOf(c)' /\ HoldOf(c)'
    BY <1>2, <2>1 DEF RowOfCall, RoleOf, HoldOf
  <2>3. ClosingInv'
    BY <1>2, <2>1, ClosingKept DEF SoloInv
  <2>4. \A s \in Sid : ~Busy(c, s) /\ ~Busy(c, s)'
    BY <1>2, <2>1 DEF Busy
  <2> QED
    BY <1>1, <1>2, <2>1, <2>2, <2>3, <2>4, SoloIdle
<1>3. ASSUME NEW c \in AppCaller, NEW s \in Sid, StopAtOnce(c, s) \/ StartStop(c, s)
      PROVE  SoloInv'
  <2>1. /\ AppOpen /\ call[c].step \in {"none", "quiet"} /\ UNCHANGED <<db, table, forward, task>>
        /\ \/ Begin(c, s, "quiet", Found(s)) \/ Begin(c, s, "signal", Found(s))
    BY <1>3 DEF StopAtOnce, StartStop, Free, Found
  <2>2. c \in Caller /\ TurnsOf(s) \subseteq Nat \X Nat /\ Found(s) \in SUBSET (Nat \ {0})
    BY <1>1, Kinds, SeenType, FoundType DEF IInv
  <2>3. Alone(c) /\ call'[c].step \in {"quiet", "signal"}
    BY <1>1, <2>1, <2>2, CallBegins DEF Steps
  <2> QED
    BY <1>1, <1>2, <2>1, <2>3, GrowsBy
<1>4. ASSUME NEW c \in Caller, StopSignal(c) \/ StopWait(c) \/ StopTimeout(c)
      PROVE  SoloInv'
  <2>1. call[c].step \in {"signal", "wait"} /\ UNCHANGED <<db, table, forward>>
    BY <1>4 DEF StopSignal, StopWait, StopTimeout
  <2>2. c \in AppCaller /\ ~Free(c)
    BY <2>1, Kinds DEF SoloInv, RoleInv, RoleOf, Free
  <2>3. Grows /\ Index' = Index
    <3>1. CASE UNCHANGED task
      BY <1>1, <3>1, GrowsBy
    <3>2. ASSUME NEW i \in call[c].holds, call[c].step = "signal",
                 task' = [task EXCEPT ![i].stops = @ + 1]
          PROVE  Grows /\ Index' = Index
      <4>1. i \in Index
        BY <3>2 DEF IInv, StopInv
      <4> DEFINE new == [task[i] EXCEPT !.stops = @ + 1]
      <4>2. /\ new \in Task /\ new.sid = task[i].sid /\ new.parent = task[i].parent
            /\ new.life # "over" /\ ~new.aborting => Working(i)
        <5>1. task[i].stops + 1 \in Nat
          BY <1>1, <4>1 DEF Task
        <5> QED
          BY <1>1, <4>1, <5>1 DEF Task, Working
      <4>3. task' = [task EXCEPT ![i] = new]
        BY <3>2
      <4> HIDE DEF new
      <4> QED
        BY <1>1, <4>1, <4>2, <4>3, GrowsBy
    <3> QED
      BY <1>4, <3>1, <3>2 DEF StopSignal, StopWait, StopTimeout
  <2>4. Alone(c) /\ call'[c].step \in {"none", "quiet", "wait"}
    <3>1. CASE Return(c) \/ Quiet(c)
      BY <1>1, <3>1, CallMoves
    <3>2. ASSUME NEW i \in call[c].holds, Goto(c, "wait", {i})
          PROVE  Alone(c) /\ call'[c].step = "wait"
      <4>1. {i} \in SUBSET (Nat \ {0})
        BY <1>1 DEF Call
      <4> QED
        BY <1>1, <3>2, <4>1, CallMoves DEF Steps
    <3> QED
      BY <1>4, <3>1, <3>2 DEF StopSignal, StopWait, StopTimeout
  <2> QED
    BY <1>2, <2>1, <2>2, <2>3, <2>4
<1> QED
  BY <1>3, <1>4

\* The subagent tool works on the sessions of children.
LEMMA SoloTools ==
  ASSUME IInv, IInv', SoloInv, NEW c \in ToolCaller,
         \/ \E p \in Index, s \in Sid : StartChild(c, p, s)
         \/ \E i \in Index : EndOne(c, i)
         \/ EndAll(c) \/ ChildDone(c) \/ ChildGone(c) \/ ToolDropped(c)
  PROVE  SoloInv'
<1>1. /\ task \in Seq(Task) /\ task' \in Seq(Task) /\ \A i \in Index : task[i] \in Task
      /\ call \in [Caller -> Call] /\ call' \in [Caller -> Call]
      /\ c \in Caller /\ c \notin Users /\ c \notin AppCaller /\ c # Closer
      /\ table \in [Sid -> Nat]
  BY Kinds DEF IInv, Typed, Index
<1>2. ASSUME Alone(c), Grows, Index' = Index, db \subseteq db', RowOfCall(c)',
             call'[c].step \in {"none", "mount", "end"},
             call'[c].step = "mount" => call'[c].parent # 0,
             \A s \in Sid : ~IsChild(s)' => table'[s] = table[s] /\ forward'[s] = forward[s]
      PROVE  SoloInv'
  <2>1. RoleOf(c)' /\ HoldOf(c)'
    BY <1>1, <1>2 DEF RoleOf, HoldOf
  <2>2. ClosingInv'
    BY <1>1, <1>2, ClosingKept DEF SoloInv
  <2> QED
    BY <1>1, <1>2, <2>1, <2>2, SoloIdle
<1>3. ASSUME NEW p \in Index, NEW s \in Sid, StartChild(c, p, s) PROVE SoloInv'
  <2> DEFINE new == [NoCall EXCEPT !.step = "mount", !.sid = s, !.parent = p,
                                   !.seen = {<<p, task[p].turns>>}]
  <2>1. new.step = "mount" /\ new.sid = s /\ new.parent = p /\ p # 0
    BY DEF NoCall, Index
  <2>2. /\ call' = [call EXCEPT ![c] = new] /\ db' = db \cup {s}
        /\ UNCHANGED <<table, forward, task>>
    BY <1>3 DEF StartChild
  <2> HIDE DEF new
  <2>3. Alone(c) /\ call'[c] = new
    BY <1>1, <2>2 DEF Alone
  <2>4. RowOfCall(c)'
    BY <2>1, <2>2, <2>3 DEF RowOfCall
  <2>5. Grows /\ Index' = Index
    BY <1>1, <2>2, GrowsBy
  <2> QED
    BY <1>2, <2>1, <2>2, <2>3, <2>4, <2>5
<1>4. ASSUME NEW i \in Index, EndOne(c, i) PROVE SoloInv'
  <2>1. Grows /\ Index' = Index
    BY <1>1, <1>4, EndGrows
  <2>2. Alone(c) /\ call'[c].step = "end" /\ UNCHANGED <<db, table, forward>>
    BY <1>1, <1>4, EndGrows
  <2>3. RowOfCall(c)'
    BY <2>2 DEF RowOfCall
  <2> QED
    BY <1>2, <2>1, <2>2, <2>3
<1>5. CASE EndAll(c) \/ ChildGone(c) \/ ToolDropped(c)
  <2>1. Return(c) /\ UNCHANGED <<db, table, forward, task>>
    BY <1>5 DEF EndAll, ChildGone, ToolDropped
  <2>2. Alone(c) /\ call'[c].step = "none"
    BY <1>1, <2>1, CallMoves
  <2>3. Grows /\ Index' = Index /\ RowOfCall(c)'
    BY <1>1, <2>1, <2>2, GrowsBy DEF RowOfCall
  <2> QED
    BY <1>2, <2>1, <2>2, <2>3
<1>6. CASE ChildDone(c)
  <2>0. PICK r : r = call[c].sid
    OBVIOUS
  <2>1. r \in Sid /\ IsChild(r)
    BY <1>1, <1>6, <2>0 DEF ChildDone, IInv, SidInv, SidOf, SoloInv, RoleInv, RoleOf
  <2>2. /\ Cancel(Itself(table[r])) /\ table' = Removed(r) /\ table[r] # 0
        /\ Goto(c, "end", {table[r]}) /\ UNCHANGED <<db, forward>>
    BY <1>6, <2>0 DEF ChildDone
  <2>3. Grows /\ Index' = Index
    <3>1. \E S : Cancel(S)
      BY <2>2
    <3> QED
      BY <1>1, <3>1, GrowsBy
  <2>4. IsChild(r)'
    BY <1>1, <2>1, <2>3, ChildStays
  <2>5. \A s \in Sid : ~IsChild(s)' => table'[s] = table[s]
    BY <1>1, <2>2, <2>4 DEF Removed
  <2>6. Alone(c) /\ call'[c].step = "end"
    <3>1. {table[r]} \in SUBSET (Nat \ {0})
      BY <1>1, <2>1, <2>2
    <3> QED
      BY <1>1, <2>2, <3>1, CallMoves DEF Steps
  <2>7. RowOfCall(c)'
    BY <2>6 DEF RowOfCall
  <2> QED
    BY <1>2, <2>2, <2>3, <2>5, <2>6, <2>7
<1> QED
  BY <1>3, <1>4, <1>5, <1>6

\* Shutdown begins when App is at rest.
LEMMA SoloShutdown ==
  ASSUME IInv, IInv', SoloInv, StartShutdown
  PROVE  SoloInv'
<1>1. /\ task \in Seq(Task) /\ task' \in Seq(Task) /\ call \in [Caller -> Call]
      /\ Closer \in Caller /\ Closer \notin AppCaller /\ Closer \notin ToolCaller
      /\ {} \in SUBSET (Nat \ {0})
  BY Kinds DEF IInv, Typed
<1>2. /\ Goto(Closer, "drain", {}) /\ Cancel(Index) /\ call[Closer].step = "none"
      /\ UNCHANGED <<db, table, forward>> /\ \A c \in AppCaller : Free(c)
  BY DEF StartShutdown
<1>3. Alone(Closer) /\ call'[Closer].step = "drain"
  BY <1>1, <1>2, CallMoves DEF Steps
<1>4. Grows /\ Index' = Index
  BY <1>1, <1>2, GrowsBy
<1>5. RowOfCall(Closer)' /\ RoleOf(Closer)' /\ HoldOf(Closer)'
  BY <1>1, <1>3 DEF RowOfCall, RoleOf, HoldOf
<1>6. ClosingInv'
  BY <1>1, <1>2, <1>3, Kinds DEF ClosingInv, Free, Alone
<1>7. \A s \in Sid : ~Busy(Closer, s) /\ ~Busy(Closer, s)'
  BY <1>1, <1>2, <1>3 DEF Busy
<1> QED
  BY <1>1, <1>2, <1>3, <1>4, <1>5, <1>6, <1>7, SoloIdle

\* While calls are apart and the closer has not begun, what OneHand says of a session is
\* about the one user that has it in hand.
OnlyUser(c, s) == \A d \in AppCaller : Handling(d, s) => d = c
HandOf(c, s) ==
  /\ call[c].step = "mount" /\ call[c].sid = s =>
       table[s] = 0 /\ forward[s] = 0 /\ NobodyWrites(s)
  /\ call[c].step = "register" /\ call[c].sid = s => call[c].holds = {table[s]}
  /\ call[c].step \in {"end", "unforward"} /\ call[c].sid = s => table[s] = 0
  /\ \/ forward[s] = table[s]
     \/ call[c].step \in {"register", "end", "unforward"} /\ call[c].sid = s
  /\ \A i \in Index : task[i].sid = s /\ Working(i) =>
       table[s] = i \/ (call[c].step = "end" /\ call[c].sid = s /\ i \in call[c].holds)

LEMMA HandOfUser ==
  ASSUME NEW c \in AppCaller, NEW s
  PROVE  /\ OnlyUser(c, s) /\ call[Closer].step = "none" /\ RoleOf(c) /\ OneHand(s)
              => HandOf(c, s)
         /\ OnlyUser(c, s)' /\ call'[Closer].step = "none" /\ RoleOf(c)' /\ HandOf(c, s)'
              => OneHand(s)'
<1>1. /\ c \notin ToolCaller /\ c # Closer /\ c \in Users
      /\ \A d \in Users : d \in AppCaller \/ d = Closer
  BY Kinds DEF Users
<1>2. ASSUME OnlyUser(c, s), call[Closer].step = "none", RoleOf(c), OneHand(s) PROVE HandOf(c, s)
  <2>1. /\ ~Busy(Closer, s)
        /\ Busy(c, s) <=> /\ call[c].sid = s
                          /\ call[c].step \in {"mount", "register", "end", "unforward"}
        /\ \A d \in Users : Busy(d, s) => d = c
    BY <1>1, <1>2, Kinds DEF Busy, OnlyUser, Handling
  <2>2. \/ forward[s] = table[s]
        \/ call[c].step \in {"register", "end", "unforward"} /\ call[c].sid = s
    BY <1>1, <1>2, <2>1 DEF OneHand, ForwardOf
  <2>3. \A i \in Index : task[i].sid = s /\ Working(i) =>
          table[s] = i \/ (call[c].step = "end" /\ call[c].sid = s /\ i \in call[c].holds)
    <3>1. ASSUME NEW i \in Index, task[i].sid = s, Working(i), table[s] # i
          PROVE  call[c].step = "end" /\ call[c].sid = s /\ i \in call[c].holds
      <4>1. PICK d \in Users : Busy(d, s) /\ call[d].step = "end" /\ i \in call[d].holds
        BY <1>2, <3>1 DEF OneHand, WriterOf
      <4>2. d = c
        BY <1>1, <2>1, <4>1
      <4> QED
        BY <2>1, <4>1, <4>2
    <3> QED
      BY <3>1
  <2>4. call[c].step \in {"end", "unforward"} /\ call[c].sid = s => table[s] = 0
    BY <1>1, <1>2, <2>1 DEF OneHand, EndOf
  <2> QED
    BY <1>2, <2>2, <2>3, <2>4 DEF HandOf, OneHand, MountOf, RegisterOf
<1>3. ASSUME OnlyUser(c, s)', call'[Closer].step = "none", RoleOf(c)', HandOf(c, s)'
      PROVE  OneHand(s)'
  <2>1. /\ ~Busy(Closer, s)'
        /\ Busy(c, s)' <=> /\ call'[c].sid = s
                           /\ call'[c].step \in {"mount", "register", "end", "unforward"}
        /\ \A d \in Users : Busy(d, s)' => d = c
    BY <1>1, <1>3, Kinds DEF Busy, OnlyUser, Handling
  <2>2. MountOf(s)' /\ RegisterOf(s)'
    BY <1>1, <1>3 DEF HandOf, MountOf, RegisterOf, OnlyUser, Handling
  <2>3. EndOf(s)'
    BY <1>1, <1>3, <2>1 DEF HandOf, EndOf, RoleOf
  <2>4. ForwardOf(s)'
    BY <1>1, <1>3, <2>1 DEF HandOf, ForwardOf
  <2>5. WriterOf(s)'
    BY <1>1, <1>3, <2>1 DEF HandOf, WriterOf
  <2> QED
    BY <2>2, <2>3, <2>4, <2>5 DEF OneHand
<1> QED
  BY <1>2, <1>3

\* The user of App moves with one session in hand.
LEMMA SoloUser ==
  ASSUME IInv, SoloInv, CallsApart, CallsApart', task' \in Seq(Task), Grows, NEW c \in AppCaller, NEW r,
         Alone(c), AppOpen \/ ~Free(c), Free(c) \/ call[c].sid = r,
         call'[c].step = "none" \/ call'[c].sid = r, Handling(c, r) \/ Handling(c, r)',
         call'[c].step \in {"none", "mount", "register", "end", "unforward"},
         db \subseteq db', \A i \in Index' : task'[i].sid \in db',
         RowOfCall(c)', HoldOf(c)',
         \A s \in Sid \ {r} : table'[s] = table[s] /\ forward'[s] = forward[s] /\ NoneNew(s),
         r \in Sid /\ ~IsChild(r)' /\ HandOf(c, r) => HandOf(c, r)'
  PROVE  SoloInv'
<1>1. c \in Caller /\ c \notin ToolCaller /\ c # Closer /\ Closer \in Caller
  BY Kinds
<1>2. call[Closer].step = "none" /\ call'[Closer] = call[Closer]
  BY <1>1 DEF SoloInv, ClosingInv, AppOpen, Alone
<1>3. ClosingInv'
  BY <1>2 DEF ClosingInv
<1>4. RoleOf(c)' /\ RoleOf(c)
  BY <1>1 DEF RoleOf, SoloInv, RoleInv
<1>5. ASSUME NEW s \in Sid, ~IsChild(s)', OneHand(s) PROVE OneHand(s)'
  <2>1. CASE s = r
    <3>1. \A d \in AppCaller : d # c => (Handling(d, r) <=> Handling(d, r)')
      BY DEF Alone, Handling, Caller
    <3>2. OnlyUser(c, r) /\ OnlyUser(c, r)'
      BY <1>5, <2>1, <3>1 DEF CallsApart, OnlyUser
    <3> QED
      BY <1>2, <1>4, <1>5, <2>1, <3>2, HandOfUser
  <2>2. CASE s # r
    <3>1. \A d \in Users : Busy(d, s) \/ Busy(d, s)' => d # c
      BY <1>1, <2>2 DEF Busy, Free
    <3>2. \A d \in Users : Busy(d, s) \/ Busy(d, s)' => call'[d] = call[d]
      BY <3>1 DEF Alone, Users, Caller
    <3> QED
      BY <1>5, <2>2, <3>2, HandKept
  <2> QED
    BY <2>1, <2>2
<1> QED
  BY <1>1, <1>3, <1>4, <1>5, SoloStep

\* The closer is at work, and no call of App.
ClosedOf(s) ==
  /\ call[Closer].step \in {"end", "unforward", "closed"} => table[s] = 0
  /\ forward[s] = table[s] \/ call[Closer].step \in {"end", "unforward"}
  /\ \A i \in Index : task[i].sid = s /\ Working(i) =>
       table[s] = i \/ (call[Closer].step = "end" /\ i \in call[Closer].holds)

LEMMA HandOfCloser ==
  ASSUME NEW s
  PROVE  /\ (\A c \in AppCaller : Free(c)) /\ OneHand(s) => ClosedOf(s)
         /\ (\A c \in AppCaller : Free(c)') /\ ClosedOf(s)' => OneHand(s)'
<1>1. /\ Closer \in Users /\ Closer \notin AppCaller
      /\ \A d \in Users : d \in AppCaller \/ d = Closer
  BY Kinds DEF Users
<1>2. ASSUME \A c \in AppCaller : Free(c), OneHand(s) PROVE ClosedOf(s)
  <2>1. \A c \in AppCaller : ~Busy(c, s)
    BY <1>1, <1>2 DEF Busy, Free
  <2>2. Busy(Closer, s) <=> call[Closer].step \in {"end", "unforward", "closed"}
    BY <1>1 DEF Busy
  <2>3. call[Closer].step \in {"end", "unforward", "closed"} => table[s] = 0
    BY <1>1, <1>2, <2>2 DEF OneHand, EndOf
  <2>4. forward[s] = table[s] \/ call[Closer].step \in {"end", "unforward"}
    BY <1>1, <1>2, <2>1, <2>2 DEF OneHand, ForwardOf
  <2>5. \A i \in Index : task[i].sid = s /\ Working(i) =>
          table[s] = i \/ (call[Closer].step = "end" /\ i \in call[Closer].holds)
    <3>1. ASSUME NEW i \in Index, task[i].sid = s, Working(i), table[s] # i
          PROVE  call[Closer].step = "end" /\ i \in call[Closer].holds
      <4>1. PICK d \in Users : Busy(d, s) /\ call[d].step = "end" /\ i \in call[d].holds
        BY <1>2, <3>1 DEF OneHand, WriterOf
      <4>2. d = Closer
        BY <1>1, <2>1, <4>1
      <4> QED
        BY <4>1, <4>2
    <3> QED
      BY <3>1
  <2> QED
    BY <2>3, <2>4, <2>5 DEF ClosedOf
<1>3. ASSUME \A c \in AppCaller : Free(c)', ClosedOf(s)' PROVE OneHand(s)'
  <2>1. \A c \in AppCaller : ~Busy(c, s)'
    BY <1>1, <1>3 DEF Busy, Free
  <2>2. Busy(Closer, s)' <=> call'[Closer].step \in {"end", "unforward", "closed"}
    BY <1>1 DEF Busy
  <2>3. MountOf(s)' /\ RegisterOf(s)'
    BY <1>3 DEF MountOf, RegisterOf, Free
  <2>4. EndOf(s)'
    BY <1>1, <1>3, <2>1 DEF ClosedOf, EndOf
  <2>5. ForwardOf(s)'
    BY <1>1, <1>3, <2>2 DEF ClosedOf, ForwardOf
  <2>6. WriterOf(s)'
    BY <1>1, <1>3, <2>2 DEF ClosedOf, WriterOf
  <2> QED
    BY <2>3, <2>4, <2>5, <2>6 DEF OneHand
<1> QED
  BY <1>2, <1>3

LEMMA SoloClosing ==
  ASSUME IInv, SoloInv, task' \in Seq(Task), Grows, Index' = Index, Alone(Closer),
         call[Closer].step # "none",
         call'[Closer].step \in {"drain", "end", "unforward", "closed"},
         UNCHANGED db, HoldOf(Closer)',
         \A s \in Sid : ~IsChild(s)' /\ ClosedOf(s) => ClosedOf(s)'
  PROVE  SoloInv'
<1>1. Closer \in Caller /\ Closer \notin AppCaller /\ Closer \notin ToolCaller
  BY Kinds
<1>2. \A c \in AppCaller : Free(c) /\ Free(c)'
  BY <1>1, Kinds DEF SoloInv, ClosingInv, Free, Alone
<1>3. RowOfCall(Closer)' /\ RoleOf(Closer)' /\ ClosingInv'
  BY <1>1, <1>2 DEF RowOfCall, RoleOf, ClosingInv
<1>4. \A i \in Index' : task'[i].sid \in db'
  BY RowsStay
<1>5. \A s \in Sid : ~IsChild(s)' /\ OneHand(s) => OneHand(s)'
  BY <1>2, HandOfCloser
<1> QED
  BY <1>1, <1>3, <1>4, <1>5, SoloStep

\* create_session and resume_session find nobody to write the session's rows.
LEMMA SoloOpens ==
  ASSUME IInv, SoloInv, CallsApart, CallsApart', NEW c \in AppCaller, NEW r \in Sid,
         StartCreate(c, r) \/ StartResume(c, r)
  PROVE  SoloInv'
<1>1. /\ task \in Seq(Task) /\ call \in [Caller -> Call] /\ c \in Caller
      /\ table \in [Sid -> Nat] /\ TurnsOf(r) \subseteq Nat \X Nat /\ {} \in SUBSET (Nat \ {0})
  BY Kinds, SeenType DEF IInv, Typed
<1>2. /\ Free(c) /\ AppOpen /\ Begin(c, r, "mount", {}) /\ db \subseteq db' /\ r \in db'
      /\ UNCHANGED <<flag, table, forward, task, sends>>
  BY DEF StartCreate, StartResume
<1>3. Alone(c) /\ call'[c].step = "mount" /\ call'[c].sid = r
  BY <1>1, <1>2, CallBegins DEF Steps
<1>4. Grows /\ Index' = Index /\ \A s : NoneNew(s)
  BY <1>1, <1>2, GrowsBy
<1>5. \A i \in Index' : task'[i].sid \in db'
  BY <1>2, <1>4, RowsStay
<1>6. RowOfCall(c)' /\ HoldOf(c)'
  BY <1>2, <1>3 DEF RowOfCall, HoldOf
<1>7. ASSUME ~IsChild(r)', HandOf(c, r) PROVE HandOf(c, r)'
  <2>1. forward[r] = table[r] /\ \A i \in Index : task[i].sid = r /\ Working(i) => table[r] = i
    BY <1>2, <1>7 DEF HandOf, Free
  <2>2. table[r] = 0
    <3>1. CASE StartCreate(c, r)
      BY <3>1 DEF StartCreate, IInv, TableInv, SoloInv, RowInv
    <3>2. CASE StartResume(c, r)
      BY <2>1, <3>2 DEF StartResume, NotForwarded
    <3> QED
      BY <3>1, <3>2
  <2>3. NobodyWrites(r)
    BY <2>1, <2>2 DEF NobodyWrites, Index
  <2>4. NobodyWrites(r)'
    BY <1>2, <1>4, <2>3 DEF NobodyWrites, Working
  <2> QED
    BY <1>2, <1>3, <2>1, <2>2, <2>4 DEF HandOf, NobodyWrites
<1>8. task' \in Seq(Task) /\ task' = task
  BY <1>1, <1>2
<1> QED
  BY <1>2, <1>3, <1>4, <1>5, <1>6, <1>7, <1>8, SoloUser DEF Handling

\* The new task is in the table, and the only one.
LEMMA SoloMount ==
  ASSUME IInv, IInv', SoloInv, CallsApart, CallsApart', NEW c \in Caller, Mount(c)
  PROVE  SoloInv'
<1>1. /\ task \in Seq(Task) /\ task' \in Seq(Task) /\ call \in [Caller -> Call]
      /\ table \in [Sid -> Nat] /\ Len(task) \in Nat
  BY DEF IInv, Typed
<1>2. PICK r, n, p : r = call[c].sid /\ n = Len(task) + 1 /\ p = call[c].parent
  OBVIOUS
<1>3. /\ call[c].step = "mount" /\ r \in Sid /\ r \in db
      /\ task' = Append(task, Spawned(r, p)) /\ table' = [table EXCEPT ![r] = n]
      /\ UNCHANGED <<db, forward>>
  BY <1>2 DEF Mount, IInv, SidInv, SidOf, SoloInv, RowInv, RowOfCall
<1>4. /\ Len(task') = n /\ task'[n] = Spawned(r, p)
      /\ \A i \in Index : task'[i] = task[i]
      /\ Index' = Index \cup {n} /\ n \notin Index /\ n \in Nat \ {0}
  BY <1>1, <1>2, <1>3, AppendProperties DEF Index
<1>5. Spawned(r, p).sid = r /\ Spawned(r, p).parent = p
  BY DEF Spawned
<1>6. Grows /\ \A s \in Sid \ {r} : NoneNew(s)
  BY <1>1, <1>2, <1>4, <1>5 DEF Grows, NoneNew, Working
<1>7. \A i \in Index' : task'[i].sid \in db'
  BY <1>3, <1>4, <1>5 DEF SoloInv, RowInv
<1>8. /\ Goto(c, IF c \in AppCaller THEN "register" ELSE "child", {n}) /\ {n} \in SUBSET (Nat \ {0})
  BY <1>2, <1>4 DEF Mount
<1>9. CASE c \in AppCaller
  <2>1. Alone(c) /\ call'[c].step = "register" /\ call'[c].sid = r /\ call'[c].holds = {n}
    BY <1>1, <1>2, <1>8, <1>9, CallMoves DEF Steps
  <2>2. RowOfCall(c)' /\ HoldOf(c)' /\ ~Free(c)
    BY <1>3, <2>1 DEF RowOfCall, HoldOf, Free
  <2>3. ASSUME ~IsChild(r)', HandOf(c, r) PROVE HandOf(c, r)'
    <3>1. NobodyWrites(r)
      BY <1>2, <1>3, <2>3 DEF HandOf
    <3>2. table'[r] = n
      BY <1>1, <1>3
    <3>3. \A i \in Index' : task'[i].sid = r /\ Working(i)' => i = n
      BY <1>4, <3>1 DEF NobodyWrites, Working
    <3> QED
      BY <2>1, <3>2, <3>3 DEF HandOf
  <2>4. \A s \in Sid \ {r} : table'[s] = table[s] /\ forward'[s] = forward[s] /\ NoneNew(s)
    BY <1>1, <1>3, <1>6
  <2> QED
    BY <1>1, <1>2, <1>3, <1>6, <1>7, <1>9, <2>1, <2>2, <2>3, <2>4, SoloUser DEF Handling
<1>10. CASE c \notin AppCaller
  <2>1. c \in ToolCaller /\ c \notin Users /\ c # Closer
    BY <1>3, <1>10, Kinds DEF SoloInv, RoleInv, RoleOf
  <2>2. Alone(c) /\ call'[c].step = "child" /\ call'[c].sid = r
    BY <1>1, <1>2, <1>8, <1>10, CallMoves DEF Steps
  <2>3. p # 0
    BY <1>2, <1>3, <2>1 DEF SoloInv, RoleInv, RoleOf
  <2>4. \E i \in Index' : task'[i].sid = r /\ task'[i].parent # 0
    BY <1>4, <1>5, <2>3
  <2>5. IsChild(r)' /\ IsChild(call[c].sid)'
    BY <1>2, <2>2, <2>4 DEF IsChild
  <2>6. RowOfCall(c)' /\ HoldOf(c)' /\ RoleOf(c)'
    BY <1>2, <1>10, <2>1, <2>2, <2>4 DEF RowOfCall, HoldOf, RoleOf, IsChild
  <2>7. ClosingInv'
    BY <2>1, <2>2, ClosingKept DEF SoloInv
  <2>8. ASSUME NEW s \in Sid, ~IsChild(s)', OneHand(s) PROVE OneHand(s)'
    <3>1. s # r
      BY <2>5, <2>8
    <3>2. table'[s] = table[s] /\ forward'[s] = forward[s] /\ NoneNew(s)
      BY <1>1, <1>3, <1>6, <3>1
    <3>3. \A d \in Users : call'[d] = call[d]
      BY <2>1, <2>2 DEF Alone, Users, Caller
    <3> QED
      BY <1>6, <2>8, <3>2, <3>3, HandKept
  <2> QED
    BY <1>1, <1>3, <1>6, <1>7, <2>2, <2>6, <2>7, <2>8, SoloStep
<1> QED
  BY <1>9, <1>10

\* The forwarder is registered, and the handle taken out to be ended.
LEMMA SoloRegister ==
  ASSUME IInv, SoloInv, CallsApart, CallsApart', NEW c \in Caller, Register(c)
  PROVE  SoloInv'
<1>1. /\ task \in Seq(Task) /\ call \in [Caller -> Call] /\ forward \in [Sid -> Nat]
      /\ call[c].step = "register" /\ Return(c) /\ UNCHANGED <<db, table, task>>
  BY DEF Register, IInv, Typed
<1>2. c \in AppCaller /\ ~Free(c)
  BY <1>1, Kinds DEF SoloInv, RoleInv, RoleOf, Free
<1>3. PICK r, i : r = call[c].sid /\ i \in call[c].holds /\ forward' = [forward EXCEPT ![r] = i]
  BY DEF Register
<1>4. Alone(c) /\ call'[c].step = "none"
  BY <1>1, CallMoves
<1>5. Grows /\ Index' = Index /\ \A s : NoneNew(s)
  BY <1>1, GrowsBy
<1>6. \A j \in Index' : task'[j].sid \in db'
  BY <1>1, <1>5, RowsStay
<1>7. RowOfCall(c)' /\ HoldOf(c)'
  BY <1>4 DEF RowOfCall, HoldOf
<1>8. ASSUME r \in Sid, HandOf(c, r) PROVE HandOf(c, r)'
  <2>1. forward'[r] = table'[r] /\ table'[r] = table[r]
    BY <1>1, <1>3, <1>8 DEF HandOf
  <2>2. \A j \in Index : task[j].sid = r /\ Working(j) => table[r] = j
    BY <1>1, <1>8 DEF HandOf
  <2>3. \A j \in Index' : task'[j].sid = r /\ Working(j)' => table'[r] = j
    BY <1>1, <1>5, <2>1, <2>2 DEF Working
  <2> QED
    BY <1>4, <2>1, <2>3 DEF HandOf
<1>9. \A s \in Sid \ {r} : table'[s] = table[s] /\ forward'[s] = forward[s]
  BY <1>1, <1>3
<1>10. task' \in Seq(Task) /\ db \subseteq db'
  BY <1>1
<1>11. Handling(c, r)
  BY <1>1, <1>3 DEF Handling
<1> QED
  BY <1>2, <1>3, <1>4, <1>5, <1>6, <1>7, <1>8, <1>9, <1>10, <1>11, SoloUser

LEMMA SoloDestroy ==
  ASSUME IInv, IInv', SoloInv, CallsApart, CallsApart', NEW c \in AppCaller, NEW r \in Sid, StartDestroy(c, r)
  PROVE  SoloInv'
<1>1. /\ task \in Seq(Task) /\ task' \in Seq(Task) /\ call \in [Caller -> Call]
      /\ table \in [Sid -> Nat] /\ c \in Caller /\ TurnsOf(r) \subseteq Nat \X Nat
  BY Kinds, SeenType DEF IInv, Typed
<1>2. PICK i : i = table[r]
  OBVIOUS
<1>3. /\ Free(c) /\ AppOpen /\ i # 0 /\ table' = [table EXCEPT ![r] = 0]
      /\ Cancel(Itself(i)) /\ Begin(c, r, "end", {i}) /\ UNCHANGED <<db, forward>>
      /\ {i} \in SUBSET (Nat \ {0})
  BY <1>1, <1>2 DEF StartDestroy, Removed
<1>4. Alone(c) /\ call'[c].step = "end" /\ call'[c].sid = r /\ call'[c].holds = {i}
  BY <1>1, <1>3, CallBegins DEF Steps
<1>5. Grows /\ Index' = Index /\ \A s : NoneNew(s)
  BY <1>1, <1>3, GrowsBy
<1>6. \A j \in Index' : task'[j].sid \in db'
  BY <1>3, <1>5, RowsStay
<1>7. RowOfCall(c)' /\ HoldOf(c)'
  BY <1>4 DEF RowOfCall, HoldOf
<1>8. ASSUME HandOf(c, r) PROVE HandOf(c, r)'
  <2>1. \A j \in Index : task[j].sid = r /\ Working(j) => j = i
    BY <1>2, <1>3, <1>8 DEF HandOf, Free
  <2>2. \A j \in Index' : task'[j].sid = r /\ Working(j)' => j = i
    BY <1>5, <2>1 DEF Grows
  <2>3. table'[r] = 0
    BY <1>1, <1>3
  <2> QED
    BY <1>4, <2>2, <2>3 DEF HandOf
<1>9. \A s \in Sid \ {r} : table'[s] = table[s] /\ forward'[s] = forward[s]
  BY <1>1, <1>3
<1> QED
  BY <1>1, <1>3, <1>4, <1>5, <1>6, <1>7, <1>8, <1>9, SoloUser DEF Handling

\* A call of App ends the handle it has, and then takes the forwarder away.
LEMMA SoloEnds ==
  ASSUME IInv, IInv', SoloInv, CallsApart, CallsApart', NEW c \in AppCaller,
         \/ \E i \in Index : EndOne(c, i)
         \/ EndAll(c) \/ Unforward(c)
  PROVE  SoloInv'
<1>1. /\ task \in Seq(Task) /\ task' \in Seq(Task) /\ call \in [Caller -> Call]
      /\ forward \in [Sid -> Nat] /\ c \in Caller /\ c \notin ToolCaller /\ c # Closer
      /\ {} \in SUBSET (Nat \ {0})
  BY Kinds DEF IInv, Typed
<1>2. PICK r : r = call[c].sid
  OBVIOUS
<1>3. CASE \E i \in Index : EndOne(c, i)
  <2>1. PICK i \in Index : EndOne(c, i)
    BY <1>3
  <2>2. /\ Grows /\ Index' = Index /\ ~Working(i)' /\ Alone(c)
        /\ call[c].step = "end" /\ call'[c].step = "end" /\ call'[c].sid = r
        /\ call'[c].holds = call[c].holds \ {i} /\ UNCHANGED <<db, table, forward>>
    BY <1>1, <1>2, <2>1, EndGrows
  <2>3. ~Free(c) /\ RowOfCall(c)' /\ \A s : NoneNew(s)
    BY <2>2 DEF Free, RowOfCall, NoneNew
  <2>4. HoldOf(c)'
    BY <1>1, <2>2 DEF SoloInv, HoldInv, HoldOf, IInv, EndInv, Grows
  <2>5. ASSUME HandOf(c, r) PROVE HandOf(c, r)'
    <3>1. \A j \in Index : task[j].sid = r /\ Working(j) => table[r] = j \/ j \in call[c].holds
      BY <2>5 DEF HandOf
    <3>2. \A j \in Index' : task'[j].sid = r /\ Working(j)' =>
            table'[r] = j \/ j \in call'[c].holds
      BY <2>2, <3>1 DEF Grows
    <3>3. table'[r] = 0
      BY <1>2, <2>2, <2>5 DEF HandOf
    <3> QED
      BY <2>2, <3>2, <3>3 DEF HandOf
  <2>6. \A j \in Index' : task'[j].sid \in db'
    BY <2>2, RowsStay
  <2> QED
    BY <1>1, <1>2, <2>2, <2>3, <2>4, <2>5, <2>6, SoloUser DEF Handling
<1>4. ASSUME UNCHANGED <<db, table, task>>, Alone(c), call[c].step \in {"end", "unforward"},
             call'[c].step = "none" \/ (call'[c].step = "unforward" /\ call'[c].sid = r),
             \A s \in Sid \ {r} : forward'[s] = forward[s],
             r \in Sid /\ HandOf(c, r) => HandOf(c, r)'
      PROVE  SoloInv'
  <2>1. Grows /\ Index' = Index /\ \A s : NoneNew(s)
    BY <1>1, <1>4, GrowsBy
  <2>2. ~Free(c) /\ RowOfCall(c)' /\ HoldOf(c)'
    BY <1>4 DEF Free, RowOfCall, HoldOf
  <2>3. \A j \in Index' : task'[j].sid \in db'
    BY <1>4, <2>1, RowsStay
  <2> QED
    BY <1>1, <1>2, <1>4, <2>1, <2>2, <2>3, SoloUser DEF Handling
<1>5. CASE EndAll(c)
  <2>1. /\ call[c].step = "end" /\ call[c].holds = {} /\ Goto(c, "unforward", {})
        /\ UNCHANGED <<db, table, forward, task>>
    BY <1>1, <1>5 DEF EndAll
  <2>2. Alone(c) /\ call'[c].step = "unforward" /\ call'[c].sid = r
    BY <1>1, <1>2, <2>1, CallMoves DEF Steps
  <2>3. ASSUME HandOf(c, r) PROVE HandOf(c, r)'
    <3>1. \A j \in Index : task[j].sid = r /\ Working(j) => table[r] = j
      BY <2>1, <2>3 DEF HandOf
    <3>2. \A j \in Index' : task'[j].sid = r /\ Working(j)' => table'[r] = j
      BY <2>1, <3>1 DEF Index, Working
    <3>3. table'[r] = 0
      BY <1>2, <2>1, <2>3 DEF HandOf
    <3> QED
      BY <2>2, <3>2, <3>3 DEF HandOf
  <2> QED
    BY <1>4, <2>1, <2>2, <2>3
<1>6. CASE Unforward(c)
  <2>1. /\ call[c].step = "unforward" /\ Return(c) /\ UNCHANGED <<db, table, task>>
        /\ forward' = [s \in Sid |-> IF s \in {r} THEN 0 ELSE forward[s]]
    BY <1>1, <1>2, <1>6 DEF Unforward, Forwarders
  <2>2. Alone(c) /\ call'[c].step = "none"
    BY <1>1, <2>1, CallMoves
  <2>3. ASSUME r \in Sid, HandOf(c, r) PROVE HandOf(c, r)'
    <3>1. \A j \in Index : task[j].sid = r /\ Working(j) => table[r] = j
      BY <2>1, <2>3 DEF HandOf
    <3>2. \A j \in Index' : task'[j].sid = r /\ Working(j)' => table'[r] = j
      BY <2>1, <3>1 DEF Index, Working
    <3>3. table'[r] = 0 /\ forward'[r] = 0
      BY <1>2, <2>1, <2>3 DEF HandOf
    <3> QED
      BY <2>2, <3>2, <3>3 DEF HandOf
  <2> QED
    BY <1>4, <2>1, <2>2, <2>3
<1> QED
  BY <1>3, <1>5, <1>6

\* The closer takes every handle out of the table, ends them, and the forwarders last.
LEMMA SoloCloses ==
  ASSUME IInv, IInv', SoloInv,
         \/ DrainTable \/ \E i \in Index : EndOne(Closer, i)
         \/ EndAll(Closer) \/ Unforward(Closer)
  PROVE  SoloInv'
<1>1. /\ task \in Seq(Task) /\ task' \in Seq(Task) /\ call \in [Caller -> Call]
      /\ forward \in [Sid -> Nat] /\ Closer \in Caller /\ Closer \notin ToolCaller
      /\ table \in [Sid -> Nat] /\ {} \in SUBSET (Nat \ {0})
  BY Kinds DEF IInv, Typed
<1>2. CASE \E i \in Index : EndOne(Closer, i)
  <2>1. PICK i \in Index : EndOne(Closer, i)
    BY <1>2
  <2>2. /\ Grows /\ Index' = Index /\ ~Working(i)' /\ Alone(Closer)
        /\ call[Closer].step = "end" /\ call'[Closer].step = "end"
        /\ call'[Closer].holds = call[Closer].holds \ {i} /\ UNCHANGED <<db, table, forward>>
    BY <1>1, <2>1, EndGrows
  <2>3. HoldOf(Closer)'
    BY <1>1, <2>2 DEF SoloInv, HoldInv, HoldOf, IInv, EndInv, Grows
  <2>4. ASSUME NEW s \in Sid, ClosedOf(s) PROVE ClosedOf(s)'
    <3>1. \A j \in Index : task[j].sid = s /\ Working(j) =>
            table[s] = j \/ j \in call[Closer].holds
      BY <2>4 DEF ClosedOf
    <3>2. \A j \in Index' : task'[j].sid = s /\ Working(j)' =>
            table'[s] = j \/ j \in call'[Closer].holds
      BY <2>2, <3>1 DEF Grows
    <3>3. table'[s] = 0
      BY <2>2, <2>4 DEF ClosedOf
    <3> QED
      BY <2>2, <3>2, <3>3 DEF ClosedOf
  <2> QED
    BY <1>1, <2>2, <2>3, <2>4, SoloClosing
<1>3. CASE EndAll(Closer)
  <2>1. /\ call[Closer].step = "end" /\ call[Closer].holds = {}
        /\ Goto(Closer, "unforward", {}) /\ UNCHANGED <<db, table, forward, task>>
    BY <1>1, <1>3 DEF EndAll
  <2>2. Alone(Closer) /\ call'[Closer].step = "unforward"
    BY <1>1, <2>1, CallMoves DEF Steps
  <2>3. Grows /\ Index' = Index /\ HoldOf(Closer)'
    BY <1>1, <2>1, <2>2, GrowsBy DEF HoldOf
  <2>4. ASSUME NEW s \in Sid, ClosedOf(s) PROVE ClosedOf(s)'
    <3>1. table[s] = 0 /\ \A j \in Index : task[j].sid = s /\ Working(j) => table[s] = j
      BY <2>1, <2>4 DEF ClosedOf
    <3>2. \A j \in Index' : task'[j].sid = s /\ Working(j)' => table'[s] = j
      BY <2>1, <3>1 DEF Index, Working
    <3> QED
      BY <2>1, <2>2, <3>1, <3>2 DEF ClosedOf
  <2> QED
    BY <1>1, <2>1, <2>2, <2>3, <2>4, SoloClosing
<1>4. CASE Unforward(Closer)
  <2>1. /\ call[Closer].step = "unforward" /\ Goto(Closer, "closed", {})
        /\ UNCHANGED <<db, table, task>> /\ \A s \in Sid : forward'[s] = 0
    BY <1>1, <1>4 DEF Unforward, Forwarders
  <2>2. Alone(Closer) /\ call'[Closer].step = "closed"
    BY <1>1, <2>1, CallMoves DEF Steps
  <2>3. Grows /\ Index' = Index /\ HoldOf(Closer)'
    BY <1>1, <2>1, <2>2, GrowsBy DEF HoldOf
  <2>4. ASSUME NEW s \in Sid, ClosedOf(s) PROVE ClosedOf(s)'
    <3>1. table[s] = 0 /\ \A j \in Index : task[j].sid = s /\ Working(j) => table[s] = j
      BY <2>1, <2>4 DEF ClosedOf
    <3>2. \A j \in Index' : task'[j].sid = s /\ Working(j)' => table'[s] = j
      BY <2>1, <3>1 DEF Index, Working
    <3> QED
      BY <2>1, <2>2, <3>1, <3>2 DEF ClosedOf
  <2> QED
    BY <1>1, <2>1, <2>2, <2>3, <2>4, SoloClosing
<1>5. CASE DrainTable
  <2> DEFINE all == UNION {Found(s) : s \in Sid}
  <2>1. /\ call[Closer].step = "drain" /\ Goto(Closer, "end", all)
        /\ UNCHANGED <<db, forward, task>> /\ \A s \in Sid : table'[s] = 0
    BY <1>5 DEF DrainTable
  <2>2. all \in SUBSET (Nat \ {0})
    BY FoundType DEF IInv
  <2>3. /\ \A s \in Sid : table[s] # 0 => table[s] \in all
        /\ \A i \in all : \E s \in Sid : i = table[s] /\ table[s] # 0
    BY DEF Found
  <2> HIDE DEF all
  <2>4. Alone(Closer) /\ call'[Closer].step = "end" /\ call'[Closer].holds = all
    BY <1>1, <2>1, <2>2, CallMoves DEF Steps
  <2>5. Grows /\ Index' = Index
    BY <1>1, <2>1, GrowsBy
  <2>6. HoldOf(Closer)'
    <3>1. \A i \in all : i = table[task[i].sid]
      BY <2>3 DEF IInv, TableInv
    <3> QED
      BY <2>1, <2>4, <3>1 DEF HoldOf
  <2>7. ASSUME NEW s \in Sid, ClosedOf(s) PROVE ClosedOf(s)'
    <3>1. \A j \in Index : task[j].sid = s /\ Working(j) => table[s] = j
      BY <2>1, <2>7 DEF ClosedOf
    <3>2. \A j \in Index' : task'[j].sid = s /\ Working(j)' => j \in all
      BY <2>1, <2>3, <2>5, <3>1 DEF Index, Working
    <3> QED
      BY <2>1, <2>4, <3>2 DEF ClosedOf
  <2> QED
    BY <1>1, <2>1, <2>4, <2>5, <2>6, <2>7, SoloClosing
<1> QED
  BY <1>2, <1>3, <1>4, <1>5

(***************************************************************************)
(* One writer: the invariant is inductive                                  *)
(***************************************************************************)
LEMMA SoloStart == Init => SoloInv
<1> SUFFICES ASSUME Init PROVE SoloInv
  OBVIOUS
<1>1. /\ Index = {} /\ (\A c \in Caller : call[c] = NoCall) /\ Closer \in Caller
      /\ \A s \in Sid : forward[s] = 0 /\ table[s] = 0
  BY Kinds DEF Init, Index
<1>2. NoCall.step = "none"
  BY DEF NoCall
<1>3. RowInv /\ RoleInv /\ ClosingInv /\ HoldInv
  BY <1>1, <1>2 DEF RowInv, RowOfCall, RoleInv, RoleOf, ClosingInv, HoldInv, HoldOf
<1>4. \A c \in Users : c \in Caller
  BY Kinds DEF Users
<1>5. HandInv
  BY <1>1, <1>2, <1>4, Kinds
     DEF HandInv, OneHand, MountOf, RegisterOf, EndOf, ForwardOf, WriterOf, Busy
<1> QED
  BY <1>3, <1>5 DEF SoloInv

LEMMA SoloNext ==
  ASSUME CallsApart, CallsApart', IInv, IInv', SoloInv, [Next]_vars
  PROVE  SoloInv'
<1>1. CASE UNCHANGED vars
  <2>1. UNCHANGED <<flag, db, table, forward, task, call, sends>>
    BY <1>1 DEF vars
  <2>2. task \in Seq(Task) /\ task' \in Seq(Task)
    BY DEF IInv, Typed
  <2>3. Grows /\ Index' = Index
    BY <2>1, <2>2, GrowsBy
  <2> QED
    BY <2>1, <2>2, <2>3, SoloTasks
<1>2. ASSUME NEW c \in AppCaller, NEW s \in Sid,
             \/ StartCreate(c, s) \/ StartResume(c, s) \/ StartDestroy(c, s)
             \/ StopAtOnce(c, s) \/ StartStop(c, s)
      PROVE  SoloInv'
  <2>1. CASE StartCreate(c, s) \/ StartResume(c, s)
    BY <2>1, SoloOpens
  <2>2. CASE StartDestroy(c, s)
    BY <2>2, SoloDestroy
  <2>3. CASE StopAtOnce(c, s) \/ StartStop(c, s)
    BY <2>3, SoloStops
  <2> QED
    BY <1>2, <2>1, <2>2, <2>3
<1>3. CASE \/ \E s \in Sid : Send(s)
           \/ \E i \in Index : TaskStep(i)
  BY <1>3, SoloRuns
<1>4. CASE \E c \in ToolCaller, p \in Index, s \in Sid : StartChild(c, p, s)
  BY <1>4, SoloTools
<1>5. CASE StartShutdown
  BY <1>5, SoloShutdown
<1>6. ASSUME NEW c \in Caller, CallStep(c) PROVE SoloInv'
  <2>1. CASE Mount(c)
    BY <2>1, SoloMount
  <2>2. CASE Register(c)
    BY <2>2, SoloRegister
  <2>3. CASE StopSignal(c) \/ StopWait(c) \/ StopTimeout(c)
    BY <2>3, SoloStops
  <2>4. CASE DrainTable
    BY <2>4, SoloCloses
  <2>5. CASE (\E i \in Index : EndOne(c, i)) \/ EndAll(c) \/ Unforward(c)
    <3>1. CASE c \in ToolCaller
      <4>1. ~Unforward(c)
        BY <3>1 DEF Unforward, SoloInv, RoleInv, RoleOf
      <4> QED
        BY <2>5, <3>1, <4>1, SoloTools
    <3>2. CASE c \in AppCaller
      BY <2>5, <3>2, SoloEnds
    <3>3. CASE c = Closer
      BY <2>5, <3>3, SoloCloses
    <3> QED
      BY <3>1, <3>2, <3>3, Kinds
  <2>6. CASE ChildDone(c) \/ ChildGone(c) \/ ToolDropped(c)
    <3>1. c \in ToolCaller
      BY <2>6, Kinds DEF ChildDone, ChildGone, ToolDropped, SoloInv, RoleInv, RoleOf
    <3> QED
      BY <2>6, <3>1, SoloTools
  <2> QED
    BY <1>6, <2>1, <2>2, <2>3, <2>4, <2>5, <2>6 DEF CallStep
<1> QED
  BY <1>1, <1>2, <1>3, <1>4, <1>5, <1>6 DEF Next, Step

\* While no two calls had a session in hand at once, the tables tell who may write it.
ApartInv == apart => CallsApart /\ SoloInv

LEMMA ApartAlways == Spec => []ApartInv
<1>1. Init => ApartInv
  <2>1. Init => CallsApart
    BY Kinds DEF Init, CallsApart, Handling, NoCall
  <2> QED
    BY <2>1, SoloStart DEF ApartInv
<1>2. IInv /\ IInv' /\ ApartInv /\ [Next]_vars => ApartInv'
  <2> SUFFICES ASSUME IInv, IInv', ApartInv, [Next]_vars, apart' PROVE CallsApart' /\ SoloInv'
    BY DEF ApartInv
  <2>1. CASE UNCHANGED vars
    <3>1. apart /\ call' = call
      BY <2>1 DEF vars
    <3>2. CallsApart /\ CallsApart' /\ SoloInv
      BY <3>1 DEF ApartInv, CallsApart, Handling
    <3> QED
      BY <2>1, <3>2, SoloNext
  <2>2. CASE Next
    <3>1. CallsApart /\ CallsApart' /\ SoloInv
      BY <2>2 DEF Next, ApartInv
    <3> QED
      BY <2>2, <3>1, SoloNext
  <2> QED
    BY <2>1, <2>2
<1> QED
  BY <1>1, <1>2, InvAlways, PTL DEF Spec

\* A session that App has opened has one task to write its rows, a task told to abort
\* apart, for any number of users: between destroying it and opening it again, and
\* between a resume that found no forwarder and the mount, too.  When two calls of App
\* have had one session in hand at once it is false.
THEOREM AppHasOneWriter == Spec => []WriterWhileApart
<1>1. IInv /\ ApartInv => WriterWhileApart
  <2> SUFFICES ASSUME IInv, CallsApart, SoloInv, NEW i \in Index, NEW j \in Index, i # j,
                      Working(i), Working(j), ~IsChild(task[i].sid), task[i].sid = task[j].sid
               PROVE  FALSE
    BY DEF SoleWriter, WriterWhileApart, ApartInv
  <2>1. PICK s : s = task[i].sid
    OBVIOUS
  <2>2. s \in Sid /\ i # 0 /\ j # 0
    <3>1. task[i] \in Task
      BY DEF IInv, Typed, Index
    <3> QED
      BY <2>1, <3>1 DEF Task, Index
  <2>3. OneHand(s)
    BY <2>1, <2>2 DEF SoloInv, HandInv
  <2>4. ASSUME NEW k \in {i, j}, table[s] # k
        PROVE  \E c \in Users : Busy(c, s) /\ call[c].step = "end" /\ k \in call[c].holds
    BY <2>1, <2>3, <2>4 DEF OneHand, WriterOf
  <2>5. \A c \in Users : Busy(c, s) /\ call[c].step = "end" => table[s] = 0
    BY <2>3 DEF OneHand, EndOf
  <2>6. table[s] # i /\ table[s] # j
    BY <2>2, <2>4, <2>5
  <2>7. PICK c \in Users : Busy(c, s) /\ call[c].step = "end" /\ i \in call[c].holds
    BY <2>4, <2>6
  <2>8. PICK d \in Users : Busy(d, s) /\ call[d].step = "end" /\ j \in call[d].holds
    BY <2>4, <2>6
  <2>9. c = d
    BY <2>2, <2>7, <2>8 DEF Users, Busy, CallsApart, Handling, SoloInv, ClosingInv, Free
  <2> QED
    BY <2>7, <2>8, <2>9, Kinds DEF Users, SoloInv, HoldInv, HoldOf, Caller
<1> QED
  BY <1>1, InvAlways, ApartAlways, PTL

\* When no call of App is under way, and none has got in another's way, a session it has a forwarder for is mounted, with
\* the task the forwarder listens to: resume_session may return at once.
THEOREM ForwardersAreMounted == Spec => []ForwardedIsMounted
<1>1. ApartInv => ForwardedIsMounted
  <2> SUFFICES ASSUME SoloInv, AppIsStill, NEW s \in Sid, ~IsChild(s)
               PROVE  forward[s] \in {0, table[s]}
    BY DEF ForwardedIsMounted, ApartInv
  <2>1. \A c \in Users : call[c].step \notin {"register", "end", "unforward"}
    BY DEF AppIsStill, Users
  <2> QED
    BY <2>1 DEF SoloInv, HandInv, OneHand, ForwardOf
<1> QED
  BY <1>1, ApartAlways, PTL

(***************************************************************************)
(* Theorems                                                                *)
(***************************************************************************)
\* Every state keeps its type: the tables hold numbers of tasks, a call that is under
\* way names its handles, whatever calls interleave.
THEOREM EngineTypeCorrect == Spec => []TypeOK
<1>1. IInv => Typed
  BY DEF IInv
<1> DEFINE Noted == apart \in BOOLEAN
<1>2. Init => Noted
  BY DEF Init
<1>3. Noted /\ [Next]_vars => Noted'
  BY DEF Next, vars
<1>4. Typed /\ Noted => TypeOK
  BY DEF TypeOK
<1> HIDE DEF Noted
<1> QED
  BY <1>1, <1>2, <1>3, <1>4, InvAlways, PTL DEF Spec

\* destroy_session never cancels a session that can still be found in the table.
THEOREM SessionsAreIsolated == Spec => []Isolation
<1>1. IInv => Isolation
  BY DEF IInv
<1> QED
  BY <1>1, InvAlways, PTL

\* Once shutdown has begun, every task that lives has its token cancelled, those
\* replaced in the table and those mounted later included.
THEOREM ShutdownLeavesNobody == Spec => []ShutdownReachesAll
<1>1. IInv => ShutdownReachesAll
  BY DEF IInv
<1> QED
  BY <1>1, InvAlways, PTL

\* When stop_session has said the session is quiet, the turn it found there is over,
\* for any number of stops, destructions and turns that ran meanwhile.
THEOREM StopIsABarrier == Spec => []StopBarrier
<1>1. IInv => StopBarrier
  BY DEF IInv, StopInv, StopBarrier, Caller
<1> QED
  BY <1>1, InvAlways, PTL

\* The owners of a handle are the same one.
LEMMA OneOwner ==
  ASSUME TableInv, EndInv, NEW i \in Index, NEW o \in Owners(i), NEW q \in Owners(i)
  PROVE  o = q
<1> DEFINE T == {s \in Sid : table[s] = i}
           C == {c \in Caller : call[c].step = "end" /\ i \in call[c].holds}
<1>1. i # 0
  BY DEF Index
<1>2. ASSUME NEW r \in T, NEW s \in T PROVE r = s
  <2>1. task[i].sid = r /\ task[i].sid = s
    BY <1>1 DEF TableInv
  <2> QED
    BY <2>1
<1>3. ASSUME NEW c \in C PROVE T = {} /\ \A d \in C : d = c
  BY DEF EndInv
<1>4. Owners(i) = T \cup C
  BY DEF Owners
<1> HIDE DEF T, C
<1> QED
  BY <1>2, <1>3, <1>4

\* A handle is in the table or with one call that ends it, never in two places; the
\* plugin instances of its session are disposed once, after it has left the table.
THEOREM HandlesAreOwnedOnce == Spec => []HandleOwnedOnce
<1>1. IInv => HandleOwnedOnce
  <2> SUFFICES ASSUME IInv, NEW i \in Index
               PROVE  /\ Cardinality(Owners(i)) <= 1 /\ task[i].disposed <= 1
                      /\ task[i].disposed = 1 => Owners(i) = {}
    BY DEF HandleOwnedOnce
  <2>1. i # 0 /\ TableInv /\ EndInv /\ DisposedInv
    BY DEF IInv, Index
  <2>2. Cardinality(Owners(i)) <= 1
    <3>1. CASE Owners(i) = {}
      BY <3>1, FS_EmptySet
    <3>2. CASE Owners(i) # {}
      <4>1. PICK o : o \in Owners(i)
        BY <3>2
      <4>2. Owners(i) = {o}
        BY <2>1, <4>1, OneOwner
      <4> QED
        BY <4>2, FS_Singleton
    <3> QED
      BY <3>1, <3>2
  <2>3. ASSUME task[i].disposed = 1 PROVE Owners(i) = {}
    BY <2>1, <2>3 DEF Owners, TableInv, EndInv
  <2> QED
    BY <2>1, <2>2, <2>3 DEF DisposedInv
<1> QED
  BY <1>1, InvAlways, PTL
=============================================================================
