----------------------------- MODULE CommandRun -----------------------------
(***************************************************************************)
(* One call of the terminal tool (terminal/bash.rs, execute.rs): the       *)
(* process it starts, the task that reads the pipe, and the wait that a    *)
(* cancellation or the time limit may end.  The process may leave others   *)
(* behind that keep the pipe open; they are its environment, and nothing   *)
(* says that they ever end.                                                *)
(***************************************************************************)
EXTENDS Naturals

CONSTANTS
  Limit, MaxLimit,  \* terminal_default_timeout_secs, terminal_max_timeout_secs
  Requested,        \* time limits a call may ask for; 0 stands for none
  MaxKin,           \* bound: processes the command leaves behind
  MaxText           \* bound: pieces of output

VARIABLES
  call,   \* [phase, limit, clock, cancel, answer, shown]
  child,  \* [state, kin, written]
  reader  \* [open |-> the task still reads, got |-> pieces it holds]

vars == <<call, child, reader>>

Answer == {"none", "refused", "failed", "cancelled", "timed_out", "exit"}
TypeOK ==
  /\ call \in [phase : {"new", "waiting", "draining", "over"}, limit : 0..MaxLimit,
               clock : 0..MaxLimit, cancel : BOOLEAN, answer : Answer, shown : 0..MaxText]
  /\ child \in [state : {"none", "running", "exited", "killed"}, kin : 0..MaxKin,
                written : 0..MaxText]
  /\ reader \in [open : BOOLEAN, got : 0..MaxText]
Init ==
  /\ call = [phase |-> "new", limit |-> 0, clock |-> 0, cancel |-> FALSE, answer |-> "none",
             shown |-> 0]
  /\ child = [state |-> "none", kin |-> 0, written |-> 0]
  /\ reader = [open |-> FALSE, got |-> 0]

Least(a, b) == IF a < b THEN a ELSE b
TimeLimit(requested) == Least(IF requested = 0 THEN Limit ELSE requested, MaxLimit)
Answered(answer, shown) == [call EXCEPT !.phase = "over", !.answer = answer, !.shown = shown]

\* bash_impl: an empty command, a bad directory or a forbidden deletion ends the call here.
Refuse == call.phase = "new" /\ call' = Answered("refused", 0) /\ UNCHANGED <<child, reader>>
\* execute_command spawns the shell and the task that reads its pipe; or fails to.
Spawn(requested) ==
  /\ call.phase = "new"
  /\ call' = [call EXCEPT !.phase = "waiting", !.limit = TimeLimit(requested)]
  /\ child' = [child EXCEPT !.state = "running"] /\ reader' = [reader EXCEPT !.open = TRUE]
SpawnFails == call.phase = "new" /\ call' = Answered("failed", 0) /\ UNCHANGED <<child, reader>>

(***************************************************************************)
(* The processes                                                           *)
(***************************************************************************)
Holders == child.kin + (IF child.state = "running" THEN 1 ELSE 0)
Write ==
  /\ Holders > 0 /\ child.written < MaxText
  /\ child' = [child EXCEPT !.written = @ + 1] /\ UNCHANGED <<call, reader>>
Fork ==
  /\ child.state = "running" /\ child.kin < MaxKin
  /\ child' = [child EXCEPT !.kin = @ + 1] /\ UNCHANGED <<call, reader>>
Exit ==
  /\ child.state = "running"
  /\ child' = [child EXCEPT !.state = "exited"] /\ UNCHANGED <<call, reader>>
KinEnds ==
  /\ child.kin > 0 /\ child' = [child EXCEPT !.kin = @ - 1] /\ UNCHANGED <<call, reader>>

\* read_to_end returns at the end of the pipe, when nobody holds its other end.
Read ==
  /\ reader.open /\ reader.got < child.written
  /\ reader' = [reader EXCEPT !.got = @ + 1] /\ UNCHANGED <<call, child>>
EndOfPipe ==
  /\ reader.open /\ reader.got = child.written /\ Holders = 0
  /\ reader' = [reader EXCEPT !.open = FALSE] /\ UNCHANGED <<call, child>>

(***************************************************************************)
(* The wait                                                                *)
(***************************************************************************)
Tick ==
  /\ call.phase \in {"waiting", "draining"} /\ call.clock < call.limit
  /\ call' = [call EXCEPT !.clock = @ + 1] /\ UNCHANGED <<child, reader>>
Cancel ==
  /\ ~call.cancel /\ call.phase # "over"
  /\ call' = [call EXCEPT !.cancel = TRUE] /\ UNCHANGED <<child, reader>>
\* kill_process: SIGTERM for the group, which its members may ignore, SIGKILL for the child.
Killed(kin) == [child EXCEPT !.state = "killed", !.kin = kin]
\* The select is biased: a cancellation is seen first, then the end of the process, then
\* the time limit.
Cancelled ==
  /\ call.phase = "waiting" /\ call.cancel
  /\ call' = Answered("cancelled", 0)
  /\ \E kin \in 0..child.kin : child' = Killed(kin)
  /\ UNCHANGED reader
WaitEnds ==
  /\ call.phase = "waiting" /\ ~call.cancel /\ child.state = "exited"
  /\ call' = [call EXCEPT !.phase = "draining"] /\ UNCHANGED <<child, reader>>
WaitFails ==
  /\ call.phase = "waiting" /\ ~call.cancel /\ child.state = "exited"
  /\ call' = Answered("failed", 0) /\ UNCHANGED <<child, reader>>
TimedOut ==
  /\ call.phase = "waiting" /\ ~call.cancel /\ child.state = "running" /\ call.clock = call.limit
  /\ call' = Answered("timed_out", 0)
  /\ \E kin \in 0..child.kin : child' = Killed(kin)
  /\ UNCHANGED reader
\* Mutant: what has been read till the exit is the result.
DrainedAtOnce ==
  /\ call.phase = "draining"
  /\ call' = Answered("exit", reader.got) /\ UNCHANGED <<child, reader>>
\* The exit code is known, the output is awaited without a limit.
Drained ==
  /\ call.phase = "draining" /\ ~reader.open
  /\ call' = Answered("exit", reader.got) /\ UNCHANGED <<child, reader>>

Tool == Cancelled \/ WaitEnds \/ TimedOut \/ Drained
Next ==
  \/ Refuse \/ SpawnFails \/ \E r \in Requested : Spawn(r)
  \/ Write \/ Fork \/ Exit \/ KinEnds \/ Read \/ EndOfPipe
  \/ Tick \/ Cancel \/ WaitFails \/ Tool
Spec == Init /\ [][Next]_vars

(***************************************************************************)
(* Properties                                                              *)
(***************************************************************************)
\* An exit code comes with everything that was written to the pipe, by the command and by
\* whatever it left behind, and a kill is only told of a command that had not ended
\* (execute.rs execute_command).
OutputIsWhole ==
  call.answer = "exit" => child.state = "exited" /\ call.shown = child.written
\* The time limit of the configuration binds whatever a call asks for, and a command that
\* is told to have run into it was killed after that time and not before.
LimitsBind ==
  /\ call.limit <= MaxLimit
  /\ call.answer = "timed_out" => child.state = "killed" /\ call.clock = call.limit
=============================================================================
