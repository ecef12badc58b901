------------------------------ MODULE Subagent ------------------------------
(***************************************************************************)
(* One call of the subagent tool and the child session it lives on         *)
(* (crates/fuyao-tools/src/subagent).  The child runs its turn beside the  *)
(* call; its events go through a channel of their own to the call, which   *)
(* passes them on to the front end between a Started and an Ended event.   *)
(* EngineSessions models the engine below; here the child is only what its *)
(* channel shows of it.                                                    *)
(***************************************************************************)
EXTENDS Naturals, Sequences, SequencesExt

CONSTANT MaxEvents  \* bound: events of the child's turn

VARIABLES
  errand,  \* the call: its state, the answer it returns
  child,   \* the child session: [table |-> mounted or not, task |-> what its task does]
  pipe,    \* events of the child not yet received, and whether the child can still send
  said,    \* every event the child sent
  shown    \* what the front end was told

vars == <<errand, child, pipe, said, shown>>

\* What a turn may send: anything in its course, and one of these at its end.  Only a reply
\* without tool calls has the finish reason "stop".
Ends == {"stop", "interrupted", "failed"}
Event == {"chunk"} \union Ends
Answer == {"none", "refused", "final", "empty", "cancelled"}

TypeOK ==
  /\ errand \in [state : {"called", "created", "waiting", "leaving", "over", "dropped"},
                 answer : Answer, cancelled : BOOLEAN]
  /\ child \in [mounted : BOOLEAN, task : {"none", "idle", "turn", "gone"}]
  /\ pipe \in Seq(Event) /\ said \in Seq(Event)
  /\ shown \in Seq(Event \union {"Started", "Ended"})
Init ==
  /\ errand = [state |-> "called", answer |-> "none", cancelled |-> FALSE]
  /\ child = [mounted |-> FALSE, task |-> "none"]
  /\ pipe = <<>> /\ said = <<>> /\ shown = <<>>

(***************************************************************************)
(* The child session                                                       *)
(***************************************************************************)
Sends(event) == said' = Append(said, event) /\ pipe' = (IF errand.state \in {"over", "dropped"} THEN pipe
                                                         ELSE Append(pipe, event))
ChildSends ==
  /\ child.task = "turn" /\ Len(said) < MaxEvents
  /\ \E event \in Event :
       /\ Sends(event)
       /\ child' = [child EXCEPT !.task = IF event \in Ends THEN "idle" ELSE @]
  /\ UNCHANGED <<errand, shown>>
\* The task ends: somebody else destroys the session, or it panics.
ChildDies ==
  /\ child.task \in {"idle", "turn"} /\ child' = [child EXCEPT !.task = "gone"]
  /\ UNCHANGED <<errand, pipe, said, shown>>

(***************************************************************************)
(* The call: subagent_handler                                              *)
(***************************************************************************)
Return(answer) == errand' = [errand EXCEPT !.state = "over", !.answer = answer]
\* Bad arguments, a type that is no subagent's (validate_subagent_type), an engine that is
\* gone, or a child that cannot be created.
Refuse ==
  /\ errand.state = "called" /\ Return("refused")
  /\ UNCHANGED <<child, pipe, said, shown>>
\* create_child_session, and the Started event.
CreateChild ==
  /\ errand.state = "called"
  /\ errand' = [errand EXCEPT !.state = "created"]
  /\ child' = [mounted |-> TRUE, task |-> "idle"]
  /\ shown' = Append(shown, "Started") /\ UNCHANGED <<pipe, said>>
SendPrompt ==
  /\ errand.state = "created"
  /\ child' = [child EXCEPT !.task = IF @ = "idle" THEN "turn" ELSE @]
  /\ errand' = [errand EXCEPT !.state = "waiting"] /\ UNCHANGED <<pipe, said, shown>>
\* The engine does not take the prompt: the child is destroyed, and Ended closes the view.
SendFails ==
  /\ errand.state = "created"
  /\ child' = [mounted |-> FALSE, task |-> "gone"]
  /\ Return("refused") /\ shown' = Append(shown, "Ended") /\ UNCHANGED <<pipe, said>>
\* select!, biased: a cancellation is seen first.  Every event is passed on, the reply that
\* ends the loop too.
Receive ==
  /\ errand.state = "waiting" /\ ~errand.cancelled /\ pipe # <<>>
  /\ shown' = Append(shown, Head(pipe)) /\ pipe' = Tail(pipe)
  /\ \E text \in {"final", "empty"} :
       errand' = IF Head(pipe) = "stop" THEN [errand EXCEPT !.state = "leaving", !.answer = text] ELSE errand
  /\ UNCHANGED <<child, said>>
ChannelClosed ==
  /\ errand.state = "waiting" /\ ~errand.cancelled /\ pipe = <<>> /\ child.task = "gone"
  /\ errand' = [errand EXCEPT !.state = "leaving"] /\ UNCHANGED <<child, pipe, said, shown>>
SeeCancel ==
  /\ errand.state = "waiting" /\ errand.cancelled
  /\ errand' = [errand EXCEPT !.state = "leaving", !.answer = "cancelled"]
  /\ UNCHANGED <<child, pipe, said, shown>>
\* destroy_session takes the child out of the table and waits for its task; a task that does
\* not end in time is aborted later.  What the channel holds then is passed on, and Ended.
Leave ==
  /\ errand.state = "leaving"
  /\ \E task \in {child.task, "gone"} : child' = [mounted |-> FALSE, task |-> task]
  /\ shown' = shown \o pipe \o <<"Ended">> /\ pipe' = <<>>
  /\ Return(errand.answer) /\ UNCHANGED said

\* The parent's turn cancels its batch, and then drops the handler where it stands, before or
\* after it has seen the cancellation (react/turn.rs).  A call that is dropped does nothing more.
ParentCancels ==
  /\ errand.state \notin {"over", "dropped"} /\ errand' = [errand EXCEPT !.cancelled = TRUE]
  /\ UNCHANGED <<child, pipe, said, shown>>
Dropped ==
  /\ errand.state \notin {"over", "dropped"} /\ errand.cancelled
  /\ errand' = [errand EXCEPT !.state = "dropped"] /\ pipe' = <<>>
  /\ UNCHANGED <<child, said, shown>>

Next ==
  \/ ChildSends \/ ChildDies
  \/ Refuse \/ CreateChild \/ SendPrompt \/ SendFails
  \/ Receive \/ ChannelClosed \/ SeeCancel \/ Leave
  \/ ParentCancels \/ Dropped
Spec == Init /\ [][Next]_vars

(***************************************************************************)
(* Properties                                                              *)
(***************************************************************************)
\* The front end sees the child's events as the child sent them, none left out in between,
\* after a Started and before the one Ended; every call that returns has closed what it
\* opened, and taken the child out of the engine (handler.rs; the file's head says why the
\* final reply has to be passed on as well).
ViewIsBracketed ==
  /\ shown # <<>> => Head(shown) = "Started"
  /\ \E ends \in BOOLEAN :
       IsPrefix(SubSeq(shown, 2, Len(shown) - (IF ends THEN 1 ELSE 0)), said)
         /\ (ends <=> shown # <<>> /\ Last(shown) = "Ended")
  /\ errand.state = "over" /\ shown # <<>> => Last(shown) = "Ended" /\ ~child.mounted
\* An answer is the reply the child's turn ended with, and the front end has seen it; a call
\* that waits has not yet passed such a reply by (handler.rs, the loop).
AnswerIsTheReply ==
  /\ errand.answer \in {"final", "empty"} => "stop" \in ToSet(shown)
  /\ errand.state = "waiting" => "stop" \notin ToSet(shown)
=============================================================================
