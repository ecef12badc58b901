---------------------------- MODULE SessionTask ----------------------------
(***************************************************************************)
(* One session of the engine: the task that owns the session (run_session  *)
(* and run_turn in crates/fuyao-core/src/react), the channels and the two  *)
(* queues it shares with the callers of Engine, and the history it writes. *)
(*                                                                         *)
(* Callers put entries on a bounded inbound channel and signals on a       *)
(* bounded interrupt channel, and may take queued entries back.  The task  *)
(* moves entries to the guide or the pending queue, takes batches out of   *)
(* them at three moments, writes them to the history and runs a turn: model*)
(* replies, batches of tool calls, and a closing protocol when a signal    *)
(* cuts the turn short.                                                    *)
(*                                                                         *)
(* A biased select! polls its branches from the top.  A branch fires when  *)
(* it is ready and none above it was seen ready; what became ready above   *)
(* it after the pass had begun is overlooked ("late") until the next pass. *)
(* Content, usage and wording are left out; a row of the history keeps     *)
(* what it is about.                                                       *)
(***************************************************************************)
EXTENDS Naturals, Sequences, FiniteSets

CONSTANTS
  Entry,          \* queue entries a caller may send
  User,           \* those that are user messages; the others are commands
  Guide,          \* those sent with mode Guide; the others have mode Pending
  Call,           \* ids of tool calls a reply may request
  ValidCall,      \* those whose id and name are both non-empty
  RepeatedIds,    \* whether the provider uses one call id in two replies
  InboundCap,     \* capacity of the inbound channel
  SignalCap,      \* capacity of the interrupt channel
  MaxSignals,     \* bound: interrupts sent in a behaviour
  MaxToolReplies, \* bound: replies with tool calls in a behaviour
  MaxRetries,     \* retries of one model call
  MaxLosses,      \* bound: rows a hook blocks or the database refuses
  MaxCrashes      \* bound: process crashes followed by a resume

ASSUME EntryAssumption == User \subseteq Entry /\ Guide \subseteq Entry
ASSUME CallAssumption == ValidCall \subseteq Call /\ RepeatedIds \in BOOLEAN
ASSUME BoundAssumption ==
  /\ InboundCap \in Nat \ {0} /\ SignalCap \in Nat \ {0}
  /\ MaxSignals \in Nat /\ MaxToolReplies \in Nat /\ MaxRetries \in Nat
  /\ MaxLosses \in Nat /\ MaxCrashes \in Nat

NoId == "none"
ASSUME NoIdAssumption == NoId \notin Entry \cup Call

Timings == {"Idle", "AfterToolBatch", "FinalReply"}
Outcomes == {"Completed", "Interrupted", "Failed"}
Pcs == {"take", "drained", "precompress", "batch", "resolve", "stream",
        "backoff", "tools", "drain", "closing", "idle", "exited"}
\* Where the task waits in a select!, and the branches that compete there.
Selecting == {"stream", "backoff", "tools", "idle"}
Branches == {"shut", "signals", "results", "inbound"}
Kinds == {"user", "echo", "compaction", "final", "tooluse", "partial",
          "tool", "aborted", "interrupt", "error"}
\* What became of a row: written and sent, sent but refused by the database,
\* dropped by an intercepting hook, or an event that is never written.
Fates == {"saved", "unsaved", "blocked", "event"}
Row == [kind : Kinds, id : Entry \cup Call \cup {NoId},
        calls : SUBSET Call, fate : Fates]

VARIABLES
  inbound,    \* inbound channel, external entries in sending order
  signals,    \* interrupt channel: the turn that ran when each was sent
  guide,      \* guide queue
  pending,    \* pending queue
  remover,    \* a remove_queued_message call between its two scans
  paused,     \* ConsumeGate.paused
  shut,       \* shutdown_token is cancelled
  pc,         \* where the session task stands
  timing,     \* the consume moment of the batch being taken or consumed
  batch,      \* entries taken and not yet consumed
  injected,   \* consume_batch: a user message was injected
  text,       \* TurnState: text or reasoning has been received
  received,   \* tool calls the decoder has accumulated
  partial,    \* TurnState.tool_calls
  attempt,    \* retries of the current model call
  requested,  \* effective tool calls of the batch in execution
  running,    \* those still executing
  results,    \* finished results in the result channel
  answered,   \* ids whose result went through the history
  log,        \* every row offered to the history or to the listeners
  sent,       \* entries accepted by the inbound channel, in order
  removed,    \* entries taken back by remove_queued_message
  lost,       \* entries that were in memory when the process crashed
  turn,       \* number of turns started
  count,      \* what the bounds count
  late        \* branches that became ready during the current pass of select!

channels == <<inbound, signals>>
queues == <<guide, pending>>
gate == <<paused, shut>>
batchVars == <<timing, batch, injected>>
streamVars == <<text, received, partial, attempt>>
toolVars == <<requested, running, results, answered>>
callerVars == <<sent, removed, lost, remover>>
stateVars == <<channels, queues, gate, pc, batchVars, streamVars, toolVars,
               log, callerVars, turn, count>>
vars == <<stateVars, late>>

Counters == [sent : Nat, tools : Nat, losses : Nat, crashes : Nat]
NoRemoval == [entry |-> NoId, found |-> FALSE, queued |-> FALSE]

FlagsOK ==
  /\ paused \in BOOLEAN /\ shut \in BOOLEAN
  /\ injected \in BOOLEAN /\ text \in BOOLEAN
  /\ late \subseteq Branches

DataOK ==
  /\ inbound \in Seq(Entry) /\ signals \in Seq(Nat)
  /\ guide \in Seq(Entry) /\ pending \in Seq(Entry)
  /\ remover \in [entry : Entry \cup {NoId}, found : BOOLEAN, queued : BOOLEAN]
  /\ pc \in Pcs /\ timing \in Timings
  /\ batch \in Seq(Entry)
  /\ received \in SUBSET Call /\ partial \in SUBSET Call
  /\ attempt \in Nat
  /\ requested \in SUBSET Call /\ running \in SUBSET Call
  /\ results \in SUBSET Call /\ answered \in SUBSET Call
  /\ log \in Seq(Row)
  /\ sent \in Seq(Entry) /\ removed \in SUBSET Entry /\ lost \in SUBSET Entry
  /\ turn \in Nat /\ count \in Counters

TypeOK == FlagsOK /\ DataOK

(***************************************************************************)
(* Helpers                                                                 *)
(***************************************************************************)
Elements(s) == {s[i] : i \in DOMAIN s}
\* retain_out_matching; an entry is queued at most once.
\* Mutant: retain with the predicate turned round.
Only(s, e) == IF e \in Elements(s) THEN <<e>> ELSE <<>>
Without(s, e) ==
  IF e \notin Elements(s) THEN s
  ELSE LET i == CHOOSE i \in DOMAIN s : s[i] = e
       IN SubSeq(s, 1, i - 1) \o SubSeq(s, i + 1, Len(s))
RowOf(kind, id, calls, fate) ==
  [kind |-> kind, id |-> id, calls |-> calls, fate |-> fate]
Event(kind, id) == RowOf(kind, id, {}, "event")

\* emit_inner: a row is saved, or it is lost to a hook or to the database.
Losses(fate) == IF fate = "saved" THEN 0 ELSE 1
Emit(kind, id, calls, fate) ==
  /\ count.losses + Losses(fate) <= MaxLosses
  /\ log' = Append(log, RowOf(kind, id, calls, fate))
  /\ count' = [count EXCEPT !.losses = @ + Losses(fate)]
HistoryFates == {"saved", "unsaved", "blocked"}

UsedCalls == UNION {log[i].calls : i \in DOMAIN log}
EverReplied == \E i \in DOMAIN log : log[i].kind = "final"

Init ==
  /\ inbound = <<>> /\ signals = <<>>
  /\ guide = <<>> /\ pending = <<>>
  /\ remover = NoRemoval
  /\ paused = FALSE /\ shut = FALSE
  /\ pc = "take" /\ timing = "Idle" /\ batch = <<>> /\ injected = FALSE
  /\ text = FALSE /\ received = {} /\ partial = {} /\ attempt = 0
  /\ requested = {} /\ running = {} /\ results = {} /\ answered = {}
  /\ log = <<>>
  /\ sent = <<>> /\ removed = {} /\ lost = {}
  /\ turn = 0
  /\ count = [sent |-> 0, tools |-> 0, losses |-> 0, crashes |-> 0]
  /\ late = {}

(***************************************************************************)
(* The biased select!                                                      *)
(***************************************************************************)
Ready == {b \in Branches :
            \/ b = "shut" /\ shut
            \/ b = "signals" /\ signals # <<>>
            \/ b = "results" /\ results # {}
            \/ b = "inbound" /\ inbound # <<>>}
Seen == Ready \ late

\* A step of a caller, or one inside the poll of the last branch: what becomes
\* ready may already have been passed by.
Arrive == late' = IF pc' \in Selecting THEN late \cup (Ready' \ Ready) ELSE {}

\* No branch fired, or the task was woken: the branches are polled again.
NewPass == late # {} /\ late' = {} /\ UNCHANGED stateVars

(***************************************************************************)
(* Callers of Engine                                                       *)
(***************************************************************************)
\* TurnPhase: Running from the moment a batch has been taken to the end of the
\* turn it starts.
InTurn == \/ pc \in {"resolve", "stream", "backoff", "tools", "drain", "closing"}
          \/ pc \in {"take", "drained", "batch"} /\ timing # "Idle"
Running == InTurn \/ pc \in {"precompress", "batch"}

\* The turn a signal sent now is meant for; 0 when none runs or is prepared.
Target == IF InTurn THEN turn ELSE IF Running THEN turn + 1 ELSE 0

\* Engine::send of a User or Control entry; a full channel delays the caller.
Send(e) ==
  /\ pc # "exited"
  /\ e \notin Elements(sent)
  /\ Len(inbound) < InboundCap
  /\ inbound' = Append(inbound, e)
  /\ sent' = Append(sent, e)
  /\ UNCHANGED <<signals, queues, gate, pc, batchVars, streamVars, toolVars,
                 log, removed, lost, remover, turn, count>>

\* Engine::send of an Interrupt, and the signal of stop_session.
SendInterrupt ==
  /\ pc # "exited"
  /\ count.sent < MaxSignals
  /\ Len(signals) < SignalCap
  /\ signals' = Append(signals, Target)
  /\ count' = [count EXCEPT !.sent = @ + 1]
  /\ UNCHANGED <<inbound, queues, gate, pc, batchVars, streamVars, toolVars,
                 log, callerVars, turn>>

\* Mutant: the guide queue is scanned twice, the pending queue never.
RemoveGuideTwice(e) ==
  /\ remover.entry = NoId
  /\ ~shut /\ pc # "exited"
  /\ guide' = Without(guide, e)
  /\ removed' = IF e \in Elements(guide) THEN removed \cup {e} ELSE removed
  /\ remover' = [entry |-> e, found |-> e \in Elements(guide),
                 queued |-> e \in Elements(pending) \cup Elements(guide)]
  /\ UNCHANGED <<channels, pending, gate, pc, batchVars, streamVars, toolVars,
                 log, sent, lost, turn, count>>

\* remove_queued_message: the pending queue is scanned first, ...
RemovePending(e) ==
  /\ remover.entry = NoId
  /\ ~shut /\ pc # "exited"
  /\ pending' = Without(pending, e)
  /\ removed' = IF e \in Elements(pending) THEN removed \cup {e} ELSE removed
  /\ remover' = [entry |-> e, found |-> e \in Elements(pending),
                 queued |-> e \in Elements(pending) \cup Elements(guide)]
  /\ UNCHANGED <<channels, guide, gate, pc, batchVars, streamVars, toolVars,
                 log, sent, lost, turn, count>>

\* ... then the guide queue, the two locks never held together.
RemoveGuide ==
  /\ remover.entry # NoId
  /\ guide' = Without(guide, remover.entry)
  /\ removed' = IF remover.entry \in Elements(guide)
                THEN removed \cup {remover.entry} ELSE removed
  /\ remover' = NoRemoval
  /\ UNCHANGED <<channels, pending, gate, pc, batchVars, streamVars, toolVars,
                 log, sent, lost, turn, count>>

\* destroy_session and Engine::shutdown cancel the session's token.
Shutdown ==
  /\ ~shut
  /\ shut' = TRUE
  /\ UNCHANGED <<channels, queues, paused, pc, batchVars, streamVars, toolVars,
                 log, callerVars, turn, count>>

(***************************************************************************)
(* Consumption of the queues (ConsumeGate::take, consume_batch)            *)
(***************************************************************************)
HasUser(s) == \E i \in DOMAIN s : s[i] \in User

\* Where the task goes with the entries a take has returned.
AfterTake(entries) ==
  IF timing # "Idle" THEN "batch"
  ELSE IF entries = <<>> THEN "idle"
  ELSE IF HasUser(entries) THEN "precompress" ELSE "batch"

\* Mutant: a paused gate lets entries through.
AlwaysOpen == TRUE
GateOpen == ~paused

\* The pending queue is moved behind the guide queue at the end of a chain, and
\* when an idle task finds no guide entry.
\* Mutants: also after a batch of tools; never when idle.
DrainsInChain == timing # "Idle" \/ guide = <<>>
DrainsAtReplyOnly == timing = "FinalReply"
DrainsPending == timing = "FinalReply" \/ (timing = "Idle" /\ guide = <<>>)

TakeGuide ==
  /\ \/ pc = "take" /\ GateOpen /\ ~DrainsPending
     \/ pc = "drained"
  /\ batch' = guide /\ guide' = <<>>
  /\ injected' = FALSE
  /\ pc' = AfterTake(guide)
  /\ UNCHANGED <<channels, pending, gate, timing, streamVars, toolVars, log,
                 callerVars, turn, count>>

DrainPending ==
  /\ pc = "take" /\ GateOpen /\ DrainsPending
  /\ guide' = guide \o pending /\ pending' = <<>>
  /\ pc' = "drained"
  /\ UNCHANGED <<channels, gate, batchVars, streamVars, toolVars, log,
                 callerVars, turn, count>>

TakePaused ==
  /\ pc = "take" /\ ~GateOpen
  /\ batch' = <<>> /\ injected' = FALSE
  /\ pc' = AfterTake(<<>>)
  /\ UNCHANGED <<channels, queues, gate, timing, streamVars, toolVars, log,
                 callerVars, turn, count>>

\* run_pre_turn_compression, then the shutdown check of run_session.
PreCompress ==
  /\ pc = "precompress"
  /\ \/ log' = log
     \/ EverReplied /\ log' = Append(log, RowOf("compaction", NoId, {}, "saved"))
  /\ pc' = IF shut THEN "exited" ELSE "batch"
  /\ UNCHANGED <<channels, queues, gate, batchVars, streamVars, toolVars,
                 callerVars, turn, count>>

ConsumeUser ==
  /\ pc = "batch" /\ batch # <<>> /\ Head(batch) \in User
  /\ \E fate \in HistoryFates : Emit("user", Head(batch), {}, fate)
  /\ batch' = Tail(batch) /\ injected' = TRUE
  /\ UNCHANGED <<channels, queues, gate, pc, timing, streamVars, toolVars,
                 callerVars, turn>>

\* handle_control: the echo first, then the manual compression, which may fail.
ConsumeControl ==
  /\ pc = "batch" /\ batch # <<>> /\ Head(batch) \notin User
  /\ \E rows \in {<<>>, <<RowOf("compaction", NoId, {}, "saved")>>} :
       log' = Append(log, Event("echo", Head(batch))) \o rows
  /\ batch' = Tail(batch)
  /\ UNCHANGED <<channels, queues, gate, pc, timing, injected, streamVars,
                 toolVars, callerVars, turn, count>>

(***************************************************************************)
(* The turn (run_turn)                                                     *)
(***************************************************************************)
\* The top of the loop of run_turn_loop: a fresh TurnState and decoder.
OpenStream ==
  /\ pc' = "stream"
  /\ text' = FALSE /\ received' = {} /\ partial' = {} /\ attempt' = 0

\* run_turn returns; on_turn_end moves the gate; the task falls to select!.
EndTurn(outcome) ==
  /\ pc' = "idle"
  /\ paused' = (outcome # "Completed")
  /\ timing' = "Idle"

BatchDone ==
  /\ pc = "batch" /\ batch = <<>>
  /\ UNCHANGED <<channels, queues, shut, batch, injected, toolVars, log,
                 callerVars, count>>
  /\ \/ /\ timing = "Idle" /\ injected
        /\ pc' = "resolve" /\ turn' = turn + 1
        /\ UNCHANGED <<paused, timing, streamVars>>
     \/ /\ timing = "Idle" /\ ~injected
        /\ pc' = "idle"
        /\ UNCHANGED <<paused, timing, streamVars, turn>>
     \/ /\ timing = "AfterToolBatch" \/ (timing = "FinalReply" /\ injected)
        /\ OpenStream
        /\ UNCHANGED <<paused, timing, turn>>
     \/ /\ timing = "FinalReply" /\ ~injected
        /\ EndTurn("Completed")
        /\ UNCHANGED <<streamVars, turn>>

\* Model and provider are looked up; a miss fails the turn.
Resolve ==
  /\ pc = "resolve"
  /\ UNCHANGED <<channels, queues, shut, batch, injected, toolVars,
                 callerVars, turn, count>>
  /\ \/ OpenStream /\ UNCHANGED <<paused, timing, log>>
     \/ /\ EndTurn("Failed") /\ log' = Append(log, Event("error", NoId))
        /\ UNCHANGED streamVars

\* Mutant: a guide entry goes to the front of its queue.
EnqueueFront ==
  LET e == Head(inbound) IN
  /\ inbound' = Tail(inbound)
  /\ guide' = IF e \in Guide THEN <<e>> \o guide ELSE guide
  /\ pending' = IF e \in Guide THEN pending ELSE Append(pending, e)

\* handle_inbound_item: enqueue by the entry's own mode, nothing else.
Enqueue ==
  LET e == Head(inbound) IN
  /\ inbound' = Tail(inbound)
  /\ guide' = IF e \in Guide THEN Append(guide, e) ELSE guide
  /\ pending' = IF e \in Guide THEN pending ELSE Append(pending, e)

StreamInbound ==
  /\ pc \in {"stream", "backoff"} /\ "shut" \notin Seen /\ inbound # <<>>
  /\ Enqueue
  /\ UNCHANGED <<signals, gate, pc, batchVars, streamVars, toolVars, log,
                 callerVars, turn, count>>

\* The model call is polled when neither shutdown nor inbound was seen ready.
CallPolled == Seen \cap {"shut", "inbound"} = {}
Polled == pc = "stream" /\ CallPolled

\* TextDelta and ReasoningDelta are copied to the shared TurnState at once, ...
StreamText ==
  /\ Polled /\ ~text
  /\ text' = TRUE
  /\ UNCHANGED <<channels, queues, gate, pc, batchVars, received, partial,
                 attempt, toolVars, log, callerVars, turn, count>>

\* ... tool calls stay in the decoder until the stream has ended.
StreamCall(c) ==
  /\ Polled /\ count.tools < MaxToolReplies
  /\ c \notin received /\ (RepeatedIds \/ c \notin UsedCalls)
  /\ received' = received \cup {c}
  /\ UNCHANGED <<channels, queues, gate, pc, batchVars, text, partial, attempt,
                 toolVars, log, callerVars, turn, count>>

\* run_stream_with_retry: a failure before the first text is slept over, ...
StreamRetry ==
  /\ Polled /\ ~text /\ attempt < MaxRetries
  /\ pc' = "backoff" /\ attempt' = attempt + 1
  /\ UNCHANGED <<channels, queues, gate, batchVars, text, received, partial,
                 toolVars, log, callerVars, turn, count>>

\* ... and the call is made again with a cleared state.
BackoffEnd ==
  /\ pc = "backoff" /\ CallPolled
  /\ pc' = "stream" /\ received' = {} /\ partial' = {}
  /\ UNCHANGED <<channels, queues, gate, batchVars, text, attempt, toolVars, log,
                 callerVars, turn, count>>

StreamFail ==
  /\ Polled
  /\ log' = Append(log, Event("error", NoId))
  /\ EndTurn("Failed")
  /\ UNCHANGED <<channels, queues, shut, batch, injected, streamVars, toolVars,
                 callerVars, turn, count>>

\* The sleep watches the shutdown token too, below the turn's own branch: a
\* cancellation the turn overlooked comes back as a failure of the model call.
CancelInBackoff ==
  /\ pc = "backoff" /\ CallPolled /\ shut
  /\ log' = Append(log, Event("error", NoId))
  /\ EndTurn("Failed")
  /\ UNCHANGED <<channels, queues, shut, batch, injected, streamVars, toolVars,
                 callerVars, turn, count>>

\* handle_final_reply: the reply is written, then both queues are taken.
StreamFinal ==
  /\ Polled /\ received = {}
  /\ \E fate \in HistoryFates : Emit("final", NoId, {}, fate)
  /\ pc' = "take" /\ timing' = "FinalReply"
  /\ UNCHANGED <<channels, queues, gate, batch, injected, streamVars, toolVars,
                 callerVars, turn>>

\* handle_tool_calls: hooks may block single calls; the reply is written with
\* the effective ones and they start to execute.
StreamTools ==
  /\ Polled /\ received # {}
  /\ \E effective \in SUBSET received, fate \in HistoryFates :
       /\ count.losses + Losses(fate) <= MaxLosses
       /\ log' = Append(log, RowOf("tooluse", NoId, effective, fate))
       /\ count' = [count EXCEPT !.losses = @ + Losses(fate), !.tools = @ + 1]
       /\ requested' = effective /\ running' = effective
       /\ IF effective = {}
          THEN pc' = "take" /\ timing' = "AfterToolBatch"
          ELSE pc' = "tools" /\ UNCHANGED timing
  /\ partial' = received
  /\ results' = {} /\ answered' = {}
  /\ UNCHANGED <<channels, queues, gate, batch, injected, text, received,
                 attempt, callerVars, turn>>

\* The executing tools are polled when no other branch was seen ready.
ToolsPolled == pc = "tools" /\ Seen = {}

\* A tool ends (normally, unknown, or by a panic turned into an error) and its
\* result enters the result channel.
ToolFinish(c) ==
  /\ ToolsPolled /\ c \in running
  /\ running' = running \ {c} /\ results' = results \cup {c}
  /\ UNCHANGED <<channels, queues, gate, pc, batchVars, streamVars, requested,
                 answered, log, callerVars, turn, count>>

\* record_tool_result: marked as answered whatever becomes of the row.
Record(c) ==
  /\ c \in results
  /\ results' = results \ {c} /\ answered' = answered \cup {c}
  /\ \E fate \in HistoryFates : Emit("tool", c, {}, fate)
  /\ UNCHANGED <<channels, queues, gate, pc, batchVars, streamVars, requested,
                 running, callerVars, turn>>

ToolRecord(c) ==
  pc = "tools" /\ Seen \cap {"shut", "signals"} = {} /\ Record(c)

ToolsInbound ==
  /\ pc = "tools" /\ Seen \cap {"shut", "signals", "results"} = {} /\ inbound # <<>>
  /\ Enqueue
  /\ UNCHANGED <<signals, gate, pc, batchVars, streamVars, toolVars, log,
                 callerVars, turn, count>>

\* execute_tools is done: what is left in the channel is drained ...
ToolsDone ==
  /\ ToolsPolled /\ running = {}
  /\ pc' = "drain"
  /\ UNCHANGED <<channels, queues, gate, batchVars, streamVars, toolVars,
                 log, callerVars, turn, count>>

\* ... whatever signal arrives meanwhile, and the chain goes on.
ToolsDrained ==
  /\ pc = "drain" /\ results = {}
  /\ pc' = "take" /\ timing' = "AfterToolBatch"
  /\ UNCHANGED <<channels, queues, gate, batch, injected, streamVars, toolVars,
                 log, callerVars, turn, count>>

(***************************************************************************)
(* Interrupt and shutdown of a turn (interrupt.rs)                         *)
(***************************************************************************)
\* The signal a closing turn consumes: none when the token is cancelled.
ConsumeSignal ==
  \/ "shut" \in Seen /\ UNCHANGED signals
  \/ "shut" \notin Seen /\ signals # <<>> /\ signals' = Tail(signals)

\* finish_streaming: the partial reply, if there is any, with the valid calls
\* of the shared state, which are all unanswered.
CloseStream ==
  /\ pc \in {"stream", "backoff"}
  /\ "shut" \in Seen \/ "inbound" \notin Seen
  /\ ConsumeSignal
  /\ IF text \/ partial # {}
     THEN \E fate \in HistoryFates :
            Emit("partial", NoId, partial \cap ValidCall, fate)
     ELSE UNCHANGED <<log, count>>
  /\ requested' = partial /\ running' = {} /\ results' = {} /\ answered' = {}
  /\ pc' = "closing"
  /\ UNCHANGED <<inbound, queues, gate, batchVars, streamVars, callerVars, turn>>

\* Mutant: the interrupt notice goes out before the results are settled.
CloseToolsNotifying ==
  /\ pc = "tools"
  /\ ConsumeSignal
  /\ running' = {}
  /\ log' = Append(log, Event("interrupt", NoId))
  /\ pc' = "closing"
  /\ UNCHANGED <<inbound, queues, gate, batchVars, streamVars, requested,
                 results, answered, callerVars, turn, count>>

\* The tool batch is abandoned; the executing tools are cancelled.
CloseTools ==
  /\ pc = "tools"
  /\ ConsumeSignal
  /\ running' = {}
  /\ pc' = "closing"
  /\ UNCHANGED <<inbound, queues, gate, batchVars, streamVars, requested,
                 results, answered, log, callerVars, turn, count>>

\* drain_finished_results: what has finished is recorded first, in a closing
\* turn as at the end of a batch.
DrainRecord(c) == pc \in {"drain", "closing"} /\ Record(c)

\* finish_tool_batch: every valid call without an answer gets an aborted result.
\* Mutants: not on shutdown; the calls already answered as well.
UnfinishedIfSignalled == IF shut THEN {} ELSE (requested \cap ValidCall) \ answered
UnfinishedAll == requested \cap ValidCall
Unfinished == (requested \cap ValidCall) \ answered

CloseAbort(c) ==
  /\ pc = "closing" /\ results = {} /\ c \in Unfinished
  /\ answered' = answered \cup {c}
  /\ \E fate \in HistoryFates : Emit("aborted", c, {}, fate)
  /\ UNCHANGED <<channels, queues, gate, pc, batchVars, streamVars, requested,
                 running, results, callerVars, turn>>

\* emit_interrupt_event, the last event of the turn.
CloseNotify ==
  /\ pc = "closing" /\ results = {} /\ Unfinished = {}
  /\ log' = Append(log, Event("interrupt", NoId))
  /\ EndTurn("Interrupted")
  /\ UNCHANGED <<channels, queues, shut, batch, injected, streamVars, toolVars,
                 callerVars, turn, count>>

(***************************************************************************)
(* The idle select! of run_session                                         *)
(***************************************************************************)
IdleShutdown ==
  /\ pc = "idle" /\ "shut" \in Seen
  /\ pc' = "exited"
  /\ UNCHANGED <<channels, queues, gate, batchVars, streamVars, toolVars, log,
                 callerVars, turn, count>>

IdleInbound ==
  /\ pc = "idle" /\ "shut" \notin Seen /\ inbound # <<>>
  /\ paused' = FALSE
  /\ Enqueue
  /\ pc' = "take" /\ timing' = "Idle"
  /\ UNCHANGED <<signals, shut, batch, injected, streamVars, toolVars, log,
                 callerVars, turn, count>>

IdleInterrupt ==
  /\ pc = "idle" /\ Seen \cap {"shut", "inbound"} = {} /\ signals # <<>>
  /\ signals' = Tail(signals)
  /\ log' = Append(log, Event("interrupt", NoId))
  /\ pc' = "take" /\ timing' = "Idle"
  /\ UNCHANGED <<inbound, queues, gate, batch, injected, streamVars, toolVars,
                 callerVars, turn, count>>

(***************************************************************************)
(* The process dies; resume_session assembles the session again from the   *)
(* database: the history survives, queues and channels do not.             *)
(***************************************************************************)
InMemory == Elements(inbound) \cup Elements(guide) \cup Elements(pending)
              \cup Elements(batch)

Crash ==
  /\ count.crashes < MaxCrashes
  /\ count' = [count EXCEPT !.crashes = @ + 1]
  /\ lost' = lost \cup InMemory
  /\ inbound' = <<>> /\ signals' = <<>> /\ guide' = <<>> /\ pending' = <<>>
  /\ remover' = NoRemoval /\ paused' = FALSE /\ shut' = FALSE
  /\ pc' = "take" /\ timing' = "Idle" /\ batch' = <<>> /\ injected' = FALSE
  /\ text' = FALSE /\ received' = {} /\ partial' = {} /\ attempt' = 0
  /\ requested' = {} /\ running' = {} /\ results' = {} /\ answered' = {}
  /\ UNCHANGED <<log, sent, removed, turn>>

CallerStep ==
  \/ \E e \in Entry : Send(e) \/ RemovePending(e)
  \/ RemoveGuide \/ SendInterrupt \/ Shutdown \/ Crash

\* Steps inside the poll of the model call or of the executing tools.
PollStep ==
  \/ StreamText \/ (\E c \in Call : StreamCall(c)) \/ StreamRetry \/ BackoffEnd
  \/ \E c \in Call : ToolFinish(c)

\* The branches that fire, and the steps between two select!s.
BranchStep ==
  \/ TakeGuide \/ DrainPending \/ TakePaused \/ PreCompress
  \/ ConsumeUser \/ ConsumeControl \/ BatchDone \/ Resolve
  \/ StreamInbound \/ StreamFail \/ CancelInBackoff
  \/ StreamFinal \/ StreamTools
  \/ (\E c \in Call : ToolRecord(c))
  \/ ToolsInbound \/ ToolsDone \/ ToolsDrained
  \/ CloseStream \/ CloseTools
  \/ (\E c \in Call : DrainRecord(c) \/ CloseAbort(c)) \/ CloseNotify
  \/ IdleShutdown \/ IdleInbound \/ IdleInterrupt

TaskStep ==
  \/ PollStep /\ Arrive
  \/ BranchStep /\ late' = {}
  \/ NewPass

Next == (CallerStep /\ Arrive) \/ TaskStep

Spec == Init /\ [][Next]_vars

\* The runtime schedules a ready task, a started removal ends, providers and
\* tools answer: they are steps of the task.  Nothing obliges a caller.
Fairness == WF_vars(TaskStep) /\ WF_vars(RemoveGuide /\ Arrive)
FairSpec == Spec /\ Fairness

(***************************************************************************)
(* Properties                                                              *)
(***************************************************************************)
Consumed == {log[i].id : i \in {j \in DOMAIN log : log[j].kind \in {"user", "echo"}}}
Occurrences(s, e) == Cardinality({i \in DOMAIN s : s[i] = e})
TimesConsumed(e) ==
  Cardinality({i \in DOMAIN log : log[i].kind \in {"user", "echo"} /\ log[i].id = e})
One(b) == IF b THEN 1 ELSE 0

\* Every accepted entry is at every moment in exactly one place: in the channel,
\* in one queue, in the batch, in the history, taken back, or lost to a crash.
\* No move between them (enqueue, drain, take, remove) copies or drops one.
Conservation ==
  \A e \in Entry :
    Occurrences(inbound, e) + Occurrences(guide, e) + Occurrences(pending, e)
      + Occurrences(batch, e) + TimesConsumed(e) + One(e \in removed)
      + One(e \in lost) = One(e \in Elements(sent))

\* The rows a model request shows, without the entries consumed between them.
IsConversation(row) == row.kind \notin {"user", "echo", "compaction"}
Previous(i) == {j \in 1..(i - 1) : IsConversation(log[j])}
ChainOpenBefore(i) ==
  /\ Previous(i) # {}
  /\ LET j == CHOOSE j \in Previous(i) : \A k \in Previous(i) : k <= j
     IN log[j].kind \in {"tooluse", "tool", "aborted", "partial"}

\* "Pending waits for the end of the chain": no entry sent with mode Pending is
\* consumed between a reply with tool calls and the reply, the interrupt or the
\* error that ends its chain.  A crash ends a chain without a row.
PendingLocked ==
  count.crashes = 0 =>
    \A i \in DOMAIN log :
      (log[i].kind \in {"user", "echo"} /\ log[i].id \notin Guide)
        => ~ChainOpenBefore(i)

\* The interrupt notice is the last event of its turn: whatever follows it
\* belongs to a later batch or to the idle loop.
AfterNotice == {"user", "echo", "compaction", "interrupt"}
NoticeClosesTurn(s) ==
  \A i \in DOMAIN s :
    (s[i].kind = "interrupt" /\ i + 1 \in DOMAIN s) => s[i + 1].kind \in AfterNotice
InterruptLast == NoticeClosesTurn(log)

\* No call is answered twice: between two results for one id there is a reply
\* that requests it again.
ResultKinds == {"tool", "aborted"}
IsResult(row, c) == row.kind \in ResultKinds /\ row.id = c
RequestedBetween(s) ==
  \A i, j \in DOMAIN s :
    \A c \in Call : (i < j /\ IsResult(s[i], c) /\ IsResult(s[j], c))
                      => \E k \in i..j : c \in s[k].calls
AnsweredOnce == RequestedBetween(log)

\* Why InterruptLast holds: no notice has ended a turn that still runs or is
\* about to run, and only an idle take prepares one.
NoticeInv ==
  /\ InterruptLast
  /\ pc = "precompress" => timing = "Idle" /\ ~injected
  /\ (InTurn \/ (pc = "batch" /\ injected))
       => log # <<>> /\ log[Len(log)].kind # "interrupt"

\* Why AnsweredOnce holds: a call that may still get a result has been requested
\* after every result there is for its id, and no call both runs and is finished.
Fresh(s, c) ==
  \E k \in DOMAIN s :
    c \in s[k].calls /\ \A i \in DOMAIN s : IsResult(s[i], c) => i < k
AnswerInv ==
  /\ AnsweredOnce
  /\ pc \in {"tools", "drain", "closing"} =>
       /\ running \cap results = {}
       /\ \A c \in running \cup results \cup Unfinished : Fresh(log, c)
  /\ pc = "closing" => running = {}

(***************************************************************************)
(* What build_chat_request and pair_missing_tool_results send to a model.  *)
(***************************************************************************)
SavedAt == {i \in DOMAIN log : log[i].fate = "saved"}
LastCompaction == {i \in SavedAt : log[i].kind = "compaction"}
WindowStart == IF LastCompaction = {} THEN 0
               ELSE CHOOSE i \in LastCompaction : \A j \in LastCompaction : j <= i
Window == {i \in SavedAt : i >= WindowStart}
Replies == {"tooluse", "partial", "final"}
ResultsIn(c, rows) == {j \in rows : IsResult(log[j], c)}
\* The unbroken run of results that follows row i of the window.
RunAfter(i) ==
  {j \in Window : j > i /\ \A k \in Window : (i < k /\ k <= j) => log[k].kind \in ResultKinds}
\* A placeholder is added when no result for the id is in the whole window.
\* Mutant: the history is sent as it is.
NoPlaceholder(c) == FALSE
Placeholder(c) == ResultsIn(c, Window) = {}

\* A request is legal: each call of a reply in the window has exactly one result,
\* right after the reply, and each result follows the reply that asked for it.
\* A lost result is made up for; a lost reply with calls is not (see hazards).
RepliesKept == \A i \in DOMAIN log : log[i].calls # {} => log[i].fate = "saved"
RequestPaired ==
  (pc = "stream" /\ RepliesKept) =>
    /\ \A i \in Window : \A c \in log[i].calls :
         Cardinality(ResultsIn(c, RunAfter(i))) + One(Placeholder(c)) = 1
    /\ \A j \in Window : log[j].kind \in ResultKinds =>
         \E i \in Window : j \in RunAfter(i) /\ log[j].id \in log[i].calls

\* With every row written, no valid call of a finished chain needs a
\* placeholder: the closing protocol itself has answered it.
BatchAnswered ==
  (count.losses = 0 /\ count.crashes = 0 /\ pc \in {"stream", "idle"}) =>
    \A i \in DOMAIN log : \A c \in log[i].calls \cap ValidCall :
      \E j \in DOMAIN log : j > i /\ IsResult(log[j], c)
           /\ \A k \in (i + 1)..j : log[k].kind \notin Replies

\* A paused gate keeps what is queued: after an interrupted or failed turn no
\* entry is consumed until a new one has come through the channel.
GateHolds ==
  [][(paused /\ paused') => (batch' = batch \/ batch' = <<>>)
                              /\ Consumed' = Consumed]_vars

\* A removal that finds nothing speaks the truth: an entry that was queued when
\* the call began is not left in a queue, though the task drains one queue into
\* the other between the two scans.
RemovalComplete ==
  [][(remover.entry # NoId /\ remover.queued /\ remover' = NoRemoval
        /\ count.crashes' = count.crashes)
       => remover.entry \notin Elements(guide') \cup Elements(pending')]_vars

\* Every accepted message is eventually consumed, taken back or lost, unless the
\* task exits or the gate stays paused for ever: interrupts, failed turns and
\* crashes do not leave one behind.
EventuallyServed ==
  \A e \in User :
    e \in Elements(sent) ~>
      (e \in Consumed \cup removed \cup lost \/ pc = "exited" \/ []paused)
=============================================================================
