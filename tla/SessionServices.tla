--------------------------- MODULE SessionServices ---------------------------
(* Two services a session runs beside its conversation: the compression of    *)
(* its history into a summary (fuyao-core react/compression.rs, fuyao-session *)
(* compressor) and its title (react/title.rs, title_generator.rs, and the     *)
(* application's update_title).  The session task works batch by batch inside *)
(* the turn phase; the application stops it and cuts the history, renames the *)
(* session or deletes it meanwhile, and the title's own task runs beside both.*)
(*                                                                            *)
(* Bounds: MaxRows rows ever written, MaxPieces pieces of a summary, Buffer   *)
(* pieces in the channel, MaxNames titles ever given.  Nobody sends to the    *)
(* session while a cut of its history is under way (see stop.rs:75).          *)
EXTENDS Integers, Sequences

CONSTANTS MaxRows, MaxPieces, Buffer, MaxNames

VARIABLES
  rows,    \* the messages of the session, oldest first
  minted,  \* rows ever written, and titles ever given
  task,    \* the session task: [phase, step, todo, usage |-> last_usage is above the line, gate |-> title_gate]
  work,    \* the compression: [reason, read |-> the rows it read, pieces, queue]
  titler,  \* the title's own task
  cutter,  \* the application: a stop, and the cut that follows it
  ui,      \* what the user was shown
  title    \* the title in the table; 0 is the one a session begins with

vars == <<rows, minted, task, work, titler, cutter, ui, title>>

Row(kind, id, read) == [kind |-> kind, id |-> id, read |-> read]
IdsIn(rs) == {rs[i].id : i \in DOMAIN rs}
NoWork == [reason |-> "auto", read |-> {}, pieces |-> 0, queue |-> 0]

TypeOK ==
  /\ \A i \in DOMAIN rows : /\ rows[i].kind \in {"user", "assistant", "compaction"}
                            /\ rows[i].id \in 1 .. MaxRows
                            /\ rows[i].read \subseteq 1 .. MaxRows
  /\ minted \in [rows : 0 .. MaxRows, titles : 0 .. MaxNames]
  /\ task \in [phase : {"Idle", "Running"},
               step : {"idle", "pre", "inject", "title", "turn", "load", "stream", "drain", "mark", "prompt"},
               todo : Seq({"user", "compress"}), usage : BOOLEAN, gate : BOOLEAN, injected : BOOLEAN]
  /\ work \in [reason : {"auto", "manual"}, read : SUBSET (1 .. MaxRows),
               pieces : 0 .. MaxPieces, queue : 0 .. Buffer]
  /\ titler \in [step : {"none", "asking", "telling"}, name : 0 .. MaxNames]
  /\ cutter \in {"idle", "waiting", "quiet"}
  /\ ui \in [busy : BOOLEAN, ended : SUBSET (1 .. MaxRows), title : 0 .. MaxNames,
             renamed : BOOLEAN]
  /\ title \in 0 .. MaxNames

Init ==
  /\ rows = << >>
  /\ minted = [rows |-> 0, titles |-> 0]
  /\ task = [phase |-> "Idle", step |-> "idle", todo |-> << >>, usage |-> FALSE,
             gate |-> FALSE, injected |-> FALSE]
  /\ work = NoWork
  /\ titler = [step |-> "none", name |-> 0]
  /\ cutter = "idle"
  /\ ui = [busy |-> FALSE, ended |-> {}, title |-> 0, renamed |-> FALSE]
  /\ title = 0

\* load_visible_messages: the last boundary and what follows it
Boundaries(rs) == {i \in DOMAIN rs : rs[i].kind = "compaction"}
Visible(rs) ==
  IF Boundaries(rs) = {} THEN rs
  ELSE LET last == CHOOSE i \in Boundaries(rs) : \A j \in Boundaries(rs) : j <= i
       IN  SubSeq(rs, last, Len(rs))

Mint(kind, read) ==
  /\ minted.rows < MaxRows
  /\ rows' = Append(rows, Row(kind, minted.rows + 1, read))
  /\ minted' = [minted EXCEPT !.rows = @ + 1]

At(step) == task.step = step
Goto(step) == task' = [task EXCEPT !.step = step]

\* Mutant: the phase is entered with the turn, after the compression.
TakeBatchIdle(batch) ==
  /\ At("idle") /\ task.phase = "Idle" /\ cutter # "quiet"
  /\ LET user == \E i \in DOMAIN batch : batch[i] = "user"
     IN  task' = [task EXCEPT !.todo = batch, !.injected = FALSE,
                              !.step = IF user THEN "pre" ELSE "inject"]
  /\ UNCHANGED <<rows, minted, work, titler, cutter, ui, title>>

\* the main loop takes a batch and enters the turn phase before it writes a thing
TakeBatch(batch) ==
  /\ At("idle") /\ task.phase = "Idle" /\ cutter # "quiet"
  /\ LET user == \E i \in DOMAIN batch : batch[i] = "user"
     IN  task' = [task EXCEPT !.phase = "Running", !.todo = batch, !.injected = FALSE,
                              !.step = IF user THEN "pre" ELSE "inject"]
  /\ UNCHANGED <<rows, minted, work, titler, cutter, ui, title>>

Begin(reason) ==
  /\ Goto("load")
  /\ work' = [NoWork EXCEPT !.reason = reason]
  /\ ui' = [ui EXCEPT !.busy = TRUE]
  /\ UNCHANGED <<rows, minted, titler, cutter, title>>

\* run_pre_turn_compression: exempt, model unknown, or the last usage below the line
SkipCompression ==
  /\ At("pre") /\ Goto("inject")
  /\ UNCHANGED <<rows, minted, work, titler, cutter, ui, title>>

AutoCompress == At("pre") /\ task.usage /\ Begin("auto")

\* where a compression returns to: the batch behind the check, or the rest of the batch
Failed ==
  /\ Goto("inject")
  /\ ui' = [ui EXCEPT !.busy = FALSE]
  /\ work' = NoWork
  /\ UNCHANGED <<rows, minted, titler, cutter, title>>

\* consume_batch: the next entry of the batch; a user message may be blocked by a hook
InjectUser(blocked) ==
  /\ At("inject") /\ task.todo # << >> /\ Head(task.todo) = "user"
  /\ IF blocked THEN UNCHANGED <<rows, minted>> ELSE Mint("user", {})
  /\ task' = [task EXCEPT !.todo = Tail(@), !.injected = TRUE]
  /\ UNCHANGED <<work, titler, cutter, ui, title>>

\* handle_control: the model may not resolve, which the user is told at once
ManualCompress ==
  /\ At("inject") /\ task.todo # << >> /\ Head(task.todo) = "compress"
  /\ task' = [task EXCEPT !.todo = Tail(@), !.step = "load"]
  /\ work' = [NoWork EXCEPT !.reason = "manual"]
  /\ ui' = [ui EXCEPT !.busy = TRUE]
  /\ UNCHANGED <<rows, minted, titler, cutter, title>>

ManualUnresolved ==
  /\ At("inject") /\ task.todo # << >> /\ Head(task.todo) = "compress"
  /\ task' = [task EXCEPT !.todo = Tail(@)]
  /\ UNCHANGED <<rows, minted, work, titler, cutter, ui, title>>

BatchDone ==
  /\ At("inject") /\ task.todo = << >>
  /\ task' = IF task.injected THEN [task EXCEPT !.step = "title"]
             ELSE [task EXCEPT !.step = "idle", !.phase = "Idle"]
  /\ UNCHANGED <<rows, minted, work, titler, cutter, ui, title>>

\* run_compression, step by step
LoadRows ==
  /\ At("load") /\ Len(Visible(rows)) >= 2
  /\ Goto("stream")
  /\ work' = [work EXCEPT !.read = IdsIn(Visible(rows))]
  /\ UNCHANGED <<rows, minted, titler, cutter, ui, title>>

LoadFails == At("load") /\ Failed

\* on_delta: try_send into the channel, whose consumer shows the pieces in between
Piece ==
  /\ At("stream") /\ work.pieces < MaxPieces
  /\ work' = [work EXCEPT !.pieces = @ + 1, !.queue = IF @ < Buffer THEN @ + 1 ELSE @]
  /\ UNCHANGED <<rows, minted, task, titler, cutter, ui, title>>

ShowPiece ==
  /\ task.step \in {"stream", "drain"} /\ work.queue > 0
  /\ work' = [work EXCEPT !.queue = @ - 1]
  /\ UNCHANGED <<rows, minted, task, titler, cutter, ui, title>>

\* the model breaks off, or ends without a word
SummaryFails == At("stream") /\ Failed

SummaryEnds ==
  /\ At("stream") /\ work.pieces > 0
  /\ Goto("drain")
  /\ UNCHANGED <<rows, minted, work, titler, cutter, ui, title>>

Drained ==
  /\ At("drain") /\ work.queue = 0
  /\ Goto("mark")
  /\ UNCHANGED <<rows, minted, work, titler, cutter, ui, title>>

MarkCompaction ==
  /\ At("mark") /\ Mint("compaction", work.read)
  /\ Goto("prompt")
  /\ UNCHANGED <<work, titler, cutter, ui, title>>

MarkFails == At("mark") /\ Failed

\* the new system prompt is saved or not, and Ended names the row
Ended ==
  /\ At("prompt")
  /\ Goto("inject")
  /\ ui' = [ui EXCEPT !.busy = FALSE, !.ended = @ \union {minted.rows}]
  /\ work' = NoWork
  /\ UNCHANGED <<rows, minted, titler, cutter, title>>

\* maybe_spawn_title: one decision in the life of the task
FirstUser == Len(SelectSeq(rows, LAMBDA r : r.kind = "user")) = 1

SkipTitle ==
  /\ At("title")
  /\ task' = [task EXCEPT !.step = "turn", !.gate = TRUE]
  /\ UNCHANGED <<rows, minted, work, titler, cutter, ui, title>>

SetTitle(saved) ==
  /\ IF saved
     THEN /\ minted.titles < MaxNames
          /\ minted' = [minted EXCEPT !.titles = @ + 1]
          /\ title' = minted.titles + 1
     ELSE UNCHANGED <<minted, title>>
  /\ UNCHANGED <<rows, work, cutter>>

\* the placeholder is shown when it was saved; then the title's own task starts, if enabled
Placeholder(saved, enabled) ==
  /\ At("title") /\ ~task.gate /\ FirstUser
  /\ SetTitle(saved)
  /\ ui' = IF saved THEN [ui EXCEPT !.title = title', !.renamed = FALSE] ELSE ui
  /\ task' = [task EXCEPT !.step = "turn", !.gate = TRUE]
  /\ titler' = [titler EXCEPT !.step = IF enabled THEN "asking" ELSE "none"]

\* maybe_generate_title: the fast model, else the session's; nothing usable ends the task
NoTitle ==
  /\ titler.step = "asking" /\ titler' = [titler EXCEPT !.step = "none"]
  /\ UNCHANGED <<rows, minted, task, work, cutter, ui, title>>

Generated ==
  /\ titler.step = "asking"
  /\ SetTitle(TRUE)
  /\ titler' = [step |-> "telling", name |-> title']
  /\ ui' = [ui EXCEPT !.renamed = FALSE]
  /\ UNCHANGED task

TellTitle ==
  /\ titler.step = "telling" /\ titler' = [titler EXCEPT !.step = "none"]
  /\ ui' = [ui EXCEPT !.title = titler.name]
  /\ UNCHANGED <<rows, minted, task, work, cutter, title>>

\* the application renames the session; its user sees the name he gave
UpdateTitle ==
  /\ SetTitle(TRUE)
  /\ ui' = [ui EXCEPT !.renamed = TRUE]
  /\ UNCHANGED <<task, titler>>

\* a turn: it replies, with its usage, or ends early
Reply(above) ==
  /\ At("turn") /\ Mint("assistant", {})
  /\ task' = [task EXCEPT !.step = "idle", !.phase = "Idle", !.usage = above]
  /\ UNCHANGED <<work, titler, cutter, ui, title>>

TurnEnds ==
  /\ At("turn")
  /\ task' = [task EXCEPT !.step = "idle", !.phase = "Idle"]
  /\ UNCHANGED <<rows, minted, work, titler, cutter, ui, title>>

\* rollback: stop_session waits for the phase, then the history is cut
StopSession ==
  /\ cutter = "idle"
  /\ cutter' = IF task.phase = "Running" THEN "waiting" ELSE "quiet"
  /\ UNCHANGED <<rows, minted, task, work, titler, ui, title>>

StopReturns ==
  /\ cutter = "waiting" /\ task.phase = "Idle"
  /\ cutter' = "quiet"
  /\ UNCHANGED <<rows, minted, task, work, titler, ui, title>>

StopTimesOut ==
  /\ cutter = "waiting" /\ cutter' = "idle"
  /\ UNCHANGED <<rows, minted, task, work, titler, ui, title>>

CutTo(n) ==
  /\ cutter = "quiet" /\ cutter' = "idle"
  /\ rows[n].kind \in {"user", "compaction"}
  /\ rows' = SubSeq(rows, 1, n - 1)
  /\ UNCHANGED <<minted, task, work, titler, ui, title>>

NoCut ==
  /\ cutter = "quiet" /\ cutter' = "idle"
  /\ UNCHANGED <<rows, minted, task, work, titler, ui, title>>

Batches == {<<"user">>, <<"user", "user">>, <<"compress">>, <<"user", "compress">>}

Next ==
  \/ \E b \in Batches : TakeBatch(b)
  \/ SkipCompression \/ AutoCompress \/ BatchDone
  \/ \E blocked \in BOOLEAN : InjectUser(blocked)
  \/ ManualCompress \/ ManualUnresolved
  \/ LoadRows \/ LoadFails \/ Piece \/ ShowPiece \/ SummaryFails \/ SummaryEnds
  \/ Drained \/ MarkCompaction \/ MarkFails \/ Ended
  \/ SkipTitle \/ \E saved, enabled \in BOOLEAN : Placeholder(saved, enabled)
  \/ NoTitle \/ Generated \/ TellTitle \/ UpdateTitle
  \/ \E above \in BOOLEAN : Reply(above)
  \/ TurnEnds
  \/ StopSession \/ StopReturns \/ StopTimesOut \/ NoCut
  \/ \E n \in DOMAIN rows : CutTo(n)

Spec == Init /\ [][Next]_vars

(* A summary stands for exactly the rows below its boundary: those from the   *)
(* boundary before it on, no one of them unread and none that a rollback has  *)
(* taken away (compression.rs reads the rows, waits for a model and writes    *)
(* the boundary much later; the turn phase is what keeps a cut out).          *)
SummaryCoversRows ==
  \A i \in Boundaries(rows) :
    rows[i].read = IdsIn(Visible(SubSeq(rows, 1, i - 1)))

(* An idle session shows no compression at work, and has told the user of     *)
(* every boundary in its history (Started is followed by Ended or Failed).    *)
CompressionReported ==
  At("idle") => /\ ~ui.busy
                /\ \A i \in Boundaries(rows) : rows[i].id \in ui.ended

(* Unless the user has renamed the session since, the title shown is the one  *)
(* in the table, once the title's own task has told of it (title.rs:120).     *)
TitleIsStored == titler.step # "telling" /\ ~ui.renamed => ui.title = title
=============================================================================
