----------------------------- MODULE CoreParts ------------------------------
(***************************************************************************)
(* Parts of the system that work for or beside a session task, side by     *)
(* side: some tools, the plugins, the session's services and its           *)
(* snapshots.  They share nothing but the calls that reach them, so a      *)
(* behaviour is one of them at work: part names it, and the variables of   *)
(* the others are 0.  These are the parts PartsProofs has theorems about,  *)
(* for all values of their constants; ServiceParts adds the parts that are *)
(* checked on the values it fixes.                                         *)
(***************************************************************************)
EXTENDS Naturals, Sequences

CONSTANTS
  Caller,                                                           \* FileEdits, WebFetch
  Task, Spelling, CwdIsWorkspace, Cap, MaxChanges,                  \* FileEdits
  Limit, MaxLimit, Requested, MaxKin, MaxText,                      \* CommandRun
  Owner, Parent, Item, MaxItems, MaxWrites,                         \* TodoList
  MaxEvents,                                                        \* Subagent
  Host, Port, Path, Format, Refused, Default, Ttl, MaxSize, Timeout, MaxClock,  \* WebFetch
  Call, RepeatAt, AlternateAt, Spare, Hits, Inbox, Signals, Batch,  \* LoopGuard
  Plugin, Priority, Factories, Events,                              \* PluginHooks
  MaxMessages, MaxPieces, Buffer, MaxNames,                         \* SessionServices
  File, Small, Big, Session, BatchSize, Expiry, MaxDay, MaxSnaps, MaxEdits,  \* ShadowRepo
  Provider, Model, Key, Engine, Admin, Protocols, Fast, MaxOps,     \* ProviderAdmin
  Id, Dir, Linked, Dotted, Layers, MaxFileEdits,                    \* Discovery
  Capacity, MaxLives, MaxSent,                                      \* FanOut
  PageSize, Compresses, MaxStored, MaxAsked, MaxCuts,               \* HistoryReplay
  Ticks, ListSize, Workspace, MaxSessions, MaxTime, MaxUses,        \* SessionLists
  CallIds, MaxBlocks, Pieces, MaxRetries, Initial, RetryCap, HeaderCap, MaxFaults,  \* ReplyStream
  Costs, Budget, MaxOffset, MaxUnits, Limits, Most,                 \* Excerpts
  Leaf, Sub, Tokens, MaxTiers,                                      \* Configuration
  Spelt, Home, Here, Cwd,                                           \* ToolBatch, DeleteScope
  NeverParallel, PathScoped, ParallelSafe, MaxConcurrent, MaxTogether,  \* ToolBatch
  DirName, FirstDirs, MaxLength, MaxDepth, MaxGroups                \* DeleteScope

VARIABLES
  part,                                                 \* which component is at work
  disk, stamps, lock, call, told,                       \* FileEdits
  command, process, output,                             \* CommandRun
  todos, tx, writes, sent, count,                       \* TodoList
  errand, child, pipe, said, shown,                     \* Subagent
  clock, cache, fetch,                                  \* WebFetch
  guard, chat,                                          \* LoopGuard
  host, hooks, event, heard,                            \* PluginHooks
  rows, minted, task, work, titler, cutter, ui, title,  \* SessionServices
  usable, tree, ignore, repo, snaps, op, day,          \* ShadowRepo
  toml, env, proc, providers, engine, admin, promise, ops, \* ProviderAdmin
  defs, skills, built, choice, session, edits,          \* Discovery
  tasks, emitted, streams, forwarders, table, closer, exit, seen, app, \* FanOut
  messages, live, emission, ran, reading, cuts,         \* HistoryReplay
  main, clocks, pager,                                  \* SessionLists
  ask, reply, wire, line, agg, faults,                  \* ReplyStream
  source, reader,                                       \* Excerpts
  layers, config, model,                                \* Configuration
  batch, mode, running, results, written,               \* ToolBatch
  check, shell                                          \* DeleteScope

coreVars == <<disk, stamps, lock, call, told, command, process, output, todos, tx, writes, sent, count,
              errand, child, pipe, said, shown, clock, cache, fetch, guard, chat,
              host, hooks, event, heard, rows, minted, task, work, titler, cutter, ui, title,
              usable, tree, ignore, repo, snaps, op, day,
              toml, env, proc, providers, engine, admin, promise, ops,
              defs, skills, built, choice, session, edits,
              tasks, emitted, streams, forwarders, table, closer, exit, seen, app,
              messages, live, emission, ran, reading, cuts, main, clocks, pager,
              ask, reply, wire, line, agg, faults, source, reader,
              layers, config, model, batch, mode, running, results, written, check, shell>>

Edits == INSTANCE FileEdits
Command == INSTANCE CommandRun WITH call <- command, child <- process, reader <- output
Todo == INSTANCE TodoList WITH table <- todos, calls <- writes, Session <- Owner, MaxCalls <- MaxWrites
Errand == INSTANCE Subagent
Web == INSTANCE WebFetch
Guard == INSTANCE LoopGuard
Hooks == INSTANCE PluginHooks WITH table <- hooks, told <- heard
Work == INSTANCE SessionServices WITH MaxRows <- MaxMessages
Shadow == INSTANCE ShadowRepo WITH enabled <- usable, work <- tree, rows <- snaps, clock <- day, MaxRows <- MaxSnaps
Manager == INSTANCE ProviderAdmin WITH cache <- providers
Disc == INSTANCE Discovery WITH files <- defs, MaxEdits <- MaxFileEdits
Fan == INSTANCE FanOut WITH
  task <- tasks, sent <- emitted, queue <- streams, fwd <- forwarders, fan <- exit,
  Session <- Owner, MaxEvents <- MaxSent
Replay == INSTANCE HistoryReplay WITH
  rows <- messages, pipe <- emission, page <- reading, MaxRows <- MaxStored, MaxCalls <- MaxAsked
Lists == INSTANCE SessionLists WITH rows <- main, clock <- clocks
Stream == INSTANCE ReplyStream WITH Cap <- RetryCap
Reading == INSTANCE Excerpts
Conf == INSTANCE Configuration WITH process <- config
Batches == INSTANCE ToolBatch WITH disk <- written, Path <- Spelt, Workspace <- Here, MaxCalls <- MaxTogether
Scope == INSTANCE DeleteScope WITH Name <- DirName, Workspace <- Here, Start <- FirstDirs

Core == {"edits", "command", "todo", "errand", "web", "guard", "hooks", "work", "shadow",
         "admin", "disc", "fan", "replay", "lists", "stream", "reading", "conf",
         "batch", "scope"}

CoreInit ==
  /\ IF part = "edits" THEN Edits!Init ELSE disk = 0 /\ stamps = 0 /\ lock = 0 /\ call = 0 /\ told = 0
  /\ IF part = "command" THEN Command!Init ELSE command = 0 /\ process = 0 /\ output = 0
  /\ IF part = "todo" THEN Todo!Init
     ELSE todos = 0 /\ tx = 0 /\ writes = 0 /\ sent = 0 /\ count = 0
  /\ IF part = "errand" THEN Errand!Init
     ELSE errand = 0 /\ child = 0 /\ pipe = 0 /\ said = 0 /\ shown = 0
  /\ IF part = "web" THEN Web!Init ELSE clock = 0 /\ cache = 0 /\ fetch = 0
  /\ IF part = "guard" THEN Guard!Init ELSE guard = 0 /\ chat = 0
  /\ IF part = "hooks" THEN Hooks!Init ELSE host = 0 /\ hooks = 0 /\ event = 0 /\ heard = 0
  /\ IF part = "work" THEN Work!Init
     ELSE /\ rows = 0 /\ minted = 0 /\ task = 0 /\ work = 0
          /\ titler = 0 /\ cutter = 0 /\ ui = 0 /\ title = 0
  /\ IF part = "shadow" THEN Shadow!Init
     ELSE usable = 0 /\ tree = 0 /\ ignore = 0 /\ repo = 0 /\ snaps = 0 /\ op = 0 /\ day = 0
  /\ IF part = "admin" THEN Manager!Init
     ELSE /\ toml = 0 /\ env = 0 /\ proc = 0 /\ providers = 0
          /\ engine = 0 /\ admin = 0 /\ promise = 0 /\ ops = 0
  /\ IF part = "disc" THEN Disc!Init
     ELSE defs = 0 /\ skills = 0 /\ built = 0 /\ choice = 0 /\ session = 0 /\ edits = 0
  /\ IF part = "fan" THEN Fan!Init
     ELSE /\ tasks = 0 /\ emitted = 0 /\ streams = 0 /\ forwarders = 0 /\ table = 0
          /\ closer = 0 /\ exit = 0 /\ seen = 0 /\ app = 0
  /\ IF part = "replay" THEN Replay!Init
     ELSE messages = 0 /\ live = 0 /\ emission = 0 /\ ran = 0 /\ reading = 0 /\ cuts = 0
  /\ IF part = "lists" THEN Lists!Init ELSE main = 0 /\ clocks = 0 /\ pager = 0
  /\ IF part = "stream" THEN Stream!Init
     ELSE ask = 0 /\ reply = 0 /\ wire = 0 /\ line = 0 /\ agg = 0 /\ faults = 0
  /\ IF part = "reading" THEN Reading!Init ELSE source = 0 /\ reader = 0
  /\ IF part = "conf" THEN Conf!Init ELSE layers = 0 /\ config = 0 /\ model = 0
  /\ IF part = "batch" THEN Batches!Init
     ELSE batch = 0 /\ mode = 0 /\ running = 0 /\ results = 0 /\ written = 0
  /\ IF part = "scope" THEN Scope!Init ELSE check = 0 /\ shell = 0

CoreNext ==
  /\ IF part = "edits" THEN Edits!Next ELSE UNCHANGED <<disk, stamps, lock, call, told>>
  /\ IF part = "command" THEN Command!Next ELSE UNCHANGED <<command, process, output>>
  /\ IF part = "todo" THEN Todo!Next ELSE UNCHANGED <<todos, tx, writes, sent, count>>
  /\ IF part = "errand" THEN Errand!Next ELSE UNCHANGED <<errand, child, pipe, said, shown>>
  /\ IF part = "web" THEN Web!Next ELSE UNCHANGED <<clock, cache, fetch>>
  /\ IF part = "guard" THEN Guard!Next ELSE UNCHANGED <<guard, chat>>
  /\ IF part = "hooks" THEN Hooks!Next ELSE UNCHANGED <<host, hooks, event, heard>>
  /\ IF part = "work" THEN Work!Next
     ELSE UNCHANGED <<rows, minted, task, work, titler, cutter, ui, title>>
  /\ IF part = "shadow" THEN Shadow!Next ELSE UNCHANGED <<usable, tree, ignore, repo, snaps, op, day>>
  /\ IF part = "admin" THEN Manager!Next
     ELSE UNCHANGED <<toml, env, proc, providers, engine, admin, promise, ops>>
  /\ IF part = "disc" THEN Disc!Next ELSE UNCHANGED <<defs, skills, built, choice, session, edits>>
  /\ IF part = "fan" THEN Fan!Next
     ELSE UNCHANGED <<tasks, emitted, streams, forwarders, table, closer, exit, seen, app>>
  /\ IF part = "replay" THEN Replay!Next ELSE UNCHANGED <<messages, live, emission, ran, reading, cuts>>
  /\ IF part = "lists" THEN Lists!Next ELSE UNCHANGED <<main, clocks, pager>>
  /\ IF part = "stream" THEN Stream!Next ELSE UNCHANGED <<ask, reply, wire, line, agg, faults>>
  /\ IF part = "reading" THEN Reading!Next ELSE UNCHANGED <<source, reader>>
  /\ IF part = "conf" THEN Conf!Next ELSE UNCHANGED <<layers, config, model>>
  /\ IF part = "batch" THEN Batches!Next ELSE UNCHANGED <<batch, mode, running, results, written>>
  /\ IF part = "scope" THEN Scope!Next ELSE UNCHANGED <<check, shell>>

CoreSpec == CoreInit /\ [][CoreNext /\ UNCHANGED part]_<<part, coreVars>>

(* Properties: what each is about is said where its module states it. -------*)

CoreTypesOK ==
  /\ part = "edits" => Edits!TypeOK
  /\ part = "command" => Command!TypeOK
  /\ part = "todo" => Todo!TypeOK
  /\ part = "errand" => Errand!TypeOK
  /\ part = "web" => Web!TypeOK
  /\ part = "guard" => Guard!TypeOK
  /\ part = "hooks" => Hooks!TypeOK
  /\ part = "work" => Work!TypeOK
  /\ part = "shadow" => Shadow!TypeOK
  /\ part = "admin" => Manager!TypeOK
  /\ part = "disc" => Disc!TypeOK
  /\ part = "fan" => Fan!TypeOK
  /\ part = "replay" => Replay!TypeOK
  /\ part = "lists" => Lists!TypeOK
  /\ part = "stream" => Stream!TypeOK
  /\ part = "reading" => Reading!TypeOK
  /\ part = "conf" => Conf!TypeOK
  /\ part = "batch" => Batches!TypeOK
  /\ part = "scope" => Scope!TypeOK

\* Concurrent edits of one file keep each other's changes, and a call is told of changes
\* from outside; a list of todos is replaced as a whole or not at all
\* (file/edit/filelock.rs, file/tracker.rs, store/todo.rs).
ChangesAreWhole ==
  /\ part = "edits" => Edits!EditsKeepEachOther /\ Edits!ChangesAreTold
  /\ part = "todo" => Todo!ListsAreWhole /\ Todo!IdsAreUnique

\* A command's result is all it wrote, or says that its time was up; a subagent's call shows
\* its child's events between one Started and one Ended and answers with the reply they ended
\* with; the events of a session leave the application whole and in order, those of one life
\* before those of the next; and a reply arrives with its calls, texts and usage as they were
\* sent, however it was cut and mixed (terminal/output.rs, terminal/execute.rs,
\* subagent/handler.rs, app/runtime/app.rs, provider/stream_decoder.rs, sse.rs).
OutputsAreWhole ==
  /\ part = "command" => Command!OutputIsWhole /\ Command!LimitsBind
  /\ part = "errand" => Errand!ViewIsBracketed /\ Errand!AnswerIsTheReply
  /\ part = "fan" => Fan!StreamsAreWhole /\ Fan!DestroyedIsQuiet
  /\ part = "stream" => Stream!ReplyDelivered /\ Stream!NoCrossTalk

\* An answer is the page that was asked for and not too old, an entry of the cache belongs
\* to its address, and the cache stays within its limit and one; a model that follows the hints
\* of a file or a page sees everything once and in order, and an excerpt says how much it left
\* out (web/cache.rs, handler.rs, pagination.rs, file/read/handler.rs, terminal/output.rs).
PagesAreTheirOwn ==
  /\ part = "web" => Web!AnswersAreRecent /\ Web!KeysNameTheirPage
  /\ part = "reading" => Reading!HintsCoverAll /\ Reading!NothingHidden

\* The guard steps in three times at most before it gives up, touches only results of the
\* turn it saw loop, and finds exactly the cycles; whatever a hook does, every hook sees
\* every event that got out once, as it was sent, and none that was blocked
\* (loop_guard/guard.rs, escalation.rs, detectors.rs; hooks/registry.rs, core/dispatch.rs).
PluginsBehave ==
  /\ part = "guard" => Guard!InterventionsBounded /\ Guard!MarksAreRecent /\ Guard!CyclesFound
  /\ part = "hooks" => Hooks!ObservedByAll /\ Hooks!BlockedIsUnseen

\* A summary stands for exactly the rows it was written from, a compression that was shown
\* to begin is shown to end, and the title that is shown is the one stored
\* (core/react/compression.rs, title.rs, session/compressor/summary.rs).
SummariesAndTitlesAreTrue ==
  part = "work" => Work!SummaryCoversRows /\ Work!CompressionReported /\ Work!TitleIsStored

\* A restoration brings every file it touches to the base it was begun with, which is kept
\* till then; and the rows after a base name every file that changed since
\* (snapshot/lib.rs, core/react/turn.rs record_snapshot_row).
SnapshotsRestore ==
  part = "shadow" => Shadow!RestoredToBase /\ Shadow!RowsCoverChanges /\ Shadow!BaseIsKept

\* A key reported as saved is the one in use, through reloads and crashes, where no operation
\* of the manager and no reload overlapped another; a session runs with
\* the definition chosen for it and can load the skills it is offered; and each key of the
\* configuration is what the highest layer says that speaks of it (core/engine/provider_ops.rs,
\* provider/admin/mod.rs, prompt/definitions/query.rs, api/config/loader.rs).
SettingsHold ==
  /\ part = "admin" => Manager!SavedIsUsable
  /\ part = "disc" => Disc!PersonaNeverReplaced /\ Disc!SkillsOfferedLoad /\ Disc!WhatIsNamedIsShown
  /\ part = "conf" => Conf!HighestLayerDecides

\* After a restart the pages show what the live events showed, and the calls of a stored
\* reply are those that ran; and a client that pages through the list of sessions, the last
\* used first, misses none that was left alone (core/history/mod.rs,
\* app/runtime/session_manager.rs, store/session_query.rs).
HistoryIsWhatHappened ==
  /\ part = "replay" => Replay!ReplayIsLive /\ Replay!PagesReplay /\ Replay!StoredIsExecuted
  /\ part = "lists" => Lists!NewestFirst /\ Lists!LeftAloneIsSeen

\* What is judged from the arguments of a call, before anything runs, is so when it runs:
\* calls that may run beside each other do as if in the order of the reply; the check of a
\* command line follows the shell through its changes of directory, and a recursive deletion
\* it lets through stays in the workspace, unless the line has parted the two or a target
\* goes on where the check stops reading (tool_exec/parallel.rs, terminal/safety.rs).
JudgementsHold ==
  /\ part = "batch" => Batches!BatchAsInOrder
  /\ part = "scope" => Scope!FollowsTheShell /\ Scope!DeletesInWorkspace
=============================================================================
