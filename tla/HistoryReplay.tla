---------------------------- MODULE HistoryReplay ----------------------------
(* From events to rows and back: fuyao-core history/mod.rs and images.rs, the *)
(* payloads of react/builders.rs and interrupt.rs, handle_tool_calls of       *)
(* react/turn.rs, and the pages of events of fuyao-app (list_events).  A user *)
(* interface draws a conversation from the live events, or after a restart    *)
(* from the pages; both should look the same.  The session task emits one     *)
(* event at a time (hook, row, delivery), while the interface reads pages     *)
(* backwards and may cut the history of an idle session in between.           *)
(*                                                                            *)
(* Texts, arguments and pictures are values from small sets; of what a hook   *)
(* may change, the text and the arguments of a call are.  What has no column  *)
(* (mode, source, client_message_id, total_tokens) and the counts of tokens   *)
(* are not compared.  A hook changes calls one by one and not in the whole    *)
(* reply, as the comment on handle_tool_calls asks it to.                     *)
(*                                                                            *)
(* Bounds: MaxRows rows, MaxCalls calls of one reply, MaxCuts cuts.           *)
EXTENDS Integers, Sequences

CONSTANTS
  PageSize,        \* the limit of a page, one at least
  Compresses,      \* image.compress
  MaxRows, MaxCalls, MaxCuts

VARIABLES
  rows,  \* the messages of the session, by seq
  live,  \* the events the interface was sent and, having a seq, can place in the history
  pipe,  \* what the task is at: [step, said, left, kept, due, event]
  ran,   \* per row of a reply the calls the task acted on
  page,  \* the pages read so far: [more, cursor, view]
  cuts

vars == <<rows, live, pipe, ran, page, cuts>>

\* None is what is absent, Empty the empty text
None == "none"
Empty == "empty"
OrNone(text) == IF text = Empty THEN None ELSE text
OrEmpty(text) == IF text = None THEN Empty ELSE text

ToolCall == [id : {"a", "b"}, name : {"n"}, args : {"ok", "broken", "other", "null"}]
Event(kind, text) ==
  [kind |-> kind, seq |-> 0, text |-> text, think |-> None, calls |-> << >>, images |-> << >>,
   finish |-> None, reason |-> None, tool_call_id |-> None, tool_name |-> None]
Message(role, text) ==
  [role |-> role, kind |-> "message", seq |-> 0, text |-> text, reasoning |-> None,
   tool_calls |-> << >>, images |-> << >>, finish |-> None, tool_call_id |-> None, tool_name |-> None]

\* the task between two events, with the calls whose results are still due
Rest(due) ==
  [step |-> IF due = {} THEN "idle" ELSE "run", said |-> [text |-> Empty, think |-> Empty],
   left |-> << >>, kept |-> << >>, due |-> due, event |-> Event("none", None)]

TypeOK ==
  /\ Len(rows) <= MaxRows
  /\ \A i \in DOMAIN rows :
       /\ rows[i].seq = i /\ rows[i].role \in {"user", "assistant", "tool"}
       /\ rows[i].kind \in {"message", "compaction"}
  /\ pipe.step \in {"idle", "calls", "save", "deliver", "run"}
  /\ pipe.left \in Seq(ToolCall) /\ pipe.kept \in Seq(ToolCall) /\ pipe.due \subseteq ToolCall
  /\ DOMAIN ran = DOMAIN rows
  /\ page.more \in BOOLEAN /\ page.cursor \in 0 .. MaxRows
  /\ cuts \in 0 .. MaxCuts

Init ==
  /\ rows = << >>
  /\ live = {}
  /\ pipe = Rest({})
  /\ ran = << >>
  /\ page = [more |-> FALSE, cursor |-> 0, view |-> << >>]
  /\ cuts = 0

(* Payloads ------------------------------------------------------------------*)

\* normalize_image: a data URL becomes bare; small enough, or made so, or not ("broken");
\* left alone without compress
Bare(img) == IF img = "url" THEN "small" ELSE img
Normalized(img) == IF Bare(img) = "small" \/ ~Compresses THEN Bare(img) ELSE "jpeg"
Fails(img) == Compresses /\ img = "broken"

\* normalize_images: those that are kept, and whether one failed
Kept(imgs) == LET ok == SelectSeq(imgs, LAMBDA i : ~Fails(i)) IN [i \in DOMAIN ok |-> Normalized(ok[i])]
Failed(imgs) == \E i \in DOMAIN imgs : Fails(imgs[i])

\* append_placeholder
WithPlaceholder(text) == IF text = Empty THEN "placeholder" ELSE "text+placeholder"

\* inject_user_messages: what became of the pictures is in the event before the hooks
UserEvent(text, imgs) ==
  [Event("user", IF Failed(imgs) THEN WithPlaceholder(text) ELSE text) EXCEPT !.images = Kept(imgs)]

\* arguments that are no JSON become null, on either way
Parsed(args) == IF args = "broken" THEN "null" ELSE args
ParsedCall(c) == [id |-> c.id, name |-> c.name, args |-> Parsed(c.args)]
ParsedCalls(cs) == [i \in DOMAIN cs |-> ParsedCall(cs[i])]

\* assistant_payload
ReplyEvent(said, cs) ==
  [Event("assistant", OrNone(said.text)) EXCEPT
     !.think = OrNone(said.think), !.calls = ParsedCalls(cs),
     !.finish = IF cs = << >> THEN "stop" ELSE "tool_calls"]

\* interrupted_assistant_payload, with the calls that are valid
InterruptedEvent(said, valid) ==
  [Event("assistant", OrNone(said.text)) EXCEPT
     !.think = OrNone(said.think), !.calls = ParsedCalls(valid), !.finish = "interrupted"]

ResultEvent(c, text) ==
  [Event("result", text) EXCEPT !.tool_call_id = c.id, !.tool_name = c.name]

CompressionEnded(reason, text, think, seq) ==
  [Event("compression", text) EXCEPT !.seq = seq, !.think = think, !.reason = reason]

(* event_to_message and message_to_event -------------------------------------*)

UserMessage(e) == [Message("user", e.text) EXCEPT !.images = e.images]

\* a reply with neither text nor calls gets an empty text
AssistantMessage(e) ==
  [Message("assistant", IF e.calls = << >> THEN OrEmpty(e.text) ELSE e.text) EXCEPT
     !.reasoning = e.think, !.tool_calls = e.calls, !.finish = e.finish]

ToolMessage(e) ==
  [Message("tool", e.text) EXCEPT !.tool_call_id = e.tool_call_id, !.tool_name = e.tool_name]

ToMessage(e) ==
  CASE e.kind = "user" -> UserMessage(e)
    [] e.kind = "assistant" -> AssistantMessage(e)
    [] e.kind = "result" -> ToolMessage(e)

\* mark_compaction: an assistant row of kind compaction, its reason in tool_name
CompactionMessage(reason, text, think) ==
  [Message("assistant", text) EXCEPT !.kind = "compaction", !.reasoning = think, !.tool_name = reason]

\* parse_compaction_reason
Reason(tool_name) == IF tool_name \in {"auto", "manual", "overflow"} THEN tool_name ELSE "auto"

\* what a row has in common with the event of its role
Replayed(m, kind) == [Event(kind, OrEmpty(m.text)) EXCEPT !.seq = m.seq]

ToAssistant(m) ==
  [Event("assistant", m.text) EXCEPT
     !.seq = m.seq, !.think = m.reasoning, !.calls = ParsedCalls(m.tool_calls), !.finish = m.finish]
ToUser(m) == [Replayed(m, "user") EXCEPT !.images = m.images]
ToResult(m) ==
  [Replayed(m, "result") EXCEPT !.tool_call_id = OrEmpty(m.tool_call_id), !.tool_name = OrEmpty(m.tool_name)]
ToCompression(m) == CompressionEnded(Reason(m.tool_name), OrEmpty(m.text), m.reasoning, m.seq)

\* Mutant: the role decides and the kind does not.
ByRole(m) ==
  CASE m.role = "user" -> ToUser(m) [] m.role = "assistant" -> ToAssistant(m) [] m.role = "tool" -> ToResult(m)

\* message_to_event: the kind decides before the role does
ToEvent(m) ==
  CASE m.kind = "compaction" -> ToCompression(m)
    [] m.kind = "message" /\ m.role = "user" -> ToUser(m)
    [] m.kind = "message" /\ m.role = "assistant" -> ToAssistant(m)
    [] m.kind = "message" /\ m.role = "tool" -> ToResult(m)

\* messages_to_events: the store's order, newest first, is turned round
ToEvents(ms) == [i \in DOMAIN ms |-> ToEvent(ms[Len(ms) + 1 - i])]

(* The session task ----------------------------------------------------------*)

\* emit_inner begins: a hook lets the event pass, gives it another text or blocks it, after
\* which nothing remains of it; the calls in due get their results all the same
Emit(e, kept, due) ==
  /\ Len(rows) < MaxRows
  /\ \/ \E text \in {e.text, Empty, "changed"} :
          pipe' = [Rest(due) EXCEPT !.step = "save", !.kept = kept, !.event = [e EXCEPT !.text = text]]
     \/ pipe' = Rest(due)
  /\ UNCHANGED <<rows, live, ran, page, cuts>>

User(text, imgs) == pipe.step = "idle" /\ Emit(UserEvent(text, imgs), << >>, {})

\* a reply is complete: its calls, if any, pass the hooks first, one by one
Reply(said, cs) ==
  /\ pipe.step = "idle" /\ Len(rows) < MaxRows
  /\ pipe' = [pipe EXCEPT !.step = "calls", !.said = said, !.left = cs]
  /\ UNCHANGED <<rows, live, ran, page, cuts>>

\* handle_tool_calls, step 1: a call passes, with its arguments or others, or is left out
PassCall ==
  /\ pipe.step = "calls" /\ pipe.left # << >>
  /\ \E kept \in {pipe.kept} \cup
          {Append(pipe.kept, [ParsedCall(Head(pipe.left)) EXCEPT !.args = a]) :
             a \in {Parsed(Head(pipe.left).args), "other"}} :
       pipe' = [pipe EXCEPT !.left = Tail(@), !.kept = kept]
  /\ UNCHANGED <<rows, live, ran, page, cuts>>

\* step 2: the reply is made of what is left, and that is what is executed
Effective ==
  /\ pipe.step = "calls" /\ pipe.left = << >>
  /\ Emit(ReplyEvent(pipe.said, pipe.kept), pipe.kept, {pipe.kept[i] : i \in DOMAIN pipe.kept})

\* finish_streaming: what there is of a reply cut short, if there is anything, and then a
\* result for each of its calls; one that was cut before its name (nameless) is not valid
\* and left out
Interrupted(said, cs, nameless) ==
  /\ pipe.step = "idle"
  /\ cs # << >> \/ nameless \/ said.text # Empty \/ said.think # Empty
  /\ Emit(InterruptedEvent(said, cs), cs, {cs[i] : i \in DOMAIN cs})

\* the result of a call: its tool's, or that of an interrupt
Result(c, text) ==
  /\ pipe.step = "run" /\ c \in pipe.due
  /\ Emit(ResultEvent(c, text), << >>, pipe.due \ {c})

\* insert_message gives the row its seq, which the event takes over
Save ==
  /\ pipe.step = "save"
  /\ rows' = Append(rows, [ToMessage(pipe.event) EXCEPT !.seq = Len(rows) + 1])
  /\ ran' = Append(ran, pipe.kept)
  /\ pipe' = [pipe EXCEPT !.step = "deliver", !.event.seq = Len(rows) + 1]
  /\ UNCHANGED <<live, page, cuts>>

\* the row cannot be written: a warning, the event is delivered without a seq
SaveFails ==
  /\ pipe.step = "save"
  /\ pipe' = [pipe EXCEPT !.step = "deliver"]
  /\ UNCHANGED <<rows, live, ran, page, cuts>>

Deliver ==
  /\ pipe.step = "deliver"
  /\ live' = IF pipe.event.seq = 0 THEN live ELSE live \cup {pipe.event}
  /\ pipe' = Rest(pipe.due)
  /\ UNCHANGED <<rows, ran, page, cuts>>

\* run_compression: the row first, then the Ended event with the row's seq; only the event
\* passes the hooks, and one they block leaves the row behind
Compress(reason, think) ==
  /\ pipe.step = "idle" /\ rows # << >> /\ Len(rows) < MaxRows
  /\ rows' = Append(rows, [CompactionMessage(reason, "t", think) EXCEPT !.seq = Len(rows) + 1])
  /\ ran' = Append(ran, << >>)
  /\ \/ \E text \in {"t", "changed"} :
          pipe' = [pipe EXCEPT !.step = "deliver",
                               !.event = CompressionEnded(reason, text, think, Len(rows) + 1)]
     \/ UNCHANGED pipe
  /\ UNCHANGED <<live, page, cuts>>

(* The application -----------------------------------------------------------*)

Least(a, b) == IF a < b THEN a ELSE b

\* list_messages_before: at most PageSize rows below the cursor (0: from the end), newest first
Top(cursor) == IF cursor = 0 THEN Len(rows) ELSE Least(cursor - 1, Len(rows))
Below(cursor) == [i \in 1 .. Least(PageSize, Top(cursor)) |-> rows[Top(cursor) + 1 - i]]

\* list_messages and list_events: a full page may have more behind it, and the oldest seq is
\* the cursor of the next; the interface puts what it gets before what it has
Read(cursor, view) ==
  LET ms == Below(cursor) IN
  /\ page' = [more |-> Len(ms) = PageSize,
              cursor |-> IF Len(ms) = PageSize THEN ms[Len(ms)].seq ELSE 0,
              view |-> ToEvents(ms) \o view]
  /\ UNCHANGED <<rows, live, pipe, ran, cuts>>

FirstPage == Read(0, << >>)
NextPage == page.more /\ Read(page.cursor, page.view)

\* a rollback of the idle session to a user's message or a summary; the interface drops what
\* it has from that seq on
CutTarget(m) == m.role = "user" \/ m.kind = "compaction"
CutTo(target) ==
  /\ pipe.step = "idle" /\ cuts < MaxCuts
  /\ target \in DOMAIN rows /\ CutTarget(rows[target])
  /\ rows' = SubSeq(rows, 1, target - 1)
  /\ ran' = SubSeq(ran, 1, target - 1)
  /\ live' = {e \in live : e.seq < target}
  /\ page' = [page EXCEPT !.view = [i \in {j \in DOMAIN @ : @[j].seq < target} |-> @[i]]]
  /\ cuts' = cuts + 1
  /\ UNCHANGED pipe

CallOf(id, args) == [id |-> id, name |-> "n", args |-> args]
CallLists ==
  {cs \in {<< >>, <<CallOf("a", "ok")>>, <<CallOf("a", "broken")>>, <<CallOf("a", "ok"), CallOf("b", "broken")>>} :
     Len(cs) <= MaxCalls}
Said == {[text |-> "t", think |-> Empty], [text |-> Empty, think |-> "t"], [text |-> Empty, think |-> Empty]}

Next ==
  \/ \E text \in {Empty, "t"}, imgs \in {<< >>, <<"url">>, <<"large", "broken">>} : User(text, imgs)
  \/ \E said \in Said, cs \in CallLists :
       Reply(said, cs) \/ \E nameless \in BOOLEAN : Interrupted(said, cs, nameless)
  \/ PassCall \/ Effective
  \/ \E c \in pipe.due : Result(c, "t")
  \/ \E reason \in {"auto", "manual"} : Compress(reason, None)
  \/ Save \/ SaveFails \/ Deliver
  \/ FirstPage \/ NextPage \/ \E target \in DOMAIN rows : CutTo(target)

Spec == Init /\ [][Next]_vars

(* Properties ----------------------------------------------------------------*)

\* An absent and an empty text look the same.
Shown(e) == [e EXCEPT !.text = OrNone(@)]

\* Between two events, what a restart would show of the history is what the live events
\* showed, one for one and under the same seqs; of a compaction, whose event a hook may
\* change or block after its row is written, all but the text.
Told == {e \in live : e.kind # "compression"}
Kinds(kind) == {i \in DOMAIN rows : rows[i].kind = kind}
ReplayIsLive ==
  pipe.step \notin {"save", "deliver"} =>
    /\ {Shown(e) : e \in Told} = {Shown(ToEvent(rows[i])) : i \in Kinds("message")}
    /\ \A e \in live \ Told :
         e.seq \in Kinds("compaction") /\ e = [ToEvent(rows[e.seq]) EXCEPT !.text = e.text]
    /\ \A d, e \in live : d.seq = e.seq => d = e

\* The pages read so far are a stretch of the history without a gap or a repetition.
PagesReplay ==
  \A i \in DOMAIN page.view :
    LET seq == page.view[1].seq + i - 1 IN seq \in DOMAIN rows /\ page.view[i] = ToEvent(rows[seq])

\* A stored reply asks for exactly the calls that were run, with the arguments they were run
\* with, and one cut short for exactly those that were closed.
StoredIsExecuted ==
  \A i \in DOMAIN rows :
    /\ rows[i].finish = "tool_calls" => rows[i].tool_calls = ran[i]
    /\ rows[i].finish \in {"stop", "interrupted"} =>
         /\ Len(rows[i].tool_calls) = Len(ran[i])
         /\ \A k \in DOMAIN ran[i] : rows[i].tool_calls[k].id = ran[i][k].id
==============================================================================
