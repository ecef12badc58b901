--------------------------- MODULE RequestPacking ---------------------------
(***************************************************************************)
(* From the rows of a session to the request of a provider: the rows are   *)
(* paired (every call of a tool gets a result), then brought into the shape *)
(* of the protocol.  A session's visible history grows row by row; what a  *)
(* crash, an interrupt, a blocking hook or a compaction left of it may be   *)
(* any sequence of rows.                                                   *)
(***************************************************************************)
EXTENDS Naturals, Sequences, SequencesExt, FiniteSets

CONSTANTS
  CallIds,  \* ids of calls, numbers above 0; 0 is an empty id
  MaxCalls, \* bound: calls of an assistant message
  MaxRows   \* bound: rows of the history

VARIABLE history  \* the visible rows
vars == history

Message(role, text, images, calls, id) ==
  [role |-> role, text |-> text, images |-> images, calls |-> calls, id |-> id]
\* Images are counted after filter_valid_images, which drops those the protocol forbids.
Rows ==
  {Message("user", text, images, <<>>, 0) : text \in BOOLEAN, images \in 0..1}
  \cup {Message("assistant", text, 0, calls, 0) :
          text \in BOOLEAN, calls \in {c \in BoundedSeq(CallIds \cup {0}, MaxCalls) : IsInjective(c)}}
  \cup {Message("tool", TRUE, 0, <<>>, id) : id \in CallIds}
  \cup {Message("system", TRUE, 0, <<>>, 0)}
TypeOK == history \in Seq(Rows) /\ Len(history) <= MaxRows
Init == history = <<>>
Append1(row) == Len(history) < MaxRows /\ history' = Append(history, row)
Next == \E row \in Rows : Append1(row)
Spec == Init /\ [][Next]_vars

(***************************************************************************)
(* Pairing (pair_missing_tool_results)                                     *)
(***************************************************************************)
Answered(h) == {h[i].id : i \in {j \in DOMAIN h : h[j].role = "tool"}}
Placeholder(id) == Message("tool", TRUE, 0, <<>>, id)
\* A row with the placeholders of its unanswered calls behind it.
Completed(answered, row) ==
  LET missing == SelectSeq(row.calls, LAMBDA id : id # 0 /\ id \notin answered)
  IN <<row>> \o [i \in DOMAIN missing |-> Placeholder(missing[i])]
Pair(h) ==
  LET answered == Answered(h) IN FlattenSeq([i \in DOMAIN h |-> Completed(answered, h[i])])
\* build_chat_request: rows that cannot be read are an empty history.
Request(readable) == [messages |-> IF readable THEN Pair(history) ELSE <<>>]

(***************************************************************************)
(* The OpenAI protocol: message by message                                 *)
(***************************************************************************)
OpenAI(messages) ==
  [i \in DOMAIN messages |->
     [role |-> messages[i].role, calls |-> messages[i].calls, id |-> messages[i].id,
      parts |-> IF messages[i].images = 0 THEN 0
                ELSE messages[i].images + IF messages[i].text THEN 1 ELSE 0]]

(***************************************************************************)
(* The Anthropic protocol: messages of two roles made of blocks            *)
(***************************************************************************)
Block(kind, id) == <<[kind |-> kind, id |-> id]>>
String(text) == [plain |-> TRUE, text |-> text, blocks |-> <<>>]
Blocks(blocks) == [plain |-> FALSE, text |-> FALSE, blocks |-> blocks]
IntoBlocks(c) == IF ~c.plain THEN c.blocks ELSE IF c.text THEN Block("text", 0) ELSE <<>>
UserContent(m) ==
  IF m.images = 0 THEN String(m.text) ELSE Blocks(Block("text", 0) \o Block("image", 0))
AssistantContent(m) ==
  IF m.calls = <<>> THEN String(m.text)
  ELSE Blocks(IntoBlocks(String(m.text)) \o
              FlattenSeq([i \in DOMAIN m.calls |-> Block("use", m.calls[i])]))
Content(m) ==
  CASE m.role = "user" -> UserContent(m)
    [] m.role = "assistant" -> AssistantContent(m)
    [] m.role = "tool" -> Blocks(Block("result", m.id))
\* push_message and merge_content: neighbours of one role become one message.
Merged(c, d) ==
  IF c.plain /\ d.plain THEN String(TRUE) ELSE Blocks(IntoBlocks(c) \o IntoBlocks(d))
WireRole(m) == IF m.role = "assistant" THEN "assistant" ELSE "user"
Push(out, m) ==
  IF m.role = "system" THEN out  \* folded into the request's own system text
  ELSE IF out # <<>> /\ Last(out).role = WireRole(m)
  THEN [out EXCEPT ![Len(out)].content = Merged(@, Content(m))]
  ELSE Append(out, [role |-> WireRole(m), content |-> Content(m)])
\* backfill_orphaned_tool_uses: a stub for every use without a result in the message
\* after it, put at its head or into a message of its own.
IdsOf(w, kind) ==
  LET found == SelectSeq(IF w.content.plain THEN <<>> ELSE w.content.blocks, LAMBDA b : b.kind = kind)
  IN [i \in DOMAIN found |-> found[i].id]
Results(w) == ToSet(IdsOf(w, "result"))
Stubs(ids) == FlattenSeq([i \in DOMAIN ids |-> Block("result", ids[i])])
UserNext(out, i) == i < Len(out) /\ out[i + 1].role = "user"
\* Mutant: any message of the user behind them answers all calls.
OrphansAtEnd(out, i) ==
  IF out[i].role = "assistant" /\ ~UserNext(out, i) THEN IdsOf(out[i], "use") ELSE <<>>
Orphans(out, i) ==
  SelectSeq(IF out[i].role = "assistant" THEN IdsOf(out[i], "use") ELSE <<>>,
            LAMBDA id : ~UserNext(out, i) \/ id \notin Results(out[i + 1]))
StubsBefore(out, i) == IF i = 1 THEN <<>> ELSE Stubs(Orphans(out, i - 1))
Filled(out, i) ==
  LET w == IF StubsBefore(out, i) # <<>> /\ out[i].role = "user"
           THEN [out[i] EXCEPT !.content = Blocks(StubsBefore(out, i) \o IntoBlocks(@))] ELSE out[i]
  IN IF Orphans(out, i) # <<>> /\ ~UserNext(out, i)
     THEN <<w, [role |-> "user", content |-> Blocks(Stubs(Orphans(out, i)))]>> ELSE <<w>>
Backfilled(out) == FlattenSeq([i \in DOMAIN out |-> Filled(out, i)])
Anthropic(messages) == LET out == FoldLeft(Push, <<>>, messages) IN Backfilled(out)

(***************************************************************************)
(* Properties                                                              *)
(***************************************************************************)
Wire == Anthropic(Request(TRUE).messages)

\* Whatever the history looks like, the Anthropic request keeps the two rules of its
\* protocol: the roles take turns, and every use of a tool has its result in the very
\* next message, of the user (request.rs:237, 300).
AnthropicAccepts ==
  LET wire == Wire
  IN /\ \A i \in 1 .. Len(wire) - 1 : wire[i].role # wire[i + 1].role
     /\ \A i \in DOMAIN wire : wire[i].role = "assistant" =>
          \A id \in ToSet(IdsOf(wire[i], "use")) : UserNext(wire, i) /\ id \in Results(wire[i + 1])

\* Merging and filling in lose nothing: uses and images are those of the rows, in their
\* order, and the results of the rows are all there beside the stubs.
Parts(w) == SelectSeq(IntoBlocks(w.content), LAMBDA b : b.kind \in {"use", "image"})
RowParts(m) == SelectSeq(IntoBlocks(Content(m)), LAMBDA b : b.kind \in {"use", "image"})
Count(x, s) == Cardinality({i \in DOMAIN s : s[i] = x})
ResultsOf(out) == FlattenSeq([i \in DOMAIN out |-> IdsOf(out[i], "result")])
Spoken == SelectSeq(history, LAMBDA m : m.role # "system")
NothingLost ==
  LET wire == Wire
  IN /\ FlattenSeq([i \in DOMAIN wire |-> Parts(wire[i])]) =
          FlattenSeq([i \in DOMAIN Spoken |-> RowParts(Spoken[i])])
     /\ \A id \in CallIds : Count(id, ResultsOf(wire)) >=
          Cardinality({i \in DOMAIN history : history[i].role = "tool" /\ history[i].id = id})

\* Histories as a session writes them: the results of a batch come right after its
\* message, each at most once, and no id is used twice.
BatchAfter(h, i) == {j \in DOMAIN h : j > i /\ \A k \in i + 1 .. j : h[k].role = "tool"}
Regular(h) ==
  /\ \A i, j \in DOMAIN h : \A m \in DOMAIN h[i].calls, n \in DOMAIN h[j].calls :
       h[i].calls[m] = h[j].calls[n] => i = j /\ m = n
  /\ \A j \in DOMAIN h : h[j].role = "tool" =>
       /\ \E i \in DOMAIN h : j \in BatchAfter(h, i) /\ h[j].id \in ToSet(h[i].calls)
       /\ \A k \in DOMAIN h : h[k].role = "tool" /\ h[k].id = h[j].id => k = j
\* For those the OpenAI request is in order as well: after the message with the calls
\* come exactly its results, one for each, and pairing again changes nothing
\* (provider.rs:127-135).
OpenAIAccepts ==
  Regular(history) =>
    LET wire == OpenAI(Request(TRUE).messages)
    IN /\ \A i \in DOMAIN wire : \A id \in ToSet(wire[i].calls) \ {0} :
            Cardinality({j \in BatchAfter(wire, i) : wire[j].id = id}) = 1
       /\ Pair(Pair(history)) = Pair(history)
============================================================================
