---------------------------- MODULE ReplyStream ----------------------------
(***************************************************************************)
(* One request to a provider and its streamed reply (crates/fuyao-provider): *)
(* the refusals and their classes, the wait before a retry, the lines of    *)
(* the event stream as they are cut out of packets, the decoders of the two *)
(* protocols, and the aggregator that puts text, calls and usage together.  *)
(* A line carries one event at most.  The order in which calls are handed   *)
(* out, that of their ids, is left out: nothing here depends on it.         *)
(***************************************************************************)
EXTENDS Naturals, Sequences, FiniteSets

CONSTANTS
  CallIds,    \* ids of calls, numbers above 0; 0 is a missing id
  MaxBlocks,  \* bound: blocks of a reply
  Pieces,     \* pieces in which a block arrives
  MaxRetries, \* llm.retry.max_retries
  Initial, Cap, HeaderCap,  \* llm.retry: initial_delay_ms and the two upper limits
  MaxFaults   \* bound: damaged lines

VARIABLES
  ask,    \* the request: its protocol, what became of it, retries and the last wait
  reply,  \* the blocks the model answers with
  wire,   \* how far the server is with its lines, and the line that is half there
  line,   \* AnthropicStreamDecoder
  agg,    \* StreamAggregator, with the text gathered beside it
  faults  \* lines lost, an error sent or a reply cut short in this attempt

vars == <<ask, reply, wire, line, agg, faults>>

Text == [id |-> 0, tool |-> FALSE]
Tool(id) == [id |-> id, tool |-> TRUE]
Replies ==
  {r \in UNION {[1..n -> {Text} \cup {Tool(id) : id \in CallIds \cup {0}}] : n \in 0..MaxBlocks} :
     \A b, c \in DOMAIN r : b # c /\ r[b].id # 0 => r[b].id # r[c].id}
\* The three buckets of the input and the output; OpenAI counts all input as one.
Usage == [input |-> 1, read |-> 2, made |-> 4, output |-> 8]
NoUsage == [prompt |-> 0, cached |-> 0, completion |-> 0]
Total == [prompt |-> Usage.input + Usage.read + Usage.made, cached |-> Usage.read,
          completion |-> Usage.output]
NoLine == [block |-> 0, part |-> 0]

(***************************************************************************)
(* Refusals and retries                                                    *)
(***************************************************************************)
\* classify_http_error of the two protocols and execute: what went wrong, from the
\* status of the response and the words in its body.
Refusals == [status : {400, 401, 413, 429, 500}, overflow : BOOLEAN, after : {0, 1, HeaderCap + 1}]
              \cup [status : {0}, overflow : {FALSE}, after : {0}]
Class(protocol, r) ==
  CASE r.status = 0 -> "Timeout"      \* or Connection
    [] r.status = 401 -> "AuthError"
    [] r.status = 413 -> "ContextOverflow"
    [] r.status = 429 -> "RateLimit"
    [] r.overflow /\ (protocol = "openai" \/ r.status = 400) -> "ContextOverflow"
    [] r.status = 400 -> "ClientError"
    [] OTHER -> "ServerError"
Retryable(class) == class \in {"Timeout", "RateLimit", "ServerError"}
\* backoff_duration: the time the server names, or doubling waits up to a limit.
Least(a, b) == IF a < b THEN a ELSE b
Wait(protocol, r, retry) ==
  LET class == Class(protocol, r)
  IN IF class = "RateLimit" /\ protocol = "openai" /\ r.after > 0 THEN Least(r.after, HeaderCap)
     ELSE Least(Initial * 2 ^ (retry - 1), IF class = "Timeout" THEN Cap ELSE HeaderCap)

Steps == {"asked", "open", "ended", "failed"}
TypeOK ==
  /\ ask \in [protocol : {"openai", "anthropic"}, step : Steps, retries : 0..MaxRetries,
              wait : 0..HeaderCap]
  /\ reply \in Replies
  /\ wire \in [lead : BOOLEAN, at : [DOMAIN reply -> 0..Pieces + 1], trail : 0..2,
               half : [block : Nat, part : Nat]]
  /\ line \in [map : UNION {[S -> 0..MaxBlocks] : S \in SUBSET DOMAIN reply},
               next : 0..MaxBlocks, input : BOOLEAN, output : BOOLEAN]
  /\ DOMAIN agg.calls \subseteq 0..MaxBlocks
  /\ faults \in [damaged : 0..MaxFaults, cut : BOOLEAN]

NoLines == [lead |-> FALSE, at |-> [b \in DOMAIN reply |-> 0], trail |-> 0, half |-> NoLine]
Decoder == [map |-> <<>>, next |-> 0, input |-> FALSE, output |-> FALSE]
Aggregator == [calls |-> <<>>, text |-> <<>>, usage |-> NoUsage]
Init ==
  /\ ask \in [protocol : {"openai", "anthropic"}, step : {"asked"}, retries : {0}, wait : {0}]
  /\ reply \in Replies
  /\ wire = NoLines /\ line = Decoder /\ agg = Aggregator
  /\ faults = [damaged |-> 0, cut |-> FALSE]

(***************************************************************************)
(* The request (retry.rs, http.rs execute)                                 *)
(***************************************************************************)
ReplyRefused ==
  /\ ask.step = "asked"
  /\ \E r \in Refusals :
       ask' = IF Retryable(Class(ask.protocol, r)) /\ ask.retries < MaxRetries
              THEN [ask EXCEPT !.retries = @ + 1, !.wait = Wait(ask.protocol, r, ask.retries + 1)]
              ELSE [ask EXCEPT !.step = "failed"]
  /\ UNCHANGED <<reply, wire, line, agg, faults>>
Accepted ==
  /\ ask.step = "asked" /\ ask' = [ask EXCEPT !.step = "open"]
  /\ UNCHANGED <<reply, wire, line, agg, faults>>

\* Silence on the stream counts as a time-out: the attempt is over and everything is
\* read anew by the next one.  An error in reading the bytes, or one that an Anthropic
\* server sends, is not retried.
Stalled ==
  /\ ask.step = "open"
  /\ IF ask.retries < MaxRetries
     THEN /\ ask' = [ask EXCEPT !.step = "asked", !.retries = @ + 1,
                               !.wait = Least(Initial * 2 ^ ask.retries, Cap)]
          /\ wire' = NoLines /\ line' = Decoder /\ agg' = Aggregator
          /\ faults' = [damaged |-> 0, cut |-> FALSE]
     ELSE ask' = [ask EXCEPT !.step = "failed"] /\ UNCHANGED <<wire, line, agg, faults>>
  /\ UNCHANGED reply
ReadFails ==
  /\ ask.step = "open" /\ ask' = [ask EXCEPT !.step = "failed"]
  /\ UNCHANGED <<reply, wire, line, agg, faults>>
\* An OpenAI decoder sees no choices in an error and passes over it.
ErrorSent ==
  /\ ask.step = "open" /\ wire.half = NoLine
  /\ ask' = IF ask.protocol = "anthropic" THEN [ask EXCEPT !.step = "failed"] ELSE ask
  /\ faults' = [faults EXCEPT !.cut = TRUE]
  /\ UNCHANGED <<reply, wire, line, agg>>

(***************************************************************************)
(* The server (external).  Part 0 of a block opens it and the others carry *)
(* its pieces; the parts 1, 2 and 3 of block 0 are the line at the head of *)
(* the stream and the two at its end.                                      *)
(***************************************************************************)
AllSent == \A b \in DOMAIN reply : wire.at[b] = Pieces + 1
\* Anthropic sends one block after the other, OpenAI calls side by side.
Due(b) ==
  /\ wire.at[b] <= Pieces
  /\ ask.protocol = "anthropic" => \A c \in 1..b - 1 : wire.at[c] = Pieces + 1
NextLines ==
  IF ~wire.lead THEN {[block |-> 0, part |-> 1]}
  ELSE IF AllSent THEN IF wire.trail < 2 THEN {[block |-> 0, part |-> wire.trail + 2]} ELSE {}
  ELSE {[block |-> b, part |-> wire.at[b]] : b \in {c \in DOMAIN reply : Due(c)}}
Sent(l) ==
  IF l.block > 0 THEN [wire EXCEPT !.at[l.block] = @ + 1, !.half = NoLine]
  ELSE [wire EXCEPT !.lead = TRUE, !.trail = l.part - 1, !.half = NoLine]

(***************************************************************************)
(* Decoding                                                                *)
(***************************************************************************)
Silence == [kind |-> "none"]
Chunk(index, id, args) == [kind |-> "call", index |-> index, id |-> id, args |-> args]
Delta(piece) == [kind |-> "text", piece |-> piece]
Done(usage) == [kind |-> "done", usage |-> usage]
\* f with x at k, whether k is new to it or not
With(f, k, x) == [i \in DOMAIN f \cup {k} |-> IF i = k THEN x ELSE f[i]]
\* extract_stream_events: the server numbers its calls; the usage comes last, alone.
ToolsBefore(b) == Cardinality({c \in 1..b - 1 : reply[c].tool})
OpenAIEvent(l) ==
  CASE l.block > 0 /\ reply[l.block].tool /\ l.part = 0 ->
         IF reply[l.block].id = 0 THEN Silence ELSE Chunk(ToolsBefore(l.block), reply[l.block].id, <<>>)
    [] l.block > 0 /\ reply[l.block].tool /\ l.part > 0 ->
         Chunk(ToolsBefore(l.block), 0, <<<<l.block, l.part>>>>)
    [] l.block > 0 /\ ~reply[l.block].tool /\ l.part > 0 -> Delta(<<l.block, l.part>>)
    [] l.block = 0 /\ l.part = 2 -> Done(NoUsage)
    [] l.block = 0 /\ l.part = 3 -> Done(Total)
    [] OTHER -> Silence
\* AnthropicStreamDecoder: calls are numbered as they begin, the pieces name their block.
Learned(l) ==
  CASE l.block = 0 /\ l.part = 1 -> [line EXCEPT !.input = TRUE]
    [] l.block = 0 /\ l.part = 2 -> [line EXCEPT !.output = TRUE]
    [] l.block > 0 /\ l.part = 0 /\ reply[l.block].tool ->
         [line EXCEPT !.map = With(@, l.block, line.next), !.next = @ + 1]
    [] OTHER -> line
Known == [prompt |-> IF line.input THEN Total.prompt ELSE 0,
          cached |-> IF line.input THEN Total.cached ELSE 0,
          completion |-> IF line.output THEN Total.completion ELSE 0]
AnthropicEvent(l) ==
  CASE l.block > 0 /\ reply[l.block].tool /\ l.part = 0 -> Chunk(line.next, reply[l.block].id, <<>>)
    [] l.block > 0 /\ reply[l.block].tool /\ l.part > 0 ->
         IF l.block \in DOMAIN line.map THEN Chunk(line.map[l.block], 0, <<<<l.block, l.part>>>>)
                                        ELSE Silence
    [] l.block > 0 /\ ~reply[l.block].tool /\ l.part > 0 -> Delta(<<l.block, l.part>>)
    [] l.block = 0 /\ l.part = 3 -> Done(Known)
    [] OTHER -> Silence

NoCall == [id |-> 0, args |-> <<>>]
\* StreamAggregator.process: an entry for each index, filled as its parts come.
Entry(calls, index) == IF index \in DOMAIN calls THEN calls[index] ELSE NoCall
Newer(old, new) == IF new > 0 THEN new ELSE old
Filled(c, e) == [id |-> Newer(c.id, e.id), args |-> c.args \o e.args]
Counted(u, v) ==
  [prompt |-> Newer(u.prompt, v.prompt), cached |-> Newer(u.cached, v.cached),
   completion |-> Newer(u.completion, v.completion)]
Processed(e) ==
  CASE e.kind = "text" -> [agg EXCEPT !.text = Append(@, e.piece)]
    [] e.kind = "call" -> [agg EXCEPT !.calls = With(@, e.index, Filled(Entry(@, e.index), e))]
    [] e.kind = "done" -> [agg EXCEPT !.usage = Counted(@, e.usage)]
    [] e.kind = "none" -> agg
\* take_tool_calls and peek_tool_calls: the entries that have an id
Valid == {i \in DOMAIN agg.calls : agg.calls[i].id # 0}

\* A packet may end within a line: the assembler keeps the part for the next packet.
\* A line whose JSON does not parse is passed over.
Half(l) ==
  /\ ask.step = "open" /\ wire.half = NoLine /\ l \in NextLines
  /\ wire' = [wire EXCEPT !.half = l]
  /\ UNCHANGED <<ask, reply, line, agg, faults>>
Arrives(l, damaged) ==
  /\ ask.step = "open" /\ l \in IF wire.half = NoLine THEN NextLines ELSE {wire.half}
  /\ wire' = Sent(l)
  /\ IF damaged
     THEN /\ faults.damaged < MaxFaults /\ faults' = [faults EXCEPT !.damaged = @ + 1]
          /\ UNCHANGED <<line, agg>>
     ELSE /\ UNCHANGED faults
          /\ IF ask.protocol = "openai" THEN agg' = Processed(OpenAIEvent(l)) /\ UNCHANGED line
             ELSE agg' = Processed(AnthropicEvent(l)) /\ line' = Learned(l)
  /\ UNCHANGED <<ask, reply>>
\* The bytes end: whatever has come is the reply, the rest of a line is dropped.
Ends ==
  /\ ask.step = "open" /\ ask' = [ask EXCEPT !.step = "ended"]
  /\ faults' = [faults EXCEPT !.cut = @ \/ NextLines # {}]
  /\ UNCHANGED <<reply, wire, line, agg>>

Next ==
  \/ ReplyRefused \/ Accepted \/ Stalled \/ ReadFails \/ ErrorSent \/ Ends
  \/ \E l \in NextLines \cup {wire.half} : Half(l) \/ \E damaged \in BOOLEAN : Arrives(l, damaged)
Spec == Init /\ [][Next]_vars

\* The decoders of a reply that comes as a whole (chat): a call for every block of a tool,
\* one without an id is given a new one by the Anthropic side.
Tools == {b \in DOMAIN reply : reply[b].tool}
Whole(b) ==
  [id |-> IF reply[b].id = 0 /\ ask.protocol = "anthropic" THEN "new" ELSE reply[b].id,
   args |-> [n \in 1..Pieces |-> <<b, n>>]]

(***************************************************************************)
(* Properties                                                              *)
(***************************************************************************)
\* A reply that came through unharmed is handed out whole, whatever packets it was cut
\* into, in whatever order its calls were mixed and however many attempts came before:
\* every call that had an id with its own pieces in order, the same ones a reply in one
\* piece gives; all the text; and the usage.
ReplyDelivered ==
  ask.step = "ended" /\ ~faults.cut /\ faults.damaged = 0 =>
    /\ {agg.calls[i] : i \in Valid} = {Whole(b) : b \in {c \in Tools : reply[c].id # 0}}
    /\ {agg.text[i] : i \in DOMAIN agg.text} = (DOMAIN reply \ Tools) \X (1..Pieces)
    /\ agg.usage = Total

\* Also of a reply with lines lost, or one read in the middle (an interrupt peeks): no
\* call holds a piece of another or pieces out of order, and no call is there twice.
NoCrossTalk ==
  \A i \in Valid :
    LET c == agg.calls[i] IN
    /\ \A j \in Valid : i # j => c.id # agg.calls[j].id
    /\ \A n \in DOMAIN c.args :
         /\ reply[c.args[n][1]].id = c.id
         /\ n > 1 => c.args[n - 1][2] < c.args[n][2]
=============================================================================
