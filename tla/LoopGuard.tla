----------------------------- MODULE LoopGuard -----------------------------
(***************************************************************************)
(* The loop guard of one session (crates/fuyao-guard): a plugin that       *)
(* watches tool calls and streamed text for repetition and answers with    *)
(* warnings, replaced tool results, interrupts and, in the end, by giving  *)
(* up.  It acts on the session only through the hooks and its sender; the  *)
(* session here is the part of it that the guard can tell apart.           *)
(***************************************************************************)
EXTENDS Naturals, Sequences, SequencesExt

CONSTANTS
  Call,           \* signatures of tool calls: name and arguments
  RepeatAt,       \* tool_repeat_threshold
  AlternateAt,    \* tool_alternate_threshold
  Spare,          \* calls remembered beyond the window (10 in the code)
  Hits,           \* text_interrupt_hits
  Inbox, Signals, \* capacities of the inbound and of the interrupt channel
  Batch           \* bound: calls in a batch

VARIABLES
  guard,  \* LoopGuardState
  chat    \* the session around it

vars == <<guard, chat>>

Severity == {"Warn", "Inject", "Interrupt", "Abort"}
Score == {"none", "low", "warn", "high"}  \* text_self_similarity against the two thresholds
Phase == {"None", "Content", "Reasoning"}
Window == LET n == IF AlternateAt > 20 THEN 20 ELSE AlternateAt IN n + (n % 2)
TypeOK ==
  /\ guard \in [history : Seq(Call), escalation : 0..3, phase : Phase, hits : 0..Hits,
                warn : BOOLEAN, inject : BOOLEAN, interrupts : 0..3]
  /\ chat \in [turn : BOOLEAN, open : 0..Batch, signals : 0..Signals, inbox : 0..Inbox,
               guided : Nat, alarm : BOOLEAN]
Fresh == [history |-> <<>>, escalation |-> 0, phase |-> "None", hits |-> 0,
          warn |-> FALSE, inject |-> FALSE, interrupts |-> 0]
Init ==
  /\ guard = Fresh
  /\ chat = [turn |-> FALSE, open |-> 0, signals |-> 0, inbox |-> 0, guided |-> 0,
             alarm |-> FALSE]

(***************************************************************************)
(* The detectors                                                           *)
(***************************************************************************)
\* detect_tool_repetition counts the new call.
Repeated(history, c) ==
  /\ Len(history) + 1 >= RepeatAt
  /\ \A i \in Len(history) - RepeatAt + 2 .. Len(history) : history[i] = c
\* detect_tool_sequence_pattern looks at the window before the new call: the shortest
\* pattern that tiles it at least twice.
Recent(history) == SubSeq(history, IF Len(history) > Window THEN Len(history) - Window + 1 ELSE 1,
                          Len(history))
Tiles(s, n) == Len(s) % n = 0 /\ \A i \in 1..Len(s) : s[i] = s[((i - 1) % n) + 1]
Cyclic(history) ==
  LET s == Recent(history)
  IN /\ Len(s) >= 4
     /\ ToSet(s) # {s[1]}
     /\ \E n \in 2 .. Len(s) \div 2 : Tiles(s, n)

\* Mutant: the counted interrupts are not looked at.
ResolveAlways(base, interrupts) == base
\* escalation::resolve
Resolve(base, interrupts) == IF base = "Interrupt" /\ interrupts >= 3 THEN "Abort" ELSE base

(***************************************************************************)
(* Reactions                                                               *)
(***************************************************************************)
Least(a, b) == IF a < b THEN a ELSE b
Marked(g, severity) ==
  CASE severity = "Warn" -> [g EXCEPT !.warn = TRUE]
    [] severity = "Interrupt" -> [g EXCEPT !.inject = TRUE, !.interrupts = @ + 1]
    [] severity \in {"Inject", "Abort"} -> [g EXCEPT !.inject = TRUE]
    [] OTHER -> g
\* apply_severe: both severe reactions send an interrupt, only the lesser one a message
\* that guides the model.  Each of the two is lost when its channel is full.
Sent(ch, severity) ==
  CASE severity = "Interrupt" -> [ch EXCEPT !.signals = Least(@ + 1, Signals), !.guided = @ + 1,
                                            !.inbox = Least(@ + 1, Inbox), !.alarm = TRUE]
    [] severity = "Abort" -> [ch EXCEPT !.signals = Least(@ + 1, Signals), !.alarm = TRUE]
    [] severity \in {"Warn", "Inject"} -> [ch EXCEPT !.alarm = TRUE]
    [] OTHER -> ch

\* ToolLoopGuard.handle_tool_call: every call that does not repeat ends the escalation.
Base(n) == CASE n = 0 -> "None" [] n = 1 -> "Warn" [] n = 2 -> "Inject" [] OTHER -> "Interrupt"
Remember(history, c) ==
  LET h == Append(history, c) IN IF Len(h) > Window + Spare THEN Tail(h) ELSE h
Escalation(g, c) ==
  IF Repeated(g.history, c) \/ Cyclic(g.history) THEN Least(g.escalation + 1, 3) ELSE 0
OnToolCall(c) ==
  LET n == Escalation(guard, c)
      severity == Resolve(Base(n), guard.interrupts)
  IN /\ chat.turn /\ chat.open < Batch
     /\ guard' = Marked([guard EXCEPT !.history = Remember(@, c), !.escalation = n], severity)
     /\ chat' = Sent([chat EXCEPT !.open = @ + 1], severity)

\* TextLoopGuard.handle_chunk: a change of phase starts over; at a point of checking the
\* first hit warns and enough hits in a row, the last of them high, interrupt.
TextSeverity(hits, score) ==
  CASE score = "high" /\ hits >= Hits -> "Interrupt"
    [] hits = 1 -> "Warn"
    [] OTHER -> "None"
\* LoopGuardState.handle_chunk: on this path a warning is only told to the user.
ChunkMark(severity) == IF severity = "Warn" THEN "None" ELSE severity
OnChunk(phase, checked, score) ==
  LET start == IF guard.phase = phase THEN guard.hits ELSE 0
      hits == IF ~checked THEN start
              ELSE IF score \in {"warn", "high"} THEN start + 1 ELSE 0
      severity == IF checked /\ hits > 0
                  THEN Resolve(TextSeverity(hits, score), guard.interrupts) ELSE "None"
  IN /\ chat.turn /\ chat.open = 0
     /\ guard' = Marked([guard EXCEPT !.phase = phase, !.hits = Least(hits, Hits)],
                       ChunkMark(severity))
     /\ chat' = Sent(chat, ChunkMark(severity))

\* intercept_tool_result: the first result to come takes the mark.
Intercepted(g) == IF g.inject THEN [g EXCEPT !.inject = FALSE] ELSE [g EXCEPT !.warn = FALSE]
OnToolResult ==
  /\ chat.open > 0 /\ chat' = [chat EXCEPT !.open = @ - 1] /\ guard' = Intercepted(guard)

(***************************************************************************)
(* The session                                                             *)
(***************************************************************************)
\* Mutant: what is prepared survives a message that is not the user's.
ClearedForUser(g, source) == IF source = "User" THEN Fresh ELSE g
\* make_output_observe: a message of the user resets the guard, one of a plugin or of
\* the system only takes the marks away.  Messages are consumed between two batches.
Cleared(g, source) ==
  IF source = "User" THEN Fresh ELSE [g EXCEPT !.warn = FALSE, !.inject = FALSE]
Hear(source) ==
  /\ chat.open = 0 /\ guard' = Cleared(guard, source)
  /\ \/ source = "User" /\ chat' = [chat EXCEPT !.turn = TRUE, !.alarm = FALSE, !.guided = 0]
     \/ /\ source = "Plugin" /\ chat.inbox > 0
        /\ chat' = [chat EXCEPT !.turn = TRUE, !.alarm = FALSE, !.inbox = @ - 1]
\* A turn ends by itself or at a signal; one that nobody takes stays in the channel.
TurnEnds ==
  /\ chat.turn /\ chat.open = 0 /\ UNCHANGED guard
  /\ \E signals \in {chat.signals, 0} : chat' = [chat EXCEPT !.turn = FALSE, !.signals = signals]

Next ==
  \/ \E c \in Call : OnToolCall(c)
  \/ \E phase \in Phase \ {"None"}, checked \in BOOLEAN, score \in Score : OnChunk(phase, checked, score)
  \/ OnToolResult
  \/ \E source \in {"User", "Plugin"} : Hear(source)
  \/ TurnEnds
Spec == Init /\ [][Next]_vars

(***************************************************************************)
(* Properties                                                              *)
(***************************************************************************)
\* The guard does not keep a looping session alive: between two messages of the user it
\* guides the model at most three times, from whichever of its detectors, and every
\* severe reaction after that ends the turn for good (escalation.rs resolve).
InterventionsBounded == chat.guided <= 3 /\ guard.interrupts = chat.guided

\* A result is changed only for a repetition seen since the last message of anybody:
\* what was prepared for a turn that was interrupted never reaches the next one
\* (guard.rs clear_pending, reset_turn).
MarksAreRecent == (guard.warn \/ guard.inject) => chat.alarm

\* The sequence detector against what it is for: it reports exactly the windows that are
\* whole repetitions of a shorter sequence of calls that are not all the same.
Periodic(s) ==
  /\ \E i, j \in DOMAIN s : s[i] # s[j]
  /\ \E n \in DOMAIN s : n < Len(s) /\ Len(s) % n = 0 /\ \A i \in 1 .. Len(s) - n : s[i] = s[i + n]
CyclesFound == Cyclic(guard.history) <=> Periodic(Recent(guard.history))
============================================================================
