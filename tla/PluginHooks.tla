---------------------------- MODULE PluginHooks ----------------------------
(***************************************************************************)
(* Plugins and their hooks (crates/fuyao-hooks): factories are collected   *)
(* by the host, each session makes its instances and registers their hooks *)
(* in a table of its own, and every event of the session goes through the  *)
(* intercepting hooks, out, and through the observing hooks.  Hooks may    *)
(* panic, hang or block an event.                                          *)
(***************************************************************************)
EXTENDS Integers, Sequences, FiniteSets, Functions

CONSTANTS
  Plugin,     \* names of plugins
  Priority,   \* priorities a plugin may register its hooks with
  Factories,  \* bound: factories in the host
  Events      \* bound: events that go through the hooks

VARIABLES
  host,    \* PluginHost.plugins: names in the order of their addition
  table,   \* HooksRegistry of the session: the hooks in order of execution
  event,   \* the event on its way through the hooks
  told     \* history: how often each hook has observed or failed, and what it was shown

vars == <<host, table, event, told>>

\* A hook is known by its plugin, its priority and its position of registration.
Hook == [plugin : Plugin, priority : Priority, place : Nat]
NoEvent == [step |-> "none", at |-> 0, marks |-> <<>>, number |-> 0]
TypeOK ==
  /\ host \in Seq(Plugin) /\ table \in [ready : BOOLEAN, hooks : Seq(Hook)]
  /\ event \in [step : {"none", "intercept", "observe", "blocked", "unwound"}, at : Nat,
                marks : Seq(Plugin), number : 0..Events]
  /\ told \in [shown : Seq([hook : Hook, marks : Seq(Plugin)]), sent : Seq(Seq(Plugin))]
Init ==
  /\ host = <<>> /\ table = [ready |-> FALSE, hooks |-> <<>>] /\ event = NoEvent
  /\ told = [shown |-> <<>>, sent |-> <<>>]

\* PluginHost::add does not look at names.
Add(p) ==
  /\ ~table.ready /\ Len(host) < Factories /\ host' = Append(host, p)
  /\ UNCHANGED <<table, event, told>>

\* finalize: by priority, the highest first, and by registration among equals; each hook
\* has as many in front of it as there are before it.
Before(h, k) == h.priority > k.priority \/ (h.priority = k.priority /\ h.place < k.place)
Finalized(hooks) ==
  [i \in 1 .. Cardinality(hooks) |->
     CHOOSE h \in hooks : Cardinality({k \in hooks : Before(k, h)}) = i - 1]
\* validate_unique_names: one name twice, and the session has no hooks at all.
Unique(names) == IsInjective(names)
\* create_instances: those whose creation panics are left out.
Instances == SUBSET DOMAIN host
\* assemble_session_hooks: the hooks of the instances, but for those an instance did not
\* come to register.
Assemble ==
  /\ ~table.ready /\ Len(host) > 0
  /\ \E made \in Instances : \E alive \in SUBSET made : \E priority \in [alive -> Priority] :
       table' = [ready |-> TRUE,
                 hooks |-> IF Unique(host)
                           THEN Finalized({[plugin |-> host[i], priority |-> priority[i], place |-> i] :
                                             i \in alive})
                           ELSE <<>>]
  /\ UNCHANGED <<host, event, told>>

Current == table.hooks[event.at]
\* An event enters the hooks (dispatch, emit_to_history).
Enter ==
  /\ table.ready /\ event.step \in {"none", "blocked"} /\ event.number < Events
  /\ event' = [step |-> "intercept", at |-> 1, marks |-> <<>>, number |-> event.number + 1]
  /\ told' = [shown |-> <<>>, sent |-> <<>>] /\ UNCHANGED <<host, table>>
\* hook_output_intercept: a hook passes, changes or blocks the event; one that panics may
\* have changed it before.
Intercept ==
  /\ event.step = "intercept" /\ event.at <= Len(table.hooks)
  /\ \/ \E changed \in BOOLEAN :
          event' = [event EXCEPT !.at = @ + 1,
                                 !.marks = IF changed THEN Append(@, Current.plugin) ELSE @]
     \/ event' = [event EXCEPT !.step = "blocked"]
  /\ UNCHANGED <<host, table, told>>
\* deliver: the consumer gets a copy, then the observers share the event.
Send ==
  /\ event.step = "intercept" /\ event.at > Len(table.hooks)
  /\ event' = [event EXCEPT !.step = "observe", !.at = 1]
  /\ told' = [told EXCEPT !.sent = Append(@, event.marks)] /\ UNCHANGED <<host, table>>
\* hook_output_observe: the future of a hook is caught when it panics and left when it
\* takes too long.
Observe ==
  /\ event.step = "observe" /\ event.at <= Len(table.hooks)
  /\ event' = [event EXCEPT !.at = @ + 1]
  /\ told' = [told EXCEPT !.shown = Append(@, [hook |-> Current, marks |-> event.marks])]
  /\ UNCHANGED <<host, table>>
\* The call that makes the future is outside of what catches panics: one that panics there
\* unwinds the task of the session.
PanicEarly ==
  /\ event.step = "observe" /\ event.at <= Len(table.hooks)
  /\ event' = [event EXCEPT !.step = "unwound"] /\ UNCHANGED <<host, table, told>>
Done ==
  /\ event.step = "observe" /\ event.at > Len(table.hooks)
  /\ event' = [event EXCEPT !.step = "none", !.at = 0, !.marks = <<>>]
  /\ UNCHANGED <<host, table, told>>

Next ==
  \/ \E p \in Plugin : Add(p)
  \/ Assemble \/ Enter \/ Intercept \/ Send \/ Observe \/ PanicEarly \/ Done
Spec == Init /\ [][Next]_vars

(***************************************************************************)
(* Properties                                                              *)
(***************************************************************************)
\* An event that got out is observed by every hook of the session exactly once, in the
\* order of priority and registration, each of them shown what was sent, whatever the
\* hooks before it did, short of one that unwinds the task (registry.rs:5-14).
ObservedByAll ==
  event.step = "none" /\ event.number > 0 =>
    /\ [i \in DOMAIN told.shown |-> told.shown[i].hook] = table.hooks
    /\ \A i \in 1 .. Len(table.hooks) - 1 : Before(table.hooks[i], table.hooks[i + 1])
    /\ Len(told.sent) = 1 /\ \A i \in DOMAIN told.shown : told.shown[i].marks = told.sent[1]
\* A blocked event is neither sent nor observed (dispatch.rs).
BlockedIsUnseen == event.step = "blocked" => told.sent = <<>> /\ told.shown = <<>>
============================================================================
