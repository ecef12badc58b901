---------------------------- MODULE SessionLists ----------------------------
(***************************************************************************)
(* The list of sessions (store/session_query.rs, session_manager.rs        *)
(* list_sessions): main sessions, of one workspace or of all, the last     *)
(* active first, a page at a time by offset, while sessions are created,   *)
(* used, forked and deleted.  The items of a page and the total are two    *)
(* queries.                                                                *)
(*                                                                         *)
(* A session is created with a time that has fractions of a second; every  *)
(* message and rollback, and a fork at a message, sets the time of its     *)
(* last activity with unixepoch(), in whole seconds.  External: SQLite     *)
(* lists equals by rowid.                                                  *)
(***************************************************************************)
EXTENDS Naturals, Sequences, FiniteSets

CONSTANTS
  Ticks,        \* ticks of a second
  ListSize,     \* the limit of a page
  Workspace,    \* directories; a session may be of none of them
  MaxSessions,  \* bound: sessions ever created
  MaxTime,      \* bound: ticks
  MaxUses       \* bound: messages and deletions

VARIABLES
  rows,   \* by rowid: [active |-> last_active_at, used |-> when it was really used last,
          \* parent, workspace, gone]
  clock,  \* [now, uses]
  pager   \* a client: [step, filter, offset, shown, calm |-> sessions left alone since the
          \* first page, moved |-> whether something moved up in the list by a change of something else]

vars == <<rows, clock, pager>>

Nowhere == "nowhere"
Any == "any"
Rowids == 1..Len(rows)
Present == {r \in Rowids : ~rows[r].gone}
NoPager == [step |-> "none", filter |-> Any, offset |-> 0, shown |-> {}, calm |-> {}, moved |-> FALSE]
TypeOK ==
  /\ \A r \in Rowids : /\ rows[r].active \in 0..MaxTime /\ rows[r].used \in 0..MaxTime
                       /\ rows[r].parent \in 0..MaxSessions /\ rows[r].gone \in BOOLEAN
                       /\ rows[r].workspace \in Workspace \union {Nowhere}
  /\ clock \in [now : 0..MaxTime, uses : 0..MaxUses]
  /\ pager.step \in {"none", "count", "more", "done"} /\ pager.filter \in Workspace \union {Any}
  /\ pager.offset \in Nat
  /\ pager.shown \union pager.calm \subseteq Rowids /\ pager.moved \in BOOLEAN
Init ==
  /\ rows = <<>> /\ clock = [now |-> 0, uses |-> 0] /\ pager = NoPager

\* unixepoch()
Whole(time) == time - (time % Ticks)

(***************************************************************************)
(* What is listed                                                          *)
(***************************************************************************)
\* WHERE parent_session_id IS NULL AND (?1 IS NULL OR workspace = ?1)
Listed(filter) == {r \in Present : rows[r].parent = 0 /\ filter \in {Any, rows[r].workspace}}
\* ORDER BY last_active_at DESC
Before(r, q) == rows[r].active > rows[q].active \/ (rows[r].active = rows[q].active /\ r < q)
\* the place of a session in the list
Rank(r, filter) == Cardinality({q \in Listed(filter) : Before(q, r)}) + 1
\* LIMIT ?2 OFFSET ?3
PageAt(offset, filter) == {r \in Listed(filter) : Rank(r, filter) \in offset + 1 .. offset + ListSize}
\* count_with_filter
Total(filter) == Cardinality(Listed(filter))

(***************************************************************************)
(* What changes the list                                                   *)
(***************************************************************************)
Added(active, parent, workspace) ==
  /\ Len(rows) < MaxSessions
  /\ rows' = Append(rows, [active |-> active, used |-> clock.now, parent |-> parent,
                           workspace |-> workspace, gone |-> FALSE])
  /\ UNCHANGED <<clock, pager>>
\* new_session; a child has a main session for its parent
Create(parent, workspace) == parent \in Listed(Any) \union {0} /\ Added(clock.now, parent, workspace)
\* fork_to: a new main session of the source's workspace, then set to the second
ForkTo(source) == source \in Present /\ Added(Whole(clock.now), 0, rows[source].workspace)
\* fork_visible: a child of the source's workspace, its time as it was created
ForkVisible(source, parent) ==
  source \in Present /\ parent \in Listed(Any) /\ Added(clock.now, parent, rows[source].workspace)
Counted == clock.uses < MaxUses /\ clock' = [clock EXCEPT !.uses = @ + 1]
Disturbed(r, up) ==
  pager' = [pager EXCEPT !.calm = @ \ {r},
                         !.moved = @ \/ (pager.step # "none" /\ up /\ r \in Listed(pager.filter))]
\* insert_message, rollback_to
Use(r) ==
  /\ r \in Present /\ Counted
  /\ rows' = [rows EXCEPT ![r].active = Whole(clock.now), ![r].used = clock.now]
  /\ Disturbed(r, Whole(clock.now) < rows[r].active)
\* delete: DELETE FROM sessions WHERE id = ?1 OR parent_session_id = ?1
Group(r) == {r} \union {q \in Present : rows[q].parent = r}
Delete(r) ==
  /\ r \in Present /\ Counted
  /\ rows' = [q \in Rowids |-> IF q \in Group(r) THEN [rows[q] EXCEPT !.gone = TRUE] ELSE rows[q]]
  /\ Disturbed(r, TRUE)
Tick ==
  /\ clock.now < MaxTime /\ clock' = [clock EXCEPT !.now = @ + 1] /\ UNCHANGED <<rows, pager>>

(***************************************************************************)
(* A client that reads the pages one after the other                       *)
(***************************************************************************)
\* list_sessions: the items of a page ...
ListItems(filter, offset) ==
  /\ pager' = [pager EXCEPT !.step = "count", !.filter = filter, !.offset = offset,
                            !.shown = @ \union PageAt(offset, filter),
                            !.calm = IF pager.step = "none" THEN Listed(filter) ELSE @]
  /\ UNCHANGED <<rows, clock>>
FirstPage(filter) == pager.step = "none" /\ ListItems(filter, 0)
NextPage == pager.step = "more" /\ ListItems(pager.filter, pager.offset + ListSize)
\* ... and the total of sessions by then
CountAll ==
  /\ pager.step = "count"
  /\ pager' = [pager EXCEPT !.step = IF pager.offset + ListSize < Total(pager.filter) THEN "more" ELSE "done"]
  /\ UNCHANGED <<rows, clock>>
Close == pager.step # "none" /\ pager' = NoPager /\ UNCHANGED <<rows, clock>>

Next ==
  \/ \E parent \in 0..MaxSessions, workspace \in Workspace \union {Nowhere} : Create(parent, workspace)
  \/ \E r \in Rowids : ForkTo(r) \/ Use(r) \/ Delete(r) \/ \E parent \in Rowids : ForkVisible(r, parent)
  \/ \E filter \in Workspace \union {Any} : FirstPage(filter)
  \/ Tick \/ NextPage \/ CountAll \/ Close
Spec == Init /\ [][Next]_vars

(***************************************************************************)
(* Properties                                                              *)
(***************************************************************************)
\* Sessions are listed by their last use, to the second: one used in a later second comes
\* first, whatever wrote the time of either (session_query.rs list_all).
NewestFirst ==
  \A filter \in Workspace \union {Any} : \A r, q \in Listed(filter) :
    Whole(rows[r].used) > Whole(rows[q].used) => Rank(r, filter) < Rank(q, filter)
\* Whoever pages to the end has seen every session that was there and was left alone, although
\* others are created and used meanwhile and the total is another query than the items; only
\* a deletion, or a use in the very second of a session's creation, moves one up and out of
\* sight (session_manager.rs list_sessions).
LeftAloneIsSeen == pager.step = "done" /\ ~pager.moved => pager.calm \subseteq pager.shown
=============================================================================
