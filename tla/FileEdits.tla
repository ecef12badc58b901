----------------------------- MODULE FileEdits -----------------------------
(***************************************************************************)
(* One file under the read, edit and write tools (fuyao-tools/src/file):   *)
(* the sessions of one process, with calls that run at the same time, and  *)
(* somebody else who changes the file outside.  A text is the set of the   *)
(* changes it carries.  fs::write empties the file before it fills it.     *)
(***************************************************************************)
EXTENDS Naturals, FiniteSets

CONSTANTS
  Task,       \* sessions
  Caller,     \* calls at work at the same time
  Spelling,   \* how a call names the file: "full", "short" (relative) or "dotted" (with a "..")
  CwdIsWorkspace,  \* the directory of the process is the workspace
  Cap,        \* READ_TIMESTAMPS_CAP
  MaxChanges  \* bound: changes of the file

VARIABLES
  disk,    \* [text, mtime, torn |-> emptied and not yet filled, clock |-> the time, count]
  stamps,  \* read_timestamps: per session, the modification time under each key
  lock,    \* per key, the call that holds the edit lock, or "free"
  call,    \* per caller, the call it executes
  told     \* per session: "unread", "known", or "news" when the file was changed since while
           \* no call of the session was at work

vars == <<disk, stamps, lock, call, told>>

Kind == {"read", "edit", "write"}
Change == 0..MaxChanges
Idle == [pc |-> "idle", kind |-> "read", task |-> CHOOSE t \in Task : TRUE, name |-> "full",
         base |-> {}, id |-> 0, warned |-> FALSE, meddled |-> FALSE, due |-> {}]
TypeOK ==
  /\ disk \in [text : SUBSET Change, mtime : Nat, torn : BOOLEAN, clock : Nat, count : Change]
  /\ \A t \in Task : DOMAIN stamps[t] \subseteq Spelling /\ Cardinality(DOMAIN stamps[t]) <= Cap
  /\ lock \in [Spelling -> Caller \union {"free"}]
  /\ \A c \in Caller : DOMAIN call[c] = DOMAIN Idle
  /\ told \in [Task -> {"unread", "known", "news"}]
Init ==
  /\ disk = [text |-> {0}, mtime |-> 1, torn |-> FALSE, clock |-> 1, count |-> 0]
  /\ stamps = [t \in Task |-> <<>>]
  /\ lock = [k \in Spelling |-> "free"]
  /\ call = [c \in Caller |-> Idle]
  /\ told = [t \in Task |-> "unread"]

(***************************************************************************)
(* Keys and times                                                          *)
(***************************************************************************)
\* resolve_path makes a name absolute and keeps its "..".
Resolved(name) == IF name = "short" THEN "full" ELSE name
\* expand_tilde leaves a relative name alone: it is looked up from the process.
Visible(name) == name # "short" \/ CwdIsWorkspace
\* TaskData.cap forgets any entries once there are too many.
Keeping(f, keys) == [k \in keys |-> f[k]]
Stamped(f, key) == [k \in DOMAIN f \union {key} |-> IF k = key THEN disk.mtime ELSE f[k]]
Capped(f) ==
  IF Cardinality(DOMAIN f) <= Cap THEN {f}
  ELSE {Keeping(f, keys) : keys \in {s \in SUBSET DOMAIN f : Cardinality(s) = Cap}}
Record(t, key) == \E f \in Capped(Stamped(stamps[t], key)) : stamps' = [stamps EXCEPT ![t] = f]
\* check_file_staleness
Stale(t, name) ==
  Visible(name) /\ name \in DOMAIN stamps[t] /\ stamps[t][name] # disk.mtime

Working(t) == \E c \in Caller : call[c].pc # "idle" /\ call[c].task = t
Changed(text, torn, later) ==
  [disk EXCEPT !.text = text, !.torn = torn, !.mtime = IF later THEN disk.clock + 1 ELSE @,
               !.clock = IF later THEN @ + 1 ELSE @]
\* A change of the file at a later time than the last one is news to the sessions that
\* have no call at work; what happens during a call may go unnoticed.
Heard(later) ==
  [t \in Task |-> IF later /\ told[t] = "known" /\ ~Working(t) THEN "news" ELSE told[t]]

At(c, pc) == call[c].pc = pc
Goto(c, pc) == call' = [call EXCEPT ![c].pc = pc]
\* The names under which a warning is due now.
Due(t) == IF told[t] = "news" /\ ~Working(t) THEN DOMAIN stamps[t] ELSE {}
Begin(c, t, kind, name, pc, id, warned) ==
  /\ At(c, "idle")
  /\ call' = [call EXCEPT ![c] = [Idle EXCEPT !.pc = pc, !.kind = kind, !.task = t, !.name = name,
                                              !.id = id, !.warned = warned, !.due = Due(t)]]
\* What a call saw or did is known to its session from then on.
Ends(c) == call' = [call EXCEPT ![c] = Idle] /\ told' = [told EXCEPT ![call[c].task] = "known"]
Fails(c) == call' = [call EXCEPT ![c] = Idle] /\ UNCHANGED told

(***************************************************************************)
(* read                                                                    *)
(***************************************************************************)
\* record_read comes before the text is read.
BeginRead(c, t, name) ==
  /\ Begin(c, t, "read", name, "reading", 0, FALSE) /\ Record(t, Resolved(name))
  /\ UNCHANGED <<disk, lock, told>>
ReadText(c) ==
  /\ At(c, "reading") /\ Ends(c) /\ UNCHANGED <<disk, stamps, lock>>

(***************************************************************************)
(* edit: apply_replace                                                     *)
(***************************************************************************)
\* The file is known to exist and its age is looked at before the lock is taken, under the
\* name the call was given.
BeginEdit(c, t, name) ==
  /\ disk.count < MaxChanges
  /\ Begin(c, t, "edit", name, "checked", disk.count + 1, Stale(t, name))
  /\ disk' = [disk EXCEPT !.count = @ + 1]
  /\ UNCHANGED <<stamps, lock, told>>
\* Mutant: the lock is not waited for.
TakeLockAnyway(c) ==
  /\ At(c, "checked") /\ lock' = [lock EXCEPT ![Resolved(call[c].name)] = c]
  /\ Goto(c, "locked") /\ UNCHANGED <<disk, stamps, told>>
TakeLock(c) ==
  /\ At(c, "checked") /\ lock[Resolved(call[c].name)] = "free"
  /\ lock' = [lock EXCEPT ![Resolved(call[c].name)] = c]
  /\ Goto(c, "locked") /\ UNCHANGED <<disk, stamps, told>>
Unlocked(c) == [k \in Spelling |-> IF lock[k] = c THEN "free" ELSE lock[k]]
\* The text to replace is looked for in what the file holds now; an empty file has none.
LoadBase(c) ==
  /\ At(c, "locked") /\ disk.text # {} /\ ~disk.torn
  /\ call' = [call EXCEPT ![c].pc = "loaded", ![c].base = disk.text, ![c].meddled = FALSE]
  /\ UNCHANGED <<disk, stamps, lock, told>>
NoMatch(c) ==
  /\ At(c, "locked") /\ lock' = Unlocked(c) /\ Fails(c) /\ UNCHANGED <<disk, stamps>>

(***************************************************************************)
(* write: write_file_impl takes no lock                                    *)
(***************************************************************************)
BeginWrite(c, t, name) ==
  /\ disk.count < MaxChanges
  /\ Begin(c, t, "write", name, "loaded", disk.count + 1, FALSE)
  /\ disk' = [disk EXCEPT !.count = @ + 1]
  /\ UNCHANGED <<stamps, lock, told>>
\* A text that differs only in line ends and mark is not written at all.
Unchanged(c) ==
  /\ At(c, "loaded") /\ call[c].kind = "write" /\ Ends(c) /\ UNCHANGED <<disk, stamps, lock>>

(***************************************************************************)
(* Writing the file, for both                                              *)
(***************************************************************************)
\* Whoever does not hold the lock of this file disturbs the edit that does.
Meddle(c) == [d \in Caller |->
  IF d # c /\ At(d, "loaded") /\ (call[c].kind = "write" \/ Resolved(call[c].name) # Resolved(call[d].name))
  THEN [call[d] EXCEPT !.meddled = TRUE] ELSE call[d]]
Truncate(c, later) ==
  /\ At(c, "loaded")
  /\ disk' = Changed({}, TRUE, later)
  /\ call' = [Meddle(c) EXCEPT ![c].pc = "emptied"]
  /\ told' = Heard(later) /\ UNCHANGED <<stamps, lock>>
Result(c) == IF call[c].kind = "edit" THEN call[c].base \union {call[c].id} ELSE {call[c].id}
Fill(c, later) ==
  /\ At(c, "emptied")
  /\ disk' = Changed(Result(c), FALSE, later)
  /\ lock' = Unlocked(c)
  /\ call' = [Meddle(c) EXCEPT ![c].pc = "written"]
  /\ told' = Heard(later) /\ UNCHANGED stamps
\* fs::write fails: when it opens the file or makes its directory, or with a part of the text
\* in the file.  The lock goes, no time is noted.
CutShort(c, later) ==
  /\ At(c, "emptied")
  /\ \E text \in SUBSET Result(c) : disk' = Changed(text, FALSE, later)
  /\ call' = [Meddle(c) EXCEPT ![c].pc = "failed"]
  /\ told' = Heard(later) /\ UNCHANGED <<stamps, lock>>
WriteFails(c) ==
  /\ At(c, "loaded") \/ At(c, "failed")
  /\ lock' = Unlocked(c) /\ Fails(c) /\ UNCHANGED <<disk, stamps>>
\* update_read_timestamp: an edit passes the name it was given, a write the resolved one.
StampKey(c) == IF call[c].kind = "edit" THEN call[c].name ELSE Resolved(call[c].name)
NoteTime(c) ==
  /\ At(c, "written")
  /\ IF Visible(StampKey(c)) THEN Record(call[c].task, StampKey(c)) ELSE UNCHANGED stamps
  /\ Ends(c) /\ UNCHANGED <<disk, lock>>

\* Somebody else saves the file.
Outside(later) ==
  /\ disk.count < MaxChanges /\ ~disk.torn
  /\ disk' = [Changed({disk.count + 1}, FALSE, later) EXCEPT !.count = disk.count + 1]
  /\ call' = [d \in Caller |-> IF At(d, "loaded") THEN [call[d] EXCEPT !.meddled = TRUE] ELSE call[d]]
  /\ told' = Heard(later) /\ UNCHANGED <<stamps, lock>>

Next ==
  \/ \E c \in Caller, t \in Task, name \in Spelling :
       BeginRead(c, t, name) \/ BeginEdit(c, t, name) \/ BeginWrite(c, t, name)
  \/ \E c \in Caller : ReadText(c) \/ TakeLock(c) \/ LoadBase(c) \/ NoMatch(c) \/ Unchanged(c)
                       \/ WriteFails(c) \/ NoteTime(c)
  \/ \E c \in Caller, later \in BOOLEAN : Truncate(c, later) \/ Fill(c, later) \/ CutShort(c, later)
  \/ \E later \in BOOLEAN : Outside(later)
Spec == Init /\ [][Next]_vars

(***************************************************************************)
(* Properties                                                              *)
(***************************************************************************)
\* Between the reading and the writing of an edit no other edit under a name that resolves
\* to the same path comes in: edits of one file keep each other's changes (filelock.rs
\* with_file_lock).  A write or somebody outside may still be overwritten.
EditsKeepEachOther ==
  \A c \in Caller :
    At(c, "loaded") /\ call[c].kind = "edit" /\ ~call[c].meddled => disk.text = call[c].base /\ ~disk.torn

\* What was done to the file while a session had no call at work is told to the next edit
\* of the session that finds a time under the name it uses (tracker.rs
\* check_file_staleness): no own change, time or eviction hides it.
ChangesAreTold ==
  \A c \in Caller :
    call[c].kind = "edit" /\ call[c].name \in call[c].due /\ Visible(call[c].name) => call[c].warned
=============================================================================
