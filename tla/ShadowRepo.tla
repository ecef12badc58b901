----------------------------- MODULE ShadowRepo ------------------------------
(* The shadow repository of a workspace: fuyao-snapshot's lib.rs and git.rs,  *)
(* the background collection of fuyao-core engine/snapshot_gc.rs, and the     *)
(* rows the session keeps of it (session_manager.rs, resolve_file_impact,     *)
(* preview_rollback).  What FileRollback takes as one step - a tree, a        *)
(* difference, a restoration - is here the row of git commands it is made of, *)
(* each of which can fail, while tools and the user go on writing files.      *)
(*                                                                            *)
(* A file holds a number; Absent is no file.  A tree is a workspace as git    *)
(* saw it.  External: git's own behaviour (what add -A stages, that write-tree *)
(* writes nothing when the index's tree is known, what a prune keeps).        *)
(*                                                                            *)
(* Bounds: MaxDay days, MaxRows rows a session has, MaxEdits edits.           *)
EXTENDS Integers, Sequences, FiniteSets

CONSTANTS
  File, Small, Big,  \* paths (numbers, in their order) and contents, by the size limit
  Session,           \* the sessions in the workspace
  BatchSize,         \* RESTORE_BATCH_FILES
  Expiry,            \* GC_PRUNE_EXPIRY, in days
  MaxDay, MaxRows, MaxEdits

VARIABLES
  enabled, \* the probe found git, and the configuration has snapshots on
  work,    \* the workspace
  ignore,  \* [listed |-> what .gitignore names, oversized |-> what info/exclude names]
  repo,    \* [index, known |-> the index's tree is written, trees |-> the day each was written]
  rows,    \* per session its snapshot rows, by the seq of their messages
  op,      \* who holds the lock, and how far it is
  clock    \* [day, edits]

vars == <<enabled, work, ignore, repo, rows, op, clock>>

Absent == 0
Tree == [File -> Small \cup Big \cup {Absent}]
NoTree == << >>
Empty == [f \in File |-> Absent]
NoOp == [step |-> "none", by |-> "nobody", at |-> 0, prev |-> NoTree, touched |-> {}, left |-> {}, meddled |-> {}]
Stored(t) == t \in DOMAIN repo.trees
Diff(a, b) == {f \in File : a[f] # b[f]}
\* diff_changed_files; a first row has no files
Changed(prev, tree) == IF prev = NoTree THEN {} ELSE Diff(prev, tree)
\* TrackOutcome, and the row made of it
Outcome(tree, files) == [tree |-> tree, files |-> files]
Latest(s) == IF rows[s] = << >> THEN NoTree ELSE rows[s][Len(rows[s])].tree

TypeOK ==
  /\ enabled \in BOOLEAN
  /\ work \in Tree
  /\ ignore \in [listed : SUBSET File, oversized : SUBSET File]
  /\ repo.index \in Tree /\ repo.known \in BOOLEAN
  /\ DOMAIN repo.trees \subseteq Tree
  /\ op.step \in {"none", "add", "write", "diff", "checkout", "delete"}
  /\ \A s \in Session : Len(rows[s]) <= MaxRows
  /\ clock \in [day : 0 .. MaxDay, edits : 0 .. MaxEdits]

Init ==
  /\ enabled \in BOOLEAN
  /\ work \in Tree
  /\ ignore = [listed |-> {}, oversized |-> {}]
  /\ repo = [index |-> Empty, known |-> FALSE, trees |-> << >>]
  /\ rows = [s \in Session |-> << >>]
  /\ op = NoOp
  /\ clock = [day |-> 0, edits |-> 0]

(* track ---------------------------------------------------------------------*)

Untracked == {f \in File : work[f] # Absent /\ repo.index[f] = Absent}
Oversized == {f \in Untracked \ (ignore.listed \cup ignore.oversized) : work[f] \in Big}

\* exclude_oversized_untracked appends; a name is never taken out again
Excluded == ignore.oversized \cup Oversized

\* Mutant: the difference to the tree the repository wrote last, whoever asked for it.
LastWritten(s) == IF repo.known THEN repo.index ELSE Latest(s)

\* record_snapshot_row reads the session's latest row before it waits for the lock; nobody
\* but the session itself would add one
Previous(s) == Latest(s)

\* track, once it has the lock: exclude_oversized_untracked
BeginTrack(s) ==
  /\ enabled /\ op = NoOp /\ Len(rows[s]) < MaxRows
  /\ ignore' = [ignore EXCEPT !.oversized = Excluded]
  /\ op' = [NoOp EXCEPT !.step = "add", !.by = s, !.prev = Previous(s)]
  /\ UNCHANGED <<enabled, work, repo, rows, clock>>

\* add -A: what is tracked is brought up to date even when it is ignored by now
Staged ==
  [f \in File |-> IF f \in Untracked /\ f \in ignore.listed \cup ignore.oversized
                  THEN Absent ELSE work[f]]

StageAll ==
  /\ op.step = "add"
  /\ repo' = [repo EXCEPT !.index = Staged, !.known = @ /\ Staged = repo.index]
  /\ op' = [op EXCEPT !.step = "write"]
  /\ UNCHANGED <<enabled, work, ignore, rows, clock>>

\* git writes the tree, unless it knows it has it: then its date stays what it was
Written ==
  IF repo.known /\ Stored(repo.index) THEN repo.trees
  ELSE [t \in DOMAIN repo.trees \cup {repo.index} |->
          IF t = repo.index THEN clock.day ELSE repo.trees[t]]

WriteTree ==
  /\ op.step = "write"
  /\ repo' = [repo EXCEPT !.known = TRUE, !.trees = Written]
  /\ op' = [op EXCEPT !.step = "diff"]
  /\ UNCHANGED <<enabled, work, ignore, rows, clock>>

\* diff-tree reads both trees.  The row goes into the table after the lock is released: the
\* session itself waits for it.
DiffTree ==
  /\ op.step = "diff"
  /\ op.prev = NoTree \/ Stored(op.prev)
  /\ rows' = [rows EXCEPT ![op.by] = Append(@, Outcome(repo.index, Changed(op.prev, repo.index)))]
  /\ op' = NoOp
  /\ UNCHANGED <<enabled, work, ignore, repo, clock>>

\* a command fails, or the row is not written: a warning, and no row
TrackFails ==
  /\ op.step \in {"add", "write", "diff"}
  /\ op' = NoOp
  /\ UNCHANGED <<enabled, work, ignore, repo, rows, clock>>

(* restore -------------------------------------------------------------------*)

\* resolve_file_impact, for a target whose first row is the i-th: rows beyond the last, none
Impact(s, i, files) ==
  CASE ~files -> "skipped"
    [] files /\ ~enabled -> "unavailable"
    [] files /\ enabled /\ i \notin DOMAIN rows[s] -> "empty"
    [] files /\ enabled /\ i \in DOMAIN rows[s] -> "touch"

\* the base is the tree of the first row, touched what it and the later ones name
Touched(s, i) == UNION {rows[s][j].files : j \in i .. Len(rows[s])}
Base == rows[op.by][op.at].tree

\* classify_touched, and what a preview shows: files of the base, and later ones
InTree(tree) == {f \in File : tree[f] # Absent}
Classified(tree, touched) == [restore |-> touched \cap InTree(tree), delete |-> touched \ InTree(tree)]
Preview(s, i) == Classified(rows[s][i].tree, Touched(s, i))

\* rollback_to takes the rows with the messages; the session is stopped before
Cut(s, i) == [rows EXCEPT ![s] = SubSeq(@, 1, i - 1)]

\* rollback_session leaves the files alone: as it was asked to, without snapshots, or where
\* the rows name none
CutOnly(s, i, files) ==
  /\ i \in DOMAIN rows[s] /\ op.by # s
  /\ \/ Impact(s, i, files) \in {"skipped", "unavailable"}
     \/ Impact(s, i, files) = "touch" /\ Touched(s, i) = {}
  /\ rows' = Cut(s, i)
  /\ UNCHANGED <<enabled, work, ignore, repo, op, clock>>

\* restore, once it has the lock; ls-tree fails when the tree is gone
BeginRestore(s, i) ==
  /\ op = NoOp /\ Impact(s, i, TRUE) = "touch" /\ Touched(s, i) # {} /\ Stored(rows[s][i].tree)
  /\ op' = [NoOp EXCEPT !.step = "checkout", !.by = s, !.at = i, !.touched = Touched(s, i),
                        !.left = Preview(s, i).restore]
  /\ UNCHANGED <<enabled, work, ignore, repo, rows, clock>>

Chunk(fs) == {f \in fs : Cardinality({g \in fs : g < f}) < BatchSize}
FromBase(fs, into) == [f \in File |-> IF f \in fs THEN Base[f] ELSE into[f]]

\* checkout_baseline, a batch: the files and the index, with their directories
Checkout ==
  /\ op.step = "checkout" /\ op.left # {}
  /\ LET batch == Chunk(op.left) IN
       /\ work' = FromBase(batch, work)
       /\ repo' = [repo EXCEPT !.index = FromBase(batch, @), !.known = @ /\ FromBase(batch, repo.index) = repo.index]
       /\ op' = [op EXCEPT !.left = @ \ batch, !.meddled = @ \ batch]
  /\ UNCHANGED <<enabled, ignore, rows, clock>>

CheckedOut ==
  /\ op.step = "checkout" /\ op.left = {}
  /\ op' = [op EXCEPT !.step = "delete", !.left = Classified(Base, op.touched).delete]
  /\ UNCHANGED <<enabled, work, ignore, repo, rows, clock>>

\* delete_outside_baseline, the next file in their order: gone already is fine
Delete(f) ==
  /\ op.step = "delete" /\ f \in op.left /\ \A g \in op.left : f <= g
  /\ work' = [work EXCEPT ![f] = Absent]
  /\ op' = [op EXCEPT !.left = @ \ {f}, !.meddled = @ \ {f}]
  /\ UNCHANGED <<enabled, ignore, repo, rows, clock>>

\* then the messages go, and with them the rows from the target on: after the lock is
\* released, but nobody else touches the rows of a session that is stopped
Restored ==
  /\ op.step = "delete" /\ op.left = {}
  /\ rows' = Cut(op.by, op.at)
  /\ op' = NoOp
  /\ UNCHANGED <<enabled, work, ignore, repo, clock>>

\* some of the files are restored, the messages and the rows all stay
RestoreFails ==
  /\ op.step \in {"checkout", "delete"}
  /\ op' = NoOp
  /\ UNCHANGED <<enabled, work, ignore, repo, rows, clock>>

(* the rest of the world -----------------------------------------------------*)

\* git gc --prune: what the index knows stays, and what was written lately
Reachable(t) == repo.known /\ t = repo.index
Spared == {t \in DOMAIN repo.trees : Reachable(t) \/ clock.day - repo.trees[t] <= Expiry}
Gc ==
  /\ enabled /\ op = NoOp /\ Spared # DOMAIN repo.trees
  /\ repo' = [repo EXCEPT !.trees = [t \in Spared |-> repo.trees[t]]]
  /\ UNCHANGED <<enabled, work, ignore, rows, op, clock>>

Edit(f, c) ==
  /\ clock.edits < MaxEdits /\ work[f] # c
  /\ work' = [work EXCEPT ![f] = c]
  /\ op' = IF op = NoOp THEN op ELSE [op EXCEPT !.meddled = @ \cup {f}]
  /\ clock' = [clock EXCEPT !.edits = @ + 1]
  /\ UNCHANGED <<enabled, ignore, repo, rows>>

EditIgnore(f) ==
  /\ clock.edits < MaxEdits
  /\ ignore' = [ignore EXCEPT !.listed = IF f \in @ THEN @ \ {f} ELSE @ \cup {f}]
  /\ clock' = [clock EXCEPT !.edits = @ + 1]
  /\ UNCHANGED <<enabled, work, repo, rows, op>>

NextDay ==
  /\ clock.day < MaxDay
  /\ clock' = [clock EXCEPT !.day = @ + 1]
  /\ UNCHANGED <<enabled, work, ignore, repo, rows, op>>

\* the process ends, whatever it is at, and begins anew, with git and snapshots or without
Restart ==
  /\ enabled' \in BOOLEAN
  /\ op' = NoOp
  /\ UNCHANGED <<work, ignore, repo, rows, clock>>

Next ==
  \/ \E s \in Session :
       \/ BeginTrack(s)
       \/ \E i \in 1 .. MaxRows : BeginRestore(s, i) \/ \E files \in BOOLEAN : CutOnly(s, i, files)
  \/ StageAll \/ WriteTree \/ DiffTree \/ TrackFails
  \/ Checkout \/ CheckedOut \/ Restored \/ RestoreFails
  \/ \E f \in File : Delete(f) \/ EditIgnore(f) \/ \E c \in Small \cup Big \cup {Absent} : Edit(f, c)
  \/ Gc \/ NextDay \/ Restart

Spec == Init /\ [][Next]_vars

(* Properties ----------------------------------------------------------------*)

\* When a restoration is through, every file it set out to touch is what the base's
\* tree says, in the tree or gone, unless somebody wrote it meanwhile.
RestoredToBase ==
  op.step = "delete" =>
    \A f \in op.touched \ (op.left \cup op.meddled) : work[f] = Base[f]

\* The rows from any row on name every file in which the session's latest tree
\* differs from that row's: whatever failed or was cut in between.
RowsCoverChanges ==
  \A s \in Session : \A i \in DOMAIN rows[s] :
    Diff(rows[s][i].tree, Latest(s)) \subseteq Touched(s, i)

\* The base of a restoration under way is not collected.
BaseIsKept == op.step = "checkout" => Stored(Base)

\* A session's next snapshot can be compared with its latest row.
SnapshotsGoOn == op.step = "diff" => op.prev = NoTree \/ Stored(op.prev)
==============================================================================
