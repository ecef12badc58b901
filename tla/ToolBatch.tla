----------------------------- MODULE ToolBatch ------------------------------
(***************************************************************************)
(* Whether the tool calls of one reply run beside each other, and how      *)
(* (crates/fuyao-core/src/tool_exec).  The decision compares names and     *)
(* paths as the reply spells them; the tools then resolve the paths by a   *)
(* rule of their own (fuyao-tools/src/common.rs).                          *)
(***************************************************************************)
EXTENDS Paths, FiniteSets

CONSTANTS
  Path,           \* paths a reply may spell: [absolute, parts], a part may be ".." or "."
  Workspace,      \* the session's directory: the names below the root
  Cwd,            \* the directory of the process
  NeverParallel,  \* [tools.runner].never_parallel
  PathScoped,     \* path_scoped
  ParallelSafe,   \* parallel_safe
  MaxConcurrent,  \* max_concurrent
  MaxCalls        \* bound: calls of a reply

VARIABLES
  batch,   \* the calls of the reply, in order: [tool, path]
  mode,    \* how they run: parallel or one by one
  running, \* the calls that hold a permit
  results, \* what the finished ones answered, in the order they finished: [call, saw]
  disk     \* file |-> the call that wrote it last, 0 for none

vars == <<batch, mode, running, results, disk>>

Missing == [absolute |-> FALSE, parts |-> <<>>]
Tools == {"read", "write", "edit", "bash", "grep", "custom"}
Calls == [tool : Tools, path : Path \union {Missing}]

(***************************************************************************)
(* Paths                                                                   *)
(***************************************************************************)
Root == "/"
\* extract_path_from_args: relative paths start at the directory of the process.
From(dir, path) == (IF path.absolute THEN <<>> ELSE dir) \o path.parts
Scope(path) == DotsRemoved(<<Root>>, From(Cwd, path))
\* paths_overlap: one begins with the other.
Overlap(a, b) == a # <<>> /\ b # <<>> /\ (Above(a, b) \/ Above(b, a))
\* resolve_path and the file system: relative paths start at the workspace.
FileAt(path) == PlaceOf(<<>>, From(Workspace, path))

(***************************************************************************)
(* should_parallelize                                                      *)
(***************************************************************************)
Scoped(i) == batch[i].tool \in PathScoped
MayRunBeside ==
  /\ Len(batch) > 1
  /\ \A i \in DOMAIN batch :
       /\ batch[i].tool \notin NeverParallel
       /\ Scoped(i) => batch[i].path # Missing
       /\ ~Scoped(i) => batch[i].tool \in ParallelSafe
  /\ \A i, j \in DOMAIN batch :
       i < j /\ Scoped(i) /\ Scoped(j) => ~Overlap(Scope(batch[i].path), Scope(batch[j].path))

TypeOK ==
  /\ batch \in Seq(Calls) /\ Len(batch) \in 1..MaxCalls
  /\ mode \in {"deciding", "parallel", "sequential"}
  /\ running \subseteq 1..MaxCalls
  /\ \A n \in DOMAIN results : results[n].call \in 1..MaxCalls /\ results[n].saw \in 0..MaxCalls
  /\ \A f \in DOMAIN disk : disk[f] \in 0..MaxCalls
Files == {FileAt(p) : p \in Path}
Init ==
  /\ \E n \in 1..MaxCalls : batch \in [1..n -> Calls]
  /\ mode = "deciding" /\ running = {} /\ results = <<>> /\ disk = [f \in Files |-> 0]

(***************************************************************************)
(* execute_tools, execute_sequential, execute_parallel, execute_single     *)
(***************************************************************************)
Answered == {results[n].call : n \in DOMAIN results}
Decide ==
  /\ mode = "deciding" /\ mode' = IF MayRunBeside THEN "parallel" ELSE "sequential"
  /\ UNCHANGED <<batch, running, results, disk>>
\* A parallel call waits for a permit, a sequential one for those before it.
Start(i) ==
  /\ i \in DOMAIN batch \ (running \union Answered)
  /\ \/ mode = "parallel" /\ Cardinality(running) < MaxConcurrent
     \/ mode = "sequential" /\ running = {} /\ Answered = 1 .. i - 1
  /\ running' = running \union {i} /\ UNCHANGED <<batch, mode, results, disk>>
\* What a call does, in terms of files: read and edit see the last writer, write and edit
\* become it.  The other tools, and calls without a path, touch none of these files; a tool
\* that is not registered or panics answers with an error.
Touches(call) == call.tool \in {"read", "write", "edit"} /\ call.path # Missing
Sees(call, files) == IF Touches(call) /\ call.tool # "write" THEN files[FileAt(call.path)] ELSE 0
Leaves(call, i, files) ==
  IF Touches(call) /\ call.tool # "read" THEN [files EXCEPT ![FileAt(call.path)] = i] ELSE files
Finish(i) ==
  /\ i \in running /\ running' = running \ {i}
  /\ results' = Append(results, [call |-> i, saw |-> Sees(batch[i], disk)])
  /\ disk' = Leaves(batch[i], i, disk) /\ UNCHANGED <<batch, mode>>

Next == Decide \/ \E i \in 1..MaxCalls : Start(i) \/ Finish(i)
Spec == Init /\ [][Next]_vars

(***************************************************************************)
(* Properties                                                              *)
(***************************************************************************)
\* What the files are before the n-th call, when the calls run one after the other.
Writes(i, f) == Touches(batch[i]) /\ batch[i].tool # "read" /\ FileAt(batch[i].path) = f
Last(S) == IF S = {} THEN 0 ELSE CHOOSE i \in S : \A j \in S : j <= i
InOrder(n) == [f \in Files |-> Last({i \in DOMAIN batch : i < n /\ Writes(i, f)})]
\* However the calls of a batch overlap in time, the files and what each call saw of them
\* are as if they had run in the order of the reply (tool_exec/parallel.rs
\* should_parallelize).  It holds where the process works in the workspace, as a program
\* does that was started there, and no path climbs above the root.
BatchAsInOrder ==
  Cwd = Workspace /\ (\A i \in DOMAIN batch : ~Climbs(<<>>, From(Cwd, batch[i].path)))
    /\ Answered = DOMAIN batch =>
      /\ disk = InOrder(Len(batch) + 1)
      /\ \A n \in DOMAIN results :
           LET i == results[n].call IN results[n].saw = Sees(batch[i], InOrder(i))
=============================================================================
