------------------------------- MODULE Paths --------------------------------
(***************************************************************************)
(* Paths as sequences of components: what is left when dots are removed by *)
(* words alone (canonicalize_path of tool_exec/parallel.rs, normalize_dots *)
(* of terminal/safety.rs), and where the file system arrives.              *)
(***************************************************************************)
EXTENDS Integers, Sequences

Up(path) == SubSeq(path, 1, Len(path) - 1)

\* ".." takes the component before it away, also a root; with none before it, it is kept.
Removing(done, part) ==
  IF part = "." THEN done
  ELSE IF part = ".." /\ done # <<>> /\ done[Len(done)] # ".." THEN Up(done)
  ELSE Append(done, part)
DotsRemoved(start, parts) ==
  LET at[n \in 0 .. Len(parts)] == IF n = 0 THEN start ELSE Removing(at[n - 1], parts[n])
  IN at[Len(parts)]

\* The root is its own parent.
Going(place, part) ==
  IF part = "." \/ (part = ".." /\ place = <<>>) THEN place
  ELSE IF part = ".." THEN Up(place)
  ELSE Append(place, part)
PlaceOf(start, parts) ==
  LET at[n \in 0 .. Len(parts)] == IF n = 0 THEN start ELSE Going(at[n - 1], parts[n])
  IN at[Len(parts)]
\* a path with a ".." where nothing is left to leave
Climbs(start, parts) ==
  \E n \in 1 .. Len(parts) : parts[n] = ".." /\ PlaceOf(start, SubSeq(parts, 1, n - 1)) = <<>>

\* a is b or above it
Above(a, b) == Len(a) <= Len(b) /\ SubSeq(b, 1, Len(a)) = a
=============================================================================
