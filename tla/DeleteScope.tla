---------------------------- MODULE DeleteScope ----------------------------
(***************************************************************************)
(* How the terminal tool decides which directory a recursive deletion of a *)
(* command line names (terminal/safety.rs).  The check reads the segments  *)
(* of the line from left to right and follows cd with a directory of its   *)
(* own; beside it stands the shell that runs the same line.  The check     *)
(* knows words and segments only: groups with a directory of their own, a  *)
(* cd it does not see or takes another word of, and words the shell        *)
(* expands further part the two, and the shell remembers that they parted. *)
(***************************************************************************)
EXTENDS Paths

CONSTANTS
  Name,        \* names of directories; those that differ in case only are one name
  Workspace,   \* the workspace, as a sequence of names below the root
  Home,        \* the home directory, likewise
  Start,       \* the directories a command may start in
  MaxLength,   \* bound: names in an argument
  MaxDepth,    \* bound: names of a directory the line changes to
  MaxGroups    \* bound: groups open at a time

VARIABLES
  check,  \* [vcwd |-> virtual directory, blocked |-> the line is refused]
  shell   \* [cwd |-> directory of the shell, groups |-> what to return to, innermost last,
          \*  parted |-> the line held what the check reads otherwise, and no directory since
          \*  that both read alike; strayed |-> how the targets outside the workspace that a
          \*  deletion let through were written]

vars == <<check, shell>>

\* A "." changes nothing, here and in the shell, and is left out.
Step == Name \union {".."}
Relative == UNION {[1..n -> Step] : n \in 1..MaxLength}
\* A word of the line, by what the check makes of it: an absolute or a relative path, one
\* below ~ or $HOME, or a word it cannot resolve.  "last" is a pattern as the last name; an
\* "open" word goes on where the check stops: a pattern within a name or with names after it,
\* a list in braces, quotes within.  Its path is the part the check reads.
Word ==
       [kind : {"absolute", "relative", "tilde", "home"}, path : Relative \union {<<>>},
        glob : {"no", "last", "open"}]
  \union [kind : {"variable", "user", "back"}, path : {<<>>}, glob : {"no"}]
Plain(kind) == [kind |-> kind, path |-> <<>>, glob |-> "no"]
Unknown == <<"?">>
TypeOK ==
  /\ check \in [vcwd : Seq(Step) \union {Unknown}, blocked : BOOLEAN]
  /\ shell \in [cwd : Seq(Name) \union {Unknown}, groups : Seq(Seq(Name) \union {Unknown}),
                parted : BOOLEAN, strayed : SUBSET {"followed", "parted", "open"}]
Init == \E d \in Start :
  /\ check = [vcwd |-> d, blocked |-> FALSE]
  /\ shell = [cwd |-> d, groups |-> <<>>, parted |-> FALSE, strayed |-> {}]

(***************************************************************************)
(* Paths                                                                   *)
(***************************************************************************)
\* Mutant: a path is compared as it is written.
KeepDots(path) == path
\* normalize_dots of an absolute path
NormalizeDots(path) == DotsRemoved(<<>>, path)
IsWithin(child, root) == Above(root, child)

\* resolve_dir_arg, the argument of cd; "$" is not resolved here, not even in $HOME.
ResolveDirArg(w, cwd) ==
  CASE w.kind = "absolute" -> NormalizeDots(w.path)
    [] w.kind = "tilde" -> NormalizeDots(Home \o w.path)
    [] w.kind = "relative" /\ cwd # Unknown /\ w.path # <<>> -> NormalizeDots(cwd \o w.path)
    [] OTHER -> Unknown
\* resolve_rm_target: the fixed part of the target, before any pattern.  An empty word
\* (no path, no pattern) is left to rm; a pattern alone stands for the directory.
Anchored(w, cwd) ==
  CASE w.kind = "absolute" -> w.path
    [] w.kind \in {"tilde", "home"} -> Home \o w.path
    [] w.kind = "relative" /\ cwd # Unknown -> cwd \o w.path
    [] OTHER -> Unknown
Empty(w) == w.kind = "relative" /\ w.path = <<>> /\ w.glob = "no"
TargetAllowed(w, cwd) ==
  \/ Empty(w)
  \/ Anchored(w, cwd) # Unknown /\ IsWithin(NormalizeDots(Anchored(w, cwd)), NormalizeDots(Workspace))

(***************************************************************************)
(* Arguments of a deletion (parse_delete_args)                             *)
(***************************************************************************)
Flag == [kind : {"recursive", "other", "end"}, path : {<<>>}, glob : {"no"}]
\* Only rm knows "--", after which everything is a target.
Ended(family, args, i) == family = "rm" /\ \E j \in 1 .. i - 1 : args[j] = Plain("end")
IsFlag(family, args, i) == args[i] \in Flag /\ ~Ended(family, args, i)
Recursive(family, args) ==
  \E i \in 1..Len(args) : args[i] = Plain("recursive") /\ IsFlag(family, args, i)
\* A flag after "--" is the name of a file in the directory.
AsWord(t) ==
  IF t \in Flag THEN [kind |-> "relative", path |-> <<CHOOSE n \in Name : TRUE>>, glob |-> "no"]
  ELSE t
Targets(family, args) ==
  {AsWord(args[i]) : i \in {j \in 1..Len(args) : ~IsFlag(family, args, j)}}

(***************************************************************************)
(* What the shell does with the same words                                 *)
(***************************************************************************)
Real(path) == PlaceOf(<<>>, path)
Goes(w, cwd) ==
  CASE w.kind = "absolute" -> Real(w.path)
    [] w.kind \in {"tilde", "home"} -> Real(Home \o w.path)
    [] w.kind = "relative" /\ cwd # Unknown -> Real(cwd \o w.path)
    [] OTHER -> Unknown

(***************************************************************************)
(* The segments of the line (check_rm_scope)                               *)
(***************************************************************************)
\* bound: a line is followed until it is refused or has left the workspace
Reading == ~check.blocked /\ shell.strayed = {}
Near(dir) == Len(dir) <= MaxDepth
\* cd or pushd with a word that both read alike; a directory named from the root or from ~
\* brings the two together again.
ChangeDir(w) ==
  /\ Reading
  /\ w.glob = "no"
  /\ Near(ResolveDirArg(w, check.vcwd)) /\ Near(Goes(w, shell.cwd))
  /\ check' = [check EXCEPT !.vcwd = ResolveDirArg(w, check.vcwd)]
  /\ shell' = [shell EXCEPT !.cwd = Goes(w, shell.cwd),
                            !.parted = @ /\ w.kind \notin {"absolute", "tilde"}]
ChangeHome ==
  /\ Reading
  /\ check' = [check EXCEPT !.vcwd = Home]
  /\ shell' = [shell EXCEPT !.cwd = Home, !.parted = FALSE]
\* The check sees no change (popd, or a cd that is not the first word of its segment), takes
\* an option or a pattern for the name of the directory or pushd alone for a cd, or follows
\* a cd that fails: it is at one of these, and the shell stays or goes where the line says.
Misread ==
  /\ Reading
  /\ \E v \in {check.vcwd, Home} \union {ResolveDirArg(w, check.vcwd) : w \in Word},
        d \in {shell.cwd} \union {Goes(w, shell.cwd) : w \in Word} :
       /\ Near(v) /\ Near(d)
       /\ check' = [check EXCEPT !.vcwd = v]
       /\ shell' = [shell EXCEPT !.cwd = d, !.parted = TRUE]
\* Parentheses, a part of a pipe and a command in the background have a directory of their
\* own; to the check they are segments like the others.
OpenGroup ==
  /\ Reading
  /\ Len(shell.groups) < MaxGroups
  /\ shell' = [shell EXCEPT !.groups = Append(@, shell.cwd)]
  /\ UNCHANGED check
CloseGroup ==
  /\ Reading
  /\ shell.groups # <<>>
  /\ LET back == shell.groups[Len(shell.groups)]
     IN shell' = [shell EXCEPT !.cwd = back, !.groups = Up(@), !.parted = @ \/ shell.cwd # back]
  /\ UNCHANGED check
\* A deletion without a target takes them from a pipe.
DeleteRefused(family, args) ==
  /\ Recursive(family, args)
  /\ LET targets == Targets(family, args)
     IN targets = {} \/ \E w \in targets : ~TargetAllowed(w, check.vcwd)
\* How the targets that lie outside the workspace are written; what an open word names is
\* not known, and is taken to lie outside.
Written(w) ==
  IF w.glob = "open" THEN "open"
  ELSE IF shell.parted /\ w.kind = "relative" THEN "parted"
  ELSE "followed"
Outside(w) ==
  \/ w.glob = "open"
  \/ Goes(w, shell.cwd) = Unknown
  \/ ~IsWithin(Goes(w, shell.cwd), Workspace)
Strays(family, args) ==
  IF ~Recursive(family, args) THEN {}
  ELSE {Written(w) : w \in {t \in Targets(family, args) : ~Empty(t) /\ Outside(t)}}
Delete(family, args) ==
  /\ Reading
  /\ check' = [check EXCEPT !.blocked = DeleteRefused(family, args)]
  /\ shell' = [shell EXCEPT
       !.strayed = IF DeleteRefused(family, args) THEN {} ELSE Strays(family, args)]
\* A line that matches one of the listed patterns is refused as a whole.
Listed == Reading /\ check' = [check EXCEPT !.blocked = TRUE] /\ UNCHANGED shell

Flags == {<<>>} \union {<<f>> : f \in Flag}
         \union {<<Plain("recursive"), Plain("end")>>, <<Plain("end"), Plain("recursive")>>}
Args == {f \o t : f \in Flags, t \in {<<>>} \union {<<w>> : w \in Word}}
        \union {<<w, Plain("recursive")>> : w \in Word}
Next ==
  \/ \E w \in Word : ChangeDir(w)
  \/ ChangeHome
  \/ Misread
  \/ OpenGroup
  \/ CloseGroup
  \/ \E family \in {"rm", "other"}, args \in Args : Delete(family, args)
  \/ Listed
Spec == Init /\ [][Next]_vars

(***************************************************************************)
(* Properties                                                              *)
(***************************************************************************)
\* The virtual directory is the directory the shell is in, or is known to be unknown, unless
\* the line held what the check reads otherwise: as long as it holds plain cds, and groups
\* that return to where they began, a relative target is never resolved against another
\* directory (safety.rs check_rm_scope, effective_cwd).
FollowsTheShell ==
  ~check.blocked /\ check.vcwd # Unknown /\ ~shell.parted => Real(check.vcwd) = shell.cwd

\* A recursive deletion that was let through removes only what lies in the workspace,
\* whatever cd came before it and whatever flags and dots it has, if its target ends where
\* the check stops reading and, when relative, stands where the two have not parted.
DeletesInWorkspace == ~check.blocked => "followed" \notin shell.strayed
=============================================================================
