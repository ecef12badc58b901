------------------------------ MODULE MCParts -------------------------------
(* The components around the session task, one at a time. *)
EXTENDS ServiceParts
LOCAL INSTANCE SequencesExt

\* A session and its child, with two ids of items and a status the table refuses.
Owners == {"s", "c"}
Parents == [s \in Owners |-> "s"]
Items == [id : {1, 2}, content : {1}, status : {"pending", "odd"}]
           \cup {[id |-> 0, content |-> 1, status |-> "pending"]}

\* Files of four lines at most, each of which may cost more than the budget of a window.
FileCosts ==
  {[n \in DOMAIN c |-> FoldLeft(LAMBDA x, y : x + y, 0, SubSeq(c, 1, n))]
     : c \in UNION {[1..k -> 1..4] : k \in 0..4}}

\* Two calls below the workspace /w, by paths from the root and from the workspace, one of
\* which climbs above the root; the workspace /w stands beside the home directory /x/x.
SpeltPaths ==
  [absolute : {TRUE}, parts : {<<"w", "a">>, <<"w">>, <<"w", "b", "..", "a">>, <<"..", "w", "a">>}]
    \cup [absolute : {FALSE}, parts : {<<"a">>, <<"b">>, <<"..", "w", "a">>}]
W == <<"w">>
HomeDir == <<"x", "x">>
Firsts == {<<"w">>, <<"w", "x">>, <<"x">>}

Init == part \in Core \cup Services /\ CoreInit /\ ServiceInit
Next == CoreNext /\ ServiceNext /\ UNCHANGED part
Spec == Init /\ [][Next]_<<part, coreVars, serviceVars>>

TypesOK == CoreTypesOK /\ ServiceTypesOK
=============================================================================
