----------------------------- MODULE ToolSchema ------------------------------
(***************************************************************************)
(* How the schema of an MCP server's tool becomes the definition a model   *)
(* is shown (fuyao-mcp: schema.rs, and build_tool_schema_from_info of      *)
(* lib.rs): local references get the name protocols expect, a union with   *)
(* null becomes a nullable type, what an object lacks is added, and the    *)
(* parameters are read off.  A JSON value is tagged with its sort; default *)
(* values, enumerations and descriptions are left out.                     *)
(***************************************************************************)
EXTENDS Sequences, SequencesExt

CONSTANTS
  Name,     \* names of parameters, none of them a word of JSON Schema
  Unknown   \* a name that is required and not declared

VARIABLES
  sent,   \* the server's schema
  node,   \* what has become of it
  stage,  \* how far: "sent", "refs", "unions", "shape", "shown"
  shown   \* the definition: [properties |-> kinds, required]

vars == <<sent, node, stage, shown>>

(* JSON ----------------------------------------------------------------------*)
Map(f) == <<"map", f>>
List(s) == <<"list", s>>
Str(s) == <<"string", s>>
Ref(place, name) == <<"ref", <<place, name>>>>
Null == <<"null", 0>>
IsMap(v) == v[1] = "map"
Keys(v) == IF IsMap(v) THEN DOMAIN v[2] ELSE {}
With(v, k, x) == Map([j \in Keys(v) \cup {k} |-> IF j = k THEN x ELSE v[2][j]])
Dropping(v, k) == Map([j \in Keys(v) \ {k} |-> v[2][j]])
Typed(v, t) == "type" \in Keys(v) /\ v[2]["type"] = Str(t)

\* The servers' schemas: plain, nullable (null before or behind), by reference, an object
\* that does not say so, and one of no known type; some require what they do not declare.
One(k, v) == [j \in {k} |-> v]
Plain == Map(One("type", Str("integer")))
Nil == Map(One("type", Str("null")))
Part == Map([k \in {"properties", "required"} |->
               IF k = "properties" THEN Map(One("p", Plain)) ELSE List(<<Str("p"), Str(Unknown)>>)])
Parameter == {Plain, Map(One("anyOf", List(<<Plain, Nil>>))), Map(One("anyOf", List(<<Nil, Part>>))),
              Map(One("$ref", Ref("definitions", "d"))), Part, Map(<<>>)}
Schema ==
  LET Props == UNION {[names -> Parameter] : names \in SUBSET Name}
      Fields == {ks \in SUBSET {"type", "properties", "required", "definitions"} : "properties" \in ks}
  IN {Null} \cup
     {Map([k \in ks |-> CASE k = "type" -> Str("object")
                          [] k = "properties" -> Map(ps)
                          [] k = "required" -> List(rs)
                          [] k = "definitions" -> Map(One("d", Plain))]) :
        ks \in Fields, ps \in Props,
        rs \in {SetToSeq({Str(n) : n \in ns}) : ns \in SUBSET (Name \cup {Unknown})}}

TypeOK ==
  /\ stage \in {"sent", "refs", "unions", "shape", "shown"}
  /\ DOMAIN shown = {"properties", "required"}

Init ==
  /\ sent \in Schema /\ node = sent /\ stage = "sent"
  /\ shown = [properties |-> <<>>, required |-> <<>>]

(* normalize_mcp_input_schema ------------------------------------------------*)

\* rewrite_local_refs: "definitions" becomes "$defs" everywhere, and in references.
Renamed(k) == IF k = "definitions" THEN "$defs" ELSE k
Moved(v) == IF v[1] = "ref" /\ v[2][1] = "definitions" THEN Ref("$defs", v[2][2]) ELSE v
RECURSIVE Rewritten(_)
Rewritten(v) ==
  CASE IsMap(v) ->
         LET old == [k \in {Renamed(j) : j \in Keys(v)} |-> CHOOSE j \in Keys(v) : Renamed(j) = k]
             new == [k \in DOMAIN old |-> Rewritten(v[2][old[k]])]
         IN Map([k \in DOMAIN new |-> IF k = "$ref" THEN Moved(new[k]) ELSE new[k]])
    [] v[1] = "list" -> List([i \in DOMAIN v[2] |-> Rewritten(v[2][i])])
    [] OTHER -> v

\* strip_nullable_union: of two branches one null; the other's fields are taken over.
\* Mutant: only when null stands behind.
NullBehind(branches) == Len(branches) = 2 /\ Typed(branches[2], "null")
NullAmong(branches) ==
  Len(branches) = 2 /\ \E i \in 1..2 : Typed(branches[i], "null") /\ ~Typed(branches[3 - i], "null")
Collapsed(v) ==
  IF "anyOf" \in Keys(v) /\ v[2]["anyOf"][1] = "list" /\ NullAmong(v[2]["anyOf"][2])
  THEN LET value == CHOOSE b \in ToSet(v[2]["anyOf"][2]) : ~Typed(b, "null")
           taken == Keys(value) \ (Keys(v) \cup {"anyOf"})
           all == Map([k \in Keys(v) \cup taken |-> IF k \in Keys(v) THEN v[2][k] ELSE value[2][k]])
       IN With(Dropping(all, "anyOf"), "nullable", Str("true"))
  ELSE v
RECURSIVE Stripped(_)
Stripped(v) ==
  CASE IsMap(v) -> Collapsed(Map([k \in Keys(v) |-> Stripped(v[2][k])]))
    [] v[1] = "list" -> List([i \in DOMAIN v[2] |-> Stripped(v[2][i])])
    [] OTHER -> v

\* repair_object_shape: a missing type and missing properties; required names only.
AsObject(v) ==
  IF "type" \notin Keys(v) /\ Keys(v) \cap {"properties", "required"} # {}
  THEN With(v, "type", Str("object")) ELSE v
WithProperties(v) ==
  IF "properties" \in Keys(v) /\ IsMap(v[2]["properties"]) THEN v ELSE With(v, "properties", Map(<<>>))
Declared(v) == SelectSeq(v[2]["required"][2], LAMBDA r : r[2] \in Keys(v[2]["properties"]))
Trimmed(v) ==
  IF "required" \notin Keys(v) THEN v
  ELSE IF Declared(v) = <<>> THEN Dropping(v, "required") ELSE With(v, "required", List(Declared(v)))
Repaired(v) ==
  LET typed == AsObject(v) IN
  IF Typed(typed, "object") THEN Trimmed(WithProperties(typed)) ELSE typed
RECURSIVE Shaped(_)
Shaped(v) ==
  CASE IsMap(v) -> Repaired(Map([k \in Keys(v) |-> Shaped(v[2][k])]))
    [] v[1] = "list" -> List([i \in DOMAIN v[2] |-> Shaped(v[2][i])])
    [] OTHER -> v

Go(from, to, v) == stage = from /\ stage' = to /\ node' = v /\ UNCHANGED <<sent, shown>>
NoSchema == Map([k \in {"type", "properties"} |-> IF k = "type" THEN Str("object") ELSE Map(<<>>)])
Replace == ~IsMap(sent) /\ Go("sent", "shape", NoSchema)
RewriteRefs == IsMap(sent) /\ Go("sent", "refs", Rewritten(node))
StripUnions == Go("refs", "unions", Stripped(node))
RepairShape == Go("unions", "shape", Shaped(node))

\* build_tool_schema_from_info: a parameter of no type is a string.
Kind(p) == IF "type" \in Keys(p) /\ p[2]["type"][1] = "string" THEN p[2]["type"][2] ELSE "string"
Build ==
  /\ stage = "shape" /\ stage' = "shown"
  /\ LET props == node[2]["properties"] IN
       shown' = [properties |-> [n \in Keys(props) |-> Kind(props[2][n])],
                 required |-> IF "required" \in Keys(node) THEN node[2]["required"][2] ELSE <<>>]
  /\ UNCHANGED <<sent, node>>

Next == Replace \/ RewriteRefs \/ StripUnions \/ RepairShape \/ Build
Spec == Init /\ [][Next]_vars

(* Properties ----------------------------------------------------------------*)

\* What a parameter is, said without the steps: its type, that of the branch beside null,
\* an object if it has properties, and a string when nothing says more.
RECURSIVE KindSent(_)
KindSent(p) ==
  IF "type" \in Keys(p) THEN p[2]["type"][2]
  ELSE IF "anyOf" \in Keys(p) THEN KindSent(CHOOSE b \in ToSet(p[2]["anyOf"][2]) : ~Typed(b, "null"))
  ELSE IF "properties" \in Keys(p) THEN "object" ELSE "string"
PropertiesSent == IF IsMap(sent) THEN sent[2]["properties"] ELSE Map(<<>>)

\* A model is shown the parameters the server declared, no more and no less, each with its
\* kind, and must give exactly those the server both requires and declares.
ShownAsDeclared ==
  stage = "shown" =>
    /\ shown.properties = [n \in Keys(PropertiesSent) |-> KindSent(PropertiesSent[2][n])]
    /\ ToSet(shown.required) =
         {Str(n) : n \in {m \in Keys(PropertiesSent) :
                            "required" \in Keys(sent) /\ Str(m) \in ToSet(sent[2]["required"][2])}}

\* A reference that led somewhere in the server's schema leads there in the normalized one.
RefsLead ==
  stage = "shape" /\ "definitions" \in Keys(sent) =>
    \A n \in Keys(node[2]["properties"]) :
      LET p == node[2]["properties"][2][n] IN
      "$ref" \in Keys(p) => /\ p[2]["$ref"][2][1] \in Keys(node)
                            /\ p[2]["$ref"][2][2] \in Keys(node[2][p[2]["$ref"][2][1]])
==============================================================================
