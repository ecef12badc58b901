----------------------------- MODULE Discovery ------------------------------
(***************************************************************************)
(* Agent definitions and skills (crates/fuyao-prompt) are files of four    *)
(* layers, the first of which wins, above a table built into the program.  *)
(* One piece of code lists what there is, for the user and for the prompt; *)
(* another resolves the name that was chosen, later, when the files may    *)
(* have changed.                                                           *)
(***************************************************************************)
EXTENDS Naturals, FiniteSets, FiniteSetsExt

CONSTANTS
  Id,       \* ids of definitions: file stems
  Dir,      \* names of skills and of their directories
  Linked,   \* files in the directories scripts, references and assets of a skill
  Dotted,   \* those among them whose name has two dots in a row
  Layers,   \* how many layers there are: workspace 1, agent 2, global 3, extra 4
  MaxEdits  \* bound: changes of files

VARIABLES
  files,   \* layer |-> id |-> what agents/{id}.md is there
  skills,  \* layer |-> the skills below its directory
  built,   \* the table built in: [ids |-> id |-> mode or absent, skills |-> names, linked |-> their files]
  choice,  \* what the user chose from a list: [id, usage, layer], or none
  session, \* the session started with it: [id, usage, layer, offers], none, or why it failed
  edits    \* changes of files so far

vars == <<files, skills, built, choice, session, edits>>

Usage == {"primary", "subagent"}
Layer == 1..Layers
InTable == Layers + 1  \* the layer of what is built in
Skill == [dir : Dir, name : Dir \union {"unnamed"}, described : BOOLEAN, linked : SUBSET Linked]

Worlds ==
  [files : [Layer -> [Id -> Usage \union {"absent", "damaged"}]],
   skills : {[l \in Layer |-> {}]},
   built : [ids : [Id -> Usage \union {"absent"}], skills : {{}}, linked : {{}}]]
  \union
  [files : {[l \in Layer |-> [i \in Id |-> "absent"]]},
   skills : [Layer -> {s \in SUBSET Skill : \A x, y \in s : x.dir = y.dir => x = y}],
   built : [ids : {[i \in Id |-> "subagent"]}, skills : SUBSET Dir, linked : {Linked}]]
TypeOK ==
  /\ \A l \in Layer, i \in Id : files[l][i] \in Usage \union {"absent", "damaged"}
  /\ \A l \in Layer : skills[l] \subseteq Skill
  /\ choice.state \in {"none", "chosen"} /\ session.state \in {"none", "running", "failed"}
  /\ edits \in 0..MaxEdits
Init ==
  /\ \E w \in Worlds : files = w.files /\ skills = w.skills /\ built = w.built
  /\ choice = [state |-> "none"] /\ session = [state |-> "none"] /\ edits = 0

(***************************************************************************)
(* Definitions: definitions/loader.rs, definitions/query.rs                *)
(***************************************************************************)
FirstOf(layers) == IF layers = {} THEN InTable ELSE Min(layers)
ModeAt(layer, id) == IF layer = InTable THEN built.ids[id] ELSE files[layer][id]
\* collect_definitions: a damaged file is passed over, and the next layer is looked at.
ListedAt(id) == FirstOf({l \in Layer : files[l][id] \in Usage})
Listed(usage) == {id \in Id : ModeAt(ListedAt(id), id) = usage}
\* load_agent_definition_from_agent_paths: the first file that exists decides, damaged or not.
FoundAt(id) == FirstOf({l \in Layer : files[l][id] # "absent"})
\* resolve_definition: unknown, damaged and of the wrong mode are three errors.
Resolves(id, usage) == ModeAt(FoundAt(id), id) = usage

(***************************************************************************)
(* Skills: skills/finder.rs, skills/loader.rs, skills/mod.rs               *)
(***************************************************************************)
NameOf(s) == IF s.name = "unnamed" THEN s.dir ELSE s.name
\* list_skills: under the name its head gives, or that of its directory; the first layer wins.
SkillListedAt(name) == FirstOf({l \in Layer : \E s \in skills[l] : NameOf(s) = name})
SkillListed(name) == SkillListedAt(name) \in Layer \/ name \in built.skills
\* load_skill: by the directory's name.  One without a description counts as not found, and
\* then the table is asked.
Candidate(name) == FirstOf({l \in Layer : \E s \in skills[l] : s.dir = name})
SkillLoadedAt(name) ==
  IF Candidate(name) \in Layer /\ \E s \in skills[Candidate(name)] : s.dir = name /\ s.described
  THEN Candidate(name) ELSE InTable
SkillLoads(name) == SkillLoadedAt(name) \in Layer \/ name \in built.skills
LinkedAt(layer, name) ==
  IF layer = InTable THEN IF name \in built.skills THEN built.linked ELSE {}
  ELSE UNION {s.linked : s \in {t \in skills[layer] : t.dir = name}}
\* load_skill_file: the directory of that name decides, though nothing in it can be loaded; a
\* file that is not there is an error of the disk, for which the table is not asked.
FileLoads(name, f) == f \notin Dotted /\ f \in LinkedAt(Candidate(name), name)

(***************************************************************************)
(* The skill tool: skill/handler.rs                                        *)
(***************************************************************************)
\* Its list, and the hint when a name is not found.
SkillIndex == {n \in Dir : SkillListed(n)}
\* The files that a view of a skill names, and the hint when a file is not found.
FilesNamed(name) == IF SkillLoads(name) THEN LinkedAt(SkillLoadedAt(name), name) ELSE {}
NoArgument == ""
SkillTool(name, f) ==
  IF name = NoArgument THEN IF f = NoArgument THEN [shows |-> "list"] ELSE [shows |-> "error"]
  ELSE IF f = NoArgument
       THEN IF SkillLoads(name) THEN [shows |-> "skill", of |-> SkillLoadedAt(name)] ELSE [shows |-> "error"]
       ELSE IF FileLoads(name, f) THEN [shows |-> "file", of |-> Candidate(name)] ELSE [shows |-> "error"]

(***************************************************************************)
(* Steps                                                                   *)
(***************************************************************************)
\* list_primary_definitions and list_subagent_definitions: from what is listed one is chosen.
Choose(id, usage) ==
  /\ id \in Listed(usage)
  /\ choice' = [state |-> "chosen", id |-> id, usage |-> usage, layer |-> ListedAt(id), at |-> edits]
  /\ UNCHANGED <<files, skills, built, session, edits>>
\* build_subagent_index_section
SubagentIndex == Listed("subagent")
\* A session is created with a name, chosen or made up: its definition is resolved once, and
\* the prompt of a primary agent names the subagents that are listed now (build_all_sections).
Start(id, usage) ==
  /\ session' =
       IF Resolves(id, usage)
       THEN [state |-> "running", id |-> id, usage |-> usage, layer |-> FoundAt(id), at |-> edits,
             offers |-> IF usage = "primary" THEN SubagentIndex ELSE {}, skills |-> SkillIndex]
       ELSE [state |-> "failed", id |-> id, usage |-> usage, at |-> edits]
  /\ UNCHANGED <<files, skills, built, choice, edits>>
\* Somebody writes, damages or removes a definition.
Edit(layer, id, what) ==
  /\ edits < MaxEdits /\ files[layer][id] # what
  /\ files' = [files EXCEPT ![layer][id] = what] /\ edits' = edits + 1
  /\ UNCHANGED <<skills, built, choice, session>>

Next ==
  \/ \E id \in Id, usage \in Usage : Choose(id, usage) \/ Start(id, usage)
  \/ \E layer \in Layer, id \in Id, what \in Usage \union {"absent", "damaged"} : Edit(layer, id, what)
Spec == Init /\ [][Next]_vars

(***************************************************************************)
(* Properties                                                              *)
(***************************************************************************)
\* A session runs with the definition that was chosen from the list, or does not start: no
\* layer takes the place of another silently while the files stay as they are
\* (definitions/query.rs resolve_definition), and what runs could have been chosen.
PersonaNeverReplaced ==
  /\ \A id \in Id, usage \in Usage : Resolves(id, usage) => id \in Listed(usage) /\ FoundAt(id) = ListedAt(id)
  /\ session.state = "running" /\ choice.state = "chosen" /\ session.at = choice.at
       /\ session.id = choice.id
     => session.layer = choice.layer /\ session.usage = choice.usage
\* Where every head agrees with its directory and describes its skill, what the prompt offers
\* can be loaded, from the layer it was listed from, and the other way round (skills/mod.rs).
Conventional == \A l \in Layer : \A s \in skills[l] : NameOf(s) = s.dir /\ s.described
SkillsOfferedLoad ==
  Conventional =>
    \A n \in Dir : (SkillListed(n) <=> SkillLoads(n)) /\ SkillListedAt(n) = SkillLoadedAt(n)
\* Where moreover no file has two dots in its name, what the tool names can be asked of it: a
\* listed skill is shown, from where it is listed, and each file it names comes from there too
\* (skill/handler.rs; loader.rs and mod.rs search for a skill and for its files separately).
WhatIsNamedIsShown ==
  Conventional =>
    \A n \in SkillIndex :
      /\ SkillTool(n, NoArgument) = [shows |-> "skill", of |-> SkillListedAt(n)]
      /\ \A f \in FilesNamed(n) \ Dotted : SkillTool(n, f) = [shows |-> "file", of |-> SkillListedAt(n)]
=============================================================================
