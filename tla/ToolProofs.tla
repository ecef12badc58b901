------------------------------ MODULE ToolProofs ------------------------------
(***************************************************************************)
(* Inductive invariants of the tools, the plugins, the configuration and   *)
(* the replies among the parts of CoreParts, each in a section of its own; *)
(* PartsProofs puts them into the behaviours of CoreParts.                 *)
(***************************************************************************)
EXTENDS CoreParts, Paths, Integers, FiniteSets, TLAPS, SequenceTheorems, FiniteSetTheorems, NumberLemmas

(***************************************************************************)
(* Edits                                                                   *)
(***************************************************************************)
EditLimits ==
  /\ "free" \notin Caller /\ Task # {} /\ MaxChanges \in Nat
  /\ "full" \in Spelling /\ Spelling \subseteq {"full", "short", "dotted"}

EditSteps == {"idle", "reading", "checked", "locked", "loaded", "emptied", "failed", "written"}
EditCall == [pc : EditSteps, kind : {"read", "edit", "write"}, task : Task, name : Spelling,
             base : SUBSET (0..MaxChanges), id : 0..MaxChanges, warned : BOOLEAN,
             meddled : BOOLEAN, due : SUBSET Spelling]
EditType ==
  /\ disk \in [text : SUBSET (0..MaxChanges), mtime : Nat, torn : BOOLEAN, clock : Nat,
               count : 0..MaxChanges]
  /\ disk.mtime <= disk.clock
  /\ DOMAIN stamps = Task /\ told \in [Task -> {"unread", "known", "news"}]
  /\ lock \in [Spelling -> Caller \union {"free"}]
  /\ call \in [Caller -> EditCall]
  /\ \A c \in Caller : call[c].kind = "read" => call[c].pc \in {"idle", "reading"}
  /\ \A t \in Task : DOMAIN stamps[t] \subseteq Spelling
                       /\ \A k \in DOMAIN stamps[t] : stamps[t][k] \in Nat /\ stamps[t][k] <= disk.mtime
\* An edit under way holds the lock of its path, and what it has read is what is there.
Editing(c) == call[c].kind = "edit" /\ call[c].pc \in {"locked", "loaded", "emptied"}
LockInv ==
  \A c \in Caller :
    /\ Editing(c) => lock[Edits!Resolved(call[c].name)] = c
    /\ Editing(c) /\ call[c].pc = "loaded" /\ ~call[c].meddled =>
         disk.text = call[c].base /\ ~disk.torn
\* What a session has not heard of is later than every time it has noted, unless it is about
\* to read the file.
Reads(t) == \E c \in Caller : call[c].pc = "reading" /\ call[c].task = t
NewsInv ==
  \A t \in Task : told[t] = "news" =>
    Reads(t) \/ \A k \in DOMAIN stamps[t] : stamps[t][k] # disk.mtime
DueInv ==
  \A c \in Caller :
    call[c].kind = "edit" /\ call[c].name \in call[c].due /\ Edits!Visible(call[c].name) => call[c].warned
EditInv == EditType /\ LockInv /\ NewsInv /\ DueInv

LEMMA ResolvedSpelling ==
  ASSUME EditLimits, NEW name \in Spelling PROVE Edits!Resolved(name) \in Spelling
BY DEF EditLimits, Edits!Resolved

LEMMA IdleCall ==
  ASSUME EditLimits
  PROVE  Edits!Idle \in EditCall /\ Edits!Idle.pc = "idle" /\ Edits!Idle.kind = "read"
<1>1. (CHOOSE t \in Task : TRUE) \in Task
  BY DEF EditLimits
<1> QED
  BY <1>1 DEF EditLimits, Edits!Idle, EditCall, EditSteps

LEMMA EditStart == EditLimits /\ Edits!Init => EditInv
<1> SUFFICES ASSUME EditLimits, Edits!Init PROVE EditInv
  OBVIOUS
<1>0. Edits!Idle \in EditCall /\ Edits!Idle.pc = "idle" /\ Edits!Idle.kind = "read"
  BY IdleCall
<1>1. \A c \in Caller : call[c] = Edits!Idle
  BY DEF Edits!Init
<1>2. EditType
  BY <1>0 DEF Edits!Init, EditType, EditLimits
<1>3. LockInv
  BY <1>0, <1>1 DEF LockInv, Editing
<1>4. NewsInv
  BY DEF Edits!Init, NewsInv
<1>5. DueInv
  BY <1>0, <1>1 DEF DueInv
<1> QED
  BY <1>2, <1>3, <1>4, <1>5 DEF EditInv

\* Noting a time changes the times of one session: some are forgotten, one is now.
LEMMA Noting ==
  ASSUME EditType, NEW t \in Task, NEW key \in Spelling, Edits!Record(t, key)
  PROVE  /\ DOMAIN stamps' = Task /\ \A u \in Task \ {t} : stamps'[u] = stamps[u]
         /\ DOMAIN stamps'[t] \subseteq Spelling
         /\ \A k \in DOMAIN stamps'[t] : stamps'[t][k] \in Nat /\ stamps'[t][k] <= disk.mtime
<1>1. PICK f \in Edits!Capped(Edits!Stamped(stamps[t], key)) : stamps' = [stamps EXCEPT ![t] = f]
  BY DEF Edits!Record
<1> DEFINE g == Edits!Stamped(stamps[t], key)
<1>2. /\ DOMAIN g = DOMAIN stamps[t] \union {key}
      /\ \A k \in DOMAIN g : g[k] \in Nat /\ g[k] <= disk.mtime
  BY DEF Edits!Stamped, EditType
<1>3. DOMAIN f \subseteq DOMAIN g /\ \A k \in DOMAIN f : f[k] = g[k]
  <2> HIDE DEF g
  <2>1. f \in Edits!Capped(g)
    BY <1>1 DEF g
  <2> QED
    BY <2>1 DEF Edits!Capped, Edits!Keeping
<1>4. stamps'[t] = f
  BY <1>1 DEF EditType
<1> HIDE DEF g
<1> QED
  BY <1>1, <1>2, <1>3, <1>4 DEF EditType

\* How a step changes the calls: one of them becomes another, or goes on while it spoils others.
LEMMA OneCall ==
  ASSUME EditType, NEW c \in Caller, NEW x \in EditCall, call' = [call EXCEPT ![c] = x],
         x.kind = "read" => x.pc \in {"idle", "reading"}
  PROVE  /\ call' \in [Caller -> EditCall] /\ call'[c] = x
         /\ \A d \in Caller \ {c} : call'[d] = call[d]
         /\ \A d \in Caller : call'[d].kind = "read" => call'[d].pc \in {"idle", "reading"}
BY DEF EditType

SameButMeddled(d, pc) ==
  /\ call'[d].pc = pc /\ call'[d].kind = call[d].kind /\ call'[d].task = call[d].task
  /\ call'[d].name = call[d].name /\ call'[d].base = call[d].base /\ call'[d].id = call[d].id
  /\ call'[d].warned = call[d].warned /\ call'[d].due = call[d].due
Spoils(c, d) ==
  call[d].pc = "loaded"
    /\ (call[c].kind = "write" \/ Edits!Resolved(call[c].name) # Edits!Resolved(call[d].name))
LEMMA Meddling ==
  ASSUME EditType, NEW c \in Caller, NEW pc \in EditSteps, call[c].kind # "read",
         call' = [Edits!Meddle(c) EXCEPT ![c].pc = pc]
  PROVE  /\ call' \in [Caller -> EditCall] /\ SameButMeddled(c, pc)
         /\ \A d \in Caller \ {c} : SameButMeddled(d, call[d].pc)
                                   /\ (Spoils(c, d) => call'[d].meddled)
                                   /\ (~Spoils(c, d) => call'[d] = call[d])
         /\ \A d \in Caller : call'[d].kind = "read" => call'[d].pc \in {"idle", "reading"}
<1> DEFINE m == Edits!Meddle(c)
<1>1. ASSUME NEW d \in Caller
      PROVE  /\ m[d] = IF d # c /\ Spoils(c, d) THEN [call[d] EXCEPT !.meddled = TRUE] ELSE call[d]
             /\ m[d] \in EditCall /\ call[d] \in EditCall
  <2>1. call[d] \in EditCall
    BY DEF EditType
  <2>2. m[d] = IF d # c /\ Spoils(c, d) THEN [call[d] EXCEPT !.meddled = TRUE] ELSE call[d]
    BY DEF Edits!Meddle, Edits!At, Spoils
  <2> QED
    BY <2>1, <2>2 DEF EditCall
<1>2. DOMAIN m = Caller
  BY DEF Edits!Meddle
<1> HIDE DEF m
<1>3. /\ DOMAIN call' = Caller /\ call'[c] = [m[c] EXCEPT !.pc = pc]
      /\ \A d \in Caller \ {c} : call'[d] = m[d]
      /\ call' = [d \in Caller |-> call'[d]]
  BY <1>2 DEF m
<1>4. m[c] = call[c] /\ call'[c] \in EditCall
  <2>1. m[c] = call[c] /\ call[c] \in EditCall /\ call'[c] = [call[c] EXCEPT !.pc = pc]
    BY <1>1, <1>3
  <2> QED
    BY <2>1 DEF EditCall
<1>5. call' \in [Caller -> EditCall]
  BY <1>1, <1>3, <1>4
<1>6. SameButMeddled(c, pc)
  BY <1>1, <1>3, <1>4 DEF SameButMeddled, EditCall
<1>7. ASSUME NEW d \in Caller \ {c}
      PROVE  /\ SameButMeddled(d, call[d].pc)
             /\ Spoils(c, d) => call'[d].meddled
             /\ ~Spoils(c, d) => call'[d] = call[d]
  <2>1. call[d] \in EditCall /\ call'[d] = m[d]
    BY <1>1, <1>3
  <2>2. CASE Spoils(c, d)
    <3>1. call'[d] = [call[d] EXCEPT !.meddled = TRUE]
      BY <1>1, <2>1, <2>2
    <3> QED
      BY <2>1, <2>2, <3>1 DEF SameButMeddled, EditCall
  <2>3. CASE ~Spoils(c, d)
    <3>1. call'[d] = call[d]
      BY <1>1, <2>1, <2>3
    <3> QED
      BY <2>3, <3>1 DEF SameButMeddled
  <2> QED
    BY <2>2, <2>3
<1>8. ASSUME NEW d \in Caller, call'[d].kind = "read" PROVE call'[d].pc \in {"idle", "reading"}
  BY <1>6, <1>7, <1>8 DEF SameButMeddled, EditType
<1> QED
  BY <1>5, <1>6, <1>7, <1>8

\* What happens to the file keeps its times in order.
LEMMA Changing ==
  ASSUME EditType, NEW text \in SUBSET (0..MaxChanges), NEW later \in BOOLEAN, NEW d,
         d = Edits!Changed(text, TRUE, later) \/ d = Edits!Changed(text, FALSE, later)
  PROVE  /\ d \in [text : SUBSET (0..MaxChanges), mtime : Nat, torn : BOOLEAN, clock : Nat,
                  count : 0..MaxChanges]
         /\ d.mtime <= d.clock /\ disk.mtime <= d.mtime
         /\ later => disk.mtime < d.mtime
         /\ ~later => d.mtime = disk.mtime
<1> DEFINE Disks == [text : SUBSET (0..MaxChanges), mtime : Nat, torn : BOOLEAN, clock : Nat,
                     count : 0..MaxChanges]
<1>1. disk \in Disks /\ disk.mtime <= disk.clock
  BY DEF EditType
<1>2. disk.mtime \in Nat /\ disk.clock \in Nat /\ disk.mtime <= disk.clock /\ disk.clock + 1 \in Nat
  BY <1>1
<1>3. CASE later
  <2>1. PICK torn \in BOOLEAN :
          d = [[[[disk EXCEPT !.text = text] EXCEPT !.torn = torn] EXCEPT !.mtime = disk.clock + 1]
                EXCEPT !.clock = disk.clock + 1]
    BY <1>1, <1>3 DEF Edits!Changed
  <2>2. d \in Disks /\ d.mtime = disk.clock + 1 /\ d.clock = disk.clock + 1
    BY <1>1, <1>2, <2>1
  <2>3. d.mtime <= d.clock /\ disk.mtime < d.mtime /\ disk.mtime <= d.mtime
    BY <1>2, <2>2
  <2> QED
    BY <1>3, <2>2, <2>3
<1>4. CASE ~later
  <2>1. PICK torn \in BOOLEAN :
          d = [[[[disk EXCEPT !.text = text] EXCEPT !.torn = torn] EXCEPT !.mtime = disk.mtime]
                EXCEPT !.clock = disk.clock]
    BY <1>1, <1>4 DEF Edits!Changed
  <2>2. d \in Disks /\ d.mtime = disk.mtime /\ d.clock = disk.clock
    BY <1>1, <2>1
  <2>3. d.mtime <= d.clock /\ disk.mtime <= d.mtime
    BY <1>2, <2>2
  <2> QED
    BY <1>4, <2>2, <2>3
<1> QED
  BY <1>3, <1>4

DiskType == [text : SUBSET (0..MaxChanges), mtime : Nat, torn : BOOLEAN, clock : Nat,
             count : 0..MaxChanges]
\* A step of one call that leaves the text alone.
LEMMA OneCallMoves ==
  ASSUME EditInv, NEW c \in Caller, NEW x \in EditCall, call' = [call EXCEPT ![c] = x],
         x.kind = "read" => x.pc \in {"idle", "reading"},
         disk' \in DiskType, disk'.text = disk.text, disk'.torn = disk.torn,
         disk'.mtime = disk.mtime, disk'.clock = disk.clock,
         lock' \in [Spelling -> Caller \union {"free"}],
         \A d \in Caller \ {c} : Editing(d) => lock'[Edits!Resolved(call[d].name)] = d,
         x.kind = "edit" /\ x.pc \in {"locked", "loaded", "emptied"} =>
           /\ lock'[Edits!Resolved(x.name)] = c
           /\ x.pc = "loaded" /\ ~x.meddled => disk.text = x.base /\ ~disk.torn,
         x.kind = "edit" /\ x.name \in x.due /\ Edits!Visible(x.name) => x.warned,
         told' \in [Task -> {"unread", "known", "news"}],
         DOMAIN stamps' = Task,
         \A t \in Task : DOMAIN stamps'[t] \subseteq Spelling
                        /\ \A k \in DOMAIN stamps'[t] : stamps'[t][k] \in Nat /\ stamps'[t][k] <= disk.mtime,
         \A t \in Task : told'[t] = "news" =>
           \/ x.pc = "reading" /\ x.task = t
           \/ /\ told[t] = "news" /\ stamps'[t] = stamps[t]
              /\ ~(call[c].pc = "reading" /\ call[c].task = t)
  PROVE  EditInv'
<1>1. /\ call' \in [Caller -> EditCall] /\ call'[c] = x
      /\ \A d \in Caller \ {c} : call'[d] = call[d]
      /\ \A d \in Caller : call'[d].kind = "read" => call'[d].pc \in {"idle", "reading"}
  BY OneCall DEF EditInv
<1>2. EditType'
  BY <1>1 DEF EditInv, EditType, DiskType
<1>3. ASSUME NEW d \in Caller
      PROVE  /\ Editing(d)' => lock'[Edits!Resolved(call'[d].name)] = d
             /\ Editing(d)' /\ call'[d].pc = "loaded" /\ ~call'[d].meddled =>
                  disk'.text = call'[d].base /\ ~disk'.torn
  <2>1. CASE d = c
    BY <1>1, <2>1 DEF Editing
  <2>2. CASE d # c
    BY <1>1, <2>2 DEF EditInv, LockInv, Editing
  <2> QED
    BY <2>1, <2>2
<1>4. LockInv'
  BY <1>3 DEF LockInv, Edits!Resolved
<1>5. ASSUME NEW t \in Task, told'[t] = "news"
      PROVE  Reads(t)' \/ \A k \in DOMAIN stamps'[t] : stamps'[t][k] # disk'.mtime
  <2>1. CASE x.pc = "reading" /\ x.task = t
    BY <1>1, <2>1 DEF Reads
  <2>2. CASE told[t] = "news" /\ stamps'[t] = stamps[t] /\ ~(call[c].pc = "reading" /\ call[c].task = t)
    <3>1. CASE Reads(t)
      BY <1>1, <2>2, <3>1 DEF Reads
    <3>2. CASE ~Reads(t)
      BY <2>2, <3>2 DEF EditInv, NewsInv
    <3> QED
      BY <3>1, <3>2
  <2> QED
    BY <1>5, <2>1, <2>2
<1>6. NewsInv'
  BY <1>5 DEF NewsInv
<1>7. DueInv'
  BY <1>1 DEF EditInv, DueInv, Edits!Visible
<1> QED
  BY <1>2, <1>4, <1>6, <1>7 DEF EditInv

\* A step that changes the text: whoever had read it is told to have been disturbed.
LEMMA TextChanges ==
  ASSUME EditInv, NEW later \in BOOLEAN, stamps' = stamps, told' = Edits!Heard(later),
         disk' \in DiskType, disk'.mtime <= disk'.clock, disk.mtime <= disk'.mtime,
         later => disk.mtime < disk'.mtime, ~later => disk'.mtime = disk.mtime,
         call' \in [Caller -> EditCall],
         \A d \in Caller : call'[d].kind = "read" => call'[d].pc \in {"idle", "reading"},
         \A d \in Caller : SameButMeddled(d, call'[d].pc),
         \A d \in Caller : call[d].pc = "reading" => call'[d].pc = "reading",
         lock' \in [Spelling -> Caller \union {"free"}],
         \A d \in Caller : Editing(d)' =>
           lock'[Edits!Resolved(call[d].name)] = d /\ (call'[d].pc = "loaded" => call'[d].meddled)
  PROVE  EditInv'
<1>0. told \in [Task -> {"unread", "known", "news"}]
  BY DEF EditInv, EditType
<1>1. told' \in [Task -> {"unread", "known", "news"}]
        /\ \A t \in Task : told'[t] = "news" => told[t] = "news" \/ later
  BY <1>0 DEF Edits!Heard
<1>2. EditType'
  <2>1. ASSUME NEW t \in Task, NEW k \in DOMAIN stamps[t]
        PROVE  stamps[t][k] \in Nat /\ stamps[t][k] <= disk'.mtime
    BY DEF EditInv, EditType, DiskType
  <2> QED
    BY <1>1, <2>1 DEF EditInv, EditType, DiskType
<1>3. LockInv'
  BY DEF LockInv, SameButMeddled
<1>4. ASSUME NEW t \in Task, told'[t] = "news"
      PROVE  Reads(t)' \/ \A k \in DOMAIN stamps'[t] : stamps'[t][k] # disk'.mtime
  <2>1. CASE later
    <3>1. ASSUME NEW k \in DOMAIN stamps[t] PROVE stamps[t][k] # disk'.mtime
      BY <2>1 DEF EditInv, EditType, DiskType
    <3> QED
      BY <3>1
  <2>2. CASE ~later /\ Reads(t)
    BY <2>2 DEF Reads, SameButMeddled
  <2>3. CASE ~later /\ ~Reads(t)
    BY <1>1, <1>4, <2>3 DEF EditInv, NewsInv
  <2> QED
    BY <2>1, <2>2, <2>3
<1>5. NewsInv'
  BY <1>4 DEF NewsInv
<1>6. DueInv'
  BY DEF EditInv, DueInv, SameButMeddled, Edits!Visible
<1> QED
  BY <1>2, <1>3, <1>5, <1>6 DEF EditInv

LEMMA EditStep == EditLimits /\ EditInv /\ [Edits!Next]_Edits!vars => EditInv'
<1> SUFFICES ASSUME EditLimits, EditInv, [Edits!Next]_Edits!vars PROVE EditInv'
  OBVIOUS
<1>a. EditType /\ LockInv /\ NewsInv /\ DueInv
  BY DEF EditInv
<1>b. /\ \A c \in Caller : call[c] \in EditCall
      /\ disk \in DiskType /\ told \in [Task -> {"unread", "known", "news"}]
      /\ lock \in [Spelling -> Caller \union {"free"}] /\ DOMAIN stamps = Task
      /\ \A t \in Task : DOMAIN stamps[t] \subseteq Spelling
                        /\ \A k \in DOMAIN stamps[t] : stamps[t][k] \in Nat /\ stamps[t][k] <= disk.mtime
  BY <1>a DEF EditType, DiskType
<1>c. \A d \in Caller : Editing(d) => lock[Edits!Resolved(call[d].name)] = d
  BY <1>a DEF LockInv
<1>d. Edits!Idle \in EditCall /\ Edits!Idle.pc = "idle" /\ Edits!Idle.kind = "read"
  BY IdleCall
\* A call of any kind begins.
<1>1. \A t \in Task : Edits!Due(t) \in SUBSET Spelling
  BY <1>b DEF Edits!Due
<1>2. ASSUME NEW c \in Caller, NEW t \in Task, NEW name \in Spelling, Edits!BeginRead(c, t, name)
      PROVE  EditInv'
  <2> DEFINE x == [Edits!Idle EXCEPT !.pc = "reading", !.kind = "read", !.task = t, !.name = name,
                                     !.id = 0, !.warned = FALSE, !.due = Edits!Due(t)]
  <2>1. /\ call[c].pc = "idle" /\ call' = [call EXCEPT ![c] = x]
        /\ Edits!Record(t, Edits!Resolved(name)) /\ UNCHANGED <<disk, lock, told>>
    BY <1>2 DEF Edits!BeginRead, Edits!Begin, Edits!At
  <2>2. x \in EditCall /\ x.pc = "reading" /\ x.kind = "read" /\ x.task = t
    <3>1. 0 \in 0..MaxChanges
      BY DEF EditLimits
    <3> QED
      BY <1>1, <1>d, <3>1 DEF EditCall, EditSteps
  <2> HIDE DEF x
  <2>3. /\ DOMAIN stamps' = Task /\ \A u \in Task \ {t} : stamps'[u] = stamps[u]
        /\ DOMAIN stamps'[t] \subseteq Spelling
        /\ \A k \in DOMAIN stamps'[t] : stamps'[t][k] \in Nat /\ stamps'[t][k] <= disk.mtime
    BY <1>a, <2>1, Noting, ResolvedSpelling
  <2>4. \A u \in Task : DOMAIN stamps'[u] \subseteq Spelling
             /\ \A k \in DOMAIN stamps'[u] : stamps'[u][k] \in Nat /\ stamps'[u][k] <= disk.mtime
    BY <1>b, <2>3
  <2>5. \A u \in Task : told'[u] = "news" =>
           \/ x.pc = "reading" /\ x.task = u
           \/ told[u] = "news" /\ stamps'[u] = stamps[u] /\ ~(call[c].pc = "reading" /\ call[c].task = u)
    BY <2>1, <2>2, <2>3
  <2>6. x.kind # "edit" /\ x.pc \in {"idle", "reading"}
    BY <2>2
  <2>7. /\ disk' \in DiskType /\ disk'.text = disk.text /\ disk'.torn = disk.torn
         /\ disk'.mtime = disk.mtime /\ disk'.clock = disk.clock
    BY <1>b, <2>1
  <2>8. lock' \in [Spelling -> Caller \union {"free"}]
    BY <1>b, <2>1
  <2>9. \A d \in Caller \ {c} : Editing(d) => lock'[Edits!Resolved(call[d].name)] = d
    BY <1>c, <2>1
  <2> QED
    BY <1>b, <1>c, <2>1, <2>2, <2>3, <2>4, <2>5, <2>6, <2>7, <2>8, <2>9, OneCallMoves
<1>3. ASSUME NEW c \in Caller, NEW t \in Task, NEW name \in Spelling, Edits!BeginEdit(c, t, name)
      PROVE  EditInv'
  <2> DEFINE x == [Edits!Idle EXCEPT !.pc = "checked", !.kind = "edit", !.task = t, !.name = name,
                     !.id = disk.count + 1, !.warned = Edits!Stale(t, name), !.due = Edits!Due(t)]
  <2>1. /\ disk.count < MaxChanges /\ disk' = [disk EXCEPT !.count = @ + 1] /\ UNCHANGED <<stamps, lock, told>>
        /\ call[c].pc = "idle" /\ call' = [call EXCEPT ![c] = x]
    BY <1>3 DEF Edits!BeginEdit, Edits!Begin, Edits!At
  <2>2. disk.count + 1 \in 0..MaxChanges /\ Edits!Stale(t, name) \in BOOLEAN
    BY <1>b, <2>1 DEF EditLimits, DiskType, Edits!Stale, Edits!Visible
  <2>3. /\ x \in EditCall /\ x.pc = "checked" /\ x.kind = "edit"
        /\ x.task = t /\ x.name = name /\ x.warned = Edits!Stale(t, name) /\ x.due = Edits!Due(t)
    BY <1>1, <1>d, <2>2 DEF EditCall, EditSteps
  <2> HIDE DEF x
  <2>4. disk' \in DiskType /\ disk'.text = disk.text /\ disk'.torn = disk.torn
          /\ disk'.mtime = disk.mtime /\ disk'.clock = disk.clock
    BY <1>b, <2>1, <2>2 DEF DiskType
  <2>5. name \in x.due /\ Edits!Visible(name) => x.warned
    <3> SUFFICES ASSUME name \in Edits!Due(t), Edits!Visible(name) PROVE Edits!Stale(t, name)
      BY <2>3
    <3>1. told[t] = "news" /\ ~Edits!Working(t) /\ name \in DOMAIN stamps[t]
      BY DEF Edits!Due
    <3>2. ~Reads(t)
      BY <3>1 DEF Reads, Edits!Working
    <3> QED
      BY <1>a, <3>1, <3>2 DEF NewsInv, Edits!Stale
  <2> QED
    BY <1>b, <1>c, <2>1, <2>3, <2>4, <2>5, OneCallMoves
<1>4. ASSUME NEW c \in Caller, NEW t \in Task, NEW name \in Spelling, Edits!BeginWrite(c, t, name)
      PROVE  EditInv'
  <2> DEFINE x == [Edits!Idle EXCEPT !.pc = "loaded", !.kind = "write", !.task = t, !.name = name,
                     !.id = disk.count + 1, !.warned = FALSE, !.due = Edits!Due(t)]
  <2>1. /\ disk.count < MaxChanges /\ disk' = [disk EXCEPT !.count = @ + 1] /\ UNCHANGED <<stamps, lock, told>>
        /\ call[c].pc = "idle" /\ call' = [call EXCEPT ![c] = x]
    BY <1>4 DEF Edits!BeginWrite, Edits!Begin, Edits!At
  <2>2. disk.count + 1 \in 0..MaxChanges
    BY <1>b, <2>1 DEF EditLimits, DiskType
  <2>3. x \in EditCall /\ x.pc = "loaded" /\ x.kind = "write"
    BY <1>1, <1>d, <2>2 DEF EditCall, EditSteps
  <2> HIDE DEF x
  <2>4. disk' \in DiskType /\ disk'.text = disk.text /\ disk'.torn = disk.torn
          /\ disk'.mtime = disk.mtime /\ disk'.clock = disk.clock
    BY <1>b, <2>1, <2>2 DEF DiskType
  <2> QED
    BY <1>b, <1>c, <2>1, <2>3, <2>4, OneCallMoves
\* A call is over: it saw the file, or failed.
<1>5. ASSUME NEW c \in Caller, Edits!Ends(c)
      PROVE  /\ call' = [call EXCEPT ![c] = Edits!Idle]
             /\ told' \in [Task -> {"unread", "known", "news"}] /\ told'[call[c].task] = "known"
             /\ \A t \in Task : told'[t] = "news" => told[t] = "news" /\ t # call[c].task
  <2>1. call[c].task \in Task
    BY <1>b DEF EditCall
  <2> QED
    BY <1>5, <1>b, <2>1 DEF Edits!Ends
<1>6. ASSUME NEW c \in Caller, Edits!ReadText(c) \/ Edits!Unchanged(c) PROVE EditInv'
  <2>1. Edits!Ends(c) /\ UNCHANGED <<disk, stamps, lock>>
    BY <1>6 DEF Edits!ReadText, Edits!Unchanged
  <2> QED
    BY <1>a, <1>b, <1>c, <1>d, <1>5, <2>1, OneCallMoves
<1>7. ASSUME NEW c \in Caller, Edits!NoteTime(c) PROVE EditInv'
  <2>1. Edits!Ends(c) /\ UNCHANGED <<disk, lock>>
    BY <1>7 DEF Edits!NoteTime
  <2>2. call[c].task \in Task /\ call[c].name \in Spelling
    BY <1>b DEF EditCall
  <2>3. Edits!StampKey(c) \in Spelling
    BY <2>2, ResolvedSpelling DEF Edits!StampKey
  <2>4. /\ DOMAIN stamps' = Task /\ \A u \in Task \ {call[c].task} : stamps'[u] = stamps[u]
        /\ DOMAIN stamps'[call[c].task] \subseteq Spelling
        /\ \A k \in DOMAIN stamps'[call[c].task] :
             stamps'[call[c].task][k] \in Nat /\ stamps'[call[c].task][k] <= disk.mtime
    <3>1. CASE Edits!Visible(Edits!StampKey(c))
      <4>1. Edits!Record(call[c].task, Edits!StampKey(c))
        BY <1>7, <3>1 DEF Edits!NoteTime
      <4> QED
        BY <1>a, <2>2, <2>3, <4>1, Noting
    <3>2. CASE ~Edits!Visible(Edits!StampKey(c))
      <4>1. stamps' = stamps
        BY <1>7, <3>2 DEF Edits!NoteTime
      <4> QED
        BY <1>b, <2>2, <4>1
    <3> QED
      BY <3>1, <3>2
  <2>5. \A u \in Task : DOMAIN stamps'[u] \subseteq Spelling
             /\ \A k \in DOMAIN stamps'[u] : stamps'[u][k] \in Nat /\ stamps'[u][k] <= disk.mtime
    BY <1>b, <2>4
  <2> QED
    BY <1>b, <1>c, <1>d, <1>5, <2>1, <2>4, <2>5, OneCallMoves
<1>8. ASSUME NEW c \in Caller, Edits!NoMatch(c) \/ Edits!WriteFails(c) PROVE EditInv'
  <2>1. /\ call[c].pc \in {"locked", "loaded", "failed"} /\ lock' = Edits!Unlocked(c)
        /\ call' = [call EXCEPT ![c] = Edits!Idle]
        /\ UNCHANGED <<disk, stamps, told>>
    BY <1>8 DEF Edits!NoMatch, Edits!WriteFails, Edits!At, Edits!Fails
  <2>2. lock' \in [Spelling -> Caller \union {"free"}]
          /\ \A k \in Spelling : lock[k] # c => lock'[k] = lock[k]
    BY <1>b, <2>1 DEF Edits!Unlocked
  <2>3. \A d \in Caller : Edits!Resolved(call[d].name) \in Spelling
    BY <1>b, ResolvedSpelling DEF EditCall
  <2>4. \A d \in Caller \ {c} : Editing(d) => lock'[Edits!Resolved(call[d].name)] = d
    BY <1>c, <2>2, <2>3
  <2> QED
    BY <1>b, <1>d, <2>1, <2>2, <2>4, OneCallMoves
<1>9. ASSUME NEW c \in Caller, Edits!TakeLock(c) PROVE EditInv'
  <2> DEFINE x == [call[c] EXCEPT !.pc = "locked"]
  <2> DEFINE k == Edits!Resolved(call[c].name)
  <2>1. /\ call[c].pc = "checked" /\ lock[k] = "free" /\ lock' = [lock EXCEPT ![k] = c]
        /\ call' = [call EXCEPT ![c] = x] /\ UNCHANGED <<disk, stamps, told>>
    BY <1>9 DEF Edits!TakeLock, Edits!At, Edits!Goto
  <2>2. \A d \in Caller : Edits!Resolved(call[d].name) \in Spelling
    BY <1>b, ResolvedSpelling DEF EditCall
  <2>3. x \in EditCall /\ x.pc = "locked" /\ x.kind = call[c].kind /\ x.task = call[c].task
          /\ x.name = call[c].name /\ x.due = call[c].due /\ x.warned = call[c].warned
    BY <1>b DEF EditCall, EditSteps
  <2>4. call[c].kind # "read"
    BY <1>a, <2>1 DEF EditType
  <2>5. lock' \in [Spelling -> Caller \union {"free"}] /\ lock'[k] = c
          /\ \A j \in Spelling \ {k} : lock'[j] = lock[j]
    BY <1>b, <2>1, <2>2
  <2>6. \A d \in Caller \ {c} : Editing(d) => lock'[Edits!Resolved(call[d].name)] = d
    BY <1>c, <2>1, <2>2, <2>5 DEF EditLimits
  <2>7. x.kind = "edit" /\ x.name \in x.due /\ Edits!Visible(x.name) => x.warned
    BY <1>a, <2>3 DEF DueInv
  <2>8. lock'[Edits!Resolved(x.name)] = c
    BY <2>3, <2>5
  <2> HIDE DEF x, k
  <2>9. call[c].pc # "reading" /\ x.pc # "loaded" /\ stamps' = stamps /\ told' = told
    BY <2>1, <2>3
  <2>10. /\ disk' \in DiskType /\ disk'.text = disk.text /\ disk'.torn = disk.torn
         /\ disk'.mtime = disk.mtime /\ disk'.clock = disk.clock
    BY <1>b, <2>1
  <2>11. lock' \in [Spelling -> Caller \union {"free"}]
    BY <1>b, <2>5
  <2>12. \A t \in Task : told'[t] = "news" =>
           told[t] = "news" /\ stamps'[t] = stamps[t] /\ ~(call[c].pc = "reading" /\ call[c].task = t)
    BY <2>9
  <2> QED
    <3>1. /\ told' \in [Task -> {"unread", "known", "news"}] /\ DOMAIN stamps' = Task
          /\ \A t \in Task : DOMAIN stamps'[t] \subseteq Spelling
                 /\ \A j \in DOMAIN stamps'[t] : stamps'[t][j] \in Nat /\ stamps'[t][j] <= disk.mtime
      BY <1>b, <2>9
    <3>2. call' = [call EXCEPT ![c] = x] /\ x \in EditCall /\ (x.kind = "read" => x.pc \in {"idle", "reading"})
      BY <2>1, <2>3, <2>4
    <3>3. x.kind = "edit" /\ x.pc \in {"locked", "loaded", "emptied"} =>
            /\ lock'[Edits!Resolved(x.name)] = c
            /\ x.pc = "loaded" /\ ~x.meddled => disk.text = x.base /\ ~disk.torn
      BY <2>8, <2>9
    <3>4. \A t \in Task : told'[t] = "news" =>
           \/ x.pc = "reading" /\ x.task = t
           \/ /\ told[t] = "news" /\ stamps'[t] = stamps[t]
              /\ ~(call[c].pc = "reading" /\ call[c].task = t)
      BY <2>12
    <3>5. EditInv /\ c \in Caller
      OBVIOUS
    <3> QED
      BY <2>6, <2>7, <2>10, <2>11, <3>1, <3>2, <3>3, <3>4, <3>5, OneCallMoves
<1>10. ASSUME NEW c \in Caller, Edits!LoadBase(c) PROVE EditInv'
  <2> DEFINE x == [call[c] EXCEPT !.pc = "loaded", !.base = disk.text, !.meddled = FALSE]
  <2>1. /\ call[c].pc = "locked" /\ ~disk.torn
        /\ call' = [call EXCEPT ![c] = x] /\ UNCHANGED <<disk, stamps, lock, told>>
    BY <1>10 DEF Edits!LoadBase, Edits!At
  <2>2. disk.text \in SUBSET (0..MaxChanges) /\ call[c] \in EditCall
    BY <1>b DEF DiskType
  <2>3. x \in EditCall /\ x.pc = "loaded" /\ x.kind = call[c].kind /\ x.task = call[c].task
          /\ x.name = call[c].name /\ x.due = call[c].due /\ x.warned = call[c].warned
          /\ x.base = disk.text
    BY <2>2 DEF EditCall, EditSteps
  <2>4. call[c].kind # "read"
    BY <1>a, <2>1 DEF EditType
  <2>5. x.kind = "edit" => lock[Edits!Resolved(x.name)] = c
    BY <1>c, <2>1, <2>3 DEF Editing
  <2>6. x.kind = "edit" /\ x.name \in x.due /\ Edits!Visible(x.name) => x.warned
    BY <1>a, <2>3 DEF DueInv
  <2> HIDE DEF x
  <2> QED
    BY <1>b, <1>c, <2>1, <2>3, <2>4, <2>5, <2>6, OneCallMoves
\* The file is emptied and filled: no other edit of its path is between reading and writing.
<1>11. ASSUME NEW c \in Caller, call[c].pc \in {"loaded", "emptied"} 
       PROVE  /\ call[c].kind # "read" /\ Edits!Result(c) \in SUBSET (0..MaxChanges)
              /\ \A d \in Caller \ {c} : Editing(d) /\ call[d].pc = "loaded" => Spoils(c, d)
  <2>1. call[c].kind \in {"edit", "write"}
    BY <1>a, <1>b, <1>11 DEF EditType, EditCall
  <2>2. ASSUME NEW d \in Caller \ {c}, Editing(d), call[d].pc = "loaded", ~Spoils(c, d) PROVE FALSE
    <3>1. Editing(c) /\ Edits!Resolved(call[c].name) = Edits!Resolved(call[d].name)
      BY <1>11, <2>1, <2>2 DEF Spoils, Editing
    <3> QED
      BY <1>c, <2>2, <3>1
  <2>3. call[c].base \in SUBSET (0..MaxChanges) /\ call[c].id \in 0..MaxChanges
    BY <1>b DEF EditCall
  <2> QED
    BY <2>1, <2>2, <2>3 DEF Edits!Result
<1>12. ASSUME NEW c \in Caller, NEW later \in BOOLEAN, Edits!Truncate(c, later) PROVE EditInv'
  <2>1. /\ call[c].pc = "loaded" /\ disk' = Edits!Changed({}, TRUE, later)
        /\ call' = [Edits!Meddle(c) EXCEPT ![c].pc = "emptied"] /\ told' = Edits!Heard(later)
        /\ UNCHANGED <<stamps, lock>>
    BY <1>12 DEF Edits!Truncate, Edits!At
  <2>0. {} \in SUBSET (0..MaxChanges)
    OBVIOUS
  <2>2. /\ disk' \in DiskType /\ disk'.mtime <= disk'.clock /\ disk.mtime <= disk'.mtime
        /\ later => disk.mtime < disk'.mtime
        /\ ~later => disk'.mtime = disk.mtime
    BY <1>a, <2>0, <2>1, Changing DEF DiskType
  <2>3. /\ call' \in [Caller -> EditCall] /\ SameButMeddled(c, "emptied")
        /\ \A d \in Caller \ {c} : SameButMeddled(d, call[d].pc) /\ (Spoils(c, d) => call'[d].meddled)
        /\ \A d \in Caller : call'[d].kind = "read" => call'[d].pc \in {"idle", "reading"}
    BY <1>a, <1>11, <2>1, Meddling DEF EditSteps
  <2>4. /\ \A d \in Caller : SameButMeddled(d, call'[d].pc)
        /\ \A d \in Caller : call[d].pc = "reading" => call'[d].pc = "reading"
    BY <2>1, <2>3 DEF SameButMeddled
  <2>5. ASSUME NEW d \in Caller, Editing(d)'
        PROVE  lock'[Edits!Resolved(call[d].name)] = d /\ (call'[d].pc = "loaded" => call'[d].meddled)
    <3>1. CASE d = c
      BY <1>c, <2>1, <2>3, <2>5, <3>1 DEF SameButMeddled, Editing
    <3>2. CASE d # c
      BY <1>c, <1>11, <2>1, <2>3, <2>5, <3>2 DEF SameButMeddled, Editing
    <3> QED
      BY <3>1, <3>2
  <2> QED
    BY <1>b, <2>1, <2>2, <2>3, <2>4, <2>5, TextChanges
<1>13. ASSUME NEW c \in Caller, NEW later \in BOOLEAN, Edits!Fill(c, later) PROVE EditInv'
  <2>1. /\ call[c].pc = "emptied" /\ disk' = Edits!Changed(Edits!Result(c), FALSE, later)
        /\ call' = [Edits!Meddle(c) EXCEPT ![c].pc = "written"] /\ told' = Edits!Heard(later)
        /\ lock' = Edits!Unlocked(c) /\ UNCHANGED stamps
    BY <1>13 DEF Edits!Fill, Edits!At
  <2>0. {} \in SUBSET (0..MaxChanges)
    OBVIOUS
  <2>2. /\ disk' \in DiskType /\ disk'.mtime <= disk'.clock /\ disk.mtime <= disk'.mtime
        /\ later => disk.mtime < disk'.mtime
        /\ ~later => disk'.mtime = disk.mtime
    BY <1>a, <1>11, <2>0, <2>1, Changing DEF DiskType
  <2>3. /\ call' \in [Caller -> EditCall] /\ SameButMeddled(c, "written")
        /\ \A d \in Caller \ {c} : SameButMeddled(d, call[d].pc) /\ (Spoils(c, d) => call'[d].meddled)
        /\ \A d \in Caller : call'[d].kind = "read" => call'[d].pc \in {"idle", "reading"}
    BY <1>a, <1>11, <2>1, Meddling DEF EditSteps
  <2>4. /\ \A d \in Caller : SameButMeddled(d, call'[d].pc)
        /\ \A d \in Caller : call[d].pc = "reading" => call'[d].pc = "reading"
    BY <2>1, <2>3 DEF SameButMeddled
  <2>5. lock' \in [Spelling -> Caller \union {"free"}]
          /\ \A k \in Spelling : lock[k] # c => lock'[k] = lock[k]
    BY <1>b, <2>1 DEF Edits!Unlocked
  <2>6. ASSUME NEW d \in Caller, Editing(d)'
        PROVE  lock'[Edits!Resolved(call[d].name)] = d /\ (call'[d].pc = "loaded" => call'[d].meddled)
    <3>1. d # c
      BY <2>3, <2>6 DEF SameButMeddled, Editing
    <3>2. Edits!Resolved(call[d].name) \in Spelling
      BY <1>b, ResolvedSpelling DEF EditCall
    <3>3. Editing(d) /\ lock[Edits!Resolved(call[d].name)] = d
      BY <1>c, <2>3, <2>6, <3>1 DEF SameButMeddled, Editing
    <3>4. call'[d].pc = "loaded" => call'[d].meddled
      BY <1>11, <2>1, <2>3, <3>1, <3>3 DEF SameButMeddled
    <3> QED
      BY <2>5, <3>1, <3>2, <3>3, <3>4
  <2> QED
    BY <2>1, <2>2, <2>3, <2>4, <2>5, <2>6, TextChanges
<1>16. ASSUME NEW c \in Caller, NEW later \in BOOLEAN, Edits!CutShort(c, later) PROVE EditInv'
  <2>0. PICK text \in SUBSET Edits!Result(c) : disk' = Edits!Changed(text, FALSE, later)
    BY <1>16 DEF Edits!CutShort
  <2>1. /\ call[c].pc = "emptied" /\ call' = [Edits!Meddle(c) EXCEPT ![c].pc = "failed"]
        /\ told' = Edits!Heard(later) /\ UNCHANGED <<stamps, lock>>
    BY <1>16 DEF Edits!CutShort, Edits!At
  <2>2. text \in SUBSET (0..MaxChanges)
    BY <1>11, <2>0, <2>1
  <2>3. /\ disk' \in DiskType /\ disk'.mtime <= disk'.clock /\ disk.mtime <= disk'.mtime
        /\ later => disk.mtime < disk'.mtime
        /\ ~later => disk'.mtime = disk.mtime
    BY <1>a, <2>0, <2>2, Changing DEF DiskType
  <2>4. /\ call' \in [Caller -> EditCall] /\ SameButMeddled(c, "failed")
        /\ \A d \in Caller \ {c} : SameButMeddled(d, call[d].pc) /\ (Spoils(c, d) => call'[d].meddled)
        /\ \A d \in Caller : call'[d].kind = "read" => call'[d].pc \in {"idle", "reading"}
    BY <1>a, <1>11, <2>1, Meddling DEF EditSteps
  <2>5. /\ \A d \in Caller : SameButMeddled(d, call'[d].pc)
        /\ \A d \in Caller : call[d].pc = "reading" => call'[d].pc = "reading"
    BY <2>1, <2>4 DEF SameButMeddled
  <2>6. ASSUME NEW d \in Caller, Editing(d)'
        PROVE  lock'[Edits!Resolved(call[d].name)] = d /\ (call'[d].pc = "loaded" => call'[d].meddled)
    <3>1. d # c
      BY <2>4, <2>6 DEF SameButMeddled, Editing
    <3> QED
      BY <1>c, <1>11, <2>1, <2>4, <2>6, <3>1 DEF SameButMeddled, Editing
  <2> QED
    BY <1>b, <2>1, <2>3, <2>4, <2>5, <2>6, TextChanges
<1>14. ASSUME NEW later \in BOOLEAN, Edits!Outside(later) PROVE EditInv'
  <2>1. /\ disk.count < MaxChanges /\ told' = Edits!Heard(later) /\ UNCHANGED <<stamps, lock>>
        /\ disk' = [Edits!Changed({disk.count + 1}, FALSE, later) EXCEPT !.count = disk.count + 1]
        /\ call' = [d \in Caller |-> IF call[d].pc = "loaded" THEN [call[d] EXCEPT !.meddled = TRUE] ELSE call[d]]
    BY <1>14 DEF Edits!Outside, Edits!At
  <2>2. disk.count + 1 \in 0..MaxChanges /\ {disk.count + 1} \in SUBSET (0..MaxChanges)
    BY <1>b, <2>1 DEF EditLimits, DiskType
  <2> DEFINE e == Edits!Changed({disk.count + 1}, FALSE, later)
  <2>3. /\ e \in DiskType /\ e.mtime <= e.clock /\ disk.mtime <= e.mtime
        /\ later => disk.mtime < e.mtime
        /\ ~later => e.mtime = disk.mtime
    BY <1>a, <2>2, Changing DEF DiskType
  <2> HIDE DEF e
  <2>4. disk' \in DiskType /\ disk'.mtime = e.mtime /\ disk'.clock = e.clock
    BY <2>1, <2>2, <2>3 DEF DiskType, e
  <2>5. ASSUME NEW d \in Caller
        PROVE  /\ call'[d] \in EditCall /\ SameButMeddled(d, call[d].pc)
               /\ call[d].pc = "loaded" => call'[d].meddled
    <3>1. call[d] \in EditCall
      BY <1>b
    <3>2. CASE call[d].pc = "loaded"
      <4>1. call'[d] = [call[d] EXCEPT !.meddled = TRUE]
        BY <2>1, <3>2
      <4> QED
        BY <3>1, <4>1 DEF SameButMeddled, EditCall
    <3>3. CASE call[d].pc # "loaded"
      <4>1. call'[d] = call[d]
        BY <2>1, <3>3
      <4> QED
        BY <3>1, <3>3, <4>1 DEF SameButMeddled
    <3> QED
      BY <3>2, <3>3
  <2>6. /\ call' \in [Caller -> EditCall]
        /\ \A d \in Caller : call'[d].kind = "read" => call'[d].pc \in {"idle", "reading"}
        /\ \A d \in Caller : SameButMeddled(d, call'[d].pc)
        /\ \A d \in Caller : call[d].pc = "reading" => call'[d].pc = "reading"
    <3>1. call' = [d \in Caller |-> call'[d]]
      BY <2>1
    <3> QED
      BY <1>a, <2>5, <3>1 DEF SameButMeddled, EditType
  <2>7. \A d \in Caller : Editing(d)' =>
          lock'[Edits!Resolved(call[d].name)] = d /\ (call'[d].pc = "loaded" => call'[d].meddled)
    BY <1>c, <2>1, <2>5 DEF SameButMeddled, Editing
  <2> QED
    BY <1>b, <2>1, <2>3, <2>4, <2>6, <2>7, TextChanges
<1>15. CASE UNCHANGED Edits!vars
  BY <1>15 DEF Edits!vars, EditInv, EditType, LockInv, NewsInv, DueInv, Editing, Reads, Edits!Visible
<1> QED
  BY <1>2, <1>3, <1>4, <1>6, <1>7, <1>8, <1>9, <1>10, <1>12, <1>13, <1>14, <1>15, <1>16 DEF Edits!Next

LEMMA EditGives == EditInv => Edits!EditsKeepEachOther /\ Edits!ChangesAreTold
BY DEF EditInv, LockInv, DueInv, Editing, Edits!EditsKeepEachOther, Edits!ChangesAreTold, Edits!At

(***************************************************************************)
(* Lists of todos                                                          *)
(***************************************************************************)
\* What a submitted item becomes in the table, and a call.
TodoRow == {[item EXCEPT !.status = Todo!Status(item)] : item \in Item}
TodoCall == [step : {"none", "write", "read", "answered", "failed"},
             list : Seq(TodoRow), answer : Seq(TodoRow)]
Distinct(list) == \A i, j \in 1..Len(list) : list[i].id = list[j].id => i = j
\* A transaction holds the first rows of the list its call submitted, no id among them twice.
TxInv ==
  tx # Todo!NoTx =>
    /\ tx.by \in Owner /\ writes[tx.by].step = "write"
    /\ tx = [by |-> tx.by, rows |-> tx.rows] /\ tx.rows \in Seq(TodoRow) /\ Distinct(tx.rows)
    /\ Len(tx.rows) <= Len(writes[tx.by].list)
    /\ \A i \in 1..Len(tx.rows) : tx.rows[i] = writes[tx.by].list[i]
SentInv(s) ==
  /\ << >> \in sent[s] /\ todos[s] \in sent[s] /\ writes[s].answer \in sent[s]
  /\ writes[s].step = "write" => writes[s].list \in sent[s]
  /\ todos[s] \in Seq(TodoRow) /\ Distinct(todos[s])
TodoInv ==
  /\ todos \in [Owner -> Seq(TodoRow)] /\ writes \in [Owner -> TodoCall] /\ DOMAIN sent = Owner
  /\ TxInv /\ \A s \in Owner : SentInv(s)

LEMMA TodoStart == Todo!Init => TodoInv
<1> SUFFICES ASSUME Todo!Init PROVE TodoInv
  OBVIOUS
<1>1. << >> \in Seq(TodoRow) /\ Len(<< >>) = 0
  OBVIOUS
<1>2. Todo!NoCall \in TodoCall
  BY <1>1 DEF Todo!NoCall, TodoCall
<1> QED
  BY <1>1, <1>2 DEF Todo!Init, TodoInv, TxInv, SentInv, Distinct, Todo!NoCall

\* One call changes, and the transaction with it at most.
LEMMA OneWrite ==
  ASSUME TodoInv, NEW s \in Owner, NEW mine \in TodoCall, Todo!Set(s, mine), todos' = todos,
         tx' = tx \/ tx' = Todo!NoTx, tx # Todo!NoTx /\ tx.by = s => tx' = Todo!NoTx,
         sent' = sent \/ sent' = [sent EXCEPT ![s] = @ \cup {mine.list}],
         mine.answer \in sent[s], mine.step = "write" => mine.list \in sent'[s]
  PROVE  TodoInv'
<1>1. /\ writes' \in [Owner -> TodoCall] /\ writes'[s] = mine
      /\ \A u \in Owner \ {s} : writes'[u] = writes[u]
  BY DEF TodoInv, Todo!Set
<1>2. DOMAIN sent' = Owner /\ \A u \in Owner : sent[u] \subseteq sent'[u]
  BY DEF TodoInv
<1>3. TxInv'
  <2> SUFFICES ASSUME tx' # Todo!NoTx PROVE TxInv'
    BY DEF TxInv, Todo!NoTx
  <2>1. tx' = tx /\ tx.by # s /\ tx # Todo!NoTx
    OBVIOUS
  <2>2. tx.by \in Owner /\ writes'[tx.by] = writes[tx.by]
    BY <1>1, <2>1 DEF TodoInv, TxInv
  <2> QED
    BY <2>1, <2>2 DEF TodoInv, TxInv, Distinct
<1>4. ASSUME NEW u \in Owner PROVE SentInv(u)'
  BY <1>1, <1>2 DEF TodoInv, SentInv, Distinct
<1> QED
  BY <1>1, <1>2, <1>3, <1>4 DEF TodoInv

LEMMA TodoStep == MaxItems \in Nat /\ TodoInv /\ [Todo!Next]_Todo!vars => TodoInv'
<1> SUFFICES ASSUME MaxItems \in Nat, TodoInv, [Todo!Next]_Todo!vars PROVE TodoInv'
  OBVIOUS
<1>a. << >> \in Seq(TodoRow) /\ Todo!NoCall \in TodoCall
  BY DEF TodoCall, Todo!NoCall
<1>b. \A step \in {"none", "write", "read", "answered", "failed"} :
        [Todo!NoCall EXCEPT !.step = step] \in TodoCall
  BY <1>a DEF TodoCall
<1>1. ASSUME NEW s \in Owner, NEW list \in Todo!Lists, Todo!Submit(s, list) PROVE TodoInv'
  <2>1. PICK n \in Nat : list \in [1..n -> Item]
    BY <1>1 DEF Todo!Lists
  <2>2. Todo!Cleaned(list) \in [1..n -> TodoRow]
    BY <2>1 DEF Todo!Cleaned, TodoRow
  <2>3. Todo!Cleaned(list) \in Seq(TodoRow)
    BY <2>2
  <2>4. tx # Todo!NoTx => tx.by # s
    BY <1>1 DEF Todo!Submit, Todo!Idle, TodoInv, TxInv
  <2>5. << >> \in sent[s] /\ UNCHANGED <<todos, tx>>
    BY <1>1 DEF TodoInv, SentInv, Todo!Submit
  <2>6. CASE Todo!Accepted(list)
    <3> DEFINE mine == [Todo!NoCall EXCEPT !.step = "write", !.list = Todo!Cleaned(list)]
    <3>1. mine \in TodoCall /\ mine.list = Todo!Cleaned(list) /\ mine.answer = << >> /\ mine.step = "write"
      BY <2>3, <1>a DEF Todo!NoCall, TodoCall
    <3>2. Todo!Set(s, mine) /\ sent' = [sent EXCEPT ![s] = @ \cup {mine.list}]
      BY <1>1, <2>6, <3>1 DEF Todo!Submit
    <3>3. mine.list \in sent'[s]
      BY <3>2 DEF TodoInv
    <3> HIDE DEF mine
    <3> QED
      BY <3>1, <3>2, <3>3, <2>4, <2>5, OneWrite
  <2>7. CASE ~Todo!Accepted(list)
    <3> DEFINE mine == [Todo!NoCall EXCEPT !.step = "failed"]
    <3>1. mine \in TodoCall /\ mine.answer = << >> /\ mine.step = "failed"
      BY <1>b DEF Todo!NoCall
    <3>2. Todo!Set(s, mine) /\ sent' = sent
      BY <1>1, <2>7 DEF Todo!Submit
    <3> HIDE DEF mine
    <3> QED
      BY <3>1, <3>2, <2>4, <2>5, OneWrite
  <2> QED
    BY <2>6, <2>7
<1>2. ASSUME NEW s \in Owner, Todo!Ask(s) PROVE TodoInv'
  <2> DEFINE mine == [Todo!NoCall EXCEPT !.step = "read"]
  <2>1. mine \in TodoCall /\ mine.answer = << >> /\ mine.step = "read"
    BY <1>b DEF Todo!NoCall
  <2>2. Todo!Set(s, mine) /\ UNCHANGED <<todos, tx, sent>>
    BY <1>2 DEF Todo!Ask
  <2>3. (tx # Todo!NoTx => tx.by # s) /\ << >> \in sent[s]
    BY <1>2 DEF Todo!Ask, Todo!Idle, TodoInv, TxInv, SentInv
  <2> HIDE DEF mine
  <2> QED
    BY <2>1, <2>2, <2>3, OneWrite
<1>3. ASSUME NEW s \in Owner, Todo!BeginWrite(s) PROVE TodoInv'
  <2>1. /\ tx' = [by |-> s, rows |-> << >>] /\ tx'.by = s /\ tx'.rows = << >>
        /\ writes[s].step = "write" /\ UNCHANGED <<todos, writes, sent>>
    BY <1>3 DEF Todo!BeginWrite
  <2>2. writes[s].list \in Seq(TodoRow) /\ Len(writes[s].list) \in Nat
    BY DEF TodoInv, TodoCall
  <2>3. Distinct(<< >>) /\ Len(<< >>) = 0
    BY DEF Distinct
  <2>4. TxInv'
    BY <1>a, <2>1, <2>2, <2>3 DEF TxInv, Distinct
  <2>5. \A u \in Owner : SentInv(u)'
    BY <2>1 DEF TodoInv, SentInv, Distinct
  <2> QED
    BY <2>1, <2>4, <2>5 DEF TodoInv
<1>4. CASE Todo!InsertRow
  <2> DEFINE s == tx.by
  <2> DEFINE row == writes[s].list[Len(tx.rows) + 1]
  <2>1. /\ tx # Todo!NoTx /\ Len(tx.rows) < Len(writes[s].list) /\ ~Todo!Taken(row.id)
        /\ tx' = [tx EXCEPT !.rows = Append(tx.rows, row)] /\ UNCHANGED <<todos, writes, sent>>
    BY <1>4 DEF Todo!InsertRow, Todo!Written
  <2>2. /\ s \in Owner /\ tx = [by |-> s, rows |-> tx.rows] /\ tx.rows \in Seq(TodoRow)
        /\ Distinct(tx.rows) /\ \A i \in 1..Len(tx.rows) : tx.rows[i] = writes[s].list[i]
        /\ writes[s].step = "write"
    BY <2>1 DEF TodoInv, TxInv
  <2>3. writes[s].list \in Seq(TodoRow)
    BY <2>2 DEF TodoInv, TodoCall
  <2>4. row \in TodoRow /\ Len(tx.rows) \in Nat
    BY <2>1, <2>2, <2>3
  <2>5. tx' = [by |-> s, rows |-> Append(tx.rows, row)]
    BY <2>1, <2>2
  <2>6. tx'.by = s /\ tx'.rows = Append(tx.rows, row)
    BY <2>5
  <2>7. /\ tx'.rows \in Seq(TodoRow) /\ Len(tx'.rows) = Len(tx.rows) + 1
        /\ tx'.rows[Len(tx.rows) + 1] = row /\ \A i \in 1..Len(tx.rows) : tx'.rows[i] = tx.rows[i]
    BY <2>2, <2>4, <2>6, AppendProperties
  <2>8. \A i \in 1..Len(tx.rows) : tx.rows[i].id # row.id
    BY <2>1, <2>2 DEF Todo!Taken
  <2> HIDE DEF row
  <2>9. Distinct(tx'.rows)
    <3> SUFFICES ASSUME NEW i \in 1..Len(tx.rows) + 1, NEW j \in 1..Len(tx.rows) + 1,
                        tx'.rows[i].id = tx'.rows[j].id
                 PROVE  i = j
      BY <2>7 DEF Distinct
    <3>1. CASE i = Len(tx.rows) + 1 \/ j = Len(tx.rows) + 1
      <4>1. tx'.rows[Len(tx.rows) + 1].id = row.id /\ \A k \in 1..Len(tx.rows) : tx'.rows[k].id # row.id
        BY <2>7, <2>8
      <4>2. i \in 1..Len(tx.rows) \/ i = Len(tx.rows) + 1
        BY <2>4
      <4>3. j \in 1..Len(tx.rows) \/ j = Len(tx.rows) + 1
        BY <2>4
      <4> QED
        BY <3>1, <4>1, <4>2, <4>3
    <3>2. CASE i \in 1..Len(tx.rows) /\ j \in 1..Len(tx.rows)
      BY <3>2, <2>2, <2>7 DEF Distinct
    <3> QED
      BY <3>1, <3>2, <2>4
  <2>10. \A i \in 1..Len(tx'.rows) : tx'.rows[i] = writes[s].list[i]
    BY <2>2, <2>4, <2>7 DEF row
  <2>11. Len(tx'.rows) <= Len(writes[s].list)
    BY <2>1, <2>3, <2>4, <2>7
  <2>12. TxInv'
    BY <2>1, <2>2, <2>5, <2>6, <2>7, <2>9, <2>10, <2>11 DEF TxInv, Distinct
  <2>13. \A u \in Owner : SentInv(u)'
    BY <2>1 DEF TodoInv, SentInv, Distinct
  <2> QED
    BY <2>1, <2>12, <2>13 DEF TodoInv
<1>5. CASE Todo!InsertFails
  <2> DEFINE mine == [Todo!NoCall EXCEPT !.step = "failed"]
  <2>1. mine \in TodoCall /\ mine.answer = << >> /\ mine.step = "failed"
    BY <1>b DEF Todo!NoCall
  <2>2. /\ Todo!Set(tx.by, mine) /\ tx' = Todo!NoTx /\ UNCHANGED <<todos, sent>>
        /\ tx # Todo!NoTx
    BY <1>5 DEF Todo!InsertFails, Todo!RolledBack
  <2>3. tx.by \in Owner /\ << >> \in sent[tx.by]
    BY <2>2 DEF TodoInv, TxInv, SentInv
  <2> HIDE DEF mine
  <2> QED
    BY <2>1, <2>2, <2>3, OneWrite
<1>6. CASE Todo!Commit
  <2>0. PICK s \in Owner : s = tx.by /\ tx # Todo!NoTx
    BY <1>6 DEF Todo!Commit, TodoInv, TxInv
  <2> DEFINE mine == [writes[s] EXCEPT !.step = "read"]
  <2>1. /\ tx # Todo!NoTx /\ Len(tx.rows) = Len(writes[s].list) /\ tx' = Todo!NoTx /\ sent' = sent
        /\ todos' = [todos EXCEPT ![s] = tx.rows] /\ writes' = [writes EXCEPT ![s] = mine]
    BY <1>6, <2>0 DEF Todo!Commit, Todo!Written, Todo!Set
  <2>2. /\ tx.rows \in Seq(TodoRow) /\ Distinct(tx.rows)
        /\ \A i \in 1..Len(tx.rows) : tx.rows[i] = writes[s].list[i]
        /\ writes[s].step = "write"
    BY <2>0, <2>1 DEF TodoInv, TxInv
  <2>3. writes[s].list \in Seq(TodoRow) /\ writes[s] \in TodoCall
    BY <2>2 DEF TodoInv, TodoCall
  <2>4. tx.rows = writes[s].list
    BY <2>1, <2>2, <2>3, SeqEqual
  <2>5. mine \in TodoCall /\ mine.answer = writes[s].answer /\ mine.step = "read"
    BY <2>3 DEF TodoCall
  <2> HIDE DEF mine
  <2>6. /\ todos' \in [Owner -> Seq(TodoRow)] /\ writes' \in [Owner -> TodoCall]
        /\ todos'[s] = tx.rows /\ writes'[s] = mine
        /\ \A u \in Owner \ {s} : todos'[u] = todos[u] /\ writes'[u] = writes[u]
    BY <2>1, <2>2, <2>5 DEF TodoInv
  <2>7. SentInv(s)'
    BY <2>1, <2>2, <2>4, <2>5, <2>6 DEF TodoInv, SentInv, Distinct
  <2>8. \A u \in Owner \ {s} : SentInv(u)'
    BY <2>1, <2>6 DEF TodoInv, SentInv, Distinct
  <2>9. TxInv'
    BY <2>1 DEF TxInv, Todo!NoTx
  <2> QED
    BY <2>0, <2>1, <2>6, <2>7, <2>8, <2>9 DEF TodoInv
<1>7. ASSUME NEW s \in Owner, Todo!ReadBack(s) PROVE TodoInv'
  <2> DEFINE mine == [writes[s] EXCEPT !.step = "answered", !.answer = todos[s]]
  <2>1. writes[s] \in TodoCall /\ todos[s] \in Seq(TodoRow) /\ todos[s] \in sent[s]
    BY DEF TodoInv, SentInv
  <2>2. mine \in TodoCall /\ mine.answer = todos[s] /\ mine.step = "answered"
    BY <2>1 DEF TodoCall
  <2>3. Todo!Set(s, mine) /\ UNCHANGED <<todos, tx, sent>> /\ writes[s].step = "read"
    BY <1>7 DEF Todo!ReadBack
  <2>4. tx # Todo!NoTx => tx.by # s
    BY <2>3 DEF TodoInv, TxInv
  <2> HIDE DEF mine
  <2> QED
    BY <2>1, <2>2, <2>3, <2>4, OneWrite
<1>8. ASSUME NEW s \in Owner, Todo!Interrupted(s) PROVE TodoInv'
  <2>1. /\ Todo!Set(s, Todo!NoCall) /\ UNCHANGED <<todos, sent>>
        /\ (tx.by = s => tx' = Todo!NoTx) /\ (tx.by # s => tx' = tx)
    BY <1>8 DEF Todo!Interrupted, Todo!RolledBack
  <2>2. Todo!NoCall.answer = << >> /\ Todo!NoCall.step = "none" /\ << >> \in sent[s]
    BY DEF Todo!NoCall, TodoInv, SentInv
  <2> QED
    BY <1>a, <2>1, <2>2, OneWrite
<1>9. ASSUME NEW s \in Owner, Todo!DeleteSession(s) PROVE TodoInv'
  <2>1. /\ todos' = [u \in Owner |-> IF u = s \/ Parent[u] = s THEN << >> ELSE todos[u]]
        /\ UNCHANGED <<tx, writes, sent>> /\ tx = Todo!NoTx
    BY <1>9 DEF Todo!DeleteSession
  <2>2. todos' \in [Owner -> Seq(TodoRow)] /\ Distinct(<< >>)
    BY <1>a, <2>1 DEF TodoInv, Distinct
  <2>3. ASSUME NEW u \in Owner PROVE SentInv(u)'
    <3>1. todos'[u] = << >> \/ todos'[u] = todos[u]
      BY <2>1
    <3> QED
      BY <1>a, <2>1, <2>2, <3>1 DEF TodoInv, SentInv, Distinct
  <2> QED
    BY <2>1, <2>2, <2>3 DEF TodoInv, TxInv, Todo!NoTx
<1>10. CASE UNCHANGED Todo!vars
  <2>1. TxInv'
    BY <1>10 DEF Todo!vars, TodoInv, TxInv, Distinct
  <2> QED
    BY <1>10, <2>1 DEF Todo!vars, TodoInv, SentInv, Distinct
<1> QED
  BY <1>1, <1>2, <1>3, <1>4, <1>5, <1>6, <1>7, <1>8, <1>9, <1>10 DEF Todo!Next

LEMMA TodoGives == TodoInv => Todo!ListsAreWhole /\ Todo!IdsAreUnique
<1> SUFFICES ASSUME TodoInv PROVE Todo!ListsAreWhole /\ Todo!IdsAreUnique
  OBVIOUS
<1>1. \A s \in Owner : DOMAIN todos[s] = 1..Len(todos[s])
  BY DEF TodoInv
<1> QED
  BY <1>1 DEF TodoInv, SentInv, Distinct, Todo!ListsAreWhole, Todo!IdsAreUnique

(***************************************************************************)
(* The terminal                                                            *)
(***************************************************************************)
CommandLimits ==
  /\ Limit \in Nat /\ MaxLimit \in Nat /\ Requested \subseteq Nat
  /\ MaxKin \in Nat /\ MaxText \in Nat

\* Once the reader is through while the call waits, nobody holds the pipe and nobody will;
\* an answer is given once, and what it is based on is final.
Drained == output.got = process.written /\ process.kin = 0 /\ process.state # "running"
CommandInv ==
  /\ Command!TypeOK
  /\ output.got <= process.written
  /\ command.phase = "new" => process.state = "none" /\ process.kin = 0
  /\ command.phase \in {"waiting", "draining"} /\ ~output.open => Drained
  /\ command.phase = "draining" => process.state = "exited"
  /\ command.phase # "over" => command.answer = "none"
  /\ command.answer = "exit" =>
       process.state = "exited" /\ process.kin = 0 /\ command.shown = process.written
  /\ command.answer = "timed_out" => process.state = "killed" /\ command.clock = command.limit

LEMMA Answering ==
  ASSUME Command!TypeOK, CommandLimits, NEW answer \in Command!Answer, NEW amount \in 0..MaxText,
         command' = Command!Answered(answer, amount)
  PROVE  /\ command' \in [phase : {"new", "waiting", "draining", "over"}, limit : 0..MaxLimit,
                          clock : 0..MaxLimit, cancel : BOOLEAN, answer : Command!Answer,
                          shown : 0..MaxText]
         /\ command'.phase = "over" /\ command'.answer = answer /\ command'.shown = amount
         /\ command'.limit = command.limit /\ command'.clock = command.clock
BY DEF Command!TypeOK, Command!Answered

LEMMA Killing ==
  ASSUME Command!TypeOK, CommandLimits, NEW kin \in 0..process.kin, process' = Command!Killed(kin)
  PROVE  /\ process' \in [state : {"none", "running", "exited", "killed"}, kin : 0..MaxKin,
                          written : 0..MaxText]
         /\ process'.state = "killed" /\ process'.written = process.written
<1>1. kin \in 0..MaxKin
  BY DEF Command!TypeOK, CommandLimits
<1> QED
  BY <1>1 DEF Command!TypeOK, Command!Killed

LEMMA CommandStart == CommandLimits /\ Command!Init => CommandInv
BY DEF CommandLimits, Command!Init, CommandInv, Command!TypeOK, Command!Answer

LEMMA CommandStep == CommandLimits /\ CommandInv /\ [Command!Next]_Command!vars => CommandInv'
<1> SUFFICES ASSUME CommandLimits, CommandInv, [Command!Next]_Command!vars PROVE CommandInv'
  OBVIOUS
<1>0. 0 \in 0..MaxText /\ output.got \in 0..MaxText
         /\ {"refused", "failed", "cancelled", "timed_out", "exit"} \subseteq Command!Answer
  BY DEF CommandInv, CommandLimits, Command!TypeOK, Command!Answer
<1> USE DEF CommandLimits, CommandInv, Drained, Command!TypeOK, Command!Answer
<1>1. CASE Command!Write
  BY <1>1 DEF Command!Write, Command!Holders
<1>2. CASE Command!Fork
  BY <1>2 DEF Command!Fork
<1>3. CASE Command!Exit
  BY <1>3 DEF Command!Exit
<1>4. CASE Command!KinEnds
  BY <1>4 DEF Command!KinEnds
<1>5. CASE Command!Read
  BY <1>5 DEF Command!Read
<1>6. CASE Command!EndOfPipe
  <2>1. process.kin \in Nat /\ process.kin + (IF process.state = "running" THEN 1 ELSE 0) = 0
    BY <1>6 DEF Command!EndOfPipe, Command!Holders
  <2>2. process.kin = 0 /\ process.state # "running"
    BY <2>1
  <2> QED
    BY <1>6, <2>2 DEF Command!EndOfPipe
<1>7. CASE Command!Refuse
  <2>1. command' = Command!Answered("refused", 0)
    BY <1>7 DEF Command!Refuse
  <2> QED
    BY <1>0, <1>7, <2>1, Answering DEF Command!Refuse
<1>8. CASE Command!SpawnFails
  <2>1. command' = Command!Answered("failed", 0)
    BY <1>8 DEF Command!SpawnFails
  <2> QED
    BY <1>0, <1>8, <2>1, Answering DEF Command!SpawnFails
<1>9. ASSUME NEW r \in Requested, Command!Spawn(r) PROVE CommandInv'
  <2>1. Command!TimeLimit(r) \in 0..MaxLimit
    BY DEF Command!TimeLimit, Command!Least
  <2> QED
    BY <1>9, <2>1 DEF Command!Spawn
<1>10. CASE Command!Tick
  BY <1>10 DEF Command!Tick
<1>11. CASE Command!Cancel
  BY <1>11 DEF Command!Cancel
<1>12. CASE Command!Cancelled
  <2>1. PICK kin \in 0..process.kin : process' = Command!Killed(kin)
    BY <1>12 DEF Command!Cancelled
  <2>2. command' = Command!Answered("cancelled", 0) /\ UNCHANGED output
    BY <1>12 DEF Command!Cancelled
  <2> QED
    BY <1>0, <1>12, <2>1, <2>2, Answering, Killing DEF Command!Cancelled
<1>13. CASE Command!TimedOut
  <2>1. PICK kin \in 0..process.kin : process' = Command!Killed(kin)
    BY <1>13 DEF Command!TimedOut
  <2>2. command' = Command!Answered("timed_out", 0) /\ UNCHANGED output
    BY <1>13 DEF Command!TimedOut
  <2> QED
    BY <1>0, <1>13, <2>1, <2>2, Answering, Killing DEF Command!TimedOut
<1>14. CASE Command!WaitEnds
  BY <1>14 DEF Command!WaitEnds
<1>15. CASE Command!WaitFails
  <2>1. command' = Command!Answered("failed", 0)
    BY <1>15 DEF Command!WaitFails
  <2> QED
    BY <1>0, <1>15, <2>1, Answering DEF Command!WaitFails
<1>16. CASE Command!Drained
  <2>1. command' = Command!Answered("exit", output.got)
    BY <1>16 DEF Command!Drained
  <2> QED
    BY <1>0, <1>16, <2>1, Answering DEF Command!Drained
<1>17. CASE UNCHANGED Command!vars
  BY <1>17 DEF Command!vars
<1> QED
  BY <1>1, <1>2, <1>3, <1>4, <1>5, <1>6, <1>7, <1>8, <1>9, <1>10, <1>11, <1>12, <1>13, <1>14, <1>15, <1>16, <1>17 DEF Command!Next, Command!Tool

LEMMA CommandGives == CommandLimits /\ CommandInv => Command!OutputIsWhole /\ Command!LimitsBind
BY DEF CommandLimits, CommandInv, Command!TypeOK, Command!OutputIsWhole, Command!LimitsBind

(***************************************************************************)
(* Subagents                                                               *)
(***************************************************************************)
\* What was shown is Started, the first events the child sent, and Ended once the call has
\* returned; what the pipe holds of a call under way are the events after those.
Closed == errand.state = "over" /\ shown # << >>
Passed == Len(shown) - (IF Closed THEN 2 ELSE 1)
Waits == errand.state \in {"waiting", "leaving"}
ShownInv ==
  shown # << >> =>
    /\ shown[1] = "Started" /\ Passed \in Nat /\ Passed <= Len(said)
    /\ \A i \in 1..Passed : shown[i + 1] = said[i]
    /\ Closed => shown[Len(shown)] = "Ended" /\ ~child.mounted
PipeInv ==
  Waits =>
    /\ shown # << >> /\ Len(said) = Passed + Len(pipe)
    /\ \A i \in 1..Len(pipe) : pipe[i] = said[Passed + i]
AnswerInv ==
  /\ errand.answer \in {"final", "empty"} => \E i \in 1..Len(shown) : shown[i] = "stop"
  /\ errand.state = "waiting" => \A i \in 1..Len(shown) : shown[i] # "stop"
ErrandInv ==
  /\ Errand!TypeOK
  /\ errand.state = "called" => shown = << >>
  /\ errand.state = "created" => shown = <<"Started">>
  /\ errand.state \in {"called", "created"} => said = << >> /\ pipe = << >> /\ child.task # "turn"
  /\ ShownInv /\ PipeInv /\ AnswerInv

LEMMA ErrandStart == Errand!Init => ErrandInv
BY DEF Errand!Init, ErrandInv, ShownInv, PipeInv, AnswerInv, Waits, Errand!TypeOK, Errand!Answer, Errand!Event, Errand!Ends

\* A call that goes on without telling anything.
LEMMA NothingShown ==
  ASSUME ErrandInv, Errand!TypeOK', UNCHANGED <<said, shown>>,
         errand.state \in {"over", "dropped"} => errand'.state = errand.state,
         errand'.state \notin {"over", "called", "created"} \/ errand'.state = errand.state,
         errand'.state = "over" /\ child'.mounted => child.mounted,
         errand'.state \in {"called", "created"} => child'.task # "turn" /\ pipe' = pipe,
         errand'.state \in {"waiting", "leaving"} => pipe' = pipe /\ shown # << >>
                                                     /\ (Waits \/ errand.state = "created"),
         errand'.state = "waiting" => errand.state \in {"waiting", "created"},
         errand'.answer \in {"final", "empty"} => errand'.answer = errand.answer
  PROVE  ErrandInv'
<1>1. ShownInv'
  BY DEF ErrandInv, ShownInv, Closed, Passed
<1>2. PipeInv'
  <2> SUFFICES ASSUME Waits' PROVE PipeInv'
    BY DEF PipeInv
  <2>1. Passed' = Passed
    BY DEF Waits, Passed, Closed
  <2>2. CASE Waits
    BY <2>1, <2>2 DEF ErrandInv, PipeInv, Waits
  <2>3. CASE errand.state = "created"
    <3>1. shown = <<"Started">> /\ said = << >> /\ pipe = << >> /\ Passed = 0
      BY <2>3 DEF ErrandInv, Passed, Closed
    <3>2. said' = said /\ shown' = shown /\ (Waits' => pipe' = pipe)
      BY DEF Waits
    <3> HIDE DEF Passed
    <3> QED
      BY <2>1, <3>1, <3>2 DEF PipeInv
  <2> QED
    BY <2>2, <2>3 DEF Waits
<1>3. AnswerInv'
  BY DEF ErrandInv, AnswerInv
<1> QED
  BY <1>1, <1>2, <1>3 DEF ErrandInv

LEMMA ErrandTypeStep == Errand!TypeOK /\ [Errand!Next]_Errand!vars => Errand!TypeOK'
<1> SUFFICES ASSUME Errand!TypeOK, [Errand!Next]_Errand!vars PROVE Errand!TypeOK'
  OBVIOUS
<1> DEFINE Any == Errand!Event \union {"Started", "Ended"}
<1>0. /\ errand \in [state : {"called", "created", "waiting", "leaving", "over", "dropped"},
                    answer : Errand!Answer, cancelled : BOOLEAN]
      /\ child \in [mounted : BOOLEAN, task : {"none", "idle", "turn", "gone"}]
      /\ pipe \in Seq(Errand!Event) /\ said \in Seq(Errand!Event) /\ shown \in Seq(Any)
      /\ pipe \in Seq(Any)
  BY DEF Errand!TypeOK
<1>1. ASSUME NEW note \in Errand!Event, Errand!Sends(note), Errand!ChildSends PROVE Errand!TypeOK'
  <2>1. Append(said, note) \in Seq(Errand!Event) /\ Append(pipe, note) \in Seq(Errand!Event)
    BY <1>0
  <2>2. said' \in Seq(Errand!Event) /\ pipe' \in Seq(Errand!Event)
    BY <1>0, <1>1, <2>1 DEF Errand!Sends
  <2>3. child' \in [mounted : BOOLEAN, task : {"none", "idle", "turn", "gone"}]
    BY <1>0, <1>1 DEF Errand!ChildSends
  <2> QED
    BY <1>0, <1>1, <2>2, <2>3 DEF Errand!ChildSends, Errand!TypeOK
<1>2. CASE Errand!Receive
  <2>1. Head(pipe) \in Any /\ Tail(pipe) \in Seq(Errand!Event)
    BY <1>0, <1>2 DEF Errand!Receive
  <2>2. Append(shown, Head(pipe)) \in Seq(Any)
    BY <1>0, <2>1
  <2>3. errand' \in [state : {"called", "created", "waiting", "leaving", "over", "dropped"},
                   answer : Errand!Answer, cancelled : BOOLEAN]
    BY <1>0, <1>2 DEF Errand!Receive, Errand!Answer
  <2> QED
    BY <1>0, <1>2, <2>1, <2>2, <2>3 DEF Errand!Receive, Errand!TypeOK
<1>3. CASE Errand!Leave
  <2>1. <<"Ended">> \in Seq(Any) /\ shown \o pipe \in Seq(Any)
    BY <1>0
  <2>2. shown \o pipe \o <<"Ended">> \in Seq(Any) /\ << >> \in Seq(Errand!Event)
    BY <2>1
  <2>3. errand' \in [state : {"called", "created", "waiting", "leaving", "over", "dropped"},
                   answer : Errand!Answer, cancelled : BOOLEAN]
    BY <1>0, <1>3 DEF Errand!Leave, Errand!Return
  <2>4. child' \in [mounted : BOOLEAN, task : {"none", "idle", "turn", "gone"}]
    BY <1>0, <1>3 DEF Errand!Leave
  <2> QED
    BY <1>0, <1>3, <2>2, <2>3, <2>4 DEF Errand!Leave, Errand!TypeOK
<1>4. CASE Errand!CreateChild \/ Errand!SendFails \/ Errand!SendPrompt
  <2>1. "Started" \in Any /\ "Ended" \in Any
    OBVIOUS
  <2>2. Append(shown, "Started") \in Seq(Any) /\ Append(shown, "Ended") \in Seq(Any)
    BY <1>0, <2>1
  <2>3. errand' \in [state : {"called", "created", "waiting", "leaving", "over", "dropped"},
                   answer : Errand!Answer, cancelled : BOOLEAN]
    BY <1>0, <1>4 DEF Errand!CreateChild, Errand!SendFails, Errand!SendPrompt, Errand!Return, Errand!Answer
  <2>4. child' \in [mounted : BOOLEAN, task : {"none", "idle", "turn", "gone"}]
    <3>1. CASE Errand!CreateChild \/ Errand!SendFails
      <4>1. child' = [mounted |-> TRUE, task |-> "idle"] \/ child' = [mounted |-> FALSE, task |-> "gone"]
        BY <3>1 DEF Errand!CreateChild, Errand!SendFails
      <4>2. /\ [mounted |-> TRUE, task |-> "idle"] \in [mounted : BOOLEAN, task : {"none", "idle", "turn", "gone"}]
            /\ [mounted |-> FALSE, task |-> "gone"] \in [mounted : BOOLEAN, task : {"none", "idle", "turn", "gone"}]
        OBVIOUS
      <4> QED
        BY <4>1, <4>2
    <3>2. CASE Errand!SendPrompt
      <4>1. child' = [child EXCEPT !.task = "turn"] \/ child' = [child EXCEPT !.task = child.task]
        BY <3>2 DEF Errand!SendPrompt
      <4> QED
        BY <1>0, <4>1
    <3> QED
      BY <1>4, <3>1, <3>2
  <2> QED
    BY <1>0, <1>4, <2>2, <2>3, <2>4
       DEF Errand!CreateChild, Errand!SendFails, Errand!SendPrompt, Errand!TypeOK
<1>5. CASE Errand!ChildDies \/ Errand!Refuse \/ Errand!ChannelClosed \/ Errand!SeeCancel
           \/ Errand!ParentCancels \/ Errand!Dropped
  <2>1. errand' \in [state : {"called", "created", "waiting", "leaving", "over", "dropped"},
                   answer : Errand!Answer, cancelled : BOOLEAN]
    BY <1>0, <1>5 DEF Errand!ChildDies, Errand!Refuse, Errand!ChannelClosed, Errand!SeeCancel,
       Errand!ParentCancels, Errand!Dropped, Errand!Return, Errand!Answer
  <2>2. child' \in [mounted : BOOLEAN, task : {"none", "idle", "turn", "gone"}]
    <3>1. child' = child \/ child' = [child EXCEPT !.task = "gone"]
      BY <1>5 DEF Errand!ChildDies, Errand!Refuse, Errand!ChannelClosed, Errand!SeeCancel,
         Errand!ParentCancels, Errand!Dropped
    <3> QED
      BY <1>0, <3>1
  <2>3. pipe' \in Seq(Errand!Event) /\ said' = said /\ shown' = shown
    <3>1. << >> \in Seq(Errand!Event)
      OBVIOUS
    <3>2. pipe' = pipe \/ pipe' = << >>
      BY <1>5 DEF Errand!ChildDies, Errand!Refuse, Errand!ChannelClosed, Errand!SeeCancel,
         Errand!ParentCancels, Errand!Dropped
    <3>3. said' = said /\ shown' = shown
      BY <1>5 DEF Errand!ChildDies, Errand!Refuse, Errand!ChannelClosed, Errand!SeeCancel,
         Errand!ParentCancels, Errand!Dropped
    <3> QED
      BY <1>0, <3>1, <3>2, <3>3
  <2> QED
    BY <1>0, <2>1, <2>2, <2>3 DEF Errand!TypeOK
<1>6. CASE UNCHANGED Errand!vars
  BY <1>6 DEF Errand!TypeOK, Errand!vars
<1>7. Errand!ChildSends => Errand!TypeOK'
  BY <1>1 DEF Errand!ChildSends
<1> QED
  BY <1>2, <1>3, <1>4, <1>5, <1>6, <1>7 DEF Errand!Next

LEMMA ErrandStep == ErrandInv /\ [Errand!Next]_Errand!vars => ErrandInv'
<1> SUFFICES ASSUME ErrandInv, [Errand!Next]_Errand!vars PROVE ErrandInv'
  OBVIOUS
<1>0. Errand!TypeOK'
  BY ErrandTypeStep DEF ErrandInv
<1>a. Errand!TypeOK
  BY DEF ErrandInv
<1>1. ASSUME NEW note \in Errand!Event, Errand!Sends(note), Errand!ChildSends PROVE ErrandInv'
  <2>1. errand' = errand /\ shown' = shown /\ said' = Append(said, note)
          /\ child'.mounted = child.mounted /\ errand.state \notin {"called", "created"}
    BY <1>1, <1>a DEF Errand!ChildSends, Errand!Sends, ErrandInv, Errand!TypeOK
  <2>2. Len(said') = Len(said) + 1 /\ \A i \in 1..Len(said) : said'[i] = said[i]
    BY <2>1, <1>a, AppendProperties DEF Errand!TypeOK
  <2>3. said'[Len(said) + 1] = note
    BY <2>1, <1>a, AppendProperties DEF Errand!TypeOK
  <2>4. ShownInv'
    BY <2>1, <2>2, <1>a DEF ErrandInv, ShownInv, Passed, Closed, Errand!TypeOK
  <2>5. ASSUME Waits PROVE PipeInv'
    <3>1. pipe' = Append(pipe, note)
      BY <1>1, <2>5 DEF Errand!Sends, Waits
    <3>2. Len(pipe') = Len(pipe) + 1 /\ \A i \in 1..Len(pipe) : pipe'[i] = pipe[i]
      BY <3>1, <1>a, AppendProperties DEF Errand!TypeOK
    <3>3. pipe'[Len(pipe) + 1] = note /\ Len(pipe) \in Nat /\ Len(said) \in Nat
      BY <3>1, <1>a, AppendProperties DEF Errand!TypeOK
    <3>4. Passed' = Passed /\ Passed \in Nat
      BY <2>1, <2>5 DEF Passed, Closed, ErrandInv, ShownInv, PipeInv
    <3>5. shown' # << >> /\ Len(said') = Passed' + Len(pipe')
      <4>1. Len(said) = Passed + Len(pipe) /\ shown # << >>
        BY <2>5 DEF ErrandInv, PipeInv
      <4> QED
        BY <4>1, <2>1, <2>2, <3>2, <3>3, <3>4
    <3>6. ASSUME NEW i \in 1..Len(pipe') PROVE pipe'[i] = said'[Passed' + i]
      <4>1. CASE i = Len(pipe) + 1
        <5>1. Len(said) = Passed + Len(pipe)
          BY <2>5 DEF ErrandInv, PipeInv
        <5>2. Passed' + i = Len(said) + 1
          BY <4>1, <5>1, <3>3, <3>4
        <5> QED
          BY <4>1, <5>2, <2>3, <3>3
      <4>2. CASE i \in 1..Len(pipe)
        <5>1. Passed + i \in 1..Len(said)
          BY <4>2, <2>5, <3>3, <3>4 DEF ErrandInv, PipeInv
        <5> QED
          BY <4>2, <5>1, <2>2, <2>5, <3>2, <3>4 DEF ErrandInv, PipeInv
      <4> QED
        BY <4>1, <4>2, <3>2, <3>3
    <3> QED
      BY <3>5, <3>6 DEF PipeInv
  <2>6. PipeInv'
    BY <2>1, <2>5 DEF PipeInv, Waits
  <2> QED
    BY <1>0, <2>1, <2>4, <2>6 DEF ErrandInv, AnswerInv
<1>2. CASE Errand!ChildDies \/ Errand!SendPrompt \/ Errand!ChannelClosed \/ Errand!SeeCancel
           \/ Errand!ParentCancels \/ Errand!Dropped
  <2> USE <1>0, <1>a DEF Errand!TypeOK
  <2>1. CASE Errand!ChildDies
    BY <2>1, NothingShown DEF Errand!ChildDies, ErrandInv, Waits, PipeInv
  <2>2. CASE Errand!SendPrompt
    BY <2>2, NothingShown DEF Errand!SendPrompt, ErrandInv
  <2>3. CASE Errand!ChannelClosed
    BY <2>3, NothingShown DEF Errand!ChannelClosed, ErrandInv, Waits, PipeInv
  <2>4. CASE Errand!SeeCancel
    BY <2>4, NothingShown DEF Errand!SeeCancel, ErrandInv, Waits, PipeInv
  <2>5. CASE Errand!ParentCancels
    BY <2>5, NothingShown DEF Errand!ParentCancels, ErrandInv, Waits, PipeInv
  <2>6. CASE Errand!Dropped
    BY <2>6, NothingShown DEF Errand!Dropped, ErrandInv, Waits, PipeInv
  <2> QED
    BY <1>2, <2>1, <2>2, <2>3, <2>4, <2>5, <2>6
<1>3. CASE Errand!Refuse
  BY <1>0, <1>3, <1>a DEF Errand!Refuse, Errand!Return, ErrandInv, ShownInv, PipeInv, AnswerInv, Waits,
     Errand!TypeOK
<1>4. CASE Errand!CreateChild
  <2>1. shown' = <<"Started">> /\ errand'.state = "created" /\ errand'.answer = errand.answer
          /\ said = << >> /\ pipe = << >> /\ said' = said /\ pipe' = pipe /\ child'.task = "idle"
    BY <1>4, <1>a DEF Errand!CreateChild, ErrandInv, Errand!TypeOK
  <2>2. errand.answer \notin {"final", "empty"}
    BY <1>4 DEF Errand!CreateChild, ErrandInv, AnswerInv
  <2> QED
    BY <1>0, <2>1, <2>2 DEF ErrandInv, ShownInv, PipeInv, AnswerInv, Waits, Passed, Closed
<1>5. CASE Errand!SendFails
  <2>1. /\ Len(shown') = 2 /\ shown'[1] = "Started" /\ shown'[2] = "Ended" /\ shown' # << >>
        /\ errand'.state = "over" /\ errand'.answer = "refused"
        /\ said' = << >> /\ child'.mounted = FALSE
    <3>1. shown = <<"Started">> /\ said = << >>
      BY <1>5 DEF Errand!SendFails, ErrandInv
    <3>2. shown' = Append(<<"Started">>, "Ended") /\ said' = << >>
      BY <1>5, <3>1 DEF Errand!SendFails
    <3>3. errand'.state = "over" /\ errand'.answer = "refused" /\ child'.mounted = FALSE
      BY <1>5, <1>a DEF Errand!SendFails, Errand!Return, Errand!TypeOK
    <3>4. <<"Started">> \in Seq({"Started", "Ended"}) /\ Len(<<"Started">>) = 1 /\ <<"Started">>[1] = "Started"
      OBVIOUS
    <3>5. /\ Len(shown') = 2 /\ shown'[1] = "Started" /\ shown'[2] = "Ended"
      BY <3>2, <3>4, AppendProperties
    <3>6. shown' # << >>
      BY <3>5
    <3> QED
      BY <3>2, <3>3, <3>5, <3>6
  <2> QED
    BY <1>0, <2>1 DEF ErrandInv, ShownInv, PipeInv, AnswerInv, Waits, Passed, Closed
<1>6. CASE Errand!Receive
  <2>1. /\ pipe # << >> /\ shown' = Append(shown, Head(pipe)) /\ pipe' = Tail(pipe) /\ said' = said
        /\ child' = child /\ errand.state = "waiting" /\ errand'.state \in {"waiting", "leaving"}
        /\ errand'.state = "waiting" => Head(pipe) # "stop" /\ errand'.answer = errand.answer
        /\ errand'.state = "leaving" => Head(pipe) = "stop"
    BY <1>6, <1>a DEF Errand!Receive, Errand!TypeOK
  <2>2. /\ Head(pipe) = pipe[1] /\ Len(pipe) \in Nat \ {0} /\ Len(pipe') = Len(pipe) - 1
        /\ \A i \in 1..Len(pipe') : pipe'[i] = pipe[i + 1]
    BY <2>1, <1>a, HeadTailProperties DEF Errand!TypeOK
  <2>3. /\ Len(shown') = Len(shown) + 1 /\ Len(shown) \in Nat /\ shown'[Len(shown) + 1] = Head(pipe)
        /\ \A i \in 1..Len(shown) : shown'[i] = shown[i]
    <3>1. Head(pipe) \in Errand!Event \union {"Started", "Ended"}
      BY <2>1, <2>2, <1>a DEF Errand!TypeOK
    <3> QED
      BY <2>1, <3>1, <1>a, AppendProperties DEF Errand!TypeOK
  <2>4. /\ shown # << >> /\ Passed = Len(shown) - 1 /\ Passed \in Nat /\ Len(said) = Passed + Len(pipe)
        /\ \A i \in 1..Passed : shown[i + 1] = said[i]
        /\ \A i \in 1..Len(pipe) : pipe[i] = said[Passed + i]
    BY <2>1 DEF ErrandInv, ShownInv, PipeInv, Waits, Passed, Closed
  <2>5. shown' # << >> /\ Passed' = Passed + 1 /\ ~Closed'
    BY <2>1, <2>3, <2>4 DEF Passed, Closed
  <2>6. shown'[1] = "Started"
    BY <2>3, <2>4 DEF ErrandInv, ShownInv
  <2>7. ASSUME NEW i \in 1..Passed' PROVE shown'[i + 1] = said'[i]
    <3>1. CASE i = Passed + 1
      BY <3>1, <2>1, <2>2, <2>3, <2>4
    <3>2. CASE i \in 1..Passed
      BY <3>2, <2>1, <2>3, <2>4
    <3> QED
      BY <3>1, <3>2, <2>4, <2>5
  <2>8. ShownInv'
    BY <2>1, <2>2, <2>4, <2>5, <2>6, <2>7 DEF ShownInv
  <2>9. PipeInv'
    <3>1. Len(said') = Passed' + Len(pipe')
      BY <2>1, <2>2, <2>4, <2>5
    <3>2. ASSUME NEW i \in 1..Len(pipe') PROVE pipe'[i] = said'[Passed' + i]
      <4>0. Len(pipe) \in Nat \ {0} /\ i \in 1..(Len(pipe) - 1)
        BY <2>2
      <4>1. i + 1 \in 1..Len(pipe)
        BY <4>0
      <4>2. i \in Nat /\ Passed \in Nat /\ Passed' = Passed + 1
        BY <4>0, <2>4, <2>5
      <4>3. Passed' + i = Passed + (i + 1)
        BY <4>2
      <4> QED
        BY <4>1, <4>3, <2>1, <2>2, <2>4
    <3> QED
      BY <2>5, <3>1, <3>2 DEF PipeInv
  <2>10. AnswerInv'
    BY <2>1, <2>3, <2>4 DEF ErrandInv, AnswerInv
  <2> QED
    BY <1>0, <2>1, <2>8, <2>9, <2>10 DEF ErrandInv
<1>7. CASE Errand!Leave
  <2>1. /\ shown' = shown \o pipe \o <<"Ended">> /\ pipe' = << >> /\ said' = said
        /\ child'.mounted = FALSE /\ errand.state = "leaving" /\ errand'.state = "over"
        /\ errand'.answer = errand.answer
    BY <1>7, <1>a DEF Errand!Leave, Errand!Return, Errand!TypeOK
  <2>2. /\ Len(shown) \in Nat /\ Len(pipe) \in Nat /\ Len(shown') = Len(shown) + Len(pipe) + 1
        /\ \A i \in 1..Len(shown) : shown'[i] = shown[i]
        /\ \A i \in 1..Len(pipe) : shown'[Len(shown) + i] = pipe[i]
        /\ shown'[Len(shown')] = "Ended"
    <3> DEFINE Any == Errand!Event \union {"Started", "Ended"}
    <3>1. shown \in Seq(Any) /\ pipe \in Seq(Any) /\ <<"Ended">> \in Seq(Any)
      BY <1>a DEF Errand!TypeOK
    <3> HIDE DEF Any
    <3>2. /\ shown \o pipe \in Seq(Any) /\ Len(shown \o pipe) = Len(shown) + Len(pipe)
          /\ \A i \in 1..Len(shown) : (shown \o pipe)[i] = shown[i]
          /\ \A i \in 1..Len(pipe) : (shown \o pipe)[Len(shown) + i] = pipe[i]
          /\ Len(shown) \in Nat /\ Len(pipe) \in Nat
      BY <3>1
    <3>3. /\ Len(shown') = Len(shown \o pipe) + 1 /\ shown'[Len(shown \o pipe) + 1] = "Ended"
          /\ \A i \in 1..Len(shown \o pipe) : shown'[i] = (shown \o pipe)[i]
      BY <2>1, <3>1, <3>2
    <3>4. 1..Len(shown) \subseteq 1..Len(shown \o pipe)
            /\ \A i \in 1..Len(pipe) : Len(shown) + i \in 1..Len(shown \o pipe)
      BY <3>2
    <3> QED
      BY <3>2, <3>3, <3>4
  <2>3. /\ shown # << >> /\ Passed = Len(shown) - 1 /\ Passed \in Nat /\ Len(said) = Passed + Len(pipe)
        /\ \A i \in 1..Passed : shown[i + 1] = said[i] /\ shown[1] = "Started"
        /\ \A i \in 1..Len(pipe) : pipe[i] = said[Passed + i]
    BY <2>1 DEF ErrandInv, ShownInv, PipeInv, Waits, Passed, Closed
  <2>4. shown' # << >> /\ Closed' /\ Passed' = Len(said)
    BY <2>1, <2>2, <2>3 DEF Passed, Closed
  <2>5. shown'[1] = "Started"
    BY <2>1, <2>2, <2>3 DEF ErrandInv, ShownInv
  <2>6. ASSUME NEW i \in 1..Passed' PROVE shown'[i + 1] = said'[i]
    <3>1. CASE i \in 1..Passed
      BY <3>1, <2>1, <2>2, <2>3
    <3>2. CASE i > Passed
      <4>1. i - Passed \in 1..Len(pipe)
        BY <3>2, <2>2, <2>3, <2>4
      <4>2. shown'[Len(shown) + (i - Passed)] = pipe[i - Passed] /\ pipe[i - Passed] = said[Passed + (i - Passed)]
        BY <4>1, <2>2, <2>3
      <4> QED
        <5>1. Len(shown) + (i - Passed) = i + 1 /\ Passed + (i - Passed) = i
          BY <2>2, <2>3, <2>4
        <5> QED
          BY <4>2, <5>1, <2>1
    <3> QED
      BY <3>1, <3>2, <2>3, <2>4
  <2>7. ShownInv'
    BY <2>1, <2>2, <2>3, <2>4, <2>5, <2>6 DEF ShownInv
  <2>8. AnswerInv'
    BY <2>1, <2>2 DEF ErrandInv, AnswerInv
  <2> QED
    BY <1>0, <2>1, <2>7, <2>8 DEF ErrandInv, PipeInv, Waits
<1>8. CASE UNCHANGED Errand!vars
  BY <1>0, <1>8 DEF Errand!vars, ErrandInv, ShownInv, PipeInv, AnswerInv, Waits, Passed, Closed
<1>9. Errand!ChildSends => ErrandInv'
  BY <1>1 DEF Errand!ChildSends
<1> QED
  BY <1>2, <1>3, <1>4, <1>5, <1>6, <1>7, <1>8, <1>9 DEF Errand!Next

LEMMA ErrandGives == ErrandInv => Errand!ViewIsBracketed /\ Errand!AnswerIsTheReply
<1> SUFFICES ASSUME ErrandInv PROVE Errand!ViewIsBracketed /\ Errand!AnswerIsTheReply
  OBVIOUS
<1>1. /\ shown \in Seq(Errand!Event \union {"Started", "Ended"}) /\ said \in Seq(Errand!Event)
      /\ Len(shown) \in Nat /\ Len(said) \in Nat /\ DOMAIN shown = 1..Len(shown)
  BY DEF ErrandInv, Errand!TypeOK
<1>2. shown # << >> => Head(shown) = "Started"
  BY <1>1 DEF ErrandInv, ShownInv
<1>3. Errand!AnswerIsTheReply
  BY <1>1 DEF ErrandInv, AnswerInv, Errand!AnswerIsTheReply, Errand!ToSet
<1>4. Closed <=> shown # << >> /\ Errand!Last(shown) = "Ended"
  <2>1. Closed => Errand!Last(shown) = "Ended"
    BY DEF ErrandInv, ShownInv, Closed, Errand!Last
  <2>2. ASSUME ~Closed, shown # << >>, shown[Len(shown)] = "Ended" PROVE FALSE
    <3>1. Passed = Len(shown) - 1 /\ shown[1] = "Started" /\ Passed \in Nat /\ Passed <= Len(said)
      BY <2>2 DEF Passed, ErrandInv, ShownInv
    <3>2. Passed \in 1..Passed /\ Passed + 1 = Len(shown)
      BY <2>2, <3>1, <1>1
    <3>3. said[Passed] = "Ended" /\ said[Passed] \in Errand!Event
      BY <2>2, <3>1, <3>2, <1>1 DEF ErrandInv, ShownInv
    <3> QED
      BY <3>3 DEF Errand!Event, Errand!Ends
  <2> QED
    BY <2>1, <2>2 DEF Closed, Errand!Last
<1>5. Errand!IsPrefix(SubSeq(shown, 2, Len(shown) - (IF Closed THEN 1 ELSE 0)), said)
  <2> DEFINE n == Len(shown) - (IF Closed THEN 1 ELSE 0)
  <2> DEFINE body == SubSeq(shown, 2, n)
  <2>1. CASE shown = << >>
    <3>1. n = 0 /\ body = << >> /\ SubSeq(said, 1, 0) = << >> /\ SubSeq(<< >>, 1, 0) = << >>
      BY <2>1, <1>1 DEF Closed
    <3> HIDE DEF body
    <3>2. Errand!IsPrefix(body, said)
      BY <3>1, <1>1 DEF Errand!IsPrefix
    <3> QED
      BY <3>2 DEF body
  <2>2. CASE shown # << >>
    <3>1. Passed \in Nat /\ Passed <= Len(said) /\ n = Passed + 1
            /\ \A i \in 1..Passed : shown[i + 1] = said[i]
      BY <2>2, <1>1 DEF ErrandInv, ShownInv, Passed
    <3>2. Len(body) = Passed /\ \A i \in 1..Passed : body[i] = said[i]
      <4>1. 2 \in 1..Len(shown) + 1 /\ n \in 2 - 1..Len(shown)
        BY <2>2, <1>1, <3>1
      <4> HIDE DEF n
      <4>2. Len(body) = n - 2 + 1 /\ \A i \in 1..(n - 2 + 1) : body[i] = shown[2 + i - 1]
        BY <4>1, <1>1, SubSeqProperties
      <4> QED
        BY <4>2, <3>1
    <3> HIDE DEF body, n
    <3>3. SubSeq(body, 1, Len(body)) = SubSeq(said, 1, Len(body))
      BY <3>1, <3>2, <1>1
    <3> QED
      BY <3>1, <3>2, <3>3 DEF Errand!IsPrefix, body, n
  <2> QED
    BY <2>1, <2>2
<1>6. errand.state = "over" /\ shown # << >> => Errand!Last(shown) = "Ended" /\ ~child.mounted
  BY DEF ErrandInv, ShownInv, Closed, Errand!Last
<1>7. Closed \in BOOLEAN
  BY DEF Closed
<1> QED
  BY <1>2, <1>3, <1>4, <1>5, <1>6, <1>7 DEF Errand!ViewIsBracketed

(***************************************************************************)
(* Fetching                                                                *)
(***************************************************************************)
\* An entry is what its address served, no longer before it was stored than a request takes.
Entry(k) ==
  /\ cache[k].page.url = k[1] /\ cache[k].page.format = k[2]
  /\ cache[k].at \in Nat /\ cache[k].page.at \in Nat /\ cache[k].at <= clock
  /\ cache[k].at - cache[k].page.at <= Timeout
CacheInv ==
  /\ clock \in Nat
  /\ \A k \in DOMAIN cache : Entry(k)

\* A request is on the site asked for and within its time, and so is the response it reads.
AskFields == {"state", "asked", "url", "format", "since"}
Request(c) ==
  /\ AskFields \subseteq DOMAIN fetch[c]
  /\ fetch[c].url.host = fetch[c].asked.host
  /\ fetch[c].since \in Nat /\ fetch[c].since <= clock /\ clock - fetch[c].since <= Timeout
Response(c) ==
  /\ fetch[c].page.url = fetch[c].url /\ fetch[c].page.format = fetch[c].format
  /\ fetch[c].page.at \in Nat /\ fetch[c].since <= fetch[c].page.at /\ fetch[c].page.at <= clock
Answer(c) ==
  fetch[c].page # Web!None =>
    /\ fetch[c].page.at \in Nat /\ clock - fetch[c].page.at < Ttl + Timeout
    /\ fetch[c].page.url.host = fetch[c].url.host
FetchInv ==
  /\ DOMAIN fetch = Caller
  /\ \A c \in Caller :
       /\ fetch[c].state \in {"idle", "asking", "reading", "told"}
       /\ fetch[c].state \in {"asking", "reading"} => Request(c)
       /\ fetch[c].state = "reading" => Response(c)
       /\ fetch[c].state = "told" => Answer(c)

WebLimits == Ttl \in Nat \ {0} /\ Timeout \in Nat

\* What happens to one call leaves the others what they are, while the clock stands.
LEMMA OneFetch ==
  ASSUME FetchInv, NEW c \in Caller, clock' = clock,
         DOMAIN fetch' = DOMAIN fetch, \A d \in Caller \ {c} : fetch'[d] = fetch[d],
         fetch'[c].state \in {"idle", "asking", "reading", "told"},
         fetch'[c].state \in {"asking", "reading"} => Request(c)',
         fetch'[c].state = "reading" => Response(c)',
         fetch'[c].state = "told" => Answer(c)'
  PROVE  FetchInv'
<1>1. DOMAIN fetch' = Caller
  BY DEF FetchInv
<1>2. ASSUME NEW d \in Caller \ {c}
      PROVE  /\ fetch'[d].state \in {"idle", "asking", "reading", "told"}
             /\ fetch'[d].state \in {"asking", "reading"} => Request(d)'
             /\ fetch'[d].state = "reading" => Response(d)'
             /\ fetch'[d].state = "told" => Answer(d)'
  BY <1>1 DEF FetchInv, Request, Response, Answer
<1> QED
  BY <1>1, <1>2 DEF FetchInv

LEMMA ToldIs ==
  ASSUME FetchInv, NEW c \in Caller, NEW u, NEW p, Web!Told(c, u, p)
  PROVE  /\ DOMAIN fetch' = DOMAIN fetch /\ \A d \in Caller \ {c} : fetch'[d] = fetch[d]
         /\ fetch'[c].state = "told" /\ fetch'[c].url = u /\ fetch'[c].page = p
BY DEF Web!Told, FetchInv

LEMMA FailedIs ==
  ASSUME FetchInv, NEW c \in Caller, Web!Failed(c), clock' = clock
  PROVE  FetchInv'
<1>1. /\ DOMAIN fetch' = DOMAIN fetch /\ \A d \in Caller \ {c} : fetch'[d] = fetch[d]
      /\ fetch'[c].state = "told" /\ fetch'[c].page = Web!None
  BY DEF Web!Failed, Web!Told, FetchInv
<1>2. Answer(c)'
  BY <1>1 DEF Answer, Web!None
<1> QED
  BY <1>1, <1>2, OneFetch

LEMMA FetchStep == WebLimits /\ CacheInv /\ FetchInv /\ [Web!Next]_Web!vars => FetchInv'
<1> SUFFICES ASSUME WebLimits, CacheInv, FetchInv, [Web!Next]_Web!vars PROVE FetchInv'
  OBVIOUS
<1>n. clock \in Nat /\ Ttl \in Nat /\ Ttl > 0 /\ Timeout \in Nat
  BY DEF WebLimits, CacheInv
<1>1. ASSUME NEW c \in Caller, NEW url \in Web!Url, NEW format \in Format, Web!Begin(c, url, format)
      PROVE  FetchInv'
  <2>1. clock' = clock
    BY <1>1 DEF Web!Begin
  <2>2. CASE Web!Failed(c)
    BY <2>1, <2>2, FailedIs
  <2>3. CASE Web!Cached(<<url, format>>) /\ Web!Told(c, url, cache[<<url, format>>].page)
    <3> DEFINE k == <<url, format>>
               page == cache[k].page
    <3>1. k \in DOMAIN cache /\ clock - cache[k].at < Ttl
      BY <2>3 DEF Web!Cached, Web!Fresh
    <3>2. Entry(k)
      BY <3>1 DEF CacheInv
    <3>3. page.url = url /\ page.at \in Nat /\ clock - page.at < Ttl + Timeout
      BY <3>1, <3>2, <1>n DEF Entry
    <3> HIDE DEF page
    <3>4. /\ DOMAIN fetch' = DOMAIN fetch /\ \A d \in Caller \ {c} : fetch'[d] = fetch[d]
          /\ fetch'[c].state = "told" /\ fetch'[c].url = url /\ fetch'[c].page = page
      BY <2>3 DEF Web!Told, FetchInv, page
    <3>5. Answer(c)'
      BY <3>3, <3>4, <2>1 DEF Answer
    <3> QED
      BY <3>4, <3>5, <2>1, OneFetch
  <2>4. CASE fetch' = [fetch EXCEPT ![c] = [state |-> "asking", asked |-> url, url |-> url,
                                            format |-> format, since |-> clock]]
    <3>1. /\ DOMAIN fetch' = DOMAIN fetch /\ \A d \in Caller \ {c} : fetch'[d] = fetch[d]
          /\ fetch'[c] = [state |-> "asking", asked |-> url, url |-> url, format |-> format, since |-> clock]
      BY <2>4 DEF FetchInv
    <3>2. Request(c)'
      BY <3>1, <2>1, <1>n DEF Request, AskFields
    <3> QED
      BY <3>1, <3>2, <2>1, OneFetch
  <2> QED
    BY <1>1, <2>2, <2>3, <2>4 DEF Web!Begin
<1>2. ASSUME NEW c \in Caller, NEW to \in Web!Locations, Web!Redirected(c, to) PROVE FetchInv'
  <2> DEFINE target == Web!Location(fetch[c].url, to)
  <2>1. clock' = clock /\ fetch[c].state = "asking" /\ fetch[c].url = fetch[c].asked /\ Request(c)
    BY <1>2 DEF Web!Redirected, FetchInv
  <2>2. CASE Web!Failed(c)
    BY <2>1, <2>2, FailedIs
  <2>3. CASE Web!SameSite(fetch[c].url, target) /\ fetch' = [fetch EXCEPT ![c].url = target, ![c].since = clock]
    <3>1. fetch[c].url.host = target.host
      BY <2>3 DEF Web!SameSite
    <3> HIDE DEF target
    <3>2. /\ DOMAIN fetch' = DOMAIN fetch /\ \A d \in Caller \ {c} : fetch'[d] = fetch[d]
          /\ fetch'[c] = [fetch[c] EXCEPT !.url = target, !.since = clock]
      BY <2>3 DEF FetchInv
    <3>3. /\ DOMAIN fetch'[c] = DOMAIN fetch[c] /\ fetch'[c].url = target /\ fetch'[c].since = clock
          /\ fetch'[c].asked = fetch[c].asked /\ fetch'[c].state = fetch[c].state
      BY <2>1, <3>2 DEF Request, AskFields
    <3>4. Request(c)'
      BY <2>1, <3>1, <3>3, <1>n DEF Request
    <3> QED
      BY <2>1, <3>2, <3>3, <3>4, OneFetch
  <2> QED
    BY <1>2, <2>2, <2>3 DEF Web!Redirected
<1>3. ASSUME NEW c \in Caller, NEW status \in Web!Status, Web!Responds(c, status) PROVE FetchInv'
  <2>1. clock' = clock /\ fetch[c].state = "asking" /\ Request(c)
    BY <1>3 DEF Web!Responds, FetchInv
  <2> DEFINE old == fetch[c]
             r == [state |-> "reading", asked |-> old.asked, url |-> old.url, format |-> old.format,
                   since |-> old.since, status |-> status,
                   page |-> [url |-> old.url, format |-> old.format, at |-> clock]]
  <2>2. /\ DOMAIN fetch' = DOMAIN fetch /\ \A d \in Caller \ {c} : fetch'[d] = fetch[d]
        /\ fetch'[c] = r
    BY <1>3 DEF Web!Responds, FetchInv
  <2>3. /\ r.state = "reading" /\ r.asked = old.asked /\ r.url = old.url /\ r.format = old.format
        /\ r.since = old.since /\ r.page.url = old.url /\ r.page.format = old.format /\ r.page.at = clock
        /\ AskFields \subseteq DOMAIN r
    BY DEF AskFields
  <2> HIDE DEF r
  <2>4. Request(c)' /\ Response(c)'
    BY <2>1, <2>2, <2>3, <1>n DEF Request, Response
  <2> QED
    BY <2>1, <2>2, <2>3, <2>4, OneFetch
<1>4. ASSUME NEW c \in Caller, NEW lost \in SUBSET DOMAIN cache, Web!Shown(c, lost) PROVE FetchInv'
  <2>1. clock' = clock /\ Request(c) /\ Response(c) /\ Web!Told(c, fetch[c].asked, fetch[c].page)
    BY <1>4 DEF Web!Shown, FetchInv
  <2>2. /\ DOMAIN fetch' = DOMAIN fetch /\ \A d \in Caller \ {c} : fetch'[d] = fetch[d]
        /\ fetch'[c].state = "told" /\ fetch'[c].url = fetch[c].asked /\ fetch'[c].page = fetch[c].page
    BY <2>1 DEF Web!Told, FetchInv
  <2>3. Answer(c)'
    BY <2>1, <2>2, <1>n DEF Answer, Request, Response
  <2> QED
    BY <2>1, <2>2, <2>3, OneFetch
<1>5. ASSUME NEW c \in Caller, Web!Breaks(c) PROVE FetchInv'
  BY <1>5, FailedIs DEF Web!Breaks
<1>6. CASE Web!Tick
  <2>1. /\ clock' = clock + 1 /\ DOMAIN fetch' = Caller
        /\ \A c \in Caller : fetch'[c] = IF fetch[c].state = "told" THEN [state |-> "idle"] ELSE fetch[c]
    BY <1>6 DEF Web!Tick
  <2>2. ASSUME NEW c \in Caller
        PROVE  /\ fetch'[c].state \in {"idle", "asking", "reading", "told"} /\ fetch'[c].state # "told"
               /\ fetch'[c].state \in {"asking", "reading"} => Request(c)'
               /\ fetch'[c].state = "reading" => Response(c)'
    <3>1. CASE fetch[c].state = "told"
      BY <2>1, <3>1
    <3>2. CASE fetch[c].state # "told"
      <4>1. fetch'[c] = fetch[c]
        BY <2>1, <3>2
      <4>2. fetch[c].state \in {"asking", "reading"} => clock - fetch[c].since < Timeout
        BY <1>6 DEF Web!Tick
      <4> QED
        BY <1>n, <2>1, <3>2, <4>1, <4>2 DEF FetchInv, Request, Response
    <3> QED
      BY <3>1, <3>2
  <2> QED
    BY <2>1, <2>2 DEF FetchInv
<1>7. CASE UNCHANGED Web!vars
  BY <1>7 DEF Web!vars, FetchInv, Request, Response, Answer
<1> QED
  BY <1>1, <1>2, <1>3, <1>4, <1>5, <1>6, <1>7 DEF Web!Next

LEMMA CacheStep == WebLimits /\ CacheInv /\ FetchInv /\ [Web!Next]_Web!vars => CacheInv'
<1> SUFFICES ASSUME WebLimits, CacheInv, FetchInv, [Web!Next]_Web!vars PROVE CacheInv'
  OBVIOUS
<1>n. clock \in Nat /\ Timeout \in Nat
  BY DEF WebLimits, CacheInv
<1>1. CASE cache' = cache /\ clock' \in Nat /\ clock <= clock'
  BY <1>1, <1>n DEF CacheInv, Entry
<1>2. ASSUME NEW c \in Caller, NEW lost \in SUBSET DOMAIN cache, Web!Shown(c, lost) PROVE CacheInv'
  <2> DEFINE key == <<fetch[c].url, fetch[c].format>>
             entry == [page |-> fetch[c].page, status |-> fetch[c].status, at |-> clock]
             rest == Web!Kept \ lost
  <2>1. clock' = clock /\ Request(c) /\ Response(c)
    BY <1>2 DEF Web!Shown, FetchInv
  <2>2. cache' = [k \in rest \cup {key} |-> IF k = key THEN entry ELSE cache[k]]
    BY <1>2 DEF Web!Shown, Web!Inserted
  <2>3. rest \subseteq DOMAIN cache /\ Web!Kept \subseteq DOMAIN cache
    BY DEF Web!Kept
  <2> HIDE DEF rest
  <2>5. DOMAIN cache' = rest \cup {key}
    BY <2>2
  <2>7. ASSUME NEW k \in DOMAIN cache' PROVE Entry(k)'
    <3>1. CASE k = key
      <4>1. cache'[k] = entry
        BY <2>2, <2>5, <2>7, <3>1
      <4>2. entry.page = fetch[c].page /\ entry.at = clock
        OBVIOUS
      <4>3. key[1] = fetch[c].url /\ key[2] = fetch[c].format
        OBVIOUS
      <4> HIDE DEF key, entry
      <4> QED
        BY <2>1, <3>1, <4>1, <4>2, <4>3, <1>n DEF Entry, Request, Response
    <3>2. CASE k # key
      <4>1. k \in DOMAIN cache /\ cache'[k] = cache[k]
        BY <2>2, <2>3, <2>5, <2>7, <3>2
      <4> HIDE DEF key, entry
      <4> QED
        BY <2>1, <4>1 DEF Entry, CacheInv
    <3> QED
      BY <3>1, <3>2
  <2> QED
    BY <2>1, <2>7, <1>n DEF CacheInv
<1>3. CASE Web!Tick
  BY <1>1, <1>3, <1>n DEF Web!Tick
<1>4. ASSUME NEW c \in Caller,
             \/ \E url \in Web!Url, format \in Format : Web!Begin(c, url, format)
             \/ \E to \in Web!Locations : Web!Redirected(c, to)
             \/ \E status \in Web!Status : Web!Responds(c, status)
             \/ Web!Breaks(c)
      PROVE  CacheInv'
  <2>1. cache' = cache /\ clock' = clock
    BY <1>4 DEF Web!Begin, Web!Redirected, Web!Responds, Web!Breaks
  <2> QED
    BY <2>1, <1>1, <1>n
<1>5. CASE UNCHANGED Web!vars
  BY <1>1, <1>5, <1>n DEF Web!vars
<1> QED
  BY <1>2, <1>3, <1>4, <1>5 DEF Web!Next

LEMMA WebStart == WebLimits /\ Web!Init => CacheInv /\ FetchInv
<1> SUFFICES ASSUME WebLimits, Web!Init PROVE CacheInv /\ FetchInv
  OBVIOUS
<1>1. DOMAIN cache = {} /\ clock = 0
  BY DEF Web!Init
<1>3. CacheInv
  BY <1>1 DEF CacheInv
<1>4. FetchInv
  BY DEF Web!Init, FetchInv
<1> QED
  BY <1>3, <1>4

LEMMA WebGives ==
  CacheInv /\ FetchInv => Web!AnswersAreRecent /\ Web!KeysNameTheirPage
<1>1. FetchInv => Web!AnswersAreRecent
  BY DEF FetchInv, Answer, Web!AnswersAreRecent
<1>2. CacheInv => Web!KeysNameTheirPage
  BY DEF CacheInv, Entry, Web!KeysNameTheirPage
<1> QED
  BY <1>1, <1>2

(***************************************************************************)
(* The loop guard                                                          *)
(***************************************************************************)
\* What has period n begins again after every n of its elements.
LEMMA PeriodsTile ==
  ASSUME NEW S, NEW s \in Seq(S), NEW n \in Nat \ {0}, Len(s) % n = 0,
         \A i \in 1..(Len(s) - n) : s[i] = s[i + n]
  PROVE  Guard!Tiles(s, n)
<1> DEFINE Same(i) == s[i] = s[((i - 1) % n) + 1]
           P == {i \in 1..Len(s) : ~Same(i)}
<1>1. ASSUME P # {} PROVE FALSE
  <2>1. P \subseteq Nat /\ P # {}
    BY <1>1
  <2> HIDE DEF P
  <2>2. PICK i \in P : \A j \in P : i <= j
    BY <2>1, LeastNumber
  <2>3. i \in 1..Len(s) /\ ~Same(i) /\ Len(s) \in Nat
    BY <2>2 DEF P
  <2>4. CASE i <= n
    <3>1. i - 1 \in Nat /\ i - 1 < n
      BY <2>3, <2>4
    <3>2. (i - 1) % n = i - 1
      BY <3>1, SmallRemainder
    <3> QED
      BY <2>3, <3>2
  <2>5. CASE i > n
    <3> DEFINE k == i - n
    <3>1. k \in 1..(Len(s) - n) /\ k \in 1..Len(s) /\ k < i /\ k + n = i /\ k - 1 \in Nat
      BY <2>3, <2>5
    <3>2. k \notin P
      BY <2>2, <3>1
    <3>3. Same(k)
      BY <3>1, <3>2 DEF P
    <3>4. (i - 1) % n = (k - 1) % n
      <4>1. ((k - 1) + n) % n = (k - 1) % n
        BY <3>1, PeriodicRemainder
      <4>2. (k - 1) + n = i - 1
        BY <3>1
      <4> QED
        BY <4>1, <4>2
    <3>5. s[k] = s[i]
      BY <3>1
    <3> QED
      BY <2>3, <3>3, <3>4, <3>5
  <2> QED
    BY <2>3, <2>4, <2>5
<1> QED
  BY <1>1 DEF Guard!Tiles

LEMMA RecentType ==
  ASSUME AlternateAt \in Nat, NEW h \in Seq(Call)
  PROVE  Guard!Recent(h) \in Seq(Call)
<1> DEFINE w == Guard!Window
           first == IF Len(h) > w THEN Len(h) - w + 1 ELSE 1
<1>1. w \in Nat
  BY DEF Guard!Window
<1> HIDE DEF w
<1>2. first \in 1..(Len(h) + 1) /\ Len(h) \in Nat
  BY <1>1
<1> HIDE DEF first
<1>3. SubSeq(h, first, Len(h)) \in Seq(Call)
  BY <1>2, SubSeqProperties
<1> QED
  BY <1>3 DEF Guard!Recent, first, w

\* The detector of sequences finds what repeats and is not one call over and over.
LEMMA CyclicIsPeriodic ==
  ASSUME AlternateAt \in Nat, NEW h \in Seq(Call)
  PROVE  Guard!Cyclic(h) <=> Guard!Periodic(Guard!Recent(h))
<1> DEFINE s == Guard!Recent(h)
           l == Len(s)
<1>1. s \in Seq(Call)
  BY RecentType
<1>2. Guard!Cyclic(h) <=> /\ l >= 4
                          /\ Guard!ToSet(s) # {s[1]}
                          /\ \E n \in 2 .. l \div 2 : Guard!Tiles(s, n)
  BY DEF Guard!Cyclic
<1> HIDE DEF s
<1>3. l \in Nat /\ DOMAIN s = 1..l
  BY <1>1
<1>4. ASSUME Guard!Cyclic(h) PROVE Guard!Periodic(s)
  <2>1. PICK n \in 2 .. l \div 2 : Guard!Tiles(s, n)
    BY <1>2, <1>4
  <2>2. l >= 4 /\ n \in Nat \ {0} /\ n < l /\ n \in 1..l /\ l % n = 0
    BY <1>2, <1>3, <1>4, <2>1 DEF Guard!Tiles
  <2>3. ASSUME NEW i \in 1..(l - n) PROVE s[i] = s[i + n]
    <3>1. i \in 1..l /\ i + n \in 1..l /\ i - 1 \in Nat /\ (i + n) - 1 = (i - 1) + n
      BY <1>3, <2>2
    <3>2. ((i - 1) + n) % n = (i - 1) % n
      BY <2>2, <3>1, PeriodicRemainder
    <3> QED
      BY <2>1, <3>1, <3>2 DEF Guard!Tiles
  <2>4. \E i, j \in 1..l : s[i] # s[j]
    <3>1. 1 \in 1..l
      BY <1>3, <2>2
    <3>2. Guard!ToSet(s) = {s[i] : i \in 1..l}
      BY <1>3 DEF Guard!ToSet
    <3>3. \E i \in 1..l : s[i] # s[1]
      BY <1>2, <1>4, <3>1, <3>2
    <3> QED
      BY <3>1, <3>3
  <2> QED
    BY <1>3, <2>2, <2>3, <2>4 DEF Guard!Periodic
<1>5. ASSUME Guard!Periodic(s) PROVE Guard!Cyclic(h)
  <2>1. PICK i \in 1..l, j \in 1..l : s[i] # s[j]
    BY <1>3, <1>5 DEF Guard!Periodic
  <2>2. PICK n \in 1..l : n < l /\ l % n = 0 /\ \A k \in 1..(l - n) : s[k] = s[k + n]
    BY <1>3, <1>5 DEF Guard!Periodic
  <2>3. Guard!Tiles(s, n)
    BY <1>1, <2>2, PeriodsTile
  <2>4. n # 1
    <3> SUFFICES ASSUME n = 1 PROVE FALSE
      OBVIOUS
    <3>1. ASSUME NEW k \in 1..l PROVE s[k] = s[1]
      <4>1. k - 1 \in Nat
        BY <1>3
      <4>2. (k - 1) % 1 = 0
        BY <4>1, Division
      <4> QED
        BY <2>3, <4>2 DEF Guard!Tiles
    <3> QED
      BY <2>1, <3>1
  <2>5. 2 * n <= l /\ n <= l \div 2
    BY <1>3, <2>2, HalfDivisor
  <2>6. l >= 4 /\ n \in 2 .. l \div 2
    BY <1>3, <2>2, <2>4, <2>5
  <2>7. Guard!ToSet(s) # {s[1]}
    <3>1. s[i] \in Guard!ToSet(s) /\ s[j] \in Guard!ToSet(s)
      BY <1>3, <2>1 DEF Guard!ToSet
    <3> QED
      BY <2>1, <3>1
  <2> QED
    BY <1>2, <2>3, <2>6, <2>7
<1> QED
  BY <1>4, <1>5 DEF s

GuardFields == {"history", "escalation", "phase", "hits", "warn", "inject", "interrupts"}
ChatFields == {"turn", "open", "signals", "inbox", "guided", "alarm"}
GuardInv ==
  /\ DOMAIN guard = GuardFields /\ DOMAIN chat = ChatFields
  /\ guard.history \in Seq(Call) /\ guard.interrupts \in 0..3
  /\ Guard!InterventionsBounded /\ Guard!MarksAreRecent

Severities == Guard!Severity \cup {"None"}

\* A reaction counts the interrupts and sets marks; it comes with the alarm it stands for.
LEMMA Reaction ==
  ASSUME NEW g, NEW severity \in Severities, g.interrupts \in 0..3,
         DOMAIN g = GuardFields, DOMAIN chat = ChatFields,
         g.interrupts = chat.guided, g.warn \/ g.inject => chat.alarm,
         severity = "Interrupt" => g.interrupts < 3,
         NEW ch, DOMAIN ch = ChatFields, ch.guided = chat.guided, ch.alarm = chat.alarm
  PROVE  LET h == Guard!Marked(g, severity)
             n == Guard!Sent(ch, severity)
         IN /\ DOMAIN h = GuardFields /\ DOMAIN n = ChatFields
            /\ h.history = g.history
            /\ h.interrupts \in 0..3 /\ h.interrupts = n.guided
            /\ h.warn \/ h.inject => n.alarm
<1> USE DEF GuardFields, ChatFields
<1>1. CASE severity = "Interrupt"
  <2>1. Guard!Marked(g, severity) = [g EXCEPT !.inject = TRUE, !.interrupts = @ + 1]
    BY <1>1 DEF Guard!Marked
  <2>2. Guard!Sent(ch, severity) =
          [ch EXCEPT !.signals = Guard!Least(@ + 1, Signals), !.guided = @ + 1,
                     !.inbox = Guard!Least(@ + 1, Inbox), !.alarm = TRUE]
    BY <1>1 DEF Guard!Sent
  <2> DEFINE h == Guard!Marked(g, severity)
             n == Guard!Sent(ch, severity)
  <2>3. DOMAIN h = GuardFields /\ h.history = g.history /\ h.interrupts = g.interrupts + 1
    BY <2>1
  <2>4. DOMAIN n = ChatFields /\ n.guided = ch.guided + 1 /\ n.alarm = TRUE
    BY <2>2
  <2>5. g.interrupts + 1 \in 0..3
    BY <1>1
  <2> HIDE DEF h, n
  <2>6. h.interrupts \in 0..3 /\ h.interrupts = n.guided
    BY <2>3, <2>4, <2>5
  <2> QED
    BY <2>3, <2>4, <2>6 DEF h, n
<1>2. CASE severity = "Abort"
  BY <1>2 DEF Guard!Marked, Guard!Sent
<1>3. CASE severity \in {"Warn", "Inject"}
  BY <1>3 DEF Guard!Marked, Guard!Sent
<1>4. CASE severity = "None"
  BY <1>4 DEF Guard!Marked, Guard!Sent
<1> QED
  BY <1>1, <1>2, <1>3, <1>4 DEF Severities, Guard!Severity

LEMMA GuardStep ==
  ASSUME AlternateAt \in Nat, GuardInv, [Guard!Next]_Guard!vars PROVE GuardInv'
<1>t. /\ DOMAIN guard = GuardFields /\ DOMAIN chat = ChatFields
      /\ guard.history \in Seq(Call) /\ guard.interrupts \in 0..3
      /\ guard.interrupts = chat.guided /\ (guard.warn \/ guard.inject => chat.alarm)
  BY DEF GuardInv, Guard!InterventionsBounded, Guard!MarksAreRecent
<1>k. ASSUME DOMAIN guard' = GuardFields, DOMAIN chat' = ChatFields, guard'.history \in Seq(Call),
             guard'.interrupts \in 0..3, guard'.interrupts = chat'.guided,
             guard'.warn \/ guard'.inject => chat'.alarm
      PROVE  GuardInv'
  BY <1>k DEF GuardInv, Guard!InterventionsBounded, Guard!MarksAreRecent
\* What Resolve lets pass is no fourth interrupt.
<1>r. ASSUME NEW base \in Severities
      PROVE  /\ Guard!Resolve(base, guard.interrupts) \in Severities
             /\ Guard!Resolve(base, guard.interrupts) = "Interrupt" => guard.interrupts < 3
  BY <1>t DEF Guard!Resolve, Severities, Guard!Severity
<1>1. ASSUME NEW c \in Call, Guard!OnToolCall(c) PROVE GuardInv'
  <2> DEFINE n == Guard!Escalation(guard, c)
             severity == Guard!Resolve(Guard!Base(n), guard.interrupts)
             g == [guard EXCEPT !.history = Guard!Remember(@, c), !.escalation = n]
             ch == [chat EXCEPT !.open = @ + 1]
  <2>1. guard' = Guard!Marked(g, severity) /\ chat' = Guard!Sent(ch, severity)
    BY <1>1 DEF Guard!OnToolCall
  <2>2. severity \in Severities /\ (severity = "Interrupt" => guard.interrupts < 3)
    <3>1. Guard!Base(n) \in Severities
      BY DEF Guard!Base, Severities, Guard!Severity
    <3> QED
      BY <3>1, <1>r
  <2>3. Guard!Remember(guard.history, c) \in Seq(Call)
    <3> DEFINE h == Append(guard.history, c)
    <3>1. h \in Seq(Call) /\ h # << >>
      BY <1>t
    <3>2. Tail(h) \in Seq(Call)
      BY <3>1, HeadTailProperties
    <3> QED
      BY <3>1, <3>2 DEF Guard!Remember
  <2> HIDE DEF n, severity
  <2>4. /\ DOMAIN g = GuardFields /\ g.history \in Seq(Call) /\ g.interrupts = guard.interrupts
        /\ g.warn = guard.warn /\ g.inject = guard.inject
        /\ DOMAIN ch = ChatFields /\ ch.guided = chat.guided /\ ch.alarm = chat.alarm
    BY <1>t, <2>3 DEF GuardFields, ChatFields
  <2> HIDE DEF g, ch
  <2>5. LET h == Guard!Marked(g, severity)
            m == Guard!Sent(ch, severity)
        IN /\ DOMAIN h = GuardFields /\ DOMAIN m = ChatFields
           /\ h.history = g.history
           /\ h.interrupts \in 0..3 /\ h.interrupts = m.guided
           /\ h.warn \/ h.inject => m.alarm
    BY <1>t, <2>2, <2>4, Reaction
  <2> QED
    BY <2>1, <2>4, <2>5, <1>k
<1>2. ASSUME NEW phase \in Guard!Phase \ {"None"}, NEW checked \in BOOLEAN, NEW score \in Guard!Score,
             Guard!OnChunk(phase, checked, score)
      PROVE  GuardInv'
  <2> DEFINE start == IF guard.phase = phase THEN guard.hits ELSE 0
             hits == IF ~checked THEN start
                     ELSE IF score \in {"warn", "high"} THEN start + 1 ELSE 0
             resolved == IF checked /\ hits > 0
                         THEN Guard!Resolve(Guard!TextSeverity(hits, score), guard.interrupts) ELSE "None"
             severity == Guard!ChunkMark(resolved)
             g == [guard EXCEPT !.phase = phase, !.hits = Guard!Least(hits, Hits)]
  <2>1. guard' = Guard!Marked(g, severity) /\ chat' = Guard!Sent(chat, severity)
    BY <1>2 DEF Guard!OnChunk
  <2>2. severity \in Severities /\ (severity = "Interrupt" => guard.interrupts < 3)
    <3>1. Guard!TextSeverity(hits, score) \in Severities
      BY DEF Guard!TextSeverity, Severities, Guard!Severity
    <3>2. resolved \in Severities /\ (resolved = "Interrupt" => guard.interrupts < 3)
      <4> HIDE DEF hits
      <4> QED
        BY <3>1, <1>r DEF Severities
    <3> HIDE DEF resolved
    <3> QED
      BY <3>2 DEF Guard!ChunkMark, Severities
  <2> HIDE DEF severity
  <2>4. /\ DOMAIN g = GuardFields /\ g.history = guard.history /\ g.interrupts = guard.interrupts
        /\ g.warn = guard.warn /\ g.inject = guard.inject
    BY <1>t DEF GuardFields
  <2> HIDE DEF g
  <2>5. LET h == Guard!Marked(g, severity)
            m == Guard!Sent(chat, severity)
        IN /\ DOMAIN h = GuardFields /\ DOMAIN m = ChatFields
           /\ h.history = g.history
           /\ h.interrupts \in 0..3 /\ h.interrupts = m.guided
           /\ h.warn \/ h.inject => m.alarm
    BY <1>t, <2>2, <2>4, Reaction
  <2> QED
    BY <1>t, <2>1, <2>4, <2>5, <1>k
<1>3. CASE Guard!OnToolResult
  <2>1. /\ DOMAIN chat' = ChatFields /\ chat'.guided = chat.guided /\ chat'.alarm = chat.alarm
    BY <1>3, <1>t DEF Guard!OnToolResult, ChatFields
  <2>2. /\ DOMAIN guard' = GuardFields /\ guard'.history = guard.history
        /\ guard'.interrupts = guard.interrupts
        /\ guard'.warn \/ guard'.inject => guard.warn \/ guard.inject
    <3>1. CASE guard' = [guard EXCEPT !.inject = FALSE]
      BY <3>1, <1>t DEF GuardFields
    <3>2. CASE guard' = [guard EXCEPT !.warn = FALSE]
      BY <3>2, <1>t DEF GuardFields
    <3> QED
      BY <1>3, <3>1, <3>2 DEF Guard!OnToolResult, Guard!Intercepted
  <2> QED
    BY <1>t, <2>1, <2>2, <1>k
<1>4. ASSUME Guard!Hear("User") PROVE GuardInv'
  <2>1. guard' = Guard!Fresh
    BY <1>4 DEF Guard!Hear, Guard!Cleared
  <2>2. DOMAIN chat' = ChatFields /\ chat'.guided = 0
    BY <1>4, <1>t DEF Guard!Hear, ChatFields
  <2>3. DOMAIN guard' = GuardFields /\ guard'.history = << >> /\ guard'.interrupts = 0
        /\ guard'.warn = FALSE /\ guard'.inject = FALSE
    BY <2>1 DEF Guard!Fresh, GuardFields
  <2> QED
    BY <2>2, <2>3, <1>k
<1>5. ASSUME Guard!Hear("Plugin") PROVE GuardInv'
  <2>1. guard' = [guard EXCEPT !.warn = FALSE, !.inject = FALSE]
    BY <1>5 DEF Guard!Hear, Guard!Cleared
  <2>2. DOMAIN chat' = ChatFields /\ chat'.guided = chat.guided
    BY <1>5, <1>t DEF Guard!Hear, ChatFields
  <2>3. DOMAIN guard' = GuardFields /\ guard'.history = guard.history
        /\ guard'.interrupts = guard.interrupts /\ guard'.warn = FALSE /\ guard'.inject = FALSE
    BY <2>1, <1>t DEF GuardFields
  <2> QED
    BY <1>t, <2>2, <2>3, <1>k
<1>6. CASE Guard!TurnEnds
  <2>1. /\ guard' = guard /\ DOMAIN chat' = ChatFields
        /\ chat'.guided = chat.guided /\ chat'.alarm = chat.alarm
    BY <1>6, <1>t DEF Guard!TurnEnds, ChatFields
  <2> QED
    BY <1>t, <2>1, <1>k
<1>7. CASE UNCHANGED Guard!vars
  BY <1>7, <1>t, <1>k DEF Guard!vars
<1> QED
  BY <1>1, <1>2, <1>3, <1>4, <1>5, <1>6, <1>7 DEF Guard!Next

LEMMA GuardStart == Guard!Init => GuardInv
BY DEF Guard!Init, Guard!Fresh, GuardInv, GuardFields, ChatFields, Guard!InterventionsBounded,
   Guard!MarksAreRecent

LEMMA GuardGives ==
  ASSUME AlternateAt \in Nat, GuardInv
  PROVE  Guard!InterventionsBounded /\ Guard!MarksAreRecent /\ Guard!CyclesFound
BY CyclicIsPeriodic DEF GuardInv, Guard!CyclesFound

(***************************************************************************)
(* The hooks of plugins: the table is in order from its assembly on; what  *)
(* was observed is a prefix of it, of the one event that was sent.         *)
(***************************************************************************)
HookLimits == Priority \subseteq Int /\ Events \in Nat

\* Hooks of a session are finitely many and differ in the place of their registration.
Registered(H) ==
  /\ IsFiniteSet(H) /\ \A h \in H : h.priority \in Int /\ h.place \in Nat
  /\ \A h, k \in H : h.place = k.place => h = k
HooksBefore(H, h) == {k \in H : Hooks!Before(k, h)}

LEMMA SameCount == ASSUME NEW S PROVE Hooks!Cardinality(S) = Cardinality(S)
BY DEF Hooks!Cardinality, Cardinality

\* Of two hooks one is before the other, and has fewer before it.
LEMMA FewerBefore ==
  ASSUME NEW H, Registered(H), NEW a \in H, NEW b \in H, Hooks!Before(a, b)
  PROVE  Cardinality(HooksBefore(H, a)) < Cardinality(HooksBefore(H, b))
<1> DEFINE A == HooksBefore(H, a)
           B == HooksBefore(H, b)
<1>1. IsFiniteSet(A) /\ IsFiniteSet(B)
  BY FS_Subset DEF HooksBefore, Registered
<1>2. A \subseteq B /\ a \in B /\ a \notin A
  BY DEF HooksBefore, Hooks!Before, Registered
<1>3. Cardinality(B \ {a}) = Cardinality(B) - 1 /\ IsFiniteSet(B \ {a})
  BY <1>1, <1>2, FS_RemoveElement
<1>4. Cardinality(A) <= Cardinality(B \ {a})
  BY <1>2, <1>3, FS_Subset
<1> QED
  BY <1>1, <1>3, <1>4, FS_CardinalityType

LEMMA EitherBefore ==
  ASSUME NEW H, Registered(H), NEW a \in H, NEW b \in H, a # b
  PROVE  Hooks!Before(a, b) \/ Hooks!Before(b, a)
BY DEF Registered, Hooks!Before

\* Every rank is taken by one hook.
LEMMA EveryRankTaken ==
  ASSUME NEW H, Registered(H), NEW i \in 1 .. Cardinality(H)
  PROVE  \E h \in H : Cardinality(HooksBefore(H, h)) = i - 1
<1> DEFINE n == Cardinality(H)
           rank == [h \in H |-> Cardinality(HooksBefore(H, h))]
           image == {rank[h] : h \in H}
<1>1. IsFiniteSet(H) /\ n \in Nat
  BY FS_CardinalityType DEF Registered
<1>2. ASSUME NEW h \in H PROVE rank[h] \in 0 .. (n - 1)
  <2>1. HooksBefore(H, h) \subseteq H \ {h}
    BY DEF HooksBefore, Hooks!Before, Registered
  <2>2. IsFiniteSet(H \ {h}) /\ Cardinality(H \ {h}) = n - 1
    BY <1>1, FS_RemoveElement
  <2>3. IsFiniteSet(HooksBefore(H, h)) /\ Cardinality(HooksBefore(H, h)) <= Cardinality(H \ {h})
    BY <2>1, <2>2, FS_Subset
  <2>4. Cardinality(HooksBefore(H, h)) \in Nat
    BY <2>3, FS_CardinalityType
  <2> QED
    BY <1>1, <2>2, <2>3, <2>4
<1>3. ASSUME NEW a \in H, NEW b \in H, a # b PROVE rank[a] # rank[b]
  <2>1. CASE Hooks!Before(a, b)
    BY <2>1, FewerBefore, <1>2
  <2>2. CASE Hooks!Before(b, a)
    BY <2>2, FewerBefore, <1>2
  <2> QED
    BY <1>3, <2>1, <2>2, EitherBefore
<1>4. rank \in Bijection(H, image)
  <2>1. rank \in [H -> image]
    OBVIOUS
  <2>2. rank \in Injection(H, image)
    BY <1>3, <2>1 DEF Injection, IsInjective
  <2> QED
    BY <2>1, <2>2 DEF Bijection, Surjection
<1>5. IsFiniteSet(image) /\ Cardinality(image) = n
  BY <1>1, <1>4, FS_Bijection DEF ExistsBijection
<1>6. IsFiniteSet(0 .. (n - 1)) /\ Cardinality(0 .. (n - 1)) = n
  <2>1. PICK m \in Int : m = n - 1
    BY <1>1
  <2>2. IsFiniteSet(0 .. m) /\ Cardinality(0 .. m) = IF 0 > m THEN 0 ELSE m - 0 + 1
    BY FS_Interval
  <2> QED
    BY <1>1, <2>1, <2>2
<1>7. image = 0 .. (n - 1)
  <2>1. image \subseteq 0 .. (n - 1)
    BY <1>2
  <2> QED
    BY <2>1, <1>5, <1>6, FS_Subset
<1>8. i - 1 \in 0 .. (n - 1)
  BY <1>1
<1>9. PICK h \in H : rank[h] = i - 1
  BY <1>7, <1>8
<1> QED
  BY <1>9

InOrder(s) == \A i \in 1 .. Len(s) - 1 : Hooks!Before(s[i], s[i + 1])

LEMMA Ranked ==
  ASSUME NEW H, Registered(H)
  PROVE  Hooks!Finalized(H) \in Seq(H) /\ InOrder(Hooks!Finalized(H))
<1> DEFINE F == Hooks!Finalized(H)
           n == Cardinality(H)
<1>1. n \in Nat
  BY FS_CardinalityType DEF Registered
<1>2. F = [i \in 1 .. n |-> CHOOSE h \in H : Cardinality(HooksBefore(H, h)) = i - 1]
  <2>1. ASSUME NEW h PROVE Hooks!Cardinality({k \in H : Hooks!Before(k, h)}) = Cardinality(HooksBefore(H, h))
    BY SameCount DEF HooksBefore
  <2>2. Hooks!Cardinality(H) = n
    BY SameCount
  <2> QED
    BY <2>1, <2>2 DEF Hooks!Finalized
<1> HIDE DEF F
<1>3. ASSUME NEW i \in 1 .. n PROVE F[i] \in H /\ Cardinality(HooksBefore(H, F[i])) = i - 1
  BY <1>2, EveryRankTaken
<1>4. F \in [1 .. n -> H] /\ F \in Seq(H) /\ Len(F) = n
  <2>1. F \in [1 .. n -> H]
    BY <1>2, <1>3
  <2> QED
    BY <2>1, <1>1
<1>5. ASSUME NEW i \in 1 .. (n - 1) PROVE Hooks!Before(F[i], F[i + 1])
  <2>1. i \in 1 .. n /\ i + 1 \in 1 .. n /\ i \in Int
    BY <1>1
  <2>2. F[i] \in H /\ F[i + 1] \in H
    BY <2>1, <1>3
  <2>3. Cardinality(HooksBefore(H, F[i])) = i - 1 /\ Cardinality(HooksBefore(H, F[i + 1])) = i
    BY <2>1, <1>3
  <2>4. F[i] # F[i + 1] /\ ~(Cardinality(HooksBefore(H, F[i + 1])) < Cardinality(HooksBefore(H, F[i])))
    BY <2>1, <2>3
  <2>5. ~Hooks!Before(F[i + 1], F[i])
    BY <2>2, <2>4, FewerBefore
  <2> QED
    BY <2>2, <2>4, <2>5, EitherBefore
<1> QED
  BY <1>4, <1>5 DEF InOrder, F

(* The observers so far are those of the table up to the one that is next, and saw what was
   sent; an event at rest has been through all of them. *)
NothingYet == heard.shown = << >> /\ heard.sent = << >>
ShownUpTo(n, marks) ==
  /\ Len(heard.shown) = n /\ Len(heard.sent) = 1 /\ heard.sent[1] = marks
  /\ \A i \in 1 .. n : heard.shown[i].hook = hooks.hooks[i] /\ heard.shown[i].marks = marks
SeenInv ==
  /\ event.step \in {"intercept", "blocked"} => NothingYet
  /\ event.step = "intercept" => event.at \in 1 .. Len(hooks.hooks) + 1
  /\ event.step = "observe" =>
       event.at \in 1 .. Len(hooks.hooks) + 1 /\ ShownUpTo(event.at - 1, event.marks)
  /\ event.step = "none" /\ event.number > 0 => ShownUpTo(Len(hooks.hooks), heard.sent[1])
HooksInv ==
  /\ Hooks!TypeOK /\ (~hooks.ready => event = Hooks!NoEvent)
  /\ InOrder(hooks.hooks) /\ SeenInv

LEMMA HooksStart == HookLimits /\ Hooks!Init => HooksInv
<1> SUFFICES ASSUME HookLimits, Hooks!Init PROVE HooksInv
  OBVIOUS
<1> USE DEF Hooks!Init
<1>1. << >> \in Seq(Plugin) /\ << >> \in Seq(Hooks!Hook) /\ << >> \in Seq(Seq(Plugin))
      /\ << >> \in Seq([hook : Hooks!Hook, marks : Seq(Plugin)]) /\ 0 \in 0 .. Events
  BY DEF HookLimits
<1>2. Hooks!TypeOK
  BY <1>1 DEF Hooks!TypeOK, Hooks!NoEvent
<1> QED
  BY <1>2 DEF HooksInv, InOrder, SeenInv, Hooks!NoEvent

LEMMA Assembling ==
  ASSUME HookLimits, Hooks!TypeOK, Hooks!Assemble
  PROVE  hooks'.ready = TRUE /\ hooks' \in [ready : BOOLEAN, hooks : Seq(Hooks!Hook)]
         /\ InOrder(hooks'.hooks)
<1>1. PICK alive, priority : alive \subseteq DOMAIN host /\ priority \in [alive -> Priority]
        /\ hooks' = [ready |-> TRUE,
                     hooks |-> IF Hooks!Unique(host)
                               THEN Hooks!Finalized({[plugin |-> host[i], priority |-> priority[i],
                                                       place |-> i] : i \in alive})
                               ELSE << >>]
  <2>1. PICK made \in Hooks!Instances :
          \E alive \in SUBSET made : \E priority \in [alive -> Priority] :
            hooks' = [ready |-> TRUE,
                      hooks |-> IF Hooks!Unique(host)
                                THEN Hooks!Finalized({[plugin |-> host[i], priority |-> priority[i],
                                                        place |-> i] : i \in alive})
                                ELSE << >>]
    BY Zenon DEF Hooks!Assemble
  <2>2. made \subseteq DOMAIN host
    BY DEF Hooks!Instances
  <2> QED
    BY <2>1, <2>2, Zenon
<1> DEFINE hook == [i \in alive |-> [plugin |-> host[i], priority |-> priority[i], place |-> i]]
           H == {[plugin |-> host[i], priority |-> priority[i], place |-> i] : i \in alive}
<1>2. priority \in [alive -> Priority] /\ host \in Seq(Plugin) /\ alive \subseteq 1 .. Len(host) /\ Len(host) \in Nat
  BY <1>1 DEF Hooks!TypeOK
<1>3. ASSUME NEW i \in alive
      PROVE  hook[i] \in Hooks!Hook /\ hook[i].place = i /\ i \in Nat /\ hook[i].priority \in Int
  <2>1. host[i] \in Plugin /\ priority[i] \in Priority /\ i \in Nat
    BY <1>2
  <2> QED
    BY <2>1 DEF Hooks!Hook, HookLimits
<1>4. H = {hook[i] : i \in alive}
  OBVIOUS
<1>5. IsFiniteSet(H)
  <2>1. IsFiniteSet(1 .. Len(host))
    BY <1>2, FS_Interval
  <2>2. IsFiniteSet(alive)
    BY <1>2, <2>1, FS_Subset
  <2>3. hook \in Surjection(alive, H)
    BY DEF Surjection
  <2> QED
    BY <2>2, <2>3, FS_Surjection DEF ExistsSurjection
<1> HIDE DEF H, hook
<1>6. Registered(H) /\ H \subseteq Hooks!Hook
  BY <1>3, <1>4, <1>5 DEF Registered
<1>7. Hooks!Finalized(H) \in Seq(H) /\ InOrder(Hooks!Finalized(H))
  BY <1>6, Ranked
<1>8. Hooks!Finalized(H) \in Seq(Hooks!Hook)
  BY <1>6, <1>7
<1>9. << >> \in Seq(Hooks!Hook) /\ InOrder(<< >>)
  BY DEF InOrder
<1>10. hooks' = [ready |-> TRUE, hooks |-> IF Hooks!Unique(host) THEN Hooks!Finalized(H) ELSE << >>]
  BY <1>1 DEF H
<1> QED
  BY <1>7, <1>8, <1>9, <1>10

EventRecord == [step : {"none", "intercept", "observe", "blocked", "unwound"}, at : Nat,
                marks : Seq(Plugin), number : 0 .. Events]

(* A field of the event changed. *)
LEMMA EventChanges ==
  ASSUME NEW e \in EventRecord
  PROVE  /\ \A s \in {"blocked", "unwound"} : [e EXCEPT !.step = s] \in EventRecord
         /\ \A a \in Nat : [e EXCEPT !.at = a] \in EventRecord
         /\ \A a \in Nat, m \in Seq(Plugin) : [e EXCEPT !.at = a, !.marks = m] \in EventRecord
<1> DEFINE N == 0 .. Events
<1>1. e \in [step : {"none", "intercept", "observe", "blocked", "unwound"}, at : Nat,
             marks : Seq(Plugin), number : N]
  BY DEF EventRecord
<1>2. EventRecord = [step : {"none", "intercept", "observe", "blocked", "unwound"}, at : Nat,
             marks : Seq(Plugin), number : N]
  BY DEF EventRecord
<1> HIDE DEF N
<1> QED
  BY <1>1, <1>2

LEMMA HooksStep == HookLimits /\ HooksInv /\ [Hooks!Next]_Hooks!vars => HooksInv'
<1> SUFFICES ASSUME HookLimits, HooksInv, [Hooks!Next]_Hooks!vars PROVE HooksInv'
  OBVIOUS
<1> USE DEF HooksInv
<1>1. host \in Seq(Plugin) /\ hooks \in [ready : BOOLEAN, hooks : Seq(Hooks!Hook)]
      /\ event \in [step : {"none", "intercept", "observe", "blocked", "unwound"}, at : Nat,
                    marks : Seq(Plugin), number : 0 .. Events]
      /\ heard \in [shown : Seq([hook : Hooks!Hook, marks : Seq(Plugin)]), sent : Seq(Seq(Plugin))]
  BY DEF Hooks!TypeOK
<1>2. Events \in Nat /\ Len(hooks.hooks) \in Nat /\ event.number \in 0 .. Events
  BY <1>1 DEF HookLimits
<1>3. CASE UNCHANGED Hooks!vars
  BY <1>3 DEF Hooks!vars, Hooks!TypeOK, SeenInv, NothingYet, ShownUpTo, InOrder
<1>4. ASSUME NEW p \in Plugin, Hooks!Add(p) PROVE HooksInv'
  <2>1. host' \in Seq(Plugin) /\ UNCHANGED <<hooks, event, heard>>
    BY <1>1, <1>4 DEF Hooks!Add
  <2> QED
    BY <2>1 DEF Hooks!TypeOK, SeenInv, NothingYet, ShownUpTo, InOrder
<1>5. CASE Hooks!Assemble
  <2>1. hooks'.ready = TRUE /\ hooks' \in [ready : BOOLEAN, hooks : Seq(Hooks!Hook)]
        /\ InOrder(hooks'.hooks)
    BY <1>5, Assembling
  <2>2. ~hooks.ready /\ UNCHANGED <<host, event, heard>>
    BY <1>5 DEF Hooks!Assemble
  <2>3. event = Hooks!NoEvent
    BY <2>2
  <2>4. SeenInv'
    BY <2>2, <2>3 DEF SeenInv, Hooks!NoEvent
  <2>5. Hooks!TypeOK'
    BY <2>1, <2>2 DEF Hooks!TypeOK
  <2>6. InOrder(hooks.hooks)'
    BY <2>1 DEF InOrder
  <2> QED
    BY <2>1, <2>4, <2>5, <2>6
<1>6. CASE Hooks!Enter
  <2>1. event' = [step |-> "intercept", at |-> 1, marks |-> << >>, number |-> event.number + 1]
        /\ event.number < Events /\ heard' = [shown |-> << >>, sent |-> << >>]
        /\ UNCHANGED <<host, hooks>> /\ hooks.ready
    BY <1>6 DEF Hooks!Enter
  <2>2. event.number + 1 \in 0 .. Events
    BY <1>2, <2>1
  <2>3. Hooks!TypeOK'
    <3>1. << >> \in Seq(Plugin) /\ << >> \in Seq(Seq(Plugin))
          /\ << >> \in Seq([hook : Hooks!Hook, marks : Seq(Plugin)])
      OBVIOUS
    <3> QED
      BY <1>1, <2>1, <2>2, <3>1 DEF Hooks!TypeOK
  <2>4. SeenInv'
    BY <1>2, <2>1 DEF SeenInv, NothingYet
  <2> QED
    BY <2>1, <2>3, <2>4 DEF InOrder
<1>7. CASE Hooks!Intercept
  <2>1. event.step = "intercept" /\ event.at <= Len(hooks.hooks) /\ UNCHANGED <<host, hooks, heard>>
    BY <1>7 DEF Hooks!Intercept
  <2>2. event.at \in 1 .. Len(hooks.hooks) /\ NothingYet
    BY <1>2, <2>1 DEF SeenInv
  <2>3. hooks.hooks[event.at] \in Hooks!Hook
    BY <1>1, <2>2
  <2>4. Append(event.marks, hooks.hooks[event.at].plugin) \in Seq(Plugin)
    BY <1>1, <2>3 DEF Hooks!Hook
  <2>5. PICK m \in Seq(Plugin) :
          \/ event' = [event EXCEPT !.at = @ + 1, !.marks = m]
          \/ event' = [event EXCEPT !.step = "blocked"]
    BY <1>1, <1>7, <2>4 DEF Hooks!Intercept, Hooks!Current
  <2>6. Hooks!TypeOK'
    <3>1. event.at + 1 \in Nat
      BY <1>1
    <3>2. event' \in EventRecord
      <4>1. event \in EventRecord 
        BY <1>1 DEF EventRecord
      <4>2. [event EXCEPT !.at = event.at + 1, !.marks = m] \in EventRecord
              /\ [event EXCEPT !.step = "blocked"] \in EventRecord
        BY <3>1, <4>1, EventChanges
      <4> QED
        BY <2>5, <4>2
    <3> QED
      BY <1>1, <2>1, <3>2 DEF Hooks!TypeOK, EventRecord
  <2>7. SeenInv'
    <3>1. CASE event'.step = "blocked"
      BY <2>1, <2>2, <3>1 DEF SeenInv, NothingYet
    <3>2. CASE event'.step = "intercept" /\ event'.at = event.at + 1
      BY <1>2, <2>1, <2>2, <3>2 DEF SeenInv, NothingYet
    <3> QED
      BY <1>1, <2>1, <2>5, <3>1, <3>2
  <2>8. hooks'.ready
    BY <2>1 DEF Hooks!NoEvent
  <2> QED
    BY <2>1, <2>6, <2>7, <2>8 DEF InOrder
<1>8. CASE Hooks!Send
  <2>1. event.step = "intercept" /\ event.at > Len(hooks.hooks) /\ UNCHANGED <<host, hooks>>
        /\ event' = [event EXCEPT !.step = "observe", !.at = 1]
        /\ heard' = [heard EXCEPT !.sent = Append(@, event.marks)]
    BY <1>8 DEF Hooks!Send
  <2>2. NothingYet /\ event.marks \in Seq(Plugin)
    BY <1>1, <2>1 DEF SeenInv
  <2>3. heard'.shown = << >> /\ Len(heard'.sent) = 1 /\ heard'.sent[1] = event.marks
        /\ heard'.sent \in Seq(Seq(Plugin)) /\ heard'.shown = heard.shown
    BY <1>1, <2>1, <2>2, AppendProperties DEF NothingYet
  <2>4. event'.step = "observe" /\ event'.at = 1 /\ event'.marks = event.marks
    BY <1>1, <2>1
  <2>5. Hooks!TypeOK'
    BY <1>1, <2>1, <2>3 DEF Hooks!TypeOK
  <2>6. SeenInv'
    BY <1>2, <2>1, <2>3, <2>4 DEF SeenInv, ShownUpTo
  <2>7. hooks'.ready
    BY <2>1 DEF Hooks!NoEvent
  <2> QED
    BY <2>1, <2>5, <2>6, <2>7 DEF InOrder
<1>9. CASE Hooks!Observe
  <2> DEFINE new == [hook |-> hooks.hooks[event.at], marks |-> event.marks]
  <2>1. event.step = "observe" /\ event.at <= Len(hooks.hooks) /\ UNCHANGED <<host, hooks>>
        /\ event' = [event EXCEPT !.at = @ + 1]
        /\ heard' = [heard EXCEPT !.shown = Append(@, new)]
    BY <1>9 DEF Hooks!Observe, Hooks!Current
  <2>2. event.at \in 1 .. Len(hooks.hooks) /\ ShownUpTo(event.at - 1, event.marks)
    BY <1>2, <2>1 DEF SeenInv
  <2>3. new \in [hook : Hooks!Hook, marks : Seq(Plugin)]
    BY <1>1, <2>2
  <2> HIDE DEF new
  <2>4. heard'.shown \in Seq([hook : Hooks!Hook, marks : Seq(Plugin)]) /\ heard'.sent = heard.sent
        /\ Len(heard'.shown) = event.at /\ heard'.shown[event.at] = new
        /\ \A i \in 1 .. event.at - 1 : heard'.shown[i] = heard.shown[i]
    BY <1>1, <2>1, <2>2, <2>3, AppendProperties DEF ShownUpTo
  <2>5. event'.step = "observe" /\ event'.at = event.at + 1 /\ event'.marks = event.marks
        /\ event'.at - 1 = event.at /\ event'.at \in 1 .. Len(hooks.hooks) + 1
    BY <1>1, <1>2, <2>1, <2>2
  <2>6. Hooks!TypeOK'
    <3>1. event \in EventRecord /\ event.at + 1 \in Nat
      BY <1>1 DEF EventRecord
    <3>2. event' \in EventRecord
      BY <2>1, <3>1, EventChanges
    <3>3. heard' \in [shown : Seq([hook : Hooks!Hook, marks : Seq(Plugin)]), sent : Seq(Seq(Plugin))]
      BY <1>1, <2>1, <2>4
    <3> QED
      BY <1>1, <2>1, <3>2, <3>3 DEF Hooks!TypeOK, EventRecord
  <2>7. ASSUME NEW i \in 1 .. event.at
        PROVE  heard'.shown[i].hook = hooks.hooks[i] /\ heard'.shown[i].marks = event.marks
    <3>1. CASE i = event.at
      BY <2>4, <3>1 DEF new
    <3>2. CASE i # event.at
      <4>1. i \in 1 .. event.at - 1
        BY <1>1, <3>2
      <4> QED
        BY <2>2, <2>4, <4>1 DEF ShownUpTo
    <3> QED
      BY <3>1, <3>2
  <2>8. Len(heard'.sent) = 1 /\ heard'.sent[1] = event.marks
    BY <2>2, <2>4 DEF ShownUpTo
  <2>9. SeenInv'
    BY <2>1, <2>4, <2>5, <2>7, <2>8 DEF SeenInv, ShownUpTo
  <2>10. hooks'.ready
    BY <2>1 DEF Hooks!NoEvent
  <2> QED
    BY <2>1, <2>6, <2>9, <2>10 DEF InOrder
<1>10. CASE Hooks!PanicEarly
  <2>1. event.step = "observe" /\ UNCHANGED <<host, hooks, heard>>
        /\ event' = [event EXCEPT !.step = "unwound"]
    BY <1>10 DEF Hooks!PanicEarly
  <2>2. event'.step = "unwound"
    BY <1>1, <2>1
  <2>3. Hooks!TypeOK'
    <3>1. event \in EventRecord
      BY <1>1 DEF EventRecord
    <3>2. event' \in EventRecord
      BY <2>1, <3>1, EventChanges
    <3> QED
      BY <1>1, <2>1, <3>2 DEF Hooks!TypeOK, EventRecord
  <2>4. SeenInv' /\ hooks'.ready
    BY <2>1, <2>2 DEF SeenInv, Hooks!NoEvent
  <2> QED
    BY <2>1, <2>3, <2>4 DEF InOrder
<1>11. CASE Hooks!Done
  <2>1. event.step = "observe" /\ event.at > Len(hooks.hooks) /\ UNCHANGED <<host, hooks, heard>>
        /\ event' = [event EXCEPT !.step = "none", !.at = 0, !.marks = << >>]
    BY <1>11 DEF Hooks!Done
  <2>2. event.at - 1 = Len(hooks.hooks) /\ ShownUpTo(Len(hooks.hooks), event.marks)
    <3>1. event.at \in 1 .. Len(hooks.hooks) + 1 /\ ShownUpTo(event.at - 1, event.marks)
      BY <2>1 DEF SeenInv
    <3>2. event.at - 1 = Len(hooks.hooks)
      BY <1>2, <2>1, <3>1
    <3> QED
      BY <3>1, <3>2
  <2>3. event'.step = "none" /\ event' \in [step : {"none"}, at : Nat, marks : Seq(Plugin), number : 0 .. Events]
    <3>1. << >> \in Seq(Plugin)
      OBVIOUS
    <3> QED
      BY <1>1, <2>1, <3>1
  <2>4. heard.sent[1] = event.marks
    BY <2>2 DEF ShownUpTo
  <2>5. Hooks!TypeOK'
    BY <1>1, <2>1, <2>3 DEF Hooks!TypeOK
  <2>6. SeenInv'
    BY <2>1, <2>2, <2>3, <2>4 DEF SeenInv, ShownUpTo
  <2>7. hooks'.ready
    BY <2>1 DEF Hooks!NoEvent
  <2> QED
    BY <2>1, <2>5, <2>6, <2>7 DEF InOrder
<1> QED
  BY <1>3, <1>4, <1>5, <1>6, <1>7, <1>8, <1>9, <1>10, <1>11 DEF Hooks!Next

LEMMA HooksGive ==
  HooksInv => Hooks!ObservedByAll /\ Hooks!BlockedIsUnseen
<1> SUFFICES ASSUME HooksInv PROVE Hooks!ObservedByAll /\ Hooks!BlockedIsUnseen
  OBVIOUS
<1>1. Hooks!BlockedIsUnseen
  BY DEF HooksInv, SeenInv, NothingYet, Hooks!BlockedIsUnseen
<1>2. ASSUME event.step = "none", event.number > 0
      PROVE  /\ [i \in DOMAIN heard.shown |-> heard.shown[i].hook] = hooks.hooks
             /\ \A i \in 1 .. Len(hooks.hooks) - 1 : Hooks!Before(hooks.hooks[i], hooks.hooks[i + 1])
             /\ Len(heard.sent) = 1
             /\ \A i \in DOMAIN heard.shown : heard.shown[i].marks = heard.sent[1]
  <2>1. ShownUpTo(Len(hooks.hooks), heard.sent[1])
    BY <1>2 DEF HooksInv, SeenInv
  <2>2. heard.shown \in Seq([hook : Hooks!Hook, marks : Seq(Plugin)]) /\ hooks.hooks \in Seq(Hooks!Hook)
    BY DEF HooksInv, Hooks!TypeOK
  <2>3. DOMAIN heard.shown = 1 .. Len(hooks.hooks)
    BY <2>1, <2>2 DEF ShownUpTo
  <2>4. hooks.hooks = [i \in 1 .. Len(hooks.hooks) |-> hooks.hooks[i]]
    BY <2>2
  <2>5. [i \in DOMAIN heard.shown |-> heard.shown[i].hook] = hooks.hooks
    BY <2>1, <2>3, <2>4 DEF ShownUpTo
  <2> QED
    BY <2>1, <2>3, <2>5 DEF ShownUpTo, HooksInv, InOrder
<1> QED
  BY <1>1, <1>2 DEF Hooks!ObservedByAll

(***************************************************************************)
(* Excerpts: a reader that follows the hints has seen a beginning of what  *)
(* is read, up to the place of its next call.                              *)
(***************************************************************************)
ReadLimits ==
  /\ Costs \subseteq Seq(Nat) /\ Limits \subseteq Nat
  /\ Budget \in Nat /\ Most \in Nat /\ MaxUnits \in Nat /\ MaxOffset \in Nat

WindowInv ==
  source.kind = "file" =>
    /\ reader.next \in 1 .. Reading!Lines + 1
    /\ reader.shown = Reading!Run(0, reader.next - 1)
    /\ reader.done => reader.next = Reading!Lines + 1
WebPageInv ==
  source.kind = "web" =>
    /\ reader.next <= source.units
    /\ reader.shown = Reading!Run(0, Reading!Ceil(reader.next))
    /\ reader.done => reader.next = source.units
ExcerptInv == Reading!TypeOK /\ WindowInv /\ WebPageInv /\ Reading!NothingHidden

LEMMA RunIs ==
  ASSUME NEW a \in Nat, NEW b \in Nat
  PROVE  /\ Reading!Run(a, b) \in Seq(Nat)
         /\ a <= b => /\ Len(Reading!Run(a, b)) = b - a
                      /\ \A i \in 1 .. b - a : Reading!Run(a, b)[i] = a + i
BY DEF Reading!Run, Reading!Greatest

\* From the beginning.
LEMMA WholeOf ==
  ASSUME NEW c \in Nat
  PROVE  /\ Reading!Run(0, c) \in Seq(Nat) /\ Len(Reading!Run(0, c)) = c
         /\ \A i \in 1 .. c : Reading!Run(0, c)[i] = i
         /\ \A i \in 1 .. Len(Reading!Run(0, c)) - 1 : Reading!Run(0, c)[i] < Reading!Run(0, c)[i + 1]
<1>0. 0 \in Nat /\ 0 <= c
  OBVIOUS
<1>1. /\ Reading!Run(0, c) \in Seq(Nat) /\ Len(Reading!Run(0, c)) = c - 0
      /\ \A i \in 1 .. c - 0 : Reading!Run(0, c)[i] = 0 + i
  BY <1>0, RunIs
<1> QED
  BY <1>1

LEMMA RunsJoin ==
  ASSUME NEW a \in Nat, NEW b \in Nat, NEW c \in Nat, a <= b, b <= c
  PROVE  Reading!Run(a, b) \o Reading!Run(b, c) = Reading!Run(a, c)
<1> DEFINE both == Reading!Run(a, b) \o Reading!Run(b, c)
<1>1. /\ Reading!Run(a, b) \in Seq(Nat) /\ Len(Reading!Run(a, b)) = b - a
      /\ \A i \in 1 .. b - a : Reading!Run(a, b)[i] = a + i
  BY RunIs
<1>2. /\ Reading!Run(b, c) \in Seq(Nat) /\ Len(Reading!Run(b, c)) = c - b
      /\ \A i \in 1 .. c - b : Reading!Run(b, c)[i] = b + i
  BY RunIs
<1>3. /\ Reading!Run(a, c) \in Seq(Nat) /\ Len(Reading!Run(a, c)) = c - a
      /\ \A i \in 1 .. c - a : Reading!Run(a, c)[i] = a + i
  <2>1. a <= c
    OBVIOUS
  <2> QED
    BY <2>1, RunIs
<1>4. /\ both \in Seq(Nat) /\ Len(both) = c - a
      /\ \A i \in 1 .. c - a : both[i] = IF i <= b - a THEN Reading!Run(a, b)[i]
                                       ELSE Reading!Run(b, c)[i - (b - a)]
  <2>1. /\ both \in Seq(Nat) /\ Len(both) = Len(Reading!Run(a, b)) + Len(Reading!Run(b, c))
        /\ \A i \in 1 .. Len(Reading!Run(a, b)) + Len(Reading!Run(b, c)) :
             both[i] = IF i <= Len(Reading!Run(a, b)) THEN Reading!Run(a, b)[i]
                       ELSE Reading!Run(b, c)[i - Len(Reading!Run(a, b))]
    BY <1>1, <1>2, ConcatProperties
  <2>2. Len(Reading!Run(a, b)) = b - a /\ Len(Reading!Run(b, c)) = c - b /\ (b - a) + (c - b) = c - a
    BY <1>1, <1>2
  <2> QED
    BY <2>1, <2>2
<1> HIDE DEF both
<1>5. ASSUME NEW i \in 1 .. c - a PROVE both[i] = a + i
  <2>1. CASE i <= b - a
    <3>1. both[i] = Reading!Run(a, b)[i] /\ i \in 1 .. b - a
      BY <1>4, <2>1
    <3> QED
      BY <1>1, <3>1
  <2>2. CASE i > b - a
    <3>1. both[i] = Reading!Run(b, c)[i - (b - a)] /\ i - (b - a) \in 1 .. c - b
      BY <1>4, <2>2
    <3>2. Reading!Run(b, c)[i - (b - a)] = b + (i - (b - a))
      BY <1>2, <3>1
    <3> QED
      BY <3>1, <3>2
  <2> QED
    BY <2>1, <2>2
<1>6. \A i \in 1 .. c - a : both[i] = Reading!Run(a, c)[i]
  BY <1>3, <1>5
<1>7. both = Reading!Run(a, c)
  BY <1>3, <1>4, <1>6, SeqEqual
<1> QED
  BY <1>7 DEF both

\* The greatest and the least number of a set.
LEMMA MostOf ==
  ASSUME NEW S \in SUBSET Nat, S # {}, NEW b \in Nat, \A n \in S : n <= b
  PROVE  Reading!Max(S) \in S
<1>1. \E m \in S : \A n \in S : n <= m
  BY GreatestNumber
<1> QED
  BY <1>1 DEF Reading!Max

LEMMA LeastOf ==
  ASSUME NEW S \in SUBSET Nat, S # {}
  PROVE  Reading!Min(S) \in S /\ \A n \in S : Reading!Min(S) <= n
<1>1. \E m \in S : \A n \in S : m <= n
  BY LeastNumber
<1> QED
  BY <1>1 DEF Reading!Min

(* Windows -------------------------------------------------------------------*)
LEMMA SourceIs ==
  ASSUME ReadLimits, source \in Reading!Source
  PROVE  /\ source.kind \in {"file", "directory", "search", "diff", "web", "output"}
         /\ source.kind \in {"file", "directory", "search", "diff"} =>
              source.costs \in Seq(Nat) /\ Reading!Lines \in Nat
         /\ source.kind \in {"web", "output"} =>
              /\ source.units \in Nat /\ source.units > 0
              /\ source.inside \subseteq 1 .. source.units - 1
BY DEF ReadLimits, Reading!Source, Reading!Lines

LEMMA CollectedIs ==
  ASSUME ReadLimits, source \in Reading!Source, source.kind = "file",
         NEW offset \in 1 .. Reading!Lines + 1, NEW limit \in Limits
  PROVE  /\ Reading!Collected(offset, limit) \in Nat
         /\ offset - 1 + Reading!Collected(offset, limit) <= Reading!Lines
<1> DEFINE room == Reading!Least(limit, Reading!Greatest(0, Reading!Lines - offset + 1))
           fits == Reading!Fitting(offset, limit)
<1>1. source.costs \in Seq(Nat) /\ Reading!Lines = Len(source.costs) /\ Reading!Lines \in Nat
  BY SourceIs DEF Reading!Lines
<1>2. limit \in Nat
  BY DEF ReadLimits
<1>3. room \in Nat /\ room <= Reading!Lines - offset + 1
  BY <1>1, <1>2 DEF Reading!Least, Reading!Greatest
<1>4. 0 \in fits
  <2>1. Reading!Upto(offset - 1) \in Nat
    BY <1>1 DEF Reading!Upto
  <2>2. offset + 0 - 1 = offset - 1
    OBVIOUS
  <2>3. Reading!Cost(offset, offset + 0 - 1) = 0
    BY <2>1, <2>2 DEF Reading!Cost
  <2> QED
    BY <1>3, <2>3 DEF Reading!Fitting, ReadLimits
<1>5. fits \in SUBSET Nat /\ \A n \in fits : n <= room
  BY <1>3 DEF Reading!Fitting
<1>6. Reading!Max(fits) \in fits
  BY <1>3, <1>4, <1>5, MostOf
<1>7. Reading!Max(fits) \in Nat /\ Reading!Max(fits) <= room
  BY <1>5, <1>6
<1> QED
  BY <1>1, <1>3, <1>7 DEF Reading!Collected

LEMMA WindowKeeps ==
  ASSUME ReadLimits, ExcerptInv, NEW limit \in Limits, Reading!ReadWindow(limit)
  PROVE  ExcerptInv'
<1> DEFINE last == reader.next - 1 + Reading!Collected(reader.next, limit)
<1>1. /\ source.kind = "file" /\ source \in Reading!Source /\ source' = source
      /\ reader \in [next : Nat, shown : Seq(Nat), omitted : Nat, done : BOOLEAN]
      /\ reader' = [reader EXCEPT !.next = last + 1,
                                  !.shown = @ \o Reading!Run(reader.next - 1, last),
                                  !.done = last >= Reading!Lines]
      /\ reader.next \in 1 .. Reading!Lines + 1
      /\ reader.shown = Reading!Run(0, reader.next - 1)
  BY DEF ExcerptInv, Reading!TypeOK, WindowInv, Reading!ReadWindow
<1>2. Reading!Lines \in Nat /\ Reading!Lines' = Reading!Lines
  BY <1>1, SourceIs DEF Reading!Lines
<1>3. Reading!Collected(reader.next, limit) \in Nat /\ last <= Reading!Lines
  BY <1>1, CollectedIs
<1>4. last \in Nat /\ reader.next - 1 \in Nat /\ reader.next - 1 <= last
  BY <1>1, <1>2, <1>3
<1> HIDE DEF last
<1>5. reader.shown \o Reading!Run(reader.next - 1, last) = Reading!Run(0, last)
  <2>1. Reading!Run(0, reader.next - 1) \o Reading!Run(reader.next - 1, last) = Reading!Run(0, last)
    <3>1. 0 \in Nat /\ 0 <= reader.next - 1
      BY <1>4
    <3> QED
      BY <1>4, <3>1, RunsJoin
  <2> QED
    BY <1>1, <2>1
<1>6. Reading!Run(0, last) \in Seq(Nat)
  BY <1>4, RunIs
<1>7. /\ reader'.next = last + 1 /\ reader'.shown = Reading!Run(0, last)
      /\ reader'.done = (last >= Reading!Lines) /\ reader'.omitted = reader.omitted
      /\ reader' \in [next : Nat, shown : Seq(Nat), omitted : Nat, done : BOOLEAN]
  <2>1. reader' = [reader EXCEPT !.next = last + 1, !.shown = Reading!Run(0, last),
                                 !.done = last >= Reading!Lines]
    BY <1>1, <1>5
  <2> HIDE DEF last
  <2>2. last + 1 \in Nat /\ (last >= Reading!Lines) \in BOOLEAN
    BY <1>4
  <2> QED
    BY <1>1, <1>6, <2>1, <2>2
<1>8. Reading!TypeOK'
  BY <1>1, <1>7 DEF Reading!TypeOK, Reading!Source
<1>9. WindowInv'
  <2>1. reader'.next - 1 = last
    BY <1>4, <1>7
  <2>2. reader'.shown = Reading!Run(0, reader'.next - 1)
    BY <1>7, <2>1
  <2>3. Reading!Run(0, reader.next - 1)' = Reading!Run(0, reader'.next - 1)
    BY DEF Reading!Run, Reading!Greatest
  <2>4. reader'.next \in 1 .. Reading!Lines + 1 /\ (reader'.done => reader'.next = Reading!Lines + 1)
    BY <1>2, <1>3, <1>4, <1>7
  <2> QED
    BY <1>2, <2>2, <2>3, <2>4 DEF WindowInv
<1> QED
  BY <1>1, <1>8, <1>9 DEF ExcerptInv, WebPageInv, Reading!NothingHidden

(* Pages ---------------------------------------------------------------------*)
LEMMA CeilIs ==
  ASSUME ReadLimits, source \in Reading!Source, source.kind \in {"web", "output"}, NEW place \in Nat
  PROVE  /\ Reading!Ceil(place) \in Nat /\ Reading!Ceil(place) <= source.units
         /\ place <= source.units => place <= Reading!Ceil(place)
         /\ place >= source.units => Reading!Ceil(place) = source.units
         /\ Reading!Ceil(0) = 0
         /\ \A q \in Nat : place <= q => Reading!Ceil(place) <= Reading!Ceil(q)
<1> DEFINE fit(p) == {q \in p .. source.units : q \notin source.inside}
<1>1. source.units \in Nat /\ source.units > 0 /\ source.inside \subseteq 1 .. source.units - 1
  BY SourceIs
<1>2. ASSUME NEW p \in Nat, p < source.units
      PROVE  /\ Reading!Ceil(p) \in fit(p) /\ (\A q \in fit(p) : Reading!Ceil(p) <= q)
             /\ source.units \in fit(p) /\ Reading!Ceil(p) \in Nat
  <2>1. fit(p) \in SUBSET Nat /\ source.units \in fit(p)
    BY <1>1, <1>2
  <2>2. Reading!Ceil(p) = Reading!Min(fit(p))
    BY <1>1, <1>2 DEF Reading!Ceil
  <2>3. Reading!Min(fit(p)) \in fit(p) /\ \A q \in fit(p) : Reading!Min(fit(p)) <= q
    BY <2>1, LeastOf
  <2> QED
    BY <2>1, <2>2, <2>3
<1>3. \A p \in Nat : p >= source.units => Reading!Ceil(p) = source.units
  BY <1>1 DEF Reading!Ceil
<1>4. \A p \in Nat : /\ Reading!Ceil(p) \in Nat /\ Reading!Ceil(p) <= source.units
                     /\ p <= source.units => p <= Reading!Ceil(p)
  BY <1>1, <1>2, <1>3
<1>5. Reading!Ceil(0) = 0
  <2>1. 0 \in fit(0)
    BY <1>1
  <2> QED
    BY <1>1, <1>2, <2>1
<1>6. ASSUME NEW q \in Nat, place <= q PROVE Reading!Ceil(place) <= Reading!Ceil(q)
  <2>1. CASE q >= source.units
    BY <1>3, <1>4, <2>1
  <2>2. CASE q < source.units
    <3>1. Reading!Ceil(q) \in fit(q) /\ place < source.units
      BY <1>1, <1>2, <1>6, <2>2
    <3>2. Reading!Ceil(q) \in fit(place)
      BY <1>1, <1>6, <3>1
    <3> QED
      BY <1>2, <3>1, <3>2
  <2> QED
    BY <1>1, <2>1, <2>2
<1> QED
  BY <1>3, <1>4, <1>5, <1>6

LEMMA FetchKeeps ==
  ASSUME ReadLimits, ExcerptInv, NEW limit \in Limits, Reading!FetchPage(limit)
  PROVE  ExcerptInv'
<1> DEFINE end == Reading!Least(reader.next + limit, source.units)
<1>1. /\ source.kind = "web" /\ source \in Reading!Source /\ source' = source
      /\ reader \in [next : Nat, shown : Seq(Nat), omitted : Nat, done : BOOLEAN]
      /\ reader' = [reader EXCEPT
           !.next = end,
           !.shown = @ \o Reading!Run(Reading!Ceil(reader.next), Reading!Ceil(end)),
           !.done = end >= source.units]
      /\ reader.next <= source.units
      /\ reader.shown = Reading!Run(0, Reading!Ceil(reader.next))
  BY DEF ExcerptInv, Reading!TypeOK, WebPageInv, Reading!FetchPage
<1>2. source.units \in Nat /\ limit \in Nat
  BY <1>1, SourceIs DEF ReadLimits
<1>3. end \in Nat /\ reader.next \in Nat /\ reader.next <= end /\ end <= source.units
  BY <1>1, <1>2 DEF Reading!Least
<1>4. /\ Reading!Ceil(reader.next) \in Nat /\ Reading!Ceil(end) \in Nat
      /\ Reading!Ceil(reader.next) <= Reading!Ceil(end)
  BY <1>1, <1>3, CeilIs
<1> HIDE DEF end
<1>5. reader.shown \o Reading!Run(Reading!Ceil(reader.next), Reading!Ceil(end))
        = Reading!Run(0, Reading!Ceil(end))
  <2>1. Reading!Run(0, Reading!Ceil(reader.next)) \o Reading!Run(Reading!Ceil(reader.next), Reading!Ceil(end))
          = Reading!Run(0, Reading!Ceil(end))
    <3>1. 0 \in Nat /\ 0 <= Reading!Ceil(reader.next)
      BY <1>4
    <3> QED
      BY <1>4, <3>1, RunsJoin
  <2> QED
    BY <1>1, <2>1
<1>6. Reading!Run(0, Reading!Ceil(end)) \in Seq(Nat)
  BY <1>4, RunIs
<1>7. /\ reader'.next = end /\ reader'.shown = Reading!Run(0, Reading!Ceil(end))
      /\ reader'.done = (end >= source.units)
      /\ reader' \in [next : Nat, shown : Seq(Nat), omitted : Nat, done : BOOLEAN]
  <2>1. reader' = [reader EXCEPT !.next = end, !.shown = Reading!Run(0, Reading!Ceil(end)),
                                 !.done = end >= source.units]
    BY <1>1, <1>5
  <2>2. (end >= source.units) \in BOOLEAN
    OBVIOUS
  <2> QED
    BY <1>1, <1>3, <1>6, <2>1, <2>2
<1>8. Reading!TypeOK'
  BY <1>1, <1>7 DEF Reading!TypeOK, Reading!Source
<1>9. WebPageInv'
  <2>1. Reading!Ceil(reader.next)' = Reading!Ceil(reader'.next)
    BY <1>1 DEF Reading!Ceil, Reading!Min
  <2>2. Reading!Run(0, Reading!Ceil(reader.next))' = Reading!Run(0, Reading!Ceil(end))
    BY <1>7, <2>1 DEF Reading!Run, Reading!Greatest
  <2>3. reader'.next <= source.units /\ (reader'.done => reader'.next = source.units)
    BY <1>2, <1>3, <1>7
  <2> QED
    BY <1>1, <1>7, <2>2, <2>3 DEF WebPageInv
<1> QED
  BY <1>1, <1>8, <1>9 DEF ExcerptInv, WindowInv, Reading!NothingHidden

(* What is shown once ----------------------------------------------------------*)
\* Two ends of something, with the middle left out.
LEMMA EndsOf ==
  ASSUME NEW a \in Nat, NEW b \in Nat, NEW c \in Nat, a <= b, b <= c
  PROVE  /\ Reading!Run(0, a) \o Reading!Run(b, c) \in Seq(Nat)
         /\ Len(Reading!Run(0, a) \o Reading!Run(b, c)) + (b - a) = c
         /\ \A i \in 1 .. Len(Reading!Run(0, a) \o Reading!Run(b, c)) - 1 :
              (Reading!Run(0, a) \o Reading!Run(b, c))[i] < (Reading!Run(0, a) \o Reading!Run(b, c))[i + 1]
<1> DEFINE ends == Reading!Run(0, a) \o Reading!Run(b, c)
<1>1. /\ Reading!Run(0, a) \in Seq(Nat) /\ Len(Reading!Run(0, a)) = a
      /\ \A i \in 1 .. a : Reading!Run(0, a)[i] = i
  BY WholeOf
<1>2. /\ Reading!Run(b, c) \in Seq(Nat) /\ Len(Reading!Run(b, c)) = c - b
      /\ \A i \in 1 .. c - b : Reading!Run(b, c)[i] = b + i
  BY RunIs
<1>3. /\ ends \in Seq(Nat) /\ Len(ends) = a + (c - b)
      /\ \A i \in 1 .. a + (c - b) : ends[i] = IF i <= a THEN Reading!Run(0, a)[i]
                                              ELSE Reading!Run(b, c)[i - a]
  <2>1. /\ ends \in Seq(Nat) /\ Len(ends) = Len(Reading!Run(0, a)) + Len(Reading!Run(b, c))
        /\ \A i \in 1 .. Len(Reading!Run(0, a)) + Len(Reading!Run(b, c)) :
             ends[i] = IF i <= Len(Reading!Run(0, a)) THEN Reading!Run(0, a)[i]
                       ELSE Reading!Run(b, c)[i - Len(Reading!Run(0, a))]
    BY <1>1, <1>2, ConcatProperties
  <2>2. Len(Reading!Run(0, a)) = a /\ Len(Reading!Run(b, c)) = c - b
    BY <1>1, <1>2
  <2> QED
    BY <2>1, <2>2
<1> HIDE DEF ends
<1>4. ASSUME NEW i \in 1 .. a + (c - b), i <= a PROVE ends[i] = i
  <2>1. i \in 1 .. a
    BY <1>4
  <2>2. ends[i] = Reading!Run(0, a)[i]
    BY <1>3, <1>4
  <2> QED
    BY <1>1, <2>1, <2>2
<1>5. ASSUME NEW i \in 1 .. a + (c - b), i > a PROVE ends[i] = b + (i - a)
  <2>1. ends[i] = Reading!Run(b, c)[i - a]
    BY <1>3, <1>5
  <2>2. i - a \in 1 .. c - b
    BY <1>5
  <2> QED
    BY <1>2, <2>1, <2>2
<1>6. ASSUME NEW i \in 1 .. Len(ends) - 1 PROVE ends[i] < ends[i + 1]
  <2>0. i \in 1 .. a + (c - b) /\ i + 1 \in 1 .. a + (c - b)
    BY <1>3
  <2>1. CASE i + 1 <= a
    <3>1. ends[i] = i
      BY <1>4, <2>0, <2>1
    <3>2. ends[i + 1] = i + 1
      BY <1>4, <2>0, <2>1
    <3> QED
      BY <2>0, <3>1, <3>2
  <2>2. CASE i = a
    <3>1. ends[i] = i
      BY <1>4, <2>0, <2>2
    <3>2. ends[i + 1] = b + (i + 1 - a)
      BY <1>5, <2>0, <2>2
    <3> QED
      BY <2>2, <3>1, <3>2
  <2>3. CASE i > a
    <3>1. ends[i] = b + (i - a)
      BY <1>5, <2>0, <2>3
    <3>2. ends[i + 1] = b + (i + 1 - a)
      BY <1>5, <2>0, <2>3
    <3> QED
      BY <2>0, <3>1, <3>2
  <2> QED
    BY <2>0, <2>1, <2>2, <2>3
<1>7. Len(ends) + (b - a) = c
  BY <1>3
<1> QED
  BY <1>3, <1>6, <1>7 DEF ends

\* A reader of anything else sees it in one step.
LEMMA OnceKeeps ==
  ASSUME ReadLimits, ExcerptInv, source.kind \in {"directory", "search", "output", "diff"},
         source' = source,
         reader' \in [next : Nat, shown : Seq(Nat), omitted : Nat, done : BOOLEAN],
         source.kind = "search" /\ reader'.done => Len(reader'.shown) = Reading!Lines,
         source.kind \in {"output", "diff"} =>
           /\ Len(reader'.shown) + reader'.omitted
                = IF source.kind = "output" THEN source.units ELSE Reading!Lines
           /\ \A i \in 1 .. Len(reader'.shown) - 1 : reader'.shown[i] < reader'.shown[i + 1]
  PROVE  ExcerptInv'
<1>1. Reading!TypeOK'
  BY DEF ExcerptInv, Reading!TypeOK, Reading!Source
<1>2. Reading!NothingHidden'
  BY DEF Reading!NothingHidden, Reading!Lines
<1> QED
  BY <1>1, <1>2 DEF ExcerptInv, WindowInv, WebPageInv

LEMMA ListKeeps ==
  ASSUME ReadLimits, ExcerptInv, NEW limit \in Limits, NEW offset \in 1 .. MaxOffset,
         Reading!ListDirectory(offset, limit)
  PROVE  ExcerptInv'
<1> DEFINE start == offset - 1
           end == Reading!Least(start + limit, Reading!Lines)
           new == Reading!Run(start, end)
           over == end >= Reading!Lines
<1>1. /\ source.kind = "directory" /\ source \in Reading!Source /\ source' = source
      /\ reader \in [next : Nat, shown : Seq(Nat), omitted : Nat, done : BOOLEAN]
      /\ reader' = [reader EXCEPT !.shown = new, !.done = over]
  BY DEF ExcerptInv, Reading!TypeOK, Reading!ListDirectory
<1>2. Reading!Lines \in Nat /\ limit \in Nat /\ start \in Nat
  BY <1>1, SourceIs DEF ReadLimits
<1>3. end \in Nat
  BY <1>2 DEF Reading!Least
<1>4. new \in Seq(Nat)
  BY <1>2, <1>3, RunIs
<1>5. over \in BOOLEAN
  OBVIOUS
<1> HIDE DEF new, over
<1>6. reader' \in [next : Nat, shown : Seq(Nat), omitted : Nat, done : BOOLEAN]
  BY <1>1, <1>4, <1>5
<1> QED
  BY <1>1, <1>6, OnceKeeps

LEMMA SearchKeeps ==
  ASSUME ReadLimits, ExcerptInv, NEW limit \in Limits, Reading!Search(limit)
  PROVE  ExcerptInv'
<1> DEFINE new == Reading!FirstOnes(limit)
           over == Reading!Lines <= Reading!Clamped(limit)
<1>1. /\ source.kind = "search" /\ source \in Reading!Source /\ source' = source
      /\ reader \in [next : Nat, shown : Seq(Nat), omitted : Nat, done : BOOLEAN]
      /\ reader' = [reader EXCEPT !.shown = new, !.done = over]
  BY DEF ExcerptInv, Reading!TypeOK, Reading!Search
<1>2. Reading!Lines \in Nat /\ Reading!Clamped(limit) \in Nat
  BY <1>1, SourceIs DEF ReadLimits, Reading!Clamped, Reading!Greatest, Reading!Least
<1>3. /\ Reading!Least(Reading!Clamped(limit), Reading!Lines) \in Nat
      /\ over => Reading!Least(Reading!Clamped(limit), Reading!Lines) = Reading!Lines
  BY <1>2 DEF Reading!Least
<1>4. new \in Seq(Nat) /\ Len(new) = Reading!Least(Reading!Clamped(limit), Reading!Lines)
  BY <1>3, WholeOf DEF Reading!FirstOnes
<1>5. over \in BOOLEAN /\ (over => Len(new) = Reading!Lines)
  BY <1>3, <1>4
<1> HIDE DEF new, over
<1>6. /\ reader' \in [next : Nat, shown : Seq(Nat), omitted : Nat, done : BOOLEAN]
      /\ reader'.shown = new /\ reader'.done = over
  BY <1>1, <1>4, <1>5
<1> QED
  BY <1>1, <1>5, <1>6, OnceKeeps

LEMMA OutputKeeps ==
  ASSUME ReadLimits, ExcerptInv, NEW limit \in Limits, Reading!TruncateOutput(limit)
  PROVE  ExcerptInv'
<1> DEFINE head == Reading!Ceil(Reading!HeadPart(limit))
           from == Reading!Greatest(0, source.units - (limit - Reading!HeadPart(limit)))
           tail == Reading!Ceil(from)
           new == IF source.units <= limit THEN Reading!Run(0, source.units)
                  ELSE Reading!Run(0, head) \o Reading!Run(tail, source.units)
           left == IF source.units <= limit THEN 0 ELSE tail - head
<1>1. /\ source.kind = "output" /\ source \in Reading!Source /\ source' = source
      /\ reader \in [next : Nat, shown : Seq(Nat), omitted : Nat, done : BOOLEAN]
      /\ reader' = [reader EXCEPT !.shown = new, !.omitted = left, !.done = TRUE]
  BY DEF ExcerptInv, Reading!TypeOK, Reading!TruncateOutput
<1>2. source.units \in Nat /\ limit \in Nat
  BY <1>1, SourceIs DEF ReadLimits
<1>3. Reading!HeadPart(limit) \in Nat /\ Reading!HeadPart(limit) <= limit
  <2> DEFINE parts == limit * 4
  <2>1. parts \in Nat /\ parts <= limit * 10
    BY <1>2
  <2>2. Reading!HeadPart(limit) = parts \div 10
    BY DEF Reading!HeadPart
  <2> HIDE DEF parts
  <2>3. parts \div 10 \in Nat /\ parts % 10 \in 0 .. 10 - 1 /\ parts = (parts \div 10) * 10 + (parts % 10)
    <3>1. 10 \in Nat \ {0}
      OBVIOUS
    <3> QED
      BY <2>1, <3>1, Division
  <2> QED
    BY <1>2, <2>1, <2>2, <2>3
<1>4. from \in Nat
  BY <1>2, <1>3 DEF Reading!Greatest
<1>5. head \in Nat /\ tail \in Nat /\ head <= source.units /\ tail <= source.units
  BY <1>1, <1>3, <1>4, CeilIs
<1>6. ASSUME source.units > limit PROVE head <= tail
  <2>1. Reading!HeadPart(limit) <= from
    BY <1>2, <1>3, <1>6 DEF Reading!Greatest
  <2> QED
    BY <1>1, <1>3, <1>4, <2>1, CeilIs
<1>7. /\ new \in Seq(Nat) /\ left \in Nat /\ Len(new) + left = source.units
      /\ \A i \in 1 .. Len(new) - 1 : new[i] < new[i + 1]
  <2>1. CASE source.units <= limit
    <3>1. new = Reading!Run(0, source.units) /\ left = 0
      BY <2>1
    <3> HIDE DEF new, left
    <3>2. new \in Seq(Nat) /\ Len(new) = source.units
      BY <1>2, <3>1, WholeOf
    <3>3. \A i \in 1 .. Len(new) - 1 : new[i] < new[i + 1]
      BY <1>2, <3>1, WholeOf
    <3> QED
      BY <1>2, <3>1, <3>2, <3>3
  <2>2. CASE source.units > limit
    <3>1. new = Reading!Run(0, head) \o Reading!Run(tail, source.units) /\ left = tail - head
      BY <1>2, <2>2
    <3> HIDE DEF new, left, head, tail
    <3>2. new \in Seq(Nat) /\ Len(new) + (tail - head) = source.units
      BY <1>2, <1>5, <1>6, <2>2, <3>1, EndsOf
    <3>3. \A i \in 1 .. Len(new) - 1 : new[i] < new[i + 1]
      BY <1>2, <1>5, <1>6, <2>2, <3>1, EndsOf
    <3> QED
      BY <1>5, <1>6, <2>2, <3>1, <3>2, <3>3
  <2> QED
    BY <1>2, <2>1, <2>2
<1> HIDE DEF new, left
<1>8. /\ reader' \in [next : Nat, shown : Seq(Nat), omitted : Nat, done : BOOLEAN]
      /\ reader'.shown = new /\ reader'.omitted = left
  BY <1>1, <1>7
<1> QED
  BY <1>1, <1>7, <1>8, OnceKeeps

LEMMA DiffKeeps ==
  ASSUME ReadLimits, ExcerptInv, NEW limit \in Limits, Reading!TruncateDiff(limit)
  PROVE  ExcerptInv'
<1> DEFINE head == Reading!DiffHead(limit)
           tail == Reading!DiffTail(limit)
           whole == Reading!Used(1, Reading!Lines) <= limit
           new == IF whole THEN Reading!Run(0, Reading!Lines)
                  ELSE Reading!Run(0, head) \o Reading!Run(tail, Reading!Lines)
           left == IF whole THEN 0 ELSE tail - head
<1>1. /\ source.kind = "diff" /\ source \in Reading!Source /\ source' = source
      /\ reader \in [next : Nat, shown : Seq(Nat), omitted : Nat, done : BOOLEAN]
      /\ reader' = [reader EXCEPT !.shown = new, !.omitted = left, !.done = TRUE]
  BY DEF ExcerptInv, Reading!TypeOK, Reading!TruncateDiff
<1>2. Reading!Lines \in Nat
  BY <1>1, SourceIs
<1>3. head \in 0 .. Reading!Lines
  <2> DEFINE S == {n \in 0 .. Reading!Lines : n = 0 \/ Reading!Used(1, n) <= (limit * 4) \div 5}
  <2>1. S \in SUBSET Nat /\ 0 \in S /\ \A n \in S : n <= Reading!Lines
    BY <1>2
  <2>2. Reading!Max(S) \in S
    <3> HIDE DEF S
    <3> QED
      BY <1>2, <2>1, MostOf
  <2> QED
    BY <2>2 DEF Reading!DiffHead
<1>4. tail \in head .. Reading!Lines
  <2> DEFINE S == {n \in head .. Reading!Lines :
                     n = Reading!Lines \/ Reading!Used(n + 1, Reading!Lines) <= limit \div 5}
  <2> HIDE DEF head
  <2>1. S \in SUBSET Nat /\ Reading!Lines \in S
    BY <1>2, <1>3
  <2>2. Reading!Min(S) \in S
    <3> HIDE DEF S
    <3> QED
      BY <2>1, LeastOf
  <2> QED
    BY <2>2 DEF Reading!DiffTail, head
<1>5. /\ new \in Seq(Nat) /\ left \in Nat /\ Len(new) + left = Reading!Lines
      /\ \A i \in 1 .. Len(new) - 1 : new[i] < new[i + 1]
  <2> HIDE DEF head, tail, whole
  <2>1. CASE whole
    <3>1. new = Reading!Run(0, Reading!Lines) /\ left = 0
      BY <2>1
    <3> HIDE DEF new, left
    <3>2. new \in Seq(Nat) /\ Len(new) = Reading!Lines
      BY <1>2, <3>1, WholeOf
    <3>3. \A i \in 1 .. Len(new) - 1 : new[i] < new[i + 1]
      BY <1>2, <3>1, WholeOf
    <3> QED
      BY <1>2, <3>1, <3>2, <3>3
  <2>2. CASE ~whole
    <3>1. new = Reading!Run(0, head) \o Reading!Run(tail, Reading!Lines) /\ left = tail - head
      BY <2>2
    <3> HIDE DEF new, left
    <3>2. head \in Nat /\ tail \in Nat /\ head <= tail /\ tail <= Reading!Lines
      BY <1>2, <1>3, <1>4
    <3>3. new \in Seq(Nat) /\ Len(new) + (tail - head) = Reading!Lines
      BY <1>2, <3>1, <3>2, EndsOf
    <3>4. \A i \in 1 .. Len(new) - 1 : new[i] < new[i + 1]
      BY <1>2, <3>1, <3>2, EndsOf
    <3> QED
      BY <3>1, <3>2, <3>3, <3>4
  <2> QED
    BY <2>1, <2>2
<1> HIDE DEF new, left
<1>8. /\ reader' \in [next : Nat, shown : Seq(Nat), omitted : Nat, done : BOOLEAN]
      /\ reader'.shown = new /\ reader'.omitted = left
  BY <1>1, <1>5
<1> QED
  BY <1>1, <1>5, <1>8, OnceKeeps

LEMMA ReadingStart == ASSUME ReadLimits PROVE Reading!Init => ExcerptInv
<1> SUFFICES ASSUME Reading!Init PROVE ExcerptInv
  OBVIOUS
<1>1. /\ source \in Reading!Source /\ reader.shown = <<>> /\ reader.done = FALSE
      /\ reader.next = IF source.kind = "file" THEN 1 ELSE 0
      /\ reader \in [next : Nat, shown : Seq(Nat), omitted : Nat, done : BOOLEAN]
  BY DEF Reading!Init
<1>2. Reading!Run(0, 0) = <<>>
  <2>1. Reading!Run(0, 0) \in Seq(Nat) /\ Len(Reading!Run(0, 0)) = 0
    BY RunIs
  <2> QED
    BY <2>1
<1>3. WindowInv
  BY <1>1, <1>2, SourceIs DEF WindowInv
<1>4. WebPageInv
  <2> SUFFICES ASSUME source.kind = "web" PROVE WebPageInv
    BY DEF WebPageInv
  <2>1. Reading!Ceil(0) = 0 /\ source.units \in Nat
    BY <1>1, SourceIs, CeilIs
  <2> QED
    BY <1>1, <1>2, <2>1 DEF WebPageInv
<1> QED
  BY <1>1, <1>3, <1>4 DEF ExcerptInv, Reading!TypeOK, Reading!NothingHidden

LEMMA ReadingStep == ASSUME ReadLimits PROVE ExcerptInv /\ [Reading!Next]_Reading!vars => ExcerptInv'
<1> SUFFICES ASSUME ExcerptInv, [Reading!Next]_Reading!vars PROVE ExcerptInv'
  OBVIOUS
<1>1. ASSUME NEW limit \in Limits, Reading!ReadWindow(limit) PROVE ExcerptInv'
  BY <1>1, WindowKeeps
<1>2. ASSUME NEW limit \in Limits, Reading!Search(limit) PROVE ExcerptInv'
  BY <1>2, SearchKeeps
<1>3. ASSUME NEW limit \in Limits, Reading!FetchPage(limit) PROVE ExcerptInv'
  BY <1>3, FetchKeeps
<1>4. ASSUME NEW limit \in Limits, Reading!TruncateOutput(limit) PROVE ExcerptInv'
  BY <1>4, OutputKeeps
<1>5. ASSUME NEW limit \in Limits, Reading!TruncateDiff(limit) PROVE ExcerptInv'
  BY <1>5, DiffKeeps
<1>6. ASSUME NEW limit \in Limits, NEW offset \in 1 .. MaxOffset, Reading!ListDirectory(offset, limit)
      PROVE  ExcerptInv'
  BY <1>6, ListKeeps
<1>7. CASE UNCHANGED Reading!vars
  BY <1>7 DEF Reading!vars, ExcerptInv, Reading!TypeOK, Reading!Source, WindowInv, WebPageInv,
             Reading!NothingHidden, Reading!Lines, Reading!Run, Reading!Greatest, Reading!Ceil, Reading!Min
<1> QED
  BY <1>1, <1>2, <1>3, <1>4, <1>5, <1>6, <1>7 DEF Reading!Next

LEMMA ReadingGives == ASSUME ReadLimits, ExcerptInv PROVE Reading!HintsCoverAll /\ Reading!NothingHidden
<1>1. Reading!NothingHidden /\ source \in Reading!Source /\ reader.next \in Nat
  BY DEF ExcerptInv, Reading!TypeOK
<1>2. CASE source.kind = "file"
  <2>1. Reading!Lines \in Nat /\ reader.next \in 1 .. Reading!Lines + 1
    BY <1>1, <1>2, SourceIs DEF ExcerptInv, WindowInv
  <2>2. reader.next - 1 \in Nat /\ reader.shown = Reading!Run(0, reader.next - 1)
    BY <1>2, <2>1 DEF ExcerptInv, WindowInv
  <2>3. Len(reader.shown) = reader.next - 1
    BY <2>2, WholeOf
  <2>4. reader.done => reader.next = Reading!Lines + 1
    BY <1>2 DEF ExcerptInv, WindowInv
  <2> QED
    BY <1>1, <1>2, <2>1, <2>2, <2>3, <2>4 DEF Reading!HintsCoverAll
<1>3. CASE source.kind = "web"
  <2>1. Reading!Ceil(reader.next) \in Nat /\ source.units \in Nat
    BY <1>1, <1>3, SourceIs, CeilIs
  <2>2. reader.shown = Reading!Run(0, Reading!Ceil(reader.next))
    BY <1>3 DEF ExcerptInv, WebPageInv
  <2>3. Len(reader.shown) = Reading!Ceil(reader.next)
    BY <2>1, <2>2, WholeOf
  <2>4. reader.done => Reading!Ceil(reader.next) = source.units
    BY <1>1, <1>3, <2>1, CeilIs DEF ExcerptInv, WebPageInv
  <2> QED
    BY <1>1, <1>3, <2>2, <2>3, <2>4 DEF Reading!HintsCoverAll
<1> QED
  BY <1>1, <1>2, <1>3 DEF Reading!HintsCoverAll

(***************************************************************************)
(* Configuration: what the process holds is the merge of the layers it was *)
(* loaded from, and a merge says of a key what the upper layer says, or    *)
(* what the lower one does where the upper does not speak of it.           *)
(***************************************************************************)
ConfFile == Conf!FileState \cup {Conf!Missing, Conf!Broken}
ConfValue == Conf!Value \cup {Conf!Lacking}
Says(value, k, v) == value.table /\ k \in DOMAIN value.rows /\ value.rows[k] = v
SpeaksOf(value, k) == value # Conf!Lacking /\ (~value.table \/ k \in DOMAIN value.rows)

ConfInv ==
  /\ layers \in [Conf!Layer -> ConfFile]
  /\ config.from \in [Conf!Layer -> ConfFile]
  /\ config.set \in BOOLEAN
  /\ config.set => config.value = Conf!Merged(config.from)

LEMMA ValueIs ==
  ASSUME NEW x \in ConfValue
  PROVE  /\ x.table \in BOOLEAN
         /\ x = [table |-> x.table, leaf |-> x.leaf, rows |-> x.rows]
         /\ x.table => /\ x.leaf = 0 /\ x.rows \in Conf!Tables
                       /\ DOMAIN x.rows \in SUBSET Sub /\ x.rows \in [DOMAIN x.rows -> Leaf]
<1>1. CASE x = Conf!Lacking
  BY <1>1 DEF Conf!Lacking
<1>2. CASE x \in Conf!Value /\ ~x.table
  BY <1>2 DEF Conf!Value
<1>3. CASE x \in Conf!Value /\ x.table
  <2>1. x.leaf = 0 /\ x.rows \in Conf!Tables /\ x.table \in BOOLEAN
        /\ x = [table |-> x.table, leaf |-> x.leaf, rows |-> x.rows]
    BY <1>3 DEF Conf!Value
  <2>2. \E keys \in SUBSET Sub : x.rows \in [keys -> Leaf]
    BY <2>1 DEF Conf!Tables
  <2>3. DOMAIN x.rows \in SUBSET Sub /\ x.rows \in [DOMAIN x.rows -> Leaf]
    BY <2>2
  <2> QED
    BY <2>1, <2>3
<1> QED
  BY <1>1, <1>2, <1>3 DEF ConfValue

LEMMA LackingIs == Conf!Lacking \in ConfValue /\ Conf!Lacking.table = FALSE
BY DEF ConfValue, Conf!Lacking

LEMMA OverIs ==
  ASSUME NEW x \in ConfValue, NEW y \in ConfValue
  PROVE  /\ Conf!Over(x, y) \in ConfValue
         /\ \A k, v : Says(Conf!Over(x, y), k, v) <=> Says(y, k, v) \/ (~SpeaksOf(y, k) /\ Says(x, k, v))
<1>1. CASE y = Conf!Lacking
  BY <1>1, LackingIs DEF Conf!Over, Says, SpeaksOf
<1>2. CASE y # Conf!Lacking /\ ~(x.table /\ y.table)
  <2>1. Conf!Over(x, y) = y
    BY <1>2 DEF Conf!Over
  <2> QED
    BY <1>2, <2>1 DEF Says, SpeaksOf
<1>3. CASE y # Conf!Lacking /\ x.table /\ y.table
  <2> DEFINE keys == DOMAIN x.rows \cup DOMAIN y.rows
             both == [k \in keys |-> IF k \in DOMAIN y.rows THEN y.rows[k] ELSE x.rows[k]]
  <2>1. /\ DOMAIN x.rows \in SUBSET Sub /\ x.rows \in [DOMAIN x.rows -> Leaf]
        /\ DOMAIN y.rows \in SUBSET Sub /\ y.rows \in [DOMAIN y.rows -> Leaf]
        /\ y = [table |-> TRUE, leaf |-> 0, rows |-> y.rows]
    BY <1>3, ValueIs
  <2>2. Conf!Over(x, y) = [y EXCEPT !.rows = both]
    BY <1>3 DEF Conf!Over
  <2>3. keys \in SUBSET Sub /\ both \in [keys -> Leaf]
    BY <2>1
  <2>4. both \in Conf!Tables
    BY <2>3 DEF Conf!Tables
  <2>5. DOMAIN both = keys /\ \A k \in keys : both[k] = IF k \in DOMAIN y.rows THEN y.rows[k] ELSE x.rows[k]
    OBVIOUS
  <2> HIDE DEF both
  <2>6. y \in [table : {TRUE}, leaf : {0}, rows : Conf!Tables]
    BY <1>3, <2>1, ValueIs
  <2>7. /\ Conf!Over(x, y) \in [table : {TRUE}, leaf : {0}, rows : Conf!Tables]
        /\ Conf!Over(x, y).rows = both /\ Conf!Over(x, y).table
    BY <2>2, <2>4, <2>6
  <2>8. ASSUME NEW k, NEW v
        PROVE  Says(Conf!Over(x, y), k, v) <=> Says(y, k, v) \/ (~SpeaksOf(y, k) /\ Says(x, k, v))
    <3>1. Says(Conf!Over(x, y), k, v) <=> k \in keys /\ both[k] = v
      BY <2>5, <2>7 DEF Says
    <3> QED
      BY <1>3, <2>5, <3>1 DEF Says, SpeaksOf
  <2> QED
    BY <2>7, <2>8 DEF ConfValue, Conf!Value
<1> QED
  BY <1>1, <1>2, <1>3, ValueIs

LEMMA FileIs == ASSUME NEW f \in ConfFile PROVE f.value \in ConfValue
BY DEF ConfFile, ConfValue, Conf!FileState, Conf!Missing, Conf!Broken

LEMMA RanksAre ==
  /\ Conf!Rank("global") = 1 /\ Conf!Rank("agent") = 2 /\ Conf!Rank("workspace") = 3
  /\ Conf!Higher("global") = {"agent", "workspace"} /\ Conf!Higher("agent") = {"workspace"}
  /\ Conf!Higher("workspace") = {}
<1>1. /\ DOMAIN Conf!Lowest = 1 .. 3
      /\ Conf!Lowest[1] = "global" /\ Conf!Lowest[2] = "agent" /\ Conf!Lowest[3] = "workspace"
  BY DEF Conf!Lowest
<1>2. Conf!Rank("global") = 1
  BY <1>1 DEF Conf!Rank
<1>3. Conf!Rank("agent") = 2
  BY <1>1 DEF Conf!Rank
<1>4. Conf!Rank("workspace") = 3
  BY <1>1 DEF Conf!Rank
<1> QED
  BY <1>2, <1>3, <1>4 DEF Conf!Higher, Conf!Layer

LEMMA MergedSays ==
  ASSUME NEW files \in [Conf!Layer -> ConfFile], NEW k, NEW v
  PROVE  Says(Conf!Merged(files), k, v) <=>
           \/ Says(files["workspace"].value, k, v)
           \/ /\ ~SpeaksOf(files["workspace"].value, k)
              /\ \/ Says(files["agent"].value, k, v)
                 \/ ~SpeaksOf(files["agent"].value, k) /\ Says(files["global"].value, k, v)
<1> DEFINE g == files["global"].value
           a == files["agent"].value
           w == files["workspace"].value
           one == Conf!Over(Conf!Lacking, g)
           two == Conf!Over(one, a)
<1>1. g \in ConfValue /\ a \in ConfValue /\ w \in ConfValue
  BY FileIs DEF Conf!Layer
<1>2. Conf!Merged(files) = Conf!Over(two, w)
  BY DEF Conf!Merged, Conf!Lowest
<1> HIDE DEF g, a, w
<1>3. one \in ConfValue /\ (Says(one, k, v) <=> Says(g, k, v))
  <2>1. ~Says(Conf!Lacking, k, v)
    BY LackingIs DEF Says
  <2> QED
    BY <1>1, <2>1, LackingIs, OverIs
<1> HIDE DEF one
<1>4. two \in ConfValue /\ (Says(two, k, v) <=> Says(a, k, v) \/ (~SpeaksOf(a, k) /\ Says(one, k, v)))
  BY <1>1, <1>3, OverIs
<1> HIDE DEF two
<1>5. Says(Conf!Over(two, w), k, v) <=> Says(w, k, v) \/ (~SpeaksOf(w, k) /\ Says(two, k, v))
  BY <1>1, <1>4, OverIs
<1> QED
  BY <1>2, <1>3, <1>4, <1>5 DEF g, a, w

LEMMA ConfStart == Conf!Init => ConfInv
<1> SUFFICES ASSUME Conf!Init PROVE ConfInv
  OBVIOUS
<1>1. layers \in [Conf!Layer -> ConfFile]
  BY DEF Conf!Init, ConfFile
<1> QED
  BY <1>1 DEF Conf!Init, ConfInv

LEMMA ConfStep == ConfInv /\ [Conf!Next]_Conf!vars => ConfInv'
<1> SUFFICES ASSUME ConfInv, [Conf!Next]_Conf!vars PROVE ConfInv'
  OBVIOUS
<1>1. ASSUME NEW l \in Conf!Layer, NEW f \in Conf!FileState \cup {Conf!Broken}, Conf!Edit(l, f)
      PROVE  ConfInv'
  <2>1. config' = config /\ layers' = [layers EXCEPT ![l] = f] /\ f \in ConfFile
    BY <1>1 DEF Conf!Edit, ConfFile
  <2>2. layers' \in [Conf!Layer -> ConfFile]
    BY <2>1 DEF ConfInv
  <2> QED
    BY <2>1, <2>2 DEF ConfInv, Conf!Merged
<1>2. ASSUME Conf!Start PROVE ConfInv'
  <2> DEFINE load == Conf!Loaded(layers)
  <2>1. /\ layers' = layers
        /\ config'.set = (config.set \/ load.result = "config")
        /\ config'.value = (IF ~config.set /\ load.result = "config" THEN load.value ELSE config.value)
        /\ config'.from = (IF ~config.set THEN layers ELSE config.from)
    BY <1>2 DEF Conf!Start
  <2>2. load.result = "config" => load.value = Conf!Merged(layers)
    BY DEF Conf!Loaded
  <2> HIDE DEF load
  <2>3. CASE config.set
    <3>1. config'.set /\ config'.value = config.value /\ config'.from = config.from
      BY <2>1, <2>3
    <3>2. Conf!Merged(config.from)' = Conf!Merged(config.from)
      BY <3>1 DEF Conf!Merged
    <3> QED
      BY <2>1, <2>3, <3>1, <3>2 DEF ConfInv
  <2>4. CASE ~config.set
    <3>1. config'.from = layers /\ (config'.set <=> load.result = "config") /\ config'.set \in BOOLEAN
      BY <2>1, <2>4
    <3>2. config'.set => config'.value = Conf!Merged(layers)
      BY <2>1, <2>2, <2>4, <3>1
    <3>3. Conf!Merged(config.from)' = Conf!Merged(layers)
      BY <3>1 DEF Conf!Merged
    <3> QED
      BY <2>1, <3>1, <3>2, <3>3 DEF ConfInv
  <2> QED
    BY <2>3, <2>4 DEF ConfInv
<1>3. ASSUME UNCHANGED <<layers, config>> PROVE ConfInv'
  BY <1>3 DEF ConfInv, Conf!Merged
<1> QED
  BY <1>1, <1>2, <1>3 DEF Conf!Next, Conf!Save, Conf!Read, Conf!vars

LEMMA ConfGives == ConfInv => Conf!HighestLayerDecides
<1> SUFFICES ASSUME ConfInv, config.set, config.value.table, NEW k \in Sub, NEW v \in Leaf
             PROVE  (k \in DOMAIN config.value.rows /\ config.value.rows[k] = v) <=>
                      \E l \in Conf!Layer : /\ Conf!Decides(config.from, l, k)
                                            /\ config.from[l].value.table
                                            /\ config.from[l].value.rows[k] = v
  BY DEF Conf!HighestLayerDecides
<1> DEFINE files == config.from
           Chosen(l) == /\ Conf!Decides(files, l, k) /\ files[l].value.table
                        /\ files[l].value.rows[k] = v
<1>1. files \in [Conf!Layer -> ConfFile] /\ config.value = Conf!Merged(files)
  BY DEF ConfInv
<1>2. (k \in DOMAIN config.value.rows /\ config.value.rows[k] = v) <=> Says(Conf!Merged(files), k, v)
  BY <1>1 DEF Says
<1>3. \A l \in Conf!Layer : Conf!Speaks(files[l], k) <=> SpeaksOf(files[l].value, k)
  BY DEF Conf!Speaks, SpeaksOf
<1>4. \A l \in Conf!Layer : Says(files[l].value, k, v) <=>
        SpeaksOf(files[l].value, k) /\ files[l].value.table /\ files[l].value.rows[k] = v
  BY LackingIs DEF Says, SpeaksOf
<1>5. Chosen("workspace") <=> Says(files["workspace"].value, k, v)
  BY <1>3, <1>4, RanksAre DEF Conf!Decides, Conf!Layer
<1>6. Chosen("agent") <=> ~SpeaksOf(files["workspace"].value, k) /\ Says(files["agent"].value, k, v)
  BY <1>3, <1>4, RanksAre DEF Conf!Decides, Conf!Layer
<1>7. Chosen("global") <=> /\ ~SpeaksOf(files["workspace"].value, k) /\ ~SpeaksOf(files["agent"].value, k)
                           /\ Says(files["global"].value, k, v)
  BY <1>3, <1>4, RanksAre DEF Conf!Decides, Conf!Layer
<1>8. (\E l \in Conf!Layer : Chosen(l)) <=> Chosen("global") \/ Chosen("agent") \/ Chosen("workspace")
  BY DEF Conf!Layer
<1> HIDE DEF Chosen
<1>9. Says(Conf!Merged(files), k, v) <=>
        \/ Says(files["workspace"].value, k, v)
        \/ /\ ~SpeaksOf(files["workspace"].value, k)
           /\ \/ Says(files["agent"].value, k, v)
              \/ ~SpeaksOf(files["agent"].value, k) /\ Says(files["global"].value, k, v)
  BY <1>1, MergedSays
<1>10. Says(Conf!Merged(files), k, v) <=> \E l \in Conf!Layer : Chosen(l)
  BY <1>5, <1>6, <1>7, <1>8, <1>9
<1> QED
  BY <1>2, <1>10 DEF Chosen

(***************************************************************************)
(* Paths                                                                   *)
(***************************************************************************)
\* Counting up: what holds of 0 and goes from each number to the next holds of all up to k.
LEMMA UpTo ==
  ASSUME NEW k \in Nat, NEW S, 0 \in S, \A n \in 0 .. k - 1 : n \in S => n + 1 \in S
  PROVE  \A n \in 0 .. k : n \in S
<1> SUFFICES ASSUME NEW b \in 0 .. k, b \notin S PROVE FALSE
  OBVIOUS
<1> DEFINE Bad == {n \in 0 .. k : n \notin S}
<1>1. PICK m \in Bad : \A n \in Bad : m <= n
  <2>1. Bad \in SUBSET Nat /\ b \in Bad
    OBVIOUS
  <2> HIDE DEF Bad
  <2> QED
    BY <2>1, LeastNumber
<1>2. m # 0 /\ m \in 0 .. k
  BY <1>1
<1>3. m - 1 \in 0 .. k - 1 /\ m - 1 \notin Bad
  BY <1>1, <1>2
<1>4. m - 1 \in S
  BY <1>3
<1> QED
  BY <1>1, <1>3, <1>4

\* The functions that the walks over a path define by recursion exist.
GoingOn(s, p, k, at) == [n \in 0 .. k |-> IF n = 0 THEN s ELSE Going(at[n - 1], p[n])]
LEMMA GoingExists ==
  ASSUME NEW s, NEW p, NEW k \in Nat
  PROVE  \E at : at = GoingOn(s, p, k, at)
<1> DEFINE G(at, n) == IF n = 0 THEN s ELSE Going(at[n - 1], p[n])
           S == {j \in 0 .. k : \E at : at = [n \in 0 .. j |-> G(at, n)]}
<1>1. 0 \in S
  <2> DEFINE z == [n \in 0 .. 0 |-> s]
  <2>1. z = [n \in 0 .. 0 |-> G(z, n)]
    OBVIOUS
  <2> HIDE DEF G
  <2>2. \E at : at = [n \in 0 .. 0 |-> G(at, n)]
    <3> WITNESS z
    <3> QED
      BY <2>1
  <2> QED
    BY <2>2
<1>2. ASSUME NEW j \in 0 .. k - 1, j \in S PROVE j + 1 \in S
  <2>1. PICK f : f = [n \in 0 .. j |-> G(f, n)]
    BY <1>2
  <2> DEFINE g == [n \in 0 .. j + 1 |-> IF n = j + 1 THEN Going(f[j], p[j + 1]) ELSE f[n]]
  <2>2. \A n \in 0 .. j : f[n] = G(f, n)
    BY <2>1
  <2>3. \A n \in 0 .. j : g[n] = f[n]
    OBVIOUS
  <2>4. \A n \in 0 .. j + 1 : g[n] = G(g, n)
    <3>1. ASSUME NEW n \in 0 .. j PROVE g[n] = G(g, n)
      <4>1. CASE n = 0
        BY <4>1, <2>2, <2>3
      <4>2. CASE n # 0
        <5>1. n - 1 \in 0 .. j
          BY <4>2
        <5>2. g[n - 1] = f[n - 1] /\ g[n] = f[n]
          BY <5>1, <2>3
        <5> QED
          BY <4>2, <5>2, <2>2
      <4> QED
        BY <4>1, <4>2
    <3>2. g[j + 1] = G(g, j + 1)
      <4>1. g[j + 1] = Going(f[j], p[j + 1]) /\ g[j] = f[j]
        BY <2>3
      <4> QED
        BY <4>1
    <3> QED
      BY <3>1, <3>2
  <2> HIDE DEF G
  <2>5. g = [n \in 0 .. j + 1 |-> G(g, n)]
    BY <2>4
  <2> HIDE DEF g
  <2>6. \E at : at = [n \in 0 .. j + 1 |-> G(at, n)]
    <3> WITNESS g
    <3> QED
      BY <2>5
  <2> QED
    BY <2>6
<1>3. k \in S
  <2> HIDE DEF S
  <2>1. \A n \in 0 .. k : n \in S
    BY <1>1, <1>2, UpTo
  <2> QED
    BY <2>1
<1> QED
  BY <1>3 DEF GoingOn

LEMMA PlaceIs ==
  ASSUME NEW s, NEW p, Len(p) \in Nat
  PROVE  \E at : /\ PlaceOf(s, p) = at[Len(p)] /\ at[0] = s
                 /\ \A n \in 1 .. Len(p) : at[n] = Going(at[n - 1], p[n])
<1> DEFINE w == CHOOSE at : at = GoingOn(s, p, Len(p), at)
<1>1. w = GoingOn(s, p, Len(p), w)
  BY GoingExists
<1>2. PlaceOf(s, p) = w[Len(p)]
  BY DEF PlaceOf, GoingOn
<1> HIDE DEF w
<1> QED
  BY <1>1, <1>2 DEF GoingOn

\* Building up: what holds of the empty sequence and goes on to one element more holds of all.
LEMMA BySteps ==
  ASSUME NEW T, NEW W, <<>> \in W, \A q \in Seq(T), x \in T : q \in W => Append(q, x) \in W,
         NEW p \in Seq(T)
  PROVE  p \in W
<1> DEFINE r == [n \in 0 .. Len(p) |-> SubSeq(p, 1, n)]
           S == {n \in 0 .. Len(p) : r[n] \in W}
<1>1. /\ r[0] = <<>> /\ r[Len(p)] = p /\ Len(p) \in Nat
      /\ \A n \in 0 .. Len(p) - 1 : r[n] \in Seq(T) /\ p[n + 1] \in T /\ r[n + 1] = Append(r[n], p[n + 1])
  OBVIOUS
<1> HIDE DEF r
<1>2. 0 \in S
  BY <1>1
<1>3. ASSUME NEW n \in 0 .. Len(p) - 1, n \in S PROVE n + 1 \in S
  <2>1. r[n] \in W /\ n + 1 \in 0 .. Len(p)
    BY <1>1, <1>3
  <2>2. r[n + 1] \in W
    BY <1>1, <2>1
  <2> QED
    BY <2>1, <2>2
<1>4. Len(p) \in S
  <2> HIDE DEF S
  <2>1. \A n \in 0 .. Len(p) : n \in S
    BY <1>1, <1>2, <1>3, UpTo
  <2> QED
    BY <1>1, <2>1
<1> QED
  BY <1>1, <1>4

LEMMA PlaceEmpty ==
  ASSUME NEW s
  PROVE  PlaceOf(s, <<>>) = s
<1>1. Len(<<>>) = 0
  OBVIOUS
<1> QED
  BY <1>1, PlaceIs

\* A path leads one component further than the path before it.
LEMMA PlaceAppend ==
  ASSUME NEW s, NEW T, NEW p \in Seq(T), NEW x \in T
  PROVE  PlaceOf(s, Append(p, x)) = Going(PlaceOf(s, p), x)
<1> DEFINE q == Append(p, x)
           k == Len(p)
<1>1. k \in Nat /\ Len(q) = k + 1 /\ q[k + 1] = x /\ \A n \in 1 .. k : q[n] = p[n]
  OBVIOUS
<1>2. PICK b : /\ PlaceOf(s, p) = b[k] /\ b[0] = s
               /\ \A n \in 1 .. k : b[n] = Going(b[n - 1], p[n])
  <2>1. Len(p) \in Nat
    OBVIOUS
  <2> QED
    BY <2>1, PlaceIs
<1> HIDE DEF q, k
<1>3. PICK a : /\ PlaceOf(s, q) = a[Len(q)] /\ a[0] = s
               /\ \A n \in 1 .. Len(q) : a[n] = Going(a[n - 1], q[n])
  <2>1. Len(q) \in Nat
    BY <1>1
  <2> QED
    BY <2>1, PlaceIs
<1> DEFINE S == {n \in 0 .. k : a[n] = b[n]}
<1>4. 0 \in S
  BY <1>1, <1>2, <1>3
<1>5. ASSUME NEW n \in 0 .. k - 1, n \in S PROVE n + 1 \in S
  <2>1. n + 1 \in 1 .. k /\ n + 1 \in 1 .. Len(q) /\ n + 1 - 1 = n
    BY <1>1
  <2>2. a[n + 1] = Going(a[n], q[n + 1]) /\ b[n + 1] = Going(b[n], p[n + 1])
    BY <2>1, <1>2, <1>3
  <2> QED
    BY <2>1, <2>2, <1>1, <1>5
<1>6. k \in S
  <2> HIDE DEF S
  <2>1. \A n \in 0 .. k : n \in S
    BY <1>1, <1>4, <1>5, UpTo
  <2> QED
    BY <1>1, <2>1
<1>7. a[k + 1] = Going(a[k], q[k + 1])
  <2>1. k + 1 \in 1 .. Len(q) /\ k + 1 - 1 = k
    BY <1>1
  <2>2. PICK m \in 1 .. Len(q) : m = k + 1
    BY <2>1
  <2>3. a[m] = Going(a[m - 1], q[m])
    BY <1>3
  <2> QED
    BY <1>1, <2>1, <2>2, <2>3
<1> QED
  BY <1>1, <1>2, <1>3, <1>6, <1>7 DEF q

\* A path that continues another leads on from where that one leads.
LEMMA PlaceFurther ==
  ASSUME NEW s, NEW T, NEW p \in Seq(T), NEW q \in Seq(T)
  PROVE  PlaceOf(s, p \o q) = PlaceOf(PlaceOf(s, p), q)
<1> DEFINE W == {r \in Seq(T) : PlaceOf(s, p \o r) = PlaceOf(PlaceOf(s, p), r)}
<1>1. <<>> \in W
  <2>1. p \o <<>> = p /\ <<>> \in Seq(T)
    OBVIOUS
  <2> QED
    BY <2>1, PlaceEmpty
<1>2. ASSUME NEW r \in Seq(T), NEW x \in T, r \in W PROVE Append(r, x) \in W
  <2>1. p \o r \in Seq(T) /\ p \o Append(r, x) = Append(p \o r, x) /\ Append(r, x) \in Seq(T)
    OBVIOUS
  <2>2. PlaceOf(s, Append(p \o r, x)) = Going(PlaceOf(s, p \o r), x)
    BY <2>1, PlaceAppend
  <2>3. PlaceOf(PlaceOf(s, p), Append(r, x)) = Going(PlaceOf(PlaceOf(s, p), r), x)
    BY PlaceAppend
  <2> QED
    BY <2>1, <2>2, <2>3, <1>2
<1>3. q \in W
  <2> HIDE DEF W
  <2> QED
    BY <1>1, <1>2, BySteps
<1> QED
  BY <1>3

\* A path leads to a place, whose names are those of the path.
LEMMA PlaceType ==
  ASSUME NEW T, NEW p \in Seq(T)
  PROVE  PlaceOf(<<>>, p) \in Seq(T \ {".", ".."})
<1> DEFINE U == T \ {".", ".."}
           W == {r \in Seq(T) : PlaceOf(<<>>, r) \in Seq(U)}
<1>1. <<>> \in W
  <2>1. <<>> \in Seq(U) /\ <<>> \in Seq(T)
    OBVIOUS
  <2> QED
    BY <2>1, PlaceEmpty
<1>2. ASSUME NEW r \in Seq(T), NEW x \in T, r \in W PROVE Append(r, x) \in W
  <2> DEFINE P == PlaceOf(<<>>, r)
  <2>1. PlaceOf(<<>>, Append(r, x)) = Going(P, x) /\ Append(r, x) \in Seq(T)
    BY PlaceAppend
  <2>2. P \in Seq(U)
    BY <1>2
  <2> HIDE DEF P
  <2>3. P # <<>> => Up(P) \in Seq(U)
    BY <2>2 DEF Up
  <2>4. x # "." /\ x # ".." => Append(P, x) \in Seq(U)
    BY <2>2
  <2>5. Going(P, x) \in Seq(U)
    BY <2>2, <2>3, <2>4 DEF Going
  <2> QED
    BY <2>1, <2>5
<1>3. p \in W
  <2> HIDE DEF W
  <2> QED
    BY <1>1, <1>2, BySteps
<1> QED
  BY <1>3

\* Without "." and ".." a path leads to the place it names.
LEMMA PlaceOfNames ==
  ASSUME NEW T, "." \notin T, ".." \notin T, NEW p \in Seq(T)
  PROVE  PlaceOf(<<>>, p) = p
<1> DEFINE W == {r \in Seq(T) : PlaceOf(<<>>, r) = r}
<1>1. <<>> \in W
  BY PlaceEmpty
<1>2. ASSUME NEW r \in Seq(T), NEW x \in T, r \in W PROVE Append(r, x) \in W
  <2>1. PlaceOf(<<>>, Append(r, x)) = Going(r, x) /\ Append(r, x) \in Seq(T)
    BY <1>2, PlaceAppend
  <2>2. x # "." /\ x # ".."
    BY <1>2
  <2> QED
    BY <2>1, <2>2 DEF Going
<1>3. p \in W
  <2> HIDE DEF W
  <2> QED
    BY <1>1, <1>2, BySteps
<1> QED
  BY <1>3

RemovingOn(s, p, k, at) == [n \in 0 .. k |-> IF n = 0 THEN s ELSE Removing(at[n - 1], p[n])]
LEMMA RemovingExists ==
  ASSUME NEW s, NEW p, NEW k \in Nat
  PROVE  \E at : at = RemovingOn(s, p, k, at)
<1> DEFINE G(at, n) == IF n = 0 THEN s ELSE Removing(at[n - 1], p[n])
           S == {j \in 0 .. k : \E at : at = [n \in 0 .. j |-> G(at, n)]}
<1>1. 0 \in S
  <2> DEFINE z == [n \in 0 .. 0 |-> s]
  <2>1. z = [n \in 0 .. 0 |-> G(z, n)]
    OBVIOUS
  <2> HIDE DEF G
  <2>2. \E at : at = [n \in 0 .. 0 |-> G(at, n)]
    <3> WITNESS z
    <3> QED
      BY <2>1
  <2> QED
    BY <2>2
<1>2. ASSUME NEW j \in 0 .. k - 1, j \in S PROVE j + 1 \in S
  <2>1. PICK f : f = [n \in 0 .. j |-> G(f, n)]
    BY <1>2
  <2> DEFINE g == [n \in 0 .. j + 1 |-> IF n = j + 1 THEN Removing(f[j], p[j + 1]) ELSE f[n]]
  <2>2. \A n \in 0 .. j : f[n] = G(f, n)
    BY <2>1
  <2>3. \A n \in 0 .. j : g[n] = f[n]
    OBVIOUS
  <2>4. \A n \in 0 .. j + 1 : g[n] = G(g, n)
    <3>1. ASSUME NEW n \in 0 .. j PROVE g[n] = G(g, n)
      <4>1. CASE n = 0
        BY <4>1, <2>2, <2>3
      <4>2. CASE n # 0
        <5>1. n - 1 \in 0 .. j
          BY <4>2
        <5>2. g[n - 1] = f[n - 1] /\ g[n] = f[n]
          BY <5>1, <2>3
        <5> QED
          BY <4>2, <5>2, <2>2
      <4> QED
        BY <4>1, <4>2
    <3>2. g[j + 1] = G(g, j + 1)
      <4>1. g[j + 1] = Removing(f[j], p[j + 1]) /\ g[j] = f[j]
        BY <2>3
      <4> QED
        BY <4>1
    <3> QED
      BY <3>1, <3>2
  <2> HIDE DEF G
  <2>5. g = [n \in 0 .. j + 1 |-> G(g, n)]
    BY <2>4
  <2> HIDE DEF g
  <2>6. \E at : at = [n \in 0 .. j + 1 |-> G(at, n)]
    <3> WITNESS g
    <3> QED
      BY <2>5
  <2> QED
    BY <2>6
<1>3. k \in S
  <2> HIDE DEF S
  <2>1. \A n \in 0 .. k : n \in S
    BY <1>1, <1>2, UpTo
  <2> QED
    BY <2>1
<1> QED
  BY <1>3 DEF RemovingOn

LEMMA DotsAre ==
  ASSUME NEW s, NEW p, Len(p) \in Nat
  PROVE  \E at : /\ DotsRemoved(s, p) = at[Len(p)] /\ at[0] = s
                 /\ \A n \in 1 .. Len(p) : at[n] = Removing(at[n - 1], p[n])
<1> DEFINE w == CHOOSE at : at = RemovingOn(s, p, Len(p), at)
<1>1. w = RemovingOn(s, p, Len(p), w)
  BY RemovingExists
<1>2. DotsRemoved(s, p) = w[Len(p)]
  BY DEF DotsRemoved, RemovingOn
<1> HIDE DEF w
<1> QED
  BY <1>1, <1>2 DEF RemovingOn

LEMMA DotsEmpty ==
  ASSUME NEW s
  PROVE  DotsRemoved(s, <<>>) = s
<1>1. Len(<<>>) = 0
  OBVIOUS
<1> QED
  BY <1>1, DotsAre

\* The same for the words of a path.
LEMMA DotsAppend ==
  ASSUME NEW s, NEW T, NEW p \in Seq(T), NEW x \in T
  PROVE  DotsRemoved(s, Append(p, x)) = Removing(DotsRemoved(s, p), x)
<1> DEFINE q == Append(p, x)
           k == Len(p)
<1>1. k \in Nat /\ Len(q) = k + 1 /\ q[k + 1] = x /\ \A n \in 1 .. k : q[n] = p[n]
  OBVIOUS
<1>2. PICK b : /\ DotsRemoved(s, p) = b[k] /\ b[0] = s
               /\ \A n \in 1 .. k : b[n] = Removing(b[n - 1], p[n])
  <2>1. Len(p) \in Nat
    OBVIOUS
  <2> QED
    BY <2>1, DotsAre
<1> HIDE DEF q, k
<1>3. PICK a : /\ DotsRemoved(s, q) = a[Len(q)] /\ a[0] = s
               /\ \A n \in 1 .. Len(q) : a[n] = Removing(a[n - 1], q[n])
  <2>1. Len(q) \in Nat
    BY <1>1
  <2> QED
    BY <2>1, DotsAre
<1> DEFINE S == {n \in 0 .. k : a[n] = b[n]}
<1>4. 0 \in S
  BY <1>1, <1>2, <1>3
<1>5. ASSUME NEW n \in 0 .. k - 1, n \in S PROVE n + 1 \in S
  <2>1. n + 1 \in 1 .. k /\ n + 1 \in 1 .. Len(q) /\ n + 1 - 1 = n
    BY <1>1
  <2>2. a[n + 1] = Removing(a[n], q[n + 1]) /\ b[n + 1] = Removing(b[n], p[n + 1])
    BY <2>1, <1>2, <1>3
  <2> QED
    BY <2>1, <2>2, <1>1, <1>5
<1>6. k \in S
  <2> HIDE DEF S
  <2>1. \A n \in 0 .. k : n \in S
    BY <1>1, <1>4, <1>5, UpTo
  <2> QED
    BY <1>1, <2>1
<1>7. a[k + 1] = Removing(a[k], q[k + 1])
  <2>1. k + 1 \in 1 .. Len(q) /\ k + 1 - 1 = k
    BY <1>1
  <2>2. PICK m \in 1 .. Len(q) : m = k + 1
    BY <2>1
  <2>3. a[m] = Removing(a[m - 1], q[m])
    BY <1>3
  <2> QED
    BY <1>1, <2>1, <2>2, <2>3
<1> QED
  BY <1>1, <1>2, <1>3, <1>6, <1>7 DEF q


\* A path that never climbs above the root reads, without its dots, as the place it leads to.
LEMMA PlaceWithoutDots ==
  ASSUME NEW T, NEW p \in Seq(T), ~Climbs(<<>>, p)
  PROVE  /\ PlaceOf(<<>>, p) \in Seq(T \ {".", ".."})
         /\ DotsRemoved(<<"/">>, p) = <<"/">> \o PlaceOf(<<>>, p)
<1> DEFINE U == T \ {".", ".."}
           Good(r) == /\ PlaceOf(<<>>, r) \in Seq(U)
                      /\ DotsRemoved(<<"/">>, r) = <<"/">> \o PlaceOf(<<>>, r)
           W == {r \in Seq(T) : ~Climbs(<<>>, r) => Good(r)}
<1>1. <<>> \in W
  <2>1. <<>> \in Seq(U) /\ <<"/">> \o <<>> = <<"/">> /\ <<>> \in Seq(T)
    OBVIOUS
  <2> QED
    BY <2>1, PlaceEmpty, DotsEmpty
<1>2. ASSUME NEW r \in Seq(T), NEW x \in T, r \in W PROVE Append(r, x) \in W
  <2>1. Append(r, x) \in Seq(T)
    OBVIOUS
  <2> SUFFICES ASSUME ~Climbs(<<>>, Append(r, x)) PROVE Good(Append(r, x))
    BY <2>1
  <2>2. ~Climbs(<<>>, r) /\ ~(x = ".." /\ PlaceOf(<<>>, r) = <<>>)
    <3> DEFINE q == Append(r, x)
    <3>1. /\ Len(q) = Len(r) + 1 /\ q[Len(r) + 1] = x /\ Len(r) \in Nat
          /\ SubSeq(q, 1, Len(r) + 1 - 1) = r
      OBVIOUS
    <3>2. \A n \in 1 .. Len(r) : q[n] = r[n] /\ SubSeq(q, 1, n - 1) = SubSeq(r, 1, n - 1)
      OBVIOUS
    <3>3. \A n \in 1 .. Len(q) : ~(q[n] = ".." /\ PlaceOf(<<>>, SubSeq(q, 1, n - 1)) = <<>>)
      BY DEF Climbs
    <3> HIDE DEF q
    <3>4. \A n \in 1 .. Len(r) : n \in 1 .. Len(q)
      BY <3>1
    <3>5. PICK m \in 1 .. Len(q) : m = Len(r) + 1
      BY <3>1
    <3>6. ~(q[m] = ".." /\ PlaceOf(<<>>, SubSeq(q, 1, m - 1)) = <<>>)
      BY <3>3
    <3>7. q[m] = x /\ SubSeq(q, 1, m - 1) = r
      BY <3>1, <3>5
    <3>8. \A n \in 1 .. Len(r) : ~(r[n] = ".." /\ PlaceOf(<<>>, SubSeq(r, 1, n - 1)) = <<>>)
      <4> TAKE n \in 1 .. Len(r)
      <4>1. n \in 1 .. Len(q) /\ q[n] = r[n] /\ SubSeq(q, 1, n - 1) = SubSeq(r, 1, n - 1)
        BY <3>2, <3>4
      <4>2. ~(q[n] = ".." /\ PlaceOf(<<>>, SubSeq(q, 1, n - 1)) = <<>>)
        BY <3>3, <4>1
      <4> QED
        BY <4>1, <4>2
    <3> QED
      BY <3>6, <3>7, <3>8 DEF Climbs
  <2> DEFINE P == PlaceOf(<<>>, r)
             D == DotsRemoved(<<"/">>, r)
  <2>3. P \in Seq(U) /\ D = <<"/">> \o P
    BY <1>2, <2>2
  <2>4. PlaceOf(<<>>, Append(r, x)) = Going(P, x) /\ DotsRemoved(<<"/">>, Append(r, x)) = Removing(D, x)
    BY PlaceAppend, DotsAppend
  <2>5. ~(x = ".." /\ P = <<>>)
    BY <2>2
  <2> HIDE DEF P, D
  <2>6. /\ D # <<>> /\ Len(D) = Len(P) + 1
        /\ P # <<>> => D[Len(D)] = P[Len(P)] /\ P[Len(P)] \in U /\ Up(D) = <<"/">> \o Up(P)
        /\ Append(D, x) = <<"/">> \o Append(P, x)
    <3>1. P # <<>> => Len(P) \in Nat \ {0} /\ P[Len(P)] \in U
      BY <2>3
    <3>2. P # <<>> => Up(D) = <<"/">> \o Up(P)
      BY <2>3, <3>1 DEF Up
    <3> QED
      BY <2>3, <3>1, <3>2
  <2>7. Going(P, x) \in Seq(U) /\ Removing(D, x) = <<"/">> \o Going(P, x)
    <3>1. CASE x = "."
      BY <3>1, <2>3 DEF Going, Removing
    <3>2. CASE x = ".."
      <4>1. P # <<>> /\ D[Len(D)] # ".."
        BY <3>2, <2>5, <2>6
      <4>2. Going(P, x) = Up(P) /\ Removing(D, x) = Up(D)
        BY <3>2, <4>1, <2>6 DEF Going, Removing
      <4>3. Up(P) \in Seq(U)
        BY <2>3, <4>1 DEF Up
      <4> QED
        BY <4>1, <4>2, <4>3, <2>6
    <3>3. CASE x # "." /\ x # ".."
      <4>1. Going(P, x) = Append(P, x) /\ Removing(D, x) = Append(D, x)
        BY <3>3 DEF Going, Removing
      <4> QED
        BY <4>1, <2>3, <2>6, <3>3
    <3> QED
      BY <3>1, <3>2, <3>3
  <2> QED
    BY <2>4, <2>7
<1>3. p \in W
  <2> HIDE DEF W
  <2> QED
    BY <1>1, <1>2, BySteps
<1> QED
  BY <1>3

\* Removing the dots of a path leaves ".." only at its front, and leads to the same place.
Upwards(p) == \A n \in DOMAIN p : p[n] = ".." => \A k \in 1 .. n : p[k] = ".."
LEMMA DotsLeadThere ==
  ASSUME NEW T, "." \notin T, ".." \in T, NEW p \in Seq(T)
  PROVE  /\ DotsRemoved(<<>>, p) \in Seq(T) /\ Upwards(DotsRemoved(<<>>, p))
         /\ PlaceOf(<<>>, DotsRemoved(<<>>, p)) = PlaceOf(<<>>, p)
<1> DEFINE D(r) == DotsRemoved(<<>>, r)
           Good(r) == D(r) \in Seq(T) /\ Upwards(D(r)) /\ PlaceOf(<<>>, D(r)) = PlaceOf(<<>>, r)
           W == {r \in Seq(T) : Good(r)}
<1>1. <<>> \in W
  <2>1. <<>> \in Seq(T) /\ Upwards(<<>>)
    BY DEF Upwards
  <2> QED
    BY <2>1, PlaceEmpty, DotsEmpty
<1>2. ASSUME NEW r \in Seq(T), NEW x \in T, r \in W PROVE Append(r, x) \in W
  <2>1. Append(r, x) \in Seq(T)
    OBVIOUS
  <2> DEFINE d == D(r)
             e == D(Append(r, x))
  <2>2. e = Removing(d, x) /\ PlaceOf(<<>>, Append(r, x)) = Going(PlaceOf(<<>>, r), x)
    BY PlaceAppend, DotsAppend
  <2>3. d \in Seq(T) /\ Upwards(d) /\ PlaceOf(<<>>, d) = PlaceOf(<<>>, r) /\ x # "."
    BY <1>2
  <2> HIDE DEF d
  <2>4. e \in Seq(T) /\ Upwards(e) /\ PlaceOf(<<>>, e) = Going(PlaceOf(<<>>, d), x)
    <3>1. CASE x = ".." /\ d # <<>> /\ d[Len(d)] # ".."
      <4>1. e = Up(d)
        BY <2>2, <2>3, <3>1 DEF Removing
      <4>2. Len(d) \in Nat \ {0} /\ d[Len(d)] \in T
        BY <2>3, <3>1
      <4>3. /\ Up(d) \in Seq(T) /\ Len(Up(d)) = Len(d) - 1
            /\ \A n \in 1 .. Len(d) - 1 : Up(d)[n] = d[n]
        <5> DEFINE m == Len(d) - 1
        <5>1. d \in Seq(T) /\ m \in Nat /\ m <= Len(d) /\ Len(d) \in Nat
          BY <2>3, <4>2
        <5>2. Up(d) = SubSeq(d, 1, m)
          BY DEF Up
        <5> HIDE DEF m
        <5>3. Up(d) \in Seq(T)
          BY <5>1, <5>2
        <5>4. Len(Up(d)) = m
          BY <5>1, <5>2
        <5>5. \A n \in 1 .. m : Up(d)[n] = d[n]
          BY <5>1, <5>2
        <5> QED
          BY <5>3, <5>4, <5>5 DEF m
      <4>4. d = Append(Up(d), d[Len(d)])
        BY <2>3, <4>2 DEF Up
      <4>5. Upwards(Up(d))
        <5>1. DOMAIN Up(d) = 1 .. Len(d) - 1 /\ DOMAIN d = 1 .. Len(d)
          BY <2>3, <4>3
        <5> SUFFICES ASSUME NEW n \in 1 .. Len(d) - 1, Up(d)[n] = "..", NEW k \in 1 .. n PROVE Up(d)[k] = ".."
          BY <5>1 DEF Upwards
        <5>2. n \in DOMAIN d /\ d[n] = ".." /\ k \in 1 .. Len(d) - 1 /\ Up(d)[k] = d[k]
          BY <5>1, <4>2, <4>3
        <5>3. d[k] = ".."
          BY <5>2, <2>3 DEF Upwards
        <5> QED
          BY <5>2, <5>3
      <4> DEFINE y == d[Len(d)]
                 u == Up(d)
                 P == PlaceOf(<<>>, u)
      <4>6. PlaceOf(<<>>, d) = Going(P, y)
        <5>1. u \in Seq(T) /\ y \in T /\ d = Append(u, y)
          BY <4>2, <4>3, <4>4
        <5> HIDE DEF u, y
        <5> QED
          BY <5>1, PlaceAppend
      <4>7. Going(P, y) = Append(P, y)
        <5>1. y # ".." /\ y # "."
          BY <3>1, <4>2
        <5> QED
          BY <5>1 DEF Going
      <4>8. P \in Seq(T)
        <5>1. u \in Seq(T)
          BY <4>3
        <5> HIDE DEF u
        <5>2. P \in Seq(T \ {".", ".."})
          BY <5>1, PlaceType
        <5> QED
          BY <5>2
      <4> HIDE DEF P, y
      <4>9. Going(Append(P, y), "..") = P
        <5>1. y \in T
          BY <4>2 DEF y
        <5>2. Append(P, y) # <<>> /\ Up(Append(P, y)) = P
          BY <4>8, <5>1 DEF Up
        <5> QED
          BY <5>2 DEF Going
      <4>10. PlaceOf(<<>>, e) = P
        BY <4>1 DEF P
      <4> HIDE DEF e
      <4> QED
        BY <4>1, <4>3, <4>5, <4>6, <4>7, <4>9, <4>10, <3>1
    <3>2. CASE ~(x = ".." /\ d # <<>> /\ d[Len(d)] # "..")
      <4>1. e = Append(d, x)
        BY <2>2, <2>3, <3>2 DEF Removing
      <4>2. PlaceOf(<<>>, Append(d, x)) = Going(PlaceOf(<<>>, d), x)
        BY <2>3, PlaceAppend
      <4>3. Append(d, x) \in Seq(T)
        BY <2>3
      <4>4. Upwards(Append(d, x))
        <5>1. /\ Len(Append(d, x)) = Len(d) + 1 /\ Len(d) \in Nat
              /\ Append(d, x)[Len(d) + 1] = x /\ \A n \in 1 .. Len(d) : Append(d, x)[n] = d[n]
              /\ DOMAIN Append(d, x) = 1 .. Len(d) + 1 /\ DOMAIN d = 1 .. Len(d)
          BY <2>3
        <5>2. x = ".." => \A n \in 1 .. Len(d) : d[n] = ".."
          <6> SUFFICES ASSUME x = "..", d # <<>> PROVE \A n \in 1 .. Len(d) : d[n] = ".."
            BY <2>3
          <6>1. d[Len(d)] = ".." /\ Len(d) \in DOMAIN d
            BY <3>2, <2>3
          <6> QED
            BY <6>1, <2>3 DEF Upwards
        <5> DEFINE f == Append(d, x)
        <5> HIDE DEF f
        <5>3. SUFFICES ASSUME NEW n \in 1 .. Len(d) + 1, f[n] = "..", NEW k \in 1 .. n PROVE f[k] = ".."
          BY <5>1 DEF Upwards, f
        <5>4. CASE n = Len(d) + 1
          <6>1. x = ".."
            BY <5>1, <5>3, <5>4 DEF f
          <6>2. k = Len(d) + 1 \/ k \in 1 .. Len(d)
            BY <5>1, <5>4
          <6> QED
            BY <6>1, <6>2, <5>1, <5>2 DEF f
        <5>5. CASE n # Len(d) + 1
          <6>1. n \in DOMAIN d /\ k \in 1 .. Len(d) /\ d[n] = ".."
            BY <5>1, <5>3, <5>5 DEF f
          <6>2. d[k] = ".."
            BY <6>1, <2>3 DEF Upwards
          <6> QED
            BY <6>1, <6>2, <5>1 DEF f
        <5> QED
          BY <5>4, <5>5
      <4> QED
        BY <4>1, <4>2, <4>3, <4>4
    <3> QED
      BY <3>1, <3>2
  <2>5. PlaceOf(<<>>, e) = PlaceOf(<<>>, Append(r, x))
    BY <2>2, <2>3, <2>4
  <2> QED
    BY <2>1, <2>4, <2>5
<1>3. p \in W
  <2> HIDE DEF W
  <2> QED
    BY <1>1, <1>2, BySteps
<1> QED
  BY <1>3

\* There are no dots to remove from names.
LEMMA DotsOfNames ==
  ASSUME NEW T, "." \notin T, ".." \notin T, NEW p \in Seq(T)
  PROVE  DotsRemoved(<<>>, p) = p
<1> DEFINE W == {r \in Seq(T) : DotsRemoved(<<>>, r) = r}
<1>1. <<>> \in W
  BY DotsEmpty
<1>2. ASSUME NEW r \in Seq(T), NEW x \in T, r \in W PROVE Append(r, x) \in W
  <2>1. DotsRemoved(<<>>, Append(r, x)) = Removing(r, x) /\ Append(r, x) \in Seq(T)
    BY <1>2, DotsAppend
  <2>2. x # "." /\ x # ".."
    BY <1>2
  <2> QED
    BY <2>1, <2>2 DEF Removing
<1>3. p \in W
  <2> HIDE DEF W
  <2> QED
    BY <1>1, <1>2, BySteps
<1> QED
  BY <1>3

\* The parts that judge paths walk them alike.
LEMMA SamePlaces ==
  ASSUME NEW s, NEW p
  PROVE  /\ Batches!PlaceOf(s, p) = PlaceOf(s, p) /\ Batches!DotsRemoved(s, p) = DotsRemoved(s, p)
         /\ Scope!PlaceOf(s, p) = PlaceOf(s, p) /\ Scope!DotsRemoved(s, p) = DotsRemoved(s, p)
<1>1. Batches!PlaceOf(s, p) = PlaceOf(s, p)
  BY DEF PlaceOf, Going, Up, Batches!PlaceOf, Batches!Going, Batches!Up
<1>2. Batches!DotsRemoved(s, p) = DotsRemoved(s, p)
  BY DEF DotsRemoved, Removing, Up, Batches!DotsRemoved, Batches!Removing, Batches!Up
<1>3. Scope!PlaceOf(s, p) = PlaceOf(s, p)
  BY DEF PlaceOf, Going, Up, Scope!PlaceOf, Scope!Going, Scope!Up
<1>4. Scope!DotsRemoved(s, p) = DotsRemoved(s, p)
  BY DEF DotsRemoved, Removing, Up, Scope!DotsRemoved, Scope!Removing, Scope!Up
<1> QED
  BY <1>1, <1>2, <1>3, <1>4
LEMMA SameClimbs ==
  ASSUME NEW s, NEW p
  PROVE  Batches!Climbs(s, p) <=> Climbs(s, p)
BY SamePlaces DEF Climbs, Batches!Climbs

(***************************************************************************)
(* Tool calls of one reply                                                 *)
(***************************************************************************)
BatchLimits ==
  /\ \A p \in Spelt : p.parts \in Seq(STRING)
  /\ Here \in Seq(STRING)
  /\ {"read", "write", "edit"} \cap ParallelSafe \subseteq PathScoped

\* The condition under which the calls are promised to do as in their order.
Judged == Cwd = Here /\ \A i \in DOMAIN batch : ~Batches!Climbs(<<>>, Batches!From(Cwd, batch[i].path))
Writers(S, f) == {j \in S : Batches!Writes(j, f)}
BatchType ==
  /\ batch \in Seq(Batches!Calls) /\ mode \in {"deciding", "parallel", "sequential"}
  /\ running \subseteq DOMAIN batch
  /\ results \in Seq([call : DOMAIN batch, saw : Nat])
  /\ written \in [Batches!Files -> Nat]
\* A file holds what its last writer left among the calls that have answered, and each of
\* them saw what it would have seen in its turn.
BatchInv ==
  /\ BatchType
  /\ running \cap Batches!Answered = {}
  /\ mode = "deciding" => running = {} /\ results = <<>>
  /\ mode = "parallel" => Batches!MayRunBeside
  /\ mode = "sequential" => \A i \in running : Batches!Answered = 1 .. i - 1
  /\ Judged =>
       /\ \A f \in Batches!Files : written[f] = Batches!Last(Writers(Batches!Answered, f))
       /\ \A n \in DOMAIN results :
            results[n].saw = Batches!Sees(batch[results[n].call], Batches!InOrder(results[n].call))

LEMMA BelowRoot ==
  ASSUME NEW T, NEW b \in Seq(T)
  PROVE  <<"/">> \o b \in Seq(T \cup {"/"}) /\ <<"/">> \o b # <<>>
<1> DEFINE U == T \cup {"/"}
<1>1. b \in Seq(U) /\ "/" \in U
  OBVIOUS
<1> HIDE DEF U
<1>2. <<"/">> \in Seq(U) /\ Len(<<"/">>) = 1
  BY <1>1
<1>3. <<"/">> \o b \in Seq(U) /\ <<"/">> \o b # <<>>
  BY <1>1, <1>2
<1> QED
  BY <1>3 DEF U

LEMMA LastIs ==
  ASSUME NEW S \in SUBSET Nat, NEW i \in S, \A j \in S : j <= i
  PROVE  Batches!Last(S) = i
<1>1. S # {}
  OBVIOUS
<1>2. \A k \in S : (\A j \in S : j <= k) => k = i
  OBVIOUS
<1> QED
  BY <1>1, <1>2 DEF Batches!Last

\* A call that names a file has a path the reply spells.
LEMMA TouchedFile ==
  ASSUME NEW c \in Batches!Calls, Batches!Touches(c)
  PROVE  c.path \in Spelt /\ Batches!FileAt(c.path) \in Batches!Files
BY DEF Batches!Calls, Batches!Touches, Batches!Files

\* Two calls of a batch that may run beside each other do not name the same file.
LEMMA FilesApart ==
  ASSUME BatchLimits, batch \in Seq(Batches!Calls), Batches!MayRunBeside, Judged,
         NEW i \in DOMAIN batch, NEW j \in DOMAIN batch, i # j,
         Batches!Touches(batch[i]), Batches!Touches(batch[j])
  PROVE  Batches!FileAt(batch[i].path) # Batches!FileAt(batch[j].path)
<1>1. \A k \in {i, j} :
        /\ k \in DOMAIN batch /\ batch[k] \in Batches!Calls /\ Batches!Touches(batch[k])
        /\ Batches!Scoped(k)
  <2>1. \A k \in {i, j} : k \in DOMAIN batch /\ batch[k] \in Batches!Calls /\ Batches!Touches(batch[k])
    OBVIOUS
  <2>2. \A k \in {i, j} : ~Batches!Scoped(k) => batch[k].tool \in ParallelSafe
    BY <2>1 DEF Batches!MayRunBeside
  <2>3. \A k \in {i, j} : batch[k].tool \in {"read", "write", "edit"}
    BY <2>1 DEF Batches!Touches
  <2> QED
    BY <2>1, <2>2, <2>3 DEF BatchLimits, Batches!Scoped
<1>2. ASSUME NEW k \in {i, j}
      PROVE  /\ Batches!FileAt(batch[k].path) \in Seq(STRING)
             /\ Batches!Scope(batch[k].path) = <<"/">> \o Batches!FileAt(batch[k].path)
  <2> DEFINE q == Batches!From(Cwd, batch[k].path)
  <2>1. q \in Seq(STRING)
    <3>1. batch[k].path \in Spelt
      BY <1>1, TouchedFile
    <3>2. batch[k].path.parts \in Seq(STRING) /\ Cwd \in Seq(STRING)
      BY <3>1 DEF BatchLimits, Judged
    <3>3. (IF batch[k].path.absolute THEN <<>> ELSE Cwd) \in Seq(STRING)
      <4>1. <<>> \in Seq(STRING)
        OBVIOUS
      <4> QED
        BY <4>1, <3>2
    <3> QED
      BY <3>2, <3>3 DEF Batches!From
  <2>2. ~Climbs(<<>>, q)
    BY <1>1, SameClimbs DEF Judged
  <2>3. Batches!FileAt(batch[k].path) = PlaceOf(<<>>, q)
    BY SamePlaces DEF Batches!FileAt, Judged
  <2>4. Batches!Scope(batch[k].path) = DotsRemoved(<<"/">>, q)
    BY SamePlaces DEF Batches!Scope, Batches!Root
  <2> HIDE DEF q
  <2>5. PlaceOf(<<>>, q) \in Seq(STRING \ {".", ".."}) /\ DotsRemoved(<<"/">>, q) = <<"/">> \o PlaceOf(<<>>, q)
    BY <2>1, <2>2, PlaceWithoutDots
  <2>6. PlaceOf(<<>>, q) \in Seq(STRING)
    BY <2>5
  <2> QED
    BY <2>3, <2>4, <2>5, <2>6
<1>3. SUFFICES ASSUME Batches!FileAt(batch[i].path) = Batches!FileAt(batch[j].path) PROVE FALSE
  OBVIOUS
<1> DEFINE a == Batches!Scope(batch[i].path)
<1>4. a = Batches!Scope(batch[j].path)
  BY <1>2, <1>3
<1>5. Batches!Overlap(a, a)
  <2> DEFINE U == STRING \cup {"/"}
  <2>1. a \in Seq(U) /\ a # <<>>
    <3>1. PICK b \in Seq(STRING) : a = <<"/">> \o b
      BY <1>2
    <3>2. <<"/">> \o b \in Seq(U) /\ <<"/">> \o b # <<>>
      BY <3>1, BelowRoot
    <3> HIDE DEF a
    <3> QED
      BY <3>1, <3>2
  <2> HIDE DEF a, U
  <2>2. Len(a) <= Len(a) /\ SubSeq(a, 1, Len(a)) = a
    BY <2>1
  <2> QED
    BY <2>1, <2>2 DEF Batches!Overlap, Batches!Above
<1> HIDE DEF a
<1>6. i < j \/ j < i
  <2>1. i \in Nat /\ j \in Nat
    OBVIOUS
  <2> QED
    BY <2>1
<1> QED
  BY <1>1, <1>4, <1>5, <1>6 DEF Batches!MayRunBeside, a

\* Of the calls that have answered when another one finishes, those that wrote its file
\* are those before it that write it.
LEMMA WritersBefore ==
  ASSUME BatchLimits, BatchInv, Judged, NEW i \in running, Batches!Touches(batch[i]),
         NEW f, f = Batches!FileAt(batch[i].path)
  PROVE  Writers(Batches!Answered, f) = Writers({j \in DOMAIN batch : j < i}, f)
<1>1. /\ i \in DOMAIN batch /\ i \notin Batches!Answered /\ DOMAIN batch = 1 .. Len(batch)
      /\ Len(batch) \in Nat
  BY DEF BatchInv, BatchType
<1>2. Batches!Answered \subseteq DOMAIN batch
  <2> DEFINE R == [call : DOMAIN batch, saw : Nat]
  <2>1. \A n \in DOMAIN results : results[n] \in R
    <3>1. results \in Seq(R)
      BY DEF BatchInv, BatchType
    <3> HIDE DEF R
    <3> QED
      BY <3>1
  <2> QED
    BY <2>1 DEF Batches!Answered
<1>3. CASE mode = "sequential"
  <2>1. Batches!Answered = 1 .. i - 1
    BY <1>3 DEF BatchInv
  <2>2. Batches!Answered = {j \in DOMAIN batch : j < i}
    BY <1>1, <2>1
  <2> QED
    BY <2>2
<1>4. CASE mode = "parallel"
  <2>1. Batches!MayRunBeside /\ batch \in Seq(Batches!Calls)
    BY <1>4 DEF BatchInv, BatchType
  <2>2. ASSUME NEW j \in DOMAIN batch, j # i PROVE ~Batches!Writes(j, f)
    <3>1. SUFFICES ASSUME Batches!Touches(batch[j]), Batches!FileAt(batch[j].path) = f PROVE FALSE
      BY DEF Batches!Writes
    <3> QED
      BY <1>1, <2>1, <2>2, <3>1, FilesApart
  <2>3. \A j \in Batches!Answered \union {k \in DOMAIN batch : k < i} : j \in DOMAIN batch /\ j # i
    BY <1>1, <1>2
  <2> QED
    BY <2>2, <2>3 DEF Writers
<1>5. mode # "deciding"
  BY DEF BatchInv
<1> QED
  BY <1>3, <1>4, <1>5 DEF BatchInv, BatchType

LEMMA BatchStart == Batches!Init => BatchInv
<1> SUFFICES ASSUME Batches!Init PROVE BatchInv
  OBVIOUS
<1>1. PICK n \in 1 .. MaxTogether : batch \in [1 .. n -> Batches!Calls]
  BY DEF Batches!Init
<1>2. batch \in Seq(Batches!Calls)
  <2>1. n \in Nat
    OBVIOUS
  <2> QED
    BY <1>1, <2>1
<1>3. mode = "deciding" /\ running = {} /\ results = <<>> /\ written = [f \in Batches!Files |-> 0]
  BY DEF Batches!Init
<1>4. Batches!Answered = {}
  BY <1>3 DEF Batches!Answered
<1>5. \A f \in Batches!Files : Batches!Last(Writers({}, f)) = 0
  BY DEF Writers, Batches!Last
<1>6. results \in Seq([call : DOMAIN batch, saw : Nat])
  BY <1>3
<1> QED
  BY <1>2, <1>3, <1>4, <1>5, <1>6 DEF BatchInv, BatchType

LEMMA BatchStep == BatchLimits /\ BatchInv /\ [Batches!Next]_Batches!vars => BatchInv'
<1> SUFFICES ASSUME BatchLimits, BatchInv, [Batches!Next]_Batches!vars PROVE BatchInv'
  OBVIOUS
<1>1. CASE UNCHANGED Batches!vars
  <2>1. UNCHANGED <<batch, mode, running, results, written>>
    BY <1>1 DEF Batches!vars
  <2>2. /\ Judged' <=> Judged
        /\ Batches!MayRunBeside' <=> Batches!MayRunBeside
        /\ Batches!Answered' = Batches!Answered
    BY <2>1 DEF Judged, Batches!MayRunBeside, Batches!Scoped, Batches!Answered
  <2>3. \A f : Writers(Batches!Answered, f)' = Writers(Batches!Answered, f)
    BY <2>1, <2>2 DEF Writers, Batches!Writes
  <2>4. \A k : Batches!InOrder(k)' = Batches!InOrder(k)
    BY <2>1 DEF Batches!InOrder, Batches!Writes
  <2>5. BatchType'
    BY <2>1 DEF BatchInv, BatchType
  <2> QED
    BY <2>1, <2>2, <2>3, <2>4, <2>5 DEF BatchInv
<1>2. CASE Batches!Decide
  <2>1. /\ mode = "deciding" /\ mode' = IF Batches!MayRunBeside THEN "parallel" ELSE "sequential"
        /\ UNCHANGED <<batch, running, results, written>>
    BY <1>2 DEF Batches!Decide
  <2>2. running = {} /\ results = <<>>
    BY <2>1 DEF BatchInv
  <2>3. /\ Judged' <=> Judged
        /\ Batches!MayRunBeside' <=> Batches!MayRunBeside
        /\ Batches!Answered' = Batches!Answered
    BY <2>1 DEF Judged, Batches!MayRunBeside, Batches!Scoped, Batches!Answered
  <2>4. \A f : Writers(Batches!Answered, f)' = Writers(Batches!Answered, f)
    BY <2>1, <2>3 DEF Writers, Batches!Writes
  <2>5. mode' = "parallel" => Batches!MayRunBeside'
    BY <2>1, <2>3
  <2>6. mode' \in {"parallel", "sequential"}
    BY <2>1
  <2>7. BatchType'
    BY <2>1, <2>6 DEF BatchInv, BatchType
  <2> QED
    BY <2>1, <2>2, <2>3, <2>4, <2>5, <2>6, <2>7 DEF BatchInv
<1>3. ASSUME NEW i \in 1 .. MaxTogether, Batches!Start(i) PROVE BatchInv'
  <2>1. /\ i \in DOMAIN batch \ (running \union Batches!Answered)
        /\ running' = running \union {i} /\ UNCHANGED <<batch, mode, results, written>>
        /\ mode = "parallel" \/ (mode = "sequential" /\ running = {} /\ Batches!Answered = 1 .. i - 1)
    BY <1>3 DEF Batches!Start
  <2>2. /\ Judged' <=> Judged
        /\ Batches!MayRunBeside' <=> Batches!MayRunBeside
        /\ Batches!Answered' = Batches!Answered
    BY <2>1 DEF Judged, Batches!MayRunBeside, Batches!Scoped, Batches!Answered
  <2>3. \A f : Writers(Batches!Answered, f)' = Writers(Batches!Answered, f)
    BY <2>1, <2>2 DEF Writers, Batches!Writes
  <2>4. BatchType'
    BY <2>1 DEF BatchInv, BatchType
  <2>5. mode' # "deciding" /\ (running \cap Batches!Answered = {})'
    BY <2>1, <2>2 DEF BatchInv
  <2>6. mode' = "sequential" => \A k \in running' : Batches!Answered' = 1 .. k - 1
    BY <2>1, <2>2
  <2>7. mode' = "parallel" => Batches!MayRunBeside'
    BY <2>1, <2>2 DEF BatchInv
  <2>8. \A k : Batches!InOrder(k)' = Batches!InOrder(k)
    BY <2>1 DEF Batches!InOrder, Batches!Writes
  <2> QED
    BY <2>1, <2>2, <2>3, <2>4, <2>5, <2>6, <2>7, <2>8 DEF BatchInv
<1>4. ASSUME NEW i \in 1 .. MaxTogether, Batches!Finish(i) PROVE BatchInv'
  <2> DEFINE c == batch[i]
             A == Batches!Answered
             s == Batches!Sees(c, written)
  <2>1. /\ i \in running /\ running' = running \ {i}
        /\ results' = Append(results, [call |-> i, saw |-> s])
        /\ written' = Batches!Leaves(c, i, written) /\ UNCHANGED <<batch, mode>>
    BY <1>4 DEF Batches!Finish
  <2>2. /\ BatchType /\ running \cap A = {} /\ i \in DOMAIN batch /\ c \in Batches!Calls
        /\ i \in Nat /\ i \notin A
    BY <2>1 DEF BatchInv, BatchType
  <2>3. s \in Nat
    BY <2>2, TouchedFile DEF BatchType, Batches!Sees
  <2>4. written' \in [Batches!Files -> Nat]
    BY <2>1, <2>2 DEF BatchType, Batches!Leaves
  <2>5. results' \in Seq([call : DOMAIN batch, saw : Nat])
    <3>1. [call |-> i, saw |-> s] \in [call : DOMAIN batch, saw : Nat]
      BY <2>2, <2>3
    <3> HIDE DEF s
    <3> QED
      BY <3>1, <2>1, <2>2 DEF BatchType
  <2>6. BatchType'
    BY <2>1, <2>2, <2>4, <2>5 DEF BatchType
  <2>7. /\ Len(results') = Len(results) + 1 /\ Len(results) \in Nat
        /\ results'[Len(results) + 1] = [call |-> i, saw |-> s]
        /\ \A n \in 1 .. Len(results) : results'[n] = results[n]
        /\ DOMAIN results' = 1 .. Len(results) + 1 /\ DOMAIN results = 1 .. Len(results)
    <3> HIDE DEF s
    <3> QED
      BY <2>1, <2>2 DEF BatchType
  <2>8. Batches!Answered' = A \union {i}
    <3>1. \A n \in DOMAIN results' : n \in DOMAIN results \/ n = Len(results) + 1
      BY <2>7
    <3>2. \A n \in DOMAIN results : n \in DOMAIN results' /\ results'[n].call = results[n].call
      BY <2>7
    <3>3. Len(results) + 1 \in DOMAIN results' /\ results'[Len(results) + 1].call = i
      BY <2>7
    <3> QED
      BY <3>1, <3>2, <3>3 DEF Batches!Answered
  <2>9. mode # "deciding" /\ (running \cap Batches!Answered = {})'
    BY <2>1, <2>2, <2>8 DEF BatchInv
  <2>10. mode' = "sequential" => running' = {}
    <3> SUFFICES ASSUME mode = "sequential", NEW k \in running, k # i PROVE FALSE
      BY <2>1
    <3>1. A = 1 .. i - 1 /\ A = 1 .. k - 1 /\ k \in Nat /\ k >= 1 /\ i >= 1
      BY <2>1, <2>2 DEF BatchInv, BatchType
    <3>2. i \in 1 .. k - 1 \/ k \in 1 .. i - 1
      BY <3>1, <2>2
    <3> QED
      BY <3>1, <3>2, <2>2
  <2>11. mode' = "parallel" => Batches!MayRunBeside'
    BY <2>1 DEF BatchInv, Batches!MayRunBeside, Batches!Scoped
  <2>12. /\ Judged' <=> Judged
         /\ \A k : Batches!InOrder(k)' = Batches!InOrder(k)
         /\ \A k, f : Batches!Writes(k, f)' <=> Batches!Writes(k, f)
    BY <2>1 DEF Judged, Batches!InOrder, Batches!Writes
  <2>13. ASSUME Judged
         PROVE  /\ \A f \in Batches!Files : written'[f] = Batches!Last(Writers(Batches!Answered, f)')
                /\ s = Batches!Sees(c, Batches!InOrder(i))
    <3>1. \A f \in Batches!Files : written[f] = Batches!Last(Writers(A, f))
      BY <2>13 DEF BatchInv
    <3>2. Batches!Touches(c) => Writers(A, Batches!FileAt(c.path)) = Writers({j \in DOMAIN batch : j < i}, Batches!FileAt(c.path))
      BY <2>1, <2>13, WritersBefore
    <3>3. s = Batches!Sees(c, Batches!InOrder(i))
      <4>1. SUFFICES ASSUME Batches!Touches(c)
                     PROVE  written[Batches!FileAt(c.path)] = Batches!InOrder(i)[Batches!FileAt(c.path)]
        BY DEF Batches!Sees
      <4> DEFINE f == Batches!FileAt(c.path)
      <4>2. f \in Batches!Files
        BY <2>2, <4>1, TouchedFile
      <4>3. Writers({j \in DOMAIN batch : j < i}, f) = {j \in DOMAIN batch : j < i /\ Batches!Writes(j, f)}
        BY DEF Writers
      <4>4. Batches!InOrder(i)[f] = Batches!Last({j \in DOMAIN batch : j < i /\ Batches!Writes(j, f)})
        BY <4>2 DEF Batches!InOrder
      <4> QED
        BY <3>1, <3>2, <4>1, <4>2, <4>3, <4>4
    <3>4. ASSUME NEW f \in Batches!Files PROVE written'[f] = Batches!Last(Writers(Batches!Answered, f)')
      <4>1. Writers(Batches!Answered, f)' = IF Batches!Writes(i, f) THEN Writers(A, f) \union {i} ELSE Writers(A, f)
        BY <2>8, <2>12 DEF Writers
      <4>2. CASE Batches!Writes(i, f)
        <5>1. Batches!Touches(c) /\ c.tool # "read" /\ Batches!FileAt(c.path) = f
          BY <4>2 DEF Batches!Writes
        <5>2. written'[f] = i
          BY <2>1, <2>2, <5>1 DEF Batches!Leaves, BatchType
        <5>3. Writers(A, f) = Writers({j \in DOMAIN batch : j < i}, f)
          BY <3>2, <5>1
        <5>4. \A j \in Writers(A, f) : j \in Nat /\ j < i
          BY <5>3, <2>2 DEF Writers, BatchType
        <5> DEFINE M == Writers(A, f) \union {i}
        <5>5. M \in SUBSET Nat /\ i \in M /\ \A j \in M : j <= i
          BY <5>4, <2>2
        <5> HIDE DEF M
        <5>6. Batches!Last(M) = i
          BY <5>5, LastIs
        <5> QED
          BY <4>1, <4>2, <5>2, <5>6 DEF M
      <4>3. CASE ~Batches!Writes(i, f)
        <5>1. written'[f] = written[f]
          BY <2>1, <2>2, <4>3 DEF Batches!Leaves, Batches!Writes, BatchType
        <5> QED
          BY <4>1, <4>3, <5>1, <3>1
      <4> QED
        BY <4>2, <4>3
    <3> QED
      BY <3>3, <3>4
  <2>14. ASSUME Judged, NEW n \in DOMAIN results'
         PROVE  results'[n].saw = Batches!Sees(batch[results'[n].call], Batches!InOrder(results'[n].call))
    <3>1. CASE n \in DOMAIN results
      BY <3>1, <2>7, <2>14 DEF BatchInv
    <3>2. CASE n = Len(results) + 1
      <4>1. results'[n].call = i /\ results'[n].saw = s
        BY <3>2, <2>7
      <4> HIDE DEF s
      <4> QED
        BY <4>1, <2>13, <2>14
    <3> QED
      BY <3>1, <3>2, <2>7, <2>14
  <2> HIDE DEF A, s, c
  <2>15. Judged' => /\ \A f \in Batches!Files : written'[f] = Batches!Last(Writers(Batches!Answered, f))'
                    /\ \A n \in DOMAIN results' :
                         results'[n].saw = Batches!Sees(batch[results[n].call], Batches!InOrder(results[n].call))'
    BY <2>1, <2>12, <2>13, <2>14 DEF Batches!Last, Batches!Sees
  <2> QED
    BY <2>1, <2>6, <2>9, <2>10, <2>11, <2>15 DEF BatchInv
<1> QED
  BY <1>1, <1>2, <1>3, <1>4 DEF Batches!Next

LEMMA BatchGives == BatchInv => Batches!BatchAsInOrder
<1> SUFFICES ASSUME BatchInv, Judged, Batches!Answered = DOMAIN batch
             PROVE  /\ written = Batches!InOrder(Len(batch) + 1)
                    /\ \A n \in DOMAIN results :
                         results[n].saw = Batches!Sees(batch[results[n].call], Batches!InOrder(results[n].call))
  BY DEF Batches!BatchAsInOrder, Judged
<1>1. written \in [Batches!Files -> Nat] /\ \A f \in Batches!Files : written[f] = Batches!Last(Writers(DOMAIN batch, f))
  BY DEF BatchInv, BatchType
<1>2. \A f : Writers(DOMAIN batch, f) = {i \in DOMAIN batch : i < Len(batch) + 1 /\ Batches!Writes(i, f)}
  <2>1. \A i \in DOMAIN batch : i < Len(batch) + 1
    BY DEF BatchInv, BatchType
  <2> QED
    BY <2>1 DEF Writers
<1> DEFINE D == Batches!InOrder(Len(batch) + 1)
<1>3. D = [f \in Batches!Files |-> Batches!Last({i \in DOMAIN batch : i < Len(batch) + 1 /\ Batches!Writes(i, f)})]
  BY DEF Batches!InOrder
<1>4. written = D
  BY <1>1, <1>2, <1>3
<1> QED
  BY <1>4 DEF BatchInv

(***************************************************************************)
(* Recursive deletions of a command line                                   *)
(***************************************************************************)
ScopeLimits ==
  /\ "." \notin DirName /\ ".." \notin DirName /\ "?" \notin DirName /\ DirName # {}
  /\ Here \in Seq(DirName) /\ Home \in Seq(DirName) /\ FirstDirs \subseteq Seq(DirName)
  /\ MaxLength \in Nat \ {0}

\* The directory the check follows is where the shell is, as long as it is known and the two
\* have not parted.
ScopeInv ==
  /\ DOMAIN check = {"vcwd", "blocked"} /\ DOMAIN shell = {"cwd", "groups", "parted", "strayed"}
  /\ shell.parted \in BOOLEAN
  /\ check.vcwd # Scope!Unknown =>
       check.vcwd \in Seq(Scope!Step) /\ (~shell.parted => Scope!Real(check.vcwd) = shell.cwd)
  /\ "followed" \notin shell.strayed

LEMMA RealIs == ASSUME NEW p PROVE Scope!Real(p) = PlaceOf(<<>>, p)
BY SamePlaces DEF Scope!Real

LEMMA NormalIs == ASSUME NEW p PROVE Scope!NormalizeDots(p) = DotsRemoved(<<>>, p)
BY SamePlaces DEF Scope!NormalizeDots

LEMMA StepIs == ASSUME ScopeLimits PROVE "." \notin Scope!Step /\ ".." \in Scope!Step /\ "?" \notin Scope!Step
BY DEF ScopeLimits, Scope!Step

\* A known directory is not the sign for an unknown one.
LEMMA KnownPlace ==
  ASSUME NEW T, "?" \notin T, NEW p \in Seq(T)
  PROVE  p # Scope!Unknown
<1>1. SUFFICES ASSUME p = <<"?">> PROVE FALSE
  BY DEF Scope!Unknown
<1>2. Len(p) = 1 /\ p[1] = "?"
  BY <1>1
<1>3. p[1] \in T
  BY <1>2
<1> QED
  BY <1>2, <1>3

LEMMA NamesAreSteps == ASSUME NEW p \in Seq(DirName) PROVE p \in Seq(Scope!Step)
BY DEF Scope!Step

\* The path of a place is its names.
LEMMA RealNames ==
  ASSUME ScopeLimits, NEW p \in Seq(DirName)
  PROVE  Scope!Real(p) = p
<1>1. PlaceOf(<<>>, p) = p
  BY PlaceOfNames DEF ScopeLimits
<1> QED
  BY <1>1, RealIs

LEMMA RealType ==
  ASSUME ScopeLimits, NEW p \in Seq(Scope!Step)
  PROVE  Scope!Real(p) \in Seq(DirName)
<1> DEFINE U == Scope!Step \ {".", ".."}
<1>1. U = DirName
  BY DEF ScopeLimits, Scope!Step
<1>2. PlaceOf(<<>>, p) \in Seq(U)
  BY PlaceType
<1> QED
  BY <1>1, <1>2, RealIs

LEMMA RealFurther ==
  ASSUME ScopeLimits, NEW p \in Seq(Scope!Step), NEW q \in Seq(Scope!Step)
  PROVE  Scope!Real(Scope!Real(p) \o q) = Scope!Real(p \o q)
<1> DEFINE S == Scope!Step
           r == PlaceOf(<<>>, p)
<1>1. Scope!Real(p) = r /\ r \in Seq(DirName)
  BY RealIs, RealType
<1>2. r \in Seq(S)
  BY <1>1, NamesAreSteps
<1>3. PlaceOf(<<>>, r) = r
  BY <1>1, RealIs, RealNames
<1> HIDE DEF r, S
<1>4. PlaceOf(<<>>, r \o q) = PlaceOf(PlaceOf(<<>>, r), q)
  BY <1>2, PlaceFurther DEF S
<1>5. PlaceOf(<<>>, p \o q) = PlaceOf(r, q)
  BY PlaceFurther DEF r
<1> QED
  BY <1>1, <1>3, <1>4, <1>5, RealIs

LEMMA NormalGoesThere ==
  ASSUME ScopeLimits, NEW p \in Seq(Scope!Step)
  PROVE  /\ Scope!NormalizeDots(p) \in Seq(Scope!Step) /\ Upwards(Scope!NormalizeDots(p))
         /\ Scope!Real(Scope!NormalizeDots(p)) = Scope!Real(p)
BY StepIs, DotsLeadThere, RealIs, NormalIs

\* A path within a directory that is known by names is made of names.
LEMMA WithinIsReal ==
  ASSUME ScopeLimits, NEW p \in Seq(Scope!Step),
         Scope!IsWithin(Scope!NormalizeDots(p), Scope!NormalizeDots(Here))
  PROVE  Scope!IsWithin(Scope!Real(p), Here)
<1>1. Scope!NormalizeDots(Here) = Here
  <2>1. Here \in Seq(DirName)
    BY DEF ScopeLimits
  <2>2. Here \in Seq(Scope!Step)
    BY <2>1, NamesAreSteps
  <2> DEFINE h == Scope!NormalizeDots(Here)
  <2> QED
    BY <2>1, DotsOfNames, NormalIs DEF ScopeLimits
<1> DEFINE d == Scope!NormalizeDots(p)
<1>2. d \in Seq(Scope!Step) /\ Upwards(d) /\ Scope!Real(d) = Scope!Real(p)
  BY NormalGoesThere
<1>3. Len(Here) <= Len(d) /\ SubSeq(d, 1, Len(Here)) = Here
  BY <1>1 DEF Scope!IsWithin, Scope!Above
<1>4. Here \in Seq(DirName) /\ Len(Here) \in Nat
  BY DEF ScopeLimits
<1> HIDE DEF d
<1>5. CASE Here = <<>>
  <2>1. Scope!Real(p) \in Seq(DirName)
    BY RealType
  <2> DEFINE r == Scope!Real(p)
  <2> HIDE DEF r
  <2>2. r \in Seq(DirName) => 0 <= Len(r) /\ SubSeq(r, 1, 0) = <<>>
    OBVIOUS
  <2> QED
    BY <1>5, <2>1, <2>2 DEF r, Scope!IsWithin, Scope!Above
<1>6. CASE Here # <<>>
  <2>1. Len(Here) \in Nat \ {0}
    BY <1>4, <1>6
  <2>2. d[1] = Here[1] /\ Here[1] \in DirName /\ 1 \in DOMAIN d
    <3>1. SubSeq(d, 1, Len(Here))[1] = d[1]
      BY <1>2, <1>3, <2>1
    <3>2. Here[1] \in DirName /\ 1 \in DOMAIN d
      BY <1>2, <1>3, <1>4, <2>1
    <3> QED
      BY <3>1, <3>2, <1>3
  <2>3. \A n \in DOMAIN d : d[n] # ".."
    <3> SUFFICES ASSUME NEW n \in DOMAIN d, d[n] = ".." PROVE FALSE
      OBVIOUS
    <3>1. 1 \in 1 .. n
      BY <1>2
    <3>2. d[1] = ".."
      BY <3>1, <1>2 DEF Upwards
    <3> QED
      BY <3>2, <2>2 DEF ScopeLimits
  <2>4. d \in Seq(DirName)
    <3>1. \A n \in 1 .. Len(d) : d[n] \in DirName
      BY <1>2, <2>3 DEF Scope!Step
    <3>2. Len(d) \in Nat /\ d = [n \in 1 .. Len(d) |-> d[n]]
      BY <1>2
    <3> QED
      BY <3>1, <3>2
  <2>5. Scope!Real(d) = d
    BY <2>4, RealNames
  <2> QED
    BY <1>2, <1>3, <2>5 DEF Scope!IsWithin, Scope!Above
<1> QED
  BY <1>5, <1>6

LEMMA WordPath ==
  ASSUME ScopeLimits, NEW w \in Scope!Word
  PROVE  /\ w.path \in Seq(Scope!Step)
         /\ w.kind \in {"absolute", "relative", "tilde", "home", "variable", "user", "back"}
<1> DEFINE S == Scope!Step
<1>1. \A q \in Scope!Relative : q \in Seq(S)
  <2> SUFFICES ASSUME NEW n \in 1 .. MaxLength, NEW q \in [1 .. n -> S] PROVE q \in Seq(S)
    BY DEF Scope!Relative
  <2>1. n \in Nat
    BY DEF ScopeLimits
  <2> HIDE DEF S
  <2> QED
    BY <2>1
<1>2. <<>> \in Seq(S)
  OBVIOUS
<1> HIDE DEF S
<1> QED
  BY <1>1, <1>2 DEF Scope!Word, S

\* The check and the shell understand a word that the check resolves alike.
LEMMA AnchoredGoes ==
  ASSUME ScopeLimits, ScopeInv, NEW w \in Scope!Word, Scope!Anchored(w, check.vcwd) # Scope!Unknown,
         ~shell.parted \/ w.kind # "relative"
  PROVE  /\ Scope!Anchored(w, check.vcwd) \in Seq(Scope!Step)
         /\ Scope!Goes(w, shell.cwd) = Scope!Real(Scope!Anchored(w, check.vcwd))
<1> DEFINE a == Scope!Anchored(w, check.vcwd)
<1>1. w.path \in Seq(Scope!Step)
  BY WordPath
<1>2. CASE w.kind = "absolute"
  <2>1. a = w.path /\ Scope!Goes(w, shell.cwd) = Scope!Real(w.path)
    BY <1>2 DEF Scope!Anchored, Scope!Goes
  <2> QED
    BY <1>1, <2>1
<1>3. CASE w.kind \in {"tilde", "home"}
  <2>1. a = Home \o w.path /\ Scope!Goes(w, shell.cwd) = Scope!Real(Home \o w.path)
    BY <1>3 DEF Scope!Anchored, Scope!Goes
  <2>2. Home \in Seq(Scope!Step)
    BY NamesAreSteps DEF ScopeLimits
  <2>3. Home \o w.path \in Seq(Scope!Step)
    BY <1>1, <2>2
  <2> QED
    BY <2>1, <2>3
<1>4. CASE w.kind = "relative"
  <2>1. check.vcwd # Scope!Unknown /\ a = check.vcwd \o w.path
    BY <1>4 DEF Scope!Anchored
  <2>2. check.vcwd \in Seq(Scope!Step) /\ Scope!Real(check.vcwd) = shell.cwd
    BY <1>4, <2>1 DEF ScopeInv
  <2>3. shell.cwd \in Seq(DirName)
    BY <2>2, RealType
  <2>4. shell.cwd # Scope!Unknown
    BY <2>3, KnownPlace DEF ScopeLimits
  <2>5. Scope!Goes(w, shell.cwd) = Scope!Real(shell.cwd \o w.path)
    BY <1>4, <2>4 DEF Scope!Goes
  <2>6. Scope!Real(shell.cwd \o w.path) = Scope!Real(check.vcwd \o w.path)
    BY <1>1, <2>2, RealFurther
  <2>7. check.vcwd \o w.path \in Seq(Scope!Step)
    BY <1>1, <2>2
  <2> QED
    BY <2>1, <2>5, <2>6, <2>7
<1>5. CASE w.kind \in {"variable", "user", "back"}
  BY <1>5 DEF Scope!Anchored
<1> QED
  BY <1>2, <1>3, <1>4, <1>5, WordPath

LEMMA ResolvedIs ==
  ASSUME NEW w, NEW d, Scope!ResolveDirArg(w, d) # Scope!Unknown
  PROVE  /\ Scope!ResolveDirArg(w, d) = Scope!NormalizeDots(Scope!Anchored(w, d))
         /\ \/ Scope!Anchored(w, d) = w.path
            \/ Scope!Anchored(w, d) = Home \o w.path
            \/ d # Scope!Unknown /\ Scope!Anchored(w, d) = d \o w.path
<1>1. CASE w.kind = "absolute"
  <2>1. Scope!ResolveDirArg(w, d) = Scope!NormalizeDots(w.path)
    BY <1>1 DEF Scope!ResolveDirArg
  <2>2. Scope!Anchored(w, d) = w.path
    BY <1>1 DEF Scope!Anchored
  <2> QED
    BY <2>1, <2>2
<1>2. CASE w.kind = "tilde"
  <2>1. Scope!ResolveDirArg(w, d) = Scope!NormalizeDots(Home \o w.path)
    BY <1>2 DEF Scope!ResolveDirArg
  <2>2. Scope!Anchored(w, d) = Home \o w.path
    BY <1>2 DEF Scope!Anchored
  <2> QED
    BY <2>1, <2>2
<1>3. CASE w.kind = "relative" /\ d # Scope!Unknown /\ w.path # <<>>
  <2>1. Scope!ResolveDirArg(w, d) = Scope!NormalizeDots(d \o w.path)
    BY <1>3 DEF Scope!ResolveDirArg
  <2>2. Scope!Anchored(w, d) = d \o w.path
    BY <1>3 DEF Scope!Anchored
  <2> QED
    BY <1>3, <2>1, <2>2
<1> QED
  BY <1>1, <1>2, <1>3 DEF Scope!ResolveDirArg

LEMMA ResolvedType ==
  ASSUME ScopeLimits, ScopeInv, NEW w \in Scope!Word,
         Scope!ResolveDirArg(w, check.vcwd) # Scope!Unknown
  PROVE  /\ Scope!Anchored(w, check.vcwd) \in Seq(Scope!Step)
         /\ Scope!ResolveDirArg(w, check.vcwd) = Scope!NormalizeDots(Scope!Anchored(w, check.vcwd))
         /\ Scope!ResolveDirArg(w, check.vcwd) \in Seq(Scope!Step)
<1> DEFINE a == Scope!Anchored(w, check.vcwd)
<1>1. Scope!ResolveDirArg(w, check.vcwd) = Scope!NormalizeDots(a)
  BY ResolvedIs
<1>2. w.path \in Seq(Scope!Step) /\ Home \in Seq(Scope!Step)
  BY WordPath, NamesAreSteps DEF ScopeLimits
<1>3. check.vcwd # Scope!Unknown => check.vcwd \in Seq(Scope!Step)
  BY DEF ScopeInv
<1>4. Home \o w.path \in Seq(Scope!Step)
  BY <1>2
<1>5. check.vcwd # Scope!Unknown => check.vcwd \o w.path \in Seq(Scope!Step)
  BY <1>2, <1>3
<1>6. a \in Seq(Scope!Step)
  BY <1>2, <1>4, <1>5, ResolvedIs
<1> HIDE DEF a
<1>7. Scope!NormalizeDots(a) \in Seq(Scope!Step)
  BY <1>6, NormalGoesThere
<1> QED
  BY <1>1, <1>6, <1>7 DEF a

\* Following a cd that both read alike, the check arrives where the shell does or knows that
\* it does not know.
LEMMA Followed ==
  ASSUME ScopeLimits, ScopeInv, NEW w \in Scope!Word,
         Scope!ResolveDirArg(w, check.vcwd) # Scope!Unknown, ~shell.parted \/ w.kind # "relative"
  PROVE  Scope!Real(Scope!ResolveDirArg(w, check.vcwd)) = Scope!Goes(w, shell.cwd)
<1> DEFINE a == Scope!Anchored(w, check.vcwd)
<1>1. a \in Seq(Scope!Step) /\ Scope!ResolveDirArg(w, check.vcwd) = Scope!NormalizeDots(a)
  BY ResolvedType
<1> HIDE DEF a
<1>2. a # Scope!Unknown
  BY <1>1, StepIs, KnownPlace
<1>3. Scope!Goes(w, shell.cwd) = Scope!Real(a)
  BY <1>2, AnchoredGoes DEF a
<1> QED
  BY <1>1, <1>3, NormalGoesThere

\* A target that the check allows is in the workspace where the shell finds it.
LEMMA AllowedStays ==
  ASSUME ScopeLimits, ScopeInv, NEW w \in Scope!Word,
         Scope!TargetAllowed(w, check.vcwd), ~Scope!Empty(w),
         ~shell.parted \/ w.kind # "relative"
  PROVE  /\ Scope!Goes(w, shell.cwd) # Scope!Unknown
         /\ Scope!IsWithin(Scope!Goes(w, shell.cwd), Here)
<1> DEFINE a == Scope!Anchored(w, check.vcwd)
<1>1. a # Scope!Unknown /\ Scope!IsWithin(Scope!NormalizeDots(a), Scope!NormalizeDots(Here))
  BY DEF Scope!TargetAllowed
<1>2. a \in Seq(Scope!Step) /\ Scope!Goes(w, shell.cwd) = Scope!Real(a)
  BY <1>1, AnchoredGoes
<1> HIDE DEF a
<1>3. Scope!Real(a) \in Seq(DirName)
  BY <1>2, RealType
<1>4. Scope!Real(a) # Scope!Unknown
  BY <1>3, KnownPlace DEF ScopeLimits
<1>5. Scope!IsWithin(Scope!Real(a), Here)
  BY <1>1, <1>2, WithinIsReal
<1> QED
  BY <1>2, <1>4, <1>5

\* The targets of a deletion are words of the line.
LEMMA TargetsAreWords ==
  ASSUME ScopeLimits, NEW family, NEW args \in Scope!Args, NEW w \in Scope!Targets(family, args)
  PROVE  w \in Scope!Word
<1> DEFINE U == Scope!Flag \cup Scope!Word
           F == Scope!Flag
           V == Scope!Word
<1>1. args \in Seq(U)
  <2>1. \A kind \in {"recursive", "other", "end"} : Scope!Plain(kind) \in F
    BY DEF Scope!Plain, Scope!Flag
  <2>2. \A f \in F : f \in U
    OBVIOUS
  <2>3. \A v \in V : v \in U
    OBVIOUS
  <2> HIDE DEF U, F, V
  <2>4. \A x \in U : <<x>> \in Seq(U)
    OBVIOUS
  <2>5. \A x, y \in U : <<x, y>> \in Seq(U)
    OBVIOUS
  <2>6. <<>> \in Seq(U) /\ \A p, q \in Seq(U) : p \o q \in Seq(U)
    OBVIOUS
  <2>7. Scope!Plain("recursive") \in U /\ Scope!Plain("end") \in U
    BY <2>1, <2>2
  <2>8. \A f \in Scope!Flags : f \in Seq(U)
    BY <2>2, <2>4, <2>5, <2>6, <2>7 DEF Scope!Flags, F
  <2>9. CASE \E f \in Scope!Flags, t \in {<<>>} \cup {<<v>> : v \in Scope!Word} : args = f \o t
    <3>1. PICK f \in Scope!Flags, t \in {<<>>} \cup {<<v>> : v \in Scope!Word} : args = f \o t
      BY <2>9
    <3>2. t \in Seq(U)
      BY <2>3, <2>4, <2>6 DEF V
    <3> QED
      BY <3>1, <3>2, <2>6, <2>8
  <2>10. CASE \E v \in Scope!Word : args = <<v, Scope!Plain("recursive")>>
    BY <2>10, <2>3, <2>5, <2>7 DEF V
  <2> QED
    BY <2>9, <2>10 DEF Scope!Args
<1>2. PICK i \in 1 .. Len(args) : w = Scope!AsWord(args[i])
  BY DEF Scope!Targets
<1>3. args[i] \in U
  <2> HIDE DEF U
  <2> QED
    BY <1>1
<1>4. CASE args[i] \in Scope!Flag
  <2>1. w = [kind |-> "relative", path |-> <<CHOOSE n \in DirName : TRUE>>, glob |-> "no"]
    BY <1>2, <1>4 DEF Scope!AsWord
  <2> DEFINE x == CHOOSE n \in DirName : TRUE
  <2>2. x \in DirName
    BY DEF ScopeLimits
  <2> HIDE DEF x
  <2>3. x \in Scope!Step
    BY <2>2 DEF Scope!Step
  <2>4. <<x>> \in Scope!Relative
    <3>1. <<x>> \in [1 .. 1 -> Scope!Step] /\ 1 \in 1 .. MaxLength
      BY <2>3 DEF ScopeLimits
    <3> QED
      BY <3>1 DEF Scope!Relative
  <2> QED
    BY <2>1, <2>4 DEF Scope!Word, x
<1>5. CASE args[i] \notin Scope!Flag
  BY <1>2, <1>3, <1>5 DEF Scope!AsWord
<1> QED
  BY <1>4, <1>5

LEMMA ScopeStart == ScopeLimits /\ Scope!Init => ScopeInv
<1> SUFFICES ASSUME ScopeLimits, Scope!Init PROVE ScopeInv
  OBVIOUS
<1>1. PICK d \in FirstDirs : /\ check = [vcwd |-> d, blocked |-> FALSE]
                             /\ shell = [cwd |-> d, groups |-> <<>>, parted |-> FALSE, strayed |-> {}]
  BY DEF Scope!Init
<1>2. d \in Seq(DirName)
  BY DEF ScopeLimits
<1>3. d \in Seq(Scope!Step) /\ Scope!Real(d) = d
  BY <1>2, NamesAreSteps, RealNames
<1> QED
  BY <1>1, <1>3 DEF ScopeInv

LEMMA ScopeStep == ScopeLimits /\ ScopeInv /\ [Scope!Next]_Scope!vars => ScopeInv'
<1> SUFFICES ASSUME ScopeLimits, ScopeInv, [Scope!Next]_Scope!vars PROVE ScopeInv'
  OBVIOUS
<1>1. /\ DOMAIN check = {"vcwd", "blocked"} /\ DOMAIN shell = {"cwd", "groups", "parted", "strayed"}
      /\ shell.parted \in BOOLEAN /\ "followed" \notin shell.strayed
  BY DEF ScopeInv
<1>2. CASE UNCHANGED Scope!vars
  BY <1>2 DEF Scope!vars, ScopeInv
<1>3. ASSUME NEW w \in Scope!Word, Scope!ChangeDir(w) PROVE ScopeInv'
  <2> DEFINE d == Scope!ResolveDirArg(w, check.vcwd)
             g == Scope!Goes(w, shell.cwd)
             named == w.kind \in {"absolute", "tilde"}
  <2>1. /\ check' = [check EXCEPT !.vcwd = d]
        /\ shell' = [shell EXCEPT !.cwd = g, !.parted = @ /\ ~named]
    BY <1>3 DEF Scope!ChangeDir
  <2>2. d # Scope!Unknown => d \in Seq(Scope!Step)
    BY ResolvedType
  <2>3. d # Scope!Unknown /\ (~shell.parted \/ named) => Scope!Real(d) = g
    BY Followed
  <2> HIDE DEF d, g, named
  <2>4. /\ check'.vcwd = d /\ shell'.cwd = g /\ shell'.strayed = shell.strayed
        /\ DOMAIN check' = {"vcwd", "blocked"} /\ DOMAIN shell' = {"cwd", "groups", "parted", "strayed"}
    BY <1>1, <2>1
  <2>5. shell'.parted = (shell.parted /\ ~named)
    BY <1>1, <2>1
  <2> QED
    BY <1>1, <2>2, <2>3, <2>4, <2>5 DEF ScopeInv
<1>4. ASSUME Scope!ChangeHome PROVE ScopeInv'
  <2>1. check' = [check EXCEPT !.vcwd = Home] /\ shell' = [shell EXCEPT !.cwd = Home, !.parted = FALSE]
    BY <1>4 DEF Scope!ChangeHome
  <2>2. Home \in Seq(Scope!Step) /\ Scope!Real(Home) = Home
    BY NamesAreSteps, RealNames DEF ScopeLimits
  <2>3. /\ check'.vcwd = Home /\ shell'.cwd = Home /\ shell'.parted = FALSE
        /\ shell'.strayed = shell.strayed
        /\ DOMAIN check' = {"vcwd", "blocked"} /\ DOMAIN shell' = {"cwd", "groups", "parted", "strayed"}
    BY <1>1, <2>1
  <2> QED
    BY <1>1, <2>2, <2>3 DEF ScopeInv
<1>5. ASSUME Scope!Misread PROVE ScopeInv'
  <2>1. PICK v \in {check.vcwd, Home} \cup {Scope!ResolveDirArg(w, check.vcwd) : w \in Scope!Word},
             d \in {shell.cwd} \cup {Scope!Goes(w, shell.cwd) : w \in Scope!Word} :
               /\ check' = [check EXCEPT !.vcwd = v]
               /\ shell' = [shell EXCEPT !.cwd = d, !.parted = TRUE]
    BY <1>5 DEF Scope!Misread
  <2>2. v # Scope!Unknown => v \in Seq(Scope!Step)
    <3>1. Home \in Seq(Scope!Step)
      BY NamesAreSteps DEF ScopeLimits
    <3>2. \A w \in Scope!Word : Scope!ResolveDirArg(w, check.vcwd) # Scope!Unknown =>
            Scope!ResolveDirArg(w, check.vcwd) \in Seq(Scope!Step)
      BY ResolvedType
    <3> QED
      BY <3>1, <3>2, <2>1 DEF ScopeInv
  <2>3. /\ check'.vcwd = v /\ shell'.parted = TRUE /\ shell'.strayed = shell.strayed
        /\ DOMAIN check' = {"vcwd", "blocked"} /\ DOMAIN shell' = {"cwd", "groups", "parted", "strayed"}
    BY <1>1, <2>1
  <2> QED
    BY <1>1, <2>2, <2>3 DEF ScopeInv
<1>6. ASSUME Scope!OpenGroup PROVE ScopeInv'
  <2>1. check' = check /\ shell' = [shell EXCEPT !.groups = Append(@, shell.cwd)]
    BY <1>6 DEF Scope!OpenGroup
  <2>2. /\ shell'.cwd = shell.cwd /\ shell'.parted = shell.parted /\ shell'.strayed = shell.strayed
        /\ DOMAIN shell' = {"cwd", "groups", "parted", "strayed"}
    BY <1>1, <2>1
  <2> QED
    BY <2>1, <2>2 DEF ScopeInv
<1>7. ASSUME Scope!CloseGroup PROVE ScopeInv'
  <2> DEFINE back == shell.groups[Len(shell.groups)]
  <2>1. /\ check' = check
        /\ shell' = [shell EXCEPT !.cwd = back, !.groups = Scope!Up(@), !.parted = @ \/ shell.cwd # back]
    BY <1>7 DEF Scope!CloseGroup
  <2> HIDE DEF back
  <2>2. /\ shell'.cwd = back /\ shell'.strayed = shell.strayed
        /\ DOMAIN shell' = {"cwd", "groups", "parted", "strayed"}
    BY <1>1, <2>1
  <2>3. shell'.parted = (shell.parted \/ shell.cwd # back)
    BY <1>1, <2>1
  <2> QED
    BY <1>1, <2>1, <2>2, <2>3 DEF ScopeInv
<1>8. ASSUME NEW family \in {"rm", "other"}, NEW args \in Scope!Args, Scope!Delete(family, args)
      PROVE  ScopeInv'
  <2> DEFINE strays == IF Scope!DeleteRefused(family, args) THEN {} ELSE Scope!Strays(family, args)
  <2>1. /\ check' = [check EXCEPT !.blocked = Scope!DeleteRefused(family, args)]
        /\ shell' = [shell EXCEPT !.strayed = strays]
    BY <1>8 DEF Scope!Delete
  <2>2. "followed" \notin strays
    <3> SUFFICES ASSUME ~Scope!DeleteRefused(family, args), "followed" \in Scope!Strays(family, args)
                 PROVE  FALSE
      OBVIOUS
    <3>1. Scope!Recursive(family, args)
      BY DEF Scope!Strays
    <3>2. PICK w \in Scope!Targets(family, args) :
            ~Scope!Empty(w) /\ Scope!Outside(w) /\ Scope!Written(w) = "followed"
      BY <3>1 DEF Scope!Strays
    <3>3. Scope!TargetAllowed(w, check.vcwd)
      BY <3>1 DEF Scope!DeleteRefused
    <3>4. w \in Scope!Word
      BY TargetsAreWords
    <3>5. w.glob # "open" /\ (~shell.parted \/ w.kind # "relative")
      BY <3>2 DEF Scope!Written
    <3> QED
      BY <3>2, <3>3, <3>4, <3>5, AllowedStays DEF Scope!Outside
  <2> HIDE DEF strays
  <2>3. /\ check'.vcwd = check.vcwd /\ shell'.cwd = shell.cwd /\ shell'.parted = shell.parted
        /\ shell'.strayed = strays
        /\ DOMAIN check' = {"vcwd", "blocked"} /\ DOMAIN shell' = {"cwd", "groups", "parted", "strayed"}
    BY <1>1, <2>1
  <2> QED
    BY <2>2, <2>3 DEF ScopeInv
<1>9. ASSUME Scope!Listed PROVE ScopeInv'
  <2>1. check' = [check EXCEPT !.blocked = TRUE] /\ shell' = shell
    BY <1>9 DEF Scope!Listed
  <2>2. check'.vcwd = check.vcwd /\ DOMAIN check' = {"vcwd", "blocked"}
    BY <1>1, <2>1
  <2> QED
    BY <2>1, <2>2 DEF ScopeInv
<1> QED
  BY <1>2, <1>3, <1>4, <1>5, <1>6, <1>7, <1>8, <1>9 DEF Scope!Next

LEMMA ScopeGives == ScopeInv => Scope!FollowsTheShell /\ Scope!DeletesInWorkspace
BY DEF ScopeInv, Scope!FollowsTheShell, Scope!DeletesInWorkspace

(***************************************************************************)
(* Replies: an entry of the aggregator belongs to one block of the reply   *)
(* and holds pieces of it in order; as long as no line was lost, it holds  *)
(* all that were sent.                                                     *)
(***************************************************************************)
StreamLimits == Pieces \in Nat /\ MaxBlocks \in Nat /\ CallIds \subseteq Nat \ {0}
StreamBlock == [id : Nat, tool : BOOLEAN]
StreamCall == [id : Nat, args : Seq(Nat \X Nat)]
StreamTotals == [prompt : Nat, cached : Nat, completion : Nat]

AskInv ==
  /\ DOMAIN ask = {"protocol", "step", "retries", "wait"}
  /\ ask.protocol \in {"openai", "anthropic"} /\ ask.step \in Stream!Steps
BlocksInv ==
  /\ reply \in Seq(StreamBlock)
  /\ \A b, c \in DOMAIN reply : b # c /\ reply[b].id # 0 => reply[b].id # reply[c].id
WireInv ==
  /\ wire \in [lead : BOOLEAN, at : [DOMAIN reply -> Nat], trail : Nat, half : [block : Nat, part : Nat]]
  /\ \A b \in DOMAIN reply : wire.at[b] \in 0 .. Pieces + 1
  /\ ~wire.lead => wire.trail = 0
  /\ wire.half = Stream!NoLine \/ wire.half \in Stream!NextLines
\* The decoder numbers blocks that have begun, no two alike.
DecoderInv ==
  /\ line = [map |-> line.map, next |-> line.next, input |-> line.input, output |-> line.output]
  /\ line.next \in Nat
  /\ \A b \in DOMAIN line.map :
       /\ b \in DOMAIN reply /\ reply[b].tool /\ wire.at[b] > 0
       /\ line.map[b] \in Nat /\ line.map[b] < line.next
  /\ \A b, c \in DOMAIN line.map : line.map[b] = line.map[c] => b = c

\* The entry with the number k is that of block b; c holds some of b's pieces, in order.
Owns(b, k) ==
  /\ reply[b].tool
  /\ IF ask.protocol = "openai" THEN k = Stream!ToolsBefore(b)
     ELSE b \in DOMAIN line.map /\ line.map[b] = k
Holds(c, b, at) ==
  /\ c \in StreamCall /\ c.id \in {0, reply[b].id}
  /\ \A n \in 1 .. Len(c.args) : c.args[n][1] = b /\ c.args[n][2] < at
  /\ \A n \in 2 .. Len(c.args) : c.args[n - 1][2] < c.args[n][2]
CallsInv ==
  /\ agg = [calls |-> agg.calls, text |-> agg.text, usage |-> agg.usage]
  /\ \A k \in DOMAIN agg.calls : \E b \in DOMAIN reply : Owns(b, k) /\ Holds(agg.calls[k], b, wire.at[b])

\* c holds all that was sent of b.
Complete(c, b, at) ==
  /\ c \in StreamCall /\ c.id = reply[b].id /\ Len(c.args) = at - 1
  /\ \A n \in 1 .. Len(c.args) : c.args[n] = <<b, n>>
ExactLine ==
  ask.protocol = "anthropic" =>
    /\ \A b \in DOMAIN reply : reply[b].tool /\ wire.at[b] > 0 => b \in DOMAIN line.map
    /\ line.input <=> wire.lead
    /\ line.output <=> wire.trail > 0
ExactCalls ==
  \A b \in DOMAIN reply :
    reply[b].tool /\ reply[b].id # 0 /\ wire.at[b] > 0 =>
      \E k \in DOMAIN agg.calls : Owns(b, k) /\ Complete(agg.calls[k], b, wire.at[b])
SentText(b, n) == b \in DOMAIN reply /\ ~reply[b].tool /\ n \in Nat \ {0} /\ n < wire.at[b]
ExactText ==
  /\ agg.text \in Seq(Nat \X Nat)
  /\ \A i \in DOMAIN agg.text : SentText(agg.text[i][1], agg.text[i][2])
  /\ \A b \in DOMAIN reply, n \in Nat : SentText(b, n) => \E i \in DOMAIN agg.text : agg.text[i] = <<b, n>>
ExactUsage == agg.usage = IF wire.trail = 2 THEN Stream!Total ELSE Stream!NoUsage
ExactInv ==
  /\ faults = [damaged |-> faults.damaged, cut |-> faults.cut] /\ faults.damaged \in Nat
  /\ wire.trail \in 0 .. 2
  /\ faults.damaged = 0 => ExactLine /\ ExactCalls /\ ExactText /\ ExactUsage
EndInv == ask.step = "ended" /\ ~faults.cut => Stream!NextLines = {}
ReplyInv == AskInv /\ BlocksInv /\ WireInv /\ DecoderInv /\ CallsInv /\ ExactInv /\ EndInv

LEMMA StreamCardinality == \A S : Stream!Cardinality(S) = Cardinality(S)
BY DEF Stream!Cardinality, Cardinality

\* Two calls have different numbers.
LEMMA ToolsApart ==
  ASSUME BlocksInv, NEW b \in DOMAIN reply, NEW c \in DOMAIN reply, reply[b].tool, reply[c].tool,
         Stream!ToolsBefore(b) = Stream!ToolsBefore(c)
  PROVE  b = c
<1> DEFINE T(d) == {e \in 1 .. d - 1 : reply[e].tool}
<1>0. \A d \in DOMAIN reply : d \in Nat /\ d - 1 \in Nat
  BY DEF BlocksInv
<1>1. \A d \in DOMAIN reply : IsFiniteSet(T(d)) /\ Cardinality(T(d)) = Stream!ToolsBefore(d)
  <2>1. ASSUME NEW d \in DOMAIN reply PROVE IsFiniteSet(T(d))
    <3>1. IsFiniteSet(1 .. d - 1)
      BY <1>0, FS_Interval
    <3> QED
      BY <3>1, FS_Subset
  <2> QED
    BY <2>1, StreamCardinality DEF Stream!ToolsBefore
<1>2. ASSUME NEW d \in DOMAIN reply, NEW e \in DOMAIN reply, reply[d].tool, d < e,
             Stream!ToolsBefore(d) = Stream!ToolsBefore(e)
      PROVE  FALSE
  <2>1. T(d) \subseteq T(e) /\ d \in T(e) /\ d \notin T(d)
    BY <1>0, <1>2
  <2>2. Cardinality(T(d)) = Cardinality(T(e)) /\ IsFiniteSet(T(e))
    BY <1>1, <1>2
  <2> HIDE DEF T
  <2>3. T(d) = T(e)
    BY <2>1, <2>2, FS_Subset
  <2> QED
    BY <2>1, <2>3
<1>3. b < c \/ b = c \/ c < b
  BY <1>0
<1> QED
  BY <1>2, <1>3

OwnersApart == \A b, c \in DOMAIN reply : \A k : Owns(b, k) /\ Owns(c, k) => b = c
LEMMA OneOwner == AskInv /\ BlocksInv /\ DecoderInv => OwnersApart
<1> SUFFICES ASSUME AskInv, BlocksInv, DecoderInv,
                    NEW b \in DOMAIN reply, NEW c \in DOMAIN reply, NEW k, Owns(b, k), Owns(c, k)
             PROVE  b = c
  BY DEF OwnersApart
<1> QED
  BY ToolsApart DEF Owns, DecoderInv

LEMMA EntryHolds ==
  ASSUME AskInv, BlocksInv, DecoderInv, CallsInv, NEW b \in DOMAIN reply, NEW k, Owns(b, k),
         wire.at[b] \in Nat
  PROVE  Holds(Stream!Entry(agg.calls, k), b, wire.at[b])
<1>1. CASE k \in DOMAIN agg.calls
  <2>1. PICK c \in DOMAIN reply : Owns(c, k) /\ Holds(agg.calls[k], c, wire.at[c])
    BY <1>1 DEF CallsInv
  <2>2. b = c
    BY <2>1, OneOwner DEF OwnersApart
  <2> QED
    BY <1>1, <2>1, <2>2 DEF Stream!Entry
<1>2. CASE k \notin DOMAIN agg.calls
  <2>1. << >> \in Seq(Nat \X Nat) /\ Len(<< >>) = 0
    OBVIOUS
  <2> QED
    BY <1>2, <2>1 DEF Stream!Entry, Stream!NoCall, Holds, StreamCall
<1> QED
  BY <1>1, <1>2

\* What a chunk makes of an entry, at the beginning of a block and for a piece of it.
LEMMA FilledHolds ==
  ASSUME BlocksInv, NEW b \in DOMAIN reply, NEW p \in Nat, NEW k, NEW c, NEW id, NEW args,
         Holds(c, b, p),
         (id = 0 /\ args = << <<b, p>> >>) \/ (p = 0 /\ id = reply[b].id /\ args = << >>)
  PROVE  Holds(Stream!Filled(c, Stream!Chunk(k, id, args)), b, p + 1)
<1>1. PICK old \in Seq(Nat \X Nat) : old = c.args /\ c.id \in Nat /\ c.id \in {0, reply[b].id}
  BY DEF Holds, StreamCall
<1>2. /\ \A n \in 1 .. Len(old) : old[n][1] = b /\ old[n][2] < p
      /\ \A n \in 2 .. Len(old) : old[n - 1][2] < old[n][2]
  BY <1>1 DEF Holds
<1>b. b \in Nat /\ reply[b].id \in Nat
  <2>1. b \in 1 .. Len(reply) /\ reply[b] \in StreamBlock
    BY DEF BlocksInv
  <2> QED
    BY <2>1 DEF StreamBlock
<1>3. CASE id = 0 /\ args = << <<b, p>> >>
  <2>a. <<b, p>> \in Nat \X Nat
    BY <1>b
  <2>0. PICK q \in Nat \X Nat : q = <<b, p>> /\ q[1] = b /\ q[2] = p
    BY <2>a
  <2>b. Append(old, q) \in Seq(Nat \X Nat)
    OBVIOUS
  <2>1. PICK new \in Seq(Nat \X Nat) : new = Append(old, q)
    BY <2>b
  <2>2. Stream!Filled(c, Stream!Chunk(k, id, args)) = [id |-> c.id, args |-> new]
    <3>1. old \o << q >> = Append(old, q)
      OBVIOUS
    <3>2. args = << q >> /\ c.args \o args = new
      BY <1>1, <1>3, <2>0, <2>1, <3>1
    <3>3. Stream!Newer(c.id, id) = c.id
      BY <1>1, <1>3 DEF Stream!Newer
    <3> QED
      BY <3>2, <3>3 DEF Stream!Filled, Stream!Chunk
  <2>c. Len(old) \in Nat
    OBVIOUS
  <2>l. PICK len \in Nat : len = Len(old)
    BY <2>c
  <2>3. Len(new) = len + 1 /\ new[len + 1] = q /\ \A n \in 1 .. len : new[n] = old[n]
    BY <2>1, <2>l
  <2>4. \A n \in 1 .. Len(new) : new[n][1] = b /\ new[n][2] < p + 1
    <3>1. ASSUME NEW n \in 1 .. Len(new) PROVE new[n][1] = b /\ new[n][2] < p + 1
      <4>1. CASE n = len + 1
        BY <2>0, <2>3, <4>1
      <4>2. CASE n # len + 1
        <5>1. n \in 1 .. len /\ new[n] = old[n]
          BY <2>3, <4>2
        <5>2. old[n] \in Nat \X Nat
          BY <2>l, <5>1
        <5> QED
          BY <1>2, <2>l, <5>1, <5>2
      <4> QED
        BY <4>1, <4>2
    <3> QED
      BY <3>1
  <2>5. \A n \in 2 .. Len(new) : new[n - 1][2] < new[n][2]
    <3>1. ASSUME NEW n \in 2 .. Len(new) PROVE new[n - 1][2] < new[n][2]
      <4>0. n - 1 \in 1 .. len /\ new[n - 1] = old[n - 1]
        BY <2>3
      <4>1. CASE n = len + 1
        BY <1>2, <2>0, <2>l, <2>3, <4>0, <4>1
      <4>2. CASE n # len + 1
        <5>1. n \in 2 .. len /\ new[n] = old[n]
          BY <2>3, <4>2
        <5> QED
          BY <1>2, <2>l, <4>0, <5>1
      <4> QED
        BY <4>1, <4>2
    <3> QED
      BY <3>1
  <2>d. [id |-> c.id, args |-> new] \in StreamCall
    BY <1>1 DEF StreamCall
  <2>6. PICK d \in StreamCall : d = [id |-> c.id, args |-> new] /\ d.id = c.id /\ d.args = new
    BY <2>d
  <2> QED
    BY <1>1, <2>2, <2>4, <2>5, <2>6 DEF Holds
<1>4. CASE p = 0 /\ id = reply[b].id /\ args = << >>
  <2>1. old = << >>
    <3>1. ASSUME NEW n \in 1 .. Len(old) PROVE FALSE
      <4>1. old[n] \in Nat \X Nat /\ old[n][2] < 0
        BY <1>2, <1>4, <3>1
      <4> QED
        BY <4>1
    <3> QED
      BY <3>1
  <2>2. old \o args = << >>
    BY <1>4, <2>1
  <2>3. Stream!Filled(c, Stream!Chunk(k, id, args)) = [id |-> Stream!Newer(c.id, id), args |-> << >>]
    BY <1>1, <2>2 DEF Stream!Filled, Stream!Chunk
  <2>4. Stream!Newer(c.id, id) \in Nat /\ Stream!Newer(c.id, id) \in {0, reply[b].id}
    BY <1>1, <1>4, <1>b DEF Stream!Newer
  <2>5. << >> \in Seq(Nat \X Nat) /\ Len(<< >>) = 0
    OBVIOUS
  <2>d. [id |-> Stream!Newer(c.id, id), args |-> << >>] \in StreamCall
    BY <2>4, <2>5 DEF StreamCall
  <2>6. PICK d \in StreamCall : /\ d = [id |-> Stream!Newer(c.id, id), args |-> << >>]
                                 /\ d.id = Stream!Newer(c.id, id) /\ d.args = << >>
    BY <2>d
  <2> QED
    BY <2>3, <2>4, <2>5, <2>6 DEF Holds
<1> QED
  BY <1>3, <1>4

LEMMA FilledCompletes ==
  ASSUME BlocksInv, NEW b \in DOMAIN reply, NEW p \in Nat, NEW k, NEW c, NEW id, NEW args,
         Holds(c, b, p), reply[b].id # 0,
         \/ (p # 0 /\ id = 0 /\ args = << <<b, p>> >> /\ Complete(c, b, p))
         \/ (p = 0 /\ id = reply[b].id /\ args = << >>)
  PROVE  Complete(Stream!Filled(c, Stream!Chunk(k, id, args)), b, p + 1)
<1> DEFINE d == Stream!Filled(c, Stream!Chunk(k, id, args))
<1>1. Holds(d, b, p + 1)
  <2>1. (id = 0 /\ args = << <<b, p>> >>) \/ (p = 0 /\ id = reply[b].id /\ args = << >>)
    OBVIOUS
  <2> QED
    BY <2>1, FilledHolds
<1>2. d.id = Stream!Newer(c.id, id) /\ d.args = c.args \o args
  BY DEF Stream!Filled, Stream!Chunk
<1>3. c.args \in Seq(Nat \X Nat) /\ d.args \in Seq(Nat \X Nat) /\ d \in StreamCall
      /\ c.id \in {0, reply[b].id}
  BY <1>1 DEF Holds, StreamCall
<1>4. reply[b].id \in Nat /\ b \in Nat
  <2>1. b \in 1 .. Len(reply) /\ reply[b] \in StreamBlock
    BY DEF BlocksInv
  <2> QED
    BY <2>1 DEF StreamBlock
<1> HIDE DEF d
<1>5. CASE p # 0 /\ id = 0 /\ args = << <<b, p>> >> /\ Complete(c, b, p)
  <2>1. c.id = reply[b].id /\ Len(c.args) = p - 1 /\ \A n \in 1 .. p - 1 : c.args[n] = <<b, n>>
    BY <1>5 DEF Complete
  <2>2. d.id = reply[b].id
    BY <1>2, <1>5, <2>1 DEF Stream!Newer
  <2>3. PICK old \in Seq(Nat \X Nat) : old = c.args
    BY <1>3
  <2>4. <<b, p>> \in Nat \X Nat
    BY <1>4
  <2>5. PICK q \in Nat \X Nat : q = <<b, p>>
    BY <2>4
  <2>6. old \o << q >> = Append(old, q)
    OBVIOUS
  <2>7. d.args = Append(old, q) /\ Len(old) = p - 1 /\ \A n \in 1 .. p - 1 : old[n] = <<b, n>>
    BY <1>2, <1>5, <2>1, <2>3, <2>5, <2>6
  <2>8. Len(d.args) = p /\ d.args[p] = q /\ \A n \in 1 .. p - 1 : d.args[n] = old[n]
    BY <1>5, <2>7
  <2>9. \A n \in 1 .. Len(d.args) : d.args[n] = <<b, n>>
    <3>1. ASSUME NEW n \in 1 .. p PROVE d.args[n] = <<b, n>>
      <4>1. CASE n = p
        BY <2>5, <2>8, <4>1
      <4>2. CASE n # p
        <5>1. n \in 1 .. p - 1
          BY <4>2
        <5> QED
          BY <2>7, <2>8, <5>1
      <4> QED
        BY <4>1, <4>2
    <3> QED
      BY <2>8, <3>1
  <2> QED
    BY <1>3, <2>2, <2>8, <2>9 DEF Complete, d
<1>6. CASE p = 0 /\ id = reply[b].id /\ args = << >>
  <2>1. d.id = reply[b].id
    BY <1>2, <1>3, <1>4, <1>6 DEF Stream!Newer
  <2>2. Len(d.args) = 0
    <3>2. \A n \in 1 .. Len(c.args) : c.args[n] \in Nat \X Nat /\ c.args[n][2] < 0
      BY <1>3, <1>6 DEF Holds
    <3>3. \A n \in 1 .. Len(c.args) : FALSE
      <4>1. ASSUME NEW n \in 1 .. Len(c.args) PROVE FALSE
        <5>1. PICK q \in Nat \X Nat : q = c.args[n] /\ q[2] < 0
          BY <3>2
        <5> QED
          BY <5>1
      <4> QED
        BY <4>1
    <3>4. c.args = << >>
      BY <1>3, <3>3
    <3> QED
      BY <1>2, <1>6, <3>4
  <2> QED
    BY <1>3, <1>6, <2>1, <2>2 DEF Complete, d
<1> QED
  BY <1>5, <1>6 DEF d

(* What a line does ----------------------------------------------------------*)
\* A line at the head or at the end, or the next of a block.
HeadLine(l) ==
  /\ l = [block |-> 0, part |-> 1] /\ ~wire.lead
  /\ Stream!Sent(l) = [wire EXCEPT !.lead = TRUE, !.trail = 0, !.half = Stream!NoLine]
TailLine(l) ==
  /\ l = [block |-> 0, part |-> wire.trail + 2] /\ wire.lead /\ wire.trail < 2
  /\ Stream!Sent(l) = [wire EXCEPT !.lead = TRUE, !.trail = wire.trail + 1, !.half = Stream!NoLine]
BlockLine(l, b) ==
  /\ l = [block |-> b, part |-> wire.at[b]] /\ wire.lead /\ wire.at[b] <= Pieces
  /\ Stream!Sent(l) = [wire EXCEPT !.at[b] = @ + 1, !.half = Stream!NoLine]

LEMMA LineKinds ==
  ASSUME BlocksInv, WireInv, NEW l \in Stream!NextLines
  PROVE  HeadLine(l) \/ TailLine(l) \/ \E b \in DOMAIN reply : BlockLine(l, b)
<1>0. wire.trail \in Nat
  BY DEF WireInv
<1>s. ASSUME NEW t, l.block = 0, l.part - 1 = t
      PROVE  Stream!Sent(l) = [wire EXCEPT !.lead = TRUE, !.trail = t, !.half = Stream!NoLine]
  <2>1. ~(l.block > 0)
    BY <1>s
  <2> QED
    BY <1>s, <2>1 DEF Stream!Sent
<1>1. CASE ~wire.lead
  <2>1. l = [block |-> 0, part |-> 1]
    BY <1>1 DEF Stream!NextLines
  <2>2. l.block = 0 /\ l.part - 1 = 0
    BY <2>1
  <2> QED
    BY <1>s, <1>1, <2>1, <2>2 DEF HeadLine
<1>2. CASE wire.lead /\ Stream!AllSent
  <2>1. l = [block |-> 0, part |-> wire.trail + 2] /\ wire.trail < 2
    BY <1>2 DEF Stream!NextLines
  <2>2. l.block = 0 /\ l.part - 1 = wire.trail + 1
    BY <1>0, <2>1
  <2> QED
    BY <1>s, <1>2, <2>1, <2>2 DEF TailLine
<1>3. CASE wire.lead /\ ~Stream!AllSent
  <2>1. PICK b \in DOMAIN reply : l = [block |-> b, part |-> wire.at[b]] /\ wire.at[b] <= Pieces
    BY <1>3 DEF Stream!NextLines, Stream!Due
  <2>2. b > 0
    BY DEF BlocksInv
  <2> QED
    BY <1>3, <2>1, <2>2 DEF Stream!Sent, BlockLine
<1> QED
  BY <1>1, <1>2, <1>3

\* What depends on the request, the blocks, the lines sent, the decoder and the aggregator
\* stays with them.
SameLines == wire'.at = wire.at /\ wire'.lead = wire.lead /\ wire'.trail = wire.trail
LEMMA NextLinesStay ==
  ASSUME reply' = reply, ask'.protocol = ask.protocol, SameLines
  PROVE  Stream!NextLines' = Stream!NextLines
BY DEF SameLines, Stream!NextLines, Stream!AllSent, Stream!Due

LEMMA StreamStays ==
  ASSUME ReplyInv, AskInv', WireInv', EndInv', reply' = reply, ask'.protocol = ask.protocol, SameLines,
         line' = line, agg' = agg,
         faults' = [damaged |-> faults'.damaged, cut |-> faults'.cut], faults'.damaged \in Nat,
         faults'.damaged = 0 => faults.damaged = 0
  PROVE  ReplyInv'
<1>1. BlocksInv' /\ DecoderInv'
  BY DEF ReplyInv, BlocksInv, DecoderInv, SameLines
<1>2. \A b, k : Owns(b, k)' = Owns(b, k)
  BY DEF Owns, Stream!ToolsBefore
<1>3. \A c, b, at : Holds(c, b, at)' = Holds(c, b, at) /\ Complete(c, b, at)' = Complete(c, b, at)
  BY DEF Holds, Complete
<1>4. CallsInv'
  BY <1>2, <1>3 DEF ReplyInv, CallsInv, SameLines
<1>5. ExactLine' = ExactLine /\ ExactUsage' = ExactUsage
  BY DEF ExactLine, ExactUsage, SameLines
<1>6. ExactCalls' = ExactCalls
  BY <1>2, <1>3 DEF ExactCalls, SameLines
<1>7. ExactText' = ExactText
  BY DEF ExactText, SentText, SameLines
<1>8. ExactInv'
  BY <1>5, <1>6, <1>7 DEF ReplyInv, ExactInv, SameLines
<1> QED
  BY <1>1, <1>4, <1>8 DEF ReplyInv

(* The request ---------------------------------------------------------------*)
FreshStream ==
  /\ wire = Stream!NoLines /\ line = Stream!Decoder /\ agg = Stream!Aggregator
  /\ faults = [damaged |-> 0, cut |-> FALSE] /\ ask.step # "ended"

LEMMA FreshIs == StreamLimits /\ AskInv /\ BlocksInv /\ FreshStream => ReplyInv
<1> SUFFICES ASSUME StreamLimits, AskInv, BlocksInv, FreshStream PROVE ReplyInv
  OBVIOUS
<1>1. wire.lead = FALSE /\ wire.trail = 0 /\ wire.half = Stream!NoLine /\ \A b \in DOMAIN reply : wire.at[b] = 0
  BY DEF FreshStream, Stream!NoLines
<1>2. WireInv
  BY DEF FreshStream, Stream!NoLines, Stream!NoLine, WireInv, StreamLimits
<1>3. line.map = << >> /\ line.next = 0 /\ line.input = FALSE /\ line.output = FALSE
      /\ line = [map |-> line.map, next |-> line.next, input |-> line.input, output |-> line.output]
  BY DEF FreshStream, Stream!Decoder
<1>4. DecoderInv
  BY <1>3 DEF DecoderInv
<1>5. /\ agg = [calls |-> agg.calls, text |-> agg.text, usage |-> agg.usage]
      /\ agg.calls = << >> /\ agg.text = << >> /\ agg.usage = Stream!NoUsage
  BY DEF FreshStream, Stream!Aggregator
<1>6. CallsInv
  BY <1>5 DEF CallsInv
<1>7. ExactLine /\ ExactCalls
  <2>1. ~line.input /\ ~wire.lead /\ ~line.output /\ ~(wire.trail > 0)
    BY <1>1, <1>3
  <2>2. \A b \in DOMAIN reply : ~(wire.at[b] > 0)
    BY <1>1
  <2> QED
    BY <2>1, <2>2 DEF ExactLine, ExactCalls
<1>8. ExactText
  BY <1>1, <1>5 DEF ExactText, SentText
<1>9. ExactUsage
  BY <1>1, <1>5 DEF ExactUsage
<1>10. ExactInv
  BY <1>1, <1>7, <1>8, <1>9 DEF ExactInv, FreshStream
<1>11. EndInv
  BY DEF EndInv, FreshStream
<1> QED
  BY <1>2, <1>4, <1>6, <1>10, <1>11 DEF ReplyInv

LEMMA RepliesApart == ASSUME StreamLimits, NEW r \in Stream!Replies
  PROVE  r \in Seq(StreamBlock) /\ \A b, c \in DOMAIN r : b # c /\ r[b].id # 0 => r[b].id # r[c].id
<1>1. PICK n \in 0 .. MaxBlocks :
        r \in [1 .. n -> {Stream!Text} \cup {Stream!Tool(id) : id \in CallIds \cup {0}}]
  BY DEF Stream!Replies
<1>2. Stream!Text \in StreamBlock
  BY DEF Stream!Text, StreamBlock
<1>3. ASSUME NEW id \in CallIds \cup {0} PROVE Stream!Tool(id) \in StreamBlock
  BY DEF Stream!Tool, StreamBlock, StreamLimits
<1>4. r \in [1 .. n -> StreamBlock]
  BY <1>1, <1>2, <1>3
<1>5. n \in Nat
  BY DEF StreamLimits
<1>6. r \in Seq(StreamBlock)
  BY <1>4, <1>5
<1> QED
  BY <1>6 DEF Stream!Replies

LEMMA StreamInit == ASSUME StreamLimits, Stream!Init PROVE ReplyInv
<1>1. AskInv /\ ask.step # "ended"
  BY DEF Stream!Init, AskInv, Stream!Steps
<1>2. BlocksInv
  BY RepliesApart DEF Stream!Init, BlocksInv
<1> QED
  BY <1>1, <1>2, FreshIs DEF Stream!Init, FreshStream

LEMMA StalledKeeps == ASSUME StreamLimits, ReplyInv, Stream!Stalled PROVE ReplyInv'
<1>1. AskInv' /\ ask'.protocol = ask.protocol /\ ask'.step # "ended" /\ reply' = reply
  BY DEF ReplyInv, Stream!Stalled, AskInv, Stream!Steps
<1>2. CASE ask.retries < MaxRetries
  <2>1. BlocksInv' /\ FreshStream'
    BY <1>1, <1>2 DEF ReplyInv, Stream!Stalled, FreshStream, BlocksInv, Stream!NoLines, Stream!Decoder,
         Stream!Aggregator
  <2>2. (StreamLimits /\ AskInv /\ BlocksInv /\ FreshStream => ReplyInv)'
    BY FreshIs, PTL
  <2>3. StreamLimits'
    BY DEF StreamLimits
  <2> QED
    BY <1>1, <2>1, <2>2, <2>3
<1>3. CASE ~(ask.retries < MaxRetries)
  <2>1. wire' = wire /\ line' = line /\ agg' = agg /\ faults' = faults
    BY <1>3 DEF Stream!Stalled
  <2>2. SameLines
    BY <2>1 DEF SameLines
  <2>3. WireInv' /\ EndInv'
    BY <1>1, <2>1, <2>2, NextLinesStay DEF ReplyInv, WireInv, EndInv, Stream!NoLine
  <2> QED
    BY <1>1, <2>1, <2>2, <2>3, StreamStays DEF ReplyInv, ExactInv
<1> QED
  BY <1>2, <1>3

\* Steps of the request alone.
LEMMA AskKeeps ==
  ASSUME ReplyInv, Stream!ReplyRefused \/ Stream!Accepted \/ Stream!ReadFails \/ Stream!ErrorSent
  PROVE  ReplyInv'
<1>1. AskInv' /\ ask'.protocol = ask.protocol /\ ask'.step # "ended"
  BY DEF ReplyInv, Stream!ReplyRefused, Stream!Accepted, Stream!ReadFails, Stream!ErrorSent, AskInv, Stream!Steps
<1>2. wire' = wire /\ line' = line /\ agg' = agg /\ reply' = reply
  BY DEF Stream!ReplyRefused, Stream!Accepted, Stream!ReadFails, Stream!ErrorSent
<1>3. faults' = faults \/ faults' = [faults EXCEPT !.cut = TRUE]
  BY DEF Stream!ReplyRefused, Stream!Accepted, Stream!ReadFails, Stream!ErrorSent
<1>4. faults' = [damaged |-> faults'.damaged, cut |-> faults'.cut] /\ faults'.damaged = faults.damaged
  BY <1>3 DEF ReplyInv, ExactInv
<1>5. SameLines
  BY <1>2 DEF SameLines
<1>6. WireInv' /\ EndInv'
  BY <1>1, <1>2, <1>5, NextLinesStay DEF ReplyInv, WireInv, EndInv, Stream!NoLine
<1> QED
  BY <1>1, <1>2, <1>4, <1>5, <1>6, StreamStays DEF ReplyInv, ExactInv

LEMMA HalfKeeps == ASSUME ReplyInv, NEW l, Stream!Half(l) PROVE ReplyInv'
<1>1. /\ ask' = ask /\ reply' = reply /\ line' = line /\ agg' = agg /\ faults' = faults
      /\ l \in Stream!NextLines /\ wire' = [wire EXCEPT !.half = l]
  BY DEF Stream!Half
<1>2. SameLines
  BY <1>1 DEF SameLines
<1>3. l \in [block : Nat, part : Nat]
  <2>1. wire \in [lead : BOOLEAN, at : [DOMAIN reply -> Nat], trail : Nat, half : [block : Nat, part : Nat]]
        /\ BlocksInv /\ WireInv
    BY DEF ReplyInv, WireInv
  <2>2. HeadLine(l) \/ TailLine(l) \/ \E b \in DOMAIN reply : BlockLine(l, b)
    BY <1>1, <2>1, LineKinds
  <2>3. ASSUME NEW b \in DOMAIN reply PROVE b \in Nat /\ wire.at[b] \in Nat
    BY <2>1 DEF BlocksInv
  <2>4. CASE HeadLine(l) \/ TailLine(l)
    BY <2>1, <2>4 DEF HeadLine, TailLine
  <2>5. CASE \E b \in DOMAIN reply : BlockLine(l, b)
    BY <2>3, <2>5 DEF BlockLine
  <2> QED
    BY <2>2, <2>4, <2>5
<1>4. Stream!NextLines' = Stream!NextLines
  BY <1>1, <1>2, NextLinesStay
<1>5. WireInv' /\ EndInv' /\ AskInv'
  BY <1>1, <1>3, <1>4 DEF ReplyInv, WireInv, EndInv, AskInv
<1> QED
  BY <1>1, <1>2, <1>5, StreamStays DEF ReplyInv, ExactInv

LEMMA EndsKeeps == ASSUME ReplyInv, Stream!Ends PROVE ReplyInv'
<1>1. /\ ask' = [ask EXCEPT !.step = "ended"] /\ reply' = reply /\ wire' = wire /\ line' = line /\ agg' = agg
      /\ faults' = [faults EXCEPT !.cut = @ \/ Stream!NextLines # {}]
  BY DEF Stream!Ends
<1>2. SameLines /\ AskInv' /\ ask'.protocol = ask.protocol
  BY <1>1 DEF SameLines, ReplyInv, AskInv, Stream!Steps
<1>3. Stream!NextLines' = Stream!NextLines
  BY <1>1, <1>2, NextLinesStay
<1>4. /\ faults' = [damaged |-> faults'.damaged, cut |-> faults'.cut] /\ faults'.damaged = faults.damaged
      /\ faults'.cut = (faults.cut \/ Stream!NextLines # {})
  BY <1>1 DEF ReplyInv, ExactInv
<1>5. WireInv' /\ EndInv'
  BY <1>1, <1>3, <1>4 DEF ReplyInv, WireInv, EndInv, Stream!NoLine
<1> QED
  BY <1>1, <1>2, <1>4, <1>5, StreamStays DEF ReplyInv, ExactInv

(* A line of a block -----------------------------------------------------------*)
\* Line p of block b has come, and its call, if it has one, is now d, under the number k.
Advance(b) ==
  /\ ask' = ask /\ reply' = reply /\ wire'.lead = wire.lead /\ wire'.trail = wire.trail
  /\ wire'.at = [wire.at EXCEPT ![b] = @ + 1]
Enters(k, d) ==
  agg' = [agg EXCEPT !.calls = Stream!With(@, k, d)]
OwnersStay == \A c \in DOMAIN reply : \A k : Owns(c, k) => Owns(c, k)'

LEMMA HoldsOn ==
  ASSUME NEW c, NEW b, NEW at \in Nat, Holds(c, b, at) PROVE Holds(c, b, at + 1)
<1>1. c.args \in Seq(Nat \X Nat)
  BY DEF Holds, StreamCall
<1>2. ASSUME NEW n \in 1 .. Len(c.args) PROVE c.args[n][1] = b /\ c.args[n][2] < at + 1
  <2>1. c.args[n] \in Nat \X Nat
    BY <1>1
  <2>2. c.args[n][1] = b /\ c.args[n][2] < at
    BY DEF Holds
  <2> QED
    BY <2>1, <2>2
<1> QED
  BY <1>2 DEF Holds

LEMMA AdvanceAt ==
  ASSUME NEW b \in DOMAIN reply, Advance(b), wire.at \in [DOMAIN reply -> Nat]
  PROVE  /\ \A c \in DOMAIN reply : wire.at[c] \in Nat
         /\ wire'.at[b] = wire.at[b] + 1
         /\ \A c \in DOMAIN reply : c # b => wire'.at[c] = wire.at[c]
BY DEF Advance

LEMMA CallsMove ==
  ASSUME CallsInv, NEW b \in DOMAIN reply, Advance(b), wire.at \in [DOMAIN reply -> Nat], OwnersStay,
         \/ agg'.calls = agg.calls /\ agg' = [calls |-> agg'.calls, text |-> agg'.text, usage |-> agg'.usage]
         \/ \E k, d : Enters(k, d) /\ Owns(b, k)' /\ Holds(d, b, wire.at[b] + 1)
  PROVE  CallsInv'
<1>1. \A c \in DOMAIN reply : wire'.at[c] \in {wire.at[c], wire.at[c] + 1} /\ wire.at[c] \in Nat
  BY AdvanceAt
<1>2. ASSUME NEW k \in DOMAIN agg.calls
      PROVE  \E c \in DOMAIN reply : Owns(c, k)' /\ Holds(agg.calls[k], c, wire'.at[c])
  <2>1. PICK c \in DOMAIN reply : Owns(c, k) /\ Holds(agg.calls[k], c, wire.at[c])
    BY DEF CallsInv
  <2>2. Owns(c, k)'
    BY <2>1 DEF OwnersStay
  <2>3. Holds(agg.calls[k], c, wire'.at[c])
    BY <1>1, <2>1, HoldsOn
  <2> QED
    BY <2>2, <2>3
<1>3. \A c, d, at : Holds(c, d, at)' = Holds(c, d, at)
  BY DEF Holds, Advance
<1>4. DOMAIN reply' = DOMAIN reply
  BY DEF Advance
<1>5. CASE agg'.calls = agg.calls /\ agg' = [calls |-> agg'.calls, text |-> agg'.text, usage |-> agg'.usage]
  BY <1>2, <1>3, <1>4, <1>5 DEF CallsInv
<1>6. ASSUME NEW k, NEW d, Enters(k, d), Owns(b, k)', Holds(d, b, wire.at[b] + 1) PROVE CallsInv'
  <2>1. agg' = [calls |-> agg'.calls, text |-> agg'.text, usage |-> agg'.usage]
        /\ agg'.calls = Stream!With(agg.calls, k, d)
    BY <1>6 DEF Enters, CallsInv
  <2>2. ASSUME NEW j \in DOMAIN agg'.calls
        PROVE  \E c \in DOMAIN reply : Owns(c, j)' /\ Holds(agg'.calls[j], c, wire'.at[c])
    <3>1. CASE j = k
      <4>1. agg'.calls[j] = d
        BY <2>1, <2>2, <3>1 DEF Stream!With
      <4> QED
        BY <1>6, <3>1, <4>1, AdvanceAt
    <3>2. CASE j # k
      <4>1. j \in DOMAIN agg.calls /\ agg'.calls[j] = agg.calls[j]
        BY <2>1, <2>2, <3>2 DEF Stream!With
      <4> QED
        BY <1>2, <4>1
    <3> QED
      BY <3>1, <3>2
  <2> QED
    BY <1>3, <1>4, <2>1, <2>2 DEF CallsInv
<1> QED
  BY <1>5, <1>6

LEMMA ExactCallsMove ==
  ASSUME ExactCalls, NEW b \in DOMAIN reply, Advance(b), wire.at \in [DOMAIN reply -> Nat], OwnersStay,
         OwnersApart',
         \/ agg'.calls = agg.calls /\ ~(reply[b].tool /\ reply[b].id # 0)
         \/ \E k, d : /\ Enters(k, d) /\ agg = [calls |-> agg.calls, text |-> agg.text, usage |-> agg.usage]
                      /\ Owns(b, k)'
                      /\ reply[b].id # 0 => Complete(d, b, wire.at[b] + 1)
  PROVE  ExactCalls'
<1>1. \A c \in DOMAIN reply : c # b => wire'.at[c] = wire.at[c]
  BY AdvanceAt
<1>2. reply' = reply /\ wire'.at[b] = wire.at[b] + 1
  BY AdvanceAt DEF Advance
<1>3. \A c, d, at : Complete(c, d, at)' = Complete(c, d, at)
  BY <1>2 DEF Complete
<1>4. ASSUME NEW c \in DOMAIN reply, c # b, reply[c].tool, reply[c].id # 0, wire'.at[c] > 0
      PROVE  \E j \in DOMAIN agg.calls : /\ Owns(c, j)' /\ Complete(agg.calls[j], c, wire'.at[c])
  BY <1>1, <1>4 DEF ExactCalls, OwnersStay
<1>5. CASE agg'.calls = agg.calls /\ ~(reply[b].tool /\ reply[b].id # 0)
  BY <1>2, <1>3, <1>4, <1>5 DEF ExactCalls
<1>6. ASSUME NEW k, NEW d, Enters(k, d), Owns(b, k)', reply[b].id # 0 => Complete(d, b, wire.at[b] + 1),
             agg = [calls |-> agg.calls, text |-> agg.text, usage |-> agg.usage]
      PROVE  ExactCalls'
  <2>1. agg'.calls = Stream!With(agg.calls, k, d)
    BY <1>6 DEF Enters
  <2>2. k \in DOMAIN agg'.calls /\ agg'.calls[k] = d
        /\ \A j \in DOMAIN agg.calls : j \in DOMAIN agg'.calls /\ (j # k => agg'.calls[j] = agg.calls[j])
    BY <2>1 DEF Stream!With
  <2>3. ASSUME NEW c \in DOMAIN reply, reply[c].tool, reply[c].id # 0, wire'.at[c] > 0
        PROVE  \E j \in DOMAIN agg'.calls : Owns(c, j)' /\ Complete(agg'.calls[j], c, wire'.at[c])
    <3>1. CASE c = b
      BY <1>2, <1>6, <2>2, <2>3, <3>1
    <3>2. CASE c # b
      <4>1. PICK j \in DOMAIN agg.calls : /\ Owns(c, j)' /\ Complete(agg.calls[j], c, wire'.at[c])
        BY <1>4, <2>3, <3>2
      <4>2. j # k
        BY <1>2, <1>6, <3>2, <4>1 DEF OwnersApart
      <4> QED
        BY <2>2, <4>1, <4>2
    <3> QED
      BY <3>1, <3>2
  <2> QED
    BY <1>2, <1>3, <2>3 DEF ExactCalls
<1> QED
  BY <1>5, <1>6

LEMMA ExactTextMove ==
  ASSUME BlocksInv, ExactText, NEW b \in DOMAIN reply, Advance(b), wire.at \in [DOMAIN reply -> Nat],
         \/ agg'.text = agg.text /\ (reply[b].tool \/ wire.at[b] = 0)
         \/ agg'.text = Append(agg.text, <<b, wire.at[b]>>) /\ ~reply[b].tool /\ wire.at[b] # 0
  PROVE  ExactText'
<1>1. /\ reply' = reply /\ wire'.at[b] = wire.at[b] + 1 /\ \A c \in DOMAIN reply : wire.at[c] \in Nat
      /\ \A c \in DOMAIN reply : c # b => wire'.at[c] = wire.at[c]
  BY AdvanceAt DEF Advance
<1>2. ASSUME NEW c, NEW n
      PROVE  SentText(c, n)' <=> SentText(c, n)
                                 \/ (c = b /\ n = wire.at[b] /\ ~reply[b].tool /\ wire.at[b] # 0)
  <2>1. CASE c = b
    BY <1>1, <2>1 DEF SentText
  <2>2. CASE c # b
    BY <1>1, <2>2 DEF SentText
  <2> QED
    BY <2>1, <2>2
<1>3. CASE agg'.text = agg.text /\ (reply[b].tool \/ wire.at[b] = 0)
  BY <1>1, <1>2, <1>3 DEF ExactText
<1>4. CASE agg'.text = Append(agg.text, <<b, wire.at[b]>>) /\ ~reply[b].tool /\ wire.at[b] # 0
  <2>1. <<b, wire.at[b]>> \in Nat \X Nat
    BY <1>1 DEF BlocksInv
  <2>2. PICK q \in Nat \X Nat : q = <<b, wire.at[b]>> /\ q[1] = b /\ q[2] = wire.at[b]
    BY <2>1
  <2>3. PICK text \in Seq(Nat \X Nat) : text = agg.text
    BY DEF ExactText
  <2>a. Append(text, q) \in Seq(Nat \X Nat)
    OBVIOUS
  <2>4. PICK new \in Seq(Nat \X Nat) : new = Append(text, q)
    BY <2>a
  <2>5. DOMAIN new = DOMAIN text \cup {Len(text) + 1} /\ new[Len(text) + 1] = q
        /\ \A i \in DOMAIN text : new[i] = text[i]
    BY <2>4
  <2>6. \A i \in DOMAIN new : SentText(new[i][1], new[i][2])'
    BY <1>2, <1>4, <2>2, <2>3, <2>5 DEF ExactText
  <2>7. ASSUME NEW c \in DOMAIN reply, NEW n \in Nat, SentText(c, n)' PROVE \E i \in DOMAIN new : new[i] = <<c, n>>
    <3>1. CASE SentText(c, n)
      <4>1. PICK i \in DOMAIN text : text[i] = <<c, n>>
        BY <2>3, <2>7, <3>1 DEF ExactText
      <4> QED
        BY <2>5, <4>1
    <3>2. CASE ~SentText(c, n)
      <4>1. c = b /\ n = wire.at[b]
        BY <1>2, <2>7, <3>2
      <4>2. new[Len(text) + 1] = <<c, n>>
        BY <2>2, <2>5, <4>1
      <4> QED
        BY <2>5, <4>2
    <3> QED
      BY <3>1, <3>2
  <2>8. agg'.text = new /\ DOMAIN reply' = DOMAIN reply
    BY <1>1, <1>4, <2>2, <2>3, <2>4
  <2>9. (\A i \in DOMAIN agg.text : SentText(agg.text[i][1], agg.text[i][2]))'
    BY <2>6, <2>8 DEF SentText
  <2>10. \A c \in DOMAIN reply', n \in Nat : SentText(c, n)' => \E i \in DOMAIN agg'.text : agg'.text[i] = <<c, n>>
    BY <2>7, <2>8
  <2> HIDE DEF SentText
  <2> QED
    BY <2>8, <2>9, <2>10 DEF ExactText
<1> QED
  BY <1>3, <1>4

(* Decoding --------------------------------------------------------------------*)
LEMMA ProcessedIs ==
  ASSUME agg = [calls |-> agg.calls, text |-> agg.text, usage |-> agg.usage], NEW k, NEW id, NEW args,
         NEW piece, NEW usage
  PROVE  /\ Stream!Processed(Stream!Silence) = agg
         /\ Stream!Processed(Stream!Delta(piece)) = [agg EXCEPT !.text = Append(@, piece)]
         /\ Stream!Processed(Stream!Done(usage)) = [agg EXCEPT !.usage = Stream!Counted(@, usage)]
         /\ Stream!Processed(Stream!Chunk(k, id, args))
              = [agg EXCEPT !.calls =
                   Stream!With(@, k, Stream!Filled(Stream!Entry(@, k), Stream!Chunk(k, id, args)))]
<1>1. Stream!Processed(Stream!Silence) = agg
  BY DEF Stream!Processed, Stream!Silence
<1>2. Stream!Processed(Stream!Delta(piece)) = [agg EXCEPT !.text = Append(@, piece)]
  <2>1. Stream!Delta(piece).kind = "text" /\ Stream!Delta(piece).piece = piece
    BY DEF Stream!Delta
  <2> QED
    BY <2>1 DEF Stream!Processed
<1>3. Stream!Processed(Stream!Done(usage)) = [agg EXCEPT !.usage = Stream!Counted(@, usage)]
  <2>1. Stream!Done(usage).kind = "done" /\ Stream!Done(usage).usage = usage
    BY DEF Stream!Done
  <2> QED
    BY <2>1 DEF Stream!Processed
<1>4. Stream!Processed(Stream!Chunk(k, id, args))
        = [agg EXCEPT !.calls =
             Stream!With(@, k, Stream!Filled(Stream!Entry(@, k), Stream!Chunk(k, id, args)))]
  <2>1. Stream!Chunk(k, id, args).kind = "call" /\ Stream!Chunk(k, id, args).index = k
    BY DEF Stream!Chunk
  <2> QED
    BY <2>1 DEF Stream!Processed
<1> QED
  BY <1>1, <1>2, <1>3, <1>4

\* A line that is not one of a block changes neither calls nor text.
NoBlock ==
  /\ ask' = ask /\ reply' = reply /\ wire'.at = wire.at
  /\ agg' = [calls |-> agg.calls, text |-> agg.text, usage |-> agg'.usage]
  /\ line' = [map |-> line.map, next |-> line.next, input |-> line'.input, output |-> line'.output]
LEMMA NoBlockKeeps ==
  ASSUME ReplyInv, NoBlock
  PROVE  /\ BlocksInv' /\ DecoderInv' /\ CallsInv'
         /\ ExactCalls => ExactCalls'
         /\ ExactText => ExactText'
<1>1. /\ ask' = ask /\ reply' = reply /\ wire'.at = wire.at
      /\ agg'.calls = agg.calls /\ agg'.text = agg.text
      /\ agg' = [calls |-> agg'.calls, text |-> agg'.text, usage |-> agg'.usage]
      /\ line'.map = line.map /\ line'.next = line.next
      /\ line' = [map |-> line'.map, next |-> line'.next, input |-> line'.input, output |-> line'.output]
  BY DEF NoBlock
<1>2. BlocksInv' /\ DecoderInv'
  BY <1>1 DEF ReplyInv, BlocksInv, DecoderInv
<1>3. \A b, k : Owns(b, k)' <=> Owns(b, k)
  BY <1>1 DEF Owns, Stream!ToolsBefore
<1>4. \A c, b, at : (Holds(c, b, at)' <=> Holds(c, b, at)) /\ (Complete(c, b, at)' <=> Complete(c, b, at))
  BY <1>1 DEF Holds, Complete
<1>5. CallsInv'
  BY <1>1, <1>3, <1>4 DEF ReplyInv, CallsInv
<1>6. ExactCalls => ExactCalls'
  BY <1>1, <1>3, <1>4 DEF ExactCalls
<1>7. ExactText => ExactText'
  BY <1>1 DEF ExactText, SentText
<1> QED
  BY <1>2, <1>5, <1>6, <1>7

\* What Arrives does to the request, the wire, the decoder and the aggregator.
LEMMA ArrivesIs ==
  ASSUME ReplyInv, NEW l, NEW damaged, Stream!Arrives(l, damaged)
  PROVE  /\ l \in Stream!NextLines /\ wire' = Stream!Sent(l) /\ ask' = ask /\ reply' = reply
         /\ ask.step = "open" /\ AskInv' /\ BlocksInv' /\ EndInv'
         /\ faults' = [damaged |-> faults'.damaged, cut |-> faults'.cut] /\ faults'.damaged \in Nat
         /\ damaged => line' = line /\ agg' = agg /\ faults'.damaged # 0
         /\ ~damaged => faults' = faults
         /\ ~damaged /\ ask.protocol = "openai" =>
              line' = line /\ agg' = Stream!Processed(Stream!OpenAIEvent(l))
         /\ ~damaged /\ ask.protocol = "anthropic" =>
              line' = Stream!Learned(l) /\ agg' = Stream!Processed(Stream!AnthropicEvent(l))
<1>1. /\ wire' = Stream!Sent(l) /\ ask' = ask /\ reply' = reply /\ ask.step = "open"
      /\ l \in IF wire.half = Stream!NoLine THEN Stream!NextLines ELSE {wire.half}
  BY DEF Stream!Arrives
<1>2. l \in Stream!NextLines
  BY <1>1 DEF ReplyInv, WireInv
<1>3. faults = [damaged |-> faults.damaged, cut |-> faults.cut] /\ faults.damaged \in Nat
  BY DEF ReplyInv, ExactInv
<1>4. CASE damaged
  <2>1. line' = line /\ agg' = agg /\ faults' = [faults EXCEPT !.damaged = @ + 1]
    BY <1>4 DEF Stream!Arrives
  <2>2. faults' = [damaged |-> faults'.damaged, cut |-> faults'.cut] /\ faults'.damaged = faults.damaged + 1
    BY <1>3, <2>1
  <2>3. faults'.damaged \in Nat /\ faults'.damaged # 0
    BY <1>3, <2>2
  <2> QED
    BY <1>1, <1>2, <1>4, <2>1, <2>2, <2>3 DEF ReplyInv, AskInv, BlocksInv, EndInv
<1>5. CASE ~damaged
  <2>1. /\ faults' = faults
        /\ ask.protocol = "openai" => line' = line /\ agg' = Stream!Processed(Stream!OpenAIEvent(l))
        /\ ask.protocol = "anthropic" => line' = Stream!Learned(l) /\ agg' = Stream!Processed(Stream!AnthropicEvent(l))
    BY <1>5 DEF Stream!Arrives
  <2> QED
    BY <1>1, <1>2, <1>3, <1>5, <2>1 DEF ReplyInv, AskInv, BlocksInv, EndInv
<1> QED
  BY <1>4, <1>5

LEMMA HeadKeeps ==
  ASSUME ReplyInv, NEW l, NEW damaged, Stream!Arrives(l, damaged), HeadLine(l)
  PROVE  ReplyInv'
<1>0. wire \in [lead : BOOLEAN, at : [DOMAIN reply -> Nat], trail : Nat, half : [block : Nat, part : Nat]]
      /\ wire.trail = 0 /\ agg = [calls |-> agg.calls, text |-> agg.text, usage |-> agg.usage]
      /\ line = [map |-> line.map, next |-> line.next, input |-> line.input, output |-> line.output]
  BY DEF ReplyInv, WireInv, HeadLine, CallsInv, DecoderInv
<1>1. /\ wire' = [wire EXCEPT !.lead = TRUE, !.trail = 0, !.half = Stream!NoLine]
      /\ l = [block |-> 0, part |-> 1] /\ l.block = 0 /\ l.part = 1
  BY ArrivesIs DEF HeadLine
<1>2. wire'.lead = TRUE /\ wire'.trail = 0 /\ wire'.at = wire.at /\ wire'.half = Stream!NoLine
  BY <1>0, <1>1
<1>a. \A b \in DOMAIN reply : wire.at[b] \in 0 .. Pieces + 1
  BY DEF ReplyInv, WireInv
<1>3. WireInv'
  <2>1. wire' \in [lead : BOOLEAN, at : [DOMAIN reply -> Nat], trail : Nat, half : [block : Nat, part : Nat]]
    BY <1>0, <1>1 DEF Stream!NoLine
  <2> QED
    BY <1>2, <1>a, <2>1, ArrivesIs DEF WireInv, Stream!NoLine
<1>4. Stream!OpenAIEvent(l) = Stream!Silence /\ Stream!AnthropicEvent(l) = Stream!Silence
      /\ Stream!Learned(l) = [line EXCEPT !.input = TRUE]
  BY <1>1 DEF Stream!OpenAIEvent, Stream!AnthropicEvent, Stream!Learned
<1>5. Stream!Processed(Stream!Silence) = agg
  BY <1>0, ProcessedIs
<1>6. ask.protocol \in {"openai", "anthropic"}
  BY DEF ReplyInv, AskInv
<1>7. agg' = agg /\ (line' = line \/ line' = [line EXCEPT !.input = TRUE])
  BY <1>4, <1>5, <1>6, ArrivesIs
<1>8. NoBlock
  BY <1>0, <1>2, <1>7, ArrivesIs DEF NoBlock
<1>9. ASSUME faults'.damaged = 0 PROVE ExactLine' /\ ExactCalls' /\ ExactText' /\ ExactUsage'
  <2>1. ~damaged /\ faults' = faults
    BY <1>9, ArrivesIs
  <2>2. ExactLine /\ ExactCalls /\ ExactText /\ ExactUsage
    BY <1>9, <2>1 DEF ReplyInv, ExactInv
  <2>3. ask.protocol = "anthropic" => line'.input = TRUE /\ line'.output = line.output /\ line'.map = line.map
    BY <1>0, <1>4, <2>1, ArrivesIs
  <2>4. ExactLine'
    BY <1>0, <1>2, <2>2, <2>3, ArrivesIs DEF ExactLine
  <2>5. ExactUsage'
    BY <1>0, <1>2, <1>7, <2>2 DEF ExactUsage, Stream!Total, Stream!NoUsage, Stream!Usage
  <2> QED
    BY <1>8, <2>2, <2>4, <2>5, NoBlockKeeps
<1>10. ExactInv'
  BY <1>2, <1>9, ArrivesIs DEF ExactInv
<1> QED
  BY <1>3, <1>8, <1>10, ArrivesIs, NoBlockKeeps DEF ReplyInv

LEMMA TailKeeps ==
  ASSUME ReplyInv, NEW l, NEW damaged, Stream!Arrives(l, damaged), TailLine(l)
  PROVE  ReplyInv'
<1>0. wire \in [lead : BOOLEAN, at : [DOMAIN reply -> Nat], trail : Nat, half : [block : Nat, part : Nat]]
      /\ wire.trail \in 0 .. 1 /\ wire.lead /\ agg = [calls |-> agg.calls, text |-> agg.text, usage |-> agg.usage]
      /\ line = [map |-> line.map, next |-> line.next, input |-> line.input, output |-> line.output]
  BY DEF ReplyInv, WireInv, TailLine, CallsInv, DecoderInv
<1>1. /\ wire' = [wire EXCEPT !.lead = TRUE, !.trail = wire.trail + 1, !.half = Stream!NoLine]
      /\ l.block = 0 /\ l.part = wire.trail + 2
  BY ArrivesIs DEF TailLine
<1>2. wire'.lead = TRUE /\ wire'.trail = wire.trail + 1 /\ wire'.at = wire.at /\ wire'.half = Stream!NoLine
  BY <1>0, <1>1
<1>a. \A b \in DOMAIN reply : wire.at[b] \in 0 .. Pieces + 1
  BY DEF ReplyInv, WireInv
<1>3. WireInv' /\ wire'.trail \in 0 .. 2
  <2>1. wire'.trail \in Nat /\ wire'.trail \in 0 .. 2
    BY <1>0, <1>2
  <2>2. wire.trail + 1 \in Nat
    BY <1>0
  <2>3. wire' \in [lead : BOOLEAN, at : [DOMAIN reply -> Nat], trail : Nat, half : [block : Nat, part : Nat]]
    BY <1>0, <1>1, <2>2 DEF Stream!NoLine
  <2> QED
    BY <1>2, <1>a, <2>1, <2>3, ArrivesIs DEF WireInv, Stream!NoLine
<1>u. \A u : Stream!Processed(Stream!Done(u)) = [agg EXCEPT !.usage = Stream!Counted(@, u)]
  BY <1>0, ProcessedIs
<1>s. Stream!Processed(Stream!Silence) = agg
  BY <1>0, ProcessedIs
<1>4. ask.protocol \in {"openai", "anthropic"}
  BY DEF ReplyInv, AskInv
<1>5. CASE wire.trail = 0
  <2>1. Stream!OpenAIEvent(l) = Stream!Done(Stream!NoUsage) /\ Stream!AnthropicEvent(l) = Stream!Silence
        /\ Stream!Learned(l) = [line EXCEPT !.output = TRUE]
    BY <1>1, <1>5 DEF Stream!OpenAIEvent, Stream!AnthropicEvent, Stream!Learned
  <2>2. agg' = agg \/ agg' = [agg EXCEPT !.usage = Stream!Counted(@, Stream!NoUsage)]
    BY <1>u, <1>s, <1>4, <2>1, ArrivesIs
  <2>3. line' = line \/ line' = [line EXCEPT !.output = TRUE]
    BY <1>4, <2>1, ArrivesIs
  <2>4. NoBlock
    BY <1>0, <1>2, <2>2, <2>3, ArrivesIs DEF NoBlock
  <2>5. ASSUME faults'.damaged = 0 PROVE ExactLine' /\ ExactCalls' /\ ExactText' /\ ExactUsage'
    <3>1. ~damaged /\ faults' = faults
      BY <2>5, ArrivesIs
    <3>2. ExactLine /\ ExactCalls /\ ExactText /\ ExactUsage
      BY <2>5, <3>1 DEF ReplyInv, ExactInv
    <3>3. ask.protocol = "anthropic" => line'.output = TRUE /\ line'.input = line.input /\ line'.map = line.map
      BY <1>0, <2>1, <3>1, ArrivesIs
    <3>4. ExactLine'
      BY <1>0, <1>2, <1>5, <3>2, <3>3, ArrivesIs DEF ExactLine
    <3>5. agg.usage = Stream!NoUsage
      BY <1>5, <3>2 DEF ExactUsage
    <3>6. Stream!Counted(Stream!NoUsage, Stream!NoUsage) = Stream!NoUsage
      BY DEF Stream!Counted, Stream!NoUsage, Stream!Newer
    <3>7. agg'.usage = Stream!NoUsage
      BY <1>0, <2>2, <3>5, <3>6
    <3>8. ExactUsage'
      BY <1>2, <1>5, <3>7 DEF ExactUsage, Stream!NoUsage, Stream!Total, Stream!Usage
    <3> QED
      BY <2>4, <3>2, <3>4, <3>8, NoBlockKeeps
  <2>6. ExactInv'
    BY <1>3, <2>5, ArrivesIs DEF ExactInv
  <2> QED
    BY <1>3, <2>4, <2>6, ArrivesIs, NoBlockKeeps DEF ReplyInv
<1>6. CASE wire.trail = 1
  <2>1. Stream!OpenAIEvent(l) = Stream!Done(Stream!Total) /\ Stream!AnthropicEvent(l) = Stream!Done(Stream!Known)
        /\ Stream!Learned(l) = line
    BY <1>1, <1>6 DEF Stream!OpenAIEvent, Stream!AnthropicEvent, Stream!Learned
  <2>2. agg' = agg \/ \E u : agg' = [agg EXCEPT !.usage = Stream!Counted(@, u)]
    BY <1>u, <1>4, <2>1, ArrivesIs
  <2>3. line' = line
    BY <1>4, <2>1, ArrivesIs
  <2>4. NoBlock
    <3>1. agg' = [calls |-> agg.calls, text |-> agg.text, usage |-> agg'.usage]
      BY <1>0, <2>2
    <3> QED
      BY <1>0, <1>2, <2>3, <3>1, ArrivesIs DEF NoBlock
  <2>5. ASSUME faults'.damaged = 0 PROVE ExactLine' /\ ExactCalls' /\ ExactText' /\ ExactUsage'
    <3>1. ~damaged /\ faults' = faults
      BY <2>5, ArrivesIs
    <3>2. ExactLine /\ ExactCalls /\ ExactText /\ ExactUsage
      BY <2>5, <3>1 DEF ReplyInv, ExactInv
    <3>4. ExactLine'
      BY <1>0, <1>2, <1>6, <2>3, <3>2, ArrivesIs DEF ExactLine
    <3>5. agg.usage = Stream!NoUsage
      BY <1>6, <3>2 DEF ExactUsage
    <3>6. Stream!Counted(Stream!NoUsage, Stream!Total) = Stream!Total
      BY DEF Stream!Counted, Stream!NoUsage, Stream!Newer, Stream!Total, Stream!Usage
    <3>7. ask.protocol = "anthropic" => Stream!Known = Stream!Total
      BY <1>0, <1>6, <3>2 DEF ExactLine, Stream!Known, Stream!Total, Stream!Usage
    <3>9. agg' = [agg EXCEPT !.usage = Stream!Counted(@, Stream!Total)]
      BY <1>u, <1>4, <2>1, <3>1, <3>7, ArrivesIs
    <3>10. agg'.usage = Stream!Total
      BY <1>0, <3>5, <3>6, <3>9
    <3>8. ExactUsage'
      BY <1>2, <1>6, <3>10 DEF ExactUsage, Stream!Total, Stream!Usage
    <3> QED
      BY <2>4, <3>2, <3>4, <3>8, NoBlockKeeps
  <2>6. ExactInv'
    BY <1>3, <2>5, ArrivesIs DEF ExactInv
  <2> QED
    BY <1>3, <2>4, <2>6, ArrivesIs, NoBlockKeeps DEF ReplyInv
<1> QED
  BY <1>0, <1>5, <1>6

\* The decoder at a line of a block: a call that begins is given the next number.
Begins(b) ==
  /\ ask.protocol = "anthropic" /\ reply[b].tool /\ wire.at[b] = 0
  /\ line' = [line EXCEPT !.map = Stream!With(@, b, line.next), !.next = @ + 1]
LEMMA DecoderMoves ==
  ASSUME ReplyInv, NEW b \in DOMAIN reply, Advance(b), line' = line \/ Begins(b), AskInv', BlocksInv'
  PROVE  /\ DecoderInv' /\ OwnersStay /\ OwnersApart'
         /\ Begins(b) => \E k : k = line.next /\ Owns(b, k)'
<1>0. /\ wire.at \in [DOMAIN reply -> Nat] /\ line.next \in Nat
      /\ line = [map |-> line.map, next |-> line.next, input |-> line.input, output |-> line.output]
      /\ ask' = ask /\ reply' = reply
  BY DEF ReplyInv, WireInv, DecoderInv, Advance
<1>1. \A c \in DOMAIN reply : wire.at[c] > 0 => wire'.at[c] > 0
  BY <1>0, AdvanceAt
<1>2. wire'.at[b] > 0
  BY <1>0, AdvanceAt
<1>3. ASSUME line' = line PROVE DecoderInv' /\ OwnersStay
  <2>1. DecoderInv'
    BY <1>0, <1>1, <1>3 DEF ReplyInv, DecoderInv
  <2>2. OwnersStay
    BY <1>0, <1>3 DEF OwnersStay, Owns, Stream!ToolsBefore
  <2> QED
    BY <2>1, <2>2
<1>4. ASSUME Begins(b)
      PROVE  DecoderInv' /\ OwnersStay /\ \E k : k = line.next /\ Owns(b, k)'
  <2>1. b \notin DOMAIN line.map
    BY <1>4 DEF Begins, ReplyInv, DecoderInv
  <2>2. /\ line'.map = Stream!With(line.map, b, line.next) /\ line'.next = line.next + 1
        /\ line' = [map |-> line'.map, next |-> line'.next, input |-> line'.input, output |-> line'.output]
    BY <1>0, <1>4 DEF Begins
  <2>3. /\ DOMAIN line'.map = DOMAIN line.map \cup {b} /\ line'.map[b] = line.next
        /\ \A c \in DOMAIN line.map : line'.map[c] = line.map[c]
    BY <2>1, <2>2 DEF Stream!With
  <2>4. \A c \in DOMAIN line.map : /\ c \in DOMAIN reply /\ reply[c].tool /\ wire.at[c] > 0
                                    /\ line.map[c] \in Nat /\ line.map[c] < line.next
    BY DEF ReplyInv, DecoderInv
  <2>5. \A c \in DOMAIN line'.map : /\ c \in DOMAIN reply /\ reply[c].tool /\ wire'.at[c] > 0
                                     /\ line'.map[c] \in Nat /\ line'.map[c] < line'.next
    <3>1. ASSUME NEW c \in DOMAIN line.map
          PROVE  /\ c \in DOMAIN reply /\ reply[c].tool /\ wire'.at[c] > 0
                 /\ line'.map[c] \in Nat /\ line'.map[c] < line'.next
      BY <1>0, <1>1, <2>2, <2>3, <2>4
    <3>2. reply[b].tool /\ wire'.at[b] > 0 /\ line'.map[b] \in Nat /\ line'.map[b] < line'.next
      BY <1>0, <1>2, <1>4, <2>2, <2>3 DEF Begins
    <3> QED
      BY <2>3, <3>1, <3>2
  <2>6. \A c, d \in DOMAIN line'.map : line'.map[c] = line'.map[d] => c = d
    <3>1. \A c \in DOMAIN line.map : line'.map[c] # line'.map[b]
      BY <1>0, <2>3, <2>4
    <3>2. \A c, d \in DOMAIN line.map : line.map[c] = line.map[d] => c = d
      BY DEF ReplyInv, DecoderInv
    <3> QED
      BY <2>3, <3>1, <3>2
  <2>7. DecoderInv'
    BY <1>0, <2>2, <2>5, <2>6 DEF DecoderInv
  <2>8. OwnersStay
    BY <1>0, <2>3 DEF OwnersStay, Owns, Stream!ToolsBefore
  <2>9. \E k : k = line.next /\ Owns(b, k)'
    <3>1. PICK k \in Nat : k = line.next
      BY <1>0
    <3>2. Owns(b, k)'
      BY <1>0, <1>4, <2>3, <3>1 DEF Owns, Begins
    <3> QED
      BY <3>1, <3>2
  <2> QED
    BY <2>7, <2>8, <2>9
<1>5. (AskInv /\ BlocksInv /\ DecoderInv => OwnersApart)'
  BY OneOwner, PTL
<1>6. DecoderInv' /\ OwnersStay
  BY <1>3, <1>4
<1> QED
  BY <1>3, <1>4, <1>5, <1>6

\* What a line of a block makes of the aggregator: nothing, a piece of text, a part of a call.
Quiet(b) ==
  /\ agg' = agg
  /\ faults'.damaged = 0 => (reply[b].tool \/ wire.at[b] = 0) /\ ~(reply[b].tool /\ reply[b].id # 0)
Speaks(b) ==
  ~reply[b].tool /\ wire.at[b] # 0 /\ agg' = [agg EXCEPT !.text = Append(@, <<b, wire.at[b]>>)]
Calls(b, k, id, args) ==
  /\ reply[b].tool /\ Owns(b, k)' /\ Holds(Stream!Entry(agg.calls, k), b, wire.at[b])
  /\ agg' = [agg EXCEPT !.calls =
               Stream!With(@, k, Stream!Filled(Stream!Entry(@, k), Stream!Chunk(k, id, args)))]
  /\ \/ wire.at[b] # 0 /\ id = 0 /\ args = << <<b, wire.at[b]>> >>
     \/ wire.at[b] = 0 /\ id = reply[b].id /\ args = << >>
  /\ faults.damaged = 0 /\ wire.at[b] # 0 /\ reply[b].id # 0 =>
       Complete(Stream!Entry(agg.calls, k), b, wire.at[b])

LEMMA EntryComplete ==
  ASSUME ReplyInv, NEW b \in DOMAIN reply, reply[b].tool, reply[b].id # 0, wire.at[b] # 0,
         faults.damaged = 0, NEW k, Owns(b, k)
  PROVE  Complete(Stream!Entry(agg.calls, k), b, wire.at[b])
<1>1. wire.at[b] \in Nat
  BY DEF ReplyInv, WireInv
<1>2. PICK j \in DOMAIN agg.calls : Owns(b, j) /\ Complete(agg.calls[j], b, wire.at[b])
  BY <1>1 DEF ReplyInv, ExactInv, ExactCalls
<1>3. j = k
  BY <1>2 DEF Owns
<1> QED
  BY <1>2, <1>3 DEF Stream!Entry

LEMMA OpenAIKinds ==
  ASSUME ReplyInv, NEW b \in DOMAIN reply, NEW l, BlockLine(l, b), Advance(b), ask.protocol = "openai",
         agg' = Stream!Processed(Stream!OpenAIEvent(l))
  PROVE  Quiet(b) \/ Speaks(b) \/ \E k, id, args : Calls(b, k, id, args)
<1>0. /\ agg = [calls |-> agg.calls, text |-> agg.text, usage |-> agg.usage]
      /\ wire.at[b] \in Nat /\ b > 0 /\ AskInv /\ BlocksInv /\ DecoderInv /\ CallsInv
  BY DEF ReplyInv, WireInv, BlocksInv, CallsInv
<1>1. l.block = b /\ l.part = wire.at[b] /\ (l.part = 0 \/ l.part > 0)
  BY <1>0 DEF BlockLine
<1>2. CASE ~reply[b].tool /\ wire.at[b] = 0
  <2>1. Stream!OpenAIEvent(l) = Stream!Silence
    BY <1>0, <1>1, <1>2 DEF Stream!OpenAIEvent
  <2> QED
    BY <1>0, <1>2, <2>1, ProcessedIs DEF Quiet
<1>3. CASE ~reply[b].tool /\ wire.at[b] # 0
  <2>1. Stream!OpenAIEvent(l) = Stream!Delta(<<b, wire.at[b]>>)
    BY <1>0, <1>1, <1>3 DEF Stream!OpenAIEvent
  <2> QED
    BY <1>0, <1>3, <2>1, ProcessedIs DEF Speaks
<1>4. CASE reply[b].tool /\ wire.at[b] = 0 /\ reply[b].id = 0
  <2>1. Stream!OpenAIEvent(l) = Stream!Silence
    BY <1>0, <1>1, <1>4 DEF Stream!OpenAIEvent
  <2> QED
    BY <1>0, <1>4, <2>1, ProcessedIs DEF Quiet
<1>o. ASSUME reply[b].tool
      PROVE  /\ Owns(b, Stream!ToolsBefore(b)) /\ \E k : k = Stream!ToolsBefore(b) /\ Owns(b, k)'
             /\ Holds(Stream!Entry(agg.calls, Stream!ToolsBefore(b)), b, wire.at[b])
  <2>1. Owns(b, Stream!ToolsBefore(b))
    BY <1>o DEF Owns
  <2>2. PICK k : k = Stream!ToolsBefore(b)
    OBVIOUS
  <2>3. Owns(b, k)'
    BY <1>o, <2>2 DEF Owns, Advance, Stream!ToolsBefore
  <2> QED
    BY <1>0, <2>1, <2>2, <2>3, EntryHolds
<1>5. CASE reply[b].tool /\ wire.at[b] = 0 /\ reply[b].id # 0
  <2>1. Stream!OpenAIEvent(l) = Stream!Chunk(Stream!ToolsBefore(b), reply[b].id, << >>)
    BY <1>0, <1>1, <1>5 DEF Stream!OpenAIEvent
  <2>2. PICK k : k = Stream!ToolsBefore(b) /\ Owns(b, k)'
    BY <1>5, <1>o
  <2>3. agg' = [agg EXCEPT !.calls =
          Stream!With(@, k, Stream!Filled(Stream!Entry(@, k), Stream!Chunk(k, reply[b].id, << >>)))]
    BY <1>0, <2>1, <2>2, ProcessedIs
  <2>4. Calls(b, k, reply[b].id, << >>)
    BY <1>5, <1>o, <2>2, <2>3 DEF Calls
  <2> QED
    BY <2>4
<1>6. CASE reply[b].tool /\ wire.at[b] # 0
  <2>1. Stream!OpenAIEvent(l) = Stream!Chunk(Stream!ToolsBefore(b), 0, << <<b, wire.at[b]>> >>)
    BY <1>0, <1>1, <1>6 DEF Stream!OpenAIEvent
  <2>2. PICK k : k = Stream!ToolsBefore(b) /\ Owns(b, k)'
    BY <1>6, <1>o
  <2>3. agg' = [agg EXCEPT !.calls =
          Stream!With(@, k, Stream!Filled(Stream!Entry(@, k), Stream!Chunk(k, 0, << <<b, wire.at[b]>> >>)))]
    BY <1>0, <2>1, <2>2, ProcessedIs
  <2>5. faults.damaged = 0 /\ reply[b].id # 0 => Complete(Stream!Entry(agg.calls, k), b, wire.at[b])
    BY <1>6, <1>o, <2>2, EntryComplete
  <2>4. Calls(b, k, 0, << <<b, wire.at[b]>> >>)
    BY <1>6, <1>o, <2>2, <2>3, <2>5 DEF Calls
  <2> QED
    BY <2>4
<1> QED
  BY <1>2, <1>3, <1>4, <1>5, <1>6

LEMMA AnthropicKinds ==
  ASSUME ReplyInv, NEW b \in DOMAIN reply, NEW l, BlockLine(l, b), Advance(b), ask.protocol = "anthropic",
         agg' = Stream!Processed(Stream!AnthropicEvent(l)), line' = Stream!Learned(l), faults' = faults,
         AskInv', BlocksInv'
  PROVE  /\ Quiet(b) \/ Speaks(b) \/ \E k, id, args : Calls(b, k, id, args)
         /\ line' = line \/ Begins(b)
<1>0. /\ agg = [calls |-> agg.calls, text |-> agg.text, usage |-> agg.usage]
      /\ wire.at[b] \in Nat /\ b > 0 /\ AskInv /\ BlocksInv /\ DecoderInv /\ CallsInv
  BY DEF ReplyInv, WireInv, BlocksInv, CallsInv
<1>1. l.block = b /\ l.part = wire.at[b] /\ (l.part = 0 \/ l.part > 0)
  BY <1>0 DEF BlockLine
<1>2. CASE ~reply[b].tool /\ wire.at[b] = 0
  <2>1. Stream!AnthropicEvent(l) = Stream!Silence /\ Stream!Learned(l) = line
    BY <1>0, <1>1, <1>2 DEF Stream!AnthropicEvent, Stream!Learned
  <2> QED
    BY <1>0, <1>2, <2>1, ProcessedIs DEF Quiet
<1>3. CASE ~reply[b].tool /\ wire.at[b] # 0
  <2>1. Stream!AnthropicEvent(l) = Stream!Delta(<<b, wire.at[b]>>) /\ Stream!Learned(l) = line
    BY <1>0, <1>1, <1>3 DEF Stream!AnthropicEvent, Stream!Learned
  <2> QED
    BY <1>0, <1>3, <2>1, ProcessedIs DEF Speaks
<1>4. CASE reply[b].tool /\ wire.at[b] = 0
  <2>1. /\ Stream!AnthropicEvent(l) = Stream!Chunk(line.next, reply[b].id, << >>)
        /\ Stream!Learned(l) = [line EXCEPT !.map = Stream!With(@, b, line.next), !.next = @ + 1]
    BY <1>0, <1>1, <1>4 DEF Stream!AnthropicEvent, Stream!Learned
  <2>2. Begins(b)
    BY <1>4, <2>1 DEF Begins
  <2>3. PICK k : k = line.next /\ Owns(b, k)'
    BY <2>2, DecoderMoves
  <2>4. k \notin DOMAIN agg.calls
    <3>1. ASSUME k \in DOMAIN agg.calls PROVE FALSE
      <4>1. PICK c \in DOMAIN reply : Owns(c, k)
        BY <1>0, <3>1 DEF CallsInv
      <4>2. line.map[c] = line.next /\ line.map[c] \in Nat /\ line.map[c] < line.next /\ line.next \in Nat
        BY <1>0, <2>3, <4>1 DEF Owns, DecoderInv
      <4> QED
        BY <4>2
    <3> QED
      BY <3>1
  <2>5. Holds(Stream!Entry(agg.calls, k), b, wire.at[b])
    <3>1. << >> \in Seq(Nat \X Nat) /\ Len(<< >>) = 0
      OBVIOUS
    <3> QED
      BY <2>4, <3>1 DEF Stream!Entry, Stream!NoCall, Holds, StreamCall
  <2>6. agg' = [agg EXCEPT !.calls =
          Stream!With(@, k, Stream!Filled(Stream!Entry(@, k), Stream!Chunk(k, reply[b].id, << >>)))]
    BY <1>0, <2>1, <2>3, ProcessedIs
  <2>7. Calls(b, k, reply[b].id, << >>)
    BY <1>4, <2>3, <2>5, <2>6 DEF Calls
  <2> QED
    BY <2>2, <2>7
<1>5. CASE reply[b].tool /\ wire.at[b] # 0 /\ b \in DOMAIN line.map
  <2>1. /\ Stream!AnthropicEvent(l) = Stream!Chunk(line.map[b], 0, << <<b, wire.at[b]>> >>)
        /\ Stream!Learned(l) = line
    BY <1>0, <1>1, <1>5 DEF Stream!AnthropicEvent, Stream!Learned
  <2>2. PICK k : k = line.map[b]
    OBVIOUS
  <2>3. Owns(b, k)
    BY <1>5, <2>2 DEF Owns
  <2>4. Owns(b, k)' /\ Holds(Stream!Entry(agg.calls, k), b, wire.at[b])
    BY <1>0, <2>1, <2>3, DecoderMoves, EntryHolds DEF OwnersStay
  <2>5. faults.damaged = 0 /\ reply[b].id # 0 => Complete(Stream!Entry(agg.calls, k), b, wire.at[b])
    BY <1>5, <2>3, EntryComplete
  <2>6. agg' = [agg EXCEPT !.calls =
          Stream!With(@, k, Stream!Filled(Stream!Entry(@, k), Stream!Chunk(k, 0, << <<b, wire.at[b]>> >>)))]
    <3>1. agg' = Stream!Processed(Stream!Chunk(k, 0, << <<b, wire.at[b]>> >>))
      BY <2>1, <2>2
    <3> QED
      BY <1>0, <3>1, ProcessedIs
  <2>7. Calls(b, k, 0, << <<b, wire.at[b]>> >>)
    BY <1>5, <2>4, <2>5, <2>6 DEF Calls
  <2> QED
    BY <2>1, <2>7
<1>6. CASE reply[b].tool /\ wire.at[b] # 0 /\ b \notin DOMAIN line.map
  <2>1. Stream!AnthropicEvent(l) = Stream!Silence /\ Stream!Learned(l) = line
    BY <1>0, <1>1, <1>6 DEF Stream!AnthropicEvent, Stream!Learned
  <2>2. faults.damaged # 0
    BY <1>0, <1>6 DEF ReplyInv, ExactInv, ExactLine
  <2> QED
    BY <1>0, <1>6, <2>1, <2>2, ProcessedIs DEF Quiet
<1> QED
  BY <1>2, <1>3, <1>4, <1>5, <1>6

LEMMA BlockKeeps ==
  ASSUME StreamLimits, ReplyInv, NEW l, NEW damaged, Stream!Arrives(l, damaged), NEW b \in DOMAIN reply, BlockLine(l, b)
  PROVE  ReplyInv'
<1>0. /\ wire \in [lead : BOOLEAN, at : [DOMAIN reply -> Nat], trail : Nat, half : [block : Nat, part : Nat]]
      /\ wire.lead /\ agg = [calls |-> agg.calls, text |-> agg.text, usage |-> agg.usage]
      /\ line = [map |-> line.map, next |-> line.next, input |-> line.input, output |-> line.output]
      /\ wire.at \in [DOMAIN reply -> Nat] /\ wire.at[b] \in Nat /\ BlocksInv /\ CallsInv /\ DecoderInv /\ AskInv
  BY DEF ReplyInv, WireInv, BlockLine, CallsInv, DecoderInv
<1>1. wire' = [wire EXCEPT !.at[b] = @ + 1, !.half = Stream!NoLine]
  BY ArrivesIs DEF BlockLine
<1>2. wire'.lead = wire.lead /\ wire'.trail = wire.trail /\ wire'.at = [wire.at EXCEPT ![b] = @ + 1]
      /\ wire'.half = Stream!NoLine
  BY <1>0, <1>1
<1>3. Advance(b)
  BY <1>2, ArrivesIs DEF Advance
<1>4. WireInv'
  <2>1. wire'.at \in [DOMAIN reply -> Nat]
    BY <1>0, <1>2
  <2>2. wire' \in [lead : BOOLEAN, at : [DOMAIN reply -> Nat], trail : Nat, half : [block : Nat, part : Nat]]
    BY <1>0, <1>1, <2>1 DEF Stream!NoLine
  <2>3. \A c \in DOMAIN reply : wire'.at[c] \in 0 .. Pieces + 1
    <3>1. wire.at[b] <= Pieces /\ \A c \in DOMAIN reply : wire.at[c] \in 0 .. Pieces + 1
      BY DEF ReplyInv, WireInv, BlockLine
    <3>2. wire'.at[b] \in 0 .. Pieces + 1
      BY <1>0, <1>3, <3>1, AdvanceAt DEF StreamLimits
    <3> QED
      BY <1>0, <1>3, <3>1, <3>2, AdvanceAt
  <2> QED
    BY <1>0, <1>2, <2>2, <2>3, ArrivesIs DEF WireInv, Stream!NoLine
<1>5. /\ Quiet(b) \/ Speaks(b) \/ \E k, id, args : Calls(b, k, id, args)
      /\ line' = line \/ Begins(b)
  <2>1. CASE damaged
    BY <2>1, ArrivesIs DEF Quiet
  <2>2. CASE ~damaged /\ ask.protocol = "openai"
    BY <1>3, <2>2, ArrivesIs, OpenAIKinds
  <2>3. CASE ~damaged /\ ask.protocol = "anthropic"
    BY <1>3, <2>3, ArrivesIs, AnthropicKinds
  <2> QED
    BY <1>0, <2>1, <2>2, <2>3 DEF AskInv
<1>6. DecoderInv' /\ OwnersStay /\ OwnersApart'
  BY <1>3, <1>5, ArrivesIs, DecoderMoves
<1>7. CallsInv' /\ (faults'.damaged = 0 => ExactCalls' /\ ExactText' /\ agg'.usage = agg.usage)
  <2>0. faults'.damaged = 0 => ExactCalls /\ ExactText /\ faults.damaged = 0
    BY ArrivesIs DEF ReplyInv, ExactInv
  <2>1. CASE Quiet(b)
    <3>1. /\ agg'.calls = agg.calls /\ agg'.text = agg.text /\ agg'.usage = agg.usage
          /\ agg' = [calls |-> agg'.calls, text |-> agg'.text, usage |-> agg'.usage]
          /\ faults'.damaged = 0 => (reply[b].tool \/ wire.at[b] = 0) /\ ~(reply[b].tool /\ reply[b].id # 0)
      BY <1>0, <2>1 DEF Quiet
    <3>2. CallsInv'
      BY <1>0, <1>3, <1>6, <3>1, CallsMove
    <3>3. ASSUME faults'.damaged = 0 PROVE ExactCalls'
      BY <1>0, <1>3, <1>6, <2>0, <3>1, <3>3, ExactCallsMove
    <3>4. ASSUME faults'.damaged = 0 PROVE ExactText'
      BY <1>0, <1>3, <2>0, <3>1, <3>4, ExactTextMove
    <3> QED
      BY <3>1, <3>2, <3>3, <3>4
  <2>2. CASE Speaks(b)
    <3>1. /\ agg'.calls = agg.calls /\ agg'.text = Append(agg.text, <<b, wire.at[b]>>) /\ agg'.usage = agg.usage
          /\ agg' = [calls |-> agg'.calls, text |-> agg'.text, usage |-> agg'.usage]
          /\ ~reply[b].tool /\ wire.at[b] # 0
      BY <1>0, <2>2 DEF Speaks
    <3>2. CallsInv'
      BY <1>0, <1>3, <1>6, <3>1, CallsMove
    <3>3. ASSUME faults'.damaged = 0 PROVE ExactCalls'
      BY <1>0, <1>3, <1>6, <2>0, <3>1, <3>3, ExactCallsMove
    <3>4. ASSUME faults'.damaged = 0 PROVE ExactText'
      BY <1>0, <1>3, <2>0, <3>1, <3>4, ExactTextMove
    <3> QED
      BY <3>1, <3>2, <3>3, <3>4
  <2>3. ASSUME NEW k, NEW id, NEW args, Calls(b, k, id, args)
        PROVE  CallsInv' /\ (faults'.damaged = 0 => ExactCalls' /\ ExactText' /\ agg'.usage = agg.usage)
    <3>0. PICK p \in Nat : p = wire.at[b]
      BY <1>0
    <3>1. PICK d : d = Stream!Filled(Stream!Entry(agg.calls, k), Stream!Chunk(k, id, args))
      OBVIOUS
    <3>2. /\ reply[b].tool /\ Owns(b, k)' /\ Enters(k, d) /\ agg'.text = agg.text /\ agg'.usage = agg.usage
          /\ Holds(Stream!Entry(agg.calls, k), b, p)
      BY <1>0, <2>3, <3>0, <3>1 DEF Calls, Enters
    <3>3. \/ p # 0 /\ id = 0 /\ args = << <<b, p>> >>
          \/ p = 0 /\ id = reply[b].id /\ args = << >>
      BY <2>3, <3>0 DEF Calls
    <3>4. Holds(d, b, p + 1)
      BY <1>0, <3>1, <3>2, <3>3, FilledHolds
    <3>5. CallsInv'
      BY <1>0, <1>3, <1>6, <3>0, <3>2, <3>4, CallsMove
    <3>6. ASSUME faults'.damaged = 0, reply[b].id # 0 PROVE Complete(d, b, p + 1)
      <4>1. p # 0 => Complete(Stream!Entry(agg.calls, k), b, p)
        BY <2>0, <2>3, <3>0, <3>6 DEF Calls
      <4> QED
        BY <1>0, <3>1, <3>2, <3>3, <3>6, <4>1, FilledCompletes
    <3>7. ASSUME faults'.damaged = 0 PROVE ExactCalls'
      BY <1>0, <1>3, <1>6, <2>0, <3>0, <3>2, <3>6, <3>7, ExactCallsMove
    <3>8. ASSUME faults'.damaged = 0 PROVE ExactText'
      BY <1>0, <1>3, <2>0, <3>2, <3>8, ExactTextMove
    <3> QED
      BY <3>2, <3>5, <3>7, <3>8
  <2> QED
    BY <1>5, <2>1, <2>2, <2>3
<1>8. ASSUME faults'.damaged = 0 PROVE ExactLine' /\ ExactUsage'
  <2>1. faults.damaged = 0 /\ ~damaged /\ ExactLine /\ ExactUsage
    BY <1>8, ArrivesIs DEF ReplyInv, ExactInv
  <2>2. ExactUsage'
    BY <1>2, <1>7, <1>8, <2>1 DEF ExactUsage, Stream!Total, Stream!NoUsage, Stream!Usage
  <2>3. ASSUME ask.protocol = "anthropic" PROVE ExactLine'
    <3>1. line' = Stream!Learned(l) /\ ask' = ask /\ reply' = reply
      BY <2>1, <2>3, ArrivesIs
    <3>2. l.block = b /\ l.part = wire.at[b] /\ b > 0
      BY <1>0 DEF BlockLine, BlocksInv
    <3>3. line'.input = line.input /\ line'.output = line.output /\ DOMAIN line.map \subseteq DOMAIN line'.map
      <4>1. CASE line' = line
        BY <4>1
      <4>2. CASE Begins(b)
        <5>1. line' = [line EXCEPT !.map = Stream!With(@, b, line.next), !.next = @ + 1]
          BY <4>2 DEF Begins
        <5>2. line'.input = line.input /\ line'.output = line.output /\ line'.map = Stream!With(line.map, b, line.next)
          BY <1>0, <5>1
        <5> QED
          BY <5>2 DEF Stream!With
      <4> QED
        BY <1>5, <4>1, <4>2
    <3>4. reply[b].tool => b \in DOMAIN line'.map
      <4>1. CASE reply[b].tool /\ wire.at[b] = 0
        <5>1. line' = [line EXCEPT !.map = Stream!With(@, b, line.next), !.next = @ + 1]
          BY <3>1, <3>2, <4>1 DEF Stream!Learned
        <5> QED
          BY <1>0, <5>1 DEF Stream!With
      <4>2. CASE reply[b].tool /\ wire.at[b] # 0
        BY <1>0, <2>1, <2>3, <3>3, <4>2 DEF ExactLine
      <4> QED
        BY <4>1, <4>2
    <3>5. \A c \in DOMAIN reply : reply[c].tool /\ wire'.at[c] > 0 => c \in DOMAIN line'.map
      BY <1>0, <1>3, <2>1, <2>3, <3>3, <3>4, AdvanceAt DEF ExactLine
    <3> QED
      BY <1>2, <2>1, <2>3, <3>1, <3>3, <3>5 DEF ExactLine
  <2>4. ask.protocol # "anthropic" => ExactLine'
    BY ArrivesIs DEF ExactLine
  <2> QED
    BY <2>2, <2>3, <2>4
<1>9. ExactInv'
  <2>1. wire'.trail \in 0 .. 2
    BY <1>2 DEF ReplyInv, ExactInv
  <2> QED
    BY <1>7, <1>8, <2>1, ArrivesIs DEF ExactInv
<1> QED
  BY <1>4, <1>6, <1>7, <1>9, ArrivesIs DEF ReplyInv

LEMMA ArrivesKeeps == ASSUME StreamLimits, ReplyInv, NEW l, NEW damaged, Stream!Arrives(l, damaged) PROVE ReplyInv'
<1>1. HeadLine(l) \/ TailLine(l) \/ \E b \in DOMAIN reply : BlockLine(l, b)
  BY ArrivesIs, LineKinds DEF ReplyInv
<1> QED
  BY <1>1, HeadKeeps, TailKeeps, BlockKeeps

LEMMA StreamNextKeeps == ASSUME StreamLimits, ReplyInv, [Stream!Next]_(Stream!vars) PROVE ReplyInv'
<1>1. CASE Stream!Next
  <2>1. \/ Stream!ReplyRefused \/ Stream!Accepted \/ Stream!ReadFails \/ Stream!ErrorSent
        \/ Stream!Stalled \/ Stream!Ends
        \/ \E l : Stream!Half(l) \/ \E damaged : Stream!Arrives(l, damaged)
    BY <1>1 DEF Stream!Next
  <2> QED
    BY <2>1, AskKeeps, StalledKeeps, EndsKeeps, HalfKeeps, ArrivesKeeps
<1>2. CASE UNCHANGED Stream!vars
  <2>1. ask' = ask /\ reply' = reply /\ wire' = wire /\ line' = line /\ agg' = agg /\ faults' = faults
    BY <1>2 DEF Stream!vars
  <2>2. SameLines
    BY <2>1 DEF SameLines
  <2>3. AskInv' /\ WireInv' /\ EndInv'
    BY <2>1, <2>2, NextLinesStay DEF ReplyInv, AskInv, WireInv, EndInv, Stream!NoLine
  <2> QED
    BY <2>1, <2>2, <2>3, StreamStays DEF ReplyInv, ExactInv
<1> QED
  BY <1>1, <1>2

(* What is handed out ------------------------------------------------------------*)
LEMMA StreamApart == ASSUME ReplyInv PROVE Stream!NoCrossTalk
<1>0. AskInv /\ BlocksInv /\ DecoderInv /\ CallsInv
  BY DEF ReplyInv
<1>1. ASSUME NEW i \in Stream!Valid
      PROVE  \E b \in DOMAIN reply : /\ Owns(b, i) /\ Holds(agg.calls[i], b, wire.at[b])
                                     /\ agg.calls[i].id = reply[b].id /\ reply[b].id # 0
  BY <1>0 DEF Stream!Valid, CallsInv, Holds
<1>2. ASSUME NEW i \in Stream!Valid, NEW j \in Stream!Valid, i # j PROVE agg.calls[i].id # agg.calls[j].id
  <2>1. PICK b \in DOMAIN reply : Owns(b, i) /\ agg.calls[i].id = reply[b].id /\ reply[b].id # 0
    BY <1>1
  <2>2. PICK c \in DOMAIN reply : Owns(c, j) /\ agg.calls[j].id = reply[c].id
    BY <1>1
  <2>3. b # c
    BY <1>2, <2>1, <2>2 DEF Owns
  <2> QED
    BY <1>0, <2>1, <2>2, <2>3 DEF BlocksInv
<1>3. ASSUME NEW i \in Stream!Valid, NEW n \in DOMAIN agg.calls[i].args
      PROVE  /\ reply[agg.calls[i].args[n][1]].id = agg.calls[i].id
             /\ n > 1 => agg.calls[i].args[n - 1][2] < agg.calls[i].args[n][2]
  <2>1. PICK b \in DOMAIN reply : Holds(agg.calls[i], b, wire.at[b]) /\ agg.calls[i].id = reply[b].id
    BY <1>1
  <2>2. PICK args \in Seq(Nat \X Nat) : args = agg.calls[i].args
    BY <2>1 DEF Holds, StreamCall
  <2>3. n \in 1 .. Len(args) /\ (n > 1 => n \in 2 .. Len(args))
    BY <1>3, <2>2
  <2> QED
    BY <2>1, <2>2, <2>3 DEF Holds
<1> QED
  BY <1>2, <1>3 DEF Stream!NoCrossTalk

\* Nothing is left to send only when everything was.
LEMMA AllWasSent ==
  ASSUME StreamLimits, ReplyInv, Stream!NextLines = {}
  PROVE  wire.lead /\ wire.trail = 2 /\ \A b \in DOMAIN reply : wire.at[b] = Pieces + 1
<1>0. /\ wire.trail \in 0 .. 2 /\ \A b \in DOMAIN reply : b \in Nat /\ wire.at[b] \in 0 .. Pieces + 1
      /\ \A b \in DOMAIN reply : 1 .. b - 1 \subseteq DOMAIN reply
  BY DEF ReplyInv, ExactInv, BlocksInv, WireInv
<1>1. wire.lead
  BY DEF Stream!NextLines
<1>2. Stream!AllSent
  <2> SUFFICES ASSUME ~Stream!AllSent PROVE FALSE
    OBVIOUS
  <2> DEFINE Open == {b \in DOMAIN reply : wire.at[b] # Pieces + 1}
  <2>1. Open \in SUBSET Nat /\ Open # {}
    BY <1>0 DEF Stream!AllSent
  <2>2. PICK b \in Open : \A c \in Open : b <= c
    BY <2>1, LeastNumber
  <2>3. wire.at[b] <= Pieces
    BY <1>0, <2>2 DEF StreamLimits
  <2>4. \A c \in 1 .. b - 1 : wire.at[c] = Pieces + 1
    BY <1>0, <2>2
  <2>5. b \in {c \in DOMAIN reply : Stream!Due(c)}
    BY <2>2, <2>3, <2>4 DEF Stream!Due
  <2> QED
    BY <1>1, <2>5 DEF Stream!NextLines
<1>3. wire.trail = 2
  <2>1. ~(wire.trail < 2)
    BY <1>1, <1>2 DEF Stream!NextLines
  <2> QED
    BY <1>0, <2>1
<1> QED
  BY <1>1, <1>2, <1>3 DEF Stream!AllSent

LEMMA StreamGives == ASSUME StreamLimits, ReplyInv PROVE Stream!ReplyDelivered /\ Stream!NoCrossTalk
<1> SUFFICES ASSUME ask.step = "ended", ~faults.cut, faults.damaged = 0
             PROVE  /\ {agg.calls[i] : i \in Stream!Valid}
                         = {Stream!Whole(b) : b \in {c \in Stream!Tools : reply[c].id # 0}}
                    /\ {agg.text[i] : i \in DOMAIN agg.text} = (DOMAIN reply \ Stream!Tools) \X (1 .. Pieces)
                    /\ agg.usage = Stream!Total
  BY StreamApart DEF Stream!ReplyDelivered
<1>1. wire.trail = 2 /\ \A b \in DOMAIN reply : wire.at[b] = Pieces + 1
  BY AllWasSent DEF ReplyInv, EndInv
<1>2. AskInv /\ BlocksInv /\ DecoderInv /\ CallsInv /\ ExactCalls /\ ExactText /\ ExactUsage
  BY DEF ReplyInv, ExactInv
<1>3. Pieces \in Nat /\ Pieces + 1 > 0 /\ Pieces + 1 - 1 = Pieces
  BY DEF StreamLimits
<1>4. ASSUME NEW b \in DOMAIN reply, reply[b].id # 0, NEW c, Complete(c, b, Pieces + 1)
      PROVE  c = Stream!Whole(b)
  <2>1. c \in [id : Nat, args : Seq(Nat \X Nat)] /\ c.id = reply[b].id
    BY <1>4 DEF Complete, StreamCall
  <2>2. PICK args \in Seq(Nat \X Nat) : args = c.args
    BY <2>1
  <2>3. Len(args) = Pieces /\ \A n \in 1 .. Pieces : args[n] = <<b, n>>
    BY <1>3, <1>4, <2>2 DEF Complete
  <2>4. args = [n \in 1 .. Pieces |-> <<b, n>>]
    BY <1>3, <2>3
  <2>5. c = [id |-> c.id, args |-> c.args]
    BY <2>1
  <2> QED
    BY <1>4, <2>1, <2>2, <2>4, <2>5 DEF Stream!Whole
<1>5. ASSUME NEW b \in DOMAIN reply, reply[b].tool, reply[b].id # 0
      PROVE  \E k \in DOMAIN agg.calls : Owns(b, k) /\ agg.calls[k] = Stream!Whole(b) /\ k \in Stream!Valid
  <2>1. PICK k \in DOMAIN agg.calls : Owns(b, k) /\ Complete(agg.calls[k], b, Pieces + 1)
    BY <1>1, <1>2, <1>3, <1>5 DEF ExactCalls
  <2>2. agg.calls[k].id # 0
    BY <1>5, <2>1 DEF Complete
  <2> QED
    BY <1>4, <1>5, <2>1, <2>2 DEF Stream!Valid
<1>6. ASSUME NEW k \in Stream!Valid
      PROVE  \E b \in DOMAIN reply : reply[b].tool /\ reply[b].id # 0 /\ agg.calls[k] = Stream!Whole(b)
  <2>1. PICK b \in DOMAIN reply : Owns(b, k) /\ Holds(agg.calls[k], b, wire.at[b])
    BY <1>2 DEF CallsInv, Stream!Valid
  <2>2. reply[b].tool /\ reply[b].id # 0
    BY <2>1 DEF Owns, Holds, Stream!Valid
  <2>3. PICK j \in DOMAIN agg.calls : Owns(b, j) /\ agg.calls[j] = Stream!Whole(b)
    BY <1>5, <2>2
  <2>4. j = k
    BY <2>1, <2>3 DEF Owns
  <2> QED
    BY <2>2, <2>3, <2>4
<1>7. {agg.calls[i] : i \in Stream!Valid} = {Stream!Whole(b) : b \in {c \in Stream!Tools : reply[c].id # 0}}
  BY <1>5, <1>6 DEF Stream!Tools
<1>8. ASSUME NEW i \in DOMAIN agg.text PROVE agg.text[i] \in (DOMAIN reply \ Stream!Tools) \X (1 .. Pieces)
  <2>1. agg.text[i] \in Nat \X Nat /\ SentText(agg.text[i][1], agg.text[i][2])
    BY <1>2 DEF ExactText
  <2>2. PICK q \in Nat \X Nat : q = agg.text[i] /\ SentText(q[1], q[2])
    BY <2>1
  <2>3. q[1] \in DOMAIN reply \ Stream!Tools /\ q[2] \in 1 .. Pieces
    BY <1>1, <1>3, <2>2 DEF SentText, Stream!Tools
  <2> QED
    BY <2>2, <2>3
<1>9. ASSUME NEW b \in DOMAIN reply \ Stream!Tools, NEW n \in 1 .. Pieces
      PROVE  \E i \in DOMAIN agg.text : agg.text[i] = <<b, n>>
  <2>1. SentText(b, n)
    BY <1>1, <1>3 DEF SentText, Stream!Tools
  <2> QED
    BY <1>2, <1>3, <2>1 DEF ExactText
<1>10. {agg.text[i] : i \in DOMAIN agg.text} = (DOMAIN reply \ Stream!Tools) \X (1 .. Pieces)
  BY <1>8, <1>9
<1>11. agg.usage = Stream!Total
  BY <1>1, <1>2 DEF ExactUsage
<1> QED
  BY <1>7, <1>10, <1>11

LEMMA StreamStart == ASSUME StreamLimits PROVE Stream!Init => ReplyInv
BY StreamInit
LEMMA StreamStep == ASSUME StreamLimits PROVE ReplyInv /\ [Stream!Next]_Stream!vars => ReplyInv'
BY StreamNextKeeps

===============================================================================
