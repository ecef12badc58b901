--------------------------- MODULE Configuration ---------------------------
(***************************************************************************)
(* Configuration as the program reads it: fuyao.toml of three layers merged *)
(* key by key, injected into the process once; and the model definitions   *)
(* that the provider manager writes, the loader reads back and the bill of *)
(* a message is made from.                                                 *)
(***************************************************************************)
EXTENDS Naturals, Sequences, SequencesExt, FiniteSets, FiniteSetsExt

CONSTANTS
  Leaf,    \* scalar values of the configuration
  Sub,     \* keys within a table
  Tokens,  \* numbers of tokens
  MaxTiers \* bound: price tiers of a model

VARIABLES
  layers,   \* the three files
  process,  \* CONFIG: what set_config was given, and what an engine has loaded
  model     \* a model definition in the hands of the manager, its text and its reading

vars == <<layers, process, model>>

Layer == {"global", "agent", "workspace"}
Lowest == <<"global", "agent", "workspace">>
\* The value of one key: a scalar or a table; a file may also lack it, be missing or be
\* unreadable, and may have a section of providers.
Tables == UNION {[keys -> Leaf] : keys \in SUBSET Sub}
Value == [table : {FALSE}, leaf : Leaf, rows : {<<>>}] \cup [table : {TRUE}, leaf : {0}, rows : Tables]
Lacking == [table |-> FALSE, leaf |-> 0, rows |-> <<>>]
FileState == [state : {"read"}, value : Value \cup {Lacking}, providers : BOOLEAN]
Missing == [state |-> "missing", value |-> Lacking, providers |-> FALSE]
Broken == [Missing EXCEPT !.state = "broken"]

(***************************************************************************)
(* Layers (load_merged_config)                                             *)
(***************************************************************************)
\* deep_merge_tables: tables are merged, anything else replaces what was there.
Over(base, value) ==
  IF value = Lacking THEN base
  ELSE IF base.table /\ value.table
  THEN [value EXCEPT !.rows = [k \in DOMAIN base.rows \cup DOMAIN value.rows |->
                                 IF k \in DOMAIN value.rows THEN value.rows[k] ELSE base.rows[k]]]
  ELSE value
Merged(files) ==
  LET layer(i) == files[Lowest[i]].value
  IN Over(Over(Over(Lacking, layer(1)), layer(2)), layer(3))
\* Files are read from the lowest layer up; the first that cannot be read, or has
\* providers outside of the global layer, ends the load.
Bad(files, l) == files[l].state = "broken" \/ (files[l].providers /\ l # "global")
Empty(file) == file.value = Lacking /\ ~file.providers
Loaded(files) ==
  IF \E l \in Layer : Bad(files, l) THEN [result |-> "error", value |-> Lacking]
  ELSE IF \A l \in Layer : Empty(files[l]) THEN [result |-> "none", value |-> Lacking]
  ELSE [result |-> "config", value |-> Merged(files)]

(***************************************************************************)
(* Models in the file (model_to_table, parse_model)                        *)
(***************************************************************************)
Tier == [max : Tokens, price : Tokens]
Price == [scalar : Tokens \cup {0}, tiers : BoundedSeq(Tier, MaxTiers)]  \* 0: not given
Inputs == {<<>>, <<"text">>, <<"image">>, <<"text", "image">>}
Models == [price : Price, output : {0, 1}, inputs : Inputs]
NoModel == [price |-> [scalar |-> 0, tiers |-> <<>>], output |-> 0, inputs |-> <<>>]
\* A field at its default is left out; prices without tiers go into an inline table, with
\* tiers into a section with an array of tables.
Present(v) == <<v>>
Written(m) ==
  [cost |-> IF m.price.tiers # <<>> THEN Present([form |-> "section", price |-> m.price])
            ELSE IF m.price.scalar # 0 THEN Present([form |-> "inline", price |-> m.price]) ELSE <<>>,
   output |-> IF m.output > 0 THEN Present(m.output) ELSE <<>>,
   inputs |-> IF m.inputs # <<"text">> THEN Present(m.inputs) ELSE <<>>]
Ascending(tiers) == SortSeq(tiers, LAMBDA s, t : s.max < t.max)
Given(field, default) == IF field = <<>> THEN default ELSE field[1]
Parsed(text) ==
  [price |-> LET c == Given(text.cost, [form |-> "none", price |-> NoModel.price])
             IN [c.price EXCEPT !.tiers = Ascending(@)],
   output |-> Given(text.output, 0),
   inputs |-> Given(text.inputs, <<"text">>)]

\* ModelCost.unit_prices: with tiers, the first that reaches the prompt, or the last.
Below(tiers, prompt) == Cardinality({i \in DOMAIN tiers : tiers[i].max < prompt})
UnitPrice(price, prompt) ==
  IF price.tiers = <<>> THEN price.scalar
  ELSE LET n == Below(price.tiers, prompt)
       IN price.tiers[IF n < Len(price.tiers) THEN n + 1 ELSE n].price

\* calculate_cost: prices of one kind here, so that the split of the tokens shows.
Usage == [prompt : Tokens \cup {0}, cached : Tokens \cup {0}, completion : Tokens \cup {0},
          reasoning : Tokens \cup {0}]
Line(tokens, price) == IF tokens > 0 THEN tokens * price ELSE 0
Less(a, b) == IF a > b THEN a - b ELSE 0
Cost(price, u) ==
  LET unit == UnitPrice(price, u.prompt)
  IN Line(Less(u.prompt, u.cached), unit) + Line(Less(u.completion, u.reasoning), unit)
       + Line(u.reasoning, unit) + Line(u.cached, unit)

TypeOK ==
  /\ layers \in [Layer -> FileState \cup {Missing, Broken}]
  /\ process.set \in BOOLEAN /\ process.value \in Value \cup {Lacking}
  /\ process.result \in {"unread", "error", "none", "config"}
  /\ model.step \in {"none", "saved", "read"} /\ model.given \in Models \cup {NoModel}

Init ==
  /\ layers = [l \in Layer |-> Missing]
  /\ process = [set |-> FALSE, value |-> Lacking, result |-> "unread", seen |-> layers, from |-> layers]
  /\ model = [step |-> "none", given |-> NoModel, text |-> Written(NoModel), read |-> NoModel]

\* The user or the manager writes a file.
Edit(l, file) ==
  /\ model.step = "none" /\ layers[l].state = "missing"
  /\ layers' = [layers EXCEPT ![l] = file] /\ UNCHANGED <<process, model>>
\* init_engine: the first configuration found stays that of the process; get_config gives
\* the defaults before and as long as no file was found.
Start ==
  /\ process.seen # layers \/ process.result = "unread"
  /\ LET load == Loaded(layers)
     IN process' = [set |-> process.set \/ load.result = "config",
                    value |-> IF ~process.set /\ load.result = "config" THEN load.value ELSE process.value,
                    result |-> load.result, seen |-> layers,
                    from |-> IF ~process.set THEN layers ELSE process.from]
  /\ UNCHANGED <<layers, model>>
Save(m) ==
  /\ layers = [l \in Layer |-> Missing] /\ process.result = "unread" /\ model.step = "none"
  /\ model' = [model EXCEPT !.step = "saved", !.given = m, !.text = Written(m)]
  /\ UNCHANGED <<layers, process>>
Read ==
  /\ model.step = "saved" /\ model' = [model EXCEPT !.step = "read", !.read = Parsed(model.text)]
  /\ UNCHANGED <<layers, process>>

Next ==
  \/ \E l \in Layer, file \in FileState \cup {Broken} : Edit(l, file)
  \/ Start \/ Read \/ \E m \in Models : Save(m)
Spec == Init /\ [][Next]_vars

(***************************************************************************)
(* Properties                                                              *)
(***************************************************************************)
\* The configuration of the process is, key by key, what the highest layer that speaks of
\* the key says; a scalar hides the tables of lower layers.  It is the first one that was
\* found, whatever the files hold later (config/mod.rs set_config).
Rank(l) == CHOOSE i \in DOMAIN Lowest : Lowest[i] = l
Higher(l) == {h \in Layer : Rank(h) > Rank(l)}
Speaks(file, k) == file.value # Lacking /\ (~file.value.table \/ k \in DOMAIN file.value.rows)
Decides(files, l, k) == Speaks(files[l], k) /\ \A h \in Higher(l) : ~Speaks(files[h], k)
HighestLayerDecides ==
  process.set /\ process.value.table =>
    \A k \in Sub, v \in Leaf :
      (k \in DOMAIN process.value.rows /\ process.value.rows[k] = v) <=>
        \E l \in Layer : /\ Decides(process.from, l, k) /\ process.from[l].value.table
                         /\ process.from[l].value.rows[k] = v

\* A model that was saved is read back the same, its tiers in order; its bill is that of
\* the cheapest-to-reach tier that holds the prompt, whatever order they were given in, and
\* counts every token once (serialize.rs, providers.rs, model.rs unit_prices, cost.rs).
Reaching(tiers, prompt) == {t \in ToSet(tiers) : t.max >= prompt}
Furthest(tiers) == Max({t.max : t \in ToSet(tiers)})
DueTiers(tiers, prompt) ==
  IF Reaching(tiers, prompt) = {} THEN {t \in ToSet(tiers) : t.max = Furthest(tiers)}
  ELSE {t \in ToSet(tiers) : t.max = Min({r.max : r \in Reaching(tiers, prompt)})}
Reported == {u \in Usage : u.cached <= u.prompt /\ u.reasoning <= u.completion}
SavedIsRead ==
  model.step = "read" =>
    /\ model.read.output = model.given.output /\ model.read.inputs = model.given.inputs
    /\ ToSet(model.read.price.tiers) = ToSet(model.given.price.tiers)
    /\ \A u \in Reported :
         LET unit == UnitPrice(model.read.price, u.prompt) tiers == model.given.price.tiers
         IN /\ IF tiers = <<>> THEN unit = model.given.price.scalar
               ELSE unit \in {t.price : t \in DueTiers(tiers, u.prompt)}
            /\ Cost(model.read.price, u) = unit * (u.prompt + u.completion)
=============================================================================
