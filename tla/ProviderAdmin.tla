--------------------------- MODULE ProviderAdmin ---------------------------
(***************************************************************************)
(* The definitions of providers on their way from the manager's write to a *)
(* running engine: fuyao.toml and .env of the global layer, the process    *)
(* environment, the registration cache of the process, and the registry of *)
(* instances of each engine.  Files are rewritten in place: they are empty *)
(* or cut short while that lasts, and stay so when the process dies.       *)
(***************************************************************************)
EXTENDS Naturals

CONSTANTS
  Provider,  \* ids of providers; no two differ in case only
  Model,     \* ids of models
  Key,       \* api keys, numbers above 0; 0 is no key
  Engine,    \* engines of the process
  Admin,     \* callers of the ProviderManager
  Protocols, \* "openai", "anthropic"
  Fast,      \* providers whose model [models.fast] names: at most one
  MaxOps     \* bound: operations of the manager

VARIABLES
  toml,    \* global fuyao.toml: its state and its providers
  env,     \* global .env: its state and one variable for each provider
  proc,    \* the variables of the process
  cache,   \* PROVIDER_CACHE and MODEL_CACHE
  engine,  \* for each engine its ProviderRegistry and its reload
  admin,   \* for each caller the operation it is in; history: none was under way beside it
  promise, \* history: for each provider the key that an operation has reported as saved
  ops      \* operations begun

vars == <<toml, env, proc, cache, engine, admin, promise, ops>>
files == <<toml, env>>

Entry == [protocol : Protocols, pointer : BOOLEAN, inline : Key \cup {0}, models : SUBSET Model]
Absent == [protocol |-> "none", pointer |-> FALSE, inline |-> 0, models |-> {}]
Spec_ == [protocol : Protocols, pointer : BOOLEAN, key : Key \cup {0}, models : SUBSET Model]
NoInstance == [protocol |-> "none", key |-> 0]
Config == [Provider -> Entry \cup {Absent}]
Nothing == [p \in Provider |-> Absent]
NoVars == [p \in Provider |-> 0]
Known(config) == {p \in Provider : config[p] # Absent}

Dead == [up |-> FALSE, step |-> "idle", registry |-> [p \in Provider |-> NoInstance],
         config |-> Nothing, todo |-> {}, at |-> {}, current |-> {}, sure |-> {}]
Idle == [step |-> "idle", kind |-> "none", p |-> CHOOSE p \in Provider : TRUE,
         env |-> NoVars, key |-> 0, doc |-> Nothing, alone |-> FALSE]
TypeOK ==
  /\ toml.state \in {"whole", "cut"} /\ toml.providers \in Config
  /\ env.state \in {"whole", "cut"} /\ env.vars \in [Provider -> Key \cup {0}]
  /\ proc \in [Provider -> Key \cup {0}]
  /\ cache.providers \in Config /\ cache.models \subseteq Provider \X Model
  /\ \A e \in Engine :
       /\ engine[e].registry \in [Provider -> [protocol : Protocols, key : Key] \cup {NoInstance}]
       /\ engine[e].step \in {"idle", "load_env", "put", "build"}
       /\ engine[e].config \in Config /\ engine[e].sure \subseteq Provider
  /\ \A a \in Admin : /\ admin[a].step \in {"idle", "toml", "truncate", "write", "env", "env_write"}
                      /\ admin[a].alone \in BOOLEAN
  /\ promise \in [Provider -> Key \cup {0}] /\ ops \in 0..MaxOps

\* The files may hold a provider written by hand, with its key in the toml.
Handwritten(p, key, protocol) ==
  [Nothing EXCEPT ![p] = [protocol |-> protocol, pointer |-> FALSE, inline |-> key, models |-> Model]]
Init ==
  /\ \E config \in {Nothing} \cup {Handwritten(p, key, o) : p \in Provider, key \in Key, o \in Protocols} :
       toml = [state |-> "whole", providers |-> config]
  /\ env = [state |-> "whole", vars |-> NoVars]
  /\ proc = NoVars /\ cache = [providers |-> Nothing, models |-> {}]
  /\ engine = [e \in Engine |-> Dead] /\ admin = [a \in Admin |-> Idle] /\ promise = NoVars
  /\ ops = 0

(***************************************************************************)
(* The manager's operations (provider_manager.rs)                          *)
(***************************************************************************)
\* A key needs the name of its variable (validate_spec).
Valid(spec) == spec.key # 0 => spec.pointer
\* insert_provider, patch_provider (the models are replaced as a whole; a given key takes
\* the place of a plain one in the file) and remove_provider.
Inserted(spec) ==
  [protocol |-> spec.protocol, pointer |-> spec.pointer, inline |-> 0, models |-> spec.models]
Patched(old, spec) ==
  [Inserted(spec) EXCEPT !.inline = IF spec.key = 0 THEN old.inline ELSE 0]
Edited(kind, old, spec) ==
  CASE kind = "create" -> Inserted(spec)
    [] kind = "update" -> Patched(old, spec)
    [] kind = "delete" -> Absent
Allowed(kind, old) == IF kind = "create" THEN old = Absent ELSE old # Absent

\* The new .env is prepared first, then the toml is read and changed in memory.  Nothing
\* keeps two operations apart: of two that overlap each writes what it read, and no promise
\* is left.
UnderWay == {a \in Admin : admin[a].step # "idle"}
Forgotten == [e \in Engine |-> [engine[e] EXCEPT !.sure = {}, !.current = {}]]
Prepare(a, kind, p, key) ==
  /\ admin[a].step = "idle" /\ ops < MaxOps /\ ops' = ops + 1
  /\ admin' = [b \in Admin |->
       IF b = a
       THEN [Idle EXCEPT !.step = "toml", !.kind = kind, !.p = p, !.key = key,
                         !.env = [env.vars EXCEPT ![p] = IF key = 0 THEN @ ELSE key],
                         !.alone = UnderWay = {}]
       ELSE [admin[b] EXCEPT !.alone = FALSE]]
  /\ IF UnderWay = {} THEN UNCHANGED <<promise, engine>> ELSE promise' = NoVars /\ engine' = Forgotten
  /\ UNCHANGED <<files, proc, cache>>
Patch(a) ==
  LET p == admin[a].p
  IN /\ admin[a].step = "toml"
     /\ IF Allowed(admin[a].kind, toml.providers[p])
        THEN \E spec \in {s \in Spec_ : Valid(s) /\ s.key = admin[a].key} :
               admin' = [admin EXCEPT ![a].step = "truncate",
                 ![a].doc = [toml.providers EXCEPT ![p] = Edited(admin[a].kind, @, spec)]]
        ELSE admin' = [admin EXCEPT ![a] = Idle]
     /\ UNCHANGED <<files, proc, cache, engine, promise, ops>>
\* write_file: std::fs::write empties the file, then fills it.
Truncate(a) ==
  /\ admin[a].step = "truncate" /\ admin' = [admin EXCEPT ![a].step = "write"]
  /\ toml' = [state |-> "cut", providers |-> Nothing]
  /\ promise' = [promise EXCEPT ![admin[a].p] = 0]
  /\ engine' = [e \in Engine |-> [engine[e] EXCEPT !.sure = @ \ {admin[a].p},
                                                   !.current = @ \ {admin[a].p}]]
  /\ UNCHANGED <<env, proc, cache, ops>>
\* A key is promised when the operation returns, if no other was under way; one of an update
\* may be hidden by the variable the process already has.
Promised(a) ==
  IF admin[a].alone /\ admin[a].key # 0 /\ proc[admin[a].p] \in {0, admin[a].key}
  THEN [promise EXCEPT ![admin[a].p] = admin[a].key] ELSE promise
Fill(a) ==
  /\ admin[a].step = "write" /\ toml' = [state |-> "whole", providers |-> admin[a].doc]
  /\ admin' = IF admin[a].key = 0 THEN [admin EXCEPT ![a] = Idle]
                                  ELSE [admin EXCEPT ![a].step = "env"]
  /\ UNCHANGED <<env, proc, cache, engine, promise, ops>>
TruncateEnv(a) ==
  /\ admin[a].step = "env" /\ admin' = [admin EXCEPT ![a].step = "env_write"]
  /\ env' = [state |-> "cut", vars |-> NoVars]
  /\ UNCHANGED <<toml, proc, cache, engine, promise, ops>>
FillEnv(a) ==
  /\ admin[a].step = "env_write" /\ env' = [state |-> "whole", vars |-> admin[a].env]
  /\ promise' = Promised(a) /\ admin' = [admin EXCEPT ![a] = Idle]
  /\ UNCHANGED <<toml, proc, cache, engine, ops>>

(***************************************************************************)
(* Registration                                                            *)
(***************************************************************************)
\* resolve_api_key: from the cached entry, the plain key before the variable.
Resolved(c, p, variables) ==
  IF c.providers[p].inline # 0 THEN c.providers[p].inline
  ELSE IF c.providers[p].pointer THEN variables[p] ELSE 0
Instance(protocol, key) == IF key = 0 THEN NoInstance ELSE [protocol |-> protocol, key |-> key]
ModelsOf(config, p) == {p} \X config[p].models
\* register_provider and register_model add and replace, they take nothing away.
Put(c, config, p) ==
  [providers |-> [c.providers EXCEPT ![p] = config[p]], models |-> c.models \cup ModelsOf(config, p)]
Purged(c, gone) ==
  [providers |-> [p \in Provider |-> IF p \in gone THEN Absent ELSE c.providers[p]],
   models |-> {m \in c.models : m[1] \notin gone}]

\* init_engine: .env overrides the environment; what another engine of the process has
\* registered is used as it is; a model that [models.fast] names must be known.
Loaded == [p \in Provider |-> IF env.vars[p] # 0 THEN env.vars[p] ELSE proc[p]]
Registered ==
  IF Known(cache.providers) # {} THEN cache
  ELSE [providers |-> toml.providers,
        models |-> UNION {ModelsOf(toml.providers, p) : p \in Known(toml.providers)}]
Built(c, variables) ==
  [p \in Provider |-> IF p \in Known(c.providers)
                      THEN Instance(c.providers[p].protocol, Resolved(c, p, variables)) ELSE NoInstance]
Startable(c, registry) ==
  /\ \A p \in Fast : \E m \in Model : <<p, m>> \in c.models
  /\ \E p \in Provider : registry[p] # NoInstance
Boot(e) ==
  /\ ~engine[e].up /\ proc' = Loaded /\ cache' = Registered
  /\ engine' = IF Startable(Registered, Built(Registered, Loaded))
               THEN [engine EXCEPT ![e] = [Dead EXCEPT !.up = TRUE,
                                             !.registry = Built(Registered, Loaded)]]
               ELSE engine
  /\ UNCHANGED <<files, admin, promise, ops>>

(***************************************************************************)
(* Engine::reload_providers, in the order of its steps                     *)
(***************************************************************************)
Reloading(e, fields) == engine' = [engine EXCEPT ![e] = [f \in DOMAIN @ |->
                                      IF f \in DOMAIN fields THEN fields[f] ELSE @[f]]]
\* Reloads of two engines share the cache: of two that overlap, neither is sure of a key.
\* Of one engine the model has one reload at a time; the code lets them overlap.
Reloads == {e \in Engine : engine[e].step # "idle"}
Begin(e) ==
  /\ engine[e].up /\ engine[e].step = "idle"
  /\ \/ engine' = [f \in Engine |->
          IF f = e
          THEN [engine[e] EXCEPT !.step = "load_env", !.config = toml.providers, !.sure = {},
                  !.current = IF Reloads = {} /\ toml.state = "whole" /\ env.state = "whole"
                              THEN {p \in Provider : promise[p] # 0} ELSE {}]
          ELSE [engine[f] EXCEPT !.current = {}]]
     \/ toml.state = "cut" /\ UNCHANGED engine  \* half a file does not parse
  /\ UNCHANGED <<files, proc, cache, admin, promise, ops>>
\* Mutant: a reload reads fuyao.toml alone.
LoadNothing(e) ==
  /\ engine[e].step = "load_env"
  /\ Reloading(e, [step |-> "put", todo |-> Known(engine[e].config),
                   current |-> IF env.state = "whole" THEN engine[e].current ELSE {}])
  /\ UNCHANGED <<files, proc, cache, admin, promise, ops>>
LoadMissing(e) ==
  /\ engine[e].step = "load_env"
  /\ proc' = [p \in Provider |-> IF proc[p] # 0 THEN proc[p] ELSE env.vars[p]]
  /\ Reloading(e, [step |-> "put", todo |-> Known(engine[e].config),
                   current |-> IF env.state = "whole" THEN engine[e].current ELSE {}])
  /\ UNCHANGED <<files, cache, admin, promise, ops>>
PutOne(e, p) ==
  /\ engine[e].step = "put" /\ p \in engine[e].todo
  /\ cache' = Put(cache, engine[e].config, p) /\ Reloading(e, [step |-> "build", at |-> {p}])
  /\ UNCHANGED <<files, proc, admin, promise, ops>>
\* The instance takes its protocol from the configuration and its key from the cache.
BuildOne(e, p) ==
  /\ engine[e].step = "build" /\ p \in engine[e].at
  /\ Reloading(e, [step |-> "put", todo |-> engine[e].todo \ {p}, at |-> {},
                   registry |-> [engine[e].registry EXCEPT ![p] =
                      Instance(engine[e].config[p].protocol, Resolved(cache, p, proc))]])
  /\ UNCHANGED <<files, proc, cache, admin, promise, ops>>
\* What the registry of this engine has and the files have not is removed.
Stale(e) == {p \in Provider : engine[e].registry[p] # NoInstance /\ engine[e].config[p] = Absent}
Sweep(e) ==
  /\ engine[e].step = "put" /\ engine[e].todo = {}
  /\ cache' = Purged(cache, Stale(e))
  /\ Reloading(e, [step |-> "idle", config |-> Nothing, current |-> {}, sure |-> engine[e].current,
                   registry |-> [p \in Provider |-> IF p \in Stale(e) THEN NoInstance
                                                    ELSE engine[e].registry[p]]])
  /\ UNCHANGED <<files, proc, admin, promise, ops>>

\* The process ends: files keep what they hold at that moment.  A user mends a file that
\* was left empty by putting back nothing more than its form.
Crash ==
  /\ proc' = NoVars /\ cache' = [providers |-> Nothing, models |-> {}]
  /\ engine' = [e \in Engine |-> Dead] /\ admin' = [a \in Admin |-> Idle]
  /\ promise' = IF toml.state = "cut" \/ env.state = "cut" THEN NoVars ELSE promise
  /\ toml' = [toml EXCEPT !.state = "whole"] /\ env' = [env EXCEPT !.state = "whole"]
  /\ UNCHANGED ops

Next ==
  \/ \E a \in Admin :
       \/ \E kind \in {"create", "update", "delete"}, p \in Provider, key \in Key \cup {0} :
            (kind = "delete" => key = 0) /\ Prepare(a, kind, p, key)
       \/ Patch(a) \/ Truncate(a) \/ Fill(a) \/ TruncateEnv(a) \/ FillEnv(a)
  \/ \E e \in Engine :
       \/ Boot(e) \/ Begin(e) \/ LoadMissing(e) \/ Sweep(e)
       \/ \E p \in Provider : PutOne(e, p) \/ BuildOne(e, p)
  \/ Crash
Spec == Init /\ [][Next]_vars

(***************************************************************************)
(* Properties                                                              *)
(***************************************************************************)
\* "Saved, then usable" (env.rs load_env_missing, provider_ops.rs): a key that an
\* operation has reported as saved for a variable the process did not have otherwise is
\* the key of the engine's instance after every reload that began later, as long as the
\* provider is not edited again; through crashes, and whatever happens to other providers.
\* Operations of the manager that overlap, and reloads that do, are excepted: neither the
\* files nor the cache are locked.
SavedIsUsable ==
  \A e \in Engine : engine[e].step = "idle" =>
    \A p \in engine[e].sure : engine[e].registry[p].key = promise[p]
=============================================================================
