SPECIFICATION Spec
CONSTANTS
  \* FileEdits, WebFetch: two calls beside each other.
  Caller = {"c", "d"}
  \* FileEdits: two spellings of one file, which is changed twice.
  Task = {"t"}
  Spelling = {"full", "short"}
  CwdIsWorkspace = TRUE
  Cap = 2
  MaxChanges = 2
  \* CommandRun
  Limit = 1
  MaxLimit = 2
  Requested = {0, 2, 3}
  MaxKin = 1
  MaxText = 1
  \* TodoList
  Owner <- Owners
  Parent <- Parents
  Item <- Items
  MaxItems = 2
  MaxWrites = 2
  \* Subagent
  MaxEvents = 5
  \* WebFetch: a host that is refused, two ports.
  Host = {"h", "g"}
  Port = {0, 1}
  Path = {"x"}
  Format = {"m"}
  Refused = {"g"}
  Default = 0
  Ttl = 2
  MaxSize = 1
  Timeout = 1
  MaxClock = 3
  \* LoopGuard: calls that repeat and alternate; the code's default limits, smaller.
  Call = {"a", "b"}
  RepeatAt = 3
  AlternateAt = 4
  Spare = 1
  Hits = 2
  Inbox = 1
  Signals = 1
  Batch = 2
  \* PluginHooks
  Plugin = {"p", "q"}
  Priority = {0, 10}
  Factories = 3
  Events = 1
  \* SessionServices
  MaxMessages = 3
  MaxPieces = 2
  Buffer = 1
  MaxNames = 2
  \* ShadowRepo: two files, one of which may be too big; a day is all an object lives.
  File = {1, 2}
  Small = {1}
  Big = {2}
  Session = {"s"}
  BatchSize = 1
  Expiry = 1
  MaxDay = 2
  MaxSnaps = 2
  MaxEdits = 2
  \* ProviderAdmin: no models, of which no property speaks.
  Provider = {"p", "q"}
  Model = {}
  Key = {1, 2}
  Engine = {"e"}
  Admin = {"a", "b"}
  Protocols = {"openai"}
  Fast = {}
  MaxOps = 2
  \* Discovery: a file of a skill with two dots in its name.
  Id = {"i"}
  Dir = {"d"}
  Linked = {"f", "g..h"}
  Dotted = {"g..h"}
  Layers = 2
  MaxFileEdits = 1
  \* FanOut: two lives among the two sessions, beside a channel for one event.
  Capacity = 1
  MaxLives = 2
  MaxSent = 2
  \* HistoryReplay: pages of one row, one call in a reply.
  PageSize = 1
  Compresses = TRUE
  MaxStored = 2
  MaxAsked = 1
  MaxCuts = 1
  \* SessionLists: pages of one session, two ticks to the second.
  Ticks = 2
  ListSize = 1
  Workspace = {"w"}
  MaxSessions = 3
  MaxTime = 2
  MaxUses = 1
  \* ReplyStream: two blocks of two pieces each.
  CallIds = {1, 2}
  MaxBlocks = 2
  Pieces = 2
  MaxRetries = 1
  Initial = 2
  RetryCap = 3
  HeaderCap = 9
  MaxFaults = 1
  \* Excerpts
  Costs <- FileCosts
  Budget = 3
  MaxOffset = 5
  MaxUnits = 6
  Limits = {1, 2, 3, 5}
  Most = 3
  \* Configuration
  Leaf = {1, 2}
  Sub = {"x"}
  Tokens = {1, 2}
  MaxTiers = 2
  \* ToolBatch, DeleteScope
  Spelt <- SpeltPaths
  Here <- W
  Cwd <- W
  Home <- HomeDir
  NeverParallel = {"bash"}
  PathScoped = {"read", "write", "edit"}
  ParallelSafe = {"read", "grep"}
  MaxConcurrent = 2
  MaxTogether = 2
  DirName = {"w", "x"}
  FirstDirs <- Firsts
  MaxLength = 2
  MaxDepth = 2
  MaxGroups = 1
INVARIANTS
  TypesOK
  ChangesAreWhole
  OutputsAreWhole
  
  PluginsBehave
  SummariesAndTitlesAreTrue
  SnapshotsRestore
  SettingsHold
  TextsAreTrue
  
  RequestsAreWhole
  HistoryIsWhatHappened
CHECK_DEADLOCK FALSE
