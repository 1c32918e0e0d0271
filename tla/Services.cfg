CONSTANTS
  None = None
  Computers = {c1, c2}
  MonthLen = 1
  MaxTime = 2
  CapTicks = 2
  MaxLosses = 1
  MaxChains = 3
  Manifests <- Trees
  Tasks = {t1, t2}
  MaxInline = 2
  MaxCuts = 1
  Owners <- Digests
  Ids <- Names
  Ttls = {0, 900, 2000, 999999}
  Delays = {1, 60, 120}
  WakeTimeout = 120
  ColdFinalize = 20
  MaxBytes = 3
  MaxTyped = 3
  MaxQueued = 2
  MaxDrops = 2
  MaxEmits = 3
  MaxInflight = 0
  MaxTicks = 2
  MaxBreaks = 1
  Retries = 2
  AlarmTime = 4
  MaxSets = 3
  Keys = {1, 2, 3}
  Prefix = {1, 2, 3}
  PageLimit = 1
  MaxPuts = 1
  Batches = {b1, b2}
  MaxSingles = 1
  U16_MAX = 3
  U32_MAX = 9
  MAX_SAFE = 15
  HeaderLen = 2
  BodyLens = {1, 2}
  Specs = {"files", "runs"}
  Stored <- StoredLayouts
  MaxEdits = 2
  MaxPanes = 4
  MaxFetches = 1
  MaxMounts = 2
  MaxLoads = 2
  Unit = 8000
  k1 = k1
  k2 = k2
  Chunks = {k1, k2}
  Makers = {m1, m2}
  Contents <- Cuts
  Images <- Parents
  Window = 1
  MaxSecs = 2
  MaxSnaps = 2
  Paths <- FileNames
  ParentOf <- DirectoryOf
  Globbed <- Matched
  Starts <- DiskTrees
  Bodies = {1, 2}
  MaxWrites = 2
SPECIFICATION Spec
INVARIANTS
  Accounted
  PublishedWhole
  BrowsedAsWritten
  CredentialStands
  OnceInOrder
  AlarmStands
  StoreIsWhole
  HeardAsSent
  HeadsRestore
  RevertIsExact
PROPERTIES
  NeverStepsBack
  LayoutStands
SYMMETRY Interchangeable
CHECK_DEADLOCK FALSE
