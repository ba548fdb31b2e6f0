SPECIFICATION Spec
CONSTANTS
  Reqs = {r1, r2}
  Seed = seed
  Free = free
  FilePaths = {f1, f2}
  InlinePaths = {i1}
  SeedPaths = {i1}
  ChunkCounts = {1, 2}
  Ops = {"ingest", "inline", "scan", "replace", "delete"}
  Exclusive = TRUE
  MaxFaults = 2
  MaxCrashes = 1
SYMMETRY Interchangeable
INVARIANTS TypeOK LockHeld NoOrphanRows CleanFailure  CountsAccounted PathUnique
PROPERTIES ShowsWholeVersions 
