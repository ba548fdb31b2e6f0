SPECIFICATION FairSpec
CONSTANTS
  Reqs = {r1, r2}
  Seed = seed
  Free = free
  FilePaths = {f1}
  InlinePaths = {i1}
  SeedPaths = {f1, i1}
  ChunkCounts = {1}
  Ops = {"ingest", "inline", "scan", "replace", "delete"}
  Exclusive = FALSE
  MaxFaults = 1
  MaxCrashes = 1
PROPERTIES Answers
