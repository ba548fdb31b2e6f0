SPECIFICATION Spec
CONSTANTS
 KBs = {k1}
 Files = {f1, f2}
 WatchIds = {w1, w2}
 Cap = 2
 MaxFileEdits = 2
 MaxWatchFaults = 1
 MaxWatchRestarts = 0
 Texts = {"a", "b", "c", "d"}
 Requests <- MCRequests
 Calls = {"p", "q"}
 BatchSize = 2
 Retries = 2
 Slots = 1
 MaxEntries = 1
 Ttl = 1
 Fallback = TRUE
 Local = TRUE
 MaxTime = 2
 MaxCalls = 2
 MaxFaults = 1
 MaxRestarts = 1
INVARIANT WatchSafe
PROPERTIES Converges EmbeddingSafe EmbAnswers
CHECK_DEADLOCK FALSE
