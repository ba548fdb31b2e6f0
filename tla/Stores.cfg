SPECIFICATION Spec
CONSTANTS
 StoreDocs = {"d", "e"}
 StorePath <- MCStorePath
 ChunksOf <- MCChunksOf
 Legacy = {"e"}
 StoreThreads = {t, u}
 MaxIds = 4
 MaxFsFails = 1
 MaxKills = 1
 RemDocs = {"d", "e"}
 RemPath <- MCRemPath
 RemThreads = {t, u}
 MaxPosts = 5
 MaxTimeouts = 1
 MaxRefusals = 1
 QBases = {"b", "c"}
 QDocs = {"d", "e", "f"}
 QOwner <- MCQOwner
 QHome <- MCQHome
 QPath <- MCQPath
 NoTenant = "nobody"
 MaxQFails = 1
 Lessons = {"l", "m"}
 Corpora <- MCCorpora
 Ingests = {"r", "s", "v"}
 MaxLessonFails = 1
 TreePaths = {"a", "b", "c"}
 OtherPaths = {"x"}
 Matching = {"a", "b"}
 PageLimit = 2
 MaxTreeEdits = 1
 EntityNames = {"a", "b", "c", "d"}
 GraphChunks = {"1", "2", "3"}
 Says <- MCSays
 Like <- MCLike
 HopLimits = {0, 1, 2}
 MaxChunks = 2
 GraphBuilds = {"v", "w"}
 Documents <- MCDocuments
 ChunkSize = 4
 ChunkOverlap = 2
 MaxStatements = 4
 Auditors = {t, u}
 Retention = 1
 ReapEvery = 2
 PageSize = 1
 MaxRows = 3
 MaxHours = 2
 MaxExports = 1
 MaxOpens = 1
 Tracers = {t, u}
 FileSize = 1
 KeepFiles = 2
 MaxLines = 5
 Searchers = {t, u}
 Builtins = {"code"}
 Names = {"code", "mine"}
 MaxSearches = 3
 MaxStarts = 1
 Callers = {t, u}
 Tenants = {"A", "B"}
 Tokens = {"t"}
 TokenTenant <- MCTokenTenant
 Keys = {"k1", "k2"}
 KeyPrefixes <- MCKeyPrefixes
 OldKeys <- MCOldKeys
 Inputs <- MCInputs
 BaseIds = {"b"}
 Projects = {"p"}
 CacheTtl = 1
 MaxArrivals = 2
 MaxClock = 2
 MaxReconfigs = 1
 CatDocs = {"d", "e"}
 CatChunks = 2
 MetaKeys = {"status", "superseded_by"}
 CatThreads = {t, u}
 MaxCatCalls = 3
 MaxCatFails = 1
 MaxCatKills = 1
INVARIANTS    GraphSafe  AstSafe TrajectorySafe
PROPERTIES  RemoteSafe  SidesApart  ConnSafe
SYMMETRY Interchangeable
CHECK_DEADLOCK FALSE
