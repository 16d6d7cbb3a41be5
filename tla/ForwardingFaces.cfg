CONSTANTS
    base = base
    enhanced = enhanced
    other = other
    None = None
    MAX_LAYERS = 1
    FALLBACK_UPDATES = 2
    TOKEN = 2
    BUCKET_SIZE = 8
    TOKEN_GEN_RATE = 15
    Faces = {0, 1, 2}
    AppFaces = {0}
    InitialFaces = {1, 2}
    Askers = {0, 1}
    Routes = {1, 2}
    Names <- MCContents
    ContentOf <- MCContentsContent
    TagOf <- MCContentsTag
    UseTokenBucket = TRUE
    MaxEngines = 2
    MaxUpdates = 0
    MaxPending = 2
    MaxResults <- MCOneResult
SPECIFICATION FairSpec
INVARIANT EngineComplete
PROPERTIES NeverSentBack TokensShared ReplacedEngineFreed PropagationEnds
CHECK_DEADLOCK FALSE
