CONSTANTS
    base = base
    enhanced = enhanced
    other = other
    None = None
    MAX_LAYERS = 2
    FALLBACK_UPDATES = 2
    TOKEN = 2
    BUCKET_SIZE = 8
    TOKEN_GEN_RATE = 2
    Faces = {0, 1, 2}
    AppFaces = {0}
    InitialFaces = {0, 1, 2}
    Askers = {0}
    Routes = {1, 2}
    Names <- MCLayered
    ContentOf <- MCLayeredContent
    TagOf <- MCLayeredTag
    UseTokenBucket = FALSE
    MaxEngines = 1
    MaxUpdates = 3
    MaxPending = 1
    MaxResults <- MCLearningResults
SPECIFICATION Spec
INVARIANTS ColumnsAreDistributions HigherLayersDropFirst NeverOverdrawn MovedTrafficConserved
PROPERTY DroppedLayerRecovers
CHECK_DEADLOCK FALSE
