CONSTANTS
    c1 = c1
    c2 = c2
    u1 = u1
    u2 = u2
    base = base
    enhanced = enhanced
    Consumers = {c1, c2}
    Uplinks = {u1, u2}
    Names = {base, enhanced}
    LevelOf <- MCLevelOf
    First = {base, enhanced}
    LevelCount = 2
    SMOOTH_ALPHA = 10
    Parts = 2
    MaxLevelAllowed = 0
    DataRate = 4
    PACKET_BITS = 2
    Bitrate <- MCBitrate
    MaxAsked = 3
    MaxResets = 1
SYMMETRY MCSymmetry
SPECIFICATION Spec
INVARIANTS DropsWhatIsTooMuch NoneForgotten UplinkNotUndercounted
CHECK_DEADLOCK FALSE
