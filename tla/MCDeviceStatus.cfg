SPECIFICATION Spec
CONSTANTS
    Reader = {r1, r2}
    MaxChunk = 2
    Widths = {1, 3}
    CacheInterval = 2
    HeavyInterval = 3
INVARIANT QuietBodiesAreWhole
PROPERTIES ResponsesEnd StatusFollowsLink
