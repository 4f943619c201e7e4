SPECIFICATION Spec
CONSTANTS
    Claims = {c1, c2, c3}
    NoClaim = NoClaim
    MaxMessages = 2
SYMMETRY Symmetry
CHECK_DEADLOCK FALSE
INVARIANTS OneReader NothingSkipped
PROPERTIES CursorNeverMovesBack OnlyNewestClaimWrites
