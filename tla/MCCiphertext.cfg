CONSTANTS
    HalfWord = 2
    B = 3
    G = 2
    CircuitMask <- MCCircuitMask
    LegacyMask <- MCLegacyMask
    Tapes = {1, 2}
    OldTapes = {1}
    OpTapes = {1}
    Plain <- MCPlain
    Consts <- MCConsts
    HalfWords = {2, 4, 8}
    K = 2
    RepackEdges = 2
    MaskAttempts = 2
    RecryptRounds = 2
    EdgeBudget = 8
    MaxFresh = 2
    MaxHandles = 4
    MaxProducts = 6
SPECIFICATION Spec
INVARIANTS CipherTypeOK DecryptsRight RejectsForCause LayersKeepMeaning SavedCipherReadsBack WordsAgree InversesAgree
CHECK_DEADLOCK FALSE
