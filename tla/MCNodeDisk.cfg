CONSTANTS
    me = me
    peer = peer
    x = x
    y = y
    Nil = Nil
    None = None
    Validator <- MCValidator
    Me = me
    Value <- MCValue
    MaxHeard = 2
    MaxLag = 2
    MaxTrouble = 2
    EarlyFrames = FALSE
    Quorum <- BothQuorum
    SkipQuorum <- AnySkip
    Leader <- TurnsLead
    MaxRound = 1
    MaxRoundAhead = 1
    RoundWait = TRUE
    Stake = TRUE
    MaxCrashes = 1
    MaxResets = 0
    WriteFails = TRUE
    CanVote = {TRUE}
    SkipReady = {TRUE}
    Valid = {TRUE}
    OfferedVotes <- WaitVotes
    OfferedProposals <- LegacyProposals
    OfferedRounds <- NextRound
    OfferedFinalizes <- AnyFinalize
SPECIFICATION NodeSpec
CONSTRAINT Budget
SYMMETRY Symmetry
INVARIANTS NodeTypeOK SentIsDurable RecordsBoot
CHECK_DEADLOCK FALSE
