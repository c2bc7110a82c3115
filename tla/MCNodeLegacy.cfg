CONSTANTS
    me = me
    peer = peer
    x = x
    y = y
    Nil = Nil
    None = None
    Validator <- MCValidator
    Me = me
    Value <- MCValue
    MaxHeard = 2
    MaxLag = 2
    MaxTrouble = 1
    EarlyFrames = FALSE
    Quorum <- BothQuorum
    SkipQuorum <- AnySkip
    Leader <- TurnsLead
    MaxRound = 1
    MaxRoundAhead = 1
    RoundWait = FALSE
    Stake = FALSE
    MaxCrashes = 1
    MaxResets = 1
    WriteFails = FALSE
    CanVote = {TRUE}
    SkipReady = {TRUE}
    Valid = {TRUE}
    OfferedVotes <- LegacyVotes
    OfferedProposals <- LegacyProposals
    OfferedRounds <- NextRound
    OfferedFinalizes <- AnyFinalize
SPECIFICATION NodeSpec
CONSTRAINT Budget
SYMMETRY Symmetry
INVARIANTS LockCoversSent MemoryFitsLog
PROPERTY VotingSpec
CHECK_DEADLOCK FALSE
