CONSTANTS
    me = me
    peer = peer
    x = x
    y = y
    Nil = Nil
    None = None
    Validator <- MCValidator
    Me = me
    Value <- MCValue
    MaxHeard = 2
    MaxLag = 2
    MaxTrouble = 1
    EarlyFrames = TRUE
    Quorum <- BothQuorum
    SkipQuorum <- MeSkip
    Leader <- TurnsLead
    MaxRound = 1
    MaxRoundAhead = 1
    RoundWait = TRUE
    Stake = TRUE
    MaxCrashes = 1
    MaxResets = 1
    WriteFails = FALSE
    CanVote = {TRUE}
    SkipReady = {TRUE, FALSE}
    Valid = {TRUE}
    OfferedVotes <- WaitVotes
    OfferedProposals <- LegacyProposals
    OfferedRounds <- NextRound
    OfferedFinalizes <- AnyFinalize
SPECIFICATION NodeSpec
CONSTRAINT Budget
SYMMETRY Symmetry
INVARIANTS NeverStranded
PROPERTY VotingSpec
CHECK_DEADLOCK FALSE
