CONSTANTS
    me = me
    peer = peer
    x = x
    y = y
    Nil = Nil
    None = None
    Validator <- MCValidator
    Me = me
    Value <- MCValue
    MaxHeard = 2
    MaxLag = 2
    MaxTrouble = 2
    EarlyFrames = TRUE
    Quorum <- BothQuorum
    SkipQuorum <- AnySkip
    Leader <- PeerLeads
    MaxRound = 1
    MaxRoundAhead = 1
    RoundWait = FALSE
    Stake = FALSE
    MaxCrashes = 0
    MaxResets = 0
    WriteFails = FALSE
    CanVote = {TRUE, FALSE}
    SkipReady = {TRUE}
    Valid = {TRUE, FALSE}
    OfferedVotes <- PauseVotes
    OfferedProposals <- PauseProposals
    OfferedRounds <- NextRound
    OfferedFinalizes <- AnyFinalize
SPECIFICATION NodeSpec
CONSTRAINT Budget
INVARIANTS NeverStranded
PROPERTY VotingSpec
CHECK_DEADLOCK FALSE
