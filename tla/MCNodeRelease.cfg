CONSTANTS
    me = me
    peer = peer
    x = x
    y = y
    Nil = Nil
    None = None
    Validator <- MCValidator
    Me = me
    Value <- MCValue
    MaxHeard = 2
    MaxLag = 2
    MaxTrouble = 2
    EarlyFrames = FALSE
    Quorum <- PeerQuorum
    SkipQuorum <- PeerSkip
    Leader <- PeerLeads
    MaxRound = 2
    MaxRoundAhead = 1
    RoundWait = TRUE
    Stake = TRUE
    MaxCrashes = 1
    MaxResets = 0
    WriteFails = FALSE
    CanVote = {TRUE}
    SkipReady = {TRUE, FALSE}
    Valid = {TRUE}
    OfferedVotes <- ReleaseVotes
    OfferedProposals <- ReleaseProposals
    OfferedRounds <- NoRounds
    OfferedFinalizes <- ReleaseFinalize
SPECIFICATION NodeSpec
CONSTRAINT Budget
INVARIANTS PolcIsReal
PROPERTY VotingSpec
CHECK_DEADLOCK FALSE
