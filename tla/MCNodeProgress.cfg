CONSTANTS
    me = me
    peer = peer
    x = x
    y = y
    Nil = Nil
    None = None
    Validator <- MCValidator
    Me = me
    Value <- OneValue
    Quorum <- BothQuorum
    SkipQuorum <- AnySkip
    Leader <- TurnsLead
    MaxRound = 1
    MaxRoundAhead = 1
    RoundWait = TRUE
    Stake = TRUE
    MaxCrashes = 1
    MaxResets = 0
    WriteFails = TRUE
    CanVote = {TRUE, FALSE}
    SkipReady = {TRUE}
    Valid = {TRUE}
    OfferedVotes <- ProgressVotes
    OfferedProposals <- NoProposals
    OfferedRounds <- NextRound
    OfferedFinalizes <- AnyFinalize
    MaxHeard = 2
    MaxLag = 2
    MaxTrouble = 2
    EarlyFrames = TRUE
SPECIFICATION FairNodeSpec
PROPERTY FinalityApplied
CHECK_DEADLOCK FALSE
