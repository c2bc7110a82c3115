CONSTANTS
    a = a
    b = b
    None = None
    Bad = Bad
    Ballot <- MCBallot
    VoteType = {"precommit"}
    MaxHeight = 2
    MaxRound = 2
    RoundEpoch = 2
    SeedRound = {1}
    MaxDeaths = 2
    MaxFaults = 2
SPECIFICATION LogSpec
SYMMETRY Symmetry
INVARIANTS LogTypeOK NeverContradicts ReleasedIsCovered
PROPERTY VotesAboveFloor
CHECK_DEADLOCK FALSE
