CONSTANTS
    a = a
    b = b
    f = f
    x = x
    y = y
    Nil = Nil
    Validator <- MCValidator
    Honest <- MCHonest
    Value <- MCValue
    Quorum <- MCQuorum
    MaxRound = 2
    FaultyVotes = 1
    NilVotes = 1
SPECIFICATION Spec
CONSTRAINT Budget
SYMMETRY Symmetry
INVARIANTS Agreement
