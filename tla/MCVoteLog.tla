------------------------------ MODULE MCVoteLog ------------------------------
EXTENDS VoteLog, TLC

CONSTANTS a, b

MCBallot == {a, b}

Symmetry == Permutations(MCBallot)
=============================================================================
