------------------------------ MODULE MCVoting ------------------------------
EXTENDS Voting, TLC
CONSTANTS a, b, f, x, y, FaultyVotes, NilVotes
MCValidator == {a, b, f}
MCHonest == {a, b}
MCValue == {x, y}
MCQuorum == {{a, b}, {a, f}, {a, b, f}}
\* At most FaultyVotes votes of validators outside Honest, and at most NilVotes
\* for nil.
Budget ==
    LET faulty(votes) == {v \in votes : v[1] = f}
        nil(votes) == {v \in votes : v[3] = Nil}
    IN  /\ Cardinality(faulty(prevotes)) + Cardinality(faulty(precommits)) <= FaultyVotes
        /\ Cardinality(nil(prevotes)) + Cardinality(nil(precommits)) <= NilVotes
Symmetry == Permutations(MCValue)
=============================================================================
