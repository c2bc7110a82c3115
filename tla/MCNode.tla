------------------------------- MODULE MCNode -------------------------------
(***************************************************************************)
(* One node and one peer.  Quorum, leaders and the offers of the peer are  *)
(* chosen per run.                                                         *)
(***************************************************************************)
EXTENDS Node, FiniteSets, TLC

CONSTANTS
    me, peer, x, y,
    MaxHeard,      \* bound on the votes of the peer that count at the node
    MaxLag,        \* bound on the outputs that wait for the output actor
    MaxTrouble,    \* bound on crashes and resets together
    EarlyFrames    \* frames come in while start waits for its peers

MCValidator == {me, peer}
MCValue == {x, y}

\* Two validators of equal weight: c_types.quorum asks for both.
BothQuorum == {{me, peer}}
\* The peer outweighs us: its votes alone reach quorum_weight.
PeerQuorum == {{peer}, {me, peer}}

\* round_skip_weight for the cases.
AnySkip == {{me}, {peer}, {me, peer}}
PeerSkip == {{peer}, {me, peer}}
\* We outweigh the peer, and the count of c_types.quorum asks for both (Stake).
MeSkip == {{me}, {me, peer}}

PeerLeads == [r \in 0 .. MaxRound |-> peer]
TurnsLead == [r \in 0 .. MaxRound |-> IF r % 2 = 0 THEN me ELSE peer]

\* Offers.
Prevotes(rounds, ballots) == {"prevote"} \X {peer} \X rounds \X ballots
Precommits(rounds, ballots) == {"precommit"} \X {peer} \X rounds \X ballots
Proposals(rounds, vals) ==
    {<<r, v, vr>> \in rounds \X vals \X (Round \cup {NoRound}) :
        vr < r /\ Leader[r] = peer}

LegacyVotes == Prevotes({0}, {x, y}) \cup Precommits({0}, {x, y})
LegacyProposals == Proposals({0, 1}, {x, y})
WaitVotes == Prevotes({0}, {x, y, Nil}) \cup Precommits({0}, {x, y, Nil})
ReleaseVotes == Prevotes({0}, {y}) \cup Prevotes({1}, {x})
ReleaseProposals == {<<0, y, NoRound>>, <<1, x, NoRound>>, <<2, y, 0>>, <<2, x, 1>>}
ReleaseFinalize == {<<1, x, {peer}>>}
PauseVotes == Prevotes({0}, {x, Nil}) \cup Precommits({0}, {x})
PauseProposals == {<<0, x, NoRound>>, <<1, y, NoRound>>}
OneValue == {x}
ProgressVotes == Prevotes({0}, {x}) \cup Precommits({0}, {x})
NoProposals == {}
NoRounds == {}
NoFinalize == {}
NextRound == {<<1, peer>>}
AnyFinalize == Round \X Value \X Quorum

Heard(t) == {vote \in known[t] : vote[1] # Me}

Budget ==
    /\ Cardinality(Heard("prevote")) + Cardinality(Heard("precommit")) <= MaxHeard
    /\ Len(e.outputs) <= MaxLag
    /\ crashes + resets <= MaxTrouble
    /\ EarlyFrames \/ started \/ ~up \/ e = Boot(log, journal)

Symmetry == Permutations(MCValue)
=============================================================================
