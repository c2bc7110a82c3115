------------------------------- MODULE Voting -------------------------------
(***************************************************************************)
(* What the voting of one height promises, stated over the votes that      *)
(* exist and nothing else.  An honest validator (a node running            *)
(* c_engine.ml behind c_driver.ml) casts at most one vote of each type in  *)
(* a round, precommits a value only behind a prevote quorum of that round  *)
(* (a proof of lock change, POLC), and never lets a prevote contradict an  *)
(* earlier precommit of its own unless a certificate of a round in         *)
(* between carries the new value.  Any other validator votes as it likes.  *)
(*                                                                         *)
(* There is no clock, no message and no "current round" here: those belong *)
(* to Engine.tla and Node.tla, whose behaviours are shown to be behaviours *)
(* of this specification.                                                  *)
(***************************************************************************)
EXTENDS Integers, FiniteSets

CONSTANTS
    Validator,  \* the validator set of the height
    Honest,     \* the members that run the node's code
    Value,      \* proposal ids
    Nil,        \* the all-zero hash, "no proposal this round"
    Quorum,     \* the sets of validators whose votes reach quorum
    MaxRound    \* bound on the rounds of the height

ASSUME ValidatorAssumption == Honest \subseteq Validator

ASSUME ValueAssumption == Nil \notin Value

ASSUME RoundAssumption == MaxRound \in Nat

\* Any two quorums share an honest validator.  QuorumRule.tla shows when the
\* quorum rules of c_types.ml give this.
ASSUME QuorumAssumption ==
    /\ Quorum \subseteq SUBSET Validator
    /\ \A Q1, Q2 \in Quorum : Q1 \cap Q2 \cap Honest # {}

Round == 0 .. MaxRound

Ballot == Value \cup {Nil}

Vote == Validator \X Round \X Ballot

VARIABLES
    prevotes,    \* every prevote that has been cast, <<validator, round, ballot>>
    precommits,  \* every precommit that has been cast
    decided      \* the <<round, value>> pairs finalized by some validator

vars == <<prevotes, precommits, decided>>

-----------------------------------------------------------------------------
\* The validators of a vote set that voted b in round r.
Voters(votes, r, b) == {p \in Validator : <<p, r, b>> \in votes}

\* The votes for b in round r reach quorum.
Certified(votes, r, b) == \E Q \in Quorum : Q \subseteq Voters(votes, r, b)

\* Mutant: a certificate older than the lock opens it.
ReleasedByOlder(v, lo, hi) ==
    \E r \in Round :
        /\ r < hi
        /\ Certified(prevotes, r, v) \/ Certified(precommits, r, v)

\* A prevote quorum, or the precommit quorum of a finalize message, that
\* carries v in a round strictly between lo and hi.
Released(v, lo, hi) ==
    \E r \in Round :
        /\ lo < r
        /\ r < hi
        /\ Certified(prevotes, r, v) \/ Certified(precommits, r, v)

HasVoted(votes, p, r) == \E b \in Ballot : <<p, r, b>> \in votes

-----------------------------------------------------------------------------
Init ==
    /\ prevotes = {}
    /\ precommits = {}
    /\ decided = {}

\* An honest prevote: the first of its round; a value is allowed only where
\* no earlier precommit of the validator for another value stands against it.
Prevote(p, r, b) ==
    /\ ~HasVoted(prevotes, p, r)
    /\ \A r0 \in Round, v0 \in Value \ {b} :
          (b # Nil /\ r0 < r /\ <<p, r0, v0>> \in precommits)
              => Released(b, r0, r)
    /\ prevotes' = prevotes \cup {<<p, r, b>>}
    /\ UNCHANGED <<precommits, decided>>

\* An honest precommit: the first of its round; a value needs the round's
\* prevote quorum.  A precommit that becomes visible late must still agree
\* with the prevotes of later rounds that were cast in the meantime.
Precommit(p, r, b) ==
    /\ ~HasVoted(precommits, p, r)
    /\ b # Nil => Certified(prevotes, r, b)
    /\ \A r1 \in Round, v1 \in Value \ {b} :
          (b # Nil /\ r < r1 /\ <<p, r1, v1>> \in prevotes)
              => Released(v1, r, r1)
    /\ precommits' = precommits \cup {<<p, r, b>>}
    /\ UNCHANGED <<prevotes, decided>>

\* Validators outside Honest vote for anything, as often as they like; what one
\* message shows of them may be the votes of several.
FaultyPrevote(S, r, b) ==
    /\ prevotes' = prevotes \cup {<<p, r, b>> : p \in S}
    /\ UNCHANGED <<precommits, decided>>

FaultyPrecommit(S, r, b) ==
    /\ precommits' = precommits \cup {<<p, r, b>> : p \in S}
    /\ UNCHANGED <<prevotes, decided>>

\* A value is finalized on the precommit quorum of one round.
Finalize(r, v) ==
    /\ Certified(precommits, r, v)
    /\ decided' = decided \cup {<<r, v>>}
    /\ UNCHANGED <<prevotes, precommits>>

Next ==
    \/ \E p \in Honest, r \in Round, b \in Ballot :
          Prevote(p, r, b) \/ Precommit(p, r, b)
    \/ \E S \in SUBSET (Validator \ Honest), r \in Round, b \in Ballot :
          FaultyPrevote(S, r, b) \/ FaultyPrecommit(S, r, b)
    \/ \E r \in Round, v \in Value : Finalize(r, v)

Spec == Init /\ [][Next]_vars

-----------------------------------------------------------------------------
\* The state has the shape the definitions above expect.
TypeOK ==
    /\ prevotes \subseteq Vote
    /\ precommits \subseteq Vote
    /\ decided \subseteq Round \X Value

\* No two finalized values differ, whatever the rounds they were finalized in:
\* the agreement that emit_local_finalize and accept_finalize_batch rely on.
Agreement == \A d, e \in decided : d[2] = e[2]

-----------------------------------------------------------------------------
\* The parts of the inductive invariant behind Agreement.

\* An honest validator has one ballot of each type in a round.
OneVote ==
    \A p \in Honest, r \in Round, b, c \in Ballot :
        /\ (<<p, r, b>> \in prevotes /\ <<p, r, c>> \in prevotes) => b = c
        /\ (<<p, r, b>> \in precommits /\ <<p, r, c>> \in precommits) => b = c

\* An honest precommit of a value stands on its round's prevote quorum.
PrecommitBacked ==
    \A p \in Honest, r \in Round, v \in Value :
        <<p, r, v>> \in precommits => Certified(prevotes, r, v)

\* An honest prevote in a later round agrees with an honest precommit, or a
\* certificate in between released it.
LockRespected ==
    \A p \in Honest, r, s \in Round, v, w \in Value :
        ( /\ r < s
          /\ v # w
          /\ <<p, r, v>> \in precommits
          /\ <<p, s, w>> \in prevotes ) => Released(w, r, s)

DecidedCertified ==
    \A d \in decided : Certified(precommits, d[1], d[2])

IInv ==
    /\ TypeOK
    /\ OneVote
    /\ PrecommitBacked
    /\ LockRespected
    /\ DecidedCertified

-----------------------------------------------------------------------------
\* What one node p knows of a height keeps the rules: pv and pc are the votes it
\* has cast or counted, dec what it has finalized.  These are the parts of IInv
\* for p alone; NodeKeepsRules of NodeProofs.tla shows them of the node's code.
KeepsRules(p, pv, pc, dec) ==
    /\ pv \subseteq Vote /\ pc \subseteq Vote /\ dec \subseteq Round \X Value
    /\ \A r \in Round, b, c \in Ballot :
          /\ (<<p, r, b>> \in pv /\ <<p, r, c>> \in pv) => b = c
          /\ (<<p, r, b>> \in pc /\ <<p, r, c>> \in pc) => b = c
    /\ \A r \in Round, v \in Value : <<p, r, v>> \in pc => Certified(pv, r, v)
    /\ \A r, s \in Round, v, w \in Value :
          (r < s /\ v # w /\ <<p, r, v>> \in pc /\ <<p, s, w>> \in pv) =>
              \E q \in Round : /\ r < q
                               /\ q < s
                               /\ Certified(pv, q, w) \/ Certified(pc, q, w)
    /\ \A d \in dec : Certified(pc, d[1], d[2])

\* A vote that a node has counted for an honest validator is one that this
\* validator has cast: votes carry signatures (verify_vote).
Authentic(views) ==
    \A p, q \in Honest, r \in Round, b \in Ballot :
        <<p, r, b>> \in views[q] => <<p, r, b>> \in views[p]

=============================================================================
