----------------------------- MODULE QuorumRule -----------------------------
(***************************************************************************)
(* When a set of votes is a quorum: the three rules of c_types.ml (Prior:  *)
(* weight alone; Capped: capped weight and count; Stake: weight and        *)
(* count), the vote set that counts votes one by one (c_engine.ml), and    *)
(* the check of a finished certificate (c_qc.ml), which starts again from  *)
(* the list of its signers.                                                *)
(*                                                                         *)
(* Two vote sets are filled, at two nodes and for two different values; a  *)
(* validator in both has signed twice.                                     *)
(***************************************************************************)
EXTENDS Integers, FiniteSetsExt

CONSTANTS
    Validator,   \* the members of the set
    StakeSets,   \* the weights the chain may give them, functions on Validator
    Rules,       \* the rules considered, members of Rule
    Weighted     \* whether the set carries stake (make_weighted_validator_set)

Rule == {"prior", "capped", "stake"}

ASSUME ValidatorsAssumption == IsFiniteSet(Validator) /\ Validator # {}

ASSUME StakesAssumption ==
    /\ StakeSets \subseteq [Validator -> Nat \ {0}]
    /\ Rules \subseteq Rule
    /\ Weighted \subseteq BOOLEAN

\* The two vote sets.
Side == {"left", "right"}

-----------------------------------------------------------------------------
(* Validator sets *)

WeightOf(weight, S) == MapThenSumSet(LAMBDA p : weight[p], S)

Faults(n) == (n - 1) \div 3

\* Mutant: two thirds of the members, rounded down.
QuorumCountFloor(n) == (2 * n) \div 3

QuorumCount(n) == IF n < 4 THEN n ELSE n - Faults(n)

\* Mutant: two thirds, rounded down.
QuorumWeightFloor(total) == (2 * total) \div 3

QuorumWeight(total) == (2 * total) \div 3 + 1

BuildValidatorSet(weight, weighted) ==
    LET n == Cardinality(Validator)
        total == WeightOf(weight, Validator)
    IN  [weight |-> weight, weighted |-> weighted, f |-> Faults(n),
         quorum |-> QuorumCount(n), total |-> total,
         quorum_weight |-> QuorumWeight(total)]

CapEntries(cap, weight) == [p \in Validator |-> Min({weight[p], cap})]

LargestWeightSum(count, weight) ==
    Max({WeightOf(weight, S) : S \in kSubset(count, Validator)})

\* The heaviest f members may be silent and the rest is still a quorum.
CountLiveAtCap(faults, cap, weight) ==
    LET capped == CapEntries(cap, weight)
        total == WeightOf(capped, Validator)
    IN  total - LargestWeightSum(faults, capped) >= QuorumWeight(total)

\* Mutant: the largest weight is the cap.
CountWeightCapUnchecked(vs) == Max({vs.weight[p] : p \in Validator})

\* count_weight_cap: a binary search between 1 and the largest weight.
CountWeightCap(vs) ==
    LET maximum == Max({vs.weight[p] : p \in Validator})
        search[b \in (1 .. maximum) \X (1 .. maximum)] ==
            LET middle == (b[1] + b[2] + 1) \div 2
            IN  IF b[1] >= b[2] THEN b[1]
                ELSE IF CountLiveAtCap(vs.f, middle, vs.weight)
                THEN search[<<middle, b[2]>>]
                ELSE search[<<b[1], middle - 1>>]
    IN  IF vs.f <= 0 \/ CountLiveAtCap(vs.f, maximum, vs.weight) THEN maximum
        ELSE search[<<1, maximum>>]

CountCappedSet(vs) ==
    IF ~vs.weighted \/ Cardinality(Validator) < 4 THEN vs
    ELSE BuildValidatorSet(CapEntries(CountWeightCap(vs), vs.weight), TRUE)

ValidatorSetForRule(rule, vs) == IF rule = "capped" THEN CountCappedSet(vs) ELSE vs

WeightsValid(rule, vs) == rule # "stake" \/ vs.weighted

-----------------------------------------------------------------------------
(* Quorums *)

\* quorum_reached_at, from the counters of a vote set.
QuorumReached(rule, vs, count, weight) ==
    /\ WeightsValid(rule, vs)
    /\ weight >= vs.quorum_weight
    /\ rule = "prior" \/ count >= vs.quorum

\* has_quorum_for_rule, from the list of signers of a certificate.
HasQuorumForRule(rule, vs, signers) ==
    LET effective == ValidatorSetForRule(rule, vs)
    IN  /\ WeightsValid(rule, vs)
        /\ WeightOf(effective.weight, signers) >= effective.quorum_weight
        /\ rule = "prior" \/ Cardinality(signers) >= effective.quorum

\* Mutant: the round skip needs one unit less.
RoundSkipWeightLow(vs) == vs.total - vs.quorum_weight

RoundSkipWeight(vs) == vs.total - vs.quorum_weight + 1

\* round_skip_reached_at.
RoundSkipReached(rule, vs, count, weight) ==
    /\ WeightsValid(rule, vs)
    /\ weight >= RoundSkipWeight(vs)
    /\ rule = "prior" \/ count >= vs.f + 1

-----------------------------------------------------------------------------
VARIABLES
    rule,     \* the rule of the height
    given,    \* the validator set as the chain gives it
    vs,       \* the engine's set, after validator_set_for_epoch
    tally     \* per side: votes (who signed), count and weight for the value

ruleVars == <<rule, given, vs, tally>>

EmptyTally == [votes |-> {}, count |-> 0, weight |-> 0]

QuorumInit ==
    /\ rule \in Rules
    /\ \E weight \in StakeSets, weighted \in Weighted :
          /\ ~weighted => \A p \in Validator : weight[p] = 1   \* make_validator_set
          /\ given = BuildValidatorSet(weight, weighted)
    /\ vs = ValidatorSetForRule(rule, given)
    /\ tally = [s \in Side |-> EmptyTally]

\* Mutant: a vote that comes again counts again.
AddVoteAgain(s, p) ==
    /\ tally[s].count < 2 * Cardinality(Validator)
    /\ tally' = [tally EXCEPT ![s].votes = @ \cup {p},
                              ![s].count = @ + 1,
                              ![s].weight = @ + vs.weight[p]]
    /\ UNCHANGED <<rule, given, vs>>

\* add_vote: a vote of p for the side's value; a second one is `Duplicate.
AddVote(s, p) ==
    /\ p \notin tally[s].votes
    /\ tally' = [tally EXCEPT ![s].votes = @ \cup {p},
                              ![s].count = @ + 1,
                              ![s].weight = @ + vs.weight[p]]
    /\ UNCHANGED <<rule, given, vs>>

QuorumNext == \E s \in Side, p \in Validator : AddVote(s, p)

QuorumSpec == QuorumInit /\ [][QuorumNext]_ruleVars

Reached(s) == QuorumReached(rule, vs, tally[s].count, tally[s].weight)

Skips(s) == RoundSkipReached(rule, vs, tally[s].count, tally[s].weight)

SignedTwice == tally["left"].votes \cap tally["right"].votes

-----------------------------------------------------------------------------
(* Properties *)

\* A vote set and a certificate agree: a node finalizes by the counters of its
\* vote set (quorum_reached_at) exactly where another node accepts the signers as
\* a certificate (has_quorum_for_rule), from the engine's set, which is capped
\* already and is capped again, and from the chain's.
CertificateAgrees ==
    \A s \in Side :
        /\ Reached(s) = HasQuorumForRule(rule, vs, tally[s].votes)
        /\ Reached(s) = HasQuorumForRule(rule, given, tally[s].votes)

\* Two quorums for different values need signers of more than a third of the
\* weight to sign twice.
WeightQuorumsMeet ==
    Reached("left") /\ Reached("right") => 3 * WeightOf(vs.weight, SignedTwice) > vs.total

\* Under the rules that count signers (count >= vs.quorum), they also need more
\* than f signers to sign twice, whatever the weights.
CountQuorumsMeet ==
    rule # "prior" /\ Reached("left") /\ Reached("right")
        => Cardinality(SignedTwice) > Faults(Cardinality(Validator))

\* Capping keeps the chain live by count: under the Capped rule the heaviest f
\* validators of a set of four or more can be silent and the others still decide.
CappedIsLive ==
    \A s \in Side :
        (rule = "capped" /\ tally[s].count >= Cardinality(Validator) - Faults(Cardinality(Validator)))
            => Reached(s)

\* A round is skipped only when the validators still behind cannot decide it by
\* themselves: no quorum is disjoint from the signers of a skip.
SkipBlocksQuorum ==
    Skips("left") /\ Reached("right") => SignedTwice # {}

=============================================================================
