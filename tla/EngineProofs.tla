---------------------------- MODULE EngineProofs ----------------------------
(***************************************************************************)
(* What every handler of the engine keeps, for any validators, values,     *)
(* quorums and rounds.  NodeProofs builds the invariants of the node on    *)
(* these three families of lemmas, one lemma per operator of Engine.       *)
(*                                                                         *)
(* Fits(e, lg, sv): the types of the engine's record, and how its own      *)
(* votes, its lock and its outputs fit each other, a vote log lg and a set *)
(* sv of own votes on their way to the log.                                *)
(* Stands(e, w): the votes that its lock, its POLCs, its precommits and    *)
(* its finality rest on exist in the world w around it, and its prevotes   *)
(* keep the rule of the lock.                                              *)
(* Timed(e): the step it waits in has a timer, or is one that the code     *)
(* means to wait without.                                                  *)
(***************************************************************************)
EXTENDS Engine, TLAPS, WellFoundedInduction

VoteTable == [VoteType -> [Round -> [Validator -> Ballot \cup {None}]]]
LogTable == [VoteType -> [Round -> Ballot \cup {None}]]

\* The node's own vote.
Own(e, t, r) == e.votes[t][r][Me]

\* No own vote and no stored vote lies ahead of the engine, and one that is
\* stored for its round is in the tables.
NothingAhead(e, lg) ==
    \A t \in VoteType, r \in Round :
        /\ r > e.round => Own(e, t, r) = None /\ lg[t][r] = None
        /\ r = e.round /\ Own(e, t, r) = None => lg[t][r] = None

\* The tables agree with the log.
TablesFitLog(e, lg) ==
    \A t \in VoteType, r \in Round :
        Own(e, t, r) # None /\ lg[t][r] # None => Own(e, t, r) = lg[t][r]

\* An own precommit of the round ends the engine's voting in it.
StepFits(e) == Own(e, "precommit", e.round) # None => e.step = "precommit"

\* What waits for the output actor or for the disk is in the tables.
OutputsHeld(e) ==
    \A i \in DOMAIN e.outputs :
        e.outputs[i].kind = "vote" =>
            Own(e, e.outputs[i].type, e.outputs[i].round) = e.outputs[i].ballot

SavesHeld(e, sv) ==
    \A x \in sv : x \in VoteType \X Round \X Ballot /\ Own(e, x[1], x[2]) = x[3]

\* The lock stands at or above every precommit for a value, held or stored.
LockCovers(e, lg) ==
    \A r \in Round, v \in Value :
        (Own(e, "precommit", r) = v \/ lg["precommit"][r] = v) =>
            \/ e.locked_round > r
            \/ e.locked_round = r /\ e.locked_value = v

\* A lock has its proposal at hand, or a finality behind it.
LockKnown(e) ==
    e.locked_round >= 0 =>
        /\ e.locked_value \in Value
        /\ \/ e.pending_finalized # None
           \/ e.locked_round <= e.round /\ HasMessage(e, e.locked_value, e.locked_round)

\* A valid round comes with its value.
ValidKnown(e) == e.valid_round >= 0 => e.valid_value \in Value

Fits(e, lg, sv) ==
    /\ e \in EngineState
    /\ NothingAhead(e, lg)
    /\ TablesFitLog(e, lg)
    /\ StepFits(e)
    /\ OutputsHeld(e)
    /\ SavesHeld(e, sv)
    /\ LockCovers(e, lg)
    /\ LockKnown(e)
    /\ ValidKnown(e)

\* f is e but for what Fits does not look at, for the votes and for the outputs;
\* proposal messages are only added.
Around(e, f) ==
    /\ f \in EngineState
    /\ f.round = e.round
    /\ f.step = e.step
    /\ f.locked_round = e.locked_round
    /\ f.locked_value = e.locked_value
    /\ f.finalized = e.finalized
    /\ f.pending_finalized = e.pending_finalized
    /\ f.generation = e.generation
    /\ \A v \in Value, r \in Round : HasMessage(e, v, r) => HasMessage(f, v, r)
    /\ ValidKnown(e) => ValidKnown(f)

Aside(e, f) == Around(e, f) /\ f.votes = e.votes /\ f.outputs = e.outputs

-----------------------------------------------------------------------------
(* Sets of rounds *)

\* A nonempty set of naturals has a least member.
LEMMA LeastNatural ==
    ASSUME NEW T, T \subseteq Nat, T # {}
    PROVE  \E x \in T : \A y \in T : x <= y
<1> DEFINE R == OpToRel(<, Nat)
<1>1. IsWellFoundedOn(R, Nat)
  BY NatLessThanWellFounded
<1>2. \A x, y \in T : <<y, x>> \in R <=> y < x
  BY DEF OpToRel
<1> HIDE DEF R
<1>3. PICK x \in T : \A y \in T : ~(<<y, x>> \in R)
  BY <1>1, WFMin
<1>4. ASSUME NEW y \in T PROVE x <= y
  <2>1. x \in Nat /\ y \in Nat
    OBVIOUS
  <2>2. ~(y < x)
    BY <1>2, <1>3
  <2> QED BY <2>1, <2>2
<1> QED BY <1>4

\* Max of a nonempty bounded set of naturals is its greatest member.
LEMMA MaxIsGreatest ==
    ASSUME NEW n \in Nat, NEW S, S \subseteq 0 .. n, S # {}
    PROVE  Max(S) \in S /\ \A y \in S : y <= Max(S)
<1> DEFINE T == {k \in Nat : n - k \in S}
<1>1. T \subseteq Nat
  OBVIOUS
<1>2. PICK z \in S : TRUE
  OBVIOUS
<1>3. n - z \in Nat /\ n - (n - z) = z
  BY <1>2
<1>4. n - z \in T
  BY <1>3
<1>5. PICK x \in T : \A y \in T : x <= y
  <2> HIDE DEF T
  <2> QED BY <1>1, <1>4, LeastNatural
<1>6. ASSUME NEW y \in S PROVE n - x >= y
  <2>1. y \in 0 .. n /\ n - y \in Nat /\ n - (n - y) = y
    OBVIOUS
  <2>2. n - y \in T
    BY <2>1
  <2> QED BY <2>1, <2>2, <1>5
<1>7. n - x \in S
  BY <1>5
<1>8. Max(S) \in S /\ \A y \in S : Max(S) >= y
  BY <1>6, <1>7 DEF Max
<1>9. ASSUME NEW y \in S PROVE y <= Max(S)
  BY <1>8
<1> QED BY <1>8, <1>9

\* Max of a nonempty set of rounds.
LEMMA MaxRoundOf ==
    ASSUME NEW S \in SUBSET Round, S # {}
    PROVE  Max(S) \in S /\ Max(S) \in Round /\ \A y \in S : y <= Max(S)
BY MaxIsGreatest, EngineAssumption DEF Round

-----------------------------------------------------------------------------
(* What Fits does not look at *)

\* Leaving the engine alone is a change aside of its votes.
LEMMA AsideSelf == ASSUME NEW e \in EngineState PROVE Aside(e, e)
BY DEF Aside, Around

\* Two changes aside of the votes make one.
LEMMA AsideTrans ==
    ASSUME NEW e, NEW f, NEW g, Aside(e, f), Aside(f, g)
    PROVE  Aside(e, g)
BY DEF Aside, Around

\* A change aside keeps everything.
LEMMA AsideFits ==
    ASSUME NEW e, NEW f, NEW lg, NEW sv, Fits(e, lg, sv), Aside(e, f)
    PROVE  Fits(f, lg, sv)
<1>1. /\ f \in EngineState /\ NothingAhead(f, lg) /\ TablesFitLog(f, lg) /\ StepFits(f)
      /\ ValidKnown(f)
  BY DEF Fits, Aside, Around, NothingAhead, TablesFitLog, StepFits, Own
<1>2. OutputsHeld(f) /\ SavesHeld(f, sv) /\ LockCovers(f, lg)
  BY DEF Fits, Aside, Around, OutputsHeld, SavesHeld, LockCovers, Own
<1>3. LockKnown(f)
  <2> SUFFICES ASSUME f.locked_round >= 0
               PROVE  /\ f.locked_value \in Value
                      /\ \/ f.pending_finalized # None
                         \/ /\ f.locked_round <= f.round
                            /\ HasMessage(f, f.locked_value, f.locked_round)
    BY DEF LockKnown
  <2>1. /\ e.locked_value \in Value
        /\ \/ e.pending_finalized # None
           \/ e.locked_round <= e.round /\ HasMessage(e, e.locked_value, e.locked_round)
    BY DEF Fits, LockKnown, Aside, Around
  <2>2. e.locked_round \in Round
    BY DEF Fits, Aside, Around, EngineState, NoRound
  <2> QED BY <2>1, <2>2 DEF Aside, Around
<1> QED BY <1>1, <1>2, <1>3 DEF Fits

\* The fields that only the proposals, the timers and the round reports touch.
LEMMA FieldsAside ==
    ASSUME NEW e \in EngineState
    PROVE  /\ \A r \in Round, v \in Value :
                 Aside(e, [e EXCEPT !.valid_round = r, !.valid_value = v])
           /\ \A w \in [Round -> Value \cup {None}] :
                 Aside(e, [e EXCEPT !.polc_by_round = w])
           /\ \A w \in [Value -> {"none", "header", "bundle"}] :
                 Aside(e, [e EXCEPT !.proposal_cache = w])
           /\ \A w \in [Validator -> Int] :
                 Aside(e, [e EXCEPT !.higher_round_evidence = w])
           /\ \A a \in BOOLEAN : Aside(e, [e EXCEPT !.armed = a])
           /\ \A a \in BOOLEAN, w \in SUBSET Step :
                 Aside(e, [e EXCEPT !.armed = a, !.vote_timers = w])
           /\ \A w \in SUBSET Step : Aside(e, [e EXCEPT !.vote_timers = w])
           /\ \A b \in Ballot \cup {None} : Aside(e, [e EXCEPT !.pending_prevote = b])
<1>1. \A r \in Round, v \in Value : Aside(e, [e EXCEPT !.valid_round = r, !.valid_value = v])
  BY DEF EngineState, Aside, Around, HasMessage, ValidKnown
<1>2. \A w \in [Round -> Value \cup {None}] : Aside(e, [e EXCEPT !.polc_by_round = w])
  BY DEF EngineState, Aside, Around, HasMessage, ValidKnown
<1>3. \A w \in [Value -> {"none", "header", "bundle"}] :
         Aside(e, [e EXCEPT !.proposal_cache = w])
  BY DEF EngineState, Aside, Around, HasMessage, ValidKnown
<1>4. \A w \in [Validator -> Int] : Aside(e, [e EXCEPT !.higher_round_evidence = w])
  BY DEF EngineState, Aside, Around, HasMessage, ValidKnown
<1>5. \A a \in BOOLEAN : Aside(e, [e EXCEPT !.armed = a])
  BY DEF EngineState, Aside, Around, HasMessage, ValidKnown
<1>6. \A a \in BOOLEAN, w \in SUBSET Step : Aside(e, [e EXCEPT !.armed = a, !.vote_timers = w])
  BY DEF EngineState, Aside, Around, HasMessage, ValidKnown
<1>7. \A w \in SUBSET Step : Aside(e, [e EXCEPT !.vote_timers = w])
  BY DEF EngineState, Aside, Around, HasMessage, ValidKnown
<1>8. \A b \in Ballot \cup {None} : Aside(e, [e EXCEPT !.pending_prevote = b])
  BY DEF EngineState, Aside, Around, HasMessage, ValidKnown
<1> QED BY <1>1, <1>2, <1>3, <1>4, <1>5, <1>6, <1>7, <1>8

\* promote_known_header.
LEMMA PromoteKnownHeaderAside ==
    ASSUME NEW e \in EngineState, NEW r \in Round, NEW v \in Value
    PROVE  Aside(e, PromoteKnownHeader(e, r, v))
BY FieldsAside, AsideSelf DEF PromoteKnownHeader

\* record_polc.
LEMMA RecordPolcAside ==
    ASSUME NEW e \in EngineState, NEW r \in Round, NEW b \in Ballot
    PROVE  Aside(e, RecordPolc(e, r, b))
<1>1. CASE b = Nil
  BY <1>1, AsideSelf DEF RecordPolc
<1>2. CASE b # Nil
  <2> DEFINE w == [e.polc_by_round EXCEPT ![r] = b]
             f == [e EXCEPT !.polc_by_round[r] = b]
  <2>1. b \in Value
    BY <1>2 DEF Ballot
  <2>2. w \in [Round -> Value \cup {None}]
    BY <2>1 DEF EngineState
  <2>3. f = [e EXCEPT !.polc_by_round = w]
    OBVIOUS
  <2> HIDE DEF w
  <2>4. Aside(e, f)
    BY <2>2, <2>3, FieldsAside
  <2>5. RecordPolc(e, r, b) = PromoteKnownHeader(f, r, b)
    BY <1>2 DEF RecordPolc
  <2> HIDE DEF f
  <2>6. Aside(f, PromoteKnownHeader(f, r, b))
    BY <2>1, <2>4, PromoteKnownHeaderAside DEF Aside, Around
  <2> QED BY <2>4, <2>5, <2>6, AsideTrans
<1> QED BY <1>1, <1>2

\* promote_cached_polc.
LEMMA PromoteCachedPolcAside ==
    ASSUME NEW e \in EngineState, NEW v \in Value
    PROVE  Aside(e, PromoteCachedPolc(e, v))
<1> DEFINE rounds == {r \in Round : e.polc_by_round[r] = v}
<1>1. rounds # {} => Max(rounds) \in Round
  <2>1. rounds \in SUBSET Round
    OBVIOUS
  <2> HIDE DEF rounds
  <2> QED BY <2>1, MaxRoundOf
<1>2. PromoteCachedPolc(e, v) =
        IF rounds = {} THEN e ELSE PromoteKnownHeader(e, Max(rounds), v)
  BY DEF PromoteCachedPolc
<1> HIDE DEF rounds
<1> QED BY <1>1, <1>2, AsideSelf, PromoteKnownHeaderAside

\* cache_proposal_message.
LEMMA CacheProposalMessageAside ==
    ASSUME NEW e \in EngineState, NEW v \in Value, NEW r \in Round,
           NEW vr \in Round \cup {NoRound}
    PROVE  /\ Aside(e, CacheProposalMessage(e, v, r, vr))
           /\ HasMessage(CacheProposalMessage(e, v, r, vr), v, r)
<1> DEFINE c == [e.proposal_cache EXCEPT ![v] = "bundle"]
           m == [e.proposal_messages EXCEPT ![v][r] = vr]
           f == [e EXCEPT !.proposal_cache[v] = "bundle", !.proposal_messages[v][r] = vr]
<1>1. c \in [Value -> {"none", "header", "bundle"}]
  BY DEF EngineState
<1>2. e.proposal_messages \in [Value -> [Round -> Round \cup {NoRound, NoMessage}]]
  BY DEF EngineState
<1>3. m \in [Value -> [Round -> Round \cup {NoRound, NoMessage}]]
  BY <1>2
<1>4. \A w \in Value, s \in Round :
         m[w][s] = IF w = v /\ s = r THEN vr ELSE e.proposal_messages[w][s]
  BY <1>2
<1>5. f = [e EXCEPT !.proposal_cache = c, !.proposal_messages = m]
  OBVIOUS
<1>6. vr # NoMessage
  BY EngineAssumption DEF Round, NoRound, NoMessage
<1> HIDE DEF c, m
<1>7. f \in EngineState /\ f.proposal_messages = m
  BY <1>1, <1>3, <1>5 DEF EngineState
<1>8. Aside(e, f)
  <2>1. /\ f.round = e.round /\ f.step = e.step
        /\ f.locked_round = e.locked_round /\ f.locked_value = e.locked_value
        /\ f.finalized = e.finalized /\ f.pending_finalized = e.pending_finalized
        /\ f.generation = e.generation /\ f.votes = e.votes /\ f.outputs = e.outputs
        /\ f.valid_round = e.valid_round /\ f.valid_value = e.valid_value
    BY <1>5 DEF EngineState
  <2>2. \A w \in Value, s \in Round : HasMessage(e, w, s) => HasMessage(f, w, s)
    BY <1>4, <1>6, <1>7 DEF HasMessage
  <2> QED BY <1>7, <2>1, <2>2 DEF Aside, Around, ValidKnown
<1>9. HasMessage(f, v, r)
  BY <1>4, <1>6, <1>7 DEF HasMessage
<1>10. CacheProposalMessage(e, v, r, vr) = PromoteCachedPolc(f, v)
  BY DEF CacheProposalMessage
<1> HIDE DEF f
<1>11. Aside(f, PromoteCachedPolc(f, v))
  BY <1>7, PromoteCachedPolcAside
<1>12. HasMessage(PromoteCachedPolc(f, v), v, r)
  BY <1>9, <1>11 DEF Aside, Around
<1> QED BY <1>8, <1>10, <1>11, <1>12, AsideTrans

\* cache_proposal_header_only.
LEMMA CacheHeaderAside ==
    ASSUME NEW e \in EngineState, NEW v \in Value
    PROVE  Aside(e, CacheProposalHeaderOnly(e, v))
<1> DEFINE c == [e.proposal_cache EXCEPT ![v] = "header"]
<1>1. c \in [Value -> {"none", "header", "bundle"}]
  BY DEF EngineState
<1>2. CacheProposalHeaderOnly(e, v) = IF e.proposal_cache[v] = "none"
         THEN [e EXCEPT !.proposal_cache = c] ELSE e
  BY DEF CacheProposalHeaderOnly
<1> HIDE DEF c
<1> QED BY <1>1, <1>2, FieldsAside, AsideSelf

\* learn_prevote.
LEMMA LearnPrevoteAside ==
    ASSUME NEW e \in EngineState, NEW r \in Round, NEW p, NEW b \in Ballot
    PROVE  Aside(e, LearnPrevote(e, r, p, b))
BY RecordPolcAside, AsideSelf DEF LearnPrevote

\* schedule_step_timeout.
LEMMA ScheduleAside ==
    ASSUME NEW e \in EngineState, NEW step \in Step
    PROVE  Aside(e, Schedule(e, step))
<1> DEFINE w == e.vote_timers \cup {step}
<1>1. w \in SUBSET Step
  BY DEF EngineState
<1>2. Schedule(e, step) \in
        {e, [e EXCEPT !.armed = TRUE], [e EXCEPT !.armed = TRUE, !.vote_timers = w]}
  BY DEF Schedule
<1> HIDE DEF w
<1>3. /\ Aside(e, [e EXCEPT !.armed = TRUE])
      /\ Aside(e, [e EXCEPT !.armed = TRUE, !.vote_timers = w])
  BY <1>1, FieldsAside
<1> QED BY <1>2, <1>3, AsideSelf

\* record_higher_round.
LEMMA RecordHigherRoundAside ==
    ASSUME NEW e \in EngineState, NEW r \in Round, NEW p \in Validator, NEW ahead
    PROVE  Aside(e, RecordHigherRound(e, r, p, ahead))
<1> DEFINE w == [e.higher_round_evidence EXCEPT ![p] = r]
<1>1. w \in [Validator -> Int]
  BY DEF EngineState, Round
<1>2. RecordHigherRound(e, r, p, ahead) \in {e, [e EXCEPT !.higher_round_evidence = w]}
  BY DEF RecordHigherRound
<1> HIDE DEF w
<1> QED BY <1>1, <1>2, FieldsAside, AsideSelf

-----------------------------------------------------------------------------
(* The steps of the engine's own voting *)

\* Facts about a typed engine that the steps below need.
LEMMA EngineTypes ==
    ASSUME NEW e \in EngineState
    PROVE  /\ e.votes \in VoteTable
           /\ e.round \in Round /\ e.round \in Nat
           /\ e.locked_round \in Round \cup {NoRound} /\ e.locked_round \in Int
           /\ e.outputs \in Seq(Output)
           /\ e.generation \in Nat
           /\ \A t \in VoteType, r \in Round : Own(e, t, r) \in Ballot \cup {None}
<1>1. e.votes \in VoteTable
  BY DEF EngineState, VoteTable
<1>2. /\ e.round \in Round
      /\ e.locked_round \in Round \cup {NoRound}
      /\ e.outputs \in Seq(Output)
      /\ e.generation \in Nat
  BY DEF EngineState
<1>3. e.round \in Nat /\ e.locked_round \in Int
  BY <1>2, EngineAssumption DEF Round, NoRound
<1>4. \A t \in VoteType, r \in Round : Own(e, t, r) \in Ballot \cup {None}
  BY <1>1, EngineAssumption DEF VoteTable, Own
<1> QED BY <1>1, <1>2, <1>3, <1>4

\* None is not a ballot.
LEMMA NoneIsNoBallot == None \notin Ballot /\ \A v \in Value : v # None /\ v # Nil
BY EngineAssumption DEF Ballot

\* The state moves on to step: not back from an own precommit.
LEMMA SetStepFits ==
    ASSUME NEW e, NEW lg, NEW sv, Fits(e, lg, sv), NEW step \in Step,
           step # "precommit" => e.step # "precommit"
    PROVE  LET f == SetStep(e, step)
           IN  /\ Fits(f, lg, sv)
               /\ f.round = e.round /\ f.step = step
               /\ f.votes = e.votes /\ f.outputs = e.outputs
               /\ f.locked_round = e.locked_round /\ f.locked_value = e.locked_value
               /\ f.finalized = e.finalized /\ f.pending_finalized = e.pending_finalized
               /\ f.generation = e.generation
               /\ f.proposal_messages = e.proposal_messages
               /\ f.proposal_cache = e.proposal_cache
<1> DEFINE f == SetStep(e, step)
           a == (e.armed /\ e.step = step)
<1>1. e \in EngineState
  BY DEF Fits
<1>2. f = [e EXCEPT !.step = step, !.armed = a]
  BY DEF SetStep
<1>3. a \in BOOLEAN
  BY <1>1 DEF EngineState
<1> HIDE DEF a, f
<1>4. /\ f \in EngineState
      /\ f.round = e.round /\ f.step = step
      /\ f.votes = e.votes /\ f.outputs = e.outputs
      /\ f.locked_round = e.locked_round /\ f.locked_value = e.locked_value
      /\ f.finalized = e.finalized /\ f.pending_finalized = e.pending_finalized
      /\ f.generation = e.generation
      /\ f.proposal_messages = e.proposal_messages
      /\ f.proposal_cache = e.proposal_cache
      /\ f.valid_round = e.valid_round /\ f.valid_value = e.valid_value
  BY <1>1, <1>2, <1>3 DEF EngineState
<1>5. NothingAhead(f, lg) /\ TablesFitLog(f, lg) /\ OutputsHeld(f) /\ SavesHeld(f, sv)
  BY <1>4 DEF Fits, NothingAhead, TablesFitLog, OutputsHeld, SavesHeld, Own
<1>6. LockCovers(f, lg) /\ LockKnown(f) /\ ValidKnown(f)
  BY <1>4 DEF Fits, LockCovers, LockKnown, ValidKnown, Own, HasMessage
<1>7. StepFits(f)
  BY <1>4 DEF Fits, StepFits, Own
<1>8. Fits(f, lg, sv)
  BY <1>4, <1>5, <1>6, <1>7 DEF Fits
<1> QED BY <1>4, <1>8 DEF f

\* One cell of the vote tables changes.
LEMMA TableAdd ==
    ASSUME NEW w \in VoteTable, NEW t \in VoteType, NEW r \in Round,
           NEW p \in Validator, NEW b \in Ballot
    PROVE  /\ [w EXCEPT ![t][r][p] = b] \in VoteTable
           /\ \A u \in VoteType, s \in Round, q \in Validator :
                 [w EXCEPT ![t][r][p] = b][u][s][q] =
                     IF u = t /\ s = r /\ q = p THEN b ELSE w[u][s][q]
BY DEF VoteTable

\* add_vote: the cell is filled, nothing else changes.
LEMMA AddVoteEffect ==
    ASSUME NEW e \in EngineState, NEW t \in VoteType, NEW r \in Round,
           NEW p \in Validator, NEW b \in Ballot
    PROVE  LET f == AddVote(e, t, r, p, b)
           IN  /\ Around(e, f)
               /\ f.outputs = e.outputs
               /\ f.proposal_messages = e.proposal_messages
               /\ f.proposal_cache = e.proposal_cache
               /\ \A u \in VoteType, s \in Round, q \in Validator :
                     f.votes[u][s][q] =
                        IF u = t /\ s = r /\ q = p /\ e.votes[t][r][p] = None THEN b
                        ELSE e.votes[u][s][q]
<1> DEFINE w == [e.votes EXCEPT ![t][r][p] = b]
           g == [e EXCEPT !.votes[t][r][p] = b]
<1>1. e.votes \in VoteTable
  BY EngineTypes
<1>2. /\ w \in VoteTable
      /\ \A u \in VoteType, s \in Round, q \in Validator :
            w[u][s][q] = IF u = t /\ s = r /\ q = p THEN b ELSE e.votes[u][s][q]
  BY <1>1, TableAdd
<1>3. g = [e EXCEPT !.votes = w]
  OBVIOUS
<1> HIDE DEF w
<1>4. /\ g \in EngineState /\ g.votes = w /\ g.outputs = e.outputs
      /\ g.round = e.round /\ g.step = e.step
      /\ g.locked_round = e.locked_round /\ g.locked_value = e.locked_value
      /\ g.finalized = e.finalized /\ g.pending_finalized = e.pending_finalized
      /\ g.generation = e.generation
      /\ g.proposal_messages = e.proposal_messages
      /\ g.proposal_cache = e.proposal_cache
      /\ g.valid_round = e.valid_round /\ g.valid_value = e.valid_value
  BY <1>2, <1>3 DEF EngineState, VoteTable
<1>5. AddVote(e, t, r, p, b) = IF e.votes[t][r][p] = None THEN g ELSE e
  BY DEF AddVote
<1> HIDE DEF g
<1>6. CASE e.votes[t][r][p] = None
  BY <1>2, <1>4, <1>5, <1>6 DEF Around, HasMessage, ValidKnown
<1>7. CASE e.votes[t][r][p] # None
  BY <1>5, <1>7 DEF Around
<1> QED BY <1>6, <1>7

\* A vote of another validator, or one of our own that the log has, joins the
\* tables.
LEMMA AddVoteFits ==
    ASSUME NEW e, NEW lg \in LogTable, NEW sv, Fits(e, lg, sv),
           NEW t \in VoteType, NEW r \in Round, NEW p \in Validator, NEW b \in Ballot,
           p = Me => lg[t][r] = b
    PROVE  LET f == AddVote(e, t, r, p, b)
           IN  /\ Fits(f, lg, sv)
               /\ Around(e, f)
               /\ f.proposal_messages = e.proposal_messages
               /\ f.proposal_cache = e.proposal_cache
<1> DEFINE f == AddVote(e, t, r, p, b)
<1>1. e \in EngineState /\ Me \in Validator
  BY EngineAssumption DEF Fits
<1>2. /\ Around(e, f) /\ f.outputs = e.outputs
      /\ f.proposal_messages = e.proposal_messages
      /\ f.proposal_cache = e.proposal_cache
      /\ \A u \in VoteType, s \in Round, q \in Validator :
            f.votes[u][s][q] =
               IF u = t /\ s = r /\ q = p /\ e.votes[t][r][p] = None THEN b
               ELSE e.votes[u][s][q]
  BY <1>1, AddVoteEffect
<1> HIDE DEF f
<1>3. \A u \in VoteType, s \in Round :
         \/ Own(f, u, s) = Own(e, u, s)
         \/ /\ u = t /\ s = r /\ p = Me /\ lg[u][s] = b
            /\ Own(e, u, s) = None /\ Own(f, u, s) = b
  BY <1>1, <1>2 DEF Own
<1>4. b # None /\ e.round \in Nat /\ f.round = e.round /\ f.step = e.step
  BY <1>1, <1>2, NoneIsNoBallot, EngineTypes DEF Around
<1>5. \A u \in VoteType, s \in Round :
         Own(f, u, s) = Own(e, u, s) \/ (lg[u][s] = Own(f, u, s) /\ s < e.round)
  <2> SUFFICES ASSUME NEW u \in VoteType, NEW s \in Round, Own(f, u, s) # Own(e, u, s)
               PROVE  lg[u][s] = Own(f, u, s) /\ s < e.round
    OBVIOUS
  <2>1. lg[u][s] = b /\ Own(e, u, s) = None /\ Own(f, u, s) = b
    BY <1>3
  <2>2. ~(s > e.round) /\ s # e.round
    BY <1>4, <2>1 DEF Fits, NothingAhead
  <2>3. s \in Int
    BY DEF Round
  <2> QED BY <1>4, <2>1, <2>2, <2>3
<1>6. NothingAhead(f, lg)
  <2> SUFFICES ASSUME NEW u \in VoteType, NEW s \in Round
               PROVE  /\ s > f.round => Own(f, u, s) = None /\ lg[u][s] = None
                      /\ s = f.round /\ Own(f, u, s) = None => lg[u][s] = None
    BY DEF NothingAhead
  <2>1. s \in Int
    BY DEF Round
  <2> QED BY <1>4, <1>5, <2>1 DEF Fits, NothingAhead
<1>7. TablesFitLog(f, lg)
  BY <1>5 DEF Fits, TablesFitLog
<1>8. StepFits(f)
  <2>1. Own(f, "precommit", f.round) = Own(e, "precommit", e.round)
    BY <1>1, <1>4, <1>5, EngineTypes DEF VoteType
  <2> QED BY <1>4, <2>1 DEF Fits, StepFits
<1>9. OutputsHeld(f)
  <2> SUFFICES ASSUME NEW i \in DOMAIN f.outputs, f.outputs[i].kind = "vote"
               PROVE  Own(f, f.outputs[i].type, f.outputs[i].round) = f.outputs[i].ballot
    BY DEF OutputsHeld
  <2> DEFINE o == e.outputs[i]
  <2>1. o \in Output /\ i \in DOMAIN e.outputs
    BY <1>1, <1>2, EngineTypes
  <2>2. o \in LocalVote
    BY <1>2, <2>1 DEF Output, LocalVote, FinalizeMessage
  <2>3. o.type \in VoteType /\ o.round \in Round /\ o.ballot \in Ballot
    BY <2>2 DEF LocalVote
  <2>4. Own(e, o.type, o.round) = o.ballot
    BY <1>2, <2>1 DEF Fits, OutputsHeld
  <2>5. Own(f, o.type, o.round) = Own(e, o.type, o.round)
    BY <1>3, <2>3, <2>4, NoneIsNoBallot
  <2> QED BY <1>2, <2>4, <2>5
<1>10. SavesHeld(f, sv)
  <2> SUFFICES ASSUME NEW x \in sv
               PROVE  x \in VoteType \X Round \X Ballot /\ Own(f, x[1], x[2]) = x[3]
    BY DEF SavesHeld
  <2>1. x \in VoteType \X Round \X Ballot /\ Own(e, x[1], x[2]) = x[3]
    BY DEF Fits, SavesHeld
  <2>2. x[1] \in VoteType /\ x[2] \in Round /\ x[3] \in Ballot
    BY <2>1
  <2> QED BY <1>3, <2>1, <2>2, NoneIsNoBallot
<1>11. LockCovers(f, lg)
  BY <1>2, <1>5 DEF Fits, LockCovers, Around, VoteType
<1>12. LockKnown(f)
  BY <1>2 DEF Fits, LockKnown, Around, HasMessage
<1> QED BY <1>2, <1>6, <1>7, <1>8, <1>9, <1>10, <1>11, <1>12 DEF Fits, Around, f

\* cast_local_vote: a first vote of the round joins the tables and the outputs.
\* A precommit comes with its step, and for a value with its lock.
LEMMA CastFits ==
    ASSUME NEW e, NEW lg \in LogTable, NEW sv, Fits(e, lg, sv),
           NEW t \in VoteType, NEW b \in Ballot,
           t = "precommit" =>
               /\ e.step = "precommit"
               /\ b # Nil => e.locked_round = e.round /\ e.locked_value = b
    PROVE  LET f == CastLocalVote(e, t, b)
           IN  /\ Fits(f, lg, sv)
               /\ Around(e, f)
               /\ f.proposal_messages = e.proposal_messages
               /\ f.proposal_cache = e.proposal_cache
               /\ \A u \in VoteType, s \in Round : u # t => Own(f, u, s) = Own(e, u, s)
<1> DEFINE f == CastLocalVote(e, t, b)
           c == LocalBallot(e, t, b)
           g == AddVote(e, t, e.round, Me, c)
           vote == [kind |-> "vote", type |-> t, round |-> e.round, ballot |-> c]
           w == Append(g.outputs, vote)
<1>1. e \in EngineState /\ Me \in Validator /\ e.round \in Round /\ e.round \in Nat
  BY EngineAssumption, EngineTypes DEF Fits
<1>2. c \in Ballot /\ (t = "precommit" => c = b)
  BY DEF LocalBallot, LocalPrevote, Ballot, VoteType
<1>3. f = IF CastOutcome(e, t, b) = "cast" THEN [g EXCEPT !.outputs = Append(@, vote)] ELSE e
  BY DEF CastLocalVote
<1>4. CastOutcome(e, t, b) = "cast" => Own(e, t, e.round) = None
  BY DEF CastOutcome, Own
<1>5. CASE CastOutcome(e, t, b) # "cast"
  BY <1>1, <1>3, <1>5 DEF Around
<1>6. CASE CastOutcome(e, t, b) = "cast"
  <2> HIDE DEF c
  <2>1. /\ Around(e, g) /\ g.outputs = e.outputs
        /\ g.proposal_messages = e.proposal_messages
        /\ g.proposal_cache = e.proposal_cache
        /\ \A u \in VoteType, s \in Round, q \in Validator :
              g.votes[u][s][q] =
                 IF u = t /\ s = e.round /\ q = Me /\ e.votes[t][e.round][Me] = None THEN c
                 ELSE e.votes[u][s][q]
    BY <1>1, <1>2, AddVoteEffect
  <2> HIDE DEF g
  <2>2. vote \in Output
    BY <1>1, <1>2 DEF Output, LocalVote
  <2>3. e.outputs \in Seq(Output)
    BY <1>1, EngineTypes
  <2>4. /\ w \in Seq(Output)
        /\ DOMAIN w = 1 .. Len(e.outputs) + 1
        /\ \A i \in DOMAIN e.outputs : w[i] = e.outputs[i]
        /\ w[Len(e.outputs) + 1] = vote
        /\ DOMAIN e.outputs = 1 .. Len(e.outputs) /\ Len(e.outputs) \in Nat
    <3> HIDE DEF vote
    <3> QED BY <2>1, <2>2, <2>3
  <2>5. f = [g EXCEPT !.outputs = w]
    BY <1>3, <1>6
  <2>6. vote.type = t /\ vote.round = e.round /\ vote.ballot = c
    OBVIOUS
  <2> HIDE DEF w, vote, f
  <2>7. g \in EngineState
    BY <2>1 DEF Around
  <2>8. /\ f \in EngineState /\ f.votes = g.votes /\ f.outputs = w
        /\ f.round = g.round /\ f.step = g.step
        /\ f.locked_round = g.locked_round /\ f.locked_value = g.locked_value
        /\ f.finalized = g.finalized /\ f.pending_finalized = g.pending_finalized
        /\ f.generation = g.generation
        /\ f.proposal_messages = g.proposal_messages
        /\ f.proposal_cache = g.proposal_cache
        /\ f.valid_round = g.valid_round /\ f.valid_value = g.valid_value
    BY <2>4, <2>5, <2>7 DEF EngineState
  <2>9. /\ f.round = e.round /\ f.step = e.step
        /\ f.locked_round = e.locked_round /\ f.locked_value = e.locked_value
        /\ f.pending_finalized = e.pending_finalized
        /\ f.proposal_messages = e.proposal_messages
        /\ f.proposal_cache = e.proposal_cache
    BY <2>1, <2>8 DEF Around
  <2>10. Around(e, f)
    BY <2>1, <2>8, <2>9 DEF Around, HasMessage, ValidKnown
  <2>11. \A u \in VoteType, s \in Round :
            Own(f, u, s) = IF u = t /\ s = e.round THEN c ELSE Own(e, u, s)
    BY <1>1, <1>4, <1>6, <2>1, <2>8 DEF Own
  <2>12. c # None /\ lg[t][e.round] = None
    BY <1>1, <1>2, <1>4, <1>6, NoneIsNoBallot DEF Fits, NothingAhead
  <2>13. NothingAhead(f, lg)
    <3> SUFFICES ASSUME NEW u \in VoteType, NEW s \in Round
                 PROVE  /\ s > f.round => Own(f, u, s) = None /\ lg[u][s] = None
                        /\ s = f.round /\ Own(f, u, s) = None => lg[u][s] = None
      BY DEF NothingAhead
    <3>1. s \in Int
      BY DEF Round
    <3> QED BY <1>1, <2>9, <2>11, <2>12, <3>1 DEF Fits, NothingAhead
  <2>14. TablesFitLog(f, lg)
    BY <2>11, <2>12 DEF Fits, TablesFitLog
  <2>15. StepFits(f)
    BY <1>1, <2>9, <2>11 DEF Fits, StepFits, VoteType
  <2>16. OutputsHeld(f)
    <3> SUFFICES ASSUME NEW i \in DOMAIN f.outputs, f.outputs[i].kind = "vote"
                 PROVE  Own(f, f.outputs[i].type, f.outputs[i].round) = f.outputs[i].ballot
      BY DEF OutputsHeld
    <3>1. CASE i = Len(e.outputs) + 1
      BY <1>1, <2>4, <2>6, <2>8, <2>11, <3>1
    <3>2. CASE i # Len(e.outputs) + 1
      <4>1. i \in DOMAIN e.outputs /\ f.outputs[i] = e.outputs[i]
        BY <2>4, <2>8, <3>2
      <4> DEFINE o == e.outputs[i]
      <4>2. o \in Output
        BY <2>3, <4>1
      <4>3. o \in LocalVote
        BY <4>1, <4>2 DEF Output, LocalVote, FinalizeMessage
      <4>4. o.type \in VoteType /\ o.round \in Round /\ o.ballot \in Ballot
        BY <4>3 DEF LocalVote
      <4>5. Own(e, o.type, o.round) = o.ballot
        BY <4>1 DEF Fits, OutputsHeld
      <4>6. ~(o.type = t /\ o.round = e.round)
        BY <1>4, <1>6, <4>4, <4>5, NoneIsNoBallot
      <4> QED BY <2>11, <4>1, <4>4, <4>5, <4>6
    <3> QED BY <3>1, <3>2
  <2>17. SavesHeld(f, sv)
    <3> SUFFICES ASSUME NEW x \in sv
                 PROVE  x \in VoteType \X Round \X Ballot /\ Own(f, x[1], x[2]) = x[3]
      BY DEF SavesHeld
    <3>1. x \in VoteType \X Round \X Ballot /\ Own(e, x[1], x[2]) = x[3]
      BY DEF Fits, SavesHeld
    <3>2. x[1] \in VoteType /\ x[2] \in Round /\ x[3] \in Ballot
      BY <3>1
    <3>3. ~(x[1] = t /\ x[2] = e.round)
      BY <1>4, <1>6, <3>1, <3>2, NoneIsNoBallot
    <3> QED BY <2>11, <3>1, <3>2, <3>3
  <2>18. LockCovers(f, lg)
    <3> SUFFICES ASSUME NEW r \in Round, NEW v \in Value,
                        Own(f, "precommit", r) = v \/ lg["precommit"][r] = v
                 PROVE  \/ f.locked_round > r
                        \/ f.locked_round = r /\ f.locked_value = v
      BY DEF LockCovers
    <3>1. CASE Own(e, "precommit", r) = v \/ lg["precommit"][r] = v
      BY <2>9, <3>1 DEF Fits, LockCovers
    <3>2. CASE ~(Own(e, "precommit", r) = v \/ lg["precommit"][r] = v)
      <4>1. t = "precommit" /\ r = e.round /\ c = v
        BY <2>11, <3>2 DEF VoteType
      <4>2. v # Nil
        BY NoneIsNoBallot
      <4> QED BY <1>2, <2>9, <4>1, <4>2
    <3> QED BY <3>1, <3>2
  <2>19. LockKnown(f)
    BY <2>9 DEF Fits, LockKnown, HasMessage
  <2>20. \A u \in VoteType, s \in Round : u # t => Own(f, u, s) = Own(e, u, s)
    BY <2>11
  <2>21. Fits(f, lg, sv)
    BY <2>8, <2>10, <2>13, <2>14, <2>15, <2>16, <2>17, <2>18, <2>19
       DEF Fits, Around
  <2> QED BY <2>9, <2>10, <2>20, <2>21 DEF f
<1> QED BY <1>5, <1>6

\* The cast with its timer.
LEMMA CastAndScheduleFits ==
    ASSUME NEW e, NEW lg \in LogTable, NEW sv, Fits(e, lg, sv),
           NEW t \in VoteType, NEW b \in Ballot, NEW outcomes,
           t = "precommit" =>
               /\ e.step = "precommit"
               /\ b # Nil => e.locked_round = e.round /\ e.locked_value = b
    PROVE  Fits(CastAndSchedule(e, t, b, outcomes), lg, sv)
<1> DEFINE f == CastLocalVote(e, t, b)
<1>1. Fits(f, lg, sv)
  BY CastFits
<1>2. CastAndSchedule(e, t, b, outcomes) \in {f, Schedule(f, t)}
  BY DEF CastAndSchedule
<1>3. f \in EngineState /\ t \in Step
  BY <1>1 DEF Fits, VoteType, Step
<1> HIDE DEF f
<1>4. Aside(f, Schedule(f, t))
  BY <1>3, ScheduleAside
<1> QED BY <1>1, <1>2, <1>4, AsideFits

\* The lock moves to the current round's value, whose proposal is at hand, while
\* the node has not precommitted in the round; then the step moves on.
LEMMA TakeLockFits ==
    ASSUME NEW e, NEW lg \in LogTable, NEW sv, Fits(e, lg, sv),
           NEW v \in Value, e.step # "precommit", HasMessage(e, v, e.round)
    PROVE  LET f == TakeLock(e, v)
               g == SetStep(f, "precommit")
           IN  /\ Fits(f, lg, sv)
               /\ Fits(g, lg, sv)
               /\ g.step = "precommit" /\ g.round = e.round
               /\ g.locked_round = e.round /\ g.locked_value = v
               /\ f.step = e.step /\ f.round = e.round
               /\ f.locked_round = e.round /\ f.locked_value = v
<1> DEFINE f == TakeLock(e, v)
<1>1. e \in EngineState /\ e.round \in Round /\ e.round \in Nat
  BY EngineTypes DEF Fits
<1>2. f = [e EXCEPT !.locked_round = e.round, !.locked_value = v,
                    !.valid_round = e.round, !.valid_value = v]
  BY DEF TakeLock
<1> HIDE DEF f
<1>3. /\ f \in EngineState /\ f.round = e.round /\ f.step = e.step
      /\ f.votes = e.votes /\ f.outputs = e.outputs
      /\ f.locked_round = e.round /\ f.locked_value = v
      /\ f.proposal_messages = e.proposal_messages /\ f.valid_value = v
  BY <1>1, <1>2 DEF EngineState
<1>4. Own(e, "precommit", e.round) = None /\ lg["precommit"][e.round] = None
  BY <1>1 DEF Fits, StepFits, NothingAhead, VoteType
<1>5. /\ NothingAhead(f, lg) /\ TablesFitLog(f, lg) /\ StepFits(f)
      /\ OutputsHeld(f) /\ SavesHeld(f, sv)
  BY <1>3 DEF Fits, NothingAhead, TablesFitLog, StepFits, OutputsHeld, SavesHeld, Own
<1>6. LockCovers(f, lg)
  <2> SUFFICES ASSUME NEW r \in Round, NEW w \in Value,
                      Own(f, "precommit", r) = w \/ lg["precommit"][r] = w
               PROVE  f.locked_round > r
    BY DEF LockCovers
  <2>1. Own(f, "precommit", r) = Own(e, "precommit", r) /\ w # None
    BY <1>3, NoneIsNoBallot DEF Own
  <2>2. ~(r > e.round) /\ r # e.round
    BY <1>4, <2>1 DEF Fits, NothingAhead, VoteType
  <2>3. r \in Int
    BY DEF Round
  <2> QED BY <1>1, <1>3, <2>2, <2>3
<1>7. LockKnown(f) /\ ValidKnown(f)
  BY <1>1, <1>3 DEF LockKnown, ValidKnown, HasMessage
<1>8. Fits(f, lg, sv)
  BY <1>3, <1>5, <1>6, <1>7 DEF Fits
<1>9. LET g == SetStep(f, "precommit")
      IN  /\ Fits(g, lg, sv) /\ g.step = "precommit" /\ g.round = e.round
          /\ g.locked_round = e.round /\ g.locked_value = v
  BY <1>3, <1>8, SetStepFits DEF Step
<1> QED BY <1>3, <1>8, <1>9 DEF f

-----------------------------------------------------------------------------
(* Finality and rounds *)

\* emit_finalized adds no vote.
LEMMA EmitFinalizedFits ==
    ASSUME NEW e, NEW lg, NEW sv, Fits(e, lg, sv),
           NEW r \in Round, NEW v \in Value, NEW send \in BOOLEAN
    PROVE  Fits(EmitFinalized(e, r, v, send), lg, sv)
<1> DEFINE f == EmitFinalized(e, r, v, send)
           own == send /\ e.votes["precommit"][r][Me] = v
           message == [kind |-> "finalize", round |-> r, ballot |-> v, own |-> own]
           w == IF send THEN Append(e.outputs, message) ELSE e.outputs
<1>1. e \in EngineState /\ e.outputs \in Seq(Output)
  BY EngineTypes DEF Fits
<1>2. message \in FinalizeMessage /\ message.kind = "finalize"
  BY DEF FinalizeMessage
<1>3. f = IF e.pending_finalized # None THEN e
          ELSE [e EXCEPT !.finalized = TRUE, !.pending_finalized = message, !.outputs = w]
  BY DEF EmitFinalized
<1>4. /\ w \in Seq(Output)
      /\ \A i \in DOMAIN w : w[i] = message \/ (i \in DOMAIN e.outputs /\ w[i] = e.outputs[i])
  <2> HIDE DEF message
  <2>1. message \in Output
    BY <1>2 DEF Output
  <2> QED BY <1>1, <2>1
<1> HIDE DEF message, w, f
<1>5. CASE e.pending_finalized # None
  BY <1>3, <1>5 DEF f
<1>6. CASE e.pending_finalized = None
  <2>0. f = [e EXCEPT !.finalized = TRUE, !.pending_finalized = message, !.outputs = w]
    BY <1>3, <1>6
  <2>1. /\ f \in EngineState /\ f.round = e.round /\ f.step = e.step
        /\ f.votes = e.votes /\ f.outputs = w
        /\ f.locked_round = e.locked_round /\ f.locked_value = e.locked_value
        /\ f.pending_finalized = message
        /\ f.proposal_messages = e.proposal_messages
        /\ f.valid_round = e.valid_round /\ f.valid_value = e.valid_value
    BY <1>1, <1>2, <1>4, <2>0 DEF EngineState
  <2>2. /\ NothingAhead(f, lg) /\ TablesFitLog(f, lg) /\ StepFits(f)
        /\ SavesHeld(f, sv) /\ LockCovers(f, lg) /\ ValidKnown(f)
    BY <2>1 DEF Fits, NothingAhead, TablesFitLog, StepFits, SavesHeld, LockCovers,
                ValidKnown, Own
  <2>3. OutputsHeld(f)
    BY <1>2, <1>4, <2>1 DEF Fits, OutputsHeld, Own
  <2>4. LockKnown(f)
    BY <1>2, <2>1, NoneAssumption DEF Fits, LockKnown
  <2> QED BY <2>1, <2>2, <2>3, <2>4 DEF Fits, f
<1> QED BY <1>5, <1>6

\* emit_local_finalize.
LEMMA EmitLocalFinalizeFits ==
    ASSUME NEW e, NEW lg, NEW sv, Fits(e, lg, sv), NEW r \in Round, NEW v \in Value
    PROVE  Fits(EmitLocalFinalize(e, r, v), lg, sv)
BY EmitFinalizedFits DEF EmitLocalFinalize

\* finalize_quorum.
LEMMA FinalizeQuorumFits ==
    ASSUME NEW e, NEW lg, NEW sv, Fits(e, lg, sv)
    PROVE  Fits(FinalizeQuorum(e), lg, sv)
<1> DEFINE decided == {v \in Value : QuorumResult(e, "precommit", v)}
           v == CHOOSE v \in decided : TRUE
<1>1. FinalizeQuorum(e) = IF decided = {} THEN e ELSE EmitLocalFinalize(e, e.round, v)
  BY DEF FinalizeQuorum
<1>2. decided # {} => v \in Value
  OBVIOUS
<1> HIDE DEF decided, v
<1>3. e.round \in Round
  BY EngineTypes DEF Fits
<1> QED BY <1>1, <1>2, <1>3, EmitLocalFinalizeFits

\* start_round: the round begins with empty tables and the step propose.
LEMMA StartRoundEffect ==
    ASSUME NEW e \in EngineState, NEW r \in Round
    PROVE  LET f == StartRound(e, r)
           IN  /\ f \in EngineState /\ f.round = r /\ f.step = "propose"
               /\ f.locked_round = e.locked_round /\ f.locked_value = e.locked_value
               /\ f.valid_round = e.valid_round /\ f.valid_value = e.valid_value
               /\ f.pending_finalized = e.pending_finalized
               /\ f.outputs = e.outputs
               /\ f.proposal_messages = e.proposal_messages
               /\ f.polc_by_round = e.polc_by_round /\ f.finalized = e.finalized
               /\ f.pending_prevote = None
               /\ \A t \in VoteType, s \in Round, p \in Validator :
                     f.votes[t][s][p] = IF s = r THEN None ELSE e.votes[t][s][p]
<1> DEFINE w == [t \in VoteType |-> [e.votes[t] EXCEPT ![r] = NoVotes]]
           g == [e EXCEPT !.round = r, !.step = "propose", !.vote_timers = {},
                          !.votes = w, !.pending_prevote = None, !.armed = FALSE]
           f == Schedule(g, "propose")
<1>1. e.votes \in VoteTable
  BY EngineTypes
<1>2. NoVotes \in [Validator -> Ballot \cup {None}] /\ \A p \in Validator : NoVotes[p] = None
  BY DEF NoVotes
<1>3. /\ w \in VoteTable
      /\ \A t \in VoteType, s \in Round, p \in Validator :
            w[t][s][p] = IF s = r THEN None ELSE e.votes[t][s][p]
  <2> HIDE DEF NoVotes
  <2> QED BY <1>1, <1>2 DEF VoteTable
<1>4. StartRound(e, r) = f
  BY DEF StartRound
<1> HIDE DEF w
<1>5. /\ g \in EngineState /\ g.votes = w /\ g.round = r /\ g.step = "propose"
      /\ g.locked_round = e.locked_round /\ g.locked_value = e.locked_value
      /\ g.valid_round = e.valid_round /\ g.valid_value = e.valid_value
      /\ g.pending_finalized = e.pending_finalized /\ g.outputs = e.outputs
      /\ g.proposal_messages = e.proposal_messages
      /\ g.polc_by_round = e.polc_by_round /\ g.finalized = e.finalized
      /\ g.pending_prevote = None
  BY <1>3 DEF EngineState, VoteTable, Step
<1> HIDE DEF g
<1>6. g \in EngineState /\ f = [g EXCEPT !.armed = TRUE]
  BY <1>5 DEF Schedule
<1>7. /\ f \in EngineState /\ f.votes = g.votes /\ f.round = g.round /\ f.step = g.step
      /\ f.locked_round = g.locked_round /\ f.locked_value = g.locked_value
      /\ f.valid_round = g.valid_round /\ f.valid_value = g.valid_value
      /\ f.pending_finalized = g.pending_finalized /\ f.outputs = g.outputs
      /\ f.proposal_messages = g.proposal_messages
      /\ f.polc_by_round = g.polc_by_round /\ f.finalized = g.finalized
      /\ f.pending_prevote = g.pending_prevote
  BY <1>6 DEF EngineState
<1> HIDE DEF f
<1> QED BY <1>3, <1>4, <1>5, <1>7

\* It keeps everything, to a later round or to the current one before any own
\* vote in it.
LEMMA StartRoundFits ==
    ASSUME NEW e, NEW lg \in LogTable, NEW sv, Fits(e, lg, sv),
           NEW r \in Round, r >= e.round,
           r = e.round => \A t \in VoteType : Own(e, t, r) = None
    PROVE  LET f == StartRound(e, r)
           IN  /\ Fits(f, lg, sv)
               /\ \A t \in VoteType, s \in Round : Own(f, t, s) = Own(e, t, s)
               /\ \A t \in VoteType, s \in Round : s >= r => lg[t][s] = None
<1> DEFINE g == StartRound(e, r)
<1>1. e \in EngineState /\ e.round \in Nat
  BY EngineTypes DEF Fits
<1>2. /\ g \in EngineState /\ g.round = r /\ g.step = "propose"
      /\ g.locked_round = e.locked_round /\ g.locked_value = e.locked_value
      /\ g.valid_round = e.valid_round /\ g.valid_value = e.valid_value
      /\ g.pending_finalized = e.pending_finalized /\ g.outputs = e.outputs
      /\ g.proposal_messages = e.proposal_messages
      /\ \A t \in VoteType, s \in Round, p \in Validator :
            g.votes[t][s][p] = IF s = r THEN None ELSE e.votes[t][s][p]
  BY <1>1, StartRoundEffect
<1> HIDE DEF g
<1>3. \A t \in VoteType : Own(e, t, r) = None /\ lg[t][r] = None
  <2>1. r \in Int /\ (r > e.round \/ r = e.round)
    BY <1>1 DEF Round
  <2> QED BY <2>1 DEF Fits, NothingAhead
<1>4. \A t \in VoteType, s \in Round : Own(g, t, s) = Own(e, t, s)
  BY <1>2, <1>3, EngineAssumption DEF Own
<1>5. NothingAhead(g, lg)
  <2> SUFFICES ASSUME NEW t \in VoteType, NEW s \in Round
               PROVE  /\ s > r => Own(g, t, s) = None /\ lg[t][s] = None
                      /\ s = r => lg[t][s] = None
    BY <1>2 DEF NothingAhead
  <2>1. r \in Int /\ s \in Int /\ (s > r => s > e.round)
    BY <1>1 DEF Round
  <2> QED BY <1>3, <1>4, <2>1 DEF Fits, NothingAhead
<1>6. TablesFitLog(g, lg) /\ LockCovers(g, lg)
  BY <1>2, <1>4 DEF Fits, TablesFitLog, LockCovers, VoteType
<1>7. StepFits(g)
  BY <1>2, <1>3, <1>4 DEF StepFits, VoteType
<1>8. OutputsHeld(g)
  <2> SUFFICES ASSUME NEW i \in DOMAIN g.outputs, g.outputs[i].kind = "vote"
               PROVE  Own(g, g.outputs[i].type, g.outputs[i].round) = g.outputs[i].ballot
    BY DEF OutputsHeld
  <2> DEFINE o == e.outputs[i]
  <2>1. i \in DOMAIN e.outputs /\ g.outputs[i] = o /\ o \in Output
    BY <1>1, <1>2, EngineTypes
  <2>2. o \in LocalVote
    BY <2>1 DEF Output, LocalVote, FinalizeMessage
  <2>3. o.type \in VoteType /\ o.round \in Round
    BY <2>2 DEF LocalVote
  <2>4. Own(e, o.type, o.round) = o.ballot
    BY <2>1 DEF Fits, OutputsHeld
  <2> QED BY <1>4, <2>1, <2>3, <2>4
<1>9. SavesHeld(g, sv)
  <2> SUFFICES ASSUME NEW x \in sv
               PROVE  x \in VoteType \X Round \X Ballot /\ Own(g, x[1], x[2]) = x[3]
    BY DEF SavesHeld
  <2>1. x \in VoteType \X Round \X Ballot /\ Own(e, x[1], x[2]) = x[3]
    BY DEF Fits, SavesHeld
  <2>2. x[1] \in VoteType /\ x[2] \in Round
    BY <2>1
  <2> QED BY <1>4, <2>1, <2>2
<1>10. LockKnown(g) /\ ValidKnown(g)
  <2>1. e.locked_round \in Int /\ r \in Int
    BY <1>1, EngineTypes DEF Round
  <2> QED BY <1>1, <1>2, <2>1 DEF Fits, LockKnown, ValidKnown, HasMessage
<1>11. Fits(g, lg, sv)
  BY <1>2, <1>5, <1>6, <1>7, <1>8, <1>9, <1>10 DEF Fits
<1>12. \A t \in VoteType, s \in Round : s >= r => lg[t][s] = None
  <2> SUFFICES ASSUME NEW t \in VoteType, NEW s \in Round, s >= r PROVE lg[t][s] = None
    OBVIOUS
  <2>1. s = r \/ s > e.round
    BY <1>1 DEF Round
  <2> QED BY <1>3, <2>1 DEF Fits, NothingAhead
<1> QED BY <1>4, <1>11, <1>12 DEF g

\* Fits does not look at the generation.
LEMMA GenerationFits ==
    ASSUME NEW e, NEW lg, NEW sv, Fits(e, lg, sv), NEW n \in Nat
    PROVE  LET f == [e EXCEPT !.generation = n]
           IN  /\ Fits(f, lg, sv)
               /\ f.round = e.round /\ f.step = e.step /\ f.votes = e.votes
               /\ f.locked_round = e.locked_round /\ f.locked_value = e.locked_value
               /\ f.higher_round_evidence = e.higher_round_evidence
               /\ f.outputs = e.outputs
               /\ f.proposal_messages = e.proposal_messages
<1> DEFINE f == [e EXCEPT !.generation = n]
<1>1. e \in EngineState
  BY DEF Fits
<1>2. /\ f \in EngineState /\ f.round = e.round /\ f.step = e.step
      /\ f.votes = e.votes /\ f.outputs = e.outputs
      /\ f.locked_round = e.locked_round /\ f.locked_value = e.locked_value
      /\ f.pending_finalized = e.pending_finalized
      /\ f.higher_round_evidence = e.higher_round_evidence
      /\ f.proposal_messages = e.proposal_messages
      /\ f.valid_round = e.valid_round /\ f.valid_value = e.valid_value
  BY <1>1 DEF EngineState
<1> HIDE DEF f
<1>3. /\ NothingAhead(f, lg) /\ TablesFitLog(f, lg) /\ StepFits(f) /\ SavesHeld(f, sv)
      /\ LockCovers(f, lg) /\ LockKnown(f) /\ ValidKnown(f)
  BY <1>2 DEF Fits, NothingAhead, TablesFitLog, StepFits, SavesHeld, LockCovers,
              LockKnown, ValidKnown, HasMessage, Own
<1>4. OutputsHeld(f)
  BY <1>2 DEF Fits, OutputsHeld, Own
<1> QED BY <1>2, <1>3, <1>4 DEF Fits, f

\* Other outputs, of votes that are in the tables.
LEMMA OutputsFits ==
    ASSUME NEW e, NEW lg, NEW sv, Fits(e, lg, sv), NEW q \in Seq(Output),
           OutputsHeld([e EXCEPT !.outputs = q])
    PROVE  LET f == [e EXCEPT !.outputs = q]
           IN  /\ Fits(f, lg, sv)
               /\ f.round = e.round /\ f.step = e.step /\ f.votes = e.votes
               /\ f.locked_round = e.locked_round /\ f.locked_value = e.locked_value
               /\ f.proposal_messages = e.proposal_messages
<1> DEFINE f == [e EXCEPT !.outputs = q]
<1>1. e \in EngineState
  BY DEF Fits
<1>2. /\ f \in EngineState /\ f.round = e.round /\ f.step = e.step
      /\ f.votes = e.votes /\ f.outputs = q
      /\ f.locked_round = e.locked_round /\ f.locked_value = e.locked_value
      /\ f.pending_finalized = e.pending_finalized
      /\ f.proposal_messages = e.proposal_messages
      /\ f.valid_round = e.valid_round /\ f.valid_value = e.valid_value
  BY <1>1 DEF EngineState
<1>3. OutputsHeld(f)
  OBVIOUS
<1> HIDE DEF f
<1>4. /\ NothingAhead(f, lg) /\ TablesFitLog(f, lg) /\ StepFits(f) /\ SavesHeld(f, sv)
      /\ LockCovers(f, lg) /\ LockKnown(f) /\ ValidKnown(f)
  BY <1>2 DEF Fits, NothingAhead, TablesFitLog, StepFits, SavesHeld, LockCovers,
              LockKnown, ValidKnown, HasMessage, Own
<1> QED BY <1>2, <1>3, <1>4 DEF Fits, f

\* realign_round, to a later round or to the current one before any own vote.
LEMMA RealignRoundFits ==
    ASSUME NEW e, NEW lg \in LogTable, NEW sv, Fits(e, lg, sv),
           NEW r \in Round, r >= e.round,
           r = e.round => \A t \in VoteType : Own(e, t, r) = None
    PROVE  Fits(RealignRound(e, r), lg, sv)
<1> DEFINE n == e.generation + 1
           f == [e EXCEPT !.generation = n]
<1>1. n \in Nat
  BY EngineTypes DEF Fits
<1>2. RealignRound(e, r) = StartRound(f, r)
  BY DEF RealignRound
<1> HIDE DEF n
<1>3. Fits(f, lg, sv) /\ f.round = e.round /\ f.votes = e.votes
  BY <1>1, GenerationFits
<1> HIDE DEF f
<1>4. r = f.round => \A t \in VoteType : Own(f, t, r) = None
  BY <1>3 DEF Own
<1>5. Fits(StartRound(f, r), lg, sv)
  BY <1>3, <1>4, StartRoundFits
<1> QED BY <1>2, <1>5

\* try_round_skip.
LEMMA TryRoundSkipFits ==
    ASSUME NEW e, NEW lg \in LogTable, NEW sv, Fits(e, lg, sv), NEW ready
    PROVE  Fits(TryRoundSkip(e, ready), lg, sv)
<1> DEFINE w == [p \in Validator |-> NoRound]
           f == [e EXCEPT !.higher_round_evidence = w]
           r == Max(RoundSkipTargets(e))
<1>1. e \in EngineState /\ w \in [Validator -> Int]
  BY DEF Fits, NoRound
<1>2. Aside(e, f)
  <2> HIDE DEF w
  <2> QED BY <1>1, FieldsAside
<1>3. Fits(f, lg, sv) /\ f.round = e.round
  BY <1>2, AsideFits DEF Aside, Around
<1>4. RoundSkipTargets(e) # {} => r \in Round /\ r > e.round
  <2>1. RoundSkipTargets(e) \in SUBSET Round
    BY DEF RoundSkipTargets
  <2>2. RoundSkipTargets(e) # {} => r \in RoundSkipTargets(e)
    BY <2>1, MaxRoundOf
  <2> HIDE DEF r
  <2> QED BY <2>1, <2>2 DEF RoundSkipTargets
<1>5. TryRoundSkip(e, ready) \in {e} \/
        (RoundSkipTargets(e) # {} /\ TryRoundSkip(e, ready) = RealignRound(f, r))
  BY DEF TryRoundSkip
<1> HIDE DEF f, r
<1>6. ASSUME r \in Round, r > e.round PROVE Fits(RealignRound(f, r), lg, sv)
  <2>1. r >= f.round /\ r # f.round
    BY <1>1, <1>3, <1>6, EngineTypes DEF Round
  <2> QED BY <1>3, <1>6, <2>1, RealignRoundFits
<1> QED BY <1>4, <1>5, <1>6

\* The head of on_propose and on_vote.
LEMMA NoteRoundFits ==
    ASSUME NEW e, NEW lg \in LogTable, NEW sv, Fits(e, lg, sv),
           NEW r \in Round, NEW p \in Validator, NEW ready
    PROVE  Fits(NoteRound(e, r, p, ready), lg, sv)
<1> DEFINE f == RecordHigherRound(e, r, p, MaxRoundAhead)
<1>1. Aside(e, f)
  BY RecordHigherRoundAside DEF Fits
<1>2. Fits(f, lg, sv)
  BY <1>1, AsideFits
<1>3. NoteRound(e, r, p, ready) \in {e, TryRoundSkip(f, ready)}
  BY DEF NoteRound
<1> HIDE DEF f
<1> QED BY <1>2, <1>3, TryRoundSkipFits

\* on_round_sync.
LEMMA OnRoundSyncFits ==
    ASSUME NEW e, NEW lg \in LogTable, NEW sv, Fits(e, lg, sv),
           NEW r \in Round, NEW p \in Validator, NEW ready
    PROVE  Fits(OnRoundSync(e, r, p, ready), lg, sv)
<1> DEFINE f == RecordHigherRound(e, r, p, MaxRound)
<1>1. Aside(e, f)
  BY RecordHigherRoundAside DEF Fits
<1>2. Fits(f, lg, sv)
  BY <1>1, AsideFits
<1>3. OnRoundSync(e, r, p, ready) \in {e, TryRoundSkip(f, ready)}
  BY DEF OnRoundSync
<1> HIDE DEF f
<1> QED BY <1>2, <1>3, TryRoundSkipFits

-----------------------------------------------------------------------------
(* The handlers *)

\* A timer is scheduled.
LEMMA ScheduleFits ==
    ASSUME NEW e, NEW lg, NEW sv, Fits(e, lg, sv), NEW step \in Step
    PROVE  Fits(Schedule(e, step), lg, sv)
BY ScheduleAside, AsideFits DEF Fits

\* precommit_nil: a nil precommit, once the round has none of this node.
LEMMA PrecommitNilFits ==
    ASSUME NEW e, NEW lg \in LogTable, NEW sv, Fits(e, lg, sv), NEW can \in BOOLEAN
    PROVE  Fits(PrecommitNil(e, can), lg, sv)
<1> DEFINE f == SetStep(e, "precommit")
           outs == {"cast", "same", "deferred"}
<1>1. PrecommitNil(e, can) \in {e, CastAndSchedule(f, "precommit", Nil, outs)}
  BY DEF PrecommitNil
<1>2. Fits(f, lg, sv) /\ f.step = "precommit"
  BY SetStepFits DEF Step
<1> HIDE DEF f, outs
<1>3. Fits(CastAndSchedule(f, "precommit", Nil, outs), lg, sv)
  BY <1>2, CastAndScheduleFits DEF VoteType, Ballot
<1> QED BY <1>1, <1>3

\* The step moves on to prevote, and the prevote is cast.
LEMMA PrevoteFits ==
    ASSUME NEW e, NEW lg \in LogTable, NEW sv, Fits(e, lg, sv),
           e.step # "precommit", NEW b \in Ballot, NEW outcomes
    PROVE  Fits(CastAndSchedule(SetStep(e, "prevote"), "prevote", b, outcomes), lg, sv)
<1> DEFINE f == SetStep(e, "prevote")
<1>1. Fits(f, lg, sv)
  BY SetStepFits DEF Step
<1> HIDE DEF f
<1>2. Fits(CastAndSchedule(f, "prevote", b, outcomes), lg, sv)
  BY <1>1, CastAndScheduleFits DEF VoteType
<1> QED BY <1>2 DEF f

\* resume_prevote: the prevote that waited for the value.
LEMMA ResumePrevoteFits ==
    ASSUME NEW e, NEW lg \in LogTable, NEW sv, Fits(e, lg, sv)
    PROVE  Fits(ResumePrevote(e), lg, sv)
<1> DEFINE f == [e EXCEPT !.pending_prevote = None]
           outs == {"cast", "same"}
           b == e.pending_prevote
<1>1. Aside(e, f)
  BY FieldsAside DEF Fits
<1>2. Fits(f, lg, sv) /\ f.step = e.step
  BY <1>1, AsideFits DEF Aside, Around
<1>3. b # None => b \in Ballot
  BY DEF Fits, EngineState
<1>4. ResumePrevote(e) =
        IF b = None THEN e
        ELSE IF e.step \in {"propose", "prevote"}
        THEN CastAndSchedule(SetStep(f, "prevote"), "prevote", b, outs) ELSE f
  BY DEF ResumePrevote
<1> HIDE DEF f, outs, b
<1>5. CASE b # None /\ e.step \in {"propose", "prevote"}
  <2>1. f.step # "precommit"
    BY <1>2, <1>5
  <2> QED BY <1>2, <1>3, <1>4, <1>5, <2>1, PrevoteFits
<1> QED BY <1>2, <1>4, <1>5

\* The lock is taken on the current round's value and the precommit is cast.
LEMMA LockAndCastFits ==
    ASSUME NEW e, NEW lg \in LogTable, NEW sv, Fits(e, lg, sv),
           NEW v \in Value, e.step # "precommit", HasMessage(e, v, e.round), NEW outcomes
    PROVE  LET g == SetStep(TakeLock(e, v), "precommit")
           IN  /\ Fits(g, lg, sv)
               /\ Fits(CastLocalVote(g, "precommit", v), lg, sv)
               /\ Fits(CastAndSchedule(g, "precommit", v, outcomes), lg, sv)
<1> DEFINE g == SetStep(TakeLock(e, v), "precommit")
<1>1. /\ Fits(g, lg, sv) /\ g.step = "precommit" /\ g.round = e.round
      /\ g.locked_round = e.round /\ g.locked_value = v
  BY TakeLockFits
<1> HIDE DEF g
<1>2. v \in Ballot
  BY DEF Ballot
<1>3. Fits(CastLocalVote(g, "precommit", v), lg, sv)
  BY <1>1, <1>2, CastFits DEF VoteType
<1>4. Fits(CastAndSchedule(g, "precommit", v, outcomes), lg, sv)
  BY <1>1, <1>2, CastAndScheduleFits DEF VoteType
<1> QED BY <1>1, <1>3, <1>4 DEF g

\* A POLC of the current round is recorded first.
LEMMA PolcLockFits ==
    ASSUME NEW e, NEW lg \in LogTable, NEW sv, Fits(e, lg, sv),
           NEW v \in Value, e.step # "precommit", HasMessage(e, v, e.round)
    PROVE  LET f == RecordPolc(e, e.round, v)
           IN  /\ Fits(f, lg, sv) /\ f.step # "precommit" /\ f.round = e.round
               /\ HasMessage(f, v, f.round)
<1> DEFINE f == RecordPolc(e, e.round, v)
<1>1. e \in EngineState /\ e.round \in Round /\ v \in Ballot
  BY EngineTypes DEF Fits, Ballot
<1>2. Aside(e, f)
  BY <1>1, RecordPolcAside
<1> HIDE DEF f
<1>3. Fits(f, lg, sv)
  BY <1>2, AsideFits
<1>4. f.step = e.step /\ f.round = e.round /\ HasMessage(f, v, f.round)
  BY <1>1, <1>2 DEF Aside, Around
<1> QED BY <1>3, <1>4 DEF f

\* resume_precommit: the precommit that waited for the value or for its POLC.
LEMMA ResumePrecommitFits ==
    ASSUME NEW e, NEW lg \in LogTable, NEW sv, Fits(e, lg, sv)
    PROVE  Fits(ResumePrecommit(e), lg, sv)
<1> DEFINE ready == {v \in Value : QuorumResult(e, "prevote", v) /\ HasMessage(e, v, e.round)}
           v == CHOOSE v \in ready : TRUE
           f == RecordPolc(e, e.round, v)
           outs == {"cast", "same", "deferred"}
<1>1. ready # {} => v \in Value /\ HasMessage(e, v, e.round)
  <2>1. ready # {} => v \in ready
    OBVIOUS
  <2> HIDE DEF v
  <2> QED BY <2>1
<1>2. ResumePrecommit(e) =
        IF e.step = "precommit" \/ ready = {} THEN e
        ELSE CastAndSchedule(SetStep(TakeLock(f, v), "precommit"), "precommit", v, outs)
  BY DEF ResumePrecommit
<1> HIDE DEF v, ready, outs
<1>3. ASSUME e.step # "precommit", ready # {}
      PROVE  Fits(CastAndSchedule(SetStep(TakeLock(f, v), "precommit"), "precommit", v, outs),
                  lg, sv)
  <2>1. v \in Value /\ HasMessage(e, v, e.round)
    BY <1>1, <1>3
  <2>2. Fits(f, lg, sv) /\ f.step # "precommit" /\ HasMessage(f, v, f.round)
    BY <1>3, <2>1, PolcLockFits
  <2> HIDE DEF f
  <2> QED BY <2>1, <2>2, LockAndCastFits
<1> QED BY <1>2, <1>3

\* resume_voting: what the ready value lets the node vote for.
LEMMA ResumeVotingFits ==
    ASSUME NEW e, NEW lg \in LogTable, NEW sv, Fits(e, lg, sv)
    PROVE  Fits(ResumeVoting(e), lg, sv)
<1> DEFINE f1 == ResumePrevote(e)
           f2 == PrecommitNil(f1, TRUE)
           f3 == ResumePrecommit(f2)
<1>1. Fits(f1, lg, sv)
  BY ResumePrevoteFits
<1>2. ResumeVoting(e) = IF f3.finalized THEN f3 ELSE FinalizeQuorum(f3)
  BY DEF ResumeVoting
<1> HIDE DEF f1
<1>3. Fits(f2, lg, sv)
  BY <1>1, PrecommitNilFits
<1> HIDE DEF f2
<1>4. Fits(f3, lg, sv)
  BY <1>3, ResumePrecommitFits
<1> HIDE DEF f3
<1> QED BY <1>2, <1>4, FinalizeQuorumFits

\* on_ready.
LEMMA OnReadyFits ==
    ASSUME NEW e, NEW lg \in LogTable, NEW sv, Fits(e, lg, sv), NEW can \in BOOLEAN
    PROVE  Fits(OnReady(e, can), lg, sv)
<1> DEFINE f == IF can THEN ResumeVoting(e) ELSE e
<1>1. Fits(f, lg, sv)
  BY ResumeVotingFits
<1>2. OnReady(e, can) \in {f, Schedule(f, "prevote")}
  BY DEF OnReady
<1> HIDE DEF f
<1> QED BY <1>1, <1>2, ScheduleFits DEF Step

\* do_propose.
LEMMA DoProposeFits ==
    ASSUME NEW e, NEW lg \in LogTable, NEW sv, Fits(e, lg, sv),
           NEW new \in Value, e.step = "propose"
    PROVE  Fits(DoPropose(e, new), lg, sv)
<1> DEFINE v == IF e.valid_round >= 0 THEN e.valid_value ELSE new
           vr == IF e.valid_round >= 0 THEN e.valid_round ELSE NoRound
           e0 == CacheProposalMessage(e, v, e.round, vr)
           e1 == SetStep(e0, "prevote")
           e2 == CastLocalVote(e1, "prevote", v)
           f == IF Stake THEN RecordPolc(e2, e2.round, v) ELSE e2
           e3 == SetStep(TakeLock(f, v), "precommit")
           e4 == CastLocalVote(e3, "precommit", v)
<1>1. e \in EngineState /\ e.round \in Round /\ v \in Value /\ vr \in Round \cup {NoRound}
  <2>1. e \in EngineState
    BY DEF Fits
  <2> QED BY <2>1, EngineTypes DEF EngineState, Fits, ValidKnown
<1>2. DoPropose(e, new) \in
         {EmitLocalFinalize(e4, e.round, v), Schedule(e4, "precommit"),
          Schedule(e2, "prevote"), e2}
  BY DEF DoPropose
<1> HIDE DEF v, vr
<1>3. Aside(e, e0) /\ HasMessage(e0, v, e.round)
  BY <1>1, CacheProposalMessageAside
<1>4. Fits(e0, lg, sv) /\ e0.round = e.round /\ e0.step = "propose"
  BY <1>3, AsideFits DEF Aside, Around
<1> HIDE DEF e0
<1>5. /\ Fits(e1, lg, sv) /\ e1.round = e.round /\ e1.step = "prevote"
      /\ HasMessage(e1, v, e.round)
  BY <1>3, <1>4, SetStepFits DEF Step, HasMessage
<1> HIDE DEF e1
<1>6. Fits(e2, lg, sv) /\ Around(e1, e2)
  BY <1>1, <1>5, CastFits DEF VoteType, Ballot
<1> HIDE DEF e2
<1>7. e2.round = e.round /\ e2.step = "prevote" /\ HasMessage(e2, v, e2.round)
  BY <1>1, <1>5, <1>6 DEF Around
<1>8. Fits(f, lg, sv) /\ f.step # "precommit" /\ HasMessage(f, v, f.round)
  BY <1>1, <1>6, <1>7, PolcLockFits
<1> HIDE DEF f
<1>9. Fits(e4, lg, sv)
  BY <1>1, <1>8, LockAndCastFits
<1> HIDE DEF e3, e4
<1>10. Fits(EmitLocalFinalize(e4, e.round, v), lg, sv)
  BY <1>1, <1>9, EmitLocalFinalizeFits
<1>11. Fits(Schedule(e4, "precommit"), lg, sv)
  BY <1>9, ScheduleFits DEF Step
<1>12. Fits(Schedule(e2, "prevote"), lg, sv)
  BY <1>6, ScheduleFits DEF Step
<1> QED BY <1>2, <1>6, <1>10, <1>11, <1>12

\* on_propose for the current round.
LEMMA ProposalInRoundFits ==
    ASSUME NEW e, NEW lg \in LogTable, NEW sv, Fits(e, lg, sv),
           NEW v \in Value, NEW vr \in Round \cup {NoRound},
           NEW valid \in BOOLEAN, NEW can \in BOOLEAN
    PROVE  Fits(ProposalInRound(e, v, vr, valid, can), lg, sv)
<1> DEFINE accept == valid /\ LockAllows(e, v, vr)
           ballot == IF accept THEN v ELSE Nil
           outs == {"cast", "same"}
           e1 == IF valid THEN CacheProposalMessage(e, v, e.round, vr) ELSE e
           e2 == SetStep(e1, "prevote")
           e3 == CastLocalVote(e2, "prevote", ballot)
           f == RecordPolc(e3, e.round, v)
           e4 == SetStep(TakeLock(f, v), "precommit")
           e5 == CastLocalVote(e4, "precommit", v)
           e6 == [e1 EXCEPT !.pending_prevote = ballot]
           e7 == CastAndSchedule(e2, "prevote", ballot, outs)
           out == ProposalInRound(e, v, vr, valid, can)
<1>1. e \in EngineState /\ e.round \in Round /\ ballot \in Ballot /\ (accept => valid)
  BY EngineTypes DEF Fits, Ballot
<1>2. \/ out = e1
      \/ out = EmitLocalFinalize(e1, e.round, v)
      \/ out = e6
      \/ e.step # "precommit" /\ accept /\ out = EmitLocalFinalize(e5, e.round, v)
      \/ e.step # "precommit" /\ accept /\ out = Schedule(e5, "precommit")
      \/ e.step # "precommit" /\ out = PrecommitNil(e7, can)
  BY DEF ProposalInRound
<1> HIDE DEF out, outs, ballot, accept
<1>3. /\ Fits(e1, lg, sv) /\ e1.round = e.round /\ e1.step = e.step
      /\ valid => HasMessage(e1, v, e.round)
  <2>1. CASE valid
    <3>1. Aside(e, e1) /\ HasMessage(e1, v, e.round)
      BY <1>1, <2>1, CacheProposalMessageAside
    <3> HIDE DEF e1
    <3> QED BY <3>1, AsideFits DEF Aside, Around
  <2>2. CASE ~valid
    BY <2>2
  <2> QED BY <2>1, <2>2
<1> HIDE DEF e1
<1>4. Fits(EmitLocalFinalize(e1, e.round, v), lg, sv)
  BY <1>1, <1>3, EmitLocalFinalizeFits
<1>5. Fits(e6, lg, sv)
  <2>1. Aside(e1, e6)
    BY <1>1, <1>3, FieldsAside DEF Fits
  <2> QED BY <1>3, <2>1, AsideFits
<1>6. CASE e.step # "precommit"
  <2>1. /\ Fits(e2, lg, sv) /\ e2.round = e.round /\ e2.step = "prevote"
        /\ valid => HasMessage(e2, v, e.round)
    BY <1>3, <1>6, SetStepFits DEF Step, HasMessage
  <2>2. Fits(e7, lg, sv)
    BY <1>1, <1>3, <1>6, PrevoteFits
  <2> HIDE DEF e2, e7
  <2>3. Fits(PrecommitNil(e7, can), lg, sv)
    BY <2>2, PrecommitNilFits
  <2>4. ASSUME accept
        PROVE  /\ Fits(EmitLocalFinalize(e5, e.round, v), lg, sv)
               /\ Fits(Schedule(e5, "precommit"), lg, sv)
    <3>1. Fits(e3, lg, sv) /\ Around(e2, e3)
      BY <1>1, <2>1, CastFits DEF VoteType
    <3> HIDE DEF e3
    <3>2. e3.round = e.round /\ e3.step = "prevote" /\ HasMessage(e3, v, e3.round)
      BY <1>1, <2>1, <2>4, <3>1 DEF Around
    <3>3. Fits(f, lg, sv) /\ f.step # "precommit" /\ HasMessage(f, v, f.round)
      BY <3>1, <3>2, PolcLockFits
    <3> HIDE DEF f
    <3>4. Fits(e5, lg, sv)
      BY <3>3, LockAndCastFits
    <3> HIDE DEF e4, e5
    <3> QED BY <1>1, <3>4, EmitLocalFinalizeFits, ScheduleFits DEF Step
  <2> QED BY <1>2, <1>3, <1>4, <1>5, <2>3, <2>4 DEF out
<1> QED BY <1>2, <1>3, <1>4, <1>5, <1>6 DEF out

\* on_propose.
LEMMA OnProposeFits ==
    ASSUME NEW e, NEW lg \in LogTable, NEW sv, Fits(e, lg, sv),
           NEW r \in Round, NEW v \in Value, NEW vr \in Round \cup {NoRound},
           NEW valid \in BOOLEAN, NEW can \in BOOLEAN, NEW ready
    PROVE  Fits(OnPropose(e, r, v, vr, valid, can, ready), lg, sv)
<1> DEFINE f == NoteRound(e, r, Leader[r], ready)
<1>1. Leader[r] \in Validator
  BY EngineAssumption DEF Round
<1>2. Fits(f, lg, sv)
  BY <1>1, NoteRoundFits
<1>3. OnPropose(e, r, v, vr, valid, can, ready) \in
        {e, f, ProposalInRound(f, v, vr, valid, can)}
  BY DEF OnPropose
<1> HIDE DEF f
<1> QED BY <1>2, <1>3, ProposalInRoundFits

\* learn_past_proposal.
LEMMA LearnPastProposalFits ==
    ASSUME NEW e, NEW lg, NEW sv, Fits(e, lg, sv),
           NEW r \in Round, NEW v \in Value, NEW vr \in Round \cup {NoRound}, NEW valid
    PROVE  Fits(LearnPastProposal(e, r, v, vr, valid), lg, sv)
<1>1. Aside(e, CacheProposalMessage(e, v, r, vr))
  BY CacheProposalMessageAside DEF Fits
<1>2. Fits(CacheProposalMessage(e, v, r, vr), lg, sv)
  BY <1>1, AsideFits
<1> QED BY <1>2 DEF LearnPastProposal

\* A prevote joins the tables and may complete a POLC.
LEMMA LearnedPrevoteFits ==
    ASSUME NEW e, NEW lg \in LogTable, NEW sv, Fits(e, lg, sv),
           NEW r \in Round, NEW p \in Validator, NEW b \in Ballot,
           p = Me => lg["prevote"][r] = b
    PROVE  LET f == LearnPrevote(AddVote(e, "prevote", r, p, b), r, p, b)
           IN  Fits(f, lg, sv) /\ f.round = e.round /\ f.step = e.step
<1> DEFINE g == AddVote(e, "prevote", r, p, b)
           f == LearnPrevote(g, r, p, b)
<1>1. Fits(g, lg, sv) /\ Around(e, g)
  BY AddVoteFits DEF VoteType
<1> HIDE DEF g
<1>2. Aside(g, f)
  BY <1>1, LearnPrevoteAside DEF Fits
<1> HIDE DEF f
<1>3. Fits(f, lg, sv)
  BY <1>1, <1>2, AsideFits
<1>4. f.round = e.round /\ f.step = e.step
  BY <1>1, <1>2 DEF Aside, Around
<1> QED BY <1>3, <1>4 DEF f, g

\* on_vote, a prevote quorum of the current round.
LEMMA PrevoteQuorumFits ==
    ASSUME NEW e, NEW lg \in LogTable, NEW sv, Fits(e, lg, sv),
           NEW b \in Ballot, e.step = "prevote", NEW can \in BOOLEAN
    PROVE  Fits(PrevoteQuorum(e, b, can), lg, sv)
<1> DEFINE outs == {"cast", "same", "deferred"}
           f == IF b = Nil THEN e ELSE TakeLock(e, b)
           g == SetStep(f, "precommit")
<1>1. PrevoteQuorum(e, b, can) =
        IF b # Nil /\ ~HasMessage(e, b, e.round) THEN e
        ELSE IF can THEN CastAndSchedule(g, "precommit", b, outs) ELSE f
  BY DEF PrevoteQuorum
<1> HIDE DEF outs
<1>2. CASE b = Nil
  <2>1. Fits(g, lg, sv) /\ g.step = "precommit"
    BY <1>2, SetStepFits DEF Step
  <2> HIDE DEF g
  <2>2. Fits(CastAndSchedule(g, "precommit", b, outs), lg, sv)
    BY <1>2, <2>1, CastAndScheduleFits DEF VoteType
  <2> QED BY <1>1, <1>2, <2>2
<1>3. CASE b # Nil /\ HasMessage(e, b, e.round)
  <2>1. b \in Value
    BY <1>3 DEF Ballot
  <2>2. Fits(f, lg, sv)
    BY <1>3, <2>1, TakeLockFits
  <2>3. Fits(CastAndSchedule(g, "precommit", b, outs), lg, sv)
    BY <1>3, <2>1, LockAndCastFits
  <2> QED BY <1>1, <1>3, <2>2, <2>3
<1> QED BY <1>1, <1>2, <1>3

\* prevote_in_round: the prevote of a proposal, for it or nil.
LEMMA PrevoteInRoundFits ==
    ASSUME NEW e, NEW lg \in LogTable, NEW sv, Fits(e, lg, sv),
           NEW p \in Validator, NEW b \in Ballot, NEW can \in BOOLEAN,
           p = Me => lg["prevote"][e.round] = b
    PROVE  Fits(PrevoteInRound(e, p, b, can), lg, sv)
<1> DEFINE f == LearnPrevote(AddVote(e, "prevote", e.round, p, b), e.round, p, b)
<1>1. e.round \in Round
  BY EngineTypes DEF Fits
<1>2. Fits(f, lg, sv) /\ f.round = e.round /\ f.step = e.step
  BY <1>1, LearnedPrevoteFits
<1>3. \/ PrevoteInRound(e, p, b, can) \in {f, Schedule(f, "prevote")}
      \/ e.step = "prevote" /\ PrevoteInRound(e, p, b, can) = PrevoteQuorum(f, b, can)
  BY DEF PrevoteInRound
<1> HIDE DEF f
<1> QED BY <1>2, <1>3, PrevoteQuorumFits, ScheduleFits DEF Step

\* A precommit joins the tables and may complete the quorum of its round.
LEMMA LearnedPrecommitFits ==
    ASSUME NEW e, NEW lg \in LogTable, NEW sv, Fits(e, lg, sv),
           NEW r \in Round, NEW p \in Validator, NEW b \in Ballot,
           p = Me => lg["precommit"][r] = b
    PROVE  LET f == AddVote(e, "precommit", r, p, b)
           IN  /\ Fits(f, lg, sv)
               /\ HeaderKnown(f, b) => Fits(EmitLocalFinalize(f, r, b), lg, sv)
<1> DEFINE f == AddVote(e, "precommit", r, p, b)
<1>1. Fits(f, lg, sv)
  BY AddVoteFits DEF VoteType
<1> HIDE DEF f
<1>2. HeaderKnown(f, b) => b \in Value
  BY DEF HeaderKnown, Ballot
<1> QED BY <1>1, <1>2, EmitLocalFinalizeFits DEF f

\* The tail of on_vote.
LEMMA AfterVoteFits ==
    ASSUME NEW e, NEW lg \in LogTable, NEW sv, Fits(e, lg, sv)
    PROVE  Fits(AfterVote(e), lg, sv)
<1> DEFINE f == IF RoundWait /\ e.step = "prevote" THEN Schedule(e, "prevote") ELSE e
           g == SetStep(f, "precommit")
<1>1. Fits(f, lg, sv)
  BY ScheduleFits DEF Step
<1>2. AfterVote(e) \in {f, Schedule(g, "precommit")}
  BY DEF AfterVote
<1> HIDE DEF f
<1>3. Fits(g, lg, sv)
  BY <1>1, SetStepFits DEF Step
<1> HIDE DEF g
<1> QED BY <1>1, <1>2, <1>3, ScheduleFits DEF Step

\* on_vote: a vote of our own comes back only when it is stored.
LEMMA OnVoteFits ==
    ASSUME NEW e, NEW lg \in LogTable, NEW sv, Fits(e, lg, sv),
           NEW t \in VoteType, NEW r \in Round, NEW p \in Validator, NEW b \in Ballot,
           NEW can \in BOOLEAN, NEW ready,
           p = Me => lg[t][r] = b
    PROVE  Fits(OnVote(e, t, r, p, b, can, ready), lg, sv)
<1> DEFINE f == NoteRound(e, r, p, ready)
           out == OnVote(e, t, r, p, b, can, ready)
<1>1. Fits(f, lg, sv)
  BY NoteRoundFits
<1>2. \/ out = e
      \/ t = "prevote" /\ out = RecordHistoricalPrevote(e, r, p, b)
      \/ t = "precommit" /\ out = RecordHistoricalPrecommit(e, r, p, b, can)
      \/ out = f
      \/ r = f.round /\ t = "prevote" /\ out = AfterVote(PrevoteInRound(f, p, b, can))
      \/ r = f.round /\ t = "precommit" /\ out = AfterVote(PrecommitInRound(f, p, b, can))
  BY DEF OnVote, VoteType
<1> HIDE DEF f, out
<1>3. t = "prevote" => Fits(RecordHistoricalPrevote(e, r, p, b), lg, sv)
  BY LearnedPrevoteFits DEF RecordHistoricalPrevote
<1>4. t = "precommit" => Fits(RecordHistoricalPrecommit(e, r, p, b, can), lg, sv)
  <2> SUFFICES ASSUME t = "precommit"
               PROVE  Fits(RecordHistoricalPrecommit(e, r, p, b, can), lg, sv)
    OBVIOUS
  <2> DEFINE g == AddVote(e, "precommit", r, p, b)
  <2>1. Fits(g, lg, sv) /\ (HeaderKnown(g, b) => Fits(EmitLocalFinalize(g, r, b), lg, sv))
    BY LearnedPrecommitFits
  <2>2. \/ RecordHistoricalPrecommit(e, r, p, b, can) = g
        \/ /\ HeaderKnown(g, b)
           /\ RecordHistoricalPrecommit(e, r, p, b, can) = EmitLocalFinalize(g, r, b)
    BY DEF RecordHistoricalPrecommit
  <2> HIDE DEF g
  <2> QED BY <2>1, <2>2
<1>5. r = f.round /\ t = "prevote" => Fits(PrevoteInRound(f, p, b, can), lg, sv)
  BY <1>1, PrevoteInRoundFits
<1>6. r = f.round /\ t = "precommit" => Fits(PrecommitInRound(f, p, b, can), lg, sv)
  <2> SUFFICES ASSUME r = f.round, t = "precommit"
               PROVE  Fits(PrecommitInRound(f, p, b, can), lg, sv)
    OBVIOUS
  <2> DEFINE g == AddVote(f, "precommit", r, p, b)
  <2>1. Fits(g, lg, sv) /\ (HeaderKnown(g, b) => Fits(EmitLocalFinalize(g, r, b), lg, sv))
    BY <1>1, LearnedPrecommitFits
  <2>2. \/ PrecommitInRound(f, p, b, can) = g
        \/ HeaderKnown(g, b) /\ PrecommitInRound(f, p, b, can) = EmitLocalFinalize(g, r, b)
    BY DEF PrecommitInRound
  <2> HIDE DEF g
  <2> QED BY <2>1, <2>2
<1>7. Fits(out, lg, sv)
  BY <1>1, <1>2, <1>3, <1>4, <1>5, <1>6, AfterVoteFits
<1> QED BY <1>7 DEF out

\* on_timeout; the next round is in the bound.
LEMMA OnTimeoutFits ==
    ASSUME NEW e, NEW lg \in LogTable, NEW sv, Fits(e, lg, sv),
           NEW t, NEW can \in BOOLEAN,
           TimeoutEndsRound(e, t, can) => e.round < MaxRound
    PROVE  Fits(OnTimeout(e, t, can), lg, sv)
<1> DEFINE two == {"cast", "same"}
           f == [e EXCEPT !.vote_timers = @ \ {t.step}]
           pre == CastAndSchedule(SetStep(e, "prevote"), "prevote", Nil, two)
           g == SetStep(e, "precommit")
           com == CastAndSchedule(g, "precommit", Nil, two)
           out == OnTimeout(e, t, can)
<1>1. e \in EngineState /\ e.round \in Round
  BY EngineTypes DEF Fits
<1>2. \/ out \in {e, f, com, Schedule(e, "propose"), Schedule(g, "precommit")}
      \/ e.step = "propose" /\ out = PrecommitNil(pre, can)
      \/ TimeoutEndsRound(e, t, can) /\ out = StartRound(e, e.round + 1)
  BY DEF OnTimeout, TimerCurrent
<1> HIDE DEF out, two
<1>3. Fits(f, lg, sv)
  <2> DEFINE w == e.vote_timers \ {t.step}
  <2>1. w \in SUBSET Step
    BY <1>1 DEF EngineState
  <2>2. f = [e EXCEPT !.vote_timers = w]
    OBVIOUS
  <2> HIDE DEF w, f
  <2>3. Aside(e, f)
    BY <1>1, <2>1, <2>2, FieldsAside
  <2> QED BY <2>3, AsideFits
<1>4. Fits(g, lg, sv) /\ g.step = "precommit"
  BY SetStepFits DEF Step
<1> HIDE DEF g
<1>5. Fits(com, lg, sv)
  BY <1>4, CastAndScheduleFits DEF VoteType, Ballot
<1>6. Fits(Schedule(e, "propose"), lg, sv) /\ Fits(Schedule(g, "precommit"), lg, sv)
  BY <1>4, ScheduleFits DEF Step
<1>7. e.step = "propose" => Fits(PrecommitNil(pre, can), lg, sv)
  <2>1. e.step = "propose" => Fits(pre, lg, sv)
    BY PrevoteFits DEF Ballot
  <2> HIDE DEF pre
  <2> QED BY <2>1, PrecommitNilFits
<1>8. TimeoutEndsRound(e, t, can) => Fits(StartRound(e, e.round + 1), lg, sv)
  <2> SUFFICES ASSUME e.round < MaxRound PROVE Fits(StartRound(e, e.round + 1), lg, sv)
    OBVIOUS
  <2>1. e.round + 1 \in Round /\ e.round + 1 >= e.round /\ e.round + 1 # e.round
    BY <1>1, EngineAssumption DEF Round
  <2> QED BY <2>1, StartRoundFits
<1>9. Fits(out, lg, sv)
  <2> HIDE DEF f, com, pre
  <2> QED BY <1>2, <1>3, <1>5, <1>6, <1>7, <1>8
<1> QED BY <1>9 DEF out

\* accept_finalize_batch: the lock moves to the certificate's value, unless it
\* contradicts a lock of the same or a later round.
LEMMA AcceptFinalizeFits ==
    ASSUME NEW e, NEW lg \in LogTable, NEW sv, Fits(e, lg, sv),
           NEW r \in Round, NEW v \in Value
    PROVE  Fits(AcceptFinalizeBatch(e, r, v), lg, sv)
<1> DEFINE top == IF e.locked_round > r THEN e.locked_round ELSE r
           e0 == CacheProposalHeaderOnly(e, v)
           e1 == RecordPolc(e0, r, v)
           f == [e1 EXCEPT !.locked_round = top, !.locked_value = v,
                           !.valid_round = top, !.valid_value = v]
           g == EmitFinalized(f, r, v, FALSE)
<1>1. AcceptFinalizeBatch(e, r, v) =
        IF e.finalized \/ (e.locked_value \notin {None, v} /\ r <= e.locked_round)
        THEN e ELSE g
  BY DEF AcceptFinalizeBatch
<1>2. CASE e.finalized \/ (e.locked_value \notin {None, v} /\ r <= e.locked_round)
  BY <1>1, <1>2
<1>3. CASE ~(e.finalized \/ (e.locked_value \notin {None, v} /\ r <= e.locked_round))
  <2>1. /\ e \in EngineState /\ top \in Round /\ r \in Int /\ top >= r
        /\ top >= e.locked_round /\ e.locked_round \in Int
        /\ (e.locked_round >= r => top = e.locked_round)
    <3>1. e \in EngineState
      BY DEF Fits
    <3> QED BY <3>1, EngineTypes DEF Round, NoRound
  <2> HIDE DEF top
  <2>2. Aside(e, e0)
    BY <2>1, CacheHeaderAside
  <2> HIDE DEF e0
  <2>3. Aside(e0, e1)
    BY <2>2, RecordPolcAside DEF Aside, Around, Ballot
  <2> HIDE DEF e1
  <2>4. Aside(e, e1)
    BY <2>2, <2>3, AsideTrans
  <2>5. Fits(e1, lg, sv) /\ e1 \in EngineState
    BY <2>4, AsideFits DEF Aside, Around
  <2> DEFINE m == [kind |-> "finalize", round |-> r, ballot |-> v, own |-> FALSE]
  <2>6. m \in FinalizeMessage
    BY DEF FinalizeMessage
  <2>7. g = IF f.pending_finalized # None THEN f
            ELSE [f EXCEPT !.finalized = TRUE, !.pending_finalized = m]
    <3>1. (FALSE /\ f.votes["precommit"][r][Me] = v) = FALSE
      OBVIOUS
    <3>2. f \in EngineState
      BY <2>1, <2>5 DEF EngineState
    <3>3. [f EXCEPT !.finalized = TRUE, !.pending_finalized = m, !.outputs = @] =
            [f EXCEPT !.finalized = TRUE, !.pending_finalized = m]
      <4> HIDE DEF m, f
      <4> QED BY <3>2 DEF EngineState
    <3> HIDE DEF f
    <3> QED BY <3>1, <3>3 DEF EmitFinalized
  <2> HIDE DEF m
  <2>8. /\ f \in EngineState /\ f.round = e1.round /\ f.step = e1.step
        /\ f.votes = e1.votes /\ f.outputs = e1.outputs
        /\ f.locked_round = top /\ f.locked_value = v
        /\ f.valid_value = v
    BY <2>1, <2>5 DEF EngineState
  <2> HIDE DEF f
  <2>9. /\ g \in EngineState /\ g.round = e1.round /\ g.step = e1.step
        /\ g.votes = e1.votes /\ g.outputs = e1.outputs
        /\ g.locked_round = top /\ g.locked_value = v
        /\ g.pending_finalized # None /\ g.valid_value = v
    <3>1. CASE f.pending_finalized # None
      BY <2>7, <2>8, <3>1
    <3>2. CASE f.pending_finalized = None
      <4>1. g = [f EXCEPT !.finalized = TRUE, !.pending_finalized = m]
        BY <2>7, <3>2
      <4> HIDE DEF g
      <4>2. g \in EngineState /\ g.round = f.round /\ g.step = f.step
            /\ g.votes = f.votes /\ g.outputs = f.outputs
            /\ g.locked_round = f.locked_round /\ g.locked_value = f.locked_value
            /\ g.pending_finalized = m /\ g.valid_value = f.valid_value
        BY <2>6, <2>8, <4>1 DEF EngineState
      <4> QED BY <2>6, <2>8, <4>2, NoneAssumption
    <3> QED BY <3>1, <3>2
  <2> HIDE DEF g
  <2>10. /\ NothingAhead(g, lg) /\ TablesFitLog(g, lg) /\ StepFits(g)
         /\ OutputsHeld(g) /\ SavesHeld(g, sv)
    BY <2>5, <2>9 DEF Fits, NothingAhead, TablesFitLog, StepFits, OutputsHeld, SavesHeld, Own
  <2>11. LockCovers(g, lg)
    <3> SUFFICES ASSUME NEW s \in Round, NEW w \in Value,
                        Own(g, "precommit", s) = w \/ lg["precommit"][s] = w
                 PROVE  top > s \/ (top = s /\ v = w)
      BY <2>9 DEF LockCovers
    <3>1. Own(g, "precommit", s) = Own(e, "precommit", s)
      BY <2>4, <2>9 DEF Own, Aside
    <3>2. e.locked_round > s \/ (e.locked_round = s /\ e.locked_value = w)
      BY <3>1 DEF Fits, LockCovers
    <3>3. s \in Int /\ w # None
      BY NoneIsNoBallot DEF Round
    <3>4. CASE e.locked_round > s
      BY <2>1, <3>3, <3>4
    <3>5. CASE e.locked_round = s /\ e.locked_value = w
      <4>1. w = v \/ r > e.locked_round
        BY <1>3, <2>1, <3>3, <3>5
      <4> QED BY <2>1, <3>3, <3>5, <4>1
    <3> QED BY <3>2, <3>4, <3>5
  <2>12. LockKnown(g) /\ ValidKnown(g)
    BY <2>9 DEF LockKnown, ValidKnown
  <2>13. Fits(g, lg, sv)
    BY <2>9, <2>10, <2>11, <2>12 DEF Fits
  <2> QED BY <1>1, <1>3, <2>13
<1> QED BY <1>2, <1>3

-----------------------------------------------------------------------------
(* The log, the height and the restart *)

\* A vote that is in the tables is stored.
LEMMA LogAddFits ==
    ASSUME NEW e, NEW lg \in LogTable, NEW sv, Fits(e, lg, sv),
           NEW t \in VoteType, NEW r \in Round, NEW b \in Ballot, Own(e, t, r) = b
    PROVE  LET new == [lg EXCEPT ![t][r] = b]
           IN  /\ new \in LogTable
               /\ Fits(e, new, sv)
               /\ \A u \in VoteType, s \in Round :
                     new[u][s] = IF u = t /\ s = r THEN b ELSE lg[u][s]
<1> DEFINE new == [lg EXCEPT ![t][r] = b]
<1>1. /\ new \in LogTable
      /\ \A u \in VoteType, s \in Round :
            new[u][s] = IF u = t /\ s = r THEN b ELSE lg[u][s]
  BY DEF LogTable
<1> HIDE DEF new
<1>2. b # None
  BY NoneIsNoBallot
<1>3. NothingAhead(e, new)
  BY <1>1, <1>2 DEF Fits, NothingAhead
<1>4. TablesFitLog(e, new)
  BY <1>1 DEF Fits, TablesFitLog
<1>5. LockCovers(e, new)
  BY <1>1 DEF Fits, LockCovers, VoteType
<1>6. Fits(e, new, sv)
  BY <1>3, <1>4, <1>5 DEF Fits
<1> QED BY <1>1, <1>6 DEF new

\* Other votes on their way to the log, which are in the tables.
LEMMA SavesFits ==
    ASSUME NEW e, NEW lg, NEW sv, Fits(e, lg, sv), NEW new, SavesHeld(e, new)
    PROVE  Fits(e, lg, new)
BY DEF Fits

\* The round at which the height resumes lies behind every own vote and behind
\* the lock.
LEMMA ResumeRoundBehind ==
    ASSUME NEW e \in EngineState
    PROVE  /\ ResumeRound(e) \in 0 .. MaxRound + 1
           /\ ResumeRound(e) >= e.round
           /\ ResumeRound(e) > e.locked_round
           /\ \A t \in VoteType, r \in Round : Own(e, t, r) # None => r < ResumeRound(e)
           /\ \/ ResumeRound(e) = e.round
              \/ ResumeRound(e) = e.locked_round + 1
              \/ \E t \in VoteType, r \in Round :
                    Own(e, t, r) # None /\ ResumeRound(e) = r + 1
<1> DEFINE voted == {r \in Round : \E t \in VoteType : e.votes[t][r][Me] # None}
           S == {e.round, e.locked_round + 1} \cup {r + 1 : r \in voted}
           n == MaxRound + 1
<1>1. ResumeRound(e) = Max(S)
  BY DEF ResumeRound
<1>2. /\ n \in Nat /\ MaxRound \in Nat
      /\ e.round \in Round /\ e.locked_round \in Round \cup {NoRound}
  BY EngineAssumption, EngineTypes
<1>3. S \subseteq 0 .. n /\ S # {}
  BY <1>2 DEF Round, NoRound
<1>4. Max(S) \in S /\ \A y \in S : y <= Max(S)
  <2> HIDE DEF S, n
  <2> QED BY <1>2, <1>3, MaxIsGreatest
<1> DEFINE m == Max(S)
<1>5. m \in S /\ (\A y \in S : y <= m) /\ m \in 0 .. n
  BY <1>3, <1>4
<1> HIDE DEF m
<1>6. m >= e.round /\ m > e.locked_round
  <2>1. e.locked_round + 1 <= m
    BY <1>5
  <2> QED BY <1>2, <1>5, <2>1 DEF Round, NoRound
<1>7. ASSUME NEW t \in VoteType, NEW r \in Round, Own(e, t, r) # None PROVE r < m
  <2>1. r + 1 \in S
    BY <1>7 DEF Own
  <2>2. r + 1 <= m
    BY <1>5, <2>1
  <2> QED BY <1>5, <1>2, <2>2 DEF Round
<1>8. \/ m = e.round \/ m = e.locked_round + 1
      \/ \E t \in VoteType, r \in Round : Own(e, t, r) # None /\ m = r + 1
  BY <1>5 DEF Own
<1> QED BY <1>1, <1>5, <1>6, <1>7, <1>8 DEF m

\* start_height in the height it is already in.
LEMMA StartSameHeightFits ==
    ASSUME NEW e, NEW lg \in LogTable, NEW sv, Fits(e, lg, sv), ResumeRound(e) \in Round
    PROVE  LET f == StartSameHeight(e)
           IN  /\ Fits(f, lg, sv)
               /\ f.round = ResumeRound(e)
               /\ \A t \in VoteType, s \in Round : Own(f, t, s) = Own(e, t, s)
               /\ \A t \in VoteType, s \in Round : s >= f.round => lg[t][s] = None
<1> DEFINE n == e.generation + 1
           w == [p \in Validator |-> NoRound]
           r == ResumeRound(e)
           g == [e EXCEPT !.generation = n, !.outputs = <<>>, !.higher_round_evidence = w]
<1>1. e \in EngineState /\ n \in Nat /\ w \in [Validator -> Int] /\ <<>> \in Seq(Output)
  <2>1. e \in EngineState
    BY DEF Fits
  <2> QED BY <2>1, EngineTypes DEF NoRound
<1>2. StartSameHeight(e) = StartRound(g, r)
  BY DEF StartSameHeight
<1>3. r \in Round /\ r >= e.round
      /\ \A t \in VoteType, s \in Round : Own(e, t, s) # None => s < r
  BY <1>1, ResumeRoundBehind
<1> HIDE DEF n, w, r
<1>4. /\ g \in EngineState /\ g.round = e.round /\ g.step = e.step
      /\ g.votes = e.votes /\ g.outputs = <<>>
      /\ g.locked_round = e.locked_round /\ g.locked_value = e.locked_value
      /\ g.valid_round = e.valid_round /\ g.valid_value = e.valid_value
      /\ g.pending_finalized = e.pending_finalized
      /\ g.proposal_messages = e.proposal_messages
  BY <1>1 DEF EngineState
<1> HIDE DEF g
<1>5. /\ NothingAhead(g, lg) /\ TablesFitLog(g, lg) /\ StepFits(g) /\ SavesHeld(g, sv)
      /\ LockCovers(g, lg) /\ LockKnown(g) /\ ValidKnown(g)
  BY <1>4 DEF Fits, NothingAhead, TablesFitLog, StepFits, SavesHeld, LockCovers,
              LockKnown, ValidKnown, HasMessage, Own
<1>6. OutputsHeld(g)
  BY <1>4 DEF OutputsHeld
<1>7. Fits(g, lg, sv)
  BY <1>4, <1>5, <1>6 DEF Fits
<1>8. \A t \in VoteType, s \in Round : Own(g, t, s) = Own(e, t, s)
  BY <1>4 DEF Own
<1>9. \A t \in VoteType : Own(g, t, r) = None
  <2> SUFFICES ASSUME NEW t \in VoteType, Own(g, t, r) # None PROVE FALSE
    OBVIOUS
  <2>1. r < r
    BY <1>3, <1>8
  <2> QED BY <1>3, <2>1 DEF Round
<1>10. /\ Fits(StartRound(g, r), lg, sv)
       /\ \A t \in VoteType, s \in Round : Own(StartRound(g, r), t, s) = Own(g, t, s)
       /\ \A t \in VoteType, s \in Round : s >= r => lg[t][s] = None
  BY <1>3, <1>4, <1>7, <1>9, StartRoundFits
<1>11. StartRound(g, r).round = r
  BY <1>3, <1>4, StartRoundEffect
<1> QED BY <1>2, <1>8, <1>10, <1>11 DEF r

\* The same with a part of the old outputs still to be processed.
LEMMA DrainedHeightFits ==
    ASSUME NEW e, NEW lg \in LogTable, NEW sv, Fits(e, lg, sv), ResumeRound(e) \in Round,
           NEW k \in 0 .. Len(e.outputs)
    PROVE  LET f == [StartSameHeight(e) EXCEPT !.outputs = SubSeq(e.outputs, 1, k)]
           IN  /\ Fits(f, lg, sv)
               /\ \A t \in VoteType, s \in Round : s >= f.round => lg[t][s] = None
<1> DEFINE q == SubSeq(e.outputs, 1, k)
           g == StartSameHeight(e)
           f == [g EXCEPT !.outputs = q]
<1>1. /\ Fits(g, lg, sv)
      /\ \A t \in VoteType, s \in Round : Own(g, t, s) = Own(e, t, s)
      /\ \A t \in VoteType, s \in Round : s >= g.round => lg[t][s] = None
  BY StartSameHeightFits
<1>2. e \in EngineState /\ e.outputs \in Seq(Output) /\ Len(e.outputs) \in Nat
  BY EngineTypes DEF Fits
<1>3. /\ q \in Seq(Output)
      /\ \A i \in DOMAIN q : i \in DOMAIN e.outputs /\ q[i] = e.outputs[i]
  BY <1>2
<1> HIDE DEF g, q
<1>4. f.outputs = q /\ f.votes = g.votes
  BY <1>1 DEF Fits, EngineState
<1>5. OutputsHeld(f)
  <2> SUFFICES ASSUME NEW i \in DOMAIN q, q[i].kind = "vote"
               PROVE  Own(f, q[i].type, q[i].round) = q[i].ballot
    BY <1>4 DEF OutputsHeld
  <2> DEFINE o == e.outputs[i]
  <2>1. i \in DOMAIN e.outputs /\ q[i] = o /\ o \in Output
    BY <1>2, <1>3
  <2>2. o \in LocalVote
    BY <2>1 DEF Output, LocalVote, FinalizeMessage
  <2>3. o.type \in VoteType /\ o.round \in Round
    BY <2>2 DEF LocalVote
  <2>4. Own(e, o.type, o.round) = o.ballot
    BY <2>1 DEF Fits, OutputsHeld
  <2>5. Own(f, o.type, o.round) = Own(g, o.type, o.round)
    BY <1>4 DEF Own
  <2> QED BY <1>1, <2>1, <2>3, <2>4, <2>5
<1>6. Fits(f, lg, sv) /\ f.round = g.round
  BY <1>1, <1>3, <1>5, OutputsFits
<1> QED BY <1>1, <1>6 DEF f, g, q

\* An engine without a vote of its own.
Blank(e) ==
    /\ e \in EngineState
    /\ e.step = "propose"
    /\ e.outputs = <<>>
    /\ \A t \in VoteType, r \in Round : Own(e, t, r) = None
    /\ LockKnown(e)
    /\ ValidKnown(e)

\* The lock stands at or above every stored precommit for a value.
LogCovered(e, lg) ==
    \A r \in Round, v \in Value :
        lg["precommit"][r] = v =>
            \/ e.locked_round > r
            \/ e.locked_round = r /\ e.locked_value = v

\* It fits a log whose votes are behind its round.
LEMMA BlankFits ==
    ASSUME NEW e, NEW lg \in LogTable, Blank(e), LogCovered(e, lg),
           \A t \in VoteType, r \in Round : r >= e.round => lg[t][r] = None
    PROVE  Fits(e, lg, {})
<1>1. e \in EngineState /\ e.round \in Nat /\ e.round \in Round
  BY EngineTypes DEF Blank
<1>2. NothingAhead(e, lg)
  BY <1>1 DEF Blank, NothingAhead, Round
<1>3. TablesFitLog(e, lg) /\ StepFits(e) /\ OutputsHeld(e) /\ SavesHeld(e, {})
  BY <1>1 DEF Blank, TablesFitLog, StepFits, OutputsHeld, SavesHeld, VoteType
<1>4. LockCovers(e, lg)
  BY NoneIsNoBallot DEF Blank, LogCovered, LockCovers, VoteType
<1> QED BY <1>1, <1>2, <1>3, <1>4 DEF Blank, Fits

\* The engine of a new height.
LEMMA InitialBlank ==
    /\ Blank(InitialEngine)
    /\ InitialEngine.round = 0 /\ InitialEngine.locked_round = NoRound
<1> DEFINE w == [t \in VoteType |-> [r \in Round |-> NoVotes]]
<1>1. 0 \in Round /\ MaxRound \in Nat
  BY EngineAssumption DEF Round
<1>2. NoVotes \in [Validator -> Ballot \cup {None}] /\ \A p \in Validator : NoVotes[p] = None
  BY DEF NoVotes
<1>3. w \in VoteTable /\ \A t \in VoteType, r \in Round : w[t][r][Me] = None
  <2> HIDE DEF NoVotes
  <2> QED BY <1>2, EngineAssumption DEF VoteTable
<1>4. /\ [v \in Value |-> [r \in Round |-> NoMessage]]
            \in [Value -> [Round -> Round \cup {NoRound, NoMessage}]]
      /\ [v \in Value |-> "none"] \in [Value -> {"none", "header", "bundle"}]
      /\ [r \in Round |-> None] \in [Round -> Value \cup {None}]
      /\ [p \in Validator |-> NoRound] \in [Validator -> Int]
      /\ <<>> \in Seq(Output)
  BY DEF NoRound
<1>5. InitialEngine.votes = w
  BY DEF InitialEngine
<1>6. InitialEngine \in EngineState
  <2> HIDE DEF w
  <2>1. InitialEngine =
     [round |-> 0, step |-> "propose",
      locked_round |-> NoRound, locked_value |-> None,
      valid_round |-> NoRound, valid_value |-> None,
      votes |-> w,
      pending_prevote |-> None,
      proposal_cache |-> [v \in Value |-> "none"],
      proposal_messages |-> [v \in Value |-> [r \in Round |-> NoMessage]],
      polc_by_round |-> [r \in Round |-> None],
      higher_round_evidence |-> [p \in Validator |-> NoRound],
      outputs |-> <<>>, vote_timers |-> {}, armed |-> FALSE,
      finalized |-> FALSE, pending_finalized |-> None, generation |-> 0]
    BY DEF InitialEngine, w
  <2> QED BY <1>1, <1>3, <1>4, <2>1 DEF EngineState, VoteTable, Step
<1>7. /\ InitialEngine.round = 0 /\ InitialEngine.step = "propose"
      /\ InitialEngine.outputs = <<>>
      /\ InitialEngine.locked_round = NoRound /\ InitialEngine.valid_round = NoRound
  BY DEF InitialEngine
<1>8. LockKnown(InitialEngine) /\ ValidKnown(InitialEngine)
  BY <1>7 DEF LockKnown, ValidKnown, NoRound
<1>9. \A t \in VoteType, r \in Round : Own(InitialEngine, t, r) = None
  BY <1>3, <1>5 DEF Own
<1> QED BY <1>6, <1>7, <1>8, <1>9 DEF Blank

\* realign_round of such an engine.
LEMMA RealignBlank ==
    ASSUME NEW e \in EngineState, NEW r \in Round,
           \A t \in VoteType, s \in Round : Own(e, t, s) = None,
           e.outputs = <<>>, ValidKnown(e),
           e.locked_round >= 0 =>
               /\ e.locked_value \in Value
               /\ e.locked_round <= r
               /\ HasMessage(e, e.locked_value, e.locked_round)
    PROVE  LET f == RealignRound(e, r)
           IN  /\ Blank(f) /\ f.round = r
               /\ f.locked_round = e.locked_round /\ f.locked_value = e.locked_value
               /\ f.proposal_messages = e.proposal_messages
<1> DEFINE n == e.generation + 1
           g == [e EXCEPT !.generation = n]
           f == StartRound(g, r)
<1>1. n \in Nat
  BY EngineTypes
<1>2. RealignRound(e, r) = f
  BY DEF RealignRound
<1> HIDE DEF n
<1>3. /\ g \in EngineState /\ g.votes = e.votes /\ g.outputs = e.outputs
      /\ g.locked_round = e.locked_round /\ g.locked_value = e.locked_value
      /\ g.valid_round = e.valid_round /\ g.valid_value = e.valid_value
      /\ g.proposal_messages = e.proposal_messages
  BY <1>1 DEF EngineState
<1> HIDE DEF g
<1>4. /\ f \in EngineState /\ f.round = r /\ f.step = "propose"
      /\ f.locked_round = g.locked_round /\ f.locked_value = g.locked_value
      /\ f.valid_round = g.valid_round /\ f.valid_value = g.valid_value
      /\ f.outputs = g.outputs
      /\ f.proposal_messages = g.proposal_messages
      /\ \A t \in VoteType, s \in Round, p \in Validator :
            f.votes[t][s][p] = IF s = r THEN None ELSE g.votes[t][s][p]
  BY <1>3, StartRoundEffect
<1> HIDE DEF f
<1>5. \A t \in VoteType, s \in Round : Own(f, t, s) = None
  BY <1>3, <1>4, EngineAssumption DEF Own
<1>6. LockKnown(f) /\ ValidKnown(f)
  BY <1>3, <1>4 DEF LockKnown, ValidKnown, HasMessage
<1> QED BY <1>2, <1>3, <1>4, <1>5, <1>6 DEF Blank

\* restore_precommit_lock: the lock is the journalled value, with its proposal.
LEMMA RestoreLockBlank ==
    ASSUME NEW r \in Round, NEW v \in Value, NEW vr \in Round \cup {NoRound},
           ~RoundWait => r # MaxRound
    PROVE  LET f == RestorePrecommitLock(InitialEngine, r, v, vr)
           IN  /\ Blank(f)
               /\ f.round = IF RoundWait THEN r ELSE r + 1
               /\ f.locked_round = r /\ f.locked_value = v
               /\ HasMessage(f, v, r)
<1> DEFINE e0 == CacheProposalMessage(InitialEngine, v, r, vr)
           e1 == RecordPolc(e0, r, v)
           e2 == [e1 EXCEPT !.locked_round = r, !.locked_value = v,
                            !.valid_round = r, !.valid_value = v]
           to == IF RoundWait THEN r ELSE r + 1
           f == RealignRound(e2, to)
<1>1. RestorePrecommitLock(InitialEngine, r, v, vr) = f
  BY DEF RestorePrecommitLock
<1>2. to \in Round /\ r <= to /\ r \in Nat
  BY EngineAssumption DEF Round
<1> HIDE DEF to
<1>3. Blank(InitialEngine) /\ InitialEngine \in EngineState
  BY InitialBlank DEF Blank
<1>4. Aside(InitialEngine, e0) /\ HasMessage(e0, v, r)
  BY <1>3, CacheProposalMessageAside
<1> HIDE DEF e0
<1>5. Aside(e0, e1)
  BY <1>4, RecordPolcAside DEF Aside, Around, Ballot
<1> HIDE DEF e1
<1>6. Aside(InitialEngine, e1) /\ e1 \in EngineState /\ HasMessage(e1, v, r)
  BY <1>4, <1>5, AsideTrans DEF Aside, Around
<1>7. /\ e2 \in EngineState /\ e2.votes = e1.votes /\ e2.outputs = e1.outputs
      /\ e2.locked_round = r /\ e2.locked_value = v /\ e2.valid_value = v
      /\ e2.proposal_messages = e1.proposal_messages
  BY <1>6 DEF EngineState
<1> HIDE DEF e2
<1>8. \A t \in VoteType, s \in Round : Own(e2, t, s) = None
  BY <1>3, <1>6, <1>7 DEF Aside, Blank, Own
<1>9. e2.outputs = <<>> /\ ValidKnown(e2) /\ HasMessage(e2, v, r)
  BY <1>3, <1>6, <1>7 DEF Aside, Blank, ValidKnown, HasMessage
<1>10. /\ Blank(f) /\ f.round = to
       /\ f.locked_round = e2.locked_round /\ f.locked_value = e2.locked_value
       /\ f.proposal_messages = e2.proposal_messages
  BY <1>2, <1>7, <1>8, <1>9, RealignBlank
<1> HIDE DEF f
<1> QED BY <1>1, <1>7, <1>9, <1>10 DEF HasMessage, to

\* restore_local_votes: the stored votes of the round re-enter the tables.
LEMMA RestoreVotesFits ==
    ASSUME NEW e, NEW lg \in LogTable, Blank(e), LogCovered(e, lg),
           \A t \in VoteType, r \in Round : r > e.round => lg[t][r] = None
    PROVE  Fits(RestoreLocalVotes(e, [t \in VoteType |-> lg[t][e.round]]), lg, {})
<1> DEFINE saved == [t \in VoteType |-> lg[t][e.round]]
           w == [t \in VoteType |-> IF saved[t] # None
                                    THEN [e.votes[t] EXCEPT ![e.round][Me] = saved[t]]
                                    ELSE e.votes[t]]
           g == [e EXCEPT !.votes = w]
           step == IF saved["precommit"] # None THEN "precommit"
                   ELSE IF saved["prevote"] # None /\ e.step = "propose" THEN "prevote"
                   ELSE e.step
           a == e.armed /\ e.step = step
           f == [g EXCEPT !.step = step, !.armed = a]
<1>1. e \in EngineState /\ e.round \in Round /\ e.round \in Nat /\ e.votes \in VoteTable
  BY EngineTypes DEF Blank
<1>2. \A t \in VoteType : saved[t] = lg[t][e.round] /\ saved[t] \in Ballot \cup {None}
  BY <1>1 DEF LogTable
<1>3. /\ w \in VoteTable
      /\ \A t \in VoteType, s \in Round :
            w[t][s][Me] = IF s = e.round /\ saved[t] # None THEN saved[t]
                          ELSE e.votes[t][s][Me]
  <2> HIDE DEF saved
  <2> QED BY <1>1, <1>2, EngineAssumption DEF VoteTable
<1>4. RestoreLocalVotes(e, saved) = Schedule(f, step)
  <2>1. g = [e EXCEPT !.votes = [t \in VoteType |->
                    IF saved[t] # None THEN [@[t] EXCEPT ![e.round][Me] = saved[t]]
                    ELSE @[t]]]
    OBVIOUS
  <2>2. SetStep(g, step) = f
    <3> HIDE DEF w
    <3>1. g.step = e.step /\ g.armed = e.armed
      BY <1>1 DEF EngineState
    <3> HIDE DEF g, step
    <3> QED BY <3>1 DEF SetStep
  <2> HIDE DEF w, saved
  <2> QED BY <2>1, <2>2 DEF RestoreLocalVotes
<1>5. step \in Step /\ a \in BOOLEAN
  BY <1>1 DEF Step, EngineState
<1>6. saved["precommit"] # None => step = "precommit"
  OBVIOUS
<1>7. \A t \in VoteType, s \in Round :
         w[t][s][Me] = IF s = e.round THEN lg[t][s] ELSE None
  BY <1>2, <1>3 DEF Blank, Own
<1>8. saved["precommit"] = lg["precommit"][e.round]
  BY <1>2 DEF VoteType
<1> HIDE DEF w, saved, step, a
<1>9. g \in EngineState /\ g.votes = w
      /\ g.round = e.round /\ g.outputs = e.outputs
      /\ g.locked_round = e.locked_round /\ g.locked_value = e.locked_value
      /\ g.valid_round = e.valid_round /\ g.valid_value = e.valid_value
      /\ g.pending_finalized = e.pending_finalized
      /\ g.proposal_messages = e.proposal_messages
  BY <1>1, <1>3 DEF EngineState, VoteTable
<1> HIDE DEF g
<1>10. f \in EngineState /\ f.votes = w /\ f.step = step
       /\ f.round = e.round /\ f.outputs = e.outputs
       /\ f.locked_round = e.locked_round /\ f.locked_value = e.locked_value
       /\ f.valid_round = e.valid_round /\ f.valid_value = e.valid_value
       /\ f.pending_finalized = e.pending_finalized
       /\ f.proposal_messages = e.proposal_messages
  BY <1>5, <1>9 DEF EngineState
<1> HIDE DEF f
<1>11. \A t \in VoteType, s \in Round : Own(f, t, s) = IF s = e.round THEN lg[t][s] ELSE None
  BY <1>7, <1>10 DEF Own
<1>12. NothingAhead(f, lg) /\ TablesFitLog(f, lg)
  <2>1. NothingAhead(f, lg)
    <3> SUFFICES ASSUME NEW t \in VoteType, NEW s \in Round
                 PROVE  /\ s > e.round => Own(f, t, s) = None /\ lg[t][s] = None
                        /\ s = e.round /\ Own(f, t, s) = None => lg[t][s] = None
      BY <1>10 DEF NothingAhead
    <3>1. s > e.round => s # e.round
      BY <1>1 DEF Round
    <3> QED BY <1>11, <3>1
  <2>2. TablesFitLog(f, lg)
    BY <1>11 DEF TablesFitLog
  <2> QED BY <2>1, <2>2
<1>13. StepFits(f)
  BY <1>1, <1>6, <1>8, <1>10, <1>11 DEF StepFits, VoteType
<1>14. OutputsHeld(f) /\ SavesHeld(f, {})
  BY <1>10 DEF Blank, OutputsHeld, SavesHeld
<1>15. LockCovers(f, lg)
  BY <1>10, <1>11, NoneIsNoBallot DEF LogCovered, LockCovers, VoteType
<1>16. LockKnown(f) /\ ValidKnown(f)
  BY <1>10 DEF Blank, LockKnown, ValidKnown, HasMessage
<1>17. Fits(f, lg, {})
  BY <1>10, <1>12, <1>13, <1>14, <1>15, <1>16 DEF Fits
<1>18. Fits(Schedule(f, step), lg, {})
  BY <1>5, <1>17, ScheduleFits
<1> QED BY <1>4, <1>18 DEF saved

-----------------------------------------------------------------------------
(* The votes behind the engine's state.                                    *)
(*                                                                         *)
(* w stands for the world around the engine: w.known the votes that exist, *)
(* w.log the vote log, w.saves the own votes on their way to it, w.settled *)
(* the own precommits <<round, value>> that are in the journal, that the   *)
(* output actor is writing there or that a restart of the height has       *)
(* dropped; w.ordinary that writes succeed and that the node has not left  *)
(* the voting rules.                                                       *)

KnownTable == [VoteType -> SUBSET (Validator \X Round \X Ballot)]

\* A quorum of existing votes.
Cert(w, t, r, v) == \E Q \in Quorum : \A p \in Q : <<p, r, v>> \in w.known[t]

\* The same for prevotes, where the node's own may still be in memory.
Carried(e, w, r, v) ==
    \E Q \in Quorum : \A p \in Q :
        \/ <<p, r, v>> \in w.known["prevote"]
        \/ p = Me /\ Own(e, "prevote", r) = v

Backed(e, w, r, v) == Carried(e, w, r, v) \/ Cert(w, "precommit", r, v)

\* A certificate for v in a round strictly between lo and hi.
Freed(w, v, lo, hi) ==
    \E r \in Round : lo < r /\ r < hi /\ (Cert(w, "prevote", r, v) \/ Cert(w, "precommit", r, v))

\* What the node has voted or is about to vote.
Prevoted(e, w, r, v) ==
    \/ <<Me, r, v>> \in w.known["prevote"]
    \/ Own(e, "prevote", r) = v
    \/ r = e.round /\ e.pending_prevote = v

Precommitted(e, w, r, v) ==
    <<Me, r, v>> \in w.known["precommit"] \/ Own(e, "precommit", r) = v

\* The votes of others in the tables exist.
VotesExist(e, w) ==
    \A t \in VoteType, r \in Round, p \in Validator \ {Me} :
        e.votes[t][r][p] # None => <<p, r, e.votes[t][r][p]>> \in w.known[t]

\* A POLC, the lock and an own precommit have their votes.
PolcsBacked(e, w) ==
    \A r \in Round : e.polc_by_round[r] # None => Backed(e, w, r, e.polc_by_round[r])

LockBacked(e, w) ==
    e.locked_round >= 0 => Backed(e, w, e.locked_round, e.locked_value)

PrecommitsBacked(e, w) ==
    \A r \in Round, v \in Value : Own(e, "precommit", r) = v => Carried(e, w, r, v)

\* A finality has its precommits; own: the node's own may still be in memory.
FinalBacked(e, w) ==
    e.pending_finalized # None =>
        \E Q \in Quorum : \A p \in Q :
            \/ <<p, e.pending_finalized.round, e.pending_finalized.ballot>> \in w.known["precommit"]
            \/ p = Me /\ e.pending_finalized.own

Backs(e, w) ==
    /\ VotesExist(e, w)
    /\ PolcsBacked(e, w)
    /\ LockBacked(e, w)
    /\ PrecommitsBacked(e, w)
    /\ FinalBacked(e, w)

\* The rule of the lock: a prevote behind a precommit for another value was
\* freed by a certificate in between.
LocksKept(e, w) ==
    \A r0, r1 \in Round, v0, v1 \in Value :
        (r0 < r1 /\ v0 # v1 /\ Precommitted(e, w, r0, v0) /\ Prevoted(e, w, r1, v1))
            => Freed(w, v1, r0, r1)

\* While a prevote of the round is still to come the lock is below the round.
LockBelow(e) ==
    (e.pending_finalized = None /\ e.locked_round >= e.round) =>
        Own(e, "prevote", e.round) # None \/ e.step = "precommit"

\* The prevote step begins with the node's prevote.
Stepped(e) == e.step = "prevote" => Own(e, "prevote", e.round) # None

\* An own prevote that exists is the one in the tables.
KnownPrevotes(e, w) ==
    \A r \in Round, b \in Ballot :
        <<Me, r, b>> \in w.known["prevote"] => Own(e, "prevote", r) \in {None, b}

\* There is one finality, and with own its precommit is in the tables.
FinalHeld(e) ==
    /\ e.finalized <=> e.pending_finalized # None
    /\ (e.pending_finalized # None /\ e.pending_finalized.own) =>
          Own(e, "precommit", e.pending_finalized.round) = e.pending_finalized.ballot
    /\ \A i \in DOMAIN e.outputs :
          e.outputs[i].kind = "finalize" => e.outputs[i] = e.pending_finalized

IsPrecommit(o, r, v) == o.kind = "vote" /\ o.type = "precommit" /\ o.round = r /\ o.ballot = v

\* A precommit is queued before the finalize message that carries it.
InOrder(e) ==
    \A i, j \in DOMAIN e.outputs :
        (e.outputs[j].kind = "finalize" /\ e.outputs[j].own
          /\ IsPrecommit(e.outputs[i], e.outputs[j].round, e.outputs[j].ballot)) => i < j

\* A queued precommit has the proposal that the journal needs.
MessagesHeld(e) ==
    \A i \in DOMAIN e.outputs, r \in Round, v \in Value :
        IsPrecommit(e.outputs[i], r, v) => HasMessage(e, v, r)

\* An own precommit for a value is in the journal, on its way there, still
\* queued, or was dropped because another round has decided.
Settled(e, w) ==
    \A r \in Round, v \in Value :
        Own(e, "precommit", r) = v =>
            \/ <<r, v>> \in w.settled
            \/ \E i \in DOMAIN e.outputs : IsPrecommit(e.outputs[i], r, v)
            \/ /\ e.pending_finalized # None
               /\ <<r, v>> # <<e.pending_finalized.round, e.pending_finalized.ballot>>

Sound(e, w) ==
    /\ LocksKept(e, w)
    /\ LockBelow(e)
    /\ Stepped(e)
    /\ KnownPrevotes(e, w)
    /\ FinalHeld(e)
    /\ InOrder(e)
    /\ MessagesHeld(e)
    /\ Settled(e, w)

Stands(e, w) ==
    /\ Fits(e, w.log, w.saves)
    /\ Backs(e, w)
    /\ w.ordinary => Sound(e, w)

\* Own votes that exist are in the log or on their way there; the prevote
\* behind a journalled precommit may be missing in the log.
Recorded(w) ==
    \A r \in Round, b \in Ballot :
        /\ <<Me, r, b>> \in w.known["prevote"] =>
              \/ w.log["prevote"][r] = b
              \/ /\ w.log["prevote"][r] = None
                 /\ \/ w.log["precommit"][r] # None
                    \/ \E c \in Ballot : <<"precommit", r, c>> \in w.saves
        /\ <<Me, r, b>> \in w.known["precommit"] =>
              \/ w.log["precommit"][r] = b
              \/ w.log["precommit"][r] = None /\ <<"precommit", r, b>> \in w.saves
        /\ (b \in Value /\ w.log["precommit"][r] = b) => <<r, b>> \in w.settled

World(w) ==
    /\ w.log \in LogTable
    /\ w.known \in KnownTable
    /\ \A t \in VoteType, r \in Round :
          w.log[t][r] # None => <<Me, r, w.log[t][r]>> \in w.known[t]
    /\ \A r \in Round, v \in Value :
          w.log["precommit"][r] = v => Cert(w, "prevote", r, v)
    /\ w.ordinary => Recorded(w)

-----------------------------------------------------------------------------
(* Changes that the votes do not see *)

\* f is e but for proposals, timers and round reports; POLCs are the same.
Calm(e, f) ==
    /\ Aside(e, f)
    /\ f.polc_by_round = e.polc_by_round
    /\ f.pending_prevote = e.pending_prevote

\* Leaving the engine alone is calm.
LEMMA CalmSelf == ASSUME NEW e \in EngineState PROVE Calm(e, e)
BY AsideSelf DEF Calm

\* Two calm changes make one.
LEMMA CalmTrans ==
    ASSUME NEW e, NEW f, NEW g, Calm(e, f), Calm(f, g)
    PROVE  Calm(e, g)
BY AsideTrans DEF Calm

\* Backs looks only at the votes, the POLCs, the lock and the finality.
LEMMA BacksSame ==
    ASSUME NEW e, NEW f, NEW w, Backs(e, w),
           f.votes = e.votes, f.polc_by_round = e.polc_by_round,
           f.locked_round = e.locked_round, f.locked_value = e.locked_value,
           f.pending_finalized = e.pending_finalized
    PROVE  Backs(f, w)
<1>1. \A t, r : Own(f, t, r) = Own(e, t, r)
  BY DEF Own
<1>2. \A r, v : Carried(e, w, r, v) => Carried(f, w, r, v)
  BY <1>1 DEF Carried
<1>3. \A r, v : Backed(e, w, r, v) => Backed(f, w, r, v)
  BY <1>2 DEF Backed
<1>4. VotesExist(f, w)
  BY DEF Backs, VotesExist
<1>5. PolcsBacked(f, w)
  BY <1>3 DEF Backs, PolcsBacked
<1>6. LockBacked(f, w)
  BY <1>3 DEF Backs, LockBacked
<1>7. PrecommitsBacked(f, w)
  BY <1>1, <1>2 DEF Backs, PrecommitsBacked
<1>8. FinalBacked(f, w)
  BY DEF Backs, FinalBacked
<1> QED BY <1>4, <1>5, <1>6, <1>7, <1>8 DEF Backs

\* Sound looks at the own votes, the lock's round, the finality, the outputs and
\* at where the engine stands; messages may be added.
LEMMA SoundSame ==
    ASSUME NEW e, NEW f, NEW w, Sound(e, w),
           f.votes = e.votes, f.round = e.round, f.step = e.step,
           f.locked_round = e.locked_round, f.outputs = e.outputs,
           f.pending_prevote = e.pending_prevote,
           f.pending_finalized = e.pending_finalized, f.finalized = e.finalized,
           \A v \in Value, r \in Round : HasMessage(e, v, r) => HasMessage(f, v, r)
    PROVE  Sound(f, w)
<1>1. \A t, r : Own(f, t, r) = Own(e, t, r)
  BY DEF Own
<1>2. \A r, v : /\ Prevoted(f, w, r, v) <=> Prevoted(e, w, r, v)
                /\ Precommitted(f, w, r, v) <=> Precommitted(e, w, r, v)
  BY <1>1 DEF Prevoted, Precommitted
<1>3. LocksKept(f, w)
  BY <1>2 DEF Sound, LocksKept
<1>4. LockBelow(f) /\ Stepped(f) /\ KnownPrevotes(f, w)
  BY <1>1 DEF Sound, LockBelow, Stepped, KnownPrevotes
<1>5. FinalHeld(f) /\ InOrder(f)
  BY <1>1 DEF Sound, FinalHeld, InOrder
<1>6. MessagesHeld(f)
  BY DEF Sound, MessagesHeld
<1>7. Settled(f, w)
  BY <1>1 DEF Sound, Settled
<1> QED BY <1>3, <1>4, <1>5, <1>6, <1>7 DEF Sound

\* A calm change keeps everything.
LEMMA CalmStands ==
    ASSUME NEW e, NEW f, NEW w, Stands(e, w), Calm(e, f)
    PROVE  Stands(f, w)
<1>1. Fits(f, w.log, w.saves)
  BY AsideFits DEF Stands, Calm
<1>2. /\ f.votes = e.votes /\ f.polc_by_round = e.polc_by_round
      /\ f.locked_round = e.locked_round /\ f.locked_value = e.locked_value
      /\ f.pending_finalized = e.pending_finalized /\ f.finalized = e.finalized
      /\ f.round = e.round /\ f.step = e.step /\ f.outputs = e.outputs
      /\ f.pending_prevote = e.pending_prevote
      /\ \A v \in Value, r \in Round : HasMessage(e, v, r) => HasMessage(f, v, r)
  BY DEF Calm, Aside, Around
<1>3. Backs(f, w)
  BY <1>2, BacksSame DEF Stands
<1>4. w.ordinary => Sound(f, w)
  BY <1>2, SoundSame DEF Stands
<1> QED BY <1>1, <1>3, <1>4 DEF Stands

\* promote_known_header.
LEMMA PromoteKnownHeaderCalm ==
    ASSUME NEW e \in EngineState, NEW r \in Round, NEW v \in Value
    PROVE  Calm(e, PromoteKnownHeader(e, r, v))
<1>1. Aside(e, PromoteKnownHeader(e, r, v))
  BY PromoteKnownHeaderAside
<1> QED BY <1>1 DEF Calm, PromoteKnownHeader, EngineState

\* promote_cached_polc.
LEMMA PromoteCachedPolcCalm ==
    ASSUME NEW e \in EngineState, NEW v \in Value
    PROVE  Calm(e, PromoteCachedPolc(e, v))
<1> DEFINE rounds == {r \in Round : e.polc_by_round[r] = v}
<1>1. rounds # {} => Max(rounds) \in Round
  <2>1. rounds \in SUBSET Round
    OBVIOUS
  <2> HIDE DEF rounds
  <2> QED BY <2>1, MaxRoundOf
<1>2. PromoteCachedPolc(e, v) =
        IF rounds = {} THEN e ELSE PromoteKnownHeader(e, Max(rounds), v)
  BY DEF PromoteCachedPolc
<1> HIDE DEF rounds
<1> QED BY <1>1, <1>2, CalmSelf, PromoteKnownHeaderCalm

\* cache_proposal_message.
LEMMA CacheProposalMessageCalm ==
    ASSUME NEW e \in EngineState, NEW v \in Value, NEW r \in Round,
           NEW vr \in Round \cup {NoRound}
    PROVE  LET f == CacheProposalMessage(e, v, r, vr)
           IN  Calm(e, f) /\ f.proposal_messages[v][r] = vr
<1> DEFINE f == [e EXCEPT !.proposal_cache[v] = "bundle", !.proposal_messages[v][r] = vr]
<1>1. Aside(e, CacheProposalMessage(e, v, r, vr))
  BY CacheProposalMessageAside
<1>2. CacheProposalMessage(e, v, r, vr) = PromoteCachedPolc(f, v)
  BY DEF CacheProposalMessage
<1>3. f.polc_by_round = e.polc_by_round /\ f.pending_prevote = e.pending_prevote
  BY DEF EngineState
<1>4. f \in EngineState
  BY DEF EngineState
<1>5. f.proposal_messages[v][r] = vr
  BY DEF EngineState
<1> HIDE DEF f
<1>6. Calm(f, PromoteCachedPolc(f, v))
  BY <1>4, PromoteCachedPolcCalm
<1>7. PromoteCachedPolc(f, v).proposal_messages = f.proposal_messages
  BY <1>4 DEF PromoteCachedPolc, PromoteKnownHeader, EngineState
<1> QED BY <1>1, <1>2, <1>3, <1>5, <1>6, <1>7 DEF Calm

\* cache_proposal_header_only.
LEMMA CacheHeaderCalm ==
    ASSUME NEW e \in EngineState, NEW v \in Value
    PROVE  Calm(e, CacheProposalHeaderOnly(e, v))
<1>1. Aside(e, CacheProposalHeaderOnly(e, v))
  BY CacheHeaderAside
<1> QED BY <1>1 DEF Calm, CacheProposalHeaderOnly, EngineState

\* schedule_step_timeout.
LEMMA ScheduleCalm ==
    ASSUME NEW e \in EngineState, NEW step \in Step
    PROVE  Calm(e, Schedule(e, step))
<1>1. Aside(e, Schedule(e, step))
  BY ScheduleAside
<1> QED BY <1>1 DEF Calm, Schedule, EngineState

\* record_higher_round.
LEMMA RecordHigherRoundCalm ==
    ASSUME NEW e \in EngineState, NEW r \in Round, NEW p \in Validator, NEW ahead
    PROVE  Calm(e, RecordHigherRound(e, r, p, ahead))
<1>1. Aside(e, RecordHigherRound(e, r, p, ahead))
  BY RecordHigherRoundAside
<1> QED BY <1>1 DEF Calm, RecordHigherRound, EngineState

-----------------------------------------------------------------------------
(* Votes and POLCs *)

\* A quorum of the tables is one of existing votes, the own prevote aside.
LEMMA TablesCarry ==
    ASSUME NEW e, NEW w, VotesExist(e, w), NEW r \in Round, NEW b \in Ballot,
           QuorumOf(e, "prevote", r, b)
    PROVE  Carried(e, w, r, b)
<1> DEFINE Q == VotersFor(e, "prevote", r, b)
<1>1. Q \in Quorum /\ \A p \in Q : p \in Validator /\ e.votes["prevote"][r][p] = b
  BY DEF QuorumOf, VotersFor
<1>2. ASSUME NEW p \in Q
      PROVE  <<p, r, b>> \in w.known["prevote"] \/ (p = Me /\ Own(e, "prevote", r) = b)
  <2>1. CASE p = Me
    BY <1>1, <2>1 DEF Own
  <2>2. CASE p # Me
    BY <1>1, <2>2, NoneIsNoBallot DEF VotesExist, VoteType
  <2> QED BY <2>1, <2>2
<1> HIDE DEF Q
<1> QED BY <1>1, <1>2 DEF Carried

\* record_polc behind the votes of the round.
LEMMA RecordPolcStands ==
    ASSUME NEW e, NEW w, Stands(e, w), NEW r \in Round, NEW b \in Ballot,
           b # Nil => Backed(e, w, r, b)
    PROVE  LET f == RecordPolc(e, r, b)
           IN  /\ Stands(f, w)
               /\ Aside(e, f)
               /\ f.pending_prevote = e.pending_prevote
               /\ f.proposal_messages = e.proposal_messages
<1> DEFINE f == RecordPolc(e, r, b)
<1>1. e \in EngineState
  BY DEF Stands, Fits
<1>2. CASE b = Nil
  BY <1>1, <1>2, AsideSelf DEF RecordPolc
<1>3. CASE b # Nil
  <2> DEFINE g == [e EXCEPT !.polc_by_round[r] = b]
  <2>1. b \in Value
    BY <1>3 DEF Ballot
  <2>2. g \in EngineState
    BY <1>1, <2>1 DEF EngineState
  <2>3. f = PromoteKnownHeader(g, r, b)
    BY <1>3 DEF RecordPolc
  <2>4. /\ g.votes = e.votes /\ g.locked_round = e.locked_round
        /\ g.locked_value = e.locked_value /\ g.pending_finalized = e.pending_finalized
        /\ g.pending_prevote = e.pending_prevote
        /\ g.proposal_messages = e.proposal_messages
    BY <1>1 DEF EngineState
  <2>5. \A s \in Round : g.polc_by_round[s] = IF s = r THEN b ELSE e.polc_by_round[s]
    BY <1>1 DEF EngineState
  <2> HIDE DEF g
  <2>6. Calm(g, f)
    BY <2>1, <2>2, <2>3, PromoteKnownHeaderCalm
  <2>7. f.proposal_messages = g.proposal_messages
    BY <2>2, <2>3 DEF PromoteKnownHeader, EngineState
  <2>8. Aside(e, f)
    BY <1>1, RecordPolcAside
  <2> HIDE DEF f
  <2>9. /\ f.votes = e.votes /\ f.locked_round = e.locked_round
        /\ f.locked_value = e.locked_value /\ f.pending_finalized = e.pending_finalized
        /\ f.round = e.round /\ f.step = e.step /\ f.outputs = e.outputs
        /\ f.finalized = e.finalized
        /\ f.pending_prevote = e.pending_prevote
        /\ f.polc_by_round = g.polc_by_round
        /\ \A v \in Value, s \in Round : HasMessage(e, v, s) => HasMessage(f, v, s)
    BY <2>4, <2>6, <2>8 DEF Calm, Aside, Around
  <2>10. Fits(f, w.log, w.saves)
    BY <2>8, AsideFits DEF Stands
  <2>11. \A s, v : Backed(e, w, s, v) => Backed(f, w, s, v)
    BY <2>9 DEF Backed, Carried, Own
  <2>12. PolcsBacked(f, w)
    BY <1>3, <2>5, <2>9, <2>11 DEF Stands, Backs, PolcsBacked
  <2>13. LockBacked(f, w)
    BY <2>9, <2>11 DEF Stands, Backs, LockBacked
  <2>14. VotesExist(f, w) /\ FinalBacked(f, w) /\ PrecommitsBacked(f, w)
    BY <2>9 DEF Stands, Backs, VotesExist, FinalBacked, PrecommitsBacked, Own, Carried
  <2>15. w.ordinary => Sound(f, w)
    BY <2>9, SoundSame DEF Stands
  <2>16. Stands(f, w)
    BY <2>10, <2>12, <2>13, <2>14, <2>15 DEF Stands, Backs
  <2> QED BY <2>4, <2>7, <2>8, <2>9, <2>16 DEF f
<1> QED BY <1>2, <1>3

\* add_vote: a vote of another that exists, or an own one that the log holds.
LEMMA AddVoteStands ==
    ASSUME NEW e, NEW w, Stands(e, w), World(w),
           NEW t \in VoteType, NEW r \in Round, NEW p \in Validator, NEW b \in Ballot,
           p # Me => <<p, r, b>> \in w.known[t],
           p = Me => w.log[t][r] = b
    PROVE  LET f == AddVote(e, t, r, p, b)
           IN  /\ Stands(f, w)
               /\ Around(e, f)
               /\ f.proposal_messages = e.proposal_messages
               /\ f.proposal_cache = e.proposal_cache
               /\ f.pending_prevote = e.pending_prevote
               /\ f.outputs = e.outputs
<1> DEFINE f == AddVote(e, t, r, p, b)
<1>1. e \in EngineState /\ w.log \in LogTable
  BY DEF Stands, Fits, World
<1>2. /\ Fits(f, w.log, w.saves) /\ Around(e, f)
      /\ f.proposal_messages = e.proposal_messages
      /\ f.proposal_cache = e.proposal_cache
  BY <1>1, AddVoteFits DEF Stands
<1>3. /\ f.outputs = e.outputs
      /\ \A u \in VoteType, s \in Round, q \in Validator :
            f.votes[u][s][q] =
               IF u = t /\ s = r /\ q = p /\ e.votes[t][r][p] = None THEN b
               ELSE e.votes[u][s][q]
  BY <1>1, AddVoteEffect
<1>4. f.polc_by_round = e.polc_by_round /\ f.pending_prevote = e.pending_prevote
  BY <1>1 DEF AddVote, EngineState
<1> HIDE DEF f
<1>5. /\ f.locked_round = e.locked_round /\ f.locked_value = e.locked_value
      /\ f.pending_finalized = e.pending_finalized
      /\ f.round = e.round /\ f.step = e.step /\ f.finalized = e.finalized
  BY <1>2 DEF Around
<1>6. Me \in Validator
  BY EngineAssumption
<1>7. \A u \in VoteType, s \in Round :
         \/ Own(f, u, s) = Own(e, u, s)
         \/ /\ p = Me /\ u = t /\ s = r
            /\ Own(e, u, s) = None /\ Own(f, u, s) = b
  BY <1>3, <1>6 DEF Own
<1>8. b # None /\ \A v \in Value : v # None
  BY NoneIsNoBallot
<1>9. \A u \in VoteType, s \in Round : Own(e, u, s) # None => Own(f, u, s) = Own(e, u, s)
  BY <1>7
<1>10. \A s \in Round, v \in Value : Carried(e, w, s, v) => Carried(f, w, s, v)
  BY <1>8, <1>9 DEF Carried, VoteType
<1>11. \A s \in Round, v \in Value : Backed(e, w, s, v) => Backed(f, w, s, v)
  BY <1>10 DEF Backed
<1>12. VotesExist(f, w)
  BY <1>3 DEF Stands, Backs, VotesExist
<1>13. PolcsBacked(f, w)
  BY <1>1, <1>4, <1>11 DEF Stands, Backs, PolcsBacked, EngineState
<1>14. LockBacked(f, w)
  <2> SUFFICES ASSUME e.locked_round >= 0
               PROVE  Backed(f, w, e.locked_round, e.locked_value)
    BY <1>5 DEF LockBacked
  <2>1. e.locked_round \in Round /\ e.locked_value \in Value
    BY <1>1 DEF Stands, Fits, LockKnown, EngineState, NoRound
  <2> QED BY <1>11, <2>1 DEF Stands, Backs, LockBacked
<1>15. PrecommitsBacked(f, w)
  <2> SUFFICES ASSUME NEW s \in Round, NEW v \in Value, Own(f, "precommit", s) = v
               PROVE  Carried(f, w, s, v)
    BY DEF PrecommitsBacked
  <2>1. CASE Own(e, "precommit", s) = v
    BY <1>10, <2>1 DEF Stands, Backs, PrecommitsBacked
  <2>2. CASE Own(e, "precommit", s) # v
    <3>1. p = Me /\ t = "precommit" /\ s = r /\ v = b
      BY <1>7, <2>2 DEF VoteType
    <3>2. Cert(w, "prevote", s, v)
      BY <3>1 DEF World
    <3> QED BY <3>2 DEF Cert, Carried
  <2> QED BY <2>1, <2>2
<1>16. FinalBacked(f, w)
  BY <1>5 DEF Stands, Backs, FinalBacked
<1>17. Backs(f, w)
  BY <1>12, <1>13, <1>14, <1>15, <1>16 DEF Backs
<1>18. ASSUME w.ordinary PROVE Sound(f, w)
  <2>1. Sound(e, w) /\ Recorded(w)
    BY <1>18 DEF Stands, World
  <2>2. p = Me => <<Me, r, b>> \in w.known[t]
    BY <1>8 DEF World
  <2>3. \A s \in Round, v \in Value :
           /\ Prevoted(f, w, s, v) => Prevoted(e, w, s, v)
           /\ Precommitted(f, w, s, v) => Precommitted(e, w, s, v)
    BY <1>4, <1>5, <1>7, <2>2 DEF Prevoted, Precommitted, VoteType
  <2>4. LocksKept(f, w)
    BY <2>1, <2>3 DEF Sound, LocksKept
  <2>5. LockBelow(f) /\ Stepped(f)
    BY <1>1, <1>5, <1>9, <2>1, EngineTypes DEF Sound, LockBelow, Stepped, VoteType
  <2>6. KnownPrevotes(f, w)
    <3> SUFFICES ASSUME NEW s \in Round, NEW c \in Ballot, <<Me, s, c>> \in w.known["prevote"]
                 PROVE  Own(f, "prevote", s) \in {None, c}
      BY DEF KnownPrevotes
    <3>1. CASE Own(f, "prevote", s) = Own(e, "prevote", s)
      BY <2>1, <3>1 DEF Sound, KnownPrevotes
    <3>2. CASE Own(f, "prevote", s) # Own(e, "prevote", s)
      <4>1. p = Me /\ t = "prevote" /\ s = r /\ Own(f, "prevote", s) = b
        BY <1>7, <3>2 DEF VoteType
      <4>2. w.log["prevote"][s] = b
        BY <4>1
      <4> QED BY <1>8, <2>1, <4>1, <4>2 DEF Recorded
    <3> QED BY <3>1, <3>2
  <2>7. FinalHeld(f)
    <3>1. (f.pending_finalized # None /\ f.pending_finalized.own) =>
             Own(f, "precommit", f.pending_finalized.round) = f.pending_finalized.ballot
      <4> SUFFICES ASSUME e.pending_finalized # None, e.pending_finalized.own
                   PROVE  Own(f, "precommit", e.pending_finalized.round)
                             = e.pending_finalized.ballot
        BY <1>5
      <4>1. e.pending_finalized \in FinalizeMessage
        BY <1>1 DEF EngineState
      <4>2. e.pending_finalized.round \in Round /\ e.pending_finalized.ballot \in Value
        BY <4>1 DEF FinalizeMessage
      <4>3. Own(e, "precommit", e.pending_finalized.round) = e.pending_finalized.ballot
        BY <2>1 DEF Sound, FinalHeld
      <4> QED BY <1>8, <1>9, <4>2, <4>3 DEF VoteType
    <3> QED BY <1>3, <1>5, <2>1, <3>1 DEF Sound, FinalHeld
  <2>8. InOrder(f) /\ MessagesHeld(f)
    BY <1>2, <1>3, <2>1 DEF Sound, InOrder, MessagesHeld, HasMessage
  <2>9. Settled(f, w)
    <3> SUFFICES ASSUME NEW s \in Round, NEW v \in Value, Own(f, "precommit", s) = v
                 PROVE  \/ <<s, v>> \in w.settled
                        \/ \E i \in DOMAIN f.outputs : IsPrecommit(f.outputs[i], s, v)
                        \/ /\ f.pending_finalized # None
                           /\ <<s, v>> # <<f.pending_finalized.round, f.pending_finalized.ballot>>
      BY DEF Settled
    <3>1. CASE Own(e, "precommit", s) = v
      BY <1>3, <1>5, <2>1, <3>1 DEF Sound, Settled
    <3>2. CASE Own(e, "precommit", s) # v
      <4>1. p = Me /\ t = "precommit" /\ s = r /\ v = b
        BY <1>7, <3>2 DEF VoteType
      <4> QED BY <2>1, <4>1 DEF Recorded
    <3> QED BY <3>1, <3>2
  <2> QED BY <2>4, <2>5, <2>6, <2>7, <2>8, <2>9 DEF Sound
<1>19. Stands(f, w)
  BY <1>2, <1>17, <1>18 DEF Stands
<1> QED BY <1>2, <1>3, <1>4, <1>19 DEF f

-----------------------------------------------------------------------------
(* Prevotes *)

\* A backed round behind a precommit for another value frees the value: its
\* own prevote, where that is needed, was freed already.
LEMMA BackedFrees ==
    ASSUME NEW e, NEW w, LocksKept(e, w), NEW r \in Round, NEW v \in Value,
           Backed(e, w, r, v), NEW r0 \in Round, NEW v0 \in Value, NEW hi \in Round,
           r0 < r, r < hi, v0 # v, Precommitted(e, w, r0, v0)
    PROVE  Freed(w, v, r0, hi)
<1>1. CASE Own(e, "prevote", r) = v
  <2>1. Freed(w, v, r0, r)
    BY <1>1 DEF LocksKept, Prevoted
  <2>2. PICK s \in Round : /\ r0 < s /\ s < r
                           /\ Cert(w, "prevote", s, v) \/ Cert(w, "precommit", s, v)
    BY <2>1 DEF Freed
  <2>3. s < hi
    BY <2>2, EngineAssumption DEF Round
  <2> QED BY <2>2, <2>3 DEF Freed
<1>2. CASE Own(e, "prevote", r) # v
  <2>1. Cert(w, "prevote", r, v) \/ Cert(w, "precommit", r, v)
    BY <1>2 DEF Backed, Carried, Cert
  <2> QED BY <2>1 DEF Freed
<1> QED BY <1>1, <1>2

\* What the node has precommitted is in the tables or in the log.
LEMMA PrecommittedHeld ==
    ASSUME NEW e, NEW w, Fits(e, w.log, w.saves), Recorded(w),
           NEW r \in Round, NEW v \in Value, Precommitted(e, w, r, v)
    PROVE  /\ Own(e, "precommit", r) = v \/ w.log["precommit"][r] = v
           /\ \/ e.locked_round > r
              \/ e.locked_round = r /\ e.locked_value = v
<1>1. v \in Ballot
  BY DEF Ballot
<1>2. Own(e, "precommit", r) = v \/ w.log["precommit"][r] = v
  <2>1. CASE <<"precommit", r, v>> \in w.saves
    <3> DEFINE x == <<"precommit", r, v>>
    <3>1. x \in w.saves /\ x[1] = "precommit" /\ x[2] = r /\ x[3] = v
      BY <2>1
    <3> HIDE DEF x
    <3> QED BY <3>1 DEF Fits, SavesHeld
  <2>2. CASE <<"precommit", r, v>> \notin w.saves
    BY <1>1, <2>2 DEF Precommitted, Recorded
  <2> QED BY <2>1, <2>2
<1> QED BY <1>2 DEF Fits, LockCovers

\* The lock lets v through: no precommit stands against a prevote for it.
LEMMA LockAllowsFrees ==
    ASSUME NEW e, NEW w, Stands(e, w), Sound(e, w), Recorded(w),
           e.pending_finalized = None, e.step # "precommit",
           Own(e, "prevote", e.round) = None,
           NEW v \in Value, NEW vr \in Round \cup {NoRound}, LockAllows(e, v, vr),
           NEW r0 \in Round, NEW v0 \in Value,
           r0 < e.round, v0 # v, Precommitted(e, w, r0, v0)
    PROVE  Freed(w, v, r0, e.round)
<1>1. e \in EngineState /\ e.round \in Round /\ e.round \in Nat
      /\ e.locked_round \in Round \cup {NoRound} /\ e.locked_round \in Int
  BY EngineTypes DEF Stands, Fits
<1>2. \/ e.locked_round > r0
      \/ e.locked_round = r0 /\ e.locked_value = v0
  BY PrecommittedHeld DEF Stands
<1>3. r0 \in Nat /\ vr \in Int
  BY EngineAssumption DEF Round, NoRound
<1>4. ~(e.locked_round < 0)
  BY <1>1, <1>2, <1>3
<1>5. e.locked_round \in Round /\ e.locked_round < e.round
  BY <1>1, <1>4 DEF Sound, LockBelow, NoRound
<1>6. CASE e.locked_value = v
  <2>1. e.locked_round > r0
    BY <1>2, <1>6
  <2>2. Backed(e, w, e.locked_round, v)
    BY <1>1, <1>4, <1>6 DEF Stands, Backs, LockBacked
  <2>3. r0 < e.locked_round
    BY <1>1, <1>3, <2>1
  <2> QED BY <1>1, <1>5, <2>2, <2>3, BackedFrees DEF Sound
<1>7. CASE e.locked_value # v
  <2>1. vr > e.locked_round /\ vr < e.round /\ e.polc_by_round[vr] = v
    BY <1>4, <1>7 DEF LockAllows
  <2>2. vr \in Round /\ r0 < vr
    BY <1>1, <1>2, <1>3, <1>5, <2>1 DEF Round, NoRound
  <2>3. Backed(e, w, vr, v)
    BY <2>1, <2>2, NoneIsNoBallot DEF Stands, Backs, PolcsBacked
  <2> QED BY <1>1, <2>1, <2>2, <2>3, BackedFrees DEF Sound
<1> QED BY <1>6, <1>7

\* What a prevote for b in the engine's round needs: no precommit against it.
MayPrevote(e, w, b) ==
    \A r0 \in Round, v0 \in Value :
        (b # Nil /\ r0 < e.round /\ v0 # b /\ Precommitted(e, w, r0, v0))
            => Freed(w, b, r0, e.round)

\* cast_local_vote of a prevote: the vote, if there is one, and nothing else.
LEMMA PrevoteEffect ==
    ASSUME NEW e \in EngineState, NEW b \in Ballot
    PROVE  LET g == SetStep(e, "prevote")
               f == CastLocalVote(g, "prevote", b)
               c == LocalPrevote(g, b)
           IN  /\ c \in Ballot /\ c \in {b, Nil}
               /\ c # Nil => \E vr \in Round \cup {NoRound} : LockAllows(e, c, vr)
               /\ f.round = e.round /\ f.step = "prevote"
               /\ f.locked_round = e.locked_round /\ f.locked_value = e.locked_value
               /\ f.finalized = e.finalized /\ f.pending_finalized = e.pending_finalized
               /\ f.polc_by_round = e.polc_by_round
               /\ f.pending_prevote = e.pending_prevote
               /\ f.proposal_messages = e.proposal_messages
               /\ f.proposal_cache = e.proposal_cache
               /\ \/ /\ Own(e, "prevote", e.round) # None
                     /\ f.votes = e.votes /\ f.outputs = e.outputs
                  \/ /\ Own(e, "prevote", e.round) = None
                     /\ \A u \in VoteType, s \in Round, q \in Validator :
                           f.votes[u][s][q] =
                              IF u = "prevote" /\ s = e.round /\ q = Me THEN c
                              ELSE e.votes[u][s][q]
                     /\ f.outputs = Append(e.outputs,
                           [kind |-> "vote", type |-> "prevote", round |-> e.round, ballot |-> c])
<1> DEFINE g == SetStep(e, "prevote")
           f == CastLocalVote(g, "prevote", b)
           c == LocalPrevote(g, b)
           a == (e.armed /\ e.step = "prevote")
           vote == [kind |-> "vote", type |-> "prevote", round |-> g.round, ballot |-> c]
           h == AddVote(g, "prevote", g.round, Me, c)
<1>1. g = [e EXCEPT !.step = "prevote", !.armed = a]
  BY DEF SetStep
<1>2. a \in BOOLEAN /\ "prevote" \in Step
  BY DEF EngineState, Step
<1> HIDE DEF a, g
<1>3. /\ g \in EngineState
      /\ g.round = e.round /\ g.step = "prevote"
      /\ g.votes = e.votes /\ g.outputs = e.outputs
      /\ g.locked_round = e.locked_round /\ g.locked_value = e.locked_value
      /\ g.finalized = e.finalized /\ g.pending_finalized = e.pending_finalized
      /\ g.polc_by_round = e.polc_by_round
      /\ g.pending_prevote = e.pending_prevote
      /\ g.proposal_messages = e.proposal_messages
      /\ g.proposal_cache = e.proposal_cache
  BY <1>1, <1>2 DEF EngineState
<1>4. g.round \in Round
  BY <1>3 DEF EngineState
<1>5. /\ c \in Ballot /\ c \in {b, Nil}
      /\ c # Nil => \E vr \in Round \cup {NoRound} : LockAllows(e, c, vr)
  <2> DEFINE m == g.proposal_messages[b][g.round]
             vr == IF m = NoMessage THEN NoRound ELSE m
  <2>1. Nil \in Ballot
    BY DEF Ballot
  <2>2. CASE b = Nil
    BY <2>1, <2>2 DEF LocalPrevote
  <2>3. CASE b # Nil
    <3>1. b \in Value
      BY <2>3 DEF Ballot
    <3>2. m \in Round \cup {NoRound, NoMessage}
      BY <1>3, <1>4, <3>1 DEF EngineState
    <3>3. vr \in Round \cup {NoRound}
      BY <3>2
    <3>4. c = IF LockAllows(g, b, vr) THEN b ELSE Nil
      BY <2>3 DEF LocalPrevote
    <3> HIDE DEF vr, c
    <3>5. LockAllows(g, b, vr) => LockAllows(e, b, vr)
      BY <1>3 DEF LockAllows
    <3> QED BY <2>1, <3>3, <3>4, <3>5
  <2> QED BY <2>2, <2>3
<1>6. LocalBallot(g, "prevote", b) = c
  BY DEF LocalBallot
<1> HIDE DEF c
<1>7. c # None
  BY <1>5, NoneIsNoBallot
<1>8. CastOutcome(g, "prevote", b) = "cast" <=> Own(e, "prevote", e.round) = None
  BY <1>3, <1>6, <1>7 DEF CastOutcome, Own
<1>9. CASE Own(e, "prevote", e.round) # None
  <2>1. f = g
    BY <1>8, <1>9 DEF CastLocalVote
  <2> HIDE DEF f
  <2> QED BY <1>3, <1>5, <1>9, <2>1 DEF f, g, c
<1>10. CASE Own(e, "prevote", e.round) = None
  <2>1. f = [h EXCEPT !.outputs = Append(@, vote)]
    BY <1>6, <1>8, <1>10 DEF CastLocalVote
  <2>2. Me \in Validator /\ "prevote" \in VoteType
    BY EngineAssumption DEF VoteType
  <2>3. /\ Around(g, h) /\ h.outputs = g.outputs
        /\ h.proposal_messages = g.proposal_messages
        /\ h.proposal_cache = g.proposal_cache
        /\ \A u \in VoteType, s \in Round, q \in Validator :
              h.votes[u][s][q] =
                 IF u = "prevote" /\ s = g.round /\ q = Me
                      /\ g.votes["prevote"][g.round][Me] = None THEN c
                 ELSE g.votes[u][s][q]
    <3>1. ASSUME NEW t \in VoteType, NEW r \in Round
          PROVE  LET k == AddVote(g, t, r, Me, c)
                 IN  /\ Around(g, k) /\ k.outputs = g.outputs
                     /\ k.proposal_messages = g.proposal_messages
                     /\ k.proposal_cache = g.proposal_cache
                     /\ \A u \in VoteType, s \in Round, q \in Validator :
                           k.votes[u][s][q] =
                              IF u = t /\ s = r /\ q = Me /\ g.votes[t][r][Me] = None THEN c
                              ELSE g.votes[u][s][q]
      BY <1>3, <1>5, <2>2, AddVoteEffect
    <3> QED BY <1>4, <2>2, <3>1
  <2>4. h.polc_by_round = g.polc_by_round /\ h.pending_prevote = g.pending_prevote
    BY <1>3 DEF AddVote, EngineState
  <2> HIDE DEF f, h, vote
  <2>5. h \in EngineState
    BY <2>3 DEF Around
  <2>6. /\ f.round = h.round /\ f.step = h.step
        /\ f.locked_round = h.locked_round /\ f.locked_value = h.locked_value
        /\ f.finalized = h.finalized /\ f.pending_finalized = h.pending_finalized
        /\ f.polc_by_round = h.polc_by_round
        /\ f.pending_prevote = h.pending_prevote
        /\ f.proposal_messages = h.proposal_messages
        /\ f.proposal_cache = h.proposal_cache
        /\ f.votes = h.votes
        /\ f.outputs = Append(h.outputs, vote)
    BY <2>1, <2>5 DEF EngineState
  <2>7. /\ h.round = g.round /\ h.step = g.step
        /\ h.locked_round = g.locked_round /\ h.locked_value = g.locked_value
        /\ h.finalized = g.finalized /\ h.pending_finalized = g.pending_finalized
    BY <2>3 DEF Around
  <2>8. \A u \in VoteType, s \in Round, q \in Validator :
           f.votes[u][s][q] =
              IF u = "prevote" /\ s = e.round /\ q = Me THEN c ELSE e.votes[u][s][q]
    BY <1>3, <1>10, <2>3, <2>6 DEF Own
  <2>9. f.outputs = Append(e.outputs,
          [kind |-> "vote", type |-> "prevote", round |-> e.round, ballot |-> c])
    BY <1>3, <2>3, <2>6 DEF vote
  <2>10. /\ f.round = e.round /\ f.step = "prevote"
         /\ f.locked_round = e.locked_round /\ f.locked_value = e.locked_value
         /\ f.finalized = e.finalized /\ f.pending_finalized = e.pending_finalized
         /\ f.polc_by_round = e.polc_by_round
         /\ f.pending_prevote = e.pending_prevote
         /\ f.proposal_messages = e.proposal_messages
         /\ f.proposal_cache = e.proposal_cache
    BY <1>3, <2>3, <2>4, <2>6, <2>7
  <2> QED BY <1>5, <1>10, <2>8, <2>9, <2>10 DEF f, g, c
<1> QED BY <1>9, <1>10

-----------------------------------------------------------------------------
\* An own vote joins the tables: what was backed stays backed.
LEMMA BacksGrow ==
    ASSUME NEW e \in EngineState, NEW f, NEW w, Backs(e, w), LockKnown(e),
           f.polc_by_round = e.polc_by_round,
           f.locked_round = e.locked_round, f.locked_value = e.locked_value,
           f.pending_finalized = e.pending_finalized,
           \A t \in VoteType, r \in Round, p \in Validator \ {Me} :
               f.votes[t][r][p] = e.votes[t][r][p],
           \A t \in VoteType, r \in Round :
               Own(e, t, r) # None => Own(f, t, r) = Own(e, t, r),
           \A r \in Round, v \in Value :
               Own(f, "precommit", r) = v =>
                   Own(e, "precommit", r) = v \/ Carried(e, w, r, v)
    PROVE  /\ Backs(f, w)
           /\ \A r \in Round, v \in Value : Carried(e, w, r, v) => Carried(f, w, r, v)
<1>1. \A r \in Round, v \in Value : Carried(e, w, r, v) => Carried(f, w, r, v)
  BY NoneIsNoBallot DEF Carried, VoteType
<1>2. \A r \in Round, v \in Value : Backed(e, w, r, v) => Backed(f, w, r, v)
  BY <1>1 DEF Backed
<1>3. VotesExist(f, w)
  BY DEF Backs, VotesExist
<1>4. PolcsBacked(f, w)
  BY <1>2 DEF Backs, PolcsBacked, EngineState
<1>5. LockBacked(f, w)
  <2> SUFFICES ASSUME e.locked_round >= 0
               PROVE  Backed(f, w, e.locked_round, e.locked_value)
    BY DEF LockBacked
  <2>1. e.locked_round \in Round /\ e.locked_value \in Value
    BY DEF LockKnown, EngineState, NoRound
  <2> QED BY <1>2, <2>1 DEF Backs, LockBacked
<1>6. PrecommitsBacked(f, w)
  BY <1>1 DEF Backs, PrecommitsBacked
<1>7. FinalBacked(f, w)
  BY DEF Backs, FinalBacked
<1> QED BY <1>1, <1>3, <1>4, <1>5, <1>6, <1>7 DEF Backs

\* Append keeps the places of a queue.
LEMMA AppendPlaces ==
    ASSUME NEW S, NEW q \in Seq(S), NEW x \in S
    PROVE  LET a == Append(q, x)
           IN  /\ DOMAIN a = 1 .. Len(q) + 1 /\ DOMAIN q = 1 .. Len(q) /\ Len(q) \in Nat
               /\ \A i \in DOMAIN q : i \in DOMAIN a /\ a[i] = q[i]
               /\ a[Len(q) + 1] = x
               /\ \A i \in DOMAIN a : i \in DOMAIN q \/ i = Len(q) + 1
OBVIOUS

\* In a round without an own prevote, in which the node may still prevote, no
\* own prevote exists.
LEMMA NoKnownPrevote ==
    ASSUME NEW e, NEW w, Fits(e, w.log, w.saves), Recorded(w), e.step # "precommit",
           Own(e, "prevote", e.round) = None, NEW b \in Ballot
    PROVE  <<Me, e.round, b>> \notin w.known["prevote"]
<1> SUFFICES ASSUME <<Me, e.round, b>> \in w.known["prevote"] PROVE FALSE
  OBVIOUS
<1>1. e.round \in Round
  BY DEF Fits, EngineState
<1>2. w.log["prevote"][e.round] = None
  BY <1>1 DEF Fits, NothingAhead, VoteType
<1>3. Own(e, "precommit", e.round) = None
  BY DEF Fits, StepFits
<1>4. w.log["precommit"][e.round] = None
  BY <1>1, <1>3 DEF Fits, NothingAhead, VoteType
<1>5. PICK c \in Ballot : <<"precommit", e.round, c>> \in w.saves
  BY <1>1, <1>2, <1>4, NoneIsNoBallot DEF Recorded
<1>6. Own(e, "precommit", e.round) = c
  <2> DEFINE x == <<"precommit", e.round, c>>
  <2>1. x \in w.saves /\ x[1] = "precommit" /\ x[2] = e.round /\ x[3] = c
    BY <1>5
  <2> HIDE DEF x
  <2> QED BY <2>1 DEF Fits, SavesHeld
<1> QED BY <1>3, <1>5, <1>6, NoneIsNoBallot

\* Casting a prevote keeps everything.
LEMMA PrevoteStands ==
    ASSUME NEW e, NEW w, Stands(e, w), World(w), e.step # "precommit", NEW b \in Ballot,
           w.ordinary => MayPrevote(e, w, b) \/ e.pending_finalized = None
    PROVE  LET f == CastLocalVote(SetStep(e, "prevote"), "prevote", b)
           IN  /\ Stands(f, w)
               /\ f.step = "prevote" /\ f.round = e.round
               /\ f.locked_round = e.locked_round /\ f.locked_value = e.locked_value
               /\ f.finalized = e.finalized /\ f.pending_finalized = e.pending_finalized
               /\ f.proposal_messages = e.proposal_messages
               /\ f.proposal_cache = e.proposal_cache
               /\ f.pending_prevote = e.pending_prevote
<1> DEFINE g == SetStep(e, "prevote")
           f == CastLocalVote(g, "prevote", b)
           c == LocalPrevote(g, b)
           vote == [kind |-> "vote", type |-> "prevote", round |-> e.round, ballot |-> c]
<1>1. e \in EngineState /\ w.log \in LogTable /\ Fits(e, w.log, w.saves)
      /\ Backs(e, w) /\ LockKnown(e)
  BY DEF Stands, Fits, World
<1>2. e.round \in Round /\ "prevote" \in VoteType /\ "prevote" \in Step /\ Me \in Validator
  BY <1>1, EngineAssumption DEF EngineState, VoteType, Step
<1>3. Fits(f, w.log, w.saves)
  <2>1. Fits(g, w.log, w.saves) /\ g.step = "prevote"
    BY <1>1, <1>2, SetStepFits
  <2> HIDE DEF g
  <2> QED BY <1>1, <1>2, <2>1, CastFits
<1>4. /\ c \in Ballot /\ c \in {b, Nil}
      /\ c # Nil => \E vr \in Round \cup {NoRound} : LockAllows(e, c, vr)
      /\ f.round = e.round /\ f.step = "prevote"
      /\ f.locked_round = e.locked_round /\ f.locked_value = e.locked_value
      /\ f.finalized = e.finalized /\ f.pending_finalized = e.pending_finalized
      /\ f.polc_by_round = e.polc_by_round
      /\ f.pending_prevote = e.pending_prevote
      /\ f.proposal_messages = e.proposal_messages
      /\ f.proposal_cache = e.proposal_cache
      /\ \/ /\ Own(e, "prevote", e.round) # None
            /\ f.votes = e.votes /\ f.outputs = e.outputs
         \/ /\ Own(e, "prevote", e.round) = None
            /\ \A u \in VoteType, s \in Round, q \in Validator :
                  f.votes[u][s][q] =
                     IF u = "prevote" /\ s = e.round /\ q = Me THEN c
                     ELSE e.votes[u][s][q]
            /\ f.outputs = Append(e.outputs, vote)
  BY <1>1, PrevoteEffect
<1>5. c # None
  BY <1>4, NoneIsNoBallot
<1> HIDE DEF g, f, c
<1>6. \A t \in VoteType, s \in Round :
         \/ Own(f, t, s) = Own(e, t, s)
         \/ /\ t = "prevote" /\ s = e.round
            /\ Own(e, t, s) = None /\ Own(f, t, s) = c
  BY <1>2, <1>4 DEF Own
<1>7. \A t \in VoteType, s \in Round, p \in Validator \ {Me} :
         f.votes[t][s][p] = e.votes[t][s][p]
  BY <1>4
<1>8. Own(f, "prevote", e.round) # None
  BY <1>2, <1>4, <1>5 DEF Own
<1>9. Backs(f, w)
  <2>1. \A s \in Round, v \in Value :
           Own(f, "precommit", s) = v => Own(e, "precommit", s) = v
    BY <1>6 DEF VoteType
  <2>2. \A t \in VoteType, s \in Round :
           Own(e, t, s) # None => Own(f, t, s) = Own(e, t, s)
    BY <1>6
  <2> QED BY <1>1, <1>4, <1>7, <2>1, <2>2, BacksGrow
<1>10. ASSUME w.ordinary PROVE Sound(f, w)
  <2>1. Sound(e, w) /\ Recorded(w)
    BY <1>10 DEF Stands, World
  <2>2. \A s \in Round, v \in Value : Precommitted(f, w, s, v) => Precommitted(e, w, s, v)
    BY <1>6 DEF Precommitted, VoteType
  <2>3. /\ e.outputs \in Seq(Output) /\ DOMAIN e.outputs = 1 .. Len(e.outputs)
        /\ \A i \in DOMAIN e.outputs : i \in DOMAIN f.outputs /\ f.outputs[i] = e.outputs[i]
        /\ \A i \in DOMAIN f.outputs : i \in DOMAIN e.outputs \/ f.outputs[i] = vote
    <3>1. e.outputs \in Seq(Output)
      BY <1>1 DEF EngineState
    <3>2. vote \in Output
      BY <1>2, <1>4 DEF Output, LocalVote
    <3> HIDE DEF vote
    <3> QED BY <1>4, <3>1, <3>2, AppendPlaces
  <2>4. LocksKept(f, w)
    <3> SUFFICES ASSUME NEW r0 \in Round, NEW r1 \in Round, NEW v0 \in Value, NEW v1 \in Value,
                        r0 < r1, v0 # v1, Precommitted(f, w, r0, v0), Prevoted(f, w, r1, v1)
                 PROVE  Freed(w, v1, r0, r1)
      BY DEF LocksKept
    <3>1. Precommitted(e, w, r0, v0)
      BY <2>2
    <3>2. CASE Prevoted(e, w, r1, v1)
      BY <2>1, <3>1, <3>2 DEF Sound, LocksKept
    <3>3. CASE ~Prevoted(e, w, r1, v1)
      <4>1. Own(f, "prevote", r1) = v1 /\ Own(e, "prevote", r1) # v1
        BY <1>4, <3>3 DEF Prevoted
      <4>2. r1 = e.round /\ v1 = c /\ Own(e, "prevote", e.round) = None
        BY <1>6, <4>1 DEF VoteType
      <4>3. v1 # Nil /\ v1 = b
        BY <1>4, <4>2, NoneIsNoBallot
      <4>4. CASE MayPrevote(e, w, b)
        BY <3>1, <4>2, <4>3, <4>4 DEF MayPrevote
      <4>5. CASE e.pending_finalized = None
        <5>1. PICK vr \in Round \cup {NoRound} : LockAllows(e, v1, vr)
          BY <1>4, <4>2, <4>3
        <5>2. Freed(w, v1, r0, e.round)
          BY <2>1, <3>1, <4>2, <4>5, <5>1, LockAllowsFrees
        <5> QED BY <4>2, <5>2
      <4> QED BY <1>10, <4>4, <4>5
    <3> QED BY <3>2, <3>3
  <2>5. LockBelow(f) /\ Stepped(f)
    BY <1>4, <1>8 DEF LockBelow, Stepped
  <2>6. KnownPrevotes(f, w)
    <3> SUFFICES ASSUME NEW s \in Round, NEW d \in Ballot, <<Me, s, d>> \in w.known["prevote"]
                 PROVE  Own(f, "prevote", s) \in {None, d}
      BY DEF KnownPrevotes
    <3>1. CASE Own(f, "prevote", s) = Own(e, "prevote", s)
      BY <2>1, <3>1 DEF Sound, KnownPrevotes
    <3>2. CASE Own(f, "prevote", s) # Own(e, "prevote", s)
      <4>1. s = e.round /\ Own(e, "prevote", e.round) = None
        BY <1>6, <3>2 DEF VoteType
      <4> QED BY <1>1, <2>1, <4>1, NoKnownPrevote
    <3> QED BY <3>1, <3>2
  <2>7. \A s \in Round : Own(f, "precommit", s) = Own(e, "precommit", s)
    BY <1>6 DEF VoteType
  <2>8. FinalHeld(f)
    <3>1. e.pending_finalized # None => e.pending_finalized.round \in Round
      BY <1>1 DEF EngineState, FinalizeMessage
    <3> QED BY <1>4, <2>1, <2>3, <2>7, <3>1 DEF Sound, FinalHeld
  <2>9. InOrder(f)
    BY <2>1, <2>3 DEF Sound, InOrder, IsPrecommit
  <2>10. MessagesHeld(f)
    BY <1>4, <2>1, <2>3 DEF Sound, MessagesHeld, IsPrecommit, HasMessage
  <2>11. Settled(f, w)
    <3> SUFFICES ASSUME NEW s \in Round, NEW v \in Value, Own(e, "precommit", s) = v
                 PROVE  \/ <<s, v>> \in w.settled
                        \/ \E i \in DOMAIN f.outputs : IsPrecommit(f.outputs[i], s, v)
                        \/ /\ e.pending_finalized # None
                           /\ <<s, v>> # <<e.pending_finalized.round, e.pending_finalized.ballot>>
      BY <1>4, <2>7 DEF Settled
    <3>1. CASE \E i \in DOMAIN e.outputs : IsPrecommit(e.outputs[i], s, v)
      BY <2>3, <3>1
    <3>2. CASE ~\E i \in DOMAIN e.outputs : IsPrecommit(e.outputs[i], s, v)
      BY <2>1, <3>2 DEF Sound, Settled
    <3> QED BY <3>1, <3>2
  <2> QED BY <2>4, <2>5, <2>6, <2>8, <2>9, <2>10, <2>11 DEF Sound
<1>11. Stands(f, w)
  BY <1>3, <1>9, <1>10 DEF Stands
<1> QED BY <1>4, <1>11 DEF f, g

-----------------------------------------------------------------------------
(* Locks and precommits *)

\* No own prevote lies ahead of the engine.
LEMMA NoPrevoteAhead ==
    ASSUME NEW e, NEW w, Fits(e, w.log, w.saves), Recorded(w),
           NEW r \in Round, r > e.round, NEW v \in Value
    PROVE  ~Prevoted(e, w, r, v)
<1>1. e.round \in Nat /\ r \in Nat /\ v \in Ballot
  BY EngineTypes, EngineAssumption DEF Fits, Round, Ballot
<1>2. \A t \in VoteType : Own(e, t, r) = None /\ w.log[t][r] = None
  BY DEF Fits, NothingAhead
<1>3. \A c \in Ballot : <<"precommit", r, c>> \notin w.saves
  <2> SUFFICES ASSUME NEW c \in Ballot, <<"precommit", r, c>> \in w.saves PROVE FALSE
    OBVIOUS
  <2> DEFINE x == <<"precommit", r, c>>
  <2>1. x \in w.saves /\ x[1] = "precommit" /\ x[2] = r /\ x[3] = c
    OBVIOUS
  <2> HIDE DEF x
  <2>2. Own(e, "precommit", r) = c
    BY <2>1 DEF Fits, SavesHeld
  <2> QED BY <1>2, <2>2, NoneIsNoBallot DEF VoteType
<1>4. <<Me, r, v>> \notin w.known["prevote"]
  BY <1>1, <1>2, <1>3, NoneIsNoBallot DEF Recorded, VoteType
<1> QED BY <1>1, <1>2, <1>4, NoneIsNoBallot DEF Prevoted, VoteType

\* The step moves on to precommit.
LEMMA ToPrecommitStands ==
    ASSUME NEW e, NEW w, Stands(e, w)
    PROVE  LET f == SetStep(e, "precommit")
           IN  /\ Stands(f, w)
               /\ f.step = "precommit" /\ f.round = e.round /\ f.votes = e.votes
               /\ f.locked_round = e.locked_round /\ f.locked_value = e.locked_value
               /\ f.finalized = e.finalized /\ f.pending_finalized = e.pending_finalized
               /\ f.proposal_messages = e.proposal_messages
               /\ f.proposal_cache = e.proposal_cache
<1> DEFINE f == SetStep(e, "precommit")
<1>1. e \in EngineState
  BY DEF Stands, Fits
<1>2. "precommit" \in Step
  BY DEF Step
<1>3. /\ Fits(f, w.log, w.saves)
      /\ f.round = e.round /\ f.step = "precommit"
      /\ f.votes = e.votes /\ f.outputs = e.outputs
      /\ f.locked_round = e.locked_round /\ f.locked_value = e.locked_value
      /\ f.finalized = e.finalized /\ f.pending_finalized = e.pending_finalized
      /\ f.proposal_messages = e.proposal_messages
      /\ f.proposal_cache = e.proposal_cache
  BY <1>2, SetStepFits DEF Stands
<1>4. f.polc_by_round = e.polc_by_round /\ f.pending_prevote = e.pending_prevote
  BY <1>1 DEF SetStep, EngineState
<1> HIDE DEF f
<1>5. Backs(f, w)
  BY <1>3, <1>4, BacksSame DEF Stands
<1>6. ASSUME w.ordinary PROVE Sound(f, w)
  <2>1. Sound(e, w)
    BY <1>6 DEF Stands
  <2>2. \A t, r : Own(f, t, r) = Own(e, t, r)
    BY <1>3 DEF Own
  <2>3. LocksKept(f, w)
    BY <1>3, <1>4, <2>1, <2>2 DEF Sound, LocksKept, Prevoted, Precommitted
  <2>4. LockBelow(f) /\ Stepped(f) /\ KnownPrevotes(f, w)
    BY <1>3, <2>1, <2>2 DEF Sound, LockBelow, Stepped, KnownPrevotes
  <2>5. FinalHeld(f) /\ InOrder(f) /\ MessagesHeld(f)
    BY <1>3, <2>1, <2>2 DEF Sound, FinalHeld, InOrder, MessagesHeld, HasMessage
  <2>6. Settled(f, w)
    BY <1>3, <2>1, <2>2 DEF Sound, Settled
  <2> QED BY <2>3, <2>4, <2>5, <2>6 DEF Sound
<1>7. Stands(f, w)
  BY <1>3, <1>5, <1>6 DEF Stands
<1> QED BY <1>3, <1>7 DEF f

\* Taking the lock behind the prevote quorum of the round.
LEMMA TakeLockStands ==
    ASSUME NEW e, NEW w, Stands(e, w), World(w), NEW v \in Value,
           e.step # "precommit", HasMessage(e, v, e.round), Carried(e, w, e.round, v)
    PROVE  LET f == TakeLock(e, v)
               g == SetStep(f, "precommit")
           IN  /\ e.step = "prevote" => Stands(f, w)
               /\ Stands(g, w)
               /\ Carried(g, w, e.round, v)
               /\ g.step = "precommit" /\ g.round = e.round
               /\ g.locked_round = e.round /\ g.locked_value = v
               /\ g.pending_finalized = e.pending_finalized
               /\ g.proposal_cache = e.proposal_cache
<1> DEFINE f == TakeLock(e, v)
           g == SetStep(f, "precommit")
<1>1. e \in EngineState /\ Fits(e, w.log, w.saves) /\ w.log \in LogTable
  BY DEF Stands, Fits, World
<1>2. /\ Fits(f, w.log, w.saves) /\ Fits(g, w.log, w.saves)
      /\ g.step = "precommit" /\ g.round = e.round
      /\ g.locked_round = e.round /\ g.locked_value = v
      /\ f.step = e.step /\ f.round = e.round
      /\ f.locked_round = e.round /\ f.locked_value = v
  BY <1>1, TakeLockFits
<1>3. /\ f.votes = e.votes /\ f.outputs = e.outputs
      /\ f.polc_by_round = e.polc_by_round /\ f.pending_prevote = e.pending_prevote
      /\ f.finalized = e.finalized /\ f.pending_finalized = e.pending_finalized
      /\ f.proposal_messages = e.proposal_messages
      /\ f.proposal_cache = e.proposal_cache
  BY <1>1 DEF TakeLock, EngineState
<1>4. f \in EngineState
  BY <1>2 DEF Fits
<1> HIDE DEF f
<1>5. /\ g.votes = e.votes /\ g.outputs = e.outputs
      /\ g.polc_by_round = e.polc_by_round /\ g.pending_prevote = e.pending_prevote
      /\ g.finalized = e.finalized /\ g.pending_finalized = e.pending_finalized
      /\ g.proposal_messages = e.proposal_messages
      /\ g.proposal_cache = e.proposal_cache
  BY <1>3, <1>4 DEF SetStep, EngineState
<1> HIDE DEF g
<1>6. ASSUME NEW h, h.votes = e.votes, h.outputs = e.outputs,
             h.polc_by_round = e.polc_by_round, h.pending_prevote = e.pending_prevote,
             h.finalized = e.finalized, h.pending_finalized = e.pending_finalized,
             h.proposal_messages = e.proposal_messages,
             h.locked_round = e.round, h.locked_value = v, h.round = e.round,
             h.step = "precommit" \/ (e.step = "prevote" /\ h.step = "prevote"),
             Fits(h, w.log, w.saves)
      PROVE  Stands(h, w) /\ Carried(h, w, e.round, v)
  <2>1. \A t, r : Own(h, t, r) = Own(e, t, r)
    BY <1>6 DEF Own
  <2>2. \A r, x : Carried(e, w, r, x) => Carried(h, w, r, x)
    BY <2>1 DEF Carried
  <2>3. \A r, x : Backed(e, w, r, x) => Backed(h, w, r, x)
    BY <2>2 DEF Backed
  <2>4. VotesExist(h, w) /\ FinalBacked(h, w)
    BY <1>6 DEF Stands, Backs, VotesExist, FinalBacked
  <2>5. PolcsBacked(h, w)
    BY <1>6, <2>3 DEF Stands, Backs, PolcsBacked
  <2>6. LockBacked(h, w)
    BY <1>6, <2>2 DEF LockBacked, Backed
  <2>7. PrecommitsBacked(h, w)
    BY <2>1, <2>2 DEF Stands, Backs, PrecommitsBacked
  <2>8. ASSUME w.ordinary PROVE Sound(h, w)
    <3>1. Sound(e, w)
      BY <2>8 DEF Stands
    <3>2. LocksKept(h, w)
      BY <1>6, <2>1, <3>1 DEF Sound, LocksKept, Prevoted, Precommitted
    <3>3. LockBelow(h) /\ Stepped(h)
      BY <1>6, <2>1, <3>1 DEF Sound, LockBelow, Stepped
    <3>4. KnownPrevotes(h, w) /\ FinalHeld(h) /\ InOrder(h) /\ MessagesHeld(h)
      BY <1>6, <2>1, <3>1
      DEF Sound, KnownPrevotes, FinalHeld, InOrder, MessagesHeld, HasMessage
    <3>5. Settled(h, w)
      BY <1>6, <2>1, <3>1 DEF Sound, Settled
    <3> QED BY <3>2, <3>3, <3>4, <3>5 DEF Sound
  <2> QED BY <1>6, <2>2, <2>4, <2>5, <2>6, <2>7, <2>8 DEF Stands, Backs
<1>7. e.step = "prevote" => Stands(f, w)
  BY <1>2, <1>3, <1>6
<1>8. Stands(g, w) /\ Carried(g, w, e.round, v)
  BY <1>2, <1>5, <1>6
<1> QED BY <1>2, <1>5, <1>7, <1>8 DEF f, g

\* cast_local_vote of a precommit.
LEMMA PrecommitEffect ==
    ASSUME NEW e \in EngineState, NEW b \in Ballot
    PROVE  LET f == CastLocalVote(e, "precommit", b)
           IN  \/ f = e
               \/ /\ Own(e, "precommit", e.round) = None
                  /\ b # Nil => HasMessage(e, b, e.round)
                  /\ f.round = e.round /\ f.step = e.step
                  /\ f.locked_round = e.locked_round /\ f.locked_value = e.locked_value
                  /\ f.finalized = e.finalized /\ f.pending_finalized = e.pending_finalized
                  /\ f.polc_by_round = e.polc_by_round
                  /\ f.pending_prevote = e.pending_prevote
                  /\ f.proposal_messages = e.proposal_messages
                  /\ f.proposal_cache = e.proposal_cache
                  /\ \A u \in VoteType, s \in Round, q \in Validator :
                        f.votes[u][s][q] =
                           IF u = "precommit" /\ s = e.round /\ q = Me THEN b
                           ELSE e.votes[u][s][q]
                  /\ f.outputs = Append(e.outputs,
                        [kind |-> "vote", type |-> "precommit", round |-> e.round, ballot |-> b])
<1> DEFINE f == CastLocalVote(e, "precommit", b)
           vote == [kind |-> "vote", type |-> "precommit", round |-> e.round, ballot |-> b]
           h == AddVote(e, "precommit", e.round, Me, b)
<1>1. LocalBallot(e, "precommit", b) = b
  BY DEF LocalBallot
<1>2. CASE CastOutcome(e, "precommit", b) # "cast"
  BY <1>2 DEF CastLocalVote
<1>3. CASE CastOutcome(e, "precommit", b) = "cast"
  <2>1. Own(e, "precommit", e.round) = None /\ (b # Nil => HasMessage(e, b, e.round))
    BY <1>1, <1>3 DEF CastOutcome, Own
  <2>2. f = [h EXCEPT !.outputs = Append(@, vote)]
    BY <1>1, <1>3 DEF CastLocalVote
  <2>3. Me \in Validator /\ "precommit" \in VoteType /\ e.round \in Round
    BY EngineAssumption DEF VoteType, EngineState
  <2>4. /\ Around(e, h) /\ h.outputs = e.outputs
        /\ h.proposal_messages = e.proposal_messages
        /\ h.proposal_cache = e.proposal_cache
        /\ \A u \in VoteType, s \in Round, q \in Validator :
              h.votes[u][s][q] =
                 IF u = "precommit" /\ s = e.round /\ q = Me
                      /\ e.votes["precommit"][e.round][Me] = None THEN b
                 ELSE e.votes[u][s][q]
    <3>1. ASSUME NEW t \in VoteType, NEW r \in Round
          PROVE  LET k == AddVote(e, t, r, Me, b)
                 IN  /\ Around(e, k) /\ k.outputs = e.outputs
                     /\ k.proposal_messages = e.proposal_messages
                     /\ k.proposal_cache = e.proposal_cache
                     /\ \A u \in VoteType, s \in Round, q \in Validator :
                           k.votes[u][s][q] =
                              IF u = t /\ s = r /\ q = Me /\ e.votes[t][r][Me] = None THEN b
                              ELSE e.votes[u][s][q]
      BY <2>3, AddVoteEffect
    <3> QED BY <2>3, <3>1
  <2>5. h.polc_by_round = e.polc_by_round /\ h.pending_prevote = e.pending_prevote
    BY DEF AddVote, EngineState
  <2> HIDE DEF f, h, vote
  <2>6. h \in EngineState
    BY <2>4 DEF Around
  <2>7. /\ f.round = h.round /\ f.step = h.step
        /\ f.locked_round = h.locked_round /\ f.locked_value = h.locked_value
        /\ f.finalized = h.finalized /\ f.pending_finalized = h.pending_finalized
        /\ f.polc_by_round = h.polc_by_round
        /\ f.pending_prevote = h.pending_prevote
        /\ f.proposal_messages = h.proposal_messages
        /\ f.proposal_cache = h.proposal_cache
        /\ f.votes = h.votes
        /\ f.outputs = Append(h.outputs, vote)
    BY <2>2, <2>6 DEF EngineState
  <2>8. /\ h.round = e.round /\ h.step = e.step
        /\ h.locked_round = e.locked_round /\ h.locked_value = e.locked_value
        /\ h.finalized = e.finalized /\ h.pending_finalized = e.pending_finalized
    BY <2>4 DEF Around
  <2>9. \A u \in VoteType, s \in Round, q \in Validator :
           f.votes[u][s][q] =
              IF u = "precommit" /\ s = e.round /\ q = Me THEN b ELSE e.votes[u][s][q]
    BY <2>1, <2>4, <2>7 DEF Own
  <2>10. f.outputs = Append(e.outputs,
           [kind |-> "vote", type |-> "precommit", round |-> e.round, ballot |-> b])
    BY <2>4, <2>7 DEF vote
  <2>11. /\ f.round = e.round /\ f.step = e.step
         /\ f.locked_round = e.locked_round /\ f.locked_value = e.locked_value
         /\ f.finalized = e.finalized /\ f.pending_finalized = e.pending_finalized
         /\ f.polc_by_round = e.polc_by_round
         /\ f.pending_prevote = e.pending_prevote
         /\ f.proposal_messages = e.proposal_messages
         /\ f.proposal_cache = e.proposal_cache
    BY <2>4, <2>5, <2>7, <2>8
  <2> QED BY <2>1, <2>9, <2>10, <2>11 DEF f
<1> QED BY <1>2, <1>3

\* Casting a precommit keeps everything; a value needs the lock and its quorum.
LEMMA PrecommitStands ==
    ASSUME NEW e, NEW w, Stands(e, w), World(w), e.step = "precommit", NEW b \in Ballot,
           b # Nil => /\ e.locked_round = e.round /\ e.locked_value = b
                      /\ Carried(e, w, e.round, b)
    PROVE  LET f == CastLocalVote(e, "precommit", b)
           IN  /\ Stands(f, w)
               /\ f.step = "precommit" /\ f.round = e.round
               /\ f.finalized = e.finalized /\ f.pending_finalized = e.pending_finalized
               /\ f.proposal_cache = e.proposal_cache
<1> DEFINE f == CastLocalVote(e, "precommit", b)
           vote == [kind |-> "vote", type |-> "precommit", round |-> e.round, ballot |-> b]
<1>1. e \in EngineState /\ w.log \in LogTable /\ Fits(e, w.log, w.saves)
      /\ Backs(e, w) /\ LockKnown(e)
  BY DEF Stands, Fits, World
<1>2. e.round \in Round /\ "precommit" \in VoteType /\ Me \in Validator
  BY <1>1, EngineAssumption DEF EngineState, VoteType
<1>3. Fits(f, w.log, w.saves)
  BY <1>1, <1>2, CastFits
<1>4. CASE f = e
  BY <1>4
<1>5. CASE f # e
  <2>1. /\ Own(e, "precommit", e.round) = None
        /\ b # Nil => HasMessage(e, b, e.round)
        /\ f.round = e.round /\ f.step = e.step
        /\ f.locked_round = e.locked_round /\ f.locked_value = e.locked_value
        /\ f.finalized = e.finalized /\ f.pending_finalized = e.pending_finalized
        /\ f.polc_by_round = e.polc_by_round
        /\ f.pending_prevote = e.pending_prevote
        /\ f.proposal_messages = e.proposal_messages
        /\ f.proposal_cache = e.proposal_cache
        /\ \A u \in VoteType, s \in Round, q \in Validator :
              f.votes[u][s][q] =
                 IF u = "precommit" /\ s = e.round /\ q = Me THEN b
                 ELSE e.votes[u][s][q]
        /\ f.outputs = Append(e.outputs, vote)
    BY <1>1, <1>5, PrecommitEffect
  <2> HIDE DEF f
  <2>2. \A t \in VoteType, s \in Round :
           \/ Own(f, t, s) = Own(e, t, s)
           \/ /\ t = "precommit" /\ s = e.round
              /\ Own(e, t, s) = None /\ Own(f, t, s) = b
    BY <1>2, <2>1 DEF Own
  <2>3. \A t \in VoteType, s \in Round, p \in Validator \ {Me} :
           f.votes[t][s][p] = e.votes[t][s][p]
    BY <2>1
  <2>4. Backs(f, w)
    <3>1. \A s \in Round, v \in Value :
             Own(f, "precommit", s) = v => Own(e, "precommit", s) = v \/ Carried(e, w, s, v)
      BY <2>2, NoneIsNoBallot DEF VoteType
    <3>2. \A t \in VoteType, s \in Round :
             Own(e, t, s) # None => Own(f, t, s) = Own(e, t, s)
      BY <2>2
    <3> QED BY <1>1, <2>1, <2>3, <3>1, <3>2, BacksGrow
  <2>5. ASSUME w.ordinary PROVE Sound(f, w)
    <3>1. Sound(e, w) /\ Recorded(w)
      BY <2>5 DEF Stands, World
    <3>2. \A s \in Round : Own(f, "prevote", s) = Own(e, "prevote", s)
      BY <2>2 DEF VoteType
    <3>3. \A s \in Round, v \in Value : Prevoted(f, w, s, v) => Prevoted(e, w, s, v)
      BY <2>1, <3>2 DEF Prevoted
    <3>4. /\ e.outputs \in Seq(Output) /\ DOMAIN e.outputs = 1 .. Len(e.outputs)
          /\ Len(e.outputs) \in Nat
          /\ \A i \in DOMAIN e.outputs : i \in DOMAIN f.outputs /\ f.outputs[i] = e.outputs[i]
          /\ Len(e.outputs) + 1 \in DOMAIN f.outputs /\ f.outputs[Len(e.outputs) + 1] = vote
          /\ \A i \in DOMAIN f.outputs : i \in DOMAIN e.outputs \/ i = Len(e.outputs) + 1
      <4>1. e.outputs \in Seq(Output)
        BY <1>1 DEF EngineState
      <4>2. vote \in Output
        BY <1>2 DEF Output, LocalVote
      <4> HIDE DEF vote
      <4> QED BY <2>1, <4>1, <4>2, AppendPlaces
    <3>5. LocksKept(f, w)
      <4> SUFFICES ASSUME NEW r0 \in Round, NEW r1 \in Round, NEW v0 \in Value, NEW v1 \in Value,
                          r0 < r1, v0 # v1, Precommitted(f, w, r0, v0), Prevoted(f, w, r1, v1)
                   PROVE  Freed(w, v1, r0, r1)
        BY DEF LocksKept
      <4>1. Prevoted(e, w, r1, v1)
        BY <3>3
      <4>2. CASE Precommitted(e, w, r0, v0)
        BY <3>1, <4>1, <4>2 DEF Sound, LocksKept
      <4>3. CASE ~Precommitted(e, w, r0, v0)
        <5>1. r0 = e.round
          BY <2>2, <4>3 DEF Precommitted, VoteType
        <5>2. r1 > e.round
          BY <5>1, EngineAssumption DEF Round
        <5> QED BY <1>1, <3>1, <4>1, <5>2, NoPrevoteAhead
      <4> QED BY <4>2, <4>3
    <3>6. LockBelow(f) /\ Stepped(f)
      BY <1>2, <2>1, <3>1, <3>2 DEF Sound, LockBelow, Stepped
    <3>7. KnownPrevotes(f, w)
      BY <3>1, <3>2 DEF Sound, KnownPrevotes
    <3>8. ASSUME e.pending_finalized # None
          PROVE  /\ e.pending_finalized.round \in Round /\ e.pending_finalized.ballot \in Value
                 /\ e.pending_finalized.own =>
                       /\ Own(e, "precommit", e.pending_finalized.round)
                             = e.pending_finalized.ballot
                       /\ Own(f, "precommit", e.pending_finalized.round)
                             = e.pending_finalized.ballot
                       /\ e.pending_finalized.round # e.round
      <4>1. e.pending_finalized.round \in Round /\ e.pending_finalized.ballot \in Value
        BY <1>1, <3>8 DEF EngineState, FinalizeMessage
      <4>2. e.pending_finalized.own =>
               Own(e, "precommit", e.pending_finalized.round) = e.pending_finalized.ballot
        BY <3>1, <3>8 DEF Sound, FinalHeld
      <4>3. e.pending_finalized.ballot # None
        BY <4>1, NoneIsNoBallot
      <4> QED BY <2>1, <2>2, <4>1, <4>2, <4>3 DEF VoteType
    <3>9. FinalHeld(f)
      <4>1. \A i \in DOMAIN f.outputs :
               f.outputs[i].kind = "finalize" => f.outputs[i] = f.pending_finalized
        BY <2>1, <3>1, <3>4 DEF Sound, FinalHeld
      <4>2. f.finalized <=> f.pending_finalized # None
        BY <2>1, <3>1 DEF Sound, FinalHeld
      <4> QED BY <2>1, <3>8, <4>1, <4>2 DEF FinalHeld
    <3>10. InOrder(f)
      <4> SUFFICES ASSUME NEW i \in DOMAIN f.outputs, NEW j \in DOMAIN f.outputs,
                          f.outputs[j].kind = "finalize", f.outputs[j].own,
                          IsPrecommit(f.outputs[i], f.outputs[j].round, f.outputs[j].ballot)
                   PROVE  i < j
        BY DEF InOrder
      <4>1. j \in DOMAIN e.outputs /\ f.outputs[j] = e.outputs[j]
        BY <3>4
      <4>2. f.outputs[j] = e.pending_finalized /\ e.pending_finalized # None
        <5>1. e.outputs[j] \in Output /\ e.outputs[j].kind = "finalize"
          BY <3>4, <4>1
        <5>2. e.outputs[j] \in FinalizeMessage
          BY <5>1 DEF Output, LocalVote
        <5> QED BY <3>1, <4>1, <5>2, NoneAssumption DEF Sound, FinalHeld
      <4>3. CASE i \in DOMAIN e.outputs
        BY <3>1, <3>4, <4>1, <4>3 DEF Sound, InOrder
      <4>4. CASE i = Len(e.outputs) + 1
        BY <3>4, <3>8, <4>2, <4>4 DEF IsPrecommit
      <4> QED BY <3>4, <4>3, <4>4
    <3>11. MessagesHeld(f)
      <4> SUFFICES ASSUME NEW i \in DOMAIN f.outputs, NEW r \in Round, NEW v \in Value,
                          IsPrecommit(f.outputs[i], r, v)
                   PROVE  HasMessage(e, v, r)
        BY <2>1 DEF MessagesHeld, HasMessage
      <4>1. CASE i \in DOMAIN e.outputs
        BY <3>1, <3>4, <4>1 DEF Sound, MessagesHeld
      <4>2. CASE i = Len(e.outputs) + 1
        <5>1. r = e.round /\ v = b
          BY <3>4, <4>2 DEF IsPrecommit
        <5> QED BY <2>1, <5>1, NoneIsNoBallot
      <4> QED BY <3>4, <4>1, <4>2
    <3>12. Settled(f, w)
      <4> SUFFICES ASSUME NEW s \in Round, NEW v \in Value, Own(f, "precommit", s) = v
                   PROVE  \/ <<s, v>> \in w.settled
                          \/ \E i \in DOMAIN f.outputs : IsPrecommit(f.outputs[i], s, v)
                          \/ /\ e.pending_finalized # None
                             /\ <<s, v>> # <<e.pending_finalized.round, e.pending_finalized.ballot>>
        BY <2>1 DEF Settled
      <4>1. CASE Own(e, "precommit", s) = v
        <5>1. CASE \E i \in DOMAIN e.outputs : IsPrecommit(e.outputs[i], s, v)
          BY <3>4, <5>1
        <5>2. CASE ~\E i \in DOMAIN e.outputs : IsPrecommit(e.outputs[i], s, v)
          BY <3>1, <4>1, <5>2 DEF Sound, Settled
        <5> QED BY <5>1, <5>2
      <4>2. CASE Own(e, "precommit", s) # v
        <5>1. s = e.round /\ v = b
          BY <2>2, <4>2 DEF VoteType
        <5>2. IsPrecommit(f.outputs[Len(e.outputs) + 1], s, v)
          BY <3>4, <5>1 DEF IsPrecommit
        <5> QED BY <3>4, <5>2
      <4> QED BY <4>1, <4>2
    <3> QED BY <3>5, <3>6, <3>7, <3>9, <3>10, <3>11, <3>12 DEF Sound
  <2>6. Stands(f, w)
    BY <1>3, <2>4, <2>5 DEF Stands
  <2> QED BY <2>1, <2>6 DEF f
<1> QED BY <1>4, <1>5

-----------------------------------------------------------------------------
(* Finality and rounds *)

\* emit_finalized behind a precommit quorum of the tables, or with a certificate.
LEMMA EmitFinalizedStands ==
    ASSUME NEW e, NEW w, Stands(e, w), NEW r \in Round, NEW v \in Value, NEW send \in BOOLEAN,
           send => QuorumOf(e, "precommit", r, v),
           ~send => Cert(w, "precommit", r, v)
    PROVE  Stands(EmitFinalized(e, r, v, send), w)
<1> DEFINE f == EmitFinalized(e, r, v, send)
           m == [kind |-> "finalize", round |-> r, ballot |-> v,
                 own |-> send /\ e.votes["precommit"][r][Me] = v]
<1>1. e \in EngineState /\ Fits(e, w.log, w.saves) /\ Backs(e, w)
  BY DEF Stands, Fits
<1>2. CASE e.pending_finalized # None
  BY <1>2 DEF EmitFinalized
<1>3. CASE e.pending_finalized = None
  <2>1. Fits(f, w.log, w.saves)
    BY <1>1, EmitFinalizedFits
  <2>2. m \in FinalizeMessage /\ m # None
    <3>1. m \in FinalizeMessage
      BY DEF FinalizeMessage
    <3> HIDE DEF m
    <3> QED BY <3>1, NoneAssumption
  <2>3. /\ f.votes = e.votes /\ f.round = e.round /\ f.step = e.step
        /\ f.locked_round = e.locked_round /\ f.locked_value = e.locked_value
        /\ f.polc_by_round = e.polc_by_round /\ f.pending_prevote = e.pending_prevote
        /\ f.proposal_messages = e.proposal_messages
        /\ f.finalized = TRUE /\ f.pending_finalized = m
        /\ f.outputs = IF send THEN Append(e.outputs, m) ELSE e.outputs
    BY <1>1, <1>3 DEF EmitFinalized, EngineState
  <2>4. \A t, s : Own(f, t, s) = Own(e, t, s)
    BY <2>3 DEF Own
  <2>5. \A s, x : Carried(e, w, s, x) => Carried(f, w, s, x)
    BY <2>4 DEF Carried
  <2>6. \A s, x : Backed(e, w, s, x) => Backed(f, w, s, x)
    BY <2>5 DEF Backed
  <2>7. m.round = r /\ m.ballot = v /\ m.own = (send /\ e.votes["precommit"][r][Me] = v)
        /\ m.kind = "finalize"
    OBVIOUS
  <2> HIDE DEF f, m
  <2>8. FinalBacked(f, w)
    <3>1. CASE send
      <4> DEFINE Q == VotersFor(e, "precommit", r, v)
      <4>1. Q \in Quorum /\ \A p \in Q : p \in Validator /\ e.votes["precommit"][r][p] = v
        BY <3>1 DEF QuorumOf, VotersFor
      <4>2. ASSUME NEW p \in Q PROVE <<p, r, v>> \in w.known["precommit"] \/ (p = Me /\ m.own)
        <5>1. CASE p = Me
          BY <2>7, <3>1, <4>1, <5>1
        <5>2. CASE p # Me
          BY <1>1, <4>1, <5>2, NoneIsNoBallot DEF Backs, VotesExist, VoteType
        <5> QED BY <5>1, <5>2
      <4> HIDE DEF Q
      <4> QED BY <2>3, <2>7, <4>1, <4>2 DEF FinalBacked
    <3>2. CASE ~send
      BY <2>3, <2>7, <3>2 DEF FinalBacked, Cert
    <3> QED BY <3>1, <3>2
  <2>9. VotesExist(f, w)
    BY <1>1, <2>3 DEF Backs, VotesExist
  <2>10. PolcsBacked(f, w)
    BY <1>1, <2>3, <2>6 DEF Backs, PolcsBacked
  <2>11. LockBacked(f, w)
    BY <1>1, <2>3, <2>6 DEF Backs, LockBacked
  <2>12. PrecommitsBacked(f, w)
    BY <1>1, <2>4, <2>5 DEF Backs, PrecommitsBacked
  <2>13. ASSUME w.ordinary PROVE Sound(f, w)
    <3>1. Sound(e, w)
      BY <2>13 DEF Stands
    <3>2. /\ DOMAIN e.outputs = 1 .. Len(e.outputs) /\ Len(e.outputs) \in Nat
          /\ \A i \in DOMAIN e.outputs : i \in DOMAIN f.outputs /\ f.outputs[i] = e.outputs[i]
          /\ \A i \in DOMAIN f.outputs :
                i \in DOMAIN e.outputs \/ (i = Len(e.outputs) + 1 /\ f.outputs[i] = m)
      <4>1. e.outputs \in Seq(Output)
        BY <1>1 DEF EngineState
      <4>2. m \in Output
        BY <2>2 DEF Output
      <4>3. CASE send
        BY <2>3, <4>1, <4>2, <4>3, AppendPlaces
      <4>4. CASE ~send
        BY <2>3, <4>1, <4>4
      <4> QED BY <4>3, <4>4
    <3>3. LocksKept(f, w)
      BY <2>3, <2>4, <3>1 DEF Sound, LocksKept, Prevoted, Precommitted
    <3>4. LockBelow(f) /\ Stepped(f) /\ KnownPrevotes(f, w)
      BY <2>2, <2>3, <2>4, <3>1 DEF Sound, LockBelow, Stepped, KnownPrevotes
    <3>5. \A i \in DOMAIN e.outputs : e.outputs[i].kind # "finalize"
      <4> SUFFICES ASSUME NEW i \in DOMAIN e.outputs, e.outputs[i].kind = "finalize"
                   PROVE  FALSE
        OBVIOUS
      <4>1. e.outputs[i] \in Output
        BY <1>1 DEF EngineState
      <4>2. e.outputs[i] \in FinalizeMessage
        BY <4>1 DEF Output, LocalVote
      <4> QED BY <1>3, <3>1, <4>2, NoneAssumption DEF Sound, FinalHeld
    <3>6. FinalHeld(f)
      <4>1. m.own => Own(f, "precommit", m.round) = m.ballot
        BY <2>4, <2>7 DEF Own
      <4> QED BY <2>2, <2>3, <3>2, <3>5, <4>1 DEF FinalHeld
    <3>7. InOrder(f)
      <4> SUFFICES ASSUME NEW i \in DOMAIN f.outputs, NEW j \in DOMAIN f.outputs,
                          f.outputs[j].kind = "finalize",
                          IsPrecommit(f.outputs[i], f.outputs[j].round, f.outputs[j].ballot)
                   PROVE  i < j
        BY DEF InOrder
      <4>1. j = Len(e.outputs) + 1
        BY <3>2, <3>5
      <4>2. i \in DOMAIN e.outputs
        BY <2>7, <3>2 DEF IsPrecommit
      <4> QED BY <3>2, <4>1, <4>2
    <3>8. MessagesHeld(f)
      BY <2>3, <2>7, <3>1, <3>2 DEF Sound, MessagesHeld, HasMessage, IsPrecommit
    <3>9. Settled(f, w)
      <4> SUFFICES ASSUME NEW s \in Round, NEW x \in Value, Own(e, "precommit", s) = x
                   PROVE  \/ <<s, x>> \in w.settled
                          \/ \E i \in DOMAIN f.outputs : IsPrecommit(f.outputs[i], s, x)
        BY <2>4 DEF Settled
      <4>1. \/ <<s, x>> \in w.settled
            \/ \E i \in DOMAIN e.outputs : IsPrecommit(e.outputs[i], s, x)
        BY <1>3, <3>1 DEF Sound, Settled
      <4> QED BY <3>2, <4>1
    <3> QED BY <3>3, <3>4, <3>6, <3>7, <3>8, <3>9 DEF Sound
  <2> QED BY <2>1, <2>8, <2>9, <2>10, <2>11, <2>12, <2>13 DEF Stands, Backs, f
<1> QED BY <1>2, <1>3

\* emit_local_finalize behind a precommit quorum of the tables.
LEMMA EmitLocalFinalizeStands ==
    ASSUME NEW e, NEW w, Stands(e, w), NEW r \in Round, NEW v \in Value,
           QuorumOf(e, "precommit", r, v)
    PROVE  Stands(EmitLocalFinalize(e, r, v), w)
BY EmitFinalizedStands DEF EmitLocalFinalize

\* finalize_quorum.
LEMMA FinalizeQuorumStands ==
    ASSUME NEW e, NEW w, Stands(e, w)
    PROVE  Stands(FinalizeQuorum(e), w)
<1> DEFINE decided == {v \in Value : QuorumResult(e, "precommit", v)}
           v == CHOOSE v \in decided : TRUE
<1>1. e.round \in Round
  BY DEF Stands, Fits, EngineState
<1>2. CASE decided = {}
  BY <1>2 DEF FinalizeQuorum
<1>3. CASE decided # {}
  <2>1. v \in Value /\ QuorumOf(e, "precommit", e.round, v)
    BY <1>3 DEF QuorumResult
  <2>2. FinalizeQuorum(e) = EmitLocalFinalize(e, e.round, v)
    BY <1>3 DEF FinalizeQuorum
  <2> HIDE DEF v
  <2> QED BY <1>1, <2>1, <2>2, EmitLocalFinalizeStands
<1> QED BY <1>2, <1>3

\* A new generation changes nothing else.
LEMMA GenerationStands ==
    ASSUME NEW e, NEW w, Stands(e, w), NEW n \in Nat
    PROVE  LET f == [e EXCEPT !.generation = n]
           IN  /\ Stands(f, w)
               /\ f.round = e.round /\ f.votes = e.votes /\ f.outputs = e.outputs
               /\ f.locked_round = e.locked_round
               /\ f.pending_finalized = e.pending_finalized
<1> DEFINE f == [e EXCEPT !.generation = n]
<1>1. e \in EngineState
  BY DEF Stands, Fits
<1>2. Fits(f, w.log, w.saves)
  BY GenerationFits DEF Stands
<1>3. /\ f.votes = e.votes /\ f.polc_by_round = e.polc_by_round
      /\ f.locked_round = e.locked_round /\ f.locked_value = e.locked_value
      /\ f.pending_finalized = e.pending_finalized /\ f.finalized = e.finalized
      /\ f.round = e.round /\ f.step = e.step /\ f.outputs = e.outputs
      /\ f.pending_prevote = e.pending_prevote
      /\ f.proposal_messages = e.proposal_messages
  BY <1>1 DEF EngineState
<1> HIDE DEF f
<1>4. Backs(f, w)
  BY <1>3, BacksSame DEF Stands
<1>5. w.ordinary => Sound(f, w)
  BY <1>3, SoundSame DEF Stands, HasMessage
<1>6. Stands(f, w)
  BY <1>2, <1>4, <1>5 DEF Stands
<1> QED BY <1>3, <1>6 DEF f

\* A new round above the lock, with the same own votes and outputs.
LEMMA NewRoundSound ==
    ASSUME NEW e \in EngineState, NEW f, NEW w, Sound(e, w),
           f.step = "propose", f.pending_prevote = None,
           f.locked_round = e.locked_round, f.outputs = e.outputs,
           f.pending_finalized = e.pending_finalized, f.finalized = e.finalized,
           f.proposal_messages = e.proposal_messages,
           \A t \in VoteType, s \in Round : Own(f, t, s) = Own(e, t, s),
           f.pending_finalized = None => ~(f.locked_round >= f.round)
    PROVE  Sound(f, w)
<1>1. \A s \in Round, v \in Value :
         /\ Prevoted(f, w, s, v) => Prevoted(e, w, s, v)
         /\ Precommitted(f, w, s, v) => Precommitted(e, w, s, v)
  BY NoneIsNoBallot DEF Prevoted, Precommitted, VoteType
<1>2. LocksKept(f, w)
  BY <1>1 DEF Sound, LocksKept
<1>3. LockBelow(f) /\ Stepped(f)
  BY DEF LockBelow, Stepped
<1>4. KnownPrevotes(f, w)
  BY DEF Sound, KnownPrevotes, VoteType
<1>5. FinalHeld(f)
  <2>1. e.pending_finalized # None => e.pending_finalized.round \in Round
    BY DEF EngineState, FinalizeMessage
  <2> QED BY <2>1 DEF Sound, FinalHeld, VoteType
<1>6. InOrder(f) /\ MessagesHeld(f)
  BY DEF Sound, InOrder, MessagesHeld, HasMessage
<1>7. Settled(f, w)
  BY DEF Sound, Settled, VoteType
<1> QED BY <1>2, <1>3, <1>4, <1>5, <1>6, <1>7 DEF Sound

\* start_round: nothing of the new round is voted yet, and it lies above the lock.
LEMMA StartRoundStands ==
    ASSUME NEW e, NEW w, Stands(e, w), World(w), NEW r \in Round, r >= e.round,
           r = e.round =>
               /\ \A t \in VoteType : Own(e, t, r) = None
               /\ e.pending_finalized = None => e.locked_round < r
    PROVE  LET f == StartRound(e, r)
           IN  /\ Stands(f, w)
               /\ f.round = r
               /\ f.outputs = e.outputs
               /\ f.pending_finalized = e.pending_finalized
               /\ f.locked_round = e.locked_round
               /\ \A t \in VoteType, s \in Round : Own(f, t, s) = Own(e, t, s)
<1> DEFINE f == StartRound(e, r)
<1>1. e \in EngineState /\ w.log \in LogTable /\ Fits(e, w.log, w.saves)
      /\ Backs(e, w) /\ LockKnown(e)
  BY DEF Stands, Fits, World
<1>2. e.round \in Nat /\ e.locked_round \in Int /\ r \in Nat /\ e.round \in Round
  BY <1>1, EngineTypes, EngineAssumption DEF Round
<1>3. /\ Fits(f, w.log, w.saves)
      /\ \A t \in VoteType, s \in Round : Own(f, t, s) = Own(e, t, s)
  BY <1>1, StartRoundFits
<1>4. /\ f \in EngineState /\ f.round = r /\ f.step = "propose"
      /\ f.locked_round = e.locked_round /\ f.locked_value = e.locked_value
      /\ f.pending_finalized = e.pending_finalized
      /\ f.outputs = e.outputs
      /\ f.proposal_messages = e.proposal_messages
      /\ \A t \in VoteType, s \in Round, p \in Validator :
            f.votes[t][s][p] = IF s = r THEN None ELSE e.votes[t][s][p]
  BY <1>1, StartRoundEffect
<1>5. f.polc_by_round = e.polc_by_round /\ f.finalized = e.finalized /\ f.pending_prevote = None
  BY <1>1, StartRoundEffect
<1> HIDE DEF f
<1>6. \A s \in Round : \A v : Carried(e, w, s, v) => Carried(f, w, s, v)
  BY <1>3 DEF Carried, VoteType
<1>7. \A s \in Round : \A v : Backed(e, w, s, v) => Backed(f, w, s, v)
  BY <1>6 DEF Backed
<1>8. VotesExist(f, w)
  BY <1>1, <1>4 DEF Backs, VotesExist
<1>9. PolcsBacked(f, w)
  BY <1>1, <1>5, <1>7 DEF Backs, PolcsBacked
<1>10. LockBacked(f, w)
  <2>1. e.locked_round >= 0 => e.locked_round \in Round
    BY <1>1 DEF EngineState, NoRound
  <2> QED BY <1>1, <1>4, <1>7, <2>1 DEF Backs, LockBacked
<1>11. PrecommitsBacked(f, w)
  BY <1>1, <1>3, <1>6 DEF Backs, PrecommitsBacked, VoteType
<1>12. FinalBacked(f, w)
  BY <1>1, <1>4 DEF Backs, FinalBacked
<1>13. ASSUME w.ordinary PROVE Sound(f, w)
  <2>1. Sound(e, w)
    BY <1>13 DEF Stands
  <2>2. ASSUME f.pending_finalized = None PROVE ~(f.locked_round >= f.round)
    <3>1. e.locked_round <= e.round
      BY <1>1, <1>2, <1>4, <2>2 DEF LockKnown
    <3> QED BY <1>2, <1>4, <2>2, <3>1
  <2> QED BY <1>1, <1>3, <1>4, <1>5, <2>1, <2>2, NewRoundSound
<1>14. Stands(f, w)
  BY <1>3, <1>8, <1>9, <1>10, <1>11, <1>12, <1>13 DEF Stands, Backs
<1> QED BY <1>3, <1>4, <1>14 DEF f

-----------------------------------------------------------------------------
\* The prevote that waits for voting to be allowed again.
LEMMA PendingStands ==
    ASSUME NEW e, NEW w, Stands(e, w), NEW b \in Ballot \cup {None},
           (w.ordinary /\ b # None) => MayPrevote(e, w, b)
    PROVE  Stands([e EXCEPT !.pending_prevote = b], w)
<1> DEFINE f == [e EXCEPT !.pending_prevote = b]
<1>1. e \in EngineState
  BY DEF Stands, Fits
<1>2. Aside(e, f)
  BY <1>1, FieldsAside
<1>3. f.polc_by_round = e.polc_by_round /\ f.pending_prevote = b
  BY <1>1 DEF EngineState
<1> HIDE DEF f
<1>4. /\ f.votes = e.votes /\ f.outputs = e.outputs /\ f.round = e.round /\ f.step = e.step
      /\ f.locked_round = e.locked_round /\ f.locked_value = e.locked_value
      /\ f.finalized = e.finalized /\ f.pending_finalized = e.pending_finalized
      /\ \A v \in Value, r \in Round : HasMessage(e, v, r) => HasMessage(f, v, r)
  BY <1>2 DEF Aside, Around
<1>5. Fits(f, w.log, w.saves)
  BY <1>2, AsideFits DEF Stands
<1>6. Backs(f, w)
  BY <1>3, <1>4, BacksSame DEF Stands
<1>7. ASSUME w.ordinary PROVE Sound(f, w)
  <2>1. Sound(e, w)
    BY <1>7 DEF Stands
  <2>2. \A t, r : Own(f, t, r) = Own(e, t, r)
    BY <1>4 DEF Own
  <2>3. LocksKept(f, w)
    <3> SUFFICES ASSUME NEW r0 \in Round, NEW r1 \in Round, NEW v0 \in Value, NEW v1 \in Value,
                        r0 < r1, v0 # v1, Precommitted(f, w, r0, v0), Prevoted(f, w, r1, v1)
                 PROVE  Freed(w, v1, r0, r1)
      BY DEF LocksKept
    <3>1. Precommitted(e, w, r0, v0)
      BY <2>2 DEF Precommitted
    <3>2. CASE Prevoted(e, w, r1, v1)
      BY <2>1, <3>1, <3>2 DEF Sound, LocksKept
    <3>3. CASE ~Prevoted(e, w, r1, v1)
      <4>1. r1 = e.round /\ v1 = b
        BY <1>3, <1>4, <2>2, <3>3 DEF Prevoted
      <4> QED BY <1>7, <3>1, <4>1, NoneIsNoBallot DEF MayPrevote
    <3> QED BY <3>2, <3>3
  <2>4. LockBelow(f) /\ Stepped(f) /\ KnownPrevotes(f, w)
    BY <1>4, <2>1, <2>2 DEF Sound, LockBelow, Stepped, KnownPrevotes
  <2>5. FinalHeld(f) /\ InOrder(f) /\ MessagesHeld(f)
    BY <1>4, <2>1, <2>2 DEF Sound, FinalHeld, InOrder, MessagesHeld
  <2>6. Settled(f, w)
    BY <1>4, <2>1, <2>2 DEF Sound, Settled
  <2> QED BY <2>3, <2>4, <2>5, <2>6 DEF Sound
<1> QED BY <1>5, <1>6, <1>7 DEF Stands, f

-----------------------------------------------------------------------------
(* The handlers *)

\* Arming a timer.
LEMMA ScheduleStands ==
    ASSUME NEW e, NEW w, Stands(e, w), NEW step \in Step
    PROVE  Stands(Schedule(e, step), w)
BY ScheduleCalm, CalmStands DEF Stands, Fits

\* Prevotes and precommits with the timer of their step.
LEMMA CastPrevoteStands ==
    ASSUME NEW e, NEW w, Stands(e, w), World(w), e.step # "precommit", NEW b \in Ballot,
           w.ordinary => MayPrevote(e, w, b) \/ e.pending_finalized = None,
           NEW outcomes
    PROVE  LET f == CastAndSchedule(SetStep(e, "prevote"), "prevote", b, outcomes)
           IN  Stands(f, w)
<1> DEFINE g == CastLocalVote(SetStep(e, "prevote"), "prevote", b)
<1>1. Stands(g, w) /\ "prevote" \in Step
  BY PrevoteStands DEF Step
<1>2. CastAndSchedule(SetStep(e, "prevote"), "prevote", b, outcomes)
         \in {g, Schedule(g, "prevote")}
  BY DEF CastAndSchedule
<1> HIDE DEF g
<1> QED BY <1>1, <1>2, ScheduleStands

\* cast_vote of a precommit: the lock on the round and the prevotes behind it
\* make the new vote one that the voting rules allow.
LEMMA CastPrecommitStands ==
    ASSUME NEW e, NEW w, Stands(e, w), World(w), e.step = "precommit", NEW b \in Ballot,
           b # Nil => /\ e.locked_round = e.round /\ e.locked_value = b
                      /\ Carried(e, w, e.round, b),
           NEW outcomes
    PROVE  Stands(CastAndSchedule(e, "precommit", b, outcomes), w)
<1> DEFINE g == CastLocalVote(e, "precommit", b)
<1>1. Stands(g, w) /\ "precommit" \in Step
  BY PrecommitStands DEF Step
<1>2. CastAndSchedule(e, "precommit", b, outcomes) \in {g, Schedule(g, "precommit")}
  BY DEF CastAndSchedule
<1> HIDE DEF g
<1> QED BY <1>1, <1>2, ScheduleStands

\* A nil precommit from any step.
LEMMA CastNilStands ==
    ASSUME NEW e, NEW w, Stands(e, w), World(w), NEW outcomes
    PROVE  Stands(CastAndSchedule(SetStep(e, "precommit"), "precommit", Nil, outcomes), w)
<1>1. Stands(SetStep(e, "precommit"), w) /\ SetStep(e, "precommit").step = "precommit"
  BY ToPrecommitStands
<1>2. Nil \in Ballot
  BY DEF Ballot
<1> QED BY <1>1, <1>2, CastPrecommitStands

\* A nil precommit claims nothing.
LEMMA PrecommitNilStands ==
    ASSUME NEW e, NEW w, Stands(e, w), World(w), NEW can
    PROVE  Stands(PrecommitNil(e, can), w)
BY CastNilStands DEF PrecommitNil

\* No nil prevote is against a precommit.
LEMMA MayPrevoteNil == ASSUME NEW e, NEW w PROVE MayPrevote(e, w, Nil)
BY DEF MayPrevote

\* The first part of resume_voting.
LEMMA ResumePrevoteStands ==
    ASSUME NEW e, NEW w, Stands(e, w), World(w)
    PROVE  Stands(ResumePrevote(e), w)
<1> DEFINE b == e.pending_prevote
           f == [e EXCEPT !.pending_prevote = None]
<1>1. e \in EngineState /\ e.round \in Round
  BY DEF Stands, Fits, EngineState
<1>2. CASE b = None
  BY <1>2 DEF ResumePrevote
<1>3. CASE b # None
  <2>1. b \in Ballot
    BY <1>1, <1>3 DEF EngineState
  <2>2. Stands(f, w)
    BY PendingStands
  <2>3. f.round = e.round /\ f.step = e.step /\ f.votes = e.votes
    BY <1>1 DEF EngineState
  <2>4. ResumePrevote(e) = IF e.step \in {"propose", "prevote"}
           THEN CastAndSchedule(SetStep(f, "prevote"), "prevote", b, {"cast", "same"})
           ELSE f
    BY <1>3 DEF ResumePrevote
  <2> HIDE DEF f
  <2>5. w.ordinary => MayPrevote(f, w, b)
    <3> SUFFICES ASSUME w.ordinary, b # Nil, NEW r0 \in Round, NEW v0 \in Value,
                        r0 < e.round, v0 # b, Precommitted(f, w, r0, v0)
                 PROVE  Freed(w, b, r0, e.round)
      BY <2>3 DEF MayPrevote
    <3>1. Precommitted(e, w, r0, v0)
      BY <2>3 DEF Precommitted, Own
    <3>2. b \in Value /\ Prevoted(e, w, e.round, b)
      BY <2>1 DEF Ballot, Prevoted
    <3> QED BY <1>1, <3>1, <3>2 DEF Stands, Sound, LocksKept
  <2>6. e.step \in {"propose", "prevote"} => f.step # "precommit"
    BY <2>3
  <2> HIDE DEF b
  <2> QED BY <2>1, <2>2, <2>4, <2>5, <2>6, CastPrevoteStands
<1> QED BY <1>2, <1>3

\* record_polc, then the lock and the precommit of the round's value.
LEMMA LockAndPrecommitStands ==
    ASSUME NEW e, NEW w, Stands(e, w), World(w), NEW v \in Value,
           e.step # "precommit", HasMessage(e, v, e.round), QuorumOf(e, "prevote", e.round, v),
           NEW polc \in BOOLEAN
    PROVE  LET g == SetStep(TakeLock(IF polc THEN RecordPolc(e, e.round, v) ELSE e, v),
                            "precommit")
               h == CastLocalVote(g, "precommit", v)
           IN  /\ Stands(h, w) /\ h.round = e.round
               /\ \A outcomes :
                     Stands(CastAndSchedule(g, "precommit", v, outcomes), w)
<1> DEFINE d == IF polc THEN RecordPolc(e, e.round, v) ELSE e
           g == SetStep(TakeLock(d, v), "precommit")
<1>1. e.round \in Round /\ v \in Ballot
  BY DEF Stands, Fits, EngineState, Ballot
<1>2. Carried(e, w, e.round, v)
  BY <1>1, TablesCarry DEF Stands, Backs
<1>3. /\ Stands(d, w) /\ d.round = e.round /\ d.step = e.step /\ d.votes = e.votes
      /\ d.proposal_messages = e.proposal_messages
  <2>1. CASE polc
    BY <1>1, <1>2, <2>1, RecordPolcStands DEF Backed, Aside, Around
  <2>2. CASE ~polc
    BY <2>2
  <2> QED BY <2>1, <2>2
<1> HIDE DEF d
<1>4. Carried(d, w, d.round, v) /\ HasMessage(d, v, d.round)
  BY <1>2, <1>3 DEF Carried, Own, HasMessage
<1>5. /\ Stands(g, w) /\ Carried(g, w, e.round, v)
      /\ g.step = "precommit" /\ g.round = e.round
      /\ g.locked_round = e.round /\ g.locked_value = v
  BY <1>3, <1>4, TakeLockStands
<1> HIDE DEF g
<1>6. /\ Stands(CastLocalVote(g, "precommit", v), w)
      /\ CastLocalVote(g, "precommit", v).round = e.round
  BY <1>1, <1>5, PrecommitStands
<1>7. \A outcomes : Stands(CastAndSchedule(g, "precommit", v, outcomes), w)
  BY <1>1, <1>5, CastPrecommitStands
<1> QED BY <1>6, <1>7 DEF g, d

-----------------------------------------------------------------------------
\* A jump to a later round.
LEMMA RealignRoundStands ==
    ASSUME NEW e, NEW w, Stands(e, w), World(w), NEW r \in Round, r > e.round
    PROVE  /\ Stands(RealignRound(e, r), w)
           /\ RealignRound(e, r).pending_finalized = e.pending_finalized
<1> DEFINE n == e.generation + 1
           f == [e EXCEPT !.generation = n]
<1>1. n \in Nat /\ e.round \in Nat /\ r \in Nat
  BY EngineTypes, EngineAssumption DEF Stands, Fits, Round
<1>2. RealignRound(e, r) = StartRound(f, r)
  BY DEF RealignRound
<1> HIDE DEF n
<1>3. Stands(f, w) /\ f.round = e.round /\ f.pending_finalized = e.pending_finalized
  BY <1>1, GenerationStands
<1> HIDE DEF f
<1>4. r >= f.round /\ r # f.round
  BY <1>1, <1>3
<1> QED BY <1>2, <1>3, <1>4, StartRoundStands

\* try_round_skip.
LEMMA TryRoundSkipStands ==
    ASSUME NEW e, NEW w, Stands(e, w), World(w), NEW ready
    PROVE  /\ Stands(TryRoundSkip(e, ready), w)
           /\ TryRoundSkip(e, ready).pending_finalized = e.pending_finalized
<1> DEFINE z == [p \in Validator |-> NoRound]
           f == [e EXCEPT !.higher_round_evidence = z]
           r == Max(RoundSkipTargets(e))
<1>1. e \in EngineState /\ z \in [Validator -> Int]
  BY DEF Stands, Fits, NoRound
<1>2. Calm(e, f)
  <2> HIDE DEF z
  <2>1. Aside(e, f)
    BY <1>1, FieldsAside
  <2> QED BY <1>1, <2>1 DEF Calm, EngineState
<1>3. Stands(f, w) /\ f.round = e.round /\ f.pending_finalized = e.pending_finalized
  BY <1>2, CalmStands DEF Calm, Aside, Around
<1>4. RoundSkipTargets(e) # {} => r \in Round /\ r > e.round
  <2>1. RoundSkipTargets(e) \in SUBSET Round
    BY DEF RoundSkipTargets
  <2>2. RoundSkipTargets(e) # {} => r \in RoundSkipTargets(e)
    BY <2>1, MaxRoundOf
  <2> HIDE DEF r
  <2> QED BY <2>1, <2>2 DEF RoundSkipTargets
<1>5. TryRoundSkip(e, ready) = e \/
        (RoundSkipTargets(e) # {} /\ TryRoundSkip(e, ready) = RealignRound(f, r))
  BY DEF TryRoundSkip
<1> HIDE DEF f, r
<1> QED BY <1>3, <1>4, <1>5, RealignRoundStands

\* The head of on_propose and on_vote.
LEMMA NoteRoundStands ==
    ASSUME NEW e, NEW w, Stands(e, w), World(w),
           NEW r \in Round, NEW p \in Validator, NEW ready
    PROVE  /\ Stands(NoteRound(e, r, p, ready), w)
           /\ NoteRound(e, r, p, ready).pending_finalized = e.pending_finalized
<1> DEFINE f == RecordHigherRound(e, r, p, MaxRoundAhead)
<1>1. Calm(e, f)
  BY RecordHigherRoundCalm DEF Stands, Fits
<1>2. Stands(f, w) /\ f.pending_finalized = e.pending_finalized
  BY <1>1, CalmStands DEF Calm, Aside, Around
<1>3. NoteRound(e, r, p, ready) \in {e, TryRoundSkip(f, ready)}
  BY DEF NoteRound
<1> HIDE DEF f
<1> QED BY <1>2, <1>3, TryRoundSkipStands

\* on_round_sync.
LEMMA OnRoundSyncStands ==
    ASSUME NEW e, NEW w, Stands(e, w), World(w),
           NEW r \in Round, NEW p \in Validator, NEW ready
    PROVE  Stands(OnRoundSync(e, r, p, ready), w)
<1> DEFINE f == RecordHigherRound(e, r, p, MaxRound)
<1>1. Calm(e, f)
  BY RecordHigherRoundCalm DEF Stands, Fits
<1>2. Stands(f, w)
  BY <1>1, CalmStands
<1>3. OnRoundSync(e, r, p, ready) \in {e, TryRoundSkip(f, ready)}
  BY DEF OnRoundSync
<1> HIDE DEF f
<1> QED BY <1>2, <1>3, TryRoundSkipStands

\* The middle part of resume_voting.
LEMMA ResumePrecommitStands ==
    ASSUME NEW e, NEW w, Stands(e, w), World(w)
    PROVE  Stands(ResumePrecommit(e), w)
<1> DEFINE ready == {v \in Value : QuorumResult(e, "prevote", v) /\ HasMessage(e, v, e.round)}
           v == CHOOSE v \in ready : TRUE
           outs == {"cast", "same", "deferred"}
           g == SetStep(TakeLock(IF TRUE THEN RecordPolc(e, e.round, v) ELSE e, v), "precommit")
<1>1. ready # {} => /\ v \in Value /\ HasMessage(e, v, e.round)
                    /\ QuorumOf(e, "prevote", e.round, v)
  <2>1. ready # {} => v \in ready
    OBVIOUS
  <2> HIDE DEF v
  <2> QED BY <2>1 DEF QuorumResult
<1>2. ResumePrecommit(e) =
        IF e.step = "precommit" \/ ready = {} THEN e
        ELSE CastAndSchedule(g, "precommit", v, outs)
  BY DEF ResumePrecommit
<1> HIDE DEF v, ready, outs
<1>3. ASSUME e.step # "precommit", ready # {}
      PROVE  Stands(CastAndSchedule(g, "precommit", v, outs), w)
  BY <1>1, <1>3, LockAndPrecommitStands
<1> QED BY <1>2, <1>3

\* resume_voting.
LEMMA ResumeVotingStands ==
    ASSUME NEW e, NEW w, Stands(e, w), World(w)
    PROVE  Stands(ResumeVoting(e), w)
<1> DEFINE f1 == ResumePrevote(e)
           f2 == PrecommitNil(f1, TRUE)
           f3 == ResumePrecommit(f2)
<1>1. Stands(f1, w)
  BY ResumePrevoteStands
<1>2. ResumeVoting(e) = IF f3.finalized THEN f3 ELSE FinalizeQuorum(f3)
  BY DEF ResumeVoting
<1> HIDE DEF f1
<1>3. Stands(f2, w)
  BY <1>1, PrecommitNilStands
<1> HIDE DEF f2
<1>4. Stands(f3, w)
  BY <1>3, ResumePrecommitStands
<1> HIDE DEF f3
<1> QED BY <1>2, <1>4, FinalizeQuorumStands

\* on_ready.
LEMMA OnReadyStands ==
    ASSUME NEW e, NEW w, Stands(e, w), World(w), NEW can
    PROVE  Stands(OnReady(e, can), w)
<1> DEFINE f == IF can THEN ResumeVoting(e) ELSE e
<1>1. Stands(f, w)
  BY ResumeVotingStands
<1>2. OnReady(e, can) \in {f, Schedule(f, "prevote")}
  BY DEF OnReady
<1> HIDE DEF f
<1> QED BY <1>1, <1>2, ScheduleStands DEF Step

\* do_propose, before finality.
LEMMA DoProposeStands ==
    ASSUME NEW e, NEW w, Stands(e, w), World(w), NEW new \in Value, e.step = "propose",
           w.ordinary => e.pending_finalized = None
    PROVE  Stands(DoPropose(e, new), w)
<1> DEFINE v == IF e.valid_round >= 0 THEN e.valid_value ELSE new
           vr == IF e.valid_round >= 0 THEN e.valid_round ELSE NoRound
           e0 == CacheProposalMessage(e, v, e.round, vr)
           e1 == SetStep(e0, "prevote")
           e2 == CastLocalVote(e1, "prevote", v)
           e3 == SetStep(TakeLock(IF Stake THEN RecordPolc(e2, e2.round, v) ELSE e2, v),
                         "precommit")
           e4 == CastLocalVote(e3, "precommit", v)
<1>1. e \in EngineState /\ e.round \in Round /\ v \in Value /\ vr \in Round \cup {NoRound}
  <2>1. e \in EngineState
    BY DEF Stands, Fits
  <2> QED BY <2>1, EngineTypes DEF EngineState, Stands, Fits, ValidKnown
<1>2. \/ /\ QuorumOf(e2, "prevote", e.round, v)
         /\ \/ /\ QuorumOf(e4, "precommit", e.round, v)
               /\ DoPropose(e, new) = EmitLocalFinalize(e4, e.round, v)
            \/ DoPropose(e, new) = Schedule(e4, "precommit")
      \/ DoPropose(e, new) \in {Schedule(e2, "prevote"), e2}
  BY DEF DoPropose
<1> HIDE DEF v, vr
<1>3. Calm(e, e0) /\ e0.proposal_messages[v][e.round] = vr /\ v \in Ballot
  BY <1>1, CacheProposalMessageCalm DEF Ballot
<1>4. /\ Stands(e0, w) /\ e0.round = e.round /\ e0.step = "propose"
      /\ e0.pending_finalized = e.pending_finalized
  BY <1>3, CalmStands DEF Calm, Aside, Around
<1> HIDE DEF e0
<1>5. /\ Stands(e2, w) /\ e2.step = "prevote" /\ e2.round = e.round
      /\ e2.proposal_messages = e0.proposal_messages
  BY <1>3, <1>4, PrevoteStands
<1>6. HasMessage(e2, v, e2.round)
  <2>1. vr # NoMessage
    BY <1>1, EngineAssumption DEF Round, NoRound, NoMessage
  <2> QED BY <1>3, <1>5, <2>1 DEF HasMessage
<1> HIDE DEF e1, e2
<1>7. QuorumOf(e2, "prevote", e.round, v) => Stands(e4, w)
  BY <1>1, <1>5, <1>6, LockAndPrecommitStands, EngineAssumption
<1> HIDE DEF e3, e4
<1>8. CASE DoPropose(e, new) \in {Schedule(e2, "prevote"), e2}
  BY <1>5, <1>8, ScheduleStands DEF Step
<1>9. CASE /\ QuorumOf(e2, "prevote", e.round, v)
           /\ QuorumOf(e4, "precommit", e.round, v)
           /\ DoPropose(e, new) = EmitLocalFinalize(e4, e.round, v)
  BY <1>1, <1>7, <1>9, EmitLocalFinalizeStands
<1>10. CASE /\ QuorumOf(e2, "prevote", e.round, v)
            /\ DoPropose(e, new) = Schedule(e4, "precommit")
  BY <1>7, <1>10, ScheduleStands DEF Step
<1> QED BY <1>2, <1>8, <1>9, <1>10

\* on_propose for the current round, before finality.
LEMMA ProposalInRoundStands ==
    ASSUME NEW e, NEW w, Stands(e, w), World(w),
           w.ordinary => e.pending_finalized = None,
           NEW v \in Value, NEW vr \in Round \cup {NoRound},
           NEW valid \in BOOLEAN, NEW can \in BOOLEAN
    PROVE  Stands(ProposalInRound(e, v, vr, valid, can), w)
<1> DEFINE accept == valid /\ LockAllows(e, v, vr)
           ballot == IF accept THEN v ELSE Nil
           outs == {"cast", "same"}
           e1 == IF valid THEN CacheProposalMessage(e, v, e.round, vr) ELSE e
           e2 == SetStep(e1, "prevote")
           e3 == CastLocalVote(e2, "prevote", ballot)
           e4 == SetStep(TakeLock(RecordPolc(e3, e.round, v), v), "precommit")
           e5 == CastLocalVote(e4, "precommit", v)
           e6 == [e1 EXCEPT !.pending_prevote = ballot]
           e7 == CastAndSchedule(e2, "prevote", ballot, outs)
           out == ProposalInRound(e, v, vr, valid, can)
<1>1. /\ e \in EngineState /\ e.round \in Round /\ ballot \in Ballot /\ (accept => valid)
      /\ ballot # Nil => ballot = v /\ LockAllows(e, v, vr)
  BY EngineTypes DEF Stands, Fits, Ballot
<1>2. \/ out = e1
      \/ QuorumResult(e1, "precommit", v) /\ out = EmitLocalFinalize(e1, e.round, v)
      \/ e.step # "precommit" /\ e.votes["prevote"][e.round][Me] = None /\ out = e6
      \/ /\ e.step # "precommit" /\ accept /\ QuorumResult(e3, "prevote", v)
         /\ \/ QuorumOf(e5, "precommit", e.round, v) /\ out = EmitLocalFinalize(e5, e.round, v)
            \/ out = Schedule(e5, "precommit")
      \/ e.step # "precommit" /\ out = PrecommitNil(e7, can)
  BY DEF ProposalInRound
<1> HIDE DEF out, outs, ballot, accept
<1>3. Calm(e, e1) /\ (valid => HasMessage(e1, v, e.round))
  <2>1. CASE valid
    <3>1. Calm(e, e1) /\ e1.proposal_messages[v][e.round] = vr
      BY <1>1, <2>1, CacheProposalMessageCalm
    <3>2. vr # NoMessage
      BY EngineAssumption DEF Round, NoRound, NoMessage
    <3> HIDE DEF e1
    <3> QED BY <3>1, <3>2 DEF HasMessage
  <2>2. CASE ~valid
    BY <1>1, <2>2, CalmSelf
  <2> QED BY <2>1, <2>2
<1> HIDE DEF e1
<1>4. /\ Stands(e1, w) /\ e1.round = e.round /\ e1.step = e.step /\ e1.votes = e.votes
      /\ e1.pending_finalized = e.pending_finalized
      /\ e1.locked_round = e.locked_round /\ e1.locked_value = e.locked_value
      /\ e1.polc_by_round = e.polc_by_round
  BY <1>3, CalmStands DEF Calm, Aside, Around
<1>5. CASE out = e1
  BY <1>4, <1>5 DEF out
<1>6. CASE QuorumResult(e1, "precommit", v) /\ out = EmitLocalFinalize(e1, e.round, v)
  BY <1>1, <1>4, <1>6, EmitLocalFinalizeStands DEF QuorumResult, out
<1>7. CASE e.step # "precommit" /\ e.votes["prevote"][e.round][Me] = None /\ out = e6
  <2>1. w.ordinary => MayPrevote(e1, w, ballot)
    <3> SUFFICES ASSUME w.ordinary, ballot # Nil, NEW r0 \in Round, NEW v0 \in Value,
                        r0 < e1.round, v0 # ballot, Precommitted(e1, w, r0, v0)
                 PROVE  Freed(w, ballot, r0, e1.round)
      BY DEF MayPrevote
    <3>1. ballot = v /\ LockAllows(e1, v, vr)
      BY <1>1, <1>4 DEF LockAllows
    <3>2. Own(e1, "prevote", e1.round) = None /\ e1.pending_finalized = None
      BY <1>4, <1>7 DEF Own
    <3>3. Sound(e1, w) /\ Recorded(w)
      BY <1>4 DEF Stands, World
    <3> QED BY <1>4, <1>7, <3>1, <3>2, <3>3, LockAllowsFrees
  <2> QED BY <1>1, <1>4, <1>7, <2>1, PendingStands DEF out
<1>8. ASSUME e.step # "precommit"
      PROVE  /\ Stands(e3, w) /\ e3.step = "prevote" /\ e3.round = e.round
             /\ e3.proposal_messages = e1.proposal_messages
             /\ Stands(e7, w)
  BY <1>1, <1>4, <1>8, PrevoteStands, CastPrevoteStands
<1>9. CASE /\ e.step # "precommit" /\ accept /\ QuorumResult(e3, "prevote", v)
           /\ \/ QuorumOf(e5, "precommit", e.round, v) /\ out = EmitLocalFinalize(e5, e.round, v)
              \/ out = Schedule(e5, "precommit")
  <2>1. HasMessage(e3, v, e3.round) /\ QuorumOf(e3, "prevote", e3.round, v)
    BY <1>1, <1>3, <1>8, <1>9 DEF HasMessage, QuorumResult
  <2>2. Stands(e3, w) /\ e3.step # "precommit" /\ e3.round = e.round
    BY <1>8, <1>9
  <2> HIDE DEF e3
  <2>3. Stands(e5, w)
    BY <2>1, <2>2, LockAndPrecommitStands
  <2> HIDE DEF e4, e5
  <2> QED BY <1>1, <1>9, <2>3, EmitLocalFinalizeStands, ScheduleStands DEF Step, out
<1>10. CASE e.step # "precommit" /\ out = PrecommitNil(e7, can)
  <2> HIDE DEF e7
  <2> QED BY <1>8, <1>10, PrecommitNilStands DEF out
<1> QED BY <1>2, <1>5, <1>6, <1>7, <1>9, <1>10

\* on_propose.
LEMMA OnProposeStands ==
    ASSUME NEW e, NEW w, Stands(e, w), World(w),
           NEW r \in Round, NEW v \in Value, NEW vr \in Round \cup {NoRound},
           NEW valid \in BOOLEAN, NEW can \in BOOLEAN, NEW ready
    PROVE  Stands(OnPropose(e, r, v, vr, valid, can, ready), w)
<1> DEFINE f == NoteRound(e, r, Leader[r], ready)
<1>1. Leader[r] \in Validator
  BY EngineAssumption DEF Round
<1>2. Stands(f, w) /\ f.pending_finalized = e.pending_finalized
  BY <1>1, NoteRoundStands
<1>3. \/ OnPropose(e, r, v, vr, valid, can, ready) \in {e, f}
      \/ /\ ~e.finalized
         /\ OnPropose(e, r, v, vr, valid, can, ready) = ProposalInRound(f, v, vr, valid, can)
  BY DEF OnPropose
<1>4. (w.ordinary /\ ~e.finalized) => e.pending_finalized = None
  BY DEF Stands, Sound, FinalHeld
<1> HIDE DEF f
<1> QED BY <1>2, <1>3, <1>4, ProposalInRoundStands

\* learn_past_proposal.
LEMMA LearnPastProposalStands ==
    ASSUME NEW e, NEW w, Stands(e, w),
           NEW r \in Round, NEW v \in Value, NEW vr \in Round \cup {NoRound}, NEW valid
    PROVE  Stands(LearnPastProposal(e, r, v, vr, valid), w)
<1>1. e \in EngineState
  BY DEF Stands, Fits
<1>2. Stands(CacheProposalMessage(e, v, r, vr), w)
  BY <1>1, CacheProposalMessageCalm, CalmStands
<1> QED BY <1>2 DEF LearnPastProposal

-----------------------------------------------------------------------------
(* Votes of the others *)

\* learn_prevote behind add_vote: the POLC has the votes of the tables.
LEMMA LearnedPrevoteStands ==
    ASSUME NEW e, NEW w, Stands(e, w), World(w),
           NEW r \in Round, NEW p \in Validator, NEW b \in Ballot,
           p # Me => <<p, r, b>> \in w.known["prevote"],
           p = Me => w.log["prevote"][r] = b
    PROVE  LET f == LearnPrevote(AddVote(e, "prevote", r, p, b), r, p, b)
           IN  /\ Stands(f, w) /\ f.round = e.round /\ f.step = e.step
               /\ f.pending_finalized = e.pending_finalized
<1> DEFINE g == AddVote(e, "prevote", r, p, b)
           f == LearnPrevote(g, r, p, b)
<1>1. Stands(g, w) /\ Around(e, g)
  BY AddVoteStands DEF VoteType
<1> HIDE DEF g
<1>2. CASE f = g
  BY <1>1, <1>2 DEF Around, f, g
<1>3. CASE f # g
  <2>1. QuorumOf(g, "prevote", r, b) /\ f = RecordPolc(g, r, b)
    BY <1>3 DEF LearnPrevote
  <2>2. Backed(g, w, r, b)
    BY <1>1, <2>1, TablesCarry DEF Backed, Stands, Backs
  <2>3. Stands(f, w) /\ Aside(g, f)
    BY <1>1, <2>1, <2>2, RecordPolcStands
  <2> HIDE DEF f
  <2> QED BY <1>1, <2>3 DEF Aside, Around, f, g
<1> QED BY <1>2, <1>3

\* on_vote, a prevote quorum of the current round.
LEMMA PrevoteQuorumStands ==
    ASSUME NEW e, NEW w, Stands(e, w), World(w), NEW b \in Ballot, e.step = "prevote",
           QuorumOf(e, "prevote", e.round, b), NEW can
    PROVE  Stands(PrevoteQuorum(e, b, can), w)
<1> DEFINE outs == {"cast", "same", "deferred"}
           f == IF b = Nil THEN e ELSE TakeLock(e, b)
           g == SetStep(f, "precommit")
<1>1. PrevoteQuorum(e, b, can) =
        IF b # Nil /\ ~HasMessage(e, b, e.round) THEN e
        ELSE IF can THEN CastAndSchedule(g, "precommit", b, outs) ELSE f
  BY DEF PrevoteQuorum
<1> HIDE DEF outs
<1>2. CASE b = Nil
  <2>1. Stands(CastAndSchedule(g, "precommit", b, outs), w)
    BY <1>2, CastNilStands
  <2> QED BY <1>1, <1>2, <2>1
<1>3. CASE b # Nil /\ HasMessage(e, b, e.round)
  <2>1. b \in Value /\ e.round \in Round
    BY <1>3, EngineTypes DEF Ballot, Stands, Fits
  <2>2. Carried(e, w, e.round, b)
    BY <2>1, TablesCarry DEF Stands, Backs
  <2>3. Stands(f, w)
    BY <1>3, <2>1, <2>2, TakeLockStands
  <2>4. Stands(CastAndSchedule(SetStep(TakeLock(IF FALSE THEN RecordPolc(e, e.round, b) ELSE e, b),
                                       "precommit"), "precommit", b, outs), w)
    BY <1>3, <2>1, LockAndPrecommitStands
  <2>5. Stands(CastAndSchedule(g, "precommit", b, outs), w)
    BY <1>3, <2>4
  <2> QED BY <1>1, <1>3, <2>3, <2>5
<1> QED BY <1>1, <1>2, <1>3

\* on_vote, a prevote of the current round.
LEMMA PrevoteInRoundStands ==
    ASSUME NEW e, NEW w, Stands(e, w), World(w),
           NEW p \in Validator, NEW b \in Ballot, NEW can,
           p # Me => <<p, e.round, b>> \in w.known["prevote"],
           p = Me => w.log["prevote"][e.round] = b
    PROVE  Stands(PrevoteInRound(e, p, b, can), w)
<1> DEFINE f == LearnPrevote(AddVote(e, "prevote", e.round, p, b), e.round, p, b)
<1>1. e.round \in Round
  BY EngineTypes DEF Stands, Fits
<1>2. Stands(f, w) /\ f.round = e.round /\ f.step = e.step
  BY <1>1, LearnedPrevoteStands
<1>3. \/ PrevoteInRound(e, p, b, can) \in {f, Schedule(f, "prevote")}
      \/ /\ e.step = "prevote" /\ QuorumOf(f, "prevote", e.round, b)
         /\ PrevoteInRound(e, p, b, can) = PrevoteQuorum(f, b, can)
  BY DEF PrevoteInRound
<1> HIDE DEF f
<1> QED BY <1>2, <1>3, PrevoteQuorumStands, ScheduleStands DEF Step

\* A precommit joins the tables and may complete the quorum of its round.
LEMMA LearnedPrecommitStands ==
    ASSUME NEW e, NEW w, Stands(e, w), World(w),
           NEW r \in Round, NEW p \in Validator, NEW b \in Ballot,
           p # Me => <<p, r, b>> \in w.known["precommit"],
           p = Me => w.log["precommit"][r] = b
    PROVE  LET f == AddVote(e, "precommit", r, p, b)
           IN  /\ Stands(f, w)
               /\ HeaderKnown(f, b) /\ QuorumOf(f, "precommit", r, b) =>
                     Stands(EmitLocalFinalize(f, r, b), w)
<1> DEFINE f == AddVote(e, "precommit", r, p, b)
<1>1. Stands(f, w)
  BY AddVoteStands DEF VoteType
<1> HIDE DEF f
<1>2. HeaderKnown(f, b) => b \in Value
  BY DEF HeaderKnown, Ballot
<1> QED BY <1>1, <1>2, EmitLocalFinalizeStands DEF f

\* The tail of on_vote.
LEMMA AfterVoteStands ==
    ASSUME NEW e, NEW w, Stands(e, w)
    PROVE  Stands(AfterVote(e), w)
<1> DEFINE f == IF RoundWait /\ e.step = "prevote" THEN Schedule(e, "prevote") ELSE e
           g == SetStep(f, "precommit")
<1>1. Stands(f, w)
  BY ScheduleStands DEF Step
<1>2. AfterVote(e) \in {f, Schedule(g, "precommit")}
  BY DEF AfterVote
<1> HIDE DEF f
<1>3. Stands(g, w)
  BY <1>1, ToPrecommitStands
<1> HIDE DEF g
<1> QED BY <1>1, <1>2, <1>3, ScheduleStands DEF Step

\* on_vote: the vote of another exists, an own one is stored.
LEMMA OnVoteStands ==
    ASSUME NEW e, NEW w, Stands(e, w), World(w),
           NEW t \in VoteType, NEW r \in Round, NEW p \in Validator, NEW b \in Ballot,
           NEW can, NEW ready,
           p # Me => <<p, r, b>> \in w.known[t],
           p = Me => w.log[t][r] = b
    PROVE  Stands(OnVote(e, t, r, p, b, can, ready), w)
<1> DEFINE f == NoteRound(e, r, p, ready)
           out == OnVote(e, t, r, p, b, can, ready)
<1>1. Stands(f, w)
  BY NoteRoundStands
<1>2. \/ out = e
      \/ t = "prevote" /\ out = RecordHistoricalPrevote(e, r, p, b)
      \/ t = "precommit" /\ out = RecordHistoricalPrecommit(e, r, p, b, can)
      \/ out = f
      \/ r = f.round /\ t = "prevote" /\ out = AfterVote(PrevoteInRound(f, p, b, can))
      \/ r = f.round /\ t = "precommit" /\ out = AfterVote(PrecommitInRound(f, p, b, can))
  BY DEF OnVote, VoteType
<1> HIDE DEF f, out
<1>3. t = "prevote" => Stands(RecordHistoricalPrevote(e, r, p, b), w)
  BY LearnedPrevoteStands DEF RecordHistoricalPrevote
<1>4. t = "precommit" => Stands(RecordHistoricalPrecommit(e, r, p, b, can), w)
  <2> SUFFICES ASSUME t = "precommit"
               PROVE  Stands(RecordHistoricalPrecommit(e, r, p, b, can), w)
    OBVIOUS
  <2> DEFINE g == AddVote(e, "precommit", r, p, b)
  <2>1. /\ Stands(g, w)
        /\ HeaderKnown(g, b) /\ QuorumOf(g, "precommit", r, b) =>
              Stands(EmitLocalFinalize(g, r, b), w)
    BY LearnedPrecommitStands
  <2>2. \/ RecordHistoricalPrecommit(e, r, p, b, can) = g
        \/ /\ HeaderKnown(g, b) /\ QuorumOf(g, "precommit", r, b)
           /\ RecordHistoricalPrecommit(e, r, p, b, can) = EmitLocalFinalize(g, r, b)
    BY DEF RecordHistoricalPrecommit
  <2> HIDE DEF g
  <2> QED BY <2>1, <2>2
<1>5. r = f.round /\ t = "prevote" => Stands(PrevoteInRound(f, p, b, can), w)
  BY <1>1, PrevoteInRoundStands
<1>6. r = f.round /\ t = "precommit" => Stands(PrecommitInRound(f, p, b, can), w)
  <2> SUFFICES ASSUME r = f.round, t = "precommit"
               PROVE  Stands(PrecommitInRound(f, p, b, can), w)
    OBVIOUS
  <2> DEFINE g == AddVote(f, "precommit", r, p, b)
  <2>1. /\ Stands(g, w)
        /\ HeaderKnown(g, b) /\ QuorumOf(g, "precommit", r, b) =>
              Stands(EmitLocalFinalize(g, r, b), w)
    BY <1>1, LearnedPrecommitStands
  <2>2. \/ PrecommitInRound(f, p, b, can) = g
        \/ /\ HeaderKnown(g, b) /\ QuorumOf(g, "precommit", r, b)
           /\ PrecommitInRound(f, p, b, can) = EmitLocalFinalize(g, r, b)
    BY DEF PrecommitInRound
  <2> HIDE DEF g
  <2> QED BY <2>1, <2>2
<1>7. Stands(out, w)
  BY <1>1, <1>2, <1>3, <1>4, <1>5, <1>6, AfterVoteStands
<1> QED BY <1>7 DEF out

-----------------------------------------------------------------------------
\* on_timeout; the next round is in the bound.
LEMMA OnTimeoutStands ==
    ASSUME NEW e, NEW w, Stands(e, w), World(w), NEW t, NEW can \in BOOLEAN,
           TimeoutEndsRound(e, t, can) => e.round < MaxRound
    PROVE  Stands(OnTimeout(e, t, can), w)
<1> DEFINE two == {"cast", "same"}
           f == [e EXCEPT !.vote_timers = @ \ {t.step}]
           pre == CastAndSchedule(SetStep(e, "prevote"), "prevote", Nil, two)
           g == SetStep(e, "precommit")
           com == CastAndSchedule(g, "precommit", Nil, two)
           out == OnTimeout(e, t, can)
<1>1. e \in EngineState /\ e.round \in Round /\ Nil \in Ballot
  BY EngineTypes DEF Stands, Fits, Ballot
<1>2. \/ out \in {e, f, com, Schedule(e, "propose"), Schedule(g, "precommit")}
      \/ e.step = "propose" /\ out = PrecommitNil(pre, can)
      \/ TimeoutEndsRound(e, t, can) /\ out = StartRound(e, e.round + 1)
  BY DEF OnTimeout, TimerCurrent
<1> HIDE DEF out, two
<1>3. Stands(f, w)
  <2> DEFINE x == e.vote_timers \ {t.step}
  <2>1. x \in SUBSET Step
    BY <1>1 DEF EngineState
  <2>2. f = [e EXCEPT !.vote_timers = x]
    OBVIOUS
  <2>3. f.polc_by_round = e.polc_by_round /\ f.pending_prevote = e.pending_prevote
    BY <1>1 DEF EngineState
  <2> HIDE DEF x, f
  <2>4. Aside(e, f)
    BY <1>1, <2>1, <2>2, FieldsAside
  <2> QED BY <2>3, <2>4, CalmStands DEF Calm
<1>4. Stands(com, w)
  BY CastNilStands
<1>5. Stands(g, w)
  BY ToPrecommitStands
<1> HIDE DEF g
<1>6. Stands(Schedule(e, "propose"), w) /\ Stands(Schedule(g, "precommit"), w)
  BY <1>5, ScheduleStands DEF Step
<1>7. e.step = "propose" => Stands(PrecommitNil(pre, can), w)
  <2>1. e.step = "propose" => Stands(pre, w)
    BY <1>1, CastPrevoteStands, MayPrevoteNil
  <2> HIDE DEF pre
  <2> QED BY <2>1, PrecommitNilStands
<1>8. TimeoutEndsRound(e, t, can) => Stands(StartRound(e, e.round + 1), w)
  <2> SUFFICES ASSUME e.round < MaxRound PROVE Stands(StartRound(e, e.round + 1), w)
    OBVIOUS
  <2>1. e.round + 1 \in Round /\ e.round + 1 >= e.round /\ e.round + 1 # e.round
    BY <1>1, EngineAssumption DEF Round
  <2> QED BY <2>1, StartRoundStands
<1>9. Stands(out, w)
  <2> HIDE DEF f, com, pre
  <2> QED BY <1>2, <1>3, <1>4, <1>6, <1>7, <1>8
<1> QED BY <1>9 DEF out

\* The timer that fires is no longer on the clock.
LEMMA ArmedStands ==
    ASSUME NEW e, NEW w, Stands(e, w), NEW a \in BOOLEAN
    PROVE  LET f == [e EXCEPT !.armed = a]
           IN  Stands(f, w) /\ f.round = e.round
<1> DEFINE f == [e EXCEPT !.armed = a]
<1>1. e \in EngineState
  BY DEF Stands, Fits
<1>2. /\ f.polc_by_round = e.polc_by_round /\ f.pending_prevote = e.pending_prevote
      /\ f.round = e.round
  BY <1>1 DEF EngineState
<1>3. Aside(e, f)
  BY <1>1, FieldsAside
<1> HIDE DEF f
<1>4. Stands(f, w)
  BY <1>2, <1>3, CalmStands DEF Calm
<1> QED BY <1>2, <1>4 DEF f

\* accept_finalize_batch: the certificate backs the lock it moves, and the
\* finality; a lock that stays ahead of it is on the same value.
LEMMA AcceptFinalizeStands ==
    ASSUME NEW e, NEW w, Stands(e, w), World(w), NEW r \in Round, NEW v \in Value,
           Cert(w, "precommit", r, v)
    PROVE  Stands(AcceptFinalizeBatch(e, r, v), w)
<1> DEFINE top == IF e.locked_round > r THEN e.locked_round ELSE r
           e0 == CacheProposalHeaderOnly(e, v)
           e1 == RecordPolc(e0, r, v)
           f == [e1 EXCEPT !.locked_round = top, !.locked_value = v,
                           !.valid_round = top, !.valid_value = v]
           g == EmitFinalized(f, r, v, FALSE)
<1>1. AcceptFinalizeBatch(e, r, v) =
        IF e.finalized \/ (e.locked_value \notin {None, v} /\ r <= e.locked_round)
        THEN e ELSE g
  BY DEF AcceptFinalizeBatch
<1>2. CASE e.finalized \/ (e.locked_value \notin {None, v} /\ r <= e.locked_round)
  BY <1>1, <1>2
<1>3. CASE ~(e.finalized \/ (e.locked_value \notin {None, v} /\ r <= e.locked_round))
  <2>1. /\ e \in EngineState /\ top \in Round /\ r \in Int
        /\ e.locked_round \in Int /\ w.log \in LogTable
        /\ top = r \/ (e.locked_round >= 0 /\ e.locked_round > r /\ top = e.locked_round)
    <3>1. e \in EngineState /\ w.log \in LogTable
      BY DEF Stands, Fits, World
    <3> QED BY <3>1, EngineTypes DEF Round, NoRound
  <2>2. Fits(g, w.log, w.saves)
    BY <1>1, <1>3, <2>1, AcceptFinalizeFits DEF Stands
  <2>3. Backed(e, w, top, v)
    <3>1. CASE top = r
      BY <3>1 DEF Backed
    <3>2. CASE e.locked_round >= 0 /\ e.locked_round > r /\ top = e.locked_round
      <4>1. e.locked_value = v
        BY <1>3, <2>1, <3>2, NoneIsNoBallot DEF Stands, Fits, LockKnown
      <4> QED BY <3>2, <4>1 DEF Stands, Backs, LockBacked
    <3> QED BY <2>1, <3>1, <3>2
  <2> HIDE DEF top
  <2>4. Stands(e0, w) /\ e0 \in EngineState /\ Calm(e, e0)
    BY <2>1, CacheHeaderCalm, CalmStands DEF Calm, Aside, Around
  <2> HIDE DEF e0
  <2>5. Stands(e1, w) /\ Aside(e0, e1) /\ e1.pending_prevote = e0.pending_prevote
    BY <2>4, RecordPolcStands DEF Backed, Ballot
  <2> HIDE DEF e1
  <2>6. e1 \in EngineState /\ e1.votes = e.votes /\ e1.finalized = e.finalized
    BY <2>4, <2>5 DEF Calm, Aside, Around
  <2> DEFINE m == [kind |-> "finalize", round |-> r, ballot |-> v, own |-> FALSE]
  <2>7. m \in FinalizeMessage /\ m.round = r /\ m.ballot = v /\ m.own = FALSE
    BY DEF FinalizeMessage
  <2>8. /\ f \in EngineState /\ f.round = e1.round /\ f.step = e1.step
        /\ f.votes = e1.votes /\ f.outputs = e1.outputs
        /\ f.polc_by_round = e1.polc_by_round /\ f.pending_prevote = e1.pending_prevote
        /\ f.proposal_messages = e1.proposal_messages
        /\ f.finalized = e1.finalized /\ f.pending_finalized = e1.pending_finalized
        /\ f.locked_round = top /\ f.locked_value = v
    BY <2>1, <2>6 DEF EngineState
  <2>9. g = IF f.pending_finalized # None THEN f
            ELSE [f EXCEPT !.finalized = TRUE, !.pending_finalized = m]
    <3>1. (FALSE /\ f.votes["precommit"][r][Me] = v) = FALSE
      OBVIOUS
    <3>2. [f EXCEPT !.finalized = TRUE, !.pending_finalized = m, !.outputs = @] =
            [f EXCEPT !.finalized = TRUE, !.pending_finalized = m]
      <4> HIDE DEF m, f
      <4> QED BY <2>8 DEF EngineState
    <3> HIDE DEF f
    <3> QED BY <3>1, <3>2 DEF EmitFinalized
  <2> HIDE DEF m, f
  <2>10. /\ g.round = e1.round /\ g.step = e1.step
         /\ g.votes = e1.votes /\ g.outputs = e1.outputs
         /\ g.polc_by_round = e1.polc_by_round /\ g.pending_prevote = e1.pending_prevote
         /\ g.proposal_messages = e1.proposal_messages
         /\ g.locked_round = top /\ g.locked_value = v
         /\ IF e1.pending_finalized # None
            THEN g.pending_finalized = e1.pending_finalized
            ELSE g.pending_finalized = m /\ g.finalized = TRUE
    <3>1. CASE f.pending_finalized # None
      BY <2>8, <2>9, <3>1
    <3>2. CASE f.pending_finalized = None
      <4>1. g = [f EXCEPT !.finalized = TRUE, !.pending_finalized = m]
        BY <2>9, <3>2
      <4> HIDE DEF g
      <4> QED BY <2>8, <3>2, <4>1 DEF EngineState
    <3> QED BY <3>1, <3>2
  <2> HIDE DEF g
  <2>11. \A t, s : Own(g, t, s) = Own(e1, t, s) /\ Own(g, t, s) = Own(e, t, s)
    BY <2>6, <2>10 DEF Own
  <2>12. \A s, x : /\ Carried(e1, w, s, x) => Carried(g, w, s, x)
                   /\ Carried(e, w, s, x) => Carried(g, w, s, x)
    BY <2>11 DEF Carried
  <2>13. \A s, x : /\ Backed(e1, w, s, x) => Backed(g, w, s, x)
                   /\ Backed(e, w, s, x) => Backed(g, w, s, x)
    BY <2>12 DEF Backed
  <2>14. VotesExist(g, w) /\ PolcsBacked(g, w) /\ PrecommitsBacked(g, w)
    BY <2>5, <2>10, <2>11, <2>12, <2>13
    DEF Stands, Backs, VotesExist, PolcsBacked, PrecommitsBacked
  <2>15. LockBacked(g, w)
    BY <2>3, <2>10, <2>13 DEF LockBacked
  <2>16. FinalBacked(g, w)
    <3>1. CASE e1.pending_finalized # None
      BY <2>5, <2>10, <3>1 DEF Stands, Backs, FinalBacked
    <3>2. CASE e1.pending_finalized = None
      BY <2>7, <2>10, <3>2 DEF FinalBacked, Cert
    <3> QED BY <3>1, <3>2
  <2>17. ASSUME w.ordinary PROVE Sound(g, w)
    <3>1. Sound(e1, w) /\ e1.pending_finalized = None
      BY <1>3, <2>5, <2>6, <2>17 DEF Stands, Sound, FinalHeld
    <3>2. g.pending_finalized = m /\ g.finalized = TRUE /\ m # None
      BY <2>7, <2>10, <3>1, NoneAssumption
    <3>3. \A i \in DOMAIN e1.outputs : e1.outputs[i].kind # "finalize"
      <4> SUFFICES ASSUME NEW i \in DOMAIN e1.outputs, e1.outputs[i].kind = "finalize"
                   PROVE  FALSE
        OBVIOUS
      <4>1. e1.outputs[i] \in Output
        BY <2>6 DEF EngineState
      <4>2. e1.outputs[i] \in FinalizeMessage
        BY <4>1 DEF Output, LocalVote
      <4> QED BY <3>1, <4>2, NoneAssumption DEF Sound, FinalHeld
    <3>4. LocksKept(g, w)
      BY <2>10, <2>11, <3>1 DEF Sound, LocksKept, Prevoted, Precommitted
    <3>5. LockBelow(g) /\ Stepped(g) /\ KnownPrevotes(g, w)
      BY <2>10, <2>11, <3>1, <3>2 DEF Sound, LockBelow, Stepped, KnownPrevotes
    <3>6. FinalHeld(g) /\ InOrder(g)
      BY <2>7, <2>10, <3>2, <3>3 DEF FinalHeld, InOrder
    <3>7. MessagesHeld(g)
      BY <2>10, <3>1 DEF Sound, MessagesHeld, HasMessage
    <3>8. Settled(g, w)
      BY <2>10, <2>11, <3>1 DEF Sound, Settled
    <3> QED BY <3>4, <3>5, <3>6, <3>7, <3>8 DEF Sound
  <2>18. Stands(g, w)
    BY <2>2, <2>14, <2>15, <2>16, <2>17 DEF Stands, Backs
  <2> QED BY <1>1, <1>3, <2>18
<1> QED BY <1>2, <1>3

-----------------------------------------------------------------------------
(* The world grows *)

\* More votes exist; an own one among them stands in the tables.
LEMMA StandsGrow ==
    ASSUME NEW e, NEW w, NEW x, Stands(e, w), Fits(e, x.log, x.saves),
           x.ordinary = w.ordinary,
           w.ordinary => w.settled \subseteq x.settled,
           \A t \in VoteType : w.known[t] \subseteq x.known[t],
           w.ordinary => \A t \in VoteType, r \in Round, b \in Ballot :
               <<Me, r, b>> \in x.known[t] =>
                   <<Me, r, b>> \in w.known[t] \/ Own(e, t, r) = b
    PROVE  Stands(e, x)
<1>1. "prevote" \in VoteType /\ "precommit" \in VoteType /\ \A v \in Value : v \in Ballot
  BY DEF VoteType, Ballot
<1>2. \A t \in VoteType : \A r, v : Cert(w, t, r, v) => Cert(x, t, r, v)
  BY DEF Cert
<1>3. \A r, v : Carried(e, w, r, v) => Carried(e, x, r, v)
  BY <1>1 DEF Carried
<1>4. \A r, v : Backed(e, w, r, v) => Backed(e, x, r, v)
  BY <1>1, <1>2, <1>3 DEF Backed
<1>5. Backs(e, x)
  <2>1. VotesExist(e, x)
    BY DEF Stands, Backs, VotesExist
  <2>2. PolcsBacked(e, x) /\ LockBacked(e, x) /\ PrecommitsBacked(e, x)
    BY <1>3, <1>4 DEF Stands, Backs, PolcsBacked, LockBacked, PrecommitsBacked
  <2>3. FinalBacked(e, x)
    BY <1>1 DEF Stands, Backs, FinalBacked
  <2> QED BY <2>1, <2>2, <2>3 DEF Backs
<1>6. ASSUME w.ordinary PROVE Sound(e, x)
  <2>1. Sound(e, w)
    BY <1>6 DEF Stands
  <2>2. \A r \in Round, v \in Value :
           /\ Prevoted(e, x, r, v) => Prevoted(e, w, r, v)
           /\ Precommitted(e, x, r, v) => Precommitted(e, w, r, v)
    BY <1>1, <1>6 DEF Prevoted, Precommitted
  <2>3. \A v, lo, hi : Freed(w, v, lo, hi) => Freed(x, v, lo, hi)
    BY <1>1, <1>2 DEF Freed
  <2>4. LocksKept(e, x)
    BY <2>1, <2>2, <2>3 DEF Sound, LocksKept
  <2>5. KnownPrevotes(e, x)
    BY <1>1, <1>6, <2>1 DEF Sound, KnownPrevotes
  <2>6. Settled(e, x)
    BY <1>6, <2>1 DEF Sound, Settled
  <2> QED BY <2>1, <2>4, <2>5, <2>6 DEF Sound
<1> QED BY <1>5, <1>6 DEF Stands

-----------------------------------------------------------------------------
(* Which votes count *)

\* The votes of the others are the same.
OthersKept(e, f) ==
    /\ f \in EngineState
    /\ \A t \in VoteType, r \in Round, p \in Validator \ {Me} :
          f.votes[t][r][p] = e.votes[t][r][p]

\* set_step leaves the tables alone.
LEMMA SetStepKeeps ==
    ASSUME NEW e \in EngineState, NEW step \in Step
    PROVE  SetStep(e, step) \in EngineState /\ SetStep(e, step).votes = e.votes
<1> DEFINE a == (e.armed /\ e.step = step)
           f == SetStep(e, step)
<1>1. f = [e EXCEPT !.step = step, !.armed = a]
  BY DEF SetStep
<1>2. a \in BOOLEAN
  BY DEF EngineState
<1> HIDE DEF a, f
<1>3. f \in EngineState /\ f.votes = e.votes
  BY <1>1, <1>2 DEF EngineState
<1> QED BY <1>3 DEF f

\* The tail of on_vote leaves the tables alone.
LEMMA AfterVoteKeeps ==
    ASSUME NEW e \in EngineState
    PROVE  AfterVote(e) \in EngineState /\ AfterVote(e).votes = e.votes
<1> DEFINE f == IF RoundWait /\ e.step = "prevote" THEN Schedule(e, "prevote") ELSE e
           g == SetStep(f, "precommit")
<1>1. f \in EngineState /\ f.votes = e.votes
  BY ScheduleAside DEF Step, Aside, Around
<1>2. AfterVote(e) \in {f, Schedule(g, "precommit")}
  BY DEF AfterVote
<1> HIDE DEF f
<1>3. g \in EngineState /\ g.votes = f.votes
  BY <1>1, SetStepKeeps DEF Step
<1> HIDE DEF g
<1>4. Schedule(g, "precommit") \in EngineState /\ Schedule(g, "precommit").votes = g.votes
  BY <1>3, ScheduleAside DEF Step, Aside, Around
<1> QED BY <1>1, <1>2, <1>3, <1>4

\* emit_local_finalize leaves the tables alone.
LEMMA EmitLocalFinalizeKeeps ==
    ASSUME NEW e \in EngineState, NEW r \in Round, NEW v \in Value
    PROVE  /\ EmitLocalFinalize(e, r, v).votes = e.votes
           /\ EmitLocalFinalize(e, r, v) \in EngineState
<1> DEFINE m == [kind |-> "finalize", round |-> r, ballot |-> v,
                 own |-> TRUE /\ e.votes["precommit"][r][Me] = v]
           q == Append(e.outputs, m)
           f == EmitLocalFinalize(e, r, v)
<1>1. m \in FinalizeMessage /\ m \in Output
  BY DEF FinalizeMessage, Output
<1>2. \/ f = e
      \/ f = [e EXCEPT !.finalized = TRUE, !.pending_finalized = m, !.outputs = q]
  BY DEF EmitLocalFinalize, EmitFinalized
<1>3. q \in Seq(Output)
  <2> HIDE DEF m
  <2> QED BY <1>1 DEF EngineState
<1> HIDE DEF m, q, f
<1>4. CASE f = e
  BY <1>4 DEF f
<1>5. CASE f = [e EXCEPT !.finalized = TRUE, !.pending_finalized = m, !.outputs = q]
  <2>1. f \in EngineState /\ f.votes = e.votes
    BY <1>1, <1>3, <1>5 DEF EngineState
  <2> QED BY <2>1 DEF f
<1> QED BY <1>2, <1>4, <1>5

\* The prevote quorum adds no vote but our own.
LEMMA PrevoteQuorumKeeps ==
    ASSUME NEW e \in EngineState, NEW b \in Ballot, NEW can
    PROVE  OthersKept(e, PrevoteQuorum(e, b, can))
<1> DEFINE outs == {"cast", "same", "deferred"}
           f == IF b = Nil THEN e ELSE TakeLock(e, b)
           g == SetStep(f, "precommit")
           h == CastLocalVote(g, "precommit", b)
<1>1. PrevoteQuorum(e, b, can) \in {e, f, h, Schedule(h, "precommit")}
  BY DEF PrevoteQuorum, CastAndSchedule
<1>2. f \in EngineState /\ f.votes = e.votes
  BY DEF TakeLock, EngineState, Ballot
<1> HIDE DEF f
<1>3. g \in EngineState /\ g.votes = f.votes
  BY <1>2, SetStepKeeps DEF Step
<1> HIDE DEF g
<1>4. h \in EngineState
  <2> DEFINE vote == [kind |-> "vote", type |-> "precommit", round |-> g.round, ballot |-> b]
             a == AddVote(g, "precommit", g.round, Me, b)
             q == Append(a.outputs, vote)
  <2>1. g.round \in Round /\ Me \in Validator
    BY <1>3, EngineTypes, EngineAssumption
  <2>2. vote \in Output
    BY <2>1 DEF Output, LocalVote, VoteType
  <2>3. a \in EngineState
    BY <1>3, <2>1, AddVoteEffect DEF Around, VoteType
  <2>4. h = g \/ h = [a EXCEPT !.outputs = q]
    BY DEF CastLocalVote, LocalBallot
  <2> HIDE DEF a, vote, h
  <2>5. q \in Seq(Output)
    BY <2>2, <2>3 DEF EngineState
  <2> HIDE DEF q
  <2>6. CASE h = [a EXCEPT !.outputs = q]
    BY <2>3, <2>5, <2>6 DEF EngineState
  <2> QED BY <1>3, <2>4, <2>6
<1>5. \A t \in VoteType, r \in Round, p \in Validator \ {Me} :
         h.votes[t][r][p] = g.votes[t][r][p]
  <2>1. h = g \/ \A u \in VoteType, s \in Round, q \in Validator :
                    h.votes[u][s][q] =
                       IF u = "precommit" /\ s = g.round /\ q = Me THEN b
                       ELSE g.votes[u][s][q]
    BY <1>3, PrecommitEffect
  <2> HIDE DEF h
  <2> QED BY <2>1
<1> HIDE DEF h
<1>6. Schedule(h, "precommit") \in EngineState /\ Schedule(h, "precommit").votes = h.votes
  BY <1>4, ScheduleAside DEF Step, Aside, Around
<1> QED BY <1>1, <1>2, <1>3, <1>4, <1>5, <1>6 DEF OthersKept

\* A vote of another that the handler takes up stands in the tables behind it;
\* one that it does not take up is no more than a report of its round.
LEMMA OnVoteCounts ==
    ASSUME NEW e \in EngineState, NEW t \in VoteType, NEW r \in Round,
           NEW p \in Validator \ {Me}, NEW b \in Ballot, NEW can, NEW ready,
           e.votes[t][r][p] \in {None, b},
           NoteRound(e, r, p, ready) \in EngineState,
           NoteRound(e, r, p, ready).votes[t][r][p] \in {None, b}
    PROVE  LET out == OnVote(e, t, r, p, b, can, ready)
           IN  \/ out = e \/ out = NoteRound(e, r, p, ready)
               \/ out.votes[t][r][p] = b
<1> DEFINE f == NoteRound(e, r, p, ready)
           out == OnVote(e, t, r, p, b, can, ready)
<1>1. \/ out = e
      \/ t = "prevote" /\ out = RecordHistoricalPrevote(e, r, p, b)
      \/ t = "precommit" /\ out = RecordHistoricalPrecommit(e, r, p, b, can)
      \/ out = f
      \/ r = f.round /\ t = "prevote" /\ out = AfterVote(PrevoteInRound(f, p, b, can))
      \/ r = f.round /\ t = "precommit" /\ out = AfterVote(PrecommitInRound(f, p, b, can))
  BY DEF OnVote, VoteType
<1> HIDE DEF f, out
<1>2. ASSUME NEW d \in EngineState, d.votes[t][r][p] \in {None, b}
      PROVE  LET a == AddVote(d, t, r, p, b)
             IN  a \in EngineState /\ a.votes[t][r][p] = b
  BY <1>2, AddVoteEffect DEF Around
<1>3. ASSUME NEW d \in EngineState, d.votes[t][r][p] \in {None, b}, t = "prevote"
      PROVE  LET a == LearnPrevote(AddVote(d, "prevote", r, p, b), r, p, b)
             IN  a \in EngineState /\ a.votes[t][r][p] = b
  <2> DEFINE a == AddVote(d, "prevote", r, p, b)
  <2>1. a \in EngineState /\ a.votes[t][r][p] = b
    BY <1>2, <1>3
  <2> HIDE DEF a
  <2>2. Aside(a, LearnPrevote(a, r, p, b))
    BY <2>1, LearnPrevoteAside
  <2> QED BY <2>1, <2>2 DEF Aside, Around, a
<1>4. ASSUME NEW d \in EngineState, d.votes[t][r][p] \in {None, b}, t = "precommit"
      PROVE  LET a == AddVote(d, "precommit", r, p, b)
             IN  /\ a \in EngineState /\ a.votes[t][r][p] = b
                 /\ HeaderKnown(a, b) => /\ EmitLocalFinalize(a, r, b) \in EngineState
                                         /\ EmitLocalFinalize(a, r, b).votes[t][r][p] = b
  <2> DEFINE a == AddVote(d, "precommit", r, p, b)
  <2>1. a \in EngineState /\ a.votes[t][r][p] = b
    BY <1>2, <1>4
  <2> HIDE DEF a
  <2>2. HeaderKnown(a, b) => b \in Value
    BY DEF HeaderKnown, Ballot
  <2> QED BY <2>1, <2>2, EmitLocalFinalizeKeeps DEF a
<1>5. CASE t = "prevote" /\ out = RecordHistoricalPrevote(e, r, p, b)
  BY <1>3, <1>5 DEF out, RecordHistoricalPrevote
<1>6. CASE t = "precommit" /\ out = RecordHistoricalPrecommit(e, r, p, b, can)
  BY <1>4, <1>6 DEF out, RecordHistoricalPrecommit
<1>7. CASE r = f.round /\ t = "prevote" /\ out = AfterVote(PrevoteInRound(f, p, b, can))
  <2> DEFINE a == LearnPrevote(AddVote(f, "prevote", r, p, b), r, p, b)
             z == PrevoteInRound(f, p, b, can)
  <2>1. a \in EngineState /\ a.votes[t][r][p] = b
    BY <1>3, <1>7 DEF f
  <2>2. z \in {a, Schedule(a, "prevote"), PrevoteQuorum(a, b, can)}
    BY <1>7 DEF PrevoteInRound
  <2> HIDE DEF a
  <2>3. Schedule(a, "prevote") \in EngineState /\ Schedule(a, "prevote").votes = a.votes
    BY <2>1, ScheduleAside DEF Step, Aside, Around
  <2>4. OthersKept(a, PrevoteQuorum(a, b, can))
    BY <2>1, PrevoteQuorumKeeps
  <2> HIDE DEF z
  <2>5. z \in EngineState /\ z.votes[t][r][p] = b
    BY <2>1, <2>2, <2>3, <2>4 DEF OthersKept
  <2>6. out.votes[t][r][p] = b
    BY <1>7, <2>5, AfterVoteKeeps DEF z
  <2> QED BY <2>6 DEF out
<1>8. CASE r = f.round /\ t = "precommit" /\ out = AfterVote(PrecommitInRound(f, p, b, can))
  <2> DEFINE z == PrecommitInRound(f, p, b, can)
  <2>1. z \in EngineState /\ z.votes[t][r][p] = b
    BY <1>4, <1>8 DEF f, PrecommitInRound
  <2> HIDE DEF z
  <2>2. out.votes[t][r][p] = b
    BY <1>8, <2>1, AfterVoteKeeps DEF z
  <2> QED BY <2>2 DEF out
<1> QED BY <1>1, <1>5, <1>6, <1>7, <1>8 DEF f, out

-----------------------------------------------------------------------------
(* The outputs and the height *)

\* realign_round takes away the votes of the round it opens.
LEMMA RealignVotes ==
    ASSUME NEW e \in EngineState, NEW r \in Round,
           NEW t \in VoteType, NEW s \in Round, NEW q \in Validator
    PROVE  RealignRound(e, r).votes[t][s][q] \in {None, e.votes[t][s][q]}
<1> DEFINE n == e.generation + 1
           h == [e EXCEPT !.generation = n]
<1>1. n \in Nat
  BY EngineTypes
<1>2. RealignRound(e, r) = StartRound(h, r)
  BY DEF RealignRound
<1> HIDE DEF n
<1>3. h \in EngineState /\ h.votes = e.votes
  BY <1>1 DEF EngineState
<1> HIDE DEF h
<1> DEFINE f == StartRound(h, r)
<1>4. f.votes[t][s][q] = IF s = r THEN None ELSE h.votes[t][s][q]
  BY <1>3, StartRoundEffect
<1> HIDE DEF f
<1> QED BY <1>2, <1>3, <1>4 DEF f

\* A message of a later round takes votes away only by a skip to its round.
LEMMA NoteRoundKeeps ==
    ASSUME NEW e \in EngineState, NEW r \in Round, NEW p \in Validator, NEW ready,
           NEW t \in VoteType, NEW s \in Round, NEW q \in Validator
    PROVE  NoteRound(e, r, p, ready).votes[t][s][q] \in {None, e.votes[t][s][q]}
<1> DEFINE f == RecordHigherRound(e, r, p, MaxRoundAhead)
           w == [x \in Validator |-> NoRound]
           g == [f EXCEPT !.higher_round_evidence = w]
           m == Max(RoundSkipTargets(f))
<1>1. f \in EngineState /\ f.votes = e.votes
  BY RecordHigherRoundAside DEF Aside, Around
<1>2. NoteRound(e, r, p, ready) \in {e, TryRoundSkip(f, ready)}
  BY DEF NoteRound
<1> HIDE DEF f
<1>3. g \in EngineState /\ g.votes = f.votes
  <2>1. w \in [Validator -> Int]
    BY DEF NoRound
  <2> HIDE DEF w
  <2> QED BY <1>1, <2>1, FieldsAside DEF Aside, Around
<1>4. RoundSkipTargets(f) # {} => m \in Round
  <2>1. RoundSkipTargets(f) \in SUBSET Round
    BY DEF RoundSkipTargets
  <2> QED BY <2>1, MaxRoundOf
<1>5. \/ TryRoundSkip(f, ready) = f
      \/ RoundSkipTargets(f) # {} /\ TryRoundSkip(f, ready) = RealignRound(g, m)
  BY DEF TryRoundSkip
<1> HIDE DEF g, m
<1>6. m \in Round => RealignRound(g, m).votes[t][s][q] \in {None, g.votes[t][s][q]}
  BY <1>3, RealignVotes
<1> QED BY <1>1, <1>2, <1>3, <1>4, <1>5, <1>6

\* Other outputs: what backs the engine does not look at them.
LEMMA OutputsBack ==
    ASSUME NEW e, NEW w, Backs(e, w), e \in EngineState, NEW q \in Seq(Output)
    PROVE  Backs([e EXCEPT !.outputs = q], w)
<1> DEFINE f == [e EXCEPT !.outputs = q]
<1>1. /\ f.votes = e.votes /\ f.polc_by_round = e.polc_by_round
      /\ f.locked_round = e.locked_round /\ f.locked_value = e.locked_value
      /\ f.pending_finalized = e.pending_finalized
  BY DEF EngineState
<1> HIDE DEF f
<1>2. Backs(f, w)
  BY <1>1, BacksSame
<1> QED BY <1>2 DEF f

\* start_height in the height it is already in; its outputs are dropped.
LEMMA StartSameHeightStands ==
    ASSUME NEW e, NEW w, Stands(e, w), World(w), ResumeRound(e) \in Round,
           w.ordinary => e.outputs = <<>>
    PROVE  Stands(StartSameHeight(e), w)
<1> DEFINE n == e.generation + 1
           x == [p \in Validator |-> NoRound]
           r == ResumeRound(e)
           g == [e EXCEPT !.generation = n, !.outputs = <<>>, !.higher_round_evidence = x]
<1>1. e \in EngineState /\ n \in Nat /\ x \in [Validator -> Int] /\ <<>> \in Seq(Output)
  <2>1. e \in EngineState
    BY DEF Stands, Fits
  <2> QED BY <2>1, EngineTypes DEF NoRound
<1>2. StartSameHeight(e) = StartRound(g, r)
  BY DEF StartSameHeight
<1>3. r \in Round /\ r >= e.round /\ r > e.locked_round
      /\ \A t \in VoteType, s \in Round : Own(e, t, s) # None => s < r
  BY <1>1, ResumeRoundBehind
<1> HIDE DEF n, x, r
<1>4. /\ g \in EngineState /\ g.round = e.round /\ g.step = e.step
      /\ g.votes = e.votes /\ g.outputs = <<>>
      /\ g.locked_round = e.locked_round /\ g.locked_value = e.locked_value
      /\ g.valid_round = e.valid_round /\ g.valid_value = e.valid_value
      /\ g.pending_finalized = e.pending_finalized /\ g.finalized = e.finalized
      /\ g.pending_prevote = e.pending_prevote
      /\ g.polc_by_round = e.polc_by_round
      /\ g.proposal_messages = e.proposal_messages
  BY <1>1 DEF EngineState
<1> HIDE DEF g
<1>5. /\ NothingAhead(g, w.log) /\ TablesFitLog(g, w.log) /\ StepFits(g)
      /\ SavesHeld(g, w.saves)
      /\ LockCovers(g, w.log) /\ LockKnown(g) /\ ValidKnown(g)
  BY <1>4 DEF Stands, Fits, NothingAhead, TablesFitLog, StepFits, SavesHeld, LockCovers,
              LockKnown, ValidKnown, HasMessage, Own
<1>6. OutputsHeld(g)
  BY <1>4 DEF OutputsHeld
<1>7. Fits(g, w.log, w.saves)
  BY <1>4, <1>5, <1>6 DEF Fits
<1>8. Backs(g, w)
  BY <1>4, BacksSame DEF Stands
<1>9. w.ordinary => Sound(g, w)
  <2> SUFFICES ASSUME w.ordinary PROVE Sound(g, w)
    OBVIOUS
  <2>1. Sound(e, w) /\ e.outputs = <<>>
    BY DEF Stands
  <2>2. \A v \in Value, s \in Round : HasMessage(e, v, s) => HasMessage(g, v, s)
    BY <1>4 DEF HasMessage
  <2> QED BY <1>4, <2>1, <2>2, SoundSame
<1>10. Stands(g, w)
  BY <1>7, <1>8, <1>9 DEF Stands
<1>11. \A t \in VoteType : Own(g, t, r) = None
  <2> SUFFICES ASSUME NEW t \in VoteType, Own(g, t, r) # None PROVE FALSE
    OBVIOUS
  <2>1. r < r
    BY <1>3, <1>4 DEF Own
  <2> QED BY <1>3, <2>1 DEF Round
<1>12. r >= g.round /\ g.locked_round < r
  <2>1. e.locked_round \in Int /\ r \in Int
    BY <1>1, <1>3, EngineTypes DEF Round
  <2> QED BY <1>3, <1>4, <2>1
<1>13. Stands(StartRound(g, r), w)
  BY <1>3, <1>10, <1>11, <1>12, StartRoundStands
<1> QED BY <1>2, <1>13

\* The outputs behind the first k are dropped, every precommit among them settled.
LEMMA PrefixSound ==
    ASSUME NEW e \in EngineState, NEW w, Sound(e, w), NEW k \in 0 .. Len(e.outputs),
           \A i \in DOMAIN e.outputs, r \in Round, v \in Value :
               (i > k /\ IsPrecommit(e.outputs[i], r, v)) => <<r, v>> \in w.settled
    PROVE  Sound([e EXCEPT !.outputs = SubSeq(e.outputs, 1, k)], w)
<1> DEFINE q == SubSeq(e.outputs, 1, k)
           f == [e EXCEPT !.outputs = q]
<1>1. e.outputs \in Seq(Output)
  BY EngineTypes
<1>2. /\ DOMAIN q = 1 .. k
      /\ \A i \in DOMAIN q : i \in DOMAIN e.outputs /\ q[i] = e.outputs[i]
      /\ \A i \in DOMAIN e.outputs : i > k \/ i \in DOMAIN q
  BY <1>1
<1> HIDE DEF q
<1>3. /\ f.outputs = q /\ f.votes = e.votes /\ f.round = e.round /\ f.step = e.step
      /\ f.locked_round = e.locked_round
      /\ f.pending_finalized = e.pending_finalized /\ f.finalized = e.finalized
      /\ f.pending_prevote = e.pending_prevote
      /\ f.proposal_messages = e.proposal_messages
  BY DEF EngineState
<1> HIDE DEF f
<1>4. \A t, r : Own(f, t, r) = Own(e, t, r)
  BY <1>3 DEF Own
<1>5. LocksKept(f, w) /\ KnownPrevotes(f, w)
  BY <1>3, <1>4 DEF Sound, LocksKept, KnownPrevotes, Prevoted, Precommitted
<1>6. LockBelow(f) /\ Stepped(f)
  BY <1>3, <1>4 DEF Sound, LockBelow, Stepped
<1>7. FinalHeld(f)
  BY <1>2, <1>3, <1>4 DEF Sound, FinalHeld
<1>8. InOrder(f)
  BY <1>2, <1>3 DEF Sound, InOrder
<1>9. MessagesHeld(f)
  BY <1>2, <1>3 DEF Sound, MessagesHeld, HasMessage
<1>10. Settled(f, w)
  <2> SUFFICES ASSUME NEW r \in Round, NEW v \in Value, Own(e, "precommit", r) = v,
                      <<r, v>> \notin w.settled,
                      NEW i \in DOMAIN e.outputs, IsPrecommit(e.outputs[i], r, v)
               PROVE  \E j \in DOMAIN q : IsPrecommit(q[j], r, v)
    BY <1>3, <1>4 DEF Sound, Settled
  <2>1. i \in DOMAIN q
    BY <1>2
  <2> QED BY <1>2, <2>1
<1>11. Sound(f, w)
  BY <1>5, <1>6, <1>7, <1>8, <1>9, <1>10 DEF Sound
<1> QED BY <1>11 DEF f, q

\* start_height in the height it is already in, with the first k outputs drained.
LEMMA DrainedHeightSound ==
    ASSUME NEW e, NEW w, Fits(e, w.log, w.saves), w.log \in LogTable, Sound(e, w),
           ResumeRound(e) \in Round, NEW k \in 0 .. Len(e.outputs),
           \A i \in DOMAIN e.outputs, r \in Round, v \in Value :
               (i > k /\ IsPrecommit(e.outputs[i], r, v)) => <<r, v>> \in w.settled
    PROVE  Sound([StartSameHeight(e) EXCEPT !.outputs = SubSeq(e.outputs, 1, k)], w)
<1> DEFINE q == SubSeq(e.outputs, 1, k)
           d == [e EXCEPT !.outputs = q]
           n == e.generation + 1
           x == [p \in Validator |-> NoRound]
           r == ResumeRound(e)
           g == [e EXCEPT !.generation = n, !.outputs = <<>>, !.higher_round_evidence = x]
           h == StartRound(g, r)
           f == [h EXCEPT !.outputs = q]
<1>1. /\ e \in EngineState /\ n \in Nat /\ x \in [Validator -> Int] /\ <<>> \in Seq(Output)
      /\ e.outputs \in Seq(Output)
  <2>1. e \in EngineState
    BY DEF Fits
  <2> QED BY <2>1, EngineTypes DEF NoRound
<1>2. q \in Seq(Output)
  BY <1>1
<1>3. Sound(d, w)
  BY <1>1, PrefixSound
<1>4. StartSameHeight(e) = h
  BY DEF StartSameHeight
<1>5. /\ r \in Round /\ r > e.locked_round /\ e.locked_round \in Int
      /\ \A t \in VoteType, s \in Round : Own(h, t, s) = Own(e, t, s)
  <2>1. r \in Round /\ r > e.locked_round /\ e.locked_round \in Int
    BY <1>1, ResumeRoundBehind, EngineTypes
  <2>2. \A t \in VoteType, s \in Round : Own(StartSameHeight(e), t, s) = Own(e, t, s)
    BY StartSameHeightFits
  <2> QED BY <1>4, <2>1, <2>2
<1> HIDE DEF n, x, r, q
<1>6. /\ g \in EngineState
      /\ g.locked_round = e.locked_round
      /\ g.pending_finalized = e.pending_finalized /\ g.finalized = e.finalized
      /\ g.proposal_messages = e.proposal_messages
  BY <1>1 DEF EngineState
<1> HIDE DEF g
<1>7. /\ h \in EngineState /\ h.round = r /\ h.step = "propose"
      /\ h.locked_round = g.locked_round
      /\ h.pending_finalized = g.pending_finalized /\ h.finalized = g.finalized
      /\ h.proposal_messages = g.proposal_messages /\ h.pending_prevote = None
  BY <1>5, <1>6, StartRoundEffect
<1> HIDE DEF h
<1>8. /\ f.round = r /\ f.step = "propose" /\ f.votes = h.votes /\ f.outputs = q
      /\ f.locked_round = e.locked_round
      /\ f.pending_finalized = e.pending_finalized /\ f.finalized = e.finalized
      /\ f.proposal_messages = e.proposal_messages /\ f.pending_prevote = None
  BY <1>2, <1>6, <1>7 DEF EngineState
<1>9. /\ d \in EngineState /\ d.outputs = q /\ d.votes = e.votes
      /\ d.locked_round = e.locked_round
      /\ d.pending_finalized = e.pending_finalized /\ d.finalized = e.finalized
      /\ d.proposal_messages = e.proposal_messages
  BY <1>1, <1>2 DEF EngineState
<1> HIDE DEF f, d
<1>10. \A t \in VoteType, s \in Round : Own(f, t, s) = Own(d, t, s)
  BY <1>5, <1>8, <1>9 DEF Own
<1>11. ~(f.locked_round >= f.round)
  <2>1. r \in Int
    BY <1>5 DEF Round
  <2> QED BY <1>5, <1>8, <2>1
<1>12. Sound(f, w)
  BY <1>3, <1>8, <1>9, <1>10, <1>11, NewRoundSound
<1> QED BY <1>4, <1>12 DEF f, q

\* What backs the engine are the votes that exist.
LEMMA BacksKnown ==
    ASSUME NEW e, NEW w, NEW y, Backs(e, w), y.known = w.known
    PROVE  Backs(e, y)
<1>1. \A r, v : Carried(e, w, r, v) => Carried(e, y, r, v)
  BY DEF Carried
<1>2. \A r, v : Backed(e, w, r, v) => Backed(e, y, r, v)
  BY <1>1 DEF Backed, Cert
<1>3. VotesExist(e, y) /\ FinalBacked(e, y)
  BY DEF Backs, VotesExist, FinalBacked
<1>4. PolcsBacked(e, y) /\ LockBacked(e, y) /\ PrecommitsBacked(e, y)
  BY <1>1, <1>2 DEF Backs, PolcsBacked, LockBacked, PrecommitsBacked
<1> QED BY <1>3, <1>4 DEF Backs

\* The same for all that stands.
LEMMA DrainedHeightStands ==
    ASSUME NEW e, NEW w, Stands(e, w), World(w), ResumeRound(e) \in Round,
           NEW k \in 0 .. Len(e.outputs),
           w.ordinary => \A i \in DOMAIN e.outputs, r \in Round, v \in Value :
               (i > k /\ IsPrecommit(e.outputs[i], r, v)) => <<r, v>> \in w.settled
    PROVE  Stands([StartSameHeight(e) EXCEPT !.outputs = SubSeq(e.outputs, 1, k)], w)
<1> DEFINE q == SubSeq(e.outputs, 1, k)
           g == StartSameHeight(e)
           f == [g EXCEPT !.outputs = q]
           y == [known |-> w.known, log |-> w.log, saves |-> w.saves,
                 settled |-> w.settled, ordinary |-> FALSE]
<1>1. Fits(e, w.log, w.saves) /\ w.log \in LogTable /\ e.outputs \in Seq(Output)
  BY EngineTypes DEF Stands, Fits, World
<1>2. q \in Seq(Output)
  BY <1>1
<1>3. Fits(f, w.log, w.saves)
  BY <1>1, DrainedHeightFits
<1>4. w.ordinary => Sound(f, w)
  BY <1>1, DrainedHeightSound DEF Stands
<1>5. y.known = w.known /\ y.log = w.log /\ y.saves = w.saves /\ ~y.ordinary
  OBVIOUS
<1> HIDE DEF q, y
<1>6. Backs(e, y)
  BY <1>5, BacksKnown DEF Stands
<1>7. World(y)
  BY <1>5 DEF World, Cert
<1>8. Stands(g, y)
  BY <1>1, <1>5, <1>6, <1>7, StartSameHeightStands DEF Stands
<1>9. Backs(g, w) /\ g \in EngineState
  BY <1>5, <1>8, BacksKnown DEF Stands, Fits
<1> HIDE DEF g
<1>10. Backs(f, w)
  BY <1>2, <1>9, OutputsBack
<1> HIDE DEF f
<1>11. Stands(f, w)
  BY <1>3, <1>4, <1>10 DEF Stands
<1> QED BY <1>11 DEF f, g, q

\* The output actor takes the first output.  A precommit for a value is settled
\* by then, or dropped behind another finality.
LEMMA TailStands ==
    ASSUME NEW e, NEW w, Stands(e, w), e.outputs # <<>>,
           w.ordinary => \A r \in Round, v \in Value :
               IsPrecommit(Head(e.outputs), r, v) =>
                   \/ <<r, v>> \in w.settled
                   \/ /\ e.pending_finalized # None
                      /\ <<r, v>> # <<e.pending_finalized.round, e.pending_finalized.ballot>>
    PROVE  Stands([e EXCEPT !.outputs = Tail(@)], w)
<1> DEFINE q == Tail(e.outputs)
           f == [e EXCEPT !.outputs = q]
<1>1. e \in EngineState /\ e.outputs \in Seq(Output) /\ Fits(e, w.log, w.saves) /\ Backs(e, w)
  BY EngineTypes DEF Stands, Fits
<1>2. /\ q \in Seq(Output)
      /\ \A i \in DOMAIN q : i + 1 \in DOMAIN e.outputs /\ q[i] = e.outputs[i + 1]
      /\ 1 \in DOMAIN e.outputs /\ Head(e.outputs) = e.outputs[1]
      /\ \A i \in DOMAIN e.outputs : i \in Nat /\ (i # 1 => i - 1 \in DOMAIN q /\ q[i - 1] = e.outputs[i])
      /\ DOMAIN q \subseteq Nat
  BY <1>1
<1> HIDE DEF q
<1>3. /\ f.outputs = q /\ f.votes = e.votes /\ f.round = e.round /\ f.step = e.step
      /\ f.locked_round = e.locked_round /\ f.locked_value = e.locked_value
      /\ f.pending_finalized = e.pending_finalized /\ f.finalized = e.finalized
      /\ f.pending_prevote = e.pending_prevote
      /\ f.proposal_messages = e.proposal_messages
  BY <1>1, <1>2 DEF EngineState
<1>4. OutputsHeld(f)
  <2> HIDE DEF f
  <2> SUFFICES ASSUME NEW i \in DOMAIN q, q[i].kind = "vote"
               PROVE  Own(f, q[i].type, q[i].round) = q[i].ballot
    BY <1>3 DEF OutputsHeld
  <2>1. i + 1 \in DOMAIN e.outputs /\ q[i] = e.outputs[i + 1]
    BY <1>2
  <2>2. Own(e, q[i].type, q[i].round) = q[i].ballot
    BY <1>1, <2>1 DEF Fits, OutputsHeld
  <2> QED BY <1>3, <2>2 DEF Own
<1>5. Fits(f, w.log, w.saves)
  BY <1>1, <1>2, <1>4, OutputsFits
<1>6. Backs(f, w)
  BY <1>1, <1>2, OutputsBack
<1>7. e.outputs = e.outputs /\ [e EXCEPT !.outputs = Tail(@)] = f
  BY DEF q
<1> HIDE DEF f
<1>8. ASSUME w.ordinary PROVE Sound(f, w)
  <2>1. Sound(e, w)
    BY <1>8 DEF Stands
  <2>2. \A t, r : Own(f, t, r) = Own(e, t, r)
    BY <1>3 DEF Own
  <2>3. LocksKept(f, w) /\ KnownPrevotes(f, w)
    BY <1>3, <2>1, <2>2 DEF Sound, LocksKept, KnownPrevotes, Prevoted, Precommitted
  <2>4. LockBelow(f) /\ Stepped(f)
    BY <1>3, <2>1, <2>2 DEF Sound, LockBelow, Stepped
  <2>5. FinalHeld(f)
    BY <1>2, <1>3, <2>1, <2>2 DEF Sound, FinalHeld
  <2>6. InOrder(f)
    <3> SUFFICES ASSUME NEW i \in DOMAIN q, NEW j \in DOMAIN q,
                        q[j].kind = "finalize", q[j].own,
                        IsPrecommit(q[i], q[j].round, q[j].ballot)
                 PROVE  i < j
      BY <1>3 DEF InOrder
    <3>1. i + 1 < j + 1
      BY <1>2, <2>1 DEF Sound, InOrder
    <3>2. i \in Nat /\ j \in Nat
      BY <1>2
    <3> QED BY <3>1, <3>2
  <2>7. MessagesHeld(f)
    <3> SUFFICES ASSUME NEW i \in DOMAIN q, NEW r \in Round, NEW v \in Value,
                        IsPrecommit(q[i], r, v)
                 PROVE  HasMessage(f, v, r)
      BY <1>3 DEF MessagesHeld
    <3>1. HasMessage(e, v, r)
      BY <1>2, <2>1 DEF Sound, MessagesHeld
    <3> QED BY <1>3, <3>1 DEF HasMessage
  <2>8. Settled(f, w)
    <3> SUFFICES ASSUME NEW r \in Round, NEW v \in Value, Own(e, "precommit", r) = v,
                        <<r, v>> \notin w.settled,
                        NEW i \in DOMAIN e.outputs, IsPrecommit(e.outputs[i], r, v),
                        ~(/\ e.pending_finalized # None
                          /\ <<r, v>> # <<e.pending_finalized.round, e.pending_finalized.ballot>>)
                 PROVE  \E j \in DOMAIN q : IsPrecommit(q[j], r, v)
      BY <1>3, <2>1, <2>2 DEF Sound, Settled
    <3>1. i # 1
      BY <1>2, <1>8
    <3> QED BY <1>2, <3>1
  <2> QED BY <2>3, <2>4, <2>5, <2>6, <2>7, <2>8 DEF Sound
<1> QED BY <1>5, <1>6, <1>7, <1>8 DEF Stands

-----------------------------------------------------------------------------
(* The boot *)

\* An engine that has seen no vote and holds no POLC but that of its lock.
Fresh(e) ==
    /\ \A t \in VoteType, r \in Round, p \in Validator : e.votes[t][r][p] = None
    /\ \A r \in Round :
          e.polc_by_round[r] # None => r = e.locked_round /\ e.polc_by_round[r] = e.locked_value
    /\ ~e.finalized
    /\ e.pending_finalized = None
    /\ e.pending_prevote = None

\* The engine of a new height.
LEMMA InitialFresh == Fresh(InitialEngine) /\ \A r \in Round : InitialEngine.polc_by_round[r] = None
<1>1. \A t \in VoteType, r \in Round, p \in Validator : InitialEngine.votes[t][r][p] = None
  BY DEF InitialEngine, NoVotes
<1>2. \A r \in Round : InitialEngine.polc_by_round[r] = None
  BY DEF InitialEngine
<1>3. /\ ~InitialEngine.finalized /\ InitialEngine.pending_finalized = None
      /\ InitialEngine.pending_prevote = None
  BY DEF InitialEngine
<1> QED BY <1>1, <1>2, <1>3 DEF Fresh

\* realign_round of such an engine.
LEMMA RealignFresh ==
    ASSUME NEW e \in EngineState, Fresh(e), NEW r \in Round
    PROVE  Fresh(RealignRound(e, r))
<1> DEFINE n == e.generation + 1
           g == [e EXCEPT !.generation = n]
           f == StartRound(g, r)
<1>1. n \in Nat
  BY EngineTypes
<1>2. RealignRound(e, r) = f
  BY DEF RealignRound
<1> HIDE DEF n
<1>3. /\ g \in EngineState /\ g.votes = e.votes /\ g.polc_by_round = e.polc_by_round
      /\ g.locked_round = e.locked_round /\ g.locked_value = e.locked_value
      /\ g.finalized = e.finalized /\ g.pending_finalized = e.pending_finalized
  BY <1>1 DEF EngineState
<1> HIDE DEF g
<1>4. /\ f.locked_round = g.locked_round /\ f.locked_value = g.locked_value
      /\ f.polc_by_round = g.polc_by_round /\ f.finalized = g.finalized
      /\ f.pending_finalized = g.pending_finalized /\ f.pending_prevote = None
      /\ \A t \in VoteType, s \in Round, p \in Validator :
            f.votes[t][s][p] = IF s = r THEN None ELSE g.votes[t][s][p]
  BY <1>3, StartRoundEffect
<1> HIDE DEF f
<1>5. Fresh(f)
  BY <1>3, <1>4 DEF Fresh
<1> QED BY <1>2, <1>5

\* restore_precommit_lock.
LEMMA RestoreLockFresh ==
    ASSUME NEW r \in Round, NEW v \in Value, NEW vr \in Round \cup {NoRound},
           ~RoundWait => r # MaxRound
    PROVE  Fresh(RestorePrecommitLock(InitialEngine, r, v, vr))
<1> DEFINE e0 == CacheProposalMessage(InitialEngine, v, r, vr)
           x == [e0.polc_by_round EXCEPT ![r] = v]
           e9 == [e0 EXCEPT !.polc_by_round[r] = v]
           e1 == PromoteKnownHeader(e9, r, v)
           e2 == [e1 EXCEPT !.locked_round = r, !.locked_value = v,
                            !.valid_round = r, !.valid_value = v]
           to == IF RoundWait THEN r ELSE r + 1
<1>1. RestorePrecommitLock(InitialEngine, r, v, vr) = RealignRound(e2, to)
  BY NoneIsNoBallot DEF RestorePrecommitLock, RecordPolc
<1>2. to \in Round
  BY EngineAssumption DEF Round
<1> HIDE DEF to
<1>3. InitialEngine \in EngineState
  BY InitialBlank DEF Blank
<1>4. Calm(InitialEngine, e0)
  BY <1>3, CacheProposalMessageCalm
<1> HIDE DEF e0
<1>5. e0 \in EngineState /\ Fresh(e0) /\ \A s \in Round : e0.polc_by_round[s] = None
  BY <1>4, InitialFresh DEF Calm, Aside, Around, Fresh
<1>6. /\ x \in [Round -> Value \cup {None}]
      /\ \A s \in Round : x[s] = IF s = r THEN v ELSE None
  BY <1>5 DEF EngineState
<1>7. e9 = [e0 EXCEPT !.polc_by_round = x]
  OBVIOUS
<1> HIDE DEF x
<1>8. /\ e9 \in EngineState /\ e9.polc_by_round = x /\ e9.votes = e0.votes
      /\ e9.finalized = e0.finalized /\ e9.pending_finalized = e0.pending_finalized
      /\ e9.pending_prevote = e0.pending_prevote
  BY <1>5, <1>6, <1>7 DEF EngineState
<1> HIDE DEF e9
<1>9. Calm(e9, e1)
  BY <1>8, PromoteKnownHeaderCalm
<1> HIDE DEF e1
<1>10. /\ e1 \in EngineState /\ e1.polc_by_round = x /\ e1.votes = e0.votes
       /\ e1.finalized = e0.finalized /\ e1.pending_finalized = e0.pending_finalized
       /\ e1.pending_prevote = e0.pending_prevote
  BY <1>8, <1>9 DEF Calm, Aside, Around
<1>11. /\ e2 \in EngineState /\ e2.polc_by_round = x /\ e2.votes = e0.votes
       /\ e2.finalized = e0.finalized /\ e2.pending_finalized = e0.pending_finalized
       /\ e2.pending_prevote = e0.pending_prevote
       /\ e2.locked_round = r /\ e2.locked_value = v
  BY <1>10 DEF EngineState
<1> HIDE DEF e2
<1>12. Fresh(e2)
  BY <1>5, <1>6, <1>11 DEF Fresh
<1> QED BY <1>1, <1>2, <1>11, <1>12, RealignFresh

\* What a boot leaves: the own votes are stored ones, the lock and its POLC have
\* their prevotes.
Booted(e, w) ==
    /\ \A t \in VoteType, r \in Round, p \in Validator :
          e.votes[t][r][p] \in {None, IF p = Me THEN w.log[t][r] ELSE None}
    /\ \A r \in Round :
          e.polc_by_round[r] # None => Cert(w, "prevote", r, e.polc_by_round[r])
    /\ e.locked_round >= 0 => Cert(w, "prevote", e.locked_round, e.locked_value)
    /\ ~e.finalized
    /\ e.pending_finalized = None
    /\ e.pending_prevote = None
    /\ e.outputs = <<>>
    /\ LockBelow(e)
    /\ Stepped(e)

\* The rule of the lock on the votes that exist.
KnownLocks(w) ==
    \A r0, r1 \in Round, v0, v1 \in Value :
        (/\ r0 < r1 /\ v0 # v1
         /\ <<Me, r0, v0>> \in w.known["precommit"]
         /\ <<Me, r1, v1>> \in w.known["prevote"]) => Freed(w, v1, r0, r1)

\* A booted engine stands.
LEMMA BootedStands ==
    ASSUME NEW e, NEW w, Fits(e, w.log, w.saves), World(w), Booted(e, w),
           w.ordinary => KnownLocks(w)
    PROVE  Stands(e, w)
<1>1. /\ Me \in Validator /\ "prevote" \in VoteType /\ "precommit" \in VoteType
      /\ \A v \in Value : v \in Ballot /\ v # None
  BY EngineAssumption, NoneIsNoBallot DEF VoteType, Ballot
<1>2. \A t \in VoteType, r \in Round : Own(e, t, r) \in {None, w.log[t][r]}
  BY <1>1 DEF Booted, Own
<1>3. \A t \in VoteType, r \in Round, p \in Validator \ {Me} : e.votes[t][r][p] = None
  BY DEF Booted
<1>4. \A t \in VoteType, r \in Round : Own(e, t, r) # None => <<Me, r, Own(e, t, r)>> \in w.known[t]
  BY <1>2 DEF World
<1>5. \A r, v : Cert(w, "prevote", r, v) => Carried(e, w, r, v)
  BY DEF Cert, Carried
<1>6. VotesExist(e, w)
  BY <1>3 DEF VotesExist
<1>7. PolcsBacked(e, w) /\ LockBacked(e, w)
  BY <1>5 DEF Booted, PolcsBacked, LockBacked, Backed
<1>8. PrecommitsBacked(e, w)
  BY <1>1, <1>2, <1>5 DEF PrecommitsBacked, World
<1>9. FinalBacked(e, w)
  BY DEF Booted, FinalBacked
<1>10. ASSUME w.ordinary PROVE Sound(e, w)
  <2>1. Recorded(w) /\ KnownLocks(w)
    BY <1>10 DEF World
  <2>2. \A r \in Round, v \in Value :
           /\ Precommitted(e, w, r, v) => <<Me, r, v>> \in w.known["precommit"]
           /\ Prevoted(e, w, r, v) => <<Me, r, v>> \in w.known["prevote"]
    BY <1>1, <1>4 DEF Precommitted, Prevoted, Booted
  <2>3. LocksKept(e, w)
    BY <2>1, <2>2 DEF LocksKept, KnownLocks
  <2>4. KnownPrevotes(e, w)
    BY <1>1, <1>2, <2>1 DEF KnownPrevotes, Recorded
  <2>5. LockBelow(e) /\ Stepped(e)
    BY DEF Booted
  <2>6. FinalHeld(e) /\ InOrder(e) /\ MessagesHeld(e)
    BY DEF Booted, FinalHeld, InOrder, MessagesHeld
  <2>7. Settled(e, w)
    BY <1>1, <1>2, <2>1 DEF Settled, Recorded
  <2> QED BY <2>3, <2>4, <2>5, <2>6, <2>7 DEF Sound
<1> QED BY <1>6, <1>7, <1>8, <1>9, <1>10 DEF Stands, Backs

\* An engine without a vote is booted when its lock is below its round and certified.
LEMMA FreshBooted ==
    ASSUME NEW e, NEW w, Blank(e), Fresh(e),
           e.locked_round < e.round,
           e.locked_round >= 0 => Cert(w, "prevote", e.locked_round, e.locked_value)
    PROVE  Booted(e, w)
<1>1. e.round \in Int /\ e.locked_round \in Round \cup {NoRound}
  BY EngineTypes DEF Blank, Round
<1>2. LockBelow(e) /\ Stepped(e)
  BY <1>1 DEF LockBelow, Stepped, Blank, Round, NoRound
<1>3. \A r \in Round :
          e.polc_by_round[r] # None => Cert(w, "prevote", r, e.polc_by_round[r])
  <2> SUFFICES ASSUME NEW r \in Round, e.polc_by_round[r] # None
               PROVE  Cert(w, "prevote", r, e.polc_by_round[r])
    OBVIOUS
  <2>1. r = e.locked_round /\ e.polc_by_round[r] = e.locked_value /\ r >= 0
    BY DEF Fresh, Round
  <2> QED BY <2>1
<1> QED BY <1>2, <1>3 DEF Booted, Fresh, Blank

\* restore_local_votes.
LEMMA RestoreVotesBooted ==
    ASSUME NEW e, NEW w, World(w), Blank(e), Fresh(e),
           e.locked_round >= e.round => w.log["precommit"][e.round] # None,
           e.locked_round >= 0 => Cert(w, "prevote", e.locked_round, e.locked_value)
    PROVE  Booted(RestoreLocalVotes(e, [t \in VoteType |-> w.log[t][e.round]]), w)
<1> DEFINE saved == [t \in VoteType |-> w.log[t][e.round]]
           x == [t \in VoteType |-> IF saved[t] # None
                                    THEN [e.votes[t] EXCEPT ![e.round][Me] = saved[t]]
                                    ELSE e.votes[t]]
           g == [e EXCEPT !.votes = x]
           step == IF saved["precommit"] # None THEN "precommit"
                   ELSE IF saved["prevote"] # None /\ e.step = "propose" THEN "prevote"
                   ELSE e.step
           a == e.armed /\ e.step = step
           f == [g EXCEPT !.step = step, !.armed = a]
           out == Schedule(f, step)
<1>1. /\ e \in EngineState /\ e.round \in Round /\ e.votes \in VoteTable
      /\ w.log \in LogTable /\ e.step = "propose"
  BY EngineTypes DEF Blank, World
<1>2. \A t \in VoteType : saved[t] = w.log[t][e.round] /\ saved[t] \in Ballot \cup {None}
  BY <1>1 DEF LogTable
<1>3. /\ x \in VoteTable
      /\ \A t \in VoteType, s \in Round, p \in Validator :
            x[t][s][p] = IF s = e.round /\ p = Me /\ saved[t] # None THEN saved[t]
                         ELSE e.votes[t][s][p]
  <2> HIDE DEF saved
  <2> QED BY <1>1, <1>2, EngineAssumption DEF VoteTable
<1>4. RestoreLocalVotes(e, saved) = out
  <2>1. g = [e EXCEPT !.votes = [t \in VoteType |->
                    IF saved[t] # None THEN [@[t] EXCEPT ![e.round][Me] = saved[t]]
                    ELSE @[t]]]
    OBVIOUS
  <2>2. SetStep(g, step) = f
    <3> HIDE DEF x
    <3>1. g.step = e.step /\ g.armed = e.armed
      BY <1>1 DEF EngineState
    <3> HIDE DEF g, step
    <3> QED BY <3>1 DEF SetStep
  <2> HIDE DEF x, saved
  <2> QED BY <2>1, <2>2 DEF RestoreLocalVotes
<1>5. step \in Step /\ a \in BOOLEAN
  BY <1>1 DEF Step, EngineState
<1>6. /\ saved["precommit"] # None => step = "precommit"
      /\ step = "prevote" => saved["prevote"] # None
  BY <1>1
<1>7. \A t \in VoteType, s \in Round, p \in Validator :
         x[t][s][p] = IF s = e.round /\ p = Me THEN w.log[t][s] ELSE None
  BY <1>2, <1>3 DEF Fresh
<1>8. saved["precommit"] = w.log["precommit"][e.round] /\ saved["prevote"] = w.log["prevote"][e.round]
  BY <1>2 DEF VoteType
<1> HIDE DEF x, saved, step, a
<1>9. g \in EngineState /\ g.votes = x
      /\ g.round = e.round /\ g.outputs = e.outputs
      /\ g.locked_round = e.locked_round /\ g.locked_value = e.locked_value
      /\ g.polc_by_round = e.polc_by_round /\ g.finalized = e.finalized
      /\ g.pending_finalized = e.pending_finalized /\ g.pending_prevote = e.pending_prevote
  BY <1>1, <1>3 DEF EngineState, VoteTable
<1> HIDE DEF g
<1>10. f \in EngineState /\ f.votes = x /\ f.step = step
       /\ f.round = e.round /\ f.outputs = e.outputs
       /\ f.locked_round = e.locked_round /\ f.locked_value = e.locked_value
       /\ f.polc_by_round = e.polc_by_round /\ f.finalized = e.finalized
       /\ f.pending_finalized = e.pending_finalized /\ f.pending_prevote = e.pending_prevote
  BY <1>5, <1>9 DEF EngineState
<1> HIDE DEF f
<1>11. /\ out.votes = x /\ out.step = step
       /\ out.round = e.round /\ out.outputs = e.outputs
       /\ out.locked_round = e.locked_round /\ out.locked_value = e.locked_value
       /\ out.polc_by_round = e.polc_by_round /\ out.finalized = e.finalized
       /\ out.pending_finalized = e.pending_finalized /\ out.pending_prevote = e.pending_prevote
  <2>1. Calm(f, out)
    BY <1>5, <1>10, ScheduleCalm
  <2> HIDE DEF out
  <2> QED BY <1>10, <2>1 DEF Calm, Aside, Around
<1> HIDE DEF out
<1>12. \A t \in VoteType, s \in Round, p \in Validator :
          out.votes[t][s][p] \in {None, IF p = Me THEN w.log[t][s] ELSE None}
  BY <1>7, <1>11
<1>13. LockBelow(out)
  BY <1>6, <1>8, <1>11 DEF LockBelow
<1>14. Stepped(out)
  <2>1. Own(out, "prevote", e.round) = w.log["prevote"][e.round]
    BY <1>1, <1>7, <1>11, EngineAssumption DEF Own, VoteType
  <2> QED BY <1>6, <1>8, <1>11, <2>1 DEF Stepped
<1>15. \A r \in Round :
          out.polc_by_round[r] # None => Cert(w, "prevote", r, out.polc_by_round[r])
  <2> SUFFICES ASSUME NEW r \in Round, e.polc_by_round[r] # None
               PROVE  Cert(w, "prevote", r, e.polc_by_round[r])
    BY <1>11
  <2>1. r = e.locked_round /\ e.polc_by_round[r] = e.locked_value /\ r >= 0
    BY DEF Fresh, Round
  <2> QED BY <2>1
<1>16. /\ out.locked_round >= 0 => Cert(w, "prevote", out.locked_round, out.locked_value)
       /\ ~out.finalized /\ out.pending_finalized = None /\ out.pending_prevote = None
       /\ out.outputs = <<>>
  BY <1>11 DEF Fresh, Blank
<1>17. Booted(out, w)
  BY <1>12, <1>13, <1>14, <1>15, <1>16 DEF Booted
<1> QED BY <1>4, <1>17 DEF saved

-----------------------------------------------------------------------------
(* The timers of the steps *)

\* Nothing has opened the engine yet.
Unopened(e) == e.generation = 0 /\ e.round = 0 /\ e.step = "propose"

\* The current step has a timer, or is one of those that wait without.
TimerHeld(e) ==
    \/ e.armed
    \/ e.finalized
    \/ Unopened(e)
    \/ /\ RoundWait
       /\ \/ ~TimerAllowed(e, e.step)
          \/ e.step = "precommit" /\ \E v \in Value : QuorumResult(e, "precommit", v)

\* A vote timer of the current step is still on the clock, and none belongs to a
\* step that is to come.
TimersFit(e) ==
    /\ e.step \in e.vote_timers => e.armed
    /\ e.step = "propose" => e.vote_timers = {}
    /\ e.step = "prevote" => "precommit" \notin e.vote_timers

\* What the timers need of the rest: the propose step ends with the node's own
\* prevote, and a pending finality is final.
Unvoted(e) == e.step = "propose" => Own(e, "prevote", e.round) = None

Paused(e) == TimersFit(e) /\ Unvoted(e) /\ (e.pending_finalized # None => e.finalized)

Timed(e) == Paused(e) /\ TimerHeld(e)

\* f is e for the timers.
Still(e, f) ==
    /\ f.round = e.round /\ f.step = e.step /\ f.votes = e.votes
    /\ f.armed = e.armed /\ f.vote_timers = e.vote_timers
    /\ f.finalized = e.finalized /\ f.pending_finalized = e.pending_finalized
    /\ f.generation = e.generation

\* Timers are the same where nothing they look at changes.
LEMMA StillTimed ==
    ASSUME NEW e, NEW f, Still(e, f)
    PROVE  (Paused(e) => Paused(f)) /\ (Timed(e) => Timed(f))
BY DEF Still, Timed, Paused, TimersFit, Unvoted, TimerHeld, Unopened, TimerAllowed, QuorumAny,
       AllVoters, QuorumResult, QuorumOf, VotersFor, Own

\* The proposals, the POLCs, the lock and the round reports do not touch the
\* timers.
LEMMA FieldsStill ==
    ASSUME NEW e \in EngineState
    PROVE  /\ Still(e, e)
           /\ \A r, v, s, u : Still(e, [e EXCEPT !.locked_round = r, !.locked_value = v,
                                                 !.valid_round = s, !.valid_value = u])
           /\ \A r, v : Still(e, [e EXCEPT !.valid_round = r, !.valid_value = v])
           /\ \A r, b : Still(e, [e EXCEPT !.polc_by_round[r] = b])
           /\ \A v, c, r, m : Still(e, [e EXCEPT !.proposal_cache[v] = c, !.proposal_messages[v][r] = m])
           /\ \A v, c : Still(e, [e EXCEPT !.proposal_cache[v] = c])
           /\ \A p, r : Still(e, [e EXCEPT !.higher_round_evidence[p] = r])
           /\ \A b : Still(e, [e EXCEPT !.pending_prevote = b])
           /\ \A q : Still(e, [e EXCEPT !.outputs = q])
BY DEF Still, EngineState

\* Two such changes make one.
LEMMA StillTrans ==
    ASSUME NEW e, NEW f, NEW g, Still(e, f), Still(f, g)
    PROVE  Still(e, g)
BY DEF Still

\* promote_known_header, record_polc, promote_cached_polc and the caches.
LEMMA PromoteStill ==
    ASSUME NEW e \in EngineState, NEW r, NEW v
    PROVE  Still(e, PromoteKnownHeader(e, r, v)) /\ Still(e, PromoteCachedPolc(e, v))
BY FieldsStill DEF PromoteKnownHeader, PromoteCachedPolc

\* record_polc.
LEMMA RecordPolcStill ==
    ASSUME NEW e \in EngineState, NEW r \in Round, NEW b \in Ballot
    PROVE  Still(e, RecordPolc(e, r, b))
<1> DEFINE f == [e EXCEPT !.polc_by_round[r] = b]
<1>1. CASE b = Nil
  BY <1>1, FieldsStill DEF RecordPolc
<1>2. CASE b # Nil
  <2>1. Still(e, f)
    BY FieldsStill
  <2>2. f \in EngineState
    BY <1>2 DEF EngineState, Ballot
  <2> HIDE DEF f
  <2>3. Still(f, PromoteKnownHeader(f, r, b))
    BY <2>2, PromoteStill
  <2> QED BY <1>2, <2>1, <2>3, StillTrans DEF RecordPolc, f
<1> QED BY <1>1, <1>2

\* cache_proposal_message: the bundle is there for emit_local_finalize.
LEMMA CacheMessageStill ==
    ASSUME NEW e \in EngineState, NEW v \in Value, NEW r \in Round,
           NEW vr \in Round \cup {NoRound}
    PROVE  LET f == CacheProposalMessage(e, v, r, vr)
           IN  Still(e, f) /\ f.proposal_cache[v] = "bundle"
<1> DEFINE g == [e EXCEPT !.proposal_cache[v] = "bundle", !.proposal_messages[v][r] = vr]
<1>1. Still(e, g)
  BY FieldsStill
<1>2. g \in EngineState /\ g.proposal_cache[v] = "bundle"
  BY DEF EngineState
<1> HIDE DEF g
<1>3. Still(g, PromoteCachedPolc(g, v))
  BY <1>2, PromoteStill
<1>4. PromoteCachedPolc(g, v).proposal_cache = g.proposal_cache
  BY <1>2 DEF PromoteCachedPolc, PromoteKnownHeader, EngineState
<1> QED BY <1>1, <1>2, <1>3, <1>4, StillTrans DEF CacheProposalMessage, g

\* learn_prevote.
LEMMA LearnPrevoteStill ==
    ASSUME NEW e \in EngineState, NEW r \in Round, NEW p, NEW b \in Ballot
    PROVE  Still(e, LearnPrevote(e, r, p, b))
BY RecordPolcStill, FieldsStill DEF LearnPrevote

-----------------------------------------------------------------------------
(* Steps and timers *)

\* schedule_step_timeout for the step the engine is in.
LEMMA ScheduleTimed ==
    ASSUME NEW e \in EngineState, Paused(e), NEW step, step = e.step
    PROVE  Timed(Schedule(e, step))
<1>1. CASE ~RoundWait \/ step = "propose"
  <2> DEFINE f == [e EXCEPT !.armed = TRUE]
  <2>1. /\ f.round = e.round /\ f.step = e.step /\ f.votes = e.votes /\ f.armed
        /\ f.vote_timers = e.vote_timers /\ f.finalized = e.finalized
        /\ f.pending_finalized = e.pending_finalized
    BY DEF EngineState
  <2>2. Schedule(e, step) = f
    BY <1>1 DEF Schedule
  <2> HIDE DEF f
  <2>3. Timed(f)
    BY <2>1 DEF Paused, Timed, TimersFit, Unvoted, TimerHeld, Own
  <2> QED BY <2>2, <2>3
<1>2. CASE RoundWait /\ step # "propose" /\ TimerAllowed(e, step) /\ step \notin e.vote_timers
  <2> DEFINE f == [e EXCEPT !.armed = TRUE, !.vote_timers = @ \cup {step}]
  <2>1. /\ f.round = e.round /\ f.step = e.step /\ f.votes = e.votes /\ f.armed
        /\ f.vote_timers = e.vote_timers \cup {step} /\ f.finalized = e.finalized
        /\ f.pending_finalized = e.pending_finalized
    BY DEF EngineState
  <2>2. Schedule(e, step) = f
    BY <1>2 DEF Schedule
  <2> HIDE DEF f
  <2>3. Timed(f)
    BY <1>2, <2>1 DEF Paused, Timed, TimersFit, Unvoted, TimerHeld, Own
  <2> QED BY <2>2, <2>3
<1>3. CASE RoundWait /\ step # "propose" /\ ~(TimerAllowed(e, step) /\ step \notin e.vote_timers)
  <2>1. Schedule(e, step) = e
    BY <1>3 DEF Schedule
  <2>2. TimerHeld(e)
    BY <1>3 DEF TimerHeld, Paused, TimersFit
  <2> QED BY <2>1, <2>2 DEF Timed
<1> QED BY <1>1, <1>2, <1>3

\* set_step changes the step and what the clock knows of it.
LEMMA SetStepEffect ==
    ASSUME NEW e \in EngineState, NEW step \in Step
    PROVE  LET f == SetStep(e, step)
           IN  /\ f \in EngineState
               /\ f.round = e.round /\ f.step = step /\ f.votes = e.votes
               /\ f.armed = (e.armed /\ e.step = step)
               /\ f.vote_timers = e.vote_timers /\ f.finalized = e.finalized
               /\ f.pending_finalized = e.pending_finalized /\ f.generation = e.generation
               /\ f.proposal_cache = e.proposal_cache
               /\ f.proposal_messages = e.proposal_messages
<1> DEFINE a == (e.armed /\ e.step = step)
<1>1. a \in BOOLEAN
  OBVIOUS
<1>2. SetStep(e, step) = [e EXCEPT !.step = step, !.armed = a]
  BY DEF SetStep
<1> HIDE DEF a
<1>3. LET f == [e EXCEPT !.step = step, !.armed = a]
      IN  /\ f \in EngineState
          /\ f.round = e.round /\ f.step = step /\ f.votes = e.votes /\ f.armed = a
          /\ f.vote_timers = e.vote_timers /\ f.finalized = e.finalized
          /\ f.pending_finalized = e.pending_finalized /\ f.generation = e.generation
          /\ f.proposal_cache = e.proposal_cache
          /\ f.proposal_messages = e.proposal_messages
  BY <1>1 DEF EngineState
<1> QED BY <1>2, <1>3 DEF a

\* A step forward; the step the engine is in keeps its timer.
LEMMA SetStepTimed ==
    ASSUME NEW e \in EngineState, Paused(e), NEW step \in {"prevote", "precommit"},
           step = "prevote" => e.step # "precommit"
    PROVE  LET f == SetStep(e, step)
           IN  /\ Paused(f)
               /\ e.step = step => Still(e, f)
<1> DEFINE f == SetStep(e, step)
           a == (e.armed /\ e.step = step)
<1>1. /\ f.round = e.round /\ f.step = step /\ f.votes = e.votes /\ f.armed = a
      /\ f.vote_timers = e.vote_timers /\ f.finalized = e.finalized
      /\ f.pending_finalized = e.pending_finalized /\ f.generation = e.generation
  BY SetStepEffect DEF Step
<1>2. e.step \in Step /\ e.armed \in BOOLEAN
  BY DEF EngineState
<1>3. e.step = step => a = e.armed
  BY <1>2
<1> HIDE DEF f, a
<1>4. TimersFit(f)
  BY <1>1, <1>2, <1>3 DEF TimersFit, Paused, Step
<1>5. Unvoted(f)
  BY <1>1 DEF Unvoted
<1>6. Paused(f)
  BY <1>1, <1>4, <1>5 DEF Paused
<1>7. e.step = step => Still(e, f)
  BY <1>1, <1>3 DEF Still
<1> QED BY <1>6, <1>7 DEF f

-----------------------------------------------------------------------------
(* Votes *)

\* The timers are fine but for a vote of the round that has just come in.
Touched(e) == Paused(e) /\ ((e.step = "propose" \/ ~RoundWait) => TimerHeld(e))

\* add_vote: an own prevote does not come in the propose step.
LEMMA AddVoteTimed ==
    ASSUME NEW e \in EngineState, Paused(e), NEW t \in VoteType, NEW r \in Round,
           NEW p \in Validator, NEW b \in Ballot,
           (p = Me /\ r = e.round /\ t = "prevote" /\ e.votes[t][r][p] = None) => e.step # "propose"
    PROVE  LET f == AddVote(e, t, r, p, b)
           IN  /\ Paused(f)
               /\ Touched(e) => Touched(f)
               /\ r # e.round /\ Timed(e) => Timed(f)
               /\ f.armed = e.armed /\ f.vote_timers = e.vote_timers
<1> DEFINE f == AddVote(e, t, r, p, b)
<1>1. /\ Around(e, f)
      /\ \A u \in VoteType, s \in Round, q \in Validator :
            f.votes[u][s][q] = IF u = t /\ s = r /\ q = p /\ e.votes[t][r][p] = None THEN b
                               ELSE e.votes[u][s][q]
  BY AddVoteEffect
<1>2. f.armed = e.armed /\ f.vote_timers = e.vote_timers
  BY DEF AddVote, EngineState
<1>3. e.round \in Round /\ Me \in Validator /\ "prevote" \in VoteType /\ "precommit" \in VoteType
  BY EngineTypes, EngineAssumption DEF VoteType
<1> HIDE DEF f
<1>4. TimersFit(f)
  BY <1>1, <1>2 DEF Paused, TimersFit, Around
<1>5. Unvoted(f)
  BY <1>1, <1>3 DEF Paused, Unvoted, Around, Own
<1>6. Paused(f)
  BY <1>1, <1>4, <1>5 DEF Paused, Around
<1>7. (e.step = "propose" \/ ~RoundWait) /\ TimerHeld(e) => TimerHeld(f)
  BY <1>1, <1>2 DEF TimerHeld, TimerAllowed, Unopened, Around
<1>8. Touched(e) => Touched(f)
  BY <1>1, <1>6, <1>7 DEF Touched, Around
<1>9. ASSUME r # e.round, TimerHeld(e) PROVE TimerHeld(f)
  <2>1. \A u \in VoteType, q \in Validator : f.votes[u][e.round][q] = e.votes[u][e.round][q]
    BY <1>1, <1>3, <1>9
  <2>2. \A u \in VoteType : AllVoters(f, u, e.round) = AllVoters(e, u, e.round)
    BY <2>1 DEF AllVoters
  <2>3. \A u \in VoteType : \A v : VotersFor(f, u, e.round, v) = VotersFor(e, u, e.round, v)
    BY <2>1 DEF VotersFor
  <2>4. f.round = e.round /\ f.step = e.step /\ e.step \in Step
    BY <1>1 DEF Around, EngineState
  <2>5. ~TimerAllowed(e, e.step) => ~TimerAllowed(f, f.step)
    BY <2>2, <2>4 DEF TimerAllowed, QuorumAny, Step, VoteType
  <2>6. \A v : QuorumResult(e, "precommit", v) => QuorumResult(f, "precommit", v)
    BY <1>3, <2>3, <2>4 DEF QuorumResult, QuorumOf
  <2> QED BY <1>1, <1>2, <1>9, <2>4, <2>5, <2>6 DEF TimerHeld, Unopened, Around
<1>10. r # e.round /\ Timed(e) => Timed(f)
  BY <1>6, <1>9 DEF Timed
<1> QED BY <1>2, <1>6, <1>8, <1>10 DEF f

\* A queue of outputs is nothing to the rest.
LEMMA OutputsEffect ==
    ASSUME NEW e \in EngineState, NEW q \in Seq(Output)
    PROVE  LET f == [e EXCEPT !.outputs = q]
           IN  f \in EngineState /\ f.proposal_cache = e.proposal_cache
BY DEF EngineState

\* cast_local_vote, in the step of the vote or behind it.
LEMMA CastPaused ==
    ASSUME NEW e \in EngineState, Paused(e), NEW t \in VoteType, NEW b \in Ballot, e.step # "propose"
    PROVE  LET f == CastLocalVote(e, t, b)
           IN  f \in EngineState /\ Paused(f) /\ f.step = e.step /\ f.round = e.round
               /\ f.proposal_cache = e.proposal_cache
<1> DEFINE c == LocalBallot(e, t, b)
           g == AddVote(e, t, e.round, Me, c)
           vote == [kind |-> "vote", type |-> t, round |-> e.round, ballot |-> c]
           q == Append(g.outputs, vote)
           f == [g EXCEPT !.outputs = q]
<1>1. e.round \in Round /\ Me \in Validator /\ c \in Ballot
  BY EngineTypes, EngineAssumption DEF LocalBallot, LocalPrevote, Ballot
<1>2. CastLocalVote(e, t, b) = IF CastOutcome(e, t, b) = "cast" THEN f ELSE e
  BY DEF CastLocalVote
<1> HIDE DEF c
<1>3. Around(e, g) /\ g.proposal_cache = e.proposal_cache /\ Paused(g)
  BY <1>1, AddVoteEffect, AddVoteTimed
<1>4. g \in EngineState
  BY <1>3 DEF Around
<1> HIDE DEF g
<1>5. vote \in Output
  BY <1>1 DEF Output, LocalVote
<1>9. q \in Seq(Output)
  BY <1>4, <1>5, EngineTypes
<1> HIDE DEF vote, q
<1>6. f \in EngineState /\ f.proposal_cache = g.proposal_cache
  BY <1>4, <1>9, OutputsEffect
<1>7. Still(g, f)
  BY <1>4, FieldsStill
<1> HIDE DEF f
<1>8. Paused(f)
  BY <1>3, <1>7, StillTimed
<1> QED BY <1>2, <1>3, <1>6, <1>7, <1>8 DEF Still, Around

\* A precommit is cast with the step, and the timer follows.
LEMMA CastPrecommitTimed ==
    ASSUME NEW e \in EngineState, Paused(e), StepFits(e), e.step # "precommit", NEW b \in Ballot,
           NEW outcomes, {"cast", "same"} \subseteq outcomes,
           b = Nil \/ "deferred" \in outcomes
    PROVE  LET g == SetStep(e, "precommit")
           IN  Timed(CastAndSchedule(g, "precommit", b, outcomes))
<1> DEFINE g == SetStep(e, "precommit")
           h == CastLocalVote(g, "precommit", b)
<1>1. g \in EngineState /\ g.step = "precommit" /\ g.votes = e.votes /\ g.round = e.round
  BY SetStepEffect DEF Step
<1>2. Paused(g)
  BY SetStepTimed
<1>3. Own(e, "precommit", e.round) = None
  BY DEF StepFits
<1>4. g.votes["precommit"][g.round][Me] = None /\ "precommit" \in VoteType
  BY <1>1, <1>3 DEF Own, VoteType
<1> HIDE DEF g
<1>5. CastOutcome(g, "precommit", b) \in outcomes
  BY <1>4, NoneIsNoBallot DEF CastOutcome, LocalBallot
<1>6. h \in EngineState /\ Paused(h) /\ h.step = "precommit"
  BY <1>1, <1>2, <1>4, CastPaused
<1>7. CastAndSchedule(g, "precommit", b, outcomes) = Schedule(h, "precommit")
  BY <1>5 DEF CastAndSchedule
<1> HIDE DEF h
<1>8. Timed(Schedule(h, "precommit"))
  BY <1>6, ScheduleTimed
<1> QED BY <1>7, <1>8 DEF g

\* The same for a prevote; in the prevote step a conflict leaves all as it is.
LEMMA CastPrevoteTimed ==
    ASSUME NEW e \in EngineState, Paused(e), e.step = "prevote" => TimerHeld(e),
           e.step # "precommit", NEW b \in Ballot, NEW outcomes, {"cast", "same"} \subseteq outcomes
    PROVE  LET g == SetStep(e, "prevote")
               h == CastAndSchedule(g, "prevote", b, outcomes)
           IN  Timed(h) /\ (e.step = "propose" => CastOutcome(g, "prevote", b) = "cast")
<1> DEFINE g == SetStep(e, "prevote")
           h == CastLocalVote(g, "prevote", b)
<1>0. Paused(e) /\ e.step \in Step
  BY DEF EngineState
<1>1. g \in EngineState /\ g.step = "prevote" /\ g.votes = e.votes /\ g.round = e.round
  BY SetStepEffect DEF Step
<1>2. Paused(g) /\ (e.step = "prevote" => Still(e, g))
  BY <1>0, SetStepTimed
<1>3. e.step = "propose" => g.votes["prevote"][g.round][Me] = None
  BY <1>0, <1>1 DEF Own, Paused, Unvoted
<1>4. LocalBallot(g, "prevote", b) \in Ballot
  BY DEF LocalBallot, LocalPrevote, Ballot
<1> HIDE DEF g
<1>5. e.step = "propose" => CastOutcome(g, "prevote", b) = "cast"
  BY <1>3, <1>4, NoneIsNoBallot DEF CastOutcome
<1>6. CASE CastOutcome(g, "prevote", b) \in outcomes
  <2>1. h \in EngineState /\ Paused(h) /\ h.step = "prevote"
    BY <1>1, <1>2, CastPaused DEF VoteType
  <2>2. CastAndSchedule(g, "prevote", b, outcomes) = Schedule(h, "prevote")
    BY <1>6 DEF CastAndSchedule
  <2> HIDE DEF h
  <2>3. Timed(Schedule(h, "prevote"))
    BY <2>1, ScheduleTimed
  <2> QED BY <1>5, <2>2, <2>3 DEF g
<1>7. CASE CastOutcome(g, "prevote", b) \notin outcomes
  <2>1. e.step = "prevote"
    BY <1>0, <1>5, <1>7 DEF Step
  <2>2. CastAndSchedule(g, "prevote", b, outcomes) = g
    BY <1>7 DEF CastAndSchedule, CastLocalVote
  <2>3. Timed(g)
    BY <1>2, <2>1, StillTimed DEF Timed
  <2> QED BY <1>5, <2>2, <2>3 DEF g
<1> QED BY <1>6, <1>7

-----------------------------------------------------------------------------
(* Finality and rounds *)

\* emit_finalized: a final height needs no timer.
LEMMA EmitFinalizedTimed ==
    ASSUME NEW e \in EngineState, Paused(e), NEW r, NEW v, NEW send
    PROVE  Timed(EmitFinalized(e, r, v, send))
<1> DEFINE message == [kind |-> "finalize", round |-> r, ballot |-> v,
                       own |-> send /\ e.votes["precommit"][r][Me] = v]
           q == IF send THEN Append(e.outputs, message) ELSE e.outputs
           f == [e EXCEPT !.finalized = TRUE, !.pending_finalized = message, !.outputs = q]
<1>1. CASE e.pending_finalized # None
  BY <1>1 DEF EmitFinalized, Timed, Paused, TimerHeld
<1>2. CASE e.pending_finalized = None
  <2>1. EmitFinalized(e, r, v, send) = f
    BY <1>2 DEF EmitFinalized
  <2> HIDE DEF message, q
  <2>2. /\ f.round = e.round /\ f.step = e.step /\ f.votes = e.votes
        /\ f.armed = e.armed /\ f.vote_timers = e.vote_timers /\ f.finalized
    BY DEF EngineState
  <2> HIDE DEF f
  <2>3. Timed(f)
    BY <2>2 DEF Timed, Paused, TimersFit, Unvoted, TimerHeld, Own
  <2> QED BY <2>1, <2>3
<1> QED BY <1>1, <1>2

\* emit_local_finalize leaves the engine as it is or makes the height final.
LEMMA EmitLocalTimed ==
    ASSUME NEW e \in EngineState, Paused(e), NEW r, NEW v
    PROVE  LET f == EmitLocalFinalize(e, r, v)
           IN  /\ e.proposal_cache[v] = "bundle" => Timed(f)
               /\ Timed(e) => Timed(f)
               /\ Touched(e) => Touched(f)
<1>1. Timed(EmitFinalized(e, r, v, TRUE))
  BY EmitFinalizedTimed
<1> QED BY <1>1 DEF EmitLocalFinalize, Touched, Timed

\* finalize_quorum.
LEMMA FinalizeQuorumTimed ==
    ASSUME NEW e \in EngineState, Timed(e)
    PROVE  Timed(FinalizeQuorum(e))
<1>1. Paused(e)
  BY DEF Timed
<1>2. \A v : Timed(EmitLocalFinalize(e, e.round, v))
  BY <1>1, EmitLocalTimed
<1> QED BY <1>2 DEF FinalizeQuorum

\* start_round arms the timer of the propose step.
LEMMA StartRoundTimed ==
    ASSUME NEW e \in EngineState, e.pending_finalized # None => e.finalized, NEW r \in Round
    PROVE  Timed(StartRound(e, r)) /\ StartRound(e, r).step = "propose"
<1> DEFINE w == [t \in VoteType |-> [e.votes[t] EXCEPT ![r] = NoVotes]]
           g == [e EXCEPT !.round = r, !.step = "propose", !.vote_timers = {},
                          !.votes = w, !.pending_prevote = None, !.armed = FALSE]
           f == [g EXCEPT !.armed = TRUE]
<1>1. StartRound(e, r) = f
  BY DEF StartRound, Schedule
<1> HIDE DEF w
<1>3. f.armed /\ f.vote_timers = {}
  BY DEF EngineState
<1> HIDE DEF f
<1>2. /\ f.round = r /\ f.step = "propose" /\ f.finalized = e.finalized
      /\ f.pending_finalized = e.pending_finalized
      /\ \A t \in VoteType, s \in Round, p \in Validator :
            f.votes[t][s][p] = IF s = r THEN None ELSE e.votes[t][s][p]
  BY <1>1, StartRoundEffect
<1>4. Unvoted(f)
  BY <1>2, EngineAssumption DEF Unvoted, Own, VoteType
<1>5. Paused(f)
  BY <1>2, <1>3, <1>4 DEF Paused, TimersFit
<1> QED BY <1>1, <1>2, <1>3, <1>5 DEF Timed, TimerHeld

\* realign_round.
LEMMA RealignRoundTimed ==
    ASSUME NEW e \in EngineState, e.pending_finalized # None => e.finalized, NEW r \in Round
    PROVE  Timed(RealignRound(e, r)) /\ RealignRound(e, r).step = "propose"
<1> DEFINE n == e.generation + 1
           g == [e EXCEPT !.generation = n]
<1>1. n \in Nat
  BY EngineTypes
<1>2. RealignRound(e, r) = StartRound(g, r)
  BY DEF RealignRound
<1> HIDE DEF n
<1>3. /\ g \in EngineState /\ g.pending_finalized = e.pending_finalized
      /\ g.finalized = e.finalized
  BY <1>1 DEF EngineState
<1> HIDE DEF g
<1> QED BY <1>2, <1>3, StartRoundTimed

\* start_height for the height the engine is in.
LEMMA SameHeightTimed ==
    ASSUME NEW e \in EngineState, e.pending_finalized # None => e.finalized, ResumeRound(e) \in Round
    PROVE  Timed(StartSameHeight(e)) /\ StartSameHeight(e).step = "propose"
<1> DEFINE n == e.generation + 1
           h == [p \in Validator |-> NoRound]
           g == [e EXCEPT !.generation = n, !.outputs = <<>>, !.higher_round_evidence = h]
<1>1. n \in Nat /\ h \in [Validator -> Int] /\ <<>> \in Seq(Output)
  BY EngineTypes DEF NoRound
<1>2. StartSameHeight(e) = StartRound(g, ResumeRound(e))
  BY DEF StartSameHeight
<1> HIDE DEF n, h
<1>3. /\ g \in EngineState /\ g.pending_finalized = e.pending_finalized
      /\ g.finalized = e.finalized
  BY <1>1 DEF EngineState
<1> HIDE DEF g
<1> QED BY <1>2, <1>3, StartRoundTimed

\* try_round_skip stays in its round or opens a later one.
LEMMA TryRoundSkipTimed ==
    ASSUME NEW e \in EngineState, Timed(e), NEW ready
    PROVE  Timed(TryRoundSkip(e, ready))
<1> DEFINE h == [p \in Validator |-> NoRound]
           g == [e EXCEPT !.higher_round_evidence = h]
           r == Max(RoundSkipTargets(e))
<1>1. CASE ready /\ ~e.finalized /\ RoundSkipTargets(e) # {}
  <2>1. TryRoundSkip(e, ready) = RealignRound(g, r)
    BY <1>1 DEF TryRoundSkip
  <2>2. r \in Round
    BY <1>1, MaxRoundOf DEF RoundSkipTargets
  <2>3. h \in [Validator -> Int]
    BY DEF NoRound
  <2> HIDE DEF h, r
  <2>4. /\ g \in EngineState /\ g.pending_finalized = e.pending_finalized
        /\ g.finalized = e.finalized
    BY <2>3 DEF EngineState
  <2>5. g.pending_finalized # None => g.finalized
    BY <2>4 DEF Timed, Paused
  <2> HIDE DEF g
  <2> QED BY <2>1, <2>2, <2>4, <2>5, RealignRoundTimed
<1>2. CASE ~(ready /\ ~e.finalized /\ RoundSkipTargets(e) # {})
  BY <1>2 DEF TryRoundSkip
<1> QED BY <1>1, <1>2

\* record_higher_round, then the skip.
LEMMA HigherRoundTimed ==
    ASSUME NEW e \in EngineState, Timed(e), NEW r \in Round, NEW p \in Validator, NEW ahead, NEW ready
    PROVE  Timed(TryRoundSkip(RecordHigherRound(e, r, p, ahead), ready))
<1> DEFINE g == RecordHigherRound(e, r, p, ahead)
<1>1. g \in EngineState
  BY RecordHigherRoundAside DEF Aside, Around
<1>2. Still(e, g)
  BY FieldsStill DEF RecordHigherRound
<1> HIDE DEF g
<1> QED BY <1>1, <1>2, StillTimed, TryRoundSkipTimed DEF g

\* The head of on_propose and on_vote, and on_round_sync.
LEMMA NoteRoundTimed ==
    ASSUME NEW e \in EngineState, Timed(e), NEW r \in Round, NEW p \in Validator, NEW ready
    PROVE  Timed(NoteRound(e, r, p, ready)) /\ Timed(OnRoundSync(e, r, p, ready))
BY HigherRoundTimed DEF NoteRound, OnRoundSync

-----------------------------------------------------------------------------
(* Resuming *)

\* The nil precommit behind a quorum of nil prevotes.
LEMMA PrecommitNilTimed ==
    ASSUME NEW e \in EngineState, StepFits(e), Timed(e), NEW can
    PROVE  Timed(PrecommitNil(e, can))
<1>1. e.step = "prevote" =>
         Timed(CastAndSchedule(SetStep(e, "precommit"), "precommit", Nil,
                               {"cast", "same", "deferred"}))
  BY CastPrecommitTimed DEF Ballot, Timed
<1> QED BY <1>1 DEF PrecommitNil

\* A prevote decided while voting was off.
LEMMA ResumePrevoteTimed ==
    ASSUME NEW e \in EngineState, Timed(e)
    PROVE  Timed(ResumePrevote(e))
<1> DEFINE g == [e EXCEPT !.pending_prevote = None]
           b == e.pending_prevote
<1>1. CASE b = None
  BY <1>1 DEF ResumePrevote
<1>2. CASE b # None
  <2>1. Still(e, g) /\ g \in EngineState
    BY FieldsStill DEF EngineState
  <2>2. b \in Ballot /\ g.step = e.step /\ e.step \in Step
    BY <1>2, <2>1 DEF EngineState, Still
  <2>3. Timed(g)
    BY <2>1, StillTimed
  <2> HIDE DEF g
  <2>4. CASE e.step \in {"propose", "prevote"}
    <3>1. ResumePrevote(e) =
             CastAndSchedule(SetStep(g, "prevote"), "prevote", b, {"cast", "same"})
      BY <1>2, <2>4 DEF ResumePrevote, g
    <3> HIDE DEF b
    <3> QED BY <2>1, <2>2, <2>3, <2>4, <3>1, CastPrevoteTimed DEF Timed
  <2>5. CASE e.step = "precommit"
    BY <1>2, <2>3, <2>5 DEF ResumePrevote, g
  <2> QED BY <2>2, <2>4, <2>5 DEF Step
<1> QED BY <1>1, <1>2

\* The lock on a value and the precommit for it.
LEMMA LockAndCastTimed ==
    ASSUME NEW e \in EngineState, StepFits(e), Paused(e), e.step # "precommit", NEW v \in Value
    PROVE  LET g == SetStep(TakeLock(e, v), "precommit")
               h == CastLocalVote(g, "precommit", v)
           IN  /\ Timed(CastAndSchedule(g, "precommit", v, {"cast", "same", "deferred"}))
               /\ Timed(Schedule(h, "precommit"))
               /\ h \in EngineState /\ Paused(h) /\ h.proposal_cache = e.proposal_cache
               /\ Still(e, TakeLock(e, v))
<1> DEFINE f == TakeLock(e, v)
           g == SetStep(f, "precommit")
           h == CastLocalVote(g, "precommit", v)
<1>1. e.round \in Round
  BY EngineTypes
<1>2. /\ f \in EngineState /\ f.proposal_cache = e.proposal_cache
      /\ f.step = e.step /\ f.votes = e.votes /\ f.round = e.round
  BY <1>1 DEF TakeLock, EngineState
<1>3. Still(e, f)
  BY FieldsStill DEF TakeLock
<1>4. StepFits(f)
  BY <1>2 DEF StepFits, Own
<1>5. Paused(f)
  BY <1>3, StillTimed
<1> HIDE DEF f
<1>6. Timed(CastAndSchedule(g, "precommit", v, {"cast", "same", "deferred"}))
  BY <1>2, <1>4, <1>5, CastPrecommitTimed DEF Ballot
<1>7. /\ g \in EngineState /\ Paused(g) /\ g.step = "precommit"
      /\ g.proposal_cache = e.proposal_cache
  BY <1>2, <1>5, SetStepEffect, SetStepTimed DEF Step
<1> HIDE DEF g
<1>8. /\ h \in EngineState /\ Paused(h) /\ h.step = "precommit"
      /\ h.proposal_cache = e.proposal_cache
  BY <1>7, CastPaused DEF Ballot, VoteType
<1> HIDE DEF h
<1>9. Timed(Schedule(h, "precommit"))
  BY <1>8, ScheduleTimed
<1> QED BY <1>3, <1>6, <1>8, <1>9 DEF f, g, h

\* A POLC of the round first.
LEMMA PolcAndCastTimed ==
    ASSUME NEW e \in EngineState, StepFits(e), Paused(e), e.step # "precommit",
           NEW r \in Round, NEW v \in Value
    PROVE  LET g == SetStep(TakeLock(RecordPolc(e, r, v), v), "precommit")
               h == CastLocalVote(g, "precommit", v)
           IN  /\ Timed(CastAndSchedule(g, "precommit", v, {"cast", "same", "deferred"}))
               /\ Timed(Schedule(h, "precommit"))
               /\ h \in EngineState /\ Paused(h) /\ h.proposal_cache = e.proposal_cache
<1> DEFINE f == RecordPolc(e, r, v)
<1>1. Still(e, f) /\ Aside(e, f)
  BY RecordPolcStill, RecordPolcAside DEF Ballot
<1>2. f.proposal_cache = e.proposal_cache
  BY DEF RecordPolc, PromoteKnownHeader, EngineState
<1>3. f \in EngineState /\ f.step = e.step
  BY <1>1 DEF Aside, Around
<1>4. StepFits(f) /\ Paused(f)
  BY <1>1, StillTimed DEF Still, StepFits, Own
<1> HIDE DEF f
<1> QED BY <1>2, <1>3, <1>4, LockAndCastTimed DEF f

\* A prevote quorum whose proposal has come.
LEMMA ResumePrecommitTimed ==
    ASSUME NEW e \in EngineState, StepFits(e), Timed(e)
    PROVE  Timed(ResumePrecommit(e))
<1> DEFINE ready == {v \in Value : QuorumResult(e, "prevote", v) /\ HasMessage(e, v, e.round)}
           v == CHOOSE v \in ready : TRUE
<1>1. CASE e.step = "precommit" \/ ready = {}
  BY <1>1 DEF ResumePrecommit
<1>2. CASE ~(e.step = "precommit" \/ ready = {})
  <2>1. v \in Value
    BY <1>2
  <2>2. ResumePrecommit(e) =
           CastAndSchedule(SetStep(TakeLock(RecordPolc(e, e.round, v), v), "precommit"),
                           "precommit", v, {"cast", "same", "deferred"})
    BY <1>2 DEF ResumePrecommit
  <2> HIDE DEF v
  <2> QED BY <1>2, <2>1, <2>2, PolcAndCastTimed, EngineTypes DEF Timed
<1> QED BY <1>1, <1>2

\* resume_voting.
LEMMA ResumeVotingTimed ==
    ASSUME NEW e, NEW lg \in LogTable, NEW sv, Fits(e, lg, sv), Timed(e)
    PROVE  Timed(ResumeVoting(e))
<1> DEFINE f == ResumePrevote(e)
           g == PrecommitNil(f, TRUE)
           h == ResumePrecommit(g)
<1>1. Fits(f, lg, sv) /\ Timed(f)
  BY ResumePrevoteFits, ResumePrevoteTimed DEF Fits
<1> HIDE DEF f
<1>2. Fits(g, lg, sv) /\ Timed(g)
  BY <1>1, PrecommitNilFits, PrecommitNilTimed DEF Fits
<1> HIDE DEF g
<1>3. Fits(h, lg, sv) /\ Timed(h)
  BY <1>2, ResumePrecommitFits, ResumePrecommitTimed DEF Fits
<1>4. ResumeVoting(e) = IF h.finalized THEN h ELSE FinalizeQuorum(h)
  BY DEF ResumeVoting, f, g
<1> HIDE DEF h
<1> QED BY <1>3, <1>4, FinalizeQuorumTimed DEF Fits

\* on_ready.
LEMMA OnReadyTimed ==
    ASSUME NEW e, NEW lg \in LogTable, NEW sv, Fits(e, lg, sv), Timed(e), NEW can
    PROVE  Timed(OnReady(e, can))
<1> DEFINE f == IF can THEN ResumeVoting(e) ELSE e
<1>1. Fits(f, lg, sv) /\ Timed(f)
  BY ResumeVotingFits, ResumeVotingTimed
<1>2. OnReady(e, can) = IF RoundWait /\ f.step = "prevote" THEN Schedule(f, "prevote") ELSE f
  BY DEF OnReady
<1> HIDE DEF f
<1> QED BY <1>1, <1>2, ScheduleTimed DEF Fits, Timed

-----------------------------------------------------------------------------
(* Proposals *)

\* The start of do_propose and on_propose: the message, the step, the prevote.
LEMMA ProposePrevote ==
    ASSUME NEW e, NEW lg \in LogTable, NEW sv, Fits(e, lg, sv), Paused(e),
           e.step # "precommit", NEW b \in Ballot
    PROVE  LET g == SetStep(e, "prevote")
               h == CastLocalVote(g, "prevote", b)
           IN  /\ h \in EngineState /\ StepFits(h) /\ Paused(h)
               /\ h.step = "prevote" /\ h.round = e.round
               /\ h.proposal_cache = e.proposal_cache
               /\ e.step = "propose" => CastOutcome(g, "prevote", b) = "cast"
<1> DEFINE g == SetStep(e, "prevote")
           h == CastLocalVote(g, "prevote", b)
<1>1. e \in EngineState /\ "prevote" \in Step /\ "prevote" \in VoteType
  BY DEF Fits, Step, VoteType
<1>2. /\ g \in EngineState /\ g.step = "prevote" /\ g.votes = e.votes /\ g.round = e.round
      /\ g.proposal_cache = e.proposal_cache
  BY <1>1, SetStepEffect
<1>3. Paused(g) /\ Fits(g, lg, sv)
  BY <1>1, SetStepTimed, SetStepFits
<1>4. e.step = "propose" => g.votes["prevote"][g.round][Me] = None
  BY <1>2 DEF Own, Paused, Unvoted
<1>5. LocalBallot(g, "prevote", b) \in Ballot
  BY DEF LocalBallot, LocalPrevote, Ballot
<1> HIDE DEF g
<1>6. e.step = "propose" => CastOutcome(g, "prevote", b) = "cast"
  BY <1>4, <1>5, NoneIsNoBallot DEF CastOutcome
<1>7. /\ h \in EngineState /\ Paused(h) /\ h.step = "prevote" /\ h.round = e.round
      /\ h.proposal_cache = e.proposal_cache
  BY <1>1, <1>2, <1>3, CastPaused
<1>8. Fits(h, lg, sv)
  BY <1>1, <1>3, CastFits
<1> HIDE DEF h
<1> QED BY <1>6, <1>7, <1>8 DEF Fits, g, h

\* do_propose.
LEMMA DoProposeTimed ==
    ASSUME NEW e, NEW lg \in LogTable, NEW sv, Fits(e, lg, sv), Timed(e),
           NEW new \in Value, e.step = "propose"
    PROVE  Timed(DoPropose(e, new))
<1> DEFINE reuse == e.valid_round >= 0
           v == IF reuse THEN e.valid_value ELSE new
           vr == IF reuse THEN e.valid_round ELSE NoRound
           f == CacheProposalMessage(e, v, e.round, vr)
           e1 == SetStep(f, "prevote")
           outcome == CastOutcome(e1, "prevote", v)
           e2 == CastLocalVote(e1, "prevote", v)
           e3 == SetStep(TakeLock(IF Stake THEN RecordPolc(e2, e2.round, v) ELSE e2, v), "precommit")
           e4 == CastLocalVote(e3, "precommit", v)
           ahead == outcome = "cast" /\ LocalPrevote(e1, v) = v /\ QuorumOf(e2, "prevote", e.round, v)
           decided == CastOutcome(e3, "precommit", v) = "cast" /\ QuorumOf(e4, "precommit", e.round, v)
<1>1. e \in EngineState /\ v \in Value /\ vr \in Round \cup {NoRound} /\ e.round \in Round
  BY EngineTypes DEF Fits, ValidKnown, EngineState
<1>2. DoPropose(e, new) =
         IF ahead
         THEN IF decided THEN EmitLocalFinalize(e4, e.round, v) ELSE Schedule(e4, "precommit")
         ELSE IF outcome \in {"cast", "same"} THEN Schedule(e2, "prevote") ELSE e2
  BY DEF DoPropose
<1> HIDE DEF v, vr
<1>3. Still(e, f) /\ Aside(e, f) /\ f.proposal_cache[v] = "bundle"
  BY <1>1, CacheMessageStill, CacheProposalMessageAside
<1>4. Fits(f, lg, sv) /\ Paused(f) /\ f.step = "propose"
  BY <1>3, StillTimed, AsideFits DEF Timed, Still
<1> HIDE DEF f
<1>5. /\ e2 \in EngineState /\ StepFits(e2) /\ Paused(e2) /\ e2.step = "prevote"
      /\ e2.proposal_cache = f.proposal_cache /\ outcome = "cast" /\ e2.round \in Round
  BY <1>1, <1>4, ProposePrevote, EngineTypes DEF Ballot
<1> HIDE DEF e1, e2, outcome
<1>6. Timed(Schedule(e2, "prevote"))
  BY <1>5, ScheduleTimed
<1>7. /\ e4 \in EngineState /\ Paused(e4) /\ e4.proposal_cache = e2.proposal_cache
      /\ Timed(Schedule(e4, "precommit"))
  <2>1. CASE Stake
    BY <1>1, <1>5, <2>1, PolcAndCastTimed
  <2>2. CASE ~Stake
    BY <1>1, <1>5, <2>2, LockAndCastTimed
  <2> QED BY <2>1, <2>2
<1> HIDE DEF e3, e4, ahead, decided
<1>8. Timed(EmitLocalFinalize(e4, e.round, v))
  BY <1>3, <1>5, <1>7, EmitLocalTimed
<1> QED BY <1>2, <1>5, <1>6, <1>7, <1>8

\* on_propose in the round of the proposal.
LEMMA ProposalInRoundTimed ==
    ASSUME NEW e, NEW lg \in LogTable, NEW sv, Fits(e, lg, sv), Timed(e),
           NEW v \in Value, NEW vr \in Round \cup {NoRound},
           NEW valid \in BOOLEAN, NEW can \in BOOLEAN
    PROVE  Timed(ProposalInRound(e, v, vr, valid, can))
<1> DEFINE accept == valid /\ LockAllows(e, v, vr)
           ballot == IF accept THEN v ELSE Nil
           e1 == IF valid THEN CacheProposalMessage(e, v, e.round, vr) ELSE e
           e2 == SetStep(e1, "prevote")
           e3 == CastLocalVote(e2, "prevote", ballot)
           e4 == SetStep(TakeLock(RecordPolc(e3, e.round, v), v), "precommit")
           e5 == CastLocalVote(e4, "precommit", v)
           h == CastAndSchedule(e2, "prevote", ballot, {"cast", "same"})
           e6 == [e1 EXCEPT !.pending_prevote = ballot]
           over == valid /\ can /\ QuorumResult(e1, "precommit", v)
           late == e.pending_prevote = None /\ e.votes["prevote"][e.round][Me] = None
           ahead == accept /\ QuorumResult(e3, "prevote", v)
           decided == CastOutcome(e4, "precommit", v) = "cast" /\ QuorumOf(e5, "precommit", e.round, v)
<1>1. e \in EngineState /\ e.round \in Round /\ ballot \in Ballot
  BY EngineTypes DEF Fits, Ballot
<1>2. ProposalInRound(e, v, vr, valid, can) =
         IF over THEN EmitLocalFinalize(e1, e.round, v)
         ELSE IF e.step = "precommit" THEN e1
         ELSE IF ~can THEN IF late THEN e6 ELSE e1
         ELSE IF ahead
         THEN IF decided THEN EmitLocalFinalize(e5, e.round, v) ELSE Schedule(e5, "precommit")
         ELSE PrecommitNil(h, can)
  BY DEF ProposalInRound
<1>3. accept => valid
  OBVIOUS
<1> HIDE DEF accept, ballot
<1>4. Still(e, e1) /\ Aside(e, e1) /\ (valid => e1.proposal_cache[v] = "bundle")
  BY <1>1, CacheMessageStill, CacheProposalMessageAside, FieldsStill, AsideSelf
<1>5. Fits(e1, lg, sv) /\ Timed(e1) /\ Paused(e1) /\ e1 \in EngineState /\ e1.step = e.step
  BY <1>4, StillTimed, AsideFits DEF Timed, Fits, Still
<1> HIDE DEF e1, over, late, ahead, decided
<1>6. Timed(EmitLocalFinalize(e1, e.round, v))
  BY <1>5, EmitLocalTimed
<1>7. Timed(e6)
  BY <1>5, FieldsStill, StillTimed
<1> HIDE DEF e6
<1>8. ASSUME e.step # "precommit" PROVE Timed(PrecommitNil(h, can))
  <2>1. Timed(h)
    BY <1>1, <1>5, <1>8, CastPrevoteTimed DEF Timed
  <2>2. Fits(h, lg, sv)
    BY <1>1, <1>5, <1>8, PrevoteFits
  <2> HIDE DEF h
  <2> QED BY <2>1, <2>2, PrecommitNilTimed DEF Fits
<1> HIDE DEF h
<1>9. ASSUME e.step # "precommit", ahead
      PROVE  Timed(EmitLocalFinalize(e5, e.round, v)) /\ Timed(Schedule(e5, "precommit"))
  <2>1. /\ e3 \in EngineState /\ StepFits(e3) /\ Paused(e3) /\ e3.step = "prevote"
        /\ e3.proposal_cache = e1.proposal_cache
    BY <1>1, <1>5, <1>9, ProposePrevote
  <2> HIDE DEF e3, e2
  <2>2. /\ e5 \in EngineState /\ Paused(e5) /\ e5.proposal_cache = e3.proposal_cache
        /\ Timed(Schedule(e5, "precommit"))
    BY <1>1, <2>1, PolcAndCastTimed
  <2>3. valid
    BY <1>3, <1>9 DEF ahead
  <2> HIDE DEF e4, e5
  <2> QED BY <1>4, <2>1, <2>2, <2>3, EmitLocalTimed
<1> HIDE DEF e2, e3, e4, e5
<1> QED BY <1>2, <1>5, <1>6, <1>7, <1>8, <1>9

\* on_propose and learn_past_proposal.
LEMMA OnProposeTimed ==
    ASSUME NEW e, NEW lg \in LogTable, NEW sv, Fits(e, lg, sv), Timed(e),
           NEW r \in Round, NEW v \in Value, NEW vr \in Round \cup {NoRound},
           NEW valid \in BOOLEAN, NEW can \in BOOLEAN, NEW ready
    PROVE  /\ Timed(OnPropose(e, r, v, vr, valid, can, ready))
           /\ Timed(LearnPastProposal(e, r, v, vr, valid))
<1> DEFINE f == NoteRound(e, r, Leader[r], ready)
<1>1. e \in EngineState /\ Leader[r] \in Validator
  BY EngineAssumption DEF Fits, Round
<1>2. Fits(f, lg, sv) /\ Timed(f)
  BY <1>1, NoteRoundFits, NoteRoundTimed
<1>3. OnPropose(e, r, v, vr, valid, can, ready) =
         IF e.finalized \/ r > e.round + MaxRoundAhead THEN e
         ELSE IF r = f.round THEN ProposalInRound(f, v, vr, valid, can) ELSE f
  BY DEF OnPropose
<1> HIDE DEF f
<1>4. Timed(ProposalInRound(f, v, vr, valid, can))
  BY <1>2, ProposalInRoundTimed
<1>5. Timed(CacheProposalMessage(e, v, r, vr))
  BY <1>1, CacheMessageStill, StillTimed
<1> QED BY <1>2, <1>3, <1>4, <1>5 DEF LearnPastProposal

-----------------------------------------------------------------------------
(* Votes of the network *)

\* A vote of an earlier round.
LEMMA HistoricalTimed ==
    ASSUME NEW e, NEW lg \in LogTable, NEW sv, Fits(e, lg, sv), Timed(e),
           NEW r \in Round, r < e.round, NEW p \in Validator, NEW b \in Ballot, NEW can
    PROVE  /\ Timed(RecordHistoricalPrevote(e, r, p, b))
           /\ Timed(RecordHistoricalPrecommit(e, r, p, b, can))
<1>1. e \in EngineState /\ Paused(e) /\ r # e.round
  BY EngineTypes DEF Fits, Timed, Round
<1>2. ASSUME NEW t \in VoteType
      PROVE  Timed(AddVote(e, t, r, p, b)) /\ AddVote(e, t, r, p, b) \in EngineState
  BY <1>1, AddVoteTimed, AddVoteEffect DEF Around
<1>3. Timed(RecordHistoricalPrevote(e, r, p, b))
  <2> DEFINE f == AddVote(e, "prevote", r, p, b)
  <2>1. Timed(f) /\ f \in EngineState
    BY <1>2 DEF VoteType
  <2> HIDE DEF f
  <2>2. Timed(LearnPrevote(f, r, p, b))
    BY <2>1, LearnPrevoteStill, StillTimed
  <2> QED BY <2>2 DEF RecordHistoricalPrevote, f
<1>4. Timed(RecordHistoricalPrecommit(e, r, p, b, can))
  <2> DEFINE f == AddVote(e, "precommit", r, p, b)
  <2>1. Timed(f) /\ f \in EngineState
    BY <1>2 DEF VoteType
  <2>2. RecordHistoricalPrecommit(e, r, p, b, can) \in {f, EmitLocalFinalize(f, r, b)}
    BY DEF RecordHistoricalPrecommit
  <2> HIDE DEF f
  <2> QED BY <2>1, <2>2, EmitLocalTimed DEF Timed
<1> QED BY <1>3, <1>4

\* A vote of the round before the tail of on_vote.  An own one that comes back
\* is in the tables: the log has it.
LEMMA VoteTouches ==
    ASSUME NEW e, NEW lg \in LogTable, NEW sv, Fits(e, lg, sv), Timed(e),
           NEW t \in VoteType, NEW p \in Validator, NEW b \in Ballot,
           p = Me => lg[t][e.round] = b
    PROVE  LET f == AddVote(e, t, e.round, p, b)
           IN  /\ Fits(f, lg, sv) /\ Touched(f)
               /\ f.round = e.round /\ f.step = e.step
<1>1. e \in EngineState /\ Paused(e) /\ e.round \in Round /\ Touched(e)
  BY EngineTypes DEF Fits, Timed, Touched
<1>2. p = Me => e.votes[t][e.round][p] # None
  BY <1>1, NoneIsNoBallot DEF Fits, NothingAhead, Own
<1>3. Fits(AddVote(e, t, e.round, p, b), lg, sv) /\ Around(e, AddVote(e, t, e.round, p, b))
  BY <1>1, AddVoteFits
<1> QED BY <1>1, <1>2, <1>3, AddVoteTimed DEF Around

\* A prevote quorum in the round.
LEMMA PrevoteQuorumTouched ==
    ASSUME NEW e, NEW lg \in LogTable, NEW sv, Fits(e, lg, sv), Touched(e),
           NEW b \in Ballot, e.step = "prevote", NEW can
    PROVE  Touched(PrevoteQuorum(e, b, can))
<1>1. e \in EngineState /\ StepFits(e) /\ Paused(e)
  BY DEF Fits, Touched
<1>2. CASE b # Nil /\ ~HasMessage(e, b, e.round)
  BY <1>2 DEF PrevoteQuorum
<1>3. CASE b = Nil
  <2>1. PrevoteQuorum(e, b, can) =
           IF can THEN CastAndSchedule(SetStep(e, "precommit"), "precommit", b,
                                       {"cast", "same", "deferred"})
           ELSE e
    BY <1>3 DEF PrevoteQuorum
  <2>2. Timed(CastAndSchedule(SetStep(e, "precommit"), "precommit", b,
                              {"cast", "same", "deferred"}))
    BY <1>1, <1>3, CastPrecommitTimed
  <2> QED BY <2>1, <2>2 DEF Touched, Timed
<1>4. CASE b # Nil /\ HasMessage(e, b, e.round)
  <2> DEFINE f == TakeLock(e, b)
  <2>1. PrevoteQuorum(e, b, can) =
           IF can THEN CastAndSchedule(SetStep(f, "precommit"), "precommit", b,
                                       {"cast", "same", "deferred"})
           ELSE f
    BY <1>4 DEF PrevoteQuorum
  <2>2. /\ Timed(CastAndSchedule(SetStep(f, "precommit"), "precommit", b,
                                 {"cast", "same", "deferred"}))
        /\ Still(e, f)
    BY <1>1, <1>4, LockAndCastTimed DEF Ballot
  <2> HIDE DEF f
  <2>3. Touched(f)
    BY <1>1, <2>2, StillTimed DEF Touched, Timed, Still
  <2> QED BY <2>1, <2>2, <2>3 DEF Touched, Timed
<1> QED BY <1>2, <1>3, <1>4

\* A prevote of the round.
LEMMA PrevoteTouches ==
    ASSUME NEW e, NEW lg \in LogTable, NEW sv, Fits(e, lg, sv), Timed(e),
           NEW p \in Validator, NEW b \in Ballot, NEW can \in BOOLEAN,
           p = Me => lg["prevote"][e.round] = b
    PROVE  Touched(PrevoteInRound(e, p, b, can))
<1> DEFINE f == AddVote(e, "prevote", e.round, p, b)
           g == LearnPrevote(f, e.round, p, b)
<1>0. e.round \in Round
  BY EngineTypes DEF Fits
<1>1. Fits(f, lg, sv) /\ Touched(f) /\ f.round = e.round /\ f.step = e.step
  BY VoteTouches DEF VoteType
<1>2. PrevoteInRound(e, p, b, can) \in
         {g} \cup (IF e.step = "prevote" THEN {PrevoteQuorum(g, b, can), Schedule(g, "prevote")} ELSE {})
  BY DEF PrevoteInRound
<1> HIDE DEF f
<1>3. Still(f, g) /\ Aside(f, g)
  BY <1>0, <1>1, LearnPrevoteStill, LearnPrevoteAside DEF Fits
<1>4. Fits(g, lg, sv)
  BY <1>1, <1>3, AsideFits
<1>5. Touched(g) /\ g.step = e.step
  BY <1>1, <1>3, StillTimed DEF Touched, Timed, Still
<1> HIDE DEF g
<1>6. CASE e.step = "prevote"
  <2>1. Touched(PrevoteQuorum(g, b, can))
    BY <1>4, <1>5, <1>6, PrevoteQuorumTouched
  <2>2. Touched(Schedule(g, "prevote"))
    BY <1>4, <1>5, <1>6, ScheduleTimed DEF Fits, Touched, Timed
  <2> QED BY <1>2, <1>5, <2>1, <2>2
<1> QED BY <1>2, <1>5, <1>6

\* A precommit of the round.
LEMMA PrecommitTouches ==
    ASSUME NEW e, NEW lg \in LogTable, NEW sv, Fits(e, lg, sv), Timed(e),
           NEW p \in Validator, NEW b \in Ballot, NEW can,
           p = Me => lg["precommit"][e.round] = b
    PROVE  Touched(PrecommitInRound(e, p, b, can))
<1> DEFINE f == AddVote(e, "precommit", e.round, p, b)
<1>1. Fits(f, lg, sv) /\ Touched(f)
  BY VoteTouches DEF VoteType
<1>2. PrecommitInRound(e, p, b, can) \in {f, EmitLocalFinalize(f, e.round, b)}
  BY DEF PrecommitInRound
<1> HIDE DEF f
<1>3. Touched(EmitLocalFinalize(f, e.round, b))
  BY <1>1, EmitLocalTimed DEF Fits, Touched
<1> QED BY <1>1, <1>2, <1>3

\* The tail of on_vote: the votes of the round that allow a timer arm it.
LEMMA AfterVoteTimed ==
    ASSUME NEW e \in EngineState, Touched(e)
    PROVE  Timed(AfterVote(e))
<1> DEFINE f == IF RoundWait /\ e.step = "prevote" THEN Schedule(e, "prevote") ELSE e
           waiting == \E v \in Value : QuorumResult(f, "precommit", v) /\ ~HeaderKnown(f, v)
           over == RoundWait /\ QuorumAny(f, "precommit", f.round) /\ ~waiting /\ ~f.finalized
<1>1. e.step \in Step /\ Paused(e)
  BY DEF EngineState, Touched
<1>2. AfterVote(e) = IF over THEN Schedule(SetStep(f, "precommit"), "precommit") ELSE f
  BY DEF AfterVote
<1>3. /\ f \in EngineState /\ Paused(f) /\ f.step = e.step
      /\ (e.step # "precommit" \/ ~RoundWait) => TimerHeld(f)
  <2>1. CASE RoundWait /\ e.step = "prevote"
    <3>1. Timed(f)
      BY <1>1, <2>1, ScheduleTimed
    <3>2. Aside(e, f)
      BY <2>1, ScheduleAside DEF Step
    <3> HIDE DEF f
    <3> QED BY <3>1, <3>2 DEF Timed, Aside, Around
  <2>2. CASE ~(RoundWait /\ e.step = "prevote")
    BY <1>1, <2>2 DEF Touched, Step
  <2> QED BY <2>1, <2>2
<1> HIDE DEF f
<1>4. Timed(Schedule(SetStep(f, "precommit"), "precommit"))
  <2> DEFINE g == SetStep(f, "precommit")
  <2>1. g \in EngineState /\ Paused(g) /\ g.step = "precommit"
    BY <1>3, SetStepEffect, SetStepTimed DEF Step
  <2> HIDE DEF g
  <2>2. Timed(Schedule(g, "precommit"))
    BY <2>1, ScheduleTimed
  <2> QED BY <2>2 DEF g
<1>5. ASSUME ~over PROVE TimerHeld(f)
  <2>1. CASE e.step # "precommit" \/ ~RoundWait
    BY <1>3, <2>1
  <2>2. CASE RoundWait /\ f.step = "precommit" /\ ~QuorumAny(f, "precommit", f.round)
    BY <2>2 DEF TimerHeld, TimerAllowed
  <2>3. CASE RoundWait /\ f.step = "precommit" /\ waiting
    BY <2>3 DEF TimerHeld
  <2>4. CASE f.finalized
    BY <2>4 DEF TimerHeld
  <2> QED BY <1>3, <1>5, <2>1, <2>2, <2>3, <2>4
<1> HIDE DEF waiting, over
<1> QED BY <1>2, <1>3, <1>4, <1>5 DEF Timed

\* on_vote.
LEMMA OnVoteTimed ==
    ASSUME NEW e, NEW lg \in LogTable, NEW sv, Fits(e, lg, sv), Timed(e),
           NEW t \in VoteType, NEW r \in Round, NEW p \in Validator, NEW b \in Ballot,
           NEW can \in BOOLEAN, NEW ready,
           p = Me => lg[t][r] = b
    PROVE  Timed(OnVote(e, t, r, p, b, can, ready))
<1> DEFINE f == NoteRound(e, r, p, ready)
           g == PrevoteInRound(f, p, b, can)
           h == PrecommitInRound(f, p, b, can)
<1>1. e \in EngineState
  BY DEF Fits
<1>2. Fits(f, lg, sv) /\ Timed(f)
  BY <1>1, NoteRoundFits, NoteRoundTimed
<1>3. OnVote(e, t, r, p, b, can, ready) =
         IF e.finalized \/ r > e.round + MaxRoundAhead THEN e
         ELSE IF r < e.round
         THEN IF t = "prevote" THEN RecordHistoricalPrevote(e, r, p, b)
              ELSE RecordHistoricalPrecommit(e, r, p, b, can)
         ELSE IF r # f.round THEN f
         ELSE IF t = "prevote" THEN AfterVote(g) ELSE AfterVote(h)
  BY DEF OnVote
<1>4. r < e.round => /\ Timed(RecordHistoricalPrevote(e, r, p, b))
                     /\ Timed(RecordHistoricalPrecommit(e, r, p, b, can))
  BY HistoricalTimed
<1> HIDE DEF f
<1>5. ASSUME r = f.round, t = "prevote" PROVE Timed(AfterVote(g))
  <2>1. Touched(g) /\ g \in EngineState
    BY <1>2, <1>5, PrevoteTouches, PrevoteInRoundFits DEF Fits
  <2> HIDE DEF g
  <2> QED BY <2>1, AfterVoteTimed
<1>6. ASSUME r = f.round, t = "precommit" PROVE Timed(AfterVote(h))
  <2>1. Touched(h)
    BY <1>2, <1>6, PrecommitTouches
  <2>2. h \in EngineState
    <3> DEFINE k == AddVote(f, "precommit", f.round, p, b)
    <3>1. Fits(k, lg, sv) /\ (HeaderKnown(k, b) => Fits(EmitLocalFinalize(k, f.round, b), lg, sv))
      BY <1>2, <1>6, LearnedPrecommitFits
    <3>2. h = k \/ (HeaderKnown(k, b) /\ h = EmitLocalFinalize(k, f.round, b))
      BY DEF PrecommitInRound
    <3> HIDE DEF k, h
    <3> QED BY <3>1, <3>2 DEF Fits
  <2> HIDE DEF h
  <2> QED BY <2>1, <2>2, AfterVoteTimed
<1> HIDE DEF g, h
<1> QED BY <1>2, <1>3, <1>4, <1>5, <1>6 DEF VoteType

-----------------------------------------------------------------------------
(* Timeouts, finality messages and the boot *)

\* A timer that has fired is off the clock.
Fired(e, t) == [e EXCEPT !.armed = @ /\ ~TimerCurrent(e, t)]

\* The engine when a timer fires: an earlier timer changes nothing, and with the
\* current one the step waits for what on_timeout does next.
LEMMA FiredEffect ==
    ASSUME NEW e \in EngineState, Timed(e), NEW t
    PROVE  LET f == Fired(e, t)
           IN  /\ f \in EngineState
               /\ f.round = e.round /\ f.step = e.step /\ f.votes = e.votes
               /\ f.vote_timers = e.vote_timers /\ f.finalized = e.finalized
               /\ f.pending_finalized = e.pending_finalized /\ f.generation = e.generation
               /\ TimerCurrent(f, t) <=> TimerCurrent(e, t)
               /\ TimerAllowed(f, t.step) <=> TimerAllowed(e, t.step)
               /\ ~TimerCurrent(e, t) => f = e
               /\ e.step = "propose" => Paused(f)
               /\ e.step = "prevote" => SetStep(f, "precommit") = SetStep(e, "precommit")
<1> DEFINE a == (e.armed /\ ~TimerCurrent(e, t))
           f == [e EXCEPT !.armed = a]
<1>1. Fired(e, t) = f /\ a \in BOOLEAN /\ (~TimerCurrent(e, t) => a = e.armed)
  BY DEF Fired, EngineState
<1> HIDE DEF a
<1>2. /\ f \in EngineState
      /\ f.round = e.round /\ f.step = e.step /\ f.votes = e.votes
      /\ f.vote_timers = e.vote_timers /\ f.finalized = e.finalized
      /\ f.pending_finalized = e.pending_finalized /\ f.generation = e.generation
  BY <1>1 DEF EngineState
<1>3. a = e.armed => f = e
  BY DEF EngineState
<1>4. e.step = "prevote" => SetStep(f, "precommit") = SetStep(e, "precommit")
  <2> SUFFICES ASSUME e.step = "prevote" PROVE SetStep(f, "precommit") = SetStep(e, "precommit")
    OBVIOUS
  <2>1. SetStep(e, "precommit") = [e EXCEPT !.step = "precommit", !.armed = FALSE]
    BY DEF SetStep, EngineState
  <2>2. SetStep(f, "precommit") = [f EXCEPT !.step = "precommit", !.armed = FALSE]
    BY <1>2 DEF SetStep, EngineState
  <2>3. [f EXCEPT !.step = "precommit", !.armed = FALSE] = [e EXCEPT !.step = "precommit", !.armed = FALSE]
    BY DEF EngineState
  <2> QED BY <2>1, <2>2, <2>3
<1> HIDE DEF f
<1>5. TimerCurrent(f, t) <=> TimerCurrent(e, t)
  BY <1>2 DEF TimerCurrent
<1>6. TimerAllowed(f, t.step) <=> TimerAllowed(e, t.step)
  BY <1>2 DEF TimerAllowed, QuorumAny, AllVoters
<1>7. e.step = "propose" => Paused(f)
  BY <1>2 DEF Timed, Paused, TimersFit, Unvoted, Own
<1> QED BY <1>1, <1>2, <1>3, <1>4, <1>5, <1>6, <1>7

\* on_timeout.
LEMMA OnTimeoutTimed ==
    ASSUME NEW e, NEW lg \in LogTable, NEW sv, Fits(e, lg, sv), Timed(e),
           NEW t, NEW can \in BOOLEAN, TimeoutEndsRound(e, t, can) => e.round < MaxRound
    PROVE  Timed(OnTimeout(Fired(e, t), t, can))
<1> DEFINE f == Fired(e, t)
           g == CastAndSchedule(SetStep(f, "prevote"), "prevote", Nil, {"cast", "same"})
           h == CastAndSchedule(SetStep(f, "precommit"), "precommit", Nil, {"cast", "same"})
           k == [f EXCEPT !.vote_timers = @ \ {t.step}]
<1>1. e \in EngineState /\ Paused(e) /\ StepFits(e) /\ e.round \in Round /\ e.step \in Step
  BY EngineTypes DEF Fits, Timed, EngineState
<1>2. /\ f \in EngineState
      /\ f.round = e.round /\ f.step = e.step /\ f.votes = e.votes
      /\ f.vote_timers = e.vote_timers /\ f.finalized = e.finalized
      /\ f.pending_finalized = e.pending_finalized /\ f.generation = e.generation
      /\ TimerCurrent(f, t) <=> TimerCurrent(e, t)
      /\ TimerAllowed(f, t.step) <=> TimerAllowed(e, t.step)
      /\ ~TimerCurrent(e, t) => f = e
      /\ e.step = "propose" => Paused(f)
      /\ e.step = "prevote" => SetStep(f, "precommit") = SetStep(e, "precommit")
  BY <1>1, FiredEffect
<1> HIDE DEF f
<1>3. OnTimeout(f, t, can) =
         IF ~TimerCurrent(f, t) THEN f
         ELSE IF ~TimerAllowed(f, t.step) THEN k
         ELSE IF t.step = "propose" /\ can THEN PrecommitNil(g, can)
         ELSE IF t.step = "prevote" /\ can THEN h
         ELSE IF TimeoutEndsRound(f, t, can) THEN StartRound(f, f.round + 1)
         ELSE IF t.step = "propose" THEN Schedule(f, "propose")
         ELSE Schedule(SetStep(f, "precommit"), "precommit")
  BY DEF OnTimeout
<1>4. CASE ~TimerCurrent(e, t)
  BY <1>2, <1>3, <1>4 DEF f
<1>5. CASE TimerCurrent(e, t) /\ ~TimerAllowed(e, t.step)
  <2>1. t.step = e.step /\ RoundWait /\ t.step # "propose"
    BY <1>5 DEF TimerCurrent, TimerAllowed
  <2>2. /\ k.round = f.round /\ k.step = f.step /\ k.votes = f.votes
        /\ k.vote_timers = f.vote_timers \ {t.step} /\ k.finalized = f.finalized
        /\ k.pending_finalized = f.pending_finalized
    BY <1>2 DEF EngineState
  <2>3. OnTimeout(f, t, can) = k
    BY <1>2, <1>3, <1>5
  <2> HIDE DEF k
  <2>4. Paused(k)
    BY <1>1, <1>2, <2>1, <2>2 DEF Paused, TimersFit, Unvoted, Own
  <2>5. ~TimerAllowed(k, k.step)
    BY <1>2, <1>5, <2>1, <2>2 DEF TimerAllowed, QuorumAny, AllVoters
  <2> QED BY <2>1, <2>3, <2>4, <2>5 DEF Timed, TimerHeld, f
<1>6. CASE TimerCurrent(e, t) /\ TimerAllowed(e, t.step)
  <2>1. t.step = e.step /\ t.step = f.step
    BY <1>2, <1>6 DEF TimerCurrent
  <2>2. CASE e.step = "propose" /\ can
    <3>1. OnTimeout(f, t, can) = PrecommitNil(g, can)
      BY <1>2, <1>3, <1>6, <2>1, <2>2
    <3>2. Timed(g)
      BY <1>2, <2>2, CastPrevoteTimed DEF Ballot
    <3>3. Fits(g, lg, sv)
      <4>1. \E a \in BOOLEAN : f = [e EXCEPT !.armed = a]
        BY <1>1 DEF f, Fired, EngineState
      <4>2. Fits(f, lg, sv)
        BY <1>1, <4>1, FieldsAside, AsideFits
      <4> QED BY <1>2, <2>2, <4>2, PrevoteFits DEF Ballot
    <3> HIDE DEF g
    <3> QED BY <3>1, <3>2, <3>3, PrecommitNilTimed DEF Fits, f
  <2>3. CASE e.step = "prevote" /\ can
    <3>1. OnTimeout(f, t, can) = h
      BY <1>2, <1>3, <1>6, <2>1, <2>3
    <3>2. Timed(h)
      BY <1>1, <1>2, <2>3, CastPrecommitTimed DEF Ballot
    <3> QED BY <3>1, <3>2 DEF f
  <2>4. CASE TimeoutEndsRound(f, t, can) /\ (e.step = "precommit" \/ ~can)
    <3>1. TimeoutEndsRound(e, t, can)
      BY <1>2, <2>4 DEF TimeoutEndsRound
    <3>2. f.round + 1 \in Round
      BY <1>1, <1>2, <3>1, EngineAssumption DEF Round
    <3>3. f.pending_finalized # None => f.finalized
      BY <1>1, <1>2 DEF Paused
    <3>4. Timed(StartRound(f, f.round + 1))
      BY <1>2, <3>2, <3>3, StartRoundTimed
    <3>5. OnTimeout(f, t, can) = StartRound(f, f.round + 1)
      BY <1>2, <1>3, <1>6, <2>1, <2>4
    <3> QED BY <3>4, <3>5 DEF f
  <2>5. CASE ~TimeoutEndsRound(f, t, can) /\ ~can /\ e.step = "propose"
    <3>1. OnTimeout(f, t, can) = Schedule(f, "propose")
      BY <1>2, <1>3, <1>6, <2>1, <2>5
    <3> QED BY <1>2, <2>5, <3>1, ScheduleTimed DEF f
  <2>6. CASE ~TimeoutEndsRound(f, t, can) /\ ~can /\ e.step = "prevote"
    <3> DEFINE m == SetStep(e, "precommit")
    <3>1. OnTimeout(f, t, can) = Schedule(m, "precommit")
      BY <1>2, <1>3, <1>6, <2>1, <2>6
    <3>2. m \in EngineState /\ m.step = "precommit" /\ Paused(m)
      BY <1>1, SetStepEffect, SetStepTimed DEF Step
    <3> HIDE DEF m
    <3> QED BY <3>1, <3>2, ScheduleTimed DEF f
  <2>7. e.step = "precommit" => TimeoutEndsRound(f, t, can)
    BY <1>2, <1>6, <2>1 DEF TimeoutEndsRound
  <2> QED BY <1>1, <2>2, <2>3, <2>4, <2>5, <2>6, <2>7 DEF Step
<1> QED BY <1>4, <1>5, <1>6

\* accept_finalize_batch.
LEMMA AcceptFinalizeTimed ==
    ASSUME NEW e \in EngineState, Timed(e), NEW r \in Round, NEW v \in Value
    PROVE  Timed(AcceptFinalizeBatch(e, r, v))
<1> DEFINE top == IF e.locked_round > r THEN e.locked_round ELSE r
           f == CacheProposalHeaderOnly(e, v)
           g == RecordPolc(f, r, v)
           h == [g EXCEPT !.locked_round = top, !.locked_value = v,
                          !.valid_round = top, !.valid_value = v]
<1>1. top \in Round
  BY EngineTypes DEF Round, NoRound
<1>2. AcceptFinalizeBatch(e, r, v) \in {e, EmitFinalized(h, r, v, FALSE)}
  BY DEF AcceptFinalizeBatch
<1> HIDE DEF top
<1>3. Still(e, f) /\ f \in EngineState
  BY FieldsStill, CacheHeaderAside DEF CacheProposalHeaderOnly, Aside, Around
<1> HIDE DEF f
<1>4. Still(f, g) /\ g \in EngineState
  BY <1>3, RecordPolcStill, RecordPolcAside DEF Ballot, Aside, Around
<1> HIDE DEF g
<1>5. Still(g, h) /\ h \in EngineState
  BY <1>1, <1>4, FieldsStill DEF EngineState
<1> HIDE DEF h
<1>6. Paused(h)
  BY <1>3, <1>4, <1>5, StillTimed DEF Timed
<1> QED BY <1>2, <1>5, <1>6, EmitFinalizedTimed

\* An engine that has just been made waits for start_height.
LEMMA InitialTimed == Timed(InitialEngine) /\ InitialEngine.step = "propose"
<1>1. /\ InitialEngine.round = 0 /\ InitialEngine.step = "propose"
      /\ InitialEngine.generation = 0 /\ InitialEngine.vote_timers = {}
      /\ InitialEngine.pending_finalized = None
  BY DEF InitialEngine
<1>2. Own(InitialEngine, "prevote", 0) = None
  <2>1. Blank(InitialEngine)
    BY InitialBlank
  <2> QED BY <2>1, EngineAssumption DEF Blank, Round, VoteType
<1> QED BY <1>1, <1>2 DEF Timed, Paused, TimersFit, Unvoted, TimerHeld, Unopened

\* restore_precommit_lock opens its round.
LEMMA RestoreLockTimed ==
    ASSUME NEW r \in Round, NEW v \in Value, NEW vr \in Round \cup {NoRound},
           ~RoundWait => r # MaxRound
    PROVE  LET f == RestorePrecommitLock(InitialEngine, r, v, vr)
           IN  Timed(f) /\ f.step = "propose"
<1> DEFINE f == CacheProposalMessage(InitialEngine, v, r, vr)
           g == RecordPolc(f, r, v)
           h == [g EXCEPT !.locked_round = r, !.locked_value = v,
                          !.valid_round = r, !.valid_value = v]
           s == IF RoundWait THEN r ELSE r + 1
<1>0. InitialEngine \in EngineState /\ Paused(InitialEngine)
  BY InitialBlank, InitialTimed DEF Blank, Timed
<1>1. RestorePrecommitLock(InitialEngine, r, v, vr) = RealignRound(h, s)
  BY DEF RestorePrecommitLock
<1>2. s \in Round
  BY EngineAssumption DEF Round
<1> HIDE DEF s
<1>3. Still(InitialEngine, f) /\ f \in EngineState
  BY <1>0, CacheMessageStill, CacheProposalMessageAside DEF Aside, Around
<1> HIDE DEF f
<1>4. Still(f, g) /\ g \in EngineState
  BY <1>3, RecordPolcStill, RecordPolcAside DEF Ballot, Aside, Around
<1> HIDE DEF g
<1>5. Still(g, h) /\ h \in EngineState
  BY <1>4, FieldsStill DEF EngineState
<1> HIDE DEF h
<1>6. Paused(h)
  BY <1>0, <1>3, <1>4, <1>5, StillTimed
<1> QED BY <1>1, <1>2, <1>5, <1>6, RealignRoundTimed DEF Paused

\* restore_local_votes takes the step of the last stored vote, with its timer.
LEMMA RestoreVotesTimed ==
    ASSUME NEW e \in EngineState, Paused(e), e.step = "propose",
           NEW saved \in [VoteType -> Ballot \cup {None}]
    PROVE  Timed(RestoreLocalVotes(e, saved))
<1> DEFINE w == [t \in VoteType |->
                    IF saved[t] # None THEN [e.votes[t] EXCEPT ![e.round][Me] = saved[t]]
                    ELSE e.votes[t]]
           f == [e EXCEPT !.votes = w]
           step == IF saved["precommit"] # None THEN "precommit"
                   ELSE IF saved["prevote"] # None /\ e.step = "propose" THEN "prevote"
                   ELSE e.step
           g == SetStep(f, step)
<1>1. RestoreLocalVotes(e, saved) = Schedule(g, step)
  BY DEF RestoreLocalVotes
<1>2. e.round \in Round /\ Me \in Validator /\ e.votes \in VoteTable
  BY EngineTypes, EngineAssumption
<1>3. w \in VoteTable
  BY <1>2 DEF VoteTable
<1>4. saved["prevote"] = None => w["prevote"] = e.votes["prevote"]
  BY DEF VoteType
<1> HIDE DEF w
<1>5. /\ f \in EngineState /\ f.round = e.round /\ f.step = e.step /\ f.votes = w
      /\ f.armed = e.armed /\ f.vote_timers = e.vote_timers /\ f.finalized = e.finalized
      /\ f.pending_finalized = e.pending_finalized
  BY <1>3 DEF EngineState, VoteTable
<1> HIDE DEF f
<1>6. step \in Step /\ (step = "propose" => saved["prevote"] = None)
  BY DEF Step
<1> HIDE DEF step
<1>7. /\ g \in EngineState /\ g.round = f.round /\ g.step = step /\ g.votes = f.votes
      /\ g.vote_timers = f.vote_timers /\ g.finalized = f.finalized
      /\ g.pending_finalized = f.pending_finalized
  BY <1>5, <1>6, SetStepEffect
<1> HIDE DEF g
<1>8. g.vote_timers = {}
  BY <1>5, <1>7 DEF Paused, TimersFit
<1>9. Unvoted(g)
  BY <1>4, <1>5, <1>6, <1>7 DEF Paused, Unvoted, Own
<1>10. Paused(g)
  BY <1>5, <1>7, <1>8, <1>9 DEF Paused, TimersFit
<1> QED BY <1>1, <1>7, <1>10, ScheduleTimed

=============================================================================
