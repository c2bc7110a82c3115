------------------------------- MODULE Engine -------------------------------
(***************************************************************************)
(* The BFT engine of one height, c_engine.ml: the mutable record t is a    *)
(* record e, every function that mutates it is an operator from e to e,    *)
(* and the handlers are compositions of those operators in the order of    *)
(* the code.  Node.tla drives the handlers; nothing here is a step by      *)
(* itself.                                                                 *)
(*                                                                         *)
(* What is abstracted: a proposal id stands for the header it hashes; a    *)
(* signature is valid or the message does not arrive; requests for missing *)
(* proposals and evidence are left out, since the network may deliver any  *)
(* of them at any time; the validator set is fixed for the height; rounds  *)
(* stay below round_history_limit, so nothing is pruned.                   *)
(***************************************************************************)
EXTENDS Integers, Sequences, FiniteSetsExt

CONSTANTS
    Validator,      \* the members of t.vs
    Me,             \* my_addr
    Value,          \* proposal ids
    Nil,            \* nil_hash
    None,           \* absence of a value, OCaml's None
    Quorum,         \* the validator sets that quorum_reached_at accepts
    SkipQuorum,     \* the validator sets that round_skip_reached_at accepts
    Leader,         \* Leader[r], leader_of for the height
    MaxRound,       \* bound on rounds
    MaxRoundAhead,  \* max_round_ahead
    RoundWait,      \* C_quorum_policy.round_wait for the height
    Stake           \* the quorum rule of the height is Stake

ASSUME EngineAssumption ==
    /\ Me \in Validator
    /\ Nil \notin Value
    /\ None \notin Value \cup {Nil}
    /\ Quorum \subseteq SUBSET Validator
    /\ SkipQuorum \subseteq SUBSET Validator
    /\ MaxRound \in Nat
    /\ MaxRoundAhead \in Nat
    /\ Leader \in [0 .. MaxRound -> Validator]
    /\ RoundWait \in BOOLEAN
    /\ Stake \in BOOLEAN
    /\ RoundWait => Stake   \* with_round_epoch: no round_epoch before stake_epoch

Round == 0 .. MaxRound
NoRound == -1               \* locked_round and valid_round before any lock
NoMessage == -2             \* no proposal message for a (value, round)
Ballot == Value \cup {Nil}
VoteType == {"prevote", "precommit"}
Step == {"propose", "prevote", "precommit"}

\* A ScheduleTimeout output that has been handed to the clock.
Timer == [step : Step, round : Round, generation : Nat]

\* SendVote and SendFinalize outputs.  own: the finalize message carries the
\* node's own precommit.
LocalVote == [kind : {"vote"}, type : VoteType, round : Round, ballot : Ballot]
FinalizeMessage == [kind : {"finalize"}, round : Round, ballot : Value, own : BOOLEAN]
Output == LocalVote \cup FinalizeMessage

\* OCaml's None is no Some.
ASSUME NoneAssumption == None \notin FinalizeMessage

NoVotes == [p \in Validator |-> None]

\* initial_engine_state and create_for_policy.
InitialEngine ==
    [round |-> 0, step |-> "propose",
     locked_round |-> NoRound, locked_value |-> None,
     valid_round |-> NoRound, valid_value |-> None,
     votes |-> [t \in VoteType |-> [r \in Round |-> NoVotes]],
     pending_prevote |-> None,
     proposal_cache |-> [v \in Value |-> "none"],
     proposal_messages |-> [v \in Value |-> [r \in Round |-> NoMessage]],
     polc_by_round |-> [r \in Round |-> None],
     higher_round_evidence |-> [p \in Validator |-> NoRound],
     outputs |-> <<>>, vote_timers |-> {}, armed |-> FALSE,
     finalized |-> FALSE, pending_finalized |-> None, generation |-> 0]

\* is_pristine: nothing has happened to the engine since it was created.
\* (current_proposal is set with the message of a first proposal.)
IsPristine(e) ==
    /\ e.generation = 0 /\ e.round = 0 /\ e.step = "propose"
    /\ \A t \in VoteType : e.votes[t][0] = NoVotes
    /\ \A v \in Value : e.proposal_messages[v][0] = NoMessage
    /\ e.pending_finalized = None
    /\ e.outputs = <<>>

EngineState ==
    [round : Round, step : Step,
     locked_round : Round \cup {NoRound}, locked_value : Value \cup {None},
     valid_round : Round \cup {NoRound}, valid_value : Value \cup {None},
     votes : [VoteType -> [Round -> [Validator -> Ballot \cup {None}]]],
     pending_prevote : Ballot \cup {None},
     proposal_cache : [Value -> {"none", "header", "bundle"}],
     proposal_messages : [Value -> [Round -> Round \cup {NoRound, NoMessage}]],
     polc_by_round : [Round -> Value \cup {None}],
     higher_round_evidence : [Validator -> Int],
     outputs : Seq(Output), vote_timers : SUBSET Step, armed : BOOLEAN,
     finalized : BOOLEAN,
     pending_finalized : FinalizeMessage \cup {None},
     generation : Nat]

-----------------------------------------------------------------------------
(* Vote sets *)

VotersFor(e, type, r, b) == {p \in Validator : e.votes[type][r][p] = b}
AllVoters(e, type, r) == {p \in Validator : e.votes[type][r][p] # None}

\* quorum_reached_at for one ballot (by_pid, count_nil), and for all votes.
QuorumOf(e, type, r, b) == VotersFor(e, type, r, b) \in Quorum
QuorumAny(e, type, r) == AllVoters(e, type, r) \in Quorum

\* add_vote: the first vote of a validator counts, a second is `Duplicate.
AddVote(e, type, r, p, b) ==
    IF e.votes[type][r][p] = None
    THEN [e EXCEPT !.votes[type][r][p] = b]
    ELSE e

\* quorum_result is `QuorumOf b.
QuorumResult(e, type, b) == QuorumOf(e, type, e.round, b)

-----------------------------------------------------------------------------
(* Proposals and POLCs *)

HasMessage(e, v, r) == e.proposal_messages[v][r] # NoMessage

PromoteKnownHeader(e, r, v) ==
    IF r > e.valid_round /\ r > e.locked_round /\ e.proposal_cache[v] # "none"
    THEN [e EXCEPT !.valid_round = r, !.valid_value = v]
    ELSE e

RecordPolc(e, r, b) ==
    IF b = Nil THEN e
    ELSE PromoteKnownHeader([e EXCEPT !.polc_by_round[r] = b], r, b)

\* promote_cached_polc walks polc_by_round in table order; the highest round
\* of the value wins in any order.
PromoteCachedPolc(e, v) ==
    LET rounds == {r \in Round : e.polc_by_round[r] = v}
    IN  IF rounds = {} THEN e ELSE PromoteKnownHeader(e, Max(rounds), v)

CacheProposalMessage(e, v, r, vr) ==
    PromoteCachedPolc(
        [e EXCEPT !.proposal_cache[v] = "bundle", !.proposal_messages[v][r] = vr], v)

CacheProposalHeaderOnly(e, v) ==
    IF e.proposal_cache[v] = "none"
    THEN [e EXCEPT !.proposal_cache[v] = "header"]
    ELSE e

\* find_known_header; current_proposal is always in the cache as well.
HeaderKnown(e, b) ==
    /\ b # Nil
    /\ e.proposal_cache[b] # "none" \/ e.locked_value = b \/ e.valid_value = b

\* Mutant: a single prevote counts as a POLC.
LearnPrevoteEager(e, r, p, b) ==
    IF b # Nil /\ e.votes["prevote"][r][p] = b THEN RecordPolc(e, r, b) ELSE e

\* learn_prevote: p's recorded prevote is b and b's prevotes reach quorum.
LearnPrevote(e, r, p, b) ==
    IF b # Nil /\ e.votes["prevote"][r][p] = b /\ QuorumOf(e, "prevote", r, b)
    THEN RecordPolc(e, r, b)
    ELSE e

-----------------------------------------------------------------------------
(* Timers *)

TimerAllowed(e, step) ==
    ~RoundWait \/ step = "propose" \/ QuorumAny(e, step, e.round)

\* schedule_step_timeout through emit: under round_wait a vote timer is armed
\* once a round and only behind a quorum of votes.  Every call passes the step
\* the engine is in, so it is enough to know that the current step has a timer.
Schedule(e, step) ==
    IF ~RoundWait \/ step = "propose"
    THEN [e EXCEPT !.armed = TRUE]
    ELSE IF TimerAllowed(e, step) /\ step \notin e.vote_timers
    THEN [e EXCEPT !.armed = TRUE, !.vote_timers = @ \cup {step}]
    ELSE e

\* A new step has no timer until one is scheduled.
SetStep(e, step) == [e EXCEPT !.step = step, !.armed = @ /\ e.step = step]

-----------------------------------------------------------------------------
(* Local votes *)

\* Mutant: a proposal's valid_round is believed without a POLC.
LockAllowsUnproven(e, v, vr) ==
    \/ e.locked_round < 0
    \/ e.locked_value = v
    \/ vr < e.round

\* Mutant: a POLC of any earlier round opens the lock.
LockAllowsOldPolc(e, v, vr) ==
    \/ e.locked_round < 0
    \/ e.locked_value = v
    \/ vr >= 0 /\ vr < e.round /\ e.polc_by_round[vr] = v

LockAllows(e, v, vr) ==
    \/ e.locked_round < 0
    \/ e.locked_value = v
    \/ /\ vr > e.locked_round
       /\ vr < e.round
       /\ e.polc_by_round[vr] = v

\* local_prevote: the lock turns a prevote for another value into nil.
LocalPrevote(e, b) ==
    IF b = Nil THEN Nil
    ELSE LET m == e.proposal_messages[b][e.round]
             vr == IF m = NoMessage THEN NoRound ELSE m
         IN  IF LockAllows(e, b, vr) THEN b ELSE Nil

LocalBallot(e, type, b) == IF type = "prevote" THEN LocalPrevote(e, b) ELSE b

\* cast_local_vote: what it returns ...
CastOutcome(e, type, b) ==
    LET ballot == LocalBallot(e, type, b)
        prior == e.votes[type][e.round][Me]
    IN  IF prior = ballot THEN "same"
        ELSE IF prior # None THEN "conflict"
        ELSE IF type = "precommit" /\ ballot # Nil /\ ~HasMessage(e, ballot, e.round)
        THEN "deferred"
        ELSE "cast"

\* ... and what it does to the engine.
CastLocalVote(e, type, b) ==
    LET ballot == LocalBallot(e, type, b)
        vote == [kind |-> "vote", type |-> type, round |-> e.round, ballot |-> ballot]
    IN  IF CastOutcome(e, type, b) = "cast"
        THEN [AddVote(e, type, e.round, Me, ballot)
                 EXCEPT !.outputs = Append(@, vote)]
        ELSE e

\* The common tail: cast, then arm the timer of the vote's step.
CastAndSchedule(e, type, b, outcomes) ==
    IF CastOutcome(e, type, b) \in outcomes
    THEN Schedule(CastLocalVote(e, type, b), type)
    ELSE CastLocalVote(e, type, b)

\* Mutant: the prevote quorum updates the valid value only.
TakeLockValidOnly(e, v) ==
    [e EXCEPT !.valid_round = e.round, !.valid_value = v]

\* The state update that takes the lock on the current round's value.
TakeLock(e, v) ==
    [e EXCEPT !.locked_round = e.round, !.locked_value = v,
              !.valid_round = e.round, !.valid_value = v]

-----------------------------------------------------------------------------
(* Finalization *)

\* Mutant: the finality is announced but not kept until it is acknowledged.
EmitFinalizedOnce(e, r, v, send) ==
    IF e.finalized THEN e
    ELSE [e EXCEPT !.finalized = TRUE]

\* emit_finalized.
EmitFinalized(e, r, v, send) ==
    LET message == [kind |-> "finalize", round |-> r, ballot |-> v,
                    own |-> send /\ e.votes["precommit"][r][Me] = v]
    IN  IF e.pending_finalized # None THEN e
        ELSE [e EXCEPT !.finalized = TRUE, !.pending_finalized = message,
                       !.outputs = IF send THEN Append(@, message) ELSE @]

\* emit_local_finalize: a header without its bundle has no parent commit, and
\* the finalize message waits for the proposal.
EmitLocalFinalize(e, r, v) ==
    IF e.proposal_cache[v] = "bundle" THEN EmitFinalized(e, r, v, TRUE) ELSE e

\* finalize_quorum: a precommit quorum of the current round for a cached value.
FinalizeQuorum(e) ==
    LET decided == {v \in Value : QuorumResult(e, "precommit", v)}
    IN  IF decided = {} THEN e
        ELSE EmitLocalFinalize(e, e.round, CHOOSE v \in decided : TRUE)

-----------------------------------------------------------------------------
(* Rounds and heights *)

StartRound(e, r) ==
    Schedule(
        [e EXCEPT !.round = r, !.step = "propose", !.vote_timers = {},
                  !.votes = [t \in VoteType |-> [@[t] EXCEPT ![r] = NoVotes]],
                  !.pending_prevote = None, !.armed = FALSE],
        "propose")

RealignRound(e, r) ==
    StartRound([e EXCEPT !.generation = @ + 1], r)

\* Mutant: the height resumes in the round where it stood.
ResumeRoundInPlace(e) == Max({e.round, e.locked_round + 1})

\* The round at which start_height resumes the height it is already in.
ResumeRound(e) ==
    LET voted == {r \in Round : \E t \in VoteType : e.votes[t][r][Me] # None}
    IN  Max({e.round, e.locked_round + 1} \cup {r + 1 : r \in voted})

StartSameHeight(e) ==
    StartRound(
        [e EXCEPT !.generation = @ + 1, !.outputs = <<>>,
                  !.higher_round_evidence = [p \in Validator |-> NoRound]],
        ResumeRound(e))

\* record_higher_round, with the caller's max_ahead.
RecordHigherRound(e, r, p, ahead) ==
    IF r > e.round /\ r <= e.round + ahead /\ e.higher_round_evidence[p] < r
    THEN [e EXCEPT !.higher_round_evidence[p] = r]
    ELSE e

\* round_skip_target: the highest round that enough validators have reached.
RoundSkipTargets(e) ==
    {r \in Round :
        /\ r > e.round
        /\ {p \in Validator : e.higher_round_evidence[p] >= r} \in SkipQuorum}

\* try_round_skip; ready is round_skip_ready, false while proposal work runs.
TryRoundSkip(e, ready) ==
    IF ready /\ ~e.finalized /\ RoundSkipTargets(e) # {}
    THEN RealignRound(
            [e EXCEPT !.higher_round_evidence = [p \in Validator |-> NoRound]],
            Max(RoundSkipTargets(e)))
    ELSE e

\* try_round_step is enabled: some validator has signed a higher round.
RoundStepReady(e, ready) ==
    /\ RoundWait
    /\ ready
    /\ ~e.finalized
    /\ \E p \in Validator : e.higher_round_evidence[p] > e.round

-----------------------------------------------------------------------------
(* Handlers.  can is local_voting_allowed at the time of the call. *)

PrecommitNil(e, can) ==
    IF can /\ e.step = "prevote" /\ QuorumOf(e, "prevote", e.round, Nil)
    THEN CastAndSchedule(SetStep(e, "precommit"), "precommit", Nil,
                         {"cast", "same", "deferred"})
    ELSE e

\* The first part of resume_voting: a prevote decided while voting was off.
ResumePrevote(e) ==
    IF e.pending_prevote = None THEN e
    ELSE LET e1 == [e EXCEPT !.pending_prevote = None]
         IN  IF e.step \in {"propose", "prevote"}
             THEN CastAndSchedule(SetStep(e1, "prevote"), "prevote",
                                  e.pending_prevote, {"cast", "same"})
             ELSE e1

\* The middle part: a prevote quorum whose proposal is at hand.
ResumePrecommit(e) ==
    LET ready == {v \in Value : /\ QuorumResult(e, "prevote", v)
                                /\ HasMessage(e, v, e.round)}
    IN  IF e.step = "precommit" \/ ready = {} THEN e
        ELSE LET v == CHOOSE v \in ready : TRUE
             IN  CastAndSchedule(
                     SetStep(TakeLock(RecordPolc(e, e.round, v), v), "precommit"),
                     "precommit", v, {"cast", "same", "deferred"})

ResumeVoting(e) ==
    LET e1 == ResumePrecommit(PrecommitNil(ResumePrevote(e), TRUE))
    IN  IF e1.finalized THEN e1 ELSE FinalizeQuorum(e1)

OnReady(e, can) ==
    LET e1 == IF can THEN ResumeVoting(e) ELSE e
    IN  IF RoundWait /\ e1.step = "prevote" THEN Schedule(e1, "prevote") ELSE e1

\* What do_propose offers: the valid value with its round, or the new value.
CanPropose(e, can) ==
    /\ can
    /\ Leader[e.round] = Me
    /\ e.step = "propose"
    /\ e.valid_round >= 0 => e.proposal_cache[e.valid_value] = "bundle"

\* do_propose, when CanPropose holds.
DoPropose(e, new) ==
    LET reuse == e.valid_round >= 0
        v == IF reuse THEN e.valid_value ELSE new
        vr == IF reuse THEN e.valid_round ELSE NoRound
        e1 == SetStep(CacheProposalMessage(e, v, e.round, vr), "prevote")
        outcome == CastOutcome(e1, "prevote", v)
        e2 == CastLocalVote(e1, "prevote", v)
        e3 == SetStep(
                 TakeLock(IF Stake THEN RecordPolc(e2, e2.round, v) ELSE e2, v),
                 "precommit")
        e4 == CastLocalVote(e3, "precommit", v)
    IN  IF outcome = "cast" /\ LocalPrevote(e1, v) = v /\ QuorumOf(e2, "prevote", e.round, v)
        THEN IF CastOutcome(e3, "precommit", v) = "cast"
                    /\ QuorumOf(e4, "precommit", e.round, v)
             THEN EmitLocalFinalize(e4, e.round, v)
             ELSE Schedule(e4, "precommit")
        ELSE IF outcome \in {"cast", "same"} THEN Schedule(e2, "prevote") ELSE e2

\* on_propose for the current round.  valid: the envelope, the signature and
\* the executed state root are good.
ProposalInRound(e, v, vr, valid, can) ==
    LET accept == valid /\ LockAllows(e, v, vr)
        ballot == IF accept THEN v ELSE Nil
        e1 == IF valid THEN CacheProposalMessage(e, v, e.round, vr) ELSE e
        e2 == SetStep(e1, "prevote")
        e3 == CastLocalVote(e2, "prevote", ballot)
        e4 == SetStep(TakeLock(RecordPolc(e3, e.round, v), v), "precommit")
        e5 == CastLocalVote(e4, "precommit", v)
    IN  IF valid /\ can /\ QuorumResult(e1, "precommit", v)
        THEN EmitLocalFinalize(e1, e.round, v)
        ELSE IF e.step = "precommit" THEN e1
        ELSE IF ~can
        THEN \* remember_pending_prevote
             IF e.pending_prevote = None /\ e.votes["prevote"][e.round][Me] = None
             THEN [e1 EXCEPT !.pending_prevote = ballot]
             ELSE e1
        ELSE IF accept /\ QuorumResult(e3, "prevote", v)
        THEN IF CastOutcome(e4, "precommit", v) = "cast"
                    /\ QuorumOf(e5, "precommit", e.round, v)
             THEN EmitLocalFinalize(e5, e.round, v)
             ELSE Schedule(e5, "precommit")
        ELSE PrecommitNil(CastAndSchedule(e2, "prevote", ballot, {"cast", "same"}), can)

\* The head of on_propose and on_vote: a message of a later round counts as
\* evidence of that round and is otherwise dropped, unless it makes us skip.
NoteRound(e, r, p, ready) ==
    IF r > e.round
    THEN TryRoundSkip(RecordHigherRound(e, r, p, MaxRoundAhead), ready)
    ELSE e

OnPropose(e, r, v, vr, valid, can, ready) ==
    IF e.finalized \/ r > e.round + MaxRoundAhead THEN e
    ELSE LET e1 == NoteRound(e, r, Leader[r], ready)
         IN  IF r = e1.round THEN ProposalInRound(e1, v, vr, valid, can) ELSE e1

\* learn_past_proposal: the body of an earlier round's POLC that is newer than
\* our lock and our valid value, and that we have not seen.
LearnPastProposal(e, r, v, vr, valid) ==
    IF /\ valid
       /\ r > e.valid_round /\ r > e.locked_round
       /\ e.polc_by_round[r] = v
       /\ ~HasMessage(e, v, r)
    THEN CacheProposalMessage(e, v, r, vr)
    ELSE e

RecordHistoricalPrevote(e, r, p, b) ==
    LearnPrevote(AddVote(e, "prevote", r, p, b), r, p, b)

\* A late precommit quorum still finalizes its own round.
RecordHistoricalPrecommit(e, r, p, b, can) ==
    LET e1 == AddVote(e, "precommit", r, p, b)
    IN  IF /\ can
           /\ e.votes["precommit"][r][p] = None
           /\ QuorumOf(e1, "precommit", r, b)
           /\ HeaderKnown(e1, b)
        THEN EmitLocalFinalize(e1, r, b)
        ELSE e1

\* on_vote, a prevote of the current round that reached quorum for b.
PrevoteQuorum(e, b, can) ==
    IF b # Nil /\ ~HasMessage(e, b, e.round) THEN e
    ELSE LET e1 == IF b = Nil THEN e ELSE TakeLock(e, b)
         IN  IF can
             THEN CastAndSchedule(SetStep(e1, "precommit"), "precommit", b,
                                  {"cast", "same", "deferred"})
             ELSE e1

PrevoteInRound(e, p, b, can) ==
    LET new == e.votes["prevote"][e.round][p] = None
        e1 == LearnPrevote(AddVote(e, "prevote", e.round, p, b), e.round, p, b)
    IN  IF ~new \/ e.step # "prevote" THEN e1
        ELSE IF QuorumOf(e1, "prevote", e.round, b) THEN PrevoteQuorum(e1, b, can)
        ELSE IF QuorumAny(e1, "prevote", e.round) THEN Schedule(e1, "prevote")
        ELSE e1

PrecommitInRound(e, p, b, can) ==
    LET e1 == AddVote(e, "precommit", e.round, p, b)
    IN  IF /\ can
           /\ e.votes["precommit"][e.round][p] = None
           /\ QuorumOf(e1, "precommit", e.round, b)
           /\ HeaderKnown(e1, b)
        THEN EmitLocalFinalize(e1, e.round, b)
        ELSE e1

\* Mutant: votes do not arm the timers they allow.
AfterVoteSilent(e) == e

\* The tail of on_vote under round_wait: a quorum of precommits ends the round
\* unless it is for a value whose header is still missing.
AfterVote(e) ==
    LET e1 == IF RoundWait /\ e.step = "prevote" THEN Schedule(e, "prevote") ELSE e
        waiting == \E v \in Value :
                       QuorumResult(e1, "precommit", v) /\ ~HeaderKnown(e1, v)
    IN  IF RoundWait /\ QuorumAny(e1, "precommit", e1.round) /\ ~waiting /\ ~e1.finalized
        THEN Schedule(SetStep(e1, "precommit"), "precommit")
        ELSE e1

OnVote(e, type, r, p, b, can, ready) ==
    IF e.finalized \/ r > e.round + MaxRoundAhead THEN e
    ELSE IF r < e.round
    THEN IF type = "prevote" THEN RecordHistoricalPrevote(e, r, p, b)
         ELSE RecordHistoricalPrecommit(e, r, p, b, can)
    ELSE LET e1 == NoteRound(e, r, p, ready)
         IN  IF r # e1.round THEN e1
             ELSE IF type = "prevote" THEN AfterVote(PrevoteInRound(e1, p, b, can))
             ELSE AfterVote(PrecommitInRound(e1, p, b, can))

\* on_round_sync; max_sync_ahead is beyond MaxRound.
OnRoundSync(e, r, p, ready) ==
    IF r > e.round THEN TryRoundSkip(RecordHigherRound(e, r, p, MaxRound), ready) ELSE e

\* accept_finalize_batch for a certificate that C_qc has validated.
AcceptFinalizeBatch(e, r, v) ==
    LET top == IF e.locked_round > r THEN e.locked_round ELSE r
        e1 == RecordPolc(CacheProposalHeaderOnly(e, v), r, v)
    IN  IF e.finalized \/ (e.locked_value \notin {None, v} /\ r <= e.locked_round)
        THEN e
        ELSE EmitFinalized(
                [e1 EXCEPT !.locked_round = top, !.locked_value = v,
                           !.valid_round = top, !.valid_value = v],
                r, v, FALSE)

\* A timer acts only in the generation, round and step it was scheduled for.
TimerCurrent(e, t) ==
    /\ t.generation = e.generation
    /\ t.round = e.round
    /\ t.step = e.step

\* The timeout ends the round.
TimeoutEndsRound(e, t, can) ==
    /\ TimerCurrent(e, t)
    /\ TimerAllowed(e, t.step)
    /\ t.step = "precommit" \/ (~can /\ ~RoundWait)

\* Mutant: a timer that fires while voting is off is not armed again.
OnTimeoutOnce(e, t, can) ==
    IF ~TimerCurrent(e, t) THEN e
    ELSE IF ~TimerAllowed(e, t.step) THEN [e EXCEPT !.vote_timers = @ \ {t.step}]
    ELSE IF t.step = "propose" /\ can
    THEN CastAndSchedule(SetStep(e, "prevote"), "prevote", Nil, {"cast", "same"})
    ELSE IF t.step = "prevote" /\ can
    THEN CastAndSchedule(SetStep(e, "precommit"), "precommit", Nil, {"cast", "same"})
    ELSE e

OnTimeout(e, t, can) ==
    IF ~TimerCurrent(e, t) THEN e
    ELSE IF ~TimerAllowed(e, t.step) THEN [e EXCEPT !.vote_timers = @ \ {t.step}]
    ELSE IF t.step = "propose" /\ can
    THEN PrecommitNil(
            CastAndSchedule(SetStep(e, "prevote"), "prevote", Nil, {"cast", "same"}), can)
    ELSE IF t.step = "prevote" /\ can
    THEN CastAndSchedule(SetStep(e, "precommit"), "precommit", Nil, {"cast", "same"})
    ELSE IF TimeoutEndsRound(e, t, can) THEN StartRound(e, e.round + 1)
    ELSE IF t.step = "propose" THEN Schedule(e, "propose")
    ELSE Schedule(SetStep(e, "precommit"), "precommit")

-----------------------------------------------------------------------------
(* Restart *)

\* Mutant: the journalled proposal comes back as the valid value, not the lock.
RestorePrecommitLockValidOnly(e, r, v, vr) ==
    RealignRound(RecordPolc(CacheProposalMessage(e, v, r, vr), r, v),
                 IF RoundWait THEN r ELSE r + 1)

\* Mutant: the node resumes two rounds behind the lock.
RestorePrecommitLockLate(e, r, v, vr) ==
    LET e1 == RecordPolc(CacheProposalMessage(e, v, r, vr), r, v)
    IN  RealignRound(
            [e1 EXCEPT !.locked_round = r, !.locked_value = v,
                       !.valid_round = r, !.valid_value = v], r + 2)

\* restore_precommit_lock on a pristine engine: the journalled proposal is the
\* lock; legacy nodes resume behind its round, round_wait nodes in it.
RestorePrecommitLock(e, r, v, vr) ==
    LET e1 == RecordPolc(CacheProposalMessage(e, v, r, vr), r, v)
        e2 == [e1 EXCEPT !.locked_round = r, !.locked_value = v,
                         !.valid_round = r, !.valid_value = v]
    IN  RealignRound(e2, IF RoundWait THEN r ELSE r + 1)

\* restore_local_votes: the stored votes of the round re-enter the vote sets.
\* saved[t] is the stored ballot or None.
RestorableVotes(e, saved) ==
    \A t \in VoteType :
        saved[t] # None =>
            /\ e.votes[t][e.round][Me] \in {None, saved[t]}
            /\ (t = "precommit" /\ saved[t] # Nil) =>
                  e.locked_round >= e.round /\ e.locked_value = saved[t]

RestoreLocalVotes(e, saved) ==
    LET e1 == [e EXCEPT !.votes =
                 [t \in VoteType |->
                    IF saved[t] # None THEN [@[t] EXCEPT ![e.round][Me] = saved[t]]
                    ELSE @[t]]]
        step == IF saved["precommit"] # None THEN "precommit"
                ELSE IF saved["prevote"] # None /\ e.step = "propose" THEN "prevote"
                ELSE e.step
    IN  Schedule(SetStep(e1, step), step)

=============================================================================
