-------------------------------- MODULE Node --------------------------------
(***************************************************************************)
(* One validator at one height: the engine of Engine.tla behind the driver *)
(* (c_driver.ml), with its vote log, the pending-commit journal, the       *)
(* output actor, and crashes.  The other validators and the network are    *)
(* the environment: they may send any vote, proposal or round report at    *)
(* any time, in any order, and a message that is never delivered is lost.  *)
(*                                                                         *)
(* The node is shown to implement Voting.tla with itself as the only       *)
(* honest validator, so that its own conduct is checked against every      *)
(* conduct of the rest.                                                    *)
(***************************************************************************)
EXTENDS Engine

CONSTANTS
    MaxCrashes,    \* bound on crashes
    MaxResets,     \* bound on same-height restarts and watchdog realignments
    WriteFails,    \* journal and vote log writes may fail
    CanVote,       \* the answers of local_voting_allowed
    SkipReady,     \* the answers of round_skip_ready
    Valid,         \* the verdicts on a proposal's envelope and execution
    OfferedVotes,     \* what the others may send: votes <<type, validator, round, ballot>>,
    OfferedProposals, \* proposals <<round, value, valid_round>>,
    OfferedFinalizes, \* certificates <<round, value, signers>>,
    OfferedRounds     \* and round reports <<round, validator>>

ASSUME NodeAssumption ==
    /\ MaxCrashes \in Nat
    /\ MaxResets \in Nat
    /\ WriteFails \in BOOLEAN
    /\ CanVote \subseteq BOOLEAN
    /\ SkipReady \subseteq BOOLEAN
    /\ Valid \subseteq BOOLEAN
    /\ OfferedVotes \subseteq VoteType \X (Validator \ {Me}) \X Round \X Ballot
    /\ OfferedProposals \subseteq Round \X Value \X (Round \cup {NoRound})
    /\ \A o \in OfferedProposals : Leader[o[1]] # Me /\ o[3] < o[1]
    /\ OfferedFinalizes \subseteq Round \X Value \X Quorum
    /\ OfferedRounds \subseteq Round \X (Validator \ {Me})
    /\ None \notin Value \X (Round \cup {NoRound})   \* no entry is None

VARIABLES
    e,          \* the engine
    saving,     \* saves that wait for the journal, see Save
    queued,     \* pending_votes: stored, held back until voting is allowed
    issue,      \* vote_log_issue: every local vote is refused
    up,         \* the driver runs; otherwise it is down or restoring its records
    started,    \* start has waited for its peers and has opened the height
    log,        \* vote log: log[type][r] is the stored ballot or None
    journal,    \* pending-commit journal: journal[r] is <<value, valid_round>> or None
    sent,       \* local votes that have left the node as vote messages
    known,      \* the votes that exist (history), see the comment below
    committed,  \* what on_finalized has applied, or None
    acked,      \* ack_finalized has run
    crashes, resets,
    lost,       \* history: precommits <<round, value>> that a restart of the height
                \* dropped before the journal had them, still counted in the tables
    late        \* history: an engine that has finalized has proposed

volatile == <<e, saving, queued, issue, up, started>>
disk == <<log, journal>>
world == <<sent, known>>
height == <<committed, acked>>
departures == <<lost, late>>
bounds == <<crashes, resets, departures>>
nodeVars == <<volatile, disk, world, height, bounds>>

NoLog == [t \in VoteType |-> [r \in Round |-> None]]
NoJournal == [r \in Round |-> None]

\* A save in flight.  valid_round: of the proposal that is journalled with the
\* vote.  written: the journal has it, the continuation has not run yet.  then:
\* what the caller does with a stored vote.
Save ==
    [vote : LocalVote, valid_round : Round \cup {NoRound}, generation : Nat,
     written : BOOLEAN,
     then : {"send", "keep", "queue", "reply"}]

\* What known records.  A vote of another validator exists once it has counted
\* here.  A vote of ours exists once a crash cannot undo it: it is in the vote
\* log, or a finalize message has carried it away, or it is the prevote behind a
\* journalled precommit, which rules out any other.

\* A local vote as the engine emits it (SendVote).
VoteOf(t, r, b) == [kind |-> "vote", type |-> t, round |-> r, ballot |-> b]

Running == up /\ committed = None

\* The votes of others that stand in the engine's tables.
Counted(en, t) ==
    {vote \in (Validator \ {Me}) \X Round \X Ballot :
        en.votes[t][vote[2]][vote[1]] = vote[3]}

-----------------------------------------------------------------------------
(* Boot *)

\* resume_local_vote.
ResumeLocalVote(en, lg) ==
    LET rounds == {r \in Round : \E t \in VoteType : lg[t][r] # None}
        last == Max(rounds)
        saved == [t \in VoteType |-> lg[t][last]]
        target == IF RoundWait THEN last ELSE last + 1
        e1 == IF target > en.round THEN RealignRound(en, target) ELSE en
    IN  IF rounds = {} THEN en
        ELSE IF RoundWait /\ e1.round = last /\ RestorableVotes(e1, saved)
        THEN RestoreLocalVotes(e1, saved)
        ELSE e1

\* The stored votes of the round do not fit the engine: hold_vote_log.
ResumeRefused(en, lg) ==
    LET rounds == {r \in Round : \E t \in VoteType : lg[t][r] # None}
        last == Max(rounds)
    IN  /\ RoundWait
        /\ rounds # {}
        /\ last >= en.round
        /\ ~RestorableVotes(IF last > en.round THEN RealignRound(en, last) ELSE en,
                            [t \in VoteType |-> lg[t][last]])

Journalled(jn) == {r \in Round : jn[r] # None}

\* consensus_pending_commit_recovery: the entry of the highest round is the lock.
RestoredEngine(jn) ==
    IF Journalled(jn) = {} THEN InitialEngine
    ELSE LET r == Max(Journalled(jn))
         IN  RestorePrecommitLock(InitialEngine, r, jn[r][1], jn[r][2])

\* The engine with which the driver runs, and frames come in.
Boot(lg, jn) == ResumeLocalVote(RestoredEngine(jn), lg)

\* What start does once it has waited: an engine that nothing has touched opens
\* its height, any other goes on as it is.
Opened(en, lg) ==
    IF IsPristine(en) THEN ResumeLocalVote(StartSameHeight(en), lg) ELSE en

\* A legacy node resumes one round behind its last vote: bound.
BootInBound(lg, jn) ==
    ~RoundWait => /\ MaxRound \notin Journalled(jn)
                  /\ \A t \in VoteType : lg[t][MaxRound] = None

-----------------------------------------------------------------------------
NodeInit ==
    /\ e = Boot(NoLog, NoJournal)
    /\ saving = {}
    /\ queued = {}
    /\ issue = FALSE
    /\ up = TRUE
    /\ started = FALSE
    /\ log = NoLog
    /\ journal = NoJournal
    /\ sent = {}
    /\ known = [t \in VoteType |-> {}]
    /\ committed = None
    /\ acked = FALSE
    /\ crashes = 0
    /\ resets = 0
    /\ lost = {}
    /\ late = FALSE

\* The engine moves to en by a handler.
EngineMoves(en) ==
    /\ Running
    /\ e' = en
    /\ known' = IF en.votes = e.votes THEN known
                ELSE [t \in VoteType |-> known[t] \cup Counted(en, t)]
    /\ UNCHANGED <<saving, queued, up, started, disk, sent, height, bounds>>

EngineStep(en) == EngineMoves(en) /\ UNCHANGED issue

\* The handler ends with keep_polc: under the stake rule the POLC of round r is
\* stored when it backs our lock or our valid value, and a failed write refuses
\* every later local vote.
EngineStepKeepingPolc(en, r) ==
    /\ EngineMoves(en)
    /\ \/ UNCHANGED issue
       \/ /\ WriteFails /\ Stake
          /\ en.polc_by_round[r] # None
          /\ r \in {en.locked_round, en.valid_round}
          /\ issue' = TRUE

(* Messages, timers, proposals *)

\* A vote of another validator, or one of our own that comes back.  A second,
\* different vote is evidence (conflicting_vote) and goes no further.
ReceiveVote(t, r, p, b) ==
    /\ e.votes[t][r][p] \in {None, b}
    /\ \E can \in CanVote, ready \in SkipReady :
          EngineStepKeepingPolc(OnVote(e, t, r, p, b, can, ready), r)

\* finish_check of a proposal signed by its round's leader.
ReceiveProposal(r, v, vr) ==
    \E valid \in Valid, can \in CanVote, ready \in SkipReady :
        EngineStepKeepingPolc(
            IF r < e.round THEN LearnPastProposal(e, r, v, vr, valid)
            ELSE OnPropose(e, r, v, vr, valid, can, ready), r)

\* A signed round report.  A jump drops the votes still held back.
ReceiveRoundSync(r, p) ==
    \E ready \in SkipReady :
        LET en == OnRoundSync(e, r, p, ready)
        IN  /\ Running
            /\ e' = en
            /\ queued' = IF en.generation = e.generation THEN queued ELSE {}
            /\ UNCHANGED <<saving, issue, up, started, disk, world, height, bounds>>

\* A finalize message that C_qc.validate_finalize accepted: precommits of a
\* quorum, our own among them only where it exists.
ReceiveFinalize(r, v, Q) ==
    /\ Running
    /\ Me \in Q => <<Me, r, v>> \in known["precommit"]
    /\ ~e.finalized
    /\ e' = AcceptFinalizeBatch(e, r, v)
    /\ known' = [known EXCEPT !["precommit"] = @ \cup {<<p, r, v>> : p \in Q}]
    /\ UNCHANGED <<saving, queued, issue, up, started, disk, sent, height, bounds>>

\* A timer fires: the one of the current step, or one of any step, round and
\* generation that the engine has left, still on the clock.
Timeout(t) ==
    \E can \in CanVote :
        /\ TimerCurrent(e, t) => e.armed
        /\ TimeoutEndsRound(e, t, can) => e.round < MaxRound
        /\ EngineStep(OnTimeout([e EXCEPT !.armed = @ /\ ~TimerCurrent(e, t)], t, can))

\* A built proposal is delivered to the engine, also when that has finalized.
Propose(v) ==
    /\ Running
    /\ ~issue
    /\ \E can \in CanVote : CanPropose(e, can)
    /\ e' = DoPropose(e, v)
    /\ late' = (late \/ e.finalized)
    /\ UNCHANGED <<saving, queued, issue, up, started, disk, world, height,
                   crashes, resets, lost>>

\* realign_progress, the watchdog: a legacy node leaves the round; a round_wait
\* node skips to a round that enough validators have reached, or else takes one
\* step towards a round that somebody has signed.
Realigned(ready) ==
    IF RoundWait /\ TryRoundSkip(e, ready) # e THEN TryRoundSkip(e, ready)
    ELSE RealignRound(e, e.round + 1)

RealignProgress ==
    \E ready \in SkipReady :
        /\ Running /\ started
        /\ resets < MaxResets
        /\ RoundWait => TryRoundSkip(e, ready) # e \/ RoundStepReady(e, ready)
        /\ Realigned(ready).round <= MaxRound
        /\ e' = Realigned(ready)
        /\ queued' = {}
        /\ resets' = resets + 1
        /\ UNCHANGED <<saving, issue, up, started, disk, world, height, crashes, departures>>

\* The precommits for a value among the outputs behind the first k that the
\* journal does not have.
Dropped(k) ==
    {<<e.outputs[i].round, e.outputs[i].ballot>> : i \in
        {j \in (k + 1) .. Len(e.outputs) :
            /\ e.outputs[j].kind = "vote" /\ e.outputs[j].type = "precommit"
            /\ e.outputs[j].ballot # Nil
            /\ journal[e.outputs[j].round] = None}}

\* start_height in the height the engine is already in, and resume_local_vote:
\* the outputs behind the first k are gone, the votes stay in the tables.
RestartHeight(k) ==
    /\ Running
    /\ resets < MaxResets
    /\ ResumeRound(e) <= MaxRound
    /\ BootInBound(log, NoJournal)
    /\ e' = ResumeLocalVote(
               [StartSameHeight(e) EXCEPT !.outputs = SubSeq(e.outputs, 1, k)], log)
    /\ lost' = lost \cup Dropped(k)
    /\ resets' = resets + 1
    /\ UNCHANGED <<saving, up, started, disk, world, height, crashes, late>>

\* resume_local_vote holds every later vote where the stored ones do not fit, or
\* where the log cannot be synced and read.
ResumeIssue(before) ==
    {before \/ ResumeRefused(StartSameHeight(e), log)}
        \cup (IF WriteFails THEN {TRUE} ELSE {})

\* set_height: catchup_height without round_wait, and start_height of a proposal
\* check that finds its height stale, land on the height the engine is in.
ResetHeight ==
    /\ \E k \in 0 .. Len(e.outputs) : RestartHeight(k)   \* k: drained already
    /\ queued' = {}
    /\ issue' \in ResumeIssue(issue)

-----------------------------------------------------------------------------
(* The output actor: process_outputs_once *)

\* The actor is between two outputs.
ActorIdle == \A s \in saving : s.then = "reply"

\* The end of the previous height in process_outputs_once: after its awaits the
\* actor begins this height, which a catch-up may have begun meanwhile.  None of
\* its outputs has been drained then; pending_votes stay, and vote_log_issue is
\* cleared where set_floor and prune went well.
ReopenHeight ==
    /\ ActorIdle
    /\ RestartHeight(0)
    /\ issue' \in ResumeIssue(FALSE)
    /\ UNCHANGED queued

\* The start of a pass, on_ready and flush_pending_votes.  Drained outputs keep
\* their order behind later ones, so the queue of a pass is e.outputs itself.
Ready ==
    \E can \in CanVote :
        LET en == OnReady(e, can)
            flush == can /\ ~issue
        IN  /\ Running
            /\ ActorIdle
            /\ e' = en
            /\ queued' = IF flush THEN {} ELSE queued
            /\ sent' = IF flush /\ ~en.finalized THEN sent \cup queued ELSE sent
            /\ UNCHANGED <<saving, issue, up, started, disk, known, height, bounds>>

\* The next output of the pass.
NextOutput == Head(e.outputs)

\* Mutant: the vote goes out before the log has it.
KeepVoteVolatile(vote, then) ==
    /\ log[vote.type][vote.round] \in {None, vote.ballot}
    /\ log' = log
    /\ known' = known
    /\ sent' = IF then \in {"send", "reply"} THEN sent \cup {vote} ELSE sent
    /\ queued' = IF then = "queue" THEN queued \cup {vote} ELSE queued
    /\ issue' = issue

\* The end of saved_vote: C_vote_log.keep, then what the caller does.
KeepVote(vote, then) ==
    /\ log[vote.type][vote.round] \in {None, vote.ballot}
    /\ log' = [log EXCEPT ![vote.type][vote.round] = vote.ballot]
    /\ known' = [known EXCEPT ![vote.type] = @ \cup {<<Me, vote.round, vote.ballot>>}]
    /\ sent' = IF then \in {"send", "reply"} THEN sent \cup {vote} ELSE sent
    /\ queued' = IF then = "queue" THEN queued \cup {vote} ELSE queued
    /\ issue' = issue

\* The log refuses: it holds another vote, or the write failed, and perhaps only
\* its sync, when the record is there.
RefuseVote(vote) ==
    /\ issue' = TRUE
    /\ \/ /\ WriteFails \/ log[vote.type][vote.round] \notin {None, vote.ballot}
          /\ UNCHANGED <<log, known>>
       \/ /\ WriteFails /\ log[vote.type][vote.round] = None
          /\ log' = [log EXCEPT ![vote.type][vote.round] = vote.ballot]
          /\ known' = [known EXCEPT ![vote.type] = @ \cup {<<Me, vote.round, vote.ballot>>}]
    /\ UNCHANGED <<sent, queued>>

NewSave(vote, then) ==
    [vote |-> vote, valid_round |-> e.proposal_messages[vote.ballot][vote.round],
     generation |-> e.generation, written |-> FALSE, then |-> then]

\* saved_vote: a precommit for a value waits for the journal, or is refused where
\* its proposal is missing; any other vote goes to the log at once.
SaveVote(vote, then) ==
    IF issue THEN UNCHANGED <<saving, issue, log, sent, known, queued>>
    ELSE IF log[vote.type][vote.round] \notin {None, vote.ballot}
    THEN issue' = TRUE /\ UNCHANGED <<saving, log, sent, known, queued>>
    ELSE IF vote.type = "precommit" /\ vote.ballot # Nil
    THEN /\ saving' = IF HasMessage(e, vote.ballot, vote.round)
                      THEN saving \cup {NewSave(vote, then)} ELSE saving
         /\ UNCHANGED <<issue, log, sent, known, queued>>
    ELSE (KeepVote(vote, then) \/ RefuseVote(vote)) /\ UNCHANGED saving

\* finalized_vote: the vote behind the finality we hold is stored, not sent.
FinalizedVote(vote) ==
    /\ e.pending_finalized # None
    /\ vote.type = "precommit"
    /\ vote.round = e.pending_finalized.round
    /\ vote.ballot = e.pending_finalized.ballot

\* What the actor does with a SendVote output.
VoteRoute(vote, can) ==
    IF FinalizedVote(vote) THEN "keep"
    ELSE IF e.finalized THEN "drop"
    ELSE IF ~can \/ issue THEN "queue"
    ELSE "send"

ProcessVote ==
    \E can \in CanVote :
        /\ Running
        /\ ActorIdle
        /\ e.outputs # <<>>
        /\ NextOutput.kind = "vote"
        /\ e' = [e EXCEPT !.outputs = Tail(@)]
        /\ IF VoteRoute(NextOutput, can) = "drop"
           THEN UNCHANGED <<saving, issue, log, sent, known, queued>>
           ELSE SaveVote(NextOutput, VoteRoute(NextOutput, can))
        /\ UNCHANGED <<up, started, journal, height, bounds>>

\* send_round_sync_response to a peer in this round, beside the output actor:
\* our prevote is saved and sent, then the save of our precommit begins.  (A
\* vote that is out already is on the disk and merely goes out again.)
ReplyVotes ==
    LET prevote == e.votes["prevote"][e.round][Me]
        precommit == e.votes["precommit"][e.round][Me]
        vote(t) == VoteOf(t, e.round, e.votes[t][e.round][Me])
    IN  /\ Running
        /\ \A s \in saving : s.then # "reply"
        /\ IF prevote # None /\ vote("prevote") \notin sent
           THEN SaveVote(vote("prevote"), "reply")
           ELSE /\ precommit # None
                /\ vote("precommit") \notin sent
                /\ SaveVote(vote("precommit"), "reply")
        /\ UNCHANGED <<e, up, started, journal, height, bounds>>

\* The same to a peer in an earlier round r: the stored votes of r go out again
\* under round_wait, otherwise our prevote of its POLC is saved and sent.
ReplyPast(r) ==
    /\ Running
    /\ r < e.round
    /\ IF RoundWait
       THEN /\ ~issue
            /\ sent' = sent \cup {VoteOf(t, r, log[t][r]) : t \in {u \in VoteType : log[u][r] # None}}
            /\ UNCHANGED <<saving, issue, log, known, queued>>
       ELSE /\ e.polc_by_round[r] # None
            /\ e.votes["prevote"][r][Me] = e.polc_by_round[r]
            /\ SaveVote(VoteOf("prevote", r, e.polc_by_round[r]), "reply")
    /\ UNCHANGED <<e, up, started, journal, height, bounds>>

JournalEntry(s) == <<s.vote.ballot, s.valid_round>>

\* write_pending_commit: another entry of the round stays.
JournalConflicts(s) == journal[s.vote.round] \notin {None, JournalEntry(s)}

PutJournal(s) ==
    /\ ~JournalConflicts(s)
    /\ journal' = [journal EXCEPT ![s.vote.round] = JournalEntry(s)]
    /\ known' = [known EXCEPT !["prevote"] = @ \cup
          ({<<Me, s.vote.round, e.votes["prevote"][s.vote.round][Me]>>}
              \cap ({Me} \X Round \X Ballot))]

\* before_precommit_broadcast reaches the disk.
WriteJournal(s) ==
    /\ Running
    /\ ~s.written
    /\ PutJournal(s)
    /\ saving' = (saving \ {s}) \cup {[s EXCEPT !.written = TRUE]}
    /\ UNCHANGED <<e, queued, issue, up, started, log, sent, height, bounds>>

\* The journal refuses or the write fails, perhaps only the sync of the directory,
\* when the entry is there: the vote is held, nothing else changes.
JournalFails(s) ==
    /\ Running
    /\ ~s.written
    /\ saving' = saving \ {s}
    /\ \/ /\ WriteFails \/ JournalConflicts(s)
          /\ UNCHANGED <<journal, known>>
       \/ /\ WriteFails
          /\ PutJournal(s)
    /\ UNCHANGED <<e, queued, issue, up, started, log, sent, height, bounds>>

\* persist_precommit resumes: a save of an earlier generation is abandoned.
FinishSave(s) ==
    /\ Running
    /\ s.written
    /\ saving' = saving \ {s}
    /\ IF s.generation # e.generation THEN UNCHANGED <<issue, log, sent, known, queued>>
       ELSE KeepVote(s.vote, s.then) \/ RefuseVote(s.vote)
    /\ UNCHANGED <<e, up, started, journal, height, bounds>>

\* A finalize message carries our precommit out of the node.
ShowPrecommit(f) ==
    known' = [known EXCEPT !["precommit"] =
                 @ \cup (IF f.own THEN {<<Me, f.round, f.ballot>>} ELSE {})]

ProcessFinalize ==
    /\ Running
    /\ ActorIdle
    /\ e.outputs # <<>>
    /\ NextOutput.kind = "finalize"
    /\ e' = [e EXCEPT !.outputs = Tail(@)]
    /\ ShowPrecommit(NextOutput)
    /\ UNCHANGED <<saving, queued, issue, up, started, disk, sent, height, bounds>>

\* drain_outputs appends the pending finality to every batch until it is
\* acknowledged; on_finalized applies it.  (When it raises the finality stays
\* pending, for the next pass.)
ApplyFinalized ==
    /\ Running
    /\ ActorIdle
    /\ e.outputs = <<>>
    /\ e.pending_finalized # None
    /\ committed' = e.pending_finalized
    /\ ShowPrecommit(e.pending_finalized)
    /\ UNCHANGED <<volatile, disk, sent, acked, bounds>>

\* ack_finalized; the node leaves the height.
AckFinalized ==
    /\ committed # None
    /\ ~acked
    /\ acked' = TRUE
    /\ UNCHANGED <<volatile, disk, world, committed, bounds>>

\* The process dies: what is not on the disk is gone.
Crash ==
    /\ Running
    /\ crashes < MaxCrashes
    /\ BootInBound(log, journal)
    /\ e' = InitialEngine
    /\ saving' = {}
    /\ queued' = {}
    /\ issue' = FALSE
    /\ up' = FALSE
    /\ started' = FALSE
    /\ crashes' = crashes + 1
    /\ lost' = {x \in lost : <<Me, x[1], x[2]>> \in known["precommit"]}
    /\ UNCHANGED <<disk, world, height, resets, late>>

\* pending_vote_wires and restore_votes: the vote of a journal entry goes into
\* the vote log, one after the other.
RestoreVote(r) ==
    /\ ~up
    /\ journal[r] # None
    /\ log["precommit"][r] = None
    /\ log' = [log EXCEPT !["precommit"][r] = journal[r][1]]
    /\ known' = [known EXCEPT !["precommit"] = @ \cup {<<Me, r, journal[r][1]>>}]
    /\ UNCHANGED <<volatile, journal, sent, height, bounds>>

\* The engine is rebuilt and the driver runs.
Restart ==
    /\ ~up
    /\ \A r \in Journalled(journal) : log["precommit"][r] = journal[r][1]
    /\ ~ResumeRefused(RestoredEngine(journal), log)
    /\ up' = TRUE
    /\ e' = Boot(log, journal)
    /\ UNCHANGED <<saving, queued, issue, started, disk, world, height, bounds>>

\* start has waited for its peers, while frames were coming in.
Start ==
    /\ Running
    /\ ~started
    /\ started' = TRUE
    /\ e' = Opened(e, log)
    /\ queued' = IF IsPristine(e) THEN {} ELSE queued
    /\ UNCHANGED <<saving, issue, up, disk, world, height, bounds>>

-----------------------------------------------------------------------------
NodeNext ==
    \/ \E o \in OfferedVotes : ReceiveVote(o[1], o[3], o[2], o[4])
    \/ \E vote \in sent : ReceiveVote(vote.type, vote.round, Me, vote.ballot)
    \/ \E o \in OfferedProposals : ReceiveProposal(o[1], o[2], o[3])
    \/ \E o \in OfferedRounds : ReceiveRoundSync(o[1], o[2])
    \/ \E o \in OfferedFinalizes : ReceiveFinalize(o[1], o[2], o[3])
    \/ \E step \in Step, r \in 0 .. e.round, g \in 0 .. e.generation :
          Timeout([step |-> step, round |-> r, generation |-> g])
    \/ \E v \in Value : Propose(v)
    \/ RealignProgress
    \/ ResetHeight
    \/ ReopenHeight
    \/ Ready
    \/ ProcessVote
    \/ ReplyVotes
    \/ \E r \in Round : ReplyPast(r)
    \/ \E s \in saving : WriteJournal(s) \/ JournalFails(s) \/ FinishSave(s)
    \/ ProcessFinalize
    \/ ApplyFinalized
    \/ AckFinalized
    \/ Crash
    \/ \E r \in Round : RestoreVote(r)
    \/ Restart
    \/ Start

NodeSpec == NodeInit /\ [][NodeNext]_nodeVars

\* Fairness: the output actor takes its next output once the previous one is
\* done, a write the actor waits for returns (with an error, perhaps), and a
\* process that died is started again.  Nothing is assumed of the network, the
\* timers or the peers.
TakeOutput == ProcessVote \/ ProcessFinalize \/ ApplyFinalized \/ AckFinalized

ReturnWrite ==
    \E s \in saving :
        s.then # "reply" /\ (WriteJournal(s) \/ JournalFails(s) \/ FinishSave(s))

Recover == (\E r \in Round : RestoreVote(r)) \/ Restart

FairNodeSpec ==
    /\ NodeSpec
    /\ WF_nodeVars(TakeOutput)
    /\ WF_nodeVars(ReturnWrite)
    /\ WF_nodeVars(Recover)

-----------------------------------------------------------------------------
(* Properties *)

\* Shapes of the node's state, the engine's included.
NodeTypeOK ==
    /\ e \in EngineState
    /\ saving \subseteq Save
    /\ queued \subseteq LocalVote
    /\ issue \in BOOLEAN
    /\ log \in [VoteType -> [Round -> Ballot \cup {None}]]
    /\ journal \in [Round -> (Value \X (Round \cup {NoRound})) \cup {None}]
    /\ sent \subseteq LocalVote
    /\ known \in [VoteType -> SUBSET (Validator \X Round \X Ballot)]
    /\ up \in BOOLEAN
    /\ started \in BOOLEAN
    /\ acked \in BOOLEAN
    /\ crashes \in 0 .. MaxCrashes
    /\ resets \in 0 .. MaxResets
    /\ lost \subseteq Round \X Value
    /\ late \in BOOLEAN

V == INSTANCE Voting WITH
        Honest <- {Me},
        prevotes <- known["prevote"],
        precommits <- known["precommit"],
        decided <- IF acked THEN {<<committed.round, committed.ballot>>} ELSE {}

\* The two ways in which a node leaves the voting rules while its writes succeed:
\* a finalize message shows a precommit of ours that a restart of the height had
\* dropped before any record held it (start_height empties the outputs and keeps
\* the vote tables), and a proposal of an engine that has finalized (do_propose
\* does not look at finality).
Departed ==
    \/ \E x \in lost : <<Me, x[1], x[2]>> \in known["precommit"]
    \/ late

\* The node implements the voting rules until it departs from them in one of the
\* two ways above: whatever the others send, whenever it crashes and the height is
\* started again, its votes are one per round and type, its precommits stand on a
\* prevote quorum, its prevotes keep its locks, and it finalizes only what a
\* precommit quorum carries.
VotingSpec == V!Init /\ [][Departed' \/ UNCHANGED V!vars \/ V!Next]_V!vars

\* A vote that has left the node is in the vote log, so that no later one can
\* contradict it, and a precommit for a value is in the journal too, from which
\* the lock is rebuilt (saved_vote); even when writes fail and the process dies
\* between any two steps.
SentIsDurable ==
    \A vote \in sent :
        /\ log[vote.type][vote.round] = vote.ballot
        /\ (vote.type = "precommit" /\ vote.ballot # Nil) =>
              /\ journal[vote.round] # None
              /\ journal[vote.round][1] = vote.ballot

\* The lock in memory never falls behind a precommit that has left the node,
\* through crashes, realignments and abandoned saves.
LockCoversSent ==
    \A vote \in sent :
        (up /\ vote.type = "precommit" /\ vote.ballot # Nil) =>
            \/ e.locked_round > vote.round
            \/ e.locked_round = vote.round /\ e.locked_value = vote.ballot

\* The records of a crashed node never contradict each other: restoring the
\* journal's votes meets no other vote in the log, and the lock rebuilt from the
\* journal carries the votes of the last round (restore_votes would hold every
\* later vote of the height).
RecordsBoot ==
    /\ \A r \in Journalled(journal) : log["precommit"][r] \in {None, journal[r][1]}
    /\ (\A r \in Journalled(journal) : log["precommit"][r] = journal[r][1])
          => ~ResumeRefused(RestoredEngine(journal), log)

\* The node never reaches for a vote that its log would refuse: what it holds,
\* has queued or is saving agrees with what it has stored, across restarts of
\* the height and of the process (a conflict holds every later vote of the node,
\* vote_log_issue).
MemoryFitsLog ==
    \A t \in VoteType, r \in Round :
        LET held == {e.votes[t][r][Me]} \ {None}
            drained == {e.outputs[i].ballot : i \in
                          {j \in DOMAIN e.outputs : /\ e.outputs[j].kind = "vote"
                                                   /\ e.outputs[j].type = t
                                                   /\ e.outputs[j].round = r}}
            saved == {s.vote.ballot : s \in
                        {u \in saving : u.vote.type = t /\ u.vote.round = r}}
        IN  (up /\ log[t][r] # None) => held \cup drained \cup saved \subseteq {log[t][r]}

\* A node that waits has something to wait for: while the height is open, the
\* current step has a timer on the clock, or, under round_wait, too few votes of
\* the step have come in for a timer to be allowed, or the precommits of the
\* round have decided a value (on_vote lets the round stand until its proposal,
\* or the leave to vote, makes it final).  The exception is the engine that start
\* finds touched by a frame in its first round and leaves unopened: it has no
\* timer until a proposal, a skip or the watchdog moves it.
NeverStranded ==
    (Running /\ started /\ ~e.finalized) =>
        \/ e.armed
        \/ ~TimerAllowed(e, e.step)
        \/ /\ RoundWait /\ e.step = "precommit"
           /\ \E v \in Value : QuorumResult(e, "precommit", v)
        \/ e.generation = 0 /\ e.round = 0 /\ e.step = "propose"

\* Every lock and every POLC the engine holds, rebuilt ones included, stands on
\* votes that exist: a prevote quorum of its round (our own prevote may still be
\* on its way to the log), or the precommit quorum of a finalize message.
Behind(t, r, v) ==
    \E Q \in Quorum :
        \A p \in Q : <<p, r, v>> \in known[t] \/ (p = Me /\ e.votes[t][r][Me] = v)

PolcIsReal ==
    /\ \A r \in Round :
          e.polc_by_round[r] # None =>
              \E t \in VoteType : Behind(t, r, e.polc_by_round[r])
    /\ e.locked_round >= 0 =>
          \E t \in VoteType, r \in Round :
              r <= e.locked_round /\ Behind(t, r, e.locked_value)

\* A finality the engine has reached is applied and acknowledged, unless the
\* process dies first: no save, no refused vote and no reply to a peer keeps the
\* output actor from it (process_outputs, ack_finalized).
FinalityApplied == e.finalized ~> (acked \/ ~up)

=============================================================================
