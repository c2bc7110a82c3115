----------------------------- MODULE NodeProofs -----------------------------
(***************************************************************************)
(* The safety of one node, for any validators, values, quorums, offers and *)
(* bounds, through write failures, crashes, restarts of the height and the *)
(* replies beside the output actor:                                        *)
(*  - its records never contradict each other or its memory, and what it   *)
(*    has sent is on its disk and under its lock (NodeInv: Fits of         *)
(*    EngineProofs, and what ties the journal, the saves in flight and the *)
(*    votes that are out to the log);                                      *)
(*  - what its lock and its POLCs rest on exists (StandInv: NodeInv and    *)
(*    Stands), and a node whose writes succeed implements the rules of     *)
(*    Voting until it departs from them in one of the two ways that Node   *)
(*    names (Departed);                                                    *)
(*  - it never waits without a timer it should have (ClockInv: NodeInv and *)
(*    Timed).                                                              *)
(***************************************************************************)
EXTENDS Node, EngineProofs

\* Journal entries whose vote has not reached the log.
Unlogged == {r \in Round : journal[r] # None /\ log["precommit"][r] = None}

\* Own votes on their way to the log.
Pending ==
    {<<s.vote.type, s.vote.round, s.vote.ballot>> : s \in saving}
        \cup {<<"precommit", r, journal[r][1]>> : r \in Unlogged}

\* A running engine fits the log and what is on its way there.
UpInv == up => Fits(e, log, Pending)

\* A dead process holds nothing, and its records are in the bound.
DownInv ==
    ~up => /\ saving = {} /\ queued = {} /\ issue = FALSE
           /\ BootInBound(log, journal)

\* Only precommits for values wait for the journal; a finished write is there.
SavingInv ==
    \A s \in saving :
        /\ s.vote.type = "precommit"
        /\ s.vote.ballot \in Value
        /\ s.written => /\ journal[s.vote.round] # None
                        /\ journal[s.vote.round][1] = s.vote.ballot

\* What is out, or held back behind the log, is in the log.
SentInv == \A vote \in queued \cup sent : log[vote.type][vote.round] = vote.ballot

\* A stored precommit for a value has its journal entry.
LogBacked ==
    \A r \in Round :
        log["precommit"][r] \in Value =>
            journal[r] # None /\ journal[r][1] = log["precommit"][r]

\* A journal entry's vote is the one the log has, or the log has none.
JournalFits ==
    \A r \in Round : journal[r] # None => log["precommit"][r] \in {None, journal[r][1]}

NodeInv ==
    /\ NodeTypeOK
    /\ UpInv
    /\ DownInv
    /\ SavingInv
    /\ SentInv
    /\ LogBacked
    /\ JournalFits

JournalTable == [Round -> (Value \X (Round \cup {NoRound})) \cup {None}]

-----------------------------------------------------------------------------
(* The boot *)

\* Every entry of a journal is a value and a round.
LEMMA EntryTypes ==
    ASSUME NEW jn \in JournalTable, NEW r \in Round, jn[r] # None
    PROVE  jn[r][1] \in Value /\ jn[r][2] \in Round \cup {NoRound}
BY DEF JournalTable

\* The last round of a nonempty log or journal.
LEMMA LastJournalled ==
    ASSUME NEW jn \in JournalTable, Journalled(jn) # {}
    PROVE  /\ Max(Journalled(jn)) \in Round /\ jn[Max(Journalled(jn))] # None
           /\ \A r \in Round : jn[r] # None => r <= Max(Journalled(jn))
<1>1. Journalled(jn) \in SUBSET Round
  BY DEF Journalled
<1>2. /\ Max(Journalled(jn)) \in Journalled(jn) /\ Max(Journalled(jn)) \in Round
      /\ \A y \in Journalled(jn) : y <= Max(Journalled(jn))
  BY <1>1, MaxRoundOf
<1> DEFINE m == Max(Journalled(jn))
<1>3. m \in Journalled(jn) /\ m \in Round /\ \A y \in Journalled(jn) : y <= m
  BY <1>2
<1> HIDE DEF m
<1>4. jn[m] # None /\ \A r \in Round : jn[r] # None => r <= m
  BY <1>3 DEF Journalled
<1> QED BY <1>3, <1>4 DEF m

\* The engine that the journal gives: its lock covers a log that the journal backs.
LEMMA RestoredBlank ==
    ASSUME NEW lg \in LogTable, NEW jn \in JournalTable,
           ~RoundWait => MaxRound \notin Journalled(jn),
           \A r \in Round : lg["precommit"][r] \in Value =>
               jn[r] # None /\ jn[r][1] = lg["precommit"][r]
    PROVE  LET en == RestoredEngine(jn)
           IN  /\ Blank(en)
               /\ LogCovered(en, lg)
               /\ en.locked_round >= 0 =>
                     /\ en.locked_round <= en.round
                     /\ HasMessage(en, en.locked_value, en.locked_round)
               /\ Journalled(jn) = {} => en.round = 0
               /\ (RoundWait /\ Journalled(jn) # {}) => en.round = Max(Journalled(jn))
<1> DEFINE en == RestoredEngine(jn)
           J == Journalled(jn)
           m == Max(J)
<1>1. CASE J = {}
  <2>1. en = InitialEngine
    BY <1>1 DEF RestoredEngine
  <2> HIDE DEF en
  <2>2. Blank(en) /\ en.round = 0 /\ en.locked_round = NoRound
    BY <2>1, InitialBlank
  <2>3. ~(en.locked_round >= 0) /\ en.locked_round <= en.round
    BY <2>2 DEF NoRound
  <2>4. LogCovered(en, lg)
    <3> SUFFICES ASSUME NEW r \in Round, NEW v \in Value, lg["precommit"][r] = v
                 PROVE  FALSE
      BY DEF LogCovered
    <3>1. jn[r] # None
      OBVIOUS
    <3> QED BY <1>1, <3>1 DEF Journalled
  <2> QED BY <1>1, <2>2, <2>3, <2>4 DEF en
<1>2. CASE J # {}
  <2>1. m \in Round /\ jn[m] # None /\ \A r \in Round : jn[r] # None => r <= m
    BY <1>2, LastJournalled
  <2>2. ~RoundWait => m # MaxRound
    <3>1. m \in J
      BY <2>1 DEF Journalled
    <3> HIDE DEF m
    <3> QED BY <3>1
  <2>3. en = RestorePrecommitLock(InitialEngine, m, jn[m][1], jn[m][2])
    BY <1>2 DEF RestoredEngine
  <2> HIDE DEF m, J
  <2>4. jn[m][1] \in Value /\ jn[m][2] \in Round \cup {NoRound}
    BY <2>1, EntryTypes
  <2> HIDE DEF en
  <2>5. /\ Blank(en) /\ en.round = IF RoundWait THEN m ELSE m + 1
        /\ en.locked_round = m /\ en.locked_value = jn[m][1]
        /\ HasMessage(en, jn[m][1], m)
    BY <2>1, <2>2, <2>3, <2>4, RestoreLockBlank
  <2>6. en.locked_round <= en.round
    BY <2>1, <2>5 DEF Round
  <2>7. LogCovered(en, lg)
    <3> SUFFICES ASSUME NEW r \in Round, NEW v \in Value, lg["precommit"][r] = v
                 PROVE  m > r \/ (m = r /\ jn[m][1] = v)
      BY <2>5 DEF LogCovered
    <3>1. jn[r] # None /\ jn[r][1] = v /\ r <= m
      BY <2>1
    <3> QED BY <2>1, <3>1 DEF Round
  <2> QED BY <1>2, <2>5, <2>6, <2>7 DEF en, m, J
<1> QED BY <1>1, <1>2

\* The rounds of a log.
Stored(lg) == {r \in Round : \E t \in VoteType : lg[t][r] # None}

\* The last round that has a stored vote.
LEMMA LastStored ==
    ASSUME NEW lg \in LogTable, Stored(lg) # {}
    PROVE  /\ Max(Stored(lg)) \in Round
           /\ \E t \in VoteType : lg[t][Max(Stored(lg))] # None
           /\ \A t \in VoteType, r \in Round : r > Max(Stored(lg)) => lg[t][r] = None
<1>1. Stored(lg) \in SUBSET Round
  BY DEF Stored
<1>2. /\ Max(Stored(lg)) \in Stored(lg) /\ Max(Stored(lg)) \in Round
      /\ \A y \in Stored(lg) : y <= Max(Stored(lg))
  BY <1>1, MaxRoundOf
<1> DEFINE m == Max(Stored(lg))
<1>3. m \in Stored(lg) /\ m \in Round /\ \A y \in Stored(lg) : y <= m
  BY <1>2
<1> HIDE DEF m
<1>4. \E t \in VoteType : lg[t][m] # None
  BY <1>3 DEF Stored
<1>5. ASSUME NEW t \in VoteType, NEW r \in Round, r > m PROVE lg[t][r] = None
  <2>1. ~(r <= m)
    BY <1>3, <1>5 DEF Round
  <2> QED BY <1>3, <2>1 DEF Stored
<1> QED BY <1>3, <1>4, <1>5 DEF m

\* A blank engine takes back the stored votes of its round.
LEMMA BlankRestorable ==
    ASSUME NEW en, NEW lg \in LogTable, Blank(en), LogCovered(en, lg),
           en.locked_round <= en.round
    PROVE  RestorableVotes(en, [t \in VoteType |-> lg[t][en.round]])
<1>1. en.round \in Round /\ en.round \in Nat /\ en.locked_round \in Int
  BY EngineTypes DEF Blank
<1> SUFFICES ASSUME NEW t \in VoteType, lg[t][en.round] # None
             PROVE  /\ Own(en, t, en.round) = None
                    /\ (t = "precommit" /\ lg[t][en.round] # Nil) =>
                          en.locked_round >= en.round /\ en.locked_value = lg[t][en.round]
  BY DEF RestorableVotes, Own
<1>2. Own(en, t, en.round) = None
  BY <1>1 DEF Blank
<1>3. ASSUME t = "precommit", lg[t][en.round] # Nil
      PROVE  en.locked_round >= en.round /\ en.locked_value = lg[t][en.round]
  <2>1. lg[t][en.round] \in Value
    BY <1>1, <1>3 DEF LogTable, Ballot
  <2>2. \/ en.locked_round > en.round
        \/ en.locked_round = en.round /\ en.locked_value = lg[t][en.round]
    BY <1>1, <1>3, <2>1 DEF LogCovered
  <2> QED BY <1>1, <2>2
<1> QED BY <1>2, <1>3

\* A blank engine that realigns to a later round.
LEMMA LaterBlank ==
    ASSUME NEW en, NEW lg \in LogTable, Blank(en), LogCovered(en, lg),
           NEW r \in Round, r > en.round,
           en.locked_round >= 0 =>
               /\ en.locked_round <= en.round
               /\ HasMessage(en, en.locked_value, en.locked_round)
    PROVE  LET f == RealignRound(en, r)
           IN  Blank(f) /\ LogCovered(f, lg) /\ f.round = r /\ f.locked_round <= r
<1> DEFINE f == RealignRound(en, r)
<1>1. /\ en \in EngineState /\ en.round \in Nat /\ en.locked_round \in Int /\ r \in Nat
      /\ en.locked_round \in Round \cup {NoRound}
  BY EngineTypes DEF Blank, Round
<1>2. en.locked_round >= 0 => en.locked_value \in Value /\ en.locked_round <= r
  BY <1>1 DEF Blank, LockKnown
<1>3. /\ Blank(f) /\ f.round = r
      /\ f.locked_round = en.locked_round /\ f.locked_value = en.locked_value
  BY <1>1, <1>2, RealignBlank DEF Blank
<1> HIDE DEF f
<1>4. LogCovered(f, lg)
  BY <1>3 DEF LogCovered
<1>5. f.locked_round <= r
  BY <1>1, <1>2, <1>3 DEF NoRound
<1> QED BY <1>3, <1>4, <1>5 DEF f

\* The records of a node whose journal votes are restored.
Restored(lg, jn) ==
    /\ \A r \in Round : lg["precommit"][r] \in Value =>
          jn[r] # None /\ jn[r][1] = lg["precommit"][r]
    /\ \A r \in Round : jn[r] # None => lg["precommit"][r] = jn[r][1]

\* Under round_wait the engine arrives in the last stored round.
LEMMA ArrivesAtLast ==
    ASSUME NEW lg \in LogTable, NEW jn \in JournalTable, Restored(lg, jn),
           RoundWait, Stored(lg) # {}
    PROVE  LET en == RestoredEngine(jn)
               last == Max(Stored(lg))
               f == IF last > en.round THEN RealignRound(en, last) ELSE en
           IN  /\ Blank(f) /\ LogCovered(f, lg) /\ f.round = last
               /\ f.locked_round <= f.round
<1> DEFINE en == RestoredEngine(jn)
           last == Max(Stored(lg))
           f == IF last > en.round THEN RealignRound(en, last) ELSE en
<1>1. /\ last \in Round
      /\ \A t \in VoteType, r \in Round : r > last => lg[t][r] = None
  BY LastStored
<1> HIDE DEF last
<1>2. /\ Blank(en) /\ LogCovered(en, lg)
      /\ en.locked_round >= 0 =>
            /\ en.locked_round <= en.round
            /\ HasMessage(en, en.locked_value, en.locked_round)
      /\ Journalled(jn) = {} => en.round = 0
      /\ Journalled(jn) # {} => en.round = Max(Journalled(jn))
  BY RestoredBlank DEF Restored
<1>3. en.round <= last
  <2>1. CASE Journalled(jn) = {}
    BY <1>1, <1>2, <2>1 DEF Round
  <2>2. CASE Journalled(jn) # {}
    <3> DEFINE m == Max(Journalled(jn))
    <3>1. m \in Round /\ jn[m] # None
      BY <2>2, LastJournalled
    <3>2. en.round = m
      BY <1>2, <2>2
    <3> HIDE DEF m
    <3>3. lg["precommit"][m] \in Value
      BY <3>1, EntryTypes DEF Restored
    <3>4. ~(m > last)
      BY <1>1, <3>1, <3>3, NoneIsNoBallot DEF VoteType
    <3> QED BY <1>1, <3>1, <3>2, <3>4 DEF Round
  <2> QED BY <2>1, <2>2
<1>4. en.round \in Nat /\ en.locked_round \in Int /\ last \in Nat
  BY <1>1, <1>2, EngineTypes DEF Blank, Round
<1> HIDE DEF en
<1>5. CASE last > en.round
  BY <1>1, <1>2, <1>5, LaterBlank DEF en, last
<1>6. CASE ~(last > en.round)
  <2>1. en.round = last /\ f = en /\ en.locked_round <= en.round
    BY <1>2, <1>3, <1>4, <1>6
  <2> QED BY <1>2, <2>1 DEF en, last
<1> QED BY <1>5, <1>6

\* resume_local_vote never refuses the records of a node.
LEMMA NeverRefused ==
    ASSUME NEW lg \in LogTable, NEW jn \in JournalTable, Restored(lg, jn)
    PROVE  ~ResumeRefused(RestoredEngine(jn), lg)
<1> SUFFICES ASSUME ResumeRefused(RestoredEngine(jn), lg) PROVE FALSE
  OBVIOUS
<1> DEFINE en == RestoredEngine(jn)
           last == Max(Stored(lg))
           f == IF last > en.round THEN RealignRound(en, last) ELSE en
<1>1. /\ RoundWait /\ Stored(lg) # {}
      /\ ~RestorableVotes(f, [t \in VoteType |-> lg[t][last]])
  BY DEF ResumeRefused, Stored
<1>2. Blank(f) /\ LogCovered(f, lg) /\ f.round = last /\ f.locked_round <= f.round
  BY <1>1, ArrivesAtLast
<1> HIDE DEF f, last
<1>3. RestorableVotes(f, [t \in VoteType |-> lg[t][f.round]])
  BY <1>2, BlankRestorable
<1> QED BY <1>1, <1>2, <1>3

\* The engine of a booted node fits its log.
LEMMA BootFits ==
    ASSUME NEW lg \in LogTable, NEW jn \in JournalTable, Restored(lg, jn),
           BootInBound(lg, jn)
    PROVE  Fits(Boot(lg, jn), lg, {})
<1> DEFINE en == RestoredEngine(jn)
           last == Max(Stored(lg))
           saved == [t \in VoteType |-> lg[t][last]]
           target == IF RoundWait THEN last ELSE last + 1
           f == IF target > en.round THEN RealignRound(en, target) ELSE en
<1>1. Boot(lg, jn) =
        IF Stored(lg) = {} THEN en
        ELSE IF RoundWait /\ f.round = last /\ RestorableVotes(f, saved)
        THEN RestoreLocalVotes(f, saved) ELSE f
  BY DEF Boot, ResumeLocalVote, Stored
<1>2. /\ Blank(en) /\ LogCovered(en, lg)
      /\ en.locked_round >= 0 =>
            /\ en.locked_round <= en.round
            /\ HasMessage(en, en.locked_value, en.locked_round)
  BY RestoredBlank DEF Restored, BootInBound
<1>3. en.round \in Nat /\ en.round \in Round
  BY <1>2, EngineTypes DEF Blank
<1>4. CASE Stored(lg) = {}
  <2>1. \A t \in VoteType, r \in Round : lg[t][r] = None
    BY <1>4 DEF Stored
  <2>2. Fits(en, lg, {})
    BY <1>2, <2>1, BlankFits
  <2> QED BY <1>1, <1>4, <2>2
<1>5. CASE Stored(lg) # {} /\ RoundWait
  <2>1. target = last
    BY <1>5
  <2>2. /\ last \in Round
        /\ \A t \in VoteType, r \in Round : r > last => lg[t][r] = None
    BY <1>5, LastStored
  <2>3. Blank(f) /\ LogCovered(f, lg) /\ f.round = last /\ f.locked_round <= f.round
    BY <1>5, <2>1, ArrivesAtLast
  <2> HIDE DEF f, last
  <2>4. RestorableVotes(f, saved)
    BY <2>3, BlankRestorable
  <2>5. Fits(RestoreLocalVotes(f, saved), lg, {})
    BY <2>2, <2>3, RestoreVotesFits
  <2> QED BY <1>1, <1>5, <2>3, <2>4, <2>5
<1>6. CASE Stored(lg) # {} /\ ~RoundWait
  <2>1. /\ last \in Round
        /\ \E t \in VoteType : lg[t][last] # None
        /\ \A t \in VoteType, r \in Round : r > last => lg[t][r] = None
    BY <1>6, LastStored
  <2>2. target = last + 1
    BY <1>6
  <2> HIDE DEF last
  <2>3. last # MaxRound
    BY <1>6, <2>1 DEF BootInBound
  <2>4. target \in Round /\ \A r \in Round : r >= target => r > last
    BY <2>1, <2>2, <2>3, EngineAssumption DEF Round
  <2>5. Boot(lg, jn) = f
    BY <1>1, <1>6
  <2> HIDE DEF target
  <2>6. CASE target > en.round
    <3>1. f = RealignRound(en, target)
      BY <2>6
    <3> HIDE DEF f, en
    <3>2. Blank(f) /\ LogCovered(f, lg) /\ f.round = target
      BY <1>2, <2>4, <2>6, <3>1, LaterBlank
    <3>3. \A t \in VoteType, r \in Round : r >= f.round => lg[t][r] = None
      BY <2>1, <2>4, <3>2
    <3> QED BY <2>5, <3>2, <3>3, BlankFits
  <2>7. CASE ~(target > en.round)
    <3>1. f = en
      BY <2>7
    <3> HIDE DEF f, en
    <3>2. \A r \in Round : r >= en.round => r >= target
      BY <1>3, <2>4, <2>7 DEF Round
    <3>3. \A t \in VoteType, r \in Round : r >= en.round => lg[t][r] = None
      BY <2>1, <2>4, <3>2
    <3>4. Fits(en, lg, {})
      BY <1>2, <3>3, BlankFits
    <3> QED BY <2>5, <3>1, <3>4
  <2> QED BY <2>6, <2>7
<1> QED BY <1>4, <1>5, <1>6

\* resume_local_vote does nothing where the log lies behind the engine.
LEMMA ResumeNothing ==
    ASSUME NEW en \in EngineState, NEW lg \in LogTable,
           \A t \in VoteType, r \in Round : r >= en.round => lg[t][r] = None
    PROVE  ResumeLocalVote(en, lg) = en
<1> DEFINE last == Max(Stored(lg))
           saved == [t \in VoteType |-> lg[t][last]]
           target == IF RoundWait THEN last ELSE last + 1
           f == IF target > en.round THEN RealignRound(en, target) ELSE en
<1>1. ResumeLocalVote(en, lg) =
        IF Stored(lg) = {} THEN en
        ELSE IF RoundWait /\ f.round = last /\ RestorableVotes(f, saved)
        THEN RestoreLocalVotes(f, saved) ELSE f
  BY DEF ResumeLocalVote, Stored
<1>2. CASE Stored(lg) = {}
  BY <1>1, <1>2
<1>3. CASE Stored(lg) # {}
  <2>1. last \in Round /\ \E t \in VoteType : lg[t][last] # None
    BY <1>3, LastStored
  <2> HIDE DEF last
  <2>2. ~(last >= en.round)
    BY <2>1
  <2>3. en.round \in Nat /\ last \in Nat
    BY <2>1, EngineTypes DEF Round
  <2>4. ~(target > en.round) /\ en.round # last
    BY <2>2, <2>3
  <2>5. f = en
    BY <2>4
  <2> HIDE DEF f
  <2> QED BY <1>1, <1>3, <2>4, <2>5
<1> QED BY <1>2, <1>3

-----------------------------------------------------------------------------
(* Steps of the engine *)

\* The types of the node, in the names of the lemmas on the engine.
LEMMA NodeTypes ==
    ASSUME NodeTypeOK
    PROVE  /\ log \in LogTable /\ journal \in JournalTable /\ known \in KnownTable
           /\ e \in EngineState
BY DEF NodeTypeOK, LogTable, JournalTable, KnownTable

\* The disk and the saves stay; the engine moves to one that fits.
LEMMA EngineKeeps ==
    ASSUME NodeInv, up, up' = up, UNCHANGED <<saving, disk>>,
           Fits(e', log, Pending),
           queued' \in SUBSET queued, sent' \in SUBSET (sent \cup queued),
           issue' \in BOOLEAN, started' \in BOOLEAN, acked' \in BOOLEAN,
           known' \in KnownTable,
           crashes' \in 0 .. MaxCrashes, resets' \in 0 .. MaxResets,
           lost' \subseteq Round \X Value, late' \in BOOLEAN
    PROVE  NodeInv'
<1>1. saving' = saving /\ log' = log /\ journal' = journal
  BY DEF disk
<1>2. Pending' = Pending
  BY <1>1 DEF Pending, Unlogged
<1>3. e' \in EngineState
  BY DEF Fits
<1>4. NodeTypeOK'
  BY <1>1, <1>3 DEF NodeInv, NodeTypeOK, KnownTable
<1>5. UpInv'
  BY <1>1, <1>2 DEF UpInv
<1>6. DownInv'
  BY DEF DownInv
<1>7. SavingInv' /\ LogBacked' /\ JournalFits'
  BY <1>1 DEF NodeInv, SavingInv, LogBacked, JournalFits
<1>8. SentInv'
  BY <1>1 DEF NodeInv, SentInv
<1> QED BY <1>4, <1>5, <1>6, <1>7, <1>8 DEF NodeInv

\* What has counted is a set of votes.
LEMMA KnownGrows ==
    ASSUME known \in KnownTable, NEW en,
           known' = IF en.votes = e.votes THEN known
                    ELSE [t \in VoteType |-> known[t] \cup Counted(en, t)]
    PROVE  known' \in KnownTable
<1>1. \A t \in VoteType : Counted(en, t) \subseteq Validator \X Round \X Ballot
  BY DEF Counted
<1>2. [t \in VoteType |-> known[t] \cup Counted(en, t)] \in KnownTable
  BY <1>1 DEF KnownTable
<1> QED BY <1>2

\* A handler's engine fits, and so the node's invariant holds.
LEMMA EngineMovesKeep ==
    ASSUME NodeInv, NEW en, EngineMoves(en), Fits(en, log, Pending), issue' \in BOOLEAN
    PROVE  NodeInv'
<1>1. up /\ UNCHANGED <<saving, queued, up, started, disk, sent, height, bounds>> /\ e' = en
  BY DEF EngineMoves, Running
<1>2. known' \in KnownTable
  BY KnownGrows, NodeTypes DEF EngineMoves, NodeInv
<1>3. started' \in BOOLEAN /\ acked' \in BOOLEAN /\ crashes' \in 0 .. MaxCrashes
      /\ resets' \in 0 .. MaxResets
      /\ lost' \subseteq Round \X Value /\ late' \in BOOLEAN
  BY <1>1 DEF NodeInv, NodeTypeOK, height, bounds, departures
<1> QED BY <1>1, <1>2, <1>3, EngineKeeps

\* A handler after which the driver may record an issue (a POLC it could not keep).
LEMMA KeepingPolcKeeps ==
    ASSUME NodeInv, NEW en, NEW r, EngineStepKeepingPolc(en, r), Fits(en, log, Pending)
    PROVE  NodeInv'
<1>1. EngineMoves(en) /\ issue' \in BOOLEAN
  BY DEF EngineStepKeepingPolc, NodeInv, NodeTypeOK
<1> QED BY <1>1, EngineMovesKeep

\* A vote of another validator, or a copy of a vote this node has sent.
LEMMA ReceiveVoteKeeps ==
    ASSUME NodeInv, NEW t \in VoteType, NEW r \in Round, NEW p \in Validator, NEW b \in Ballot,
           p = Me => log[t][r] = b, ReceiveVote(t, r, p, b)
    PROVE  NodeInv'
<1>1. PICK can \in CanVote, ready \in SkipReady :
         EngineStepKeepingPolc(OnVote(e, t, r, p, b, can, ready), r)
  BY DEF ReceiveVote
<1>2. up /\ can \in BOOLEAN
  BY <1>1, NodeAssumption DEF EngineStepKeepingPolc, EngineMoves, Running
<1>3. Fits(e, log, Pending) /\ log \in LogTable
  BY <1>2, NodeTypes DEF NodeInv, UpInv
<1>4. Fits(OnVote(e, t, r, p, b, can, ready), log, Pending)
  BY <1>2, <1>3, OnVoteFits
<1> QED BY <1>1, <1>4, KeepingPolcKeeps

\* A proposal of the leader of its round.
LEMMA ReceiveProposalKeeps ==
    ASSUME NodeInv, NEW r \in Round, NEW v \in Value, NEW vr \in Round \cup {NoRound},
           ReceiveProposal(r, v, vr)
    PROVE  NodeInv'
<1>1. PICK valid \in Valid, can \in CanVote, ready \in SkipReady :
         EngineStepKeepingPolc(
            IF r < e.round THEN LearnPastProposal(e, r, v, vr, valid)
            ELSE OnPropose(e, r, v, vr, valid, can, ready), r)
  BY DEF ReceiveProposal
<1> DEFINE en == IF r < e.round THEN LearnPastProposal(e, r, v, vr, valid)
                 ELSE OnPropose(e, r, v, vr, valid, can, ready)
<1>2. up /\ can \in BOOLEAN /\ valid \in BOOLEAN
  BY <1>1, NodeAssumption DEF EngineStepKeepingPolc, EngineMoves, Running
<1>3. Fits(e, log, Pending) /\ log \in LogTable
  BY <1>2, NodeTypes DEF NodeInv, UpInv
<1>4. Fits(en, log, Pending)
  BY <1>2, <1>3, LearnPastProposalFits, OnProposeFits
<1> HIDE DEF en
<1> QED BY <1>1, <1>4, KeepingPolcKeeps DEF en

\* The round another validator says it is in.
LEMMA ReceiveRoundSyncKeeps ==
    ASSUME NodeInv, NEW r \in Round, NEW p \in Validator, ReceiveRoundSync(r, p)
    PROVE  NodeInv'
<1>1. PICK ready \in SkipReady :
         /\ Running
         /\ e' = OnRoundSync(e, r, p, ready)
         /\ queued' \in {queued, {}}
         /\ UNCHANGED <<saving, issue, up, started, disk, world, height, bounds>>
  BY DEF ReceiveRoundSync
<1>2. Fits(e, log, Pending) /\ log \in LogTable /\ up
  BY <1>1, NodeTypes DEF NodeInv, UpInv, Running
<1>3. Fits(e', log, Pending)
  BY <1>1, <1>2, OnRoundSyncFits
<1>4. /\ issue' \in BOOLEAN /\ started' \in BOOLEAN /\ acked' \in BOOLEAN
      /\ known' \in KnownTable /\ sent' = sent
      /\ crashes' \in 0 .. MaxCrashes /\ resets' \in 0 .. MaxResets
      /\ lost' \subseteq Round \X Value /\ late' \in BOOLEAN
  BY <1>1 DEF NodeInv, NodeTypeOK, KnownTable, height, bounds, departures, world
<1> QED BY <1>1, <1>2, <1>3, <1>4, EngineKeeps

\* A finalize message with its certificate.
LEMMA ReceiveFinalizeKeeps ==
    ASSUME NodeInv, NEW r \in Round, NEW v \in Value, NEW Q \in Quorum,
           ReceiveFinalize(r, v, Q)
    PROVE  NodeInv'
<1>1. /\ up /\ e' = AcceptFinalizeBatch(e, r, v)
      /\ known' = [known EXCEPT !["precommit"] = @ \cup {<<p, r, v>> : p \in Q}]
      /\ UNCHANGED <<saving, queued, issue, up, started, disk, sent, height, bounds>>
  BY DEF ReceiveFinalize, Running
<1>2. Fits(e, log, Pending) /\ log \in LogTable /\ known \in KnownTable
  BY <1>1, NodeTypes DEF NodeInv, UpInv
<1>3. Fits(e', log, Pending)
  BY <1>1, <1>2, AcceptFinalizeFits
<1>4. known' \in KnownTable
  <2>1. {<<p, r, v>> : p \in Q} \subseteq Validator \X Round \X Ballot
    BY EngineAssumption DEF Ballot
  <2> DEFINE add == {<<p, r, v>> : p \in Q}
  <2> HIDE DEF add
  <2>2. [known EXCEPT !["precommit"] = @ \cup add] \in KnownTable
    BY <1>2, <2>1 DEF KnownTable, add
  <2> QED BY <1>1, <2>2 DEF add
<1>5. /\ issue' \in BOOLEAN /\ started' \in BOOLEAN /\ acked' \in BOOLEAN
      /\ crashes' \in 0 .. MaxCrashes /\ resets' \in 0 .. MaxResets
      /\ lost' \subseteq Round \X Value /\ late' \in BOOLEAN
  BY <1>1 DEF NodeInv, NodeTypeOK, height, bounds, departures
<1> QED BY <1>1, <1>3, <1>4, <1>5, EngineKeeps

\* A timer of this or of an earlier generation.
LEMMA TimeoutKeeps ==
    ASSUME NodeInv, NEW t, Timeout(t)
    PROVE  NodeInv'
<1>1. PICK can \in CanVote :
         /\ TimeoutEndsRound(e, t, can) => e.round < MaxRound
         /\ EngineStep(OnTimeout([e EXCEPT !.armed = @ /\ ~TimerCurrent(e, t)], t, can))
  BY DEF Timeout
<1> DEFINE a == e.armed /\ ~TimerCurrent(e, t)
           f == [e EXCEPT !.armed = a]
           en == OnTimeout(f, t, can)
<1>2. up /\ can \in BOOLEAN
  BY <1>1, NodeAssumption DEF EngineStep, EngineMoves, Running
<1>3. Fits(e, log, Pending) /\ log \in LogTable /\ e \in EngineState
  BY <1>2, NodeTypes DEF NodeInv, UpInv
<1>4. EngineStep(en)
  BY <1>1
<1>5. a \in BOOLEAN
  BY <1>3 DEF EngineState
<1> HIDE DEF a
<1>6. Fits(f, log, Pending)
  <2>1. Aside(e, f)
    BY <1>3, <1>5, FieldsAside
  <2> QED BY <1>3, <2>1, AsideFits
<1>7. TimeoutEndsRound(f, t, can) => f.round < MaxRound
  <2>1. /\ f.round = e.round /\ f.step = e.step /\ f.generation = e.generation
        /\ f.votes = e.votes
    BY <1>3, <1>5 DEF EngineState
  <2> HIDE DEF f
  <2> QED BY <1>1, <2>1 DEF TimeoutEndsRound, TimerCurrent, TimerAllowed, QuorumAny, AllVoters
<1> HIDE DEF f
<1>8. Fits(en, log, Pending)
  BY <1>2, <1>3, <1>6, <1>7, OnTimeoutFits
<1> HIDE DEF en
<1> QED BY <1>4, <1>8, EngineMovesKeep DEF EngineStep, NodeInv, NodeTypeOK

\* The proposal of this node as leader.
LEMMA ProposeKeeps ==
    ASSUME NodeInv, NEW v \in Value, Propose(v)
    PROVE  NodeInv'
<1>1. /\ up /\ e' = DoPropose(e, v) /\ e.step = "propose" /\ late' = (late \/ e.finalized)
      /\ UNCHANGED <<saving, queued, issue, up, started, disk, sent, known, acked,
                     crashes, resets, lost>>
  BY DEF Propose, CanPropose, Running, world, height
<1>2. Fits(e, log, Pending) /\ log \in LogTable /\ known \in KnownTable
  BY <1>1, NodeTypes DEF NodeInv, UpInv
<1>3. Fits(e', log, Pending)
  BY <1>1, <1>2, DoProposeFits
<1>4. late' \in BOOLEAN
  BY <1>1
<1> QED BY <1>1, <1>2, <1>3, <1>4, EngineKeeps DEF NodeInv, NodeTypeOK

\* The watchdog moves the engine to the round of its peers.
LEMMA RealignProgressKeeps ==
    ASSUME NodeInv, RealignProgress
    PROVE  NodeInv'
<1>1. PICK ready \in SkipReady :
         /\ Running /\ resets < MaxResets
         /\ Realigned(ready).round <= MaxRound
         /\ e' = Realigned(ready)
         /\ queued' = {} /\ resets' = resets + 1
         /\ UNCHANGED <<saving, issue, up, started, disk, world, height, crashes, departures>>
  BY DEF RealignProgress
<1>2. Fits(e, log, Pending) /\ log \in LogTable /\ up /\ e \in EngineState
  BY <1>1, NodeTypes DEF NodeInv, UpInv, Running
<1>3. e.round \in Round /\ e.round \in Nat
  BY <1>2, EngineTypes
<1>4. Fits(e', log, Pending)
  <2>1. CASE e' = TryRoundSkip(e, ready)
    BY <1>2, <2>1, TryRoundSkipFits
  <2>2. CASE e' = RealignRound(e, e.round + 1)
    <3> DEFINE r == e.round + 1
               n == e.generation + 1
               g == [e EXCEPT !.generation = n]
    <3>1. CASE r \in Round
      <4>1. r >= e.round /\ r # e.round
        BY <1>3
      <4> QED BY <1>2, <2>2, <3>1, <4>1, RealignRoundFits
    <3>2. CASE r \notin Round
      <4>1. RealignRound(e, r).round = r
        <5> DEFINE w == [t \in VoteType |-> [g.votes[t] EXCEPT ![r] = NoVotes]]
                   h == [g EXCEPT !.round = r, !.step = "propose", !.vote_timers = {},
                                  !.votes = w, !.pending_prevote = None, !.armed = FALSE]
        <5>1. n \in Nat
          BY <1>2, EngineTypes
        <5>2. RealignRound(e, r) = [h EXCEPT !.armed = TRUE]
          BY DEF RealignRound, StartRound, Schedule
        <5> HIDE DEF w, n, r
        <5>3. g \in EngineState
          BY <1>2, <5>1 DEF EngineState
        <5> HIDE DEF g
        <5>4. h.round = r /\ DOMAIN h = DOMAIN g
          BY <5>3 DEF EngineState
        <5> HIDE DEF h
        <5>5. [h EXCEPT !.armed = TRUE].round = r
          BY <5>4
        <5> QED BY <5>2, <5>5
      <4>2. r <= MaxRound
        BY <1>1, <2>2, <4>1
      <4> QED BY <1>3, <3>2, <4>2, EngineAssumption DEF Round
    <3> QED BY <3>1, <3>2
  <2> QED BY <1>1, <2>1, <2>2 DEF Realigned
<1>5. /\ issue' \in BOOLEAN /\ started' \in BOOLEAN /\ acked' \in BOOLEAN
      /\ known' \in KnownTable /\ sent' = sent
      /\ crashes' \in 0 .. MaxCrashes
      /\ lost' \subseteq Round \X Value /\ late' \in BOOLEAN
  BY <1>1 DEF NodeInv, NodeTypeOK, KnownTable, height, world, departures
<1>6. resets' \in 0 .. MaxResets
  BY <1>1, NodeAssumption DEF NodeInv, NodeTypeOK
<1> QED BY <1>1, <1>2, <1>4, <1>5, <1>6, EngineKeeps

\* The precommits that a restart drops are rounds and values.
LEMMA DroppedTypes ==
    ASSUME e \in EngineState, NEW k \in 0 .. Len(e.outputs)
    PROVE  Dropped(k) \subseteq Round \X Value
<1> SUFFICES ASSUME NEW i \in (k + 1) .. Len(e.outputs),
                    e.outputs[i].kind = "vote", e.outputs[i].ballot # Nil
             PROVE  <<e.outputs[i].round, e.outputs[i].ballot>> \in Round \X Value
  BY DEF Dropped
<1>1. e.outputs \in Seq(Output)
  BY DEF EngineState
<1>2. i \in 1 .. Len(e.outputs)
  BY <1>1
<1>3. e.outputs[i] \in Output
  BY <1>1, <1>2
<1> QED BY <1>3 DEF Output, LocalVote, FinalizeMessage, Ballot

\* Where no stored vote lies ahead the driver refuses none.
LEMMA ResumeAccepts ==
    ASSUME NEW en \in EngineState, NEW lg \in LogTable,
           \A t \in VoteType, r \in Round : r >= en.round => lg[t][r] = None
    PROVE  ~ResumeRefused(en, lg)
<1> SUFFICES ASSUME Stored(lg) # {}, Max(Stored(lg)) >= en.round PROVE FALSE
  BY DEF ResumeRefused, Stored
<1>1. Max(Stored(lg)) \in Round /\ \E t \in VoteType : lg[t][Max(Stored(lg))] # None
  BY LastStored
<1> QED BY <1>1

\* What the engine is after a restart of the height, and that no issue comes of it
\* but from a log that cannot be read.
LEMMA RestartedEngine ==
    ASSUME NodeInv, NEW k \in 0 .. Len(e.outputs), RestartHeight(k)
    PROVE  /\ e' = [StartSameHeight(e) EXCEPT !.outputs = SubSeq(e.outputs, 1, k)]
           /\ Fits(e', log, Pending)
           /\ ResumeRound(e) \in Round
           /\ ~ResumeRefused(StartSameHeight(e), log)
<1>1. /\ up /\ ResumeRound(e) <= MaxRound
      /\ e' = ResumeLocalVote(
                 [StartSameHeight(e) EXCEPT !.outputs = SubSeq(e.outputs, 1, k)], log)
  BY DEF RestartHeight, Running
<1>2. Fits(e, log, Pending) /\ log \in LogTable /\ e \in EngineState
  BY <1>1, NodeTypes DEF NodeInv, UpInv
<1>3. ResumeRound(e) \in Round
  BY <1>1, <1>2, ResumeRoundBehind, EngineAssumption DEF Round
<1> DEFINE g == StartSameHeight(e)
           f == [g EXCEPT !.outputs = SubSeq(e.outputs, 1, k)]
<1>4. /\ Fits(f, log, Pending)
      /\ \A t \in VoteType, s \in Round : s >= f.round => log[t][s] = None
  BY <1>2, <1>3, DrainedHeightFits
<1>5. e' = ResumeLocalVote(f, log)
  BY <1>1
<1>6. /\ Fits(g, log, Pending)
      /\ \A t \in VoteType, s \in Round : s >= g.round => log[t][s] = None
  BY <1>2, <1>3, StartSameHeightFits
<1> HIDE DEF g, f
<1>7. ResumeLocalVote(f, log) = f
  BY <1>2, <1>4, ResumeNothing DEF Fits
<1>8. ~ResumeRefused(g, log)
  BY <1>2, <1>6, ResumeAccepts DEF Fits
<1>9. e' = f
  BY <1>5, <1>7
<1> QED BY <1>3, <1>4, <1>8, <1>9 DEF g, f

\* A restart of the height, whatever becomes of the votes that wait for leave.
LEMMA RestartHeightKeeps ==
    ASSUME NodeInv, NEW k \in 0 .. Len(e.outputs), RestartHeight(k),
           queued' \in SUBSET queued, issue' \in BOOLEAN
    PROVE  NodeInv'
<1>1. /\ up /\ resets < MaxResets /\ resets' = resets + 1 /\ lost' = lost \cup Dropped(k)
      /\ UNCHANGED <<saving, up, started, disk, world, height, crashes, late>>
  BY DEF RestartHeight, Running
<1>2. Fits(e', log, Pending)
  BY RestartedEngine
<1>3. /\ started' \in BOOLEAN /\ acked' \in BOOLEAN
      /\ known' \in KnownTable /\ sent' = sent /\ late' \in BOOLEAN
      /\ crashes' \in 0 .. MaxCrashes
  BY <1>1 DEF NodeInv, NodeTypeOK, KnownTable, height, world
<1>4. resets' \in 0 .. MaxResets
  BY <1>1, NodeAssumption DEF NodeInv, NodeTypeOK
<1>5. lost' \subseteq Round \X Value
  BY <1>1, DroppedTypes DEF NodeInv, NodeTypeOK
<1> QED BY <1>1, <1>2, <1>3, <1>4, <1>5, EngineKeeps

\* What a resume leaves of vote_log_issue.
LEMMA ResumeIssueTypes ==
    ASSUME NEW b \in BOOLEAN
    PROVE  ResumeIssue(b) \subseteq BOOLEAN
BY DEF ResumeIssue

\* The driver starts the height again, over what the log and the journal hold.
LEMMA ResetHeightKeeps ==
    ASSUME NodeInv, ResetHeight
    PROVE  NodeInv'
<1>1. PICK k \in 0 .. Len(e.outputs) : RestartHeight(k)
  BY DEF ResetHeight
<1>2. queued' = {} /\ issue' \in BOOLEAN
  BY ResumeIssueTypes DEF ResetHeight, NodeInv, NodeTypeOK
<1> QED BY <1>1, <1>2, RestartHeightKeeps

\* The actor begins the height that a catch-up has begun.
LEMMA ReopenHeightKeeps ==
    ASSUME NodeInv, ReopenHeight
    PROVE  NodeInv'
<1>1. RestartHeight(0) /\ queued' = queued
  BY DEF ReopenHeight
<1>2. issue' \in BOOLEAN
  BY ResumeIssueTypes DEF ReopenHeight
<1>3. 0 \in 0 .. Len(e.outputs)
  <2>1. e.outputs \in Seq(Output)
    BY DEF NodeInv, NodeTypeOK, EngineState
  <2> QED BY <2>1
<1> QED BY <1>1, <1>2, <1>3, RestartHeightKeeps

\* An engine that nothing has touched has no lock and no stored vote, and opens
\* its height in round 0.
LEMMA PristineResumes ==
    ASSUME NEW lg \in LogTable, NEW sv, NEW en, Fits(en, lg, sv), IsPristine(en)
    PROVE  ResumeRound(en) = 0
<1>1. /\ en \in EngineState /\ en.round = 0 /\ 0 \in Round
      /\ en.locked_round \in Round \cup {NoRound} /\ MaxRound \in Nat
  BY EngineTypes, EngineAssumption DEF Fits, IsPristine
<1>2. \A t \in VoteType, r \in Round : Own(en, t, r) = None
  <2> SUFFICES ASSUME NEW t \in VoteType, NEW r \in Round PROVE Own(en, t, r) = None
    OBVIOUS
  <2>1. CASE r = 0
    BY <2>1, EngineAssumption DEF IsPristine, Own, NoVotes
  <2>2. CASE r # 0
    BY <1>1, <2>2 DEF Fits, NothingAhead, Round
  <2> QED BY <2>1, <2>2
<1>3. en.locked_round = NoRound
  <2> SUFFICES ASSUME en.locked_round \in Round PROVE FALSE
    BY <1>1
  <2>1. en.locked_round >= 0
    BY DEF Round
  <2>2. /\ en.locked_value \in Value /\ en.locked_round <= 0
        /\ HasMessage(en, en.locked_value, en.locked_round)
    BY <1>1, <2>1 DEF Fits, LockKnown, IsPristine
  <2>3. en.locked_round = 0
    BY <2>2 DEF Round
  <2> QED BY <2>2, <2>3 DEF IsPristine, HasMessage
<1> QED BY <1>1, <1>2, <1>3, ResumeRoundBehind DEF NoRound

\* The driver starts the engine of a node that has booted.
LEMMA StartKeeps ==
    ASSUME NodeInv, Start
    PROVE  NodeInv'
<1>1. /\ up /\ started' = TRUE /\ e' = Opened(e, log) /\ queued' \in {{}, queued}
      /\ UNCHANGED <<saving, issue, up, disk, world, height, bounds>>
  BY DEF Start, Running
<1>2. Fits(e, log, Pending) /\ log \in LogTable /\ e \in EngineState
  BY <1>1, NodeTypes DEF NodeInv, UpInv
<1>3. Fits(e', log, Pending)
  <2>1. CASE ~IsPristine(e)
    BY <1>1, <1>2, <2>1 DEF Opened
  <2>2. CASE IsPristine(e)
    <3>1. ResumeRound(e) \in Round
      BY <1>2, <2>2, PristineResumes, EngineAssumption DEF Round
    <3> DEFINE f == StartSameHeight(e)
    <3>2. /\ Fits(f, log, Pending)
          /\ \A t \in VoteType, s \in Round : s >= f.round => log[t][s] = None
      BY <1>2, <3>1, StartSameHeightFits
    <3>3. e' = ResumeLocalVote(f, log)
      BY <1>1, <2>2 DEF Opened
    <3> HIDE DEF f
    <3>4. ResumeLocalVote(f, log) = f
      BY <1>2, <3>2, ResumeNothing DEF Fits
    <3> QED BY <3>2, <3>3, <3>4
  <2> QED BY <2>1, <2>2
<1>4. /\ issue' \in BOOLEAN /\ started' \in BOOLEAN /\ acked' \in BOOLEAN
      /\ known' \in KnownTable /\ sent' = sent
      /\ crashes' \in 0 .. MaxCrashes /\ resets' \in 0 .. MaxResets
      /\ lost' \subseteq Round \X Value /\ late' \in BOOLEAN
  BY <1>1 DEF NodeInv, NodeTypeOK, KnownTable, height, world, bounds, departures
<1> QED BY <1>1, <1>3, <1>4, EngineKeeps

\* The value of the round is ready, and the votes that waited for it follow.
LEMMA ReadyKeeps ==
    ASSUME NodeInv, Ready
    PROVE  NodeInv'
<1>1. PICK can \in CanVote :
         /\ up /\ e' = OnReady(e, can)
         /\ queued' \in {{}, queued} /\ sent' \in {sent, sent \cup queued}
         /\ UNCHANGED <<saving, issue, up, started, disk, known, height, bounds>>
  BY DEF Ready, Running
<1>2. Fits(e, log, Pending) /\ log \in LogTable /\ can \in BOOLEAN
  BY <1>1, NodeTypes, NodeAssumption DEF NodeInv, UpInv
<1>3. Fits(e', log, Pending)
  BY <1>1, <1>2, OnReadyFits
<1>4. /\ issue' \in BOOLEAN /\ started' \in BOOLEAN /\ acked' \in BOOLEAN
      /\ known' \in KnownTable
      /\ crashes' \in 0 .. MaxCrashes /\ resets' \in 0 .. MaxResets
      /\ lost' \subseteq Round \X Value /\ late' \in BOOLEAN
  BY <1>1 DEF NodeInv, NodeTypeOK, KnownTable, height, bounds, departures
<1> QED BY <1>1, <1>3, <1>4, EngineKeeps

-----------------------------------------------------------------------------
(* Votes on their way to the disk *)

\* What is pending is typed and held by the engine.
LEMMA PendingHeld ==
    ASSUME NodeInv, up
    PROVE  /\ \A s \in saving :
                 /\ s.vote.type = "precommit" /\ s.vote.round \in Round
                 /\ s.vote.ballot \in Value /\ s.vote.ballot \in Ballot
                 /\ Own(e, "precommit", s.vote.round) = s.vote.ballot
           /\ \A r \in Round : (journal[r] # None /\ log["precommit"][r] = None) =>
                 Own(e, "precommit", r) = journal[r][1]
<1>1. Fits(e, log, Pending)
  BY DEF NodeInv, UpInv
<1>2. ASSUME NEW s \in saving
      PROVE  /\ s.vote.type = "precommit" /\ s.vote.round \in Round
             /\ s.vote.ballot \in Value /\ s.vote.ballot \in Ballot
             /\ Own(e, "precommit", s.vote.round) = s.vote.ballot
  <2>1. s.vote.type = "precommit" /\ s.vote.ballot \in Value
    BY DEF NodeInv, SavingInv
  <2>2. s.vote \in LocalVote
    BY DEF NodeInv, NodeTypeOK, Save
  <2>3. s.vote.round \in Round /\ s.vote.ballot \in Ballot
    BY <2>2 DEF LocalVote
  <2> DEFINE x == <<s.vote.type, s.vote.round, s.vote.ballot>>
  <2>4. x \in Pending
    BY DEF Pending
  <2>5. Own(e, x[1], x[2]) = x[3]
    BY <1>1, <2>4 DEF Fits, SavesHeld
  <2> QED BY <2>1, <2>3, <2>5
<1>3. ASSUME NEW r \in Round, journal[r] # None, log["precommit"][r] = None
      PROVE  Own(e, "precommit", r) = journal[r][1]
  <2> DEFINE x == <<"precommit", r, journal[r][1]>>
  <2>1. x \in Pending
    BY <1>3 DEF Pending, Unlogged
  <2>2. Own(e, x[1], x[2]) = x[3]
    BY <1>1, <2>1 DEF Fits, SavesHeld
  <2> QED BY <2>2
<1> QED BY <1>2, <1>3

\* The log takes a vote that the engine holds, or leaves it; the saves may end.
\* A precommit for a value is journalled before.
LEMMA StoreKeeps ==
    ASSUME NodeInv, up, up' = up, NEW vote \in LocalVote, NEW then,
           Own(e, vote.type, vote.round) = vote.ballot,
           (vote.type = "precommit" /\ vote.ballot # Nil) =>
               journal[vote.round] # None /\ journal[vote.round][1] = vote.ballot,
           KeepVote(vote, then) \/ RefuseVote(vote),
           Fits(e', log, Pending), e'.votes = e.votes,
           saving' \in SUBSET saving,
           UNCHANGED <<started, journal, height, bounds>>
    PROVE  NodeInv'
<1> DEFINE t == vote.type
           r == vote.round
           b == vote.ballot
           new == [log EXCEPT ![t][r] = b]
<1>1. /\ t \in VoteType /\ r \in Round /\ b \in Ballot /\ b # None
      /\ log \in LogTable /\ journal \in JournalTable /\ known \in KnownTable
  BY NodeTypes, NoneIsNoBallot DEF LocalVote, NodeInv
<1>2. /\ journal' = journal /\ issue' \in BOOLEAN
      /\ \/ log' = log /\ known' = known /\ queued' = queued /\ sent' = sent
         \/ /\ log[t][r] \in {None, b}
            /\ log' = new
            /\ known' = [known EXCEPT ![t] = @ \cup {<<Me, r, b>>}]
            /\ queued' \in SUBSET (queued \cup {vote})
            /\ sent' \in SUBSET (sent \cup {vote})
  <2>1. CASE KeepVote(vote, then)
    BY <2>1 DEF KeepVote, NodeInv, NodeTypeOK
  <2>2. CASE RefuseVote(vote)
    BY <2>2 DEF RefuseVote
  <2> QED BY <2>1, <2>2
<1>3. Own(e', t, r) = b
  BY DEF Own
<1>4. /\ new \in LogTable /\ Fits(e', new, Pending)
      /\ \A u \in VoteType, s \in Round : new[u][s] = IF u = t /\ s = r THEN b ELSE log[u][s]
  BY <1>1, <1>3, LogAddFits
<1> HIDE DEF new
<1>5. /\ log' \in LogTable /\ Fits(e', log', Pending)
      /\ \A u \in VoteType, s \in Round : log[u][s] # None => log'[u][s] = log[u][s]
      /\ \A u \in VoteType, s \in Round :
            log'[u][s] = log[u][s] \/ (u = t /\ s = r /\ log'[u][s] = b /\ log[u][s] = None)
  BY <1>1, <1>2, <1>4
<1>6. Pending' \subseteq Pending
  <2>1. \A s \in Round : log'["precommit"][s] = None => log["precommit"][s] = None
    BY <1>5 DEF VoteType
  <2>2. Unlogged' \subseteq Unlogged
    BY <1>2, <2>1 DEF Unlogged
  <2> QED BY <1>2, <2>2 DEF Pending
<1>7. Fits(e', log', Pending')
  <2>1. SavesHeld(e', Pending')
    BY <1>5, <1>6 DEF Fits, SavesHeld
  <2> QED BY <1>5, <2>1, SavesFits
<1>8. /\ known' \in KnownTable /\ queued' \in SUBSET (queued \cup {vote})
      /\ sent' \in SUBSET (sent \cup {vote})
  <2>1. <<Me, r, b>> \in Validator \X Round \X Ballot
    BY <1>1, EngineAssumption
  <2> DEFINE x == <<Me, r, b>>
  <2> HIDE DEF x
  <2>2. [known EXCEPT ![t] = @ \cup {x}] \in KnownTable
    BY <1>1, <2>1 DEF KnownTable, x
  <2> QED BY <1>1, <1>2, <2>2 DEF x
<1>9. NodeTypeOK'
  <2>1. e' \in EngineState
    BY DEF Fits
  <2> QED BY <1>2, <1>5, <1>8, <2>1
      DEF NodeInv, NodeTypeOK, LogTable, KnownTable, height, bounds, departures
<1>10. SentInv'
  <2> SUFFICES ASSUME NEW w \in queued' \cup sent'
               PROVE  log'[w.type][w.round] = w.ballot
    BY DEF SentInv
  <2>1. CASE w \in queued \cup sent
    <3>1. w.type \in VoteType /\ w.round \in Round /\ w.ballot \in Ballot
      BY <2>1 DEF NodeInv, NodeTypeOK, LocalVote
    <3>2. log[w.type][w.round] = w.ballot
      BY <2>1 DEF NodeInv, SentInv
    <3> QED BY <1>5, <3>1, <3>2, NoneIsNoBallot
  <2>2. CASE w \notin queued \cup sent
    <3>1. w = vote /\ log' = new
      BY <1>2, <2>2
    <3> QED BY <1>1, <1>4, <3>1
  <2> QED BY <2>1, <2>2
<1>11. LogBacked'
  <2> SUFFICES ASSUME NEW s \in Round, log'["precommit"][s] \in Value
               PROVE  journal[s] # None /\ journal[s][1] = log'["precommit"][s]
    BY <1>2 DEF LogBacked
  <2>1. CASE log'["precommit"][s] = log["precommit"][s]
    BY <2>1 DEF NodeInv, LogBacked
  <2>2. CASE log'["precommit"][s] # log["precommit"][s]
    <3>1. t = "precommit" /\ s = r /\ log'["precommit"][s] = b
      BY <1>5, <2>2 DEF VoteType
    <3>2. b # Nil
      BY <3>1, NoneIsNoBallot
    <3> QED BY <3>1, <3>2
  <2> QED BY <2>1, <2>2
<1>12. JournalFits'
  <2> SUFFICES ASSUME NEW s \in Round, journal[s] # None
               PROVE  log'["precommit"][s] \in {None, journal[s][1]}
    BY <1>2 DEF JournalFits
  <2>1. CASE log'["precommit"][s] = log["precommit"][s]
    BY <2>1 DEF NodeInv, JournalFits
  <2>2. CASE log'["precommit"][s] # log["precommit"][s]
    <3>1. t = "precommit" /\ s = r /\ log'["precommit"][s] = b /\ log["precommit"][s] = None
      BY <1>5, <2>2 DEF VoteType
    <3>2. Own(e, "precommit", s) = journal[s][1]
      BY <3>1, PendingHeld
    <3> QED BY <3>1, <3>2
  <2> QED BY <2>1, <2>2
<1>13. UpInv' /\ DownInv' /\ SavingInv'
  BY <1>2, <1>7 DEF UpInv, DownInv, SavingInv, NodeInv
<1> QED BY <1>9, <1>10, <1>11, <1>12, <1>13 DEF NodeInv

\* saved_vote of a vote that the engine holds.
LEMMA SaveVoteKeeps ==
    ASSUME NodeInv, up, up' = up, NEW vote \in LocalVote,
           NEW then \in {"send", "keep", "queue", "reply"},
           Own(e, vote.type, vote.round) = vote.ballot,
           SaveVote(vote, then),
           Fits(e', log, Pending), e'.votes = e.votes,
           UNCHANGED <<started, journal, height, bounds>>
    PROVE  NodeInv'
<1>1. /\ vote.type \in VoteType /\ vote.round \in Round /\ vote.ballot \in Ballot
      /\ known \in KnownTable /\ e \in EngineState
  BY NodeTypes DEF LocalVote, NodeInv
<1>2. /\ started' \in BOOLEAN /\ acked' \in BOOLEAN
      /\ crashes' \in 0 .. MaxCrashes /\ resets' \in 0 .. MaxResets
      /\ lost' \subseteq Round \X Value /\ late' \in BOOLEAN
  BY DEF NodeInv, NodeTypeOK, height, bounds, departures
<1>3. CASE UNCHANGED <<saving, log, sent, known, queued>> /\ issue' \in BOOLEAN
  BY <1>1, <1>2, <1>3, EngineKeeps DEF disk
<1>4. CASE (vote.type # "precommit" \/ vote.ballot = Nil)
           /\ (KeepVote(vote, then) \/ RefuseVote(vote)) /\ UNCHANGED saving
  BY <1>4, StoreKeeps
<1>5. CASE /\ vote.type = "precommit" /\ vote.ballot # Nil
           /\ HasMessage(e, vote.ballot, vote.round)
           /\ saving' = saving \cup {NewSave(vote, then)}
           /\ UNCHANGED <<issue, log, sent, known, queued>>
  <2> DEFINE s0 == NewSave(vote, then)
             x0 == <<vote.type, vote.round, vote.ballot>>
  <2>1. vote.ballot \in Value
    BY <1>1, <1>5 DEF Ballot
  <2>2. /\ e.proposal_messages[vote.ballot][vote.round] \in Round \cup {NoRound}
        /\ e.generation \in Nat
    <3>1. e.proposal_messages[vote.ballot][vote.round] \in Round \cup {NoRound, NoMessage}
      BY <1>1, <2>1 DEF EngineState
    <3> QED BY <1>1, <1>5, <3>1, EngineTypes DEF HasMessage
  <2>3. s0 \in Save /\ s0.vote = vote /\ s0.written = FALSE
    BY <2>2 DEF NewSave, Save
  <2> HIDE DEF s0
  <2>4. Pending' = Pending \cup {x0}
    <3>1. Unlogged' = Unlogged /\ journal' = journal /\ saving' = saving \cup {s0}
      BY <1>5 DEF Unlogged, s0
    <3> QED BY <2>3, <3>1 DEF Pending
  <2>5. SavesHeld(e', Pending')
    <3> SUFFICES ASSUME NEW x \in Pending \cup {x0}
                 PROVE  x \in VoteType \X Round \X Ballot /\ Own(e', x[1], x[2]) = x[3]
      BY <2>4 DEF SavesHeld
    <3>1. CASE x \in Pending
      BY <3>1 DEF Fits, SavesHeld
    <3>2. CASE x = x0
      BY <1>1, <3>2 DEF Own
    <3> QED BY <3>1, <3>2
  <2>6. Fits(e', log, Pending')
    BY <2>5, SavesFits
  <2>7. NodeTypeOK'
    <3>1. e' \in EngineState
      BY DEF Fits
    <3>2. saving' \subseteq Save
      BY <1>5, <2>3 DEF NodeInv, NodeTypeOK, s0
    <3> QED BY <1>2, <1>5, <3>1, <3>2 DEF NodeInv, NodeTypeOK
  <2>8. SavingInv'
    BY <1>5, <2>1, <2>3 DEF NodeInv, SavingInv, s0
  <2>9. UpInv' /\ DownInv' /\ SentInv' /\ LogBacked' /\ JournalFits'
    BY <1>5, <2>6 DEF NodeInv, UpInv, DownInv, SentInv, LogBacked, JournalFits
  <2> QED BY <2>7, <2>8, <2>9 DEF NodeInv
<1> QED BY <1>3, <1>4, <1>5 DEF SaveVote, NodeInv, NodeTypeOK

\* The output actor takes a vote: it is dropped, or its save begins.
LEMMA ProcessVoteKeeps ==
    ASSUME NodeInv, ProcessVote
    PROVE  NodeInv'
<1>1. PICK can \in CanVote :
         /\ up /\ e.outputs # <<>> /\ NextOutput.kind = "vote"
         /\ e' = [e EXCEPT !.outputs = Tail(@)]
         /\ IF VoteRoute(NextOutput, can) = "drop"
            THEN UNCHANGED <<saving, issue, log, sent, known, queued>>
            ELSE SaveVote(NextOutput, VoteRoute(NextOutput, can))
         /\ UNCHANGED <<up, started, journal, height, bounds>>
  BY DEF ProcessVote, Running
<1> DEFINE q == Tail(e.outputs)
           vote == NextOutput
           then == VoteRoute(vote, can)
<1>2. Fits(e, log, Pending) /\ e \in EngineState /\ e.outputs \in Seq(Output)
  BY <1>1, NodeTypes, EngineTypes DEF NodeInv, UpInv
<1>3. /\ q \in Seq(Output)
      /\ \A i \in DOMAIN q : i + 1 \in DOMAIN e.outputs /\ q[i] = e.outputs[i + 1]
      /\ 1 \in DOMAIN e.outputs /\ vote = e.outputs[1]
  BY <1>1, <1>2 DEF NextOutput
<1>4. vote \in LocalVote
  <2>1. vote \in Output
    BY <1>2, <1>3
  <2> QED BY <1>1, <2>1 DEF Output, LocalVote, FinalizeMessage
<1>5. Own(e, vote.type, vote.round) = vote.ballot
  BY <1>1, <1>2, <1>3 DEF Fits, OutputsHeld
<1> HIDE DEF q
<1>6. e' = [e EXCEPT !.outputs = q]
  BY <1>1 DEF q
<1>7. e'.outputs = q /\ e'.votes = e.votes
  BY <1>2, <1>6 DEF EngineState
<1>8. OutputsHeld(e')
  BY <1>2, <1>3, <1>7 DEF Fits, OutputsHeld, Own
<1>9. Fits(e', log, Pending)
  BY <1>2, <1>3, <1>6, <1>8, OutputsFits
<1>10. CASE then = "drop"
  <2>1. UNCHANGED <<saving, issue, log, sent, known, queued, up, started, journal, height, bounds>>
    BY <1>1, <1>10
  <2> QED BY <1>1, <1>9, <2>1, EngineKeeps
      DEF NodeInv, NodeTypeOK, KnownTable, height, bounds, departures, disk
<1>11. CASE then # "drop"
  <2>1. then \in {"send", "keep", "queue", "reply"}
    BY <1>11 DEF VoteRoute
  <2>2. SaveVote(vote, then)
    BY <1>1, <1>11
  <2> HIDE DEF then
  <2> QED BY <1>1, <1>4, <1>5, <1>7, <1>9, <2>1, <2>2, SaveVoteKeeps
<1> QED BY <1>10, <1>11

\* The votes of the round go again to a peer that is behind in it.
LEMMA ReplyVotesKeeps ==
    ASSUME NodeInv, ReplyVotes
    PROVE  NodeInv'
<1>1. /\ up /\ UNCHANGED <<e, up, started, journal, height, bounds>>
      /\ \E t \in VoteType :
            /\ e.votes[t][e.round][Me] # None
            /\ SaveVote(VoteOf(t, e.round, e.votes[t][e.round][Me]), "reply")
  BY DEF ReplyVotes, Running, VoteType
<1>2. PICK t \in VoteType :
         /\ e.votes[t][e.round][Me] # None
         /\ SaveVote(VoteOf(t, e.round, e.votes[t][e.round][Me]), "reply")
  BY <1>1
<1> DEFINE vote == VoteOf(t, e.round, e.votes[t][e.round][Me])
<1>3. Fits(e, log, Pending) /\ e \in EngineState /\ e.round \in Round
  BY <1>1, NodeTypes, EngineTypes DEF NodeInv, UpInv
<1>4. e.votes[t][e.round][Me] \in Ballot
  BY <1>2, <1>3, EngineTypes DEF Own
<1>5. vote \in LocalVote /\ Own(e, vote.type, vote.round) = vote.ballot
  BY <1>3, <1>4 DEF VoteOf, LocalVote, Own
<1>6. SaveVote(vote, "reply")
  BY <1>2
<1> HIDE DEF vote
<1> QED BY <1>1, <1>3, <1>5, <1>6, SaveVoteKeeps

\* The votes of an earlier round go again to a peer that is still in it.
LEMMA ReplyPastKeeps ==
    ASSUME NodeInv, NEW r \in Round, ReplyPast(r)
    PROVE  NodeInv'
<1>1. up /\ UNCHANGED <<e, up, started, journal, height, bounds>>
  BY DEF ReplyPast, Running
<1>2. Fits(e, log, Pending) /\ e \in EngineState /\ log \in LogTable
  BY <1>1, NodeTypes DEF NodeInv, UpInv
<1>3. CASE RoundWait
  <2> DEFINE again == {VoteOf(t, r, log[t][r]) : t \in {u \in VoteType : log[u][r] # None}}
  <2>1. sent' = sent \cup again /\ UNCHANGED <<saving, issue, log, known, queued>>
    BY <1>3 DEF ReplyPast
  <2>2. \A w \in again : w \in LocalVote /\ log[w.type][w.round] = w.ballot
    BY <1>2 DEF VoteOf, LocalVote, LogTable
  <2> HIDE DEF again
  <2>3. Pending' = Pending
    BY <1>1, <2>1 DEF Pending, Unlogged
  <2>4. NodeTypeOK'
    BY <1>1, <2>1, <2>2 DEF NodeInv, NodeTypeOK, height, bounds, departures
  <2>5. SentInv'
    BY <2>1, <2>2 DEF NodeInv, SentInv
  <2>6. UpInv' /\ DownInv' /\ SavingInv' /\ LogBacked' /\ JournalFits'
    BY <1>1, <2>1, <2>3 DEF NodeInv, UpInv, DownInv, SavingInv, LogBacked, JournalFits
  <2> QED BY <2>4, <2>5, <2>6 DEF NodeInv
<1>4. CASE ~RoundWait
  <2> DEFINE v == e.polc_by_round[r]
             vote == VoteOf("prevote", r, v)
  <2>1. v # None /\ Own(e, "prevote", r) = v /\ SaveVote(vote, "reply")
    BY <1>4 DEF ReplyPast, Own
  <2>2. v \in Ballot
    BY <1>2, <2>1 DEF EngineState, Ballot
  <2>3. vote \in LocalVote /\ Own(e, vote.type, vote.round) = vote.ballot
    BY <2>1, <2>2 DEF VoteOf, LocalVote, VoteType
  <2> HIDE DEF vote
  <2> QED BY <1>1, <1>2, <2>1, <2>3, SaveVoteKeeps
<1> QED BY <1>3, <1>4

\* The journal stores the entry of a precommit, before its vote is logged; the save
\* goes on, or is given up where only the sync has failed.
LEMMA PutJournalKeeps ==
    ASSUME NodeInv, NEW s \in saving, up, PutJournal(s),
           saving' \in {saving \ {s}, (saving \ {s}) \cup {[s EXCEPT !.written = TRUE]}},
           UNCHANGED <<e, queued, issue, up, started, log, sent, height, bounds>>
    PROVE  NodeInv'
<1> DEFINE r == s.vote.round
           b == s.vote.ballot
           s1 == [s EXCEPT !.written = TRUE]
           own == {<<Me, r, e.votes["prevote"][r][Me]>>} \cap ({Me} \X Round \X Ballot)
<1>1. /\ up /\ journal' = [journal EXCEPT ![r] = JournalEntry(s)]
      /\ saving' \subseteq saving \cup {s1}
      /\ known' = [known EXCEPT !["prevote"] = @ \cup own]
      /\ UNCHANGED <<e, queued, issue, up, started, log, sent, height, bounds>>
  BY DEF PutJournal
<1>2. /\ Fits(e, log, Pending) /\ log \in LogTable /\ journal \in JournalTable
      /\ known \in KnownTable /\ e \in EngineState
  BY <1>1, NodeTypes DEF NodeInv, UpInv
<1>3. /\ s \in Save /\ s.vote.type = "precommit" /\ r \in Round /\ b \in Value /\ b \in Ballot
      /\ Own(e, "precommit", r) = b
  BY <1>1, PendingHeld DEF NodeInv, NodeTypeOK
<1>4. s1 \in Save /\ s1.vote = s.vote
  BY <1>3 DEF Save
<1>5. JournalEntry(s) \in Value \X (Round \cup {NoRound}) /\ JournalEntry(s)[1] = b
  BY <1>3 DEF JournalEntry, Save
<1>6. JournalEntry(s) # None
  BY <1>5, NodeAssumption
<1> DEFINE entry == JournalEntry(s)
<1> HIDE DEF entry, s1, own
<1>7. /\ journal' \in JournalTable /\ journal'[r] # None /\ journal'[r][1] = b
      /\ \A q \in Round : q # r => journal'[q] = journal[q]
  BY <1>1, <1>2, <1>3, <1>5, <1>6 DEF JournalTable, entry
<1>8. known' \in KnownTable
  <2>1. own \subseteq Validator \X Round \X Ballot
    BY EngineAssumption DEF own
  <2> QED BY <1>1, <1>2, <2>1 DEF KnownTable, VoteType
<1>9. SavesHeld(e, Pending')
  <2> SUFFICES ASSUME NEW x \in Pending'
               PROVE  x \in VoteType \X Round \X Ballot /\ Own(e, x[1], x[2]) = x[3]
    BY DEF SavesHeld
  <2>1. CASE x = <<"precommit", r, b>>
    BY <1>3, <2>1 DEF VoteType
  <2>2. CASE x # <<"precommit", r, b>>
    <3>1. x \in Pending
      <4>1. CASE \E u \in saving' : x = <<u.vote.type, u.vote.round, u.vote.ballot>>
        BY <1>1, <1>3, <1>4, <2>2, <4>1 DEF Pending
      <4>2. CASE \E q \in Unlogged' : x = <<"precommit", q, journal'[q][1]>>
        <5>1. PICK q \in Unlogged' : x = <<"precommit", q, journal'[q][1]>>
          BY <4>2
        <5>2. q \in Round /\ journal'[q] # None /\ log["precommit"][q] = None
          BY <1>1, <5>1 DEF Unlogged
        <5>3. q # r
          BY <1>7, <2>2, <5>1
        <5> QED BY <1>7, <5>1, <5>2, <5>3 DEF Pending, Unlogged
      <4> QED BY <4>1, <4>2 DEF Pending
    <3> QED BY <1>2, <3>1 DEF Fits, SavesHeld
  <2> QED BY <2>1, <2>2
<1>10. Fits(e', log', Pending')
  BY <1>1, <1>2, <1>9, SavesFits
<1>11. NodeTypeOK'
  <2>1. saving' \subseteq Save
    BY <1>1, <1>4 DEF NodeInv, NodeTypeOK
  <2> QED BY <1>1, <1>7, <1>8, <2>1
      DEF NodeInv, NodeTypeOK, JournalTable, KnownTable, height, bounds, departures
<1>12. SavingInv'
  <2> SUFFICES ASSUME NEW u \in saving'
               PROVE  /\ u.vote.type = "precommit" /\ u.vote.ballot \in Value
                      /\ u.written => /\ journal'[u.vote.round] # None
                                      /\ journal'[u.vote.round][1] = u.vote.ballot
    BY DEF SavingInv
  <2>1. CASE u = s1
    BY <1>3, <1>4, <1>7, <2>1
  <2>2. CASE u \in saving
    <3>1. /\ u.vote.type = "precommit" /\ u.vote.ballot \in Value /\ u.vote.round \in Round
          /\ Own(e, "precommit", u.vote.round) = u.vote.ballot
      BY <1>1, <2>2, PendingHeld
    <3>2. CASE u.vote.round = r
      BY <1>3, <1>7, <3>1, <3>2
    <3>3. CASE u.vote.round # r
      BY <1>7, <2>2, <3>1, <3>3 DEF NodeInv, SavingInv
    <3> QED BY <3>2, <3>3
  <2> QED BY <1>1, <2>1, <2>2
<1>13. log["precommit"][r] \in {None, b}
  BY <1>2, <1>3, NoneIsNoBallot DEF Fits, TablesFitLog, VoteType
<1>14. LogBacked' /\ JournalFits'
  <2>1. LogBacked'
    <3> SUFFICES ASSUME NEW q \in Round, log["precommit"][q] \in Value
                 PROVE  journal'[q] # None /\ journal'[q][1] = log["precommit"][q]
      BY <1>1 DEF LogBacked
    <3>1. CASE q = r
      BY <1>7, <1>13, <3>1, NoneIsNoBallot
    <3>2. CASE q # r
      BY <1>7, <3>2 DEF NodeInv, LogBacked
    <3> QED BY <3>1, <3>2
  <2>2. JournalFits'
    BY <1>1, <1>7, <1>13 DEF NodeInv, JournalFits
  <2> QED BY <2>1, <2>2
<1>15. UpInv' /\ DownInv' /\ SentInv'
  BY <1>1, <1>10 DEF NodeInv, UpInv, DownInv, SentInv
<1> QED BY <1>11, <1>12, <1>14, <1>15 DEF NodeInv

\* The write of the journal returns.
LEMMA WriteJournalKeeps ==
    ASSUME NodeInv, NEW s \in saving, WriteJournal(s)
    PROVE  NodeInv'
BY PutJournalKeeps DEF WriteJournal, Running

\* Saves end, nothing else changes.
LEMMA SavesEnd ==
    ASSUME NodeInv, up, saving' \in SUBSET saving,
           UNCHANGED <<e, queued, issue, up, started, disk, sent, known, height, bounds>>
    PROVE  NodeInv'
<1>1. Fits(e, log, Pending) /\ log' = log /\ journal' = journal
  BY DEF NodeInv, UpInv, disk
<1>2. Pending' \subseteq Pending
  BY <1>1 DEF Pending, Unlogged
<1>3. SavesHeld(e, Pending')
  BY <1>1, <1>2 DEF Fits, SavesHeld
<1>4. Fits(e', log', Pending')
  BY <1>1, <1>3, SavesFits
<1>5. NodeTypeOK'
  BY <1>1 DEF NodeInv, NodeTypeOK, height, bounds, departures
<1>6. UpInv' /\ DownInv' /\ SavingInv' /\ SentInv' /\ LogBacked' /\ JournalFits'
  BY <1>1, <1>4 DEF NodeInv, UpInv, DownInv, SavingInv, SentInv, LogBacked, JournalFits
<1> QED BY <1>5, <1>6 DEF NodeInv

\* A failed write of the journal gives up the save that waited for it.
LEMMA JournalFailsKeeps ==
    ASSUME NodeInv, NEW s \in saving, JournalFails(s)
    PROVE  NodeInv'
<1>1. /\ up /\ saving' = saving \ {s}
      /\ UNCHANGED <<e, queued, issue, up, started, log, sent, height, bounds>>
  BY DEF JournalFails, Running
<1>2. CASE UNCHANGED <<journal, known>>
  BY <1>1, <1>2, SavesEnd DEF disk
<1>3. CASE PutJournal(s)
  BY <1>1, <1>3, PutJournalKeeps
<1> QED BY <1>2, <1>3 DEF JournalFails

\* The save of a precommit ends: the vote is logged and sent, or given up.
LEMMA FinishSaveKeeps ==
    ASSUME NodeInv, NEW s \in saving, FinishSave(s)
    PROVE  NodeInv'
<1>1. /\ up /\ s.written /\ saving' = saving \ {s}
      /\ UNCHANGED <<e, up, started, journal, height, bounds>>
  BY DEF FinishSave, Running
<1>2. CASE UNCHANGED <<issue, log, sent, known, queued>>
  BY <1>1, <1>2, SavesEnd DEF disk
<1>3. CASE KeepVote(s.vote, s.then) \/ RefuseVote(s.vote)
  <2>1. /\ s.vote \in LocalVote /\ Own(e, s.vote.type, s.vote.round) = s.vote.ballot
    BY <1>1, PendingHeld DEF NodeInv, NodeTypeOK, Save
  <2>2. journal[s.vote.round] # None /\ journal[s.vote.round][1] = s.vote.ballot
    BY <1>1 DEF NodeInv, SavingInv
  <2>3. Fits(e', log, Pending) /\ e'.votes = e.votes
    BY <1>1 DEF NodeInv, UpInv
  <2> QED BY <1>1, <1>3, <2>1, <2>2, <2>3, StoreKeeps
<1> QED BY <1>2, <1>3 DEF FinishSave

\* A finalize message carries our precommit away.
LEMMA ShowKeepsTypes ==
    ASSUME NodeInv, NEW f \in FinalizeMessage, ShowPrecommit(f)
    PROVE  known' \in KnownTable
<1> DEFINE add == IF f.own THEN {<<Me, f.round, f.ballot>>} ELSE {}
<1>1. add \subseteq Validator \X Round \X Ballot
  BY EngineAssumption DEF FinalizeMessage, Ballot
<1>2. known \in KnownTable
  BY NodeTypes DEF NodeInv
<1>3. known' = [known EXCEPT !["precommit"] = @ \cup add]
  BY DEF ShowPrecommit
<1> HIDE DEF add
<1> QED BY <1>1, <1>2, <1>3 DEF KnownTable, VoteType

\* The finalize message, with the precommit of this node, is sent to the others.
LEMMA ProcessFinalizeKeeps ==
    ASSUME NodeInv, ProcessFinalize
    PROVE  NodeInv'
<1>1. /\ up /\ e.outputs # <<>> /\ NextOutput.kind = "finalize"
      /\ e' = [e EXCEPT !.outputs = Tail(@)] /\ ShowPrecommit(NextOutput)
      /\ UNCHANGED <<saving, queued, issue, up, started, disk, sent, height, bounds>>
  BY DEF ProcessFinalize, Running
<1> DEFINE q == Tail(e.outputs)
<1>2. Fits(e, log, Pending) /\ e \in EngineState /\ e.outputs \in Seq(Output)
  BY <1>1, NodeTypes, EngineTypes DEF NodeInv, UpInv
<1>3. /\ q \in Seq(Output)
      /\ \A i \in DOMAIN q : i + 1 \in DOMAIN e.outputs /\ q[i] = e.outputs[i + 1]
      /\ NextOutput \in Output
  BY <1>1, <1>2 DEF NextOutput
<1>4. NextOutput \in FinalizeMessage
  BY <1>1, <1>3 DEF Output, LocalVote, FinalizeMessage
<1> HIDE DEF q
<1>5. e' = [e EXCEPT !.outputs = q]
  BY <1>1 DEF q
<1>6. e'.outputs = q /\ e'.votes = e.votes
  BY <1>2, <1>5 DEF EngineState
<1>7. OutputsHeld(e')
  BY <1>2, <1>3, <1>6 DEF Fits, OutputsHeld, Own
<1>8. Fits(e', log, Pending)
  BY <1>2, <1>3, <1>5, <1>7, OutputsFits
<1>9. known' \in KnownTable
  BY <1>1, <1>4, ShowKeepsTypes
<1> QED BY <1>1, <1>8, <1>9, EngineKeeps DEF NodeInv, NodeTypeOK, height, bounds, departures

\* The pending finality is applied.
LEMMA ApplyFinalizedKeeps ==
    ASSUME NodeInv, ApplyFinalized
    PROVE  NodeInv'
<1>1. /\ up /\ e.pending_finalized # None /\ ShowPrecommit(e.pending_finalized)
      /\ UNCHANGED <<volatile, disk, sent, acked, bounds>>
  BY DEF ApplyFinalized, Running
<1>2. Fits(e, log, Pending) /\ e \in EngineState
  BY <1>1, NodeTypes DEF NodeInv, UpInv
<1>3. e.pending_finalized \in FinalizeMessage
  BY <1>1, <1>2 DEF EngineState
<1>4. known' \in KnownTable
  BY <1>1, <1>3, ShowKeepsTypes
<1> QED BY <1>1, <1>2, <1>4, EngineKeeps DEF NodeInv, NodeTypeOK, volatile, bounds, departures

\* The driver acknowledges the commit.
LEMMA AckFinalizedKeeps ==
    ASSUME NodeInv, AckFinalized
    PROVE  NodeInv'
<1>1. acked' = TRUE /\ UNCHANGED <<e, saving, queued, issue, up, started, log, journal,
                                   sent, known, crashes, resets, lost, late>>
  BY DEF AckFinalized, volatile, disk, world, bounds, departures
<1>2. Pending' = Pending
  BY <1>1 DEF Pending, Unlogged
<1>3. NodeTypeOK'
  BY <1>1 DEF NodeInv, NodeTypeOK
<1>4. /\ UpInv' /\ DownInv' /\ SavingInv' /\ SentInv' /\ LogBacked' /\ JournalFits'
  BY <1>1, <1>2 DEF NodeInv, UpInv, DownInv, SavingInv, SentInv, LogBacked, JournalFits,
                    BootInBound
<1> QED BY <1>3, <1>4 DEF NodeInv

\* A crash loses all but the disk, and what was sent.
LEMMA CrashKeeps ==
    ASSUME NodeInv, Crash
    PROVE  NodeInv'
<1>1. /\ crashes < MaxCrashes /\ BootInBound(log, journal)
      /\ e' = InitialEngine /\ saving' = {} /\ queued' = {} /\ issue' = FALSE
      /\ up' = FALSE /\ started' = FALSE /\ crashes' = crashes + 1
      /\ lost' \in SUBSET lost
      /\ UNCHANGED <<log, journal, sent, known, acked, resets, late>>
  BY DEF Crash, disk, world, height
<1>2. e' \in EngineState
  BY <1>1, InitialBlank DEF Blank
<1>3. NodeTypeOK'
  <2>1. crashes' \in 0 .. MaxCrashes
    BY <1>1, NodeAssumption DEF NodeInv, NodeTypeOK
  <2>2. saving' \subseteq Save /\ queued' \subseteq LocalVote
    BY <1>1
  <2>3. issue' \in BOOLEAN /\ up' \in BOOLEAN /\ started' \in BOOLEAN
    BY <1>1
  <2> QED BY <1>1, <1>2, <2>1, <2>2, <2>3 DEF NodeInv, NodeTypeOK
<1>4. UpInv' /\ DownInv' /\ SavingInv' /\ SentInv' /\ LogBacked' /\ JournalFits'
  BY <1>1 DEF NodeInv, UpInv, DownInv, SavingInv, SentInv, LogBacked, JournalFits,
              BootInBound
<1> QED BY <1>3, <1>4 DEF NodeInv

\* Boot writes the vote of a journal entry that the log lacks.
LEMMA RestoreVoteKeeps ==
    ASSUME NodeInv, NEW r \in Round, RestoreVote(r)
    PROVE  NodeInv'
<1> DEFINE b == journal[r][1]
<1>1. /\ ~up /\ journal[r] # None /\ log["precommit"][r] = None
      /\ log' = [log EXCEPT !["precommit"][r] = b]
      /\ known' = [known EXCEPT !["precommit"] = @ \cup {<<Me, r, b>>}]
      /\ UNCHANGED <<e, saving, queued, issue, up, started, journal, sent, acked,
                     crashes, resets, lost, late>>
  BY DEF RestoreVote, volatile, height, bounds, departures
<1>2. log \in LogTable /\ journal \in JournalTable /\ known \in KnownTable
  BY NodeTypes DEF NodeInv
<1>3. b \in Value /\ b \in Ballot /\ b # None
  BY <1>1, <1>2, EntryTypes, NoneIsNoBallot DEF Ballot
<1> HIDE DEF b
<1>4. /\ log' \in LogTable
      /\ \A u \in VoteType, s \in Round :
            log'[u][s] = IF u = "precommit" /\ s = r THEN b ELSE log[u][s]
  BY <1>1, <1>2, <1>3 DEF LogTable, VoteType
<1>5. known' \in KnownTable
  <2>1. <<Me, r, b>> \in Validator \X Round \X Ballot
    BY <1>3, EngineAssumption
  <2> DEFINE x == <<Me, r, b>>
  <2> HIDE DEF x
  <2> QED BY <1>1, <1>2, <2>1 DEF KnownTable, VoteType, x
<1>6. NodeTypeOK'
  BY <1>1, <1>4, <1>5 DEF NodeInv, NodeTypeOK, LogTable, KnownTable
<1>7. DownInv'
  <2>1. saving = {} /\ queued = {} /\ issue = FALSE /\ BootInBound(log, journal)
    BY <1>1 DEF NodeInv, DownInv
  <2>2. ~RoundWait => r # MaxRound
    BY <1>1, <2>1 DEF BootInBound, Journalled
  <2>3. BootInBound(log', journal)
    BY <1>4, <2>1, <2>2, EngineAssumption DEF BootInBound, Round
  <2> QED BY <1>1, <2>1, <2>3 DEF DownInv
<1>8. SentInv'
  <2> SUFFICES ASSUME NEW w \in queued \cup sent PROVE log'[w.type][w.round] = w.ballot
    BY <1>1 DEF SentInv
  <2>1. w.type \in VoteType /\ w.round \in Round /\ w.ballot \in Ballot
    BY DEF NodeInv, NodeTypeOK, LocalVote
  <2>2. log[w.type][w.round] = w.ballot
    BY DEF NodeInv, SentInv
  <2> QED BY <1>1, <1>4, <2>1, <2>2, NoneIsNoBallot
<1>9. LogBacked' /\ JournalFits'
  BY <1>1, <1>4 DEF NodeInv, LogBacked, JournalFits, VoteType, b
<1>10. UpInv' /\ SavingInv'
  BY <1>1 DEF NodeInv, UpInv, DownInv, SavingInv
<1> QED BY <1>6, <1>7, <1>8, <1>9, <1>10 DEF NodeInv

\* Boot makes the engine from the log and the journal.
LEMMA RestartKeeps ==
    ASSUME NodeInv, Restart
    PROVE  NodeInv'
<1>1. /\ ~up /\ \A r \in Journalled(journal) : log["precommit"][r] = journal[r][1]
      /\ up' = TRUE /\ e' = Boot(log, journal)
      /\ UNCHANGED <<saving, queued, issue, started, log, journal, sent, known, acked,
                     crashes, resets, lost, late>>
  BY DEF Restart, disk, world, height, bounds, departures
<1>2. log \in LogTable /\ journal \in JournalTable
  BY NodeTypes DEF NodeInv
<1>3. saving = {} /\ BootInBound(log, journal)
  BY <1>1 DEF NodeInv, DownInv
<1>4. Restored(log, journal)
  BY <1>1 DEF NodeInv, LogBacked, Restored, Journalled
<1>5. Fits(e', log, {})
  BY <1>1, <1>2, <1>3, <1>4, BootFits
<1>6. Unlogged = {}
  <2>1. ASSUME NEW r \in Unlogged PROVE FALSE
    <3>1. r \in Round /\ journal[r] # None /\ log["precommit"][r] = None
      BY DEF Unlogged
    <3>2. log["precommit"][r] = journal[r][1]
      BY <1>1, <3>1 DEF Journalled
    <3> QED BY <1>2, <3>1, <3>2, EntryTypes, NoneIsNoBallot
  <2> QED BY <2>1
<1>7. Pending' = {}
  BY <1>1, <1>3, <1>6 DEF Pending, Unlogged
<1>8. NodeTypeOK'
  <2>1. e' \in EngineState
    BY <1>5 DEF Fits
  <2> QED BY <1>1, <2>1 DEF NodeInv, NodeTypeOK
<1>9. UpInv' /\ DownInv' /\ SavingInv' /\ SentInv' /\ LogBacked' /\ JournalFits'
  BY <1>1, <1>5, <1>7 DEF NodeInv, UpInv, DownInv, SavingInv, SentInv, LogBacked, JournalFits
<1> QED BY <1>8, <1>9 DEF NodeInv

-----------------------------------------------------------------------------
(* The invariant and what it says *)

\* The first engine fits the empty log.
LEMMA NodeInitially == NodeInit => NodeInv
<1> SUFFICES ASSUME NodeInit PROVE NodeInv
  OBVIOUS
<1>1. NoLog \in LogTable /\ NoJournal \in JournalTable
  BY DEF NoLog, NoJournal, LogTable, JournalTable
<1>2. \A r \in Round : NoJournal[r] = None /\ NoLog["precommit"][r] = None
  BY DEF NoJournal, NoLog, VoteType
<1>3. Restored(NoLog, NoJournal)
  BY <1>2, NoneIsNoBallot DEF Restored
<1>4. BootInBound(NoLog, NoJournal)
  BY EngineAssumption DEF BootInBound, Journalled, NoJournal, NoLog, Round
<1>5. Fits(e, log, {})
  BY <1>1, <1>3, <1>4, BootFits DEF NodeInit
<1>6. Pending = {}
  BY <1>2 DEF NodeInit, Pending, Unlogged
<1>7. NodeTypeOK
  <2>1. e \in EngineState
    BY <1>5 DEF Fits
  <2>2. crashes \in 0 .. MaxCrashes /\ resets \in 0 .. MaxResets
    BY NodeAssumption DEF NodeInit
  <2>8. lost \subseteq Round \X Value /\ late \in BOOLEAN
    BY DEF NodeInit
  <2>3. saving \subseteq Save /\ queued \subseteq LocalVote /\ sent \subseteq LocalVote
    BY DEF NodeInit
  <2>4. known \in [VoteType -> SUBSET (Validator \X Round \X Ballot)]
    <3>1. \A t \in VoteType : {} \in SUBSET (Validator \X Round \X Ballot)
      OBVIOUS
    <3> QED BY <3>1 DEF NodeInit
  <2>5. issue \in BOOLEAN /\ up \in BOOLEAN /\ started \in BOOLEAN /\ acked \in BOOLEAN
    BY DEF NodeInit
  <2>6. log \in [VoteType -> [Round -> Ballot \cup {None}]]
    BY <1>1 DEF NodeInit, LogTable
  <2>7. journal \in [Round -> (Value \X (Round \cup {NoRound})) \cup {None}]
    BY <1>1 DEF NodeInit, JournalTable
  <2> QED BY <2>1, <2>2, <2>3, <2>4, <2>5, <2>6, <2>7, <2>8 DEF NodeTypeOK
<1>8. UpInv /\ DownInv /\ SavingInv /\ SentInv
  BY <1>5, <1>6 DEF NodeInit, UpInv, DownInv, SavingInv, SentInv
<1>9. LogBacked /\ JournalFits
  BY <1>2, NoneIsNoBallot DEF NodeInit, LogBacked, JournalFits
<1> QED BY <1>7, <1>8, <1>9 DEF NodeInv

\* Every action keeps the invariant.
LEMMA NodeStep == NodeInv /\ [NodeNext]_nodeVars => NodeInv'
<1> SUFFICES ASSUME NodeInv, [NodeNext]_nodeVars PROVE NodeInv'
  OBVIOUS
<1>1. CASE \E o \in OfferedVotes : ReceiveVote(o[1], o[3], o[2], o[4])
  <2>1. PICK o \in OfferedVotes : ReceiveVote(o[1], o[3], o[2], o[4])
    BY <1>1
  <2>2. o \in VoteType \X (Validator \ {Me}) \X Round \X Ballot
    BY NodeAssumption
  <2>3. o[1] \in VoteType /\ o[2] \in Validator /\ o[2] # Me /\ o[3] \in Round /\ o[4] \in Ballot
    BY <2>2
  <2> QED BY <2>1, <2>3, ReceiveVoteKeeps
<1>2. CASE \E vote \in sent : ReceiveVote(vote.type, vote.round, Me, vote.ballot)
  <2>1. PICK vote \in sent : ReceiveVote(vote.type, vote.round, Me, vote.ballot)
    BY <1>2
  <2>2. vote.type \in VoteType /\ vote.round \in Round /\ vote.ballot \in Ballot
    BY DEF NodeInv, NodeTypeOK, LocalVote
  <2>3. log[vote.type][vote.round] = vote.ballot /\ Me \in Validator
    BY EngineAssumption DEF NodeInv, SentInv
  <2> QED BY <2>1, <2>2, <2>3, ReceiveVoteKeeps
<1>3. CASE \E o \in OfferedProposals : ReceiveProposal(o[1], o[2], o[3])
  <2>1. PICK o \in OfferedProposals : ReceiveProposal(o[1], o[2], o[3])
    BY <1>3
  <2>2. o \in Round \X Value \X (Round \cup {NoRound})
    BY NodeAssumption
  <2>3. o[1] \in Round /\ o[2] \in Value /\ o[3] \in Round \cup {NoRound}
    BY <2>2
  <2> QED BY <2>1, <2>3, ReceiveProposalKeeps
<1>4. CASE \E o \in OfferedRounds : ReceiveRoundSync(o[1], o[2])
  <2>1. PICK o \in OfferedRounds : ReceiveRoundSync(o[1], o[2])
    BY <1>4
  <2>2. o \in Round \X (Validator \ {Me})
    BY NodeAssumption
  <2>3. o[1] \in Round /\ o[2] \in Validator
    BY <2>2
  <2> QED BY <2>1, <2>3, ReceiveRoundSyncKeeps
<1>5. CASE \E o \in OfferedFinalizes : ReceiveFinalize(o[1], o[2], o[3])
  <2>1. PICK o \in OfferedFinalizes : ReceiveFinalize(o[1], o[2], o[3])
    BY <1>5
  <2>2. o \in Round \X Value \X Quorum
    BY NodeAssumption
  <2>3. o[1] \in Round /\ o[2] \in Value /\ o[3] \in Quorum
    BY <2>2
  <2> QED BY <2>1, <2>3, ReceiveFinalizeKeeps
<1>6. CASE \E step \in Step, r \in 0 .. e.round, g \in 0 .. e.generation :
              Timeout([step |-> step, round |-> r, generation |-> g])
  BY <1>6, TimeoutKeeps
<1>7. CASE \E v \in Value : Propose(v)
  BY <1>7, ProposeKeeps
<1>8. CASE RealignProgress
  BY <1>8, RealignProgressKeeps
<1>9. CASE ResetHeight
  BY <1>9, ResetHeightKeeps
<1>23. CASE ReopenHeight
  BY <1>23, ReopenHeightKeeps
<1>10. CASE Ready
  BY <1>10, ReadyKeeps
<1>11. CASE ProcessVote
  BY <1>11, ProcessVoteKeeps
<1>12. CASE ReplyVotes
  BY <1>12, ReplyVotesKeeps
<1>13. CASE \E r \in Round : ReplyPast(r)
  BY <1>13, ReplyPastKeeps
<1>14. CASE \E s \in saving : WriteJournal(s) \/ JournalFails(s) \/ FinishSave(s)
  BY <1>14, WriteJournalKeeps, JournalFailsKeeps, FinishSaveKeeps
<1>15. CASE ProcessFinalize
  BY <1>15, ProcessFinalizeKeeps
<1>16. CASE ApplyFinalized
  BY <1>16, ApplyFinalizedKeeps
<1>17. CASE AckFinalized
  BY <1>17, AckFinalizedKeeps
<1>18. CASE Crash
  BY <1>18, CrashKeeps
<1>19. CASE \E r \in Round : RestoreVote(r)
  BY <1>19, RestoreVoteKeeps
<1>20. CASE Restart
  BY <1>20, RestartKeeps
<1>21. CASE Start
  BY <1>21, StartKeeps
<1>22. CASE UNCHANGED nodeVars
  <2>1. UNCHANGED <<e, saving, queued, issue, up, started, log, journal, sent, known, acked,
                    crashes, resets, lost, late>>
    BY <1>22 DEF nodeVars, volatile, disk, world, height, bounds, departures
  <2>2. Pending' = Pending
    BY <2>1 DEF Pending, Unlogged
  <2>3. NodeTypeOK'
    BY <2>1 DEF NodeInv, NodeTypeOK
  <2>4. UpInv' /\ DownInv' /\ SavingInv' /\ SentInv' /\ LogBacked' /\ JournalFits'
    BY <2>1, <2>2 DEF NodeInv, UpInv, DownInv, SavingInv, SentInv, LogBacked, JournalFits
  <2> QED BY <2>3, <2>4 DEF NodeInv
<1> QED BY <1>1, <1>2, <1>3, <1>4, <1>5, <1>6, <1>7, <1>8, <1>9, <1>10, <1>11, <1>12, <1>13,
           <1>14, <1>15, <1>16, <1>17, <1>18, <1>19, <1>20, <1>21, <1>22, <1>23 DEF NodeNext

\* NodeInv holds in every state of every behaviour of the node.
THEOREM NodeInvariant == NodeSpec => []NodeInv
BY NodeInitially, NodeStep, PTL DEF NodeSpec

\* The node's state keeps its shape, the engine's included.
THEOREM NodeTypesHold == NodeSpec => []NodeTypeOK
<1>1. NodeInv => NodeTypeOK
  BY DEF NodeInv
<1> QED BY <1>1, NodeInvariant, PTL

\* Whatever has left the node is in the vote log, and a precommit for a value in
\* the journal too: saved_vote stores before it sends, on every path.
THEOREM SentStaysDurable == NodeSpec => []SentIsDurable
<1>1. NodeInv => SentIsDurable
  <2> SUFFICES ASSUME NodeInv, NEW vote \in sent
               PROVE  /\ log[vote.type][vote.round] = vote.ballot
                      /\ (vote.type = "precommit" /\ vote.ballot # Nil) =>
                            /\ journal[vote.round] # None
                            /\ journal[vote.round][1] = vote.ballot
    BY DEF SentIsDurable
  <2>1. vote.round \in Round /\ vote.ballot \in Ballot
    BY DEF NodeInv, NodeTypeOK, LocalVote
  <2>2. log[vote.type][vote.round] = vote.ballot
    BY DEF NodeInv, SentInv
  <2> QED BY <2>1, <2>2 DEF NodeInv, LogBacked, Ballot
<1> QED BY <1>1, NodeInvariant, PTL

\* The lock in memory covers every precommit that has left the node, after any
\* crash, realignment or abandoned save.
THEOREM LockStaysOverSent == NodeSpec => []LockCoversSent
<1>1. NodeInv => LockCoversSent
  <2> SUFFICES ASSUME NodeInv, NEW vote \in sent,
                      up, vote.type = "precommit", vote.ballot # Nil
               PROVE  \/ e.locked_round > vote.round
                      \/ e.locked_round = vote.round /\ e.locked_value = vote.ballot
    BY DEF LockCoversSent
  <2>1. vote.round \in Round /\ vote.ballot \in Value
    BY DEF NodeInv, NodeTypeOK, LocalVote, Ballot
  <2>2. log["precommit"][vote.round] = vote.ballot
    BY DEF NodeInv, SentInv
  <2>3. LockCovers(e, log)
    BY DEF NodeInv, UpInv, Fits
  <2> QED BY <2>1, <2>2, <2>3 DEF LockCovers
<1> QED BY <1>1, NodeInvariant, PTL

\* The node never reaches for a vote that its log would refuse (vote_log_issue).
THEOREM MemoryStaysWithLog == NodeSpec => []MemoryFitsLog
<1>1. NodeInv => MemoryFitsLog
  <2> SUFFICES ASSUME NodeInv, up, NEW t \in VoteType, NEW r \in Round, log[t][r] # None
               PROVE  /\ e.votes[t][r][Me] \in {None, log[t][r]}
                      /\ \A j \in DOMAIN e.outputs :
                            (/\ e.outputs[j].kind = "vote"
                             /\ e.outputs[j].type = t
                             /\ e.outputs[j].round = r) => e.outputs[j].ballot = log[t][r]
                      /\ \A u \in saving :
                            (u.vote.type = t /\ u.vote.round = r) => u.vote.ballot = log[t][r]
    BY DEF MemoryFitsLog
  <2>1. Fits(e, log, Pending)
    BY DEF NodeInv, UpInv
  <2>2. Own(e, t, r) \in {None, log[t][r]}
    BY <2>1 DEF Fits, TablesFitLog
  <2>3. ASSUME NEW j \in DOMAIN e.outputs, e.outputs[j].kind = "vote",
               e.outputs[j].type = t, e.outputs[j].round = r
        PROVE  e.outputs[j].ballot = log[t][r]
    <3> DEFINE o == e.outputs[j]
    <3>1. e.outputs \in Seq(Output)
      BY <2>1, EngineTypes DEF Fits
    <3>2. o \in Output
      BY <3>1
    <3>3. o \in LocalVote
      BY <2>3, <3>2 DEF Output, LocalVote, FinalizeMessage
    <3>4. o.ballot \in Ballot
      BY <3>3 DEF LocalVote
    <3>5. Own(e, t, r) = o.ballot
      BY <2>1, <2>3 DEF Fits, OutputsHeld
    <3> QED BY <2>2, <3>4, <3>5, NoneIsNoBallot
  <2>4. ASSUME NEW u \in saving, u.vote.type = t, u.vote.round = r
        PROVE  u.vote.ballot = log[t][r]
    BY <2>2, <2>4, PendingHeld, NoneIsNoBallot
  <2> QED BY <2>2, <2>3, <2>4 DEF Own
<1> QED BY <1>1, NodeInvariant, PTL

\* The records of a node always boot: no journalled vote contradicts the log, and
\* the restored lock carries the votes of the last round (restore_votes).
THEOREM RecordsAlwaysBoot == NodeSpec => []RecordsBoot
<1>1. NodeInv => RecordsBoot
  <2> SUFFICES ASSUME NodeInv PROVE RecordsBoot
    OBVIOUS
  <2>1. \A r \in Journalled(journal) : log["precommit"][r] \in {None, journal[r][1]}
    BY DEF NodeInv, JournalFits, Journalled
  <2>2. ASSUME \A r \in Journalled(journal) : log["precommit"][r] = journal[r][1]
        PROVE  ~ResumeRefused(RestoredEngine(journal), log)
    <3>1. Restored(log, journal)
      BY <2>2 DEF NodeInv, LogBacked, Restored, Journalled
    <3> QED BY <3>1, NeverRefused, NodeTypes DEF NodeInv
  <2> QED BY <2>1, <2>2 DEF RecordsBoot
<1> QED BY <1>1, NodeInvariant, PTL

-----------------------------------------------------------------------------
(* The votes behind the node's state *)

\* A quorum of existing votes.
Shown(kn, t, r, v) == \E Q \in Quorum : \A p \in Q : <<p, r, v>> \in kn[t]

\* A stored vote exists.
LogKnown(kn, lg) ==
    \A t \in VoteType, r \in Round : lg[t][r] # None => <<Me, r, lg[t][r]>> \in kn[t]

\* A journalled value had its prevotes.
JournalShown(kn, jn) ==
    \A r \in Round : jn[r] # None => Shown(kn, "prevote", r, jn[r][1])

\* What is applied had its precommits.
CommitShown ==
    /\ committed # None =>
          /\ committed \in FinalizeMessage
          /\ Shown(known, "precommit", committed.round, committed.ballot)
    /\ acked => committed # None

\* An own vote that exists is in the log or follows from the journal.
OnDisk(kn, lg, jn) ==
    \A r \in Round, b \in Ballot :
        /\ <<Me, r, b>> \in kn["prevote"] =>
              \/ lg["prevote"][r] = b
              \/ /\ lg["prevote"][r] = None
                 /\ lg["precommit"][r] # None \/ jn[r] # None
        /\ <<Me, r, b>> \in kn["precommit"] =>
              \/ lg["precommit"][r] = b
              \/ lg["precommit"][r] = None /\ jn[r] # None /\ jn[r][1] = b

\* The rule of the lock on what a crash leaves.
FreedBy(kn, v, lo, hi) ==
    \E r \in Round : /\ lo < r /\ r < hi
                     /\ Shown(kn, "prevote", r, v) \/ Shown(kn, "precommit", r, v)

DiskLocks(kn, jn) ==
    \A r0, r1 \in Round, v0, v1 \in Value :
        (/\ r0 < r1 /\ v0 # v1
         /\ <<Me, r0, v0>> \in kn["precommit"] \/ (jn[r0] # None /\ jn[r0][1] = v0)
         /\ <<Me, r1, v1>> \in kn["prevote"]) => FreedBy(kn, v1, r0, r1)

\* Precommits in the journal, on their way there from the output actor, or lost.
Settling ==
    {<<r, journal[r][1]>> : r \in Journalled(journal)}
        \cup {<<s.vote.round, s.vote.ballot>> : s \in {u \in saving : u.then # "reply"}}
        \cup lost

\* The node's surroundings as the engine's lemmas see them.
WorldOf(c, kn, lg, sv, st) ==
    [known |-> kn, log |-> lg, saves |-> sv, settled |-> st, ordinary |-> c]

Here(c) == WorldOf(c, known, log, Pending, Settling)

\* With c the node has kept to the voting rules: no write fails and it has not
\* departed.
StandInv(c) ==
    /\ NodeInv
    /\ LogKnown(known, log)
    /\ JournalShown(known, journal)
    /\ CommitShown
    /\ ~up => e = InitialEngine
    /\ up => Stands(e, Here(c))
    /\ c => /\ ~issue
            /\ OnDisk(known, log, journal)
            /\ ~up => DiskLocks(known, journal)

-----------------------------------------------------------------------------
(* The surroundings *)

\* The parts of the surroundings.
LEMMA WorldParts ==
    ASSUME NEW c, NEW kn, NEW lg, NEW sv, NEW st
    PROVE  LET w == WorldOf(c, kn, lg, sv, st)
           IN  /\ w.known = kn /\ w.log = lg /\ w.saves = sv /\ w.settled = st
               /\ w.ordinary = c
               /\ \A t, r, v : Cert(w, t, r, v) <=> Shown(kn, t, r, v)
               /\ \A v, lo, hi : Freed(w, v, lo, hi) <=> FreedBy(kn, v, lo, hi)
BY DEF WorldOf, Cert, Shown, Freed, FreedBy

\* Records and history that fit each other are a world.
LEMMA WorldHolds ==
    ASSUME NEW c, NEW kn \in KnownTable, NEW lg \in LogTable, NEW jn \in JournalTable,
           NEW sv, NEW st, LogKnown(kn, lg), JournalShown(kn, jn),
           \A r \in Round : lg["precommit"][r] \in Value =>
               jn[r] # None /\ jn[r][1] = lg["precommit"][r],
           \A r \in Round : jn[r] # None =>
               /\ <<r, jn[r][1]>> \in st
               /\ lg["precommit"][r] = None => <<"precommit", r, jn[r][1]>> \in sv,
           c => OnDisk(kn, lg, jn)
    PROVE  World(WorldOf(c, kn, lg, sv, st))
<1> DEFINE w == WorldOf(c, kn, lg, sv, st)
<1>1. /\ w.known = kn /\ w.log = lg /\ w.saves = sv /\ w.settled = st /\ w.ordinary = c
      /\ \A t, r, v : Cert(w, t, r, v) <=> Shown(kn, t, r, v)
  BY WorldParts
<1> HIDE DEF w
<1>2. \A t \in VoteType, r \in Round : w.log[t][r] # None => <<Me, r, w.log[t][r]>> \in w.known[t]
  BY <1>1 DEF LogKnown
<1>3. ASSUME NEW r \in Round, NEW v \in Value, w.log["precommit"][r] = v
      PROVE  Cert(w, "prevote", r, v)
  BY <1>1, <1>3 DEF JournalShown
<1>4. ASSUME c PROVE Recorded(w)
  <2> SUFFICES ASSUME NEW r \in Round, NEW b \in Ballot
               PROVE  /\ <<Me, r, b>> \in kn["prevote"] =>
                            \/ lg["prevote"][r] = b
                            \/ /\ lg["prevote"][r] = None
                               /\ \/ lg["precommit"][r] # None
                                  \/ \E d \in Ballot : <<"precommit", r, d>> \in sv
                      /\ <<Me, r, b>> \in kn["precommit"] =>
                            \/ lg["precommit"][r] = b
                            \/ lg["precommit"][r] = None /\ <<"precommit", r, b>> \in sv
                      /\ (b \in Value /\ lg["precommit"][r] = b) => <<r, b>> \in st
    BY <1>1 DEF Recorded
  <2>1. jn[r] # None => jn[r][1] \in Ballot
    BY EntryTypes DEF Ballot
  <2>2. OnDisk(kn, lg, jn)
    BY <1>4
  <2>3. <<Me, r, b>> \in kn["prevote"] =>
            \/ lg["prevote"][r] = b
            \/ /\ lg["prevote"][r] = None
               /\ \/ lg["precommit"][r] # None
                  \/ \E d \in Ballot : <<"precommit", r, d>> \in sv
    BY <2>1, <2>2 DEF OnDisk
  <2>4. <<Me, r, b>> \in kn["precommit"] =>
            \/ lg["precommit"][r] = b
            \/ lg["precommit"][r] = None /\ <<"precommit", r, b>> \in sv
    BY <2>2 DEF OnDisk
  <2>5. (b \in Value /\ lg["precommit"][r] = b) => <<r, b>> \in st
    OBVIOUS
  <2> QED BY <2>3, <2>4, <2>5
<1>5. w.log \in LogTable /\ w.known \in KnownTable
  BY <1>1
<1>6. World(w)
  BY <1>1, <1>2, <1>3, <1>4, <1>5 DEF World
<1> QED BY <1>6 DEF w

\* The node's surroundings are a world, before a step and after.
LEMMA HereWorld ==
    ASSUME NEW c, NodeInv, LogKnown(known, log), JournalShown(known, journal),
           c => OnDisk(known, log, journal)
    PROVE  World(Here(c))
<1>1. known \in KnownTable /\ log \in LogTable /\ journal \in JournalTable
  BY NodeTypes DEF NodeInv
<1>2. \A r \in Round : journal[r] # None =>
          /\ <<r, journal[r][1]>> \in Settling
          /\ log["precommit"][r] = None => <<"precommit", r, journal[r][1]>> \in Pending
  BY DEF Settling, Journalled, Pending, Unlogged
<1>3. \A r \in Round : log["precommit"][r] \in Value =>
          journal[r] # None /\ journal[r][1] = log["precommit"][r]
  BY DEF NodeInv, LogBacked
<1> QED BY <1>1, <1>2, <1>3, WorldHolds DEF Here

\* The types of the next state.
LEMMA NextTypes ==
    ASSUME NodeTypeOK'
    PROVE  /\ log' \in LogTable /\ journal' \in JournalTable /\ known' \in KnownTable
           /\ e' \in EngineState
BY DEF NodeTypeOK, LogTable, JournalTable, KnownTable

\* The world of the next state, from what each action says of the disk.
LEMMA NextWorld ==
    ASSUME NEW c, NodeInv', LogKnown(known', log'), JournalShown(known', journal'),
           c => OnDisk(known', log', journal')
    PROVE  World(Here(c)')
<1>1. known' \in KnownTable /\ log' \in LogTable /\ journal' \in JournalTable
  BY NextTypes DEF NodeInv
<1>2. \A r \in Round : journal'[r] # None =>
          /\ <<r, journal'[r][1]>> \in Settling'
          /\ log'["precommit"][r] = None => <<"precommit", r, journal'[r][1]>> \in Pending'
  BY DEF Settling, Journalled, Pending, Unlogged
<1>3. \A r \in Round : log'["precommit"][r] \in Value =>
          journal'[r] # None /\ journal'[r][1] = log'["precommit"][r]
  BY DEF NodeInv, LogBacked
<1> QED BY <1>1, <1>2, <1>3, WorldHolds DEF Here

\* A step that leaves the records, the saves and the histories alone.
LEMMA SameWorld ==
    ASSUME NEW c, UNCHANGED <<known, log, journal, saving, lost>>
    PROVE  Here(c)' = Here(c)
<1>1. Pending' = Pending
  BY DEF Pending, Unlogged
<1>2. Settling' = Settling
  BY DEF Settling, Journalled
<1> QED BY <1>1, <1>2 DEF Here

\* What a running node gives the lemmas on the engine.
LEMMA UpStands ==
    ASSUME NEW c, StandInv(c), up
    PROVE  /\ Stands(e, Here(c)) /\ World(Here(c)) /\ e \in EngineState
           /\ Here(c).known = known /\ Here(c).log = log /\ Here(c).ordinary = c
           /\ Here(c).saves = Pending /\ Here(c).settled = Settling
<1>1. Stands(e, Here(c)) /\ World(Here(c)) /\ e \in EngineState
  BY HereWorld, NodeTypes DEF StandInv, NodeInv
<1> QED BY <1>1, WorldParts DEF Here

-----------------------------------------------------------------------------
(* Steps of the engine *)

\* The engine moves; what the invariant says of the rest stays.
LEMMA MoveStands ==
    ASSUME NEW c, StandInv(c), NodeInv', up, up' = up,
           UNCHANGED <<known, log, journal, saving, lost, committed, acked>>,
           Stands(e', Here(c)), c => ~issue'
    PROVE  StandInv(c)'
<1>1. Here(c)' = Here(c)
  BY SameWorld
<1>2. CommitShown'
  BY DEF StandInv, CommitShown
<1> QED BY <1>1, <1>2 DEF StandInv

\* Votes that exist count for nothing new.
LEMMA CountedKnown ==
    ASSUME NEW w, w.known = known, known \in KnownTable, NEW en, VotesExist(en, w),
           EngineMoves(en)
    PROVE  known' = known
<1>1. ASSUME NEW t \in VoteType, NEW x \in Counted(en, t) PROVE x \in known[t]
  <2>1. x \in (Validator \ {Me}) \X Round \X Ballot /\ en.votes[t][x[2]][x[1]] = x[3]
    BY <1>1 DEF Counted
  <2>2. x[1] \in Validator \ {Me} /\ x[2] \in Round /\ x[3] \in Ballot /\ x[3] # None
        /\ x = <<x[1], x[2], x[3]>>
    BY <2>1, NoneIsNoBallot
  <2> QED BY <2>1, <2>2 DEF VotesExist
<1>2. \A t \in VoteType : known[t] \cup Counted(en, t) = known[t]
  BY <1>1
<1>3. [t \in VoteType |-> known[t] \cup Counted(en, t)] = known
  BY <1>2 DEF KnownTable
<1> QED BY <1>3 DEF EngineMoves

\* A handler whose engine stands.
LEMMA MovesStands ==
    ASSUME NEW c, StandInv(c), NodeInv', NEW en, EngineMoves(en), Stands(en, Here(c)),
           c => ~issue'
    PROVE  StandInv(c)' /\ known' = known
<1>1. /\ up /\ up' = up /\ e' = en
      /\ UNCHANGED <<log, journal, saving, lost, committed, acked>>
  BY DEF EngineMoves, Running, disk, height, bounds, departures
<1>2. VotesExist(en, Here(c)) /\ Here(c).known = known /\ known \in KnownTable
  BY <1>1, UpStands, NodeTypes DEF Stands, Backs, StandInv, NodeInv
<1>3. known' = known
  BY <1>2, CountedKnown
<1> QED BY <1>1, <1>3, MoveStands

\* A handler that may drop its proof of lock (the certificate of the round it
\* leaves) changes nothing else that the votes rest on.
LEMMA KeepingPolcStands ==
    ASSUME NEW c, c => ~WriteFails, StandInv(c), NodeInv', NEW en, NEW r,
           EngineStepKeepingPolc(en, r), Stands(en, Here(c))
    PROVE  StandInv(c)' /\ known' = known
<1>1. EngineMoves(en) /\ (c => ~issue')
  BY DEF EngineStepKeepingPolc, StandInv
<1> QED BY <1>1, MovesStands

\* The surroundings with more votes of others.
LEMMA MoreVotes ==
    ASSUME NEW c, StandInv(c), up, NEW kn \in KnownTable,
           \A t \in VoteType : known[t] \subseteq kn[t],
           \A t \in VoteType, r \in Round, b \in Ballot :
               <<Me, r, b>> \in kn[t] => <<Me, r, b>> \in known[t]
    PROVE  LET x == WorldOf(c, kn, log, Pending, Settling)
           IN  /\ Stands(e, x) /\ World(x) /\ x.known = kn /\ x.ordinary = c
               /\ LogKnown(kn, log) /\ JournalShown(kn, journal)
               /\ c => OnDisk(kn, log, journal)
<1>1. LogKnown(kn, log)
  BY DEF LogKnown, StandInv
<1>2. JournalShown(kn, journal)
  BY DEF JournalShown, StandInv, Shown, VoteType
<1>3. c => OnDisk(kn, log, journal)
  BY DEF OnDisk, StandInv, VoteType
<1> DEFINE w == Here(c)
           x == WorldOf(c, kn, log, Pending, Settling)
<1>4. World(x)
  <2>1. log \in LogTable /\ journal \in JournalTable
    BY NodeTypes DEF StandInv, NodeInv
  <2>2. \A r \in Round : journal[r] # None =>
            /\ <<r, journal[r][1]>> \in Settling
            /\ log["precommit"][r] = None => <<"precommit", r, journal[r][1]>> \in Pending
    BY DEF Settling, Journalled, Pending, Unlogged
  <2>3. \A r \in Round : log["precommit"][r] \in Value =>
            journal[r] # None /\ journal[r][1] = log["precommit"][r]
    BY DEF StandInv, NodeInv, LogBacked
  <2> QED BY <1>1, <1>2, <1>3, <2>1, <2>2, <2>3, WorldHolds
<1>5. /\ x.known = kn /\ x.log = log /\ x.saves = Pending /\ x.settled = Settling
      /\ x.ordinary = c
  BY WorldParts
<1>6. /\ w.known = known /\ w.log = log /\ w.saves = Pending /\ w.settled = Settling
      /\ w.ordinary = c /\ Stands(e, w)
  BY UpStands
<1> HIDE DEF w, x
<1>7. Fits(e, x.log, x.saves)
  BY <1>5, <1>6 DEF Stands
<1>8. Stands(e, x)
  BY <1>5, <1>6, <1>7, StandsGrow
<1> QED BY <1>1, <1>2, <1>3, <1>4, <1>5, <1>8 DEF x

\* The votes of others grow in number.
LEMMA OthersGrow ==
    ASSUME NEW c, StandInv(c), up, NodeInv', UNCHANGED <<log, journal, saving, lost>>,
           \A t \in VoteType : known[t] \subseteq known'[t],
           \A t \in VoteType, r \in Round, b \in Ballot :
               <<Me, r, b>> \in known'[t] => <<Me, r, b>> \in known[t]
    PROVE  /\ Stands(e, Here(c)') /\ World(Here(c)')
           /\ Here(c)'.known = known' /\ Here(c)'.ordinary = c
           /\ LogKnown(known', log') /\ JournalShown(known', journal')
           /\ c => OnDisk(known', log', journal')
<1>1. known' \in KnownTable
  BY NextTypes DEF NodeInv
<1>2. Pending' = Pending /\ Settling' = Settling
  BY DEF Pending, Unlogged, Settling, Journalled
<1>3. Here(c)' = WorldOf(c, known', log, Pending, Settling)
  BY <1>2 DEF Here
<1> QED BY <1>1, <1>3, MoreVotes

\* A step of a running node that has applied nothing.
LEMMA StandsAgain ==
    ASSUME NEW c, StandInv(c), NodeInv', committed = None, up',
           UNCHANGED <<committed, acked>>,
           LogKnown(known', log'), JournalShown(known', journal'),
           Stands(e', Here(c)'),
           c => ~issue' /\ OnDisk(known', log', journal')
    PROVE  StandInv(c)'
<1>1. CommitShown'
  BY DEF CommitShown, StandInv
<1> QED BY <1>1 DEF StandInv

\* A vote from the network, which may be the node's own coming back.
LEMMA ReceiveVoteStands ==
    ASSUME NEW c, c => ~WriteFails, StandInv(c), NodeInv',
           NEW t \in VoteType, NEW r \in Round, NEW p \in Validator, NEW b \in Ballot,
           p = Me => log[t][r] = b, ReceiveVote(t, r, p, b)
    PROVE  StandInv(c)'
<1>1. PICK can \in CanVote, ready \in SkipReady :
         EngineStepKeepingPolc(OnVote(e, t, r, p, b, can, ready), r)
  BY DEF ReceiveVote
<1> DEFINE w == Here(c)
           en == OnVote(e, t, r, p, b, can, ready)
           nr == NoteRound(e, r, p, ready)
<1>2. /\ EngineMoves(en) /\ up /\ (c => ~issue') /\ committed = None /\ up'
      /\ UNCHANGED <<log, journal, saving, lost, committed, acked>> /\ e' = en
      /\ known' = IF en.votes = e.votes THEN known
                  ELSE [u \in VoteType |-> known[u] \cup Counted(en, u)]
  BY <1>1 DEF EngineStepKeepingPolc, EngineMoves, Running, StandInv, disk, height,
              bounds, departures
<1>3. /\ Stands(e, w) /\ World(w) /\ e \in EngineState /\ w.known = known /\ w.log = log
      /\ known \in KnownTable
  BY <1>2, UpStands, NodeTypes DEF StandInv, NodeInv
<1>4. Stands(nr, w)
  BY <1>3, NoteRoundStands
<1>5. e.votes[t][r][p] \in {None, b}
  BY DEF ReceiveVote
<1>6. Stands(en, w) => StandInv(c)'
  BY <1>2, MovesStands
<1>7. CASE p = Me
  BY <1>3, <1>6, <1>7, OnVoteStands
<1>8. CASE p # Me /\ (en = e \/ en = nr)
  BY <1>3, <1>4, <1>6, <1>8
<1>9. CASE p # Me /\ en.votes[t][r][p] = b
  <2>1. CASE <<p, r, b>> \in known[t]
    BY <1>3, <1>6, <1>9, <2>1, OnVoteStands
  <2>2. CASE <<p, r, b>> \notin known[t]
    <3>1. en.votes # e.votes
      <4> SUFFICES ASSUME en.votes = e.votes PROVE FALSE
        OBVIOUS
      <4>1. e.votes[t][r][p] = b /\ b # None
        BY <1>9, NoneIsNoBallot
      <4> HIDE DEF w
      <4>2. <<p, r, b>> \in w.known[t]
        BY <1>3, <1>9, <4>1 DEF Stands, Backs, VotesExist
      <4> QED BY <1>3, <2>2, <4>2
    <3> HIDE DEF en
    <3>2. known' = [u \in VoteType |-> known[u] \cup Counted(en, u)]
      BY <1>2, <3>1
    <3>3. <<p, r, b>> \in known'[t]
      BY <1>9, <3>2 DEF Counted
    <3>4. \A u \in VoteType : known[u] \subseteq known'[u]
      BY <3>2
    <3>5. \A u \in VoteType, s \in Round, d \in Ballot :
             <<Me, s, d>> \in known'[u] => <<Me, s, d>> \in known[u]
      BY <3>2 DEF Counted
    <3> DEFINE x == Here(c)'
    <3>6. /\ Stands(e, x) /\ World(x) /\ x.known = known'
          /\ LogKnown(known', log') /\ JournalShown(known', journal')
          /\ c => OnDisk(known', log', journal')
      BY <1>2, <3>4, <3>5, OthersGrow
    <3> HIDE DEF x
    <3>7. Stands(en, x)
      BY <1>9, <3>3, <3>6, OnVoteStands DEF en
    <3> QED BY <1>2, <3>6, <3>7, StandsAgain DEF x
  <2> QED BY <2>1, <2>2
<1>10. p # Me => en = e \/ en = nr \/ en.votes[t][r][p] = b
  <2> SUFFICES ASSUME p # Me PROVE en = e \/ en = nr \/ en.votes[t][r][p] = b
    OBVIOUS
  <2>1. nr \in EngineState
    BY <1>4 DEF Stands, Fits
  <2>2. nr.votes[t][r][p] \in {None, b}
    BY <1>3, <1>5, NoteRoundKeeps
  <2> QED BY <1>3, <1>5, <2>1, <2>2, OnVoteCounts
<1> QED BY <1>7, <1>8, <1>9, <1>10

\* A proposal from the network.
LEMMA ReceiveProposalStands ==
    ASSUME NEW c, c => ~WriteFails, StandInv(c), NodeInv',
           NEW r \in Round, NEW v \in Value, NEW vr \in Round \cup {NoRound},
           ReceiveProposal(r, v, vr)
    PROVE  StandInv(c)' /\ known' = known
<1>1. PICK valid \in Valid, can \in CanVote, ready \in SkipReady :
         EngineStepKeepingPolc(
            IF r < e.round THEN LearnPastProposal(e, r, v, vr, valid)
            ELSE OnPropose(e, r, v, vr, valid, can, ready), r)
  BY DEF ReceiveProposal
<1> DEFINE en == IF r < e.round THEN LearnPastProposal(e, r, v, vr, valid)
                 ELSE OnPropose(e, r, v, vr, valid, can, ready)
<1>2. up /\ can \in BOOLEAN /\ valid \in BOOLEAN
  BY <1>1, NodeAssumption DEF EngineStepKeepingPolc, EngineMoves, Running
<1>3. Stands(e, Here(c)) /\ World(Here(c))
  BY <1>2, UpStands
<1>4. Stands(en, Here(c))
  BY <1>2, <1>3, LearnPastProposalStands, OnProposeStands
<1> HIDE DEF en
<1> QED BY <1>1, <1>4, KeepingPolcStands DEF en

\* A round synchronisation from the network.
LEMMA ReceiveRoundSyncStands ==
    ASSUME NEW c, StandInv(c), NodeInv', NEW r \in Round, NEW p \in Validator,
           ReceiveRoundSync(r, p)
    PROVE  StandInv(c)'
<1>1. PICK ready \in SkipReady :
         /\ up /\ up' = up /\ issue' = issue
         /\ e' = OnRoundSync(e, r, p, ready)
         /\ UNCHANGED <<known, log, journal, saving, lost, committed, acked>>
  BY DEF ReceiveRoundSync, Running, disk, world, height, bounds, departures
<1>2. Stands(e', Here(c))
  BY <1>1, UpStands, OnRoundSyncStands
<1> QED BY <1>1, <1>2, MoveStands DEF StandInv

\* A finality certificate from the network brings its precommits with it.
LEMMA ReceiveFinalizeStands ==
    ASSUME NEW c, StandInv(c), NodeInv', NEW r \in Round, NEW v \in Value, NEW Q \in Quorum,
           ReceiveFinalize(r, v, Q)
    PROVE  StandInv(c)'
<1>1. /\ up /\ up' /\ committed = None /\ issue' = issue
      /\ Me \in Q => <<Me, r, v>> \in known["precommit"]
      /\ e' = AcceptFinalizeBatch(e, r, v)
      /\ known' = [known EXCEPT !["precommit"] = @ \cup {<<p, r, v>> : p \in Q}]
      /\ UNCHANGED <<log, journal, saving, lost, committed, acked>>
  BY DEF ReceiveFinalize, Running, disk, height, bounds, departures
<1>2. known \in KnownTable
  BY NodeTypes DEF StandInv, NodeInv
<1> DEFINE add == {<<p, r, v>> : p \in Q}
<1>3. /\ known'["precommit"] = known["precommit"] \cup add
      /\ known'["prevote"] = known["prevote"]
  BY <1>1, <1>2 DEF KnownTable, VoteType
<1>4. \A t \in VoteType : known[t] \subseteq known'[t]
  BY <1>3 DEF VoteType
<1>5. ASSUME NEW t \in VoteType, NEW s \in Round, NEW b \in Ballot,
             <<Me, s, b>> \in known'[t]
      PROVE  <<Me, s, b>> \in known[t]
  BY <1>1, <1>3, <1>5 DEF VoteType
<1> DEFINE x == Here(c)'
<1>6. /\ Stands(e, x) /\ World(x) /\ x.known = known'
      /\ LogKnown(known', log') /\ JournalShown(known', journal')
      /\ c => OnDisk(known', log', journal')
  BY <1>1, <1>4, <1>5, OthersGrow
<1> HIDE DEF x
<1>7. Cert(x, "precommit", r, v)
  <2>1. \A p \in Q : <<p, r, v>> \in x.known["precommit"]
    BY <1>3, <1>6
  <2> QED BY <2>1 DEF Cert
<1>8. Stands(e', x)
  BY <1>1, <1>6, <1>7, AcceptFinalizeStands
<1> QED BY <1>1, <1>6, <1>8, StandsAgain DEF x, StandInv

-----------------------------------------------------------------------------
\* realign_round moves to the round it is given.
LEMMA RealignRoundNumber ==
    ASSUME NEW en \in EngineState, NEW r
    PROVE  RealignRound(en, r).round = r
<1> DEFINE n == en.generation + 1
           g == [en EXCEPT !.generation = n]
           w == [t \in VoteType |-> [g.votes[t] EXCEPT ![r] = NoVotes]]
           h == [g EXCEPT !.round = r, !.step = "propose", !.vote_timers = {},
                          !.votes = w, !.pending_prevote = None, !.armed = FALSE]
<1>1. n \in Nat
  BY EngineTypes
<1>2. RealignRound(en, r) = [h EXCEPT !.armed = TRUE]
  BY DEF RealignRound, StartRound, Schedule
<1> HIDE DEF w, n
<1>3. g \in EngineState
  BY <1>1 DEF EngineState
<1> HIDE DEF g
<1>4. h.round = r /\ DOMAIN h = DOMAIN g
  BY <1>3 DEF EngineState
<1> HIDE DEF h
<1>5. [h EXCEPT !.armed = TRUE].round = r
  BY <1>4
<1> QED BY <1>2, <1>5

\* A timer of the engine, current or late.
LEMMA TimeoutStands ==
    ASSUME NEW c, StandInv(c), NodeInv', NEW t, Timeout(t)
    PROVE  StandInv(c)' /\ known' = known
<1>1. PICK can \in CanVote :
         /\ TimeoutEndsRound(e, t, can) => e.round < MaxRound
         /\ EngineStep(OnTimeout([e EXCEPT !.armed = @ /\ ~TimerCurrent(e, t)], t, can))
  BY DEF Timeout
<1> DEFINE a == e.armed /\ ~TimerCurrent(e, t)
           f == [e EXCEPT !.armed = a]
           en == OnTimeout(f, t, can)
<1>2. up /\ can \in BOOLEAN
  BY <1>1, NodeAssumption DEF EngineStep, EngineMoves, Running
<1>3. Stands(e, Here(c)) /\ World(Here(c)) /\ e \in EngineState
  BY <1>2, UpStands
<1>4. EngineStep(en)
  BY <1>1
<1>5. a \in BOOLEAN
  BY <1>3 DEF EngineState
<1> HIDE DEF a
<1>6. Stands(f, Here(c))
  BY <1>3, <1>5, ArmedStands
<1>7. TimeoutEndsRound(f, t, can) => f.round < MaxRound
  <2>1. /\ f.round = e.round /\ f.step = e.step /\ f.generation = e.generation
        /\ f.votes = e.votes
    BY <1>3, <1>5 DEF EngineState
  <2> HIDE DEF f
  <2> QED BY <1>1, <2>1 DEF TimeoutEndsRound, TimerCurrent, TimerAllowed, QuorumAny, AllVoters
<1> HIDE DEF f
<1>8. Stands(en, Here(c))
  BY <1>2, <1>3, <1>6, <1>7, OnTimeoutStands
<1> HIDE DEF en
<1> QED BY <1>4, <1>8, MovesStands DEF EngineStep, StandInv

\* The node proposes the value its builder has finished.
LEMMA ProposeStands ==
    ASSUME NEW c, StandInv(c), NodeInv', NEW v \in Value, Propose(v), c => ~late'
    PROVE  StandInv(c)' /\ known' = known
<1>1. /\ e' = DoPropose(e, v) /\ e.step = "propose" /\ up /\ up' = up /\ issue' = issue
      /\ UNCHANGED <<known, log, journal, saving, lost, committed, acked>>
      /\ c => ~e.finalized
  BY DEF Propose, CanPropose, Running, disk, world, height
<1>2. Stands(e, Here(c)) /\ World(Here(c)) /\ Here(c).ordinary = c
  BY <1>1, UpStands
<1>3. c => e.pending_finalized = None
  BY <1>1, <1>2 DEF Stands, Sound, FinalHeld
<1>4. Stands(DoPropose(e, v), Here(c))
  BY <1>1, <1>2, <1>3, DoProposeStands
<1> QED BY <1>1, <1>4, MoveStands DEF StandInv

\* The driver moves a lagging engine to the round its peers are in.
LEMMA RealignProgressStands ==
    ASSUME NEW c, StandInv(c), NodeInv', RealignProgress
    PROVE  StandInv(c)'
<1>1. PICK ready \in SkipReady :
         /\ up /\ up' = up /\ issue' = issue
         /\ e' = Realigned(ready)
         /\ UNCHANGED <<known, log, journal, saving, lost, committed, acked>>
  BY DEF RealignProgress, Running, disk, world, height, departures
<1>2. Stands(e, Here(c)) /\ World(Here(c)) /\ e \in EngineState /\ e' \in EngineState
  BY <1>1, UpStands, NextTypes DEF NodeInv
<1>3. Stands(e', Here(c))
  <2>1. CASE e' = TryRoundSkip(e, ready)
    BY <1>2, <2>1, TryRoundSkipStands
  <2>2. CASE e' = RealignRound(e, e.round + 1)
    <3>1. e.round \in Nat /\ MaxRound \in Nat /\ e'.round \in Round /\ e.round \in Round
      BY <1>2, EngineTypes, EngineAssumption
    <3>2. CASE e.round + 1 \in Round
      BY <1>2, <2>2, <3>1, <3>2, RealignRoundStands
    <3>3. CASE e.round + 1 \notin Round
      <4>1. e'.round = e.round + 1
        BY <1>2, <2>2, RealignRoundNumber
      <4> QED BY <3>1, <3>3, <4>1
    <3> QED BY <3>2, <3>3
  <2> QED BY <1>1, <2>1, <2>2 DEF Realigned
<1> QED BY <1>1, <1>3, MoveStands DEF StandInv

\* The engine opens the height.
LEMMA StartStands ==
    ASSUME NEW c, StandInv(c), NodeInv', Start
    PROVE  StandInv(c)'
<1>1. /\ up /\ up' = up /\ issue' = issue /\ e' = Opened(e, log)
      /\ UNCHANGED <<known, log, journal, saving, lost, committed, acked>>
  BY DEF Start, Running, disk, world, height, bounds, departures
<1> DEFINE w == Here(c)
<1>2. /\ Stands(e, w) /\ World(w) /\ e \in EngineState /\ log \in LogTable
      /\ w.log = log /\ w.saves = Pending /\ Fits(e, log, Pending)
  BY <1>1, UpStands, NodeTypes DEF StandInv, NodeInv, Stands
<1> HIDE DEF w
<1>3. Stands(e', w)
  <2>1. CASE ~IsPristine(e)
    BY <1>1, <1>2, <2>1 DEF Opened
  <2>2. CASE IsPristine(e)
    <3>1. ResumeRound(e) \in Round
      BY <1>2, <2>2, PristineResumes, EngineAssumption DEF Round
    <3>2. e.outputs = <<>>
      BY <2>2 DEF IsPristine
    <3> DEFINE f == StartSameHeight(e)
    <3>3. \A t \in VoteType, s \in Round : s >= f.round => log[t][s] = None
      BY <1>2, <3>1, StartSameHeightFits
    <3>4. Stands(f, w)
      BY <1>2, <3>1, <3>2, StartSameHeightStands
    <3>5. e' = ResumeLocalVote(f, log)
      BY <1>1, <2>2 DEF Opened
    <3> HIDE DEF f
    <3>6. ResumeLocalVote(f, log) = f
      BY <1>2, <3>3, <3>4, ResumeNothing DEF Stands, Fits
    <3> QED BY <3>4, <3>5, <3>6
  <2> QED BY <2>1, <2>2
<1> QED BY <1>1, <1>3, MoveStands DEF StandInv, w

\* The driver tells the engine that it may vote again.
LEMMA ReadyStands ==
    ASSUME NEW c, StandInv(c), NodeInv', Ready
    PROVE  StandInv(c)'
<1>1. PICK can \in CanVote :
         /\ up /\ up' = up /\ issue' = issue /\ e' = OnReady(e, can)
         /\ UNCHANGED <<known, log, journal, saving, lost, committed, acked>>
  BY DEF Ready, Running, disk, height, bounds, departures
<1>2. Stands(e', Here(c))
  BY <1>1, UpStands, OnReadyStands
<1> QED BY <1>1, <1>2, MoveStands DEF StandInv

-----------------------------------------------------------------------------
(* Votes on their way to the disk *)

\* The surroundings grow under a running engine.
LEMMA WorldGrows ==
    ASSUME NEW c, StandInv(c), up, NodeInv',
           Fits(e, log', Pending'),
           \A t \in VoteType : known[t] \subseteq known'[t],
           LogKnown(known', log'), JournalShown(known', journal'),
           c => /\ OnDisk(known', log', journal')
                /\ Settling \subseteq Settling'
                /\ \A t \in VoteType, r \in Round, b \in Ballot :
                      <<Me, r, b>> \in known'[t] => <<Me, r, b>> \in known[t] \/ Own(e, t, r) = b
    PROVE  /\ Stands(e, Here(c)') /\ World(Here(c)')
           /\ Here(c)'.known = known' /\ Here(c)'.log = log' /\ Here(c)'.ordinary = c
           /\ Here(c)'.saves = Pending' /\ Here(c)'.settled = Settling'
<1>1. World(Here(c)')
  BY NextWorld
<1> DEFINE w == Here(c)
           x == Here(c)'
<1>2. /\ x.known = known' /\ x.log = log' /\ x.saves = Pending' /\ x.settled = Settling'
      /\ x.ordinary = c
  BY WorldParts DEF Here
<1>3. /\ w.known = known /\ w.settled = Settling
      /\ w.ordinary = c /\ Stands(e, w)
  BY UpStands
<1> HIDE DEF w, x
<1>4. Stands(e, x)
  BY <1>2, <1>3, StandsGrow
<1> QED BY <1>1, <1>2, <1>4 DEF x

\* Certificates stay.
LEMMA ShownGrows ==
    ASSUME NEW kn, NEW jn, NEW kx, JournalShown(kn, jn),
           \A t \in VoteType : kn[t] \subseteq kx[t]
    PROVE  JournalShown(kx, jn)
BY DEF JournalShown, Shown, VoteType

\* The log takes a vote that the engine holds: it agrees with what exists.
LEMMA LoggedOnDisk ==
    ASSUME NEW en, NEW w, NEW jn, NEW lx,
           Fits(en, w.log, w.saves), KnownPrevotes(en, w), OnDisk(w.known, w.log, jn),
           \A r \in Round : (jn[r] # None /\ w.log["precommit"][r] = None) =>
               Own(en, "precommit", r) = jn[r][1],
           NEW t \in VoteType, NEW r0 \in Round, NEW b0 \in Ballot, NEW kx,
           Own(en, t, r0) = b0,
           \A u \in VoteType, s \in Round : lx[u][s] = IF u = t /\ s = r0 THEN b0 ELSE w.log[u][s],
           w.log[t][r0] \in {None, b0},
           \A u \in VoteType, s \in Round, d \in Ballot :
               <<Me, s, d>> \in kx[u] =>
                   <<Me, s, d>> \in w.known[u] \/ (u = t /\ s = r0 /\ d = b0)
    PROVE  OnDisk(kx, lx, jn)
<1>1. b0 # None
  BY NoneIsNoBallot
<1> SUFFICES ASSUME NEW r \in Round, NEW b \in Ballot
             PROVE  /\ <<Me, r, b>> \in kx["prevote"] =>
                          \/ lx["prevote"][r] = b
                          \/ /\ lx["prevote"][r] = None
                             /\ lx["precommit"][r] # None \/ jn[r] # None
                    /\ <<Me, r, b>> \in kx["precommit"] =>
                          \/ lx["precommit"][r] = b
                          \/ lx["precommit"][r] = None /\ jn[r] # None /\ jn[r][1] = b
  BY DEF OnDisk
<1>2. b # None /\ "prevote" \in VoteType /\ "precommit" \in VoteType
  BY NoneIsNoBallot DEF VoteType
<1>3. ASSUME <<Me, r, b>> \in kx["prevote"]
      PROVE  \/ lx["prevote"][r] = b
             \/ /\ lx["prevote"][r] = None
                /\ lx["precommit"][r] # None \/ jn[r] # None
  <2>1. CASE "prevote" = t /\ r = r0 /\ b = b0
    BY <1>2, <2>1
  <2>2. CASE <<Me, r, b>> \in w.known["prevote"]
    <3>1. Own(en, "prevote", r) \in {None, b}
      BY <2>2 DEF KnownPrevotes
    <3>2. \/ w.log["prevote"][r] = b
          \/ /\ w.log["prevote"][r] = None
             /\ w.log["precommit"][r] # None \/ jn[r] # None
      BY <2>2 DEF OnDisk
    <3>3. w.log["precommit"][r] # None => lx["precommit"][r] # None
      BY <1>1, <1>2
    <3> QED BY <1>1, <1>2, <3>1, <3>2, <3>3
  <2> QED BY <1>2, <1>3, <2>1, <2>2
<1>4. ASSUME <<Me, r, b>> \in kx["precommit"]
      PROVE  \/ lx["precommit"][r] = b
             \/ lx["precommit"][r] = None /\ jn[r] # None /\ jn[r][1] = b
  <2>1. CASE "precommit" = t /\ r = r0 /\ b = b0
    BY <1>2, <2>1
  <2>2. CASE <<Me, r, b>> \in w.known["precommit"]
    <3>1. \/ w.log["precommit"][r] = b
          \/ w.log["precommit"][r] = None /\ jn[r] # None /\ jn[r][1] = b
      BY <2>2 DEF OnDisk
    <3> QED BY <1>1, <1>2, <3>1
  <2> QED BY <1>2, <1>4, <2>1, <2>2
<1> QED BY <1>3, <1>4

\* The facts after a step of the disk.
Grown(c) ==
    /\ Stands(e, Here(c)') /\ World(Here(c)')
    /\ Here(c)'.known = known' /\ Here(c)'.log = log' /\ Here(c)'.ordinary = c
    /\ Here(c)'.saves = Pending' /\ Here(c)'.settled = Settling'
    /\ LogKnown(known', log') /\ JournalShown(known', journal')
    /\ c => ~issue' /\ OnDisk(known', log', journal')

\* Where only the saves change.
LEMMA SavesGrow ==
    ASSUME NEW c, StandInv(c), up, NodeInv', UNCHANGED <<log, journal, known>>,
           Fits(e, log', Pending'), c => ~issue' /\ Settling \subseteq Settling'
    PROVE  Grown(c)
<1>1. /\ LogKnown(known', log') /\ JournalShown(known', journal')
      /\ c => OnDisk(known', log', journal')
  BY DEF StandInv
<1> QED BY <1>1, WorldGrows DEF Grown

\* Storing an own vote in the log makes it exist, and nothing else.
LEMMA StoreGrows ==
    ASSUME NEW c, c => ~WriteFails, StandInv(c), up, NodeInv', NEW vote \in LocalVote, NEW then,
           Own(e, vote.type, vote.round) = vote.ballot,
           KeepVote(vote, then) \/ RefuseVote(vote),
           Fits(e, log', Pending'), journal' = journal,
           c => Settling \subseteq Settling'
    PROVE  Grown(c)
<1> DEFINE t == vote.type
           r == vote.round
           b == vote.ballot
           w == Here(c)
<1>1. /\ t \in VoteType /\ r \in Round /\ b \in Ballot /\ b # None
      /\ log \in LogTable /\ journal \in JournalTable /\ known \in KnownTable
  BY NodeTypes, NoneIsNoBallot DEF LocalVote, StandInv, NodeInv
<1>2. Fits(e, log, Pending)
  BY DEF StandInv, NodeInv, UpInv
<1>3. log[t][r] \in {None, b}
  BY <1>1, <1>2 DEF Fits, TablesFitLog
<1>4. CASE log' = log /\ known' = known /\ issue' = TRUE /\ ~c
  BY <1>4, SavesGrow
<1>5. CASE /\ log' = [log EXCEPT ![t][r] = b]
           /\ known' = [known EXCEPT ![t] = @ \cup {<<Me, r, b>>}]
           /\ c => ~issue'
  <2>1. \A u \in VoteType, s \in Round : log'[u][s] = IF u = t /\ s = r THEN b ELSE log[u][s]
    BY <1>1, <1>5 DEF LogTable
  <2>2. \A u \in VoteType : known'[u] = IF u = t THEN known[u] \cup {<<Me, r, b>>} ELSE known[u]
    BY <1>1, <1>5 DEF KnownTable
  <2>3. \A u \in VoteType : known[u] \subseteq known'[u]
    BY <2>2
  <2> HIDE DEF t, r, b
  <2>4. LogKnown(known', log')
    <3> SUFFICES ASSUME NEW u \in VoteType, NEW s \in Round, log'[u][s] # None
                 PROVE  <<Me, s, log'[u][s]>> \in known'[u]
      BY DEF LogKnown
    <3>1. CASE u = t /\ s = r
      BY <2>1, <2>2, <3>1
    <3>2. CASE ~(u = t /\ s = r)
      <4>1. log'[u][s] = log[u][s]
        BY <2>1, <3>2
      <4>2. <<Me, s, log[u][s]>> \in known[u]
        BY <4>1 DEF LogKnown, StandInv
      <4> QED BY <2>3, <4>1, <4>2
    <3> QED BY <3>1, <3>2
  <2>5. JournalShown(known', journal')
    BY <2>3, ShownGrows DEF StandInv
  <2>6. \A u \in VoteType, s \in Round, d \in Ballot :
           <<Me, s, d>> \in known'[u] => <<Me, s, d>> \in known[u] \/ (u = t /\ s = r /\ d = b)
    <3> SUFFICES ASSUME NEW u \in VoteType, NEW s \in Round, NEW d \in Ballot,
                        <<Me, s, d>> \in known'[u], <<Me, s, d>> \notin known[u]
                 PROVE  u = t /\ s = r /\ d = b
      OBVIOUS
    <3>1. u = t /\ <<Me, s, d>> \in {<<Me, r, b>>}
      BY <2>2
    <3> QED BY <3>1
  <2>7. \A u \in VoteType, s \in Round, d \in Ballot :
           <<Me, s, d>> \in known'[u] => <<Me, s, d>> \in known[u] \/ Own(e, u, s) = d
    BY <2>6 DEF t, r, b
  <2>8. ASSUME c PROVE OnDisk(known', log', journal')
    <3>1. /\ w.known = known /\ w.log = log /\ w.saves = Pending /\ w.ordinary = c
          /\ Stands(e, w)
      BY UpStands
    <3> HIDE DEF w
    <3>2. KnownPrevotes(e, w)
      BY <2>8, <3>1 DEF Stands, Sound
    <3>3. \A s \in Round : (journal[s] # None /\ log["precommit"][s] = None) =>
             Own(e, "precommit", s) = journal[s][1]
      BY PendingHeld DEF StandInv
    <3>4. OnDisk(known, log, journal)
      BY <2>8 DEF StandInv
    <3>5. Own(e, t, r) = b
      BY DEF t, r, b
    <3>6. Fits(e, w.log, w.saves) /\ OnDisk(w.known, w.log, journal)
      BY <1>2, <3>1, <3>4
    <3>7. /\ \A s \in Round : (journal[s] # None /\ w.log["precommit"][s] = None) =>
                Own(e, "precommit", s) = journal[s][1]
          /\ \A u \in VoteType, s \in Round :
                log'[u][s] = IF u = t /\ s = r THEN b ELSE w.log[u][s]
          /\ w.log[t][r] \in {None, b}
          /\ \A u \in VoteType, s \in Round, d \in Ballot :
                <<Me, s, d>> \in known'[u] =>
                    <<Me, s, d>> \in w.known[u] \/ (u = t /\ s = r /\ d = b)
      BY <1>3, <2>1, <2>6, <3>1, <3>3 DEF t, r, b
    <3>8. OnDisk(known', log', journal)
      BY <1>1, <3>2, <3>5, <3>6, <3>7, LoggedOnDisk
    <3> QED BY <3>8
  <2> QED BY <1>5, <2>3, <2>4, <2>5, <2>7, <2>8, WorldGrows DEF Grown
<1>6. CASE KeepVote(vote, then)
  BY <1>5, <1>6 DEF KeepVote, StandInv
<1>7. CASE RefuseVote(vote)
  BY <1>3, <1>4, <1>5, <1>7 DEF RefuseVote
<1> QED BY <1>6, <1>7

\* save_local_vote: a prevote or a nil precommit goes to the log at once, a
\* precommit for a value to the journal first.
LEMMA SaveGrows ==
    ASSUME NEW c, c => ~WriteFails, StandInv(c), up, NodeInv', NEW vote \in LocalVote, NEW then,
           Own(e, vote.type, vote.round) = vote.ballot,
           SaveVote(vote, then),
           Fits(e, log', Pending'), journal' = journal, lost' = lost
    PROVE  /\ Grown(c)
           /\ (c /\ vote.type = "precommit" /\ vote.ballot # Nil /\ then # "reply"
                 /\ HasMessage(e, vote.ballot, vote.round)) =>
                 <<vote.round, vote.ballot>> \in Settling'
<1>1. /\ vote.type \in VoteType /\ vote.round \in Round /\ vote.ballot \in Ballot
      /\ vote.ballot # None
  BY NoneIsNoBallot DEF LocalVote
<1>2. Fits(e, log, Pending)
  BY DEF StandInv, NodeInv, UpInv
<1>3. log[vote.type][vote.round] \in {None, vote.ballot}
  BY <1>1, <1>2 DEF Fits, TablesFitLog
<1>4. CASE issue
  <2>1. ~c /\ UNCHANGED <<log, journal, known>>
    BY <1>4 DEF SaveVote, StandInv
  <2> QED BY <2>1, SavesGrow
<1>5. CASE ~issue /\ vote.type = "precommit" /\ vote.ballot # Nil
  <2>1. /\ saving' = IF HasMessage(e, vote.ballot, vote.round)
                     THEN saving \cup {NewSave(vote, then)} ELSE saving
        /\ UNCHANGED <<issue, log, known>>
    BY <1>3, <1>5 DEF SaveVote
  <2>2. saving \subseteq saving'
    BY <2>1
  <2>3. Settling \subseteq Settling'
    BY <2>2 DEF Settling
  <2>4. Grown(c)
    BY <1>5, <2>1, <2>3, SavesGrow
  <2>5. ASSUME then # "reply", HasMessage(e, vote.ballot, vote.round)
        PROVE  <<vote.round, vote.ballot>> \in Settling'
    <3> DEFINE s == NewSave(vote, then)
    <3>1. s.vote = vote /\ s.then = then
      BY DEF NewSave
    <3> HIDE DEF s
    <3>2. s \in saving' /\ s.then # "reply" /\ s.vote = vote
      BY <2>1, <2>5, <3>1 DEF s
    <3> QED BY <3>2 DEF Settling
  <2> QED BY <2>4, <2>5
<1>6. CASE ~issue /\ ~(vote.type = "precommit" /\ vote.ballot # Nil)
  <2>1. (KeepVote(vote, then) \/ RefuseVote(vote)) /\ saving' = saving
    BY <1>3, <1>6 DEF SaveVote
  <2>2. Settling' = Settling
    BY <2>1 DEF Settling, Journalled
  <2> QED BY <1>6, <2>1, <2>2, StoreGrows
<1> QED BY <1>4, <1>5, <1>6

-----------------------------------------------------------------------------
\* A step of the disk beside the engine.
LEMMA GrownStands ==
    ASSUME NEW c, StandInv(c), NodeInv', committed = None, up', e' = e,
           UNCHANGED <<committed, acked>>, Grown(c)
    PROVE  StandInv(c)'
BY StandsAgain DEF Grown

\* The journal's entry of a round is the own precommit of the round.
LEMMA OwnJournalled ==
    ASSUME NodeInv, up, NEW r \in Round, NEW v \in Ballot, Own(e, "precommit", r) = v,
           journal[r] # None
    PROVE  journal[r][1] = v
<1>1. log["precommit"][r] \in {None, journal[r][1]}
  BY DEF NodeInv, JournalFits
<1>2. CASE log["precommit"][r] = None
  BY <1>2, PendingHeld
<1>3. CASE log["precommit"][r] # None
  BY <1>1, <1>3, NoneIsNoBallot DEF NodeInv, UpInv, Fits, TablesFitLog, VoteType
<1> QED BY <1>2, <1>3

\* A restart of the height: a precommit that it drops is in the journal or lost.
LEMMA RestartHeightStands ==
    ASSUME NEW c, StandInv(c), NodeInv', NEW k \in 0 .. Len(e.outputs), RestartHeight(k),
           c => ~issue'
    PROVE  StandInv(c)'
<1>1. /\ up /\ up' /\ committed = None /\ lost' = lost \cup Dropped(k)
      /\ UNCHANGED <<known, log, journal, saving, committed, acked>>
  BY DEF RestartHeight, Running, disk, world, height
<1>2. /\ e' = [StartSameHeight(e) EXCEPT !.outputs = SubSeq(e.outputs, 1, k)]
      /\ ResumeRound(e) \in Round
  BY RestartedEngine DEF StandInv
<1>3. /\ Fits(e, log, Pending) /\ Pending' = Pending /\ e.outputs \in Seq(Output)
  BY <1>1, EngineTypes DEF StandInv, NodeInv, UpInv, Pending, Unlogged, Fits
<1>4. Settling \subseteq Settling' /\ Dropped(k) \subseteq Settling'
  BY <1>1 DEF Settling, Journalled
<1> DEFINE x == Here(c)'
<1>5. Grown(c)
  BY <1>1, <1>3, <1>4, SavesGrow
<1>6. Stands(e, x) /\ World(x) /\ x.settled = Settling'
  BY <1>5 DEF Grown
<1>7. ASSUME NEW i \in DOMAIN e.outputs, NEW r \in Round, NEW v \in Value,
             i > k, IsPrecommit(e.outputs[i], r, v)
      PROVE  <<r, v>> \in Settling'
  <2>1. CASE journal[r] = None
    <3>1. i \in (k + 1) .. Len(e.outputs)
      BY <1>3, <1>7
    <3>2. v # Nil
      BY NoneIsNoBallot
    <3>3. <<r, v>> \in Dropped(k)
      BY <1>7, <2>1, <3>1, <3>2 DEF Dropped, IsPrecommit
    <3> QED BY <1>4, <3>3
  <2>2. CASE journal[r] # None
    <3>1. Own(e, "precommit", r) = v
      BY <1>3, <1>7 DEF Fits, OutputsHeld, IsPrecommit
    <3>2. journal[r][1] = v
      BY <1>1, <2>2, <3>1, OwnJournalled DEF StandInv, Ballot
    <3> QED BY <1>1, <2>2, <3>2 DEF Settling, Journalled
  <2> QED BY <2>1, <2>2
<1> HIDE DEF x
<1>8. Stands(e', x)
  BY <1>2, <1>6, <1>7, DrainedHeightStands
<1> QED BY <1>1, <1>5, <1>8, StandsAgain DEF Grown, x

\* set_height in the height the engine is in, and the actor's own start_height:
\* with writes that succeed neither raises an issue.
LEMMA ResetHeightStands ==
    ASSUME NEW c, c => ~WriteFails, StandInv(c), NodeInv', ResetHeight \/ ReopenHeight
    PROVE  StandInv(c)' /\ UNCHANGED <<known, committed, acked>>
<1>1. 0 \in 0 .. Len(e.outputs)
  <2>1. e.outputs \in Seq(Output)
    BY DEF StandInv, NodeInv, NodeTypeOK, EngineState
  <2> QED BY <2>1
<1>2. PICK k \in 0 .. Len(e.outputs), before \in {FALSE, issue} :
         RestartHeight(k) /\ issue' \in ResumeIssue(before)
  BY <1>1 DEF ResetHeight, ReopenHeight
<1>3. ~ResumeRefused(StartSameHeight(e), log)
  BY <1>2, RestartedEngine DEF StandInv
<1>4. ASSUME c PROVE ~issue'
  <2>1. issue = FALSE /\ ~WriteFails
    BY <1>4 DEF StandInv, NodeInv, NodeTypeOK
  <2>2. before = FALSE
    BY <1>2, <2>1
  <2>3. issue' = (before \/ ResumeRefused(StartSameHeight(e), log))
    BY <1>2, <2>1 DEF ResumeIssue
  <2> QED BY <1>3, <2>2, <2>3
<1>5. UNCHANGED <<known, committed, acked>>
  BY <1>2 DEF RestartHeight, world, height
<1> QED BY <1>2, <1>4, <1>5, RestartHeightStands

\* An engine fits what it fits with other outputs.
LEMMA FitsAgain ==
    ASSUME NEW en, NEW lg0, NEW sv0, Fits(en, lg0, sv0), NEW q, NEW lg, NEW sv,
           Fits([en EXCEPT !.outputs = q], lg, sv)
    PROVE  Fits(en, lg, sv)
<1> DEFINE f == [en EXCEPT !.outputs = q]
<1>1. en \in EngineState
  BY DEF Fits
<1>2. /\ f.round = en.round /\ f.step = en.step /\ f.votes = en.votes
      /\ f.locked_round = en.locked_round /\ f.locked_value = en.locked_value
      /\ f.valid_round = en.valid_round /\ f.valid_value = en.valid_value
      /\ f.pending_finalized = en.pending_finalized
      /\ f.proposal_messages = en.proposal_messages
  BY <1>1 DEF EngineState
<1>3. Fits(f, lg, sv)
  OBVIOUS
<1> HIDE DEF f
<1>4. OutputsHeld(en) /\ StepFits(en) /\ LockKnown(en) /\ ValidKnown(en)
  BY DEF Fits
<1>5. NothingAhead(en, lg) /\ TablesFitLog(en, lg) /\ SavesHeld(en, sv) /\ LockCovers(en, lg)
  BY <1>2, <1>3 DEF Fits, NothingAhead, TablesFitLog, SavesHeld, LockCovers, Own
<1> QED BY <1>1, <1>4, <1>5 DEF Fits

\* The output actor takes an own vote off the outputs and saves it.
LEMMA ProcessVoteStands ==
    ASSUME NEW c, c => ~WriteFails, StandInv(c), NodeInv', ProcessVote
    PROVE  StandInv(c)'
<1>1. PICK can \in CanVote :
         /\ up /\ e.outputs # <<>> /\ NextOutput.kind = "vote"
         /\ e' = [e EXCEPT !.outputs = Tail(@)]
         /\ IF VoteRoute(NextOutput, can) = "drop"
            THEN UNCHANGED <<saving, issue, log, sent, known, queued>>
            ELSE SaveVote(NextOutput, VoteRoute(NextOutput, can))
         /\ UNCHANGED <<up, started, journal, lost, height>> /\ committed = None
  BY DEF ProcessVote, Running, bounds, departures
<1> DEFINE vote == Head(e.outputs)
           then == VoteRoute(vote, can)
           w == Here(c)
           x == Here(c)'
<1>2. /\ Stands(e, w) /\ w.ordinary = c /\ e \in EngineState /\ e.outputs \in Seq(Output)
      /\ Fits(e, log, Pending)
  BY <1>1, UpStands, EngineTypes DEF StandInv, NodeInv, UpInv
<1> HIDE DEF w
<1>3. 1 \in DOMAIN e.outputs /\ vote = e.outputs[1]
  BY <1>1, <1>2
<1>4. vote \in LocalVote
  <2>1. vote \in Output
    BY <1>2, <1>3
  <2> QED BY <1>1, <2>1 DEF Output, LocalVote, FinalizeMessage, NextOutput
<1>5. Own(e, vote.type, vote.round) = vote.ballot
  BY <1>1, <1>2, <1>3 DEF Fits, OutputsHeld, NextOutput
<1>6. Fits(e, log', Pending')
  <2>1. Fits([e EXCEPT !.outputs = Tail(e.outputs)], log', Pending')
    BY <1>1 DEF NodeInv, UpInv
  <2> QED BY <1>2, <2>1, FitsAgain
<1>7. /\ Grown(c)
      /\ c => \A r \in Round, v \in Value :
            IsPrecommit(vote, r, v) =>
                \/ <<r, v>> \in Settling'
                \/ /\ e.pending_finalized # None
                   /\ <<r, v>> # <<e.pending_finalized.round, e.pending_finalized.ballot>>
  <2>1. CASE then = "drop"
    <3>1. UNCHANGED <<saving, issue, log, known, journal, lost>>
      BY <1>1, <2>1 DEF NextOutput
    <3>2. Settling' = Settling
      BY <3>1 DEF Settling, Journalled
    <3>3. Grown(c)
      BY <1>1, <1>6, <3>1, <3>2, SavesGrow DEF StandInv
    <3>4. ASSUME c, NEW r \in Round, NEW v \in Value, IsPrecommit(vote, r, v)
          PROVE  /\ e.pending_finalized # None
                 /\ <<r, v>> # <<e.pending_finalized.round, e.pending_finalized.ballot>>
      <4>1. e.finalized /\ ~FinalizedVote(vote)
        BY <2>1 DEF VoteRoute
      <4>2. e.pending_finalized # None
        BY <1>2, <3>4, <4>1 DEF Stands, Sound, FinalHeld
      <4> QED BY <3>4, <4>1, <4>2 DEF FinalizedVote, IsPrecommit
    <3> QED BY <3>3, <3>4
  <2>2. CASE then # "drop"
    <3>1. SaveVote(vote, then) /\ then # "reply"
      BY <1>1, <2>2 DEF NextOutput, VoteRoute
    <3>2. ASSUME c, NEW r \in Round, NEW v \in Value, IsPrecommit(vote, r, v)
          PROVE  /\ vote.type = "precommit" /\ vote.ballot # Nil
                 /\ vote.round = r /\ vote.ballot = v /\ HasMessage(e, v, r)
      <4>1. HasMessage(e, v, r)
        BY <1>2, <1>3, <3>2 DEF Stands, Sound, MessagesHeld
      <4> QED BY <3>2, <4>1, NoneIsNoBallot DEF IsPrecommit
    <3> HIDE DEF then, vote
    <3>3. /\ Grown(c)
          /\ (c /\ vote.type = "precommit" /\ vote.ballot # Nil
                /\ HasMessage(e, vote.ballot, vote.round)) =>
                <<vote.round, vote.ballot>> \in Settling'
      BY <1>1, <1>4, <1>5, <1>6, <3>1, SaveGrows
    <3> QED BY <3>2, <3>3
  <2> QED BY <2>1, <2>2
<1>8. Stands(e, x) /\ x.ordinary = c /\ x.settled = Settling'
  BY <1>7 DEF Grown
<1> HIDE DEF x
<1>9. Stands([e EXCEPT !.outputs = Tail(@)], x)
  BY <1>1, <1>7, <1>8, TailStands
<1>10. Stands(e', Here(c)')
  BY <1>1, <1>9 DEF x
<1> QED BY <1>1, <1>7, <1>10, StandsAgain DEF Grown, height

\* The reply to a vote request stores the own vote of the round beside the
\* output actor.
LEMMA ReplyVotesStands ==
    ASSUME NEW c, c => ~WriteFails, StandInv(c), NodeInv', ReplyVotes
    PROVE  StandInv(c)'
<1>1. /\ up /\ UNCHANGED <<e, up, started, journal, lost, height>> /\ committed = None
      /\ \E t \in VoteType :
            /\ e.votes[t][e.round][Me] # None
            /\ SaveVote(VoteOf(t, e.round, e.votes[t][e.round][Me]), "reply")
  BY DEF ReplyVotes, Running, VoteType, bounds, departures
<1>2. PICK t \in VoteType :
         /\ e.votes[t][e.round][Me] # None
         /\ SaveVote(VoteOf(t, e.round, e.votes[t][e.round][Me]), "reply")
  BY <1>1
<1> DEFINE vote == VoteOf(t, e.round, e.votes[t][e.round][Me])
<1>3. e \in EngineState /\ e.round \in Round /\ Fits(e, log', Pending')
  BY <1>1, NodeTypes, EngineTypes DEF StandInv, NodeInv, UpInv
<1>4. e.votes[t][e.round][Me] \in Ballot
  BY <1>2, <1>3, EngineTypes DEF Own
<1>5. vote \in LocalVote /\ Own(e, vote.type, vote.round) = vote.ballot
  BY <1>3, <1>4 DEF VoteOf, LocalVote, Own
<1>6. SaveVote(vote, "reply")
  BY <1>2
<1> HIDE DEF vote
<1>7. Grown(c)
  BY <1>1, <1>3, <1>5, <1>6, SaveGrows
<1> QED BY <1>1, <1>7, GrownStands DEF height

\* The reply for an earlier round stores own votes of that round.
LEMMA ReplyPastStands ==
    ASSUME NEW c, c => ~WriteFails, StandInv(c), NodeInv', NEW r \in Round, ReplyPast(r)
    PROVE  StandInv(c)'
<1>1. up /\ UNCHANGED <<e, up, started, journal, lost, height>> /\ committed = None
  BY DEF ReplyPast, Running, bounds, departures
<1>2. e \in EngineState /\ Fits(e, log', Pending') /\ Fits(e, log, Pending)
  BY <1>1, NodeTypes DEF StandInv, NodeInv, UpInv
<1>3. CASE RoundWait
  <2>1. UNCHANGED <<saving, issue, log, known, journal, lost>>
    BY <1>1, <1>3 DEF ReplyPast
  <2>2. Settling' = Settling
    BY <2>1 DEF Settling, Journalled
  <2>3. Grown(c)
    BY <1>1, <1>2, <2>1, <2>2, SavesGrow DEF StandInv
  <2> QED BY <1>1, <2>3, GrownStands DEF height
<1>4. CASE ~RoundWait
  <2> DEFINE v == e.polc_by_round[r]
             vote == VoteOf("prevote", r, v)
  <2>1. v # None /\ Own(e, "prevote", r) = v /\ SaveVote(vote, "reply")
    BY <1>4 DEF ReplyPast, Own
  <2>2. v \in Ballot
    BY <1>2, <2>1 DEF EngineState, Ballot
  <2>3. vote \in LocalVote /\ Own(e, vote.type, vote.round) = vote.ballot
    BY <2>1, <2>2 DEF VoteOf, LocalVote, VoteType
  <2> HIDE DEF vote
  <2>4. Grown(c)
    BY <1>1, <1>2, <2>1, <2>3, SaveGrows
  <2> QED BY <1>1, <2>4, GrownStands DEF height
<1> QED BY <1>3, <1>4

\* The save of a precommit leaves the journal's entry behind.
LEMMA SaveSettles ==
    ASSUME NodeInv, NEW s \in saving, journal[s.vote.round] # None,
           journal[s.vote.round][1] = s.vote.ballot,
           saving' = saving \ {s}, journal' = journal, lost' = lost
    PROVE  Settling \subseteq Settling'
<1>1. s.vote.round \in Round
  BY DEF NodeInv, NodeTypeOK, Save, LocalVote
<1>2. <<s.vote.round, s.vote.ballot>> \in Settling'
  BY <1>1 DEF Settling, Journalled
<1>3. ASSUME NEW u \in saving, u.then # "reply"
      PROVE  <<u.vote.round, u.vote.ballot>> \in Settling'
  <2>1. CASE u = s
    BY <1>2, <2>1
  <2>2. CASE u # s
    <3>1. u \in saving'
      BY <2>2
    <3> QED BY <1>3, <3>1 DEF Settling
  <2> QED BY <2>1, <2>2
<1>4. ASSUME NEW r \in Journalled(journal) PROVE <<r, journal[r][1]>> \in Settling'
  BY DEF Settling
<1> QED BY <1>3, <1>4 DEF Settling

\* The vote whose journal entry is written goes to the log.
LEMMA FinishSaveStands ==
    ASSUME NEW c, c => ~WriteFails, StandInv(c), NodeInv', NEW s \in saving, FinishSave(s)
    PROVE  StandInv(c)'
<1>1. /\ up /\ up' /\ committed = None /\ s.written /\ saving' = saving \ {s} /\ e' = e
      /\ UNCHANGED <<journal, lost, committed, acked>>
  BY DEF FinishSave, Running, height, bounds, departures
<1>2. Fits(e, log', Pending')
  BY <1>1 DEF NodeInv, UpInv
<1>3. Settling \subseteq Settling'
  <2>1. journal[s.vote.round] # None /\ journal[s.vote.round][1] = s.vote.ballot
    BY <1>1 DEF StandInv, NodeInv, SavingInv
  <2> QED BY <1>1, <2>1, SaveSettles DEF StandInv
<1>4. CASE UNCHANGED <<issue, log, sent, known, queued>>
  BY <1>1, <1>2, <1>3, <1>4, SavesGrow, GrownStands DEF StandInv
<1>5. CASE KeepVote(s.vote, s.then) \/ RefuseVote(s.vote)
  <2>1. /\ s.vote \in LocalVote /\ Own(e, s.vote.type, s.vote.round) = s.vote.ballot
    BY <1>1, PendingHeld DEF StandInv, NodeInv, NodeTypeOK, Save
  <2>2. Grown(c)
    BY <1>1, <1>2, <1>3, <1>5, <2>1, StoreGrows
  <2> QED BY <1>1, <2>2, GrownStands
<1> QED BY <1>4, <1>5 DEF FinishSave

-----------------------------------------------------------------------------
\* The journal entry of a precommit for a value is written.
LEMMA PutJournalGrows ==
    ASSUME NEW c, StandInv(c), NodeInv', NEW s \in saving, up, up', PutJournal(s),
           c => ~issue' /\ saving \ {s} \subseteq saving', UNCHANGED <<e, log, lost>>
    PROVE  Grown(c)
<1> DEFINE r == s.vote.round
           b == s.vote.ballot
           own == {<<Me, r, e.votes["prevote"][r][Me]>>} \cap ({Me} \X Round \X Ballot)
           w == Here(c)
<1>1. /\ journal[r] \in {None, JournalEntry(s)}
      /\ journal' = [journal EXCEPT ![r] = JournalEntry(s)]
      /\ known' = [known EXCEPT !["prevote"] = @ \cup own]
      /\ UNCHANGED <<e, log, lost>>
  BY DEF PutJournal, JournalConflicts
<1>2. /\ Stands(e, w) /\ w.known = known /\ w.log = log /\ w.saves = Pending /\ w.ordinary = c
      /\ log \in LogTable /\ journal \in JournalTable /\ known \in KnownTable /\ e \in EngineState
      /\ Fits(e, log, Pending)
  BY <1>1, NodeTypes, UpStands DEF StandInv, NodeInv, UpInv
<1> HIDE DEF w
<1>3. /\ s \in Save /\ r \in Round /\ b \in Value /\ b \in Ballot
      /\ Own(e, "precommit", r) = b
  BY <1>1, PendingHeld DEF StandInv, NodeInv, NodeTypeOK
<1>5. JournalEntry(s)[1] = b /\ JournalEntry(s) # None
  <2>1. JournalEntry(s) \in Value \X (Round \cup {NoRound}) /\ JournalEntry(s)[1] = b
    BY <1>3 DEF JournalEntry, Save
  <2> QED BY <2>1, NodeAssumption
<1>6. /\ known'["prevote"] = known["prevote"] \cup own
      /\ known'["precommit"] = known["precommit"]
  BY <1>1, <1>2 DEF KnownTable, VoteType
<1>7. \A d \in Ballot : Own(e, "prevote", r) = d => <<Me, r, d>> \in own
  BY <1>3 DEF Own
<1>8. \A p, q, d : <<p, q, d>> \in own => p = Me /\ q = r /\ d = Own(e, "prevote", r)
  BY DEF Own
<1> DEFINE entry == JournalEntry(s)
<1> HIDE DEF entry, own
<1>9. /\ journal'[r] # None /\ journal'[r][1] = b
      /\ \A q \in Round : q # r => journal'[q] = journal[q]
      /\ \A q \in Round : journal[q] # None => journal'[q] = journal[q]
  BY <1>1, <1>2, <1>3, <1>5 DEF JournalTable, entry
<1> HIDE DEF r, b
<1>10. \A t \in VoteType : known[t] \subseteq known'[t]
  BY <1>6 DEF VoteType
<1>11. LogKnown(known', log')
  BY <1>1, <1>10 DEF LogKnown, StandInv
<1>12. JournalShown(known', journal')
  <2> SUFFICES ASSUME NEW q \in Round, journal'[q] # None
               PROVE  Shown(known', "prevote", q, journal'[q][1])
    BY DEF JournalShown
  <2>1. CASE q # r
    <3>1. Shown(known, "prevote", q, journal[q][1]) /\ journal'[q] = journal[q]
      BY <1>9, <2>1 DEF StandInv, JournalShown
    <3> QED BY <1>10, <3>1 DEF Shown, VoteType
  <2>2. CASE q = r
    <3>1. Carried(e, w, r, b)
      BY <1>2, <1>3 DEF Stands, Backs, PrecommitsBacked
    <3>2. PICK Q \in Quorum : \A p \in Q :
             \/ <<p, r, b>> \in known["prevote"]
             \/ p = Me /\ Own(e, "prevote", r) = b
      BY <1>2, <3>1 DEF Carried
    <3>3. \A p \in Q : <<p, r, b>> \in known'["prevote"]
      BY <1>3, <1>6, <1>7, <3>2
    <3> QED BY <1>9, <2>2, <3>3 DEF Shown
  <2> QED BY <2>1, <2>2
<1>13. \A t \in VoteType, q \in Round, d \in Ballot :
          <<Me, q, d>> \in known'[t] => <<Me, q, d>> \in known[t] \/ Own(e, t, q) = d
  BY <1>6, <1>8 DEF VoteType
<1>14. ASSUME c PROVE OnDisk(known', log', journal')
  <2> SUFFICES ASSUME NEW q \in Round, NEW d \in Ballot
               PROVE  /\ <<Me, q, d>> \in known'["prevote"] =>
                            \/ log["prevote"][q] = d
                            \/ /\ log["prevote"][q] = None
                               /\ log["precommit"][q] # None \/ journal'[q] # None
                      /\ <<Me, q, d>> \in known'["precommit"] =>
                            \/ log["precommit"][q] = d
                            \/ log["precommit"][q] = None /\ journal'[q] # None /\ journal'[q][1] = d
    BY <1>1 DEF OnDisk
  <2>1. OnDisk(known, log, journal)
    BY <1>14 DEF StandInv
  <2>2. <<Me, q, d>> \in known'["precommit"] =>
            \/ log["precommit"][q] = d
            \/ log["precommit"][q] = None /\ journal'[q] # None /\ journal'[q][1] = d
    BY <1>6, <1>9, <2>1 DEF OnDisk
  <2>3. CASE <<Me, q, d>> \in known["prevote"]
    <3>1. \/ log["prevote"][q] = d
          \/ /\ log["prevote"][q] = None
             /\ log["precommit"][q] # None \/ journal[q] # None
      BY <2>1, <2>3 DEF OnDisk
    <3> QED BY <1>9, <2>2, <3>1
  <2>4. CASE <<Me, q, d>> \in own
    <3>1. q = r /\ Own(e, "prevote", r) = d /\ d # None
      BY <1>8, <2>4, NoneIsNoBallot
    <3>2. log["prevote"][q] \in {None, d}
      BY <1>2, <3>1 DEF Fits, TablesFitLog, VoteType
    <3> QED BY <1>9, <2>2, <3>1, <3>2
  <2> QED BY <1>6, <2>2, <2>3, <2>4
<1>15. ASSUME c PROVE Settling \subseteq Settling'
  <2>1. ASSUME NEW q \in Journalled(journal) PROVE <<q, journal[q][1]>> \in Settling'
    <3>1. q \in Round /\ journal'[q] = journal[q] /\ journal'[q] # None
      BY <1>9 DEF Journalled
    <3> QED BY <3>1 DEF Settling, Journalled
  <2>2. ASSUME NEW u \in saving, u.then # "reply"
        PROVE  <<u.vote.round, u.vote.ballot>> \in Settling'
    <3>1. CASE u = s
      <4>1. r \in Journalled(journal') /\ <<u.vote.round, u.vote.ballot>> = <<r, journal'[r][1]>>
        BY <1>3, <1>9, <3>1 DEF Journalled, r, b
      <4> QED BY <4>1 DEF Settling, Journalled
    <3>2. CASE u # s
      <4>1. u \in saving'
        BY <1>15, <3>2
      <4> QED BY <2>2, <4>1 DEF Settling
    <3> QED BY <3>1, <3>2
  <2> QED BY <1>1, <2>1, <2>2 DEF Settling
<1>16. Fits(e, log', Pending')
  BY <1>1 DEF NodeInv, UpInv
<1> QED BY <1>10, <1>11, <1>12, <1>13, <1>14, <1>15, <1>16, WorldGrows DEF Grown, StandInv

\* before_precommit_broadcast, written.
LEMMA WriteJournalStands ==
    ASSUME NEW c, StandInv(c), NodeInv', NEW s \in saving, WriteJournal(s)
    PROVE  StandInv(c)'
<1>1. /\ up /\ up' /\ committed = None /\ PutJournal(s)
      /\ saving' = (saving \ {s}) \cup {[s EXCEPT !.written = TRUE]}
      /\ UNCHANGED <<e, issue, log, lost, committed, acked>>
  BY DEF WriteJournal, Running, height, bounds, departures
<1>2. Grown(c)
  BY <1>1, PutJournalGrows DEF StandInv
<1> QED BY <1>1, <1>2, GrownStands

\* A refused journal write leaves the vote unsaved, a torn one leaves the entry.
LEMMA JournalFailsStands ==
    ASSUME NEW c, c => ~WriteFails, StandInv(c), NodeInv', NEW s \in saving, JournalFails(s)
    PROVE  StandInv(c)'
<1>1. /\ up /\ up' /\ committed = None /\ saving' = saving \ {s}
      /\ \/ (WriteFails \/ JournalConflicts(s)) /\ UNCHANGED <<journal, known>>
         \/ PutJournal(s)
      /\ UNCHANGED <<e, issue, log, lost, committed, acked>>
  BY DEF JournalFails, Running, height, bounds, departures
<1>2. Fits(e, log', Pending')
  BY <1>1 DEF NodeInv, UpInv
<1>3. CASE PutJournal(s)
  BY <1>1, <1>3, PutJournalGrows, GrownStands DEF StandInv
<1>4. CASE (WriteFails \/ JournalConflicts(s)) /\ UNCHANGED <<journal, known>>
  <2>1. ASSUME c PROVE Settling \subseteq Settling'
    <3>1. /\ journal[s.vote.round] # None /\ s.vote.round \in Round /\ s.vote.ballot \in Ballot
          /\ Own(e, "precommit", s.vote.round) = s.vote.ballot
      BY <1>1, <1>4, <2>1, PendingHeld DEF JournalConflicts, StandInv
    <3>2. journal[s.vote.round][1] = s.vote.ballot
      BY <1>1, <3>1, OwnJournalled DEF StandInv
    <3> QED BY <1>1, <1>4, <3>1, <3>2, SaveSettles DEF StandInv
  <2>2. Grown(c)
    BY <1>1, <1>2, <1>4, <2>1, SavesGrow DEF StandInv
  <2> QED BY <1>1, <2>2, GrownStands
<1> QED BY <1>1, <1>3, <1>4

-----------------------------------------------------------------------------
(* Finality, crash and boot *)

\* A finalize message shows our precommit: by then it is in the journal, unless it
\* was lost.
LEMMA ShowGrows ==
    ASSUME NEW c, StandInv(c), NodeInv', up, up', ActorIdle, NEW f \in FinalizeMessage,
           ShowPrecommit(f),
           UNCHANGED <<issue, log, journal, saving, lost>>, c => ~Departed',
           c => f = e.pending_finalized /\ e.pending_finalized # None,
           (c /\ f.own) =>
               \A i \in DOMAIN e.outputs : ~IsPrecommit(e.outputs[i], f.round, f.ballot)
    PROVE  Grown(c)
<1> DEFINE w == Here(c)
           add == IF f.own THEN {<<Me, f.round, f.ballot>>} ELSE {}
<1>1. /\ Stands(e, w) /\ w.known = known /\ w.log = log /\ w.settled = Settling
      /\ w.ordinary = c /\ known \in KnownTable /\ log \in LogTable /\ e \in EngineState
      /\ Fits(e, log, Pending)
  BY NodeTypes, UpStands DEF StandInv, NodeInv, UpInv
<1> HIDE DEF w
<1>2. f.round \in Round /\ f.ballot \in Value /\ f.ballot \in Ballot
  BY DEF FinalizeMessage, Ballot
<1>3. /\ known'["precommit"] = known["precommit"] \cup add
      /\ known'["prevote"] = known["prevote"]
  BY <1>1 DEF KnownTable, VoteType, ShowPrecommit
<1>4. \A q, d : <<Me, q, d>> \in add => q = f.round /\ d = f.ballot /\ f.own
  OBVIOUS
<1> HIDE DEF add
<1>5. \A t \in VoteType : known[t] \subseteq known'[t]
  BY <1>3 DEF VoteType
<1>6. LogKnown(known', log') /\ JournalShown(known', journal')
  <2>1. LogKnown(known', log')
    BY <1>5 DEF LogKnown, StandInv
  <2> QED BY <1>5, <2>1, ShownGrows DEF StandInv
<1>7. Pending' = Pending /\ Settling' = Settling
  BY DEF Pending, Unlogged, Settling, Journalled
<1>8. ASSUME c, f.own
      PROVE  /\ Own(e, "precommit", f.round) = f.ballot
             /\ journal[f.round] # None /\ journal[f.round][1] = f.ballot
             /\ log["precommit"][f.round] \in {None, f.ballot}
  <2>1. Sound(e, w)
    BY <1>1, <1>8 DEF Stands
  <2>2. Own(e, "precommit", f.round) = f.ballot
    BY <1>8, <2>1 DEF Sound, FinalHeld
  <2>3. <<f.round, f.ballot>> \in Settling
    BY <1>1, <1>2, <1>8, <2>1, <2>2 DEF Sound, Settled
  <2>4. <<f.round, f.ballot>> \notin lost
    <3>1. <<Me, f.round, f.ballot>> \in known'["precommit"]
      BY <1>3, <1>8 DEF add
    <3> QED BY <1>8, <3>1 DEF Departed
  <2>5. PICK q \in Journalled(journal) : <<f.round, f.ballot>> = <<q, journal[q][1]>>
    BY <2>3, <2>4 DEF Settling, ActorIdle
  <2>6. journal[f.round] # None /\ journal[f.round][1] = f.ballot
    BY <2>5 DEF Journalled
  <2> QED BY <1>2, <2>2, <2>6 DEF StandInv, NodeInv, JournalFits
<1>9. ASSUME c PROVE OnDisk(known', log', journal')
  <2>1. OnDisk(known, log, journal)
    BY <1>9 DEF StandInv
  <2> QED BY <1>3, <1>4, <1>8, <1>9, <2>1 DEF OnDisk
<1>10. c => \A t \in VoteType, q \in Round, d \in Ballot :
          <<Me, q, d>> \in known'[t] => <<Me, q, d>> \in known[t] \/ Own(e, t, q) = d
  BY <1>3, <1>4, <1>8 DEF VoteType
<1>11. Fits(e, log', Pending')
  BY <1>1, <1>7
<1> QED BY <1>5, <1>6, <1>7, <1>9, <1>10, <1>11, WorldGrows DEF Grown, StandInv

\* The output actor hands the certificate of a finalize output on.
LEMMA ProcessFinalizeStands ==
    ASSUME NEW c, c => ~Departed', StandInv(c), NodeInv', ProcessFinalize
    PROVE  StandInv(c)'
<1> DEFINE f == Head(e.outputs)
           w == Here(c)
           x == Here(c)'
<1>1. /\ up /\ up' /\ committed = None /\ ActorIdle /\ e.outputs # <<>> /\ f.kind = "finalize"
      /\ e' = [e EXCEPT !.outputs = Tail(@)] /\ ShowPrecommit(f)
      /\ UNCHANGED <<issue, log, journal, saving, lost, committed, acked>>
  BY DEF ProcessFinalize, Running, NextOutput, disk, height, bounds, departures
<1>2. Stands(e, w) /\ w.ordinary = c /\ e \in EngineState /\ e.outputs \in Seq(Output)
  BY <1>1, UpStands, EngineTypes
<1> HIDE DEF w
<1>3. 1 \in DOMAIN e.outputs /\ f = e.outputs[1] /\ \A i \in DOMAIN e.outputs : ~(i < 1)
  BY <1>1, <1>2
<1>4. f \in FinalizeMessage
  <2>1. f \in Output
    BY <1>2, <1>3
  <2> QED BY <1>1, <2>1 DEF Output, LocalVote, FinalizeMessage
<1> HIDE DEF f
<1>5. ASSUME c
      PROVE  /\ f = e.pending_finalized /\ e.pending_finalized # None
             /\ f.own => \A i \in DOMAIN e.outputs : ~IsPrecommit(e.outputs[i], f.round, f.ballot)
  <2>1. Sound(e, w)
    BY <1>2, <1>5 DEF Stands
  <2>2. f = e.pending_finalized
    BY <1>1, <1>3, <2>1 DEF Sound, FinalHeld
  <2>3. e.pending_finalized # None
    BY <1>4, <2>2, NoneAssumption
  <2>4. f.own => \A i \in DOMAIN e.outputs : ~IsPrecommit(e.outputs[i], f.round, f.ballot)
    BY <1>1, <1>3, <2>1 DEF Sound, InOrder
  <2> QED BY <2>2, <2>3, <2>4
<1>6. Grown(c)
  BY <1>1, <1>4, <1>5, ShowGrows
<1>7. Stands(e, x)
  BY <1>6 DEF Grown
<1> HIDE DEF x
<1>8. \A r \in Round, v \in Value : ~IsPrecommit(Head(e.outputs), r, v)
  BY <1>1 DEF IsPrecommit, f
<1>9. Stands([e EXCEPT !.outputs = Tail(@)], x)
  BY <1>1, <1>7, <1>8, TailStands
<1> QED BY <1>1, <1>6, <1>9, StandsAgain DEF Grown, x, StandInv

\* The driver applies the finalized value.
LEMMA ApplyFinalizedStands ==
    ASSUME NEW c, c => ~Departed', StandInv(c), NodeInv', ApplyFinalized
    PROVE  StandInv(c)'
<1> DEFINE f == e.pending_finalized
           w == Here(c)
<1>1. /\ up /\ up' /\ ActorIdle /\ e.outputs = <<>> /\ f # None /\ e' = e
      /\ committed' = f /\ ShowPrecommit(f) /\ committed = None
      /\ UNCHANGED <<issue, log, journal, saving, lost, acked>>
  BY DEF ApplyFinalized, Running, volatile, disk, bounds, departures
<1>2. /\ Stands(e, w) /\ w.known = known /\ e \in EngineState /\ known \in KnownTable
  BY <1>1, UpStands, NodeTypes DEF StandInv, NodeInv
<1> HIDE DEF w
<1>3. f \in FinalizeMessage
  BY <1>1, <1>2 DEF EngineState
<1>4. \A i \in DOMAIN e.outputs : FALSE
  BY <1>1
<1>5. Grown(c)
  BY <1>1, <1>3, <1>4, ShowGrows
<1>6. Shown(known', "precommit", f.round, f.ballot)
  <2>1. known'["precommit"] =
           known["precommit"] \cup (IF f.own THEN {<<Me, f.round, f.ballot>>} ELSE {})
    BY <1>1, <1>2 DEF ShowPrecommit, KnownTable, VoteType
  <2>2. PICK Q \in Quorum : \A p \in Q :
            <<p, f.round, f.ballot>> \in known["precommit"] \/ (p = Me /\ f.own)
    BY <1>1, <1>2 DEF Stands, Backs, FinalBacked
  <2>3. \A p \in Q : <<p, f.round, f.ballot>> \in known'["precommit"]
    BY <2>1, <2>2
  <2> QED BY <2>3 DEF Shown
<1>7. CommitShown'
  BY <1>1, <1>3, <1>6 DEF CommitShown, StandInv
<1> QED BY <1>1, <1>5, <1>7 DEF Grown, StandInv

\* The acknowledgement changes nothing that votes rest on.
LEMMA AckFinalizedStands ==
    ASSUME NEW c, StandInv(c), NodeInv', AckFinalized
    PROVE  StandInv(c)'
<1>1. committed # None /\ UNCHANGED <<e, saving, issue, up, log, journal, lost, known, committed>>
  BY DEF AckFinalized, volatile, disk, world, bounds, departures
<1>2. Here(c)' = Here(c)
  BY <1>1, SameWorld
<1>3. CommitShown'
  BY <1>1 DEF StandInv, CommitShown
<1> QED BY <1>1, <1>2, <1>3 DEF StandInv

\* What a running node has on its disk obeys the rule of the lock.
LEMMA DiskLocksHold ==
    ASSUME NEW c, c, StandInv(c), up
    PROVE  DiskLocks(known, journal)
<1> DEFINE w == Here(c)
<1>1. /\ Stands(e, w) /\ w.known = known /\ w.ordinary = c
      /\ \A v, lo, hi : Freed(w, v, lo, hi) <=> FreedBy(known, v, lo, hi)
  <2>1. Stands(e, w) /\ w.known = known /\ w.ordinary = c
    BY UpStands
  <2>2. \A v, lo, hi : Freed(w, v, lo, hi) <=> FreedBy(known, v, lo, hi)
    BY WorldParts DEF Here
  <2> QED BY <2>1, <2>2
<1> HIDE DEF w
<1> SUFFICES ASSUME NEW r0 \in Round, NEW r1 \in Round, NEW v0 \in Value, NEW v1 \in Value,
                    r0 < r1, v0 # v1,
                    <<Me, r0, v0>> \in known["precommit"] \/ (journal[r0] # None /\ journal[r0][1] = v0),
                    <<Me, r1, v1>> \in known["prevote"]
             PROVE  FreedBy(known, v1, r0, r1)
  BY DEF DiskLocks
<1>2. LocksKept(e, w)
  BY <1>1 DEF Stands, Sound
<1>3. Prevoted(e, w, r1, v1)
  BY <1>1 DEF Prevoted
<1>4. Precommitted(e, w, r0, v0)
  <2>1. CASE <<Me, r0, v0>> \in known["precommit"]
    BY <1>1, <2>1 DEF Precommitted
  <2>2. CASE journal[r0] # None /\ journal[r0][1] = v0 /\ log["precommit"][r0] = None
    BY <2>2, PendingHeld DEF StandInv, Precommitted
  <2>3. CASE journal[r0] # None /\ journal[r0][1] = v0 /\ log["precommit"][r0] # None
    <3>1. log["precommit"][r0] = v0
      BY <2>3 DEF StandInv, NodeInv, JournalFits
    <3>2. <<Me, r0, v0>> \in known["precommit"]
      BY <2>3, <3>1 DEF StandInv, LogKnown, VoteType
    <3> QED BY <1>1, <3>2 DEF Precommitted
  <2> QED BY <2>1, <2>2, <2>3
<1>5. Freed(w, v1, r0, r1)
  BY <1>2, <1>3, <1>4 DEF LocksKept
<1> QED BY <1>1, <1>5

\* A crash leaves the disk and the votes that exist.
LEMMA CrashStands ==
    ASSUME NEW c \in BOOLEAN, StandInv(c), NodeInv', Crash
    PROVE  StandInv(c)'
<1>1. /\ up /\ ~up' /\ e' = InitialEngine /\ ~issue'
      /\ UNCHANGED <<log, journal, known, committed, acked>>
  BY DEF Crash, Running, disk, world, height
<1>2. CommitShown'
  BY <1>1 DEF StandInv, CommitShown
<1>3. c => DiskLocks(known', journal')
  BY <1>1, DiskLocksHold
<1> QED BY <1>1, <1>2, <1>3 DEF StandInv

\* The boot writes a journalled precommit that the log lacks.
LEMMA RestoreVoteStands ==
    ASSUME NEW c, StandInv(c), NodeInv', NEW r \in Round, RestoreVote(r)
    PROVE  StandInv(c)'
<1> DEFINE b == journal[r][1]
<1>1. /\ ~up /\ ~up' /\ journal[r] # None /\ log["precommit"][r] = None
      /\ log' = [log EXCEPT !["precommit"][r] = b]
      /\ known' = [known EXCEPT !["precommit"] = @ \cup {<<Me, r, b>>}]
      /\ UNCHANGED <<e, issue, journal, committed, acked>>
  BY DEF RestoreVote, volatile, height
<1>2. log \in LogTable /\ journal \in JournalTable /\ known \in KnownTable
  BY NodeTypes DEF StandInv, NodeInv
<1>3. b \in Value /\ b \in Ballot /\ b # None
  BY <1>1, <1>2, EntryTypes, NoneIsNoBallot DEF Ballot
<1> HIDE DEF b
<1>4. \A u \in VoteType, s \in Round :
          log'[u][s] = IF u = "precommit" /\ s = r THEN b ELSE log[u][s]
  BY <1>1, <1>2, <1>3 DEF LogTable, VoteType
<1>5. /\ known'["precommit"] = known["precommit"] \cup {<<Me, r, b>>}
      /\ known'["prevote"] = known["prevote"]
  BY <1>1, <1>2 DEF KnownTable, VoteType
<1>6. \A t \in VoteType : known[t] \subseteq known'[t]
  BY <1>5 DEF VoteType
<1>7. LogKnown(known', log')
  <2> SUFFICES ASSUME NEW u \in VoteType, NEW s \in Round, log'[u][s] # None
               PROVE  <<Me, s, log'[u][s]>> \in known'[u]
    BY DEF LogKnown
  <2>1. CASE u = "precommit" /\ s = r
    BY <1>4, <1>5, <2>1
  <2>2. CASE ~(u = "precommit" /\ s = r)
    <3>1. log'[u][s] = log[u][s]
      BY <1>4, <2>2
    <3>2. <<Me, s, log[u][s]>> \in known[u]
      BY <3>1 DEF LogKnown, StandInv
    <3> QED BY <1>6, <3>1, <3>2
  <2> QED BY <2>1, <2>2
<1>8. JournalShown(known', journal')
  BY <1>1, <1>6, ShownGrows DEF StandInv
<1>9. CommitShown'
  BY <1>1, <1>6 DEF StandInv, CommitShown, Shown, VoteType
<1>10. ASSUME c PROVE OnDisk(known', log', journal')
  <2> SUFFICES ASSUME NEW q \in Round, NEW d \in Ballot
               PROVE  /\ <<Me, q, d>> \in known'["prevote"] =>
                            \/ log'["prevote"][q] = d
                            \/ /\ log'["prevote"][q] = None
                               /\ log'["precommit"][q] # None \/ journal[q] # None
                      /\ <<Me, q, d>> \in known'["precommit"] =>
                            \/ log'["precommit"][q] = d
                            \/ /\ log'["precommit"][q] = None /\ journal[q] # None
                               /\ journal[q][1] = d
    BY <1>1 DEF OnDisk
  <2>1. OnDisk(known, log, journal) /\ d # None
    BY <1>10, NoneIsNoBallot DEF StandInv
  <2>2. "prevote" \in VoteType /\ "precommit" \in VoteType /\ "prevote" # "precommit"
    BY DEF VoteType
  <2>3. log'["prevote"][q] = log["prevote"][q] /\ (log["precommit"][q] # None => log'["precommit"][q] # None)
    BY <1>3, <1>4, <2>2
  <2>4. <<Me, q, d>> \in known'["prevote"] =>
            \/ log'["prevote"][q] = d
            \/ /\ log'["prevote"][q] = None
               /\ log'["precommit"][q] # None \/ journal[q] # None
    BY <1>5, <2>1, <2>3 DEF OnDisk
  <2>5. CASE q = r /\ d = b
    BY <1>4, <2>2, <2>4, <2>5
  <2>6. CASE q = r /\ d # b
    <3>1. <<Me, q, d>> \notin known'["precommit"]
      BY <1>1, <1>5, <2>1, <2>6 DEF OnDisk, b
    <3> QED BY <2>4, <3>1
  <2>7. CASE q # r
    <3>1. log'["precommit"][q] = log["precommit"][q]
      BY <1>4, <2>2, <2>7
    <3>2. <<Me, q, d>> \in known'["precommit"] => <<Me, q, d>> \in known["precommit"]
      BY <1>5, <2>7
    <3> QED BY <2>1, <2>4, <3>1, <3>2 DEF OnDisk
  <2> QED BY <2>5, <2>6, <2>7
<1>11. ASSUME c PROVE DiskLocks(known', journal')
  <2> SUFFICES ASSUME NEW r0 \in Round, NEW r1 \in Round, NEW v0 \in Value, NEW v1 \in Value,
                      r0 < r1, v0 # v1,
                      \/ <<Me, r0, v0>> \in known'["precommit"]
                      \/ journal[r0] # None /\ journal[r0][1] = v0,
                      <<Me, r1, v1>> \in known'["prevote"]
               PROVE  FreedBy(known', v1, r0, r1)
    BY <1>1 DEF DiskLocks
  <2>1. \/ <<Me, r0, v0>> \in known["precommit"]
        \/ journal[r0] # None /\ journal[r0][1] = v0
    BY <1>1, <1>5 DEF b
  <2>2. FreedBy(known, v1, r0, r1)
    BY <1>1, <1>5, <1>11, <2>1 DEF StandInv, DiskLocks
  <2> QED BY <1>6, <2>2 DEF FreedBy, Shown, VoteType
<1> QED BY <1>1, <1>7, <1>8, <1>9, <1>10, <1>11 DEF StandInv

-----------------------------------------------------------------------------
\* The engine that the journal gives has no votes; its lock had its prevotes.
LEMMA RestoredFresh ==
    ASSUME NEW w, NEW jn \in JournalTable,
           ~RoundWait => MaxRound \notin Journalled(jn),
           \A r \in Round : jn[r] # None => Cert(w, "prevote", r, jn[r][1])
    PROVE  LET en == RestoredEngine(jn)
           IN  /\ Fresh(en)
               /\ en.locked_round >= 0 =>
                     /\ Cert(w, "prevote", en.locked_round, en.locked_value)
                     /\ en.locked_round \in Round /\ jn[en.locked_round] # None
               /\ ~RoundWait => en.locked_round < en.round
               /\ Journalled(jn) = {} => en.locked_round < en.round
<1> DEFINE en == RestoredEngine(jn)
           J == Journalled(jn)
           m == Max(J)
<1>1. CASE J = {}
  <2>1. en = InitialEngine
    BY <1>1 DEF RestoredEngine
  <2> HIDE DEF en
  <2>2. Fresh(en) /\ en.round = 0 /\ en.locked_round = NoRound
    BY <2>1, InitialBlank, InitialFresh
  <2>3. ~(en.locked_round >= 0) /\ en.locked_round < en.round
    BY <2>2 DEF NoRound
  <2> QED BY <2>2, <2>3 DEF en
<1>2. CASE J # {}
  <2>1. m \in Round /\ jn[m] # None
    BY <1>2, LastJournalled
  <2>2. ~RoundWait => m # MaxRound
    <3>1. m \in J
      BY <2>1 DEF Journalled
    <3> HIDE DEF m
    <3> QED BY <3>1
  <2>3. en = RestorePrecommitLock(InitialEngine, m, jn[m][1], jn[m][2])
    BY <1>2 DEF RestoredEngine
  <2> HIDE DEF m, J
  <2>4. jn[m][1] \in Value /\ jn[m][2] \in Round \cup {NoRound}
    BY <2>1, EntryTypes
  <2> HIDE DEF en
  <2>5. /\ Fresh(en) /\ en.round = IF RoundWait THEN m ELSE m + 1
        /\ en.locked_round = m /\ en.locked_value = jn[m][1]
    BY <2>1, <2>2, <2>3, <2>4, RestoreLockBlank, RestoreLockFresh
  <2>6. ~RoundWait => en.locked_round < en.round
    BY <2>1, <2>5 DEF Round
  <2>7. Cert(w, "prevote", m, jn[m][1])
    BY <2>1
  <2> QED BY <1>2, <2>1, <2>5, <2>6, <2>7 DEF en, J
<1> QED BY <1>1, <1>2

\* A blank engine that realigns keeps its lock.
LEMMA LaterFresh ==
    ASSUME NEW en, Blank(en), Fresh(en), NEW r \in Round, r > en.round,
           en.locked_round >= 0 =>
               /\ en.locked_round <= en.round
               /\ HasMessage(en, en.locked_value, en.locked_round)
    PROVE  LET f == RealignRound(en, r)
           IN  /\ Blank(f) /\ Fresh(f) /\ f.round = r
               /\ f.locked_round = en.locked_round /\ f.locked_value = en.locked_value
<1>1. /\ en \in EngineState /\ en.round \in Nat /\ en.locked_round \in Int /\ r \in Nat
  BY EngineTypes DEF Blank, Round
<1>2. en.locked_round >= 0 => en.locked_value \in Value /\ en.locked_round <= r
  BY <1>1 DEF Blank, LockKnown
<1> QED BY <1>1, <1>2, RealignBlank, RealignFresh DEF Blank

\* The engine of a booted node.
LEMMA BootBooted ==
    ASSUME NEW lg \in LogTable, NEW jn \in JournalTable, Restored(lg, jn),
           BootInBound(lg, jn), NEW w, World(w), w.log = lg,
           \A r \in Round : jn[r] # None => Cert(w, "prevote", r, jn[r][1])
    PROVE  Booted(Boot(lg, jn), w)
<1> DEFINE en == RestoredEngine(jn)
           last == Max(Stored(lg))
           saved == [t \in VoteType |-> lg[t][last]]
           target == IF RoundWait THEN last ELSE last + 1
           f == IF target > en.round THEN RealignRound(en, target) ELSE en
<1>1. Boot(lg, jn) =
        IF Stored(lg) = {} THEN en
        ELSE IF RoundWait /\ f.round = last /\ RestorableVotes(f, saved)
        THEN RestoreLocalVotes(f, saved) ELSE f
  BY DEF Boot, ResumeLocalVote, Stored
<1>2. /\ Blank(en) /\ LogCovered(en, lg)
      /\ en.locked_round >= 0 =>
            /\ en.locked_round <= en.round
            /\ HasMessage(en, en.locked_value, en.locked_round)
  BY RestoredBlank DEF Restored, BootInBound
<1>3. /\ Fresh(en)
      /\ en.locked_round >= 0 =>
            /\ Cert(w, "prevote", en.locked_round, en.locked_value)
            /\ en.locked_round \in Round /\ jn[en.locked_round] # None
      /\ ~RoundWait => en.locked_round < en.round
      /\ Journalled(jn) = {} => en.locked_round < en.round
  BY RestoredFresh DEF BootInBound
<1>4. en.round \in Nat /\ en.round \in Round /\ en.locked_round \in Int
  BY <1>2, EngineTypes DEF Blank
<1>5. \A r \in Round : jn[r] # None => lg["precommit"][r] # None
  BY EntryTypes, NoneIsNoBallot DEF Restored
<1>6. CASE Stored(lg) = {}
  <2>1. Journalled(jn) = {}
    BY <1>5, <1>6 DEF Stored, Journalled, VoteType
  <2>2. Booted(en, w)
    <3> HIDE DEF en
    <3> QED BY <1>2, <1>3, <2>1, FreshBooted
  <2> QED BY <1>1, <1>6, <2>2
<1>7. CASE Stored(lg) # {} /\ RoundWait
  <2>1. target = last
    BY <1>7
  <2>2. /\ last \in Round
        /\ \A t \in VoteType, r \in Round : r > last => lg[t][r] = None
    BY <1>7, LastStored
  <2>3. Blank(f) /\ LogCovered(f, lg) /\ f.round = last /\ f.locked_round <= f.round
    BY <1>7, <2>1, ArrivesAtLast
  <2>4. /\ Fresh(f) /\ f.locked_round = en.locked_round /\ f.locked_value = en.locked_value
    <3>1. CASE target > en.round
      <4>1. f = RealignRound(en, target)
        BY <3>1
      <4> HIDE DEF f, en, last
      <4> QED BY <1>2, <1>3, <2>1, <2>2, <3>1, <4>1, LaterFresh
    <3>2. CASE ~(target > en.round)
      <4>1. f = en
        BY <3>2
      <4> HIDE DEF f, en
      <4> QED BY <1>3, <4>1
    <3> QED BY <3>1, <3>2
  <2> HIDE DEF f, last, en
  <2>5. RestorableVotes(f, saved)
    BY <2>3, BlankRestorable
  <2>6. f.locked_round >= f.round => w.log["precommit"][f.round] # None
    <3> SUFFICES ASSUME f.locked_round >= f.round PROVE lg["precommit"][f.round] # None
      OBVIOUS
    <3>1. f.round = en.locked_round /\ en.locked_round >= 0
      BY <1>4, <2>2, <2>3, <2>4 DEF Round
    <3> QED BY <1>3, <1>5, <3>1
  <2>7. f.locked_round >= 0 => Cert(w, "prevote", f.locked_round, f.locked_value)
    BY <1>3, <2>4
  <2>8. saved = [t \in VoteType |-> w.log[t][f.round]]
    BY <2>3
  <2> HIDE DEF saved
  <2>9. Booted(RestoreLocalVotes(f, saved), w)
    BY <2>3, <2>4, <2>6, <2>7, <2>8, RestoreVotesBooted
  <2> QED BY <1>1, <1>7, <2>3, <2>5, <2>9
<1>8. CASE Stored(lg) # {} /\ ~RoundWait
  <2>1. /\ last \in Round
        /\ \E t \in VoteType : lg[t][last] # None
    BY <1>8, LastStored
  <2>2. target = last + 1
    BY <1>8
  <2> HIDE DEF last
  <2>3. last # MaxRound
    BY <1>8, <2>1 DEF BootInBound
  <2>4. target \in Round
    BY <2>1, <2>2, <2>3, EngineAssumption DEF Round
  <2>5. Boot(lg, jn) = f
    BY <1>1, <1>8
  <2> HIDE DEF target
  <2>6. /\ Blank(f) /\ Fresh(f) /\ f.locked_round = en.locked_round
        /\ f.locked_value = en.locked_value /\ f.round >= en.round
    <3>1. CASE target > en.round
      <4>1. f = RealignRound(en, target)
        BY <3>1
      <4> HIDE DEF f, en
      <4>2. /\ Blank(f) /\ Fresh(f) /\ f.round = target
            /\ f.locked_round = en.locked_round /\ f.locked_value = en.locked_value
        BY <1>2, <1>3, <2>4, <3>1, <4>1, LaterFresh
      <4> QED BY <1>4, <2>4, <3>1, <4>2 DEF Round
    <3>2. CASE ~(target > en.round)
      <4>1. f = en
        BY <3>2
      <4> HIDE DEF f, en
      <4> QED BY <1>2, <1>3, <1>4, <4>1
    <3> QED BY <3>1, <3>2
  <2> HIDE DEF f, en
  <2>7. f.locked_round < f.round
    <3>1. f.round \in Nat
      BY <2>6, EngineTypes DEF Blank
    <3> QED BY <1>3, <1>4, <1>8, <2>6, <3>1
  <2>8. f.locked_round >= 0 => Cert(w, "prevote", f.locked_round, f.locked_value)
    BY <1>3, <2>6
  <2>9. Booted(f, w)
    BY <2>6, <2>7, <2>8, FreshBooted
  <2> QED BY <2>5, <2>9
<1> QED BY <1>6, <1>7, <1>8

\* The boot rebuilds the engine from the log and the journal.
LEMMA RestartStands ==
    ASSUME NEW c, StandInv(c), NodeInv', Restart
    PROVE  StandInv(c)'
<1>1. /\ ~up /\ \A r \in Journalled(journal) : log["precommit"][r] = journal[r][1]
      /\ up' /\ e' = Boot(log, journal)
      /\ UNCHANGED <<saving, issue, log, journal, lost, known, committed, acked>>
  BY DEF Restart, disk, world, height, bounds, departures
<1>2. log \in LogTable /\ journal \in JournalTable
  BY NodeTypes DEF StandInv, NodeInv
<1>3. BootInBound(log, journal)
  BY <1>1 DEF StandInv, NodeInv, DownInv
<1>4. Restored(log, journal)
  BY <1>1 DEF StandInv, NodeInv, LogBacked, Restored, Journalled
<1> DEFINE w == Here(c)
<1>5. World(w)
  BY HereWorld DEF StandInv
<1>6. /\ w.known = known /\ w.log = log /\ w.ordinary = c /\ w.saves = Pending
      /\ \A t, r, v : Cert(w, t, r, v) <=> Shown(known, t, r, v)
      /\ \A v, lo, hi : Freed(w, v, lo, hi) <=> FreedBy(known, v, lo, hi)
  BY WorldParts DEF Here
<1>7. Here(c)' = w
  BY <1>1, SameWorld
<1>8. Fits(e', log', Pending')
  BY <1>1 DEF NodeInv, UpInv
<1>9. Pending' = Pending
  BY <1>1 DEF Pending, Unlogged
<1> HIDE DEF w
<1>10. \A r \in Round : journal[r] # None => Cert(w, "prevote", r, journal[r][1])
  BY <1>6 DEF StandInv, JournalShown
<1>11. Booted(e', w)
  BY <1>1, <1>2, <1>3, <1>4, <1>5, <1>6, <1>10, BootBooted
<1>12. w.ordinary => KnownLocks(w)
  BY <1>1, <1>6 DEF StandInv, DiskLocks, KnownLocks
<1>13. Stands(e', w)
  BY <1>1, <1>5, <1>6, <1>8, <1>9, <1>11, <1>12, BootedStands
<1>14. CommitShown'
  BY <1>1 DEF StandInv, CommitShown
<1> QED BY <1>1, <1>7, <1>13, <1>14 DEF StandInv, w

-----------------------------------------------------------------------------
(* The invariant and what it says *)

\* The first boot has nothing on disk.
LEMMA StandInitially == ASSUME NEW c, NodeInit PROVE StandInv(c)
<1>1. NodeInv
  BY NodeInitially
<1>2. /\ known = [t \in VoteType |-> {}] /\ log = NoLog /\ journal = NoJournal
      /\ up /\ ~issue /\ committed = None /\ acked = FALSE /\ e = Boot(log, journal)
  BY DEF NodeInit
<1>3. /\ \A t \in VoteType, r \in Round : log[t][r] = None
      /\ \A r \in Round : journal[r] = None
      /\ \A t \in VoteType : known[t] = {}
  BY <1>2 DEF NoLog, NoJournal
<1>4. LogKnown(known, log) /\ JournalShown(known, journal) /\ OnDisk(known, log, journal)
  BY <1>3 DEF LogKnown, JournalShown, OnDisk, VoteType
<1>5. CommitShown
  BY <1>2 DEF CommitShown
<1> DEFINE w == Here(c)
<1>6. World(w)
  BY <1>1, <1>4, HereWorld
<1>7. w.log = log /\ w.known = known /\ w.saves = Pending
  BY WorldParts DEF Here
<1> HIDE DEF w
<1>8. log \in LogTable /\ journal \in JournalTable
  BY <1>1, NodeTypes DEF NodeInv
<1>9. Restored(log, journal) /\ BootInBound(log, journal)
  BY <1>3, EngineAssumption, NoneIsNoBallot DEF Restored, BootInBound, Journalled, Round, VoteType
<1>10. Booted(e, w)
  BY <1>2, <1>3, <1>6, <1>7, <1>8, <1>9, BootBooted
<1>11. KnownLocks(w)
  BY <1>3, <1>7 DEF KnownLocks, VoteType
<1>12. Fits(e, log, Pending)
  BY <1>1, <1>2 DEF NodeInv, UpInv
<1>13. Stands(e, w)
  BY <1>6, <1>7, <1>10, <1>11, <1>12, BootedStands
<1> QED BY <1>1, <1>2, <1>4, <1>5, <1>13 DEF StandInv, w

\* Every action keeps the invariant.
LEMMA StandStep ==
    ASSUME NEW c \in BOOLEAN, c => ~WriteFails, c => ~Departed', StandInv(c),
           [NodeNext]_nodeVars
    PROVE  StandInv(c)'
<1>0. NodeInv /\ NodeInv'
  BY NodeStep DEF StandInv
<1>1. CASE \E o \in OfferedVotes : ReceiveVote(o[1], o[3], o[2], o[4])
  <2>1. PICK o \in OfferedVotes : ReceiveVote(o[1], o[3], o[2], o[4])
    BY <1>1
  <2>2. o \in VoteType \X (Validator \ {Me}) \X Round \X Ballot
    BY NodeAssumption
  <2>3. o[1] \in VoteType /\ o[2] \in Validator /\ o[2] # Me /\ o[3] \in Round /\ o[4] \in Ballot
    BY <2>2
  <2> QED BY <1>0, <2>1, <2>3, ReceiveVoteStands
<1>2. CASE \E vote \in sent : ReceiveVote(vote.type, vote.round, Me, vote.ballot)
  <2>1. PICK vote \in sent : ReceiveVote(vote.type, vote.round, Me, vote.ballot)
    BY <1>2
  <2>2. vote.type \in VoteType /\ vote.round \in Round /\ vote.ballot \in Ballot
    BY <1>0 DEF NodeInv, NodeTypeOK, LocalVote
  <2>3. log[vote.type][vote.round] = vote.ballot /\ Me \in Validator
    BY <1>0, EngineAssumption DEF NodeInv, SentInv
  <2> QED BY <1>0, <2>1, <2>2, <2>3, ReceiveVoteStands
<1>3. CASE \E o \in OfferedProposals : ReceiveProposal(o[1], o[2], o[3])
  <2>1. PICK o \in OfferedProposals : ReceiveProposal(o[1], o[2], o[3])
    BY <1>3
  <2>2. o \in Round \X Value \X (Round \cup {NoRound})
    BY NodeAssumption
  <2>3. o[1] \in Round /\ o[2] \in Value /\ o[3] \in Round \cup {NoRound}
    BY <2>2
  <2> QED BY <1>0, <2>1, <2>3, ReceiveProposalStands
<1>4. CASE \E o \in OfferedRounds : ReceiveRoundSync(o[1], o[2])
  <2>1. PICK o \in OfferedRounds : ReceiveRoundSync(o[1], o[2])
    BY <1>4
  <2>2. o \in Round \X (Validator \ {Me})
    BY NodeAssumption
  <2>3. o[1] \in Round /\ o[2] \in Validator
    BY <2>2
  <2> QED BY <1>0, <2>1, <2>3, ReceiveRoundSyncStands
<1>5. CASE \E o \in OfferedFinalizes : ReceiveFinalize(o[1], o[2], o[3])
  <2>1. PICK o \in OfferedFinalizes : ReceiveFinalize(o[1], o[2], o[3])
    BY <1>5
  <2>2. o \in Round \X Value \X Quorum
    BY NodeAssumption
  <2>3. o[1] \in Round /\ o[2] \in Value /\ o[3] \in Quorum
    BY <2>2
  <2> QED BY <1>0, <2>1, <2>3, ReceiveFinalizeStands
<1>6. CASE \E step \in Step, r \in 0 .. e.round, g \in 0 .. e.generation :
              Timeout([step |-> step, round |-> r, generation |-> g])
  BY <1>0, <1>6, TimeoutStands
<1>7. CASE \E v \in Value : Propose(v)
  BY <1>0, <1>7, ProposeStands DEF Departed
<1>8. CASE RealignProgress
  BY <1>0, <1>8, RealignProgressStands
<1>9. CASE ResetHeight \/ ReopenHeight
  BY <1>0, <1>9, ResetHeightStands
<1>10. CASE Ready
  BY <1>0, <1>10, ReadyStands
<1>11. CASE ProcessVote
  BY <1>0, <1>11, ProcessVoteStands
<1>12. CASE ReplyVotes
  BY <1>0, <1>12, ReplyVotesStands
<1>13. CASE \E r \in Round : ReplyPast(r)
  BY <1>0, <1>13, ReplyPastStands
<1>14. CASE \E s \in saving : WriteJournal(s) \/ JournalFails(s) \/ FinishSave(s)
  BY <1>0, <1>14, WriteJournalStands, JournalFailsStands, FinishSaveStands
<1>15. CASE ProcessFinalize
  BY <1>0, <1>15, ProcessFinalizeStands
<1>16. CASE ApplyFinalized
  BY <1>0, <1>16, ApplyFinalizedStands
<1>17. CASE AckFinalized
  BY <1>0, <1>17, AckFinalizedStands
<1>18. CASE Crash
  BY <1>0, <1>18, CrashStands
<1>19. CASE \E r \in Round : RestoreVote(r)
  BY <1>0, <1>19, RestoreVoteStands
<1>20. CASE Restart
  BY <1>0, <1>20, RestartStands
<1>21. CASE Start
  BY <1>0, <1>21, StartStands
<1>22. CASE UNCHANGED nodeVars
  <2>1. UNCHANGED <<e, saving, issue, up, log, journal, lost, known, committed, acked>>
    BY <1>22 DEF nodeVars, volatile, disk, world, height, bounds, departures
  <2>2. Here(c)' = Here(c)
    BY <2>1, SameWorld
  <2>3. CommitShown'
    BY <2>1 DEF StandInv, CommitShown
  <2> QED BY <1>0, <2>1, <2>2, <2>3 DEF StandInv
<1> QED BY <1>1, <1>2, <1>3, <1>4, <1>5, <1>6, <1>7, <1>8, <1>9, <1>10, <1>11, <1>12, <1>13,
           <1>14, <1>15, <1>16, <1>17, <1>18, <1>19, <1>20, <1>21, <1>22 DEF NodeNext

\* Every lock and every POLC of the engine stands on votes that exist: what
\* record_polc, the lock updates of on_vote and on_propose and the finality
\* messages put into the engine, and what restore_precommit_lock rebuilds at a
\* boot, through failing writes, crashes and heights that are started again.
THEOREM PolcStaysReal == NodeSpec => []PolcIsReal
<1>1. NodeInit => StandInv(FALSE)
  BY StandInitially
<1>2. StandInv(FALSE) /\ [NodeNext]_nodeVars => StandInv(FALSE)'
  BY StandStep
<1>3. StandInv(FALSE) => PolcIsReal
  <2> SUFFICES ASSUME StandInv(FALSE) PROVE PolcIsReal
    OBVIOUS
  <2>1. CASE ~up
    <3>1. e = InitialEngine
      BY <2>1 DEF StandInv
    <3>2. e.locked_round = NoRound /\ \A r \in Round : e.polc_by_round[r] = None
      BY <3>1, InitialBlank, InitialFresh
    <3> QED BY <3>2 DEF PolcIsReal, NoRound
  <2>2. CASE up
    <3> DEFINE w == Here(FALSE)
    <3>1. Stands(e, w) /\ w.known = known /\ e \in EngineState
      BY <2>2, UpStands
    <3> HIDE DEF w
    <3>2. \A r, v : Backed(e, w, r, v) => \E t \in VoteType : Behind(t, r, v)
      BY <3>1 DEF Backed, Carried, Cert, Behind, Own, VoteType
    <3>3. /\ \A r \in Round : e.polc_by_round[r] # None => Backed(e, w, r, e.polc_by_round[r])
          /\ e.locked_round >= 0 => Backed(e, w, e.locked_round, e.locked_value)
      BY <3>1 DEF Stands, Backs, PolcsBacked, LockBacked
    <3>4. e.locked_round >= 0 => e.locked_round \in Round /\ e.locked_round <= e.locked_round
      BY <3>1, EngineTypes DEF NoRound
    <3> QED BY <3>2, <3>3, <3>4 DEF PolcIsReal
  <2> QED BY <2>1, <2>2
<1> QED BY <1>1, <1>2, <1>3, PTL DEF NodeSpec

-----------------------------------------------------------------------------
(* The refinement of Voting *)

\* A step of the voting, or none.
Votes == UNCHANGED V!vars \/ V!Next

\* Voting's words for the node's.
LEMMA VotingWords ==
    /\ V!Round = Round /\ V!Ballot = Ballot
    /\ \A kn, t, r, b : V!Certified(kn[t], r, b) <=> Shown(kn, t, r, b)
    /\ \A v, lo, hi : V!Released(v, lo, hi) <=> FreedBy(known, v, lo, hi)
<1>1. V!Round = Round /\ V!Ballot = Ballot
  BY DEF V!Round, Round, V!Ballot, Ballot
<1>2. ASSUME NEW kn, NEW t, NEW r, NEW b
      PROVE  V!Certified(kn[t], r, b) <=> Shown(kn, t, r, b)
  <2>1. \A Q \in Quorum : Q \subseteq Validator
    BY EngineAssumption
  <2> QED BY <2>1 DEF V!Certified, V!Voters, Shown
<1>3. ASSUME NEW v, NEW lo, NEW hi
      PROVE  V!Released(v, lo, hi) <=> FreedBy(known, v, lo, hi)
  BY <1>1, <1>2 DEF V!Released, FreedBy
<1> QED BY <1>1, <1>2, <1>3

\* Nothing is shown and nothing acknowledged.
LEMMA QuietVotes ==
    ASSUME UNCHANGED <<known, acked>>, acked => UNCHANGED committed
    PROVE  Votes
BY DEF Votes, V!vars

\* One more vote of a type, in Voting's variables.
LEMMA ShowsVotes ==
    ASSUME known \in KnownTable, NEW t \in VoteType, NEW add,
           known' = [known EXCEPT ![t] = @ \cup add]
    PROVE  /\ t = "prevote" =>
                 /\ known'["prevote"] = known["prevote"] \cup add
                 /\ known'["precommit"] = known["precommit"]
           /\ t = "precommit" =>
                 /\ known'["precommit"] = known["precommit"] \cup add
                 /\ known'["prevote"] = known["prevote"]
BY DEF KnownTable, VoteType

\* Votes of others for one ballot come into the open.
LEMMA OthersVote ==
    ASSUME known \in KnownTable, NEW t \in VoteType, NEW r \in Round, NEW b \in Ballot,
           NEW S \in SUBSET (Validator \ {Me}),
           known' = [known EXCEPT ![t] = @ \cup {<<p, r, b>> : p \in S}],
           UNCHANGED <<acked, committed>>
    PROVE  Votes
<1>1. V!Round = Round /\ V!Ballot = Ballot
  BY VotingWords
<1>2. CASE t = "prevote"
  <2>1. V!FaultyPrevote(S, r, b)
    BY <1>2, ShowsVotes DEF V!FaultyPrevote
  <2> QED BY <1>1, <2>1 DEF Votes, V!Next
<1>3. CASE t = "precommit"
  <2>1. V!FaultyPrecommit(S, r, b)
    BY <1>3, ShowsVotes DEF V!FaultyPrecommit
  <2> QED BY <1>1, <2>1 DEF Votes, V!Next
<1> QED BY <1>2, <1>3 DEF VoteType

\* The rule of the lock after a step.
LEMMA NextLocks ==
    ASSUME StandInv(TRUE)', up',
           NEW r0 \in Round, NEW r1 \in Round, NEW v0 \in Value, NEW v1 \in Value, r0 < r1, v0 # v1,
           <<Me, r0, v0>> \in known'["precommit"], <<Me, r1, v1>> \in known'["prevote"]
    PROVE  FreedBy(known', v1, r0, r1)
<1> DEFINE x == Here(TRUE)'
<1>1. Stands(e', x)
  BY DEF StandInv
<1>2. x.known = known' /\ x.ordinary
  BY DEF Here, WorldOf
<1> HIDE DEF x
<1>3. LocksKept(e', x)
  BY <1>1, <1>2 DEF Stands, Sound
<1>4. Precommitted(e', x, r0, v0) /\ Prevoted(e', x, r1, v1)
  BY <1>2 DEF Precommitted, Prevoted
<1>5. Freed(x, v1, r0, r1)
  BY <1>3, <1>4 DEF LocksKept
<1> QED BY <1>2, <1>5 DEF Freed, FreedBy, Cert, Shown

\* A certificate of another round does not see the vote.
LEMMA ShownBefore ==
    ASSUME NEW kn, NEW kx, NEW t, NEW r, NEW b, kx[t] = kn[t] \cup {<<Me, r, b>>},
           NEW s, s # r, NEW v, Shown(kx, t, s, v)
    PROVE  Shown(kn, t, s, v)
BY DEF Shown

\* The node's own prevote comes to stand on the disk.
LEMMA OwnPrevote ==
    ASSUME StandInv(TRUE), StandInv(TRUE)', up, up', NEW r \in Round, NEW b \in Ballot,
           known' = [known EXCEPT !["prevote"] = @ \cup {<<Me, r, b>>}],
           log'["prevote"][r] = b \/ Own(e, "prevote", r) = b,
           UNCHANGED <<acked, committed>>
    PROVE  Votes
<1>1. known \in KnownTable /\ "prevote" \in VoteType /\ Me \in {Me}
  BY NodeTypes DEF StandInv, NodeInv, VoteType
<1>2. /\ known'["prevote"] = known["prevote"] \cup {<<Me, r, b>>}
      /\ known'["precommit"] = known["precommit"]
  BY <1>1, ShowsVotes
<1>3. CASE <<Me, r, b>> \in known["prevote"]
  <2>1. known'["prevote"] = known["prevote"]
    BY <1>2, <1>3
  <2> QED BY <1>2, <2>1 DEF Votes, V!vars
<1>4. CASE <<Me, r, b>> \notin known["prevote"]
  <2>1. ASSUME NEW d \in Ballot, <<Me, r, d>> \in known["prevote"] PROVE FALSE
    <3>1. d # b /\ d # None /\ b # None
      BY <1>4, <2>1, NoneIsNoBallot
    <3>2. CASE log'["prevote"][r] = b
      <4>1. <<Me, r, d>> \in known'["prevote"] /\ OnDisk(known', log', journal')
        BY <1>2, <2>1 DEF StandInv
      <4> QED BY <3>1, <3>2, <4>1 DEF OnDisk
    <3>3. CASE Own(e, "prevote", r) = b
      <4> DEFINE w == Here(TRUE)
      <4>1. Stands(e, w) /\ w.ordinary = TRUE /\ w.known = known
        BY UpStands
      <4> HIDE DEF w
      <4>2. KnownPrevotes(e, w)
        BY <4>1 DEF Stands, Sound
      <4> QED BY <2>1, <3>1, <3>3, <4>1, <4>2 DEF KnownPrevotes
    <3> QED BY <3>2, <3>3
  <2>2. ~V!HasVoted(known["prevote"], Me, r)
    BY <2>1, VotingWords DEF V!HasVoted
  <2>3. ASSUME NEW r0 \in Round, NEW v0 \in Value \ {b}, b # Nil, r0 < r,
               <<Me, r0, v0>> \in known["precommit"]
        PROVE  V!Released(b, r0, r)
    <3>3. b \in Value /\ <<Me, r0, v0>> \in known'["precommit"] /\ <<Me, r, b>> \in known'["prevote"]
      BY <1>2, <2>3 DEF Ballot
    <3>4. FreedBy(known', b, r0, r)
      BY <2>3, <3>3, NextLocks
    <3>5. PICK s \in Round : /\ r0 < s /\ s < r
                             /\ Shown(known', "prevote", s, b) \/ Shown(known', "precommit", s, b)
      BY <3>4 DEF FreedBy
    <3>6. s # r
      BY <3>5 DEF Round
    <3>7. Shown(known', "prevote", s, b) => Shown(known, "prevote", s, b)
      BY <1>2, <3>6, ShownBefore
    <3>8. Shown(known', "precommit", s, b) => Shown(known, "precommit", s, b)
      BY <1>2 DEF Shown
    <3> QED BY <3>5, <3>7, <3>8, VotingWords DEF FreedBy
  <2>4. V!Prevote(Me, r, b)
    BY <1>2, <2>2, <2>3, VotingWords DEF V!Prevote
  <2> QED BY <1>1, <2>4, VotingWords DEF Votes, V!Next
<1> QED BY <1>3, <1>4

\* The node's own precommit comes to stand on the disk, or leaves in a finalize
\* message.
LEMMA OwnPrecommit ==
    ASSUME StandInv(TRUE), StandInv(TRUE)', NEW r \in Round, NEW b \in Ballot,
           known' = [known EXCEPT !["precommit"] = @ \cup {<<Me, r, b>>}],
           UNCHANGED acked, acked => UNCHANGED committed
    PROVE  Votes
<1>1. known \in KnownTable /\ "precommit" \in VoteType /\ Me \in {Me}
  BY NodeTypes DEF StandInv, NodeInv, VoteType
<1>2. /\ known'["precommit"] = known["precommit"] \cup {<<Me, r, b>>}
      /\ known'["prevote"] = known["prevote"]
  BY <1>1, ShowsVotes
<1>3. OnDisk(known', log', journal') /\ b # None
  BY NoneIsNoBallot DEF StandInv
<1>4. CASE <<Me, r, b>> \in known["precommit"]
  <2>1. known'["precommit"] = known["precommit"]
    BY <1>2, <1>4
  <2> QED BY <1>2, <2>1 DEF Votes, V!vars
<1>5. CASE <<Me, r, b>> \notin known["precommit"]
  <2>1. ASSUME NEW d \in Ballot, <<Me, r, d>> \in known["precommit"] PROVE FALSE
    <3>1. d # b /\ d # None
      BY <1>5, <2>1, NoneIsNoBallot
    <3>2. <<Me, r, d>> \in known'["precommit"] /\ <<Me, r, b>> \in known'["precommit"]
      BY <1>2, <2>1
    <3> QED BY <1>3, <3>1, <3>2 DEF OnDisk
  <2>2. ~V!HasVoted(known["precommit"], Me, r)
    BY <2>1, VotingWords DEF V!HasVoted
  <2>3. ASSUME b # Nil PROVE V!Certified(known["prevote"], r, b)
    <3>1. b \in Value /\ <<Me, r, b>> \in known'["precommit"]
      BY <1>2, <2>3 DEF Ballot
    <3>2. journal'[r] # None /\ journal'[r][1] = b
      <4>1. CASE log'["precommit"][r] = b
        BY <3>1, <4>1 DEF StandInv, NodeInv, LogBacked
      <4>2. CASE log'["precommit"][r] # b
        BY <1>3, <3>1, <4>2 DEF OnDisk
      <4> QED BY <4>1, <4>2
    <3>3. Shown(known', "prevote", r, b)
      BY <3>2 DEF StandInv, JournalShown
    <3> QED BY <1>2, <3>3, VotingWords DEF Shown
  <2>4. ASSUME NEW r1 \in Round, NEW v1 \in Value \ {b}, b # Nil, r < r1,
               <<Me, r1, v1>> \in known["prevote"]
        PROVE  V!Released(v1, r, r1)
    <3>1. b \in Value /\ <<Me, r, b>> \in known'["precommit"] /\ <<Me, r1, v1>> \in known'["prevote"]
      BY <1>2, <2>4 DEF Ballot
    <3>2. FreedBy(known', v1, r, r1)
      <4>1. CASE up'
        BY <2>4, <3>1, <4>1, NextLocks
      <4>2. CASE ~up'
        <5>1. DiskLocks(known', journal')
          BY <4>2 DEF StandInv
        <5> QED BY <2>4, <3>1, <5>1 DEF DiskLocks
      <4> QED BY <4>1, <4>2
    <3>3. PICK s \in Round : /\ r < s /\ s < r1
                             /\ Shown(known', "prevote", s, v1) \/ Shown(known', "precommit", s, v1)
      BY <3>2 DEF FreedBy
    <3>4. s # r
      BY <3>3 DEF Round
    <3>5. Shown(known', "precommit", s, v1) => Shown(known, "precommit", s, v1)
      BY <1>2, <3>4, ShownBefore
    <3>6. Shown(known', "prevote", s, v1) => Shown(known, "prevote", s, v1)
      BY <1>2 DEF Shown
    <3> QED BY <3>3, <3>5, <3>6, VotingWords DEF FreedBy
  <2>5. V!Precommit(Me, r, b)
    BY <1>2, <2>2, <2>3, <2>4, VotingWords DEF V!Precommit
  <2> QED BY <1>1, <2>5, VotingWords DEF Votes, V!Next
<1> QED BY <1>4, <1>5

\* A vote of ours is stored, by the node at work or before its restart.
LEMMA OwnVote ==
    ASSUME StandInv(TRUE), StandInv(TRUE)', NEW t \in VoteType, NEW r \in Round, NEW b \in Ballot,
           known' = [known EXCEPT ![t] = @ \cup {<<Me, r, b>>}], log'[t][r] = b,
           t = "prevote" => up /\ up', UNCHANGED <<acked, committed>>
    PROVE  Votes
BY OwnPrevote, OwnPrecommit DEF VoteType

\* saved_vote shows the vote or nothing.
LEMMA SaveVotes ==
    ASSUME ~WriteFails, StandInv(TRUE), StandInv(TRUE)', up, up', NEW vote \in LocalVote, NEW then,
           \/ SaveVote(vote, then)
           \/ KeepVote(vote, then)
           \/ RefuseVote(vote),
           UNCHANGED <<acked, committed>>
    PROVE  Votes
<1>1. /\ vote.type \in VoteType /\ vote.round \in Round /\ vote.ballot \in Ballot
      /\ log \in LogTable
  BY NodeTypes DEF LocalVote, StandInv, NodeInv
<1>2. CASE known' = known
  BY <1>2, QuietVotes
<1>3. CASE KeepVote(vote, then)
  <2>1. /\ known' = [known EXCEPT ![vote.type] = @ \cup {<<Me, vote.round, vote.ballot>>}]
        /\ log' = [log EXCEPT ![vote.type][vote.round] = vote.ballot]
    BY <1>3 DEF KeepVote
  <2>2. log'[vote.type][vote.round] = vote.ballot
    BY <1>1, <2>1 DEF LogTable
  <2> QED BY <1>1, <2>1, <2>2, OwnVote
<1>4. CASE RefuseVote(vote)
  BY <1>2, <1>4 DEF RefuseVote
<1>5. CASE SaveVote(vote, then)
  BY <1>2, <1>3, <1>4, <1>5 DEF SaveVote
<1> QED BY <1>3, <1>4, <1>5

-----------------------------------------------------------------------------
(* The node's steps as steps of the voting *)

\* on_vote counts the vote it is given and no other.
LEMMA ReceiveVoteVotes ==
    ASSUME ~WriteFails, StandInv(TRUE),
           NEW t \in VoteType, NEW r \in Round, NEW p \in Validator, NEW b \in Ballot,
           p = Me => log[t][r] = b, ReceiveVote(t, r, p, b)
    PROVE  Votes
<1>1. PICK can \in CanVote, ready \in SkipReady :
         EngineStepKeepingPolc(OnVote(e, t, r, p, b, can, ready), r)
  BY DEF ReceiveVote
<1> DEFINE en == OnVote(e, t, r, p, b, can, ready)
           add == {<<q, r, b>> : q \in {p} \ {Me}}
           kn == [known EXCEPT ![t] = @ \cup add]
           x == WorldOf(TRUE, kn, log, Pending, Settling)
<1>2. /\ up /\ UNCHANGED <<committed, acked>>
      /\ known' = IF en.votes = e.votes THEN known
                  ELSE [u \in VoteType |-> known[u] \cup Counted(en, u)]
  BY <1>1 DEF EngineStepKeepingPolc, EngineMoves, Running, height
<1>3. known \in KnownTable /\ kn \in KnownTable
  BY NodeTypes DEF StandInv, NodeInv, KnownTable
<1>4. /\ kn[t] = known[t] \cup add
      /\ \A u \in VoteType : u # t => kn[u] = known[u]
  BY <1>3 DEF KnownTable
<1>5. /\ \A u \in VoteType : known[u] \subseteq kn[u]
      /\ \A u \in VoteType, s \in Round, d \in Ballot :
            <<Me, s, d>> \in kn[u] => <<Me, s, d>> \in known[u]
      /\ p # Me => <<p, r, b>> \in kn[t]
  <2>1. \A s, d : <<Me, s, d>> \notin add
    OBVIOUS
  <2>2. p # Me => <<p, r, b>> \in add
    OBVIOUS
  <2> HIDE DEF add, kn
  <2> QED BY <1>4, <2>1, <2>2
<1> HIDE DEF kn
<1>6. Stands(e, x) /\ World(x) /\ x.known = kn /\ x.log = log
  <2>1. x.log = log
    BY DEF WorldOf
  <2> QED BY <1>2, <1>3, <1>5, <2>1, MoreVotes
<1> HIDE DEF x
<1>7. VotesExist(en, x)
  <2>1. Stands(en, x)
    BY <1>5, <1>6, OnVoteStands
  <2> QED BY <2>1 DEF Stands, Backs
<1> HIDE DEF en
<1>8. ASSUME NEW u \in VoteType, NEW y \in Counted(en, u) PROVE y \in kn[u]
  <2>1. y \in (Validator \ {Me}) \X Round \X Ballot /\ en.votes[u][y[2]][y[1]] = y[3]
    BY <1>8 DEF Counted
  <2>2. y[1] \in Validator \ {Me} /\ y[2] \in Round /\ y[3] \in Ballot /\ y[3] # None
        /\ y = <<y[1], y[2], y[3]>>
    BY <2>1, NoneIsNoBallot
  <2> QED BY <1>6, <1>7, <2>1, <2>2 DEF VotesExist
<1>9. CASE known' = known
  BY <1>2, <1>9, QuietVotes
<1>10. CASE known' # known
  <2>1. known' = [u \in VoteType |-> known[u] \cup Counted(en, u)]
    BY <1>2, <1>10
  <2>2. \A u \in VoteType : u # t => known'[u] = known[u]
    BY <1>4, <1>8, <2>1
  <2>3. known'[t] = known[t] \/ known'[t] = known[t] \cup add
    BY <1>4, <1>8, <2>1
  <2>4. known' \in [VoteType -> SUBSET (Validator \X Round \X Ballot)]
    BY <1>3, <2>1 DEF Counted, KnownTable
  <2>5. known'[t] # known[t]
    BY <1>3, <1>10, <2>2, <2>4 DEF KnownTable
  <2>6. known' = [known EXCEPT ![t] = @ \cup add]
    BY <1>3, <2>2, <2>3, <2>4, <2>5 DEF KnownTable
  <2>7. {p} \ {Me} \in SUBSET (Validator \ {Me})
    OBVIOUS
  <2> QED BY <1>2, <1>3, <2>6, <2>7, OthersVote
<1> QED BY <1>9, <1>10

\* A finalize message shows the precommits of its quorum.
LEMMA ReceiveFinalizeVotes ==
    ASSUME StandInv(TRUE), NEW r \in Round, NEW v \in Value, NEW Q \in Quorum,
           ReceiveFinalize(r, v, Q)
    PROVE  Votes
<1> DEFINE S == Q \ {Me}
           add == {<<p, r, v>> : p \in Q}
           others == {<<p, r, v>> : p \in S}
<1>1. /\ Me \in Q => <<Me, r, v>> \in known["precommit"]
      /\ known' = [known EXCEPT !["precommit"] = @ \cup add]
      /\ UNCHANGED <<committed, acked>>
  BY DEF ReceiveFinalize, height
<1>2. known \in KnownTable
  BY NodeTypes DEF StandInv, NodeInv
<1>3. known["precommit"] \cup add = known["precommit"] \cup others
  BY <1>1
<1>4. known' = [known EXCEPT !["precommit"] = @ \cup others]
  <2> HIDE DEF add, others
  <2> QED BY <1>1, <1>3
<1>5. S \in SUBSET (Validator \ {Me}) /\ "precommit" \in VoteType /\ v \in Ballot
  BY EngineAssumption DEF VoteType, Ballot
<1> HIDE DEF S
<1> QED BY <1>1, <1>2, <1>4, <1>5, OthersVote

\* The output actor and the replies save votes.
LEMMA ProcessVoteVotes ==
    ASSUME ~WriteFails, StandInv(TRUE), StandInv(TRUE)', ProcessVote
    PROVE  Votes
<1>1. PICK can \in CanVote :
         /\ up /\ up' /\ e.outputs # <<>> /\ NextOutput.kind = "vote"
         /\ IF VoteRoute(NextOutput, can) = "drop"
            THEN UNCHANGED known
            ELSE SaveVote(NextOutput, VoteRoute(NextOutput, can))
         /\ UNCHANGED <<committed, acked>>
  BY DEF ProcessVote, Running, height
<1>2. NextOutput \in LocalVote
  <2>1. e.outputs \in Seq(Output)
    BY NodeTypes, EngineTypes DEF StandInv, NodeInv
  <2>2. NextOutput \in Output
    BY <1>1, <2>1 DEF NextOutput
  <2> QED BY <1>1, <2>2 DEF Output, LocalVote, FinalizeMessage
<1> QED BY <1>1, <1>2, QuietVotes, SaveVotes

\* A reply shows own votes of the round that the voting rules allow.
LEMMA ReplyVotesVotes ==
    ASSUME ~WriteFails, StandInv(TRUE), StandInv(TRUE)', ReplyVotes
    PROVE  Votes
<1>1. /\ up /\ up' /\ UNCHANGED <<committed, acked>>
      /\ \E t \in VoteType :
            /\ e.votes[t][e.round][Me] # None
            /\ SaveVote(VoteOf(t, e.round, e.votes[t][e.round][Me]), "reply")
  BY DEF ReplyVotes, Running, VoteType, height
<1>2. PICK t \in VoteType :
         /\ e.votes[t][e.round][Me] # None
         /\ SaveVote(VoteOf(t, e.round, e.votes[t][e.round][Me]), "reply")
  BY <1>1
<1>3. e \in EngineState /\ e.round \in Round
  BY NodeTypes, EngineTypes DEF StandInv, NodeInv
<1>4. e.votes[t][e.round][Me] \in Ballot
  BY <1>2, <1>3, EngineTypes DEF Own
<1>5. VoteOf(t, e.round, e.votes[t][e.round][Me]) \in LocalVote
  BY <1>3, <1>4 DEF VoteOf, LocalVote
<1> QED BY <1>1, <1>2, <1>5, SaveVotes

\* A reply for an earlier round shows own votes of that round.
LEMMA ReplyPastVotes ==
    ASSUME ~WriteFails, StandInv(TRUE), StandInv(TRUE)', NEW r \in Round, ReplyPast(r)
    PROVE  Votes
<1>1. up /\ up' /\ UNCHANGED <<committed, acked>>
  BY DEF ReplyPast, Running, height
<1>2. CASE RoundWait
  BY <1>1, <1>2, QuietVotes DEF ReplyPast
<1>3. CASE ~RoundWait
  <2> DEFINE v == e.polc_by_round[r]
  <2>1. v # None /\ SaveVote(VoteOf("prevote", r, v), "reply")
    BY <1>3 DEF ReplyPast
  <2>2. v \in Ballot
    <3>1. e \in EngineState
      BY NodeTypes DEF StandInv, NodeInv
    <3> QED BY <2>1, <3>1 DEF EngineState, Ballot
  <2>3. VoteOf("prevote", r, v) \in LocalVote
    BY <2>2 DEF VoteOf, LocalVote, VoteType
  <2> QED BY <1>1, <2>1, <2>3, SaveVotes
<1> QED BY <1>2, <1>3

-----------------------------------------------------------------------------
\* The save of a precommit reaches the log.
LEMMA FinishSaveVotes ==
    ASSUME ~WriteFails, StandInv(TRUE), StandInv(TRUE)', NEW s \in saving, FinishSave(s)
    PROVE  Votes
<1>1. /\ up /\ up' /\ UNCHANGED <<committed, acked>>
      /\ known' = known \/ KeepVote(s.vote, s.then) \/ RefuseVote(s.vote)
  BY DEF FinishSave, Running, height
<1>2. s.vote \in LocalVote
  BY DEF StandInv, NodeInv, NodeTypeOK, Save
<1> QED BY <1>1, <1>2, QuietVotes, SaveVotes

\* The journal entry shows the prevote behind it.
LEMMA WriteJournalVotes ==
    ASSUME StandInv(TRUE), StandInv(TRUE)', NEW s \in saving, WriteJournal(s)
    PROVE  Votes
<1> DEFINE r == s.vote.round
           b == e.votes["prevote"][r][Me]
           add == {<<Me, r, b>>} \cap ({Me} \X Round \X Ballot)
<1>1. /\ up /\ up' /\ UNCHANGED <<committed, acked>>
      /\ known' = [known EXCEPT !["prevote"] = @ \cup add]
  BY DEF WriteJournal, PutJournal, Running, height
<1>2. r \in Round /\ known \in KnownTable
  BY NodeTypes DEF StandInv, NodeInv, NodeTypeOK, Save, LocalVote
<1>3. CASE b \in Ballot
  <2>1. add = {<<Me, r, b>>} /\ Own(e, "prevote", r) = b
    BY <1>2, <1>3 DEF Own
  <2> HIDE DEF r, b, add
  <2>2. known' = [known EXCEPT !["prevote"] = @ \cup {<<Me, r, b>>}]
    BY <1>1, <2>1
  <2> QED BY <1>1, <1>2, <1>3, <2>1, <2>2, OwnPrevote
<1>4. CASE b \notin Ballot
  <2>1. add = {}
    BY <1>4
  <2> HIDE DEF add
  <2>2. known' = known
    BY <1>1, <1>2, <2>1 DEF KnownTable
  <2> QED BY <1>1, <2>2, QuietVotes
<1> QED BY <1>3, <1>4

\* A finalize message shows our precommit.
LEMMA ShowVotes ==
    ASSUME StandInv(TRUE), StandInv(TRUE)', NEW f \in FinalizeMessage, ShowPrecommit(f),
           UNCHANGED acked, acked => UNCHANGED committed
    PROVE  Votes
<1>1. f.round \in Round /\ f.ballot \in Ballot /\ known \in KnownTable
  BY NodeTypes DEF FinalizeMessage, Ballot, StandInv, NodeInv
<1>2. CASE f.own
  <2>1. known' = [known EXCEPT !["precommit"] = @ \cup {<<Me, f.round, f.ballot>>}]
    BY <1>2 DEF ShowPrecommit
  <2> QED BY <1>1, <2>1, OwnPrecommit
<1>3. CASE ~f.own
  <2>1. known' = known
    BY <1>1, <1>3 DEF ShowPrecommit, KnownTable
  <2> QED BY <2>1, QuietVotes
<1> QED BY <1>2, <1>3

\* A finalize output shows the precommits of its certificate.
LEMMA ProcessFinalizeVotes ==
    ASSUME StandInv(TRUE), StandInv(TRUE)', ProcessFinalize
    PROVE  Votes
<1>1. /\ e.outputs # <<>> /\ NextOutput.kind = "finalize" /\ ShowPrecommit(NextOutput)
      /\ UNCHANGED <<committed, acked>>
  BY DEF ProcessFinalize, height
<1>2. NextOutput \in FinalizeMessage
  <2>1. e.outputs \in Seq(Output)
    BY NodeTypes, EngineTypes DEF StandInv, NodeInv
  <2>2. NextOutput \in Output
    BY <1>1, <2>1 DEF NextOutput
  <2> QED BY <1>1, <2>2 DEF Output, LocalVote, FinalizeMessage
<1> QED BY <1>1, <1>2, ShowVotes

\* Applying a finalized value shows no vote.
LEMMA ApplyFinalizedVotes ==
    ASSUME StandInv(TRUE), StandInv(TRUE)', ApplyFinalized
    PROVE  Votes
<1>1. /\ committed = None /\ e.pending_finalized # None
      /\ ShowPrecommit(e.pending_finalized) /\ UNCHANGED acked
  BY DEF ApplyFinalized, Running
<1>2. e.pending_finalized \in FinalizeMessage
  <2>1. e \in EngineState
    BY NodeTypes DEF StandInv, NodeInv
  <2> QED BY <1>1, <2>1 DEF EngineState
<1>3. ~acked
  BY <1>1 DEF StandInv, CommitShown
<1> QED BY <1>1, <1>2, <1>3, ShowVotes

\* ack_finalized decides a value whose precommits exist.
LEMMA AckFinalizedVotes ==
    ASSUME StandInv(TRUE), AckFinalized
    PROVE  Votes
<1>1. /\ committed # None /\ ~acked /\ acked' /\ UNCHANGED <<known, committed>>
  BY DEF AckFinalized, world
<1>2. /\ committed.round \in Round /\ committed.ballot \in Value
      /\ Shown(known, "precommit", committed.round, committed.ballot)
  BY <1>1 DEF StandInv, CommitShown, FinalizeMessage
<1>3. V!Finalize(committed.round, committed.ballot)
  BY <1>1, <1>2, VotingWords DEF V!Finalize
<1> QED BY <1>2, <1>3, VotingWords DEF Votes, V!Next

\* At boot the vote of a journal entry is stored.
LEMMA RestoreVoteVotes ==
    ASSUME StandInv(TRUE), StandInv(TRUE)', NEW r \in Round, RestoreVote(r)
    PROVE  Votes
<1>1. /\ journal[r] # None /\ UNCHANGED <<committed, acked>>
      /\ known' = [known EXCEPT !["precommit"] = @ \cup {<<Me, r, journal[r][1]>>}]
  BY DEF RestoreVote, height
<1>2. journal[r][1] \in Ballot
  BY <1>1, NodeTypes, EntryTypes DEF StandInv, NodeInv, Ballot
<1> QED BY <1>1, <1>2, OwnPrecommit

\* Every step of a node that does not depart is a step of the voting, or none.
LEMMA VotingStep ==
    ASSUME ~WriteFails, ~Departed', StandInv(TRUE), [NodeNext]_nodeVars
    PROVE  Votes
<1>0. StandInv(TRUE)' /\ NodeInv /\ NodeInv'
  BY StandStep DEF StandInv
<1>1. CASE \E o \in OfferedVotes : ReceiveVote(o[1], o[3], o[2], o[4])
  <2>1. PICK o \in OfferedVotes : ReceiveVote(o[1], o[3], o[2], o[4])
    BY <1>1
  <2>2. o \in VoteType \X (Validator \ {Me}) \X Round \X Ballot
    BY NodeAssumption
  <2>3. o[1] \in VoteType /\ o[2] \in Validator /\ o[2] # Me /\ o[3] \in Round /\ o[4] \in Ballot
    BY <2>2
  <2> QED BY <2>1, <2>3, ReceiveVoteVotes
<1>2. CASE \E vote \in sent : ReceiveVote(vote.type, vote.round, Me, vote.ballot)
  <2>1. PICK vote \in sent : ReceiveVote(vote.type, vote.round, Me, vote.ballot)
    BY <1>2
  <2>2. vote.type \in VoteType /\ vote.round \in Round /\ vote.ballot \in Ballot
    BY <1>0 DEF NodeInv, NodeTypeOK, LocalVote
  <2>3. log[vote.type][vote.round] = vote.ballot /\ Me \in Validator
    BY <1>0, EngineAssumption DEF NodeInv, SentInv
  <2> QED BY <2>1, <2>2, <2>3, ReceiveVoteVotes
<1>3. CASE \E o \in OfferedProposals : ReceiveProposal(o[1], o[2], o[3])
  <2>1. PICK o \in OfferedProposals : ReceiveProposal(o[1], o[2], o[3])
    BY <1>3
  <2>2. o \in Round \X Value \X (Round \cup {NoRound})
    BY NodeAssumption
  <2>3. o[1] \in Round /\ o[2] \in Value /\ o[3] \in Round \cup {NoRound}
    BY <2>2
  <2>4. known' = known
    BY <1>0, <2>1, <2>3, ReceiveProposalStands
  <2>5. UNCHANGED <<committed, acked>>
    BY <2>1 DEF ReceiveProposal, EngineStepKeepingPolc, EngineMoves, height
  <2> QED BY <2>4, <2>5, QuietVotes
<1>4. CASE \E o \in OfferedRounds : ReceiveRoundSync(o[1], o[2])
  BY <1>4, QuietVotes DEF ReceiveRoundSync, world, height
<1>5. CASE \E o \in OfferedFinalizes : ReceiveFinalize(o[1], o[2], o[3])
  <2>1. PICK o \in OfferedFinalizes : ReceiveFinalize(o[1], o[2], o[3])
    BY <1>5
  <2>2. o \in Round \X Value \X Quorum
    BY NodeAssumption
  <2>3. o[1] \in Round /\ o[2] \in Value /\ o[3] \in Quorum
    BY <2>2
  <2> QED BY <2>1, <2>3, ReceiveFinalizeVotes
<1>6. CASE \E step \in Step, r \in 0 .. e.round, g \in 0 .. e.generation :
              Timeout([step |-> step, round |-> r, generation |-> g])
  <2>1. known' = known
    BY <1>0, <1>6, TimeoutStands
  <2>2. UNCHANGED <<committed, acked>>
    BY <1>6 DEF Timeout, EngineStep, EngineMoves, height
  <2> QED BY <2>1, <2>2, QuietVotes
<1>7. CASE \E v \in Value : Propose(v)
  BY <1>7, QuietVotes DEF Propose, world, height
<1>8. CASE RealignProgress
  BY <1>8, QuietVotes DEF RealignProgress, world, height
<1>9. CASE ResetHeight \/ ReopenHeight
  BY <1>0, <1>9, ResetHeightStands, QuietVotes
<1>10. CASE Ready
  BY <1>10, QuietVotes DEF Ready, height
<1>11. CASE ProcessVote
  BY <1>0, <1>11, ProcessVoteVotes
<1>12. CASE ReplyVotes
  BY <1>0, <1>12, ReplyVotesVotes
<1>13. CASE \E r \in Round : ReplyPast(r)
  BY <1>0, <1>13, ReplyPastVotes
<1>14. CASE \E s \in saving : WriteJournal(s) \/ JournalFails(s) \/ FinishSave(s)
  <2>1. PICK s \in saving : WriteJournal(s) \/ JournalFails(s) \/ FinishSave(s)
    BY <1>14
  <2>2. CASE JournalFails(s)
    BY <2>2, QuietVotes DEF JournalFails, height
  <2> QED BY <1>0, <2>1, <2>2, WriteJournalVotes, FinishSaveVotes
<1>15. CASE ProcessFinalize
  BY <1>0, <1>15, ProcessFinalizeVotes
<1>16. CASE ApplyFinalized
  BY <1>0, <1>16, ApplyFinalizedVotes
<1>17. CASE AckFinalized
  BY <1>17, AckFinalizedVotes
<1>18. CASE Crash
  BY <1>18, QuietVotes DEF Crash, world, height
<1>19. CASE \E r \in Round : RestoreVote(r)
  BY <1>0, <1>19, RestoreVoteVotes
<1>20. CASE Restart
  BY <1>20, QuietVotes DEF Restart, world, height
<1>21. CASE Start
  BY <1>21, QuietVotes DEF Start, world, height
<1>22. CASE UNCHANGED nodeVars
  BY <1>22, QuietVotes DEF nodeVars, world, height
<1> QED BY <1>1, <1>2, <1>3, <1>4, <1>5, <1>6, <1>7, <1>8, <1>9, <1>10, <1>11, <1>12, <1>13,
           <1>14, <1>15, <1>16, <1>17, <1>18, <1>19, <1>20, <1>21, <1>22 DEF NodeNext

\* A departure is final: what has been shown stays shown, and a crash forgets only
\* the lost precommits that nobody has seen.
LEMMA DepartedStays ==
    ASSUME NodeInv, [NodeNext]_nodeVars, Departed
    PROVE  Departed'
<1>1. known \in KnownTable
  BY NodeTypes DEF NodeInv
<1>2. ASSUME UNCHANGED <<lost, late>>, known["precommit"] \subseteq known'["precommit"]
      PROVE  Departed'
  BY <1>2 DEF Departed
<1>3. ASSUME NEW en, EngineMoves(en) PROVE Departed'
  <2>1. UNCHANGED <<lost, late>>
    BY <1>3 DEF EngineMoves, bounds, departures
  <2>2. known' = known \/ known' = [t \in VoteType |-> known[t] \cup Counted(en, t)]
    BY <1>3 DEF EngineMoves
  <2>3. known["precommit"] \subseteq known'["precommit"]
    BY <2>2 DEF VoteType
  <2> QED BY <1>2, <2>1, <2>3
<1>4. ASSUME NEW t \in VoteType, NEW add, known' = [known EXCEPT ![t] = @ \cup add]
      PROVE  known["precommit"] \subseteq known'["precommit"]
  BY <1>1, <1>4 DEF KnownTable, VoteType
<1>5. ASSUME UNCHANGED known PROVE known["precommit"] \subseteq known'["precommit"]
  BY <1>5
<1>6. "prevote" \in VoteType /\ "precommit" \in VoteType
  BY DEF VoteType
<1>7. ASSUME NEW vote \in LocalVote, NEW then,
             \/ SaveVote(vote, then)
             \/ KeepVote(vote, then)
             \/ RefuseVote(vote)
      PROVE  known["precommit"] \subseteq known'["precommit"]
  <2>1. vote.type \in VoteType
    BY DEF LocalVote
  <2>2. \/ UNCHANGED known
        \/ known' = [known EXCEPT ![vote.type] = @ \cup {<<Me, vote.round, vote.ballot>>}]
    BY <1>7 DEF SaveVote, KeepVote, RefuseVote
  <2> QED BY <1>4, <1>5, <2>1, <2>2
<1>8. CASE \/ \E o \in OfferedVotes : ReceiveVote(o[1], o[3], o[2], o[4])
           \/ \E vote \in sent : ReceiveVote(vote.type, vote.round, Me, vote.ballot)
           \/ \E o \in OfferedProposals : ReceiveProposal(o[1], o[2], o[3])
           \/ \E step \in Step, r \in 0 .. e.round, g \in 0 .. e.generation :
                 Timeout([step |-> step, round |-> r, generation |-> g])
  <2>1. ASSUME NEW t, NEW r, NEW p, NEW b, ReceiveVote(t, r, p, b) PROVE Departed'
    BY <1>3, <2>1 DEF ReceiveVote, EngineStepKeepingPolc
  <2>2. ASSUME NEW r, NEW v, NEW vr, ReceiveProposal(r, v, vr) PROVE Departed'
    <3>1. PICK valid \in Valid, can \in CanVote, ready \in SkipReady :
             EngineStepKeepingPolc(
                IF r < e.round THEN LearnPastProposal(e, r, v, vr, valid)
                ELSE OnPropose(e, r, v, vr, valid, can, ready), r)
      BY <2>2 DEF ReceiveProposal
    <3> QED BY <1>3, <3>1 DEF EngineStepKeepingPolc
  <2>3. ASSUME NEW t, Timeout(t) PROVE Departed'
    <3>1. PICK can \in CanVote :
             EngineStep(OnTimeout([e EXCEPT !.armed = @ /\ ~TimerCurrent(e, t)], t, can))
      BY <2>3 DEF Timeout
    <3> QED BY <1>3, <3>1 DEF EngineStep
  <2> QED BY <1>8, <2>1, <2>2, <2>3
<1>9. CASE \E o \in OfferedFinalizes : ReceiveFinalize(o[1], o[2], o[3])
  BY <1>2, <1>4, <1>6, <1>9 DEF ReceiveFinalize, bounds, departures
<1>10. CASE \E v \in Value : Propose(v)
  BY <1>10 DEF Propose, world, Departed
<1>11. CASE ResetHeight \/ ReopenHeight
  BY <1>11 DEF ResetHeight, ReopenHeight, RestartHeight, world, Departed
<1>12. CASE ProcessVote
  <2>1. /\ e.outputs # <<>> /\ NextOutput.kind = "vote" /\ UNCHANGED <<lost, late>>
        /\ \/ UNCHANGED known
           \/ \E can \in CanVote : SaveVote(NextOutput, VoteRoute(NextOutput, can))
    BY <1>12 DEF ProcessVote, bounds, departures
  <2>2. NextOutput \in LocalVote
    <3>1. e.outputs \in Seq(Output)
      BY DEF NodeInv, NodeTypeOK, EngineState
    <3>2. NextOutput \in Output
      BY <2>1, <3>1 DEF NextOutput
    <3> QED BY <2>1, <3>2 DEF Output, LocalVote, FinalizeMessage
  <2> QED BY <1>2, <1>5, <1>7, <2>1, <2>2
<1>13. CASE ReplyVotes
  <2>1. PICK t \in VoteType :
           /\ e.votes[t][e.round][Me] # None
           /\ SaveVote(VoteOf(t, e.round, e.votes[t][e.round][Me]), "reply")
    BY <1>13 DEF ReplyVotes, VoteType
  <2>2. e \in EngineState /\ e.round \in Round /\ e.votes[t][e.round][Me] \in Ballot
    BY <2>1, NodeTypes, EngineTypes DEF NodeInv, Own
  <2>3. VoteOf(t, e.round, e.votes[t][e.round][Me]) \in LocalVote
    BY <2>2 DEF VoteOf, LocalVote
  <2> QED BY <1>2, <1>7, <1>13, <2>1, <2>3 DEF ReplyVotes, bounds, departures
<1>14. CASE \E r \in Round : ReplyPast(r)
  <2>1. PICK r \in Round : ReplyPast(r)
    BY <1>14
  <2>2. CASE RoundWait
    BY <1>2, <1>5, <2>1, <2>2 DEF ReplyPast, bounds, departures
  <2>3. CASE ~RoundWait
    <3> DEFINE v == e.polc_by_round[r]
    <3>1. v # None /\ SaveVote(VoteOf("prevote", r, v), "reply") /\ e \in EngineState
      BY <2>1, <2>3, NodeTypes DEF ReplyPast, NodeInv
    <3>2. v \in Ballot
      BY <3>1 DEF EngineState, Ballot
    <3>3. VoteOf("prevote", r, v) \in LocalVote
      BY <3>2 DEF VoteOf, LocalVote, VoteType
    <3> QED BY <1>2, <1>7, <2>1, <3>1, <3>3 DEF ReplyPast, bounds, departures
  <2> QED BY <2>2, <2>3
<1>15. CASE \E s \in saving : WriteJournal(s) \/ JournalFails(s) \/ FinishSave(s)
  <2>1. PICK s \in saving : WriteJournal(s) \/ JournalFails(s) \/ FinishSave(s)
    BY <1>15
  <2>2. s.vote \in LocalVote
    BY DEF NodeInv, NodeTypeOK, Save
  <2>3. CASE WriteJournal(s) \/ JournalFails(s)
    <3>1. PutJournal(s) \/ UNCHANGED known
      BY <2>3 DEF WriteJournal, JournalFails
    <3>2. known["precommit"] \subseteq known'["precommit"]
      BY <1>4, <1>5, <1>6, <3>1 DEF PutJournal
    <3> QED BY <1>2, <2>3, <3>2 DEF WriteJournal, JournalFails, bounds, departures
  <2>4. CASE FinishSave(s)
    BY <1>2, <1>5, <1>7, <2>2, <2>4 DEF FinishSave, bounds, departures
  <2> QED BY <2>1, <2>3, <2>4
<1>16. CASE ProcessFinalize \/ ApplyFinalized
  <2>1. \E f : ShowPrecommit(f)
    BY <1>16 DEF ProcessFinalize, ApplyFinalized
  <2>2. known["precommit"] \subseteq known'["precommit"]
    BY <1>4, <1>6, <2>1 DEF ShowPrecommit
  <2> QED BY <1>2, <1>16, <2>2 DEF ProcessFinalize, ApplyFinalized, bounds, departures
<1>17. CASE Crash
  BY <1>17 DEF Crash, world, Departed
<1>18. CASE \E r \in Round : RestoreVote(r)
  BY <1>2, <1>4, <1>6, <1>18 DEF RestoreVote, bounds, departures
<1>19. CASE \/ \E o \in OfferedRounds : ReceiveRoundSync(o[1], o[2])
            \/ RealignProgress \/ Ready \/ AckFinalized \/ Restart \/ Start
            \/ UNCHANGED nodeVars
  <2>1. UNCHANGED <<lost, late, known>>
    BY <1>19 DEF ReceiveRoundSync, RealignProgress, Ready, AckFinalized, Restart, Start,
                 nodeVars, world, bounds, departures
  <2> QED BY <1>2, <1>5, <2>1
<1> QED BY <1>8, <1>9, <1>10, <1>11, <1>12, <1>13, <1>14, <1>15, <1>16, <1>17, <1>18, <1>19
        DEF NodeNext

\* The node implements the voting rules: the votes it shows, in vote messages,
\* in replies beside the output actor, in finalize messages and by what its
\* records give after a crash, are those of a validator of Voting, for which
\* Agreement is proved.  Writes succeed; the two ways in which the code leaves the
\* rules, a lost precommit that is shown and do_propose after finality, are
\* excepted by the property itself.
THEOREM NodeRefinesVoting ==
    ASSUME ~WriteFails
    PROVE  NodeSpec => VotingSpec
<1>1. NodeInit => StandInv(TRUE)
  BY StandInitially
<1>2. StandInv(TRUE) /\ [NodeNext]_nodeVars /\ ~Departed' => StandInv(TRUE)'
  BY StandStep
<1>3. NodeInit => V!Init
  BY DEF NodeInit, V!Init, VoteType
<1>4. StandInv(TRUE) /\ [NodeNext]_nodeVars
          => [Departed' \/ UNCHANGED V!vars \/ V!Next]_V!vars
  BY VotingStep DEF Votes
<1>5. Departed /\ NodeInv /\ [NodeNext]_nodeVars => Departed'
  BY DepartedStays
<1>6. Departed' => [Departed' \/ UNCHANGED V!vars \/ V!Next]_V!vars
  OBVIOUS
<1> QED BY <1>1, <1>2, <1>3, <1>4, <1>5, <1>6, NodeInvariant, PTL DEF NodeSpec, VotingSpec

\* Each step that keeps to the rules keeps their record: the parts of IInv of
\* Voting.tla for a validator alone against any others.  Two quorums need not
\* share a member here; that is asked of the network (NetworkAgrees).
LEMMA RulesKept ==
    ASSUME V!IInv, [UNCHANGED V!vars \/ V!Next]_V!vars
    PROVE  V!IInv'
<1> USE DEF V!IInv
<1> DEFINE pv == known["prevote"]
           pc == known["precommit"]
           dd == IF acked THEN {<<committed.round, committed.ballot>>} ELSE {}
<1>0. Me \in Validator
  BY EngineAssumption
<1>1. pv \subseteq pv' /\ pc \subseteq pc'
  BY DEF V!Next, V!vars, V!Prevote, V!Precommit, V!FaultyPrevote, V!FaultyPrecommit, V!Finalize
<1>2. \A r, b : V!Certified(pv, r, b) => V!Certified(pv', r, b)
  BY <1>1 DEF V!Certified, V!Voters
<1>3. \A r, b : V!Certified(pc, r, b) => V!Certified(pc', r, b)
  BY <1>1 DEF V!Certified, V!Voters
<1>4. \A v, lo, hi : V!Released(v, lo, hi) => V!Released(v, lo, hi)'
  BY <1>2, <1>3 DEF V!Released
<1>5. ASSUME NEW r \in V!Round, NEW b \in V!Ballot, V!Prevote(Me, r, b)
      PROVE  V!IInv'
  <2>1. pv' = pv \cup {<<Me, r, b>>} /\ pc' = pc /\ dd' = dd
    BY <1>5 DEF V!Prevote
  <2>2. V!TypeOK' /\ V!OneVote'
    BY <1>0, <1>5, <2>1 DEF V!Prevote, V!TypeOK, V!Vote, V!OneVote, V!HasVoted
  <2>3. V!PrecommitBacked' /\ V!DecidedCertified'
    BY <1>2, <1>3, <2>1 DEF V!PrecommitBacked, V!DecidedCertified
  <2>4. V!LockRespected'
    <3> SUFFICES ASSUME NEW t \in V!Round, NEW s \in V!Round, NEW v \in Value, NEW w \in Value,
                        t < s, v # w, <<Me, t, v>> \in pc', <<Me, s, w>> \in pv'
                 PROVE  V!Released(w, t, s)'
      BY DEF V!LockRespected
    <3>1. CASE <<Me, s, w>> \in pv
      <4>1. V!Released(w, t, s)
        BY <2>1, <3>1 DEF V!LockRespected
      <4> QED BY <4>1, <1>4
    <3>2. CASE <<Me, s, w>> \notin pv
      <4>1. s = r /\ w = b /\ <<Me, t, v>> \in pc /\ b # Nil
        BY <2>1, <3>2, EngineAssumption
      <4>2. V!Released(b, t, r)
        BY <1>5, <4>1 DEF V!Prevote
      <4> QED BY <4>1, <4>2, <1>4
    <3> QED BY <3>1, <3>2
  <2> QED BY <2>2, <2>3, <2>4
<1>6. ASSUME NEW r \in V!Round, NEW b \in V!Ballot, V!Precommit(Me, r, b)
      PROVE  V!IInv'
  <2>1. pc' = pc \cup {<<Me, r, b>>} /\ pv' = pv /\ dd' = dd
    BY <1>6 DEF V!Precommit
  <2>2. V!TypeOK' /\ V!OneVote'
    BY <1>0, <1>6, <2>1 DEF V!Precommit, V!TypeOK, V!Vote, V!OneVote, V!HasVoted
  <2>3. V!PrecommitBacked' /\ V!DecidedCertified'
    BY <1>3, <1>6, <2>1, EngineAssumption
       DEF V!Precommit, V!PrecommitBacked, V!DecidedCertified
  <2>4. V!LockRespected'
    <3> SUFFICES ASSUME NEW t \in V!Round, NEW s \in V!Round, NEW v \in Value, NEW w \in Value,
                        t < s, v # w, <<Me, t, v>> \in pc', <<Me, s, w>> \in pv'
                 PROVE  V!Released(w, t, s)'
      BY DEF V!LockRespected
    <3>1. CASE <<Me, t, v>> \in pc
      <4>1. V!Released(w, t, s)
        BY <2>1, <3>1 DEF V!LockRespected
      <4> QED BY <4>1, <1>4
    <3>2. CASE <<Me, t, v>> \notin pc
      <4>1. t = r /\ v = b /\ <<Me, s, w>> \in pv /\ b # Nil
        BY <2>1, <3>2, EngineAssumption
      <4>2. V!Released(w, r, s)
        BY <1>6, <4>1 DEF V!Precommit
      <4> QED BY <4>1, <4>2, <1>4
    <3> QED BY <3>1, <3>2
  <2> QED BY <2>2, <2>3, <2>4
<1>7. ASSUME NEW S \in SUBSET (Validator \ {Me}), NEW r \in V!Round, NEW b \in V!Ballot,
             V!FaultyPrevote(S, r, b) \/ V!FaultyPrecommit(S, r, b)
      PROVE  V!IInv'
  <2>1. V!TypeOK'
    BY <1>7 DEF V!FaultyPrevote, V!FaultyPrecommit, V!TypeOK, V!Vote
  <2>2. /\ \A s, c : <<Me, s, c>> \in pv' <=> <<Me, s, c>> \in pv
        /\ \A s, c : <<Me, s, c>> \in pc' <=> <<Me, s, c>> \in pc
        /\ dd' = dd
    BY <1>7 DEF V!FaultyPrevote, V!FaultyPrecommit
  <2>3. V!OneVote' /\ V!PrecommitBacked' /\ V!DecidedCertified'
    BY <1>2, <1>3, <2>2 DEF V!OneVote, V!PrecommitBacked, V!DecidedCertified
  <2>4. V!LockRespected'
    BY <1>4, <2>2 DEF V!LockRespected
  <2> QED BY <2>1, <2>3, <2>4
<1>8. ASSUME NEW r \in V!Round, NEW v \in Value, V!Finalize(r, v)
      PROVE  V!IInv'
  <2>1. pv' = pv /\ pc' = pc /\ dd' = dd \cup {<<r, v>>} /\ V!Certified(pc, r, v)
    BY <1>8 DEF V!Finalize
  <2>2. V!TypeOK' /\ V!OneVote' /\ V!PrecommitBacked' /\ V!DecidedCertified'
    BY <1>2, <1>3, <2>1 DEF V!TypeOK, V!OneVote, V!PrecommitBacked, V!DecidedCertified
  <2>3. V!LockRespected'
    BY <1>4, <2>1 DEF V!LockRespected
  <2> QED BY <2>2, <2>3
<1>9. CASE UNCHANGED V!vars
  <2>1. pv' = pv /\ pc' = pc /\ dd' = dd
    BY <1>9 DEF V!vars
  <2>2. V!TypeOK' /\ V!OneVote' /\ V!PrecommitBacked' /\ V!DecidedCertified'
    BY <2>1 DEF V!TypeOK, V!OneVote, V!PrecommitBacked, V!DecidedCertified
  <2>3. V!LockRespected'
    BY <1>4, <2>1 DEF V!LockRespected
  <2> QED BY <2>2, <2>3
<1> QED BY <1>5, <1>6, <1>7, <1>8, <1>9 DEF V!Next

\* What a node knows and shows of a height keeps the voting rules in every state,
\* as long as it has not departed and its writes succeed: one vote per round and type, a prevote quorum behind each precommit of a
\* value, locks respected, a precommit quorum behind what it has applied.  For
\* all honest nodes together this gives agreement (NetworkAgrees).
THEOREM NodeKeepsRules ==
    ASSUME ~WriteFails
    PROVE  NodeSpec =>
               [](~Departed =>
                     V!KeepsRules(Me, known["prevote"], known["precommit"],
                              IF acked THEN {<<committed.round, committed.ballot>>} ELSE {}))
<1>1. V!Init => V!IInv
  BY DEF V!Init, V!IInv, V!TypeOK, V!OneVote, V!PrecommitBacked, V!LockRespected,
         V!DecidedCertified
<1>2. V!IInv /\ [Departed' \/ UNCHANGED V!vars \/ V!Next]_V!vars => Departed' \/ V!IInv'
  BY RulesKept
<1>3. NodeSpec => VotingSpec
  BY NodeRefinesVoting
<1>5. Departed /\ NodeInv /\ [NodeNext]_nodeVars => Departed'
  BY DepartedStays
<1>4. V!IInv => V!KeepsRules(Me, known["prevote"], known["precommit"],
                             IF acked THEN {<<committed.round, committed.ballot>>} ELSE {})
  BY DEF V!IInv, V!KeepsRules, V!TypeOK, V!OneVote, V!PrecommitBacked, V!LockRespected,
         V!DecidedCertified, V!Released
<1> QED BY <1>1, <1>2, <1>3, <1>4, <1>5, NodeInvariant, PTL DEF NodeSpec, VotingSpec

-----------------------------------------------------------------------------
(* The timers of the node *)

\* The invariant of the timers.
ClockInv == NodeInv /\ (up => Timed(e))

\* The boot: a stored vote or a journalled lock opens its round, a node without
\* either waits for start.
LEMMA BootTimed ==
    ASSUME NEW lg \in LogTable, NEW jn \in JournalTable, Restored(lg, jn),
           BootInBound(lg, jn)
    PROVE  Timed(Boot(lg, jn))
<1> DEFINE en == RestoredEngine(jn)
           last == Max(Stored(lg))
           saved == [t \in VoteType |-> lg[t][last]]
           target == IF RoundWait THEN last ELSE last + 1
           f == IF target > en.round THEN RealignRound(en, target) ELSE en
<1>1. Boot(lg, jn) =
        IF Stored(lg) = {} THEN en
        ELSE IF RoundWait /\ f.round = last /\ RestorableVotes(f, saved)
        THEN RestoreLocalVotes(f, saved) ELSE f
  BY DEF Boot, ResumeLocalVote, Stored
<1>2. Blank(en)
  BY RestoredBlank DEF Restored, BootInBound
<1>3. Timed(en)
  <2>1. CASE Journalled(jn) = {}
    BY <2>1, InitialTimed DEF RestoredEngine
  <2>2. CASE Journalled(jn) # {}
    <3> DEFINE m == Max(Journalled(jn))
    <3>1. m \in Round /\ jn[m] # None /\ (~RoundWait => m # MaxRound)
      BY <2>2, LastJournalled DEF BootInBound, Journalled
    <3>2. jn[m][1] \in Value /\ jn[m][2] \in Round \cup {NoRound}
      BY <3>1, EntryTypes
    <3>3. en = RestorePrecommitLock(InitialEngine, m, jn[m][1], jn[m][2])
      BY <2>2 DEF RestoredEngine
    <3> HIDE DEF m, en
    <3> QED BY <3>1, <3>2, <3>3, RestoreLockTimed
  <2> QED BY <2>1, <2>2
<1> HIDE DEF en
<1>4. CASE Stored(lg) = {}
  BY <1>1, <1>3, <1>4
<1>5. CASE Stored(lg) # {}
  <2>1. last \in Round /\ \E t \in VoteType : lg[t][last] # None
    BY <1>5, LastStored
  <2> HIDE DEF last
  <2>2. target \in Round
    <3>1. ~RoundWait => last # MaxRound
      BY <2>1 DEF BootInBound
    <3> QED BY <2>1, <3>1, EngineAssumption DEF Round
  <2> HIDE DEF target
  <2>3. en \in EngineState /\ en.step = "propose" /\ (en.pending_finalized # None => en.finalized)
    BY <1>2, <1>3 DEF Blank, Timed, Paused
  <2>4. /\ Timed(RealignRound(en, target)) /\ RealignRound(en, target).step = "propose"
        /\ RealignRound(en, target) \in EngineState
    <3> DEFINE n == en.generation + 1
               g == [en EXCEPT !.generation = n]
    <3>1. n \in Nat /\ RealignRound(en, target) = StartRound(g, target)
      BY <2>3, EngineTypes DEF RealignRound
    <3> HIDE DEF n
    <3>2. g \in EngineState
      BY <2>3, <3>1 DEF EngineState
    <3> HIDE DEF g
    <3>3. StartRound(g, target) \in EngineState
      BY <2>2, <3>2, StartRoundEffect
    <3> QED BY <2>2, <2>3, <3>1, <3>3, RealignRoundTimed
  <2>5. Timed(f) /\ f.step = "propose" /\ f \in EngineState
    BY <1>3, <2>3, <2>4
  <2>6. saved \in [VoteType -> Ballot \cup {None}]
    BY <2>1 DEF LogTable
  <2> HIDE DEF f, saved
  <2>7. Timed(RestoreLocalVotes(f, saved))
    BY <2>5, <2>6, RestoreVotesTimed DEF Timed
  <2> QED BY <1>1, <1>5, <2>5, <2>7
<1> QED BY <1>4, <1>5

\* What a running node knows of its engine.
LEMMA ClockTypes ==
    ASSUME ClockInv, up
    PROVE  /\ Fits(e, log, Pending) /\ log \in LogTable /\ journal \in JournalTable
           /\ e \in EngineState /\ Timed(e)
BY NodeTypes DEF ClockInv, NodeInv, UpInv

\* Messages of the network.
LEMMA MessagesTimed ==
    ASSUME ClockInv
    PROVE  /\ \A t \in VoteType, r \in Round, p \in Validator, b \in Ballot :
                 (p = Me => log[t][r] = b) /\ ReceiveVote(t, r, p, b) => Timed(e')
           /\ \A r \in Round, v \in Value, vr \in Round \cup {NoRound} :
                 ReceiveProposal(r, v, vr) => Timed(e')
           /\ \A r \in Round, p \in Validator : ReceiveRoundSync(r, p) => Timed(e')
           /\ \A r \in Round, v \in Value, Q \in Quorum : ReceiveFinalize(r, v, Q) => Timed(e')
<1>1. ASSUME NEW t \in VoteType, NEW r \in Round, NEW p \in Validator, NEW b \in Ballot,
             p = Me => log[t][r] = b, ReceiveVote(t, r, p, b)
      PROVE  Timed(e')
  <2>1. PICK can \in CanVote, ready \in SkipReady :
           up /\ e' = OnVote(e, t, r, p, b, can, ready)
    BY <1>1 DEF ReceiveVote, EngineStepKeepingPolc, EngineMoves, Running
  <2>2. can \in BOOLEAN
    BY NodeAssumption
  <2> QED BY <1>1, <2>1, <2>2, ClockTypes, OnVoteTimed
<1>2. ASSUME NEW r \in Round, NEW v \in Value, NEW vr \in Round \cup {NoRound},
             ReceiveProposal(r, v, vr)
      PROVE  Timed(e')
  <2>1. PICK valid \in Valid, can \in CanVote, ready \in SkipReady :
           /\ up
           /\ e' = IF r < e.round THEN LearnPastProposal(e, r, v, vr, valid)
                   ELSE OnPropose(e, r, v, vr, valid, can, ready)
    BY <1>2 DEF ReceiveProposal, EngineStepKeepingPolc, EngineMoves, Running
  <2>2. can \in BOOLEAN /\ valid \in BOOLEAN
    BY NodeAssumption
  <2>3. /\ Timed(LearnPastProposal(e, r, v, vr, valid))
        /\ Timed(OnPropose(e, r, v, vr, valid, can, ready))
    BY <2>1, <2>2, ClockTypes, OnProposeTimed
  <2> QED BY <2>1, <2>3
<1>3. ASSUME NEW r \in Round, NEW p \in Validator, ReceiveRoundSync(r, p)
      PROVE  Timed(e')
  <2>1. PICK ready \in SkipReady : up /\ e' = OnRoundSync(e, r, p, ready)
    BY <1>3 DEF ReceiveRoundSync, Running
  <2> QED BY <2>1, ClockTypes, NoteRoundTimed
<1>4. ASSUME NEW r \in Round, NEW v \in Value, NEW Q \in Quorum, ReceiveFinalize(r, v, Q)
      PROVE  Timed(e')
  <2>1. up /\ e' = AcceptFinalizeBatch(e, r, v)
    BY <1>4 DEF ReceiveFinalize, Running
  <2> QED BY <2>1, ClockTypes, AcceptFinalizeTimed
<1> QED BY <1>1, <1>2, <1>3, <1>4

\* Timers and proposals.
LEMMA TimeoutTimed ==
    ASSUME ClockInv, NEW t, Timeout(t)
    PROVE  Timed(e')
<1>1. PICK can \in CanVote :
         /\ TimeoutEndsRound(e, t, can) => e.round < MaxRound
         /\ up /\ e' = OnTimeout(Fired(e, t), t, can)
  BY DEF Timeout, EngineStep, EngineMoves, Running, Fired
<1>2. can \in BOOLEAN
  BY NodeAssumption
<1> QED BY <1>1, <1>2, ClockTypes, OnTimeoutTimed

\* The builder hands a proposal over.
LEMMA ProposeTimed ==
    ASSUME ClockInv, NEW v \in Value, Propose(v)
    PROVE  Timed(e')
<1>1. up /\ e' = DoPropose(e, v) /\ e.step = "propose"
  BY DEF Propose, CanPropose, Running
<1> QED BY <1>1, ClockTypes, DoProposeTimed

\* The watchdog.
LEMMA RealignProgressTimed ==
    ASSUME ClockInv, NodeInv', RealignProgress
    PROVE  Timed(e')
<1>1. PICK ready \in SkipReady : up /\ e' = Realigned(ready) /\ up' = up
  BY DEF RealignProgress, Running
<1>2. e \in EngineState /\ Timed(e) /\ e' \in EngineState
  BY <1>1, ClockTypes DEF NodeInv, NodeTypeOK
<1>3. CASE e' = TryRoundSkip(e, ready)
  BY <1>2, <1>3, TryRoundSkipTimed
<1>4. CASE e' = RealignRound(e, e.round + 1)
  <2>1. e'.round = e.round + 1
    BY <1>2, <1>4, RealignRoundNumber, EngineTypes
  <2>2. e.round + 1 \in Round
    BY <1>2, <2>1, EngineTypes
  <2> QED BY <1>2, <1>4, <2>2, RealignRoundTimed DEF Timed, Paused
<1> QED BY <1>1, <1>3, <1>4 DEF Realigned

\* A height that is begun again or for the first time.
LEMMA ResetHeightTimed ==
    ASSUME ClockInv, ResetHeight \/ ReopenHeight
    PROVE  Timed(e')
<1>1. 0 \in 0 .. Len(e.outputs)
  <2>1. e.outputs \in Seq(Output)
    BY DEF ClockInv, NodeInv, NodeTypeOK, EngineState
  <2> QED BY <2>1
<1>2. PICK k \in 0 .. Len(e.outputs) : RestartHeight(k)
  BY <1>1 DEF ResetHeight, ReopenHeight
<1>3. up
  BY <1>2 DEF RestartHeight, Running
<1>4. Fits(e, log, Pending) /\ log \in LogTable /\ e \in EngineState /\ Timed(e)
  BY <1>3, ClockTypes
<1> DEFINE q == SubSeq(e.outputs, 1, k)
           g == StartSameHeight(e)
<1>5. e' = [g EXCEPT !.outputs = q] /\ ResumeRound(e) \in Round
  BY <1>2, RestartedEngine DEF ClockInv
<1>6. Timed(g) /\ g \in EngineState
  BY <1>4, <1>5, SameHeightTimed, StartSameHeightFits DEF Timed, Paused, Fits
<1> HIDE DEF g, q
<1> QED BY <1>5, <1>6, FieldsStill, StillTimed

\* start.
LEMMA StartTimed ==
    ASSUME ClockInv, Start
    PROVE  Timed(e')
<1>1. up /\ e' = Opened(e, log)
  BY DEF Start, Running
<1>2. Fits(e, log, Pending) /\ log \in LogTable /\ e \in EngineState /\ Timed(e)
  BY <1>1, ClockTypes
<1>3. CASE ~IsPristine(e)
  BY <1>1, <1>2, <1>3 DEF Opened
<1>4. CASE IsPristine(e)
  <2>1. ResumeRound(e) \in Round
    BY <1>2, <1>4, PristineResumes, EngineAssumption DEF Round
  <2> DEFINE f == StartSameHeight(e)
  <2>2. /\ Fits(f, log, Pending)
        /\ \A t \in VoteType, s \in Round : s >= f.round => log[t][s] = None
    BY <1>2, <2>1, StartSameHeightFits
  <2>3. Timed(f)
    BY <1>2, <2>1, SameHeightTimed DEF Timed, Paused
  <2>4. e' = ResumeLocalVote(f, log)
    BY <1>1, <1>4 DEF Opened
  <2> HIDE DEF f
  <2>5. ResumeLocalVote(f, log) = f
    BY <1>2, <2>2, ResumeNothing DEF Fits
  <2> QED BY <2>3, <2>4, <2>5
<1> QED BY <1>3, <1>4

\* The output actor takes an output off the queue.
LEMMA OutputTimed ==
    ASSUME ClockInv, ProcessVote \/ ProcessFinalize
    PROVE  Timed(e')
<1> DEFINE q == Tail(e.outputs)
<1>1. up /\ e' = [e EXCEPT !.outputs = q]
  BY DEF ProcessVote, ProcessFinalize, Running
<1>2. e \in EngineState /\ Timed(e)
  BY <1>1, ClockTypes
<1> HIDE DEF q
<1> QED BY <1>1, <1>2, FieldsStill, StillTimed

\* The pass of the output actor begins.
LEMMA ReadyTimed ==
    ASSUME ClockInv, Ready
    PROVE  Timed(e')
<1>1. PICK can \in CanVote : up /\ e' = OnReady(e, can)
  BY DEF Ready, Running
<1> QED BY <1>1, ClockTypes, OnReadyTimed

\* The process dies and comes back.
LEMMA RestartTimed ==
    ASSUME ClockInv, Restart
    PROVE  Timed(e')
<1>1. ~up /\ e' = Boot(log, journal) /\ \A r \in Journalled(journal) : log["precommit"][r] = journal[r][1]
  BY DEF Restart
<1>2. log \in LogTable /\ journal \in JournalTable
  BY NodeTypes DEF ClockInv, NodeInv
<1>3. BootInBound(log, journal)
  BY <1>1 DEF ClockInv, NodeInv, DownInv
<1>4. Restored(log, journal)
  BY <1>1 DEF ClockInv, NodeInv, LogBacked, Restored, Journalled
<1> QED BY <1>1, <1>2, <1>3, <1>4, BootTimed

\* The first boot.
LEMMA ClockInitially == NodeInit => ClockInv
<1> SUFFICES ASSUME NodeInit PROVE ClockInv
  OBVIOUS
<1>1. NodeInv
  BY NodeInitially
<1>2. NoLog \in LogTable /\ NoJournal \in JournalTable
  BY DEF NoLog, NoJournal, LogTable, JournalTable
<1>3. \A r \in Round : NoJournal[r] = None /\ NoLog["precommit"][r] = None
  BY DEF NoJournal, NoLog, VoteType
<1>4. Restored(NoLog, NoJournal)
  BY <1>3, NoneIsNoBallot DEF Restored
<1>5. BootInBound(NoLog, NoJournal)
  BY EngineAssumption DEF BootInBound, Journalled, NoJournal, NoLog, Round
<1>6. Timed(e)
  BY <1>2, <1>4, <1>5, BootTimed DEF NodeInit
<1> QED BY <1>1, <1>6 DEF ClockInv

\* Every action keeps the timers.
LEMMA ClockStep == ClockInv /\ [NodeNext]_nodeVars => ClockInv'
<1> SUFFICES ASSUME ClockInv, [NodeNext]_nodeVars PROVE ClockInv'
  OBVIOUS
<1>0. NodeInv /\ NodeInv'
  BY NodeStep DEF ClockInv
<1> SUFFICES ASSUME up' PROVE Timed(e')
  BY <1>0 DEF ClockInv
<1>1. CASE \E o \in OfferedVotes : ReceiveVote(o[1], o[3], o[2], o[4])
  <2>1. PICK o \in OfferedVotes : ReceiveVote(o[1], o[3], o[2], o[4])
    BY <1>1
  <2>2. o \in VoteType \X (Validator \ {Me}) \X Round \X Ballot
    BY NodeAssumption
  <2>3. o[1] \in VoteType /\ o[2] \in Validator /\ o[2] # Me /\ o[3] \in Round /\ o[4] \in Ballot
    BY <2>2
  <2> QED BY <2>1, <2>3, MessagesTimed
<1>2. CASE \E vote \in sent : ReceiveVote(vote.type, vote.round, Me, vote.ballot)
  <2>1. PICK vote \in sent : ReceiveVote(vote.type, vote.round, Me, vote.ballot)
    BY <1>2
  <2>2. vote.type \in VoteType /\ vote.round \in Round /\ vote.ballot \in Ballot
    BY <1>0 DEF NodeInv, NodeTypeOK, LocalVote
  <2>3. log[vote.type][vote.round] = vote.ballot /\ Me \in Validator
    BY <1>0, EngineAssumption DEF NodeInv, SentInv
  <2> QED BY <2>1, <2>2, <2>3, MessagesTimed
<1>3. CASE \E o \in OfferedProposals : ReceiveProposal(o[1], o[2], o[3])
  <2>1. PICK o \in OfferedProposals : ReceiveProposal(o[1], o[2], o[3])
    BY <1>3
  <2>2. o \in Round \X Value \X (Round \cup {NoRound})
    BY NodeAssumption
  <2>3. o[1] \in Round /\ o[2] \in Value /\ o[3] \in Round \cup {NoRound}
    BY <2>2
  <2> QED BY <2>1, <2>3, MessagesTimed
<1>4. CASE \E o \in OfferedRounds : ReceiveRoundSync(o[1], o[2])
  <2>1. PICK o \in OfferedRounds : ReceiveRoundSync(o[1], o[2])
    BY <1>4
  <2>2. o \in Round \X (Validator \ {Me})
    BY NodeAssumption
  <2>3. o[1] \in Round /\ o[2] \in Validator
    BY <2>2
  <2> QED BY <2>1, <2>3, MessagesTimed
<1>5. CASE \E o \in OfferedFinalizes : ReceiveFinalize(o[1], o[2], o[3])
  <2>1. PICK o \in OfferedFinalizes : ReceiveFinalize(o[1], o[2], o[3])
    BY <1>5
  <2>2. o \in Round \X Value \X Quorum
    BY NodeAssumption
  <2>3. o[1] \in Round /\ o[2] \in Value /\ o[3] \in Quorum
    BY <2>2
  <2> QED BY <2>1, <2>3, MessagesTimed
<1>6. CASE \E step \in Step, r \in 0 .. e.round, g \in 0 .. e.generation :
              Timeout([step |-> step, round |-> r, generation |-> g])
  BY <1>6, TimeoutTimed
<1>7. CASE (\E v \in Value : Propose(v)) \/ RealignProgress \/ ResetHeight \/ ReopenHeight
  BY <1>0, <1>7, ProposeTimed, RealignProgressTimed, ResetHeightTimed
<1>8. CASE Ready \/ ProcessVote \/ ProcessFinalize
  BY <1>8, ReadyTimed, OutputTimed
<1>9. CASE \/ ReplyVotes \/ (\E r \in Round : ReplyPast(r)) \/ ApplyFinalized \/ AckFinalized
           \/ \E s \in saving : WriteJournal(s) \/ JournalFails(s) \/ FinishSave(s)
  <2>1. e' = e /\ up' = up
    BY <1>9 DEF ReplyVotes, ReplyPast, ApplyFinalized, AckFinalized, WriteJournal, JournalFails,
                FinishSave, volatile
  <2> QED BY <2>1 DEF ClockInv
<1>10. CASE Crash \/ \E r \in Round : RestoreVote(r)
  BY <1>10 DEF Crash, RestoreVote, volatile
<1>11. CASE Restart \/ Start
  BY <1>11, RestartTimed, StartTimed
<1>12. CASE UNCHANGED nodeVars
  BY <1>12 DEF nodeVars, volatile, ClockInv
<1> QED BY <1>1, <1>2, <1>3, <1>4, <1>5, <1>6, <1>7, <1>8, <1>9, <1>10, <1>11, <1>12 DEF NodeNext

\* A node that waits has something to wait for: however votes, proposals, lost
\* and late timers, round skips, failing writes and restarts interleave, no
\* handler of the engine leaves a step of an open height without its timer,
\* unless the code means it to wait for votes or for a decided proposal.
THEOREM NodeNeverStrands == NodeSpec => []NeverStranded
<1>1. ClockInv => NeverStranded
  BY DEF ClockInv, NeverStranded, Running, Timed, TimerHeld, Unopened
<1> QED BY <1>1, ClockInitially, ClockStep, PTL DEF NodeSpec

=============================================================================
