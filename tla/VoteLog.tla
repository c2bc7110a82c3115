------------------------------ MODULE VoteLog -------------------------------
(***************************************************************************)
(* The vote log on its disk (c_vote_log.ml): one file per local vote, a    *)
(* floor below which no vote may be cast, and a round mark. A file is      *)
(* written and synced under another name, appears in the directory, and    *)
(* survives a power loss only once the directory is synced. The directory  *)
(* is made by the first write, and its own entry synced then. The driver   *)
(* (c_driver.ml) keeps votes there before it sends them, raises the floor  *)
(* and prunes when a height is final, and resumes from what it finds.      *)
(*                                                                         *)
(* Any write or sync may fail, the process may die, the power may fail,    *)
(* records may become unreadable, and the ledger may come back behind the  *)
(* head it had (a restored data directory), across several heights.        *)
(* Node.tla uses the log as a write-once table; this module is about why   *)
(* that is right.                                                          *)
(***************************************************************************)
EXTENDS Integers, FiniteSetsExt

CONSTANTS
    MaxHeight,     \* bound on heights
    MaxRound,      \* C_codec.max_round, the last round
    VoteType,      \* prevote, precommit
    Ballot,        \* proposal ids, nil among them
    None,          \* no such file
    Bad,           \* a record that cannot be read
    RoundEpoch,    \* the policy's round_epoch: round_wait from that height on
    SeedRound,     \* the rounds given to the floor tool
    MaxDeaths,     \* bound on deaths of the process and power losses
    MaxFaults      \* bound on failing writes and syncs, records that become
                   \* unreadable and ledgers that come back, together

ASSUME LogAssumption ==
    /\ MaxHeight \in Nat \ {0}
    /\ MaxRound \in Nat
    /\ None \notin Ballot \cup Nat
    /\ Bad \notin Ballot \cup {None}
    /\ RoundEpoch \in Nat
    /\ SeedRound \subseteq 0 .. MaxRound
    /\ MaxDeaths \in Nat
    /\ MaxFaults \in Nat

Height == 1 .. MaxHeight
Round == 0 .. MaxRound
Slot == Height \X Round \X VoteType

\* What a directory holds: a record per slot, the floor and the round mark.
Directory ==
    [votes : [Slot -> Ballot \cup {None, Bad}],
     floor : (0 .. MaxHeight) \cup {None},
     mark : (Height \X Round) \cup {None}]

VARIABLES
    dir,       \* the directory as the process sees it
    disk,      \* the directory as it was when last synced
    root,      \* the directory's own entry: "absent", "made" or "synced"
    head,      \* the finalized head of the ledger
    up,        \* the driver runs
    phase,     \* "run", or where the end of a height or the floor tool stands
    height, round,
    closing,   \* the height that on_finalized has stored and whose end is not
               \* worked off yet, or 0
    mine,      \* the engine's own votes of this round
    issue,     \* vote_log_issue: "none", "hold" or "bootstrap"
    released,  \* votes the log has let go: <<slot, ballot>> (history)
    deaths, faults

files == <<dir, disk, root>>
engine == <<up, phase, height, round, closing, mine, issue>>
logVars == <<files, head, engine, released, deaths, faults>>

NoMine == [t \in VoteType |-> None]

-----------------------------------------------------------------------------
(* Files *)

\* directory, before anything is written: where it is missing it is made and its
\* entry is synced.  An entry that is there is never synced again, even if the
\* one who made it could not.
MakeDirectory(made) ==
    root' \in IF root # "absent" THEN {root}
             ELSE IF made THEN {"synced"} ELSE {"absent", "made"}

\* A change of the directory, synced as old, to new, and its sync.  It may fail
\* before anything is seen, or, torn, when only the sync fails.
Publish(old, new, outcome) ==
    /\ outcome # "ok" => faults < MaxFaults
    /\ faults' = IF outcome = "ok" THEN faults ELSE faults + 1
    /\ dir' = IF outcome = "fail" THEN dir ELSE new
    /\ disk' = IF outcome = "ok" THEN new ELSE old
    /\ MakeDirectory(outcome # "fail")

Outcome == {"ok", "torn", "fail"}

NoWrite == UNCHANGED <<files, faults>>

\* Where another thread may run: not between set_floor and prune.
Awake == up /\ phase \in {"run", "ready", "next"}

\* C_quorum_policy.round_wait.
RoundWait(h) == h >= RoundEpoch

-----------------------------------------------------------------------------
(* A local vote: check, keep *)

\* saved_vote.  The wait for the journal between check and keep is Node.tla's.
\* A record that is there already is compared and not synced again.
SavedVote(t, b) ==
    LET s == <<height, round, t>>
        new == [dir EXCEPT !.votes[s] = b]
    IN  IF issue # "none" THEN NoWrite /\ UNCHANGED <<issue, released>>
        ELSE IF dir.votes[s] \notin {None, b}
        THEN NoWrite /\ issue' = "hold" /\ UNCHANGED released
        ELSE IF dir.votes[s] = b
        THEN NoWrite /\ released' = released \cup {<<s, b>>} /\ UNCHANGED issue
        ELSE \E outcome \in Outcome :
                /\ Publish(disk, new, outcome)
                /\ IF outcome = "ok"
                   THEN released' = released \cup {<<s, b>>} /\ UNCHANGED issue
                   ELSE issue' = "hold" /\ UNCHANGED released

\* The engine casts a vote, the first of its type in the round.
Cast(t, b) ==
    /\ Awake /\ height # closing
    /\ mine[t] = None
    /\ mine' = [mine EXCEPT ![t] = b]
    /\ SavedVote(t, b)
    /\ UNCHANGED <<head, up, phase, height, round, closing, deaths>>

\* It is asked for again, by a peer in this round: until the next height begins.
Resend(t) ==
    /\ Awake
    /\ mine[t] # None
    /\ SavedVote(t, mine[t])
    /\ UNCHANGED <<head, up, phase, height, round, closing, mine, deaths>>

\* round_votes for a peer in an earlier round, under round_wait: the records go
\* out again.
ResendPast(r) ==
    LET stored == {s \in {<<height, r, t>> : t \in VoteType} : dir.votes[s] # None}
        readable == \A s \in stored : dir.votes[s] # Bad
    IN  /\ Awake
        /\ RoundWait(height) /\ issue = "none"
        /\ r < round
        /\ released' = IF readable
              THEN released \cup {<<s, dir.votes[s]>> : s \in stored} ELSE released
        /\ issue' = IF readable THEN issue ELSE "hold"
        /\ UNCHANGED <<files, head, up, phase, height, round, closing, mine, deaths, faults>>

\* The engine leaves its round.
NextRound ==
    /\ Awake /\ height # closing
    /\ round < MaxRound
    /\ round' = round + 1
    /\ mine' = NoMine
    /\ UNCHANGED <<files, head, up, phase, height, closing, issue, released, deaths, faults>>

-----------------------------------------------------------------------------
(* Resume *)

\* Mutant: the records are read and not synced.
SyncDirectoryAbsent == UNCHANGED files

\* max_round syncs the directory before it reads.
SyncDirectory ==
    /\ disk' = dir
    /\ UNCHANGED <<dir, root>>

\* max_round: the rounds with a record, readable or not, and the marked round.
VotedRounds(d, h) ==
    {r \in Round : \E t \in VoteType : d.votes[<<h, r, t>>] # None}
        \cup (IF d.mark # None /\ d.mark[1] = h THEN {d.mark[2]} ELSE {})

\* Mutant: the round limit is forgotten.
ResumedUnlimited(h) ==
    LET voted == VotedRounds(dir, h)
        last == Max(voted)
        stored == [t \in VoteType |-> dir.votes[<<h, last, t>>]]
        at(r, m, hold) == [round |-> r, mine |-> m, hold |-> hold]
    IN  IF voted = {} THEN at(0, NoMine, FALSE)
        ELSE IF ~RoundWait(h) \/ stored = NoMine THEN at(last + 1, NoMine, FALSE)
        ELSE IF \E t \in VoteType : stored[t] = Bad THEN at(0, NoMine, TRUE)
        ELSE at(last, stored, FALSE)

\* resume_local_vote for a height that begins in round 0: the round and the
\* votes with which the engine goes on, or hold.
Resumed(h) ==
    LET voted == VotedRounds(dir, h)
        last == Max(voted)
        stored == [t \in VoteType |-> dir.votes[<<h, last, t>>]]
        at(r, m, hold) == [round |-> r, mine |-> m, hold |-> hold]
    IN  IF voted = {} THEN at(0, NoMine, FALSE)
        ELSE IF last >= MaxRound THEN at(0, NoMine, TRUE)
        ELSE IF ~RoundWait(h) \/ stored = NoMine THEN at(last + 1, NoMine, FALSE)
        ELSE IF \E t \in VoteType : stored[t] = Bad THEN at(0, NoMine, TRUE)
        ELSE at(last, stored, FALSE)

\* Mutant: a node at the floor may vote.
AboveFloorOrAt(h) == dir.floor # None /\ h >= dir.floor

\* require_vote_floor: the height lies above the floor.
AboveFloor(h) == dir.floor # None /\ h > dir.floor

\* prepare_vote_log at the start of the process, behind head h.  Where it fails a
\* validator exits (Store_fault), except that a node without a floor goes on
\* without voting.
Boot(h) ==
    /\ ~up /\ phase = "run"
    /\ h \in 0 .. head
    /\ h + 1 \in Height
    /\ h < head => faults < MaxFaults
    /\ faults' = IF h < head THEN faults + 1 ELSE faults
    /\ head' = h
    /\ ~Resumed(h + 1).hold
    /\ dir.floor # None => AboveFloor(h + 1)
    /\ dir.floor = None => h > 0
    /\ SyncDirectory
    /\ up' = TRUE
    /\ phase' = "run"
    /\ height' = h + 1
    /\ round' = Resumed(h + 1).round
    /\ mine' = Resumed(h + 1).mine
    /\ issue' = IF dir.floor = None THEN "bootstrap" ELSE "none"
    /\ UNCHANGED <<closing, released, deaths>>

\* The first height of the chain: the node sets the floor by itself, and exits
\* when that fails.
BootGenesis ==
    /\ ~up /\ phase = "run"
    /\ head = 0
    /\ dir.floor = None
    /\ ~Resumed(1).hold
    /\ \E outcome \in Outcome :
          /\ Publish(dir, [dir EXCEPT !.floor = 0], outcome)
          /\ up' = (outcome = "ok")
    /\ phase' = "run"
    /\ height' = 1
    /\ round' = Resumed(1).round
    /\ mine' = Resumed(1).mine
    /\ issue' = "none"
    /\ UNCHANGED <<head, closing, released, deaths>>

-----------------------------------------------------------------------------
(* The end of a height *)

\* on_finalized has stored the epoch.
Finalize ==
    /\ up /\ phase = "run"
    /\ head' = height
    /\ closing' = height
    /\ phase' = "floor"
    /\ UNCHANGED <<files, up, height, round, mine, issue, released, deaths, faults>>

\* Mutant: the log is pruned although the floor could not be raised.
SetFloorIgnored ==
    /\ up /\ phase = "floor"
    /\ phase' = "prune"
    /\ \E outcome \in Outcome : Publish(disk, [dir EXCEPT !.floor = height], outcome)
    /\ UNCHANGED <<head, up, height, round, closing, mine, issue, released, deaths>>

\* set_floor.
SetFloor ==
    /\ up /\ phase = "floor"
    /\ IF dir.floor # None /\ dir.floor > height
       THEN NoWrite /\ issue' = "hold" /\ phase' = "next"
       ELSE IF dir.floor = height
       THEN NoWrite /\ phase' = "prune" /\ UNCHANGED issue
       ELSE \E outcome \in Outcome :
               /\ Publish(disk, [dir EXCEPT !.floor = height], outcome)
               /\ IF outcome = "ok" THEN phase' = "prune" /\ UNCHANGED issue
                  ELSE phase' = "next" /\ issue' = "hold"
    /\ UNCHANGED <<head, up, height, round, closing, mine, released, deaths>>

\* The directory without the records S, and without a mark of an old height.
Without(d, S, h) ==
    [d EXCEPT !.votes = [s \in Slot |-> IF s \in S THEN None ELSE d.votes[s]],
              !.mark = IF d.mark # None /\ d.mark[1] < h THEN None ELSE d.mark]

\* prune of the heights before this one, and of a mark among them.  An unlink
\* that raises leaves the rest where it is.
Prune ==
    LET old == {s \in Slot : s[1] < height /\ dir.votes[s] # None}
    IN  /\ up /\ phase = "prune"
        /\ \/ /\ old = {} /\ Without(dir, old, height) = dir
              /\ NoWrite
              /\ phase' = "ready" /\ UNCHANGED issue
           \/ /\ Without(dir, old, height) # dir
              /\ Publish(disk, Without(dir, old, height), "ok")
              /\ phase' = "ready" /\ UNCHANGED issue
           \/ /\ Without(dir, old, height) # dir
              /\ Publish(disk, Without(dir, old, height), "torn")
              /\ issue' = "hold" /\ phase' = "next"
           \/ \E gone \in SUBSET old :
                 /\ gone # old
                 /\ Publish(disk, [dir EXCEPT !.votes =
                       [s \in Slot |-> IF s \in gone THEN None ELSE dir.votes[s]]], "torn")
                 /\ issue' = "hold" /\ phase' = "next"
        /\ UNCHANGED <<head, up, height, round, closing, mine, released, deaths>>

\* start_height and resume_local_vote in a running node.  The engine may refuse
\* the stored votes (restore_local_votes).  Without trouble the issue is left.
EnterHeight(h, left) ==
    /\ height' = h
    /\ \/ \E fits \in BOOLEAN :
             /\ SyncDirectory
             /\ ~fits => Resumed(h).mine # NoMine
             /\ round' = Resumed(h).round
             /\ mine' = IF fits THEN Resumed(h).mine ELSE NoMine
             /\ issue' = IF Resumed(h).hold \/ ~fits THEN "hold" ELSE left
             /\ UNCHANGED faults
       \/ /\ faults < MaxFaults
          /\ faults' = faults + 1
          /\ round' = 0 /\ mine' = NoMine /\ issue' = "hold"
          /\ UNCHANGED files
    /\ UNCHANGED <<up, released, deaths>>

\* The next height begins, even if a catch-up has begun it meanwhile.  A floor that
\* is raised and a log that is pruned clear every issue.
NextHeight ==
    /\ up /\ phase \in {"ready", "next"}
    /\ closing < MaxHeight
    /\ EnterHeight(closing + 1, IF phase = "ready" THEN "none" ELSE issue)
    /\ closing' = 0
    /\ phase' = "run"
    /\ UNCHANGED head

\* catchup_height: the ledger has got the epoch from elsewhere, or on_finalized has
\* just stored it.  The floor stays where it is, and nothing is pruned.
CatchUp ==
    /\ Awake
    /\ height < MaxHeight
    /\ head' = height
    /\ EnterHeight(height + 1, issue)
    /\ UNCHANGED <<closing, phase>>

-----------------------------------------------------------------------------
(* The floor tool and the seed after a join (vote_floor.ml), on a node at rest *)

\* set, up to set_round_mark: the mark is at least the last round with a record.
SeedMark(r) ==
    LET marked == Max({r} \cup VotedRounds(dir, head + 1))
        mark == <<head + 1, marked>>
    IN  /\ ~up
        /\ head > 0 /\ head < MaxHeight
        /\ phase = "run"
        /\ dir.mark # None => dir.mark[1] <= head + 1
        /\ IF dir.mark = mark THEN SyncDirectory /\ UNCHANGED faults /\ phase' = "seed"
           ELSE \E outcome \in Outcome :
                   /\ Publish(dir, [dir EXCEPT !.mark = mark], outcome)
                   /\ phase' = IF outcome = "ok" THEN "seed" ELSE phase
        /\ UNCHANGED <<head, up, height, round, closing, mine, issue, released, deaths>>

\* and then set_floor.
SeedFloor ==
    /\ ~up /\ phase = "seed"
    /\ phase' = "run"
    /\ IF dir.floor # None /\ dir.floor >= head THEN NoWrite
       ELSE \E outcome \in Outcome : Publish(disk, [dir EXCEPT !.floor = head], outcome)
    /\ UNCHANGED <<head, up, height, round, closing, mine, issue, released, deaths>>

-----------------------------------------------------------------------------
(* What happens to the machine *)

Down ==
    /\ up' = FALSE
    /\ phase' = "run"
    /\ mine' = NoMine
    /\ round' = 0
    /\ issue' = "none"
    /\ height' = 1
    /\ closing' = 0

\* The process dies, or stops; what it has written stays.
Die ==
    /\ up \/ phase = "seed"
    /\ deaths < MaxDeaths
    /\ deaths' = deaths + 1
    /\ Down
    /\ UNCHANGED <<files, head, released, faults>>

Empty == [votes |-> [s \in Slot |-> None], floor |-> None, mark |-> None]

\* The power fails: every change since the last sync is there or not, each name
\* by itself.  A directory whose entry was never synced may be gone as a whole: the
\* one loss the code does not provide for, after which the history begins anew.
PowerLoss ==
    /\ deaths < MaxDeaths
    /\ deaths' = deaths + 1
    /\ Down
    /\ \/ /\ \E kept \in SUBSET {s \in Slot : dir.votes[s] # disk.votes[s]},
                floor \in {dir.floor, disk.floor}, mark \in {dir.mark, disk.mark} :
                dir' = [votes |-> [s \in Slot |-> IF s \in kept THEN dir.votes[s]
                                                  ELSE disk.votes[s]],
                        floor |-> floor, mark |-> mark]
          /\ root' = IF root = "made" THEN "synced" ELSE root
          /\ UNCHANGED released
       \/ /\ root = "made"
          /\ dir' = Empty
          /\ root' = "absent"
          /\ released' = {}
    /\ disk' = dir'
    /\ UNCHANGED <<head, faults>>

\* A record becomes unreadable.
Corrupt(s) ==
    /\ phase = "run"
    /\ faults < MaxFaults
    /\ dir.votes[s] \in Ballot
    /\ dir' = [dir EXCEPT !.votes[s] = Bad]
    /\ disk' = [disk EXCEPT !.votes[s] = IF @ = None THEN None ELSE Bad]
    /\ faults' = faults + 1
    /\ UNCHANGED <<root, head, engine, released, deaths>>

-----------------------------------------------------------------------------
\* A node before its first start: at the beginning of the chain, or with a
\* ledger from elsewhere and no vote log yet.
LogInit ==
    /\ dir = Empty
    /\ disk = dir
    /\ root = "absent"
    /\ head \in {0, 1}
    /\ head < MaxHeight
    /\ up = FALSE
    /\ phase = "run"
    /\ height = 1
    /\ round = 0
    /\ closing = 0
    /\ mine = NoMine
    /\ issue = "none"
    /\ released = {}
    /\ deaths = 0 /\ faults = 0

LogNext ==
    \/ \E t \in VoteType, b \in Ballot : Cast(t, b)
    \/ \E t \in VoteType : Resend(t)
    \/ \E r \in Round : ResendPast(r)
    \/ NextRound
    \/ \E h \in 0 .. MaxHeight : Boot(h)
    \/ BootGenesis
    \/ Finalize
    \/ SetFloor
    \/ Prune
    \/ NextHeight
    \/ CatchUp
    \/ \E r \in SeedRound : SeedMark(r)
    \/ SeedFloor
    \/ Die
    \/ PowerLoss
    \/ \E s \in Slot : Corrupt(s)

LogSpec == LogInit /\ [][LogNext]_logVars

-----------------------------------------------------------------------------
(* Properties *)

\* Shapes of the files and of the driver's view of them.
LogTypeOK ==
    /\ dir \in Directory
    /\ disk \in Directory
    /\ root \in {"absent", "made", "synced"} /\ (root = "absent" => dir = Empty)
    /\ head \in 0 .. MaxHeight
    /\ up \in BOOLEAN
    /\ phase \in {"run", "floor", "prune", "ready", "next", "seed"}
    /\ height \in Height
    /\ round \in Round
    /\ closing \in 0 .. MaxHeight
    /\ mine \in [VoteType -> Ballot \cup {None}]
    /\ issue \in {"none", "hold", "bootstrap"}
    /\ released \subseteq Slot \X Ballot

\* The node never lets two different votes of one slot go, whatever fails and
\* however often it starts again (the purpose of the log: keep before send), as
\* long as it does not lose a directory whose maker could not sync its entry.
NeverContradicts ==
    \A v, w \in released : v[1] = w[1] => v[2] = w[2]

\* A vote that has been let go is remembered for as long as it matters: on the
\* synced disk there is its record, perhaps unreadable, or a floor that forbids
\* its height (set_floor before prune, sync before send).
ReleasedIsCovered ==
    \A v \in released :
        \/ disk.votes[v[1]] \in {v[2], Bad}
        \/ disk.floor # None /\ v[1][1] <= disk.floor

\* No vote is let go at or below the floor, not even behind a ledger that has
\* come back older than the log (require_vote_floor), except again to a peer that
\* asks while the finished height is being closed.
VotesAboveFloor ==
    [][\A v \in released' \ released :
          /\ disk.floor # None
          /\ v[1][1] > disk.floor \/ head = v[1][1]]_logVars
=============================================================================
