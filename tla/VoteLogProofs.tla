--------------------------- MODULE VoteLogProofs ----------------------------
(***************************************************************************)
(* The vote log never contradicts itself, for any number of heights,       *)
(* rounds and ballots and any number of faults, deaths and power losses.   *)
(*                                                                         *)
(* CoverInv is the heart: the record of a released vote is in the          *)
(* directory and on the disk, or the synced floor stands in its place.  It *)
(* is inductive only together with who may write: a driver that has no     *)
(* issue sees what is synced (SyncInv), stands above the floor until its   *)
(* height is closed (FloorInv, PhaseInv), and finds the records of its own *)
(* votes (MineInv).                                                        *)
(***************************************************************************)
EXTENDS VoteLog, TLAPS, WellFoundedInduction

\* Where the driver stands: what closing means in every phase.
PhaseInv ==
    /\ ~up => phase \in {"run", "seed"}
    /\ phase = "seed" => ~up
    /\ phase \in {"run", "seed"} => closing = 0
    /\ phase \in {"floor", "prune"} => closing = height
    /\ phase \in {"ready", "next"} => closing \in Height /\ closing <= height
    /\ height = closing => head = height

\* The floor never falls, is synced before the log is pruned, and stays below
\* the height until that is closed.
FloorInv ==
    /\ disk.floor # None => dir.floor # None /\ disk.floor <= dir.floor
    /\ (up /\ phase \in {"run", "floor"} /\ dir.floor # None) => dir.floor < height
    /\ phase = "prune" => dir.floor = closing /\ disk.floor = closing
    /\ phase = "ready" => dir.floor = closing
    /\ (phase = "next" /\ dir.floor # None) => dir.floor <= closing
    /\ (up /\ issue = "none") => dir.floor # None

\* A driver without an issue sees what is synced.
SyncInv ==
    /\ (up /\ issue = "none") => disk = dir
    /\ root = "absent" => dir = Empty /\ disk = Empty

\* It finds the records of its own votes of the round.
MineInv ==
    (up /\ issue = "none") =>
        \A t \in VoteType :
            mine[t] # None => dir.votes[<<height, round, t>>] \in {mine[t], Bad}

\* The records d hold every released vote, or the synced floor covers it.
Recorded(d) ==
    \A v \in released :
        \/ d.votes[v[1]] \in {v[2], Bad}
        \/ d.votes[v[1]] = None /\ disk.floor # None /\ v[1][1] <= disk.floor

CoverInv == Recorded(dir) /\ Recorded(disk)

LogInv ==
    /\ LogTypeOK
    /\ PhaseInv
    /\ FloorInv
    /\ SyncInv
    /\ MineInv
    /\ CoverInv
    /\ NeverContradicts

-----------------------------------------------------------------------------
(* The helpers of the model *)

\* A nonempty set of naturals has a least member.
LEMMA LeastNatural ==
    ASSUME NEW T, T \subseteq Nat, T # {}
    PROVE  \E x \in T : \A y \in T : x <= y
<1> DEFINE R == OpToRel(<, Nat)
<1>1. IsWellFoundedOn(R, Nat)
  BY NatLessThanWellFounded
<1>2. \A x, y \in T : <<y, x>> \in R <=> y < x
  BY DEF OpToRel
<1> HIDE DEF R
<1>3. PICK x \in T : \A y \in T : ~(<<y, x>> \in R)
  BY <1>1, WFMin
<1>4. ASSUME NEW y \in T PROVE x <= y
  <2>1. x \in Nat /\ y \in Nat
    OBVIOUS
  <2>2. ~(y < x)
    BY <1>2, <1>3
  <2> QED BY <2>1, <2>2
<1> QED BY <1>4

\* Max of a nonempty set of rounds is its greatest member.
LEMMA MaxIsGreatest ==
    ASSUME NEW n \in Nat, NEW S, S \subseteq 0 .. n, S # {}
    PROVE  Max(S) \in S /\ \A y \in S : y <= Max(S)
<1> DEFINE T == {k \in Nat : n - k \in S}
<1>1. T \subseteq Nat
  OBVIOUS
<1>2. PICK z \in S : TRUE
  OBVIOUS
<1>3. n - z \in Nat /\ n - (n - z) = z
  BY <1>2
<1>4. n - z \in T
  BY <1>3
<1>5. PICK x \in T : \A y \in T : x <= y
  <2> HIDE DEF T
  <2> QED BY <1>1, <1>4, LeastNatural
<1>6. ASSUME NEW y \in S PROVE n - x >= y
  <2>1. y \in 0 .. n /\ n - y \in Nat /\ n - (n - y) = y
    OBVIOUS
  <2>2. n - y \in T
    BY <2>1
  <2> QED BY <2>1, <2>2, <1>5
<1>7. n - x \in S
  BY <1>5
<1>8. Max(S) \in S /\ \A y \in S : Max(S) >= y
  BY <1>6, <1>7 DEF Max
<1>9. ASSUME NEW y \in S PROVE y <= Max(S)
  BY <1>8
<1> QED BY <1>8, <1>9

\* The slots of the driver's height and round.
LEMMA SlotHere ==
    ASSUME NEW h \in Height, NEW r \in Round, NEW t \in VoteType
    PROVE  <<h, r, t>> \in Slot
BY DEF Slot

\* The parts of a directory.
LEMMA DirectoryParts ==
    ASSUME NEW d \in Directory
    PROVE  /\ d.votes \in [Slot -> Ballot \cup {None, Bad}]
           /\ d.floor \in (0 .. MaxHeight) \cup {None}
           /\ d.mark \in (Height \X Round) \cup {None}
           /\ d = [votes |-> d.votes, floor |-> d.floor, mark |-> d.mark]
BY DEF Directory

\* A directory stays one when a record, the records, the floor or the mark change.
LEMMA DirectoryChanges ==
    ASSUME NEW d \in Directory
    PROVE  /\ \A s \in Slot, b \in Ballot \cup {None, Bad} :
                 [d EXCEPT !.votes[s] = b] \in Directory
           /\ \A w \in [Slot -> Ballot \cup {None, Bad}] :
                 [d EXCEPT !.votes = w] \in Directory
           /\ \A f \in 0 .. MaxHeight : [d EXCEPT !.floor = f] \in Directory
           /\ \A m \in Height \X Round : [d EXCEPT !.mark = m] \in Directory
BY DEF Directory

\* The empty directory is a directory.
LEMMA EmptyIsDirectory == Empty \in Directory
BY DEF Empty, Directory

\* What max_round finds are rounds.
LEMMA VotedRoundsType ==
    ASSUME NEW d \in Directory, NEW h \in Height
    PROVE  VotedRounds(d, h) \subseteq Round
BY DirectoryParts DEF VotedRounds

\* resume_local_vote: the round is one the height has, and the votes taken over
\* are the readable records of that round.
LEMMA ResumedRight ==
    ASSUME dir \in Directory, NEW h \in Height
    PROVE  /\ Resumed(h).round \in Round
           /\ Resumed(h).mine \in [VoteType -> Ballot \cup {None}]
           /\ \A t \in VoteType : Resumed(h).mine[t] # None =>
                 dir.votes[<<h, Resumed(h).round, t>>] = Resumed(h).mine[t]
<1> DEFINE voted == VotedRounds(dir, h)
           last == Max(voted)
           stored == [t \in VoteType |-> dir.votes[<<h, last, t>>]]
<1>1. voted # {} => last \in Round
  <2> HIDE DEF last, voted
  <2>1. voted \subseteq 0 .. MaxRound
    BY VotedRoundsType DEF Round, voted
  <2> QED BY <2>1, MaxIsGreatest, LogAssumption DEF last, Round
<1>2. Resumed(h) =
        IF voted = {} THEN [round |-> 0, mine |-> NoMine, hold |-> FALSE]
        ELSE IF last >= MaxRound THEN [round |-> 0, mine |-> NoMine, hold |-> TRUE]
        ELSE IF ~RoundWait(h) \/ stored = NoMine
        THEN [round |-> last + 1, mine |-> NoMine, hold |-> FALSE]
        ELSE IF \E t \in VoteType : stored[t] = Bad
        THEN [round |-> 0, mine |-> NoMine, hold |-> TRUE]
        ELSE [round |-> last, mine |-> stored, hold |-> FALSE]
  BY DEF Resumed
<1> HIDE DEF last, voted
<1>3. NoMine \in [VoteType -> Ballot \cup {None}] /\ \A t \in VoteType : NoMine[t] = None
  BY DEF NoMine
<1>4. CASE voted = {}
  BY <1>2, <1>3, <1>4, LogAssumption DEF Round
<1>5. CASE voted # {} /\ last >= MaxRound
  BY <1>2, <1>3, <1>5, LogAssumption DEF Round
<1>6. CASE voted # {} /\ ~(last >= MaxRound) /\ (~RoundWait(h) \/ stored = NoMine)
  <2>1. last + 1 \in Round
    BY <1>1, <1>6, LogAssumption DEF Round
  <2>2. Resumed(h) = [round |-> last + 1, mine |-> NoMine, hold |-> FALSE]
    BY <1>2, <1>6
  <2> HIDE DEF stored
  <2> QED BY <2>1, <2>2, <1>3
<1>7. CASE /\ voted # {} /\ ~(last >= MaxRound)
           /\ ~(~RoundWait(h) \/ stored = NoMine)
           /\ \E t \in VoteType : stored[t] = Bad
  <2>1. Resumed(h) = [round |-> 0, mine |-> NoMine, hold |-> TRUE]
    BY <1>2, <1>7
  <2> HIDE DEF stored
  <2> QED BY <2>1, <1>3, LogAssumption DEF Round
<1>8. CASE /\ voted # {} /\ ~(last >= MaxRound)
           /\ ~(~RoundWait(h) \/ stored = NoMine)
           /\ ~\E t \in VoteType : stored[t] = Bad
  <2>1. Resumed(h) = [round |-> last, mine |-> stored, hold |-> FALSE]
    BY <1>2, <1>8
  <2>2. \A t \in VoteType : stored[t] = dir.votes[<<h, last, t>>]
    OBVIOUS
  <2>3. \A t \in VoteType : stored[t] \in Ballot \cup {None}
    BY <1>1, <1>8, <2>2, SlotHere, DirectoryParts
  <2>4. stored \in [VoteType -> Ballot \cup {None}]
    BY <2>3
  <2> HIDE DEF stored
  <2> QED BY <1>1, <1>8, <2>1, <2>2, <2>4
<1> QED BY <1>4, <1>5, <1>6, <1>7, <1>8

-----------------------------------------------------------------------------
(* Votes *)

\* A step that writes nothing and releases nothing.
LEMMA RecordsUntouched ==
    ASSUME CoverInv, NeverContradicts, UNCHANGED <<dir, disk, released>>
    PROVE  CoverInv' /\ NeverContradicts'
BY DEF CoverInv, Recorded, NeverContradicts

\* Above the floor, a slot without a record has never been voted in.
LEMMA FreshSlot ==
    ASSUME LogInv, NEW s \in Slot, dir.votes[s] = None,
           dir.floor # None => dir.floor < s[1]
    PROVE  \A v \in released : v[1] # s
<1> SUFFICES ASSUME NEW v \in released, v[1] = s PROVE FALSE
  OBVIOUS
<1>1. v \in Slot \X Ballot /\ v[2] \in Ballot
  BY DEF LogInv, LogTypeOK
<1>2. dir.votes[s] \notin {v[2], Bad}
  BY <1>1, LogAssumption
<1>3. disk.floor # None /\ s[1] <= disk.floor
  BY <1>2 DEF LogInv, CoverInv, Recorded
<1>4. dir.floor # None /\ disk.floor <= dir.floor
  BY <1>3 DEF LogInv, FloorInv
<1>5. dir.floor \in Nat /\ disk.floor \in Nat /\ s[1] \in Nat
  BY <1>3, <1>4, DirectoryParts, LogAssumption DEF LogInv, LogTypeOK, Slot, Height
<1> QED BY <1>3, <1>4, <1>5

\* saved_vote keeps the invariant, wherever a slot without a record lies above
\* the floor.
LEMMA SavedVoteKeeps ==
    ASSUME LogInv, NEW t \in VoteType, NEW b \in Ballot, up, SavedVote(t, b),
           mine' = [mine EXCEPT ![t] = b],
           UNCHANGED <<head, up, phase, height, round, closing>>,
           (issue = "none" /\ dir.votes[<<height, round, t>>] = None)
               => dir.floor < height
    PROVE  LogInv'
<1> DEFINE s == <<height, round, t>>
           new == [dir EXCEPT !.votes[s] = b]
<1>1. s \in Slot /\ s[1] = height
  BY SlotHere DEF LogInv, LogTypeOK
<1>2. mine' \in [VoteType -> Ballot \cup {None}]
  BY DEF LogInv, LogTypeOK
<1>3. CASE /\ issue # "none" \/ dir.votes[s] \notin {None, b}
           /\ UNCHANGED <<files, released>>
           /\ issue' # "none" /\ issue' \in {"none", "hold", "bootstrap"}
  <2>1. LogTypeOK'
    BY <1>2, <1>3 DEF LogInv, LogTypeOK, files
  <2>2. PhaseInv' /\ FloorInv' /\ SyncInv' /\ MineInv'
    BY <1>3 DEF LogInv, PhaseInv, FloorInv, SyncInv, MineInv, files
  <2>3. CoverInv' /\ NeverContradicts'
    BY <1>3, RecordsUntouched DEF LogInv, files
  <2> QED BY <2>1, <2>2, <2>3 DEF LogInv
<1>4. CASE /\ issue = "none" /\ dir.votes[s] = b
           /\ UNCHANGED <<files, issue>>
           /\ released' = released \cup {<<s, b>>}
  <2>1. LogTypeOK'
    BY <1>1, <1>2, <1>4 DEF LogInv, LogTypeOK, files
  <2>2. PhaseInv' /\ FloorInv' /\ SyncInv'
    BY <1>4 DEF LogInv, PhaseInv, FloorInv, SyncInv, files
  <2>3. MineInv'
    BY <1>4 DEF LogInv, LogTypeOK, MineInv, files
  <2>4. dir' = dir /\ disk' = disk /\ disk = dir
    BY <1>4 DEF LogInv, SyncInv, files
  <2>5. CoverInv'
    BY <1>4, <2>4 DEF LogInv, CoverInv, Recorded
  <2>6. ASSUME NEW v \in released, v[1] = s PROVE v[2] = b
    <3>1. dir.votes[v[1]] \in {v[2], Bad} \/ dir.votes[v[1]] = None
      BY DEF LogInv, CoverInv, Recorded
    <3> QED BY <3>1, <2>6, <1>4, LogAssumption
  <2>7. NeverContradicts'
    BY <1>4, <2>6 DEF LogInv, NeverContradicts
  <2> QED BY <2>1, <2>2, <2>3, <2>5, <2>7 DEF LogInv
<1>5. ASSUME issue = "none", dir.votes[s] = None,
             NEW outcome \in Outcome, Publish(disk, new, outcome),
             IF outcome = "ok"
             THEN released' = released \cup {<<s, b>>} /\ UNCHANGED issue
             ELSE issue' = "hold" /\ UNCHANGED released
      PROVE  LogInv'
  <2> USE <1>5
  <2>1. new \in Directory /\ new.floor = dir.floor /\ new.mark = dir.mark
    BY <1>1, DirectoryChanges, DirectoryParts DEF LogInv, LogTypeOK
  <2>2. new.votes = [dir.votes EXCEPT ![s] = b]
    BY DirectoryParts DEF LogInv, LogTypeOK
  <2>3. disk = dir
    BY DEF LogInv, SyncInv
  <2>4. \A v \in released : v[1] # s
    BY <1>1, FreshSlot
  <2> HIDE DEF new
  <2>5. /\ dir' \in Directory /\ disk' \in Directory
        /\ dir' \in {dir, new} /\ disk' \in {dir, new}
        /\ outcome = "ok" => dir' = new /\ disk' = new
        /\ root' \in {"absent", "made", "synced"}
        /\ root' = "absent" => root = "absent" /\ dir' = dir /\ disk' = disk
    BY <2>1, <2>3 DEF LogInv, LogTypeOK, Publish, MakeDirectory, Outcome
  <2>6. LogTypeOK'
    BY <1>1, <1>2, <2>5 DEF LogInv, LogTypeOK, Outcome
  <2>7. PhaseInv' /\ SyncInv'
    BY <2>5 DEF LogInv, PhaseInv, SyncInv
  <2>8. dir'.floor = dir.floor /\ disk'.floor = dir.floor
    BY <2>1, <2>3, <2>5
  <2>9. FloorInv'
    BY <2>3, <2>8 DEF LogInv, FloorInv
  <2>10. MineInv'
    BY <1>1, <2>2, <2>5, DirectoryParts, SlotHere DEF LogInv, LogTypeOK, MineInv
  <2>11. \A v \in released : new.votes[v[1]] = dir.votes[v[1]]
    BY <1>1, <2>2, <2>4, DirectoryParts DEF LogInv, LogTypeOK
  <2>12. new.votes[s] = b
    BY <1>1, <2>2, DirectoryParts DEF LogInv, LogTypeOK
  <2>13. CoverInv'
    BY <2>3, <2>5, <2>8, <2>11, <2>12 DEF LogInv, CoverInv, Recorded
  <2>14. NeverContradicts'
    BY <2>4 DEF LogInv, NeverContradicts
  <2> QED BY <2>6, <2>7, <2>9, <2>10, <2>13, <2>14 DEF LogInv
<1> QED BY <1>3, <1>4, <1>5 DEF SavedVote, NoWrite, LogInv, LogTypeOK, files

\* The engine casts a vote.
LEMMA CastKeeps ==
    ASSUME LogInv, NEW t \in VoteType, NEW b \in Ballot, Cast(t, b)
    PROVE  LogInv'
<1>1. issue = "none" => dir.floor < height
  <2> SUFFICES ASSUME issue = "none" PROVE dir.floor < height
    OBVIOUS
  <2>1. dir.floor # None
    BY DEF Cast, Awake, LogInv, FloorInv
  <2>2. dir.floor \in Nat /\ height \in Nat /\ closing \in Nat
    BY <2>1, DirectoryParts, LogAssumption DEF LogInv, LogTypeOK, Height
  <2>3. CASE phase = "run"
    BY <2>1, <2>3 DEF Cast, Awake, LogInv, FloorInv
  <2>4. CASE phase \in {"ready", "next"}
    <3>1. dir.floor <= closing
      BY <2>1, <2>2, <2>4 DEF LogInv, FloorInv
    <3>2. closing <= height /\ closing # height
      BY <2>4 DEF Cast, LogInv, PhaseInv
    <3> QED BY <2>2, <3>1, <3>2
  <2> QED BY <2>3, <2>4 DEF Cast, Awake
<1> QED BY <1>1, SavedVoteKeeps DEF Cast, Awake

\* A vote is asked for again: its record is there.
LEMMA ResendKeeps ==
    ASSUME LogInv, NEW t \in VoteType, Resend(t)
    PROVE  LogInv'
<1>1. mine[t] \in Ballot
  BY DEF Resend, LogInv, LogTypeOK
<1>2. mine' = [mine EXCEPT ![t] = mine[t]]
  BY DEF Resend, LogInv, LogTypeOK
<1>3. issue = "none" => dir.votes[<<height, round, t>>] # None
  BY <1>1, LogAssumption DEF Resend, Awake, LogInv, MineInv
<1> QED BY <1>1, <1>2, <1>3, SavedVoteKeeps DEF Resend, Awake

\* The records of an earlier round go out again.
LEMMA ResendPastKeeps ==
    ASSUME LogInv, NEW r \in Round, ResendPast(r)
    PROVE  LogInv'
<1> DEFINE stored == {s \in {<<height, r, t>> : t \in VoteType} : dir.votes[s] # None}
           readable == \A s \in stored : dir.votes[s] # Bad
<1>1. stored \subseteq Slot
  BY SlotHere DEF LogInv, LogTypeOK
<1>2. /\ UNCHANGED <<files, head, up, phase, height, round, closing, mine>>
      /\ up /\ issue = "none"
      /\ issue' = IF readable THEN issue ELSE "hold"
      /\ released' = IF readable
            THEN released \cup {<<s, dir.votes[s]>> : s \in stored} ELSE released
  BY DEF ResendPast, Awake
<1>3. \A s \in stored : dir.votes[s] # None
  OBVIOUS
<1> HIDE DEF stored
<1>4. readable => \A s \in stored : dir.votes[s] \in Ballot
  BY <1>1, <1>3, DirectoryParts DEF LogInv, LogTypeOK
<1>5. dir' = dir /\ disk' = dir
  BY <1>2 DEF LogInv, SyncInv, files
<1>6. LogTypeOK'
  BY <1>1, <1>2, <1>4, <1>5 DEF LogInv, LogTypeOK, files
<1>7. PhaseInv' /\ FloorInv' /\ SyncInv' /\ MineInv'
  BY <1>2, <1>5 DEF LogInv, PhaseInv, FloorInv, SyncInv, MineInv, files
<1>8. CoverInv'
  BY <1>2, <1>5 DEF LogInv, CoverInv, Recorded, SyncInv
<1>9. ASSUME NEW v \in released, v[1] \in stored, readable PROVE v[2] = dir.votes[v[1]]
  BY <1>3, <1>9 DEF LogInv, CoverInv, Recorded
<1>10. NeverContradicts'
  BY <1>2, <1>9 DEF LogInv, NeverContradicts
<1> QED BY <1>6, <1>7, <1>8, <1>10 DEF LogInv

\* The engine leaves its round.
LEMMA NextRoundKeeps ==
    ASSUME LogInv, NextRound
    PROVE  LogInv'
<1>1. LogTypeOK'
  BY LogAssumption DEF NextRound, NoMine, LogInv, LogTypeOK, Round, files
<1>2. PhaseInv' /\ FloorInv' /\ SyncInv' /\ MineInv'
  BY DEF NextRound, NoMine, LogInv, PhaseInv, FloorInv, SyncInv, MineInv, files
<1>3. CoverInv' /\ NeverContradicts'
  BY RecordsUntouched DEF NextRound, LogInv, files
<1> QED BY <1>1, <1>2, <1>3 DEF LogInv

-----------------------------------------------------------------------------
(* Files *)

\* What the directory shows is synced: what was covered stays covered.
LEMMA SyncKeepsCover ==
    ASSUME LogInv, dir' = dir, disk' = dir, UNCHANGED released
    PROVE  CoverInv' /\ NeverContradicts'
<1>1. disk.floor # None => dir.floor # None /\ disk.floor <= dir.floor
  BY DEF LogInv, FloorInv
<1>2. disk.floor # None => disk.floor \in Nat
  BY DirectoryParts, LogAssumption DEF LogInv, LogTypeOK
<1>3. dir.floor # None => dir.floor \in Nat
  BY DirectoryParts, LogAssumption DEF LogInv, LogTypeOK
<1>4. \A v \in released : v[1][1] \in Nat
  BY DEF LogInv, LogTypeOK, Slot, Height
<1>5. Recorded(dir)'
  BY <1>1, <1>2, <1>3, <1>4 DEF LogInv, CoverInv, Recorded
<1> QED BY <1>5 DEF LogInv, CoverInv, Recorded, NeverContradicts

\* A floor that is raised covers what it covered, however the write ends.
LEMMA RaisedFloor ==
    ASSUME LogInv, NEW f \in 0 .. MaxHeight, dir.floor # None => dir.floor <= f,
           NEW old \in {dir, disk}, NEW outcome \in Outcome,
           Publish(old, [dir EXCEPT !.floor = f], outcome),
           UNCHANGED released
    PROVE  /\ dir' \in Directory /\ disk' \in Directory
           /\ dir'.votes = dir.votes
           /\ dir'.floor = IF outcome = "fail" THEN dir.floor ELSE f
           /\ disk'.floor # None => dir'.floor # None /\ disk'.floor <= dir'.floor
           /\ outcome = "ok" => disk' = dir'
           /\ root' \in {"absent", "made", "synced"}
           /\ root' = "absent" => root = "absent" /\ dir' = Empty /\ disk' = Empty
           /\ CoverInv' /\ NeverContradicts'
<1> DEFINE new == [dir EXCEPT !.floor = f]
<1>1. /\ new \in Directory /\ new.votes = dir.votes /\ new.floor = f
  BY DirectoryChanges, DirectoryParts DEF LogInv, LogTypeOK
<1> HIDE DEF new
<1>2. /\ dir' = IF outcome = "fail" THEN dir ELSE new
      /\ disk' = IF outcome = "ok" THEN new ELSE old
      /\ root' \in {"absent", "made", "synced"}
      /\ root' = "absent" => root = "absent" /\ outcome = "fail"
  BY DEF Publish, MakeDirectory, LogInv, LogTypeOK, new
<1>3. /\ disk.floor # None => disk.floor \in Nat
      /\ dir.floor # None => dir.floor \in Nat
      /\ f \in Nat /\ f # None
  BY DirectoryParts, LogAssumption DEF LogInv, LogTypeOK
<1>4. disk.floor # None => dir.floor # None /\ disk.floor <= dir.floor
  BY DEF LogInv, FloorInv
<1>5. /\ dir'.votes = dir.votes
      /\ disk'.votes \in {dir.votes, disk.votes}
      /\ disk'.floor \in {dir.floor, disk.floor, f}
      /\ dir'.floor = IF outcome = "fail" THEN dir.floor ELSE f
      /\ outcome # "ok" => disk'.floor \in {dir.floor, disk.floor}
  BY <1>1, <1>2
<1>6. disk.floor # None => disk'.floor # None /\ disk.floor <= disk'.floor
  BY <1>3, <1>4, <1>5
<1>7. disk'.floor # None => disk'.floor \in Nat
  BY <1>3, <1>5
<1>8. \A v \in released : v[1][1] \in Nat
  BY DEF LogInv, LogTypeOK, Slot, Height
<1>9. CoverInv'
  BY <1>3, <1>5, <1>6, <1>7, <1>8 DEF LogInv, CoverInv, Recorded
<1>10. NeverContradicts'
  BY DEF LogInv, NeverContradicts
<1>11. disk'.floor # None => dir'.floor # None /\ disk'.floor <= dir'.floor
  BY <1>1, <1>2, <1>3, <1>4, <1>5
<1>12. dir' \in Directory /\ disk' \in Directory
  BY <1>1, <1>2 DEF LogInv, LogTypeOK
<1>13. root' = "absent" => root = "absent" /\ dir' = Empty /\ disk' = Empty
  BY <1>2 DEF LogInv, SyncInv, Outcome
<1> QED BY <1>2, <1>5, <1>9, <1>10, <1>11, <1>12, <1>13

-----------------------------------------------------------------------------
(* Starts *)

\* The process starts behind a ledger that may have come back.
LEMMA BootKeeps ==
    ASSUME LogInv, NEW h \in 0 .. MaxHeight, Boot(h)
    PROVE  LogInv'
<1>1. h + 1 \in Height /\ h \in Nat
  BY DEF Boot
<1>2. /\ round' = Resumed(h + 1).round /\ mine' = Resumed(h + 1).mine
      /\ height' = h + 1 /\ head' = h
      /\ dir' = dir /\ disk' = dir /\ root' = root /\ released' = released
      /\ up' = TRUE /\ phase' = "run" /\ closing' = closing
      /\ issue' = IF dir.floor = None THEN "bootstrap" ELSE "none"
      /\ dir.floor # None => h + 1 > dir.floor
      /\ ~up /\ phase = "run"
  BY DEF Boot, SyncDirectory, AboveFloor
<1>3. closing = 0
  BY <1>2 DEF LogInv, PhaseInv
<1>4. LogTypeOK'
  BY <1>1, <1>2, ResumedRight DEF LogInv, LogTypeOK
<1>5. PhaseInv'
  BY <1>1, <1>2, <1>3 DEF PhaseInv
<1>6. FloorInv'
  <2>1. dir.floor # None => dir.floor \in Nat
    BY DirectoryParts, LogAssumption DEF LogInv, LogTypeOK
  <2>2. dir.floor # None => dir.floor < h + 1 /\ dir.floor <= dir.floor
    BY <1>1, <1>2, <2>1
  <2> QED BY <1>2, <2>2 DEF FloorInv
<1>7. SyncInv'
  BY <1>2 DEF LogInv, SyncInv
<1>8. MineInv'
  BY <1>1, <1>2, ResumedRight DEF LogInv, LogTypeOK, MineInv
<1>9. CoverInv' /\ NeverContradicts'
  BY <1>2, SyncKeepsCover
<1> QED BY <1>4, <1>5, <1>6, <1>7, <1>8, <1>9 DEF LogInv

\* The first height of the chain.
LEMMA BootGenesisKeeps ==
    ASSUME LogInv, BootGenesis
    PROVE  LogInv'
<1>1. PICK outcome \in Outcome :
         /\ Publish(dir, [dir EXCEPT !.floor = 0], outcome)
         /\ up' = (outcome = "ok")
  BY DEF BootGenesis
<1>2. /\ round' = Resumed(1).round /\ mine' = Resumed(1).mine
      /\ height' = 1 /\ head' = head /\ head = 0 /\ released' = released
      /\ phase' = "run" /\ closing' = closing /\ issue' = "none"
      /\ dir.floor = None /\ phase = "run"
  BY DEF BootGenesis
<1>3. 0 \in 0 .. MaxHeight /\ 1 \in Height /\ 0 # None
  BY LogAssumption DEF Height
<1>4. closing = 0
  BY <1>2 DEF LogInv, PhaseInv
<1>5. /\ dir' \in Directory /\ disk' \in Directory
      /\ dir'.votes = dir.votes
      /\ dir'.floor = IF outcome = "fail" THEN dir.floor ELSE 0
      /\ disk'.floor # None => dir'.floor # None /\ disk'.floor <= dir'.floor
      /\ outcome = "ok" => disk' = dir'
      /\ root' \in {"absent", "made", "synced"}
      /\ root' = "absent" => root = "absent" /\ dir' = Empty /\ disk' = Empty
      /\ CoverInv' /\ NeverContradicts'
  BY <1>1, <1>2, <1>3, RaisedFloor
<1>6. /\ Resumed(1).round \in Round
      /\ Resumed(1).mine \in [VoteType -> Ballot \cup {None}]
      /\ \A t \in VoteType : Resumed(1).mine[t] # None =>
            dir.votes[<<1, Resumed(1).round, t>>] = Resumed(1).mine[t]
  BY <1>3, ResumedRight DEF LogInv, LogTypeOK
<1>7. LogTypeOK'
  <2>1. up' \in BOOLEAN
    BY <1>1
  <2> QED BY <1>2, <1>3, <1>5, <1>6, <2>1 DEF LogInv, LogTypeOK
<1>8. PhaseInv'
  BY <1>2, <1>3, <1>4 DEF PhaseInv
<1>9. FloorInv' /\ SyncInv'
  <2>1. CASE outcome = "ok"
    BY <1>1, <1>2, <1>3, <1>5, <2>1 DEF FloorInv, SyncInv
  <2>2. CASE outcome # "ok"
    <3>1. up' = FALSE
      BY <1>1, <2>2
    <3> QED BY <1>2, <1>5, <3>1 DEF FloorInv, SyncInv
  <2> QED BY <2>1, <2>2
<1>10. MineInv'
  BY <1>2, <1>5, <1>6 DEF MineInv
<1> QED BY <1>5, <1>7, <1>8, <1>9, <1>10 DEF LogInv

-----------------------------------------------------------------------------
(* The end of a height *)

\* The epoch is stored.
LEMMA FinalizeKeeps ==
    ASSUME LogInv, Finalize
    PROVE  LogInv'
<1>1. LogTypeOK'
  BY LogAssumption DEF Finalize, LogInv, LogTypeOK, Height, files
<1>2. PhaseInv' /\ FloorInv' /\ SyncInv' /\ MineInv'
  BY DEF Finalize, LogInv, PhaseInv, FloorInv, SyncInv, MineInv, files
<1>3. CoverInv' /\ NeverContradicts'
  BY RecordsUntouched DEF Finalize, LogInv, files
<1> QED BY <1>1, <1>2, <1>3 DEF LogInv

\* The floor is raised to the finished height, or every later vote is held.
LEMMA SetFloorKeeps ==
    ASSUME LogInv, SetFloor
    PROVE  LogInv'
<1>1. /\ up /\ phase = "floor" /\ closing = height /\ head = height
      /\ dir.floor # None => dir.floor < height
      /\ UNCHANGED <<head, up, height, round, closing, mine, released>>
  BY DEF SetFloor, LogInv, PhaseInv, FloorInv
<1>2. dir.floor # None => dir.floor \in Nat
  BY DirectoryParts, LogAssumption DEF LogInv, LogTypeOK
<1>3. height \in Nat /\ height \in 0 .. MaxHeight /\ height # None
  BY LogAssumption DEF LogInv, LogTypeOK, Height
<1>4. ~(dir.floor # None /\ dir.floor > height) /\ dir.floor # height
  BY <1>1, <1>2, <1>3
<1>5. PICK outcome \in Outcome :
         /\ Publish(disk, [dir EXCEPT !.floor = height], outcome)
         /\ IF outcome = "ok" THEN phase' = "prune" /\ UNCHANGED issue
            ELSE phase' = "next" /\ issue' = "hold"
  BY <1>4 DEF SetFloor
<1>6. dir.floor # None => dir.floor <= height
  BY <1>1, <1>2, <1>3
<1>7. /\ dir' \in Directory /\ disk' \in Directory
      /\ dir'.votes = dir.votes
      /\ dir'.floor = IF outcome = "fail" THEN dir.floor ELSE height
      /\ disk'.floor # None => dir'.floor # None /\ disk'.floor <= dir'.floor
      /\ outcome = "ok" => disk' = dir'
      /\ root' \in {"absent", "made", "synced"}
      /\ root' = "absent" => root = "absent" /\ dir' = Empty /\ disk' = Empty
      /\ CoverInv' /\ NeverContradicts'
  BY <1>1, <1>3, <1>5, <1>6, RaisedFloor
<1>8. LogTypeOK'
  BY <1>1, <1>5, <1>7 DEF LogInv, LogTypeOK
<1>9. PhaseInv'
  BY <1>1, <1>3, <1>5 DEF LogInv, LogTypeOK, PhaseInv
<1>10. dir'.floor # None => dir'.floor <= height
  BY <1>3, <1>6, <1>7
<1>11. FloorInv' /\ SyncInv' /\ MineInv'
  BY <1>1, <1>3, <1>5, <1>7, <1>10 DEF LogInv, FloorInv, SyncInv, MineInv, Outcome
<1> QED BY <1>7, <1>8, <1>9, <1>11 DEF LogInv

\* A log without some of its old records, and perhaps without its mark.
LEMMA PrunedDirectory ==
    ASSUME NEW d \in Directory, NEW S \in SUBSET Slot, NEW h \in Height
    PROVE  /\ Without(d, S, h) \in Directory
           /\ Without(d, S, h).floor = d.floor
           /\ \A s \in Slot : Without(d, S, h).votes[s] =
                 IF s \in S THEN None ELSE d.votes[s]
<1> DEFINE w == [s \in Slot |-> IF s \in S THEN None ELSE d.votes[s]]
           m == IF d.mark # None /\ d.mark[1] < h THEN None ELSE d.mark
<1>1. w \in [Slot -> Ballot \cup {None, Bad}]
  BY DirectoryParts
<1>2. m \in (Height \X Round) \cup {None}
  BY DirectoryParts
<1>3. Without(d, S, h) = [d EXCEPT !.votes = w, !.mark = m]
  BY DEF Without
<1>4. \A s \in Slot : w[s] = IF s \in S THEN None ELSE d.votes[s]
  OBVIOUS
<1> HIDE DEF w, m
<1>5. Without(d, S, h) = [votes |-> w, floor |-> d.floor, mark |-> m]
  BY <1>3, DirectoryParts DEF Directory
<1> QED BY <1>1, <1>2, <1>4, <1>5, DirectoryParts DEF Directory

\* Removing records below a synced floor.
LEMMA PruningKeeps ==
    ASSUME LogInv, up, phase = "prune", NEW new \in Directory,
           new.floor = dir.floor,
           \A s \in Slot : \/ new.votes[s] = dir.votes[s]
                           \/ new.votes[s] = None /\ s[1] < height,
           NEW outcome \in {"ok", "torn"}, Publish(disk, new, outcome),
           IF outcome = "ok" THEN phase' = "ready" /\ UNCHANGED issue
           ELSE phase' = "next" /\ issue' = "hold",
           UNCHANGED <<head, up, height, round, closing, mine, released>>
    PROVE  LogInv'
<1>1. /\ closing = height /\ head = height
      /\ dir.floor = height /\ disk.floor = height
  BY DEF LogInv, PhaseInv, FloorInv
<1>2. /\ dir' = new
      /\ disk' = IF outcome = "ok" THEN new ELSE disk
      /\ root' \in {"made", "synced"}
  BY DEF Publish, MakeDirectory, LogInv, LogTypeOK
<1>3. height \in Nat /\ height \in Height /\ height # None
  BY LogAssumption DEF LogInv, LogTypeOK, Height
<1>4. LogTypeOK'
  BY <1>2, <1>3 DEF LogInv, LogTypeOK
<1>5. PhaseInv' /\ FloorInv' /\ SyncInv'
  BY <1>1, <1>2, <1>3 DEF PhaseInv, FloorInv, SyncInv, LogInv
<1>6. MineInv'
  <2>1. ASSUME NEW t \in VoteType
        PROVE  new.votes[<<height, round, t>>] = dir.votes[<<height, round, t>>]
    <3>1. <<height, round, t>> \in Slot /\ <<height, round, t>>[1] = height
      BY SlotHere DEF LogInv, LogTypeOK
    <3> QED BY <3>1, <1>3
  <2> QED BY <1>2, <2>1 DEF LogInv, MineInv
<1>7. \A v \in released : v[1] \in Slot /\ v[1][1] \in Nat
  BY DEF LogInv, LogTypeOK, Slot, Height
<1>8. \A v \in released : \/ new.votes[v[1]] = dir.votes[v[1]]
                          \/ new.votes[v[1]] = None /\ v[1][1] <= height
  BY <1>3, <1>7
<1>9. CoverInv'
  BY <1>1, <1>2, <1>3, <1>8 DEF LogInv, CoverInv, Recorded
<1>10. NeverContradicts'
  BY DEF LogInv, NeverContradicts
<1> QED BY <1>4, <1>5, <1>6, <1>9, <1>10 DEF LogInv

\* prune, whether it ends, fails to sync or stops half way.
LEMMA PruneKeeps ==
    ASSUME LogInv, Prune
    PROVE  LogInv'
<1> DEFINE old == {s \in Slot : s[1] < height /\ dir.votes[s] # None}
           all == Without(dir, old, height)
           part(gone) == [dir EXCEPT !.votes =
              [s \in Slot |-> IF s \in gone THEN None ELSE dir.votes[s]]]
<1>1. /\ up /\ phase = "prune"
      /\ UNCHANGED <<head, up, height, round, closing, mine, released>>
      /\ dir \in Directory /\ height \in Height
  BY DEF Prune, LogInv, LogTypeOK
<1>2. old \subseteq Slot /\ \A s \in old : s[1] < height
  OBVIOUS
<1>3. \/ NoWrite /\ phase' = "ready" /\ UNCHANGED issue
      \/ Publish(disk, all, "ok") /\ phase' = "ready" /\ UNCHANGED issue
      \/ Publish(disk, all, "torn") /\ issue' = "hold" /\ phase' = "next"
      \/ \E gone \in SUBSET old :
            Publish(disk, part(gone), "torn") /\ issue' = "hold" /\ phase' = "next"
  BY DEF Prune
<1> HIDE DEF old
<1>4. /\ all \in Directory /\ all.floor = dir.floor
      /\ \A s \in Slot : \/ all.votes[s] = dir.votes[s]
                         \/ all.votes[s] = None /\ s[1] < height
  BY <1>1, <1>2, PrunedDirectory
<1> HIDE DEF all
<1>5. CASE NoWrite /\ phase' = "ready" /\ UNCHANGED issue
  <2>1. closing = height /\ height \in Nat /\ UNCHANGED <<dir, disk, root>>
    BY <1>1, <1>5 DEF LogInv, PhaseInv, Height, NoWrite, files
  <2>2. LogTypeOK' /\ PhaseInv' /\ FloorInv' /\ SyncInv' /\ MineInv'
    BY <1>1, <1>5, <2>1 DEF LogInv, LogTypeOK, PhaseInv, FloorInv, SyncInv, MineInv
  <2>3. CoverInv' /\ NeverContradicts'
    BY <1>1, <2>1, RecordsUntouched DEF LogInv
  <2> QED BY <2>2, <2>3 DEF LogInv
<1>6. CASE Publish(disk, all, "ok") /\ phase' = "ready" /\ UNCHANGED issue
  BY <1>1, <1>4, <1>6, PruningKeeps
<1>7. CASE Publish(disk, all, "torn") /\ issue' = "hold" /\ phase' = "next"
  BY <1>1, <1>4, <1>7, PruningKeeps
<1>8. ASSUME NEW gone \in SUBSET old,
             Publish(disk, part(gone), "torn"), issue' = "hold", phase' = "next"
      PROVE  LogInv'
  <2> DEFINE w == [s \in Slot |-> IF s \in gone THEN None ELSE dir.votes[s]]
  <2>1. w \in [Slot -> Ballot \cup {None, Bad}]
    BY <1>1, DirectoryParts
  <2>2. ASSUME NEW s \in Slot
        PROVE  w[s] = dir.votes[s] \/ (w[s] = None /\ s[1] < height)
    <3>1. s \in gone => s[1] < height
      BY <1>2
    <3> QED BY <3>1
  <2>3. part(gone) = [dir EXCEPT !.votes = w]
    OBVIOUS
  <2> HIDE DEF w, part
  <2>4. part(gone) = [votes |-> w, floor |-> dir.floor, mark |-> dir.mark]
    BY <1>1, <2>3, DirectoryParts DEF Directory
  <2>5. part(gone) \in Directory
    BY <1>1, <2>1, <2>3, DirectoryChanges
  <2> QED BY <1>1, <1>8, <2>2, <2>4, <2>5, PruningKeeps
<1> QED BY <1>3, <1>5, <1>6, <1>7, <1>8

\* A height begins in a running node, with every record synced or the votes held.
LEMMA EnterHeightKeeps ==
    ASSUME LogInv, up, NEW h \in Height, NEW left \in {"none", "hold", "bootstrap"},
           EnterHeight(h, left),
           head' \in 0 .. MaxHeight, closing' \in 0 .. MaxHeight,
           phase' \in {"run", "ready", "next"},
           PhaseInv',
           phase' = "run" /\ dir.floor # None => dir.floor < h,
           phase' = "ready" => dir.floor = closing',
           phase' = "next" /\ dir.floor # None => dir.floor <= closing',
           left = "none" => dir.floor # None
    PROVE  LogInv'
<1>1. height' = h /\ up' = up /\ released' = released
  BY DEF EnterHeight
<1>2. /\ dir' = dir /\ root' = root /\ disk' \in {disk, dir}
      /\ disk' = dir \/ issue' = "hold"
      /\ issue' \in {left, "hold"}
      /\ \/ round' = Resumed(h).round /\ mine' \in {Resumed(h).mine, NoMine}
         \/ round' = 0 /\ mine' = NoMine
  <2>1. CASE \E fits \in BOOLEAN :
               /\ SyncDirectory
               /\ round' = Resumed(h).round
               /\ mine' = IF fits THEN Resumed(h).mine ELSE NoMine
               /\ issue' = IF Resumed(h).hold \/ ~fits THEN "hold" ELSE left
    BY <2>1 DEF SyncDirectory
  <2>2. CASE round' = 0 /\ mine' = NoMine /\ issue' = "hold" /\ UNCHANGED files
    BY <2>2 DEF files
  <2> QED BY <2>1, <2>2 DEF EnterHeight
<1>3. /\ Resumed(h).round \in Round
      /\ Resumed(h).mine \in [VoteType -> Ballot \cup {None}]
      /\ \A t \in VoteType : Resumed(h).mine[t] # None =>
            dir.votes[<<h, Resumed(h).round, t>>] = Resumed(h).mine[t]
  BY ResumedRight DEF LogInv, LogTypeOK
<1>4. NoMine \in [VoteType -> Ballot \cup {None}] /\ \A t \in VoteType : NoMine[t] = None
  BY DEF NoMine
<1>5. LogTypeOK'
  BY <1>1, <1>2, <1>3, <1>4, LogAssumption DEF LogInv, LogTypeOK, Round
<1>6. FloorInv'
  <2>1. dir.floor # None => dir.floor \in Nat /\ dir.floor <= dir.floor
    BY DirectoryParts, LogAssumption DEF LogInv, LogTypeOK
  <2>2. disk'.floor # None => dir'.floor # None /\ disk'.floor <= dir'.floor
    BY <1>2, <2>1 DEF LogInv, FloorInv
  <2> QED BY <1>1, <1>2, <2>2 DEF FloorInv
<1>7. SyncInv'
  BY <1>1, <1>2 DEF LogInv, SyncInv
<1>8. MineInv'
  BY <1>1, <1>2, <1>3, <1>4 DEF MineInv
<1>9. CoverInv' /\ NeverContradicts'
  BY <1>1, <1>2, SyncKeepsCover, RecordsUntouched DEF LogInv
<1> QED BY <1>5, <1>6, <1>7, <1>8, <1>9 DEF LogInv

\* The height after the one that was closed.
LEMMA NextHeightKeeps ==
    ASSUME LogInv, NextHeight
    PROVE  LogInv'
<1> DEFINE left == IF phase = "ready" THEN "none" ELSE issue
<1>1. /\ up /\ phase \in {"ready", "next"} /\ closing < MaxHeight
      /\ EnterHeight(closing + 1, left)
      /\ closing' = 0 /\ phase' = "run" /\ head' = head
  BY DEF NextHeight
<1>2. closing \in Height /\ closing + 1 \in Height /\ closing # None /\ closing \in Nat
  BY <1>1, LogAssumption DEF LogInv, PhaseInv, Height
<1>3. left \in {"none", "hold", "bootstrap"}
  BY DEF LogInv, LogTypeOK
<1>4. dir.floor # None => dir.floor < closing + 1
  <2>1. dir.floor # None => dir.floor \in Nat
    BY DirectoryParts, LogAssumption DEF LogInv, LogTypeOK
  <2> QED BY <1>1, <1>2, <2>1 DEF LogInv, FloorInv
<1>5. left = "none" => dir.floor # None
  BY <1>1, <1>2 DEF LogInv, FloorInv
<1>6. PhaseInv'
  <2>1. height' = closing + 1 /\ up' = up
    BY <1>1 DEF EnterHeight
  <2> QED BY <1>1, <1>2, <2>1 DEF PhaseInv
<1>7. head' \in 0 .. MaxHeight /\ closing' \in 0 .. MaxHeight
  BY <1>1, LogAssumption DEF LogInv, LogTypeOK
<1> HIDE DEF left
<1> QED BY <1>1, <1>2, <1>3, <1>4, <1>5, <1>6, <1>7, EnterHeightKeeps

\* The height is overtaken by a catch-up.
LEMMA CatchUpKeeps ==
    ASSUME LogInv, CatchUp
    PROVE  LogInv'
<1>1. /\ up /\ phase \in {"run", "ready", "next"} /\ height < MaxHeight
      /\ EnterHeight(height + 1, issue)
      /\ closing' = closing /\ phase' = phase /\ head' = height
  BY DEF CatchUp, Awake
<1>2. height \in Nat /\ height + 1 \in Height /\ height \in 0 .. MaxHeight
  BY <1>1, LogAssumption DEF LogInv, LogTypeOK, Height
<1>3. dir.floor # None => dir.floor \in Nat
  BY DirectoryParts, LogAssumption DEF LogInv, LogTypeOK
<1>4. phase = "run" /\ dir.floor # None => dir.floor < height + 1
  BY <1>1, <1>2, <1>3 DEF LogInv, FloorInv
<1>5. PhaseInv'
  <2>1. height' = height + 1 /\ up' = up
    BY <1>1 DEF EnterHeight
  <2>2. phase \in {"ready", "next"} => closing \in Nat
    BY DEF LogInv, PhaseInv, Height
  <2> QED BY <1>1, <1>2, <2>1, <2>2 DEF LogInv, PhaseInv
<1>6. issue \in {"none", "hold", "bootstrap"} /\ closing \in 0 .. MaxHeight
  BY DEF LogInv, LogTypeOK
<1>7. /\ phase = "ready" => dir.floor = closing
      /\ phase = "next" /\ dir.floor # None => dir.floor <= closing
      /\ issue = "none" => dir.floor # None
  BY <1>1 DEF LogInv, FloorInv
<1> QED BY <1>1, <1>2, <1>4, <1>5, <1>6, <1>7, EnterHeightKeeps

-----------------------------------------------------------------------------
(* The floor tool *)

\* The round mark of the tool.
LEMMA SeedMarkKeeps ==
    ASSUME LogInv, NEW r \in SeedRound, SeedMark(r)
    PROVE  LogInv'
<1> DEFINE rounds == {r} \cup VotedRounds(dir, head + 1)
           mark == <<head + 1, Max(rounds)>>
           new == [dir EXCEPT !.mark = mark]
<1>1. /\ ~up /\ head > 0 /\ head < MaxHeight /\ phase = "run"
      /\ UNCHANGED <<head, up, height, round, closing, mine, issue, released>>
  BY DEF SeedMark
<1>2. head + 1 \in Height /\ dir \in Directory
  BY <1>1, LogAssumption DEF LogInv, LogTypeOK, Height
<1>3. mark \in Height \X Round
  <2>1. rounds \subseteq 0 .. MaxRound /\ rounds # {}
    BY <1>2, VotedRoundsType, LogAssumption DEF Round
  <2> HIDE DEF rounds
  <2>2. Max(rounds) \in Round
    BY <2>1, MaxIsGreatest, LogAssumption DEF Round
  <2> QED BY <1>2, <2>2
<1>4. \/ SyncDirectory /\ phase' = "seed"
      \/ \E outcome \in Outcome :
            /\ Publish(dir, new, outcome)
            /\ phase' = IF outcome = "ok" THEN "seed" ELSE phase
  BY DEF SeedMark
<1> HIDE DEF mark
<1>5. new \in Directory /\ new.votes = dir.votes /\ new.floor = dir.floor
  BY <1>2, <1>3, DirectoryChanges, DirectoryParts
<1> HIDE DEF new
<1>6. /\ dir' \in {dir, new} /\ disk' \in {dir, new}
      /\ phase' \in {"run", "seed"}
      /\ root' \in {"absent", "made", "synced"}
      /\ root' = "absent" => root = "absent" /\ dir' = dir /\ disk' = dir
  BY <1>1, <1>4 DEF SyncDirectory, Publish, MakeDirectory, Outcome, LogInv, LogTypeOK
<1>7. /\ dir'.votes = dir.votes /\ disk'.votes = dir.votes
      /\ dir'.floor = dir.floor /\ disk'.floor = dir.floor
  BY <1>5, <1>6
<1>8. LogTypeOK'
  BY <1>1, <1>5, <1>6 DEF LogInv, LogTypeOK
<1>9. PhaseInv' /\ SyncInv' /\ MineInv'
  BY <1>1, <1>6 DEF LogInv, PhaseInv, SyncInv, MineInv
<1>10. dir.floor # None => dir.floor \in Nat /\ dir.floor <= dir.floor
  BY <1>2, DirectoryParts, LogAssumption
<1>11. FloorInv'
  BY <1>1, <1>6, <1>7, <1>10 DEF FloorInv
<1>12. disk.floor # None => /\ dir.floor # None /\ disk.floor <= dir.floor
                            /\ disk.floor \in Nat /\ dir.floor \in Nat
  BY <1>10, DirectoryParts, LogAssumption DEF LogInv, LogTypeOK, FloorInv
<1>13. \A v \in released : v[1][1] \in Nat
  BY DEF LogInv, LogTypeOK, Slot, Height
<1>14. CoverInv'
  BY <1>1, <1>7, <1>12, <1>13 DEF LogInv, CoverInv, Recorded
<1>15. NeverContradicts'
  BY <1>1 DEF LogInv, NeverContradicts
<1> QED BY <1>8, <1>9, <1>11, <1>14, <1>15 DEF LogInv

\* Its floor.
LEMMA SeedFloorKeeps ==
    ASSUME LogInv, SeedFloor
    PROVE  LogInv'
<1>1. /\ ~up /\ phase = "seed" /\ phase' = "run"
      /\ UNCHANGED <<head, up, height, round, closing, mine, issue, released>>
  BY DEF SeedFloor
<1>2. CASE NoWrite
  <2>1. UNCHANGED <<dir, disk, root>>
    BY <1>2 DEF NoWrite, files
  <2>2. LogTypeOK' /\ PhaseInv' /\ FloorInv' /\ SyncInv' /\ MineInv'
    BY <1>1, <2>1 DEF LogInv, LogTypeOK, PhaseInv, FloorInv, SyncInv, MineInv
  <2> QED BY <1>1, <2>1, <2>2, RecordsUntouched DEF LogInv
<1>3. CASE ~(dir.floor # None /\ dir.floor >= head)
  <2>1. PICK outcome \in Outcome : Publish(disk, [dir EXCEPT !.floor = head], outcome)
    BY <1>3 DEF SeedFloor
  <2>2. head \in 0 .. MaxHeight /\ head \in Nat
    BY DEF LogInv, LogTypeOK
  <2>3. dir.floor # None => dir.floor \in Nat
    BY DirectoryParts, LogAssumption DEF LogInv, LogTypeOK
  <2>4. dir.floor # None => dir.floor <= head
    BY <1>3, <2>2, <2>3
  <2>5. /\ dir' \in Directory /\ disk' \in Directory
        /\ dir'.votes = dir.votes
        /\ disk'.floor # None => dir'.floor # None /\ disk'.floor <= dir'.floor
        /\ root' \in {"absent", "made", "synced"}
        /\ root' = "absent" => root = "absent" /\ dir' = Empty /\ disk' = Empty
        /\ CoverInv' /\ NeverContradicts'
    BY <1>1, <2>1, <2>2, <2>4, RaisedFloor
  <2>6. LogTypeOK'
    BY <1>1, <2>5 DEF LogInv, LogTypeOK
  <2>7. PhaseInv' /\ FloorInv' /\ SyncInv' /\ MineInv'
    BY <1>1, <2>5 DEF LogInv, PhaseInv, FloorInv, SyncInv, MineInv
  <2> QED BY <2>5, <2>6, <2>7 DEF LogInv
<1> QED BY <1>2, <1>3 DEF SeedFloor

-----------------------------------------------------------------------------
(* The machine *)

\* Whatever a machine that went down finds on its disk: the driver's part.
LEMMA DownKeeps ==
    ASSUME LogInv, Down, UNCHANGED head, dir' \in Directory, disk' \in Directory,
           root' \in {"absent", "made", "synced"},
           released' \subseteq Slot \X Ballot,
           disk'.floor # None => dir'.floor # None /\ disk'.floor <= dir'.floor,
           root' = "absent" => dir' = Empty /\ disk' = Empty,
           CoverInv', NeverContradicts'
    PROVE  LogInv'
<1>1. LogTypeOK'
  <2>1. mine' \in [VoteType -> Ballot \cup {None}]
    BY DEF Down, NoMine
  <2>2. height' \in Height /\ round' \in Round /\ closing' \in 0 .. MaxHeight
    BY LogAssumption DEF Down, Height, Round
  <2> QED BY <2>1, <2>2 DEF Down, LogInv, LogTypeOK
<1>2. PhaseInv' /\ FloorInv' /\ SyncInv' /\ MineInv'
  BY DEF Down, PhaseInv, FloorInv, SyncInv, MineInv
<1> QED BY <1>1, <1>2 DEF LogInv

\* The process dies.
LEMMA DieKeeps ==
    ASSUME LogInv, Die
    PROVE  LogInv'
<1>1. Down /\ UNCHANGED <<head, dir, disk, root, released>>
  BY DEF Die, files
<1>2. CoverInv' /\ NeverContradicts'
  BY <1>1, RecordsUntouched DEF LogInv
<1> QED BY <1>1, <1>2, DownKeeps DEF LogInv, LogTypeOK, FloorInv, SyncInv

\* The power fails: each name by itself is as it was seen or as it was synced.
LEMMA PowerLossKeeps ==
    ASSUME LogInv, PowerLoss
    PROVE  LogInv'
<1>1. Down /\ UNCHANGED head /\ disk' = dir'
  BY DEF PowerLoss
<1>2. CASE /\ root = "made" /\ dir' = Empty /\ root' = "absent" /\ released' = {}
  <2>1. CoverInv' /\ NeverContradicts'
    BY <1>2 DEF CoverInv, Recorded, NeverContradicts
  <2>2. Empty.floor = None
    BY DEF Empty
  <2> QED BY <1>1, <1>2, <2>1, <2>2, EmptyIsDirectory, DownKeeps
<1>3. ASSUME NEW kept \in SUBSET {s \in Slot : dir.votes[s] # disk.votes[s]},
             NEW floor \in {dir.floor, disk.floor}, NEW mark \in {dir.mark, disk.mark},
             dir' = [votes |-> [s \in Slot |-> IF s \in kept THEN dir.votes[s]
                                               ELSE disk.votes[s]],
                     floor |-> floor, mark |-> mark],
             root' = IF root = "made" THEN "synced" ELSE root,
             UNCHANGED released
      PROVE  LogInv'
  <2> DEFINE w == [s \in Slot |-> IF s \in kept THEN dir.votes[s] ELSE disk.votes[s]]
  <2>1. /\ w \in [Slot -> Ballot \cup {None, Bad}]
        /\ \A s \in Slot : w[s] \in {dir.votes[s], disk.votes[s]}
    BY DirectoryParts DEF LogInv, LogTypeOK
  <2>2. /\ floor \in (0 .. MaxHeight) \cup {None}
        /\ mark \in (Height \X Round) \cup {None}
    BY DirectoryParts DEF LogInv, LogTypeOK
  <2>3. dir' = [votes |-> w, floor |-> floor, mark |-> mark]
    BY <1>3
  <2>4. root = "absent" => dir' = Empty
    <3>1. root = "absent" => dir = Empty /\ disk = Empty
      BY DEF LogInv, SyncInv
    <3>2. root = "absent" => w = [s \in Slot |-> None] /\ floor = None /\ mark = None
      BY <3>1 DEF Empty
    <3> QED BY <2>3, <3>2 DEF Empty
  <2> HIDE DEF w
  <2>5. dir' \in Directory /\ dir'.votes = w /\ dir'.floor = floor
    BY <2>1, <2>2, <2>3 DEF Directory
  <2>6. disk.floor # None => /\ dir.floor # None /\ disk.floor <= dir.floor
                             /\ disk.floor \in Nat /\ dir.floor \in Nat
    BY DirectoryParts, LogAssumption DEF LogInv, LogTypeOK, FloorInv
  <2>7. disk.floor # None => floor # None /\ floor \in Nat /\ disk.floor <= floor
    BY <2>6
  <2>8. \A v \in released : v[1][1] \in Nat /\ v[1] \in Slot
    BY DEF LogInv, LogTypeOK, Slot, Height
  <2>9. \A v \in released :
           \/ w[v[1]] \in {v[2], Bad}
           \/ w[v[1]] = None /\ floor # None /\ v[1][1] <= floor
    BY <2>1, <2>6, <2>7, <2>8 DEF LogInv, CoverInv, Recorded
  <2>10. CoverInv' /\ NeverContradicts'
    BY <1>1, <1>3, <2>5, <2>9 DEF LogInv, CoverInv, Recorded, NeverContradicts
  <2>11. floor # None => floor <= floor
    BY <2>2, LogAssumption
  <2> QED BY <1>1, <1>3, <2>4, <2>5, <2>10, <2>11, DownKeeps DEF LogInv, LogTypeOK
<1> QED BY <1>2, <1>3 DEF PowerLoss

\* A record becomes unreadable; it is still there.
LEMMA CorruptKeeps ==
    ASSUME LogInv, NEW s \in Slot, Corrupt(s)
    PROVE  LogInv'
<1> DEFINE x == IF disk.votes[s] = None THEN None ELSE Bad
<1>1. /\ phase = "run" /\ dir.votes[s] \in Ballot
      /\ dir' = [dir EXCEPT !.votes[s] = Bad]
      /\ disk' = [disk EXCEPT !.votes[s] = x]
      /\ UNCHANGED <<root, head, up, phase, height, round, closing, mine, issue, released>>
  BY DirectoryParts DEF Corrupt, engine, LogInv, LogTypeOK
<1>2. /\ dir' \in Directory /\ disk' \in Directory
      /\ dir'.votes = [dir.votes EXCEPT ![s] = Bad] /\ dir'.floor = dir.floor
      /\ disk'.votes = [disk.votes EXCEPT ![s] = x] /\ disk'.floor = disk.floor
  BY <1>1, DirectoryChanges, DirectoryParts DEF LogInv, LogTypeOK
<1>3. root # "absent"
  BY <1>1, LogAssumption DEF LogInv, SyncInv, Empty
<1>4. LogTypeOK'
  BY <1>1, <1>2, <1>3 DEF LogInv, LogTypeOK
<1>5. PhaseInv' /\ FloorInv'
  BY <1>1, <1>2 DEF LogInv, PhaseInv, FloorInv
<1>6. SyncInv'
  <2>1. disk = dir => disk' = dir'
    BY <1>1, LogAssumption
  <2> QED BY <1>1, <1>3, <2>1 DEF LogInv, SyncInv
<1>7. MineInv'
  BY <1>1, <1>2, DirectoryParts, SlotHere DEF LogInv, LogTypeOK, MineInv
<1>8. \A v \in released : v[1] \in Slot
  BY DEF LogInv, LogTypeOK
<1>9. /\ \A u \in Slot : dir'.votes[u] = IF u = s THEN Bad ELSE dir.votes[u]
      /\ \A u \in Slot : disk'.votes[u] = IF u = s THEN x ELSE disk.votes[u]
  BY <1>2, DirectoryParts DEF LogInv, LogTypeOK
<1>10. CoverInv'
  BY <1>1, <1>2, <1>8, <1>9, LogAssumption DEF LogInv, CoverInv, Recorded
<1>11. NeverContradicts'
  BY <1>1 DEF LogInv, NeverContradicts
<1> QED BY <1>4, <1>5, <1>6, <1>7, <1>10, <1>11 DEF LogInv

-----------------------------------------------------------------------------
(* The theorems *)

\* A node before its first start.
LEMMA LogInitKeeps == LogInit => LogInv
<1> SUFFICES ASSUME LogInit PROVE LogInv
  OBVIOUS
<1>1. LogTypeOK
  <2>1. mine \in [VoteType -> Ballot \cup {None}]
    BY DEF LogInit, NoMine
  <2>2. /\ height \in Height /\ round \in Round
        /\ head \in 0 .. MaxHeight /\ closing \in 0 .. MaxHeight
    BY LogAssumption DEF LogInit, Height, Round
  <2> QED BY <2>1, <2>2, EmptyIsDirectory DEF LogInit, LogTypeOK
<1>2. Empty.floor = None
  BY DEF Empty
<1>3. PhaseInv /\ FloorInv /\ SyncInv /\ MineInv
  BY <1>2 DEF LogInit, PhaseInv, FloorInv, SyncInv, MineInv
<1>4. CoverInv /\ NeverContradicts
  BY DEF LogInit, CoverInv, Recorded, NeverContradicts
<1> QED BY <1>1, <1>3, <1>4 DEF LogInv

\* Every step of the log keeps the invariant.
LEMMA LogNextKeeps ==
    ASSUME LogInv, [LogNext]_logVars
    PROVE  LogInv'
<1>1. CASE LogNext
  BY <1>1, CastKeeps, ResendKeeps, ResendPastKeeps, NextRoundKeeps, BootKeeps,
     BootGenesisKeeps, FinalizeKeeps, SetFloorKeeps, PruneKeeps, NextHeightKeeps,
     CatchUpKeeps, SeedMarkKeeps, SeedFloorKeeps, DieKeeps, PowerLossKeeps,
     CorruptKeeps DEF LogNext
<1>2. CASE UNCHANGED logVars
  <2>1. UNCHANGED <<dir, disk, root, head, up, phase, height, round, closing, mine,
                    issue, released>>
    BY <1>2 DEF logVars, files, engine
  <2>2. LogTypeOK' /\ PhaseInv' /\ FloorInv' /\ SyncInv' /\ MineInv'
    BY <2>1 DEF LogInv, LogTypeOK, PhaseInv, FloorInv, SyncInv, MineInv
  <2> QED BY <2>1, <2>2, RecordsUntouched DEF LogInv
<1> QED BY <1>1, <1>2

\* The inductive invariant holds throughout.
THEOREM LogInvariant == LogSpec => []LogInv
<1> QED BY LogInitKeeps, LogNextKeeps, PTL DEF LogSpec

\* The files and the driver's view of them keep their shape.
THEOREM LogTypesHold == LogSpec => []LogTypeOK
<1>1. LogInv => LogTypeOK
  BY DEF LogInv
<1> QED BY <1>1, LogInvariant, PTL

\* Keep before send: no two votes of one slot are ever let go (C_vote_log.keep,
\* saved_vote), whatever fails.
THEOREM LogNeverContradicts == LogSpec => []NeverContradicts
<1>1. LogInv => NeverContradicts
  BY DEF LogInv
<1> QED BY <1>1, LogInvariant, PTL

\* Every vote let go is on the synced disk, or the synced floor forbids its height.
THEOREM LogCoversReleased == LogSpec => []ReleasedIsCovered
<1>1. LogInv => ReleasedIsCovered
  BY DEF LogInv, CoverInv, Recorded, ReleasedIsCovered
<1> QED BY <1>1, LogInvariant, PTL

\* Which steps let a vote go: a cast, a repetition or an answer for an earlier
\* round, of a driver without an issue, at its own height.
LEMMA WhoReleases ==
    ASSUME LogInv, LogNext, NEW v \in released', v \notin released
    PROVE  Awake /\ issue = "none" /\ v[1][1] = height
<1>1. ASSUME NEW t, NEW b, SavedVote(t, b)
      PROVE  issue = "none" /\ v[1][1] = height
  <2>1. \/ released' = released
        \/ issue = "none" /\ released' = released \cup {<<<<height, round, t>>, b>>}
    BY <1>1 DEF SavedVote
  <2> QED BY <2>1
<1>2. ASSUME NEW t \in VoteType, NEW b \in Ballot, Cast(t, b)
      PROVE  Awake /\ issue = "none" /\ v[1][1] = height
  BY <1>1, <1>2 DEF Cast
<1>3. ASSUME NEW t \in VoteType, Resend(t)
      PROVE  Awake /\ issue = "none" /\ v[1][1] = height
  BY <1>1, <1>3 DEF Resend
<1>4. ASSUME NEW r \in Round, ResendPast(r)
      PROVE  Awake /\ issue = "none" /\ v[1][1] = height
  BY <1>4 DEF ResendPast
<1>5. CASE released' \subseteq released
  BY <1>5
<1>6. CASE NextRound \/ BootGenesis \/ Finalize \/ SetFloor \/ Prune \/ SeedFloor \/ Die
  BY <1>6 DEF NextRound, BootGenesis, Finalize, SetFloor, Prune, SeedFloor, Die
<1>7. CASE NextHeight \/ CatchUp
  BY <1>7 DEF NextHeight, CatchUp, EnterHeight
<1>8. ASSUME NEW h \in 0 .. MaxHeight, Boot(h) PROVE released' = released
  BY <1>8 DEF Boot
<1>9. ASSUME NEW r \in SeedRound, SeedMark(r) PROVE released' = released
  BY <1>9 DEF SeedMark
<1>10. ASSUME NEW s \in Slot, Corrupt(s) PROVE released' = released
  BY <1>10 DEF Corrupt
<1>11. CASE PowerLoss
  BY <1>11 DEF PowerLoss
<1> QED BY <1>2, <1>3, <1>4, <1>5, <1>6, <1>7, <1>8, <1>9, <1>10, <1>11 DEF LogNext

\* A step lets a vote go only above the synced floor, or again for the height
\* that is being closed (require_vote_floor).
THEOREM LogVotesAboveFloor == LogSpec => VotesAboveFloor
<1>1. ASSUME LogInv, [LogNext]_logVars
      PROVE  [\A v \in released' \ released :
                 /\ disk.floor # None
                 /\ v[1][1] > disk.floor \/ head = v[1][1]]_logVars
  <2> SUFFICES ASSUME LogNext, NEW v \in released' \ released
               PROVE  /\ disk.floor # None
                      /\ v[1][1] > disk.floor \/ head = v[1][1]
    BY <1>1
  <2>1. Awake /\ issue = "none" /\ v[1][1] = height
    BY <1>1, WhoReleases
  <2>2. disk = dir /\ dir.floor # None
    BY <1>1, <2>1 DEF Awake, LogInv, SyncInv, FloorInv
  <2>3. dir.floor \in Nat /\ height \in Nat /\ closing \in Nat
    BY <1>1, <2>2, DirectoryParts, LogAssumption DEF LogInv, LogTypeOK, Height
  <2>4. CASE phase = "run"
    BY <1>1, <2>1, <2>2, <2>3, <2>4 DEF Awake, LogInv, FloorInv
  <2>5. CASE phase \in {"ready", "next"}
    <3>1. dir.floor <= closing /\ closing <= height
      BY <1>1, <2>2, <2>3, <2>5 DEF LogInv, FloorInv, PhaseInv
    <3>2. closing = height => head = height
      BY <1>1 DEF LogInv, PhaseInv
    <3> QED BY <2>1, <2>2, <2>3, <3>1, <3>2
  <2> QED BY <2>1, <2>4, <2>5 DEF Awake
<1> QED BY <1>1, LogInvariant, PTL DEF LogSpec, VotesAboveFloor
=============================================================================
