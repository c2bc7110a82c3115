-------------------------- MODULE VotingPumpProofs --------------------------
(***************************************************************************)
(* The theorems of two small components, the voting rules (Voting.tla) and *)
(* the output actor (OutputPump.tla).  Nothing of one is used for the      *)
(* other.                                                                  *)
(*                                                                         *)
(* Voting: agreement for every validator set, quorum system, value set and *)
(* number of rounds.                                                       *)
(*                                                                         *)
(* IInv is inductive: each action adds votes, and certificates only        *)
(* grow.  Agreement then follows from a least-round argument: no round     *)
(* after a precommit quorum for v can be the first to certify a prevote    *)
(* quorum for another value, because the honest validator that the two     *)
(* quorums share would have needed a certificate of a round in between.    *)
(*                                                                         *)
(* Output actor: it loses no wakeup and the proposal slot answers every    *)
(* job at most once with its own result, for any number of handlers, jobs, *)
(* failing passes and restarts of the driver.                              *)
(*                                                                         *)
(* WakeInv says who is responsible for every piece of waiting work: a      *)
(* handler that will still ask, a request that has joined the running      *)
(* pass, the part of the pass that has not come to it yet, or a pass that  *)
(* raised.  SlotInv ties the slot to the ids handed out so far.            *)
(***************************************************************************)
EXTENDS Voting, OutputPump, WellFoundedInduction, TLAPS

-----------------------------------------------------------------------------
\* Certificates survive the arrival of further votes: the vote tables of the
\* engine are only ever added to (add_vote).
LEMMA CertifiedMonotone ==
    ASSUME NEW A, NEW B, A \subseteq B,
           NEW r, NEW b, Certified(A, r, b)
    PROVE  Certified(B, r, b)
BY DEF Certified, Voters

\* A step only adds votes, so what was certified or released stays so.
LEMMA StepMonotone ==
    ASSUME [Next]_vars
    PROVE  /\ prevotes \subseteq prevotes'
           /\ precommits \subseteq precommits'
           /\ \A r, b : Certified(prevotes, r, b) => Certified(prevotes, r, b)'
           /\ \A r, b : Certified(precommits, r, b) => Certified(precommits, r, b)'
           /\ \A v, lo, hi : Released(v, lo, hi) => Released(v, lo, hi)'
<1>1. prevotes \subseteq prevotes' /\ precommits \subseteq precommits'
  BY DEF Next, vars, Prevote, Precommit, FaultyPrevote, FaultyPrecommit, Finalize
<1>2. \A r, b : Certified(prevotes, r, b) => Certified(prevotes, r, b)'
  BY <1>1 DEF Certified, Voters
<1>3. \A r, b : Certified(precommits, r, b) => Certified(precommits, r, b)'
  BY <1>1 DEF Certified, Voters
<1>4. \A v, lo, hi : Released(v, lo, hi) => Released(v, lo, hi)'
  BY <1>2, <1>3 DEF Released
<1> QED BY <1>1, <1>2, <1>3, <1>4

\* Any certificate holds the vote of an honest validator.
LEMMA CertificateHasHonest ==
    ASSUME NEW votes, NEW r, NEW b, Certified(votes, r, b)
    PROVE  \E p \in Honest : <<p, r, b>> \in votes
BY QuorumAssumption DEF Certified, Voters

\* Two certificates share an honest validator.
LEMMA CertificatesMeet ==
    ASSUME NEW A, NEW r, NEW b, Certified(A, r, b),
           NEW B, NEW s, NEW c, Certified(B, s, c)
    PROVE  \E p \in Honest : <<p, r, b>> \in A /\ <<p, s, c>> \in B
<1>1. PICK Q1 \in Quorum : Q1 \subseteq Voters(A, r, b)
  BY DEF Certified
<1>2. PICK Q2 \in Quorum : Q2 \subseteq Voters(B, s, c)
  BY DEF Certified
<1>3. PICK p \in Q1 \cap Q2 \cap Honest : TRUE
  BY QuorumAssumption
<1> QED BY <1>1, <1>2, <1>3 DEF Voters

-----------------------------------------------------------------------------
LEMMA InitIInv == Init => IInv
BY DEF Init, IInv, TypeOK, OneVote, PrecommitBacked, LockRespected, DecidedCertified

LEMMA StepIInv == IInv /\ [Next]_vars => IInv'
<1> SUFFICES ASSUME IInv, [Next]_vars PROVE IInv'
  OBVIOUS
<1> USE DEF IInv
<1>m. /\ prevotes \subseteq prevotes'
      /\ precommits \subseteq precommits'
      /\ \A r, b : Certified(prevotes, r, b) => Certified(prevotes, r, b)'
      /\ \A r, b : Certified(precommits, r, b) => Certified(precommits, r, b)'
      /\ \A v, lo, hi : Released(v, lo, hi) => Released(v, lo, hi)'
  BY StepMonotone
<1>1. ASSUME NEW p \in Honest, NEW r \in Round, NEW b \in Ballot, Prevote(p, r, b)
      PROVE  IInv'
  <2>1. TypeOK'
    BY <1>1, ValidatorAssumption DEF Prevote, TypeOK, Vote
  <2>2. OneVote'
    BY <1>1 DEF Prevote, OneVote, HasVoted
  <2>3. PrecommitBacked'
    BY <1>1, <1>m DEF Prevote, PrecommitBacked
  <2>4. LockRespected'
    <3> SUFFICES ASSUME NEW q \in Honest, NEW t \in Round, NEW s \in Round,
                        NEW v \in Value, NEW w \in Value,
                        t < s, v # w, <<q, t, v>> \in precommits',
                        <<q, s, w>> \in prevotes'
                 PROVE  Released(w, t, s)'
      BY DEF LockRespected
    <3>1. CASE <<q, s, w>> \in prevotes
      BY <1>1, <1>m, <3>1 DEF Prevote, LockRespected
    <3>2. CASE <<q, s, w>> \notin prevotes
      <4>1. q = p /\ s = r /\ w = b /\ <<p, t, v>> \in precommits
        BY <1>1, <3>2 DEF Prevote
      <4>2. b # Nil /\ v \in Value \ {b}
        BY <4>1, ValueAssumption
      <4>3. Released(b, t, r)
        BY <1>1, <4>1, <4>2 DEF Prevote
      <4> QED BY <4>1, <4>3, <1>m
    <3> QED BY <3>1, <3>2
  <2>5. DecidedCertified'
    BY <1>1, <1>m DEF Prevote, DecidedCertified
  <2> QED BY <2>1, <2>2, <2>3, <2>4, <2>5
<1>2. ASSUME NEW p \in Honest, NEW r \in Round, NEW b \in Ballot, Precommit(p, r, b)
      PROVE  IInv'
  <2>1. TypeOK'
    BY <1>2, ValidatorAssumption DEF Precommit, TypeOK, Vote
  <2>2. OneVote'
    BY <1>2 DEF Precommit, OneVote, HasVoted
  <2>3. PrecommitBacked'
    BY <1>2, <1>m, ValueAssumption DEF Precommit, PrecommitBacked
  <2>4. LockRespected'
    <3> SUFFICES ASSUME NEW q \in Honest, NEW t \in Round, NEW s \in Round,
                        NEW v \in Value, NEW w \in Value,
                        t < s, v # w, <<q, t, v>> \in precommits',
                        <<q, s, w>> \in prevotes'
                 PROVE  Released(w, t, s)'
      BY DEF LockRespected
    <3>1. CASE <<q, t, v>> \in precommits
      BY <1>2, <1>m, <3>1 DEF Precommit, LockRespected
    <3>2. CASE <<q, t, v>> \notin precommits
      <4>1. q = p /\ t = r /\ v = b /\ <<p, s, w>> \in prevotes
        BY <1>2, <3>2 DEF Precommit
      <4>2. b # Nil /\ w \in Value \ {b}
        BY <4>1, ValueAssumption
      <4>3. Released(w, r, s)
        BY <1>2, <4>1, <4>2 DEF Precommit
      <4> QED BY <4>1, <4>3, <1>m
    <3> QED BY <3>1, <3>2
  <2>5. DecidedCertified'
    BY <1>2, <1>m DEF Precommit, DecidedCertified
  <2> QED BY <2>1, <2>2, <2>3, <2>4, <2>5
<1>3. ASSUME NEW S \in SUBSET (Validator \ Honest), NEW r \in Round, NEW b \in Ballot,
             FaultyPrevote(S, r, b)
      PROVE  IInv'
  <2>1. TypeOK'
    BY <1>3 DEF FaultyPrevote, TypeOK, Vote
  <2>2. \A q \in Honest : \A s, c : <<q, s, c>> \in prevotes' <=> <<q, s, c>> \in prevotes
    BY <1>3 DEF FaultyPrevote
  <2>3. OneVote' /\ PrecommitBacked' /\ LockRespected' /\ DecidedCertified'
    BY <1>3, <1>m, <2>2
       DEF FaultyPrevote, OneVote, PrecommitBacked, LockRespected, DecidedCertified
  <2> QED BY <2>1, <2>3
<1>4. ASSUME NEW S \in SUBSET (Validator \ Honest), NEW r \in Round, NEW b \in Ballot,
             FaultyPrecommit(S, r, b)
      PROVE  IInv'
  <2>1. TypeOK'
    BY <1>4 DEF FaultyPrecommit, TypeOK, Vote
  <2>2. \A q \in Honest : \A s, c : <<q, s, c>> \in precommits' <=> <<q, s, c>> \in precommits
    BY <1>4 DEF FaultyPrecommit
  <2>3. OneVote' /\ PrecommitBacked' /\ LockRespected' /\ DecidedCertified'
    BY <1>4, <1>m, <2>2
       DEF FaultyPrecommit, OneVote, PrecommitBacked, LockRespected, DecidedCertified
  <2> QED BY <2>1, <2>3
<1>5. ASSUME NEW r \in Round, NEW v \in Value, Finalize(r, v)
      PROVE  IInv'
  <2>1. TypeOK' /\ OneVote' /\ PrecommitBacked' /\ LockRespected'
    BY <1>5, <1>m DEF Finalize, TypeOK, OneVote, PrecommitBacked, LockRespected
  <2>2. DecidedCertified'
    BY <1>5, <1>m DEF Finalize, DecidedCertified
  <2> QED BY <2>1, <2>2
<1>6. CASE UNCHANGED vars
  <2>1. TypeOK' /\ OneVote' /\ PrecommitBacked' /\ LockRespected' /\ DecidedCertified'
    BY <1>6, <1>m DEF vars, TypeOK, OneVote, PrecommitBacked, LockRespected, DecidedCertified
  <2> QED BY <2>1
<1> QED BY <1>1, <1>2, <1>3, <1>4, <1>5, <1>6 DEF Next

-----------------------------------------------------------------------------
\* A nonempty set of rounds has a least member.
LEMMA LeastRound ==
    ASSUME NEW S, S \subseteq Round, S # {}
    PROVE  \E r \in S : \A s \in S : r <= s
<1>1. S \subseteq Nat
  BY RoundAssumption DEF Round
<1>2. PICK x \in S : \A y \in S : ~ (<<y, x>> \in OpToRel(<, Nat))
  BY <1>1, NatLessThanWellFounded, WFMin
<1>3. ASSUME NEW y \in S PROVE x <= y
  <2>1. <<y, x>> \in Nat \X Nat /\ <<y, x>>[1] = y /\ <<y, x>>[2] = x
    BY <1>1
  <2>2. ~ (y < x)
    BY <1>2, <2>1, Zenon DEF OpToRel
  <2> QED BY <1>1, <2>2
<1> QED BY <1>3

\* A precommit certificate carries a prevote certificate of its round.
LEMMA CommitCarriesPolc ==
    ASSUME IInv, NEW r \in Round, NEW v \in Value, Certified(precommits, r, v)
    PROVE  Certified(prevotes, r, v)
BY CertificateHasHonest DEF IInv, PrecommitBacked

\* Once v has a precommit quorum in round r, no later round certifies a
\* prevote quorum for another value: the lock rule of lock_allows at work.
LEMMA NoLaterPolc ==
    ASSUME IInv, NEW r \in Round, NEW v \in Value, Certified(precommits, r, v),
           NEW s \in Round, r < s, NEW w \in Value, w # v
    PROVE  ~Certified(prevotes, s, w)
<1> DEFINE Bad == {t \in Round : r < t /\ \E u \in Value \ {v} : Certified(prevotes, t, u)}
<1> SUFFICES ASSUME Bad # {} PROVE FALSE
  OBVIOUS
<1>1. PICK t \in Bad : \A q \in Bad : t <= q
  BY LeastRound
<1>2. PICK u \in Value \ {v} : Certified(prevotes, t, u)
  BY <1>1
<1>3. PICK p \in Honest : <<p, r, v>> \in precommits /\ <<p, t, u>> \in prevotes
  BY <1>2, CertificatesMeet
<1>4. Released(u, r, t)
  BY <1>1, <1>2, <1>3 DEF IInv, LockRespected
<1>5. PICK q \in Round : /\ r < q
                         /\ q < t
                         /\ Certified(prevotes, q, u) \/ Certified(precommits, q, u)
  BY <1>4 DEF Released
<1>6. Certified(prevotes, q, u)
  BY <1>2, <1>5, CommitCarriesPolc
<1>7. q \in Bad
  BY <1>2, <1>5, <1>6
<1>8. q \in Int /\ t \in Int
  BY <1>1, RoundAssumption DEF Round
<1> QED BY <1>1, <1>5, <1>7, <1>8

\* Two precommit certificates carry the same value.
LEMMA CommitsAgree ==
    ASSUME IInv,
           NEW r \in Round, NEW v \in Value, Certified(precommits, r, v),
           NEW s \in Round, NEW w \in Value, Certified(precommits, s, w)
    PROVE  v = w
<1>1. CASE r = s
  <2>1. PICK p \in Honest : <<p, r, v>> \in precommits /\ <<p, s, w>> \in precommits
    BY CertificatesMeet
  <2> QED BY <1>1, <2>1 DEF IInv, OneVote, Ballot
<1>2. CASE r < s
  BY <1>2, CommitCarriesPolc, NoLaterPolc
<1>3. CASE s < r
  BY <1>3, CommitCarriesPolc, NoLaterPolc
<1>4. r \in Int /\ s \in Int
  BY RoundAssumption DEF Round
<1> QED BY <1>1, <1>2, <1>3, <1>4

\* Every finalized pair has its precommit certificate, so all carry one value.
LEMMA IInvAgreement == IInv => Agreement
<1> SUFFICES ASSUME IInv, NEW d \in decided, NEW e \in decided
             PROVE  d[2] = e[2]
  BY DEF Agreement
<1>1. /\ d[1] \in Round /\ d[2] \in Value /\ Certified(precommits, d[1], d[2])
      /\ e[1] \in Round /\ e[2] \in Value /\ Certified(precommits, e[1], e[2])
  BY DEF IInv, TypeOK, DecidedCertified
<1> QED BY <1>1, CommitsAgree

-----------------------------------------------------------------------------
\* IInv, type correctness included, holds of every state of the voting.
THEOREM VotingInvariant == Spec => []IInv
<1>1. Init => IInv
  BY InitIInv
<1>2. IInv /\ [Next]_vars => IInv'
  BY StepIInv
<1> QED BY <1>1, <1>2, PTL DEF Spec

\* No two values are ever finalized at one height, for every quorum system in
\* which two quorums share an honest validator.
THEOREM VotingAgreement == Spec => []Agreement
<1>1. IInv => Agreement
  BY IInvAgreement
<1> QED BY <1>1, VotingInvariant, PTL

-----------------------------------------------------------------------------
(* A network of nodes *)

\* If each honest node keeps the rules by its own knowledge, whatever the others
\* have seen and in whatever order, then all of them together satisfy IInv: a
\* certificate that one node has seen is one of the network, and the rules ask
\* nothing else of the others.
LEMMA UnionKeepsRules ==
    ASSUME NEW pv, NEW pc, NEW dec,
           prevotes = UNION {pv[p] : p \in Honest},
           precommits = UNION {pc[p] : p \in Honest},
           decided = UNION {dec[p] : p \in Honest},
           Authentic(pv), Authentic(pc),
           \A p \in Honest : KeepsRules(p, pv[p], pc[p], dec[p])
    PROVE  IInv
<1>1. ASSUME NEW p \in Honest
      PROVE  /\ pv[p] \subseteq prevotes /\ pc[p] \subseteq precommits
             /\ \A r \in Round, b \in Ballot :
                   <<p, r, b>> \in prevotes => <<p, r, b>> \in pv[p]
             /\ \A r \in Round, b \in Ballot :
                   <<p, r, b>> \in precommits => <<p, r, b>> \in pc[p]
             /\ \A r, b : Certified(pv[p], r, b) => Certified(prevotes, r, b)
             /\ \A r, b : Certified(pc[p], r, b) => Certified(precommits, r, b)
  <2>1. pv[p] \subseteq prevotes /\ pc[p] \subseteq precommits
    OBVIOUS
  <2>2. \A r \in Round, b \in Ballot :
            <<p, r, b>> \in prevotes => <<p, r, b>> \in pv[p]
    BY DEF Authentic
  <2>3. \A r \in Round, b \in Ballot :
            <<p, r, b>> \in precommits => <<p, r, b>> \in pc[p]
    BY DEF Authentic
  <2> QED BY <2>1, <2>2, <2>3, CertifiedMonotone
<1>2. TypeOK
  BY DEF TypeOK, KeepsRules
<1>3. OneVote
  BY <1>1 DEF OneVote, KeepsRules
<1>4. PrecommitBacked
  BY <1>1 DEF PrecommitBacked, KeepsRules, Ballot
<1>5. LockRespected
  <2> SUFFICES ASSUME NEW p \in Honest, NEW r \in Round, NEW s \in Round,
                      NEW v \in Value, NEW w \in Value, r < s, v # w,
                      <<p, r, v>> \in precommits, <<p, s, w>> \in prevotes
               PROVE  Released(w, r, s)
    BY DEF LockRespected
  <2>1. <<p, r, v>> \in pc[p] /\ <<p, s, w>> \in pv[p]
    BY <1>1 DEF Ballot
  <2>2. PICK q \in Round : /\ r < q
                           /\ q < s
                           /\ Certified(pv[p], q, w) \/ Certified(pc[p], q, w)
    BY <2>1 DEF KeepsRules
  <2> QED BY <1>1, <2>2 DEF Released
<1>6. DecidedCertified
  <2> SUFFICES ASSUME NEW d \in decided PROVE Certified(precommits, d[1], d[2])
    BY DEF DecidedCertified
  <2>1. PICK p \in Honest : d \in dec[p]
    OBVIOUS
  <2> QED BY <1>1, <2>1 DEF KeepsRules
<1> QED BY <1>2, <1>3, <1>4, <1>5, <1>6 DEF IInv

\* No two honest nodes finalize different values: agreement of the network from
\* what each node keeps alone.  The record of the network is all that its honest
\* nodes know.
THEOREM NetworkAgrees ==
    ASSUME NEW pv, NEW pc, NEW dec,
           prevotes = UNION {pv[p] : p \in Honest},
           precommits = UNION {pc[p] : p \in Honest},
           decided = UNION {dec[p] : p \in Honest},
           Authentic(pv), Authentic(pc),
           \A p \in Honest : KeepsRules(p, pv[p], pc[p], dec[p])
    PROVE  Agreement
BY UnionKeepsRules, IInvAgreement

-----------------------------------------------------------------------------
(* The output actor *)

\* Someone will start another pass, or the last one raised.
Woken == owed > 0 \/ actor = "requested" \/ failed

WakeInv ==
    /\ pass = "none" <=> actor = "idle"
    /\ failed => actor = "idle"
    /\ outputs > 0 => Woken \/ pass \in {"take", "drain"}
    /\ slot.phase = "ready" => Woken \/ pass = "take"
    /\ (running /\ slot.phase = "idle" /\ next < MaxJobs /\ pending > 0)
          => Woken \/ pass # "none"

SlotInv ==
    /\ slot.phase = "closed" <=> ~running
    /\ slot.phase \in {"running", "ready"} =>
          /\ slot.job \in Job
          /\ slot.job < next
          /\ \A k \in Job : delivered[<<slot.job, k>>] = 0
    /\ slot.phase = "ready" => slot.reply = slot.job
    /\ slot.phase = "running" => workers[slot.job] # "none"
    /\ \A j, k \in Job : j >= next => delivered[<<j, k>>] = 0
    /\ OwnReplyOnce

PumpInv == PumpTypeOK /\ WakeInv /\ SlotInv

-----------------------------------------------------------------------------
\* The scheduling state keeps its shape.
LEMMA TypeInit == PumpInit => PumpTypeOK
<1> SUFFICES ASSUME PumpInit PROVE PumpTypeOK
  OBVIOUS
<1>1. running \in BOOLEAN /\ failed \in BOOLEAN
  BY DEF PumpInit
<1>2. slot \in [phase : {"idle", "running", "ready", "closed"},
               job : Job \cup {NoJob}, reply : Job \cup {NoJob}]
  BY DEF PumpInit, EmptySlot
<1>3. /\ workers \in [Job -> {"none", "queued", "working"}]
      /\ delivered \in [Job \X Job -> Nat]
  BY DEF PumpInit
<1>4. /\ batch \in 0 .. MaxOutputs
      /\ outputs \in 0 .. MaxOutputs
      /\ pending \in 0 .. MaxPending
      /\ owed \in 0 .. MaxOwed
      /\ next \in Job
      /\ stops \in 0 .. MaxStops
      /\ fails \in 0 .. MaxFails
  BY PumpAssumption DEF PumpInit, Job
<1> QED BY <1>1, <1>2, <1>3, <1>4 DEF PumpInit, PumpTypeOK

\* Every handler, pass and restart keeps the shape.
LEMMA TypeNext ==
    ASSUME PumpTypeOK, SlotInv, [PumpNext]_pumpVars
    PROVE  PumpTypeOK'
<1>1. CASE Emit
  BY <1>1, PumpAssumption DEF Emit, PumpTypeOK, Job, driver, actorVars, slotVars
<1>2. CASE ProposalArrives
  BY <1>2, PumpAssumption DEF ProposalArrives, PumpTypeOK, Job, driver,
     actorVars, slotVars
<1>3. CASE Request
  <2>1. failed' \in BOOLEAN
    BY <1>3 DEF Request, ActorRequest, PumpTypeOK
  <2>2. /\ actor' \in {"idle", "running", "requested"}
        /\ pass' \in {"none", "take", "drain", "outputs"}
        /\ owed' \in 0 .. MaxOwed
    BY <1>3, PumpAssumption DEF Request, ActorRequest, PumpTypeOK
  <2> QED BY <1>3, <2>1, <2>2 DEF Request, PumpTypeOK, driver, slotVars
<1>4. CASE PassTake
  <2>1. slot' \in [phase : {"idle", "running", "ready", "closed"},
                   job : Job \cup {NoJob}, reply : Job \cup {NoJob}]
    BY <1>4 DEF PassTake, EmptySlot, PumpTypeOK
  <2>2. delivered' \in [Job \X Job -> Nat]
    BY <1>4 DEF PassTake, PumpTypeOK, SlotInv
  <2> QED BY <1>4, <2>1, <2>2 DEF PassTake, PumpTypeOK, driver, engineVars
<1>5. CASE PassDrain
  BY <1>5, PumpAssumption DEF PassDrain, PumpTypeOK, Job, driver, slotVars
<1>6. CASE PassOutput
  BY <1>6, PumpAssumption DEF PassOutput, PumpTypeOK, Job, driver, slotVars,
     engineVars
<1>7. CASE PassEnd
  BY <1>7, PumpAssumption DEF PassEnd, ActorComplete, PumpTypeOK, Job, driver
<1>8. CASE PassFail
  BY <1>8, PumpAssumption DEF PassFail, PumpTypeOK, Job, driver, slotVars,
     engineVars
<1>9. ASSUME NEW j \in Job, EnterGate(j) PROVE PumpTypeOK'
  BY <1>9, PumpAssumption DEF EnterGate, PumpTypeOK, Job, driver, actorVars,
     engineVars
<1>10. ASSUME NEW j \in Job, Finish(j) PROVE PumpTypeOK'
  <2>1. failed' \in BOOLEAN
    BY <1>10 DEF Finish, ActorRequest, PumpTypeOK
  <2>2. slot' \in [phase : {"idle", "running", "ready", "closed"},
                   job : Job \cup {NoJob}, reply : Job \cup {NoJob}]
    BY <1>10 DEF Finish, SlotFinish, PumpTypeOK
  <2>3. actor' \in {"idle", "running", "requested"} /\ pass' \in {"none", "take", "drain", "outputs"}
    BY <1>10 DEF Finish, ActorRequest, PumpTypeOK
  <2>4. workers' \in [Job -> {"none", "queued", "working"}]
    BY <1>10 DEF Finish, PumpTypeOK
  <2> QED BY <1>10, <2>1, <2>2, <2>3, <2>4 DEF Finish, PumpTypeOK, driver,
     engineVars
<1>11. CASE Stop
  <2>1. slot' \in [phase : {"idle", "running", "ready", "closed"},
                   job : Job \cup {NoJob}, reply : Job \cup {NoJob}]
    BY <1>11 DEF Stop, EmptySlot
  <2>2. stops' \in 0 .. MaxStops
    BY <1>11, PumpAssumption DEF Stop, PumpTypeOK
  <2>3. running' \in BOOLEAN
    BY <1>11 DEF Stop
  <2> QED BY <1>11, <2>1, <2>2, <2>3 DEF Stop, PumpTypeOK, actorVars, engineVars
<1>12. CASE Start
  BY <1>12, PumpAssumption DEF Start, EmptySlot, PumpTypeOK, Job, actorVars
<1>13. CASE UNCHANGED pumpVars
  BY <1>13 DEF pumpVars, PumpTypeOK, Job, NoJob, driver, actorVars, slotVars,
     engineVars
<1> QED BY <1>1, <1>2, <1>3, <1>4, <1>5, <1>6, <1>7, <1>8, <1>9, <1>10, <1>11,
     <1>12, <1>13 DEF PumpNext

\* A fresh driver owes its first pass.
LEMMA WakeInit == PumpInit => WakeInv
BY DEF PumpInit, WakeInv, Woken, EmptySlot

\* No step leaves waiting work without someone responsible for it.
LEMMA WakeNext ==
    ASSUME PumpTypeOK, SlotInv, WakeInv, [PumpNext]_pumpVars
    PROVE  WakeInv'
<1>1. CASE Emit
  BY <1>1 DEF Emit, PumpTypeOK, WakeInv, SlotInv, Woken, driver, actorVars,
     slotVars
<1>2. CASE ProposalArrives
  BY <1>2 DEF ProposalArrives, PumpTypeOK, WakeInv, SlotInv, Woken, driver,
     actorVars, slotVars
<1>3. CASE Request
  BY <1>3 DEF Request, ActorRequest, PumpTypeOK, WakeInv, SlotInv, Woken,
     driver, slotVars
<1>4. CASE PassTake
  BY <1>4 DEF PassTake, EmptySlot, PumpTypeOK, WakeInv, SlotInv, Woken,
     driver, engineVars
<1>5. CASE PassDrain
  BY <1>5 DEF PassDrain, PumpTypeOK, WakeInv, SlotInv, Woken, driver, slotVars
<1>6. CASE PassOutput
  BY <1>6 DEF PassOutput, PumpTypeOK, WakeInv, SlotInv, Woken, driver,
     slotVars, engineVars
<1>7. CASE PassEnd
  BY <1>7 DEF PassEnd, ActorComplete, PumpTypeOK, WakeInv, SlotInv, Woken,
     driver
<1>8. CASE PassFail
  BY <1>8 DEF PassFail, PumpTypeOK, WakeInv, SlotInv, Woken, driver, slotVars,
     engineVars
<1>9. ASSUME NEW j \in Job, EnterGate(j) PROVE WakeInv'
  BY <1>9 DEF EnterGate, PumpTypeOK, WakeInv, SlotInv, Woken, driver,
     actorVars, engineVars
<1>10. ASSUME NEW j \in Job, Finish(j) PROVE WakeInv'
  BY <1>10 DEF Finish, SlotFinish, ActorRequest, PumpTypeOK, WakeInv, SlotInv,
     Woken, driver, engineVars
<1>11. CASE Stop
  BY <1>11 DEF Stop, EmptySlot, PumpTypeOK, WakeInv, SlotInv, Woken,
     actorVars, engineVars
<1>12. CASE Start
  BY <1>12 DEF Start, EmptySlot, PumpTypeOK, WakeInv, SlotInv, Woken, actorVars
<1>13. CASE UNCHANGED pumpVars
  BY <1>13 DEF pumpVars, PumpTypeOK, WakeInv, SlotInv, Woken, driver,
     actorVars, slotVars, engineVars
<1> QED BY <1>1, <1>2, <1>3, <1>4, <1>5, <1>6, <1>7, <1>8, <1>9, <1>10, <1>11,
     <1>12, <1>13 DEF PumpNext

\* An empty slot has handed out nothing.
LEMMA SlotInit == PumpInit => SlotInv
BY PumpAssumption DEF PumpInit, SlotInv, OwnReplyOnce, EmptySlot, Job

\* Late, repeated and out of order endings of jobs cannot fill the slot.
LEMMA SlotNext ==
    ASSUME PumpTypeOK, SlotInv, [PumpNext]_pumpVars
    PROVE  SlotInv'
<1>1. CASE Emit
  BY <1>1 DEF Emit, PumpTypeOK, SlotInv, OwnReplyOnce, Job, driver, actorVars,
     slotVars
<1>2. CASE ProposalArrives
  BY <1>2 DEF ProposalArrives, PumpTypeOK, SlotInv, OwnReplyOnce, Job, driver,
     actorVars, slotVars
<1>3. CASE Request
  BY <1>3 DEF Request, ActorRequest, PumpTypeOK, SlotInv, OwnReplyOnce, Job,
     driver, slotVars
<1>4. CASE PassTake
  <2>1. CASE slot.phase # "ready"
    BY <1>4, <2>1 DEF PassTake, SlotInv, OwnReplyOnce, driver
  <2>2. CASE slot.phase = "ready"
    <3>1. /\ slot' = EmptySlot
          /\ delivered' = [delivered EXCEPT ![<<slot.job, slot.reply>>] = @ + 1]
          /\ UNCHANGED <<next, running>>
      BY <1>4, <2>2 DEF PassTake, driver
    <3>2. /\ slot.job \in Job
          /\ slot.reply = slot.job
          /\ slot.job < next
          /\ delivered[<<slot.job, slot.job>>] = 0
      BY <2>2 DEF SlotInv
    <3>3. \A j, k \in Job :
             delivered'[<<j, k>>] = IF j = slot.job /\ k = slot.job THEN 1
                                    ELSE delivered[<<j, k>>]
      BY <3>1, <3>2 DEF PumpTypeOK
    <3>4. slot'.phase = "idle"
      BY <3>1 DEF EmptySlot
    <3>5. \A j, k \in Job : j >= next => delivered'[<<j, k>>] = 0
      BY <3>2, <3>3 DEF SlotInv, PumpTypeOK, Job
    <3>6. OwnReplyOnce'
      <4>1. SUFFICES ASSUME NEW j \in Job, NEW k \in Job
                     PROVE  /\ delivered'[<<j, k>>] <= 1
                            /\ j # k => delivered'[<<j, k>>] = 0
        BY DEF OwnReplyOnce
      <4>2. CASE j = slot.job /\ k = slot.job
        BY <3>3, <4>2
      <4>3. CASE ~(j = slot.job /\ k = slot.job)
        <5>1. delivered'[<<j, k>>] = delivered[<<j, k>>]
          BY <3>3, <4>3
        <5>2. delivered[<<j, k>>] <= 1 /\ (j # k => delivered[<<j, k>>] = 0)
          BY DEF SlotInv, OwnReplyOnce
        <5> QED BY <5>1, <5>2
      <4> QED BY <4>2, <4>3
    <3>7. running
      BY <2>2 DEF SlotInv
    <3> QED BY <3>1, <3>4, <3>5, <3>6, <3>7 DEF SlotInv
  <2> QED BY <2>1, <2>2
<1>5. CASE PassDrain
  BY <1>5 DEF PassDrain, PumpTypeOK, SlotInv, OwnReplyOnce, Job, driver,
     slotVars
<1>6. CASE PassOutput
  BY <1>6 DEF PassOutput, PumpTypeOK, SlotInv, OwnReplyOnce, Job, driver,
     slotVars, engineVars
<1>7. CASE PassEnd
  BY <1>7, PumpAssumption DEF PassEnd, PumpTypeOK, SlotInv, OwnReplyOnce, Job,
     driver
<1>8. CASE PassFail
  BY <1>8 DEF PassFail, PumpTypeOK, SlotInv, OwnReplyOnce, Job, driver,
     slotVars, engineVars
<1>9. ASSUME NEW j \in Job, EnterGate(j) PROVE SlotInv'
  BY <1>9 DEF EnterGate, Working, Queued, PumpTypeOK, SlotInv, OwnReplyOnce,
     Job, driver, actorVars, engineVars
<1>10. ASSUME NEW j \in Job, Finish(j) PROVE SlotInv'
  BY <1>10 DEF Finish, SlotFinish, ActorRequest, Working, Queued, PumpTypeOK,
     SlotInv, OwnReplyOnce, Job, driver, engineVars
<1>11. CASE Stop
  BY <1>11 DEF Stop, EmptySlot, PumpTypeOK, SlotInv, OwnReplyOnce, Job,
     actorVars, engineVars
<1>12. CASE Start
  BY <1>12 DEF Start, EmptySlot, PumpTypeOK, SlotInv, OwnReplyOnce, Job,
     actorVars
<1>13. CASE UNCHANGED pumpVars
  BY <1>13 DEF pumpVars, PumpTypeOK, SlotInv, OwnReplyOnce, Job, NoJob,
     driver, actorVars, slotVars, engineVars
<1> QED BY <1>1, <1>2, <1>3, <1>4, <1>5, <1>6, <1>7, <1>8, <1>9, <1>10, <1>11,
     <1>12, <1>13 DEF PumpNext

-----------------------------------------------------------------------------
\* The inductive invariant holds throughout.
THEOREM PumpInvariant == PumpSpec => []PumpInv
<1>1. PumpInit => PumpInv
  BY TypeInit, WakeInit, SlotInit DEF PumpInv
<1>2. PumpInv /\ [PumpNext]_pumpVars => PumpInv'
  BY TypeNext, WakeNext, SlotNext DEF PumpInv
<1> QED BY <1>1, <1>2, PTL DEF PumpSpec

\* The output actor, the proposal slot and the engine keep their types: no state
\* or phase outside those of c_output_actor and c_work_slot is ever reached.
THEOREM PumpTypesHold == PumpSpec => []PumpTypeOK
<1>1. PumpInv => PumpTypeOK
  BY DEF PumpInv
<1> QED BY <1>1, PumpInvariant, PTL

\* No wakeup of the output actor is lost, whatever the handlers, the pass and the
\* proposal work interleave to (process_outputs, complete, move_proposal_slot).
THEOREM PumpNoLostWakeup == PumpSpec => []NoLostWakeup
<1>1. PumpInv => NoLostWakeup
  BY DEF PumpInv, PumpTypeOK, WakeInv, Woken, NoLostWakeup
<1> QED BY <1>1, PumpInvariant, PTL

\* Every job is answered at most once, with its own result (c_work_slot ids).
THEOREM PumpOwnReplyOnce == PumpSpec => []OwnReplyOnce
<1>1. PumpInv => OwnReplyOnce
  BY DEF PumpInv, SlotInv
<1> QED BY <1>1, PumpInvariant, PTL
=============================================================================
