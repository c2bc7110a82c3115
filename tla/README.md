# Octra lite node: TLA+ models of consensus, private computation and image builds

The lite node is a validator or observer of the Octra network: OCaml around a
C++/Rust layer. Its core logic is a Tendermint-style BFT protocol under
`src/lib/consensus/`, run by the services under `src/node_runtime/`. The native layer
computes on encrypted values (`src/pvac/`, bound by `src/pvac_ffi/`) and builds the
storage images of circles (`src/lib/core/circle_wasm_native*`). This directory models
these three, checks them with TLC and proves their most important facts with TLAPS.

| module | models | checked by | proved in |
|---|---|---|---|
| `Voting` | what the voting of a height promises (abstract) | `MCVoting.cfg` | `VotingPumpProofs` |
| `Engine` | `c_engine.ml`, one operator per function | through `Node` | `EngineProofs` |
| `Node` | one validator: engine, driver, vote log, journal, crash and boot | `MCNode*.cfg` (module `MCNode`) | `NodeProofs` |
| `VoteLog` | the vote log's files over several heights, floor, round mark, power loss | `MCVoteLog.cfg` | `VoteLogProofs` |
| `QuorumRule` | quorum rules, weight caps, vote sets and certificates | `MCQuorumRule.cfg` | `QuorumRuleProofs` |
| `OutputPump` | output actor, proposal slot and gate | `OutputPump.cfg` | `VotingPumpProofs` |
| `FieldWords` | the field 2^127 - 1 in two machine words | through `Ciphertext` | `CipherOpProofs` |
| `CipherShape` | how layers and edges of a ciphertext refer to each other | through `Ciphertext` | `CipherOpProofs` |
| `Ciphertext` | ciphertexts: encryption, arithmetic, recryption, storing, decryption | `MCCiphertext.cfg` | `CipherOpProofs`, `CiphertextProofs` |
| `ComputeBuild` | ports, builder table, retirement, image cache, OCaml runtime lock | `MCComputeBuild.cfg` | `ComputeBuildProofs` |

`PROJECT.json` lists the runs, the map from definitions to source lines, the
hazards and, for each checked property, a plausible bug (a `Mutant` operator)
under which the property fails.

To repeat: `tlc -config MCNodeWait.cfg MCNode`, `tlapm VotingPumpProofs.tla`, and so on.

## 1. Inventory

### Parts, their state and their operations

* **Engine** (`c_engine.ml`). State of one height: round, step, lock, valid
  value, a vote set per type and round, cached proposals, proofs of lock change
  (POLC) by round, evidence of higher rounds, pending outputs, pending finality,
  a generation number. Operations: proposals, votes, round reports, timeouts,
  finalize batches, proposing, resume after voting was off, restore of a lock or
  of local votes, round realignment, restart of a height. It never blocks: it
  appends outputs (send a vote, send a finalize message, arm a timer).
* **Driver** (`c_driver.ml`). Owns the engine. Frames, timers and the watchdog
  call the engine and then ask for a pass of the output actor; the actor stores
  votes, sends them, and applies finality. Lwt threads interleave wherever they
  wait: on the journal, on the network, on `on_finalized`.
* **Vote log** (`c_vote_log.ml`, `vote_floor.ml`). A directory with a file per local
  vote, written once, a floor at or below which a node does not begin to vote, a round mark,
  and stored POLCs. Kept before a vote is sent, read at boot and at each new height,
  pruned behind the floor; a tool seeds floor and mark of a node that joins.
* **Pending-commit journal** (`consensus_proposal.ml`,
  `consensus_pending_commit_recovery.ml`, `wal.ml`). A precommit for a value is
  journalled with its proposal before it is stored and sent; at boot the entries
  become votes and the newest one the lock.
* **Quorum rules** (`c_types.ml`, `c_quorum_policy.ml`, `c_qc.ml`). Prior (weight),
  Capped (capped weight and count), Stake (weight and count), by epoch.
* **Output actor, proposal slot, gate** (`c_output_actor.ml`, `c_work_slot.ml`,
  `c_proposal_work_gate.ml`). One pass at a time, one proposal job at a time.
* **Ciphertexts** (`pvac/ops/*.hpp`, `core/types.hpp`, `pvac_serialize.hpp`,
  `pvac_stubs.cpp`, `fhe_calc.ml`). A ciphertext is a list of layers, a list of edges
  that name layers by position, and a clear constant per slot. Values without state: each operation
  makes a new handle or throws. Two rules (`math` or prior) by epoch, four stored formats.
* **Field** (`core/field.hpp`). Residues in two 64-bit words.
* **Compute image builds** (`circle_wasm_native_stubs.c`, `circle_wasm_native/src/lib.rs`).
  A port (OCaml handle, reference counted) begins a build: a slot of the builder table
  with a generation; puts fill its data; a seal publishes it in the image cache; a
  close retires it through a thread. Each section has its lock; put and seal run with the
  OCaml runtime released.
* **Relief** (`c_relief.ml`), **catch-up and sync log** (`c_catchup.ml`,
  `c_sync_log.ml`), **finality log and recovery**, **epoch application**, small
  bounded tables around the driver, **network**, **ledger and storage**, **virtual
  machine**, **RPC**. `PROJECT.json` gives each part's status and the reason.

### What is hard here

* A local vote travels engine → output queue → journal → vote log → wire, with a
  wait at each arrow. In between the round may end, the height may restart, voting
  may be switched off, or the process may die.
* Replies to peers save and send the same votes beside the output actor.
* Two records (journal and log) must agree after any crash, also after a crash
  during the restore.
* A file that is seen in the vote log may vanish in a power loss until its directory
  is synced, and syncs fail; the ledger may come back older than the log.
* Locks open only for POLCs newer than the lock and older than the round, and
  those come from late prevotes, cached proposals or finalize messages in any order.
* Under `round_wait`, timers are armed only behind quorums; a missed arming would
  leave a node waiting for ever.
* Requests for passes race with the end of a pass; proposal checks outlive the
  driver that began them.
* Integer thresholds and the weight cap sit on exact boundaries.
* Joining ciphertexts and dropping layers renumber positions; a stale position gives a
  wrong value and no error. Which mask a layer has depends on a field some formats omit.
* Carries near the modulus, exponent windows across a word border, and signed constants
  in two words are wrong, if at all, for very few operands.
* A put decodes while its build is closed and its key given away; a seal publishes while
  its handle is closed; the collector and the step give back the same reference.

The `hazards` list names each one at its line with the properties that guard it.

### What makes the parts correct

Voting: agreement. Node: its visible votes are votes the rules allow, through
crashes (`VotingSpec`); a sent vote is durable and is never contradicted; records
always boot; a vote that has left is covered by a record or the floor; a height never
waits without a timer or a missing quorum; finality is applied. Quorum rules: quorums
meet, counters and certificates agree, caps keep the chain live. Pump: no lost wakeup,
own reply once. Ciphertexts: what is decrypted is the value of the expression, nothing is
rejected without cause, storing changes nothing. Image builds: no dangling port, a
build stores what it acknowledged and nothing after its close, slots and ports come back.

## 2. The models and the code

### Voting

Votes that exist are the only state. An honest validator casts one vote per type
and round, precommits a value only behind a prevote quorum of the round, and lets
a prevote contradict an earlier precommit only if a certificate in a round strictly
between carries the new value (`lock_allows`, `c_engine.ml` 452-469). A certificate
is a prevote quorum or, since `accept_finalize_batch` records a POLC too, the
precommit quorum of a finalize message. Everybody outside `Honest` votes freely; one
message may show the votes of several of them.
`QuorumAssumption`: any two quorums share an honest member.

A precommit may become visible late (it is journalled and logged after the engine
cast it). `Precommit` therefore also looks forward: the later prevotes of the same
validator must agree with it or be released.

### Engine

The mutable record `t` is a TLA+ record; each function that mutates it is an
operator with the same name. Handlers compose those operators in the order of the
code, so an action of `Node` is a whole handler. Abstractions:

* a proposal id stands for its header; signatures are valid or the message does
  not arrive; `C_qc.validate_*` is "the signers are a quorum";
* a `ScheduleTimeout` output becomes the flag `armed` for the current step, and
  stale timers may fire at any time with any earlier generation, round and step;
* requests for missing proposals and POLCs, evidence and pruning are left out: the
  environment delivers any of these messages at any time anyway, and the rounds of
  a run stay far below `round_history_limit`;
* the validator set is fixed (no relief inside the height).

### Node

| variable | code |
|---|---|
| `e` | `t.engine`, with the outputs of the pass under way at the head of `outputs` |
| `saving` | continuations of `saved_vote` waiting in `persist_precommit` |
| `queued` | `t.pending_votes` |
| `issue` | `t.vote_log_issue` |
| `up`, `started` | driver runs; `start` has waited for peers and opened the height |
| `log`, `journal` | vote log and pending-commit journal, what a crash keeps |
| `sent` | local votes that left as vote messages |
| `known` | history: votes that exist, the state of `Voting` |
| `committed`, `acked` | `on_finalized` ran; `ack_finalized` ran |
| `lost` | history: precommits dropped by a restart of the height before the journal had them |
| `late` | history: an engine that has finalized has proposed |

The other validators and the network are the environment. They may send every vote,
proposal, round report and certificate of the offered sets at any time, in any
order, repeatedly or never. A certificate contains our own precommit only when that
precommit exists.

A save is split where the code waits: `SaveVote` (up to the journal call),
`WriteJournal` / `JournalFails` (the disk), `FinishSave` (the continuation, which
gives up when the generation moved on). A journal write that fails may have renamed its
file already (`wal.ml` 276-277, only the sync of the directory fails), so `JournalFails`
leaves the entry there or not. `Crash` keeps `log` and `journal` only.
`RestoreVote` copies one journal vote into the log, so a boot can be seen half
done; `Restart` rebuilds the lock, then the votes of the last round under
`round_wait`, or the next round otherwise. `Start` is the second half of `start`:
frames are handled before it, and it opens the height only when the engine is still
pristine.

The height is started again in three places. `ResetHeight` is `set_height` reached from
`catchup_height` (without `round_wait`) and from `start_height`, which a proposal check
calls when it finds its height stale (`consensus_proposal.ml` 1556,
`consensus_driver_wiring.ml` 728, with or without `round_wait`): any part of the outputs may
be drained already, the rest is dropped, `pending_votes` are emptied. `ReopenHeight` is the
end of the previous height in `process_outputs_once` (`c_driver.ml` 3682-3699), which after its awaits
begins a height that a catch-up may have begun: no output is drained, `pending_votes`
stay, `vote_log_issue` is cleared. The code does this once, before the actor's first output of the height;
the model allows it whenever the actor is between two outputs, which is more.

`VotingSpec` is the refinement: `INSTANCE Voting` with `Honest <- {Me}`, so that
the node's conduct is checked against every conduct of the rest. A vote of ours
exists once a crash cannot undo it: it is in the log, or a finalize message has
carried it away, or it is the prevote behind a journalled precommit. `decided` is
what was acknowledged. The mapped step is a `Voting` step or leaves the votes alone,
until the node has departed from the rules: `Departed` names the two ways in which the code does so
with writes that succeed (section 5), a finalize message with a precommit in `lost`, and `late`.
All steps before are held to the rules, and no input is kept from the node to avoid them.

### VoteLog

`dir` is the directory as the process sees it, `disk` as it was last synced. `Publish`
is a change (a staged file, synced, then linked or renamed) followed by the sync of
the directory; it may fail before anything is seen or, "torn", when only the sync
fails. A power loss keeps any subset of the changes since the last sync. `SavedVote`
is `check` and `keep`: a record that is there is compared and *not* synced again, so
what keeps a torn record from being sent and lost is the issue that the failure
raises, and the sync with which `max_round` begins at the next boot or height.

`root` is the directory's own entry in its parent. `MakeDirectory` is `directory`: the
maker syncs the parent, or dies or fails before it does, and nobody syncs it later; until the
file system does, a power loss may take the whole directory. After such a loss
the history `released` begins anew (section 5).

`Boot` and `BootGenesis` are `prepare_vote_log` (a validator whose log is refused
exits); `Finalize`, `SetFloor`, `Prune`, `NextHeight` the end of a height in
`process_outputs_once`. Between `set_floor` and `prune` no other thread runs; between
`prune` and `start_height` the driver waits, replies go out and a catch-up may begin
the next height (`closing`, `CatchUp`). `SeedMark`, `SeedFloor` are `Vote_floor.set`.
`Boot(h)` with `h` below `head` is a ledger that has come back. `released` is history:
the votes `saved_vote` or `round_votes` has handed out. One vote type is enough: a
slot's type takes part in nothing but its name. The journal is `Node`'s.

### QuorumRule

`given` is the chain's validator set, `vs` the engine's after
`validator_set_for_rule`. Two vote sets fill up for two different values; who is in
both signed twice. The certificate check (`has_quorum_for_rule`) caps again what is
capped already, which is why `CertificateAgrees` compares the incremental counters
with both ways of checking. `count_weight_cap` is the code's binary search as a
recursive function. Weights are arbitrary-precision integers (`Z`) in the code, so
they are plain integers here.

### OutputPump

`owed` counts handlers that have changed the engine and will call
`process_outputs`; `pass` is the position inside `process_outputs_once`; `workers`
are computations, which survive a stop of the driver. A pass may raise at any point
(`PassFail`): `c_output_actor` then goes idle, dropping the drained batch and the
joined request.

### Ciphertext, CipherShape, FieldWords

`pool` is the list of handles a caller has; beside its ciphertext a handle carries what a
caller may expect of it: the value, the depth of products, and `sound`, false where the
prior rule is known not to evaluate what was written (negative constants, a constant
added to a ciphertext without one). One action per entry point of `pvac_stubs.cpp`; `last`
is the outcome, an exception included. Abstractions:

* the field has 7 elements and 3 powers of g in the run; `FieldWords` shows that words
  implement a field of this form, and the rest of `Ciphertext` works on residues;
* hashes and commitments are terms; masks (`circuit_prf_R`, the older PRF) are tables, in
  which the circuit PRF has zeros and the older one has none;
* the random generator is a *tape*: a number of which each draw is a function. What a
  property says must hold for every tape;
* sigma vectors are subsets of two bits, enough for `sigma_needs_balance` to be true,
  false, and changed by a permutation and by sums.

`CipherShape` holds the definitions about positions alone. Where `merge` sorts and sums
runs, `Merge` takes the places in the order of `Position` (layer, index and sign as one
number) and sums over each; `Chosen` is the sequence of the members kept. What the
constants stand for is said by `FieldAssumption` (a field), `PowersAssumption` (g has
order `B`), `MaskAssumption`, `CallerAssumption`, `BoundAssumption` and `EvalKeyAssumption`
(`make_evalkey` did not throw).
`FieldWords` has the word size as a parameter: `h` is 2^63 in the code. Signed constants
go through the words of `fhe_calc.ml` (`AddIntWords`) and `fp_from_i64`.

### ComputeBuild

| variable | code |
|---|---|
| `slots`, `next`, `failed`, `data` | `BuildOwner`, `BuildTable` |
| `port`, `refs`, `freed` | `BuildPort`, the count of `Arc<ComputeBuild>`, memory that is gone |
| `handle`, `orphans` | OCaml custom blocks; replies an exception left to the collector |
| `pc`, `at`, `tok`, `item`, `work` | a thread inside `octra_compute_build_step` |
| `closing` | the close or finaliser under way, which holds the runtime |
| `ready`, `queue`, `wpc`, `wtok` | `retire_sender`, its channel, `retire_loop` |
| `cache`, `lease` | `ComputeCache` |
| `acked`, `returned` | history: what puts acknowledged, which closes returned |

An action is one section under a lock, or one stretch of C under the runtime. A put is
`ReadToken`, `PutCheck`, `PutCommit`; a seal `ReadToken`, `SealTake`, `SealPublish`,
`SealDrop`; a close `CloseTake`, `CloseTell`, `CloseSend`, `CloseEnd`. `Abandon` is a signal
handler that raises when the runtime is released: the reference stays in the reply and
`Collect` gives it back.

## 3. Runs

All runs use `CHECK_DEADLOCK FALSE` except `voting`: a height ends when it is
committed, the bounded quorum and pump models run out of votes and jobs, a caller stops
using ciphertexts, and all ports may be closed.

| run | question | result |
|---|---|---|
| `voting` | Do the rules keep `Agreement`? Two honest validators, a faulty one, three rounds, two values. | 145k states |
| `node_legacy` | Before `round_wait`: refinement, lock and memory/log agreement, with one crash, restart of the height or watchdog step anywhere | 332k states |
| `node_wait` | Under `round_wait`: refinement and timers; a crash, restart of the height or watchdog step anywhere, frames during start | 161k states |
| `node_release` | Three rounds, the peer alone is a quorum: locks open for newer POLCs only | 201k states |
| `node_pause` | Voting off and on between any two steps, invalid proposals, frames during start | 395k states |
| `node_disk` | Journal and log writes fail, plus a crash: durable before sent, hence no contradiction; records boot | 436k states |
| `node_progress` | With fairness: finality is applied | 205k states |
| `vote_log` | Two heights, three rounds, `round_wait` from the second height; two deaths or power losses and two other faults anywhere: no contradiction, every vote covered, none at or below the floor; the directory itself may be lost before its entry is synced | 3.9M states |
| `quorum_rules` | Seven validators (f = 2), weights 1 and 5 in every combination, three rules, with and without stake | 442k states |
| `output_pump` | Wakeups, replies; with fairness, outputs and proposals are served | 33k states |
| `ciphertext` | Every combination of two ciphertexts, fresh or stored by earlier programs, and two operations: right value, right references, rejection for cause, storing; words against the field | 204k states |
| `compute_build` | Two builds, one slot, a thread in put or seal, closes, finalisers, signals: no dangling port, exact storage, no late image, room in the channel; with fairness slots and ports come back | 282k states |

**Bounds.** One node and one peer suffice for `Node`, because the peer stands for
everybody else: with `BothQuorum` a quorum needs us and the rest, with `PeerQuorum`
the rest alone; skip weights are varied likewise (`AnySkip`, `PeerSkip`, `MeSkip`).
Two values make conflicts. Two rounds (`MaxRound = 1`) give every pair of a lock and
a later round; release of a lock needs a third (`node_release`, `voting`).
`MaxHeard` limits the peer's counted votes to two, enough to complete one quorum and
start a rival one. The peer offers prevotes and precommits; in
`node_release`, whose question is the release of locks, prevotes and a certificate. They are of round 0 except
there, so a second lock in a later round occurs in `node_release` only. `MaxLag` limits undrained
outputs to two. `MaxResets` counts watchdog steps and restarts of the height together; with `MaxCrashes`
and `MaxTrouble` there is one crash or one such step in a behaviour. Two larger instances were checked as well and
pass: `node_legacy` with the peer's prevotes of round 1 and without round reports (723k states), `node_wait`
with a crash and a reset in one behaviour and without the peer's nil precommits (369k states).
`EarlyFrames` says whether frames come in before `Start`. A legacy node resumes
*behind* its last vote, so `BootInBound` keeps that round within `MaxRound`.
In `MCVoteLog` the second height is the one with pruned predecessors and a floor to come
back under, and round 2 the limit at which a node must hold; `MaxFaults` counts failing
writes, unreadable records and returning ledgers together.
In `MCCiphertext` handles from outside are at most two (`MaxFresh`) and come first, results two
(`MaxHandles` is four together), and the second operation uses the first one's result: a join of
joins, a product of products, a layer dropped under a kept product all occur.
`MaxProducts` keeps out products of more than six pairs of layers. `Plain` has one
value of one slot and one of two, with a zero; seeds 2 and 3 have zero masks. `K` and `RepackEdges` are 2 (8
in the code): the last edge closes the sum whatever their number. An exception changes no
handle, so nothing follows one. The word sizes 2, 4 and 8 (`HalfWords`) are enumerated
over all operands; the theorems hold for all. The tapes of the run make no ciphertext of two
slots whose mask is the circuit's; those rest on the theorems.
In `MCComputeBuild` every limit is 1, so each one bites; two generations (`MaxGen`) and two
ports are an old and a new owner of one key; one thread is one put or seal
against a close, a new begin and the retirement thread. The same model with two threads
(3.2M states) was checked for its invariants and `NoLateImage`, with two values (602k states)
for `NothingIsKept`. A put against a seal of the same build, and a put whose key differs from the
one stored, do not occur in the run and rest on the theorems, which hold for any number.
In `MCVoting`, one faulty vote and one nil vote bound the search; faults are
unbounded in the proof. In `MCQuorumRule` weights do not fall with the validator's
number, which represents every assignment since the rules do not look at identities.
The totals 7, 11, ..., 35 meet every remainder of the division by three.
`Symmetry` permutes the values, which no definition tells apart; it is not used with
liveness properties.

**Fairness.** `FairNodeSpec`: the output actor takes its next output, a write the
actor waits for returns (possibly with an error), a dead process is restarted by its
supervisor and goes through its boot. Nothing is assumed of peers, network or timers.
`FairPumpSpec`: Lwt runs ready threads, handlers reach their final
`process_outputs`, a proposal check returns. `FairSpec` of `ComputeBuild`: native
calls, closes and the retirement thread are code that runs to its end, and a thread comes
back to OCaml when the runtime is free; nobody has to close a handle, and the collector
need not run. Weak fairness is enough everywhere.

## 4. Proofs

* **`VotingPumpProofs`, voting**: `VotingInvariant` (`Spec => []IInv`) and `VotingAgreement`
  (`Spec => []Agreement`) for any validators, values, rounds and quorums that
  satisfy `QuorumAssumption`. `Agreement` is not inductive. `IInv` adds: one vote per
  honest validator, type and round (`OneVote`); a prevote quorum behind each honest
  precommit (`PrecommitBacked`); later prevotes agree with it or are released by a
  certificate in between (`LockRespected`); finalized pairs have certificates
  (`DecidedCertified`). From `IInv`: if `v` has a precommit quorum in round `r`,
  take the *least* later round with a prevote quorum for another value; an honest
  member of both was released by a certificate in a round before that one, which
  is again such a round, contradiction.
* **`VotingPumpProofs`, networks**: `NetworkAgrees`. `KeepsRules` is `IInv` for one node, over what this node
  knows itself. If all honest nodes keep it and votes are authentic (what one counts for another was cast by
  it: signatures), then the union of their knowledge satisfies `IInv`, because the rules ask of the others only
  certificates, and a certificate that one node has seen is one of the network. So no two
  honest nodes finalize different values; `NodeKeepsRules` (below) provides `KeepsRules` for nodes that have not departed.
* **`QuorumRuleProofs`**: all properties of the `quorum_rules` run, for any finite validator set and any positive
  weights. `WeightInv`: each signer is counted and weighed once, with the weights that the rule makes of the chain's.
  From it: `CountQuorumsMeetAlways` (`2 * quorum - n > f`), `WeightQuorumsMeetAlways` and
  `SkipAlwaysBlocksQuorum` (what two sets share is counted twice); `CappedStaysLive` (the
  binary search keeps a live lower end, and a cap of one is live); `CertificateAlwaysAgrees` (a
  capped set is live with its own weights, so it is not capped again). `QuorumAssumptionHolds`:
  the sets that `has_quorum_for_rule` accepts satisfy `Voting`'s `QuorumAssumption` when the faulty
  have at most a third of the weight, or are at most f under a rule that counts. Sums over sets
  and the search are recursive functions; the library's induction rules cannot be used, so
  that they are defined, and what they yield, is shown with least counterexamples (`LeastNatural`,
  `SmallestSet`): a table that is right up to `n` gives one that is right up to `n + 1`.
* **`VotingPumpProofs`, output actor**: `PumpInvariant`, `PumpTypesHold`, `PumpNoLostWakeup`,
  `PumpOwnReplyOnce` for any bounds. `WakeInv` names who is responsible for each waiting piece of work
  (a handler that will ask, a joined request, the part of the pass still to come, or
  a raised pass); `SlotInv` says that ids not yet handed out were never answered and
  a ready slot holds its own job's reply.

* **`CipherOpProofs`**: `AdditionRight`, `MultiplicationRight`, `SignedWordsRight` (of
  `FieldWords`), for every `h >= 2`. The reduction is followed fold by fold: each fold keeps the residue,
  since twice `h` squared is one more than the modulus, and shrinks the value until one
  subtraction is enough; `WordsAgree` follows for the word sizes of any instance.
  `JoinKeepsReferences` and `KeepKeepsReferences` (of `CipherShape`): a position of the
  joined or shortened list carries the layer that the old position carried, parents
  stay below, edges stay placed; for dropping, because the number of kept positions up to `i` is
  one to one and monotone on the kept set.
* **`CiphertextProofs`** (on the lemmas of `CipherOpProofs`, one per operator): `CiphertextsFitTheKey`, `OperationsRejectForCause`, `LayersAlwaysKeepMeaning` and
  `SavedCiphersReadBack`, for every field, key, mask table, tape and pool, follow from
  `CipherInv`: each handle is `Good` and has the depth its expression has, and the last
  operation threw only for cause. None of the four is inductive: `compact_layers` rejects a
  ciphertext whose compaction loses a product, so `Good` adds to the shape (`ShapeOK`: layers, edges, weights and
  constants of the slots, one edge per place, masks of base layers without zeros)
  that no product can be dropped (`Needed`: its edges have a bit set, and one without edges
  is a parent). One lemma per operator says what it makes of good ciphertexts (`Alike`: as many
  slots, as deep), along the calls of the code. Depths and commitments are recursive functions
  over layers: `Embeds` says that a list of layers sits inside another with its references
  renamed, and that it does is kept by joining, dropping, multiplying and storing; then
  the old layers have the depths they had, by strong induction (`DepthMoves`), and a commitment still
  follows its parents', which moved along (`EmbedsCommit`).
  `HandlesDecryptRight` is `DecryptsRight` for every field, key, expression and tape: what a handle decrypts to is the
  value of the expression that built it. `ValInv` says it of every handle, since an
  operation reads old ones, and excepts as the property does an expression with a part for which the prior
  rule does not evaluate what is written. Vectors of slots form a ring, and decryption is a sum in it: the constant,
  and for each edge its term times the inverse mask of its layer (`DecFacts`). Each operation
  becomes an equation of sums: merging collects them by place (`PSumGroup`), dropping layers
  leaves out zeros and carries the masks along (`PSumChosen`), encryption makes up for the noise it adds, `ct_mul`
  multiplies two sums layer by layer (`PairSum`, `PSumTimes`; `PSumSquare` for `ct_square`, where
  equal pairs are taken once and doubled), and the mask of a product
  layer is the product of its parents' masks (`ProdInv`). `CipherInv`
  is a hypothesis of each equation: named layers exist, below, and their masks have inverses.
* **`ComputeBuildProofs`**: `BuildInvariant` and from it all of the run's safety properties, for any
  ports, keys, threads, values and limits (`LimitsAssumption`: the channel has one place per
  slot). None is inductive alone. `BuildInv` adds: what each step of a thread or close
  knows (`InsideInv`, `ThreadInv`); a reference for each handle, thread, orphan and close
  (`RefsInv`); generations not handed out are unused and no two slots share one
  (`FreshInv`); no image and no sealed data has the generation of a slot that still writes
  (`OwnerInv`); a thread that has taken data is alone with its slot (`SealInv`); a token
  in retirement is its slot's, closing, and there once (`RetireInv`); a build whose close has
  returned neither writes nor seals (`ReturnedInv`). The channel has room (`RoomInv`) since the tokens in it own
  different slots, of which there are at most `BuilderLimit`.

* **`VoteLogProofs`**: `LogInvariant`, and from it every property of the `vote_log` run, for any
  heights, rounds, values and any crash and power loss. `NeverContradicts` and
  `ReleasedIsCovered` are about what may still be lost, so `LogInv` adds: which height is being
  closed in each phase of the driver (`PhaseInv`); the floor never falls, is synced before the log is pruned
  and stays below the height until that is closed (`FloorInv`); a driver without an issue sees what
  is synced (`SyncInv`) and finds the records of its own votes (`MineInv`); and the records, the visible
  and the synced ones, hold each released vote or the synced floor covers it (`CoverInv`).
* **`EngineProofs`**: what each handler of the engine keeps, in three families of lemmas, one lemma per operator of
  `Engine`, composed along the calls, so that a handler's proof is the list of what it calls.
  `Fits`: the types, and the engine's own votes, its lock and its queued messages
  agree with the vote log and the saves under way. `Stands`: in a world of votes that exist, every
  counted vote, POLC, lock and certificate is backed by them (`Backs`), and the votes
  it is about to show obey the rules (`Sound`: locks kept, prevote before precommit, messages in order) as long as it has not departed.
  `Timed`: the timers. `Max` of a finite set is characterised (`MaxIsGreatest`) by a least
  counterexample.
* **`NodeProofs`**, for any peers, values, rounds, quorums and crash points:
  * `NodeInvariant`, and from it `NodeTypesHold`, `SentStaysDurable`, `LockStaysOverSent`, `MemoryStaysWithLog`,
    `RecordsAlwaysBoot`, failing writes included. `NodeInv` adds to the checked properties: while up, the engine
    `Fits` (`UpInv`); while down, nothing of the process is left (`DownInv`); only precommits for values
    wait for the journal, and a finished write is there (`SavingInv`); what was sent or is held
    back is logged (`SentInv`); a logged precommit for a value has its journal entry (`LogBacked`), and a
    journal entry is the log's vote of its round or the log has none (`JournalFits`).
  * `PolcStaysReal`, failing writes and restarted heights included, and `NodeRefinesVoting`, the refinement of `Voting`. The invariant
    is `StandInv(c)`: `NodeInv`; the engine `Stands` among the votes that exist; records show
    votes that exist; with `c`, until the node departs, all own votes that exist are on disk. The step proof maps each action to
    a vote, a set of the others' votes, a finalization or a stutter (`VotingStep`). The
    theorem's only hypothesis is that writes succeed (`~WriteFails`). Restarts of the height are among
    the steps: an own precommit in the tables is then on its way, on record, or in `lost`
    (`Settling`), and the first of the `lost` ones to be shown is the departure that `VotingSpec` excepts.
  * `NodeKeepsRules`: from the refinement, what the node knows keeps `KeepsRules` in every state in
    which it has not departed.
  * `NodeNeverStrands`. `NeverStranded` is not inductive: `ClockInv` adds that a vote timer of the current step is still
    armed and none of a later step exists (`TimersFit`), that in the propose step the node has no
    prevote of the round (`Unvoted`), and that a pending finality is final.

Assumptions are the named `ASSUME`s of the modules; TLC evaluates them in each run.

**Only model-checked**: `InversesAgree` of `Ciphertext` (what an exponentiation over the bits of the exponent
computes: an induction over data); the liveness properties `FinalityApplied`, `WorkIsServed` and
`NothingIsKept`, which with ENABLED are out of the prover's reach.

**From a node to the network.** The chain of theorems is: the quorum rules give `QuorumAssumption`
(`QuorumAssumptionHolds`), each node keeps the rules while its writes succeed and until it departs (`NodeKeepsRules`), nodes that do agree
(`NetworkAgrees`): a node that has shown a dropped precommit, or whose writes fail, counts among
the faulty ones there. Two links are not theorems: that signatures make votes
authentic, and that the modules' constants stand for the same validators, quorums and
rounds (no module instantiates several nodes at once).

## 5. Observations

Places where reading and checking showed something a maintainer should know. No
document or comment of the repository states the contrary, so none is a finding.

* **A refused save does not stop the engine.** `can_vote` (`c_driver.ml` 465) does
  not look at `vote_log_issue`, while the actor's condition (657) does. After a failed
  write the engine still counts its own precommit, which can leave the node inside
  a finalize message although the log never took it. `VotingSpec` is therefore checked
  with writes that succeed; `node_disk` checks what holds regardless: vote *messages*
  are on record before they leave, so that none contradicts another.
* **Starting a height again drops votes that were not saved yet.** `start_height` (`c_engine.ml`
  893-924) empties `outputs` and keeps `prevotes_by_round` and `precommits_by_round`. When the *same*
  height begins again, an own vote that was only queued is dropped, while the
  engine goes on counting it: a later precommit quorum of that round puts the
  own precommit into a finalize message, though neither log nor journal holds it. The
  height begins again with a catch-up of a node without `round_wait` (`c_driver.ml` 5751,
  `consensus_catchup_shell.ml` 1261, 1538-1547), and for every node when the end of a
  height comes back from its awaits after a catch-up has begun the next one (`c_driver.ml` 3682-3699; the
  check at 3645 is before them), or when a proposal check finds its height stale
  (`consensus_proposal.ml` 1556). `VotingSpec` excepts the finalize message that shows such a
  vote (`Departed`, by the history `lost`); without the exception TLC
  violates it in seven states of `node_legacy` and six of `node_wait`.
  `LockCoversSent`, `MemoryFitsLog`, `SentIsDurable` and `PolcIsReal` need no exception.
* **A finalized engine still proposes.** `do_propose` (`c_engine.ml` 1371) and
  `finish_build` (`c_driver.ml` 3024) do not look at finality: a leader whose build ends after
  the certificate prevotes the final value, against its own earlier precommit and
  with no certificate in between. Harmless, as that value is final, but
  outside the rule of `Voting`; `VotingSpec` excepts it (`Departed`, by the history `late`).
* **Frames during start.** The driver handles frames while `start` waits for peers
  (`c_driver.ml` 5842-5904). A vote then makes the engine not pristine, `start_height` is
  skipped and no propose timer is armed. `NeverStranded` excepts this engine; a
  proposal, a round skip or the watchdog moves it on.
* **A decided value whose proposal is missing.** Under `round_wait`, precommits of the others that decide
  a value make `on_vote` let the round stand: without the proposal the engine cannot finalize, and no
  timer is armed. The proof of `NeverStranded` met this where the others alone are a quorum,
  which no run of the property has; the property now names it. The
  proposal or a finalize message moves the node on.
* **A new vote log directory.** `directory` makes it and then syncs its parent
  (`c_vote_log.ml` 121). A process that dies in between finds the directory at its next start
  and never syncs the parent, so a power loss may still take the directory, with votes that
  were sent. `vote_log` lets this happen and shows that nothing else is ever lost: the
  properties hold from each such loss on, and across everything else.
* **An issue raised too late is cleared.** While the end of a height waits, a catch-up may
  begin the next height; what it writes to `vote_log_issue` is cleared when `start_height` begins that
  height again (`c_driver.ml` 3697; `NextHeight` of `VoteLog`, `ReopenHeight` of `Node`). `vote_log` shows this to be harmless
  for the records: the resume that follows syncs and reads the log anew.
* **A product with a bare constant.** `ct_mul` of a ciphertext with layers and one without
  (a constant alone, which the formats admit) is rejected by `compact_layers`: dropping the
  layers no product edge names leaves the cross terms, which are appended afterwards, without
  theirs. A caller sees "compact layers shape rejected" although the product exists.
  `RejectsForCause` lists it.
* **The edge budget.** The results of the operations never have two edges of the same layer,
  index and sign (`OneEdgePerPlace`, part of `CipherTypeOK`): what `guard_budget` can win by merging is only edges
  that are zero.
* **Numbers lost under the prior rule.** `ct_add_const` without `math` does nothing to a
  ciphertext without a constant, and negative numbers count modulo 2^64. Both are kept for
  old epochs; `sound` marks them.
* **A pass that raises** loses the outputs it had drained. Pending finality is not
  lost, because it is appended to each later batch.

## 6. Not modelled, and why

* Relief and `reconfigure_validator_set`: a change of the validator set inside a
  height. Planned, next to the engine's projection code.
* Other heights in `Node`: a height is a run (`VoteLog` spans several); frames of other heights are deferred or answered
  without touching this height's votes. `finality_proof_needed` concerns only the
  boot (it starts true at most once and only turns false), so its refusal in
  `saved_vote` meets restored votes only.
* `restore_polc`: a stored POLC is re-delivered by the environment as votes. The
  `durable_votes` shortcut, which skips a second write, is covered by writing the
  same ballot again.
* Clocks: a timer may fire whenever it is armed. Grace times (`round_skip_ready`) are
  free choices (`SkipReady`).
* `on_finalized` is one step; the order of its ledger writes is another model.
* Signatures, hashes, codecs, VM, RPC, storage engines: pure data or I/O.
* Of the native code: `src/mcl` (elliptic curves, code generators, third party), ristretto,
  bulletproofs, zero and range proofs, native recryption and its certificates
  (`recrypt_native_cert.hpp`). They compute with large numbers and what they promise
  is computational hardness; a small instance would say nothing about it. They
  are by far the most lines of C and C++ in the repository, so the share of those
  lines that is modelled stays small.
* The size limits that `pvac_serialize.hpp` applies when it reads a ciphertext: `Load` reads what fits them.
* Key generation and the PRFs: masks are tables in `Ciphertext`. Ciphertexts with proofs
  attached: the proofs do not take part in the arithmetic.
* Call sessions (`call_step.rs`, `caml_octra_circle_call_*`), the memory pool
  (`native_bytes.rs`), the callback bridge into `pvac`, poisoned locks, the cache's clock and
  its status and read operations.

## 7. Plan

Done: consensus core; vote log with its directory; ciphertexts and field; image builds; the proofs of
section 4. Next:

1. `VoteLog`: the POLC and proposal store, and the journal copied into the log at boot;
   shown to implement the write-once log that `Node` uses.
2. Relief: reconfiguration of the validator set inside a height, in `Engine`/`Node`,
   and `c_relief_log`.
3. Finality log, journal recovery and the order of writes in epoch application.
4. Catch-up and sync log: durable round reports, range agreement.
5. The bounded tables of the driver: round pool, reply window, seen set, pace, relay,
   query budget, proof search.
6. A composition of several nodes over a lossy network, small, that instantiates `Node` twice
   beside the theorems that connect them.
7. Call sessions of the native host, beside `ComputeBuild`, with the same lock discipline.
