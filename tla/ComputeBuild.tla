---------------------------- MODULE ComputeBuild ----------------------------
(***************************************************************************)
(* Building a compute image in native memory: circle_wasm_native_stubs.c   *)
(* and the builder table, ports, retirement thread and image cache behind  *)
(* it (circle_wasm_native/src/lib.rs).                                     *)
(*                                                                         *)
(* OCaml holds a handle to a port.  A port begins one build: a slot of the *)
(* builder table for a cache key, with a generation number, and data that  *)
(* puts fill.  A seal takes the data out of the table, compares it with    *)
(* what the caller expects, and publishes it in the image cache.  Closing  *)
(* the handle while the build is still writing sends it to a thread that   *)
(* frees the data and then the slot.                                       *)
(*                                                                         *)
(* Put and seal run with the OCaml runtime released, so the handle may be  *)
(* closed, finalised or its key given to another build between any two of  *)
(* their locked sections.  Beginning and closing hold the runtime, and so  *)
(* exclude each other, but not the native sections.  One action is one     *)
(* section under a lock, or one step of C code under the runtime.          *)
(*                                                                         *)
(* Left out: poisoned locks (only a panic inside a section poisons one),   *)
(* and the clock that orders the cache (any image nobody holds may be the  *)
(* oldest).  acked and returned are history: they record what callers have *)
(* been told.                                                              *)
(***************************************************************************)
EXTENDS Integers, Sequences, FiniteSets

CONSTANTS
    Port,          \* the ports, one handle each
    Key,           \* cache keys
    Thread,        \* threads that run put and seal
    Lease,         \* lease handles
    Name,          \* storage keys of an image
    Val,           \* storage values
    BuilderLimit,  \* COMPUTE_STORAGE_BUILDER_LIMIT
    QueueLimit,    \* the capacity of the retirement channel
    CacheLimit,    \* COMPUTE_STORAGE_CACHE_LIMIT
    LeaseLimit,    \* COMPUTE_STORAGE_LEASE_LIMIT
    EntryLimit,    \* COMPUTE_STORAGE_ENTRY_LIMIT and _BYTE_LIMIT, values being of one size
    MaxGen,        \* the last generation (i64::MAX)
    MaxOrphans,    \* bound: replies of one port the collector has still to visit
    NoKey, NoVal, NoPort

\* retire_ready: the channel has one place per slot of the table.
ASSUME LimitsAssumption ==
    /\ BuilderLimit \in Nat \ {0} /\ QueueLimit = BuilderLimit
    /\ MaxGen \in Nat /\ MaxOrphans \in Nat /\ CacheLimit \in Nat /\ LeaseLimit \in Nat /\ EntryLimit \in Nat

ASSUME NamesAssumption ==
    /\ NoKey \notin Key /\ NoVal \notin Val /\ NoPort \notin Port
    /\ IsFiniteSet(Key) /\ IsFiniteSet(Port) /\ IsFiniteSet(Thread)

VARIABLES
    slots,     \* BuildOwner.slots: the generation and phase of each key
    next,      \* BuildOwner.next
    failed,    \* BuildOwner.failed
    data,      \* BuildTable.data, with the generation that owns it
    port,      \* BuildPort: the token and whether the port is closed
    handle,    \* the ports an OCaml handle still points to
    refs,      \* the counts of Arc<ComputeBuild>
    orphans,   \* native_reply values an exception has left to the collector
    freed,     \* ports whose memory is gone
    pc, at, tok, item, work,   \* a thread in put or seal: step, port, token, pair, data
    closing,   \* the close in progress, which holds the runtime
    ready,     \* the retirement thread is running
    queue, wpc, wtok,          \* its channel, step and token
    cache,     \* ComputeCache.entries
    lease,     \* ComputeCache.leases
    acked,     \* history: what each generation's puts have acknowledged
    returned   \* history: the tokens whose close has returned

owner == <<slots, next, failed>>
ports == <<port, handle, refs, orphans, freed>>
threads == <<pc, at, tok, item, work>>
retirement == <<ready, queue, wpc, wtok>>
vars == <<owner, data, ports, threads, closing, retirement, cache, lease, acked, returned>>

-----------------------------------------------------------------------------

Phase == {"none", "writing", "sealing", "closing"}
Gen == 0..MaxGen
Slots == [id : Gen, phase : Phase]

NoSlot == [id |-> 0, phase |-> "none"]
Items == [Name -> Val \cup {NoVal}]
NoItems == [n \in Name |-> NoVal]
Images == [id : Gen, items : Items]
NoData == [id |-> 0, items |-> NoItems]
NoItem == <<NoVal, NoVal>>
NoToken == [key |-> NoKey, id |-> 0]
Token == [key : Key, id : 1..MaxGen]
Closings == [pc : {"none", "take", "tell", "send", "end"}, port : Port \cup {NoPort},
             tok : Token \cup {NoToken}, last : BOOLEAN]
NoClose == [pc |-> "none", port |-> NoPort, tok |-> NoToken, last |-> FALSE]

Slot(id, phase) == [id |-> id, phase |-> phase]
Image(id, items) == [id |-> id, items |-> items]

Taken == {k \in Key : slots[k] # NoSlot}
Cached == {k \in Key : cache[k] # NoData}
Held(k) == \E l \in Lease : lease[l].key = k

\* Whoever needs the OCaml runtime has it: no close is in progress.
RuntimeFree == closing.pc = "none"

\* BuildMessage::Check
Checks(token, phase) == ~failed /\ slots[token.key] = Slot(token.id, phase)

\* next_weight
Fits(items, n) ==
    items[n] # NoVal \/ Cardinality({m \in Name : items[m] # NoVal}) < EntryLimit

-----------------------------------------------------------------------------
(* Ports *)

\* Every port has been made (caml_octra_compute_build_new).
Init ==
    /\ slots = [k \in Key |-> NoSlot] /\ next = 0 /\ failed = FALSE
    /\ data = [k \in Key |-> NoData]
    /\ port = [p \in Port |-> [token |-> NoToken, closed |-> FALSE]]
    /\ handle = Port /\ refs = [p \in Port |-> 1] /\ orphans = [p \in Port |-> 0] /\ freed = {}
    /\ pc = [t \in Thread |-> "idle"] /\ at = [t \in Thread |-> NoPort]
    /\ tok = [t \in Thread |-> NoToken] /\ item = [t \in Thread |-> NoItem]
    /\ work = [t \in Thread |-> NoData]
    /\ closing = NoClose
    /\ ready = FALSE /\ queue = <<>> /\ wpc = "idle" /\ wtok = NoToken
    /\ cache = [k \in Key |-> NoData]
    /\ lease = [l \in Lease |-> [key |-> NoKey, items |-> NoItems]]
    /\ acked = [g \in Gen |-> NoItems] /\ returned = {}

\* build_begin.  The port's lock is held throughout, and the retirement thread
\* is started before the slot is taken.  A refused begin changes nothing: the
\* table refuses only when an earlier begin has started the thread.
Begin(p, k) ==
    /\ RuntimeFree /\ p \in handle
    /\ ~port[p].closed /\ port[p].token = NoToken
    /\ ~failed /\ slots[k] = NoSlot /\ Cardinality(Taken) < BuilderLimit /\ next < MaxGen
    /\ ready' = TRUE
    /\ next' = next + 1
    /\ slots' = [slots EXCEPT ![k] = Slot(next + 1, "writing")]
    /\ data' = [data EXCEPT ![k] = Image(next + 1, NoItems)]
    /\ port' = [port EXCEPT ![p].token = [key |-> k, id |-> next + 1]]
    /\ UNCHANGED <<failed, handle, refs, orphans, freed, threads, closing, queue, wpc, wtok,
                   cache, lease, acked, returned>>

-----------------------------------------------------------------------------
(* Put and seal: caml_octra_compute_build_step and what it calls *)

\* The native call returns; its token and pair are gone.
Returns(t) ==
    /\ pc' = [pc EXCEPT ![t] = "leave"]
    /\ tok' = [tok EXCEPT ![t] = NoToken]
    /\ item' = [item EXCEPT ![t] = NoItem]

\* Mutant: the step uses the handle's own reference.
RetainNone(p) == refs

Retain(p) == [refs EXCEPT ![p] = @ + 1]

\* The step keeps the port alive before it releases the runtime.  A handle
\* that is closed already has nothing to retain, and the step is refused.
Enter(t, p) ==
    /\ RuntimeFree /\ pc[t] = "idle" /\ p \in handle
    /\ refs' = Retain(p)
    /\ at' = [at EXCEPT ![t] = p]
    /\ pc' = [pc EXCEPT ![t] = "enter"]
    /\ UNCHANGED <<owner, data, port, handle, orphans, freed, tok, item, work, closing,
                   retirement, cache, lease, acked, returned>>

\* A signal handler raises when the runtime is released: the call is never
\* made, and the collector gets the reply with the reference in it.
Abandon(t) ==
    /\ RuntimeFree /\ pc[t] = "enter" /\ orphans[at[t]] < MaxOrphans
    /\ pc' = [pc EXCEPT ![t] = "idle"]
    /\ at' = [at EXCEPT ![t] = NoPort]
    /\ orphans' = [orphans EXCEPT ![at[t]] = @ + 1]
    /\ UNCHANGED <<owner, data, port, handle, refs, freed, tok, item, work, closing,
                   retirement, cache, lease, acked, returned>>

\* ComputeBuild::token, under the port's lock, and the choice of put or seal.
ReadToken(t) ==
    /\ pc[t] = "enter"
    /\ LET token == port[at[t]].token
       IN  IF token = NoToken
           THEN Returns(t)
           ELSE /\ \E step \in {"check", "take"} : pc' = [pc EXCEPT ![t] = step]
                /\ tok' = [tok EXCEPT ![t] = token]
                /\ UNCHANGED item
    /\ UNCHANGED <<owner, data, ports, at, work, closing, retirement, cache, lease,
                   acked, returned>>

\* put_storage, before the value is decoded.
PutCheck(t) ==
    /\ pc[t] = "check"
    /\ LET k == tok[t].key
       IN  \E n \in Name, v \in Val :
               IF Checks(tok[t], "writing") /\ data[k] # NoData /\ Fits(data[k].items, n)
               THEN /\ pc' = [pc EXCEPT ![t] = "commit"]
                    /\ item' = [item EXCEPT ![t] = <<n, v>>]
                    /\ UNCHANGED tok
               ELSE Returns(t)
    /\ UNCHANGED <<owner, data, ports, at, work, closing, retirement, cache, lease,
                   acked, returned>>

\* The value does not decode, or its memory is refused.
PutRefuse(t) ==
    /\ pc[t] = "commit" /\ Returns(t)
    /\ UNCHANGED <<owner, data, ports, at, work, closing, retirement, cache, lease,
                   acked, returned>>

\* Mutant: the slot is looked up by its key only.
CommitChecksKey(token) == ~failed /\ slots[token.key].phase = "writing"

CommitChecks(token) == Checks(token, "writing")

\* commit_storage: the builder may have changed while the value was decoded.
PutCommit(t) ==
    /\ pc[t] = "commit" /\ Returns(t)
    /\ LET k == tok[t].key
           n == item[t][1]
           v == item[t][2]
           accepted == /\ CommitChecks(tok[t]) /\ data[k] # NoData
                       /\ Fits(data[k].items, n) /\ data[k].items[n] \in {NoVal, v}
       IN  IF accepted
           THEN /\ data' = [data EXCEPT ![k].items[n] = v]
                /\ acked' = [acked EXCEPT ![tok[t].id][n] = v]
           ELSE UNCHANGED <<data, acked>>
    /\ UNCHANGED <<owner, ports, at, work, closing, retirement, cache, lease, returned>>

\* build_take, and the comparison of the data with the root, the entries and
\* the bytes the caller expects: only the same data is published.
SealTake(t) ==
    /\ pc[t] = "take"
    /\ LET k == tok[t].key
       IN  IF Checks(tok[t], "writing")
           THEN /\ slots' = [slots EXCEPT ![k] = Slot(tok[t].id, "sealing")]
                /\ data' = [data EXCEPT ![k] = NoData]
                /\ work' = [work EXCEPT ![t] = data[k]]
                /\ IF data[k] = NoData
                   THEN Returns(t)
                   ELSE /\ \E step \in {"publish", "drop"} : pc' = [pc EXCEPT ![t] = step]
                        /\ UNCHANGED <<tok, item>>
           ELSE Returns(t) /\ UNCHANGED <<slots, data, work>>
    /\ UNCHANGED <<next, failed, ports, at, closing, retirement, cache, lease,
                   acked, returned>>

\* Mutant: the build is not looked up again.
PublishChecksNone(token) == TRUE

PublishChecks(token) == Checks(token, "sealing")

Victims(k) == {v \in Cached : ~Held(v)}

\* CacheMessage::Seal: an image somebody holds stays; another may have to go.
SealCache(k, image) ==
    IF Held(k) \/ (cache[k] = NoData /\ Cardinality(Cached) >= CacheLimit /\ Victims(k) = {})
    THEN UNCHANGED cache
    ELSE IF cache[k] # NoData \/ Cardinality(Cached) < CacheLimit
    THEN cache' = [cache EXCEPT ![k] = image]
    ELSE \E v \in Victims(k) : cache' = [cache EXCEPT ![v] = NoData, ![k] = image]

\* build_publish, under the table's and the cache's lock.
SealPublish(t) ==
    /\ pc[t] = "publish"
    /\ pc' = [pc EXCEPT ![t] = "drop"]
    /\ IF PublishChecks(tok[t]) THEN SealCache(tok[t].key, work[t]) ELSE UNCHANGED cache
    /\ UNCHANGED <<owner, data, ports, at, tok, item, work, closing, retirement, lease,
                   acked, returned>>

\* BuildMessage::Finish
Finish(token) ==
    LET s == slots[token.key]
    IN  IF s.id = token.id /\ s.phase # "writing"
        THEN slots' = [slots EXCEPT ![token.key] = NoSlot]
        ELSE UNCHANGED slots

\* BuildWork::drop
SealDrop(t) ==
    /\ pc[t] = "drop" /\ Returns(t)
    /\ work' = [work EXCEPT ![t] = NoData]
    /\ Finish(tok[t])
    /\ UNCHANGED <<next, failed, data, ports, at, closing, retirement, cache, lease,
                   acked, returned>>

\* octra_compute_build_release: the last reference closes the port and frees it.
Release(p) ==
    /\ refs' = [refs EXCEPT ![p] = @ - 1]
    /\ closing' = IF refs[p] = 1
                  THEN [pc |-> "take", port |-> p, tok |-> NoToken, last |-> TRUE]
                  ELSE NoClose

\* The runtime is back.
LeaveReleasing(t) ==
    /\ RuntimeFree /\ pc[t] = "leave"
    /\ Release(at[t])

Leave(t) ==
    /\ LeaveReleasing(t)
    /\ pc' = [pc EXCEPT ![t] = "idle"]
    /\ at' = [at EXCEPT ![t] = NoPort]
    /\ UNCHANGED <<owner, data, port, handle, orphans, freed, tok, item, work, retirement, cache, lease,
                   acked, returned>>

\* Mutant: a reply keeps its port after the reference is given back.
OwesAlways(p) == TRUE

\* A reply whose port is not NULL.
Owes(p) == orphans[p] > 0

\* native_reply_release of a reply an exception left behind.
Collect(p) ==
    /\ RuntimeFree /\ Owes(p)
    /\ orphans' = [orphans EXCEPT ![p] = @ - 1]
    /\ Release(p)
    /\ UNCHANGED <<owner, data, port, handle, freed, threads, retirement, cache, lease,
                   acked, returned>>

-----------------------------------------------------------------------------
(* Closing: build_release of the stubs, and ComputeBuild::close *)

\* caml_octra_compute_build_close, or the finaliser of the handle.
Close(p) ==
    /\ RuntimeFree /\ p \in handle
    /\ closing' = [pc |-> "take", port |-> p, tok |-> NoToken, last |-> FALSE]
    /\ UNCHANGED <<owner, data, ports, threads, retirement, cache, lease, acked, returned>>

CloseTake ==
    /\ closing.pc = "take"
    /\ LET p == closing.port
       IN  /\ port' = [port EXCEPT ![p] = [token |-> NoToken, closed |-> TRUE]]
           /\ closing' = [closing EXCEPT !.tok = port[p].token,
                              !.pc = IF port[p].token = NoToken THEN "end" ELSE "tell"]
    /\ UNCHANGED <<owner, data, handle, refs, orphans, freed, threads, retirement, cache, lease,
                   acked, returned>>

\* Mutant: a build that is being sealed is retired too.
RetiresAny(token) == slots[token.key].id = token.id

Retires(token) == slots[token.key] = Slot(token.id, "writing")

Closes(token) == slots[token.key].id = token.id

\* BuildMessage::Close
CloseTell ==
    /\ closing.pc = "tell"
    /\ LET token == closing.tok
       IN  /\ slots' = IF Closes(token)
                       THEN [slots EXCEPT ![token.key] = Slot(@.id, "closing")]
                       ELSE slots
           /\ closing' = [closing EXCEPT !.pc = IF Retires(token) THEN "send" ELSE "end"]
    /\ UNCHANGED <<next, failed, data, ports, threads, retirement, cache, lease, acked, returned>>

\* try_send; what cannot be delivered stops the table for good.
CloseSend ==
    /\ closing.pc = "send"
    /\ closing' = [closing EXCEPT !.pc = "end"]
    /\ LET delivered == ready /\ Len(queue) < QueueLimit
       IN  /\ queue' = IF delivered THEN Append(queue, closing.tok) ELSE queue
           /\ failed' = (failed \/ ~delivered)
    /\ UNCHANGED <<slots, next, data, ports, threads, ready, wpc, wtok, cache, lease,
                   acked, returned>>

\* The close of a handle gives its reference back; the close of the last
\* reference frees the port.
CloseEnd ==
    /\ closing.pc = "end"
    /\ LET p == closing.port
       IN  IF closing.last
           THEN /\ freed' = freed \cup {p}
                /\ closing' = NoClose
                /\ UNCHANGED <<handle, refs>>
           ELSE /\ handle' = handle \ {p}
                /\ Release(p)
                /\ UNCHANGED freed
    /\ returned' = returned \cup ({closing.tok} \ {NoToken})
    /\ UNCHANGED <<owner, data, port, orphans, threads, retirement, cache, lease, acked>>

-----------------------------------------------------------------------------
(* The retirement thread: retire_loop *)

WorkerReceive ==
    /\ wpc = "idle" /\ queue # <<>>
    /\ wtok' = Head(queue) /\ queue' = Tail(queue) /\ wpc' = "free"
    /\ UNCHANGED <<owner, data, ports, threads, closing, ready, cache, lease, acked, returned>>

WorkerFree ==
    /\ wpc = "free"
    /\ data' = IF slots[wtok.key] = Slot(wtok.id, "closing")
               THEN [data EXCEPT ![wtok.key] = NoData] ELSE data
    /\ wpc' = "finish"
    /\ UNCHANGED <<owner, ports, threads, closing, ready, queue, wtok, cache, lease,
                   acked, returned>>

\* Mutant: the slot is never given back.
WorkerForget == wpc = "finish" /\ UNCHANGED slots

WorkerRemove == wpc = "finish" /\ Finish(wtok)

WorkerFinish ==
    /\ WorkerRemove
    /\ wpc' = "idle" /\ wtok' = NoToken
    /\ UNCHANGED <<next, failed, data, ports, threads, closing, ready, queue, cache, lease,
                   acked, returned>>

-----------------------------------------------------------------------------
(* The image cache *)

\* run_compute_storage_drop; a key with a build, or held, is busy.
Drop(k) ==
    /\ slots[k] = NoSlot /\ ~Held(k) /\ cache[k] # NoData
    /\ cache' = [cache EXCEPT ![k] = NoData]
    /\ UNCHANGED <<owner, data, ports, threads, closing, retirement, lease, acked, returned>>

\* octra_compute_lease_hold of the image the caller expects.
Hold(l, k) ==
    /\ RuntimeFree /\ lease[l].key = NoKey /\ cache[k] # NoData
    /\ Cardinality({m \in Lease : lease[m].key # NoKey}) < LeaseLimit
    /\ lease' = [lease EXCEPT ![l] = [key |-> k, items |-> cache[k].items]]
    /\ UNCHANGED <<owner, data, ports, threads, closing, retirement, cache, acked, returned>>

\* caml_octra_compute_lease_close; the handle is replaced by a new one.
Unhold(l) ==
    /\ RuntimeFree /\ lease[l].key # NoKey
    /\ lease' = [lease EXCEPT ![l] = [key |-> NoKey, items |-> NoItems]]
    /\ UNCHANGED <<owner, data, ports, threads, closing, retirement, cache, acked, returned>>

-----------------------------------------------------------------------------

NativeStep(t) ==
    \/ ReadToken(t) \/ PutCheck(t) \/ PutRefuse(t) \/ PutCommit(t)
    \/ SealTake(t) \/ SealPublish(t) \/ SealDrop(t)

CloseStep == CloseTake \/ CloseTell \/ CloseSend \/ CloseEnd

WorkerStep == WorkerReceive \/ WorkerFree \/ WorkerFinish

Next ==
    \/ \E p \in Port, k \in Key : Begin(p, k)
    \/ \E p \in Port : Close(p) \/ Collect(p)
    \/ \E t \in Thread, p \in Port : Enter(t, p)
    \/ \E t \in Thread : Abandon(t) \/ Leave(t) \/ NativeStep(t)
    \/ CloseStep \/ WorkerStep
    \/ \E k \in Key : Drop(k)
    \/ \E l \in Lease : Unhold(l) \/ \E k \in Key : Hold(l, k)

Spec == Init /\ [][Next]_vars

\* Native calls, closes and the retirement thread are code that runs to its
\* end; nobody has to close a handle, and a thread comes back to OCaml when
\* the runtime is free.
FairSpec ==
    /\ Spec
    /\ \A t \in Thread : WF_vars(NativeStep(t)) /\ WF_vars(Leave(t))
    /\ WF_vars(CloseStep) /\ WF_vars(WorkerStep)

-----------------------------------------------------------------------------
(* Properties *)

TableTypeOK ==
    /\ slots \in [Key -> Slots] /\ next \in Gen /\ failed \in BOOLEAN
    /\ data \in [Key -> Images]

PortsTypeOK ==
    /\ port \in [Port -> [token : Token \cup {NoToken}, closed : BOOLEAN]]
    /\ handle \subseteq Port /\ freed \subseteq Port
    /\ refs \in [Port -> Int] /\ orphans \in [Port -> Nat]

ThreadsTypeOK ==
    /\ pc \in [Thread -> {"idle", "enter", "check", "commit", "take", "publish", "drop", "leave"}]
    /\ at \in [Thread -> Port \cup {NoPort}]
    /\ tok \in [Thread -> Token \cup {NoToken}]
    /\ item \in [Thread -> (Name \X Val) \cup {NoItem}]
    /\ work \in [Thread -> Images]

RetirementTypeOK ==
    /\ closing \in Closings
    /\ ready \in BOOLEAN /\ queue \in Seq(Token)
    /\ wpc \in {"idle", "free", "finish"} /\ wtok \in Token \cup {NoToken}

CacheTypeOK ==
    /\ cache \in [Key -> Images]
    /\ lease \in [Lease -> [key : Key \cup {NoKey}, items : Items]]
    /\ acked \in [Gen -> Items] /\ returned \subseteq Token

BuildTypeOK ==
    TableTypeOK /\ PortsTypeOK /\ ThreadsTypeOK /\ RetirementTypeOK /\ CacheTypeOK

\* A freed port is nobody's: no handle, no thread inside put or seal, no reply
\* the collector has still to release, and no close but its own last one.
NoDanglingPort ==
    \A p \in freed :
        /\ p \notin handle /\ orphans[p] = 0
        /\ \A t \in Thread : at[t] # p
        /\ closing.port # p

\* Whatever is being built, sealed or cached is exactly what the puts of that
\* one generation were told is stored: nothing is lost, and a put that decoded
\* its value while the key changed hands writes nothing into the replacement.
StoredIsAcknowledged ==
    /\ \A k \in Key : data[k].items = acked[data[k].id] /\ cache[k].items = acked[cache[k].id]
    /\ \A t \in Thread : work[t].items = acked[work[t].id]

\* The retirement of a token is still to come.
Retiring(token) ==
    \/ closing.pc = "send" /\ closing.tok = token
    \/ \E i \in 1..Len(queue) : queue[i] = token
    \/ wpc = "free" /\ wtok = token

\* The table holds data for a key exactly while its slot's own generation is
\* writing, or is closed and not yet retired: no data outlives its slot, and no
\* slot loses its data to the close or retirement of another generation.
DataFollowsSlot ==
    \A k \in Key :
        LET s == slots[k]
            owned == \/ s.phase = "writing"
                     \/ s.phase = "closing" /\ Retiring([key |-> k, id |-> s.id])
        IN  data[k].id = (IF owned THEN s.id ELSE 0)

\* Once close has returned, the build publishes no image, even if a seal had
\* taken the data before the close.
NoLateImage ==
    [][\A k \in Key :
           cache'[k] \notin {cache[k], NoData} => [key |-> k, id |-> cache'[k].id] \notin returned]_vars

\* What a lease holds stays cached, entry for entry, whatever is sealed,
\* evicted or dropped meanwhile.
LeaseKeepsEntry ==
    \A l \in Lease :
        lease[l].key # NoKey =>
            /\ cache[lease[l].key] # NoData
            /\ cache[lease[l].key].items = lease[l].items

\* What is kept in native memory is exact: acknowledged pairs, owned by the
\* build that stored them, for as long as somebody may read them.
StorageExact == StoredIsAcknowledged /\ DataFollowsSlot /\ LeaseKeepsEntry

\* The retirement channel always has room, so no close stops the table.
NeverStops == ~failed

\* A slot that no longer accepts puts is given back.
SlotComesBack ==
    \A k \in Key : slots[k].phase \in {"sealing", "closing"} ~> slots[k].phase \in {"none", "writing"}

\* A closed port is freed as soon as the calls inside it have come back; only a
\* reply an exception left behind makes it wait for the collector.
PortIsFreed ==
    \A p \in Port : p \notin handle ~> p \in freed \/ orphans[p] > 0

\* Neither a slot of the builder table nor the memory of a port is kept for
\* ever by a build nobody uses any more.
NothingIsKept == SlotComesBack /\ PortIsFreed
=============================================================================
