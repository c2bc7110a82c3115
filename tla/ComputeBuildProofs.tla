------------------------- MODULE ComputeBuildProofs -------------------------
(***************************************************************************)
(* The builder table and the image cache are safe for any number of ports, *)
(* keys, threads, leases and storage pairs, and for any limits.            *)
(*                                                                         *)
(* RefsInv counts the references to a port.  FreshInv bounds the           *)
(* generations, so a new one is new everywhere.  ThreadInv says that the   *)
(* data of a seal is the thread's own, and that its slot is still there.   *)
(* RetireInv says that every token on its way to the retirement thread     *)
(* has a closed slot of its own, which is why the channel has room.        *)
(***************************************************************************)
EXTENDS ComputeBuild, FunctionTheorems, FiniteSetTheorems, TLAPS

Users(p) == {t \in Thread : at[t] = p}
Handles(p) == IF p \in handle THEN 1 ELSE 0

InsideInv == \A t \in Thread : pc[t] = "idle" <=> at[t] = NoPort

RefsInv ==
    /\ \A p \in Port : refs[p] = Handles(p) + Cardinality(Users(p)) + orphans[p]
    /\ \A p \in freed : refs[p] = 0
    /\ closing.pc = "none" => closing = NoClose
    /\ closing.pc # "none" => closing.port \in Port
    /\ closing.pc # "none" /\ ~closing.last => closing.port \in handle
    /\ closing.last => refs[closing.port] = 0 /\ closing.port \notin freed

FreshInv ==
    /\ \A k \in Key : slots[k].id <= next /\ cache[k].id <= next
    /\ \A k \in Key : slots[k].id = 0 <=> slots[k].phase = "none"
    /\ \A j, k \in Key : slots[j].id = slots[k].id /\ slots[j].id # 0 => j = k
    /\ \A t \in Thread : work[t].id <= next
    /\ \A token \in returned : token.id <= next
    /\ \A p \in Port : port[p].token.id <= next
    /\ closing.tok.id <= next
    /\ \A g \in Gen : (g = 0 \/ g > next) => acked[g] = NoItems

Sealed(t) == pc[t] \in {"publish", "drop"}

\* The retirement thread still has this token before it.
Doomed(token) == Retiring(token) \/ (wpc = "finish" /\ wtok = token)

ThreadInv ==
    /\ \A t \in Thread : pc[t] \in {"check", "commit", "take", "publish", "drop"} => tok[t] \in Token
    /\ \A t \in Thread : pc[t] = "commit" => item[t] \in Name \X Val
    /\ \A t \in Thread : ~Sealed(t) => work[t] = NoData
    /\ \A t \in Thread : Sealed(t) => work[t].id = tok[t].id

SealInv ==
    /\ \A t \in Thread : Sealed(t) =>
           /\ slots[tok[t].key].id = tok[t].id
           /\ slots[tok[t].key].phase \in {"sealing", "closing"}
           /\ ~Doomed(tok[t])
    /\ \A t, u \in Thread : Sealed(t) /\ Sealed(u) /\ tok[t] = tok[u] => t = u

Queued(token) == \E i \in 1..Len(queue) : queue[i] = token

RetireInv ==
    /\ \A token \in Token : Doomed(token) =>
           slots[token.key].id = token.id /\ slots[token.key].phase = "closing"
    /\ \A i, j \in 1..Len(queue) : queue[i] = queue[j] => i = j
    /\ wpc = "idle" => wtok = NoToken
    /\ wpc # "idle" => wtok \in Token /\ ~Queued(wtok)
    /\ closing.pc \in {"tell", "send"} => closing.tok \in Token
    /\ closing.pc = "send" => closing.tok # wtok /\ ~Queued(closing.tok)

RoomInv ==
    /\ Cardinality(Taken) <= BuilderLimit
    /\ Taken # {} => ready

\* No image, nor the data of a seal, carries the generation of a build that
\* still accepts puts.
OwnerInv ==
    \A k \in Key : slots[k].phase = "writing" =>
        /\ \A j \in Key : cache[j].id # slots[k].id
        /\ \A t \in Thread : work[t].id # slots[k].id

ReturnedInv ==
    /\ \A k \in Key : [key |-> k, id |-> slots[k].id] \in returned => slots[k].phase = "closing"
    /\ closing.pc \in {"send", "end"} /\ closing.tok # NoToken =>
           (slots[closing.tok.key].id = closing.tok.id => slots[closing.tok.key].phase = "closing")

BuildInv ==
    /\ BuildTypeOK /\ InsideInv /\ RefsInv /\ FreshInv /\ ThreadInv /\ SealInv /\ RetireInv
    /\ RoomInv /\ OwnerInv /\ DataFollowsSlot /\ StoredIsAcknowledged /\ ReturnedInv /\ NeverStops

\* The shapes of the constants.
LEMMA Shapes ==
    /\ 0 \in Gen /\ NoItems \in Items /\ NoData \in Images /\ NoSlot \in Slots
    /\ \A g \in Gen, phase \in Phase : Slot(g, phase) \in Slots
    /\ \A g \in Gen, items \in Items : Image(g, items) \in Images
    /\ \A i \in Images : i.id \in Gen /\ i.items \in Items
    /\ \A s \in Slots : s.id \in Gen /\ s.phase \in Phase
    /\ \A token \in Token : token.key \in Key /\ token.id \in Gen \ {0}
    /\ NoToken \notin Token /\ NoToken.id = 0 /\ NoToken.key = NoKey
    /\ {"writing", "sealing", "closing"} \subseteq Phase
    /\ Gen \subseteq Nat
BY LimitsAssumption, NamesAssumption
   DEF Gen, NoItems, Items, NoData, Images, NoSlot, Slots, Slot, Image, Token, NoToken, Phase

\* The shapes of a close.
LEMMA CloseShapes ==
    /\ NoClose \in Closings
    /\ \A p \in Port \cup {NoPort} :
           [pc |-> "take", port |-> p, tok |-> NoToken, last |-> TRUE] \in Closings
BY DEF NoClose, Closings

-----------------------------------------------------------------------------
(* What the steps that change the table or the cache do, key by key *)

\* A begin takes a free slot with a generation nobody has had.
LEMMA BeginEffect ==
    ASSUME BuildTypeOK, NEW p \in Port, NEW k \in Key, Begin(p, k)
    PROVE  /\ next' = next + 1 /\ next' \in Gen \ {0}
           /\ slots[k] = NoSlot
           /\ slots'[k].id = next' /\ slots'[k].phase = "writing"
           /\ data'[k].id = next' /\ data'[k].items = NoItems
           /\ \A j \in Key \ {k} : slots'[j] = slots[j] /\ data'[j] = data[j]
           /\ port'[p].token.id = next'
           /\ \A q \in Port \ {p} : port'[q] = port[q]
<1>1. next + 1 \in Gen \ {0}
  BY LimitsAssumption DEF Begin, BuildTypeOK, TableTypeOK, Gen
<1>2. slots'[k] = Slot(next + 1, "writing") /\ data'[k] = Image(next + 1, NoItems)
  BY DEF Begin, BuildTypeOK, TableTypeOK
<1>3. port'[p].token = [key |-> k, id |-> next + 1]
  BY DEF Begin, BuildTypeOK, PortsTypeOK
<1> QED BY <1>1, <1>2, <1>3 DEF Begin, Slot, Image, BuildTypeOK, TableTypeOK, PortsTypeOK

\* A seal takes nothing, or the data of the build that is writing.
LEMMA SealTakeEffect ==
    ASSUME BuildTypeOK, ThreadInv, NEW t \in Thread, SealTake(t), ~UNCHANGED <<slots, data, work>>
    PROVE  LET k == tok[t].key
           IN  /\ k \in Key /\ tok[t] \in Token
               /\ slots[k].id = tok[t].id /\ slots[k].phase = "writing"
               /\ slots'[k].id = tok[t].id /\ slots'[k].phase = "sealing"
               /\ data'[k] = NoData /\ work'[t] = data[k]
               /\ \A j \in Key \ {k} : slots'[j] = slots[j] /\ data'[j] = data[j]
               /\ \A u \in Thread \ {t} : work'[u] = work[u]
<1>1. tok[t] \in Token /\ tok[t].key \in Key
  BY Shapes DEF SealTake, ThreadInv
<1>2. /\ slots[tok[t].key] = Slot(tok[t].id, "writing")
      /\ slots' = [slots EXCEPT ![tok[t].key] = Slot(tok[t].id, "sealing")]
      /\ data' = [data EXCEPT ![tok[t].key] = NoData]
      /\ work' = [work EXCEPT ![t] = data[tok[t].key]]
  BY DEF SealTake, Checks
<1>3. slots'[tok[t].key] = Slot(tok[t].id, "sealing")
  BY <1>1, <1>2 DEF BuildTypeOK, TableTypeOK
<1> QED BY <1>1, <1>2, <1>3 DEF BuildTypeOK, TableTypeOK, ThreadsTypeOK, Slot

\* A finished token frees at most its own slot.
LEMMA FinishEffect ==
    ASSUME BuildTypeOK, NEW token \in Token, Finish(token)
    PROVE  /\ \A j \in Key : slots'[j] = slots[j] \/ (j = token.key /\ slots'[j] = NoSlot)
           /\ slots[token.key].id = token.id /\ slots[token.key].phase # "writing"
                 => slots'[token.key] = NoSlot
           /\ slots[token.key].phase = "writing" => slots'[token.key] = slots[token.key]
BY Shapes DEF Finish, BuildTypeOK, TableTypeOK

\* A close changes the phase of at most its own slot.
LEMMA TellEffect ==
    ASSUME BuildTypeOK, RetireInv, CloseTell
    PROVE  LET token == closing.tok
           IN  /\ token \in Token /\ token.key \in Key
               /\ \A j \in Key \ {token.key} : slots'[j] = slots[j]
               /\ slots'[token.key].id = slots[token.key].id
               /\ IF slots[token.key].id = token.id
                  THEN slots'[token.key].phase = "closing"
                  ELSE slots'[token.key] = slots[token.key]
               /\ closing'.tok = token
               /\ IF slots[token.key].id = token.id /\ slots[token.key].phase = "writing"
                  THEN closing'.pc = "send" ELSE closing'.pc = "end"
<1>1. closing.tok \in Token /\ closing.tok.key \in Key
  BY Shapes DEF CloseTell, RetireInv
<1>2. slots \in [Key -> Slots] /\ slots[closing.tok.key] \in Slots
  BY <1>1 DEF BuildTypeOK, TableTypeOK
<1>3. closing'.tok = closing.tok /\ closing'.pc = IF Retires(closing.tok) THEN "send" ELSE "end"
  BY DEF CloseTell, BuildTypeOK, RetirementTypeOK, Closings
<1>4. Retires(closing.tok) <=>
         slots[closing.tok.key].id = closing.tok.id /\ slots[closing.tok.key].phase = "writing"
  BY <1>2 DEF Retires, Slot, Slots
<1>5. slots' = IF slots[closing.tok.key].id = closing.tok.id
               THEN [slots EXCEPT ![closing.tok.key] = Slot(slots[closing.tok.key].id, "closing")]
               ELSE slots
  BY <1>1, <1>2 DEF CloseTell, Closes
<1> QED BY <1>1, <1>2, <1>3, <1>4, <1>5 DEF Slot

\* A publication replaces nothing but its own key's image, and only while the
\* build is still sealing; another key may lose the image nobody holds.
LEMMA PublishEffect ==
    ASSUME BuildTypeOK, ThreadInv, NEW t \in Thread, SealPublish(t)
    PROVE  /\ tok[t] \in Token /\ tok[t].key \in Key /\ work[t].id = tok[t].id
           /\ \A j \in Key : cache'[j] # cache[j] => ~Held(j)
           /\ \A j \in Key :
                 \/ cache'[j] \in {cache[j], NoData}
                 \/ /\ j = tok[t].key /\ cache'[j] = work[t]
                    /\ slots[j].id = tok[t].id /\ slots[j].phase = "sealing"
<1> DEFINE k == tok[t].key
<1>1. tok[t] \in Token /\ k \in Key /\ work[t].id = tok[t].id
  BY Shapes DEF SealPublish, ThreadInv, Sealed
<1>2. CASE UNCHANGED cache
  BY <1>1, <1>2
<1>3. CASE ~UNCHANGED cache
  <2>1. Checks(tok[t], "sealing") /\ SealCache(k, work[t])
    BY <1>3 DEF SealPublish, PublishChecks
  <2>2. slots[k].id = tok[t].id /\ slots[k].phase = "sealing"
    BY <2>1 DEF Checks, Slot
  <2>3. ~Held(k) /\ (\/ cache' = [cache EXCEPT ![k] = work[t]]
                     \/ \E v \in Victims(k) : cache' = [cache EXCEPT ![v] = NoData, ![k] = work[t]])
    BY <1>3, <2>1 DEF SealCache
  <2>4. cache \in [Key -> Images]
    BY DEF BuildTypeOK, CacheTypeOK
  <2> HIDE DEF k
  <2>5. \A j \in Key : \/ cache'[j] = cache[j]
                       \/ j = k /\ cache'[j] = work[t]
                       \/ j \in Victims(k) /\ cache'[j] = NoData
    BY <1>1, <2>3, <2>4
  <2>6. \A v \in Victims(k) : ~Held(v)
    BY DEF Victims
  <2> QED BY <1>1, <2>2, <2>3, <2>5, <2>6 DEF k
<1> QED BY <1>2, <1>3

\* An accepted put adds its pair to the data of the build that is writing.
LEMMA CommitEffect ==
    ASSUME BuildInv, NEW t \in Thread, PutCommit(t), ~UNCHANGED <<data, acked>>
    PROVE  LET k == tok[t].key
               g == tok[t].id
           IN  /\ k \in Key /\ g \in Gen \ {0}
               /\ slots[k].id = g /\ slots[k].phase = "writing"
               /\ data[k].id = g /\ data'[k].id = g
               /\ data[k].items = acked[g] => data'[k].items = acked'[g]
               /\ \A j \in Key \ {k} : data'[j] = data[j]
               /\ \A h \in Gen \ {g} : acked'[h] = acked[h]
<1> DEFINE k == tok[t].key
           g == tok[t].id
           n == item[t][1]
           v == item[t][2]
<1>1. tok[t] \in Token /\ k \in Key /\ g \in Gen \ {0} /\ n \in Name
  BY Shapes DEF PutCommit, ThreadInv, BuildInv
<1>2. /\ slots[k] = Slot(g, "writing")
      /\ data' = [data EXCEPT ![k].items[n] = v]
      /\ acked' = [acked EXCEPT ![g][n] = v]
  BY DEF PutCommit, CommitChecks, Checks
<1>3. slots[k].id = g /\ slots[k].phase = "writing"
  BY <1>2 DEF Slot
<1>4. data[k].id = g
  BY <1>1, <1>3 DEF BuildInv, DataFollowsSlot
<1>5. data \in [Key -> Images] /\ acked \in [Gen -> Items]
  BY DEF BuildInv, BuildTypeOK, TableTypeOK, CacheTypeOK
<1>6. data[k] \in Images
  BY <1>1, <1>5
<1> HIDE DEF k, g, n, v
<1>7. data'[k] = [data[k] EXCEPT !.items = [data[k].items EXCEPT ![n] = v]]
  BY <1>1, <1>2, <1>5
<1>8. data'[k].id = data[k].id /\ data'[k].items = [data[k].items EXCEPT ![n] = v]
  BY <1>6, <1>7 DEF Images
<1>9. acked'[g] = [acked[g] EXCEPT ![n] = v]
  BY <1>1, <1>2, <1>5
<1>10. \A j \in Key \ {k} : data'[j] = data[j]
  BY <1>1, <1>2, <1>5
<1>11. \A h \in Gen \ {g} : acked'[h] = acked[h]
  BY <1>1, <1>2, <1>5
<1> QED BY <1>1, <1>3, <1>4, <1>8, <1>9, <1>10, <1>11 DEF k, g

\* Every generation is a number.
LEMMA IdTypes ==
    ASSUME BuildTypeOK
    PROVE  /\ next \in Nat
           /\ \A k \in Key : slots[k].id \in Nat /\ cache[k].id \in Nat /\ data[k].id \in Nat
           /\ \A t \in Thread : work[t].id \in Nat
           /\ \A p \in Port : port[p].token.id \in Nat
           /\ \A token \in returned : token.id \in Nat
           /\ closing.tok.id \in Nat
<1>1. next \in Nat /\ \A k \in Key : slots[k].id \in Nat /\ cache[k].id \in Nat /\ data[k].id \in Nat
  BY Shapes DEF BuildTypeOK, TableTypeOK, CacheTypeOK
<1>2. \A t \in Thread : work[t].id \in Nat
  BY Shapes DEF BuildTypeOK, ThreadsTypeOK
<1>3. \A token \in Token \cup {NoToken} : token.id \in Nat
  BY Shapes
<1>4. \A p \in Port : port[p].token \in Token \cup {NoToken}
  BY DEF BuildTypeOK, PortsTypeOK
<1>5. returned \subseteq Token /\ closing.tok \in Token \cup {NoToken}
  BY DEF BuildTypeOK, CacheTypeOK, RetirementTypeOK, Closings
<1> QED BY <1>1, <1>2, <1>3, <1>4, <1>5

\* A build that accepts puts has its data.
LEMMA WritingData ==
    ASSUME BuildInv, NEW k \in Key, slots[k].phase = "writing"
    PROVE  data[k].id = slots[k].id
BY DEF BuildInv, DataFollowsSlot

-----------------------------------------------------------------------------
(* Tokens on their way to the retirement thread *)

\* A token is its key and its generation.
LEMMA TokenEq == \A a, b \in Token : a.key = b.key /\ a.id = b.id => a = b
BY DEF Token

\* A step that leaves the channel and the retirement thread alone, and neither
\* starts nor ends a delivery, retires nothing.
LEMMA DoomedSame ==
    ASSUME UNCHANGED <<queue, wpc, wtok>>, closing.pc # "send", closing'.pc # "send"
    PROVE  \A token : (Doomed(token)' <=> Doomed(token)) /\ (Retiring(token)' <=> Retiring(token))
BY DEF Doomed, Retiring

\* A close of a build that is writing puts its token on the way.
LEMMA DoomedTell ==
    ASSUME BuildInv, CloseTell
    PROVE  /\ UNCHANGED <<queue, wpc, wtok>>
           /\ \A token : /\ Doomed(token)' <=> Doomed(token) \/ (closing'.pc = "send" /\ token = closing.tok)
                         /\ Retiring(token)' <=> Retiring(token) \/ (closing'.pc = "send" /\ token = closing.tok)
<1>1. UNCHANGED <<queue, wpc, wtok>> /\ closing.pc = "tell"
  BY DEF CloseTell, retirement
<1>2. closing'.tok = closing.tok
  BY TellEffect DEF BuildInv
<1> QED BY <1>1, <1>2 DEF Doomed, Retiring

\* The channel has room for every token that may be sent: each token before it
\* has a slot of its own.
LEMMA Room ==
    ASSUME BuildInv, closing.pc = "send"
    PROVE  ready /\ Len(queue) < QueueLimit
<1> DEFINE n == Len(queue) + 1
           token(i) == IF i <= Len(queue) THEN queue[i] ELSE closing.tok
           f == [i \in 1..n |-> token(i).key]
<1>1. queue \in Seq(Token) /\ Len(queue) \in Nat /\ closing.tok \in Token
  BY DEF BuildInv, BuildTypeOK, RetirementTypeOK, RetireInv
<1>2. \A i \in 1..n : token(i) \in Token /\ Doomed(token(i))
  BY <1>1 DEF Doomed, Retiring
<1>3. \A i, j \in 1..n : token(i) = token(j) => i = j
  BY <1>1 DEF BuildInv, RetireInv, Queued
<1>4. \A i \in 1..n : /\ token(i).key \in Key
                      /\ slots[token(i).key].id = token(i).id
                      /\ slots[token(i).key].phase = "closing"
  BY <1>2, Shapes DEF BuildInv, RetireInv
<1> HIDE DEF token
<1>5. \A i \in 1..n : token(i).key \in Taken
  BY <1>4 DEF Taken, NoSlot
<1>6. \A i, j \in 1..n : token(i).key = token(j).key => i = j
  BY <1>2, <1>3, <1>4, TokenEq
<1>7. f \in Injection(1..n, Taken)
  <2>1. f \in [1..n -> Taken] /\ \A i \in 1..n : f[i] = token(i).key
    BY <1>5
  <2>2. \A i, j \in 1..n : f[i] = f[j] => i = j
    BY <1>6, <2>1
  <2> HIDE DEF f
  <2> QED BY <2>1, <2>2 DEF Injection, IsInjective
<1>8. IsFiniteSet(Taken)
  BY NamesAssumption, FS_Subset DEF Taken
<1>9. Cardinality(1..n) = n
  BY <1>1, FS_Interval
<1>10. Cardinality(1..n) <= Cardinality(Taken)
  BY <1>7, <1>8, FS_Injection
<1>11. Cardinality(Taken) \in Nat
  BY <1>8, FS_CardinalityType
<1>12. Taken # {}
  BY <1>1, <1>5
<1> HIDE DEF n
<1> QED BY <1>1, <1>9, <1>10, <1>11, <1>12, LimitsAssumption DEF n, BuildInv, RoomInv

\* A token that is sent joins the channel.
LEMMA DoomedSend ==
    ASSUME BuildInv, CloseSend
    PROVE  /\ UNCHANGED <<slots, wpc, wtok>> /\ ~failed' /\ closing'.pc = "end"
           /\ queue' = Append(queue, closing.tok)
           /\ \A token : (Doomed(token)' <=> Doomed(token)) /\ (Retiring(token)' <=> Retiring(token))
<1>1. /\ UNCHANGED <<slots, wpc, wtok>> /\ closing.pc = "send"
      /\ ~failed' /\ queue' = Append(queue, closing.tok)
  <2>1. UNCHANGED <<slots, wpc, wtok>> /\ closing.pc = "send"
    BY DEF CloseSend
  <2>2. ready /\ Len(queue) < QueueLimit /\ ~failed
    BY <2>1, Room DEF BuildInv, NeverStops
  <2>3. queue' = Append(queue, closing.tok)
    BY <2>2 DEF CloseSend
  <2>4. failed' = (failed \/ ~(ready /\ Len(queue) < QueueLimit))
    BY DEF CloseSend
  <2> QED BY <2>1, <2>2, <2>3, <2>4
<1>2. closing'.pc = "end"
  BY DEF CloseSend, BuildInv, BuildTypeOK, RetirementTypeOK, Closings
<1>3. queue \in Seq(Token) /\ closing.tok \in Token
  BY <1>1 DEF BuildInv, BuildTypeOK, RetirementTypeOK, RetireInv
<1>4. \A token : (\E i \in 1..Len(queue') : queue'[i] = token)
                    <=> (token = closing.tok \/ \E i \in 1..Len(queue) : queue[i] = token)
  BY <1>1, <1>3
<1> QED BY <1>1, <1>2, <1>4 DEF Doomed, Retiring

\* A token that is received leaves the channel.
LEMMA DoomedReceive ==
    ASSUME BuildInv, WorkerReceive
    PROVE  /\ wtok' \in Token /\ Doomed(wtok') /\ ~Queued(wtok)'
           /\ \A i \in 1..Len(queue') : i + 1 \in 1..Len(queue) /\ queue'[i] = queue[i + 1]
           /\ \A token : (Doomed(token)' <=> Doomed(token)) /\ (Retiring(token)' <=> Retiring(token))
<1>1. /\ queue \in Seq(Token) /\ queue # <<>>
      /\ wtok' = queue[1] /\ queue' = Tail(queue) /\ wpc = "idle" /\ wpc' = "free" /\ closing' = closing
  BY DEF WorkerReceive, BuildInv, BuildTypeOK, RetirementTypeOK
<1>2. /\ 1 \in 1..Len(queue) /\ wtok' \in Token
      /\ \A i \in 1..Len(queue') : i + 1 \in 1..Len(queue) /\ queue'[i] = queue[i + 1]
      /\ \A i \in 2..Len(queue) : i - 1 \in 1..Len(queue') /\ queue'[i - 1] = queue[i]
  BY <1>1
<1>3. ~Queued(wtok)'
  <2>1. \A i \in 1..Len(queue') : queue'[i] # wtok'
    <3> SUFFICES ASSUME NEW i \in 1..Len(queue'), queue'[i] = wtok' PROVE FALSE
      OBVIOUS
    <3>1. i + 1 \in 1..Len(queue) /\ 1 \in 1..Len(queue) /\ queue[i + 1] = queue[1]
      BY <1>1, <1>2
    <3>2. i + 1 = 1
      BY <3>1 DEF BuildInv, RetireInv
    <3>3. i \in Nat /\ i >= 1
      BY <1>1
    <3> QED BY <3>2, <3>3
  <2> QED BY <2>1 DEF Queued
<1>4. \A token : (\E i \in 1..Len(queue) : queue[i] = token)
                    <=> (token = wtok' \/ \E i \in 1..Len(queue') : queue'[i] = token)
  <2> TAKE token
  <2>1. ASSUME NEW i \in 1..Len(queue), queue[i] = token
        PROVE  token = wtok' \/ \E j \in 1..Len(queue') : queue'[j] = token
    <3>1. i = 1 \/ i \in 2..Len(queue)
      BY <1>1
    <3>2. CASE i = 1
      BY <1>1, <2>1, <3>2
    <3>3. CASE i \in 2..Len(queue)
      BY <1>2, <2>1, <3>3
    <3> QED BY <3>1, <3>2, <3>3
  <2>2. ASSUME NEW i \in 1..Len(queue'), queue'[i] = token
        PROVE  \E j \in 1..Len(queue) : queue[j] = token
    BY <1>2, <2>2
  <2> QED BY <1>1, <1>2, <2>1, <2>2
<1> QED BY <1>1, <1>2, <1>3, <1>4 DEF Doomed, Retiring

\* The steps of a close that neither tell the table nor send.
Quiet ==
    \/ \E p \in Port : Close(p) \/ Collect(p)
    \/ \E t \in Thread : Leave(t)
    \/ CloseTake \/ CloseEnd

\* The steps of a thread that change no slot.
Passing(t) ==
    \/ \E p \in Port : Enter(t, p)
    \/ Abandon(t) \/ ReadToken(t) \/ PutCheck(t) \/ PutRefuse(t) \/ PutCommit(t) \/ SealPublish(t)

\* None of them touches the table, the channel or the retirement thread.
LEMMA QuietSteps ==
    ASSUME BuildInv, Quiet
    PROVE  /\ UNCHANGED <<slots, data, queue, wpc, wtok>>
           /\ closing.pc # "send" /\ closing'.pc # "send"
           /\ closing'.pc = "tell" => closing'.tok \in Token
<1>1. ASSUME NEW p \in Port, Close(p) \/ Collect(p)
      PROVE  UNCHANGED <<slots, data, queue, wpc, wtok>> /\ closing.pc = "none" /\ closing'.pc \in {"none", "take"}
  BY <1>1 DEF Close, Collect, Owes, Release, NoClose, RuntimeFree, owner, retirement
<1>2. ASSUME NEW t \in Thread, Leave(t)
      PROVE  UNCHANGED <<slots, data, queue, wpc, wtok>> /\ closing.pc = "none" /\ closing'.pc \in {"none", "take"}
  BY <1>2 DEF Leave, LeaveReleasing, Release, NoClose, RuntimeFree, owner, retirement
<1>3. ASSUME CloseEnd
      PROVE  UNCHANGED <<slots, data, queue, wpc, wtok>> /\ closing.pc = "end" /\ closing'.pc \in {"none", "take"}
  BY <1>3 DEF CloseEnd, Release, NoClose, owner, retirement
<1>4. CASE CloseTake
  <2>1. UNCHANGED <<slots, data, queue, wpc, wtok>> /\ closing.pc = "take" /\ closing.port \in Port
    BY <1>4 DEF CloseTake, BuildInv, RefsInv, owner, retirement
  <2>2. port[closing.port].token \in Token \cup {NoToken}
    BY <2>1 DEF BuildInv, BuildTypeOK, PortsTypeOK
  <2>3. /\ closing'.tok = port[closing.port].token
        /\ closing'.pc = IF port[closing.port].token = NoToken THEN "end" ELSE "tell"
    BY <1>4 DEF CloseTake, BuildInv, BuildTypeOK, RetirementTypeOK, Closings
  <2> QED BY <2>1, <2>2, <2>3
<1> QED BY <1>1, <1>2, <1>3, <1>4 DEF Quiet

\* No other token that is on its way, and no sealed thread, has this token's slot.
LEMMA OwnSlot ==
    ASSUME BuildInv, NEW token \in Token, slots[token.key].id = token.id
    PROVE  /\ \A other \in Token : Doomed(other) /\ other.key = token.key => other = token
           /\ \A t \in Thread : Sealed(t) /\ tok[t].key = token.key => tok[t] = token
<1>1. ASSUME NEW other \in Token, Doomed(other), other.key = token.key PROVE other = token
  BY <1>1, TokenEq DEF BuildInv, RetireInv
<1>2. ASSUME NEW t \in Thread, Sealed(t), tok[t].key = token.key PROVE tok[t] = token
  BY <1>2, TokenEq DEF BuildInv, SealInv, ThreadInv, Sealed
<1> QED BY <1>1, <1>2

\* Slots that come back leave room.
LEMMA FreedRoom ==
    ASSUME RoomInv, Taken' \subseteq Taken, UNCHANGED ready
    PROVE  RoomInv'
<1>1. IsFiniteSet(Taken)
  BY NamesAssumption, FS_Subset DEF Taken
<1>2. IsFiniteSet(Taken') /\ Cardinality(Taken') <= Cardinality(Taken)
  BY <1>1, FS_Subset
<1>3. Cardinality(Taken) \in Nat /\ Cardinality(Taken') \in Nat
  BY <1>1, <1>2, FS_CardinalityType
<1> QED BY <1>2, <1>3, LimitsAssumption DEF RoomInv

-----------------------------------------------------------------------------
(* References to a port *)

\* The counts of a port are numbers.
LEMMA CountTypes ==
    ASSUME BuildTypeOK
    PROVE  \A p \in Port : /\ IsFiniteSet(Users(p)) /\ Cardinality(Users(p)) \in Nat
                           /\ orphans[p] \in Nat /\ refs[p] \in Int
<1>1. \A p \in Port : IsFiniteSet(Users(p))
  BY NamesAssumption, FS_Subset DEF Users
<1> QED BY <1>1, FS_CardinalityType DEF BuildTypeOK, PortsTypeOK

\* A thread that enters a port is one more user of it.
LEMMA UserJoins ==
    ASSUME BuildTypeOK, NEW t \in Thread, NEW p \in Port, at[t] = NoPort, at' = [at EXCEPT ![t] = p]
    PROVE  \A q \in Port : Cardinality(Users(q)') = Cardinality(Users(q)) + (IF q = p THEN 1 ELSE 0)
<1> TAKE q \in Port
<1>1. at \in [Thread -> Port \cup {NoPort}] /\ NoPort \notin Port
  BY NamesAssumption DEF BuildTypeOK, ThreadsTypeOK
<1>2. CASE q = p
  <2>1. Users(q)' = Users(q) \cup {t} /\ t \notin Users(q)
    BY <1>1, <1>2 DEF Users
  <2> QED BY <1>2, <2>1, CountTypes, FS_AddElement
<1>3. CASE q # p
  <2>1. Users(q)' = Users(q)
    BY <1>1, <1>3 DEF Users
  <2> QED BY <1>3, <2>1, CountTypes
<1> QED BY <1>2, <1>3

\* A thread that leaves a port is one user less.
LEMMA UserLeaves ==
    ASSUME BuildTypeOK, NEW t \in Thread, at[t] \in Port, at' = [at EXCEPT ![t] = NoPort]
    PROVE  \A q \in Port : Cardinality(Users(q)') = Cardinality(Users(q)) - (IF q = at[t] THEN 1 ELSE 0)
<1> TAKE q \in Port
<1>1. at \in [Thread -> Port \cup {NoPort}] /\ NoPort \notin Port
  BY NamesAssumption DEF BuildTypeOK, ThreadsTypeOK
<1>2. CASE q = at[t]
  <2>1. Users(q)' = Users(q) \ {t} /\ t \in Users(q)
    BY <1>1, <1>2 DEF Users
  <2> QED BY <1>2, <2>1, CountTypes, FS_RemoveElement
<1>3. CASE q # at[t]
  <2>1. Users(q)' = Users(q)
    BY <1>1, <1>3 DEF Users
  <2> QED BY <1>3, <2>1, CountTypes
<1> QED BY <1>2, <1>3

\* A port in use has a reference and is not freed.
LEMMA InUse ==
    ASSUME BuildTypeOK, RefsInv, NEW p \in Port, p \in handle \/ Users(p) # {} \/ orphans[p] > 0
    PROVE  refs[p] > 0 /\ p \notin freed
<1>1. Users(p) # {} => Cardinality(Users(p)) # 0
  BY CountTypes, FS_EmptySet
<1>2. refs[p] = Handles(p) + Cardinality(Users(p)) + orphans[p]
  BY DEF RefsInv
<1>3. Handles(p) \in {0, 1} /\ (p \in handle => Handles(p) = 1)
  BY DEF Handles
<1>4. refs[p] > 0
  BY <1>1, <1>2, <1>3, CountTypes
<1> QED BY <1>4 DEF RefsInv

\* Giving a reference back keeps the books, and the last one starts the close
\* that frees the port.
LEMMA LastRelease ==
    ASSUME BuildTypeOK, RefsInv, NEW p \in Port, Release(p), UNCHANGED freed, p \notin freed, refs[p] > 0,
           \A q \in Port : refs'[q] = Handles(q)' + Cardinality(Users(q)') + orphans'[q]
    PROVE  RefsInv'
<1>1. refs \in [Port -> Int] /\ freed \subseteq Port
  BY DEF BuildTypeOK, PortsTypeOK
<1>2. \A q \in freed : refs'[q] = 0
  BY <1>1 DEF Release, RefsInv
<1>3. CASE refs[p] = 1
  <2>1. closing' = [pc |-> "take", port |-> p, tok |-> NoToken, last |-> TRUE] /\ refs'[p] = 0
    BY <1>1, <1>3 DEF Release
  <2> QED BY <1>2, <2>1 DEF RefsInv
<1>4. CASE refs[p] # 1
  <2>1. closing' = NoClose
    BY <1>4 DEF Release
  <2> QED BY <1>2, <2>1 DEF RefsInv, NoClose
<1> QED BY <1>3, <1>4

-----------------------------------------------------------------------------
(* Every step keeps the invariant, part by part *)

\* The builder table keeps its shape.
LEMMA TableType ==
    ASSUME BuildInv, [Next]_vars
    PROVE  TableTypeOK'
<1>1. ASSUME NEW p \in Port, NEW k \in Key, Begin(p, k) PROVE TableTypeOK'
  <2>1. next + 1 \in Gen /\ failed' \in BOOLEAN
    BY <1>1, LimitsAssumption DEF Begin, BuildInv, BuildTypeOK, TableTypeOK, Gen
  <2>2. slots' \in [Key -> Slots] /\ data' \in [Key -> Images]
    BY <1>1, <2>1, Shapes DEF Begin, BuildInv, BuildTypeOK, TableTypeOK
  <2> QED BY <1>1, <2>1, <2>2 DEF Begin, TableTypeOK
<1>2. ASSUME NEW t \in Thread, PutCommit(t) PROVE TableTypeOK'
  <2>1. UNCHANGED <<slots, next, failed>>
    BY <1>2 DEF PutCommit, owner
  <2>2. CASE UNCHANGED data
    BY <2>1, <2>2 DEF BuildInv, BuildTypeOK, TableTypeOK
  <2>3. CASE ~UNCHANGED data
    <3> DEFINE k == tok[t].key
               n == item[t][1]
               v == item[t][2]
    <3>1. data' = [data EXCEPT ![k].items[n] = v] /\ data[k] # NoData
      BY <1>2, <2>3 DEF PutCommit
    <3>2. item[t] \in (Name \X Val) \cup {NoItem} /\ tok[t] \in Token \cup {NoToken}
      BY DEF BuildInv, BuildTypeOK, ThreadsTypeOK
    <3>3. data \in [Key -> Images]
      BY DEF BuildInv, BuildTypeOK, TableTypeOK
    <3>4. CASE k \in Key
      <4>1. v \in Val \cup {NoVal}
        BY <3>2 DEF NoItem
      <4>2. [data[k].items EXCEPT ![n] = v] \in Items
        BY <3>3, <3>4, <4>1, Shapes DEF Items
      <4>3. [data[k] EXCEPT !.items = [data[k].items EXCEPT ![n] = v]] \in Images
        BY <3>3, <3>4, <4>2 DEF Images
      <4>4. data' = [data EXCEPT ![k] = [data[k] EXCEPT !.items = [data[k].items EXCEPT ![n] = v]]]
        BY <3>1, <3>3, <3>4
      <4> HIDE DEF k, n, v
      <4> QED BY <2>1, <3>3, <3>4, <4>3, <4>4 DEF BuildInv, BuildTypeOK, TableTypeOK
    <3>5. CASE k \notin Key
      BY <2>1, <3>1, <3>3, <3>5 DEF BuildInv, BuildTypeOK, TableTypeOK
    <3> QED BY <3>4, <3>5
  <2> QED BY <2>2, <2>3
<1>3. ASSUME NEW t \in Thread, SealTake(t) PROVE TableTypeOK'
  <2>1. UNCHANGED <<next, failed>>
    BY <1>3 DEF SealTake
  <2>2. CASE UNCHANGED <<slots, data>>
    BY <2>1, <2>2 DEF BuildInv, BuildTypeOK, TableTypeOK
  <2>3. CASE ~UNCHANGED <<slots, data>>
    <3>1. /\ slots' = [slots EXCEPT ![tok[t].key] = Slot(tok[t].id, "sealing")]
          /\ data' = [data EXCEPT ![tok[t].key] = NoData]
      BY <1>3, <2>3 DEF SealTake
    <3>2. tok[t].id \in Gen
      BY Shapes DEF BuildInv, BuildTypeOK, ThreadsTypeOK
    <3> QED BY <2>1, <3>1, <3>2, Shapes DEF BuildInv, BuildTypeOK, TableTypeOK
  <2> QED BY <2>2, <2>3
<1>4. ASSUME NEW t \in Thread, SealDrop(t) PROVE TableTypeOK'
  <2>1. UNCHANGED <<next, failed, data>> /\ (UNCHANGED slots \/ slots' = [slots EXCEPT ![tok[t].key] = NoSlot])
    BY <1>4 DEF SealDrop, Finish
  <2> QED BY <2>1, Shapes DEF BuildInv, BuildTypeOK, TableTypeOK
<1>5. ASSUME CloseTell PROVE TableTypeOK'
  BY <1>5, Shapes DEF CloseTell, Closes, Retires, BuildInv, BuildTypeOK, TableTypeOK,
     RetirementTypeOK, Closings, owner
<1>6. ASSUME CloseSend PROVE TableTypeOK'
  BY <1>6, Shapes DEF CloseSend, BuildInv, BuildTypeOK, TableTypeOK, RetirementTypeOK, Closings,
     owner
<1>7. ASSUME WorkerFree PROVE TableTypeOK'
  BY <1>7, Shapes DEF WorkerFree, BuildInv, BuildTypeOK, TableTypeOK, RetirementTypeOK, Closings,
     owner
<1>8. ASSUME WorkerFinish PROVE TableTypeOK'
  <2>1. UNCHANGED <<next, failed, data>> /\ (UNCHANGED slots \/ slots' = [slots EXCEPT ![wtok.key] = NoSlot])
    BY <1>8 DEF WorkerFinish, WorkerRemove, Finish
  <2> QED BY <2>1, Shapes DEF BuildInv, BuildTypeOK, TableTypeOK
<1>9. ASSUME UNCHANGED <<slots, next, failed, data>> PROVE TableTypeOK'
  BY <1>9 DEF BuildInv, BuildTypeOK, TableTypeOK, RetirementTypeOK, Closings
<1>10. ASSUME
         \/ \E p \in Port : Close(p) \/ Collect(p)
         \/ \E t \in Thread, p \in Port : Enter(t, p)
         \/ \E t \in Thread : \/ Abandon(t) \/ Leave(t) \/ ReadToken(t) \/ PutCheck(t)
                              \/ PutRefuse(t) \/ SealPublish(t)
         \/ CloseTake \/ CloseEnd \/ WorkerReceive
         \/ \E k \in Key : Drop(k)
         \/ \E l \in Lease : Unhold(l)
         \/ \E l \in Lease, k \in Key : Hold(l, k)
     PROVE  UNCHANGED <<slots, next, failed, data>>
  BY <1>10 DEF Close, Collect, Owes, Enter, Abandon, Leave, ReadToken, PutCheck, PutRefuse, SealPublish,
     CloseTake, CloseEnd, WorkerReceive, Drop, Unhold, Hold, owner
<1>11. CASE UNCHANGED vars
  BY <1>9, <1>11 DEF vars, owner
<1> QED BY <1>1, <1>2, <1>3, <1>4, <1>5, <1>6, <1>7, <1>8, <1>10, <1>9, <1>11 DEF Next,
   NativeStep, CloseStep, WorkerStep

\* The ports keep their shape.
LEMMA PortsType ==
    ASSUME BuildInv, [Next]_vars
    PROVE  PortsTypeOK'
<1>1. ASSUME NEW p \in Port, NEW k \in Key, Begin(p, k) PROVE PortsTypeOK'
  <2>1. [key |-> k, id |-> next + 1] \in Token
    BY <1>1, LimitsAssumption DEF Begin, BuildInv, BuildTypeOK, TableTypeOK, Gen, Token
  <2>2. port' = [port EXCEPT ![p].token = [key |-> k, id |-> next + 1]]
    BY <1>1 DEF Begin
  <2>3. port' \in [Port -> [token : Token \cup {NoToken}, closed : BOOLEAN]]
    BY <2>1, <2>2 DEF BuildInv, BuildTypeOK, PortsTypeOK
  <2> QED BY <1>1, <2>3 DEF Begin, BuildInv, BuildTypeOK, PortsTypeOK
<1>2. ASSUME NEW p \in Port, Collect(p) PROVE PortsTypeOK'
  <2>1. /\ UNCHANGED <<port, handle, freed>>
        /\ refs' = [refs EXCEPT ![p] = @ - 1]
        /\ orphans[p] > 0 /\ orphans' = [orphans EXCEPT ![p] = @ - 1]
    BY <1>2 DEF Collect, Owes, Release
  <2> QED BY <2>1 DEF BuildInv, BuildTypeOK, PortsTypeOK
<1>3. ASSUME NEW t \in Thread, NEW p \in Port, Enter(t, p) PROVE PortsTypeOK'
  <2>1. UNCHANGED <<port, handle, orphans, freed>> /\ refs' = [refs EXCEPT ![p] = @ + 1]
    BY <1>3 DEF Enter, Retain
  <2> QED BY <2>1 DEF BuildInv, BuildTypeOK, PortsTypeOK
<1>4. ASSUME NEW t \in Thread, Abandon(t) PROVE PortsTypeOK'
  <2>1. UNCHANGED <<port, handle, refs, freed>> /\ orphans' = [orphans EXCEPT ![at[t]] = @ + 1]
    BY <1>4 DEF Abandon
  <2>2. at[t] \in Port
    BY <1>4 DEF Abandon, InsideInv, BuildInv, BuildTypeOK, ThreadsTypeOK
  <2> QED BY <2>1, <2>2 DEF BuildInv, BuildTypeOK, PortsTypeOK
<1>5. ASSUME NEW t \in Thread, Leave(t) PROVE PortsTypeOK'
  <2>1. /\ UNCHANGED <<port, handle, orphans, freed>>
        /\ refs' = [refs EXCEPT ![at[t]] = @ - 1]
    BY <1>5 DEF Leave, LeaveReleasing, Release
  <2>2. at[t] \in Port
    BY <1>5 DEF Leave, LeaveReleasing, InsideInv, BuildInv, BuildTypeOK, ThreadsTypeOK
  <2> QED BY <2>1, <2>2 DEF BuildInv, BuildTypeOK, PortsTypeOK
<1>6. ASSUME CloseTake PROVE PortsTypeOK'
  BY <1>6, Shapes DEF CloseTake, BuildInv, BuildTypeOK, PortsTypeOK, RetirementTypeOK, Closings,
     ports
<1>7. ASSUME CloseEnd PROVE PortsTypeOK'
  <2>1. UNCHANGED <<port, orphans>>
    BY <1>7 DEF CloseEnd
  <2>2. \/ handle' = handle /\ refs' = refs /\ freed' = freed \cup {closing.port}
        \/ handle' = handle \ {closing.port} /\ refs' = [refs EXCEPT ![closing.port] = @ - 1]
           /\ freed' = freed
    BY <1>7 DEF CloseEnd, Release
  <2>3. closing.port \in Port
    BY <1>7 DEF CloseEnd, RefsInv, BuildInv
  <2> QED BY <2>1, <2>2, <2>3 DEF BuildInv, BuildTypeOK, PortsTypeOK
<1>8. ASSUME UNCHANGED <<port, handle, refs, orphans, freed>> PROVE PortsTypeOK'
  BY <1>8 DEF BuildInv, BuildTypeOK, PortsTypeOK, RetirementTypeOK, Closings
<1>9. ASSUME
         \/ \E p \in Port : Close(p)
         \/ \E t \in Thread : \/ ReadToken(t) \/ PutCheck(t) \/ PutRefuse(t) \/ PutCommit(t)
                              \/ SealTake(t) \/ SealPublish(t) \/ SealDrop(t)
         \/ CloseTell \/ CloseSend \/ WorkerReceive \/ WorkerFree \/ WorkerFinish
         \/ \E k \in Key : Drop(k)
         \/ \E l \in Lease : Unhold(l)
         \/ \E l \in Lease, k \in Key : Hold(l, k)
     PROVE  UNCHANGED <<port, handle, refs, orphans, freed>>
  BY <1>9 DEF Close, ReadToken, PutCheck, PutRefuse, PutCommit, SealTake, SealPublish, SealDrop,
     CloseTell, CloseSend, WorkerReceive, WorkerFree, WorkerFinish, Drop, Unhold, Hold, ports
<1>10. CASE UNCHANGED vars
  BY <1>8, <1>10 DEF vars, ports
<1> QED BY <1>1, <1>2, <1>3, <1>4, <1>5, <1>6, <1>7, <1>9, <1>8, <1>10 DEF Next, NativeStep,
   CloseStep, WorkerStep

\* The threads keep their shape.
LEMMA ThreadsType ==
    ASSUME BuildInv, [Next]_vars
    PROVE  ThreadsTypeOK'
<1>1. ASSUME NEW t \in Thread, NEW p \in Port, Enter(t, p) PROVE ThreadsTypeOK'
  BY <1>1, Shapes DEF Enter, BuildInv, BuildTypeOK, ThreadsTypeOK, threads
<1>2. ASSUME NEW t \in Thread, Abandon(t) PROVE ThreadsTypeOK'
  BY <1>2, Shapes DEF Abandon, BuildInv, BuildTypeOK, ThreadsTypeOK, threads
<1>3. ASSUME NEW t \in Thread, Leave(t) PROVE ThreadsTypeOK'
  BY <1>3, Shapes DEF Leave, LeaveReleasing, Release, NoClose, BuildInv, BuildTypeOK,
     ThreadsTypeOK, threads
<1>4. ASSUME NEW t \in Thread, ReadToken(t) PROVE ThreadsTypeOK'
  <2>1. UNCHANGED <<at, work>>
    BY <1>4 DEF ReadToken
  <2>2. \E step \in {"check", "take", "leave"} : pc' = [pc EXCEPT ![t] = step]
    BY <1>4 DEF ReadToken, Returns
  <2>3. UNCHANGED item \/ item' = [item EXCEPT ![t] = NoItem]
    BY <1>4 DEF ReadToken, Returns
  <2>4. at[t] \in Port
    BY <1>4 DEF ReadToken, InsideInv, BuildInv, BuildTypeOK, ThreadsTypeOK
  <2>5. \E token \in Token \cup {NoToken} : tok' = [tok EXCEPT ![t] = token]
    BY <1>4, <2>4 DEF ReadToken, Returns, BuildInv, BuildTypeOK, PortsTypeOK
  <2>6. tok' \in [Thread -> Token \cup {NoToken}]
    BY <2>5 DEF BuildInv, BuildTypeOK, ThreadsTypeOK
  <2> QED BY <2>1, <2>2, <2>3, <2>6 DEF BuildInv, BuildTypeOK, ThreadsTypeOK
<1>5. ASSUME NEW t \in Thread, PutCheck(t) PROVE ThreadsTypeOK'
  <2>1. UNCHANGED <<at, work>>
    BY <1>5 DEF PutCheck
  <2>2. CASE Returns(t)
    BY <2>1, <2>2 DEF Returns, BuildInv, BuildTypeOK, ThreadsTypeOK
  <2>3. CASE ~Returns(t)
    <3>1. PICK n \in Name, v \in Val : item' = [item EXCEPT ![t] = <<n, v>>]
      BY <1>5, <2>3 DEF PutCheck
    <3>2. pc' = [pc EXCEPT ![t] = "commit"] /\ UNCHANGED tok
      BY <1>5, <2>3 DEF PutCheck
    <3> QED BY <2>1, <3>1, <3>2 DEF BuildInv, BuildTypeOK, ThreadsTypeOK
  <2> QED BY <2>2, <2>3
<1>6. ASSUME NEW t \in Thread, PutRefuse(t) PROVE ThreadsTypeOK'
  BY <1>6, Shapes DEF PutRefuse, Returns, BuildInv, BuildTypeOK, ThreadsTypeOK, threads
<1>7. ASSUME NEW t \in Thread, PutCommit(t) PROVE ThreadsTypeOK'
  BY <1>7, Shapes DEF PutCommit, Returns, CommitChecks, Checks, BuildInv, BuildTypeOK,
     ThreadsTypeOK, threads
<1>8. ASSUME NEW t \in Thread, SealTake(t) PROVE ThreadsTypeOK'
  <2>1. UNCHANGED at
    BY <1>8 DEF SealTake
  <2>2. work' \in [Thread -> Images]
    <3>1. UNCHANGED work \/ (Checks(tok[t], "writing") /\ work' = [work EXCEPT ![t] = data[tok[t].key]])
      BY <1>8 DEF SealTake
    <3>2. CASE UNCHANGED work
      BY <3>2 DEF BuildInv, BuildTypeOK, ThreadsTypeOK
    <3>3. CASE ~UNCHANGED work
      <4>1. tok[t] \in Token
        BY <1>8 DEF SealTake, ThreadInv, BuildInv
      <4>2. data[tok[t].key] \in Images
        BY <4>1, Shapes DEF BuildInv, BuildTypeOK, TableTypeOK
      <4> QED BY <3>1, <3>3, <4>2 DEF BuildInv, BuildTypeOK, ThreadsTypeOK
    <3> QED BY <3>2, <3>3
  <2>3. CASE Returns(t)
    BY <2>1, <2>2, <2>3 DEF Returns, BuildInv, BuildTypeOK, ThreadsTypeOK
  <2>4. CASE ~Returns(t)
    <3>1. (\E step \in {"publish", "drop"} : pc' = [pc EXCEPT ![t] = step]) /\ UNCHANGED <<tok, item>>
      BY <1>8, <2>4 DEF SealTake
    <3> QED BY <2>1, <2>2, <3>1 DEF BuildInv, BuildTypeOK, ThreadsTypeOK
  <2> QED BY <2>3, <2>4
<1>9. ASSUME NEW t \in Thread, SealPublish(t) PROVE ThreadsTypeOK'
  BY <1>9, Shapes DEF SealPublish, PublishChecks, Checks, SealCache, Victims, BuildInv,
     BuildTypeOK, ThreadsTypeOK, threads
<1>10. ASSUME NEW t \in Thread, SealDrop(t) PROVE ThreadsTypeOK'
  BY <1>10, Shapes DEF SealDrop, Returns, Finish, BuildInv, BuildTypeOK, ThreadsTypeOK, threads
<1>11. ASSUME UNCHANGED <<pc, at, tok, item, work>> PROVE ThreadsTypeOK'
  BY <1>11 DEF BuildInv, BuildTypeOK, ThreadsTypeOK
<1>12. ASSUME
         \/ \E p \in Port, k \in Key : Begin(p, k)
         \/ \E p \in Port : Close(p) \/ Collect(p)
         \/ CloseTake \/ CloseTell \/ CloseSend \/ CloseEnd \/ WorkerReceive \/ WorkerFree \/ WorkerFinish
         \/ \E k \in Key : Drop(k)
         \/ \E l \in Lease : Unhold(l)
         \/ \E l \in Lease, k \in Key : Hold(l, k)
     PROVE  UNCHANGED <<pc, at, tok, item, work>>
  BY <1>12 DEF Begin, Close, Collect, Owes, CloseTake, CloseTell, CloseSend, CloseEnd, WorkerReceive,
     WorkerFree, WorkerFinish, Drop, Unhold, Hold, threads
<1>13. CASE UNCHANGED vars
  BY <1>11, <1>13 DEF vars, threads
<1> QED BY <1>1, <1>2, <1>3, <1>4, <1>5, <1>6, <1>7, <1>8, <1>9, <1>10, <1>12, <1>11, <1>13 DEF
   Next, NativeStep, CloseStep, WorkerStep

\* The close in progress and the retirement thread keep their shape.
LEMMA RetirementType ==
    ASSUME BuildInv, [Next]_vars
    PROVE  RetirementTypeOK'
<1>1. ASSUME NEW p \in Port, NEW k \in Key, Begin(p, k) PROVE RetirementTypeOK'
  BY <1>1, Shapes DEF Begin, BuildInv, BuildTypeOK, RetirementTypeOK, Closings, retirement
<1>2. ASSUME NEW p \in Port, Close(p) PROVE RetirementTypeOK'
  BY <1>2, Shapes DEF Close, BuildInv, BuildTypeOK, RetirementTypeOK, Closings, retirement
<1>3. ASSUME NEW p \in Port, Collect(p) PROVE RetirementTypeOK'
  <2>1. UNCHANGED <<ready, queue, wpc, wtok>>
    BY <1>3 DEF Collect, Owes, retirement
  <2>2. \/ closing' = NoClose
        \/ closing' = [pc |-> "take", port |-> p, tok |-> NoToken, last |-> TRUE]
    BY <1>3 DEF Collect, Owes, Release
  <2> QED BY <2>1, <2>2, CloseShapes DEF BuildInv, BuildTypeOK, RetirementTypeOK
<1>4. ASSUME NEW t \in Thread, Leave(t) PROVE RetirementTypeOK'
  <2>1. UNCHANGED <<ready, queue, wpc, wtok>>
    BY <1>4 DEF Leave, retirement
  <2>2. \/ closing' = NoClose
        \/ closing' = [pc |-> "take", port |-> at[t], tok |-> NoToken, last |-> TRUE]
    BY <1>4 DEF Leave, LeaveReleasing, Release
  <2>3. at[t] \in Port \cup {NoPort}
    BY DEF BuildInv, BuildTypeOK, ThreadsTypeOK
  <2> QED BY <2>1, <2>2, <2>3, CloseShapes DEF BuildInv, BuildTypeOK, RetirementTypeOK
<1>5. ASSUME CloseTake PROVE RetirementTypeOK'
  <2>1. UNCHANGED <<ready, queue, wpc, wtok>>
    BY <1>5 DEF CloseTake, retirement
  <2>2. closing.port \in Port
    BY <1>5 DEF CloseTake, RefsInv, BuildInv
  <2>3. port[closing.port].token \in Token \cup {NoToken}
    BY <2>2 DEF BuildInv, BuildTypeOK, PortsTypeOK
  <2>4. \E step \in {"end", "tell"} :
            closing' = [closing EXCEPT !.tok = port[closing.port].token, !.pc = step]
    BY <1>5 DEF CloseTake
  <2> QED BY <2>1, <2>3, <2>4 DEF BuildInv, BuildTypeOK, RetirementTypeOK, Closings
<1>6. ASSUME CloseTell PROVE RetirementTypeOK'
  BY <1>6, Shapes DEF CloseTell, Closes, Retires, BuildInv, BuildTypeOK, RetirementTypeOK,
     Closings, retirement
<1>7. ASSUME CloseSend PROVE RetirementTypeOK'
  <2>1. UNCHANGED <<ready, wpc, wtok>> /\ closing' = [closing EXCEPT !.pc = "end"]
    BY <1>7 DEF CloseSend
  <2>2. UNCHANGED queue \/ queue' = Append(queue, closing.tok)
    BY <1>7 DEF CloseSend
  <2>3. closing.tok \in Token
    BY <1>7 DEF CloseSend, RetireInv, BuildInv
  <2>4. queue' \in Seq(Token)
    BY <2>2, <2>3 DEF BuildInv, BuildTypeOK, RetirementTypeOK
  <2> QED BY <2>1, <2>4 DEF BuildInv, BuildTypeOK, RetirementTypeOK, Closings
<1>8. ASSUME CloseEnd PROVE RetirementTypeOK'
  <2>1. UNCHANGED <<ready, queue, wpc, wtok>>
    BY <1>8 DEF CloseEnd, retirement
  <2>2. closing.port \in Port
    BY <1>8 DEF CloseEnd, RefsInv, BuildInv
  <2>3. \/ closing' = NoClose
        \/ closing' = [pc |-> "take", port |-> closing.port, tok |-> NoToken, last |-> TRUE]
    BY <1>8 DEF CloseEnd, Release
  <2> QED BY <2>1, <2>2, <2>3, CloseShapes DEF BuildInv, BuildTypeOK, RetirementTypeOK
<1>9. ASSUME WorkerReceive PROVE RetirementTypeOK'
  BY <1>9, Shapes DEF WorkerReceive, BuildInv, BuildTypeOK, RetirementTypeOK, Closings, retirement
<1>10. ASSUME WorkerFree PROVE RetirementTypeOK'
  BY <1>10, Shapes DEF WorkerFree, BuildInv, BuildTypeOK, RetirementTypeOK, Closings, retirement
<1>11. ASSUME WorkerFinish PROVE RetirementTypeOK'
  BY <1>11, Shapes DEF WorkerFinish, WorkerRemove, Finish, BuildInv, BuildTypeOK,
     RetirementTypeOK, Closings, retirement
<1>12. ASSUME UNCHANGED <<closing, ready, queue, wpc, wtok>> PROVE RetirementTypeOK'
  BY <1>12 DEF BuildInv, BuildTypeOK, RetirementTypeOK, Closings
<1>13. ASSUME
         \/ \E t \in Thread, p \in Port : Enter(t, p)
         \/ \E t \in Thread : \/ Abandon(t) \/ ReadToken(t) \/ PutCheck(t) \/ PutRefuse(t)
                              \/ PutCommit(t) \/ SealTake(t) \/ SealPublish(t) \/ SealDrop(t)
         \/ \E k \in Key : Drop(k)
         \/ \E l \in Lease : Unhold(l)
         \/ \E l \in Lease, k \in Key : Hold(l, k)
     PROVE  UNCHANGED <<closing, ready, queue, wpc, wtok>>
  BY <1>13 DEF Enter, Abandon, ReadToken, PutCheck, PutRefuse, PutCommit, SealTake, SealPublish,
     SealDrop, Drop, Unhold, Hold, retirement
<1>14. CASE UNCHANGED vars
  BY <1>12, <1>14 DEF vars, retirement
<1> QED BY <1>1, <1>2, <1>3, <1>4, <1>5, <1>6, <1>7, <1>8, <1>9, <1>10, <1>11, <1>13, <1>12, <1>14
   DEF Next, NativeStep, CloseStep, WorkerStep

\* The cache, the leases and the history keep their shape.
LEMMA CacheType ==
    ASSUME BuildInv, [Next]_vars
    PROVE  CacheTypeOK'
<1>1. ASSUME NEW t \in Thread, PutCommit(t) PROVE CacheTypeOK'
  <2>1. UNCHANGED <<cache, lease, returned>>
    BY <1>1 DEF PutCommit
  <2>2. UNCHANGED acked \/ acked' = [acked EXCEPT ![tok[t].id][item[t][1]] = item[t][2]]
    BY <1>1 DEF PutCommit
  <2>3. item[t] \in Name \X Val /\ tok[t].id \in Gen
    BY <1>1, Shapes DEF PutCommit, ThreadInv, BuildInv
  <2>4. [acked[tok[t].id] EXCEPT ![item[t][1]] = item[t][2]] \in Items
    BY <2>3 DEF BuildInv, BuildTypeOK, CacheTypeOK, Items
  <2>5. acked' \in [Gen -> Items]
    BY <2>2, <2>3, <2>4 DEF BuildInv, BuildTypeOK, CacheTypeOK
  <2> QED BY <2>1, <2>5 DEF BuildInv, BuildTypeOK, CacheTypeOK
<1>2. ASSUME NEW t \in Thread, SealPublish(t) PROVE CacheTypeOK'
  <2>1. UNCHANGED <<lease, acked, returned>>
    BY <1>2 DEF SealPublish
  <2>2. work[t] \in Images
    BY DEF BuildInv, BuildTypeOK, ThreadsTypeOK
  <2>3. \/ UNCHANGED cache
        \/ cache' = [cache EXCEPT ![tok[t].key] = work[t]]
        \/ \E v \in Key : cache' = [cache EXCEPT ![v] = NoData, ![tok[t].key] = work[t]]
    BY <1>2 DEF SealPublish, SealCache, Victims, Cached
  <2> QED BY <2>1, <2>2, <2>3, Shapes DEF BuildInv, BuildTypeOK, CacheTypeOK
<1>3. ASSUME CloseEnd PROVE CacheTypeOK'
  <2>1. UNCHANGED <<cache, lease, acked>> /\ returned' = returned \cup ({closing.tok} \ {NoToken})
    BY <1>3 DEF CloseEnd
  <2> QED BY <2>1 DEF BuildInv, BuildTypeOK, CacheTypeOK, RetirementTypeOK, Closings
<1>4. ASSUME NEW k \in Key, Drop(k) PROVE CacheTypeOK'
  BY <1>4, Shapes DEF Drop, BuildInv, BuildTypeOK, CacheTypeOK, Images
<1>5. ASSUME NEW l \in Lease, Unhold(l) PROVE CacheTypeOK'
  BY <1>5, Shapes DEF Unhold, BuildInv, BuildTypeOK, CacheTypeOK, Images
<1>6. ASSUME NEW l \in Lease, NEW k \in Key, Hold(l, k) PROVE CacheTypeOK'
  BY <1>6, Shapes DEF Hold, BuildInv, BuildTypeOK, CacheTypeOK, Images
<1>7. ASSUME UNCHANGED <<cache, lease, acked, returned>> PROVE CacheTypeOK'
  BY <1>7 DEF BuildInv, BuildTypeOK, CacheTypeOK, Images
<1>8. ASSUME
         \/ \E p \in Port, k \in Key : Begin(p, k)
         \/ \E p \in Port : Close(p) \/ Collect(p)
         \/ \E t \in Thread, p \in Port : Enter(t, p)
         \/ \E t \in Thread : \/ Abandon(t) \/ Leave(t) \/ ReadToken(t) \/ PutCheck(t)
                              \/ PutRefuse(t) \/ SealTake(t) \/ SealDrop(t)
         \/ CloseTake \/ CloseTell \/ CloseSend \/ WorkerReceive \/ WorkerFree \/ WorkerFinish
     PROVE  UNCHANGED <<cache, lease, acked, returned>>
  BY <1>8 DEF Begin, Close, Collect, Owes, Enter, Abandon, Leave, ReadToken, PutCheck, PutRefuse,
     SealTake, SealDrop, CloseTake, CloseTell, CloseSend, WorkerReceive, WorkerFree, WorkerFinish
<1>9. CASE UNCHANGED vars
  BY <1>7, <1>9 DEF vars
<1> QED BY <1>1, <1>2, <1>3, <1>4, <1>5, <1>6, <1>8, <1>7, <1>9 DEF Next, NativeStep, CloseStep,
   WorkerStep

\* A thread is inside a port exactly while it is in put or seal.
LEMMA InsideStep ==
    ASSUME BuildInv, [Next]_vars
    PROVE  InsideInv'
<1>1. ASSUME NEW t \in Thread, NEW p \in Port, Enter(t, p) PROVE InsideInv'
  BY <1>1, NamesAssumption DEF Enter, BuildInv, BuildTypeOK, ThreadsTypeOK, InsideInv, threads
<1>2. ASSUME NEW t \in Thread, Abandon(t) PROVE InsideInv'
  BY <1>2, NamesAssumption DEF Abandon, BuildInv, BuildTypeOK, ThreadsTypeOK, InsideInv, threads
<1>3. ASSUME NEW t \in Thread, Leave(t) PROVE InsideInv'
  BY <1>3, NamesAssumption DEF Leave, LeaveReleasing, Release, NoClose, BuildInv, BuildTypeOK,
     ThreadsTypeOK, InsideInv, threads
<1>4. ASSUME NEW t \in Thread, ReadToken(t) PROVE InsideInv'
  BY <1>4, NamesAssumption DEF ReadToken, Returns, BuildInv, BuildTypeOK, ThreadsTypeOK,
     InsideInv, threads
<1>5. ASSUME NEW t \in Thread, PutCheck(t) PROVE InsideInv'
  BY <1>5, NamesAssumption DEF PutCheck, Returns, BuildInv, BuildTypeOK, ThreadsTypeOK, InsideInv,
     threads
<1>6. ASSUME NEW t \in Thread, PutRefuse(t) PROVE InsideInv'
  BY <1>6, NamesAssumption DEF PutRefuse, Returns, BuildInv, BuildTypeOK, ThreadsTypeOK,
     InsideInv, threads
<1>7. ASSUME NEW t \in Thread, PutCommit(t) PROVE InsideInv'
  BY <1>7, NamesAssumption DEF PutCommit, Returns, CommitChecks, Checks, BuildInv, BuildTypeOK,
     ThreadsTypeOK, InsideInv, threads
<1>8. ASSUME NEW t \in Thread, SealTake(t) PROVE InsideInv'
  BY <1>8, NamesAssumption DEF SealTake, Returns, Checks, BuildInv, BuildTypeOK, ThreadsTypeOK,
     InsideInv, threads
<1>9. ASSUME NEW t \in Thread, SealPublish(t) PROVE InsideInv'
  BY <1>9, NamesAssumption DEF SealPublish, PublishChecks, Checks, SealCache, Victims, BuildInv,
     BuildTypeOK, ThreadsTypeOK, InsideInv, threads
<1>10. ASSUME NEW t \in Thread, SealDrop(t) PROVE InsideInv'
  BY <1>10, NamesAssumption DEF SealDrop, Returns, Finish, BuildInv, BuildTypeOK, ThreadsTypeOK,
     InsideInv, threads
<1>11. ASSUME UNCHANGED <<pc, at>> PROVE InsideInv'
  BY <1>11 DEF BuildInv, BuildTypeOK, ThreadsTypeOK, InsideInv
<1>12. ASSUME
         \/ \E p \in Port, k \in Key : Begin(p, k)
         \/ \E p \in Port : Close(p) \/ Collect(p)
         \/ CloseTake \/ CloseTell \/ CloseSend \/ CloseEnd \/ WorkerReceive \/ WorkerFree \/ WorkerFinish
         \/ \E k \in Key : Drop(k)
         \/ \E l \in Lease : Unhold(l)
         \/ \E l \in Lease, k \in Key : Hold(l, k)
     PROVE  UNCHANGED <<pc, at>>
  BY <1>12 DEF Begin, Close, Collect, Owes, CloseTake, CloseTell, CloseSend, CloseEnd, WorkerReceive,
     WorkerFree, WorkerFinish, Drop, Unhold, Hold, threads
<1>13. CASE UNCHANGED vars
  BY <1>11, <1>13 DEF vars, threads
<1> QED BY <1>1, <1>2, <1>3, <1>4, <1>5, <1>6, <1>7, <1>8, <1>9, <1>10, <1>12, <1>11, <1>13 DEF
   Next, NativeStep, CloseStep, WorkerStep

\* Every step keeps the books of the references.
LEMMA RefsStep ==
    ASSUME BuildInv, [Next]_vars
    PROVE  RefsInv'
<1>1. ASSUME NEW p \in Port, Close(p) PROVE RefsInv'
  <2>1. UNCHANGED <<handle, refs, orphans, freed, at>> /\ p \in handle
        /\ closing' = [pc |-> "take", port |-> p, tok |-> NoToken, last |-> FALSE]
    BY <1>1 DEF Close, ports, threads
  <2> QED BY <2>1 DEF BuildInv, RefsInv, Users, Handles
<1>2. ASSUME NEW p \in Port, Collect(p) PROVE RefsInv'
  <2>1. UNCHANGED <<handle, freed, at>> /\ closing.pc = "none" /\ Release(p)
        /\ orphans[p] > 0 /\ orphans' = [orphans EXCEPT ![p] = @ - 1]
    BY <1>2 DEF Collect, Owes, RuntimeFree, threads
  <2>2. closing = NoClose /\ orphans \in [Port -> Nat]
    BY <2>1 DEF BuildInv, RefsInv, BuildTypeOK, PortsTypeOK
  <2>3. refs' = [refs EXCEPT ![p] = @ - 1] /\ refs \in [Port -> Int]
    BY <2>1 DEF Release, BuildInv, BuildTypeOK, PortsTypeOK
  <2>4. \A q \in Port : refs'[q] = Handles(q)' + Cardinality(Users(q)') + orphans'[q]
    BY <2>1, <2>2, <2>3, CountTypes DEF BuildInv, RefsInv, Handles, Users
  <2> QED BY <2>1, <2>2, <2>4, LastRelease, InUse DEF BuildInv
<1>3. ASSUME NEW t \in Thread, NEW p \in Port, Enter(t, p) PROVE RefsInv'
  <2>1. UNCHANGED <<handle, orphans, freed, closing>> /\ closing.pc = "none" /\ p \in handle
        /\ pc[t] = "idle" /\ at' = [at EXCEPT ![t] = p] /\ refs' = [refs EXCEPT ![p] = @ + 1]
    BY <1>3 DEF Enter, Retain, RuntimeFree
  <2>2. closing = NoClose /\ refs \in [Port -> Int] /\ at[t] = NoPort
    BY <2>1 DEF BuildInv, RefsInv, InsideInv, BuildTypeOK, PortsTypeOK
  <2>3. \A q \in Port : Cardinality(Users(q)') = Cardinality(Users(q)) + (IF q = p THEN 1 ELSE 0)
    BY <2>1, <2>2, UserJoins DEF BuildInv
  <2>4. \A q \in Port : refs'[q] = Handles(q)' + Cardinality(Users(q)') + orphans'[q]
    BY <2>1, <2>2, <2>3, CountTypes DEF BuildInv, RefsInv, Handles
  <2>5. \A q \in freed : refs'[q] = 0
    BY <2>1, <2>2, InUse DEF BuildInv, RefsInv, BuildTypeOK, PortsTypeOK
  <2> QED BY <2>1, <2>2, <2>4, <2>5 DEF RefsInv, NoClose
<1>4. ASSUME NEW t \in Thread, Abandon(t) PROVE RefsInv'
  <2> DEFINE p == at[t]
  <2>1. UNCHANGED <<handle, refs, freed, closing>> /\ closing.pc = "none"
        /\ pc[t] # "idle" /\ at' = [at EXCEPT ![t] = NoPort] /\ orphans' = [orphans EXCEPT ![p] = @ + 1]
    BY <1>4 DEF Abandon, RuntimeFree
  <2>2. closing = NoClose /\ orphans \in [Port -> Nat] /\ p \in Port
    BY <2>1 DEF BuildInv, RefsInv, InsideInv, BuildTypeOK, PortsTypeOK, ThreadsTypeOK
  <2>3. \A q \in Port : Cardinality(Users(q)') = Cardinality(Users(q)) - (IF q = p THEN 1 ELSE 0)
    BY <2>1, <2>2, UserLeaves DEF BuildInv
  <2> HIDE DEF p
  <2>4. \A q \in Port : refs'[q] = Handles(q)' + Cardinality(Users(q)') + orphans'[q]
    BY <2>1, <2>2, <2>3, CountTypes DEF BuildInv, RefsInv, Handles
  <2> QED BY <2>1, <2>2, <2>4 DEF BuildInv, RefsInv, NoClose
<1>5. ASSUME NEW t \in Thread, Leave(t) PROVE RefsInv'
  <2> DEFINE p == at[t]
  <2>1. UNCHANGED <<handle, orphans, freed>> /\ closing.pc = "none"
        /\ pc[t] # "idle" /\ at' = [at EXCEPT ![t] = NoPort] /\ Release(p)
    BY <1>5 DEF Leave, LeaveReleasing, RuntimeFree
  <2>2. closing = NoClose /\ p \in Port
    BY <2>1 DEF BuildInv, RefsInv, InsideInv, BuildTypeOK, ThreadsTypeOK
  <2>3. \A q \in Port : Cardinality(Users(q)') = Cardinality(Users(q)) - (IF q = p THEN 1 ELSE 0)
    BY <2>1, <2>2, UserLeaves DEF BuildInv
  <2>4. refs' = [refs EXCEPT ![p] = @ - 1] /\ refs \in [Port -> Int]
    BY <2>1 DEF Release, BuildInv, BuildTypeOK, PortsTypeOK
  <2>5. t \in Users(p)
    BY DEF Users
  <2> HIDE DEF p
  <2>6. \A q \in Port : refs'[q] = Handles(q)' + Cardinality(Users(q)') + orphans'[q]
    BY <2>1, <2>2, <2>3, <2>4, CountTypes DEF BuildInv, RefsInv, Handles
  <2> QED BY <2>1, <2>2, <2>5, <2>6, LastRelease, InUse DEF BuildInv
<1>6. ASSUME CloseTake PROVE RefsInv'
  <2>1. UNCHANGED <<handle, refs, orphans, freed, at>> /\ closing.pc # "none"
    BY <1>6 DEF CloseTake, ports, threads
  <2>2. closing'.port = closing.port /\ closing'.last = closing.last /\ closing'.pc # "none"
    BY <1>6 DEF CloseTake, BuildInv, BuildTypeOK, RetirementTypeOK, Closings
  <2> QED BY <2>1, <2>2 DEF BuildInv, RefsInv, Users, Handles
<1>7. ASSUME CloseTell PROVE RefsInv'
  <2>1. UNCHANGED <<handle, refs, orphans, freed, at>> /\ closing.pc # "none"
    BY <1>7 DEF CloseTell, ports, threads
  <2>2. closing'.port = closing.port /\ closing'.last = closing.last /\ closing'.pc # "none"
    BY <1>7 DEF CloseTell, BuildInv, BuildTypeOK, RetirementTypeOK, Closings
  <2> QED BY <2>1, <2>2 DEF BuildInv, RefsInv, Users, Handles
<1>8. ASSUME CloseSend PROVE RefsInv'
  <2>1. UNCHANGED <<handle, refs, orphans, freed, at>> /\ closing.pc # "none"
    BY <1>8 DEF CloseSend, ports, threads
  <2>2. closing'.port = closing.port /\ closing'.last = closing.last /\ closing'.pc # "none"
    BY <1>8 DEF CloseSend, BuildInv, BuildTypeOK, RetirementTypeOK, Closings
  <2> QED BY <2>1, <2>2 DEF BuildInv, RefsInv, Users, Handles
<1>9. ASSUME CloseEnd PROVE RefsInv'
  <2> DEFINE p == closing.port
  <2>1. UNCHANGED <<orphans, at>> /\ p \in Port /\ closing.pc = "end"
    BY <1>9 DEF CloseEnd, threads, BuildInv, RefsInv
  <2>2. CASE closing.last
    <3>1. UNCHANGED <<handle, refs>> /\ freed' = freed \cup {p} /\ closing' = NoClose
      BY <1>9, <2>2 DEF CloseEnd
    <3> QED BY <2>1, <2>2, <3>1 DEF BuildInv, RefsInv, Users, Handles, NoClose
  <2>3. CASE ~closing.last
    <3>1. UNCHANGED freed /\ handle' = handle \ {p} /\ Release(p) /\ p \in handle
      BY <1>9, <2>1, <2>3 DEF CloseEnd, BuildInv, RefsInv
    <3>2. refs' = [refs EXCEPT ![p] = @ - 1] /\ refs \in [Port -> Int]
      BY <3>1 DEF Release, BuildInv, BuildTypeOK, PortsTypeOK
    <3> HIDE DEF p
    <3>3. \A q \in Port : refs'[q] = Handles(q)' + Cardinality(Users(q)') + orphans'[q]
      BY <2>1, <3>1, <3>2, CountTypes DEF BuildInv, RefsInv, Handles, Users
    <3> QED BY <2>1, <3>1, <3>3, LastRelease, InUse DEF BuildInv
  <2> QED BY <2>2, <2>3
<1>10. ASSUME UNCHANGED <<closing, handle, refs, orphans, freed, at>> PROVE RefsInv'
  BY <1>10 DEF BuildInv, RefsInv, Users, Handles
<1>11. ASSUME
         \/ \E p \in Port, k \in Key : Begin(p, k)
         \/ \E t \in Thread : \/ ReadToken(t) \/ PutCheck(t) \/ PutRefuse(t) \/ PutCommit(t)
                              \/ SealTake(t) \/ SealPublish(t) \/ SealDrop(t)
         \/ WorkerReceive \/ WorkerFree \/ WorkerFinish
         \/ \E k \in Key : Drop(k)
         \/ \E l \in Lease : Unhold(l)
         \/ \E l \in Lease, k \in Key : Hold(l, k)
     PROVE  UNCHANGED <<closing, handle, refs, orphans, freed, at>>
  BY <1>11 DEF Begin, ReadToken, PutCheck, PutRefuse, PutCommit, SealTake, SealPublish, SealDrop,
     WorkerReceive, WorkerFree, WorkerFinish, Drop, Unhold, Hold, ports, threads
<1>12. CASE UNCHANGED vars
  BY <1>10, <1>12 DEF vars, ports, threads
<1> QED BY <1>1, <1>2, <1>3, <1>4, <1>5, <1>6, <1>7, <1>8, <1>9, <1>11, <1>10, <1>12 DEF Next,
   NativeStep, CloseStep, WorkerStep

\* Every step keeps the generations below the next one.
LEMMA FreshStep ==
    ASSUME BuildInv, [Next]_vars
    PROVE  FreshInv'
<1>1. ASSUME NEW p \in Port, NEW k \in Key, Begin(p, k) PROVE FreshInv'
  <2>1. UNCHANGED <<cache, work, returned, closing, acked>>
    BY <1>1 DEF Begin, threads
  <2>2. next' = next + 1 /\ next \in Nat
    BY <1>1, BeginEffect, IdTypes DEF BuildInv
  <2>3. /\ \A j \in Key : slots'[j].id <= next' /\ cache[j].id <= next'
        /\ \A j \in Key : slots'[j].id = 0 <=> slots'[j].phase = "none"
    BY <1>1, <2>2, BeginEffect, IdTypes DEF BuildInv, FreshInv
  <2>4. \A i, j \in Key : slots'[i].id = slots'[j].id /\ slots'[i].id # 0 => i = j
    <3>1. \A j \in Key : slots[j].id # next'
      BY <2>2, IdTypes DEF BuildInv, FreshInv
    <3> QED BY <1>1, <3>1, BeginEffect DEF BuildInv, FreshInv
  <2>5. \A q \in Port : port'[q].token.id <= next'
    BY <1>1, <2>2, BeginEffect, IdTypes DEF BuildInv, FreshInv
  <2>6. /\ \A u \in Thread : work[u].id <= next'
        /\ \A token \in returned : token.id <= next'
        /\ closing.tok.id <= next'
        /\ \A g \in Gen : (g = 0 \/ g > next') => acked[g] = NoItems
    BY <2>2, IdTypes, Shapes DEF BuildInv, FreshInv
  <2> QED BY <2>1, <2>3, <2>4, <2>5, <2>6 DEF FreshInv
<1>2. ASSUME NEW p \in Port, Close(p) PROVE FreshInv'
  BY <1>2, Shapes DEF Close, BuildInv, BuildTypeOK, TableTypeOK, FreshInv, NoClose, NoToken,
     NoData, owner, ports, threads
<1>3. ASSUME NEW p \in Port, Collect(p) PROVE FreshInv'
  BY <1>3, Shapes DEF Collect, Owes, Release, NoClose, BuildInv, BuildTypeOK, TableTypeOK, FreshInv,
     NoToken, NoData, owner, ports, threads
<1>4. ASSUME NEW t \in Thread, Leave(t) PROVE FreshInv'
  BY <1>4, Shapes DEF Leave, LeaveReleasing, Release, NoClose, BuildInv, BuildTypeOK, TableTypeOK,
     FreshInv, NoToken, NoData, owner, ports, threads
<1>5. ASSUME NEW t \in Thread, PutCommit(t) PROVE FreshInv'
  <2>1. UNCHANGED <<slots, next, cache, work, returned, port, closing>>
    BY <1>5 DEF PutCommit, owner, ports
  <2>2. CASE UNCHANGED acked
    BY <2>1, <2>2 DEF BuildInv, FreshInv
  <2>3. CASE ~UNCHANGED acked
    <3>1. tok[t].id \in Nat \ {0} /\ tok[t].id <= next /\ \A h \in Gen \ {tok[t].id} : acked'[h] = acked[h]
      BY <1>5, <2>3, CommitEffect, Shapes DEF BuildInv, FreshInv
    <3>2. \A g \in Gen : (g = 0 \/ g > next) => g # tok[t].id
      BY <3>1, IdTypes, Shapes DEF BuildInv
    <3>3. \A g \in Gen : (g = 0 \/ g > next) => acked'[g] = NoItems
      BY <3>1, <3>2 DEF BuildInv, FreshInv
    <3> QED BY <2>1, <3>3, IdTypes, Shapes DEF BuildInv, FreshInv
  <2> QED BY <2>2, <2>3
<1>6. ASSUME NEW t \in Thread, SealTake(t) PROVE FreshInv'
  <2>1. UNCHANGED <<next, cache, returned, port, closing, acked>>
    BY <1>6 DEF SealTake, ports
  <2>2. CASE UNCHANGED <<slots, data, work>>
    BY <2>1, <2>2 DEF BuildInv, FreshInv
  <2>3. CASE ~UNCHANGED <<slots, data, work>>
    <3>1. \A k \in Key : slots'[k].id = slots[k].id /\ (slots'[k].phase = "none" <=> slots[k].phase = "none")
      BY <1>6, <2>3, SealTakeEffect DEF BuildInv
    <3>2. \A u \in Thread : work'[u].id <= next
      <4>1. data[tok[t].key].id <= next
        BY <1>6, <2>3, SealTakeEffect, WritingData, IdTypes DEF BuildInv, FreshInv
      <4> QED BY <1>6, <2>3, <4>1, SealTakeEffect DEF BuildInv, FreshInv
    <3> QED BY <2>1, <3>1, <3>2 DEF BuildInv, FreshInv
  <2> QED BY <2>2, <2>3
<1>7. ASSUME NEW t \in Thread, SealPublish(t) PROVE FreshInv'
  <2>1. UNCHANGED <<slots, next, work, returned, port, closing, acked>>
    BY <1>7 DEF SealPublish, owner, ports
  <2>2. \A k \in Key : cache'[k].id <= next
    BY <1>7, PublishEffect, IdTypes DEF BuildInv, FreshInv, NoData
  <2> QED BY <2>1, <2>2 DEF BuildInv, FreshInv
<1>8. ASSUME NEW t \in Thread, SealDrop(t) PROVE FreshInv'
  <2>1. UNCHANGED <<next, cache, returned, port, closing, acked>> /\ work' = [work EXCEPT ![t] = NoData]
    BY <1>8 DEF SealDrop, ports
  <2>2. \A u \in Thread : work'[u].id <= next
    BY <2>1, IdTypes DEF BuildInv, FreshInv, NoData, BuildTypeOK, ThreadsTypeOK
  <2>3. tok[t] \in Token /\ Finish(tok[t])
    BY <1>8 DEF SealDrop, BuildInv, ThreadInv
  <2>4. \A j \in Key : slots'[j] = slots[j] \/ slots'[j] = NoSlot
    BY <2>3, FinishEffect DEF BuildInv
  <2> QED BY <2>1, <2>2, <2>4, IdTypes DEF BuildInv, FreshInv, NoSlot
<1>9. ASSUME CloseTake PROVE FreshInv'
  <2>1. UNCHANGED <<slots, next, cache, work, returned, acked>>
    BY <1>9 DEF CloseTake, owner, threads
  <2>2. closing.port \in Port
    BY <1>9 DEF CloseTake, BuildInv, RefsInv
  <2>3. closing'.tok = port[closing.port].token
    BY <1>9 DEF CloseTake, BuildInv, BuildTypeOK, RetirementTypeOK, Closings
  <2>4. \A p \in Port : port'[p].token \in {port[p].token, NoToken}
    BY <1>9, <2>2 DEF CloseTake, BuildInv, BuildTypeOK, PortsTypeOK
  <2>5. \A p \in Port : port'[p].token.id <= next
    BY <2>4, Shapes, IdTypes DEF BuildInv, FreshInv
  <2> QED BY <2>1, <2>2, <2>3, <2>5 DEF BuildInv, FreshInv
<1>10. ASSUME CloseTell PROVE FreshInv'
  <2>1. UNCHANGED <<next, cache, work, returned, port, acked>>
    BY <1>10 DEF CloseTell, ports, threads
  <2>2. \A k \in Key : slots'[k].id = slots[k].id /\ (slots'[k].phase = "none" <=> slots[k].phase = "none")
    BY <1>10, TellEffect, Shapes DEF BuildInv, FreshInv
  <2>3. closing'.tok = closing.tok
    BY <1>10, TellEffect DEF BuildInv
  <2> QED BY <2>1, <2>2, <2>3 DEF BuildInv, FreshInv
<1>11. ASSUME CloseSend PROVE FreshInv'
  BY <1>11, Shapes DEF CloseSend, BuildInv, BuildTypeOK, TableTypeOK, FreshInv, NoClose, NoToken,
     NoData, owner, ports, threads
<1>12. ASSUME CloseEnd PROVE FreshInv'
  BY <1>12, Shapes DEF CloseEnd, Release, NoClose, BuildInv, BuildTypeOK, TableTypeOK, FreshInv,
     NoToken, NoData, owner, ports, threads
<1>13. ASSUME WorkerFinish PROVE FreshInv'
  <2>1. UNCHANGED <<next, cache, work, returned, port, closing, acked>>
    BY <1>13 DEF WorkerFinish, ports, threads
  <2>2. wtok \in Token /\ Finish(wtok)
    BY <1>13 DEF WorkerFinish, WorkerRemove, BuildInv, RetireInv
  <2>3. \A j \in Key : slots'[j] = slots[j] \/ slots'[j] = NoSlot
    BY <2>2, FinishEffect DEF BuildInv
  <2> QED BY <2>1, <2>3, IdTypes DEF BuildInv, FreshInv, NoSlot
<1>14. ASSUME NEW k \in Key, Drop(k) PROVE FreshInv'
  BY <1>14, Shapes DEF Drop, BuildInv, BuildTypeOK, TableTypeOK, FreshInv, NoClose, NoToken,
     NoData, owner, ports, threads
<1>15. ASSUME UNCHANGED <<slots, next, cache, work, returned, port, closing, acked>> PROVE FreshInv'
  BY <1>15 DEF BuildInv, BuildTypeOK, TableTypeOK, FreshInv, NoClose, NoToken, NoData
<1>16. ASSUME
         \/ \E t \in Thread, p \in Port : Enter(t, p)
         \/ \E t \in Thread : Abandon(t) \/ ReadToken(t) \/ PutCheck(t) \/ PutRefuse(t)
         \/ WorkerReceive \/ WorkerFree
         \/ \E l \in Lease : Unhold(l)
         \/ \E l \in Lease, k \in Key : Hold(l, k)
     PROVE  UNCHANGED <<slots, next, cache, work, returned, port, closing, acked>>
  BY <1>16 DEF Enter, Abandon, ReadToken, PutCheck, PutRefuse, WorkerReceive, WorkerFree, Unhold,
     Hold, owner, ports, threads
<1>17. CASE UNCHANGED vars
  BY <1>15, <1>17 DEF vars, owner, ports, threads
<1> QED BY <1>1, <1>2, <1>3, <1>4, <1>5, <1>6, <1>7, <1>8, <1>9, <1>10, <1>11, <1>12, <1>13,
   <1>14, <1>16, <1>15, <1>17 DEF Next, NativeStep, CloseStep, WorkerStep

\* Every step keeps the locals of put and seal.
LEMMA ThreadStep ==
    ASSUME BuildInv, [Next]_vars
    PROVE  ThreadInv'
<1>1. ASSUME NEW t \in Thread, NEW p \in Port, Enter(t, p) PROVE ThreadInv'
  BY <1>1, Shapes DEF Enter, BuildInv, BuildTypeOK, ThreadsTypeOK, ThreadInv, Sealed, threads
<1>2. ASSUME NEW t \in Thread, Abandon(t) PROVE ThreadInv'
  BY <1>2, Shapes DEF Abandon, BuildInv, BuildTypeOK, ThreadsTypeOK, ThreadInv, Sealed, threads
<1>3. ASSUME NEW t \in Thread, Leave(t) PROVE ThreadInv'
  BY <1>3, Shapes DEF Leave, LeaveReleasing, Release, NoClose, BuildInv, BuildTypeOK,
     ThreadsTypeOK, ThreadInv, Sealed, threads
<1>4. ASSUME NEW t \in Thread, ReadToken(t) PROVE ThreadInv'
  <2>1. UNCHANGED work /\ pc[t] = "enter"
    BY <1>4 DEF ReadToken
  <2>2. CASE Returns(t)
    BY <2>1, <2>2 DEF Returns, BuildInv, BuildTypeOK, ThreadsTypeOK, ThreadInv, Sealed
  <2>3. CASE ~Returns(t)
    <3>1. at[t] \in Port
      BY <1>4 DEF ReadToken, BuildInv, InsideInv, BuildTypeOK, ThreadsTypeOK
    <3>2. port[at[t]].token \in Token
      BY <1>4, <2>3, <3>1 DEF ReadToken, BuildInv, BuildTypeOK, PortsTypeOK
    <3>3. /\ \E step \in {"check", "take"} : pc' = [pc EXCEPT ![t] = step]
          /\ tok' = [tok EXCEPT ![t] = port[at[t]].token] /\ UNCHANGED item
      BY <1>4, <2>3 DEF ReadToken
    <3> QED BY <2>1, <3>2, <3>3 DEF BuildInv, BuildTypeOK, ThreadsTypeOK, ThreadInv, Sealed
  <2> QED BY <2>2, <2>3
<1>5. ASSUME NEW t \in Thread, PutCheck(t) PROVE ThreadInv'
  <2>1. UNCHANGED work /\ pc[t] = "check" /\ tok[t] \in Token
    BY <1>5 DEF PutCheck, BuildInv, ThreadInv
  <2>2. CASE Returns(t)
    BY <2>1, <2>2 DEF Returns, BuildInv, BuildTypeOK, ThreadsTypeOK, ThreadInv, Sealed
  <2>3. CASE ~Returns(t)
    <3>1. PICK n \in Name, v \in Val : item' = [item EXCEPT ![t] = <<n, v>>]
      BY <1>5, <2>3 DEF PutCheck
    <3>2. pc' = [pc EXCEPT ![t] = "commit"] /\ UNCHANGED tok
      BY <1>5, <2>3 DEF PutCheck
    <3>3. <<n, v>> \in Name \X Val
      OBVIOUS
    <3> QED BY <2>1, <3>1, <3>2, <3>3 DEF BuildInv, BuildTypeOK, ThreadsTypeOK, ThreadInv, Sealed
  <2> QED BY <2>2, <2>3
<1>6. ASSUME NEW t \in Thread, PutRefuse(t) PROVE ThreadInv'
  BY <1>6, Shapes DEF PutRefuse, Returns, BuildInv, BuildTypeOK, ThreadsTypeOK, ThreadInv, Sealed,
     threads
<1>7. ASSUME NEW t \in Thread, PutCommit(t) PROVE ThreadInv'
  BY <1>7, Shapes DEF PutCommit, Returns, CommitChecks, Checks, BuildInv, BuildTypeOK,
     ThreadsTypeOK, ThreadInv, Sealed, threads
<1>8. ASSUME NEW t \in Thread, SealTake(t) PROVE ThreadInv'
  <2>1. CASE UNCHANGED <<slots, data, work>>
    <3>1. pc' = [pc EXCEPT ![t] = "leave"] /\ tok' = [tok EXCEPT ![t] = NoToken] /\ item' = [item EXCEPT ![t] = NoItem]
      <4>1. CASE Returns(t)
        BY <4>1 DEF Returns
      <4>2. CASE ~Returns(t)
        <5>1. slots[tok[t].key] = Slot(tok[t].id, "writing") /\ slots' = [slots EXCEPT ![tok[t].key] = Slot(tok[t].id, "sealing")]
          BY <1>8, <4>2 DEF SealTake, Checks
        <5>2. tok[t].key \in Key
          BY <1>8, Shapes DEF SealTake, BuildInv, ThreadInv
        <5> QED BY <2>1, <5>1, <5>2 DEF Slot, BuildInv, BuildTypeOK, TableTypeOK
      <4> QED BY <4>1, <4>2
    <3> QED BY <1>8, <2>1, <3>1 DEF SealTake, BuildInv, BuildTypeOK, ThreadsTypeOK, ThreadInv, Sealed
  <2>2. CASE ~UNCHANGED <<slots, data, work>>
    <3>1. data[tok[t].key].id = tok[t].id /\ tok[t].id # 0 /\ tok[t] \in Token
      BY <1>8, <2>2, SealTakeEffect, Shapes, WritingData DEF BuildInv
    <3>2. data[tok[t].key] # NoData
      BY <3>1 DEF NoData
    <3>3. /\ \E step \in {"publish", "drop"} : pc' = [pc EXCEPT ![t] = step]
          /\ UNCHANGED <<tok, item>> /\ work' = [work EXCEPT ![t] = data[tok[t].key]]
      BY <1>8, <2>2, <3>2 DEF SealTake
    <3> QED BY <3>1, <3>3 DEF BuildInv, BuildTypeOK, ThreadsTypeOK, ThreadInv, Sealed
  <2> QED BY <2>1, <2>2
<1>9. ASSUME NEW t \in Thread, SealPublish(t) PROVE ThreadInv'
  BY <1>9, Shapes DEF SealPublish, PublishChecks, Checks, SealCache, Victims, BuildInv,
     BuildTypeOK, ThreadsTypeOK, ThreadInv, Sealed, threads
<1>10. ASSUME NEW t \in Thread, SealDrop(t) PROVE ThreadInv'
  BY <1>10, Shapes DEF SealDrop, Returns, Finish, BuildInv, BuildTypeOK, ThreadsTypeOK, ThreadInv,
     Sealed, threads
<1>11. ASSUME UNCHANGED <<pc, tok, item, work>> PROVE ThreadInv'
  BY <1>11 DEF BuildInv, BuildTypeOK, ThreadsTypeOK, ThreadInv, Sealed
<1>12. ASSUME
         \/ \E p \in Port, k \in Key : Begin(p, k)
         \/ \E p \in Port : Close(p) \/ Collect(p)
         \/ CloseTake \/ CloseTell \/ CloseSend \/ CloseEnd \/ WorkerReceive \/ WorkerFree \/ WorkerFinish
         \/ \E k \in Key : Drop(k)
         \/ \E l \in Lease : Unhold(l)
         \/ \E l \in Lease, k \in Key : Hold(l, k)
     PROVE  UNCHANGED <<pc, tok, item, work>>
  BY <1>12 DEF Begin, Close, Collect, Owes, CloseTake, CloseTell, CloseSend, CloseEnd, WorkerReceive,
     WorkerFree, WorkerFinish, Drop, Unhold, Hold, threads
<1>13. CASE UNCHANGED vars
  BY <1>11, <1>13 DEF vars, threads
<1> QED BY <1>1, <1>2, <1>3, <1>4, <1>5, <1>6, <1>7, <1>8, <1>9, <1>10, <1>12, <1>11, <1>13 DEF
   Next, NativeStep, CloseStep, WorkerStep

\* Every step leaves a sealed thread its slot.
LEMMA SealStep ==
    ASSUME BuildInv, [Next]_vars
    PROVE  SealInv'
<1>1. ASSUME Quiet PROVE SealInv'
  <2>1. UNCHANGED slots /\ \A token : Doomed(token)' <=> Doomed(token)
    BY <1>1, QuietSteps, DoomedSame
  <2>2. \A u \in Thread : Sealed(u)' => Sealed(u) /\ tok'[u] = tok[u]
    BY <1>1
      DEF Quiet, Close, Collect, Owes, Leave, LeaveReleasing, CloseTake, CloseEnd, Sealed, threads, BuildInv,
       BuildTypeOK, ThreadsTypeOK
  <2> QED BY <2>1, <2>2 DEF BuildInv, SealInv
<1>2. ASSUME NEW t \in Thread, Passing(t) PROVE SealInv'
  <2>1. UNCHANGED <<slots, closing, queue, wpc, wtok>>
    BY <1>2
      DEF Passing, Enter, Abandon, ReadToken, PutCheck, PutRefuse, PutCommit, SealPublish, owner, retirement
  <2>2. \A u \in Thread : Sealed(u)' => Sealed(u) /\ tok'[u] = tok[u]
    BY <1>2
      DEF Passing, Enter, Abandon, ReadToken, PutCheck, PutRefuse, PutCommit, SealPublish, Returns, Sealed,
       BuildInv, BuildTypeOK, ThreadsTypeOK
  <2>3. \A token : Doomed(token)' <=> Doomed(token)
    BY <2>1 DEF Doomed, Retiring
  <2> QED BY <2>1, <2>2, <2>3 DEF BuildInv, SealInv
<1>3. ASSUME NEW p \in Port, NEW k \in Key, Begin(p, k) PROVE SealInv'
  <2>1. UNCHANGED <<pc, tok, closing, queue, wpc, wtok>>
    BY <1>3 DEF Begin, threads
  <2>2. \A token : Doomed(token)' <=> Doomed(token)
    BY <2>1 DEF Doomed, Retiring
  <2>3. \A u \in Thread : Sealed(u) => tok[u].key \in Key \ {k}
    BY <1>3, BeginEffect, Shapes DEF BuildInv, SealInv, ThreadInv, Sealed, NoSlot
  <2> QED BY <1>3, <2>1, <2>2, <2>3, BeginEffect DEF BuildInv, SealInv, Sealed
<1>4. ASSUME NEW t \in Thread, SealTake(t) PROVE SealInv'
  <2>1. UNCHANGED <<closing, queue, wpc, wtok>>
    BY <1>4 DEF SealTake, retirement
  <2>2. \A token : Doomed(token)' <=> Doomed(token)
    BY <2>1 DEF Doomed, Retiring
  <2>3. \A u \in Thread \ {t} : (Sealed(u)' <=> Sealed(u)) /\ (Sealed(u) => tok'[u] = tok[u])
    BY <1>4 DEF SealTake, Returns, Sealed, BuildInv, BuildTypeOK, ThreadsTypeOK
  <2>4. CASE Returns(t)
    <3>1. ~Sealed(t)'
      BY <2>4 DEF Returns, Sealed, BuildInv, BuildTypeOK, ThreadsTypeOK
    <3>2. UNCHANGED slots
      <4>1. CASE UNCHANGED <<slots, data, work>>
        BY <4>1
      <4>2. CASE ~UNCHANGED <<slots, data, work>>
        <5>1. data[tok[t].key].id = tok[t].id /\ tok[t].id # 0
          BY <1>4, <4>2, SealTakeEffect, Shapes, WritingData DEF BuildInv
        <5>2. data[tok[t].key] # NoData
          BY <5>1 DEF NoData
        <5>3. pc'[t] \in {"publish", "drop"}
          BY <1>4, <4>2, <5>2 DEF SealTake, BuildInv, BuildTypeOK, ThreadsTypeOK
        <5> QED BY <3>1, <5>3 DEF Sealed
      <4> QED BY <4>1, <4>2
    <3> QED BY <2>2, <2>3, <3>1, <3>2 DEF BuildInv, SealInv
  <2>5. CASE ~Returns(t)
    <3>1. /\ \E step \in {"publish", "drop"} : pc' = [pc EXCEPT ![t] = step]
          /\ UNCHANGED tok /\ slots[tok[t].key] = Slot(tok[t].id, "writing")
          /\ slots' = [slots EXCEPT ![tok[t].key] = Slot(tok[t].id, "sealing")]
      BY <1>4, <2>5 DEF SealTake, Checks
    <3>2. tok[t] \in Token /\ tok[t].key \in Key
      BY <1>4, Shapes DEF SealTake, BuildInv, ThreadInv
    <3>3. slots[tok[t].key].id = tok[t].id /\ slots[tok[t].key].phase = "writing"
      BY <3>1 DEF Slot
    <3>4. slots'[tok[t].key].id = tok[t].id /\ slots'[tok[t].key].phase = "sealing"
      BY <3>1, <3>2 DEF Slot, BuildInv, BuildTypeOK, TableTypeOK
    <3>5. \A j \in Key \ {tok[t].key} : slots'[j] = slots[j]
      BY <3>1 DEF BuildInv, BuildTypeOK, TableTypeOK
    <3>6. ~Doomed(tok[t])
      BY <3>2, <3>3 DEF BuildInv, RetireInv
    <3>7. \A u \in Thread : Sealed(u) => tok[u].key \in Key \ {tok[t].key}
      BY <3>3, Shapes DEF BuildInv, SealInv, ThreadInv, Sealed
    <3>8. \A u \in Thread : Sealed(u) => tok[u] # tok[t]
      BY <3>7
    <3> QED BY <2>2, <2>3, <3>1, <3>4, <3>5, <3>6, <3>7, <3>8 DEF BuildInv, SealInv
  <2> QED BY <2>4, <2>5
<1>5. ASSUME NEW t \in Thread, SealDrop(t) PROVE SealInv'
  <2>1. UNCHANGED <<closing, queue, wpc, wtok>> /\ Finish(tok[t]) /\ Sealed(t) /\ tok[t] \in Token
    BY <1>5 DEF SealDrop, retirement, Sealed, BuildInv, ThreadInv
  <2>2. \A token : Doomed(token)' <=> Doomed(token)
    BY <2>1 DEF Doomed, Retiring
  <2>3. \A u \in Thread : Sealed(u)' => u # t /\ Sealed(u) /\ tok'[u] = tok[u]
    BY <1>5 DEF SealDrop, Returns, Sealed, BuildInv, BuildTypeOK, ThreadsTypeOK
  <2>4. \A u \in Thread \ {t} : Sealed(u) => tok[u].key \in Key /\ tok[u].key # tok[t].key
    BY <2>1, OwnSlot, Shapes DEF BuildInv, SealInv, ThreadInv, Sealed
  <2>5. \A j \in Key \ {tok[t].key} : slots'[j] = slots[j]
    BY <2>1, FinishEffect DEF BuildInv
  <2> QED BY <2>2, <2>3, <2>4, <2>5 DEF BuildInv, SealInv
<1>6. ASSUME CloseTell PROVE SealInv'
  <2>1. UNCHANGED <<pc, tok>>
    BY <1>6 DEF CloseTell, threads
  <2>2. \A u \in Thread : Sealed(u) => ~(closing'.pc = "send" /\ tok[u] = closing.tok)
    BY <1>6, TellEffect DEF BuildInv, SealInv
  <2>3. \A token : Doomed(token)' => Doomed(token) \/ (closing'.pc = "send" /\ token = closing.tok)
    BY <1>6, DoomedTell
  <2>4. \A u \in Thread : Sealed(u) => tok[u].key \in Key
    BY Shapes DEF BuildInv, ThreadInv, Sealed
  <2>5. \A u \in Thread : Sealed(u) =>
           /\ slots'[tok[u].key].id = tok[u].id
           /\ slots'[tok[u].key].phase \in {"sealing", "closing"}
    BY <1>6, <2>4, TellEffect DEF BuildInv, SealInv
  <2> QED BY <2>1, <2>2, <2>3, <2>5 DEF BuildInv, SealInv, Sealed
<1>7. ASSUME CloseSend PROVE SealInv'
  <2>1. UNCHANGED <<pc, tok, slots>> /\ \A token : Doomed(token)' <=> Doomed(token)
    BY <1>7, DoomedSend DEF CloseSend, threads
  <2> QED BY <2>1 DEF BuildInv, SealInv, Sealed
<1>8. ASSUME WorkerReceive PROVE SealInv'
  <2>1. UNCHANGED <<pc, tok, slots>> /\ \A token : Doomed(token)' <=> Doomed(token)
    BY <1>8, DoomedReceive DEF WorkerReceive, threads, owner
  <2> QED BY <2>1 DEF BuildInv, SealInv, Sealed
<1>9. ASSUME WorkerFree PROVE SealInv'
  <2>1. UNCHANGED <<pc, tok, slots>> /\ \A token : Doomed(token)' => Doomed(token)
    BY <1>9 DEF WorkerFree, threads, owner, Doomed, Retiring
  <2> QED BY <2>1 DEF BuildInv, SealInv, Sealed
<1>10. ASSUME WorkerFinish PROVE SealInv'
  <2>1. UNCHANGED <<pc, tok, closing, queue>> /\ Finish(wtok) /\ wpc = "finish" /\ wpc' = "idle"
    BY <1>10 DEF WorkerFinish, WorkerRemove, threads
  <2>2. \A token : Doomed(token)' => Doomed(token)
    BY <2>1 DEF Doomed, Retiring
  <2>3. wtok \in Token /\ Doomed(wtok) /\ slots[wtok.key].id = wtok.id
    BY <2>1 DEF BuildInv, RetireInv, Doomed
  <2>4. \A u \in Thread : Sealed(u) => tok[u].key \in Key \ {wtok.key}
    BY <2>3, OwnSlot, Shapes DEF BuildInv, SealInv, ThreadInv, Sealed
  <2>5. \A j \in Key \ {wtok.key} : slots'[j] = slots[j]
    BY <2>1, <2>3, FinishEffect DEF BuildInv
  <2> QED BY <2>1, <2>2, <2>4, <2>5 DEF BuildInv, SealInv, Sealed
<1>11. ASSUME UNCHANGED <<pc, tok, slots, closing, queue, wpc, wtok>> PROVE SealInv'
  BY <1>11 DEF BuildInv, SealInv, Sealed, Doomed, Retiring
<1>12. ASSUME
         \/ \E k \in Key : Drop(k)
         \/ \E l \in Lease : Unhold(l)
         \/ \E l \in Lease, k \in Key : Hold(l, k)
     PROVE  UNCHANGED <<pc, tok, slots, closing, queue, wpc, wtok>>
  BY <1>12 DEF Drop, Unhold, Hold, owner, threads, retirement
<1>13. CASE UNCHANGED vars
  BY <1>11, <1>13 DEF vars, owner, threads, retirement
<1> QED BY <1>1, <1>2, <1>3, <1>4, <1>5, <1>6, <1>7, <1>8, <1>9, <1>10, <1>12, <1>11, <1>13 DEF
   Next, NativeStep, CloseStep, WorkerStep, Quiet, Passing

\* Every step leaves a token on its way its closed slot.
LEMMA RetireStep ==
    ASSUME BuildInv, [Next]_vars
    PROVE  RetireInv'
<1>1. ASSUME Quiet PROVE RetireInv'
  BY <1>1, QuietSteps, DoomedSame DEF BuildInv, RetireInv, Queued
<1>2. ASSUME NEW p \in Port, NEW k \in Key, Begin(p, k) PROVE RetireInv'
  <2>1. UNCHANGED <<closing, queue, wpc, wtok>>
    BY <1>2 DEF Begin
  <2>2. \A token : Doomed(token)' <=> Doomed(token)
    BY <2>1 DEF Doomed, Retiring
  <2>3. \A token \in Token : Doomed(token) => token.key \in Key \ {k}
    BY <1>2, BeginEffect, Shapes DEF BuildInv, RetireInv, NoSlot
  <2> QED BY <1>2, <2>1, <2>2, <2>3, BeginEffect DEF BuildInv, RetireInv, Queued
<1>3. ASSUME NEW t \in Thread, SealTake(t) PROVE RetireInv'
  <2>1. UNCHANGED <<closing, queue, wpc, wtok>>
    BY <1>3 DEF SealTake, retirement
  <2>2. \A token : Doomed(token)' <=> Doomed(token)
    BY <2>1 DEF Doomed, Retiring
  <2>3. CASE UNCHANGED <<slots, data, work>>
    BY <2>1, <2>2, <2>3 DEF BuildInv, RetireInv, Queued
  <2>4. CASE ~UNCHANGED <<slots, data, work>>
    <3>1. \A token \in Token : Doomed(token) => token.key \in Key \ {tok[t].key}
      BY <1>3, <2>4, SealTakeEffect, Shapes DEF BuildInv, RetireInv
    <3> QED BY <1>3, <2>1, <2>2, <2>4, <3>1, SealTakeEffect DEF BuildInv, RetireInv, Queued
  <2> QED BY <2>3, <2>4
<1>4. ASSUME NEW t \in Thread, SealDrop(t) PROVE RetireInv'
  <2>1. UNCHANGED <<closing, queue, wpc, wtok>> /\ Finish(tok[t]) /\ Sealed(t) /\ tok[t] \in Token
    BY <1>4 DEF SealDrop, retirement, Sealed, BuildInv, ThreadInv
  <2>2. \A token : Doomed(token)' <=> Doomed(token)
    BY <2>1 DEF Doomed, Retiring
  <2>3. \A token \in Token : Doomed(token) => token.key \in Key \ {tok[t].key}
    BY <2>1, OwnSlot, Shapes DEF BuildInv, SealInv
  <2>4. \A j \in Key \ {tok[t].key} : slots'[j] = slots[j]
    BY <2>1, FinishEffect DEF BuildInv
  <2> QED BY <2>1, <2>2, <2>3, <2>4 DEF BuildInv, RetireInv, Queued
<1>5. ASSUME CloseTell PROVE RetireInv'
  <2>1. UNCHANGED <<queue, wpc, wtok>>
    BY <1>5, DoomedTell
  <2>2. \A token \in Token : Doomed(token)' =>
            slots'[token.key].id = token.id /\ slots'[token.key].phase = "closing"
    <3> SUFFICES ASSUME NEW token \in Token, Doomed(token)'
                 PROVE  slots'[token.key].id = token.id /\ slots'[token.key].phase = "closing"
      OBVIOUS
    <3>1. CASE closing'.pc = "send" /\ token = closing.tok
      BY <1>5, <3>1, TellEffect DEF BuildInv
    <3>2. CASE Doomed(token)
      BY <1>5, <3>2, TellEffect, Shapes DEF BuildInv, RetireInv
    <3> QED BY <1>5, <3>1, <3>2, DoomedTell
  <2>3. closing'.pc = "send" => ~Doomed(closing.tok)
    BY <1>5, TellEffect DEF BuildInv, RetireInv
  <2>4. closing'.pc = "send" => closing.tok # wtok /\ ~Queued(closing.tok)
    <3>1. wpc = "idle" => closing.tok # wtok
      BY <1>5, TellEffect, Shapes DEF BuildInv, RetireInv
    <3>2. wpc \in {"idle", "free", "finish"}
      BY DEF BuildInv, BuildTypeOK, RetirementTypeOK
    <3> QED BY <2>3, <3>1, <3>2 DEF Doomed, Retiring, Queued
  <2>5. closing'.tok = closing.tok /\ closing.tok \in Token
    BY <1>5, TellEffect DEF BuildInv
  <2> QED BY <2>1, <2>2, <2>4, <2>5 DEF BuildInv, RetireInv, Queued
<1>6. ASSUME CloseSend PROVE RetireInv'
  <2>1. /\ UNCHANGED <<slots, wpc, wtok>> /\ closing'.pc = "end"
        /\ queue' = Append(queue, closing.tok)
        /\ \A token : Doomed(token)' <=> Doomed(token)
    BY <1>6, DoomedSend
  <2>2. /\ queue \in Seq(Token) /\ closing.tok \in Token /\ ~Queued(closing.tok)
        /\ closing.tok # wtok
    BY <1>6 DEF CloseSend, BuildInv, BuildTypeOK, RetirementTypeOK, RetireInv
  <2>3. \A i \in 1..Len(queue') :
            \/ i \in 1..Len(queue) /\ queue'[i] = queue[i]
            \/ i = Len(queue) + 1 /\ queue'[i] = closing.tok
    BY <2>1, <2>2
  <2>4. \A i, j \in 1..Len(queue') : queue'[i] = queue'[j] => i = j
    BY <2>2, <2>3 DEF BuildInv, RetireInv, Queued
  <2>5. wpc # "idle" => ~Queued(wtok)'
    BY <2>1, <2>2, <2>3 DEF BuildInv, RetireInv, Queued
  <2> QED BY <2>1, <2>4, <2>5 DEF BuildInv, RetireInv
<1>7. ASSUME WorkerReceive PROVE RetireInv'
  <2>1. UNCHANGED <<slots, closing>> /\ wpc = "idle" /\ wpc' = "free"
    BY <1>7 DEF WorkerReceive, owner
  <2>2. /\ wtok' \in Token /\ Doomed(wtok') /\ ~Queued(wtok)'
        /\ \A i \in 1..Len(queue') : i + 1 \in 1..Len(queue) /\ queue'[i] = queue[i + 1]
        /\ \A token : Doomed(token)' <=> Doomed(token)
    BY <1>7, DoomedReceive
  <2>3. \A i, j \in 1..Len(queue') : queue'[i] = queue'[j] => i = j
    <3> SUFFICES ASSUME NEW i \in 1..Len(queue'), NEW j \in 1..Len(queue'), queue'[i] = queue'[j]
                 PROVE  i = j
      OBVIOUS
    <3>1. i + 1 = j + 1
      BY <2>2 DEF BuildInv, RetireInv
    <3> QED BY <3>1
  <2>4. closing.pc = "send" => closing.tok # wtok' /\ ~Queued(closing.tok)'
    <3>1. wtok' = queue[1] /\ 1 \in 1..Len(queue)
      BY <1>7 DEF WorkerReceive, BuildInv, BuildTypeOK, RetirementTypeOK
    <3>2. closing.pc = "send" => closing.tok # wtok'
      BY <3>1 DEF BuildInv, RetireInv, Queued
    <3>3. closing.pc = "send" => \A i \in 1..Len(queue') : queue'[i] # closing.tok
      BY <2>2 DEF BuildInv, RetireInv, Queued
    <3> QED BY <2>1, <3>2, <3>3 DEF Queued
  <2> QED BY <2>1, <2>2, <2>3, <2>4 DEF BuildInv, RetireInv
<1>8. ASSUME WorkerFree PROVE RetireInv'
  <2>1. UNCHANGED <<slots, closing, queue, wtok>> /\ wpc = "free" /\ wpc' = "finish"
    BY <1>8 DEF WorkerFree, owner
  <2>2. \A token : Doomed(token)' => Doomed(token)
    BY <2>1 DEF Doomed, Retiring
  <2> QED BY <2>1, <2>2 DEF BuildInv, RetireInv, Queued
<1>9. ASSUME WorkerFinish PROVE RetireInv'
  <2>1. UNCHANGED <<closing, queue>> /\ Finish(wtok) /\ wpc = "finish" /\ wpc' = "idle" /\ wtok' = NoToken
    BY <1>9 DEF WorkerFinish, WorkerRemove
  <2>2. wtok \in Token /\ Doomed(wtok) /\ slots[wtok.key].id = wtok.id
    BY <2>1 DEF BuildInv, RetireInv, Doomed
  <2>3. \A token : Doomed(token)' => Doomed(token) /\ token # wtok
    BY <2>1 DEF Doomed, Retiring, BuildInv, RetireInv, Queued
  <2>4. \A token \in Token : Doomed(token)' => token.key \in Key \ {wtok.key}
    BY <2>2, <2>3, OwnSlot, Shapes
  <2>5. \A j \in Key \ {wtok.key} : slots'[j] = slots[j]
    BY <2>1, <2>2, FinishEffect DEF BuildInv
  <2>6. closing.pc = "send" => closing.tok # NoToken
    BY Shapes DEF BuildInv, RetireInv
  <2> QED BY <2>1, <2>3, <2>4, <2>5, <2>6 DEF BuildInv, RetireInv, Queued
<1>10. ASSUME UNCHANGED <<slots, closing, queue, wpc, wtok>> PROVE RetireInv'
  BY <1>10 DEF BuildInv, RetireInv, Doomed, Retiring, Queued
<1>11. ASSUME
         \/ \E t \in Thread, p \in Port : Enter(t, p)
         \/ \E t \in Thread : \/ Abandon(t) \/ ReadToken(t) \/ PutCheck(t) \/ PutRefuse(t)
                              \/ PutCommit(t) \/ SealPublish(t)
         \/ \E k \in Key : Drop(k)
         \/ \E l \in Lease : Unhold(l)
         \/ \E l \in Lease, k \in Key : Hold(l, k)
     PROVE  UNCHANGED <<slots, closing, queue, wpc, wtok>>
  BY <1>11 DEF Enter, Abandon, ReadToken, PutCheck, PutRefuse, PutCommit, SealPublish, Drop,
     Unhold, Hold, owner, retirement
<1>12. CASE UNCHANGED vars
  BY <1>10, <1>12 DEF vars, owner, retirement
<1> QED BY <1>1, <1>2, <1>3, <1>4, <1>5, <1>6, <1>7, <1>8, <1>9, <1>11, <1>10, <1>12 DEF Next,
   NativeStep, CloseStep, WorkerStep, Quiet

\* The table never holds more slots than its limit.
LEMMA RoomStep ==
    ASSUME BuildInv, [Next]_vars
    PROVE  RoomInv'
<1>1. ASSUME NEW p \in Port, NEW k \in Key, Begin(p, k) PROVE RoomInv'
  <2>1. Taken' = Taken \cup {k} /\ k \notin Taken /\ ready' /\ Cardinality(Taken) < BuilderLimit
    <3>1. slots[k] = NoSlot /\ slots'[k] # NoSlot /\ \A j \in Key \ {k} : slots'[j] = slots[j]
      BY <1>1, BeginEffect DEF BuildInv, NoSlot
    <3> QED BY <1>1, <3>1 DEF Begin, Taken
  <2>2. IsFiniteSet(Taken)
    BY NamesAssumption, FS_Subset DEF Taken
  <2>3. Cardinality(Taken \cup {k}) = Cardinality(Taken) + 1 /\ Cardinality(Taken) \in Nat
    BY <2>1, <2>2, FS_AddElement, FS_CardinalityType
  <2> QED BY <2>1, <2>3, LimitsAssumption DEF RoomInv
<1>2. ASSUME NEW t \in Thread, SealTake(t) PROVE RoomInv'
  <2>1. UNCHANGED ready
    BY <1>2 DEF SealTake, retirement
  <2>2. Taken' \subseteq Taken
    BY <1>2, SealTakeEffect DEF BuildInv, Taken, NoSlot
  <2> QED BY <2>1, <2>2, FreedRoom DEF BuildInv
<1>3. ASSUME NEW t \in Thread, SealDrop(t) PROVE RoomInv'
  <2>1. UNCHANGED ready /\ Finish(tok[t]) /\ tok[t] \in Token
    BY <1>3 DEF SealDrop, retirement, BuildInv, ThreadInv
  <2>2. Taken' \subseteq Taken
    BY <2>1, FinishEffect DEF BuildInv, Taken
  <2> QED BY <2>1, <2>2, FreedRoom DEF BuildInv
<1>4. ASSUME CloseTell PROVE RoomInv'
  <2>1. UNCHANGED ready
    BY <1>4 DEF CloseTell, retirement
  <2>2. closing.tok.id # 0
    BY <1>4, TellEffect, Shapes DEF BuildInv
  <2>3. Taken' \subseteq Taken
    BY <1>4, <2>2, TellEffect DEF BuildInv, Taken, NoSlot
  <2> QED BY <2>1, <2>3, FreedRoom DEF BuildInv
<1>5. ASSUME WorkerFinish PROVE RoomInv'
  <2>1. UNCHANGED ready /\ Finish(wtok) /\ wtok \in Token
    BY <1>5 DEF WorkerFinish, WorkerRemove, BuildInv, RetireInv
  <2>2. Taken' \subseteq Taken
    BY <2>1, FinishEffect DEF BuildInv, Taken
  <2> QED BY <2>1, <2>2, FreedRoom DEF BuildInv
<1>6. ASSUME UNCHANGED <<slots, ready>> PROVE RoomInv'
  BY <1>6 DEF BuildInv, RoomInv, Taken
<1>7. ASSUME
         \/ \E p \in Port : Close(p) \/ Collect(p)
         \/ \E t \in Thread, p \in Port : Enter(t, p)
         \/ \E t \in Thread : \/ Abandon(t) \/ Leave(t) \/ ReadToken(t) \/ PutCheck(t)
                              \/ PutRefuse(t) \/ PutCommit(t) \/ SealPublish(t)
         \/ CloseTake \/ CloseSend \/ CloseEnd \/ WorkerReceive \/ WorkerFree
         \/ \E k \in Key : Drop(k)
         \/ \E l \in Lease : Unhold(l)
         \/ \E l \in Lease, k \in Key : Hold(l, k)
     PROVE  UNCHANGED <<slots, ready>>
  BY <1>7 DEF Close, Collect, Owes, Enter, Abandon, Leave, ReadToken, PutCheck, PutRefuse, PutCommit,
     SealPublish, CloseTake, CloseSend, CloseEnd, WorkerReceive, WorkerFree, Drop, Unhold, Hold,
     owner, retirement
<1>8. CASE UNCHANGED vars
  BY <1>6, <1>8 DEF vars, owner, retirement
<1> QED BY <1>1, <1>2, <1>3, <1>4, <1>5, <1>7, <1>6, <1>8 DEF Next, NativeStep, CloseStep,
   WorkerStep

\* A build that accepts puts shares its generation with no image.
LEMMA OwnerStep ==
    ASSUME BuildInv, [Next]_vars
    PROVE  OwnerInv'
<1>1. ASSUME NEW p \in Port, NEW k \in Key, Begin(p, k) PROVE OwnerInv'
  <2>1. UNCHANGED <<cache, work>>
    BY <1>1 DEF Begin, threads
  <2> QED BY <1>1, <2>1, BeginEffect, IdTypes DEF BuildInv, FreshInv, OwnerInv
<1>2. ASSUME NEW t \in Thread, SealTake(t) PROVE OwnerInv'
  <2>1. UNCHANGED cache
    BY <1>2 DEF SealTake
  <2>2. CASE UNCHANGED <<slots, data, work>>
    BY <2>1, <2>2 DEF BuildInv, OwnerInv
  <2>3. CASE ~UNCHANGED <<slots, data, work>>
    <3>1. data[tok[t].key].id = tok[t].id
      BY <1>2, <2>3, SealTakeEffect, WritingData DEF BuildInv
    <3>2. \A j \in Key : slots'[j].phase = "writing" => j # tok[t].key /\ slots'[j] = slots[j]
      BY <1>2, <2>3, SealTakeEffect DEF BuildInv
    <3>3. \A j \in Key : slots'[j].phase = "writing" => slots[j].id # tok[t].id
      BY <1>2, <2>3, <3>2, SealTakeEffect, Shapes DEF BuildInv, FreshInv
    <3> QED BY <1>2, <2>1, <2>3, <3>1, <3>2, <3>3, SealTakeEffect DEF BuildInv, OwnerInv
  <2> QED BY <2>2, <2>3
<1>3. ASSUME NEW t \in Thread, SealPublish(t) PROVE OwnerInv'
  <2>1. UNCHANGED <<slots, work>>
    BY <1>3 DEF SealPublish, owner
  <2>2. \A j \in Key : cache'[j].id \in {cache[j].id, 0, work[t].id}
    BY <1>3, PublishEffect DEF BuildInv, NoData
  <2> QED BY <2>1, <2>2 DEF BuildInv, OwnerInv, FreshInv
<1>4. ASSUME NEW t \in Thread, SealDrop(t) PROVE OwnerInv'
  <2>1. UNCHANGED cache /\ work' = [work EXCEPT ![t] = NoData]
    BY <1>4 DEF SealDrop
  <2>2. \A u \in Thread : work'[u].id \in {work[u].id, 0}
    BY <2>1 DEF NoData, BuildInv, BuildTypeOK, ThreadsTypeOK
  <2>3. tok[t] \in Token /\ Finish(tok[t])
    BY <1>4 DEF SealDrop, BuildInv, ThreadInv
  <2>4. \A j \in Key : slots'[j] = slots[j] \/ slots'[j].phase = "none"
    BY <2>3, FinishEffect DEF BuildInv, NoSlot
  <2> QED BY <2>1, <2>2, <2>4 DEF BuildInv, OwnerInv, FreshInv
<1>5. ASSUME CloseTell PROVE OwnerInv'
  <2>1. UNCHANGED <<cache, work>>
    BY <1>5 DEF CloseTell, threads
  <2>2. \A j \in Key : slots'[j] = slots[j] \/ slots'[j].phase = "closing"
    BY <1>5, TellEffect DEF BuildInv
  <2> QED BY <2>1, <2>2 DEF BuildInv, OwnerInv
<1>6. ASSUME WorkerFinish PROVE OwnerInv'
  <2>1. UNCHANGED <<cache, work>>
    BY <1>6 DEF WorkerFinish, threads
  <2>2. wtok \in Token /\ Finish(wtok)
    BY <1>6 DEF WorkerFinish, WorkerRemove, BuildInv, RetireInv
  <2>3. \A j \in Key : slots'[j] = slots[j] \/ slots'[j].phase = "none"
    BY <2>2, FinishEffect DEF BuildInv, NoSlot
  <2> QED BY <2>1, <2>3 DEF BuildInv, OwnerInv
<1>7. ASSUME NEW k \in Key, Drop(k) PROVE OwnerInv'
  <2>1. UNCHANGED <<slots, work>> /\ cache' = [cache EXCEPT ![k] = NoData]
    BY <1>7 DEF Drop, owner, threads
  <2>2. \A j \in Key : cache'[j].id \in {cache[j].id, 0}
    BY <2>1 DEF NoData, BuildInv, BuildTypeOK, CacheTypeOK
  <2> QED BY <2>1, <2>2 DEF BuildInv, OwnerInv, FreshInv
<1>8. ASSUME UNCHANGED <<slots, cache, work>> PROVE OwnerInv'
  BY <1>8 DEF BuildInv, BuildTypeOK, TableTypeOK, OwnerInv, FreshInv, NoData
<1>9. ASSUME
         \/ \E p \in Port : Close(p) \/ Collect(p)
         \/ \E t \in Thread, p \in Port : Enter(t, p)
         \/ \E t \in Thread : \/ Abandon(t) \/ Leave(t) \/ ReadToken(t) \/ PutCheck(t)
                              \/ PutRefuse(t) \/ PutCommit(t)
         \/ CloseTake \/ CloseSend \/ CloseEnd \/ WorkerReceive \/ WorkerFree
         \/ \E l \in Lease : Unhold(l)
         \/ \E l \in Lease, k \in Key : Hold(l, k)
     PROVE  UNCHANGED <<slots, cache, work>>
  BY <1>9 DEF Close, Collect, Owes, Enter, Abandon, Leave, ReadToken, PutCheck, PutRefuse, PutCommit,
     CloseTake, CloseSend, CloseEnd, WorkerReceive, WorkerFree, Unhold, Hold, owner, threads
<1>10. CASE UNCHANGED vars
  BY <1>8, <1>10 DEF vars, owner, threads
<1> QED BY <1>1, <1>2, <1>3, <1>4, <1>5, <1>6, <1>7, <1>9, <1>8, <1>10 DEF Next, NativeStep,
   CloseStep, WorkerStep

\* Every step keeps the data with its slot.
LEMMA DataStep ==
    ASSUME BuildInv, [Next]_vars
    PROVE  DataFollowsSlot'
<1>1. ASSUME Quiet PROVE DataFollowsSlot'
  BY <1>1, QuietSteps, DoomedSame DEF BuildInv, DataFollowsSlot
<1>2. ASSUME NEW p \in Port, NEW k \in Key, Begin(p, k) PROVE DataFollowsSlot'
  <2>1. \A token : Retiring(token)' <=> Retiring(token)
    BY <1>2 DEF Begin, Retiring
  <2> QED BY <1>2, <2>1, BeginEffect DEF BuildInv, DataFollowsSlot
<1>3. ASSUME NEW t \in Thread, PutCommit(t) PROVE DataFollowsSlot'
  <2>1. UNCHANGED slots /\ \A token : Retiring(token)' <=> Retiring(token)
    BY <1>3 DEF PutCommit, owner, retirement, Retiring
  <2>2. \A k \in Key : data'[k].id = data[k].id
    BY <1>3, CommitEffect
  <2> QED BY <2>1, <2>2 DEF BuildInv, DataFollowsSlot
<1>4. ASSUME NEW t \in Thread, SealTake(t) PROVE DataFollowsSlot'
  <2>1. \A token : Retiring(token)' <=> Retiring(token)
    BY <1>4 DEF SealTake, retirement, Retiring
  <2>2. CASE UNCHANGED <<slots, data, work>>
    BY <2>1, <2>2 DEF BuildInv, DataFollowsSlot
  <2>3. CASE ~UNCHANGED <<slots, data, work>>
    BY <1>4, <2>1, <2>3, SealTakeEffect DEF BuildInv, DataFollowsSlot, NoData
  <2> QED BY <2>2, <2>3
<1>5. ASSUME NEW t \in Thread, SealDrop(t) PROVE DataFollowsSlot'
  <2>1. UNCHANGED data /\ Finish(tok[t]) /\ Sealed(t) /\ tok[t] \in Token /\ tok[t].key \in Key
    BY <1>5, Shapes DEF SealDrop, Sealed, BuildInv, ThreadInv
  <2>2. \A token : Retiring(token)' <=> Retiring(token)
    BY <1>5 DEF SealDrop, retirement, Retiring
  <2>3. /\ slots[tok[t].key].id = tok[t].id /\ slots[tok[t].key].phase # "writing"
        /\ ~Retiring(tok[t])
    BY <2>1 DEF BuildInv, SealInv, Doomed
  <2>4. tok[t] = [key |-> tok[t].key, id |-> slots[tok[t].key].id]
    BY <2>1, <2>3 DEF Token
  <2>5. data[tok[t].key].id = 0
    BY <2>1, <2>3, <2>4 DEF BuildInv, DataFollowsSlot
  <2>6. slots'[tok[t].key] = NoSlot /\ \A j \in Key \ {tok[t].key} : slots'[j] = slots[j]
    BY <2>1, <2>3, FinishEffect DEF BuildInv
  <2> QED BY <2>1, <2>2, <2>5, <2>6 DEF BuildInv, DataFollowsSlot, NoSlot
<1>6. ASSUME CloseTell PROVE DataFollowsSlot'
  <2> DEFINE k == closing.tok.key
  <2>1. UNCHANGED data
    BY <1>6 DEF CloseTell
  <2>2. \A token : Retiring(token)' <=> Retiring(token) \/ (closing'.pc = "send" /\ token = closing.tok)
    BY <1>6, DoomedTell
  <2>3. /\ closing.tok \in Token /\ k \in Key
        /\ slots'[k].id = slots[k].id
        /\ \A j \in Key \ {k} : slots'[j] = slots[j]
        /\ IF slots[k].id = closing.tok.id THEN slots'[k].phase = "closing" ELSE slots'[k] = slots[k]
        /\ closing'.pc = "send" <=> slots[k].id = closing.tok.id /\ slots[k].phase = "writing"
    BY <1>6, TellEffect DEF BuildInv
  <2> HIDE DEF k
  <2>4. \A i \in Nat : closing.tok = [key |-> k, id |-> i] <=> i = closing.tok.id
    BY <2>3 DEF Token, k
  <2>5. slots[k].id \in Nat
    BY <2>3, IdTypes DEF BuildInv
  <2>6. slots[k].phase \in {"none", "writing", "sealing", "closing"}
    BY <2>3, Shapes DEF BuildInv, BuildTypeOK, TableTypeOK, Phase
  <2>7. Retiring(closing.tok) => slots[k].phase = "closing"
    BY <2>3 DEF BuildInv, RetireInv, Doomed, k
  <2>8. \A j \in Key \ {k} : closing.tok # [key |-> j, id |-> slots[j].id]
    BY DEF k
  <2> QED BY <2>1, <2>2, <2>3, <2>4, <2>5, <2>6, <2>7, <2>8 DEF BuildInv, DataFollowsSlot
<1>7. ASSUME CloseSend PROVE DataFollowsSlot'
  <2>1. UNCHANGED <<slots, data>> /\ \A token : Retiring(token)' <=> Retiring(token)
    BY <1>7, DoomedSend DEF CloseSend
  <2> QED BY <2>1 DEF BuildInv, DataFollowsSlot
<1>8. ASSUME WorkerReceive PROVE DataFollowsSlot'
  <2>1. UNCHANGED <<slots, data>> /\ \A token : Retiring(token)' <=> Retiring(token)
    BY <1>8, DoomedReceive DEF WorkerReceive, owner
  <2> QED BY <2>1 DEF BuildInv, DataFollowsSlot
<1>9. ASSUME WorkerFree PROVE DataFollowsSlot'
  <2>1. UNCHANGED <<slots, closing, queue, wtok>> /\ wpc = "free" /\ wpc' = "finish"
    BY <1>9 DEF WorkerFree, owner
  <2>2. \A token : Retiring(token)' <=> Retiring(token) /\ token # wtok
    BY <2>1 DEF Retiring, BuildInv, RetireInv, Queued
  <2>3. /\ wtok \in Token /\ wtok.key \in Key
        /\ slots[wtok.key].id = wtok.id /\ slots[wtok.key].phase = "closing"
    BY <2>1, Shapes DEF BuildInv, RetireInv, Doomed, Retiring
  <2>4. slots[wtok.key] = Slot(wtok.id, "closing") /\ wtok = [key |-> wtok.key, id |-> slots[wtok.key].id]
    BY <2>3 DEF Slot, Slots, Token, BuildInv, BuildTypeOK, TableTypeOK
  <2>5. data'[wtok.key] = NoData /\ \A j \in Key \ {wtok.key} : data'[j] = data[j]
    BY <1>9, <2>3, <2>4 DEF WorkerFree, BuildInv, BuildTypeOK, TableTypeOK
  <2>6. \A j \in Key \ {wtok.key} : wtok # [key |-> j, id |-> slots[j].id]
    BY <2>4
  <2> QED BY <2>1, <2>2, <2>3, <2>4, <2>5, <2>6 DEF BuildInv, DataFollowsSlot, NoData
<1>10. ASSUME WorkerFinish PROVE DataFollowsSlot'
  <2>1. UNCHANGED <<data, closing, queue>> /\ Finish(wtok) /\ wpc = "finish" /\ wpc' = "idle" /\ wtok' = NoToken
    BY <1>10 DEF WorkerFinish, WorkerRemove
  <2>2. /\ wtok \in Token /\ wtok.key \in Key
        /\ slots[wtok.key].id = wtok.id /\ slots[wtok.key].phase = "closing" /\ ~Retiring(wtok)
    BY <2>1, Shapes DEF BuildInv, RetireInv, Doomed, Retiring, Queued
  <2>3. \A token : Retiring(token)' <=> Retiring(token)
    BY <2>1 DEF Retiring
  <2>4. wtok = [key |-> wtok.key, id |-> slots[wtok.key].id]
    BY <2>2 DEF Token
  <2>5. data[wtok.key].id = 0
    BY <2>2, <2>4 DEF BuildInv, DataFollowsSlot
  <2>6. slots'[wtok.key] = NoSlot /\ \A j \in Key \ {wtok.key} : slots'[j] = slots[j]
    BY <2>1, <2>2, FinishEffect DEF BuildInv
  <2> QED BY <2>1, <2>3, <2>5, <2>6 DEF BuildInv, DataFollowsSlot, NoSlot
<1>11. ASSUME UNCHANGED <<slots, data, closing, queue, wpc, wtok>> PROVE DataFollowsSlot'
  BY <1>11 DEF BuildInv, DataFollowsSlot, Retiring
<1>12. ASSUME
         \/ \E t \in Thread, p \in Port : Enter(t, p)
         \/ \E t \in Thread : Abandon(t) \/ ReadToken(t) \/ PutCheck(t) \/ PutRefuse(t) \/ SealPublish(t)
         \/ \E k \in Key : Drop(k)
         \/ \E l \in Lease : Unhold(l)
         \/ \E l \in Lease, k \in Key : Hold(l, k)
     PROVE  UNCHANGED <<slots, data, closing, queue, wpc, wtok>>
  BY <1>12 DEF Enter, Abandon, ReadToken, PutCheck, PutRefuse, SealPublish, Drop, Unhold, Hold,
     owner, retirement
<1>13. CASE UNCHANGED vars
  BY <1>11, <1>13 DEF vars, owner, retirement
<1> QED BY <1>1, <1>2, <1>3, <1>4, <1>5, <1>6, <1>7, <1>8, <1>9, <1>10, <1>12, <1>11, <1>13 DEF
   Next, NativeStep, CloseStep, WorkerStep, Quiet

\* Every step keeps what is stored equal to what was acknowledged.
LEMMA StoredStep ==
    ASSUME BuildInv, [Next]_vars
    PROVE  StoredIsAcknowledged'
<1>1. ASSUME NEW p \in Port, NEW k \in Key, Begin(p, k) PROVE StoredIsAcknowledged'
  <2>1. UNCHANGED <<cache, work, acked>>
    BY <1>1 DEF Begin, threads
  <2>2. acked[next'] = NoItems
    BY <1>1, BeginEffect, IdTypes DEF BuildInv, FreshInv
  <2> QED BY <1>1, <2>1, <2>2, BeginEffect DEF BuildInv, StoredIsAcknowledged
<1>2. ASSUME NEW t \in Thread, PutCommit(t) PROVE StoredIsAcknowledged'
  <2>1. UNCHANGED <<slots, cache, work>>
    BY <1>2 DEF PutCommit, owner
  <2>2. CASE UNCHANGED <<data, acked>>
    BY <2>1, <2>2 DEF BuildInv, StoredIsAcknowledged
  <2>3. CASE ~UNCHANGED <<data, acked>>
    <3> DEFINE k == tok[t].key
               g == tok[t].id
    <3>1. /\ k \in Key /\ g \in Gen \ {0} /\ slots[k].id = g /\ slots[k].phase = "writing"
          /\ data'[k].id = g /\ data'[k].items = acked'[g]
          /\ \A j \in Key \ {k} : data'[j] = data[j]
          /\ \A h \in Gen \ {g} : acked'[h] = acked[h]
      BY <1>2, <2>3, CommitEffect DEF BuildInv, StoredIsAcknowledged
    <3> HIDE DEF k, g
    <3>2. \A j \in Key \ {k} : data[j].id # g
      <4>1. \A j \in Key : data[j].id \in {slots[j].id, 0}
        BY DEF BuildInv, DataFollowsSlot
      <4> QED BY <3>1, <4>1 DEF BuildInv, FreshInv
    <3>3. /\ \A j \in Key : cache[j].id \in Gen \ {g}
          /\ \A j \in Key : data[j].id \in Gen
          /\ \A u \in Thread : work[u].id \in Gen \ {g}
      BY <3>1, Shapes DEF BuildInv, OwnerInv, BuildTypeOK, TableTypeOK, CacheTypeOK, ThreadsTypeOK
    <3> QED BY <2>1, <3>1, <3>2, <3>3 DEF BuildInv, StoredIsAcknowledged
  <2> QED BY <2>2, <2>3
<1>3. ASSUME NEW t \in Thread, SealTake(t) PROVE StoredIsAcknowledged'
  <2>1. UNCHANGED <<cache, acked>>
    BY <1>3 DEF SealTake
  <2>2. CASE UNCHANGED <<slots, data, work>>
    BY <2>1, <2>2 DEF BuildInv, StoredIsAcknowledged
  <2>3. CASE ~UNCHANGED <<slots, data, work>>
    <3>1. NoData.items = acked[NoData.id]
      BY Shapes DEF NoData, BuildInv, FreshInv
    <3> QED BY <1>3, <2>1, <2>3, <3>1, SealTakeEffect DEF BuildInv, StoredIsAcknowledged
  <2> QED BY <2>2, <2>3
<1>4. ASSUME NEW t \in Thread, SealPublish(t) PROVE StoredIsAcknowledged'
  <2>1. UNCHANGED <<data, work, acked>>
    BY <1>4 DEF SealPublish
  <2>2. NoData.items = acked[NoData.id]
    BY Shapes DEF NoData, BuildInv, FreshInv
  <2> QED BY <1>4, <2>1, <2>2, PublishEffect DEF BuildInv, StoredIsAcknowledged
<1>5. ASSUME NEW t \in Thread, SealDrop(t) PROVE StoredIsAcknowledged'
  BY <1>5, Shapes DEF SealDrop, Returns, Finish, BuildInv, BuildTypeOK, TableTypeOK, FreshInv,
     StoredIsAcknowledged, NoData, threads
<1>6. ASSUME WorkerFree PROVE StoredIsAcknowledged'
  BY <1>6, Shapes DEF WorkerFree, BuildInv, BuildTypeOK, TableTypeOK, FreshInv,
     StoredIsAcknowledged, NoData, threads
<1>7. ASSUME NEW k \in Key, Drop(k) PROVE StoredIsAcknowledged'
  BY <1>7, Shapes DEF Drop, BuildInv, BuildTypeOK, TableTypeOK, FreshInv, StoredIsAcknowledged,
     NoData, threads
<1>8. ASSUME UNCHANGED <<data, cache, work, acked>> PROVE StoredIsAcknowledged'
  BY <1>8 DEF BuildInv, BuildTypeOK, TableTypeOK, FreshInv, StoredIsAcknowledged, NoData
<1>9. ASSUME
         \/ \E p \in Port : Close(p) \/ Collect(p)
         \/ \E t \in Thread, p \in Port : Enter(t, p)
         \/ \E t \in Thread : Abandon(t) \/ Leave(t) \/ ReadToken(t) \/ PutCheck(t) \/ PutRefuse(t)
         \/ CloseTake \/ CloseTell \/ CloseSend \/ CloseEnd \/ WorkerReceive \/ WorkerFinish
         \/ \E l \in Lease : Unhold(l)
         \/ \E l \in Lease, k \in Key : Hold(l, k)
     PROVE  UNCHANGED <<data, cache, work, acked>>
  BY <1>9 DEF Close, Collect, Owes, Enter, Abandon, Leave, ReadToken, PutCheck, PutRefuse, CloseTake,
     CloseTell, CloseSend, CloseEnd, WorkerReceive, WorkerFinish, Unhold, Hold, threads
<1>10. CASE UNCHANGED vars
  BY <1>8, <1>10 DEF vars, threads
<1> QED BY <1>1, <1>2, <1>3, <1>4, <1>5, <1>6, <1>7, <1>9, <1>8, <1>10 DEF Next, NativeStep,
   CloseStep, WorkerStep

\* A build whose close has returned is closed for good.
LEMMA ReturnedStep ==
    ASSUME BuildInv, [Next]_vars
    PROVE  ReturnedInv'
<1>1. ASSUME NEW p \in Port, NEW k \in Key, Begin(p, k) PROVE ReturnedInv'
  <2>1. UNCHANGED <<returned, closing>>
    BY <1>1 DEF Begin
  <2>2. \A token \in returned : token.id # next'
    BY <1>1, BeginEffect, IdTypes DEF BuildInv, FreshInv
  <2>3. closing.tok.id # next'
    BY <1>1, BeginEffect, IdTypes DEF BuildInv, FreshInv
  <2>4. [key |-> k, id |-> slots'[k].id] \notin returned
    BY <1>1, <2>2, BeginEffect DEF BuildInv
  <2> QED BY <1>1, <2>1, <2>3, <2>4, BeginEffect, Shapes
    DEF BuildInv, ReturnedInv, BuildTypeOK, RetirementTypeOK, Closings
<1>2. ASSUME NEW p \in Port, Close(p) PROVE ReturnedInv'
  BY <1>2, Shapes DEF Close, BuildInv, BuildTypeOK, TableTypeOK, RetirementTypeOK, FreshInv,
     ReturnedInv, NoClose, owner
<1>3. ASSUME NEW p \in Port, Collect(p) PROVE ReturnedInv'
  BY <1>3, Shapes DEF Collect, Owes, Release, NoClose, BuildInv, BuildTypeOK, TableTypeOK,
     RetirementTypeOK, FreshInv, ReturnedInv, owner
<1>4. ASSUME NEW t \in Thread, Leave(t) PROVE ReturnedInv'
  BY <1>4, Shapes DEF Leave, LeaveReleasing, Release, NoClose, BuildInv, BuildTypeOK, TableTypeOK,
     RetirementTypeOK, FreshInv, ReturnedInv, owner
<1>5. ASSUME NEW t \in Thread, SealTake(t) PROVE ReturnedInv'
  <2>1. UNCHANGED <<returned, closing>>
    BY <1>5 DEF SealTake
  <2>2. CASE UNCHANGED <<slots, data, work>>
    BY <2>1, <2>2 DEF BuildInv, ReturnedInv
  <2>3. CASE ~UNCHANGED <<slots, data, work>>
    BY <1>5, <2>1, <2>3, SealTakeEffect, Shapes
       DEF BuildInv, ReturnedInv, BuildTypeOK, RetirementTypeOK, Closings
  <2> QED BY <2>2, <2>3
<1>6. ASSUME NEW t \in Thread, SealDrop(t) PROVE ReturnedInv'
  <2>1. UNCHANGED <<returned, closing>>
    BY <1>6 DEF SealDrop
  <2>2. tok[t] \in Token /\ Finish(tok[t])
    BY <1>6 DEF SealDrop, WorkerRemove, BuildInv, ThreadInv, RetireInv
  <2>3. \A j \in Key : slots'[j] = slots[j] \/ slots'[j].id = 0
    BY <2>2, FinishEffect DEF BuildInv, NoSlot
  <2>4. \A token \in returned : token.id # 0
    BY Shapes DEF BuildInv, BuildTypeOK, CacheTypeOK
  <2>5. \A j \in Key : [key |-> j, id |-> 0] \notin returned
    BY <2>4
  <2>6. closing.tok # NoToken => closing.tok.id # 0 /\ closing.tok.key \in Key
    BY Shapes DEF BuildInv, BuildTypeOK, RetirementTypeOK, Closings
  <2> QED BY <2>1, <2>3, <2>5, <2>6 DEF BuildInv, ReturnedInv
<1>7. ASSUME CloseTake PROVE ReturnedInv'
  BY <1>7, Shapes DEF CloseTake, BuildInv, BuildTypeOK, TableTypeOK, RetirementTypeOK, FreshInv,
     ReturnedInv, NoClose, owner
<1>8. ASSUME CloseTell PROVE ReturnedInv'
  <2>1. UNCHANGED returned
    BY <1>8 DEF CloseTell
  <2> QED BY <1>8, <2>1, TellEffect DEF BuildInv, ReturnedInv
<1>9. ASSUME CloseSend PROVE ReturnedInv'
  BY <1>9, Shapes DEF CloseSend, BuildInv, BuildTypeOK, TableTypeOK, RetirementTypeOK, FreshInv,
     ReturnedInv, NoClose, owner
<1>10. ASSUME CloseEnd PROVE ReturnedInv'
  BY <1>10, Shapes DEF CloseEnd, Release, NoClose, BuildInv, BuildTypeOK, TableTypeOK,
     RetirementTypeOK, FreshInv, ReturnedInv, owner
<1>11. ASSUME WorkerFinish PROVE ReturnedInv'
  <2>1. UNCHANGED <<returned, closing>>
    BY <1>11 DEF WorkerFinish
  <2>2. wtok \in Token /\ Finish(wtok)
    BY <1>11 DEF WorkerFinish, WorkerRemove, BuildInv, ThreadInv, RetireInv
  <2>3. \A j \in Key : slots'[j] = slots[j] \/ slots'[j].id = 0
    BY <2>2, FinishEffect DEF BuildInv, NoSlot
  <2>4. \A token \in returned : token.id # 0
    BY Shapes DEF BuildInv, BuildTypeOK, CacheTypeOK
  <2>5. \A j \in Key : [key |-> j, id |-> 0] \notin returned
    BY <2>4
  <2>6. closing.tok # NoToken => closing.tok.id # 0 /\ closing.tok.key \in Key
    BY Shapes DEF BuildInv, BuildTypeOK, RetirementTypeOK, Closings
  <2> QED BY <2>1, <2>3, <2>5, <2>6 DEF BuildInv, ReturnedInv
<1>12. ASSUME UNCHANGED <<slots, returned, closing>> PROVE ReturnedInv'
  BY <1>12 DEF BuildInv, BuildTypeOK, TableTypeOK, RetirementTypeOK, FreshInv, ReturnedInv,
     NoClose
<1>13. ASSUME
         \/ \E t \in Thread, p \in Port : Enter(t, p)
         \/ \E t \in Thread : \/ Abandon(t) \/ ReadToken(t) \/ PutCheck(t) \/ PutRefuse(t)
                              \/ PutCommit(t) \/ SealPublish(t)
         \/ WorkerReceive \/ WorkerFree
         \/ \E k \in Key : Drop(k)
         \/ \E l \in Lease : Unhold(l)
         \/ \E l \in Lease, k \in Key : Hold(l, k)
     PROVE  UNCHANGED <<slots, returned, closing>>
  BY <1>13 DEF Enter, Abandon, ReadToken, PutCheck, PutRefuse, PutCommit, SealPublish,
     WorkerReceive, WorkerFree, Drop, Unhold, Hold, owner
<1>14. CASE UNCHANGED vars
  BY <1>12, <1>14 DEF vars, owner
<1> QED BY <1>1, <1>2, <1>3, <1>4, <1>5, <1>6, <1>7, <1>8, <1>9, <1>10, <1>11, <1>13, <1>12, <1>14
   DEF Next, NativeStep, CloseStep, WorkerStep

\* No step stops the table.
LEMMA StopsStep ==
    ASSUME BuildInv, [Next]_vars
    PROVE  NeverStops'
<1>1. ASSUME CloseSend PROVE NeverStops'
  BY <1>1, DoomedSend DEF NeverStops
<1>2. ASSUME UNCHANGED <<failed>> PROVE NeverStops'
  BY <1>2 DEF BuildInv, NeverStops
<1>3. ASSUME
         \/ \E p \in Port, k \in Key : Begin(p, k)
         \/ \E p \in Port : Close(p) \/ Collect(p)
         \/ \E t \in Thread, p \in Port : Enter(t, p)
         \/ \E t \in Thread : \/ Abandon(t) \/ Leave(t) \/ ReadToken(t) \/ PutCheck(t)
                              \/ PutRefuse(t) \/ PutCommit(t) \/ SealTake(t) \/ SealPublish(t) \/ SealDrop(t)
         \/ CloseTake \/ CloseTell \/ CloseEnd \/ WorkerReceive \/ WorkerFree \/ WorkerFinish
         \/ \E k \in Key : Drop(k)
         \/ \E l \in Lease : Unhold(l)
         \/ \E l \in Lease, k \in Key : Hold(l, k)
     PROVE  UNCHANGED <<failed>>
  BY <1>3 DEF Begin, Close, Collect, Owes, Enter, Abandon, Leave, ReadToken, PutCheck, PutRefuse,
     PutCommit, SealTake, SealPublish, SealDrop, CloseTake, CloseTell, CloseEnd, WorkerReceive,
     WorkerFree, WorkerFinish, Drop, Unhold, Hold, owner
<1>4. CASE UNCHANGED vars
  BY <1>2, <1>4 DEF vars, owner
<1> QED BY <1>1, <1>3, <1>2, <1>4 DEF Next, NativeStep, CloseStep, WorkerStep

\* Every step leaves a held image alone.
LEMMA LeaseStep ==
    ASSUME BuildInv, LeaseKeepsEntry, [Next]_vars
    PROVE  LeaseKeepsEntry'
<1>1. ASSUME NEW t \in Thread, SealPublish(t) PROVE LeaseKeepsEntry'
  <2>1. UNCHANGED lease /\ \A j \in Key : cache'[j] # cache[j] => ~Held(j)
    BY <1>1, PublishEffect DEF SealPublish, BuildInv
  <2>2. \A l \in Lease : lease[l].key # NoKey => lease[l].key \in Key
    BY DEF BuildInv, BuildTypeOK, CacheTypeOK
  <2> QED BY <2>1, <2>2 DEF LeaseKeepsEntry, Held
<1>2. ASSUME NEW k \in Key, Drop(k) PROVE LeaseKeepsEntry'
  <2>1. UNCHANGED lease /\ ~Held(k) /\ cache' = [cache EXCEPT ![k] = NoData]
    BY <1>2 DEF Drop
  <2>2. \A l \in Lease : lease[l].key # NoKey => lease[l].key \in Key \ {k}
    BY <2>1 DEF BuildInv, BuildTypeOK, CacheTypeOK, Held
  <2> QED BY <2>1, <2>2 DEF LeaseKeepsEntry, BuildInv, BuildTypeOK, CacheTypeOK
<1>3. ASSUME NEW l \in Lease, Unhold(l) PROVE LeaseKeepsEntry'
  <2>1. UNCHANGED cache /\ lease' = [lease EXCEPT ![l] = [key |-> NoKey, items |-> NoItems]]
    BY <1>3 DEF Unhold
  <2> QED BY <2>1 DEF LeaseKeepsEntry, BuildInv, BuildTypeOK, CacheTypeOK
<1>4. ASSUME NEW l \in Lease, NEW k \in Key, Hold(l, k) PROVE LeaseKeepsEntry'
  <2>1. /\ UNCHANGED cache /\ cache[k] # NoData
        /\ lease' = [lease EXCEPT ![l] = [key |-> k, items |-> cache[k].items]]
    BY <1>4 DEF Hold
  <2> QED BY <2>1 DEF LeaseKeepsEntry, BuildInv, BuildTypeOK, CacheTypeOK
<1>5. ASSUME UNCHANGED <<cache, lease>> PROVE LeaseKeepsEntry'
  BY <1>5 DEF LeaseKeepsEntry
<1>6. ASSUME
         \/ \E p \in Port, k \in Key : Begin(p, k)
         \/ \E p \in Port : Close(p) \/ Collect(p)
         \/ \E t \in Thread, p \in Port : Enter(t, p)
         \/ \E t \in Thread : \/ Abandon(t) \/ Leave(t) \/ ReadToken(t) \/ PutCheck(t)
                              \/ PutRefuse(t) \/ PutCommit(t) \/ SealTake(t) \/ SealDrop(t)
         \/ CloseTake \/ CloseTell \/ CloseSend \/ CloseEnd \/ WorkerReceive \/ WorkerFree \/ WorkerFinish
     PROVE  UNCHANGED <<cache, lease>>
  BY <1>6 DEF Begin, Close, Collect, Owes, Enter, Abandon, Leave, ReadToken, PutCheck, PutRefuse,
     PutCommit, SealTake, SealDrop, CloseTake, CloseTell, CloseSend, CloseEnd, WorkerReceive,
     WorkerFree, WorkerFinish
<1>7. CASE UNCHANGED vars
  BY <1>5, <1>7 DEF vars
<1> QED BY <1>1, <1>2, <1>3, <1>4, <1>6, <1>5, <1>7 DEF Next, NativeStep, CloseStep, WorkerStep

-----------------------------------------------------------------------------
(* The theorems *)

\* The invariant holds initially.
LEMMA InitHolds == Init => BuildInv /\ LeaseKeepsEntry
<1> SUFFICES ASSUME Init PROVE BuildInv /\ LeaseKeepsEntry
  OBVIOUS
<1>1. BuildTypeOK
  <2>1. TableTypeOK
    BY Shapes DEF Init, TableTypeOK
  <2>2. PortsTypeOK
    BY DEF Init, PortsTypeOK
  <2>3. ThreadsTypeOK
    BY Shapes DEF Init, ThreadsTypeOK
  <2>4. RetirementTypeOK
    <3>1. ready \in BOOLEAN /\ closing \in Closings
      BY CloseShapes DEF Init
    <3> QED BY <3>1 DEF Init, RetirementTypeOK
  <2>5. CacheTypeOK
    BY Shapes DEF Init, CacheTypeOK
  <2> QED BY <2>1, <2>2, <2>3, <2>4, <2>5 DEF BuildTypeOK
<1>2. InsideInv
  BY DEF Init, InsideInv
<1>3. RefsInv
  <2>1. \A p \in Port : Users(p) = {}
    BY NamesAssumption DEF Init, Users
  <2>2. \A p \in Port : Cardinality(Users(p)) = 0
    BY <2>1, FS_EmptySet
  <2> QED BY <2>2 DEF Init, RefsInv, Handles, NoClose
<1>4. FreshInv
  BY Shapes DEF Init, FreshInv, NoSlot, NoData, NoClose
<1>5. \A token \in Token : ~Doomed(token)
  BY DEF Init, Doomed, Retiring, NoClose
<1>6. ThreadInv /\ SealInv
  BY DEF Init, ThreadInv, SealInv, Sealed
<1>7. RetireInv
  BY <1>5 DEF Init, RetireInv, NoClose
<1>8. RoomInv
  <2>1. Taken = {}
    BY DEF Init, Taken
  <2> QED BY <2>1, FS_EmptySet, LimitsAssumption DEF RoomInv
<1>9. OwnerInv /\ DataFollowsSlot /\ NeverStops
  BY DEF Init, OwnerInv, DataFollowsSlot, NeverStops, NoSlot, NoData
<1>10. StoredIsAcknowledged
  BY Shapes DEF Init, StoredIsAcknowledged, NoData
<1>11. ReturnedInv
  BY DEF Init, ReturnedInv, NoClose
<1>12. LeaseKeepsEntry
  BY DEF Init, LeaseKeepsEntry
<1> QED BY <1>1, <1>2, <1>3, <1>4, <1>6, <1>7, <1>8, <1>9, <1>10, <1>11, <1>12 DEF BuildInv

\* Every step keeps the builder table, the ports and the tokens in order.
THEOREM BuildInvariant == Spec => []BuildInv
<1>1. Init => BuildInv
  BY InitHolds
<1>2. BuildInv /\ [Next]_vars => BuildInv'
  <2> SUFFICES ASSUME BuildInv, [Next]_vars PROVE BuildInv'
    OBVIOUS
  <2>1. BuildTypeOK'
    BY TableType, PortsType, ThreadsType, RetirementType, CacheType DEF BuildTypeOK
  <2>2. InsideInv' /\ RefsInv' /\ FreshInv' /\ ThreadInv' /\ SealInv'
    BY InsideStep, RefsStep, FreshStep, ThreadStep, SealStep
  <2>3. RetireInv' /\ RoomInv' /\ OwnerInv' /\ DataFollowsSlot'
    BY RetireStep, RoomStep, OwnerStep, DataStep
  <2>4. StoredIsAcknowledged' /\ ReturnedInv' /\ NeverStops'
    BY StoredStep, ReturnedStep, StopsStep
  <2> QED BY <2>1, <2>2, <2>3, <2>4 DEF BuildInv
<1> QED BY <1>1, <1>2, PTL DEF Spec

\* The state of the builder table, the ports, the threads, the retirement
\* thread and the cache keeps its shape.
THEOREM TypesHold == Spec => []BuildTypeOK
<1>1. BuildInv => BuildTypeOK
  BY DEF BuildInv
<1> QED BY <1>1, BuildInvariant, PTL

\* No thread, handle, reply or close is left with a freed port: the reference
\* taken by caml_octra_compute_build_step is enough.
THEOREM PortsAreSafe == Spec => []NoDanglingPort
<1>1. BuildInv => NoDanglingPort
  <2> SUFFICES ASSUME BuildInv, NEW p \in freed
               PROVE  /\ p \notin handle /\ orphans[p] = 0
                      /\ \A t \in Thread : at[t] # p
                      /\ closing.port # p
    BY DEF NoDanglingPort
  <2>1. p \in Port /\ orphans[p] \in Nat
    BY DEF BuildInv, BuildTypeOK, PortsTypeOK
  <2>2. p \notin handle /\ Users(p) = {} /\ ~(orphans[p] > 0)
    BY <2>1, InUse DEF BuildInv
  <2>3. \A t \in Thread : at[t] # p
    BY <2>2 DEF Users
  <2>4. closing.port # p
    BY <2>1, <2>2, NamesAssumption DEF BuildInv, RefsInv, NoClose
  <2> QED BY <2>1, <2>2, <2>3, <2>4
<1> QED BY <1>1, BuildInvariant, PTL

\* One place per slot is enough for the retirement channel, so close never
\* falls back on BuildMessage::Stop.
THEOREM TableNeverStops == Spec => []NeverStops
<1>1. BuildInv => NeverStops
  BY DEF BuildInv
<1> QED BY <1>1, BuildInvariant, PTL

\* A build whose close has returned publishes nothing.
THEOREM ClosedStaysSilent == Spec => NoLateImage
<1> DEFINE Silent == \A k \in Key :
               cache'[k] \notin {cache[k], NoData} => [key |-> k, id |-> cache'[k].id] \notin returned
<1>1. BuildInv /\ [Next]_vars => [Silent]_vars
  <2> SUFFICES ASSUME BuildInv, [Next]_vars PROVE Silent \/ UNCHANGED vars
    OBVIOUS
  <2>1. ASSUME NEW t \in Thread, SealPublish(t) PROVE Silent
    <3>1. \A k \in Key : cache'[k] \notin {cache[k], NoData} =>
              cache'[k].id = slots[k].id /\ slots[k].phase = "sealing"
      BY <2>1, PublishEffect DEF BuildInv
    <3> QED BY <3>1 DEF BuildInv, ReturnedInv
  <2>2. ASSUME NEW k \in Key, Drop(k) PROVE Silent
    BY <2>2 DEF Drop, BuildInv, BuildTypeOK, CacheTypeOK
  <2>3. ASSUME UNCHANGED cache PROVE Silent
    BY <2>3
  <2>4. ASSUME
           \/ \E p \in Port, k \in Key : Begin(p, k)
           \/ \E p \in Port : Close(p) \/ Collect(p)
           \/ \E t \in Thread, p \in Port : Enter(t, p)
           \/ \E t \in Thread : \/ Abandon(t) \/ Leave(t) \/ ReadToken(t) \/ PutCheck(t)
                                \/ PutRefuse(t) \/ PutCommit(t) \/ SealTake(t) \/ SealDrop(t)
           \/ CloseTake \/ CloseTell \/ CloseSend \/ CloseEnd \/ WorkerReceive \/ WorkerFree \/ WorkerFinish
           \/ \E l \in Lease : Unhold(l)
           \/ \E l \in Lease, k \in Key : Hold(l, k)
         PROVE  UNCHANGED cache
    BY <2>4 DEF Begin, Close, Collect, Owes, Enter, Abandon, Leave, ReadToken, PutCheck, PutRefuse,
       PutCommit, SealTake, SealDrop, CloseTake, CloseTell, CloseSend, CloseEnd, WorkerReceive,
       WorkerFree, WorkerFinish, Unhold, Hold
  <2> QED BY <2>1, <2>2, <2>3, <2>4 DEF Next, NativeStep, CloseStep, WorkerStep
<1>2. []BuildInv /\ [][Next]_vars => [][Silent]_vars
  BY <1>1, PTL
<1> QED BY <1>2, BuildInvariant DEF Spec, NoLateImage

\* What a lease holds is never evicted, dropped or replaced.
THEOREM LeasesHold == Spec => []LeaseKeepsEntry
<1>1. Init => LeaseKeepsEntry
  BY InitHolds
<1>2. BuildInv /\ LeaseKeepsEntry /\ [Next]_vars => LeaseKeepsEntry'
  BY LeaseStep
<1> QED BY <1>1, <1>2, BuildInvariant, PTL DEF Spec

\* Whatever commit_storage, build_take, build_publish and the retirement thread
\* interleave with: data and images hold what their own generation acknowledged,
\* data neither outlives its slot nor is lost early, and leases are kept.
THEOREM StorageIsExact == Spec => []StorageExact
<1>1. BuildInv /\ LeaseKeepsEntry => StorageExact
  BY DEF BuildInv, StorageExact
<1> QED BY <1>1, BuildInvariant, LeasesHold, PTL
=============================================================================
