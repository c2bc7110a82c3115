----------------------------- MODULE Ciphertext -----------------------------
(***************************************************************************)
(* The ciphertexts of the private computation (pvac) and everything the    *)
(* node does with them: encryption, the homomorphic operations of          *)
(* ops/arithmetic.hpp, recryption, storing and reading back, decryption.   *)
(*                                                                         *)
(* A ciphertext hides one field element per slot.  Each base layer has a   *)
(* secret mask per slot; a product layer's mask is the product of its      *)
(* parents'.  The value is the clear constant c0 plus, over the edges,     *)
(* weight times g^idx, signed, divided by the mask of the edge's layer.    *)
(*                                                                         *)
(* A caller holds handles; no operation changes a handle's ciphertext, it  *)
(* makes a new handle or fails.  The pool is the list of handles made so   *)
(* far, each with the value a caller is entitled to expect of it.          *)
(*                                                                         *)
(* The random generator is a tape: a number, of which each draw is a       *)
(* function.  Hashes are terms, masks are given by the constants.          *)
(***************************************************************************)
EXTENDS CipherShape, FieldWords, SequencesExt

CONSTANTS
    HalfWord,        \* the word size of the field, as FieldWords counts it
    B, G,            \* the number of powers of g, and g
    CircuitMask,     \* seed -> the masks of its slots, by the circuit PRF
    LegacyMask,      \* seed -> the masks of its slots, by the older PRF
    Tapes, OldTapes, \* tapes of the random generator: for encrypting, for what was
                     \* stored by earlier programs,
    OpTapes,         \* and for the operations
    Plain,           \* the values a caller encrypts, one sequence of slots each
    HalfWords,       \* the word sizes the field arithmetic is checked for
    Consts,          \* the signed constants a caller uses
    K,               \* signal edges of a fresh layer (8 in the code)
    RepackEdges,     \* edges of a product layer (8 in the code)
    MaskAttempts,    \* draws of a nonzero mask (16 in the code)
    RecryptRounds,   \* rounds of recryption (8 in the code)
    EdgeBudget,      \* Params.edge_budget
    MaxFresh,        \* bound: handles from outside
    MaxHandles,      \* bound: all handles
    MaxProducts      \* bound: product layers one operation may make

P == Modulus(HalfWord)
Field == 0..(P - 1)
Seed == DOMAIN CircuitMask
SigmaBits == {1, 2}

ASSUME FieldAssumption ==
    /\ HalfWord \in Nat \ {0}
    /\ \A x \in 1..(P - 1) : \E y \in Field : (x * y) % P = 1
    /\ B \in Nat /\ B >= 3 /\ G \in 2..(P - 1)

\* A PRF has a mask for every slot.  The prior one never returns zero; the
\* circuit PRF may (circuit_prf_R).
ASSUME MaskAssumption ==
    /\ IsFiniteSet(Seed) /\ Seed # {} /\ Seed = 0..(Cardinality(Seed) - 1)
    /\ DOMAIN LegacyMask = Seed
    /\ \A s \in Seed : \A mask \in {CircuitMask[s], LegacyMask[s]} :
           /\ mask \in Seq(Field) /\ Len(mask) >= 1
           /\ \A v \in Plain : Len(v) <= Len(mask)
    /\ \A s \in Seed : \A j \in DOMAIN LegacyMask[s] : LegacyMask[s][j] # 0

\* A value has a slot (merge rejects one without); a constant is a signed word.
ASSUME CallerAssumption ==
    /\ \A v \in Plain : v \in Seq(Field) /\ v # <<>>
    /\ Tapes \subseteq Nat /\ OldTapes \subseteq Nat /\ OpTapes \subseteq Nat
    /\ Consts \subseteq Signed(HalfWord)

\* 2^63 in the code.
ASSUME WordsAssumption == HalfWords \subseteq {h \in Nat : h >= 2}

ASSUME BoundAssumption ==
    K \in 1..B /\ RepackEdges \in 1..B /\ MaskAttempts \in Nat /\ RecryptRounds \in Nat

VARIABLES
    pool,   \* the handles, in the order they were made
    last    \* the last operation, its operands, and whether it returned

vars == <<pool, last>>

-----------------------------------------------------------------------------
(* Field vectors (field::Op); the residues stand for FieldWords' pairs *)

InvTable == [x \in Field |-> IF x = 0 THEN 0 ELSE CHOOSE y \in Field : (x * y) % P = 1]

FInv(x) == InvTable[x]

PowG == LET pow[i \in 0..(B - 1)] == IF i = 0 THEN 1 ELSE (pow[i - 1] * G) % P
        IN  pow

\* The powers close (pubkey_powers_ok).
ASSUME PowersAssumption == (PowG[B - 1] * G) % P = 1

Zeros(S) == [j \in 1..S |-> 0]
VAdd(a, b) == [j \in DOMAIN a |-> (a[j] + b[j]) % P]
VSub(a, b) == [j \in DOMAIN a |-> (a[j] - b[j]) % P]
VMul(a, b) == [j \in DOMAIN a |-> (a[j] * b[j]) % P]
VScale(a, x) == [j \in DOMAIN a |-> (a[j] * x) % P]
VNeg(a) == VSub(Zeros(Len(a)), a)
VSigned(a, ch) == IF ch = 1 THEN a ELSE VNeg(a)
NonZero(a) == \E j \in DOMAIN a : a[j] # 0

VSum(seq, S) == FoldLeft(VAdd, Zeros(S), seq)

-----------------------------------------------------------------------------
(* The random generator: draw k of tape t *)

FpNonzero(t, k) == 1 + ((5 * t + 3 * k) % (P - 1))
NonzeroVec(t, k, S) == [j \in 1..S |-> FpNonzero(t, k + j)]
SignBit(t, k) == IF ((t + k) \div 2) % 2 = 0 THEN 1 ELSE -1
\* sample_unique_indices, Selector.fresh: the k-th of B different indices.
UniqueIdx(t, k) == (t + k) % B
Sigma(t, k) == <<{1}, {2}, {1, 2}>>[1 + ((t + k) % 3)]
DrawSeed(t, k) == (t + k) % Cardinality(Seed)
DrawPoolIdx(t, k, n) == 1 + ((t + k) % n)

-----------------------------------------------------------------------------
(* Ciphertexts *)

\* What an operation that throws returns; no ciphertext has no slots.
NoCipher == [L |-> <<>>, E |-> <<>>, c0 |-> <<>>, slots |-> 0]

Threw(c) == c.slots = 0

NoSeed == -1
NoCom == <<"none">>

\* A layer nothing has been read into yet.  rpc (R_PC) and pc (PC) hold one
\* point per slot or none; whether rpc is there also says which PRF masks the
\* layer.
Blank == [rule |-> "base", seed |-> NoSeed, rpc |-> <<>>, pc |-> <<>>, com |-> NoCom,
          pa |-> 0, pb |-> 0]

Points(name, seed, S) == [j \in 1..S |-> <<name, seed, j>>]
NoPoint == <<"zero">>

\* make_prod_layer: the parents in order, and the hash of their commitments.
ProdLayer(L, la, lb) ==
    LET lo == Min({la, lb})
        hi == Max({la, lb})
    IN  [Blank EXCEPT !.rule = "prod", !.pa = lo, !.pb = hi,
                      !.com = <<"prod", L[lo].com, L[hi].com>>]

ValidCipherShape(c) ==
    /\ c.slots > 0
    /\ c.c0 = <<>> \/ Len(c.c0) = c.slots
    /\ ParentsBelow(c.L)
    /\ \A i \in DOMAIN c.L : \A points \in {c.L[i].pc, c.L[i].rpc} :
           points = <<>> \/ (~IsProd(c.L[i]) /\ Len(points) = c.slots)
    /\ EdgesPlaced(c.L, c.E)
    /\ \A k \in DOMAIN c.E : c.E[k].ch \in {1, -1} /\ Len(c.E[k].w) = c.slots

\* is_cipher_compatible_with_pubkey
FitsKey(c) ==
    /\ ValidCipherShape(c)
    /\ \A k \in DOMAIN c.E : c.E[k].idx \in DOMAIN PowG /\ c.E[k].s \subseteq SigmaBits

MulDepth(c) ==
    LET depth[i \in DOMAIN c.L] ==
            IF IsProd(c.L[i]) THEN Max({depth[c.L[i].pa], depth[c.L[i].pb]}) + 1 ELSE 0
    IN  Max({0} \cup {depth[i] : i \in DOMAIN c.L})

-----------------------------------------------------------------------------
(* Merging edges and dropping layers *)

\* The order of merge, by layer, index and sign, as a number: it rejects an
\* index that is not below B.
Position(e) == (e.lid * B + e.idx) * 2 + (IF e.ch = -1 THEN 1 ELSE 0)

Xor(sets) ==
    {b \in SigmaBits : Cardinality({i \in DOMAIN sets : b \in sets[i]}) % 2 = 1}

\* The edges of one layer, index and sign become one; an edge that says
\* nothing is dropped.
Merge(E) ==
    LET Sum(p) == LET g == Chosen(E, {k \in DOMAIN E : Position(E[k]) = p})
                  IN  [g[1] EXCEPT !.w = VSum([k \in DOMAIN g |-> g[k].w], Len(@)),
                                   !.s = Xor([k \in DOMAIN g |-> g[k].s])]
        sums == [p \in {Position(E[k]) : k \in DOMAIN E} |-> Sum(p)]
    IN  Chosen(sums, {p \in DOMAIN sums : NonZero(sums[p].w) \/ sums[p].s # {}})

CompactEdges(c) == [c EXCEPT !.E = Merge(@)]

GuardBudget(c) == IF Len(c.E) > EdgeBudget THEN CompactEdges(c) ELSE c

\* Mutant: only the layers of edges are kept.
LiveDirect(c) == {c.E[k].lid : k \in DOMAIN c.E}

\* The layers of edges, and with a product its parents: parents are below, so
\* one pass from the top reaches the fixpoint the code sweeps for.
Live(c) ==
    FoldLeft(LAMBDA live, i : IF i \in live /\ IsProd(c.L[i])
                              THEN live \cup {c.L[i].pa, c.L[i].pb} ELSE live,
             {c.E[k].lid : k \in DOMAIN c.E},
             Reverse([i \in DOMAIN c.L |-> i]))

CompactLayers(c) ==
    IF ~ValidCipherShape(c) THEN NoCipher
    ELSE LET S == Live(c)
         IN  [c EXCEPT !.L = KeepLayers(@, S), !.E = KeepEdges(@, S)]

-----------------------------------------------------------------------------
(* Encryption *)

Edge(lid, idx, ch, w, s) == [lid |-> lid, idx |-> idx, ch |-> ch, w |-> w, s |-> s]

\* n edges of different indices whose signed terms add up to the target: all
\* but the last are random, the last one closes the sum.
ClosingEdges(lid, target, n, t, unscale) ==
    LET S == Len(target)
        rnd(i) == Edge(lid, UniqueIdx(t, i), SignBit(t, i), NonzeroVec(t, i, S), Sigma(t, i))
        term(e) == VSigned(VScale(e.w, PowG[e.idx]), e.ch)
        diff == VSub(target, VSum([i \in 1..(n - 1) |-> term(rnd(i))], S))
        closing == VScale(VSigned(diff, SignBit(t, n)), unscale[UniqueIdx(t, n)])
    IN  [i \in 1..n |-> IF i < n THEN rnd(i) ELSE [rnd(n) EXCEPT !.w = closing]]

SigEdges(target, t) == ClosingEdges(1, target, K, t, [idx \in DOMAIN PowG |-> FInv(PowG[idx])])

EmitRepackEdges(lid, target, t) ==
    ClosingEdges(lid, target, RepackEdges, t, [idx \in DOMAIN PowG |-> PowG[(B - idx) % B]])

\* Two edges of opposite signs that add up to the noise dt.
N2Edges(dt, t) ==
    LET S == Len(dt)
        a == UniqueIdx(t, 1)
        b == UniqueIdx(t, 2)
        sa == SignBit(t, 3)
        ra == NonzeroVec(t, 4, S)
        rb == VScale(VSub(VScale(ra, PowG[a]), VSigned(dt, sa)), FInv(PowG[b]))
    IN  <<Edge(1, a, sa, ra, Sigma(t, 1)), Edge(1, b, -sa, rb, Sigma(t, 2))>>

\* Three edges of any signs that add up to the noise dt.
N3Edges(dt, t) ==
    LET S == Len(dt)
        e(i) == Edge(1, UniqueIdx(t, i), SignBit(t, 2 * i), NonzeroVec(t, 3 * i, S), Sigma(t, i))
        term(x) == VSigned(VScale(x.w, PowG[x.idx]), x.ch)
        rc == VScale(VSub(dt, VAdd(term(e(1)), term(e(2)))),
                     FInv((e(3).ch * PowG[e(3).idx]) % P))
    IN  <<e(1), e(2), [e(3) EXCEPT !.w = rc]>>

Permute(E, t) == IF t % 2 = 0 THEN E ELSE Reverse(E)

\* A ciphertext of one layer: signal and noise, times the mask.
SynthUnder(layer, R, v, t) ==
    LET S == Len(v)
        d2 == NonzeroVec(t, 5, S)
        d3 == NonzeroVec(t, 7, S)
        edges == SigEdges(VSub(v, VAdd(d2, d3)), t) \o N2Edges(d2, t) \o N3Edges(d3, t + 1)
        masked == [k \in DOMAIN edges |-> [edges[k] EXCEPT !.w = VMul(@, R)]]
    IN  [L |-> <<layer>>, E |-> Permute(Merge(masked), t), c0 |-> Zeros(S), slots |-> S]

CircuitR(seed, S) == SubSeq(CircuitMask[seed], 1, S)
LegacyR(seed, S) == SubSeq(LegacyMask[seed], 1, S)

\* The first seed drawn whose masks are all nonzero, if one comes in time.
MaskSeed(t, S) ==
    LET good == {k \in 0..(MaskAttempts - 1) :
                     \A j \in 1..S : CircuitMask[DrawSeed(t, k)][j] # 0}
    IN  IF good = {} THEN NoSeed ELSE DrawSeed(t, Min(good))

\* compute_R_com_base, compute_layer_PC
FreshLayer(seed, S) ==
    [Blank EXCEPT !.seed = seed, !.com = <<"base", seed>>,
                  !.rpc = Points("rpc", seed, S), !.pc = Points("pc", seed, S)]

Synth(v, t) ==
    LET seed == MaskSeed(t, Len(v))
    IN  IF seed = NoSeed THEN NoCipher
        ELSE SynthUnder(FreshLayer(seed, Len(v)), CircuitR(seed, Len(v)), v, t)

Fuse(a, b) ==
    GuardBudget([L |-> JoinLayers(a.L, b.L), E |-> JoinEdges(a.L, a.E, b.E),
                 c0 |-> VAdd(a.c0, b.c0), slots |-> a.slots])

\* enc_values: the value split in two random parts, a layer for each.
EncValues(v, t) ==
    LET m == NonzeroVec(t, 0, Len(v))
        pos == Synth(VAdd(v, m), t)
        neg == Synth(VNeg(m), t + 1)
    IN  IF Threw(pos) \/ Threw(neg) THEN NoCipher ELSE Fuse(pos, neg)

-----------------------------------------------------------------------------
(* Decryption *)

\* layer_R_cached under the standard policy.
MaskOf(c, i, R) ==
    LET layer == c.L[i]
    IN  IF IsProd(layer) THEN VMul(R[layer.pa], R[layer.pb])
        ELSE IF layer.rpc # <<>> THEN CircuitR(layer.seed, c.slots) ELSE LegacyR(layer.seed, c.slots)

Masks(c) ==
    FoldLeft(LAMBDA R, i : Append(R, MaskOf(c, i, R)), <<>>, [i \in DOMAIN c.L |-> i])

DecValues(c) ==
    LET masks == Masks(c)
        term(e) == [j \in 1..c.slots |->
                       (e.ch * e.w[j] * PowG[e.idx] * FInv(masks[e.lid][j])) % P]
        start == IF c.c0 = <<>> THEN Zeros(c.slots) ELSE c.c0
    IN  VAdd(start, VSum([k \in DOMAIN c.E |-> term(c.E[k])], c.slots))

-----------------------------------------------------------------------------
(* Arithmetic *)

ScaleEdges(E, x) == [k \in DOMAIN E |-> [E[k] EXCEPT !.w = VScale(@, x)]]

CtScale(a, x) == [a EXCEPT !.E = ScaleEdges(@, x), !.c0 = VScale(@, x)]

CtAdd(a, b) ==
    IF a.slots # b.slots THEN NoCipher
    ELSE CompactLayers(GuardBudget(
             [L |-> JoinLayers(a.L, b.L), E |-> JoinEdges(a.L, a.E, b.E),
              c0 |-> IF a.c0 = <<>> THEN b.c0 ELSE IF b.c0 = <<>> THEN a.c0
                     ELSE VAdd(a.c0, b.c0),
              slots |-> a.slots]))

CtSub(a, b) == CtAdd(a, CtScale(b, P - 1))

\* The sum, per layer, of the signed terms of its edges (fold_edges).
FoldEdges(c) ==
    [i \in DOMAIN c.L |->
        LET own == Chosen(c.E, {k \in DOMAIN c.E : c.E[k].lid = i})
        IN  VSum([k \in DOMAIN own |-> VSigned(VScale(own[k].w, PowG[own[k].idx]), own[k].ch)],
                 c.slots)]

\* Product layers for the pairs of positions, with edges that add up to the
\* targets (build_product_cipher); the edges of the operands are not kept.
BuildProduct(L, slots, pairs, targets, t) ==
    LET edges == [n \in DOMAIN pairs |-> EmitRepackEdges(Len(L) + n, targets[n], t + n)]
    IN  CompactLayers(GuardBudget(
            [L |-> L \o [n \in DOMAIN pairs |-> ProdLayer(L, pairs[n][1], pairs[n][2])],
             E |-> FoldLeft(LAMBDA x, y : x \o y, <<>>, edges),
             c0 |-> Zeros(slots), slots |-> slots]))

ScaledEdges(E, scale, off) ==
    IF ~NonZero(scale) THEN <<>>
    ELSE LET moved == MoveEdges(E, off)
         IN  [k \in DOMAIN moved |-> [moved[k] EXCEPT !.w = VMul(@, scale)]]

\* The constant of an operand; the prior rule leaves a missing one missing.
ConstOf(math, c) == IF math /\ c.c0 = <<>> THEN Zeros(c.slots) ELSE c.c0

\* Constant times edges, both ways.
CrossTerms(a, b, a0, b0) == ScaledEdges(b.E, a0, Len(a.L)) \o ScaledEdges(a.E, b0, 0)

\* Every pair of layers of the operands, in the order of the loops.
LayerPairs(n, m) == [k \in 1..(n * m) |-> <<1 + (k - 1) \div m, 1 + ((k - 1) % m)>>]

CtMul(math, a, b, t) ==
    IF a.slots # b.slots THEN NoCipher
    ELSE LET a0 == ConstOf(math, a)
             b0 == ConstOf(math, b)
             gA == FoldEdges(a)
             gB == FoldEdges(b)
             pairs == LayerPairs(Len(a.L), Len(b.L))
             c == BuildProduct(JoinLayers(a.L, b.L), a.slots,
                               [n \in DOMAIN pairs |-> <<pairs[n][1], Len(a.L) + pairs[n][2]>>],
                               [n \in DOMAIN pairs |-> VMul(gA[pairs[n][1]], gB[pairs[n][2]])],
                               t)
         IN  IF Threw(c) \/ Len(a0) # Len(b0) THEN NoCipher
             ELSE CompactLayers(GuardBudget(
                      [c EXCEPT !.E = @ \o CrossTerms(a, b, a0, b0), !.c0 = VMul(a0, b0)]))

SquareTarget(g, pair) ==
    LET prod == VMul(g[pair[1]], g[pair[2]])
    IN  IF pair[1] # pair[2] THEN VAdd(prod, prod) ELSE prod

CtSquare(math, a, t) ==
    LET a0 == ConstOf(math, a)
        g == FoldEdges(a)
        all == LayerPairs(Len(a.L), Len(a.L))
        pairs == Chosen(all, {k \in DOMAIN all : all[k][1] <= all[k][2]})
        c == BuildProduct(a.L, a.slots, pairs,
                          [n \in DOMAIN pairs |-> SquareTarget(g, pairs[n])], t)
    IN  IF Threw(c) THEN NoCipher
        ELSE CompactLayers(GuardBudget(
                 [c EXCEPT !.E = @ \o ScaledEdges(a.E, VAdd(a0, a0), 0), !.c0 = VMul(a0, a0)]))

\* Under the prior rule a ciphertext without a constant stays without one.
CtAddConst(math, a, x) ==
    LET c0 == ConstOf(math, a)
    IN  [a EXCEPT !.c0 = [j \in DOMAIN c0 |-> (c0[j] + x) % P]]

CtDivConst(a, x) == IF x = 0 THEN NoCipher ELSE CtScale(a, FInv(x))

-----------------------------------------------------------------------------
(* Recryption *)

\* The zeros of the evaluation key (make_evalkey); they have one slot.
ZeroPool == [i \in 1..2 |-> EncValues(<<0>>, i)]

\* There is no evaluation key if one of them could not be made.
ASSUME EvalKeyAssumption == \A i \in 1..2 : ~Threw(ZeroPool[i])

\* sigma_needs_balance: not half of the bits are set.
NeedsBalance(c) ==
    LET ones == FoldLeft(LAMBDA n, e : n + Cardinality(e.s), 0, c.E)
    IN  2 * ones # Cardinality(SigmaBits) * Len(c.E)

\* ubk_apply: the key's permutation of the bits.
UbkEdges(E) == [k \in DOMAIN E |-> [E[k] EXCEPT !.s = {3 - b : b \in @}]]

UbkApply(c) == [c EXCEPT !.E = UbkEdges(@)]

RecryptRound(c, z) ==
    LET sum == CtAdd(c, z)
    IN  IF Threw(sum) THEN NoCipher ELSE GuardBudget(UbkApply(sum))

CtRecrypt(a, t) ==
    IF a.E = <<>> THEN a
    ELSE LET round(c, n) == IF Threw(c) \/ ~NeedsBalance(c) THEN c
                            ELSE RecryptRound(c, ZeroPool[DrawPoolIdx(t, n, 2)])
             c == FoldLeft(round, a, [n \in 1..RecryptRounds |-> n])
         IN  IF Threw(c) THEN NoCipher ELSE CompactLayers(CompactEdges(c))

\* What the mixed new masks miss of the old one goes to the clear constant.
Bias(oldInv, mixed) == VSub(oldInv, mixed)

Inverses(R) == [j \in DOMAIN R |-> FInv(R[j])]

\* ct_recrypt_reset_seeded: two new base layers take the place of all layers.
CtRecryptReset(a, t) ==
    LET S == a.slots
        seeds == [n \in 1..2 |-> MaskSeed(t + n, S)]
        newInv(n) == Inverses(CircuitR(seeds[n], S))
        mix(i, n) == NonzeroVec(t, 2 * i + n, S)
        bias(i) == Bias(Inverses(Masks(a)[i]),
                        VAdd(VMul(mix(i, 1), newInv(1)), VMul(mix(i, 2), newInv(2))))
        term(e) == VSigned(VScale(e.w, PowG[e.idx]), e.ch)
        Over(row(_)) == VSum([k \in DOMAIN a.E |-> VMul(term(a.E[k]), row(a.E[k].lid))], S)
        edges(n) == LET target == Over(LAMBDA i : mix(i, n))
                    IN  IF NonZero(target) THEN EmitRepackEdges(n, target, t + n) ELSE <<>>
    IN  IF ~FitsKey(a) \/ \E n \in 1..2 : seeds[n] = NoSeed THEN NoCipher
        ELSE CompactLayers(CompactEdges(GuardBudget(
                 [L |-> [n \in 1..2 |-> FreshLayer(seeds[n], S)],
                  E |-> edges(1) \o edges(2),
                  c0 |-> VAdd(ConstOf(TRUE, a), Over(bias)), slots |-> S])))

-----------------------------------------------------------------------------
(* Storing and reading back *)

\* Mutant: a layer is written without its R_PC.
FieldsNoRpc(ver, rule) ==
    {"rule"} \cup (IF rule = "base" THEN {"seed"} ELSE {"pa", "pb"})
             \cup (IF ver < 4 THEN {"com"} ELSE {})
             \cup (IF ver \in {2, 3} THEN {"pc"} ELSE {})

\* The fields of a layer each version of the format holds.
Fields(ver, rule) ==
    {"rule"} \cup (IF rule = "base" THEN {"seed"} ELSE {"pa", "pb"})
             \cup (IF ver < 4 THEN {"com"} ELSE {})
             \cup (IF ver \in {2, 3} THEN {"pc"} ELSE {})
             \cup (IF ver = 3 THEN {"rpc"} ELSE {})

WriteLayer(ver, layer) == [f \in Fields(ver, layer.rule) |-> layer[f]]

\* A public base layer (version 4) is marked as masked by the circuit PRF.
ReadLayer(ver, fields, S) ==
    LET layer == [f \in DOMAIN Blank |-> IF f \in DOMAIN fields THEN fields[f] ELSE Blank[f]]
    IN  IF ver >= 4 /\ ~IsProd(layer) THEN [layer EXCEPT !.rpc = [j \in 1..S |-> NoPoint]]
        ELSE layer

\* serialize_cipher writes version 3; the others were written by earlier programs.
Write(ver, c) == [ver |-> ver, L |-> [i \in DOMAIN c.L |-> WriteLayer(ver, c.L[i])],
                  E |-> c.E, c0 |-> c.c0, slots |-> c.slots]

SerializeCipher(c) == IF ValidCipherShape(c) THEN Write(3, c) ELSE Write(3, NoCipher)

DeserializeCipher(bytes) ==
    LET c == [L |-> [i \in DOMAIN bytes.L |-> ReadLayer(bytes.ver, bytes.L[i], bytes.slots)],
              E |-> bytes.E, c0 |-> bytes.c0, slots |-> bytes.slots]
    IN  IF ValidCipherShape(c) THEN c ELSE NoCipher

\* The fields commit_ct hashes, in their order.
CommitCt(c) ==
    <<[i \in DOMAIN c.L |-> LET l == c.L[i]
                            IN  <<l.rule, IF IsProd(l) THEN <<l.pa, l.pb>> ELSE <<l.seed>>,
                                  l.com, l.rpc, l.pc>>],
      c.slots, c.c0, c.E>>

\* cipher_has_key_bound_material
KeyBound(c) ==
    /\ \E i \in DOMAIN c.L : ~IsProd(c.L[i])
    /\ \A i \in DOMAIN c.L : IsProd(c.L[i]) \/ (Len(c.L[i].rpc) = c.slots /\ Len(c.L[i].pc) = c.slots)

\* Ciphertexts of v that earlier programs stored: under the older PRF, before
\* and after PC was there, without a constant, with a layer no edge names; a
\* public one; a constant alone.
Stored(v, t) ==
    LET seed == DrawSeed(t, 0)
        layer == [Blank EXCEPT !.seed = seed, !.com = <<"base", seed>>,
                               !.pc = Points("pc", seed, Len(v))]
        old == SynthUnder(layer, LegacyR(seed, Len(v)), v, t)
        idle == [layer EXCEPT !.seed = DrawSeed(t, 1), !.com = <<"base", DrawSeed(t, 1)>>]
    IN  {Write(1, [old EXCEPT !.c0 = <<>>]), Write(2, [old EXCEPT !.L = <<idle>> \o @, !.E = MoveEdges(@, 1)]),
         Write(4, EncValues(v, t)),
         Write(3, [NoCipher EXCEPT !.c0 = v, !.slots = Len(v)])}

-----------------------------------------------------------------------------
(* What a caller does (pvac_stubs.cpp, fhe_calc.ml).  A handle has its       *)
(* ciphertext, the value it must decrypt to, the depth of products in the    *)
(* expression it comes from, and whether that expression is one the prior    *)
(* rule evaluates as it is written.                                          *)

\* The words of the signed constants, as each operation hands them over.
ScaleWords(math, k) ==
    IF math THEN FpFromI64(HalfWord, k) ELSE FpOf(HalfWord, k % Word(HalfWord))

AddWords(math, k) ==
    IF math THEN AddIntWords(HalfWord, k) ELSE FpOf(HalfWord, k % Word(HalfWord))

SubWords(math, k) ==
    IF math /\ k < 0 THEN FpOf(HalfWord, (-k) % Word(HalfWord))
    ELSE FpNeg(HalfWord, FpOf(HalfWord, k % Word(HalfWord)))

DivWords(k) == FpOf(HalfWord, k % Word(HalfWord))

Val(x) == Value(HalfWord, x)

Init == pool = <<>> /\ last = [op |-> "none", args |-> <<>>, k |-> 0, math |-> TRUE, ok |-> TRUE]

\* The end of every operation: a new handle, or an exception.
Return(op, args, math, k, ct, val, sound, depth) ==
    /\ last' = [op |-> op, args |-> args, math |-> math, k |-> k, ok |-> ~Threw(ct)]
    /\ pool' = IF Threw(ct) THEN pool
               ELSE Append(pool, [ct |-> ct, val |-> val, sound |-> sound, depth |-> depth,
                                  made |-> args # <<>>])

NoneMade == \A i \in DOMAIN pool : ~pool[i].made

\* Bound: handles from outside come first.
MayFetch == last.ok /\ NoneMade /\ Len(pool) < MaxFresh

\* Bound: after the first operation an operand is the newest handle.  An
\* exception changes no handle, so nothing new can follow one.
MayUse(is) ==
    /\ last.ok
    /\ Len(pool) < MaxHandles
    /\ NoneMade \/ Len(pool) \in is

Encrypt(v, t) ==
    /\ MayFetch
    /\ Return("encrypt", <<>>, TRUE, t, EncValues(v, t), v, TRUE, 0)

Load(v, t) ==
    /\ MayFetch
    /\ \E bytes \in Stored(v, t) :
           Return("load", <<>>, TRUE, t, DeserializeCipher(bytes), v, TRUE, 0)

Deeper(i, j) == Max({pool[i].depth, pool[j].depth})

\* A product of two secrets; one with a constant alone is none.
ProductDepth(i, j) ==
    IF pool[i].ct.L = <<>> \/ pool[j].ct.L = <<>> THEN 0 ELSE Deeper(i, j) + 1

Add(i, j) ==
    /\ MayUse({i, j})
    /\ Return("add", <<i, j>>, TRUE, 0, CtAdd(pool[i].ct, pool[j].ct),
              IF pool[i].ct.slots = pool[j].ct.slots THEN VAdd(pool[i].val, pool[j].val) ELSE <<>>,
              pool[i].sound /\ pool[j].sound, Deeper(i, j))

Sub(i, j) ==
    /\ MayUse({i, j})
    /\ Return("sub", <<i, j>>, TRUE, 0, CtSub(pool[i].ct, pool[j].ct),
              IF pool[i].ct.slots = pool[j].ct.slots THEN VSub(pool[i].val, pool[j].val) ELSE <<>>,
              pool[i].sound /\ pool[j].sound, Deeper(i, j))

Mul(math, i, j, t) ==
    /\ MayUse({i, j})
    /\ Len(pool[i].ct.L) * Len(pool[j].ct.L) <= MaxProducts
    /\ Return("mul", <<i, j>>, math, t, CtMul(math, pool[i].ct, pool[j].ct, t),
              IF pool[i].ct.slots = pool[j].ct.slots THEN VMul(pool[i].val, pool[j].val) ELSE <<>>,
              pool[i].sound /\ pool[j].sound, ProductDepth(i, j))

Square(math, i, t) ==
    /\ MayUse({i})
    /\ Len(pool[i].ct.L) * Len(pool[i].ct.L) <= MaxProducts
    /\ Return("square", <<i>>, math, t, CtSquare(math, pool[i].ct, t),
              VMul(pool[i].val, pool[i].val), pool[i].sound, ProductDepth(i, i))

Scale(math, i, k) ==
    /\ MayUse({i})
    /\ Return("scale", <<i>>, math, k, CtScale(pool[i].ct, Val(ScaleWords(math, k))),
              VScale(pool[i].val, k % P), pool[i].sound /\ (math \/ k >= 0), pool[i].depth)

AddInt(math, i, k) ==
    /\ MayUse({i})
    /\ Return("add_int", <<i>>, math, k, CtAddConst(math, pool[i].ct, Val(AddWords(math, k))),
              [j \in DOMAIN pool[i].val |-> (pool[i].val[j] + k) % P],
              pool[i].sound /\ (math \/ (k >= 0 /\ pool[i].ct.c0 # <<>>)), pool[i].depth)

SubInt(math, i, k) ==
    /\ MayUse({i})
    /\ Return("sub_int", <<i>>, math, k, CtAddConst(math, pool[i].ct, Val(SubWords(math, k))),
              [j \in DOMAIN pool[i].val |-> (pool[i].val[j] - k) % P],
              pool[i].sound /\ (math \/ (k >= 0 /\ pool[i].ct.c0 # <<>>)), pool[i].depth)

Divide(i, k) ==
    /\ MayUse({i})
    /\ Return("divide", <<i>>, TRUE, k, CtDivConst(pool[i].ct, Val(DivWords(k))),
              VScale(pool[i].val, FInv(k % P)), pool[i].sound /\ k >= 0, pool[i].depth)

Recrypt(i, t) ==
    /\ MayUse({i})
    /\ Return("recrypt", <<i>>, TRUE, t, CtRecrypt(pool[i].ct, t),
              pool[i].val, pool[i].sound, pool[i].depth)

RecryptReset(i, t) ==
    /\ MayUse({i})
    /\ Return("reset", <<i>>, TRUE, t, CtRecryptReset(pool[i].ct, t), pool[i].val, pool[i].sound, 0)

Roundtrip(i) ==
    /\ MayUse({i})
    /\ Return("roundtrip", <<i>>, TRUE, 0, DeserializeCipher(SerializeCipher(pool[i].ct)),
              pool[i].val, pool[i].sound, pool[i].depth)

Next ==
    \/ \E v \in Plain : (\E t \in Tapes : Encrypt(v, t)) \/ (\E t \in OldTapes : Load(v, t))
    \/ \E i, j \in DOMAIN pool :
           \/ Add(i, j) \/ Sub(i, j)
           \/ \E math \in BOOLEAN, t \in OpTapes : Mul(math, i, j, t)
    \/ \E i \in DOMAIN pool :
           \/ Roundtrip(i)
           \/ \E t \in OpTapes : Recrypt(i, t) \/ RecryptReset(i, t)
           \/ \E math \in BOOLEAN, t \in OpTapes : Square(math, i, t)
           \/ \E math \in BOOLEAN, k \in Consts :
                  Scale(math, i, k) \/ AddInt(math, i, k) \/ SubInt(math, i, k)
           \/ \E k \in Consts \cup {0} : Divide(i, k)

Spec == Init /\ [][Next]_vars

-----------------------------------------------------------------------------
(* Properties *)

\* The handle to look at: the others were the newest in an earlier state, and
\* no operation changes a handle.
Newest == {i \in DOMAIN pool : i = Len(pool)}

\* No two edges have the same layer, index and sign, so there are at most two
\* per power of g and layer, and what guard_budget and compact_edges can still
\* drop of a result are edges that say nothing.
OneEdgePerPlace(E) ==
    \A k, m \in DOMAIN E : Position(E[k]) = Position(E[m]) => k = m

\* Every handle holds a ciphertext the key accepts (is_cipher_compatible_with_pubkey),
\* with one edge per place, whatever operations, old formats and compactions it
\* went through.
CipherTypeOK ==
    \A i \in Newest :
        /\ FitsKey(pool[i].ct)
        /\ OneEdgePerPlace(pool[i].ct.E)
        /\ pool[i].val \in [1..pool[i].ct.slots -> Field]
        /\ pool[i].depth \in Nat /\ pool[i].sound \in BOOLEAN

\* A handle decrypts (dec_values) to the value of the expression it was made
\* by: encryption, arithmetic, compaction, recryption, storing and the two
\* mask functions never change or lose a term.
DecryptsRight == \A i \in Newest : pool[i].sound => DecValues(pool[i].ct) = pool[i].val

\* An operation throws only for a cause its caller can see: operands of
\* different slots, no nonzero mask in time, a zero divisor, a missing constant
\* under the prior rule, or a product with a ciphertext that has no layer.
\* In particular compact_layers, which rejects a malformed result, never does
\* so for another reason, and what was stored is always read back.
RejectsForCause ==
    last.ok \/
    LET a == pool[last.args[1]].ct
        b == pool[last.args[2]].ct
        noMask(t, S) == MaskSeed(t, S) = NoSeed
    IN  CASE last.op \in {"encrypt", "load"} ->
                 \E v \in Plain : noMask(last.k, Len(v)) \/ noMask(last.k + 1, Len(v))
          [] last.op \in {"add", "sub"} -> a.slots # b.slots
          [] last.op = "mul" ->
                 \/ a.slots # b.slots
                 \/ ~last.math /\ (a.c0 = <<>>) # (b.c0 = <<>>)
                 \/ (a.L = <<>>) # (b.L = <<>>)
          [] last.op = "divide" -> last.k = 0
          [] last.op = "recrypt" -> a.slots # 1
          [] last.op = "reset" -> noMask(last.k + 1, a.slots) \/ noMask(last.k + 2, a.slots)
          [] OTHER -> FALSE

\* cipher_mul_depth is the depth of products in the expression, as the receipts
\* of private transitions take it to be.
DepthIsExpression(h) == MulDepth(h.ct) = h.depth

\* The commitment of a product layer is the hash of the commitments of the
\* layers it names as its parents, after every move of positions.
CommitmentsFollowParents(L) ==
    \A n \in DOMAIN L : IsProd(L[n]) =>
        L[n].com \in {NoCom, <<"prod", L[L[n].pa].com, L[L[n].pb].com>>}

\* Joining and dropping layers never makes a product the product of other
\* layers: depth and commitments are still those of the expression.
LayersKeepMeaning ==
    \A i \in Newest : DepthIsExpression(pool[i]) /\ CommitmentsFollowParents(pool[i].ct.L)

\* A ciphertext that is stored and read back has the commitment (commit_ct) it
\* had, and is still bound to the key if it was.
SavedCipherReadsBack ==
    \A i \in Newest :
        LET back == DeserializeCipher(SerializeCipher(pool[i].ct))
        IN  CommitCt(back) = CommitCt(pool[i].ct) /\ KeyBound(back) = KeyBound(pool[i].ct)

\* The sum, the difference and the product of two reduced pairs of words are
\* the reduced words of the residue, whatever carries and borrows they take.  A
\* signed constant and its two words name each other, the smallest one included,
\* and the words fhe_calc.ml makes are those of fp_from_i64.
WordsAgree ==
    pool = <<>> => \A h \in HalfWords : AddRight(h) /\ MulRight(h) /\ SignedRight(h)

\* fp_inv, which decryption and division use, inverts every residue but zero,
\* for an exponent whose bits the windows do not divide.
InversesAgree ==
    pool = <<>> => \A h \in HalfWords :
        LET bits == CHOOSE n \in 1..(2 * h) : 2^n = Modulus(h) + 1
        IN  InvRight(h, bits, 3)
=============================================================================
