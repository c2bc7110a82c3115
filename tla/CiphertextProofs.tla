-------------------------- MODULE CiphertextProofs --------------------------
(***************************************************************************)
(* The invariants of Ciphertext.tla, for every field, key, set of masks    *)
(* and sequence of operations.                                             *)
(*                                                                         *)
(* CipherInv says that every handle holds a good ciphertext                *)
(* (CipherOpProofs), of the depth of its expression, and that an operation *)
(* that threw had a cause. Each action keeps it, because the operation it  *)
(* calls builds good ciphertexts of good ones.                             *)
(*                                                                         *)
(* ValInv says of every handle what DecryptsRight says of the newest: it   *)
(* decrypts to the value of its expression, unless the expression has a    *)
(* part for which the prior rule is known not to evaluate what is written. *)
(* Decryption is put as a sum in the ring of vectors: the constant, and    *)
(* for every edge its term over the mask of its layer (DecFacts). An       *)
(* operation then is an equation of such sums: merging sums by place,      *)
(* dropping layers carries the masks along, ct_mul multiplies two sums     *)
(* layer by layer (PairSum, PSumTimes), and the mask of a product layer is *)
(* the product of its parents' masks (ProdInv). CipherInv is what makes    *)
(* the equations hold: every layer an edge or a product names is there,    *)
(* below, and its mask has an inverse.                                     *)
(***************************************************************************)
EXTENDS CipherOpProofs

\* A multiple of the modulus more or less.
LEMMA ModShift ==
    ASSUME NEW x \in Int, NEW y \in Int, NEW q \in Int, x = y + q * P
    PROVE  x % P = y % P
  <1>1. PICK p \in Nat \ {0} : p = P
    BY ModulusFacts
  <1>2. ASSUME NEW z \in Int PROVE \E u \in Int, r \in 0..(p - 1) : z = u * p + r /\ z % p = r
    BY Z3
  <1>3. PICK u \in Int, r \in 0..(p - 1) : y = u * p + r /\ y % p = r
    BY <1>2
  <1>4. x = (u + q) * p + r /\ u + q \in Int
    BY <1>1, <1>3, Z3
  <1>5. x % p = r
    BY <1>4, ModUnique
  <1> QED
    BY <1>1, <1>3, <1>5

\* The words of a constant that is less than a word.
LEMMA SmallWords ==
    ASSUME NEW v \in 0..(Word(HalfWord) - 1)
    PROVE  IsReduced(HalfWord, FpOf(HalfWord, v)) /\ Val(FpOf(HalfWord, v)) = v /\ v \in Field
  <1>1. PICK h \in Nat, W \in Nat \ {0} : h = HalfWord /\ W = Word(HalfWord)
    BY ModulusFacts, ModulusPositive
  <1>2. v \in 0..(W - 1) /\ h >= 2 /\ P \in Nat /\ W <= P
    BY <1>1, ModulusFacts
  <1>3. v % W = v /\ v \div W = 0
    BY <1>2, Z3
  <1>4. PICK x : x = FpOf(h, v)
    OBVIOUS
  <1>5. x = [lo |-> v, hi |-> 0]
    BY <1>1, <1>3, <1>4 DEF FpOf
  <1>6. x.lo = v /\ x.hi = 0 /\ x \in Fp(h)
    BY <1>1, <1>2, <1>5 DEF Fp
  <1>7. Value(h, x) = v
    BY <1>1, <1>2, <1>6 DEF Value
  <1>8. v \in Field /\ v < P
    BY <1>2 DEF Field
  <1>9. IsReduced(h, x)
    BY <1>1, <1>6, <1>7, <1>8 DEF IsReduced, P
  <1> QED
    BY <1>1, <1>4, <1>7, <1>8, <1>9 DEF Val

\* The words of a signed constant and what they are worth.
WordsRight(math, k) ==
    /\ Val(ScaleWords(math, k)) \in Int /\ Val(AddWords(math, k)) \in Int
    /\ Val(SubWords(math, k)) \in Int /\ Val(DivWords(k)) \in Field
    /\ math \/ k >= 0 => /\ Val(ScaleWords(math, k)) % P = k % P
                         /\ Val(AddWords(math, k)) % P = k % P
                         /\ Val(SubWords(math, k)) % P = (-k) % P
    /\ k >= 0 => Val(DivWords(k)) = k /\ k \in Field
    /\ Val(DivWords(k)) = 0 <=> k = 0

\* For every signed word, by either rule.
LEMMA WordsFacts ==
    ASSUME NEW k \in Signed(HalfWord), NEW math \in BOOLEAN
    PROVE  WordsRight(math, k)
  <1>1. PICK h \in Nat, W \in Nat \ {0} : h = HalfWord /\ W = Word(HalfWord)
    BY ModulusFacts, ModulusPositive
  <1>2. h >= 2 /\ P \in Nat /\ P >= 3 /\ W = 2 * h /\ P = h * W - 1 /\ k \in (-h)..(h - 1)
    BY <1>1, ModulusFacts DEF Word, P, Modulus, Signed
  <1>3. PICK m : m = k % W
    OBVIOUS
  <1>4. m \in 0..(W - 1) /\ (k >= 0 => m = k) /\ (m = 0 <=> k = 0)
    BY <1>2, <1>3, Z3
  <1>5. IsReduced(h, FpOf(h, m)) /\ Val(FpOf(h, m)) = m /\ m \in Field /\ m \in Int
    BY <1>1, <1>4, SmallWords
  <1>6. ASSUME NEW v \in 0..(W - 1)
        PROVE  Val(FpNeg(h, FpOf(h, v))) \in Int /\ Val(FpNeg(h, FpOf(h, v))) % P = (-v) % P
    <2>1. IsReduced(h, FpOf(h, v)) /\ Value(h, FpOf(h, v)) = v
      BY <1>1, SmallWords DEF Val
    <2>2. PICK x : x = FpNeg(h, FpOf(h, v))
      OBVIOUS
    <2>3. IsReduced(h, x) /\ \E q \in 0..2 : Modulus(h) - v = Value(h, x) + q * Modulus(h)
      BY <1>2, <2>1, <2>2, NegValue
    <2>4. Value(h, x) \in Int
      BY <1>2, <2>3, ValueRange
    <2>5. PICK q \in 0..2 : P - v = Value(h, x) + q * P
      BY <1>1, <2>3 DEF P
    <2>6. PICK y \in Int : y = Value(h, x)
      BY <2>4
    <2>7. y = (-v) + (1 - q) * P /\ 1 - q \in Int /\ -v \in Int
      BY <1>2, <2>5, <2>6
    <2>8. y % P = (-v) % P
      BY <2>7, ModShift
    <2> QED
      BY <1>1, <2>2, <2>6, <2>8 DEF Val
  <1>7. Val(FpNeg(h, FpOf(h, m))) \in Int /\ (k >= 0 => Val(FpNeg(h, FpOf(h, m))) % P = (-k) % P)
    BY <1>4, <1>6
  <1>8. ASSUME k < 0
        PROVE  /\ -(k + 1) + 1 = -k /\ -k \in 0..(W - 1) /\ (-k) % W = -k /\ Val(FpOf(h, -k)) = -k
               /\ Val(FpNeg(h, FpOf(h, -k))) \in Int /\ Val(FpNeg(h, FpOf(h, -k))) % P = k % P
    <2>1. PICK v \in 0..(W - 1) : v = -k
      BY <1>2, <1>8
    <2>2. -(k + 1) + 1 = v /\ v % W = v /\ -v = k
      BY <1>2, <2>1, Z3
    <2>3. Val(FpOf(h, v)) = v
      BY <1>1, SmallWords
    <2>4. Val(FpNeg(h, FpOf(h, v))) \in Int /\ Val(FpNeg(h, FpOf(h, v))) % P = (-v) % P
      BY <1>6
    <2> QED
      BY <2>1, <2>2, <2>3, <2>4
  <1>9. Val(ScaleWords(math, k)) \in Int /\ (math \/ k >= 0 => Val(ScaleWords(math, k)) % P = k % P)
    <2>1. CASE ~math \/ k >= 0
      <3>1. CASE k >= 0
        <4>1. FpFromI64(h, k) = FpOf(h, m)
          BY <1>4, <3>1 DEF FpFromI64
        <4>2. ScaleWords(math, k) = FpOf(h, m)
          BY <1>1, <1>3, <4>1, Zenon DEF ScaleWords
        <4> QED
          BY <1>4, <1>5, <3>1, <4>2
      <3>2. CASE ~math
        <4>1. ScaleWords(math, k) = FpOf(h, m)
          BY <1>1, <1>3, <3>2, Zenon DEF ScaleWords
        <4> QED
          BY <1>4, <1>5, <3>2, <4>1
      <3> QED
        BY <2>1, <3>1, <3>2
    <2>2. CASE math /\ k < 0
      <3>1. ScaleWords(math, k) = FpFromI64(h, k)
        BY <1>1, <2>2, Zenon DEF ScaleWords
      <3>2. FpFromI64(h, k) = FpNeg(h, FpOf(h, -k))
        <4>1. ~(k >= 0)
          BY <1>2, <2>2
        <4>2. FpFromI64(h, k) = FpNeg(h, FpOf(h, -(k + 1) + 1))
          BY <4>1, Zenon DEF FpFromI64
        <4> QED
          BY <1>8, <2>2, <4>2
      <3> QED
        BY <1>8, <2>2, <3>1, <3>2
    <2> QED
      BY <1>2, <2>1, <2>2
  <1>10. Val(AddWords(math, k)) \in Int /\ (math \/ k >= 0 => Val(AddWords(math, k)) % P = k % P)
    <2>1. CASE ~math
      <3>1. AddWords(math, k) = FpOf(h, m)
        BY <1>1, <1>3, <2>1, Zenon DEF AddWords
      <3> QED
        BY <1>4, <1>5, <2>1, <3>1
    <2>2. CASE math /\ k >= 0
      <3>1. PICK x : x = AddWords(math, k)
        OBVIOUS
      <3>2. x = [lo |-> k, hi |-> 0]
        BY <1>1, <1>2, <2>2, <3>1 DEF AddWords, AddIntWords
      <3>3. x.lo = k /\ x.hi = 0
        BY <3>2
      <3>4. Val(x) = k
        BY <1>1, <1>2, <3>3 DEF Val, Value
      <3> QED
        BY <1>2, <3>1, <3>4
    <2>3. CASE math /\ k < 0
      <3>1. PICK x : x = AddWords(math, k)
        OBVIOUS
      <3>2. x = [lo |-> (k - 1) % W, hi |-> h - 1]
        BY <1>1, <2>3, <3>1 DEF AddWords, AddIntWords
      <3>3. (k - 1) % W = W + k - 1
        <4>1. k - 1 = (-1) * W + (W + k - 1) /\ W + k - 1 \in 0..(W - 1) /\ k - 1 \in Int /\ -1 \in Int
          BY <1>2, <2>3
        <4> QED
          BY <4>1, ModUnique
      <3>4. x.lo = W + k - 1 /\ x.hi = h - 1
        BY <3>2, <3>3
      <3>5. Val(x) = (h - 1) * W + (W + k - 1)
        BY <1>1, <3>4 DEF Val, Value
      <3>6. PICK y : y = Val(x)
        OBVIOUS
      <3>7. y = k + 1 * P /\ y \in Int
        BY <1>2, <3>5, <3>6, Z3
      <3>8. y % P = k % P
        BY <1>2, <3>7, ModShift
      <3> QED
        BY <3>1, <3>6, <3>7, <3>8
    <2> QED
      BY <1>2, <2>1, <2>2, <2>3
  <1>11. Val(SubWords(math, k)) \in Int /\ (math \/ k >= 0 => Val(SubWords(math, k)) % P = (-k) % P)
    <2>1. CASE math /\ k < 0
      <3>1. SubWords(math, k) = FpOf(h, -k)
        <4>1. SubWords(math, k) = FpOf(h, (-k) % W)
          BY <1>1, <2>1, Zenon DEF SubWords
        <4> QED
          BY <1>8, <2>1, <4>1
      <3>2. -k \in Int /\ k < 0
        BY <1>2, <2>1
      <3>3. Val(FpOf(h, -k)) = -k
        BY <1>8, <3>2, Zenon
      <3>4. Val(SubWords(math, k)) = -k
        BY <3>1, <3>3, Zenon
      <3>5. PICK y \in Int : y = -k
        BY <3>2
      <3>6. Val(SubWords(math, k)) = y
        BY <3>4, <3>5, Zenon
      <3> QED
        BY <3>5, <3>6, Zenon
    <2>2. CASE ~(math /\ k < 0)
      <3>1. SubWords(math, k) = FpNeg(h, FpOf(h, m))
        BY <1>1, <1>3, <2>2, Zenon DEF SubWords
      <3> QED
        BY <1>2, <1>7, <2>2, <3>1
    <2> QED
      BY <2>1, <2>2
  <1>12. DivWords(k) = FpOf(h, m)
    BY <1>1, <1>3, Zenon DEF DivWords
  <1>13. Val(DivWords(k)) = m
    BY <1>5, <1>12
  <1>14. Val(DivWords(k)) \in Field /\ (k >= 0 => Val(DivWords(k)) = k /\ k \in Field)
         /\ (Val(DivWords(k)) = 0 <=> k = 0)
    BY <1>4, <1>5, <1>13
  <1> QED
    BY <1>9, <1>10, <1>11, <1>14, Zenon DEF WordsRight

-----------------------------------------------------------------------------
(* The inductive invariant *)

\* What a handle is: a good ciphertext, the value it must decrypt to, the depth
\* of products it was made with.
HandleOK(ct, val, sound, depth) ==
    /\ Good(ct) /\ val \in Vec(ct.slots) /\ sound \in BOOLEAN
    /\ depth \in Nat /\ MulDepth(ct) = depth

\* Every handle of the pool is one.
PoolOK ==
    /\ IsSeq(pool)
    /\ \A i \in 1..Len(pool) : HandleOK(pool[i].ct, pool[i].val, pool[i].sound, pool[i].depth)

\* The inductive invariant of the ciphertexts.
CipherInv == PoolOK /\ RejectsForCause

\* A handle is added, or none.
LEMMA ReturnOK ==
    ASSUME PoolOK, NEW op, NEW args, NEW math, NEW k, NEW ct, NEW val, NEW sound, NEW depth,
           Return(op, args, math, k, ct, val, sound, depth),
           ~Threw(ct) => HandleOK(ct, val, sound, depth)
    PROVE  PoolOK'
  <1>1. CASE Threw(ct)
    <2>1. pool' = pool
      BY <1>1, Zenon DEF Return
    <2> QED
      BY <2>1, Zenon DEF PoolOK
  <1>2. CASE ~Threw(ct)
    <2>1. PICK x : x = [ct |-> ct, val |-> val, sound |-> sound, depth |-> depth, made |-> args # <<>>]
      OBVIOUS
    <2>2. x.ct = ct /\ x.val = val /\ x.sound = sound /\ x.depth = depth
      BY <2>1
    <2>3. pool' = Append(pool, x)
      BY <1>2, <2>1, Zenon DEF Return
    <2>4. PICK p, T : p = pool /\ T = {pool[i] : i \in 1..Len(pool)} \cup {x}
      OBVIOUS
    <2>5. IsSeq(p) /\ \A i \in 1..Len(p) : HandleOK(p[i].ct, p[i].val, p[i].sound, p[i].depth)
      BY <2>4, Zenon DEF PoolOK
    <2>6. p \in Seq(T)
      <3>1. \A i \in 1..Len(p) : p[i] \in T
        BY <2>4
      <3> QED
        BY <2>5, <3>1, IsSeqIn
    <2>7. x \in T
      BY <2>4
    <2>8. PICK q : q = Append(p, x)
      OBVIOUS
    <2>9. q \in Seq(T) /\ Len(q) = Len(p) + 1 /\ q[Len(p) + 1] = x /\ \A i \in 1..Len(p) : q[i] = p[i]
      BY <2>6, <2>7, <2>8
    <2>10. IsSeq(q)
      BY <2>9, SeqIs
    <2>11. \A i \in 1..Len(q) : i \in 1..Len(p) \/ i = Len(p) + 1
      BY <2>6, <2>9
    <2>12. \A i \in 1..Len(q) : HandleOK(q[i].ct, q[i].val, q[i].sound, q[i].depth)
      BY <1>2, <2>2, <2>5, <2>9, <2>11, Zenon
    <2> QED
      BY <2>3, <2>4, <2>8, <2>10, <2>12, Zenon DEF PoolOK
  <1> QED
    BY <1>1, <1>2

\* Nothing to explain after an operation that returned.
LEMMA ReturnCause ==
    ASSUME NEW op, NEW args, NEW math, NEW k, NEW ct, NEW val, NEW sound, NEW depth,
           Return(op, args, math, k, ct, val, sound, depth)
    PROVE  /\ ~Threw(ct) => RejectsForCause'
           /\ Threw(ct) => pool' = pool
           /\ last'.op = op /\ last'.args = args /\ last'.math = math /\ last'.k = k
  <1>1. last' = [op |-> op, args |-> args, math |-> math, k |-> k, ok |-> ~Threw(ct)]
    BY Zenon DEF Return
  <1>2. PICK l : l = last'
    OBVIOUS
  <1>3. l.op = op /\ l.args = args /\ l.math = math /\ l.k = k /\ (l.ok <=> ~Threw(ct))
    BY <1>1, <1>2
  <1>4. ~Threw(ct) => RejectsForCause'
    BY <1>2, <1>3, Zenon DEF RejectsForCause
  <1>5. Threw(ct) => pool' = pool
    BY Zenon DEF Return
  <1> QED
    BY <1>2, <1>3, <1>4, <1>5

\* The handles of the pool.
LEMMA Handle ==
    ASSUME PoolOK, NEW i \in DOMAIN pool
    PROVE  /\ i \in 1..Len(pool) /\ Good(pool[i].ct) /\ pool[i].val \in Vec(pool[i].ct.slots)
           /\ pool[i].sound \in BOOLEAN /\ pool[i].depth \in Nat
           /\ MulDepth(pool[i].ct) = pool[i].depth
           /\ pool[i].ct.slots \in Nat /\ pool[i].ct.slots \in Slots
  <1>1. DOMAIN pool = 1..Len(pool)
    BY FnSeq DEF PoolOK, IsSeq
  <1>2. i \in 1..Len(pool)
    BY <1>1
  <1>3. HandleOK(pool[i].ct, pool[i].val, pool[i].sound, pool[i].depth)
    BY <1>2, Zenon DEF PoolOK
  <1>4. PICK c : c = pool[i].ct
    OBVIOUS
  <1>5. ShapeOK(c)
    BY <1>3, <1>4, Zenon DEF HandleOK, Good
  <1>6. c.slots \in Nat /\ c.slots \in Slots
    BY <1>5, ShapeParts
  <1> QED
    BY <1>2, <1>3, <1>4, <1>6, Zenon DEF HandleOK

\* A value a caller encrypts.
LEMMA PlainFacts ==
    ASSUME NEW v \in Plain
    PROVE  Len(v) \in Slots /\ v \in Vec(Len(v)) /\ Len(v) \in Nat
  <1>1. v \in Seq(Field) /\ v # <<>>
    BY CallerAssumption
  <1>2. Len(v) \in Slots
    BY DEF Slots
  <1>3. v \in [1..Len(v) -> Field] /\ Len(v) \in Nat
    BY <1>1
  <1> QED
    BY <1>2, <1>3 DEF Vec

\* Encryption keeps the invariant.
LEMMA EncryptStep ==
    ASSUME CipherInv, NEW v \in Plain, NEW t \in Nat, Encrypt(v, t)
    PROVE  CipherInv'
  <1>1. PoolOK
    BY DEF CipherInv
  <1>2. Return("encrypt", <<>>, TRUE, t, EncValues(v, t), v, TRUE, 0)
    BY Zenon DEF Encrypt
  <1>3. PICK S, c : S \in Slots /\ S = Len(v) /\ c = EncValues(v, t)
    BY PlainFacts
  <1>4. v \in Vec(S)
    BY <1>3, PlainFacts
  <1>5. IF NoMask(t, S) THEN Threw(c) ELSE FreshRight(c, S)
    BY <1>3, <1>4, EncFacts
  <1>6. ~Threw(c) => HandleOK(c, v, TRUE, 0)
    <2>1. ~Threw(c) => FreshRight(c, S)
      BY <1>5, Zenon
    <2>2. 0 \in Nat /\ TRUE \in BOOLEAN
      OBVIOUS
    <2> QED
      BY <1>4, <2>1, <2>2, Zenon DEF HandleOK, FreshRight
  <1>7. PoolOK'
    BY <1>1, <1>2, <1>3, <1>6, ReturnOK
  <1>8. /\ ~Threw(c) => RejectsForCause'
        /\ last'.op = "encrypt" /\ last'.k = t
    BY <1>2, <1>3, ReturnCause
  <1>9. Threw(c) => NoMask(t, Len(v))
    BY <1>3, <1>5, Zenon DEF FreshRight
  <1>10. Threw(c) => RejectsForCause'
    BY <1>8, <1>9 DEF NoMask, RejectsForCause
  <1> QED
    BY <1>7, <1>8, <1>10 DEF CipherInv

\* Reading what an earlier program stored keeps the invariant.
LEMMA LoadStep ==
    ASSUME CipherInv, NEW v \in Plain, NEW t \in Nat, Load(v, t)
    PROVE  CipherInv'
  <1>1. PoolOK
    BY DEF CipherInv
  <1>2. PICK bytes \in Stored(v, t) : Return("load", <<>>, TRUE, t, DeserializeCipher(bytes), v, TRUE, 0)
    BY Zenon DEF Load
  <1>3. PICK S, c : S \in Slots /\ S = Len(v) /\ c = DeserializeCipher(bytes)
    BY PlainFacts
  <1>4. v \in Vec(S)
    BY <1>3, PlainFacts
  <1>5. LoadRight(v, t, bytes)
    BY <1>3, <1>4, LoadFacts
  <1>6. ~Threw(c) => HandleOK(c, v, TRUE, 0)
    <2>1. ~Threw(c) => Good(c) /\ c.slots = S /\ MulDepth(c) = 0
      BY <1>3, <1>5, Zenon DEF LoadRight
    <2>2. 0 \in Nat /\ TRUE \in BOOLEAN
      OBVIOUS
    <2> QED
      BY <1>4, <2>1, <2>2, Zenon DEF HandleOK
  <1>7. PoolOK'
    BY <1>1, <1>2, <1>3, <1>6, ReturnOK
  <1>8. /\ ~Threw(c) => RejectsForCause'
        /\ last'.op = "load" /\ last'.k = t
    BY <1>2, <1>3, ReturnCause
  <1>9. Threw(c) => NoMask(t, Len(v))
    BY <1>3, <1>5, Zenon DEF LoadRight
  <1>10. Threw(c) => RejectsForCause'
    BY <1>8, <1>9 DEF NoMask, RejectsForCause
  <1> QED
    BY <1>7, <1>8, <1>10 DEF CipherInv

\* The depth of the expression is that of the ciphertexts.
LEMMA DeeperFacts ==
    ASSUME PoolOK, NEW i \in DOMAIN pool, NEW j \in DOMAIN pool
    PROVE  /\ Deeper(i, j) \in Nat /\ ProductDepth(i, j) \in Nat
           /\ Deeper(i, j) = Max({MulDepth(pool[i].ct), MulDepth(pool[j].ct)})
           /\ ProductDepth(i, j) = IF pool[i].ct.L = <<>> \/ pool[j].ct.L = <<>> THEN 0
                                   ELSE Max({MulDepth(pool[i].ct), MulDepth(pool[j].ct)}) + 1
  <1>1. PICK x \in Nat, y \in Nat : /\ x = pool[i].depth /\ y = pool[j].depth
                                    /\ x = MulDepth(pool[i].ct) /\ y = MulDepth(pool[j].ct)
    BY Handle
  <1>2. Max({x, y}) \in Nat
    BY MaxTwo
  <1>3. Deeper(i, j) = Max({x, y})
    BY <1>1, Zenon DEF Deeper
  <1>4. ProductDepth(i, j) = IF pool[i].ct.L = <<>> \/ pool[j].ct.L = <<>> THEN 0 ELSE Deeper(i, j) + 1
    BY Zenon DEF ProductDepth
  <1>5. PICK m \in Nat : m = Max({x, y})
    BY <1>2
  <1>6. ProductDepth(i, j) = IF pool[i].ct.L = <<>> \/ pool[j].ct.L = <<>> THEN 0 ELSE m + 1
    BY <1>3, <1>4, <1>5, Zenon
  <1>7. m + 1 \in Nat /\ 0 \in Nat
    OBVIOUS
  <1>8. ProductDepth(i, j) \in Nat
    BY <1>6, <1>7, Zenon
  <1> QED
    BY <1>1, <1>3, <1>5, <1>6, <1>8, Zenon

\* The values of two operands of as many slots.
LEMMA PairValues ==
    ASSUME PoolOK, NEW i \in DOMAIN pool, NEW j \in DOMAIN pool, pool[i].ct.slots = pool[j].ct.slots
    PROVE  /\ VAdd(pool[i].val, pool[j].val) \in Vec(pool[i].ct.slots)
           /\ VSub(pool[i].val, pool[j].val) \in Vec(pool[i].ct.slots)
           /\ VMul(pool[i].val, pool[j].val) \in Vec(pool[i].ct.slots)
           /\ (pool[i].sound /\ pool[j].sound) \in BOOLEAN
  <1>1. PICK S \in Nat : S = pool[i].ct.slots
    BY Handle
  <1>2. PICK v \in Vec(S), w \in Vec(S) : v = pool[i].val /\ w = pool[j].val
    BY <1>1, Handle
  <1>3. 0 \in Int
    OBVIOUS
  <1>4. VAdd(v, w) \in Vec(S) /\ VSub(v, w) \in Vec(S) /\ VMul(v, w) \in Vec(S)
    BY <1>3, VecOps, Zenon
  <1>5. (pool[i].sound /\ pool[j].sound) \in BOOLEAN
    OBVIOUS
  <1> QED
    BY <1>1, <1>2, <1>4, <1>5, Zenon

\* ct_add keeps the invariant.
LEMMA AddStep ==
    ASSUME CipherInv, NEW i \in DOMAIN pool, NEW j \in DOMAIN pool, Add(i, j)
    PROVE  CipherInv'
  <1>1. PoolOK
    BY DEF CipherInv
  <1>2. PICK a, b, c : a = pool[i].ct /\ b = pool[j].ct /\ c = CtAdd(a, b)
    OBVIOUS
  <1>3. PICK val, sound : /\ val = IF a.slots = b.slots THEN VAdd(pool[i].val, pool[j].val) ELSE <<>>
                          /\ sound = (pool[i].sound /\ pool[j].sound)
    OBVIOUS
  <1>4. Return("add", <<i, j>>, TRUE, 0, c, val, sound, Deeper(i, j))
    BY <1>2, <1>3, Zenon DEF Add
  <1>5. Good(a) /\ Good(b)
    BY <1>1, <1>2, Handle
  <1>6. a.slots # b.slots => c = NoCipher
    BY <1>2, Zenon DEF CtAdd
  <1>7. ASSUME a.slots = b.slots PROVE HandleOK(c, val, sound, Deeper(i, j)) /\ ~Threw(c)
    <2>1. Good(c) /\ c.slots = a.slots /\ ~Threw(c) /\ MulDepth(c) = Max({MulDepth(a), MulDepth(b)})
      BY <1>2, <1>5, <1>7, AddGood
    <2>2. val \in Vec(a.slots) /\ sound \in BOOLEAN
      BY <1>1, <1>2, <1>3, <1>7, PairValues
    <2>3. Deeper(i, j) \in Nat /\ Deeper(i, j) = Max({MulDepth(a), MulDepth(b)})
      BY <1>1, <1>2, DeeperFacts
    <2> QED
      BY <2>1, <2>2, <2>3, Zenon DEF HandleOK
  <1>8. ~Threw(c) => HandleOK(c, val, sound, Deeper(i, j))
    BY <1>6, <1>7, ThrewNo, Zenon
  <1>9. PoolOK'
    BY <1>1, <1>4, <1>8, ReturnOK
  <1>10. /\ ~Threw(c) => RejectsForCause'
         /\ Threw(c) => pool' = pool
         /\ last'.op = "add" /\ last'.args = <<i, j>>
    BY <1>4, ReturnCause
  <1>11. Threw(c) => a.slots # b.slots
    BY <1>7
  <1>12. ASSUME Threw(c) PROVE RejectsForCause'
    <2>1. PICK l, p : l = last' /\ p = pool'
      OBVIOUS
    <2>2. p = pool /\ l.op = "add" /\ l.args[1] = i /\ l.args[2] = j
      BY <1>10, <1>12, <2>1
    <2>3. p[l.args[1]].ct.slots # p[l.args[2]].ct.slots
      BY <1>2, <1>11, <1>12, <2>2
    <2> QED
      BY <2>1, <2>2, <2>3 DEF RejectsForCause
  <1> QED
    BY <1>9, <1>10, <1>12 DEF CipherInv

\* ct_sub keeps the invariant.
LEMMA SubStep ==
    ASSUME CipherInv, NEW i \in DOMAIN pool, NEW j \in DOMAIN pool, Sub(i, j)
    PROVE  CipherInv'
  <1>1. PoolOK
    BY DEF CipherInv
  <1>2. PICK a, b, c : a = pool[i].ct /\ b = pool[j].ct /\ c = CtSub(a, b)
    OBVIOUS
  <1>3. PICK val, sound : /\ val = IF a.slots = b.slots THEN VSub(pool[i].val, pool[j].val) ELSE <<>>
                          /\ sound = (pool[i].sound /\ pool[j].sound)
    OBVIOUS
  <1>4. Return("sub", <<i, j>>, TRUE, 0, c, val, sound, Deeper(i, j))
    BY <1>2, <1>3, Zenon DEF Sub
  <1>5. Good(a) /\ Good(b)
    BY <1>1, <1>2, Handle
  <1>6. a.slots # b.slots => c = NoCipher
    <2>1. PICK y : y = CtScale(b, P - 1)
      OBVIOUS
    <2>2. y.slots = b.slots
      <3>1. P - 1 \in Int
        BY ModulusFacts
      <3>2. Alike(b, y)
        BY <1>5, <2>1, <3>1, ScaleGood
      <3> QED
        BY <3>2, Zenon DEF Alike
    <2>3. c = CtAdd(a, y)
      BY <1>2, <2>1, Zenon DEF CtSub
    <2> QED
      BY <2>2, <2>3, Zenon DEF CtAdd
  <1>7. ASSUME a.slots = b.slots PROVE HandleOK(c, val, sound, Deeper(i, j)) /\ ~Threw(c)
    <2>1. Good(c) /\ c.slots = a.slots /\ ~Threw(c) /\ MulDepth(c) = Max({MulDepth(a), MulDepth(b)})
      BY <1>2, <1>5, <1>7, SubGood
    <2>2. val \in Vec(a.slots) /\ sound \in BOOLEAN
      BY <1>1, <1>2, <1>3, <1>7, PairValues
    <2>3. Deeper(i, j) \in Nat /\ Deeper(i, j) = Max({MulDepth(a), MulDepth(b)})
      BY <1>1, <1>2, DeeperFacts
    <2> QED
      BY <2>1, <2>2, <2>3, Zenon DEF HandleOK
  <1>8. ~Threw(c) => HandleOK(c, val, sound, Deeper(i, j))
    BY <1>6, <1>7, ThrewNo, Zenon
  <1>9. PoolOK'
    BY <1>1, <1>4, <1>8, ReturnOK
  <1>10. /\ ~Threw(c) => RejectsForCause'
         /\ Threw(c) => pool' = pool
         /\ last'.op = "sub" /\ last'.args = <<i, j>>
    BY <1>4, ReturnCause
  <1>11. Threw(c) => a.slots # b.slots
    BY <1>7
  <1>12. ASSUME Threw(c) PROVE RejectsForCause'
    <2>1. PICK l, p : l = last' /\ p = pool'
      OBVIOUS
    <2>2. p = pool /\ l.op = "sub" /\ l.args[1] = i /\ l.args[2] = j
      BY <1>10, <1>12, <2>1
    <2>3. p[l.args[1]].ct.slots # p[l.args[2]].ct.slots
      BY <1>2, <1>11, <1>12, <2>2
    <2> QED
      BY <2>1, <2>2, <2>3 DEF RejectsForCause
  <1> QED
    BY <1>9, <1>10, <1>12 DEF CipherInv

\* ct_mul keeps the invariant.
LEMMA MulStep ==
    ASSUME CipherInv, NEW i \in DOMAIN pool, NEW j \in DOMAIN pool, NEW math \in BOOLEAN, NEW t \in Nat,
           Mul(math, i, j, t)
    PROVE  CipherInv'
  <1>1. PoolOK
    BY DEF CipherInv
  <1>2. PICK a, b, c : a = pool[i].ct /\ b = pool[j].ct /\ c = CtMul(math, a, b, t)
    OBVIOUS
  <1>3. PICK val, sound : /\ val = IF a.slots = b.slots THEN VMul(pool[i].val, pool[j].val) ELSE <<>>
                          /\ sound = (pool[i].sound /\ pool[j].sound)
    OBVIOUS
  <1>4. Return("mul", <<i, j>>, math, t, c, val, sound, ProductDepth(i, j))
    BY <1>2, <1>3, Zenon DEF Mul
  <1>5. Good(a) /\ Good(b)
    BY <1>1, <1>2, Handle
  <1>6. MulDone(math, a, b, t)
    BY <1>5, MulFacts
  <1>7. ASSUME ~Threw(c) PROVE HandleOK(c, val, sound, ProductDepth(i, j))
    <2>1. /\ Good(c) /\ c.slots = a.slots /\ a.slots = b.slots
          /\ MulDepth(c) = IF a.L = <<>> \/ b.L = <<>> THEN 0 ELSE Max({MulDepth(a), MulDepth(b)}) + 1
      BY <1>2, <1>6, <1>7, Zenon DEF MulDone
    <2>2. val \in Vec(a.slots) /\ sound \in BOOLEAN
      BY <1>1, <1>2, <1>3, <2>1, PairValues
    <2>3. ProductDepth(i, j) \in Nat
          /\ ProductDepth(i, j) = IF a.L = <<>> \/ b.L = <<>> THEN 0 ELSE Max({MulDepth(a), MulDepth(b)}) + 1
      BY <1>1, <1>2, DeeperFacts, Zenon
    <2>4. MulDepth(c) = ProductDepth(i, j) /\ ProductDepth(i, j) \in Nat /\ Good(c) /\ c.slots = a.slots
      BY <2>1, <2>3
    <2> QED
      BY <2>2, <2>4, Zenon DEF HandleOK
  <1>8. PoolOK'
    BY <1>1, <1>4, <1>7, ReturnOK
  <1>9. /\ ~Threw(c) => RejectsForCause'
        /\ Threw(c) => pool' = pool
        /\ last'.op = "mul" /\ last'.args = <<i, j>> /\ last'.math = math
    BY <1>4, ReturnCause
  <1>10. ASSUME Threw(c) PROVE RejectsForCause'
    <2>1. PICK l, p, x, y : l = last' /\ p = pool' /\ x = p[l.args[1]].ct /\ y = p[l.args[2]].ct
      OBVIOUS
    <2>2. p = pool /\ l.op = "mul" /\ l.args[1] = i /\ l.args[2] = j /\ l.math = math
      BY <1>9, <1>10, <2>1
    <2>3. x = a /\ y = b
      BY <1>2, <2>1, <2>2
    <2>4. \/ x.slots # y.slots
          \/ ~l.math /\ (x.c0 = <<>>) # (y.c0 = <<>>)
          \/ (x.L = <<>>) # (y.L = <<>>)
      BY <1>2, <1>6, <1>10, <2>2, <2>3, Zenon DEF MulDone
    <2> QED
      BY <2>1, <2>2, <2>4 DEF RejectsForCause
  <1> QED
    BY <1>8, <1>9, <1>10 DEF CipherInv

\* An operation on one handle that returns a handle.
LEMMA OneStep ==
    ASSUME PoolOK, NEW op, NEW args, NEW math, NEW k, NEW ct, NEW val, NEW sound, NEW depth,
           Return(op, args, math, k, ct, val, sound, depth), ~Threw(ct), HandleOK(ct, val, sound, depth)
    PROVE  CipherInv'
  <1>1. PoolOK'
    BY ReturnOK
  <1>2. RejectsForCause'
    BY ReturnCause
  <1> QED
    BY <1>1, <1>2 DEF CipherInv

\* ct_square keeps the invariant.
LEMMA SquareStep ==
    ASSUME CipherInv, NEW i \in DOMAIN pool, NEW math \in BOOLEAN, NEW t \in Nat, Square(math, i, t)
    PROVE  CipherInv'
  <1>1. PoolOK
    BY DEF CipherInv
  <1>2. PICK a, c, val, sound : /\ a = pool[i].ct /\ c = CtSquare(math, a, t)
                                /\ val = VMul(pool[i].val, pool[i].val) /\ sound = pool[i].sound
    OBVIOUS
  <1>3. Return("square", <<i>>, math, t, c, val, sound, ProductDepth(i, i))
    BY <1>2, Zenon DEF Square
  <1>4. Good(a) /\ sound \in BOOLEAN
    BY <1>1, <1>2, Handle
  <1>5. SquareRight(math, a, t)
    BY <1>4, SquareFacts
  <1>6. Good(c) /\ c.slots = a.slots /\ ~Threw(c) /\ MulDepth(c) = IF a.L = <<>> THEN 0 ELSE MulDepth(a) + 1
    BY <1>2, <1>5, Zenon DEF SquareRight
  <1>7. val \in Vec(a.slots)
    BY <1>1, <1>2, PairValues
  <1>8. ProductDepth(i, i) \in Nat /\ ProductDepth(i, i) = MulDepth(c)
    <2>1. PICK x \in Nat : x = MulDepth(a)
      BY <1>1, <1>2, Handle
    <2>2. Max({x, x}) = x
      BY MaxTwo
    <2>3. ProductDepth(i, i) \in Nat
          /\ ProductDepth(i, i) = IF a.L = <<>> \/ a.L = <<>> THEN 0 ELSE Max({MulDepth(a), MulDepth(a)}) + 1
      BY <1>1, <1>2, DeeperFacts, Zenon
    <2> QED
      BY <1>6, <2>1, <2>2, <2>3, Zenon
  <1>9. HandleOK(c, val, sound, ProductDepth(i, i))
    BY <1>4, <1>6, <1>7, <1>8, Zenon DEF HandleOK
  <1> QED
    BY <1>1, <1>3, <1>6, <1>9, OneStep

\* ct_scale keeps the invariant.
LEMMA ScaleStep ==
    ASSUME CipherInv, NEW i \in DOMAIN pool, NEW math \in BOOLEAN, NEW k \in Consts, Scale(math, i, k)
    PROVE  CipherInv'
  <1>1. PoolOK
    BY DEF CipherInv
  <1>2. PICK a, v, c, val, sound, depth :
            /\ a = pool[i].ct /\ v = pool[i].val /\ c = CtScale(a, Val(ScaleWords(math, k)))
            /\ val = VScale(v, k % P) /\ sound = (pool[i].sound /\ (math \/ k >= 0))
            /\ depth = pool[i].depth
    OBVIOUS
  <1>3. Return("scale", <<i>>, math, k, c, val, sound, depth)
    BY <1>2, Zenon DEF Scale
  <1>4. /\ Good(a) /\ v \in Vec(a.slots) /\ depth \in Nat /\ MulDepth(a) = depth /\ a.slots \in Nat
        /\ pool[i].sound \in BOOLEAN
    BY <1>1, <1>2, Handle
  <1>5. sound \in BOOLEAN
    BY <1>2, <1>4
  <1>6. Alike(a, c)
    <2>1. k \in Signed(HalfWord)
      BY CallerAssumption
    <2>2. WordsRight(math, k)
      BY <2>1, WordsFacts
    <2>3. PICK x \in Int : x = Val(ScaleWords(math, k))
      BY <2>2, Zenon DEF WordsRight
    <2> QED
      BY <1>2, <1>4, <2>3, ScaleGood
  <1>7. val \in Vec(a.slots)
    <2>1. k \in Int
      BY CallerAssumption, ModulusFacts DEF Signed
    <2>2. k % P \in Int
      BY <2>1, ModField
    <2> QED
      BY <1>2, <1>4, <2>2, VecOps
  <1>8. HandleOK(c, val, sound, depth) /\ ~Threw(c)
    BY <1>4, <1>5, <1>6, <1>7, Zenon DEF HandleOK, Alike
  <1> QED
    BY <1>1, <1>3, <1>8, OneStep

\* Adding a constant keeps the invariant.
LEMMA AddIntStep ==
    ASSUME CipherInv, NEW i \in DOMAIN pool, NEW math \in BOOLEAN, NEW k \in Consts, AddInt(math, i, k)
    PROVE  CipherInv'
  <1>1. PoolOK
    BY DEF CipherInv
  <1>2. PICK a, v, c, val, sound, depth :
            /\ a = pool[i].ct /\ v = pool[i].val /\ c = CtAddConst(math, a, Val(AddWords(math, k)))
            /\ val = [j \in DOMAIN v |-> (v[j] + k) % P] /\ sound = (pool[i].sound /\ (math \/ (k >= 0 /\ a.c0 # <<>>)))
            /\ depth = pool[i].depth
    OBVIOUS
  <1>3. Return("add_int", <<i>>, math, k, c, val, sound, depth)
    BY <1>2, Zenon DEF AddInt
  <1>4. /\ Good(a) /\ v \in Vec(a.slots) /\ depth \in Nat /\ MulDepth(a) = depth /\ a.slots \in Nat
        /\ pool[i].sound \in BOOLEAN
    BY <1>1, <1>2, Handle
  <1>5. sound \in BOOLEAN
    BY <1>2, <1>4
  <1>6. Alike(a, c)
    <2>1. k \in Signed(HalfWord)
      BY CallerAssumption
    <2>2. WordsRight(math, k)
      BY <2>1, WordsFacts
    <2>3. PICK x \in Int : x = Val(AddWords(math, k))
      BY <2>2, Zenon DEF WordsRight
    <2> QED
      BY <1>2, <1>4, <2>3, AddConstGood
  <1>7. val \in Vec(a.slots)
    <2>1. DOMAIN v = 1..a.slots /\ \A j \in 1..a.slots : v[j] \in Int
      BY <1>4, VecFacts
    <2>2. k \in Int
      BY CallerAssumption, ModulusFacts DEF Signed
    <2>3. \A j \in 1..a.slots : v[j] + k \in Int
      BY <2>1, <2>2
    <2>4. \A j \in 1..a.slots : (v[j] + k) % P \in Field
      BY <2>3, ModField
    <2>5. val = [j \in 1..a.slots |-> (v[j] + k) % P]
      BY <1>2, <2>1, Zenon
    <2> QED
      BY <2>4, <2>5, Zenon DEF Vec
  <1>8. HandleOK(c, val, sound, depth) /\ ~Threw(c)
    BY <1>4, <1>5, <1>6, <1>7, Zenon DEF HandleOK, Alike
  <1> QED
    BY <1>1, <1>3, <1>8, OneStep

\* Subtracting a constant keeps the invariant.
LEMMA SubIntStep ==
    ASSUME CipherInv, NEW i \in DOMAIN pool, NEW math \in BOOLEAN, NEW k \in Consts, SubInt(math, i, k)
    PROVE  CipherInv'
  <1>1. PoolOK
    BY DEF CipherInv
  <1>2. PICK a, v, c, val, sound, depth :
            /\ a = pool[i].ct /\ v = pool[i].val /\ c = CtAddConst(math, a, Val(SubWords(math, k)))
            /\ val = [j \in DOMAIN v |-> (v[j] - k) % P] /\ sound = (pool[i].sound /\ (math \/ (k >= 0 /\ a.c0 # <<>>)))
            /\ depth = pool[i].depth
    OBVIOUS
  <1>3. Return("sub_int", <<i>>, math, k, c, val, sound, depth)
    BY <1>2, Zenon DEF SubInt
  <1>4. /\ Good(a) /\ v \in Vec(a.slots) /\ depth \in Nat /\ MulDepth(a) = depth /\ a.slots \in Nat
        /\ pool[i].sound \in BOOLEAN
    BY <1>1, <1>2, Handle
  <1>5. sound \in BOOLEAN
    BY <1>2, <1>4
  <1>6. Alike(a, c)
    <2>1. k \in Signed(HalfWord)
      BY CallerAssumption
    <2>2. WordsRight(math, k)
      BY <2>1, WordsFacts
    <2>3. PICK x \in Int : x = Val(SubWords(math, k))
      BY <2>2, Zenon DEF WordsRight
    <2> QED
      BY <1>2, <1>4, <2>3, AddConstGood
  <1>7. val \in Vec(a.slots)
    <2>1. DOMAIN v = 1..a.slots /\ \A j \in 1..a.slots : v[j] \in Int
      BY <1>4, VecFacts
    <2>2. k \in Int
      BY CallerAssumption, ModulusFacts DEF Signed
    <2>3. \A j \in 1..a.slots : v[j] - k \in Int
      BY <2>1, <2>2
    <2>4. \A j \in 1..a.slots : (v[j] - k) % P \in Field
      BY <2>3, ModField
    <2>5. val = [j \in 1..a.slots |-> (v[j] - k) % P]
      BY <1>2, <2>1, Zenon
    <2> QED
      BY <2>4, <2>5, Zenon DEF Vec
  <1>8. HandleOK(c, val, sound, depth) /\ ~Threw(c)
    BY <1>4, <1>5, <1>6, <1>7, Zenon DEF HandleOK, Alike
  <1> QED
    BY <1>1, <1>3, <1>8, OneStep

\* Storing and reading back keeps the invariant.
LEMMA RoundtripStep ==
    ASSUME CipherInv, NEW i \in DOMAIN pool, Roundtrip(i)
    PROVE  CipherInv'
  <1>1. PoolOK
    BY DEF CipherInv
  <1>2. PICK a, v, c, val, sound, depth :
            /\ a = pool[i].ct /\ v = pool[i].val /\ c = DeserializeCipher(SerializeCipher(a))
            /\ val = v /\ sound = pool[i].sound
            /\ depth = pool[i].depth
    OBVIOUS
  <1>3. Return("roundtrip", <<i>>, TRUE, 0, c, val, sound, depth)
    BY <1>2, Zenon DEF Roundtrip
  <1>4. /\ Good(a) /\ v \in Vec(a.slots) /\ depth \in Nat /\ MulDepth(a) = depth /\ a.slots \in Nat
        /\ pool[i].sound \in BOOLEAN
    BY <1>1, <1>2, Handle
  <1>5. sound \in BOOLEAN
    BY <1>2, <1>4
  <1>6. Alike(a, c)
    <2>1. SavedRight(a)
      BY <1>4, SavedFacts
    <2> QED
      BY <1>2, <2>1, Zenon DEF SavedRight
  <1>7. val \in Vec(a.slots)
    BY <1>2, <1>4
  <1>8. HandleOK(c, val, sound, depth) /\ ~Threw(c)
    BY <1>4, <1>5, <1>6, <1>7, Zenon DEF HandleOK, Alike
  <1> QED
    BY <1>1, <1>3, <1>8, OneStep

\* Division by a constant keeps the invariant.
LEMMA DivideStep ==
    ASSUME CipherInv, NEW i \in DOMAIN pool, NEW k \in Consts \cup {0}, Divide(i, k)
    PROVE  CipherInv'
  <1>1. PoolOK
    BY DEF CipherInv
  <1>2. PICK a, v, x, c, val, sound, depth :
            /\ a = pool[i].ct /\ v = pool[i].val /\ x = Val(DivWords(k)) /\ c = CtDivConst(a, x)
            /\ val = VScale(v, FInv(k % P)) /\ sound = (pool[i].sound /\ k >= 0)
            /\ depth = pool[i].depth
    OBVIOUS
  <1>3. Return("divide", <<i>>, TRUE, k, c, val, sound, depth)
    BY <1>2, Zenon DEF Divide
  <1>4. /\ Good(a) /\ v \in Vec(a.slots) /\ depth \in Nat /\ MulDepth(a) = depth /\ a.slots \in Nat
        /\ pool[i].sound \in BOOLEAN
    BY <1>1, <1>2, Handle
  <1>5. sound \in BOOLEAN
    BY <1>2, <1>4
  <1>6. k \in Signed(HalfWord) /\ k \in Int
    BY CallerAssumption, ModulusFacts DEF Signed
  <1>7. WordsRight(TRUE, k)
    BY <1>6, WordsFacts
  <1>8. x \in Field /\ (x = 0 <=> k = 0)
    BY <1>2, <1>7, Zenon DEF WordsRight
  <1>9. (x = 0 <=> Threw(c)) /\ (x # 0 => Alike(a, c))
    BY <1>2, <1>4, <1>8, DivConstGood
  <1>10. val \in Vec(a.slots)
    <2>1. k % P \in Field
      BY <1>6, ModField
    <2>2. FInv(k % P) \in Field
      BY <2>1, InvFacts
    <2>3. PICK y \in Field : y = FInv(k % P)
      BY <2>2, Zenon
    <2>4. y \in Int
      BY ModulusFacts
    <2>5. VScale(v, y) \in Vec(a.slots)
      BY <1>4, <2>4, VecOps
    <2> QED
      BY <1>2, <2>3, <2>5, Zenon
  <1>11. ~Threw(c) => HandleOK(c, val, sound, depth)
    BY <1>4, <1>5, <1>9, <1>10, Zenon DEF HandleOK, Alike
  <1>12. PoolOK'
    BY <1>1, <1>3, <1>11, ReturnOK
  <1>13. /\ ~Threw(c) => RejectsForCause'
         /\ last'.op = "divide" /\ last'.k = k
    BY <1>3, ReturnCause
  <1>14. Threw(c) => RejectsForCause'
    BY <1>8, <1>9, <1>13 DEF RejectsForCause
  <1> QED
    BY <1>12, <1>13, <1>14 DEF CipherInv

\* recrypt keeps the invariant.
LEMMA RecryptStep ==
    ASSUME CipherInv, NEW i \in DOMAIN pool, NEW t \in Nat, Recrypt(i, t)
    PROVE  CipherInv'
  <1>1. PoolOK
    BY DEF CipherInv
  <1>2. PICK a, v, c, sound, depth :
            /\ a = pool[i].ct /\ v = pool[i].val /\ c = CtRecrypt(a, t) /\ sound = pool[i].sound
            /\ depth = pool[i].depth
    OBVIOUS
  <1>3. Return("recrypt", <<i>>, TRUE, t, c, v, sound, depth)
    BY <1>2, Zenon DEF Recrypt
  <1>4. /\ Good(a) /\ v \in Vec(a.slots) /\ depth \in Nat /\ MulDepth(a) = depth
        /\ sound \in BOOLEAN
    BY <1>1, <1>2, Handle
  <1>5. (Threw(c) /\ a.slots # 1) \/ Alike(a, c)
    BY <1>2, <1>4, RecryptFacts DEF RecryptIs, Recrypted
  <1>6. ~Threw(c) => HandleOK(c, v, sound, depth)
    BY <1>4, <1>5, Zenon DEF HandleOK, Alike
  <1>7. PoolOK'
    BY <1>1, <1>3, <1>6, ReturnOK
  <1>8. /\ ~Threw(c) => RejectsForCause'
        /\ Threw(c) => pool' = pool
        /\ last'.op = "recrypt" /\ last'.args = <<i>>
    BY <1>3, ReturnCause
  <1>9. Threw(c) => a.slots # 1
    BY <1>5 DEF Alike
  <1>10. ASSUME Threw(c) PROVE RejectsForCause'
    <2>1. PICK l, p : l = last' /\ p = pool'
      OBVIOUS
    <2>2. p = pool /\ l.op = "recrypt" /\ l.args[1] = i
      BY <1>8, <1>10, <2>1
    <2>3. p[l.args[1]].ct.slots # 1
      BY <1>2, <1>9, <1>10, <2>2
    <2> QED
      BY <2>1, <2>2, <2>3 DEF RejectsForCause
  <1> QED
    BY <1>7, <1>8, <1>10 DEF CipherInv

\* ct_recrypt_reset keeps the invariant.
LEMMA ResetStep ==
    ASSUME CipherInv, NEW i \in DOMAIN pool, NEW t \in Nat, RecryptReset(i, t)
    PROVE  CipherInv'
  <1>1. PoolOK
    BY DEF CipherInv
  <1>2. PICK a, v, c, sound :
            a = pool[i].ct /\ v = pool[i].val /\ c = CtRecryptReset(a, t) /\ sound = pool[i].sound
    OBVIOUS
  <1>3. Return("reset", <<i>>, TRUE, t, c, v, sound, 0)
    BY <1>2, Zenon DEF RecryptReset
  <1>4. Good(a) /\ v \in Vec(a.slots) /\ sound \in BOOLEAN /\ 0 \in Nat
    BY <1>1, <1>2, Handle
  <1>5. ResetRight(a, t) /\ SeedsRight(a, t)
    BY <1>4, ResetFacts, SeedsFacts DEF Good
  <1>6. ~Threw(c) => Good(c) /\ c.slots = a.slots /\ MulDepth(c) = 0
    BY <1>2, <1>5, Zenon DEF ResetRight
  <1>7. ~Threw(c) => HandleOK(c, v, sound, 0)
    BY <1>4, <1>6, Zenon DEF HandleOK
  <1>8. PoolOK'
    BY <1>1, <1>3, <1>7, ReturnOK
  <1>9. /\ ~Threw(c) => RejectsForCause'
        /\ Threw(c) => pool' = pool
        /\ last'.op = "reset" /\ last'.args = <<i>> /\ last'.k = t
    BY <1>3, ReturnCause
  <1>10. Threw(c) => MaskSeed(t + 1, a.slots) = NoSeed \/ MaskSeed(t + 2, a.slots) = NoSeed
    <2>1. Threw(c) => \E n \in 1..2 : NewSeeds(a, t)[n] = NoSeed
      BY <1>2, <1>5, Zenon DEF ResetRight
    <2>2. Threw(c) => NewSeeds(a, t)[1] = NoSeed \/ NewSeeds(a, t)[2] = NoSeed
      BY <2>1
    <2> QED
      BY <1>5, <2>2, Zenon DEF SeedsRight
  <1>11. ASSUME Threw(c) PROVE RejectsForCause'
    <2>1. PICK l, p : l = last' /\ p = pool'
      OBVIOUS
    <2>2. p = pool /\ l.op = "reset" /\ l.args[1] = i /\ l.k = t
      BY <1>9, <1>11, <2>1
    <2>3. MaskSeed(l.k + 1, p[l.args[1]].ct.slots) = NoSeed \/ MaskSeed(l.k + 2, p[l.args[1]].ct.slots) = NoSeed
      BY <1>2, <1>10, <1>11, <2>2
    <2> QED
      BY <2>1, <2>2, <2>3 DEF RejectsForCause
  <1> QED
    BY <1>8, <1>9, <1>11 DEF CipherInv

\* No handle, no operation: the invariant holds.
LEMMA CipherInit == Init => CipherInv
  <1> SUFFICES ASSUME Init PROVE CipherInv
    OBVIOUS
  <1>1. pool = <<>> /\ last.ok
    BY DEF Init
  <1>2. RejectsForCause
    BY <1>1, Zenon DEF RejectsForCause
  <1>3. IsSeq(<<>>) /\ Len(<<>>) = 0 /\ 1..0 = {}
    BY DEF IsSeq
  <1>4. PoolOK
    BY <1>1, <1>3, Zenon DEF PoolOK
  <1> QED
    BY <1>2, <1>4 DEF CipherInv

\* Every operation keeps the invariant.
LEMMA CipherNext == CipherInv /\ [Next]_vars => CipherInv'
  <1> SUFFICES ASSUME CipherInv, [Next]_vars PROVE CipherInv'
    OBVIOUS
  <1>1. Tapes \subseteq Nat /\ OldTapes \subseteq Nat /\ OpTapes \subseteq Nat
    BY CallerAssumption
  <1>2. ASSUME NEW v \in Plain, NEW t \in Tapes, Encrypt(v, t) PROVE CipherInv'
    BY <1>1, <1>2, EncryptStep
  <1>3. ASSUME NEW v \in Plain, NEW t \in OldTapes, Load(v, t) PROVE CipherInv'
    BY <1>1, <1>3, LoadStep
  <1>4. ASSUME NEW i \in DOMAIN pool, NEW j \in DOMAIN pool, Add(i, j) PROVE CipherInv'
    BY <1>4, AddStep
  <1>5. ASSUME NEW i \in DOMAIN pool, NEW j \in DOMAIN pool, Sub(i, j) PROVE CipherInv'
    BY <1>5, SubStep
  <1>6. ASSUME NEW i \in DOMAIN pool, NEW j \in DOMAIN pool, NEW math \in BOOLEAN, NEW t \in OpTapes,
               Mul(math, i, j, t)
        PROVE  CipherInv'
    BY <1>1, <1>6, MulStep
  <1>7. ASSUME NEW i \in DOMAIN pool, Roundtrip(i) PROVE CipherInv'
    BY <1>7, RoundtripStep
  <1>8. ASSUME NEW i \in DOMAIN pool, NEW t \in OpTapes, Recrypt(i, t) PROVE CipherInv'
    BY <1>1, <1>8, RecryptStep
  <1>9. ASSUME NEW i \in DOMAIN pool, NEW t \in OpTapes, RecryptReset(i, t) PROVE CipherInv'
    BY <1>1, <1>9, ResetStep
  <1>10. ASSUME NEW i \in DOMAIN pool, NEW math \in BOOLEAN, NEW t \in OpTapes, Square(math, i, t)
         PROVE  CipherInv'
    BY <1>1, <1>10, SquareStep
  <1>11. ASSUME NEW i \in DOMAIN pool, NEW math \in BOOLEAN, NEW k \in Consts, Scale(math, i, k)
         PROVE  CipherInv'
    BY <1>11, ScaleStep
  <1>12. ASSUME NEW i \in DOMAIN pool, NEW math \in BOOLEAN, NEW k \in Consts, AddInt(math, i, k)
         PROVE  CipherInv'
    BY <1>12, AddIntStep
  <1>13. ASSUME NEW i \in DOMAIN pool, NEW math \in BOOLEAN, NEW k \in Consts, SubInt(math, i, k)
         PROVE  CipherInv'
    BY <1>13, SubIntStep
  <1>14. ASSUME NEW i \in DOMAIN pool, NEW k \in Consts \cup {0}, Divide(i, k) PROVE CipherInv'
    BY <1>14, DivideStep
  <1>15. CASE UNCHANGED vars
    BY <1>15 DEF vars, CipherInv, PoolOK, RejectsForCause
  <1> QED
    BY <1>2, <1>3, <1>4, <1>5, <1>6, <1>7, <1>8, <1>9, <1>10, <1>11, <1>12, <1>13, <1>14, <1>15, Zenon
       DEF Next

\* The newest handle is one.
LEMMA NewestHandle ==
    ASSUME PoolOK, NEW i \in Newest
    PROVE  i \in DOMAIN pool
  BY DEF Newest

\* The invariant says that the newest handle fits the key.
LEMMA CipherTypes == CipherInv => CipherTypeOK
  <1> SUFFICES ASSUME PoolOK, NEW i \in Newest
               PROVE  /\ FitsKey(pool[i].ct) /\ OneEdgePerPlace(pool[i].ct.E)
                      /\ pool[i].val \in [1..pool[i].ct.slots -> Field]
                      /\ pool[i].depth \in Nat /\ pool[i].sound \in BOOLEAN
    BY Zenon DEF CipherInv, CipherTypeOK
  <1>1. i \in DOMAIN pool
    BY NewestHandle
  <1>2. PICK c : c = pool[i].ct
    OBVIOUS
  <1>3. ShapeOK(c) /\ pool[i].val \in Vec(c.slots) /\ pool[i].depth \in Nat /\ pool[i].sound \in BOOLEAN
    BY <1>1, <1>2, Handle DEF Good
  <1>4. FitsKey(c) /\ OneEdgePerPlace(c.E)
    BY <1>3, ShapeFits
  <1> QED
    BY <1>2, <1>3, <1>4, Zenon DEF Vec

\* The invariant says that depth and commitments are those of the expression.
LEMMA LayersMean == CipherInv => LayersKeepMeaning
  <1> SUFFICES ASSUME PoolOK, NEW i \in Newest
               PROVE  DepthIsExpression(pool[i]) /\ CommitmentsFollowParents(pool[i].ct.L)
    BY Zenon DEF CipherInv, LayersKeepMeaning
  <1>1. i \in DOMAIN pool
    BY NewestHandle
  <1>2. PICK c : c = pool[i].ct
    OBVIOUS
  <1>3. ShapeOK(c) /\ MulDepth(c) = pool[i].depth
    BY <1>1, <1>2, Handle DEF Good
  <1>4. CommitmentsFollowParents(c.L)
    BY <1>3, Zenon DEF ShapeOK, LayersOK
  <1> QED
    BY <1>2, <1>3, <1>4, Zenon DEF DepthIsExpression

\* The invariant says that a stored ciphertext reads back as it was.
LEMMA SavedReads == CipherInv => SavedCipherReadsBack
  <1> SUFFICES ASSUME PoolOK, NEW i \in Newest PROVE SavedSame(pool[i].ct)
    BY Zenon DEF CipherInv, SavedCipherReadsBack, SavedSame
  <1>1. i \in DOMAIN pool
    BY NewestHandle
  <1> QED
    BY <1>1, Handle, SavedSameFacts

\* Every handle holds a ciphertext the key accepts, with one edge per place,
\* whatever operations, old formats and compactions it went through.
THEOREM CiphertextsFitTheKey == Spec => []CipherTypeOK
  BY CipherInit, CipherNext, CipherTypes, PTL DEF Spec

\* An operation throws only for a cause its caller can see: no compaction, no
\* read and no recryption ever rejects what an operation of the program made.
THEOREM OperationsRejectForCause == Spec => []RejectsForCause
  <1>1. CipherInv => RejectsForCause
    BY DEF CipherInv
  <1> QED
    BY CipherInit, CipherNext, <1>1, PTL DEF Spec

\* The depth cipher_mul_depth counts is the depth of the expression, and the
\* commitment of a product follows the layers it names as parents.
THEOREM LayersAlwaysKeepMeaning == Spec => []LayersKeepMeaning
  BY CipherInit, CipherNext, LayersMean, PTL DEF Spec

\* A ciphertext that is stored and read back has the commitment it had and is
\* still bound to the key if it was.
THEOREM SavedCiphersReadBack == Spec => []SavedCipherReadsBack
  BY CipherInit, CipherNext, SavedReads, PTL DEF Spec

-----------------------------------------------------------------------------
(* The ring of vectors *)

\* The vector operations, slot by slot.
VecAt(a, b, x, S) ==
    /\ \A j \in 1..S : /\ VAdd(a, b)[j] = (a[j] + b[j]) % P /\ VSub(a, b)[j] = (a[j] - b[j]) % P
                       /\ VMul(a, b)[j] = (a[j] * b[j]) % P /\ VScale(a, x)[j] = (a[j] * x) % P
                       /\ VNeg(a)[j] = (-a[j]) % P /\ Zeros(S)[j] = 0
    /\ Zeros(S) \in Vec(S) /\ VAdd(a, b) \in Vec(S) /\ VSub(a, b) \in Vec(S)
    /\ VMul(a, b) \in Vec(S) /\ VScale(a, x) \in Vec(S) /\ VNeg(a) \in Vec(S)

\* For every two vectors and every scalar.
LEMMA VecAtFacts ==
    ASSUME NEW S \in Nat, NEW a \in Vec(S), NEW b \in Vec(S), NEW x \in Int
    PROVE  VecAt(a, b, x, S)
  <1>1. DOMAIN a = 1..S /\ Len(a) = S /\ \A j \in 1..S : a[j] \in Int /\ b[j] \in Int
    BY VecFacts
  <1>2. /\ Zeros(S) \in Vec(S) /\ VAdd(a, b) \in Vec(S) /\ VSub(a, b) \in Vec(S)
        /\ VMul(a, b) \in Vec(S) /\ VScale(a, x) \in Vec(S)
    BY VecOps
  <1>3. VNeg(a) \in Vec(S)
    BY VecSigned
  <1>4. ASSUME NEW j \in 1..S
        PROVE  /\ VAdd(a, b)[j] = (a[j] + b[j]) % P /\ VSub(a, b)[j] = (a[j] - b[j]) % P
               /\ VMul(a, b)[j] = (a[j] * b[j]) % P /\ VScale(a, x)[j] = (a[j] * x) % P
               /\ Zeros(S)[j] = 0
    BY <1>1, Zenon DEF VAdd, VSub, VMul, VScale, Zeros
  <1>5. ASSUME NEW j \in 1..S PROVE VNeg(a)[j] = (-a[j]) % P
    <2>1. VNeg(a)[j] = (Zeros(S)[j] - a[j]) % P
      <3>1. DOMAIN Zeros(S) = 1..S
        BY DEF Zeros
      <3> QED
        BY <1>1, <3>1, Zenon DEF VNeg, VSub
    <2>2. Zeros(S)[j] = 0 /\ a[j] \in Int
      BY <1>1, <1>4
    <2>3. 0 - a[j] = -a[j]
      BY <2>2
    <2> QED
      BY <2>1, <2>2, <2>3, Zenon
  <1> QED
    BY <1>2, <1>3, <1>4, <1>5, Zenon DEF VecAt

\* Vectors that agree in every slot are one.
LEMMA VecEqual ==
    ASSUME NEW S \in Nat, NEW a \in Vec(S), NEW b \in Vec(S), \A j \in 1..S : a[j] = b[j]
    PROVE  a = b
  <1>1. a = [j \in 1..S |-> a[j]] /\ b = [j \in 1..S |-> b[j]]
    BY DEF Vec
  <1>2. [j \in 1..S |-> a[j]] = [j \in 1..S |-> b[j]]
    BY Zenon
  <1> QED
    BY <1>1, <1>2, Zenon

\* Arithmetic modulo P.
RingAt(x, y, z) ==
    /\ ((x + y) % P) = ((y + x) % P) /\ ((x * y) % P) = ((y * x) % P)
    /\ ((((x + y) % P) + z) % P) = ((x + ((y + z) % P)) % P)
    /\ ((((x * y) % P) * z) % P) = ((x * ((y * z) % P)) % P)
    /\ ((((x + y) % P) * z) % P) = ((((x * z) % P) + ((y * z) % P)) % P)
    /\ ((((x - y) % P) * z) % P) = ((((x * z) % P) - ((y * z) % P)) % P)
    /\ ((((-x) % P) * y) % P) = ((-((x * y) % P)) % P)
    /\ ((x - y) % P) = ((x + ((-y) % P)) % P)
    /\ ((((x + y) % P) - y) % P) = (x % P) /\ ((((x - y) % P) + y) % P) = (x % P)

\* For all integers.
LEMMA ModRing ==
    ASSUME NEW x \in Int, NEW y \in Int, NEW z \in Int
    PROVE  RingAt(x, y, z)
  <1>1. x + y \in Int /\ y + z \in Int /\ x * y \in Int /\ y * z \in Int /\ x * z \in Int
        /\ x - y \in Int /\ -y \in Int /\ -x \in Int /\ -(x * y) \in Int
    OBVIOUS
  <1>2. x + y = y + x /\ x * y = y * x
    OBVIOUS
  <1>3. ((((x + y) % P) + z) % P) = ((x + ((y + z) % P)) % P)
    <2>1. ((((x + y) % P) + z) % P) = (((x + y) + z) % P)
      BY <1>1, ModTimes
    <2>2. ((x + ((y + z) % P)) % P) = ((x + (y + z)) % P)
      BY <1>1, ModTimes, Zenon
    <2>3. (x + y) + z = x + (y + z)
      OBVIOUS
    <2> QED
      BY <2>1, <2>2, <2>3
  <1>4. ((((x * y) % P) * z) % P) = ((x * ((y * z) % P)) % P)
    <2>1. ((((x * y) % P) * z) % P) = (((x * y) * z) % P)
      <3>1. PICK u \in Int : u = x * y
        BY <1>1
      <3>2. (((u % P) * z) % P) = ((u * z) % P)
        BY ModTimes, Zenon
      <3> QED
        BY <3>1, <3>2, Zenon
    <2>2. ((x * ((y * z) % P)) % P) = ((x * (y * z)) % P)
      BY <1>1, ModTimes
    <2>3. (x * y) * z = x * (y * z)
      OBVIOUS
    <2> QED
      BY <2>1, <2>2, <2>3
  <1>5. ASSUME NEW u \in Int, NEW v \in Int
        PROVE  /\ (((u % P) + (v % P)) % P) = ((u + v) % P) /\ (((u % P) - (v % P)) % P) = ((u - v) % P)
    <2>1. (v % P) \in Int
      BY ModField
    <2>2. (((u % P) + (v % P)) % P) = ((u + (v % P)) % P) /\ (((u % P) - (v % P)) % P) = ((u - (v % P)) % P)
      BY <2>1, ModTimes
    <2>3. ((u + (v % P)) % P) = ((u + v) % P) /\ ((u - (v % P)) % P) = ((u - v) % P)
      BY ModTimes, Zenon
    <2> QED
      BY <2>2, <2>3
  <1>6. ((((x + y) % P) * z) % P) = ((((x * z) % P) + ((y * z) % P)) % P)
    <2>1. ((((x + y) % P) * z) % P) = (((x + y) * z) % P)
      <3>1. PICK u \in Int : u = x + y
        BY <1>1
      <3>2. (((u % P) * z) % P) = ((u * z) % P)
        BY ModTimes, Zenon
      <3> QED
        BY <3>1, <3>2, Zenon
    <2>2. (x + y) * z = x * z + y * z
      OBVIOUS
    <2>3. ((((x * z) % P) + ((y * z) % P)) % P) = ((x * z + y * z) % P)
      BY <1>1, <1>5
    <2> QED
      BY <2>1, <2>2, <2>3
  <1>7. ((((x - y) % P) * z) % P) = ((((x * z) % P) - ((y * z) % P)) % P)
    <2>1. ((((x - y) % P) * z) % P) = (((x - y) * z) % P)
      BY <1>1, ModTimes, Zenon
    <2>2. (x - y) * z = x * z - y * z
      OBVIOUS
    <2>3. ((((x * z) % P) - ((y * z) % P)) % P) = ((x * z - y * z) % P)
      BY <1>1, <1>5
    <2> QED
      BY <2>1, <2>2, <2>3
  <1>8. ((((-x) % P) * y) % P) = ((-((x * y) % P)) % P)
    <2>1. ((((-x) % P) * y) % P) = (((-x) * y) % P)
      BY <1>1, ModTimes, Zenon
    <2>2. (-x) * y = 0 - x * y
      OBVIOUS
    <2>3. ((0 - ((x * y) % P)) % P) = ((0 - x * y) % P)
      <3>1. 0 \in Int
        OBVIOUS
      <3> QED
        BY <1>1, <3>1, ModTimes, Zenon
    <2>4. ((x * y) % P) \in Int
      BY <1>1, ModField
    <2>5. 0 - ((x * y) % P) = -((x * y) % P)
      BY <2>4
    <2> QED
      BY <2>1, <2>2, <2>3, <2>5
  <1>9. ((x - y) % P) = ((x + ((-y) % P)) % P)
    <2>1. ((x + ((-y) % P)) % P) = ((x + (-y)) % P)
      BY <1>1, ModTimes, Zenon
    <2>2. x + (-y) = x - y
      OBVIOUS
    <2> QED
      BY <2>1, <2>2
  <1>10. ((((x + y) % P) - y) % P) = (x % P) /\ ((((x - y) % P) + y) % P) = (x % P)
    <2>1. ((((x + y) % P) - y) % P) = (((x + y) - y) % P) /\ ((((x - y) % P) + y) % P) = (((x - y) + y) % P)
      BY <1>1, ModTimes
    <2>2. (x + y) - y = x /\ (x - y) + y = x
      OBVIOUS
    <2> QED
      BY <2>1, <2>2
  <1> QED
    BY <1>2, <1>3, <1>4, <1>6, <1>7, <1>8, <1>9, <1>10 DEF RingAt

\* Addition of vectors commutes.
LEMMA AddComm ==
    ASSUME NEW S \in Nat, NEW a \in Vec(S), NEW b \in Vec(S)
    PROVE  VAdd(a, b) = VAdd(b, a)
  <1>1. 0 \in Int
    OBVIOUS
  <1>2. PICK u \in Vec(S) : u = VAdd(a, b) /\ \A j \in 1..S : u[j] = ((a[j] + b[j]) % P)
    <2>1. VecAt(a, b, 0, S)
      BY <1>1, VecAtFacts, Zenon
    <2> QED
      BY <2>1, Zenon DEF VecAt
  <1>3. PICK v \in Vec(S) : v = VAdd(b, a) /\ \A j \in 1..S : v[j] = ((b[j] + a[j]) % P)
    <2>1. VecAt(b, a, 0, S)
      BY <1>1, VecAtFacts, Zenon
    <2> QED
      BY <2>1, Zenon DEF VecAt
  <1>4. ASSUME NEW j \in 1..S PROVE u[j] = v[j]
    <2>1. a[j] \in Int /\ a[j] \in Field /\ b[j] \in Int /\ b[j] \in Field
      BY VecFacts, Zenon
    <2>2. u[j] = ((a[j] + b[j]) % P) /\ v[j] = ((b[j] + a[j]) % P)
      BY <1>2, <1>3, Zenon
    <2>3. PICK p \in Int, q \in Int : p = a[j] /\ p \in Field /\ q = b[j] /\ q \in Field
      BY <2>1, Zenon
    <2>4. ((p + q) % P) = ((q + p) % P)
      <3>1. RingAt(p, q, q)
        BY ModRing, Zenon
      <3> QED
        BY <3>1 DEF RingAt
    <2>5. u[j] = ((p + q) % P) /\ v[j] = ((q + p) % P)
      BY <2>2, <2>3, Zenon
    <2> QED
      BY <2>4, <2>5, Zenon
  <1>5. u = v
    BY <1>4, VecEqual, Zenon
  <1> QED
    BY <1>5, <1>2, <1>3, Zenon

\* Addition of vectors is associative.
LEMMA AddAssoc ==
    ASSUME NEW S \in Nat, NEW a \in Vec(S), NEW b \in Vec(S), NEW c \in Vec(S)
    PROVE  VAdd(VAdd(a, b), c) = VAdd(a, VAdd(b, c))
  <1>1. 0 \in Int
    OBVIOUS
  <1>2. PICK u \in Vec(S) : u = VAdd(a, b) /\ \A j \in 1..S : u[j] = ((a[j] + b[j]) % P)
    <2>1. VecAt(a, b, 0, S)
      BY <1>1, VecAtFacts, Zenon
    <2> QED
      BY <2>1, Zenon DEF VecAt
  <1>3. PICK v \in Vec(S) : v = VAdd(u, c) /\ \A j \in 1..S : v[j] = ((u[j] + c[j]) % P)
    <2>1. VecAt(u, c, 0, S)
      BY <1>1, VecAtFacts, Zenon
    <2> QED
      BY <2>1, Zenon DEF VecAt
  <1>4. PICK w \in Vec(S) : w = VAdd(b, c) /\ \A j \in 1..S : w[j] = ((b[j] + c[j]) % P)
    <2>1. VecAt(b, c, 0, S)
      BY <1>1, VecAtFacts, Zenon
    <2> QED
      BY <2>1, Zenon DEF VecAt
  <1>5. PICK x \in Vec(S) : x = VAdd(a, w) /\ \A j \in 1..S : x[j] = ((a[j] + w[j]) % P)
    <2>1. VecAt(a, w, 0, S)
      BY <1>1, VecAtFacts, Zenon
    <2> QED
      BY <2>1, Zenon DEF VecAt
  <1>6. ASSUME NEW j \in 1..S PROVE v[j] = x[j]
    <2>1. a[j] \in Int /\ a[j] \in Field /\ b[j] \in Int /\ b[j] \in Field /\ c[j] \in Int /\ c[j] \in Field
      BY VecFacts, Zenon
    <2>2. u[j] = ((a[j] + b[j]) % P) /\ v[j] = ((u[j] + c[j]) % P) /\ w[j] = ((b[j] + c[j]) % P) /\ x[j] = ((a[j] + w[j]) % P)
      BY <1>2, <1>3, <1>4, <1>5, Zenon
    <2>3. PICK p \in Int, q \in Int, s \in Int : p = a[j] /\ p \in Field /\ q = b[j] /\ q \in Field /\ s = c[j] /\ s \in Field
      BY <2>1, Zenon
    <2>4. ((((p + q) % P) + s) % P) = ((p + ((q + s) % P)) % P)
      <3>1. RingAt(p, q, s)
        BY ModRing, Zenon
      <3> QED
        BY <3>1 DEF RingAt
    <2>5. v[j] = ((((p + q) % P) + s) % P) /\ x[j] = ((p + ((q + s) % P)) % P)
      BY <2>2, <2>3, Zenon
    <2> QED
      BY <2>4, <2>5, Zenon
  <1>7. v = x
    BY <1>6, VecEqual, Zenon
  <1> QED
    BY <1>7, <1>2, <1>3, <1>4, <1>5, Zenon

\* Zero adds nothing.
LEMMA AddZero ==
    ASSUME NEW S \in Nat, NEW a \in Vec(S)
    PROVE  VAdd(a, Zeros(S)) = a
  <1>1. 0 \in Int
    OBVIOUS
  <1>2. PICK z \in Vec(S) : z = Zeros(S) /\ \A j \in 1..S : z[j] = 0
    <2>1. VecAt(a, a, 0, S)
      BY <1>1, VecAtFacts
    <2> QED
      BY <2>1, Zenon DEF VecAt
  <1>3. PICK u \in Vec(S) : u = VAdd(a, z) /\ \A j \in 1..S : u[j] = ((a[j] + z[j]) % P)
    <2>1. VecAt(a, z, 0, S)
      BY <1>1, VecAtFacts, Zenon
    <2> QED
      BY <2>1, Zenon DEF VecAt
  <1>4. ASSUME NEW j \in 1..S PROVE u[j] = a[j]
    <2>1. a[j] \in Int /\ a[j] \in Field
      BY VecFacts, Zenon
    <2>2. z[j] = 0 /\ u[j] = ((a[j] + z[j]) % P)
      BY <1>2, <1>3, Zenon
    <2>3. PICK p \in Int : p = a[j] /\ p \in Field
      BY <2>1, Zenon
    <2>4. ((p + 0) % P) = p
      BY <2>3, ModField
    <2>5. u[j] = ((p + 0) % P) /\ a[j] = p
      BY <2>2, <2>3, Zenon
    <2> QED
      BY <2>4, <2>5, Zenon
  <1>5. u = a
    BY <1>4, VecEqual, Zenon
  <1> QED
    BY <1>5, <1>2, <1>3, Zenon

\* From the left either.
LEMMA ZeroAdd ==
    ASSUME NEW S \in Nat, NEW a \in Vec(S)
    PROVE  VAdd(Zeros(S), a) = a
  <1>1. 0 \in Int
    OBVIOUS
  <1>2. PICK z \in Vec(S) : z = Zeros(S) /\ \A j \in 1..S : z[j] = 0
    <2>1. VecAt(a, a, 0, S)
      BY <1>1, VecAtFacts
    <2> QED
      BY <2>1, Zenon DEF VecAt
  <1>3. PICK u \in Vec(S) : u = VAdd(z, a) /\ \A j \in 1..S : u[j] = ((z[j] + a[j]) % P)
    <2>1. VecAt(z, a, 0, S)
      BY <1>1, VecAtFacts, Zenon
    <2> QED
      BY <2>1, Zenon DEF VecAt
  <1>4. ASSUME NEW j \in 1..S PROVE u[j] = a[j]
    <2>1. a[j] \in Int /\ a[j] \in Field
      BY VecFacts, Zenon
    <2>2. z[j] = 0 /\ u[j] = ((z[j] + a[j]) % P)
      BY <1>2, <1>3, Zenon
    <2>3. PICK p \in Int : p = a[j] /\ p \in Field
      BY <2>1, Zenon
    <2>4. ((0 + p) % P) = p
      BY <2>3, ModField
    <2>5. u[j] = ((0 + p) % P) /\ a[j] = p
      BY <2>2, <2>3, Zenon
    <2> QED
      BY <2>4, <2>5, Zenon
  <1>5. u = a
    BY <1>4, VecEqual, Zenon
  <1> QED
    BY <1>5, <1>2, <1>3, Zenon

\* Multiplication of vectors commutes.
LEMMA MulComm ==
    ASSUME NEW S \in Nat, NEW a \in Vec(S), NEW b \in Vec(S)
    PROVE  VMul(a, b) = VMul(b, a)
  <1>1. 0 \in Int
    OBVIOUS
  <1>2. PICK u \in Vec(S) : u = VMul(a, b) /\ \A j \in 1..S : u[j] = ((a[j] * b[j]) % P)
    <2>1. VecAt(a, b, 0, S)
      BY <1>1, VecAtFacts, Zenon
    <2> QED
      BY <2>1, Zenon DEF VecAt
  <1>3. PICK v \in Vec(S) : v = VMul(b, a) /\ \A j \in 1..S : v[j] = ((b[j] * a[j]) % P)
    <2>1. VecAt(b, a, 0, S)
      BY <1>1, VecAtFacts, Zenon
    <2> QED
      BY <2>1, Zenon DEF VecAt
  <1>4. ASSUME NEW j \in 1..S PROVE u[j] = v[j]
    <2>1. a[j] \in Int /\ a[j] \in Field /\ b[j] \in Int /\ b[j] \in Field
      BY VecFacts, Zenon
    <2>2. u[j] = ((a[j] * b[j]) % P) /\ v[j] = ((b[j] * a[j]) % P)
      BY <1>2, <1>3, Zenon
    <2>3. PICK p \in Int, q \in Int : p = a[j] /\ p \in Field /\ q = b[j] /\ q \in Field
      BY <2>1, Zenon
    <2>4. ((p * q) % P) = ((q * p) % P)
      <3>1. RingAt(p, q, q)
        BY ModRing, Zenon
      <3> QED
        BY <3>1 DEF RingAt
    <2>5. u[j] = ((p * q) % P) /\ v[j] = ((q * p) % P)
      BY <2>2, <2>3, Zenon
    <2> QED
      BY <2>4, <2>5, Zenon
  <1>5. u = v
    BY <1>4, VecEqual, Zenon
  <1> QED
    BY <1>5, <1>2, <1>3, Zenon

\* Multiplication of vectors is associative.
LEMMA MulAssoc ==
    ASSUME NEW S \in Nat, NEW a \in Vec(S), NEW b \in Vec(S), NEW c \in Vec(S)
    PROVE  VMul(VMul(a, b), c) = VMul(a, VMul(b, c))
  <1>1. 0 \in Int
    OBVIOUS
  <1>2. PICK u \in Vec(S) : u = VMul(a, b) /\ \A j \in 1..S : u[j] = ((a[j] * b[j]) % P)
    <2>1. VecAt(a, b, 0, S)
      BY <1>1, VecAtFacts, Zenon
    <2> QED
      BY <2>1, Zenon DEF VecAt
  <1>3. PICK v \in Vec(S) : v = VMul(u, c) /\ \A j \in 1..S : v[j] = ((u[j] * c[j]) % P)
    <2>1. VecAt(u, c, 0, S)
      BY <1>1, VecAtFacts, Zenon
    <2> QED
      BY <2>1, Zenon DEF VecAt
  <1>4. PICK w \in Vec(S) : w = VMul(b, c) /\ \A j \in 1..S : w[j] = ((b[j] * c[j]) % P)
    <2>1. VecAt(b, c, 0, S)
      BY <1>1, VecAtFacts, Zenon
    <2> QED
      BY <2>1, Zenon DEF VecAt
  <1>5. PICK x \in Vec(S) : x = VMul(a, w) /\ \A j \in 1..S : x[j] = ((a[j] * w[j]) % P)
    <2>1. VecAt(a, w, 0, S)
      BY <1>1, VecAtFacts, Zenon
    <2> QED
      BY <2>1, Zenon DEF VecAt
  <1>6. ASSUME NEW j \in 1..S PROVE v[j] = x[j]
    <2>1. a[j] \in Int /\ a[j] \in Field /\ b[j] \in Int /\ b[j] \in Field /\ c[j] \in Int /\ c[j] \in Field
      BY VecFacts, Zenon
    <2>2. u[j] = ((a[j] * b[j]) % P) /\ v[j] = ((u[j] * c[j]) % P) /\ w[j] = ((b[j] * c[j]) % P) /\ x[j] = ((a[j] * w[j]) % P)
      BY <1>2, <1>3, <1>4, <1>5, Zenon
    <2>3. PICK p \in Int, q \in Int, s \in Int : p = a[j] /\ p \in Field /\ q = b[j] /\ q \in Field /\ s = c[j] /\ s \in Field
      BY <2>1, Zenon
    <2>4. ((((p * q) % P) * s) % P) = ((p * ((q * s) % P)) % P)
      <3>1. RingAt(p, q, s)
        BY ModRing, Zenon
      <3> QED
        BY <3>1 DEF RingAt
    <2>5. v[j] = ((((p * q) % P) * s) % P) /\ x[j] = ((p * ((q * s) % P)) % P)
      BY <2>2, <2>3, Zenon
    <2> QED
      BY <2>4, <2>5, Zenon
  <1>7. v = x
    BY <1>6, VecEqual, Zenon
  <1> QED
    BY <1>7, <1>2, <1>3, <1>4, <1>5, Zenon

\* Multiplication distributes over addition.
LEMMA AddMul ==
    ASSUME NEW S \in Nat, NEW a \in Vec(S), NEW b \in Vec(S), NEW c \in Vec(S)
    PROVE  VMul(VAdd(a, b), c) = VAdd(VMul(a, c), VMul(b, c))
  <1>1. 0 \in Int
    OBVIOUS
  <1>2. PICK u \in Vec(S) : u = VAdd(a, b) /\ \A j \in 1..S : u[j] = ((a[j] + b[j]) % P)
    <2>1. VecAt(a, b, 0, S)
      BY <1>1, VecAtFacts, Zenon
    <2> QED
      BY <2>1, Zenon DEF VecAt
  <1>3. PICK v \in Vec(S) : v = VMul(u, c) /\ \A j \in 1..S : v[j] = ((u[j] * c[j]) % P)
    <2>1. VecAt(u, c, 0, S)
      BY <1>1, VecAtFacts, Zenon
    <2> QED
      BY <2>1, Zenon DEF VecAt
  <1>4. PICK w \in Vec(S) : w = VMul(a, c) /\ \A j \in 1..S : w[j] = ((a[j] * c[j]) % P)
    <2>1. VecAt(a, c, 0, S)
      BY <1>1, VecAtFacts, Zenon
    <2> QED
      BY <2>1, Zenon DEF VecAt
  <1>5. PICK x \in Vec(S) : x = VMul(b, c) /\ \A j \in 1..S : x[j] = ((b[j] * c[j]) % P)
    <2>1. VecAt(b, c, 0, S)
      BY <1>1, VecAtFacts, Zenon
    <2> QED
      BY <2>1, Zenon DEF VecAt
  <1>6. PICK y \in Vec(S) : y = VAdd(w, x) /\ \A j \in 1..S : y[j] = ((w[j] + x[j]) % P)
    <2>1. VecAt(w, x, 0, S)
      BY <1>1, VecAtFacts, Zenon
    <2> QED
      BY <2>1, Zenon DEF VecAt
  <1>7. ASSUME NEW j \in 1..S PROVE v[j] = y[j]
    <2>1. a[j] \in Int /\ a[j] \in Field /\ b[j] \in Int /\ b[j] \in Field /\ c[j] \in Int /\ c[j] \in Field
      BY VecFacts, Zenon
    <2>2. u[j] = ((a[j] + b[j]) % P) /\ v[j] = ((u[j] * c[j]) % P) /\ w[j] = ((a[j] * c[j]) % P) /\ x[j] = ((b[j] * c[j]) % P) /\ y[j] = ((w[j] + x[j]) % P)
      BY <1>2, <1>3, <1>4, <1>5, <1>6, Zenon
    <2>3. PICK p \in Int, q \in Int, s \in Int : p = a[j] /\ p \in Field /\ q = b[j] /\ q \in Field /\ s = c[j] /\ s \in Field
      BY <2>1, Zenon
    <2>4. ((((p + q) % P) * s) % P) = ((((p * s) % P) + ((q * s) % P)) % P)
      <3>1. RingAt(p, q, s)
        BY ModRing, Zenon
      <3> QED
        BY <3>1 DEF RingAt
    <2>5. v[j] = ((((p + q) % P) * s) % P) /\ y[j] = ((((p * s) % P) + ((q * s) % P)) % P)
      BY <2>2, <2>3, Zenon
    <2> QED
      BY <2>4, <2>5, Zenon
  <1>8. v = y
    BY <1>7, VecEqual, Zenon
  <1> QED
    BY <1>8, <1>2, <1>3, <1>4, <1>5, <1>6, Zenon

\* Three vectors of S slots.
Three(S, a, b, c) == S \in Nat /\ a \in Vec(S) /\ b \in Vec(S) /\ c \in Vec(S)

\* Both operations associate, and the product distributes over the sum.
LEMMA ThreeLaws ==
    ASSUME NEW S, NEW a, NEW b, NEW c, Three(S, a, b, c)
    PROVE  /\ VAdd(VAdd(a, b), c) = VAdd(a, VAdd(b, c)) /\ VMul(VMul(a, b), c) = VMul(a, VMul(b, c))
           /\ VMul(VAdd(a, b), c) = VAdd(VMul(a, c), VMul(b, c))
  <1>1. S \in Nat /\ a \in Vec(S) /\ b \in Vec(S) /\ c \in Vec(S)
    BY Zenon DEF Three
  <1>2. VAdd(VAdd(a, b), c) = VAdd(a, VAdd(b, c))
    BY <1>1, AddAssoc
  <1>3. VMul(VMul(a, b), c) = VMul(a, VMul(b, c))
    BY <1>1, MulAssoc
  <1>4. VMul(VAdd(a, b), c) = VAdd(VMul(a, c), VMul(b, c))
    BY <1>1, AddMul
  <1> QED
    BY <1>2, <1>3, <1>4, Zenon

\* And over subtraction.
LEMMA SubMul ==
    ASSUME NEW S \in Nat, NEW a \in Vec(S), NEW b \in Vec(S), NEW c \in Vec(S)
    PROVE  VMul(VSub(a, b), c) = VSub(VMul(a, c), VMul(b, c))
  <1>1. 0 \in Int
    OBVIOUS
  <1>2. PICK u \in Vec(S) : u = VSub(a, b) /\ \A j \in 1..S : u[j] = ((a[j] - b[j]) % P)
    <2>1. VecAt(a, b, 0, S)
      BY <1>1, VecAtFacts, Zenon
    <2> QED
      BY <2>1, Zenon DEF VecAt
  <1>3. PICK v \in Vec(S) : v = VMul(u, c) /\ \A j \in 1..S : v[j] = ((u[j] * c[j]) % P)
    <2>1. VecAt(u, c, 0, S)
      BY <1>1, VecAtFacts, Zenon
    <2> QED
      BY <2>1, Zenon DEF VecAt
  <1>4. PICK w \in Vec(S) : w = VMul(a, c) /\ \A j \in 1..S : w[j] = ((a[j] * c[j]) % P)
    <2>1. VecAt(a, c, 0, S)
      BY <1>1, VecAtFacts, Zenon
    <2> QED
      BY <2>1, Zenon DEF VecAt
  <1>5. PICK x \in Vec(S) : x = VMul(b, c) /\ \A j \in 1..S : x[j] = ((b[j] * c[j]) % P)
    <2>1. VecAt(b, c, 0, S)
      BY <1>1, VecAtFacts, Zenon
    <2> QED
      BY <2>1, Zenon DEF VecAt
  <1>6. PICK y \in Vec(S) : y = VSub(w, x) /\ \A j \in 1..S : y[j] = ((w[j] - x[j]) % P)
    <2>1. VecAt(w, x, 0, S)
      BY <1>1, VecAtFacts, Zenon
    <2> QED
      BY <2>1, Zenon DEF VecAt
  <1>7. ASSUME NEW j \in 1..S PROVE v[j] = y[j]
    <2>1. a[j] \in Int /\ a[j] \in Field /\ b[j] \in Int /\ b[j] \in Field /\ c[j] \in Int /\ c[j] \in Field
      BY VecFacts, Zenon
    <2>2. u[j] = ((a[j] - b[j]) % P) /\ v[j] = ((u[j] * c[j]) % P) /\ w[j] = ((a[j] * c[j]) % P) /\ x[j] = ((b[j] * c[j]) % P) /\ y[j] = ((w[j] - x[j]) % P)
      BY <1>2, <1>3, <1>4, <1>5, <1>6, Zenon
    <2>3. PICK p \in Int, q \in Int, s \in Int : p = a[j] /\ p \in Field /\ q = b[j] /\ q \in Field /\ s = c[j] /\ s \in Field
      BY <2>1, Zenon
    <2>4. ((((p - q) % P) * s) % P) = ((((p * s) % P) - ((q * s) % P)) % P)
      <3>1. RingAt(p, q, s)
        BY ModRing, Zenon
      <3> QED
        BY <3>1 DEF RingAt
    <2>5. v[j] = ((((p - q) % P) * s) % P) /\ y[j] = ((((p * s) % P) - ((q * s) % P)) % P)
      BY <2>2, <2>3, Zenon
    <2> QED
      BY <2>4, <2>5, Zenon
  <1>8. v = y
    BY <1>7, VecEqual, Zenon
  <1> QED
    BY <1>8, <1>2, <1>3, <1>4, <1>5, <1>6, Zenon

\* The sign of a product.
LEMMA NegMul ==
    ASSUME NEW S \in Nat, NEW a \in Vec(S), NEW b \in Vec(S)
    PROVE  VMul(VNeg(a), b) = VNeg(VMul(a, b))
  <1>1. 0 \in Int
    OBVIOUS
  <1>2. PICK u \in Vec(S) : u = VNeg(a) /\ \A j \in 1..S : u[j] = ((-a[j]) % P)
    <2>1. VecAt(a, a, 0, S)
      BY <1>1, VecAtFacts, Zenon
    <2> QED
      BY <2>1, Zenon DEF VecAt
  <1>3. PICK v \in Vec(S) : v = VMul(u, b) /\ \A j \in 1..S : v[j] = ((u[j] * b[j]) % P)
    <2>1. VecAt(u, b, 0, S)
      BY <1>1, VecAtFacts, Zenon
    <2> QED
      BY <2>1, Zenon DEF VecAt
  <1>4. PICK w \in Vec(S) : w = VMul(a, b) /\ \A j \in 1..S : w[j] = ((a[j] * b[j]) % P)
    <2>1. VecAt(a, b, 0, S)
      BY <1>1, VecAtFacts, Zenon
    <2> QED
      BY <2>1, Zenon DEF VecAt
  <1>5. PICK x \in Vec(S) : x = VNeg(w) /\ \A j \in 1..S : x[j] = ((-w[j]) % P)
    <2>1. VecAt(w, w, 0, S)
      BY <1>1, VecAtFacts, Zenon
    <2> QED
      BY <2>1, Zenon DEF VecAt
  <1>6. ASSUME NEW j \in 1..S PROVE v[j] = x[j]
    <2>1. a[j] \in Int /\ a[j] \in Field /\ b[j] \in Int /\ b[j] \in Field
      BY VecFacts, Zenon
    <2>2. u[j] = ((-a[j]) % P) /\ v[j] = ((u[j] * b[j]) % P) /\ w[j] = ((a[j] * b[j]) % P) /\ x[j] = ((-w[j]) % P)
      BY <1>2, <1>3, <1>4, <1>5, Zenon
    <2>3. PICK p \in Int, q \in Int : p = a[j] /\ p \in Field /\ q = b[j] /\ q \in Field
      BY <2>1, Zenon
    <2>4. ((((-p) % P) * q) % P) = ((-((p * q) % P)) % P)
      <3>1. RingAt(p, q, q)
        BY ModRing, Zenon
      <3> QED
        BY <3>1 DEF RingAt
    <2>5. v[j] = ((((-p) % P) * q) % P) /\ x[j] = ((-((p * q) % P)) % P)
      BY <2>2, <2>3, Zenon
    <2> QED
      BY <2>4, <2>5, Zenon
  <1>7. v = x
    BY <1>6, VecEqual, Zenon
  <1> QED
    BY <1>7, <1>2, <1>3, <1>4, <1>5, Zenon

\* A product with zero.
LEMMA ZeroMul ==
    ASSUME NEW S \in Nat, NEW a \in Vec(S)
    PROVE  VMul(Zeros(S), a) = Zeros(S)
  <1>1. 0 \in Int
    OBVIOUS
  <1>2. PICK z \in Vec(S) : z = Zeros(S) /\ \A j \in 1..S : z[j] = 0
    <2>1. VecAt(a, a, 0, S)
      BY <1>1, VecAtFacts
    <2> QED
      BY <2>1, Zenon DEF VecAt
  <1>3. PICK u \in Vec(S) : u = VMul(z, a) /\ \A j \in 1..S : u[j] = ((z[j] * a[j]) % P)
    <2>1. VecAt(z, a, 0, S)
      BY <1>1, VecAtFacts, Zenon
    <2> QED
      BY <2>1, Zenon DEF VecAt
  <1>4. ASSUME NEW j \in 1..S PROVE u[j] = z[j]
    <2>1. a[j] \in Int /\ a[j] \in Field
      BY VecFacts, Zenon
    <2>2. z[j] = 0 /\ u[j] = ((z[j] * a[j]) % P)
      BY <1>2, <1>3, Zenon
    <2>3. PICK p \in Int : p = a[j] /\ p \in Field
      BY <2>1, Zenon
    <2>4. ((0 * p) % P) = 0
      BY <2>3, ModulusFacts
    <2>5. u[j] = ((0 * p) % P) /\ z[j] = 0
      BY <2>2, <2>3, Zenon
    <2> QED
      BY <2>4, <2>5, Zenon
  <1>5. u = z
    BY <1>4, VecEqual, Zenon
  <1> QED
    BY <1>5, <1>2, <1>3, Zenon

\* Subtraction adds the negative.
LEMMA SubIsAdd ==
    ASSUME NEW S \in Nat, NEW a \in Vec(S), NEW b \in Vec(S)
    PROVE  VSub(a, b) = VAdd(a, VNeg(b))
  <1>1. 0 \in Int
    OBVIOUS
  <1>2. PICK u \in Vec(S) : u = VSub(a, b) /\ \A j \in 1..S : u[j] = ((a[j] - b[j]) % P)
    <2>1. VecAt(a, b, 0, S)
      BY <1>1, VecAtFacts, Zenon
    <2> QED
      BY <2>1, Zenon DEF VecAt
  <1>3. PICK v \in Vec(S) : v = VNeg(b) /\ \A j \in 1..S : v[j] = ((-b[j]) % P)
    <2>1. VecAt(b, b, 0, S)
      BY <1>1, VecAtFacts, Zenon
    <2> QED
      BY <2>1, Zenon DEF VecAt
  <1>4. PICK w \in Vec(S) : w = VAdd(a, v) /\ \A j \in 1..S : w[j] = ((a[j] + v[j]) % P)
    <2>1. VecAt(a, v, 0, S)
      BY <1>1, VecAtFacts, Zenon
    <2> QED
      BY <2>1, Zenon DEF VecAt
  <1>5. ASSUME NEW j \in 1..S PROVE u[j] = w[j]
    <2>1. a[j] \in Int /\ a[j] \in Field /\ b[j] \in Int /\ b[j] \in Field
      BY VecFacts, Zenon
    <2>2. u[j] = ((a[j] - b[j]) % P) /\ v[j] = ((-b[j]) % P) /\ w[j] = ((a[j] + v[j]) % P)
      BY <1>2, <1>3, <1>4, Zenon
    <2>3. PICK p \in Int, q \in Int : p = a[j] /\ p \in Field /\ q = b[j] /\ q \in Field
      BY <2>1, Zenon
    <2>4. ((p - q) % P) = ((p + ((-q) % P)) % P)
      <3>1. RingAt(p, q, q)
        BY ModRing, Zenon
      <3> QED
        BY <3>1 DEF RingAt
    <2>5. u[j] = ((p - q) % P) /\ w[j] = ((p + ((-q) % P)) % P)
      BY <2>2, <2>3, Zenon
    <2> QED
      BY <2>4, <2>5, Zenon
  <1>6. u = w
    BY <1>5, VecEqual, Zenon
  <1> QED
    BY <1>6, <1>2, <1>3, <1>4, Zenon

\* What is subtracted and added again.
LEMMA SubAdd ==
    ASSUME NEW S \in Nat, NEW a \in Vec(S), NEW b \in Vec(S)
    PROVE  VAdd(VSub(a, b), b) = a
  <1>1. 0 \in Int
    OBVIOUS
  <1>2. PICK u \in Vec(S) : u = VSub(a, b) /\ \A j \in 1..S : u[j] = ((a[j] - b[j]) % P)
    <2>1. VecAt(a, b, 0, S)
      BY <1>1, VecAtFacts, Zenon
    <2> QED
      BY <2>1, Zenon DEF VecAt
  <1>3. PICK v \in Vec(S) : v = VAdd(u, b) /\ \A j \in 1..S : v[j] = ((u[j] + b[j]) % P)
    <2>1. VecAt(u, b, 0, S)
      BY <1>1, VecAtFacts, Zenon
    <2> QED
      BY <2>1, Zenon DEF VecAt
  <1>4. ASSUME NEW j \in 1..S PROVE v[j] = a[j]
    <2>1. a[j] \in Int /\ a[j] \in Field /\ b[j] \in Int /\ b[j] \in Field
      BY VecFacts, Zenon
    <2>2. u[j] = ((a[j] - b[j]) % P) /\ v[j] = ((u[j] + b[j]) % P)
      BY <1>2, <1>3, Zenon
    <2>3. PICK p \in Int, q \in Int : p = a[j] /\ p \in Field /\ q = b[j] /\ q \in Field
      BY <2>1, Zenon
    <2>4. ((((p - q) % P) + q) % P) = p
      <3>1. (((p - q) % P) + q) % P = p % P
        <4>1. RingAt(p, q, q)
          BY ModRing, Zenon
        <4> QED
          BY <4>1 DEF RingAt
      <3>2. p % P = p
        BY <2>3, ModField
      <3> QED
        BY <3>1, <3>2
    <2>5. v[j] = ((((p - q) % P) + q) % P) /\ a[j] = p
      BY <2>2, <2>3, Zenon
    <2> QED
      BY <2>4, <2>5, Zenon
  <1>5. v = a
    BY <1>4, VecEqual, Zenon
  <1> QED
    BY <1>5, <1>2, <1>3, Zenon

\* What is added and subtracted again.
LEMMA AddSub ==
    ASSUME NEW S \in Nat, NEW a \in Vec(S), NEW b \in Vec(S)
    PROVE  VSub(VAdd(a, b), b) = a
  <1>1. 0 \in Int
    OBVIOUS
  <1>2. PICK u \in Vec(S) : u = VAdd(a, b) /\ \A j \in 1..S : u[j] = ((a[j] + b[j]) % P)
    <2>1. VecAt(a, b, 0, S)
      BY <1>1, VecAtFacts, Zenon
    <2> QED
      BY <2>1, Zenon DEF VecAt
  <1>3. PICK v \in Vec(S) : v = VSub(u, b) /\ \A j \in 1..S : v[j] = ((u[j] - b[j]) % P)
    <2>1. VecAt(u, b, 0, S)
      BY <1>1, VecAtFacts, Zenon
    <2> QED
      BY <2>1, Zenon DEF VecAt
  <1>4. ASSUME NEW j \in 1..S PROVE v[j] = a[j]
    <2>1. a[j] \in Int /\ a[j] \in Field /\ b[j] \in Int /\ b[j] \in Field
      BY VecFacts, Zenon
    <2>2. u[j] = ((a[j] + b[j]) % P) /\ v[j] = ((u[j] - b[j]) % P)
      BY <1>2, <1>3, Zenon
    <2>3. PICK p \in Int, q \in Int : p = a[j] /\ p \in Field /\ q = b[j] /\ q \in Field
      BY <2>1, Zenon
    <2>4. ((((p + q) % P) - q) % P) = p
      <3>1. (((p + q) % P) - q) % P = p % P
        <4>1. RingAt(p, q, q)
          BY ModRing, Zenon
        <4> QED
          BY <4>1 DEF RingAt
      <3>2. p % P = p
        BY <2>3, ModField
      <3> QED
        BY <3>1, <3>2
    <2>5. v[j] = ((((p + q) % P) - q) % P) /\ a[j] = p
      BY <2>2, <2>3, Zenon
    <2> QED
      BY <2>4, <2>5, Zenon
  <1>5. v = a
    BY <1>4, VecEqual, Zenon
  <1> QED
    BY <1>5, <1>2, <1>3, Zenon

\* Two signs cancel.
LEMMA NegTwice ==
    ASSUME NEW S \in Nat, NEW a \in Vec(S)
    PROVE  VNeg(VNeg(a)) = a
  <1>1. 0 \in Int
    OBVIOUS
  <1>2. PICK u \in Vec(S) : u = VNeg(a) /\ \A j \in 1..S : u[j] = ((-a[j]) % P)
    <2>1. VecAt(a, a, 0, S)
      BY <1>1, VecAtFacts, Zenon
    <2> QED
      BY <2>1, Zenon DEF VecAt
  <1>3. PICK v \in Vec(S) : v = VNeg(u) /\ \A j \in 1..S : v[j] = ((-u[j]) % P)
    <2>1. VecAt(u, u, 0, S)
      BY <1>1, VecAtFacts, Zenon
    <2> QED
      BY <2>1, Zenon DEF VecAt
  <1>4. ASSUME NEW j \in 1..S PROVE v[j] = a[j]
    <2>1. a[j] \in Int /\ a[j] \in Field
      BY VecFacts, Zenon
    <2>2. u[j] = ((-a[j]) % P) /\ v[j] = ((-u[j]) % P)
      BY <1>2, <1>3, Zenon
    <2>3. PICK p \in Int : p = a[j] /\ p \in Field
      BY <2>1, Zenon
    <2>4. ((-((-p) % P)) % P) = p
      <3>1. 0 \in Int /\ p % P = p /\ 0 - p \in Int
        BY <2>3, ModField
      <3>2. (0 - ((0 - p) % P)) % P = (0 - (0 - p)) % P
        BY <3>1, ModTimes, Zenon
      <3>3. 0 - (0 - p) = p /\ 0 - p = -p
        OBVIOUS
      <3>4. PICK r \in Int : r = (-p) % P
        <4>1. -p \in Int
          OBVIOUS
        <4> QED
          BY <4>1, ModField, Zenon
      <3>5. 0 - r = -r
        OBVIOUS
      <3> QED
        BY <3>1, <3>2, <3>3, <3>4, <3>5
    <2>5. v[j] = ((-((-p) % P)) % P) /\ a[j] = p
      BY <2>2, <2>3, Zenon
    <2> QED
      BY <2>4, <2>5, Zenon
  <1>5. v = a
    BY <1>4, VecEqual, Zenon
  <1> QED
    BY <1>5, <1>2, <1>3, Zenon

-----------------------------------------------------------------------------
(* Sums of vectors *)

\* The order of four summands.
LEMMA AddSwap ==
    ASSUME NEW S \in Nat, NEW a \in Vec(S), NEW b \in Vec(S), NEW x \in Vec(S), NEW y \in Vec(S)
    PROVE  VAdd(VAdd(a, b), VAdd(x, y)) = VAdd(VAdd(a, x), VAdd(b, y))
  <1>1. VAdd(b, y) \in Vec(S) /\ VAdd(x, y) \in Vec(S)
    <2>1. 0 \in Int
      OBVIOUS
    <2> QED
      BY <2>1, VecOps, Zenon
  <1>2. VAdd(VAdd(a, b), VAdd(x, y)) = VAdd(a, VAdd(b, VAdd(x, y)))
    <2>1. Three(S, a, b, VAdd(x, y))
      BY <1>1, Zenon DEF Three
    <2> QED
      BY <2>1, ThreeLaws
  <1>3. VAdd(b, VAdd(x, y)) = VAdd(VAdd(b, x), y)
    BY AddAssoc, Zenon
  <1>4. VAdd(b, x) = VAdd(x, b)
    BY AddComm, Zenon
  <1>5. VAdd(VAdd(x, b), y) = VAdd(x, VAdd(b, y))
    BY AddAssoc, Zenon
  <1>6. VAdd(a, VAdd(x, VAdd(b, y))) = VAdd(VAdd(a, x), VAdd(b, y))
    <2>1. Three(S, a, x, VAdd(b, y))
      BY <1>1, Zenon DEF Three
    <2> QED
      BY <2>1, ThreeLaws
  <1> QED
    BY <1>2, <1>3, <1>4, <1>5, <1>6, Zenon

\* Four vectors of S slots.
Four(S, a, b, x, y) == S \in Nat /\ a \in Vec(S) /\ b \in Vec(S) /\ x \in Vec(S) /\ y \in Vec(S)

\* Two sums added crosswise.
LEMMA SwapOf ==
    ASSUME NEW S, NEW a, NEW b, NEW x, NEW y, Four(S, a, b, x, y)
    PROVE  VAdd(VAdd(a, b), VAdd(x, y)) = VAdd(VAdd(a, x), VAdd(b, y))
  <1>1. S \in Nat /\ a \in Vec(S) /\ b \in Vec(S) /\ x \in Vec(S) /\ y \in Vec(S)
    BY Zenon DEF Four
  <1> QED
    BY <1>1, AddSwap

\* Zero is a vector.
LEMMA ZeroVec == ASSUME NEW S \in Nat PROVE Zeros(S) \in Vec(S)
  BY ModulusFacts DEF Zeros, Vec

\* The first k elements.
Prefix(f, k) == [i \in 1..k |-> f[i]]

\* Their sum.
PSum(f, S, k) == VSum(Prefix(f, k), S)

\* A sum of nothing.
LEMMA PSumZero == ASSUME NEW f, NEW S PROVE PSum(f, S, 0) = Zeros(S)
  <1>1. DOMAIN Prefix(f, 0) = 1..0 /\ 0 \in Nat
    BY DEF Prefix
  <1>2. PICK t : VSumTable(t, Prefix(f, 0), S, 0) /\ VSum(Prefix(f, 0), S) = t[0]
    BY <1>1, VSumSteps
  <1> QED
    BY <1>2, Zenon DEF VSumTable, PSum

\* One more element.
LEMMA PSumNext ==
    ASSUME NEW f, NEW S, NEW k \in Nat
    PROVE  PSum(f, S, k + 1) = VAdd(PSum(f, S, k), f[k + 1])
  <1>1. DOMAIN Prefix(f, k) = 1..k /\ DOMAIN Prefix(f, k + 1) = 1..(k + 1) /\ k + 1 \in Nat
    BY DEF Prefix
  <1>2. PICK t : VSumTable(t, Prefix(f, k), S, k) /\ VSum(Prefix(f, k), S) = t[k]
    BY <1>1, VSumSteps
  <1>3. PICK u : VSumTable(u, Prefix(f, k + 1), S, k + 1) /\ VSum(Prefix(f, k + 1), S) = u[k + 1]
    BY <1>1, VSumSteps
  <1> DEFINE T == {i \in Nat : i <= k => t[i] = u[i]}
  <1>4. 0 \in T
    BY <1>2, <1>3 DEF VSumTable
  <1>5. ASSUME NEW i \in T PROVE i + 1 \in T
    <2>1. i \in Nat /\ i + 1 \in Nat /\ (i + 1) - 1 = i
      OBVIOUS
    <2>2. ASSUME i + 1 <= k PROVE t[i + 1] = u[i + 1]
      <3>1. i + 1 \in 1..k /\ i + 1 \in 1..(k + 1) /\ i <= k
        BY <2>1, <2>2
      <3>2. t[i] = u[i]
        BY <3>1
      <3>3. Prefix(f, k)[i + 1] = f[i + 1] /\ Prefix(f, k + 1)[i + 1] = f[i + 1]
        BY <3>1, Zenon DEF Prefix
      <3>4. t[i + 1] = VAdd(t[(i + 1) - 1], Prefix(f, k)[i + 1])
        BY <1>2, <3>1, Zenon DEF VSumTable
      <3>5. u[i + 1] = VAdd(u[(i + 1) - 1], Prefix(f, k + 1)[i + 1])
        BY <1>3, <3>1, Zenon DEF VSumTable
      <3> QED
        BY <2>1, <3>2, <3>3, <3>4, <3>5, Zenon
    <2> QED
      BY <2>1, <2>2
  <1>6. T = Nat
    <2>1. T \in SUBSET Nat
      OBVIOUS
    <2> HIDE DEF T
    <2> QED
      BY <1>4, <1>5, <2>1, Climb
  <1>7. t[k] = u[k]
    BY <1>6
  <1>8. k + 1 \in 1..(k + 1) /\ (k + 1) - 1 = k
    OBVIOUS
  <1>9. u[k + 1] = VAdd(u[(k + 1) - 1], Prefix(f, k + 1)[k + 1])
    BY <1>3, <1>8, Zenon DEF VSumTable
  <1>10. Prefix(f, k + 1)[k + 1] = f[k + 1]
    BY <1>8, Zenon DEF Prefix
  <1> QED
    BY <1>2, <1>3, <1>7, <1>8, <1>9, <1>10, Zenon DEF PSum

\* A sum over a sequence is one over all its places.
LEMMA PSumWhole ==
    ASSUME NEW n \in Nat, NEW f, f = [i \in 1..n |-> f[i]], NEW S
    PROVE  VSum(f, S) = PSum(f, S, n)
  BY Zenon DEF PSum, Prefix

\* A sum depends on its elements only.
LEMMA PSumSame ==
    ASSUME NEW n \in Nat, NEW f, NEW g, \A i \in 1..n : f[i] = g[i], NEW S
    PROVE  PSum(f, S, n) = PSum(g, S, n)
  <1>1. Prefix(f, n) = Prefix(g, n)
    BY Zenon DEF Prefix
  <1> QED
    BY <1>1, Zenon DEF PSum

\* A sum of vectors is a vector.
LEMMA PSumVec ==
    ASSUME NEW n \in Nat, NEW S \in Nat, NEW f, \A i \in 1..n : f[i] \in Vec(S)
    PROVE  PSum(f, S, n) \in Vec(S)
  <1>1. DOMAIN Prefix(f, n) = 1..n /\ \A k \in 1..n : Prefix(f, n)[k] \in Vec(S)
    BY DEF Prefix
  <1> QED
    BY <1>1, VSumVec DEF PSum

\* The sum of sums.
LEMMA PSumAdd ==
    ASSUME NEW n \in Nat, NEW S \in Nat, NEW f, NEW g, NEW h,
           \A i \in 1..n : f[i] \in Vec(S) /\ g[i] \in Vec(S) /\ h[i] = VAdd(f[i], g[i])
    PROVE  PSum(h, S, n) = VAdd(PSum(f, S, n), PSum(g, S, n))
  <1> DEFINE T == {k \in Nat : k <= n => PSum(h, S, k) = VAdd(PSum(f, S, k), PSum(g, S, k))}
  <1>1. 0 \in T
    <2>1. Zeros(S) \in Vec(S)
      BY ZeroVec, Zenon
    <2>2. PSum(h, S, 0) = VAdd(PSum(f, S, 0), PSum(g, S, 0))
      BY <2>1, PSumZero, AddZero, Zenon
    <2> QED
      BY <2>2
  <1>2. ASSUME NEW k \in T PROVE k + 1 \in T
    <2>1. k \in Nat /\ k + 1 \in Nat
      OBVIOUS
    <2>2. ASSUME k + 1 <= n PROVE PSum(h, S, k + 1) = VAdd(PSum(f, S, k + 1), PSum(g, S, k + 1))
      <3>1. k + 1 \in 1..n /\ k <= n /\ 1..k \subseteq 1..n
        BY <2>1, <2>2
      <3>2. PSum(h, S, k) = VAdd(PSum(f, S, k), PSum(g, S, k))
        BY <3>1
      <3>3. PICK a \in Vec(S), b \in Vec(S) : a = PSum(f, S, k) /\ b = PSum(g, S, k)
        <4>1. (\A i \in 1..k : f[i] \in Vec(S)) /\ (\A i \in 1..k : g[i] \in Vec(S))
          BY <3>1, Zenon
        <4> QED
          BY <2>1, <4>1, PSumVec, Zenon
      <3>4. PICK x \in Vec(S), y \in Vec(S) : x = f[k + 1] /\ y = g[k + 1]
        BY <3>1, Zenon
      <3>5. h[k + 1] = VAdd(x, y)
        BY <3>1, <3>4, Zenon
      <3>6. /\ PSum(h, S, k + 1) = VAdd(VAdd(a, b), VAdd(x, y))
            /\ PSum(f, S, k + 1) = VAdd(a, x) /\ PSum(g, S, k + 1) = VAdd(b, y)
        BY <2>1, <3>2, <3>3, <3>4, <3>5, PSumNext, Zenon
      <3>7. VAdd(VAdd(a, b), VAdd(x, y)) = VAdd(VAdd(a, x), VAdd(b, y))
        <4>1. Four(S, a, b, x, y)
          BY Zenon DEF Four
        <4> QED
          BY <4>1, SwapOf
      <3> QED
        BY <3>6, <3>7, Zenon
    <2> QED
      BY <2>1, <2>2
  <1>3. T = Nat
    <2>1. T \in SUBSET Nat
      OBVIOUS
    <2> HIDE DEF T
    <2> QED
      BY <1>1, <1>2, <2>1, Climb
  <1> QED
    BY <1>3

\* h is f and g added place by place.
AllPlus(f, g, h, S, n) ==
    /\ n \in Nat /\ S \in Nat
    /\ \A i \in 1..n : f[i] \in Vec(S) /\ g[i] \in Vec(S) /\ h[i] = VAdd(f[i], g[i])

\* The sum of sums, from that predicate.
LEMMA PSumPlusOf ==
    ASSUME NEW f, NEW g, NEW h, NEW S, NEW n, AllPlus(f, g, h, S, n)
    PROVE  PSum(h, S, n) = VAdd(PSum(f, S, n), PSum(g, S, n))
  <1>1. n \in Nat /\ S \in Nat
    BY Zenon DEF AllPlus
  <1>2. \A i \in 1..n : f[i] \in Vec(S) /\ g[i] \in Vec(S) /\ h[i] = VAdd(f[i], g[i])
    BY Zenon DEF AllPlus
  <1> QED
    BY <1>1, <1>2, PSumAdd

\* A common factor.
LEMMA PSumMul ==
    ASSUME NEW n \in Nat, NEW S \in Nat, NEW f, NEW h, NEW r \in Vec(S),
           \A i \in 1..n : f[i] \in Vec(S) /\ h[i] = VMul(f[i], r)
    PROVE  PSum(h, S, n) = VMul(PSum(f, S, n), r)
  <1> DEFINE T == {k \in Nat : k <= n => PSum(h, S, k) = VMul(PSum(f, S, k), r)}
  <1>1. 0 \in T
    <2>1. PSum(h, S, 0) = VMul(PSum(f, S, 0), r)
      BY PSumZero, ZeroMul, Zenon
    <2> QED
      BY <2>1
  <1>2. ASSUME NEW k \in T PROVE k + 1 \in T
    <2>1. k \in Nat /\ k + 1 \in Nat
      OBVIOUS
    <2>2. ASSUME k + 1 <= n PROVE PSum(h, S, k + 1) = VMul(PSum(f, S, k + 1), r)
      <3>1. k + 1 \in 1..n /\ k <= n /\ 1..k \subseteq 1..n
        BY <2>1, <2>2
      <3>2. PSum(h, S, k) = VMul(PSum(f, S, k), r)
        BY <3>1
      <3>3. PICK a \in Vec(S) : a = PSum(f, S, k)
        <4>1. \A i \in 1..k : f[i] \in Vec(S)
          BY <3>1, Zenon
        <4> QED
          BY <2>1, <4>1, PSumVec, Zenon
      <3>4. PICK x \in Vec(S) : x = f[k + 1]
        BY <3>1, Zenon
      <3>5. h[k + 1] = VMul(x, r)
        BY <3>1, <3>4, Zenon
      <3>6. PSum(h, S, k + 1) = VAdd(VMul(a, r), VMul(x, r)) /\ PSum(f, S, k + 1) = VAdd(a, x)
        BY <2>1, <3>2, <3>3, <3>4, <3>5, PSumNext, Zenon
      <3>7. VMul(VAdd(a, x), r) = VAdd(VMul(a, r), VMul(x, r))
        BY AddMul, Zenon
      <3> QED
        BY <3>6, <3>7, Zenon
    <2> QED
      BY <2>1, <2>2
  <1>3. T = Nat
    <2>1. T \in SUBSET Nat
      OBVIOUS
    <2> HIDE DEF T
    <2> QED
      BY <1>1, <1>2, <2>1, Climb
  <1> QED
    BY <1>3

\* h is f with every place multiplied by r.
AllTimes(f, h, r, S, n) ==
    /\ n \in Nat /\ S \in Nat /\ r \in Vec(S)
    /\ \A i \in 1..n : f[i] \in Vec(S) /\ h[i] = VMul(f[i], r)

\* A common factor, from that predicate.
LEMMA PSumTimesOf ==
    ASSUME NEW f, NEW h, NEW r, NEW S, NEW n, AllTimes(f, h, r, S, n)
    PROVE  PSum(h, S, n) = VMul(PSum(f, S, n), r)
  <1>1. n \in Nat /\ S \in Nat /\ r \in Vec(S)
    BY Zenon DEF AllTimes
  <1>2. \A i \in 1..n : f[i] \in Vec(S) /\ h[i] = VMul(f[i], r)
    BY Zenon DEF AllTimes
  <1> QED
    BY <1>1, <1>2, PSumMul

\* A sum of zeros.
LEMMA PSumNone ==
    ASSUME NEW n \in Nat, NEW S \in Nat, NEW f, \A i \in 1..n : f[i] = Zeros(S)
    PROVE  PSum(f, S, n) = Zeros(S)
  <1> DEFINE T == {k \in Nat : k <= n => PSum(f, S, k) = Zeros(S)}
  <1>1. 0 \in T
    <2>1. PSum(f, S, 0) = Zeros(S)
      BY PSumZero, Zenon
    <2> QED
      BY <2>1
  <1>2. ASSUME NEW k \in T PROVE k + 1 \in T
    <2>1. k \in Nat /\ k + 1 \in Nat
      OBVIOUS
    <2>2. ASSUME k + 1 <= n PROVE PSum(f, S, k + 1) = Zeros(S)
      <3>1. k + 1 \in 1..n /\ k <= n /\ 1..k \subseteq 1..n
        BY <2>1, <2>2
      <3>2. PSum(f, S, k) = Zeros(S)
        BY <3>1
      <3>3. PSum(f, S, k + 1) = VAdd(Zeros(S), Zeros(S))
        BY <2>1, <3>1, <3>2, PSumNext, Zenon
      <3> QED
        BY <3>3, ZeroVec, AddZero, Zenon
    <2> QED
      BY <2>1, <2>2
  <1>3. T = Nat
    <2>1. T \in SUBSET Nat
      OBVIOUS
    <2> HIDE DEF T
    <2> QED
      BY <1>1, <1>2, <2>1, Climb
  <1> QED
    BY <1>3

\* A sum of one element and zeros.
LEMMA PSumOne ==
    ASSUME NEW n \in Nat, NEW S \in Nat, NEW f, NEW q \in 1..n, f[q] \in Vec(S),
           \A i \in 1..n : i # q => f[i] = Zeros(S)
    PROVE  PSum(f, S, n) = f[q]
  <1> DEFINE T == {k \in Nat : k <= n => PSum(f, S, k) = (IF q <= k THEN f[q] ELSE Zeros(S))}
  <1>1. 0 \in T
    <2>1. PSum(f, S, 0) = (IF q <= 0 THEN f[q] ELSE Zeros(S))
      <3>1. ~(q <= 0)
        OBVIOUS
      <3> QED
        BY <3>1, PSumZero, Zenon
    <2> QED
      BY <2>1
  <1>2. ASSUME NEW k \in T PROVE k + 1 \in T
    <2>1. k \in Nat /\ k + 1 \in Nat
      OBVIOUS
    <2>2. ASSUME k + 1 <= n PROVE PSum(f, S, k + 1) = (IF q <= k + 1 THEN f[q] ELSE Zeros(S))
      <3>1. k + 1 \in 1..n /\ k <= n /\ 1..k \subseteq 1..n
        BY <2>1, <2>2
      <3>2. PSum(f, S, k) = (IF q <= k THEN f[q] ELSE Zeros(S))
        BY <3>1
      <3>3. PSum(f, S, k + 1) = VAdd(PSum(f, S, k), f[k + 1])
        BY <2>1, PSumNext, Zenon
      <3>4. CASE q <= k
        <4>1. q <= k + 1 /\ k + 1 # q
          BY <2>1, <3>4
        <4>2. PSum(f, S, k + 1) = VAdd(f[q], Zeros(S))
          BY <3>1, <3>2, <3>3, <3>4, <4>1, Zenon
        <4>3. VAdd(f[q], Zeros(S)) = f[q]
          BY AddZero, Zenon
        <4> QED
          BY <4>1, <4>2, <4>3, Zenon
      <3>5. CASE ~(q <= k) /\ q # k + 1
        <4>1. ~(q <= k + 1)
          BY <2>1, <3>5
        <4>2. PSum(f, S, k + 1) = VAdd(Zeros(S), Zeros(S))
          BY <3>1, <3>2, <3>3, <3>5, Zenon
        <4> QED
          BY <4>1, <4>2, ZeroVec, AddZero, Zenon
      <3>6. CASE ~(q <= k) /\ q = k + 1
        <4>1. q <= k + 1
          BY <2>1, <3>6
        <4>2. PSum(f, S, k + 1) = VAdd(Zeros(S), f[q])
          BY <3>2, <3>3, <3>6, Zenon
        <4>3. VAdd(Zeros(S), f[q]) = f[q]
          BY ZeroAdd, Zenon
        <4> QED
          BY <4>1, <4>2, <4>3, Zenon
      <3> QED
        BY <3>4, <3>5, <3>6, Zenon
    <2> QED
      BY <2>1, <2>2
  <1>3. T = Nat
    <2>1. T \in SUBSET Nat
      OBVIOUS
    <2> HIDE DEF T
    <2> QED
      BY <1>1, <1>2, <2>1, Climb
  <1>4. q <= n /\ n <= n
    OBVIOUS
  <1>5. PSum(f, S, n) = (IF q <= n THEN f[q] ELSE Zeros(S))
    BY <1>3, <1>4
  <1> QED
    BY <1>4, <1>5, Zenon

\* f is zero but at q.
OneKept(f, q, S, n) ==
    /\ n \in Nat /\ S \in Nat /\ q \in 1..n /\ f[q] \in Vec(S)
    /\ \A i \in 1..n : i # q => f[i] = Zeros(S)

\* A sum of one, from that predicate.
LEMMA PSumOneOf ==
    ASSUME NEW f, NEW q, NEW S, NEW n, OneKept(f, q, S, n)
    PROVE  PSum(f, S, n) = f[q]
  <1>1. n \in Nat /\ S \in Nat /\ q \in 1..n /\ f[q] \in Vec(S)
    BY Zenon DEF OneKept
  <1>2. \A i \in 1..n : i # q => f[i] = Zeros(S)
    BY Zenon DEF OneKept
  <1> QED
    BY <1>1, <1>2, PSumOne

\* The elements from n + 1 on.
Suffix(f, n, m) == [i \in 1..m |-> f[n + i]]

\* A sum in two parts.
LEMMA PSumSplit ==
    ASSUME NEW p \in Nat, NEW n \in Nat, NEW S \in Nat, NEW f, \A i \in 1..(p + n) : f[i] \in Vec(S)
    PROVE  PSum(f, S, p + n) = VAdd(PSum(f, S, p), PSum(Suffix(f, p, n), S, n))
  <1> DEFINE T == {k \in Nat : k <= n => PSum(f, S, p + (k)) = VAdd(PSum(f, S, p), PSum(Suffix(f, p, n), S, k))}
  <1>0. \A i \in 1..p : f[i] \in Vec(S)
    <2>1. 1..p \subseteq 1..(p + n)
      OBVIOUS
    <2> QED
      BY <2>1, Zenon
  <1>1. 0 \in T
    <2>1. PSum(f, S, p + (0)) = VAdd(PSum(f, S, p), PSum(Suffix(f, p, n), S, 0))
      <3>1. p + 0 = p
        OBVIOUS
      <3>2. PSum(f, S, p) \in Vec(S)
        BY <1>0, PSumVec, Zenon
      <3>3. VAdd(PSum(f, S, p), Zeros(S)) = PSum(f, S, p)
        BY <3>2, AddZero, Zenon
      <3> QED
        BY <3>1, <3>3, PSumZero, Zenon
    <2> QED
      BY <2>1
  <1>2. ASSUME NEW k \in T PROVE k + 1 \in T
    <2>1. k \in Nat /\ k + 1 \in Nat
      OBVIOUS
    <2>2. ASSUME k + 1 <= n PROVE PSum(f, S, p + (k + 1)) = VAdd(PSum(f, S, p), PSum(Suffix(f, p, n), S, k + 1))
      <3>1. k + 1 \in 1..n /\ k <= n /\ 1..k \subseteq 1..n
        BY <2>1, <2>2
      <3>2. PSum(f, S, p + (k)) = VAdd(PSum(f, S, p), PSum(Suffix(f, p, n), S, k))
        BY <3>1
      <3>3. PICK a \in Vec(S) : a = PSum(f, S, p)
        BY <1>0, PSumVec, Zenon
      <3>4. PICK x \in Vec(S) : x = f[p + (k + 1)]
        <4>1. p + (k + 1) \in 1..(p + n)
          BY <3>1
        <4> QED
          BY <4>1, Zenon
      <3>5. PICK b \in Vec(S) : b = PSum(Suffix(f, p, n), S, k)
        <4>1. ASSUME NEW i \in 1..k PROVE Suffix(f, p, n)[i] \in Vec(S)
          <5>1. i \in 1..n /\ p + i \in 1..(p + n)
            BY <2>1, <3>1
          <5>2. Suffix(f, p, n)[i] = f[p + i]
            BY <5>1, Zenon DEF Suffix
          <5> QED
            BY <5>1, <5>2, Zenon
        <4> QED
          BY <2>1, <4>1, PSumVec, Zenon
      <3>6. Suffix(f, p, n)[k + 1] = x
        BY <3>1, <3>4, Zenon DEF Suffix
      <3>7. p + k \in Nat /\ p + (k + 1) = (p + k) + 1
        BY <2>1
      <3>8. PSum(f, S, p + (k + 1)) = VAdd(VAdd(a, b), x)
        BY <3>2, <3>3, <3>4, <3>5, <3>7, PSumNext, Zenon
      <3>9. PSum(Suffix(f, p, n), S, k + 1) = VAdd(b, x)
        BY <2>1, <3>5, <3>6, PSumNext, Zenon
      <3>10. VAdd(VAdd(a, b), x) = VAdd(a, VAdd(b, x))
        BY AddAssoc, Zenon
      <3> QED
        BY <3>3, <3>8, <3>9, <3>10, Zenon
    <2> QED
      BY <2>1, <2>2
  <1>3. T = Nat
    <2>1. T \in SUBSET Nat
      OBVIOUS
    <2> HIDE DEF T
    <2> QED
      BY <1>1, <1>2, <2>1, Climb
  <1> QED
    BY <1>3

\* A table of n rows and m columns of vectors.
Matrix(F, n, m, S) == \A k \in 1..n, p \in 1..m : F[k][p] \in Vec(S)

\* Column p.
Col(F, p, n) == [k \in 1..n |-> F[k][p]]

\* The sums of the rows.
RowSums(F, S, n, m) == [k \in 1..n |-> PSum(F[k], S, m)]

\* The sums of the columns, as far as row k.
ColSums(F, S, n, m, k) == [p \in 1..m |-> PSum(Col(F, p, n), S, k)]

\* A table is summed by rows or by columns.
LEMMA PSumSwap ==
    ASSUME NEW n \in Nat, NEW m \in Nat, NEW S \in Nat, NEW F, Matrix(F, n, m, S)
    PROVE  PSum(RowSums(F, S, n, m), S, n) = PSum(ColSums(F, S, n, m, n), S, m)
  <1> DEFINE T == {k \in Nat : k <= n => PSum(RowSums(F, S, n, m), S, k) = PSum(ColSums(F, S, n, m, k), S, m)}
  <1>1. 0 \in T
    <2>1. PSum(RowSums(F, S, n, m), S, 0) = PSum(ColSums(F, S, n, m, 0), S, m)
      <3>1. \A p \in 1..m : ColSums(F, S, n, m, 0)[p] = Zeros(S)
        BY PSumZero, Zenon DEF ColSums
      <3>2. PSum(ColSums(F, S, n, m, 0), S, m) = Zeros(S)
        BY <3>1, PSumNone, Zenon
      <3> QED
        BY <3>2, PSumZero, Zenon
    <2> QED
      BY <2>1
  <1>2. ASSUME NEW k \in T PROVE k + 1 \in T
    <2>1. k \in Nat /\ k + 1 \in Nat
      OBVIOUS
    <2>2. ASSUME k + 1 <= n PROVE PSum(RowSums(F, S, n, m), S, k + 1) = PSum(ColSums(F, S, n, m, k + 1), S, m)
      <3>1. k + 1 \in 1..n /\ k <= n /\ 1..k \subseteq 1..n
        BY <2>1, <2>2
      <3>2. PSum(RowSums(F, S, n, m), S, k) = PSum(ColSums(F, S, n, m, k), S, m)
        BY <3>1
      <3>3. ASSUME NEW p \in 1..m
            PROVE  /\ ColSums(F, S, n, m, k)[p] \in Vec(S) /\ F[k + 1][p] \in Vec(S)
                   /\ ColSums(F, S, n, m, k + 1)[p] = VAdd(ColSums(F, S, n, m, k)[p], F[k + 1][p])
        <4>1. Col(F, p, n)[k + 1] = F[k + 1][p]
          BY <3>1, Zenon DEF Col
        <4>2. /\ ColSums(F, S, n, m, k)[p] = PSum(Col(F, p, n), S, k)
              /\ ColSums(F, S, n, m, k + 1)[p] = PSum(Col(F, p, n), S, k + 1)
          BY Zenon DEF ColSums
        <4>3. ASSUME NEW i \in 1..k PROVE Col(F, p, n)[i] \in Vec(S)
          <5>1. i \in 1..n
            BY <3>1
          <5>2. Col(F, p, n)[i] = F[i][p]
            BY <5>1, Zenon DEF Col
          <5> QED
            BY <5>1, <5>2, Zenon DEF Matrix
        <4>4. PSum(Col(F, p, n), S, k) \in Vec(S)
          BY <2>1, <4>3, PSumVec, Zenon
        <4>5. PSum(Col(F, p, n), S, k + 1) = VAdd(PSum(Col(F, p, n), S, k), F[k + 1][p])
          BY <2>1, <4>1, PSumNext, Zenon
        <4>6. F[k + 1][p] \in Vec(S)
          BY <3>1, Zenon DEF Matrix
        <4> QED
          BY <4>2, <4>4, <4>5, <4>6, Zenon
      <3>4. PSum(ColSums(F, S, n, m, k + 1), S, m)
            = VAdd(PSum(ColSums(F, S, n, m, k), S, m), PSum(F[k + 1], S, m))
        <4>1. PICK f, g, h : f = ColSums(F, S, n, m, k) /\ g = F[k + 1] /\ h = ColSums(F, S, n, m, k + 1)
          OBVIOUS
        <4>2. \A p \in 1..m : f[p] \in Vec(S) /\ g[p] \in Vec(S) /\ h[p] = VAdd(f[p], g[p])
          BY <3>3, <4>1, Zenon
        <4>3. PSum(h, S, m) = VAdd(PSum(f, S, m), PSum(g, S, m))
          <5>1. AllPlus(f, g, h, S, m)
            BY <4>2, Zenon DEF AllPlus
          <5> QED
            BY <5>1, PSumPlusOf
        <4> QED
          BY <4>1, <4>3, Zenon
      <3>5. RowSums(F, S, n, m)[k + 1] = PSum(F[k + 1], S, m)
        BY <3>1, Zenon DEF RowSums
      <3>6. PSum(RowSums(F, S, n, m), S, k + 1)
            = VAdd(PSum(RowSums(F, S, n, m), S, k), RowSums(F, S, n, m)[k + 1])
        BY <2>1, PSumNext, Zenon
      <3> QED
        BY <3>2, <3>4, <3>5, <3>6, Zenon
    <2> QED
      BY <2>1, <2>2
  <1>3. T = Nat
    <2>1. T \in SUBSET Nat
      OBVIOUS
    <2> HIDE DEF T
    <2> QED
      BY <1>1, <1>2, <2>1, Climb
  <1> QED
    BY <1>3

-----------------------------------------------------------------------------
(* Sums by groups *)

\* The elements whose key is p, zeros for the others.
Parted(f, q, p, n, S) == [k \in 1..n |-> IF q[k] = p THEN f[k] ELSE Zeros(S)]

\* Their sum.
Part(f, q, p, n, S) == PSum(Parted(f, q, p, n, S), S, n)

\* The sums of the groups.
Parts(f, q, n, m, S) == [p \in 1..m |-> Part(f, q, p, n, S)]

\* A sum can be taken group by group.
LEMMA PSumGroup ==
    ASSUME NEW n \in Nat, NEW m \in Nat, NEW S \in Nat, NEW f, NEW q,
           \A k \in 1..n : f[k] \in Vec(S), \A k \in 1..n : q[k] \in 1..m \/ f[k] = Zeros(S)
    PROVE  PSum(f, S, n) = PSum(Parts(f, q, n, m, S), S, m)
  <1> DEFINE F == [k \in 1..n |-> [p \in 1..m |-> IF q[k] = p THEN f[k] ELSE Zeros(S)]]
  <1>1. \A k \in 1..n, p \in 1..m : F[k][p] = IF q[k] = p THEN f[k] ELSE Zeros(S)
    BY Zenon
  <1> HIDE DEF F
  <1>2. Matrix(F, n, m, S)
    <2>1. ASSUME NEW k \in 1..n, NEW p \in 1..m PROVE F[k][p] \in Vec(S)
      <3>1. f[k] \in Vec(S) /\ Zeros(S) \in Vec(S)
        BY ZeroVec, Zenon
      <3> QED
        BY <1>1, <3>1, Zenon
    <2> QED
      BY <2>1, Zenon DEF Matrix
  <1>3. ASSUME NEW k \in 1..n PROVE RowSums(F, S, n, m)[k] = f[k]
    <2>1. RowSums(F, S, n, m)[k] = PSum(F[k], S, m)
      BY Zenon DEF RowSums
    <2>2. CASE q[k] \in 1..m
      <3>1. F[k][q[k]] = f[k] /\ f[k] \in Vec(S)
        BY <1>1, <2>2, Zenon
      <3>2. \A p \in 1..m : p # q[k] => F[k][p] = Zeros(S)
        BY <1>1, Zenon
      <3>3. PSum(F[k], S, m) = F[k][q[k]]
        <4>1. PICK u \in 1..m : u = q[k]
          BY <2>2, Zenon
        <4>2. F[k][u] \in Vec(S) /\ \A p \in 1..m : p # u => F[k][p] = Zeros(S)
          BY <3>1, <3>2, <4>1, Zenon
        <4>3. PSum(F[k], S, m) = F[k][u]
          <5>1. OneKept(F[k], u, S, m)
            BY <4>2, Zenon DEF OneKept
          <5> QED
            BY <5>1, PSumOneOf
        <4> QED
          BY <4>1, <4>3, Zenon
      <3> QED
        BY <2>1, <3>1, <3>3, Zenon
    <2>3. CASE f[k] = Zeros(S)
      <3>1. \A p \in 1..m : F[k][p] = Zeros(S)
        BY <1>1, <2>3, Zenon
      <3>2. PSum(F[k], S, m) = Zeros(S)
        BY <3>1, PSumNone, Zenon
      <3> QED
        BY <2>1, <2>3, <3>2, Zenon
    <2> QED
      BY <2>2, <2>3, Zenon
  <1>4. PSum(RowSums(F, S, n, m), S, n) = PSum(f, S, n)
    BY <1>3, PSumSame, Zenon
  <1>5. ASSUME NEW p \in 1..m PROVE ColSums(F, S, n, m, n)[p] = Parts(f, q, n, m, S)[p]
    <2>1. ColSums(F, S, n, m, n)[p] = PSum(Col(F, p, n), S, n)
      BY Zenon DEF ColSums
    <2>2. \A k \in 1..n : Col(F, p, n)[k] = Parted(f, q, p, n, S)[k]
      BY <1>1, Zenon DEF Col, Parted
    <2>3. PSum(Col(F, p, n), S, n) = PSum(Parted(f, q, p, n, S), S, n)
      BY <2>2, PSumSame, Zenon
    <2> QED
      BY <2>1, <2>3, Zenon DEF Parts, Part
  <1>6. PSum(ColSums(F, S, n, m, n), S, m) = PSum(Parts(f, q, n, m, S), S, m)
    BY <1>5, PSumSame, Zenon
  <1>7. PSum(RowSums(F, S, n, m), S, n) = PSum(ColSums(F, S, n, m, n), S, m)
    BY <1>2, PSumSwap
  <1> QED
    BY <1>4, <1>6, <1>7, Zenon

\* Equal where the provers look for the element.
PartIs(f, q, p, n, S, u) == Part(f, q, p, n, S) = f[u]

\* A group of one element.
LEMMA PartOne ==
    ASSUME NEW n \in Nat, NEW S \in Nat, NEW f, NEW q, NEW p, NEW u \in 1..n, f[u] \in Vec(S),
           q[u] = p, \A k \in 1..n : q[k] = p => k = u
    PROVE  PartIs(f, q, p, n, S, u)
  <1>1. Parted(f, q, p, n, S)[u] = f[u]
    BY Zenon DEF Parted
  <1>2. \A k \in 1..n : k # u => Parted(f, q, p, n, S)[k] = Zeros(S)
    BY Zenon DEF Parted
  <1>3. PSum(Parted(f, q, p, n, S), S, n) = Parted(f, q, p, n, S)[u]
    <2>1. Parted(f, q, p, n, S)[u] \in Vec(S)
      BY <1>1, Zenon
    <2> QED
      <3>1. OneKept(Parted(f, q, p, n, S), u, S, n)
        BY <1>2, <2>1, Zenon DEF OneKept
      <3> QED
        BY <3>1, PSumOneOf
  <1> QED
    BY <1>1, <1>3, Zenon DEF Part, PartIs

\* A group of none.
LEMMA PartNone ==
    ASSUME NEW n \in Nat, NEW S \in Nat, NEW f, NEW q, NEW p, \A k \in 1..n : q[k] # p
    PROVE  Part(f, q, p, n, S) = Zeros(S)
  <1>1. \A k \in 1..n : Parted(f, q, p, n, S)[k] = Zeros(S)
    BY Zenon DEF Parted
  <1> QED
    BY <1>1, PSumNone, Zenon DEF Part

\* The elements at the places of T, zeros at the others.
OnlyAt(f, T, n, S) == [k \in 1..n |-> IF k \in T THEN f[k] ELSE Zeros(S)]

\* The sum of the elements at some places.
LEMMA PSumChosen ==
    ASSUME NEW n \in Nat, NEW S \in Nat, NEW T \in SUBSET (1..n), NEW f, \A k \in T : f[k] \in Vec(S),
           NEW h, \A k \in 1..Cardinality(T) : h[k] = f[KeptAt(T, k)]
    PROVE  PSum(h, S, Cardinality(T)) = PSum(OnlyAt(f, T, n, S), S, n)
  <1>1. KeptRight(T)
    <2>1. Places(T)
      BY DEF Places
    <2> QED
      BY <2>1, KeptFacts
  <1>2. PICK m \in Nat : m = Cardinality(T)
    BY <1>1, Zenon DEF KeptRight
  <1>3. PICK g : g = OnlyAt(f, T, n, S)
    OBVIOUS
  <1> DEFINE q == [k \in 1..n |-> IF k \in T THEN Remap(T, k) ELSE 0]
  <1>4. \A k \in 1..n : q[k] = IF k \in T THEN Remap(T, k) ELSE 0
    BY Zenon
  <1> HIDE DEF q
  <1>5. ASSUME NEW k \in 1..n
        PROVE  g[k] \in Vec(S) /\ (q[k] \in 1..m \/ g[k] = Zeros(S)) /\ (k \in T => g[k] = f[k])
    <2>1. g[k] = IF k \in T THEN f[k] ELSE Zeros(S)
      BY <1>3, Zenon DEF OnlyAt
    <2>2. k \in T => q[k] \in 1..m
      BY <1>1, <1>2, <1>4, Zenon DEF KeptRight
    <2>3. Zeros(S) \in Vec(S)
      BY ZeroVec, Zenon
    <2> QED
      BY <2>1, <2>2, <2>3, Zenon
  <1>6. PSum(g, S, n) = PSum(Parts(g, q, n, m, S), S, m)
    BY <1>5, PSumGroup
  <1>7. ASSUME NEW p \in 1..m PROVE Parts(g, q, n, m, S)[p] = h[p]
    <2>1. PICK u \in T : u = KeptAt(T, p) /\ Remap(T, u) = p
      BY <1>1, <1>2, Zenon DEF KeptRight
    <2>2. u \in 1..n
      OBVIOUS
    <2>3. q[u] = p /\ g[u] = f[u] /\ g[u] \in Vec(S)
      BY <1>4, <1>5, <2>1, <2>2, Zenon
    <2>4. ASSUME NEW k \in 1..n, q[k] = p PROVE k = u
      <3>1. k \in T
        <4>1. p # 0
          OBVIOUS
        <4> QED
          BY <1>4, <2>4, <4>1, Zenon
      <3>2. Remap(T, k) = p
        BY <1>4, <2>4, <3>1, Zenon
      <3>3. KeptAt(T, Remap(T, k)) = k
        BY <1>1, <3>1, Zenon DEF KeptRight
      <3> QED
        BY <2>1, <3>2, <3>3, Zenon
    <2>5. PartIs(g, q, p, n, S, u)
      BY <2>2, <2>3, <2>4, PartOne
    <2>6. h[p] = f[u]
      BY <1>2, <2>1, Zenon
    <2> QED
      BY <2>3, <2>5, <2>6, Zenon DEF Parts, PartIs
  <1>8. PSum(Parts(g, q, n, m, S), S, m) = PSum(h, S, m)
    BY <1>7, PSumSame
  <1> QED
    BY <1>2, <1>3, <1>6, <1>8, Zenon

\* h lists the places of f that are in T.
AllChosen(f, h, T, S, n) ==
    /\ n \in Nat /\ S \in Nat /\ T \in SUBSET (1..n)
    /\ \A k \in T : f[k] \in Vec(S)
    /\ \A k \in 1..Cardinality(T) : h[k] = f[KeptAt(T, k)]

\* The sum over the chosen places, from that predicate.
LEMMA PSumChosenOf ==
    ASSUME NEW f, NEW h, NEW T, NEW S, NEW n, AllChosen(f, h, T, S, n)
    PROVE  PSum(h, S, Cardinality(T)) = PSum(OnlyAt(f, T, n, S), S, n)
  <1>1. n \in Nat /\ S \in Nat /\ T \in SUBSET (1..n)
    BY Zenon DEF AllChosen
  <1>2. \A k \in T : f[k] \in Vec(S)
    BY Zenon DEF AllChosen
  <1>3. \A k \in 1..Cardinality(T) : h[k] = f[KeptAt(T, k)]
    BY Zenon DEF AllChosen
  <1> QED
    BY <1>1, <1>2, <1>3, PSumChosen, Zenon

\* The order from the end.
LEMMA PSumReverse ==
    ASSUME NEW n \in Nat, NEW S \in Nat, NEW f, \A k \in 1..n : f[k] \in Vec(S),
           NEW h, \A k \in 1..n : h[k] = f[(n + 1) - k]
    PROVE  PSum(h, S, n) = PSum(f, S, n)
  <1> DEFINE q == [k \in 1..n |-> (n + 1) - k]
  <1>1. \A k \in 1..n : q[k] = (n + 1) - k
    BY Zenon
  <1> HIDE DEF q
  <1>2. \A k \in 1..n : q[k] \in 1..n
    BY <1>1
  <1>3. PSum(f, S, n) = PSum(Parts(f, q, n, n, S), S, n)
    BY <1>2, PSumGroup
  <1>4. ASSUME NEW p \in 1..n PROVE Parts(f, q, n, n, S)[p] = h[p]
    <2>1. PICK u \in 1..n : u = (n + 1) - p
      OBVIOUS
    <2>2. q[u] = p
      BY <1>1, <2>1
    <2>3. \A k \in 1..n : q[k] = p => k = u
      BY <1>1, <2>1
    <2>4. f[u] \in Vec(S)
      BY Zenon
    <2>5. PartIs(f, q, p, n, S, u)
      BY <2>2, <2>3, <2>4, PartOne
    <2>6. h[p] = f[u]
      BY <2>1
    <2> QED
      BY <2>5, <2>6, Zenon DEF Parts, PartIs
  <1>5. PSum(Parts(f, q, n, n, S), S, n) = PSum(h, S, n)
    BY <1>4, PSumSame
  <1> QED
    BY <1>3, <1>5, Zenon

-----------------------------------------------------------------------------
(* Sums over pairs *)

\* A list of the entries of a table, row by row.
Listed(h, F, n, m) == \A i \in 1..n, j \in 1..m : h[(i - 1) * m + j] = F[i][j]

\* The next row's places.
LEMMA NextRow ==
    ASSUME NEW k \in Nat, NEW m \in Nat
    PROVE  (k + 1) * m = k * m + m /\ k * m \in Nat /\ ((k + 1) - 1) * m = k * m
  OBVIOUS

\* The sum of the list is the sum of the table.
LEMMA PairSum ==
    ASSUME NEW n \in Nat, NEW m \in Nat, NEW S \in Nat, NEW F, Matrix(F, n, m, S), NEW h,
           \A i \in 1..(n * m) : h[i] \in Vec(S), Listed(h, F, n, m)
    PROVE  PSum(h, S, n * m) = PSum(RowSums(F, S, n, m), S, n)
  <1> DEFINE T == {k \in Nat : k <= n => PSum(h, S, (k) * m) = PSum(RowSums(F, S, n, m), S, k)}
  <1>1. 0 \in T
    <2>1. PSum(h, S, (0) * m) = PSum(RowSums(F, S, n, m), S, 0)
      <3>1. 0 * m = 0
        OBVIOUS
      <3> QED
        BY <3>1, PSumZero, Zenon
    <2> QED
      BY <2>1
  <1>2. ASSUME NEW k \in T PROVE k + 1 \in T
    <2>1. k \in Nat /\ k + 1 \in Nat
      OBVIOUS
    <2>2. ASSUME k + 1 <= n PROVE PSum(h, S, (k + 1) * m) = PSum(RowSums(F, S, n, m), S, k + 1)
      <3>1. k + 1 \in 1..n /\ k <= n /\ 1..k \subseteq 1..n
        BY <2>1, <2>2
      <3>2. PSum(h, S, (k) * m) = PSum(RowSums(F, S, n, m), S, k)
        BY <3>1
      <3>3. (k + 1) * m = k * m + m /\ k * m \in Nat /\ ((k + 1) - 1) * m = k * m
        BY <2>1, NextRow
      <3>4. PICK r \in Nat : r = k * m
        BY <3>3, Zenon
      <3>5. r + m <= n * m
        <4>1. PICK d \in Nat : n = (k + 1) + d
          <5>1. n - (k + 1) \in Nat /\ n = (k + 1) + (n - (k + 1))
            BY <2>1, <2>2
          <5> QED
            BY <5>1, Zenon
        <4>2. n * m = (k + 1) * m + d * m /\ d * m \in Nat
          BY <2>1, <4>1
        <4>3. PICK e \in Nat, nm \in Nat : e = d * m /\ nm = n * m /\ nm = (r + m) + e
          <5>1. n * m \in Nat
            OBVIOUS
          <5> QED
            BY <3>3, <3>4, <4>2, <5>1, Zenon
        <4>4. r + m <= nm
          BY <4>3
        <4> QED
          BY <4>3, <4>4, Zenon
      <3>6. \A i \in 1..(r + m) : h[i] \in Vec(S)
        <4>1. n * m \in Nat
          OBVIOUS
        <4>2. PICK nm \in Nat : nm = n * m
          BY <4>1, Zenon
        <4>3. \A i \in 1..(r + m) : i \in 1..nm
          BY <3>5, <4>2
        <4> QED
          BY <4>2, <4>3, Zenon
      <3>7. PSum(h, S, r + m) = VAdd(PSum(h, S, r), PSum(Suffix(h, r, m), S, m))
        BY <3>6, PSumSplit
      <3>8. ASSUME NEW j \in 1..m PROVE Suffix(h, r, m)[j] = F[k + 1][j]
        <4>1. h[((k + 1) - 1) * m + j] = F[k + 1][j]
          BY <3>1, Zenon DEF Listed
        <4>2. Suffix(h, r, m)[j] = h[r + j]
          BY Zenon DEF Suffix
        <4> QED
          BY <3>3, <3>4, <4>1, <4>2, Zenon
      <3>9. PSum(Suffix(h, r, m), S, m) = PSum(F[k + 1], S, m)
        <4>1. PICK u, v : u = Suffix(h, r, m) /\ v = F[k + 1]
          OBVIOUS
        <4>2. \A j \in 1..m : u[j] = v[j]
          BY <3>8, <4>1, Zenon
        <4>3. PSum(u, S, m) = PSum(v, S, m)
          BY <4>2, PSumSame
        <4> QED
          BY <4>1, <4>3, Zenon
      <3>10. RowSums(F, S, n, m)[k + 1] = PSum(F[k + 1], S, m)
        BY <3>1, Zenon DEF RowSums
      <3>11. PSum(RowSums(F, S, n, m), S, k + 1)
             = VAdd(PSum(RowSums(F, S, n, m), S, k), RowSums(F, S, n, m)[k + 1])
        BY <2>1, PSumNext, Zenon
      <3> QED
        BY <3>2, <3>3, <3>4, <3>7, <3>9, <3>10, <3>11, Zenon
    <2> QED
      BY <2>1, <2>2
  <1>3. T = Nat
    <2>1. T \in SUBSET Nat
      OBVIOUS
    <2> HIDE DEF T
    <2> QED
      BY <1>1, <1>2, <2>1, Climb
  <1>4. n \in T /\ n <= n
    BY <1>3
  <1> QED
    BY <1>4

\* The products of two lists.
Times(A, C, n, m) == [i \in 1..n |-> [j \in 1..m |-> VMul(A[i], C[j])]]

\* A product of sums is the sum of the products.
LEMMA PSumTimes ==
    ASSUME NEW n \in Nat, NEW m \in Nat, NEW S \in Nat, NEW A, NEW C,
           \A i \in 1..n : A[i] \in Vec(S), \A j \in 1..m : C[j] \in Vec(S)
    PROVE  /\ Matrix(Times(A, C, n, m), n, m, S)
           /\ PSum(RowSums(Times(A, C, n, m), S, n, m), S, n) = VMul(PSum(A, S, n), PSum(C, S, m))
  <1>1. PICK F : F = Times(A, C, n, m)
    OBVIOUS
  <1>2. \A i \in 1..n, j \in 1..m : F[i][j] = VMul(A[i], C[j])
    BY <1>1, Zenon DEF Times
  <1>3. ASSUME NEW i \in 1..n, NEW j \in 1..m
        PROVE  F[i][j] \in Vec(S) /\ F[i][j] = VMul(C[j], A[i])
    <2>1. A[i] \in Vec(S) /\ C[j] \in Vec(S) /\ 0 \in Int
      OBVIOUS
    <2>2. VMul(A[i], C[j]) = VMul(C[j], A[i]) /\ VMul(A[i], C[j]) \in Vec(S)
      BY <2>1, MulComm, VecOps, Zenon
    <2> QED
      BY <1>2, <2>2, Zenon
  <1>4. Matrix(F, n, m, S)
    BY <1>3, Zenon DEF Matrix
  <1>5. PICK c \in Vec(S) : c = PSum(C, S, m)
    BY PSumVec, Zenon
  <1>6. ASSUME NEW i \in 1..n PROVE RowSums(F, S, n, m)[i] = VMul(A[i], c)
    <2>1. PICK r, g : r \in Vec(S) /\ r = A[i] /\ g = F[i]
      BY Zenon
    <2>2. \A j \in 1..m : C[j] \in Vec(S) /\ g[j] = VMul(C[j], r)
      BY <1>3, <2>1, Zenon
    <2>3. PSum(g, S, m) = VMul(PSum(C, S, m), r)
      <3>1. AllTimes(C, g, r, S, m)
        BY <2>1, <2>2, Zenon DEF AllTimes
      <3> QED
        BY <3>1, PSumTimesOf
    <2>4. VMul(c, r) = VMul(r, c)
      BY <2>1, MulComm, Zenon
    <2> QED
      BY <1>5, <2>1, <2>3, <2>4, Zenon DEF RowSums
  <1>7. PSum(RowSums(F, S, n, m), S, n) = VMul(PSum(A, S, n), c)
    <2>1. PICK g : g = RowSums(F, S, n, m)
      OBVIOUS
    <2>2. \A i \in 1..n : A[i] \in Vec(S) /\ g[i] = VMul(A[i], c)
      BY <1>6, <2>1, Zenon
    <2>3. PSum(g, S, n) = VMul(PSum(A, S, n), c)
      <3>1. AllTimes(A, g, c, S, n)
        BY <2>2, Zenon DEF AllTimes
      <3> QED
        BY <3>1, PSumTimesOf
    <2> QED
      BY <2>1, <2>3, Zenon
  <1> QED
    BY <1>1, <1>4, <1>5, <1>7, Zenon

\* The sum of a table.
MatSum(F, S, n) == PSum(RowSums(F, S, n, n), S, n)

\* Tables are added entry by entry.
LEMMA MatAdd ==
    ASSUME NEW n \in Nat, NEW S \in Nat, NEW F, NEW H, NEW X, Matrix(F, n, n, S), Matrix(H, n, n, S),
           \A i \in 1..n, j \in 1..n : X[i][j] = VAdd(F[i][j], H[i][j])
    PROVE  MatSum(X, S, n) = VAdd(MatSum(F, S, n), MatSum(H, S, n))
  <1>1. ASSUME NEW i \in 1..n
        PROVE  /\ RowSums(F, S, n, n)[i] \in Vec(S) /\ RowSums(H, S, n, n)[i] \in Vec(S)
               /\ RowSums(X, S, n, n)[i] = VAdd(RowSums(F, S, n, n)[i], RowSums(H, S, n, n)[i])
    <2>1. PICK f, h, x : f = F[i] /\ h = H[i] /\ x = X[i]
      OBVIOUS
    <2>2. \A j \in 1..n : f[j] \in Vec(S) /\ h[j] \in Vec(S) /\ x[j] = VAdd(f[j], h[j])
      BY <2>1, Zenon DEF Matrix
    <2>3. PSum(x, S, n) = VAdd(PSum(f, S, n), PSum(h, S, n))
      <3>1. AllPlus(f, h, x, S, n)
        BY <2>2, Zenon DEF AllPlus
      <3> QED
        BY <3>1, PSumPlusOf
    <2>4. PSum(f, S, n) \in Vec(S)
      BY <2>2, PSumVec
    <2>5. PSum(h, S, n) \in Vec(S)
      BY <2>2, PSumVec
    <2> QED
      BY <2>1, <2>3, <2>4, <2>5, Zenon DEF RowSums
  <1>2. PICK f, h, x : f = RowSums(F, S, n, n) /\ h = RowSums(H, S, n, n) /\ x = RowSums(X, S, n, n)
    OBVIOUS
  <1>3. \A i \in 1..n : f[i] \in Vec(S) /\ h[i] \in Vec(S) /\ x[i] = VAdd(f[i], h[i])
    BY <1>1, <1>2, Zenon
  <1>4. PSum(x, S, n) = VAdd(PSum(f, S, n), PSum(h, S, n))
    <2>1. AllPlus(f, h, x, S, n)
      BY <1>3, Zenon DEF AllPlus
    <2> QED
      BY <2>1, PSumPlusOf
  <1> QED
    BY <1>2, <1>4, Zenon DEF MatSum

\* X is F and H added cell by cell.
TablePlus(F, H, X, S, n) ==
    /\ n \in Nat /\ S \in Nat /\ Matrix(F, n, n, S) /\ Matrix(H, n, n, S)
    /\ \A i \in 1..n, j \in 1..n : X[i][j] = VAdd(F[i][j], H[i][j])

\* The sum of two tables, from that predicate.
LEMMA MatPlusOf ==
    ASSUME NEW F, NEW H, NEW X, NEW S, NEW n, TablePlus(F, H, X, S, n)
    PROVE  MatSum(X, S, n) = VAdd(MatSum(F, S, n), MatSum(H, S, n))
  <1>1. n \in Nat /\ S \in Nat /\ Matrix(F, n, n, S) /\ Matrix(H, n, n, S)
    BY Zenon DEF TablePlus
  <1>2. \A i \in 1..n, j \in 1..n : X[i][j] = VAdd(F[i][j], H[i][j])
    BY Zenon DEF TablePlus
  <1> QED
    BY <1>1, <1>2, MatAdd

\* Tables with the same entries.
LEMMA MatSame ==
    ASSUME NEW n \in Nat, NEW S \in Nat, NEW F, NEW H, \A i \in 1..n, j \in 1..n : F[i][j] = H[i][j]
    PROVE  MatSum(F, S, n) = MatSum(H, S, n)
  <1>1. ASSUME NEW i \in 1..n PROVE RowSums(F, S, n, n)[i] = RowSums(H, S, n, n)[i]
    <2>1. PICK f, h : f = F[i] /\ h = H[i]
      OBVIOUS
    <2>2. \A j \in 1..n : f[j] = h[j]
      BY <2>1, Zenon
    <2>3. PSum(f, S, n) = PSum(h, S, n)
      BY <2>2, PSumSame
    <2> QED
      BY <2>1, <2>3, Zenon DEF RowSums
  <1>2. PICK f, h : f = RowSums(F, S, n, n) /\ h = RowSums(H, S, n, n)
    OBVIOUS
  <1>3. PSum(f, S, n) = PSum(h, S, n)
    <2>1. \A i \in 1..n : f[i] = h[i]
      BY <1>1, <1>2, Zenon
    <2> QED
      BY <2>1, PSumSame
  <1> QED
    BY <1>2, <1>3, Zenon DEF MatSum

\* A table and its mirror.
LEMMA MatMirror ==
    ASSUME NEW n \in Nat, NEW S \in Nat, NEW F, NEW H, Matrix(F, n, n, S),
           \A i \in 1..n, j \in 1..n : H[i][j] = F[j][i]
    PROVE  MatSum(H, S, n) = MatSum(F, S, n)
  <1>1. ASSUME NEW i \in 1..n PROVE RowSums(H, S, n, n)[i] = ColSums(F, S, n, n, n)[i]
    <2>1. PICK f, h : f = Col(F, i, n) /\ h = H[i]
      OBVIOUS
    <2>2. \A j \in 1..n : h[j] = f[j]
      BY <2>1, Zenon DEF Col
    <2>3. PSum(h, S, n) = PSum(f, S, n)
      BY <2>2, PSumSame
    <2> QED
      BY <2>1, <2>3, Zenon DEF RowSums, ColSums
  <1>2. PICK f, h : f = ColSums(F, S, n, n, n) /\ h = RowSums(H, S, n, n)
    OBVIOUS
  <1>3. PSum(h, S, n) = PSum(f, S, n)
    <2>1. \A i \in 1..n : h[i] = f[i]
      BY <1>1, <1>2, Zenon
    <2> QED
      BY <2>1, PSumSame
  <1>4. PSum(RowSums(F, S, n, n), S, n) = PSum(ColSums(F, S, n, n, n), S, n)
    BY PSumSwap
  <1> QED
    BY <1>2, <1>3, <1>4, Zenon DEF MatSum

\* What ct_square sums: a pair of different layers once, and twice.
SquareTable(A, n, S) ==
    [i \in 1..n |-> [j \in 1..n |->
        IF i < j THEN VAdd(VMul(A[i], A[j]), VMul(A[i], A[j]))
        ELSE IF i = j THEN VMul(A[i], A[j]) ELSE Zeros(S)]]

\* The three parts of the table of products.
Above(A, n, S) == [i \in 1..n |-> [j \in 1..n |-> IF i < j THEN VMul(A[i], A[j]) ELSE Zeros(S)]]

\* Below the diagonal.
Below(A, n, S) == [i \in 1..n |-> [j \in 1..n |-> IF j < i THEN VMul(A[i], A[j]) ELSE Zeros(S)]]

\* Above the diagonal and on it.
UpTo(A, n, S) == [i \in 1..n |-> [j \in 1..n |-> IF i <= j THEN VMul(A[i], A[j]) ELSE Zeros(S)]]

\* The tables, entry by entry.
SquareParts(A, n, S, i, j) ==
    LET x == VMul(A[i], A[j])
        z == Zeros(S)
    IN  /\ Above(A, n, S)[i][j] = IF i < j THEN x ELSE z
        /\ Below(A, n, S)[i][j] = IF j < i THEN x ELSE z
        /\ UpTo(A, n, S)[i][j] = IF i <= j THEN x ELSE z
        /\ SquareTable(A, n, S)[i][j] = IF i < j THEN VAdd(x, x) ELSE IF i = j THEN x ELSE z
        /\ Times(A, A, n, n)[i][j] = x /\ x \in Vec(S) /\ z \in Vec(S) /\ x = VMul(A[j], A[i])

\* For every list of vectors.
LEMMA SquarePartsFacts ==
    ASSUME NEW n \in Nat, NEW S \in Nat, NEW A, \A i \in 1..n : A[i] \in Vec(S), NEW i \in 1..n,
           NEW j \in 1..n
    PROVE  SquareParts(A, n, S, i, j)
  <1>1. A[i] \in Vec(S) /\ A[j] \in Vec(S) /\ 0 \in Int
    OBVIOUS
  <1>2. VMul(A[i], A[j]) = VMul(A[j], A[i]) /\ VMul(A[i], A[j]) \in Vec(S)
    BY <1>1, MulComm, VecOps, Zenon
  <1>3. Zeros(S) \in Vec(S)
    BY ZeroVec, Zenon
  <1>4. Above(A, n, S)[i][j] = (IF i < j THEN VMul(A[i], A[j]) ELSE Zeros(S))
    BY Zenon DEF Above
  <1>5. Below(A, n, S)[i][j] = (IF j < i THEN VMul(A[i], A[j]) ELSE Zeros(S))
    BY Zenon DEF Below
  <1>6. UpTo(A, n, S)[i][j] = (IF i <= j THEN VMul(A[i], A[j]) ELSE Zeros(S))
    BY Zenon DEF UpTo
  <1>7. SquareTable(A, n, S)[i][j]
        = (IF i < j THEN VAdd(VMul(A[i], A[j]), VMul(A[i], A[j]))
           ELSE IF i = j THEN VMul(A[i], A[j]) ELSE Zeros(S))
    BY Zenon DEF SquareTable
  <1>8. Times(A, A, n, n)[i][j] = VMul(A[i], A[j])
    BY Zenon DEF Times
  <1> QED
    BY <1>2, <1>3, <1>4, <1>5, <1>6, <1>7, <1>8, Zenon DEF SquareParts

\* Twice the products of different elements, and the squares, are the square of
\* the sum.
LEMMA PSumSquare ==
    ASSUME NEW n \in Nat, NEW S \in Nat, NEW A, \A i \in 1..n : A[i] \in Vec(S)
    PROVE  /\ Matrix(SquareTable(A, n, S), n, n, S)
           /\ MatSum(SquareTable(A, n, S), S, n) = VMul(PSum(A, S, n), PSum(A, S, n))
  <1>1. PICK U, D, V, Q, F : /\ U = Above(A, n, S) /\ D = UpTo(A, n, S) /\ V = Below(A, n, S)
                             /\ Q = SquareTable(A, n, S) /\ F = Times(A, A, n, n)
    OBVIOUS
  <1>2. ASSUME NEW i \in 1..n, NEW j \in 1..n
        PROVE  /\ U[i][j] \in Vec(S) /\ D[i][j] \in Vec(S) /\ V[i][j] \in Vec(S)
               /\ Q[i][j] = VAdd(U[i][j], D[i][j]) /\ F[i][j] = VAdd(V[i][j], D[i][j])
               /\ V[i][j] = U[j][i] /\ Q[i][j] \in Vec(S)
    <2>1. PICK x, z : x = VMul(A[i], A[j]) /\ z = Zeros(S)
      OBVIOUS
    <2>2. SquareParts(A, n, S, i, j) /\ SquareParts(A, n, S, j, i)
      BY SquarePartsFacts
    <2>3. /\ U[i][j] = (IF i < j THEN x ELSE z) /\ V[i][j] = (IF j < i THEN x ELSE z)
          /\ D[i][j] = (IF i <= j THEN x ELSE z)
          /\ Q[i][j] = (IF i < j THEN VAdd(x, x) ELSE IF i = j THEN x ELSE z)
          /\ F[i][j] = x /\ x \in Vec(S) /\ z \in Vec(S) /\ U[j][i] = (IF j < i THEN x ELSE z)
      BY <1>1, <2>1, <2>2, Zenon DEF SquareParts
    <2>4. VAdd(x, z) = x /\ VAdd(z, x) = x /\ VAdd(z, z) = z /\ VAdd(x, x) \in Vec(S)
      <3>1. 0 \in Int
        OBVIOUS
      <3> QED
        BY <2>1, <2>3, <3>1, AddZero, ZeroAdd, VecOps, Zenon
    <2>5. CASE i < j
      <3>1. i <= j /\ ~(j < i)
        BY <2>5
      <3> QED
        BY <2>3, <2>4, <2>5, <3>1, Zenon
    <2>6. CASE i = j
      <3>1. i <= j /\ ~(j < i) /\ ~(i < j)
        BY <2>6
      <3> QED
        BY <2>3, <2>4, <2>6, <3>1, Zenon
    <2>7. CASE j < i
      <3>1. ~(i <= j) /\ ~(i < j) /\ i # j
        BY <2>7
      <3> QED
        BY <2>3, <2>4, <2>7, <3>1, Zenon
    <2> QED
      BY <2>5, <2>6, <2>7
  <1>3. Matrix(U, n, n, S) /\ Matrix(D, n, n, S) /\ Matrix(V, n, n, S) /\ Matrix(Q, n, n, S)
    BY <1>2, Zenon DEF Matrix
  <1>4. MatSum(Q, S, n) = VAdd(MatSum(U, S, n), MatSum(D, S, n))
    <2>1. \A i \in 1..n : \A j \in 1..n : Q[i][j] = VAdd(U[i][j], D[i][j])
      BY <1>2, Zenon
    <2> QED
      <3>1. TablePlus(U, D, Q, S, n)
        BY <1>3, <2>1, Zenon DEF TablePlus
      <3> QED
        BY <3>1, MatPlusOf
  <1>5. MatSum(F, S, n) = VAdd(MatSum(V, S, n), MatSum(D, S, n))
    <2>1. TablePlus(V, D, F, S, n)
      BY <1>2, <1>3, Zenon DEF TablePlus
    <2> QED
      BY <2>1, MatPlusOf
  <1>6. MatSum(V, S, n) = MatSum(U, S, n)
    BY <1>2, <1>3, MatMirror
  <1>7. MatSum(F, S, n) = VMul(PSum(A, S, n), PSum(A, S, n))
    <2>1. PSum(RowSums(Times(A, A, n, n), S, n, n), S, n) = VMul(PSum(A, S, n), PSum(A, S, n))
      BY PSumTimes
    <2> QED
      BY <1>1, <2>1, Zenon DEF MatSum
  <1> QED
    BY <1>1, <1>3, <1>4, <1>5, <1>6, <1>7, Zenon

-----------------------------------------------------------------------------
(* Terms as products *)

\* The vector of one number.
Flat(x, S) == [j \in 1..S |-> x % P]

\* Its slots.
LEMMA FlatFacts ==
    ASSUME NEW S \in Nat, NEW x \in Int
    PROVE  Flat(x, S) \in Vec(S) /\ \A j \in 1..S : Flat(x, S)[j] = x % P
  <1>1. x % P \in Field
    BY ModField
  <1> QED
    BY <1>1 DEF Flat, Vec

\* A scalar is a factor.
LEMMA ScaleIsMul ==
    ASSUME NEW S \in Nat, NEW a \in Vec(S), NEW x \in Int
    PROVE  VScale(a, x) = VMul(a, Flat(x, S))
  <1>1. PICK b \in Vec(S) : b = Flat(x, S) /\ \A j \in 1..S : b[j] = x % P
    BY FlatFacts, Zenon
  <1>2. VecAt(a, b, x, S)
    BY VecAtFacts, Zenon
  <1>3. PICK u, v : u = VScale(a, x) /\ v = VMul(a, b) /\ u \in Vec(S) /\ v \in Vec(S)
    BY <1>2, Zenon DEF VecAt
  <1>4. ASSUME NEW j \in 1..S PROVE u[j] = v[j]
    <2>1. PICK p \in Int : p = a[j]
      BY VecFacts, Zenon
    <2>2. u[j] = ((p * x) % P) /\ v[j] = ((p * (x % P)) % P)
      BY <1>1, <1>2, <1>3, <2>1, Zenon DEF VecAt
    <2> QED
      BY <2>2, ModTimes, Zenon
  <1>5. u = v
    BY <1>3, <1>4, VecEqual, Zenon
  <1> QED
    BY <1>1, <1>3, <1>5, Zenon

\* Numbers multiply as vectors do.
LEMMA FlatMul ==
    ASSUME NEW S \in Nat, NEW x \in Int, NEW y \in Int
    PROVE  VMul(Flat(x, S), Flat(y, S)) = Flat(x * y, S)
  <1>1. PICK z \in Int : z = x * y
    OBVIOUS
  <1>2. PICK a \in Vec(S) : a = Flat(x, S) /\ \A j \in 1..S : a[j] = x % P
    BY FlatFacts, Zenon
  <1>3. PICK b \in Vec(S) : b = Flat(y, S) /\ \A j \in 1..S : b[j] = y % P
    BY FlatFacts, Zenon
  <1>4. PICK c \in Vec(S) : c = Flat(z, S) /\ \A j \in 1..S : c[j] = z % P
    BY FlatFacts, Zenon
  <1>5. VecAt(a, b, x, S)
    BY VecAtFacts, Zenon
  <1>6. PICK u \in Vec(S) : u = VMul(a, b)
    BY <1>5, Zenon DEF VecAt
  <1>7. ASSUME NEW j \in 1..S PROVE u[j] = c[j]
    <2>1. u[j] = (((x % P) * (y % P)) % P) /\ c[j] = z % P
      BY <1>2, <1>3, <1>4, <1>5, <1>6, Zenon DEF VecAt
    <2>2. PICK q \in Int : q = y % P
      BY ModField, Zenon
    <2>3. (((x % P) * q) % P) = ((x * q) % P) /\ ((x * (y % P)) % P) = ((x * y) % P)
      BY ModTimes, Zenon
    <2> QED
      BY <1>1, <2>1, <2>2, <2>3, Zenon
  <1>8. u = c
    BY <1>7, VecEqual, Zenon
  <1> QED
    BY <1>1, <1>2, <1>3, <1>4, <1>6, <1>8, Zenon

\* One is neutral.
LEMMA FlatUnit ==
    ASSUME NEW S \in Nat, NEW a \in Vec(S), NEW x \in Int, x % P = 1
    PROVE  VMul(a, Flat(x, S)) = a
  <1>1. PICK b \in Vec(S) : b = Flat(x, S) /\ \A j \in 1..S : b[j] = x % P
    BY FlatFacts, Zenon
  <1>2. VecAt(a, b, x, S)
    BY VecAtFacts, Zenon
  <1>3. PICK u \in Vec(S) : u = VMul(a, b)
    BY <1>2, Zenon DEF VecAt
  <1>4. ASSUME NEW j \in 1..S PROVE u[j] = a[j]
    <2>1. PICK p \in Int : p = a[j] /\ p \in Field
      BY VecFacts, Zenon
    <2>2. u[j] = ((p * 1) % P)
      <3>1. b[j] = 1
        BY <1>1, Zenon
      <3>2. u[j] = ((a[j] * b[j]) % P)
        BY <1>2, <1>3, Zenon DEF VecAt
      <3> QED
        BY <2>1, <3>1, <3>2, Zenon
    <2>3. p * 1 = p
      OBVIOUS
    <2>4. p % P = p
      BY <2>1, ModField, Zenon
    <2> QED
      BY <2>1, <2>2, <2>3, <2>4, Zenon
  <1>5. u = a
    BY <1>4, VecEqual, Zenon
  <1> QED
    BY <1>1, <1>3, <1>5, Zenon

\* A sign is a factor.
LEMMA SignedIsMul ==
    ASSUME NEW S \in Nat, NEW a \in Vec(S), NEW ch \in {1, -1}
    PROVE  VSigned(a, ch) = VMul(a, Flat(ch, S)) /\ ch \in Int
  <1>1. ch \in Int
    OBVIOUS
  <1>2. CASE ch = 1
    <2>1. 1 \in Int /\ 1 % P = 1
      BY ModulusFacts, ModField
    <2>2. VMul(a, Flat(1, S)) = a
      BY <2>1, FlatUnit, Zenon
    <2> QED
      BY <1>1, <1>2, <2>2, Zenon DEF VSigned
  <1>3. CASE ch = -1
    <2>1. PICK b \in Vec(S) : b = Flat(ch, S) /\ \A j \in 1..S : b[j] = ch % P
      BY <1>1, FlatFacts, Zenon
    <2>2. VecAt(a, b, ch, S)
      BY <1>1, VecAtFacts, Zenon
    <2>3. PICK u, v : u = VNeg(a) /\ v = VMul(a, b) /\ u \in Vec(S) /\ v \in Vec(S)
      BY <2>2, Zenon DEF VecAt
    <2>4. ASSUME NEW j \in 1..S PROVE u[j] = v[j]
      <3>1. PICK p \in Int : p = a[j]
        BY VecFacts, Zenon
      <3>2. u[j] = ((-p) % P) /\ v[j] = ((p * (ch % P)) % P)
        BY <2>1, <2>2, <2>3, <3>1, Zenon DEF VecAt
      <3>3. ((p * (ch % P)) % P) = ((p * ch) % P)
        BY <1>1, ModTimes, Zenon
      <3>4. p * ch = -p
        BY <1>3
      <3> QED
        BY <3>2, <3>3, <3>4, Zenon
    <2>5. u = v
      BY <2>3, <2>4, VecEqual, Zenon
    <2>6. ch # 1
      BY <1>3
    <2> QED
      BY <1>1, <2>1, <2>3, <2>5, <2>6, Zenon DEF VSigned
  <1> QED
    BY <1>2, <1>3

\* What the index and the sign of an edge multiply its weight by.
Unit(idx, ch, S) == Flat(PowG[idx] * ch, S)

\* A term is a product.
TermRight(e, S) ==
    /\ Term(e) = VMul(e.w, Unit(e.idx, e.ch, S)) /\ Unit(e.idx, e.ch, S) \in Vec(S)
    /\ Term(e) \in Vec(S) /\ e.w \in Vec(S)

\* For every edge the key accepts.
LEMMA TermFacts ==
    ASSUME NEW m, NEW S \in Nat, NEW e \in EdgeSet(m, S)
    PROVE  TermRight(e, S)
  <1>1. e.w \in Vec(S) /\ e.idx \in 0..(B - 1) /\ e.ch \in {1, -1}
    BY DEF EdgeSet
  <1>2. PICK g \in Int : g = PowG[e.idx]
    BY <1>1, PowFacts, Zenon
  <1>3. e.ch \in Int /\ g * e.ch \in Int
    BY <1>1, <1>2
  <1>4. PICK u \in Vec(S) : u = VScale(e.w, g) /\ u = VMul(e.w, Flat(g, S))
    BY <1>1, VecOps, ScaleIsMul, Zenon
  <1>5. VSigned(u, e.ch) = VMul(u, Flat(e.ch, S))
    BY <1>1, SignedIsMul, Zenon
  <1>6. PICK p, q : p = Flat(g, S) /\ q = Flat(e.ch, S) /\ p \in Vec(S) /\ q \in Vec(S)
    BY <1>3, FlatFacts, Zenon
  <1>7. VMul(VMul(e.w, p), q) = VMul(e.w, VMul(p, q))
    <2>1. Three(S, e.w, p, q)
      BY <1>1, <1>6, Zenon DEF Three
    <2> QED
      BY <2>1, ThreeLaws
  <1>8. VMul(p, q) = Flat(g * e.ch, S)
    BY <1>3, <1>6, FlatMul, Zenon
  <1>9. Flat(g * e.ch, S) \in Vec(S)
    BY <1>3, FlatFacts, Zenon
  <1>10. Term(e) \in Vec(S)
    BY TermVec, Zenon
  <1>11. Term(e) = VSigned(u, e.ch)
    BY <1>2, <1>4, Zenon DEF Term
  <1> QED
    BY <1>1, <1>2, <1>4, <1>5, <1>6, <1>7, <1>8, <1>9, <1>10, <1>11, Zenon DEF TermRight, Unit

-----------------------------------------------------------------------------
(* What the edges of a ciphertext add up to *)

\* A vector for every layer: the inverses of the masks.
Rows(R, m, S) == \A i \in 1..m : R[i] \in Vec(S)

\* What an edge adds to the value, under these inverses.
Contr(e, R) == VMul(Term(e), R[e.lid])

\* The edges in their order.
Adds(E, R) == [k \in 1..Len(E) |-> Contr(E[k], R)]

\* Their sum.
Total(E, R, S) == PSum(Adds(E, R), S, Len(E))

\* A contribution is a vector.
LEMMA ContrVec ==
    ASSUME NEW m, NEW S \in Nat, NEW e \in EdgeSet(m, S), NEW R, Rows(R, m, S)
    PROVE  Contr(e, R) \in Vec(S) /\ R[e.lid] \in Vec(S) /\ Term(e) \in Vec(S)
  <1>1. e.lid \in 1..m
    BY DEF EdgeSet
  <1>2. R[e.lid] \in Vec(S)
    BY <1>1, Zenon DEF Rows
  <1>3. Term(e) \in Vec(S)
    BY TermVec, Zenon
  <1>4. 0 \in Int
    OBVIOUS
  <1>5. VMul(Term(e), R[e.lid]) \in Vec(S)
    BY <1>2, <1>3, <1>4, VecOps, Zenon
  <1> QED
    BY <1>2, <1>3, <1>5, Zenon DEF Contr

\* The list of contributions.
AddsRight(E, R, m, S) ==
    /\ Len(E) \in Nat /\ DOMAIN E = 1..Len(E)
    /\ \A k \in 1..Len(E) : /\ E[k] \in EdgeSet(m, S) /\ Adds(E, R)[k] = Contr(E[k], R)
                            /\ Contr(E[k], R) \in Vec(S) /\ Adds(E, R)[k] \in Vec(S)
    /\ Total(E, R, S) \in Vec(S)

\* Of edges the key accepts.
LEMMA AddsFacts ==
    ASSUME NEW m, NEW S \in Nat, NEW E \in Seq(EdgeSet(m, S)), NEW R, Rows(R, m, S)
    PROVE  AddsRight(E, R, m, S)
  <1>1. Len(E) \in Nat /\ DOMAIN E = 1..Len(E) /\ \A k \in 1..Len(E) : E[k] \in EdgeSet(m, S)
    OBVIOUS
  <1>2. \A k \in 1..Len(E) : Adds(E, R)[k] = Contr(E[k], R)
    BY Zenon DEF Adds
  <1>3. \A k \in 1..Len(E) : Contr(E[k], R) \in Vec(S)
    BY <1>1, ContrVec, Zenon
  <1>4. \A k \in 1..Len(E) : Adds(E, R)[k] \in Vec(S)
    BY <1>2, <1>3, Zenon
  <1>5. PSum(Adds(E, R), S, Len(E)) \in Vec(S)
    BY <1>1, <1>4, PSumVec, Zenon
  <1> QED
    BY <1>1, <1>2, <1>3, <1>4, <1>5, Zenon DEF AddsRight, Total

\* An edge of the same weight, index and sign at a layer of the same mask.
LEMMA ContrSame ==
    ASSUME NEW e, NEW f, NEW R, NEW Q, f.idx = e.idx, f.ch = e.ch, f.w = e.w, Q[f.lid] = R[e.lid]
    PROVE  Contr(f, Q) = Contr(e, R)
  BY Zenon DEF Contr, Term

\* Edges that add the same.
SameAdds(E, F, R, Q) == Len(F) = Len(E) /\ \A k \in 1..Len(E) : Contr(F[k], Q) = Contr(E[k], R)

\* Their sums are the same.
LEMMA TotalSame ==
    ASSUME NEW E, NEW F, NEW R, NEW Q, Len(E) \in Nat, SameAdds(E, F, R, Q), NEW S
    PROVE  Total(F, Q, S) = Total(E, R, S)
  <1>1. Len(F) = Len(E) /\ \A k \in 1..Len(E) : Contr(F[k], Q) = Contr(E[k], R)
    BY Zenon DEF SameAdds
  <1>2. PICK n \in Nat : n = Len(E)
    OBVIOUS
  <1>3. PICK f, g : f = Adds(F, Q) /\ g = Adds(E, R)
    OBVIOUS
  <1>4. \A k \in 1..n : f[k] = g[k]
    BY <1>1, <1>2, <1>3, Zenon DEF Adds
  <1>5. PSum(f, S, n) = PSum(g, S, n)
    BY <1>4, PSumSame, Zenon
  <1> QED
    BY <1>1, <1>2, <1>3, <1>5, Zenon DEF Total

\* No edge.
LEMMA TotalNone == ASSUME NEW R, NEW S PROVE Total(<<>>, R, S) = Zeros(S)
  <1>1. Len(<<>>) = 0
    OBVIOUS
  <1> QED
    BY <1>1, PSumZero, Zenon DEF Total

\* One list after the other.
LEMMA TotalConcat ==
    ASSUME NEW m, NEW S \in Nat, NEW E \in Seq(EdgeSet(m, S)), NEW F \in Seq(EdgeSet(m, S)),
           NEW R, Rows(R, m, S)
    PROVE  Total(E \o F, R, S) = VAdd(Total(E, R, S), Total(F, R, S))
  <1>1. PICK X : X = E \o F
    OBVIOUS
  <1>2. X \in Seq(EdgeSet(m, S)) /\ IsSeq(E) /\ IsSeq(F)
    BY <1>1, SeqIs
  <1>3. ConcatRight(E, F)
    BY <1>2, ConcatFacts, Zenon
  <1>4. AddsRight(E, R, m, S) /\ AddsRight(F, R, m, S) /\ AddsRight(X, R, m, S)
    BY <1>2, AddsFacts, Zenon
  <1>5. PICK p \in Nat, n \in Nat : p = Len(E) /\ n = Len(F)
    BY <1>4, Zenon DEF AddsRight
  <1>6. Len(X) = p + n /\ \A i \in 1..p : X[i] = E[i]
    BY <1>1, <1>3, <1>5, Zenon DEF ConcatRight
  <1>7. \A i \in 1..n : X[p + i] = F[i]
    BY <1>1, <1>3, <1>5, Zenon DEF ConcatRight
  <1>8. PICK f : f = Adds(X, R)
    OBVIOUS
  <1>9. \A i \in 1..(p + n) : f[i] = Contr(X[i], R) /\ f[i] \in Vec(S)
    BY <1>4, <1>6, <1>8, Zenon DEF AddsRight
  <1>10. PSum(f, S, p + n) = VAdd(PSum(f, S, p), PSum(Suffix(f, p, n), S, n))
    BY <1>9, PSumSplit
  <1>11. PSum(f, S, p) = PSum(Adds(E, R), S, p)
    <2>1. ASSUME NEW i \in 1..p PROVE f[i] = Adds(E, R)[i]
      <3>1. i \in 1..(p + n)
        OBVIOUS
      <3>2. f[i] = Contr(E[i], R)
        BY <1>6, <1>9, <3>1, Zenon
      <3>3. Adds(E, R)[i] = Contr(E[i], R)
        BY <1>4, <1>5, Zenon DEF AddsRight
      <3> QED
        BY <3>2, <3>3, Zenon
    <2> QED
      BY <2>1, PSumSame, Zenon
  <1>12. PSum(Suffix(f, p, n), S, n) = PSum(Adds(F, R), S, n)
    <2>1. ASSUME NEW i \in 1..n PROVE Suffix(f, p, n)[i] = Adds(F, R)[i]
      <3>1. p + i \in 1..(p + n)
        OBVIOUS
      <3>2. f[p + i] = Contr(F[i], R)
        BY <1>7, <1>9, <3>1, Zenon
      <3>3. Adds(F, R)[i] = Contr(F[i], R)
        BY <1>4, <1>5, Zenon DEF AddsRight
      <3>4. Suffix(f, p, n)[i] = f[p + i]
        BY Zenon DEF Suffix
      <3> QED
        BY <3>2, <3>3, <3>4, Zenon
    <2> QED
      BY <2>1, PSumSame, Zenon
  <1> QED
    BY <1>1, <1>5, <1>6, <1>8, <1>10, <1>11, <1>12, Zenon DEF Total

\* Two lists of edges over the same layers.
Joinable(E, F, R, m, S) ==
    S \in Nat /\ E \in Seq(EdgeSet(m, S)) /\ F \in Seq(EdgeSet(m, S)) /\ Rows(R, m, S)

\* The total of two lists, from that predicate.
LEMMA TotalConcatOf ==
    ASSUME NEW E, NEW F, NEW R, NEW m, NEW S, Joinable(E, F, R, m, S)
    PROVE  Total(E \o F, R, S) = VAdd(Total(E, R, S), Total(F, R, S))
  <1>1. S \in Nat /\ E \in Seq(EdgeSet(m, S)) /\ F \in Seq(EdgeSet(m, S)) /\ Rows(R, m, S)
    BY Zenon DEF Joinable
  <1> QED
    BY <1>1, TotalConcat

\* The total of the two lists is the sum of their totals.
Joined(E, F, R, m, S) == Total(E \o F, R, S) = VAdd(Total(E, R, S), Total(F, R, S))

\* The same, as a predicate.
LEMMA TotalConcatIs ==
    ASSUME NEW E, NEW F, NEW R, NEW m, NEW S, Joinable(E, F, R, m, S)
    PROVE  Joined(E, F, R, m, S)
  <1>1. Total(E \o F, R, S) = VAdd(Total(E, R, S), Total(F, R, S))
    BY TotalConcatOf
  <1> QED
    BY <1>1, Zenon DEF Joined

\* An edge with a factor.
LEMMA TermTimes ==
    ASSUME NEW m, NEW n, NEW S \in Nat, NEW e \in EdgeSet(m, S), NEW f \in EdgeSet(n, S),
           NEW r \in Vec(S), f.idx = e.idx, f.ch = e.ch, f.w = VMul(e.w, r)
    PROVE  Term(f) = VMul(Term(e), r)
  <1>1. TermRight(e, S) /\ TermRight(f, S)
    BY TermFacts, Zenon
  <1>2. PICK w \in Vec(S), u \in Vec(S) : w = e.w /\ u = Unit(e.idx, e.ch, S)
    BY <1>1, Zenon DEF TermRight
  <1>3. Term(e) = VMul(w, u) /\ Term(f) = VMul(VMul(w, r), u)
    BY <1>1, <1>2, Zenon DEF TermRight
  <1>4. VMul(VMul(w, r), u) = VMul(w, VMul(r, u)) /\ VMul(VMul(w, u), r) = VMul(w, VMul(u, r))
    BY MulAssoc, Zenon
  <1>5. VMul(r, u) = VMul(u, r)
    BY MulComm, Zenon
  <1> QED
    BY <1>3, <1>4, <1>5, Zenon

\* Its contribution.
LEMMA ContrTimes ==
    ASSUME NEW m, NEW n, NEW S \in Nat, NEW e \in EdgeSet(m, S), NEW f \in EdgeSet(n, S),
           NEW r \in Vec(S), f.idx = e.idx, f.ch = e.ch, f.w = VMul(e.w, r), NEW R, NEW Q,
           Q[f.lid] = R[e.lid], R[e.lid] \in Vec(S)
    PROVE  Contr(f, Q) = VMul(Contr(e, R), r)
  <1>1. Term(f) = VMul(Term(e), r)
    BY TermTimes
  <1>2. PICK x \in Vec(S), y \in Vec(S) : x = Term(e) /\ y = R[e.lid]
    BY TermVec, Zenon
  <1>3. Contr(f, Q) = VMul(VMul(x, r), y) /\ Contr(e, R) = VMul(x, y)
    BY <1>1, <1>2, Zenon DEF Contr
  <1>4. VMul(VMul(x, r), y) = VMul(x, VMul(r, y)) /\ VMul(VMul(x, y), r) = VMul(x, VMul(y, r))
    BY MulAssoc, Zenon
  <1>5. VMul(r, y) = VMul(y, r)
    BY MulComm, Zenon
  <1> QED
    BY <1>3, <1>4, <1>5, Zenon

\* Edges with a common factor.
TimesAdds(E, F, R, Q, r) ==
    Len(F) = Len(E) /\ \A k \in 1..Len(E) : Contr(F[k], Q) = VMul(Contr(E[k], R), r)

\* Their sum has it too.
LEMMA TotalTimes ==
    ASSUME NEW m, NEW S \in Nat, NEW E \in Seq(EdgeSet(m, S)), NEW R, Rows(R, m, S), NEW F, NEW Q,
           NEW r \in Vec(S), TimesAdds(E, F, R, Q, r)
    PROVE  Total(F, Q, S) = VMul(Total(E, R, S), r)
  <1>1. Len(F) = Len(E) /\ \A k \in 1..Len(E) : Contr(F[k], Q) = VMul(Contr(E[k], R), r)
    BY Zenon DEF TimesAdds
  <1>2. AddsRight(E, R, m, S)
    BY AddsFacts, Zenon
  <1>3. PICK n \in Nat : n = Len(E)
    BY <1>2, Zenon DEF AddsRight
  <1>4. PICK f, g : f = Adds(F, Q) /\ g = Adds(E, R)
    OBVIOUS
  <1>5. \A k \in 1..n : f[k] = Contr(F[k], Q)
    BY <1>1, <1>3, <1>4, Zenon DEF Adds
  <1>6. \A k \in 1..n : g[k] = Contr(E[k], R) /\ g[k] \in Vec(S)
    BY <1>2, <1>3, <1>4, Zenon DEF AddsRight
  <1>7. \A k \in 1..n : g[k] \in Vec(S) /\ f[k] = VMul(g[k], r)
    BY <1>1, <1>3, <1>5, <1>6, Zenon
  <1>8. PSum(f, S, n) = VMul(PSum(g, S, n), r)
    <2>1. AllTimes(g, f, r, S, n)
      BY <1>7, Zenon DEF AllTimes
    <2> QED
      BY <2>1, PSumTimesOf
  <1> QED
    BY <1>1, <1>3, <1>4, <1>8, Zenon DEF Total

-----------------------------------------------------------------------------
(* merge keeps the sum *)

\* The edges of one place add what their sum adds.
GroupTotal(E, p, R, n, S) ==
    PSum(OnlyAt(Adds(E, R), Own(E, p), n, S), S, n) = Contr(Sums(E)[p], R)

\* At every place.
LEMMA GroupTotalFacts ==
    ASSUME NEW m \in Nat, NEW S \in Nat, NEW E \in Seq(EdgeSet(m, S)), NEW R, Rows(R, m, S),
           NEW p \in DOMAIN Sums(E), NEW n \in Nat, n = Len(E)
    PROVE  GroupTotal(E, p, R, n, S)
  <1>1. SumsRight(E, m, S) /\ AddsRight(E, R, m, S)
    BY SumsFacts, AddsFacts, Zenon
  <1>2. PICK i \in 1..Len(E) : p = Position(E[i])
    BY <1>1, Zenon DEF SumsRight
  <1>3. GroupRight(E, i, m, S)
    BY GroupFacts, Zenon
  <1>4. PICK own, g : own = Own(E, p) /\ g = Chosen(E, own)
    OBVIOUS
  <1>5. PICK c \in Nat : c = Cardinality(own)
    BY <1>2, <1>3, <1>4, Zenon DEF GroupRight
  <1>6. /\ own \in SUBSET (1..n) /\ c >= 1 /\ DOMAIN g = 1..c
        /\ \A k \in 1..c : g[k] \in EdgeSet(m, S) /\ Position(g[k]) = Position(E[i])
    BY <1>2, <1>3, <1>4, <1>5, Zenon DEF GroupRight
  <1>7. 1 \in 1..c
    BY <1>6
  <1>8. Places(own)
    BY <1>6, Zenon DEF Places
  <1>9. ChosenRight(E, own) /\ KeptRight(own)
    BY <1>8, ChosenFacts, KeptFacts, Zenon
  <1>10. \A k \in 1..c : g[k] = E[KeptAt(own, k)] /\ KeptAt(own, k) \in own
    BY <1>4, <1>5, <1>9, Zenon DEF ChosenRight, KeptRight
  <1>11. PICK h : h = [k \in 1..c |-> Contr(g[k], R)]
    OBVIOUS
  <1>12. PICK f : f = Adds(E, R)
    OBVIOUS
  <1>13. \A k \in 1..n : f[k] = Contr(E[k], R) /\ f[k] \in Vec(S)
    BY <1>1, <1>12, Zenon DEF AddsRight
  <1>14. PSum(h, S, c) = PSum(OnlyAt(f, own, n, S), S, n)
    <2>1. \A k \in own : f[k] \in Vec(S)
      BY <1>6, <1>13, Zenon
    <2>2. \A k \in 1..Cardinality(own) : h[k] = f[KeptAt(own, k)]
      BY <1>5, <1>6, <1>10, <1>11, <1>13, Zenon
    <2>3. PSum(h, S, Cardinality(own)) = PSum(OnlyAt(f, own, n, S), S, n)
      <3>1. AllChosen(f, h, own, S, n)
        BY <1>6, <2>1, <2>2, Zenon DEF AllChosen
      <3> QED
        BY <3>1, PSumChosenOf
    <2> QED
      BY <1>5, <2>3, Zenon
  <1>15. SumRight(g, m, S)
    BY <1>6, SumFields
  <1>16. PICK x : x = SumOf(g)
    OBVIOUS
  <1>17. /\ x \in EdgeSet(m, S) /\ x.lid = g[1].lid /\ x.idx = g[1].idx /\ x.ch = g[1].ch
         /\ x.w = VSum([k \in DOMAIN g |-> g[k].w], S)
    BY <1>15, <1>16, Zenon DEF SumRight
  <1>18. PICK ws : ws = [k \in 1..c |-> g[k].w]
    OBVIOUS
  <1>19. x.w = PSum(ws, S, c)
    <2>1. ws = [k \in 1..c |-> ws[k]]
      BY <1>18
    <2>2. VSum(ws, S) = PSum(ws, S, c)
      BY <2>1, PSumWhole, Zenon
    <2> QED
      BY <1>6, <1>17, <1>18, <2>2, Zenon
  <1>20. ASSUME NEW k \in 1..c
         PROVE  g[k].lid = x.lid /\ g[k].idx = x.idx /\ g[k].ch = x.ch
    <2>1. g[k] \in EdgeSet(m, S) /\ g[1] \in EdgeSet(m, S) /\ Position(g[k]) = Position(g[1])
      BY <1>6, <1>7, Zenon
    <2>2. g[k].lid = g[1].lid /\ g[k].idx = g[1].idx /\ g[k].ch = g[1].ch
      BY <2>1, PositionFacts
    <2> QED
      BY <1>17, <2>2, Zenon
  <1>21. TermRight(x, S) /\ \A k \in 1..c : TermRight(g[k], S)
    BY <1>6, <1>17, TermFacts, Zenon
  <1>22. PICK u \in Vec(S), y \in Vec(S) : u = Unit(x.idx, x.ch, S) /\ y = R[x.lid]
    <2>1. R[x.lid] \in Vec(S)
      BY <1>17, ContrVec, Zenon
    <2> QED
      BY <1>21, <2>1, Zenon DEF TermRight
  <1>23. PICK r \in Vec(S) : r = VMul(u, y)
    <2>1. 0 \in Int
      OBVIOUS
    <2> QED
      BY <2>1, VecOps, Zenon
  <1>24. ASSUME NEW k \in 1..c PROVE ws[k] \in Vec(S) /\ h[k] = VMul(ws[k], r)
    <2>1. PICK w \in Vec(S) : w = g[k].w
      BY <1>21, Zenon DEF TermRight
    <2>2. ws[k] = w /\ h[k] = Contr(g[k], R)
      BY <1>11, <1>18, <2>1, Zenon
    <2>3. Contr(g[k], R) = VMul(VMul(w, u), y)
      BY <1>20, <1>21, <1>22, <2>1, Zenon DEF TermRight, Contr
    <2>4. VMul(VMul(w, u), y) = VMul(w, VMul(u, y))
      <3>1. Three(S, w, u, y)
        BY Zenon DEF Three
      <3> QED
        BY <3>1, ThreeLaws
    <2> QED
      BY <1>23, <2>2, <2>3, <2>4, Zenon
  <1>25. PSum(h, S, c) = VMul(PSum(ws, S, c), r)
    <2>1. \A k \in 1..c : ws[k] \in Vec(S) /\ h[k] = VMul(ws[k], r)
      BY <1>24, Zenon
    <2> QED
      <3>1. AllTimes(ws, h, r, S, c)
        BY <2>1, Zenon DEF AllTimes
      <3> QED
        BY <3>1, PSumTimesOf
  <1>26. PICK z \in Vec(S) : z = x.w
    BY <1>21, Zenon DEF TermRight
  <1>27. Contr(x, R) = VMul(VMul(z, u), y)
    BY <1>21, <1>22, <1>26, Zenon DEF TermRight, Contr
  <1>28. VMul(VMul(z, u), y) = VMul(z, VMul(u, y))
    <2>1. Three(S, z, u, y)
      BY Zenon DEF Three
    <2> QED
      BY <2>1, ThreeLaws
  <1>29. PSum(h, S, c) = Contr(x, R)
    BY <1>19, <1>23, <1>25, <1>26, <1>27, <1>28, Zenon
  <1>30. Sums(E)[p] = x
    BY <1>4, <1>16, Zenon DEF Sums
  <1> QED
    BY <1>4, <1>12, <1>14, <1>29, <1>30, Zenon DEF GroupTotal

\* An edge without weight adds nothing.
LEMMA ContrZero ==
    ASSUME NEW m, NEW S \in Nat, NEW e \in EdgeSet(m, S), NEW R, Rows(R, m, S), ~NonZero(e.w)
    PROVE  Contr(e, R) = Zeros(S)
  <1>1. TermRight(e, S) /\ R[e.lid] \in Vec(S)
    BY TermFacts, ContrVec, Zenon
  <1>2. PICK w \in Vec(S), u \in Vec(S), y \in Vec(S) :
            w = e.w /\ u = Unit(e.idx, e.ch, S) /\ y = R[e.lid] /\ Term(e) = VMul(w, u)
    BY <1>1, Zenon DEF TermRight
  <1>3. PICK z \in Vec(S) : z = Zeros(S) /\ \A j \in 1..S : z[j] = 0
    BY ZeroVec, Zenon DEF Zeros
  <1>4. DOMAIN w = 1..S
    BY VecFacts, Zenon
  <1>5. \A j \in 1..S : w[j] = z[j]
    BY <1>2, <1>3, <1>4, Zenon DEF NonZero
  <1>6. w = z
    BY <1>5, VecEqual, Zenon
  <1>7. VMul(z, u) = z /\ VMul(z, y) = z
    BY <1>3, ZeroMul, Zenon
  <1> QED
    BY <1>2, <1>3, <1>6, <1>7, Zenon DEF Contr

\* Merging loses no contribution and makes none.
LEMMA MergeTotal ==
    ASSUME NEW m \in Nat, NEW S \in Nat, NEW E \in Seq(EdgeSet(m, S)), NEW R, Rows(R, m, S)
    PROVE  Total(Merge(E), R, S) = Total(E, R, S)
  <1>1. SumsRight(E, m, S) /\ AddsRight(E, R, m, S) /\ MergeRight(E, m, S)
    BY SumsFacts, AddsFacts, MergeFacts, Zenon
  <1>2. PICK n \in Nat : n = Len(E)
    BY <1>1, Zenon DEF AddsRight
  <1>3. PICK M : M = (m * B + B) * 2
    OBVIOUS
  <1>4. M \in Nat
    BY <1>3, PowFacts
  <1>5. ASSUME NEW e \in EdgeSet(m, S) PROVE Position(e) \in 1..M
    BY <1>3, PositionFacts, Zenon
  <1>6. PICK f : f = Adds(E, R)
    OBVIOUS
  <1>7. \A k \in 1..n : f[k] = Contr(E[k], R) /\ f[k] \in Vec(S) /\ E[k] \in EdgeSet(m, S)
    BY <1>1, <1>2, <1>6, Zenon DEF AddsRight
  <1>8. PICK q : q = [k \in 1..n |-> Position(E[k])]
    OBVIOUS
  <1>9. \A k \in 1..n : q[k] \in 1..M /\ q[k] = Position(E[k])
    BY <1>5, <1>7, <1>8, Zenon
  <1>10. PSum(f, S, n) = PSum(Parts(f, q, n, M, S), S, M)
    BY <1>4, <1>7, <1>9, PSumGroup
  <1>11. PICK D, T : D = DOMAIN Sums(E) /\ T = Said(E)
    OBVIOUS
  <1>12. \A p : p \in D <=> \E k \in 1..n : q[k] = p
    <2>1. D = {Position(E[k]) : k \in 1..n}
      BY <1>1, <1>2, <1>11, Zenon DEF SumsRight
    <2> QED
      BY <1>9, <2>1, Zenon
  <1>13. D \in SUBSET (1..M) /\ T \in SUBSET D /\ T \in SUBSET (1..M)
    <2>1. D \subseteq 1..M
      BY <1>9, <1>12, Zenon
    <2>2. T \subseteq D
      BY <1>11, Zenon DEF Said
    <2> QED
      BY <2>1, <2>2
  <1>14. PICK C : C = [p \in D |-> Contr(Sums(E)[p], R)]
    OBVIOUS
  <1>15. \A p \in D : C[p] = Contr(Sums(E)[p], R) /\ C[p] \in Vec(S) /\ Sums(E)[p] \in EdgeSet(m, S)
    BY <1>1, <1>11, <1>14, ContrVec, Zenon DEF SumsRight
  <1>16. ASSUME NEW p \in 1..M PROVE Parts(f, q, n, M, S)[p] = OnlyAt(C, T, M, S)[p]
    <2>1. Parts(f, q, n, M, S)[p] = Part(f, q, p, n, S)
      BY Zenon DEF Parts
    <2>2. OnlyAt(C, T, M, S)[p] = IF p \in T THEN C[p] ELSE Zeros(S)
      BY Zenon DEF OnlyAt
    <2>3. CASE p \in D
      <3>1. Part(f, q, p, n, S) = PSum(OnlyAt(f, Own(E, p), n, S), S, n)
        <4>1. ASSUME NEW k \in 1..n PROVE Parted(f, q, p, n, S)[k] = OnlyAt(f, Own(E, p), n, S)[k]
          <5>1. q[k] = p <=> k \in Own(E, p)
            BY <1>1, <1>2, <1>9, Zenon DEF Own, AddsRight
          <5>2. /\ Parted(f, q, p, n, S)[k] = IF q[k] = p THEN f[k] ELSE Zeros(S)
                /\ OnlyAt(f, Own(E, p), n, S)[k] = IF k \in Own(E, p) THEN f[k] ELSE Zeros(S)
            BY Zenon DEF Parted, OnlyAt
          <5> QED
            BY <5>1, <5>2, Zenon
        <4> QED
          BY <4>1, PSumSame, Zenon DEF Part
      <3>2. GroupTotal(E, p, R, n, S)
        BY <1>2, <1>11, <2>3, GroupTotalFacts, Zenon
      <3>3. Part(f, q, p, n, S) = C[p]
        BY <1>6, <1>15, <2>3, <3>1, <3>2, Zenon DEF GroupTotal
      <3>4. p \notin T => C[p] = Zeros(S)
        <4>1. p \notin T => ~NonZero(Sums(E)[p].w)
          BY <1>11, <2>3, Zenon DEF Said
        <4>2. p \notin T => Contr(Sums(E)[p], R) = Zeros(S)
          BY <1>15, <2>3, <4>1, ContrZero, Zenon
        <4> QED
          BY <1>15, <2>3, <4>2, Zenon
      <3> QED
        BY <2>1, <2>2, <3>3, <3>4, Zenon
    <2>4. CASE p \notin D
      <3>1. \A k \in 1..n : q[k] # p
        BY <1>12, <2>4, Zenon
      <3>2. Part(f, q, p, n, S) = Zeros(S)
        BY <3>1, PartNone, Zenon
      <3>3. p \notin T
        BY <1>13, <2>4, Zenon
      <3> QED
        BY <2>1, <2>2, <3>2, <3>3, Zenon
    <2> QED
      BY <2>3, <2>4, Zenon
  <1>17. PSum(Parts(f, q, n, M, S), S, M) = PSum(OnlyAt(C, T, M, S), S, M)
    BY <1>4, <1>16, PSumSame, Zenon
  <1>18. PICK X : X = Merge(E)
    OBVIOUS
  <1>19. X = Chosen(Sums(E), T) /\ Places(T)
    <2>1. Places(T)
      BY <1>4, <1>13, Zenon DEF Places
    <2> QED
      BY <1>11, <1>18, <2>1, MergeParts, Zenon
  <1>20. ChosenRight(Sums(E), T) /\ KeptRight(T)
    BY <1>19, ChosenFacts, KeptFacts, Zenon
  <1>21. PICK c \in Nat : c = Cardinality(T) /\ Len(X) = c
    BY <1>19, <1>20, Zenon DEF ChosenRight
  <1>22. \A k \in 1..c : X[k] = Sums(E)[KeptAt(T, k)] /\ KeptAt(T, k) \in T
    BY <1>19, <1>20, <1>21, Zenon DEF ChosenRight, KeptRight
  <1>23. PICK h : h = Adds(X, R)
    OBVIOUS
  <1>24. \A k \in 1..Cardinality(T) : h[k] = C[KeptAt(T, k)]
    <2>1. ASSUME NEW k \in 1..c PROVE h[k] = C[KeptAt(T, k)]
      <3>1. h[k] = Contr(X[k], R)
        BY <1>21, <1>23, Zenon DEF Adds
      <3>2. KeptAt(T, k) \in D /\ X[k] = Sums(E)[KeptAt(T, k)]
        BY <1>13, <1>22, Zenon
      <3> QED
        BY <1>15, <3>1, <3>2, Zenon
    <2> QED
      BY <1>21, <2>1, Zenon
  <1>25. \A k \in T : C[k] \in Vec(S)
    BY <1>13, <1>15, Zenon
  <1>26. PSum(h, S, Cardinality(T)) = PSum(OnlyAt(C, T, M, S), S, M)
    <2>1. T \in SUBSET (1..M)
      BY <1>13, Zenon
    <2> QED
      <3>1. AllChosen(C, h, T, S, M)
        BY <1>4, <1>24, <1>25, <2>1, Zenon DEF AllChosen
      <3> QED
        BY <3>1, PSumChosenOf
  <1> QED
    BY <1>2, <1>6, <1>10, <1>17, <1>18, <1>21, <1>23, <1>26, Zenon DEF Total

-----------------------------------------------------------------------------
(* The value of a ciphertext *)

\* The inverses of the masks of a ciphertext's layers.
InvMasks(c) == [i \in 1..Len(c.L) |-> Inverses(Masks(c)[i])]

\* What its edges add to the constant.
Hidden(c) == Total(c.E, InvMasks(c), c.slots)

\* The inverses are vectors.
InvMasksRight(c) ==
    /\ Rows(InvMasks(c), Len(c.L), c.slots)
    /\ \A i \in 1..Len(c.L) : /\ InvMasks(c)[i] = Inverses(Masks(c)[i])
                              /\ Masks(c)[i] \in MaskVec(c.slots) /\ Masks(c)[i] \in Vec(c.slots)

\* Of every well-formed ciphertext.
LEMMA InvMasksFacts == ASSUME NEW c, ShapeOK(c) PROVE InvMasksRight(c)
  <1>1. MasksAre(c, Masks(c)) /\ c.slots \in Nat
    BY MasksRight, ShapeParts, Zenon
  <1>2. \A i \in 1..Len(c.L) : Masks(c)[i] \in MaskVec(c.slots)
    BY <1>1, Zenon DEF MasksAre
  <1>3. \A i \in 1..Len(c.L) : Masks(c)[i] \in Vec(c.slots)
    BY <1>2, Zenon DEF MaskVec
  <1>4. \A i \in 1..Len(c.L) : InvMasks(c)[i] = Inverses(Masks(c)[i])
    BY Zenon DEF InvMasks
  <1>5. \A i \in 1..Len(c.L) : Inverses(Masks(c)[i]) \in Vec(c.slots)
    BY <1>1, <1>3, InversesVec, Zenon
  <1> QED
    BY <1>2, <1>3, <1>4, <1>5, Zenon DEF InvMasksRight, Rows

\* The order of four factors.
LEMMA FourFactors ==
    ASSUME NEW w \in Int, NEW p \in Int, NEW ch \in Int, NEW i \in Int
    PROVE  ((((w * ((p * ch) % P)) % P) * i) % P) = ((ch * w * p * i) % P)
  <1>1. PICK x \in Int, y \in Int : x = p * ch /\ y = w * x
    OBVIOUS
  <1>2. (w * (x % P)) % P = (w * x) % P
    BY <1>1, ModTimes
  <1>3. ((y % P) * i) % P = (y * i) % P
    BY <1>1, ModTimes
  <1>4. y * i = ch * w * p * i
    BY <1>1
  <1> QED
    BY <1>1, <1>2, <1>3, <1>4, Zenon

\* What decryption adds for an edge.
DecTerm(c, e) ==
    [j \in 1..c.slots |-> (e.ch * e.w[j] * PowG[e.idx] * FInv(Masks(c)[e.lid][j])) % P]

\* It is the term over the mask.
LEMMA DecTermIs ==
    ASSUME NEW c, ShapeOK(c), NEW e \in EdgeSet(Len(c.L), c.slots)
    PROVE  DecTerm(c, e) = Contr(e, InvMasks(c))
  <1>1. PICK S \in Nat : S = c.slots
    BY ShapeParts, Zenon
  <1>2. InvMasksRight(c) /\ TermRight(e, S)
    BY <1>1, InvMasksFacts, TermFacts, Zenon
  <1>3. e.lid \in 1..Len(c.L) /\ e.idx \in 0..(B - 1) /\ e.ch \in Int
    BY DEF EdgeSet
  <1>4. PICK w \in Vec(S), u \in Vec(S), y \in Vec(S), x \in Vec(S) :
            /\ w = e.w /\ u = Unit(e.idx, e.ch, S) /\ y = InvMasks(c)[e.lid] /\ x = Masks(c)[e.lid]
            /\ Term(e) = VMul(w, u)
    BY <1>1, <1>2, <1>3, Zenon DEF TermRight, InvMasksRight, Rows
  <1>5. PICK p \in Int, ch \in Int : p = PowG[e.idx] /\ ch = e.ch
    BY <1>3, PowFacts, Zenon
  <1>6. p * ch \in Int
    OBVIOUS
  <1>7. \A j \in 1..S : u[j] = (p * ch) % P
    BY <1>4, <1>5, <1>6, FlatFacts, Zenon DEF Unit
  <1>8. \A j \in 1..S : y[j] = FInv(x[j])
    <2>1. y = Inverses(x)
      BY <1>2, <1>3, <1>4, Zenon DEF InvMasksRight
    <2> QED
      BY <2>1, InversesVec, Zenon
  <1>9. 0 \in Int
    OBVIOUS
  <1>10. PICK v \in Vec(S) : v = VMul(w, u)
    BY <1>9, VecOps, Zenon
  <1>11. PICK z \in Vec(S) : z = VMul(v, y) /\ z = Contr(e, InvMasks(c))
    BY <1>4, <1>9, <1>10, VecOps, Zenon DEF Contr
  <1>12. VecAt(w, u, 0, S) /\ VecAt(v, y, 0, S)
    BY <1>9, VecAtFacts, Zenon
  <1>13. ASSUME NEW j \in 1..S PROVE z[j] = (ch * w[j] * p * FInv(x[j])) % P
    <2>1. w[j] \in Int /\ y[j] \in Int
      BY VecFacts
    <2>2. z[j] = (v[j] * y[j]) % P /\ v[j] = (w[j] * u[j]) % P
      BY <1>10, <1>11, <1>12, Zenon DEF VecAt
    <2>3. z[j] = ((((w[j] * ((p * ch) % P)) % P) * y[j]) % P)
      BY <1>7, <2>2, Zenon
    <2>4. ((((w[j] * ((p * ch) % P)) % P) * y[j]) % P) = ((ch * w[j] * p * y[j]) % P)
      <3>1. PICK a \in Int, b \in Int : a = w[j] /\ b = y[j]
        BY <2>1, Zenon
      <3>2. ((((a * ((p * ch) % P)) % P) * b) % P) = ((ch * a * p * b) % P)
        BY FourFactors
      <3> QED
        BY <3>1, <3>2, Zenon
    <2> QED
      BY <1>8, <2>3, <2>4, Zenon
  <1>14. z = [j \in 1..S |-> z[j]]
    BY DEF Vec
  <1>15. DecTerm(c, e) = [j \in 1..S |-> (ch * w[j] * p * FInv(x[j])) % P]
    BY <1>1, <1>4, <1>5, Zenon DEF DecTerm
  <1>16. [j \in 1..S |-> z[j]] = [j \in 1..S |-> (ch * w[j] * p * FInv(x[j])) % P]
    BY <1>13, Zenon
  <1> QED
    BY <1>11, <1>14, <1>15, <1>16, Zenon

\* dec_values: the constant, and what the edges add.
DecRight(c) ==
    /\ DecValues(c) = VAdd(ConstOf(TRUE, c), Hidden(c))
    /\ Hidden(c) \in Vec(c.slots) /\ ConstOf(TRUE, c) \in Vec(c.slots)
    /\ DecValues(c) \in Vec(c.slots)

\* For every well-formed ciphertext.
LEMMA DecFacts == ASSUME NEW c, ShapeOK(c) PROVE DecRight(c)
  <1>1. PICK S \in Nat : S = c.slots
    BY ShapeParts, Zenon
  <1>2. InvMasksRight(c)
    BY InvMasksFacts, Zenon
  <1>3. PICK R : R = InvMasks(c) /\ Rows(R, Len(c.L), S)
    BY <1>1, <1>2, Zenon DEF InvMasksRight
  <1>4. c.E \in Seq(EdgeSet(Len(c.L), S)) /\ DOMAIN c.E = 1..Len(c.E) /\ Len(c.E) \in Nat
    BY <1>1, ShapeParts, Zenon
  <1>5. AddsRight(c.E, R, Len(c.L), S)
    BY <1>3, <1>4, AddsFacts, Zenon
  <1>6. TRUE \in BOOLEAN
    OBVIOUS
  <1>7. ConstOf(TRUE, c) \in Vec(S)
    BY <1>1, <1>6, ConstOfOK, Zenon
  <1>8. Hidden(c) \in Vec(S)
    BY <1>1, <1>3, <1>5, Zenon DEF Hidden, AddsRight
  <1>9. [k \in DOMAIN c.E |-> DecTerm(c, c.E[k])] = Adds(c.E, R)
    <2>1. \A k \in 1..Len(c.E) : DecTerm(c, c.E[k]) = Contr(c.E[k], R)
      BY <1>1, <1>3, <1>5, DecTermIs, Zenon DEF AddsRight
    <2> QED
      BY <1>4, <2>1, Zenon DEF Adds
  <1>10. Adds(c.E, R) = [k \in 1..Len(c.E) |-> Adds(c.E, R)[k]]
    BY DEF Adds
  <1>11. VSum(Adds(c.E, R), S) = PSum(Adds(c.E, R), S, Len(c.E))
    BY <1>4, <1>10, PSumWhole, Zenon
  <1>12. DecValues(c) = VAdd(IF c.c0 = <<>> THEN Zeros(S) ELSE c.c0,
                             VSum([k \in DOMAIN c.E |-> DecTerm(c, c.E[k])], S))
    BY <1>1, Zenon DEF DecValues, DecTerm
  <1>13. ConstOf(TRUE, c) = IF c.c0 = <<>> THEN Zeros(S) ELSE c.c0
    BY <1>1 DEF ConstOf
  <1>14. DecValues(c) = VAdd(ConstOf(TRUE, c), Hidden(c))
    BY <1>1, <1>3, <1>9, <1>11, <1>12, <1>13, Zenon DEF Hidden, Total
  <1>15. 0 \in Int
    OBVIOUS
  <1>16. VAdd(ConstOf(TRUE, c), Hidden(c)) \in Vec(S)
    BY <1>7, <1>8, <1>15, VecOps, Zenon
  <1> QED
    BY <1>1, <1>7, <1>8, <1>14, <1>16, Zenon DEF DecRight

\* A residue is a number.
LEMMA FieldInt == ASSUME NEW x \in Field PROVE x \in Int /\ x \in Nat
  BY ModulusFacts

-----------------------------------------------------------------------------
(* The inverses of the powers of g *)

\* A power and the one that closes it.
LEMMA PowPair ==
    ASSUME NEW i \in 1..(B - 1)
    PROVE  ((PowG[i] * PowG[B - i]) % P) = 1
  <1> DEFINE T == {k \in Nat : k + 1 <= B - 1 => ((PowG[k + 1] * PowG[B - (k + 1)]) % P) = 1}
  <1>1. 0 \in T
    <2>1. PICK x \in Int, y \in Int : x = PowG[B - 1] /\ y = PowG[1]
      BY PowFacts
    <2>2. y = (1 * G) % P
      BY <2>1, PowFacts
    <2>3. G \in Int
      BY ModulusFacts, FieldAssumption
    <2>4. (y * x) % P = (G * x) % P
      BY <2>2, <2>3, ModTimes
    <2>5. (x * G) % P = 1
      BY <2>1, PowersAssumption, Zenon
    <2>6. G * x = x * G
      BY <2>3
    <2> QED
      BY <2>1, <2>4, <2>5, <2>6, PowFacts
  <1>2. ASSUME NEW k \in T PROVE k + 1 \in T
    <2>1. k \in Nat /\ k + 1 \in Nat
      OBVIOUS
    <2>2. ASSUME (k + 1) + 1 <= B - 1 PROVE ((PowG[(k + 1) + 1] * PowG[B - ((k + 1) + 1)]) % P) = 1
      <3>1. /\ k + 1 \in 0..(B - 1) /\ (k + 1) + 1 \in 1..(B - 1) /\ ((k + 1) + 1) - 1 = k + 1
            /\ B - ((k + 1) + 1) \in 0..(B - 1) /\ B - (k + 1) \in 1..(B - 1)
            /\ (B - (k + 1)) - 1 = B - ((k + 1) + 1) /\ k + 1 <= B - 1
        BY <2>1, <2>2, PowFacts
      <3>2. PICK a \in Int, b \in Int, c \in Int, d \in Int :
                /\ a = PowG[k + 1] /\ b = PowG[(k + 1) + 1] /\ c = PowG[B - ((k + 1) + 1)]
                /\ d = PowG[B - (k + 1)]
        <4>1. B - (k + 1) \in 0..(B - 1) /\ (k + 1) + 1 \in 0..(B - 1)
          BY <3>1, PowFacts
        <4>2. /\ PowG[k + 1] \in Int /\ PowG[(k + 1) + 1] \in Int /\ PowG[B - ((k + 1) + 1)] \in Int
              /\ PowG[B - (k + 1)] \in Int
          BY <3>1, <4>1, PowFacts, Zenon
        <4> QED
          BY <4>2, Zenon
      <3>3. b = (a * G) % P /\ d = (c * G) % P
        BY <3>1, <3>2, PowFacts, Zenon
      <3>4. G \in Int
        BY ModulusFacts, FieldAssumption
      <3>5. PICK u \in Int, v \in Int : u = a * G /\ v = c * G
        BY <3>4
      <3>6. (b * c) % P = (u * c) % P
        BY <3>3, <3>5, ModTimes
      <3>7. (a * d) % P = (a * v) % P
        BY <3>3, <3>5, ModTimes
      <3>8. u * c = a * v
        BY <3>4, <3>5
      <3>9. (a * d) % P = 1
        BY <3>1, <3>2
      <3> QED
        BY <3>2, <3>6, <3>7, <3>8, <3>9, Zenon
    <2> QED
      BY <2>1, <2>2
  <1>3. T = Nat
    <2>1. T \in SUBSET Nat
      OBVIOUS
    <2> HIDE DEF T
    <2> QED
      BY <1>1, <1>2, <2>1, Climb
  <1>4. i - 1 \in Nat /\ (i - 1) + 1 = i /\ i <= B - 1
    BY PowFacts
  <1>5. i - 1 \in T
    BY <1>3, <1>4, Zenon
  <1> QED
    BY <1>4, <1>5

\* The scales of the two closings undo the powers, and no power is zero.
ScaleUndoes(scale) == \A i \in 0..(B - 1) : scale[i] \in Field /\ ((PowG[i] * scale[i]) % P) = 1

\* The closings use the inverse, and the power that closes.
LEMMA ScalesUndo ==
    /\ ScaleUndoes(PowScale) /\ ScaleUndoes(InvScale)
    /\ \A i \in 0..(B - 1) : PowG[i] \in Field \ {0}
  <1>1. ASSUME NEW i \in 0..(B - 1) PROVE ((PowG[i] * PowScale[i]) % P) = 1
    <2>1. CASE i = 0
      <3>1. (B - i) % B = 0 /\ PowScale[i] = PowG[(B - i) % B]
        BY <2>1, ScalesFacts, PowFacts
      <3>2. 1 % P = 1
        BY ModulusFacts
      <3> QED
        BY <2>1, <3>1, <3>2, PowFacts
    <2>2. CASE i # 0
      <3>1. i \in 1..(B - 1) /\ (B - i) % B = B - i
        <4>1. i \in 1..(B - 1) /\ B \in Nat \ {0} /\ B - i \in Int /\ B - i \in 0..(B - 1)
              /\ B - i = 0 * B + (B - i) /\ 0 \in Int
          BY <2>2, PowFacts
        <4> QED
          BY <4>1, ModUnique
      <3> QED
        BY <3>1, PowPair, ScalesFacts
    <2> QED
      BY <2>1, <2>2
  <1>2. ASSUME NEW i \in 0..(B - 1) PROVE PowG[i] \in Field /\ PowG[i] # 0
    <2>1. PowG[i] \in Field /\ PowScale[i] \in Int
      BY PowFacts, ScalesFacts, FieldInt
    <2>2. PowG[i] = 0 => PowG[i] * PowScale[i] = 0
      BY <2>1
    <2>3. 0 % P = 0
      BY ModulusFacts
    <2> QED
      BY <1>1, <2>1, <2>2, <2>3
  <1>3. ASSUME NEW i \in 0..(B - 1) PROVE ((PowG[i] * InvScale[i]) % P) = 1
    BY <1>2, InvFacts, ScalesFacts
  <1> QED
    BY <1>1, <1>2, <1>3, ScalesFacts DEF ScaleUndoes

\* A weight that was divided by its place's factor is what it was.
LEMMA UnitUndone ==
    ASSUME NEW S \in Nat, NEW d \in Vec(S), NEW idx \in 0..(B - 1), NEW ch \in {1, -1}, NEW x \in Int,
           ((PowG[idx] * x) % P) = 1
    PROVE  VMul(VScale(VSigned(d, ch), x), Unit(idx, ch, S)) = d
  <1>1. PICK p \in Int, h \in Int : p = PowG[idx] /\ h = ch
    BY PowFacts
  <1>2. VSigned(d, ch) = VMul(d, Flat(h, S))
    BY <1>1, SignedIsMul, Zenon
  <1>3. PICK f \in Vec(S), g \in Vec(S), y \in Vec(S) :
            f = Flat(h, S) /\ g = Flat(x, S) /\ y = Unit(idx, ch, S) /\ y = Flat(p * h, S)
    <2>1. p * h \in Int
      OBVIOUS
    <2>2. Flat(p * h, S) \in Vec(S)
      BY <2>1, FlatFacts, Zenon
    <2> QED
      BY <1>1, <2>2, FlatFacts, Zenon DEF Unit
  <1>4. PICK e \in Vec(S) : e = VMul(d, f)
    <2>1. 0 \in Int
      OBVIOUS
    <2> QED
      BY <2>1, VecOps, Zenon
  <1>5. VScale(e, x) = VMul(e, g)
    BY <1>3, ScaleIsMul, Zenon
  <1>6. VMul(e, g) = VMul(d, VMul(f, g))
    <2>1. Three(S, d, f, g)
      BY Zenon DEF Three
    <2>2. VMul(VMul(d, f), g) = VMul(d, VMul(f, g))
      BY <2>1, ThreeLaws
    <2> QED
      BY <1>4, <2>2, Zenon
  <1>7. VMul(f, g) = Flat(h * x, S)
    BY <1>3, FlatMul, Zenon
  <1>8. PICK z \in Int, w \in Int : z = h * x /\ w = p * h
    OBVIOUS
  <1>9. PICK k \in Vec(S) : k = Flat(z, S)
    BY FlatFacts, Zenon
  <1>10. VMul(VMul(d, k), y) = VMul(d, VMul(k, y))
    BY MulAssoc, Zenon
  <1>11. VMul(k, y) = Flat(z * w, S)
    <2>1. VMul(Flat(z, S), Flat(w, S)) = Flat(z * w, S)
      BY FlatMul, Zenon
    <2> QED
      BY <1>3, <1>8, <1>9, <2>1, Zenon
  <1>12. z * w = p * x /\ z * w \in Int
    <2>1. h = 1 \/ h = -1
      BY <1>1
    <2>2. h = 1 => z * w = p * x
      BY <1>8
    <2>3. h = -1 => z * w = p * x
      BY <1>8
    <2> QED
      BY <2>1, <2>2, <2>3
  <1>13. VMul(d, Flat(z * w, S)) = d
    BY <1>1, <1>12, FlatUnit
  <1> QED
    BY <1>2, <1>3, <1>4, <1>5, <1>6, <1>7, <1>8, <1>9, <1>10, <1>11, <1>13, Zenon

-----------------------------------------------------------------------------
(* What fresh edges add up to *)

\* The terms of a list of edges.
TermsOf(E) == [k \in 1..Len(E) |-> Term(E[k])]

\* Their sum, before the masks.
Signal(E, S) == PSum(TermsOf(E), S, Len(E))

\* Where the mask is the same for all edges it is a factor of the sum.
RowSum(E, R, y, m, S) == Total(E, R, S) = VMul(Signal(E, S), y) /\ Signal(E, S) \in Vec(S)

\* For edges the key accepts.
LEMMA RowSumFacts ==
    ASSUME NEW m, NEW S \in Nat, NEW E \in Seq(EdgeSet(m, S)), NEW R, Rows(R, m, S), NEW y \in Vec(S),
           \A k \in 1..Len(E) : R[E[k].lid] = y
    PROVE  RowSum(E, R, y, m, S)
  <1>1. AddsRight(E, R, m, S)
    BY AddsFacts, Zenon
  <1>2. PICK n \in Nat : n = Len(E)
    BY <1>1, Zenon DEF AddsRight
  <1>3. \A k \in 1..n : E[k] \in EdgeSet(m, S) /\ Adds(E, R)[k] = Contr(E[k], R)
    BY <1>1, <1>2, Zenon DEF AddsRight
  <1>4. \A k \in 1..n : TermRight(E[k], S)
    BY <1>3, TermFacts, Zenon
  <1>5. PICK f, h : f = TermsOf(E) /\ h = Adds(E, R)
    OBVIOUS
  <1>6. \A k \in 1..n : f[k] = Term(E[k])
    BY <1>2, <1>5, Zenon DEF TermsOf
  <1>7. \A k \in 1..n : f[k] \in Vec(S) /\ h[k] = VMul(f[k], y)
    BY <1>2, <1>3, <1>4, <1>5, <1>6, Zenon DEF TermRight, Contr
  <1>8. PSum(h, S, n) = VMul(PSum(f, S, n), y)
    <2>1. AllTimes(f, h, y, S, n)
      BY <1>7, Zenon DEF AllTimes
    <2> QED
      BY <2>1, PSumTimesOf
  <1>9. PSum(f, S, n) \in Vec(S)
    BY <1>7, PSumVec
  <1> QED
    BY <1>2, <1>5, <1>8, <1>9, Zenon DEF RowSum, Total, Signal

\* The edges of a closing are of its layer and add up to the target.
ClosingAdds(lid, target, n, t, unscale, m, S) ==
    LET E == ClosingEdges(lid, target, n, t, unscale)
    IN  /\ E \in Seq(EdgeSet(m, S)) /\ Len(E) = n /\ \A k \in 1..n : E[k].lid = lid
        /\ Signal(E, S) = target

\* Whatever the random ones are.
LEMMA ClosingSignal ==
    ASSUME NEW m \in Nat, NEW lid \in 1..m, NEW S \in Nat, NEW target \in Vec(S), NEW n \in 1..B,
           NEW t \in Nat, NEW unscale, ScaleUndoes(unscale)
    PROVE  ClosingAdds(lid, target, n, t, unscale, m, S)
  <1>1. \A i \in 0..(B - 1) : unscale[i] \in Field
    BY Zenon DEF ScaleUndoes
  <1>2. ClosingRight(lid, target, n, t, unscale, m)
    BY <1>1, ClosingFacts, Zenon
  <1>3. Len(target) = S
    BY VecFacts, Zenon
  <1>4. PICK E : E = ClosingEdges(lid, target, n, t, unscale)
    OBVIOUS
  <1>5. /\ EdgesOK(E, m, S) /\ Len(E) = n /\ E[n].w = Closing(lid, target, n, t, unscale)
        /\ \A i \in 1..n : E[i].lid = lid /\ E[i].idx = UniqueIdx(t, i) /\ E[i].ch = SignBit(t, i)
        /\ \A i \in 1..(n - 1) : E[i] = RndEdge(lid, t, i, S)
        /\ VSum(RndTerms(lid, t, n, S), S) \in Vec(S)
    BY <1>2, <1>3, <1>4, Zenon DEF ClosingRight
  <1>6. PICK q \in Nat : n = q + 1 /\ n - 1 = q /\ n \in Nat /\ n \in 1..n /\ 1..q \subseteq 1..n
    <2>1. n - 1 \in Nat /\ n = (n - 1) + 1 /\ n \in 1..n /\ 1..(n - 1) \subseteq 1..n /\ n \in Nat
      BY PowFacts
    <2> QED
      BY <2>1
  <1>7. E \in Seq(EdgeSet(m, S)) /\ \A k \in 1..n : E[k] \in EdgeSet(m, S)
    BY <1>5, SeqIs, Zenon DEF EdgesOK
  <1>8. PICK f, g : f = TermsOf(E) /\ g = RndTerms(lid, t, n, S)
    OBVIOUS
  <1>9. \A k \in 1..n : f[k] = Term(E[k])
    BY <1>5, <1>8, Zenon DEF TermsOf
  <1>10. \A i \in 1..q : g[i] = Term(RndEdge(lid, t, i, S))
    BY <1>6, <1>8, Zenon DEF RndTerms
  <1>11. \A i \in 1..q : f[i] = g[i]
    BY <1>5, <1>6, <1>9, <1>10, Zenon
  <1>12. PSum(f, S, q) = PSum(g, S, q)
    BY <1>11, PSumSame, Zenon
  <1>13. g = [i \in 1..q |-> g[i]]
    BY <1>6, <1>8 DEF RndTerms
  <1>14. VSum(g, S) = PSum(g, S, q)
    BY <1>13, PSumWhole, Zenon
  <1>15. PICK s \in Vec(S) : s = VSum(g, S)
    BY <1>5, <1>8, Zenon
  <1>16. 0 \in Int
    OBVIOUS
  <1>17. PICK d \in Vec(S) : d = VSub(target, s)
    BY <1>16, VecOps, Zenon
  <1>18. PICK ch \in {1, -1}, idx \in 0..(B - 1) : ch = SignBit(t, n) /\ idx = UniqueIdx(t, n)
    BY <1>6, DrawsFacts, Zenon DEF DrawsRight
  <1>19. E[n].w = VScale(VSigned(d, ch), unscale[idx]) /\ E[n].ch = ch /\ E[n].idx = idx
    BY <1>3, <1>5, <1>6, <1>8, <1>15, <1>17, <1>18, Zenon DEF Closing
  <1>20. Term(E[n]) = VMul(E[n].w, Unit(E[n].idx, E[n].ch, S))
    BY <1>6, <1>7, TermFacts, Zenon DEF TermRight
  <1>21. PICK x \in Int : x = unscale[idx] /\ ((PowG[idx] * x) % P) = 1
    <2>1. unscale[idx] \in Field /\ ((PowG[idx] * unscale[idx]) % P) = 1
      BY Zenon DEF ScaleUndoes
    <2>2. unscale[idx] \in Int
      BY <2>1, FieldInt, Zenon
    <2> QED
      BY <2>1, <2>2, Zenon
  <1>22. VMul(VScale(VSigned(d, ch), x), Unit(idx, ch, S)) = d
    BY <1>21, UnitUndone
  <1>23. f[q + 1] = d
    BY <1>6, <1>9, <1>19, <1>20, <1>21, <1>22, Zenon
  <1>24. PSum(f, S, q + 1) = VAdd(PSum(f, S, q), f[q + 1])
    BY PSumNext, Zenon
  <1>25. VAdd(s, d) = target
    BY <1>17, AddComm, SubAdd, Zenon
  <1>26. Signal(E, S) = target
    BY <1>5, <1>6, <1>8, <1>12, <1>14, <1>15, <1>23, <1>24, <1>25, Zenon DEF Signal
  <1> QED
    BY <1>4, <1>5, <1>7, <1>26, Zenon DEF ClosingAdds

\* What was divided and multiplied again.
LEMMA ScaleUndone ==
    ASSUME NEW S \in Nat, NEW d \in Vec(S), NEW x \in Int, NEW p \in Int, ((p * x) % P) = 1
    PROVE  VScale(VScale(d, x), p) = d
  <1>1. PICK f \in Vec(S), g \in Vec(S) : f = Flat(x, S) /\ g = Flat(p, S)
    BY FlatFacts, Zenon
  <1>2. PICK e \in Vec(S) : e = VScale(d, x)
    BY VecOps, Zenon
  <1>3. e = VMul(d, f) /\ VScale(e, p) = VMul(e, g)
    BY <1>1, <1>2, ScaleIsMul, Zenon
  <1>4. VMul(VMul(d, f), g) = VMul(d, VMul(f, g))
    BY MulAssoc, Zenon
  <1>5. VMul(f, g) = Flat(x * p, S)
    BY <1>1, FlatMul, Zenon
  <1>6. x * p = p * x /\ x * p \in Int
    OBVIOUS
  <1>7. VMul(d, Flat(x * p, S)) = d
    BY <1>6, FlatUnit
  <1> QED
    BY <1>2, <1>3, <1>4, <1>5, <1>7, Zenon

\* Sums of two and of three.
LEMMA PSumTwo ==
    ASSUME NEW S \in Nat, NEW f, f[1] \in Vec(S), f[2] \in Vec(S)
    PROVE  PSum(f, S, 2) = VAdd(f[1], f[2])
  <1>1. 0 + 1 = 1 /\ 1 + 1 = 2 /\ 0 \in Nat /\ 1 \in Nat
    OBVIOUS
  <1>2. PSum(f, S, 0 + 1) = VAdd(PSum(f, S, 0), f[0 + 1]) /\ PSum(f, S, 1 + 1) = VAdd(PSum(f, S, 1), f[1 + 1])
    BY <1>1, PSumNext, Zenon
  <1>3. PSum(f, S, 0) = Zeros(S) /\ VAdd(Zeros(S), f[1]) = f[1]
    BY PSumZero, ZeroAdd, Zenon
  <1> QED
    BY <1>1, <1>2, <1>3

\* In the order of the list.
LEMMA PSumThree ==
    ASSUME NEW S \in Nat, NEW f, f[1] \in Vec(S), f[2] \in Vec(S), f[3] \in Vec(S)
    PROVE  PSum(f, S, 3) = VAdd(VAdd(f[1], f[2]), f[3])
  <1>1. 2 + 1 = 3 /\ 2 \in Nat
    OBVIOUS
  <1>2. PSum(f, S, 2 + 1) = VAdd(PSum(f, S, 2), f[2 + 1])
    BY <1>1, PSumNext, Zenon
  <1>3. PSum(f, S, 2) = VAdd(f[1], f[2])
    BY PSumTwo, Zenon
  <1> QED
    BY <1>1, <1>2, <1>3

\* A vector and what it lacks of another, under opposite signs.
LEMMA NoiseSigns ==
    ASSUME NEW S \in Nat, NEW x \in Vec(S), NEW d \in Vec(S), NEW ch \in {1, -1}
    PROVE  VAdd(VSigned(x, ch), VSigned(VSub(x, VSigned(d, ch)), -ch)) = d
  <1>1. 0 \in Int
    OBVIOUS
  <1>2. CASE ch = 1
    <2>1. VSigned(x, ch) = x /\ VSigned(d, ch) = d
      BY <1>2 DEF VSigned
    <2>2. PICK y \in Vec(S) : y = VSub(x, d)
      BY <1>1, VecOps, Zenon
    <2>3. VSigned(y, -ch) = VNeg(y)
      BY <1>2 DEF VSigned
    <2>4. VAdd(y, d) = x
      BY <2>2, SubAdd, Zenon
    <2>5. VSub(x, y) = VAdd(x, VNeg(y))
      BY SubIsAdd, Zenon
    <2>6. VAdd(d, y) = x
      BY <2>4, AddComm, Zenon
    <2>7. VSub(VAdd(d, y), y) = d
      BY AddSub, Zenon
    <2> QED
      BY <2>1, <2>2, <2>3, <2>5, <2>6, <2>7, Zenon
  <1>3. CASE ch = -1
    <2>1. VSigned(x, ch) = VNeg(x) /\ VSigned(d, ch) = VNeg(d)
      BY <1>3 DEF VSigned
    <2>2. PICK n \in Vec(S), e \in Vec(S) : n = VNeg(x) /\ e = VNeg(d)
      BY VecSigned, Zenon
    <2>3. VSigned(VSub(x, e), -ch) = VSub(x, e)
      <3>1. PICK h \in Int : h = ch /\ h + 1 = 0
        BY <1>3
      <3>2. -h = 1
        BY <3>1
      <3>3. -ch = 1
        BY <3>1, <3>2, Zenon
      <3> QED
        BY <3>3, Zenon DEF VSigned
    <2>4. VSub(x, e) = VAdd(x, d)
      BY <2>2, SubIsAdd, NegTwice, Zenon
    <2>5. PICK y \in Vec(S) : y = VAdd(x, d)
      BY <1>1, VecOps, Zenon
    <2>6. VAdd(n, y) = VAdd(y, n) /\ y = VAdd(d, x)
      BY <2>5, AddComm, Zenon
    <2>7. VSub(y, x) = VAdd(y, n) /\ VSub(VAdd(d, x), x) = d
      BY <2>2, SubIsAdd, AddSub, Zenon
    <2> QED
      BY <2>1, <2>2, <2>3, <2>4, <2>5, <2>6, <2>7, Zenon
  <1> QED
    BY <1>2, <1>3

\* N2 adds the noise.
LEMMA N2Signal ==
    ASSUME NEW S \in Nat, NEW dt \in Vec(S), NEW t \in Nat
    PROVE  Signal(N2Edges(dt, t), S) = dt
  <1>1. N2Right(dt, t, S)
    BY N2Facts, Zenon
  <1>2. PICK a, b, E : a = N2A(dt, t) /\ b = N2B(dt, t) /\ E = N2Edges(dt, t) /\ E = <<a, b>>
    BY <1>1, Zenon DEF N2Right
  <1>3. Len(E) = 2 /\ E[1] = a /\ E[2] = b
    BY <1>2
  <1>4. 3 \in Nat /\ 1 \in Nat /\ 2 \in Nat /\ 4 \in Nat /\ 1 \in 1..2 /\ 2 \in 1..2
    OBVIOUS
  <1>5. PICK ch \in {1, -1}, i \in 0..(B - 1), j \in 0..(B - 1) :
            ch = SignBit(t, 3) /\ i = UniqueIdx(t, 1) /\ j = UniqueIdx(t, 2)
    BY <1>4, DrawsFacts, Zenon DEF DrawsRight
  <1>6. PICK ra \in Vec(S) : ra = NonzeroVec(t, 4, S)
    BY <1>4, NonzeroVecFacts, Zenon
  <1>7. PICK p \in Field, u \in Field : p = PowG[i] /\ u = PowG[j] /\ u # 0
    BY ScalesUndo
  <1>8. p \in Int /\ u \in Int /\ FInv(u) \in Int /\ ((u * FInv(u)) % P) = 1
    BY <1>7, FieldInt, InvFacts, Zenon
  <1>9. PICK x \in Vec(S) : x = VScale(ra, p)
    BY <1>8, VecOps, Zenon
  <1>10. PICK e \in Vec(S) : e = VSigned(dt, ch)
    BY VecSigned, Zenon
  <1>11. PICK d \in Vec(S) : d = VSub(x, e)
    <2>1. 0 \in Int
      OBVIOUS
    <2> QED
      BY <2>1, VecOps, Zenon
  <1>12. Len(dt) = S
    BY VecFacts, Zenon
  <1>13. N2Other(dt, t) = VScale(d, FInv(u))
    BY <1>5, <1>6, <1>7, <1>9, <1>10, <1>11, <1>12, Zenon DEF N2Other
  <1>14. a.w = ra /\ a.idx = i /\ a.ch = ch /\ b.w = N2Other(dt, t) /\ b.idx = j /\ b.ch = -ch
    BY <1>1, <1>2, <1>5, <1>6, <1>12, Zenon DEF N2Right, EdgeMakes, N2A, N2B
  <1>15. Term(a) = VSigned(x, ch)
    BY <1>7, <1>9, <1>14, Zenon DEF Term
  <1>16. VScale(VScale(d, FInv(u)), u) = d
    BY <1>8, ScaleUndone, Zenon
  <1>17. Term(b) = VSigned(d, -ch)
    BY <1>7, <1>13, <1>14, <1>16, Zenon DEF Term
  <1>18. PICK f : f = TermsOf(E)
    OBVIOUS
  <1>19. f[1] = Term(a) /\ f[2] = Term(b)
    BY <1>3, <1>4, <1>18, Zenon DEF TermsOf
  <1>20. f[1] \in Vec(S) /\ f[2] \in Vec(S)
    BY <1>15, <1>17, <1>19, VecSigned, Zenon
  <1>21. PSum(f, S, 2) = VAdd(f[1], f[2])
    BY <1>20, PSumTwo, Zenon
  <1>22. VAdd(VSigned(x, ch), VSigned(VSub(x, VSigned(dt, ch)), -ch)) = dt
    BY NoiseSigns, Zenon
  <1> QED
    BY <1>2, <1>3, <1>10, <1>11, <1>15, <1>17, <1>18, <1>19, <1>21, <1>22, Zenon DEF Signal

\* The inverse of a signed power.
LEMMA SignedPower ==
    ASSUME NEW p \in Field \ {0}, NEW ch \in {1, -1}
    PROVE  FInv((ch * p) % P) \in Int /\ ((FInv((ch * p) % P) * (p * ch)) % P) = 1
  <1>1. p \in Int /\ p > 0 /\ p < P /\ ch \in Int /\ P \in Int /\ ch * p \in Int
    BY ModulusFacts DEF Field
  <1>2. PICK z \in Int, y \in Field : z = ch * p /\ y = z % P
    BY <1>1, ModField
  <1>3. y # 0
    <2>1. CASE ch = 1
      BY <1>1, <1>2, <2>1, ModField
    <2>2. CASE ch = -1
      <3>1. z = (P - p) + (-1) * P /\ P - p \in Field /\ P - p \in Int /\ -1 \in Int /\ P - p # 0
        BY <1>1, <1>2, <2>2, ModulusFacts DEF Field
      <3>2. z % P = (P - p) % P
        BY <3>1, ModShift
      <3>3. (P - p) % P = P - p
        BY <3>1, ModField
      <3> QED
        BY <1>2, <3>1, <3>2, <3>3
    <2> QED
      BY <2>1, <2>2
  <1>4. FInv(y) \in Field /\ (y * FInv(y)) % P = 1
    BY <1>3, InvFacts
  <1>5. PICK i \in Int : i = FInv(y)
    BY <1>4, FieldInt, Zenon
  <1>6. ((z % P) * i) % P = (z * i) % P
    BY ModTimes
  <1>7. z * i = i * (p * ch)
    BY <1>1, <1>2
  <1> QED
    BY <1>2, <1>4, <1>5, <1>6, <1>7, Zenon

\* The operations on two vectors return vectors.
LEMMA VecClosed ==
    ASSUME NEW S \in Nat, NEW a \in Vec(S), NEW b \in Vec(S)
    PROVE  /\ VAdd(a, b) \in Vec(S) /\ VSub(a, b) \in Vec(S) /\ VMul(a, b) \in Vec(S)
           /\ VNeg(a) \in Vec(S) /\ Zeros(S) \in Vec(S)
  <1>1. 0 \in Int
    OBVIOUS
  <1> QED
    BY <1>1, VecOps, VecSigned, Zenon

\* A weight that was divided by its signed power.
LEMMA SignedUndone ==
    ASSUME NEW S \in Nat, NEW d \in Vec(S), NEW idx \in 0..(B - 1), NEW ch \in {1, -1}
    PROVE  VMul(VScale(d, FInv((ch * PowG[idx]) % P)), Unit(idx, ch, S)) = d
  <1>1. PICK p \in Field \ {0} : p = PowG[idx]
    BY ScalesUndo, Zenon
  <1>2. PICK x \in Int : x = FInv((ch * p) % P) /\ ((x * (p * ch)) % P) = 1
    BY SignedPower, Zenon
  <1>3. p \in Int /\ ch \in Int
    BY <1>1, FieldInt
  <1>4. PICK z \in Int : z = p * ch
    BY <1>3
  <1>5. PICK f \in Vec(S), g \in Vec(S) : f = Flat(x, S) /\ g = Flat(z, S)
    BY FlatFacts, Zenon
  <1>6. Unit(idx, ch, S) = g
    BY <1>1, <1>4, <1>5, Zenon DEF Unit
  <1>7. VScale(d, x) = VMul(d, f)
    BY <1>5, ScaleIsMul, Zenon
  <1>8. VMul(VMul(d, f), g) = VMul(d, VMul(f, g))
    BY MulAssoc, Zenon
  <1>9. VMul(f, g) = Flat(x * z, S)
    BY <1>5, FlatMul, Zenon
  <1>10. x * z \in Int /\ (x * z) % P = 1
    BY <1>2, <1>4
  <1>11. VMul(d, Flat(x * z, S)) = d
    BY <1>10, FlatUnit
  <1> QED
    BY <1>1, <1>2, <1>6, <1>7, <1>8, <1>9, <1>11, Zenon

\* N3 adds the noise.
LEMMA N3Signal ==
    ASSUME NEW S \in Nat, NEW dt \in Vec(S), NEW t \in Nat
    PROVE  Signal(N3Edges(dt, t), S) = dt
  <1>1. N3Right(dt, t, S)
    BY N3Facts, Zenon
  <1>2. PICK a, b, e, c, E : /\ a = N3E(t, 1, S) /\ b = N3E(t, 2, S) /\ e = N3E(t, 3, S)
                             /\ c = N3C(dt, t) /\ E = N3Edges(dt, t) /\ E = <<a, b, c>>
    BY <1>1, Zenon DEF N3Right
  <1>3. Len(E) = 3 /\ E[1] = a /\ E[2] = b /\ E[3] = c
    BY <1>2
  <1>4. 1 \in 1..3 /\ 2 \in 1..3 /\ 3 \in 1..3 /\ 3 \in Nat /\ 6 \in Nat /\ 2 * 3 = 6
    OBVIOUS
  <1>5. PICK ch \in {1, -1}, i \in 0..(B - 1) : ch = SignBit(t, 6) /\ i = UniqueIdx(t, 3)
    BY <1>4, DrawsFacts, Zenon DEF DrawsRight
  <1>6. e.ch = ch /\ e.idx = i
    <2>1. EdgeMakes(1, UniqueIdx(t, 3), SignBit(t, 2 * 3), NonzeroVec(t, 3 * 3, S), Sigma(t, 3), 1, S)
      BY <1>1, <1>4, Zenon DEF N3Right
    <2>2. e = Edge(1, UniqueIdx(t, 3), SignBit(t, 2 * 3), NonzeroVec(t, 3 * 3, S), Sigma(t, 3))
      BY <1>2, Zenon DEF N3E
    <2>3. e.ch = SignBit(t, 2 * 3) /\ e.idx = UniqueIdx(t, 3)
      BY <2>1, <2>2, Zenon DEF EdgeMakes
    <2> QED
      BY <1>4, <1>5, <2>3, Zenon
  <1>7. a \in EdgeSet(1, S) /\ b \in EdgeSet(1, S) /\ c \in EdgeSet(1, S) /\ Len(dt) = S
    BY <1>1, <1>2, <1>4, Zenon DEF N3Right
  <1>8. PICK x \in Vec(S), y \in Vec(S) : x = Term(a) /\ y = Term(b)
    BY <1>7, TermVec, Zenon
  <1>9. PICK s \in Vec(S) : s = VAdd(x, y)
    BY VecClosed, Zenon
  <1>10. PICK d \in Vec(S) : d = VSub(dt, s)
    BY VecClosed, Zenon
  <1>11. N3Last(dt, t) = VScale(d, FInv((ch * PowG[i]) % P))
    BY <1>2, <1>6, <1>7, <1>8, <1>9, <1>10, Zenon DEF N3Last
  <1>12. c.w = N3Last(dt, t) /\ c.ch = ch /\ c.idx = i
    <2>1. c = [e EXCEPT !.w = N3Last(dt, t)]
      BY <1>2, <1>7, Zenon DEF N3C
    <2>2. WeightRight(e, N3Last(dt, t), 1, S)
      BY <1>1, <1>2, Zenon DEF N3Right
    <2> QED
      BY <1>6, <2>1, <2>2, Zenon DEF WeightRight
  <1>13. Term(c) = VMul(c.w, Unit(c.idx, c.ch, S))
    BY <1>7, TermFacts, Zenon DEF TermRight
  <1>14. Term(c) = d
    <2>1. VMul(VScale(d, FInv((ch * PowG[i]) % P)), Unit(i, ch, S)) = d
      BY <1>5, <1>10, SignedUndone
    <2> QED
      BY <1>11, <1>12, <1>13, <2>1, Zenon
  <1>15. PICK f : f = TermsOf(E)
    OBVIOUS
  <1>16. f[1] = x /\ f[2] = y /\ f[3] = d
    BY <1>3, <1>4, <1>8, <1>14, <1>15, Zenon DEF TermsOf
  <1>17. PSum(f, S, 3) = VAdd(VAdd(x, y), d)
    BY <1>16, PSumThree, Zenon
  <1>18. VAdd(s, d) = VAdd(d, s) /\ VAdd(d, s) = dt
    BY <1>10, AddComm, SubAdd, Zenon
  <1> QED
    BY <1>2, <1>3, <1>9, <1>15, <1>17, <1>18, Zenon DEF Signal

\* Edges of the only layer.
LEMMA OneRow ==
    ASSUME NEW S \in Nat, NEW E \in Seq(EdgeSet(1, S)), NEW R, Rows(R, 1, S)
    PROVE  RowSum(E, R, R[1], 1, S) /\ R[1] \in Vec(S)
  <1>1. R[1] \in Vec(S)
    BY DEF Rows
  <1>2. \A k \in 1..Len(E) : E[k] \in EdgeSet(1, S)
    BY SeqIs, Zenon
  <1>3. \A k \in 1..Len(E) : R[E[k].lid] = R[1]
    <2>1. TAKE k \in 1..Len(E)
    <2>2. E[k].lid \in 1..1
      BY <1>2 DEF EdgeSet
    <2>3. E[k].lid = 1
      BY <2>2
    <2> QED
      BY <2>3, Zenon
  <1> QED
    BY <1>1, <1>3, RowSumFacts

\* A layer of encryption, before the mask: the value.
LEMMA RawTotal ==
    ASSUME NEW S \in Nat, NEW v \in Vec(S), NEW t \in Nat, NEW R, Rows(R, 1, S)
    PROVE  Total(RawEdges(v, t), R, S) = VMul(v, R[1])
  <1>1. Len(v) = S /\ 5 \in Nat /\ 7 \in Nat /\ t + 1 \in Nat /\ 1 \in Nat /\ 1 \in 1..1
    BY VecFacts
  <1>2. PICK x \in Vec(S), y \in Vec(S) : x = NonzeroVec(t, 5, S) /\ y = NonzeroVec(t, 7, S)
    BY <1>1, NonzeroVecFacts, Zenon
  <1>3. PICK d \in Vec(S) : d = VAdd(x, y)
    BY VecClosed, Zenon
  <1>4. PICK s \in Vec(S) : s = VSub(v, d)
    BY VecClosed, Zenon
  <1>5. PICK E, F, H : E = SigEdges(s, t) /\ F = N2Edges(x, t) /\ H = N3Edges(y, t + 1)
    OBVIOUS
  <1>6. RawEdges(v, t) = (E \o F) \o H
    BY <1>1, <1>2, <1>3, <1>4, <1>5, Zenon DEF RawEdges
  <1>7. E \in Seq(EdgeSet(1, S)) /\ Signal(E, S) = s
    <2>1. K \in 1..B
      BY BoundAssumption
    <2>2. ScaleUndoes(InvScale)
      BY ScalesUndo
    <2>3. ClosingAdds(1, s, K, t, InvScale, 1, S)
      BY <1>1, <2>1, <2>2, ClosingSignal, Zenon
    <2>4. E = ClosingEdges(1, s, K, t, InvScale)
      BY <1>5, SigFacts, Zenon DEF SigRight
    <2> QED
      BY <2>3, <2>4, Zenon DEF ClosingAdds
  <1>8. F \in Seq(EdgeSet(1, S)) /\ Signal(F, S) = x
    BY <1>5, N2Facts, N2Signal, Zenon DEF N2Right
  <1>9. H \in Seq(EdgeSet(1, S)) /\ Signal(H, S) = y
    BY <1>1, <1>5, N3Facts, N3Signal, Zenon DEF N3Right
  <1>10. PICK r \in Vec(S) : r = R[1]
    BY <1>7, OneRow, Zenon
  <1>11. Total(E, R, S) = VMul(s, r) /\ Total(F, R, S) = VMul(x, r) /\ Total(H, R, S) = VMul(y, r)
    BY <1>7, <1>8, <1>9, <1>10, OneRow, Zenon DEF RowSum
  <1>12. E \o F \in Seq(EdgeSet(1, S))
    BY <1>7, <1>8
  <1>13. Total(E \o F, R, S) = VAdd(VMul(s, r), VMul(x, r))
    BY <1>7, <1>8, <1>11, TotalConcat
  <1>14. Total((E \o F) \o H, R, S) = VAdd(Total(E \o F, R, S), VMul(y, r))
    <2>1. PICK X \in Seq(EdgeSet(1, S)) : X = E \o F
      BY <1>12, Zenon
    <2>2. Total(X \o H, R, S) = VAdd(Total(X, R, S), Total(H, R, S))
      <3>1. Joinable(X, H, R, 1, S)
        BY <1>9, <2>1, Zenon DEF Joinable
      <3> QED
        BY <3>1, TotalConcatOf
    <2> QED
      BY <1>11, <2>1, <2>2, Zenon
  <1>15. VAdd(VMul(s, r), VMul(x, r)) = VMul(VAdd(s, x), r)
    <2>1. Three(S, s, x, r)
      BY Zenon DEF Three
    <2> QED
      BY <2>1, ThreeLaws
  <1>16. PICK q \in Vec(S) : q = VAdd(s, x)
    BY VecClosed, Zenon
  <1>17. VAdd(VMul(q, r), VMul(y, r)) = VMul(VAdd(q, y), r)
    BY <1>16, AddMul
  <1>18. VAdd(q, y) = VAdd(s, d)
    <2>1. VAdd(VAdd(s, x), y) = VAdd(s, VAdd(x, y))
      BY <1>2, <1>4, AddAssoc
    <2> QED
      BY <1>3, <1>16, <2>1, Zenon
  <1>19. VAdd(s, d) = v
    BY <1>4, SubAdd, Zenon
  <1> QED
    BY <1>6, <1>10, <1>13, <1>14, <1>15, <1>16, <1>17, <1>18, <1>19, Zenon

\* Masking the edges masks their sum.
LEMMA MaskTotal ==
    ASSUME NEW m, NEW S \in Nat, NEW E \in Seq(EdgeSet(m, S)), NEW R, Rows(R, m, S), NEW r \in Vec(S)
    PROVE  Total(MaskEdges(E, r), R, S) = VMul(Total(E, R, S), r)
  <1>1. PICK F \in Seq(EdgeSet(m, S)) : F = MaskEdges(E, r)
    BY MaskedFacts, Zenon
  <1>2. Len(F) = Len(E) /\ \A k \in 1..Len(E) : WeightRight(E[k], VMul(E[k].w, r), m, S)
                                              /\ F[k] = [E[k] EXCEPT !.w = VMul(E[k].w, r)]
    BY <1>1, MaskedFacts
  <1>3. AddsRight(E, R, m, S)
    BY AddsFacts, Zenon
  <1>4. \A k \in 1..Len(E) : Contr(F[k], R) = VMul(Contr(E[k], R), r)
    <2>1. TAKE k \in 1..Len(E)
    <2>2. PICK e \in EdgeSet(m, S) : e = E[k]
      BY <1>3, Zenon DEF AddsRight
    <2>3. PICK f : f = F[k]
      OBVIOUS
    <2>4. /\ f \in EdgeSet(m, S) /\ f.lid = e.lid /\ f.idx = e.idx /\ f.ch = e.ch
          /\ f.w = VMul(e.w, r)
      BY <1>2, <2>2, <2>3, Zenon DEF WeightRight
    <2>5. R[e.lid] \in Vec(S) /\ R[f.lid] = R[e.lid]
      BY <2>2, <2>4, ContrVec, Zenon
    <2>6. Contr(f, R) = VMul(Contr(e, R), r)
      BY <2>2, <2>4, <2>5, ContrTimes
    <2> QED
      BY <2>2, <2>3, <2>6, Zenon
  <1>5. TimesAdds(E, F, R, R, r)
    BY <1>2, <1>4, Zenon DEF TimesAdds
  <1> QED
    BY <1>1, <1>5, TotalTimes

\* A mask and its inverse cancel.
LEMMA MaskCancels ==
    ASSUME NEW S \in Nat, NEW r \in MaskVec(S), NEW v \in Vec(S)
    PROVE  /\ VMul(VMul(v, Inverses(r)), r) = v /\ Inverses(r) \in Vec(S) /\ r \in Vec(S)
           /\ VMul(Inverses(r), r) = Flat(1, S)
  <1>1. r \in Vec(S) /\ \A j \in 1..S : r[j] # 0
    BY DEF MaskVec
  <1>2. PICK i \in Vec(S) : i = Inverses(r) /\ \A j \in 1..S : i[j] = FInv(r[j])
    BY <1>1, InversesVec, Zenon
  <1>3. 1 \in Int /\ 1 % P = 1
    BY ModulusFacts
  <1>4. PICK u \in Vec(S) : u = Flat(1, S) /\ \A j \in 1..S : u[j] = 1 % P
    BY <1>3, FlatFacts, Zenon
  <1>5. PICK x \in Vec(S) : x = VMul(i, r) /\ \A j \in 1..S : x[j] = ((i[j] * r[j]) % P)
    <2>1. 0 \in Int
      OBVIOUS
    <2>2. VecAt(i, r, 0, S)
      BY <1>1, <1>2, <2>1, VecAtFacts
    <2> QED
      BY <2>2, Zenon DEF VecAt
  <1>6. \A j \in 1..S : x[j] = u[j]
    <2>1. TAKE j \in 1..S
    <2>2. PICK a \in Field : a = r[j] /\ a # 0
      <3>1. r[j] \in Field
        BY <1>1, VecFacts, Zenon
      <3>2. r[j] # 0
        BY <1>1, Zenon
      <3> QED
        BY <3>1, <3>2, Zenon
    <2>3. FInv(a) \in Field /\ ((a * FInv(a)) % P) = 1
      BY <2>2, InvFacts, Zenon
    <2>4. a \in Int /\ FInv(a) \in Int
      BY <2>2, <2>3, FieldInt, Zenon
    <2>5. FInv(a) * a = a * FInv(a)
      BY <2>4
    <2> QED
      BY <1>2, <1>3, <1>4, <1>5, <2>2, <2>3, <2>5, Zenon
  <1>7. x = u
    BY <1>6, VecEqual, Zenon
  <1>8. VMul(VMul(v, i), r) = VMul(v, VMul(i, r))
    BY <1>1, <1>2, MulAssoc
  <1>9. VMul(v, Flat(1, S)) = v
    BY <1>3, FlatUnit
  <1> QED
    BY <1>1, <1>2, <1>4, <1>5, <1>7, <1>8, <1>9, Zenon

\* The order of the edges does not matter.
LEMMA PermuteTotal ==
    ASSUME NEW m, NEW S \in Nat, NEW E \in Seq(EdgeSet(m, S)), NEW R, Rows(R, m, S), NEW t \in Nat
    PROVE  Total(Permute(E, t), R, S) = Total(E, R, S)
  <1>1. CASE t % 2 = 0
    BY <1>1, Zenon DEF Permute
  <1>2. CASE t % 2 # 0
    <2>1. AddsRight(E, R, m, S)
      BY AddsFacts, Zenon
    <2>2. PICK n \in Nat : n = Len(E)
      BY <2>1, Zenon DEF AddsRight
    <2>3. PICK F : F = Permute(E, t) /\ F = [i \in 1..n |-> E[(n - i) + 1]]
      BY <1>2, <2>2, Zenon DEF Permute, Reverse
    <2>4. Len(F) = n
      BY <2>3
    <2>5. PICK f, h : f = Adds(E, R) /\ h = Adds(F, R)
      OBVIOUS
    <2>6. \A k \in 1..n : f[k] \in Vec(S)
      BY <2>1, <2>2, <2>5, Zenon DEF AddsRight
    <2>7. \A k \in 1..n : h[k] = f[(n + 1) - k]
      <3>1. TAKE k \in 1..n
      <3>2. (n - k) + 1 = (n + 1) - k /\ (n + 1) - k \in 1..n
        OBVIOUS
      <3>3. F[k] = E[(n + 1) - k]
        BY <2>3, <3>2, Zenon
      <3>4. h[k] = Contr(F[k], R)
        BY <2>4, <2>5, Zenon DEF Adds
      <3>5. f[(n + 1) - k] = Contr(E[(n + 1) - k], R)
        BY <2>2, <2>5, <3>2, Zenon DEF Adds
      <3> QED
        BY <3>3, <3>4, <3>5, Zenon
    <2>8. PSum(h, S, n) = PSum(f, S, n)
      BY <2>6, <2>7, PSumReverse
    <2> QED
      BY <2>2, <2>3, <2>4, <2>5, <2>8, Zenon DEF Total
  <1> QED
    BY <1>1, <1>2

\* A ciphertext decrypts to v.
Holds(c, v) == DecValues(c) = v

\* synth: a layer of encryption decrypts to its value.
LEMMA SynthVal ==
    ASSUME NEW S \in Slots, NEW layer, LayerOK(layer, S), ~IsProd(layer), NEW r, r = BaseMask(layer, S),
           NEW v \in Vec(S), NEW t \in Nat
    PROVE  DecValues(SynthUnder(layer, r, v, t)) = v /\ Hidden(SynthUnder(layer, r, v, t)) = v
  <1>1. S \in Nat /\ S # 0 /\ Len(v) = S
    BY SlotsFacts, VecFacts
  <1>2. r \in MaskVec(S) /\ r \in Vec(S)
    BY BaseMaskFacts DEF MaskVec
  <1>3. PICK c : c = SynthUnder(layer, r, v, t)
    OBVIOUS
  <1>4. ShapeOK(c) /\ c.slots = S /\ c.c0 = Zeros(S) /\ c.L = <<layer>>
    <2>1. Good(c) /\ c.slots = S /\ c.c0 = Zeros(S) /\ c.L = <<layer>>
      BY <1>2, <1>3, SynthGood
    <2> QED
      BY <2>1, Zenon DEF Good
  <1>5. Len(c.L) = 1 /\ c.L[1] = layer /\ 1 \in 1..1
    BY <1>4
  <1>6. Masks(c)[1] = r
    BY <1>4, <1>5, MasksRight, Zenon DEF MasksAre
  <1>7. PICK R : R = InvMasks(c)
    OBVIOUS
  <1>8. Rows(R, 1, S) /\ R[1] = Inverses(r)
    <2>1. InvMasksRight(c)
      BY <1>4, InvMasksFacts, Zenon
    <2> QED
      BY <1>4, <1>5, <1>6, <1>7, <2>1, Zenon DEF InvMasksRight
  <1>9. PICK E \in Seq(EdgeSet(1, S)) : E = RawEdges(v, t)
    BY <1>1, RawFacts, Zenon
  <1>10. PICK M \in Seq(EdgeSet(1, S)) : M = MaskEdges(E, r)
    BY <1>1, <1>2, MaskedFacts, Zenon
  <1>11. PICK F \in Seq(EdgeSet(1, S)) : F = Merge(M)
    <2>1. 1 \in Nat
      OBVIOUS
    <2> QED
      BY <1>1, <2>1, MergeFacts, Zenon DEF MergeRight
  <1>12. c.E = Permute(F, t)
    <2>1. c = Cipher(<<layer>>, Permute(F, t), Zeros(Len(v)), Len(v))
      BY <1>3, <1>9, <1>10, <1>11, SynthForm, Zenon
    <2> QED
      BY <2>1 DEF Cipher
  <1>13. Total(Permute(F, t), R, S) = Total(F, R, S)
    BY <1>1, <1>8, <1>11, PermuteTotal
  <1>14. Total(F, R, S) = Total(M, R, S)
    BY <1>1, <1>8, <1>10, <1>11, MergeTotal
  <1>15. Total(M, R, S) = VMul(Total(E, R, S), r)
    BY <1>1, <1>2, <1>8, <1>9, <1>10, MaskTotal
  <1>16. Total(E, R, S) = VMul(v, Inverses(r))
    BY <1>1, <1>8, <1>9, RawTotal
  <1>17. VMul(VMul(v, Inverses(r)), r) = v
    BY <1>1, <1>2, MaskCancels, Zenon
  <1>18. Hidden(c) = v
    BY <1>4, <1>7, <1>12, <1>13, <1>14, <1>15, <1>16, <1>17, Zenon DEF Hidden
  <1>19. ConstOf(TRUE, c) = Zeros(S)
    <2>1. Zeros(S) # <<>>
      BY <1>1, ZeroVec, VecFacts
    <2> QED
      BY <1>4, <2>1, Zenon DEF ConstOf
  <1>20. DecValues(c) = VAdd(Zeros(S), v)
    BY <1>4, <1>18, <1>19, DecFacts, Zenon DEF DecRight
  <1> QED
    BY <1>1, <1>3, <1>18, <1>20, ZeroAdd, Zenon

-----------------------------------------------------------------------------
(* Moving layers keeps the value *)

\* The layers of D are in d, at the positions f says, with their masks.
Follows(c, d, D, f) ==
    \A i \in D :
        /\ f[i] \in 1..Len(d.L) /\ (IsProd(d.L[f[i]]) <=> IsProd(c.L[i]))
        /\ IsProd(c.L[i]) => /\ c.L[i].pa \in D /\ c.L[i].pb \in D
                             /\ d.L[f[i]].pa = f[c.L[i].pa] /\ d.L[f[i]].pb = f[c.L[i].pb]
        /\ ~IsProd(c.L[i]) => BaseMask(d.L[f[i]], c.slots) = BaseMask(c.L[i], c.slots)

\* A layer that is moved with its seed and its points.
LEMMA EmbedsFollow ==
    ASSUME NEW c, NEW d, NEW D, NEW f, Embeds(c.L, d.L, D, f)
    PROVE  Follows(c, d, D, f)
  <1>1. ASSUME NEW i \in D PROVE BaseMask(d.L[f[i]], c.slots) = BaseMask(c.L[i], c.slots)
    <2>1. d.L[f[i]].seed = c.L[i].seed /\ d.L[f[i]].rpc = c.L[i].rpc
      BY Zenon DEF Embeds, SameLayer
    <2> QED
      BY <2>1, Zenon DEF BaseMask
  <1>2. ASSUME NEW i \in D
        PROVE  /\ f[i] \in 1..Len(d.L) /\ (IsProd(d.L[f[i]]) <=> IsProd(c.L[i]))
               /\ IsProd(c.L[i]) => /\ c.L[i].pa \in D /\ c.L[i].pb \in D
                                    /\ d.L[f[i]].pa = f[c.L[i].pa] /\ d.L[f[i]].pb = f[c.L[i].pb]
    BY Zenon DEF Embeds, SameLayer
  <1> QED
    BY <1>1, <1>2, Zenon DEF Follows

\* The masks, and their inverses, are those the layers had.
MasksCarried(c, d, D, f) ==
    \A i \in D : Masks(d)[f[i]] = Masks(c)[i] /\ InvMasks(d)[f[i]] = InvMasks(c)[i]

\* From the bottom: a product's mask is that of its parents.
LEMMA MasksFollow ==
    ASSUME NEW c, NEW d, ShapeOK(c), ShapeOK(d), c.slots = d.slots, NEW D \in SUBSET (1..Len(c.L)),
           NEW f, Follows(c, d, D, f)
    PROVE  MasksCarried(c, d, D, f)
  <1>1. PICK R, Q : R = Masks(c) /\ Q = Masks(d)
    OBVIOUS
  <1>2. MasksAre(c, R) /\ MasksAre(d, Q)
    BY <1>1, MasksRight, Zenon
  <1>3. ParentsBelow(c.L) /\ Len(c.L) \in Nat
    BY ShapeParts, Zenon DEF LayersOK
  <1> DEFINE T == {i \in D : Q[f[i]] # R[i]}
  <1>4. T = {}
    <2> SUFFICES ASSUME T # {} PROVE FALSE
      OBVIOUS
    <2>1. PICK i \in T : \A z \in T : i <= z
      <3>0. D \subseteq Nat /\ T \subseteq D
        OBVIOUS
      <3>1. T \subseteq Nat
        BY <3>0
      <3> HIDE DEF T
      <3> QED
        BY <3>1, LeastNatural
    <2>2. i \in D /\ i \in 1..Len(c.L) /\ Q[f[i]] # R[i]
      OBVIOUS
    <2>3. f[i] \in 1..Len(d.L) /\ (IsProd(d.L[f[i]]) <=> IsProd(c.L[i]))
      BY <2>2, Zenon DEF Follows
    <2>4. PICK j \in 1..Len(d.L) : j = f[i]
      BY <2>3, Zenon
    <2>5. R[i] = IF IsProd(c.L[i]) THEN VMul(R[c.L[i].pa], R[c.L[i].pb]) ELSE BaseMask(c.L[i], c.slots)
      BY <1>2, <2>2, Zenon DEF MasksAre
    <2>6. Q[j] = IF IsProd(d.L[j]) THEN VMul(Q[d.L[j].pa], Q[d.L[j].pb]) ELSE BaseMask(d.L[j], c.slots)
      BY <1>2, <2>4, Zenon DEF MasksAre
    <2>7. IsProd(c.L[i]) /\ IsProd(d.L[j])
      <3>1. ~IsProd(c.L[i]) => BaseMask(d.L[f[i]], c.slots) = BaseMask(c.L[i], c.slots)
        BY <2>2, Zenon DEF Follows
      <3> QED
        BY <2>2, <2>3, <2>4, <2>5, <2>6, <3>1, Zenon
    <2>8. PICK p \in D, q \in D :
              p = c.L[i].pa /\ q = c.L[i].pb /\ d.L[j].pa = f[p] /\ d.L[j].pb = f[q]
      BY <2>2, <2>4, <2>7, Zenon DEF Follows
    <2>9. p \in 1..(i - 1) /\ q \in 1..(i - 1)
      BY <1>3, <2>2, <2>7, <2>8 DEF ParentsBelow
    <2>10. ~(i <= p) /\ ~(i <= q)
      BY <2>2, <2>9
    <2>11. Q[f[p]] = R[p] /\ Q[f[q]] = R[q]
      BY <2>1, <2>8, <2>10
    <2> QED
      BY <2>2, <2>4, <2>5, <2>6, <2>7, <2>8, <2>11, Zenon
  <1>5. \A i \in D : Q[f[i]] = R[i]
    BY <1>4
  <1>6. \A i \in D : InvMasks(d)[f[i]] = InvMasks(c)[i]
    <2>1. TAKE i \in D
    <2>2. i \in 1..Len(c.L) /\ f[i] \in 1..Len(d.L)
      BY Zenon DEF Follows
    <2>3. InvMasks(d)[f[i]] = Inverses(Q[f[i]]) /\ InvMasks(c)[i] = Inverses(R[i])
      BY <1>1, <2>2, Zenon DEF InvMasks
    <2> QED
      BY <1>5, <2>3, Zenon
  <1> QED
    BY <1>1, <1>5, <1>6, Zenon DEF MasksCarried

\* The same value, hidden and clear.
SameVal(c, d) ==
    /\ Hidden(d) = Hidden(c) /\ d.c0 = c.c0 /\ d.slots = c.slots /\ DecValues(d) = DecValues(c)
    /\ ShapeOK(d)

\* The constant and the hidden part are the value.
LEMMA SameValBy ==
    ASSUME NEW c, NEW d, ShapeOK(c), ShapeOK(d), Hidden(d) = Hidden(c), d.c0 = c.c0, d.slots = c.slots
    PROVE  SameVal(c, d)
  <1>1. ConstOf(TRUE, d) = ConstOf(TRUE, c)
    BY Zenon DEF ConstOf
  <1>2. DecValues(d) = VAdd(ConstOf(TRUE, d), Hidden(d)) /\ DecValues(c) = VAdd(ConstOf(TRUE, c), Hidden(c))
    BY DecFacts, Zenon DEF DecRight
  <1> QED
    BY <1>1, <1>2, Zenon DEF SameVal

\* One after the other.
LEMMA SameValTrans ==
    ASSUME NEW c, NEW d, NEW e, SameVal(c, d), SameVal(d, e)
    PROVE  SameVal(c, e)
  BY Zenon DEF SameVal

\* Layers that are the same have the same masks.
LEMMA InvMasksSame ==
    ASSUME NEW c, NEW d, ShapeOK(c), ShapeOK(d), d.L = c.L, d.slots = c.slots
    PROVE  InvMasks(d) = InvMasks(c)
  <1>1. PICK n \in Nat : n = Len(c.L)
    BY ShapeParts, Zenon
  <1>2. PICK f : f = IdOn(n)
    OBVIOUS
  <1>3. \A i \in 1..n : f[i] = i
    BY <1>2, Zenon DEF IdOn
  <1>4. \A i \in 1..n : IsProd(c.L[i]) => c.L[i].pa \in 1..n /\ c.L[i].pb \in 1..n
    <2>1. ParentsBelow(c.L)
      BY ShapeParts, Zenon DEF LayersOK
    <2>2. TAKE i \in 1..n
    <2>3. IsProd(c.L[i]) => c.L[i].pa \in 1..(i - 1) /\ c.L[i].pb \in 1..(i - 1)
      BY <1>1, <2>1, Zenon DEF ParentsBelow
    <2>4. 1..(i - 1) \subseteq 1..n
      OBVIOUS
    <2> QED
      BY <2>3, <2>4, Zenon
  <1>5. Follows(c, d, 1..n, f)
    BY <1>1, <1>3, <1>4, Zenon DEF Follows
  <1>6. 1..n \in SUBSET (1..Len(c.L))
    BY <1>1
  <1>7. MasksCarried(c, d, 1..n, f)
    BY <1>5, <1>6, MasksFollow, Zenon
  <1>8. \A i \in 1..n : Masks(d)[i] = Masks(c)[i]
    BY <1>3, <1>7, Zenon DEF MasksCarried
  <1> QED
    BY <1>1, <1>8, Zenon DEF InvMasks

\* compact_edges and guard_budget keep the value.
LEMMA EdgesCompactedVal ==
    ASSUME NEW c, ShapeOK(c)
    PROVE  SameVal(c, CompactEdges(c)) /\ SameVal(c, GuardBudget(c))
  <1>1. EdgesCompacted(c)
    BY EdgesCompactedFacts, Zenon
  <1>2. PICK d : d = CompactEdges(c)
    OBVIOUS
  <1>3. ShapeOK(d) /\ d.L = c.L /\ d.c0 = c.c0 /\ d.slots = c.slots
    BY <1>1, <1>2, Zenon DEF EdgesCompacted
  <1>4. d.E = Merge(c.E)
    <2>1. d = Cipher(c.L, Merge(c.E), c.c0, c.slots)
      BY <1>1, <1>2, Zenon DEF EdgesCompacted
    <2> QED
      BY <2>1 DEF Cipher
  <1>5. InvMasks(d) = InvMasks(c)
    BY <1>3, InvMasksSame, Zenon
  <1>6. PICK m \in Nat, S \in Nat, E \in Seq(EdgeSet(Len(c.L), c.slots)) : m = Len(c.L) /\ S = c.slots /\ E = c.E /\ E \in Seq(EdgeSet(m, S))
    BY ShapeParts, Zenon
  <1>7. PICK R : R = InvMasks(c) /\ Rows(R, m, S)
    BY <1>6, InvMasksFacts, Zenon DEF InvMasksRight
  <1>8. Total(Merge(E), R, S) = Total(E, R, S)
    BY <1>6, <1>7, MergeTotal
  <1>9. Hidden(d) = Hidden(c)
    BY <1>3, <1>4, <1>5, <1>6, <1>7, <1>8, Zenon DEF Hidden
  <1>10. SameVal(c, d)
    BY <1>3, <1>9, SameValBy, Zenon
  <1>11. SameVal(c, c)
    BY SameValBy, Zenon
  <1>12. GuardBudget(c) \in {c, d}
    BY <1>1, <1>2, Zenon DEF EdgesCompacted
  <1> QED
    BY <1>2, <1>10, <1>11, <1>12, Zenon

\* Edges that go with their layers.
GoAlong(E, F, D, f) ==
    /\ Len(E) \in Nat /\ Len(F) = Len(E)
    /\ \A k \in 1..Len(E) : /\ E[k].lid \in D /\ F[k].lid = f[E[k].lid] /\ F[k].idx = E[k].idx
                            /\ F[k].ch = E[k].ch /\ F[k].w = E[k].w

\* They add what they added.
AddSame(c, d, E, F, D, f, S) == Total(F, InvMasks(d), S) = Total(E, InvMasks(c), S)

\* Under the masks of the moved layers.
LEMMA TotalFollows ==
    ASSUME NEW c, NEW d, NEW D, NEW f, MasksCarried(c, d, D, f), NEW E, NEW F, GoAlong(E, F, D, f),
           NEW S
    PROVE  AddSame(c, d, E, F, D, f, S)
  <1>1. PICK R, Q : R = InvMasks(c) /\ Q = InvMasks(d)
    OBVIOUS
  <1>2. \A i \in D : Q[f[i]] = R[i]
    BY <1>1, Zenon DEF MasksCarried
  <1>3. \A k \in 1..Len(E) : Contr(F[k], Q) = Contr(E[k], R)
    <2>1. TAKE k \in 1..Len(E)
    <2>2. /\ E[k].lid \in D /\ F[k].lid = f[E[k].lid] /\ F[k].idx = E[k].idx
          /\ F[k].ch = E[k].ch /\ F[k].w = E[k].w
      BY Zenon DEF GoAlong
    <2>3. Q[F[k].lid] = R[E[k].lid]
      BY <1>2, <2>2, Zenon
    <2> QED
      BY <2>2, <2>3, ContrSame
  <1>4. SameAdds(E, F, R, Q)
    BY <1>3, Zenon DEF SameAdds, GoAlong
  <1>5. Len(E) \in Nat
    BY Zenon DEF GoAlong
  <1>6. Total(F, Q, S) = Total(E, R, S)
    BY <1>4, <1>5, TotalSame
  <1> QED
    BY <1>1, <1>6, Zenon DEF AddSame

\* compact_layers keeps the value.
LEMMA LayersCompactedVal ==
    ASSUME NEW c, ShapeOK(c)
    PROVE  SameVal(c, CompactLayers(c))
  <1>1. LayersCompacted(c)
    BY LayersCompactedFacts, Zenon
  <1>2. PICK Z, d : Z = Live(c) /\ d = CompactLayers(c)
    OBVIOUS
  <1>3. /\ ShapeOK(d) /\ d = Cipher(KeepLayers(c.L, Z), KeepEdges(c.E, Z), c.c0, c.slots)
        /\ Z \in SUBSET (1..Len(c.L)) /\ Closed(c.L, Z) /\ \A k \in 1..Len(c.E) : c.E[k].lid \in Z
    BY <1>1, <1>2, Zenon DEF LayersCompacted
  <1>4. d.L = KeepLayers(c.L, Z) /\ d.E = KeepEdges(c.E, Z) /\ d.c0 = c.c0 /\ d.slots = c.slots
    BY <1>3, PartsFacts DEF PartsRight
  <1>5. LayersOK(c.L, c.slots) /\ EdgesOK(c.E, Len(c.L), c.slots) /\ Len(c.L) \in Nat /\ Len(c.E) \in Nat
    BY ShapeParts, Zenon
  <1>6. KeepRight(c.L, Z, c.slots)
    BY <1>3, <1>5, KeepFacts, Zenon
  <1>7. Embeds(c.L, d.L, Z, Renaming(Z))
    BY <1>4, <1>6, Zenon DEF KeepRight
  <1>8. PICK f : f = Renaming(Z) /\ \A i \in Z : f[i] = Remap(Z, i)
    <2>1. \A i \in Z : Renaming(Z)[i] = Remap(Z, i)
      BY Zenon DEF Renaming
    <2> QED
      BY <2>1, Zenon
  <1>9. MasksCarried(c, d, Z, f)
    BY <1>3, <1>4, <1>7, <1>8, EmbedsFollow, MasksFollow, Zenon
  <1>10. KeepEdgesRight(c.E, Z, c.slots)
    BY <1>3, <1>5, KeepEdgesFacts, Zenon
  <1>11. PICK E, F : E = c.E /\ F = d.E
    OBVIOUS
  <1>12. GoAlong(E, F, Z, f)
    BY <1>3, <1>4, <1>5, <1>8, <1>10, <1>11, Zenon DEF KeepEdgesRight, GoAlong
  <1>13. AddSame(c, d, E, F, Z, f, c.slots)
    BY <1>9, <1>12, TotalFollows, Zenon
  <1>14. Hidden(d) = Hidden(c)
    BY <1>4, <1>11, <1>13, Zenon DEF Hidden, AddSame
  <1> QED
    BY <1>2, <1>3, <1>4, <1>14, SameValBy, Zenon

-----------------------------------------------------------------------------
(* Sums and multiples *)

\* Joining adds what is hidden.
LEMMA JoinHidden ==
    ASSUME NEW a, NEW b, Good(a), Good(b), a.slots = b.slots, NEW c0, ConstOK(c0, a.slots)
    PROVE  Hidden(JoinOf(a, b, c0)) = VAdd(Hidden(a), Hidden(b)) /\ ShapeOK(JoinOf(a, b, c0))
  <1>1. ShapeOK(a) /\ ShapeOK(b)
    BY Zenon DEF Good
  <1>2. PICK S \in Nat : S = a.slots
    BY <1>1, ShapeParts, Zenon
  <1>3. PICK n \in Nat, m \in Nat : n = Len(a.L) /\ m = Len(b.L)
    BY <1>1, ShapeParts, Zenon
  <1>4. /\ LayersOK(a.L, S) /\ LayersOK(b.L, S) /\ EdgesOK(a.E, n, S) /\ EdgesOK(b.E, m, S)
        /\ Len(a.E) \in Nat /\ Len(b.E) \in Nat
        /\ \A k \in 1..Len(a.E) : a.E[k].lid \in 1..n
        /\ \A k \in 1..Len(b.E) : b.E[k].lid \in 1..m
    BY <1>1, <1>2, <1>3, ShapeParts, Zenon
  <1>5. JoinedLayers(a.L, b.L, S)
    BY <1>4, JoinLayersFacts, Zenon
  <1>6. JoinedEdges(a.L, a.E, b.L, b.E, S)
    BY <1>3, <1>4, JoinEdgesFacts, Zenon
  <1>7. PICK c : c = JoinOf(a, b, c0)
    OBVIOUS
  <1>8. ShapeOK(c)
    BY <1>7, JoinGood, Zenon DEF Good
  <1>9. PICK E, F, H : E = a.E /\ F = b.E /\ H = MoveEdges(b.E, n)
    OBVIOUS
  <1>10. c.L = JoinLayers(a.L, b.L) /\ c.E = JoinEdges(a.L, a.E, b.E) /\ c.slots = S
    BY <1>2, <1>7 DEF Cipher, JoinOf
  <1>11. c.E = E \o H /\ Len(c.L) = n + m
    BY <1>3, <1>5, <1>6, <1>9, <1>10, Zenon DEF JoinedLayers, JoinedEdges
  <1>12. EdgesOK(E, n + m, S) /\ MovedEdges(F, n, n + m, S)
    BY <1>3, <1>6, <1>9, Zenon DEF JoinedEdges
  <1>13. E \in Seq(EdgeSet(n + m, S)) /\ H \in Seq(EdgeSet(n + m, S))
    BY <1>9, <1>12, Zenon DEF MovedEdges, EdgesOK
  <1>14. PICK R : R = InvMasks(c) /\ Rows(R, n + m, S)
    BY <1>8, <1>10, <1>11, InvMasksFacts, Zenon DEF InvMasksRight
  <1>15. Total(E \o H, R, S) = VAdd(Total(E, R, S), Total(H, R, S))
    BY <1>13, <1>14, TotalConcat
  <1>16. MasksCarried(a, c, 1..n, IdOn(n))
    <2>1. Embeds(a.L, c.L, 1..n, IdOn(n))
      BY <1>3, <1>5, <1>10, Zenon DEF JoinedLayers
    <2>2. 1..n \in SUBSET (1..Len(a.L))
      BY <1>3
    <2> QED
      BY <1>1, <1>2, <1>8, <1>10, <2>1, <2>2, EmbedsFollow, MasksFollow, Zenon
  <1>17. MasksCarried(b, c, 1..m, ShiftOn(m, n))
    <2>1. Embeds(b.L, c.L, 1..m, ShiftOn(m, n))
      BY <1>3, <1>5, <1>10, Zenon DEF JoinedLayers
    <2>2. 1..m \in SUBSET (1..Len(b.L))
      BY <1>3
    <2> QED
      BY <1>1, <1>2, <1>8, <1>10, <2>1, <2>2, EmbedsFollow, MasksFollow, Zenon
  <1>18. \A k \in 1..Len(E) : E[k].lid \in 1..n /\ E[k].lid = IdOn(n)[E[k].lid]
    BY <1>4, <1>9, Zenon DEF IdOn
  <1>19. Total(E, R, S) = Total(E, InvMasks(a), S)
    <2>1. GoAlong(E, E, 1..n, IdOn(n))
      BY <1>4, <1>9, <1>18, Zenon DEF GoAlong
    <2>2. AddSame(a, c, E, E, 1..n, IdOn(n), S)
      BY <1>16, <2>1, TotalFollows, Zenon
    <2> QED
      BY <1>14, <2>2, Zenon DEF AddSame
  <1>20. Total(H, R, S) = Total(F, InvMasks(b), S)
    <2>1. Len(F) \in Nat /\ Len(H) = Len(F)
      BY <1>4, <1>9, <1>12, Zenon DEF MovedEdges
    <2>2. \A k \in 1..Len(F) : /\ F[k].lid \in 1..m /\ H[k].lid = F[k].lid + n
                               /\ H[k].idx = F[k].idx /\ H[k].ch = F[k].ch /\ H[k].w = F[k].w
      BY <1>4, <1>9, <1>12, Zenon DEF MovedEdges
    <2>3. \A i \in 1..m : ShiftOn(m, n)[i] = n + i /\ n + i = i + n
      BY DEF ShiftOn
    <2>4. GoAlong(F, H, 1..m, ShiftOn(m, n))
      BY <2>1, <2>2, <2>3, Zenon DEF GoAlong
    <2>5. AddSame(b, c, F, H, 1..m, ShiftOn(m, n), S)
      BY <1>17, <2>4, TotalFollows, Zenon
    <2> QED
      BY <1>14, <2>5, Zenon DEF AddSame
  <1>21. Hidden(c) = VAdd(Hidden(a), Hidden(b))
    BY <1>2, <1>9, <1>10, <1>11, <1>14, <1>15, <1>19, <1>20, Zenon DEF Hidden
  <1> QED
    BY <1>7, <1>8, <1>21, Zenon

\* The sum of the constants, where one may be missing.
LEMMA SumConstIs ==
    ASSUME NEW a, NEW b, NEW c, ShapeOK(a), ShapeOK(b), a.slots = b.slots, c.slots = a.slots,
           c.c0 = SumConst(a, b)
    PROVE  /\ ConstOf(TRUE, c) = VAdd(ConstOf(TRUE, a), ConstOf(TRUE, b))
           /\ ConstOK(c.c0, a.slots)
  <1>1. PICK S \in Nat : S = a.slots /\ S # 0
    BY ShapeParts, Zenon
  <1>2. ConstOK(a.c0, S) /\ ConstOK(b.c0, S)
    BY <1>1, ShapeParts, Zenon
  <1>3. Zeros(S) \in Vec(S)
    BY ZeroVec, Zenon
  <1>4. \A x \in Vec(S) : x # <<>>
    BY <1>1, VecFacts, Zenon
  <1>5. CASE a.c0 = <<>>
    <2>1. ConstOf(TRUE, a) = Zeros(S) /\ c.c0 = b.c0
      BY <1>1, <1>5, Zenon DEF ConstOf, SumConst
    <2>2. ConstOf(TRUE, c) = ConstOf(TRUE, b) /\ ConstOf(TRUE, b) \in Vec(S)
      BY <1>1, <1>2, <1>3, <2>1, Zenon DEF ConstOf, ConstOK
    <2> QED
      BY <1>1, <1>2, <2>1, <2>2, ZeroAdd, Zenon
  <1>6. CASE a.c0 # <<>> /\ b.c0 = <<>>
    <2>1. ConstOf(TRUE, b) = Zeros(S) /\ c.c0 = a.c0
      BY <1>1, <1>6, Zenon DEF ConstOf, SumConst
    <2>2. ConstOf(TRUE, c) = ConstOf(TRUE, a) /\ ConstOf(TRUE, a) \in Vec(S)
      BY <1>1, <1>2, <1>3, <2>1, Zenon DEF ConstOf, ConstOK
    <2> QED
      BY <1>1, <1>2, <2>1, <2>2, AddZero, Zenon
  <1>7. CASE a.c0 # <<>> /\ b.c0 # <<>>
    <2>1. ConstOf(TRUE, a) = a.c0 /\ ConstOf(TRUE, b) = b.c0 /\ c.c0 = VAdd(a.c0, b.c0)
      BY <1>7, Zenon DEF ConstOf, SumConst
    <2>2. a.c0 \in Vec(S) /\ b.c0 \in Vec(S)
      BY <1>2, <1>7, Zenon DEF ConstOK
    <2>3. c.c0 \in Vec(S)
      BY <2>1, <2>2, VecClosed, Zenon
    <2>4. ConstOf(TRUE, c) = c.c0
      BY <1>4, <2>3, Zenon DEF ConstOf
    <2> QED
      BY <1>1, <2>1, <2>3, <2>4, Zenon DEF ConstOK
  <1> QED
    BY <1>5, <1>6, <1>7

\* Joined ciphertexts decrypt to the sum.
LEMMA JoinVal ==
    ASSUME NEW a, NEW b, Good(a), Good(b), a.slots = b.slots
    PROVE  /\ DecValues(JoinOf(a, b, SumConst(a, b))) = VAdd(DecValues(a), DecValues(b))
           /\ ShapeOK(JoinOf(a, b, SumConst(a, b)))
  <1>1. ShapeOK(a) /\ ShapeOK(b)
    BY Zenon DEF Good
  <1>2. PICK S \in Nat : S = a.slots
    BY <1>1, ShapeParts, Zenon
  <1>3. PICK c : c = JoinOf(a, b, SumConst(a, b))
    OBVIOUS
  <1>4. c.slots = a.slots /\ c.c0 = SumConst(a, b)
    BY <1>3 DEF Cipher, JoinOf
  <1>5. ConstOf(TRUE, c) = VAdd(ConstOf(TRUE, a), ConstOf(TRUE, b)) /\ ConstOK(SumConst(a, b), a.slots)
    BY <1>1, <1>4, SumConstIs, Zenon
  <1>6. Hidden(c) = VAdd(Hidden(a), Hidden(b)) /\ ShapeOK(c)
    BY <1>3, <1>5, JoinHidden, Zenon
  <1>7. DecRight(a) /\ DecRight(b) /\ DecRight(c)
    BY <1>1, <1>6, DecFacts, Zenon
  <1>8. PICK x \in Vec(S), y \in Vec(S), u \in Vec(S), v \in Vec(S) :
            x = ConstOf(TRUE, a) /\ y = ConstOf(TRUE, b) /\ u = Hidden(a) /\ v = Hidden(b)
    BY <1>2, <1>7, Zenon DEF DecRight
  <1>9. /\ DecValues(a) = VAdd(x, u) /\ DecValues(b) = VAdd(y, v)
        /\ DecValues(c) = VAdd(VAdd(x, y), VAdd(u, v))
    BY <1>5, <1>6, <1>7, <1>8, Zenon DEF DecRight
  <1>10. VAdd(VAdd(x, y), VAdd(u, v)) = VAdd(VAdd(x, u), VAdd(y, v))
    <2>1. Four(S, x, y, u, v)
      BY Zenon DEF Four
    <2> QED
      BY <2>1, SwapOf
  <1> QED
    BY <1>3, <1>6, <1>9, <1>10, Zenon

\* ct_add.
LEMMA AddVal ==
    ASSUME NEW a, NEW b, Good(a), Good(b), a.slots = b.slots
    PROVE  DecValues(CtAdd(a, b)) = VAdd(DecValues(a), DecValues(b))
  <1>1. PICK c : c = JoinOf(a, b, SumConst(a, b))
    OBVIOUS
  <1>2. ShapeOK(c) /\ DecValues(c) = VAdd(DecValues(a), DecValues(b))
    BY <1>1, JoinVal, Zenon
  <1>3. CtAdd(a, b) = CompactLayers(GuardBudget(c))
    BY <1>1, AddGood, Zenon
  <1>4. SameVal(c, GuardBudget(c))
    BY <1>2, EdgesCompactedVal, Zenon
  <1>5. SameVal(GuardBudget(c), CompactLayers(GuardBudget(c)))
    BY <1>4, LayersCompactedVal, Zenon DEF SameVal
  <1> QED
    BY <1>2, <1>3, <1>4, <1>5, Zenon DEF SameVal

\* synth under a seed that was found.
LEMMA FreshVal ==
    ASSUME NEW S \in Slots, NEW v \in Vec(S), NEW t \in Nat, MaskSeed(t, S) # NoSeed
    PROVE  DecValues(Synth(v, t)) = v
  <1>1. S \in Nat /\ Len(v) = S
    BY SlotsFacts, VecFacts
  <1>2. PICK s : s = MaskSeed(t, S)
    OBVIOUS
  <1>3. s \in Seed /\ \A j \in 1..S : CircuitMask[s][j] # 0
    BY <1>1, <1>2, MaskSeedFacts, Zenon DEF MaskRight
  <1>4. PICK l, r : l = FreshLayer(s, S) /\ r = CircuitR(s, S)
    OBVIOUS
  <1>5. Synth(v, t) = SynthUnder(l, r, v, t)
    BY <1>1, <1>2, <1>4, Zenon DEF Synth
  <1>6. LayerOK(l, S) /\ ~IsProd(l) /\ l.rpc # <<>> /\ l.seed = s
    BY <1>3, <1>4, FreshFacts
  <1>7. r = BaseMask(l, S)
    BY <1>4, <1>6, Zenon DEF BaseMask
  <1> QED
    BY <1>5, <1>6, <1>7, SynthVal

\* enc_values: the two layers add up to the value.
LEMMA EncVal ==
    ASSUME NEW S \in Slots, NEW v \in Vec(S), NEW t \in Nat, ~NoMask(t, S)
    PROVE  DecValues(EncValues(v, t)) = v
  <1>1. S \in Nat /\ S # 0 /\ Len(v) = S /\ t + 1 \in Nat /\ 0 \in Nat
    BY SlotsFacts, VecFacts
  <1>2. PICK m \in Vec(S) : m = NonzeroVec(t, 0, S)
    BY <1>1, NonzeroVecFacts, Zenon
  <1>3. PICK x \in Vec(S), y \in Vec(S) : x = VAdd(v, m) /\ y = VNeg(m)
    BY <1>1, <1>2, VecClosed, Zenon
  <1>4. PICK p, q : p = Synth(x, t) /\ q = Synth(y, t + 1)
    OBVIOUS
  <1>5. EncValues(v, t) = IF Threw(p) \/ Threw(q) THEN NoCipher ELSE Fuse(p, q)
    BY <1>1, <1>2, <1>3, <1>4, Zenon DEF EncValues
  <1>6. MaskSeed(t, S) # NoSeed /\ MaskSeed(t + 1, S) # NoSeed
    BY Zenon DEF NoMask
  <1>7. FreshRight(p, S)
    BY <1>3, <1>4, <1>6, SynthFacts
  <1>8. FreshRight(q, S)
    BY <1>1, <1>3, <1>4, <1>6, SynthFacts
  <1>9. DecValues(p) = x /\ DecValues(q) = y
    BY <1>1, <1>3, <1>4, <1>6, FreshVal, Zenon
  <1>10. EncValues(v, t) = Fuse(p, q)
    BY <1>5, <1>7, <1>8, Zenon DEF FreshRight
  <1>11. Fuse(p, q) = GuardBudget(JoinOf(p, q, VAdd(p.c0, q.c0)))
    BY <1>7, <1>8, FuseFacts
  <1>12. Good(p) /\ Good(q) /\ p.slots = q.slots /\ p.c0 \in Vec(S) /\ q.c0 \in Vec(S)
    BY <1>7, <1>8, Zenon DEF FreshRight
  <1>13. p.c0 # <<>> /\ q.c0 # <<>>
    BY <1>1, <1>12, VecFacts
  <1>14. SumConst(p, q) = VAdd(p.c0, q.c0)
    BY <1>13, Zenon DEF SumConst
  <1>15. PICK c : c = JoinOf(p, q, SumConst(p, q))
    OBVIOUS
  <1>16. DecValues(c) = VAdd(x, y) /\ ShapeOK(c)
    BY <1>9, <1>12, <1>15, JoinVal, Zenon
  <1>17. SameVal(c, GuardBudget(c))
    BY <1>16, EdgesCompactedVal, Zenon
  <1>18. VAdd(x, y) = VSub(x, m) /\ VSub(x, m) = v
    <2>1. VSub(x, m) = VAdd(x, VNeg(m)) /\ VSub(VAdd(v, m), m) = v
      BY <1>1, <1>2, <1>3, SubIsAdd, AddSub
    <2> QED
      BY <1>3, <2>1, Zenon
  <1> QED
    BY <1>10, <1>11, <1>14, <1>15, <1>16, <1>17, <1>18, Zenon DEF SameVal

\* The zeros of the evaluation key are zeros.
LEMMA ZeroPoolVal ==
    ASSUME NEW i \in 1..2
    PROVE  DecValues(ZeroPool[i]) = Zeros(1)
  <1>1. 1 \in Slots /\ i \in Nat /\ 1 \in Nat
    BY DEF Slots
  <1>2. Zeros(1) \in Vec(1)
    BY <1>1, ZeroVec, Zenon
  <1>3. <<0>> = Zeros(1)
    BY DEF Zeros
  <1>4. ZeroPool[i] = EncValues(<<0>>, i) /\ ~NoMask(i, 1)
    BY ZeroPoolFacts, Zenon
  <1> QED
    BY <1>1, <1>2, <1>3, <1>4, EncVal

\* ct_scale: every term and the constant.
LEMMA ScaleVal ==
    ASSUME NEW a, Good(a), NEW x \in Int
    PROVE  DecValues(CtScale(a, x)) = VScale(DecValues(a), x)
  <1>1. ShapeOK(a)
    BY Zenon DEF Good
  <1>2. PICK S \in Nat, m \in Nat : S = a.slots /\ m = Len(a.L) /\ S # 0
    <2>1. a.slots \in Nat /\ Len(a.L) \in Nat /\ a.slots # 0
      BY <1>1, ShapeParts, Zenon
    <2> QED
      BY <2>1, Zenon
  <1>3. PICK c : c = CtScale(a, x)
    OBVIOUS
  <1>4. c = Cipher(a.L, ScaleEdges(a.E, x), VScale(a.c0, x), a.slots)
    BY <1>3, ScaleGood, Zenon
  <1>5. c.L = a.L /\ c.E = ScaleEdges(a.E, x) /\ c.c0 = VScale(a.c0, x) /\ c.slots = S
    BY <1>2, <1>4 DEF Cipher
  <1>6. ShapeOK(c)
    BY <1>3, ScaleGood, Zenon DEF Alike, Good
  <1>7. PICK R : R = InvMasks(a) /\ Rows(R, m, S) /\ InvMasks(c) = R
    <2>1. InvMasks(c) = InvMasks(a)
      BY <1>1, <1>2, <1>5, <1>6, InvMasksSame, Zenon
    <2> QED
      BY <1>1, <1>2, <2>1, InvMasksFacts, Zenon DEF InvMasksRight
  <1>8. PICK E, F : E = a.E /\ F = c.E
    OBVIOUS
  <1>9. E \in Seq(EdgeSet(m, S)) /\ \A k \in 1..Len(E) : E[k] \in EdgeSet(m, S)
    BY <1>1, <1>2, <1>8, ShapeParts, Zenon
  <1>10. PICK r \in Vec(S) : r = Flat(x, S)
    BY FlatFacts, Zenon
  <1>11. /\ Len(F) = Len(E)
         /\ \A k \in 1..Len(E) : /\ F[k] \in EdgeSet(m, S) /\ F[k].lid = E[k].lid /\ F[k].idx = E[k].idx
                                 /\ F[k].ch = E[k].ch /\ F[k].w = VScale(E[k].w, x)
    <2>1. SamePlaces(E, F, m, S) /\ \A k \in 1..Len(E) : F[k].w = VScale(E[k].w, x)
      BY <1>2, <1>5, <1>8, ScaleGood, Zenon
    <2> QED
      BY <2>1, Zenon DEF SamePlaces
  <1>12. \A k \in 1..Len(E) : Contr(F[k], R) = VMul(Contr(E[k], R), r)
    <2>1. TAKE k \in 1..Len(E)
    <2>2. PICK e \in EdgeSet(m, S), f \in EdgeSet(m, S) : e = E[k] /\ f = F[k]
      BY <1>9, <1>11, Zenon
    <2>3. e.w \in Vec(S)
      BY <2>2, TermFacts, Zenon DEF TermRight
    <2>4. f.lid = e.lid /\ f.idx = e.idx /\ f.ch = e.ch /\ f.w = VScale(e.w, x)
      BY <1>11, <2>2, Zenon
    <2>5. f.w = VMul(e.w, r)
      BY <1>10, <2>3, <2>4, ScaleIsMul, Zenon
    <2>6. R[e.lid] \in Vec(S) /\ R[f.lid] = R[e.lid]
      BY <1>7, <2>2, <2>4, ContrVec
    <2>7. Contr(f, R) = VMul(Contr(e, R), r)
      BY <1>10, <2>2, <2>4, <2>5, <2>6, ContrTimes
    <2> QED
      BY <2>2, <2>7, Zenon
  <1>13. TimesAdds(E, F, R, R, r)
    BY <1>11, <1>12, Zenon DEF TimesAdds
  <1>14. Total(F, R, S) = VMul(Total(E, R, S), r)
    BY <1>7, <1>9, <1>10, <1>13, TotalTimes
  <1>15. Hidden(c) = VMul(Hidden(a), r)
    BY <1>2, <1>5, <1>7, <1>8, <1>14, Zenon DEF Hidden
  <1>16. DecRight(a) /\ DecRight(c)
    BY <1>1, <1>6, DecFacts, Zenon
  <1>17. PICK u \in Vec(S), h \in Vec(S) : u = ConstOf(TRUE, a) /\ h = Hidden(a) /\ DecValues(a) = VAdd(u, h)
    BY <1>2, <1>16, Zenon DEF DecRight
  <1>18. ConstOf(TRUE, c) = VMul(u, r)
    <2>1. ConstOK(a.c0, S)
      BY <1>1, <1>2, ShapeParts, Zenon
    <2>2. CASE a.c0 = <<>>
      <3>1. c.c0 = <<>>
        BY <1>5, <2>1, <2>2, ScaledConst, Zenon
      <3>2. u = Zeros(S) /\ ConstOf(TRUE, c) = Zeros(S)
        BY <1>2, <1>5, <1>17, <2>2, <3>1, Zenon DEF ConstOf
      <3> QED
        BY <1>10, <3>2, ZeroMul, Zenon
    <2>3. CASE a.c0 # <<>>
      <3>1. a.c0 \in Vec(S) /\ u = a.c0
        BY <1>17, <2>1, <2>3, Zenon DEF ConstOf, ConstOK
      <3>2. c.c0 = VMul(u, r)
        BY <1>5, <1>10, <3>1, ScaleIsMul, Zenon
      <3>3. VMul(u, r) \in Vec(S)
        BY <1>10, <1>17, VecClosed, Zenon
      <3>4. c.c0 # <<>>
        BY <1>2, <3>2, <3>3, VecFacts
      <3> QED
        BY <3>2, <3>4, Zenon DEF ConstOf
    <2> QED
      BY <2>2, <2>3
  <1>19. DecValues(c) = VAdd(VMul(u, r), VMul(h, r))
    BY <1>15, <1>16, <1>17, <1>18, Zenon DEF DecRight
  <1>20. VAdd(VMul(u, r), VMul(h, r)) = VMul(VAdd(u, h), r)
    BY <1>10, <1>17, AddMul
  <1>21. VAdd(u, h) \in Vec(S)
    BY <1>17, VecClosed, Zenon
  <1>22. VScale(VAdd(u, h), x) = VMul(VAdd(u, h), r)
    BY <1>10, <1>21, ScaleIsMul, Zenon
  <1> QED
    BY <1>3, <1>17, <1>19, <1>20, <1>22, Zenon

\* Minus one.
LEMMA ScaleMinus ==
    ASSUME NEW S \in Nat, NEW a \in Vec(S)
    PROVE  VScale(a, P - 1) = VNeg(a)
  <1>1. P - 1 \in Int /\ P \in Int
    BY ModulusFacts
  <1>2. VecAt(a, a, P - 1, S)
    BY <1>1, VecAtFacts, Zenon
  <1>3. PICK x \in Vec(S), y \in Vec(S) : x = VScale(a, P - 1) /\ y = VNeg(a)
    BY <1>2, Zenon DEF VecAt
  <1>4. ASSUME NEW j \in 1..S PROVE x[j] = y[j]
    <2>1. PICK u \in Int : u = a[j]
      BY VecFacts, Zenon
    <2>2. x[j] = ((u * (P - 1)) % P) /\ y[j] = ((-u) % P)
      BY <1>2, <1>3, <2>1, Zenon DEF VecAt
    <2>3. u * (P - 1) = (-u) + u * P /\ u * (P - 1) \in Int /\ -u \in Int
      BY <1>1
    <2>4. ((u * (P - 1)) % P) = ((-u) % P)
      BY <2>3, ModShift
    <2> QED
      BY <2>2, <2>4, Zenon
  <1>5. x = y
    BY <1>4, VecEqual, Zenon
  <1> QED
    BY <1>3, <1>5, Zenon

\* ct_sub.
LEMMA SubVal ==
    ASSUME NEW a, NEW b, Good(a), Good(b), a.slots = b.slots
    PROVE  DecValues(CtSub(a, b)) = VSub(DecValues(a), DecValues(b))
  <1>1. P - 1 \in Int
    BY ModulusFacts
  <1>2. PICK c : c = CtScale(b, P - 1)
    OBVIOUS
  <1>3. Good(c) /\ c.slots = b.slots
    BY <1>1, <1>2, ScaleGood, Zenon DEF Alike
  <1>4. DecValues(c) = VScale(DecValues(b), P - 1)
    BY <1>1, <1>2, ScaleVal, Zenon
  <1>5. DecValues(CtAdd(a, c)) = VAdd(DecValues(a), DecValues(c))
    BY <1>3, AddVal, Zenon
  <1>6. PICK S \in Nat : S = a.slots
    BY ShapeParts, Zenon DEF Good
  <1>7. PICK x \in Vec(S), y \in Vec(S) : x = DecValues(a) /\ y = DecValues(b)
    BY <1>6, DecFacts, Zenon DEF DecRight, Good
  <1>8. VScale(y, P - 1) = VNeg(y) /\ VSub(x, y) = VAdd(x, VNeg(y))
    BY <1>7, ScaleMinus, SubIsAdd, Zenon
  <1> QED
    BY <1>2, <1>4, <1>5, <1>7, <1>8, Zenon DEF CtSub

\* Adding a number is adding its vector.
LEMMA PlusIsAdd ==
    ASSUME NEW S \in Nat, NEW a \in Vec(S), NEW x \in Int
    PROVE  PlusConst(a, x) = VAdd(a, Flat(x, S))
  <1>1. DOMAIN a = 1..S /\ \A j \in 1..S : a[j] \in Int
    BY VecFacts
  <1>2. \A j \in 1..S : ((a[j] + x) % P) = ((a[j] + Flat(x, S)[j]) % P)
    <2>1. TAKE j \in 1..S
    <2>2. Flat(x, S)[j] = x % P
      BY FlatFacts, Zenon
    <2>3. PICK u \in Int : u = a[j]
      BY <1>1
    <2>4. ((u + (x % P)) % P) = ((u + x) % P)
      BY ModTimes
    <2> QED
      BY <2>2, <2>3, <2>4, Zenon
  <1>3. PlusConst(a, x) = [j \in 1..S |-> (a[j] + x) % P] /\ VAdd(a, Flat(x, S)) = [j \in 1..S |-> (a[j] + Flat(x, S)[j]) % P]
    BY <1>1, Zenon DEF PlusConst, VAdd
  <1> QED
    BY <1>2, <1>3, Zenon

\* ct_add_const, where there is a constant to add to.
LEMMA AddConstVal ==
    ASSUME NEW a, Good(a), NEW math \in BOOLEAN, NEW x \in Int, math \/ a.c0 # <<>>
    PROVE  DecValues(CtAddConst(math, a, x)) = PlusConst(DecValues(a), x)
  <1>1. ShapeOK(a)
    BY Zenon DEF Good
  <1>2. PICK S \in Nat : S = a.slots /\ S # 0
    <2>1. a.slots \in Nat /\ a.slots # 0
      BY <1>1, ShapeParts, Zenon
    <2> QED
      BY <2>1, Zenon
  <1>3. PICK c : c = CtAddConst(math, a, x)
    OBVIOUS
  <1>4. c = Cipher(a.L, a.E, PlusConst(ConstOf(math, a), x), a.slots) /\ ShapeOK(c)
    BY <1>3, AddConstGood, Zenon DEF Alike, Good
  <1>5. c.L = a.L /\ c.E = a.E /\ c.c0 = PlusConst(ConstOf(math, a), x) /\ c.slots = S
    BY <1>2, <1>4 DEF Cipher
  <1>6. InvMasks(c) = InvMasks(a)
    BY <1>1, <1>2, <1>4, <1>5, InvMasksSame, Zenon
  <1>7. Hidden(c) = Hidden(a)
    BY <1>2, <1>5, <1>6, Zenon DEF Hidden
  <1>8. DecRight(a) /\ DecRight(c)
    BY <1>1, <1>4, DecFacts, Zenon
  <1>9. PICK u \in Vec(S), h \in Vec(S) : u = ConstOf(TRUE, a) /\ h = Hidden(a) /\ DecValues(a) = VAdd(u, h)
    BY <1>2, <1>8, Zenon DEF DecRight
  <1>10. ConstOf(math, a) = u
    BY <1>9, Zenon DEF ConstOf
  <1>11. PICK f \in Vec(S) : f = Flat(x, S)
    BY FlatFacts, Zenon
  <1>12. c.c0 = VAdd(u, f) /\ VAdd(u, f) \in Vec(S)
    <2>1. PlusConst(u, x) = VAdd(u, f)
      BY <1>9, <1>11, PlusIsAdd, Zenon
    <2>2. VAdd(u, f) \in Vec(S)
      BY <1>9, <1>11, VecClosed, Zenon
    <2> QED
      BY <1>5, <1>10, <2>1, <2>2, Zenon
  <1>13. ConstOf(TRUE, c) = VAdd(u, f)
    <2>1. c.c0 # <<>>
      BY <1>2, <1>12, VecFacts
    <2> QED
      BY <1>12, <2>1, Zenon DEF ConstOf
  <1>14. DecValues(c) = VAdd(VAdd(u, f), h)
    BY <1>7, <1>8, <1>9, <1>13, Zenon DEF DecRight
  <1>15. VAdd(VAdd(u, f), h) = VAdd(VAdd(u, h), f)
    <2>1. VAdd(VAdd(u, f), h) = VAdd(u, VAdd(f, h))
      <3>1. Three(S, u, f, h)
        BY <1>9, <1>11, Zenon DEF Three
      <3> QED
        BY <3>1, ThreeLaws
    <2>2. VAdd(VAdd(u, h), f) = VAdd(u, VAdd(h, f))
      <3>1. Three(S, u, h, f)
        BY <1>9, <1>11, Zenon DEF Three
      <3> QED
        BY <3>1, ThreeLaws
    <2>3. VAdd(f, h) = VAdd(h, f)
      BY <1>9, <1>11, AddComm
    <2> QED
      BY <2>1, <2>2, <2>3, Zenon
  <1>16. PlusConst(VAdd(u, h), x) = VAdd(VAdd(u, h), f)
    <2>1. VAdd(u, h) \in Vec(S)
      BY <1>9, VecClosed, Zenon
    <2> QED
      BY <1>11, <2>1, PlusIsAdd, Zenon
  <1> QED
    BY <1>3, <1>9, <1>14, <1>15, <1>16, Zenon

\* ubk_apply keeps the value: it moves bits, and no bit is decrypted.
LEMMA UbkVal ==
    ASSUME NEW c, Good(c)
    PROVE  SameVal(c, UbkApply(c))
  <1>1. UbkRight(c) /\ ShapeOK(c)
    BY UbkFacts, Zenon DEF Good
  <1>2. PICK d, F : d = UbkApply(c) /\ F = UbkEdges(c.E)
    OBVIOUS
  <1>3. d = Cipher(c.L, F, c.c0, c.slots) /\ ShapeOK(d)
    BY <1>1, <1>2, Zenon DEF UbkRight, Alike, Good
  <1>4. d.L = c.L /\ d.E = F /\ d.c0 = c.c0 /\ d.slots = c.slots
    BY <1>3 DEF Cipher
  <1>5. PICK R : R = InvMasks(c) /\ InvMasks(d) = R
    BY <1>1, <1>3, <1>4, InvMasksSame, Zenon
  <1>6. SameAdds(c.E, F, R, R) /\ Len(c.E) \in Nat
    <2>1. Len(F) = Len(c.E)
      BY <1>1, <1>2, Zenon DEF UbkRight, SamePlaces
    <2>2. \A k \in 1..Len(c.E) : Contr(F[k], R) = Contr(c.E[k], R)
      <3>1. TAKE k \in 1..Len(c.E)
      <3>2. F[k].lid = c.E[k].lid /\ F[k].idx = c.E[k].idx /\ F[k].ch = c.E[k].ch /\ F[k].w = c.E[k].w
        BY <1>1, <1>2, Zenon DEF UbkRight, SamePlaces
      <3>3. R[F[k].lid] = R[c.E[k].lid]
        BY <3>2, Zenon
      <3> QED
        BY <3>2, <3>3, ContrSame
    <2> QED
      BY <1>1, <2>1, <2>2, ShapeParts, Zenon DEF SameAdds
  <1>7. Total(F, R, c.slots) = Total(c.E, R, c.slots)
    BY <1>6, TotalSame
  <1>8. Hidden(d) = Hidden(c)
    BY <1>4, <1>5, <1>7, Zenon DEF Hidden
  <1> QED
    BY <1>1, <1>2, <1>3, <1>4, <1>8, SameValBy, Zenon

\* A round adds a zero.
LEMMA RoundVal ==
    ASSUME NEW c, Good(c), NEW z, FreshRight(z, 1), DecValues(z) = Zeros(1), c.slots = 1
    PROVE  DecValues(RecryptRound(c, z)) = DecValues(c)
  <1>1. PICK s, d : s = CtAdd(c, z) /\ d = RecryptRound(c, z)
    OBVIOUS
  <1>2. Good(s) /\ d = GuardBudget(UbkApply(s))
    BY <1>1, RoundFacts, Zenon DEF RoundRight
  <1>3. Good(z) /\ z.slots = 1
    BY Zenon DEF FreshRight
  <1>4. DecValues(s) = VAdd(DecValues(c), DecValues(z))
    BY <1>1, <1>3, AddVal, Zenon
  <1>5. DecValues(c) \in Vec(1) /\ 1 \in Nat
    BY DecFacts, Zenon DEF DecRight, Good
  <1>6. VAdd(DecValues(c), Zeros(1)) = DecValues(c)
    BY <1>5, AddZero, Zenon
  <1>7. SameVal(s, UbkApply(s))
    BY <1>2, UbkVal, Zenon
  <1>8. SameVal(UbkApply(s), d)
    BY <1>2, <1>7, EdgesCompactedVal, Zenon DEF SameVal
  <1> QED
    BY <1>1, <1>4, <1>6, <1>7, <1>8, Zenon DEF SameVal

\* Recryption so far: the slots do not fit, or the value is the operand's.
RecryptedVal(a, c) == (Threw(c) /\ a.slots # 1) \/ (Alike(a, c) /\ DecValues(c) = DecValues(a))

\* One more round.
LEMMA StepRecryptedVal ==
    ASSUME NEW a, NEW c, RecryptedVal(a, c), NEW t \in Nat, NEW n \in Nat
    PROVE  RecryptedVal(a, RoundStep(t, c, n))
  <1>1. CASE Threw(c) \/ ~NeedsBalance(c)
    BY <1>1, Zenon DEF RoundStep
  <1>2. CASE ~(Threw(c) \/ ~NeedsBalance(c))
    <2>1. PICK z : z = ZeroPool[DrawPoolIdx(t, n, 2)]
      OBVIOUS
    <2>2. RoundStep(t, c, n) = RecryptRound(c, z)
      BY <1>2, <2>1, Zenon DEF RoundStep
    <2>3. FreshRight(z, 1)
      BY <2>1, PoolIdx, Zenon
    <2>4. DrawPoolIdx(t, n, 2) \in 1..2
      BY DEF DrawPoolIdx
    <2>5. DecValues(z) = Zeros(1)
      BY <2>1, <2>4, ZeroPoolVal, Zenon
    <2>6. Alike(a, c) /\ DecValues(c) = DecValues(a) /\ Good(c) /\ c.slots = a.slots
      BY <1>2, Zenon DEF RecryptedVal, Alike
    <2>7. RoundRight(c, z)
      BY <2>3, <2>6, RoundFacts, Zenon
    <2>8. CASE c.slots = 1
      <3>1. DecValues(RecryptRound(c, z)) = DecValues(c)
        BY <2>3, <2>5, <2>6, <2>8, RoundVal, Zenon
      <3>2. Alike(c, RecryptRound(c, z))
        BY <2>7, <2>8, Zenon DEF RoundRight
      <3> QED
        BY <2>2, <2>6, <3>1, <3>2, Zenon DEF RecryptedVal, Alike
    <2>9. CASE c.slots # 1
      BY <2>2, <2>6, <2>7, <2>9, Zenon DEF RecryptedVal, RoundRight
    <2> QED
      BY <2>8, <2>9
  <1> QED
    BY <1>1, <1>2

\* All the rounds.
LEMMA RoundsVal ==
    ASSUME NEW a, Good(a), NEW t \in Nat
    PROVE  RecryptedVal(a, Rounds(a, t))
  <1>1. PICK N \in Nat : N = RecryptRounds /\ DOMAIN Count = 1..N /\ \A k \in 1..N : Count[k] = k /\ k \in Nat
    BY CountFacts, Zenon
  <1>2. PICK f : RoundTable(f, a, t, N) /\ Rounds(a, t) = f[N]
    BY <1>1, RoundSteps
  <1> DEFINE T == {n \in Nat : n <= N => RecryptedVal(a, f[n])}
  <1>3. 0 \in T
    <2>1. f[0] = a
      BY <1>2, Zenon DEF RoundTable
    <2>2. Alike(a, a)
      BY CompactAlike, Zenon
    <2> QED
      BY <2>1, <2>2 DEF RecryptedVal
  <1>4. \A n \in T : n + 1 \in T
    <2>1. TAKE n \in T
    <2>2. n \in Nat /\ n + 1 \in Nat
      OBVIOUS
    <2> SUFFICES ASSUME n + 1 <= N PROVE RecryptedVal(a, f[n + 1])
      BY <2>2
    <2>3. n <= N /\ n + 1 \in 1..N /\ (n + 1) - 1 = n
      BY <2>2
    <2>4. RecryptedVal(a, f[n])
      BY <2>3
    <2>5. f[n + 1] = RoundStep(t, f[(n + 1) - 1], Count[n + 1]) /\ Count[n + 1] = n + 1
      BY <1>1, <1>2, <2>3, Zenon DEF RoundTable
    <2> QED
      BY <2>2, <2>3, <2>4, <2>5, StepRecryptedVal, Zenon
  <1> HIDE DEF T
  <1>5. T \in SUBSET Nat
    BY DEF T
  <1>6. T = Nat
    BY <1>3, <1>4, <1>5, Climb, Zenon
  <1>7. N \in T
    BY <1>6
  <1>8. RecryptedVal(a, f[N])
    BY <1>7 DEF T
  <1> QED
    BY <1>2, <1>8, Zenon

\* ct_recrypt.
LEMMA RecryptVal ==
    ASSUME NEW a, Good(a), NEW t \in Nat, ~Threw(CtRecrypt(a, t))
    PROVE  DecValues(CtRecrypt(a, t)) = DecValues(a)
  <1>1. CASE a.E = <<>>
    BY <1>1, RecryptForm, Zenon
  <1>2. CASE a.E # <<>>
    <2>1. PICK c : c = Rounds(a, t) /\ RecryptedVal(a, c)
      BY RoundsVal, Zenon
    <2>2. CtRecrypt(a, t) = IF Threw(c) THEN NoCipher ELSE CompactLayers(CompactEdges(c))
      BY <1>2, <2>1, RecryptForm, Zenon
    <2>3. ~Threw(c) /\ CtRecrypt(a, t) = CompactLayers(CompactEdges(c))
      BY <2>2, ThrewNo, Zenon
    <2>4. ShapeOK(c) /\ DecValues(c) = DecValues(a)
      BY <2>1, <2>3, Zenon DEF RecryptedVal, Alike, Good
    <2>5. SameVal(c, CompactEdges(c))
      BY <2>4, EdgesCompactedVal, Zenon
    <2>6. SameVal(CompactEdges(c), CompactLayers(CompactEdges(c)))
      BY <2>5, LayersCompactedVal, Zenon DEF SameVal
    <2> QED
      BY <2>3, <2>4, <2>5, <2>6, Zenon DEF SameVal
  <1> QED
    BY <1>1, <1>2

\* Layers at the same places that have the same masks.
SameMasks(c, d) ==
    /\ Len(d.L) = Len(c.L)
    /\ \A i \in 1..Len(c.L) :
           /\ IsProd(d.L[i]) <=> IsProd(c.L[i])
           /\ IsProd(c.L[i]) => d.L[i].pa = c.L[i].pa /\ d.L[i].pb = c.L[i].pb
           /\ ~IsProd(c.L[i]) => BaseMask(d.L[i], c.slots) = BaseMask(c.L[i], c.slots)

\* The edges say the same under them.
LEMMA HiddenSame ==
    ASSUME NEW c, NEW d, ShapeOK(c), ShapeOK(d), d.slots = c.slots, d.E = c.E, SameMasks(c, d)
    PROVE  Hidden(d) = Hidden(c)
  <1>1. PICK n \in Nat : n = Len(c.L)
    BY ShapeParts, Zenon
  <1>2. PICK f : f = IdOn(n)
    OBVIOUS
  <1>3. \A i \in 1..n : f[i] = i
    BY <1>2, Zenon DEF IdOn
  <1>4. \A i \in 1..n : IsProd(c.L[i]) => c.L[i].pa \in 1..n /\ c.L[i].pb \in 1..n
    <2>1. ParentsBelow(c.L)
      BY ShapeParts, Zenon DEF LayersOK
    <2>2. TAKE i \in 1..n
    <2>3. IsProd(c.L[i]) => c.L[i].pa \in 1..(i - 1) /\ c.L[i].pb \in 1..(i - 1)
      BY <1>1, <2>1, Zenon DEF ParentsBelow
    <2>4. 1..(i - 1) \subseteq 1..n
      OBVIOUS
    <2> QED
      BY <2>3, <2>4, Zenon
  <1>5. Follows(c, d, 1..n, f)
    BY <1>1, <1>3, <1>4, Zenon DEF Follows, SameMasks
  <1>6. 1..n \in SUBSET (1..Len(c.L))
    BY <1>1
  <1>7. MasksCarried(c, d, 1..n, f)
    BY <1>5, <1>6, MasksFollow, Zenon
  <1>8. PICK E : E = c.E /\ d.E = E
    OBVIOUS
  <1>9. GoAlong(E, E, 1..n, f)
    <2>1. Len(E) \in Nat /\ \A k \in 1..Len(E) : E[k].lid \in 1..n
      BY <1>1, <1>8, ShapeParts, Zenon
    <2> QED
      BY <1>3, <2>1, Zenon DEF GoAlong
  <1>10. AddSame(c, d, E, E, 1..n, f, c.slots)
    BY <1>7, <1>9, TotalFollows, Zenon
  <1> QED
    BY <1>8, <1>10, Zenon DEF Hidden, AddSame

\* serialize_cipher and deserialize_cipher keep the value.
LEMMA SavedVal ==
    ASSUME NEW c, Good(c)
    PROVE  /\ DecValues(DeserializeCipher(SerializeCipher(c))) = DecValues(c)
           /\ DecValues(DeserializeCipher(Write(3, c))) = DecValues(c)
  <1>1. SavedRight(c) /\ ShapeOK(c)
    BY SavedFacts, Zenon DEF Good
  <1>2. PICK d : d = Back(3, c)
    OBVIOUS
  <1>3. /\ DeserializeCipher(Write(3, c)) = d /\ DeserializeCipher(SerializeCipher(c)) = d
        /\ ShapeOK(d) /\ d.slots = c.slots /\ d.E = c.E /\ d.c0 = c.c0 /\ Len(d.L) = Len(c.L)
        /\ \A i \in 1..Len(c.L) : Reread(d.L[i], c.L[i])
    BY <1>1, <1>2, Zenon DEF SavedRight, Alike, Good
  <1>4. SameMasks(c, d)
    <2>1. ASSUME NEW i \in 1..Len(c.L)
          PROVE  /\ IsProd(d.L[i]) <=> IsProd(c.L[i])
                 /\ IsProd(c.L[i]) => d.L[i].pa = c.L[i].pa /\ d.L[i].pb = c.L[i].pb
                 /\ ~IsProd(c.L[i]) => BaseMask(d.L[i], c.slots) = BaseMask(c.L[i], c.slots)
      <3>1. Reread(d.L[i], c.L[i])
        BY <1>3, Zenon
      <3>2. /\ IsProd(d.L[i]) <=> IsProd(c.L[i])
            /\ IsProd(c.L[i]) => d.L[i].pa = c.L[i].pa /\ d.L[i].pb = c.L[i].pb
            /\ d.L[i].rpc = c.L[i].rpc /\ (~IsProd(c.L[i]) => d.L[i].seed = c.L[i].seed)
        BY <3>1, Zenon DEF Reread
      <3> QED
        BY <3>2, Zenon DEF BaseMask
    <2> QED
      BY <1>3, <2>1, Zenon DEF SameMasks
  <1>5. Hidden(d) = Hidden(c)
    BY <1>1, <1>3, <1>4, HiddenSame, Zenon
  <1>6. SameVal(c, d)
    BY <1>1, <1>3, <1>5, SameValBy, Zenon
  <1> QED
    BY <1>3, <1>6, Zenon DEF SameVal

\* A layer of an earlier version that is read has the mask it had.
LEMMA OldMask ==
    ASSUME NEW ver \in {1, 2, 4}, NEW l, NEW S, OldRight(ver, l, S), l.rpc # <<>> <=> ver = 4
    PROVE  BaseMask(ReadLayer(ver, WriteLayer(ver, l), S), S) = BaseMask(l, S)
  <1>1. PICK x : x = ReadLayer(ver, WriteLayer(ver, l), S)
    OBVIOUS
  <1>2. x.seed = l.seed /\ (x.rpc # <<>> <=> ver = 4)
    BY <1>1, Zenon DEF OldRight
  <1> QED
    BY <1>1, <1>2, Zenon DEF BaseMask

\* Reading what an earlier program wrote.
LEMMA BaseBackHidden ==
    ASSUME NEW ver \in {1, 2, 4}, NEW c, ShapeOK(c), BaseBack(ver, c),
           \A i \in 1..Len(c.L) : ~IsProd(c.L[i]) /\ (c.L[i].rpc # <<>> <=> ver = 4)
    PROVE  /\ SameMasks(c, Back(ver, c)) /\ Hidden(Back(ver, c)) = Hidden(c)
           /\ DecValues(Back(ver, c)) = DecValues(c)
  <1>1. PICK d : d = Back(ver, c)
    OBVIOUS
  <1>2. /\ ShapeOK(d) /\ d.slots = c.slots /\ d.E = c.E /\ d.c0 = c.c0 /\ Len(d.L) = Len(c.L)
        /\ \A i \in 1..Len(c.L) : /\ d.L[i] = ReadLayer(ver, WriteLayer(ver, c.L[i]), c.slots)
                                  /\ OldRight(ver, c.L[i], c.slots)
    BY <1>1, Zenon DEF BaseBack, Good
  <1>3. SameMasks(c, d)
    <2>1. ASSUME NEW i \in 1..Len(c.L)
          PROVE  ~IsProd(d.L[i]) /\ BaseMask(d.L[i], c.slots) = BaseMask(c.L[i], c.slots)
      <3>1. d.L[i] = ReadLayer(ver, WriteLayer(ver, c.L[i]), c.slots) /\ OldRight(ver, c.L[i], c.slots)
        BY <1>2, Zenon
      <3>2. c.L[i].rpc # <<>> <=> ver = 4
        BY Zenon
      <3>3. BaseMask(ReadLayer(ver, WriteLayer(ver, c.L[i]), c.slots), c.slots) = BaseMask(c.L[i], c.slots)
        BY <3>1, <3>2, OldMask
      <3>4. ~IsProd(d.L[i])
        BY <3>1, Zenon DEF OldRight
      <3> QED
        BY <3>1, <3>3, <3>4, Zenon
    <2> QED
      BY <1>2, <2>1, Zenon DEF SameMasks
  <1>4. Hidden(d) = Hidden(c)
    BY <1>2, <1>3, HiddenSame, Zenon
  <1>5. SameVal(c, d)
    BY <1>2, <1>4, SameValBy, Zenon
  <1> QED
    BY <1>1, <1>3, <1>4, <1>5, Zenon DEF SameVal

\* What decrypts without a constant, or with none but zero.
LEMMA HiddenIsVal ==
    ASSUME NEW c, ShapeOK(c), c.c0 = <<>> \/ c.c0 = Zeros(c.slots)
    PROVE  DecValues(c) = Hidden(c)
  <1>1. DecRight(c) /\ c.slots \in Nat
    BY DecFacts, ShapeParts, Zenon
  <1>2. ConstOf(TRUE, c) = Zeros(c.slots)
    BY Zenon DEF ConstOf
  <1>3. Hidden(c) \in Vec(c.slots) /\ DecValues(c) = VAdd(Zeros(c.slots), Hidden(c))
    BY <1>1, <1>2, Zenon DEF DecRight
  <1> QED
    BY <1>1, <1>3, ZeroAdd, Zenon

\* A constant alone is its value.
LEMMA BareVal ==
    ASSUME NEW S \in Slots, NEW c0, ConstOK(c0, S)
    PROVE  DecValues(Bare(c0, S)) = ConstOf(TRUE, Bare(c0, S))
  <1>1. PICK c : c = Bare(c0, S)
    OBVIOUS
  <1>2. ShapeOK(c) /\ c.slots = S /\ c.E = <<>> /\ S \in Nat
    BY <1>1, BareGood, SlotsFacts, Zenon DEF Good
  <1>3. Hidden(c) = Zeros(S)
    BY <1>2, TotalNone, Zenon DEF Hidden
  <1>4. DecValues(c) = VAdd(ConstOf(TRUE, c), Zeros(S)) /\ ConstOf(TRUE, c) \in Vec(S)
    BY <1>2, <1>3, DecFacts, Zenon DEF DecRight
  <1> QED
    BY <1>1, <1>2, <1>4, AddZero, Zenon

\* What earlier programs stored under the older PRF.
OldVal(v, t, S) ==
    LET l == StoredLayer(DrawSeed(t, 0), DrawSeed(t, 0), S)
    IN  DecValues(OldCt(v, t)) = v /\ Hidden(OldCt(v, t)) = v /\ BaseMask(l, S) = LegacyR(DrawSeed(t, 0), S)

\* It decrypts to the value.
LEMMA OldVals ==
    ASSUME NEW S \in Slots, NEW v \in Vec(S), NEW t \in Nat
    PROVE  OldVal(v, t, S)
  <1>1. Len(v) = S
    BY SlotsFacts, VecFacts
  <1>2. PICK l, r : l = StoredLayer(DrawSeed(t, 0), DrawSeed(t, 0), S) /\ r = LegacyR(DrawSeed(t, 0), S)
    OBVIOUS
  <1>3. OldCt(v, t) = SynthUnder(l, r, v, t)
    BY <1>1, <1>2, Zenon DEF OldCt
  <1>4. LayerOK(l, S) /\ ~IsProd(l) /\ l.rpc = <<>> /\ l.seed = DrawSeed(t, 0)
    <2>1. OldCtRight(v, t, S)
      BY OldCtFacts
    <2> QED
      BY <1>2, <2>1, Zenon DEF OldCtRight
  <1>5. r = BaseMask(l, S)
    BY <1>2, <1>4, Zenon DEF BaseMask
  <1>6. DecValues(SynthUnder(l, r, v, t)) = v /\ Hidden(SynthUnder(l, r, v, t)) = v
    BY <1>4, <1>5, SynthVal
  <1> QED
    BY <1>2, <1>3, <1>5, <1>6, Zenon DEF OldVal

\* A stored ciphertext that is loaded decrypts to v.
LoadsAs(bytes, v, t, S) == ~Threw(DeserializeCipher(bytes)) => DecValues(DeserializeCipher(bytes)) = v

\* Version 1: no constant.
LEMMA FirstVal ==
    ASSUME NEW S \in Slots, NEW v \in Vec(S), NEW t \in Nat
    PROVE  LoadsAs(Write(1, First(v, t)), v, t, S)
  <1>1. OldCtRight(v, t, S) /\ OldVal(v, t, S)
    BY OldCtFacts, OldVals, Zenon
  <1>2. PICK l, old, c : l = StoredLayer(DrawSeed(t, 0), DrawSeed(t, 0), S) /\ old = OldCt(v, t) /\ c = First(v, t)
    OBVIOUS
  <1>3. /\ ShapeOK(c) /\ c = Cipher(<<l>>, old.E, <<>>, S) /\ ~IsProd(l) /\ l.rpc = <<>>
        /\ ShapeOK(old) /\ old.slots = S /\ old.L = <<l>> /\ Hidden(old) = v
    BY <1>1, <1>2, Zenon DEF OldCtRight, OldVal, Good
  <1>4. c.L = <<l>> /\ c.slots = S /\ c.E = old.E /\ c.c0 = <<>>
    BY <1>3 DEF Cipher
  <1>5. \A k \in 1..Len(c.L) : ~IsProd(c.L[k]) /\ (c.L[k].rpc # <<>> <=> 1 = 4)
    BY <1>3, <1>4, OneLayer
  <1>6. BaseBack(1, c)
    BY <1>3, <1>5, BaseBackFacts
  <1>7. PICK d : d = Back(1, c)
    OBVIOUS
  <1>8. Hidden(d) = Hidden(c)
    BY <1>3, <1>5, <1>6, <1>7, BaseBackHidden
  <1>9. InvMasks(c) = InvMasks(old)
    BY <1>3, <1>4, InvMasksSame, Zenon
  <1>10. Hidden(c) = v
    BY <1>3, <1>4, <1>9, Zenon DEF Hidden
  <1>11. ShapeOK(d) /\ d.c0 = <<>> /\ DeserializeCipher(Write(1, c)) = d
    BY <1>4, <1>6, <1>7, Zenon DEF BaseBack, Good
  <1>12. DecValues(d) = Hidden(d)
    BY <1>11, HiddenIsVal, Zenon
  <1> QED
    BY <1>2, <1>8, <1>10, <1>11, <1>12, Zenon DEF LoadsAs

\* Version 2: a layer no edge names is below.
LEMMA SecondVal ==
    ASSUME NEW S \in Slots, NEW v \in Vec(S), NEW t \in Nat
    PROVE  LoadsAs(Write(2, Second(v, t)), v, t, S)
  <1>1. OldCtRight(v, t, S) /\ OldVal(v, t, S)
    BY OldCtFacts, OldVals, Zenon
  <1>2. PICK l, i, old, c : /\ l = StoredLayer(DrawSeed(t, 0), DrawSeed(t, 0), S) /\ old = OldCt(v, t) /\ c = Second(v, t)
                            /\ i = StoredLayer(DrawSeed(t, 1), DrawSeed(t, 0), S)
    OBVIOUS
  <1>3. PICK J, F : J = <<i>> \o <<l>> /\ F = MoveEdges(old.E, 1)
    OBVIOUS
  <1>4. /\ ShapeOK(c) /\ c = Cipher(J, F, Zeros(S), S) /\ ~IsProd(l) /\ l.rpc = <<>>
        /\ ShapeOK(old) /\ old.slots = S /\ old.L = <<l>> /\ Hidden(old) = v
        /\ Len(J) = 2 /\ J[1] = i /\ J[2] = l /\ MovedEdges(old.E, 1, 2, S) /\ ~IsProd(i)
    BY <1>1, <1>2, <1>3, Zenon DEF OldCtRight, OldVal, Good
  <1>5. i.rpc = <<>>
    BY <1>2 DEF StoredLayer
  <1>6. c.L = J /\ c.slots = S /\ c.E = F /\ c.c0 = Zeros(S)
    BY <1>4 DEF Cipher
  <1>7. \A k \in 1..Len(c.L) : ~IsProd(c.L[k]) /\ (c.L[k].rpc # <<>> <=> 2 = 4)
    <2>1. \A k \in 1..Len(c.L) : k = 1 \/ k = 2
      <3>1. Len(c.L) = 2
        BY <1>4, <1>6, Zenon
      <3> QED
        BY <3>1
    <2>2. c.L[1] = i /\ c.L[2] = l /\ 2 # 4
      <3>1. c.L[1] = i /\ c.L[2] = l
        BY <1>4, <1>6, Zenon
      <3> QED
        BY <3>1
    <2> QED
      BY <1>4, <1>5, <2>1, <2>2, Zenon
  <1>8. BaseBack(2, c)
    BY <1>4, <1>7, BaseBackFacts
  <1>9. PICK d : d = Back(2, c)
    OBVIOUS
  <1>10. Hidden(d) = Hidden(c)
    BY <1>4, <1>7, <1>8, <1>9, BaseBackHidden
  <1>11. PICK f : f = [j \in 1..1 |-> 2]
    OBVIOUS
  <1>12. f[1] = 2 /\ 1..1 = {1}
    BY <1>11
  <1>13. Follows(old, c, {1}, f)
    <2>1. old.L[1] = l /\ c.L[f[1]] = l /\ f[1] \in 1..Len(c.L)
      <3>1. old.L[1] = l
        BY <1>4, OneLayer, Zenon
      <3>2. c.L[f[1]] = l
        BY <1>4, <1>6, <1>12, Zenon
      <3>3. Len(c.L) = 2
        BY <1>4, <1>6, Zenon
      <3>4. f[1] \in 1..Len(c.L)
        BY <1>12, <3>3
      <3> QED
        BY <3>1, <3>2, <3>4
    <2> QED
      BY <1>4, <2>1, Zenon DEF Follows
  <1>14. {1} \in SUBSET (1..Len(old.L)) /\ Len(old.L) = 1
    BY <1>4
  <1>15. MasksCarried(old, c, {1}, f)
    BY <1>4, <1>6, <1>13, <1>14, MasksFollow, Zenon
  <1>16. GoAlong(old.E, F, {1}, f)
    <2>1. Len(old.E) \in Nat /\ \A k \in 1..Len(old.E) : old.E[k].lid \in 1..Len(old.L)
      BY <1>4, ShapeParts, Zenon
    <2>2. \A k \in 1..Len(old.E) : old.E[k].lid = 1
      BY <1>14, <2>1
    <2>3. /\ Len(F) = Len(old.E)
          /\ \A k \in 1..Len(old.E) : /\ F[k].lid = old.E[k].lid + 1 /\ F[k].idx = old.E[k].idx /\ F[k].ch = old.E[k].ch
                                      /\ F[k].w = old.E[k].w
      BY <1>3, <1>4, Zenon DEF MovedEdges
    <2>4. \A k \in 1..Len(old.E) : F[k].lid = f[old.E[k].lid] /\ old.E[k].lid \in {1}
      BY <1>12, <2>2, <2>3
    <2> QED
      BY <2>1, <2>3, <2>4, Zenon DEF GoAlong
  <1>17. AddSame(old, c, old.E, F, {1}, f, S)
    BY <1>15, <1>16, TotalFollows, Zenon
  <1>18. Hidden(c) = v
    BY <1>4, <1>6, <1>17, Zenon DEF Hidden, AddSame
  <1>19. ShapeOK(d) /\ d.c0 = Zeros(S) /\ d.slots = S /\ DeserializeCipher(Write(2, c)) = d
    BY <1>6, <1>8, <1>9, Zenon DEF BaseBack, Good
  <1>20. DecValues(d) = Hidden(d)
    BY <1>19, HiddenIsVal, Zenon
  <1> QED
    BY <1>2, <1>10, <1>18, <1>19, <1>20, Zenon DEF LoadsAs

\* Version 4: a public ciphertext.
LEMMA PublicVal ==
    ASSUME NEW S \in Slots, NEW v \in Vec(S), NEW t \in Nat
    PROVE  LoadsAs(Write(4, EncValues(v, t)), v, t, S)
  <1>1. PICK c : c = EncValues(v, t)
    OBVIOUS
  <1>2. IF NoMask(t, S) THEN Threw(c) ELSE FreshRight(c, S)
    BY <1>1, EncFacts
  <1>3. CASE NoMask(t, S)
    <2>1. c.slots = 0
      BY <1>2, <1>3 DEF Threw
    <2>2. BackForm(4, c)
      BY BackFormFacts
    <2>3. Back(4, c).slots = 0
      BY <2>1, PartsFacts DEF PartsRight, Back
    <2>4. ~ValidCipherShape(Back(4, c))
      BY <2>3 DEF ValidCipherShape
    <2>5. DeserializeCipher(Write(4, c)) = NoCipher
      BY <2>2, <2>4, Zenon DEF BackForm
    <2> QED
      BY <1>1, <2>5, ThrewNo, Zenon DEF LoadsAs
  <1>4. CASE ~NoMask(t, S)
    <2>1. ShapeOK(c) /\ \A k \in 1..Len(c.L) : ~IsProd(c.L[k]) /\ c.L[k].rpc # <<>>
      BY <1>2, <1>4, Zenon DEF FreshRight, Good
    <2>2. BaseBack(4, c)
      BY <2>1, BaseBackFacts
    <2>3. \A k \in 1..Len(c.L) : ~IsProd(c.L[k]) /\ (c.L[k].rpc # <<>> <=> 4 = 4)
      BY <2>1, Zenon
    <2>4. DecValues(Back(4, c)) = DecValues(c)
      BY <2>1, <2>2, <2>3, BaseBackHidden
    <2>5. DecValues(c) = v
      BY <1>1, <1>4, EncVal
    <2> QED
      BY <1>1, <2>2, <2>4, <2>5, Zenon DEF LoadsAs, BaseBack
  <1> QED
    BY <1>3, <1>4

\* Whatever was stored.
LEMMA LoadVal ==
    ASSUME NEW S \in Slots, NEW v \in Vec(S), NEW t \in Nat, NEW bytes \in Stored(v, t)
    PROVE  LoadsAs(bytes, v, t, S)
  <1>1. Len(v) = S /\ S \in Nat /\ S # 0
    BY SlotsFacts, VecFacts
  <1>2. StoredForm(v, t)
    BY StoredFormFacts
  <1>3. LoadsAs(Write(3, Bare(v, S)), v, t, S)
    <2>1. PICK c : c = Bare(v, S)
      OBVIOUS
    <2>2. ConstOK(v, S)
      BY Zenon DEF ConstOK
    <2>3. Good(c) /\ c.c0 = v
      BY <2>1, <2>2, BareGood
    <2>4. v # <<>>
      BY <1>1, VecFacts
    <2>5. DecValues(c) = v
      BY <2>1, <2>2, <2>3, <2>4, BareVal, Zenon DEF ConstOf
    <2>6. DecValues(DeserializeCipher(Write(3, c))) = DecValues(c)
      BY <2>3, SavedVal, Zenon
    <2> QED
      BY <2>1, <2>5, <2>6, Zenon DEF LoadsAs
  <1>4. LoadsAs(Write(1, First(v, t)), v, t, S) /\ LoadsAs(Write(2, Second(v, t)), v, t, S)
    BY FirstVal, SecondVal
  <1>5. LoadsAs(Write(4, EncValues(v, t)), v, t, S)
    BY PublicVal
  <1> QED
    BY <1>1, <1>2, <1>3, <1>4, <1>5, Zenon DEF StoredForm

\* Multiplication distributes from the left either.
LEMMA MulAdd ==
    ASSUME NEW S \in Nat, NEW a \in Vec(S), NEW b \in Vec(S), NEW c \in Vec(S)
    PROVE  VMul(c, VAdd(a, b)) = VAdd(VMul(c, a), VMul(c, b))
  <1>1. VMul(VAdd(a, b), c) = VAdd(VMul(a, c), VMul(b, c))
    BY AddMul
  <1>2. VAdd(a, b) \in Vec(S)
    BY VecClosed, Zenon
  <1>3. VMul(VAdd(a, b), c) = VMul(c, VAdd(a, b)) /\ VMul(a, c) = VMul(c, a) /\ VMul(b, c) = VMul(c, b)
    BY <1>2, MulComm, Zenon
  <1> QED
    BY <1>1, <1>3, Zenon

\* A vector without a nonzero slot.
LEMMA ZeroIs ==
    ASSUME NEW S \in Nat, NEW a \in Vec(S), ~NonZero(a)
    PROVE  a = Zeros(S)
  <1>1. DOMAIN a = 1..S
    BY VecFacts
  <1>2. \A j \in 1..S : a[j] = 0
    BY <1>1, Zenon DEF NonZero
  <1>3. \A j \in 1..S : Zeros(S)[j] = 0
    BY DEF Zeros
  <1> QED
    BY <1>2, <1>3, VecEqual, ZeroVec, Zenon

\* What the edges of a product layer add: the target over the mask.
RepackAdds(lid, target, t, R, m, S) ==
    LET E == EmitRepackEdges(lid, target, t)
    IN  E \in Seq(EdgeSet(m, S)) /\ Total(E, R, S) = VMul(target, R[lid])

\* Whatever the random ones are.
LEMMA RepackTotal ==
    ASSUME NEW m \in Nat, NEW lid \in 1..m, NEW S \in Nat, NEW target \in Vec(S), NEW t \in Nat,
           NEW R, Rows(R, m, S)
    PROVE  RepackAdds(lid, target, t, R, m, S)
  <1>1. PICK E : E = EmitRepackEdges(lid, target, t)
    OBVIOUS
  <1>2. RepackRight(lid, target, t, m)
    BY RepackFacts
  <1>3. RepackEdges \in 1..B
    BY BoundAssumption
  <1>4. ClosingAdds(lid, target, RepackEdges, t, PowScale, m, S)
    BY <1>3, ScalesUndo, ClosingSignal
  <1>5. E \in Seq(EdgeSet(m, S)) /\ Len(E) = RepackEdges /\ (\A k \in 1..RepackEdges : E[k].lid = lid) /\ Signal(E, S) = target
    BY <1>1, <1>2, <1>4, Zenon DEF ClosingAdds, RepackRight
  <1>6. R[lid] \in Vec(S)
    BY Zenon DEF Rows
  <1>7. \A k \in 1..Len(E) : R[E[k].lid] = R[lid]
    BY <1>5, Zenon
  <1>8. RowSum(E, R, R[lid], m, S)
    BY <1>5, <1>6, <1>7, RowSumFacts
  <1> QED
    BY <1>1, <1>5, <1>8, Zenon DEF RowSum, RepackAdds

-----------------------------------------------------------------------------
(* Recryption to new layers keeps the value *)

\* A term under the old mask, in three parts.
LEMMA ThreeParts ==
    ASSUME NEW S \in Nat, NEW u \in Vec(S), NEW o \in Vec(S), NEW p \in Vec(S), NEW q \in Vec(S),
           NEW x \in Vec(S), NEW y \in Vec(S)
    PROVE  VAdd(VMul(u, VSub(o, VAdd(VMul(p, x), VMul(q, y)))),
                VAdd(VMul(VMul(u, p), x), VMul(VMul(u, q), y))) = VMul(u, o)
  <1>1. PICK a \in Vec(S), b \in Vec(S) : a = VMul(p, x) /\ b = VMul(q, y)
    BY VecClosed, Zenon
  <1>2. PICK z \in Vec(S) : z = VAdd(a, b)
    BY VecClosed, Zenon
  <1>3. PICK d \in Vec(S) : d = VSub(o, z)
    BY <1>2, VecClosed, Zenon
  <1>4. VMul(VMul(u, p), x) = VMul(u, a)
    BY <1>1, MulAssoc
  <1>5. VMul(VMul(u, q), y) = VMul(u, b)
    BY <1>1, MulAssoc
  <1>6. VAdd(VMul(u, a), VMul(u, b)) = VMul(u, z)
    BY <1>1, <1>2, MulAdd
  <1>7. VAdd(VMul(u, d), VMul(u, z)) = VMul(u, VAdd(d, z))
    BY <1>2, <1>3, MulAdd
  <1>8. VAdd(d, z) = o
    BY <1>2, <1>3, SubAdd
  <1> QED
    BY <1>1, <1>2, <1>3, <1>4, <1>5, <1>6, <1>7, <1>8, Zenon

\* The masks of the new layers.
ResetRows(a, t) ==
    /\ Rows(InvMasks(ResetRaw(a, t)), 2, a.slots) /\ ShapeOK(ResetRaw(a, t))
    /\ \A n \in 1..2 : InvMasks(ResetRaw(a, t))[n] = NewInv(a, t, n)

\* They are those of the new seeds.
LEMMA ResetRowsFacts ==
    ASSUME NEW a, ShapeOK(a), NEW t \in Nat, \A n \in 1..2 : NewSeeds(a, t)[n] # NoSeed, ShapeOK(ResetRaw(a, t))
    PROVE  ResetRows(a, t)
  <1>1. PICK r, L, S : r = ResetRaw(a, t) /\ L = ResetLayers(a, t) /\ S = a.slots
    OBVIOUS
  <1>2. r.L = L /\ r.slots = S
    BY <1>1 DEF ResetRaw, Cipher
  <1>3. /\ IsSeq(L) /\ Len(L) = 2
        /\ \A n \in 1..2 : L[n] = FreshLayer(NewSeeds(a, t)[n], S) /\ ~IsProd(L[n])
    BY <1>1, ResetLayersOK
  <1>4. InvMasksRight(r) /\ MasksAre(r, Masks(r))
    BY <1>1, InvMasksFacts, MasksRight, Zenon
  <1>5. Rows(InvMasks(r), 2, S)
    BY <1>2, <1>3, <1>4, Zenon DEF InvMasksRight
  <1>6. S \in Slots
    BY <1>1, ShapeParts, Zenon
  <1>7. SeedsRight(a, t)
    BY SeedsFacts, Zenon
  <1>8. ASSUME NEW n \in 1..2 PROVE InvMasks(r)[n] = NewInv(a, t, n)
    <2>1. PICK s \in Seed : s = NewSeeds(a, t)[n] /\ \A j \in 1..S : CircuitMask[s][j] # 0
      BY <1>1, <1>7, Zenon DEF SeedsRight
    <2>2. FreshLayer(s, S).rpc # <<>> /\ FreshLayer(s, S).seed = s
      BY <1>6, <2>1, FreshFacts
    <2>3. BaseMask(L[n], S) = CircuitR(s, S)
      BY <1>3, <2>1, <2>2, Zenon DEF BaseMask
    <2>4. Masks(r)[n] = CircuitR(s, S)
      BY <1>2, <1>3, <1>4, <2>3, Zenon DEF MasksAre
    <2>5. InvMasks(r)[n] = Inverses(Masks(r)[n])
      BY <1>2, <1>3, <1>4, Zenon DEF InvMasksRight
    <2> QED
      BY <1>1, <2>1, <2>4, <2>5, Zenon DEF NewInv
  <1> QED
    BY <1>1, <1>5, <1>8, Zenon DEF ResetRows

\* The new edges add each layer's share, over its mask.
ShareAdds(a, t, n, Q) ==
    LET E == ResetEdges(a, t, n)
    IN  E \in Seq(EdgeSet(2, a.slots)) /\ Total(E, Q, a.slots) = VMul(Share(a, t, n), Q[n])

\* There may be none: then the share is zero.
LEMMA ShareTotal ==
    ASSUME NEW a, ShapeOK(a), NEW t \in Nat, \A n \in 1..2 : NewSeeds(a, t)[n] # NoSeed, NEW n \in 1..2,
           NEW Q, Rows(Q, 2, a.slots)
    PROVE  ShareAdds(a, t, n, Q)
  <1>1. PICK S \in Nat : S = a.slots
    BY ShapeParts, Zenon
  <1>2. PICK s \in Vec(S) : s = Share(a, t, n)
    BY <1>1, SharesFacts, Zenon DEF SharesRight
  <1>3. PICK E : E = ResetEdges(a, t, n)
    OBVIOUS
  <1>4. ResetEdgesRight(a, t, n)
    BY ResetEdgesFacts
  <1>5. E \in Seq(EdgeSet(2, S))
    BY <1>1, <1>3, <1>4, Zenon DEF ResetEdgesRight, EdgesOK
  <1>6. Q[n] \in Vec(S)
    BY <1>1, Zenon DEF Rows
  <1>7. CASE NonZero(s)
    <2>1. E = EmitRepackEdges(n, s, t + n)
      BY <1>2, <1>3, <1>4, <1>7, Zenon DEF ResetEdgesRight
    <2>2. t + n \in Nat /\ 2 \in Nat
      OBVIOUS
    <2>3. RepackAdds(n, s, t + n, Q, 2, S)
      BY <1>1, <2>2, RepackTotal
    <2> QED
      BY <1>1, <1>2, <1>3, <1>5, <2>1, <2>3, Zenon DEF RepackAdds, ShareAdds
  <1>8. CASE ~NonZero(s)
    <2>1. E = <<>>
      BY <1>2, <1>3, <1>4, <1>8, Zenon DEF ResetEdgesRight
    <2>2. s = Zeros(S)
      BY <1>8, ZeroIs, Zenon
    <2>3. Total(E, Q, S) = Zeros(S)
      BY <2>1, TotalNone, Zenon
    <2>4. VMul(Zeros(S), Q[n]) = Zeros(S)
      BY <1>6, ZeroMul, Zenon
    <2> QED
      BY <1>1, <1>2, <1>3, <1>5, <2>2, <2>3, <2>4, Zenon DEF ShareAdds
  <1> QED
    BY <1>7, <1>8

\* The shares and the bias add up to what was hidden.
ResetAdds(a, t) ==
    VAdd(VSum(BiasTerms(a, t), a.slots),
         VAdd(VMul(Share(a, t, 1), NewInv(a, t, 1)), VMul(Share(a, t, 2), NewInv(a, t, 2)))) = Hidden(a)

\* Edge by edge.
LEMMA ResetTotal ==
    ASSUME NEW a, ShapeOK(a), NEW t \in Nat, \A n \in 1..2 : NewSeeds(a, t)[n] # NoSeed
    PROVE  ResetAdds(a, t)
  <1>1. PICK S \in Nat, N \in Nat, m \in Nat : S = a.slots /\ N = Len(a.E) /\ m = Len(a.L)
    BY ShapeParts, Zenon
  <1>2. SharesRight(a, t) /\ SeedsRight(a, t)
    BY SharesFacts, SeedsFacts
  <1>3. PICK x \in Vec(S), y \in Vec(S) : x = NewInv(a, t, 1) /\ y = NewInv(a, t, 2)
    <2>1. 1 \in 1..2 /\ 2 \in 1..2
      OBVIOUS
    <2>2. NewInv(a, t, 1) \in Vec(S) /\ NewInv(a, t, 2) \in Vec(S)
      BY <1>1, <1>2, <2>1, Zenon DEF SeedsRight
    <2> QED
      BY <2>2, Zenon
  <1>4. PICK f, g, h : f = BiasTerms(a, t) /\ g = MixTerms(a, t, 1) /\ h = MixTerms(a, t, 2)
    OBVIOUS
  <1>5. f = [k \in 1..N |-> f[k]] /\ g = [k \in 1..N |-> g[k]] /\ h = [k \in 1..N |-> h[k]]
    <2>1. DOMAIN a.E = 1..N
      BY <1>1, <1>2, Zenon DEF SharesRight
    <2> QED
      BY <1>4, <2>1, Zenon DEF BiasTerms, MixTerms
  <1>6. VSum(f, S) = PSum(f, S, N) /\ VSum(g, S) = PSum(g, S, N) /\ VSum(h, S) = PSum(h, S, N)
    BY <1>5, PSumWhole, Zenon
  <1>7. PICK R : R = InvMasks(a) /\ Rows(R, m, S)
    BY <1>1, InvMasksFacts, Zenon DEF InvMasksRight
  <1>8. PICK E \in Seq(EdgeSet(m, S)) : E = a.E
    BY <1>1, ShapeParts, Zenon
  <1>9. PICK A : A = Adds(E, R)
    OBVIOUS
  <1>10. AddsRight(E, R, m, S)
    BY <1>7, AddsFacts
  <1>11. PICK gx, H, GH : /\ gx = [k \in 1..N |-> VMul(g[k], x)] /\ H = [k \in 1..N |-> VMul(h[k], y)]
                          /\ GH = [k \in 1..N |-> VAdd(gx[k], H[k])]
    OBVIOUS
  <1>12. ASSUME NEW k \in 1..N
         PROVE  /\ f[k] \in Vec(S) /\ g[k] \in Vec(S) /\ h[k] \in Vec(S)
                /\ gx[k] = VMul(g[k], x) /\ H[k] = VMul(h[k], y) /\ GH[k] = VAdd(gx[k], H[k])
                /\ gx[k] \in Vec(S) /\ H[k] \in Vec(S) /\ GH[k] \in Vec(S)
                /\ A[k] = VAdd(f[k], GH[k])
    <2>1. k \in 1..Len(a.E) /\ 1 \in 1..2 /\ 2 \in 1..2
      BY <1>1
    <2>2. PICK i \in 1..m : i = E[k].lid
      BY <1>1, <1>8, <2>1, ShapeParts, Zenon
    <2>3. PICK u \in Vec(S), p \in Vec(S), q \in Vec(S) : u = Term(E[k]) /\ p = Mix(a, t, i, 1) /\ q = Mix(a, t, i, 2)
      <3>1. Term(E[k]) \in Vec(S) /\ Mix(a, t, i, 1) \in Vec(S) /\ Mix(a, t, i, 2) \in Vec(S)
        BY <1>1, <1>2, <1>8, <2>1, <2>2, Zenon DEF SharesRight
      <3> QED
        BY <3>1, Zenon
    <2>4. PICK o \in Vec(S) : o = R[i] /\ o = Inverses(Masks(a)[i])
      <3>1. R[i] \in Vec(S)
        BY <1>7, <2>2, Zenon DEF Rows
      <3>2. R[i] = Inverses(Masks(a)[i])
        BY <1>1, <1>7, <2>2, InvMasksFacts, Zenon DEF InvMasksRight
      <3> QED
        BY <3>1, <3>2, Zenon
    <2>5. BiasOf(a, t, i) = VSub(o, VAdd(VMul(p, x), VMul(q, y)))
      BY <1>3, <2>3, <2>4, Zenon DEF BiasOf, Bias
    <2>6. f[k] = VMul(u, VSub(o, VAdd(VMul(p, x), VMul(q, y)))) /\ f[k] \in Vec(S)
      <3>1. BiasTerms(a, t)[k] = VMul(Term(a.E[k]), BiasOf(a, t, a.E[k].lid)) /\ BiasTerms(a, t)[k] \in Vec(S)
        BY <1>1, <1>2, <2>1, Zenon DEF SharesRight
      <3> QED
        BY <1>4, <1>8, <2>2, <2>3, <2>5, <3>1, Zenon
    <2>7. g[k] = VMul(u, p) /\ h[k] = VMul(u, q) /\ g[k] \in Vec(S) /\ h[k] \in Vec(S)
      <3>1. /\ MixTerms(a, t, 1)[k] = VMul(Term(a.E[k]), Mix(a, t, a.E[k].lid, 1))
            /\ MixTerms(a, t, 2)[k] = VMul(Term(a.E[k]), Mix(a, t, a.E[k].lid, 2))
            /\ MixTerms(a, t, 1)[k] \in Vec(S) /\ MixTerms(a, t, 2)[k] \in Vec(S)
        BY <1>1, <1>2, <2>1, Zenon DEF SharesRight
      <3> QED
        BY <1>4, <1>8, <2>2, <2>3, <3>1, Zenon
    <2>8. gx[k] = VMul(g[k], x) /\ H[k] = VMul(h[k], y) /\ GH[k] = VAdd(gx[k], H[k])
      BY <1>11, Zenon
    <2>9. gx[k] \in Vec(S) /\ H[k] \in Vec(S)
      <3>1. VMul(g[k], x) \in Vec(S) /\ VMul(h[k], y) \in Vec(S)
        BY <1>3, <2>7, VecClosed
      <3> QED
        BY <2>8, <3>1, Zenon
    <2>10. GH[k] \in Vec(S)
      BY <2>8, <2>9, VecClosed, Zenon
    <2>11. A[k] = VMul(u, o)
      <3>1. A[k] = Contr(E[k], R)
        BY <1>8, <1>9, <1>10, <2>1, Zenon DEF AddsRight
      <3> QED
        BY <2>2, <2>3, <2>4, <3>1, Zenon DEF Contr
    <2>12. VAdd(VMul(u, VSub(o, VAdd(VMul(p, x), VMul(q, y)))),
                VAdd(VMul(VMul(u, p), x), VMul(VMul(u, q), y))) = VMul(u, o)
      BY ThreeParts
    <2>13. A[k] = VAdd(f[k], GH[k])
      BY <2>6, <2>7, <2>8, <2>11, <2>12, Zenon
    <2> QED
      BY <2>6, <2>7, <2>8, <2>9, <2>10, <2>13, Zenon
  <1>13. \A k \in 1..N : g[k] \in Vec(S) /\ gx[k] = VMul(g[k], x)
    BY <1>12, Zenon
  <1>14. \A k \in 1..N : h[k] \in Vec(S) /\ H[k] = VMul(h[k], y)
    BY <1>12, Zenon
  <1>15. \A k \in 1..N : gx[k] \in Vec(S) /\ H[k] \in Vec(S) /\ GH[k] = VAdd(gx[k], H[k])
    BY <1>12, Zenon
  <1>16. \A k \in 1..N : f[k] \in Vec(S) /\ GH[k] \in Vec(S) /\ A[k] = VAdd(f[k], GH[k])
    BY <1>12, Zenon
  <1>17. PSum(gx, S, N) = VMul(PSum(g, S, N), x)
    <2>1. AllTimes(g, gx, x, S, N)
      BY <1>3, <1>13, Zenon DEF AllTimes
    <2> QED
      BY <2>1, PSumTimesOf
  <1>18. PSum(H, S, N) = VMul(PSum(h, S, N), y)
    <2>1. AllTimes(h, H, y, S, N)
      BY <1>3, <1>14, Zenon DEF AllTimes
    <2> QED
      BY <2>1, PSumTimesOf
  <1>19. PSum(GH, S, N) = VAdd(PSum(gx, S, N), PSum(H, S, N))
    <2>1. AllPlus(gx, H, GH, S, N)
      BY <1>15, Zenon DEF AllPlus
    <2> QED
      BY <2>1, PSumPlusOf
  <1>20. PSum(A, S, N) = VAdd(PSum(f, S, N), PSum(GH, S, N))
    <2>1. AllPlus(f, GH, A, S, N)
      BY <1>16, Zenon DEF AllPlus
    <2> QED
      BY <2>1, PSumPlusOf
  <1>21. Hidden(a) = PSum(A, S, N)
    BY <1>1, <1>7, <1>8, <1>9, Zenon DEF Hidden, Total
  <1>22. Share(a, t, 1) = PSum(g, S, N) /\ Share(a, t, 2) = PSum(h, S, N)
    BY <1>1, <1>4, <1>6, Zenon DEF Share
  <1> QED
    BY <1>1, <1>3, <1>4, <1>6, <1>17, <1>18, <1>19, <1>20, <1>21, <1>22, Zenon DEF ResetAdds

\* ct_recrypt_reset: the two new layers and the constant decrypt to the value.
LEMMA ResetRawVal ==
    ASSUME NEW a, ShapeOK(a), NEW t \in Nat, \A n \in 1..2 : NewSeeds(a, t)[n] # NoSeed, ShapeOK(ResetRaw(a, t))
    PROVE  DecValues(ResetRaw(a, t)) = DecValues(a)
  <1>1. PICK S \in Nat : S = a.slots /\ S # 0
    <2>1. a.slots \in Nat /\ a.slots # 0
      BY ShapeParts, Zenon
    <2> QED
      BY <2>1, Zenon
  <1>2. PICK r, E, F : r = ResetRaw(a, t) /\ E = ResetEdges(a, t, 1) /\ F = ResetEdges(a, t, 2)
    OBVIOUS
  <1>3. ResetRows(a, t)
    BY ResetRowsFacts
  <1>4. PICK Q : Q = InvMasks(r) /\ Rows(Q, 2, S)
    BY <1>1, <1>2, <1>3, Zenon DEF ResetRows
  <1>5. 1 \in 1..2 /\ 2 \in 1..2
    OBVIOUS
  <1>6. PICK x \in Vec(S), y \in Vec(S) : x = Q[1] /\ y = Q[2]
    BY <1>4, <1>5, Zenon DEF Rows
  <1>7. x = NewInv(a, t, 1) /\ y = NewInv(a, t, 2)
    BY <1>2, <1>3, <1>4, <1>5, <1>6, Zenon DEF ResetRows
  <1>8. ShareAdds(a, t, 1, Q)
    BY <1>1, <1>4, <1>5, ShareTotal
  <1>9. ShareAdds(a, t, 2, Q)
    BY <1>1, <1>4, <1>5, ShareTotal
  <1>10. SharesRight(a, t)
    BY SharesFacts
  <1>11. PICK b \in Vec(S), s \in Vec(S), z \in Vec(S) :
             b = VSum(BiasTerms(a, t), S) /\ s = Share(a, t, 1) /\ z = Share(a, t, 2)
    <2>1. VSum(BiasTerms(a, t), S) \in Vec(S) /\ Share(a, t, 1) \in Vec(S) /\ Share(a, t, 2) \in Vec(S)
      BY <1>1, <1>5, <1>10, Zenon DEF SharesRight
    <2> QED
      BY <2>1, Zenon
  <1>12. /\ E \in Seq(EdgeSet(2, S)) /\ F \in Seq(EdgeSet(2, S)) /\ Total(E, Q, S) = VMul(s, x)
         /\ Total(F, Q, S) = VMul(z, y)
    BY <1>1, <1>2, <1>6, <1>8, <1>9, <1>11, Zenon DEF ShareAdds
  <1>13. Total(E \o F, Q, S) = VAdd(Total(E, Q, S), Total(F, Q, S))
    BY <1>4, <1>12, TotalConcat
  <1>14. PICK u \in Vec(S), h \in Vec(S) : u = ConstOf(TRUE, a) /\ h = Hidden(a) /\ DecValues(a) = VAdd(u, h)
    BY <1>1, DecFacts, Zenon DEF DecRight
  <1>15. r.E = E \o F /\ r.c0 = VAdd(u, b) /\ r.slots = S
    BY <1>1, <1>2, <1>11, <1>14 DEF ResetRaw, Cipher
  <1>16. PICK d \in Vec(S) : d = VAdd(VMul(s, x), VMul(z, y))
    <2>1. VMul(s, x) \in Vec(S) /\ VMul(z, y) \in Vec(S)
      BY <1>6, <1>11, VecClosed, Zenon
    <2> QED
      BY <2>1, VecClosed, Zenon
  <1>17. Hidden(r) = d
    BY <1>4, <1>12, <1>13, <1>15, <1>16, Zenon DEF Hidden
  <1>18. VAdd(b, d) = h
    <2>1. ResetAdds(a, t)
      BY ResetTotal
    <2> QED
      BY <1>1, <1>7, <1>11, <1>14, <1>16, <2>1, Zenon DEF ResetAdds
  <1>19. VAdd(u, b) \in Vec(S)
    BY <1>11, <1>14, VecClosed, Zenon
  <1>20. r.c0 # <<>>
    BY <1>1, <1>15, <1>19, VecFacts
  <1>21. ConstOf(TRUE, r) = VAdd(u, b)
    BY <1>15, <1>20, Zenon DEF ConstOf
  <1>22. DecValues(r) = VAdd(VAdd(u, b), d)
    BY <1>2, <1>17, <1>21, DecFacts, Zenon DEF DecRight
  <1>23. VAdd(VAdd(u, b), d) = VAdd(u, VAdd(b, d))
    <2>1. u \in Vec(S) /\ b \in Vec(S) /\ d \in Vec(S) /\ S \in Nat
      BY <1>11, <1>14, <1>16
    <2> QED
      BY <2>1, AddAssoc
  <1> QED
    BY <1>2, <1>14, <1>18, <1>22, <1>23, Zenon

\* After the compactions.
LEMMA ResetVal ==
    ASSUME NEW a, Good(a), NEW t \in Nat, ~Threw(CtRecryptReset(a, t))
    PROVE  DecValues(CtRecryptReset(a, t)) = DecValues(a)
  <1>1. ShapeOK(a)
    BY Zenon DEF Good
  <1>2. ResetRight(a, t)
    BY <1>1, ResetFacts
  <1>3. PICK r, g : r = ResetRaw(a, t) /\ g = GuardBudget(r)
    OBVIOUS
  <1>4. /\ \A n \in 1..2 : NewSeeds(a, t)[n] # NoSeed
        /\ ShapeOK(r) /\ CtRecryptReset(a, t) = CompactLayers(CompactEdges(g))
    BY <1>2, <1>3, Zenon DEF ResetRight, Good
  <1>5. DecValues(r) = DecValues(a)
    BY <1>1, <1>3, <1>4, ResetRawVal
  <1>6. SameVal(r, g)
    BY <1>3, <1>4, EdgesCompactedVal, Zenon
  <1>7. SameVal(g, CompactEdges(g))
    BY <1>6, EdgesCompactedVal, Zenon DEF SameVal
  <1>8. SameVal(CompactEdges(g), CompactLayers(CompactEdges(g)))
    BY <1>7, LayersCompactedVal, Zenon DEF SameVal
  <1> QED
    BY <1>4, <1>5, <1>6, <1>7, <1>8, Zenon DEF SameVal

-----------------------------------------------------------------------------
(* Products *)

\* There is one inverse of a mask.
LEMMA InverseUnique ==
    ASSUME NEW S \in Nat, NEW r \in MaskVec(S), NEW x \in Vec(S), VMul(x, r) = Flat(1, S)
    PROVE  x = Inverses(r)
  <1>1. PICK y \in Vec(S), m \in Vec(S) : y = Inverses(r) /\ m = r /\ VMul(VMul(x, y), m) = x
    <2>1. VMul(VMul(x, Inverses(r)), r) = x /\ Inverses(r) \in Vec(S) /\ r \in Vec(S)
      BY MaskCancels
    <2> QED
      BY <2>1, Zenon
  <1>2. VMul(VMul(x, y), m) = VMul(x, VMul(y, m))
    BY <1>1, MulAssoc
  <1>3. VMul(y, m) = VMul(m, y)
    BY <1>1, MulComm
  <1>4. VMul(VMul(x, m), y) = VMul(x, VMul(m, y))
    BY <1>1, MulAssoc
  <1>5. PICK o \in Vec(S) : o = Flat(1, S)
    BY FlatFacts
  <1>6. VMul(o, y) = VMul(y, o)
    BY <1>1, <1>5, MulComm
  <1>7. VMul(y, o) = y
    <2>1. 1 \in Int /\ 1 % P = 1
      BY ModulusFacts, ModField
    <2> QED
      BY <1>1, <1>5, <2>1, FlatUnit
  <1> QED
    BY <1>1, <1>2, <1>3, <1>4, <1>5, <1>6, <1>7, Zenon

\* The order of four factors.
LEMMA MulSwap ==
    ASSUME NEW S \in Nat, NEW a \in Vec(S), NEW b \in Vec(S), NEW x \in Vec(S), NEW y \in Vec(S)
    PROVE  VMul(VMul(a, b), VMul(x, y)) = VMul(VMul(a, x), VMul(b, y))
  <1>1. PICK by \in Vec(S), bx \in Vec(S), xy \in Vec(S) : by = VMul(b, y) /\ bx = VMul(b, x) /\ xy = VMul(x, y)
    BY VecClosed, Zenon
  <1>2. VMul(VMul(a, b), xy) = VMul(a, VMul(b, xy))
    BY <1>1, MulAssoc
  <1>3. VMul(b, xy) = VMul(bx, y)
    BY <1>1, MulAssoc
  <1>4. bx = VMul(x, b)
    BY <1>1, MulComm
  <1>5. VMul(VMul(x, b), y) = VMul(x, by)
    BY <1>1, MulAssoc
  <1>6. VMul(VMul(a, x), by) = VMul(a, VMul(x, by))
    BY <1>1, MulAssoc
  <1> QED
    BY <1>1, <1>2, <1>3, <1>4, <1>5, <1>6, Zenon

\* The inverse of a product is the product of the inverses.
LEMMA InverseTimes ==
    ASSUME NEW S \in Nat, NEW r \in MaskVec(S), NEW s \in MaskVec(S)
    PROVE  Inverses(VMul(r, s)) = VMul(Inverses(r), Inverses(s))
  <1>1. PICK x \in Vec(S), y \in Vec(S) : x = Inverses(r) /\ y = Inverses(s)
    <2>1. Inverses(r) \in Vec(S)
      BY MaskCancels, ZeroVec
    <2>2. Inverses(s) \in Vec(S)
      BY MaskCancels, ZeroVec
    <2> QED
      BY <2>1, <2>2, Zenon
  <1>2. VMul(x, r) = Flat(1, S) /\ r \in Vec(S)
    BY <1>1, MaskCancels
  <1>3. VMul(y, s) = Flat(1, S) /\ s \in Vec(S)
    BY <1>1, MaskCancels
  <1>4. VMul(VMul(x, y), VMul(r, s)) = VMul(VMul(x, r), VMul(y, s))
    BY <1>1, <1>2, <1>3, MulSwap
  <1>5. VMul(Flat(1, S), Flat(1, S)) = Flat(1, S)
    <2>1. 1 \in Int /\ 1 * 1 = 1
      OBVIOUS
    <2> QED
      BY <2>1, FlatMul
  <1>6. PICK m \in MaskVec(S) : m = VMul(r, s)
    BY MaskTimes
  <1>7. PICK z \in Vec(S) : z = VMul(x, y)
    BY <1>1, VecClosed
  <1>8. VMul(z, m) = Flat(1, S)
    BY <1>2, <1>3, <1>4, <1>5, <1>6, <1>7, Zenon
  <1>9. z = Inverses(m)
    BY <1>8, InverseUnique
  <1> QED
    BY <1>1, <1>6, <1>7, <1>9, Zenon

\* The inverse of the mask of a product layer.
LEMMA ProdInv ==
    ASSUME NEW c, ShapeOK(c), NEW i \in 1..Len(c.L), IsProd(c.L[i])
    PROVE  InvMasks(c)[i] = VMul(InvMasks(c)[c.L[i].pa], InvMasks(c)[c.L[i].pb])
  <1>1. InvMasksRight(c) /\ MasksAre(c, Masks(c))
    BY InvMasksFacts, MasksRight, Zenon
  <1>2. PICK n \in Nat, S \in Nat : n = Len(c.L) /\ S = c.slots
    BY ShapeParts, Zenon
  <1>3. PICK p, q : p = c.L[i].pa /\ q = c.L[i].pb
    OBVIOUS
  <1>4. p \in 1..n /\ q \in 1..n
    <2>1. ParentsBelow(c.L)
      BY ShapeParts, Zenon DEF LayersOK
    <2>2. p \in 1..(i - 1) /\ q \in 1..(i - 1)
      BY <1>3, <2>1, Zenon DEF ParentsBelow
    <2> QED
      BY <1>2, <2>2
  <1>5. PICK R : R = Masks(c)
    OBVIOUS
  <1>6. R[i] = VMul(R[p], R[q])
    BY <1>1, <1>3, <1>5, Zenon DEF MasksAre
  <1>7. R[p] \in MaskVec(S) /\ R[q] \in MaskVec(S)
    BY <1>1, <1>2, <1>4, <1>5, Zenon DEF MasksAre
  <1>8. Inverses(VMul(R[p], R[q])) = VMul(Inverses(R[p]), Inverses(R[q]))
    BY <1>7, InverseTimes
  <1>9. InvMasks(c)[i] = Inverses(R[i]) /\ InvMasks(c)[p] = Inverses(R[p]) /\ InvMasks(c)[q] = Inverses(R[q])
    BY <1>1, <1>2, <1>4, <1>5, Zenon DEF InvMasksRight
  <1> QED
    BY <1>3, <1>6, <1>8, <1>9, Zenon

\* What the edges of n product layers add.
CatAdds(targets, R, off, n) == [k \in 1..n |-> VMul(targets[k], R[off + k])]

\* Target by target.
CatTotalIs(off, targets, t, n, R, S) ==
    Total(CatAll(Repacked(off, targets, t, n)), R, S) = PSum(CatAdds(targets, R, off, n), S, n)

\* The targets over the masks.
LEMMA CatTotal ==
    ASSUME NEW off \in Nat, NEW n \in Nat, NEW S \in Nat, NEW t \in Nat, NEW targets,
           \A k \in 1..n : targets[k] \in Vec(S), NEW R, Rows(R, off + n, S)
    PROVE  CatTotalIs(off, targets, t, n, R, S)
  <1>1. PICK seq, f : seq = Repacked(off, targets, t, n) /\ f = CatAdds(targets, R, off, n)
    OBVIOUS
  <1>2. PICK m \in Nat : m = off + n
    OBVIOUS
  <1>3. DOMAIN seq = 1..n /\ \A k \in 1..n : seq[k] = EmitRepackEdges(off + k, targets[k], t + k)
    BY <1>1, Zenon DEF Repacked
  <1>4. PICK g : CatTable(g, seq, n) /\ CatAll(seq) = g[n]
    BY <1>3, CatSteps
  <1>5. ASSUME NEW k \in 1..n
        PROVE  seq[k] \in Seq(EdgeSet(m, S)) /\ Total(seq[k], R, S) = f[k]
    <2>1. off + k \in 1..m /\ t + k \in Nat
      BY <1>2
    <2>2. targets[k] \in Vec(S) /\ Rows(R, m, S)
      BY <1>2
    <2>3. RepackAdds(off + k, targets[k], t + k, R, m, S)
      BY <2>1, <2>2, RepackTotal
    <2>4. f[k] = VMul(targets[k], R[off + k])
      BY <1>1, Zenon DEF CatAdds
    <2> QED
      BY <1>3, <2>3, <2>4, Zenon DEF RepackAdds
  <1> DEFINE T == {k \in Nat : k <= n => g[k] \in Seq(EdgeSet(m, S)) /\ Total(g[k], R, S) = PSum(f, S, k)}
  <1>6. 0 \in T
    <2>1. g[0] = <<>>
      BY <1>4, Zenon DEF CatTable
    <2>2. Total(<<>>, R, S) = Zeros(S) /\ PSum(f, S, 0) = Zeros(S)
      BY TotalNone, PSumZero, Zenon
    <2>3. <<>> \in Seq(EdgeSet(m, S))
      OBVIOUS
    <2> QED
      BY <2>1, <2>2, <2>3
  <1>7. \A k \in T : k + 1 \in T
    <2>1. TAKE k \in T
    <2>2. k \in Nat /\ k + 1 \in Nat
      OBVIOUS
    <2> SUFFICES ASSUME k + 1 <= n
                 PROVE  g[k + 1] \in Seq(EdgeSet(m, S)) /\ Total(g[k + 1], R, S) = PSum(f, S, k + 1)
      BY <2>2
    <2>3. k <= n /\ k + 1 \in 1..n /\ (k + 1) - 1 = k
      BY <2>2
    <2>4. PICK E, F : E = g[k] /\ F = seq[k + 1]
      OBVIOUS
    <2>5. E \in Seq(EdgeSet(m, S)) /\ Total(E, R, S) = PSum(f, S, k)
      BY <2>3, <2>4
    <2>6. F \in Seq(EdgeSet(m, S)) /\ Total(F, R, S) = f[k + 1]
      BY <1>5, <2>3, <2>4, Zenon
    <2>7. g[k + 1] = E \o F
      <3>1. g[k + 1] = g[(k + 1) - 1] \o seq[k + 1]
        BY <1>4, <2>3, Zenon DEF CatTable
      <3> QED
        BY <2>3, <2>4, <3>1, Zenon
    <2>8. Total(E \o F, R, S) = VAdd(Total(E, R, S), Total(F, R, S))
      BY <1>2, <2>5, <2>6, TotalConcat
    <2>9. PSum(f, S, k + 1) = VAdd(PSum(f, S, k), f[k + 1])
      BY <2>2, PSumNext, Zenon
    <2>10. E \o F \in Seq(EdgeSet(m, S))
      BY <2>5, <2>6
    <2> QED
      BY <2>5, <2>6, <2>7, <2>8, <2>9, <2>10, Zenon
  <1> HIDE DEF T
  <1>8. T \in SUBSET Nat
    BY DEF T
  <1>9. T = Nat
    BY <1>6, <1>7, <1>8, Climb, Zenon
  <1>10. n \in T
    BY <1>9
  <1>11. Total(g[n], R, S) = PSum(f, S, n)
    BY <1>10 DEF T
  <1> QED
    BY <1>1, <1>4, <1>11, Zenon DEF CatTotalIs

\* What a layer adds to the value: the sum of its terms over its mask.
LayerAdds(a) == [i \in 1..Len(a.L) |-> VMul(FoldEdges(a)[i], InvMasks(a)[i])]

\* The terms of one layer.
LayerTotal(a, p) ==
    PSum(OnlyAt(TermsOf(a.E), OwnOf(a.E, p), Len(a.E), a.slots), a.slots, Len(a.E)) = FoldEdges(a)[p]

\* fold_edges sums them.
LEMMA LayerTotalFacts ==
    ASSUME NEW a, ShapeOK(a), NEW p \in 1..Len(a.L)
    PROVE  LayerTotal(a, p)
  <1>1. PICK S \in Nat, n \in Nat : S = a.slots /\ n = Len(a.E)
    BY ShapeParts, Zenon
  <1>2. PICK E, T, Z, h : E = a.E /\ T = TermsOf(a.E) /\ Z = OwnOf(a.E, p) /\ h = LayerTerms(a.E, p)
    OBVIOUS
  <1>3. DOMAIN E = 1..n
    BY <1>1, <1>2, ShapeParts, Zenon
  <1>4. Z \in SUBSET (1..n)
    BY <1>2, <1>3 DEF OwnOf
  <1>5. Places(Z)
    BY <1>4 DEF Places
  <1>6. ChosenRight(E, Z)
    BY <1>5, ChosenFacts
  <1>7. PICK q \in Nat : q = Cardinality(Z)
    BY <1>6, Zenon DEF ChosenRight
  <1>8. DOMAIN Chosen(E, Z) = 1..q /\ \A k \in 1..q : Chosen(E, Z)[k] = E[KeptAt(Z, k)]
    BY <1>6, <1>7, Zenon DEF ChosenRight
  <1>9. h = [k \in 1..q |-> Term(Chosen(E, Z)[k])]
    BY <1>2, <1>8, Zenon DEF LayerTerms
  <1>10. \A k \in 1..n : T[k] = Term(E[k]) /\ T[k] \in Vec(S)
    <2>1. TAKE k \in 1..n
    <2>2. E[k] \in EdgeSet(Len(a.L), S)
      BY <1>1, <1>2, ShapeParts, Zenon
    <2>3. Term(E[k]) \in Vec(S)
      BY <2>2, TermFacts DEF TermRight
    <2>4. T[k] = Term(E[k])
      BY <1>1, <1>2, Zenon DEF TermsOf
    <2> QED
      BY <2>3, <2>4, Zenon
  <1>11. \A k \in 1..q : h[k] = T[KeptAt(Z, k)]
    <2>1. TAKE k \in 1..q
    <2>2. KeptRight(Z)
      BY <1>5, KeptFacts
    <2>3. KeptAt(Z, k) \in Z
      BY <1>7, <2>2, Zenon DEF KeptRight
    <2>4. KeptAt(Z, k) \in 1..n
      BY <1>4, <2>3
    <2>5. h[k] = Term(Chosen(E, Z)[k])
      BY <1>9, Zenon
    <2> QED
      BY <1>8, <1>10, <2>4, <2>5, Zenon
  <1>12. \A k \in Z : T[k] \in Vec(S)
    BY <1>4, <1>10
  <1>13. PSum(h, S, Cardinality(Z)) = PSum(OnlyAt(T, Z, n, S), S, n)
    <2>1. AllChosen(T, h, Z, S, n)
      BY <1>4, <1>7, <1>11, <1>12, Zenon DEF AllChosen
    <2> QED
      BY <2>1, PSumChosenOf
  <1>14. h = [k \in 1..q |-> h[k]]
    BY <1>9, Zenon
  <1>15. VSum(h, S) = PSum(h, S, q)
    BY <1>14, PSumWhole, Zenon
  <1>16. FoldEdges(a)[p] = VSum(h, S)
    BY <1>1, <1>2, FoldFacts, Zenon DEF FoldsRight
  <1> QED
    BY <1>1, <1>2, <1>7, <1>13, <1>15, <1>16, Zenon DEF LayerTotal

\* What is hidden, layer by layer.
ByLayer(a) ==
    /\ Hidden(a) = PSum(LayerAdds(a), a.slots, Len(a.L))
    /\ \A i \in 1..Len(a.L) : /\ LayerAdds(a)[i] = VMul(FoldEdges(a)[i], InvMasks(a)[i])
                              /\ LayerAdds(a)[i] \in Vec(a.slots) /\ FoldEdges(a)[i] \in Vec(a.slots)
                              /\ InvMasks(a)[i] \in Vec(a.slots)

\* The edges, grouped by their layers.
LEMMA ByLayerFacts == ASSUME NEW a, ShapeOK(a) PROVE ByLayer(a)
  <1>1. PICK S \in Nat, n \in Nat, m \in Nat : S = a.slots /\ n = Len(a.E) /\ m = Len(a.L)
    BY ShapeParts, Zenon
  <1>2. PICK E \in Seq(EdgeSet(m, S)) : E = a.E
    BY <1>1, ShapeParts, Zenon
  <1>3. PICK R : R = InvMasks(a) /\ Rows(R, m, S)
    BY <1>1, InvMasksFacts, Zenon DEF InvMasksRight
  <1>4. PICK f, T, g, A : f = Adds(E, R) /\ T = TermsOf(E) /\ g = FoldEdges(a) /\ A = LayerAdds(a)
    OBVIOUS
  <1>5. PICK q : q = [k \in 1..n |-> E[k].lid]
    OBVIOUS
  <1>6. ASSUME NEW k \in 1..n
        PROVE  /\ f[k] \in Vec(S) /\ q[k] = E[k].lid /\ q[k] \in 1..m /\ T[k] = Term(E[k]) /\ T[k] \in Vec(S)
               /\ f[k] = VMul(T[k], R[q[k]])
    <2>1. k \in 1..Len(E) /\ E[k] \in EdgeSet(m, S) /\ E[k].lid \in 1..m
      <3>1. k \in 1..Len(a.E)
        BY <1>1
      <3> QED
        BY <1>1, <1>2, <3>1, ShapeParts, Zenon
    <2>2. Contr(E[k], R) \in Vec(S) /\ Term(E[k]) \in Vec(S)
      BY <1>3, <2>1, ContrVec
    <2>3. f[k] = Contr(E[k], R) /\ T[k] = Term(E[k])
      BY <1>4, <2>1, Zenon DEF Adds, TermsOf
    <2>4. q[k] = E[k].lid
      BY <1>5, Zenon
    <2> QED
      BY <2>1, <2>2, <2>3, <2>4, Zenon DEF Contr
  <1>7. \A k \in 1..n : f[k] \in Vec(S)
    BY <1>6, Zenon
  <1>8. \A k \in 1..n : q[k] \in 1..m \/ f[k] = Zeros(S)
    BY <1>6, Zenon
  <1>9. PSum(f, S, n) = PSum(Parts(f, q, n, m, S), S, m)
    BY <1>7, <1>8, PSumGroup
  <1>10. ASSUME NEW p \in 1..m
         PROVE  /\ A[p] = VMul(g[p], R[p]) /\ g[p] \in Vec(S) /\ R[p] \in Vec(S) /\ A[p] \in Vec(S)
                /\ Parts(f, q, n, m, S)[p] = A[p]
    <2>1. g[p] \in Vec(S)
      BY <1>1, <1>4, FoldFacts, Zenon DEF FoldsRight
    <2>2. R[p] \in Vec(S)
      BY <1>3, Zenon DEF Rows
    <2>3. A[p] = VMul(g[p], R[p])
      BY <1>1, <1>3, <1>4, Zenon DEF LayerAdds
    <2>4. A[p] \in Vec(S)
      <3>1. VMul(g[p], R[p]) \in Vec(S)
        BY <2>1, <2>2, VecClosed
      <3> QED
        BY <2>3, <3>1, Zenon
    <2>5. PICK h, o : h = Parted(f, q, p, n, S) /\ o = OnlyAt(T, OwnOf(E, p), n, S)
      OBVIOUS
    <2>6. \A k \in 1..n : o[k] \in Vec(S) /\ h[k] = VMul(o[k], R[p])
      <3>1. TAKE k \in 1..n
      <3>2. DOMAIN E = 1..n
        BY <1>1, <1>2, ShapeParts, Zenon
      <3>3. k \in OwnOf(E, p) <=> E[k].lid = p
        BY <3>2 DEF OwnOf
      <3>4. h[k] = IF q[k] = p THEN f[k] ELSE Zeros(S)
        BY <2>5, Zenon DEF Parted
      <3>5. o[k] = IF k \in OwnOf(E, p) THEN T[k] ELSE Zeros(S)
        BY <2>5, Zenon DEF OnlyAt
      <3>6. VMul(Zeros(S), R[p]) = Zeros(S)
        BY <2>2, ZeroMul
      <3>7. Zeros(S) \in Vec(S)
        BY ZeroVec
      <3>8. CASE q[k] = p
        BY <1>6, <3>3, <3>4, <3>5, <3>8, Zenon
      <3>9. CASE q[k] # p
        BY <1>6, <3>3, <3>4, <3>5, <3>6, <3>7, <3>9, Zenon
      <3> QED
        BY <3>8, <3>9
    <2>7. PSum(h, S, n) = VMul(PSum(o, S, n), R[p])
      <3>1. AllTimes(o, h, R[p], S, n)
        BY <2>2, <2>6, Zenon DEF AllTimes
      <3> QED
        BY <3>1, PSumTimesOf
    <2>8. PSum(o, S, n) = g[p]
      <3>1. p \in 1..Len(a.L)
        BY <1>1
      <3>2. LayerTotal(a, p)
        BY <3>1, LayerTotalFacts, Zenon
      <3> QED
        BY <1>1, <1>2, <1>4, <2>5, <3>2, Zenon DEF LayerTotal
    <2>9. Parts(f, q, n, m, S)[p] = PSum(h, S, n)
      BY <2>5, Zenon DEF Parts, Part
    <2> QED
      BY <2>1, <2>2, <2>3, <2>4, <2>7, <2>8, <2>9, Zenon
  <1>11. PSum(Parts(f, q, n, m, S), S, m) = PSum(A, S, m)
    <2>1. \A p \in 1..m : Parts(f, q, n, m, S)[p] = A[p]
      BY <1>10, Zenon
    <2> QED
      BY <2>1, PSumSame
  <1>12. Hidden(a) = PSum(f, S, n)
    BY <1>1, <1>2, <1>3, <1>4, Zenon DEF Hidden, Total
  <1> QED
    BY <1>1, <1>3, <1>4, <1>9, <1>10, <1>11, <1>12, Zenon DEF ByLayer

\* A constant as it is used: missing, it is zero.
Stands(scale, u, S) == scale = u \/ (scale = <<>> /\ u = Zeros(S))

\* The constants of an operand.
LEMMA ConstStands ==
    ASSUME NEW a, ShapeOK(a), NEW math \in BOOLEAN
    PROVE  Stands(ConstOf(math, a), ConstOf(TRUE, a), a.slots)
  BY Zenon DEF Stands, ConstOf

\* Edges times a constant: what they add, times it.
ScaledAdds(b, scale, off, u, Q, S) ==
    Total(ScaledEdges(b.E, scale, off), Q, S) = VMul(Hidden(b), u)

\* Under masks that moved with the layers.
LEMMA ScaledTotal ==
    ASSUME NEW b, ShapeOK(b), NEW S \in Nat, S = b.slots, NEW off \in Nat, NEW n \in Nat, Len(b.L) + off <= n,
           NEW u \in Vec(S), NEW scale, ConstOK(scale, S), Stands(scale, u, S), NEW Q,
           \A i \in 1..Len(b.L) : Q[i + off] = InvMasks(b)[i]
    PROVE  ScaledAdds(b, scale, off, u, Q, S)
  <1>1. PICK m \in Nat : m = Len(b.L)
    BY ShapeParts, Zenon
  <1>2. PICK E \in Seq(EdgeSet(m, S)) : E = b.E
    BY <1>1, ShapeParts, Zenon
  <1>3. PICK R : R = InvMasks(b) /\ Rows(R, m, S)
    BY <1>1, InvMasksFacts, Zenon DEF InvMasksRight
  <1>4. PICK F : F = ScaledEdges(E, scale, off)
    OBVIOUS
  <1>5. ScaledRight(E, scale, off, n, S)
    <2>1. EdgesOK(E, m, S)
      BY <1>1, <1>2, ShapeParts, Zenon
    <2> QED
      BY <1>1, <2>1, ScaledFacts
  <1>6. Hidden(b) = Total(E, R, S) /\ Hidden(b) \in Vec(S)
    BY <1>2, <1>3, DecFacts, Zenon DEF Hidden, DecRight
  <1>7. CASE NonZero(scale)
    <2>1. scale = u
      <3>1. ~NonZero(<<>>)
        BY DEF NonZero
      <3> QED
        BY <1>7, <3>1, Zenon DEF Stands
    <2>2. /\ Len(F) = Len(E) /\ F \in Seq(EdgeSet(n, S))
          /\ \A k \in 1..Len(F) : F[k].lid = E[k].lid + off
          /\ \A k \in 1..Len(E) : F[k].idx = E[k].idx /\ F[k].ch = E[k].ch /\ F[k].w = VMul(E[k].w, u)
      BY <1>4, <1>5, <1>7, <2>1, Zenon DEF ScaledRight, EdgesOK
    <2>3. ASSUME NEW k \in 1..Len(E) PROVE Contr(F[k], Q) = VMul(Contr(E[k], R), u)
      <3>1. PICK e \in EdgeSet(m, S) : e = E[k] /\ e.lid \in 1..m
        BY <1>1, <1>2, ShapeParts, Zenon
      <3>2. k \in 1..Len(F)
        BY <2>2
      <3>3. PICK f \in EdgeSet(n, S) : f = F[k]
        BY <2>2, <3>2
      <3>4. f.idx = e.idx /\ f.ch = e.ch /\ f.w = VMul(e.w, u) /\ f.lid = e.lid + off
        BY <2>2, <3>1, <3>2, <3>3, Zenon
      <3>5. Q[f.lid] = R[e.lid]
        BY <1>1, <1>3, <3>1, <3>4, Zenon
      <3>6. R[e.lid] \in Vec(S)
        BY <1>3, <3>1, Zenon DEF Rows
      <3>7. Contr(f, Q) = VMul(Contr(e, R), u)
        BY <3>4, <3>5, <3>6, ContrTimes
      <3> QED
        BY <3>1, <3>3, <3>7, Zenon
    <2>4. TimesAdds(E, F, R, Q, u)
      BY <2>2, <2>3, Zenon DEF TimesAdds
    <2>5. Total(F, Q, S) = VMul(Total(E, R, S), u)
      BY <1>3, <2>4, TotalTimes
    <2> QED
      BY <1>2, <1>4, <1>6, <2>5, Zenon DEF ScaledAdds
  <1>8. CASE ~NonZero(scale)
    <2>1. F = <<>>
      BY <1>4, <1>5, <1>8, Zenon DEF ScaledRight
    <2>2. u = Zeros(S)
      <3>1. CASE scale = u
        BY <1>8, <3>1, ZeroIs, Zenon
      <3> QED
        BY <3>1, Zenon DEF Stands
    <2>3. Total(F, Q, S) = Zeros(S)
      BY <2>1, TotalNone, Zenon
    <2>4. VMul(Hidden(b), u) = VMul(u, Hidden(b)) /\ VMul(Zeros(S), Hidden(b)) = Zeros(S)
      BY <1>6, MulComm, ZeroMul
    <2> QED
      BY <1>2, <1>4, <2>2, <2>3, <2>4, Zenon DEF ScaledAdds
  <1> QED
    BY <1>7, <1>8

\* A product of sums, in the order its parts are made.
LEMMA ProductOut ==
    ASSUME NEW S \in Nat, NEW u \in Vec(S), NEW w \in Vec(S), NEW h \in Vec(S), NEW g \in Vec(S)
    PROVE  VMul(VAdd(u, h), VAdd(w, g)) =
           VAdd(VMul(u, w), VAdd(VMul(h, g), VAdd(VMul(g, u), VMul(h, w))))
  <1>1. PICK x \in Vec(S) : x = VAdd(u, h)
    BY VecClosed
  <1>2. VMul(x, VAdd(w, g)) = VAdd(VMul(x, w), VMul(x, g))
    BY MulAdd
  <1>3. VMul(VAdd(u, h), w) = VAdd(VMul(u, w), VMul(h, w))
    BY AddMul
  <1>4. VMul(VAdd(u, h), g) = VAdd(VMul(u, g), VMul(h, g))
    BY AddMul
  <1>5. PICK uw \in Vec(S), hw \in Vec(S), ug \in Vec(S), hg \in Vec(S) :
            uw = VMul(u, w) /\ hw = VMul(h, w) /\ ug = VMul(u, g) /\ hg = VMul(h, g)
    <2>1. VMul(u, w) \in Vec(S) /\ VMul(h, w) \in Vec(S) /\ VMul(u, g) \in Vec(S) /\ VMul(h, g) \in Vec(S)
      BY VecClosed
    <2> QED
      BY <2>1, Zenon
  <1>6. VMul(g, u) = ug
    BY <1>5, MulComm
  <1>7. VMul(x, VAdd(w, g)) = VAdd(VAdd(uw, hw), VAdd(ug, hg))
    BY <1>1, <1>2, <1>3, <1>4, <1>5, Zenon
  <1>8. VAdd(ug, hg) = VAdd(hg, ug)
    BY AddComm
  <1>9. PICK y \in Vec(S) : y = VAdd(hg, ug)
    BY VecClosed
  <1>10. VAdd(VAdd(uw, hw), y) = VAdd(uw, VAdd(hw, y))
    BY AddAssoc
  <1>11. VAdd(hw, y) = VAdd(y, hw)
    BY AddComm
  <1>12. VAdd(VAdd(hg, ug), hw) = VAdd(hg, VAdd(ug, hw))
    BY AddAssoc
  <1> QED
    BY <1>1, <1>5, <1>6, <1>7, <1>8, <1>9, <1>10, <1>11, <1>12, Zenon

\* The mask of a product layer is the product of those of its pair.
ProductMask(r, L, pairs, n) ==
    \A k \in 1..n : InvMasks(r)[Len(L) + k] = VMul(InvMasks(r)[pairs[k][1]], InvMasks(r)[pairs[k][2]])

\* In whichever order make_prod_layer took the two.
LEMMA ProductMaskFacts ==
    ASSUME NEW r, ShapeOK(r), NEW L, NEW S \in Nat, S = r.slots, NEW n \in Nat, NEW pairs,
           \A k \in 1..n : pairs[k][1] \in 1..Len(L) /\ pairs[k][2] \in 1..Len(L),
           ProductLayers(L, pairs, n, S), r.L = L \o NewLayers(L, pairs, n)
    PROVE  ProductMask(r, L, pairs, n)
  <1>1. PICK N \in Nat : N = Len(L) /\ Len(r.L) = N + n
    BY Zenon DEF ProductLayers
  <1>2. PICK R : R = InvMasks(r) /\ Rows(R, N + n, S)
    BY <1>1, InvMasksFacts, Zenon DEF InvMasksRight
  <1>3. ASSUME NEW k \in 1..n PROVE R[N + k] = VMul(R[pairs[k][1]], R[pairs[k][2]])
    <2>1. PICK p, q : p = pairs[k][1] /\ q = pairs[k][2]
      OBVIOUS
    <2>2. p \in 1..(N + n) /\ q \in 1..(N + n) /\ N + k \in 1..(N + n)
      BY <1>1, <2>1
    <2>3. PICK pa, pb : pa = r.L[N + k].pa /\ pb = r.L[N + k].pb
      OBVIOUS
    <2>4. IsProd(r.L[N + k]) /\ pa \in {p, q} /\ pb \in {p, q} /\ p \in {pa, pb} /\ q \in {pa, pb}
      BY <1>1, <2>1, <2>3, Zenon DEF ProductLayers
    <2>5. R[N + k] = VMul(R[pa], R[pb])
      BY <1>1, <1>2, <2>2, <2>3, <2>4, ProdInv, Zenon
    <2>6. R[p] \in Vec(S) /\ R[q] \in Vec(S)
      BY <1>2, <2>2, Zenon DEF Rows
    <2>7. VMul(R[p], R[q]) = VMul(R[q], R[p])
      BY <2>6, MulComm
    <2>8. (pa = p /\ pb = q) \/ (pa = q /\ pb = p)
      BY <2>4, Zenon
    <2> QED
      BY <2>1, <2>5, <2>7, <2>8, Zenon
  <1> QED
    BY <1>1, <1>2, <1>3, Zenon DEF ProductMask

\* An operand's layers below the products keep their masks.
LEMMA MasksBelow ==
    ASSUME NEW b, NEW r, ShapeOK(b), ShapeOK(r), b.slots = r.slots, NEW L, NEW D, D = 1..Len(b.L), NEW f,
           Embeds(b.L, L, D, f), Len(L) \in Nat, Len(r.L) \in Nat, Len(L) <= Len(r.L),
           \A i \in 1..Len(L) : r.L[i] = L[i]
    PROVE  MasksCarried(b, r, D, f)
  <1>1. \A i \in D : f[i] \in 1..Len(L) /\ f[i] \in 1..Len(r.L)
    <2>1. \A i \in D : f[i] \in 1..Len(L)
      BY Zenon DEF Embeds
    <2>2. \A i \in 1..Len(L) : i \in 1..Len(r.L)
      OBVIOUS
    <2> QED
      BY <2>1, <2>2, Zenon
  <1>2. \A i \in D : r.L[f[i]] = L[f[i]]
    BY <1>1, Zenon
  <1>3. Embeds(b.L, r.L, D, f)
    BY <1>1, <1>2, Zenon DEF Embeds
  <1>4. Follows(b, r, D, f)
    BY <1>3, EmbedsFollow, Zenon
  <1>5. D \in SUBSET (1..Len(b.L))
    BY Zenon
  <1> QED
    BY <1>4, <1>5, MasksFollow, Zenon

\* What a product hides: the targets over the new masks, and the terms of the
\* constants.
ProductHides(r, L, targets, n, X) ==
    Hidden(r) = VAdd(PSum(CatAdds(targets, InvMasks(r), Len(L), n), r.slots, n),
                     Total(X, InvMasks(r), r.slots))

\* Merged or not.
LEMMA ProductHidesFacts ==
    ASSUME NEW r, ShapeOK(r), NEW L, NEW S \in Nat, S = r.slots, NEW n \in Nat, NEW N \in Nat, N = Len(L),
           Len(r.L) = N + n, NEW t \in Nat, NEW targets, \A k \in 1..n : targets[k] \in Vec(S),
           NEW E, E \in {ProductEdges(L, targets, t, n), Merge(ProductEdges(L, targets, t, n))},
           NewEdges(E, N, n, N + n, S), NewEdges(ProductEdges(L, targets, t, n), N, n, N + n, S),
           NEW X \in Seq(EdgeSet(N + n, S)), r.E = E \o X
    PROVE  ProductHides(r, L, targets, n, X)
  <1>1. PICK R : R = InvMasks(r) /\ Rows(R, N + n, S)
    BY InvMasksFacts, Zenon DEF InvMasksRight
  <1>2. PICK F : F = ProductEdges(L, targets, t, n)
    OBVIOUS
  <1>3. E \in Seq(EdgeSet(N + n, S)) /\ F \in Seq(EdgeSet(N + n, S))
    BY <1>2, Zenon DEF NewEdges, EdgesOK
  <1>4. Total(E \o X, R, S) = VAdd(Total(E, R, S), Total(X, R, S))
    BY <1>1, <1>3, TotalConcat
  <1>5. N + n \in Nat
    OBVIOUS
  <1>6. Total(Merge(F), R, S) = Total(F, R, S)
    BY <1>1, <1>3, <1>5, MergeTotal
  <1>7. Total(E, R, S) = Total(F, R, S)
    BY <1>2, <1>6, Zenon
  <1>8. CatTotalIs(N, targets, t, n, R, S)
    BY <1>1, CatTotal
  <1>9. Total(F, R, S) = PSum(CatAdds(targets, R, N, n), S, n)
    BY <1>2, <1>8, Zenon DEF CatTotalIs, ProductEdges
  <1> QED
    BY <1>1, <1>4, <1>7, <1>9, Zenon DEF ProductHides, Hidden

\* r has, past the layers L, n layers of product, their edges E, and the edges X besides.
ProductParts(r, L, S, n, N, t, targets, E, X) ==
    /\ ShapeOK(r) /\ S \in Nat /\ S = r.slots /\ n \in Nat /\ N \in Nat /\ N = Len(L) /\ Len(r.L) = N + n
    /\ t \in Nat /\ \A k \in 1..n : targets[k] \in Vec(S)
    /\ E \in {ProductEdges(L, targets, t, n), Merge(ProductEdges(L, targets, t, n))}
    /\ NewEdges(E, N, n, N + n, S) /\ NewEdges(ProductEdges(L, targets, t, n), N, n, N + n, S)
    /\ X \in Seq(EdgeSet(N + n, S)) /\ r.E = E \o X

\* What such a ciphertext hides, from that predicate.
LEMMA ProductHidesOf ==
    ASSUME NEW r, NEW L, NEW S, NEW n, NEW N, NEW t, NEW targets, NEW E, NEW X,
           ProductParts(r, L, S, n, N, t, targets, E, X)
    PROVE  ProductHides(r, L, targets, n, X)
  <1>1. ShapeOK(r) /\ S \in Nat /\ S = r.slots /\ n \in Nat /\ N \in Nat /\ N = Len(L) /\ Len(r.L) = N + n
    BY Zenon DEF ProductParts
  <1>2. t \in Nat /\ \A k \in 1..n : targets[k] \in Vec(S)
    BY Zenon DEF ProductParts
  <1>3. /\ E \in {ProductEdges(L, targets, t, n), Merge(ProductEdges(L, targets, t, n))}
        /\ NewEdges(E, N, n, N + n, S) /\ NewEdges(ProductEdges(L, targets, t, n), N, n, N + n, S)
        /\ X \in Seq(EdgeSet(N + n, S)) /\ r.E = E \o X
    BY Zenon DEF ProductParts
  <1> QED
    BY <1>1, <1>2, <1>3, ProductHidesFacts

\* The constant of a product.
MulConstant(math, a, b, r) == ConstOf(TRUE, r) = VMul(ConstOf(TRUE, a), ConstOf(TRUE, b))

\* Missing in both operands it stays missing, which is zero.
LEMMA MulConstantFacts ==
    ASSUME NEW a, NEW b, ShapeOK(a), ShapeOK(b), a.slots = b.slots, NEW math \in BOOLEAN,
           Len(ConstOf(math, a)) = Len(ConstOf(math, b)), NEW r, r.slots = a.slots,
           r.c0 = VMul(ConstOf(math, a), ConstOf(math, b))
    PROVE  MulConstant(math, a, b, r)
  <1>1. a.slots \in Nat /\ a.slots # 0
    BY ShapeParts, Zenon
  <1>2. PICK S \in Nat : S = a.slots /\ S # 0
    BY <1>1, Zenon
  <1>3. ConstOK(a.c0, S) /\ ConstOK(b.c0, S)
    BY <1>2, ShapeParts, Zenon
  <1>4. Zeros(S) \in Vec(S)
    BY ZeroVec, Zenon
  <1>5. \A x \in Vec(S) : x # <<>>
    BY <1>2, VecFacts, Zenon
  <1>6. ConstOf(TRUE, a) \in Vec(S) /\ ConstOf(TRUE, b) \in Vec(S)
    BY <1>2, DecFacts, Zenon DEF DecRight
  <1>7. CASE ~math /\ a.c0 = <<>>
    <2>1. b.c0 = <<>>
      BY <1>7, ConstLengths
    <2>2. r.c0 = VMul(<<>>, <<>>)
      BY <1>7, <2>1, Zenon DEF ConstOf
    <2>3. VMul(<<>>, <<>>) = <<>>
      BY DEF VMul
    <2>4. ConstOf(TRUE, r) = Zeros(S) /\ ConstOf(TRUE, a) = Zeros(S)
      BY <1>2, <1>7, <2>2, <2>3, Zenon DEF ConstOf
    <2>5. VMul(Zeros(S), ConstOf(TRUE, b)) = Zeros(S)
      BY <1>6, ZeroMul
    <2> QED
      BY <2>4, <2>5, Zenon DEF MulConstant
  <1>8. CASE math \/ a.c0 # <<>>
    <2>1. math \/ b.c0 # <<>>
      BY <1>8, ConstLengths
    <2>2. ConstOf(math, a) = ConstOf(TRUE, a) /\ ConstOf(math, b) = ConstOf(TRUE, b)
      BY <1>8, <2>1, Zenon DEF ConstOf
    <2>3. VMul(ConstOf(TRUE, a), ConstOf(TRUE, b)) \in Vec(S)
      BY <1>6, VecClosed
    <2>4. r.c0 \in Vec(S)
      BY <2>2, <2>3, Zenon
    <2>5. ConstOf(TRUE, r) = r.c0
      BY <1>5, <2>4, Zenon DEF ConstOf
    <2> QED
      BY <2>2, <2>5, Zenon DEF MulConstant
  <1> QED
    BY <1>7, <1>8, Zenon

\* The masks of the operands' layers, below the products.
MasksJoined(a, b, r) ==
    /\ \A i \in 1..Len(a.L) : InvMasks(r)[i] = InvMasks(a)[i]
    /\ \A j \in 1..Len(b.L) : InvMasks(r)[Len(a.L) + j] = InvMasks(b)[j]

\* They are the operands'.
LEMMA MasksJoinedFacts ==
    ASSUME NEW a, NEW b, NEW r, ShapeOK(a), ShapeOK(b), ShapeOK(r), a.slots = r.slots, b.slots = r.slots,
           NEW J, J = JoinLayers(a.L, b.L), Len(r.L) \in Nat, Len(J) <= Len(r.L),
           \A i \in 1..Len(J) : r.L[i] = J[i]
    PROVE  MasksJoined(a, b, r)
  <1>1. PICK S : S = a.slots
    OBVIOUS
  <1>2. LayersOK(a.L, S) /\ LayersOK(b.L, S)
    BY <1>1, ShapeParts, Zenon
  <1>3. PICK na, nb : na = Len(a.L) /\ nb = Len(b.L)
    OBVIOUS
  <1>4. JoinedLayers(a.L, b.L, S)
    BY <1>2, JoinLayersFacts, Zenon
  <1>5. Embeds(a.L, J, 1..na, IdOn(na)) /\ Embeds(b.L, J, 1..nb, ShiftOn(nb, na)) /\ Len(J) = na + nb
    BY <1>3, <1>4, Zenon DEF JoinedLayers
  <1>6. Len(J) \in Nat
    <2>1. na \in Nat /\ nb \in Nat
      BY <1>3, <1>4, Zenon DEF JoinedLayers
    <2> QED
      BY <1>5, <2>1, PlusNat, Zenon
  <1>7. MasksCarried(a, r, 1..na, IdOn(na))
    BY <1>3, <1>5, <1>6, MasksBelow, Zenon
  <1>8. MasksCarried(b, r, 1..nb, ShiftOn(nb, na))
    BY <1>3, <1>5, <1>6, MasksBelow, Zenon
  <1>9. ASSUME NEW i \in 1..na PROVE InvMasks(r)[i] = InvMasks(a)[i]
    <2>1. IdOn(na)[i] = i
      BY Zenon DEF IdOn
    <2>2. InvMasks(r)[IdOn(na)[i]] = InvMasks(a)[i]
      BY <1>7, Zenon DEF MasksCarried
    <2> QED
      BY <2>1, <2>2, Zenon
  <1>10. ASSUME NEW i \in 1..nb PROVE InvMasks(r)[na + i] = InvMasks(b)[i]
    <2>1. ShiftOn(nb, na)[i] = na + i
      BY Zenon DEF ShiftOn
    <2>2. InvMasks(r)[ShiftOn(nb, na)[i]] = InvMasks(b)[i]
      BY <1>8, Zenon DEF MasksCarried
    <2> QED
      BY <2>1, <2>2, Zenon
  <1> QED
    BY <1>3, <1>9, <1>10, Zenon DEF MasksJoined

\* The layers of r begin with those of a and b.
Leading(a, b, r, J) ==
    /\ ShapeOK(a) /\ ShapeOK(b) /\ ShapeOK(r) /\ a.slots = r.slots /\ b.slots = r.slots
    /\ J = JoinLayers(a.L, b.L) /\ Len(r.L) \in Nat /\ Len(J) <= Len(r.L)
    /\ \A i \in 1..Len(J) : r.L[i] = J[i]

\* The masks of such a ciphertext, from that predicate.
LEMMA MasksJoinedOf ==
    ASSUME NEW a, NEW b, NEW r, NEW J, Leading(a, b, r, J)
    PROVE  MasksJoined(a, b, r)
  <1>1. /\ ShapeOK(a) /\ ShapeOK(b) /\ ShapeOK(r) /\ a.slots = r.slots /\ b.slots = r.slots
        /\ J = JoinLayers(a.L, b.L) /\ Len(r.L) \in Nat /\ Len(J) <= Len(r.L)
    BY Zenon DEF Leading
  <1>2. \A i \in 1..Len(J) : r.L[i] = J[i]
    BY Zenon DEF Leading
  <1> QED
    BY <1>1, <1>2, MasksJoinedFacts

\* The terms of the constants with the other operand's edges.
CrossAdds(a, b, x, y, R) ==
    Total(CrossTerms(a, b, x, y), R, a.slots) =
    VAdd(VMul(Hidden(b), ConstOf(TRUE, a)), VMul(Hidden(a), ConstOf(TRUE, b)))

\* A sum is at least its parts.
LEMMA PlusBounds ==
    ASSUME NEW p \in Nat, NEW q \in Nat
    PROVE  p + q \in Nat /\ q + p <= p + q /\ p + 0 <= p + q
  OBVIOUS

\* Both ways.
LEMMA CrossTotal ==
    ASSUME NEW a, NEW b, Good(a), Good(b), a.slots = b.slots, NEW math \in BOOLEAN, NEW x, NEW y,
           x = ConstOf(math, a), y = ConstOf(math, b), NEW r, MasksJoined(a, b, r),
           NEW N, N = Len(a.L) + Len(b.L), Rows(InvMasks(r), N, a.slots)
    PROVE  CrossAdds(a, b, x, y, InvMasks(r))
  <1>1. ShapeOK(a) /\ ShapeOK(b)
    BY Zenon DEF Good
  <1>2. PICK S \in Nat : S = a.slots
    BY <1>1, ShapeParts, Zenon
  <1>3. PICK na \in Nat, nb \in Nat : na = Len(a.L) /\ nb = Len(b.L)
    BY <1>1, ShapeParts, Zenon
  <1>4. PICK u \in Vec(S), w \in Vec(S) : u = ConstOf(TRUE, a) /\ w = ConstOf(TRUE, b)
    BY <1>1, <1>2, DecFacts, Zenon DEF DecRight
  <1>5. ConstOK(x, S) /\ ConstOK(y, S)
    BY <1>1, <1>2, ConstOfOK, Zenon
  <1>6. Stands(x, u, S) /\ Stands(y, w, S)
    BY <1>1, <1>2, <1>4, ConstStands, Zenon
  <1>7. CrossRight(a, b, x, y)
    BY <1>2, <1>5, CrossFacts, Zenon
  <1>8. PICK F, H : F = ScaledEdges(b.E, x, na) /\ H = ScaledEdges(a.E, y, 0)
    OBVIOUS
  <1>9. /\ CrossTerms(a, b, x, y) = F \o H
        /\ F \in Seq(EdgeSet(N, S)) /\ H \in Seq(EdgeSet(N, S))
    BY <1>2, <1>3, <1>7, <1>8, Zenon DEF CrossRight, ScaledRight, EdgesOK
  <1>10. PICK R : R = InvMasks(r) /\ Rows(R, N, S)
    BY <1>2, Zenon
  <1>11. Total(F \o H, R, S) = VAdd(Total(F, R, S), Total(H, R, S))
    <2>1. Joinable(F, H, R, N, S)
      BY <1>9, <1>10, Zenon DEF Joinable
    <2> QED
      <3>1. Joined(F, H, R, N, S)
        BY <2>1, TotalConcatIs, Zenon
      <3> QED
        BY <3>1, Zenon DEF Joined
  <1>12. ScaledAdds(b, x, na, u, R, S)
    <2>1. \A i \in 1..nb : R[i + na] = InvMasks(b)[i]
      <3>1. TAKE i \in 1..nb
      <3>2. i + na = na + i
        OBVIOUS
      <3> QED
        BY <1>3, <1>10, <3>2, Zenon DEF MasksJoined
    <2>2. N \in Nat /\ nb + na <= N
      <3>1. N = na + nb /\ na \in Nat /\ nb \in Nat
        BY <1>3, Zenon
      <3> QED
        BY <3>1, PlusBounds, Zenon
    <2> QED
      BY <1>1, <1>2, <1>3, <1>5, <1>6, <2>1, <2>2, ScaledTotal
  <1>13. ScaledAdds(a, y, 0, w, R, S)
    <2>1. \A i \in 1..na : R[i + 0] = InvMasks(a)[i]
      <3>1. TAKE i \in 1..na
      <3>2. i + 0 = i
        OBVIOUS
      <3> QED
        BY <1>3, <1>10, <3>2, Zenon DEF MasksJoined
    <2>2. N \in Nat /\ na + 0 <= N
      <3>1. N = na + nb /\ na \in Nat /\ nb \in Nat
        BY <1>3, Zenon
      <3> QED
        BY <3>1, PlusBounds, Zenon
    <2> QED
      BY <1>1, <1>2, <1>3, <1>5, <1>6, <2>1, <2>2, ScaledTotal
  <1> QED
    BY <1>2, <1>4, <1>8, <1>9, <1>10, <1>11, <1>12, <1>13, Zenon DEF CrossAdds, ScaledAdds

\* The targets over the masks of their products are the products of what the
\* layers add.
PairsAdd(a, b, r) ==
    PSum(CatAdds(MulTargets(a, b), InvMasks(r), Len(a.L) + Len(b.L), Len(a.L) * Len(b.L)), a.slots,
         Len(a.L) * Len(b.L)) = VMul(Hidden(a), Hidden(b))

\* Pair by pair.
LEMMA PairsAddFacts ==
    ASSUME NEW a, NEW b, ShapeOK(a), ShapeOK(b), a.slots = b.slots, NEW r, MasksJoined(a, b, r),
           NEW J, Len(J) = Len(a.L) + Len(b.L),
           ProductMask(r, J, MulPairs(a, b), Len(a.L) * Len(b.L))
    PROVE  PairsAdd(a, b, r)
  <1>1. PICK S \in Nat : S = a.slots
    BY ShapeParts, Zenon
  <1>2. PICK na \in Nat, nb \in Nat : na = Len(a.L) /\ nb = Len(b.L)
    BY ShapeParts, Zenon
  <1>3. PICK A, C : A = LayerAdds(a) /\ C = LayerAdds(b)
    OBVIOUS
  <1>4. PICK fa, fb, ia, ib : fa = FoldEdges(a) /\ fb = FoldEdges(b) /\ ia = InvMasks(a) /\ ib = InvMasks(b)
    OBVIOUS
  <1>5. /\ \A i \in 1..na : A[i] = VMul(fa[i], ia[i]) /\ A[i] \in Vec(S) /\ fa[i] \in Vec(S) /\ ia[i] \in Vec(S)
        /\ Hidden(a) = PSum(A, S, na)
    BY <1>1, <1>2, <1>3, <1>4, ByLayerFacts, Zenon DEF ByLayer
  <1>6. /\ \A i \in 1..nb : C[i] = VMul(fb[i], ib[i]) /\ C[i] \in Vec(S) /\ fb[i] \in Vec(S) /\ ib[i] \in Vec(S)
        /\ Hidden(b) = PSum(C, S, nb)
    BY <1>1, <1>2, <1>3, <1>4, ByLayerFacts, Zenon DEF ByLayer
  <1>7. PICK n, N : n = na * nb /\ N = na + nb
    OBVIOUS
  <1>8. PairsRight(na, nb)
    BY PairsFacts, Zenon
  <1>9. PICK R, h : R = InvMasks(r) /\ h = CatAdds(MulTargets(a, b), R, N, n)
    OBVIOUS
  <1>10. PICK lp : lp = LP(a, b) /\ lp = LayerPairs(na, nb)
    BY <1>2, Zenon DEF LP
  <1>11. DOMAIN lp = 1..n
    BY <1>7, <1>8, <1>10, Zenon DEF PairsRight
  <1>12. ASSUME NEW k \in 1..n, NEW i \in 1..na, NEW j \in 1..nb, lp[k] = <<i, j>>
         PROVE  h[k] = VMul(A[i], C[j])
    <2>1. lp[k][1] = i /\ lp[k][2] = j
      BY <1>12
    <2>2. MulTargets(a, b)[k] = VMul(fa[i], fb[j])
      BY <1>4, <1>10, <1>11, <2>1, Zenon DEF MulTargets
    <2>3. MulPairs(a, b)[k] = <<i, na + j>>
      BY <1>2, <1>10, <1>11, <2>1, Zenon DEF MulPairs
    <2>4. MulPairs(a, b)[k][1] = i /\ MulPairs(a, b)[k][2] = na + j
      BY <2>3
    <2>5. R[N + k] = VMul(R[i], R[na + j])
      BY <1>2, <1>7, <1>9, <2>4, Zenon DEF ProductMask
    <2>6. R[i] = ia[i] /\ R[na + j] = ib[j]
      BY <1>2, <1>4, <1>9, Zenon DEF MasksJoined
    <2>7. h[k] = VMul(MulTargets(a, b)[k], R[N + k])
      BY <1>9, Zenon DEF CatAdds
    <2>8. h[k] = VMul(VMul(fa[i], fb[j]), VMul(ia[i], ib[j]))
      BY <2>2, <2>5, <2>6, <2>7, Zenon
    <2>9. fa[i] \in Vec(S) /\ fb[j] \in Vec(S) /\ ia[i] \in Vec(S) /\ ib[j] \in Vec(S)
      BY <1>5, <1>6, Zenon
    <2>10. VMul(VMul(fa[i], fb[j]), VMul(ia[i], ib[j])) = VMul(VMul(fa[i], ia[i]), VMul(fb[j], ib[j]))
      BY <2>9, MulSwap
    <2> QED
      BY <1>5, <1>6, <2>8, <2>10, Zenon
  <1>13. PICK F : F = Times(A, C, na, nb)
    OBVIOUS
  <1>14. \A i \in 1..na : A[i] \in Vec(S)
    BY <1>5, Zenon
  <1>15. \A j \in 1..nb : C[j] \in Vec(S)
    BY <1>6, Zenon
  <1>16. /\ Matrix(F, na, nb, S)
         /\ PSum(RowSums(F, S, na, nb), S, na) = VMul(PSum(A, S, na), PSum(C, S, nb))
    BY <1>13, <1>14, <1>15, PSumTimes
  <1>17. Listed(h, F, na, nb)
    <2>1. ASSUME NEW i \in 1..na, NEW j \in 1..nb PROVE h[(i - 1) * nb + j] = F[i][j]
      <3>0. (i - 1) * nb + j \in 1..(na * nb) /\ LayerPairs(na, nb)[(i - 1) * nb + j] = <<i, j>>
        BY <1>8, Zenon DEF PairsRight
      <3>1. PICK k \in 1..n : k = (i - 1) * nb + j /\ lp[k] = <<i, j>>
        BY <1>7, <1>10, <3>0, Zenon
      <3>2. h[k] = VMul(A[i], C[j])
        BY <1>12, <3>1, Zenon
      <3>3. F[i][j] = VMul(A[i], C[j])
        BY <1>13, Zenon DEF Times
      <3> QED
        BY <3>1, <3>2, <3>3, Zenon
    <2> QED
      BY <2>1, Zenon DEF Listed
  <1>18. \A k \in 1..(na * nb) : h[k] \in Vec(S)
    <2>1. TAKE k \in 1..(na * nb)
    <2>2. PICK p : p = lp[k]
      OBVIOUS
    <2>3. p = <<p[1], p[2]>> /\ p[1] \in 1..na /\ p[2] \in 1..nb
      BY <1>8, <1>10, <2>2, Zenon DEF PairsRight
    <2>4. h[k] = VMul(A[p[1]], C[p[2]])
      BY <1>7, <1>12, <2>2, <2>3, Zenon
    <2>5. A[p[1]] \in Vec(S) /\ C[p[2]] \in Vec(S)
      BY <1>14, <1>15, <2>3, Zenon
    <2>6. VMul(A[p[1]], C[p[2]]) \in Vec(S)
      BY <2>5, VecClosed
    <2> QED
      BY <2>4, <2>6, Zenon
  <1>19. PSum(h, S, na * nb) = PSum(RowSums(F, S, na, nb), S, na)
    BY <1>16, <1>17, <1>18, PairSum
  <1> QED
    BY <1>1, <1>2, <1>5, <1>6, <1>7, <1>9, <1>16, <1>19, Zenon DEF PairsAdd

\* ct_mul, before the compactions.
LEMMA MulRawVal ==
    ASSUME NEW a, NEW b, Good(a), Good(b), a.slots = b.slots, a.L # <<>>, b.L # <<>>,
           NEW math \in BOOLEAN, NEW t \in Nat, Len(ConstOf(math, a)) = Len(ConstOf(math, b))
    PROVE  DecValues(MulRaw(math, a, b, t)) = VMul(DecValues(a), DecValues(b))
  <1>1. ShapeOK(a) /\ ShapeOK(b)
    BY Zenon DEF Good
  <1>2. PICK S \in Nat : S = a.slots
    BY <1>1, ShapeParts, Zenon
  <1>3. PICK na \in Nat, nb \in Nat : na = Len(a.L) /\ nb = Len(b.L)
    BY <1>1, ShapeParts, Zenon
  <1>4. PICK n, N, J : n = na * nb /\ N = na + nb /\ J = JoinLayers(a.L, b.L)
    OBVIOUS
  <1>5. PICK x, y, X : x = ConstOf(math, a) /\ y = ConstOf(math, b) /\ X = CrossTerms(a, b, x, y)
    OBVIOUS
  <1>6. PICK r, c : r = MulRaw(math, a, b, t) /\ c = MulBuilt(a, b, t)
    OBVIOUS
  <1>7. r.L = c.L /\ r.E = c.E \o X /\ r.c0 = VMul(x, y) /\ r.slots = S
    BY <1>2, <1>5, <1>6 DEF Cipher, MulRaw
  <1>8. MulMade(math, a, b, t)
    BY MulMadeFacts, Zenon
  <1>9. /\ ProductRight(J, S, MulPairs(a, b), MulTargets(a, b), t, n)
        /\ c.L = J \o NewLayers(J, MulPairs(a, b), n)
        /\ ProductLayers(J, MulPairs(a, b), n, S) /\ ShapeOK(r)
    BY <1>2, <1>3, <1>4, <1>6, <1>8, Zenon DEF MulMade, Good
  <1>10. JoinedLayers(a.L, b.L, S)
    BY <1>1, <1>2, ShapeParts, JoinLayersFacts, Zenon
  <1>11. Len(J) = N /\ n \in Nat /\ N \in Nat /\ N + n \in Nat /\ N <= N + n
    <2>1. Len(J) = N
      BY <1>3, <1>4, <1>10, Zenon DEF JoinedLayers
    <2>2. n \in Nat
      BY <1>3, <1>4, PairsFacts, Zenon DEF PairsRight
    <2>3. N \in Nat
      BY <1>3, <1>4, PlusNat, Zenon
    <2>4. N + n \in Nat /\ N + 0 <= N + n
      BY <2>2, <2>3
    <2> QED
      BY <2>1, <2>2, <2>3, <2>4
  <1>12. Len(r.L) = N + n /\ \A i \in 1..N : r.L[i] = J[i]
    BY <1>7, <1>9, <1>11, Zenon DEF ProductLayers
  <1>13. MasksJoined(a, b, r)
    <2>1. a.slots = r.slots /\ b.slots = r.slots /\ ShapeOK(r)
      BY <1>2, <1>7, <1>9, Zenon
    <2>2. Len(r.L) \in Nat /\ Len(J) <= Len(r.L) /\ \A i \in 1..Len(J) : r.L[i] = J[i]
      BY <1>11, <1>12, Zenon
    <2>3. Leading(a, b, r, J)
      BY <1>1, <1>4, <2>1, <2>2, Zenon DEF Leading
    <2> QED
      BY <2>3, MasksJoinedOf
  <1>14. MulPairsRight(a, b)
    BY <1>1, MulPairsFacts, Zenon
  <1>15. \A k \in 1..n : MulPairs(a, b)[k][1] \in 1..N /\ MulPairs(a, b)[k][2] \in 1..N
    BY <1>3, <1>4, <1>14, Zenon DEF MulPairsRight
  <1>16. ProductMask(r, J, MulPairs(a, b), n)
    BY <1>7, <1>9, <1>11, <1>15, ProductMaskFacts, Zenon
  <1>17. PairsAdd(a, b, r)
    BY <1>1, <1>3, <1>4, <1>11, <1>13, <1>16, PairsAddFacts, Zenon
  <1>18. PICK R : R = InvMasks(r) /\ Rows(R, N, S)
    <2>1. Rows(InvMasks(r), N + n, S)
      BY <1>7, <1>9, <1>12, InvMasksFacts, Zenon DEF InvMasksRight
    <2>2. \A i \in 1..N : i \in 1..(N + n)
      BY <1>11
    <2> QED
      BY <2>1, <2>2, Zenon DEF Rows
  <1>19. CrossAdds(a, b, x, y, R)
    BY <1>2, <1>3, <1>4, <1>5, <1>13, <1>18, CrossTotal, Zenon
  <1>20. X \in Seq(EdgeSet(N + n, S))
    <2>1. ConstOK(x, S) /\ ConstOK(y, S)
      BY <1>1, <1>2, <1>5, ConstOfOK, Zenon
    <2>2. EdgesOK(X, N, S)
      BY <1>2, <1>3, <1>4, <1>5, <2>1, CrossFacts, Zenon DEF CrossRight
    <2>3. EdgesOK(X, N + n, S)
      BY <1>11, <2>2, EdgesWiden, Zenon
    <2> QED
      BY <2>3, Zenon DEF EdgesOK
  <1>21. ProductHides(r, J, MulTargets(a, b), n, X)
    <2>1. \A k \in 1..n : MulTargets(a, b)[k] \in Vec(S)
      BY <1>2, <1>3, <1>4, <1>14, Zenon DEF MulPairsRight
    <2>2. /\ c.E \in {ProductEdges(J, MulTargets(a, b), t, n), Merge(ProductEdges(J, MulTargets(a, b), t, n))}
          /\ NewEdges(c.E, N, n, N + n, S) /\ NewEdges(ProductEdges(J, MulTargets(a, b), t, n), N, n, N + n, S)
      BY <1>2, <1>4, <1>6, <1>9, <1>11, Zenon DEF ProductRight, MulBuilt
    <2> QED
      <3>1. ProductParts(r, J, S, n, N, t, MulTargets(a, b), c.E, X)
        BY <1>7, <1>9, <1>11, <1>12, <1>20, <2>1, <2>2, Zenon DEF ProductParts
      <3> QED
        BY <3>1, ProductHidesOf
  <1>22. PICK u \in Vec(S), w \in Vec(S), h \in Vec(S), g \in Vec(S) :
             /\ u = ConstOf(TRUE, a) /\ w = ConstOf(TRUE, b) /\ h = Hidden(a) /\ g = Hidden(b)
             /\ DecValues(a) = VAdd(u, h) /\ DecValues(b) = VAdd(w, g)
    BY <1>1, <1>2, DecFacts, Zenon DEF DecRight
  <1>23. Hidden(r) = VAdd(VMul(h, g), VAdd(VMul(g, u), VMul(h, w)))
    BY <1>2, <1>3, <1>4, <1>5, <1>7, <1>11, <1>17, <1>18, <1>19, <1>21, <1>22, Zenon
       DEF ProductHides, PairsAdd, CrossAdds
  <1>24. MulConstant(math, a, b, r)
    BY <1>1, <1>2, <1>5, <1>7, MulConstantFacts, Zenon
  <1>25. DecValues(r) = VAdd(VMul(u, w), Hidden(r))
    BY <1>9, <1>22, <1>24, DecFacts, Zenon DEF DecRight, MulConstant
  <1>26. VMul(VAdd(u, h), VAdd(w, g)) = VAdd(VMul(u, w), VAdd(VMul(h, g), VAdd(VMul(g, u), VMul(h, w))))
    <2>1. S \in Nat /\ u \in Vec(S) /\ w \in Vec(S) /\ h \in Vec(S) /\ g \in Vec(S)
      BY <1>2, <1>22, Zenon
    <2> QED
      BY <2>1, ProductOut
  <1> QED
    BY <1>6, <1>22, <1>23, <1>25, <1>26, Zenon

\* Without layers nothing is hidden.
LEMMA BareHides ==
    ASSUME NEW a, ShapeOK(a), a.L = <<>>
    PROVE  Hidden(a) = Zeros(a.slots)
  <1>1. EdgesOK(a.E, Len(a.L), a.slots)
    BY ShapeParts, Zenon
  <1>2. Len(<<>>) = 0
    OBVIOUS
  <1>3. a.E = <<>>
    BY <1>1, <1>2, NoEdges, Zenon
  <1> QED
    BY <1>3, TotalNone, Zenon DEF Hidden

\* The terms of the constants cancel where ct_mul accepts an operand that has
\* no layer.
LEMMA NoCross ==
    ASSUME NEW a, NEW b, Good(a), Good(b), a.slots = b.slots, NEW math \in BOOLEAN, NEW X,
           X = CrossTerms(a, b, ConstOf(math, a), ConstOf(math, b)), X = <<>> \/ Merge(X) = <<>>
    PROVE  VAdd(VMul(Hidden(b), ConstOf(TRUE, a)), VMul(Hidden(a), ConstOf(TRUE, b))) = Zeros(a.slots)
  <1>1. ShapeOK(a) /\ ShapeOK(b)
    BY Zenon DEF Good
  <1>2. PICK S \in Nat : S = a.slots
    BY <1>1, ShapeParts, Zenon
  <1>3. PICK na \in Nat, nb \in Nat : na = Len(a.L) /\ nb = Len(b.L)
    BY <1>1, ShapeParts, Zenon
  <1>4. PICK N, J, r : N = na + nb /\ J = JoinLayers(a.L, b.L) /\ r = JoinOf(a, b, <<>>)
    OBVIOUS
  <1>5. PICK x, y : x = ConstOf(math, a) /\ y = ConstOf(math, b)
    OBVIOUS
  <1>6. r.L = J /\ r.slots = S
    BY <1>2, <1>4 DEF Cipher, JoinOf
  <1>7. ShapeOK(r)
    BY <1>4, JoinHidden, Zenon DEF ConstOK
  <1>8. JoinedLayers(a.L, b.L, S)
    BY <1>1, <1>2, ShapeParts, JoinLayersFacts, Zenon
  <1>9. Len(J) = N
    BY <1>3, <1>4, <1>8, Zenon DEF JoinedLayers
  <1>10. N \in Nat /\ N <= N
    <2>1. N \in Nat
      BY <1>3, <1>4, PlusNat, Zenon
    <2> QED
      BY <2>1
  <1>11. MasksJoined(a, b, r)
    BY <1>1, <1>2, <1>4, <1>6, <1>7, <1>9, <1>10, MasksJoinedFacts, Zenon
  <1>12. PICK R : R = InvMasks(r) /\ Rows(R, N, S)
    BY <1>6, <1>7, <1>9, InvMasksFacts, Zenon DEF InvMasksRight
  <1>13. CrossAdds(a, b, x, y, R)
    BY <1>2, <1>3, <1>4, <1>5, <1>11, <1>12, CrossTotal, Zenon
  <1>14. X \in Seq(EdgeSet(N, S))
    <2>1. ConstOK(x, S) /\ ConstOK(y, S)
      BY <1>1, <1>2, <1>5, ConstOfOK, Zenon
    <2> QED
      BY <1>2, <1>3, <1>4, <1>5, <2>1, CrossFacts, Zenon DEF CrossRight, EdgesOK
  <1>15. Total(X, R, S) = Zeros(S)
    <2>1. Total(Merge(X), R, S) = Total(X, R, S)
      BY <1>10, <1>12, <1>14, MergeTotal
    <2> QED
      BY <2>1, TotalNone, Zenon
  <1> QED
    BY <1>2, <1>5, <1>13, <1>15, Zenon DEF CrossAdds

\* ct_mul with an operand that has no layer.
LEMMA MulBareVal ==
    ASSUME NEW a, NEW b, Good(a), Good(b), a.slots = b.slots, a.L = <<>> \/ b.L = <<>>,
           NEW math \in BOOLEAN, NEW t \in Nat, ~Threw(CtMul(math, a, b, t))
    PROVE  DecValues(CtMul(math, a, b, t)) = VMul(DecValues(a), DecValues(b))
  <1>1. ShapeOK(a) /\ ShapeOK(b)
    BY Zenon DEF Good
  <1>2. PICK S \in Nat : S = a.slots
    BY <1>1, ShapeParts, Zenon
  <1>3. PICK x, y, X : x = ConstOf(math, a) /\ y = ConstOf(math, b) /\ X = CrossTerms(a, b, x, y)
    OBVIOUS
  <1>4. PICK r : r = CtMul(math, a, b, t)
    OBVIOUS
  <1>5. r = Bare(VMul(x, y), S) /\ ConstOK(VMul(x, y), S) /\ Len(x) = Len(y) /\ (X = <<>> \/ Merge(X) = <<>>)
    <2>1. MulBare(math, a, b, t)
      BY MulBareFacts, Zenon
    <2> QED
      BY <1>2, <1>3, <1>4, <2>1, Zenon DEF MulBare
  <1>6. S \in Slots
    BY <1>1, <1>2, ShapeParts, Zenon
  <1>7. r.c0 = VMul(x, y) /\ r.slots = S
    BY <1>5, <1>6, BareGood, Zenon
  <1>8. DecValues(r) = ConstOf(TRUE, r)
    BY <1>5, <1>6, BareVal, Zenon
  <1>9. MulConstant(math, a, b, r)
    BY <1>1, <1>2, <1>3, <1>5, <1>7, MulConstantFacts, Zenon
  <1>10. PICK u \in Vec(S), w \in Vec(S), h \in Vec(S), g \in Vec(S) :
             /\ u = ConstOf(TRUE, a) /\ w = ConstOf(TRUE, b) /\ h = Hidden(a) /\ g = Hidden(b)
             /\ DecValues(a) = VAdd(u, h) /\ DecValues(b) = VAdd(w, g)
    BY <1>1, <1>2, DecFacts, Zenon DEF DecRight
  <1>11. VAdd(VMul(g, u), VMul(h, w)) = Zeros(S)
    BY <1>2, <1>3, <1>5, <1>10, NoCross, Zenon
  <1>12. S \in Nat /\ u \in Vec(S) /\ w \in Vec(S) /\ h \in Vec(S) /\ g \in Vec(S)
    BY <1>2, <1>10, Zenon
  <1>13. VMul(VAdd(u, h), VAdd(w, g)) = VAdd(VMul(u, w), VAdd(VMul(h, g), VAdd(VMul(g, u), VMul(h, w))))
    BY <1>12, ProductOut
  <1>14. VMul(h, g) = Zeros(S)
    <2>1. h = Zeros(S) \/ g = Zeros(S)
      BY <1>1, <1>2, <1>10, BareHides, Zenon
    <2>2. VMul(h, g) = VMul(g, h)
      BY <1>12, MulComm
    <2>3. VMul(Zeros(S), g) = Zeros(S) /\ VMul(Zeros(S), h) = Zeros(S)
      BY <1>12, ZeroMul
    <2> QED
      BY <2>1, <2>2, <2>3, Zenon
  <1>15. VAdd(Zeros(S), Zeros(S)) = Zeros(S)
    BY ZeroVec, AddZero
  <1>16. VAdd(VMul(u, w), Zeros(S)) = VMul(u, w)
    <2>1. VMul(u, w) \in Vec(S)
      BY <1>12, VecClosed
    <2> QED
      BY <2>1, AddZero, Zenon
  <1> QED
    BY <1>4, <1>8, <1>9, <1>10, <1>11, <1>13, <1>14, <1>15, <1>16, Zenon DEF MulConstant

\* The compactions after an operation keep its value.
LEMMA CompactedVal ==
    ASSUME NEW r, ShapeOK(r)
    PROVE  DecValues(CompactLayers(GuardBudget(r))) = DecValues(r)
  <1>1. PICK d : d = GuardBudget(r)
    OBVIOUS
  <1>2. SameVal(r, d) /\ ShapeOK(d)
    BY <1>1, EdgesCompactedVal, Zenon DEF SameVal
  <1>3. SameVal(d, CompactLayers(d))
    BY <1>2, LayersCompactedVal, Zenon
  <1> QED
    BY <1>1, <1>2, <1>3, Zenon DEF SameVal

\* ct_mul: the product of the values.
LEMMA MulVal ==
    ASSUME NEW a, NEW b, Good(a), Good(b), NEW math \in BOOLEAN, NEW t \in Nat,
           ~Threw(CtMul(math, a, b, t))
    PROVE  DecValues(CtMul(math, a, b, t)) = VMul(DecValues(a), DecValues(b))
  <1>1. a.slots = b.slots
    BY MulFacts, Zenon DEF MulDone
  <1>2. CASE a.L = <<>> \/ b.L = <<>>
    BY <1>1, <1>2, MulBareVal, Zenon
  <1>3. CASE a.L # <<>> /\ b.L # <<>>
    <2>1. Len(ConstOf(math, a)) = Len(ConstOf(math, b))
      <3>1. Len(ConstOf(math, a)) # Len(ConstOf(math, b)) => CtMul(math, a, b, t) = NoCipher
        BY MulForm, Zenon
      <3>2. Threw(NoCipher)
        BY DEF Threw, NoCipher
      <3> QED
        BY <3>1, <3>2, Zenon
    <2>2. PICK r : r = MulRaw(math, a, b, t)
      OBVIOUS
    <2>3. Good(r) /\ CtMul(math, a, b, t) = CompactLayers(GuardBudget(r))
      BY <1>1, <1>3, <2>1, <2>2, MulMadeFacts, Zenon DEF MulMade
    <2>4. DecValues(r) = VMul(DecValues(a), DecValues(b))
      BY <1>1, <1>3, <2>1, <2>2, MulRawVal, Zenon
    <2> QED
      BY <2>3, <2>4, CompactedVal, Zenon DEF Good
  <1> QED
    BY <1>2, <1>3, Zenon

\* What the product of one pair adds.
SquareAt(f, ia, A, p, S) ==
    /\ VMul(SquareTarget(f, p), VMul(ia[p[1]], ia[p[2]])) =
       IF p[1] # p[2] THEN VAdd(VMul(A[p[1]], A[p[2]]), VMul(A[p[1]], A[p[2]])) ELSE VMul(A[p[1]], A[p[2]])

\* Twice that of two layers, once the square of one.
LEMMA SquareAtFacts ==
    ASSUME NEW S \in Nat, NEW f, NEW ia, NEW A, NEW p,
           \A i \in {p[1], p[2]} : A[i] = VMul(f[i], ia[i]) /\ f[i] \in Vec(S) /\ ia[i] \in Vec(S)
    PROVE  SquareAt(f, ia, A, p, S)
  <1>1. PICK i, j : i = p[1] /\ j = p[2]
    OBVIOUS
  <1>2. f[i] \in Vec(S) /\ f[j] \in Vec(S) /\ ia[i] \in Vec(S) /\ ia[j] \in Vec(S)
    BY <1>1, Zenon
  <1>3. PICK x \in Vec(S), m \in Vec(S) : x = VMul(f[i], f[j]) /\ m = VMul(ia[i], ia[j])
    <2>1. VMul(f[i], f[j]) \in Vec(S) /\ VMul(ia[i], ia[j]) \in Vec(S)
      BY <1>2, VecClosed
    <2> QED
      BY <2>1, Zenon
  <1>4. VMul(VMul(f[i], f[j]), VMul(ia[i], ia[j])) = VMul(VMul(f[i], ia[i]), VMul(f[j], ia[j]))
    <2>1. PICK b \in Vec(S), c \in Vec(S), d \in Vec(S), e \in Vec(S) : b = f[i] /\ c = f[j] /\ d = ia[i] /\ e = ia[j]
      BY <1>2, Zenon
    <2>2. S \in Nat /\ b \in Vec(S) /\ c \in Vec(S) /\ d \in Vec(S) /\ e \in Vec(S)
      BY <2>1, Zenon
    <2>3. VMul(VMul(b, c), VMul(d, e)) = VMul(VMul(b, d), VMul(c, e))
      BY <2>2, MulSwap
    <2> QED
      BY <2>1, <2>3, Zenon
  <1>5. VMul(x, m) = VMul(A[i], A[j])
    BY <1>1, <1>3, <1>4, Zenon
  <1>6. x \in Vec(S) /\ m \in Vec(S) /\ S \in Nat
    BY <1>3, Zenon
  <1>7. VMul(VAdd(x, x), m) = VAdd(VMul(x, m), VMul(x, m))
    BY <1>6, AddMul
  <1>8. SquareTarget(f, p) = IF i # j THEN VAdd(x, x) ELSE x
    BY <1>1, <1>3, Zenon DEF SquareTarget
  <1> QED
    BY <1>1, <1>3, <1>5, <1>7, <1>8, Zenon DEF SquareAt

\* The targets of ct_square over the masks of their products are the square of
\* what is hidden.
SquaresAdd(a, r, n) ==
    PSum(CatAdds(SqTargets(a), InvMasks(r), Len(a.L), n), a.slots, n) = VMul(Hidden(a), Hidden(a))

\* Every pair of layers once.
LEMMA SquaresAddFacts ==
    ASSUME NEW a, ShapeOK(a), NEW r, \A i \in 1..Len(a.L) : InvMasks(r)[i] = InvMasks(a)[i],
           NEW n, n = Cardinality(SqOwn(a)), ProductMask(r, a.L, SqPairs(a), n)
    PROVE  SquaresAdd(a, r, n)
  <1>1. PICK S \in Nat : S = a.slots
    BY ShapeParts, Zenon
  <1>2. PICK N \in Nat : N = Len(a.L)
    BY ShapeParts, Zenon
  <1>3. PICK A, f, ia, R : A = LayerAdds(a) /\ f = FoldEdges(a) /\ ia = InvMasks(a) /\ R = InvMasks(r)
    OBVIOUS
  <1>4. /\ \A i \in 1..N : A[i] = VMul(f[i], ia[i]) /\ A[i] \in Vec(S) /\ f[i] \in Vec(S) /\ ia[i] \in Vec(S)
        /\ Hidden(a) = PSum(A, S, N)
    BY <1>1, <1>2, <1>3, ByLayerFacts, Zenon DEF ByLayer
  <1>5. PairsRight(N, N)
    BY PairsFacts, Zenon
  <1>6. PICK lp, O : lp = LP(a, a) /\ lp = LayerPairs(N, N) /\ O = SqOwn(a)
    BY <1>2, Zenon DEF LP
  <1>7. PICK M \in Nat : M = N * N
    BY <1>5, Zenon DEF PairsRight
  <1>8. /\ DOMAIN lp = 1..M
        /\ \A q \in 1..M : lp[q] = <<lp[q][1], lp[q][2]>> /\ lp[q][1] \in 1..N /\ lp[q][2] \in 1..N
    BY <1>5, <1>6, <1>7, Zenon DEF PairsRight
  <1>9. O \in SUBSET (1..M) /\ \A q \in 1..M : q \in O <=> lp[q][1] <= lp[q][2]
    BY <1>6, <1>8, Zenon DEF SqOwn
  <1>10. PICK F : F = SquareTable(A, N, S)
    OBVIOUS
  <1>11. \A i \in 1..N : A[i] \in Vec(S)
    BY <1>4, Zenon
  <1>12. Matrix(F, N, N, S) /\ MatSum(F, S, N) = VMul(PSum(A, S, N), PSum(A, S, N))
    BY <1>10, <1>11, PSumSquare
  <1>13. PICK full : full = [q \in 1..M |-> F[lp[q][1]][lp[q][2]]]
    OBVIOUS
  <1>14. \A q \in 1..M : full[q] = F[lp[q][1]][lp[q][2]] /\ full[q] \in Vec(S)
    BY <1>8, <1>12, <1>13, Zenon DEF Matrix
  <1>15. PICK h : h = CatAdds(SqTargets(a), R, N, n)
    OBVIOUS
  <1>16. SqPairsRight(a)
    BY SqPairsFacts, Zenon
  <1>17. ASSUME NEW k \in 1..n PROVE h[k] = full[KeptAt(O, k)]
    <2>1. PICK q : q = KeptAt(O, k)
      OBVIOUS
    <2>2. q \in O
      <3>1. Places(O)
        BY <1>7, <1>9 DEF Places
      <3> QED
        BY <1>6, <2>1, <3>1, KeptFacts, Zenon DEF KeptRight
    <2>3. q \in 1..M /\ lp[q][1] <= lp[q][2]
      BY <1>9, <2>2, Zenon
    <2>4. PICK p : p = lp[q]
      OBVIOUS
    <2>5. SqPairs(a)[k] = p /\ SqTargets(a)[k] = SquareTarget(f, p)
      BY <1>3, <1>6, <1>16, <2>1, <2>4, Zenon DEF SqPairsRight
    <2>6. p[1] \in 1..N /\ p[2] \in 1..N /\ p[1] <= p[2]
      BY <1>8, <2>3, <2>4, Zenon
    <2>7. R[N + k] = VMul(ia[p[1]], ia[p[2]])
      BY <1>2, <1>3, <2>5, <2>6, Zenon DEF ProductMask
    <2>8. h[k] = VMul(SquareTarget(f, p), VMul(ia[p[1]], ia[p[2]]))
      BY <1>15, <2>5, <2>7, Zenon DEF CatAdds
    <2>9. SquareAt(f, ia, A, p, S)
      <3>1. \A i \in {p[1], p[2]} : A[i] = VMul(f[i], ia[i]) /\ f[i] \in Vec(S) /\ ia[i] \in Vec(S)
        BY <1>4, <2>6, Zenon
      <3> QED
        BY <3>1, SquareAtFacts, Zenon
    <2>10. full[q] = F[p[1]][p[2]]
      BY <1>14, <2>3, <2>4, Zenon
    <2>11. PICK i \in 1..N, j \in 1..N : i = p[1] /\ j = p[2] /\ i <= j
      BY <2>6, Zenon
    <2>12. SquareParts(A, N, S, i, j)
      BY <1>11, SquarePartsFacts
    <2>13. i < j <=> i # j
      BY <2>11
    <2>14. F[i][j] = IF i # j THEN VAdd(VMul(A[i], A[j]), VMul(A[i], A[j])) ELSE VMul(A[i], A[j])
      BY <1>10, <2>12, <2>13, Zenon DEF SquareParts
    <2> QED
      BY <2>1, <2>8, <2>9, <2>10, <2>11, <2>14, Zenon DEF SquareAt
  <1>18. PSum(h, S, n) = PSum(OnlyAt(full, O, M, S), S, M)
    <2>1. \A k \in O : full[k] \in Vec(S)
      BY <1>9, <1>14, Zenon
    <2>2. n = Cardinality(O)
      BY <1>6, Zenon
    <2>3. \A k \in 1..Cardinality(O) : h[k] = full[KeptAt(O, k)]
      BY <1>17, <2>2, Zenon
    <2>4. PSum(h, S, Cardinality(O)) = PSum(OnlyAt(full, O, M, S), S, M)
      <3>1. AllChosen(full, h, O, S, M)
        BY <1>9, <2>1, <2>3, Zenon DEF AllChosen
      <3> QED
        BY <3>1, PSumChosenOf
    <2> QED
      BY <2>2, <2>4, Zenon
  <1>19. \A q \in 1..M : OnlyAt(full, O, M, S)[q] = full[q]
    <2>1. TAKE q \in 1..M
    <2>2. OnlyAt(full, O, M, S)[q] = IF q \in O THEN full[q] ELSE Zeros(S)
      BY Zenon DEF OnlyAt
    <2>3. CASE q \notin O
      <3>1. PICK i \in 1..N, j \in 1..N : i = lp[q][1] /\ j = lp[q][2]
        BY <1>8, Zenon
      <3>2. ~(i <= j)
        BY <1>9, <2>3, <3>1, Zenon
      <3>3. ~(i < j) /\ i # j
        BY <3>1, <3>2
      <3>4. SquareParts(A, N, S, i, j)
        BY <1>11, SquarePartsFacts
      <3>5. F[i][j] = Zeros(S)
        BY <1>10, <3>3, <3>4, Zenon DEF SquareParts
      <3> QED
        BY <1>14, <2>2, <2>3, <3>1, <3>5, Zenon
    <2> QED
      BY <2>2, <2>3, Zenon
  <1>20. PSum(OnlyAt(full, O, M, S), S, M) = PSum(full, S, M)
    BY <1>19, PSumSame
  <1>21. Listed(full, F, N, N)
    <2>1. ASSUME NEW i \in 1..N, NEW j \in 1..N PROVE full[(i - 1) * N + j] = F[i][j]
      <3>1. (i - 1) * N + j \in 1..(N * N) /\ LayerPairs(N, N)[(i - 1) * N + j] = <<i, j>>
        BY <1>5, Zenon DEF PairsRight
      <3>2. PICK k \in 1..M : k = (i - 1) * N + j /\ lp[k] = <<i, j>>
        BY <1>6, <1>7, <3>1, Zenon
      <3>3. lp[k][1] = i /\ lp[k][2] = j
        BY <3>2
      <3> QED
        BY <1>14, <3>2, <3>3, Zenon
    <2> QED
      BY <2>1, Zenon DEF Listed
  <1>22. \A q \in 1..(N * N) : full[q] \in Vec(S)
    BY <1>7, <1>14, Zenon
  <1>23. PSum(full, S, N * N) = PSum(RowSums(F, S, N, N), S, N)
    BY <1>12, <1>21, <1>22, PairSum
  <1> QED
    BY <1>1, <1>2, <1>3, <1>4, <1>7, <1>12, <1>15, <1>18, <1>20, <1>23, Zenon DEF SquaresAdd, MatSum

\* A square of a sum, in the order its parts are made.
LEMMA SquareOut ==
    ASSUME NEW S \in Nat, NEW u \in Vec(S), NEW h \in Vec(S)
    PROVE  VMul(VAdd(u, h), VAdd(u, h)) = VAdd(VMul(u, u), VAdd(VMul(h, h), VMul(h, VAdd(u, u))))
  <1>1. VMul(VAdd(u, h), VAdd(u, h)) = VAdd(VMul(u, u), VAdd(VMul(h, h), VAdd(VMul(h, u), VMul(h, u))))
    BY ProductOut
  <1>2. VMul(h, VAdd(u, u)) = VAdd(VMul(h, u), VMul(h, u))
    BY MulAdd
  <1> QED
    BY <1>1, <1>2, Zenon

\* Twice a constant as it is used.
LEMMA TwiceStands ==
    ASSUME NEW S \in Nat, NEW x, ConstOK(x, S), NEW u \in Vec(S), Stands(x, u, S)
    PROVE  ConstOK(VAdd(x, x), S) /\ Stands(VAdd(x, x), VAdd(u, u), S) /\ VAdd(u, u) \in Vec(S)
  <1>1. VAdd(u, u) \in Vec(S)
    BY VecClosed
  <1>2. VAdd(<<>>, <<>>) = <<>>
    BY DEF VAdd
  <1>3. VAdd(Zeros(S), Zeros(S)) = Zeros(S)
    BY ZeroVec, AddZero
  <1>4. CASE x = u
    BY <1>1, <1>4, Zenon DEF ConstOK, Stands
  <1>5. CASE x = <<>> /\ u = Zeros(S)
    BY <1>1, <1>2, <1>3, <1>5, Zenon DEF ConstOK, Stands
  <1> QED
    BY <1>4, <1>5, Zenon DEF Stands

\* ct_square, before the compactions.
LEMMA SquareRawVal ==
    ASSUME NEW a, Good(a), NEW math \in BOOLEAN, NEW t \in Nat
    PROVE  DecValues(SqRaw(math, a, t)) = VMul(DecValues(a), DecValues(a))
  <1>1. ShapeOK(a)
    BY Zenon DEF Good
  <1>2. PICK S \in Nat : S = a.slots
    BY <1>1, ShapeParts, Zenon
  <1>3. PICK N \in Nat : N = Len(a.L)
    BY <1>1, ShapeParts, Zenon
  <1>4. PICK x, X : x = ConstOf(math, a) /\ X = ScaledEdges(a.E, VAdd(x, x), 0)
    OBVIOUS
  <1>5. PICK r, c, n : r = SqRaw(math, a, t) /\ c = SqBuilt(a, t) /\ n = Cardinality(SqOwn(a))
    OBVIOUS
  <1>6. r.L = c.L /\ r.E = c.E \o X /\ r.c0 = VMul(x, x) /\ r.slots = S
    BY <1>2, <1>4, <1>5 DEF Cipher, SqRaw, SqCross
  <1>7. SqMade(math, a, t)
    BY SqMadeFacts, Zenon
  <1>8. /\ ProductRight(a.L, S, SqPairs(a), SqTargets(a), t, n)
        /\ c.L = a.L \o NewLayers(a.L, SqPairs(a), n)
        /\ ProductLayers(a.L, SqPairs(a), n, S) /\ ShapeOK(r)
        /\ ScaledRight(a.E, VAdd(x, x), 0, N, S)
    BY <1>2, <1>3, <1>4, <1>5, <1>7, Zenon DEF SqMade, Good
  <1>9. SqPairsRight(a)
    BY <1>1, SqPairsFacts, Zenon
  <1>10. n \in Nat /\ \A k \in 1..n : SqPairs(a)[k][1] \in 1..N /\ SqPairs(a)[k][2] \in 1..N
    BY <1>3, <1>5, <1>9, Zenon DEF SqPairsRight
  <1>11. N + n \in Nat /\ N <= N + n
    BY <1>10
  <1>12. Len(r.L) = N + n /\ Embeds(a.L, r.L, 1..N, IdOn(N))
    BY <1>3, <1>6, <1>8, Zenon DEF ProductLayers
  <1>13. \A i \in 1..N : InvMasks(r)[i] = InvMasks(a)[i]
    <2>1. Follows(a, r, 1..N, IdOn(N))
      BY <1>12, EmbedsFollow, Zenon
    <2>2. 1..N \in SUBSET (1..Len(a.L))
      BY <1>3, Zenon
    <2>3. MasksCarried(a, r, 1..N, IdOn(N))
      BY <1>1, <1>2, <1>6, <1>8, <2>1, <2>2, MasksFollow, Zenon
    <2>4. TAKE i \in 1..N
    <2>5. IdOn(N)[i] = i
      BY Zenon DEF IdOn
    <2>6. InvMasks(r)[IdOn(N)[i]] = InvMasks(a)[i]
      BY <2>3, Zenon DEF MasksCarried
    <2> QED
      BY <2>5, <2>6, Zenon
  <1>14. ProductMask(r, a.L, SqPairs(a), n)
    BY <1>3, <1>6, <1>8, <1>10, ProductMaskFacts, Zenon
  <1>15. SquaresAdd(a, r, n)
    BY <1>1, <1>3, <1>5, <1>13, <1>14, SquaresAddFacts, Zenon
  <1>16. PICK u \in Vec(S), h \in Vec(S) : u = ConstOf(TRUE, a) /\ h = Hidden(a) /\ DecValues(a) = VAdd(u, h)
    BY <1>1, <1>2, DecFacts, Zenon DEF DecRight
  <1>17. S \in Nat /\ u \in Vec(S) /\ h \in Vec(S)
    BY <1>2, <1>16, Zenon
  <1>18. ConstOK(x, S) /\ Stands(x, u, S)
    BY <1>1, <1>2, <1>4, <1>16, ConstOfOK, ConstStands, Zenon
  <1>19. ConstOK(VAdd(x, x), S) /\ Stands(VAdd(x, x), VAdd(u, u), S) /\ VAdd(u, u) \in Vec(S)
    BY <1>17, <1>18, TwiceStands, Zenon
  <1>20. ScaledAdds(a, VAdd(x, x), 0, VAdd(u, u), InvMasks(r), S)
    <2>1. PICK s, v, R : s = VAdd(x, x) /\ v = VAdd(u, u) /\ R = InvMasks(r) /\ v \in Vec(S)
      BY <1>19, Zenon
    <2>2. \A i \in 1..Len(a.L) : R[i + 0] = InvMasks(a)[i]
      <3>1. \A i \in 1..N : i + 0 = i
        OBVIOUS
      <3> QED
        BY <1>3, <1>13, <2>1, <3>1, Zenon
    <2>3. 0 \in Nat /\ Len(a.L) + 0 <= N
      BY <1>3
    <2>4. ConstOK(s, S) /\ Stands(s, v, S)
      BY <1>19, <2>1, Zenon
    <2>5. ScaledAdds(a, s, 0, v, R, S)
      BY <1>1, <1>2, <2>1, <2>2, <2>3, <2>4, ScaledTotal
    <2> QED
      BY <2>1, <2>5, Zenon
  <1>21. X \in Seq(EdgeSet(N + n, S))
    <2>1. EdgesOK(X, N, S)
      BY <1>4, <1>8, Zenon DEF ScaledRight
    <2>2. EdgesOK(X, N + n, S)
      BY <1>11, <2>1, EdgesWiden, Zenon
    <2> QED
      BY <2>2, Zenon DEF EdgesOK
  <1>22. ProductHides(r, a.L, SqTargets(a), n, X)
    <2>1. \A k \in 1..n : SqTargets(a)[k] \in Vec(S)
      BY <1>2, <1>5, <1>9, Zenon DEF SqPairsRight
    <2>2. /\ c.E \in {ProductEdges(a.L, SqTargets(a), t, n), Merge(ProductEdges(a.L, SqTargets(a), t, n))}
          /\ NewEdges(c.E, N, n, N + n, S) /\ NewEdges(ProductEdges(a.L, SqTargets(a), t, n), N, n, N + n, S)
      BY <1>2, <1>3, <1>5, <1>8, Zenon DEF ProductRight, SqBuilt
    <2> QED
      BY <1>3, <1>6, <1>8, <1>10, <1>12, <1>21, <2>1, <2>2, ProductHidesFacts
  <1>23. Hidden(r) = VAdd(VMul(h, h), VMul(h, VAdd(u, u)))
    BY <1>2, <1>3, <1>4, <1>6, <1>15, <1>16, <1>20, <1>22, Zenon DEF ProductHides, SquaresAdd, ScaledAdds
  <1>24. MulConstant(math, a, a, r)
    BY <1>1, <1>2, <1>4, <1>6, MulConstantFacts, Zenon
  <1>25. DecValues(r) = VAdd(VMul(u, u), Hidden(r))
    BY <1>8, <1>16, <1>24, DecFacts, Zenon DEF DecRight, MulConstant
  <1>26. VMul(VAdd(u, h), VAdd(u, h)) = VAdd(VMul(u, u), VAdd(VMul(h, h), VMul(h, VAdd(u, u))))
    BY <1>17, SquareOut
  <1> QED
    BY <1>5, <1>16, <1>23, <1>25, <1>26, Zenon

\* ct_square: the square of the value.
LEMMA SquareVal ==
    ASSUME NEW a, Good(a), NEW math \in BOOLEAN, NEW t \in Nat
    PROVE  DecValues(CtSquare(math, a, t)) = VMul(DecValues(a), DecValues(a))
  <1>1. PICK r : r = SqRaw(math, a, t)
    OBVIOUS
  <1>2. Good(r) /\ CtSquare(math, a, t) = CompactLayers(GuardBudget(r))
    BY <1>1, SqMadeFacts, Zenon DEF SqMade
  <1> QED
    BY <1>1, <1>2, SquareRawVal, CompactedVal, Zenon DEF Good

-----------------------------------------------------------------------------
(* Every handle decrypts to its expression *)

\* What DecryptsRight says, of every handle and not the newest only.
ValInv == \A i \in 1..Len(pool) : pool[i].sound => DecValues(pool[i].ct) = pool[i].val

\* A handle of the pool.
LEMMA HandleVal ==
    ASSUME PoolOK, ValInv, NEW i \in DOMAIN pool, pool[i].sound
    PROVE  DecValues(pool[i].ct) = pool[i].val
  <1>1. i \in 1..Len(pool)
    BY Handle, Zenon
  <1> QED
    BY <1>1, Zenon DEF ValInv

\* A handle is added whose value is right, or none.
LEMMA ReturnVal ==
    ASSUME PoolOK, ValInv, NEW op, NEW args, NEW math, NEW k, NEW ct, NEW val, NEW sound, NEW depth,
           Return(op, args, math, k, ct, val, sound, depth),
           ~Threw(ct) /\ sound => DecValues(ct) = val
    PROVE  ValInv'
  <1>1. CASE Threw(ct)
    <2>1. pool' = pool
      BY <1>1, Zenon DEF Return
    <2> QED
      BY <2>1, Zenon DEF ValInv
  <1>2. CASE ~Threw(ct)
    <2>1. PICK x : x = [ct |-> ct, val |-> val, sound |-> sound, depth |-> depth, made |-> args # <<>>]
      OBVIOUS
    <2>2. x.ct = ct /\ x.val = val /\ x.sound = sound
      BY <2>1
    <2>3. pool' = Append(pool, x)
      BY <1>2, <2>1, Zenon DEF Return
    <2>4. PICK p, T : p = pool /\ T = {pool[i] : i \in 1..Len(pool)} \cup {x}
      OBVIOUS
    <2>5. IsSeq(p) /\ \A i \in 1..Len(p) : p[i].sound => DecValues(p[i].ct) = p[i].val
      BY <2>4, Zenon DEF PoolOK, ValInv
    <2>6. p \in Seq(T)
      <3>1. \A i \in 1..Len(p) : p[i] \in T
        BY <2>4
      <3> QED
        BY <2>5, <3>1, IsSeqIn
    <2>7. x \in T
      BY <2>4
    <2>8. PICK q : q = Append(p, x)
      OBVIOUS
    <2>9. q \in Seq(T) /\ Len(q) = Len(p) + 1 /\ q[Len(p) + 1] = x /\ \A i \in 1..Len(p) : q[i] = p[i]
      BY <2>6, <2>7, <2>8
    <2>10. \A i \in 1..Len(q) : i \in 1..Len(p) \/ i = Len(p) + 1
      BY <2>6, <2>9
    <2>11. \A i \in 1..Len(q) : q[i].sound => DecValues(q[i].ct) = q[i].val
      BY <1>2, <2>2, <2>5, <2>9, <2>10, Zenon
    <2> QED
      BY <2>3, <2>4, <2>8, <2>11, Zenon DEF ValInv
  <1> QED
    BY <1>1, <1>2

\* A number and its residue do the same.
LEMMA SameResidue ==
    ASSUME NEW S \in Nat, NEW a \in Vec(S), NEW x \in Int, NEW y \in Int, x % P = y % P
    PROVE  VScale(a, x) = VScale(a, y) /\ PlusConst(a, x) = PlusConst(a, y)
  <1>1. Flat(x, S) = Flat(y, S)
    BY Zenon DEF Flat
  <1>2. VScale(a, x) = VMul(a, Flat(x, S)) /\ VScale(a, y) = VMul(a, Flat(y, S))
    BY ScaleIsMul
  <1>3. PlusConst(a, x) = VAdd(a, Flat(x, S)) /\ PlusConst(a, y) = VAdd(a, Flat(y, S))
    BY PlusIsAdd
  <1> QED
    BY <1>1, <1>2, <1>3, Zenon

\* enc_values.
LEMMA EncryptValStep ==
    ASSUME PoolOK, ValInv, NEW v \in Plain, NEW t \in Nat, Encrypt(v, t)
    PROVE  ValInv'
  <1>1. PICK S, c : S \in Slots /\ S = Len(v) /\ c = EncValues(v, t)
    BY PlainFacts
  <1>2. Return("encrypt", <<>>, TRUE, t, c, v, TRUE, 0)
    BY <1>1, Zenon DEF Encrypt
  <1>3. v \in Vec(S)
    BY <1>1, PlainFacts
  <1>4. IF NoMask(t, S) THEN Threw(c) ELSE FreshRight(c, S)
    BY <1>1, <1>3, EncFacts
  <1>5. ~NoMask(t, S) => DecValues(c) = v
    BY <1>1, <1>3, EncVal, Zenon
  <1>6. ~Threw(c) /\ TRUE => DecValues(c) = v
    BY <1>4, <1>5, Zenon
  <1> QED
    BY <1>2, <1>6, ReturnVal

\* What was stored by earlier programs.
LEMMA LoadValStep ==
    ASSUME PoolOK, ValInv, NEW v \in Plain, NEW t \in Nat, Load(v, t)
    PROVE  ValInv'
  <1>1. PICK bytes \in Stored(v, t) : Return("load", <<>>, TRUE, t, DeserializeCipher(bytes), v, TRUE, 0)
    BY Zenon DEF Load
  <1>2. PICK S, c : S \in Slots /\ S = Len(v) /\ c = DeserializeCipher(bytes)
    BY PlainFacts
  <1>3. v \in Vec(S)
    BY <1>2, PlainFacts
  <1>4. LoadsAs(bytes, v, t, S)
    BY <1>2, <1>3, LoadVal, Zenon
  <1>5. ~Threw(c) /\ TRUE => DecValues(c) = v
    BY <1>2, <1>4, Zenon DEF LoadsAs
  <1> QED
    BY <1>1, <1>2, <1>5, ReturnVal

\* ct_add.
LEMMA AddValStep ==
    ASSUME PoolOK, ValInv, NEW i \in DOMAIN pool, NEW j \in DOMAIN pool, Add(i, j)
    PROVE  ValInv'
  <1>1. PICK a, b, c : a = pool[i].ct /\ b = pool[j].ct /\ c = CtAdd(a, b)
    OBVIOUS
  <1>2. PICK val, sound : /\ val = IF a.slots = b.slots THEN VAdd(pool[i].val, pool[j].val) ELSE <<>>
                          /\ sound = (pool[i].sound /\ pool[j].sound)
    OBVIOUS
  <1>3. Return("add", <<i, j>>, TRUE, 0, c, val, sound, Deeper(i, j))
    BY <1>1, <1>2, Zenon DEF Add
  <1>4. Good(a) /\ Good(b)
    BY <1>1, Handle
  <1>5. a.slots # b.slots => c = NoCipher
    BY <1>1, Zenon DEF CtAdd
  <1>6. ASSUME ~Threw(c), sound PROVE DecValues(c) = val
    <2>1. a.slots = b.slots
      BY <1>5, <1>6, ThrewNo, Zenon
    <2>2. pool[i].sound /\ pool[j].sound
      BY <1>2, <1>6
    <2>3. DecValues(a) = pool[i].val /\ DecValues(b) = pool[j].val
      BY <1>1, <2>2, HandleVal, Zenon
    <2>4. DecValues(c) = VAdd(DecValues(a), DecValues(b))
      BY <1>1, <1>4, <2>1, AddVal, Zenon
    <2> QED
      BY <1>2, <2>1, <2>3, <2>4, Zenon
  <1>7. ~Threw(c) /\ sound => DecValues(c) = val
    BY <1>6, Zenon
  <1> QED
    BY <1>3, <1>7, ReturnVal

\* ct_sub.
LEMMA SubValStep ==
    ASSUME PoolOK, ValInv, NEW i \in DOMAIN pool, NEW j \in DOMAIN pool, Sub(i, j)
    PROVE  ValInv'
  <1>1. PICK a, b, c : a = pool[i].ct /\ b = pool[j].ct /\ c = CtSub(a, b)
    OBVIOUS
  <1>2. PICK val, sound : /\ val = IF a.slots = b.slots THEN VSub(pool[i].val, pool[j].val) ELSE <<>>
                          /\ sound = (pool[i].sound /\ pool[j].sound)
    OBVIOUS
  <1>3. Return("sub", <<i, j>>, TRUE, 0, c, val, sound, Deeper(i, j))
    BY <1>1, <1>2, Zenon DEF Sub
  <1>4. Good(a) /\ Good(b)
    BY <1>1, Handle
  <1>5. a.slots # b.slots => c = NoCipher
    <2>1. PICK y : y = CtScale(b, P - 1)
      OBVIOUS
    <2>2. y.slots = b.slots
      <3>1. P - 1 \in Int
        BY ModulusFacts
      <3>2. Alike(b, y)
        BY <1>4, <2>1, <3>1, ScaleGood
      <3> QED
        BY <3>2, Zenon DEF Alike
    <2>3. c = CtAdd(a, y)
      BY <1>1, <2>1, Zenon DEF CtSub
    <2> QED
      BY <2>2, <2>3, Zenon DEF CtAdd
  <1>6. ASSUME ~Threw(c), sound PROVE DecValues(c) = val
    <2>1. a.slots = b.slots
      BY <1>5, <1>6, ThrewNo, Zenon
    <2>2. pool[i].sound /\ pool[j].sound
      BY <1>2, <1>6
    <2>3. DecValues(a) = pool[i].val /\ DecValues(b) = pool[j].val
      BY <1>1, <2>2, HandleVal, Zenon
    <2>4. DecValues(c) = VSub(DecValues(a), DecValues(b))
      BY <1>1, <1>4, <2>1, SubVal, Zenon
    <2> QED
      BY <1>2, <2>1, <2>3, <2>4, Zenon
  <1>7. ~Threw(c) /\ sound => DecValues(c) = val
    BY <1>6, Zenon
  <1> QED
    BY <1>3, <1>7, ReturnVal

\* ct_mul.
LEMMA MulValStep ==
    ASSUME PoolOK, ValInv, NEW i \in DOMAIN pool, NEW j \in DOMAIN pool, NEW math \in BOOLEAN, NEW t \in Nat,
           Mul(math, i, j, t)
    PROVE  ValInv'
  <1>1. PICK a, b, c : a = pool[i].ct /\ b = pool[j].ct /\ c = CtMul(math, a, b, t)
    OBVIOUS
  <1>2. PICK val, sound : /\ val = IF a.slots = b.slots THEN VMul(pool[i].val, pool[j].val) ELSE <<>>
                          /\ sound = (pool[i].sound /\ pool[j].sound)
    OBVIOUS
  <1>3. Return("mul", <<i, j>>, math, t, c, val, sound, ProductDepth(i, j))
    BY <1>1, <1>2, Zenon DEF Mul
  <1>4. Good(a) /\ Good(b)
    BY <1>1, Handle
  <1>5. ASSUME ~Threw(c), sound PROVE DecValues(c) = val
    <2>1. a.slots = b.slots
      <3>1. MulDone(math, a, b, t)
        BY <1>4, MulFacts
      <3> QED
        BY <1>1, <1>5, <3>1, Zenon DEF MulDone
    <2>2. pool[i].sound /\ pool[j].sound
      BY <1>2, <1>5
    <2>3. DecValues(a) = pool[i].val /\ DecValues(b) = pool[j].val
      BY <1>1, <2>2, HandleVal, Zenon
    <2>4. DecValues(c) = VMul(DecValues(a), DecValues(b))
      BY <1>1, <1>4, <1>5, MulVal, Zenon
    <2> QED
      BY <1>2, <2>1, <2>3, <2>4, Zenon
  <1> QED
    BY <1>3, <1>5, ReturnVal

\* ct_square.
LEMMA SquareValStep ==
    ASSUME PoolOK, ValInv, NEW i \in DOMAIN pool, NEW math \in BOOLEAN, NEW t \in Nat, Square(math, i, t)
    PROVE  ValInv'
  <1>1. PICK a, c, val, sound : /\ a = pool[i].ct /\ c = CtSquare(math, a, t)
                                /\ val = VMul(pool[i].val, pool[i].val) /\ sound = pool[i].sound
    OBVIOUS
  <1>2. Return("square", <<i>>, math, t, c, val, sound, ProductDepth(i, i))
    BY <1>1, Zenon DEF Square
  <1>3. Good(a)
    BY <1>1, Handle
  <1>4. sound => DecValues(a) = pool[i].val
    BY <1>1, HandleVal, Zenon
  <1>5. DecValues(c) = VMul(DecValues(a), DecValues(a))
    BY <1>1, <1>3, SquareVal, Zenon
  <1>6. ~Threw(c) /\ sound => DecValues(c) = val
    BY <1>1, <1>4, <1>5, Zenon
  <1> QED
    BY <1>2, <1>6, ReturnVal

\* A constant of a caller and its words.
LEMMA ConstFacts ==
    ASSUME NEW k \in Consts, NEW math \in BOOLEAN
    PROVE  k \in Int /\ WordsRight(math, k)
  <1>1. k \in Signed(HalfWord) /\ k \in Int
    BY CallerAssumption, ModulusFacts DEF Signed
  <1> QED
    BY <1>1, WordsFacts, Zenon

\* ct_scale by the words of a signed constant.
LEMMA ScaleValStep ==
    ASSUME PoolOK, ValInv, NEW i \in DOMAIN pool, NEW math \in BOOLEAN, NEW k \in Consts, Scale(math, i, k)
    PROVE  ValInv'
  <1>1. PICK a, v, c, val, sound, depth :
            /\ a = pool[i].ct /\ v = pool[i].val /\ c = CtScale(a, Val(ScaleWords(math, k)))
            /\ val = VScale(v, k % P) /\ sound = (pool[i].sound /\ (math \/ k >= 0))
            /\ depth = pool[i].depth
    OBVIOUS
  <1>2. Return("scale", <<i>>, math, k, c, val, sound, depth)
    BY <1>1, Zenon DEF Scale
  <1>3. Good(a) /\ v \in Vec(a.slots) /\ a.slots \in Nat
    BY <1>1, Handle
  <1>4. k \in Int /\ WordsRight(math, k)
    BY ConstFacts, Zenon
  <1>5. PICK x \in Int : x = Val(ScaleWords(math, k))
    BY <1>4, Zenon DEF WordsRight
  <1>6. ASSUME ~Threw(c), sound PROVE DecValues(c) = val
    <2>1. pool[i].sound /\ (math \/ k >= 0)
      BY <1>1, <1>6
    <2>2. DecValues(a) = v
      BY <1>1, <2>1, HandleVal, Zenon
    <2>3. x % P = k % P
      BY <1>4, <1>5, <2>1, Zenon DEF WordsRight
    <2>4. k % P \in Int /\ (k % P) % P = k % P
      BY <1>4, ModField
    <2>5. PICK y \in Int : y = k % P
      BY <2>4, Zenon
    <2>6. x % P = y % P
      BY <2>3, <2>4, <2>5, Zenon
    <2>7. VScale(v, x) = VScale(v, y)
      BY <1>3, <2>6, SameResidue
    <2>8. DecValues(c) = VScale(v, x)
      BY <1>1, <1>3, <1>5, <2>2, ScaleVal, Zenon
    <2> QED
      BY <1>1, <2>5, <2>7, <2>8, Zenon
  <1>7. ~Threw(c) /\ sound => DecValues(c) = val
    BY <1>6, Zenon
  <1> QED
    BY <1>2, <1>7, ReturnVal

\* ct_add_const.
LEMMA AddIntValStep ==
    ASSUME PoolOK, ValInv, NEW i \in DOMAIN pool, NEW math \in BOOLEAN, NEW k \in Consts, AddInt(math, i, k)
    PROVE  ValInv'
  <1>1. PICK a, v, c, val, sound, depth :
            /\ a = pool[i].ct /\ v = pool[i].val /\ c = CtAddConst(math, a, Val(AddWords(math, k)))
            /\ val = [j \in DOMAIN v |-> (v[j] + k) % P] /\ sound = (pool[i].sound /\ (math \/ (k >= 0 /\ a.c0 # <<>>)))
            /\ depth = pool[i].depth
    OBVIOUS
  <1>2. Return("add_int", <<i>>, math, k, c, val, sound, depth)
    BY <1>1, Zenon DEF AddInt
  <1>3. Good(a) /\ v \in Vec(a.slots) /\ a.slots \in Nat
    BY <1>1, Handle
  <1>4. k \in Int /\ WordsRight(math, k)
    BY ConstFacts, Zenon
  <1>5. PICK x \in Int : x = Val(AddWords(math, k))
    BY <1>4, Zenon DEF WordsRight
  <1>6. ASSUME ~Threw(c), sound PROVE DecValues(c) = val
    <2>1. pool[i].sound /\ (math \/ k >= 0) /\ (math \/ a.c0 # <<>>)
      BY <1>1, <1>6
    <2>2. DecValues(a) = v
      BY <1>1, <2>1, HandleVal, Zenon
    <2>3. x % P = k % P
      BY <1>4, <1>5, <2>1, Zenon DEF WordsRight
    <2>4. PlusConst(v, x) = PlusConst(v, k)
      BY <1>3, <1>4, <2>3, SameResidue
    <2>5. DecValues(c) = PlusConst(v, x)
      BY <1>1, <1>3, <1>5, <2>1, <2>2, AddConstVal, Zenon
    <2>6. val = PlusConst(v, k)
      BY <1>1, Zenon DEF PlusConst
    <2> QED
      BY <2>4, <2>5, <2>6, Zenon
  <1>7. ~Threw(c) /\ sound => DecValues(c) = val
    BY <1>6, Zenon
  <1> QED
    BY <1>2, <1>7, ReturnVal

\* ct_sub_const.
LEMMA SubIntValStep ==
    ASSUME PoolOK, ValInv, NEW i \in DOMAIN pool, NEW math \in BOOLEAN, NEW k \in Consts, SubInt(math, i, k)
    PROVE  ValInv'
  <1>1. PICK a, v, c, val, sound, depth :
            /\ a = pool[i].ct /\ v = pool[i].val /\ c = CtAddConst(math, a, Val(SubWords(math, k)))
            /\ val = [j \in DOMAIN v |-> (v[j] - k) % P] /\ sound = (pool[i].sound /\ (math \/ (k >= 0 /\ a.c0 # <<>>)))
            /\ depth = pool[i].depth
    OBVIOUS
  <1>2. Return("sub_int", <<i>>, math, k, c, val, sound, depth)
    BY <1>1, Zenon DEF SubInt
  <1>3. Good(a) /\ v \in Vec(a.slots) /\ a.slots \in Nat
    BY <1>1, Handle
  <1>4. k \in Int /\ WordsRight(math, k)
    BY ConstFacts, Zenon
  <1>5. PICK x \in Int : x = Val(SubWords(math, k))
    BY <1>4, Zenon DEF WordsRight
  <1>6. ASSUME ~Threw(c), sound PROVE DecValues(c) = val
    <2>1. pool[i].sound /\ (math \/ k >= 0) /\ (math \/ a.c0 # <<>>)
      BY <1>1, <1>6
    <2>2. DecValues(a) = v
      BY <1>1, <2>1, HandleVal, Zenon
    <2>3. x % P = (-k) % P
      BY <1>4, <1>5, <2>1, Zenon DEF WordsRight
    <2>4. PICK y \in Int : y = -k
      BY <1>4
    <2>5. x % P = y % P
      BY <2>3, <2>4, Zenon
    <2>6. PlusConst(v, x) = PlusConst(v, y)
      BY <1>3, <2>5, SameResidue
    <2>7. DecValues(c) = PlusConst(v, x)
      BY <1>1, <1>3, <1>5, <2>1, <2>2, AddConstVal, Zenon
    <2>8. DOMAIN v = 1..a.slots /\ \A j \in 1..a.slots : v[j] \in Int
      BY <1>3, VecFacts
    <2>9. \A j \in 1..a.slots : v[j] - k = v[j] + y
      BY <1>4, <2>4, <2>8
    <2>10. val = [j \in 1..a.slots |-> (v[j] - k) % P] /\ PlusConst(v, y) = [j \in 1..a.slots |-> (v[j] + y) % P]
      BY <1>1, <2>8, Zenon DEF PlusConst
    <2>11. val = PlusConst(v, y)
      BY <2>9, <2>10, Zenon
    <2> QED
      BY <2>6, <2>7, <2>11, Zenon
  <1>7. ~Threw(c) /\ sound => DecValues(c) = val
    BY <1>6, Zenon
  <1> QED
    BY <1>2, <1>7, ReturnVal

\* ct_div_const: the inverse of the constant.
LEMMA DivideValStep ==
    ASSUME PoolOK, ValInv, NEW i \in DOMAIN pool, NEW k \in Consts \cup {0}, Divide(i, k)
    PROVE  ValInv'
  <1>1. PICK a, v, x, c, val, sound, depth :
            /\ a = pool[i].ct /\ v = pool[i].val /\ x = Val(DivWords(k)) /\ c = CtDivConst(a, x)
            /\ val = VScale(v, FInv(k % P)) /\ sound = (pool[i].sound /\ k >= 0)
            /\ depth = pool[i].depth
    OBVIOUS
  <1>2. Return("divide", <<i>>, TRUE, k, c, val, sound, depth)
    BY <1>1, Zenon DEF Divide
  <1>3. Good(a)
    BY <1>1, Handle
  <1>4. k \in Signed(HalfWord) /\ k \in Int
    BY CallerAssumption, ModulusFacts DEF Signed
  <1>5. WordsRight(TRUE, k)
    BY <1>4, WordsFacts
  <1>6. x \in Field
    BY <1>1, <1>5, Zenon DEF WordsRight
  <1>7. ASSUME ~Threw(c), sound PROVE DecValues(c) = val
    <2>1. pool[i].sound /\ k >= 0
      BY <1>1, <1>7
    <2>2. x = k /\ k \in Field
      BY <1>1, <1>5, <2>1, Zenon DEF WordsRight
    <2>3. k % P = k
      BY <1>4, <2>2, ModField
    <2>4. DecValues(a) = v
      BY <1>1, <2>1, HandleVal, Zenon
    <2>5. c = CtScale(a, FInv(x))
      BY <1>1, <1>3, <1>6, <1>7, DivConstGood, Zenon
    <2>6. FInv(x) \in Field
      BY <1>6, InvFacts, Zenon
    <2>7. PICK y \in Int : y = FInv(x)
      BY <2>6, FieldInt, Zenon
    <2>8. DecValues(c) = VScale(v, y)
      BY <1>3, <2>4, <2>5, <2>7, ScaleVal, Zenon
    <2> QED
      BY <1>1, <2>2, <2>3, <2>7, <2>8, Zenon
  <1>8. ~Threw(c) /\ sound => DecValues(c) = val
    BY <1>7, Zenon
  <1> QED
    BY <1>2, <1>8, ReturnVal

\* Storing and reading back.
LEMMA RoundtripValStep ==
    ASSUME PoolOK, ValInv, NEW i \in DOMAIN pool, Roundtrip(i)
    PROVE  ValInv'
  <1>1. PICK a, v, c, sound, depth :
            /\ a = pool[i].ct /\ v = pool[i].val /\ c = DeserializeCipher(SerializeCipher(a))
            /\ sound = pool[i].sound /\ depth = pool[i].depth
    OBVIOUS
  <1>2. Return("roundtrip", <<i>>, TRUE, 0, c, v, sound, depth)
    BY <1>1, Zenon DEF Roundtrip
  <1>3. Good(a)
    BY <1>1, Handle
  <1>4. sound => DecValues(a) = v
    BY <1>1, HandleVal, Zenon
  <1>5. DecValues(c) = DecValues(a)
    BY <1>1, <1>3, SavedVal, Zenon
  <1>6. ~Threw(c) /\ sound => DecValues(c) = v
    BY <1>4, <1>5, Zenon
  <1> QED
    BY <1>2, <1>6, ReturnVal

\* ct_recrypt.
LEMMA RecryptValStep ==
    ASSUME PoolOK, ValInv, NEW i \in DOMAIN pool, NEW t \in Nat, Recrypt(i, t)
    PROVE  ValInv'
  <1>1. PICK a, v, c, sound, depth :
            /\ a = pool[i].ct /\ v = pool[i].val /\ c = CtRecrypt(a, t) /\ sound = pool[i].sound
            /\ depth = pool[i].depth
    OBVIOUS
  <1>2. Return("recrypt", <<i>>, TRUE, t, c, v, sound, depth)
    BY <1>1, Zenon DEF Recrypt
  <1>3. Good(a)
    BY <1>1, Handle
  <1>4. sound => DecValues(a) = v
    BY <1>1, HandleVal, Zenon
  <1>5. ~Threw(c) => DecValues(c) = DecValues(a)
    BY <1>1, <1>3, RecryptVal, Zenon
  <1>6. ~Threw(c) /\ sound => DecValues(c) = v
    BY <1>4, <1>5, Zenon
  <1> QED
    BY <1>2, <1>6, ReturnVal

\* ct_recrypt_reset.
LEMMA ResetValStep ==
    ASSUME PoolOK, ValInv, NEW i \in DOMAIN pool, NEW t \in Nat, RecryptReset(i, t)
    PROVE  ValInv'
  <1>1. PICK a, v, c, sound :
            a = pool[i].ct /\ v = pool[i].val /\ c = CtRecryptReset(a, t) /\ sound = pool[i].sound
    OBVIOUS
  <1>2. Return("reset", <<i>>, TRUE, t, c, v, sound, 0)
    BY <1>1, Zenon DEF RecryptReset
  <1>3. Good(a)
    BY <1>1, Handle
  <1>4. sound => DecValues(a) = v
    BY <1>1, HandleVal, Zenon
  <1>5. ~Threw(c) => DecValues(c) = DecValues(a)
    BY <1>1, <1>3, ResetVal, Zenon
  <1>6. ~Threw(c) /\ sound => DecValues(c) = v
    BY <1>4, <1>5, Zenon
  <1> QED
    BY <1>2, <1>6, ReturnVal

\* No handle yet.
LEMMA ValInit == Init => ValInv
  <1> SUFFICES ASSUME Init PROVE ValInv
    OBVIOUS
  <1>1. pool = <<>>
    BY DEF Init
  <1>2. Len(<<>>) = 0 /\ 1..0 = {}
    OBVIOUS
  <1> QED
    BY <1>1, <1>2, Zenon DEF ValInv

\* Every operation returns a handle that decrypts to its expression.
LEMMA ValNext == CipherInv /\ ValInv /\ [Next]_vars => ValInv'
  <1> SUFFICES ASSUME PoolOK, ValInv, [Next]_vars PROVE ValInv'
    BY DEF CipherInv
  <1>1. Tapes \subseteq Nat /\ OldTapes \subseteq Nat /\ OpTapes \subseteq Nat
    BY CallerAssumption
  <1>2. ASSUME NEW v \in Plain, NEW t \in Tapes, Encrypt(v, t) PROVE ValInv'
    BY <1>1, <1>2, EncryptValStep
  <1>3. ASSUME NEW v \in Plain, NEW t \in OldTapes, Load(v, t) PROVE ValInv'
    BY <1>1, <1>3, LoadValStep
  <1>4. ASSUME NEW i \in DOMAIN pool, NEW j \in DOMAIN pool, Add(i, j) PROVE ValInv'
    BY <1>4, AddValStep
  <1>5. ASSUME NEW i \in DOMAIN pool, NEW j \in DOMAIN pool, Sub(i, j) PROVE ValInv'
    BY <1>5, SubValStep
  <1>6. ASSUME NEW i \in DOMAIN pool, NEW j \in DOMAIN pool, NEW math \in BOOLEAN, NEW t \in OpTapes,
               Mul(math, i, j, t)
        PROVE  ValInv'
    BY <1>1, <1>6, MulValStep
  <1>7. ASSUME NEW i \in DOMAIN pool, Roundtrip(i) PROVE ValInv'
    BY <1>7, RoundtripValStep
  <1>8. ASSUME NEW i \in DOMAIN pool, NEW t \in OpTapes, Recrypt(i, t) PROVE ValInv'
    BY <1>1, <1>8, RecryptValStep
  <1>9. ASSUME NEW i \in DOMAIN pool, NEW t \in OpTapes, RecryptReset(i, t) PROVE ValInv'
    BY <1>1, <1>9, ResetValStep
  <1>10. ASSUME NEW i \in DOMAIN pool, NEW math \in BOOLEAN, NEW t \in OpTapes, Square(math, i, t)
         PROVE  ValInv'
    BY <1>1, <1>10, SquareValStep
  <1>11. ASSUME NEW i \in DOMAIN pool, NEW math \in BOOLEAN, NEW k \in Consts, Scale(math, i, k)
         PROVE  ValInv'
    BY <1>11, ScaleValStep
  <1>12. ASSUME NEW i \in DOMAIN pool, NEW math \in BOOLEAN, NEW k \in Consts, AddInt(math, i, k)
         PROVE  ValInv'
    BY <1>12, AddIntValStep
  <1>13. ASSUME NEW i \in DOMAIN pool, NEW math \in BOOLEAN, NEW k \in Consts, SubInt(math, i, k)
         PROVE  ValInv'
    BY <1>13, SubIntValStep
  <1>14. ASSUME NEW i \in DOMAIN pool, NEW k \in Consts \cup {0}, Divide(i, k) PROVE ValInv'
    BY <1>14, DivideValStep
  <1>15. CASE UNCHANGED vars
    BY <1>15 DEF vars, ValInv
  <1> QED
    BY <1>2, <1>3, <1>4, <1>5, <1>6, <1>7, <1>8, <1>9, <1>10, <1>11, <1>12, <1>13, <1>14, <1>15, Zenon
       DEF Next

\* The newest handle is one of them.
LEMMA ValNewest == CipherInv /\ ValInv => DecryptsRight
  <1> SUFFICES ASSUME PoolOK, ValInv, NEW i \in Newest, pool[i].sound
               PROVE  DecValues(pool[i].ct) = pool[i].val
    BY Zenon DEF CipherInv, DecryptsRight
  <1>1. i \in DOMAIN pool
    BY NewestHandle
  <1> QED
    BY <1>1, HandleVal

\* A handle decrypts to the value of the expression it was made by: encryption,
\* arithmetic, compaction, recryption, storing in any of the formats and the two
\* mask functions never change or lose a term.
THEOREM HandlesDecryptRight == Spec => []DecryptsRight
  <1>1. Init => CipherInv /\ ValInv
    BY CipherInit, ValInit
  <1>2. CipherInv /\ ValInv /\ [Next]_vars => CipherInv' /\ ValInv'
    BY CipherNext, ValNext
  <1> QED
    BY <1>1, <1>2, ValNewest, PTL DEF Spec
=============================================================================
