--------------------------- MODULE CipherOpProofs ---------------------------
(***************************************************************************)
(* Proofs about the operators the ciphertexts of Ciphertext.tla are made   *)
(* with.                                                                   *)
(*                                                                         *)
(* The field on pairs of words (FieldWords) is arithmetic modulo 2h^2 - 1, *)
(* for every word size of at least two bits: addition, subtraction and     *)
(* multiplication return the reduced pair of words of the residue. For the *)
(* code's 64-bit words h is 2^63, so what the invariant WordsAgree checks  *)
(* on words of two to four bits holds for the words of the code. The       *)
(* lemmas on quotients and remainders are about integers with names of     *)
(* their own, so that each carry is one equation; the theorems then name   *)
(* the carries of the definitions.                                         *)
(*                                                                         *)
(* Joining two ciphertexts and dropping unused layers (CipherShape) keep   *)
(* every position meaning what it meant, for ciphertexts of any size: the  *)
(* results are well-formed again (parents below, edges placed), and the    *)
(* layer a position named before is, with its own references renamed, the  *)
(* layer the new position names.                                           *)
(*                                                                         *)
(* A good ciphertext is one of the shape of its key in which no layer of a *)
(* product can be dropped. Each operation is shown to build good           *)
(* ciphertexts of good ones, by the steps the code takes: joining,         *)
(* shifting, merging the edges of one place, dropping layers, multiplying  *)
(* layer by layer, masking, recrypting and storing. CiphertextProofs       *)
(* concludes the invariants of the specification from this.                *)
(***************************************************************************)
EXTENDS Ciphertext, FunctionTheorems, FiniteSetTheorems, NaturalsInduction, TLAPS

-----------------------------------------------------------------------------
(* The field on pairs of words *)

\* Division of a word product by the word size: a quotient and a remainder, as
\* integers with names.
LEMMA DivMod ==
    ASSUME NEW d \in Nat \ {0}, NEW x \in Nat
    PROVE  \E q \in Nat : \E r \in 0..(d - 1) : x \div d = q /\ x % d = r /\ x = q * d + r
  BY Z3

\* A residue is known by any multiple of the modulus that it differs by.
LEMMA ModUnique ==
    ASSUME NEW m \in Nat \ {0}, NEW x \in Int, NEW r \in 0..(m - 1), NEW k \in Int,
           x = k * m + r
    PROVE  x % m = r
  BY Z3

\* What is below twice a divisor is divided with a quotient of zero or one: the
\* carry out of a word after one addition.
LEMMA SmallDiv ==
    ASSUME NEW d \in Nat \ {0}, NEW x \in 0..(2 * d - 1)
    PROVE  /\ x < d => x \div d = 0 /\ x % d = x
           /\ x >= d => x \div d = 1 /\ x % d = x - d
  BY Z3

\* The same carry and what it leaves, with names.
LEMMA SmallSplit ==
    ASSUME NEW d \in Nat \ {0}, NEW x \in 0..(2 * d - 1)
    PROVE  \E q \in {0, 1} : \E r \in 0..(d - 1) :
               x \div d = q /\ x % d = r /\ x = q * d + r
  <1>1. CASE x < d
    BY <1>1, SmallDiv
  <1>2. CASE x >= d
    BY <1>2, SmallDiv
  <1> QED
    BY <1>1, <1>2

\* The value of two words is what they become, plus the modulus once for the
\* top bit of the high word.
LEMMA CarryValue ==
    ASSUME NEW h \in Int, NEW W \in Int, NEW lo \in Int, NEW hi \in Int, NEW e \in Int,
           NEW r \in Int, NEW c \in Int, NEW low \in Int,
           hi = e * h + r, lo + e = c * W + low
    PROVE  lo + hi * W = low + (r + c) * W + e * (h * W - 1)
  <1>1. hi * W = e * (h * W) + r * W
    BY Z3
  <1>2. (r + c) * W = r * W + c * W
    BY Z3
  <1>3. e * (h * W - 1) = e * (h * W) - e
    BY Z3
  <1> QED
    BY <1>1, <1>2, <1>3, Z3

\* Two words without the top bit, not both at their largest, are below the
\* modulus: the test of need_sub in fp_from_words.
LEMMA BelowModulus ==
    ASSUME NEW h \in Nat, NEW W \in Nat, NEW high \in 0..(h - 1), NEW low \in 0..(W - 1),
           ~(high = h - 1 /\ low = W - 1)
    PROVE  low + high * W < h * W - 1
  <1>1. CASE high = h - 1
    BY <1>1, Z3
  <1>2. CASE high <= h - 2
    <2>1. high * W <= (h - 2) * W
      BY <1>2, Z3
    <2>2. (h - 2) * W = h * W - 2 * W
      BY Z3
    <2> QED
      BY <2>1, <2>2, Z3
  <1> QED
    BY <1>1, <1>2

\* fp_from_words returns a reduced value that differs from the two words by a
\* multiple of the modulus, after one subtraction at most.
LEMMA FromWords ==
    ASSUME NEW h \in Nat, h >= 2, NEW lo \in 0..(Word(h) - 1), NEW hi \in 0..(Word(h) - 1)
    PROVE  /\ IsReduced(h, FpFromWords(h, lo, hi))
           /\ \E k \in 0..2 :
                  lo + hi * Word(h) = Value(h, FpFromWords(h, lo, hi)) + k * Modulus(h)
  <1> DEFINE res == FpFromWords(h, lo, hi)
  <1>1. PICK e \in {0, 1}, r \in 0..(h - 1) : hi \div h = e /\ hi % h = r /\ hi = e * h + r
    <2>1. h \in Nat \ {0} /\ hi \in 0..(2 * h - 1)
      BY DEF Word
    <2> QED
      BY <2>1, SmallSplit
  <1>2. PICK W \in Nat \ {0} : W = 2 * h /\ W = Word(h)
    BY DEF Word
  <1>3. PICK c \in {0, 1}, low \in 0..(W - 1) :
            (lo + e) \div W = c /\ (lo + e) % W = low /\ lo + e = c * W + low
    <2>1. lo + e \in 0..(2 * W - 1)
      BY <1>2
    <2> QED
      BY <2>1, SmallSplit
  <1>4. PICK high \in 0..h : high = r + c
    OBVIOUS
  <1>5. lo + hi * W = low + high * W + e * (h * W - 1)
    BY <1>1, <1>3, <1>4, CarryValue
  <1>6. res = IF high >= h \/ (high = h - 1 /\ low = W - 1)
              THEN [lo |-> (low - (W - 1)) % W,
                    hi |-> (high - (h - 1) - (IF low < W - 1 THEN 1 ELSE 0)) % W]
              ELSE [lo |-> low, hi |-> high]
    BY <1>1, <1>2, <1>3, <1>4 DEF FpFromWords
  <1>7. PICK m \in Nat : m = h * W - 1 /\ m = Modulus(h)
    <2>1. h * W >= 1
      BY <1>2, Z3
    <2> QED
      BY <2>1, <1>2, Z3 DEF Modulus
  <1>8. CASE high < h /\ ~(high = h - 1 /\ low = W - 1)
    <2>1. res = [lo |-> low, hi |-> high]
      BY <1>6, <1>8
    <2>2. Value(h, res) = low + high * W
      BY <2>1, <1>2 DEF Value
    <2>3. low + high * W < m
      BY <1>7, <1>8, BelowModulus
    <2>4. IsReduced(h, res)
      BY <2>1, <2>2, <2>3, <1>2, <1>7, <1>8 DEF IsReduced, Fp
    <2>5. lo + hi * Word(h) = Value(h, res) + e * Modulus(h)
      BY <1>2, <1>5, <1>7, <2>2
    <2> QED
      BY <2>4, <2>5
  <1>9. CASE high = h - 1 /\ low = W - 1
    <2>1. res = [lo |-> 0, hi |-> 0]
      BY <1>6, <1>9
    <2>2. Value(h, res) = 0
      BY <2>1, <1>2 DEF Value
    <2>3. low + high * W = m
      BY <1>7, <1>9, Z3
    <2>4. IsReduced(h, res)
      BY <2>1, <2>2, <1>2, <1>7 DEF IsReduced, Fp
    <2>5. lo + hi * Word(h) = Value(h, res) + (e + 1) * Modulus(h)
      BY <1>2, <1>5, <1>7, <2>2, <2>3
    <2> QED
      BY <2>4, <2>5
  <1>10. CASE high = h
    <2>1. c = 1 /\ low = 0
      BY <1>1, <1>2, <1>3, <1>4, <1>10
    <2>2. (1 - W) % W = 1
      BY <1>2, Z3
    <2>3. res = [lo |-> 1, hi |-> 0]
      BY <1>2, <1>6, <1>10, <2>1, <2>2
    <2>4. Value(h, res) = 1
      BY <2>3, <1>2 DEF Value
    <2>5. h * W >= 4
      BY <1>2, Z3
    <2>6. IsReduced(h, res)
      BY <2>3, <2>4, <2>5, <1>2, <1>7 DEF IsReduced, Fp
    <2>7. low + high * W = 1 + m
      BY <1>7, <1>10, <2>1
    <2>8. lo + hi * Word(h) = Value(h, res) + (e + 1) * Modulus(h)
      BY <1>2, <1>5, <1>7, <2>4, <2>7
    <2> QED
      BY <2>6, <2>8
  <1> QED
    BY <1>4, <1>8, <1>9, <1>10

\* The four words of mul_128x128, with every carry, are the product.
LEMMA ProductValue ==
    ASSUME NEW W \in Int, NEW alo \in Int, NEW ahi \in Int, NEW blo \in Int, NEW bhi \in Int,
           NEW q0 \in Int, NEW q1 \in Int, NEW q2 \in Int, NEW q3 \in Int,
           NEW s0 \in Int, NEW s1 \in Int, NEW s2 \in Int, NEW s3 \in Int,
           NEW c1 \in Int, NEW c2 \in Int, NEW z1 \in Int, NEW z2 \in Int,
           alo * blo = q0 * W + s0, alo * bhi = q1 * W + s1,
           ahi * blo = q2 * W + s2, ahi * bhi = q3 * W + s3,
           q0 + s1 + s2 = c1 * W + z1, q1 + q2 + s3 + c1 = c2 * W + z2
    PROVE  (ahi * W + alo) * (bhi * W + blo) =
               s0 + z1 * W + (z2 + (q3 + c2) * W) * (W * W)
  <1>1. (ahi * W + alo) * (bhi * W + blo) =
            (ahi * bhi) * (W * W) + (ahi * blo + alo * bhi) * W + alo * blo
    BY Z3
  <1>2. (ahi * bhi) * (W * W) = (q3 * W + s3) * (W * W)
    OBVIOUS
  <1>3. (ahi * blo + alo * bhi) * W = (q1 + q2) * (W * W) + (s1 + s2) * W
    <2>1. ahi * blo + alo * bhi = (q1 + q2) * W + (s1 + s2)
      BY Z3
    <2>2. ((q1 + q2) * W + (s1 + s2)) * W = (q1 + q2) * (W * W) + (s1 + s2) * W
      BY Z3
    <2> QED
      BY <2>1, <2>2
  <1>4. (s1 + s2 + q0) * W = c1 * (W * W) + z1 * W
    BY Z3
  <1>5. (q1 + q2 + s3 + c1) * (W * W) = (c2 * W + z2) * (W * W)
    OBVIOUS
  <1>6. (ahi * bhi) * (W * W) + (ahi * blo + alo * bhi) * W + alo * blo
          = (q3 * W) * (W * W) + (q1 + q2 + s3) * (W * W) + (s1 + s2 + q0) * W + s0
    BY <1>2, <1>3, Z3
  <1>7. (q1 + q2 + s3) * (W * W) + c1 * (W * W) = (c2 * W) * (W * W) + z2 * (W * W)
    BY <1>5, Z3
  <1> QED
    BY <1>1, <1>4, <1>6, <1>7, Z3

\* fp_reduce_256: folding the four words twice changes the value by a multiple
\* of the modulus only.
LEMMA FoldValue ==
    ASSUME NEW h \in Int, NEW W \in Int, W = 2 * h,
           NEW z0 \in Int, NEW z1 \in Int, NEW z2 \in Int, NEW z3 \in Int,
           NEW e1 \in Int, NEW l1 \in Int, NEW e2 \in Int, NEW r2 \in Int,
           NEW c0 \in Int, NEW y0 \in Int, NEW c1 \in Int, NEW x1 \in Int,
           NEW e3 \in Int, NEW r3 \in Int,
           z1 = e1 * h + l1, z2 = e2 * h + r2,
           z0 + (e1 + 2 * r2) = c0 * W + y0,
           l1 + (e2 + 2 * z3) + c0 = c1 * W + x1,
           x1 = e3 * h + r3
    PROVE  z0 + z1 * W + (z2 + z3 * W) * (W * W) =
               (y0 + (e3 + 2 * c1)) + r3 * W
               + ((e3 + 2 * c1) + (e1 + 2 * r2) + (e2 + 2 * z3) * W) * (h * W - 1)
  <1> DEFINE h0 == e1 + 2 * r2
             h1 == e2 + 2 * z3
             g == e3 + 2 * c1
  <1>1. PICK u \in Int : u = h * W
    OBVIOUS
  <1>2. W * W = 2 * u
    BY <1>1, Z3
  <1>3. z1 * W = e1 * u + l1 * W
    BY <1>1, Z3
  <1>4. (z2 + z3 * W) * (W * W) = (2 * r2 + h1 * W) * u
    <2>1. z2 * (2 * u) = (e2 * W + 2 * r2) * u
      BY Z3
    <2>2. (z2 + z3 * W) * (2 * u) = z2 * (2 * u) + (2 * z3 * W) * u
      BY Z3
    <2>3. (e2 * W + 2 * r2) * u + (2 * z3 * W) * u = (2 * r2 + h1 * W) * u
      BY Z3
    <2> QED
      BY <1>2, <2>1, <2>2, <2>3
  <1>5. z0 + z1 * W + (z2 + z3 * W) * (W * W) = z0 + l1 * W + (h0 + h1 * W) * u
    <2>1. (h0 + h1 * W) * u = e1 * u + (2 * r2 + h1 * W) * u
      BY Z3
    <2> QED
      BY <1>3, <1>4, <2>1, Z3
  <1>6. z0 + l1 * W + h0 + h1 * W = y0 + g * u + r3 * W
    <2>1. (l1 + h1 + c0) * W = l1 * W + h1 * W + c0 * W
      BY Z3
    <2>2. (l1 + h1 + c0) * W = c1 * (W * W) + x1 * W
      BY Z3
    <2>3. x1 * W = e3 * u + r3 * W
      BY <1>1, Z3
    <2>4. g * u = e3 * u + 2 * c1 * u
      BY Z3
    <2>5. c1 * (W * W) = 2 * c1 * u
      BY <1>2, Z3
    <2> QED
      BY <2>1, <2>2, <2>3, <2>4, <2>5, Z3
  <1>7. (g + h0 + h1 * W) * (u - 1) = g * u + (h0 + h1 * W) * u - g - h0 - h1 * W
    BY Z3
  <1> QED
    BY <1>1, <1>5, <1>6, <1>7, Z3

\* The word size and the modulus are positive.
LEMMA ModulusPositive ==
    ASSUME NEW h \in Nat, h >= 2
    PROVE  Word(h) \in Nat \ {0} /\ Modulus(h) \in Nat \ {0}
  <1>1. h * (2 * h) >= 4
    BY Z3
  <1> QED
    BY <1>1, Z3 DEF Word, Modulus

\* The words of a reduced value and the value they stand for.
LEMMA ValueRange ==
    ASSUME NEW h \in Nat, h >= 2, NEW x, IsReduced(h, x)
    PROVE  /\ x.lo \in 0..(Word(h) - 1) /\ x.hi \in 0..(h - 1)
           /\ Value(h, x) \in 0..(Modulus(h) - 1)
           /\ Value(h, x) = x.hi * Word(h) + x.lo
  <1>1. x.lo \in 0..(Word(h) - 1) /\ x.hi \in 0..(h - 1)
    BY DEF IsReduced, Fp
  <1>2. x.hi * Word(h) >= 0
    BY <1>1, Z3 DEF Word
  <1> QED
    BY <1>1, <1>2, ModulusPositive DEF IsReduced, Value

\* A sum differs from the sum of the values by a multiple of the modulus.
LEMMA AddValue ==
    ASSUME NEW h \in Nat, h >= 2, NEW a, NEW b, IsReduced(h, a), IsReduced(h, b)
    PROVE  /\ IsReduced(h, FpAdd(h, a, b))
           /\ \E k \in 0..2 : Value(h, a) + Value(h, b) = Value(h, FpAdd(h, a, b)) + k * Modulus(h)
  <1>1. PICK W \in Nat \ {0} : W = 2 * h /\ W = Word(h)
    BY DEF Word
  <1>2. PICK alo \in 0..(W - 1), ahi \in 0..(h - 1) :
            alo = a.lo /\ ahi = a.hi /\ Value(h, a) = ahi * W + alo
    <2>1. a.lo \in 0..(W - 1) /\ a.hi \in 0..(h - 1) /\ Value(h, a) = a.hi * W + a.lo
      BY <1>1, ValueRange
    <2> QED
      BY <2>1
  <1>3. PICK blo \in 0..(W - 1), bhi \in 0..(h - 1) :
            blo = b.lo /\ bhi = b.hi /\ Value(h, b) = bhi * W + blo
    <2>1. b.lo \in 0..(W - 1) /\ b.hi \in 0..(h - 1) /\ Value(h, b) = b.hi * W + b.lo
      BY <1>1, ValueRange
    <2> QED
      BY <2>1
  <1>4. PICK q \in {0, 1}, l \in 0..(W - 1) :
            (alo + blo) \div W = q /\ (alo + blo) % W = l /\ alo + blo = q * W + l
    <2>1. alo + blo \in 0..(2 * W - 1)
      OBVIOUS
    <2> QED
      BY <2>1, SmallSplit
  <1>5. PICK t \in 0..(W - 1) : t = ahi + bhi + q /\ t % W = t
    <2>1. ahi + bhi + q \in 0..(W - 1)
      BY <1>1
    <2> QED
      BY <2>1, SmallDiv
  <1>6. FpAdd(h, a, b) = FpFromWords(h, l, t)
    BY <1>1, <1>2, <1>3, <1>4, <1>5 DEF FpAdd
  <1>7. l + t * W = Value(h, a) + Value(h, b)
    <2>1. t * W = ahi * W + bhi * W + q * W
      BY <1>5, Z3
    <2>2. l + t * W = (ahi * W + alo) + (bhi * W + blo)
      BY <1>4, <2>1, Z3
    <2> QED
      BY <1>2, <1>3, <2>2
  <1>8. IsReduced(h, FpFromWords(h, l, t))
    BY <1>1, FromWords
  <1>9. PICK k \in 0..2 : l + t * W = Value(h, FpFromWords(h, l, t)) + k * Modulus(h)
    BY <1>1, FromWords
  <1> QED
    BY <1>6, <1>7, <1>8, <1>9

\* fp_neg: the complement of the words differs from the negated value by a
\* multiple of the modulus.
LEMMA NegValue ==
    ASSUME NEW h \in Nat, h >= 2, NEW a, IsReduced(h, a)
    PROVE  /\ IsReduced(h, FpNeg(h, a))
           /\ \E k \in 0..2 : Modulus(h) - Value(h, a) = Value(h, FpNeg(h, a)) + k * Modulus(h)
  <1>1. PICK W \in Nat \ {0} : W = 2 * h /\ W = Word(h)
    BY DEF Word
  <1>2. PICK alo \in 0..(W - 1), ahi \in 0..(h - 1) :
            alo = a.lo /\ ahi = a.hi /\ Value(h, a) = ahi * W + alo
    <2>1. a.lo \in 0..(W - 1) /\ a.hi \in 0..(h - 1) /\ Value(h, a) = a.hi * W + a.lo
      BY <1>1, ValueRange
    <2> QED
      BY <2>1
  <1>3. PICK l \in 0..(W - 1), t \in 0..(W - 1) : l = W - 1 - alo /\ t = h - 1 - ahi
    <2>1. W - 1 - alo \in 0..(W - 1) /\ h - 1 - ahi \in 0..(W - 1)
      BY <1>1
    <2> QED
      BY <2>1
  <1>4. FpNeg(h, a) = FpFromWords(h, l, t)
    BY <1>1, <1>2, <1>3 DEF FpNeg
  <1>5. l + t * W = Modulus(h) - Value(h, a)
    <2>1. t * W = h * W - W - ahi * W
      BY <1>3, Z3
    <2>2. l + t * W = (h * W - 1) - (ahi * W + alo)
      BY <1>3, <2>1, Z3
    <2> QED
      BY <1>1, <1>2, <2>2 DEF Modulus
  <1>6. IsReduced(h, FpFromWords(h, l, t))
    BY <1>1, FromWords
  <1>7. PICK k \in 0..2 : l + t * W = Value(h, FpFromWords(h, l, t)) + k * Modulus(h)
    BY <1>1, FromWords
  <1> QED
    BY <1>4, <1>5, <1>6, <1>7

\* fp_mul: the reduced product differs from the product of the values by a
\* multiple of the modulus.
LEMMA MulValue ==
    ASSUME NEW h \in Nat, h >= 2, NEW a, NEW b, IsReduced(h, a), IsReduced(h, b)
    PROVE  /\ IsReduced(h, FpMul(h, a, b))
           /\ \E k \in Int : Value(h, a) * Value(h, b) = Value(h, FpMul(h, a, b)) + k * Modulus(h)
  <1>1. PICK W \in Nat \ {0} : W = 2 * h /\ W = Word(h)
    BY DEF Word
  <1>2. PICK alo \in 0..(W - 1), ahi \in 0..(h - 1) :
            alo = a.lo /\ ahi = a.hi /\ Value(h, a) = ahi * W + alo
    <2>1. a.lo \in 0..(W - 1) /\ a.hi \in 0..(h - 1) /\ Value(h, a) = a.hi * W + a.lo
      BY <1>1, ValueRange
    <2> QED
      BY <2>1
  <1>30. PICK blo \in 0..(W - 1), bhi \in 0..(h - 1) :
            blo = b.lo /\ bhi = b.hi /\ Value(h, b) = bhi * W + blo
    <2>1. b.lo \in 0..(W - 1) /\ b.hi \in 0..(h - 1) /\ Value(h, b) = b.hi * W + b.lo
      BY <1>1, ValueRange
    <2> QED
      BY <2>1
  \* The carries of the product.
  <1>3. alo * blo \in Nat /\ alo * bhi \in Nat /\ ahi * blo \in Nat /\ ahi * bhi \in Nat
    BY Z3
  <1>4. PICK q0 \in Nat, s0 \in 0..(W - 1) :
            (alo * blo) \div W = q0 /\ (alo * blo) % W = s0 /\ alo * blo = q0 * W + s0
    BY <1>3, DivMod
  <1>5. PICK q1 \in Nat, s1 \in 0..(W - 1) :
            (alo * bhi) \div W = q1 /\ (alo * bhi) % W = s1 /\ alo * bhi = q1 * W + s1
    BY <1>3, DivMod
  <1>6. PICK q2 \in Nat, s2 \in 0..(W - 1) :
            (ahi * blo) \div W = q2 /\ (ahi * blo) % W = s2 /\ ahi * blo = q2 * W + s2
    BY <1>3, DivMod
  <1>7. PICK q3 \in Nat, s3 \in 0..(W - 1) :
            (ahi * bhi) \div W = q3 /\ (ahi * bhi) % W = s3 /\ ahi * bhi = q3 * W + s3
    BY <1>3, DivMod
  <1>8. PICK c1 \in Nat, z1 \in 0..(W - 1) :
            /\ (q0 + s1 + s2) \div W = c1 /\ (q0 + s1 + s2) % W = z1
            /\ q0 + s1 + s2 = c1 * W + z1
    <2>1. q0 + s1 + s2 \in Nat
      OBVIOUS
    <2> QED
      BY <2>1, DivMod
  <1>9. PICK c2 \in Nat, z2 \in 0..(W - 1) :
            /\ (q1 + q2 + s3 + c1) \div W = c2 /\ (q1 + q2 + s3 + c1) % W = z2
            /\ q1 + q2 + s3 + c1 = c2 * W + z2
    <2>1. q1 + q2 + s3 + c1 \in Nat
      OBVIOUS
    <2> QED
      BY <2>1, DivMod
  \* They leave room in the top word.
  <1>10. q3 + c2 < h
    <2>1. q0 <= W - 1
      <3>1. alo * blo <= (W - 1) * (W - 1)
        BY Z3
      <3>2. q0 * W < W * W
        BY <1>4, <3>1, Z3
      <3> QED
        BY <3>2, Z3
    <2>2. q1 <= h - 1
      <3>1. alo * bhi <= (W - 1) * (h - 1)
        BY Z3
      <3>2. q1 * W < h * W
        BY <1>5, <3>1, Z3
      <3> QED
        BY <3>2, Z3
    <2>3. q2 <= h - 1
      <3>1. ahi * blo <= (h - 1) * (W - 1)
        BY Z3
      <3>2. q2 * W < h * W
        BY <1>6, <3>1, Z3
      <3> QED
        BY <3>2, Z3
    <2>4. 2 * q3 <= h - 1
      <3>1. ahi * bhi <= (h - 1) * (h - 1)
        BY Z3
      <3>2. q3 * W <= (h - 1) * (h - 1)
        BY <1>7, <3>1, Z3
      <3>3. (2 * q3) * h < h * h
        BY <1>1, <3>2, Z3
      <3> QED
        BY <3>3, Z3
    <2>5. c1 <= 2
      <3>1. c1 * W < 3 * W
        BY <1>8, <2>1, Z3
      <3> QED
        BY <3>1, Z3
    <2>6. c2 <= 1
      <3>1. c2 * W < 2 * W
        BY <1>1, <1>9, <2>2, <2>3, <2>5, Z3
      <3> QED
        BY <3>1, Z3
    <2> QED
      BY <2>4, <2>6, Z3
  <1>11. PICK z3 \in 0..(h - 1) : z3 = q3 + c2 /\ (q3 + c2) % W = z3 /\ z3 \div h = 0
    <2>1. PICK z3 \in 0..(h - 1) : z3 = q3 + c2
      BY <1>10
    <2>2. z3 % W = z3
      <3>1. z3 \in 0..(2 * W - 1) /\ z3 < W
        BY <1>1
      <3> QED
        BY <3>1, SmallDiv
    <2>3. z3 \div h = 0
      <3>1. z3 \in 0..(2 * h - 1) /\ z3 < h /\ h \in Nat \ {0}
        OBVIOUS
      <3> QED
        BY <3>1, SmallDiv
    <2> QED
      BY <2>1, <2>2, <2>3
  <1>12. Mul128x128(h, a, b) = <<s0, z1, z2, z3>>
    BY <1>1, <1>2, <1>30, <1>4, <1>5, <1>6, <1>7, <1>8, <1>9, <1>11 DEF Mul128x128
  <1>13. Value(h, a) * Value(h, b) = s0 + z1 * W + (z2 + z3 * W) * (W * W)
    <2>1. (ahi * W + alo) * (bhi * W + blo) = s0 + z1 * W + (z2 + (q3 + c2) * W) * (W * W)
      BY <1>4, <1>5, <1>6, <1>7, <1>8, <1>9, ProductValue
    <2> QED
      BY <1>2, <1>30, <1>11, <2>1
  \* The carries of the reduction.
  <1>14. PICK e1 \in {0, 1}, l1 \in 0..(h - 1) : z1 \div h = e1 /\ z1 % h = l1 /\ z1 = e1 * h + l1
    BY <1>1, SmallSplit
  <1>15. PICK e2 \in {0, 1}, r2 \in 0..(h - 1) : z2 \div h = e2 /\ z2 % h = r2 /\ z2 = e2 * h + r2
    BY <1>1, SmallSplit
  <1>16. (e1 + 2 * z2) % W = e1 + 2 * r2
    <2>1. e1 + 2 * z2 = e2 * W + (e1 + 2 * r2)
      BY <1>1, <1>15, Z3
    <2>2. e1 + 2 * r2 \in 0..(W - 1)
      BY <1>1
    <2> QED
      BY <2>1, <2>2, ModUnique
  <1>17. (e2 + 2 * z3) % W = e2 + 2 * z3
    <2>1. PICK v \in 0..(W - 1) : v = e2 + 2 * z3
      BY <1>1
    <2>2. v % W = v
      BY SmallDiv
    <2> QED
      BY <2>1, <2>2
  <1>18. PICK c0 \in {0, 1}, y0 \in 0..(W - 1) :
             /\ (s0 + (e1 + 2 * r2)) \div W = c0 /\ (s0 + (e1 + 2 * r2)) % W = y0
             /\ s0 + (e1 + 2 * r2) = c0 * W + y0
    <2>1. s0 + (e1 + 2 * r2) \in 0..(2 * W - 1)
      BY <1>1
    <2> QED
      BY <2>1, SmallSplit
  <1>19. PICK d1 \in {0, 1}, x1 \in 0..(W - 1) :
             /\ (l1 + (e2 + 2 * z3) + c0) \div W = d1 /\ (l1 + (e2 + 2 * z3) + c0) % W = x1
             /\ l1 + (e2 + 2 * z3) + c0 = d1 * W + x1
    <2>1. l1 + (e2 + 2 * z3) + c0 \in 0..(2 * W - 1)
      BY <1>1
    <2> QED
      BY <2>1, SmallSplit
  <1>20. PICK e3 \in {0, 1}, r3 \in 0..(h - 1) : x1 \div h = e3 /\ x1 % h = r3 /\ x1 = e3 * h + r3
    BY <1>1, SmallSplit
  <1>21. PICK g \in 0..(W - 1) : g = e3 + 2 * d1 /\ g % W = g
    <2>1. e3 + 2 * d1 \in 0..(W - 1)
      BY <1>1
    <2> QED
      BY <2>1, SmallDiv
  <1>22. PICK c3 \in {0, 1}, lo \in 0..(W - 1) :
             (y0 + g) \div W = c3 /\ (y0 + g) % W = lo /\ y0 + g = c3 * W + lo
    <2>1. y0 + g \in 0..(2 * W - 1)
      OBVIOUS
    <2> QED
      BY <2>1, SmallSplit
  <1>23. PICK hi \in 0..(W - 1) : hi = r3 + c3 /\ hi % W = hi
    <2>1. r3 + c3 \in 0..(W - 1)
      BY <1>1
    <2> QED
      BY <2>1, SmallDiv
  <1>24. FpMul(h, a, b) = FpFromWords(h, lo, hi)
    <2>1. FpMul(h, a, b) = FpReduce256(h, <<s0, z1, z2, z3>>)
      BY <1>12 DEF FpMul
    <2>2. FpReduce256(h, <<s0, z1, z2, z3>>) = FpFromWords(h, lo, hi)
      <3> DEFINE z == <<s0, z1, z2, z3>>
                 h0 == (z[2] \div h + 2 * z[3]) % Word(h)
                 h1 == (z[3] \div h + 2 * z[4]) % Word(h)
                 t0 == z[1] + h0
                 t1 == (z[2] % h) + h1 + t0 \div Word(h)
                 top == t1 % Word(h)
                 x2 == z[4] \div h + t1 \div Word(h)
                 low == (t0 % Word(h)) + ((top \div h + 2 * x2) % Word(h))
      <3>1. z[1] = s0 /\ z[2] = z1 /\ z[3] = z2 /\ z[4] = z3
        OBVIOUS
      <3>2. FpReduce256(h, z) =
                FpFromWords(h, low % Word(h), ((top % h) + low \div Word(h)) % Word(h))
        BY Zenon DEF FpReduce256
      <3> HIDE DEF z
      <3>3. h0 = e1 + 2 * r2
        BY <1>1, <1>14, <1>16, <3>1
      <3>4. h1 = e2 + 2 * z3
        BY <1>1, <1>15, <1>17, <3>1
      <3> HIDE DEF h0, h1
      <3>5. t0 \div Word(h) = c0 /\ t0 % Word(h) = y0
        BY <1>1, <1>18, <3>1, <3>3
      <3> HIDE DEF t0
      <3>6. t1 \div Word(h) = d1 /\ top = x1
        BY <1>1, <1>14, <1>19, <3>1, <3>4, <3>5
      <3> HIDE DEF t1, top
      <3>7. x2 = d1
        BY <1>11, <3>1, <3>6
      <3> HIDE DEF x2
      <3>8. low = y0 + g
        BY <1>1, <1>20, <1>21, <3>5, <3>6, <3>7
      <3>9. (top % h) + low \div Word(h) = hi
        BY <1>1, <1>20, <1>22, <1>23, <3>6, <3>8
      <3>10. low % Word(h) = lo
        BY <1>1, <1>22, <3>8
      <3> HIDE DEF low
      <3> QED
        BY <1>1, <1>23, <3>2, <3>9, <3>10 DEF z
    <2> QED
      BY <2>1, <2>2
  <1>25. PICK k1 \in Int : Value(h, a) * Value(h, b) = (y0 + g) + r3 * W + k1 * Modulus(h)
    <2> DEFINE k1 == g + (e1 + 2 * r2) + (e2 + 2 * z3) * W
    <2>1. k1 \in Int
      BY Z3
    <2>2. s0 + z1 * W + (z2 + z3 * W) * (W * W) = (y0 + g) + r3 * W + k1 * (h * W - 1)
      BY <1>1, <1>14, <1>15, <1>18, <1>19, <1>20, <1>21, FoldValue
    <2> HIDE DEF k1
    <2> QED
      BY <1>1, <1>13, <2>1, <2>2 DEF Modulus
  <1>26. (y0 + g) + r3 * W = lo + hi * W
    <2>1. hi * W = r3 * W + c3 * W
      BY <1>23, Z3
    <2> QED
      BY <1>22, <2>1, Z3
  <1>27. PICK k2 \in 0..2 : lo + hi * W = Value(h, FpMul(h, a, b)) + k2 * Modulus(h)
    <2>1. lo \in 0..(Word(h) - 1) /\ hi \in 0..(Word(h) - 1)
      BY <1>1
    <2>2. \E k \in 0..2 :
              lo + hi * Word(h) = Value(h, FpFromWords(h, lo, hi)) + k * Modulus(h)
      BY <2>1, FromWords
    <2> QED
      BY <1>1, <1>24, <2>2
  <1>28. IsReduced(h, FpMul(h, a, b))
    BY <1>1, <1>24, FromWords
  <1>29. Value(h, a) * Value(h, b) = Value(h, FpMul(h, a, b)) + (k1 + k2) * Modulus(h)
    <2>1. Modulus(h) \in Nat /\ Value(h, FpMul(h, a, b)) \in Nat
      BY <1>28, ModulusPositive, ValueRange
    <2>2. (k1 + k2) * Modulus(h) = k1 * Modulus(h) + k2 * Modulus(h)
      BY <2>1, Z3
    <2> QED
      BY <1>25, <1>26, <1>27, <2>1, <2>2
  <1> QED
    BY <1>28, <1>29

\* fp_add and fp_sub: for every word size the result is reduced and is the sum
\* or the difference of the values modulo the modulus, whatever carries,
\* borrows and subtractions of the modulus it took.
THEOREM AdditionRight == \A h \in Nat : h >= 2 => AddRight(h)
  <1> SUFFICES ASSUME NEW h \in Nat, h >= 2, NEW a \in Reduced(h), NEW b \in Reduced(h)
               PROVE  /\ IsReduced(h, FpAdd(h, a, b)) /\ IsReduced(h, FpSub(h, a, b))
                      /\ Value(h, FpAdd(h, a, b)) = (Value(h, a) + Value(h, b)) % Modulus(h)
                      /\ Value(h, FpSub(h, a, b)) = (Value(h, a) - Value(h, b)) % Modulus(h)
    BY DEF AddRight
  <1>1. IsReduced(h, a) /\ IsReduced(h, b)
    BY DEF Reduced, IsReduced
  <1>2. PICK m \in Nat \ {0} : m = Modulus(h)
    BY ModulusPositive
  <1>3. PICK va \in 0..(m - 1), vb \in 0..(m - 1) : va = Value(h, a) /\ vb = Value(h, b)
    BY <1>1, <1>2, ValueRange
  <1>4. PICK s \in 0..(m - 1), k \in 0..2 : s = Value(h, FpAdd(h, a, b)) /\ va + vb = s + k * m
    <2>1. IsReduced(h, FpAdd(h, a, b))
      BY <1>1, AddValue
    <2>2. Value(h, FpAdd(h, a, b)) \in 0..(m - 1)
      BY <1>2, <2>1, ValueRange
    <2>3. \E k \in 0..2 : Value(h, a) + Value(h, b) = Value(h, FpAdd(h, a, b)) + k * Modulus(h)
      BY <1>1, AddValue
    <2> QED
      BY <1>2, <1>3, <2>2, <2>3
  <1>5. (va + vb) % m = s
    <2>1. va + vb = k * m + s
      BY <1>4
    <2> QED
      BY <2>1, ModUnique
  <1>6. PICK n \in 0..(m - 1), j \in 0..2 : n = Value(h, FpNeg(h, b)) /\ m - vb = n + j * m
    BY <1>1, <1>2, <1>3, NegValue, ValueRange
  <1>7. IsReduced(h, FpNeg(h, b))
    BY <1>1, NegValue
  <1>8. PICK d \in 0..(m - 1), i \in 0..2 : d = Value(h, FpSub(h, a, b)) /\ va + n = d + i * m
    <2>1. IsReduced(h, FpSub(h, a, b))
      BY <1>1, <1>7, AddValue DEF FpSub
    <2>2. Value(h, FpSub(h, a, b)) \in 0..(m - 1)
      BY <1>2, <2>1, ValueRange
    <2>3. \E c \in 0..2 :
              Value(h, a) + Value(h, FpNeg(h, b)) = Value(h, FpSub(h, a, b)) + c * Modulus(h)
      BY <1>1, <1>7, AddValue DEF FpSub
    <2> QED
      BY <1>2, <1>3, <1>6, <2>2, <2>3
  <1>9. (va - vb) % m = d
    <2>1. va - vb = (i + j - 1) * m + d
      BY <1>6, <1>8
    <2> QED
      BY <2>1, ModUnique
  <1>10. IsReduced(h, FpAdd(h, a, b)) /\ IsReduced(h, FpSub(h, a, b))
    BY <1>1, <1>7, AddValue DEF FpSub
  <1> QED
    BY <1>2, <1>3, <1>4, <1>5, <1>8, <1>9, <1>10

\* fp_mul: for every word size the four words of the product, folded twice,
\* give the reduced product modulo the modulus; no carry is lost on the way.
THEOREM MultiplicationRight == \A h \in Nat : h >= 2 => MulRight(h)
  <1> SUFFICES ASSUME NEW h \in Nat, h >= 2, NEW a \in Reduced(h), NEW b \in Reduced(h)
               PROVE  /\ IsReduced(h, FpMul(h, a, b))
                      /\ Value(h, FpMul(h, a, b)) = (Value(h, a) * Value(h, b)) % Modulus(h)
    BY DEF MulRight
  <1>1. IsReduced(h, a) /\ IsReduced(h, b)
    BY DEF Reduced, IsReduced
  <1>2. PICK m \in Nat \ {0} : m = Modulus(h)
    BY ModulusPositive
  <1>3. IsReduced(h, FpMul(h, a, b))
    BY <1>1, MulValue
  <1>4. PICK v \in 0..(m - 1) : v = Value(h, FpMul(h, a, b))
    BY <1>2, <1>3, ValueRange
  <1>5. PICK p \in Int : p = Value(h, a) * Value(h, b)
    <2>1. Value(h, a) \in Int /\ Value(h, b) \in Int
      BY <1>1, <1>2, ValueRange
    <2> QED
      BY <2>1, Z3
  <1>6. PICK k \in Int : p = k * m + v
    BY <1>1, <1>2, <1>4, <1>5, MulValue
  <1> QED
    BY <1>2, <1>3, <1>4, <1>5, <1>6, ModUnique

\* fp_from_i64 and fp_to_i64: for every word size a signed word and its value
\* name each other, the smallest signed word included, and the two words
\* fhe_calc.ml makes of a signed amount are those of fp_from_i64.
THEOREM SignedWordsRight == \A h \in Nat : h >= 2 => SignedRight(h)
  <1> SUFFICES ASSUME NEW h \in Nat, h >= 2
               PROVE  SignedRight(h)
    OBVIOUS
  <1>1. PICK W \in Nat \ {0}, m \in Nat \ {0} : W = 2 * h /\ W = Word(h) /\ m = Modulus(h) /\ m = h * W - 1
    BY ModulusPositive DEF Word, Modulus
  <1>2. m >= 3 * h + 1 /\ m \div 2 >= h
    <2>1. h * W >= 4 * h
      BY <1>1, Z3
    <2> QED
      BY <2>1, <1>1, Z3
  <1>3. m \div 2 < m - h
    <2>1. m \div 2 <= m - h - 1
      BY <1>1, <1>2, Z3
    <2> QED
      BY <2>1, <1>1, Z3
  <1>4. ASSUME NEW k \in 0..(h - 1)
        PROVE  FpFromI64(h, k) = [lo |-> k, hi |-> 0]
    <2>1. k % W = k /\ k \div W = 0
      <3>1. k \in 0..(2 * W - 1) /\ k < W
        BY <1>1
      <3> QED
        BY <3>1, SmallDiv
    <2> QED
      BY <1>1, <2>1 DEF FpFromI64, FpOf
  <1>5. ASSUME NEW k \in -h..-1
        PROVE  FpFromI64(h, k) = [lo |-> W - 1 + k, hi |-> h - 1]
    <2>1. PICK n \in 1..h : n = -k
      BY Z3
    <2>2. n % W = n /\ n \div W = 0
      <3>1. n \in 0..(2 * W - 1) /\ n < W
        BY <1>1
      <3> QED
        BY <3>1, SmallDiv
    <2>3. FpFromI64(h, k) = FpFromWords(h, W - 1 - n, h - 1)
      BY <1>1, <2>1, <2>2 DEF FpFromI64, FpOf, FpNeg
    <2>4. (h - 1) \div h = 0 /\ (h - 1) % h = h - 1
      BY SmallDiv
    <2>5. PICK l \in 0..(W - 2) : l = W - 1 - n
      BY <1>1
    <2>6. l % W = l /\ l \div W = 0
      <3>1. l \in 0..(2 * W - 1) /\ l < W
        BY <1>1
      <3> QED
        BY <3>1, SmallDiv
    <2>7. FpFromWords(h, l, h - 1) = [lo |-> l, hi |-> h - 1]
      <3>1. l + (h - 1) \div h = l /\ ((h - 1) % h) + l \div W = h - 1
        BY <2>4, <2>6
      <3> QED
        BY <1>1, <2>6, <3>1 DEF FpFromWords
    <2> QED
      BY <2>1, <2>3, <2>5, <2>7
  <1>6. ASSUME NEW k \in 0..(h - 1)
        PROVE  FpToI64(h, [lo |-> k, hi |-> 0]) = {k}
    <2>1. Value(h, [lo |-> k, hi |-> 0]) = k
      BY <1>1 DEF Value
    <2> QED
      BY <2>1, <1>1, <1>2 DEF FpToI64
  <1>7. ASSUME NEW k \in -h..-1
        PROVE  FpToI64(h, [lo |-> W - 1 + k, hi |-> h - 1]) = {k}
    <2>1. Value(h, [lo |-> W - 1 + k, hi |-> h - 1]) = m + k
      <3>1. (h - 1) * W = h * W - W
        BY <1>1, Z3
      <3> QED
        BY <1>1, <3>1 DEF Value
    <2>2. m + k > m \div 2 /\ m + k < m /\ m - (m + k) = -k /\ m + k >= h
      BY <1>2, <1>3, <1>1, Z3
    <2>3. m \div 2 \in Nat
      BY <1>1, Z3
    <2> QED
      BY <2>1, <2>2, <2>3, <1>1 DEF FpToI64
  <1>8. ASSUME NEW k \in Signed(h)
        PROVE  /\ FpToI64(h, FpFromI64(h, k)) = {k}
               /\ AddIntWords(h, k) = FpFromI64(h, k)
    <2>1. CASE k >= 0
      <3>1. k \in 0..(h - 1)
        BY <2>1 DEF Signed
      <3> QED
        BY <3>1, <1>4, <1>6 DEF AddIntWords
    <2>2. CASE k < 0
      <3>1. k \in -h..-1
        BY <2>2 DEF Signed
      <3>2. (k - 1) % W = W - 1 + k
        <4>1. W - 1 + k \in 0..(W - 1) /\ k - 1 = (-1) * W + (W - 1 + k)
          BY <3>1, <1>1
        <4> QED
          BY <4>1, ModUnique
      <3>3. AddIntWords(h, k) = [lo |-> W - 1 + k, hi |-> h - 1]
        BY <2>2, <1>1, <3>2 DEF AddIntWords
      <3> QED
        BY <3>1, <3>3, <1>5, <1>7
    <2> QED
      BY <2>1, <2>2 DEF Signed
  <1>9. ASSUME NEW x \in Reduced(h), NEW k \in FpToI64(h, x)
        PROVE  FpFromI64(h, k) = x
    <2>0. PICK xl \in 0..(W - 1), xh \in 0..(h - 1) :
            x = [lo |-> xl, hi |-> xh] /\ Value(h, x) = xh * W + xl /\ Value(h, x) < m
      BY <1>1 DEF Reduced, Fp, Value
    <2>1. PICK v \in 0..(m - 1) : v = Value(h, x) /\ v = xh * W + xl
      <3>1. xh * W >= 0 /\ xh * W \in Int
        BY <1>1, Z3
      <3> QED
        BY <2>0, <1>1, <3>1
    <2>9. m \div 2 \in Nat
      BY <1>1, Z3
    <2>2. v < h \/ (v > m \div 2 /\ m - v <= h)
      BY <2>1, <2>9, <1>1 DEF FpToI64
    <2>3. CASE v < h
      <3>1. k = v
        BY <2>3, <2>1, <1>1, <1>2 DEF FpToI64
      <3>2. xh = 0
        <4>1. CASE xh >= 1
          <5>1. xh * W >= W
            BY <4>1, <1>1, Z3
          <5> QED
            BY <5>1, <2>1, <2>3, <1>1, Z3
        <4> QED
          BY <4>1
      <3>3. xl = v
        BY <3>2, <2>1, <1>1, Z3
      <3> QED
        BY <3>1, <3>2, <3>3, <2>0, <2>3, <1>4
    <2>4. CASE v > m \div 2 /\ m - v <= h
      <3>1. k = v - m
        BY <2>4, <2>1, <2>9, <1>1, <1>2 DEF FpToI64
      <3>2. xh = h - 1
        <4>1. CASE xh <= h - 2
          <5>1. xh * W <= (h - 2) * W /\ (h - 2) * W = h * W - 2 * W
            BY <4>1, <1>1, Z3
          <5> QED
            BY <5>1, <2>1, <2>4, <1>1, Z3
        <4> QED
          BY <4>1
      <3>3. xl = W - 1 + k
        <4>1. (h - 1) * W = h * W - W
          BY <1>1, Z3
        <4> QED
          BY <4>1, <3>1, <3>2, <2>1, <1>1, Z3
      <3>4. k \in -h..-1
        BY <3>1, <2>4, <2>1
      <3> QED
        BY <3>2, <3>3, <3>4, <2>0, <1>5
    <2> QED
      BY <2>2, <2>3, <2>4
  <1> QED
    BY <1>8, <1>9 DEF SignedRight

\* fp_add, fp_sub and fp_mul never lose a carry and never return a value that
\* is not reduced, and fp_from_i64, fp_to_i64 and the words fhe_calc.ml makes of
\* a signed amount agree on every signed word, for every size of word.
THEOREM WordsAlwaysAgree == Spec => []WordsAgree
  <1>1. WordsAgree
    BY WordsAssumption, AdditionRight, MultiplicationRight, SignedWordsRight DEF WordsAgree
  <1> QED
    BY <1>1, PTL

-----------------------------------------------------------------------------
(* Positions of layers and edges *)

\* A layer and an edge, with the fields that references are about.  Body and
\* Rest stand for everything else they hold.
Layers(Body) == [rule : STRING, pa : Nat, pb : Nat, body : Body]

\* Edges of any layer, with whatever else they carry.
Edges(Rest) == [lid : Nat, rest : Rest]

-----------------------------------------------------------------------------

\* The two halves of a concatenation.
LEMMA Halves ==
    ASSUME NEW T, NEW s \in Seq(T), NEW t \in Seq(T)
    PROVE  /\ Len(s \o t) = Len(s) + Len(t)
           /\ \A i \in 1..Len(s) : (s \o t)[i] = s[i]
           /\ \A i \in 1..Len(t) : (s \o t)[Len(s) + i] = t[i]
  OBVIOUS

\* Moving or renaming changes a product's parents, and nothing else of a layer.
LEMMA LayerRenamed ==
    ASSUME NEW Body, NEW x \in Layers(Body), NEW n \in Nat, NEW S
    PROVE  /\ MoveLayer(x, n) \in Layers(Body)
           /\ IsProd(MoveLayer(x, n)) <=> IsProd(x)
           /\ IsProd(x) => MoveLayer(x, n).pa = x.pa + n /\ MoveLayer(x, n).pb = x.pb + n
           /\ IsProd(RemapLayer(S, x)) <=> IsProd(x)
           /\ IsProd(x) => /\ RemapLayer(S, x).pa = Remap(S, x.pa)
                           /\ RemapLayer(S, x).pb = Remap(S, x.pb)
  <1>1. x.pa + n \in Nat /\ x.pb + n \in Nat
    BY DEF Layers
  <1>2. CASE IsProd(x)
    <2>1. PICK a \in Nat, b \in Nat : a = x.pa + n /\ b = x.pb + n
      BY <1>1
    <2>2. PICK y : y = [x EXCEPT !.pa = a, !.pb = b] /\ y = MoveLayer(x, n)
      BY <1>2, <2>1, Zenon DEF MoveLayer
    <2>3. y.pa = a /\ y.pb = b /\ y.rule = x.rule /\ y \in Layers(Body)
      BY <2>2, Zenon DEF Layers
    <2>4. PICK c, d : c = Remap(S, x.pa) /\ d = Remap(S, x.pb)
      OBVIOUS
    <2>5. PICK z : z = [x EXCEPT !.pa = c, !.pb = d] /\ z = RemapLayer(S, x)
      BY <1>2, <2>4, Zenon DEF RemapLayer
    <2>6. z.pa = c /\ z.pb = d /\ z.rule = x.rule
      BY <2>5, Zenon DEF Layers
    <2> QED
      BY <1>2, <2>1, <2>2, <2>3, <2>4, <2>5, <2>6, Zenon DEF IsProd
  <1>3. CASE ~IsProd(x)
    BY <1>3, Zenon DEF MoveLayer, RemapLayer
  <1> QED
    BY <1>2, <1>3

\* The same for the layer of an edge.
LEMMA EdgeRenamed ==
    ASSUME NEW Rest, NEW e \in Edges(Rest), NEW n \in Nat, NEW r
    PROVE  /\ [e EXCEPT !.lid = @ + n] \in Edges(Rest)
           /\ [e EXCEPT !.lid = @ + n].lid = e.lid + n
           /\ [e EXCEPT !.lid = r].lid = r
  BY DEF Edges

\* append_layers and append_edges of fuse and ct_add: a joined ciphertext has
\* the first one's layers where they were and the second one's above them, its
\* products pointing at their own parents, and its edges at their own layers.
THEOREM JoinKeepsReferences ==
    ASSUME NEW Body, NEW Rest,
           NEW LA \in Seq(Layers(Body)), NEW LB \in Seq(Layers(Body)),
           NEW EA \in Seq(Edges(Rest)), NEW EB \in Seq(Edges(Rest)),
           ParentsBelow(LA), ParentsBelow(LB), EdgesPlaced(LA, EA), EdgesPlaced(LB, EB)
    PROVE  /\ ParentsBelow(JoinLayers(LA, LB))
           /\ EdgesPlaced(JoinLayers(LA, LB), JoinEdges(LA, EA, EB))
           /\ \A i \in 1..Len(LA) : JoinLayers(LA, LB)[i] = LA[i]
           /\ \A i \in 1..Len(LB) :
                  JoinLayers(LA, LB)[Len(LA) + i] = MoveLayer(LB[i], Len(LA))
  <1> DEFINE n == Len(LA)
             M == MoveLayers(LB, n)
             N == MoveEdges(EB, n)
             J == JoinLayers(LA, LB)
             F == JoinEdges(LA, EA, EB)
  <1>1. n \in Nat /\ Len(LB) \in Nat /\ Len(EA) \in Nat /\ Len(EB) \in Nat
    OBVIOUS
  <1>2. ASSUME NEW i \in 1..Len(LB)
        PROVE  /\ MoveLayer(LB[i], n) \in Layers(Body)
               /\ IsProd(MoveLayer(LB[i], n)) <=> IsProd(LB[i])
               /\ IsProd(LB[i]) => /\ MoveLayer(LB[i], n).pa = LB[i].pa + n
                                   /\ MoveLayer(LB[i], n).pb = LB[i].pb + n
    <2>1. LB[i] \in Layers(Body)
      OBVIOUS
    <2> QED
      BY <1>1, <2>1, LayerRenamed
  <1>3. M \in Seq(Layers(Body)) /\ Len(M) = Len(LB)
    BY <1>1, <1>2 DEF MoveLayers
  <1>4. ASSUME NEW k \in 1..Len(EB)
        PROVE  [EB[k] EXCEPT !.lid = @ + n] \in Edges(Rest)
               /\ [EB[k] EXCEPT !.lid = @ + n].lid = EB[k].lid + n
    <2>1. EB[k] \in Edges(Rest)
      OBVIOUS
    <2> QED
      BY <1>1, <2>1, EdgeRenamed
  <1>5. N \in Seq(Edges(Rest)) /\ Len(N) = Len(EB)
    BY <1>1, <1>4 DEF MoveEdges
  <1>6. Len(J) = n + Len(LB) /\ Len(F) = Len(EA) + Len(EB)
    <2>1. Len(J) = n + Len(LB)
      <3> HIDE DEF M
      <3>1. Len(LA \o M) = Len(LA) + Len(M)
        BY <1>3, Halves
      <3>2. J = LA \o M
        BY DEF JoinLayers, M
      <3> QED
        BY <1>3, <3>1, <3>2
    <2>2. Len(F) = Len(EA) + Len(EB)
      <3> HIDE DEF N
      <3>1. Len(EA \o N) = Len(EA) + Len(N)
        BY <1>5, Halves
      <3>2. F = EA \o N
        BY DEF JoinEdges, N
      <3> QED
        BY <1>5, <3>1, <3>2
    <2> QED
      BY <2>1, <2>2
  <1>7. \A i \in 1..n : J[i] = LA[i]
    BY <1>1, <1>3 DEF JoinLayers
  <1>8. \A i \in 1..Len(LB) : J[n + i] = MoveLayer(LB[i], n)
    <2> SUFFICES ASSUME NEW i \in 1..Len(LB) PROVE J[n + i] = MoveLayer(LB[i], n)
      OBVIOUS
    <2>1. J[n + i] = M[i]
      BY <1>1, <1>3 DEF JoinLayers
    <2> QED
      BY <2>1 DEF MoveLayers
  <1>9. ParentsBelow(J)
    <2> SUFFICES ASSUME NEW i \in 1..Len(J), IsProd(J[i])
                 PROVE  J[i].pa \in 1..(i - 1) /\ J[i].pb \in 1..(i - 1)
      BY DEF ParentsBelow
    <2>1. CASE i <= n
      <3>1. i \in 1..n
        BY <2>1, <1>1, <1>6
      <3>2. J[i] = LA[i] /\ IsProd(LA[i])
        BY <3>1, <1>7
      <3>3. LA[i].pa \in 1..(i - 1) /\ LA[i].pb \in 1..(i - 1)
        BY <3>1, <3>2 DEF ParentsBelow
      <3> QED
        BY <3>2, <3>3
    <2>2. CASE i > n
      <3>1. PICK j \in 1..Len(LB) : i = n + j
        <4>1. i - n \in 1..Len(LB) /\ i = n + (i - n)
          BY <2>2, <1>1, <1>6
        <4> QED
          BY <4>1
      <3>2. J[i] = MoveLayer(LB[j], n) /\ IsProd(LB[j])
        BY <3>1, <1>2, <1>8
      <3>3. LB[j].pa \in 1..(j - 1) /\ LB[j].pb \in 1..(j - 1)
        BY <3>2 DEF ParentsBelow
      <3>4. J[i].pa = LB[j].pa + n /\ J[i].pb = LB[j].pb + n
        BY <3>2, <1>2
      <3>5. PICK a \in 1..(j - 1), b \in 1..(j - 1) : J[i].pa = a + n /\ J[i].pb = b + n
        BY <3>3, <3>4
      <3>6. a + n \in 1..(i - 1) /\ b + n \in 1..(i - 1)
        BY <1>1, <3>1
      <3> QED
        BY <3>5, <3>6
    <2> QED
      BY <2>1, <2>2, <1>1, <1>6
  <1>10. EdgesPlaced(J, F)
    <2> SUFFICES ASSUME NEW k \in 1..Len(F) PROVE F[k].lid \in 1..Len(J)
      BY DEF EdgesPlaced
    <2>1. CASE k <= Len(EA)
      <3>1. F[k] = EA[k] /\ k \in 1..Len(EA)
        BY <2>1, <1>1, <1>5, <1>6 DEF JoinEdges
      <3> QED
        BY <3>1, <1>1, <1>6 DEF EdgesPlaced
    <2>2. CASE k > Len(EA)
      <3>1. PICK j \in 1..Len(EB) : k = Len(EA) + j
        <4>1. k - Len(EA) \in 1..Len(EB) /\ k = Len(EA) + (k - Len(EA))
          BY <2>2, <1>1, <1>6
        <4> QED
          BY <4>1
      <3>2. F[k] = N[j]
        BY <3>1, <1>1, <1>5 DEF JoinEdges
      <3>3. N[j] = [EB[j] EXCEPT !.lid = @ + n]
        BY DEF MoveEdges
      <3>4. F[k].lid = EB[j].lid + n
        BY <3>2, <3>3, <1>4
      <3>5. EB[j].lid \in 1..Len(LB)
        BY DEF EdgesPlaced
      <3> QED
        BY <3>4, <3>5, <1>1, <1>6
    <2> QED
      BY <2>1, <2>2, <1>1, <1>6
  <1> QED
    BY <1>7, <1>8, <1>9, <1>10

-----------------------------------------------------------------------------

\* The new positions of kept layers are in the old order, from 1 on, without
\* gaps.
LEMMA RemapOrders ==
    ASSUME NEW n \in Nat, NEW S \in SUBSET (1..n)
    PROVE  /\ IsFiniteSet(S) /\ Cardinality(S) \in Nat
           /\ \A i \in S : Remap(S, i) \in 1..Cardinality(S)
           /\ \A i, j \in S : i < j => Remap(S, i) < Remap(S, j)
           /\ \A k \in 1..Cardinality(S) : \E i \in S : Remap(S, i) = k
  <1> DEFINE c == Cardinality(S)
             Upto(i) == {j \in S : j <= i}
             f == [i \in S |-> Remap(S, i)]
  <1>1. IsFiniteSet(S) /\ c \in Nat
    <2>1. IsFiniteSet(1..n)
      BY FS_Interval
    <2>2. IsFiniteSet(S)
      BY <2>1, FS_Subset
    <2> QED
      BY <2>2, FS_CardinalityType
  <1>2. ASSUME NEW i \in S
        PROVE  /\ IsFiniteSet(Upto(i)) /\ Upto(i) \in SUBSET S
               /\ Remap(S, i) = Cardinality(Upto(i)) /\ Remap(S, i) \in 1..c
    <2>1. Upto(i) \in SUBSET S
      OBVIOUS
    <2>2. IsFiniteSet(Upto(i)) /\ Cardinality(Upto(i)) <= c
      BY <1>1, <2>1, FS_Subset
    <2>3. Cardinality(Upto(i)) \in Nat
      BY <2>2, FS_CardinalityType
    <2>4. Upto(i) # {}
      <3>1. i \in Upto(i)
        OBVIOUS
      <3> QED
        BY <3>1
    <2>5. Cardinality(Upto(i)) # 0
      BY <2>2, <2>4, FS_EmptySet
    <2>6. Remap(S, i) = Cardinality(Upto(i))
      BY DEF Remap
    <2> HIDE DEF Upto
    <2> QED
      BY <1>1, <2>1, <2>2, <2>3, <2>5, <2>6
  <1>3. ASSUME NEW i \in S, NEW j \in S, i < j
        PROVE  Remap(S, i) < Remap(S, j)
    <2>1. \A x \in Upto(i) : x \in Upto(j)
      <3> SUFFICES ASSUME NEW x \in S, x <= i PROVE x <= j
        OBVIOUS
      <3>1. x \in 1..n /\ i \in 1..n /\ j \in 1..n
        OBVIOUS
      <3> QED
        BY <1>3, <3>1
    <2>2. j \in Upto(j) /\ j \notin Upto(i)
      BY <1>3
    <2>3. IsFiniteSet(Upto(j)) /\ Cardinality(Upto(i)) <= Cardinality(Upto(j))
      BY <1>2, <2>1, FS_Subset
    <2>4. Upto(j) # Upto(i)
      BY <2>2
    <2>5. Cardinality(Upto(j)) # Cardinality(Upto(i))
      BY <2>1, <2>3, <2>4, FS_Subset
    <2>6. Remap(S, i) = Cardinality(Upto(i)) /\ Remap(S, j) = Cardinality(Upto(j))
      BY <1>2
    <2>7. Remap(S, i) \in 1..c /\ Remap(S, j) \in 1..c
      BY <1>2
    <2> HIDE DEF Upto
    <2> QED
      BY <2>3, <2>5, <2>6, <2>7, <1>1
  <1>4. ASSUME NEW k \in 1..c PROVE \E i \in S : Remap(S, i) = k
    <2>1. f \in [S -> 1..c]
      BY <1>2
    <2>2. \A i, j \in S : i # j => f[i] # f[j]
      <3> SUFFICES ASSUME NEW i \in S, NEW j \in S, i # j PROVE f[i] # f[j]
        OBVIOUS
      <3>1. i < j \/ j < i
        OBVIOUS
      <3>2. Remap(S, i) \in 1..c /\ Remap(S, j) \in 1..c
        BY <1>2
      <3>3. Remap(S, i) # Remap(S, j)
        BY <1>1, <1>3, <3>1, <3>2
      <3> QED
        BY <3>3
    <2>3. f \in Injection(S, 1..c)
      <3> HIDE DEF f
      <3> QED
        BY <2>1, <2>2, Fun_IsInj
    <2>4. IsFiniteSet(1..c) /\ Cardinality(1..c) = c
      BY <1>1, FS_Interval
    <2>5. f \in Surjection(S, 1..c)
      BY <2>3, <2>4, FS_Injection
    <2>6. \E i \in S : f[i] = k
      <3> HIDE DEF f
      <3> QED
        BY <2>5 DEF Surjection
    <2> QED
      BY <2>6
  <1> QED
    BY <1>1, <1>2, <1>3, <1>4

\* compact_layers: when the layers of a closed set are kept and every edge is at
\* one of them, layer i goes to position Remap(S, i) with its parents renamed
\* the same way, the parents stay below, and every edge is still placed.
THEOREM KeepKeepsReferences ==
    ASSUME NEW Body, NEW Rest, NEW L \in Seq(Layers(Body)), NEW E \in Seq(Edges(Rest)),
           NEW S \in SUBSET (1..Len(L)), Closed(L, S), ParentsBelow(L),
           \A k \in 1..Len(E) : E[k].lid \in S
    PROVE  /\ \A i \in S : KeepLayers(L, S)[Remap(S, i)] = RemapLayer(S, L[i])
           /\ ParentsBelow(KeepLayers(L, S))
           /\ EdgesPlaced(KeepLayers(L, S), KeepEdges(E, S))
  <1> DEFINE n == Len(L)
             c == Cardinality(S)
             J == KeepLayers(L, S)
  <1>1. n \in Nat /\ Len(E) \in Nat
    OBVIOUS
  <1>2. /\ IsFiniteSet(S) /\ c \in Nat
        /\ \A i \in S : Remap(S, i) \in 1..c
        /\ \A i, j \in S : i < j => Remap(S, i) < Remap(S, j)
        /\ \A k \in 1..c : \E i \in S : Remap(S, i) = k
    BY <1>1, RemapOrders
  <1>3. ASSUME NEW i \in S, NEW j \in S, Remap(S, i) = Remap(S, j)
        PROVE  i = j
    <2>1. i \in Nat /\ j \in Nat /\ (i < j \/ j < i \/ i = j)
      OBVIOUS
    <2>2. Remap(S, i) \in Nat /\ Remap(S, j) \in Nat
      BY <1>2
    <2> QED
      BY <1>2, <1>3, <2>1, <2>2
  <1>4. \A i \in S : KeptAt(S, Remap(S, i)) = i
    BY <1>3 DEF KeptAt
  <1>5. \A k \in 1..c : KeptAt(S, k) \in S /\ Remap(S, KeptAt(S, k)) = k
    BY <1>2 DEF KeptAt
  <1>6. J \in Seq({J[k] : k \in 1..c}) /\ Len(J) = c
    BY <1>2 DEF KeepLayers
  <1>7. \A k \in 1..c : J[k] = RemapLayer(S, L[KeptAt(S, k)])
    BY DEF KeepLayers
  <1>8. \A i \in S : J[Remap(S, i)] = RemapLayer(S, L[i])
    BY <1>2, <1>4, <1>7
  <1>9. ASSUME NEW i \in S
        PROVE  /\ IsProd(RemapLayer(S, L[i])) <=> IsProd(L[i])
               /\ IsProd(L[i]) => /\ RemapLayer(S, L[i]).pa = Remap(S, L[i].pa)
                                  /\ RemapLayer(S, L[i]).pb = Remap(S, L[i].pb)
    <2>1. L[i] \in Layers(Body)
      OBVIOUS
    <2> QED
      BY <2>1, LayerRenamed
  <1>10. ParentsBelow(J)
    <2> SUFFICES ASSUME NEW k \in 1..Len(J), IsProd(J[k])
                 PROVE  J[k].pa \in 1..(k - 1) /\ J[k].pb \in 1..(k - 1)
      BY DEF ParentsBelow
    <2>1. PICK i \in S : Remap(S, i) = k /\ J[k] = RemapLayer(S, L[i])
      BY <1>2, <1>6, <1>8
    <2>2. IsProd(L[i])
      BY <2>1, <1>9
    <2>3. L[i].pa \in S /\ L[i].pb \in S /\ L[i].pa < i /\ L[i].pb < i
      BY <2>2 DEF Closed, ParentsBelow
    <2>4. /\ Remap(S, L[i].pa) \in 1..c /\ Remap(S, L[i].pa) < k
          /\ Remap(S, L[i].pb) \in 1..c /\ Remap(S, L[i].pb) < k
      BY <1>2, <2>1, <2>3
    <2>5. J[k].pa = Remap(S, L[i].pa) /\ J[k].pb = Remap(S, L[i].pb)
      BY <2>1, <2>2, <1>9
    <2>6. k \in Nat
      BY <1>2, <1>6
    <2> QED
      BY <2>4, <2>5, <2>6, <1>2
  <1>11. EdgesPlaced(J, KeepEdges(E, S))
    <2>1. ASSUME NEW k \in 1..Len(E)
          PROVE  KeepEdges(E, S)[k].lid = Remap(S, E[k].lid)
      <3>1. E[k] \in Edges(Rest)
        OBVIOUS
      <3>2. KeepEdges(E, S)[k] = [E[k] EXCEPT !.lid = Remap(S, @)]
        BY DEF KeepEdges
      <3> QED
        BY <3>1, <3>2, EdgeRenamed
    <2>2. Len(KeepEdges(E, S)) = Len(E)
      BY <1>1 DEF KeepEdges
    <2>3. \A k \in 1..Len(E) : Remap(S, E[k].lid) \in 1..c
      BY <1>2
    <2> QED
      BY <1>6, <2>1, <2>2, <2>3 DEF EdgesPlaced
  <1> QED
    BY <1>8, <1>10, <1>11

\* A nonempty set of naturals has a least member.
LEMMA LeastNatural ==
    ASSUME NEW T, T \subseteq Nat, T # {}
    PROVE  \E x \in T : \A y \in T : x <= y
  <1> DEFINE R == OpToRel(<, Nat)
  <1>1. IsWellFoundedOn(R, Nat)
    BY NatLessThanWellFounded
  <1>2. \A x, y \in T : <<y, x>> \in R <=> y < x
    BY DEF OpToRel
  <1> HIDE DEF R
  <1>3. PICK x \in T : \A y \in T : ~(<<y, x>> \in R)
    BY <1>1, WFMin
  <1>4. ASSUME NEW y \in T PROVE x <= y
    <2>1. x \in Nat /\ y \in Nat
      OBVIOUS
    <2>2. ~(y < x)
      BY <1>2, <1>3
    <2> QED
      BY <2>1, <2>2
  <1> QED
    BY <1>4

\* A set of naturals that holds 0 and every successor of its members is Nat.
LEMMA Climb ==
    ASSUME NEW T \in SUBSET Nat, 0 \in T, \A n \in T : n + 1 \in T
    PROVE  T = Nat
  <1> DEFINE U == Nat \ T
  <1> SUFFICES ASSUME U # {} PROVE FALSE
    OBVIOUS
  <1>1. PICK x \in U : \A y \in U : x <= y
    BY LeastNatural
  <1>2. x \in Nat /\ x # 0 /\ x - 1 \in Nat /\ (x - 1) + 1 = x /\ ~(x <= x - 1)
    BY <1>1
  <1>3. x - 1 \in T
    BY <1>1, <1>2
  <1> QED
    BY <1>1, <1>2, <1>3

\* Max and Min name the member that bounds the set.
LEMMA MaxIs ==
    ASSUME NEW S, S \subseteq Int, NEW x \in S, \A y \in S : y <= x
    PROVE  Max(S) = x
  <1>1. \E z \in S : \A y \in S : z >= y
    <2>1. \A y \in S : x >= y
      <3> SUFFICES ASSUME NEW y \in S PROVE x >= y
        OBVIOUS
      <3>1. x \in Int /\ y \in Int
        OBVIOUS
      <3> QED
        BY <3>1
    <2> QED
      BY <2>1
  <1>2. Max(S) \in S /\ \A y \in S : Max(S) >= y
    BY <1>1, Zenon DEF Max
  <1>3. Max(S) \in Int /\ x \in Int /\ Max(S) <= x /\ Max(S) >= x
    BY <1>2
  <1> QED
    BY <1>3

\* The same for the least member.
LEMMA MinIs ==
    ASSUME NEW S, S \subseteq Int, NEW x \in S, \A y \in S : x <= y
    PROVE  Min(S) = x
  <1>1. \E z \in S : \A y \in S : z =< y
    OBVIOUS
  <1>2. Min(S) \in S /\ \A y \in S : Min(S) =< y
    BY <1>1, Zenon DEF Min
  <1>3. Min(S) \in Int /\ x \in Int /\ Min(S) <= x /\ x <= Min(S)
    BY <1>2
  <1> QED
    BY <1>3

\* The last of the places up to n, where it is there.
LEMMA MaxTop ==
    ASSUME NEW n \in Nat, NEW s \in SUBSET (1..n), n \in s
    PROVE  Max(s) = n
  <1>1. s \subseteq Int /\ \A y \in s : y <= n
    OBVIOUS
  <1> QED
    BY <1>1, MaxIs

\* A sequence, of whatever it holds.
IsSeq(s) == Len(s) \in Nat /\ s = [i \in 1..Len(s) |-> s[i]]

\* A function on 1..n is a sequence of length n.
LEMMA FnSeq ==
    ASSUME NEW n \in Nat, NEW f, f = [i \in 1..n |-> f[i]]
    PROVE  Len(f) = n /\ IsSeq(f) /\ DOMAIN f = 1..n /\ f \in Seq({f[i] : i \in 1..n})
  <1>1. f \in Seq({f[i] : i \in 1..n}) /\ DOMAIN f = 1..n
    OBVIOUS
  <1>2. Len(f) = n
    BY <1>1
  <1> QED
    BY <1>1, <1>2 DEF IsSeq

\* The table VSum folds by, for a sequence on 1..n.
VSumFold(g, seq, S, n) ==
    g = [s \in SUBSET (1..n) |->
            IF s = {} THEN Zeros(S) ELSE VAdd(g[s \ {Max(s)}], seq[Max(s)])]

\* Such a table exists: a table for one more place extends the one before.
LEMMA VSumFoldExists ==
    ASSUME NEW seq, NEW S, NEW n \in Nat
    PROVE  \E g : VSumFold(g, seq, S, n)
  <1> DEFINE T == {m \in Nat : \E g : VSumFold(g, seq, S, m)}
  <1>1. 0 \in T
    <2> DEFINE g == [s \in SUBSET (1..0) |-> Zeros(S)]
    <2>1. \A s \in SUBSET (1..0) : s = {}
      OBVIOUS
    <2>2. g = [s \in SUBSET (1..0) |->
                  IF s = {} THEN Zeros(S) ELSE VAdd(g[s \ {Max(s)}], seq[Max(s)])]
      BY <2>1, Zenon
    <2> QED
      BY <2>2 DEF VSumFold
  <1>2. ASSUME NEW m \in T PROVE m + 1 \in T
    <2>1. PICK g : VSumFold(g, seq, S, m)
      OBVIOUS
    <2> DEFINE h == [s \in SUBSET (1..(m + 1)) |->
                       IF m + 1 \in s THEN VAdd(g[s \ {m + 1}], seq[m + 1]) ELSE g[s]]
    <2>2. m \in Nat /\ m + 1 \in Nat
      OBVIOUS
    <2>3. ASSUME NEW s \in SUBSET (1..(m + 1))
          PROVE  h[s] = IF s = {} THEN Zeros(S) ELSE VAdd(h[s \ {Max(s)}], seq[Max(s)])
      <3>1. CASE m + 1 \in s
        <4>1. Max(s) = m + 1
          BY <2>2, <3>1, MaxTop
        <4>2. s \ {m + 1} \in SUBSET (1..(m + 1)) /\ m + 1 \notin s \ {m + 1}
          OBVIOUS
        <4>3. h[s \ {m + 1}] = g[s \ {m + 1}]
          BY <4>2, Zenon
        <4>4. h[s] = VAdd(g[s \ {m + 1}], seq[m + 1])
          BY <3>1, Zenon
        <4> HIDE DEF h
        <4> QED
          BY <3>1, <4>1, <4>3, <4>4, Zenon
      <3>2. CASE m + 1 \notin s
        <4>1. s \in SUBSET (1..m)
          BY <2>2, <3>2
        <4>2. h[s] = g[s]
          BY <3>2, Zenon
        <4>3. h[s \ {Max(s)}] = g[s \ {Max(s)}]
          <5>1. s \ {Max(s)} \in SUBSET (1..(m + 1)) /\ m + 1 \notin s \ {Max(s)}
            BY <3>2
          <5> QED
            BY <5>1, Zenon
        <4>4. g[s] = IF s = {} THEN Zeros(S) ELSE VAdd(g[s \ {Max(s)}], seq[Max(s)])
          BY <2>1, <4>1, Zenon DEF VSumFold
        <4> HIDE DEF h
        <4> QED
          BY <4>2, <4>3, <4>4, Zenon
      <3> QED
        BY <3>1, <3>2
    <2>4. h = [s \in SUBSET (1..(m + 1)) |-> h[s]]
      BY Zenon
    <2> HIDE DEF h
    <2>5. VSumFold(h, seq, S, m + 1)
      <3>1. [s \in SUBSET (1..(m + 1)) |-> h[s]]
            = [s \in SUBSET (1..(m + 1)) |->
                  IF s = {} THEN Zeros(S) ELSE VAdd(h[s \ {Max(s)}], seq[Max(s)])]
        BY <2>3, Zenon
      <3> QED
        BY <2>4, <3>1, Zenon DEF VSumFold
    <2> QED
      BY <2>2, <2>5
  <1>3. T = Nat
    <2>1. T \in SUBSET Nat
      OBVIOUS
    <2> HIDE DEF T
    <2> QED
      BY <1>1, <1>2, <2>1, Climb
  <1> QED
    BY <1>3

\* The table read along the prefixes.
VSumTable(t, seq, S, n) ==
    t[0] = Zeros(S) /\ \A k \in 1..n : t[k] = VAdd(t[k - 1], seq[k])

\* A vector sum is the last entry of a table that adds one term at a time.
LEMMA VSumSteps ==
    ASSUME NEW seq, NEW S, NEW n \in Nat, DOMAIN seq = 1..n
    PROVE  \E t : VSumTable(t, seq, S, n) /\ VSum(seq, S) = t[n]
  <1> DEFINE g == CHOOSE g : VSumFold(g, seq, S, n)
             t == [k \in 0..n |-> g[1..k]]
  <1>1. VSumFold(g, seq, S, n)
    BY VSumFoldExists, Zenon
  <1>2. VSum(seq, S) = g[1..n]
    BY <1>1, Zenon DEF VSumFold, VSum, FoldLeft, MapThenFoldSet
  <1> HIDE DEF g
  <1>3. ASSUME NEW k \in 1..n PROVE g[1..k] = VAdd(g[1..(k - 1)], seq[k])
    <2>1. 1..k \in SUBSET (1..n) /\ 1..k # {} /\ (1..k) \ {k} = 1..(k - 1)
      OBVIOUS
    <2>2. Max(1..k) = k
      BY MaxTop
    <2>3. g[1..k] = VAdd(g[(1..k) \ {Max(1..k)}], seq[Max(1..k)])
      BY <1>1, <2>1, Zenon DEF VSumFold
    <2> QED
      BY <2>1, <2>2, <2>3, Zenon
  <1>4. g[1..0] = Zeros(S)
    <2>1. 1..0 = {} /\ 1..0 \in SUBSET (1..n)
      OBVIOUS
    <2> QED
      BY <1>1, <2>1, Zenon DEF VSumFold
  <1>5. t[0] = Zeros(S) /\ t[n] = VSum(seq, S)
    BY <1>2, <1>4
  <1>6. ASSUME NEW k \in 1..n PROVE t[k] = VAdd(t[k - 1], seq[k])
    <2>1. k \in 0..n /\ k - 1 \in 0..n
      OBVIOUS
    <2>2. t[k] = g[1..k] /\ t[k - 1] = g[1..(k - 1)]
      BY <2>1
    <2> HIDE DEF t
    <2> QED
      BY <1>3, <2>2, Zenon
  <1> HIDE DEF t
  <1> QED
    BY <1>5, <1>6, Zenon DEF VSumTable

\* The modulus is at least 3, and a word is no larger than it.
LEMMA ModulusFacts ==
    /\ HalfWord \in Nat /\ HalfWord >= 2
    /\ P \in Nat /\ P >= 3 /\ Word(HalfWord) \in Nat /\ Word(HalfWord) <= P
    /\ Field \subseteq Nat /\ 0 \in Field /\ 1 \in Field /\ P - 1 \in Field
  <1>1. HalfWord \in Nat /\ HalfWord # 0 /\ G \in 2..(P - 1)
    BY FieldAssumption
  <1>2. P = HalfWord * (2 * HalfWord) - 1
    BY DEF P, Modulus, Word
  <1>3. P \in Int
    BY <1>1, <1>2
  <1>4. P >= 3
    BY <1>1, <1>3
  <1>5. HalfWord # 1
    BY <1>2, <1>4
  <1>6. HalfWord >= 2
    BY <1>1, <1>5
  <1>7. HalfWord * (2 * HalfWord) >= 2 * (2 * HalfWord)
    BY <1>1, <1>6, Z3
  <1>8. Word(HalfWord) = 2 * HalfWord
    BY DEF Word
  <1>9. Word(HalfWord) <= P
    BY <1>1, <1>2, <1>6, <1>7, <1>8
  <1> QED
    BY <1>1, <1>3, <1>4, <1>6, <1>8, <1>9 DEF Field

\* What the modulus leaves of an integer is a residue, and of a residue all.
LEMMA ModField ==
    ASSUME NEW x \in Int
    PROVE  x % P \in Field /\ x % P \in Int /\ (x \in Field => x % P = x)
  <1>1. P \in Nat \ {0} /\ P \in Nat
    BY ModulusFacts
  <1>2. x % P \in 0..(P - 1) /\ (x \in 0..(P - 1) => x % P = x)
    BY <1>1, Z3
  <1> QED
    BY <1>1, <1>2 DEF Field

\* Vectors of residues, one per slot.
Vec(S) == [1..S -> Field]

\* A vector is a sequence of its slots.
LEMMA VecFacts ==
    ASSUME NEW S \in Nat, NEW a \in Vec(S)
    PROVE  /\ DOMAIN a = 1..S /\ Len(a) = S /\ IsSeq(a) /\ a \in Seq(Field)
           /\ \A j \in 1..S : a[j] \in Field /\ a[j] \in Int
           /\ S # 0 => a # <<>>
  <1>1. DOMAIN a = 1..S /\ a = [j \in 1..S |-> a[j]]
    BY DEF Vec
  <1>2. Len(a) = S /\ IsSeq(a)
    BY <1>1, FnSeq
  <1>3. \A j \in 1..S : a[j] \in Field /\ a[j] \in Int
    <2>1. \A x \in Field : x \in Int
      BY ModulusFacts
    <2>2. \A j \in 1..S : a[j] \in Field
      BY DEF Vec
    <2> QED
      BY <2>1, <2>2
  <1>4. a \in Seq(Field)
    BY DEF Vec
  <1>5. S # 0 => a # <<>>
    BY <1>2
  <1> QED
    BY <1>1, <1>2, <1>3, <1>4, <1>5

\* The vector operations return vectors.
LEMMA VecOps ==
    ASSUME NEW S \in Nat, NEW a \in Vec(S), NEW b \in Vec(S), NEW x \in Int
    PROVE  /\ Zeros(S) \in Vec(S) /\ VAdd(a, b) \in Vec(S) /\ VSub(a, b) \in Vec(S)
           /\ VMul(a, b) \in Vec(S) /\ VScale(a, x) \in Vec(S)
  <1>1. DOMAIN a = 1..S /\ \A j \in 1..S : a[j] \in Int /\ b[j] \in Int
    BY VecFacts
  <1>2. ASSUME NEW j \in 1..S
        PROVE  /\ (a[j] + b[j]) % P \in Field /\ (a[j] - b[j]) % P \in Field
               /\ (a[j] * b[j]) % P \in Field /\ (a[j] * x) % P \in Field
    <2>1. /\ a[j] + b[j] \in Int /\ a[j] - b[j] \in Int
          /\ a[j] * b[j] \in Int /\ a[j] * x \in Int
      BY <1>1
    <2> QED
      BY <2>1, ModField
  <1>3. Zeros(S) \in Vec(S)
    BY ModulusFacts DEF Zeros, Vec
  <1>4. VAdd(a, b) \in Vec(S)
    BY <1>1, <1>2, Zenon DEF VAdd, Vec
  <1>5. VSub(a, b) \in Vec(S)
    BY <1>1, <1>2, Zenon DEF VSub, Vec
  <1>6. VMul(a, b) \in Vec(S)
    BY <1>1, <1>2, Zenon DEF VMul, Vec
  <1>7. VScale(a, x) \in Vec(S)
    BY <1>1, <1>2, Zenon DEF VScale, Vec
  <1> QED
    BY <1>3, <1>4, <1>5, <1>6, <1>7

\* A sign keeps a vector a vector.
LEMMA VecSigned ==
    ASSUME NEW S \in Nat, NEW a \in Vec(S), NEW ch
    PROVE  VNeg(a) \in Vec(S) /\ VSigned(a, ch) \in Vec(S)
  <1>1. Len(a) = S
    BY VecFacts
  <1>2. Zeros(S) \in Vec(S)
    BY VecOps
  <1>3. VNeg(a) \in Vec(S)
    BY <1>1, <1>2, VecOps DEF VNeg
  <1> QED
    BY <1>3 DEF VSigned

\* A sum of vectors is a vector.
LEMMA VSumVec ==
    ASSUME NEW S \in Nat, NEW n \in Nat, NEW seq, DOMAIN seq = 1..n,
           \A k \in 1..n : seq[k] \in Vec(S)
    PROVE  VSum(seq, S) \in Vec(S)
  <1>1. PICK t : VSumTable(t, seq, S, n) /\ VSum(seq, S) = t[n]
    BY VSumSteps, Zenon
  <1> DEFINE T == {m \in Nat : m <= n => t[m] \in Vec(S)}
  <1>2. Zeros(S) \in Vec(S)
    <2>1. [j \in 1..S |-> 0] \in Vec(S)
      BY ModulusFacts DEF Vec
    <2> QED
      BY <2>1 DEF Zeros
  <1>3. 0 \in T
    BY <1>1, <1>2 DEF VSumTable
  <1>4. ASSUME NEW m \in T PROVE m + 1 \in T
    <2> SUFFICES ASSUME m + 1 <= n PROVE t[m + 1] \in Vec(S)
      OBVIOUS
    <2>1. m + 1 \in 1..n /\ (m + 1) - 1 = m /\ m <= n
      OBVIOUS
    <2>2. t[m + 1] = VAdd(t[m], seq[m + 1])
      BY <1>1, <2>1 DEF VSumTable
    <2>3. t[m] \in Vec(S) /\ seq[m + 1] \in Vec(S)
      BY <2>1
    <2> QED
      BY <2>2, <2>3, VecOps
  <1>5. T = Nat
    <2>1. T \in SUBSET Nat
      OBVIOUS
    <2> HIDE DEF T
    <2> QED
      BY <1>3, <1>4, <2>1, Climb
  <1> QED
    BY <1>1, <1>5

\* A sum of one vector is the vector.
LEMMA VSumOne ==
    ASSUME NEW S \in Nat, NEW seq, DOMAIN seq = 1..1, seq[1] \in Vec(S)
    PROVE  VSum(seq, S) = seq[1]
  <1>1. PICK t : VSumTable(t, seq, S, 1) /\ VSum(seq, S) = t[1]
    <2>1. 1 \in Nat
      OBVIOUS
    <2> QED
      BY <2>1, VSumSteps, Zenon
  <1>2. t[1] = VAdd(Zeros(S), seq[1])
    BY <1>1 DEF VSumTable
  <1>3. DOMAIN Zeros(S) = 1..S /\ \A j \in 1..S : Zeros(S)[j] = 0
    BY DEF Zeros
  <1>4. \A j \in 1..S : (0 + seq[1][j]) % P = seq[1][j]
    <2> SUFFICES ASSUME NEW j \in 1..S PROVE (0 + seq[1][j]) % P = seq[1][j]
      OBVIOUS
    <2>1. seq[1][j] \in Field /\ seq[1][j] \in Int /\ 0 + seq[1][j] = seq[1][j]
      BY VecFacts
    <2> QED
      BY <2>1, ModField
  <1>5. VAdd(Zeros(S), seq[1]) = [j \in 1..S |-> seq[1][j]]
    BY <1>3, <1>4, Zenon DEF VAdd
  <1>6. seq[1] = [j \in 1..S |-> seq[1][j]]
    BY Zenon DEF Vec
  <1> QED
    BY <1>1, <1>2, <1>5, <1>6

\* Inverses.
LEMMA InvFacts ==
    ASSUME NEW x \in Field
    PROVE  FInv(x) \in Field /\ (x # 0 => (x * FInv(x)) % P = 1)
  <1>1. FInv(x) = IF x = 0 THEN 0 ELSE CHOOSE y \in Field : (x * y) % P = 1
    BY DEF FInv, InvTable
  <1>2. CASE x = 0
    BY <1>1, <1>2, ModulusFacts
  <1>3. CASE x # 0
    <2>1. x \in 1..(P - 1)
      BY <1>3, ModulusFacts DEF Field
    <2>2. \E y \in Field : (x * y) % P = 1
      BY <2>1, FieldAssumption
    <2>3. FInv(x) = CHOOSE y \in Field : (x * y) % P = 1
      BY <1>1, <1>3
    <2> QED
      BY <2>2, <2>3, Zenon
  <1> QED
    BY <1>2, <1>3

-----------------------------------------------------------------------------
(* The powers of g *)

\* The table of the powers exists.
PowTable(f, n) == f = [i \in 0..n |-> IF i = 0 THEN 1 ELSE (f[i - 1] * G) % P]

\* The table of powers that PowG names exists.
LEMMA PowExists ==
    ASSUME NEW n \in Nat
    PROVE  \E f : PowTable(f, n)
  <1> DEFINE T == {m \in Nat : \E f : PowTable(f, m)}
  <1>1. 0 \in T
    <2> DEFINE f == [i \in 0..0 |-> 1]
    <2>1. f = [i \in 0..0 |-> IF i = 0 THEN 1 ELSE (f[i - 1] * G) % P]
      <3>1. \A i \in 0..0 : i = 0
        OBVIOUS
      <3> QED
        BY <3>1, Zenon
    <2> QED
      BY <2>1 DEF PowTable
  <1>2. ASSUME NEW m \in T PROVE m + 1 \in T
    <2>1. PICK f : PowTable(f, m)
      OBVIOUS
    <2> DEFINE h == [i \in 0..(m + 1) |-> IF i = m + 1 THEN (f[m] * G) % P ELSE f[i]]
    <2>2. m \in Nat /\ m + 1 \in Nat
      OBVIOUS
    <2>3. ASSUME NEW i \in 0..(m + 1)
          PROVE  h[i] = IF i = 0 THEN 1 ELSE (h[i - 1] * G) % P
      <3>1. CASE i = m + 1
        <4>1. i # 0 /\ i - 1 = m /\ m # m + 1 /\ m \in 0..(m + 1)
          BY <2>2, <3>1
        <4>2. h[m] = f[m]
          BY <4>1
        <4>3. h[i] = (f[m] * G) % P
          BY <3>1
        <4> HIDE DEF h
        <4> QED
          BY <4>1, <4>2, <4>3
      <3>2. CASE i # m + 1
        <4>1. i \in 0..m
          BY <2>2, <3>2
        <4>2. h[i] = f[i]
          BY <3>2
        <4>3. i # 0 => h[i - 1] = f[i - 1]
          <5>1. i # 0 => i - 1 \in 0..(m + 1) /\ i - 1 # m + 1
            BY <2>2, <4>1
          <5> QED
            BY <5>1
        <4>4. f[i] = IF i = 0 THEN 1 ELSE (f[i - 1] * G) % P
          BY <2>1, <4>1, Zenon DEF PowTable
        <4> HIDE DEF h
        <4> QED
          BY <4>2, <4>3, <4>4
      <3> QED
        BY <3>1, <3>2
    <2>4. h = [i \in 0..(m + 1) |-> h[i]]
      BY Zenon
    <2> HIDE DEF h
    <2>5. [i \in 0..(m + 1) |-> h[i]]
          = [i \in 0..(m + 1) |-> IF i = 0 THEN 1 ELSE (h[i - 1] * G) % P]
      BY <2>3, Zenon
    <2>6. PowTable(h, m + 1)
      BY <2>4, <2>5, Zenon DEF PowTable
    <2> QED
      BY <2>2, <2>6
  <1>3. T = Nat
    <2>1. T \in SUBSET Nat
      OBVIOUS
    <2> HIDE DEF T
    <2> QED
      BY <1>1, <1>2, <2>1, Climb
  <1> QED
    BY <1>3

\* PowG is a table of residues.
LEMMA PowFacts ==
    /\ B \in Nat /\ B >= 3 /\ DOMAIN PowG = 0..(B - 1)
    /\ PowG[0] = 1 /\ \A i \in 1..(B - 1) : PowG[i] = (PowG[i - 1] * G) % P
    /\ \A i \in 0..(B - 1) : PowG[i] \in Field /\ PowG[i] \in Int
  <1>1. B \in Nat /\ B >= 3 /\ B - 1 \in Nat /\ G \in Int
    BY FieldAssumption, ModulusFacts
  <1>2. PowG = CHOOSE f : PowTable(f, B - 1)
    BY Zenon DEF PowG, PowTable
  <1>3. PowTable(PowG, B - 1)
    BY <1>1, <1>2, PowExists, Zenon
  <1>4. DOMAIN PowG = 0..(B - 1)
       /\ \A i \in 0..(B - 1) : PowG[i] = IF i = 0 THEN 1 ELSE (PowG[i - 1] * G) % P
    BY <1>3, Zenon DEF PowTable
  <1> DEFINE T == {m \in Nat : m <= B - 1 => PowG[m] \in Field}
  <1>5. 0 \in T
    BY <1>1, <1>4, ModulusFacts
  <1>6. ASSUME NEW m \in T PROVE m + 1 \in T
    <2> SUFFICES ASSUME m + 1 <= B - 1 PROVE PowG[m + 1] \in Field
      OBVIOUS
    <2>1. m + 1 \in 0..(B - 1) /\ m + 1 # 0 /\ (m + 1) - 1 = m /\ m <= B - 1
      BY <1>1
    <2>2. PowG[m + 1] = (PowG[m] * G) % P
      BY <1>4, <2>1
    <2>3. PowG[m] \in Int
      <3>1. \A x \in Field : x \in Int
        BY ModulusFacts
      <3>2. PowG[m] \in Field
        BY <2>1
      <3> QED
        BY <3>1, <3>2
    <2>4. PowG[m] * G \in Int
      BY <1>1, <2>3
    <2> QED
      BY <2>2, <2>4, ModField
  <1>7. T = Nat
    <2>1. T \in SUBSET Nat
      OBVIOUS
    <2> HIDE DEF T
    <2> QED
      BY <1>5, <1>6, <2>1, Climb
  <1>8. \A i \in 0..(B - 1) : PowG[i] \in Field
    BY <1>1, <1>7
  <1>9. \A x \in Field : x \in Int
    BY ModulusFacts
  <1>10. 0 \in 0..(B - 1) /\ \A i \in 1..(B - 1) : i \in 0..(B - 1) /\ i # 0
    BY <1>1
  <1>11. PowG[0] = 1 /\ \A i \in 1..(B - 1) : PowG[i] = (PowG[i - 1] * G) % P
    BY <1>4, <1>10, Zenon
  <1> QED
    BY <1>1, <1>4, <1>8, <1>9, <1>11

\* A set of places, and what Remap and KeptAt are to it: the inverses of each
\* other, in order.
Places(S) == \E n \in Nat : S \in SUBSET (1..n)

\* Renaming and its inverse, member by member.
KeptRight(S) ==
    /\ IsFiniteSet(S) /\ Cardinality(S) \in Nat
    /\ \A k \in 1..Cardinality(S) : KeptAt(S, k) \in S /\ Remap(S, KeptAt(S, k)) = k
    /\ \A i \in S : Remap(S, i) \in 1..Cardinality(S) /\ KeptAt(S, Remap(S, i)) = i
    /\ \A k, l \in 1..Cardinality(S) : KeptAt(S, k) = KeptAt(S, l) => k = l
    /\ \A i, j \in S : i < j => Remap(S, i) < Remap(S, j)

\* Every set of places is renamed so.
LEMMA KeptFacts == ASSUME NEW S, Places(S) PROVE KeptRight(S)
  <1> DEFINE c == Cardinality(S)
  <1>0. PICK n \in Nat : S \in SUBSET (1..n)
    BY DEF Places
  <1>1. /\ IsFiniteSet(S) /\ c \in Nat
        /\ \A i \in S : Remap(S, i) \in 1..c
        /\ \A i, j \in S : i < j => Remap(S, i) < Remap(S, j)
        /\ \A k \in 1..c : \E i \in S : Remap(S, i) = k
    BY <1>0, RemapOrders
  <1>2. ASSUME NEW i \in S, NEW j \in S, Remap(S, i) = Remap(S, j)
        PROVE  i = j
    <2>1. i \in Nat /\ j \in Nat /\ (i < j \/ j < i \/ i = j)
      BY <1>0
    <2>2. Remap(S, i) \in Nat /\ Remap(S, j) \in Nat
      BY <1>1
    <2> QED
      BY <1>1, <1>2, <2>1, <2>2
  <1>3. \A k \in 1..c : KeptAt(S, k) \in S /\ Remap(S, KeptAt(S, k)) = k
    BY <1>1, Zenon DEF KeptAt
  <1>4. ASSUME NEW i \in S PROVE KeptAt(S, Remap(S, i)) = i
    <2>1. Remap(S, i) \in 1..c
      BY <1>1
    <2>2. KeptAt(S, Remap(S, i)) \in S /\ Remap(S, KeptAt(S, Remap(S, i))) = Remap(S, i)
      BY <1>3, <2>1
    <2> QED
      BY <1>2, <2>2
  <1>5. \A k, l \in 1..c : KeptAt(S, k) = KeptAt(S, l) => k = l
    BY <1>3, Zenon
  <1> QED
    BY <1>1, <1>3, <1>4, <1>5 DEF KeptRight

\* What is chosen is there, in order.
ChosenRight(f, S) ==
    /\ IsSeq(Chosen(f, S)) /\ Len(Chosen(f, S)) = Cardinality(S)
    /\ Cardinality(S) \in Nat /\ DOMAIN Chosen(f, S) = 1..Cardinality(S)
    /\ \A k \in 1..Cardinality(S) : Chosen(f, S)[k] = f[KeptAt(S, k)]
    /\ \A i \in S : Chosen(f, S)[Remap(S, i)] = f[i]

\* Chosen lists the elements at the places of any such set.
LEMMA ChosenFacts == ASSUME NEW f, NEW S, Places(S) PROVE ChosenRight(f, S)
  <1>1. Cardinality(S) \in Nat
    BY KeptFacts DEF KeptRight
  <1>2. Chosen(f, S) = [k \in 1..Cardinality(S) |-> f[KeptAt(S, k)]]
    BY DEF Chosen
  <1>3. /\ \A k \in 1..Cardinality(S) : Chosen(f, S)[k] = f[KeptAt(S, k)]
        /\ Chosen(f, S) = [k \in 1..Cardinality(S) |-> Chosen(f, S)[k]]
    BY <1>2, Zenon
  <1>4. /\ IsSeq(Chosen(f, S)) /\ Len(Chosen(f, S)) = Cardinality(S)
        /\ DOMAIN Chosen(f, S) = 1..Cardinality(S)
    BY <1>1, <1>3, FnSeq
  <1>5. \A i \in S : Chosen(f, S)[Remap(S, i)] = f[i]
    BY <1>3, KeptFacts, Zenon DEF KeptRight
  <1> QED
    BY <1>1, <1>3, <1>4, <1>5 DEF ChosenRight

\* Chosen at one place is the sequence of that element.
LEMMA ChosenOne ==
    ASSUME NEW i \in Nat \ {0}, NEW f
    PROVE  DOMAIN Chosen(f, {i}) = 1..1 /\ Chosen(f, {i})[1] = f[i]
  <1>1. Cardinality({i}) = 1
    BY FS_Singleton
  <1>2. Places({i})
    <2>1. {i} \in SUBSET (1..i) /\ i \in Nat
      OBVIOUS
    <2> QED
      BY <2>1 DEF Places
  <1>3. 1 \in 1..Cardinality({i})
    BY <1>1
  <1>4. KeptAt({i}, 1) \in {i}
    BY <1>2, <1>3, KeptFacts, Zenon DEF KeptRight
  <1>5. ChosenRight(f, {i})
    BY <1>2, ChosenFacts
  <1>6. Chosen(f, {i})[1] = f[KeptAt({i}, 1)] /\ DOMAIN Chosen(f, {i}) = 1..Cardinality({i})
    BY <1>3, <1>5, Zenon DEF ChosenRight
  <1> QED
    BY <1>1, <1>4, <1>6

-----------------------------------------------------------------------------
(* Edges *)

\* The edges of a ciphertext of m layers and S slots that the key accepts.
EdgeSet(m, S) ==
    [lid : 1..m, idx : 0..(B - 1), ch : {1, -1}, w : Vec(S), s : SUBSET SigmaBits]

\* An edge is its fields.
LEMMA EdgeEqual ==
    ASSUME NEW m, NEW S, NEW x \in EdgeSet(m, S), NEW y \in EdgeSet(m, S),
           x.lid = y.lid, x.idx = y.idx, x.ch = y.ch, x.w = y.w, x.s = y.s
    PROVE  x = y
  <1>1. x = [lid |-> x.lid, idx |-> x.idx, ch |-> x.ch, w |-> x.w, s |-> x.s]
    BY DEF EdgeSet
  <1>2. y = [lid |-> y.lid, idx |-> y.idx, ch |-> y.ch, w |-> y.w, s |-> y.s]
    BY DEF EdgeSet
  <1> QED
    BY <1>1, <1>2, Zenon

\* A quotient and a remainder are known by their number.
LEMMA QuotientUnique ==
    ASSUME NEW d \in Nat, NEW q \in Nat, NEW r \in 0..(d - 1), NEW p \in Nat, NEW s \in 0..(d - 1),
           q * d + r = p * d + s
    PROVE  q = p /\ r = s
  <1>1. CASE q < p
    <2>1. (q + 1) * d <= p * d
      BY <1>1, Z3
    <2>2. (q + 1) * d = q * d + d
      BY Z3
    <2>3. q * d \in Int /\ p * d \in Int
      OBVIOUS
    <2> QED
      BY <2>1, <2>2, <2>3
  <1>2. CASE p < q
    <2>1. (p + 1) * d <= q * d
      BY <1>2, Z3
    <2>2. (p + 1) * d = p * d + d
      BY Z3
    <2>3. q * d \in Int /\ p * d \in Int
      OBVIOUS
    <2> QED
      BY <2>1, <2>2, <2>3
  <1>3. CASE q = p
    <2>1. q * d \in Int
      OBVIOUS
    <2> QED
      BY <1>3, <2>1
  <1> QED
    BY <1>1, <1>2, <1>3

\* A position tells the layer, the index and the sign, and layers stay in order.
LEMMA PositionFacts ==
    ASSUME NEW m \in Nat, NEW S, NEW e \in EdgeSet(m, S), NEW f \in EdgeSet(m, S)
    PROVE  /\ Position(e) \in 1..((m * B + B) * 2) /\ (m * B + B) * 2 \in Nat
           /\ Position(e) = Position(f) => e.lid = f.lid /\ e.idx = f.idx /\ e.ch = f.ch
  <1>1. B \in Nat /\ B >= 3
    BY FieldAssumption
  <1>2. /\ e.lid \in 1..m /\ e.idx \in 0..(B - 1) /\ e.ch \in {1, -1}
        /\ f.lid \in 1..m /\ f.idx \in 0..(B - 1) /\ f.ch \in {1, -1}
    BY DEF EdgeSet
  <1>3. PICK x \in 0..1 : x = IF e.ch = -1 THEN 1 ELSE 0
    OBVIOUS
  <1>4. PICK y \in 0..1 : y = IF f.ch = -1 THEN 1 ELSE 0
    OBVIOUS
  <1>5. Position(e) = (e.lid * B + e.idx) * 2 + x /\ Position(f) = (f.lid * B + f.idx) * 2 + y
    BY <1>3, <1>4 DEF Position
  <1>6. PICK a \in Nat : a = e.lid * B
    BY <1>1, <1>2
  <1>7. PICK b \in Nat : b = f.lid * B
    BY <1>1, <1>2
  <1>8. PICK z \in Nat : z = m * B
    BY <1>1
  <1>9. 1 <= a /\ a <= z
    <2>1. e.lid * B <= m * B
      BY <1>1, <1>2, Z3
    <2>2. 1 * B <= e.lid * B
      BY <1>1, <1>2, Z3
    <2> QED
      BY <1>1, <1>6, <1>8, <2>1, <2>2
  <1>10. Position(e) \in 1..((m * B + B) * 2) /\ (m * B + B) * 2 \in Nat
    BY <1>1, <1>2, <1>5, <1>6, <1>8, <1>9
  <1>11. ASSUME Position(e) = Position(f)
         PROVE  e.lid = f.lid /\ e.idx = f.idx /\ e.ch = f.ch
    <2>1. (a + e.idx) * 2 + x = (b + f.idx) * 2 + y
      BY <1>5, <1>6, <1>7, <1>11
    <2>2. x = y /\ a + e.idx = b + f.idx
      BY <1>2, <2>1
    <2>3. e.lid * B + e.idx = f.lid * B + f.idx /\ e.lid \in Nat /\ f.lid \in Nat
      BY <1>2, <1>6, <1>7, <2>2
    <2>4. e.lid = f.lid /\ e.idx = f.idx
      BY <1>1, <1>2, <2>3, QuotientUnique
    <2>5. e.ch = f.ch
      BY <1>2, <1>3, <1>4, <2>2
    <2> QED
      BY <2>4, <2>5
  <1> QED
    BY <1>10, <1>11

-----------------------------------------------------------------------------
(* Merge, part by part *)

\* The edges at place p.
Own(E, p) == {k \in DOMAIN E : Position(E[k]) = p}

\* The one edge that merge makes of a group.
SumOf(g) == [g[1] EXCEPT !.w = VSum([k \in DOMAIN g |-> g[k].w], Len(@)),
                         !.s = Xor([k \in DOMAIN g |-> g[k].s])]

\* The sum edge of every place.
Sums(E) == [p \in {Position(E[k]) : k \in DOMAIN E} |-> SumOf(Chosen(E, Own(E, p)))]

\* The places whose sum says something.
Said(E) == {p \in DOMAIN Sums(E) : NonZero(Sums(E)[p].w) \/ Sums(E)[p].s # {}}

\* merge in these parts.
LEMMA MergeParts == ASSUME NEW E PROVE Merge(E) = Chosen(Sums(E), Said(E))
  BY Zenon DEF Merge, Sums, Said, SumOf, Own

\* The fields of an edge that a merge keeps and the ones it sums.
SumRight(g, m, S) ==
    /\ SumOf(g) \in EdgeSet(m, S)
    /\ SumOf(g).lid = g[1].lid /\ SumOf(g).idx = g[1].idx /\ SumOf(g).ch = g[1].ch
    /\ SumOf(g).w = VSum([k \in DOMAIN g |-> g[k].w], S)
    /\ SumOf(g).s = Xor([k \in DOMAIN g |-> g[k].s])

\* Every group of edges has such a sum.
LEMMA SumFields ==
    ASSUME NEW m \in Nat, NEW S \in Nat, NEW n \in Nat, NEW g, DOMAIN g = 1..n, n >= 1,
           \A k \in 1..n : g[k] \in EdgeSet(m, S)
    PROVE  SumRight(g, m, S)
  <1>1. g[1] \in EdgeSet(m, S)
    OBVIOUS
  <1>2. Len(g[1].w) = S
    <2>1. g[1].w \in Vec(S)
      BY <1>1 DEF EdgeSet
    <2> QED
      BY <2>1, VecFacts
  <1> DEFINE ws == [k \in DOMAIN g |-> g[k].w]
  <1>3. VSum(ws, S) \in Vec(S)
    <2>1. DOMAIN ws = 1..n
      OBVIOUS
    <2>2. \A k \in 1..n : ws[k] \in Vec(S)
      BY DEF EdgeSet
    <2> HIDE DEF ws
    <2> QED
      BY <2>1, <2>2, VSumVec
  <1>4. PICK x : x = VSum(ws, S)
    OBVIOUS
  <1>5. PICK y : y = Xor([k \in DOMAIN g |-> g[k].s])
    OBVIOUS
  <1>6. SumOf(g) = [g[1] EXCEPT !.w = x, !.s = y]
    BY <1>2, <1>4, <1>5, Zenon DEF SumOf
  <1>7. y \in SUBSET SigmaBits
    BY <1>5 DEF Xor
  <1>8. x \in Vec(S)
    BY <1>3, <1>4
  <1>9. PICK e : e = g[1]
    OBVIOUS
  <1>10. e \in EdgeSet(m, S) /\ SumOf(g) = [e EXCEPT !.w = x, !.s = y]
    BY <1>1, <1>6, <1>9
  <1> HIDE DEF ws
  <1>11. /\ SumOf(g) \in EdgeSet(m, S)
         /\ SumOf(g).lid = e.lid /\ SumOf(g).idx = e.idx /\ SumOf(g).ch = e.ch
         /\ SumOf(g).w = x /\ SumOf(g).s = y
    BY <1>7, <1>8, <1>10 DEF EdgeSet
  <1> QED
    BY <1>4, <1>5, <1>9, <1>11, Zenon DEF ws, SumRight

\* A group of edges: nonempty, of one place.
GroupRight(E, i, m, S) ==
    LET own == Own(E, Position(E[i]))
        g == Chosen(E, own)
    IN  /\ own \in SUBSET (1..Len(E)) /\ i \in own
        /\ Cardinality(own) \in Nat /\ Cardinality(own) >= 1
        /\ DOMAIN g = 1..Cardinality(own)
        /\ \A k \in 1..Cardinality(own) :
               g[k] \in EdgeSet(m, S) /\ Position(g[k]) = Position(E[i])

\* The edges at the place of an edge are such a group.
LEMMA GroupFacts ==
    ASSUME NEW m \in Nat, NEW S \in Nat, NEW E \in Seq(EdgeSet(m, S)), NEW i \in 1..Len(E)
    PROVE  GroupRight(E, i, m, S)
  <1> DEFINE own == Own(E, Position(E[i]))
             c == Cardinality(own)
             g == Chosen(E, own)
  <1>1. Len(E) \in Nat /\ DOMAIN E = 1..Len(E) /\ \A k \in 1..Len(E) : E[k] \in EdgeSet(m, S)
    OBVIOUS
  <1>2. own \in SUBSET (1..Len(E)) /\ i \in own
        /\ \A k \in own : Position(E[k]) = Position(E[i])
    BY <1>1 DEF Own
  <1> HIDE DEF own
  <1>7. Places(own)
    BY <1>1, <1>2 DEF Places
  <1>3. c \in Nat /\ Remap(own, i) \in 1..c
        /\ \A k \in 1..c : KeptAt(own, k) \in own
    BY <1>2, <1>7, KeptFacts, Zenon DEF KeptRight
  <1>4. DOMAIN g = 1..c /\ \A k \in 1..c : g[k] = E[KeptAt(own, k)]
    BY <1>7, ChosenFacts, Zenon DEF ChosenRight
  <1>5. c >= 1
    BY <1>3
  <1>6. ASSUME NEW k \in 1..c
        PROVE  g[k] \in EdgeSet(m, S) /\ Position(g[k]) = Position(E[i])
    <2>1. PICK x \in own : x = KeptAt(own, k)
      BY <1>3
    <2>2. g[k] = E[x]
      BY <1>4, <2>1
    <2>3. x \in 1..Len(E) /\ Position(E[x]) = Position(E[i])
      BY <1>2
    <2> HIDE DEF g
    <2> QED
      BY <1>1, <2>2, <2>3
  <1> QED
    BY <1>2, <1>3, <1>4, <1>5, <1>6, Zenon DEF own, GroupRight

\* The sum of a group is an edge of its place.
SumsRight(E, m, S) ==
    /\ DOMAIN Sums(E) = {Position(E[k]) : k \in 1..Len(E)}
    /\ Places(DOMAIN Sums(E)) /\ \A T \in SUBSET DOMAIN Sums(E) : Places(T)
    /\ \A p \in DOMAIN Sums(E) : Sums(E)[p] \in EdgeSet(m, S) /\ Position(Sums(E)[p]) = p

\* Every table of sums is one.
LEMMA SumsFacts ==
    ASSUME NEW m \in Nat, NEW S \in Nat, NEW E \in Seq(EdgeSet(m, S))
    PROVE  SumsRight(E, m, S)
  <1>1. Len(E) \in Nat /\ DOMAIN E = 1..Len(E) /\ \A k \in 1..Len(E) : E[k] \in EdgeSet(m, S)
    OBVIOUS
  <1>2. DOMAIN Sums(E) = {Position(E[k]) : k \in 1..Len(E)}
    BY <1>1, Zenon DEF Sums
  <1>3. DOMAIN Sums(E) \in SUBSET (1..((m * B + B) * 2))
    BY <1>1, <1>2, PositionFacts
  <1>4. (m * B + B) * 2 \in Nat
    BY FieldAssumption
  <1>5. ASSUME NEW p \in DOMAIN Sums(E)
        PROVE  Sums(E)[p] \in EdgeSet(m, S) /\ Position(Sums(E)[p]) = p
    <2>1. PICK i \in 1..Len(E) : p = Position(E[i])
      BY <1>2, Zenon
    <2>2. PICK g : g = Chosen(E, Own(E, p))
      OBVIOUS
    <2>3. PICK n \in Nat : /\ n >= 1 /\ DOMAIN g = 1..n
                          /\ \A k \in 1..n : g[k] \in EdgeSet(m, S) /\ Position(g[k]) = p
      <3>1. /\ Cardinality(Own(E, p)) \in Nat /\ Cardinality(Own(E, p)) >= 1
            /\ DOMAIN g = 1..Cardinality(Own(E, p))
            /\ \A k \in 1..Cardinality(Own(E, p)) :
                  g[k] \in EdgeSet(m, S) /\ Position(g[k]) = p
        <4>1. GroupRight(E, i, m, S)
          BY <2>1, GroupFacts
        <4> QED
          BY <2>1, <2>2, <4>1, Zenon DEF GroupRight
      <3> QED
        BY <3>1, Zenon
    <2>4. Sums(E)[p] = SumOf(g)
      BY <1>5, <2>2, Zenon DEF Sums
    <2>5. /\ SumOf(g) \in EdgeSet(m, S)
          /\ SumOf(g).lid = g[1].lid /\ SumOf(g).idx = g[1].idx /\ SumOf(g).ch = g[1].ch
      <3>1. SumRight(g, m, S)
        BY <2>3, SumFields
      <3> QED
        BY <3>1, Zenon DEF SumRight
    <2>6. Position(SumOf(g)) = Position(g[1])
      BY <2>5, Zenon DEF Position
    <2>7. 1 \in 1..n
      BY <2>3
    <2> QED
      BY <2>3, <2>4, <2>5, <2>6, <2>7
  <1> QED
    BY <1>2, <1>3, <1>4, <1>5, Zenon DEF SumsRight, Places

\* merge returns edges the key accepts, one per place, and every place of the
\* result was a place of the operand.
MergeRight(E, m, S) ==
    /\ Merge(E) \in Seq(EdgeSet(m, S)) /\ OneEdgePerPlace(Merge(E))
    /\ \A k \in 1..Len(Merge(E)) : \E p \in Said(E) : Merge(E)[k] = Sums(E)[p]
    /\ \A p \in Said(E) : \E k \in 1..Len(Merge(E)) : Merge(E)[k] = Sums(E)[p]

\* merge returns such edges for every list of edges.
LEMMA MergeFacts ==
    ASSUME NEW m \in Nat, NEW S \in Nat, NEW E \in Seq(EdgeSet(m, S))
    PROVE  MergeRight(E, m, S)
  <1> DEFINE D == Said(E)
             c == Cardinality(D)
             M == Merge(E)
  <1>1. /\ \A T \in SUBSET DOMAIN Sums(E) : Places(T)
        /\ \A p \in DOMAIN Sums(E) : Sums(E)[p] \in EdgeSet(m, S) /\ Position(Sums(E)[p]) = p
    BY SumsFacts, Zenon DEF SumsRight
  <1>2. D \in SUBSET DOMAIN Sums(E) /\ Places(D)
    BY <1>1 DEF Said
  <1>3. M = Chosen(Sums(E), D)
    BY MergeParts
  <1> HIDE DEF D, M
  <1>4. /\ c \in Nat
        /\ \A k \in 1..c : KeptAt(D, k) \in D
        /\ \A k, l \in 1..c : KeptAt(D, k) = KeptAt(D, l) => k = l
    BY <1>2, KeptFacts, Zenon DEF KeptRight
  <1>5. /\ IsSeq(M) /\ Len(M) = c /\ DOMAIN M = 1..c
        /\ \A k \in 1..c : M[k] = Sums(E)[KeptAt(D, k)]
        /\ \A p \in D : M[Remap(D, p)] = Sums(E)[p]
    BY <1>2, <1>3, ChosenFacts, Zenon DEF ChosenRight
  <1>11. \A p \in D : Remap(D, p) \in 1..c
    BY <1>2, KeptFacts, Zenon DEF KeptRight
  <1>6. \A k \in 1..c : M[k] \in EdgeSet(m, S) /\ Position(M[k]) = KeptAt(D, k)
    BY <1>1, <1>2, <1>4, <1>5
  <1>7. M \in Seq(EdgeSet(m, S))
    BY <1>4, <1>5, <1>6 DEF IsSeq
  <1>8. OneEdgePerPlace(M)
    <2> SUFFICES ASSUME NEW k \in 1..c, NEW l \in 1..c, Position(M[k]) = Position(M[l])
                 PROVE  k = l
      BY <1>5 DEF OneEdgePerPlace
    <2>1. KeptAt(D, k) = KeptAt(D, l)
      BY <1>6
    <2> QED
      BY <1>4, <2>1
  <1>9. \A k \in 1..Len(M) : \E p \in D : M[k] = Sums(E)[p]
    BY <1>4, <1>5
  <1>10. \A p \in D : \E k \in 1..Len(M) : M[k] = Sums(E)[p]
    BY <1>5, <1>11
  <1> QED
    BY <1>7, <1>8, <1>9, <1>10, Zenon DEF M, D, MergeRight

\* The set of one edge xors to itself.
LEMMA XorOne ==
    ASSUME NEW sets, DOMAIN sets = 1..1, sets[1] \in SUBSET SigmaBits
    PROVE  Xor(sets) = sets[1]
  <1>1. ASSUME NEW b \in SigmaBits
        PROVE  (Cardinality({i \in DOMAIN sets : b \in sets[i]}) % 2 = 1) <=> b \in sets[1]
    <2>1. CASE b \in sets[1]
      <3>1. {i \in DOMAIN sets : b \in sets[i]} = {1}
        BY <2>1
      <3>2. Cardinality({1}) = 1
        BY FS_Singleton
      <3>3. 1 % 2 = 1
        OBVIOUS
      <3> QED
        BY <2>1, <3>1, <3>2, <3>3
    <2>2. CASE b \notin sets[1]
      <3>1. {i \in DOMAIN sets : b \in sets[i]} = {}
        BY <2>2
      <3>2. Cardinality({}) = 0
        BY FS_EmptySet
      <3>3. 0 % 2 = 0
        OBVIOUS
      <3> QED
        BY <2>2, <3>1, <3>2, <3>3
    <2> QED
      BY <2>1, <2>2
  <1> QED
    BY <1>1 DEF Xor

\* Where no two edges share a place a merge changes no edge; it drops the ones
\* that say nothing.
MergeKeeps(E) ==
    /\ \A i \in 1..Len(E) : Sums(E)[Position(E[i])] = E[i]
    /\ \A k \in 1..Len(Merge(E)) : \E i \in 1..Len(E) : Merge(E)[k] = E[i]
    /\ \A i \in 1..Len(E) : NonZero(E[i].w) \/ E[i].s # {}
           => \E k \in 1..Len(Merge(E)) : Merge(E)[k] = E[i]

\* A list with one edge per place keeps its edges in a merge.
LEMMA MergeSame ==
    ASSUME NEW m \in Nat, NEW S \in Nat, NEW E \in Seq(EdgeSet(m, S)), OneEdgePerPlace(E)
    PROVE  MergeKeeps(E)
  <1>1. Len(E) \in Nat /\ DOMAIN E = 1..Len(E) /\ \A k \in 1..Len(E) : E[k] \in EdgeSet(m, S)
    OBVIOUS
  <1>2. DOMAIN Sums(E) = {Position(E[k]) : k \in 1..Len(E)}
    <2>1. SumsRight(E, m, S)
      BY SumsFacts
    <2> QED
      BY <2>1, Zenon DEF SumsRight
  <1>3. ASSUME NEW i \in 1..Len(E) PROVE Sums(E)[Position(E[i])] = E[i]
    <2>1. Own(E, Position(E[i])) = {i}
      BY <1>1 DEF Own, OneEdgePerPlace
    <2>2. PICK g : g = Chosen(E, {i})
      OBVIOUS
    <2>3. DOMAIN g = 1..1 /\ g[1] = E[i]
      BY <1>1, <2>2, ChosenOne
    <2>4. Position(E[i]) \in DOMAIN Sums(E)
      BY <1>2
    <2>5. Sums(E)[Position(E[i])] = SumOf(g)
      BY <2>1, <2>2, <2>4, Zenon DEF Sums
    <2>6. E[i] \in EdgeSet(m, S) /\ E[i].w \in Vec(S) /\ E[i].s \in SUBSET SigmaBits
      BY <1>1 DEF EdgeSet
    <2>7. /\ SumOf(g) \in EdgeSet(m, S)
          /\ SumOf(g).lid = E[i].lid /\ SumOf(g).idx = E[i].idx /\ SumOf(g).ch = E[i].ch
          /\ SumOf(g).w = VSum([k \in DOMAIN g |-> g[k].w], S)
          /\ SumOf(g).s = Xor([k \in DOMAIN g |-> g[k].s])
      <3>1. 1 \in Nat /\ 1 >= 1 /\ \A k \in 1..1 : g[k] \in EdgeSet(m, S)
        BY <2>3, <2>6
      <3> QED
        <4>1. SumRight(g, m, S)
          BY <2>3, <3>1, SumFields
        <4> QED
          BY <2>3, <4>1, Zenon DEF SumRight
    <2>8. VSum([k \in DOMAIN g |-> g[k].w], S) = E[i].w
      <3> DEFINE ws == [k \in DOMAIN g |-> g[k].w]
      <3>1. DOMAIN ws = 1..1 /\ ws[1] = E[i].w
        BY <2>3
      <3> HIDE DEF ws
      <3>2. VSum(ws, S) = ws[1]
        BY <2>6, <3>1, VSumOne
      <3> QED
        BY <3>1, <3>2 DEF ws
    <2>9. Xor([k \in DOMAIN g |-> g[k].s]) = E[i].s
      <3> DEFINE ss == [k \in DOMAIN g |-> g[k].s]
      <3>1. DOMAIN ss = 1..1 /\ ss[1] = E[i].s
        BY <2>3
      <3> HIDE DEF ss
      <3>2. Xor(ss) = ss[1]
        BY <2>6, <3>1, XorOne
      <3> QED
        BY <3>1, <3>2 DEF ss
    <2>10. PICK x, y : x = SumOf(g) /\ y = E[i]
      OBVIOUS
    <2>11. x \in EdgeSet(m, S) /\ y \in EdgeSet(m, S)
           /\ x.lid = y.lid /\ x.idx = y.idx /\ x.ch = y.ch /\ x.w = y.w /\ x.s = y.s
      BY <2>6, <2>7, <2>8, <2>9, <2>10, Zenon
    <2>12. x = y
      BY <2>11, EdgeEqual
    <2> QED
      BY <2>5, <2>10, <2>12
  <1>4. \A k \in 1..Len(Merge(E)) : \E i \in 1..Len(E) : Merge(E)[k] = E[i]
    <2> SUFFICES ASSUME NEW k \in 1..Len(Merge(E))
                 PROVE  \E i \in 1..Len(E) : Merge(E)[k] = E[i]
      OBVIOUS
    <2>1. PICK p \in Said(E) : Merge(E)[k] = Sums(E)[p]
      BY MergeFacts, Zenon DEF MergeRight
    <2>2. p \in DOMAIN Sums(E)
      BY DEF Said
    <2>3. PICK i \in 1..Len(E) : p = Position(E[i])
      BY <1>2, <2>2, Zenon
    <2> QED
      BY <1>3, <2>1, <2>3
  <1>5. ASSUME NEW i \in 1..Len(E), NonZero(E[i].w) \/ E[i].s # {}
        PROVE  \E k \in 1..Len(Merge(E)) : Merge(E)[k] = E[i]
    <2>1. Position(E[i]) \in DOMAIN Sums(E)
      BY <1>2
    <2>2. Position(E[i]) \in Said(E)
      BY <1>3, <1>5, <2>1, Zenon DEF Said
    <2>3. \E k \in 1..Len(Merge(E)) : Merge(E)[k] = Sums(E)[Position(E[i])]
      BY <2>2, MergeFacts, Zenon DEF MergeRight
    <2> QED
      BY <1>3, <2>3
  <1> QED
    BY <1>3, <1>4, <1>5, Zenon DEF MergeKeeps

-----------------------------------------------------------------------------
(* The layers that are still needed *)

\* What the sweep of compact_layers does at layer i.
LiveStep(c, live, i) ==
    IF i \in live /\ IsProd(c.L[i]) THEN live \cup {c.L[i].pa, c.L[i].pb} ELSE live

\* The layers from the top.
Downward(c) == Reverse([i \in DOMAIN c.L |-> i])

\* The table Live folds by: the layers from the top.
LiveFold(g, c, n) ==
    g = [s \in SUBSET (1..n) |->
            IF s = {} THEN {c.E[k].lid : k \in DOMAIN c.E} ELSE LiveStep(c, g[s \ {Max(s)}], Downward(c)[Max(s)])]

\* Such a table exists: a table for one more place extends the one before.
LEMMA LiveFoldExists ==
    ASSUME NEW c, NEW n \in Nat
    PROVE  \E g : LiveFold(g, c, n)
  <1> DEFINE T == {m \in Nat : \E g : LiveFold(g, c, m)}
  <1>1. 0 \in T
    <2> DEFINE g == [s \in SUBSET (1..0) |-> {c.E[k].lid : k \in DOMAIN c.E}]
    <2>1. \A s \in SUBSET (1..0) : s = {}
      OBVIOUS
    <2>2. g = [s \in SUBSET (1..0) |->
                  IF s = {} THEN {c.E[k].lid : k \in DOMAIN c.E} ELSE LiveStep(c, g[s \ {Max(s)}], Downward(c)[Max(s)])]
      BY <2>1, Zenon
    <2> QED
      BY <2>2 DEF LiveFold
  <1>2. ASSUME NEW m \in T PROVE m + 1 \in T
    <2>1. PICK g : LiveFold(g, c, m)
      OBVIOUS
    <2> DEFINE h == [s \in SUBSET (1..(m + 1)) |->
                       IF m + 1 \in s THEN LiveStep(c, g[s \ {m + 1}], Downward(c)[m + 1]) ELSE g[s]]
    <2>2. m \in Nat /\ m + 1 \in Nat
      OBVIOUS
    <2>3. ASSUME NEW s \in SUBSET (1..(m + 1))
          PROVE  h[s] = IF s = {} THEN {c.E[k].lid : k \in DOMAIN c.E} ELSE LiveStep(c, h[s \ {Max(s)}], Downward(c)[Max(s)])
      <3>1. CASE m + 1 \in s
        <4>1. Max(s) = m + 1
          BY <2>2, <3>1, MaxTop
        <4>2. s \ {m + 1} \in SUBSET (1..(m + 1)) /\ m + 1 \notin s \ {m + 1}
          OBVIOUS
        <4>3. h[s \ {m + 1}] = g[s \ {m + 1}]
          BY <4>2, Zenon
        <4>4. h[s] = LiveStep(c, g[s \ {m + 1}], Downward(c)[m + 1])
          BY <3>1, Zenon
        <4> HIDE DEF h
        <4> QED
          BY <3>1, <4>1, <4>3, <4>4, Zenon
      <3>2. CASE m + 1 \notin s
        <4>1. s \in SUBSET (1..m)
          BY <2>2, <3>2
        <4>2. h[s] = g[s]
          BY <3>2, Zenon
        <4>3. h[s \ {Max(s)}] = g[s \ {Max(s)}]
          <5>1. s \ {Max(s)} \in SUBSET (1..(m + 1)) /\ m + 1 \notin s \ {Max(s)}
            BY <3>2
          <5> QED
            BY <5>1, Zenon
        <4>4. g[s] = IF s = {} THEN {c.E[k].lid : k \in DOMAIN c.E} ELSE LiveStep(c, g[s \ {Max(s)}], Downward(c)[Max(s)])
          BY <2>1, <4>1, Zenon DEF LiveFold
        <4> HIDE DEF h
        <4> QED
          BY <4>2, <4>3, <4>4, Zenon
      <3> QED
        BY <3>1, <3>2
    <2>4. h = [s \in SUBSET (1..(m + 1)) |-> h[s]]
      BY Zenon
    <2> HIDE DEF h
    <2>5. LiveFold(h, c, m + 1)
      <3>1. [s \in SUBSET (1..(m + 1)) |-> h[s]]
            = [s \in SUBSET (1..(m + 1)) |->
                  IF s = {} THEN {c.E[k].lid : k \in DOMAIN c.E} ELSE LiveStep(c, h[s \ {Max(s)}], Downward(c)[Max(s)])]
        BY <2>3, Zenon
      <3> QED
        BY <2>4, <3>1, Zenon DEF LiveFold
    <2> QED
      BY <2>2, <2>5
  <1>3. T = Nat
    <2>1. T \in SUBSET Nat
      OBVIOUS
    <2> HIDE DEF T
    <2> QED
      BY <1>1, <1>2, <2>1, Climb
  <1> QED
    BY <1>3

\* The table read along the prefixes.
LiveTable(t, c, n) ==
    t[0] = {c.E[k].lid : k \in DOMAIN c.E} /\ \A k \in 1..n : t[k] = LiveStep(c, t[k - 1], Downward(c)[k])

\* Live is the last entry of the sweep's table.
LEMMA LiveSteps ==
    ASSUME NEW c, NEW n \in Nat, DOMAIN Downward(c) = 1..n
    PROVE  \E t : LiveTable(t, c, n) /\ Live(c) = t[n]
  <1> DEFINE g == CHOOSE g : LiveFold(g, c, n)
             t == [k \in 0..n |-> g[1..k]]
  <1>1. LiveFold(g, c, n)
    BY LiveFoldExists, Zenon
  <1>2. Live(c) = g[1..n]
    BY <1>1, Zenon DEF LiveFold, Live, FoldLeft, MapThenFoldSet, LiveStep, Downward
  <1> HIDE DEF g
  <1>3. ASSUME NEW k \in 1..n PROVE g[1..k] = LiveStep(c, g[1..(k - 1)], Downward(c)[k])
    <2>1. 1..k \in SUBSET (1..n) /\ 1..k # {} /\ (1..k) \ {k} = 1..(k - 1)
      OBVIOUS
    <2>2. Max(1..k) = k
      BY MaxTop
    <2>3. g[1..k] = LiveStep(c, g[(1..k) \ {Max(1..k)}], Downward(c)[Max(1..k)])
      BY <1>1, <2>1, Zenon DEF LiveFold
    <2> QED
      BY <2>1, <2>2, <2>3, Zenon
  <1>4. g[1..0] = {c.E[k].lid : k \in DOMAIN c.E}
    <2>1. 1..0 = {} /\ 1..0 \in SUBSET (1..n)
      OBVIOUS
    <2> QED
      BY <1>1, <2>1, Zenon DEF LiveFold
  <1>5. t[0] = {c.E[k].lid : k \in DOMAIN c.E} /\ t[n] = Live(c)
    BY <1>2, <1>4
  <1>6. ASSUME NEW k \in 1..n PROVE t[k] = LiveStep(c, t[k - 1], Downward(c)[k])
    <2>1. k \in 0..n /\ k - 1 \in 0..n
      OBVIOUS
    <2>2. t[k] = g[1..k] /\ t[k - 1] = g[1..(k - 1)]
      BY <2>1
    <2> HIDE DEF t
    <2> QED
      BY <1>3, <2>2, Zenon
  <1> HIDE DEF t
  <1> QED
    BY <1>5, <1>6, Zenon DEF LiveTable

\* A closed set of layers that holds the layer of every edge.
LiveRight(c) ==
    /\ Live(c) \in SUBSET (1..Len(c.L)) /\ Closed(c.L, Live(c))
    /\ \A k \in DOMAIN c.E : c.E[k].lid \in Live(c)

\* The sweep of compact_layers ends with a closed set of layers that holds the
\* layer of every edge.
LEMMA LiveFacts ==
    ASSUME NEW c, IsSeq(c.L), ParentsBelow(c.L), \A k \in DOMAIN c.E : c.E[k].lid \in 1..Len(c.L)
    PROVE  LiveRight(c)
  <1> DEFINE L == c.L
             n == Len(c.L)
             lids == {c.E[k].lid : k \in DOMAIN c.E}
  <1>1. n \in Nat /\ DOMAIN L = 1..n
    BY DEF IsSeq
  <1>2. DOMAIN Downward(c) = 1..n /\ \A k \in 1..n : Downward(c)[k] = n - k + 1
    <2> DEFINE id == [i \in DOMAIN L |-> i]
    <2>1. id = [i \in 1..n |-> id[i]] /\ \A i \in 1..n : id[i] = i
      BY <1>1
    <2> HIDE DEF id
    <2>2. Len(id) = n
      BY <1>1, <2>1, FnSeq
    <2>3. Downward(c) = [i \in 1..n |-> id[(n - i) + 1]]
      BY <2>2 DEF Downward, Reverse, id
    <2>4. \A k \in 1..n : (n - k) + 1 \in 1..n
      BY <1>1
    <2> QED
      BY <2>1, <2>3, <2>4
  <1>3. PICK t : LiveTable(t, c, n) /\ Live(c) = t[n]
    BY <1>1, <1>2, LiveSteps
  <1>4. t[0] = lids
    BY <1>3, Zenon DEF LiveTable
  <1>5. \A k \in 1..n : t[k] = LiveStep(c, t[k - 1], n - k + 1)
    BY <1>2, <1>3, Zenon DEF LiveTable
  <1>6. lids \in SUBSET (1..n)
    OBVIOUS
  <1> DEFINE Inv(k) == /\ t[k] \in SUBSET (1..n) /\ lids \subseteq t[k]
                       /\ \A j \in t[k] : j > n - k /\ IsProd(L[j])
                              => L[j].pa \in t[k] /\ L[j].pb \in t[k]
             T == {k \in Nat : k <= n => Inv(k)}
  <1>7. 0 \in T
    <2>1. \A j \in lids : ~(j > n - 0)
      BY <1>1, <1>6
    <2> HIDE DEF lids
    <2> QED
      BY <1>4, <1>6, <2>1
  <1>8. ASSUME NEW k \in T PROVE k + 1 \in T
    <2> SUFFICES ASSUME k + 1 <= n PROVE Inv(k + 1)
      OBVIOUS
    <2>1. k \in Nat /\ k <= n /\ k + 1 \in 1..n /\ (k + 1) - 1 = k /\ n - (k + 1) + 1 = n - k
          /\ n - k \in 1..n
      BY <1>1
    <2>2. Inv(k)
      BY <2>1
    <2>3. PICK i \in 1..n : i = n - k
      BY <2>1
    <2>4. t[k + 1] = LiveStep(c, t[k], i)
      BY <1>5, <2>1, <2>3
    <2>5. CASE i \in t[k] /\ IsProd(L[i])
      <3>1. t[k + 1] = t[k] \cup {L[i].pa, L[i].pb}
        BY <2>4, <2>5 DEF LiveStep
      <3>2. L[i].pa \in 1..(i - 1) /\ L[i].pb \in 1..(i - 1)
        BY <2>5 DEF ParentsBelow
      <3>3. t[k + 1] \in SUBSET (1..n) /\ lids \subseteq t[k + 1]
        <4>1. L[i].pa \in 1..n /\ L[i].pb \in 1..n
          BY <1>1, <3>2
        <4> HIDE DEF lids
        <4> QED
          BY <2>2, <3>1, <4>1
      <3>4. ASSUME NEW j \in t[k + 1], j > n - (k + 1), IsProd(L[j])
            PROVE  L[j].pa \in t[k + 1] /\ L[j].pb \in t[k + 1]
        <4>1. CASE j = i
          BY <3>1, <4>1
        <4>2. CASE j # i
          <5>1. j \in 1..n
            BY <3>3
          <5>2. j > n - k
            BY <1>1, <2>1, <2>3, <3>4, <4>2, <5>1
          <5>3. j \in t[k]
            BY <1>1, <2>1, <2>3, <3>1, <3>2, <5>1, <5>2
          <5>4. L[j].pa \in t[k] /\ L[j].pb \in t[k]
            BY <2>2, <3>4, <5>2, <5>3
          <5> QED
            BY <3>1, <5>4
        <4> QED
          BY <4>1, <4>2
      <3> HIDE DEF L, lids
      <3> QED
        BY <3>3, <3>4
    <2>6. CASE ~(i \in t[k] /\ IsProd(L[i]))
      <3>1. t[k + 1] = t[k]
        BY <2>4, <2>6 DEF LiveStep
      <3>2. ASSUME NEW j \in t[k], j > n - (k + 1), IsProd(L[j])
            PROVE  L[j].pa \in t[k] /\ L[j].pb \in t[k]
        <4>1. j # i /\ j \in 1..n
          BY <2>2, <2>6, <3>2
        <4>2. j > n - k
          BY <1>1, <2>1, <2>3, <3>2, <4>1
        <4> QED
          BY <2>2, <3>2, <4>2
      <3> HIDE DEF L, lids
      <3> QED
        BY <2>2, <3>1, <3>2
    <2> QED
      BY <2>5, <2>6
  <1>9. T = Nat
    <2>1. T \in SUBSET Nat
      OBVIOUS
    <2> HIDE DEF T
    <2> QED
      BY <1>7, <1>8, <2>1, Climb
  <1>10. Inv(n)
    BY <1>1, <1>9
  <1>11. t[n] \in SUBSET (1..n)
    BY <1>10
  <1>12. Closed(L, t[n])
    <2>1. \A j \in t[n] : j > n - n
      BY <1>1, <1>11
    <2> QED
      BY <1>10, <2>1 DEF Closed
  <1>13. \A k \in DOMAIN c.E : c.E[k].lid \in t[n]
    BY <1>10
  <1> QED
    BY <1>3, <1>11, <1>12, <1>13, Zenon DEF LiveRight

-----------------------------------------------------------------------------
(* Well-formed ciphertexts *)

\* The numbers of slots there are.
Slots == {1} \cup {Len(v) : v \in Plain}

\* A layer has its fields and no others; a base layer has a seed, and one the
\* circuit PRF masks has no mask that is zero.
LayerOK(l, S) ==
    /\ l = [rule |-> l.rule, seed |-> l.seed, rpc |-> l.rpc, pc |-> l.pc, com |-> l.com,
            pa |-> l.pa, pb |-> l.pb]
    /\ l.rule \in {"base", "prod"}
    /\ \A points \in {l.pc, l.rpc} : points = <<>> \/ (~IsProd(l) /\ Len(points) = S)
    /\ ~IsProd(l) => /\ l.seed \in Seed
                     /\ l.rpc # <<>> => \A j \in 1..S : CircuitMask[l.seed][j] # 0

\* Layers: parents below, commitments that follow the parents.
LayersOK(L, S) ==
    /\ IsSeq(L) /\ \A i \in 1..Len(L) : LayerOK(L[i], S)
    /\ ParentsBelow(L) /\ CommitmentsFollowParents(L)

\* Edges the key accepts, one per place.
EdgesOK(E, m, S) == E \in Seq(EdgeSet(m, S)) /\ OneEdgePerPlace(E)

\* The constant: none, or one residue per slot.
ConstOK(c0, S) == c0 = <<>> \/ c0 \in Vec(S)

\* A ciphertext of its four parts.
Cipher(L, E, c0, S) == [L |-> L, E |-> E, c0 |-> c0, slots |-> S]

\* What every handle's ciphertext is: a shape the key accepts, one edge per
\* place, commitments that follow the parents.
ShapeOK(c) ==
    /\ c = Cipher(c.L, c.E, c.c0, c.slots) /\ c.slots \in Slots
    /\ LayersOK(c.L, c.slots) /\ EdgesOK(c.E, Len(c.L), c.slots) /\ ConstOK(c.c0, c.slots)

\* No compaction can drop a product: an edge of one has a bit set, and a product
\* without edges is a parent.
Needed(L, E) ==
    /\ \A k \in 1..Len(E) : IsProd(L[E[k].lid]) => E[k].s # {}
    /\ \A i \in 1..Len(L) : IsProd(L[i]) =>
           \/ \E k \in 1..Len(E) : E[k].lid = i
           \/ \E m \in 1..Len(L) : IsProd(L[m]) /\ i \in {L[m].pa, L[m].pb}

\* There is a slot, and a mask for every slot.
LEMMA SlotsFacts ==
    ASSUME NEW S \in Slots
    PROVE  /\ S \in Nat /\ S # 0 /\ S >= 1
           /\ \A s \in Seed : /\ CircuitMask[s] \in Seq(Field) /\ S <= Len(CircuitMask[s])
                              /\ LegacyMask[s] \in Seq(Field) /\ S <= Len(LegacyMask[s])
  <1>1. S \in Nat /\ S # 0
    <2>1. CASE S = 1
      BY <2>1
    <2>2. ASSUME NEW v \in Plain, S = Len(v) PROVE S \in Nat /\ S # 0
      <3>1. v \in Seq(Field) /\ v # <<>>
        BY CallerAssumption
      <3> QED
        BY <2>2, <3>1
    <2> QED
      BY <2>1, <2>2 DEF Slots
  <1>2. ASSUME NEW s \in Seed, NEW mask \in {CircuitMask[s], LegacyMask[s]}
        PROVE  mask \in Seq(Field) /\ S <= Len(mask)
    <2>1. mask \in Seq(Field) /\ Len(mask) >= 1 /\ \A v \in Plain : Len(v) <= Len(mask)
      BY MaskAssumption, Zenon
    <2>2. Len(mask) \in Nat
      BY <2>1
    <2> QED
      BY <2>1, <2>2 DEF Slots
  <1> QED
    BY <1>1, <1>2

\* Such a ciphertext passes is_valid_cipher_shape and fits the key.
LEMMA ShapeFits ==
    ASSUME NEW c, ShapeOK(c)
    PROVE  ValidCipherShape(c) /\ FitsKey(c) /\ ~Threw(c) /\ OneEdgePerPlace(c.E)
  <1> DEFINE L == c.L
             E == c.E
             S == c.slots
  <1>1. S \in Nat /\ S # 0 /\ S > 0
    BY SlotsFacts DEF ShapeOK
  <1>2. /\ IsSeq(L) /\ ParentsBelow(L) /\ \A i \in 1..Len(L) : LayerOK(L[i], S)
        /\ E \in Seq(EdgeSet(Len(L), S)) /\ OneEdgePerPlace(E)
        /\ c.c0 = <<>> \/ c.c0 \in Vec(S)
    BY DEF ShapeOK, LayersOK, EdgesOK, ConstOK
  <1>3. DOMAIN L = 1..Len(L) /\ DOMAIN E = 1..Len(E)
    BY <1>2 DEF IsSeq
  <1>4. c.c0 = <<>> \/ Len(c.c0) = S
    BY <1>1, <1>2, VecFacts
  <1>5. \A i \in DOMAIN L : \A points \in {L[i].pc, L[i].rpc} :
            points = <<>> \/ (~IsProd(L[i]) /\ Len(points) = S)
    BY <1>2, <1>3, Zenon DEF LayerOK
  <1>6. ASSUME NEW k \in DOMAIN E
        PROVE  /\ E[k].lid \in 1..Len(L) /\ E[k].ch \in {1, -1} /\ Len(E[k].w) = S
               /\ E[k].idx \in DOMAIN PowG /\ E[k].s \subseteq SigmaBits
    <2>1. E[k] \in EdgeSet(Len(L), S)
      BY <1>2, <1>3
    <2>2. E[k].lid \in 1..Len(L) /\ E[k].idx \in 0..(B - 1) /\ E[k].ch \in {1, -1}
          /\ E[k].w \in Vec(S) /\ E[k].s \in SUBSET SigmaBits
      BY <2>1 DEF EdgeSet
    <2>3. Len(E[k].w) = S
      BY <1>1, <2>2, VecFacts
    <2> QED
      BY <2>2, <2>3, PowFacts
  <1>7. EdgesPlaced(L, E)
    BY <1>3, <1>6 DEF EdgesPlaced
  <1>8. ValidCipherShape(c)
    BY <1>1, <1>2, <1>4, <1>5, <1>6, <1>7, Zenon DEF ValidCipherShape
  <1> QED
    BY <1>1, <1>2, <1>6, <1>8 DEF FitsKey, Threw

-----------------------------------------------------------------------------
(* Renaming parents *)

\* A layer with other parents, and the same in everything else.
SameLayer(x, l) ==
    /\ x.rule = l.rule /\ x.seed = l.seed /\ x.rpc = l.rpc /\ x.pc = l.pc /\ x.com = l.com
    /\ IsProd(x) <=> IsProd(l)

\* A layer whose parents were replaced is the same in everything else.
RenamedRight(l, a, b, S) ==
    LET x == [l EXCEPT !.pa = a, !.pb = b]
    IN  LayerOK(x, S) /\ SameLayer(x, l) /\ x.pa = a /\ x.pb = b

\* Replacing the parents does so.
LEMMA RenamedOK ==
    ASSUME NEW S, NEW l, LayerOK(l, S), NEW a, NEW b
    PROVE  RenamedRight(l, a, b, S)
  <1> DEFINE x == [l EXCEPT !.pa = a, !.pb = b]
  <1>1. l = [rule |-> l.rule, seed |-> l.seed, rpc |-> l.rpc, pc |-> l.pc, com |-> l.com,
             pa |-> l.pa, pb |-> l.pb]
    BY DEF LayerOK
  <1>2. PICK r, s, p, q, d, e, f : r = l.rule /\ s = l.seed /\ p = l.rpc /\ q = l.pc
                                   /\ d = l.com /\ e = l.pa /\ f = l.pb
    BY Zenon
  <1>4. l \in [rule : {r}, seed : {s}, rpc : {p}, pc : {q}, com : {d}, pa : {e}, pb : {f}]
    BY <1>1, <1>2
  <1>9. x \in [rule : {r}, seed : {s}, rpc : {p}, pc : {q}, com : {d}, pa : {a}, pb : {b}]
    BY <1>4
  <1> HIDE DEF x
  <1>3. x = [rule |-> r, seed |-> s, rpc |-> p, pc |-> q, com |-> d, pa |-> a, pb |-> b]
    BY <1>9
  <1>5. x.rule = r /\ x.seed = s /\ x.rpc = p /\ x.pc = q /\ x.com = d /\ x.pa = a /\ x.pb = b
    BY <1>3
  <1>6. x = [rule |-> x.rule, seed |-> x.seed, rpc |-> x.rpc, pc |-> x.pc, com |-> x.com,
             pa |-> x.pa, pb |-> x.pb]
    BY <1>3, <1>5
  <1>7. SameLayer(x, l)
    BY <1>2, <1>5 DEF SameLayer, IsProd
  <1>8. LayerOK(x, S)
    BY <1>6, <1>7, Zenon DEF LayerOK, SameLayer
  <1> QED
    BY <1>5, <1>7, <1>8, Zenon DEF x, RenamedRight

\* remap and append_layers.
RemapRight(Z, l, S) ==
    LET x == RemapLayer(Z, l)
    IN  LayerOK(x, S) /\ SameLayer(x, l)
        /\ (IsProd(l) => x.pa = Remap(Z, l.pa) /\ x.pb = Remap(Z, l.pb))

\* Remapping a layer replaces the parents of a product.
LEMMA RemapFacts == ASSUME NEW S, NEW Z, NEW l, LayerOK(l, S) PROVE RemapRight(Z, l, S)
  <1>1. CASE IsProd(l)
    <2>1. RemapLayer(Z, l) = [l EXCEPT !.pa = Remap(Z, l.pa), !.pb = Remap(Z, l.pb)]
      BY <1>1, Zenon DEF RemapLayer
    <2>2. PICK a, b : a = Remap(Z, l.pa) /\ b = Remap(Z, l.pb)
      OBVIOUS
    <2>3. PICK x : x = RemapLayer(Z, l)
      OBVIOUS
    <2>5. RenamedRight(l, a, b, S)
      BY RenamedOK
    <2>4. LayerOK(x, S) /\ SameLayer(x, l) /\ x.pa = a /\ x.pb = b
      BY <2>1, <2>2, <2>3, <2>5, Zenon DEF RenamedRight
    <2> QED
      BY <2>2, <2>3, <2>4, Zenon DEF RemapRight
  <1>2. CASE ~IsProd(l)
    <2>1. RemapLayer(Z, l) = l
      BY <1>2, Zenon DEF RemapLayer
    <2> QED
      BY <1>2, <2>1, Zenon DEF RemapRight, SameLayer
  <1> QED
    BY <1>1, <1>2

\* append_layers at one layer: the parents of a product move by off.
MoveRight(off, l, S) ==
    LET x == MoveLayer(l, off)
    IN  LayerOK(x, S) /\ SameLayer(x, l)
        /\ (IsProd(l) => x.pa = l.pa + off /\ x.pb = l.pb + off)

\* Moving a layer replaces the parents of a product.
LEMMA MoveFacts == ASSUME NEW S, NEW off, NEW l, LayerOK(l, S) PROVE MoveRight(off, l, S)
  <1>1. CASE IsProd(l)
    <2>1. MoveLayer(l, off) = [l EXCEPT !.pa = l.pa + off, !.pb = l.pb + off]
      BY <1>1, Zenon DEF MoveLayer
    <2>2. PICK a, b : a = l.pa + off /\ b = l.pb + off
      OBVIOUS
    <2>3. PICK x : x = MoveLayer(l, off)
      OBVIOUS
    <2>5. RenamedRight(l, a, b, S)
      BY RenamedOK
    <2>4. LayerOK(x, S) /\ SameLayer(x, l) /\ x.pa = a /\ x.pb = b
      BY <2>1, <2>2, <2>3, <2>5, Zenon DEF RenamedRight
    <2> QED
      BY <2>2, <2>3, <2>4, Zenon DEF MoveRight
  <1>2. CASE ~IsProd(l)
    <2>1. MoveLayer(l, off) = l
      BY <1>2, Zenon DEF MoveLayer
    <2> QED
      BY <1>2, <2>1, Zenon DEF MoveRight, SameLayer
  <1> QED
    BY <1>1, <1>2

-----------------------------------------------------------------------------
(* Sequences *)

\* A sequence of members of a set is a sequence.
LEMMA SeqIs ==
    ASSUME NEW T, NEW s \in Seq(T)
    PROVE  IsSeq(s) /\ DOMAIN s = 1..Len(s) /\ \A i \in 1..Len(s) : s[i] \in T
  BY DEF IsSeq

\* Two sequences, one after the other.
ConcatRight(s, t) ==
    /\ IsSeq(s \o t) /\ Len(s \o t) = Len(s) + Len(t) /\ Len(s) \in Nat /\ Len(t) \in Nat
    /\ \A i \in 1..Len(s) : (s \o t)[i] = s[i]
    /\ \A i \in 1..Len(t) : (s \o t)[Len(s) + i] = t[i]
    /\ \A i \in 1..Len(s \o t) : i \in 1..Len(s) \/ \E j \in 1..Len(t) : i = Len(s) + j

\* Concatenation does so.
LEMMA ConcatFacts == ASSUME NEW s, NEW t, IsSeq(s), IsSeq(t) PROVE ConcatRight(s, t)
  <1> DEFINE T == {s[i] : i \in 1..Len(s)} \cup {t[i] : i \in 1..Len(t)}
  <1>1. Len(s) \in Nat /\ Len(t) \in Nat
    BY DEF IsSeq
  <1>2. s = [i \in 1..Len(s) |-> s[i]] /\ t = [i \in 1..Len(t) |-> t[i]]
    BY Zenon DEF IsSeq
  <1>3. s \in Seq(T) /\ t \in Seq(T)
    BY <1>1, <1>2
  <1> HIDE DEF T
  <1>4. /\ s \o t \in Seq(T) /\ Len(s \o t) = Len(s) + Len(t)
        /\ \A i \in 1..Len(s) : (s \o t)[i] = s[i]
        /\ \A i \in 1..Len(t) : (s \o t)[Len(s) + i] = t[i]
    BY <1>3
  <1>5. IsSeq(s \o t)
    BY <1>4, SeqIs
  <1>6. ASSUME NEW i \in 1..Len(s \o t)
        PROVE  i \in 1..Len(s) \/ \E j \in 1..Len(t) : i = Len(s) + j
    <2>1. i \notin 1..Len(s) => i - Len(s) \in 1..Len(t) /\ i = Len(s) + (i - Len(s))
      BY <1>1, <1>4
    <2> QED
      BY <2>1
  <1> QED
    BY <1>1, <1>4, <1>5, <1>6, Zenon DEF ConcatRight

\* A sequence whose elements are in T is a sequence of T.
LEMMA IsSeqIn ==
    ASSUME NEW T, NEW s, IsSeq(s), \A i \in 1..Len(s) : s[i] \in T
    PROVE  s \in Seq(T)
  BY DEF IsSeq

-----------------------------------------------------------------------------
(* Edges with a field replaced *)

\* An edge with another layer.
LidRight(e, r, n, S) ==
    LET x == [e EXCEPT !.lid = r]
    IN  x \in EdgeSet(n, S) /\ x.lid = r /\ x.idx = e.idx /\ x.ch = e.ch /\ x.w = e.w /\ x.s = e.s

\* Replacing the layer changes nothing else.
LEMMA LidFacts ==
    ASSUME NEW m, NEW n, NEW S, NEW e \in EdgeSet(m, S), NEW r \in 1..n
    PROVE  LidRight(e, r, n, S)
  <1>1. PICK x : x = [e EXCEPT !.lid = r]
    OBVIOUS
  <1>2. /\ x \in EdgeSet(n, S) /\ x.lid = r /\ x.idx = e.idx /\ x.ch = e.ch
        /\ x.w = e.w /\ x.s = e.s
    BY <1>1 DEF EdgeSet
  <1> QED
    BY <1>1, <1>2, Zenon DEF LidRight

\* An edge with another weight.
WeightRight(e, v, m, S) ==
    LET x == [e EXCEPT !.w = v]
    IN  x \in EdgeSet(m, S) /\ x.lid = e.lid /\ x.idx = e.idx /\ x.ch = e.ch /\ x.w = v /\ x.s = e.s

\* Replacing the weight changes nothing else.
LEMMA WeightFacts ==
    ASSUME NEW m, NEW S, NEW e \in EdgeSet(m, S), NEW v \in Vec(S)
    PROVE  WeightRight(e, v, m, S)
  <1>1. PICK x : x = [e EXCEPT !.w = v]
    OBVIOUS
  <1>2. /\ x \in EdgeSet(m, S) /\ x.lid = e.lid /\ x.idx = e.idx /\ x.ch = e.ch
        /\ x.w = v /\ x.s = e.s
    BY <1>1 DEF EdgeSet
  <1> QED
    BY <1>1, <1>2, Zenon DEF WeightRight

\* An edge with other bits.
BitsRight(e, b, m, S) ==
    LET x == [e EXCEPT !.s = b]
    IN  x \in EdgeSet(m, S) /\ x.lid = e.lid /\ x.idx = e.idx /\ x.ch = e.ch /\ x.w = e.w /\ x.s = b

\* Replacing the bits changes nothing else.
LEMMA BitsFacts ==
    ASSUME NEW m, NEW S, NEW e \in EdgeSet(m, S), NEW b \in SUBSET SigmaBits
    PROVE  BitsRight(e, b, m, S)
  <1>1. PICK x : x = [e EXCEPT !.s = b]
    OBVIOUS
  <1>2. /\ x \in EdgeSet(m, S) /\ x.lid = e.lid /\ x.idx = e.idx /\ x.ch = e.ch
        /\ x.w = e.w /\ x.s = b
    BY <1>1 DEF EdgeSet
  <1> QED
    BY <1>1, <1>2, Zenon DEF BitsRight

\* Two edges are at one place when layer, index and sign are the same.
LEMMA OnePlace ==
    ASSUME NEW m \in Nat, NEW S, NEW E \in Seq(EdgeSet(m, S))
    PROVE  OneEdgePerPlace(E) <=>
           \A k, l \in 1..Len(E) :
               E[k].lid = E[l].lid /\ E[k].idx = E[l].idx /\ E[k].ch = E[l].ch => k = l
  <1>1. DOMAIN E = 1..Len(E) /\ \A k \in 1..Len(E) : E[k] \in EdgeSet(m, S)
    OBVIOUS
  <1>2. ASSUME NEW k \in 1..Len(E), NEW l \in 1..Len(E)
        PROVE  Position(E[k]) = Position(E[l]) <=>
               E[k].lid = E[l].lid /\ E[k].idx = E[l].idx /\ E[k].ch = E[l].ch
    <2>1. Position(E[k]) = Position(E[l]) =>
               E[k].lid = E[l].lid /\ E[k].idx = E[l].idx /\ E[k].ch = E[l].ch
      BY <1>1, PositionFacts
    <2> QED
      BY <2>1, Zenon DEF Position
  <1>3. OneEdgePerPlace(E) <=> \A k, l \in 1..Len(E) : Position(E[k]) = Position(E[l]) => k = l
    BY <1>1, Zenon DEF OneEdgePerPlace
  <1> QED
    BY <1>2, <1>3

-----------------------------------------------------------------------------
(* Layers that are moved *)

\* The layers of D are in J, at the positions f says, with their parents.
Embeds(L, J, D, f) ==
    \A i \in D :
        /\ f[i] \in 1..Len(J) /\ SameLayer(J[f[i]], L[i])
        /\ IsProd(L[i]) => /\ L[i].pa \in D /\ L[i].pb \in D
                           /\ J[f[i]].pa = f[L[i].pa] /\ J[f[i]].pb = f[L[i].pb]

\* A moved product's commitment still is that of its parents.
LEMMA EmbedsCommit ==
    ASSUME NEW L, NEW J, NEW f, NEW D \in SUBSET (1..Len(L)), Embeds(L, J, D, f), IsSeq(L),
           CommitmentsFollowParents(L), NEW i \in D, IsProd(J[f[i]])
    PROVE  J[f[i]].com \in {NoCom, <<"prod", J[J[f[i]].pa].com, J[J[f[i]].pb].com>>}
  <1>1. PICK l : l = L[i]
    OBVIOUS
  <1>2. /\ SameLayer(J[f[i]], l) /\ IsProd(l) /\ l.pa \in D /\ l.pb \in D
        /\ J[f[i]].pa = f[l.pa] /\ J[f[i]].pb = f[l.pb]
    BY <1>1, Zenon DEF Embeds, SameLayer
  <1>3. i \in DOMAIN L
    BY DEF IsSeq
  <1>4. l.com \in {NoCom, <<"prod", L[l.pa].com, L[l.pb].com>>}
    BY <1>1, <1>2, <1>3, Zenon DEF CommitmentsFollowParents
  <1>5. J[f[i]].com = l.com
    BY <1>2, Zenon DEF SameLayer
  <1>6. J[f[l.pa]].com = L[l.pa].com /\ J[f[l.pb]].com = L[l.pb].com
    BY <1>2, Zenon DEF Embeds, SameLayer
  <1> QED
    BY <1>2, <1>4, <1>5, <1>6, Zenon

\* compact_layers keeps a closed set of layers with their meaning.
Renaming(Z) == [i \in Z |-> Remap(Z, i)]

\* The kept layers are well-formed, and each is one that was there.
KeepRight(L, Z, S) ==
    /\ LayersOK(KeepLayers(L, Z), S) /\ Len(KeepLayers(L, Z)) = Cardinality(Z)
    /\ Cardinality(Z) \in Nat
    /\ Embeds(L, KeepLayers(L, Z), Z, Renaming(Z))
    /\ \A k \in 1..Cardinality(Z) : \E i \in Z : Remap(Z, i) = k

\* Keeping a closed set of layers does so.
LEMMA KeepFacts ==
    ASSUME NEW S, NEW L, LayersOK(L, S), NEW Z \in SUBSET (1..Len(L)), Closed(L, Z)
    PROVE  KeepRight(L, Z, S)
  <1> DEFINE J == KeepLayers(L, Z)
             c == Cardinality(Z)
             f == Renaming(Z)
  <1>1. /\ IsSeq(L) /\ ParentsBelow(L) /\ CommitmentsFollowParents(L)
        /\ \A i \in 1..Len(L) : LayerOK(L[i], S)
    BY DEF LayersOK
  <1>2. Places(Z)
    BY <1>1 DEF Places, IsSeq
  <1>3. /\ c \in Nat
        /\ \A k \in 1..c : KeptAt(Z, k) \in Z /\ Remap(Z, KeptAt(Z, k)) = k
        /\ \A i \in Z : Remap(Z, i) \in 1..c /\ KeptAt(Z, Remap(Z, i)) = i
        /\ \A i, j \in Z : i < j => Remap(Z, i) < Remap(Z, j)
    BY <1>2, KeptFacts, Zenon DEF KeptRight
  <1>4. /\ \A k \in 1..c : J[k] = RemapLayer(Z, L[KeptAt(Z, k)])
        /\ J = [k \in 1..c |-> J[k]]
    BY Zenon DEF KeepLayers
  <1> HIDE DEF J
  <1>5. IsSeq(J) /\ Len(J) = c
    BY <1>3, <1>4, FnSeq
  <1>6. \A i \in Z : f[i] = Remap(Z, i)
    BY DEF Renaming
  <1> HIDE DEF f
  <1>7. \A i \in Z : f[i] \in 1..c /\ J[f[i]] = RemapLayer(Z, L[i])
    BY <1>3, <1>4, <1>6
  <1>8. \A i \in Z : RemapRight(Z, L[i], S)
    BY <1>1, RemapFacts
  <1>9. ASSUME NEW i \in Z
        PROVE  /\ LayerOK(J[f[i]], S) /\ SameLayer(J[f[i]], L[i])
               /\ IsProd(L[i]) => /\ L[i].pa \in Z /\ L[i].pb \in Z
                                  /\ J[f[i]].pa = f[L[i].pa] /\ J[f[i]].pb = f[L[i].pb]
    <2>1. PICK l : l = L[i]
      OBVIOUS
    <2>2. LayerOK(J[f[i]], S) /\ SameLayer(J[f[i]], l)
          /\ (IsProd(l) => J[f[i]].pa = Remap(Z, l.pa) /\ J[f[i]].pb = Remap(Z, l.pb))
      BY <1>7, <1>8, <2>1, Zenon DEF RemapRight
    <2>3. IsProd(l) => l.pa \in Z /\ l.pb \in Z
      BY <2>1, Zenon DEF Closed
    <2> QED
      BY <1>6, <2>1, <2>2, <2>3, Zenon
  <1>10. Embeds(L, J, Z, f)
    BY <1>5, <1>7, <1>9, Zenon DEF Embeds
  <1>11. \A k \in 1..c : \E i \in Z : f[i] = k
    BY <1>3, <1>6
  <1>12. \A k \in 1..Len(J) : LayerOK(J[k], S)
    BY <1>5, <1>9, <1>11, Zenon
  <1>13. ParentsBelow(J)
    <2> SUFFICES ASSUME NEW k \in 1..c, IsProd(J[k])
                 PROVE  J[k].pa \in 1..(k - 1) /\ J[k].pb \in 1..(k - 1)
      BY <1>5 DEF ParentsBelow
    <2>1. PICK i \in Z : f[i] = k
      BY <1>11
    <2>2. PICK p, q : p = L[i].pa /\ q = L[i].pb
      OBVIOUS
    <2>3. IsProd(L[i])
      BY <1>9, <2>1, Zenon DEF SameLayer
    <2>4. p \in Z /\ q \in Z /\ J[k].pa = f[p] /\ J[k].pb = f[q]
      BY <1>9, <2>1, <2>2, <2>3, Zenon
    <2>5. p \in 1..(i - 1) /\ q \in 1..(i - 1)
      BY <1>1, <2>2, <2>3 DEF ParentsBelow
    <2>6. p < i /\ q < i
      BY <2>5
    <2>7. f[p] < k /\ f[q] < k /\ f[p] \in 1..c /\ f[q] \in 1..c
      BY <1>3, <1>6, <2>1, <2>4, <2>6
    <2> QED
      BY <1>3, <2>4, <2>7
  <1>14. CommitmentsFollowParents(J)
    <2> SUFFICES ASSUME NEW k \in 1..c, IsProd(J[k])
                 PROVE  J[k].com \in {NoCom, <<"prod", J[J[k].pa].com, J[J[k].pb].com>>}
      BY <1>5 DEF CommitmentsFollowParents, IsSeq
    <2>1. PICK i \in Z : f[i] = k
      BY <1>11
    <2> QED
      BY <1>1, <1>10, <2>1, EmbedsCommit
  <1> QED
    BY <1>3, <1>5, <1>6, <1>10, <1>11, <1>12, <1>13, <1>14, Zenon
       DEF J, f, KeepRight, LayersOK

\* The edges follow their layers.
KeepEdgesRight(E, Z, S) ==
    /\ EdgesOK(KeepEdges(E, Z), Cardinality(Z), S)
    /\ Len(KeepEdges(E, Z)) = Len(E)
    /\ \A k \in 1..Len(E) : LET x == KeepEdges(E, Z)[k]
                            IN  /\ x.lid = Remap(Z, E[k].lid) /\ x.idx = E[k].idx /\ x.ch = E[k].ch
                                /\ x.w = E[k].w /\ x.s = E[k].s

\* Edges whose layers are kept follow them.
LEMMA KeepEdgesFacts ==
    ASSUME NEW S, NEW m \in Nat, NEW E, EdgesOK(E, m, S), NEW Z \in SUBSET (1..m),
           \A k \in 1..Len(E) : E[k].lid \in Z
    PROVE  KeepEdgesRight(E, Z, S)
  <1> DEFINE F == KeepEdges(E, Z)
             c == Cardinality(Z)
  <1>1. E \in Seq(EdgeSet(m, S)) /\ OneEdgePerPlace(E)
    BY DEF EdgesOK
  <1>2. Len(E) \in Nat /\ \A k \in 1..Len(E) : E[k] \in EdgeSet(m, S)
    BY <1>1
  <1>3. Places(Z)
    BY DEF Places
  <1>4. /\ c \in Nat /\ \A i \in Z : Remap(Z, i) \in 1..c /\ KeptAt(Z, Remap(Z, i)) = i
    BY <1>3, KeptFacts, Zenon DEF KeptRight
  <1>5. /\ \A k \in 1..Len(E) : F[k] = [E[k] EXCEPT !.lid = Remap(Z, E[k].lid)]
        /\ F = [k \in 1..Len(E) |-> F[k]]
    BY Zenon DEF KeepEdges
  <1> HIDE DEF F
  <1>6. IsSeq(F) /\ Len(F) = Len(E)
    BY <1>2, <1>5, FnSeq
  <1>7. ASSUME NEW k \in 1..Len(E)
        PROVE  /\ F[k] \in EdgeSet(c, S) /\ F[k].lid = Remap(Z, E[k].lid) /\ F[k].idx = E[k].idx
               /\ F[k].ch = E[k].ch /\ F[k].w = E[k].w /\ F[k].s = E[k].s
    <2>1. PICK r \in 1..c : r = Remap(Z, E[k].lid)
      BY <1>4
    <2>2. LidRight(E[k], r, c, S)
      BY <1>2, LidFacts
    <2> QED
      BY <1>5, <2>1, <2>2, Zenon DEF LidRight
  <1>8. F \in Seq(EdgeSet(c, S))
    BY <1>6, <1>7, IsSeqIn
  <1>9. OneEdgePerPlace(F)
    <2>1. ASSUME NEW k \in 1..Len(F), NEW l \in 1..Len(F),
                 F[k].lid = F[l].lid, F[k].idx = F[l].idx, F[k].ch = F[l].ch
          PROVE  k = l
      <3>1. Remap(Z, E[k].lid) = Remap(Z, E[l].lid) /\ E[k].idx = E[l].idx /\ E[k].ch = E[l].ch
        BY <1>6, <1>7, <2>1, Zenon
      <3>2. E[k].lid = E[l].lid
        <4>1. k \in 1..Len(E) /\ l \in 1..Len(E)
          BY <1>6
        <4>2. E[k].lid \in Z /\ E[l].lid \in Z
          BY <4>1
        <4> QED
          BY <1>4, <3>1, <4>2, Zenon
      <3> QED
        BY <1>1, <1>6, <3>1, <3>2, OnePlace
    <2> QED
      BY <1>4, <1>8, <2>1, OnePlace
  <1> QED
    BY <1>6, <1>7, <1>8, <1>9, Zenon DEF F, KeepEdgesRight, EdgesOK

-----------------------------------------------------------------------------
(* A ciphertext is its four parts *)

\* The four parts can be read back.
PartsRight(L, E, c0, S) ==
    LET c == Cipher(L, E, c0, S)
    IN  c.L = L /\ c.E = E /\ c.c0 = c0 /\ c.slots = S

\* Any four parts can.
LEMMA PartsFacts == ASSUME NEW L, NEW E, NEW c0, NEW S PROVE PartsRight(L, E, c0, S)
  BY DEF PartsRight, Cipher

\* Replacing parts of a ciphertext is putting it together anew.
ReplaceRight(c, l, e, x) ==
    /\ [c EXCEPT !.E = e] = Cipher(c.L, e, c.c0, c.slots)
    /\ [c EXCEPT !.c0 = x] = Cipher(c.L, c.E, x, c.slots)
    /\ [c EXCEPT !.L = l, !.E = e] = Cipher(l, e, c.c0, c.slots)
    /\ [c EXCEPT !.E = e, !.c0 = x] = Cipher(c.L, e, x, c.slots)

\* For every ciphertext of four parts.
LEMMA ReplaceFacts ==
    ASSUME NEW c, c = Cipher(c.L, c.E, c.c0, c.slots), NEW l, NEW e, NEW x
    PROVE  ReplaceRight(c, l, e, x)
  <1>1. PICK p, q, r, s : p = c.L /\ q = c.E /\ r = c.c0 /\ s = c.slots
    OBVIOUS
  <1>2. c \in [L : {p}, E : {q}, c0 : {r}, slots : {s}]
    BY <1>1 DEF Cipher
  <1>3. PICK y : y = [c EXCEPT !.E = e]
    OBVIOUS
  <1>4. y \in [L : {p}, E : {e}, c0 : {r}, slots : {s}]
    BY <1>2, <1>3
  <1>5. y = Cipher(p, e, r, s)
    BY <1>4 DEF Cipher
  <1>6. PICK z : z = [c EXCEPT !.c0 = x]
    OBVIOUS
  <1>7. z \in [L : {p}, E : {q}, c0 : {x}, slots : {s}]
    BY <1>2, <1>6
  <1>8. z = Cipher(p, q, x, s)
    BY <1>7 DEF Cipher
  <1>9. PICK u : u = [c EXCEPT !.L = l, !.E = e]
    OBVIOUS
  <1>10. u \in [L : {l}, E : {e}, c0 : {r}, slots : {s}]
    BY <1>2, <1>9
  <1>11. u = Cipher(l, e, r, s)
    BY <1>10 DEF Cipher
  <1>12. PICK v : v = [c EXCEPT !.E = e, !.c0 = x]
    OBVIOUS
  <1>13. v \in [L : {p}, E : {e}, c0 : {x}, slots : {s}]
    BY <1>2, <1>12
  <1>14. v = Cipher(p, e, x, s)
    BY <1>13 DEF Cipher
  <1> QED
    BY <1>1, <1>3, <1>5, <1>6, <1>8, <1>9, <1>11, <1>12, <1>14, Zenon DEF ReplaceRight

\* The parts of a well-formed ciphertext.
LEMMA ShapeParts ==
    ASSUME NEW c, ShapeOK(c)
    PROVE  /\ c = Cipher(c.L, c.E, c.c0, c.slots) /\ c.slots \in Slots /\ c.slots \in Nat
           /\ c.slots # 0 /\ LayersOK(c.L, c.slots) /\ EdgesOK(c.E, Len(c.L), c.slots)
           /\ ConstOK(c.c0, c.slots) /\ IsSeq(c.L) /\ Len(c.L) \in Nat
           /\ c.E \in Seq(EdgeSet(Len(c.L), c.slots)) /\ Len(c.E) \in Nat
           /\ DOMAIN c.E = 1..Len(c.E) /\ DOMAIN c.L = 1..Len(c.L)
           /\ \A k \in 1..Len(c.E) : c.E[k] \in EdgeSet(Len(c.L), c.slots)
                                     /\ c.E[k].lid \in 1..Len(c.L)
  <1>1. /\ c = Cipher(c.L, c.E, c.c0, c.slots) /\ c.slots \in Slots
        /\ LayersOK(c.L, c.slots) /\ EdgesOK(c.E, Len(c.L), c.slots)
        /\ ConstOK(c.c0, c.slots)
    BY DEF ShapeOK
  <1>2. c.slots \in Nat /\ c.slots # 0
    BY <1>1, SlotsFacts
  <1>3. IsSeq(c.L)
    BY <1>1 DEF LayersOK
  <1>4. Len(c.L) \in Nat /\ DOMAIN c.L = 1..Len(c.L)
    BY <1>3 DEF IsSeq
  <1>5. c.E \in Seq(EdgeSet(Len(c.L), c.slots))
    BY <1>1 DEF EdgesOK
  <1>6. Len(c.E) \in Nat /\ DOMAIN c.E = 1..Len(c.E)
        /\ \A k \in 1..Len(c.E) : c.E[k] \in EdgeSet(Len(c.L), c.slots)
    BY <1>5
  <1>7. \A k \in 1..Len(c.E) : c.E[k].lid \in 1..Len(c.L)
    BY <1>6 DEF EdgeSet
  <1> QED
    BY <1>1, <1>2, <1>3, <1>4, <1>5, <1>6, <1>7

\* A ciphertext put together of well-formed parts.
LEMMA ShapeMake ==
    ASSUME NEW S \in Slots, NEW L, NEW E, NEW c0, LayersOK(L, S), EdgesOK(E, Len(L), S),
           ConstOK(c0, S)
    PROVE  ShapeOK(Cipher(L, E, c0, S))
  <1>1. PICK c : c = Cipher(L, E, c0, S)
    OBVIOUS
  <1>3. PartsRight(L, E, c0, S)
    BY PartsFacts
  <1>2. c.L = L /\ c.E = E /\ c.c0 = c0 /\ c.slots = S
    BY <1>1, <1>3, Zenon DEF PartsRight
  <1> QED
    BY <1>1, <1>2, Zenon DEF ShapeOK

-----------------------------------------------------------------------------
(* compact_edges and guard_budget *)

\* Merged edges are well-formed, and no product is lost by a merge.
MergedRight(L, E, S) ==
    /\ EdgesOK(Merge(E), Len(L), S)
    /\ Needed(L, E) => Needed(L, Merge(E))

\* For every list of well-formed edges.
LEMMA MergedFacts ==
    ASSUME NEW S \in Nat, NEW L, IsSeq(L), NEW E, EdgesOK(E, Len(L), S)
    PROVE  MergedRight(L, E, S)
  <1>1. Len(L) \in Nat /\ E \in Seq(EdgeSet(Len(L), S)) /\ OneEdgePerPlace(E)
    BY DEF IsSeq, EdgesOK
  <1>2. MergeRight(E, Len(L), S)
    BY <1>1, MergeFacts
  <1>3. EdgesOK(Merge(E), Len(L), S)
    BY <1>2, Zenon DEF MergeRight, EdgesOK
  <1>4. MergeKeeps(E)
    BY <1>1, MergeSame
  <1>5. ASSUME Needed(L, E) PROVE Needed(L, Merge(E))
    <2>1. ASSUME NEW k \in 1..Len(Merge(E)), IsProd(L[Merge(E)[k].lid]) PROVE Merge(E)[k].s # {}
      <3>1. PICK i \in 1..Len(E) : Merge(E)[k] = E[i]
        BY <1>4, Zenon DEF MergeKeeps
      <3> QED
        BY <1>5, <2>1, <3>1, Zenon DEF Needed
    <2>2. ASSUME NEW i \in 1..Len(L), IsProd(L[i]),
                 ~\E m \in 1..Len(L) : IsProd(L[m]) /\ i \in {L[m].pa, L[m].pb}
          PROVE  \E k \in 1..Len(Merge(E)) : Merge(E)[k].lid = i
      <3>1. PICK k \in 1..Len(E) : E[k].lid = i
        BY <1>5, <2>2, Zenon DEF Needed
      <3>2. E[k].s # {}
        BY <1>5, <2>2, <3>1, Zenon DEF Needed
      <3>3. PICK l \in 1..Len(Merge(E)) : Merge(E)[l] = E[k]
        BY <1>4, <3>2, Zenon DEF MergeKeeps
      <3> QED
        BY <3>1, <3>3, Zenon
    <2> QED
      BY <2>1, <2>2, Zenon DEF Needed
  <1> QED
    BY <1>3, <1>5 DEF MergedRight

\* compact_edges and guard_budget replace the edges by merged ones.
EdgesCompacted(c) ==
    /\ CompactEdges(c) = Cipher(c.L, Merge(c.E), c.c0, c.slots) /\ ShapeOK(CompactEdges(c))
    /\ GuardBudget(c) \in {c, CompactEdges(c)} /\ ShapeOK(GuardBudget(c))
    /\ \A d \in {CompactEdges(c), GuardBudget(c)} :
           /\ d.L = c.L /\ d.c0 = c.c0 /\ d.slots = c.slots
           /\ Needed(c.L, c.E) => Needed(d.L, d.E)

\* For every well-formed ciphertext.
LEMMA EdgesCompactedFacts == ASSUME NEW c, ShapeOK(c) PROVE EdgesCompacted(c)
  <1> DEFINE e == CompactEdges(c)
  <1>1. e = Cipher(c.L, Merge(c.E), c.c0, c.slots)
    <2>1. ReplaceRight(c, c.L, Merge(c.E), c.c0)
      BY ReplaceFacts DEF ShapeOK
    <2> QED
      BY <2>1, Zenon DEF ReplaceRight, CompactEdges
  <1> HIDE DEF e
  <1>9. PartsRight(c.L, Merge(c.E), c.c0, c.slots)
    BY PartsFacts
  <1>2. e.L = c.L /\ e.c0 = c.c0 /\ e.slots = c.slots /\ e.E = Merge(c.E)
    BY <1>1, <1>9, Zenon DEF PartsRight
  <1>3. /\ c.slots \in Slots /\ c.slots \in Nat /\ LayersOK(c.L, c.slots) /\ IsSeq(c.L)
        /\ EdgesOK(c.E, Len(c.L), c.slots) /\ ConstOK(c.c0, c.slots)
    BY ShapeParts
  <1>4. MergedRight(c.L, c.E, c.slots)
    BY <1>3, MergedFacts
  <1>5. EdgesOK(Merge(c.E), Len(c.L), c.slots)
    BY <1>4 DEF MergedRight
  <1>6. ShapeOK(e)
    BY <1>1, <1>3, <1>5, ShapeMake
  <1>7. Needed(c.L, c.E) => Needed(e.L, e.E)
    BY <1>2, <1>4 DEF MergedRight
  <1>8. GuardBudget(c) \in {c, e}
    BY Zenon DEF GuardBudget, e
  <1> QED
    BY <1>1, <1>2, <1>6, <1>7, <1>8, Zenon DEF e, EdgesCompacted

-----------------------------------------------------------------------------
(* compact_layers *)

\* A product is live.
LEMMA ProductsLive ==
    ASSUME NEW c, ShapeOK(c), Needed(c.L, c.E), NEW i \in 1..Len(c.L), IsProd(c.L[i])
    PROVE  i \in Live(c)
  <1> DEFINE n == Len(c.L)
             T == {n - j : j \in {l \in 1..n : IsProd(c.L[l]) /\ l \notin Live(c)}}
  <1>1. n \in Nat /\ IsSeq(c.L) /\ ParentsBelow(c.L) /\ DOMAIN c.E = 1..Len(c.E)
        /\ \A k \in 1..Len(c.E) : c.E[k].lid \in 1..n
    BY ShapeParts DEF LayersOK
  <1>2. LiveRight(c)
    BY <1>1, LiveFacts
  <1>3. Closed(c.L, Live(c)) /\ \A k \in DOMAIN c.E : c.E[k].lid \in Live(c)
    BY <1>2 DEF LiveRight
  <1> HIDE DEF n
  <1> SUFFICES ASSUME i \notin Live(c) PROVE FALSE
    OBVIOUS
  <1>4. T \subseteq Nat /\ T # {}
    <2>1. n \in Nat /\ i \in 1..n
      BY <1>1 DEF n
    <2>2. n - i \in T
      BY <2>1
    <2> QED
      BY <2>1, <2>2
  <1>5. PICK x \in T : \A y \in T : x <= y
    BY <1>4, LeastNatural
  <1>6. PICK j \in 1..n : x = n - j /\ IsProd(c.L[j]) /\ j \notin Live(c)
    OBVIOUS
  <1>7. ~\E k \in 1..Len(c.E) : c.E[k].lid = j
    BY <1>1, <1>3, <1>6
  <1>8. PICK m \in 1..n : IsProd(c.L[m]) /\ j \in {c.L[m].pa, c.L[m].pb}
    BY <1>6, <1>7, Zenon DEF Needed, n
  <1>9. j \in 1..(m - 1)
    BY <1>1, <1>8 DEF ParentsBelow, n
  <1>10. m \in Live(c)
    <2> SUFFICES ASSUME m \notin Live(c) PROVE FALSE
      OBVIOUS
    <2>1. n - m \in T
      BY <1>8
    <2>2. x <= n - m
      BY <1>5, <2>1
    <2> QED
      BY <1>1, <1>6, <1>9, <2>2
  <1>11. j \in Live(c)
    BY <1>3, <1>8, <1>10, Zenon DEF Closed
  <1> QED
    BY <1>6, <1>11

\* compact_layers keeps the live layers, and all products among them.
LayersCompacted(c) ==
    LET Z == Live(c)
        d == CompactLayers(c)
    IN  /\ d = Cipher(KeepLayers(c.L, Z), KeepEdges(c.E, Z), c.c0, c.slots)
        /\ ShapeOK(d)
        /\ Z \in SUBSET (1..Len(c.L)) /\ Closed(c.L, Z)
        /\ \A k \in 1..Len(c.E) : c.E[k].lid \in Z
        /\ Needed(c.L, c.E) => Needed(d.L, d.E) /\ \A i \in 1..Len(c.L) : IsProd(c.L[i]) => i \in Z

\* For every well-formed ciphertext.
LEMMA LayersCompactedFacts == ASSUME NEW c, ShapeOK(c) PROVE LayersCompacted(c)
  <1> DEFINE Z == Live(c)
             d == CompactLayers(c)
             J == KeepLayers(c.L, Z)
             F == KeepEdges(c.E, Z)
             L == c.L
             E == c.E
             S == c.slots
             f == Renaming(Z)
  <1>1. /\ S \in Slots /\ S \in Nat /\ LayersOK(L, S) /\ IsSeq(L) /\ Len(L) \in Nat
        /\ EdgesOK(E, Len(L), S) /\ ConstOK(c.c0, S) /\ ParentsBelow(L)
        /\ DOMAIN E = 1..Len(E) /\ \A k \in 1..Len(E) : E[k].lid \in 1..Len(L)
    BY ShapeParts DEF LayersOK
  <1>2. LiveRight(c)
    BY <1>1, LiveFacts
  <1>3. Z \in SUBSET (1..Len(L)) /\ Closed(L, Z) /\ \A k \in 1..Len(E) : E[k].lid \in Z
    BY <1>1, <1>2, Zenon DEF LiveRight
  <1>4. d = Cipher(J, F, c.c0, S)
    <2>1. ValidCipherShape(c)
      BY ShapeFits
    <2>2. ReplaceRight(c, J, F, c.c0)
      BY ReplaceFacts DEF ShapeOK
    <2> QED
      BY <2>1, <2>2, Zenon DEF ReplaceRight, CompactLayers
  <1> HIDE DEF d, Z
  <1>5. KeepRight(L, Z, S)
    BY <1>1, <1>3, KeepFacts
  <1>6. KeepEdgesRight(E, Z, S)
    BY <1>1, <1>3, KeepEdgesFacts
  <1>7. LayersOK(J, S) /\ Len(J) = Cardinality(Z) /\ Embeds(L, J, Z, f)
        /\ \A k \in 1..Len(J) : \E i \in Z : Remap(Z, i) = k
    BY <1>5, Zenon DEF KeepRight
  <1>8. EdgesOK(F, Len(J), S)
    BY <1>6, <1>7, Zenon DEF KeepEdgesRight
  <1>9. Len(F) = Len(E)
        /\ \A k \in 1..Len(E) : F[k].lid = Remap(Z, E[k].lid) /\ F[k].s = E[k].s
    BY <1>6, Zenon DEF KeepEdgesRight
  <1>10. ShapeOK(d)
    BY <1>1, <1>4, <1>7, <1>8, ShapeMake
  <1>11. \A i \in Z : f[i] = Remap(Z, i)
    BY DEF Renaming
  <1> HIDE DEF J, F, f
  <1>12. ASSUME Needed(L, E)
         PROVE  Needed(J, F) /\ \A i \in 1..Len(L) : IsProd(L[i]) => i \in Z
    <2>1. \A i \in 1..Len(L) : IsProd(L[i]) => i \in Z
      BY <1>12, ProductsLive DEF Z
    <2>2. ASSUME NEW k \in 1..Len(F), IsProd(J[F[k].lid]) PROVE F[k].s # {}
      <3>1. k \in 1..Len(E)
        BY <1>9
      <3>2. E[k].lid \in Z /\ F[k].lid = f[E[k].lid] /\ F[k].s = E[k].s
        BY <1>3, <1>9, <1>11, <3>1, Zenon
      <3>3. IsProd(L[E[k].lid])
        BY <1>7, <2>2, <3>2, Zenon DEF Embeds, SameLayer
      <3> QED
        BY <1>12, <3>1, <3>2, <3>3, Zenon DEF Needed
    <2>3. ASSUME NEW x \in 1..Len(J), IsProd(J[x])
          PROVE  \/ \E k \in 1..Len(F) : F[k].lid = x
                 \/ \E m \in 1..Len(J) : IsProd(J[m]) /\ x \in {J[m].pa, J[m].pb}
      <3>1. PICK i \in Z : f[i] = x
        BY <1>7, <1>11
      <3>2. i \in 1..Len(L) /\ IsProd(L[i])
        BY <1>3, <1>7, <2>3, <3>1, Zenon DEF Embeds, SameLayer
      <3>3. CASE \E k \in 1..Len(E) : E[k].lid = i
        <4>1. PICK k \in 1..Len(E) : E[k].lid = i
          BY <3>3
        <4>2. k \in 1..Len(F) /\ F[k].lid = x
          BY <1>9, <1>11, <3>1, <4>1
        <4> QED
          BY <4>2
      <3>4. CASE \E m \in 1..Len(L) : IsProd(L[m]) /\ i \in {L[m].pa, L[m].pb}
        <4>1. PICK m \in 1..Len(L) : IsProd(L[m]) /\ i \in {L[m].pa, L[m].pb}
          BY <3>4
        <4>2. m \in Z
          BY <2>1, <4>1
        <4>3. f[m] \in 1..Len(J) /\ IsProd(J[f[m]])
              /\ J[f[m]].pa = f[L[m].pa] /\ J[f[m]].pb = f[L[m].pb]
          BY <1>7, <4>1, <4>2, Zenon DEF Embeds, SameLayer
        <4>4. x \in {J[f[m]].pa, J[f[m]].pb}
          BY <3>1, <4>1, <4>3
        <4> QED
          BY <4>3, <4>4, Zenon
      <3> QED
        BY <1>12, <3>2, <3>3, <3>4, Zenon DEF Needed
    <2> QED
      BY <2>1, <2>2, <2>3, Zenon DEF Needed
  <1>14. PartsRight(J, F, c.c0, S)
    BY PartsFacts
  <1>13. d.L = J /\ d.E = F
    BY <1>4, <1>14, Zenon DEF PartsRight
  <1> QED
    BY <1>3, <1>4, <1>10, <1>12, <1>13, Zenon DEF Z, d, J, F, LayersCompacted

-----------------------------------------------------------------------------
(* Joining *)

\* Edges of fewer layers are edges of more.
LEMMA EdgesWiden ==
    ASSUME NEW m \in Nat, NEW n \in Nat, m <= n, NEW S, NEW E, EdgesOK(E, m, S)
    PROVE  EdgesOK(E, n, S)
  <1>1. EdgeSet(m, S) \subseteq EdgeSet(n, S)
    <2>1. 1..m \subseteq 1..n
      OBVIOUS
    <2> QED
      BY <2>1 DEF EdgeSet
  <1>2. E \in Seq(EdgeSet(m, S))
    BY DEF EdgesOK
  <1>3. E \in Seq(EdgeSet(n, S))
    BY <1>1, <1>2
  <1> QED
    BY <1>3 DEF EdgesOK

\* Edges of different layers can be put in one list.
LEMMA ConcatEdges ==
    ASSUME NEW m \in Nat, NEW S, NEW E, NEW F, EdgesOK(E, m, S), EdgesOK(F, m, S),
           \A k \in 1..Len(E), l \in 1..Len(F) : E[k].lid # F[l].lid
    PROVE  EdgesOK(E \o F, m, S)
  <1> DEFINE H == E \o F
  <1>1. /\ E \in Seq(EdgeSet(m, S)) /\ OneEdgePerPlace(E)
        /\ F \in Seq(EdgeSet(m, S)) /\ OneEdgePerPlace(F)
    BY DEF EdgesOK
  <1>2. IsSeq(E) /\ IsSeq(F)
    BY <1>1, SeqIs
  <1>3. ConcatRight(E, F)
    BY <1>2, ConcatFacts
  <1>4. H \in Seq(EdgeSet(m, S))
    BY <1>1
  <1>5. /\ Len(H) = Len(E) + Len(F) /\ Len(E) \in Nat /\ Len(F) \in Nat
        /\ \A i \in 1..Len(E) : H[i] = E[i]
        /\ \A i \in 1..Len(F) : H[Len(E) + i] = F[i]
        /\ \A i \in 1..Len(H) : i \in 1..Len(E) \/ \E j \in 1..Len(F) : i = Len(E) + j
    BY <1>3, Zenon DEF ConcatRight
  <1> HIDE DEF H
  <1>6. ASSUME NEW k \in 1..Len(H), NEW l \in 1..Len(H),
               H[k].lid = H[l].lid, H[k].idx = H[l].idx, H[k].ch = H[l].ch
        PROVE  k = l
    <2>1. CASE k \in 1..Len(E) /\ l \in 1..Len(E)
      <3>1. H[k] = E[k] /\ H[l] = E[l]
        BY <1>5, <2>1
      <3> QED
        BY <1>1, <1>6, <2>1, <3>1, OnePlace
    <2>2. CASE k \in 1..Len(E) /\ \E j \in 1..Len(F) : l = Len(E) + j
      <3>1. PICK j \in 1..Len(F) : l = Len(E) + j
        BY <2>2
      <3>2. H[k] = E[k] /\ H[l] = F[j]
        BY <1>5, <2>2, <3>1
      <3> QED
        BY <1>6, <2>2, <3>2, Zenon
    <2>3. CASE l \in 1..Len(E) /\ \E j \in 1..Len(F) : k = Len(E) + j
      <3>1. PICK j \in 1..Len(F) : k = Len(E) + j
        BY <2>3
      <3>2. H[l] = E[l] /\ H[k] = F[j]
        BY <1>5, <2>3, <3>1
      <3> QED
        BY <1>6, <2>3, <3>2, Zenon
    <2>4. CASE (\E j \in 1..Len(F) : k = Len(E) + j) /\ (\E j \in 1..Len(F) : l = Len(E) + j)
      <3>1. PICK j \in 1..Len(F) : k = Len(E) + j
        BY <2>4
      <3>2. PICK i \in 1..Len(F) : l = Len(E) + i
        BY <2>4
      <3>3. H[k] = F[j] /\ H[l] = F[i]
        BY <1>5, <3>1, <3>2
      <3>4. j = i
        BY <1>1, <1>6, <3>3, OnePlace
      <3> QED
        BY <3>1, <3>2, <3>4
    <2> QED
      BY <1>5, <2>1, <2>2, <2>3, <2>4, Zenon
  <1>7. OneEdgePerPlace(H)
    BY <1>4, <1>6, OnePlace
  <1> QED
    BY <1>4, <1>7 DEF H, EdgesOK

\* Edges moved up by off.
MovedEdges(E, off, n, S) ==
    /\ EdgesOK(MoveEdges(E, off), n, S) /\ Len(MoveEdges(E, off)) = Len(E)
    /\ \A k \in 1..Len(E) : LET x == MoveEdges(E, off)[k]
                            IN  /\ x.lid = E[k].lid + off /\ x.idx = E[k].idx /\ x.ch = E[k].ch
                                /\ x.w = E[k].w /\ x.s = E[k].s

\* Edges moved within the layers there are.
LEMMA MoveEdgesFacts ==
    ASSUME NEW S, NEW m \in Nat, NEW n \in Nat, NEW off \in Nat, m + off <= n,
           NEW E, EdgesOK(E, m, S)
    PROVE  MovedEdges(E, off, n, S)
  <1> DEFINE F == MoveEdges(E, off)
  <1>1. E \in Seq(EdgeSet(m, S)) /\ OneEdgePerPlace(E)
    BY DEF EdgesOK
  <1>2. Len(E) \in Nat /\ \A k \in 1..Len(E) : E[k] \in EdgeSet(m, S)
    BY <1>1
  <1>3. \A k \in 1..Len(E) : E[k].lid \in 1..m
    BY <1>2 DEF EdgeSet
  <1>5. /\ \A k \in 1..Len(E) : F[k] = [E[k] EXCEPT !.lid = E[k].lid + off]
        /\ F = [k \in 1..Len(E) |-> F[k]]
    BY Zenon DEF MoveEdges
  <1> HIDE DEF F
  <1>6. IsSeq(F) /\ Len(F) = Len(E)
    BY <1>2, <1>5, FnSeq
  <1>7. ASSUME NEW k \in 1..Len(E)
        PROVE  /\ F[k] \in EdgeSet(n, S) /\ F[k].lid = E[k].lid + off /\ F[k].idx = E[k].idx
               /\ F[k].ch = E[k].ch /\ F[k].w = E[k].w /\ F[k].s = E[k].s
    <2>1. PICK r \in 1..n : r = E[k].lid + off
      BY <1>3
    <2>2. LidRight(E[k], r, n, S)
      BY <1>2, LidFacts
    <2> QED
      BY <1>5, <2>1, <2>2, Zenon DEF LidRight
  <1>8. F \in Seq(EdgeSet(n, S))
    BY <1>6, <1>7, IsSeqIn
  <1>9. OneEdgePerPlace(F)
    <2>1. ASSUME NEW k \in 1..Len(F), NEW l \in 1..Len(F),
                 F[k].lid = F[l].lid, F[k].idx = F[l].idx, F[k].ch = F[l].ch
          PROVE  k = l
      <3>0. k \in 1..Len(E) /\ l \in 1..Len(E)
        BY <1>6
      <3>1. E[k].lid + off = E[l].lid + off /\ E[k].idx = E[l].idx /\ E[k].ch = E[l].ch
        BY <1>7, <2>1, <3>0, Zenon
      <3>2. E[k].lid = E[l].lid
        BY <1>3, <3>0, <3>1
      <3> QED
        BY <1>1, <3>0, <3>1, <3>2, OnePlace
    <2> QED
      BY <1>8, <2>1, OnePlace
  <1> QED
    BY <1>6, <1>7, <1>8, <1>9, Zenon DEF F, MovedEdges, EdgesOK

\* Positions that stay.
IdOn(n) == [i \in 1..n |-> i]

\* Positions moved up by off.
ShiftOn(n, off) == [i \in 1..n |-> off + i]

\* The joined layers hold both operands' layers.
JoinedLayers(LA, LB, S) ==
    LET J == JoinLayers(LA, LB)
    IN  /\ LayersOK(J, S) /\ Len(J) = Len(LA) + Len(LB) /\ Len(LA) \in Nat /\ Len(LB) \in Nat
        /\ Embeds(LA, J, 1..Len(LA), IdOn(Len(LA)))
        /\ Embeds(LB, J, 1..Len(LB), ShiftOn(Len(LB), Len(LA)))
        /\ \A i \in 1..Len(J) : i \in 1..Len(LA) \/ \E j \in 1..Len(LB) : i = Len(LA) + j

\* append_layers.
LEMMA JoinLayersFacts ==
    ASSUME NEW S, NEW LA, NEW LB, LayersOK(LA, S), LayersOK(LB, S)
    PROVE  JoinedLayers(LA, LB, S)
  <1> DEFINE n == Len(LA)
             M == MoveLayers(LB, n)
             J == JoinLayers(LA, LB)
             f == IdOn(n)
             g == ShiftOn(Len(LB), n)
  <1>1. /\ IsSeq(LA) /\ ParentsBelow(LA) /\ CommitmentsFollowParents(LA)
        /\ \A i \in 1..Len(LA) : LayerOK(LA[i], S)
        /\ IsSeq(LB) /\ ParentsBelow(LB) /\ CommitmentsFollowParents(LB)
        /\ \A i \in 1..Len(LB) : LayerOK(LB[i], S)
    BY DEF LayersOK
  <1>2. n \in Nat /\ Len(LB) \in Nat
    BY <1>1 DEF IsSeq
  <1>3. (\A i \in 1..Len(LB) : M[i] = MoveLayer(LB[i], n)) /\ M = [i \in 1..Len(LB) |-> M[i]]
    BY Zenon DEF MoveLayers
  <1>4. J = LA \o M
    BY DEF JoinLayers
  <1> HIDE DEF M, J
  <1>5. IsSeq(M) /\ Len(M) = Len(LB)
    BY <1>2, <1>3, FnSeq
  <1>6. ConcatRight(LA, M)
    BY <1>1, <1>5, ConcatFacts
  <1>7. /\ IsSeq(J) /\ Len(J) = n + Len(LB)
        /\ \A i \in 1..n : J[i] = LA[i]
        /\ \A i \in 1..Len(LB) : J[n + i] = M[i]
        /\ \A i \in 1..Len(J) : i \in 1..n \/ \E j \in 1..Len(LB) : i = n + j
    BY <1>4, <1>5, <1>6, Zenon DEF ConcatRight
  <1>8. \A i \in 1..Len(LB) : MoveRight(n, LB[i], S)
    BY <1>1, MoveFacts
  <1>9. ASSUME NEW i \in 1..Len(LB)
        PROVE  /\ LayerOK(J[n + i], S) /\ SameLayer(J[n + i], LB[i])
               /\ IsProd(LB[i]) => J[n + i].pa = LB[i].pa + n /\ J[n + i].pb = LB[i].pb + n
    BY <1>3, <1>7, <1>8, Zenon DEF MoveRight
  <1>10. (\A i \in 1..n : f[i] = i) /\ (\A i \in 1..Len(LB) : g[i] = n + i)
    BY DEF IdOn, ShiftOn
  <1> HIDE DEF f, g
  <1>11. ASSUME NEW i \in 1..n, IsProd(LA[i])
         PROVE  LA[i].pa \in 1..n /\ LA[i].pb \in 1..n
                /\ LA[i].pa \in 1..(i - 1) /\ LA[i].pb \in 1..(i - 1)
    BY <1>1, <1>2, <1>11 DEF ParentsBelow
  <1>12. ASSUME NEW i \in 1..Len(LB), IsProd(LB[i])
         PROVE  LB[i].pa \in 1..Len(LB) /\ LB[i].pb \in 1..Len(LB)
                /\ LB[i].pa \in 1..(i - 1) /\ LB[i].pb \in 1..(i - 1)
    BY <1>1, <1>2, <1>12 DEF ParentsBelow
  <1>13. Embeds(LA, J, 1..n, f)
    <2> SUFFICES ASSUME NEW i \in 1..n
                 PROVE  /\ f[i] \in 1..Len(J) /\ SameLayer(J[f[i]], LA[i])
                        /\ IsProd(LA[i]) => /\ LA[i].pa \in 1..n /\ LA[i].pb \in 1..n
                                            /\ J[f[i]].pa = f[LA[i].pa] /\ J[f[i]].pb = f[LA[i].pb]
      BY Zenon DEF Embeds
    <2>1. f[i] = i /\ J[i] = LA[i]
      BY <1>7, <1>10
    <2>2. i \in 1..Len(J)
      BY <1>2, <1>7
    <2>3. SameLayer(LA[i], LA[i])
      BY DEF SameLayer
    <2>4. IsProd(LA[i]) => f[LA[i].pa] = LA[i].pa /\ f[LA[i].pb] = LA[i].pb
      BY <1>10, <1>11
    <2> QED
      BY <1>11, <2>1, <2>2, <2>3, <2>4, Zenon
  <1>14. Embeds(LB, J, 1..Len(LB), g)
    <2> SUFFICES ASSUME NEW i \in 1..Len(LB)
                 PROVE  /\ g[i] \in 1..Len(J) /\ SameLayer(J[g[i]], LB[i])
                        /\ IsProd(LB[i]) => /\ LB[i].pa \in 1..Len(LB) /\ LB[i].pb \in 1..Len(LB)
                                            /\ J[g[i]].pa = g[LB[i].pa] /\ J[g[i]].pb = g[LB[i].pb]
      BY Zenon DEF Embeds
    <2>1. g[i] = n + i
      BY <1>10
    <2>2. g[i] \in 1..Len(J)
      BY <1>2, <1>7, <2>1
    <2>3. ASSUME IsProd(LB[i])
          PROVE  J[g[i]].pa = g[LB[i].pa] /\ J[g[i]].pb = g[LB[i].pb]
      <3>1. PICK p \in 1..Len(LB), q \in 1..Len(LB) : p = LB[i].pa /\ q = LB[i].pb
        BY <1>12, <2>3
      <3>2. J[g[i]].pa = p + n /\ J[g[i]].pb = q + n
        BY <1>9, <2>1, <2>3, <3>1, Zenon
      <3>3. g[p] = n + p /\ g[q] = n + q /\ n + p = p + n /\ n + q = q + n
        BY <1>2, <1>10
      <3> QED
        BY <3>1, <3>2, <3>3, Zenon
    <2> QED
      BY <1>9, <1>12, <2>1, <2>2, <2>3, Zenon
  <1>15. \A i \in 1..Len(J) : LayerOK(J[i], S)
    BY <1>1, <1>7, <1>9, Zenon
  <1>16. ParentsBelow(J)
    <2> SUFFICES ASSUME NEW i \in 1..Len(J), IsProd(J[i])
                 PROVE  J[i].pa \in 1..(i - 1) /\ J[i].pb \in 1..(i - 1)
      BY DEF ParentsBelow
    <2>1. CASE i \in 1..n
      BY <1>7, <1>11, <2>1
    <2>2. CASE \E j \in 1..Len(LB) : i = n + j
      <3>1. PICK j \in 1..Len(LB) : i = n + j
        BY <2>2
      <3>2. IsProd(LB[j])
        BY <1>9, <3>1, Zenon DEF SameLayer
      <3>3. PICK p \in 1..(j - 1), q \in 1..(j - 1) : J[i].pa = p + n /\ J[i].pb = q + n
        BY <1>9, <1>12, <3>1, <3>2
      <3>4. p + n \in 1..(i - 1) /\ q + n \in 1..(i - 1)
        BY <1>2, <3>1
      <3> QED
        BY <3>3, <3>4
    <2> QED
      BY <1>7, <2>1, <2>2
  <1>17. CommitmentsFollowParents(J)
    <2> SUFFICES ASSUME NEW i \in 1..Len(J), IsProd(J[i])
                 PROVE  J[i].com \in {NoCom, <<"prod", J[J[i].pa].com, J[J[i].pb].com>>}
      BY <1>7 DEF CommitmentsFollowParents, IsSeq
    <2>1. CASE i \in 1..n
      <3>1. f[i] = i /\ IsProd(J[f[i]]) /\ 1..n \in SUBSET (1..Len(LA))
        BY <1>10, <2>1
      <3>2. J[f[i]].com \in {NoCom, <<"prod", J[J[f[i]].pa].com, J[J[f[i]].pb].com>>}
        BY <1>1, <1>13, <2>1, <3>1, EmbedsCommit
      <3> QED
        BY <3>1, <3>2
    <2>2. CASE \E j \in 1..Len(LB) : i = n + j
      <3>1. PICK j \in 1..Len(LB) : i = n + j
        BY <2>2
      <3>2. g[j] = i /\ IsProd(J[g[j]]) /\ 1..Len(LB) \in SUBSET (1..Len(LB))
        BY <1>10, <3>1
      <3>3. J[g[j]].com \in {NoCom, <<"prod", J[J[g[j]].pa].com, J[J[g[j]].pb].com>>}
        BY <1>1, <1>14, <3>2, EmbedsCommit
      <3> QED
        BY <3>2, <3>3
    <2> QED
      BY <1>7, <2>1, <2>2
  <1> QED
    BY <1>2, <1>7, <1>13, <1>14, <1>15, <1>16, <1>17, Zenon
       DEF f, g, J, JoinedLayers, LayersOK

\* The joined edges are those of both operands, on their layers.
JoinedEdges(LA, EA, LB, EB, S) ==
    LET J == JoinLayers(LA, LB)
        F == JoinEdges(LA, EA, EB)
    IN  /\ EdgesOK(F, Len(LA) + Len(LB), S)
        /\ F = EA \o MoveEdges(EB, Len(LA)) /\ MovedEdges(EB, Len(LA), Len(LA) + Len(LB), S)
        /\ EdgesOK(EA, Len(LA) + Len(LB), S)
        /\ Needed(LA, EA) /\ Needed(LB, EB) => Needed(J, F)

\* append_edges.
LEMMA JoinEdgesFacts ==
    ASSUME NEW S, NEW LA, NEW LB, LayersOK(LA, S), LayersOK(LB, S),
           NEW EA, NEW EB, EdgesOK(EA, Len(LA), S), EdgesOK(EB, Len(LB), S)
    PROVE  JoinedEdges(LA, EA, LB, EB, S)
  <1> DEFINE n == Len(LA)
             m == Len(LB)
             J == JoinLayers(LA, LB)
             M == MoveEdges(EB, n)
             F == JoinEdges(LA, EA, EB)
             f == IdOn(n)
             g == ShiftOn(m, n)
  <1>1. JoinedLayers(LA, LB, S)
    BY JoinLayersFacts
  <1>2. /\ LayersOK(J, S) /\ Len(J) = n + m /\ n \in Nat /\ m \in Nat
        /\ Embeds(LA, J, 1..n, f) /\ Embeds(LB, J, 1..m, g)
        /\ \A i \in 1..Len(J) : i \in 1..n \/ \E j \in 1..m : i = n + j
    BY <1>1, Zenon DEF JoinedLayers
  <1>3. (\A i \in 1..n : f[i] = i) /\ (\A i \in 1..m : g[i] = n + i)
    BY DEF IdOn, ShiftOn
  <1> HIDE DEF f, g, J
  <1>4. m + n <= n + m /\ n <= n + m /\ n + m \in Nat
    BY <1>2
  <1>5. MovedEdges(EB, n, n + m, S)
    BY <1>2, <1>4, MoveEdgesFacts
  <1>6. EdgesOK(EA, n + m, S)
    BY <1>2, <1>4, EdgesWiden
  <1>7. F = EA \o M
    BY DEF JoinEdges
  <1>8. EdgesOK(M, n + m, S) /\ Len(M) = Len(EB)
        /\ \A k \in 1..Len(EB) : M[k].lid = EB[k].lid + n /\ M[k].s = EB[k].s
    BY <1>5, Zenon DEF MovedEdges
  <1>9. (\A k \in 1..Len(EA) : EA[k].lid \in 1..n) /\ (\A k \in 1..Len(EB) : EB[k].lid \in 1..m)
        /\ IsSeq(EA)
    <2>1. EA \in Seq(EdgeSet(n, S)) /\ EB \in Seq(EdgeSet(m, S))
      BY DEF EdgesOK
    <2>2. (\A k \in 1..Len(EA) : EA[k] \in EdgeSet(n, S)) /\ IsSeq(EA)
          /\ (\A k \in 1..Len(EB) : EB[k] \in EdgeSet(m, S))
      BY <2>1, SeqIs
    <2> QED
      BY <2>2 DEF EdgeSet
  <1> HIDE DEF M
  <1>10. EdgesOK(F, n + m, S)
    <2>1. ASSUME NEW k \in 1..Len(EA), NEW l \in 1..Len(M) PROVE EA[k].lid # M[l].lid
      <3>1. PICK x \in 1..m : M[l].lid = x + n
        BY <1>8, <1>9
      <3> QED
        BY <1>2, <1>9, <3>1
    <2> QED
      BY <1>4, <1>6, <1>7, <1>8, <2>1, ConcatEdges
  <1>11. ConcatRight(EA, M)
    <2>1. IsSeq(M)
      BY <1>8, SeqIs DEF EdgesOK
    <2> QED
      BY <1>9, <2>1, ConcatFacts
  <1>12. /\ Len(F) = Len(EA) + Len(EB) /\ Len(EA) \in Nat /\ Len(EB) \in Nat
         /\ \A i \in 1..Len(EA) : F[i] = EA[i]
         /\ \A i \in 1..Len(EB) : F[Len(EA) + i] = M[i]
         /\ \A i \in 1..Len(F) : i \in 1..Len(EA) \/ \E j \in 1..Len(EB) : i = Len(EA) + j
    BY <1>7, <1>8, <1>11, Zenon DEF ConcatRight
  <1> HIDE DEF F
  <1>13. /\ \A k \in 1..Len(EA) : k \in 1..Len(F)
         /\ \A k \in 1..Len(EB) : Len(EA) + k \in 1..Len(F)
    BY <1>12
  <1>14. ASSUME Needed(LA, EA), Needed(LB, EB) PROVE Needed(J, F)
    <2>1. ASSUME NEW k \in 1..Len(F), IsProd(J[F[k].lid]) PROVE F[k].s # {}
      <3>1. CASE k \in 1..Len(EA)
        <4>1. F[k] = EA[k] /\ EA[k].lid \in 1..n
          BY <1>9, <1>12, <3>1
        <4>2. F[k].lid = f[EA[k].lid]
          BY <1>3, <4>1
        <4>3. IsProd(LA[EA[k].lid])
          BY <1>2, <2>1, <4>1, <4>2, Zenon DEF Embeds, SameLayer
        <4> QED
          BY <1>14, <3>1, <4>1, <4>3, Zenon DEF Needed
      <3>2. CASE \E j \in 1..Len(EB) : k = Len(EA) + j
        <4>1. PICK j \in 1..Len(EB) : k = Len(EA) + j
          BY <3>2
        <4>2. F[k] = M[j] /\ EB[j].lid \in 1..m
          BY <1>9, <1>12, <4>1
        <4>3. F[k].lid = g[EB[j].lid] /\ F[k].s = EB[j].s
          BY <1>2, <1>3, <1>8, <4>2
        <4>4. IsProd(LB[EB[j].lid])
          BY <1>2, <2>1, <4>2, <4>3, Zenon DEF Embeds, SameLayer
        <4> QED
          BY <1>14, <4>3, <4>4, Zenon DEF Needed
      <3> QED
        BY <1>12, <3>1, <3>2
    <2>2. ASSUME NEW x \in 1..Len(J), IsProd(J[x])
          PROVE  \/ \E k \in 1..Len(F) : F[k].lid = x
                 \/ \E y \in 1..Len(J) : IsProd(J[y]) /\ x \in {J[y].pa, J[y].pb}
      <3>1. CASE x \in 1..n
        <4>1. f[x] = x
          BY <1>3, <3>1
        <4>2. IsProd(LA[x])
          BY <1>2, <2>2, <3>1, <4>1, Zenon DEF Embeds, SameLayer
        <4>3. CASE \E k \in 1..Len(EA) : EA[k].lid = x
          BY <1>12, <1>13, <4>3, Zenon
        <4>4. CASE \E y \in 1..n : IsProd(LA[y]) /\ x \in {LA[y].pa, LA[y].pb}
          <5>1. PICK y \in 1..n : IsProd(LA[y]) /\ x \in {LA[y].pa, LA[y].pb}
            BY <4>4
          <5>2. f[y] \in 1..Len(J) /\ IsProd(J[f[y]])
                /\ J[f[y]].pa = f[LA[y].pa] /\ J[f[y]].pb = f[LA[y].pb]
            BY <1>2, <5>1, Zenon DEF Embeds, SameLayer
          <5>3. x \in {J[f[y]].pa, J[f[y]].pb}
            BY <4>1, <5>1, <5>2
          <5> QED
            BY <5>2, <5>3, Zenon
        <4> QED
          BY <1>14, <3>1, <4>2, <4>3, <4>4, Zenon DEF Needed
      <3>2. CASE \E j \in 1..m : x = n + j
        <4>0. PICK j \in 1..m : x = n + j
          BY <3>2
        <4>1. g[j] = x
          BY <1>3, <4>0
        <4>2. IsProd(LB[j])
          BY <1>2, <2>2, <4>1, Zenon DEF Embeds, SameLayer
        <4>3. CASE \E k \in 1..Len(EB) : EB[k].lid = j
          <5>1. PICK k \in 1..Len(EB) : EB[k].lid = j
            BY <4>3
          <5>2. F[Len(EA) + k].lid = j + n /\ Len(EA) + k \in 1..Len(F)
            BY <1>8, <1>12, <1>13, <5>1
          <5>3. j + n = x
            BY <1>2, <4>0
          <5> QED
            BY <5>2, <5>3, Zenon
        <4>4. CASE \E y \in 1..m : IsProd(LB[y]) /\ j \in {LB[y].pa, LB[y].pb}
          <5>1. PICK y \in 1..m : IsProd(LB[y]) /\ j \in {LB[y].pa, LB[y].pb}
            BY <4>4
          <5>2. g[y] \in 1..Len(J) /\ IsProd(J[g[y]])
                /\ J[g[y]].pa = g[LB[y].pa] /\ J[g[y]].pb = g[LB[y].pb]
            BY <1>2, <5>1, Zenon DEF Embeds, SameLayer
          <5>3. x \in {J[g[y]].pa, J[g[y]].pb}
            BY <4>1, <5>1, <5>2
          <5> QED
            BY <5>2, <5>3, Zenon
        <4> QED
          BY <1>14, <4>2, <4>3, <4>4, Zenon DEF Needed
      <3> QED
        BY <1>2, <3>1, <3>2
    <2> QED
      BY <2>1, <2>2, Zenon DEF Needed
  <1> QED
    BY <1>5, <1>6, <1>7, <1>10, <1>14, Zenon DEF M, F, J, JoinedEdges

-----------------------------------------------------------------------------
(* The depth of products *)

\* The larger of two naturals.
LEMMA MaxTwo ==
    ASSUME NEW a \in Nat, NEW b \in Nat
    PROVE  Max({a, b}) \in Nat /\ Max({a, b}) >= a /\ Max({a, b}) >= b /\ Max({a, b}) \in {a, b}
  <1>1. {a, b} \subseteq Int
    OBVIOUS
  <1>2. CASE a <= b
    <2>1. \A y \in {a, b} : y <= b
      BY <1>2
    <2>2. Max({a, b}) = b
      BY <1>1, <2>1, MaxIs
    <2> QED
      BY <1>2, <2>2
  <1>3. CASE b <= a
    <2>1. \A y \in {a, b} : y <= a
      BY <1>3
    <2>2. Max({a, b}) = a
      BY <1>1, <2>1, MaxIs
    <2> QED
      BY <1>3, <2>2
  <1> QED
    BY <1>2, <1>3

\* The table cipher_mul_depth fills.
DepthTable(d, L, n) ==
    d = [i \in 1..n |-> IF IsProd(L[i]) THEN Max({d[L[i].pa], d[L[i].pb]}) + 1 ELSE 0]

\* cipher_mul_depth's table exists: the parents are below.
LEMMA DepthExists ==
    ASSUME NEW L, NEW n \in Nat,
           \A i \in 1..n : IsProd(L[i]) => L[i].pa \in 1..(i - 1) /\ L[i].pb \in 1..(i - 1)
    PROVE  \E d : DepthTable(d, L, n)
  <1> DEFINE T == {m \in Nat : m <= n => \E d : DepthTable(d, L, m)}
             Entry(d, i) == IF IsProd(L[i]) THEN Max({d[L[i].pa], d[L[i].pb]}) + 1 ELSE 0
  <1>1. 0 \in T
    <2> DEFINE d == [i \in 1..0 |-> 0]
    <2>1. \A i \in 1..0 : FALSE
      OBVIOUS
    <2>2. d = [i \in 1..0 |-> Entry(d, i)]
      BY <2>1, Zenon
    <2> QED
      BY <2>2 DEF DepthTable
  <1>2. ASSUME NEW m \in T PROVE m + 1 \in T
    <2> SUFFICES ASSUME m + 1 <= n PROVE \E d : DepthTable(d, L, m + 1)
      OBVIOUS
    <2>0. m \in Nat /\ m <= n
      OBVIOUS
    <2>1. PICK d : DepthTable(d, L, m)
      BY <2>0
    <2> DEFINE h == [i \in 1..(m + 1) |-> IF i = m + 1 THEN Entry(d, m + 1) ELSE d[i]]
    <2>2. ASSUME NEW i \in 1..(m + 1) PROVE h[i] = Entry(h, i)
      <3>1. i \in 1..n /\ i - 1 <= m
        BY <2>0
      <3>2. ASSUME IsProd(L[i]) PROVE h[L[i].pa] = d[L[i].pa] /\ h[L[i].pb] = d[L[i].pb]
        <4>1. L[i].pa \in 1..(i - 1) /\ L[i].pb \in 1..(i - 1)
          BY <3>1, <3>2
        <4>2. /\ L[i].pa \in 1..(m + 1) /\ L[i].pa # m + 1
              /\ L[i].pb \in 1..(m + 1) /\ L[i].pb # m + 1
          BY <2>0, <3>1, <4>1
        <4> QED
          BY <4>2, Zenon
      <3>3. CASE i = m + 1
        <4>1. h[i] = Entry(d, i)
          BY <3>3, Zenon
        <4> HIDE DEF h
        <4> QED
          BY <3>2, <4>1, Zenon
      <3>4. CASE i # m + 1
        <4>1. i \in 1..m
          BY <2>0, <3>4
        <4>2. h[i] = d[i]
          BY <3>4, Zenon
        <4>3. d[i] = Entry(d, i)
          BY <2>1, <4>1, Zenon DEF DepthTable
        <4> HIDE DEF h
        <4> QED
          BY <3>2, <4>2, <4>3, Zenon
      <3> QED
        BY <3>3, <3>4
    <2>3. h = [i \in 1..(m + 1) |-> h[i]]
      BY Zenon
    <2> HIDE DEF h
    <2>4. [i \in 1..(m + 1) |-> h[i]] = [i \in 1..(m + 1) |-> Entry(h, i)]
      BY <2>2, Zenon
    <2>5. DepthTable(h, L, m + 1)
      BY <2>3, <2>4, Zenon DEF DepthTable
    <2> QED
      BY <2>5
  <1>3. T = Nat
    <2>1. T \in SUBSET Nat
      OBVIOUS
    <2> HIDE DEF T
    <2> QED
      BY <1>1, <1>2, <2>1, Climb
  <1> QED
    BY <1>3

\* Its entries are naturals, and one of them, or 0, is the largest.
LEMMA DepthNat ==
    ASSUME NEW L, NEW n \in Nat, NEW d, DepthTable(d, L, n),
           \A i \in 1..n : IsProd(L[i]) => L[i].pa \in 1..(i - 1) /\ L[i].pb \in 1..(i - 1)
    PROVE  \A i \in 1..n : d[i] \in Nat
  <1> DEFINE T == {i \in 1..n : d[i] \notin Nat}
  <1> SUFFICES ASSUME T # {} PROVE FALSE
    OBVIOUS
  <1>1. PICK i \in T : \A y \in T : i <= y
    <2>1. T \subseteq Nat
      OBVIOUS
    <2> HIDE DEF T
    <2> QED
      BY <2>1, LeastNatural
  <1>2. d[i] = IF IsProd(L[i]) THEN Max({d[L[i].pa], d[L[i].pb]}) + 1 ELSE 0
    BY Zenon DEF DepthTable
  <1>3. IsProd(L[i])
    BY <1>2
  <1>4. PICK p \in 1..(i - 1), q \in 1..(i - 1) : p = L[i].pa /\ q = L[i].pb
    BY <1>3
  <1>5. p \in 1..n /\ q \in 1..n /\ ~(i <= p) /\ ~(i <= q)
    OBVIOUS
  <1>6. d[p] \in Nat /\ d[q] \in Nat
    BY <1>1, <1>5
  <1>7. Max({d[p], d[q]}) + 1 \in Nat
    BY <1>6, MaxTwo
  <1> QED
    BY <1>2, <1>3, <1>4, <1>7

\* A finite table of naturals has a largest entry, or is empty.
LEMMA LargestExists ==
    ASSUME NEW n \in Nat, NEW d, \A i \in 1..n : d[i] \in Nat
    PROVE  \E x \in Nat : (\A i \in 1..n : d[i] <= x) /\ (x = 0 \/ \E i \in 1..n : d[i] = x)
  <1> DEFINE Top(m, x) == (\A i \in 1..m : d[i] <= x) /\ (x = 0 \/ \E i \in 1..m : d[i] = x)
             T == {m \in Nat : m <= n => \E x \in Nat : Top(m, x)}
  <1>1. 0 \in T
    <2>1. Top(0, 0)
      OBVIOUS
    <2> QED
      BY <2>1
  <1>2. ASSUME NEW m \in T PROVE m + 1 \in T
    <2> SUFFICES ASSUME m + 1 <= n PROVE \E x \in Nat : Top(m + 1, x)
      OBVIOUS
    <2>0. m \in Nat /\ m <= n /\ m + 1 \in 1..n /\ 1..m \subseteq 1..n
      OBVIOUS
    <2>1. PICK x \in Nat : Top(m, x)
      BY <2>0
    <2>2. d[m + 1] \in Nat /\ \A i \in 1..m : d[i] \in Nat
      BY <2>0
    <2>3. \A i \in 1..(m + 1) : i \in 1..m \/ i = m + 1
      BY <2>0
    <2>4. CASE d[m + 1] <= x
      <3>1. Top(m + 1, x)
        BY <2>0, <2>1, <2>3, <2>4
      <3> QED
        BY <3>1
    <2>5. CASE x < d[m + 1]
      <3>1. \A i \in 1..m : d[i] <= d[m + 1]
        BY <2>1, <2>2, <2>5
      <3>2. Top(m + 1, d[m + 1])
        BY <2>0, <2>2, <2>3, <3>1
      <3> QED
        BY <2>2, <3>2
    <2> QED
      BY <2>2, <2>4, <2>5
  <1>3. T = Nat
    <2>1. T \in SUBSET Nat
      OBVIOUS
    <2> HIDE DEF T
    <2> QED
      BY <1>1, <1>2, <2>1, Climb
  <1>4. n \in T
    BY <1>3
  <1> QED
    BY <1>4

\* x is the depth of the layers L, by the table d.
Deep(L, d, x) ==
    /\ x \in Nat /\ DepthTable(d, L, Len(L))
    /\ \A i \in 1..Len(L) : d[i] \in Nat /\ d[i] <= x
    /\ x = 0 \/ \E i \in 1..Len(L) : d[i] = x

\* cipher_mul_depth returns the largest entry of its table.
LEMMA DeepIs ==
    ASSUME NEW c, NEW S, LayersOK(c.L, S)
    PROVE  \E d : Deep(c.L, d, MulDepth(c))
  <1> DEFINE L == c.L
             n == Len(L)
             d == CHOOSE d : d = [i \in DOMAIN c.L |->
                                    IF IsProd(c.L[i]) THEN Max({d[c.L[i].pa], d[c.L[i].pb]}) + 1 ELSE 0]
             D == {0} \cup {d[i] : i \in DOMAIN c.L}
  <1>1. IsSeq(L) /\ ParentsBelow(L)
    BY DEF LayersOK
  <1>2. n \in Nat /\ DOMAIN L = 1..n
    BY <1>1 DEF IsSeq
  <1>3. \A i \in 1..n : IsProd(L[i]) => L[i].pa \in 1..(i - 1) /\ L[i].pb \in 1..(i - 1)
    BY <1>1 DEF ParentsBelow
  <1>4. MulDepth(c) = Max(D)
    BY Zenon DEF MulDepth
  <1>5. DepthTable(d, L, n)
    <2>1. \E f : DepthTable(f, L, n)
      BY <1>2, <1>3, DepthExists
    <2>2. d = CHOOSE f : DepthTable(f, L, n)
      BY <1>2, Zenon DEF DepthTable
    <2> HIDE DEF d
    <2> QED
      BY <2>1, <2>2, Zenon
  <1> HIDE DEF d, n
  <1>6. \A i \in 1..n : d[i] \in Nat
    BY <1>2, <1>3, <1>5, DepthNat
  <1>7. PICK x \in Nat : (\A i \in 1..n : d[i] <= x) /\ (x = 0 \/ \E i \in 1..n : d[i] = x)
    BY <1>2, <1>6, LargestExists
  <1>8. D \subseteq Int /\ x \in D /\ \A y \in D : y <= x
    BY <1>2, <1>6, <1>7
  <1> HIDE DEF D
  <1>9. Max(D) = x
    BY <1>8, MaxIs
  <1>10. Deep(L, d, x)
    BY <1>5, <1>6, <1>7 DEF Deep, n
  <1> QED
    BY <1>4, <1>9, <1>10

\* A moved layer has the depth it had.
Carried(L, J, D, f, d, e, x, y) == \A i \in D : e[f[i]] = d[i]

\* By induction on the positions: the parents are below.
LEMMA DepthMoves ==
    ASSUME NEW L, NEW J, NEW d, NEW e, NEW x, NEW y, Deep(L, d, x), Deep(J, e, y), ParentsBelow(L),
           Len(L) \in Nat, NEW D \in SUBSET (1..Len(L)), NEW f, Embeds(L, J, D, f)
    PROVE  Carried(L, J, D, f, d, e, x, y)
  <1> DEFINE T == {i \in D : e[f[i]] # d[i]}
  <1> SUFFICES ASSUME T # {} PROVE FALSE
    BY DEF Carried
  <1>1. PICK i \in T : \A z \in T : i <= z
    <2>0. D \subseteq Nat /\ T \subseteq D
      OBVIOUS
    <2>1. T \subseteq Nat
      BY <2>0
    <2> HIDE DEF T
    <2> QED
      BY <2>1, LeastNatural
  <1>2. i \in 1..Len(L) /\ f[i] \in 1..Len(J) /\ (IsProd(J[f[i]]) <=> IsProd(L[i]))
    BY Zenon DEF Embeds, SameLayer
  <1>3. d[i] = IF IsProd(L[i]) THEN Max({d[L[i].pa], d[L[i].pb]}) + 1 ELSE 0
    BY <1>2, Zenon DEF Deep, DepthTable
  <1>4. PICK j \in 1..Len(J) : j = f[i]
    BY <1>2
  <1>5. e[j] = IF IsProd(J[j]) THEN Max({e[J[j].pa], e[J[j].pb]}) + 1 ELSE 0
    BY <1>4, Zenon DEF Deep, DepthTable
  <1>6. IsProd(L[i]) /\ IsProd(J[j])
    BY <1>2, <1>3, <1>4, <1>5
  <1>7. PICK p \in D, q \in D : p = L[i].pa /\ q = L[i].pb /\ J[j].pa = f[p] /\ J[j].pb = f[q]
    BY <1>4, <1>6, Zenon DEF Embeds
  <1>8. p \in 1..(i - 1) /\ q \in 1..(i - 1)
    BY <1>2, <1>6, <1>7 DEF ParentsBelow
  <1>9. ~(i <= p) /\ ~(i <= q)
    BY <1>2, <1>8
  <1>10. e[f[p]] = d[p] /\ e[f[q]] = d[q]
    BY <1>1, <1>7, <1>9
  <1> QED
    BY <1>3, <1>4, <1>5, <1>6, <1>7, <1>10, Zenon

\* No product, no depth.
LEMMA DepthBase ==
    ASSUME NEW c, NEW S, LayersOK(c.L, S), \A i \in 1..Len(c.L) : ~IsProd(c.L[i])
    PROVE  MulDepth(c) = 0
  <1>1. PICK d : Deep(c.L, d, MulDepth(c))
    BY DeepIs
  <1>2. \A i \in 1..Len(c.L) : d[i] = 0
    BY <1>1, Zenon DEF Deep, DepthTable
  <1> QED
    BY <1>1, <1>2 DEF Deep

\* The depth is one of the layers.
LEMMA DepthOfLayers == ASSUME NEW c, NEW d, c.L = d.L PROVE MulDepth(c) = MulDepth(d)
  <1> DEFINE M(L) == LET depth[i \in DOMAIN L] ==
                             IF IsProd(L[i]) THEN Max({depth[L[i].pa], depth[L[i].pb]}) + 1 ELSE 0
                     IN  Max({0} \cup {depth[i] : i \in DOMAIN L})
  <1>1. MulDepth(c) = M(c.L) /\ MulDepth(d) = M(d.L)
    BY Zenon DEF MulDepth
  <1> HIDE DEF M
  <1> QED
    BY <1>1

\* Dropping layers that are no products.
DepthStays(c, d, D, f, S) == MulDepth(d) = MulDepth(c)

\* Every product is kept, so the depth stays.
LEMMA DepthKept ==
    ASSUME NEW c, NEW d, NEW S, LayersOK(c.L, S), LayersOK(d.L, S),
           NEW D \in SUBSET (1..Len(c.L)), NEW f, Embeds(c.L, d.L, D, f),
           \A i \in 1..Len(c.L) : IsProd(c.L[i]) => i \in D,
           \A k \in 1..Len(d.L) : \E i \in D : f[i] = k
    PROVE  DepthStays(c, d, D, f, S)
  <1> DEFINE x == MulDepth(c)
             y == MulDepth(d)
  <1>1. PICK g : Deep(c.L, g, x)
    BY DeepIs
  <1>2. PICK h : Deep(d.L, h, y)
    BY DeepIs
  <1> HIDE DEF x, y
  <1>3. ParentsBelow(c.L) /\ Len(c.L) \in Nat
    BY DEF LayersOK, IsSeq
  <1>4. \A i \in D : h[f[i]] = g[i]
    <2>1. Carried(c.L, d.L, D, f, g, h, x, y)
      BY <1>1, <1>2, <1>3, DepthMoves
    <2> QED
      BY <2>1 DEF Carried
  <1>5. /\ x \in Nat /\ y \in Nat
        /\ \A i \in 1..Len(c.L) : g[i] \in Nat /\ g[i] <= x
        /\ \A i \in 1..Len(d.L) : h[i] \in Nat /\ h[i] <= y
        /\ x = 0 \/ \E i \in 1..Len(c.L) : g[i] = x
        /\ y = 0 \/ \E i \in 1..Len(d.L) : h[i] = y
    BY <1>1, <1>2 DEF Deep
  <1>6. y <= x
    <2>1. CASE y = 0
      BY <1>5, <2>1
    <2>2. CASE \E i \in 1..Len(d.L) : h[i] = y
      <3>1. PICK k \in 1..Len(d.L) : h[k] = y
        BY <2>2
      <3>2. PICK i \in D : f[i] = k
        OBVIOUS
      <3>3. g[i] = y /\ g[i] <= x
        BY <1>4, <1>5, <3>1, <3>2
      <3> QED
        BY <3>3
    <2> QED
      BY <1>5, <2>1, <2>2
  <1>7. x <= y
    <2>1. CASE x = 0
      BY <1>5, <2>1
    <2>2. CASE x # 0
      <3>1. PICK i \in 1..Len(c.L) : g[i] = x
        BY <1>5, <2>2
      <3>2. g[i] = IF IsProd(c.L[i]) THEN Max({g[c.L[i].pa], g[c.L[i].pb]}) + 1 ELSE 0
        BY <1>1, Zenon DEF Deep, DepthTable
      <3>3. i \in D
        BY <2>2, <3>1, <3>2
      <3>4. f[i] \in 1..Len(d.L) /\ h[f[i]] = x
        BY <1>4, <3>1, <3>3, Zenon DEF Embeds
      <3> QED
        BY <1>5, <3>4
    <2> QED
      BY <2>1, <2>2
  <1> QED
    BY <1>5, <1>6, <1>7 DEF x, y, DepthStays

\* The depth of two ciphertexts joined is that of the deeper one.
LEMMA DepthJoined ==
    ASSUME NEW a, NEW b, NEW c, NEW S, LayersOK(a.L, S), LayersOK(b.L, S),
           c.L = JoinLayers(a.L, b.L)
    PROVE  MulDepth(c) = Max({MulDepth(a), MulDepth(b)})
  <1> DEFINE x == MulDepth(a)
             y == MulDepth(b)
             z == MulDepth(c)
             n == Len(a.L)
             f == IdOn(n)
             g == ShiftOn(Len(b.L), n)
  <1>1. JoinedLayers(a.L, b.L, S)
    BY JoinLayersFacts
  <1>2. /\ LayersOK(c.L, S) /\ n \in Nat /\ Len(b.L) \in Nat
        /\ Embeds(a.L, c.L, 1..n, f) /\ Embeds(b.L, c.L, 1..Len(b.L), g)
        /\ \A i \in 1..Len(c.L) : i \in 1..n \/ \E j \in 1..Len(b.L) : i = n + j
    BY <1>1, Zenon DEF JoinedLayers
  <1>3. (\A i \in 1..n : f[i] = i) /\ (\A i \in 1..Len(b.L) : g[i] = n + i)
    BY DEF IdOn, ShiftOn
  <1> HIDE DEF f, g
  <1>4. PICK p : Deep(a.L, p, x)
    BY DeepIs
  <1>5. PICK q : Deep(b.L, q, y)
    BY DeepIs
  <1>6. PICK r : Deep(c.L, r, z)
    BY <1>2, DeepIs
  <1> HIDE DEF x, y, z
  <1>7. ParentsBelow(a.L) /\ ParentsBelow(b.L)
    BY DEF LayersOK
  <1>8. \A i \in 1..n : r[f[i]] = p[i]
    <2>1. 1..n \in SUBSET (1..Len(a.L))
      OBVIOUS
    <2>2. Carried(a.L, c.L, 1..n, f, p, r, x, z)
      BY <1>2, <1>4, <1>6, <1>7, <2>1, DepthMoves
    <2> QED
      BY <2>2 DEF Carried
  <1>9. \A i \in 1..Len(b.L) : r[g[i]] = q[i]
    <2>1. 1..Len(b.L) \in SUBSET (1..Len(b.L))
      OBVIOUS
    <2>2. Carried(b.L, c.L, 1..Len(b.L), g, q, r, y, z)
      BY <1>2, <1>5, <1>6, <1>7, <2>1, DepthMoves
    <2> QED
      BY <2>2 DEF Carried
  <1>10. /\ x \in Nat /\ y \in Nat /\ z \in Nat
         /\ \A i \in 1..n : p[i] \in Nat /\ p[i] <= x
         /\ \A i \in 1..Len(b.L) : q[i] \in Nat /\ q[i] <= y
         /\ \A i \in 1..Len(c.L) : r[i] \in Nat /\ r[i] <= z
         /\ x = 0 \/ \E i \in 1..n : p[i] = x
         /\ y = 0 \/ \E i \in 1..Len(b.L) : q[i] = y
         /\ z = 0 \/ \E i \in 1..Len(c.L) : r[i] = z
    BY <1>4, <1>5, <1>6, Zenon DEF Deep, n
  <1>11. x <= z
    <2>1. ASSUME NEW i \in 1..n, p[i] = x PROVE x <= z
      <3>1. f[i] \in 1..Len(c.L)
        BY <1>2, Zenon DEF Embeds
      <3> QED
        BY <1>8, <1>10, <2>1, <3>1
    <2> QED
      BY <1>10, <2>1
  <1>12. y <= z
    <2>1. ASSUME NEW i \in 1..Len(b.L), q[i] = y PROVE y <= z
      <3>1. g[i] \in 1..Len(c.L)
        BY <1>2, Zenon DEF Embeds
      <3> QED
        BY <1>9, <1>10, <2>1, <3>1
    <2> QED
      BY <1>10, <2>1
  <1>13. z <= x \/ z <= y
    <2>1. CASE z = 0
      BY <1>10, <2>1
    <2>2. CASE \E i \in 1..Len(c.L) : r[i] = z
      <3>1. PICK i \in 1..Len(c.L) : r[i] = z
        BY <2>2
      <3>2. CASE i \in 1..n
        BY <1>3, <1>8, <1>10, <3>1, <3>2
      <3>3. CASE \E j \in 1..Len(b.L) : i = n + j
        BY <1>3, <1>9, <1>10, <3>1, <3>3
      <3> QED
        BY <1>2, <3>2, <3>3
    <2> QED
      BY <1>10, <2>1, <2>2
  <1>14. Max({x, y}) \in Nat /\ Max({x, y}) >= x /\ Max({x, y}) >= y /\ Max({x, y}) \in {x, y}
    BY <1>10, MaxTwo
  <1>15. z = Max({x, y})
    BY <1>10, <1>11, <1>12, <1>13, <1>14
  <1> QED
    BY <1>15 DEF x, y, z

-----------------------------------------------------------------------------
(* Operations on well-formed ciphertexts *)

\* A ciphertext none of whose products a compaction can drop.
Good(c) == ShapeOK(c) /\ Needed(c.L, c.E)

\* d stands for c: as many slots, as deep.
Alike(c, d) == Good(d) /\ d.slots = c.slots /\ MulDepth(d) = MulDepth(c) /\ ~Threw(d)

\* The compactions return a ciphertext that stands for the operand.
LEMMA CompactAlike ==
    ASSUME NEW c, Good(c)
    PROVE  Alike(c, CompactLayers(c)) /\ Alike(c, GuardBudget(c)) /\ Alike(c, CompactEdges(c))
           /\ Alike(c, c)
  <1>1. ShapeOK(c) /\ Needed(c.L, c.E)
    BY DEF Good
  <1>2. EdgesCompacted(c) /\ LayersCompacted(c)
    BY <1>1, EdgesCompactedFacts, LayersCompactedFacts
  <1>3. ASSUME NEW d, d \in {c, CompactEdges(c), GuardBudget(c)} PROVE Alike(c, d)
    <2>1. Good(d) /\ d.L = c.L /\ d.slots = c.slots
      BY <1>1, <1>2, <1>3, Zenon DEF EdgesCompacted, Good
    <2>2. MulDepth(d) = MulDepth(c)
      BY <2>1, DepthOfLayers
    <2>3. ~Threw(d)
      BY <2>1, ShapeFits DEF Good
    <2> QED
      BY <2>1, <2>2, <2>3 DEF Alike
  <1>4. Alike(c, CompactLayers(c))
    <2> DEFINE d == CompactLayers(c)
               Z == Live(c)
    <2>1. /\ d = Cipher(KeepLayers(c.L, Z), KeepEdges(c.E, Z), c.c0, c.slots)
          /\ ShapeOK(d) /\ Z \in SUBSET (1..Len(c.L)) /\ Closed(c.L, Z) /\ Needed(d.L, d.E)
          /\ \A i \in 1..Len(c.L) : IsProd(c.L[i]) => i \in Z
      BY <1>1, <1>2, Zenon DEF LayersCompacted
    <2> HIDE DEF d, Z
    <2>2. PartsRight(KeepLayers(c.L, Z), KeepEdges(c.E, Z), c.c0, c.slots)
      BY PartsFacts
    <2>3. d.L = KeepLayers(c.L, Z) /\ d.slots = c.slots
      BY <2>1, <2>2, Zenon DEF PartsRight
    <2>4. LayersOK(c.L, c.slots) /\ LayersOK(d.L, c.slots)
      BY <1>1, <2>1, <2>3, ShapeParts
    <2>5. KeepRight(c.L, Z, c.slots)
      BY <2>1, <2>4, KeepFacts
    <2>6. Embeds(c.L, d.L, Z, Renaming(Z)) /\ \A k \in 1..Len(d.L) : \E i \in Z : Renaming(Z)[i] = k
      <3>1. \A i \in Z : Renaming(Z)[i] = Remap(Z, i)
        BY DEF Renaming
      <3> QED
        BY <2>3, <2>5, <3>1, Zenon DEF KeepRight
    <2>7. MulDepth(d) = MulDepth(c)
      <3>1. DepthStays(c, d, Z, Renaming(Z), c.slots)
        BY <2>1, <2>4, <2>6, DepthKept
      <3> QED
        BY <3>1 DEF DepthStays
    <2>8. ~Threw(d)
      BY <2>1, ShapeFits
    <2> QED
      BY <2>1, <2>3, <2>7, <2>8 DEF d, Alike, Good
  <1> QED
    BY <1>3, <1>4

\* fuse and ct_add: the deeper one's depth.
JoinOf(a, b, c0) == Cipher(JoinLayers(a.L, b.L), JoinEdges(a.L, a.E, b.E), c0, a.slots)

\* Joining two good ciphertexts of as many slots.
LEMMA JoinGood ==
    ASSUME NEW a, NEW b, Good(a), Good(b), a.slots = b.slots, NEW c0, ConstOK(c0, a.slots)
    PROVE  /\ Good(JoinOf(a, b, c0)) /\ JoinOf(a, b, c0).slots = a.slots
           /\ MulDepth(JoinOf(a, b, c0)) = Max({MulDepth(a), MulDepth(b)})
  <1> DEFINE c == JoinOf(a, b, c0)
             S == a.slots
             J == JoinLayers(a.L, b.L)
             F == JoinEdges(a.L, a.E, b.E)
  <1>1. PartsRight(J, F, c0, S)
    BY PartsFacts
  <1>2. c.L = J /\ c.E = F /\ c.c0 = c0 /\ c.slots = S
    BY <1>1, Zenon DEF PartsRight, JoinOf
  <1>3. /\ LayersOK(a.L, S) /\ LayersOK(b.L, S) /\ EdgesOK(a.E, Len(a.L), S)
        /\ EdgesOK(b.E, Len(b.L), S) /\ S \in Slots
    BY ShapeParts DEF Good
  <1>4. JoinedLayers(a.L, b.L, S) /\ JoinedEdges(a.L, a.E, b.L, b.E, S)
    BY <1>3, JoinLayersFacts, JoinEdgesFacts
  <1>5. LayersOK(J, S) /\ EdgesOK(F, Len(J), S) /\ Needed(J, F)
    BY <1>4, Zenon DEF JoinedLayers, JoinedEdges, Good
  <1>6. ShapeOK(c)
    BY <1>3, <1>5, ShapeMake DEF JoinOf
  <1>7. MulDepth(c) = Max({MulDepth(a), MulDepth(b)})
    <2> HIDE DEF c
    <2> QED
      BY <1>2, <1>3, DepthJoined
  <1> QED
    BY <1>2, <1>5, <1>6, <1>7, Zenon DEF Good

\* The constant of a sum.
SumConst(a, b) ==
    IF a.c0 = <<>> THEN b.c0 ELSE IF b.c0 = <<>> THEN a.c0 ELSE VAdd(a.c0, b.c0)

\* ct_add of two good ciphertexts of as many slots.
LEMMA AddGood ==
    ASSUME NEW a, NEW b, Good(a), Good(b), a.slots = b.slots
    PROVE  /\ CtAdd(a, b) = CompactLayers(GuardBudget(JoinOf(a, b, SumConst(a, b))))
           /\ Good(JoinOf(a, b, SumConst(a, b)))
           /\ Good(CtAdd(a, b)) /\ CtAdd(a, b).slots = a.slots /\ ~Threw(CtAdd(a, b))
           /\ MulDepth(CtAdd(a, b)) = Max({MulDepth(a), MulDepth(b)})
  <1> DEFINE c0 == SumConst(a, b)
             c == JoinOf(a, b, c0)
             d == GuardBudget(c)
  <1>1. ConstOK(c0, a.slots)
    <2>1. ConstOK(a.c0, a.slots) /\ ConstOK(b.c0, a.slots) /\ a.slots \in Nat
      BY ShapeParts DEF Good
    <2>2. ASSUME a.c0 # <<>>, b.c0 # <<>> PROVE VAdd(a.c0, b.c0) \in Vec(a.slots)
      <3>1. a.c0 \in Vec(a.slots) /\ b.c0 \in Vec(a.slots) /\ 0 \in Int
        BY <2>1, <2>2 DEF ConstOK
      <3> QED
        BY <2>1, <3>1, VecOps
    <2> QED
      BY <2>1, <2>2, Zenon DEF ConstOK, SumConst
  <1>2. CtAdd(a, b) = CompactLayers(d)
    BY Zenon DEF CtAdd, JoinOf, Cipher, SumConst
  <1> HIDE DEF c0
  <1>3. Good(c) /\ c.slots = a.slots /\ MulDepth(c) = Max({MulDepth(a), MulDepth(b)})
    BY <1>1, JoinGood
  <1> HIDE DEF c
  <1>4. Good(d) /\ d.slots = c.slots /\ MulDepth(d) = MulDepth(c)
    BY <1>3, CompactAlike DEF Alike
  <1> HIDE DEF d
  <1>5. Good(CompactLayers(d)) /\ CompactLayers(d).slots = d.slots /\ ~Threw(CompactLayers(d))
        /\ MulDepth(CompactLayers(d)) = MulDepth(d)
    BY <1>4, CompactAlike DEF Alike
  <1> QED
    BY <1>2, <1>3, <1>4, <1>5 DEF c, d, c0

-----------------------------------------------------------------------------

\* Edges at the same places, with as many bits set or none cleared.
SamePlaces(E, F, m, S) ==
    /\ IsSeq(F) /\ Len(F) = Len(E)
    /\ \A k \in 1..Len(E) :
           /\ F[k] \in EdgeSet(m, S) /\ F[k].lid = E[k].lid /\ F[k].idx = E[k].idx
           /\ F[k].ch = E[k].ch /\ (E[k].s # {} => F[k].s # {})

\* Such edges are well-formed again.
LEMMA SamePlacesOK ==
    ASSUME NEW m \in Nat, NEW S, NEW E, NEW F, EdgesOK(E, m, S), SamePlaces(E, F, m, S)
    PROVE  EdgesOK(F, m, S)
  <1>1. IsSeq(F) /\ Len(F) = Len(E) /\ \A k \in 1..Len(F) : F[k] \in EdgeSet(m, S)
    BY DEF SamePlaces
  <1>2. F \in Seq(EdgeSet(m, S)) /\ E \in Seq(EdgeSet(m, S)) /\ OneEdgePerPlace(E)
    BY <1>1, IsSeqIn DEF EdgesOK
  <1>3. ASSUME NEW k \in 1..Len(F), NEW l \in 1..Len(F),
               F[k].lid = F[l].lid, F[k].idx = F[l].idx, F[k].ch = F[l].ch
        PROVE  k = l
    <2>1. k \in 1..Len(E) /\ l \in 1..Len(E)
      BY <1>1
    <2>2. E[k].lid = E[l].lid /\ E[k].idx = E[l].idx /\ E[k].ch = E[l].ch
      BY <1>3, <2>1, Zenon DEF SamePlaces
    <2> QED
      BY <1>2, <2>1, <2>2, OnePlace
  <1>4. OneEdgePerPlace(F)
    BY <1>2, <1>3, OnePlace
  <1> QED
    BY <1>2, <1>4 DEF EdgesOK

\* A ciphertext with such edges stands for the operand.
LEMMA SamePlacesGood ==
    ASSUME NEW c, Good(c), NEW F, SamePlaces(c.E, F, Len(c.L), c.slots),
           NEW c0, ConstOK(c0, c.slots)
    PROVE  Alike(c, Cipher(c.L, F, c0, c.slots))
  <1> DEFINE d == Cipher(c.L, F, c0, c.slots)
  <1>1. /\ c.slots \in Slots /\ LayersOK(c.L, c.slots) /\ EdgesOK(c.E, Len(c.L), c.slots)
        /\ Len(c.L) \in Nat
    BY ShapeParts DEF Good
  <1>2. EdgesOK(F, Len(c.L), c.slots)
    BY <1>1, SamePlacesOK
  <1>3. ShapeOK(d)
    BY <1>1, <1>2, ShapeMake
  <1>4. PartsRight(c.L, F, c0, c.slots)
    BY PartsFacts
  <1>5. d.L = c.L /\ d.E = F /\ d.slots = c.slots
    BY <1>4, Zenon DEF PartsRight
  <1> HIDE DEF d
  <1>6. Needed(c.L, F)
    <2>1. ASSUME NEW k \in 1..Len(F), IsProd(c.L[F[k].lid]) PROVE F[k].s # {}
      <3>1. k \in 1..Len(c.E)
        BY DEF SamePlaces
      <3>2. F[k].lid = c.E[k].lid /\ (c.E[k].s # {} => F[k].s # {})
        BY <3>1, Zenon DEF SamePlaces
      <3> QED
        BY <2>1, <3>1, <3>2, Zenon DEF Good, Needed
    <2>2. ASSUME NEW i \in 1..Len(c.L), IsProd(c.L[i]),
                 ~\E m \in 1..Len(c.L) : IsProd(c.L[m]) /\ i \in {c.L[m].pa, c.L[m].pb}
          PROVE  \E k \in 1..Len(F) : F[k].lid = i
      <3>1. PICK k \in 1..Len(c.E) : c.E[k].lid = i
        BY <2>2, Zenon DEF Good, Needed
      <3>2. k \in 1..Len(F) /\ F[k].lid = i
        BY <3>1, Zenon DEF SamePlaces
      <3> QED
        BY <3>2
    <2> QED
      BY <2>1, <2>2, Zenon DEF Needed
  <1>7. MulDepth(d) = MulDepth(c)
    BY <1>5, DepthOfLayers
  <1>8. ~Threw(d)
    BY <1>3, ShapeFits
  <1> QED
    BY <1>3, <1>5, <1>6, <1>7, <1>8 DEF d, Alike, Good

\* The constant, scaled.
LEMMA ScaledConst ==
    ASSUME NEW S \in Nat, NEW c0, ConstOK(c0, S), NEW x \in Int
    PROVE  ConstOK(VScale(c0, x), S) /\ (c0 = <<>> => VScale(c0, x) = <<>>)
  <1>1. CASE c0 = <<>>
    <2>1. VScale(c0, x) = <<>>
      BY <1>1 DEF VScale
    <2> QED
      BY <2>1 DEF ConstOK
  <1>2. CASE c0 # <<>>
    <2>1. c0 \in Vec(S)
      BY <1>2 DEF ConstOK
    <2>2. VScale(c0, x) \in Vec(S)
      BY <2>1, VecOps
    <2> QED
      BY <1>2, <2>2 DEF ConstOK
  <1> QED
    BY <1>1, <1>2

\* ct_scale changes weights and constant only.
LEMMA ScaleGood ==
    ASSUME NEW a, Good(a), NEW x \in Int
    PROVE  /\ CtScale(a, x) = Cipher(a.L, ScaleEdges(a.E, x), VScale(a.c0, x), a.slots)
           /\ SamePlaces(a.E, ScaleEdges(a.E, x), Len(a.L), a.slots)
           /\ \A k \in 1..Len(a.E) : ScaleEdges(a.E, x)[k].w = VScale(a.E[k].w, x)
           /\ Alike(a, CtScale(a, x))
  <1> DEFINE F == ScaleEdges(a.E, x)
             c0 == VScale(a.c0, x)
             S == a.slots
             m == Len(a.L)
  <1>1. /\ a = Cipher(a.L, a.E, a.c0, S) /\ S \in Nat /\ ConstOK(a.c0, S) /\ Len(a.E) \in Nat
        /\ DOMAIN a.E = 1..Len(a.E) /\ \A k \in 1..Len(a.E) : a.E[k] \in EdgeSet(m, S)
    BY ShapeParts DEF Good
  <1>2. CtScale(a, x) = Cipher(a.L, F, c0, S)
    <2>1. ReplaceRight(a, a.L, F, c0)
      BY <1>1, ReplaceFacts
    <2>2. CtScale(a, x) = [a EXCEPT !.E = F, !.c0 = c0]
      BY Zenon DEF CtScale
    <2> QED
      BY <2>1, <2>2, Zenon DEF ReplaceRight
  <1>3. /\ F = [k \in 1..Len(a.E) |-> F[k]]
        /\ \A k \in 1..Len(a.E) : F[k] = [a.E[k] EXCEPT !.w = VScale(a.E[k].w, x)]
    BY <1>1, Zenon DEF ScaleEdges
  <1> HIDE DEF F
  <1>4. IsSeq(F) /\ Len(F) = Len(a.E)
    BY <1>1, <1>3, FnSeq
  <1>5. ASSUME NEW k \in 1..Len(a.E)
        PROVE  /\ F[k] \in EdgeSet(m, S) /\ F[k].lid = a.E[k].lid /\ F[k].idx = a.E[k].idx
               /\ F[k].ch = a.E[k].ch /\ F[k].s = a.E[k].s /\ F[k].w = VScale(a.E[k].w, x)
    <2>1. a.E[k].w \in Vec(S)
      BY <1>1 DEF EdgeSet
    <2>2. PICK v \in Vec(S) : v = VScale(a.E[k].w, x)
      BY <1>1, <2>1, VecOps
    <2>3. WeightRight(a.E[k], v, m, S)
      BY <1>1, WeightFacts
    <2> QED
      BY <1>3, <2>2, <2>3, Zenon DEF WeightRight
  <1>6. SamePlaces(a.E, F, m, S)
    BY <1>4, <1>5, Zenon DEF SamePlaces
  <1>7. ConstOK(c0, S)
    BY <1>1, ScaledConst
  <1>8. Alike(a, Cipher(a.L, F, c0, S))
    BY <1>6, <1>7, SamePlacesGood
  <1> QED
    BY <1>2, <1>5, <1>6, <1>8 DEF F

\* ct_sub of two good ciphertexts of as many slots.
LEMMA SubGood ==
    ASSUME NEW a, NEW b, Good(a), Good(b), a.slots = b.slots
    PROVE  /\ Good(CtSub(a, b)) /\ CtSub(a, b).slots = a.slots /\ ~Threw(CtSub(a, b))
           /\ MulDepth(CtSub(a, b)) = Max({MulDepth(a), MulDepth(b)})
  <1>1. PICK d : d = CtScale(b, P - 1)
    OBVIOUS
  <1>2. P - 1 \in Int
    BY ModulusFacts
  <1>3. Good(d) /\ d.slots = a.slots /\ MulDepth(d) = MulDepth(b)
    BY <1>1, <1>2, ScaleGood DEF Alike
  <1>4. CtSub(a, b) = CtAdd(a, d)
    BY <1>1 DEF CtSub
  <1>5. /\ Good(CtAdd(a, d)) /\ CtAdd(a, d).slots = a.slots /\ ~Threw(CtAdd(a, d))
        /\ MulDepth(CtAdd(a, d)) = Max({MulDepth(a), MulDepth(d)})
    BY <1>3, AddGood
  <1> QED
    BY <1>3, <1>4, <1>5

\* The constant an operation takes of an operand, by either rule.
LEMMA ConstOfOK ==
    ASSUME NEW a, ShapeOK(a), NEW math \in BOOLEAN
    PROVE  /\ ConstOK(ConstOf(math, a), a.slots)
           /\ math \/ a.c0 # <<>> => ConstOf(math, a) \in Vec(a.slots)
           /\ ConstOf(math, a) = <<>> \/ Len(ConstOf(math, a)) = a.slots
           /\ (ConstOf(math, a) = <<>>) <=> (~math /\ a.c0 = <<>>)
  <1> DEFINE x == ConstOf(math, a)
             S == a.slots
  <1>1. ConstOK(a.c0, S) /\ S \in Nat /\ S # 0
    BY ShapeParts
  <1>2. CASE math /\ a.c0 = <<>>
    <2>1. x = Zeros(S)
      BY <1>2, Zenon DEF ConstOf
    <2>2. x \in Vec(S)
      <3>1. Zeros(S) \in [1..S -> {0}]
        BY DEF Zeros
      <3> QED
        BY <2>1, <3>1, ModulusFacts DEF Vec
    <2> HIDE DEF x
    <2>3. Len(x) = S /\ x # <<>>
      BY <1>1, <2>2, VecFacts
    <2> QED
      BY <1>2, <2>2, <2>3 DEF ConstOK, x
  <1>3. CASE ~(math /\ a.c0 = <<>>)
    <2>1. x = a.c0
      BY <1>3, Zenon DEF ConstOf
    <2> HIDE DEF x
    <2>2. x # <<>> => x \in Vec(S)
      BY <1>1, <2>1 DEF ConstOK
    <2>3. x # <<>> => Len(x) = S
      BY <1>1, <2>2, VecFacts
    <2> QED
      BY <1>1, <1>3, <2>1, <2>2, <2>3 DEF ConstOK, x
  <1> QED
    BY <1>2, <1>3

\* The constant with x added to every slot.
PlusConst(c0, x) == [j \in DOMAIN c0 |-> (c0[j] + x) % P]

\* ct_add_const changes the constant only.
LEMMA AddConstGood ==
    ASSUME NEW a, Good(a), NEW math \in BOOLEAN, NEW x \in Int
    PROVE  /\ CtAddConst(math, a, x) = Cipher(a.L, a.E, PlusConst(ConstOf(math, a), x), a.slots)
           /\ Alike(a, CtAddConst(math, a, x))
  <1> DEFINE c0 == ConstOf(math, a)
             y == PlusConst(c0, x)
             S == a.slots
             d == Cipher(a.L, a.E, y, S)
  <1>1. /\ a = Cipher(a.L, a.E, a.c0, S) /\ S \in Nat /\ S \in Slots
        /\ LayersOK(a.L, S) /\ EdgesOK(a.E, Len(a.L), S) /\ ShapeOK(a)
    BY ShapeParts DEF Good
  <1>2. CtAddConst(math, a, x) = d
    <2>1. ReplaceRight(a, a.L, a.E, y)
      BY <1>1, ReplaceFacts
    <2>2. CtAddConst(math, a, x) = [a EXCEPT !.c0 = y]
      BY Zenon DEF CtAddConst, PlusConst
    <2> QED
      BY <2>1, <2>2, Zenon DEF ReplaceRight
  <1>3. ConstOK(c0, S)
    BY <1>1, ConstOfOK
  <1>4. ConstOK(y, S)
    <2> HIDE DEF c0
    <2>1. CASE c0 = <<>>
      BY <2>1 DEF ConstOK, PlusConst
    <2>2. CASE c0 # <<>>
      <3>1. c0 \in Vec(S)
        BY <1>3, <2>2 DEF ConstOK
      <3>2. DOMAIN c0 = 1..S /\ \A j \in 1..S : c0[j] \in Int
        BY <1>1, <3>1, VecFacts
      <3>3. \A j \in 1..S : c0[j] + x \in Int
        BY <3>2
      <3>4. \A j \in 1..S : (c0[j] + x) % P \in Field
        BY <3>3, ModField
      <3>5. y \in Vec(S)
        BY <3>2, <3>4, Zenon DEF PlusConst, Vec
      <3> QED
        BY <3>5 DEF ConstOK
    <2> QED
      BY <2>1, <2>2
  <1> HIDE DEF y
  <1>5. ShapeOK(d)
    BY <1>1, <1>4, ShapeMake
  <1>6. PartsRight(a.L, a.E, y, S)
    BY PartsFacts
  <1>7. d.L = a.L /\ d.E = a.E /\ d.slots = S
    BY <1>6, Zenon DEF PartsRight
  <1> HIDE DEF d
  <1>8. MulDepth(d) = MulDepth(a)
    BY <1>7, DepthOfLayers
  <1>9. ~Threw(d) /\ Good(d)
    BY <1>5, <1>7, ShapeFits DEF Good
  <1> QED
    BY <1>2, <1>7, <1>8, <1>9 DEF d, y, Alike

\* ct_div_const throws for zero and otherwise scales by the inverse.
LEMMA DivConstGood ==
    ASSUME NEW a, Good(a), NEW x \in Field
    PROVE  /\ x = 0 <=> Threw(CtDivConst(a, x))
           /\ x # 0 => CtDivConst(a, x) = CtScale(a, FInv(x)) /\ Alike(a, CtDivConst(a, x))
  <1>1. FInv(x) \in Int
    <2>1. FInv(x) \in Field
      BY InvFacts
    <2>2. \A y \in Field : y \in Int
      BY ModulusFacts
    <2> QED
      BY <2>1, <2>2
  <1>2. Alike(a, CtScale(a, FInv(x)))
    BY <1>1, ScaleGood
  <1>3. Threw(NoCipher)
    BY DEF Threw, NoCipher
  <1> QED
    BY <1>2, <1>3, Zenon DEF CtDivConst, Alike

-----------------------------------------------------------------------------
(* The random generator *)

\* The ranges of the draws.
DrawsRight(t, k) ==
    /\ FpNonzero(t, k) \in Field /\ FpNonzero(t, k) # 0 /\ SignBit(t, k) \in {1, -1}
    /\ UniqueIdx(t, k) \in 0..(B - 1) /\ Sigma(t, k) \in SUBSET SigmaBits /\ Sigma(t, k) # {}
    /\ DrawSeed(t, k) \in Seed

\* Every draw is in its range.
LEMMA DrawsFacts == ASSUME NEW t \in Nat, NEW k \in Nat PROVE DrawsRight(t, k)
  <1>1. P \in Nat /\ P >= 3 /\ B \in Nat /\ B >= 3
    BY ModulusFacts, PowFacts
  <1>2. FpNonzero(t, k) \in Field /\ FpNonzero(t, k) # 0
    <2>1. PICK q \in Nat : q = 5 * t + 3 * k
      OBVIOUS
    <2>2. PICK d \in Nat : d = P - 1 /\ d >= 1
      BY <1>1
    <2>3. q % d \in 0..(d - 1)
      BY <2>2
    <2>4. PICK r \in 0..(d - 1) : r = q % d
      BY <2>3
    <2>5. 1 + r \in 0..(P - 1) /\ 1 + r # 0
      BY <1>1, <2>2
    <2>6. FpNonzero(t, k) = 1 + r
      BY <2>1, <2>2, <2>4, Zenon DEF FpNonzero
    <2> QED
      BY <2>5, <2>6 DEF Field
  <1>3. UniqueIdx(t, k) \in 0..(B - 1)
    BY <1>1 DEF UniqueIdx
  <1>4. SignBit(t, k) \in {1, -1}
    BY DEF SignBit
  <1>5. Sigma(t, k) \in SUBSET SigmaBits /\ Sigma(t, k) # {}
    <2>1. (t + k) % 3 \in 0..2
      OBVIOUS
    <2>2. 1 + ((t + k) % 3) \in {1, 2, 3}
      BY <2>1
    <2>3. PICK x \in {1, 2, 3} : x = 1 + ((t + k) % 3)
      BY <2>2
    <2>4. Sigma(t, k) = <<{1}, {2}, {1, 2}>>[x]
      BY <2>3 DEF Sigma
    <2> QED
      BY <2>4 DEF SigmaBits
  <1>6. DrawSeed(t, k) \in Seed
    <2>1. PICK n : n = Cardinality(Seed)
      OBVIOUS
    <2>2. n \in Nat /\ n # 0
      BY <2>1, MaskAssumption, FS_CardinalityType, FS_EmptySet
    <2>3. Seed = 0..(n - 1)
      BY <2>1, MaskAssumption
    <2>4. (t + k) % n \in 0..(n - 1)
      BY <2>2
    <2> QED
      BY <2>1, <2>3, <2>4 DEF DrawSeed
  <1> QED
    BY <1>2, <1>3, <1>4, <1>5, <1>6 DEF DrawsRight

\* A vector of draws has no zero.
LEMMA NonzeroVecFacts ==
    ASSUME NEW t \in Nat, NEW k \in Nat, NEW S \in Nat
    PROVE  NonzeroVec(t, k, S) \in Vec(S) /\ \A j \in 1..S : NonzeroVec(t, k, S)[j] # 0
  <1>1. ASSUME NEW j \in 1..S PROVE FpNonzero(t, k + j) \in Field /\ FpNonzero(t, k + j) # 0
    <2>1. k + j \in Nat
      OBVIOUS
    <2>2. DrawsRight(t, k + j)
      BY <2>1, DrawsFacts
    <2> QED
      BY <2>2 DEF DrawsRight
  <1> QED
    BY <1>1, Zenon DEF NonzeroVec, Vec

\* sample_unique_indices: no two of up to B draws are the same.
LEMMA UniqueDraws ==
    ASSUME NEW t \in Nat, NEW n \in 1..B, NEW i \in 1..n, NEW j \in 1..n,
           UniqueIdx(t, i) = UniqueIdx(t, j)
    PROVE  i = j
  <1>1. B \in Nat /\ B >= 3
    BY PowFacts
  <1>2. PICK p \in Int, r \in 0..(B - 1) : t + i = p * B + r /\ r = UniqueIdx(t, i)
    <2>1. PICK a \in Nat : a = t + i
      OBVIOUS
    <2>2. B \in Nat \ {0}
      BY <1>1
    <2>3. \E q \in Nat : \E r \in 0..(B - 1) : a \div B = q /\ a % B = r /\ a = q * B + r
      BY <2>2, DivMod
    <2>4. PICK x \in Nat, y \in 0..(B - 1) : a % B = y /\ a = x * B + y
      BY <2>3, Zenon
    <2>5. t + i = x * B + y /\ y = UniqueIdx(t, i)
      BY <2>1, <2>4, Zenon DEF UniqueIdx
    <2>6. x \in Int
      OBVIOUS
    <2> QED
      BY <2>5, <2>6, Zenon
  <1>3. PICK q \in Int, s \in 0..(B - 1) : t + j = q * B + s /\ s = UniqueIdx(t, j)
    <2>1. PICK a \in Nat : a = t + j
      OBVIOUS
    <2>2. B \in Nat \ {0}
      BY <1>1
    <2>3. \E z \in Nat : \E w \in 0..(B - 1) : a \div B = z /\ a % B = w /\ a = z * B + w
      BY <2>2, DivMod
    <2>4. PICK x \in Nat, y \in 0..(B - 1) : a % B = y /\ a = x * B + y
      BY <2>3, Zenon
    <2>5. t + j = x * B + y /\ y = UniqueIdx(t, j)
      BY <2>1, <2>4, Zenon DEF UniqueIdx
    <2>6. x \in Int
      OBVIOUS
    <2> QED
      BY <2>5, <2>6, Zenon
  <1>4. PICK u \in Int, v \in Int : u = p * B /\ v = q * B
    BY <1>1
  <1>5. i - j = u - v /\ i - j < B /\ j - i < B
    BY <1>1, <1>2, <1>3, <1>4
  <1>6. p = q
    <2>1. CASE p < q
      <3>1. (p + 1) * B <= q * B /\ (p + 1) * B = p * B + B
        BY <1>1, <2>1, Z3
      <3> QED
        BY <1>1, <1>4, <1>5, <3>1
    <2>2. CASE q < p
      <3>1. (q + 1) * B <= p * B /\ (q + 1) * B = q * B + B
        BY <1>1, <2>2, Z3
      <3> QED
        BY <1>1, <1>4, <1>5, <3>1
    <2> QED
      BY <2>1, <2>2
  <1> QED
    BY <1>4, <1>5, <1>6

-----------------------------------------------------------------------------
(* Edges made by encryption *)

\* A new edge has the fields it is given.
EdgeMakes(lid, idx, ch, w, s, m, S) ==
    LET e == Edge(lid, idx, ch, w, s)
    IN  e \in EdgeSet(m, S) /\ e.lid = lid /\ e.idx = idx /\ e.ch = ch /\ e.w = w /\ e.s = s

\* Fields in their ranges make an edge the key accepts.
LEMMA EdgeFacts ==
    ASSUME NEW m, NEW S, NEW lid \in 1..m, NEW idx \in 0..(B - 1), NEW ch \in {1, -1},
           NEW w \in Vec(S), NEW s \in SUBSET SigmaBits
    PROVE  EdgeMakes(lid, idx, ch, w, s, m, S)
  BY DEF EdgeMakes, Edge, EdgeSet

\* What an edge adds to the sum, before the mask.
Term(e) == VSigned(VScale(e.w, PowG[e.idx]), e.ch)

\* The term of an edge is a vector.
LEMMA TermVec ==
    ASSUME NEW m, NEW S \in Nat, NEW e \in EdgeSet(m, S)
    PROVE  Term(e) \in Vec(S)
  <1>1. e.w \in Vec(S) /\ e.idx \in 0..(B - 1)
    BY DEF EdgeSet
  <1>2. PowG[e.idx] \in Int
    BY <1>1, PowFacts
  <1>3. PICK x \in Int : x = PowG[e.idx]
    BY <1>2
  <1>4. VScale(e.w, x) \in Vec(S)
    BY <1>1, VecOps
  <1> QED
    BY <1>3, <1>4, VecSigned DEF Term

\* A random edge.
RndEdge(lid, t, i, S) ==
    Edge(lid, UniqueIdx(t, i), SignBit(t, i), NonzeroVec(t, i, S), Sigma(t, i))

\* The terms of the random edges.
RndTerms(lid, t, n, S) == [i \in 1..(n - 1) |-> Term(RndEdge(lid, t, i, S))]

\* The weight that closes the sum.
Closing(lid, target, n, t, unscale) ==
    VScale(VSigned(VSub(target, VSum(RndTerms(lid, t, n, Len(target)), Len(target))),
                   SignBit(t, n)),
           unscale[UniqueIdx(t, n)])

\* ClosingEdges in these parts.
LEMMA ClosingForm ==
    ASSUME NEW lid, NEW target, NEW n, NEW t, NEW unscale
    PROVE  ClosingEdges(lid, target, n, t, unscale)
           = [i \in 1..n |-> IF i < n THEN RndEdge(lid, t, i, Len(target))
                             ELSE [RndEdge(lid, t, n, Len(target))
                                     EXCEPT !.w = Closing(lid, target, n, t, unscale)]]
  BY Zenon DEF ClosingEdges, RndEdge, RndTerms, Closing, Term

\* A random edge is one the key accepts.
LEMMA RndFacts ==
    ASSUME NEW m \in Nat, NEW S \in Nat, NEW lid \in 1..m, NEW t \in Nat, NEW i \in Nat
    PROVE  EdgeMakes(lid, UniqueIdx(t, i), SignBit(t, i), NonzeroVec(t, i, S), Sigma(t, i), m, S)
  <1>1. DrawsRight(t, i)
    BY DrawsFacts
  <1>2. NonzeroVec(t, i, S) \in Vec(S)
    BY NonzeroVecFacts
  <1>3. PICK x, y, z : x = UniqueIdx(t, i) /\ y = SignBit(t, i) /\ z = Sigma(t, i)
    OBVIOUS
  <1>4. x \in 0..(B - 1) /\ y \in {1, -1} /\ z \in SUBSET SigmaBits
    BY <1>1, <1>3 DEF DrawsRight
  <1>5. EdgeMakes(lid, x, y, NonzeroVec(t, i, S), z, m, S)
    BY <1>2, <1>4, EdgeFacts
  <1> QED
    BY <1>3, <1>5

\* Edges of one layer, different places, a bit set in each.
ClosingRight(lid, target, n, t, unscale, m) ==
    LET S == Len(target)
        E == ClosingEdges(lid, target, n, t, unscale)
    IN  /\ EdgesOK(E, m, S) /\ Len(E) = n
        /\ \A i \in 1..n : /\ E[i].lid = lid /\ E[i].s # {} /\ E[i].idx = UniqueIdx(t, i)
                           /\ E[i].ch = SignBit(t, i)
        /\ \A i \in 1..(n - 1) : E[i] = RndEdge(lid, t, i, S)
        /\ E[n].w = Closing(lid, target, n, t, unscale)
        /\ \A i \in 1..(n - 1) : RndTerms(lid, t, n, S)[i] \in Vec(S)
        /\ VSum(RndTerms(lid, t, n, S), S) \in Vec(S)

\* The edges that add up to a target are well-formed.
LEMMA ClosingFacts ==
    ASSUME NEW m \in Nat, NEW lid \in 1..m, NEW S \in Nat, NEW target \in Vec(S), NEW n \in 1..B,
           NEW t \in Nat, NEW unscale, \A i \in 0..(B - 1) : unscale[i] \in Field
    PROVE  ClosingRight(lid, target, n, t, unscale, m)
  <1> DEFINE E == ClosingEdges(lid, target, n, t, unscale)
             R(i) == RndEdge(lid, t, i, S)
             w == Closing(lid, target, n, t, unscale)
             ts == RndTerms(lid, t, n, S)
  <1>1. Len(target) = S /\ B \in Nat /\ n \in Nat /\ n >= 1
    BY VecFacts, PowFacts
  <1>2. ASSUME NEW i \in 1..n
        PROVE  /\ R(i) \in EdgeSet(m, S) /\ R(i).lid = lid /\ R(i).idx = UniqueIdx(t, i)
               /\ R(i).ch = SignBit(t, i) /\ R(i).s = Sigma(t, i)
    <2>1. i \in Nat
      BY <1>1
    <2>2. EdgeMakes(lid, UniqueIdx(t, i), SignBit(t, i), NonzeroVec(t, i, S), Sigma(t, i), m, S)
      BY <2>1, RndFacts
    <2> QED
      BY <2>2, Zenon DEF EdgeMakes, RndEdge
  <1>3. /\ E = [i \in 1..n |-> E[i]]
        /\ \A i \in 1..n : E[i] = IF i < n THEN R(i) ELSE [R(n) EXCEPT !.w = w]
    <2>1. E = [i \in 1..n |-> IF i < n THEN R(i) ELSE [R(n) EXCEPT !.w = w]]
      BY <1>1, ClosingForm, Zenon
    <2> HIDE DEF E, R, w
    <2> QED
      BY <2>1, Zenon
  <1>4. (\A i \in 1..(n - 1) : ts[i] \in Vec(S)) /\ DOMAIN ts = 1..(n - 1)
    <2>1. ASSUME NEW i \in 1..(n - 1) PROVE Term(R(i)) \in Vec(S)
      <3>1. R(i) \in EdgeSet(m, S)
        BY <1>1, <1>2
      <3> HIDE DEF R
      <3> QED
        BY <3>1, TermVec
    <2> QED
      BY <2>1, Zenon DEF RndTerms
  <1> HIDE DEF ts
  <1>5. VSum(ts, S) \in Vec(S)
    <2>1. n - 1 \in Nat
      BY <1>1
    <2> QED
      BY <1>4, <2>1, VSumVec
  <1>6. w \in Vec(S)
    <2>1. PICK s \in Vec(S) : s = VSum(ts, S)
      BY <1>5
    <2>2. PICK d \in Vec(S) : d = VSub(target, s)
      <3>1. 0 \in Int
        OBVIOUS
      <3> QED
        BY <3>1, VecOps
    <2>3. PICK v \in Vec(S) : v = VSigned(d, SignBit(t, n))
      BY VecSigned
    <2>4. PICK u \in Int : u = unscale[UniqueIdx(t, n)]
      <3>1. DrawsRight(t, n)
        BY <1>1, DrawsFacts
      <3>2. unscale[UniqueIdx(t, n)] \in Field
        BY <3>1 DEF DrawsRight
      <3>3. \A y \in Field : y \in Int
        BY ModulusFacts
      <3> QED
        BY <3>2, <3>3
    <2>5. w = VScale(v, u)
      BY <1>1, <2>1, <2>2, <2>3, <2>4, Zenon DEF Closing, ts
    <2> QED
      BY <2>5, VecOps
  <1> HIDE DEF w
  <1>7. ASSUME NEW i \in 1..n
        PROVE  /\ E[i] \in EdgeSet(m, S) /\ E[i].lid = lid /\ E[i].idx = UniqueIdx(t, i)
               /\ E[i].ch = SignBit(t, i) /\ E[i].s = Sigma(t, i)
    <2>1. CASE i < n
      <3>1. E[i] = R(i)
        BY <1>3, <2>1
      <3> HIDE DEF E, R
      <3> QED
        BY <1>2, <3>1
    <2>2. CASE ~(i < n)
      <3>1. i = n
        BY <1>1, <2>2
      <3>2. PICK r : r = R(n)
        OBVIOUS
      <3>3. E[n] = [r EXCEPT !.w = w] /\ r \in EdgeSet(m, S)
        BY <1>2, <1>3, <2>2, <3>1, <3>2, Zenon
      <3>4. WeightRight(r, w, m, S)
        BY <1>6, <3>3, WeightFacts
      <3> HIDE DEF E
      <3> QED
        BY <1>2, <3>1, <3>2, <3>3, <3>4, Zenon DEF WeightRight
    <2> QED
      BY <2>1, <2>2
  <1>8. E[n].w = w
    <2>1. PICK r : r = R(n)
      OBVIOUS
    <2>2. n \in 1..n /\ ~(n < n)
      BY <1>1
    <2>3. E[n] = [r EXCEPT !.w = w] /\ r \in EdgeSet(m, S)
      BY <1>2, <1>3, <2>1, <2>2, Zenon
    <2>4. WeightRight(r, w, m, S)
      BY <1>6, <2>3, WeightFacts
    <2> QED
      BY <2>3, <2>4, Zenon DEF WeightRight
  <1>9. \A i \in 1..(n - 1) : E[i] = R(i)
    <2>1. \A i \in 1..(n - 1) : i \in 1..n /\ i < n
      BY <1>1
    <2> HIDE DEF E, R
    <2> QED
      BY <1>3, <2>1
  <1> HIDE DEF E
  <1>10. IsSeq(E) /\ Len(E) = n
    BY <1>1, <1>3, FnSeq
  <1>11. E \in Seq(EdgeSet(m, S))
    BY <1>7, <1>10, IsSeqIn
  <1>12. OneEdgePerPlace(E)
    <2>1. ASSUME NEW k \in 1..Len(E), NEW l \in 1..Len(E),
                 E[k].lid = E[l].lid, E[k].idx = E[l].idx, E[k].ch = E[l].ch
          PROVE  k = l
      <3>1. k \in 1..n /\ l \in 1..n
        BY <1>10
      <3>2. UniqueIdx(t, k) = UniqueIdx(t, l)
        BY <1>7, <2>1, <3>1
      <3> QED
        BY <3>1, <3>2, UniqueDraws
    <2> QED
      BY <1>11, <2>1, OnePlace
  <1>13. \A i \in 1..n : Sigma(t, i) # {}
    <2> SUFFICES ASSUME NEW i \in 1..n PROVE Sigma(t, i) # {}
      OBVIOUS
    <2>1. i \in Nat
      BY <1>1
    <2> QED
      BY <2>1, DrawsFacts DEF DrawsRight
  <1>14. EdgesOK(E, m, S)
    BY <1>11, <1>12 DEF EdgesOK
  <1> QED
    BY <1>1, <1>4, <1>5, <1>7, <1>8, <1>9, <1>10, <1>13, <1>14, Zenon DEF E, ts, w, ClosingRight

\* The inverse powers, as encryption takes them.
InvScale == [idx \in DOMAIN PowG |-> FInv(PowG[idx])]

\* The inverse powers, as repacking takes them.
PowScale == [idx \in DOMAIN PowG |-> PowG[(B - idx) % B]]

\* Both are tables of residues.
LEMMA ScalesFacts ==
    /\ \A i \in 0..(B - 1) : InvScale[i] = FInv(PowG[i]) /\ InvScale[i] \in Field
    /\ \A i \in 0..(B - 1) : PowScale[i] = PowG[(B - i) % B] /\ PowScale[i] \in Field
  <1>1. DOMAIN PowG = 0..(B - 1) /\ B \in Nat /\ B >= 3 /\ \A i \in 0..(B - 1) : PowG[i] \in Field
    BY PowFacts
  <1>2. \A i \in 0..(B - 1) : InvScale[i] = FInv(PowG[i])
    BY <1>1, Zenon DEF InvScale
  <1>3. \A i \in 0..(B - 1) : FInv(PowG[i]) \in Field
    BY <1>1, InvFacts
  <1>4. \A i \in 0..(B - 1) : PowScale[i] = PowG[(B - i) % B]
    BY <1>1, Zenon DEF PowScale
  <1>5. \A i \in 0..(B - 1) : (B - i) % B \in 0..(B - 1)
    BY <1>1
  <1> QED
    BY <1>1, <1>2, <1>3, <1>4, <1>5

\* The signal edges are closing edges.
SigRight(target, t) == ClosingRight(1, target, K, t, InvScale, 1)
                       /\ SigEdges(target, t) = ClosingEdges(1, target, K, t, InvScale)

\* For every target and tape.
LEMMA SigFacts ==
    ASSUME NEW S \in Nat, NEW target \in Vec(S), NEW t \in Nat
    PROVE  SigRight(target, t)
  <1>1. K \in 1..B /\ 1 \in Nat /\ 1 \in 1..1
    BY BoundAssumption
  <1>2. ClosingRight(1, target, K, t, InvScale, 1)
    BY <1>1, ScalesFacts, ClosingFacts
  <1> QED
    BY <1>2, Zenon DEF SigRight, SigEdges, InvScale

\* The edges of a product layer are closing edges.
RepackRight(lid, target, t, m) ==
    /\ ClosingRight(lid, target, RepackEdges, t, PowScale, m)
    /\ EmitRepackEdges(lid, target, t) = ClosingEdges(lid, target, RepackEdges, t, PowScale)

\* For every layer, target and tape.
LEMMA RepackFacts ==
    ASSUME NEW m \in Nat, NEW lid \in 1..m, NEW S \in Nat, NEW target \in Vec(S), NEW t \in Nat
    PROVE  RepackRight(lid, target, t, m)
  <1>1. RepackEdges \in 1..B
    BY BoundAssumption
  <1>2. ClosingRight(lid, target, RepackEdges, t, PowScale, m)
    BY <1>1, ScalesFacts, ClosingFacts
  <1> QED
    BY <1>2, Zenon DEF RepackRight, EmitRepackEdges, PowScale

-----------------------------------------------------------------------------

\* The weight of the second edge of the noise of two.
N2Other(dt, t) ==
    VScale(VSub(VScale(NonzeroVec(t, 4, Len(dt)), PowG[UniqueIdx(t, 1)]), VSigned(dt, SignBit(t, 3))),
           FInv(PowG[UniqueIdx(t, 2)]))

\* The first edge of the noise of two.
N2A(dt, t) == Edge(1, UniqueIdx(t, 1), SignBit(t, 3), NonzeroVec(t, 4, Len(dt)), Sigma(t, 1))

\* The second edge of the noise of two.
N2B(dt, t) == Edge(1, UniqueIdx(t, 2), -SignBit(t, 3), N2Other(dt, t), Sigma(t, 2))

\* The noise of two is these two edges.
N2Right(dt, t, S) ==
    /\ N2Edges(dt, t) = <<N2A(dt, t), N2B(dt, t)>>
    /\ EdgeMakes(1, UniqueIdx(t, 1), SignBit(t, 3), NonzeroVec(t, 4, S), Sigma(t, 1), 1, S)
    /\ EdgeMakes(1, UniqueIdx(t, 2), -SignBit(t, 3), N2Other(dt, t), Sigma(t, 2), 1, S)
    /\ N2A(dt, t) \in EdgeSet(1, S) /\ N2B(dt, t) \in EdgeSet(1, S) /\ Len(dt) = S
    /\ N2Edges(dt, t) \in Seq(EdgeSet(1, S))

\* For every noise and tape.
LEMMA N2Facts ==
    ASSUME NEW S \in Nat, NEW dt \in Vec(S), NEW t \in Nat
    PROVE  N2Right(dt, t, S)
  <1>1. Len(dt) = S /\ B \in Nat /\ 1 \in 1..1
    BY VecFacts, PowFacts
  <1>2. DrawsRight(t, 1) /\ DrawsRight(t, 2) /\ DrawsRight(t, 3)
    BY DrawsFacts
  <1>3. PICK a \in 0..(B - 1), b \in 0..(B - 1), c \in {1, -1}, x \in SUBSET SigmaBits,
             y \in SUBSET SigmaBits :
             /\ a = UniqueIdx(t, 1) /\ b = UniqueIdx(t, 2) /\ c = SignBit(t, 3)
             /\ x = Sigma(t, 1) /\ y = Sigma(t, 2)
    BY <1>2 DEF DrawsRight
  <1>4. PICK r \in Vec(S) : r = NonzeroVec(t, 4, S)
    BY NonzeroVecFacts
  <1>5. PICK g \in Int, h \in Int : g = PowG[a] /\ h = FInv(PowG[b])
    <2>1. PowG[a] \in Field /\ FInv(PowG[b]) \in Field
      BY PowFacts, InvFacts
    <2>2. \A z \in Field : z \in Int
      BY ModulusFacts
    <2> QED
      BY <2>1, <2>2
  <1>6. PICK u \in Vec(S) : u = VScale(r, g)
    BY VecOps
  <1>7. PICK v \in Vec(S) : v = VSigned(dt, c)
    BY VecSigned
  <1>8. PICK w \in Vec(S) : w = VScale(VSub(u, v), h)
    <2>1. PICK z \in Vec(S) : z = VSub(u, v)
      BY <1>5, VecOps
    <2> QED
      BY <2>1, VecOps
  <1>9. N2Other(dt, t) = w
    BY <1>1, <1>3, <1>4, <1>5, <1>6, <1>7, <1>8, Zenon DEF N2Other
  <1>10. EdgeMakes(1, a, c, r, x, 1, S)
    BY <1>1, EdgeFacts
  <1>11. -c \in {1, -1}
    OBVIOUS
  <1>12. EdgeMakes(1, b, -c, w, y, 1, S)
    BY <1>1, <1>11, EdgeFacts
  <1>13. EdgeMakes(1, UniqueIdx(t, 1), SignBit(t, 3), NonzeroVec(t, 4, S), Sigma(t, 1), 1, S)
    BY <1>3, <1>4, <1>10, Zenon
  <1>14. EdgeMakes(1, UniqueIdx(t, 2), -SignBit(t, 3), N2Other(dt, t), Sigma(t, 2), 1, S)
    BY <1>3, <1>9, <1>12, Zenon
  <1>15. N2A(dt, t) \in EdgeSet(1, S) /\ N2B(dt, t) \in EdgeSet(1, S)
    BY <1>1, <1>13, <1>14, Zenon DEF EdgeMakes, N2A, N2B
  <1>16. N2Edges(dt, t) = <<N2A(dt, t), N2B(dt, t)>>
    BY Zenon DEF N2Edges, N2A, N2B, N2Other
  <1>17. <<N2A(dt, t), N2B(dt, t)>> \in Seq(EdgeSet(1, S))
    BY <1>15
  <1> QED
    BY <1>1, <1>13, <1>14, <1>15, <1>16, <1>17, Zenon DEF N2Right

\* A random edge of the noise of three.
N3E(t, i, S) ==
    Edge(1, UniqueIdx(t, i), SignBit(t, 2 * i), NonzeroVec(t, 3 * i, S), Sigma(t, i))

\* The weight that closes the noise of three.
N3Last(dt, t) ==
    LET e == N3E(t, 3, Len(dt))
    IN  VScale(VSub(dt, VAdd(Term(N3E(t, 1, Len(dt))), Term(N3E(t, 2, Len(dt))))),
               FInv((e.ch * PowG[e.idx]) % P))

\* The edge that closes the noise of three.
N3C(dt, t) == [N3E(t, 3, Len(dt)) EXCEPT !.w = N3Last(dt, t)]

\* The noise of three is these three edges.
N3Right(dt, t, S) ==
    /\ N3Edges(dt, t) = <<N3E(t, 1, S), N3E(t, 2, S), N3C(dt, t)>>
    /\ \A i \in 1..3 :
           EdgeMakes(1, UniqueIdx(t, i), SignBit(t, 2 * i), NonzeroVec(t, 3 * i, S), Sigma(t, i), 1, S)
    /\ \A i \in 1..3 : N3E(t, i, S) \in EdgeSet(1, S)
    /\ N3Last(dt, t) \in Vec(S) /\ WeightRight(N3E(t, 3, S), N3Last(dt, t), 1, S)
    /\ N3C(dt, t) \in EdgeSet(1, S) /\ Len(dt) = S
    /\ N3Edges(dt, t) \in Seq(EdgeSet(1, S))

\* For every noise and tape.
LEMMA N3Facts ==
    ASSUME NEW S \in Nat, NEW dt \in Vec(S), NEW t \in Nat
    PROVE  N3Right(dt, t, S)
  <1>1. Len(dt) = S /\ B \in Nat /\ 1 \in 1..1
    BY VecFacts, PowFacts
  <1>2. ASSUME NEW i \in 1..3
        PROVE  EdgeMakes(1, UniqueIdx(t, i), SignBit(t, 2 * i), NonzeroVec(t, 3 * i, S), Sigma(t, i),
                         1, S)
    <2>1. i \in Nat /\ 2 * i \in Nat /\ 3 * i \in Nat
      OBVIOUS
    <2>2. DrawsRight(t, i) /\ DrawsRight(t, 2 * i)
      BY <2>1, DrawsFacts
    <2>3. PICK a \in 0..(B - 1), c \in {1, -1}, x \in SUBSET SigmaBits :
               a = UniqueIdx(t, i) /\ c = SignBit(t, 2 * i) /\ x = Sigma(t, i)
      BY <2>2 DEF DrawsRight
    <2>4. PICK r \in Vec(S) : r = NonzeroVec(t, 3 * i, S)
      BY <2>1, NonzeroVecFacts
    <2>5. EdgeMakes(1, a, c, r, x, 1, S)
      BY <1>1, EdgeFacts
    <2> QED
      BY <2>3, <2>4, <2>5, Zenon
  <1>3. \A i \in 1..3 : N3E(t, i, S) \in EdgeSet(1, S)
    BY <1>2, Zenon DEF EdgeMakes, N3E
  <1>4. 1 \in 1..3 /\ 2 \in 1..3 /\ 3 \in 1..3
    OBVIOUS
  <1>5. PICK e \in EdgeSet(1, S), f \in EdgeSet(1, S), g \in EdgeSet(1, S) :
             e = N3E(t, 1, S) /\ f = N3E(t, 2, S) /\ g = N3E(t, 3, S)
    BY <1>3, <1>4
  <1>6. PICK u \in Vec(S) : u = VSub(dt, VAdd(Term(e), Term(f)))
    <2>1. Term(e) \in Vec(S) /\ Term(f) \in Vec(S) /\ 0 \in Int
      BY TermVec
    <2>2. PICK z \in Vec(S) : z = VAdd(Term(e), Term(f))
      BY <2>1, VecOps
    <2> QED
      BY <2>1, <2>2, VecOps
  <1>7. PICK h \in Int : h = FInv((g.ch * PowG[g.idx]) % P)
    <2>1. g.ch \in Int /\ g.idx \in 0..(B - 1)
      BY DEF EdgeSet
    <2>2. PowG[g.idx] \in Int
      BY <2>1, PowFacts
    <2>3. PICK z \in Int : z = g.ch * PowG[g.idx]
      BY <2>1, <2>2
    <2>4. z % P \in Field
      BY ModField
    <2>5. FInv(z % P) \in Field
      BY <2>4, InvFacts
    <2>6. \A y \in Field : y \in Int
      BY ModulusFacts
    <2> QED
      BY <2>3, <2>5, <2>6
  <1>8. N3Last(dt, t) = VScale(u, h)
    BY <1>1, <1>5, <1>6, <1>7, Zenon DEF N3Last
  <1>9. N3Last(dt, t) \in Vec(S)
    BY <1>8, VecOps
  <1>10. WeightRight(g, N3Last(dt, t), 1, S)
    BY <1>9, WeightFacts
  <1>11. N3C(dt, t) \in EdgeSet(1, S)
    BY <1>1, <1>5, <1>10, Zenon DEF N3C, WeightRight
  <1>12. N3Edges(dt, t) = <<N3E(t, 1, S), N3E(t, 2, S), N3C(dt, t)>>
    BY <1>1, Zenon DEF N3Edges, N3E, N3C, N3Last, Term
  <1>13. <<N3E(t, 1, S), N3E(t, 2, S), N3C(dt, t)>> \in Seq(EdgeSet(1, S))
    BY <1>3, <1>4, <1>11
  <1> QED
    BY <1>1, <1>2, <1>3, <1>5, <1>9, <1>10, <1>11, <1>12, <1>13, Zenon DEF N3Right

-----------------------------------------------------------------------------
(* A layer of encryption *)

\* Signal and noise, before the mask.
RawEdges(v, t) ==
    SigEdges(VSub(v, VAdd(NonzeroVec(t, 5, Len(v)), NonzeroVec(t, 7, Len(v)))), t)
    \o N2Edges(NonzeroVec(t, 5, Len(v)), t) \o N3Edges(NonzeroVec(t, 7, Len(v)), t + 1)

\* Edges times the mask of their layer.
MaskEdges(E, R) == [k \in DOMAIN E |-> [E[k] EXCEPT !.w = VMul(@, R)]]

\* synth_with_layer in these parts.
LEMMA SynthForm ==
    ASSUME NEW layer, NEW R, NEW v, NEW t
    PROVE  SynthUnder(layer, R, v, t)
           = Cipher(<<layer>>, Permute(Merge(MaskEdges(RawEdges(v, t), R)), t), Zeros(Len(v)), Len(v))
  BY Zenon DEF SynthUnder, RawEdges, MaskEdges, Cipher

\* Signal and noise are edges the key accepts.
LEMMA RawFacts ==
    ASSUME NEW S \in Nat, NEW v \in Vec(S), NEW t \in Nat
    PROVE  RawEdges(v, t) \in Seq(EdgeSet(1, S))
  <1>1. Len(v) = S /\ t + 1 \in Nat
    BY VecFacts
  <1>2. PICK d \in Vec(S), e \in Vec(S) : d = NonzeroVec(t, 5, S) /\ e = NonzeroVec(t, 7, S)
    BY NonzeroVecFacts
  <1>3. PICK x \in Vec(S) : x = VSub(v, VAdd(d, e))
    <2>1. PICK y \in Vec(S) : y = VAdd(d, e)
      BY VecOps
    <2> QED
      BY <2>1, VecOps
  <1>4. SigEdges(x, t) \in Seq(EdgeSet(1, S))
    <2>1. SigRight(x, t) /\ Len(x) = S
      BY SigFacts, VecFacts
    <2> QED
      BY <2>1, Zenon DEF SigRight, ClosingRight, EdgesOK
  <1>5. N2Edges(d, t) \in Seq(EdgeSet(1, S))
    BY N2Facts DEF N2Right
  <1>6. N3Edges(e, t + 1) \in Seq(EdgeSet(1, S))
    BY <1>1, N3Facts DEF N3Right
  <1>7. PICK p \in Seq(EdgeSet(1, S)), q \in Seq(EdgeSet(1, S)), r \in Seq(EdgeSet(1, S)) :
             p = SigEdges(x, t) /\ q = N2Edges(d, t) /\ r = N3Edges(e, t + 1)
    BY <1>4, <1>5, <1>6
  <1>8. RawEdges(v, t) = p \o q \o r
    BY <1>1, <1>2, <1>3, <1>7, Zenon DEF RawEdges
  <1> QED
    BY <1>8

\* Masking changes the weights only.
LEMMA MaskedFacts ==
    ASSUME NEW S \in Nat, NEW m, NEW E \in Seq(EdgeSet(m, S)), NEW R \in Vec(S)
    PROVE  /\ MaskEdges(E, R) \in Seq(EdgeSet(m, S)) /\ Len(MaskEdges(E, R)) = Len(E)
           /\ \A k \in 1..Len(E) : WeightRight(E[k], VMul(E[k].w, R), m, S)
                                   /\ MaskEdges(E, R)[k] = [E[k] EXCEPT !.w = VMul(E[k].w, R)]
  <1> DEFINE F == MaskEdges(E, R)
  <1>1. Len(E) \in Nat /\ DOMAIN E = 1..Len(E) /\ \A k \in 1..Len(E) : E[k] \in EdgeSet(m, S)
    OBVIOUS
  <1>2. /\ F = [k \in 1..Len(E) |-> F[k]]
        /\ \A k \in 1..Len(E) : F[k] = [E[k] EXCEPT !.w = VMul(E[k].w, R)]
    BY <1>1, Zenon DEF MaskEdges
  <1> HIDE DEF F
  <1>3. IsSeq(F) /\ Len(F) = Len(E)
    BY <1>1, <1>2, FnSeq
  <1>4. ASSUME NEW k \in 1..Len(E) PROVE WeightRight(E[k], VMul(E[k].w, R), m, S)
    <2>1. E[k].w \in Vec(S) /\ 0 \in Int
      BY <1>1 DEF EdgeSet
    <2>2. VMul(E[k].w, R) \in Vec(S)
      BY <2>1, VecOps
    <2> QED
      BY <1>1, <2>2, WeightFacts
  <1>5. \A k \in 1..Len(E) : F[k] \in EdgeSet(m, S)
    BY <1>2, <1>4, Zenon DEF WeightRight
  <1>6. F \in Seq(EdgeSet(m, S))
    BY <1>3, <1>5, IsSeqIn
  <1> QED
    BY <1>2, <1>3, <1>4, <1>6 DEF F

\* Permuting changes the order only.
LEMMA PermuteOK ==
    ASSUME NEW m \in Nat, NEW S, NEW E, EdgesOK(E, m, S), NEW t \in Nat
    PROVE  EdgesOK(Permute(E, t), m, S)
  <1>1. E \in Seq(EdgeSet(m, S)) /\ OneEdgePerPlace(E)
    BY DEF EdgesOK
  <1>2. Len(E) \in Nat /\ DOMAIN E = 1..Len(E) /\ \A k \in 1..Len(E) : E[k] \in EdgeSet(m, S)
    BY <1>1
  <1> DEFINE F == Reverse(E)
             n == Len(E)
  <1>3. F = [k \in 1..n |-> F[k]] /\ \A k \in 1..n : F[k] = E[n - k + 1]
    BY Zenon DEF Reverse
  <1> HIDE DEF F
  <1>4. IsSeq(F) /\ Len(F) = n /\ DOMAIN F = 1..n
    BY <1>2, <1>3, FnSeq
  <1>5. \A k \in 1..n : n - k + 1 \in 1..n
    BY <1>2
  <1>6. F \in Seq(EdgeSet(m, S))
    BY <1>2, <1>3, <1>4, <1>5, IsSeqIn
  <1>7. OneEdgePerPlace(F)
    <2> SUFFICES ASSUME NEW k \in 1..n, NEW l \in 1..n, Position(F[k]) = Position(F[l])
                 PROVE  k = l
      BY <1>4 DEF OneEdgePerPlace
    <2>1. Position(E[n - k + 1]) = Position(E[n - l + 1])
      BY <1>3
    <2>2. n - k + 1 = n - l + 1
      BY <1>1, <1>2, <1>5, <2>1 DEF OneEdgePerPlace
    <2> QED
      BY <1>2, <2>2
  <1> QED
    BY <1>6, <1>7, Zenon DEF F, Permute, EdgesOK

\* Base layers need no more than their own fields.
LEMMA BaseLayers ==
    ASSUME NEW S, NEW L, IsSeq(L), \A i \in 1..Len(L) : LayerOK(L[i], S) /\ ~IsProd(L[i]),
           NEW E, \A k \in 1..Len(E) : E[k].lid \in 1..Len(L)
    PROVE  LayersOK(L, S) /\ Needed(L, E)
  <1>1. DOMAIN L = 1..Len(L)
    BY DEF IsSeq
  <1>2. ParentsBelow(L) /\ CommitmentsFollowParents(L)
    BY <1>1, Zenon DEF ParentsBelow, CommitmentsFollowParents
  <1>3. Needed(L, E)
    BY Zenon DEF Needed
  <1> QED
    BY <1>2, <1>3 DEF LayersOK

\* A list of one layer.
LEMMA OneLayer == ASSUME NEW l PROVE IsSeq(<<l>>) /\ Len(<<l>>) = 1 /\ <<l>>[1] = l
  BY DEF IsSeq

\* A ciphertext of one layer is good.
LEMMA SynthGood ==
    ASSUME NEW S \in Slots, NEW layer, LayerOK(layer, S), ~IsProd(layer), NEW R \in Vec(S),
           NEW v \in Vec(S), NEW t \in Nat
    PROVE  /\ Good(SynthUnder(layer, R, v, t)) /\ SynthUnder(layer, R, v, t).slots = S
           /\ SynthUnder(layer, R, v, t).c0 = Zeros(S) /\ SynthUnder(layer, R, v, t).L = <<layer>>
           /\ MulDepth(SynthUnder(layer, R, v, t)) = 0 /\ ~Threw(SynthUnder(layer, R, v, t))
  <1> DEFINE F == MaskEdges(RawEdges(v, t), R)
             E == Permute(Merge(F), t)
             c == SynthUnder(layer, R, v, t)
             L == <<layer>>
  <1>1. S \in Nat /\ Len(v) = S
    BY SlotsFacts, VecFacts
  <1>2. F \in Seq(EdgeSet(1, S))
    BY <1>1, RawFacts, MaskedFacts
  <1>3. EdgesOK(Merge(F), 1, S)
    BY <1>1, <1>2, MergeFacts DEF MergeRight, EdgesOK
  <1>4. EdgesOK(E, 1, S)
    BY <1>3, PermuteOK
  <1>5. IsSeq(L) /\ Len(L) = 1 /\ L[1] = layer
    BY OneLayer
  <1>6. c = Cipher(L, E, Zeros(S), S)
    BY <1>1, SynthForm, Zenon
  <1> HIDE DEF E, L, c
  <1>7. \A k \in 1..Len(E) : E[k].lid \in 1..Len(L)
    <2>1. E \in Seq(EdgeSet(1, S))
      BY <1>4 DEF EdgesOK
    <2>2. \A k \in 1..Len(E) : E[k] \in EdgeSet(1, S)
      BY <2>1
    <2> QED
      BY <1>5, <2>2 DEF EdgeSet
  <1>8. \A i \in 1..Len(L) : LayerOK(L[i], S) /\ ~IsProd(L[i])
    BY <1>5
  <1>9. LayersOK(L, S) /\ Needed(L, E)
    BY <1>5, <1>7, <1>8, BaseLayers
  <1>10. ConstOK(Zeros(S), S)
    BY <1>1, ModulusFacts DEF ConstOK, Zeros, Vec
  <1>11. ShapeOK(c)
    BY <1>4, <1>5, <1>6, <1>9, <1>10, ShapeMake
  <1>12. PartsRight(L, E, Zeros(S), S)
    BY PartsFacts
  <1>13. c.L = L /\ c.E = E /\ c.c0 = Zeros(S) /\ c.slots = S
    BY <1>6, <1>12, Zenon DEF PartsRight
  <1>14. MulDepth(c) = 0
    BY <1>8, <1>9, <1>13, DepthBase
  <1>15. ~Threw(c)
    BY <1>11, ShapeFits
  <1> QED
    BY <1>9, <1>11, <1>13, <1>14, <1>15 DEF L, c, Good

\* The seed drawn has no zero mask.
MaskRight(t, S) ==
    MaskSeed(t, S) # NoSeed => /\ MaskSeed(t, S) \in Seed
                               /\ \A j \in 1..S : CircuitMask[MaskSeed(t, S)][j] # 0

\* Every seed that MaskSeed returns.
LEMMA MaskSeedFacts == ASSUME NEW t \in Nat, NEW S \in Nat PROVE MaskRight(t, S)
  <1> DEFINE good == {k \in 0..(MaskAttempts - 1) :
                         \A j \in 1..S : CircuitMask[DrawSeed(t, k)][j] # 0}
  <1>1. MaskSeed(t, S) = IF good = {} THEN NoSeed ELSE DrawSeed(t, Min(good))
    BY Zenon DEF MaskSeed
  <1>2. CASE good # {}
    <2>1. good \subseteq Nat /\ good \subseteq Int
      BY BoundAssumption
    <2>2. \A k \in good : \A j \in 1..S : CircuitMask[DrawSeed(t, k)][j] # 0
      OBVIOUS
    <2> HIDE DEF good
    <2>3. PICK k \in good : \A y \in good : k <= y
      BY <1>2, <2>1, LeastNatural
    <2>4. Min(good) = k
      BY <2>1, <2>3, MinIs
    <2>5. DrawSeed(t, k) \in Seed
      BY <2>1, DrawsFacts DEF DrawsRight
    <2> QED
      BY <1>1, <1>2, <2>2, <2>4, <2>5, Zenon DEF MaskRight
  <1>3. CASE good = {}
    BY <1>1, <1>3, Zenon DEF MaskRight
  <1> QED
    BY <1>2, <1>3

\* The masks of a seed, by either PRF, are vectors.
LEMMA MasksFacts ==
    ASSUME NEW S \in Slots, NEW s \in Seed
    PROVE  /\ CircuitR(s, S) \in Vec(S) /\ \A j \in 1..S : CircuitR(s, S)[j] = CircuitMask[s][j]
           /\ LegacyR(s, S) \in Vec(S) /\ \A j \in 1..S : LegacyR(s, S)[j] # 0
  <1>1. /\ S \in Nat /\ CircuitMask[s] \in Seq(Field) /\ S <= Len(CircuitMask[s])
        /\ LegacyMask[s] \in Seq(Field) /\ S <= Len(LegacyMask[s])
    BY SlotsFacts
  <1>2. ASSUME NEW m \in Seq(Field), S <= Len(m)
        PROVE  SubSeq(m, 1, S) \in Vec(S) /\ \A j \in 1..S : SubSeq(m, 1, S)[j] = m[j]
    <2>1. /\ SubSeq(m, 1, S) \in Seq(Field) /\ Len(SubSeq(m, 1, S)) = S
          /\ \A j \in 1..S : SubSeq(m, 1, S)[j] = m[j]
      BY <1>1, <1>2
    <2>2. PICK u : u = SubSeq(m, 1, S)
      OBVIOUS
    <2>3. u \in Seq(Field) /\ Len(u) = S
      BY <2>1, <2>2
    <2>4. u \in [1..S -> Field]
      BY <2>3
    <2> QED
      BY <2>1, <2>2, <2>4, Zenon DEF Vec
  <1>3. \A j \in DOMAIN LegacyMask[s] : LegacyMask[s][j] # 0
    BY MaskAssumption
  <1>4. 1..S \subseteq DOMAIN LegacyMask[s]
    BY <1>1
  <1> QED
    BY <1>1, <1>2, <1>3, <1>4 DEF CircuitR, LegacyR

\* A layer made now.
LEMMA PointsFacts ==
    ASSUME NEW name, NEW seed, NEW S \in Nat, S # 0
    PROVE  Len(Points(name, seed, S)) = S /\ Points(name, seed, S) # <<>>
  <1>1. PICK p : p = Points(name, seed, S)
    OBVIOUS
  <1>2. p = [j \in 1..S |-> p[j]]
    BY <1>1, Zenon DEF Points
  <1>3. Len(p) = S
    BY <1>2, FnSeq
  <1> QED
    BY <1>1, <1>3

\* A layer, field by field.
LayerIs(l, rule, seed, rpc, pc, com, pa, pb) ==
    l = [rule |-> rule, seed |-> seed, rpc |-> rpc, pc |-> pc, com |-> com, pa |-> pa, pb |-> pb]

\* The fields read back.
LayerHas(l, rule, seed, rpc, pc, com, pa, pb) ==
    /\ l = [rule |-> l.rule, seed |-> l.seed, rpc |-> l.rpc, pc |-> l.pc, com |-> l.com,
            pa |-> l.pa, pb |-> l.pb]
    /\ l.rule = rule /\ l.seed = seed /\ l.rpc = rpc /\ l.pc = pc /\ l.com = com
    /\ l.pa = pa /\ l.pb = pb

\* A layer has the fields it was made of.
LEMMA LayerFields ==
    ASSUME NEW l, NEW rule, NEW seed, NEW rpc, NEW pc, NEW com, NEW pa, NEW pb,
           LayerIs(l, rule, seed, rpc, pc, com, pa, pb)
    PROVE  LayerHas(l, rule, seed, rpc, pc, com, pa, pb)
  <1>1. /\ l.rule = rule /\ l.seed = seed /\ l.rpc = rpc /\ l.pc = pc /\ l.com = com
        /\ l.pa = pa /\ l.pb = pb
    BY DEF LayerIs
  <1> QED
    BY <1>1, Zenon DEF LayerIs, LayerHas

\* A new layer is well-formed, and the circuit PRF masks it.
LEMMA FreshFacts ==
    ASSUME NEW S \in Slots, NEW seed \in Seed, \A j \in 1..S : CircuitMask[seed][j] # 0
    PROVE  /\ LayerOK(FreshLayer(seed, S), S) /\ ~IsProd(FreshLayer(seed, S))
           /\ FreshLayer(seed, S).rpc # <<>> /\ FreshLayer(seed, S).seed = seed
  <1>1. S \in Nat /\ S # 0
    BY SlotsFacts
  <1>2. PICK p, q, d : p = Points("rpc", seed, S) /\ q = Points("pc", seed, S) /\ d = <<"base", seed>>
    OBVIOUS
  <1>3. Len(p) = S /\ p # <<>> /\ Len(q) = S /\ q # <<>>
    BY <1>1, <1>2, PointsFacts
  <1>4. PICK l : l = FreshLayer(seed, S)
    OBVIOUS
  <1>5. l = [Blank EXCEPT !.seed = seed, !.com = d, !.rpc = p, !.pc = q]
    BY <1>2, <1>4, Zenon DEF FreshLayer
  <1>6. LayerIs(l, "base", seed, p, q, d, 0, 0)
    BY <1>5 DEF Blank, LayerIs
  <1>7. LayerHas(l, "base", seed, p, q, d, 0, 0)
    BY <1>6, LayerFields
  <1>8. ~IsProd(l)
    BY <1>7 DEF LayerHas, IsProd
  <1>9. LayerOK(l, S)
    BY <1>3, <1>7, <1>8, Zenon DEF LayerOK, LayerHas
  <1> QED
    BY <1>3, <1>4, <1>7, <1>8, <1>9, Zenon DEF LayerHas

\* synth: a good ciphertext, unless no seed was found.
FreshRight(c, S) ==
    /\ Good(c) /\ c.slots = S /\ c.c0 \in Vec(S) /\ MulDepth(c) = 0 /\ ~Threw(c)
    /\ \A i \in 1..Len(c.L) : ~IsProd(c.L[i]) /\ c.L[i].rpc # <<>>

\* For every value and tape.
LEMMA SynthFacts ==
    ASSUME NEW S \in Slots, NEW v \in Vec(S), NEW t \in Nat
    PROVE  IF MaskSeed(t, S) = NoSeed THEN Threw(Synth(v, t)) ELSE FreshRight(Synth(v, t), S)
  <1>1. S \in Nat /\ Len(v) = S
    BY SlotsFacts, VecFacts
  <1>2. Threw(NoCipher)
    BY DEF Threw, NoCipher
  <1>3. CASE MaskSeed(t, S) = NoSeed
    BY <1>1, <1>2, <1>3, Zenon DEF Synth
  <1>4. CASE MaskSeed(t, S) # NoSeed
    <2>1. PICK s : s = MaskSeed(t, S)
      OBVIOUS
    <2>2. s \in Seed /\ \A j \in 1..S : CircuitMask[s][j] # 0
      BY <1>1, <1>4, <2>1, MaskSeedFacts, Zenon DEF MaskRight
    <2>3. PICK l, R, c : l = FreshLayer(s, S) /\ R = CircuitR(s, S) /\ c = Synth(v, t)
      OBVIOUS
    <2>4. c = SynthUnder(l, R, v, t)
      BY <1>1, <1>4, <2>1, <2>3, Zenon DEF Synth
    <2>5. LayerOK(l, S) /\ ~IsProd(l) /\ l.rpc # <<>> /\ R \in Vec(S)
      BY <2>2, <2>3, FreshFacts, MasksFacts
    <2>6. /\ Good(c) /\ c.slots = S /\ c.c0 = Zeros(S) /\ c.L = <<l>> /\ MulDepth(c) = 0 /\ ~Threw(c)
      BY <2>4, <2>5, SynthGood
    <2>7. c.c0 \in Vec(S)
      BY <1>1, <2>6, ModulusFacts DEF Zeros, Vec
    <2>8. \A i \in 1..Len(c.L) : ~IsProd(c.L[i]) /\ c.L[i].rpc # <<>>
      BY <2>5, <2>6, OneLayer
    <2> QED
      BY <1>4, <2>3, <2>6, <2>7, <2>8 DEF FreshRight
  <1> QED
    BY <1>3, <1>4

\* A tape that finds no seed for one of the two halves of a value.
NoMask(t, S) == MaskSeed(t, S) = NoSeed \/ MaskSeed(t + 1, S) = NoSeed

\* fuse of two fresh ciphertexts is a fresh one.
LEMMA FuseFacts ==
    ASSUME NEW S \in Slots, NEW a, NEW b, FreshRight(a, S), FreshRight(b, S)
    PROVE  FreshRight(Fuse(a, b), S)
           /\ Fuse(a, b) = GuardBudget(JoinOf(a, b, VAdd(a.c0, b.c0)))
           /\ Good(JoinOf(a, b, VAdd(a.c0, b.c0)))
  <1> DEFINE c0 == VAdd(a.c0, b.c0)
             j == JoinOf(a, b, c0)
             c == Fuse(a, b)
  <1>0. S \in Nat /\ 0 \in Int
    BY SlotsFacts
  <1>1. /\ Good(a) /\ Good(b) /\ a.slots = S /\ b.slots = S /\ a.c0 \in Vec(S) /\ b.c0 \in Vec(S)
        /\ MulDepth(a) = 0 /\ MulDepth(b) = 0
        /\ \A i \in 1..Len(a.L) : ~IsProd(a.L[i]) /\ a.L[i].rpc # <<>>
        /\ \A i \in 1..Len(b.L) : ~IsProd(b.L[i]) /\ b.L[i].rpc # <<>>
    BY DEF FreshRight
  <1>2. c0 \in Vec(S)
    BY <1>0, <1>1, VecOps
  <1>3. c = GuardBudget(j)
    BY Zenon DEF Fuse, JoinOf, Cipher
  <1> HIDE DEF c0
  <1>4. Good(j) /\ j.slots = S /\ MulDepth(j) = Max({MulDepth(a), MulDepth(b)})
    BY <1>1, <1>2, JoinGood DEF ConstOK
  <1>5. Max({0, 0}) = 0
    BY MaxTwo
  <1>6. PartsRight(JoinLayers(a.L, b.L), JoinEdges(a.L, a.E, b.E), c0, a.slots)
    BY PartsFacts
  <1>7. j.L = JoinLayers(a.L, b.L) /\ j.c0 = c0
    BY <1>6, Zenon DEF PartsRight, JoinOf
  <1> HIDE DEF j
  <1>8. EdgesCompacted(j) /\ Alike(j, GuardBudget(j))
    BY <1>4, EdgesCompactedFacts, CompactAlike DEF Good
  <1> HIDE DEF c
  <1>9. c.L = j.L /\ c.c0 = c0
    BY <1>3, <1>7, <1>8, Zenon DEF EdgesCompacted
  <1>10. Good(c) /\ c.slots = S /\ MulDepth(c) = 0 /\ ~Threw(c)
    BY <1>1, <1>3, <1>4, <1>5, <1>8 DEF Alike
  <1>11. ASSUME NEW i \in 1..Len(c.L) PROVE ~IsProd(c.L[i]) /\ c.L[i].rpc # <<>>
    <2> DEFINE J == JoinLayers(a.L, b.L)
               n == Len(a.L)
               f == IdOn(n)
               g == ShiftOn(Len(b.L), n)
    <2>1. LayersOK(a.L, S) /\ LayersOK(b.L, S)
      BY <1>1, ShapeParts DEF Good
    <2>2. JoinedLayers(a.L, b.L, S)
      BY <2>1, JoinLayersFacts
    <2>3. /\ Embeds(a.L, J, 1..n, f) /\ Embeds(b.L, J, 1..Len(b.L), g)
          /\ i \in 1..n \/ \E k \in 1..Len(b.L) : i = n + k
      BY <1>7, <1>9, <1>11, <2>2, Zenon DEF JoinedLayers
    <2>4. (\A k \in 1..n : f[k] = k) /\ (\A k \in 1..Len(b.L) : g[k] = n + k)
      BY DEF IdOn, ShiftOn
    <2> HIDE DEF f, g, J
    <2>5. c.L = J
      BY <1>7, <1>9 DEF J
    <2>6. CASE i \in 1..n
      <3>1. SameLayer(J[i], a.L[i])
        BY <2>3, <2>4, <2>6, Zenon DEF Embeds
      <3> QED
        BY <1>1, <2>5, <2>6, <3>1, Zenon DEF SameLayer
    <2>7. CASE \E k \in 1..Len(b.L) : i = n + k
      <3>1. PICK k \in 1..Len(b.L) : i = n + k
        BY <2>7
      <3>2. g[k] = i
        BY <2>4, <3>1
      <3>3. SameLayer(J[i], b.L[k])
        BY <2>3, <3>2, Zenon DEF Embeds
      <3> QED
        BY <1>1, <2>5, <3>3, Zenon DEF SameLayer
    <2> QED
      BY <2>3, <2>6, <2>7
  <1> QED
    BY <1>2, <1>3, <1>4, <1>9, <1>10, <1>11 DEF FreshRight, c, j, c0

\* enc_values returns a fresh ciphertext, unless no seed was found.
LEMMA EncFacts ==
    ASSUME NEW S \in Slots, NEW v \in Vec(S), NEW t \in Nat
    PROVE  IF NoMask(t, S) THEN Threw(EncValues(v, t)) ELSE FreshRight(EncValues(v, t), S)
  <1>1. S \in Nat /\ Len(v) = S /\ t + 1 \in Nat /\ 0 \in Nat
    BY SlotsFacts, VecFacts
  <1>2. PICK m \in Vec(S) : m = NonzeroVec(t, 0, S)
    BY <1>1, NonzeroVecFacts
  <1>3. PICK x \in Vec(S) : x = VAdd(v, m)
    <2>1. 0 \in Int
      OBVIOUS
    <2> QED
      BY <1>1, <2>1, VecOps
  <1>4. PICK y \in Vec(S) : y = VNeg(m)
    BY <1>1, VecSigned
  <1>5. PICK p, q : p = Synth(x, t) /\ q = Synth(y, t + 1)
    OBVIOUS
  <1>6. EncValues(v, t) = IF Threw(p) \/ Threw(q) THEN NoCipher ELSE Fuse(p, q)
    BY <1>1, <1>2, <1>3, <1>4, <1>5, Zenon DEF EncValues
  <1>7. IF MaskSeed(t, S) = NoSeed THEN Threw(p) ELSE FreshRight(p, S)
    BY <1>5, SynthFacts
  <1>8. IF MaskSeed(t + 1, S) = NoSeed THEN Threw(q) ELSE FreshRight(q, S)
    BY <1>1, <1>5, SynthFacts
  <1>9. Threw(NoCipher)
    BY DEF Threw, NoCipher
  <1>10. CASE NoMask(t, S)
    <2>1. Threw(p) \/ Threw(q)
      BY <1>7, <1>8, <1>10, Zenon DEF NoMask
    <2> QED
      BY <1>6, <1>9, <1>10, <2>1, Zenon
  <1>11. CASE ~NoMask(t, S)
    <2>1. FreshRight(p, S) /\ FreshRight(q, S)
      BY <1>7, <1>8, <1>11, Zenon DEF NoMask
    <2>2. FreshRight(Fuse(p, q), S)
      BY <2>1, FuseFacts
    <2>3. ~Threw(p) /\ ~Threw(q)
      BY <2>1 DEF FreshRight
    <2> QED
      BY <1>6, <1>11, <2>2, <2>3, Zenon
  <1> QED
    BY <1>10, <1>11

\* The zeros of the evaluation key.
LEMMA ZeroPoolFacts ==
    ASSUME NEW i \in 1..2
    PROVE  FreshRight(ZeroPool[i], 1) /\ ZeroPool[i] = EncValues(<<0>>, i) /\ ~NoMask(i, 1)
  <1>1. 1 \in Slots /\ i \in Nat
    BY DEF Slots
  <1>2. <<0>> \in Vec(1)
    BY ModulusFacts DEF Vec
  <1>3. ZeroPool[i] = EncValues(<<0>>, i)
    BY DEF ZeroPool
  <1>4. ~Threw(EncValues(<<0>>, i))
    BY <1>3, EvalKeyAssumption
  <1> QED
    BY <1>1, <1>2, <1>3, <1>4, EncFacts

-----------------------------------------------------------------------------
(* Products *)

\* The lists of edges, one after the other.
CatAll(seq) == FoldLeft(LAMBDA x, y : x \o y, <<>>, seq)

\* The table by which the edges of the products are put in one list.
CatFold(g, seq, n) ==
    g = [s \in SUBSET (1..n) |->
            IF s = {} THEN <<>> ELSE g[s \ {Max(s)}] \o seq[Max(s)]]

\* Such a table exists: a table for one more place extends the one before.
LEMMA CatFoldExists ==
    ASSUME NEW seq, NEW n \in Nat
    PROVE  \E g : CatFold(g, seq, n)
  <1> DEFINE T == {m \in Nat : \E g : CatFold(g, seq, m)}
  <1>1. 0 \in T
    <2> DEFINE g == [s \in SUBSET (1..0) |-> <<>>]
    <2>1. \A s \in SUBSET (1..0) : s = {}
      OBVIOUS
    <2>2. g = [s \in SUBSET (1..0) |->
                  IF s = {} THEN <<>> ELSE g[s \ {Max(s)}] \o seq[Max(s)]]
      BY <2>1, Zenon
    <2> QED
      BY <2>2 DEF CatFold
  <1>2. ASSUME NEW m \in T PROVE m + 1 \in T
    <2>1. PICK g : CatFold(g, seq, m)
      OBVIOUS
    <2> DEFINE h == [s \in SUBSET (1..(m + 1)) |->
                       IF m + 1 \in s THEN g[s \ {m + 1}] \o seq[m + 1] ELSE g[s]]
    <2>2. m \in Nat /\ m + 1 \in Nat
      OBVIOUS
    <2>3. ASSUME NEW s \in SUBSET (1..(m + 1))
          PROVE  h[s] = IF s = {} THEN <<>> ELSE h[s \ {Max(s)}] \o seq[Max(s)]
      <3>1. CASE m + 1 \in s
        <4>1. Max(s) = m + 1
          BY <2>2, <3>1, MaxTop
        <4>2. s \ {m + 1} \in SUBSET (1..(m + 1)) /\ m + 1 \notin s \ {m + 1}
          OBVIOUS
        <4>3. h[s \ {m + 1}] = g[s \ {m + 1}]
          BY <4>2, Zenon
        <4>4. h[s] = g[s \ {m + 1}] \o seq[m + 1]
          BY <3>1, Zenon
        <4> HIDE DEF h
        <4> QED
          BY <3>1, <4>1, <4>3, <4>4, Zenon
      <3>2. CASE m + 1 \notin s
        <4>1. s \in SUBSET (1..m)
          BY <2>2, <3>2
        <4>2. h[s] = g[s]
          BY <3>2, Zenon
        <4>3. h[s \ {Max(s)}] = g[s \ {Max(s)}]
          <5>1. s \ {Max(s)} \in SUBSET (1..(m + 1)) /\ m + 1 \notin s \ {Max(s)}
            BY <3>2
          <5> QED
            BY <5>1, Zenon
        <4>4. g[s] = IF s = {} THEN <<>> ELSE g[s \ {Max(s)}] \o seq[Max(s)]
          BY <2>1, <4>1, Zenon DEF CatFold
        <4> HIDE DEF h
        <4> QED
          BY <4>2, <4>3, <4>4, Zenon
      <3> QED
        BY <3>1, <3>2
    <2>4. h = [s \in SUBSET (1..(m + 1)) |-> h[s]]
      BY Zenon
    <2> HIDE DEF h
    <2>5. CatFold(h, seq, m + 1)
      <3>1. [s \in SUBSET (1..(m + 1)) |-> h[s]]
            = [s \in SUBSET (1..(m + 1)) |->
                  IF s = {} THEN <<>> ELSE h[s \ {Max(s)}] \o seq[Max(s)]]
        BY <2>3, Zenon
      <3> QED
        BY <2>4, <3>1, Zenon DEF CatFold
    <2> QED
      BY <2>2, <2>5
  <1>3. T = Nat
    <2>1. T \in SUBSET Nat
      OBVIOUS
    <2> HIDE DEF T
    <2> QED
      BY <1>1, <1>2, <2>1, Climb
  <1> QED
    BY <1>3

\* The table read along the prefixes.
CatTable(t, seq, n) ==
    t[0] = <<>> /\ \A k \in 1..n : t[k] = t[k - 1] \o seq[k]

\* Concatenating them is the last entry of that table.
LEMMA CatSteps ==
    ASSUME NEW seq, NEW n \in Nat, DOMAIN seq = 1..n
    PROVE  \E t : CatTable(t, seq, n) /\ CatAll(seq) = t[n]
  <1> DEFINE g == CHOOSE g : CatFold(g, seq, n)
             t == [k \in 0..n |-> g[1..k]]
  <1>1. CatFold(g, seq, n)
    BY CatFoldExists, Zenon
  <1>2. CatAll(seq) = g[1..n]
    BY <1>1, Zenon DEF CatFold, CatAll, FoldLeft, MapThenFoldSet
  <1> HIDE DEF g
  <1>3. ASSUME NEW k \in 1..n PROVE g[1..k] = g[1..(k - 1)] \o seq[k]
    <2>1. 1..k \in SUBSET (1..n) /\ 1..k # {} /\ (1..k) \ {k} = 1..(k - 1)
      OBVIOUS
    <2>2. Max(1..k) = k
      BY MaxTop
    <2>3. g[1..k] = g[(1..k) \ {Max(1..k)}] \o seq[Max(1..k)]
      BY <1>1, <2>1, Zenon DEF CatFold
    <2> QED
      BY <2>1, <2>2, <2>3, Zenon
  <1>4. g[1..0] = <<>>
    <2>1. 1..0 = {} /\ 1..0 \in SUBSET (1..n)
      OBVIOUS
    <2> QED
      BY <1>1, <2>1, Zenon DEF CatFold
  <1>5. t[0] = <<>> /\ t[n] = CatAll(seq)
    BY <1>2, <1>4
  <1>6. ASSUME NEW k \in 1..n PROVE t[k] = t[k - 1] \o seq[k]
    <2>1. k \in 0..n /\ k - 1 \in 0..n
      OBVIOUS
    <2>2. t[k] = g[1..k] /\ t[k - 1] = g[1..(k - 1)]
      BY <2>1
    <2> HIDE DEF t
    <2> QED
      BY <1>3, <2>2, Zenon
  <1> HIDE DEF t
  <1> QED
    BY <1>5, <1>6, Zenon DEF CatTable

\* The edges of new layers, off+1 to off+n: edges of a layer have a bit set.
NewEdges(F, off, n, m, S) ==
    /\ EdgesOK(F, m, S)
    /\ \A k \in 1..Len(F) : F[k].lid \in (off + 1)..(off + n) /\ F[k].s # {}
    /\ \A i \in 1..n : \E k \in 1..Len(F) : F[k].lid = off + i

\* No layer, no edge.
LEMMA NewEdgesNone ==
    ASSUME NEW off \in Nat, NEW m \in Nat, NEW S
    PROVE  NewEdges(<<>>, off, 0, m, S)
  <1>1. <<>> \in Seq(EdgeSet(m, S)) /\ Len(<<>>) = 0
    OBVIOUS
  <1>2. OneEdgePerPlace(<<>>)
    BY DEF OneEdgePerPlace
  <1>3. 1..0 = {}
    OBVIOUS
  <1> QED
    BY <1>1, <1>2, <1>3, Zenon DEF NewEdges, EdgesOK

\* The edges of one more layer.
LEMMA NewEdgesNext ==
    ASSUME NEW off \in Nat, NEW n \in Nat, NEW m \in Nat, NEW S, NEW F, NewEdges(F, off, n, m, S),
           NEW H, EdgesOK(H, m, S), Len(H) >= 1,
           \A k \in 1..Len(H) : H[k].lid = off + n + 1 /\ H[k].s # {}
    PROVE  NewEdges(F \o H, off, n + 1, m, S)
  <1>1. F \in Seq(EdgeSet(m, S)) /\ H \in Seq(EdgeSet(m, S))
    BY DEF NewEdges, EdgesOK
  <1>2. IsSeq(F) /\ IsSeq(H)
    BY <1>1, SeqIs
  <1>3. ConcatRight(F, H)
    BY <1>2, ConcatFacts
  <1>4. \A k \in 1..Len(F) : F[k].lid \in (off + 1)..(off + n) /\ F[k].s # {}
    BY DEF NewEdges
  <1>5. EdgesOK(F \o H, m, S)
    <2>1. ASSUME NEW k \in 1..Len(F), NEW l \in 1..Len(H) PROVE F[k].lid # H[l].lid
      <3>1. F[k].lid \in (off + 1)..(off + n) /\ H[l].lid = off + n + 1
        BY <1>4
      <3> QED
        BY <3>1
    <2> QED
      BY <2>1, ConcatEdges DEF NewEdges
  <1>6. PICK J : J = F \o H
    OBVIOUS
  <1>7. /\ Len(J) = Len(F) + Len(H) /\ Len(F) \in Nat /\ Len(H) \in Nat
        /\ \A i \in 1..Len(F) : J[i] = F[i]
        /\ \A i \in 1..Len(H) : J[Len(F) + i] = H[i]
        /\ \A i \in 1..Len(J) : i \in 1..Len(F) \/ \E j \in 1..Len(H) : i = Len(F) + j
    BY <1>3, <1>6, Zenon DEF ConcatRight
  <1>8. ASSUME NEW k \in 1..Len(J) PROVE J[k].lid \in (off + 1)..(off + (n + 1)) /\ J[k].s # {}
    <2>1. CASE k \in 1..Len(F)
      <3>1. J[k] = F[k] /\ F[k].lid \in (off + 1)..(off + n) /\ F[k].s # {}
        BY <1>4, <1>7, <2>1
      <3> QED
        BY <3>1
    <2>2. ASSUME NEW j \in 1..Len(H), k = Len(F) + j PROVE J[k].lid = off + n + 1 /\ J[k].s # {}
      BY <1>7, <2>2
    <2>3. off + n + 1 \in (off + 1)..(off + (n + 1))
      OBVIOUS
    <2> QED
      BY <1>7, <2>1, <2>2, <2>3
  <1>9. ASSUME NEW i \in 1..(n + 1) PROVE \E k \in 1..Len(J) : J[k].lid = off + i
    <2>1. CASE i \in 1..n
      <3>1. PICK k \in 1..Len(F) : F[k].lid = off + i
        BY <2>1, Zenon DEF NewEdges
      <3>2. k \in 1..Len(J) /\ J[k] = F[k]
        BY <1>7
      <3> QED
        BY <3>1, <3>2
    <2>2. CASE i = n + 1
      <3>1. 1 \in 1..Len(H) /\ Len(F) + 1 \in 1..Len(J)
        BY <1>7
      <3>2. J[Len(F) + 1].lid = off + n + 1
        BY <1>7, <3>1
      <3>3. off + n + 1 = off + i
        BY <2>2
      <3> QED
        BY <3>1, <3>2, <3>3
    <2> QED
      BY <2>1, <2>2
  <1> QED
    BY <1>5, <1>6, <1>8, <1>9, Zenon DEF NewEdges

\* The lists of the products' edges, for n pairs.
Repacked(off, targets, t, n) == [k \in 1..n |-> EmitRepackEdges(off + k, targets[k], t + k)]

\* The edges of the product layers are such edges.
LEMMA RepackedFacts ==
    ASSUME NEW off \in Nat, NEW n \in Nat, NEW S \in Nat, NEW t \in Nat, NEW targets,
           \A k \in 1..n : targets[k] \in Vec(S)
    PROVE  NewEdges(CatAll(Repacked(off, targets, t, n)), off, n, off + n, S)
  <1> DEFINE seq == Repacked(off, targets, t, n)
             m == off + n
  <1>1. DOMAIN seq = 1..n /\ \A k \in 1..n : seq[k] = EmitRepackEdges(off + k, targets[k], t + k)
    BY Zenon DEF Repacked
  <1> HIDE DEF seq
  <1>2. PICK f : CatTable(f, seq, n) /\ CatAll(seq) = f[n]
    BY <1>1, CatSteps
  <1>3. f[0] = <<>> /\ \A k \in 1..n : f[k] = f[k - 1] \o seq[k]
    BY <1>2, Zenon DEF CatTable
  <1>4. m \in Nat
    OBVIOUS
  <1>5. ASSUME NEW k \in 1..n
        PROVE  /\ EdgesOK(seq[k], m, S) /\ Len(seq[k]) >= 1
               /\ \A i \in 1..Len(seq[k]) : seq[k][i].lid = off + k /\ seq[k][i].s # {}
    <2>1. PICK lid, x : lid = off + k /\ x = t + k
      OBVIOUS
    <2>2. lid \in 1..m /\ x \in Nat /\ targets[k] \in Vec(S) /\ Len(targets[k]) = S
      BY <2>1, VecFacts
    <2>3. RepackRight(lid, targets[k], x, m)
      BY <1>4, <2>2, RepackFacts
    <2>4. PICK E : E = seq[k]
      OBVIOUS
    <2>5. E = ClosingEdges(lid, targets[k], RepackEdges, x, PowScale)
      BY <1>1, <2>1, <2>3, <2>4, Zenon DEF RepackRight
    <2>6. /\ EdgesOK(E, m, S) /\ Len(E) = RepackEdges
          /\ \A i \in 1..RepackEdges : E[i].lid = lid /\ E[i].s # {}
      BY <2>2, <2>3, <2>5, Zenon DEF RepackRight, ClosingRight
    <2>7. RepackEdges >= 1
      BY BoundAssumption, PowFacts
    <2> QED
      BY <2>1, <2>4, <2>6, <2>7
  <1> DEFINE T == {k \in Nat : k <= n => NewEdges(f[k], off, k, m, S)}
  <1>6. 0 \in T
    BY <1>3, <1>4, NewEdgesNone
  <1>7. ASSUME NEW k \in T PROVE k + 1 \in T
    <2>1. k \in Nat /\ k + 1 \in Nat
      OBVIOUS
    <2>2. ASSUME k + 1 <= n PROVE NewEdges(f[k + 1], off, k + 1, m, S)
      <3>1. k <= n /\ k + 1 \in 1..n /\ (k + 1) - 1 = k /\ off + (k + 1) = off + k + 1
        BY <2>1, <2>2
      <3>2. NewEdges(f[k], off, k, m, S)
        BY <3>1
      <3>3. f[k + 1] = f[k] \o seq[k + 1]
        BY <1>3, <3>1
      <3>4. /\ EdgesOK(seq[k + 1], m, S) /\ Len(seq[k + 1]) >= 1
            /\ \A i \in 1..Len(seq[k + 1]) :
                   seq[k + 1][i].lid = off + k + 1 /\ seq[k + 1][i].s # {}
        BY <1>5, <3>1
      <3>5. NewEdges(f[k] \o seq[k + 1], off, k + 1, m, S)
        BY <1>4, <2>1, <3>2, <3>4, NewEdgesNext
      <3> QED
        BY <3>3, <3>5
    <2> QED
      BY <2>1, <2>2
  <1>8. T = Nat
    <2>1. T \in SUBSET Nat
      OBVIOUS
    <2> HIDE DEF T
    <2> QED
      BY <1>6, <1>7, <2>1, Climb
  <1>9. NewEdges(f[n], off, n, m, S)
    BY <1>8
  <1> QED
    BY <1>2, <1>9 DEF seq

\* make_prod_layer: a product of the two layers it is given.
ProdRight(L, la, lb, S) ==
    LET x == ProdLayer(L, la, lb)
    IN  /\ LayerOK(x, S) /\ IsProd(x) /\ x.pa \in {la, lb} /\ x.pb \in {la, lb}
        /\ la \in {x.pa, x.pb} /\ lb \in {x.pa, x.pb}
        /\ x.com = <<"prod", L[x.pa].com, L[x.pb].com>>

\* For every two positions.
LEMMA ProdFacts ==
    ASSUME NEW L, NEW S, NEW la \in Nat, NEW lb \in Nat
    PROVE  ProdRight(L, la, lb, S)
  <1>1. PICK lo, hi : lo = Min({la, lb}) /\ hi = Max({la, lb})
    OBVIOUS
  <1>2. {la, lb} \subseteq Int
    OBVIOUS
  <1>3. lo \in {la, lb} /\ hi \in {la, lb} /\ {la, lb} = {lo, hi}
    <2>1. CASE la <= lb
      <3>1. \A y \in {la, lb} : la <= y /\ y <= lb
        BY <2>1
      <3> QED
        BY <1>1, <1>2, <3>1, MinIs, MaxIs
    <2>2. CASE lb <= la
      <3>1. \A y \in {la, lb} : lb <= y /\ y <= la
        BY <2>2
      <3>2. lo = lb /\ hi = la
        BY <1>1, <1>2, <3>1, MinIs, MaxIs
      <3> QED
        BY <3>2
    <2> QED
      BY <2>1, <2>2
  <1>4. PICK d : d = <<"prod", L[lo].com, L[hi].com>>
    OBVIOUS
  <1>5. PICK l : l = ProdLayer(L, la, lb)
    OBVIOUS
  <1>6. l = [Blank EXCEPT !.rule = "prod", !.pa = lo, !.pb = hi, !.com = d]
    BY <1>1, <1>4, <1>5, Zenon DEF ProdLayer
  <1>7. LayerIs(l, "prod", NoSeed, <<>>, <<>>, d, lo, hi)
    BY <1>6 DEF Blank, LayerIs
  <1>8. LayerHas(l, "prod", NoSeed, <<>>, <<>>, d, lo, hi)
    BY <1>7, LayerFields
  <1>9. IsProd(l)
    BY <1>8 DEF LayerHas, IsProd
  <1>10. LayerOK(l, S)
    BY <1>8, <1>9, Zenon DEF LayerOK, LayerHas
  <1>11. l.pa = lo /\ l.pb = hi /\ l.com = <<"prod", L[l.pa].com, L[l.pb].com>>
    BY <1>4, <1>8, Zenon DEF LayerHas
  <1>12. l.pa \in {la, lb} /\ l.pb \in {la, lb} /\ la \in {l.pa, l.pb} /\ lb \in {l.pa, l.pb}
    BY <1>3, <1>11
  <1> QED
    BY <1>5, <1>9, <1>10, <1>11, <1>12, Zenon DEF ProdRight

\* The product layers of n pairs.
NewLayers(L, pairs, n) == [k \in 1..n |-> ProdLayer(L, pairs[k][1], pairs[k][2])]

\* The layers of a product: the operands' and, on top, one for every pair, of
\* which every layer below is a parent.
ProductLayers(L, pairs, n, S) ==
    LET J == L \o NewLayers(L, pairs, n)
        N == Len(L)
    IN  /\ LayersOK(J, S) /\ Len(J) = N + n /\ N \in Nat
        /\ Embeds(L, J, 1..N, IdOn(N))
        /\ \A k \in 1..n :
               /\ IsProd(J[N + k]) /\ J[N + k].pa \in {pairs[k][1], pairs[k][2]}
               /\ J[N + k].pb \in {pairs[k][1], pairs[k][2]}
               /\ pairs[k][1] \in {J[N + k].pa, J[N + k].pb}
               /\ pairs[k][2] \in {J[N + k].pa, J[N + k].pb}
        /\ \A i \in 1..Len(J) : i \in 1..N \/ \E k \in 1..n : i = N + k
        /\ \A i \in 1..N : J[i] = L[i]

\* For every list of pairs of positions.
LEMMA ProductLayersFacts ==
    ASSUME NEW L, NEW S, LayersOK(L, S), NEW n \in Nat, NEW pairs,
           \A k \in 1..n : pairs[k][1] \in 1..Len(L) /\ pairs[k][2] \in 1..Len(L)
    PROVE  ProductLayers(L, pairs, n, S)
  <1> DEFINE A == NewLayers(L, pairs, n)
             J == L \o A
             N == Len(L)
  <1>1. IsSeq(L) /\ N \in Nat /\ ParentsBelow(L) /\ CommitmentsFollowParents(L) /\ DOMAIN L = 1..N
        /\ \A i \in 1..N : LayerOK(L[i], S)
    BY DEF LayersOK, IsSeq
  <1>2. A = [k \in 1..n |-> A[k]] /\ \A k \in 1..n : A[k] = ProdLayer(L, pairs[k][1], pairs[k][2])
    BY Zenon DEF NewLayers
  <1> HIDE DEF A
  <1>3. IsSeq(A) /\ Len(A) = n
    BY <1>2, FnSeq
  <1>4. ConcatRight(L, A)
    BY <1>1, <1>3, ConcatFacts
  <1>5. /\ IsSeq(J) /\ Len(J) = N + n
        /\ \A i \in 1..N : J[i] = L[i]
        /\ \A k \in 1..n : J[N + k] = A[k]
        /\ \A i \in 1..Len(J) : i \in 1..N \/ \E k \in 1..n : i = N + k
    BY <1>3, <1>4, Zenon DEF ConcatRight
  <1> HIDE DEF J
  <1>6. ASSUME NEW k \in 1..n
        PROVE  /\ LayerOK(J[N + k], S) /\ IsProd(J[N + k])
               /\ J[N + k].pa \in {pairs[k][1], pairs[k][2]}
               /\ J[N + k].pb \in {pairs[k][1], pairs[k][2]}
               /\ pairs[k][1] \in {J[N + k].pa, J[N + k].pb}
               /\ pairs[k][2] \in {J[N + k].pa, J[N + k].pb}
               /\ J[N + k].com = <<"prod", L[J[N + k].pa].com, L[J[N + k].pb].com>>
               /\ J[N + k].pa \in 1..N /\ J[N + k].pb \in 1..N
    <2>1. pairs[k][1] \in 1..N /\ pairs[k][2] \in 1..N /\ pairs[k][1] \in Nat /\ pairs[k][2] \in Nat
      BY <1>1
    <2>2. ProdRight(L, pairs[k][1], pairs[k][2], S)
      BY <2>1, ProdFacts
    <2>3. J[N + k] = ProdLayer(L, pairs[k][1], pairs[k][2])
      BY <1>2, <1>5
    <2> QED
      BY <2>1, <2>2, <2>3, Zenon DEF ProdRight
  <1>7. ASSUME NEW i \in 1..Len(J) PROVE LayerOK(J[i], S)
    <2>1. CASE i \in 1..N
      BY <1>1, <1>5, <2>1
    <2>2. ASSUME NEW k \in 1..n, i = N + k PROVE LayerOK(J[i], S)
      BY <1>6, <2>2
    <2> QED
      BY <1>5, <2>1, <2>2
  <1>8. ASSUME NEW i \in 1..Len(J), IsProd(J[i])
        PROVE  /\ J[i].pa \in 1..(i - 1) /\ J[i].pb \in 1..(i - 1)
               /\ J[i].com \in {NoCom, <<"prod", J[J[i].pa].com, J[J[i].pb].com>>}
    <2>1. CASE i \in 1..N
      <3>1. J[i] = L[i] /\ IsProd(L[i])
        BY <1>5, <1>8, <2>1
      <3>2. L[i].pa \in 1..(i - 1) /\ L[i].pb \in 1..(i - 1)
        BY <1>1, <2>1, <3>1, Zenon DEF ParentsBelow
      <3>3. L[i].pa \in 1..N /\ L[i].pb \in 1..N
        BY <1>1, <2>1, <3>2
      <3>4. L[i].com \in {NoCom, <<"prod", L[L[i].pa].com, L[L[i].pb].com>>}
        BY <1>1, <2>1, <3>1, Zenon DEF CommitmentsFollowParents
      <3>5. J[L[i].pa] = L[L[i].pa] /\ J[L[i].pb] = L[L[i].pb]
        BY <1>5, <3>3
      <3> QED
        BY <3>1, <3>2, <3>4, <3>5, Zenon
    <2>2. ASSUME NEW k \in 1..n, i = N + k
          PROVE  /\ J[i].pa \in 1..(i - 1) /\ J[i].pb \in 1..(i - 1)
                 /\ J[i].com \in {NoCom, <<"prod", J[J[i].pa].com, J[J[i].pb].com>>}
      <3>1. /\ J[i].com = <<"prod", L[J[i].pa].com, L[J[i].pb].com>>
            /\ J[i].pa \in 1..N /\ J[i].pb \in 1..N
        BY <1>6, <2>2
      <3>2. J[J[i].pa] = L[J[i].pa] /\ J[J[i].pb] = L[J[i].pb]
        BY <1>5, <3>1
      <3>3. \A x \in 1..N : x \in 1..(i - 1)
        BY <1>1, <2>2
      <3> QED
        BY <3>1, <3>2, <3>3, Zenon
    <2> QED
      BY <1>5, <2>1, <2>2
  <1>9. ParentsBelow(J)
    BY <1>8, Zenon DEF ParentsBelow
  <1>10. CommitmentsFollowParents(J)
    <2>1. DOMAIN J = 1..Len(J)
      BY <1>5 DEF IsSeq
    <2> QED
      BY <1>8, <2>1, Zenon DEF CommitmentsFollowParents
  <1>11. Embeds(L, J, 1..N, IdOn(N))
    <2> DEFINE f == IdOn(N)
    <2>1. \A i \in 1..N : f[i] = i
      BY DEF IdOn
    <2>2. \A i \in 1..N : IsProd(L[i]) => L[i].pa \in 1..N /\ L[i].pb \in 1..N
      <3>1. \A i \in 1..N : \A x \in 1..(i - 1) : x \in 1..N
        BY <1>1
      <3> QED
        BY <1>1, <3>1, Zenon DEF ParentsBelow
    <2>3. \A i \in 1..N : i \in 1..Len(J)
      BY <1>1, <1>5
    <2>4. \A i \in 1..N : SameLayer(J[i], L[i])
      BY <1>5, Zenon DEF SameLayer
    <2> HIDE DEF f
    <2>5. ASSUME NEW i \in 1..N
          PROVE  /\ f[i] \in 1..Len(J) /\ SameLayer(J[f[i]], L[i])
                 /\ IsProd(L[i]) => /\ L[i].pa \in 1..N /\ L[i].pb \in 1..N
                                    /\ J[f[i]].pa = f[L[i].pa] /\ J[f[i]].pb = f[L[i].pb]
      <3>1. f[i] = i /\ J[i] = L[i]
        BY <1>5, <2>1
      <3>2. IsProd(L[i]) => f[L[i].pa] = L[i].pa /\ f[L[i].pb] = L[i].pb
        BY <2>1, <2>2
      <3> QED
        BY <2>2, <2>3, <2>4, <3>1, <3>2
    <2>6. Embeds(L, J, 1..N, f)
      BY <2>5, Zenon DEF Embeds
    <2> QED
      BY <2>6 DEF f
  <1>12. LayersOK(J, S)
    BY <1>5, <1>7, <1>9, <1>10 DEF LayersOK
  <1> QED
    BY <1>1, <1>5, <1>6, <1>11, <1>12, Zenon DEF ProductLayers, J, A

\* Every layer is a parent of a pair's product.
Covers(pairs, n, N) == \A i \in 1..N : \E k \in 1..n : i \in {pairs[k][1], pairs[k][2]}

\* A product is one deeper than its operands.
DepthGrows(c, d, pairs, n, S) == MulDepth(d) = MulDepth(c) + 1

\* By the deeper operand, a layer of which is in a pair.
LEMMA DepthProduct ==
    ASSUME NEW c, NEW d, NEW S, LayersOK(c.L, S), Len(c.L) >= 1, NEW n \in Nat, NEW pairs,
           \A k \in 1..n : pairs[k][1] \in 1..Len(c.L) /\ pairs[k][2] \in 1..Len(c.L),
           Covers(pairs, n, Len(c.L)), d.L = c.L \o NewLayers(c.L, pairs, n)
    PROVE  DepthGrows(c, d, pairs, n, S)
  <1> DEFINE L == c.L
             J == d.L
             N == Len(L)
             x == MulDepth(c)
             y == MulDepth(d)
  <1>1. ProductLayers(L, pairs, n, S)
    BY ProductLayersFacts
  <1>2. /\ LayersOK(J, S) /\ Len(J) = N + n /\ N \in Nat /\ Embeds(L, J, 1..N, IdOn(N))
        /\ \A k \in 1..n :
               /\ IsProd(J[N + k]) /\ J[N + k].pa \in {pairs[k][1], pairs[k][2]}
               /\ J[N + k].pb \in {pairs[k][1], pairs[k][2]}
               /\ pairs[k][1] \in {J[N + k].pa, J[N + k].pb}
               /\ pairs[k][2] \in {J[N + k].pa, J[N + k].pb}
        /\ \A i \in 1..Len(J) : i \in 1..N \/ \E k \in 1..n : i = N + k
    BY <1>1, Zenon DEF ProductLayers
  <1> HIDE DEF J, x, y
  <1>3. PICK e : Deep(L, e, x)
    BY DeepIs DEF x
  <1>4. PICK f : Deep(J, f, y)
    BY <1>2, DeepIs DEF J, y
  <1>5. Carried(L, J, 1..N, IdOn(N), e, f, x, y)
    BY <1>2, <1>3, <1>4, DepthMoves DEF LayersOK
  <1>6. ASSUME NEW i \in 1..N PROVE f[i] = e[i]
    <2>1. IdOn(N)[i] = i
      BY DEF IdOn
    <2> QED
      BY <1>5, <2>1 DEF Carried
  <1>7. /\ x \in Nat /\ \A i \in 1..N : e[i] \in Nat /\ e[i] <= x
        /\ x = 0 \/ \E i \in 1..N : e[i] = x
    BY <1>3 DEF Deep
  <1>8. /\ y \in Nat /\ \A i \in 1..Len(J) : f[i] \in Nat /\ f[i] <= y
        /\ y = 0 \/ \E i \in 1..Len(J) : f[i] = y
        /\ f = [i \in 1..Len(J) |-> IF IsProd(J[i]) THEN Max({f[J[i].pa], f[J[i].pb]}) + 1 ELSE 0]
    BY <1>4 DEF Deep, DepthTable
  <1>9. ASSUME NEW k \in 1..n
        PROVE  /\ N + k \in 1..Len(J) /\ f[N + k] <= x + 1
               /\ \A i \in {pairs[k][1], pairs[k][2]} : f[N + k] >= e[i] + 1
    <2>1. PICK a, b : a = J[N + k].pa /\ b = J[N + k].pb
      OBVIOUS
    <2>2. a \in {pairs[k][1], pairs[k][2]} /\ b \in {pairs[k][1], pairs[k][2]}
          /\ pairs[k][1] \in {a, b} /\ pairs[k][2] \in {a, b} /\ IsProd(J[N + k])
      BY <1>2, <2>1
    <2>3. pairs[k][1] \in 1..N /\ pairs[k][2] \in 1..N
      OBVIOUS
    <2>4. a \in 1..N /\ b \in 1..N
      BY <2>2, <2>3
    <2>5. N + k \in 1..Len(J)
      BY <1>2
    <2>6. f[N + k] = Max({f[a], f[b]}) + 1
      BY <1>8, <2>1, <2>2, <2>5, Zenon
    <2>7. f[a] = e[a] /\ f[b] = e[b] /\ e[a] \in Nat /\ e[b] \in Nat /\ e[a] <= x /\ e[b] <= x
      BY <1>6, <1>7, <2>4
    <2>8. PICK z : z = Max({e[a], e[b]})
      OBVIOUS
    <2>9. z \in Nat /\ z >= e[a] /\ z >= e[b] /\ z \in {e[a], e[b]}
      BY <2>7, <2>8, MaxTwo
    <2>10. f[N + k] = z + 1
      BY <2>6, <2>7, <2>8
    <2>11. z + 1 <= x + 1 /\ z + 1 >= e[a] + 1 /\ z + 1 >= e[b] + 1
      BY <1>7, <2>7, <2>9
    <2>12. \A i \in {pairs[k][1], pairs[k][2]} : i \in {a, b}
      BY <2>2
    <2>13. \A i \in {a, b} : f[N + k] >= e[i] + 1
      BY <2>10, <2>11
    <2> QED
      BY <1>7, <2>5, <2>10, <2>11, <2>12, <2>13, Zenon
  <1>10. y >= x + 1
    <2>1. PICK i \in 1..N : e[i] = x
      <3>1. CASE x = 0
        <4>1. 1 \in 1..N
          BY <1>2
        <4>2. e[1] \in Nat /\ e[1] <= x
          BY <1>7, <4>1
        <4>3. e[1] = x
          BY <3>1, <4>2
        <4> QED
          BY <4>1, <4>3
      <3> QED
        BY <1>7, <3>1
    <2>2. PICK k \in 1..n : i \in {pairs[k][1], pairs[k][2]}
      BY Zenon DEF Covers
    <2>3. N + k \in 1..Len(J) /\ f[N + k] >= e[i] + 1
      BY <1>9, <2>2
    <2>4. f[N + k] \in Nat /\ f[N + k] <= y
      BY <1>8, <2>3
    <2> QED
      BY <1>7, <1>8, <2>1, <2>3, <2>4
  <1>11. y <= x + 1
    <2>0. y # 0
      BY <1>7, <1>8, <1>10
    <2>1. PICK i \in 1..Len(J) : f[i] = y
      BY <1>8, <2>0, Zenon
    <2>2. CASE i \in 1..N
      <3>1. f[i] = e[i] /\ e[i] \in Nat /\ e[i] <= x
        BY <1>6, <1>7, <2>2
      <3> QED
        BY <1>7, <1>8, <2>1, <3>1
    <2>3. ASSUME NEW k \in 1..n, i = N + k PROVE f[i] <= x + 1
      BY <1>9, <2>3
    <2> QED
      BY <1>2, <2>1, <2>2, <2>3
  <1> QED
    BY <1>7, <1>8, <1>10, <1>11 DEF DepthGrows, x, y

\* Where every layer is kept nothing moves.
LEMMA RemapAll ==
    ASSUME NEW n \in Nat, NEW i \in 1..n
    PROVE  Remap(1..n, i) = i /\ KeptAt(1..n, i) = i
  <1>1. ASSUME NEW k \in 1..n PROVE Remap(1..n, k) = k
    <2>1. {j \in 1..n : j <= k} = 1..k
      OBVIOUS
    <2>2. Cardinality(1..k) = k
      BY FS_Interval
    <2> QED
      BY <2>1, <2>2 DEF Remap
  <1>2. Places(1..n)
    BY DEF Places
  <1>3. KeptRight(1..n)
    BY <1>2, KeptFacts
  <1>4. Cardinality(1..n) = n
    BY FS_Interval
  <1>5. KeptAt(1..n, i) \in 1..n /\ Remap(1..n, KeptAt(1..n, i)) = i
    BY <1>3, <1>4, Zenon DEF KeptRight
  <1> QED
    BY <1>1, <1>5

\* Replacing the parents by themselves changes nothing.
LEMMA SameParents ==
    ASSUME NEW S, NEW l, LayerOK(l, S), NEW a, NEW b, a = l.pa, b = l.pb
    PROVE  [l EXCEPT !.pa = a, !.pb = b] = l
  <1>1. l = [rule |-> l.rule, seed |-> l.seed, rpc |-> l.rpc, pc |-> l.pc, com |-> l.com,
             pa |-> l.pa, pb |-> l.pb]
    BY DEF LayerOK
  <1>2. PICK r, s, p, q, d : r = l.rule /\ s = l.seed /\ p = l.rpc /\ q = l.pc /\ d = l.com
    BY Zenon
  <1>3. l = [rule |-> r, seed |-> s, rpc |-> p, pc |-> q, com |-> d, pa |-> a, pb |-> b]
    BY <1>1, <1>2
  <1>4. l \in [rule : {r}, seed : {s}, rpc : {p}, pc : {q}, com : {d}, pa : {a}, pb : {b}]
    BY <1>3
  <1>5. PICK x : x = [l EXCEPT !.pa = a, !.pb = b]
    OBVIOUS
  <1>6. x \in [rule : {r}, seed : {s}, rpc : {p}, pc : {q}, com : {d}, pa : {a}, pb : {b}]
    BY <1>4, <1>5
  <1>7. x = [rule |-> r, seed |-> s, rpc |-> p, pc |-> q, com |-> d, pa |-> a, pb |-> b]
    BY <1>6
  <1> QED
    BY <1>3, <1>5, <1>7

\* compact_layers where every layer is live changes nothing.
LEMMA KeepAll ==
    ASSUME NEW c, ShapeOK(c), Live(c) = 1..Len(c.L)
    PROVE  CompactLayers(c) = c
  <1> DEFINE L == c.L
             E == c.E
             N == Len(L)
             S == c.slots
             Z == 1..N
  <1>1. /\ c = Cipher(L, E, c.c0, S) /\ LayersOK(L, S) /\ IsSeq(L) /\ N \in Nat
        /\ E \in Seq(EdgeSet(N, S)) /\ Len(E) \in Nat /\ IsSeq(E)
        /\ \A k \in 1..Len(E) : E[k] \in EdgeSet(N, S) /\ E[k].lid \in 1..N
    BY ShapeParts, SeqIs
  <1>2. CompactLayers(c) = Cipher(KeepLayers(L, Z), KeepEdges(E, Z), c.c0, S)
    <2>1. LayersCompacted(c)
      BY LayersCompactedFacts
    <2> QED
      BY <2>1 DEF LayersCompacted
  <1>3. Cardinality(Z) = N
    BY <1>1, FS_Interval
  <1>4. \A i \in 1..N : Remap(Z, i) = i /\ KeptAt(Z, i) = i
    BY <1>1, RemapAll
  <1>5. ParentsBelow(L) /\ \A i \in 1..N : LayerOK(L[i], S)
    BY <1>1 DEF LayersOK
  <1>6. \A i \in 1..N : IsProd(L[i]) => L[i].pa \in 1..N /\ L[i].pb \in 1..N
    <2>1. \A i \in 1..N : \A x \in 1..(i - 1) : x \in 1..N
      BY <1>1
    <2> QED
      BY <1>5, <2>1, Zenon DEF ParentsBelow
  <1> HIDE DEF Z
  <1>7. ASSUME NEW i \in 1..N PROVE RemapLayer(Z, L[i]) = L[i]
    <2>1. CASE IsProd(L[i])
      <3>1. PICK a, b : a = Remap(Z, L[i].pa) /\ b = Remap(Z, L[i].pb)
        OBVIOUS
      <3>2. a = L[i].pa /\ b = L[i].pb
        BY <1>4, <1>6, <2>1, <3>1
      <3>3. [L[i] EXCEPT !.pa = a, !.pb = b] = L[i]
        BY <1>5, <3>2, SameParents
      <3>4. RemapLayer(Z, L[i]) = [L[i] EXCEPT !.pa = a, !.pb = b]
        BY <2>1, <3>1, Zenon DEF RemapLayer
      <3> QED
        BY <3>3, <3>4
    <2>2. CASE ~IsProd(L[i])
      BY <2>2, Zenon DEF RemapLayer
    <2> QED
      BY <2>1, <2>2
  <1>8. KeepLayers(L, Z) = L
    <2>1. \A k \in 1..N : RemapLayer(Z, L[KeptAt(Z, k)]) = L[k]
      BY <1>4, <1>7
    <2>2. KeepLayers(L, Z) = [k \in 1..N |-> L[k]]
      BY <1>3, <2>1, Zenon DEF KeepLayers
    <2> QED
      BY <1>1, <2>2, Zenon DEF IsSeq
  <1>9. KeepEdges(E, Z) = E
    <2>1. ASSUME NEW k \in 1..Len(E) PROVE [E[k] EXCEPT !.lid = Remap(Z, E[k].lid)] = E[k]
      <3>1. PICK r : r = Remap(Z, E[k].lid)
        OBVIOUS
      <3>2. r = E[k].lid /\ r \in 1..N
        BY <1>1, <1>4, <3>1
      <3>3. LidRight(E[k], r, N, S)
        BY <1>1, <3>2, LidFacts
      <3>4. PICK x : x = [E[k] EXCEPT !.lid = r]
        OBVIOUS
      <3>5. /\ x \in EdgeSet(N, S) /\ x.lid = r /\ x.idx = E[k].idx /\ x.ch = E[k].ch
            /\ x.w = E[k].w /\ x.s = E[k].s
        BY <3>3, <3>4, Zenon DEF LidRight
      <3>6. x = E[k]
        BY <1>1, <3>2, <3>5, EdgeEqual
      <3> QED
        BY <3>1, <3>4, <3>6
    <2>2. KeepEdges(E, Z) = [k \in 1..Len(E) |-> E[k]]
      BY <2>1, Zenon DEF KeepEdges
    <2> QED
      BY <1>1, <2>2, Zenon DEF IsSeq
  <1> QED
    BY <1>1, <1>2, <1>8, <1>9

-----------------------------------------------------------------------------

\* The edges of the product layers, in one list.
ProductEdges(L, targets, t, n) == CatAll(Repacked(Len(L), targets, t, n))

\* The product before its compaction.
Uncompacted(L, S, pairs, targets, t, n) ==
    Cipher(L \o NewLayers(L, pairs, n), ProductEdges(L, targets, t, n), Zeros(S), S)

\* build_product_cipher in these parts.
ProductForm(L, S, pairs, targets, t, n) ==
    BuildProduct(L, S, pairs, targets, t)
        = CompactLayers(GuardBudget(Uncompacted(L, S, pairs, targets, t, n)))

\* For every list of pairs.
LEMMA ProductFormFacts ==
    ASSUME NEW L, NEW S, NEW pairs, NEW targets, NEW t, NEW n, DOMAIN pairs = 1..n
    PROVE  ProductForm(L, S, pairs, targets, t, n)
  <1>1. PICK A, Q : /\ A = [k \in DOMAIN pairs |-> ProdLayer(L, pairs[k][1], pairs[k][2])]
                    /\ Q = [k \in DOMAIN pairs |-> EmitRepackEdges(Len(L) + k, targets[k], t + k)]
    OBVIOUS
  <1>2. BuildProduct(L, S, pairs, targets, t)
            = CompactLayers(GuardBudget(Cipher(L \o A, CatAll(Q), Zeros(S), S)))
    BY <1>1, Zenon DEF BuildProduct, Cipher, CatAll
  <1>3. A = NewLayers(L, pairs, n) /\ Q = Repacked(Len(L), targets, t, n)
    BY <1>1, Zenon DEF NewLayers, Repacked
  <1> QED
    BY <1>2, <1>3, Zenon DEF ProductForm, Uncompacted, ProductEdges

\* A merge of new edges changes no edge.
LEMMA NewEdgesMerge ==
    ASSUME NEW off \in Nat, NEW n \in Nat, NEW m \in Nat, NEW S \in Nat, NEW F,
           NewEdges(F, off, n, m, S)
    PROVE  NewEdges(Merge(F), off, n, m, S)
  <1>1. F \in Seq(EdgeSet(m, S)) /\ OneEdgePerPlace(F)
    BY DEF NewEdges, EdgesOK
  <1>2. MergeRight(F, m, S) /\ MergeKeeps(F)
    BY <1>1, MergeFacts, MergeSame
  <1> DEFINE M == Merge(F)
  <1>3. EdgesOK(M, m, S)
    BY <1>2 DEF MergeRight, EdgesOK
  <1>4. \A k \in 1..Len(F) : F[k].lid \in (off + 1)..(off + n) /\ F[k].s # {}
    BY DEF NewEdges
  <1>5. /\ \A k \in 1..Len(M) : \E i \in 1..Len(F) : M[k] = F[i]
        /\ \A i \in 1..Len(F) : \E k \in 1..Len(M) : M[k] = F[i]
    BY <1>2, <1>4, Zenon DEF MergeKeeps
  <1> HIDE DEF M
  <1>6. \A k \in 1..Len(M) : M[k].lid \in (off + 1)..(off + n) /\ M[k].s # {}
    BY <1>4, <1>5, Zenon
  <1>7. ASSUME NEW i \in 1..n PROVE \E k \in 1..Len(M) : M[k].lid = off + i
    <2>1. PICK k \in 1..Len(F) : F[k].lid = off + i
      BY Zenon DEF NewEdges
    <2>2. PICK r \in 1..Len(M) : M[r] = F[k]
      BY <1>5
    <2> QED
      BY <2>1, <2>2
  <1> QED
    BY <1>3, <1>6, <1>7, Zenon DEF NewEdges, M

\* build_product_cipher, where every layer is in a pair: the layers with the
\* new ones on top, edges of the new ones only.
ProductRight(L, S, pairs, targets, t, n) ==
    LET c == BuildProduct(L, S, pairs, targets, t)
    IN  /\ c = Cipher(L \o NewLayers(L, pairs, n), c.E, Zeros(S), S) /\ ShapeOK(c)
        /\ NewEdges(c.E, Len(L), n, Len(L) + n, S)
        /\ c.E \in {ProductEdges(L, targets, t, n), Merge(ProductEdges(L, targets, t, n))}
        /\ NewEdges(ProductEdges(L, targets, t, n), Len(L), n, Len(L) + n, S)

\* For every list of pairs that covers the layers.
LEMMA ProductFacts ==
    ASSUME NEW S \in Slots, NEW L, LayersOK(L, S), NEW n \in Nat, NEW pairs, DOMAIN pairs = 1..n,
           \A k \in 1..n : pairs[k][1] \in 1..Len(L) /\ pairs[k][2] \in 1..Len(L),
           Covers(pairs, n, Len(L)), NEW targets, \A k \in 1..n : targets[k] \in Vec(S),
           NEW t \in Nat
    PROVE  ProductRight(L, S, pairs, targets, t, n)
  <1> DEFINE J == L \o NewLayers(L, pairs, n)
             X == ProductEdges(L, targets, t, n)
             N == Len(L)
             u == Uncompacted(L, S, pairs, targets, t, n)
             d == GuardBudget(u)
             c == BuildProduct(L, S, pairs, targets, t)
  <1>1. S \in Nat /\ N \in Nat /\ N + n \in Nat
    BY SlotsFacts DEF LayersOK, IsSeq
  <1>2. ProductLayers(L, pairs, n, S)
    BY ProductLayersFacts
  <1>3. NewEdges(X, N, n, N + n, S)
    BY <1>1, RepackedFacts DEF ProductEdges
  <1>4. c = CompactLayers(d)
    <2>1. ProductForm(L, S, pairs, targets, t, n)
      BY ProductFormFacts
    <2> QED
      BY <2>1 DEF ProductForm
  <1>5. LayersOK(J, S) /\ Len(J) = N + n
    BY <1>2, Zenon DEF ProductLayers
  <1>6. Zeros(S) \in Vec(S)
    BY <1>1, ModulusFacts DEF Zeros, Vec
  <1>7. u = Cipher(J, X, Zeros(S), S)
    BY DEF Uncompacted
  <1>8. PartsRight(J, X, Zeros(S), S)
    BY PartsFacts
  <1>9. u.L = J /\ u.E = X /\ u.c0 = Zeros(S) /\ u.slots = S
    BY <1>7, <1>8, Zenon DEF PartsRight
  <1>10. ShapeOK(u)
    BY <1>3, <1>5, <1>6, <1>7, ShapeMake DEF NewEdges, ConstOK
  <1> HIDE DEF u, c, X
  <1>11. EdgesCompacted(u)
    BY <1>10, EdgesCompactedFacts
  <1>12. /\ d \in {u, CompactEdges(u)} /\ ShapeOK(d)
         /\ d.L = J /\ d.c0 = Zeros(S) /\ d.slots = S /\ CompactEdges(u) = Cipher(J, Merge(X), Zeros(S), S)
    BY <1>9, <1>11, Zenon DEF EdgesCompacted
  <1>13. d.E \in {X, Merge(X)}
    <2>1. PartsRight(J, Merge(X), Zeros(S), S)
      BY PartsFacts
    <2>2. CompactEdges(u).E = Merge(X)
      BY <1>12, <2>1, Zenon DEF PartsRight
    <2> QED
      BY <1>9, <1>12, <2>2, Zenon
  <1>14. NewEdges(d.E, N, n, N + n, S)
    BY <1>1, <1>3, <1>13, NewEdgesMerge
  <1> HIDE DEF d, J
  <1>15. Live(d) = 1..(N + n)
    <2> DEFINE Z == Live(d)
    <2>1. LayersCompacted(d)
      BY <1>12, LayersCompactedFacts
    <2>2. /\ Z \in SUBSET (1..(N + n)) /\ Closed(J, Z) /\ \A k \in 1..Len(d.E) : d.E[k].lid \in Z
      BY <1>5, <1>12, <2>1, Zenon DEF LayersCompacted
    <2> HIDE DEF Z
    <2>3. ASSUME NEW k \in 1..n PROVE N + k \in Z
      <3>1. PICK l \in 1..Len(d.E) : d.E[l].lid = N + k
        BY <1>14, Zenon DEF NewEdges
      <3> QED
        BY <2>2, <3>1
    <2>4. ASSUME NEW i \in 1..N PROVE i \in Z
      <3>1. PICK k \in 1..n : i \in {pairs[k][1], pairs[k][2]}
        BY Zenon DEF Covers
      <3>2. IsProd(J[N + k]) /\ i \in {J[N + k].pa, J[N + k].pb}
        BY <1>2, <3>1, Zenon DEF ProductLayers, J
      <3>3. J[N + k].pa \in Z /\ J[N + k].pb \in Z
        BY <2>2, <2>3, <3>2, Zenon DEF Closed
      <3> QED
        BY <3>2, <3>3
    <2>5. ASSUME NEW i \in 1..(N + n) PROVE i \in Z
      <3>1. i \in 1..N \/ \E k \in 1..n : i = N + k
        <4>1. CASE i > N
          <5>1. i - N \in 1..n /\ i = N + (i - N)
            BY <1>1, <4>1
          <5> QED
            BY <5>1
        <4> QED
          BY <1>1, <4>1
      <3> QED
        BY <2>3, <2>4, <3>1
    <2>6. Z = 1..(N + n)
      BY <2>2, <2>5
    <2> QED
      BY <2>6 DEF Z
  <1>16. c = d
    BY <1>4, <1>5, <1>12, <1>15, KeepAll
  <1>17. d = Cipher(J, d.E, Zeros(S), S)
    <2>1. d = Cipher(d.L, d.E, d.c0, d.slots)
      BY <1>12, ShapeParts
    <2> QED
      BY <1>12, <2>1
  <1>18. /\ c = Cipher(J, c.E, Zeros(S), S) /\ ShapeOK(c) /\ NewEdges(c.E, N, n, N + n, S)
         /\ c.E \in {X, Merge(X)}
    BY <1>12, <1>13, <1>14, <1>16, <1>17
  <1> QED
    BY <1>3, <1>18, Zenon DEF ProductRight, c, J, X

\* Without edges no layer is needed.
LEMMA LiveNone ==
    ASSUME NEW c, ShapeOK(c), c.E = <<>>
    PROVE  Live(c) = {}
  <1> DEFINE D == Downward(c)
             n == Len(c.L)
  <1>1. n \in Nat /\ DOMAIN c.L = 1..n /\ DOMAIN c.E = {}
    BY ShapeParts
  <1>2. DOMAIN D = 1..n
    <2>1. PICK s : s = [i \in 1..n |-> i]
      OBVIOUS
    <2>2. Len(s) = n
      BY <1>1, <2>1, FnSeq
    <2>3. Reverse(s) = [i \in 1..n |-> s[(n - i) + 1]]
      BY <2>2, Zenon DEF Reverse
    <2>4. D = Reverse(s)
      BY <1>1, <2>1, Zenon DEF Downward
    <2> QED
      BY <2>3, <2>4
  <1>3. PICK f : LiveTable(f, c, n) /\ Live(c) = f[n]
    BY <1>1, <1>2, LiveSteps
  <1>4. f[0] = {} /\ \A k \in 1..n : f[k] = LiveStep(c, f[k - 1], D[k])
    BY <1>1, <1>3 DEF LiveTable
  <1> HIDE DEF D
  <1> DEFINE T == {k \in Nat : k <= n => f[k] = {}}
  <1>5. 0 \in T
    BY <1>4
  <1>6. ASSUME NEW k \in T PROVE k + 1 \in T
    <2>1. k \in Nat /\ k + 1 \in Nat
      OBVIOUS
    <2>2. ASSUME k + 1 <= n PROVE f[k + 1] = {}
      <3>1. k <= n /\ k + 1 \in 1..n /\ (k + 1) - 1 = k
        BY <1>1, <2>1, <2>2
      <3>2. f[k] = {} /\ f[k + 1] = LiveStep(c, f[k], D[k + 1])
        BY <1>4, <3>1
      <3> QED
        BY <3>2, Zenon DEF LiveStep
    <2> QED
      BY <2>1, <2>2
  <1>7. T = Nat
    <2>1. T \in SUBSET Nat
      OBVIOUS
    <2> HIDE DEF T
    <2> QED
      BY <1>5, <1>6, <2>1, Climb
  <1> QED
    BY <1>1, <1>3, <1>7

\* A sequence without elements.
LEMMA EmptySeq == ASSUME NEW s, IsSeq(s), Len(s) = 0 PROVE s = <<>>
  <1>1. s \in Seq({s[i] : i \in 1..Len(s)})
    BY DEF IsSeq
  <1> QED
    BY <1>1

\* Edges of no layer.
LEMMA NoEdges ==
    ASSUME NEW S, NEW E, EdgesOK(E, 0, S)
    PROVE  E = <<>>
  <1>1. E \in Seq(EdgeSet(0, S))
    BY DEF EdgesOK
  <1>2. ASSUME NEW k \in 1..Len(E) PROVE FALSE
    <2>1. E[k] \in EdgeSet(0, S)
      BY <1>1
    <2>2. E[k].lid \in 1..0
      BY <2>1 DEF EdgeSet
    <2> QED
      BY <2>2
  <1>3. Len(E) = 0
    <2>1. Len(E) \in Nat
      BY <1>1
    <2>2. Len(E) # 0 => 1 \in 1..Len(E)
      BY <2>1
    <2> QED
      BY <1>2, <2>2
  <1> QED
    BY <1>1, <1>3

\* A constant alone.
Bare(c0, S) == Cipher(<<>>, <<>>, c0, S)

\* A constant alone is a good ciphertext of depth 0.
LEMMA BareGood ==
    ASSUME NEW S \in Slots, NEW c0, ConstOK(c0, S)
    PROVE  /\ Good(Bare(c0, S)) /\ Bare(c0, S).slots = S /\ MulDepth(Bare(c0, S)) = 0
           /\ ~Threw(Bare(c0, S)) /\ Bare(c0, S).L = <<>> /\ Bare(c0, S).c0 = c0
           /\ Bare(c0, S).E = <<>>
  <1> DEFINE c == Bare(c0, S)
  <1>1. IsSeq(<<>>) /\ Len(<<>>) = 0 /\ 1..0 = {}
    BY DEF IsSeq
  <1>2. LayersOK(<<>>, S) /\ Needed(<<>>, <<>>)
    BY <1>1, BaseLayers, Zenon
  <1>3. EdgesOK(<<>>, 0, S)
    <2>1. <<>> \in Seq(EdgeSet(0, S))
      OBVIOUS
    <2> QED
      BY <2>1 DEF EdgesOK, OneEdgePerPlace
  <1>4. ShapeOK(c)
    BY <1>1, <1>2, <1>3, ShapeMake DEF Bare
  <1>5. PartsRight(<<>>, <<>>, c0, S)
    BY PartsFacts
  <1>6. c.L = <<>> /\ c.E = <<>> /\ c.c0 = c0 /\ c.slots = S
    BY <1>5, Zenon DEF PartsRight, Bare
  <1> HIDE DEF c
  <1>7. MulDepth(c) = 0
    BY <1>1, <1>2, <1>6, DepthBase, Zenon
  <1>8. ~Threw(c) /\ Good(c)
    BY <1>2, <1>4, <1>6, ShapeFits DEF Good
  <1> QED
    BY <1>6, <1>7, <1>8 DEF c

\* Dropping all the layers.
LEMMA CompactNone ==
    ASSUME NEW c, ShapeOK(c), c.E = <<>>
    PROVE  CompactLayers(c) = Bare(c.c0, c.slots)
  <1> DEFINE d == CompactLayers(c)
  <1>1. LayersCompacted(c) /\ Live(c) = {}
    BY LayersCompactedFacts, LiveNone
  <1>2. d = Cipher(KeepLayers(c.L, {}), KeepEdges(<<>>, {}), c.c0, c.slots) /\ ShapeOK(d)
    BY <1>1 DEF LayersCompacted
  <1>3. PICK K0, F : K0 = KeepLayers(c.L, {}) /\ F = KeepEdges(<<>>, {})
    OBVIOUS
  <1>4. PartsRight(K0, F, c.c0, c.slots)
    BY PartsFacts
  <1>5. d.L = K0 /\ d.E = F
    BY <1>2, <1>3, <1>4, Zenon DEF PartsRight
  <1>6. Cardinality({}) = 0
    BY FS_EmptySet
  <1>7. K0 = [k \in 1..0 |-> K0[k]] /\ F = [k \in 1..0 |-> F[k]]
    <2>1. Len(<<>>) = 0
      OBVIOUS
    <2> QED
      BY <1>3, <1>6, <2>1, Zenon DEF KeepLayers, KeepEdges
  <1>8. K0 = <<>> /\ F = <<>>
    BY <1>7, FnSeq, EmptySeq
  <1> QED
    BY <1>2, <1>3, <1>8 DEF Bare

\* build_product_cipher without a pair.
NoProduct(L, S, pairs, targets, t) == BuildProduct(L, S, pairs, targets, t) = Bare(Zeros(S), S)

\* For every list of layers.
LEMMA NoProductFacts ==
    ASSUME NEW S \in Slots, NEW L, LayersOK(L, S), NEW pairs, DOMAIN pairs = 1..0,
           NEW targets, NEW t \in Nat
    PROVE  NoProduct(L, S, pairs, targets, t)
  <1> DEFINE J == L \o NewLayers(L, pairs, 0)
             X == ProductEdges(L, targets, t, 0)
             N == Len(L)
             u == Uncompacted(L, S, pairs, targets, t, 0)
             d == GuardBudget(u)
             c == BuildProduct(L, S, pairs, targets, t)
  <1>1. S \in Nat /\ N \in Nat /\ N + 0 = N /\ 1..0 = {}
    BY SlotsFacts DEF LayersOK, IsSeq
  <1>2. ProductLayers(L, pairs, 0, S)
    BY <1>1, ProductLayersFacts
  <1>3. NewEdges(X, N, 0, N, S)
    <2>1. NewEdges(X, N, 0, N + 0, S)
      BY <1>1, RepackedFacts DEF ProductEdges
    <2> QED
      BY <1>1, <2>1
  <1>4. c = CompactLayers(d)
    <2>1. ProductForm(L, S, pairs, targets, t, 0)
      BY ProductFormFacts
    <2> QED
      BY <2>1 DEF ProductForm
  <1>5. LayersOK(J, S) /\ Len(J) = N
    BY <1>1, <1>2 DEF ProductLayers
  <1>6. Zeros(S) \in Vec(S)
    BY <1>1, ModulusFacts DEF Zeros, Vec
  <1>7. X = <<>>
    <2>1. EdgesOK(X, N, S) /\ \A k \in 1..Len(X) : X[k].lid \in (N + 1)..(N + 0)
      BY <1>3 DEF NewEdges
    <2>2. X \in Seq(EdgeSet(N, S))
      BY <2>1 DEF EdgesOK
    <2> HIDE DEF X
    <2>3. (N + 1)..(N + 0) = {}
      BY <1>1
    <2>4. Len(X) \in Nat
      BY <2>2
    <2>5. Len(X) = 0
      BY <2>1, <2>3, <2>4
    <2> QED
      BY <2>2, <2>5
  <1>8. u = Cipher(J, X, Zeros(S), S)
    BY DEF Uncompacted
  <1>9. PartsRight(J, X, Zeros(S), S)
    BY PartsFacts
  <1>10. u.L = J /\ u.E = <<>> /\ u.c0 = Zeros(S) /\ u.slots = S
    BY <1>7, <1>8, <1>9, Zenon DEF PartsRight
  <1>11. ShapeOK(u)
    BY <1>3, <1>5, <1>6, <1>8, ShapeMake DEF NewEdges, ConstOK
  <1> HIDE DEF u, c
  <1>12. EdgesCompacted(u)
    BY <1>11, EdgesCompactedFacts
  <1>13. /\ d \in {u, CompactEdges(u)} /\ ShapeOK(d) /\ d.c0 = Zeros(S) /\ d.slots = S
         /\ CompactEdges(u) = Cipher(u.L, Merge(u.E), u.c0, u.slots)
    BY <1>10, <1>12, Zenon DEF EdgesCompacted
  <1>14. Merge(<<>>) = <<>>
    <2>1. <<>> \in Seq(EdgeSet(N, S)) /\ OneEdgePerPlace(<<>>)
      BY DEF OneEdgePerPlace
    <2>2. MergeRight(<<>>, N, S) /\ MergeKeeps(<<>>)
      BY <1>1, <2>1, MergeFacts, MergeSame
    <2>3. Merge(<<>>) \in Seq(EdgeSet(N, S)) /\ \A k \in 1..Len(Merge(<<>>)) : \E i \in 1..0 : TRUE
      <3>1. Len(<<>>) = 0
        OBVIOUS
      <3> QED
        BY <2>2, <3>1, Zenon DEF MergeRight, MergeKeeps
    <2>4. PICK M : M = Merge(<<>>)
      OBVIOUS
    <2>5. M \in Seq(EdgeSet(N, S)) /\ Len(M) \in Nat /\ Len(M) = 0
      <3>1. M \in Seq(EdgeSet(N, S)) /\ \A k \in 1..Len(M) : FALSE
        BY <1>1, <2>3, <2>4
      <3>2. Len(M) \in Nat
        BY <3>1
      <3>3. Len(M) = 0
        BY <3>1, <3>2
      <3> QED
        BY <3>1, <3>3
    <2> QED
      BY <2>4, <2>5
  <1>15. d.E = <<>>
    <2>1. PartsRight(u.L, Merge(u.E), u.c0, u.slots)
      BY PartsFacts
    <2>2. CompactEdges(u).E = <<>>
      BY <1>10, <1>13, <1>14, <2>1, Zenon DEF PartsRight
    <2> QED
      BY <1>10, <1>13, <2>2, Zenon
  <1> HIDE DEF d
  <1>16. CompactLayers(d) = Bare(Zeros(S), S)
    BY <1>13, <1>15, CompactNone
  <1> QED
    BY <1>4, <1>16 DEF NoProduct, c

-----------------------------------------------------------------------------

\* fold_edges.
OwnOf(E, i) == {k \in DOMAIN E : E[k].lid = i}

\* The terms of the edges of layer i.
LayerTerms(E, i) == [k \in DOMAIN Chosen(E, OwnOf(E, i)) |-> Term(Chosen(E, OwnOf(E, i))[k])]

\* fold_edges sums these terms.
FoldsRight(c) ==
    /\ DOMAIN FoldEdges(c) = 1..Len(c.L)
    /\ \A i \in 1..Len(c.L) : /\ FoldEdges(c)[i] = VSum(LayerTerms(c.E, i), c.slots)
                              /\ FoldEdges(c)[i] \in Vec(c.slots)

\* For every well-formed ciphertext.
LEMMA FoldFacts == ASSUME NEW c, ShapeOK(c) PROVE FoldsRight(c)
  <1>1. /\ c.slots \in Nat /\ DOMAIN c.L = 1..Len(c.L) /\ DOMAIN c.E = 1..Len(c.E) /\ Len(c.E) \in Nat
        /\ \A k \in 1..Len(c.E) : c.E[k] \in EdgeSet(Len(c.L), c.slots)
    BY ShapeParts
  <1>2. FoldEdges(c) = [i \in 1..Len(c.L) |-> VSum(LayerTerms(c.E, i), c.slots)]
    BY <1>1, Zenon DEF FoldEdges, LayerTerms, OwnOf, Term
  <1>3. ASSUME NEW i \in 1..Len(c.L) PROVE VSum(LayerTerms(c.E, i), c.slots) \in Vec(c.slots)
    <2> DEFINE O == OwnOf(c.E, i)
               g == Chosen(c.E, O)
    <2>1. O \in SUBSET (1..Len(c.E))
      BY <1>1 DEF OwnOf
    <2> HIDE DEF O
    <2>2. Places(O)
      BY <1>1, <2>1 DEF Places
    <2>3. ChosenRight(c.E, O) /\ KeptRight(O)
      BY <2>2, ChosenFacts, KeptFacts
    <2>4. /\ Cardinality(O) \in Nat /\ DOMAIN g = 1..Cardinality(O)
          /\ \A k \in 1..Cardinality(O) : g[k] = c.E[KeptAt(O, k)] /\ KeptAt(O, k) \in O
      BY <2>3, Zenon DEF ChosenRight, KeptRight
    <2> HIDE DEF g
    <2>5. \A k \in 1..Cardinality(O) : g[k] \in EdgeSet(Len(c.L), c.slots)
      BY <1>1, <2>1, <2>4
    <2>6. \A k \in 1..Cardinality(O) : Term(g[k]) \in Vec(c.slots)
      BY <1>1, <2>5, TermVec
    <2>7. PICK h : h = LayerTerms(c.E, i)
      OBVIOUS
    <2>8. DOMAIN h = 1..Cardinality(O) /\ \A k \in 1..Cardinality(O) : h[k] = Term(g[k])
      BY <2>4, <2>7, Zenon DEF LayerTerms, O, g
    <2>9. \A k \in 1..Cardinality(O) : h[k] \in Vec(c.slots)
      BY <2>6, <2>8
    <2> QED
      BY <1>1, <2>4, <2>7, <2>8, <2>9, VSumVec
  <1> QED
    BY <1>2, <1>3, Zenon DEF FoldsRight

\* The pairs of the loops: every pair once.
PairsRight(n, m) ==
    /\ n * m \in Nat /\ DOMAIN LayerPairs(n, m) = 1..(n * m)
    /\ \A k \in 1..(n * m) :
           LET p == LayerPairs(n, m)[k]
           IN  p = <<p[1], p[2]>> /\ p[1] \in 1..n /\ p[2] \in 1..m /\ k = (p[1] - 1) * m + p[2]
    /\ \A i \in 1..n, j \in 1..m :
           /\ (i - 1) * m + j \in 1..(n * m) /\ LayerPairs(n, m)[(i - 1) * m + j] = <<i, j>>

\* The quotient names a layer of the first operand.
LEMMA PairRange ==
    ASSUME NEW n \in Nat, NEW m \in Nat, NEW q \in Nat, NEW r \in 0..(m - 1), NEW k \in 1..(n * m),
           k - 1 = q * m + r
    PROVE  q + 1 \in 1..n
  <1>1. n * m \in Int /\ q * m \in Int
    OBVIOUS
  <1>2. q * m < n * m
    BY <1>1
  <1>3. q < n
    BY <1>2, Z3
  <1> QED
    BY <1>3

\* The place of a pair.
LEMMA PairPlace ==
    ASSUME NEW n \in Nat, NEW m \in Nat, NEW i \in 1..n, NEW j \in 1..m
    PROVE  (i - 1) * m + j \in 1..(n * m) /\ ((i - 1) * m + j) - 1 = (i - 1) * m + (j - 1)
  <1>1. (i - 1) * m \in Nat /\ n * m \in Nat
    BY Z3
  <1>2. (i - 1) * m + m <= n * m
    <2>1. (i - 1) * m + m = i * m
      BY Z3
    <2>2. i * m <= n * m
      BY Z3
    <2> QED
      BY <2>1, <2>2
  <1>3. PICK x \in Nat, y \in Nat : x = (i - 1) * m /\ y = n * m
    BY <1>1
  <1>4. x + j \in 1..y /\ (x + j) - 1 = x + (j - 1)
    BY <1>2, <1>3
  <1> QED
    BY <1>3, <1>4

\* For every two numbers of layers.
LEMMA PairsFacts == ASSUME NEW n \in Nat, NEW m \in Nat PROVE PairsRight(n, m)
  <1> DEFINE Q == LayerPairs(n, m)
  <1>1. n * m \in Nat
    BY Z3
  <1>2. DOMAIN Q = 1..(n * m) /\ \A k \in 1..(n * m) : Q[k] = <<1 + (k - 1) \div m, 1 + ((k - 1) % m)>>
    BY Zenon DEF LayerPairs
  <1> HIDE DEF Q
  <1>3. ASSUME NEW k \in 1..(n * m)
        PROVE  \E q \in Nat, r \in 0..(m - 1) :
                   (k - 1) \div m = q /\ (k - 1) % m = r /\ k - 1 = q * m + r
    <2>1. m # 0
      <3>1. CASE m = 0
        <4>1. n * m = 0
          BY <3>1
        <4> QED
          BY <4>1
      <3> QED
        BY <3>1
    <2>2. k - 1 \in Nat /\ m \in Nat \ {0}
      BY <1>1, <2>1
    <2> QED
      BY <2>2, DivMod
  <1>4. ASSUME NEW k \in 1..(n * m)
        PROVE  /\ Q[k] = <<Q[k][1], Q[k][2]>> /\ Q[k][1] \in 1..n /\ Q[k][2] \in 1..m
               /\ k = (Q[k][1] - 1) * m + Q[k][2]
    <2>1. PICK q \in Nat, r \in 0..(m - 1) :
              (k - 1) \div m = q /\ (k - 1) % m = r /\ k - 1 = q * m + r
      BY <1>3
    <2>2. q + 1 \in 1..n
      BY <2>1, PairRange
    <2>3. PICK p : p = Q[k]
      OBVIOUS
    <2>4. p = <<1 + q, 1 + r>>
      BY <1>2, <2>1, <2>3
    <2>5. p[1] = 1 + q /\ p[2] = 1 + r /\ p = <<p[1], p[2]>>
      BY <2>4
    <2>6. p[1] \in 1..n /\ p[2] \in 1..m /\ p[1] - 1 = q
      BY <2>2, <2>5
    <2>7. k \in Int /\ q * m \in Int
      BY <1>1
    <2>8. k = q * m + (1 + r)
      BY <2>1, <2>7
    <2> QED
      BY <2>3, <2>5, <2>6, <2>8
  <1>5. ASSUME NEW i \in 1..n, NEW j \in 1..m
        PROVE  (i - 1) * m + j \in 1..(n * m) /\ Q[(i - 1) * m + j] = <<i, j>>
    <2>1. (i - 1) * m + j \in 1..(n * m) /\ ((i - 1) * m + j) - 1 = (i - 1) * m + (j - 1)
      BY PairPlace
    <2>2. PICK k \in 1..(n * m) : k = (i - 1) * m + j
      BY <2>1
    <2>3. PICK q \in Nat, r \in 0..(m - 1) :
              (k - 1) \div m = q /\ (k - 1) % m = r /\ k - 1 = q * m + r
      BY <1>3
    <2>4. i - 1 \in Nat /\ j - 1 \in 0..(m - 1) /\ q * m + r = (i - 1) * m + (j - 1)
      BY <2>1, <2>2, <2>3
    <2>5. q = i - 1 /\ r = j - 1
      BY <2>4, QuotientUnique
    <2>6. Q[k] = <<1 + q, 1 + r>>
      BY <1>2, <2>3
    <2>7. 1 + q = i /\ 1 + r = j
      BY <2>5
    <2> QED
      BY <2>1, <2>2, <2>6, <2>7
  <1> QED
    BY <1>1, <1>2, <1>4, <1>5, Zenon DEF PairsRight, Q

-----------------------------------------------------------------------------

\* Edges moved and times a constant, or none if it is zero.
ScaledRight(E, scale, off, n, S) ==
    LET F == ScaledEdges(E, scale, off)
    IN  /\ EdgesOK(F, n, S)
        /\ \A k \in 1..Len(F) : k \in 1..Len(E) /\ F[k].lid = E[k].lid + off /\ F[k].s = E[k].s
        /\ IF NonZero(scale)
           THEN /\ Len(F) = Len(E)
                /\ \A k \in 1..Len(E) : /\ F[k].idx = E[k].idx /\ F[k].ch = E[k].ch
                                        /\ F[k].w = VMul(E[k].w, scale)
           ELSE F = <<>>

\* For every list of edges and constant.
LEMMA ScaledFacts ==
    ASSUME NEW S \in Nat, NEW m \in Nat, NEW n \in Nat, NEW off \in Nat, m + off <= n,
           NEW E, EdgesOK(E, m, S), NEW scale, ConstOK(scale, S)
    PROVE  ScaledRight(E, scale, off, n, S)
  <1> DEFINE F == ScaledEdges(E, scale, off)
             M == MoveEdges(E, off)
  <1>1. CASE ~NonZero(scale)
    <2>1. F = <<>>
      BY <1>1, Zenon DEF ScaledEdges
    <2>2. EdgesOK(<<>>, n, S)
      <3>1. <<>> \in Seq(EdgeSet(n, S))
        OBVIOUS
      <3> QED
        BY <3>1 DEF EdgesOK, OneEdgePerPlace
    <2>3. 1..Len(<<>>) = {}
      OBVIOUS
    <2> QED
      BY <1>1, <2>1, <2>2, <2>3, Zenon DEF ScaledRight
  <1>2. CASE NonZero(scale)
    <2>1. scale \in Vec(S)
      <3>1. scale # <<>>
        BY <1>2 DEF NonZero
      <3> QED
        BY <3>1 DEF ConstOK
    <2>2. MovedEdges(E, off, n, S)
      BY MoveEdgesFacts
    <2>3. /\ EdgesOK(M, n, S) /\ Len(M) = Len(E)
          /\ \A k \in 1..Len(E) : /\ M[k].lid = E[k].lid + off /\ M[k].idx = E[k].idx
                                  /\ M[k].ch = E[k].ch /\ M[k].w = E[k].w /\ M[k].s = E[k].s
      BY <2>2, Zenon DEF MovedEdges
    <2>4. F = MaskEdges(M, scale)
      BY <1>2, Zenon DEF ScaledEdges, MaskEdges
    <2> HIDE DEF M, F
    <2>5. M \in Seq(EdgeSet(n, S)) /\ OneEdgePerPlace(M)
      BY <2>3 DEF EdgesOK
    <2>6. /\ F \in Seq(EdgeSet(n, S)) /\ Len(F) = Len(M)
          /\ \A k \in 1..Len(M) : WeightRight(M[k], VMul(M[k].w, scale), n, S)
                                   /\ F[k] = [M[k] EXCEPT !.w = VMul(M[k].w, scale)]
      BY <2>1, <2>4, <2>5, MaskedFacts
    <2>7. \A k \in 1..Len(M) : /\ F[k] \in EdgeSet(n, S) /\ F[k].lid = M[k].lid
                               /\ F[k].idx = M[k].idx /\ F[k].ch = M[k].ch
                               /\ F[k].w = VMul(M[k].w, scale) /\ F[k].s = M[k].s
      BY <2>6, Zenon DEF WeightRight
    <2>8. EdgesOK(F, n, S)
      <3>1. IsSeq(F)
        BY <2>6, SeqIs
      <3>2. SamePlaces(M, F, n, S)
        BY <2>6, <2>7, <3>1, Zenon DEF SamePlaces
      <3> QED
        BY <2>3, <3>2, SamePlacesOK
    <2>9. \A k \in 1..Len(E) : /\ F[k].lid = E[k].lid + off /\ F[k].s = E[k].s /\ F[k].idx = E[k].idx
                               /\ F[k].ch = E[k].ch /\ F[k].w = VMul(E[k].w, scale)
      BY <2>3, <2>7, Zenon
    <2>10. Len(F) = Len(E)
      BY <2>3, <2>6
    <2> QED
      BY <1>2, <2>8, <2>9, <2>10, Zenon DEF ScaledRight, F
  <1> QED
    BY <1>1, <1>2

\* A product with edges of the operands' layers put back.
TopUp(L, pairs, n, E, X, c0, S) ==
    Good(Cipher(L \o NewLayers(L, pairs, n), E \o X, c0, S))

\* For every product and edges of the operands.
LEMMA TopUpGood ==
    ASSUME NEW S \in Slots, NEW L, LayersOK(L, S), NEW n \in Nat, NEW pairs,
           \A k \in 1..n : pairs[k][1] \in 1..Len(L) /\ pairs[k][2] \in 1..Len(L),
           Covers(pairs, n, Len(L)), NEW E, NewEdges(E, Len(L), n, Len(L) + n, S),
           NEW X, EdgesOK(X, Len(L), S),
           \A k \in 1..Len(X) : IsProd(L[X[k].lid]) => X[k].s # {}, NEW c0, ConstOK(c0, S)
    PROVE  TopUp(L, pairs, n, E, X, c0, S)
  <1> DEFINE J == L \o NewLayers(L, pairs, n)
             N == Len(L)
             F == E \o X
             c == Cipher(J, F, c0, S)
  <1>1. ProductLayers(L, pairs, n, S)
    BY ProductLayersFacts
  <1>2. /\ LayersOK(J, S) /\ Len(J) = N + n /\ N \in Nat
        /\ \A k \in 1..n :
               /\ IsProd(J[N + k])
               /\ pairs[k][1] \in {J[N + k].pa, J[N + k].pb}
               /\ pairs[k][2] \in {J[N + k].pa, J[N + k].pb}
        /\ \A i \in 1..Len(J) : i \in 1..N \/ \E k \in 1..n : i = N + k
        /\ \A i \in 1..N : J[i] = L[i]
    BY <1>1, Zenon DEF ProductLayers
  <1>3. N <= N + n /\ N + n \in Nat
    BY <1>2
  <1>4. EdgesOK(E, N + n, S) /\ EdgesOK(X, N + n, S)
    BY <1>2, <1>3, EdgesWiden DEF NewEdges
  <1>5. E \in Seq(EdgeSet(N + n, S)) /\ X \in Seq(EdgeSet(N, S))
    BY <1>4 DEF EdgesOK
  <1>6. IsSeq(E) /\ IsSeq(X)
    BY <1>5, SeqIs
  <1>7. \A l \in 1..Len(X) : X[l].lid \in 1..N
    <2>1. \A l \in 1..Len(X) : X[l] \in EdgeSet(N, S)
      BY <1>5, SeqIs
    <2> QED
      BY <2>1 DEF EdgeSet
  <1>8. \A k \in 1..Len(E) : E[k].lid \in (N + 1)..(N + n) /\ E[k].s # {}
    BY DEF NewEdges
  <1>9. ASSUME NEW k \in 1..Len(E), NEW l \in 1..Len(X) PROVE E[k].lid # X[l].lid
    <2>1. E[k].lid \in (N + 1)..(N + n) /\ X[l].lid \in 1..N
      BY <1>7, <1>8
    <2> QED
      BY <1>2, <2>1
  <1>10. EdgesOK(F, N + n, S)
    BY <1>3, <1>4, <1>9, ConcatEdges
  <1>11. ShapeOK(c)
    BY <1>2, <1>10, ShapeMake
  <1>12. ConcatRight(E, X)
    BY <1>6, ConcatFacts
  <1>13. /\ Len(F) = Len(E) + Len(X) /\ Len(E) \in Nat /\ Len(X) \in Nat
         /\ \A i \in 1..Len(E) : F[i] = E[i]
         /\ \A i \in 1..Len(X) : F[Len(E) + i] = X[i]
         /\ \A i \in 1..Len(F) : i \in 1..Len(E) \/ \E j \in 1..Len(X) : i = Len(E) + j
    BY <1>12, Zenon DEF ConcatRight
  <1> HIDE DEF F, J
  <1>14. ASSUME NEW k \in 1..Len(F), IsProd(J[F[k].lid]) PROVE F[k].s # {}
    <2>1. CASE k \in 1..Len(E)
      BY <1>8, <1>13, <2>1
    <2>2. ASSUME NEW j \in 1..Len(X), k = Len(E) + j PROVE F[k].s # {}
      <3>1. F[k] = X[j] /\ X[j].lid \in 1..N
        BY <1>7, <1>13, <2>2
      <3>2. IsProd(L[X[j].lid])
        BY <1>2, <1>14, <3>1
      <3> QED
        BY <3>1, <3>2
    <2> QED
      BY <1>13, <2>1, <2>2
  <1>15. ASSUME NEW i \in 1..Len(J), IsProd(J[i])
         PROVE  \/ \E k \in 1..Len(F) : F[k].lid = i
                \/ \E m \in 1..Len(J) : IsProd(J[m]) /\ i \in {J[m].pa, J[m].pb}
    <2>1. CASE i \in 1..N
      <3>1. PICK k \in 1..n : i \in {pairs[k][1], pairs[k][2]}
        BY <2>1, Zenon DEF Covers
      <3>2. N + k \in 1..Len(J) /\ IsProd(J[N + k]) /\ i \in {J[N + k].pa, J[N + k].pb}
        BY <1>2, <3>1
      <3> QED
        BY <3>2
    <2>2. ASSUME NEW k \in 1..n, i = N + k PROVE \E l \in 1..Len(F) : F[l].lid = i
      <3>1. PICK l \in 1..Len(E) : E[l].lid = N + k
        BY Zenon DEF NewEdges
      <3>2. l \in 1..Len(F) /\ F[l] = E[l]
        BY <1>13
      <3> QED
        BY <2>2, <3>1, <3>2
    <2> QED
      BY <1>2, <2>1, <2>2
  <1>16. Needed(J, F)
    BY <1>14, <1>15, Zenon DEF Needed
  <1>17. PartsRight(J, F, c0, S)
    BY PartsFacts
  <1>18. c.L = J /\ c.E = F
    BY <1>17, Zenon DEF PartsRight
  <1>19. Good(c)
    BY <1>11, <1>16, <1>18 DEF Good
  <1> QED
    BY <1>19 DEF TopUp, J, F

-----------------------------------------------------------------------------
(* ct_mul *)

\* The pairs of layers of two operands.
LP(a, b) == LayerPairs(Len(a.L), Len(b.L))

\* The pairs as positions of the joined layers.
MulPairs(a, b) ==
    [k \in DOMAIN LP(a, b) |-> <<LP(a, b)[k][1], Len(a.L) + LP(a, b)[k][2]>>]

\* What the edges of the pairs' products add up to.
MulTargets(a, b) ==
    [k \in DOMAIN LP(a, b) |-> VMul(FoldEdges(a)[LP(a, b)[k][1]], FoldEdges(b)[LP(a, b)[k][2]])]

\* The product without the constants.
MulBuilt(a, b, t) ==
    BuildProduct(JoinLayers(a.L, b.L), a.slots, MulPairs(a, b), MulTargets(a, b), t)

\* ct_mul in these parts.
LEMMA MulForm ==
    ASSUME NEW math, NEW a, NEW b, NEW t
    PROVE  CtMul(math, a, b, t) =
           IF a.slots # b.slots THEN NoCipher
           ELSE IF Threw(MulBuilt(a, b, t)) \/ Len(ConstOf(math, a)) # Len(ConstOf(math, b)) THEN NoCipher
           ELSE CompactLayers(GuardBudget(
                    [MulBuilt(a, b, t) EXCEPT
                        !.E = MulBuilt(a, b, t).E
                              \o CrossTerms(a, b, ConstOf(math, a), ConstOf(math, b)),
                        !.c0 = VMul(ConstOf(math, a), ConstOf(math, b))]))
  BY Zenon DEF CtMul, MulBuilt, MulPairs, MulTargets, LP

\* The pairs are of the joined layers, the targets are vectors.
MulPairsRight(a, b) ==
    LET N == Len(a.L) + Len(b.L)
        n == Len(a.L) * Len(b.L)
    IN  /\ n \in Nat /\ DOMAIN MulPairs(a, b) = 1..n /\ DOMAIN MulTargets(a, b) = 1..n
        /\ \A k \in 1..n : MulPairs(a, b)[k][1] \in 1..N /\ MulPairs(a, b)[k][2] \in 1..N
        /\ \A k \in 1..n : MulTargets(a, b)[k] \in Vec(a.slots)
        /\ a.L # <<>> /\ b.L # <<>> => Covers(MulPairs(a, b), n, N)

\* For every two well-formed operands of as many slots.
LEMMA MulPairsFacts ==
    ASSUME NEW a, NEW b, ShapeOK(a), ShapeOK(b), a.slots = b.slots
    PROVE  MulPairsRight(a, b)
  <1> DEFINE p == Len(a.L)
             q == Len(b.L)
             N == p + q
             n == p * q
             Q == LP(a, b)
             M == MulPairs(a, b)
             V == MulTargets(a, b)
             S == a.slots
  <1>1. p \in Nat /\ q \in Nat /\ S \in Nat /\ IsSeq(a.L) /\ IsSeq(b.L)
    BY ShapeParts
  <1>2. PairsRight(p, q)
    BY <1>1, PairsFacts
  <1>3. /\ n \in Nat /\ DOMAIN Q = 1..n
        /\ \A k \in 1..n : Q[k][1] \in 1..p /\ Q[k][2] \in 1..q
        /\ \A i \in 1..p, j \in 1..q : (i - 1) * q + j \in 1..n /\ Q[(i - 1) * q + j] = <<i, j>>
    BY <1>2, Zenon DEF PairsRight, LP
  <1> HIDE DEF Q
  <1>4. DOMAIN M = 1..n /\ \A k \in 1..n : M[k] = <<Q[k][1], p + Q[k][2]>>
    BY <1>3, Zenon DEF MulPairs, Q
  <1>5. /\ DOMAIN V = 1..n
        /\ \A k \in 1..n : V[k] = VMul(FoldEdges(a)[Q[k][1]], FoldEdges(b)[Q[k][2]])
    BY <1>3, Zenon DEF MulTargets, Q
  <1> HIDE DEF M, V, n, p, q
  <1>6. ASSUME NEW k \in 1..n PROVE /\ M[k][1] \in 1..N /\ M[k][2] \in 1..N
                                    /\ M[k][1] = Q[k][1] /\ M[k][2] = p + Q[k][2]
    <2>1. PICK x \in 1..p, y \in 1..q : x = Q[k][1] /\ y = Q[k][2]
      BY <1>3
    <2>2. M[k] = <<x, p + y>>
      BY <1>4, <2>1
    <2>3. x \in 1..N /\ p + y \in 1..N
      BY <1>1
    <2> QED
      BY <2>1, <2>2, <2>3
  <1>7. ASSUME NEW k \in 1..n PROVE V[k] \in Vec(S)
    <2>1. FoldsRight(a) /\ FoldsRight(b)
      BY FoldFacts
    <2>2. FoldEdges(a)[Q[k][1]] \in Vec(S) /\ FoldEdges(b)[Q[k][2]] \in Vec(S)
      BY <1>3, <2>1 DEF FoldsRight, p, q
    <2>3. 0 \in Int
      OBVIOUS
    <2> QED
      BY <1>1, <1>5, <2>2, <2>3, VecOps
  <1>8. ASSUME a.L # <<>>, b.L # <<>> PROVE Covers(M, n, N)
    <2>1. p # 0 /\ q # 0
      BY <1>1, <1>8, EmptySeq DEF p, q
    <2>2. ASSUME NEW i \in 1..N PROVE \E k \in 1..n : i \in {M[k][1], M[k][2]}
      <3>1. CASE i \in 1..p
        <4>1. 1 \in 1..q
          BY <1>1, <2>1
        <4>2. PICK k \in 1..n : Q[k] = <<i, 1>>
          BY <1>3, <3>1, <4>1
        <4>3. M[k][1] = i
          BY <1>6, <4>2
        <4> QED
          BY <4>3
      <3>2. CASE i \notin 1..p
        <4>1. PICK j \in 1..q : i = p + j
          <5>1. i - p \in 1..q /\ i = p + (i - p)
            BY <1>1, <3>2
          <5> QED
            BY <5>1
        <4>2. 1 \in 1..p
          BY <1>1, <2>1
        <4>3. PICK k \in 1..n : Q[k] = <<1, j>>
          BY <1>3, <4>2
        <4>4. M[k][2] = i
          BY <1>6, <4>1, <4>3
        <4> QED
          BY <4>4
      <3> QED
        BY <3>1, <3>2
    <2> QED
      BY <2>2, Zenon DEF Covers
  <1> QED
    BY <1>3, <1>4, <1>5, <1>6, <1>7, <1>8, Zenon DEF MulPairsRight, M, V, n, p, q

\* The terms of a constant with the other operand's edges.
CrossRight(a, b, x, y) ==
    LET X == CrossTerms(a, b, x, y)
        J == JoinLayers(a.L, b.L)
    IN  /\ EdgesOK(X, Len(a.L) + Len(b.L), a.slots)
        /\ \A k \in 1..Len(X) : IsProd(J[X[k].lid]) => X[k].s # {}
        /\ X = ScaledEdges(b.E, x, Len(a.L)) \o ScaledEdges(a.E, y, 0)
        /\ ScaledRight(b.E, x, Len(a.L), Len(a.L) + Len(b.L), a.slots)
        /\ ScaledRight(a.E, y, 0, Len(a.L) + Len(b.L), a.slots)

\* For every two good operands and constants.
LEMMA CrossFacts ==
    ASSUME NEW a, NEW b, Good(a), Good(b), a.slots = b.slots, NEW x, NEW y,
           ConstOK(x, a.slots), ConstOK(y, a.slots)
    PROVE  CrossRight(a, b, x, y)
  <1> DEFINE p == Len(a.L)
             q == Len(b.L)
             N == p + q
             S == a.slots
             J == JoinLayers(a.L, b.L)
             F == ScaledEdges(b.E, x, p)
             H == ScaledEdges(a.E, y, 0)
             X == F \o H
  <1>1. /\ p \in Nat /\ q \in Nat /\ S \in Nat /\ LayersOK(a.L, S) /\ LayersOK(b.L, S)
        /\ EdgesOK(a.E, p, S) /\ EdgesOK(b.E, q, S)
        /\ (\A k \in 1..Len(a.E) : a.E[k].lid \in 1..p)
        /\ \A k \in 1..Len(b.E) : b.E[k].lid \in 1..q
    BY ShapeParts DEF Good
  <1>2. q + p <= N /\ p + 0 <= N /\ N \in Nat /\ 0 \in Nat
    <2> HIDE DEF p, q
    <2> QED
      BY <1>1
  <1>3. ScaledRight(b.E, x, p, N, S) /\ ScaledRight(a.E, y, 0, N, S)
    BY <1>1, <1>2, ScaledFacts
  <1>4. /\ EdgesOK(F, N, S) /\ EdgesOK(H, N, S)
        /\ \A k \in 1..Len(F) : k \in 1..Len(b.E) /\ F[k].lid = b.E[k].lid + p /\ F[k].s = b.E[k].s
        /\ \A k \in 1..Len(H) : k \in 1..Len(a.E) /\ H[k].lid = a.E[k].lid + 0 /\ H[k].s = a.E[k].s
    BY <1>3, Zenon DEF ScaledRight
  <1>5. JoinedLayers(a.L, b.L, S)
    BY <1>1, JoinLayersFacts
  <1>6. Embeds(a.L, J, 1..p, IdOn(p)) /\ Embeds(b.L, J, 1..q, ShiftOn(q, p))
    BY <1>5, Zenon DEF JoinedLayers
  <1>7. (\A i \in 1..p : IdOn(p)[i] = i) /\ (\A i \in 1..q : ShiftOn(q, p)[i] = p + i)
    BY DEF IdOn, ShiftOn
  <1>8. /\ \A i \in 1..p : IsProd(J[i]) => IsProd(a.L[i])
        /\ \A i \in 1..q : IsProd(J[p + i]) => IsProd(b.L[i])
    BY <1>6, <1>7, Zenon DEF Embeds, SameLayer
  <1>9. /\ \A k \in 1..Len(a.E) : IsProd(a.L[a.E[k].lid]) => a.E[k].s # {}
        /\ \A k \in 1..Len(b.E) : IsProd(b.L[b.E[k].lid]) => b.E[k].s # {}
    BY Zenon DEF Good, Needed
  <1> HIDE DEF F, H, J
  <1>10. ASSUME NEW k \in 1..Len(F) PROVE F[k].lid \in (p + 1)..N /\ (IsProd(J[F[k].lid]) => F[k].s # {})
    <2>1. PICK i \in 1..q : i = b.E[k].lid
      BY <1>1, <1>4
    <2>2. k \in 1..Len(b.E) /\ F[k].lid = i + p /\ F[k].s = b.E[k].s
      BY <1>4, <2>1
    <2>3. i + p = p + i /\ p + i \in (p + 1)..N
      <3> HIDE DEF p, q
      <3> QED
        BY <1>1
    <2>4. IsProd(J[p + i]) => b.E[k].s # {}
      BY <1>8, <1>9, <2>1, <2>2
    <2> QED
      BY <2>2, <2>3, <2>4
  <1>11. ASSUME NEW k \in 1..Len(H) PROVE H[k].lid \in 1..p /\ (IsProd(J[H[k].lid]) => H[k].s # {})
    <2>1. PICK i \in 1..p : i = a.E[k].lid
      BY <1>1, <1>4
    <2>2. k \in 1..Len(a.E) /\ H[k].lid = i + 0 /\ H[k].s = a.E[k].s
      BY <1>4, <2>1
    <2>3. i + 0 = i
      OBVIOUS
    <2>4. IsProd(J[i]) => a.E[k].s # {}
      BY <1>8, <1>9, <2>1, <2>2
    <2> QED
      BY <2>2, <2>3, <2>4
  <1>12. EdgesOK(X, N, S)
    <2>1. ASSUME NEW k \in 1..Len(F), NEW l \in 1..Len(H) PROVE F[k].lid # H[l].lid
      <3>1. F[k].lid \in (p + 1)..N /\ H[l].lid \in 1..p
        BY <1>10, <1>11
      <3> QED
        BY <1>1, <3>1
    <2> QED
      BY <1>2, <1>4, <2>1, ConcatEdges
  <1>13. ConcatRight(F, H)
    <2>1. F \in Seq(EdgeSet(N, S)) /\ H \in Seq(EdgeSet(N, S))
      BY <1>4 DEF EdgesOK
    <2>2. IsSeq(F) /\ IsSeq(H)
      BY <2>1, SeqIs
    <2> QED
      BY <2>2, ConcatFacts
  <1>14. /\ \A i \in 1..Len(F) : X[i] = F[i]
         /\ \A i \in 1..Len(H) : X[Len(F) + i] = H[i]
         /\ \A i \in 1..Len(X) : i \in 1..Len(F) \/ \E j \in 1..Len(H) : i = Len(F) + j
    BY <1>13, Zenon DEF ConcatRight
  <1> HIDE DEF X
  <1>15. \A k \in 1..Len(X) : IsProd(J[X[k].lid]) => X[k].s # {}
    BY <1>10, <1>11, <1>14
  <1>16. CrossTerms(a, b, x, y) = X
    BY Zenon DEF CrossTerms, X, F, H
  <1> QED
    BY <1>3, <1>12, <1>15, <1>16, Zenon DEF CrossRight, J, F, H, X

\* Constants of one length.
LEMMA ConstLengths ==
    ASSUME NEW a, NEW b, ShapeOK(a), ShapeOK(b), a.slots = b.slots, NEW math \in BOOLEAN
    PROVE  Len(ConstOf(math, a)) # Len(ConstOf(math, b)) <=> ~math /\ ((a.c0 = <<>>) # (b.c0 = <<>>))
  <1>1. /\ ConstOf(math, a) = <<>> \/ Len(ConstOf(math, a)) = a.slots
        /\ (ConstOf(math, a) = <<>>) <=> (~math /\ a.c0 = <<>>)
        /\ ConstOf(math, b) = <<>> \/ Len(ConstOf(math, b)) = a.slots
        /\ (ConstOf(math, b) = <<>>) <=> (~math /\ b.c0 = <<>>)
    BY ConstOfOK
  <1>2. a.slots # 0 /\ Len(<<>>) = 0
    BY ShapeParts
  <1>3. (ConstOf(math, a) = <<>>) <=> Len(ConstOf(math, a)) = 0
    BY <1>1, <1>2
  <1>4. (ConstOf(math, b) = <<>>) <=> Len(ConstOf(math, b)) = 0
    BY <1>1, <1>2
  <1> QED
    BY <1>1, <1>2, <1>3, <1>4

\* What ct_mul adds to the product.
MulRaw(math, a, b, t) ==
    Cipher(MulBuilt(a, b, t).L,
           MulBuilt(a, b, t).E \o CrossTerms(a, b, ConstOf(math, a), ConstOf(math, b)),
           VMul(ConstOf(math, a), ConstOf(math, b)), a.slots)

\* The product of the constants.
LEMMA MulConst ==
    ASSUME NEW S \in Nat, NEW x, NEW y, ConstOK(x, S), ConstOK(y, S), Len(x) = Len(y)
    PROVE  ConstOK(VMul(x, y), S)
  <1>1. CASE x = <<>>
    BY <1>1 DEF VMul, ConstOK
  <1>2. CASE x # <<>>
    <2>1. x \in Vec(S)
      BY <1>2 DEF ConstOK
    <2>2. Len(x) = S /\ (S = 0 => x = <<>>)
      <3>1. Len(x) = S /\ IsSeq(x)
        BY <2>1, VecFacts
      <3> QED
        BY <3>1, EmptySeq
    <2>3. y # <<>>
      <3>1. Len(<<>>) = 0
        OBVIOUS
      <3> QED
        BY <1>2, <2>2, <3>1
    <2>4. y \in Vec(S) /\ 0 \in Int
      BY <2>3 DEF ConstOK
    <2> QED
      BY <2>1, <2>4, VecOps DEF ConstOK
  <1> QED
    BY <1>1, <1>2

\* Both operands have layers.
MulMade(math, a, b, t) ==
    LET c == MulBuilt(a, b, t)
        n == Len(a.L) * Len(b.L)
        J == JoinLayers(a.L, b.L)
    IN  /\ ProductRight(J, a.slots, MulPairs(a, b), MulTargets(a, b), t, n)
        /\ c.L = J \o NewLayers(J, MulPairs(a, b), n) /\ ~Threw(c)
        /\ ProductLayers(J, MulPairs(a, b), n, a.slots)
        /\ Len(ConstOf(math, a)) = Len(ConstOf(math, b)) =>
              /\ Good(MulRaw(math, a, b, t)) /\ MulRaw(math, a, b, t).slots = a.slots
              /\ MulDepth(MulRaw(math, a, b, t)) = Max({MulDepth(a), MulDepth(b)}) + 1
              /\ CtMul(math, a, b, t) = CompactLayers(GuardBudget(MulRaw(math, a, b, t)))

\* For every two good operands that have layers.
LEMMA MulMadeFacts ==
    ASSUME NEW a, NEW b, Good(a), Good(b), a.slots = b.slots, a.L # <<>>, b.L # <<>>,
           NEW math \in BOOLEAN, NEW t \in Nat
    PROVE  MulMade(math, a, b, t)
  <1> DEFINE c == MulBuilt(a, b, t)
             n == Len(a.L) * Len(b.L)
             J == JoinLayers(a.L, b.L)
             M == MulPairs(a, b)
             V == MulTargets(a, b)
             S == a.slots
             x == ConstOf(math, a)
             y == ConstOf(math, b)
             r == MulRaw(math, a, b, t)
             X == CrossTerms(a, b, x, y)
  <1>1. /\ S \in Slots /\ S \in Nat /\ LayersOK(a.L, S) /\ LayersOK(b.L, S) /\ ShapeOK(a) /\ ShapeOK(b)
        /\ IsSeq(a.L)
    BY ShapeParts DEF Good
  <1>2. JoinedLayers(a.L, b.L, S)
    BY <1>1, JoinLayersFacts
  <1>3. LayersOK(J, S) /\ Len(J) = Len(a.L) + Len(b.L) /\ Len(a.L) \in Nat /\ Len(b.L) \in Nat
    BY <1>2, Zenon DEF JoinedLayers
  <1>4. MulPairsRight(a, b)
    BY <1>1, MulPairsFacts
  <1>5. /\ n \in Nat /\ DOMAIN M = 1..n /\ \A k \in 1..n : M[k][1] \in 1..Len(J) /\ M[k][2] \in 1..Len(J)
        /\ (\A k \in 1..n : V[k] \in Vec(S)) /\ Covers(M, n, Len(J))
    BY <1>3, <1>4, Zenon DEF MulPairsRight
  <1> HIDE DEF M, V, n
  <1>6. ProductRight(J, S, M, V, t, n)
    BY <1>1, <1>3, <1>5, ProductFacts
  <1>7. ProductLayers(J, M, n, S)
    BY <1>3, <1>5, ProductLayersFacts
  <1>8. /\ c = Cipher(J \o NewLayers(J, M, n), c.E, Zeros(S), S) /\ ShapeOK(c)
        /\ NewEdges(c.E, Len(J), n, Len(J) + n, S)
    BY <1>6, Zenon DEF ProductRight, MulBuilt, M, V
  <1>9. c.L = J \o NewLayers(J, M, n) /\ c.slots = S /\ ~Threw(c)
    <2>1. PartsRight(J \o NewLayers(J, M, n), c.E, Zeros(S), S)
      BY PartsFacts
    <2>2. c.L = J \o NewLayers(J, M, n) /\ c.slots = S
      BY <1>8, <2>1, Zenon DEF PartsRight
    <2> QED
      BY <1>8, <2>2, ShapeFits
  <1> HIDE DEF c
  <1>10. ASSUME Len(x) = Len(y)
         PROVE  /\ Good(r) /\ r.slots = S /\ MulDepth(r) = Max({MulDepth(a), MulDepth(b)}) + 1
                /\ CtMul(math, a, b, t) = CompactLayers(GuardBudget(r))
    <2>1. ConstOK(x, S) /\ ConstOK(y, S)
      BY <1>1, ConstOfOK
    <2>2. ConstOK(VMul(x, y), S)
      BY <1>1, <1>10, <2>1, MulConst
    <2>3. CrossRight(a, b, x, y)
      BY <2>1, CrossFacts
    <2>4. EdgesOK(X, Len(J), S) /\ \A k \in 1..Len(X) : IsProd(J[X[k].lid]) => X[k].s # {}
      BY <1>3, <2>3, Zenon DEF CrossRight
    <2> HIDE DEF X, x, y
    <2>5. PICK c0 : c0 = VMul(x, y)
      OBVIOUS
    <2>6. TopUp(J, M, n, c.E, X, c0, S)
      BY <1>1, <1>3, <1>5, <1>8, <2>2, <2>4, <2>5, TopUpGood
    <2>7. r = Cipher(c.L, c.E \o X, c0, S)
      BY <2>5 DEF MulRaw, c, X, x, y
    <2>8. Good(r)
      BY <1>9, <2>6, <2>7 DEF TopUp
    <2>9. PartsRight(c.L, c.E \o X, c0, S)
      BY PartsFacts
    <2>10. r.L = J \o NewLayers(J, M, n) /\ r.slots = S
      BY <1>9, <2>7, <2>9, Zenon DEF PartsRight
    <2> HIDE DEF r
    <2>11. MulDepth(r) = Max({MulDepth(a), MulDepth(b)}) + 1
      <3>1. PICK j : j = JoinOf(a, b, x)
        OBVIOUS
      <3>2. PartsRight(JoinLayers(a.L, b.L), JoinEdges(a.L, a.E, b.E), x, S)
        BY PartsFacts
      <3>3. j.L = J
        BY <3>1, <3>2, Zenon DEF PartsRight, JoinOf
      <3>4. MulDepth(j) = Max({MulDepth(a), MulDepth(b)})
        BY <2>1, <3>1, JoinGood DEF x
      <3>5. Len(a.L) # 0
        BY <1>1, EmptySeq
      <3>6. Len(J) >= 1
        <4>1. PICK p \in Nat, q \in Nat : p = Len(a.L) /\ q = Len(b.L)
          BY <1>3
        <4>2. Len(J) = p + q /\ p # 0
          BY <1>3, <3>5, <4>1
        <4> QED
          BY <4>2
      <3> HIDE DEF J
      <3>7. DepthGrows(j, r, M, n, S)
        BY <1>3, <1>5, <2>10, <3>3, <3>6, DepthProduct
      <3> QED
        BY <3>4, <3>7 DEF DepthGrows
    <2>12. CtMul(math, a, b, t) = CompactLayers(GuardBudget(r))
      <3>1. ReplaceRight(c, c.L, c.E \o X, c0)
        <4>1. c = Cipher(c.L, c.E, c.c0, c.slots)
          BY <1>8, ShapeParts
        <4> QED
          BY <4>1, ReplaceFacts
      <3>2. [c EXCEPT !.E = c.E \o X, !.c0 = c0] = r
        BY <1>9, <2>7, <3>1, Zenon DEF ReplaceRight
      <3>3. CtMul(math, a, b, t) =
                IF a.slots # b.slots THEN NoCipher
                ELSE IF Threw(c) \/ Len(x) # Len(y) THEN NoCipher
                ELSE CompactLayers(GuardBudget([c EXCEPT !.E = c.E \o X, !.c0 = c0]))
        BY <2>5, MulForm DEF c, X, x, y
      <3> QED
        BY <1>9, <1>10, <3>2, <3>3, Zenon
    <2> QED
      BY <2>8, <2>10, <2>11, <2>12
  <1> QED
    BY <1>6, <1>7, <1>9, <1>10, Zenon DEF MulMade, c, M, V, n

\* ct_mul: a product one deeper, or with an operand that has no layer a constant
\* alone; it throws only for a cause.
MulDone(math, a, b, t) ==
    LET c == CtMul(math, a, b, t)
    IN  /\ ~Threw(c) => /\ Good(c) /\ c.slots = a.slots /\ a.slots = b.slots
                        /\ MulDepth(c) = IF a.L = <<>> \/ b.L = <<>> THEN 0
                                         ELSE Max({MulDepth(a), MulDepth(b)}) + 1
        /\ Threw(c) => \/ a.slots # b.slots
                       \/ ~math /\ (a.c0 = <<>>) # (b.c0 = <<>>)
                       \/ (a.L = <<>>) # (b.L = <<>>)

\* An operand that has no layer.
MulBare(math, a, b, t) ==
    LET x == ConstOf(math, a)
        y == ConstOf(math, b)
        X == CrossTerms(a, b, x, y)
        c == CtMul(math, a, b, t)
    IN  /\ ~Threw(c) => /\ c = Bare(VMul(x, y), a.slots) /\ ConstOK(VMul(x, y), a.slots)
                        /\ Len(x) = Len(y) /\ (X = <<>> \/ Merge(X) = <<>>)
        /\ a.L = <<>> /\ b.L = <<>> /\ Len(x) = Len(y) => ~Threw(c)
        /\ CrossRight(a, b, x, y)

\* Nothing to merge.
LEMMA MergeNone == Merge(<<>>) = <<>>
  <1>1. <<>> \in Seq(EdgeSet(0, 0)) /\ OneEdgePerPlace(<<>>) /\ Len(<<>>) = 0 /\ 0 \in Nat
    BY DEF OneEdgePerPlace
  <1>2. MergeRight(<<>>, 0, 0) /\ MergeKeeps(<<>>)
    BY <1>1, MergeFacts, MergeSame
  <1>3. PICK M : M = Merge(<<>>)
    OBVIOUS
  <1>4. M \in Seq(EdgeSet(0, 0)) /\ \A k \in 1..Len(M) : \E i \in 1..0 : TRUE
    BY <1>1, <1>2, <1>3, Zenon DEF MergeRight, MergeKeeps
  <1>5. Len(M) \in Nat
    BY <1>4
  <1>6. Len(M) = 0
    BY <1>4, <1>5
  <1> QED
    BY <1>3, <1>4, <1>6

\* A product with zero.
LEMMA TimesZero == ASSUME NEW p \in Nat, NEW q \in Nat, p = 0 \/ q = 0 PROVE p * q = 0
  OBVIOUS

\* A sum of naturals.
LEMMA PlusNat == ASSUME NEW p \in Nat, NEW q \in Nat PROVE p + q \in Nat
  OBVIOUS

\* For every two good operands one of which has no layer.
LEMMA MulBareFacts ==
    ASSUME NEW a, NEW b, Good(a), Good(b), a.slots = b.slots, a.L = <<>> \/ b.L = <<>>,
           NEW math \in BOOLEAN, NEW t \in Nat
    PROVE  MulBare(math, a, b, t)
  <1> DEFINE c == MulBuilt(a, b, t)
             J == JoinLayers(a.L, b.L)
             M == MulPairs(a, b)
             V == MulTargets(a, b)
             S == a.slots
             x == ConstOf(math, a)
             y == ConstOf(math, b)
             X == CrossTerms(a, b, x, y)
             r == Cipher(<<>>, X, VMul(x, y), S)
             m == CtMul(math, a, b, t)
  <1>1. /\ S \in Slots /\ S \in Nat /\ LayersOK(a.L, S) /\ LayersOK(b.L, S) /\ ShapeOK(a) /\ ShapeOK(b)
        /\ Len(a.L) \in Nat /\ Len(b.L) \in Nat
    BY ShapeParts DEF Good
  <1>2. JoinedLayers(a.L, b.L, S)
    BY <1>1, JoinLayersFacts
  <1>3. LayersOK(J, S)
    BY <1>2, Zenon DEF JoinedLayers
  <1>4. MulPairsRight(a, b)
    BY <1>1, MulPairsFacts
  <1>5. DOMAIN M = 1..0
    <2>1. Len(a.L) * Len(b.L) = 0
      <3>1. Len(a.L) = 0 \/ Len(b.L) = 0
        <4>1. Len(<<>>) = 0
          OBVIOUS
        <4> QED
          BY <4>1
      <3> QED
        BY <1>1, <3>1, TimesZero
    <2>2. PICK n : n = Len(a.L) * Len(b.L)
      OBVIOUS
    <2>3. DOMAIN M = 1..n
      BY <1>4, <2>2, Zenon DEF MulPairsRight
    <2>4. n = 0
      BY <2>1, <2>2, Zenon
    <2> QED
      BY <2>3, <2>4, Zenon
  <1> HIDE DEF M, V
  <1>6. NoProduct(J, S, M, V, t)
    BY <1>1, <1>3, <1>5, NoProductFacts
  <1>7. c = Bare(Zeros(S), S)
    BY <1>6 DEF NoProduct, MulBuilt, M, V
  <1>8. Zeros(S) \in Vec(S)
    BY <1>1, ModulusFacts DEF Zeros, Vec
  <1>9. c.L = <<>> /\ c.E = <<>> /\ c.slots = S /\ ~Threw(c) /\ c = Cipher(c.L, c.E, c.c0, c.slots)
    <2>1. /\ Good(Bare(Zeros(S), S)) /\ Bare(Zeros(S), S).slots = S /\ ~Threw(Bare(Zeros(S), S))
          /\ Bare(Zeros(S), S).L = <<>> /\ Bare(Zeros(S), S).E = <<>>
      BY <1>1, <1>8, BareGood DEF ConstOK
    <2>2. ShapeOK(Bare(Zeros(S), S))
      BY <2>1 DEF Good
    <2> HIDE DEF c
    <2>3. ShapeOK(c)
      BY <1>7, <2>2
    <2>4. c = Cipher(c.L, c.E, c.c0, c.slots)
      BY <2>3, ShapeParts
    <2> QED
      BY <1>7, <2>1, <2>4, Zenon
  <1> HIDE DEF c
  <1>10. ConstOK(x, S) /\ ConstOK(y, S)
    BY <1>1, ConstOfOK
  <1>11. CrossRight(a, b, x, y)
    BY <1>10, CrossFacts
  <1>12. EdgesOK(X, Len(a.L) + Len(b.L), S)
    BY <1>11, Zenon DEF CrossRight
  <1>15. ASSUME a.L = <<>>, b.L = <<>> PROVE X = <<>>
    <2>1. Len(a.L) + Len(b.L) = 0
      BY <1>15
    <2>2. EdgesOK(X, 0, S)
      BY <1>12, <2>1
    <2> QED
      BY <2>2, NoEdges
  <1> HIDE DEF x, y, X
  <1>16. m = IF Len(x) # Len(y) THEN NoCipher ELSE CompactLayers(GuardBudget(r))
    <2>1. PICK c0 : c0 = VMul(x, y)
      OBVIOUS
    <2>2. <<>> \o X = X
      <3>1. X \in Seq(EdgeSet(Len(a.L) + Len(b.L), S))
        BY <1>12 DEF EdgesOK
      <3>2. PICK T : X \in Seq(T)
        BY <3>1
      <3> QED
        BY <3>2
    <2>3. ReplaceRight(c, c.L, X, c0)
      BY <1>9, ReplaceFacts
    <2>4. [c EXCEPT !.E = X, !.c0 = c0] = r
      BY <1>9, <2>1, <2>3, Zenon DEF ReplaceRight
    <2>5. m = IF a.slots # b.slots THEN NoCipher
              ELSE IF Threw(c) \/ Len(x) # Len(y) THEN NoCipher
              ELSE CompactLayers(GuardBudget([c EXCEPT !.E = c.E \o X, !.c0 = c0]))
      BY <2>1, MulForm DEF c, X, x, y
    <2> QED
      BY <1>9, <2>2, <2>4, <2>5, Zenon
  <1>17. Threw(NoCipher)
    BY DEF Threw, NoCipher
  <1>18. ASSUME Len(x) = Len(y)
         PROVE  /\ ConstOK(VMul(x, y), S)
                /\ ~Threw(m) => m = Bare(VMul(x, y), S) /\ (X = <<>> \/ Merge(X) = <<>>)
                /\ X = <<>> => ~Threw(m)
    <2>1. ConstOK(VMul(x, y), S)
      BY <1>1, <1>10, <1>18, MulConst
    <2>2. PICK c0 : c0 = VMul(x, y)
      OBVIOUS
    <2>3. PICK d : d = GuardBudget(r)
      OBVIOUS
    <2>4. m = CompactLayers(d)
      BY <1>16, <1>18, <2>3, Zenon
    <2>5. d = Cipher(<<>>, d.E, c0, S) /\ d.L = <<>> /\ d.E \in {X, Merge(X)}
      <3>1. PartsRight(<<>>, X, c0, S) /\ PartsRight(<<>>, Merge(X), c0, S)
        BY PartsFacts
      <3>2. r.L = <<>> /\ r.E = X /\ r.c0 = c0 /\ r.slots = S
        BY <2>2, <3>1, Zenon DEF PartsRight
      <3>3. r = Cipher(r.L, r.E, r.c0, r.slots)
        BY <2>2, <3>2, Zenon
      <3>4. ReplaceRight(r, r.L, Merge(r.E), r.c0)
        BY <3>3, ReplaceFacts
      <3>5. CompactEdges(r) = Cipher(<<>>, Merge(X), c0, S)
        BY <3>2, <3>4, Zenon DEF CompactEdges, ReplaceRight
      <3>6. d = Cipher(<<>>, X, c0, S) \/ d = Cipher(<<>>, Merge(X), c0, S)
        BY <2>2, <2>3, <3>5, Zenon DEF GuardBudget
      <3> QED
        BY <3>1, <3>6, Zenon DEF PartsRight
    <2>6. IsSeq(d.E)
      <3>1. X \in Seq(EdgeSet(Len(a.L) + Len(b.L), S)) /\ Len(a.L) + Len(b.L) \in Nat
        <4>1. Len(a.L) + Len(b.L) \in Nat
          BY <1>1, PlusNat
        <4> QED
          BY <1>12, <4>1 DEF EdgesOK
      <3>2. MergeRight(X, Len(a.L) + Len(b.L), S)
        BY <1>1, <3>1, MergeFacts
      <3>3. Merge(X) \in Seq(EdgeSet(Len(a.L) + Len(b.L), S))
        BY <3>2 DEF MergeRight
      <3>4. IsSeq(X) /\ IsSeq(Merge(X))
        BY <3>1, <3>3, SeqIs
      <3> QED
        BY <2>5, <3>4
    <2>7. ASSUME d.E # <<>> PROVE Threw(m)
      <3>1. Len(d.E) # 0 /\ Len(d.E) \in Nat
        BY <2>6, <2>7, EmptySeq DEF IsSeq
      <3>2. 1 \in 1..Len(d.E) /\ Len(<<>>) = 0
        BY <3>1
      <3>3. d.E[1].lid \notin 1..Len(d.L)
        BY <2>5, <3>2
      <3>4. ~ValidCipherShape(d)
        BY <3>2, <3>3, Zenon DEF ValidCipherShape, EdgesPlaced
      <3>5. CompactLayers(d) = NoCipher
        BY <3>4, Zenon DEF CompactLayers
      <3> QED
        BY <1>17, <2>4, <3>5
    <2>8. ASSUME d.E = <<>> PROVE m = Bare(c0, S) /\ ~Threw(m)
      <3>1. d = Bare(c0, S)
        BY <2>5, <2>8 DEF Bare
      <3>2. Good(d) /\ d.c0 = c0 /\ d.slots = S /\ ~Threw(d)
        BY <1>1, <2>1, <2>2, <3>1, BareGood
      <3>3. CompactLayers(d) = Bare(c0, S)
        BY <2>8, <3>2, CompactNone DEF Good
      <3> QED
        BY <2>4, <3>1, <3>2, <3>3
    <2>9. X = <<>> => d.E = <<>>
      BY <2>5, MergeNone
    <2> QED
      BY <2>1, <2>2, <2>5, <2>7, <2>8, <2>9
  <1>20. ASSUME Len(x) # Len(y) PROVE Threw(m)
    BY <1>16, <1>17, <1>20, Zenon
  <1> QED
    BY <1>11, <1>15, <1>18, <1>20, Zenon DEF MulBare, X, x, y

\* For every two good operands, by either rule.
LEMMA MulFacts ==
    ASSUME NEW a, NEW b, Good(a), Good(b), NEW math \in BOOLEAN, NEW t \in Nat
    PROVE  MulDone(math, a, b, t)
  <1> DEFINE c == CtMul(math, a, b, t)
             x == ConstOf(math, a)
             y == ConstOf(math, b)
  <1>1. Threw(NoCipher)
    BY DEF Threw, NoCipher
  <1>2. CASE a.slots # b.slots
    <2>1. c = NoCipher
      BY <1>2, Zenon DEF CtMul
    <2> QED
      BY <1>1, <1>2, <2>1 DEF MulDone
  <1>3. CASE a.slots = b.slots /\ a.L # <<>> /\ b.L # <<>>
    <2>1. MulMade(math, a, b, t)
      BY <1>3, MulMadeFacts
    <2>2. CASE Len(x) = Len(y)
      <3>1. PICK r : r = MulRaw(math, a, b, t)
        OBVIOUS
      <3>2. /\ Good(r) /\ r.slots = a.slots /\ MulDepth(r) = Max({MulDepth(a), MulDepth(b)}) + 1
            /\ c = CompactLayers(GuardBudget(r))
        BY <2>1, <2>2, <3>1, Zenon DEF MulMade
      <3>3. Alike(r, GuardBudget(r))
        BY <3>2, CompactAlike
      <3>4. Alike(GuardBudget(r), c)
        BY <3>2, <3>3, CompactAlike DEF Alike
      <3>5. Good(c) /\ c.slots = a.slots /\ ~Threw(c) /\ MulDepth(c) = Max({MulDepth(a), MulDepth(b)}) + 1
        BY <3>2, <3>3, <3>4 DEF Alike
      <3> QED
        BY <1>3, <3>5, Zenon DEF MulDone
    <2>3. CASE Len(x) # Len(y)
      <3>1. c = NoCipher
        BY <1>3, <2>3, MulForm, Zenon
      <3>2. ~math /\ ((a.c0 = <<>>) # (b.c0 = <<>>))
        BY <1>3, <2>3, ConstLengths DEF Good
      <3> QED
        BY <1>1, <3>1, <3>2 DEF MulDone
    <2> QED
      BY <2>2, <2>3
  <1>4. CASE a.slots = b.slots /\ (a.L = <<>> \/ b.L = <<>>)
    <2>1. MulBare(math, a, b, t)
      BY <1>4, MulBareFacts
    <2>2. ASSUME ~Threw(c) PROVE Good(c) /\ c.slots = a.slots /\ MulDepth(c) = 0
      <3>1. PICK c0 : c0 = VMul(x, y)
        OBVIOUS
      <3>2. c = Bare(c0, a.slots) /\ ConstOK(c0, a.slots)
        BY <2>1, <2>2, <3>1, Zenon DEF MulBare
      <3>3. a.slots \in Slots
        BY ShapeParts DEF Good
      <3> QED
        BY <3>2, <3>3, BareGood
    <2>3. ASSUME Threw(c)
          PROVE  (~math /\ ((a.c0 = <<>>) # (b.c0 = <<>>))) \/ (a.L = <<>>) # (b.L = <<>>)
      <3>1. Len(x) = Len(y) => ~(a.L = <<>> /\ b.L = <<>>)
        BY <2>1, <2>3, Zenon DEF MulBare
      <3>2. Len(x) # Len(y) => ~math /\ ((a.c0 = <<>>) # (b.c0 = <<>>))
        BY <1>4, ConstLengths DEF Good
      <3> QED
        BY <1>4, <3>1, <3>2
    <2> QED
      BY <1>4, <2>2, <2>3 DEF MulDone
  <1> QED
    BY <1>2, <1>3, <1>4

-----------------------------------------------------------------------------
(* ct_square *)

\* The pairs of layers that ct_square takes.
SqOwn(a) == {k \in DOMAIN LP(a, a) : LP(a, a)[k][1] <= LP(a, a)[k][2]}

\* These pairs in order.
SqPairs(a) == Chosen(LP(a, a), SqOwn(a))

\* What the edges of the pairs' products add up to.
SqTargets(a) == [k \in DOMAIN SqPairs(a) |-> SquareTarget(FoldEdges(a), SqPairs(a)[k])]

\* The square without the constant.
SqBuilt(a, t) == BuildProduct(a.L, a.slots, SqPairs(a), SqTargets(a), t)

\* Twice the constant times the operand's edges.
SqCross(math, a) == ScaledEdges(a.E, VAdd(ConstOf(math, a), ConstOf(math, a)), 0)

\* ct_square in these parts.
LEMMA SqForm ==
    ASSUME NEW math, NEW a, NEW t
    PROVE  CtSquare(math, a, t) =
           IF Threw(SqBuilt(a, t)) THEN NoCipher
           ELSE CompactLayers(GuardBudget(
                    [SqBuilt(a, t) EXCEPT !.E = SqBuilt(a, t).E \o SqCross(math, a),
                                          !.c0 = VMul(ConstOf(math, a), ConstOf(math, a))]))
  BY Zenon DEF CtSquare, SqBuilt, SqPairs, SqTargets, SqCross, SqOwn, LP

\* The square before its last compaction.
SqRaw(math, a, t) ==
    Cipher(SqBuilt(a, t).L, SqBuilt(a, t).E \o SqCross(math, a),
           VMul(ConstOf(math, a), ConstOf(math, a)), a.slots)

\* The pairs are of the operand's layers, and cover them.
SqPairsRight(a) ==
    LET N == Len(a.L)
        n == Cardinality(SqOwn(a))
    IN  /\ SqOwn(a) \in SUBSET (1..(N * N)) /\ N * N \in Nat
        /\ n \in Nat /\ DOMAIN SqPairs(a) = 1..n /\ DOMAIN SqTargets(a) = 1..n
        /\ \A k \in 1..n : /\ SqPairs(a)[k][1] \in 1..N /\ SqPairs(a)[k][2] \in 1..N
                           /\ SqTargets(a)[k] = SquareTarget(FoldEdges(a), SqPairs(a)[k])
                           /\ SqTargets(a)[k] \in Vec(a.slots)
                           /\ SqPairs(a)[k] = LP(a, a)[KeptAt(SqOwn(a), k)]
        /\ Covers(SqPairs(a), n, N)

\* For every well-formed operand.
LEMMA SqPairsFacts == ASSUME NEW a, ShapeOK(a) PROVE SqPairsRight(a)
  <1> DEFINE N == Len(a.L)
             O == SqOwn(a)
             n == Cardinality(O)
             Q == LP(a, a)
             M == SqPairs(a)
             V == SqTargets(a)
             S == a.slots
  <1>1. N \in Nat /\ S \in Nat
    BY ShapeParts
  <1>2. PairsRight(N, N)
    BY <1>1, PairsFacts
  <1>3. /\ N * N \in Nat /\ DOMAIN Q = 1..(N * N)
        /\ \A k \in 1..(N * N) : Q[k][1] \in 1..N /\ Q[k][2] \in 1..N
        /\ \A i \in 1..N, j \in 1..N :
               (i - 1) * N + j \in 1..(N * N) /\ Q[(i - 1) * N + j] = <<i, j>>
    BY <1>2, Zenon DEF PairsRight, LP
  <1>4. O \in SUBSET (1..(N * N)) /\ \A k \in 1..(N * N) : k \in O <=> Q[k][1] <= Q[k][2]
    BY <1>3, Zenon DEF SqOwn
  <1> HIDE DEF O, Q
  <1>5. Places(O)
    BY <1>3, <1>4 DEF Places
  <1>6. KeptRight(O) /\ ChosenRight(Q, O)
    BY <1>5, KeptFacts, ChosenFacts
  <1>7. /\ n \in Nat /\ DOMAIN M = 1..n
        /\ \A k \in 1..n : M[k] = Q[KeptAt(O, k)] /\ KeptAt(O, k) \in O
        /\ \A i \in O : Remap(O, i) \in 1..n /\ M[Remap(O, i)] = Q[i]
    BY <1>6, Zenon DEF KeptRight, ChosenRight, SqPairs, O, Q
  <1>8. DOMAIN V = 1..n /\ \A k \in 1..n : V[k] = SquareTarget(FoldEdges(a), M[k])
    BY <1>7, Zenon DEF SqTargets
  <1> HIDE DEF M, V, n
  <1>9. ASSUME NEW k \in 1..n PROVE M[k][1] \in 1..N /\ M[k][2] \in 1..N
    BY <1>3, <1>4, <1>7
  <1>10. ASSUME NEW k \in 1..n PROVE V[k] \in Vec(S)
    <2>1. FoldsRight(a)
      BY FoldFacts
    <2>2. FoldEdges(a)[M[k][1]] \in Vec(S) /\ FoldEdges(a)[M[k][2]] \in Vec(S)
      BY <1>9, <2>1 DEF FoldsRight
    <2>3. 0 \in Int
      OBVIOUS
    <2>4. PICK p \in Vec(S) : p = VMul(FoldEdges(a)[M[k][1]], FoldEdges(a)[M[k][2]])
      BY <1>1, <2>2, <2>3, VecOps
    <2>5. VAdd(p, p) \in Vec(S)
      BY <1>1, <2>3, VecOps
    <2> QED
      BY <1>8, <2>4, <2>5, Zenon DEF SquareTarget
  <1>11. Covers(M, n, N)
    <2>1. ASSUME NEW i \in 1..N PROVE \E k \in 1..n : i \in {M[k][1], M[k][2]}
      <3>1. PICK l \in 1..(N * N) : Q[l] = <<i, i>>
        BY <1>3
      <3>2. Q[l][1] = i /\ Q[l][2] = i /\ i <= i
        BY <1>1, <3>1
      <3>3. l \in O
        BY <1>4, <3>2
      <3>4. Remap(O, l) \in 1..n /\ M[Remap(O, l)] = Q[l]
        BY <1>7, <3>3
      <3> QED
        BY <3>2, <3>4
    <2> QED
      BY <2>1, Zenon DEF Covers
  <1> QED
    BY <1>3, <1>4, <1>7, <1>8, <1>9, <1>10, <1>11, Zenon DEF SqPairsRight, M, V, n, O, Q

\* The square is a good ciphertext, one deeper than a secret operand.
SqMade(math, a, t) ==
    LET c == SqBuilt(a, t)
        n == Cardinality(SqOwn(a))
        r == SqRaw(math, a, t)
    IN  /\ ProductRight(a.L, a.slots, SqPairs(a), SqTargets(a), t, n)
        /\ c.L = a.L \o NewLayers(a.L, SqPairs(a), n) /\ ~Threw(c)
        /\ ProductLayers(a.L, SqPairs(a), n, a.slots)
        /\ ScaledRight(a.E, VAdd(ConstOf(math, a), ConstOf(math, a)), 0, Len(a.L), a.slots)
        /\ Good(r) /\ r.slots = a.slots
        /\ MulDepth(r) = IF a.L = <<>> THEN 0 ELSE MulDepth(a) + 1
        /\ CtSquare(math, a, t) = CompactLayers(GuardBudget(r))

\* For every good operand.
LEMMA SqMadeFacts ==
    ASSUME NEW a, Good(a), NEW math \in BOOLEAN, NEW t \in Nat
    PROVE  SqMade(math, a, t)
  <1> DEFINE c == SqBuilt(a, t)
             n == Cardinality(SqOwn(a))
             M == SqPairs(a)
             V == SqTargets(a)
             S == a.slots
             N == Len(a.L)
             x == ConstOf(math, a)
             y == VAdd(x, x)
             r == SqRaw(math, a, t)
             X == SqCross(math, a)
  <1>1. /\ S \in Slots /\ S \in Nat /\ LayersOK(a.L, S) /\ ShapeOK(a) /\ IsSeq(a.L) /\ N \in Nat
        /\ EdgesOK(a.E, N, S) /\ \A k \in 1..Len(a.E) : a.E[k].lid \in 1..N
    BY ShapeParts DEF Good
  <1>2. SqPairsRight(a)
    BY <1>1, SqPairsFacts
  <1>3. /\ n \in Nat /\ DOMAIN M = 1..n /\ \A k \in 1..n : M[k][1] \in 1..N /\ M[k][2] \in 1..N
        /\ (\A k \in 1..n : V[k] \in Vec(S)) /\ Covers(M, n, N)
    BY <1>2, Zenon DEF SqPairsRight
  <1> HIDE DEF M, V, n
  <1>4. ProductRight(a.L, S, M, V, t, n)
    BY <1>1, <1>3, ProductFacts
  <1>5. ProductLayers(a.L, M, n, S)
    BY <1>1, <1>3, ProductLayersFacts
  <1>6. /\ c = Cipher(a.L \o NewLayers(a.L, M, n), c.E, Zeros(S), S) /\ ShapeOK(c)
        /\ NewEdges(c.E, N, n, N + n, S)
    BY <1>4, Zenon DEF ProductRight, SqBuilt, M, V
  <1>7. c.L = a.L \o NewLayers(a.L, M, n) /\ c.slots = S /\ ~Threw(c)
    <2>1. PartsRight(a.L \o NewLayers(a.L, M, n), c.E, Zeros(S), S)
      BY PartsFacts
    <2>2. c.L = a.L \o NewLayers(a.L, M, n) /\ c.slots = S
      BY <1>6, <2>1, Zenon DEF PartsRight
    <2> QED
      BY <1>6, <2>2, ShapeFits
  <1> HIDE DEF c
  <1>8. ConstOK(x, S)
    BY <1>1, ConstOfOK
  <1>9. ConstOK(VMul(x, x), S)
    BY <1>1, <1>8, MulConst
  <1>10. ConstOK(y, S)
    <2> HIDE DEF x
    <2>1. CASE x = <<>>
      BY <2>1 DEF VAdd, ConstOK
    <2>2. CASE x # <<>>
      <3>1. x \in Vec(S) /\ 0 \in Int
        BY <1>8, <2>2 DEF ConstOK
      <3> QED
        BY <1>1, <3>1, VecOps DEF ConstOK
    <2> QED
      BY <2>1, <2>2
  <1>11. ScaledRight(a.E, y, 0, N, S)
    <2>1. N + 0 <= N /\ 0 \in Nat
      BY <1>1
    <2> QED
      BY <1>1, <1>10, <2>1, ScaledFacts
  <1> HIDE DEF x, y
  <1>12. /\ EdgesOK(X, N, S)
         /\ \A k \in 1..Len(X) : k \in 1..Len(a.E) /\ X[k].lid = a.E[k].lid + 0 /\ X[k].s = a.E[k].s
    BY <1>11, Zenon DEF ScaledRight, SqCross, x, y
  <1>13. \A k \in 1..Len(X) : IsProd(a.L[X[k].lid]) => X[k].s # {}
    <2>1. \A i \in 1..N : i + 0 = i
      BY <1>1
    <2>2. \A k \in 1..Len(X) : k \in 1..Len(a.E) /\ X[k].lid = a.E[k].lid /\ X[k].s = a.E[k].s
      BY <1>1, <1>12, <2>1
    <2> QED
      BY <2>2, Zenon DEF Good, Needed
  <1> HIDE DEF X
  <1>14. PICK c0 : c0 = VMul(x, x)
    OBVIOUS
  <1>15. TopUp(a.L, M, n, c.E, X, c0, S)
    BY <1>1, <1>3, <1>6, <1>9, <1>12, <1>13, <1>14, TopUpGood DEF x
  <1>16. r = Cipher(c.L, c.E \o X, c0, S)
    BY <1>14 DEF SqRaw, c, X, x
  <1>17. Good(r)
    BY <1>7, <1>15, <1>16 DEF TopUp
  <1>18. PartsRight(c.L, c.E \o X, c0, S)
    BY PartsFacts
  <1>19. r.L = a.L \o NewLayers(a.L, M, n) /\ r.slots = S
    BY <1>7, <1>16, <1>18, Zenon DEF PartsRight
  <1> HIDE DEF r
  <1>20. ASSUME a.L # <<>> PROVE MulDepth(r) = MulDepth(a) + 1
    <2>1. N >= 1
      BY <1>1, <1>20, EmptySeq
    <2>2. DepthGrows(a, r, M, n, S)
      BY <1>1, <1>3, <1>19, <2>1, DepthProduct
    <2> QED
      BY <2>2 DEF DepthGrows
  <1>21. ASSUME a.L = <<>> PROVE MulDepth(r) = 0
    <2>1. N = 0
      BY <1>21
    <2>2. n = 0
      <3>1. CASE n # 0
        <4>1. 1 \in 1..n
          BY <1>3, <3>1
        <4>2. M[1][1] \in 1..N
          BY <1>3, <4>1
        <4> QED
          BY <2>1, <4>2
      <3> QED
        BY <3>1
    <2>3. LayersOK(r.L, S) /\ Len(r.L) = N + n
      BY <1>5, <1>19, Zenon DEF ProductLayers
    <2>4. Len(r.L) = 0
      <3>1. N + n = 0
        <4> HIDE DEF N
        <4> QED
          BY <2>1, <2>2
      <3> QED
        BY <2>3, <3>1
    <2>5. \A i \in 1..Len(r.L) : ~IsProd(r.L[i])
      BY <2>4
    <2> QED
      BY <2>3, <2>5, DepthBase
  <1>22. CtSquare(math, a, t) = CompactLayers(GuardBudget(r))
    <2>1. ReplaceRight(c, c.L, c.E \o X, c0)
      <3>1. c = Cipher(c.L, c.E, c.c0, c.slots)
        BY <1>6, ShapeParts
      <3> QED
        BY <3>1, ReplaceFacts
    <2>2. [c EXCEPT !.E = c.E \o X, !.c0 = c0] = r
      BY <1>7, <1>16, <2>1, Zenon DEF ReplaceRight
    <2>3. CtSquare(math, a, t) =
              IF Threw(c) THEN NoCipher
              ELSE CompactLayers(GuardBudget([c EXCEPT !.E = c.E \o X, !.c0 = c0]))
      BY <1>14, SqForm DEF c, X, x
    <2> QED
      BY <1>7, <2>2, <2>3, Zenon
  <1>23. MulDepth(r) = IF a.L = <<>> THEN 0 ELSE MulDepth(a) + 1
    BY <1>20, <1>21
  <1> QED
    BY <1>4, <1>5, <1>7, <1>11, <1>17, <1>19, <1>22, <1>23, Zenon
       DEF SqMade, c, M, V, n, r, x, y

\* ct_square never throws.
SquareRight(math, a, t) ==
    LET c == CtSquare(math, a, t)
    IN  /\ Good(c) /\ c.slots = a.slots /\ ~Threw(c)
        /\ MulDepth(c) = IF a.L = <<>> THEN 0 ELSE MulDepth(a) + 1

\* For every good operand, by either rule.
LEMMA SquareFacts ==
    ASSUME NEW a, Good(a), NEW math \in BOOLEAN, NEW t \in Nat
    PROVE  SquareRight(math, a, t)
  <1> DEFINE c == CtSquare(math, a, t)
  <1>1. SqMade(math, a, t)
    BY SqMadeFacts
  <1>2. PICK r : r = SqRaw(math, a, t)
    OBVIOUS
  <1>3. /\ Good(r) /\ r.slots = a.slots /\ MulDepth(r) = IF a.L = <<>> THEN 0 ELSE MulDepth(a) + 1
        /\ c = CompactLayers(GuardBudget(r))
    BY <1>1, <1>2, Zenon DEF SqMade
  <1>4. Alike(r, GuardBudget(r))
    BY <1>3, CompactAlike
  <1>5. Alike(GuardBudget(r), c)
    BY <1>3, <1>4, CompactAlike DEF Alike
  <1>6. Good(c) /\ c.slots = a.slots /\ ~Threw(c) /\ MulDepth(c) = MulDepth(r)
    BY <1>3, <1>4, <1>5 DEF Alike
  <1> QED
    BY <1>3, <1>6, Zenon DEF SquareRight

-----------------------------------------------------------------------------
(* Recryption *)

\* The rounds of recryption.
Count == [n \in 1..RecryptRounds |-> n]

\* A round, where one is needed.
RoundStep(t, c, n) ==
    IF Threw(c) \/ ~NeedsBalance(c) THEN c ELSE RecryptRound(c, ZeroPool[DrawPoolIdx(t, n, 2)])

\* All the rounds.
Rounds(a, t) ==
    FoldLeft(LAMBDA c, n : IF Threw(c) \/ ~NeedsBalance(c) THEN c
                           ELSE RecryptRound(c, ZeroPool[DrawPoolIdx(t, n, 2)]),
             a, [n \in 1..RecryptRounds |-> n])

\* The table of the rounds.
RoundFold(g, a, t, n) ==
    g = [s \in SUBSET (1..n) |->
            IF s = {} THEN a ELSE RoundStep(t, g[s \ {Max(s)}], Count[Max(s)])]

\* Such a table exists: a table for one more place extends the one before.
LEMMA RoundFoldExists ==
    ASSUME NEW a, NEW t, NEW n \in Nat
    PROVE  \E g : RoundFold(g, a, t, n)
  <1> DEFINE T == {m \in Nat : \E g : RoundFold(g, a, t, m)}
  <1>1. 0 \in T
    <2> DEFINE g == [s \in SUBSET (1..0) |-> a]
    <2>1. \A s \in SUBSET (1..0) : s = {}
      OBVIOUS
    <2>2. g = [s \in SUBSET (1..0) |->
                  IF s = {} THEN a ELSE RoundStep(t, g[s \ {Max(s)}], Count[Max(s)])]
      BY <2>1, Zenon
    <2> QED
      BY <2>2 DEF RoundFold
  <1>2. ASSUME NEW m \in T PROVE m + 1 \in T
    <2>1. PICK g : RoundFold(g, a, t, m)
      OBVIOUS
    <2> DEFINE h == [s \in SUBSET (1..(m + 1)) |->
                       IF m + 1 \in s THEN RoundStep(t, g[s \ {m + 1}], Count[m + 1]) ELSE g[s]]
    <2>2. m \in Nat /\ m + 1 \in Nat
      OBVIOUS
    <2>3. ASSUME NEW s \in SUBSET (1..(m + 1))
          PROVE  h[s] = IF s = {} THEN a ELSE RoundStep(t, h[s \ {Max(s)}], Count[Max(s)])
      <3>1. CASE m + 1 \in s
        <4>1. Max(s) = m + 1
          BY <2>2, <3>1, MaxTop
        <4>2. s \ {m + 1} \in SUBSET (1..(m + 1)) /\ m + 1 \notin s \ {m + 1}
          OBVIOUS
        <4>3. h[s \ {m + 1}] = g[s \ {m + 1}]
          BY <4>2, Zenon
        <4>4. h[s] = RoundStep(t, g[s \ {m + 1}], Count[m + 1])
          BY <3>1, Zenon
        <4> HIDE DEF h
        <4> QED
          BY <3>1, <4>1, <4>3, <4>4, Zenon
      <3>2. CASE m + 1 \notin s
        <4>1. s \in SUBSET (1..m)
          BY <2>2, <3>2
        <4>2. h[s] = g[s]
          BY <3>2, Zenon
        <4>3. h[s \ {Max(s)}] = g[s \ {Max(s)}]
          <5>1. s \ {Max(s)} \in SUBSET (1..(m + 1)) /\ m + 1 \notin s \ {Max(s)}
            BY <3>2
          <5> QED
            BY <5>1, Zenon
        <4>4. g[s] = IF s = {} THEN a ELSE RoundStep(t, g[s \ {Max(s)}], Count[Max(s)])
          BY <2>1, <4>1, Zenon DEF RoundFold
        <4> HIDE DEF h
        <4> QED
          BY <4>2, <4>3, <4>4, Zenon
      <3> QED
        BY <3>1, <3>2
    <2>4. h = [s \in SUBSET (1..(m + 1)) |-> h[s]]
      BY Zenon
    <2> HIDE DEF h
    <2>5. RoundFold(h, a, t, m + 1)
      <3>1. [s \in SUBSET (1..(m + 1)) |-> h[s]]
            = [s \in SUBSET (1..(m + 1)) |->
                  IF s = {} THEN a ELSE RoundStep(t, h[s \ {Max(s)}], Count[Max(s)])]
        BY <2>3, Zenon
      <3> QED
        BY <2>4, <3>1, Zenon DEF RoundFold
    <2> QED
      BY <2>2, <2>5
  <1>3. T = Nat
    <2>1. T \in SUBSET Nat
      OBVIOUS
    <2> HIDE DEF T
    <2> QED
      BY <1>1, <1>2, <2>1, Climb
  <1> QED
    BY <1>3

\* The table read along the prefixes.
RoundTable(f, a, t, n) ==
    f[0] = a /\ \A k \in 1..n : f[k] = RoundStep(t, f[k - 1], Count[k])

\* The rounds are the last entry of that table.
LEMMA RoundSteps ==
    ASSUME NEW a, NEW t, NEW n \in Nat, DOMAIN Count = 1..n
    PROVE  \E f : RoundTable(f, a, t, n) /\ Rounds(a, t) = f[n]
  <1> DEFINE g == CHOOSE g : RoundFold(g, a, t, n)
             f == [k \in 0..n |-> g[1..k]]
  <1>1. RoundFold(g, a, t, n)
    BY RoundFoldExists, Zenon
  <1>2. Rounds(a, t) = g[1..n]
    BY <1>1, Zenon DEF RoundFold, Rounds, RoundStep, Count, FoldLeft, MapThenFoldSet
  <1> HIDE DEF g
  <1>3. ASSUME NEW k \in 1..n PROVE g[1..k] = RoundStep(t, g[1..(k - 1)], Count[k])
    <2>1. 1..k \in SUBSET (1..n) /\ 1..k # {} /\ (1..k) \ {k} = 1..(k - 1)
      OBVIOUS
    <2>2. Max(1..k) = k
      BY MaxTop
    <2>3. g[1..k] = RoundStep(t, g[(1..k) \ {Max(1..k)}], Count[Max(1..k)])
      BY <1>1, <2>1, Zenon DEF RoundFold
    <2> QED
      BY <2>1, <2>2, <2>3, Zenon
  <1>4. g[1..0] = a
    <2>1. 1..0 = {} /\ 1..0 \in SUBSET (1..n)
      OBVIOUS
    <2> QED
      BY <1>1, <2>1, Zenon DEF RoundFold
  <1>5. f[0] = a /\ f[n] = Rounds(a, t)
    BY <1>2, <1>4
  <1>6. ASSUME NEW k \in 1..n PROVE f[k] = RoundStep(t, f[k - 1], Count[k])
    <2>1. k \in 0..n /\ k - 1 \in 0..n
      OBVIOUS
    <2>2. f[k] = g[1..k] /\ f[k - 1] = g[1..(k - 1)]
      BY <2>1
    <2> HIDE DEF f
    <2> QED
      BY <1>3, <2>2, Zenon
  <1> HIDE DEF f
  <1> QED
    BY <1>5, <1>6, Zenon DEF RoundTable

\* ubk_apply moves bits only.
UbkRight(c) ==
    /\ UbkApply(c) = Cipher(c.L, UbkEdges(c.E), c.c0, c.slots)
    /\ SamePlaces(c.E, UbkEdges(c.E), Len(c.L), c.slots)
    /\ \A k \in 1..Len(c.E) : UbkEdges(c.E)[k].w = c.E[k].w
    /\ Alike(c, UbkApply(c))

\* For every good ciphertext.
LEMMA UbkFacts == ASSUME NEW c, Good(c) PROVE UbkRight(c)
  <1> DEFINE F == UbkEdges(c.E)
             S == c.slots
             m == Len(c.L)
  <1>1. /\ c = Cipher(c.L, c.E, c.c0, S) /\ S \in Nat /\ ConstOK(c.c0, S) /\ Len(c.E) \in Nat
        /\ DOMAIN c.E = 1..Len(c.E) /\ \A k \in 1..Len(c.E) : c.E[k] \in EdgeSet(m, S)
    BY ShapeParts DEF Good
  <1>2. UbkApply(c) = Cipher(c.L, F, c.c0, S)
    <2>1. ReplaceRight(c, c.L, F, c.c0)
      BY <1>1, ReplaceFacts
    <2>2. UbkApply(c) = [c EXCEPT !.E = F]
      BY Zenon DEF UbkApply
    <2> QED
      BY <2>1, <2>2, Zenon DEF ReplaceRight
  <1>3. /\ F = [k \in 1..Len(c.E) |-> F[k]]
        /\ \A k \in 1..Len(c.E) : F[k] = [c.E[k] EXCEPT !.s = {3 - b : b \in c.E[k].s}]
    BY <1>1, Zenon DEF UbkEdges
  <1> HIDE DEF F
  <1>4. IsSeq(F) /\ Len(F) = Len(c.E)
    BY <1>1, <1>3, FnSeq
  <1>5. ASSUME NEW k \in 1..Len(c.E)
        PROVE  /\ F[k] \in EdgeSet(m, S) /\ F[k].lid = c.E[k].lid /\ F[k].idx = c.E[k].idx
               /\ F[k].ch = c.E[k].ch /\ F[k].w = c.E[k].w /\ (c.E[k].s # {} => F[k].s # {})
    <2>1. c.E[k].s \in SUBSET SigmaBits
      BY <1>1 DEF EdgeSet
    <2>2. PICK b : b = {3 - x : x \in c.E[k].s}
      OBVIOUS
    <2>3. b \in SUBSET SigmaBits /\ (c.E[k].s # {} => b # {})
      BY <2>1, <2>2 DEF SigmaBits
    <2>4. BitsRight(c.E[k], b, m, S)
      BY <1>1, <2>3, BitsFacts
    <2> QED
      BY <1>3, <2>2, <2>3, <2>4, Zenon DEF BitsRight
  <1>6. SamePlaces(c.E, F, m, S)
    BY <1>4, <1>5, Zenon DEF SamePlaces
  <1>7. Alike(c, Cipher(c.L, F, c.c0, S))
    BY <1>1, <1>6, SamePlacesGood
  <1> QED
    BY <1>2, <1>5, <1>6, <1>7 DEF UbkRight, F

\* A round: the slots of the key's zeros are one.
RoundRight(c, z) ==
    LET d == RecryptRound(c, z)
        sum == CtAdd(c, z)
    IN  IF c.slots = 1 THEN /\ Alike(c, d) /\ Good(sum) /\ sum.slots = 1
                            /\ d = GuardBudget(UbkApply(sum)) /\ Alike(sum, UbkApply(sum))
        ELSE Threw(d)

\* For every good ciphertext and fresh zero.
LEMMA RoundFacts ==
    ASSUME NEW c, Good(c), NEW z, FreshRight(z, 1)
    PROVE  RoundRight(c, z)
  <1> DEFINE sum == CtAdd(c, z)
             u == UbkApply(sum)
             d == RecryptRound(c, z)
  <1>1. Good(z) /\ z.slots = 1 /\ MulDepth(z) = 0
    BY DEF FreshRight
  <1>2. Threw(NoCipher)
    BY DEF Threw, NoCipher
  <1>3. d = IF Threw(sum) THEN NoCipher ELSE GuardBudget(u)
    BY Zenon DEF RecryptRound
  <1>4. ASSUME c.slots = 1
        PROVE  Alike(c, d) /\ Good(sum) /\ sum.slots = 1 /\ d = GuardBudget(u) /\ Alike(sum, u)
    <2>1. c.slots = z.slots
      BY <1>1, <1>4
    <2>2. /\ Good(sum) /\ sum.slots = 1 /\ ~Threw(sum)
          /\ MulDepth(sum) = Max({MulDepth(c), MulDepth(z)})
      BY <1>1, <1>4, <2>1, AddGood
    <2>3. MulDepth(c) \in Nat
      <3>1. LayersOK(c.L, c.slots)
        BY ShapeParts DEF Good
      <3>2. PICK e : Deep(c.L, e, MulDepth(c))
        BY <3>1, DeepIs
      <3> QED
        BY <3>2 DEF Deep
    <2>4. PICK x : x = MulDepth(c)
      OBVIOUS
    <2>5. Max({x, 0}) = x
      BY <2>3, <2>4, MaxTwo
    <2>6. MulDepth(sum) = MulDepth(c)
      BY <1>1, <2>2, <2>4, <2>5
    <2> HIDE DEF sum
    <2>7. Alike(sum, u)
      BY <2>2, UbkFacts DEF UbkRight
    <2> HIDE DEF u
    <2>8. Alike(u, GuardBudget(u))
      BY <2>7, CompactAlike DEF Alike
    <2>9. d = GuardBudget(u)
      BY <1>3, <2>2, Zenon
    <2> QED
      BY <1>4, <2>2, <2>6, <2>7, <2>8, <2>9 DEF Alike
  <1>5. ASSUME c.slots # 1 PROVE Threw(d)
    <2>1. sum = NoCipher
      BY <1>1, <1>5, Zenon DEF CtAdd
    <2> QED
      BY <1>2, <1>3, <2>1
  <1> QED
    BY <1>4, <1>5, Zenon DEF RoundRight

\* The round a tape draws a zero for.
LEMMA PoolIdx ==
    ASSUME NEW t \in Nat, NEW n \in Nat
    PROVE  FreshRight(ZeroPool[DrawPoolIdx(t, n, 2)], 1)
  <1>1. DrawPoolIdx(t, n, 2) \in 1..2
    BY DEF DrawPoolIdx
  <1> QED
    BY <1>1, ZeroPoolFacts

\* recrypt: the ciphertext stands for the operand, or the slots do not fit.
Recrypted(a, c) == (Threw(c) /\ a.slots # 1) \/ Alike(a, c)

\* A round keeps it so.
LEMMA StepRecrypted ==
    ASSUME NEW a, NEW c, Recrypted(a, c), NEW t \in Nat, NEW n \in Nat
    PROVE  Recrypted(a, RoundStep(t, c, n))
  <1> DEFINE z == ZeroPool[DrawPoolIdx(t, n, 2)]
             d == RecryptRound(c, z)
  <1>1. FreshRight(z, 1)
    BY PoolIdx
  <1> HIDE DEF z
  <1>2. RoundStep(t, c, n) = IF Threw(c) \/ ~NeedsBalance(c) THEN c ELSE d
    BY Zenon DEF RoundStep, z
  <1>3. ASSUME ~Threw(c) PROVE Recrypted(a, d)
    <2>1. Alike(a, c)
      BY <1>3 DEF Recrypted
    <2>2. RoundRight(c, z)
      BY <1>1, <2>1, RoundFacts DEF Alike
    <2>3. c.slots = a.slots
      BY <2>1 DEF Alike
    <2>4. CASE c.slots = 1
      <3>1. Alike(c, d)
        BY <2>2, <2>4, Zenon DEF RoundRight
      <3> QED
        BY <2>1, <3>1 DEF Alike, Recrypted
    <2>5. CASE c.slots # 1
      <3>1. Threw(d)
        BY <2>2, <2>5, Zenon DEF RoundRight
      <3> QED
        BY <2>3, <2>5, <3>1 DEF Recrypted
    <2> QED
      BY <2>4, <2>5
  <1> QED
    BY <1>2, <1>3, Zenon

\* The rounds are numbered from 1.
LEMMA CountFacts ==
    /\ RecryptRounds \in Nat /\ DOMAIN Count = 1..RecryptRounds
    /\ \A k \in 1..RecryptRounds : Count[k] = k /\ k \in Nat
  <1>1. RecryptRounds \in Nat
    BY BoundAssumption
  <1> QED
    BY <1>1 DEF Count

\* So do all the rounds.
LEMMA RoundsRecrypted ==
    ASSUME NEW a, Good(a), NEW t \in Nat
    PROVE  Recrypted(a, Rounds(a, t))
  <1> DEFINE n == RecryptRounds
  <1>1. PICK f : RoundTable(f, a, t, n) /\ Rounds(a, t) = f[n]
    BY CountFacts, RoundSteps
  <1>2. f[0] = a /\ \A k \in 1..n : f[k] = RoundStep(t, f[k - 1], Count[k])
    BY <1>1, Zenon DEF RoundTable
  <1> DEFINE T == {k \in Nat : k <= n => Recrypted(a, f[k])}
  <1>3. 0 \in T
    <2>1. Alike(a, a)
      BY CompactAlike
    <2> QED
      BY <1>2, <2>1 DEF Recrypted
  <1>4. ASSUME NEW k \in T PROVE k + 1 \in T
    <2>1. k \in Nat /\ k + 1 \in Nat
      OBVIOUS
    <2>2. ASSUME k + 1 <= n PROVE Recrypted(a, f[k + 1])
      <3>1. k <= n /\ k + 1 \in 1..n /\ (k + 1) - 1 = k
        BY <2>1, <2>2, CountFacts
      <3>2. Recrypted(a, f[k]) /\ f[k + 1] = RoundStep(t, f[k], k + 1)
        BY <1>2, <3>1, CountFacts
      <3> QED
        BY <2>1, <3>2, StepRecrypted
    <2> QED
      BY <2>1, <2>2
  <1>5. T = Nat
    <2>1. T \in SUBSET Nat
      OBVIOUS
    <2> HIDE DEF T
    <2> QED
      BY <1>3, <1>4, <2>1, Climb
  <1> QED
    BY <1>1, <1>5, CountFacts

\* recrypt returns what stands for its operand.
RecryptIs(a, t) == Recrypted(a, CtRecrypt(a, t))

\* recrypt in these parts.
LEMMA RecryptForm ==
    ASSUME NEW a, NEW t
    PROVE  CtRecrypt(a, t) =
           IF a.E = <<>> THEN a
           ELSE IF Threw(Rounds(a, t)) THEN NoCipher ELSE CompactLayers(CompactEdges(Rounds(a, t)))
  BY Zenon DEF CtRecrypt, Rounds

\* For every good operand and tape.
LEMMA RecryptFacts == ASSUME NEW a, Good(a), NEW t \in Nat PROVE RecryptIs(a, t)
  <1> DEFINE c == Rounds(a, t)
  <1>1. Recrypted(a, c)
    BY RoundsRecrypted
  <1>2. Alike(a, a)
    BY CompactAlike
  <1>3. Threw(NoCipher)
    BY DEF Threw, NoCipher
  <1>4. CtRecrypt(a, t) = IF a.E = <<>> THEN a
                          ELSE IF Threw(c) THEN NoCipher ELSE CompactLayers(CompactEdges(c))
    BY RecryptForm
  <1> HIDE DEF c
  <1>5. ASSUME ~Threw(c) PROVE Alike(a, CompactLayers(CompactEdges(c)))
    <2>1. Alike(a, c)
      BY <1>1, <1>5 DEF Recrypted
    <2>2. Alike(c, CompactEdges(c))
      BY <2>1, CompactAlike DEF Alike
    <2>3. Alike(CompactEdges(c), CompactLayers(CompactEdges(c)))
      BY <2>2, CompactAlike DEF Alike
    <2> QED
      BY <2>1, <2>2, <2>3 DEF Alike
  <1>6. ASSUME Threw(c) PROVE a.slots # 1
    BY <1>1, <1>6 DEF Recrypted, Alike
  <1> QED
    BY <1>2, <1>3, <1>4, <1>5, <1>6, Zenon DEF RecryptIs, Recrypted

-----------------------------------------------------------------------------
(* Masks *)

\* The layers from the bottom.
Upward(c) == [i \in DOMAIN c.L |-> i]

\* The table of the masks, from the bottom.
MaskFold(g, c, n) ==
    g = [s \in SUBSET (1..n) |->
            IF s = {} THEN <<>> ELSE Append(g[s \ {Max(s)}], MaskOf(c, Upward(c)[Max(s)], g[s \ {Max(s)}]))]

\* Such a table exists: a table for one more place extends the one before.
LEMMA MaskFoldExists ==
    ASSUME NEW c, NEW n \in Nat
    PROVE  \E g : MaskFold(g, c, n)
  <1> DEFINE T == {m \in Nat : \E g : MaskFold(g, c, m)}
  <1>1. 0 \in T
    <2> DEFINE g == [s \in SUBSET (1..0) |-> <<>>]
    <2>1. \A s \in SUBSET (1..0) : s = {}
      OBVIOUS
    <2>2. g = [s \in SUBSET (1..0) |->
                  IF s = {} THEN <<>> ELSE Append(g[s \ {Max(s)}], MaskOf(c, Upward(c)[Max(s)], g[s \ {Max(s)}]))]
      BY <2>1, Zenon
    <2> QED
      BY <2>2 DEF MaskFold
  <1>2. ASSUME NEW m \in T PROVE m + 1 \in T
    <2>1. PICK g : MaskFold(g, c, m)
      OBVIOUS
    <2> DEFINE h == [s \in SUBSET (1..(m + 1)) |->
                       IF m + 1 \in s THEN Append(g[s \ {m + 1}], MaskOf(c, Upward(c)[m + 1], g[s \ {m + 1}])) ELSE g[s]]
    <2>2. m \in Nat /\ m + 1 \in Nat
      OBVIOUS
    <2>3. ASSUME NEW s \in SUBSET (1..(m + 1))
          PROVE  h[s] = IF s = {} THEN <<>> ELSE Append(h[s \ {Max(s)}], MaskOf(c, Upward(c)[Max(s)], h[s \ {Max(s)}]))
      <3>1. CASE m + 1 \in s
        <4>1. Max(s) = m + 1
          BY <2>2, <3>1, MaxTop
        <4>2. s \ {m + 1} \in SUBSET (1..(m + 1)) /\ m + 1 \notin s \ {m + 1}
          OBVIOUS
        <4>3. h[s \ {m + 1}] = g[s \ {m + 1}]
          BY <4>2, Zenon
        <4>4. h[s] = Append(g[s \ {m + 1}], MaskOf(c, Upward(c)[m + 1], g[s \ {m + 1}]))
          BY <3>1, Zenon
        <4> HIDE DEF h
        <4> QED
          BY <3>1, <4>1, <4>3, <4>4, Zenon
      <3>2. CASE m + 1 \notin s
        <4>1. s \in SUBSET (1..m)
          BY <2>2, <3>2
        <4>2. h[s] = g[s]
          BY <3>2, Zenon
        <4>3. h[s \ {Max(s)}] = g[s \ {Max(s)}]
          <5>1. s \ {Max(s)} \in SUBSET (1..(m + 1)) /\ m + 1 \notin s \ {Max(s)}
            BY <3>2
          <5> QED
            BY <5>1, Zenon
        <4>4. g[s] = IF s = {} THEN <<>> ELSE Append(g[s \ {Max(s)}], MaskOf(c, Upward(c)[Max(s)], g[s \ {Max(s)}]))
          BY <2>1, <4>1, Zenon DEF MaskFold
        <4> HIDE DEF h
        <4> QED
          BY <4>2, <4>3, <4>4, Zenon
      <3> QED
        BY <3>1, <3>2
    <2>4. h = [s \in SUBSET (1..(m + 1)) |-> h[s]]
      BY Zenon
    <2> HIDE DEF h
    <2>5. MaskFold(h, c, m + 1)
      <3>1. [s \in SUBSET (1..(m + 1)) |-> h[s]]
            = [s \in SUBSET (1..(m + 1)) |->
                  IF s = {} THEN <<>> ELSE Append(h[s \ {Max(s)}], MaskOf(c, Upward(c)[Max(s)], h[s \ {Max(s)}]))]
        BY <2>3, Zenon
      <3> QED
        BY <2>4, <3>1, Zenon DEF MaskFold
    <2> QED
      BY <2>2, <2>5
  <1>3. T = Nat
    <2>1. T \in SUBSET Nat
      OBVIOUS
    <2> HIDE DEF T
    <2> QED
      BY <1>1, <1>2, <2>1, Climb
  <1> QED
    BY <1>3

\* The table read along the prefixes.
MaskTable(t, c, n) ==
    t[0] = <<>> /\ \A k \in 1..n : t[k] = Append(t[k - 1], MaskOf(c, Upward(c)[k], t[k - 1]))

\* The masks are the last entry of that table.
LEMMA MaskSteps ==
    ASSUME NEW c, NEW n \in Nat, DOMAIN Upward(c) = 1..n
    PROVE  \E t : MaskTable(t, c, n) /\ Masks(c) = t[n]
  <1> DEFINE g == CHOOSE g : MaskFold(g, c, n)
             t == [k \in 0..n |-> g[1..k]]
  <1>1. MaskFold(g, c, n)
    BY MaskFoldExists, Zenon
  <1>2. Masks(c) = g[1..n]
    BY <1>1, Zenon DEF MaskFold, Masks, Upward, FoldLeft, MapThenFoldSet
  <1> HIDE DEF g
  <1>3. ASSUME NEW k \in 1..n PROVE g[1..k] = Append(g[1..(k - 1)], MaskOf(c, Upward(c)[k], g[1..(k - 1)]))
    <2>1. 1..k \in SUBSET (1..n) /\ 1..k # {} /\ (1..k) \ {k} = 1..(k - 1)
      OBVIOUS
    <2>2. Max(1..k) = k
      BY MaxTop
    <2>3. g[1..k] = Append(g[(1..k) \ {Max(1..k)}], MaskOf(c, Upward(c)[Max(1..k)], g[(1..k) \ {Max(1..k)}]))
      BY <1>1, <2>1, Zenon DEF MaskFold
    <2> QED
      BY <2>1, <2>2, <2>3, Zenon
  <1>4. g[1..0] = <<>>
    <2>1. 1..0 = {} /\ 1..0 \in SUBSET (1..n)
      OBVIOUS
    <2> QED
      BY <1>1, <2>1, Zenon DEF MaskFold
  <1>5. t[0] = <<>> /\ t[n] = Masks(c)
    BY <1>2, <1>4
  <1>6. ASSUME NEW k \in 1..n PROVE t[k] = Append(t[k - 1], MaskOf(c, Upward(c)[k], t[k - 1]))
    <2>1. k \in 0..n /\ k - 1 \in 0..n
      OBVIOUS
    <2>2. t[k] = g[1..k] /\ t[k - 1] = g[1..(k - 1)]
      BY <2>1
    <2> HIDE DEF t
    <2> QED
      BY <1>3, <2>2, Zenon
  <1> HIDE DEF t
  <1> QED
    BY <1>5, <1>6, Zenon DEF MaskTable

\* A factor can be reduced first, and so can a summand.
LEMMA ModTimes ==
    ASSUME NEW x \in Int, NEW y \in Int
    PROVE  /\ ((x % P) * y) % P = (x * y) % P /\ (x * (y % P)) % P = (x * y) % P
           /\ ((x % P) + y) % P = (x + y) % P /\ (x + (y % P)) % P = (x + y) % P
           /\ ((x % P) - y) % P = (x - y) % P /\ (x - (y % P)) % P = (x - y) % P
  <1>1. PICK p \in Nat \ {0} : p = P
    BY ModulusFacts
  <1>2. ASSUME NEW z \in Int PROVE \E q \in Int, r \in 0..(p - 1) : z = q * p + r /\ z % p = r
    BY Z3
  <1>3. PICK q \in Int, r \in 0..(p - 1) : x = q * p + r /\ x % p = r
    BY <1>2
  <1>4. PICK u \in Int, s \in 0..(p - 1) : y = u * p + s /\ y % p = s
    BY <1>2
  <1>5. ASSUME NEW z \in Int, NEW v \in Int, NEW k \in Int, z = k * p + v PROVE z % p = v % p
    <2>1. PICK w \in Int, i \in 0..(p - 1) : v = w * p + i /\ v % p = i
      BY <1>2
    <2>2. z = (k + w) * p + i /\ k + w \in Int
      BY <1>5, <2>1, Z3
    <2>3. z % p = i
      BY <2>2, ModUnique
    <2> QED
      BY <2>1, <2>3
  <1>6. (x * y) % p = (r * y) % p
    <2>1. x * y = (q * y) * p + r * y /\ q * y \in Int /\ r * y \in Int /\ x * y \in Int
      BY <1>3, Z3
    <2> QED
      BY <1>5, <2>1
  <1>7. (x * y) % p = (x * s) % p
    <2>1. x * y = (x * u) * p + x * s /\ x * u \in Int /\ x * s \in Int /\ x * y \in Int
      BY <1>4, Z3
    <2> QED
      BY <1>5, <2>1
  <1>8. ASSUME NEW z \in Int, NEW v \in Int, NEW k \in Int, z - v = k * p PROVE z % p = v % p
    <2>1. z = k * p + v
      BY <1>8, Z3
    <2> QED
      BY <1>5, <2>1
  <1>9. /\ (x + y) % p = (r + y) % p /\ (x - y) % p = (r - y) % p
        /\ (x + y) % p = (x + s) % p /\ (x - y) % p = (x - s) % p
    <2>1. /\ x + y \in Int /\ r + y \in Int /\ x - y \in Int /\ r - y \in Int /\ x + s \in Int
          /\ x - s \in Int /\ 0 - u \in Int
      BY <1>3, <1>4
    <2>2. /\ (x + y) - (r + y) = q * p /\ (x - y) - (r - y) = q * p
          /\ (x + y) - (x + s) = u * p /\ (x - y) - (x - s) = (0 - u) * p
      BY <1>3, <1>4, Z3
    <2>3. (x + y) % p = (r + y) % p
      BY <1>8, <2>1, <2>2, Zenon
    <2>4. (x - y) % p = (r - y) % p
      BY <1>8, <2>1, <2>2, Zenon
    <2>5. (x + y) % p = (x + s) % p
      BY <1>8, <2>1, <2>2, Zenon
    <2>6. (x - y) % p = (x - s) % p
      BY <1>8, <2>1, <2>2, Zenon
    <2> QED
      BY <2>3, <2>4, <2>5, <2>6
  <1> QED
    BY <1>1, <1>3, <1>4, <1>6, <1>7, <1>8, <1>9

\* There are no divisors of zero.
LEMMA NoZeroDivisor ==
    ASSUME NEW x \in Field, NEW y \in Field, (x * y) % P = 0
    PROVE  x = 0 \/ y = 0
  <1> SUFFICES ASSUME x # 0 PROVE y = 0
    OBVIOUS
  <1>1. PICK i \in Field : (x * i) % P = 1
    BY InvFacts
  <1>2. x \in Int /\ y \in Int /\ i \in Int /\ 0 \in Int
    BY ModulusFacts
  <1>3. x * y \in Int /\ x * i \in Int /\ (x * y) * i = (x * i) * y
    BY <1>2, Z3
  <1>4. ((x * y) * i) % P = (((x * y) % P) * i) % P
    BY <1>2, <1>3, ModTimes
  <1>5. ((x * i) * y) % P = (((x * i) % P) * y) % P
    BY <1>2, <1>3, ModTimes
  <1>6. (((x * y) % P) * i) % P = (0 * i) % P /\ (((x * i) % P) * y) % P = (1 * y) % P
    BY <1>1
  <1>7. 0 * i = 0 /\ 1 * y = y
    BY <1>2
  <1>8. 0 % P = 0 /\ y % P = y
    BY <1>2, ModField, ModulusFacts
  <1> QED
    BY <1>3, <1>4, <1>5, <1>6, <1>7, <1>8

\* Masks: vectors without a zero.
MaskVec(S) == {v \in Vec(S) : \A j \in 1..S : v[j] # 0}

\* A product of masks is one.
LEMMA MaskTimes ==
    ASSUME NEW S \in Nat, NEW v \in MaskVec(S), NEW w \in MaskVec(S)
    PROVE  VMul(v, w) \in MaskVec(S)
  <1>1. v \in Vec(S) /\ w \in Vec(S) /\ 0 \in Int
    BY DEF MaskVec
  <1>2. VMul(v, w) \in Vec(S)
    BY <1>1, VecOps
  <1>3. ASSUME NEW j \in 1..S PROVE VMul(v, w)[j] # 0
    <2>1. DOMAIN v = 1..S /\ v[j] \in Field /\ w[j] \in Field
      BY <1>1, VecFacts
    <2>2. VMul(v, w)[j] = (v[j] * w[j]) % P
      BY <2>1, Zenon DEF VMul
    <2>3. v[j] # 0 /\ w[j] # 0
      BY DEF MaskVec
    <2> QED
      BY <2>1, <2>2, <2>3, NoZeroDivisor
  <1> QED
    BY <1>2, <1>3 DEF MaskVec

\* The masks of a layer's own.
BaseMask(l, S) == IF l.rpc # <<>> THEN CircuitR(l.seed, S) ELSE LegacyR(l.seed, S)

\* For every base layer: a layer of the circuit PRF was made with no zero mask.
LEMMA BaseMaskFacts ==
    ASSUME NEW S \in Slots, NEW l, LayerOK(l, S), ~IsProd(l)
    PROVE  BaseMask(l, S) \in MaskVec(S)
  <1>1. l.seed \in Seed /\ (l.rpc # <<>> => \A j \in 1..S : CircuitMask[l.seed][j] # 0)
    BY Zenon DEF LayerOK
  <1>2. PICK s \in Seed : s = l.seed
    BY <1>1
  <1>3. /\ CircuitR(s, S) \in Vec(S) /\ \A j \in 1..S : CircuitR(s, S)[j] = CircuitMask[s][j]
        /\ LegacyR(s, S) \in Vec(S) /\ \A j \in 1..S : LegacyR(s, S)[j] # 0
    BY MasksFacts
  <1>4. LegacyR(s, S) \in MaskVec(S)
    BY <1>3 DEF MaskVec
  <1>5. l.rpc # <<>> => CircuitR(s, S) \in MaskVec(S)
    BY <1>1, <1>2, <1>3 DEF MaskVec
  <1> QED
    BY <1>2, <1>4, <1>5, Zenon DEF BaseMask

\* layer_R_cached: every layer has its mask, that of a product is the product of
\* its parents' masks, and none is zero in a slot.
MasksAre(c, R) ==
    /\ IsSeq(R) /\ Len(R) = Len(c.L)
    /\ \A i \in 1..Len(c.L) :
           /\ R[i] \in MaskVec(c.slots)
           /\ R[i] = IF IsProd(c.L[i]) THEN VMul(R[c.L[i].pa], R[c.L[i].pb])
                     ELSE BaseMask(c.L[i], c.slots)

\* For every well-formed ciphertext.
LEMMA MasksRight == ASSUME NEW c, ShapeOK(c) PROVE MasksAre(c, Masks(c))
  <1> DEFINE n == Len(c.L)
             S == c.slots
  <1>1. /\ n \in Nat /\ DOMAIN c.L = 1..n /\ S \in Slots /\ S \in Nat /\ LayersOK(c.L, S)
    BY ShapeParts
  <1>2. DOMAIN Upward(c) = 1..n /\ \A i \in 1..n : Upward(c)[i] = i
    BY <1>1, Zenon DEF Upward
  <1>3. PICK f : MaskTable(f, c, n) /\ Masks(c) = f[n]
    BY <1>1, <1>2, MaskSteps
  <1>4. f[0] = <<>> /\ \A k \in 1..n : f[k] = Append(f[k - 1], MaskOf(c, k, f[k - 1]))
    BY <1>2, <1>3, Zenon DEF MaskTable
  <1>5. /\ \A i \in 1..n : LayerOK(c.L[i], S)
        /\ \A i \in 1..n : IsProd(c.L[i]) => c.L[i].pa \in 1..(i - 1) /\ c.L[i].pb \in 1..(i - 1)
    BY <1>1, Zenon DEF LayersOK, ParentsBelow
  <1> DEFINE Own1(R, i) == IF IsProd(c.L[i]) THEN VMul(R[c.L[i].pa], R[c.L[i].pb])
                           ELSE BaseMask(c.L[i], S)
             T == {k \in Nat : k <= n => /\ f[k] \in Seq(MaskVec(S)) /\ Len(f[k]) = k
                                         /\ \A i \in 1..k : f[k][i] = Own1(f[k], i)}
  <1>6. \A R, i : MaskOf(c, i, R) = Own1(R, i)
    BY Zenon DEF MaskOf, BaseMask
  <1>7. 0 \in T
    <2>1. <<>> \in Seq(MaskVec(S)) /\ Len(<<>>) = 0
      OBVIOUS
    <2>2. f[0] \in Seq(MaskVec(S)) /\ Len(f[0]) = 0
      BY <1>4, <2>1
    <2>3. 1..0 = {} /\ 0 \in Nat
      OBVIOUS
    <2> QED
      BY <2>2, <2>3, Zenon
  <1>8. ASSUME NEW k \in T PROVE k + 1 \in T
    <2>1. k \in Nat /\ k + 1 \in Nat
      OBVIOUS
    <2>2. ASSUME k + 1 <= n
          PROVE  /\ f[k + 1] \in Seq(MaskVec(S)) /\ Len(f[k + 1]) = k + 1
                 /\ \A i \in 1..(k + 1) : f[k + 1][i] = Own1(f[k + 1], i)
      <3>1. k <= n /\ k + 1 \in 1..n /\ (k + 1) - 1 = k
        BY <1>1, <2>1, <2>2
      <3>2. PICK R, M : R = f[k] /\ M = Own1(R, k + 1)
        OBVIOUS
      <3>3. R \in Seq(MaskVec(S)) /\ Len(R) = k /\ \A i \in 1..k : R[i] = Own1(R, i)
        BY <3>1, <3>2, Zenon
      <3>4. \A i \in 1..k : R[i] \in MaskVec(S)
        BY <3>3
      <3>5. M \in MaskVec(S)
        <4>1. CASE IsProd(c.L[k + 1])
          <5>1. c.L[k + 1].pa \in 1..k /\ c.L[k + 1].pb \in 1..k
            BY <1>5, <3>1, <4>1
          <5>2. R[c.L[k + 1].pa] \in MaskVec(S) /\ R[c.L[k + 1].pb] \in MaskVec(S)
            BY <3>4, <5>1
          <5>3. M = VMul(R[c.L[k + 1].pa], R[c.L[k + 1].pb])
            BY <3>2, <4>1, Zenon
          <5> QED
            BY <1>1, <5>2, <5>3, MaskTimes
        <4>2. CASE ~IsProd(c.L[k + 1])
          <5>1. M = BaseMask(c.L[k + 1], S)
            BY <3>2, <4>2, Zenon
          <5> QED
            BY <1>1, <1>5, <3>1, <4>2, <5>1, BaseMaskFacts
        <4> QED
          BY <4>1, <4>2
      <3>6. f[k + 1] = Append(R, M)
        BY <1>4, <1>6, <3>1, <3>2, Zenon
      <3>7. PICK A : A = f[k + 1]
        OBVIOUS
      <3>8. A \in Seq(MaskVec(S)) /\ Len(A) = k + 1 /\ (\A i \in 1..k : A[i] = R[i]) /\ A[k + 1] = M
        BY <2>1, <3>3, <3>5, <3>6, <3>7
      <3>9. ASSUME NEW i \in 1..(k + 1) PROVE A[i] = Own1(A, i)
        <4>1. i \in 1..n
          BY <1>1, <2>1, <2>2
        <4>2. IsProd(c.L[i]) => c.L[i].pa \in 1..k /\ c.L[i].pb \in 1..k
          <5>1. \A x \in 1..(i - 1) : x \in 1..k
            BY <2>1
          <5> QED
            BY <1>5, <4>1, <5>1
        <4>3. Own1(A, i) = Own1(R, i)
          <5>1. IsProd(c.L[i]) => A[c.L[i].pa] = R[c.L[i].pa] /\ A[c.L[i].pb] = R[c.L[i].pb]
            BY <3>8, <4>2
          <5> QED
            BY <5>1, Zenon
        <4>4. A[i] = Own1(R, i)
          <5>1. CASE i \in 1..k
            BY <3>3, <3>8, <5>1
          <5>2. CASE i = k + 1
            BY <3>2, <3>8, <5>2
          <5> QED
            BY <2>1, <5>1, <5>2
        <4> QED
          BY <4>3, <4>4
      <3> QED
        BY <3>7, <3>8, <3>9
    <2> QED
      BY <2>1, <2>2
  <1>9. T = Nat
    <2>1. T \in SUBSET Nat
      OBVIOUS
    <2> HIDE DEF T
    <2> QED
      BY <1>7, <1>8, <2>1, Climb
  <1>10. f[n] \in Seq(MaskVec(S)) /\ Len(f[n]) = n /\ \A i \in 1..n : f[n][i] = Own1(f[n], i)
    BY <1>1, <1>9
  <1>11. IsSeq(f[n]) /\ \A i \in 1..n : f[n][i] \in MaskVec(S)
    BY <1>10, SeqIs
  <1> QED
    BY <1>3, <1>10, <1>11, Zenon DEF MasksAre

-----------------------------------------------------------------------------
(* Recryption to new layers *)

\* The seeds of the two new layers.
NewSeeds(a, t) == [n \in 1..2 |-> MaskSeed(t + n, a.slots)]

\* The inverse masks of a new layer.
NewInv(a, t, n) == Inverses(CircuitR(NewSeeds(a, t)[n], a.slots))

\* The random factors of layer i for new layer n.
Mix(a, t, i, n) == NonzeroVec(t, 2 * i + n, a.slots)

\* What is left of layer i's inverse mask.
BiasOf(a, t, i) ==
    Bias(Inverses(Masks(a)[i]),
         VAdd(VMul(Mix(a, t, i, 1), NewInv(a, t, 1)), VMul(Mix(a, t, i, 2), NewInv(a, t, 2))))

\* The new layers' shares, and what goes to the constant.
MixTerms(a, t, n) == [k \in DOMAIN a.E |-> VMul(Term(a.E[k]), Mix(a, t, a.E[k].lid, n))]

\* The terms that go to the constant.
BiasTerms(a, t) == [k \in DOMAIN a.E |-> VMul(Term(a.E[k]), BiasOf(a, t, a.E[k].lid))]

\* What the edges of new layer n add up to.
Share(a, t, n) == VSum(MixTerms(a, t, n), a.slots)

\* The edges of new layer n.
ResetEdges(a, t, n) ==
    IF NonZero(Share(a, t, n)) THEN EmitRepackEdges(n, Share(a, t, n), t + n) ELSE <<>>

\* The two new layers.
ResetLayers(a, t) == [n \in 1..2 |-> FreshLayer(NewSeeds(a, t)[n], a.slots)]

\* The result before its compaction.
ResetRaw(a, t) ==
    Cipher(ResetLayers(a, t), ResetEdges(a, t, 1) \o ResetEdges(a, t, 2),
           VAdd(ConstOf(TRUE, a), VSum(BiasTerms(a, t), a.slots)), a.slots)

\* ct_recrypt_reset in these parts.
LEMMA ResetForm ==
    ASSUME NEW a, NEW t
    PROVE  CtRecryptReset(a, t) =
           IF ~FitsKey(a) \/ \E n \in 1..2 : NewSeeds(a, t)[n] = NoSeed THEN NoCipher
           ELSE CompactLayers(CompactEdges(GuardBudget(ResetRaw(a, t))))
  BY Zenon DEF CtRecryptReset, ResetRaw, Cipher, ResetEdges, ResetLayers, Share, BiasTerms, MixTerms,
     BiasOf, Mix, NewInv, NewSeeds, Term

\* The inverse masks are a vector.
LEMMA InversesVec ==
    ASSUME NEW S \in Nat, NEW R \in Vec(S)
    PROVE  Inverses(R) \in Vec(S) /\ \A j \in 1..S : Inverses(R)[j] = FInv(R[j])
  <1>1. DOMAIN R = 1..S /\ \A j \in 1..S : R[j] \in Field
    BY VecFacts
  <1>2. Inverses(R) = [j \in 1..S |-> FInv(R[j])]
    BY <1>1, Zenon DEF Inverses
  <1>3. \A j \in 1..S : FInv(R[j]) \in Field
    BY <1>1, InvFacts
  <1> QED
    BY <1>2, <1>3, Zenon DEF Vec

\* The seeds, where both are found, and the two layers.
SeedsRight(a, t) ==
    /\ NewSeeds(a, t)[1] = MaskSeed(t + 1, a.slots) /\ NewSeeds(a, t)[2] = MaskSeed(t + 2, a.slots)
    /\ \A n \in 1..2 : NewSeeds(a, t)[n] # NoSeed =>
           /\ NewSeeds(a, t)[n] \in Seed
           /\ \A j \in 1..a.slots : CircuitMask[NewSeeds(a, t)[n]][j] # 0
           /\ NewInv(a, t, n) \in Vec(a.slots)
           /\ \A j \in 1..a.slots : NewInv(a, t, n)[j] = FInv(CircuitR(NewSeeds(a, t)[n], a.slots)[j])

\* For every operand and tape.
LEMMA SeedsFacts == ASSUME NEW a, ShapeOK(a), NEW t \in Nat PROVE SeedsRight(a, t)
  <1>1. PICK S \in Slots : S = a.slots
    BY ShapeParts
  <1>2. S \in Nat
    BY SlotsFacts
  <1>3. NewSeeds(a, t)[1] = MaskSeed(t + 1, a.slots) /\ NewSeeds(a, t)[2] = MaskSeed(t + 2, a.slots)
    BY DEF NewSeeds
  <1>4. ASSUME NEW n \in 1..2, NewSeeds(a, t)[n] # NoSeed
        PROVE  /\ NewSeeds(a, t)[n] \in Seed
               /\ \A j \in 1..S : CircuitMask[NewSeeds(a, t)[n]][j] # 0
               /\ NewInv(a, t, n) \in Vec(S)
               /\ \A j \in 1..S : NewInv(a, t, n)[j] = FInv(CircuitR(NewSeeds(a, t)[n], S)[j])
    <2>1. PICK u, s : u \in Nat /\ u = t + n /\ s = NewSeeds(a, t)[n]
      OBVIOUS
    <2>2. s = MaskSeed(u, S)
      BY <1>1, <2>1, Zenon DEF NewSeeds
    <2>3. MaskRight(u, S)
      BY <1>2, <2>1, MaskSeedFacts
    <2>4. s \in Seed /\ \A j \in 1..S : CircuitMask[s][j] # 0
      BY <1>4, <2>1, <2>2, <2>3, Zenon DEF MaskRight
    <2>5. CircuitR(s, S) \in Vec(S)
      BY <2>4, MasksFacts
    <2>6. NewInv(a, t, n) = Inverses(CircuitR(s, S))
      BY <1>1, <2>1, Zenon DEF NewInv
    <2>7. Inverses(CircuitR(s, S)) \in Vec(S)
          /\ \A j \in 1..S : Inverses(CircuitR(s, S))[j] = FInv(CircuitR(s, S)[j])
      BY <1>2, <2>5, InversesVec
    <2> QED
      BY <2>1, <2>4, <2>6, <2>7, Zenon
  <1> QED
    BY <1>1, <1>3, <1>4, Zenon DEF SeedsRight

\* The shares are vectors.
SharesRight(a, t) ==
    /\ DOMAIN a.E = 1..Len(a.E)
    /\ \A k \in 1..Len(a.E) :
           /\ Term(a.E[k]) \in Vec(a.slots) /\ BiasOf(a, t, a.E[k].lid) \in Vec(a.slots)
           /\ BiasTerms(a, t)[k] = VMul(Term(a.E[k]), BiasOf(a, t, a.E[k].lid))
           /\ BiasTerms(a, t)[k] \in Vec(a.slots)
           /\ \A n \in 1..2 : /\ Mix(a, t, a.E[k].lid, n) \in Vec(a.slots)
                              /\ MixTerms(a, t, n)[k] = VMul(Term(a.E[k]), Mix(a, t, a.E[k].lid, n))
                              /\ MixTerms(a, t, n)[k] \in Vec(a.slots)
    /\ VSum(BiasTerms(a, t), a.slots) \in Vec(a.slots)
    /\ \A n \in 1..2 : Share(a, t, n) \in Vec(a.slots)

\* For every operand and tape with two seeds.
LEMMA SharesFacts ==
    ASSUME NEW a, ShapeOK(a), NEW t \in Nat, \A n \in 1..2 : NewSeeds(a, t)[n] # NoSeed
    PROVE  SharesRight(a, t)
  <1>1. PICK S \in Slots : S = a.slots
    BY ShapeParts
  <1>2. S \in Nat
    BY SlotsFacts
  <1>3. PICK l \in Nat : l = Len(a.E)
    BY ShapeParts
  <1>4. DOMAIN a.E = 1..l /\ \A k \in 1..l : a.E[k] \in EdgeSet(Len(a.L), S) /\ a.E[k].lid \in 1..Len(a.L)
    BY <1>1, <1>3, ShapeParts, Zenon
  <1>5. \A n \in 1..2 : NewInv(a, t, n) \in Vec(S)
    BY <1>1, SeedsFacts, Zenon DEF SeedsRight
  <1>6. MasksAre(a, Masks(a))
    BY MasksRight
  <1>7. \A i \in 1..Len(a.L) : Masks(a)[i] \in Vec(S)
    BY <1>1, <1>6, Zenon DEF MasksAre, MaskVec
  <1>8. ASSUME NEW i \in 1..Len(a.L)
        PROVE  (\A n \in 1..2 : Mix(a, t, i, n) \in Vec(S)) /\ BiasOf(a, t, i) \in Vec(S)
    <2>1. i \in Nat /\ 2 * i + 1 \in Nat /\ 2 * i + 2 \in Nat
      BY ShapeParts
    <2>2. NonzeroVec(t, 2 * i + 1, S) \in Vec(S) /\ NonzeroVec(t, 2 * i + 2, S) \in Vec(S)
      BY <1>2, <2>1, NonzeroVecFacts
    <2>3. Mix(a, t, i, 1) \in Vec(S) /\ Mix(a, t, i, 2) \in Vec(S)
      BY <1>1, <2>2, Zenon DEF Mix
    <2>4. Inverses(Masks(a)[i]) \in Vec(S)
      BY <1>2, <1>7, InversesVec
    <2>5. NewInv(a, t, 1) \in Vec(S) /\ NewInv(a, t, 2) \in Vec(S)
      BY <1>5
    <2>6. PICK o, p, q, x, y : /\ o = Inverses(Masks(a)[i]) /\ p = Mix(a, t, i, 1) /\ q = Mix(a, t, i, 2)
                               /\ x = NewInv(a, t, 1) /\ y = NewInv(a, t, 2)
      OBVIOUS
    <2>7. VMul(p, x) \in Vec(S) /\ VMul(q, y) \in Vec(S)
      <3>1. 0 \in Int
        OBVIOUS
      <3> QED
        BY <1>2, <2>3, <2>5, <2>6, <3>1, VecOps, Zenon
    <2>8. VAdd(VMul(p, x), VMul(q, y)) \in Vec(S)
      <3>1. 0 \in Int
        OBVIOUS
      <3> QED
        BY <1>2, <2>7, <3>1, VecOps, Zenon
    <2>9. VSub(o, VAdd(VMul(p, x), VMul(q, y))) \in Vec(S)
      <3>1. 0 \in Int
        OBVIOUS
      <3> QED
        BY <1>2, <2>4, <2>6, <2>8, <3>1, VecOps, Zenon
    <2>10. BiasOf(a, t, i) \in Vec(S)
      BY <2>6, <2>9, Zenon DEF BiasOf, Bias
    <2>11. \A n \in 1..2 : n = 1 \/ n = 2
      OBVIOUS
    <2> QED
      BY <2>3, <2>10, <2>11, Zenon
  <1>9. DOMAIN BiasTerms(a, t) = 1..l /\ \A n : DOMAIN MixTerms(a, t, n) = 1..l
    BY <1>4, Zenon DEF BiasTerms, MixTerms
  <1>10. ASSUME NEW k \in 1..l
         PROVE  /\ Term(a.E[k]) \in Vec(S) /\ BiasOf(a, t, a.E[k].lid) \in Vec(S)
                /\ BiasTerms(a, t)[k] = VMul(Term(a.E[k]), BiasOf(a, t, a.E[k].lid))
                /\ BiasTerms(a, t)[k] \in Vec(S)
                /\ \A n \in 1..2 : /\ Mix(a, t, a.E[k].lid, n) \in Vec(S)
                                   /\ MixTerms(a, t, n)[k] = VMul(Term(a.E[k]), Mix(a, t, a.E[k].lid, n))
                                   /\ MixTerms(a, t, n)[k] \in Vec(S)
    <2>1. Term(a.E[k]) \in Vec(S)
      BY <1>2, <1>4, TermVec
    <2>2. BiasOf(a, t, a.E[k].lid) \in Vec(S) /\ \A n \in 1..2 : Mix(a, t, a.E[k].lid, n) \in Vec(S)
      BY <1>4, <1>8
    <2>3. /\ BiasTerms(a, t)[k] = VMul(Term(a.E[k]), BiasOf(a, t, a.E[k].lid))
          /\ \A n : MixTerms(a, t, n)[k] = VMul(Term(a.E[k]), Mix(a, t, a.E[k].lid, n))
      BY <1>4, Zenon DEF BiasTerms, MixTerms
    <2>4. ASSUME NEW v \in Vec(S), NEW w \in Vec(S) PROVE VMul(v, w) \in Vec(S)
      <3>1. 0 \in Int
        OBVIOUS
      <3> QED
        BY <1>2, <3>1, VecOps, Zenon
    <2> QED
      BY <2>1, <2>2, <2>3, <2>4, Zenon
  <1>11. VSum(BiasTerms(a, t), S) \in Vec(S)
    BY <1>2, <1>9, <1>10, VSumVec
  <1>12. ASSUME NEW n \in 1..2 PROVE Share(a, t, n) \in Vec(S)
    <2>1. VSum(MixTerms(a, t, n), S) \in Vec(S)
      BY <1>2, <1>9, <1>10, VSumVec
    <2> QED
      BY <1>1, <2>1, Zenon DEF Share
  <1> QED
    BY <1>1, <1>3, <1>4, <1>10, <1>11, <1>12, Zenon DEF SharesRight

\* The edges of the new layers.
ResetEdgesRight(a, t, n) ==
    LET E == ResetEdges(a, t, n)
    IN  /\ EdgesOK(E, 2, a.slots) /\ \A k \in 1..Len(E) : E[k].lid = n
        /\ IF NonZero(Share(a, t, n)) THEN /\ RepackRight(n, Share(a, t, n), t + n, 2)
                                           /\ E = EmitRepackEdges(n, Share(a, t, n), t + n)
           ELSE E = <<>>

\* For both new layers.
LEMMA ResetEdgesFacts ==
    ASSUME NEW a, ShapeOK(a), NEW t \in Nat, \A n \in 1..2 : NewSeeds(a, t)[n] # NoSeed, NEW n \in 1..2
    PROVE  ResetEdgesRight(a, t, n)
  <1>1. PICK S \in Nat : S = a.slots
    BY ShapeParts
  <1>2. SharesRight(a, t)
    BY SharesFacts
  <1>3. PICK v \in Vec(S) : v = Share(a, t, n)
    BY <1>1, <1>2, Zenon DEF SharesRight
  <1>4. PICK u \in Nat : u = t + n
    OBVIOUS
  <1>5. CASE NonZero(v)
    <2>1. RepackRight(n, v, u, 2)
      <3>1. n \in 1..2 /\ 2 \in Nat
        OBVIOUS
      <3> QED
        BY <1>4, <3>1, RepackFacts
    <2>2. Len(v) = S
      BY VecFacts
    <2>3. ClosingRight(n, v, RepackEdges, u, PowScale, 2)
          /\ EmitRepackEdges(n, v, u) = ClosingEdges(n, v, RepackEdges, u, PowScale)
      BY <2>1, Zenon DEF RepackRight
    <2>4. PICK E : E = EmitRepackEdges(n, v, u)
      OBVIOUS
    <2>5. EdgesOK(E, 2, S) /\ \A k \in 1..Len(E) : E[k].lid = n
      BY <2>2, <2>3, <2>4, Zenon DEF ClosingRight
    <2>6. ResetEdges(a, t, n) = E
      BY <1>3, <1>4, <1>5, <2>4, Zenon DEF ResetEdges
    <2> QED
      BY <1>1, <1>3, <1>4, <1>5, <2>1, <2>4, <2>5, <2>6, Zenon DEF ResetEdgesRight
  <1>6. CASE ~NonZero(v)
    <2>1. ResetEdges(a, t, n) = <<>>
      BY <1>3, <1>6, Zenon DEF ResetEdges
    <2>2. <<>> \in Seq(EdgeSet(2, S)) /\ Len(<<>>) = 0 /\ 1..0 = {} /\ DOMAIN <<>> = {}
      OBVIOUS
    <2>3. EdgesOK(<<>>, 2, S)
      BY <2>2, Zenon DEF EdgesOK, OneEdgePerPlace
    <2> QED
      BY <1>1, <1>3, <1>6, <2>1, <2>2, <2>3, Zenon DEF ResetEdgesRight
  <1> QED
    BY <1>5, <1>6

\* ct_recrypt_reset: two base layers, unless a seed is missing.
ResetRight(a, t) ==
    LET c == CtRecryptReset(a, t)
        r == ResetRaw(a, t)
    IN  /\ Threw(c) => \E n \in 1..2 : NewSeeds(a, t)[n] = NoSeed
        /\ ~Threw(c) => /\ \A n \in 1..2 : NewSeeds(a, t)[n] # NoSeed
                        /\ Good(r) /\ c = CompactLayers(CompactEdges(GuardBudget(r)))
                        /\ Good(c) /\ c.slots = a.slots /\ MulDepth(c) = 0
                        /\ r.slots = a.slots

\* The ciphertext that stands for an exception.
LEMMA ThrewNo == Threw(NoCipher)
  BY DEF Threw, NoCipher

\* The new layers are well-formed base layers.
LEMMA ResetLayersOK ==
    ASSUME NEW a, ShapeOK(a), NEW t \in Nat, \A n \in 1..2 : NewSeeds(a, t)[n] # NoSeed
    PROVE  /\ IsSeq(ResetLayers(a, t)) /\ Len(ResetLayers(a, t)) = 2
           /\ \A n \in 1..2 : /\ ResetLayers(a, t)[n] = FreshLayer(NewSeeds(a, t)[n], a.slots)
                              /\ LayerOK(ResetLayers(a, t)[n], a.slots)
                              /\ ~IsProd(ResetLayers(a, t)[n])
  <1>1. PICK L : L = ResetLayers(a, t)
    OBVIOUS
  <1>2. L = [n \in 1..2 |-> FreshLayer(NewSeeds(a, t)[n], a.slots)] /\ DOMAIN L = 1..2
    BY <1>1, Zenon DEF ResetLayers
  <1>3. \A n \in 1..2 : L[n] = FreshLayer(NewSeeds(a, t)[n], a.slots)
    BY <1>2, Zenon
  <1>4. L = [n \in 1..2 |-> L[n]]
    BY <1>2, <1>3, Zenon
  <1>5. Len(L) = 2 /\ IsSeq(L)
    <2>1. 2 \in Nat
      OBVIOUS
    <2> QED
      BY <1>4, <2>1, FnSeq
  <1>6. SeedsRight(a, t)
    BY SeedsFacts
  <1>7. ASSUME NEW n \in 1..2 PROVE LayerOK(L[n], a.slots) /\ ~IsProd(L[n])
    <2>1. NewSeeds(a, t)[n] \in Seed /\ \A j \in 1..a.slots : CircuitMask[NewSeeds(a, t)[n]][j] # 0
      BY <1>6, Zenon DEF SeedsRight
    <2>2. PICK s \in Seed : s = NewSeeds(a, t)[n]
      BY <2>1
    <2>3. PICK S \in Slots : S = a.slots
      BY ShapeParts
    <2>4. \A j \in 1..S : CircuitMask[s][j] # 0
      BY <2>1, <2>2, <2>3
    <2>5. LayerOK(FreshLayer(s, S), S) /\ ~IsProd(FreshLayer(s, S))
      BY <2>4, FreshFacts
    <2> QED
      BY <1>3, <2>2, <2>3, <2>5, Zenon
  <1> QED
    BY <1>1, <1>3, <1>5, <1>7, Zenon

\* For every well-formed operand and tape.
LEMMA ResetFacts == ASSUME NEW a, ShapeOK(a), NEW t \in Nat PROVE ResetRight(a, t)
  <1>1. FitsKey(a)
    BY ShapeFits
  <1>2. PICK c, r : c = CtRecryptReset(a, t) /\ r = ResetRaw(a, t)
    OBVIOUS
  <1>3. CASE \E n \in 1..2 : NewSeeds(a, t)[n] = NoSeed
    <2>1. c = NoCipher
      BY <1>2, <1>3, ResetForm, Zenon
    <2> QED
      BY <1>2, <1>3, <2>1, ThrewNo, Zenon DEF ResetRight
  <1>4. CASE \A n \in 1..2 : NewSeeds(a, t)[n] # NoSeed
    <2>1. c = CompactLayers(CompactEdges(GuardBudget(r)))
      BY <1>1, <1>2, <1>4, ResetForm, Zenon
    <2>2. PICK S \in Slots : S = a.slots
      BY ShapeParts
    <2>3. S \in Nat
      BY SlotsFacts
    <2>4. PICK L : L = ResetLayers(a, t)
      OBVIOUS
    <2>5. IsSeq(L) /\ Len(L) = 2 /\ \A n \in 1..2 : LayerOK(L[n], S) /\ ~IsProd(L[n])
      BY <1>4, <2>2, <2>4, ResetLayersOK
    <2>6. PICK E, F : E = ResetEdges(a, t, 1) /\ F = ResetEdges(a, t, 2)
      OBVIOUS
    <2>7. ResetEdgesRight(a, t, 1) /\ ResetEdgesRight(a, t, 2)
      BY <1>4, ResetEdgesFacts
    <2>8. /\ EdgesOK(E, 2, S) /\ EdgesOK(F, 2, S) /\ \A k \in 1..Len(E) : E[k].lid = 1
          /\ \A k \in 1..Len(F) : F[k].lid = 2
      BY <2>2, <2>6, <2>7, Zenon DEF ResetEdgesRight
    <2>9. EdgesOK(E \o F, 2, S)
      <3>1. 1 # 2 /\ 2 \in Nat
        OBVIOUS
      <3>2. \A k \in 1..Len(E), l \in 1..Len(F) : E[k].lid # F[l].lid
        BY <2>8, <3>1, Zenon
      <3> QED
        BY <2>8, <3>1, <3>2, ConcatEdges
    <2>10. PICK X : X = E \o F
      OBVIOUS
    <2>11. \A k \in 1..Len(X) : X[k].lid \in 1..Len(L)
      <3>1. X \in Seq(EdgeSet(2, S))
        BY <2>9, <2>10 DEF EdgesOK
      <3>2. \A k \in 1..Len(X) : X[k] \in EdgeSet(2, S)
        BY <3>1
      <3>3. \A k \in 1..Len(X) : X[k].lid \in 1..2
        BY <3>2 DEF EdgeSet
      <3> QED
        BY <2>5, <3>3
    <2>12. LayersOK(L, S) /\ Needed(L, X)
      BY <2>5, <2>11, BaseLayers
    <2>13. PICK y : y = VAdd(ConstOf(TRUE, a), VSum(BiasTerms(a, t), S))
      OBVIOUS
    <2>14. y \in Vec(S)
      <3>1. SharesRight(a, t)
        BY <1>4, SharesFacts
      <3>2. VSum(BiasTerms(a, t), S) \in Vec(S)
        BY <2>2, <3>1, Zenon DEF SharesRight
      <3>3. ConstOf(TRUE, a) \in Vec(S)
        BY <2>2, ConstOfOK
      <3>4. 0 \in Int
        OBVIOUS
      <3> QED
        BY <2>3, <2>13, <3>2, <3>3, <3>4, VecOps, Zenon
    <2>15. r = Cipher(L, X, y, S)
      BY <1>2, <2>2, <2>4, <2>6, <2>10, <2>13, Zenon DEF ResetRaw
    <2>16. ShapeOK(r)
      <3>1. ConstOK(y, S) /\ EdgesOK(X, Len(L), S)
        BY <2>5, <2>9, <2>10, <2>14, Zenon DEF ConstOK
      <3> QED
        BY <2>12, <2>15, <3>1, ShapeMake
    <2>17. r.L = L /\ r.E = X /\ r.slots = S
      BY <2>15, PartsFacts DEF PartsRight
    <2>18. Good(r)
      BY <2>12, <2>16, <2>17, Zenon DEF Good
    <2>19. MulDepth(r) = 0
      <3>1. \A i \in 1..Len(r.L) : ~IsProd(r.L[i])
        BY <2>5, <2>17
      <3> QED
        BY <2>12, <2>17, <3>1, DepthBase
    <2>20. PICK g, h : g = GuardBudget(r) /\ h = CompactEdges(g)
      OBVIOUS
    <2>21. Alike(r, g)
      BY <2>18, <2>20, CompactAlike
    <2>22. Alike(g, h)
      BY <2>20, <2>21, CompactAlike DEF Alike
    <2>23. Alike(h, c)
      BY <2>1, <2>20, <2>22, CompactAlike DEF Alike
    <2>24. Good(c) /\ c.slots = S /\ MulDepth(c) = 0 /\ ~Threw(c)
      BY <2>17, <2>19, <2>21, <2>22, <2>23, Zenon DEF Alike
    <2> QED
      BY <1>2, <1>4, <2>1, <2>2, <2>17, <2>18, <2>24, Zenon DEF ResetRight
  <1> QED
    BY <1>3, <1>4, Zenon

-----------------------------------------------------------------------------
(* Storing and reading back *)

\* The fields a version writes.
LEMMA FieldsOf ==
    /\ Fields(3, "base") = {"rule", "seed", "com", "pc", "rpc"}
    /\ Fields(3, "prod") = {"rule", "pa", "pb", "com", "pc", "rpc"}
    /\ Fields(1, "base") = {"rule", "seed", "com"}
    /\ Fields(2, "base") = {"rule", "seed", "com", "pc"}
    /\ Fields(4, "base") = {"rule", "seed"}
  BY DEF Fields

\* The fields of a layer.
Names == {"rule", "seed", "rpc", "pc", "com", "pa", "pb"}

\* The blank layer, field by field.
LEMMA BlankFields ==
    /\ DOMAIN Blank = Names
    /\ Blank["rule"] = "base" /\ Blank["seed"] = NoSeed /\ Blank["rpc"] = <<>> /\ Blank["pc"] = <<>>
    /\ Blank["com"] = NoCom /\ Blank["pa"] = 0 /\ Blank["pb"] = 0
  BY DEF Blank, Names

\* What a layer has after it was written and read, before the mark.
Filled(l, F) == [f \in Names |-> IF f \in F THEN l[f] ELSE Blank[f]]

\* Its fields: those written, and blank ones.
FilledRight(l, F) ==
    LET x == Filled(l, F)
    IN  /\ x = [rule |-> x.rule, seed |-> x.seed, rpc |-> x.rpc, pc |-> x.pc, com |-> x.com,
                pa |-> x.pa, pb |-> x.pb]
        /\ x.rule = IF "rule" \in F THEN l.rule ELSE "base"
        /\ x.seed = IF "seed" \in F THEN l.seed ELSE NoSeed
        /\ x.rpc = IF "rpc" \in F THEN l.rpc ELSE <<>>
        /\ x.pc = IF "pc" \in F THEN l.pc ELSE <<>>
        /\ x.com = IF "com" \in F THEN l.com ELSE NoCom
        /\ x.pa = IF "pa" \in F THEN l.pa ELSE 0
        /\ x.pb = IF "pb" \in F THEN l.pb ELSE 0

\* For every layer and set of fields.
LEMMA FilledFacts == ASSUME NEW l, NEW F PROVE FilledRight(l, F)
  <1>1. PICK x : x = Filled(l, F)
    OBVIOUS
  <1>2. x = [f \in Names |-> x[f]]
    BY <1>1, Zenon DEF Filled
  <1>3. \A f \in Names : x[f] = IF f \in F THEN l[f] ELSE Blank[f]
    BY <1>1, Zenon DEF Filled
  <1>4. x = [rule |-> x.rule, seed |-> x.seed, rpc |-> x.rpc, pc |-> x.pc, com |-> x.com,
             pa |-> x.pa, pb |-> x.pb]
    BY <1>2 DEF Names
  <1>5. /\ x.rule = x["rule"] /\ x.seed = x["seed"] /\ x.rpc = x["rpc"] /\ x.pc = x["pc"]
        /\ x.com = x["com"] /\ x.pa = x["pa"] /\ x.pb = x["pb"]
        /\ l.rule = l["rule"] /\ l.seed = l["seed"] /\ l.rpc = l["rpc"] /\ l.pc = l["pc"]
        /\ l.com = l["com"] /\ l.pa = l["pa"] /\ l.pb = l["pb"]
    OBVIOUS
  <1>6. /\ "rule" \in Names /\ "seed" \in Names /\ "rpc" \in Names /\ "pc" \in Names
        /\ "com" \in Names /\ "pa" \in Names /\ "pb" \in Names
    BY DEF Names
  <1>7. /\ x["rule"] = IF "rule" \in F THEN l["rule"] ELSE "base"
        /\ x["seed"] = IF "seed" \in F THEN l["seed"] ELSE NoSeed
        /\ x["rpc"] = IF "rpc" \in F THEN l["rpc"] ELSE <<>>
        /\ x["pc"] = IF "pc" \in F THEN l["pc"] ELSE <<>>
        /\ x["com"] = IF "com" \in F THEN l["com"] ELSE NoCom
        /\ x["pa"] = IF "pa" \in F THEN l["pa"] ELSE 0
        /\ x["pb"] = IF "pb" \in F THEN l["pb"] ELSE 0
    BY <1>3, <1>6, BlankFields
  <1> QED
    BY <1>1, <1>4, <1>5, <1>7 DEF FilledRight

\* A layer written and read has the fields its version writes.
WrittenRight(ver, l, S, F) ==
    ReadLayer(ver, WriteLayer(ver, l), S) =
        IF ver >= 4 /\ ~IsProd(Filled(l, F))
        THEN [Filled(l, F) EXCEPT !.rpc = [j \in 1..S |-> NoPoint]] ELSE Filled(l, F)

\* For every version.
LEMMA ReadWritten ==
    ASSUME NEW ver, NEW l, NEW S, NEW F, F = Fields(ver, l.rule)
    PROVE  WrittenRight(ver, l, S, F)
  <1>1. PICK w : w = WriteLayer(ver, l)
    OBVIOUS
  <1>2. DOMAIN w = F /\ \A f \in F : w[f] = l[f]
    BY <1>1, Zenon DEF WriteLayer
  <1>3. DOMAIN Blank = Names
    BY BlankFields
  <1>4. [f \in DOMAIN Blank |-> IF f \in DOMAIN w THEN w[f] ELSE Blank[f]] = Filled(l, F)
    <2>1. \A f \in Names : (IF f \in DOMAIN w THEN w[f] ELSE Blank[f]) = IF f \in F THEN l[f] ELSE Blank[f]
      BY <1>2, Zenon
    <2> QED
      BY <1>3, <2>1, Zenon DEF Filled
  <1>5. PICK y : y = [f \in DOMAIN Blank |-> IF f \in DOMAIN w THEN w[f] ELSE Blank[f]]
    OBVIOUS
  <1>6. ReadLayer(ver, w, S) = IF ver >= 4 /\ ~IsProd(y) THEN [y EXCEPT !.rpc = [j \in 1..S |-> NoPoint]]
                               ELSE y
    BY <1>5, Zenon DEF ReadLayer
  <1> QED
    BY <1>1, <1>4, <1>5, <1>6, Zenon DEF WrittenRight

\* Reading what was written in version 3: the fields that mean something.
Reread(x, l) ==
    /\ x = [rule |-> x.rule, seed |-> x.seed, rpc |-> x.rpc, pc |-> x.pc, com |-> x.com,
            pa |-> x.pa, pb |-> x.pb]
    /\ x.rule = l.rule /\ x.rpc = l.rpc /\ x.pc = l.pc /\ x.com = l.com /\ (IsProd(x) <=> IsProd(l))
    /\ IsProd(l) => x.pa = l.pa /\ x.pb = l.pb
    /\ ~IsProd(l) => x.seed = l.seed

\* The layer read back means what it meant and is well-formed.
RereadRight(l, S) == Reread(ReadLayer(3, WriteLayer(3, l), S), l) /\ LayerOK(ReadLayer(3, WriteLayer(3, l), S), S)

\* For every well-formed layer.
LEMMA RereadFacts == ASSUME NEW S, NEW l, LayerOK(l, S) PROVE RereadRight(l, S)
  <1>1. l.rule \in {"base", "prod"}
    BY DEF LayerOK
  <1>2. PICK F, x : F = Fields(3, l.rule) /\ x = Filled(l, F)
    OBVIOUS
  <1>3. ~(3 >= 4)
    OBVIOUS
  <1>4. ReadLayer(3, WriteLayer(3, l), S) = x
    <2>1. PICK ver : ver = 3
      OBVIOUS
    <2>2. F = Fields(ver, l.rule) /\ ~(ver >= 4)
      BY <1>2, <1>3, <2>1
    <2>3. WrittenRight(ver, l, S, F)
      BY <2>2, ReadWritten
    <2> QED
      BY <1>2, <2>1, <2>2, <2>3, Zenon DEF WrittenRight
  <1>5. FilledRight(l, F)
    BY FilledFacts
  <1>6. F = IF l.rule = "base" THEN {"rule", "seed", "com", "pc", "rpc"}
            ELSE {"rule", "pa", "pb", "com", "pc", "rpc"}
    BY <1>1, <1>2, FieldsOf
  <1>7. Reread(x, l)
    <2>1. CASE l.rule = "base"
      <3>1. F = {"rule", "seed", "com", "pc", "rpc"}
        BY <1>6, <2>1
      <3>2. /\ x = [rule |-> x.rule, seed |-> x.seed, rpc |-> x.rpc, pc |-> x.pc, com |-> x.com,
                    pa |-> x.pa, pb |-> x.pb]
            /\ x.rule = l.rule /\ x.seed = l.seed /\ x.rpc = l.rpc /\ x.pc = l.pc /\ x.com = l.com
        BY <1>2, <1>5, <3>1 DEF FilledRight
      <3>3. ~IsProd(l) /\ ~IsProd(x)
        BY <2>1, <3>2 DEF IsProd
      <3> QED
        BY <3>2, <3>3, Zenon DEF Reread
    <2>2. CASE l.rule = "prod"
      <3>1. F = {"rule", "pa", "pb", "com", "pc", "rpc"}
        BY <1>6, <2>2
      <3>2. /\ x = [rule |-> x.rule, seed |-> x.seed, rpc |-> x.rpc, pc |-> x.pc, com |-> x.com,
                    pa |-> x.pa, pb |-> x.pb]
            /\ x.rule = l.rule /\ x.rpc = l.rpc /\ x.pc = l.pc /\ x.com = l.com
            /\ x.pa = l.pa /\ x.pb = l.pb
        BY <1>2, <1>5, <3>1 DEF FilledRight
      <3>3. IsProd(l) /\ IsProd(x)
        BY <2>2, <3>2 DEF IsProd
      <3> QED
        BY <3>2, <3>3, Zenon DEF Reread
    <2> QED
      BY <1>1, <2>1, <2>2
  <1>8. LayerOK(x, S)
    <2>1. /\ \A points \in {l.pc, l.rpc} : points = <<>> \/ (~IsProd(l) /\ Len(points) = S)
          /\ ~IsProd(l) => /\ l.seed \in Seed
                           /\ l.rpc # <<>> => \A j \in 1..S : CircuitMask[l.seed][j] # 0
      BY Zenon DEF LayerOK
    <2>2. x.pc = l.pc /\ x.rpc = l.rpc /\ x.rule = l.rule /\ (IsProd(x) <=> IsProd(l))
          /\ (~IsProd(l) => x.seed = l.seed)
          /\ x = [rule |-> x.rule, seed |-> x.seed, rpc |-> x.rpc, pc |-> x.pc, com |-> x.com,
                  pa |-> x.pa, pb |-> x.pb]
      BY <1>7, Zenon DEF Reread
    <2>3. \A points \in {x.pc, x.rpc} : points = <<>> \/ (~IsProd(x) /\ Len(points) = S)
      BY <2>1, <2>2, Zenon
    <2> QED
      BY <1>1, <2>1, <2>2, <2>3, Zenon DEF LayerOK
  <1> QED
    BY <1>4, <1>7, <1>8, Zenon DEF RereadRight

\* Reading a base layer of an earlier version.
OldRight(ver, l, S) ==
    LET x == ReadLayer(ver, WriteLayer(ver, l), S)
    IN  LayerOK(x, S) /\ ~IsProd(x) /\ x.seed = l.seed /\ (x.rpc # <<>> <=> ver = 4)

\* For every base layer that such a version wrote.
LEMMA OldFacts ==
    ASSUME NEW S \in Nat, S # 0, NEW l, LayerOK(l, S), ~IsProd(l), NEW ver \in {1, 2, 4},
           ver = 4 => l.rpc # <<>>
    PROVE  OldRight(ver, l, S)
  <1>1. l.rule = "base"
    BY DEF LayerOK, IsProd
  <1>2. PICK F, y, x : F = Fields(ver, l.rule) /\ y = Filled(l, F)
                       /\ x = ReadLayer(ver, WriteLayer(ver, l), S)
    OBVIOUS
  <1>3. WrittenRight(ver, l, S, F)
    BY <1>2, ReadWritten
  <1>4. FilledRight(l, F)
    BY FilledFacts
  <1>5. F = IF ver = 1 THEN {"rule", "seed", "com"}
            ELSE IF ver = 2 THEN {"rule", "seed", "com", "pc"} ELSE {"rule", "seed"}
    BY <1>1, <1>2, FieldsOf
  <1>6. /\ y = [rule |-> y.rule, seed |-> y.seed, rpc |-> y.rpc, pc |-> y.pc, com |-> y.com,
                pa |-> y.pa, pb |-> y.pb]
        /\ y.rule = l.rule /\ y.seed = l.seed /\ y.rpc = <<>> /\ y.pc \in {l.pc, <<>>}
    <2>1. "rule" \in F /\ "seed" \in F /\ "rpc" \notin F
      BY <1>5
    <2> QED
      BY <1>2, <1>4, <2>1 DEF FilledRight
  <1>7. ~IsProd(y)
    BY <1>1, <1>6 DEF IsProd
  <1>8. /\ l.seed \in Seed /\ (l.rpc # <<>> => \A j \in 1..S : CircuitMask[l.seed][j] # 0)
        /\ l.pc = <<>> \/ Len(l.pc) = S
    BY Zenon DEF LayerOK
  <1>9. CASE ver = 4
    <2>1. ver >= 4
      BY <1>9
    <2>2. PICK R : R = [j \in 1..S |-> NoPoint]
      OBVIOUS
    <2>3. x = [y EXCEPT !.rpc = R]
      BY <1>2, <1>3, <1>7, <2>1, <2>2, Zenon DEF WrittenRight
    <2>4. LayerIs(x, y.rule, y.seed, R, y.pc, y.com, y.pa, y.pb)
      <3>1. PICK r, s, p, q, c, a, b : y.rule = r /\ y.seed = s /\ y.rpc = p /\ y.pc = q /\ y.com = c
                                       /\ y.pa = a /\ y.pb = b
        OBVIOUS
      <3>2. y = [rule |-> r, seed |-> s, rpc |-> p, pc |-> q, com |-> c, pa |-> a, pb |-> b]
        BY <1>6, <3>1, Zenon
      <3>3. [y EXCEPT !.rpc = R] = [rule |-> r, seed |-> s, rpc |-> R, pc |-> q, com |-> c, pa |-> a, pb |-> b]
        BY <3>2
      <3> QED
        BY <2>3, <3>1, <3>3, Zenon DEF LayerIs
    <2>5. LayerHas(x, y.rule, y.seed, R, y.pc, y.com, y.pa, y.pb)
      BY <2>4, LayerFields
    <2>6. Len(R) = S /\ R # <<>>
      <3>1. R = [j \in 1..S |-> R[j]] /\ DOMAIN R = 1..S
        BY <2>2, Zenon
      <3>2. Len(R) = S
        BY <3>1, FnSeq
      <3>3. Len(<<>>) = 0
        OBVIOUS
      <3> QED
        BY <3>2, <3>3
    <2>7. ~IsProd(x) /\ x.rule = "base" /\ x.seed = l.seed /\ x.rpc = R /\ x.pc = y.pc
          /\ x = [rule |-> x.rule, seed |-> x.seed, rpc |-> x.rpc, pc |-> x.pc, com |-> x.com,
                  pa |-> x.pa, pb |-> x.pb]
      BY <1>1, <1>6, <2>5 DEF IsProd, LayerHas
    <2>8. \A points \in {x.pc, x.rpc} : points = <<>> \/ (~IsProd(x) /\ Len(points) = S)
      BY <1>6, <1>8, <2>6, <2>7
    <2>9. LayerOK(x, S)
      BY <1>8, <1>9, <2>7, <2>8 DEF LayerOK
    <2> QED
      BY <1>2, <1>9, <2>6, <2>7, <2>9, Zenon DEF OldRight
  <1>10. CASE ver # 4
    <2>1. ~(ver >= 4)
      BY <1>10
    <2>2. x = y
      BY <1>2, <1>3, <2>1, Zenon DEF WrittenRight
    <2>3. \A points \in {y.pc, y.rpc} : points = <<>> \/ (~IsProd(y) /\ Len(points) = S)
      BY <1>6, <1>7, <1>8
    <2>4. LayerOK(y, S)
      BY <1>1, <1>6, <1>7, <1>8, <2>3 DEF LayerOK
    <2> QED
      BY <1>2, <1>6, <1>7, <1>10, <2>2, <2>4, Zenon DEF OldRight
  <1> QED
    BY <1>9, <1>10

\* deserialize_cipher after serialize_cipher or its predecessors.
ReadLayers(ver, L, S) == [i \in DOMAIN L |-> ReadLayer(ver, WriteLayer(ver, L[i]), S)]

\* What reading returns, if its shape is accepted.
Back(ver, c) == Cipher(ReadLayers(ver, c.L, c.slots), c.E, c.c0, c.slots)

\* deserialize_cipher in these parts.
BackForm(ver, c) ==
    DeserializeCipher(Write(ver, c)) = IF ValidCipherShape(Back(ver, c)) THEN Back(ver, c) ELSE NoCipher

\* For every version and ciphertext.
LEMMA BackFormFacts == ASSUME NEW ver, NEW c PROVE BackForm(ver, c)
  <1>1. PICK w : w = Write(ver, c)
    OBVIOUS
  <1>2. /\ w.ver = ver /\ w.L = [i \in DOMAIN c.L |-> WriteLayer(ver, c.L[i])] /\ w.E = c.E
        /\ w.c0 = c.c0 /\ w.slots = c.slots
    BY <1>1 DEF Write
  <1>3. DOMAIN w.L = DOMAIN c.L /\ \A i \in DOMAIN c.L : w.L[i] = WriteLayer(ver, c.L[i])
    BY <1>2, Zenon
  <1>4. [i \in DOMAIN w.L |-> ReadLayer(w.ver, w.L[i], w.slots)] = ReadLayers(ver, c.L, c.slots)
    BY <1>2, <1>3, Zenon DEF ReadLayers
  <1>5. PICK d : d = [L |-> [i \in DOMAIN w.L |-> ReadLayer(w.ver, w.L[i], w.slots)],
                      E |-> w.E, c0 |-> w.c0, slots |-> w.slots]
    OBVIOUS
  <1>6. d = Back(ver, c)
    BY <1>2, <1>4, <1>5, Zenon DEF Back, Cipher
  <1>7. DeserializeCipher(w) = IF ValidCipherShape(d) THEN d ELSE NoCipher
    BY <1>5, Zenon DEF DeserializeCipher
  <1> QED
    BY <1>1, <1>6, <1>7, Zenon DEF BackForm

\* Layers that are products of the same layers.
SameTree(L, J) ==
    /\ IsSeq(J) /\ Len(J) = Len(L)
    /\ \A i \in 1..Len(L) :
           /\ IsProd(J[i]) <=> IsProd(L[i])
           /\ IsProd(L[i]) => J[i].pa = L[i].pa /\ J[i].pb = L[i].pb

\* Equal where the provers would have to compare tables.
SameDepth(c, d, S) == MulDepth(d) = MulDepth(c)

\* The depth is one of the parents named.
LEMMA DepthSameTree ==
    ASSUME NEW c, NEW d, NEW S, LayersOK(c.L, S), LayersOK(d.L, S), SameTree(c.L, d.L)
    PROVE  SameDepth(c, d, S)
  <1>1. PICK n \in Nat : n = Len(c.L) /\ n = Len(d.L)
    BY DEF LayersOK, IsSeq, SameTree
  <1>2. PICK e : Deep(c.L, e, MulDepth(c))
    BY DeepIs
  <1>3. PICK f : Deep(d.L, f, MulDepth(d))
    BY DeepIs
  <1>4. \A i \in 1..n : (IsProd(d.L[i]) <=> IsProd(c.L[i]))
                        /\ (IsProd(c.L[i]) => d.L[i].pa = c.L[i].pa /\ d.L[i].pb = c.L[i].pb)
    BY <1>1, Zenon DEF SameTree
  <1>5. DepthTable(e, d.L, n)
    <2>1. e = [i \in 1..n |-> IF IsProd(c.L[i]) THEN Max({e[c.L[i].pa], e[c.L[i].pb]}) + 1 ELSE 0]
      BY <1>1, <1>2, Zenon DEF Deep, DepthTable
    <2>2. \A i \in 1..n : (IF IsProd(c.L[i]) THEN Max({e[c.L[i].pa], e[c.L[i].pb]}) + 1 ELSE 0)
                          = IF IsProd(d.L[i]) THEN Max({e[d.L[i].pa], e[d.L[i].pb]}) + 1 ELSE 0
      BY <1>4, Zenon
    <2>3. [i \in 1..n |-> IF IsProd(c.L[i]) THEN Max({e[c.L[i].pa], e[c.L[i].pb]}) + 1 ELSE 0]
          = [i \in 1..n |-> IF IsProd(d.L[i]) THEN Max({e[d.L[i].pa], e[d.L[i].pb]}) + 1 ELSE 0]
      BY <2>2, Zenon
    <2> QED
      BY <2>1, <2>3, Zenon DEF DepthTable
  <1>6. PICK x, y : x = MulDepth(c) /\ y = MulDepth(d)
    OBVIOUS
  <1>7. Deep(d.L, e, x)
    BY <1>1, <1>2, <1>5, <1>6, Zenon DEF Deep
  <1>8. ParentsBelow(d.L) /\ Len(d.L) \in Nat
    BY <1>1 DEF LayersOK
  <1>9. Embeds(d.L, d.L, 1..n, IdOn(n))
    <2>1. \A i \in 1..n : IdOn(n)[i] = i
      BY Zenon DEF IdOn
    <2>2. \A i \in 1..n : IsProd(d.L[i]) => d.L[i].pa \in 1..n /\ d.L[i].pb \in 1..n
      BY <1>1, <1>8 DEF ParentsBelow
    <2>3. \A i \in 1..n : SameLayer(d.L[i], d.L[i])
      BY Zenon DEF SameLayer
    <2> QED
      BY <1>1, <2>1, <2>2, <2>3, Zenon DEF Embeds
  <1>10. 1..n \in SUBSET (1..Len(d.L))
    BY <1>1
  <1>11. Carried(d.L, d.L, 1..n, IdOn(n), e, f, x, y)
    BY <1>3, <1>6, <1>7, <1>8, <1>9, <1>10, DepthMoves
  <1>12. \A i \in 1..n : f[i] = e[i]
    BY <1>11 DEF Carried, IdOn
  <1>13. x \in Nat /\ y \in Nat /\ (\A i \in 1..n : e[i] \in Nat /\ e[i] <= x /\ f[i] <= y)
         /\ (x = 0 \/ \E i \in 1..n : e[i] = x) /\ (y = 0 \/ \E i \in 1..n : f[i] = y)
    BY <1>1, <1>3, <1>6, <1>7 DEF Deep
  <1>14. x = y
    BY <1>12, <1>13
  <1> QED
    BY <1>6, <1>14 DEF SameDepth

\* A good ciphertext written and read in the current version.
SavedRight(c) ==
    LET d == Back(3, c)
    IN  /\ DeserializeCipher(Write(3, c)) = d /\ DeserializeCipher(SerializeCipher(c)) = d
        /\ Alike(c, d) /\ d.E = c.E /\ d.c0 = c.c0 /\ Len(d.L) = Len(c.L)
        /\ DOMAIN d.L = 1..Len(c.L)
        /\ \A i \in 1..Len(c.L) : Reread(d.L[i], c.L[i])

\* For every good ciphertext.
LEMMA SavedFacts == ASSUME NEW c, Good(c) PROVE SavedRight(c)
  <1>1. PICK d, S, n, J : d = Back(3, c) /\ S = c.slots /\ n = Len(c.L) /\ J = ReadLayers(3, c.L, S)
    OBVIOUS
  <1>2. /\ ShapeOK(c) /\ Needed(c.L, c.E) /\ S \in Slots /\ S \in Nat /\ n \in Nat /\ DOMAIN c.L = 1..n
        /\ LayersOK(c.L, S) /\ EdgesOK(c.E, n, S) /\ ConstOK(c.c0, S)
        /\ \A k \in 1..Len(c.E) : c.E[k].lid \in 1..n
    BY <1>1, ShapeParts DEF Good
  <1>3. d = Cipher(J, c.E, c.c0, S)
    BY <1>1, Zenon DEF Back
  <1>4. d.L = J /\ d.E = c.E /\ d.c0 = c.c0 /\ d.slots = S
    BY <1>3, PartsFacts DEF PartsRight
  <1>5. \A i \in 1..n : LayerOK(c.L[i], S)
    BY <1>1, <1>2, Zenon DEF LayersOK
  <1>6. DOMAIN J = 1..n /\ J = [i \in 1..n |-> J[i]]
        /\ \A i \in 1..n : J[i] = ReadLayer(3, WriteLayer(3, c.L[i]), S)
    BY <1>1, <1>2, Zenon DEF ReadLayers
  <1>7. IsSeq(J) /\ Len(J) = n
    BY <1>2, <1>6, FnSeq
  <1>8. ASSUME NEW i \in 1..n PROVE Reread(J[i], c.L[i]) /\ LayerOK(J[i], S)
    <2>1. RereadRight(c.L[i], S)
      BY <1>5, RereadFacts
    <2> QED
      BY <1>6, <2>1, Zenon DEF RereadRight
  <1>9. \A i \in 1..n : /\ (IsProd(J[i]) <=> IsProd(c.L[i])) /\ J[i].com = c.L[i].com
                        /\ (IsProd(c.L[i]) => J[i].pa = c.L[i].pa /\ J[i].pb = c.L[i].pb)
    BY <1>8, Zenon DEF Reread
  <1>10. \A i \in 1..n : IsProd(c.L[i]) => c.L[i].pa \in 1..(i - 1) /\ c.L[i].pb \in 1..(i - 1)
    BY <1>1, <1>2, Zenon DEF LayersOK, ParentsBelow
  <1>11. \A i \in 1..n : IsProd(c.L[i]) => c.L[i].pa \in 1..n /\ c.L[i].pb \in 1..n
    BY <1>2, <1>10
  <1>12. \A i \in 1..n : IsProd(c.L[i]) =>
             c.L[i].com \in {NoCom, <<"prod", c.L[c.L[i].pa].com, c.L[c.L[i].pb].com>>}
    BY <1>1, <1>2, Zenon DEF LayersOK, CommitmentsFollowParents
  <1>13. ParentsBelow(J)
    BY <1>7, <1>9, <1>10, Zenon DEF ParentsBelow
  <1>14. CommitmentsFollowParents(J)
    <2>1. ASSUME NEW i \in 1..n, IsProd(J[i])
          PROVE  J[i].com \in {NoCom, <<"prod", J[J[i].pa].com, J[J[i].pb].com>>}
      <3>1. IsProd(c.L[i]) /\ J[i].com = c.L[i].com /\ J[i].pa = c.L[i].pa /\ J[i].pb = c.L[i].pb
        BY <1>9, <2>1
      <3>2. PICK p \in 1..n, q \in 1..n : p = c.L[i].pa /\ q = c.L[i].pb
        BY <1>11, <3>1
      <3>3. J[p].com = c.L[p].com /\ J[q].com = c.L[q].com
        BY <1>9
      <3>4. c.L[i].com \in {NoCom, <<"prod", c.L[p].com, c.L[q].com>>}
        BY <1>12, <3>1, <3>2, Zenon
      <3> QED
        BY <3>1, <3>2, <3>3, <3>4, Zenon
    <2> QED
      BY <1>6, <2>1, Zenon DEF CommitmentsFollowParents
  <1>15. LayersOK(J, S)
    BY <1>7, <1>8, <1>13, <1>14, Zenon DEF LayersOK
  <1>16. ShapeOK(d)
    BY <1>2, <1>3, <1>7, <1>15, ShapeMake, Zenon
  <1>17. Needed(J, c.E)
    <2>1. \A k \in 1..Len(c.E) : IsProd(J[c.E[k].lid]) => c.E[k].s # {}
      <3>1. \A k \in 1..Len(c.E) : IsProd(c.L[c.E[k].lid]) => c.E[k].s # {}
        BY <1>2, Zenon DEF Needed
      <3> QED
        BY <1>2, <1>9, <3>1, Zenon
    <2>2. ASSUME NEW i \in 1..n, IsProd(J[i])
          PROVE  \/ \E k \in 1..Len(c.E) : c.E[k].lid = i
                 \/ \E m \in 1..n : IsProd(J[m]) /\ i \in {J[m].pa, J[m].pb}
      <3>1. \/ \E k \in 1..Len(c.E) : c.E[k].lid = i
            \/ \E m \in 1..n : IsProd(c.L[m]) /\ i \in {c.L[m].pa, c.L[m].pb}
        BY <1>1, <1>2, <1>9, <2>2, Zenon DEF Needed
      <3> QED
        BY <1>9, <3>1, Zenon
    <2> QED
      BY <1>7, <2>1, <2>2, Zenon DEF Needed
  <1>18. Good(d)
    BY <1>4, <1>16, <1>17, Zenon DEF Good
  <1>19. SameDepth(c, d, S)
    <2>1. SameTree(c.L, d.L)
      BY <1>1, <1>4, <1>7, <1>9, Zenon DEF SameTree
    <2> QED
      BY <1>2, <1>4, <1>15, <2>1, DepthSameTree
  <1>20. ValidCipherShape(d) /\ ~Threw(d) /\ ValidCipherShape(c)
    BY <1>2, <1>16, ShapeFits
  <1>21. DeserializeCipher(Write(3, c)) = d
    <2>1. BackForm(3, c)
      BY BackFormFacts
    <2> QED
      BY <1>1, <1>20, <2>1, Zenon DEF BackForm
  <1>22. DeserializeCipher(SerializeCipher(c)) = d
    BY <1>20, <1>21, Zenon DEF SerializeCipher
  <1>23. Alike(c, d)
    BY <1>1, <1>4, <1>18, <1>19, <1>20, Zenon DEF Alike, SameDepth
  <1> QED
    BY <1>1, <1>4, <1>6, <1>7, <1>8, <1>21, <1>22, <1>23, Zenon DEF SavedRight

\* commit_ct and cipher_has_key_bound_material do not tell them apart.
SavedSame(c) ==
    LET d == DeserializeCipher(SerializeCipher(c))
    IN  CommitCt(d) = CommitCt(c) /\ KeyBound(d) = KeyBound(c)

\* For every good ciphertext.
LEMMA SavedSameFacts == ASSUME NEW c, Good(c) PROVE SavedSame(c)
  <1>1. PICK d : d = DeserializeCipher(SerializeCipher(c))
    OBVIOUS
  <1>2. SavedRight(c)
    BY SavedFacts
  <1>3. /\ d.E = c.E /\ d.c0 = c.c0 /\ d.slots = c.slots /\ DOMAIN d.L = 1..Len(c.L)
        /\ \A i \in 1..Len(c.L) : Reread(d.L[i], c.L[i])
    BY <1>1, <1>2, Zenon DEF SavedRight, Alike
  <1>4. DOMAIN c.L = 1..Len(c.L)
    BY ShapeParts DEF Good
  <1>5. DOMAIN d.L = DOMAIN c.L
    BY <1>3, <1>4
  <1> DEFINE Told(l) == <<l.rule, IF IsProd(l) THEN <<l.pa, l.pb>> ELSE <<l.seed>>, l.com, l.rpc, l.pc>>
  <1>6. ASSUME NEW x, NEW l, Reread(x, l) PROVE Told(x) = Told(l)
    <2>1. /\ x.rule = l.rule /\ x.rpc = l.rpc /\ x.pc = l.pc /\ x.com = l.com /\ (IsProd(x) <=> IsProd(l))
          /\ IsProd(l) => x.pa = l.pa /\ x.pb = l.pb
          /\ ~IsProd(l) => x.seed = l.seed
      BY <1>6, Zenon DEF Reread
    <2>2. (IF IsProd(x) THEN <<x.pa, x.pb>> ELSE <<x.seed>>) = IF IsProd(l) THEN <<l.pa, l.pb>> ELSE <<l.seed>>
      BY <2>1, Zenon
    <2> QED
      BY <2>1, <2>2, Zenon
  <1>7. [i \in DOMAIN d.L |-> Told(d.L[i])] = [i \in DOMAIN c.L |-> Told(c.L[i])]
    <2>1. \A i \in DOMAIN c.L : Told(d.L[i]) = Told(c.L[i])
      <3> HIDE DEF Told
      <3> QED
        BY <1>3, <1>4, <1>6, Zenon
    <2> HIDE DEF Told
    <2> QED
      BY <1>5, <2>1, Zenon
  <1>8. CommitCt(d) = <<[i \in DOMAIN d.L |-> Told(d.L[i])], d.slots, d.c0, d.E>>
        /\ CommitCt(c) = <<[i \in DOMAIN c.L |-> Told(c.L[i])], c.slots, c.c0, c.E>>
    BY Zenon DEF CommitCt
  <1>9. CommitCt(d) = CommitCt(c)
    <2> HIDE DEF Told
    <2> QED
      BY <1>3, <1>7, <1>8, Zenon
  <1>10. \A i \in DOMAIN c.L : (IsProd(d.L[i]) <=> IsProd(c.L[i])) /\ d.L[i].rpc = c.L[i].rpc
                               /\ d.L[i].pc = c.L[i].pc
    BY <1>3, <1>4, Zenon DEF Reread
  <1>11. KeyBound(d) <=> KeyBound(c)
    BY <1>3, <1>5, <1>10, Zenon DEF KeyBound
  <1>12. KeyBound(d) \in BOOLEAN /\ KeyBound(c) \in BOOLEAN
    BY Zenon DEF KeyBound
  <1> QED
    BY <1>1, <1>9, <1>11, <1>12, Zenon DEF SavedSame

\* A ciphertext of base layers, written by an earlier program.
BaseBack(ver, c) ==
    LET d == Back(ver, c)
    IN  /\ DeserializeCipher(Write(ver, c)) = d /\ Good(d) /\ ~Threw(d) /\ MulDepth(d) = 0
        /\ d.slots = c.slots /\ d.E = c.E /\ d.c0 = c.c0 /\ Len(d.L) = Len(c.L)
        /\ \A i \in 1..Len(c.L) : /\ d.L[i] = ReadLayer(ver, WriteLayer(ver, c.L[i]), c.slots)
                                  /\ OldRight(ver, c.L[i], c.slots)

\* For every well-formed ciphertext of base layers.
LEMMA BaseBackFacts ==
    ASSUME NEW ver \in {1, 2, 4}, NEW c, ShapeOK(c), \A i \in 1..Len(c.L) : ~IsProd(c.L[i]),
           ver = 4 => \A i \in 1..Len(c.L) : c.L[i].rpc # <<>>
    PROVE  BaseBack(ver, c)
  <1>1. PICK d, S, n, J : d = Back(ver, c) /\ S = c.slots /\ n = Len(c.L) /\ J = ReadLayers(ver, c.L, S)
    OBVIOUS
  <1>2. /\ S \in Slots /\ S \in Nat /\ S # 0 /\ n \in Nat /\ DOMAIN c.L = 1..n
        /\ LayersOK(c.L, S) /\ EdgesOK(c.E, n, S) /\ ConstOK(c.c0, S)
        /\ \A k \in 1..Len(c.E) : c.E[k].lid \in 1..n
    BY <1>1, ShapeParts
  <1>3. d = Cipher(J, c.E, c.c0, S)
    BY <1>1, Zenon DEF Back
  <1>4. d.L = J /\ d.E = c.E /\ d.c0 = c.c0 /\ d.slots = S
    BY <1>3, PartsFacts DEF PartsRight
  <1>5. \A i \in 1..n : LayerOK(c.L[i], S)
    BY <1>1, <1>2, Zenon DEF LayersOK
  <1>6. DOMAIN J = 1..n /\ J = [i \in 1..n |-> J[i]]
        /\ \A i \in 1..n : J[i] = ReadLayer(ver, WriteLayer(ver, c.L[i]), S)
    BY <1>1, <1>2, Zenon DEF ReadLayers
  <1>7. IsSeq(J) /\ Len(J) = n
    BY <1>2, <1>6, FnSeq
  <1>8. ASSUME NEW i \in 1..n PROVE OldRight(ver, c.L[i], S) /\ LayerOK(J[i], S) /\ ~IsProd(J[i])
    <2>1. ~IsProd(c.L[i]) /\ (ver = 4 => c.L[i].rpc # <<>>) /\ LayerOK(c.L[i], S)
      BY <1>1, <1>5
    <2>2. OldRight(ver, c.L[i], S)
      BY <1>2, <2>1, OldFacts
    <2> QED
      BY <1>6, <2>2, Zenon DEF OldRight
  <1>9. LayersOK(J, S) /\ Needed(J, c.E)
    BY <1>2, <1>7, <1>8, BaseLayers
  <1>10. ShapeOK(d)
    BY <1>2, <1>3, <1>7, <1>9, ShapeMake, Zenon
  <1>11. Good(d)
    BY <1>4, <1>9, <1>10, Zenon DEF Good
  <1>12. ValidCipherShape(d) /\ ~Threw(d)
    BY <1>10, ShapeFits
  <1>13. DeserializeCipher(Write(ver, c)) = d
    <2>1. BackForm(ver, c)
      BY BackFormFacts
    <2> QED
      BY <1>1, <1>12, <2>1, Zenon DEF BackForm
  <1>14. MulDepth(d) = 0
    <2>1. \A i \in 1..Len(d.L) : ~IsProd(d.L[i])
      BY <1>4, <1>7, <1>8
    <2> QED
      BY <1>4, <1>9, <2>1, DepthBase
  <1> QED
    BY <1>1, <1>4, <1>6, <1>7, <1>8, <1>11, <1>12, <1>13, <1>14, Zenon DEF BaseBack

-----------------------------------------------------------------------------
(* What earlier programs stored *)

\* A layer with the points of another seed: none of them is looked at.
StoredLayer(s, u, S) ==
    [rule |-> "base", seed |-> s, rpc |-> <<>>, pc |-> Points("pc", u, S), com |-> <<"base", s>>,
     pa |-> 0, pb |-> 0]

\* Such a layer is well-formed.
LEMMA StoredLayerOK ==
    ASSUME NEW S \in Slots, NEW s \in Seed, NEW u
    PROVE  /\ LayerOK(StoredLayer(s, u, S), S) /\ ~IsProd(StoredLayer(s, u, S))
           /\ StoredLayer(s, u, S).rpc = <<>> /\ StoredLayer(s, u, S).seed = s
  <1>1. PICK x, p : x = StoredLayer(s, u, S) /\ p = Points("pc", u, S)
    OBVIOUS
  <1>2. S \in Nat /\ S # 0
    BY SlotsFacts
  <1>3. Len(p) = S
    BY <1>1, <1>2, PointsFacts
  <1>4. LayerIs(x, "base", s, <<>>, p, <<"base", s>>, 0, 0)
    BY <1>1, Zenon DEF LayerIs, StoredLayer
  <1>5. LayerHas(x, "base", s, <<>>, p, <<"base", s>>, 0, 0)
    BY <1>4, LayerFields
  <1>6. ~IsProd(x) /\ x.rpc = <<>> /\ x.seed = s /\ x.pc = p /\ x.rule = "base"
        /\ x = [rule |-> x.rule, seed |-> x.seed, rpc |-> x.rpc, pc |-> x.pc, com |-> x.com,
                pa |-> x.pa, pb |-> x.pb]
    BY <1>5 DEF LayerHas, IsProd
  <1>7. \A points \in {x.pc, x.rpc} : points = <<>> \/ (~IsProd(x) /\ Len(points) = S)
    BY <1>3, <1>6
  <1>8. LayerOK(x, S)
    BY <1>6, <1>7 DEF LayerOK
  <1> QED
    BY <1>1, <1>6, <1>8, Zenon

\* The four.
OldCt(v, t) ==
    SynthUnder(StoredLayer(DrawSeed(t, 0), DrawSeed(t, 0), Len(v)), LegacyR(DrawSeed(t, 0), Len(v)), v, t)

\* Without a constant.
First(v, t) == [OldCt(v, t) EXCEPT !.c0 = <<>>]

\* With a layer that no edge names.
Second(v, t) ==
    [OldCt(v, t) EXCEPT
        !.L = <<StoredLayer(DrawSeed(t, 1), DrawSeed(t, 0), Len(v))>> \o OldCt(v, t).L,
        !.E = MoveEdges(OldCt(v, t).E, 1)]

\* Stored in these parts.
StoredForm(v, t) ==
    Stored(v, t) = {Write(1, First(v, t)), Write(2, Second(v, t)), Write(4, EncValues(v, t)),
                    Write(3, Bare(v, Len(v)))}

\* For every value and tape.
LEMMA StoredFormFacts == ASSUME NEW v, NEW t PROVE StoredForm(v, t)
  <1>1. PICK s, u, S, p : s = DrawSeed(t, 0) /\ u = DrawSeed(t, 1) /\ S = Len(v) /\ p = Points("pc", s, S)
    OBVIOUS
  <1>2. PICK l : l = [Blank EXCEPT !.seed = s, !.com = <<"base", s>>, !.pc = p]
    OBVIOUS
  <1>3. l = [rule |-> "base", seed |-> s, rpc |-> <<>>, pc |-> p, com |-> <<"base", s>>, pa |-> 0, pb |-> 0]
    BY <1>2 DEF Blank
  <1>4. PICK i : i = [l EXCEPT !.seed = u, !.com = <<"base", u>>]
    OBVIOUS
  <1>5. i = [rule |-> "base", seed |-> u, rpc |-> <<>>, pc |-> p, com |-> <<"base", u>>, pa |-> 0, pb |-> 0]
    BY <1>3, <1>4
  <1>6. l = StoredLayer(s, s, S) /\ i = StoredLayer(u, s, S)
    BY <1>1, <1>3, <1>5, Zenon DEF StoredLayer
  <1>7. PICK old : old = SynthUnder(l, LegacyR(s, S), v, t)
    OBVIOUS
  <1>8. old = OldCt(v, t)
    BY <1>1, <1>6, <1>7, Zenon DEF OldCt
  <1>9. [NoCipher EXCEPT !.c0 = v, !.slots = S] = Bare(v, S)
    <2>1. PICK e, z : e = <<>> /\ z = 0
      OBVIOUS
    <2>2. NoCipher \in [L : {e}, E : {e}, c0 : {e}, slots : {z}]
      BY <2>1 DEF NoCipher
    <2>3. PICK n, y : n = NoCipher /\ y = [n EXCEPT !.c0 = v, !.slots = S]
      OBVIOUS
    <2>4. y \in [L : {e}, E : {e}, c0 : {v}, slots : {S}]
      BY <2>2, <2>3
    <2>5. y = [L |-> e, E |-> e, c0 |-> v, slots |-> S]
      BY <2>4
    <2> QED
      BY <2>1, <2>3, <2>5, Zenon DEF Bare, Cipher
  <1>10. Stored(v, t) = {Write(1, [old EXCEPT !.c0 = <<>>]),
                         Write(2, [old EXCEPT !.L = <<i>> \o old.L, !.E = MoveEdges(old.E, 1)]),
                         Write(4, EncValues(v, t)),
                         Write(3, [NoCipher EXCEPT !.c0 = v, !.slots = S])}
    BY <1>1, <1>2, <1>4, <1>7, Zenon DEF Stored
  <1> QED
    BY <1>1, <1>6, <1>8, <1>9, <1>10, Zenon DEF StoredForm, First, Second

\* What the old ciphertexts are.
OldCtRight(v, t, S) ==
    LET old == OldCt(v, t)
        l == StoredLayer(DrawSeed(t, 0), DrawSeed(t, 0), S)
        i == StoredLayer(DrawSeed(t, 1), DrawSeed(t, 0), S)
    IN  /\ Good(old) /\ old.slots = S /\ old.L = <<l>> /\ old.c0 = Zeros(S) /\ old.E \in Seq(EdgeSet(1, S))
        /\ LegacyR(DrawSeed(t, 0), S) \in Vec(S)
        /\ LayerOK(l, S) /\ ~IsProd(l) /\ l.rpc = <<>> /\ l.seed = DrawSeed(t, 0)
        /\ LayerOK(i, S) /\ ~IsProd(i)
        /\ First(v, t) = Cipher(<<l>>, old.E, <<>>, S) /\ ShapeOK(First(v, t))
        /\ Second(v, t) = Cipher(<<i>> \o <<l>>, MoveEdges(old.E, 1), Zeros(S), S) /\ ShapeOK(Second(v, t))
        /\ Len(<<i>> \o <<l>>) = 2 /\ (<<i>> \o <<l>>)[1] = i /\ (<<i>> \o <<l>>)[2] = l
        /\ MovedEdges(old.E, 1, 2, S)

\* For every value and tape.
LEMMA OldCtFacts ==
    ASSUME NEW S \in Slots, NEW v \in Vec(S), NEW t \in Nat
    PROVE  OldCtRight(v, t, S)
  <1>1. S \in Nat /\ S # 0 /\ Len(v) = S /\ 0 \in Nat /\ 1 \in Nat /\ 2 \in Nat
    BY SlotsFacts, VecFacts
  <1>2. DrawSeed(t, 0) \in Seed /\ DrawSeed(t, 1) \in Seed
    BY <1>1, DrawsFacts DEF DrawsRight
  <1>3. PICK s \in Seed, u \in Seed : s = DrawSeed(t, 0) /\ u = DrawSeed(t, 1)
    BY <1>2
  <1>4. PICK l, i : l = StoredLayer(s, s, S) /\ i = StoredLayer(u, s, S)
    OBVIOUS
  <1>5. LayerOK(l, S) /\ ~IsProd(l) /\ l.rpc = <<>> /\ l.seed = s /\ LayerOK(i, S) /\ ~IsProd(i)
    BY <1>4, StoredLayerOK
  <1>6. PICK R \in Vec(S) : R = LegacyR(s, S)
    BY MasksFacts
  <1>7. PICK old : old = SynthUnder(l, R, v, t)
    OBVIOUS
  <1>8. Good(old) /\ old.slots = S /\ old.c0 = Zeros(S) /\ old.L = <<l>>
    BY <1>5, <1>7, SynthGood
  <1>9. old = OldCt(v, t)
    BY <1>1, <1>3, <1>4, <1>6, <1>7, Zenon DEF OldCt
  <1>10. IsSeq(<<l>>) /\ Len(<<l>>) = 1 /\ <<l>>[1] = l /\ IsSeq(<<i>>) /\ Len(<<i>>) = 1 /\ <<i>>[1] = i
    BY OneLayer
  <1>11. /\ old = Cipher(old.L, old.E, old.c0, old.slots) /\ EdgesOK(old.E, 1, S) /\ LayersOK(<<l>>, S)
         /\ old.E \in Seq(EdgeSet(1, S))
    BY <1>8, <1>10, ShapeParts DEF Good
  <1>12. First(v, t) = Cipher(<<l>>, old.E, <<>>, S)
    <2>1. ReplaceRight(old, <<l>>, old.E, <<>>)
      BY <1>11, ReplaceFacts
    <2> QED
      BY <1>8, <1>9, <2>1, Zenon DEF ReplaceRight, First
  <1>13. ShapeOK(First(v, t))
    <2>1. ConstOK(<<>>, S)
      BY DEF ConstOK
    <2> QED
      BY <1>10, <1>11, <1>12, <2>1, ShapeMake
  <1>14. PICK J, F : J = <<i>> \o <<l>> /\ F = MoveEdges(old.E, 1)
    OBVIOUS
  <1>15. ConcatRight(<<i>>, <<l>>)
    BY <1>10, ConcatFacts
  <1>16. IsSeq(J) /\ Len(J) = 2 /\ J[1] = i /\ J[2] = l
    <2>1. PICK p, q : p = <<i>> /\ q = <<l>>
      OBVIOUS
    <2>2. /\ IsSeq(J) /\ Len(J) = Len(p) + Len(q) /\ \A k \in 1..Len(p) : J[k] = p[k]
          /\ \A k \in 1..Len(q) : J[Len(p) + k] = q[k]
      BY <1>14, <1>15, <2>1, Zenon DEF ConcatRight
    <2>3. Len(p) = 1 /\ Len(q) = 1 /\ p[1] = i /\ q[1] = l
      BY <1>10, <2>1
    <2>4. Len(J) = 2 /\ J[1] = p[1] /\ J[1 + 1] = q[1]
      BY <2>2, <2>3
    <2> QED
      BY <2>2, <2>3, <2>4
  <1>17. MovedEdges(old.E, 1, 2, S)
    <2>1. 1 + 1 <= 2
      OBVIOUS
    <2> QED
      BY <1>1, <1>11, <2>1, MoveEdgesFacts
  <1>18. EdgesOK(F, 2, S)
    BY <1>14, <1>17, Zenon DEF MovedEdges
  <1>19. Second(v, t) = Cipher(J, F, Zeros(S), S)
    <2>1. ReplaceRight(old, J, F, old.c0)
      BY <1>11, ReplaceFacts
    <2> QED
      BY <1>1, <1>3, <1>4, <1>8, <1>9, <1>14, <2>1, Zenon DEF ReplaceRight, Second
  <1>20. LayersOK(J, S)
    <2>1. \A k \in 1..Len(J) : LayerOK(J[k], S) /\ ~IsProd(J[k])
      BY <1>5, <1>16
    <2>2. \A k \in 1..Len(F) : F[k].lid \in 1..Len(J)
      <3>1. F \in Seq(EdgeSet(2, S))
        BY <1>18 DEF EdgesOK
      <3> QED
        <4>1. \A k \in 1..Len(F) : F[k] \in EdgeSet(2, S)
          BY <3>1, SeqIs
        <4>2. \A k \in 1..Len(F) : F[k].lid \in 1..2
          BY <4>1 DEF EdgeSet
        <4> QED
          BY <1>16, <4>2
    <2> QED
      BY <1>16, <2>1, <2>2, BaseLayers
  <1>21. ShapeOK(Second(v, t))
    <2>1. ConstOK(Zeros(S), S)
      <3>1. Zeros(S) \in Vec(S)
        BY <1>1, VecOps
      <3> QED
        BY <3>1 DEF ConstOK
    <2>2. EdgesOK(F, Len(J), S)
      BY <1>16, <1>18
    <2> QED
      BY <1>19, <1>20, <2>1, <2>2, ShapeMake
  <1> QED
    BY <1>3, <1>4, <1>5, <1>6, <1>8, <1>9, <1>11, <1>12, <1>13, <1>14, <1>16, <1>17, <1>19, <1>21, Zenon
       DEF OldCtRight

\* Loading what was stored fails only if it was never made.
LoadRight(v, t, bytes) ==
    LET c == DeserializeCipher(bytes)
    IN  IF Threw(c) THEN NoMask(t, Len(v)) ELSE Good(c) /\ c.slots = Len(v) /\ MulDepth(c) = 0

\* For everything that earlier programs stored.
LEMMA LoadFacts ==
    ASSUME NEW S \in Slots, NEW v \in Vec(S), NEW t \in Nat, NEW bytes \in Stored(v, t)
    PROVE  LoadRight(v, t, bytes)
  <1>1. Len(v) = S
    BY SlotsFacts, VecFacts
  <1>2. StoredForm(v, t)
    BY StoredFormFacts
  <1>3. OldCtRight(v, t, S)
    BY OldCtFacts
  <1>4. PICK l, i, old : /\ l = StoredLayer(DrawSeed(t, 0), DrawSeed(t, 0), S) /\ old = OldCt(v, t)
                         /\ i = StoredLayer(DrawSeed(t, 1), DrawSeed(t, 0), S)
    OBVIOUS
  <1>5. CASE bytes = Write(1, First(v, t))
    <2>1. PICK c : c = First(v, t)
      OBVIOUS
    <2>2. ShapeOK(c) /\ c = Cipher(<<l>>, old.E, <<>>, S) /\ ~IsProd(l)
      BY <1>3, <1>4, <2>1, Zenon DEF OldCtRight
    <2>3. c.L = <<l>> /\ c.slots = S
      BY <2>2, PartsFacts DEF PartsRight
    <2>4. \A k \in 1..Len(c.L) : ~IsProd(c.L[k])
      BY <2>2, <2>3, OneLayer
    <2>5. BaseBack(1, c)
      BY <2>2, <2>4, BaseBackFacts
    <2> QED
      BY <1>1, <1>5, <2>1, <2>3, <2>5, Zenon DEF BaseBack, LoadRight
  <1>6. CASE bytes = Write(2, Second(v, t))
    <2>1. PICK c, J : c = Second(v, t) /\ J = <<i>> \o <<l>>
      OBVIOUS
    <2>2. /\ ShapeOK(c) /\ c = Cipher(J, MoveEdges(old.E, 1), Zeros(S), S) /\ ~IsProd(l) /\ ~IsProd(i)
          /\ Len(J) = 2 /\ J[1] = i /\ J[2] = l
      BY <1>3, <1>4, <2>1, Zenon DEF OldCtRight
    <2>3. c.L = J /\ c.slots = S
      BY <2>2, PartsFacts DEF PartsRight
    <2>4. \A k \in 1..Len(c.L) : ~IsProd(c.L[k])
      BY <2>2, <2>3
    <2>5. BaseBack(2, c)
      BY <2>2, <2>4, BaseBackFacts
    <2> QED
      BY <1>1, <1>6, <2>1, <2>3, <2>5, Zenon DEF BaseBack, LoadRight
  <1>7. CASE bytes = Write(4, EncValues(v, t))
    <2>1. PICK c : c = EncValues(v, t)
      OBVIOUS
    <2>2. IF NoMask(t, S) THEN Threw(c) ELSE FreshRight(c, S)
      BY <2>1, EncFacts
    <2>3. CASE NoMask(t, S)
      <3>1. c.slots = 0
        BY <2>2, <2>3 DEF Threw
      <3>2. BackForm(4, c)
        BY BackFormFacts
      <3>3. Back(4, c).slots = 0
        BY <3>1, PartsFacts DEF PartsRight, Back
      <3>4. ~ValidCipherShape(Back(4, c))
        BY <3>3 DEF ValidCipherShape
      <3>5. DeserializeCipher(Write(4, c)) = NoCipher
        BY <3>2, <3>4, Zenon DEF BackForm
      <3> QED
        BY <1>1, <1>7, <2>1, <2>3, <3>5, ThrewNo, Zenon DEF LoadRight
    <2>4. CASE ~NoMask(t, S)
      <3>1. ShapeOK(c) /\ c.slots = S /\ \A k \in 1..Len(c.L) : ~IsProd(c.L[k]) /\ c.L[k].rpc # <<>>
        BY <2>2, <2>4, Zenon DEF FreshRight, Good
      <3>2. BaseBack(4, c)
        BY <3>1, BaseBackFacts
      <3> QED
        BY <1>1, <1>7, <2>1, <3>1, <3>2, Zenon DEF BaseBack, LoadRight
    <2> QED
      BY <2>3, <2>4
  <1>8. CASE bytes = Write(3, Bare(v, Len(v)))
    <2>1. PICK c : c = Bare(v, S)
      OBVIOUS
    <2>2. Good(c) /\ c.slots = S /\ MulDepth(c) = 0
      <3>1. ConstOK(v, S)
        BY DEF ConstOK
      <3> QED
        BY <2>1, <3>1, BareGood
    <2>3. SavedRight(c)
      BY <2>2, SavedFacts
    <2> QED
      BY <1>1, <1>8, <2>1, <2>2, <2>3, Zenon DEF SavedRight, Alike, LoadRight
  <1> QED
    BY <1>2, <1>5, <1>6, <1>7, <1>8, Zenon DEF StoredForm
=============================================================================
