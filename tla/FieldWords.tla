----------------------------- MODULE FieldWords -----------------------------
(***************************************************************************)
(* The arithmetic of core/field.hpp: a residue modulo the Mersenne prime   *)
(* 2^127 - 1 held in two 64-bit words.  The size of a word is a parameter, *)
(* so that a small one can be enumerated: h is the number of values of a   *)
(* high word without its top bit (2^63 in the code, MASK63 + 1), a word    *)
(* has 2h values, and the modulus is 2h^2 - 1.                             *)
(***************************************************************************)
EXTENDS Integers

Word(h) == 2 * h

Modulus(h) == h * Word(h) - 1

Fp(h) == [lo : 0..(Word(h) - 1), hi : 0..(h - 1)]

Value(h, x) == x.hi * Word(h) + x.lo

IsReduced(h, x) == x \in Fp(h) /\ Value(h, x) < Modulus(h)

\* The reduced values of a word size.
Reduced(h) == {x \in Fp(h) : Value(h, x) < Modulus(h)}

FpOf(h, v) == [lo |-> v % Word(h), hi |-> v \div Word(h)]

-----------------------------------------------------------------------------

\* The top bit of the high word is worth one; one subtraction of the modulus
\* is enough after that.
FpFromWords(h, lo, hi) ==
    LET t == lo + hi \div h
        low == t % Word(h)
        high == (hi % h) + t \div Word(h)
        need_sub == high >= h \/ (high = h - 1 /\ low = Word(h) - 1)
        borrow == IF low < Word(h) - 1 THEN 1 ELSE 0
    IN  IF need_sub
        THEN [lo |-> (low - (Word(h) - 1)) % Word(h),
              hi |-> (high - (h - 1) - borrow) % Word(h)]
        ELSE [lo |-> low, hi |-> high]

FpAdd(h, a, b) ==
    LET t0 == a.lo + b.lo
        t1 == a.hi + b.hi + t0 \div Word(h)
    IN  FpFromWords(h, t0 % Word(h), t1 % Word(h))

FpNeg(h, a) == FpFromWords(h, Word(h) - 1 - a.lo, h - 1 - a.hi)

FpSub(h, a, b) == FpAdd(h, a, FpNeg(h, b))

\* The four words of a product, from the four products of words.
Mul128x128(h, a, b) ==
    LET p00 == a.lo * b.lo
        p01 == a.lo * b.hi
        p10 == a.hi * b.lo
        p11 == a.hi * b.hi
        m1 == p00 \div Word(h) + (p01 % Word(h)) + (p10 % Word(h))
        m2 == p01 \div Word(h) + p10 \div Word(h) + (p11 % Word(h)) + m1 \div Word(h)
    IN  <<p00 % Word(h), m1 % Word(h), m2 % Word(h),
          (p11 \div Word(h) + m2 \div Word(h)) % Word(h)>>

\* Mutant: the carry out of the low words is lost.
FpReduce256NoCarry(h, z) ==
    LET l1 == z[2] % h
        h0 == (z[2] \div h + 2 * z[3]) % Word(h)
        h1 == (z[3] \div h + 2 * z[4]) % Word(h)
        t1 == l1 + h1
        x1 == t1 % Word(h)
        x2 == z[4] \div h + t1 \div Word(h)
        s0 == ((z[1] + h0) % Word(h)) + ((x1 \div h + 2 * x2) % Word(h))
    IN  FpFromWords(h, s0 % Word(h), (x1 % h) + s0 \div Word(h))

\* The bits above the modulus are added to the bits below it, twice.
FpReduce256(h, z) ==
    LET l1 == z[2] % h
        h0 == (z[2] \div h + 2 * z[3]) % Word(h)
        h1 == (z[3] \div h + 2 * z[4]) % Word(h)
        h2 == z[4] \div h
        t0 == z[1] + h0
        t1 == l1 + h1 + t0 \div Word(h)
        x1 == t1 % Word(h)
        x2 == h2 + t1 \div Word(h)
        s0 == (t0 % Word(h)) + ((x1 \div h + 2 * x2) % Word(h))
    IN  FpFromWords(h, s0 % Word(h), ((x1 % h) + s0 \div Word(h)) % Word(h))

FpMul(h, a, b) == FpReduce256(h, Mul128x128(h, a, b))

Bit(e, k) == (e \div 2^k) % 2

\* a^e, for e of `bits' bits, by windows of at most W bits, from the top.
Windows(h, bits, W, a, e) ==
    LET tbl[i \in 0..(2^W - 1)] == IF i = 0 THEN FpOf(h, 1) ELSE FpMul(h, tbl[i - 1], a)
        square[i \in Nat, r \in Fp(h)] ==
            IF i = 0 THEN r ELSE square[i - 1, FpMul(h, r, r)]
        walk[pos \in Int, r \in Fp(h)] ==
            IF pos < 0 THEN r
            ELSE IF Bit(e, pos) = 0 THEN walk[pos - 1, FpMul(h, r, r)]
            ELSE LET l == IF pos - W + 1 > 0 THEN pos - W + 1 ELSE 0
                     k == (e \div 2^l) % 2^(pos - l + 1)
                 IN  walk[l - 1, FpMul(h, square[pos - l + 1, r], tbl[k])]
    IN  walk[bits - 1, FpOf(h, 1)]

\* Mutant: the exponent is one too large.
FpInvCtExponent(h, bits, W, a) == Windows(h, bits, W, a, Modulus(h) - 1)

FpInvCt(h, bits, W, a) == Windows(h, bits, W, a, Modulus(h) - 2)

-----------------------------------------------------------------------------
(* Signed words *)

FpFromI64(h, k) ==
    IF k >= 0 THEN FpOf(h, k) ELSE FpNeg(h, FpOf(h, -(k + 1) + 1))

\* The signed word a value stands for, or {} when it stands for none.
FpToI64(h, x) ==
    LET raw == Value(h, x)
        magnitude == Modulus(h) - raw
    IN  IF raw < h THEN {raw}
        ELSE IF raw > Modulus(h) \div 2 /\ raw < Modulus(h) /\ magnitude <= h
             THEN {-magnitude}
             ELSE {}

\* The two words fhe_calc.ml hands to ct_add_const for a signed amount.
AddIntWords(h, k) ==
    IF k < 0 THEN [lo |-> (k - 1) % Word(h), hi |-> h - 1]
    ELSE [lo |-> k, hi |-> 0]

-----------------------------------------------------------------------------
(* What the words stand for *)

Signed(h) == -h..(h - 1)

AddRight(h) ==
    \A a, b \in Reduced(h) :
        /\ IsReduced(h, FpAdd(h, a, b)) /\ IsReduced(h, FpSub(h, a, b))
        /\ Value(h, FpAdd(h, a, b)) = (Value(h, a) + Value(h, b)) % Modulus(h)
        /\ Value(h, FpSub(h, a, b)) = (Value(h, a) - Value(h, b)) % Modulus(h)

MulRight(h) ==
    \A a, b \in Reduced(h) :
        /\ IsReduced(h, FpMul(h, a, b))
        /\ Value(h, FpMul(h, a, b)) = (Value(h, a) * Value(h, b)) % Modulus(h)

\* The inverse of zero is zero.
InvRight(h, bits, W) ==
    \A a \in Reduced(h) :
        Value(h, FpMul(h, a, FpInvCt(h, bits, W, a))) = IF Value(h, a) = 0 THEN 0 ELSE 1

SignedRight(h) ==
    /\ \A k \in Signed(h) :
           /\ FpToI64(h, FpFromI64(h, k)) = {k}
           /\ AddIntWords(h, k) = FpFromI64(h, k)
    /\ \A x \in Reduced(h) : \A k \in FpToI64(h, x) : FpFromI64(h, k) = x
=============================================================================
