------------------------------- MODULE FloatRef ------------------------------
(***************************************************************************)
(* What IEEE 754 asks of the operations of SoftFloat, stated without any   *)
(* of its algorithms: the exact result as an integer scaled by a power of  *)
(* two (with a sticky mark for the part below it), rounded once.           *)
(***************************************************************************)
EXTENDS FloatConv

ulpMin(T) == 1 - bias(T) - T.f

\* A finite number as m * 2^e.
valueOf(T, ui) ==
    IF expUI(T, ui) = 0 THEN [m |-> fracUI(T, ui), e |-> ulpMin(T)]
    ELSE [m |-> hidden(T) + fracUI(T, ui), e |-> expUI(T, ui) - 1 + ulpMin(T)]

\* (p + theta) * 2^e rounded to a multiple of 2^eu, 0 <= theta < 1 and theta > 0
\* exactly when s.
roundAt(rm, sign, p, e, s, eu) ==
    LET d == eu - e
        q == IF d <= 0 THEN p * 2 ^ (-d) ELSE IF d > 28 THEN 0 ELSE p \div 2 ^ d
        r == IF d <= 0 THEN 0 ELSE IF d > 28 THEN p ELSE p % 2 ^ d
        half == IF d <= 0 THEN -1 ELSE IF d > 28 THEN -1 ELSE 2 * r - 2 ^ d
        inexact == r # 0 \/ s
        tie == half = 0 /\ ~s IN
    Let(half > 0 \/ (half = 0 /\ s), LAMBDA above :
    Let(\/ rm = "near_even" /\ (above \/ (tie /\ q % 2 = 1))
        \/ rm = "near_maxMag" /\ (above \/ tie)
        \/ rm = "min" /\ sign /\ inexact
        \/ rm = "max" /\ ~sign /\ inexact
        \/ rm = "odd" /\ inexact /\ q % 2 = 0, LAMBDA up :
        [q |-> q + Bit(up), inexact |-> inexact]))

\* The exact magnitude (p + theta) * 2^e rounded to format T.
Rounded(T, rm, sign, p, e, s) ==
    LET eu == bitLength(p) - 1 + e - T.f IN
    Let(roundAt(rm, sign, p, e, s, IF eu < ulpMin(T) THEN ulpMin(T) ELSE eu), LAMBDA R :
    Let(roundAt(rm, sign, p, e, s, eu), LAMBDA U :
    Let(eu < ulpMin(T) - 1 \/ (eu = ulpMin(T) - 1 /\ U.q < 2 * hidden(T)), LAMBDA tiny :
    LET top == maxExp(T) - 2 IN
    Let(IF eu < ulpMin(T) THEN 0 ELSE eu - ulpMin(T), LAMBDA step :
    LET overflow == step > top \/ (step = top /\ R.q >= 2 * hidden(T))
        toInf == rm \in {"near_even", "near_maxMag", IF sign THEN "min" ELSE "max"}
    IN  IF overflow
        THEN Raising(infinity(T, sign) - Bit(~toInf), {"overflow", "inexact"})
        ELSE Raising(packToUI(T, sign, step, R.q),
                     IF ~R.inexact THEN {}
                     ELSE {"inexact"} \cup (IF tiny THEN {"underflow"} ELSE {}))))))

Signed(sign, n) == IF sign THEN -n ELSE n

\* A result known exactly as an integer n (signed) times 2^e; zeroSign is the
\* sign of an exact zero.
RoundedInt(T, rm, n, e, s, zeroSign) ==
    IF n = 0 /\ ~s THEN Quiet(zero(T, zeroSign))
    ELSE Rounded(T, rm, n < 0, IF n < 0 THEN -n ELSE n, e, s)

anySignaling(T, S) == IF \E x \in S : isSigNaNUI(T, x) THEN {"invalid"} ELSE {}

NaNResult(T, S) == Raising(defaultNaNUI(T), anySignaling(T, S))

\* x + y for exact operands [sign, m, e]: aligned to the smaller exponent, or,
\* when that takes more than maxBits bits, with the smaller one made sticky.
maxBits == 28

ExactSum(T, rm, x, y) ==
    LET hi == IF x.m = 0 \/ (y.m # 0 /\ bitLength(x.m) + x.e < bitLength(y.m) + y.e) THEN y ELSE x
        lo == IF hi = x THEN y ELSE x IN
    Let(maxBits - bitLength(hi.m), LAMBDA room :
    Let(IF hi.e - lo.e <= room THEN hi.e - lo.e ELSE room, LAMBDA k :
    Let(IF lo.e >= hi.e THEN hi.e ELSE hi.e - k, LAMBDA e0 :
    Let(IF e0 - lo.e > maxBits THEN 2 ^ maxBits ELSE 2 ^ (e0 - lo.e), LAMBDA cut :
    Let(IF lo.e >= hi.e THEN hi.m ELSE hi.m * 2 ^ k, LAMBDA X0 :
    Let(IF lo.e >= hi.e THEN lo.m * 2 ^ (lo.e - hi.e) ELSE lo.m \div cut, LAMBDA Y0 :
    Let(lo.e < e0 /\ lo.m % cut # 0, LAMBDA s :
    LET p  == IF x.sign = y.sign THEN X0 + Y0 ELSE X0 - Y0 - Bit(s)
    IN  IF x.m = 0 /\ y.m = 0
        THEN Quiet(zero(T, IF x.sign = y.sign THEN x.sign ELSE rm = "min"))
        ELSE IF p = 0 /\ ~s THEN Quiet(zero(T, rm = "min"))
        ELSE IF p < 0 THEN Rounded(T, rm, ~hi.sign, -p, e0, s)
        ELSE Rounded(T, rm, hi.sign, p, e0, s))))))))

exactOf(T, ui) == [sign |-> signUI(T, ui), m |-> valueOf(T, ui).m, e |-> valueOf(T, ui).e]

negUI(T, ui) == IF signUI(T, ui) THEN ui - 2 ^ (T.w - 1) ELSE ui + 2 ^ (T.w - 1)

RefAdd(T, rm, a, b) ==
    IF isNaNUI(T, a) \/ isNaNUI(T, b) THEN NaNResult(T, {a, b})
    ELSE IF isInfUI(T, a)
    THEN IF isInfUI(T, b) /\ signUI(T, a) # signUI(T, b) THEN invalidNaN(T) ELSE Quiet(a)
    ELSE IF isInfUI(T, b) THEN Quiet(b)
    ELSE ExactSum(T, rm, exactOf(T, a), exactOf(T, b))

RefSub(T, rm, a, b) ==
    IF isNaNUI(T, b) THEN NaNResult(T, {a, b}) ELSE RefAdd(T, rm, a, negUI(T, b))

RefMul(T, rm, a, b) ==
    LET sign == signUI(T, a) # signUI(T, b) IN
    Let(valueOf(T, a), LAMBDA A :
    Let(valueOf(T, b), LAMBDA B :
        IF isNaNUI(T, a) \/ isNaNUI(T, b) THEN NaNResult(T, {a, b})
        ELSE IF isInfUI(T, a) \/ isInfUI(T, b)
        THEN IF isZeroUI(T, a) \/ isZeroUI(T, b) THEN invalidNaN(T)
             ELSE Quiet(infinity(T, sign))
        ELSE IF A.m * B.m = 0 THEN Quiet(zero(T, sign))
        ELSE Rounded(T, rm, sign, A.m * B.m, A.e + B.e, FALSE)))

RefDiv(T, rm, a, b) ==
    LET sign == signUI(T, a) # signUI(T, b) IN
    Let(valueOf(T, a), LAMBDA A :
    Let(valueOf(T, b), LAMBDA B :
    LET k == 2 * T.f + 4
        n == A.m * 2 ^ k
    IN  IF isNaNUI(T, a) \/ isNaNUI(T, b) THEN NaNResult(T, {a, b})
        ELSE IF isInfUI(T, a)
        THEN IF isInfUI(T, b) THEN invalidNaN(T) ELSE Quiet(infinity(T, sign))
        ELSE IF isInfUI(T, b) THEN Quiet(zero(T, sign))
        ELSE IF B.m = 0
        THEN IF A.m = 0 THEN invalidNaN(T) ELSE Raising(infinity(T, sign), {"infinite"})
        ELSE IF A.m = 0 THEN Quiet(zero(T, sign))
        ELSE Rounded(T, rm, sign, n \div B.m, A.e - B.e - k, n % B.m # 0)))

RefSqrt(T, rm, a) ==
    Let(valueOf(T, a), LAMBDA A :
    LET odd == A.e % 2
        k == T.f + 3
        n == A.m * 2 ^ (2 * k + odd)
        r == integerSqrt(n)
    IN  IF isNaNUI(T, a) THEN NaNResult(T, {a})
        ELSE IF isZeroUI(T, a) THEN Quiet(a)
        ELSE IF signUI(T, a) THEN invalidNaN(T)
        ELSE IF isInfUI(T, a) THEN Quiet(a)
        ELSE Rounded(T, rm, FALSE, r, (A.e - odd) \div 2 - k, r * r # n))

\* m * 2^k modulo n
scaledMod(m, k, n) ==
    LET r[i \in 0 .. k] == IF i = 0 THEN m % n ELSE (2 * r[i - 1]) % n
    IN  r[k]

\* a - n * b for the integer n nearest to a / b, the even one of two; x is a
\* modulo 2 * b, which has the parity of n too.
RefRem(T, a, b) ==
    Let(valueOf(T, a), LAMBDA A :
    Let(valueOf(T, b), LAMBDA B :
    LET e == IF A.e < B.e THEN A.e ELSE B.e
        y == B.m * 2 ^ (B.e - e) IN
    Let(scaledMod(A.m, A.e - e, 2 * y), LAMBDA x :
    LET r == x % y IN
    Let(2 * r > y \/ (2 * r = y /\ x >= y), LAMBDA up :
    Let(IF up THEN r - y ELSE r, LAMBDA v :
        IF isNaNUI(T, a) \/ isNaNUI(T, b) THEN NaNResult(T, {a, b})
        ELSE IF isInfUI(T, a) \/ isZeroUI(T, b) THEN invalidNaN(T)
        ELSE IF isInfUI(T, b) \/ B.e - A.e > T.f + 2 THEN Quiet(a)
        ELSE RoundedInt(T, "near_even", Signed(signUI(T, a), v), e, FALSE, signUI(T, a)))))))

RefMulAdd(T, rm, a, b, c) ==
    LET sign == signUI(T, a) # signUI(T, b) IN
    Let(valueOf(T, a), LAMBDA A :
    Let(valueOf(T, b), LAMBDA B :
    Let(isInfUI(T, a) \/ isInfUI(T, b), LAMBDA inf :
    Let(isZeroUI(T, a) \/ isZeroUI(T, b), LAMBDA nul :
    LET nan == \E x \in {a, b, c} : isNaNUI(T, x)
    IN  IF inf /\ nul /\ ~isNaNUI(T, a) /\ ~isNaNUI(T, b) THEN invalidNaN(T)
        ELSE IF nan THEN NaNResult(T, {a, b, c})
        ELSE IF inf
        THEN IF isInfUI(T, c) /\ signUI(T, c) # sign THEN invalidNaN(T)
             ELSE Quiet(infinity(T, sign))
        ELSE IF isInfUI(T, c) THEN Quiet(c)
        ELSE ExactSum(T, rm, [sign |-> sign, m |-> A.m * B.m, e |-> A.e + B.e], exactOf(T, c))))))

RefRoundToInt(T, a, rm) ==
    Let(valueOf(T, a), LAMBDA A :
    Let(roundAt(rm, signUI(T, a), A.m, A.e, FALSE, 0), LAMBDA R :
    Let(IF R.q = 0 THEN Quiet(zero(T, signUI(T, a)))
        ELSE Rounded(T, rm, signUI(T, a), R.q, 0, FALSE), LAMBDA z :
        IF isNaNUI(T, a) THEN NaNResult(T, {a})
        ELSE IF isInfUI(T, a) \/ A.e >= 0 THEN Quiet(a)
        ELSE Raising(z.z, IF R.inexact THEN {"inexact"} ELSE {}))))
-----------------------------------------------------------------------------
(* Conversions and comparisons *)

RefToInt(T, n, signed, a, rm) ==
    Let(valueOf(T, a), LAMBDA A :
    LET sign == signUI(T, a) IN
    Let(roundAt(rm, sign, A.m, A.e, FALSE, 0), LAMBDA R :
    LET v == Signed(sign, R.q)
        lo == IF signed THEN minInt(n) ELSE 0
        hi == IF signed THEN maxInt(n) ELSE maxUint(n)
        huge == bitLength(A.m) + A.e > n + 1
    IN  IF isNaNUI(T, a) THEN Raising(hi, {"invalid"})
        ELSE IF isInfUI(T, a) \/ huge \/ v > hi \/ v < lo
        THEN Raising(IF sign THEN lo ELSE hi, {"invalid"})
        ELSE Raising(v, IF R.inexact THEN {"inexact"} ELSE {})))

RefFromInt(T, rm, a) == RoundedInt(T, rm, a, 0, FALSE, FALSE)

RefToFloat(T, U, rm, a) ==
    LET sign == signUI(T, a) IN
    Let(valueOf(T, a), LAMBDA A :
        IF isNaNUI(T, a) THEN Raising(defaultNaNUI(U), anySignaling(T, {a}))
        ELSE IF isInfUI(T, a) THEN Quiet(infinity(U, sign))
        ELSE IF A.m = 0 THEN Quiet(zero(U, sign))
        ELSE Rounded(U, rm, sign, A.m, A.e, FALSE))

\* The position of a number on the real line (both zeros are 0).
order(T, ui) == Signed(signUI(T, ui), ui % 2 ^ (T.w - 1))

RefCompare(T, quiet, a, b, holds) ==
    IF isNaNUI(T, a) \/ isNaNUI(T, b)
    THEN Raising(FALSE, IF quiet THEN anySignaling(T, {a, b}) ELSE {"invalid"})
    ELSE Quiet(holds)

\* minimumNumber and maximumNumber of IEEE 754-2019: a NaN loses, -0 < +0.
RefPick(T, max, a, b) ==
    LET below(x, y) == order(T, x) < order(T, y) \/ (order(T, x) = order(T, y) /\ signUI(T, x)) IN
    Let(IF isNaNUI(T, a) THEN IF isNaNUI(T, b) THEN defaultNaNUI(T) ELSE b
        ELSE IF isNaNUI(T, b) THEN a
        ELSE IF below(a, b) = max THEN b ELSE a, LAMBDA z :
        Raising(z, anySignaling(T, {a, b})))

\* |x * z - 1| <= 2^-bits for finite x and z
nearReciprocal(T, x, z, bits) ==
    Let(valueOf(T, x), LAMBDA A :
    Let(valueOf(T, z), LAMBDA Z :
    LET one == 2 ^ (-(A.e + Z.e))
        d == A.m * Z.m - one
    IN  signUI(T, x) = signUI(T, z) /\ (IF d < 0 THEN -d ELSE d) * 2 ^ bits <= one))

\* |x * z^2 - 1| <= 2^-bits; z has 8 significant bits
nearRootReciprocal(T, x, z, bits) ==
    Let(valueOf(T, x), LAMBDA A :
    Let(valueOf(T, z), LAMBDA Z :
    LET m == Z.m \div 2 ^ (T.f - 7)
        one == 2 ^ (-(A.e + 2 * (Z.e + T.f - 7)))
        d == A.m * m * m - one
    IN  ~signUI(T, z) /\ (IF d < 0 THEN -d ELSE d) <= one \div 2 ^ bits))
=============================================================================
