------------------------------- MODULE Float128 ------------------------------
(***************************************************************************)
(* Quad-precision arithmetic of SoftFloat.  A 128-bit significand is a     *)
(* pair of words in the code and one number here; unlike the narrower      *)
(* formats it has no guard bits of its own: the bits shifted out are kept  *)
(* in an extra word (F128.x bits, 64 in the code), the last of them        *)
(* sticky.                                                                 *)
(***************************************************************************)
EXTENDS FloatArith

X == F128.x

\* The value of the lowest significand above those of w - expBits bits.
carry == 2 * hidden(F128)

shiftRightJamExtra(a, extra, dist, x) ==
    LET low == a % 2 ^ dist
    IN  IF dist > x + bitLength(a) THEN [v |-> 0, extra |-> Bit(a # 0 \/ extra # 0)]
        ELSE [v     |-> a \div 2 ^ dist,
              extra |-> orSticky(IF dist <= x THEN low * 2 ^ (x - dist)
                                 ELSE shortShiftRightJam(low, dist - x), extra # 0)]

softfloat_shiftRightJam128Extra(a, extra, dist) == shiftRightJamExtra(a, extra, dist, X)

doIncrement(rm, sign, extra, x) ==
    IF rm \in {"near_even", "near_maxMag"} THEN extra >= 2 ^ (x - 1)
    ELSE rm = awayFor(sign) /\ extra # 0

softfloat_roundPackToF128(rm, sign, exp, sig, extra) ==
    LET ones == carry - 1
        inc0 == doIncrement(rm, sign, extra, X)
        tiny == exp < -1 \/ ~inc0 \/ sig < ones IN
    Let(IF exp < 0 THEN softfloat_shiftRightJam128Extra(sig, extra, -exp)
        ELSE [v |-> sig, extra |-> extra], LAMBDA s :
    LET e    == IF exp < 0 THEN 0 ELSE exp
        inc  == doIncrement(rm, sign, s.extra, X)
        up   == IF s.extra = 2 ^ (X - 1) /\ rm = "near_even"
                THEN s.v + 1 - ((s.v + 1) % 2) ELSE s.v + 1
        fl   == IF s.extra = 0 THEN {}
                ELSE {"inexact"} \cup (IF exp < 0 /\ tiny THEN {"underflow"} ELSE {})
        toInf == rm \in {"near_even", "near_maxMag", awayFor(sign)}
    IN  IF exp > maxExp(F128) - 2 \/ (exp = maxExp(F128) - 2 /\ sig = ones /\ inc0)
        THEN Raising(infinity(F128, sign) - Bit(~toInf), {"overflow", "inexact"})
        ELSE IF rm = "odd" /\ s.extra # 0
        THEN Raising(packToUI(F128, sign, e, setLowBit(s.v)), fl)
        ELSE IF inc THEN Raising(packToUI(F128, sign, e, up), fl)
        ELSE Raising(packToUI(F128, sign, IF s.v = 0 THEN 0 ELSE e, s.v), fl))

softfloat_normRoundPackToF128(rm, sign, exp, sig) ==
    LET shiftDist == countLeadingZeros(sig, F128.w) - expBits(F128)
        e == exp - shiftDist
        z == sig * 2 ^ shiftDist IN
    Let(softfloat_shiftRightJam128Extra(sig, 0, -shiftDist), LAMBDA s :
        IF shiftDist < 0 THEN softfloat_roundPackToF128(rm, sign, e, s.v, s.extra)
        ELSE IF e >= 0 /\ e < maxExp(F128) - 2
        THEN Quiet(packToUI(F128, sign, IF z = 0 THEN 0 ELSE e, z))
        ELSE softfloat_roundPackToF128(rm, sign, e, z, 0))

\* One position to the right, then round: the label shiftRight1 of addMags.
shiftRight1(rm, sign, exp, sig, extra) ==
    Let(softfloat_shiftRightJam128Extra(sig, extra, 1), LAMBDA s :
        softfloat_roundPackToF128(rm, sign, exp, s.v, s.extra))

softfloat_addMagsF128(rm, uiA, uiB) ==
    LET T == F128
        expA == expUI(T, uiA)
        expB == expUI(T, uiB)
        fracA == fracUI(T, uiA)
        fracB == fracUI(T, uiB)
        sign == signUI(T, uiA)
        expDiff == expA - expB IN
    Let(hidden(T) + (IF expDiff < 0 THEN fracB ELSE fracA), LAMBDA big :
    Let(IF expDiff < 0 THEN expB ELSE expA, LAMBDA expZ :
    Let(IF expDiff < 0 THEN expA ELSE expB, LAMBDA expY :
    Let(IF expDiff < 0 THEN fracA ELSE fracB, LAMBDA fracY :
    Let((IF expDiff < 0 THEN -expDiff ELSE expDiff) - Bit(expY = 0), LAMBDA dist :
    LET small == fracY + (IF expY # 0 THEN hidden(T) ELSE 0) IN
    Let(IF dist = 0 THEN [v |-> small, extra |-> 0]
        ELSE softfloat_shiftRightJam128Extra(small, 0, dist), LAMBDA y :
    LET sum   == big + y.v
    IN  IF expZ = maxExp(T)
        THEN IF isNaNUI(T, uiA) \/ isNaNUI(T, uiB) THEN propagateNaN(T, uiA, uiB)
             ELSE Quiet(infinity(T, sign))
        ELSE IF expDiff = 0
        THEN IF expA = 0 THEN Quiet(packToUI(T, sign, 0, fracA + fracB))
             ELSE shiftRight1(rm, sign, expA, 2 * hidden(T) + fracA + fracB, 0)
        ELSE IF sum < carry
        THEN softfloat_roundPackToF128(rm, sign, expZ - 1, sum, y.extra)
        ELSE shiftRight1(rm, sign, expZ, sum, y.extra)))))))

softfloat_subMagsF128(rm, uiA, uiB) ==
    LET T == F128
        expA == expUI(T, uiA)
        expB == expUI(T, uiB)
        \* four guard bits inside the word
        fracA == fracUI(T, uiA) * 16
        fracB == fracUI(T, uiB) * 16
        unit  == hidden(T) * 16
        sign == signUI(T, uiA)
        expDiff == expA - expB
        aligned(exp, frac, d) ==
            LET sig  == frac + (IF exp # 0 THEN unit ELSE 0)
                dist == d - Bit(exp = 0)
            IN  IF dist = 0 THEN sig ELSE shiftRightJam(sig, dist, T.w)
    IN  IF expDiff < 0
        THEN IF expB = maxExp(T)
             THEN IF fracB # 0 THEN propagateNaN(T, uiA, uiB) ELSE Quiet(infinity(T, ~sign))
             ELSE softfloat_normRoundPackToF128(rm, ~sign, expB - 5,
                      unit + fracB - aligned(expA, fracA, -expDiff))
        ELSE IF expDiff > 0
        THEN IF expA = maxExp(T)
             THEN IF fracA # 0 THEN propagateNaN(T, uiA, uiB) ELSE Quiet(uiA)
             ELSE softfloat_normRoundPackToF128(rm, sign, expA - 5,
                      unit + fracA - aligned(expB, fracB, expDiff))
        ELSE IF expA = maxExp(T)
        THEN IF fracA # 0 \/ fracB # 0 THEN propagateNaN(T, uiA, uiB) ELSE invalidNaN(T)
        ELSE IF fracA = fracB THEN Quiet(zero(T, rm = "min"))
        ELSE softfloat_normRoundPackToF128(rm, sign # (fracA < fracB),
                 (IF expA = 0 THEN 1 ELSE expA) - 5,
                 IF fracA < fracB THEN fracB - fracA ELSE fracA - fracB)

f128_add(rm, a, b) ==
    IF signUI(F128, a) = signUI(F128, b) THEN softfloat_addMagsF128(rm, a, b)
    ELSE softfloat_subMagsF128(rm, a, b)

f128_sub(rm, a, b) ==
    IF signUI(F128, a) = signUI(F128, b) THEN softfloat_subMagsF128(rm, a, b)
    ELSE softfloat_addMagsF128(rm, a, b)

\* The fraction of b is multiplied; its hidden bit is added as sigA itself.
f128_mul(rm, uiA, uiB) ==
    LET T == F128
        sign == signUI(T, uiA) # signUI(T, uiB) IN
    Let(unpackNormal(T, uiA), LAMBDA A :
    Let(unpackNormal(T, uiB), LAMBDA B :
    LET sigA == withHidden(T, A.sig)
        sigB == (withHidden(T, B.sig) - hidden(T)) * 2 ^ (T.w - T.f)
        prod == sigA * sigB
        exp  == A.exp + B.exp - bias(T) - 1 IN
    Let(prod \div 2 ^ T.w + sigA, LAMBDA sig :
    Let(shortShiftRightJam(prod % 2 ^ T.w, T.w - X), LAMBDA extra :
    Let(softfloat_shiftRightJam128Extra(sig, extra, 1), LAMBDA half :
        IF isNaNUI(T, uiA) \/ isNaNUI(T, uiB) THEN propagateNaN(T, uiA, uiB)
        ELSE IF isInfUI(T, uiA) \/ isInfUI(T, uiB)
        THEN IF isZeroUI(T, uiA) \/ isZeroUI(T, uiB) THEN invalidNaN(T)
             ELSE Quiet(infinity(T, sign))
        ELSE IF isZeroUI(T, uiA) \/ isZeroUI(T, uiB) THEN Quiet(zero(T, sign))
        ELSE IF sig >= carry
        THEN softfloat_roundPackToF128(rm, sign, exp + 1, half.v, half.extra)
        ELSE softfloat_roundPackToF128(rm, sign, exp, sig, extra))))))

-----------------------------------------------------------------------------
(* Division, square root, remainder: exact quotient digits but the last,   *)
(* which is corrected when its low bits are next to a boundary.            *)

\* The guard bits of the last quotient digit of f128_div.
divGuard == 4

f128_divOperands(uiA, uiB) ==
    Let(unpackNormal(F128, uiA), LAMBDA A :
    Let(unpackNormal(F128, uiB), LAMBDA B :
    LET less == withHidden(F128, A.sig) < withHidden(F128, B.sig)
    IN  [sign |-> signUI(F128, uiA) # signUI(F128, uiB),
         exp  |-> A.exp - B.exp + bias(F128) - 1 - Bit(less),
         num  |-> withHidden(F128, A.sig) * 2 ^ (F128.f + divGuard + Bit(less)),
         den  |-> withHidden(F128, B.sig)]))

f128_div(rm, uiA, uiB, err) ==
    Let(f128_divOperands(uiA, uiB), LAMBDA d :
    LET est == d.num \div d.den + err
        rem0 == d.num - est * d.den
        fix == IF rem0 < 0 THEN est - 1 ELSE IF rem0 >= d.den THEN est + 1 ELSE est IN
    Let(IF (est + 1) % 8 < 2 THEN orSticky(fix, d.num # fix * d.den) ELSE est, LAMBDA q :
        IF divSpecial(F128, uiA, uiB) THEN divSpecialResult(F128, uiA, uiB)
        ELSE softfloat_roundPackToF128(rm, d.sign, d.exp, q \div 2 ^ divGuard,
                                       (q % 2 ^ divGuard) * 2 ^ (X - divGuard))))

\* The last digit is the truncated one, one less, or the one rounded up.
f128_divErrors(uiA, uiB) ==
    IF divSpecial(F128, uiA, uiB) THEN {0}
    ELSE Let(f128_divOperands(uiA, uiB), LAMBDA d : -1 .. (1 - Bit(d.num % d.den = 0)))

\* The guard bits of the last root digit of f128_sqrt.
sqrtGuard == 5

f128_sqrtRadicand(uiA) ==
    Let(unpackNormal(F128, uiA), LAMBDA A :
        withHidden(F128, A.sig) * 2 ^ (F128.f + 2 * sqrtGuard + 1 - (A.exp % 2)))

f128_sqrt(rm, uiA, err) ==
    Let(unpackNormal(F128, uiA), LAMBDA A :
    LET exp == ((A.exp - bias(F128)) \div 2) + bias(F128) - 1 IN
    Let(f128_sqrtRadicand(uiA), LAMBDA rad :
    LET est == integerSqrt(rad) + err IN
    Let(est - (est % 4), LAMBDA cut :
    LET negRem == cut * cut - rad
        pair(q) == [v |-> q \div 2 ^ sqrtGuard,
                    extra |-> (q % 2 ^ sqrtGuard) * 2 ^ (X - sqrtGuard)]
        c == pair(cut) IN
    Let(IF est % 16 > 2 THEN pair(est)
        ELSE IF negRem < 0 THEN [c EXCEPT !.extra = setLowBit(@)]
        ELSE IF negRem = 0 THEN c
        ELSE IF c.extra # 0 THEN [c EXCEPT !.extra = @ - 1]
        ELSE [v |-> c.v - 1, extra |-> 2 ^ X - 1], LAMBDA z :
        IF sqrtSpecial(F128, uiA) THEN sqrtSpecialResult(F128, uiA)
        ELSE softfloat_roundPackToF128(rm, FALSE, exp, z.v, z.extra)))))

f128_sqrtErrors(uiA) ==
    IF sqrtSpecial(F128, uiA) THEN {0}
    ELSE Let(integerSqrt(f128_sqrtRadicand(uiA)), LAMBDA r :
             0 .. 3 - Bit(r * r = f128_sqrtRadicand(uiA)))

f128_rem(rm, uiA, uiB, err) ==
    LET T == F128 IN
    Let(unpackNormal(T, uiA), LAMBDA A :
    Let(unpackNormal(T, uiB), LAMBDA B :
    LET sigA == withHidden(T, A.sig)
        sigB == withHidden(T, B.sig)
        expDiff == A.exp - B.exp IN
    Let(remSteps(sigA, sigB, expDiff), LAMBDA part :
    Let(IF expDiff = -1 THEN selectRem(sigA, 0, 2 * sigB)
        ELSE selectRem(part.rem + err * sigB, part.q + err, sigB), LAMBDA r :
    LET abs  == IF r < 0 THEN -r ELSE r
    IN  IF isNaNUI(T, uiA) \/ isNaNUI(T, uiB) THEN propagateNaN(T, uiA, uiB)
        ELSE IF isInfUI(T, uiA) \/ isZeroUI(T, uiB) THEN invalidNaN(T)
        ELSE IF isInfUI(T, uiB) \/ isZeroUI(T, uiA) \/ expDiff < -1 THEN Quiet(uiA)
        ELSE softfloat_normRoundPackToF128(rm, signUI(T, uiA) # (r < 0),
                 B.exp - 1 - Bit(expDiff = -1), abs)))))
\* The labels sigZ and shiftRightRoundPack: the low word, if any, is sticky.
shiftRightRoundPack(rm, sign, exp, sig, extra, dist) ==
    softfloat_roundPackToF128(rm, sign, exp - 1, sig \div 2 ^ dist,
        orSticky((sig % 2 ^ dist) * 2 ^ (X - dist), extra # 0))

\* A difference of double width after a cancellation: its leading bit is found
\* and brought to the hidden bit's place.
normRoundPack256(rm, sign, exp, n) ==
    LET h    == F128.h
        lead == bitLength(n) - 1
        dist == lead - F128.f IN
    Let(IF dist >= 0 THEN softfloat_shiftRightJam128Extra(n, 0, dist)
        ELSE [v |-> n * 2 ^ (-dist), extra |-> 0], LAMBDA s :
        softfloat_roundPackToF128(rm, sign, exp + lead - (F128.w + F128.f + h) - 1,
                                  s.v, s.extra))

softfloat_mulAddF128(rm, uiA, uiB, uiC) ==
    LET T == F128
        h == T.h
        word == 2 ^ T.w
        unit == 2 ^ (T.f + h) IN
    Let(unpackNormal(T, uiA), LAMBDA A :
    Let(unpackNormal(T, uiB), LAMBDA B :
    Let(unpackNormal(T, uiC), LAMBDA C :
    LET signC == signUI(T, uiC)
        signP == signUI(T, uiA) # signUI(T, uiB)
        p == withHidden(T, A.sig) * 2 ^ h * (withHidden(T, B.sig) * 2 ^ expBits(T)) IN
    Let(p \div word < unit, LAMBDA low :
    LET expP == A.exp + B.exp - bias(T) + 1 - Bit(low)
        sigC == withHidden(T, C.sig) * 2 ^ h
        expDiff == expP - C.exp IN
    Let(shiftRightJam(p \div word, -expDiff - Bit(low), T.w), LAMBDA upper :
    Let(p % word, LAMBDA lost :
    Let(IF low THEN 2 * p ELSE p, LAMBDA prod :
    Let(shiftRightJam(sigC * word, IF expDiff > 0 THEN expDiff ELSE 0, 2 * T.w), LAMBDA wideC :
    Let(IF expDiff < 0 THEN sigC + upper ELSE (prod + wideC) \div word, LAMBDA sum :
    LET rest == IF expDiff < 0 THEN lost ELSE (prod + wideC) % word IN
    Let(IF expDiff < 0 THEN C.exp ELSE expP, LAMBDA expZ :
    LET below == sigC - upper - Bit(lost # 0)
        diff == prod - wideC
    IN  IF mulAddSpecial(T, uiA, uiB, uiC) THEN mulAddSpecialResult(T, rm, uiA, uiB, uiC)
        ELSE IF isZeroUI(T, uiC)
        THEN shiftRightRoundPack(rm, signP, expP, p \div word, lost, h - Bit(low))
        ELSE IF signP = signC
        THEN LET over == Bit(sum >= 2 * unit)
             IN  shiftRightRoundPack(rm, signP, expZ + over, sum, rest, h + over)
        ELSE IF expDiff < -1
        THEN LET under == Bit(below < unit)
             IN  shiftRightRoundPack(rm, signC, C.exp - under, below, lost, h - under)
        ELSE IF expDiff = -1
        THEN normRoundPack256(rm, signC, C.exp,
                              sigC * word - (IF low THEN p ELSE p \div 2))
        ELSE IF diff = 0 THEN Quiet(zero(T, rm = "min"))
        ELSE IF expDiff <= 1
        THEN normRoundPack256(rm, signP # (diff < 0), expP, IF diff < 0 THEN -diff ELSE diff)
        ELSE LET under == Bit(diff \div word < unit)
             IN  shiftRightRoundPack(rm, signP, expP - under, diff \div word,
                                     diff % word, h - under)))))))))))

f128_mulAdd(rm, a, b, c) == softfloat_mulAddF128(rm, a, b, c)

f128_roundToInt(a, rm, exact) == roundToInt(F128, a, rm, exact)
=============================================================================
