------------------------------ MODULE FloatArith -----------------------------
(***************************************************************************)
(* Multiplication, division, square root, remainder, multiply-add and      *)
(* rounding to an integral value of SoftFloat for the formats f16, f32 and *)
(* f64, and the library's functions as instances of them.                  *)
(*                                                                         *)
(* Division of f16 and f64, the square roots and the remainders start from *)
(* an approximate reciprocal.  The tables and Newton steps that compute it *)
(* are abstracted to its error: the operation takes the distance "err"     *)
(* between the estimate and the exact quotient, and is correct when the    *)
(* result does not depend on it.                                           *)
(***************************************************************************)
EXTENDS SoftFloat

mul(T, rm, uiA, uiB) ==
    LET sign == signUI(T, uiA) # signUI(T, uiB) IN
    Let(unpackNormal(T, uiA), LAMBDA A :
    Let(unpackNormal(T, uiB), LAMBDA B :
    LET exp  == A.exp + B.exp - bias(T)
        sigA == withHidden(T, A.sig) * 2 ^ guard(T)
        sigB == withHidden(T, B.sig) * 2 ^ (guard(T) + 1) IN
    Let(shortShiftRightJam(sigA * sigB, T.w), LAMBDA sig :
        IF isNaNUI(T, uiA) \/ isNaNUI(T, uiB) THEN propagateNaN(T, uiA, uiB)
        ELSE IF isInfUI(T, uiA) \/ isInfUI(T, uiB)
        THEN IF isZeroUI(T, uiA) \/ isZeroUI(T, uiB) THEN invalidNaN(T)
             ELSE Quiet(infinity(T, sign))
        ELSE IF isZeroUI(T, uiA) \/ isZeroUI(T, uiB) THEN Quiet(zero(T, sign))
        ELSE IF sig < 2 ^ (T.w - 2) THEN roundPackTo(T, rm, sign, exp - 1, sig * 2)
        ELSE roundPackTo(T, rm, sign, exp, sig))))

-----------------------------------------------------------------------------
(* Division *)

\* The operands that decide the quotient without dividing, in the code's order.
divSpecial(T, uiA, uiB) ==
    isNaNUI(T, uiA) \/ isNaNUI(T, uiB) \/ isInfUI(T, uiA) \/ isInfUI(T, uiB)
        \/ isZeroUI(T, uiA) \/ isZeroUI(T, uiB)

divSpecialResult(T, uiA, uiB) ==
    LET sign == signUI(T, uiA) # signUI(T, uiB)
    IN  IF isNaNUI(T, uiA) \/ isNaNUI(T, uiB) THEN propagateNaN(T, uiA, uiB)
        ELSE IF isInfUI(T, uiA)
        THEN IF isInfUI(T, uiB) THEN invalidNaN(T) ELSE Quiet(infinity(T, sign))
        ELSE IF isInfUI(T, uiB) THEN Quiet(zero(T, sign))
        ELSE IF isZeroUI(T, uiB)
        THEN IF isZeroUI(T, uiA) THEN invalidNaN(T)
             ELSE Raising(infinity(T, sign), {"infinite"})
        ELSE Quiet(zero(T, sign))

\* Sign, exponent and the two significands, the dividend scaled so that the
\* quotient has its leading bit at w-2.
divOperands(T, uiA, uiB) ==
    Let(unpackNormal(T, uiA), LAMBDA A :
    Let(unpackNormal(T, uiB), LAMBDA B :
    LET less == withHidden(T, A.sig) < withHidden(T, B.sig)
    IN  [sign |-> signUI(T, uiA) # signUI(T, uiB),
         exp  |-> A.exp - B.exp + bias(T) - 1 - Bit(less),
         num  |-> withHidden(T, A.sig) * 2 ^ (T.w - 2 + Bit(less)),
         den  |-> withHidden(T, B.sig)]))

\* f32: the quotient of a double-width dividend by the machine's division.
div(T, rm, uiA, uiB) ==
    Let(divOperands(T, uiA, uiB), LAMBDA d :
    LET q == d.num \div d.den
        sig == IF q % 2 ^ (guard(T) - 1) = 0
               THEN orSticky(q, d.den * q # d.num) ELSE q
    IN  IF divSpecial(T, uiA, uiB) THEN divSpecialResult(T, uiA, uiB)
        ELSE roundPackTo(T, rm, d.sign, d.exp, sig))

\* A plausible slip: the estimate is used without looking at the remainder.
divUncorrected(T, rm, uiA, uiB, err) ==
    Let(divOperands(T, uiA, uiB), LAMBDA d :
        IF divSpecial(T, uiA, uiB) THEN divSpecialResult(T, uiA, uiB)
        ELSE roundPackTo(T, rm, d.sign, d.exp, d.num \div d.den + err))

\* f16 and f64: an estimate of the quotient, corrected by the remainder only
\* when its low bits say that it may be on the wrong side of a boundary.
divByRecip(T, rm, uiA, uiB, err) ==
    Let(divOperands(T, uiA, uiB), LAMBDA d :
    LET est == d.num \div d.den + err
        cut == est - (est % T.recipClear)
        rem == d.num - cut * d.den IN
    Let(IF est % 2 ^ (guard(T) - 1) >= T.recipSlack THEN est
        ELSE IF rem < 0 THEN cut - T.recipClear
        ELSE orSticky(cut, rem # 0), LAMBDA sig :
        IF divSpecial(T, uiA, uiB) THEN divSpecialResult(T, uiA, uiB)
        ELSE roundPackTo(T, rm, d.sign, d.exp, sig)))

\* The errors the estimate may have: it lies between the truncated quotient
\* and recipSlack - 1 above the quotient rounded up.
divErrors(T, uiA, uiB) ==
    IF divSpecial(T, uiA, uiB) THEN {0}
    ELSE Let(divOperands(T, uiA, uiB), LAMBDA d : 0 .. T.recipSlack - Bit(d.num % d.den = 0))

-----------------------------------------------------------------------------
(* Square root *)

sqrtSpecial(T, uiA) == signUI(T, uiA) \/ expUI(T, uiA) = maxExp(T) \/ isZeroUI(T, uiA)

sqrtSpecialResult(T, uiA) ==
    IF isNaNUI(T, uiA) THEN propagateNaN(T, uiA, 0)
    ELSE IF isZeroUI(T, uiA) \/ ~signUI(T, uiA) THEN Quiet(uiA)
    ELSE invalidNaN(T)

\* Exponent of the root, and the radicand scaled so that the truncated root
\* has its leading bit at w-2.
sqrtOperand(T, uiA) ==
    Let(unpackNormal(T, uiA), LAMBDA A :
    LET odd == A.exp % 2
    IN  [exp |-> ((A.exp - bias(T)) \div 2) + bias(T) - 1,
         rad |-> withHidden(T, A.sig) * 2 ^ (2 * T.w - 4 - T.f + (1 - odd))])

integerSqrt(n) == CHOOSE r \in 0 .. 2 ^ ((bitLength(n) + 1) \div 2) :
                      r * r <= n /\ (r + 1) * (r + 1) > n

sqrt(T, rm, uiA, err) ==
    Let(sqrtOperand(T, uiA), LAMBDA s :
    LET est == integerSqrt(s.rad) + err IN
    Let(est - (est % T.sqrtClear), LAMBDA cut :
    LET negRem == cut * cut - s.rad IN
    Let(IF est % 2 ^ (guard(T) - 1) >= T.sqrtSlack THEN est
        ELSE IF negRem < 0 THEN setLowBit(cut)
        ELSE IF negRem # 0 THEN cut - 1 ELSE cut, LAMBDA sig :
        IF sqrtSpecial(T, uiA) THEN sqrtSpecialResult(T, uiA)
        ELSE roundPackTo(T, rm, FALSE, s.exp, sig))))

sqrtErrors(T, uiA) ==
    IF sqrtSpecial(T, uiA) THEN {0}
    ELSE Let(sqrtOperand(T, uiA), LAMBDA s :
         LET r == integerSqrt(s.rad)
         IN  0 .. T.sqrtSlack - Bit(r * r = s.rad))

-----------------------------------------------------------------------------
(* Remainder *)

\* The remainder of sigA * 2^n by sigB and the parity of the quotient: what
\* the loop of 29-bit quotient digits leaves.
remSteps(sigA, sigB, n) ==
    LET step[i \in 0 .. n] ==
            IF i = 0 THEN [rem |-> sigA % sigB, q |-> (sigA \div sigB) % 2]
            ELSE LET r == 2 * step[i - 1].rem
                 IN  [rem |-> r % sigB, q |-> (r \div sigB) % 2]
    IN  step[n]

\* The remainder nearest to zero (ties to the even quotient) from a partial
\* remainder rem >= 0 of quotient q: the do-while loop and selectRem.
selectRem(rem, q, sigB) ==
    LET altRem == rem % sigB
        next   == altRem - sigB
        qNext  == q + rem \div sigB + 1
        mean   == next + altRem
    IN  IF mean < 0 \/ (mean = 0 /\ qNext % 2 = 1) THEN altRem ELSE next

rem(T, rm, uiA, uiB, err) ==
    Let(unpackNormal(T, uiA), LAMBDA A :
    Let(unpackNormal(T, uiB), LAMBDA B :
    LET scale == 2 ^ (guard(T) - 1)
        sigA == withHidden(T, A.sig) * scale
        sigB == withHidden(T, B.sig) * scale
        expDiff == A.exp - B.exp IN
    Let(remSteps(sigA, sigB, expDiff), LAMBDA part :
    Let(IF expDiff = -1 THEN selectRem(sigA \div 2, 0, sigB)
        ELSE selectRem(part.rem + err * sigB, part.q + err, sigB), LAMBDA r :
    LET abs  == IF r < 0 THEN -r ELSE r
    IN  IF isNaNUI(T, uiA) \/ isNaNUI(T, uiB) THEN propagateNaN(T, uiA, uiB)
        ELSE IF isInfUI(T, uiA) \/ isZeroUI(T, uiB) THEN invalidNaN(T)
        ELSE IF isInfUI(T, uiB) \/ isZeroUI(T, uiA) \/ expDiff < -1 THEN Quiet(uiA)
        ELSE normRoundPackTo(T, rm, signUI(T, uiA) # (r < 0), B.exp, abs)))))

remErrors == {0, 1}

-----------------------------------------------------------------------------
(* Multiply-add *)

\* The operands that decide a * b + c without multiplying.
mulAddSpecial(T, uiA, uiB, uiC) ==
    \/ maxExp(T) \in {expUI(T, uiA), expUI(T, uiB), expUI(T, uiC)}
    \/ isZeroUI(T, uiA)
    \/ isZeroUI(T, uiB)

mulAddSpecialResult(T, rm, uiA, uiB, uiC) ==
    LET signProd == signUI(T, uiA) # signUI(T, uiB) IN
    Let(isInfUI(T, uiA) \/ isInfUI(T, uiB), LAMBDA infProd :
    Let(isZeroUI(T, uiA) \/ isZeroUI(T, uiB), LAMBDA zeroProd :
    Let(\E x \in {uiA, uiB, uiC} : isSigNaNUI(T, x), LAMBDA sigNaN :
    LET opposite == signProd # signUI(T, uiC)
    IN  IF isNaNUI(T, uiA) \/ isNaNUI(T, uiB)
        THEN Raising(defaultNaNUI(T), IF sigNaN THEN {"invalid"} ELSE {})
        ELSE IF infProd /\ zeroProd THEN invalidNaN(T)
        ELSE IF isNaNUI(T, uiC) THEN propagateNaN(T, 0, uiC)
        ELSE IF infProd
        THEN IF isInfUI(T, uiC) /\ opposite THEN invalidNaN(T)
             ELSE Quiet(infinity(T, signProd))
        ELSE IF isZeroUI(T, uiC) /\ opposite THEN Quiet(zero(T, rm = "min"))
        ELSE Quiet(uiC))))

\* Sign, exponent and double-width significand of a * b, leading bit at 2w-3.
product(T, uiA, uiB) ==
    Let(unpackNormal(T, uiA), LAMBDA A :
    Let(unpackNormal(T, uiB), LAMBDA B :
    LET p == withHidden(T, A.sig) * 2 ^ guard(T) * (withHidden(T, B.sig) * 2 ^ guard(T)) IN
    Let(p < 2 ^ (2 * T.w - 3), LAMBDA low :
        [sign |-> signUI(T, uiA) # signUI(T, uiB),
         exp  |-> A.exp + B.exp - bias(T) + 1 - Bit(low),
         sig  |-> IF low THEN 2 * p ELSE p])))

\* Normalises a nonzero double-width difference to one word and rounds it.
normDouble(T, rm, sign, exp, sig) ==
    LET shiftDist == countLeadingZeros(sig, 2 * T.w) - 1 IN
    Let(IF shiftDist < T.w THEN shortShiftRightJam(sig, T.w - shiftDist)
        ELSE sig * 2 ^ (shiftDist - T.w), LAMBDA word :
        roundPackTo(T, rm, sign, exp - shiftDist, word))

\* f16 and f32
mulAdd(T, rm, uiA, uiB, uiC) ==
    Let(product(T, uiA, uiB), LAMBDA P :
    Let(unpackNormal(T, uiC), LAMBDA C :
    LET signC == signUI(T, uiC)
        sigC  == withHidden(T, C.sig) * 2 ^ (guard(T) - 1)
        wideC == sigC * 2 ^ T.w
        expDiff == P.exp - C.exp
        expZ == IF expDiff <= 0 THEN C.exp ELSE P.exp IN
    Let(IF expDiff <= 0
        THEN sigC + shiftRightJam(P.sig, T.w - expDiff, 2 * T.w)
        ELSE shortShiftRightJam(P.sig + shiftRightJam(wideC, expDiff, 2 * T.w), T.w), LAMBDA sum :
    Let(IF expDiff < 0 THEN wideC - shiftRightJam(P.sig, -expDiff, 2 * T.w)
        ELSE P.sig - shiftRightJam(wideC, expDiff, 2 * T.w), LAMBDA diff :
        IF mulAddSpecial(T, uiA, uiB, uiC) THEN mulAddSpecialResult(T, rm, uiA, uiB, uiC)
        ELSE IF isZeroUI(T, uiC)
        THEN roundPackTo(T, rm, P.sign, P.exp - 1, shortShiftRightJam(P.sig, T.w - 1))
        ELSE IF P.sign = signC
        THEN IF sum < 2 ^ (T.w - 2) THEN roundPackTo(T, rm, P.sign, expZ - 1, sum * 2)
             ELSE roundPackTo(T, rm, P.sign, expZ, sum)
        ELSE IF expDiff < 0 THEN normDouble(T, rm, signC, C.exp, diff)
        ELSE IF diff = 0 THEN Quiet(zero(T, rm = "min"))
        ELSE normDouble(T, rm, P.sign # (diff < 0), P.exp, IF diff < 0 THEN -diff ELSE diff)))))

\* f64: the product is a pair of words <<v64, v0>>.  When c is larger only the
\* upper word is shifted, except for the one-bit shift of a cancellation.
mulAddWords(T, rm, uiA, uiB, uiC) ==
    LET word == 2 ^ T.w IN
    Let(product(T, uiA, uiB), LAMBDA P :
    Let(unpackNormal(T, uiC), LAMBDA C :
    LET signC == signUI(T, uiC)
        sigC  == withHidden(T, C.sig) * 2 ^ (guard(T) - 1)
        expDiff == P.exp - C.exp
        expZ == IF expDiff < 0 THEN C.exp ELSE P.exp IN
    Let(IF expDiff >= 0 THEN P.sig
        ELSE IF P.sign = signC \/ expDiff < -1
        THEN shiftRightJam(P.sig \div word, -expDiff, T.w) * word + (P.sig % word)
        ELSE shortShiftRightJam(P.sig, 1), LAMBDA Z :
    Let(shiftRightJam(sigC * word, IF expDiff > 0 THEN expDiff ELSE 0, 2 * T.w), LAMBDA wideC :
    Let(IF expDiff <= 0 THEN orSticky(sigC + Z \div word, Z % word # 0)
        ELSE shortShiftRightJam(Z + wideC, T.w), LAMBDA sum :
    LET diff == IF expDiff < 0 THEN sigC * word - Z ELSE Z - wideC
    IN  IF mulAddSpecial(T, uiA, uiB, uiC) THEN mulAddSpecialResult(T, rm, uiA, uiB, uiC)
        ELSE IF isZeroUI(T, uiC)
        THEN roundPackTo(T, rm, P.sign, P.exp - 1,
                         orSticky((P.sig \div word) * 2, P.sig % word # 0))
        ELSE IF P.sign = signC
        THEN IF sum < 2 ^ (T.w - 2) THEN roundPackTo(T, rm, P.sign, expZ - 1, sum * 2)
             ELSE roundPackTo(T, rm, P.sign, expZ, sum)
        ELSE IF expDiff < 0 THEN normDouble(T, rm, signC, C.exp, diff)
        ELSE IF diff = 0 THEN Quiet(zero(T, rm = "min"))
        ELSE normDouble(T, rm, P.sign # (diff < 0), P.exp, IF diff < 0 THEN -diff ELSE diff))))))

-----------------------------------------------------------------------------
(* Rounding to an integral value *)

\* The result for |a| < 1: a signed zero or one.
roundSmall(T, rm, uiA, exact) ==
    LET sign == signUI(T, uiA)
        one  == packToUI(T, sign, bias(T), 0)
        half == expUI(T, uiA) = bias(T) - 1 IN
    Let(\/ rm = "near_even" /\ half /\ fracUI(T, uiA) # 0
        \/ rm = "near_maxMag" /\ half
        \/ rm = awayFor(sign), LAMBDA toOne :
        IF isZeroUI(T, uiA) THEN Quiet(uiA)
        ELSE Raising(IF toOne THEN one ELSE zero(T, sign),
                     IF exact THEN {"inexact"} ELSE {}))

roundToInt(T, uiA, rm, exact) ==
    LET exp == expUI(T, uiA)
        lastBit == 2 ^ (bias(T) + T.f - exp) IN
    Let(IF rm \in {"near_even", "near_maxMag"} THEN lastBit \div 2
        ELSE IF rm = awayFor(signUI(T, uiA)) THEN lastBit - 1 ELSE 0, LAMBDA inc :
    LET sum == uiA + inc
        tie == rm = "near_even" /\ sum % lastBit = 0 IN
    Let(Let(IF tie /\ (sum \div lastBit) % 2 = 1 THEN sum - lastBit ELSE sum, LAMBDA even :
            even - (even % lastBit)), LAMBDA uiZ :
        IF exp < bias(T) THEN roundSmall(T, rm, uiA, exact)
        ELSE IF isNaNUI(T, uiA) THEN propagateNaN(T, uiA, 0)
        ELSE IF exp >= bias(T) + T.f THEN Quiet(uiA)
        ELSE Raising(uiZ, IF exact /\ uiZ # uiA THEN {"inexact"} ELSE {})))
-----------------------------------------------------------------------------
(* The library's functions for f16, f32 and f64: the algorithms above at   *)
(* each format.  fmsub, fnmadd and fnmsub negate operands and call mulAdd. *)

softfloat_propagateNaNF16UI(uiA, uiB) == propagateNaN(F16, uiA, uiB)

softfloat_normSubnormalF16Sig(sig) == normSubnormalSig(F16, sig)

softfloat_roundPackToF16(rm, sign, exp, sig) == roundPackTo(F16, rm, sign, exp, sig)

softfloat_normRoundPackToF16(rm, sign, exp, sig) ==
    normRoundPackTo(F16, rm, sign, exp, sig)

f16_add(rm, a, b) ==
    IF signUI(F16, a) = signUI(F16, b) THEN softfloat_addMagsF16(rm, a, b)
    ELSE softfloat_subMagsF16(rm, a, b)

f16_sub(rm, a, b) ==
    IF signUI(F16, a) = signUI(F16, b) THEN softfloat_subMagsF16(rm, a, b)
    ELSE softfloat_addMagsF16(rm, a, b)

f16_mul(rm, a, b) == mul(F16, rm, a, b)

f16_div(rm, a, b, err) == divByRecip(F16, rm, a, b, err)

f16_sqrt(rm, a, err) == sqrt(F16, rm, a, err)

f16_rem(rm, a, b, err) == rem(F16, rm, a, b, err)

softfloat_mulAddF16(rm, uiA, uiB, uiC) == mulAdd(F16, rm, uiA, uiB, uiC)

f16_mulAdd(rm, a, b, c) == softfloat_mulAddF16(rm, a, b, c)

f16_roundToInt(a, rm, exact) == roundToInt(F16, a, rm, exact)

softfloat_propagateNaNF32UI(uiA, uiB) == propagateNaN(F32, uiA, uiB)

softfloat_normSubnormalF32Sig(sig) == normSubnormalSig(F32, sig)

softfloat_roundPackToF32(rm, sign, exp, sig) == roundPackTo(F32, rm, sign, exp, sig)

softfloat_normRoundPackToF32(rm, sign, exp, sig) ==
    normRoundPackTo(F32, rm, sign, exp, sig)

softfloat_addMagsF32(rm, uiA, uiB) == addMags(F32, rm, uiA, uiB)

softfloat_subMagsF32(rm, uiA, uiB) == subMags(F32, rm, uiA, uiB)

f32_add(rm, a, b) ==
    IF signUI(F32, a) = signUI(F32, b) THEN softfloat_addMagsF32(rm, a, b)
    ELSE softfloat_subMagsF32(rm, a, b)

f32_sub(rm, a, b) ==
    IF signUI(F32, a) = signUI(F32, b) THEN softfloat_subMagsF32(rm, a, b)
    ELSE softfloat_addMagsF32(rm, a, b)

f32_mul(rm, a, b) == mul(F32, rm, a, b)

f32_div(rm, a, b) == div(F32, rm, a, b)

f32_sqrt(rm, a, err) == sqrt(F32, rm, a, err)

f32_rem(rm, a, b, err) == rem(F32, rm, a, b, err)

softfloat_mulAddF32(rm, uiA, uiB, uiC) == mulAdd(F32, rm, uiA, uiB, uiC)

f32_mulAdd(rm, a, b, c) == softfloat_mulAddF32(rm, a, b, c)

f32_roundToInt(a, rm, exact) == roundToInt(F32, a, rm, exact)

softfloat_propagateNaNF64UI(uiA, uiB) == propagateNaN(F64, uiA, uiB)

softfloat_normSubnormalF64Sig(sig) == normSubnormalSig(F64, sig)

softfloat_roundPackToF64(rm, sign, exp, sig) == roundPackTo(F64, rm, sign, exp, sig)

softfloat_normRoundPackToF64(rm, sign, exp, sig) ==
    normRoundPackTo(F64, rm, sign, exp, sig)

softfloat_addMagsF64(rm, uiA, uiB) == addMags(F64, rm, uiA, uiB)

softfloat_subMagsF64(rm, uiA, uiB) == subMags(F64, rm, uiA, uiB)

f64_add(rm, a, b) ==
    IF signUI(F64, a) = signUI(F64, b) THEN softfloat_addMagsF64(rm, a, b)
    ELSE softfloat_subMagsF64(rm, a, b)

f64_sub(rm, a, b) ==
    IF signUI(F64, a) = signUI(F64, b) THEN softfloat_subMagsF64(rm, a, b)
    ELSE softfloat_addMagsF64(rm, a, b)

f64_mul(rm, a, b) == mul(F64, rm, a, b)

f64_div(rm, a, b, err) == divByRecip(F64, rm, a, b, err)

f64_sqrt(rm, a, err) == sqrt(F64, rm, a, err)

f64_rem(rm, a, b, err) == rem(F64, rm, a, b, err)

softfloat_mulAddF64(rm, uiA, uiB, uiC) == mulAddWords(F64, rm, uiA, uiB, uiC)

f64_mulAdd(rm, a, b, c) == softfloat_mulAddF64(rm, a, b, c)

f64_roundToInt(a, rm, exact) == roundToInt(F64, a, rm, exact)
=============================================================================
