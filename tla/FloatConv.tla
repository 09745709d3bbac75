------------------------------ MODULE FloatConv ------------------------------
(***************************************************************************)
(* Conversions of SoftFloat between its formats and to and from integers,  *)
(* comparisons, classification, minimum and maximum, and the 7-bit         *)
(* reciprocal estimates of the vector extension.                           *)
(***************************************************************************)
EXTENDS Float128

\* The widths of the integers (8, 16, 32 and 64) and the guard bits of the
\* 32-bit rounding (12).
CONSTANTS I8, I16, I32, I64, IG

minInt(n) == -(2 ^ (n - 1))

maxInt(n) == 2 ^ (n - 1) - 1

maxUint(n) == 2 ^ n - 1

\* The value a word has as a two's complement number.
asSigned(n, u) == IF u > maxInt(n) THEN u - 2 ^ n ELSE u

\* What an invalid conversion returns: i32_fromNaN, i32_fromPosOverflow, ...
fromInvalid(n, signed, sign) ==
    Raising(IF signed THEN IF sign THEN minInt(n) ELSE maxInt(n)
            ELSE IF sign THEN 0 ELSE maxUint(n), {"invalid"})

\* A NaN converts like a positive overflow.
overflowSign(T, ui) == signUI(T, ui) /\ ~isNaNUI(T, ui)

\* The rounded magnitude given the sign, as roundToI32 ... roundToUI64 end.
signedResult(n, signed, sign, mag, inexact) ==
    LET z == IF sign THEN 2 ^ n - mag ELSE mag
        i == asSigned(n, z % 2 ^ n)
        fl == IF inexact THEN {"inexact"} ELSE {}
    IN  IF signed
        THEN IF i # 0 /\ (i < 0) # sign THEN fromInvalid(n, TRUE, sign) ELSE Raising(i, fl)
        ELSE IF sign /\ mag # 0 THEN fromInvalid(n, FALSE, sign) ELSE Raising(mag, fl)

\* A significand with IG fraction bits.
roundGuarded(signed, sign, sig, rm, exact) ==
    LET roundBits == sig % 2 ^ IG
        sum == sig + roundIncrement(rm, sign, 2 ^ (IG - 1), 2 ^ IG - 1)
        r   == sum \div 2 ^ IG IN
    Let(IF roundBits = 2 ^ (IG - 1) /\ rm = "near_even" THEN r - (r % 2) ELSE r, LAMBDA mag :
        IF sum >= 2 ^ (I32 + IG) THEN fromInvalid(I32, signed, sign)
        ELSE signedResult(I32, signed, sign, mag, exact /\ roundBits # 0))

softfloat_roundToI32(sign, sig, rm, exact) == roundGuarded(TRUE, sign, sig, rm, exact)

softfloat_roundToUI32(sign, sig, rm, exact) == roundGuarded(FALSE, sign, sig, rm, exact)

\* A significand with a whole word of fraction bits.
roundExtra(signed, sign, sig, extra, rm, exact) ==
    LET inc == doIncrement(rm, sign, extra, I64)
        r   == sig + Bit(inc) IN
    Let(IF inc /\ extra % 2 ^ (I64 - 1) = 0 /\ rm = "near_even" THEN r - (r % 2) ELSE r, LAMBDA mag :
        IF r = 2 ^ I64 THEN fromInvalid(I64, signed, sign)
        ELSE signedResult(I64, signed, sign, mag, exact /\ extra # 0))

softfloat_roundToI64(sign, sig, extra, rm, exact) ==
    roundExtra(TRUE, sign, sig, extra, rm, exact)

softfloat_roundToUI64(sign, sig, extra, rm, exact) ==
    roundExtra(FALSE, sign, sig, extra, rm, exact)

softfloat_shiftRightJam64Extra(a, extra, dist) ==
    [v     |-> IF dist < I64 THEN a \div 2 ^ dist ELSE 0,
     extra |-> orSticky(IF dist < I64 THEN (a % 2 ^ dist) * 2 ^ (I64 - dist)
                        ELSE IF dist = I64 THEN a ELSE Bit(a # 0), extra # 0)]

\* The significand as it is used below: subnormals have no hidden bit.
sigOf(T, ui) == fracUI(T, ui) + (IF expUI(T, ui) # 0 THEN hidden(T) ELSE 0)

-----------------------------------------------------------------------------
(* Float to integer *)

\* f16: the integer part always fits, so large values are only shifted.
fromF16(n, signed, a, rm, exact) ==
    LET exp == expUI(F16, a)
        sign == signUI(F16, a)
        sig == sigOf(F16, a)
        up  == exp - (bias(F16) + F16.f)
        dist == up + IG
    IN  IF exp = maxExp(F16) THEN fromInvalid(n, signed, overflowSign(F16, a))
        ELSE IF up >= 0 /\ (signed \/ ~sign)
        THEN Quiet(IF sign THEN -(sig * 2 ^ up) ELSE sig * 2 ^ up)
        ELSE roundGuarded(signed, sign, IF exp # 0 /\ dist > 0 THEN sig * 2 ^ dist ELSE sig,
                          rm, exact)

f16_to_i32(a, rm, exact) == fromF16(I32, TRUE, a, rm, exact)

f16_to_ui32(a, rm, exact) == fromF16(I32, FALSE, a, rm, exact)

f16_to_i64(a, rm, exact) == fromF16(I64, TRUE, a, rm, exact)

f16_to_ui64(a, rm, exact) == fromF16(I64, FALSE, a, rm, exact)

\* To 32 bits: lead is the weight of the significand's last bit after it has
\* been scaled; the rest is shifted out into the guard bits.
to32(T, signed, a, sig, lead, rm, exact) ==
    LET dist == bias(T) + lead - IG - expUI(T, a)
    IN  roundGuarded(signed, overflowSign(T, a),
                     IF dist > 0 THEN shiftRightJam(sig, dist, I64) ELSE sig, rm, exact)

f32_to_i32(a, rm, exact) ==
    to32(F32, TRUE, a, sigOf(F32, a) * 2 ^ I32, F32.f + I32, rm, exact)

f32_to_ui32(a, rm, exact) ==
    to32(F32, FALSE, a, sigOf(F32, a) * 2 ^ I32, F32.f + I32, rm, exact)

f64_to_i32(a, rm, exact) == to32(F64, TRUE, a, sigOf(F64, a), F64.f, rm, exact)

f64_to_ui32(a, rm, exact) == to32(F64, FALSE, a, sigOf(F64, a), F64.f, rm, exact)

\* The upper word of a quad significand, the lower one sticky.
upperWord(a) == orSticky(sigOf(F128, a) \div 2 ^ X, sigOf(F128, a) % 2 ^ X # 0)

f128_to_i32(a, rm, exact) == to32(F128, TRUE, a, upperWord(a), F128.f - X, rm, exact)

f128_to_ui32(a, rm, exact) == to32(F128, FALSE, a, upperWord(a), F128.f - X, rm, exact)

\* To 64 bits: a word of integer bits and a word of fraction bits.
f32To64(signed, a, rm, exact) ==
    LET dist == bias(F32) + I64 - 1 - expUI(F32, a) IN
    Let(softfloat_shiftRightJam64Extra(sigOf(F32, a) * 2 ^ (I64 - 1 - F32.f), 0, dist), LAMBDA s :
        IF dist < 0 THEN fromInvalid(I64, signed, overflowSign(F32, a))
        ELSE roundExtra(signed, signUI(F32, a), s.v, s.extra, rm, exact))

f64To64(signed, a, rm, exact) ==
    LET dist == bias(F64) + F64.f - expUI(F64, a) IN
    Let(softfloat_shiftRightJam64Extra(sigOf(F64, a), 0, dist), LAMBDA s :
        IF dist < -(I64 - 1 - F64.f) THEN fromInvalid(I64, signed, overflowSign(F64, a))
        ELSE IF dist <= 0
        THEN roundExtra(signed, signUI(F64, a), sigOf(F64, a) * 2 ^ (-dist), 0, rm, exact)
        ELSE roundExtra(signed, signUI(F64, a), s.v, s.extra, rm, exact))

f128To64(signed, a, rm, exact) ==
    LET upper == F128.f - X
        dist == bias(F128) + upper - expUI(F128, a)
        sig == sigOf(F128, a) IN
    Let(sig * 2 ^ (-dist), LAMBDA up :
    Let(softfloat_shiftRightJam64Extra(sig \div 2 ^ X, sig % 2 ^ X, dist), LAMBDA s :
        IF dist < -(I64 - 1 - upper) THEN fromInvalid(I64, signed, overflowSign(F128, a))
        ELSE IF dist <= 0
        THEN roundExtra(signed, signUI(F128, a), up \div 2 ^ X, up % 2 ^ X, rm, exact)
        ELSE roundExtra(signed, signUI(F128, a), s.v, s.extra, rm, exact)))

f32_to_i64(a, rm, exact) == f32To64(TRUE, a, rm, exact)

f32_to_ui64(a, rm, exact) == f32To64(FALSE, a, rm, exact)

f64_to_i64(a, rm, exact) == f64To64(TRUE, a, rm, exact)

f64_to_ui64(a, rm, exact) == f64To64(FALSE, a, rm, exact)

f128_to_i64(a, rm, exact) == f128To64(TRUE, a, rm, exact)

f128_to_ui64(a, rm, exact) == f128To64(FALSE, a, rm, exact)

\* A plausible slip: the result saturates but keeps the flags of the 32-bit conversion.
narrowedKeepingFlags(n, signed, i32) ==
    LET lo == IF signed THEN minInt(n) ELSE 0
        hi == IF signed THEN maxInt(n) ELSE maxUint(n)
    IN  Raising(IF i32.z > hi THEN hi ELSE IF i32.z < lo THEN lo ELSE i32.z, i32.fl)

\* To 8 and 16 bits: the flags of the 32-bit conversion are dropped when its
\* result does not fit.
narrowed(n, signed, i32) ==
    LET lo == IF signed THEN minInt(n) ELSE 0
        hi == IF signed THEN maxInt(n) ELSE maxUint(n)
    IN  IF i32.z > hi THEN Raising(hi, {"invalid"})
        ELSE IF i32.z < lo THEN Raising(lo, {"invalid"}) ELSE i32

f16_to_i8(a, rm, exact) == narrowed(I8, TRUE, f16_to_i32(a, rm, exact))

f16_to_ui8(a, rm, exact) == narrowed(I8, FALSE, f16_to_ui32(a, rm, exact))

f16_to_i16(a, rm, exact) == narrowed(I16, TRUE, f16_to_i32(a, rm, exact))

f16_to_ui16(a, rm, exact) == narrowed(I16, FALSE, f16_to_ui32(a, rm, exact))

f32_to_i16(a, rm, exact) == narrowed(I16, TRUE, f32_to_i32(a, rm, exact))

f32_to_ui16(a, rm, exact) == narrowed(I16, FALSE, f32_to_ui32(a, rm, exact))

\* Truncation: the functions *_r_minMag.
truncated(T, n, signed, a, exact) ==
    LET exp == expUI(T, a)
        sign == signUI(T, a)
        frac == fracUI(T, a)
        dist == bias(T) + T.f - exp
        sig == frac + hidden(T) IN
    Let(IF dist >= 0 THEN sig \div 2 ^ dist ELSE sig * 2 ^ (-dist), LAMBDA mag :
    LET lost(c) == IF exact /\ c THEN {"inexact"} ELSE {} IN
    Let(/\ signed /\ sign /\ exp = bias(T) + n - 1
        /\ IF T.f >= n - 1 THEN frac < 2 ^ (T.f - (n - 1)) ELSE frac = 0, LAMBDA isMin :
        IF exp < bias(T) THEN Raising(0, lost(~isZeroUI(T, a)))
        ELSE IF isMin THEN Raising(minInt(n), lost(frac # 0))
        ELSE IF \/ exp = maxExp(T)
                \/ ~signed /\ sign
                \/ exp >= bias(T) + n - Bit(signed)
        THEN fromInvalid(n, signed, overflowSign(T, a))
        ELSE Raising(IF sign THEN -mag ELSE mag, lost(dist > 0 /\ sig % 2 ^ dist # 0))))

f16_to_i32_r_minMag(a, exact) == truncated(F16, I32, TRUE, a, exact)

f16_to_ui32_r_minMag(a, exact) == truncated(F16, I32, FALSE, a, exact)

f16_to_i64_r_minMag(a, exact) == truncated(F16, I64, TRUE, a, exact)

f16_to_ui64_r_minMag(a, exact) == truncated(F16, I64, FALSE, a, exact)

f32_to_i32_r_minMag(a, exact) == truncated(F32, I32, TRUE, a, exact)

f32_to_ui32_r_minMag(a, exact) == truncated(F32, I32, FALSE, a, exact)

f32_to_i64_r_minMag(a, exact) == truncated(F32, I64, TRUE, a, exact)

f32_to_ui64_r_minMag(a, exact) == truncated(F32, I64, FALSE, a, exact)

f64_to_i32_r_minMag(a, exact) == truncated(F64, I32, TRUE, a, exact)

f64_to_ui32_r_minMag(a, exact) == truncated(F64, I32, FALSE, a, exact)

f64_to_i64_r_minMag(a, exact) == truncated(F64, I64, TRUE, a, exact)

f64_to_ui64_r_minMag(a, exact) == truncated(F64, I64, FALSE, a, exact)

f128_to_i32_r_minMag(a, exact) == truncated(F128, I32, TRUE, a, exact)

f128_to_ui32_r_minMag(a, exact) == truncated(F128, I32, FALSE, a, exact)

f128_to_i64_r_minMag(a, exact) == truncated(F128, I64, TRUE, a, exact)

f128_to_ui64_r_minMag(a, exact) == truncated(F128, I64, FALSE, a, exact)

-----------------------------------------------------------------------------
(* Integer to float *)

absOf(a) == IF a < 0 THEN -a ELSE a

\* A format that holds every integer of n bits.
exactFrom(T, n, a) ==
    LET dist == countLeadingZeros(absOf(a), n) + T.f + 1 - n
    IN  IF a = 0 THEN Quiet(0)
        ELSE Quiet(packToUI(T, a < 0, bias(T) + T.f - 1 - dist, absOf(a) * 2 ^ dist))

\* A narrower format: exact when the significant bits fit, else rounded.
roundedFrom(T, rm, n, a) ==
    LET dist == countLeadingZeros(absOf(a), n) - (n - 1 - T.f)
        g == dist + guard(T)
    IN  IF dist >= 0
        THEN Quiet(IF a = 0 THEN 0
                   ELSE packToUI(T, a < 0, bias(T) + T.f - 1 - dist, absOf(a) * 2 ^ dist))
        ELSE roundPackTo(T, rm, a < 0, bias(T) + T.f - 1 + guard(T) - g,
                         IF g < 0 THEN shortShiftRightJam(absOf(a), -g) ELSE absOf(a) * 2 ^ g)

\* The format of the integer's own width, signed and unsigned.
normFrom(T, rm, n, a) ==
    IF absOf(a) % 2 ^ (n - 1) = 0
    THEN Quiet(IF a < 0 THEN packToUI(T, TRUE, bias(T) + n - 1, 0) ELSE 0)
    ELSE normRoundPackTo(T, rm, a < 0, bias(T) + n - 3, absOf(a))

normFromU(T, rm, n, a) ==
    IF a = 0 THEN Quiet(0)
    ELSE IF a > maxInt(n)
    THEN roundPackTo(T, rm, FALSE, bias(T) + n - 2, shortShiftRightJam(a, 1))
    ELSE normRoundPackTo(T, rm, FALSE, bias(T) + n - 3, a)

i32_to_f16(rm, a) == roundedFrom(F16, rm, I32, a)

ui32_to_f16(rm, a) == roundedFrom(F16, rm, I32, a)

i64_to_f16(rm, a) == roundedFrom(F16, rm, I64, a)

ui64_to_f16(rm, a) == roundedFrom(F16, rm, I64, a)

i64_to_f32(rm, a) == roundedFrom(F32, rm, I64, a)

ui64_to_f32(rm, a) == roundedFrom(F32, rm, I64, a)

i32_to_f32(rm, a) == normFrom(F32, rm, I32, a)

ui32_to_f32(rm, a) == normFromU(F32, rm, I32, a)

i64_to_f64(rm, a) == normFrom(F64, rm, I64, a)

ui64_to_f64(rm, a) == normFromU(F64, rm, I64, a)

i32_to_f64(a) == exactFrom(F64, I32, a)

ui32_to_f64(a) == exactFrom(F64, I32, a)

i32_to_f128(a) == exactFrom(F128, I32, a)

ui32_to_f128(a) == exactFrom(F128, I32, a)

i64_to_f128(a) == exactFrom(F128, I64, a)

ui64_to_f128(a) == exactFrom(F128, I64, a)

-----------------------------------------------------------------------------
(* Float to float *)

\* The RISC-V specialisation drops the payload: every NaN becomes the default.
NaNTo(T, U, a) == Raising(defaultNaNUI(U), IF isSigNaNUI(T, a) THEN {"invalid"} ELSE {})

widened(T, U, a) ==
    LET sign == signUI(T, a) IN
    Let(unpackNormal(T, a), LAMBDA A :
    LET sub == expUI(T, a) = 0
    IN  IF isNaNUI(T, a) THEN NaNTo(T, U, a)
        ELSE IF isInfUI(T, a) THEN Quiet(infinity(U, sign))
        ELSE IF isZeroUI(T, a) THEN Quiet(zero(U, sign))
        ELSE Quiet(packToUI(U, sign, A.exp - Bit(sub) + bias(U) - bias(T),
                            A.sig * 2 ^ (U.f - T.f))))

\* The hidden bit is set on a subnormal too: its exponent is too small for it
\* to matter.
narrowTo(T, U, rm, a) ==
    LET sign == signUI(T, a)
        frac == shortShiftRightJam(fracUI(T, a), T.f - (U.w - 2))
    IN  IF isNaNUI(T, a) THEN NaNTo(T, U, a)
        ELSE IF isInfUI(T, a) THEN Quiet(infinity(U, sign))
        ELSE IF expUI(T, a) = 0 /\ frac = 0 THEN Quiet(zero(U, sign))
        ELSE roundPackTo(U, rm, sign, expUI(T, a) - (bias(T) - bias(U) + 1),
                         frac + 2 ^ (U.w - 2))

f16_to_f32(a) == widened(F16, F32, a)

f16_to_f64(a) == widened(F16, F64, a)

f16_to_f128(a) == widened(F16, F128, a)

f32_to_f64(a) == widened(F32, F64, a)

f32_to_f128(a) == widened(F32, F128, a)

f64_to_f128(a) == widened(F64, F128, a)

f32_to_f16(rm, a) == narrowTo(F32, F16, rm, a)

f64_to_f16(rm, a) == narrowTo(F64, F16, rm, a)

f64_to_f32(rm, a) == narrowTo(F64, F32, rm, a)

f128_to_f16(rm, a) == narrowTo(F128, F16, rm, a)

f128_to_f32(rm, a) == narrowTo(F128, F32, rm, a)

f128_to_f64(rm, a) == narrowTo(F128, F64, rm, a)

-----------------------------------------------------------------------------
(* Comparisons: z is the Boolean the function returns *)

bothZero(T, a, b) == isZeroUI(T, a) /\ isZeroUI(T, b)

anyNaN(T, a, b) == isNaNUI(T, a) \/ isNaNUI(T, b)

\* A quiet comparison raises invalid for a signaling NaN only.
unordered(T, quiet, a, b) ==
    Raising(FALSE, IF ~quiet \/ isSigNaNUI(T, a) \/ isSigNaNUI(T, b)
                   THEN {"invalid"} ELSE {})

eq(T, quiet, a, b) ==
    IF anyNaN(T, a, b) THEN unordered(T, quiet, a, b)
    ELSE Quiet(a = b \/ bothZero(T, a, b))

le(T, quiet, a, b) ==
    LET signA == signUI(T, a)
    IN  IF anyNaN(T, a, b) THEN unordered(T, quiet, a, b)
        ELSE IF signA # signUI(T, b) THEN Quiet(signA \/ bothZero(T, a, b))
        ELSE Quiet(a = b \/ (signA # (a < b)))

lt(T, quiet, a, b) ==
    LET signA == signUI(T, a)
    IN  IF anyNaN(T, a, b) THEN unordered(T, quiet, a, b)
        ELSE IF signA # signUI(T, b) THEN Quiet(signA /\ ~bothZero(T, a, b))
        ELSE Quiet(a # b /\ (signA # (a < b)))

f16_eq(a, b) == eq(F16, TRUE, a, b)

f16_eq_signaling(a, b) == eq(F16, FALSE, a, b)

f16_le(a, b) == le(F16, FALSE, a, b)

f16_le_quiet(a, b) == le(F16, TRUE, a, b)

f16_lt(a, b) == lt(F16, FALSE, a, b)

f16_lt_quiet(a, b) == lt(F16, TRUE, a, b)

f16_isSignalingNaN(a) == isSigNaNUI(F16, a)

f32_eq(a, b) == eq(F32, TRUE, a, b)

f32_eq_signaling(a, b) == eq(F32, FALSE, a, b)

f32_le(a, b) == le(F32, FALSE, a, b)

f32_le_quiet(a, b) == le(F32, TRUE, a, b)

f32_lt(a, b) == lt(F32, FALSE, a, b)

f32_lt_quiet(a, b) == lt(F32, TRUE, a, b)

f32_isSignalingNaN(a) == isSigNaNUI(F32, a)

f64_eq(a, b) == eq(F64, TRUE, a, b)

f64_eq_signaling(a, b) == eq(F64, FALSE, a, b)

f64_le(a, b) == le(F64, FALSE, a, b)

f64_le_quiet(a, b) == le(F64, TRUE, a, b)

f64_lt(a, b) == lt(F64, FALSE, a, b)

f64_lt_quiet(a, b) == lt(F64, TRUE, a, b)

f64_isSignalingNaN(a) == isSigNaNUI(F64, a)

f128_eq(a, b) == eq(F128, TRUE, a, b)

f128_eq_signaling(a, b) == eq(F128, FALSE, a, b)

f128_le(a, b) == le(F128, FALSE, a, b)

f128_le_quiet(a, b) == le(F128, TRUE, a, b)

f128_lt(a, b) == lt(F128, FALSE, a, b)

f128_lt_quiet(a, b) == lt(F128, TRUE, a, b)

f128_isSignalingNaN(a) == isSigNaNUI(F128, a)

\* The bit that is set in the mask classify returns.
classify(T, a) ==
    LET sub == expUI(T, a) = 0
        sign == signUI(T, a)
        inf == isInfUI(T, a)
        nul == isZeroUI(T, a)
    IN  IF isNaNUI(T, a) THEN IF isSigNaNUI(T, a) THEN 8 ELSE 9
        ELSE IF inf THEN IF sign THEN 0 ELSE 7
        ELSE IF nul THEN IF sign THEN 3 ELSE 4
        ELSE IF sub THEN IF sign THEN 2 ELSE 5
        ELSE IF sign THEN 1 ELSE 6

f16_classify(a) == classify(F16, a)

f32_classify(a) == classify(F32, a)

f64_classify(a) == classify(F64, a)

f128_classify(a) == classify(F128, a)

\* A plausible slip: the sign of equal zeros is not looked at.
compareMaxUnsigned(T, a, b) ==
    Let(lt(T, TRUE, b, a), LAMBDA l :
    Let(eq(T, TRUE, b, a), LAMBDA e :
        Raising(IF isNaNUI(T, a) /\ isNaNUI(T, b) THEN defaultNaNUI(T)
                ELSE IF l.z \/ isNaNUI(T, b) THEN a ELSE b, l.fl \cup e.fl)))

COMPARE_MAX(T, a, b) ==
    Let(lt(T, TRUE, b, a), LAMBDA l :
    Let(eq(T, TRUE, b, a), LAMBDA e :
    LET greater == l.z \/ (e.z /\ signUI(T, b))
    IN  Raising(IF isNaNUI(T, a) /\ isNaNUI(T, b) THEN defaultNaNUI(T)
                ELSE IF greater \/ isNaNUI(T, b) THEN a ELSE b, l.fl \cup e.fl)))

COMPARE_MIN(T, a, b) ==
    Let(lt(T, TRUE, a, b), LAMBDA l :
    Let(eq(T, TRUE, a, b), LAMBDA e :
    LET less == l.z \/ (e.z /\ signUI(T, a))
    IN  Raising(IF isNaNUI(T, a) /\ isNaNUI(T, b) THEN defaultNaNUI(T)
                ELSE IF less \/ isNaNUI(T, b) THEN a ELSE b, l.fl \cup e.fl)))
-----------------------------------------------------------------------------
(* Seven-bit estimates of 1/x and 1/sqrt(x): a table on the leading bits   *)

recipTable == <<
    127, 125, 123, 121, 119, 117, 116, 114, 112, 110, 109, 107, 105, 104, 102, 100,
    99, 97, 96, 94, 93, 91, 90, 88, 87, 85, 84, 83, 81, 80, 79, 77,
    76, 75, 74, 72, 71, 70, 69, 68, 66, 65, 64, 63, 62, 61, 60, 59,
    58, 57, 56, 55, 54, 53, 52, 51, 50, 49, 48, 47, 46, 45, 44, 43,
    42, 41, 40, 40, 39, 38, 37, 36, 35, 35, 34, 33, 32, 31, 31, 30,
    29, 28, 28, 27, 26, 25, 25, 24, 23, 23, 22, 21, 21, 20, 19, 19,
    18, 17, 17, 16, 15, 15, 14, 14, 13, 12, 12, 11, 11, 10, 9, 9,
    8, 8, 7, 7, 6, 5, 5, 4, 4, 3, 3, 2, 2, 1, 1, 0 >>

rsqrtTable == <<
    52, 51, 50, 48, 47, 46, 44, 43, 42, 41, 40, 39, 38, 36, 35, 34,
    33, 32, 31, 30, 30, 29, 28, 27, 26, 25, 24, 23, 23, 22, 21, 20,
    19, 19, 18, 17, 16, 16, 15, 14, 14, 13, 12, 12, 11, 10, 10, 9,
    9, 8, 7, 7, 6, 6, 5, 4, 4, 3, 3, 2, 2, 1, 1, 0,
    127, 125, 123, 121, 119, 118, 116, 114, 113, 111, 109, 108, 106, 105, 103, 102,
    100, 99, 97, 96, 95, 93, 92, 91, 90, 88, 87, 86, 85, 84, 83, 82,
    80, 79, 78, 77, 76, 75, 74, 73, 72, 71, 70, 70, 69, 68, 67, 66,
    65, 64, 63, 63, 62, 61, 60, 59, 59, 58, 57, 56, 56, 55, 54, 53 >>

\* A plausible slip: a subnormal is not normalised.
leadingAsIs(T, a) == [exp |-> expUI(T, a), sig |-> fracUI(T, a)]

\* Exponent and fraction below the leading one; a subnormal is normalised and
\* its exponent drops below zero (it wraps in the code).
leading(T, a) ==
    LET k == T.f + 1 - bitLength(fracUI(T, a))
    IN  IF expUI(T, a) # 0 THEN [exp |-> expUI(T, a), sig |-> fracUI(T, a)]
        ELSE [exp |-> 1 - k, sig |-> (fracUI(T, a) * 2 ^ k) % hidden(T)]

rsqrte7(T, a) ==
    Let(leading(T, a), LAMBDA L :
    LET idx == (L.exp % 2) * 64 + L.sig \div 2 ^ (T.f - 6)
    IN  packToUI(T, FALSE, (3 * bias(T) - 1 - L.exp) \div 2,
                 rsqrtTable[idx + 1] * 2 ^ (T.f - 7)))

recip7(T, rm, a) ==
    Let(leading(T, a), LAMBDA L :
    LET sign == signUI(T, a)
        sig == recipTable[L.sig \div 2 ^ (T.f - 7) + 1] * 2 ^ (T.f - 7)
        exp == 2 * bias(T) - 1 - L.exp
        toMax == rm = "minMag" \/ (rm = "min" /\ ~sign) \/ (rm = "max" /\ sign)
        half == sig \div 2 + 2 ^ (T.f - 1)
    IN  IF L.exp < -1
        THEN Raising(infinity(T, sign) - Bit(toMax), {"inexact", "overflow"})
        ELSE IF exp = 0 THEN Quiet(packToUI(T, sign, 0, half))
        ELSE IF exp = -1 THEN Quiet(packToUI(T, sign, 0, half \div 2))
        ELSE Quiet(packToUI(T, sign, exp, sig)))

rsqrte7Of(T, a) ==
    Let(classify(T, a), LAMBDA c :
        IF c \in {0, 1, 2, 8} THEN invalidNaN(T)
        ELSE IF c = 9 THEN Quiet(defaultNaNUI(T))
        ELSE IF c \in {3, 4} THEN Raising(infinity(T, c = 3), {"infinite"})
        ELSE IF c = 7 THEN Quiet(0)
        ELSE Quiet(rsqrte7(T, a)))

recip7Of(T, rm, a) ==
    Let(classify(T, a), LAMBDA c :
        IF c \in {0, 7} THEN Quiet(zero(T, c = 0))
        ELSE IF c \in {3, 4} THEN Raising(infinity(T, c = 3), {"infinite"})
        ELSE IF c = 8 THEN invalidNaN(T)
        ELSE IF c = 9 THEN Quiet(defaultNaNUI(T))
        ELSE recip7(T, rm, a))

f16_rsqrte7(a) == rsqrte7Of(F16, a)

f32_rsqrte7(a) == rsqrte7Of(F32, a)

f64_rsqrte7(a) == rsqrte7Of(F64, a)

f16_recip7(rm, a) == recip7Of(F16, rm, a)

f32_recip7(rm, a) == recip7Of(F32, rm, a)

f64_recip7(rm, a) == recip7Of(F64, rm, a)
=============================================================================
