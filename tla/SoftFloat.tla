------------------------------ MODULE SoftFloat ------------------------------
(***************************************************************************)
(* The floating-point arithmetic of the ISA simulator (Berkeley SoftFloat  *)
(* as vendored under riscv-isa-sim/softfloat, RISC-V specialisation,       *)
(* SOFTFLOAT_FAST_INT64 and SOFTFLOAT_ROUND_ODD as platform.h sets them).  *)
(*                                                                         *)
(* The C library repeats every algorithm once per format, with the         *)
(* format's widths folded into hexadecimal constants.  Here a format is a  *)
(* record and each algorithm is written once over it; the functions of the *)
(* library are its instances.  A floating-point number is its bit pattern, *)
(* a natural number below 2^w.  Every operation takes the rounding mode    *)
(* (the global softfloat_roundingMode) and returns the pattern z together  *)
(* with the set fl of exception flags it raises.                           *)
(***************************************************************************)
EXTENDS Integers, Binding

(***************************************************************************)
(* A format: w bits in all, f of them the fraction, w - 1 - f the          *)
(* exponent.  "early" tells whether addMags has the early return for a sum *)
(* that needs no rounding, recipSlack and recipClear (sqrtSlack and        *)
(* sqrtClear) are the constants with which the division (the square root)  *)
(* decides whether its estimate must be corrected.  The library's formats  *)
(* are f16 = [w 16, f 10, recip 1/2, sqrt 1/2], f32 = [32, 23, -, 2/4],    *)
(* f64 = [64, 52, 64/128, 34/64] and f128 = [128, 112, ...].  F128 also    *)
(* has x, the width of the extra word that carries the bits shifted out,   *)
(* and h, the headroom its multiply-add leaves above the significand.      *)
(***************************************************************************)
CONSTANTS F16, F32, F64, F128

RoundingModes == {"near_even", "minMag", "min", "max", "near_maxMag", "odd"}

Flags == {"inexact", "underflow", "overflow", "infinite", "invalid"}

-----------------------------------------------------------------------------
(* Fields of a pattern *)

expBits(T) == T.w - 1 - T.f

maxExp(T) == 2 ^ expBits(T) - 1

bias(T) == 2 ^ (expBits(T) - 1) - 1

\* Bits below the significand's last bit when its leading bit is bit w-2.
guard(T) == T.w - 2 - T.f

hidden(T) == 2 ^ T.f

signUI(T, ui) == ui >= 2 ^ (T.w - 1)

expUI(T, ui) == (ui \div hidden(T)) % 2 ^ expBits(T)

fracUI(T, ui) == ui % hidden(T)

packToUI(T, sign, exp, sig) ==
    ((IF sign THEN 2 ^ (T.w - 1) ELSE 0) + exp * hidden(T) + sig) % 2 ^ T.w

isNaNUI(T, ui) == expUI(T, ui) = maxExp(T) /\ fracUI(T, ui) # 0

defaultNaNUI(T) == packToUI(T, FALSE, maxExp(T), 2 ^ (T.f - 1))

isSigNaNUI(T, ui) == isNaNUI(T, ui) /\ fracUI(T, ui) < 2 ^ (T.f - 1)

-----------------------------------------------------------------------------
(* Results *)

Quiet(z) == [z |-> z, fl |-> {}]

Raising(z, fl) == [z |-> z, fl |-> fl]

invalidNaN(T) == Raising(defaultNaNUI(T), {"invalid"})

infinity(T, sign) == packToUI(T, sign, maxExp(T), 0)

zero(T, sign) == packToUI(T, sign, 0, 0)

propagateNaN(T, uiA, uiB) ==
    Raising(defaultNaNUI(T),
            IF isSigNaNUI(T, uiA) \/ isSigNaNUI(T, uiB) THEN {"invalid"} ELSE {})

-----------------------------------------------------------------------------
(* Primitives on words *)

\* The number of significant bits of a word.
bitLength(a) == CHOOSE k \in 0 .. 30 : a < 2 ^ k /\ (k = 0 \/ a >= 2 ^ (k - 1))

countLeadingZeros(a, w) == w - bitLength(a)

Bit(b) == IF b THEN 1 ELSE 0

setLowBit(a) == IF a % 2 = 0 THEN a + 1 ELSE a

\* a | (c ? 1 : 0)
orSticky(a, c) == IF c THEN setLowBit(a) ELSE a

shortShiftRightJam(a, dist) == orSticky(a \div 2 ^ dist, a % 2 ^ dist # 0)

shiftRightJam(a, dist, w) ==
    IF dist < w - 1 THEN shortShiftRightJam(a, dist) ELSE Bit(a # 0)

normSubnormalSig(T, sig) ==
    LET shiftDist == countLeadingZeros(sig, T.w) - (expBits(T))
    IN  [exp |-> 1 - shiftDist, sig |-> sig * 2 ^ shiftDist]

\* Exponent and fraction of a finite nonzero operand, normalised when it is subnormal.
unpackNormal(T, ui) ==
    IF expUI(T, ui) = 0 THEN normSubnormalSig(T, fracUI(T, ui))
    ELSE [exp |-> expUI(T, ui), sig |-> fracUI(T, ui)]

\* The significand of such an operand with the hidden bit in place.
withHidden(T, sig) == IF sig >= hidden(T) THEN sig ELSE sig + hidden(T)

isZeroUI(T, ui) == expUI(T, ui) = 0 /\ fracUI(T, ui) = 0

isInfUI(T, ui) == expUI(T, ui) = maxExp(T) /\ fracUI(T, ui) = 0

-----------------------------------------------------------------------------
(* Rounding *)

awayFor(sign) == IF sign THEN "min" ELSE "max"

roundIncrement(rm, sign, half, ones) ==
    IF rm \in {"near_even", "near_maxMag"} THEN half
    ELSE IF rm = awayFor(sign) THEN ones ELSE 0

\* Rounds and packs sig * 2^(exp - ...), the leading bit of sig being bit w-2
\* (or lower for a subnormal result); exp is one less than the biased exponent.
roundPackTo(T, rm, sign, exp, sig) ==
    LET G   == guard(T)
        inc == roundIncrement(rm, sign, 2 ^ (G - 1), 2 ^ G - 1)
        top == 2 ^ (T.w - 1)
        tiny == exp < -1 \/ sig + inc < top
        s   == IF exp < 0 THEN shiftRightJam(sig, -exp, T.w) ELSE sig
        e   == IF exp < 0 THEN 0 ELSE exp
        roundBits == s % 2 ^ G IN
    Let((s + inc) \div 2 ^ G, LAMBDA r :
    Let(IF roundBits = 2 ^ (G - 1) /\ rm = "near_even" THEN r - (r % 2) ELSE r, LAMBDA even :
    Let(IF roundBits = 0 THEN {}
        ELSE {"inexact"} \cup (IF exp < 0 /\ tiny THEN {"underflow"} ELSE {}), LAMBDA fl :
        IF exp > maxExp(T) - 2 \/ (exp = maxExp(T) - 2 /\ sig + inc >= top)
        THEN Raising(infinity(T, sign) - Bit(inc = 0), {"overflow", "inexact"})
        ELSE IF rm = "odd" /\ roundBits # 0
        THEN Raising(packToUI(T, sign, e, setLowBit(r)), fl)
        ELSE Raising(packToUI(T, sign, IF even = 0 THEN 0 ELSE e, even), fl))))

normRoundPackTo(T, rm, sign, exp, sig) ==
    LET shiftDist == countLeadingZeros(sig, T.w) - 1
        e == exp - shiftDist
    IN  IF guard(T) <= shiftDist /\ e >= 0 /\ e < maxExp(T) - 2
        THEN Quiet(packToUI(T, sign, IF sig = 0 THEN 0 ELSE e,
                            sig * 2 ^ (shiftDist - guard(T))))
        ELSE roundPackTo(T, rm, sign, e, sig * 2 ^ shiftDist)

-----------------------------------------------------------------------------
(* Addition and subtraction of magnitudes: f32 and f64 *)

addMags(T, rm, uiA, uiB) ==
    LET expA == expUI(T, uiA)
        expB == expUI(T, uiB)
        sigA == fracUI(T, uiA)
        sigB == fracUI(T, uiB)
        sign == signUI(T, uiA)
        expDiff == expA - expB
        G    == guard(T) - 1
        unit == 2 ^ (T.w - 3)
        aligned(exp, sig) == sig * 2 ^ G + (IF exp # 0 THEN unit ELSE sig * 2 ^ G)
        sum  == 2 * hidden(T) + sigA + sigB IN
    Let(IF expDiff < 0
        THEN sigB * 2 ^ G + shiftRightJam(aligned(expA, sigA), -expDiff, T.w)
        ELSE sigA * 2 ^ G + shiftRightJam(aligned(expB, sigB), expDiff, T.w), LAMBDA x :
    Let(IF expDiff < 0 THEN expB ELSE expA, LAMBDA expX :
    LET sigX == unit + x
    IN  IF expDiff = 0
        THEN IF expA = 0 THEN Quiet(uiA + sigB)
             ELSE IF expA = maxExp(T)
             THEN IF sigA # 0 \/ sigB # 0 THEN propagateNaN(T, uiA, uiB) ELSE Quiet(uiA)
             ELSE IF T.early /\ sum % 2 = 0 /\ expA < maxExp(T) - 1
             THEN Quiet(packToUI(T, sign, expA, sum \div 2))
             ELSE roundPackTo(T, rm, sign, expA, sum * 2 ^ G)
        ELSE IF expDiff < 0 /\ expB = maxExp(T)
        THEN IF sigB # 0 THEN propagateNaN(T, uiA, uiB) ELSE Quiet(infinity(T, sign))
        ELSE IF expDiff > 0 /\ expA = maxExp(T)
        THEN IF sigA # 0 THEN propagateNaN(T, uiA, uiB) ELSE Quiet(uiA)
        ELSE IF sigX < 2 * unit THEN roundPackTo(T, rm, sign, expX - 1, sigX * 2)
        ELSE roundPackTo(T, rm, sign, expX, sigX)))

\* The part of subMags for equal exponents: an exact difference.
subEqualExp(T, rm, uiA, uiB, fracA, fracB) ==
    LET diff == fracA - fracB
        abs  == IF diff < 0 THEN -diff ELSE diff
        expA == IF expUI(T, uiA) = 0 THEN 0 ELSE expUI(T, uiA) - 1
        dist == countLeadingZeros(abs, T.w) - expBits(T)
        sign == signUI(T, uiA) # (diff < 0)
    IN  IF expUI(T, uiA) = maxExp(T)
        THEN IF fracA # 0 \/ fracB # 0 THEN propagateNaN(T, uiA, uiB) ELSE invalidNaN(T)
        ELSE IF diff = 0 THEN Quiet(zero(T, rm = "min"))
        ELSE IF expA - dist < 0 THEN Quiet(packToUI(T, sign, 0, abs * 2 ^ expA))
        ELSE Quiet(packToUI(T, sign, expA - dist, abs * 2 ^ dist))

subMags(T, rm, uiA, uiB) ==
    LET expA == expUI(T, uiA)
        expB == expUI(T, uiB)
        sigA == fracUI(T, uiA)
        sigB == fracUI(T, uiB)
        sign == signUI(T, uiA)
        expDiff == expA - expB
        G    == guard(T)
        unit == 2 ^ (T.w - 2)
        aligned(exp, sig) == sig * 2 ^ G + (IF exp # 0 THEN unit ELSE sig * 2 ^ G)
    IN  IF expDiff = 0 THEN subEqualExp(T, rm, uiA, uiB, sigA, sigB)
        ELSE IF expDiff < 0 /\ expB = maxExp(T)
        THEN IF sigB # 0 THEN propagateNaN(T, uiA, uiB) ELSE Quiet(infinity(T, ~sign))
        ELSE IF expDiff > 0 /\ expA = maxExp(T)
        THEN IF sigA # 0 THEN propagateNaN(T, uiA, uiB) ELSE Quiet(uiA)
        ELSE IF expDiff < 0
        THEN normRoundPackTo(T, rm, ~sign, expB - 1,
                 unit + sigB * 2 ^ G - shiftRightJam(aligned(expA, sigA), -expDiff, T.w))
        ELSE normRoundPackTo(T, rm, sign, expA - 1,
                 unit + sigA * 2 ^ G - shiftRightJam(aligned(expB, sigB), expDiff, T.w))

-----------------------------------------------------------------------------
(* The same for f16, which aligns in a double-width word and adds or       *)
(* subtracts "epsilon" when the exponents are too far apart.               *)

\* The larger operand z of a sum whose smaller operand is only a sticky bit.
addEpsilon(T, rm, uiZ) ==
    LET up == rm = awayFor(signUI(T, uiZ))
    IN  IF up THEN Raising(uiZ + 1,
                     IF isInfUI(T, uiZ + 1) THEN {"overflow", "inexact"} ELSE {"inexact"})
        ELSE IF rm = "odd" THEN Raising(setLowBit(uiZ), {"inexact"})
        ELSE Raising(uiZ, {"inexact"})

subEpsilon(T, rm, uiZ) ==
    IF rm = "minMag" \/ rm = awayFor(~signUI(T, uiZ)) THEN Raising(uiZ - 1, {"inexact"})
    ELSE IF rm = "odd" THEN Raising(setLowBit(uiZ - 1), {"inexact"})
    ELSE Raising(uiZ, {"inexact"})

\* Rounds a double-width significand whose leading bit is bit 2w-2.
roundDouble(T, rm, sign, exp, sig32) ==
    LET sig == sig32 \div 2 ^ T.w
        exact == sig32 % 2 ^ T.w = 0
    IN  IF exact /\ sig % 2 ^ guard(T) = 0 /\ exp >= 0 /\ exp < maxExp(T) - 1
        THEN Quiet(packToUI(T, sign, exp, sig \div 2 ^ guard(T)))
        ELSE roundPackTo(T, rm, sign, exp, orSticky(sig, ~exact))

\* Far apart: 13 in the code.
farApart(T) == T.f + 3

\* Position of the sum's significand in the double-width word: 19 in the code.
doubleShift(T) == 2 * T.w - 3 - T.f

softfloat_addMagsF16(rm, uiA, uiB) ==
    LET T == F16
        expA == expUI(T, uiA)
        expB == expUI(T, uiB)
        sigA == fracUI(T, uiA)
        sigB == fracUI(T, uiB)
        sign == signUI(T, uiA)
        expDiff == expA - expB
        sum  == 2 * hidden(T) + sigA + sigB IN
    Let(IF expDiff < 0 THEN expB ELSE expA, LAMBDA expX :
    Let(hidden(T) + (IF expDiff < 0 THEN sigB ELSE sigA), LAMBDA sigX :
    Let(IF expDiff < 0 THEN expA ELSE expB, LAMBDA expY :
    Let(IF expDiff < 0 THEN sigA ELSE sigB, LAMBDA fracY :
    LET sigY == fracY + (IF expY # 0 THEN hidden(T) ELSE fracY) IN
    Let(IF expDiff < 0 THEN -expDiff ELSE expDiff, LAMBDA dist :
    Let(IF expDiff < 0 THEN packToUI(T, sign, expB, sigB) ELSE uiA, LAMBDA big :
    LET sig32 == sigX * 2 ^ doubleShift(T) + sigY * 2 ^ (doubleShift(T) - dist)
    IN  IF expDiff = 0
        THEN IF expA = 0 THEN Quiet(uiA + sigB)
             ELSE IF expA = maxExp(T)
             THEN IF sigA # 0 \/ sigB # 0 THEN propagateNaN(T, uiA, uiB) ELSE Quiet(uiA)
             ELSE IF sum % 2 = 0 /\ expA < maxExp(T) - 1
             THEN Quiet(packToUI(T, sign, expA, sum \div 2))
             ELSE roundPackTo(T, rm, sign, expA, sum * 2 ^ (guard(T) - 1))
        ELSE IF expX = maxExp(T)
        THEN IF sigX # hidden(T) THEN propagateNaN(T, uiA, uiB)
             ELSE Quiet(infinity(T, sign))
        ELSE IF dist >= farApart(T)
        THEN IF expY = 0 /\ fracY = 0 THEN Quiet(big) ELSE addEpsilon(T, rm, big)
        ELSE IF sig32 < 2 ^ (2 * T.w - 2)
        THEN roundDouble(T, rm, sign, expX - 1, sig32 * 2)
        ELSE roundDouble(T, rm, sign, expX, sig32)))))))

softfloat_subMagsF16(rm, uiA, uiB) ==
    LET T == F16
        expA == expUI(T, uiA)
        expB == expUI(T, uiB)
        sigA == fracUI(T, uiA)
        sigB == fracUI(T, uiB)
        expDiff == expA - expB
        sign == signUI(T, uiA) # (expDiff < 0) IN
    Let(IF expDiff < 0 THEN expB ELSE expA, LAMBDA expX :
    Let(hidden(T) + (IF expDiff < 0 THEN sigB ELSE sigA), LAMBDA sigX :
    Let(IF expDiff < 0 THEN expA ELSE expB, LAMBDA expY :
    Let(IF expDiff < 0 THEN sigA ELSE sigB, LAMBDA fracY :
    LET sigY == fracY + (IF expY # 0 THEN hidden(T) ELSE fracY) IN
    Let(IF expDiff < 0 THEN -expDiff ELSE expDiff, LAMBDA dist :
    Let(packToUI(T, sign, expX, sigX - hidden(T)), LAMBDA big :
    LET diff == sigX * 2 ^ dist - sigY
        shiftDist == countLeadingZeros(diff, 2 * T.w) - 1
    IN  IF expDiff = 0 THEN subEqualExp(T, rm, uiA, uiB, sigA, sigB)
        ELSE IF expX = maxExp(T)
        THEN IF sigX # hidden(T) THEN propagateNaN(T, uiA, uiB)
             ELSE Quiet(infinity(T, sign))
        ELSE IF dist >= farApart(T)
        THEN IF expY = 0 /\ fracY = 0 THEN Quiet(big) ELSE subEpsilon(T, rm, big)
        ELSE roundDouble(T, rm, sign, expY + doubleShift(T) - shiftDist,
                         diff * 2 ^ shiftDist)))))))
=============================================================================
