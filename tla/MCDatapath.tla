------------------------------ MODULE MCDatapath ------------------------------
(***************************************************************************)
(* SoftFloat on formats small enough to enumerate, against FloatRef, and   *)
(* the vector unit on top of it.                                           *)
(*                                                                         *)
(* The algorithms depend on relations between widths (guard bits, words    *)
(* twice as wide as the significand, integers as wide as a format), not on *)
(* the widths themselves; the scaled formats keep those relations.  Four   *)
(* instances: A for arithmetic, C for conversions (the four formats nest), *)
(* D for those to 32-bit integers and narrower (a word is much shorter     *)
(* than a double's significand), E, the real half format, for estimates.   *)
(* The vector unit has 2-bit bytes, 4-byte registers and 4-byte elements.  *)
(***************************************************************************)
EXTENDS Integers, Binding

Toy(w, f) == [w |-> w, f |-> f, early |-> FALSE, recipSlack |-> 1, recipClear |-> 2,
              sqrtSlack |-> 1, sqrtClear |-> 2]

Early(T) == [T EXCEPT !.early = TRUE]

Quad(w, f, x, h) == [w |-> w, f |-> f, x |-> x, h |-> h]

A16 == Early(Toy(7, 2))
A32 == Early(Toy(8, 3))
A64 == Toy(8, 2)
A128 == Quad(8, 3, 6, 3)

C16 == Early(Toy(5, 1))
C32 == Early(Toy(9, 3))
C64 == Toy(15, 8)
C128 == Quad(26, 18, 15, 3)
D128 == Quad(26, 18, 8, 3)

Half == Early(Toy(16, 10))

A == INSTANCE FloatRef WITH F16 <- A16, F32 <- A32, F64 <- A64, F128 <- A128,
                            I8 <- 4, I16 <- 7, I32 <- 10, I64 <- 15, IG <- 4
C == INSTANCE FloatRef WITH F16 <- C16, F32 <- C32, F64 <- C64, F128 <- C128,
                            I8 <- 4, I16 <- 7, I32 <- 9, I64 <- 15, IG <- 4
D == INSTANCE FloatRef WITH F16 <- C16, F32 <- C32, F64 <- C64, F128 <- D128,
                            I8 <- 3, I16 <- 4, I32 <- 5, I64 <- 15, IG <- 3
E == INSTANCE FloatRef WITH F16 <- Half, F32 <- Half, F64 <- Half, F128 <- A128,
                            I8 <- 4, I16 <- 7, I32 <- 10, I64 <- 15, IG <- 4

VARIABLES rm,   \* softfloat_roundingMode
          unit, \* which instance is exercised
          a,    \* the first operand
          vu, insn, vu0, videal, phase \* the vector unit and its instruction

-----------------------------------------------------------------------------
(* The vector unit's programs *)

V16 == Early(Toy(4, 1))
V32 == Early(Toy(8, 3))
V64 == Toy(16, 8)

\* Registers 6 to 9 hold indices: aligned, and within memory, in several widths.
Registers == << 1,3,2,1, 2,0,3,1, 3,1,1,2, 0,3,2,3, 1,2,3,0, 2,2,1,3, 0,1,0,2, 0,2,0,3,
                0,1,0,0, 0,3,0,0, 3,2,0,1, 1,1,3,2, 2,3,1,0, 3,0,2,2, 1,0,1,3, 0,2,3,1 >>

Memory == << 2,1,3,0, 1,1,2,3, 3,0,2,1, 0,3,1,2, 2,2,0,1, 3,1,0,3, 1,2,3,3, 0,1,2,0,
             2,0,1,3, 1,3,3,2 >>

\* Element widths 1, 2 and 4 in half a register, one and two; one type is illegal.
Types == [vlmul : {-1, 0, 1}, vsew : {0, 1, 2}, high : {FALSE}]

Insn(op, form, rd, rs2, rs1, vm) ==
    [op |-> op, form |-> form, rd |-> rd, rs2 |-> rs2, rs1 |-> rs1, vm |-> vm, scalar |-> 1,
     imm |-> 2, frozen |-> FALSE, div |-> 2, nf |-> 1, eew |-> 1, mode |-> "unit", base |-> 4,
     stride |-> 0, wd |-> FALSE]

\* One instruction of each loop, on every way its operands can overlap
Swept(op, form) ==
    { Insn(op, form, rd, rs2, rs1, vm) :
          rd \in {0, 2, 4}, rs2 \in {0, 2, 3, 4, 5}, rs1 \in IF form = "vv" THEN {2, 3, 5} ELSE {0},
          vm \in BOOLEAN }

Overlapping ==
    UNION { Swept(op, "vv") : op \in {"vwmacc", "vwadd_w", "vnclip", "vmadc", "vmsle", "vrgather",
                                      "vrgatherei16", "vredsum", "vfwmacc", "vmfle", "vcompress"} }
    \union UNION { Swept(op, "vx") : op \in {"vmacc", "vmerge", "vzext", "vslideup", "vslidedown",
                                             "vslide1up", "vslide1down", "viota", "vmsbf",
                                             "vfwcvt_f_f", "vfncvt_x_f"} }
    \union { Insn("vmvnfr", "vx", rd, rs2, len, TRUE) :
                 rd \in {0, 2, 4}, rs2 \in {2, 3, 4}, len \in {0, 1} }

\* The other instructions, in place and with a scalar
Plain(op) == {Insn(op, "vv", 2, 4, 2, TRUE), Insn(op, "vx", 4, 4, 0, FALSE),
              Insn(op, "vi", 2, 4, 0, TRUE)}

Others == UNION { Plain(op) : op \in
    {"vadd", "vrsub", "vand", "vminu", "vmax", "vnmsub", "vsll", "vsra", "vdiv", "vrem", "vmulhu",
     "vmulh", "vmulhsu", "vsadd", "vssub", "vsaddu", "vssubu", "vsmul", "vssrl", "vssra", "vaadd",
     "vaaddu", "vasub", "vasubu", "vmseq", "vmsltu", "vmand", "vmnor", "vmxor", "vmv_v", "vmsbc",
     "vadc", "vsbc", "vredmax", "vwredsum", "vwredsumu", "vnclipu", "vnsra", "vnsrl", "vwadd",
     "vwsubu", "vwmul", "vwmulsu", "vwmaccsu", "vwsub_w", "vsext", "vslideup", "vslidedown",
     "vrgather", "vid", "vmsif", "vmsof", "vpopc", "vfirst", "vmv_x_s", "vmv_s_x", "vfadd",
     "vfrsub", "vfmul", "vfmacc", "vfnmsub", "vfdot", "vfmin", "vfsgnjx", "vfcvt_x_f", "vfsqrt",
     "vmfeq", "vmfgt", "vfredsum", "vfredmax", "vfwredsum", "vfwadd", "vfwsub", "vfwadd_w",
     "vfwsub_w", "vfncvt_f_f", "vfncvt_rod_f_f", "vfmerge", "vfmv_v_f", "vfmv_f_s", "vfmv_s_f",
     "vfslide1up", "vfslide1down", "vfsub", "vfnmacc", "vfmsac", "vfnmsac", "vfmadd", "vfnmadd",
     "vfmsub", "vfmax", "vfsgnj", "vfsgnjn", "vfcvt_rtz_x_f", "vmfne", "vmflt", "vmfge", "vfredmin",
     "vfwredosum", "vfwcvt_x_f", "vfncvt_rtz_x_f"} }

\* Unit and constant strides, indices in registers 6 and 8 or in the destination
Accesses ==
    { [Insn(op, "vx", rd, 0, 0, vm) EXCEPT !.nf = nf, !.eew = eew, !.mode = mode, !.stride = 8] :
          op \in {"vle", "vse"}, rd \in {2}, vm \in BOOLEAN, nf \in {1, 2}, eew \in {1, 2, 4},
          mode \in {"unit", "stride"} }
    \union { [Insn(op, "vx", rd, rs2, 0, vm) EXCEPT !.nf = nf, !.eew = eew, !.wd = wd] :
          op \in {"vlxei", "vsxei", "vamoadd"}, rd \in {6, 8}, rs2 \in {6, 7, 8}, vm \in BOOLEAN,
          nf \in {1, 2}, eew \in {1, 2, 4}, wd \in {TRUE} }
    \union { [Insn(op, "vx", 4, 0, 0, vm) EXCEPT !.nf = nf, !.eew = eew] :
          op \in {"vleff", "vl1re", "vs1r"}, vm \in BOOLEAN, nf \in {1, 2}, eew \in {1, 2, 4} }
    \union { [Insn("vamoadd", "vx", 6, 8, 0, TRUE) EXCEPT !.eew = 4] }

\* Encodings in which the vm bit is fixed
Encoded(i) ==
    /\ i.op \in {"vmerge", "vfmerge", "vadc", "vsbc"} => ~i.vm
    /\ i.op \in {"vmv_v", "vcompress", "vfmv_v_f", "vfmv_s_f", "vfmv_f_s", "vmv_s_x", "vmv_x_s"} => i.vm

Program(v) == { i \in Overlapping \union Others \union Accesses : Encoded(i) }

V == INSTANCE VectorSystem WITH
         F16 <- V16, F32 <- V32, F64 <- V64, F128 <- A128, I8 <- 2, I16 <- 4, I32 <- 8, I64 <- 16,
         IG <- 4, ByteBits <- 2, vlenb <- 4, NVPR <- 16, ELEN <- 4, Registers <- Registers,
         Memory <- Memory, Types <- Types, Requests <- {1, 3, 8}, Starts <- {0, 1},
         Unmapped <- {{}, {1, 3}, {2, 4}}, Program <- Program,
         u <- vu, x <- insn, u0 <- vu0, ideal <- videal

-----------------------------------------------------------------------------

vars == <<rm, unit, a, vu, insn, vu0, videal, phase>>

\* Operands of the conversions: every pattern of C32.
ConvOperands == 0 .. 511

Init == rm = "near_even" /\ unit = "arith" /\ a = 0 /\ V!VectorInit

\* fsrm
SetRoundingMode == rm' \in A!RoundingModes /\ UNCHANGED <<unit, a>>

\* A new operand for an arithmetic operation or for a conversion.
LoadArith == a = 0 /\ unit' = "arith" /\ a' \in 1 .. 255 /\ UNCHANGED rm

LoadConv == a = 0 /\ unit' = "conv" /\ a' \in ConvOperands /\ UNCHANGED rm

\* Scalar floating point, until the program turns to the vector unit
Scalar == /\ unit # "vector"
          /\ SetRoundingMode \/ LoadArith \/ LoadConv
          /\ UNCHANGED <<vu, insn, vu0, videal, phase>>

Vector == /\ a = 0 /\ rm = "near_even" /\ unit' = "vector"
          /\ V!VectorNext
          /\ UNCHANGED <<rm, a>>

Next == Vector \/ Scalar

Spec == Init /\ [][Next]_vars

\* The loops of decode.h write an element before they read the next: whatever
\* registers an instruction names, its checks refuse it or the result is that of
\* reading every source, and the mask, beforehand.
InPlaceExact == V!InPlaceExact

\* A vector load or store executed again after each page fault leaves what it
\* would have left with every page mapped (see VectorSystem for the exceptions).
RestartExact == V!RestartExact

\* A fault-only-first load traps on element 0 alone, and otherwise cuts vl to the
\* first element that misses, or leaves it when none does; it has loaded every
\* active element before that one.
FaultOnlyFirst == V!FaultOnlyFirst

\* Saturating, averaging (vaadd, vaaddu, vasub, vasubu), rounding and high-half
\* operations, computed with masks, wrapped sums and half-word products, are the
\* exact integer result rounded once in vxrm and clamped, and report saturation
\* exactly then.
FixedPointCorrect == V!FixedPointCorrect

-----------------------------------------------------------------------------
(* The other operands *)

Patterns(T, exps) == { A!packToUI(T, s, e, f) : s \in BOOLEAN, e \in exps,
                            f \in {0, 1, 2 ^ (T.f - 1) + 1, 2 ^ T.f - 1} }

Exps(T) == {0, 1, A!bias(T) - 2, A!bias(T), A!bias(T) + 2, A!maxExp(T) - 1, A!maxExp(T)}

B16 == Patterns(A16, Exps(A16))
B32 == Patterns(A32, Exps(A32))
B64 == Patterns(A64, Exps(A64))

\* Factors and divisors: one negative fraction is enough.
Divisors(T) == { b \in Patterns(T, Exps(T)) : A!signUI(T, b) => A!fracUI(T, b) = 1 }

P16 == Divisors(A16)
P32 == Divisors(A32)
P64 == Divisors(A64)

\* Multiplicands (the sign of a is enough) and addends of a fused operation.
Addends(T) == { A!packToUI(T, s, e, f) : s \in BOOLEAN, e \in {0, A!bias(T), A!bias(T) + 2},
                                          f \in {1, 2 ^ T.f - 1} }

Factors(T) == { x \in Addends(T) : ~A!signUI(T, x) /\ A!expUI(T, x) # A!bias(T) + 2 }

G16 == Addends(A16)
G32 == Addends(A32)
G64 == Addends(A64)
M16 == Factors(A16)
M32 == Factors(A32)
M64 == Factors(A64)

-----------------------------------------------------------------------------

\* Sums and differences: equal exponents, near ones and ones far apart
AddSubCorrect ==
    unit = "arith" =>
        /\ a < 128 => \A b \in B16 : /\ A!f16_add(rm, a, b) = A!RefAdd(A16, rm, a, b)
                                     /\ A!f16_sub(rm, a, b) = A!RefSub(A16, rm, a, b)
        /\ \A b \in B32 : /\ A!f32_add(rm, a, b) = A!RefAdd(A32, rm, a, b)
                          /\ A!f32_sub(rm, a, b) = A!RefSub(A32, rm, a, b)
                          /\ A!f128_add(rm, a, b) = A!RefAdd(A128, rm, a, b)
                          /\ A!f128_sub(rm, a, b) = A!RefSub(A128, rm, a, b)
        /\ \A b \in B64 : /\ A!f64_add(rm, a, b) = A!RefAdd(A64, rm, a, b)
                          /\ A!f64_sub(rm, a, b) = A!RefSub(A64, rm, a, b)

\* Products, quotients, roots and remainders, for every error of the approximate
\* reciprocal within the bound the correction step is written for
ProductsCorrect ==
    unit = "arith" =>
        /\ a < 128 =>
             /\ \A b \in P16 :
                  /\ A!f16_mul(rm, a, b) = A!RefMul(A16, rm, a, b)
                  /\ \A err \in A!divErrors(A16, a, b) :
                         A!f16_div(rm, a, b, err) = A!RefDiv(A16, rm, a, b)
                  /\ \A err \in A!remErrors : A!f16_rem(rm, a, b, err) = A!RefRem(A16, a, b)
             /\ \A err \in A!sqrtErrors(A16, a) :
                    A!f16_sqrt(rm, a, err) = A!RefSqrt(A16, rm, a)
        /\ \A b \in P32 :
             /\ A!f32_mul(rm, a, b) = A!RefMul(A32, rm, a, b)
             /\ A!f32_div(rm, a, b) = A!RefDiv(A32, rm, a, b)
             /\ A!f128_mul(rm, a, b) = A!RefMul(A128, rm, a, b)
             /\ \A err \in A!f128_divErrors(a, b) :
                    A!f128_div(rm, a, b, err) = A!RefDiv(A128, rm, a, b)
             /\ \A err \in A!remErrors :
                    /\ A!f32_rem(rm, a, b, err) = A!RefRem(A32, a, b)
                    /\ A!f128_rem(rm, a, b, err) = A!RefRem(A128, a, b)
        /\ \A b \in P64 :
             /\ A!f64_mul(rm, a, b) = A!RefMul(A64, rm, a, b)
             /\ \A err \in A!divErrors(A64, a, b) :
                    A!f64_div(rm, a, b, err) = A!RefDiv(A64, rm, a, b)
             /\ \A err \in A!remErrors : A!f64_rem(rm, a, b, err) = A!RefRem(A64, a, b)
        /\ \A err \in A!sqrtErrors(A32, a) : A!f32_sqrt(rm, a, err) = A!RefSqrt(A32, rm, a)
        /\ \A err \in A!sqrtErrors(A64, a) : A!f64_sqrt(rm, a, err) = A!RefSqrt(A64, rm, a)
        /\ \A err \in A!f128_sqrtErrors(a) : A!f128_sqrt(rm, a, err) = A!RefSqrt(A128, rm, a)

\* a * b + c: no bit of the product is lost before the addend cancels its leading
\* bits.
FusedCorrect ==
    unit = "arith" =>
        /\ a < 128 => \A b \in M16, c \in G16 :
               A!f16_mulAdd(rm, a, b, c) = A!RefMulAdd(A16, rm, a, b, c)
        /\ \A b \in M32, c \in G32 :
               /\ A!f32_mulAdd(rm, a, b, c) = A!RefMulAdd(A32, rm, a, b, c)
               /\ A!f128_mulAdd(rm, a, b, c) = A!RefMulAdd(A128, rm, a, b, c)
        /\ \A b \in M64, c \in G64 :
               A!f64_mulAdd(rm, a, b, c) = A!RefMulAdd(A64, rm, a, b, c)

\* In every format a sum, product, quotient, root, remainder or fused product is
\* the exact result rounded once in the current mode, with exactly the IEEE flags
\* (underflow detected after rounding), whatever path the exponents select and
\* however good the reciprocal was that the algorithm started from.
ArithmeticCorrect == AddSubCorrect /\ ProductsCorrect /\ FusedCorrect

-----------------------------------------------------------------------------
(* Conversions: a is a C32 pattern; the wider patterns refine it, the      *)
(* integers are its value and its refinements.                             *)

Of16 == a % 32

\* Sign and fraction of a; the exponent of a around the bias of the wider format,
\* or one of its extremes.
Refined(T, lows) ==
    LET e == (a \div 8) % 32
    IN  { C!packToUI(T, a >= 256, x, (a % 8) * 2 ^ (T.f - 3) + l) :
              x \in {e + C!bias(T) - 15, (e % 2) * C!maxExp(T)}, l \in lows }

Of64 == Refined(C64, {0, 1, 15, 16, 31})
Of128 == Refined(C128, {0, 1, 2 ^ 14, 2 ^ 15 - 1})

Ints32 == {a - 256, a}
Ints64 == { x * 64 + l : x \in Ints32, l \in {0, 1, 31, 32, 63} }

Signed32(i) == i >= C!minInt(9) /\ i <= C!maxInt(9)
Signed64(i) == i >= C!minInt(15) /\ i <= C!maxInt(15)

ToIntCorrect ==
    LET ok(z, T, n, signed, x) == z = C!RefToInt(T, n, signed, x, rm)
        cut(z, T, n, signed, x) == z = C!RefToInt(T, n, signed, x, "minMag")
        h == Of16
    IN  /\ ok(D!f16_to_i8(h, rm, TRUE), C16, 3, TRUE, h)
        /\ ok(D!f16_to_ui8(h, rm, TRUE), C16, 3, FALSE, h)
        /\ ok(D!f16_to_i16(h, rm, TRUE), C16, 4, TRUE, h)
        /\ ok(D!f16_to_ui16(h, rm, TRUE), C16, 4, FALSE, h)
        /\ ok(D!f16_to_i32(h, rm, TRUE), C16, 5, TRUE, h)
        /\ ok(D!f16_to_ui32(h, rm, TRUE), C16, 5, FALSE, h)
        /\ ok(C!f16_to_i64(h, rm, TRUE), C16, 15, TRUE, h)
        /\ ok(C!f16_to_ui64(h, rm, TRUE), C16, 15, FALSE, h)
        /\ ok(D!f32_to_i16(a, rm, TRUE), C32, 4, TRUE, a)
        /\ ok(D!f32_to_ui16(a, rm, TRUE), C32, 4, FALSE, a)
        /\ ok(D!f32_to_i32(a, rm, TRUE), C32, 5, TRUE, a)
        /\ ok(D!f32_to_ui32(a, rm, TRUE), C32, 5, FALSE, a)
        /\ ok(C!f32_to_i64(a, rm, TRUE), C32, 15, TRUE, a)
        /\ ok(C!f32_to_ui64(a, rm, TRUE), C32, 15, FALSE, a)
        /\ cut(C!f16_to_i32_r_minMag(h, TRUE), C16, 9, TRUE, h)
        /\ cut(C!f16_to_ui64_r_minMag(h, TRUE), C16, 15, FALSE, h)
        /\ cut(C!f32_to_i32_r_minMag(a, TRUE), C32, 9, TRUE, a)
        /\ cut(C!f32_to_ui32_r_minMag(a, TRUE), C32, 9, FALSE, a)
        /\ cut(C!f32_to_i64_r_minMag(a, TRUE), C32, 15, TRUE, a)
        /\ \A d \in Of64 : /\ ok(D!f64_to_i32(d, rm, TRUE), C64, 5, TRUE, d)
                           /\ ok(D!f64_to_ui32(d, rm, TRUE), C64, 5, FALSE, d)
                           /\ ok(C!f64_to_i64(d, rm, TRUE), C64, 15, TRUE, d)
                           /\ ok(C!f64_to_ui64(d, rm, TRUE), C64, 15, FALSE, d)
                           /\ cut(C!f64_to_i32_r_minMag(d, TRUE), C64, 9, TRUE, d)
                           /\ cut(C!f64_to_ui64_r_minMag(d, TRUE), C64, 15, FALSE, d)
        /\ \A q \in Of128 : /\ ok(D!f128_to_i32(q, rm, TRUE), D128, 5, TRUE, q)
                            /\ ok(D!f128_to_ui32(q, rm, TRUE), D128, 5, FALSE, q)
                            /\ ok(C!f128_to_i64(q, rm, TRUE), C128, 15, TRUE, q)
                            /\ ok(C!f128_to_ui64(q, rm, TRUE), C128, 15, FALSE, q)
                            /\ cut(C!f128_to_i64_r_minMag(q, TRUE), C128, 15, TRUE, q)

FromIntCorrect ==
    /\ \A i \in Ints32 :
         LET is(z, T) == z = C!RefFromInt(T, rm, i)
         IN  IF Signed32(i)
             THEN /\ is(C!i32_to_f16(rm, i), C16) /\ is(C!i32_to_f32(rm, i), C32)
                  /\ is(C!i32_to_f64(i), C64)     /\ is(C!i32_to_f128(i), C128)
             ELSE /\ is(C!ui32_to_f16(rm, i), C16) /\ is(C!ui32_to_f32(rm, i), C32)
                  /\ is(C!ui32_to_f64(i), C64)     /\ is(C!ui32_to_f128(i), C128)
    /\ \A i \in Ints64 :
         LET is(z, T) == z = C!RefFromInt(T, rm, i)
         IN  IF Signed64(i)
             THEN /\ is(C!i64_to_f16(rm, i), C16) /\ is(C!i64_to_f32(rm, i), C32)
                  /\ is(C!i64_to_f64(rm, i), C64) /\ is(C!i64_to_f128(i), C128)
             ELSE /\ is(C!ui64_to_f16(rm, i), C16) /\ is(C!ui64_to_f32(rm, i), C32)
                  /\ is(C!ui64_to_f64(rm, i), C64) /\ is(C!ui64_to_f128(i), C128)

FormatsCorrect ==
    LET is(z, T, U, x) == z = C!RefToFloat(T, U, rm, x)
        h == Of16
    IN  /\ is(C!f16_to_f32(h), C16, C32, h) /\ is(C!f16_to_f64(h), C16, C64, h)
        /\ is(C!f16_to_f128(h), C16, C128, h)
        /\ is(C!f32_to_f64(a), C32, C64, a) /\ is(C!f32_to_f128(a), C32, C128, a)
        /\ is(C!f32_to_f16(rm, a), C32, C16, a)
        /\ \A d \in Of64 : /\ is(C!f64_to_f128(d), C64, C128, d)
                           /\ is(C!f64_to_f32(rm, d), C64, C32, d)
                           /\ is(C!f64_to_f16(rm, d), C64, C16, d)
        /\ \A q \in Of128 : /\ is(C!f128_to_f64(rm, q), C128, C64, q)
                            /\ is(C!f128_to_f32(rm, q), C128, C32, q)
                            /\ is(C!f128_to_f16(rm, q), C128, C16, q)

\* A conversion to an integer or to another format is the exact value rounded
\* once; what does not fit saturates with invalid alone, and a NaN converts to
\* the largest integer.  SoftFloat has no round-to-odd for integers.
ConversionsCorrect ==
    unit = "conv" => /\ rm # "odd" => ToIntCorrect
                     /\ FromIntCorrect
                     /\ FormatsCorrect

-----------------------------------------------------------------------------

\* Rounding to an integral value, comparisons, minimum and maximum agree with
\* the order of the numbers on the real line, signed zeros and NaNs included.
OrderCorrect ==
    unit = "arith" /\ rm # "odd" =>
        /\ \A T \in {A32, A64, A128} :
               A!roundToInt(T, a, rm, TRUE) = A!RefRoundToInt(T, a, rm)
        /\ \A b \in B32 :
             Let(A!order(A32, a), LAMBDA x :
             Let(A!order(A32, b), LAMBDA y :
                 /\ A!f32_eq(a, b) = A!RefCompare(A32, TRUE, a, b, x = y)
                 /\ A!f32_eq_signaling(a, b) = A!RefCompare(A32, FALSE, a, b, x = y)
                 /\ A!f32_le(a, b) = A!RefCompare(A32, FALSE, a, b, x <= y)
                 /\ A!f32_le_quiet(a, b) = A!RefCompare(A32, TRUE, a, b, x <= y)
                 /\ A!f32_lt(a, b) = A!RefCompare(A32, FALSE, a, b, x < y)
                 /\ A!f32_lt_quiet(a, b) = A!RefCompare(A32, TRUE, a, b, x < y)
                 /\ A!COMPARE_MAX(A32, a, b) = A!RefPick(A32, TRUE, a, b)
                 /\ A!COMPARE_MIN(A32, a, b) = A!RefPick(A32, FALSE, a, b)))

\* vfrece7 and vfrsqrte7: the estimate z of 1 / x has |x * z - 1| <= 2^-7 and that of
\* 1 / sqrt(x) has |x * z^2 - 1| <= 2^-6, for every table entry and for subnormals.
EstimatesAccurate ==
    unit = "arith" =>
        \A e \in {0, 1, 2, 14, 15, 27, 28, 29, 30}, l \in {0, 3, 7} :
            Let(E!packToUI(Half, a >= 128, e, (a % 128) * 8 + l), LAMBDA x :
            Let(E!f16_recip7(rm, x), LAMBDA z :
            Let(E!f16_rsqrte7(x), LAMBDA r :
                /\ z.fl = {} /\ E!expUI(Half, z.z) # 0 => E!nearReciprocal(Half, x, z.z, 7)
                /\ r.fl = {} => E!nearRootReciprocal(Half, x, r.z, 6))))
=============================================================================
