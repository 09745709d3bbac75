------------------------------ MODULE VectorFp ------------------------------
(***************************************************************************)
(* Floating-point instructions of the vector unit: the VI_VFP loops over   *)
(* the operations of SoftFloat.  A loop that widens converts its sources   *)
(* first, and the flags of the conversion are collected with those of the  *)
(* operation.  Extensions F, D and Zfh are present.                        *)
(***************************************************************************)
EXTENDS VectorInt

format(w) == CASE w = 2 -> F16 [] w = 4 -> F32 [] w = 8 -> F64

FloatWidths == {2, 4, 8}

VI_VFP_COMMON(u) ==
    /\ u.vsew \in FloatWidths /\ require_vector(u)
    /\ u.frm \in RoundingModes \ {"odd"}

VI_VFP_LOOP_BASE(step(_, _, _), u, x) ==
    requiring(VI_VFP_COMMON(u), u, VI_LOOP_BASE(step, u, x))

\* vs1, or the scalar register's low bits
fp1(src, x, w, i) == PARAMS(src, x, w, i)

set_fp_exceptions(dst, fl) == [dst EXCEPT !.fflags = @ \union fl]

fput(dst, x, w, i, r) ==
    set_fp_exceptions([dst EXCEPT !.file = setElt(@, w, x.rd, i, r.z)], r.fl)

fadd(w, rm, a, b) == CASE w = 2 -> f16_add(rm, a, b)
                       [] w = 4 -> f32_add(rm, a, b)
                       [] w = 8 -> f64_add(rm, a, b)

fsub(w, rm, a, b) == CASE w = 2 -> f16_sub(rm, a, b)
                       [] w = 4 -> f32_sub(rm, a, b)
                       [] w = 8 -> f64_sub(rm, a, b)

fmul(w, rm, a, b) == CASE w = 2 -> f16_mul(rm, a, b)
                       [] w = 4 -> f32_mul(rm, a, b)
                       [] w = 8 -> f64_mul(rm, a, b)

fmulAdd(w, rm, a, b, c) == CASE w = 2 -> f16_mulAdd(rm, a, b, c)
                             [] w = 4 -> f32_mulAdd(rm, a, b, c)
                             [] w = 8 -> f64_mulAdd(rm, a, b, c)

\* v ^ F_SIGN
flipped(w, v) == wrap(w, v + 2 ^ (bits(w) - 1))

\* fsgnj(a, b, n, x)
fsgnj(w, a, b, n, xor) ==
    LET sign == CASE xor -> msb(w, a) # msb(w, b)
                  [] n -> ~msb(w, b)
                  [] OTHER -> msb(w, b)
    IN  Quiet((a % 2 ^ (bits(w) - 1)) + (IF sign THEN 2 ^ (bits(w) - 1) ELSE 0))

toInt(w, a, rm) == CASE w = 2 -> f16_to_i16(a, rm, TRUE)
                     [] w = 4 -> f32_to_i32(a, rm, TRUE)
                     [] w = 8 -> f64_to_i64(a, rm, TRUE)

\* A call of SoftFloat, and its result
call(f, a, b, c) == [f |-> f, a |-> a, b |-> b, c |-> c]

float(w, rm, q) == CASE q.f = "add" -> fadd(w, rm, q.a, q.b)
                     [] q.f = "sub" -> fsub(w, rm, q.a, q.b)
                     [] q.f = "mul" -> fmul(w, rm, q.a, q.b)
                     [] q.f = "mulAdd" -> fmulAdd(w, rm, q.a, q.b, q.c)

\* Instructions by what they do to one element: a of vs2, b of vs1 or rs1, d the
\* old destination
vfadd_vv(a, b) == call("add", b, a, 0)
vfsub_vv(a, b) == call("sub", a, b, 0)
vfrsub_vf(a, b) == call("sub", b, a, 0)
vfmul_vv(a, b) == call("mul", a, b, 0)
vfmacc_vv(a, b, d) == call("mulAdd", b, a, d)
vfnmacc_vv(w, a, b, d) == call("mulAdd", flipped(w, a), b, flipped(w, d))
vfmsac_vv(w, a, b, d) == call("mulAdd", b, a, flipped(w, d))
vfnmsac_vv(w, a, b, d) == call("mulAdd", flipped(w, b), a, d)
vfmadd_vv(a, b, d) == call("mulAdd", d, b, a)
vfnmadd_vv(w, a, b, d) == call("mulAdd", flipped(w, d), b, flipped(w, a))
vfmsub_vv(w, a, b, d) == call("mulAdd", d, b, flipped(w, a))
vfnmsub_vv(w, a, b, d) == call("mulAdd", flipped(w, d), b, a)
vfmin_vv(w, a, b) == COMPARE_MIN(format(w), a, b)
vfmax_vv(w, a, b) == COMPARE_MAX(format(w), a, b)
vfsgnj_vv(w, a, b) == fsgnj(w, a, b, FALSE, FALSE)
vfsgnjn_vv(w, a, b) == fsgnj(w, a, b, TRUE, FALSE)
vfsgnjx_vv(w, a, b) == fsgnj(w, a, b, FALSE, TRUE)
vfcvt_x_f_v(w, rm, a) == toInt(w, a, rm)
vfcvt_rtz_x_f_v(w, a) == toInt(w, a, "minMag")
vfsqrt_v(w, rm, a) == sqrt(format(w), rm, a, 0)
vmfeq_vv(w, a, b) == eq(format(w), TRUE, a, b)
vmfle_vv(w, a, b) == le(format(w), FALSE, a, b)
vmflt_vv(w, a, b) == lt(format(w), FALSE, a, b)
vmfgt_vf(w, a, b) == lt(format(w), FALSE, b, a)
vmfge_vf(w, a, b) == le(format(w), FALSE, b, a)
vfredsum_vs(w, rm, p, q) == fadd(w, rm, p, q)
vfredmax_vs(w, p, q) == COMPARE_MAX(format(w), p, q)
vfredmin_vs(w, p, q) == COMPARE_MIN(format(w), p, q)

vmfne_vv(w, a, b) == Let(eq(format(w), TRUE, a, b), LAMBDA r : Raising(~r.z, r.fl))

vfdot_vv(w, rm, a, b, d) ==
    Let(fmul(w, rm, a, b), LAMBDA p :
    Let(fadd(w, rm, d, p.z), LAMBDA s :
        Raising(s.z, p.fl \union s.fl)))

called(op, w, a, b, d) ==
    CASE op = "vfadd" -> vfadd_vv(a, b)
      [] op = "vfsub" -> vfsub_vv(a, b)
      [] op = "vfrsub" -> vfrsub_vf(a, b)
      [] op = "vfmul" -> vfmul_vv(a, b)
      [] op = "vfmacc" -> vfmacc_vv(a, b, d)
      [] op = "vfnmacc" -> vfnmacc_vv(w, a, b, d)
      [] op = "vfmsac" -> vfmsac_vv(w, a, b, d)
      [] op = "vfnmsac" -> vfnmsac_vv(w, a, b, d)
      [] op = "vfmadd" -> vfmadd_vv(a, b, d)
      [] op = "vfnmadd" -> vfnmadd_vv(w, a, b, d)
      [] op = "vfmsub" -> vfmsub_vv(w, a, b, d)
      [] op = "vfnmsub" -> vfnmsub_vv(w, a, b, d)

\* One element of an instruction whose operands have one width
fElement(rm, op, w, a, b, d) ==
    CASE op = "vfdot" -> vfdot_vv(w, rm, a, b, d)
      [] op = "vfmin" -> vfmin_vv(w, a, b)
      [] op = "vfmax" -> vfmax_vv(w, a, b)
      [] op = "vfsgnj" -> vfsgnj_vv(w, a, b)
      [] op = "vfsgnjn" -> vfsgnjn_vv(w, a, b)
      [] op = "vfsgnjx" -> vfsgnjx_vv(w, a, b)
      [] op = "vfcvt_x_f" -> vfcvt_x_f_v(w, rm, a)
      [] op = "vfcvt_rtz_x_f" -> vfcvt_rtz_x_f_v(w, a)
      [] OTHER -> float(w, rm, called(op, w, a, b, d))

VI_VFP_LOOP(u, x) ==
    requiring(VI_CHECK_SSS(u, x), u,
        VI_VFP_LOOP_BASE(LAMBDA src, dst, i :
            LET w == u.vsew
            IN  fput(dst, x, w, i, fElement(u.frm, x.op, w, vs2Of(src, x, w, i),
                                            fp1(src, x, w, i), elt(src.file, w, x.rd, i))), u, x))

\* Operations of vs2 alone: vfsqrt; the estimate of the root is the best one.
VI_VFP_V_LOOP(u, x) ==
    requiring(VI_CHECK_SSS(u, x), u,
        VI_VFP_LOOP_BASE(LAMBDA src, dst, i :
            LET w == u.vsew
            IN  fput(dst, x, w, i, vfsqrt_v(w, u.frm, vs2Of(src, x, w, i))), u, x))

VI_VFP_LOOP_CMP(u, x) ==
    requiring(VI_CHECK_MSS(u, x), u,
        VI_VFP_LOOP_BASE(LAMBDA src, dst, i :
            LET w == u.vsew IN
            Let(vs2Of(src, x, w, i), LAMBDA a :
            Let(fp1(src, x, w, i), LAMBDA b :
            Let(CASE x.op = "vmfeq" -> vmfeq_vv(w, a, b)
                  [] x.op = "vmfne" -> vmfne_vv(w, a, b)
                  [] x.op = "vmfle" -> vmfle_vv(w, a, b)
                  [] x.op = "vmflt" -> vmflt_vv(w, a, b)
                  [] x.op = "vmfgt" -> vmfgt_vf(w, a, b)
                  [] x.op = "vmfge" -> vmfge_vf(w, a, b), LAMBDA r :
                set_fp_exceptions([dst EXCEPT !.file = setBit(@, x.rd, i, r.z)], r.fl)))), u, x))

-----------------------------------------------------------------------------
(* Reductions *)

\* vd[0] when no element was active: vs1[0] with its NaN made canonical
VI_VFP_LOOP_REDUCTION_END(u, x, w, is_propagate, is_active, acc) ==
    LET T == format(w) IN
    Let(is_propagate /\ ~is_active /\ isNaNUI(T, acc.z), LAMBDA nan :
    Let(nan /\ isSigNaNUI(T, acc.z), LAMBDA sig :
        VI_LOOP_END(IF u.vl = 0 THEN u
                    ELSE fput(u, x, w, 0, Raising(IF nan THEN defaultNaNUI(T) ELSE acc.z,
                                                  acc.fl \union IF sig THEN {"invalid"} ELSE {})))))

\* The accumulator after the active elements; get gives vs2[i] and its flags.
accumulated(u, x, fold(_, _), first, get(_)) ==
    LET acc[i \in 0 .. u.vl] ==
            IF i = 0 THEN Quiet(first)
            ELSE LET p == acc[i - 1]
                 IN  IF VI_LOOP_ELEMENT_SKIP(u, x, i - 1) THEN p
                     ELSE LET a == get(i - 1)
                              r == fold(p.z, a.z)
                          IN  Raising(r.z, p.fl \union a.fl \union r.fl)
    IN  acc[u.vl]

anyActive(u, x) == \E i \in 0 .. u.vl - 1 : ~VI_LOOP_ELEMENT_SKIP(u, x, i)

VI_VFP_VV_LOOP_REDUCTION(u, x) ==
    LET w == u.vsew
        sum == x.op = "vfredsum"
    IN  requiring(VI_CHECK_REDUCTION(u, x, FALSE) /\ VI_VFP_COMMON(u), u,
            VI_VFP_LOOP_REDUCTION_END(u, x, w, sum, anyActive(u, x),
                accumulated(u, x, LAMBDA p, q : CASE sum -> vfredsum_vs(w, u.frm, p, q)
                                                  [] x.op = "vfredmax" -> vfredmax_vs(w, p, q)
                                                  [] x.op = "vfredmin" -> vfredmin_vs(w, p, q),
                            elt(u.file, w, x.rs1, 0), LAMBDA i : Quiet(vs2Of(u, x, w, i)))))

widenedOf(w, v) == CASE w = 2 -> f16_to_f32(v) [] w = 4 -> f32_to_f64(v)

VI_VFP_VV_LOOP_WIDE_REDUCTION(u, x) ==
    LET w == u.vsew
    IN  requiring(VI_CHECK_REDUCTION(u, x, TRUE) /\ VI_VFP_COMMON(u) /\ w # 8, u,
            VI_VFP_LOOP_REDUCTION_END(u, x, 2 * w, x.op = "vfwredsum", anyActive(u, x),
                accumulated(u, x, LAMBDA p, q : fadd(2 * w, u.frm, p, q),
                            elt(u.file, 2 * w, x.rs1, 0),
                            LAMBDA i : widenedOf(w, vs2Of(u, x, w, i)))))

-----------------------------------------------------------------------------
(* Widening *)

\* The operation on wide operands a (vs2) and b (vs1 or rs1)
fWide(rm, op, w, a, b, d) ==
    Let(CASE op \in {"vfwadd", "vfwadd_w"} -> fadd(w, rm, a.z, b.z)
          [] op \in {"vfwsub", "vfwsub_w"} -> fsub(w, rm, a.z, b.z)
          [] op = "vfwmacc" -> fmulAdd(w, rm, b.z, a.z, d), LAMBDA r :
        Raising(r.z, r.fl \union a.fl \union b.fl))

VI_VFP_LOOP_WIDE(u, x) ==
    requiring(VI_CHECK_DSS(u, x) /\ u.vsew # 8, u,
        VI_VFP_LOOP_BASE(LAMBDA src, dst, i :
            LET w == u.vsew
            IN  fput(dst, x, 2 * w, i,
                     fWide(u.frm, x.op, 2 * w, widenedOf(w, vs2Of(src, x, w, i)),
                           widenedOf(w, fp1(src, x, w, i)), elt(src.file, 2 * w, x.rd, i))), u, x))

VI_VFP_W_LOOP_WIDE(u, x) ==
    requiring(VI_CHECK_DDS(u, x) /\ u.vsew # 8, u,
        VI_VFP_LOOP_BASE(LAMBDA src, dst, i :
            LET w == u.vsew
            IN  fput(dst, x, 2 * w, i,
                     fWide(u.frm, x.op, 2 * w, Quiet(vs2Of(src, x, 2 * w, i)),
                           widenedOf(w, fp1(src, x, w, i)), 0)), u, x))

\* Conversions between widths: vfwcvt doubles it, vfncvt halves it.
narrowedOf(w, rm, v) == CASE w = 2 -> f32_to_f16(rm, v) [] w = 4 -> f64_to_f32(rm, v)

vfwcvt_f_f_v(w, a) == widenedOf(w, a)

vfwcvt_x_f_v(w, rm, a) == CASE w = 2 -> f16_to_i32(a, rm, TRUE) [] w = 4 -> f32_to_i64(a, rm, TRUE)

vfncvt_f_f_w(w, rm, a) == narrowedOf(w, rm, a)

vfncvt_rod_f_f_w(w, a) == narrowedOf(w, "odd", a)

vfncvt_x_f_w(w, rm, a) == CASE w = 1 -> f16_to_i8(a, rm, TRUE)
                            [] w = 2 -> f32_to_i16(a, rm, TRUE)
                            [] w = 4 -> f64_to_i32(a, rm, TRUE)

vfncvt_rtz_x_f_w(w, a) == vfncvt_x_f_w(w, "minMag", a)

\* F, D and Zfh are present; integers of one byte are converted from halves.
VI_VFP_LOOP_SCALE_BASE(u) ==
    /\ u.vsew \in {1, 2, 4} /\ require_vector(u)
    /\ u.frm \in RoundingModes \ {"odd"}

Widenings == {"vfwcvt_f_f", "vfwcvt_x_f"}

scaled(op, w, rm, a) == CASE op = "vfwcvt_f_f" -> vfwcvt_f_f_v(w, a)
                          [] op = "vfwcvt_x_f" -> vfwcvt_x_f_v(w, rm, a)
                          [] op = "vfncvt_f_f" -> vfncvt_f_f_w(w, rm, a)
                          [] op = "vfncvt_rod_f_f" -> vfncvt_rod_f_f_w(w, a)
                          [] op = "vfncvt_x_f" -> vfncvt_x_f_w(w, rm, a)
                          [] op = "vfncvt_rtz_x_f" -> vfncvt_rtz_x_f_w(w, a)

VI_VFP_CVT_SCALE(u, x) ==
    LET w == u.vsew
        is_widen == x.op \in Widenings
        eew_check == x.op \in {"vfncvt_x_f", "vfncvt_rtz_x_f"} \/ w >= 2
        to == IF is_widen THEN 2 * w ELSE w
        from == IF is_widen THEN w ELSE 2 * w
    IN  requiring(/\ IF is_widen THEN VI_CHECK_DSS(u, x) ELSE VI_CHECK_SDS(u, x)
                  /\ eew_check /\ VI_VFP_LOOP_SCALE_BASE(u), u,
            VI_LOOP_BASE(LAMBDA src, dst, i :
                fput(dst, x, to, i, scaled(x.op, w, u.frm, vs2Of(src, x, from, i))), u, x))

-----------------------------------------------------------------------------
(* Moves *)

vfmerge_vfm(u, x) ==
    requiring(VI_CHECK_SSS(u, x) /\ VI_VFP_COMMON(u), u,
        VI_GENERAL_LOOP_BASE(LAMBDA src, dst, i :
            put(dst, x, u.vsew, i, plain(IF bitOf(src.file, 0, i) THEN wrap(u.vsew, x.scalar)
                                         ELSE vs2Of(src, x, u.vsew, i))), u, x))

vfmv_v_f(u, x) ==
    requiring(is_aligned(x.rd, u.vflmul) /\ VI_VFP_COMMON(u), u,
        VI_GENERAL_LOOP_BASE(LAMBDA src, dst, i :
            put(dst, x, u.vsew, i, plain(wrap(u.vsew, x.scalar))), u, x))

\* A narrow value is boxed in ones.
vfmv_f_s(u, x) ==
    requiring(VI_VFP_COMMON(u), u,
        [u EXCEPT !.rd = vs2Of(u, x, u.vsew, 0)
                         + (IF 8 > u.vsew THEN 2 ^ bits(8) - 2 ^ bits(u.vsew) ELSE 0),
                  !.vstart = 0])

vfmv_s_f(u, x) ==
    requiring(VI_VFP_COMMON(u), u,
        VI_LOOP_END(IF u.vstart < u.vl THEN put(u, x, u.vsew, 0, plain(wrap(u.vsew, x.scalar)))
                    ELSE u))

vfslide1up_vf(u, x) == requiring(VI_VFP_COMMON(u), u, vslide1up_vx(u, x))
vfslide1down_vf(u, x) == requiring(VI_VFP_COMMON(u), u, vslide1down_vx(u, x))
=============================================================================
