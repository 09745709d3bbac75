----------------------------- MODULE VectorInt -----------------------------
(***************************************************************************)
(* Integer, mask and permutation instructions of the vector unit.  An      *)
(* element operation takes unsigned patterns: a from vs2, b from vs1, rs1  *)
(* or the immediate, d the old destination; operators named after a loop   *)
(* of decode.h stand for the versions of it that differ only in the type   *)
(* of the elements (e8 to e64, signed or not) or in where b comes from.    *)
(***************************************************************************)
EXTENDS Vector

\* Bitwise operators on elements of w bytes
bitwise(op(_, _), w, a, b) ==
    LET v[k \in 0 .. bits(w)] ==
            IF k = 0 THEN 0
            ELSE v[k - 1] + (IF op(bitAt(a, k - 1), bitAt(b, k - 1)) THEN 2 ^ (k - 1) ELSE 0)
    IN  v[bits(w)]

flag(p) == IF p THEN 1 ELSE 0

\* Instructions by what they do to one element, when a line is enough
vrsub_vx(a, b) == b - a
vand_vv(w, a, b) == bitwise(LAMBDA p, q : p /\ q, w, a, b)
vminu_vv(a, b) == IF b <= a THEN b ELSE a
vmax_vv(sa, sb) == IF sb >= sa THEN sb ELSE sa
vmacc_vv(a, b, d) == b * a + d
vnmsub_vv(a, b, d) == -(d * b) + a
vsll_vv(a, sh) == a * 2 ^ sh
vsra_vv(sa, sh) == sa \div 2 ^ sh
vsadd_vv(w, a, b) == sat_add(w, a, b)
vssub_vv(w, a, b) == sat_sub(w, a, b)
vsaddu_vv(w, a, b) == sat_addu(w, a, b)
vssubu_vv(w, a, b) == sat_subu(w, a, b)
vssrl_vv(a, vxrm, sh) == shifted(a, vxrm, sh)
vssra_vv(sa, vxrm, sh) == shifted(sa, vxrm, sh)
vmadc_vvm(w, a, b, c) == bitAt(b + a + c, bits(w))
vmsbc_vvm(w, a, b, c) == bitAt(a - b - c, bits(w))
vadc_vvm(a, b, c) == b + a + c
vsbc_vvm(a, b, c) == a - b - c
vmerge_vvm(use_first, a, b) == IF use_first THEN b ELSE a
vredmax_vs(w, p, q) == IF sgn(w, p) >= sgn(w, q) THEN p ELSE q
vwredsum_vs(w, p, q) == p + sgn(w, q)
vwredsumu_vs(p, q) == p + q
vnsra_wv(w, a, shift) == sgn(2 * w, a) \div 2 ^ shift
vnsrl_wv(a, shift) == a \div 2 ^ shift
vwmulsu_vv(w, a, b) == sgn(w, a) * b
vwmacc_vv(w, a, b, vd_w) == sgn(w, a) * sgn(w, b) + vd_w
vwmaccsu_vv(w, a, b, vd_w) == a * sgn(w, b) + vd_w
vmseq_vv(a, b) == a = b
vmsltu_vv(a, b) == a < b
vmsle_vv(w, a, b) == sgn(w, a) <= sgn(w, b)

\* One element of an instruction whose operands have one width
element(u, op, w, a, b, d) ==
    LET sa == sgn(w, a)
        sb == sgn(w, b)
        sh == b % bits(w)
    IN  CASE op = "vadd" -> plain(a + b)
          [] op = "vrsub" -> plain(vrsub_vx(a, b))
          [] op = "vand" -> plain(vand_vv(w, a, b))
          [] op = "vminu" -> plain(vminu_vv(a, b))
          [] op = "vmax" -> plain(vmax_vv(sa, sb))
          [] op = "vmacc" -> plain(vmacc_vv(a, b, d))
          [] op = "vnmsub" -> plain(vnmsub_vv(a, b, d))
          [] op = "vsll" -> plain(vsll_vv(a, sh))
          [] op = "vsra" -> plain(vsra_vv(sa, sh))
          [] op = "vdiv" -> plain(vdiv_vv(w, sa, sb))
          [] op = "vrem" -> plain(vrem_vv(w, sa, sb))
          [] op = "vmulhu" -> plain(mulhu(bits(w), a, b))
          [] op = "vmulh" -> plain(mulh(bits(w), sa, sb))
          [] op = "vmulhsu" -> plain(vmulhsu_vv(w, sa, b))
          [] op = "vsadd" -> vsadd_vv(w, a, b)
          [] op = "vssub" -> vssub_vv(w, a, b)
          [] op = "vsaddu" -> vsaddu_vv(w, a, b)
          [] op = "vssubu" -> vssubu_vv(w, a, b)
          [] op = "vsmul" -> vsmul_vv(u, w, sa, sb)
          [] op = "vssrl" -> plain(vssrl_vv(a, u.vxrm, sh))
          [] op = "vssra" -> plain(vssra_vv(sa, u.vxrm, sh))

VI_LOOP(u, x) ==
    requiring(VI_CHECK_SSS(u, x), u,
        VI_LOOP_BASE(LAMBDA src, dst, i :
            LET w == u.vsew
            IN  put(dst, x, w, i, element(u, x.op, w, vs2Of(src, x, w, i), PARAMS(src, x, w, i),
                                          elt(src.file, w, x.rd, i))), u, x))

\* A plausible slip: the sum is taken at the width of the elements.
averageWrapped(u, op, w, a, b) ==
    LET signed == op \in {"vaadd", "vasub"}
        res == wrap(w, IF op \in {"vaadd", "vaaddu"} THEN a + b ELSE a - b)
    IN  plain(shifted(IF signed THEN sgn(w, res) ELSE res, u.vxrm, 1))

\* Averages: the sum or difference, of a type wide enough for it, loses one bit
\* in the rounding mode.
average(u, op, w, a, b) ==
    LET val(v) == IF op \in {"vaadd", "vasub"} THEN sgn(w, v) ELSE v
        res == IF op \in {"vaadd", "vaaddu"} THEN val(a) + val(b) ELSE val(a) - val(b)
    IN  plain(shifted(res, u.vxrm, 1))

VI_VVX_LOOP_AVG(u, x) ==
    requiring(VI_CHECK_SSS(u, x), u,
        VI_LOOP_BASE(LAMBDA src, dst, i :
            LET w == u.vsew
            IN  put(dst, x, w, i, average(u, x.op, w, vs2Of(src, x, w, i), PARAMS(src, x, w, i))), u, x))

\* Comparisons write one bit of the destination for each element.
VI_LOOP_CMP(u, x) ==
    requiring(VI_CHECK_MSS(u, x), u,
        VI_LOOP_BASE(LAMBDA src, dst, i :
            LET w == u.vsew IN
            Let(vs2Of(src, x, w, i), LAMBDA a :
            Let(PARAMS(src, x, w, i), LAMBDA b :
            Let(CASE x.op = "vmseq" -> vmseq_vv(a, b)
                  [] x.op = "vmsltu" -> vmsltu_vv(a, b)
                  [] x.op = "vmsle" -> vmsle_vv(w, a, b), LAMBDA res :
                [dst EXCEPT !.file = setBit(@, x.rd, i, res)]))), u, x))

VI_LOOP_MASK(u, x) ==
    VI_GENERAL_LOOP_BASE(LAMBDA src, dst, i :
        LET a == bitOf(src.file, x.rs2, i)
            b == bitOf(src.file, x.rs1, i) IN
        Let(CASE x.op = "vmand" -> a /\ b
              [] x.op = "vmnor" -> ~(a \/ b)
              [] x.op = "vmxor" -> a # b, LAMBDA res :
            [dst EXCEPT !.file = setBit(@, x.rd, i, res)]), u, x)

\* vmerge chooses by v0 and skips nothing; vmv.v.v has vm set.
VI_VVXI_MERGE_LOOP(u, x) ==
    requiring(VI_CHECK_SSS(u, x), u,
        VI_GENERAL_LOOP_BASE(LAMBDA src, dst, i :
            LET w == u.vsew IN
            Let(PARAMS(src, x, w, i), LAMBDA b :
            LET use_first == x.op = "vmv_v" \/ bitOf(src.file, 0, i)
            IN  put(dst, x, w, i, plain(vmerge_vvm(use_first, vs2Of(src, x, w, i), b)))), u, x))

\* Carry out to a mask, carry in from v0 when the instruction is masked
VI_LOOP_CARRY(u, x) ==
    requiring(VI_CHECK_MSS(u, x), u,
        VI_GENERAL_LOOP_BASE(LAMBDA src, dst, i :
            LET w == u.vsew IN
            Let(vs2Of(src, x, w, i), LAMBDA a :
            Let(PARAMS(src, x, w, i), LAMBDA b :
            LET carryIn == flag(~x.vm /\ bitOf(src.file, 0, i)) IN
            Let(IF x.op = "vmadc" THEN vmadc_vvm(w, a, b, carryIn)
                ELSE vmsbc_vvm(w, a, b, carryIn), LAMBDA res :
                [dst EXCEPT !.file = setBit(@, x.rd, i, res)]))), u, x))

VI_LOOP_WITH_CARRY(u, x) ==
    requiring(x.rd # 0 /\ VI_CHECK_SSS(u, x), u,
        VI_GENERAL_LOOP_BASE(LAMBDA src, dst, i :
            LET w == u.vsew IN
            Let(vs2Of(src, x, w, i), LAMBDA a :
            Let(PARAMS(src, x, w, i), LAMBDA b :
            LET carryIn == flag(bitOf(src.file, 0, i))
            IN  put(dst, x, w, i, plain(IF x.op = "vadc" THEN vadc_vvm(a, b, carryIn)
                                            ELSE vsbc_vvm(a, b, carryIn))))), u, x))

-----------------------------------------------------------------------------
(* Reductions: an accumulator that starts at vs1[0], written to vd[0].     *)

\* fold(acc, a) over the active elements, widths w of vs2 and wd of the result
REDUCTION_LOOP(fold(_, _), u, x, w, wd) ==
    LET acc[i \in 0 .. u.vl] ==
            IF i = 0 THEN elt(u.file, wd, x.rs1, 0)
            ELSE IF VI_LOOP_ELEMENT_SKIP(u, x, i - 1) THEN acc[i - 1]
                 ELSE wrap(wd, fold(acc[i - 1], vs2Of(u, x, w, i - 1)))
    IN  VI_LOOP_END(IF u.vl > 0 THEN put(u, x, wd, 0, plain(acc[u.vl])) ELSE u)

VI_VV_LOOP_REDUCTION(u, x) ==
    LET w == u.vsew
    IN  requiring(VI_CHECK_REDUCTION(u, x, FALSE), u,
            IF x.op = "vredsum" THEN REDUCTION_LOOP(LAMBDA p, q : p + q, u, x, w, w)
            ELSE REDUCTION_LOOP(LAMBDA p, q : vredmax_vs(w, p, q), u, x, w, w))

VI_VV_LOOP_WIDE_REDUCTION(u, x) ==
    LET w == u.vsew
    IN  requiring(VI_CHECK_REDUCTION(u, x, TRUE), u,
            IF x.op = "vwredsumu" THEN REDUCTION_LOOP(vwredsumu_vs, u, x, w, 2 * w)
            ELSE REDUCTION_LOOP(LAMBDA p, q : vwredsum_vs(w, p, q), u, x, w, 2 * w))

-----------------------------------------------------------------------------
(* Widths that differ *)

\* vd = vs2 >> vs1: vs2 has twice the width; clipped, or cut.
VI_LOOP_NARROW(u, x) ==
    requiring(VI_CHECK_SDS(u, x), u,
        VI_LOOP_BASE(LAMBDA src, dst, i :
            LET w == u.vsew IN
            Let(vs2Of(src, x, 2 * w, i), LAMBDA a :
            Let(PARAMS(src, x, w, i) % bits(2 * w), LAMBDA shift :
            Let(CASE x.op = "vnclip" -> vnclip_wv(u, w, sgn(2 * w, a), shift)
                  [] x.op = "vnclipu" -> vnclipu_wv(u, w, a, shift)
                  [] x.op = "vnsra" -> plain(vnsra_wv(w, a, shift))
                  [] x.op = "vnsrl" -> plain(vnsrl_wv(a, shift)), LAMBDA r :
                put(dst, x, w, i, r)))), u, x))

\* Both sources narrow; the old destination is wide.
VI_WIDE_OP_AND_ASSIGN(u, x) ==
    requiring(VI_CHECK_DSS(u, x), u,
        VI_LOOP_BASE(LAMBDA src, dst, i :
            LET w == u.vsew IN
            Let(vs2Of(src, x, w, i), LAMBDA a :
            Let(PARAMS(src, x, w, i), LAMBDA b :
            Let(elt(src.file, 2 * w, x.rd, i), LAMBDA vd_w :
            Let(CASE x.op = "vwadd" -> sgn(w, a) + sgn(w, b)
                  [] x.op = "vwsubu" -> a - b
                  [] x.op = "vwmul" -> sgn(w, a) * sgn(w, b)
                  [] x.op = "vwmulsu" -> vwmulsu_vv(w, a, b)
                  [] x.op = "vwmacc" -> vwmacc_vv(w, a, b, vd_w)
                  [] x.op = "vwmaccsu" -> vwmaccsu_vv(w, a, b, vd_w), LAMBDA r :
                put(dst, x, 2 * w, i, plain(r)))))), u, x))

VI_WIDE_WVX_OP(u, x) ==
    requiring(VI_CHECK_DDS(u, x), u,
        VI_LOOP_BASE(LAMBDA src, dst, i :
            LET w == u.vsew IN
            Let(vs2Of(src, x, 2 * w, i), LAMBDA a :
            Let(sgn(w, PARAMS(src, x, w, i)), LAMBDA b :
                put(dst, x, 2 * w, i, plain(IF x.op = "vwadd_w" THEN a + b ELSE a - b)))), u, x))

\* vzext, vsext: the source is a half, a quarter or an eighth as wide.
VI_VV_EXT(u, x) ==
    LET from == u.vsew \div x.div
        size == u.vflmul \div x.div
    IN  requiring(/\ require_vector(u) /\ x.rd # x.rs2 /\ require_vm(x) /\ from >= 1
                  /\ is_aligned(x.rd, u.vflmul) /\ is_aligned(x.rs2, size)
                  /\ widenOk(x.rd, u.vflmul, x.rs2, size), u,
            VI_LOOP_BASE(LAMBDA src, dst, i :
                Let(elt(src.file, from, x.rs2, i), LAMBDA a :
                    put(dst, x, u.vsew, i, plain(IF x.op = "vsext" THEN sgn(from, a) ELSE a))),
                u, x))

-----------------------------------------------------------------------------
(* Permutations *)

vslideup(u, x, offset) ==
    requiring(VI_CHECK_SLIDE(u, x, TRUE), u,
        VI_LOOP_BASE(LAMBDA src, dst, i :
            IF u.vstart < offset /\ i < offset THEN dst
            ELSE put(dst, x, u.vsew, i, plain(vs2Of(src, x, u.vsew, i - offset))), u, x))

vslidedown(u, x, sh) ==
    requiring(VI_CHECK_SLIDE(u, x, FALSE), u,
        VI_LOOP_BASE(LAMBDA src, dst, i :
            put(dst, x, u.vsew, i,
                plain(IF i + sh < u.vlmax THEN vs2Of(src, x, u.vsew, i + sh) ELSE 0)), u, x))

vslideup_vx(u, x) == vslideup(u, x, x.scalar)
vslideup_vi(u, x) == vslideup(u, x, x.imm)
vslidedown_vx(u, x) == vslidedown(u, x, x.scalar)
vslidedown_vi(u, x) == vslidedown(u, x, x.imm)

vslide1up_vx(u, x) ==
    requiring(VI_CHECK_SLIDE(u, x, TRUE), u,
        VI_LOOP_BASE(LAMBDA src, dst, i :
            put(dst, x, u.vsew, i, plain(IF i # 0 THEN vs2Of(src, x, u.vsew, i - 1)
                                         ELSE wrap(u.vsew, x.scalar))), u, x))

vslide1down_vx(u, x) ==
    requiring(VI_CHECK_SLIDE(u, x, FALSE), u,
        VI_LOOP_BASE(LAMBDA src, dst, i :
            put(dst, x, u.vsew, i, plain(IF i # u.vl - 1 THEN vs2Of(src, x, u.vsew, i + 1)
                                         ELSE wrap(u.vsew, x.scalar))), u, x))

\* vd[i] = vs2[index], zero past vlmax
gathered(src, x, w, vlmax, index) == IF index >= vlmax THEN 0 ELSE vs2Of(src, x, w, index)

gather(u, x, indexOf(_, _)) ==
    VI_LOOP_BASE(LAMBDA src, dst, i :
        put(dst, x, u.vsew, i, plain(gathered(src, x, u.vsew, u.vlmax, indexOf(src, i)))), u, x)

gatherAligned(u, x) ==
    /\ is_aligned(x.rd, u.vflmul) /\ is_aligned(x.rs2, u.vflmul)
    /\ x.rd # x.rs2 /\ require_vm(x)

vrgather_vv(u, x) ==
    requiring(gatherAligned(u, x) /\ is_aligned(x.rs1, u.vflmul) /\ x.rd # x.rs1, u,
              gather(u, x, LAMBDA src, i : elt(src.file, u.vsew, x.rs1, i)))

vrgather_vx(u, x) ==
    requiring(gatherAligned(u, x), u, gather(u, x, LAMBDA src, i : x.scalar))

\* The loop of vrgather.vi is nested in another one over the same elements.
vrgather_vi(u, x) ==
    requiring(gatherAligned(u, x), u,
        VI_LOOP_BASE(LAMBDA outer, v, j :
            forEach(LAMBDA src, dst, i :
                IF VI_LOOP_ELEMENT_SKIP(src, x, i) THEN dst
                ELSE put(dst, x, u.vsew, i, plain(gathered(src, x, u.vsew, u.vlmax, x.imm))),
                v, v.vstart, v.vl, FALSE), u, x))

vrgatherei16_vv(u, x) ==
    LET vemul == (2 * u.vflmul) \div u.vsew
    IN  requiring(/\ vemul >= One \div 8 /\ vemul <= 8 * One
                  /\ gatherAligned(u, x) /\ is_aligned(x.rs1, vemul)
                  /\ noover(x.rd, u.vflmul, x.rs1, vemul), u,
                  gather(u, x, LAMBDA src, i : elt(src.file, 2, x.rs1, i)))

vcompress_vm(u, x) ==
    LET count(file, i) == Cardinality({ j \in 0 .. i - 1 : bitOf(file, x.rs1, j) })
    IN  requiring(/\ u.vstart = 0
                  /\ is_aligned(x.rd, u.vflmul) /\ is_aligned(x.rs2, u.vflmul)
                  /\ x.rd # x.rs2 /\ noover(x.rd, u.vflmul, x.rs1, One), u,
            VI_GENERAL_LOOP_BASE(LAMBDA src, dst, i :
                IF ~bitOf(src.file, x.rs1, i) THEN dst
                ELSE put(dst, x, u.vsew, count(src.file, i), plain(vs2Of(src, x, u.vsew, i))),
                u, x))

viota_m(u, x) ==
    LET ones(file, i) == Cardinality({ j \in 0 .. i - 1 : /\ x.vm \/ bitOf(file, 0, j)
                                                          /\ bitOf(file, x.rs2, j) })
    IN  requiring(/\ require_vector(u) /\ u.vstart = 0 /\ require_vm(x)
                  /\ is_aligned(x.rd, u.vflmul) /\ noover(x.rd, u.vflmul, x.rs2, One), u,
            VI_LOOP_BASE(LAMBDA src, dst, i :
                put(dst, x, u.vsew, i, plain(ones(src.file, i))), u, x))

vid_v(u, x) ==
    requiring(is_aligned(x.rd, u.vflmul) /\ require_vm(x), u,
              VI_LOOP_BASE(LAMBDA src, dst, i : put(dst, x, u.vsew, i, plain(i)), u, x))

-----------------------------------------------------------------------------
(* Masks *)

\* Bit i of the result from whether an active bit before i, and bit i, is set
maskScan(u, x, res(_, _)) ==
    LET active(file, j) == x.vm \/ bitOf(file, 0, j)
        has_one(file, i) == \E j \in 0 .. i - 1 : active(file, j) /\ bitOf(file, x.rs2, j)
    IN  requiring(/\ require_vector(u) /\ u.vstart = 0 /\ require_vm(x) /\ x.rd # x.rs2, u,
            VI_LOOP_BASE(LAMBDA src, dst, i :
                [dst EXCEPT !.file = setBit(@, x.rd, i, res(has_one(src.file, i),
                                                            bitOf(src.file, x.rs2, i)))], u, x))

vmsbf_m(u, x) == maskScan(u, x, LAMBDA has_one, lsb : ~has_one /\ ~lsb)
vmsif_m(u, x) == maskScan(u, x, LAMBDA has_one, lsb : ~has_one)
vmsof_m(u, x) == maskScan(u, x, LAMBDA has_one, lsb : ~has_one /\ lsb)

\* Active elements whose bit is set
setBits(u, x) == { i \in 0 .. u.vl - 1 : /\ ~VI_LOOP_ELEMENT_SKIP(u, x, i)
                                         /\ bitOf(u.file, x.rs2, i) }

vpopc_m(u, x) ==
    requiring(require_vector(u) /\ u.vstart = 0, u, [u EXCEPT !.rd = Cardinality(setBits(u, x))])

vfirst_m(u, x) ==
    requiring(require_vector(u) /\ u.vstart = 0, u,
        [u EXCEPT !.rd = IF setBits(u, x) = {} THEN -1
                         ELSE CHOOSE i \in setBits(u, x) : \A j \in setBits(u, x) : i <= j])

-----------------------------------------------------------------------------
(* Moves *)

vmv_x_s(u, x) ==
    requiring(require_vector(u) /\ x.vm, u,
        [u EXCEPT !.rd = IF x.scalar < vlenb \div u.vsew
                         THEN sgn(u.vsew, vs2Of(u, x, u.vsew, x.scalar)) ELSE 0,
                  !.vstart = 0])

vmv_s_x(u, x) ==
    requiring(require_vector(u) /\ x.vm, u,
        VI_LOOP_END(IF u.vstart < u.vl THEN put(u, x, u.vsew, 0, plain(wrap(u.vsew, x.scalar)))
                    ELSE u))

\* Whole registers, byte by byte from vstart; the illegal vtype does not matter.
vmvnfr_v(u, x) ==
    LET len == x.rs1 + 1
        from == IF x.rd = x.rs2 THEN len * vlenb ELSE u.vstart
    IN  requiring(is_aligned(x.rd, len * One) /\ is_aligned(x.rs2, len * One), u,
            VI_LOOP_END(forEach(LAMBDA src, dst, i :
                [dst EXCEPT !.file = setElt(@, 1, x.rd, i, elt(src.file, 1, x.rs2, i))],
                u, from, len * vlenb, x.frozen)))
=============================================================================
