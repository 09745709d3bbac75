---------------------------- MODULE VectorSystem ----------------------------
(***************************************************************************)
(* The vector unit executing an instruction: the program configures it,    *)
(* issues an instruction, and the trap handler maps the page a load or a   *)
(* store missed and executes the instruction again from vstart.            *)
(***************************************************************************)
EXTENDS VectorMem

CONSTANTS Registers,   \* initial bytes of the register file
          Memory,      \* initial bytes of memory
          Types,       \* the vtypes a program asks for
          Requests,    \* the lengths it asks for
          Starts,      \* values it writes to vstart
          Unmapped,    \* sets of pages that are missing at first
          Program(_)   \* the instructions issued in a state of the unit

VARIABLES u,     \* the vector unit
          x,     \* the instruction
          u0,    \* the unit when the instruction was first issued
          ideal, \* what x leaves if its sources are read before its first write
          phase  \* "idle", "trapped" or "done"

MemoryOps == {"vle", "vse", "vlxei", "vsxei", "vleff", "vl1re", "vs1r", "vamoadd"}

\* Decoding: the loop each instruction is written with
access(v, i) ==
    CASE i.op = "vle" -> VI_LD(v, i)
      [] i.op = "vse" -> VI_ST(v, i)
      [] i.op = "vlxei" -> VI_LD_INDEX(v, i)
      [] i.op = "vsxei" -> VI_ST_INDEX(v, i)
      [] i.op = "vleff" -> VI_LDST_FF(v, i)
      [] i.op = "vl1re" -> VI_LD_WHOLE(v, i)
      [] i.op = "vs1r" -> VI_ST_WHOLE(v, i)
      [] i.op = "vamoadd" -> VI_AMO(v, i)

execute(v, i) ==
    CASE i.op \in {"vadd", "vrsub", "vand", "vminu", "vmax", "vmacc", "vnmsub", "vsll", "vsra",
                   "vdiv", "vrem", "vmulhu", "vmulh", "vmulhsu", "vsadd", "vssub", "vsaddu",
                   "vssubu", "vsmul", "vssrl", "vssra"} -> VI_LOOP(v, i)
      [] i.op \in {"vaadd", "vaaddu", "vasub", "vasubu"} -> VI_VVX_LOOP_AVG(v, i)
      [] i.op \in {"vmseq", "vmsltu", "vmsle"} -> VI_LOOP_CMP(v, i)
      [] i.op \in {"vmand", "vmnor", "vmxor"} -> VI_LOOP_MASK(v, i)
      [] i.op \in {"vmerge", "vmv_v"} -> VI_VVXI_MERGE_LOOP(v, i)
      [] i.op \in {"vmadc", "vmsbc"} -> VI_LOOP_CARRY(v, i)
      [] i.op \in {"vadc", "vsbc"} -> VI_LOOP_WITH_CARRY(v, i)
      [] i.op \in {"vredsum", "vredmax"} -> VI_VV_LOOP_REDUCTION(v, i)
      [] i.op \in {"vwredsum", "vwredsumu"} -> VI_VV_LOOP_WIDE_REDUCTION(v, i)
      [] i.op \in {"vnclip", "vnclipu", "vnsra", "vnsrl"} -> VI_LOOP_NARROW(v, i)
      [] i.op \in {"vwadd", "vwsubu", "vwmul", "vwmulsu", "vwmacc", "vwmaccsu"} ->
             VI_WIDE_OP_AND_ASSIGN(v, i)
      [] i.op \in {"vwadd_w", "vwsub_w"} -> VI_WIDE_WVX_OP(v, i)
      [] i.op \in {"vzext", "vsext"} -> VI_VV_EXT(v, i)
      [] i.op = "vslideup" -> IF i.form = "vx" THEN vslideup_vx(v, i) ELSE vslideup_vi(v, i)
      [] i.op = "vslidedown" ->
             IF i.form = "vx" THEN vslidedown_vx(v, i) ELSE vslidedown_vi(v, i)
      [] i.op = "vslide1up" -> vslide1up_vx(v, i)
      [] i.op = "vslide1down" -> vslide1down_vx(v, i)
      [] i.op = "vrgather" -> (CASE i.form = "vv" -> vrgather_vv(v, i)
                                 [] i.form = "vx" -> vrgather_vx(v, i)
                                 [] i.form = "vi" -> vrgather_vi(v, i))
      [] i.op = "vrgatherei16" -> vrgatherei16_vv(v, i)
      [] i.op = "vcompress" -> vcompress_vm(v, i)
      [] i.op = "viota" -> viota_m(v, i)
      [] i.op = "vid" -> vid_v(v, i)
      [] i.op = "vmsbf" -> vmsbf_m(v, i)
      [] i.op = "vmsif" -> vmsif_m(v, i)
      [] i.op = "vmsof" -> vmsof_m(v, i)
      [] i.op = "vpopc" -> vpopc_m(v, i)
      [] i.op = "vfirst" -> vfirst_m(v, i)
      [] i.op = "vmv_x_s" -> vmv_x_s(v, i)
      [] i.op = "vmv_s_x" -> vmv_s_x(v, i)
      [] i.op = "vmvnfr" -> vmvnfr_v(v, i)
      [] i.op \in {"vfadd", "vfsub", "vfrsub", "vfmul", "vfmacc", "vfnmacc", "vfmsac", "vfnmsac",
                   "vfmadd", "vfnmadd", "vfmsub", "vfnmsub", "vfdot", "vfmin", "vfmax", "vfsgnj",
                   "vfsgnjn", "vfsgnjx", "vfcvt_x_f", "vfcvt_rtz_x_f"} -> VI_VFP_LOOP(v, i)
      [] i.op = "vfsqrt" -> VI_VFP_V_LOOP(v, i)
      [] i.op \in {"vmfeq", "vmfne", "vmfle", "vmflt", "vmfgt", "vmfge"} -> VI_VFP_LOOP_CMP(v, i)
      [] i.op \in {"vfredsum", "vfredmax", "vfredmin"} -> VI_VFP_VV_LOOP_REDUCTION(v, i)
      [] i.op \in {"vfwredsum", "vfwredosum"} -> VI_VFP_VV_LOOP_WIDE_REDUCTION(v, i)
      [] i.op \in {"vfwadd", "vfwsub", "vfwmacc"} -> VI_VFP_LOOP_WIDE(v, i)
      [] i.op \in {"vfwadd_w", "vfwsub_w"} -> VI_VFP_W_LOOP_WIDE(v, i)
      [] i.op \in {"vfwcvt_f_f", "vfwcvt_x_f", "vfncvt_f_f", "vfncvt_rod_f_f", "vfncvt_x_f",
                   "vfncvt_rtz_x_f"} ->
             VI_VFP_CVT_SCALE(v, i)
      [] i.op = "vfmerge" -> vfmerge_vfm(v, i)
      [] i.op = "vfmv_v_f" -> vfmv_v_f(v, i)
      [] i.op = "vfmv_f_s" -> vfmv_f_s(v, i)
      [] i.op = "vfmv_s_f" -> vfmv_s_f(v, i)
      [] i.op = "vfslide1up" -> vfslide1up_vf(v, i)
      [] i.op = "vfslide1down" -> vfslide1down_vf(v, i)
      [] i.op \in MemoryOps -> access(v, i)

Blank == [file |-> Registers, vtype |-> ILL, vsew |-> 1, vflmul |-> One, vlmax |-> 0, vl |-> 0,
          vstart |-> 0, vill |-> TRUE, vxrm |-> "RNE", vxsat |-> FALSE, frm |-> "near_even",
          fflags |-> {}, rd |-> 0, mem |-> Memory, unmapped |-> {}, trap |-> "none", badaddr |-> 0]

\* The state after reset, once the program has filled the registers
VectorInit == /\ u = [set_vl([Blank EXCEPT !.vtype = [vlmul |-> 0, vsew |-> 0, high |-> FALSE]],
                             0, 0, 0, AllOnes) EXCEPT !.file = Registers]
              /\ x = [op |-> "none"] /\ u0 = u /\ ideal = u /\ phase = "idle"

\* vsetvl, then possibly a write of the vstart CSR
Vsetvl == /\ phase = "idle" /\ u.vill
          /\ \E t \in Types, n \in Requests, s \in Starts :
                 u' = [set_vl(u, 1, 1, n, t) EXCEPT !.vstart = s]
          /\ u0' = u' /\ UNCHANGED <<x, ideal, phase>>

after(v) == IF v.trap = "fault" THEN "trapped" ELSE "done"

\* Programs keep their accesses aligned: on a misaligned address the MMU's answer
\* depends on what its TLB holds (see Mmu).
keepsAligned(v, i) == i.op \in MemoryOps =>
                          access([v EXCEPT !.unmapped = {}], i).trap # "misaligned"

\* Memory instructions are not asked for with their sources read beforehand.
Readings(i) == IF i.op \in MemoryOps THEN {FALSE} ELSE BOOLEAN

Issue == /\ phase = "idle" /\ ~u.vill
         /\ \E i \in Program(u), pages \in Unmapped :
                /\ pages # {} => i.op \in MemoryOps
                /\ keepsAligned(u, i)
                /\ x' = i
                /\ u0' = [u EXCEPT !.unmapped = pages]
                /\ \E r \in {[z \in Readings(i) |-> execute(u0', [i EXCEPT !.frozen = z])]} :
                       /\ u' = r[FALSE]
                       /\ ideal' = IF TRUE \in DOMAIN r THEN r[TRUE] ELSE ideal
         /\ phase' = after(u')

\* The handler maps the page and returns to the instruction.
Resume == /\ phase = "trapped"
          /\ u' = access([u EXCEPT !.trap = "none", !.unmapped = @ \ {pageOf(u.badaddr)}], x)
          /\ phase' = after(u')
          /\ UNCHANGED <<x, u0, ideal>>

VectorNext == Vsetvl \/ Issue \/ Resume

-----------------------------------------------------------------------------

\* What an instruction leaves for the program to see
visible(v) == [v EXCEPT !.unmapped = {}, !.badaddr = 0]

\* The loops of decode.h write each element before they read the next one.
\* Whatever registers an instruction names, the operand checks refuse it or
\* the result is that of reading every source, and the mask, beforehand.
InPlaceExact ==
    phase = "done" /\ x.op \notin MemoryOps =>
        visible(u) = visible(ideal)

\* A vector load or store that misses pages and is executed again after each
\* fault leaves the registers, memory, vl and vstart it would have left with
\* every page mapped.  Atomic operations do not advance vstart and segment
\* loads of groups of several registers may overwrite their index: both are
\* outside the property.
RestartExact ==
    phase = "done" /\ x.op \in MemoryOps \ {"vamoadd", "vleff"}
    /\ (x.op = "vlxei" /\ x.nf > 1 => u0.vflmul <= One) =>
        visible(u) = visible(access([u0 EXCEPT !.unmapped = {}], x))

\* The elements a fault-only-first load is to load and cannot, because a field
\* of theirs is in a page that is missing now.
misses ==
    { i \in u0.vstart .. u0.vl - 1 :
          /\ ~VI_LOOP_ELEMENT_SKIP(u0, x, i)
          /\ \E fn \in 0 .. x.nf - 1 : faults(u, x.base + (i * x.nf + fn) * x.eew, x.eew) }

\* What is left when the same load is asked for n elements, every page mapped
loadedUpTo(n) == access([u0 EXCEPT !.unmapped = {}, !.vl = n], x)

\* A fault-only-first load traps on element 0 alone, and otherwise cuts vl to the
\* first element that misses, or leaves it when none does.  It has loaded every
\* active element before that one and touched nothing else, save the first
\* fields of the element that missed.
FaultOnlyFirst ==
    x.op = "vleff" /\ phase # "idle" /\ u.trap # "illegal" =>
        /\ phase = "trapped" <=> 0 \in misses
        /\ phase = "trapped" => u.vl = u0.vl /\ u.badaddr < x.base + x.nf * x.eew
        /\ phase = "done" =>
               /\ u.vl \in misses \cup {u0.vl} /\ \A i \in misses : u.vl <= i
               /\ visible([u EXCEPT !.file = <<>>]) = visible([loadedUpTo(u.vl) EXCEPT !.file = <<>>])
               /\ \A r \in DOMAIN u.file :
                      \/ u.file[r] = loadedUpTo(u.vl).file[r]
                      \/ u.vl \in misses /\ u.file[r] = loadedUpTo(u.vl + 1).file[r]

-----------------------------------------------------------------------------
(* Reference: rounding and saturation on the integers                      *)

Floor(v, d) == v \div 2 ^ d

\* v / 2^d rounded to an integer
rounded(v, mode, d) ==
    LET f == Floor(v, d)
        rest == v - f * 2 ^ d
    IN  CASE rest = 0 \/ mode = "RDN" -> f
          [] mode = "RNU" -> IF 2 * rest >= 2 ^ d THEN f + 1 ELSE f
          [] mode = "RNE" -> IF 2 * rest > 2 ^ d \/ (2 * rest = 2 ^ d /\ f % 2 = 1) THEN f + 1 ELSE f
          [] mode = "ROD" -> IF f % 2 = 1 THEN f ELSE f + 1

clamped(w, v, lo, hi) ==
    CASE v < lo -> [v |-> wrap(w, lo), sat |-> TRUE]
      [] v > hi -> [v |-> wrap(w, hi), sat |-> TRUE]
      [] OTHER -> [v |-> wrap(w, v), sat |-> FALSE]

signedClamp(w, v) == clamped(w, v, int_min(w), int_max(w))
unsignedClamp(w, v) == clamped(w, v, 0, 2 ^ bits(w) - 1)

is(w, r, v) == r.v % 2 ^ bits(w) = v.v /\ r.sat = v.sat

\* Saturating, averaging (vaadd, vaaddu, vasub, vasubu), rounding and high-half
\* operations, computed with masks, wrapped sums and half-word products, are the
\* exact integer result rounded once in vxrm and clamped, and report saturation
\* exactly then.
FixedPointCorrect ==
    phase = "idle" /\ ~u.vill =>
        LET w == u.vsew
            n == bits(w) IN
        Let(IF w <= 2 THEN 0 .. 2 ^ n - 1
            ELSE {0, 1, 2 ^ (n \div 2) - 1, 2 ^ (n \div 2), 2 ^ (n \div 2) + 1, int_max(w) - 1,
                  int_max(w), int_max(w) + 1, int_max(w) + 2, 2 ^ n - 2, 2 ^ n - 1}, LAMBDA All :
            \A a \in All, b \in All :
                LET sa == sgn(w, a)
                    sb == sgn(w, b)
                    value(op) == element(u, op, w, a, b, 0)
                    exact(op, v) == wrap(w, value(op).v) = wrap(w, v)
                IN  /\ is(w, value("vsadd"), signedClamp(w, sa + sb))
                    /\ is(w, value("vssub"), signedClamp(w, sa - sb))
                    /\ is(w, value("vsaddu"), unsignedClamp(w, a + b))
                    /\ is(w, value("vssubu"), unsignedClamp(w, a - b))
                    /\ exact("vmulhu", Floor(a * b, n))
                    /\ exact("vmulh", Floor(sa * sb, n))
                    /\ mulhsu(n, sa, b) = wrap(w, Floor(sa * b, n))
                    /\ exact("vdiv", IF b = 0 THEN -1 ELSE quot(sa, sb))
                    /\ b # 0 => exact("vrem", sa - sb * quot(sa, sb))
                    /\ \A m \in {"RNU", "RNE", "RDN", "ROD"} :
                           LET v == [u EXCEPT !.vxrm = m]
                               sh == b % n
                               averages(op, sum) == average(v, op, w, a, b).v % 2 ^ n
                                                        = wrap(w, rounded(sum, m, 1))
                           IN  /\ averages("vaadd", sa + sb) /\ averages("vaaddu", a + b)
                               /\ averages("vasub", sa - sb) /\ averages("vasubu", a - b)
                               /\ is(w, element(v, "vsmul", w, a, b, 0),
                                     signedClamp(w, rounded(sa * sb, m, n - 1)))
                               /\ element(v, "vssrl", w, a, b, 0).v % 2 ^ n
                                      = wrap(w, rounded(a, m, sh))
                               /\ element(v, "vssra", w, a, b, 0).v % 2 ^ n
                                      = wrap(w, rounded(sa, m, sh))
                               /\ w <= 2 =>
                                    \A c \in 0 .. 2 * n - 1 :
                                      LET z == a * 2 ^ n + b
                                      IN  /\ is(w, vnclip_wv(v, w, sgn(2 * w, z), c),
                                                signedClamp(w, rounded(sgn(2 * w, z), m, c)))
                                          /\ is(w, vnclipu_wv(v, w, z, c),
                                                unsignedClamp(w, rounded(z, m, c))))
=============================================================================
