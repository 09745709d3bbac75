------------------------------- MODULE Vector -------------------------------
(***************************************************************************)
(* The vector unit of the simulator: vtype and vl, the register file, the  *)
(* operand checks and the element loops of riscv/decode.h, and the integer *)
(* and fixed-point instructions built from them.                           *)
(*                                                                         *)
(* Widths are in bytes of ByteBits bits, so that the loops run on a file   *)
(* small enough to enumerate; vflmul is in sixteenths.  A unit u is        *)
(*   file: the bytes of the register file; vtype, vsew, vflmul, vlmax,     *)
(*   vl, vstart, vill, vxrm, vxsat; frm and fflags; rd: the scalar result; *)
(*   mem, unmapped: what loads and stores meet; trap: how the last         *)
(*   instruction ended.                                                    *)
(* An instruction x is [op, form, rd, rs1, rs2, vm, scalar, imm, ...].     *)
(* Every loop reads and writes the same file, element after element.  The  *)
(* field x.frozen is FALSE for the program; TRUE asks for the same         *)
(* instruction with its sources read before the first write, which is what *)
(* the properties compare with.                                            *)
(***************************************************************************)
EXTENDS FloatConv, FiniteSets

CONSTANTS ByteBits, \* bits in a byte, a power of two
          vlenb,    \* bytes in a vector register, a power of two
          NVPR,     \* number of vector registers
          ELEN      \* bytes in the widest element

One == 16 \* vflmul = 1

-----------------------------------------------------------------------------
(* vtype and vl *)

\* The vtype of an illegal configuration: its high bit alone
ILL == [vlmul |-> 0, vsew |-> 0, high |-> TRUE]

\* new_vlmul in sixteenths
flmulOf(vlmul) == IF vlmul >= 0 THEN One * 2 ^ vlmul ELSE One \div 2 ^ (-vlmul)

\* newType is [vlmul, vsew, high]: high when a bit above vma is set.
configured(u, newType) ==
    LET sew == 2 ^ newType.vsew
        flmul == flmulOf(newType.vlmul) IN
    Let(\/ flmul < One \div 8 \/ flmul > 8 * One
        \/ sew > ELEN
        \/ flmul * ELEN < One * sew
        \/ newType.high, LAMBDA vill :
        IF u.vtype = newType THEN u
        ELSE [u EXCEPT !.vtype = IF vill THEN ILL ELSE newType,
                       !.vsew = sew, !.vflmul = flmul, !.vill = vill,
                       !.vlmax = IF vill THEN 0 ELSE ((vlenb \div sew) * flmul) \div One])

set_vl(u, rd, rs1, reqVL, newType) ==
    Let(configured(u, newType), LAMBDA v :
    LET vl == CASE v.vlmax = 0 -> 0
                [] rd = 0 /\ rs1 = 0 -> IF v.vl > v.vlmax THEN v.vlmax ELSE v.vl
                [] rd # 0 /\ rs1 = 0 -> v.vlmax
                [] OTHER -> IF reqVL > v.vlmax THEN v.vlmax ELSE reqVL
    IN  [v EXCEPT !.vl = vl, !.vstart = 0])

\* The type no configuration accepts, written by reset
AllOnes == [vlmul |-> -1, vsew |-> 7, high |-> TRUE]

reset(u) ==
    set_vl([u EXCEPT !.file = [b \in 1 .. NVPR * vlenb |-> 0],
                     !.vtype = [vlmul |-> 0, vsew |-> 0, high |-> FALSE]],
           0, 0, 0, AllOnes)

-----------------------------------------------------------------------------
(* Elements *)

bits(w) == w * ByteBits
wrap(w, v) == v % 2 ^ bits(w)
sgn(w, v) == IF v >= 2 ^ (bits(w) - 1) THEN v - 2 ^ bits(w) ELSE v

\* The byte before element n, w bytes wide, of the group that starts at vReg
eltAt(w, vReg, n) ==
    LET elts_per_reg == vlenb \div w
    IN  (vReg + n \div elts_per_reg) * vlenb + (n % elts_per_reg) * w

elt(file, w, vReg, n) ==
    LET p == eltAt(w, vReg, n)
        v[k \in 0 .. w] == IF k = 0 THEN 0
                           ELSE v[k - 1] + file[p + k] * 2 ^ bits(k - 1)
    IN  v[w]

setElt(file, w, vReg, n, val) ==
    LET p == eltAt(w, vReg, n)
        f[k \in 0 .. w] == IF k = 0 THEN file
                           ELSE [f[k - 1] EXCEPT ![p + k] = wrap(1, val \div 2 ^ bits(k - 1))]
    IN  f[w]

\* Bit i of a mask register
bitOf(file, vReg, i) ==
    (file[vReg * vlenb + i \div ByteBits + 1] \div 2 ^ (i % ByteBits)) % 2 = 1

setBit(file, vReg, i, on) ==
    LET p == vReg * vlenb + i \div ByteBits + 1
        m == 2 ^ (i % ByteBits)
        cleared == file[p] - (IF bitOf(file, vReg, i) THEN m ELSE 0)
    IN  [file EXCEPT ![p] = cleared + (IF on THEN m ELSE 0)]

-----------------------------------------------------------------------------
(* Operand checks.  Sizes are vflmul or a multiple of it; a size below one *)
(* register counts as zero, and then as one.                               *)

regsOf(size) == size \div One
atLeastOne(size) == IF size = 0 THEN 1 ELSE size

disjoint(astart, asize, bstart, bsize) ==
    astart + asize <= bstart \/ bstart + bsize <= astart

is_overlapped(astart, asize, bstart, bsize) ==
    ~disjoint(astart, atLeastOne(asize), bstart, atLeastOne(bsize))

\* A plausible slip: a source at the start of the wide group is let through.
overlapBelow(astart, asize, bstart, bsize) ==
    is_overlapped(astart, asize, bstart, bsize) /\ astart > bstart

\* A wide group may overlap a narrow one at its highest registers only.
is_overlapped_widen(astart, asize, bstart, bsize) ==
    LET b == atLeastOne(bsize)
    IN  /\ is_overlapped(astart, asize, bstart, bsize)
        /\ ~(/\ astart < bstart
             /\ ~is_overlapped(astart, asize, bstart + b, b))

is_aligned(val, size) == regsOf(size) # 0 => val % regsOf(size) = 0

require_vector(u) == ~u.vill

require_vm(x) == ~x.vm => x.rd # 0

noover(a, asize, b, bsize) == ~is_overlapped(a, regsOf(asize), b, regsOf(bsize))

noover_widen(a, asize, b, bsize) == ~is_overlapped_widen(a, regsOf(asize), b, regsOf(bsize))

\* A wide destination and a narrow source
widenOk(a, asize, b, bsize) ==
    IF bsize < One THEN noover(a, asize, b, bsize) ELSE noover_widen(a, asize, b, bsize)

VI_NARROW_CHECK_COMMON(u, x) ==
    /\ require_vector(u) /\ u.vflmul <= 4 * One /\ u.vsew * 2 <= ELEN
    /\ is_aligned(x.rs2, u.vflmul * 2) /\ is_aligned(x.rd, u.vflmul)
    /\ require_vm(x)

VI_WIDE_CHECK_COMMON(u, x) ==
    /\ require_vector(u) /\ u.vflmul <= 4 * One /\ u.vsew * 2 <= ELEN
    /\ is_aligned(x.rd, u.vflmul * 2)
    /\ require_vm(x)

\* Mask destination
VI_CHECK_MSS(u, x) ==
    \A r \in {x.rs2} \union (IF x.form = "vv" THEN {x.rs1} ELSE {}) :
        /\ x.rd # r => noover(x.rd, One, r, u.vflmul)
        /\ is_aligned(r, u.vflmul)

\* Destination and sources of the same width
VI_CHECK_SSS(u, x) ==
    /\ require_vm(x)
    /\ u.vflmul > One =>
           \A r \in {x.rd, x.rs2} \union (IF x.form = "vv" THEN {x.rs1} ELSE {}) :
               is_aligned(r, u.vflmul)

\* Destination twice as wide as the sources
VI_CHECK_DSS(u, x) ==
    /\ VI_WIDE_CHECK_COMMON(u, x)
    /\ \A r \in {x.rs2} \union (IF x.form = "vv" THEN {x.rs1} ELSE {}) :
           /\ is_aligned(r, u.vflmul)
           /\ widenOk(x.rd, u.vflmul * 2, r, u.vflmul)

\* Destination and the second source twice as wide as the first
VI_CHECK_DDS(u, x) ==
    /\ VI_WIDE_CHECK_COMMON(u, x)
    /\ is_aligned(x.rs2, u.vflmul * 2)
    /\ x.form = "vv" => /\ is_aligned(x.rs1, u.vflmul)
                        /\ widenOk(x.rd, u.vflmul * 2, x.rs1, u.vflmul)

\* Second source twice as wide as the destination
VI_CHECK_SDS(u, x) ==
    /\ VI_NARROW_CHECK_COMMON(u, x)
    /\ x.rd # x.rs2 => noover(x.rd, u.vflmul, x.rs2, u.vflmul * 2)
    /\ x.form = "vv" => is_aligned(x.rs1, u.vflmul)

VI_CHECK_REDUCTION(u, x, is_wide) ==
    /\ require_vector(u)
    /\ is_wide => u.vsew * 2 <= ELEN
    /\ is_aligned(x.rs2, u.vflmul)
    /\ u.vstart = 0

VI_CHECK_SLIDE(u, x, is_over) ==
    /\ is_aligned(x.rs2, u.vflmul) /\ is_aligned(x.rd, u.vflmul)
    /\ require_vm(x)
    /\ is_over => x.rd # x.rs2

-----------------------------------------------------------------------------
(* Loops *)

\* An instruction whose requirements fail leaves the unit as it was.
requiring(ok, u, r) == IF ok THEN r ELSE [u EXCEPT !.trap = "illegal"]

\* for (i = from; i < to; ++i) step: a step reads src and changes dst, which
\* are the same unit in the program.  A trap leaves the loop.
forEach(step(_, _, _), u, from, to, frozen) ==
    LET at[i \in from .. to] ==
            IF i = from THEN u
            ELSE LET d == at[i - 1]
                 IN  IF d.trap # "none" THEN d
                     ELSE step(IF frozen THEN u ELSE d, d, i - 1)
    IN  IF from < to THEN at[to] ELSE u

VI_LOOP_END(u) == IF u.trap = "none" THEN [u EXCEPT !.vstart = 0] ELSE u

VI_GENERAL_LOOP_BASE(step(_, _, _), u, x) ==
    requiring(require_vector(u), u,
              VI_LOOP_END(forEach(step, u, u.vstart, u.vl, x.frozen)))

VI_LOOP_ELEMENT_SKIP(src, x, i) == ~x.vm /\ ~bitOf(src.file, 0, i)

VI_LOOP_BASE(step(_, _, _), u, x) ==
    VI_GENERAL_LOOP_BASE(LAMBDA src, dst, i :
        IF VI_LOOP_ELEMENT_SKIP(src, x, i) THEN dst ELSE step(src, dst, i), u, x)

\* vs1, rs1 or the immediate, as an unsigned pattern
PARAMS(src, x, w, i) ==
    CASE x.form = "vv" -> elt(src.file, w, x.rs1, i)
      [] x.form = "vx" -> wrap(w, x.scalar)
      [] x.form = "vi" -> wrap(w, x.imm)

vs2Of(src, x, w, i) == elt(src.file, w, x.rs2, i)

\* Result v, and whether it saturated
plain(v) == [v |-> v, sat |-> FALSE]

put(dst, x, w, i, r) ==
    [dst EXCEPT !.file = setElt(@, w, x.rd, i, r.v), !.vxsat = @ \/ r.sat]

-----------------------------------------------------------------------------
(* Fixed point *)

bitAt(v, k) == (v \div 2 ^ k) % 2 = 1

\* INT_ROUNDING, on an integer wide enough not to wrap: result is rounded so
\* that a shift by gb then gives the quotient in rounding mode xrm.
INT_ROUNDING(result, xrm, gb) ==
    LET lsb == 2 ^ gb
        half == lsb \div 2
    IN  CASE xrm = "RNU" -> result + half
          [] xrm = "RNE" -> IF gb > 0 /\ bitAt(result, gb - 1)
                               /\ (result % half # 0 \/ bitAt(result, gb))
                            THEN result + lsb ELSE result
          [] xrm = "RDN" -> result
          [] xrm = "ROD" -> IF result % lsb # 0 /\ ~bitAt(result, gb) THEN result + lsb
                            ELSE result

shifted(v, xrm, sh) == INT_ROUNDING(v, xrm, sh) \div 2 ^ sh

int_max(w) == 2 ^ (bits(w) - 1) - 1
int_min(w) == -(2 ^ (bits(w) - 1))

msb(w, v) == v >= 2 ^ (bits(w) - 1)

\* The result an overflow saturates to: the sign of x, the other bits its complement
saturated(w, x) == (IF msb(w, x) THEN 1 ELSE 0) + 2 ^ (bits(w) - 1) - 1

sat_add(w, x, y) ==
    LET res == wrap(w, x + y)
    IN  IF msb(w, x) = msb(w, y) /\ msb(w, y) # msb(w, res)
        THEN [v |-> saturated(w, x), sat |-> TRUE] ELSE plain(res)

sat_sub(w, x, y) ==
    LET res == wrap(w, x - y)
    IN  IF msb(w, x) # msb(w, y) /\ msb(w, x) # msb(w, res)
        THEN [v |-> saturated(w, x), sat |-> TRUE] ELSE plain(res)

sat_addu(w, x, y) ==
    LET res == wrap(w, x + y)
    IN  IF res < x THEN [v |-> 2 ^ bits(w) - 1, sat |-> TRUE] ELSE plain(res)

sat_subu(w, x, y) ==
    LET res == wrap(w, x - y)
    IN  IF res <= x THEN plain(res) ELSE [v |-> 0, sat |-> TRUE]

\* The high half of a product, from products of half words
mulhu(n, a, b) ==
    LET h == 2 ^ (n \div 2)
        a0 == a % h
        a1 == a \div h
        b0 == b % h
        b1 == b \div h
        t == a1 * b0 + (a0 * b0) \div h IN
    Let(a0 * b1 + (t % h), LAMBDA t2 :
        (a1 * b1 + t \div h + t2 \div h) % 2 ^ n)

magnitude(a) == IF a < 0 THEN -a ELSE a

\* ~res + (a * b == 0), the product taken modulo the width
negated(n, a, b, res) ==
    (2 ^ n - 1 - res + (IF (a * b) % 2 ^ n = 0 THEN 1 ELSE 0)) % 2 ^ n

mulh(n, a, b) ==
    Let(mulhu(n, magnitude(a), magnitude(b)), LAMBDA res :
        IF (a < 0) # (b < 0) THEN negated(n, a, b, res) ELSE res)

mulhsu(n, a, b) ==
    Let(mulhu(n, magnitude(a), b), LAMBDA res : IF a < 0 THEN negated(n, a, b, res) ELSE res)

vsmul_vv(u, w, a, b) ==
    IF a = b /\ a = int_min(w) THEN [v |-> int_max(w), sat |-> TRUE]
    ELSE plain(shifted(a * b, u.vxrm, bits(w) - 1))

vnclip_wv(u, w, a, shift) ==
    Let(shifted(a, u.vxrm, shift), LAMBDA result :
        CASE result < int_min(w) -> [v |-> int_min(w), sat |-> TRUE]
          [] result > int_max(w) -> [v |-> int_max(w), sat |-> TRUE]
          [] OTHER -> plain(result))

vnclipu_wv(u, w, a, shift) ==
    Let(shifted(a, u.vxrm, shift), LAMBDA result :
        IF result >= 2 ^ bits(w) THEN [v |-> 2 ^ bits(w) - 1, sat |-> TRUE] ELSE plain(result))

\* The quotient and the remainder of C, which round towards zero
quot(a, b) == LET q == magnitude(a) \div magnitude(b) IN IF (a < 0) # (b < 0) THEN -q ELSE q

vdiv_vv(w, a, b) ==
    CASE b = 0 -> -1
      [] a = int_min(w) /\ b = -1 -> a
      [] OTHER -> quot(a, b)

vrem_vv(w, a, b) ==
    CASE b = 0 -> a
      [] a = int_min(w) /\ b = -1 -> 0
      [] OTHER -> a - b * quot(a, b)

vmulhsu_vv(w, a, b) == (a * b) \div 2 ^ bits(w)
=============================================================================
