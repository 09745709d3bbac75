------------------------------ MODULE VectorMem ------------------------------
(***************************************************************************)
(* Loads, stores and atomic operations of the vector unit.  An access to   *)
(* an unmapped page traps: the elements before it stay done and vstart     *)
(* names the element to resume at, where the loop keeps it.  An            *)
(* instruction adds [base, stride, nf, eew, mode, wd] to its fields.       *)
(***************************************************************************)
EXTENDS VectorFp, Sequences

\* The group of an operand of width eew, in sixteenths
emulOf(u, eew) == (eew * u.vflmul) \div u.vsew

emulLegal(u, eew) == 2 * u.vsew <= eew * u.vflmul /\ eew * u.vflmul <= 128 * u.vsew

wholeRegs(size) == atLeastOne(regsOf(size))

VI_CHECK_STORE(u, x) ==
    LET vemul == emulOf(u, x.eew)
        emul == wholeRegs(vemul)
    IN  /\ require_vector(u) /\ emulLegal(u, x.eew)
        /\ is_aligned(x.rd, vemul)
        /\ x.nf * emul <= NVPR \div 4 /\ x.rd + x.nf * emul <= NVPR

VI_CHECK_LOAD(u, x) == VI_CHECK_STORE(u, x) /\ require_vm(x)

VI_CHECK_ST_INDEX(u, x) ==
    LET vemul == emulOf(u, x.eew)
        flmul == wholeRegs(u.vflmul)
    IN  /\ require_vector(u) /\ emulLegal(u, x.eew)
        /\ is_aligned(x.rd, u.vflmul) /\ is_aligned(x.rs2, vemul)
        /\ x.nf * flmul <= NVPR \div 4 /\ x.rd + x.nf * flmul <= NVPR

\* An index group may overlap the destination where the loop is past it.
indexOver(u, x) ==
    LET vemul == emulOf(u, x.eew)
    IN  /\ x.eew > u.vsew => x.rd = x.rs2 \/ noover(x.rd, u.vflmul, x.rs2, vemul)
        /\ x.eew < u.vsew => widenOk(x.rd, u.vflmul, x.rs2, vemul)

VI_CHECK_LD_INDEX(u, x) ==
    /\ VI_CHECK_ST_INDEX(u, x)
    /\ indexOver(u, x)
    /\ x.nf > 1 => /\ noover(x.rd, u.vflmul, x.rs2, emulOf(u, x.eew))
                   /\ noover(x.rd, x.nf * One, x.rs2, One)
    /\ require_vm(x)

-----------------------------------------------------------------------------
(* The MMU as the loops see it *)

\* A page holds one element of the widest kind.
pageOf(addr) == addr \div ELEN

\* What an access of w bytes meets: nothing, a misaligned or an unmapped address
outcome(u, addr, w) ==
    CASE addr % w # 0 -> "misaligned"
      [] addr >= Len(u.mem) \/ pageOf(addr) \in u.unmapped -> "fault"
      [] OTHER -> "none"

faults(u, addr, w) == outcome(u, addr, w) # "none"

loaded(u, addr, w) ==
    LET v[k \in 0 .. w] == IF k = 0 THEN 0 ELSE v[k - 1] + u.mem[addr + k] * 2 ^ bits(k - 1)
    IN  v[w]

stored(u, addr, w, val) ==
    LET m[k \in 0 .. w] == IF k = 0 THEN u.mem
                           ELSE [m[k - 1] EXCEPT ![addr + k] = wrap(1, val \div 2 ^ bits(k - 1))]
    IN  [u EXCEPT !.mem = m[w]]

fault(u, addr, w) == [u EXCEPT !.trap = outcome(u, addr, w), !.badaddr = addr]

load(u, x, r, w, i, addr) ==
    IF faults(u, addr, w) THEN fault(u, addr, w)
    ELSE [u EXCEPT !.file = setElt(@, w, r, i, loaded(u, addr, w))]

store(u, x, r, w, i, addr) ==
    IF faults(u, addr, w) THEN fault(u, addr, w)
    ELSE stored(u, addr, w, elt(u.file, w, r, i))

\* The fields of element i, one register group each
forFields(access(_, _, _), u, x) == forEach(access, u, 0, x.nf, FALSE)

VI_ELEMENT_SKIP(u, x, i) == i < u.vstart \/ VI_LOOP_ELEMENT_SKIP(u, x, i)

\* A plausible slip: vstart is left where the instruction began.
unrecorded(u, i) == u

\* vstart = i before the accesses of element i
recorded(u, i) == [u EXCEPT !.vstart = i]

\* The loop of a load or store that can be resumed: vstart follows i.
resumable(u, x, access(_, _, _, _)) ==
    VI_LOOP_END(forEach(LAMBDA src, dst, i :
        IF VI_ELEMENT_SKIP(dst, x, i) THEN dst
        ELSE forFields(LAMBDA s, d, fn : access(s, d, i, fn), recorded(dst, i), x),
        u, 0, u.vl, FALSE))

\* Unit stride or the stride of a register
addressOf(x, i, fn) ==
    x.base + (IF x.mode = "unit" THEN (i * x.nf + fn) * x.eew ELSE i * x.stride + fn * x.eew)

VI_LD(u, x) ==
    LET emul == wholeRegs(emulOf(u, x.eew))
    IN  requiring(VI_CHECK_LOAD(u, x), u,
            resumable(u, x, LAMBDA s, d, i, fn :
                load(d, x, x.rd + fn * emul, x.eew, i, addressOf(x, i, fn))))

VI_ST(u, x) ==
    LET emul == wholeRegs(emulOf(u, x.eew))
    IN  requiring(VI_CHECK_STORE(u, x), u,
            resumable(u, x, LAMBDA s, d, i, fn :
                store(d, x, x.rd + fn * emul, x.eew, i, addressOf(x, i, fn))))

\* The index vector, read before the loop
VI_DUPLICATE_VREG(u, x) ==
    [i \in 0 .. u.vlmax - 1 |-> IF u.vl # 0 THEN elt(u.file, x.eew, x.rs2, i) ELSE 0]

VI_LD_INDEX(u, x) ==
    LET flmul == wholeRegs(u.vflmul) IN
    Let(VI_DUPLICATE_VREG(u, x), LAMBDA index :
        requiring(VI_CHECK_LD_INDEX(u, x), u,
            resumable(u, x, LAMBDA s, d, i, fn :
                load(d, x, x.rd + fn * flmul, u.vsew, i, x.base + index[i] + fn * u.vsew))))

VI_ST_INDEX(u, x) ==
    LET flmul == wholeRegs(u.vflmul) IN
    Let(VI_DUPLICATE_VREG(u, x), LAMBDA index :
        requiring(VI_CHECK_ST_INDEX(u, x), u,
            resumable(u, x, LAMBDA s, d, i, fn :
                store(d, x, x.rd + fn * flmul, u.vsew, i, x.base + index[i] + fn * u.vsew))))

\* A plausible slip: the loop is left with vl as it was.
stopped(u, i) == [u EXCEPT !.trap = "early"]

\* A trap past the first element is swallowed: vl is cut at the element.
early_stop(u, i) == [u EXCEPT !.vl = i, !.trap = "early"]

\* Fault only first
VI_LDST_FF(u, x) ==
    LET emul == wholeRegs(emulOf(u, x.eew))
        field(d, i, fn) == load(d, x, x.rd + fn * emul, x.eew, i,
                                x.base + (i * x.nf + fn) * x.eew)
        done(d) == IF d.trap = "early" THEN [d EXCEPT !.trap = "none"] ELSE d
    IN  requiring(VI_CHECK_LOAD(u, x), u,
            VI_LOOP_END(done(forEach(LAMBDA src, dst, i :
                IF VI_LOOP_ELEMENT_SKIP(dst, x, i) THEN dst
                ELSE forFields(LAMBDA s, d, fn :
                         Let(field(d, i, fn), LAMBDA r :
                             IF r.trap # "none" /\ i # 0 THEN early_stop(d, i) ELSE r), dst, x),
                u, u.vstart, u.vl, FALSE))))

\* Whole registers: vstart counts the elements already moved.
whole(u, x, size, move(_, _)) ==
    VI_LOOP_END(forEach(LAMBDA src, dst, i :
        LET r == move(dst, i)
        IN  IF r.trap = "none" THEN [r EXCEPT !.vstart = i + 1] ELSE r,
        u, u.vstart, size, FALSE))

VI_LD_WHOLE(u, x) ==
    LET elt_per_reg == vlenb \div x.eew
    IN  requiring(is_aligned(x.rd, x.nf * One), u,
            whole(u, x, x.nf * elt_per_reg, LAMBDA d, i :
                load(d, x, x.rd + i \div elt_per_reg, x.eew, i % elt_per_reg,
                     x.base + i * x.eew)))

VI_ST_WHOLE(u, x) ==
    requiring(is_aligned(x.rd, x.nf * One), u,
        whole(u, x, x.nf * vlenb, LAMBDA d, i :
            store(d, x, x.rd + i \div vlenb, 1, i % vlenb, x.base + i)))

\* vamoadd: vstart is not advanced, so a fault restarts at the first element.
VI_AMO(u, x) ==
    Let(VI_DUPLICATE_VREG(u, x), LAMBDA index :
    LET w == u.vsew
    IN  requiring(/\ require_vector(u) /\ is_aligned(x.rd, u.vflmul) /\ w >= 4
                  /\ emulLegal(u, x.eew) /\ is_aligned(x.rs2, emulOf(u, x.eew))
                  /\ x.wd => require_vm(x) /\ indexOver(u, x), u,
            VI_LOOP_END(forEach(LAMBDA src, dst, i :
                LET addr == x.base + index[i] IN
                Let(loaded(dst, addr, w), LAMBDA lhs :
                Let(stored(dst, addr, w, lhs + elt(dst.file, w, x.rd, i)), LAMBDA new :
                    CASE VI_ELEMENT_SKIP(dst, x, i) -> dst
                      [] faults(dst, addr, w) -> fault(dst, addr, w)
                      [] OTHER -> IF x.wd THEN put(new, x, w, i, plain(lhs)) ELSE new)),
                u, u.vstart, u.vl, FALSE))))
=============================================================================
