-------------------------------- MODULE Hart --------------------------------
(***************************************************************************)
(* A hart of Spike: the control and status registers, traps, interrupts    *)
(* and the instructions that use them (riscv/processor.cc, insns/).        *)
(*                                                                         *)
(* A register is modelled by its fields: mstatus and mcontrol are records, *)
(* mip, mie, the delegation registers and misa are sets, satp is           *)
(* [mode, ppn].  Fields that follow from others (SD, UXL, SXL) are left    *)
(* out.  Vector and floating-point registers are in modules of their own.  *)
(***************************************************************************)
EXTENDS Mmu

CONSTANTS max_isa,          \* extensions of --isa and --priv
          DEFAULT_RSTVEC, DEBUG_ROM_ENTRY, DEBUG_ROM_TVEC

Interrupts == {"MEI", "MSI", "MTI", "SEI", "SSI", "STI"}

irq == [SSI |-> 1, MSI |-> 3, STI |-> 5, MTI |-> 7, SEI |-> 9, MEI |-> 11]

Code == [fetch_misaligned |-> 0, fetch_access |-> 1, illegal_instruction |-> 2, breakpoint |-> 3,
         load_misaligned |-> 4, load_access |-> 5, store_misaligned |-> 6, store_access |-> 7,
         user_ecall |-> 8, supervisor_ecall |-> 9, machine_ecall |-> 11, fetch_page_fault |-> 12,
         load_page_fault |-> 13, store_page_fault |-> 15]

isInterrupt(cause) == cause \in Interrupts

causeOf(cause) == IF isInterrupt(cause) THEN [int |-> TRUE, code |-> irq[cause]]
                  ELSE [int |-> FALSE, code |-> Code[cause]]

supports_extension(h, x) == x \in h.misa

clearBit(v, n) == IF (v \div 2 ^ n) % 2 = 1 THEN v - 2 ^ n ELSE v

\* ~pc_alignment_mask() is 2 without compressed instructions, else 0.
pcMisaligned(h, pc) == ~supports_extension(h, "C") /\ (pc \div 2) % 2 = 1
pcAligned(h, pc) == IF supports_extension(h, "C") THEN pc ELSE clearBit(pc, 1)

-----------------------------------------------------------------------------
(* Reset *)

NoTriggers == [i \in 0 .. num_triggers - 1 |->
                 [dmode |-> FALSE, select |-> FALSE, timing |-> 0, action |-> "exception",
                  chain |-> FALSE, match |-> "equal", modes |-> {}, ops |-> {}]]

NoPmp == [L |-> FALSE, A |-> "off", perm |-> {}]

NoStatus == [MIE |-> FALSE, MPIE |-> FALSE, MPP |-> PRV_U, SIE |-> FALSE, SPIE |-> FALSE,
             SPP |-> PRV_U, MPRV |-> FALSE, SUM |-> FALSE, MXR |-> FALSE, TVM |-> FALSE,
             TW |-> FALSE, TSR |-> FALSE, FS |-> 0]

NoCause == [int |-> FALSE, code |-> 0]

state_t ==
    [pc |-> DEFAULT_RSTVEC, prv |-> PRV_M, misa |-> max_isa, mstatus |-> NoStatus,
     mepc |-> 0, mtval |-> 0, mscratch |-> 0, mtvec |-> 0, mcause |-> NoCause, minstret |-> 0,
     mie |-> {}, mip |-> {}, medeleg |-> {}, mideleg |-> {}, mcounteren |-> FALSE,
     scounteren |-> FALSE, sepc |-> 0, stval |-> 0, sscratch |-> 0, stvec |-> 0,
     satp |-> [mode |-> "off", ppn |-> 0], scause |-> NoCause,
     dpc |-> 0, dscratch0 |-> 0, dscratch1 |-> 0,
     dcsr |-> [prv |-> 0, step |-> FALSE, ebreak |-> {}, halt |-> FALSE, cause |-> "none"],
     tselect |-> 0, mcontrol |-> NoTriggers, tdata2 |-> [i \in 0 .. num_triggers - 1 |-> 0],
     debug_mode |-> FALSE, pmpcfg |-> [i \in 0 .. max_pmp - 1 |-> NoPmp],
     pmpaddr |-> [i \in 0 .. max_pmp - 1 |-> 0], fflags |-> 0, frm |-> 0,
     serialized |-> FALSE, single_step |-> "none", x |-> 0]

\* set_csr(CSR_PMPADDR0, ~0) and set_csr(CSR_PMPCFG0, ...): user code may use
\* all of memory.
permitAll(h) ==
    [h EXCEPT !.pmpaddr[0] = 2 ^ (MAX_PADDR_BITS - PMP_SHIFT) - 1,
              !.pmpcfg[0] = [L |-> FALSE, A |-> "napot", perm |-> {"R", "W", "X"}]]

\* The TLB is flushed by the writes to the PMP registers, and only by them.
\* The reservation, the triggers' flags and matched_trigger stay.
reset(mm, halt_on_reset) ==
    LET h == [state_t EXCEPT !.dcsr.halt = halt_on_reset]
    IN  IF n_pmp > 0 THEN [h |-> permitAll(h), mm |-> flush_tlb(mm)] ELSE [h |-> h, mm |-> mm]

\* The constructor resets with all the entries of the PMP; sim_t sets n_pmp
\* to what the device tree says afterwards.
processor_t(halt_on_reset) ==
    [h |-> permitAll([state_t EXCEPT !.dcsr.halt = halt_on_reset]), mm |-> mmu_t]

-----------------------------------------------------------------------------
(* Privilege *)

legalize_privilege(h, prv) ==
    IF ~supports_extension(h, "U") THEN PRV_M
    ELSE IF prv = 2 \/ (prv = PRV_S /\ ~supports_extension(h, "S")) THEN PRV_U ELSE prv

set_privilege_unflushed(s, prv) ==
    [h |-> [s.h EXCEPT !.prv = legalize_privilege(s.h, prv)], mm |-> s.mm]

set_privilege(s, prv) ==
    [h |-> [s.h EXCEPT !.prv = legalize_privilege(s.h, prv)], mm |-> flush_tlb(s.mm)]

enter_debug_mode(s, cause) ==
    LET h == [s.h EXCEPT !.debug_mode = TRUE,
                         !.dcsr = [@ EXCEPT !.cause = cause, !.prv = s.h.prv]]
        m == set_privilege([h |-> h, mm |-> s.mm], PRV_M)
    IN  [h |-> [m.h EXCEPT !.dpc = s.h.pc, !.pc = DEBUG_ROM_ENTRY], mm |-> m.mm]

-----------------------------------------------------------------------------
(* Writing control and status registers: s is [h, mm] *)

setPmpaddrUnguarded(s, i, val) ==
    IF s.h.pmpcfg[i].L THEN s
    ELSE [h |-> [s.h EXCEPT !.pmpaddr[i] = val % 2 ^ (MAX_PADDR_BITS - PMP_SHIFT)],
          mm |-> flush_tlb(s.mm)]

\* A locked entry keeps its address, and so does the entry below a locked TOR.
setPmpaddr(s, i, val) ==
    LET next == i + 1 < max_pmp /\ s.h.pmpcfg[i + 1].L /\ s.h.pmpcfg[i + 1].A = "tor"
        free == i < n_pmp /\ ~s.h.pmpcfg[i].L /\ ~next
        new == IF free THEN [s.h EXCEPT !.pmpaddr[i] = val % 2 ^ (MAX_PADDR_BITS - PMP_SHIFT)]
               ELSE s.h
    IN  IF n_pmp = 0 THEN s ELSE [h |-> new, mm |-> flush_tlb(s.mm)]

\* R = 0, W = 1 does not exist; nor does NA4 with a coarser granularity.
setPmpcfg(s, val) ==
    LET legal(c) == [c EXCEPT !.perm = IF "R" \in @ THEN @ ELSE @ \ {"W"},
                              !.A = IF lg_pmp_granularity # PMP_SHIFT /\ @ = "na4"
                                    THEN "napot" ELSE @]
        new(i) == IF i < n_pmp /\ ~s.h.pmpcfg[i].L /\ i \in DOMAIN val THEN legal(val[i])
                  ELSE s.h.pmpcfg[i]
    IN  IF n_pmp = 0 THEN s
        ELSE [h |-> [s.h EXCEPT !.pmpcfg = [i \in DOMAIN @ |-> new(i)]], mm |-> flush_tlb(s.mm)]

dirty_fp_state(h) == [h EXCEPT !.mstatus.FS = 3]

setFcsr(s, csr, val) ==
    LET d == dirty_fp_state(s.h)
    IN  [s EXCEPT !.h = CASE csr = "fflags" -> [d EXCEPT !.fflags = val % 32]
                          [] csr = "frm" -> [d EXCEPT !.frm = val % 8]
                          [] csr = "fcsr" -> [d EXCEPT !.fflags = val % 32,
                                                       !.frm = (val \div 32) % 8]]

SFields == {"SUM", "SIE", "SPIE", "SPP"}

\* FS is only ever off or dirty.
setMstatus(s, val) ==
    LET h == s.h
        old == h.mstatus
        has_fs == \E x \in {"S", "F", "V"} : supports_extension(h, x)
        new == [f \in DOMAIN old |->
                  IF f = "MPP" THEN legalize_privilege(h, val.MPP)
                  ELSE IF f = "FS" THEN (IF val.FS # 0 THEN 3 ELSE IF has_fs THEN 0 ELSE old.FS)
                  ELSE IF f \in SFields /\ ~supports_extension(h, "S") THEN old[f]
                  ELSE val[f]]
        flush == \E f \in {"MPP", "MPRV", "SUM", "MXR"} : val[f] # old[f]
    IN  [h |-> [h EXCEPT !.mstatus = new], mm |-> IF flush THEN flush_tlb(s.mm) ELSE s.mm]

setSstatus(s, val) ==
    LET own == {"SIE", "SPIE", "SPP", "FS", "SUM", "MXR"}
    IN  setMstatus(s, [f \in DOMAIN val |-> IF f \in own THEN val[f] ELSE s.h.mstatus[f]])

supervisor_ints(h) == IF supports_extension(h, "S") THEN {"SSI", "STI", "SEI"} ELSE {}

under(old, val, mask) == (old \ mask) \cup (val \cap mask)

setInterrupts(s, csr, val) ==
    LET h == s.h
        sup == supervisor_ints(h)
    IN  [s EXCEPT !.h =
            CASE csr = "mip" -> [h EXCEPT !.mip = under(@, val, sup)]
              [] csr = "mie" -> [h EXCEPT !.mie = under(@, val, sup \cup {"MSI", "MTI", "MEI"})]
              [] csr = "mideleg" -> [h EXCEPT !.mideleg = under(@, val, sup)]
              [] csr = "sip" -> [h EXCEPT !.mip = under(@, val, h.mideleg \cap {"SSI"})]
              [] csr = "sie" -> [h EXCEPT !.mie = under(@, val, h.mideleg)]]

Delegable == {"fetch_misaligned", "illegal_instruction", "breakpoint", "load_misaligned",
              "store_misaligned", "user_ecall", "fetch_page_fault", "load_page_fault",
              "store_page_fault"}

setMedeleg(s, val) == [s EXCEPT !.h.medeleg = under(@, val, Delegable)]

\* Decremented, since step adds the instruction that writes it.
setMinstret(s, val) == [s EXCEPT !.h.minstret = (val + 2 ^ XLEN - 1) % 2 ^ XLEN]

setCounteren(s, csr, val) == [s EXCEPT !.h[csr] = val]

\* A mode that does not exist writes zero.
setSatp(s, val) ==
    LET ppns == 2 ^ (MAX_PADDR_BITS - PGSHIFT)
        new == IF val.mode \in DOMAIN Levels THEN [val EXCEPT !.ppn = @ % ppns]
               ELSE [mode |-> "off", ppn |-> 0]
    IN  [h |-> [s.h EXCEPT !.satp = new], mm |-> flush_tlb(s.mm)]

\* Rocket's virtual addresses have one bit more than Sv39 gives them.
epcBit == PGSHIFT + Levels.sv39 * IdxBits

signExtended(v) ==
    (v % 2 ^ (epcBit + 1)) + (IF (v \div 2 ^ epcBit) % 2 = 1 THEN 2 ^ XLEN - 2 ^ (epcBit + 1) ELSE 0)

setEpc(s, csr, val) == [s EXCEPT !.h[csr] = signExtended(clearBit(val, 0))]

setTvec(s, csr, val) == [s EXCEPT !.h[csr] = clearBit(val, 1)]

setCause(s, csr, val) ==
    [s EXCEPT !.h[csr] = [val EXCEPT !.code = @ % (IF csr = "mcause" THEN 16 ELSE 32)]]

\* scratch registers and mtval, stval
setPlain(s, csr, val) == [s EXCEPT !.h[csr] = val]

\* Ignored if it would misalign the pc.
setMisa(s, val) ==
    LET mask == {"M", "A", "F", "D", "C"} \cap max_isa
        v == IF "F" \in val THEN val ELSE val \ {"D"}
    IN  IF "C" \notin val /\ (s.h.pc \div 2) % 2 = 1 THEN s
        ELSE [s EXCEPT !.h.misa = under(@, v, mask)]

\* tselect, tdata1 and tdata2; a trigger of the debugger is out of reach of others.
setTselect(s, val) == IF val < num_triggers THEN [s EXCEPT !.h.tselect = val] ELSE s

debuggersOwn(h) == h.mcontrol[h.tselect].dmode /\ ~h.debug_mode

setTdata1(s, val) ==
    LET mc == IF "fetch" \in val.ops THEN [val EXCEPT !.timing = 0] ELSE val
        h == [s.h EXCEPT !.mcontrol[s.h.tselect] = mc]
    IN  IF debuggersOwn(s.h) THEN s ELSE [h |-> h, mm |-> trigger_updated(h, s.mm)]

setTdata2(s, val) ==
    IF debuggersOwn(s.h) THEN s ELSE [s EXCEPT !.h.tdata2[s.h.tselect] = val]

setDebug(s, csr, val) ==
    CASE csr = "dcsr" -> [s EXCEPT !.h.dcsr = [val EXCEPT !.cause = s.h.dcsr.cause]]
      [] csr = "dpc" -> [s EXCEPT !.h.dpc = clearBit(val, 0)]
      [] OTHER -> [s EXCEPT !.h[csr] = val]

set_csr(s, csr, i, val) ==
    CASE csr = "pmpaddr" -> setPmpaddr(s, i, val)
      [] csr = "pmpcfg" -> setPmpcfg(s, val)
      [] csr \in {"fflags", "frm", "fcsr"} -> setFcsr(s, csr, val)
      [] csr = "mstatus" -> setMstatus(s, val)
      [] csr = "sstatus" -> setSstatus(s, val)
      [] csr \in {"mip", "mie", "mideleg", "sip", "sie"} -> setInterrupts(s, csr, val)
      [] csr = "medeleg" -> setMedeleg(s, val)
      [] csr = "minstret" -> setMinstret(s, val)
      [] csr \in {"mcounteren", "scounteren"} -> setCounteren(s, csr, val)
      [] csr = "satp" -> setSatp(s, val)
      [] csr \in {"mepc", "sepc"} -> setEpc(s, csr, val)
      [] csr \in {"mtvec", "stvec"} -> setTvec(s, csr, val)
      [] csr \in {"mcause", "scause"} -> setCause(s, csr, val)
      [] csr \in {"mscratch", "sscratch", "mtval", "stval"} -> setPlain(s, csr, val)
      [] csr = "misa" -> setMisa(s, val)
      [] csr = "tselect" -> setTselect(s, val)
      [] csr = "tdata1" -> setTdata1(s, val)
      [] csr = "tdata2" -> setTdata2(s, val)
      [] csr \in {"dcsr", "dpc", "dscratch0", "dscratch1"} -> setDebug(s, csr, val)
      [] OTHER -> s

-----------------------------------------------------------------------------
(* Reading them *)

\* mcounteren and scounteren let lower modes see the counter.
counterEnabled(h) == /\ h.prv < PRV_M => h.mcounteren
                     /\ h.prv < PRV_S => h.scounteren

\* The registers get_csr returns a value for.
readable(h, csr) ==
    CASE csr \in {"fflags", "frm", "fcsr"} -> h.mstatus.FS # 0 /\ supports_extension(h, "F")
      [] csr = "instret" -> counterEnabled(h)
      [] csr = "mcounteren" -> supports_extension(h, "U")
      [] csr = "satp" -> h.mstatus.TVM => h.prv >= PRV_M
      [] csr \in {"medeleg", "mideleg"} -> supports_extension(h, "S")
      [] csr \in {"dcsr", "dpc", "dscratch0", "dscratch1"} -> h.debug_mode
      [] csr = "pmpaddr" -> n_pmp # 0
      [] csr \in {"pmpcfg1", "mtval2", "mtinst", "minstreth", "instreth", "vl", "vtype"} -> FALSE
      [] OTHER -> TRUE

\* pmpaddr reads as the granularity makes it.
pmpaddrValue(h, i) ==
    LET a == h.pmpaddr[i]
        half_grain == IF grainBits = 0 THEN 0 ELSE grainBits - 1
    IN  IF h.pmpcfg[i].A = "napot"
        THEN IF grainBits = 0 THEN a ELSE (a \div 2 ^ half_grain + 1) * 2 ^ half_grain - 1
        ELSE (a \div 2 ^ grainBits) * 2 ^ grainBits

get_csr(h, csr, i) ==
    CASE csr \in {"minstret", "instret"} -> h.minstret
      [] csr = "pmpaddr" -> pmpaddrValue(h, i)
      [] csr \in {"mepc", "sepc", "dpc"} -> pcAligned(h, h[csr])
      [] csr \in {"mscratch", "sscratch", "mtval", "stval", "mtvec", "stvec", "dscratch0",
                  "dscratch1", "fflags", "frm", "tselect"} -> h[csr]
      [] csr = "fcsr" -> h.fflags + 32 * h.frm
      [] csr = "tdata2" -> h.tdata2[h.tselect]
      [] OTHER -> 0

-----------------------------------------------------------------------------
(* Traps *)

\* M-level interrupts come before delegated ones; then MEI, MSI, MTI, SEI, SSI, STI.
take_interrupt(h, pending) ==
    LET m == IF h.prv < PRV_M \/ h.mstatus.MIE THEN pending \ h.mideleg ELSE {}
        hs == IF h.prv < PRV_S \/ (h.prv = PRV_S /\ h.mstatus.SIE)
              THEN pending \cap h.mideleg ELSE {}
        enabled == IF m # {} THEN m ELSE hs
        order == <<"MEI", "MSI", "MTI", "SEI", "SSI", "STI">>
        first == order[Min({ i \in 1 .. 6 : order[i] \in enabled })]
    IN  IF h.debug_mode \/ enabled = {} THEN NoTrap ELSE throw(first, 0)

take_pending_interrupt(h) == take_interrupt(h, h.mip \cap h.mie)

\* Rocket reports an address that is not canonical as one that is not, in a
\* register one bit wider than an address.
rocketTval(tval) ==
    LET top == (tval \div 2 ^ (epcBit - 1)) % 2
        upper == tval \div 2 ^ epcBit
        ones == 2 ^ (XLEN - epcBit) - 1
        extra == IF top = 1 THEN upper = ones ELSE upper # 0
        low == tval % 2 ^ epcBit
    IN  IF extra THEN low + 2 ^ XLEN - 2 ^ epcBit ELSE low

vectored(h, tvec, cause) ==
    (clearBit(tvec, 0) + (IF tvec % 2 = 1 /\ isInterrupt(cause) THEN 4 * irq[cause] ELSE 0)) % 2 ^ XLEN

trapToS(s, t, epc) ==
    LET h == s.h
        entered == [h EXCEPT !.pc = vectored(h, h.stvec, t.cause), !.scause = causeOf(t.cause),
                             !.sepc = epc, !.stval = t.tval]
        status == [h.mstatus EXCEPT !.SPIE = h.mstatus.SIE, !.SPP = h.prv, !.SIE = FALSE]
    IN  set_privilege(setMstatus([s EXCEPT !.h = entered], status), PRV_S)

trapToMForgetful(s, t, epc) ==
    LET h == s.h IN
    Let([h EXCEPT !.pc = vectored(h, h.mtvec, t.cause), !.mcause = causeOf(t.cause),
                  !.mepc = epc, !.mtval = rocketTval(t.tval)], LAMBDA entered :
        set_privilege(setMstatus([s EXCEPT !.h = entered], [h.mstatus EXCEPT !.MIE = FALSE]), PRV_M))

trapToM(s, t, epc) ==
    LET h == s.h IN
    Let([h EXCEPT !.pc = vectored(h, h.mtvec, t.cause), !.mcause = causeOf(t.cause),
                  !.mepc = epc, !.mtval = rocketTval(t.tval)], LAMBDA entered :
    LET status == [h.mstatus EXCEPT !.MPIE = h.mstatus.MIE, !.MPP = h.prv, !.MIE = FALSE]
    IN  set_privilege(setMstatus([s EXCEPT !.h = entered], status), PRV_M))

take_trap(s, t, epc) ==
    LET h == s.h
        deleg == IF isInterrupt(t.cause) THEN h.mideleg ELSE h.medeleg
    IN  IF h.debug_mode
        THEN [s EXCEPT !.h.pc = IF t.cause = "breakpoint" THEN DEBUG_ROM_ENTRY ELSE DEBUG_ROM_TVEC]
        ELSE IF t.cause = "breakpoint" /\ h.prv \in h.dcsr.ebreak
        THEN enter_debug_mode(s, "swbp")
        ELSE IF h.prv <= PRV_S /\ t.cause \in deleg THEN trapToS(s, t, epc)
        ELSE trapToM(s, t, epc)

-----------------------------------------------------------------------------
(* Instructions.  Each returns [h, mm, mem, bus, trap, thrown, npc, kind]: *)
(* kind is "plain" (npc is the next pc), "before" and "after" (the pipe is *)
(* serialized around it, h.pc is set) or "wfi".                            *)

done(s, mem, npc) ==
    [h |-> s.h, mm |-> s.mm, mem |-> mem, bus |-> NoBus, trap |-> NoTrap, thrown |-> NoMatch,
     npc |-> npc, kind |-> "plain"]

raise(s, mem, cause, tval) == [done(s, mem, 0) EXCEPT !.trap = throw(cause, tval)]

illegal(s, mem) == raise(s, mem, "illegal_instruction", 0)

\* set_pc_and_serialize
serializeAt(s, mem, pc) ==
    [done([s EXCEPT !.h.pc = pcAligned(s.h, pc)], mem, 0) EXCEPT !.kind = "after"]

csrPriv(csr) ==
    CASE csr \in {"fflags", "frm", "fcsr", "instret", "instreth", "vl", "vtype"} -> PRV_U
      [] csr \in {"sstatus", "sip", "sie", "satp", "sepc", "stvec", "scause", "stval", "sscratch",
                  "scounteren"} -> PRV_S
      [] OTHER -> PRV_M

csrReadOnly(csr) == csr \in {"instret", "instreth", "vl", "vtype"}

csrUnserialized(s, mem, insn, npc) ==
    Let(IF insn.op = "csrrw" THEN set_csr(s, insn.csr, insn.i, insn.val) ELSE s, LAMBDA w :
        IF ~readable(s.h, insn.csr) THEN illegal(s, mem)
        ELSE serializeAt([w EXCEPT !.h.x = get_csr(s.h, insn.csr, insn.i)], mem, npc))

csrStaysSerialized(s, mem, insn, npc) ==
    Let(IF insn.op = "csrrw" THEN set_csr(s, insn.csr, insn.i, insn.val) ELSE s, LAMBDA w :
        IF ~s.h.serialized THEN [done(s, mem, 0) EXCEPT !.kind = "before"]
        ELSE IF ~readable(s.h, insn.csr) THEN illegal(s, mem)
        ELSE serializeAt([w EXCEPT !.h.x = get_csr(s.h, insn.csr, insn.i)], mem, npc))

\* validate_csr, then the read, the write and serialize().
csr_insn(s, mem, insn, npc) ==
    LET writes == insn.op = "csrrw"
        h == [s.h EXCEPT !.serialized = FALSE]
        old == get_csr(h, insn.csr, insn.i)
        z == [s EXCEPT !.h = h] IN
    Let(IF writes THEN set_csr(z, insn.csr, insn.i, insn.val) ELSE z, LAMBDA w :
    LET priv == csrPriv(insn.csr)
    IN  IF ~s.h.serialized THEN [done(s, mem, 0) EXCEPT !.kind = "before"]
        ELSE IF \/ priv = PRV_S /\ ~supports_extension(h, "S")
                \/ writes /\ csrReadOnly(insn.csr)
                \/ h.prv < priv
                \/ ~readable(h, insn.csr)
        THEN illegal(z, mem)
        ELSE serializeAt([w EXCEPT !.h.x = old], mem, npc))

mret(s, mem) ==
    LET h == s.h
        status == [h.mstatus EXCEPT !.MIE = h.mstatus.MPIE, !.MPIE = TRUE, !.MPP = PRV_U] IN
    Let(set_privilege(setMstatus(s, status), h.mstatus.MPP), LAMBDA to :
        IF h.prv < PRV_M THEN illegal(s, mem) ELSE serializeAt(to, mem, h.mepc))

sret(s, mem) ==
    LET h == s.h
        status == [h.mstatus EXCEPT !.SIE = h.mstatus.SPIE, !.SPIE = TRUE, !.SPP = PRV_U] IN
    Let(set_privilege(setMstatus(s, status), h.mstatus.SPP), LAMBDA to :
        IF ~supports_extension(h, "S") \/ h.prv < (IF h.mstatus.TSR THEN PRV_M ELSE PRV_S)
        THEN illegal(s, mem) ELSE serializeAt(to, mem, h.sepc))

dret(s, mem) ==
    LET to == set_privilege(s, s.h.dcsr.prv)
        step == IF s.h.dcsr.step THEN "stepping" ELSE s.h.single_step
        out == [h |-> [to.h EXCEPT !.debug_mode = FALSE, !.single_step = step], mm |-> to.mm]
    IN  IF ~s.h.debug_mode THEN illegal(s, mem) ELSE serializeAt(out, mem, s.h.dpc)

wfi(s, mem, npc) ==
    IF s.h.prv < (IF s.h.mstatus.TW THEN PRV_M ELSE PRV_S) THEN illegal(s, mem)
    ELSE [serializeAt(s, mem, npc) EXCEPT !.kind = "wfi"]

ecall(s, mem) ==
    raise(s, mem, CASE s.h.prv = PRV_U -> "user_ecall" [] s.h.prv = PRV_S -> "supervisor_ecall"
                    [] OTHER -> "machine_ecall", 0)

ebreak(s, mem) == raise(s, mem, "breakpoint", 0)

sfence_vma(s, mem, npc) ==
    IF ~supports_extension(s.h, "S") \/ s.h.prv < (IF s.h.mstatus.TVM THEN PRV_M ELSE PRV_S)
    THEN illegal(s, mem)
    ELSE done([s EXCEPT !.mm = flush_tlb(s.mm)], mem, npc)

fence_i(s, mem, npc) == done([s EXCEPT !.mm = flush_icache(s.mm)], mem, npc)

\* jalr.h: set_pc looks at the alignment.
jump(s, mem, target) ==
    IF pcMisaligned(s.h, target) THEN raise(s, mem, "fetch_misaligned", target)
    ELSE done(s, mem, target)

\* An instruction of the floating-point unit: require_fp, WRITE_FRD.
float(s, mem, npc) ==
    IF s.h.mstatus.FS = 0 \/ ~supports_extension(s.h, "F") THEN illegal(s, mem)
    ELSE done([s EXCEPT !.h = dirty_fp_state(s.h)], mem, npc)

\* Loads, stores and atomics; rd is written if nothing is thrown.
memory_insn(s, mem, insn, npc) ==
    LET h == s.h IN
    Let(CASE insn.op = "load" -> load(h, s.mm, mem, insn.addr, insn.len)
          [] insn.op = "store" -> store(h, s.mm, mem, insn.addr, insn.len, insn.val)
          [] insn.op = "amo" -> amo(h, s.mm, mem, insn.addr, insn.len, insn.val)
          [] insn.op = "lr" -> lr(h, s.mm, mem, insn.addr, insn.len)
          [] insn.op = "sc" -> sc(h, s.mm, mem, insn.addr, insn.len, insn.val), LAMBDA r :
    LET rd == IF failed(r) \/ insn.op = "store" THEN h ELSE [h EXCEPT !.x = r.data]
    IN  IF insn.op \in {"amo", "lr", "sc"} /\ ~supports_extension(h, "A") THEN illegal(s, mem)
        ELSE [h |-> rd, mm |-> r.mm, mem |-> r.mem, bus |-> r.bus, trap |-> r.trap,
              thrown |-> r.thrown, npc |-> npc, kind |-> "plain"])

execute_insn(s, mem, insn, pc) ==
    LET npc == (pc + insn.length) % 2 ^ XLEN
    IN  CASE insn.op \in {"csrrw", "csrr"} -> csr_insn(s, mem, insn, npc)
          [] insn.op \in {"load", "store", "amo", "lr", "sc"} -> memory_insn(s, mem, insn, npc)
          [] insn.op = "mret" -> mret(s, mem)
          [] insn.op = "sret" -> sret(s, mem)
          [] insn.op = "dret" -> dret(s, mem)
          [] insn.op = "wfi" -> wfi(s, mem, npc)
          [] insn.op = "ecall" -> ecall(s, mem)
          [] insn.op = "ebreak" -> ebreak(s, mem)
          [] insn.op = "sfence_vma" -> sfence_vma(s, mem, npc)
          [] insn.op = "fence_i" -> fence_i(s, mem, npc)
          [] insn.op = "jump" -> jump(s, mem, insn.addr)
          [] insn.op = "float" -> float(s, mem, npc)
          [] insn.op = "nop" -> done(s, mem, npc)
          [] OTHER -> illegal(s, mem)
=============================================================================
