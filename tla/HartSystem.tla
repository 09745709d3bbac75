----------------------------- MODULE HartSystem -----------------------------
(***************************************************************************)
(* The harts of Spike run in turns (riscv/execute.cc, sim.cc): the loop of *)
(* processor_t::step, the core-local interruptor, the interrupts the test  *)
(* case asks for at given addresses, and a debugger that acts between the  *)
(* turns.                                                                  *)
(*                                                                         *)
(* A session is a program and its surroundings: code gives for a physical  *)
(* address the instructions that may be found there (one of them is fixed  *)
(* the first time it is executed), intrs the interrupts of psint, harts    *)
(* how many harts run, halts and resets what the debugger may ask for,     *)
(* mem the memory, fuel how many instructions are executed.                *)
(***************************************************************************)
EXTENDS Hart

CONSTANTS Sessions, INTERLEAVE

Word == 0 .. 2 ^ XLEN - 1

\* The bits of a register that an instruction writes.
status ==
    [MIE : BOOLEAN, MPIE : BOOLEAN, MPP : 0 .. 3, SIE : BOOLEAN, SPIE : BOOLEAN,
     SPP : {PRV_U, PRV_S}, MPRV : BOOLEAN, SUM : BOOLEAN, MXR : BOOLEAN, TVM : BOOLEAN,
     TW : BOOLEAN, TSR : BOOLEAN, FS : 0 .. 3]

operand(csr, val) ==
    /\ csr \in {"mstatus", "sstatus"} => val \in status
    /\ csr \in {"minstret", "mtvec", "stvec"} => val \in Word
    /\ csr = "dcsr" => val \in [prv : 0 .. 3, step : BOOLEAN, ebreak : SUBSET (0 .. 3),
                                halt : BOOLEAN, cause : {"none"}]

wellFormed(insn) ==
    /\ insn.length \in {2, 4}
    /\ insn.op = "csrrw" => operand(insn.csr, insn.val)

ASSUME WordAssumption == 2 ^ XLEN \in Nat \ {0}
ASSUME PmpAssumption == max_pmp \in Nat /\ n_pmp \in 0 .. max_pmp
ASSUME InterleaveAssumption == INTERLEAVE \in Nat \ {0}
ASSUME SessionsAssumption ==
    \A s \in Sessions :
        /\ s.harts \in Nat \ {0} /\ s.resets \in Nat
        /\ s.code = [a \in DOMAIN s.code |-> s.code[a]]
        /\ \A a \in DOMAIN s.code : \A insn \in s.code[a] : wellFormed(insn)

VARIABLES session, hart, mmu, mem, clint, code,
          loop,            \* locals of step: [at, n, instret, slow, again]
          cur, halt_request, resets, fuel,
          hist             \* what the properties remember, for each hart

vars == <<session, hart, mmu, mem, clint, code, loop, cur, halt_request, resets, fuel, hist>>

Harts == 0 .. session.harts - 1

NoInsn == [op |-> "none", length |-> 0]
Unknown == [op |-> "unknown", length |-> 2]

state == hart[cur]
me == [h |-> state, mm |-> mmu[cur]]

Idle == [at |-> "idle", n |-> 0, instret |-> 0, slow |-> FALSE, again |-> NoInsn]

Init ==
    /\ session \in Sessions
    /\ hart = [c \in Harts |-> processor_t(FALSE).h]
    /\ mmu = [c \in Harts |-> processor_t(FALSE).mm]
    /\ mem = session.mem
    /\ clint = [mtime |-> 0, mtimecmp |-> [c \in Harts |-> 0]]
    /\ code = session.code
    /\ loop = Idle
    /\ cur = 0
    /\ halt_request = [c \in Harts |-> "none"]
    /\ resets = session.resets
    /\ fuel = session.fuel
    /\ hist = [c \in Harts |-> [count |-> 0, read |-> 0, due |-> 0, fenced |-> TRUE,
                                lr |-> -1, stolen |-> FALSE, left |-> 2, stale |-> FALSE]]

-----------------------------------------------------------------------------
(* Turns *)

\* sim_t::step calls step(n); a halt asked for is noticed here only.
BeginTurn ==
    /\ loop.at = "idle"
    /\ LET cause == CASE halt_request[cur] = "regular" -> "debugint"
                      [] halt_request[cur] = "group" -> "group"
                      [] state.dcsr.halt -> "halt"
                      [] OTHER -> "none"
           s == IF cause = "none" \/ state.debug_mode THEN me ELSE enter_debug_mode(me, cause)
       IN  /\ hart' = [hart EXCEPT ![cur] = s.h]
           /\ mmu' = [mmu EXCEPT ![cur] = s.mm]
           /\ loop' = [Idle EXCEPT !.at = "top", !.n = INTERLEAVE]
           /\ hist' = IF s.h.debug_mode THEN [hist EXCEPT ![cur].left = 2] ELSE hist
    /\ UNCHANGED <<session, mem, clint, code, cur, halt_request, resets, fuel>>

slow_path(x) == x.single_step # "none" \/ x.debug_mode

\* catch (trap_t&): the rest of the turn is given up.
caught(s, trap, pc) ==
    Let(take_trap(s, trap, pc), LAMBDA t :
        IF t.h.single_step = "stepped"
        THEN enter_debug_mode([t EXCEPT !.h.single_step = "none"], "step") ELSE t)

Top ==
    /\ loop.at = "top"
    /\ \E trap \in {take_pending_interrupt(state)} :
           IF trap # NoTrap
           THEN /\ \E s \in {caught(me, trap, state.pc)} :
                       /\ hart' = [hart EXCEPT ![cur] = s.h]
                       /\ mmu' = [mmu EXCEPT ![cur] = s.mm]
                /\ loop' = [Idle EXCEPT !.at = "end"]
                /\ hist' = [hist EXCEPT ![cur].stale = @ \/ state.serialized]
           ELSE /\ loop' = [loop EXCEPT !.at = "inner", !.instret = 0, !.slow = slow_path(state)]
                /\ UNCHANGED <<hart, mmu, hist>>
    /\ UNCHANGED <<session, mem, clint, code, cur, halt_request, resets, fuel>>

mustStop(x) == ~x.serialized /\ x.single_step = "stepped"

stepOver == loop.at = "inner" /\ loop.slow /\ mustStop(state)

\* Leaving the inner loop: what was retired is counted.
leave(x) == [x EXCEPT !.minstret = (@ + loop.instret) % 2 ^ XLEN]

left(instret) == IF loop.n = instret THEN "end" ELSE "top"

StepDone ==
    /\ stepOver
    /\ LET none == [me EXCEPT !.h.single_step = "none"]
           s == enter_debug_mode(none, "step")
       IN  IF state.debug_mode
           THEN /\ hart' = [hart EXCEPT ![cur] = none.h]
                /\ UNCHANGED <<mmu, loop, hist>>
           ELSE /\ hart' = [hart EXCEPT ![cur] = leave(s.h)]
                /\ mmu' = [mmu EXCEPT ![cur] = s.mm]
                /\ loop' = [loop EXCEPT !.at = left(loop.instret), !.n = @ - loop.instret]
                /\ hist' = [hist EXCEPT ![cur].left = 2]
    /\ UNCHANGED <<session, mem, clint, code, cur, halt_request, resets, fuel>>

EndTurnHolding ==
    /\ loop.at = "end"
    /\ cur' = (cur + 1) % session.harts
    /\ loop' = Idle
    /\ UNCHANGED <<session, hart, mmu, mem, clint, code, halt_request, resets, fuel, hist>>

\* The reservation does not outlive the turn.
EndTurn ==
    /\ loop.at = "end"
    /\ mmu' = [mmu EXCEPT ![cur] = yield_load_reservation(@)]
    /\ cur' = (cur + 1) % session.harts
    /\ loop' = Idle
    /\ UNCHANGED <<session, hart, mem, clint, code, halt_request, resets, fuel, hist>>

-----------------------------------------------------------------------------
(* Devices *)

\* clint_t::increment(0): no timer runs, but any access compares again.
increment(hs, cl) ==
    [c \in DOMAIN hs |-> [hs[c] EXCEPT !.mip = (@ \ {"MTI"}) \cup
                            (IF cl.mtime >= cl.mtimecmp[c] THEN {"MTI"} ELSE {})]]

\* clint_t::store
clintStore(cl, bus) ==
    LET r == clintRegister(bus.addr)
    IN  CASE r.reg = "mtimecmp" /\ r.i \in DOMAIN cl.mtimecmp -> [cl EXCEPT !.mtimecmp[r.i] = bus.val]
          [] r.reg = "mtime" -> [cl EXCEPT !.mtime = bus.val]
          [] OTHER -> cl

msipStore(hs, bus) ==
    LET r == clintRegister(bus.addr)
    IN  IF r.reg = "msip" /\ r.i \in DOMAIN hs
        THEN [hs EXCEPT ![r.i].mip = (@ \ {"MSI"}) \cup (IF bus.val % 2 = 1 THEN {"MSI"} ELSE {})]
        ELSE hs

clintLoad(hs, cl, addr) ==
    LET r == clintRegister(addr)
    IN  CASE r.reg = "msip" /\ r.i \in DOMAIN hs -> IF "MSI" \in hs[r.i].mip THEN 1 ELSE 0
          [] r.reg = "mtimecmp" /\ r.i \in DOMAIN hs -> cl.mtimecmp[r.i]
          [] r.reg = "mtime" -> cl.mtime
          [] OTHER -> 0

\* What an access of the bus does to the harts and the CLINT.
onBus(hs, cl, bus) ==
    CASE bus.op = "store" -> [hs |-> increment(msipStore(hs, bus), clintStore(cl, bus)),
                              cl |-> clintStore(cl, bus)]
      [] bus.op = "load" -> [hs |-> increment(hs, cl), cl |-> cl]
      [] OTHER -> [hs |-> hs, cl |-> cl]

\* psint_t::assert_int: hart 0 gets the interrupts, whichever hart is here.
asserted(hs, pc) ==
    IF pc \in DOMAIN session.intrs THEN [hs EXCEPT ![0].mip = @ \cup session.intrs[pc]] ELSE hs

psintTrap(hs, pc) ==
    IF pc \in DOMAIN session.intrs THEN take_pending_interrupt(asserted(hs, pc)[0]) ELSE NoTrap

-----------------------------------------------------------------------------
(* One instruction *)

\* The physical address of the pc, if it can be fetched.
fetchAddress ==
    LET line == mmu[cur].icache[icache_index(state.pc)]
    IN  IF ~loop.slow /\ line.tag = state.pc THEN line.paddr
        ELSE translate_insn_addr(state, mmu[cur], mem, state.pc).data

insnsHere == IF loop.again # NoInsn THEN {loop.again}
             ELSE IF fetchAddress \in DOMAIN code THEN code[fetchAddress] ELSE {Unknown}

\* What is left when fetching or psint throws.
stopped(hs, mm, trap, thrown) ==
    [hs |-> hs, mm |-> mm, mem |-> mem, bus |-> NoBus, trap |-> trap, thrown |-> thrown,
     npc |-> 0, kind |-> "plain"]

executed(hs, mm, insn) ==
    Let(execute_insn([h |-> hs[cur], mm |-> mm], mem, insn, state.pc), LAMBDA x :
        [hs |-> [hs EXCEPT ![cur] = x.h], mm |-> x.mm, mem |-> x.mem, bus |-> x.bus,
         trap |-> x.trap, thrown |-> x.thrown, npc |-> x.npc, kind |-> x.kind])

\* The slow path looks for interrupts before the fetch, the fast path after it.
outcome(insn) ==
    LET started == IF loop.slow /\ state.single_step = "stepping"
                   THEN [hart EXCEPT ![cur].single_step = "stepped"] ELSE hart IN
    Let(psintTrap(started, state.pc), LAMBDA int :
    LET now == asserted(started, state.pc) IN
    Let(IF loop.slow THEN load_insn(started[cur], mmu[cur], mem, state.pc, insn.length)
        ELSE access_icache(started[cur], mmu[cur], mem, state.pc, insn.length), LAMBDA f :
        IF loop.slow /\ int # NoTrap THEN stopped(now, mmu[cur], int, NoMatch)
        ELSE IF failed(f) THEN stopped(IF loop.slow THEN now ELSE started, f.mm, f.trap, f.thrown)
        ELSE IF int # NoTrap THEN stopped(now, f.mm, int, NoMatch)
        ELSE executed(now, f.mm, insn)))

\* An instruction that a trigger stopped halfway is executed again.
restarted(o, insn) ==
    Let(load_insn(o.hs[cur], o.mm, mem, state.pc, insn.length), LAMBDA f :
        IF failed(f) THEN stopped(o.hs, f.mm, f.trap, f.thrown) ELSE executed(o.hs, f.mm, insn))

\* action of the trigger that matched
triggered(s, t, pc) ==
    IF s.h.mcontrol[t.index].action = "debug_mode" THEN enter_debug_mode(s, "hwbp")
    ELSE take_trap(s, throw("breakpoint", t.address), pc)

\* Where the hart and its loop are after outcome o: [s, l, counted].
afterRetire(s) ==
    LET l == [loop EXCEPT !.instret = @ + 1, !.again = NoInsn]
        full == l.instret = l.n
        counted == [s EXCEPT !.h.minstret = (@ + l.instret) % 2 ^ XLEN]
    IN  [s |-> IF full THEN counted ELSE s,
         l |-> IF full THEN [Idle EXCEPT !.at = "end"] ELSE l, retired |-> TRUE]

\* The inner loop is left with retired instructions; the turn goes on if n is not reached.
afterBreak(s, instret, again) ==
    [s |-> [s EXCEPT !.h.minstret = (@ + instret) % 2 ^ XLEN],
     l |-> IF loop.n = instret THEN [Idle EXCEPT !.at = "end"]
           ELSE [Idle EXCEPT !.at = "top", !.n = loop.n - instret, !.again = again],
     retired |-> instret > loop.instret]

\* The turn is over.
afterStop(s) ==
    [s |-> [s EXCEPT !.h.minstret = (@ + loop.instret) % 2 ^ XLEN],
     l |-> [Idle EXCEPT !.at = "end"], retired |-> FALSE]

\* catch (trigger_matched_t&); what the restart throws nobody catches.
afterTrigger(o, insn) ==
    LET s == [h |-> o.hs[cur], mm |-> o.mm] IN
    Let(restarted(o, insn), LAMBDA again :
    LET z == [h |-> [again.hs[cur] EXCEPT !.pc = again.npc],
              mm |-> [again.mm EXCEPT !.matched_trigger = NoMatch]]
    IN  IF o.mm.matched_trigger = NoMatch
        THEN afterBreak(triggered(s, o.thrown, state.pc), loop.instret, NoInsn)
        ELSE IF failed(again)
        THEN [s |-> [h |-> again.hs[cur], mm |-> again.mm],
              l |-> [Idle EXCEPT !.at = "escaped"], retired |-> FALSE]
        ELSE afterBreak(triggered(z, o.thrown, again.npc), loop.instret + 1, NoInsn))

after(o, insn) ==
    LET s == [h |-> o.hs[cur], mm |-> o.mm]
    IN  CASE o.trap # NoTrap -> afterStop(caught(s, o.trap, state.pc))
          [] o.trap = NoTrap /\ o.thrown # NoMatch -> afterTrigger(o, insn)
          [] ~failed(o) /\ o.kind = "wfi" -> afterStop(s)
          [] ~failed(o) /\ o.kind = "before" ->
                afterBreak([s EXCEPT !.h.serialized = TRUE], loop.instret, insn)
          [] ~failed(o) /\ o.kind = "after" -> afterBreak(s, loop.instret + 1, NoInsn)
          [] ~failed(o) /\ o.kind = "plain" -> afterRetire([s EXCEPT !.h.pc = o.npc])

\* The memory and the bus access of an instruction are those of its last execution.
lastOf(o, insn) ==
    IF o.thrown # NoMatch /\ o.mm.matched_trigger # NoMatch THEN restarted(o, insn) ELSE o

-----------------------------------------------------------------------------
(* What the properties remember *)

empty(mm) == \A t \in Types, i \in 0 .. TLB_ENTRIES - 1 : mm.tag[t][i] = NoTag

\* count is what minstret should be.  WFI is not counted: the throw in wfi()
\* passes by the ++instret of PC_SERIALIZE_WFI.
countAfter(a, insn) ==
    IF ~a.retired THEN hist[cur].count
    ELSE IF insn.op = "csrrw" /\ insn.csr = "minstret" THEN insn.val
    ELSE (hist[cur].count + 1) % 2 ^ XLEN

\* A step is used up by an instruction or by the exception it raises.
leftAfter(o, a, insn) ==
    LET stepped == a.retired \/ (o.trap # NoTrap /\ ~isInterrupt(o.trap.cause)) \/ o.kind = "wfi"
    IN  IF a.s.h.debug_mode THEN 2
        ELSE IF insn.op = "dret" /\ a.retired THEN (IF state.dcsr.step THEN 1 ELSE 2)
        ELSE IF hist[cur].left < 2 /\ stepped THEN hist[cur].left - 1
        ELSE hist[cur].left

scSucceeded(last, insn) == insn.op = "sc" /\ ~failed(last) /\ last.hs[cur].x = 0

\* The pipe was serialized for an instruction, and a trap comes before the instruction.
overtaken(o) == state.serialized /\ failed(o) /\ o.hs[cur].serialized

remember(o, a, insn) ==
    Let(lastOf(o, insn), LAMBDA last :
    LET wrote == { w \in DOMAIN mem : last.mem[w] # mem[w] }
        old == hist[cur]
        readsCounter == insn.op = "csrr" /\ insn.csr \in {"minstret", "instret"} /\ a.retired
        resv == wordOf(mmu[cur].load_reservation_address)
        mine == [old EXCEPT
                   !.count = countAfter(a, insn),
                   !.read = IF readsCounter THEN a.s.h.x ELSE @,
                   !.due = IF readsCounter THEN old.count ELSE @,
                   !.lr = IF insn.op = "lr" /\ a.retired
                          THEN wordOf(a.s.mm.load_reservation_address)
                          ELSE IF scSucceeded(last, insn) THEN -1 ELSE @,
                   !.stolen = scSucceeded(last, insn) /\ old.lr # resv,
                   !.left = leftAfter(o, a, insn),
                   !.stale = @ \/ overtaken(o)]
        upset(x) == [x EXCEPT !.fenced = @ /\ wrote \cap session.tables = {}]
    IN  [c \in Harts |->
           IF c = cur THEN [upset(mine) EXCEPT !.fenced = @ \/ empty(a.s.mm)]
           ELSE [upset(hist[c]) EXCEPT !.lr = IF @ \in wrote THEN -1 ELSE @]])

Execute ==
    /\ loop.at = "inner"
    /\ ~stepOver
    /\ fuel > 0
    /\ \E insn \in insnsHere :
         \E o \in {outcome(insn)} :
         \E a \in {after(o, insn)}, last \in {lastOf(o, insn)} :
         \E b \in {onBus([last.hs EXCEPT ![cur] = a.s.h], clint, last.bus)} :
         LET loads == last.bus.op = "load" /\ insn.op = "load" /\ a.retired
         IN  /\ hart' = IF loads
                        THEN [b.hs EXCEPT ![cur].x = clintLoad(b.hs, b.cl, last.bus.addr)]
                        ELSE b.hs
             /\ mmu' = [mmu EXCEPT ![cur] = a.s.mm]
             /\ mem' = last.mem
             /\ clint' = b.cl
             /\ loop' = a.l
             /\ code' = IF fetchAddress \in DOMAIN code /\ fetchAddress < DEBUG_START
                        THEN [code EXCEPT ![fetchAddress] = {insn}] ELSE code
             /\ hist' = remember(o, a, insn)
    /\ fuel' = fuel - 1
    /\ UNCHANGED <<session, cur, halt_request, resets>>

-----------------------------------------------------------------------------
(* The debugger, between turns *)

HaltRequest(c) ==
    /\ loop.at = "idle"
    /\ \E r \in session.halts :
         /\ halt_request[c] # r
         /\ halt_request' = [halt_request EXCEPT ![c] = r]
    /\ UNCHANGED <<session, hart, mmu, mem, clint, code, loop, cur, resets, fuel, hist>>

\* The debug module resets a hart.
ResetHart(c) ==
    /\ loop.at = "idle"
    /\ resets > 0
    /\ \E r \in {reset(mmu[c], FALSE)} :
           /\ hart' = [hart EXCEPT ![c] = r.h]
           /\ mmu' = [mmu EXCEPT ![c] = r.mm]
           /\ hist' = [hist EXCEPT ![c].count = 0, ![c].read = 0, ![c].due = 0, ![c].left = 2,
                                   ![c].stale = FALSE, ![c].fenced = @ \/ empty(r.mm)]
    /\ resets' = resets - 1
    /\ UNCHANGED <<session, mem, clint, code, loop, cur, halt_request, fuel>>

Next ==
    \/ BeginTurn \/ Top \/ StepDone \/ Execute \/ EndTurn
    \/ \E c \in Harts : HaltRequest(c) \/ ResetHart(c)

Spec == Init /\ [][Next]_vars

-----------------------------------------------------------------------------
(* Properties *)

tagAgrees(c, t, i) ==
    LET tag == mmu[c].tag[t][i]
        fresh(a) == translate(hart[c], mem, a, 4, t)
    IN  tag.vpn = -1 \/
        \A o \in { x \in 0 .. PGSIZE - 1 : x % 4 = 0 } :
            LET a == tag.vpn * PGSIZE + o
            IN  fresh(a) = [trap |-> NoTrap, paddr |-> tlbPaddr(mmu[c], a)]

lineAgrees(c, i) ==
    LET line == mmu[c].icache[i]
    IN  line.tag = -1 \/
        translate(hart[c], mem, line.tag, 2, "fetch") = [trap |-> NoTrap, paddr |-> line.paddr]

\* What a tag of the TLB or a line of the instruction cache says is what a page walk
\* and the protection would say now, for every aligned access to the page: the caches
\* are there "for simulator performance" (mmu.h).  A hart is excepted from a change of
\* the page tables to its next fence.
CachesTransparent ==
    \A c \in Harts : hist[c].fenced =>
        /\ \A t \in Types, i \in 0 .. TLB_ENTRIES - 1 : tagAgrees(c, t, i)
        /\ \A i \in 0 .. ICACHE_ENTRIES - 1 : lineAgrees(c, i)

\* minstret, which step adds to only when it leaves its inner loop, is read as the number
\* of instructions retired, whatever traps, writes and ends of turns came in between, on a
\* hart that no trap has overtaken at a serialized instruction (SerializedExact).
InstretExact ==
    \A c \in Harts : ~hist[c].stale =>
        /\ hist[c].read = hist[c].due
        /\ (c # cur \/ loop.at \in {"idle", "top", "end"}) => hart[c].minstret = hist[c].count

\* serialized says "whether timer CSRs are in a well-defined state" (processor.h:216).  An
\* interrupt taken between PC_SERIALIZE_BEFORE and the instruction leaves it set: the
\* handler then runs with it, up to its first access to a register, and reads minstret
\* without the instructions it has retired so far.
SerializedExact == \A c \in Harts : hart[c].serialized => hart[c].minstret = hist[c].count

\* A store-conditional succeeds only if no other hart has changed the word since the
\* load-reserved, though nothing but the end of a turn takes a reservation away.
ScAtomic == \A c \in Harts : ~hist[c].stolen

\* Resumed with dcsr.step, a hart executes one instruction, or takes the exception of
\* one, before it is back in debug mode, with the exception made by InstretExact.
StepOne == \A c \in Harts : ~hist[c].stale => hist[c].left >= 0

\* From x to y, two states of a hart.
lockedKept(x, y) ==
    \A i \in 0 .. n_pmp - 1 :
        x.pmpcfg[i].L =>
            /\ y.pmpcfg[i] = x.pmpcfg[i]
            /\ y.pmpaddr[i] = x.pmpaddr[i]
            /\ x.pmpcfg[i].A = "tor" /\ i > 0 => y.pmpaddr[i - 1] = x.pmpaddr[i - 1]

\* A locked entry of the PMP stays as it is until reset, with the address below a
\* locked top-of-range entry.
LockedKept == [][resets' = resets => \A c \in Harts : lockedKept(hart[c], hart'[c])]_vars

\* A trigger whose timing is "after" reports the next instruction.
reported(epc, x, cause) ==
    \/ epc = x.pc
    \/ cause = causeOf("breakpoint") /\ \E l \in {2, 4} : epc = (x.pc + l) % 2 ^ XLEN

gated(x, y) ==
    \/ y.debug_mode /\ y.pc = DEBUG_ROM_ENTRY
    \/ /\ y.prv = PRV_M /\ reported(y.mepc, x, y.mcause)
       /\ y.pc = clearBit(x.mtvec, 0) \/ y.mcause.int
       /\ ~y.mstatus.MIE /\ y.mstatus.MPP = x.prv /\ y.mstatus.MPIE = x.mstatus.MIE
    \/ /\ y.prv = PRV_S /\ reported(y.sepc, x, y.scause)
       /\ y.pc = clearBit(x.stvec, 0) \/ y.scause.int
       /\ ~y.mstatus.SIE /\ y.mstatus.SPP = x.prv /\ y.mstatus.SPIE = x.mstatus.SIE

privileged(x, y) == y.prv > x.prv /\ ~x.debug_mode => gated(x, y)

\* A hart gains privilege only by entering the handler of a trap, with the interrupts of
\* the new mode off and the old mode and pc saved, or by entering debug mode; the
\* debugger, which is in debug mode, has every privilege.
PrivilegeGated ==
    [][resets' = resets => \A c \in Harts : privileged(hart[c], hart'[c])]_vars
=============================================================================
