--------------------------------- MODULE Mmu ---------------------------------
(***************************************************************************)
(* The memory port of a hart of Spike (riscv/mmu.cc, mmu.h): page-table    *)
(* walks, physical memory protection, the TLB and the instruction cache    *)
(* that stand in for them, triggers, load reservations.                    *)
(*                                                                         *)
(* h is the architectural state of the hart (state_t), mm its mmu_t, mem   *)
(* the memory: eight-byte words [f, ppn], since a page-table entry is a    *)
(* word like any other; ppn is also what a program sees of a word.  Pages  *)
(* are smaller than Spike's and page tables shallower; everything else     *)
(* keeps its size.  The hypervisor extension is off, as it is unless --isa *)
(* asks for it.                                                            *)
(***************************************************************************)
EXTENDS Integers, Sequences, FiniteSets, FiniteSetsExt, Binding

CONSTANTS XLEN, PGSHIFT, IdxBits,
          Levels,            \* [off, sv39, sv48 -> levels of page tables]
          MAX_PADDR_BITS, TLB_ENTRIES, ICACHE_ENTRIES,
          num_triggers, max_pmp, n_pmp, lg_pmp_granularity,
          MemSize,           \* bytes of memory, from address 0
          DEBUG_START,       \* of the debug module, up to the end of the address space
          CLINT_BASE, nprocs

PRV_U == 0
PRV_S == 1
PRV_M == 3
PMP_SHIFT == 2
PTE_SIZE == 8
PGSIZE == 2 ^ PGSHIFT
Types == {"fetch", "load", "store"}

NoTrap == [cause |-> "none", tval |-> 0]
NoMatch == [index |-> -1, address |-> 0]

page_fault == [fetch |-> "fetch_page_fault", load |-> "load_page_fault", store |-> "store_page_fault"]
access_exception == [fetch |-> "fetch_access", load |-> "load_access", store |-> "store_access"]

throw(cause, tval) == [cause |-> cause, tval |-> tval]

vpnOf(addr) == addr \div PGSIZE
pageOf(addr) == PGSIZE * vpnOf(addr)
wordOf(paddr) == paddr \div 8
aligned(addr, len) == addr % len = 0

-----------------------------------------------------------------------------
(* Caches *)

NoTag == [vpn |-> -1, check |-> FALSE]
NoLine == [tag |-> -1, paddr |-> 0]

flush_icache(mm) == [mm EXCEPT !.icache = [i \in 0 .. ICACHE_ENTRIES - 1 |-> NoLine]]

\* The tags go; tlb_data stays and means nothing without a tag.
flush_tlb(mm) ==
    flush_icache([mm EXCEPT !.tag = [t \in Types |-> [i \in 0 .. TLB_ENTRIES - 1 |-> NoTag]]])

yield_load_reservation(mm) == [mm EXCEPT !.load_reservation_address = -1]

mmu_t ==
    [tag |-> [t \in Types |-> [i \in 0 .. TLB_ENTRIES - 1 |-> NoTag]],
     data |-> [i \in 0 .. TLB_ENTRIES - 1 |-> 0],
     icache |-> [i \in 0 .. ICACHE_ENTRIES - 1 |-> NoLine],
     check |-> [t \in Types |-> FALSE],
     matched_trigger |-> NoMatch,
     load_reservation_address |-> -1]

-----------------------------------------------------------------------------
(* Physical memory protection *)

\* Bits of pmpaddr below the granularity.
grainBits == lg_pmp_granularity - PMP_SHIFT

pmpTor(h, i) == (h.pmpaddr[i] \div 2 ^ grainBits) * 2 ^ (grainBits + PMP_SHIFT)

pmpBase(h, i) == IF i = 0 THEN 0 ELSE pmpTor(h, i - 1)

\* Count number of contiguous 1 bits starting from the LSB.
cto(val) == CHOOSE n \in 0 .. XLEN + 2 : val % 2 ^ n = 2 ^ n - 1 /\ (val \div 2 ^ n) % 2 = 0

\* The code's mask has its ones from this bit up.
napotBits(h, i) ==
    LET low == 2 * h.pmpaddr[i] + (IF h.pmpcfg[i].A = "na4" THEN 0 ELSE 1)
    IN  PMP_SHIFT + cto((low \div 2 ^ grainBits + 1) * 2 ^ grainBits - 1)

pmpMatch(h, i, addr) ==
    IF h.pmpcfg[i].A = "tor" THEN pmpBase(h, i) <= addr /\ addr < pmpTor(h, i)
    ELSE addr \div 2 ^ napotBits(h, i) = pmpTor(h, i) \div 2 ^ napotBits(h, i)

pmpPermission == [fetch |-> "X", load |-> "R", store |-> "W"]

\* The first entry that matches any four-byte sector of the access decides, and
\* fails the access unless it matches all of them.
pmp_ok(h, addr, len, type, mode) ==
    LET sectors == { addr + o : o \in { x \in 0 .. len - 1 : x % 2 ^ PMP_SHIFT = 0 } } IN
    Let({ i \in 0 .. n_pmp - 1 : /\ h.pmpcfg[i].A # "off"
                                 /\ \E s \in sectors : pmpMatch(h, i, s) }, LAMBDA hits :
    LET i == Min(hits)
    IN  \/ n_pmp = 0
        \/ hits = {} /\ mode = PRV_M
        \/ /\ hits # {}
           /\ \A s \in sectors : pmpMatch(h, i, s)
           /\ \/ mode = PRV_M /\ ~h.pmpcfg[i].L
              \/ pmpPermission[type] \in h.pmpcfg[i].perm)

\* Whether one answer of pmp_ok serves a whole page.
pmp_homogeneous(h, addr, len) ==
    \A i \in { j \in 0 .. n_pmp - 1 : h.pmpcfg[j].A # "off" } :
        LET tor == pmpTor(h, i)
            base == pmpBase(h, i)
            page(a) == a \div len
        IN  IF h.pmpcfg[i].A = "tor"
            THEN \/ page(addr) < page(base)
                 \/ addr >= tor
                 \/ addr >= base /\ page(addr) < page(tor)
            ELSE len <= 2 ^ napotBits(h, i) \/ page(addr) # page(tor)

-----------------------------------------------------------------------------
(* Translation *)

\* sim_t::addr_to_mem
addr_to_mem(paddr) == paddr \in 0 .. MemSize - 1 /\ paddr < 2 ^ MAX_PADDR_BITS

\* Levels of page tables in force.
decode_vm_info(mode, satp) == IF mode = PRV_M THEN 0 ELSE Levels[satp.mode]

PTE_TABLE(pte) == pte.f \cap {"V", "R", "W", "X"} = {"V"}

\* A leaf that lets the access through.
leafOk(pte, type, s_mode, sum, mxr, ptshift) ==
    /\ IF "U" \in pte.f THEN ~(s_mode /\ (type = "fetch" \/ ~sum)) ELSE s_mode
    /\ "V" \in pte.f /\ ("R" \in pte.f \/ "W" \notin pte.f)
    /\ CASE type = "fetch" -> "X" \in pte.f
         [] type = "load" -> "R" \in pte.f \/ (mxr /\ "X" \in pte.f)
         [] type = "store" -> {"R", "W"} \subseteq pte.f
    /\ pte.ppn % 2 ^ ptshift = 0
    /\ (IF type = "store" THEN {"A", "D"} ELSE {"A"}) \subseteq pte.f

\* The physical page of addr, or a fault.
walk(h, mem, addr, type, mode, mxr) ==
    LET levels == decode_vm_info(mode, h.satp)
        va_bits == PGSHIFT + levels * IdxBits
        msbs == addr \div 2 ^ (va_bits - 1)
        canonical == msbs \in {0, 2 ^ (XLEN - va_bits + 1) - 1}
        fault(cause) == [trap |-> throw(cause, addr), paddr |-> 0]
        level[i \in -1 .. levels - 1, base \in Nat] ==
            LET ptshift == i * IdxBits
                idx == (addr \div 2 ^ (PGSHIFT + ptshift)) % 2 ^ IdxBits
                pte_paddr == base + idx * PTE_SIZE
                pte == mem[wordOf(pte_paddr)]
                vpn == vpnOf(addr)
            IN  IF i < 0 THEN fault(page_fault[type])
                ELSE IF ~addr_to_mem(pte_paddr) \/ ~pmp_ok(h, pte_paddr, PTE_SIZE, "load", PRV_S)
                THEN fault(access_exception[type])
                ELSE IF PTE_TABLE(pte) THEN level[i - 1, pte.ppn * PGSIZE]
                ELSE IF leafOk(pte, type, mode = PRV_S, h.mstatus.SUM, mxr, ptshift)
                THEN [trap |-> NoTrap, paddr |-> (pte.ppn + (vpn % 2 ^ ptshift)) * PGSIZE]
                ELSE fault(page_fault[type])
    IN  IF levels = 0 THEN [trap |-> NoTrap, paddr |-> pageOf(addr)]
        ELSE IF ~canonical THEN fault(page_fault[type])
        ELSE level[levels - 1, h.satp.ppn * PGSIZE]

\* Loads and stores are made in the mode MPRV names.
modeFor(h, type) ==
    IF type # "fetch" /\ ~h.debug_mode /\ h.mstatus.MPRV THEN h.mstatus.MPP ELSE h.prv

translate(h, mem, addr, len, type) ==
    LET mode == modeFor(h, type) IN
    Let(walk(h, mem, addr, type, mode, h.mstatus.MXR), LAMBDA w :
    LET paddr == w.paddr + (addr % PGSIZE)
    IN  IF w.trap # NoTrap THEN w
        ELSE IF ~pmp_ok(h, paddr, len, type, mode)
        THEN [trap |-> throw(access_exception[type], addr), paddr |-> 0]
        ELSE [trap |-> NoTrap, paddr |-> paddr])

\* A tag of another page goes; the new one is set if protection allows it.
\* One entry of tlb_data serves the three kinds of access.
refill_tlb(h, mm, vaddr, paddr, type) ==
    LET idx == vpnOf(vaddr) % TLB_ENTRIES
        kept(t) == IF mm.tag[t][idx].vpn # vpnOf(vaddr) THEN NoTag ELSE mm.tag[t][idx]
        new == [vpn |-> vpnOf(vaddr), check |-> mm.check[type]]
    IN  [mm EXCEPT !.tag = [t \in Types |-> [@[t] EXCEPT ![idx] =
                                IF t = type /\ pmp_homogeneous(h, pageOf(paddr), PGSIZE)
                                THEN new ELSE kept(t)]],
                   !.data[idx] = paddr - vaddr]

\* What the TLB says of an access: "hit", "check" (a hit that must look at the
\* triggers) or "miss".
lookup(mm, addr, type) ==
    LET t == mm.tag[type][vpnOf(addr) % TLB_ENTRIES]
    IN  IF t.vpn # vpnOf(addr) THEN "miss" ELSE IF t.check THEN "check" ELSE "hit"

tlbPaddr(mm, addr) == addr + mm.data[vpnOf(addr) % TLB_ENTRIES]

-----------------------------------------------------------------------------
(* Triggers *)

triggerApplies(h, i, op) ==
    /\ op \in h.mcontrol[i].ops
    /\ h.prv \in h.mcontrol[i].modes

half == XLEN \div 2

triggerMatches(h, i, address, data) ==
    LET value == IF h.mcontrol[i].select THEN data ELSE address
        tdata2 == h.tdata2[i]
        bit(v, n) == (v \div 2 ^ n) % 2
        under(v) == \A n \in 0 .. half - 1 :
                        bit(tdata2, n + half) = 1 => bit(v, n) = bit(tdata2, n)
    IN  CASE h.mcontrol[i].match = "equal" -> value = tdata2
          [] h.mcontrol[i].match = "napot" ->
                value \div 2 ^ (cto(tdata2) + 1) = tdata2 \div 2 ^ (cto(tdata2) + 1)
          [] h.mcontrol[i].match = "ge" -> value >= tdata2
          [] h.mcontrol[i].match = "lt" -> value < tdata2
          [] h.mcontrol[i].match = "mask_low" -> under(value)
          [] h.mcontrol[i].match = "mask_high" -> under(value \div 2 ^ half)

\* The index of a trigger that matched, or -1.  chain_ok starts true and no
\* branch of the loop ever makes it false: a trigger that does not match lets
\* the next one decide.
trigger_match(h, op, address, data) ==
    Let({ i \in 0 .. num_triggers - 1 : /\ triggerApplies(h, i, op)
                                        /\ triggerMatches(h, i, address, data)
                                        /\ ~h.mcontrol[i].chain }, LAMBDA hits :
        IF h.debug_mode \/ hits = {} THEN -1 ELSE Min(hits))

\* What trigger_exception throws and whether it is kept in matched_trigger.
\* It does nothing while a match is being restarted.
trigger_exception(h, mm, op, address, data) ==
    Let(trigger_match(h, op, address, data), LAMBDA match :
    LET t == [index |-> match, address |-> address]
    IN  IF mm.matched_trigger # NoMatch \/ match = -1 THEN [thrown |-> NoMatch, mm |-> mm]
        ELSE IF h.mcontrol[match].timing = 0 THEN [thrown |-> t, mm |-> mm]
        ELSE [thrown |-> t, mm |-> [mm EXCEPT !.matched_trigger = t]])

-----------------------------------------------------------------------------
(* Accesses.  Each returns [mm, mem, trap, thrown, data, bus]: bus is the   *)
(* access a device serves, which HartSystem applies.                        *)

NoBus == [op |-> "none", addr |-> 0, val |-> 0]

result(mm, mem) ==
    [mm |-> mm, mem |-> mem, trap |-> NoTrap, thrown |-> NoMatch, data |-> 0, bus |-> NoBus]

trapped(r, trap) == [r EXCEPT !.trap = trap]

\* clint.cc: an msip register of four bytes for each hart, then a mtimecmp of
\* eight, then mtime.
clintRegister(paddr) ==
    LET o == paddr - CLINT_BASE
        times == 4 * nprocs
    IN  CASE o \in 0 .. times - 1 -> [reg |-> "msip", i |-> o \div 4]
          [] o \in times .. 3 * times - 1 -> [reg |-> "mtimecmp", i |-> (o - times) \div 8]
          [] o \in 3 * times .. 3 * times + 7 -> [reg |-> "mtime", i |-> 0]
          [] OTHER -> [reg |-> "none", i |-> 0]

isClint(paddr) == clintRegister(paddr).reg # "none"

\* mmio_ok and the devices on the bus: the debug module, in debug mode only,
\* and the CLINT.
mmioServes(h, paddr) ==
    /\ paddr < 2 ^ MAX_PADDR_BITS
    /\ \/ paddr >= DEBUG_START /\ h.debug_mode
       \/ isClint(paddr)

busAccess(op, paddr, val) ==
    IF isClint(paddr) THEN [op |-> op, addr |-> paddr, val |-> val] ELSE NoBus

read(mem, paddr) == IF wordOf(paddr) \in DOMAIN mem THEN mem[wordOf(paddr)].ppn ELSE 0

write(mem, paddr, len, val) ==
    [w \in DOMAIN mem |-> IF w \in wordOf(paddr) .. wordOf(paddr + len - 1) THEN val ELSE mem[w]]

checked(h, r, op, addr, data) ==
    Let(trigger_exception(h, r.mm, op, addr, data), LAMBDA e :
        [r EXCEPT !.mm = e.mm, !.thrown = e.thrown])

failed(r) == r.trap # NoTrap \/ r.thrown # NoMatch

load_slow_path(h, mm, mem, addr, len) ==
    Let(translate(h, mem, addr, len, "load"), LAMBDA t :
    LET r == result(mm, mem)
        inMem == addr_to_mem(t.paddr) IN
    Let(IF inMem
        THEN [r EXCEPT !.data = read(mem, t.paddr),
                       !.mm = refill_tlb(h, mm, addr, t.paddr, "load")]
        ELSE [r EXCEPT !.bus = busAccess("load", t.paddr, 0)], LAMBDA served :
        IF t.trap # NoTrap THEN trapped(r, t.trap)
        ELSE IF ~inMem /\ ~mmioServes(h, t.paddr) THEN trapped(r, throw("load_access", addr))
        ELSE checked(h, served, "load", addr, served.data)))

\* load_func: a hit does not look at the alignment.
load(h, mm, mem, addr, len) ==
    LET hit == [result(mm, mem) EXCEPT !.data = read(mem, tlbPaddr(mm, addr))] IN
    Let(load_slow_path(h, mm, mem, addr, len), LAMBDA slow :
        CASE lookup(mm, addr, "load") = "hit" -> hit
          [] lookup(mm, addr, "load") = "check" -> checked(h, hit, "load", addr, hit.data)
          [] OTHER -> IF ~failed(slow) /\ ~aligned(addr, len)
                      THEN trapped(slow, throw("load_misaligned", addr)) ELSE slow)

store_slow_path(h, mm, mem, addr, len, val) ==
    Let(translate(h, mem, addr, len, "store"), LAMBDA t :
    LET r == result(mm, mem) IN
    Let(checked(h, r, "store", addr, val.ppn), LAMBDA c :
        IF t.trap # NoTrap THEN trapped(r, t.trap)
        ELSE IF c.thrown # NoMatch THEN c
        ELSE IF addr_to_mem(t.paddr)
        THEN [c EXCEPT !.mem = write(mem, t.paddr, len, val),
                       !.mm = refill_tlb(h, c.mm, addr, t.paddr, "store")]
        ELSE IF mmioServes(h, t.paddr)
        THEN [c EXCEPT !.bus = busAccess("store", t.paddr, val.ppn)]
        ELSE trapped(c, throw("store_access", addr))))

\* store_func: the alignment is looked at last, when memory has been written.
store(h, mm, mem, addr, len, val) ==
    LET hit(r) == [r EXCEPT !.mem = write(mem, tlbPaddr(mm, addr), len, val)] IN
    Let(checked(h, result(mm, mem), "store", addr, val.ppn), LAMBDA c :
    Let(CASE lookup(mm, addr, "store") = "hit" -> hit(result(mm, mem))
          [] lookup(mm, addr, "store") = "check" -> IF failed(c) THEN c ELSE hit(c)
          [] OTHER -> store_slow_path(h, mm, mem, addr, len, val), LAMBDA done :
        IF ~failed(done) /\ ~aligned(addr, len)
        THEN trapped(done, throw("store_misaligned", addr)) ELSE done))

\* amo_func: faults of the load are reported as faults of a store.
amo(h, mm, mem, addr, len, val) ==
    Let(load(h, mm, mem, addr, len), LAMBDA lhs :
    LET asStore == [load_page_fault |-> "store_page_fault", load_access |-> "store_access"] IN
    Let(store(h, lhs.mm, mem, addr, len, val), LAMBDA st :
        IF ~aligned(addr, len)
        THEN trapped(result(mm, mem), throw("store_misaligned", addr))
        ELSE IF lhs.trap.cause \in DOMAIN asStore
        THEN trapped(lhs, throw(asStore[lhs.trap.cause], addr))
        ELSE IF failed(lhs) THEN lhs
        ELSE [st EXCEPT !.data = lhs.data]))

acquire_load_reservation(h, r, vaddr) ==
    Let(translate(h, r.mem, vaddr, 1, "load"), LAMBDA t :
        IF t.trap # NoTrap THEN trapped(r, t.trap)
        ELSE IF ~addr_to_mem(t.paddr) THEN trapped(r, throw("load_access", vaddr))
        ELSE [r EXCEPT !.mm = [refill_tlb(h, r.mm, vaddr, t.paddr, "load") EXCEPT
                                  !.load_reservation_address = t.paddr]])

\* lr_w.h
lr(h, mm, mem, addr, len) ==
    Let(load(h, mm, mem, addr, len), LAMBDA r :
        IF failed(r) THEN r ELSE acquire_load_reservation(h, r, addr))

\* data is whether the reservation is held.
check_load_reservation(h, mm, mem, vaddr, size) ==
    Let(translate(h, mem, vaddr, 1, "store"), LAMBDA t :
    LET r == result(mm, mem)
        held == mm.load_reservation_address = t.paddr
    IN  IF ~aligned(vaddr, size) THEN trapped(r, throw("store_misaligned", vaddr))
        ELSE IF t.trap # NoTrap THEN trapped(r, t.trap)
        ELSE IF ~addr_to_mem(t.paddr) THEN trapped(r, throw("store_access", vaddr))
        ELSE [r EXCEPT !.mm = refill_tlb(h, mm, vaddr, t.paddr, "store"),
                       !.data = IF held THEN 1 ELSE 0])

\* sc_w.h: data is what goes to rd, 0 for success.
sc(h, mm, mem, addr, len, val) ==
    Let(check_load_reservation(h, mm, mem, addr, len), LAMBDA c :
    Let(IF c.data = 1 THEN store(h, c.mm, mem, addr, len, val) ELSE c, LAMBDA s :
        IF failed(c) THEN c
        ELSE IF failed(s) THEN s
        ELSE [s EXCEPT !.mm = yield_load_reservation(s.mm), !.data = 1 - c.data]))

-----------------------------------------------------------------------------
(* Fetches *)

fetch_slow_path(h, mm, mem, vaddr) ==
    Let(translate(h, mem, vaddr, 2, "fetch"), LAMBDA t :
    LET r == result(mm, mem)
    IN  IF t.trap # NoTrap THEN trapped(r, t.trap)
        ELSE IF addr_to_mem(t.paddr)
        THEN [r EXCEPT !.mm = refill_tlb(h, mm, vaddr, t.paddr, "fetch"), !.data = t.paddr]
        ELSE IF mmioServes(h, t.paddr)
        THEN [r EXCEPT !.bus = busAccess("load", t.paddr, 0), !.data = t.paddr]
        ELSE trapped(r, throw("fetch_access", vaddr)))

\* data is the physical address of the parcel.  Execute triggers fire before.
translate_insn_addr(h, mm, mem, addr) ==
    LET hit == [result(mm, mem) EXCEPT !.data = tlbPaddr(mm, addr)] IN
    Let(IF lookup(mm, addr, "fetch") = "miss" THEN fetch_slow_path(h, mm, mem, addr) ELSE hit, LAMBDA r :
    Let(trigger_match(h, "fetch", addr, read(mem, tlbPaddr(r.mm, addr))), LAMBDA match :
        IF ~failed(r) /\ lookup(r.mm, addr, "fetch") = "check" /\ match >= 0
        THEN [r EXCEPT !.thrown = [index |-> match, address |-> addr]] ELSE r))

\* A four-byte instruction is fetched as two parcels, each with its own page.
refill_icache(h, mm, mem, addr, length) ==
    Let(translate_insn_addr(h, mm, mem, addr), LAMBDA first :
    Let(translate_insn_addr(h, first.mm, mem, (addr + 2) % 2 ^ XLEN), LAMBDA second :
    LET bus == IF first.bus = NoBus THEN second.bus ELSE first.bus
    IN  IF failed(first) \/ length = 2 THEN first
        ELSE [second EXCEPT !.data = first.data, !.bus = bus]))

icache_index(addr) == (addr \div 2) % ICACHE_ENTRIES

\* The fast path keeps what it fetched.
access_icache(h, mm, mem, addr, length) ==
    LET line == mm.icache[icache_index(addr)] IN
    Let(refill_icache(h, mm, mem, addr, length), LAMBDA r :
        IF line.tag = addr THEN [result(mm, mem) EXCEPT !.data = line.paddr]
        ELSE IF failed(r) THEN r
        ELSE [r EXCEPT !.mm.icache[icache_index(addr)] = [tag |-> addr, paddr |-> r.data]])

\* The slow path does not.
load_insn(h, mm, mem, addr, length) == refill_icache(h, mm, mem, addr, length)

trigger_updated(h, mm) ==
    [flush_tlb(mm) EXCEPT !.check = [t \in Types |-> \E i \in 0 .. num_triggers - 1 :
                                                         t \in h.mcontrol[i].ops]]
=============================================================================
