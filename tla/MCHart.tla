------------------------------- MODULE MCHart -------------------------------
(***************************************************************************)
(* Programs for HartSystem.  A page has 16 bytes.  Pages 0, 1 and 3 hold   *)
(* page tables, 2 data, 4 and 5 the code that runs after reset, 6 the code *)
(* of lower modes and 7 the trap handler.                                  *)
(***************************************************************************)
EXTENDS HartSystem, TLC

MCLevels == [off |-> 0, sv39 |-> 3, sv48 |-> 4]
MCIsa == {"S", "U", "M", "A", "F", "D", "C"}

csrw(csr, val) == [op |-> "csrrw", csr |-> csr, i |-> 0, val |-> val, length |-> 4]
csrwAt(csr, i, val) == [op |-> "csrrw", csr |-> csr, i |-> i, val |-> val, length |-> 4]
csrr(csr) == [op |-> "csrr", csr |-> csr, i |-> 0, length |-> 4]
ld(addr) == [op |-> "load", addr |-> addr, len |-> 4, length |-> 4]
data(n) == [f |-> {}, ppn |-> n]
mo(op, addr, val) == [op |-> op, addr |-> addr, len |-> 4, val |-> val, length |-> 4]
sd(addr, val) == [op |-> "store", addr |-> addr, len |-> 8, val |-> val, length |-> 4]
st(addr, n) == mo("store", addr, data(n))
insn(op) == [op |-> op, length |-> 4]
c_nop == [op |-> "nop", length |-> 2]
j(addr) == [op |-> "jump", addr |-> addr, length |-> 4]

\* Instruction sets placed at consecutive words from a physical address.
at(base, sets) == [a \in { base + 4 * (i - 1) : i \in 1 .. Len(sets) } |-> sets[(a - base) \div 4 + 1]]
one(seq) == [i \in 1 .. Len(seq) |-> {seq[i]}]

prog(f, g) == [a \in (DOMAIN f) \cup (DOMAIN g) |-> IF a \in DOMAIN f THEN f[a] ELSE g[a]]

pte(f, ppn) == [f |-> f, ppn |-> ppn]
Zero == data(0)
Words(tables) == [w \in 0 .. 15 |-> IF w \in DOMAIN tables THEN tables[w] ELSE Zero]

Bare == [mem |-> Words(<<>>), tables |-> {}, intrs |-> <<>>, harts |-> 1, halts |-> {},
         resets |-> 0, fuel |-> 10, code |-> <<>>]

\* Sv39: page 0 is code (6), page 1 data (2), pages 2 and 3 a superpage; the upper
\* half is a larger one with the page tables themselves.
PageTables ==
    Words((0 :> pte({"V"}, 1)) @@ (1 :> pte({"V", "R", "W", "A", "D"}, 0))
          @@ (2 :> pte({"V"}, 3)) @@ (3 :> pte({"V", "R", "A"}, 6))
          @@ (6 :> pte({"V", "R", "X", "A"}, 6)) @@ (7 :> pte({"V", "R", "W", "A", "D"}, 2)))

statusS == [NoStatus EXCEPT !.MPP = PRV_S]
statusU == [NoStatus EXCEPT !.MPP = PRV_U, !.FS = 3]

paging ==
    [Bare EXCEPT
       !.mem = PageTables, !.tables = {0, 1, 2, 3, 6, 7}, !.fuel = 24,
       !.code = prog(at(64, one(<<csrw("satp", [mode |-> "sv39", ppn |-> 0]), csrw("mtvec", 112),
                                  csrw("medeleg", {"load_page_fault"}), csrw("stvec", 8),
                                  csrw("mstatus", statusS), csrw("mepc", 0), insn("mret")>>)),
                prog(at(96, <<{ld(16), st(20, 1), j(14), insn("ecall")},
                              {sd(504, pte({"V", "R", "A"}, 3)), sd(504, pte({}, 2)), ld(24), csrw("sstatus", [NoStatus EXCEPT !.SUM = TRUE])},
                              {insn("sfence_vma"), ld(480), st(16, 2), insn("sret")},
                              {ld(16), ld(511), c_nop}>>),
                prog(110 :> {insn("nop"), c_nop},
                     at(112, <<{csrw("mepc", 4), csrr("mepc"), csrwAt("pmpaddr", 0, 20),
                                csrw("mstatus", [statusS EXCEPT !.MPRV = TRUE])},
                               {ld(16), csrw("satp", [mode |-> "off", ppn |-> 0])}, {insn("mret")}>>))))]

\* 40..55 is locked and read only for everybody; its ends are inside pages 2 and 3.
protection ==
    [Bare EXCEPT
       !.fuel = 24, !.resets = 1,
       !.code = prog(at(64, one(<<csrwAt("pmpaddr", 0, 10), csrwAt("pmpaddr", 1, 14),
                                  csrwAt("pmpaddr", 2, 63),
                                  csrw("pmpcfg", (0 :> NoPmp)
                                       @@ (1 :> [L |-> TRUE, A |-> "tor", perm |-> {"R"}])
                                       @@ (2 :> [L |-> FALSE, A |-> "napot", perm |-> {"R", "W", "X"}])),
                                  csrw("mtvec", 112), csrw("mepc", 96), insn("mret")>>)),
                prog(at(96, <<{ld(32), ld(40), st(36, 1)}, {st(56, 1), st(40, 1), insn("ecall")},
                              {ld(56), insn("ecall")}>>),
                     at(112, <<{csrwAt("pmpaddr", 0, 8), csrwAt("pmpaddr", 1, 15), st(52, 2), ld(36)},
                               {csrw("pmpcfg", (1 :> NoPmp) @@ (0 :> [L |-> TRUE, A |-> "na4", perm |-> {"W"}])),
                                csrw("mstatus", statusU), insn("mret")},
                               {ld(40), insn("mret"), insn("float")}>>)))]

atomics ==
    [Bare EXCEPT
       !.harts = 2, !.fuel = 14,
       !.code = at(64, <<{mo("lr", 32, Zero), insn("nop")},
                         {mo("sc", 32, data(1)), st(32, 2), insn("nop")},
                         {mo("sc", 32, data(3)), mo("amo", 36, data(4)), mo("lr", 36, Zero)},
                         {mo("sc", 32, data(5)), insn("wfi"), insn("fence_i")}, {j(64)}>>)]

counters ==
    [Bare EXCEPT
       !.fuel = 22, !.intrs = (80 :> {"MEI"}),
       !.code = prog(at(64, one(<<csrw("mtvec", 112), csrw("mie", {"MEI", "MSI"}),
                                  csrw("mstatus", [NoStatus EXCEPT !.MIE = TRUE])>>)),
                prog(at(76, <<{insn("nop"), csrr("minstret"), csrw("minstret", 5), insn("ecall"), insn("wfi")},
                              {csrr("minstret"), insn("nop")},
                              {insn("nop"), csrr("mcounteren"), c_nop, csrw("misa", {"S", "U"})},
                              {csrr("instret"), ld(136), csrw("mip", {"SSI"})}>>),
                     at(112, <<{csrw("mie", {"SSI"}), insn("nop"), csrw("minstret", 9)},
                               {csrr("minstret"), csrw("mie", {})}, {insn("mret")}>>)))]

dcsr(step, breaks) == [prv |-> PRV_M, step |-> step, ebreak |-> breaks, halt |-> FALSE, cause |-> "none"]

watch(ops, timing, action) ==
    [dmode |-> FALSE, select |-> FALSE, timing |-> timing, action |-> action, chain |-> FALSE,
     match |-> "equal", modes |-> {PRV_M}, ops |-> ops]

debugging ==
    [Bare EXCEPT
       !.fuel = 13, !.halts = {"regular", "none"},
       !.code = prog(at(64, <<{insn("nop"), insn("ebreak"), ld(32), csrr("mscratch")},
                              {insn("ecall"), st(36, 1), insn("wfi"), c_nop}, {insn("nop")}, {j(64)}>>),
                prog(at(0, <<{csrr("mepc")}>>),
                     at(224, <<{csrw("dscratch0", 1)},
                               {csrw("dcsr", dcsr(TRUE, {})), csrw("dcsr", dcsr(FALSE, {PRV_M})),
                                csrw("tdata1", watch({"load", "store"}, 1, "debug_mode")), insn("dret"), insn("mret")},
                               {csrw("tdata2", 32), insn("dret"), insn("ebreak")}, {insn("dret")}>>)))]

\* User code runs into a breakpoint that is reported after the load or store.
breakpoints ==
    [Bare EXCEPT
       !.fuel = 12,
       !.code = prog(at(64, one(<<csrw("tdata1", [watch({"load", "store"}, 1, "exception") EXCEPT
                                                    !.modes = {PRV_U}]),
                                  csrw("tdata2", 32), csrw("mtvec", 112), csrw("mepc", 96),
                                  insn("mret")>>)),
                prog(at(96, <<{ld(32), st(32, 1), mo("sc", 32, Zero)}, {c_nop}>>),
                     at(112, <<{csrr("mepc")}, {insn("mret")}>>)))]

MCSessions == {paging, protection, atomics, counters, debugging, breakpoints}

\* The hart interrupts itself just before an instruction that is serialized.
selfInterrupt ==
    [Bare EXCEPT
       !.fuel = 16,
       !.code = prog(at(64, one(<<csrw("mtvec", 112), csrw("mie", {"MSI"}),
                                  csrw("mstatus", [NoStatus EXCEPT !.MIE = TRUE]),
                                  st(128, 1), csrr("mscratch")>>)),
                     at(112, one(<<insn("nop"), csrr("minstret")>>)))]

SelfInterrupt == {selfInterrupt}
=============================================================================
