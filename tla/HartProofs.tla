------------------------------ MODULE HartProofs ------------------------------
(***************************************************************************)
(* Theorems about the harts of Spike: minstret is exact, a store-          *)
(* conditional is atomic, single steps are single, locked entries of the   *)
(* PMP stay, and privilege is gained only through a trap.                  *)
(***************************************************************************)
EXTENDS HartSystem, TLAPS

-----------------------------------------------------------------------------
(* Records are described by the fields the properties depend on.            *)

HartFields == {"pc", "prv", "misa", "mstatus", "mepc", "mcause", "mtvec", "sepc", "scause",
               "stvec", "minstret", "dcsr", "debug_mode", "pmpcfg", "pmpaddr", "serialized",
               "single_step", "x", "mip", "dpc", "mtval", "stval"}

StatusFields == {"MIE", "MPIE", "MPP", "SIE", "SPIE", "SPP", "MPRV", "SUM", "MXR", "TVM", "TW",
                 "TSR", "FS"}

Entries == 0 .. max_pmp - 1

\* The modes a hart may be in; the extensions S and U cannot be taken away.
Modes == IF "U" \notin max_isa THEN {PRV_M}
         ELSE IF "S" \notin max_isa THEN {PRV_U, PRV_M} ELSE {PRV_U, PRV_S, PRV_M}

IsaOK(misa) == /\ "U" \in misa <=> "U" \in max_isa
               /\ "S" \in misa <=> "S" \in max_isa

StatusOK(m) == m = [f \in StatusFields |-> m[f]] /\ m.MPP \in 0 .. 3 /\ m.SPP \in {PRV_U, PRV_S}

IsHart(h) == h = [f \in DOMAIN h |-> h[f]] /\ HartFields \subseteq DOMAIN h

DcsrOK(d) == /\ d = [f \in DOMAIN d |-> d[f]] /\ {"prv", "cause", "step"} \subseteq DOMAIN d
             /\ d.prv \in 0 .. 3

FieldOK(f, v) ==
    /\ f = "misa" => IsaOK(v)
    /\ f \in {"pmpcfg", "pmpaddr"} => v = [i \in Entries |-> v[i]]
    /\ f = "prv" => v \in Modes
    /\ f = "mstatus" => StatusOK(v)
    /\ f = "dcsr" => DcsrOK(v)
    /\ f \in {"mtvec", "stvec", "minstret"} => v \in Word
    /\ f \in {"debug_mode", "serialized"} => v \in BOOLEAN

HartOK(h) == IsHart(h) /\ \A f \in HartFields : FieldOK(f, h[f])

MmuFields == {"tag", "data", "icache", "check", "matched_trigger", "load_reservation_address"}

IsMmu(mm) == mm = [f \in MmuFields |-> mm[f]]

\* s is [h, mm], as the functions of Hart take it and return it.
StateOK(s) == s = [h |-> s.h, mm |-> s.mm] /\ HartOK(s.h) /\ IsMmu(s.mm)

\* The fields of h that are not in F are those of g.
Kept(h, g, F) == DOMAIN g = DOMAIN h /\ \A f \in DOMAIN h \ F : g[f] = h[f]

\* What the memory port remembers apart from its caches.
SamePort(mm, nn) ==
    /\ nn.matched_trigger = mm.matched_trigger
    /\ nn.load_reservation_address = mm.load_reservation_address

-----------------------------------------------------------------------------
(* Small facts *)

(* A mode that is written becomes one the hart has.                         *)
LEMMA Legalized ==
    ASSUME NEW h, IsaOK(h.misa), NEW p \in 0 .. 3
    PROVE  /\ legalize_privilege(h, p) \in Modes
           /\ p \in Modes => legalize_privilege(h, p) = p
           /\ legalize_privilege(h, PRV_M) = PRV_M
           /\ p # PRV_M /\ "U" \in max_isa => legalize_privilege(h, p) \in {PRV_U, PRV_S}
  BY DEF legalize_privilege, supports_extension, IsaOK, Modes, PRV_U, PRV_S, PRV_M

(* Every mode is a number from zero to three.                               *)
LEMMA ModesTypes == Modes \subseteq {PRV_U, PRV_S, PRV_M} /\ Modes \subseteq 0 .. 3 /\ PRV_M \in Modes
  BY DEF Modes, PRV_U, PRV_S, PRV_M

(* The fields of the memory port that a flush leaves alone.                 *)
LEMMA Flushes ==
    ASSUME NEW mm, IsMmu(mm)
    PROVE  /\ IsMmu(flush_tlb(mm)) /\ SamePort(mm, flush_tlb(mm))
           /\ IsMmu(flush_icache(mm)) /\ SamePort(mm, flush_icache(mm))
  BY DEF flush_tlb, flush_icache, IsMmu, MmuFields, SamePort

(* A write to one field changes that field.                                 *)
LEMMA Put ==
    ASSUME NEW h, IsHart(h), NEW f \in DOMAIN h, NEW v
    PROVE  /\ IsHart([h EXCEPT ![f] = v]) /\ Kept(h, [h EXCEPT ![f] = v], {f})
           /\ [h EXCEPT ![f] = v][f] = v
  BY DEF IsHart, Kept

(* So do writes to two.                                                     *)
LEMMA PutTwo ==
    ASSUME NEW h, IsHart(h), NEW f \in DOMAIN h, NEW g \in DOMAIN h, f # g, NEW v, NEW w,
           NEW k, k = [h EXCEPT ![f] = v, ![g] = w]
    PROVE  IsHart(k) /\ Kept(h, k, {f, g}) /\ k[f] = v /\ k[g] = w
  BY DEF IsHart, Kept

(* Changes add up.                                                          *)
LEMMA KeptTransitive ==
    ASSUME NEW h, NEW g, NEW k, NEW F, NEW G, Kept(h, g, F), Kept(g, k, G)
    PROVE  Kept(h, k, F \cup G)
  BY DEF Kept

(* The fields that are named exist.                                         *)
LEMMA FieldsExist == ASSUME NEW h, IsHart(h), NEW f \in HartFields PROVE f \in DOMAIN h
  BY DEF IsHart

(* What the fields of a hart hold.                                          *)
LEMMA HartFacts ==
    ASSUME NEW h, HartOK(h)
    PROVE  /\ IsHart(h) /\ IsaOK(h.misa) /\ h.prv \in Modes /\ StatusOK(h.mstatus) /\ DcsrOK(h.dcsr)
           /\ h.mtvec \in Word /\ h.stvec \in Word /\ h.minstret \in Word
           /\ h.debug_mode \in BOOLEAN /\ h.serialized \in BOOLEAN
           /\ h.pmpcfg = [i \in Entries |-> h.pmpcfg[i]]
           /\ h.pmpaddr = [i \in Entries |-> h.pmpaddr[i]]
           /\ h.prv \in 0 .. 3
  BY ModesTypes DEF HartOK, HartFields, FieldOK

(* A hart stays one if the fields that change hold what they should.        *)
LEMMA HartKept ==
    ASSUME NEW h, HartOK(h), NEW g, IsHart(g), NEW F, Kept(h, g, F),
           \A f \in F \cap HartFields : FieldOK(f, g[f])
    PROVE  HartOK(g)
  BY DEF HartOK, IsHart, Kept

-----------------------------------------------------------------------------
(* Privilege and traps *)

\* The fields that a trap writes.
TrapFields == {"pc", "prv", "mstatus", "mepc", "mcause", "mtval", "sepc", "scause", "stval",
               "debug_mode", "dcsr", "dpc"}

(* set_privilege changes the mode and flushes the TLB.                      *)
LEMMA SetsPrivilege ==
    ASSUME NEW s, StateOK(s), NEW p \in 0 .. 3
    PROVE  /\ StateOK(set_privilege(s, p))
           /\ Kept(s.h, set_privilege(s, p).h, {"prv"})
           /\ set_privilege(s, p).h.prv = legalize_privilege(s.h, p)
           /\ SamePort(s.mm, set_privilege(s, p).mm)
<1> DEFINE r == set_privilege(s, p)
<1>1. /\ r = [h |-> [s.h EXCEPT !.prv = legalize_privilege(s.h, p)], mm |-> flush_tlb(s.mm)]
      /\ HartOK(s.h) /\ IsHart(s.h) /\ "prv" \in DOMAIN s.h
  BY HartFacts DEF set_privilege, StateOK, IsHart, HartFields
<1>2. IsHart(r.h) /\ Kept(s.h, r.h, {"prv"}) /\ r.h.prv = legalize_privilege(s.h, p)
  BY <1>1, Put
<1>3. FieldOK("prv", r.h.prv)
  <2>1. IsaOK(s.h.misa)
    BY <1>1, HartFacts
  <2>2. legalize_privilege(s.h, p) \in Modes
    BY <2>1, Legalized
  <2>3. QED
    BY <1>2, <2>2 DEF FieldOK
<1>4. HartOK(r.h)
  BY <1>1, <1>2, <1>3, HartKept
<1>5. QED
  BY <1>1, <1>2, <1>4, Flushes DEF StateOK

(* Entering debug mode, the hart is at the entry of the ROM in machine mode. *)
LEMMA EntersDebugMode ==
    ASSUME NEW s, StateOK(s), NEW cause
    PROVE  /\ StateOK(enter_debug_mode(s, cause))
           /\ Kept(s.h, enter_debug_mode(s, cause).h, {"debug_mode", "dcsr", "prv", "dpc", "pc"})
           /\ enter_debug_mode(s, cause).h.debug_mode = TRUE
           /\ enter_debug_mode(s, cause).h.pc = DEBUG_ROM_ENTRY
           /\ SamePort(s.mm, enter_debug_mode(s, cause).mm)
<1> DEFINE d == [s.h.dcsr EXCEPT !.cause = cause, !.prv = s.h.prv]
           h == [s.h EXCEPT !.debug_mode = TRUE, !.dcsr = d]
           a == [h |-> h, mm |-> s.mm]
           m == set_privilege(a, PRV_M)
           r == enter_debug_mode(s, cause)
<1>1. r = [h |-> [m.h EXCEPT !.dpc = s.h.pc, !.pc = DEBUG_ROM_ENTRY], mm |-> m.mm]
  <2>1. h = [s.h EXCEPT !.debug_mode = TRUE, !.dcsr = [@ EXCEPT !.cause = cause, !.prv = s.h.prv]]
    BY HartFacts DEF StateOK, IsHart, HartFields
  <2>2. QED
    BY <2>1 DEF enter_debug_mode
<1>2. /\ HartOK(s.h) /\ IsHart(s.h) /\ {"debug_mode", "dcsr", "dpc", "pc"} \subseteq DOMAIN s.h
      /\ s.h.prv \in 0 .. 3 /\ PRV_M \in 0 .. 3 /\ DcsrOK(s.h.dcsr)
  BY ModesTypes, HartFacts DEF StateOK, IsHart, HartFields
<1>3. DcsrOK(d)
  BY <1>2 DEF DcsrOK
<1> HIDE DEF d
<1>4. IsHart(h) /\ Kept(s.h, h, {"debug_mode", "dcsr"}) /\ h.debug_mode = TRUE /\ h.dcsr = d
  BY <1>2, PutTwo
<1> HIDE DEF h
<1>5. HartOK(h)
  BY <1>2, <1>3, <1>4, HartKept, ZenonT(40) DEF FieldOK
<1>6. StateOK(a)
  BY <1>5 DEF StateOK
<1>7. StateOK(m) /\ Kept(h, m.h, {"prv"}) /\ SamePort(s.mm, m.mm)
  BY <1>2, <1>6, SetsPrivilege
<1> HIDE DEF m, a
<1>8. HartOK(m.h) /\ IsHart(m.h) /\ "dpc" \in DOMAIN m.h /\ "pc" \in DOMAIN m.h
  BY <1>7, HartFacts DEF StateOK, IsHart, HartFields
<1>9. /\ IsHart(r.h) /\ Kept(m.h, r.h, {"dpc", "pc"}) /\ r.h.pc = DEBUG_ROM_ENTRY
      /\ r = [h |-> r.h, mm |-> m.mm]
  <2> DEFINE k == [m.h EXCEPT !.dpc = s.h.pc, !.pc = DEBUG_ROM_ENTRY]
  <2>1. IsHart(k) /\ Kept(m.h, k, {"dpc", "pc"}) /\ k.pc = DEBUG_ROM_ENTRY
    BY <1>8 DEF IsHart, Kept
  <2> HIDE DEF k
  <2>2. r = [h |-> k, mm |-> m.mm]
    BY <1>1 DEF k
  <2>3. QED
    BY <2>1, <2>2
<1> HIDE DEF r
<1>10. StateOK(r)
  <2>1. HartOK(r.h)
    BY <1>8, <1>9, HartKept DEF FieldOK
  <2>2. QED
    BY <1>7, <1>9, <2>1 DEF StateOK
<1>11. Kept(s.h, r.h, {"debug_mode", "dcsr", "prv", "dpc", "pc"})
  BY <1>4, <1>7, <1>9 DEF Kept
<1>12. r.h.debug_mode = TRUE
  BY <1>2, <1>4, <1>7, <1>9 DEF Kept
<1>13. QED
  BY <1>7, <1>9, <1>10, <1>11, <1>12 DEF r

(* A write to mstatus changes mstatus, and MPP becomes a mode of the hart.  *)
LEMMA SetsMstatus ==
    ASSUME NEW s, StateOK(s), NEW val, StatusOK(val)
    PROVE  LET r == setMstatus(s, val)
           IN  /\ StateOK(r) /\ SamePort(s.mm, r.mm)
               /\ Kept(s.h, r.h, {"mstatus"})
               /\ r.h.mstatus.MPP = legalize_privilege(s.h, val.MPP)
               /\ r.h.mstatus.MIE = val.MIE /\ r.h.mstatus.MPIE = val.MPIE
               /\ "S" \in max_isa => /\ r.h.mstatus.SIE = val.SIE /\ r.h.mstatus.SPIE = val.SPIE
                                     /\ r.h.mstatus.SPP = val.SPP
<1> DEFINE r == setMstatus(s, val)
           new == r.h.mstatus
           old == s.h.mstatus
<1>1. /\ s = [h |-> s.h, mm |-> s.mm] /\ IsHart(s.h) /\ "mstatus" \in DOMAIN s.h /\ IsMmu(s.mm)
      /\ old = [f \in StatusFields |-> old[f]] /\ DOMAIN old = StatusFields
      /\ supports_extension(s.h, "S") <=> "S" \in max_isa
  BY HartFacts DEF StateOK, IsHart, HartFields, StatusOK, IsaOK, supports_extension
<1>2. \E v : r.h = [s.h EXCEPT !.mstatus =
             [f \in DOMAIN old |->
                  IF f = "MPP" THEN legalize_privilege(s.h, val.MPP)
                  ELSE IF f = "FS" THEN v
                  ELSE IF f \in SFields /\ ~supports_extension(s.h, "S") THEN old[f]
                  ELSE val[f]]]
  BY DEF setMstatus
<1>3. r = [h |-> r.h, mm |-> r.mm] /\ (r.mm = s.mm \/ r.mm = flush_tlb(s.mm))
  BY DEF setMstatus
<1> HIDE DEF r
<1>4. /\ new = [f \in StatusFields |-> new[f]]
      /\ new.MPP = legalize_privilege(s.h, val.MPP)
      /\ new.MIE = val.MIE /\ new.MPIE = val.MPIE
      /\ "S" \in max_isa => new.SIE = val.SIE /\ new.SPIE = val.SPIE /\ new.SPP = val.SPP
      /\ new.SPP \in {val.SPP, old.SPP}
  BY <1>1, <1>2 DEF StatusFields, SFields, IsHart
<1>5. StatusOK(new)
  <2>1. /\ old.SPP \in {PRV_U, PRV_S} /\ val.SPP \in {PRV_U, PRV_S} /\ val.MPP \in 0 .. 3
        /\ IsaOK(s.h.misa)
    BY HartFacts DEF StateOK, StatusOK
  <2>2. new.MPP \in 0 .. 3
    BY <1>4, <2>1, Legalized, ModesTypes
  <2>3. QED
    BY <1>4, <2>1, <2>2 DEF StatusOK
<1>6. IsHart(r.h) /\ Kept(s.h, r.h, {"mstatus"})
  BY <1>1, <1>2 DEF IsHart, Kept
<1>7. HartOK(r.h)
  BY <1>5, <1>6, HartKept DEF StateOK, FieldOK
<1>8. IsMmu(r.mm) /\ SamePort(s.mm, r.mm)
  BY <1>1, <1>3, Flushes DEF SamePort
<1>9. QED
  BY <1>3, <1>4, <1>6, <1>7, <1>8 DEF StateOK, r

(* A number that fits the register is not changed by cutting it to size.    *)
LEMMA WordFits == ASSUME NEW a \in Word PROVE a % 2 ^ XLEN = a
  BY WordAssumption DEF Word

(* Cutting to size gives a value of the register.                           *)
LEMMA WordCut == ASSUME NEW a \in Int PROVE a % 2 ^ XLEN \in Word
  BY WordAssumption DEF Word

(* clearBit takes a power of two away or nothing.                           *)
LEMMA BitCleared ==
    ASSUME NEW v \in Word
    PROVE  clearBit(v, 0) \in Word /\ clearBit(v, 1) \in Word
<1>1. v \in Nat /\ 2 ^ 0 = 1 /\ 2 ^ 1 = 2
  BY WordAssumption DEF Word
<1>2. clearBit(v, 0) \in 0 .. v /\ clearBit(v, 1) \in 0 .. v
  BY <1>1 DEF clearBit
<1>3. QED
  BY <1>1, <1>2, WordAssumption DEF Word

(* An exception goes to the base of the vector.                             *)
LEMMA VectorBase ==
    ASSUME NEW h, NEW v \in Word, NEW cause, ~isInterrupt(cause)
    PROVE  vectored(h, v, cause) = clearBit(v, 0)
<1>1. clearBit(v, 0) \in Word /\ clearBit(v, 0) \in Int
  BY BitCleared, WordAssumption DEF Word
<1>2. vectored(h, v, cause) = (clearBit(v, 0) + 0) % 2 ^ XLEN
  BY DEF vectored
<1>3. QED
  BY <1>1, <1>2, WordFits

(* The cause that is reported says whether it is an interrupt.              *)
LEMMA CauseInt == ASSUME NEW cause PROVE isInterrupt(cause) => causeOf(cause).int
  BY DEF causeOf

\* How g, with more privilege than h, has got it.
Gated(h, g, cause, epc) ==
    \/ g.debug_mode /\ g.pc = DEBUG_ROM_ENTRY
    \/ /\ g.prv = PRV_M /\ g.mepc = epc /\ g.mcause = causeOf(cause)
       /\ g.pc = clearBit(h.mtvec, 0) \/ g.mcause.int
       /\ ~g.mstatus.MIE /\ g.mstatus.MPP = h.prv /\ g.mstatus.MPIE = h.mstatus.MIE
    \/ /\ g.prv = PRV_S /\ g.sepc = epc /\ g.scause = causeOf(cause)
       /\ g.pc = clearBit(h.stvec, 0) \/ g.scause.int
       /\ ~g.mstatus.SIE /\ g.mstatus.SPP = h.prv /\ g.mstatus.SPIE = h.mstatus.SIE

\* What a change of state that ends in a trap handler guarantees.
Trapped(s, r, cause, epc) ==
    /\ StateOK(r) /\ SamePort(s.mm, r.mm)
    /\ Kept(s.h, r.h, TrapFields)
    /\ s.h.debug_mode => r.h.debug_mode
    /\ r.h.prv > s.h.prv => Gated(s.h, r.h, cause, epc)

(* A trap to machine mode saves the mode, the pc and MIE.                   *)
LEMMA TrapsToM ==
    ASSUME NEW s, StateOK(s), NEW t, NEW epc
    PROVE  Trapped(s, trapToM(s, t, epc), t.cause, epc)
<1> DEFINE h == s.h
           entered == [h EXCEPT !.pc = vectored(h, h.mtvec, t.cause), !.mcause = causeOf(t.cause),
                                !.mepc = epc, !.mtval = rocketTval(t.tval)]
           status1 == [h.mstatus EXCEPT !.MPIE = h.mstatus.MIE, !.MPP = h.prv, !.MIE = FALSE]
           e == [h |-> entered, mm |-> s.mm]
           m == setMstatus(e, status1)
           r == trapToM(s, t, epc)
<1>1. r = set_privilege(m, PRV_M)
  BY DEF trapToM, Let, StateOK
<1>2. /\ HartOK(h) /\ IsHart(h) /\ h.prv \in Modes /\ h.prv \in 0 .. 3 /\ StatusOK(h.mstatus)
      /\ h.mtvec \in Word /\ {"pc", "mcause", "mepc", "mtval"} \subseteq DOMAIN h
  BY HartFacts DEF StateOK, IsHart, HartFields
<1>3. /\ IsHart(entered) /\ Kept(h, entered, {"pc", "mcause", "mepc", "mtval"})
      /\ entered.pc = vectored(h, h.mtvec, t.cause) /\ entered.mcause = causeOf(t.cause)
      /\ entered.mepc = epc
  BY <1>2 DEF IsHart, Kept
<1>4. /\ StatusOK(status1) /\ status1.MPP = h.prv /\ ~status1.MIE /\ status1.MPIE = h.mstatus.MIE
  BY <1>2 DEF StatusOK, StatusFields
<1> HIDE DEF entered, status1
<1>5. StateOK(e)
  <2>1. HartOK(entered)
    BY <1>2, <1>3, HartKept DEF FieldOK
  <2>2. QED
    BY <2>1 DEF StateOK
<1>6. /\ StateOK(m) /\ SamePort(s.mm, m.mm) /\ Kept(entered, m.h, {"mstatus"})
      /\ m.h.mstatus.MPP = legalize_privilege(entered, h.prv)
      /\ ~m.h.mstatus.MIE /\ m.h.mstatus.MPIE = h.mstatus.MIE
  BY <1>4, <1>5, SetsMstatus
<1> HIDE DEF m
<1>7. PRV_M \in 0 .. 3
  BY DEF PRV_M
<1>8. /\ StateOK(r) /\ Kept(m.h, r.h, {"prv"}) /\ r.h.prv = legalize_privilege(m.h, PRV_M)
      /\ SamePort(m.mm, r.mm)
  BY <1>1, <1>6, <1>7, SetsPrivilege
<1> HIDE DEF r
<1>9. IsaOK(entered.misa) /\ IsaOK(m.h.misa)
  BY <1>5, <1>6, HartFacts DEF StateOK
<1>10. r.h.prv = PRV_M /\ m.h.mstatus.MPP = h.prv
  BY <1>2, <1>6, <1>7, <1>8, <1>9, Legalized
<1>11. /\ Kept(h, r.h, TrapFields) /\ SamePort(s.mm, r.mm)
       /\ r.h.debug_mode = h.debug_mode
       /\ r.h.mepc = epc /\ r.h.mcause = causeOf(t.cause)
       /\ r.h.pc = vectored(h, h.mtvec, t.cause) /\ r.h.mstatus = m.h.mstatus
  BY <1>2, <1>3, <1>6, <1>8 DEF Kept, SamePort, TrapFields, IsHart, HartFields
<1>12. r.h.pc = clearBit(h.mtvec, 0) \/ r.h.mcause.int
  BY <1>2, <1>11, VectorBase, CauseInt
<1>13. Gated(h, r.h, t.cause, epc)
  BY <1>6, <1>10, <1>11, <1>12 DEF Gated
<1>14. QED
  BY <1>8, <1>11, <1>13 DEF Trapped, r

(* A trap to supervisor mode, which only a hart with that mode takes, saves *)
(* the mode, the pc and SIE.                                                *)
LEMMA TrapsToS ==
    ASSUME NEW s, StateOK(s), NEW t, NEW epc, s.h.prv <= PRV_S
    PROVE  Trapped(s, trapToS(s, t, epc), t.cause, epc)
<1> DEFINE h == s.h
           entered == [h EXCEPT !.pc = vectored(h, h.stvec, t.cause), !.scause = causeOf(t.cause),
                                !.sepc = epc, !.stval = t.tval]
           status1 == [h.mstatus EXCEPT !.SPIE = h.mstatus.SIE, !.SPP = h.prv, !.SIE = FALSE]
           e == [h |-> entered, mm |-> s.mm]
           m == setMstatus(e, status1)
           r == trapToS(s, t, epc)
<1>1. r = set_privilege(m, PRV_S)
  BY DEF trapToS, StateOK
<1>2. /\ HartOK(h) /\ IsHart(h) /\ h.prv \in {PRV_U, PRV_S} /\ h.prv \in Modes /\ StatusOK(h.mstatus)
      /\ h.stvec \in Word /\ {"pc", "scause", "sepc", "stval"} \subseteq DOMAIN h
  <2>1. /\ HartOK(h) /\ IsHart(h) /\ h.prv \in Modes /\ StatusOK(h.mstatus) /\ h.stvec \in Word
        /\ {"pc", "scause", "sepc", "stval"} \subseteq DOMAIN h
    BY HartFacts DEF StateOK, IsHart, HartFields
  <2>2. h.prv \in {PRV_U, PRV_S, PRV_M}
    BY <2>1, ModesTypes
  <2>3. h.prv # PRV_M
    BY DEF PRV_S, PRV_M
  <2>4. QED
    BY <2>1, <2>2, <2>3
<1>3. /\ IsHart(entered) /\ Kept(h, entered, {"pc", "scause", "sepc", "stval"})
      /\ entered.pc = vectored(h, h.stvec, t.cause) /\ entered.scause = causeOf(t.cause)
      /\ entered.sepc = epc
  BY <1>2 DEF IsHart, Kept
<1>4. /\ StatusOK(status1) /\ status1.SPP = h.prv /\ ~status1.SIE /\ status1.SPIE = h.mstatus.SIE
  BY <1>2 DEF StatusOK, StatusFields
<1> HIDE DEF entered, status1
<1>5. StateOK(e)
  <2>1. HartOK(entered)
    BY <1>2, <1>3, HartKept DEF FieldOK
  <2>2. QED
    BY <2>1 DEF StateOK
<1>6. /\ StateOK(m) /\ SamePort(s.mm, m.mm) /\ Kept(entered, m.h, {"mstatus"})
      /\ "S" \in max_isa => /\ m.h.mstatus.SPP = h.prv /\ ~m.h.mstatus.SIE
                            /\ m.h.mstatus.SPIE = h.mstatus.SIE
  BY <1>4, <1>5, SetsMstatus
<1> HIDE DEF m
<1>7. PRV_S \in 0 .. 3
  BY DEF PRV_S
<1>8. /\ StateOK(r) /\ Kept(m.h, r.h, {"prv"}) /\ r.h.prv = legalize_privilege(m.h, PRV_S)
      /\ SamePort(m.mm, r.mm)
  BY <1>1, <1>6, <1>7, SetsPrivilege
<1> HIDE DEF r
<1>9. IsaOK(m.h.misa)
  BY <1>6, HartFacts DEF StateOK
<1>10. r.h.prv > h.prv => "S" \in max_isa /\ r.h.prv = PRV_S
  BY <1>2, <1>8, <1>9 DEF legalize_privilege, supports_extension, IsaOK, Modes, PRV_U, PRV_S, PRV_M
<1>11. /\ Kept(h, r.h, TrapFields) /\ SamePort(s.mm, r.mm)
       /\ r.h.debug_mode = h.debug_mode
       /\ r.h.sepc = epc /\ r.h.scause = causeOf(t.cause)
       /\ r.h.pc = vectored(h, h.stvec, t.cause) /\ r.h.mstatus = m.h.mstatus
  BY <1>2, <1>3, <1>6, <1>8 DEF Kept, SamePort, TrapFields, IsHart, HartFields
<1>12. r.h.pc = clearBit(h.stvec, 0) \/ r.h.scause.int
  BY <1>2, <1>11, VectorBase, CauseInt
<1>13. r.h.prv > h.prv => Gated(h, r.h, t.cause, epc)
  BY <1>6, <1>10, <1>11, <1>12 DEF Gated
<1>14. QED
  BY <1>8, <1>11, <1>13 DEF Trapped, r

(* Every field of a trap may be written, the rest is kept.                  *)
LEMMA TakesTrap ==
    ASSUME NEW s, StateOK(s), NEW t, NEW epc
    PROVE  Trapped(s, take_trap(s, t, epc), t.cause, epc)
<1> DEFINE r == take_trap(s, t, epc)
<1>1. HartOK(s.h) /\ IsHart(s.h) /\ "pc" \in DOMAIN s.h /\ s = [h |-> s.h, mm |-> s.mm] /\ s.h.prv \in 0 .. 3
  BY HartFacts DEF StateOK, IsHart, HartFields
<1>2. CASE s.h.debug_mode
  <2> DEFINE pc == IF t.cause = "breakpoint" THEN DEBUG_ROM_ENTRY ELSE DEBUG_ROM_TVEC
             g == [s.h EXCEPT !["pc"] = pc]
  <2>1. r = [h |-> g, mm |-> s.mm]
    BY <1>1, <1>2 DEF take_trap
  <2>2. IsHart(g) /\ Kept(s.h, g, {"pc"})
    BY <1>1, Put
  <2> HIDE DEF g, r
  <2>3. HartOK(g)
    BY <1>1, <2>2, HartKept DEF FieldOK
  <2>4. g.prv = s.h.prv /\ g.debug_mode = s.h.debug_mode /\ Kept(s.h, g, TrapFields)
    BY <1>1, <2>2 DEF Kept, TrapFields, IsHart, HartFields
  <2>5. StateOK(r) /\ SamePort(s.mm, r.mm)
    BY <2>1, <2>3 DEF StateOK, SamePort
  <2>6. ~(r.h.prv > s.h.prv) /\ r.h.debug_mode = s.h.debug_mode /\ Kept(s.h, r.h, TrapFields)
    BY <1>1, <2>1, <2>4
  <2>7. Trapped(s, r, t.cause, epc)
    BY <2>5, <2>6, <1>2 DEF Trapped
  <2>8. QED
    BY <2>7 DEF r
<1>3. CASE r = enter_debug_mode(s, "swbp")
  <2> HIDE DEF r
  <2>1. /\ StateOK(r) /\ SamePort(s.mm, r.mm) /\ r.h.debug_mode = TRUE /\ r.h.pc = DEBUG_ROM_ENTRY
        /\ Kept(s.h, r.h, {"debug_mode", "dcsr", "prv", "dpc", "pc"})
    BY <1>3, EntersDebugMode
  <2>2. Kept(s.h, r.h, TrapFields)
    BY <2>1 DEF Kept, TrapFields
  <2>3. QED
    BY <2>1, <2>2 DEF Trapped, Gated, r
<1>4. CASE r = trapToS(s, t, epc) /\ s.h.prv <= PRV_S
  BY <1>4, TrapsToS
<1>5. CASE r = trapToM(s, t, epc)
  BY <1>5, TrapsToM
<1>6. QED
  BY <1>2, <1>3, <1>4, <1>5 DEF take_trap

\* What the catch clause for traps guarantees.
Caught(s, r, cause, epc) ==
    /\ StateOK(r) /\ SamePort(s.mm, r.mm)
    /\ Kept(s.h, r.h, TrapFields \cup {"single_step"})
    /\ IF s.h.single_step = "stepped" THEN r.h.debug_mode ELSE r.h.single_step = s.h.single_step
    /\ s.h.debug_mode => r.h.debug_mode
    /\ r.h.prv > s.h.prv => Gated(s.h, r.h, cause, epc)

(* A step that ends in a trap ends in debug mode.                           *)
LEMMA Catches ==
    ASSUME NEW s, StateOK(s), NEW t, NEW epc
    PROVE  Caught(s, caught(s, t, epc), t.cause, epc)
<1> DEFINE u == take_trap(s, t, epc)
           v == [h |-> [u.h EXCEPT !["single_step"] = "none"], mm |-> u.mm]
           r == caught(s, t, epc)
<1>1. Trapped(s, u, t.cause, epc)
  BY TakesTrap
<1> HIDE DEF u
<1>2. StateOK(u) /\ u = [h |-> u.h, mm |-> u.mm] /\ HartOK(u.h) /\ IsHart(u.h) /\ IsHart(s.h)
      /\ "single_step" \in DOMAIN u.h /\ "single_step" \in DOMAIN s.h
  BY <1>1, HartFacts DEF Trapped, StateOK, IsHart, HartFields
<1>3. u.h.single_step = s.h.single_step
  BY <1>1, <1>2 DEF Trapped, Kept, TrapFields
<1>4. CASE s.h.single_step # "stepped"
  <2>1. r = u
    BY <1>3, <1>4 DEF caught, Let, u
  <2>2. Kept(s.h, u.h, TrapFields \cup {"single_step"})
    BY <1>1 DEF Kept, Trapped
  <2>3. QED
    BY <1>1, <1>3, <1>4, <2>1, <2>2 DEF Trapped, Caught
<1>5. CASE s.h.single_step = "stepped"
  <2>1. r = enter_debug_mode(v, "step")
    BY <1>2, <1>3, <1>5 DEF caught, Let, u
  <2> DEFINE g == [u.h EXCEPT !["single_step"] = "none"]
  <2>2. IsHart(g) /\ Kept(u.h, g, {"single_step"})
    BY <1>2, Put
  <2> HIDE DEF g
  <2>3. HartOK(g)
    BY <1>2, <2>2, HartKept DEF FieldOK
  <2>4. StateOK(v) /\ v.h = g /\ v.mm = u.mm
    BY <1>2, <2>3 DEF StateOK, g
  <2> HIDE DEF v, r
  <2>5. /\ StateOK(r) /\ SamePort(v.mm, r.mm) /\ r.h.debug_mode = TRUE /\ r.h.pc = DEBUG_ROM_ENTRY
        /\ Kept(v.h, r.h, {"debug_mode", "dcsr", "prv", "dpc", "pc"})
    BY <2>1, <2>4, EntersDebugMode
  <2>6. Kept(s.h, r.h, TrapFields \cup {"single_step"})
    BY <1>1, <2>2, <2>4, <2>5 DEF Kept, Trapped, TrapFields
  <2>7. SamePort(s.mm, r.mm)
    BY <1>1, <2>4, <2>5 DEF Trapped, SamePort
  <2>8. QED
    BY <1>5, <2>5, <2>6, <2>7 DEF Caught, Gated, r
<1>6. QED
  BY <1>4, <1>5

-----------------------------------------------------------------------------
(* Writes to the control and status registers *)

\* The fields that no register stands for.
Stable == {"prv", "single_step", "debug_mode", "serialized", "x", "pc"}

\* What a write to a register other than minstret guarantees.
Written(s, w) ==
    /\ StateOK(w) /\ SamePort(s.mm, w.mm)
    /\ \A f \in Stable : w.h[f] = s.h[f]
    /\ lockedKept(s.h, w.h)
    /\ w.h.minstret = s.h.minstret

(* Registers of the PMP that do not change.                                 *)
LEMMA LockedSame ==
    ASSUME NEW h, NEW g, g.pmpcfg = h.pmpcfg, g.pmpaddr = h.pmpaddr
    PROVE  lockedKept(h, g)
  BY DEF lockedKept

(* An entry that is locked stays locked, so the changes add up.             *)
LEMMA LockedTransitive ==
    ASSUME NEW h, NEW g, NEW k, lockedKept(h, g), lockedKept(g, k)
    PROVE  lockedKept(h, k)
  BY DEF lockedKept

(* Writes add up.                                                           *)
LEMMA WrittenTransitive ==
    ASSUME NEW s, NEW u, NEW w, Written(s, u), Written(u, w)
    PROVE  Written(s, w)
<1>1. lockedKept(s.h, w.h)
  BY LockedTransitive DEF Written
<1>2. QED
  BY <1>1 DEF Written, SamePort

(* A write that is refused.                                                 *)
LEMMA WrittenNothing == ASSUME NEW s, StateOK(s) PROVE Written(s, s)
<1>1. lockedKept(s.h, s.h)
  BY LockedSame
<1>2. QED
  BY <1>1 DEF Written, SamePort

(* A write to a single field.                                               *)
LEMMA WritesField ==
    ASSUME NEW s, StateOK(s), NEW f, f \notin Stable \cup {"pmpcfg", "pmpaddr", "minstret"},
           NEW v, FieldOK(f, v), NEW w, w = [h |-> [s.h EXCEPT ![f] = v], mm |-> w.mm],
           IsMmu(w.mm), SamePort(s.mm, w.mm)
    PROVE  Written(s, w)
<1> DEFINE g == [s.h EXCEPT ![f] = v]
<1>1. w.h = g /\ HartOK(s.h) /\ IsHart(s.h) /\ s = [h |-> s.h, mm |-> s.mm]
  <2>1. w.h = g
    OBVIOUS
  <2>2. HartOK(s.h) /\ s = [h |-> s.h, mm |-> s.mm]
    BY DEF StateOK
  <2>3. QED
    BY <2>1, <2>2, HartFacts
<1>2. IsHart(g) /\ Kept(s.h, g, {f}) /\ (f \in HartFields => g[f] = v)
  BY <1>1 DEF IsHart, Kept
<1> HIDE DEF g
<1>3. HartOK(g)
  BY <1>1, <1>2, HartKept
<1>4. StateOK(w)
  BY <1>1, <1>3 DEF StateOK
<1>5. /\ \A e \in Stable : g[e] = s.h[e]
      /\ g.minstret = s.h.minstret /\ g.pmpcfg = s.h.pmpcfg /\ g.pmpaddr = s.h.pmpaddr
  BY <1>1, <1>2 DEF Kept, Stable, IsHart, HartFields
<1>6. lockedKept(s.h, g)
  BY <1>5, LockedSame
<1>7. QED
  BY <1>1, <1>4, <1>5, <1>6 DEF Written

(* A locked entry keeps its address, and so does the one below a locked     *)
(* top of range.                                                            *)
LEMMA SetsPmpaddr ==
    ASSUME NEW s, StateOK(s), NEW i, NEW val
    PROVE  Written(s, setPmpaddr(s, i, val))
<1> DEFINE w == setPmpaddr(s, i, val)
           v == val % 2 ^ (MAX_PADDR_BITS - PMP_SHIFT)
           new == [s.h.pmpaddr EXCEPT ![i] = v]
           g == [s.h EXCEPT !["pmpaddr"] = new]
<1>1. /\ HartOK(s.h) /\ IsHart(s.h) /\ s = [h |-> s.h, mm |-> s.mm] /\ IsMmu(s.mm)
      /\ HartFields \subseteq DOMAIN s.h
      /\ s.h.pmpaddr = [e \in Entries |-> s.h.pmpaddr[e]]
      /\ n_pmp \in Nat /\ max_pmp \in Nat /\ n_pmp <= max_pmp
  <2>1. n_pmp \in Nat /\ max_pmp \in Nat /\ n_pmp <= max_pmp
    BY PmpAssumption
  <2>2. QED
    BY <2>1, HartFacts DEF StateOK, IsHart
<1>2. CASE w.h = g /\ w = [h |-> w.h, mm |-> flush_tlb(s.mm)] /\ i < n_pmp /\ ~s.h.pmpcfg[i].L
           /\ ~(i + 1 < max_pmp /\ s.h.pmpcfg[i + 1].L /\ s.h.pmpcfg[i + 1].A = "tor")
  <2> HIDE DEF w, v
  <2>1. /\ new = [e \in Entries |-> new[e]] /\ \A e \in Entries : e # i => new[e] = s.h.pmpaddr[e]
    BY <1>1
  <2> HIDE DEF new
  <2>2. IsHart(g) /\ Kept(s.h, g, {"pmpaddr"}) /\ g.pmpaddr = new
    BY <1>1, Put DEF HartFields
  <2> HIDE DEF g
  <2>3. HartOK(g)
    BY <1>1, <2>1, <2>2, HartKept DEF FieldOK
  <2>4. g.pmpcfg = s.h.pmpcfg /\ g.minstret = s.h.minstret /\ \A f \in Stable : g[f] = s.h[f]
    BY <1>1, <2>2 DEF Kept, Stable, HartFields
  <2>5. lockedKept(s.h, g)
    <3> SUFFICES ASSUME NEW e \in 0 .. n_pmp - 1, s.h.pmpcfg[e].L
                 PROVE  /\ g.pmpaddr[e] = s.h.pmpaddr[e]
                        /\ s.h.pmpcfg[e].A = "tor" /\ e > 0 => g.pmpaddr[e - 1] = s.h.pmpaddr[e - 1]
      BY <2>4 DEF lockedKept
    <3>1. e \in Entries /\ e # i /\ e < max_pmp
      BY <1>1, <1>2 DEF Entries
    <3>2. g.pmpaddr[e] = s.h.pmpaddr[e]
      BY <2>1, <2>2, <3>1
    <3>3. ASSUME s.h.pmpcfg[e].A = "tor", e > 0
          PROVE  g.pmpaddr[e - 1] = s.h.pmpaddr[e - 1]
      <4>1. e - 1 \in Entries /\ (e - 1) + 1 = e
        BY <1>1, <3>1, <3>3 DEF Entries
      <4>2. e - 1 # i
        BY <1>2, <3>1, <3>3, <4>1
      <4>3. QED
        BY <2>1, <2>2, <4>1, <4>2
    <3>4. QED
      BY <3>2, <3>3
  <2>6. QED
    BY <1>1, <1>2, <2>3, <2>4, <2>5, Flushes DEF Written, StateOK, w
<1>3. CASE w = [h |-> s.h, mm |-> flush_tlb(s.mm)]
  <2> HIDE DEF w
  <2>1. lockedKept(s.h, w.h)
    BY <1>3, LockedSame
  <2>2. QED
    BY <1>1, <1>3, <2>1, Flushes DEF Written, StateOK, w
<1>4. CASE w = s
  BY <1>4, WrittenNothing
<1>5. QED
  <2>1. g = [s.h EXCEPT !.pmpaddr[i] = v]
    BY <1>1 DEF HartFields
  <2>2. QED
    BY <2>1, <1>2, <1>3, <1>4 DEF setPmpaddr

(* The configuration of a locked entry is kept.                             *)
LEMMA SetsPmpcfg ==
    ASSUME NEW s, StateOK(s), NEW val
    PROVE  Written(s, setPmpcfg(s, val))
<1> DEFINE w == setPmpcfg(s, val)
<1>1. /\ HartOK(s.h) /\ IsHart(s.h) /\ s = [h |-> s.h, mm |-> s.mm] /\ IsMmu(s.mm)
      /\ HartFields \subseteq DOMAIN s.h
      /\ s.h.pmpcfg = [e \in Entries |-> s.h.pmpcfg[e]] /\ DOMAIN s.h.pmpcfg = Entries
      /\ \A i \in 0 .. n_pmp - 1 : i \in Entries
  <2>1. n_pmp \in Nat /\ max_pmp \in Nat /\ n_pmp <= max_pmp
    BY PmpAssumption
  <2>2. \A i \in 0 .. n_pmp - 1 : i \in Entries
    BY <2>1 DEF Entries
  <2>3. QED
    BY <2>2, HartFacts DEF StateOK, IsHart
<1>2. ASSUME n_pmp # 0
      PROVE  \E new : /\ w = [h |-> [s.h EXCEPT !["pmpcfg"] = new], mm |-> flush_tlb(s.mm)]
                      /\ new = [e \in Entries |-> new[e]]
                      /\ \A e \in Entries : s.h.pmpcfg[e].L => new[e] = s.h.pmpcfg[e]
  <2> DEFINE legal(c) == [c EXCEPT !.perm = IF "R" \in @ THEN @ ELSE @ \ {"W"},
                                   !.A = IF lg_pmp_granularity # PMP_SHIFT /\ @ = "na4"
                                         THEN "napot" ELSE @]
             one(e) == IF e < n_pmp /\ ~s.h.pmpcfg[e].L /\ e \in DOMAIN val THEN legal(val[e])
                       ELSE s.h.pmpcfg[e]
             new == [e \in Entries |-> one(e)]
  <2>1. w = [h |-> [s.h EXCEPT !["pmpcfg"] = [e \in DOMAIN s.h.pmpcfg |-> one(e)]], mm |-> flush_tlb(s.mm)]
    BY <1>1, <1>2 DEF setPmpcfg, HartFields
  <2>2. w = [h |-> [s.h EXCEPT !["pmpcfg"] = new], mm |-> flush_tlb(s.mm)]
    BY <1>1, <2>1
  <2>3. \A e \in Entries : s.h.pmpcfg[e].L => new[e] = s.h.pmpcfg[e]
    OBVIOUS
  <2>4. new = [e \in Entries |-> new[e]]
    OBVIOUS
  <2> HIDE DEF new, w
  <2>5. QED
    BY <2>2, <2>3, <2>4
<1>3. CASE n_pmp # 0
  <2> HIDE DEF w
  <2>1. PICK new : /\ w = [h |-> [s.h EXCEPT !["pmpcfg"] = new], mm |-> flush_tlb(s.mm)]
                   /\ new = [e \in Entries |-> new[e]]
                   /\ \A e \in Entries : s.h.pmpcfg[e].L => new[e] = s.h.pmpcfg[e]
    BY <1>2, <1>3
  <2> DEFINE g == [s.h EXCEPT !["pmpcfg"] = new]
  <2>2. IsHart(g) /\ Kept(s.h, g, {"pmpcfg"}) /\ g.pmpcfg = new
    BY <1>1, Put DEF HartFields
  <2>3. w.h = g /\ w = [h |-> w.h, mm |-> flush_tlb(s.mm)]
    BY <2>1
  <2> HIDE DEF g
  <2>4. HartOK(g)
    BY <1>1, <2>1, <2>2, HartKept DEF FieldOK
  <2>5. g.pmpaddr = s.h.pmpaddr /\ g.minstret = s.h.minstret /\ \A f \in Stable : g[f] = s.h[f]
    BY <1>1, <2>2 DEF Kept, Stable, HartFields
  <2>6. lockedKept(s.h, g)
    BY <1>1, <2>1, <2>2, <2>5 DEF lockedKept
  <2>7. QED
    BY <1>1, <2>3, <2>4, <2>5, <2>6, Flushes DEF Written, StateOK, w
<1>4. CASE n_pmp = 0
  BY <1>4, WrittenNothing DEF setPmpcfg
<1>5. QED
  BY <1>3, <1>4

(* The same for several fields.                                             *)
LEMMA WritesFields ==
    ASSUME NEW s, StateOK(s), NEW w, StateOK(w), SamePort(s.mm, w.mm), NEW F,
           F \cap (Stable \cup {"pmpcfg", "pmpaddr", "minstret"}) = {}, Kept(s.h, w.h, F)
    PROVE  Written(s, w)
<1>1. HartFields \subseteq DOMAIN s.h
  BY HartFacts DEF StateOK, IsHart
<1>2. /\ \A e \in Stable : w.h[e] = s.h[e]
      /\ w.h.minstret = s.h.minstret /\ w.h.pmpcfg = s.h.pmpcfg /\ w.h.pmpaddr = s.h.pmpaddr
  BY <1>1 DEF Kept, Stable, HartFields
<1>3. lockedKept(s.h, w.h)
  BY <1>2, LockedSame
<1>4. QED
  BY <1>2, <1>3 DEF Written

(* A write to mstatus.                                                      *)
LEMMA WritesMstatus ==
    ASSUME NEW s, StateOK(s), NEW val, StatusOK(val)
    PROVE  Written(s, setMstatus(s, val))
<1>1. /\ StateOK(setMstatus(s, val)) /\ SamePort(s.mm, setMstatus(s, val).mm)
      /\ Kept(s.h, setMstatus(s, val).h, {"mstatus"})
  BY SetsMstatus
<1>2. QED
  BY <1>1, WritesFields DEF Stable

(* What is written to mstatus has its fields.                               *)
LEMMA OperandStatus == ASSUME NEW val \in status PROVE StatusOK(val)
  BY DEF status, StatusOK, StatusFields, PRV_U, PRV_S

(* A write to sstatus.                                                      *)
LEMMA WritesSstatus ==
    ASSUME NEW s, StateOK(s), NEW val, StatusOK(val)
    PROVE  Written(s, setSstatus(s, val))
<1> DEFINE own == {"SIE", "SPIE", "SPP", "FS", "SUM", "MXR"}
           v == [f \in DOMAIN val |-> IF f \in own THEN val[f] ELSE s.h.mstatus[f]]
<1>1. StatusOK(s.h.mstatus)
  BY HartFacts DEF StateOK
<1>2. StatusOK(v)
  <2>1. DOMAIN val = StatusFields
    BY DEF StatusOK
  <2>2. v = [f \in StatusFields |-> v[f]] /\ v.SPP = val.SPP /\ v.MPP = s.h.mstatus.MPP
    BY <2>1 DEF StatusFields
  <2> HIDE DEF v
  <2>3. QED
    BY <1>1, <2>2 DEF StatusOK
<1>3. setSstatus(s, val) = setMstatus(s, v)
  BY DEF setSstatus
<1>4. QED
  BY <1>2, <1>3, WritesMstatus

(* FS becomes dirty.                                                        *)
LEMMA DirtiesFloat ==
    ASSUME NEW s, StateOK(s)
    PROVE  Written(s, [h |-> dirty_fp_state(s.h), mm |-> s.mm])
<1> DEFINE v == [s.h.mstatus EXCEPT !["FS"] = 3]
<1>1. IsHart(s.h) /\ "mstatus" \in DOMAIN s.h /\ StatusOK(s.h.mstatus) /\ IsMmu(s.mm)
  BY HartFacts DEF StateOK, IsHart, HartFields
<1>2. StatusOK(v)
  BY <1>1 DEF StatusOK, StatusFields
<1>3. dirty_fp_state(s.h) = [s.h EXCEPT !["mstatus"] = v]
  BY <1>1 DEF dirty_fp_state
<1> HIDE DEF v
<1>4. FieldOK("mstatus", v)
  BY <1>2 DEF FieldOK
<1> DEFINE w == [h |-> [s.h EXCEPT !["mstatus"] = v], mm |-> s.mm]
<1>5. w = [h |-> [s.h EXCEPT !["mstatus"] = v], mm |-> w.mm] /\ SamePort(s.mm, w.mm) /\ IsMmu(w.mm)
  BY <1>1 DEF SamePort
<1>6. "mstatus" \notin Stable \cup {"pmpcfg", "pmpaddr", "minstret"}
  BY DEF Stable
<1> HIDE DEF w
<1>7. Written(s, w)
  BY <1>4, <1>5, <1>6, WritesField
<1>8. QED
  BY <1>3, <1>7 DEF w

(* A field without a type, with the caches as they are.                     *)
LEMMA WritesPlain ==
    ASSUME NEW s, StateOK(s), NEW f,
           f \notin Stable \cup {"pmpcfg", "pmpaddr", "minstret", "misa", "mstatus", "dcsr", "mtvec", "stvec"},
           NEW v, NEW mm, mm \in {s.mm, flush_tlb(s.mm)}
    PROVE  Written(s, [h |-> [s.h EXCEPT ![f] = v], mm |-> mm])
<1>1. FieldOK(f, v)
  BY DEF FieldOK, Stable
<1>2. IsMmu(mm) /\ SamePort(s.mm, mm)
  BY Flushes DEF StateOK, SamePort
<1> DEFINE w == [h |-> [s.h EXCEPT ![f] = v], mm |-> mm]
<1>3. w = [h |-> [s.h EXCEPT ![f] = v], mm |-> w.mm] /\ IsMmu(w.mm) /\ SamePort(s.mm, w.mm)
  BY <1>2
<1> HIDE DEF w
<1>4. Written(s, w)
  BY <1>1, <1>3, WritesField
<1>5. QED
  BY <1>4 DEF w

(* A field that has one, with the caches as they are.                       *)
LEMMA WritesTyped ==
    ASSUME NEW s, StateOK(s), NEW f \in {"misa", "dcsr", "mtvec", "stvec"}, NEW v, FieldOK(f, v)
    PROVE  Written(s, [h |-> [s.h EXCEPT ![f] = v], mm |-> s.mm])
<1> DEFINE w == [h |-> [s.h EXCEPT ![f] = v], mm |-> s.mm]
<1>1. w = [h |-> [s.h EXCEPT ![f] = v], mm |-> w.mm] /\ IsMmu(w.mm) /\ SamePort(s.mm, w.mm)
  BY DEF SamePort, StateOK
<1>2. f \notin Stable \cup {"pmpcfg", "pmpaddr", "minstret"}
  BY DEF Stable
<1> HIDE DEF w
<1>3. Written(s, w)
  BY <1>1, <1>2, WritesField
<1>4. QED
  BY <1>3 DEF w

(* The registers of the floating-point unit.                                *)
LEMMA WritesFcsr ==
    ASSUME NEW s, StateOK(s), NEW csr \in {"fflags", "frm", "fcsr"}, NEW val
    PROVE  Written(s, setFcsr(s, csr, val))
<1> DEFINE d == [h |-> dirty_fp_state(s.h), mm |-> s.mm]
           one(f, v) == [h |-> [d.h EXCEPT ![f] = v], mm |-> d.mm]
<1>1. s = [h |-> s.h, mm |-> s.mm]
  BY DEF StateOK
<1>2. Written(s, d) /\ StateOK(d)
  BY DirtiesFloat DEF Written
<1>3. ASSUME NEW u, StateOK(u), NEW f \in {"fflags", "frm"}, NEW v
      PROVE  Written(u, [h |-> [u.h EXCEPT ![f] = v], mm |-> u.mm])
  <2>1. f \notin Stable \cup {"pmpcfg", "pmpaddr", "minstret", "misa", "mstatus", "dcsr", "mtvec", "stvec"}
    BY DEF Stable
  <2>2. QED
    BY <1>3, <2>1, WritesPlain
<1> HIDE DEF d
<1>4. d.h = dirty_fp_state(s.h) /\ d.mm = s.mm
  BY DEF d
<1>5. CASE csr \in {"fflags", "frm"}
  <2>1. CASE csr = "fflags"
    <3>1. setFcsr(s, csr, val) = [h |-> [d.h EXCEPT !["fflags"] = val % 32], mm |-> d.mm]
      BY <1>1, <1>4, <2>1 DEF setFcsr
    <3>2. QED
      BY <1>2, <1>3, <3>1, WrittenTransitive
  <2>2. CASE csr = "frm"
    <3>1. setFcsr(s, csr, val) = [h |-> [d.h EXCEPT !["frm"] = val % 8], mm |-> d.mm]
      BY <1>1, <1>4, <2>2 DEF setFcsr
    <3>2. QED
      BY <1>2, <1>3, <3>1, WrittenTransitive
  <2>3. QED
    BY <1>5, <2>1, <2>2
<1>6. CASE csr = "fcsr"
  <2> DEFINE v == val % 32
             r == (val \div 32) % 8
             u == [h |-> [d.h EXCEPT !["fflags"] = v], mm |-> d.mm]
             w == [h |-> [u.h EXCEPT !["frm"] = r], mm |-> u.mm]
  <2>1. setFcsr(s, csr, val) = w
    <3>1. setFcsr(s, csr, val) =
              [s EXCEPT !.h = [d.h EXCEPT !["fflags"] = val % 32, !["frm"] = (val \div 32) % 8]]
      BY <1>4, <1>6 DEF setFcsr
    <3>2. QED
      BY <1>1, <1>4, <3>1
  <2> HIDE DEF v, r
  <2>2. Written(d, u)
    BY <1>2, <1>3
  <2> HIDE DEF u
  <2>3. Written(u, w)
    BY <1>3, <2>2 DEF Written
  <2> HIDE DEF w
  <2>4. QED
    BY <1>2, <2>1, <2>2, <2>3, WrittenTransitive
<1>7. QED
  BY <1>5, <1>6

(* Interrupts that are pending, enabled or delegated.                       *)
LEMMA WritesInterrupts ==
    ASSUME NEW s, StateOK(s), NEW csr \in {"mip", "mie", "mideleg", "sip", "sie"}, NEW val
    PROVE  Written(s, setInterrupts(s, csr, val))
<1>1. s = [h |-> s.h, mm |-> s.mm]
  BY DEF StateOK
<1>2. ASSUME NEW f \in {"mip", "mie", "mideleg"}, NEW v
      PROVE  Written(s, [h |-> [s.h EXCEPT ![f] = v], mm |-> s.mm])
  <2>1. f \notin Stable \cup {"pmpcfg", "pmpaddr", "minstret", "misa", "mstatus", "dcsr", "mtvec", "stvec"}
    BY DEF Stable
  <2>2. QED
    BY <2>1, WritesPlain
<1>3. CASE csr = "mip"
  <2>1. setInterrupts(s, csr, val) = [h |-> [s.h EXCEPT !["mip"] = under(s.h.mip, val, supervisor_ints(s.h))], mm |-> s.mm]
    BY <1>1, <1>3 DEF setInterrupts
  <2>2. QED
    BY <1>2, <2>1
<1>4. CASE csr = "mie"
  <2>1. setInterrupts(s, csr, val) = [h |-> [s.h EXCEPT !["mie"] = under(s.h.mie, val, supervisor_ints(s.h) \cup {"MSI", "MTI", "MEI"})], mm |-> s.mm]
    BY <1>1, <1>4 DEF setInterrupts
  <2>2. QED
    BY <1>2, <2>1
<1>5. CASE csr = "mideleg"
  <2>1. setInterrupts(s, csr, val) = [h |-> [s.h EXCEPT !["mideleg"] = under(s.h.mideleg, val, supervisor_ints(s.h))], mm |-> s.mm]
    BY <1>1, <1>5 DEF setInterrupts
  <2>2. QED
    BY <1>2, <2>1
<1>6. CASE csr = "sip"
  <2>1. setInterrupts(s, csr, val) = [h |-> [s.h EXCEPT !["mip"] = under(s.h.mip, val, s.h.mideleg \cap {"SSI"})], mm |-> s.mm]
    BY <1>1, <1>6 DEF setInterrupts
  <2>2. QED
    BY <1>2, <2>1
<1>7. CASE csr = "sie"
  <2>1. setInterrupts(s, csr, val) = [h |-> [s.h EXCEPT !["mie"] = under(s.h.mie, val, s.h.mideleg)], mm |-> s.mm]
    BY <1>1, <1>7 DEF setInterrupts
  <2>2. QED
    BY <1>2, <2>1
<1>8. QED
  BY <1>3, <1>4, <1>5, <1>6, <1>7

(* The triggers.                                                            *)
LEMMA WritesTriggers ==
    ASSUME NEW s, StateOK(s), NEW val
    PROVE  /\ Written(s, setTselect(s, val))
           /\ Written(s, setTdata1(s, val))
           /\ Written(s, setTdata2(s, val))
<1>1. s = [h |-> s.h, mm |-> s.mm] /\ IsMmu(s.mm)
  BY DEF StateOK
<1>2. Written(s, s)
  BY WrittenNothing
<1>3. Written(s, setTselect(s, val))
  <2>1. "tselect" \notin Stable \cup {"pmpcfg", "pmpaddr", "minstret", "misa", "mstatus", "dcsr", "mtvec", "stvec"}
    BY DEF Stable
  <2>2. Written(s, [h |-> [s.h EXCEPT !["tselect"] = val], mm |-> s.mm])
    BY <2>1, WritesPlain
  <2>3. QED
    BY <1>1, <1>2, <2>2 DEF setTselect
<1>4. Written(s, setTdata1(s, val))
  <2> DEFINE mc == IF "fetch" \in val.ops THEN [val EXCEPT !.timing = 0] ELSE val
             v == [s.h.mcontrol EXCEPT ![s.h.tselect] = mc]
             h == [s.h EXCEPT !["mcontrol"] = v]
             w == [h |-> h, mm |-> trigger_updated(h, s.mm)]
  <2>1. setTdata1(s, val) \in {s, w}
    BY DEF setTdata1
  <2>2. IsMmu(trigger_updated(h, s.mm)) /\ SamePort(s.mm, trigger_updated(h, s.mm))
    <3>1. IsMmu(flush_tlb(s.mm)) /\ SamePort(s.mm, flush_tlb(s.mm))
      BY <1>1, Flushes
    <3> HIDE DEF h
    <3>2. QED
      BY <3>1 DEF trigger_updated, IsMmu, MmuFields, SamePort
  <2>3. "mcontrol" \notin Stable \cup {"pmpcfg", "pmpaddr", "minstret"} /\ FieldOK("mcontrol", v)
    BY DEF Stable, FieldOK
  <2> HIDE DEF v
  <2>4. w = [h |-> [s.h EXCEPT !["mcontrol"] = v], mm |-> w.mm] /\ IsMmu(w.mm) /\ SamePort(s.mm, w.mm)
    BY <2>2
  <2> HIDE DEF w
  <2>5. Written(s, w)
    BY <2>3, <2>4, WritesField
  <2>6. QED
    BY <1>2, <2>1, <2>5
<1>5. Written(s, setTdata2(s, val))
  <2> DEFINE v == [s.h.tdata2 EXCEPT ![s.h.tselect] = val]
  <2>1. setTdata2(s, val) \in {s, [h |-> [s.h EXCEPT !["tdata2"] = v], mm |-> s.mm]}
    BY <1>1 DEF setTdata2
  <2>2. "tdata2" \notin Stable \cup {"pmpcfg", "pmpaddr", "minstret", "misa", "mstatus", "dcsr", "mtvec", "stvec"}
    BY DEF Stable
  <2> HIDE DEF v
  <2>3. Written(s, [h |-> [s.h EXCEPT !["tdata2"] = v], mm |-> s.mm])
    BY <2>2, WritesPlain
  <2>4. QED
    BY <1>2, <2>1, <2>3
<1>6. QED
  BY <1>3, <1>4, <1>5

\* Registers that are one field, which may hold anything.
PlainCsrs == {"medeleg", "mcounteren", "scounteren", "mepc", "sepc", "mcause", "scause", "mscratch",
              "sscratch", "mtval", "stval", "dpc", "dscratch0", "dscratch1"}

(* The rest.                                                                *)
LEMMA WritesRest ==
    ASSUME NEW s, StateOK(s), NEW csr, NEW i, NEW val, operand(csr, val),
           csr \in PlainCsrs \cup {"satp", "mtvec", "stvec", "misa", "dcsr"}
    PROVE  Written(s, set_csr(s, csr, i, val))
<1>1. s = [h |-> s.h, mm |-> s.mm] /\ HartOK(s.h)
  BY DEF StateOK
<1>2. CASE csr \in PlainCsrs
  <2>1. \E v : set_csr(s, csr, i, val) = [h |-> [s.h EXCEPT ![csr] = v], mm |-> s.mm]
    BY <1>1, <1>2 DEF PlainCsrs, set_csr, setMedeleg, setCounteren, setEpc, setCause, setPlain, setDebug
  <2>2. csr \notin Stable \cup {"pmpcfg", "pmpaddr", "minstret", "misa", "mstatus", "dcsr", "mtvec", "stvec"}
    BY <1>2 DEF Stable, PlainCsrs
  <2>3. QED
    BY <2>1, <2>2, WritesPlain
<1>3. CASE csr = "satp"
  <2>1. \E v : set_csr(s, csr, i, val) = [h |-> [s.h EXCEPT !["satp"] = v], mm |-> flush_tlb(s.mm)]
    BY <1>1, <1>3 DEF set_csr, setSatp
  <2>2. "satp" \notin Stable \cup {"pmpcfg", "pmpaddr", "minstret", "misa", "mstatus", "dcsr", "mtvec", "stvec"}
    BY DEF Stable
  <2>3. QED
    BY <2>1, <2>2, WritesPlain
<1>4. CASE csr \in {"mtvec", "stvec"}
  <2>1. set_csr(s, csr, i, val) = [h |-> [s.h EXCEPT ![csr] = clearBit(val, 1)], mm |-> s.mm]
    BY <1>1, <1>4 DEF set_csr, setTvec
  <2>2. val \in Word
    BY <1>4 DEF operand
  <2>3. clearBit(val, 1) \in Word
    BY <2>2, BitCleared
  <2>4. FieldOK(csr, clearBit(val, 1))
    BY <1>4, <2>3 DEF FieldOK
  <2>5. QED
    BY <1>4, <2>1, <2>4, WritesTyped
<1>5. CASE csr = "misa"
  <2>1. IsaOK(s.h.misa)
    BY <1>1, HartFacts
  <2> DEFINE v == under(s.h.misa, IF "F" \in val THEN val ELSE val \ {"D"}, {"M", "A", "F", "D", "C"} \cap max_isa)
  <2>2. set_csr(s, csr, i, val) \in {s, [h |-> [s.h EXCEPT !["misa"] = v], mm |-> s.mm]}
    BY <1>1, <1>5 DEF set_csr, setMisa
  <2>3. IsaOK(v)
    BY <2>1 DEF IsaOK, under
  <2> HIDE DEF v
  <2>4. FieldOK("misa", v)
    BY <2>3 DEF FieldOK
  <2>5. Written(s, [h |-> [s.h EXCEPT !["misa"] = v], mm |-> s.mm])
    BY <2>4, WritesTyped
  <2>6. QED
    BY <2>2, <2>5, WrittenNothing
<1>6. CASE csr = "dcsr"
  <2> DEFINE v == [val EXCEPT !.cause = s.h.dcsr.cause]
  <2>1. set_csr(s, csr, i, val) = [h |-> [s.h EXCEPT !["dcsr"] = v], mm |-> s.mm]
    BY <1>1, <1>6 DEF set_csr, setDebug
  <2>2. DcsrOK(v)
    BY <1>6 DEF operand, DcsrOK
  <2> HIDE DEF v
  <2>3. FieldOK("dcsr", v)
    BY <2>2 DEF FieldOK
  <2>4. QED
    BY <2>1, <2>3, WritesTyped
<1>7. QED
  BY <1>2, <1>3, <1>4, <1>5, <1>6

(* A write to any register but minstret.                                    *)
LEMMA WritesCsr ==
    ASSUME NEW s, StateOK(s), NEW csr, csr # "minstret", NEW i, NEW val, operand(csr, val)
    PROVE  Written(s, set_csr(s, csr, i, val))
<1>1. CASE csr \in PlainCsrs \cup {"satp", "mtvec", "stvec", "misa", "dcsr"}
  BY <1>1, WritesRest
<1>2. CASE csr = "pmpaddr"
  BY <1>2, SetsPmpaddr DEF set_csr
<1>3. CASE csr = "pmpcfg"
  BY <1>3, SetsPmpcfg DEF set_csr
<1>4. CASE csr \in {"fflags", "frm", "fcsr"}
  BY <1>4, WritesFcsr DEF set_csr
<1>5. CASE csr = "mstatus"
  <2>1. StatusOK(val)
    BY <1>5, OperandStatus DEF operand
  <2>2. QED
    BY <1>5, <2>1, WritesMstatus DEF set_csr
<1>6. CASE csr = "sstatus"
  <2>1. StatusOK(val)
    BY <1>6, OperandStatus DEF operand
  <2>2. QED
    BY <1>6, <2>1, WritesSstatus DEF set_csr
<1>7. CASE csr \in {"mip", "mie", "mideleg", "sip", "sie"}
  BY <1>7, WritesInterrupts DEF set_csr
<1>8. CASE csr \in {"tselect", "tdata1", "tdata2"}
  BY <1>8, WritesTriggers DEF set_csr
<1>9. QED
  <2>1. set_csr(s, csr, i, val) = s
           \/ csr \in PlainCsrs \cup {"satp", "mtvec", "stvec", "misa", "dcsr", "pmpaddr", "pmpcfg", "fflags",
                       "frm", "fcsr", "mstatus", "sstatus", "mip", "mie", "mideleg", "sip", "sie",
                       "tselect", "tdata1", "tdata2"}
    BY DEF set_csr, PlainCsrs
  <2>2. QED
    BY <2>1, <1>1, <1>2, <1>3, <1>4, <1>5, <1>6, <1>7, <1>8, WrittenNothing

(* minstret is set to one less, since its own instruction is still to be    *)
(* counted.                                                                 *)
LEMMA WritesMinstret ==
    ASSUME NEW s, StateOK(s), NEW val \in Word, NEW i,
           NEW w, w = set_csr(s, "minstret", i, val)
    PROVE  /\ StateOK(w) /\ w.mm = s.mm /\ Kept(s.h, w.h, {"minstret"})
           /\ w.h.minstret = (val + 2 ^ XLEN - 1) % 2 ^ XLEN
<1> DEFINE v == (val + 2 ^ XLEN - 1) % 2 ^ XLEN
           g == [s.h EXCEPT !["minstret"] = v]
<1>1. s = [h |-> s.h, mm |-> s.mm] /\ HartOK(s.h) /\ IsMmu(s.mm)
  BY DEF StateOK
<1>2. w = [h |-> g, mm |-> s.mm]
  BY <1>1 DEF set_csr, setMinstret
<1>3. v \in Word
  <2>1. val + 2 ^ XLEN - 1 \in Int
    BY WordAssumption DEF Word
  <2>2. QED
    BY <2>1, WordCut
<1> HIDE DEF v
<1>4. IsHart(s.h) /\ "minstret" \in DOMAIN s.h
  BY <1>1, HartFacts DEF IsHart, HartFields
<1>5. IsHart(g) /\ Kept(s.h, g, {"minstret"}) /\ g.minstret = v
  BY <1>4, Put
<1> HIDE DEF g
<1>6. HartOK(g)
  BY <1>1, <1>3, <1>5, HartKept DEF FieldOK
<1>7. QED
  BY <1>1, <1>2, <1>5, <1>6 DEF StateOK, v

-----------------------------------------------------------------------------
(* Instructions *)

CsrOps == {"csrrw", "csrr"}
MemOps == {"load", "store", "amo", "lr", "sc"}

\* A reservation outlives an instruction that fails or is none of its own.
Reserves(s, insn, r) ==
    /\ insn.op \notin {"lr", "sc"} \/ failed(r) =>
           r.mm.load_reservation_address = s.mm.load_reservation_address
    /\ insn.op = "sc" /\ ~failed(r) =>
           /\ r.mm.load_reservation_address = -1
           /\ r.h.x = 0 => s.mm.load_reservation_address \in 0 .. MemSize - 1

\* The match of a trigger is reported by the memory instructions, once.
Matches(s, insn, r) ==
    /\ r.thrown = NoMatch => r.mm.matched_trigger = s.mm.matched_trigger
    /\ r.thrown # NoMatch => /\ insn.op \in MemOps /\ r.trap = NoTrap
                             /\ s.mm.matched_trigger = NoMatch

\* The pipe is serialized before, and no longer after, an access to a register.
Serializes(s, insn, r) ==
    /\ r.kind \in {"plain", "before", "after", "wfi"}
    /\ r.kind = "before" => insn.op \in CsrOps /\ ~failed(r) /\ ~s.h.serialized /\ r.h = s.h
    /\ r.kind = "wfi" => insn.op = "wfi"
    /\ insn.op \in CsrOps /\ r.kind # "before" => s.h.serialized /\ ~r.h.serialized
    /\ insn.op \in CsrOps /\ ~failed(r) => r.kind \in {"before", "after"}
    /\ insn.op \notin CsrOps => r.h.serialized = s.h.serialized
    /\ insn.op \in MemOps => r.kind = "plain"

\* What is written to and read from minstret.
Counts(s, insn, r) ==
    /\ insn.op = "csrrw" /\ insn.csr = "minstret" /\ r.kind = "after" =>
           r.h.minstret = (insn.val + 2 ^ XLEN - 1) % 2 ^ XLEN
    /\ ~(insn.op = "csrrw" /\ insn.csr = "minstret" /\ r.kind = "after") =>
           r.h.minstret = s.h.minstret
    /\ insn.op = "csrr" /\ insn.csr \in {"minstret", "instret"} /\ r.kind = "after" =>
           r.h.x = s.h.minstret

\* Only dret leaves debug mode and starts a step.
Steps(s, insn, r) ==
    /\ insn.op # "dret" => r.h.single_step = s.h.single_step /\ r.h.debug_mode = s.h.debug_mode
    /\ insn.op = "dret" /\ ~failed(r) =>
           /\ s.h.debug_mode /\ ~r.h.debug_mode
           /\ r.h.single_step = IF s.h.dcsr.step THEN "stepping" ELSE s.h.single_step

\* What an instruction guarantees.
Executes(s, insn, r) ==
    /\ HartOK(r.h) /\ IsMmu(r.mm) /\ lockedKept(s.h, r.h)
    /\ r.h.prv > s.h.prv => s.h.debug_mode
    /\ failed(r) => Kept(s.h, r.h, {"serialized"})
    /\ insn.op \in MemOps => Kept(s.h, r.h, {"x"})
    /\ Reserves(s, insn, r)
    /\ Matches(s, insn, r)
    /\ Serializes(s, insn, r)
    /\ Counts(s, insn, r)
    /\ Steps(s, insn, r)

(* An exception changes nothing.                                            *)
LEMMA Raises ==
    ASSUME NEW s, StateOK(s), NEW m, NEW cause, cause # "none", NEW tval,
           NEW insn, insn.op \notin CsrOps
    PROVE  Executes(s, insn, raise(s, m, cause, tval))
<1> DEFINE r == raise(s, m, cause, tval)
<1>1. r.h = s.h /\ r.mm = s.mm /\ r.trap # NoTrap /\ r.thrown = NoMatch /\ r.kind = "plain"
  BY DEF raise, done, throw, NoTrap
<1> HIDE DEF r
<1>2. HartOK(s.h) /\ IsMmu(s.mm) /\ s.h.prv \in 0 .. 3
  BY HartFacts DEF StateOK
<1>3. lockedKept(s.h, r.h)
  BY <1>1, LockedSame
<1>4. Kept(s.h, r.h, {"serialized"}) /\ Kept(s.h, r.h, {"x"}) /\ failed(r)
  BY <1>1 DEF Kept, failed
<1>5. Reserves(s, insn, r) /\ Matches(s, insn, r)
  BY <1>1, <1>4 DEF Reserves, Matches
<1>6. Serializes(s, insn, r) /\ Counts(s, insn, r)
  BY <1>1, <1>4 DEF Serializes, Counts
<1>7. Steps(s, insn, r)
  BY <1>1, <1>4 DEF Steps
<1>8. ~(r.h.prv > s.h.prv)
  BY <1>1, <1>2
<1>9. QED
  BY <1>1, <1>2, <1>3, <1>4, <1>5, <1>6, <1>7, <1>8 DEF Executes, r

(* An instruction that writes nothing the properties depend on.             *)
LEMMA ExecutesPlainly ==
    ASSUME NEW s, StateOK(s), NEW insn, insn.op \notin CsrOps \cup MemOps \cup {"dret"},
           NEW r, r.kind = "plain" \/ (r.kind = "wfi" /\ insn.op = "wfi"),
           r.trap = NoTrap, r.thrown = NoMatch,
           StateOK([h |-> r.h, mm |-> r.mm]), SamePort(s.mm, r.mm), lockedKept(s.h, r.h),
           r.h.minstret = s.h.minstret, \A f \in Stable \ {"pc"} : r.h[f] = s.h[f]
    PROVE  Executes(s, insn, r)
<1>1. ~failed(r) /\ HartOK(r.h) /\ IsMmu(r.mm)
  BY DEF failed, StateOK
<1>2. /\ r.h.prv = s.h.prv /\ r.h.single_step = s.h.single_step /\ r.h.debug_mode = s.h.debug_mode
      /\ r.h.serialized = s.h.serialized
  BY DEF Stable
<1>3. ~(r.h.prv > s.h.prv)
  <2>1. s.h.prv \in 0 .. 3
    BY HartFacts DEF StateOK
  <2>2. QED
    BY <1>2, <2>1
<1>4. Reserves(s, insn, r) /\ Matches(s, insn, r)
  BY <1>1 DEF Reserves, Matches, SamePort, MemOps
<1>5. Serializes(s, insn, r)
  BY <1>1, <1>2 DEF Serializes
<1>6. Counts(s, insn, r)
  BY DEF Counts, CsrOps
<1>7. Steps(s, insn, r)
  BY <1>1, <1>2 DEF Steps
<1>8. QED
  BY <1>1, <1>3, <1>4, <1>5, <1>6, <1>7 DEF Executes

(* What serializeAt returns.                                                *)
LEMMA SerializedAt ==
    ASSUME NEW s, StateOK(s), NEW m, NEW pc, NEW r, r = serializeAt(s, m, pc)
    PROVE  /\ StateOK([h |-> r.h, mm |-> r.mm]) /\ Kept(s.h, r.h, {"pc"}) /\ r.mm = s.mm
           /\ r.trap = NoTrap /\ r.thrown = NoMatch /\ r.kind = "after"
<1> DEFINE v == pcAligned(s.h, pc)
           g == [s.h EXCEPT !["pc"] = v]
<1>1. s = [h |-> s.h, mm |-> s.mm] /\ HartOK(s.h) /\ IsHart(s.h) /\ "pc" \in DOMAIN s.h /\ IsMmu(s.mm)
  BY HartFacts DEF StateOK, IsHart, HartFields
<1>2. r.h = g /\ r.mm = s.mm /\ r.trap = NoTrap /\ r.thrown = NoMatch /\ r.kind = "after"
  BY <1>1 DEF serializeAt, done
<1> HIDE DEF v
<1>3. IsHart(g) /\ Kept(s.h, g, {"pc"})
  BY <1>1, Put
<1> HIDE DEF g
<1>4. HartOK(g)
  BY <1>1, <1>3, HartKept DEF FieldOK
<1>5. QED
  BY <1>1, <1>2, <1>3, <1>4 DEF StateOK

(* A return from a trap does not raise the mode.                            *)
LEMMA Returns ==
    ASSUME NEW s, StateOK(s), NEW insn, insn.op \notin CsrOps \cup MemOps \cup {"dret"},
           NEW val, StatusOK(val), NEW p \in 0 .. 3, legalize_privilege(s.h, p) <= s.h.prv,
           NEW m, NEW pc,
           NEW r, r = serializeAt(set_privilege(setMstatus(s, val), p), m, pc)
    PROVE  Executes(s, insn, r)
<1> DEFINE u == setMstatus(s, val)
           w == set_privilege(u, p)
<1>1. StateOK(u) /\ SamePort(s.mm, u.mm) /\ Kept(s.h, u.h, {"mstatus"})
  BY SetsMstatus
<1> HIDE DEF u
<1>2. /\ StateOK(w) /\ SamePort(u.mm, w.mm) /\ Kept(u.h, w.h, {"prv"})
      /\ w.h.prv = legalize_privilege(u.h, p)
  BY <1>1, SetsPrivilege
<1> HIDE DEF w
<1>3. /\ StateOK([h |-> r.h, mm |-> r.mm]) /\ Kept(w.h, r.h, {"pc"}) /\ r.mm = w.mm
      /\ r.trap = NoTrap /\ r.thrown = NoMatch /\ r.kind = "after"
  BY <1>2, SerializedAt DEF u, w
<1>4. /\ HartFields \subseteq DOMAIN s.h
      /\ HartOK(r.h) /\ IsMmu(r.mm) /\ SamePort(s.mm, r.mm) /\ ~failed(r)
  BY <1>1, <1>2, <1>3, HartFacts DEF StateOK, IsHart, SamePort, failed
<1>5. /\ Kept(s.h, r.h, {"mstatus", "prv", "pc"})
      /\ r.h.prv = w.h.prv /\ u.h.misa = s.h.misa
  BY <1>1, <1>2, <1>3, <1>4 DEF Kept, HartFields
<1>6. /\ r.h.minstret = s.h.minstret /\ r.h.pmpcfg = s.h.pmpcfg /\ r.h.pmpaddr = s.h.pmpaddr
      /\ r.h.single_step = s.h.single_step /\ r.h.debug_mode = s.h.debug_mode
      /\ r.h.serialized = s.h.serialized
  BY <1>4, <1>5 DEF Kept, HartFields
<1>7. ~(r.h.prv > s.h.prv)
  <2>1. legalize_privilege(u.h, p) = legalize_privilege(s.h, p)
    BY <1>5 DEF legalize_privilege, supports_extension
  <2>2. s.h.prv \in 0 .. 3 /\ r.h.prv \in 0 .. 3
    BY <1>4, HartFacts DEF StateOK
  <2>3. QED
    BY <1>2, <1>5, <2>1, <2>2
<1>8. lockedKept(s.h, r.h)
  BY <1>6, LockedSame
<1>9. Reserves(s, insn, r) /\ Matches(s, insn, r)
  BY <1>3, <1>4 DEF Reserves, Matches, SamePort, MemOps
<1>10. Serializes(s, insn, r)
  BY <1>3, <1>4, <1>6 DEF Serializes
<1>11. Counts(s, insn, r) /\ Steps(s, insn, r)
  BY <1>6 DEF Counts, Steps, CsrOps
<1>12. QED
  BY <1>4, <1>7, <1>8, <1>9, <1>10, <1>11 DEF Executes

(* MRET returns to a mode the hart has.                                     *)
LEMMA ExecutesMret ==
    ASSUME NEW s, StateOK(s), NEW m, NEW insn, insn.op = "mret"
    PROVE  Executes(s, insn, mret(s, m))
<1> DEFINE val == [s.h.mstatus EXCEPT !.MIE = s.h.mstatus.MPIE, !.MPIE = TRUE, !.MPP = PRV_U]
           p == s.h.mstatus.MPP
<1>1. StatusOK(s.h.mstatus) /\ s.h.prv \in Modes /\ s.h.prv \in 0 .. 3 /\ IsaOK(s.h.misa) /\ p \in 0 .. 3
  BY HartFacts DEF StateOK, StatusOK
<1>2. StatusOK(val)
  <2>1. val = [f \in StatusFields |-> val[f]] /\ val.SPP = s.h.mstatus.SPP /\ val.MPP = PRV_U
    BY <1>1 DEF StatusOK, StatusFields
  <2>2. s.h.mstatus.SPP \in {PRV_U, PRV_S}
    BY <1>1 DEF StatusOK
  <2> HIDE DEF val
  <2>3. val.MPP \in 0 .. 3
    BY <2>1 DEF PRV_U
  <2>4. QED
    BY <2>1, <2>2, <2>3 DEF StatusOK
<1>3. insn.op \notin CsrOps \cup MemOps \cup {"dret"}
  BY DEF CsrOps, MemOps
<1>4. CASE mret(s, m) = raise(s, m, "illegal_instruction", 0)
  BY <1>3, <1>4, Raises
<1>5. CASE mret(s, m) = serializeAt(set_privilege(setMstatus(s, val), p), m, s.h.mepc) /\ ~(s.h.prv < PRV_M)
  <2>1. legalize_privilege(s.h, p) \in Modes
    BY <1>1, Legalized
  <2>2. legalize_privilege(s.h, p) <= s.h.prv
    BY <1>1, <1>5, <2>1, ModesTypes DEF PRV_M
  <2> HIDE DEF val, p
  <2>3. QED
    BY <1>1, <1>2, <1>3, <1>5, <2>2, Returns
<1>6. QED
  BY <1>4, <1>5 DEF mret, Let, illegal

(* SRET returns to S or U.                                                  *)
LEMMA ExecutesSret ==
    ASSUME NEW s, StateOK(s), NEW m, NEW insn, insn.op = "sret"
    PROVE  Executes(s, insn, sret(s, m))
<1> DEFINE val == [s.h.mstatus EXCEPT !.SIE = s.h.mstatus.SPIE, !.SPIE = TRUE, !.SPP = PRV_U]
           p == s.h.mstatus.SPP
<1>1. StatusOK(s.h.mstatus) /\ s.h.prv \in Modes /\ s.h.prv \in 0 .. 3 /\ IsaOK(s.h.misa) /\ p \in {PRV_U, PRV_S}
  BY HartFacts DEF StateOK, StatusOK
<1>2. StatusOK(val)
  <2>1. val = [f \in StatusFields |-> val[f]] /\ val.MPP = s.h.mstatus.MPP /\ val.SPP = PRV_U
    BY <1>1 DEF StatusOK, StatusFields
  <2>2. QED
    BY <1>1, <2>1 DEF StatusOK
<1>3. insn.op \notin CsrOps \cup MemOps \cup {"dret"}
  BY DEF CsrOps, MemOps
<1>4. CASE sret(s, m) = raise(s, m, "illegal_instruction", 0)
  BY <1>3, <1>4, Raises
<1>5. CASE sret(s, m) = serializeAt(set_privilege(setMstatus(s, val), p), m, s.h.sepc)
           /\ ~(s.h.prv < (IF s.h.mstatus.TSR THEN PRV_M ELSE PRV_S))
  <2>1. p \in 0 .. 3
    BY <1>1 DEF PRV_U, PRV_S
  <2>2. legalize_privilege(s.h, p) <= s.h.prv
    BY <1>1, <1>5 DEF legalize_privilege, supports_extension, IsaOK, Modes, PRV_U, PRV_S, PRV_M
  <2> HIDE DEF val, p
  <2>3. QED
    BY <1>2, <1>3, <1>5, <2>1, <2>2, Returns
<1>6. QED
  BY <1>4, <1>5 DEF sret, Let, illegal

(* dret leaves debug mode, for a step if the debugger asked for one.        *)
LEMMA ExecutesDret ==
    ASSUME NEW s, StateOK(s), NEW m, NEW insn, insn.op = "dret"
    PROVE  Executes(s, insn, dret(s, m))
<1> DEFINE to == set_privilege(s, s.h.dcsr.prv)
           step == IF s.h.dcsr.step THEN "stepping" ELSE s.h.single_step
           g == [to.h EXCEPT !["debug_mode"] = FALSE, !["single_step"] = step]
           out == [h |-> g, mm |-> to.mm]
           r == serializeAt(out, m, s.h.dpc)
<1>1. insn.op \notin CsrOps \cup MemOps
  BY DEF CsrOps, MemOps
<1>2. CASE dret(s, m) = raise(s, m, "illegal_instruction", 0)
  BY <1>1, <1>2, Raises
<1>3. CASE s.h.debug_mode /\ dret(s, m) = r
  <2>1. HartOK(s.h) /\ IsHart(s.h) /\ HartFields \subseteq DOMAIN s.h /\ s.h.dcsr.prv \in 0 .. 3
    BY HartFacts DEF StateOK, IsHart, DcsrOK
  <2>2. /\ StateOK(to) /\ Kept(s.h, to.h, {"prv"}) /\ SamePort(s.mm, to.mm)
    BY <2>1, SetsPrivilege
  <2>3. HartOK(to.h) /\ IsHart(to.h) /\ HartFields \subseteq DOMAIN to.h /\ to.h.single_step = s.h.single_step
    BY <2>1, <2>2, HartFacts DEF StateOK, IsHart, Kept, HartFields
  <2> HIDE DEF to, step
  <2>4. /\ IsHart(g) /\ Kept(to.h, g, {"debug_mode", "single_step"})
        /\ g.debug_mode = FALSE /\ g.single_step = step
    BY <2>3 DEF IsHart, Kept, HartFields
  <2> HIDE DEF g
  <2>5. HartOK(g)
    <3>1. FieldOK("debug_mode", g.debug_mode) /\ FieldOK("single_step", g.single_step)
      BY <2>4 DEF FieldOK
    <3>2. QED
      BY <2>3, <2>4, <3>1, HartKept
  <2>6. StateOK(out) /\ out.h = g /\ out.mm = to.mm
    BY <2>2, <2>5 DEF StateOK
  <2> HIDE DEF out
  <2>7. /\ StateOK([h |-> r.h, mm |-> r.mm]) /\ Kept(g, r.h, {"pc"}) /\ r.mm = to.mm
        /\ r.trap = NoTrap /\ r.thrown = NoMatch /\ r.kind = "after"
    BY <2>6, SerializedAt
  <2> HIDE DEF r
  <2>8. HartOK(r.h) /\ IsMmu(r.mm) /\ SamePort(s.mm, r.mm) /\ ~failed(r)
    BY <2>2, <2>7 DEF StateOK, failed
  <2>9. /\ r.h.minstret = s.h.minstret /\ r.h.pmpcfg = s.h.pmpcfg /\ r.h.pmpaddr = s.h.pmpaddr
        /\ r.h.single_step = step /\ r.h.debug_mode = FALSE /\ r.h.serialized = s.h.serialized
    BY <2>1, <2>2, <2>4, <2>7 DEF Kept, HartFields
  <2>10. lockedKept(s.h, r.h)
    BY <2>9, LockedSame
  <2>11. Reserves(s, insn, r) /\ Matches(s, insn, r)
    BY <2>7, <2>8 DEF Reserves, Matches, SamePort
  <2>12. Serializes(s, insn, r)
    BY <1>1, <2>7, <2>8, <2>9 DEF Serializes
  <2>13. Counts(s, insn, r)
    BY <2>9 DEF Counts
  <2>14. Steps(s, insn, r)
    BY <1>3, <2>3, <2>9 DEF Steps, step
  <2>15. QED
    BY <1>1, <1>3, <2>8, <2>10, <2>11, <2>12, <2>13, <2>14 DEF Executes
<1>4. QED
  BY <1>2, <1>3 DEF dret, illegal

(* WFI moves the pc on.                                                     *)
LEMMA ExecutesWfi ==
    ASSUME NEW s, StateOK(s), NEW m, NEW npc, NEW insn, insn.op = "wfi"
    PROVE  Executes(s, insn, wfi(s, m, npc))
<1> DEFINE u == serializeAt(s, m, npc)
           r == [u EXCEPT !.kind = "wfi"]
<1>1. insn.op \notin CsrOps \cup MemOps \cup {"dret"}
  BY DEF CsrOps, MemOps
<1>2. CASE wfi(s, m, npc) = raise(s, m, "illegal_instruction", 0)
  BY <1>1, <1>2, Raises
<1>3. CASE wfi(s, m, npc) = r
  <2>1. /\ StateOK([h |-> u.h, mm |-> u.mm]) /\ Kept(s.h, u.h, {"pc"}) /\ u.mm = s.mm
        /\ u.trap = NoTrap /\ u.thrown = NoMatch
    BY SerializedAt
  <2>2. r.h = u.h /\ r.mm = u.mm /\ r.trap = u.trap /\ r.thrown = u.thrown /\ r.kind = "wfi"
    BY DEF serializeAt, done
  <2> HIDE DEF u, r
  <2>3. HartFields \subseteq DOMAIN s.h
    BY HartFacts DEF StateOK, IsHart
  <2>4. /\ r.h.minstret = s.h.minstret /\ r.h.pmpcfg = s.h.pmpcfg /\ r.h.pmpaddr = s.h.pmpaddr
        /\ \A f \in Stable \ {"pc"} : r.h[f] = s.h[f]
    BY <2>1, <2>2, <2>3 DEF Kept, HartFields, Stable
  <2>5. lockedKept(s.h, r.h) /\ SamePort(s.mm, r.mm)
    BY <2>1, <2>2, <2>4, LockedSame DEF SamePort
  <2>6. QED
    BY <1>1, <1>3, <2>1, <2>2, <2>4, <2>5, ExecutesPlainly
<1>4. QED
  BY <1>2, <1>3 DEF wfi, illegal

(* Jumps, fences, floating-point instructions and those that do nothing.    *)
LEMMA ExecutesDone ==
    ASSUME NEW s, StateOK(s), NEW m, NEW npc, NEW insn, insn.op \notin CsrOps \cup MemOps \cup {"dret"},
           NEW u, Written(s, u)
    PROVE  Executes(s, insn, done(u, m, npc))
<1> DEFINE r == done(u, m, npc)
<1>1. r.h = u.h /\ r.mm = u.mm /\ r.trap = NoTrap /\ r.thrown = NoMatch /\ r.kind = "plain"
  BY DEF done
<1> HIDE DEF r
<1>2. StateOK([h |-> r.h, mm |-> r.mm])
  BY <1>1 DEF Written, StateOK
<1>3. /\ SamePort(s.mm, r.mm) /\ lockedKept(s.h, r.h) /\ r.h.minstret = s.h.minstret
      /\ \A f \in Stable \ {"pc"} : r.h[f] = s.h[f]
  BY <1>1 DEF Written
<1>4. Executes(s, insn, r)
  BY <1>1, <1>2, <1>3, ExecutesPlainly
<1>5. QED
  BY <1>4 DEF r

\* The instructions that are neither returns, nor accesses to registers or to memory.
SimpleOps == {"wfi", "ecall", "ebreak", "sfence_vma", "fence_i", "jump", "float", "nop"}

(* The instructions that leave memory alone.                                *)
LEMMA ExecutesSimple ==
    ASSUME NEW s, StateOK(s), NEW m, NEW pc, NEW insn,
           insn.op \notin CsrOps \cup MemOps \cup {"mret", "sret", "dret"}
    PROVE  Executes(s, insn, execute_insn(s, m, insn, pc))
<1> DEFINE npc == (pc + insn.length) % 2 ^ XLEN
           r == execute_insn(s, m, insn, pc)
<1>1. insn.op \notin CsrOps \cup MemOps \cup {"dret"} /\ insn.op \notin CsrOps
  OBVIOUS
<1>2. \A cause, tval : cause # "none" => Executes(s, insn, raise(s, m, cause, tval))
  BY <1>1, Raises
<1>3. s = [h |-> s.h, mm |-> s.mm] /\ IsMmu(s.mm) /\ Written(s, s)
  BY WrittenNothing DEF StateOK
<1>4. CASE insn.op = "wfi"
  BY <1>4, ExecutesWfi DEF execute_insn
<1>5. CASE insn.op = "ecall"
  <2>1. \E cause : cause # "none" /\ r = raise(s, m, cause, 0)
    BY <1>5 DEF execute_insn, ecall
  <2>2. QED
    BY <1>2, <2>1
<1>6. CASE insn.op = "ebreak"
  BY <1>2, <1>6 DEF execute_insn, ebreak
<1>7. CASE insn.op = "sfence_vma"
  <2> DEFINE u == [h |-> s.h, mm |-> flush_tlb(s.mm)]
  <2>1. r \in {raise(s, m, "illegal_instruction", 0), done(u, m, npc)}
    BY <1>3, <1>7 DEF execute_insn, sfence_vma, illegal
  <2>2. StateOK(u) /\ SamePort(s.mm, u.mm) /\ u.h = s.h
    BY Flushes DEF StateOK
  <2> HIDE DEF u
  <2>3. Written(s, u)
    BY <2>2, LockedSame DEF Written
  <2>4. QED
    BY <1>1, <1>2, <2>1, <2>3, ExecutesDone
<1>8. CASE insn.op = "fence_i"
  <2> DEFINE u == [h |-> s.h, mm |-> flush_icache(s.mm)]
  <2>1. r = done(u, m, npc)
    BY <1>3, <1>8 DEF execute_insn, fence_i
  <2>2. StateOK(u) /\ SamePort(s.mm, u.mm) /\ u.h = s.h
    BY Flushes DEF StateOK
  <2> HIDE DEF u
  <2>3. Written(s, u)
    BY <2>2, LockedSame DEF Written
  <2>4. QED
    BY <1>1, <2>1, <2>3, ExecutesDone
<1>9. CASE insn.op = "jump"
  <2>1. r \in {raise(s, m, "fetch_misaligned", insn.addr), done(s, m, insn.addr)}
    BY <1>9 DEF execute_insn, jump
  <2>2. QED
    BY <1>1, <1>2, <1>3, <2>1, ExecutesDone
<1>10. CASE insn.op = "float"
  <2> DEFINE u == [h |-> dirty_fp_state(s.h), mm |-> s.mm]
  <2>1. r \in {raise(s, m, "illegal_instruction", 0), done(u, m, npc)}
    BY <1>3, <1>10 DEF execute_insn, float, illegal
  <2>2. Written(s, u)
    BY DirtiesFloat
  <2> HIDE DEF u
  <2>3. QED
    BY <1>1, <1>2, <2>1, <2>2, ExecutesDone
<1>11. CASE insn.op = "nop"
  <2>1. r = done(s, m, npc)
    BY <1>11 DEF execute_insn
  <2>2. QED
    BY <1>1, <1>3, <2>1, ExecutesDone
<1>12. CASE insn.op \notin SimpleOps
  <2>1. r = raise(s, m, "illegal_instruction", 0)
    BY <1>12 DEF execute_insn, illegal, CsrOps, MemOps, SimpleOps
  <2>2. QED
    BY <1>2, <2>1
<1>13. QED
  BY <1>4, <1>5, <1>6, <1>7, <1>8, <1>9, <1>10, <1>11, <1>12 DEF SimpleOps

\* A register access, the pipe serialized: u is the state after the write, old what is read.
CsrDone(s, insn, u, r) ==
    /\ StateOK(u) /\ SamePort(s.mm, u.mm) /\ lockedKept(s.h, u.h)
    /\ \A f \in Stable \ {"serialized"} : u.h[f] = s.h[f]
    /\ ~u.h.serialized
    /\ IF insn.op = "csrrw" /\ insn.csr = "minstret"
       THEN u.h.minstret = (insn.val + 2 ^ XLEN - 1) % 2 ^ XLEN
       ELSE u.h.minstret = s.h.minstret
    /\ \E v, m, npc : /\ r = serializeAt([u EXCEPT !.h.x = v], m, npc)
                      /\ insn.csr \in {"minstret", "instret"} => v = s.h.minstret

(* An access to a register, once the pipe is serialized.                    *)
LEMMA ExecutesCsrDone ==
    ASSUME NEW s, StateOK(s), s.h.serialized, NEW insn, insn.op \in CsrOps,
           NEW u, NEW r, CsrDone(s, insn, u, r)
    PROVE  Executes(s, insn, r)
<1>1. PICK v, m, npc : /\ r = serializeAt([u EXCEPT !.h.x = v], m, npc)
                       /\ insn.csr \in {"minstret", "instret"} => v = s.h.minstret
  BY DEF CsrDone
<1> DEFINE g == [u.h EXCEPT !["x"] = v]
           w == [h |-> g, mm |-> u.mm]
<1>2. /\ HartOK(u.h) /\ IsHart(u.h) /\ HartFields \subseteq DOMAIN u.h /\ IsMmu(u.mm)
      /\ u = [h |-> u.h, mm |-> u.mm] /\ s.h.prv \in 0 .. 3 /\ HartFields \subseteq DOMAIN s.h
  BY HartFacts DEF CsrDone, StateOK, IsHart
<1>3. IsHart(g) /\ Kept(u.h, g, {"x"}) /\ g.x = v
  BY <1>2, Put DEF HartFields
<1>4. [u EXCEPT !.h.x = v] = w
  BY <1>2
<1> HIDE DEF g
<1>5. HartOK(g)
  BY <1>2, <1>3, HartKept DEF FieldOK
<1>6. StateOK(w) /\ w.h = g /\ w.mm = u.mm
  BY <1>2, <1>5 DEF StateOK
<1> HIDE DEF w
<1>7. /\ StateOK([h |-> r.h, mm |-> r.mm]) /\ Kept(g, r.h, {"pc"}) /\ r.mm = u.mm
      /\ r.trap = NoTrap /\ r.thrown = NoMatch /\ r.kind = "after"
  BY <1>1, <1>4, <1>6, SerializedAt
<1>8. /\ r.h.pmpcfg = u.h.pmpcfg /\ r.h.pmpaddr = u.h.pmpaddr /\ r.h.minstret = u.h.minstret
      /\ r.h.single_step = u.h.single_step /\ r.h.debug_mode = u.h.debug_mode
      /\ r.h.prv = u.h.prv /\ r.h.serialized = u.h.serialized /\ r.h.x = v
  BY <1>2, <1>3, <1>7 DEF Kept, HartFields
<1>9. /\ u.h.single_step = s.h.single_step /\ u.h.debug_mode = s.h.debug_mode /\ u.h.prv = s.h.prv
      /\ lockedKept(s.h, u.h) /\ SamePort(s.mm, u.mm) /\ ~u.h.serialized
  BY DEF CsrDone, Stable
<1>10. HartOK(r.h) /\ IsMmu(r.mm) /\ ~failed(r) /\ lockedKept(s.h, r.h)
  <2>1. lockedKept(u.h, r.h)
    BY <1>8, LockedSame
  <2>2. QED
    BY <1>7, <1>9, <2>1, LockedTransitive DEF StateOK, failed
<1>11. ~(r.h.prv > s.h.prv)
  BY <1>2, <1>8, <1>9
<1>12. Reserves(s, insn, r) /\ Matches(s, insn, r)
  BY <1>7, <1>9 DEF Reserves, Matches, SamePort, CsrOps
<1>13. Serializes(s, insn, r)
  BY <1>7, <1>8, <1>9, <1>10 DEF Serializes, CsrOps, MemOps
<1>14. Counts(s, insn, r)
  BY <1>1, <1>7, <1>8 DEF Counts, CsrDone
<1>15. Steps(s, insn, r)
  BY <1>8, <1>9 DEF Steps, CsrOps
<1>16. insn.op \notin MemOps
  BY DEF CsrOps, MemOps
<1>17. QED
  BY <1>10, <1>11, <1>12, <1>13, <1>14, <1>15, <1>16 DEF Executes

(* An access to a register.                                                 *)
LEMMA ExecutesCsr ==
    ASSUME NEW s, StateOK(s), NEW m, NEW npc, NEW insn, insn.op \in CsrOps, wellFormed(insn)
    PROVE  Executes(s, insn, csr_insn(s, m, insn, npc))
<1> DEFINE h == [s.h EXCEPT !["serialized"] = FALSE]
           z == [h |-> h, mm |-> s.mm]
           old == get_csr(h, insn.csr, insn.i)
           u == IF insn.op = "csrrw" THEN set_csr(z, insn.csr, insn.i, insn.val) ELSE z
           before == [done(s, m, 0) EXCEPT !.kind = "before"]
           r == csr_insn(s, m, insn, npc)
<1>1. /\ HartOK(s.h) /\ IsHart(s.h) /\ HartFields \subseteq DOMAIN s.h /\ IsMmu(s.mm)
      /\ s = [h |-> s.h, mm |-> s.mm] /\ s.h.prv \in 0 .. 3
  BY HartFacts DEF StateOK, IsHart
<1>2. IsHart(h) /\ Kept(s.h, h, {"serialized"}) /\ h.serialized = FALSE
  BY <1>1, Put DEF HartFields
<1> HIDE DEF h
<1>3. z = [s EXCEPT !.h = h]
  <2>1. s = [h |-> s.h, mm |-> s.mm]
    BY <1>1
  <2>2. QED
    BY <2>1
<1>4. HartOK(h)
  <2>1. FieldOK("serialized", h.serialized)
    BY <1>2 DEF FieldOK
  <2>2. QED
    BY <1>1, <1>2, <2>1, HartKept
<1>5. StateOK(z) /\ z.h = h /\ z.mm = s.mm
  BY <1>1, <1>4 DEF StateOK
<1>6. \/ ~s.h.serialized /\ r = before
      \/ s.h.serialized /\ r = raise(z, m, "illegal_instruction", 0)
      \/ s.h.serialized /\ r = serializeAt([u EXCEPT !.h.x = old], m, npc)
  BY <1>3 DEF csr_insn, Let, illegal, h
<1>7. /\ h.prv = s.h.prv /\ h.single_step = s.h.single_step /\ h.debug_mode = s.h.debug_mode
      /\ h.minstret = s.h.minstret /\ h.pmpcfg = s.h.pmpcfg /\ h.pmpaddr = s.h.pmpaddr
      /\ \A f \in Stable \ {"serialized"} : h[f] = s.h[f]
  BY <1>1, <1>2 DEF Kept, HartFields, Stable
<1>8. lockedKept(s.h, h)
  BY <1>7, LockedSame
<1>9. insn.op \notin MemOps /\ insn.op \notin {"lr", "sc", "dret", "wfi"}
  BY DEF CsrOps, MemOps
<1>10. CASE ~s.h.serialized /\ r = before
  <2>1. /\ before.h = s.h /\ before.mm = s.mm /\ before.trap = NoTrap /\ before.thrown = NoMatch
        /\ before.kind = "before"
    BY DEF done
  <2> HIDE DEF before, r
  <2>2. lockedKept(s.h, s.h) /\ ~failed(r)
    BY <1>10, <2>1, LockedSame DEF failed
  <2>3. Reserves(s, insn, r) /\ Matches(s, insn, r)
    BY <1>9, <1>10, <2>1 DEF Reserves, Matches
  <2>4. Serializes(s, insn, r)
    BY <1>9, <1>10, <2>1, <2>2 DEF Serializes
  <2>5. Counts(s, insn, r) /\ Steps(s, insn, r)
    BY <1>9, <1>10, <2>1 DEF Counts, Steps
  <2>6. ~(r.h.prv > s.h.prv)
    BY <1>1, <1>10, <2>1
  <2>7. QED
    BY <1>1, <1>9, <1>10, <2>1, <2>2, <2>3, <2>4, <2>5, <2>6 DEF Executes, r
<1>11. CASE s.h.serialized /\ r = raise(z, m, "illegal_instruction", 0)
  <2>1. r.h = h /\ r.mm = s.mm /\ r.trap # NoTrap /\ r.thrown = NoMatch /\ r.kind = "plain"
    BY <1>5, <1>11 DEF raise, done, throw, NoTrap
  <2> HIDE DEF r
  <2>2. failed(r)
    BY <2>1 DEF failed
  <2>3. Reserves(s, insn, r) /\ Matches(s, insn, r)
    BY <1>9, <2>1, <2>2 DEF Reserves, Matches
  <2>4. Serializes(s, insn, r)
    BY <1>2, <1>9, <1>11, <2>1, <2>2 DEF Serializes
  <2>5. Counts(s, insn, r) /\ Steps(s, insn, r)
    BY <1>7, <1>9, <2>1 DEF Counts, Steps
  <2>6. ~(r.h.prv > s.h.prv)
    BY <1>1, <1>7, <2>1
  <2>7. QED
    BY <1>1, <1>2, <1>4, <1>8, <1>9, <2>1, <2>2, <2>3, <2>4, <2>5, <2>6 DEF Executes, r
<1>12. CASE s.h.serialized /\ r = serializeAt([u EXCEPT !.h.x = old], m, npc)
  <2>1. insn.csr \in {"minstret", "instret"} => old = s.h.minstret
    BY <1>7 DEF get_csr
  <2> HIDE DEF r, old
  <2>2. CASE insn.op = "csrrw" /\ insn.csr = "minstret"
    <3>1. insn.val \in Word
      BY <2>2 DEF wellFormed, operand
    <3>2. u = set_csr(z, "minstret", insn.i, insn.val)
      BY <2>2
    <3> HIDE DEF u, z
    <3>3. /\ StateOK(u) /\ u.mm = z.mm /\ Kept(z.h, u.h, {"minstret"})
          /\ u.h.minstret = (insn.val + 2 ^ XLEN - 1) % 2 ^ XLEN
      BY <1>5, <3>1, <3>2, WritesMinstret
    <3>4. /\ \A f \in Stable : u.h[f] = h[f]
          /\ u.h.pmpcfg = h.pmpcfg /\ u.h.pmpaddr = h.pmpaddr
      BY <1>1, <1>2, <1>5, <3>3 DEF Kept, HartFields, Stable
    <3>5. lockedKept(s.h, u.h) /\ SamePort(s.mm, u.mm)
      BY <1>5, <1>7, <3>3, <3>4, LockedSame DEF SamePort
    <3>6. ~u.h.serialized /\ \A f \in Stable \ {"serialized"} : u.h[f] = s.h[f]
      BY <1>2, <1>7, <3>4 DEF Stable
    <3>7. CsrDone(s, insn, u, r)
      BY <1>12, <2>1, <2>2, <3>3, <3>5, <3>6 DEF CsrDone
    <3>8. QED
      BY <1>12, <3>7, ExecutesCsrDone DEF r
  <2>3. CASE ~(insn.op = "csrrw" /\ insn.csr = "minstret")
    <3>1. Written(z, u)
      <4>1. insn.op = "csrrw" => operand(insn.csr, insn.val)
        BY DEF wellFormed
      <4>2. QED
        BY <1>5, <2>3, <4>1, WritesCsr, WrittenNothing
    <3> HIDE DEF u, z
    <3>2. /\ StateOK(u) /\ SamePort(s.mm, u.mm) /\ \A f \in Stable : u.h[f] = h[f]
          /\ lockedKept(h, u.h) /\ u.h.minstret = s.h.minstret
      BY <1>5, <1>7, <3>1 DEF Written
    <3>3. lockedKept(s.h, u.h)
      BY <1>8, <3>2, LockedTransitive
    <3>4. ~u.h.serialized /\ \A f \in Stable \ {"serialized"} : u.h[f] = s.h[f]
      BY <1>2, <1>7, <3>2 DEF Stable
    <3>5. CsrDone(s, insn, u, r)
      BY <1>12, <2>1, <2>3, <3>2, <3>3, <3>4 DEF CsrDone
    <3>6. QED
      BY <1>12, <3>5, ExecutesCsrDone DEF r
  <2>4. QED
    BY <2>2, <2>3
<1>13. QED
  BY <1>6, <1>10, <1>11, <1>12

-----------------------------------------------------------------------------
(* The memory port *)

ResultFields == {"mm", "mem", "trap", "thrown", "data", "bus"}

\* What an access that starts with port mm guarantees.
Access(mm, r) ==
    /\ r = [f \in ResultFields |-> r[f]] /\ IsMmu(r.mm)
    /\ r.mm.load_reservation_address = mm.load_reservation_address
    /\ r.thrown = NoMatch => r.mm.matched_trigger = mm.matched_trigger
    /\ r.thrown # NoMatch => r.trap = NoTrap /\ mm.matched_trigger = NoMatch

(* An access that has done nothing yet.                                     *)
LEMMA AccessStarts ==
    ASSUME NEW mm, IsMmu(mm), NEW m
    PROVE  Access(mm, result(mm, m)) /\ ~failed(result(mm, m))
  BY DEF Access, result, ResultFields, failed

(* An access that is refused.                                               *)
LEMMA AccessTraps ==
    ASSUME NEW mm, NEW r, Access(mm, r), r.thrown = NoMatch, NEW t
    PROVE  Access(mm, trapped(r, t))
  BY DEF Access, trapped, ResultFields

(* Data, memory and the bus do not matter.                                  *)
LEMMA AccessServes ==
    ASSUME NEW mm, NEW r, Access(mm, r), NEW v,
           NEW q, q \in {[r EXCEPT !.data = v], [r EXCEPT !.mem = v], [r EXCEPT !.bus = v]}
    PROVE  Access(mm, q) /\ q.trap = r.trap /\ q.thrown = r.thrown /\ q.mm = r.mm
  BY DEF Access, ResultFields

(* A refill of the TLB.                                                     *)
LEMMA Refills ==
    ASSUME NEW h, NEW mm, IsMmu(mm), NEW v, NEW p, NEW type
    PROVE  IsMmu(refill_tlb(h, mm, v, p, type)) /\ SamePort(mm, refill_tlb(h, mm, v, p, type))
<1>1. \E a, d : refill_tlb(h, mm, v, p, type) = [mm EXCEPT !.tag = a, !.data = d]
  BY DEF refill_tlb
<1>2. QED
  BY <1>1 DEF IsMmu, MmuFields, SamePort

(* An access that refills the TLB.                                          *)
LEMMA AccessRefills ==
    ASSUME NEW mm, NEW r, Access(mm, r), NEW h, NEW v, NEW p, NEW type,
           NEW q, q = [r EXCEPT !.mm = refill_tlb(h, r.mm, v, p, type)]
    PROVE  Access(mm, q) /\ q.trap = r.trap /\ q.thrown = r.thrown /\ q.data = r.data
<1> DEFINE n == refill_tlb(h, r.mm, v, p, type)
<1>1. IsMmu(n) /\ SamePort(r.mm, n)
  BY Refills DEF Access
<1> HIDE DEF n
<1>2. QED
  BY <1>1 DEF Access, ResultFields, SamePort, n

(* A trigger that matches is kept only if it is thrown.                     *)
LEMMA Triggers ==
    ASSUME NEW h, NEW mm, IsMmu(mm), NEW op, NEW a, NEW d,
           NEW e, e = trigger_exception(h, mm, op, a, d)
    PROVE  /\ IsMmu(e.mm) /\ e.mm.load_reservation_address = mm.load_reservation_address
           /\ e.thrown = NoMatch => e.mm.matched_trigger = mm.matched_trigger
           /\ e.thrown # NoMatch => mm.matched_trigger = NoMatch
<1> DEFINE match == trigger_match(h, op, a, d)
           t == [index |-> match, address |-> a]
<1>1. \/ e = [thrown |-> NoMatch, mm |-> mm]
      \/ mm.matched_trigger = NoMatch /\ match # -1 /\ e = [thrown |-> t, mm |-> mm]
      \/ mm.matched_trigger = NoMatch /\ match # -1
         /\ e = [thrown |-> t, mm |-> [mm EXCEPT !.matched_trigger = t]]
  BY DEF trigger_exception, Let
<1> HIDE DEF match
<1>2. match # -1 => t # NoMatch
  BY DEF NoMatch
<1> HIDE DEF t
<1>3. QED
  BY <1>1, <1>2 DEF IsMmu, MmuFields

(* A trigger is looked for.                                                 *)
LEMMA Checks ==
    ASSUME NEW mm, NEW r, Access(mm, r), ~failed(r), NEW h, NEW op, NEW a, NEW d,
           NEW q, q = checked(h, r, op, a, d)
    PROVE  Access(mm, q) /\ q.trap = NoTrap /\ q.data = r.data
<1> DEFINE e == trigger_exception(h, r.mm, op, a, d)
<1>1. q = [r EXCEPT !.mm = e.mm, !.thrown = e.thrown]
  BY DEF checked, Let
<1>2. IsMmu(r.mm) /\ r.trap = NoTrap /\ r.thrown = NoMatch
  BY DEF Access, failed
<1>3. /\ IsMmu(e.mm) /\ e.mm.load_reservation_address = r.mm.load_reservation_address
      /\ e.thrown = NoMatch => e.mm.matched_trigger = r.mm.matched_trigger
      /\ e.thrown # NoMatch => r.mm.matched_trigger = NoMatch
  BY <1>2, Triggers
<1> HIDE DEF e
<1>4. /\ q.mm = e.mm /\ q.thrown = e.thrown /\ q.trap = r.trap /\ q.data = r.data
      /\ q = [f \in ResultFields |-> q[f]]
  BY <1>1 DEF Access, ResultFields
<1>5. QED
  BY <1>2, <1>3, <1>4 DEF Access

(* A load.                                                                  *)
LEMMA Loads ==
    ASSUME NEW h, NEW mm, IsMmu(mm), NEW m, NEW a, NEW len
    PROVE  Access(mm, load(h, mm, m, a, len))
<1> DEFINE r == result(mm, m)
           hit == [r EXCEPT !.data = read(m, tlbPaddr(mm, a))]
           slow == load_slow_path(h, mm, m, a, len)
<1>1. Access(mm, r) /\ ~failed(r)
  BY AccessStarts
<1>2. Access(mm, hit) /\ ~failed(hit)
  BY <1>1, AccessServes DEF failed
<1>3. Access(mm, slow)
  <2> DEFINE t == translate(h, m, a, len, "load")
             loaded == [r EXCEPT !.data = read(m, t.paddr), !.mm = refill_tlb(h, mm, a, t.paddr, "load")]
             bussed == [r EXCEPT !.bus = busAccess("load", t.paddr, 0)]
             served == IF addr_to_mem(t.paddr) THEN loaded ELSE bussed
  <2>1. r.mm = mm /\ r = [f \in ResultFields |-> r[f]]
    BY <1>1 DEF result, Access
  <2> HIDE DEF r
  <2>2. Access(mm, served) /\ ~failed(served)
    <3> DEFINE q == [r EXCEPT !.data = read(m, t.paddr)]
    <3>1. Access(mm, q) /\ ~failed(q) /\ q.mm = mm
      BY <1>1, <2>1, AccessServes DEF failed
    <3>2. loaded = [q EXCEPT !.mm = refill_tlb(h, q.mm, a, t.paddr, "load")]
      BY <2>1, <3>1 DEF ResultFields
    <3> HIDE DEF q, loaded
    <3>3. Access(mm, loaded) /\ loaded.trap = q.trap /\ loaded.thrown = q.thrown
      BY <3>1, <3>2, AccessRefills
    <3>4. Access(mm, bussed) /\ ~failed(bussed)
      BY <1>1, AccessServes DEF failed
    <3> HIDE DEF bussed
    <3>5. QED
      BY <3>1, <3>3, <3>4 DEF failed
  <2>3. \/ slow = trapped(r, t.trap)
        \/ slow = trapped(r, throw("load_access", a))
        \/ slow = checked(h, served, "load", a, served.data)
    BY DEF load_slow_path, Let, r
  <2> HIDE DEF served, slow
  <2>4. QED
    BY <1>1, <2>2, <2>3, AccessTraps, Checks DEF failed
<1> HIDE DEF hit, slow
<1>4. \/ load(h, mm, m, a, len) = hit
      \/ load(h, mm, m, a, len) = checked(h, hit, "load", a, hit.data)
      \/ load(h, mm, m, a, len) = slow
      \/ ~failed(slow) /\ load(h, mm, m, a, len) = trapped(slow, throw("load_misaligned", a))
  BY DEF load, Let, hit, slow
<1>5. QED
  BY <1>2, <1>3, <1>4, AccessTraps, Checks DEF failed

(* A store.                                                                 *)
LEMMA Stores ==
    ASSUME NEW h, NEW mm, IsMmu(mm), NEW m, NEW a, NEW len, NEW val
    PROVE  Access(mm, store(h, mm, m, a, len, val))
<1> DEFINE r == result(mm, m)
           c == checked(h, r, "store", a, val.ppn)
           slow == store_slow_path(h, mm, m, a, len, val)
           hit(q) == [q EXCEPT !.mem = write(m, tlbPaddr(mm, a), len, val)]
<1>1. Access(mm, r) /\ ~failed(r)
  BY AccessStarts
<1> HIDE DEF r
<1>2. Access(mm, c) /\ c.trap = NoTrap
  BY <1>1, Checks
<1> HIDE DEF c
<1>3. Access(mm, slow)
  <2> DEFINE t == translate(h, m, a, len, "store")
             w == write(m, t.paddr, len, val)
             n == refill_tlb(h, c.mm, a, t.paddr, "store")
             written == [c EXCEPT !.mem = w, !.mm = n]
  <2>1. \/ slow = trapped(r, t.trap)
        \/ slow = c
        \/ c.thrown = NoMatch /\ slow = written
        \/ \E b : c.thrown = NoMatch /\ slow = [c EXCEPT !.bus = b]
        \/ c.thrown = NoMatch /\ slow = trapped(c, throw("store_access", a))
    BY DEF store_slow_path, Let, r, c
  <2>2. Access(mm, written)
    <3> DEFINE q == [c EXCEPT !.mem = w]
    <3> HIDE DEF w
    <3>1. Access(mm, q) /\ q.mm = c.mm
      BY <1>2, AccessServes
    <3>2. written = [q EXCEPT !.mm = refill_tlb(h, q.mm, a, t.paddr, "store")]
      BY <1>2, <3>1 DEF Access, ResultFields
    <3> HIDE DEF q, written
    <3>3. QED
      BY <3>1, <3>2, AccessRefills
  <2> HIDE DEF written, slow
  <2>3. QED
    BY <1>1, <1>2, <2>1, <2>2, AccessTraps, AccessServes DEF failed
<1>4. Access(mm, hit(r)) /\ Access(mm, hit(c))
  BY <1>1, <1>2, AccessServes
<1> HIDE DEF slow, hit
<1>5. \E q \in {hit(r), c, hit(c), slow} :
          \/ store(h, mm, m, a, len, val) = q
          \/ ~failed(q) /\ store(h, mm, m, a, len, val) = trapped(q, throw("store_misaligned", a))
  BY DEF store, Let, r, c, slow, hit
<1>6. QED
  BY <1>2, <1>3, <1>4, <1>5, AccessTraps DEF failed

(* The second of two accesses goes on from the port of the first.           *)
LEMMA AccessTransitive ==
    ASSUME NEW mm, NEW r, Access(mm, r), r.thrown = NoMatch, NEW q, Access(r.mm, q)
    PROVE  Access(mm, q)
  BY DEF Access

(* An atomic operation.                                                     *)
LEMMA Amos ==
    ASSUME NEW h, NEW mm, IsMmu(mm), NEW m, NEW a, NEW len, NEW val
    PROVE  Access(mm, amo(h, mm, m, a, len, val))
<1> DEFINE r == result(mm, m)
           lhs == load(h, mm, m, a, len)
           st == store(h, lhs.mm, m, a, len, val)
           map == [load_page_fault |-> "store_page_fault", load_access |-> "store_access"]
           q == amo(h, mm, m, a, len, val)
<1>1. Access(mm, r) /\ ~failed(r)
  BY AccessStarts
<1>2. Access(mm, lhs) /\ IsMmu(lhs.mm)
  BY Loads DEF Access
<1>3. Access(lhs.mm, st)
  BY <1>2, Stores
<1>4. \/ q = trapped(r, throw("store_misaligned", a))
      \/ \E t : lhs.trap.cause \in DOMAIN map /\ q = trapped(lhs, t)
      \/ failed(lhs) /\ q = lhs
      \/ ~failed(lhs) /\ q = [st EXCEPT !.data = lhs.data]
  BY DEF amo, Let
<1> SUFFICES Access(mm, q)
  OBVIOUS
<1> HIDE DEF q, st, lhs, r
<1>5. lhs.trap.cause \in DOMAIN map => lhs.thrown = NoMatch
  <2>1. lhs.thrown # NoMatch => lhs.trap.cause = "none"
    BY <1>2 DEF Access, NoTrap
  <2>2. DOMAIN map = {"load_page_fault", "load_access"}
    OBVIOUS
  <2>3. QED
    BY <2>1, <2>2
<1>6. Access(lhs.mm, [st EXCEPT !.data = lhs.data])
  BY <1>3, AccessServes
<1> HIDE DEF map
<1>7. CASE \E t : lhs.trap.cause \in DOMAIN map /\ q = trapped(lhs, t)
  BY <1>2, <1>5, <1>7, AccessTraps
<1>8. CASE ~failed(lhs) /\ q = [st EXCEPT !.data = lhs.data]
  BY <1>2, <1>6, <1>8, AccessTransitive DEF failed
<1>9. QED
  BY <1>1, <1>2, <1>4, <1>7, <1>8, AccessTraps DEF failed

\* A load-reserved is an access if it fails.
Reserved(mm, r) ==
    /\ IsMmu(r.mm)
    /\ r.thrown = NoMatch => r.mm.matched_trigger = mm.matched_trigger
    /\ r.thrown # NoMatch => r.trap = NoTrap /\ mm.matched_trigger = NoMatch
    /\ failed(r) => r.mm.load_reservation_address = mm.load_reservation_address

(* An access leaves the reservation alone.                                  *)
LEMMA AccessReserved == ASSUME NEW mm, NEW r, Access(mm, r) PROVE Reserved(mm, r)
  BY DEF Access, Reserved

(* LR reserves what it loads.                                               *)
LEMMA LoadsReserved ==
    ASSUME NEW h, NEW mm, IsMmu(mm), NEW m, NEW a, NEW len
    PROVE  Reserved(mm, lr(h, mm, m, a, len))
<1> DEFINE r == load(h, mm, m, a, len)
           t == translate(h, r.mem, a, 1, "load")
           refilled == refill_tlb(h, r.mm, a, t.paddr, "load")
           n == [refilled EXCEPT !.load_reservation_address = t.paddr]
           w == [r EXCEPT !.mm = n]
           q == lr(h, mm, m, a, len)
<1>1. Access(mm, r)
  BY Loads
<1>2. \/ failed(r) /\ q = r
      \/ \E e : ~failed(r) /\ q = trapped(r, e)
      \/ ~failed(r) /\ q = w
  BY DEF lr, acquire_load_reservation, Let
<1>3. CASE failed(r) /\ q = r
  BY <1>1, <1>3, AccessReserved
<1>4. CASE \E e : ~failed(r) /\ q = trapped(r, e)
  BY <1>1, <1>4, AccessTraps, AccessReserved DEF failed
<1>5. CASE ~failed(r) /\ q = w
  <2> HIDE DEF r, t
  <2>1. IsMmu(n) /\ n.matched_trigger = r.mm.matched_trigger
    <3>1. IsMmu(refilled) /\ SamePort(r.mm, refilled)
      BY <1>1, Refills DEF Access
    <3> HIDE DEF refilled
    <3>2. QED
      BY <3>1 DEF IsMmu, MmuFields, SamePort
  <2> HIDE DEF n
  <2>2. w.mm = n /\ w.trap = r.trap /\ w.thrown = r.thrown
    BY <1>1 DEF Access, ResultFields
  <2> HIDE DEF w
  <2>3. r.trap = NoTrap /\ r.thrown = NoMatch /\ r.mm.matched_trigger = mm.matched_trigger
    BY <1>1, <1>5 DEF failed, Access
  <2>4. ~failed(w)
    BY <2>2, <2>3 DEF failed
  <2>5. QED
    BY <1>5, <2>1, <2>2, <2>3, <2>4 DEF Reserved
<1>6. QED
  BY <1>2, <1>3, <1>4, <1>5

(* A store-conditional that does not fail gives the reservation up, and     *)
(* succeeds only with one.                                                  *)
LEMMA StoresConditionally ==
    ASSUME NEW h, NEW mm, IsMmu(mm), NEW m, NEW a, NEW len, NEW val,
           NEW q, q = sc(h, mm, m, a, len, val)
    PROVE  /\ Reserved(mm, q)
           /\ ~failed(q) => /\ q.mm.load_reservation_address = -1
                            /\ q.data = 0 => mm.load_reservation_address \in 0 .. MemSize - 1
<1> DEFINE r == result(mm, m)
           t == translate(h, m, a, 1, "store")
           held == mm.load_reservation_address = t.paddr
           bit == IF held THEN 1 ELSE 0
           n == refill_tlb(h, mm, a, t.paddr, "store")
           w == [r EXCEPT !.mm = n, !.data = bit]
           c == check_load_reservation(h, mm, m, a, len)
<1>1. Access(mm, r) /\ ~failed(r) /\ r.mm = mm
  BY AccessStarts DEF result
<1>2. \/ \E e : e # NoTrap /\ c = trapped(r, e)
      \/ addr_to_mem(t.paddr) /\ c = w
  <2>1. throw("store_misaligned", a) # NoTrap /\ throw("store_access", a) # NoTrap
    BY DEF throw, NoTrap
  <2>2. QED
    BY <2>1 DEF check_load_reservation, Let
<1> HIDE DEF r
<1>3. Access(mm, w) /\ ~failed(w) /\ w.data = bit
  <2> DEFINE u == [r EXCEPT !.mm = refill_tlb(h, r.mm, a, t.paddr, "store")]
  <2>1. Access(mm, u) /\ u.trap = r.trap /\ u.thrown = r.thrown
    BY <1>1, AccessRefills
  <2>2. w = [u EXCEPT !.data = bit] /\ w.data = bit
    BY <1>1 DEF Access, ResultFields
  <2> HIDE DEF u, w, bit
  <2>3. QED
    BY <1>1, <2>1, <2>2, AccessServes DEF failed
<1>4. /\ Access(mm, c)
      /\ ~failed(c) => c.data \in {0, 1} /\ (c.data = 1 => mm.load_reservation_address \in 0 .. MemSize - 1)
  <2>1. CASE \E e : e # NoTrap /\ c = trapped(r, e)
    <3>1. PICK e : e # NoTrap /\ c = trapped(r, e)
      BY <2>1
    <3> HIDE DEF c
    <3>2. Access(mm, c)
      BY <1>1, <3>1, AccessTraps DEF failed
    <3>3. c.trap = e
      BY <1>1, <3>1 DEF trapped, Access, ResultFields
    <3>4. QED
      BY <3>1, <3>2, <3>3 DEF failed
  <2>2. CASE addr_to_mem(t.paddr) /\ c = w
    <3> HIDE DEF c, w, t
    <3>1. c.data = bit
      BY <1>3, <2>2
    <3>2. QED
      BY <1>3, <2>2, <3>1 DEF addr_to_mem
  <2>3. QED
    BY <1>2, <2>1, <2>2
<1> DEFINE s == IF c.data = 1 THEN store(h, c.mm, m, a, len, val) ELSE c
           end == [s EXCEPT !.mm = yield_load_reservation(s.mm), !.data = 1 - c.data]
<1>5. \/ failed(c) /\ q = c
      \/ ~failed(c) /\ failed(s) /\ q = s
      \/ ~failed(c) /\ ~failed(s) /\ q = end
  BY DEF sc, Let
<1> HIDE DEF c, w, r
<1>6. ~failed(c) => Access(mm, s)
  <2> SUFFICES ASSUME ~failed(c) PROVE Access(mm, s)
    OBVIOUS
  <2>1. Access(c.mm, store(h, c.mm, m, a, len, val))
    BY <1>4, Stores DEF Access
  <2>2. c.thrown = NoMatch
    BY DEF failed
  <2>3. QED
    BY <1>4, <2>1, <2>2, AccessTransitive
<1> HIDE DEF s
<1>7. CASE failed(q) /\ q \in {c, s} /\ Access(mm, q)
  BY <1>7, AccessReserved
<1>8. CASE ~failed(c) /\ ~failed(s) /\ q = end
  <2>1. Access(mm, s) /\ s.trap = NoTrap /\ s.thrown = NoMatch
    BY <1>6, <1>8 DEF failed
  <2> DEFINE y == yield_load_reservation(s.mm)
  <2>2. IsMmu(y) /\ y.load_reservation_address = -1 /\ y.matched_trigger = s.mm.matched_trigger
    BY <2>1 DEF yield_load_reservation, Access, IsMmu, MmuFields
  <2> HIDE DEF y
  <2>3. q.mm = y /\ q.data = 1 - c.data /\ q.trap = NoTrap /\ q.thrown = NoMatch
    BY <1>8, <2>1 DEF Access, ResultFields, y
  <2>4. Reserved(mm, q)
    BY <2>1, <2>2, <2>3 DEF Reserved, Access, failed
  <2>5. q.data = 0 => c.data = 1
    BY <1>4, <1>8, <2>3
  <2>6. QED
    BY <1>4, <1>8, <2>2, <2>3, <2>4, <2>5
<1>9. QED
  BY <1>4, <1>5, <1>6, <1>7, <1>8

\* What fetching guarantees; execute triggers fire whatever was matched before.
Fetched(mm, r) ==
    /\ r = [f \in ResultFields |-> r[f]] /\ IsMmu(r.mm) /\ SamePort(mm, r.mm)
    /\ r.thrown # NoMatch => r.trap = NoTrap

(* The address of an instruction.                                           *)
LEMMA TranslatesInsn ==
    ASSUME NEW h, NEW mm, IsMmu(mm), NEW m, NEW a
    PROVE  Fetched(mm, translate_insn_addr(h, mm, m, a))
<1> DEFINE t == translate(h, m, a, 2, "fetch")
           r == result(mm, m)
           n == refill_tlb(h, mm, a, t.paddr, "fetch")
           slow == fetch_slow_path(h, mm, m, a)
           hit == [r EXCEPT !.data = tlbPaddr(mm, a)]
           f == IF lookup(mm, a, "fetch") = "miss" THEN slow ELSE hit
           match == trigger_match(h, "fetch", a, read(m, tlbPaddr(f.mm, a)))
           q == translate_insn_addr(h, mm, m, a)
<1>1. /\ r = [e \in ResultFields |-> r[e]] /\ r.mm = mm /\ r.thrown = NoMatch /\ r.trap = NoTrap
  BY DEF result, ResultFields
<1>2. Fetched(mm, hit)
  BY <1>1 DEF Fetched, ResultFields, SamePort
<1>3. Fetched(mm, slow)
  <2>1. \/ \E e : slow = trapped(r, e)
        \/ slow = [r EXCEPT !.mm = n, !.data = t.paddr]
        \/ \E b : slow = [r EXCEPT !.bus = b, !.data = t.paddr]
    BY DEF fetch_slow_path, Let
  <2>2. IsMmu(n) /\ SamePort(mm, n) /\ SamePort(mm, mm)
    BY Refills DEF SamePort
  <2> HIDE DEF slow, r, n
  <2>3. QED
    BY <1>1, <2>1, <2>2 DEF Fetched, trapped, ResultFields
<1> HIDE DEF slow, hit, r
<1>4. Fetched(mm, f)
  BY <1>2, <1>3
<1>5. \/ q = f
      \/ ~failed(f) /\ \E x : q = [f EXCEPT !.thrown = x]
  BY DEF translate_insn_addr, Let, slow, hit, r
<1> HIDE DEF f, q
<1>6. Fetched(mm, q)
  BY <1>4, <1>5 DEF Fetched, ResultFields, failed
<1>7. QED
  BY <1>6 DEF q

(* A refill of the instruction cache.                                       *)
LEMMA RefillsIcache ==
    ASSUME NEW h, NEW mm, IsMmu(mm), NEW m, NEW a, NEW length
    PROVE  Fetched(mm, refill_icache(h, mm, m, a, length))
<1> DEFINE first == translate_insn_addr(h, mm, m, a)
           second == translate_insn_addr(h, first.mm, m, (a + 2) % 2 ^ XLEN)
           q == refill_icache(h, mm, m, a, length)
<1>1. Fetched(mm, first)
  BY TranslatesInsn
<1>2. q = first \/ \E b : q = [second EXCEPT !.data = first.data, !.bus = b]
  BY DEF refill_icache, Let
<1>3. Fetched(first.mm, second)
  BY <1>1, TranslatesInsn DEF Fetched
<1> HIDE DEF first, second, q
<1>4. Fetched(mm, second)
  BY <1>1, <1>3 DEF Fetched, SamePort
<1>5. Fetched(mm, q)
  BY <1>1, <1>2, <1>4 DEF Fetched, ResultFields
<1>6. QED
  BY <1>5 DEF q

(* Fetching, on either path.                                                *)
LEMMA Fetches ==
    ASSUME NEW h, NEW mm, IsMmu(mm), NEW m, NEW a, NEW length
    PROVE  /\ Fetched(mm, load_insn(h, mm, m, a, length))
           /\ Fetched(mm, access_icache(h, mm, m, a, length))
<1> DEFINE r == refill_icache(h, mm, m, a, length)
           line == mm.icache[icache_index(a)]
           q == access_icache(h, mm, m, a, length)
<1>1. Fetched(mm, r)
  BY RefillsIcache
<1>2. Fetched(mm, load_insn(h, mm, m, a, length))
  BY <1>1 DEF load_insn
<1>3. \/ q = [result(mm, m) EXCEPT !.data = line.paddr]
      \/ q = r
      \/ q = [r EXCEPT !.mm.icache[icache_index(a)] = [tag |-> a, paddr |-> r.data]]
  BY DEF access_icache, Let
<1>4. Fetched(mm, [result(mm, m) EXCEPT !.data = line.paddr])
  BY DEF Fetched, result, ResultFields, SamePort
<1>5. Fetched(mm, [r EXCEPT !.mm.icache[icache_index(a)] = [tag |-> a, paddr |-> r.data]])
  BY <1>1 DEF Fetched, ResultFields, SamePort, IsMmu, MmuFields
<1> HIDE DEF r, q, line
<1>6. Fetched(mm, q)
  BY <1>1, <1>3, <1>4, <1>5
<1>7. QED
  BY <1>2, <1>6 DEF q

(* A memory instruction writes rd, unless it fails.                         *)
LEMMA ExecutesMemory ==
    ASSUME NEW s, StateOK(s), NEW m, NEW npc, NEW insn, insn.op \in MemOps
    PROVE  Executes(s, insn, memory_insn(s, m, insn, npc))
<1> DEFINE access == CASE insn.op = "load" -> load(s.h, s.mm, m, insn.addr, insn.len)
                       [] insn.op = "store" -> store(s.h, s.mm, m, insn.addr, insn.len, insn.val)
                       [] insn.op = "amo" -> amo(s.h, s.mm, m, insn.addr, insn.len, insn.val)
                       [] insn.op = "lr" -> lr(s.h, s.mm, m, insn.addr, insn.len)
                       [] insn.op = "sc" -> sc(s.h, s.mm, m, insn.addr, insn.len, insn.val)
           rd == IF failed(access) \/ insn.op = "store" THEN s.h ELSE [s.h EXCEPT !["x"] = access.data]
           full == [h |-> rd, mm |-> access.mm, mem |-> access.mem, bus |-> access.bus,
                    trap |-> access.trap, thrown |-> access.thrown, npc |-> npc, kind |-> "plain"]
           r == memory_insn(s, m, insn, npc)
<1>1. /\ HartOK(s.h) /\ IsHart(s.h) /\ HartFields \subseteq DOMAIN s.h /\ IsMmu(s.mm) /\ s.h.prv \in 0 .. 3
  BY HartFacts DEF StateOK, IsHart
<1>2. insn.op \notin CsrOps /\ insn.op \notin {"dret", "wfi"}
  BY DEF CsrOps, MemOps
<1>3. r = raise(s, m, "illegal_instruction", 0) \/ r = full
  BY DEF memory_insn, Let, illegal
<1>4. /\ Reserved(s.mm, access)
      /\ insn.op \notin {"lr", "sc"} => Access(s.mm, access)
      /\ insn.op = "sc" /\ ~failed(access) =>
             /\ access.mm.load_reservation_address = -1
             /\ access.data = 0 => s.mm.load_reservation_address \in 0 .. MemSize - 1
  <2>1. CASE insn.op = "load"
    <3>1. access = load(s.h, s.mm, m, insn.addr, insn.len)
      BY <2>1
    <3> HIDE DEF access
    <3>2. Access(s.mm, access)
      BY <1>1, <3>1, Loads
    <3>3. QED
      BY <2>1, <3>2, AccessReserved
  <2>2. CASE insn.op = "store"
    <3>1. access = store(s.h, s.mm, m, insn.addr, insn.len, insn.val)
      BY <2>2
    <3> HIDE DEF access
    <3>2. Access(s.mm, access)
      BY <1>1, <3>1, Stores
    <3>3. QED
      BY <2>2, <3>2, AccessReserved
  <2>3. CASE insn.op = "amo"
    <3>1. access = amo(s.h, s.mm, m, insn.addr, insn.len, insn.val)
      BY <2>3
    <3> HIDE DEF access
    <3>2. Access(s.mm, access)
      BY <1>1, <3>1, Amos
    <3>3. QED
      BY <2>3, <3>2, AccessReserved
  <2>4. CASE insn.op = "lr"
    <3>1. access = lr(s.h, s.mm, m, insn.addr, insn.len)
      BY <2>4
    <3> HIDE DEF access
    <3>2. QED
      BY <1>1, <2>4, <3>1, LoadsReserved
  <2>5. CASE insn.op = "sc"
    <3>1. access = sc(s.h, s.mm, m, insn.addr, insn.len, insn.val)
      BY <2>5
    <3> HIDE DEF access
    <3>2. QED
      BY <1>1, <2>5, <3>1, StoresConditionally
  <2>6. QED
    BY <2>1, <2>2, <2>3, <2>4, <2>5 DEF MemOps
<1> HIDE DEF access
<1>5. CASE r = full
  <2>1. /\ r.h = rd /\ r.mm = access.mm /\ r.trap = access.trap /\ r.thrown = access.thrown
        /\ r.kind = "plain" /\ (failed(r) <=> failed(access))
    BY <1>5 DEF failed
  <2> DEFINE g == [s.h EXCEPT !["x"] = access.data]
  <2>2. IsHart(g) /\ Kept(s.h, g, {"x"}) /\ g.x = access.data
    BY <1>1, Put DEF HartFields
  <2>3. rd = IF failed(access) \/ insn.op = "store" THEN s.h ELSE g
    OBVIOUS
  <2> HIDE DEF g, rd
  <2>4. HartOK(g)
    BY <1>1, <2>2, HartKept DEF FieldOK
  <2>5. Kept(s.h, s.h, {"x"}) /\ Kept(s.h, s.h, {"serialized"})
    BY DEF Kept
  <2>6. HartOK(rd) /\ Kept(s.h, rd, {"x"}) /\ (failed(access) => Kept(s.h, rd, {"serialized"}))
    BY <1>1, <2>2, <2>3, <2>4, <2>5
  <2>7. /\ rd.prv = s.h.prv /\ rd.pmpcfg = s.h.pmpcfg /\ rd.pmpaddr = s.h.pmpaddr
        /\ rd.single_step = s.h.single_step /\ rd.debug_mode = s.h.debug_mode
        /\ rd.serialized = s.h.serialized /\ rd.minstret = s.h.minstret
    BY <1>1, <2>6 DEF Kept, HartFields
  <2>8. insn.op = "sc" /\ ~failed(access) => rd.x = access.data
    BY <2>2, <2>3
  <2> HIDE DEF r, full
  <2>9. lockedKept(s.h, r.h) /\ ~(r.h.prv > s.h.prv)
    BY <1>1, <2>1, <2>7, LockedSame
  <2>10. Reserves(s, insn, r)
    BY <1>4, <2>1, <2>8 DEF Reserves, Reserved, Access
  <2>11. Matches(s, insn, r)
    BY <1>4, <2>1 DEF Matches, Reserved
  <2>12. Serializes(s, insn, r) /\ Counts(s, insn, r) /\ Steps(s, insn, r)
    BY <1>2, <2>1, <2>7 DEF Serializes, Counts, Steps, CsrOps
  <2>13. HartOK(r.h) /\ IsMmu(r.mm) /\ Kept(s.h, r.h, {"x"}) /\ (failed(r) => Kept(s.h, r.h, {"serialized"}))
    BY <1>4, <2>1, <2>6 DEF Reserved
  <2>14. QED
    BY <2>9, <2>10, <2>11, <2>12, <2>13 DEF Executes, r
<1>6. CASE r = raise(s, m, "illegal_instruction", 0)
  BY <1>2, <1>6, Raises
<1>7. QED
  BY <1>3, <1>5, <1>6

(* Every instruction does.                                                  *)
LEMMA ExecutesInsn ==
    ASSUME NEW s, StateOK(s), NEW m, NEW pc, NEW insn, wellFormed(insn)
    PROVE  Executes(s, insn, execute_insn(s, m, insn, pc))
<1>1. CASE insn.op \in CsrOps
  <2>1. execute_insn(s, m, insn, pc) = csr_insn(s, m, insn, (pc + insn.length) % 2 ^ XLEN)
    BY <1>1 DEF execute_insn, CsrOps
  <2>2. QED
    BY <1>1, <2>1, ExecutesCsr
<1>2. CASE insn.op \in MemOps
  <2>1. execute_insn(s, m, insn, pc) = memory_insn(s, m, insn, (pc + insn.length) % 2 ^ XLEN)
    BY <1>2 DEF execute_insn, MemOps
  <2>2. QED
    BY <1>2, <2>1, ExecutesMemory
<1>3. CASE insn.op = "mret"
  BY <1>3, ExecutesMret DEF execute_insn
<1>4. CASE insn.op = "sret"
  BY <1>4, ExecutesSret DEF execute_insn
<1>5. CASE insn.op = "dret"
  BY <1>5, ExecutesDret DEF execute_insn
<1>6. CASE insn.op \notin CsrOps \cup MemOps \cup {"mret", "sret", "dret"}
  BY <1>6, ExecutesSimple
<1>7. QED
  BY <1>1, <1>2, <1>3, <1>4, <1>5, <1>6

-----------------------------------------------------------------------------
(* Types *)

LoopFields == {"at", "n", "instret", "slow", "again"}

HistFields == {"count", "read", "due", "fenced", "lr", "stolen", "left", "stale"}

\* The harts of a session.
HartsOK(hs) == hs = [c \in Harts |-> hs[c]] /\ \A c \in Harts : HartOK(hs[c])

LoopOK(l) ==
    /\ l = [f \in LoopFields |-> l[f]]
    /\ l.at \in {"idle", "top", "inner", "end", "escaped"}
    /\ l.n \in Nat /\ l.instret \in Nat
    /\ l.at = "top" => l.n > 0
    /\ l.at = "inner" => l.instret < l.n
    /\ l.again = NoInsn \/ wellFormed(l.again)

CodeOK == /\ code = [a \in DOMAIN code |-> code[a]]
          /\ \A a \in DOMAIN code : \A insn \in code[a] : wellFormed(insn)

HistOK(old) == /\ old = [f \in HistFields |-> old[f]]
               /\ old.count \in Word /\ old.stale \in BOOLEAN

\* The match of a trigger does not outlive the instruction that is restarted for it.
MatchesOver == loop.at # "escaped" => \A c \in Harts : mmu[c].matched_trigger = NoMatch

Typed ==
    /\ session \in Sessions /\ cur \in Harts /\ resets \in Nat
    /\ HartsOK(hart)
    /\ mmu = [c \in Harts |-> mmu[c]] /\ \A c \in Harts : IsMmu(mmu[c])
    /\ hist = [c \in Harts |-> hist[c]] /\ \A c \in Harts : HistOK(hist[c])
    /\ LoopOK(loop) /\ CodeOK /\ MatchesOver

(* There is a first hart.                                                   *)
LEMMA SomeHart == ASSUME session \in Sessions PROVE 0 \in Harts /\ session.harts \in Nat \ {0}
<1>1. session.harts \in Nat \ {0}
  BY SessionsAssumption
<1>2. QED
  BY <1>1 DEF Harts

\* The fields that hold anything.
FreeFields == {"mip", "single_step", "x", "pc"}

(* A field without a type is written.                                       *)
LEMMA PutsField ==
    ASSUME NEW h, HartOK(h), NEW f \in FreeFields, NEW v, NEW g, g = [h EXCEPT ![f] = v]
    PROVE  HartOK(g) /\ Kept(h, g, {f}) /\ g[f] = v
<1>1. IsHart(h) /\ f \in DOMAIN h
  BY HartFacts DEF IsHart, HartFields, FreeFields
<1>2. IsHart(g) /\ Kept(h, g, {f}) /\ g[f] = v
  BY <1>1, Put
<1>3. QED
  BY <1>2, HartKept DEF FieldOK, FreeFields

-----------------------------------------------------------------------------
(* The outcome of an instruction *)

\* An outcome, as the hart that runs sees it.
view(o) == [h |-> o.hs[cur], mm |-> o.mm, trap |-> o.trap, thrown |-> o.thrown, kind |-> o.kind]

\* The instruction of s was executed.
Ran(s, insn, o) ==
    /\ Executes(s, insn, view(o))
    /\ insn.op \in MemOps /\ ~failed(o) => o.npc = (state.pc + insn.length) % 2 ^ XLEN

\* It was not reached.
Stopped(s, o) ==
    /\ failed(o) /\ o.kind = "plain" /\ o.hs[cur] = s.h
    /\ IsMmu(o.mm) /\ SamePort(s.mm, o.mm)
    /\ o.thrown # NoMatch => o.trap = NoTrap

\* The other harts are as they are in hs.
Apart(hs, o) == HartsOK(o.hs) /\ \A c \in Harts \ {cur} : o.hs[c] = hs[c]

(* An instruction, on the harts.                                            *)
LEMMA Runs ==
    ASSUME NEW hs, HartsOK(hs), cur \in Harts, NEW mm, IsMmu(mm), NEW insn, wellFormed(insn),
           NEW o, o = executed(hs, mm, insn)
    PROVE  Apart(hs, o) /\ Ran([h |-> hs[cur], mm |-> mm], insn, o)
<1> DEFINE s == [h |-> hs[cur], mm |-> mm]
           x == execute_insn(s, mem, insn, state.pc)
           made == [hs |-> [hs EXCEPT ![cur] = x.h], mm |-> x.mm, mem |-> x.mem, bus |-> x.bus,
                    trap |-> x.trap, thrown |-> x.thrown, npc |-> x.npc, kind |-> x.kind]
<1>1. StateOK(s) /\ s.h = hs[cur]
  BY DEF StateOK, HartsOK
<1>2. Executes(s, insn, x)
  BY <1>1, ExecutesInsn
<1>3. o = made
  BY DEF executed, Let
<1>4. insn.op \in MemOps /\ ~failed(x) => x.npc = (state.pc + insn.length) % 2 ^ XLEN
  <2>1. insn.op \in MemOps => x = memory_insn(s, mem, insn, (state.pc + insn.length) % 2 ^ XLEN)
    BY DEF execute_insn, MemOps
  <2> DEFINE r == memory_insn(s, mem, insn, (state.pc + insn.length) % 2 ^ XLEN)
  <2>2. r.trap # NoTrap \/ r.npc = (state.pc + insn.length) % 2 ^ XLEN
    BY DEF memory_insn, Let, illegal, raise, done, throw, NoTrap
  <2> HIDE DEF r, x, s
  <2>3. QED
    BY <2>1, <2>2 DEF failed, r
<1> HIDE DEF x, s
<1>5. /\ o.hs = [hs EXCEPT ![cur] = x.h] /\ o.mm = x.mm /\ o.trap = x.trap /\ o.thrown = x.thrown
      /\ o.npc = x.npc /\ o.kind = x.kind
  BY <1>3
<1>6. HartOK(x.h)
  BY <1>2 DEF Executes
<1>7. Apart(hs, o) /\ o.hs[cur] = x.h
  BY <1>5, <1>6 DEF Apart, HartsOK
<1> DEFINE r == view(o)
<1>8. r.h = x.h /\ r.mm = x.mm /\ r.trap = x.trap /\ r.thrown = x.thrown /\ r.kind = x.kind
  BY <1>5, <1>7 DEF view
<1> HIDE DEF r
<1>9. Executes(s, insn, r)
  <2>1. failed(r) <=> failed(x)
    BY <1>8 DEF failed
  <2>2. Reserves(s, insn, r) /\ Matches(s, insn, r)
    BY <1>2, <1>8, <2>1 DEF Executes, Reserves, Matches
  <2>3. Serializes(s, insn, r)
    BY <1>2, <1>8, <2>1 DEF Executes, Serializes
  <2>4. Counts(s, insn, r) /\ Steps(s, insn, r)
    BY <1>2, <1>8, <2>1 DEF Executes, Counts, Steps
  <2>5. QED
    BY <1>2, <1>8, <2>1, <2>2, <2>3, <2>4 DEF Executes
<1>10. failed(x) <=> failed(o)
  BY <1>5 DEF failed
<1>11. QED
  BY <1>4, <1>5, <1>7, <1>9, <1>10 DEF Ran, s, r

(* What fetching or psint throws.                                           *)
LEMMA Stops ==
    ASSUME NEW hs, HartsOK(hs), cur \in Harts, NEW mm, IsMmu(mm), NEW nn, IsMmu(nn), SamePort(mm, nn),
           NEW trap, NEW thrown, trap # NoTrap \/ thrown # NoMatch, thrown # NoMatch => trap = NoTrap,
           NEW o, o = stopped(hs, nn, trap, thrown)
    PROVE  Apart(hs, o) /\ Stopped([h |-> hs[cur], mm |-> mm], o)
  BY DEF stopped, Apart, Stopped, failed

\* The slow path begins the step.
begun == IF loop.slow /\ state.single_step = "stepping" THEN "stepped" ELSE state.single_step

\* The state an instruction starts in: a step begins, psint asserts interrupts.
Starts(s) ==
    /\ StateOK(s)
    /\ Kept(state, s.h, {"mip", "single_step"}) /\ SamePort(mmu[cur], s.mm)
    /\ s.h.single_step = begun

\* What an outcome does to the other harts.
OthersKept(hs) == HartsOK(hs) /\ \A c \in Harts \ {cur} : Kept(hart[c], hs[c], {"mip"})

(* An instruction that is not reached, or is executed, from such a state.   *)
LEMMA Outcomes ==
    ASSUME Typed, NEW insn, wellFormed(insn), NEW o, o = outcome(insn)
    PROVE  OthersKept(o.hs) /\ \E s : Starts(s) /\ (Ran(s, insn, o) \/ Stopped(s, o))
<1> DEFINE started == IF loop.slow /\ state.single_step = "stepping"
                      THEN [hart EXCEPT ![cur].single_step = "stepped"] ELSE hart
           now == asserted(started, state.pc)
           int == psintTrap(started, state.pc)
           f == IF loop.slow THEN load_insn(started[cur], mmu[cur], mem, state.pc, insn.length)
                ELSE access_icache(started[cur], mmu[cur], mem, state.pc, insn.length)
<1>1. cur \in Harts /\ 0 \in Harts /\ HartsOK(hart) /\ IsMmu(mmu[cur])
  BY SomeHart DEF Typed
<1>2. /\ HartsOK(started) /\ Kept(state, started[cur], {"single_step"})
      /\ started[cur].single_step = begun
      /\ \A c \in Harts \ {cur} : started[c] = hart[c]
  <2>1. CASE loop.slow /\ state.single_step = "stepping"
    <3> DEFINE v == "stepped"
               g == [hart[cur] EXCEPT !["single_step"] = v]
    <3>1. started = [hart EXCEPT ![cur] = g]
      BY <2>1 DEF started
    <3> HIDE DEF started, v
    <3>4. g = [hart[cur] EXCEPT !["single_step"] = v]
      OBVIOUS
    <3> HIDE DEF g
    <3>2. HartOK(g) /\ Kept(hart[cur], g, {"single_step"}) /\ g["single_step"] = v
      <4> DEFINE h == hart[cur]
      <4>1. HartOK(h) /\ "single_step" \in FreeFields /\ g = [h EXCEPT !["single_step"] = v]
        BY <1>1, <3>4 DEF HartsOK, FreeFields
      <4> HIDE DEF h
      <4>2. HartOK(g) /\ Kept(h, g, {"single_step"})
        BY <4>1, PutsField
      <4>3. "single_step" \in DOMAIN h
        BY <4>1, HartFacts DEF IsHart, HartFields
      <4>4. g["single_step"] = v
        BY <4>1, <4>3
      <4>5. QED
        BY <4>2, <4>4 DEF h
    <3>3. HartsOK(started) /\ started[cur] = g /\ \A c \in Harts \ {cur} : started[c] = hart[c]
      BY <1>1, <3>1, <3>2 DEF HartsOK
    <3>5. QED
      BY <2>1, <3>2, <3>3 DEF state, v, begun
  <2>2. CASE ~(loop.slow /\ state.single_step = "stepping")
    BY <1>1, <2>2 DEF Kept, state, begun
  <2>3. QED
    BY <2>1, <2>2
<1> HIDE DEF started
<1>3. HartsOK(now) /\ \A c \in Harts : Kept(started[c], now[c], {"mip"})
  <2>1. CASE state.pc \in DOMAIN session.intrs
    <3> DEFINE v == started[0].mip \cup session.intrs[state.pc]
               g == [started[0] EXCEPT !["mip"] = v]
    <3>1. now = [started EXCEPT ![0] = g]
      BY <2>1 DEF asserted
    <3> HIDE DEF now, v
    <3>4. g = [started[0] EXCEPT !["mip"] = v]
      OBVIOUS
    <3> HIDE DEF g
    <3>2. HartOK(g) /\ Kept(started[0], g, {"mip"})
      <4>1. HartOK(started[0]) /\ "mip" \in FreeFields
        BY <1>1, <1>2 DEF HartsOK, FreeFields
      <4>2. QED
        BY <3>4, <4>1, PutsField
    <3>3. HartsOK(now) /\ now[0] = g /\ \A c \in Harts \ {0} : now[c] = started[c]
      BY <1>1, <1>2, <3>1, <3>2 DEF HartsOK
    <3>5. QED
      BY <3>2, <3>3 DEF Kept
  <2>2. CASE state.pc \notin DOMAIN session.intrs
    BY <1>2, <2>2 DEF asserted, Kept
  <2>3. QED
    BY <2>1, <2>2
<1> HIDE DEF now
<1>4. Fetched(mmu[cur], f)
  BY <1>1, Fetches
<1> HIDE DEF f
<1>5. IsMmu(f.mm) /\ SamePort(mmu[cur], f.mm) /\ (f.thrown # NoMatch => f.trap = NoTrap)
  BY <1>4 DEF Fetched
<1>6. SamePort(mmu[cur], mmu[cur])
  BY DEF SamePort
<1>7. HartFields \subseteq DOMAIN state
  BY <1>1, HartFacts DEF HartsOK, IsHart, state
<1>8. ASSUME NEW hs \in {started, now}, NEW mm \in {mmu[cur], f.mm}
      PROVE  Starts([h |-> hs[cur], mm |-> mm]) /\ OthersKept(hs) /\ HartsOK(hs) /\ IsMmu(mm)
  <2> DEFINE s == [h |-> hs[cur], mm |-> mm]
  <2>1. StateOK(s)
    BY <1>1, <1>2, <1>3, <1>5 DEF StateOK, HartsOK
  <2>2. Kept(state, s.h, {"mip", "single_step"}) /\ s.h.single_step = begun
    BY <1>1, <1>2, <1>3, <1>7 DEF Kept, HartFields
  <2>3. SamePort(mmu[cur], s.mm)
    BY <1>5, <1>6
  <2>4. OthersKept(hs)
    BY <1>2, <1>3 DEF OthersKept, Kept
  <2> HIDE DEF s
  <2>5. Starts(s)
    BY <2>1, <2>2, <2>3 DEF Starts
  <2>6. QED
    BY <1>1, <1>2, <1>3, <1>5, <2>4, <2>5 DEF s
<1>9. \/ int # NoTrap /\ o = stopped(now, mmu[cur], int, NoMatch)
      \/ \E hs \in {started, now} : failed(f) /\ o = stopped(hs, f.mm, f.trap, f.thrown)
      \/ int # NoTrap /\ o = stopped(now, f.mm, int, NoMatch)
      \/ o = executed(now, f.mm, insn)
  BY DEF outcome, Let, started, now, f
<1> HIDE DEF int
<1>10. ASSUME NEW hs \in {started, now}, NEW mm \in {mmu[cur], f.mm}, NEW trap, NEW thrown,
              trap # NoTrap \/ thrown # NoMatch, thrown # NoMatch => trap = NoTrap,
              o = stopped(hs, mm, trap, thrown)
       PROVE  OthersKept(o.hs) /\ \E s : Starts(s) /\ Stopped(s, o)
  <2>1. Starts([h |-> hs[cur], mm |-> mm]) /\ OthersKept(hs) /\ HartsOK(hs) /\ IsMmu(mm)
    BY <1>8
  <2>2. SamePort(mm, mm)
    BY DEF SamePort
  <2>3. Apart(hs, o) /\ Stopped([h |-> hs[cur], mm |-> mm], o)
    BY <1>1, <1>10, <2>1, <2>2, Stops
  <2>4. OthersKept(o.hs)
    BY <2>1, <2>3 DEF OthersKept, Apart
  <2>5. QED
    BY <2>1, <2>3, <2>4
<1>11. ASSUME o = executed(now, f.mm, insn)
       PROVE  OthersKept(o.hs) /\ \E s : Starts(s) /\ Ran(s, insn, o)
  <2>1. Starts([h |-> now[cur], mm |-> f.mm]) /\ OthersKept(now) /\ HartsOK(now) /\ IsMmu(f.mm)
    BY <1>8
  <2>2. Apart(now, o) /\ Ran([h |-> now[cur], mm |-> f.mm], insn, o)
    BY <1>1, <1>11, <2>1, Runs
  <2>3. OthersKept(o.hs)
    BY <2>1, <2>2 DEF OthersKept, Apart
  <2>4. QED
    BY <2>1, <2>2, <2>3
<1>12. QED
  BY <1>5, <1>9, <1>10, <1>11 DEF failed

\* The hart that runs, after an outcome.
self(o) == [h |-> o.hs[cur], mm |-> o.mm]

\* The changes after which the properties of an instruction still hold.
Harmless == {"mip", "x", "minstret", "serialized", "single_step"}

(* Neither the PMP nor the mode is among them.                              *)
LEMMA Unaffected ==
    ASSUME NEW h, NEW g, HartOK(g), NEW k, NEW F, Kept(g, k, F), F \subseteq Harmless
    PROVE  lockedKept(h, g) /\ privileged(h, g) => lockedKept(h, k) /\ privileged(h, k)
<1>1. HartFields \subseteq DOMAIN g
  BY HartFacts DEF IsHart
<1>2. /\ k.pmpcfg = g.pmpcfg /\ k.pmpaddr = g.pmpaddr
      /\ k.debug_mode = g.debug_mode /\ k.pc = g.pc /\ k.prv = g.prv /\ k.mstatus = g.mstatus
      /\ k.mepc = g.mepc /\ k.mcause = g.mcause /\ k.sepc = g.sepc /\ k.scause = g.scause
  BY <1>1 DEF Kept, Harmless, HartFields
<1>3. lockedKept(h, g) => lockedKept(h, k)
  BY <1>2 DEF lockedKept
<1>4. gated(h, g) => gated(h, k)
  BY <1>2 DEF gated
<1>5. privileged(h, g) => privileged(h, k)
  BY <1>2, <1>4 DEF privileged
<1>6. QED
  BY <1>3, <1>5

(* What is retired is added to minstret.                                    *)
LEMMA Adds ==
    ASSUME NEW s, StateOK(s), NEW k \in Nat,
           NEW r, r = [s EXCEPT !.h.minstret = (@ + k) % 2 ^ XLEN]
    PROVE  /\ StateOK(r) /\ r.mm = s.mm /\ Kept(s.h, r.h, {"minstret"})
           /\ r.h.minstret = (s.h.minstret + k) % 2 ^ XLEN
<1> DEFINE v == (s.h.minstret + k) % 2 ^ XLEN
           g == [s.h EXCEPT !["minstret"] = v]
<1>1. s = [h |-> s.h, mm |-> s.mm] /\ HartOK(s.h) /\ IsMmu(s.mm)
  BY DEF StateOK
<1>2. r = [h |-> g, mm |-> s.mm]
  BY <1>1
<1>3. v \in Word
  <2>1. s.h.minstret \in Word
    BY <1>1, HartFacts
  <2>2. s.h.minstret + k \in Int
    BY <2>1, WordAssumption DEF Word
  <2>3. QED
    BY <2>2, WordCut
<1> HIDE DEF v
<1>4. IsHart(s.h) /\ "minstret" \in DOMAIN s.h
  BY <1>1, HartFacts DEF IsHart, HartFields
<1>5. IsHart(g) /\ Kept(s.h, g, {"minstret"}) /\ g.minstret = v
  BY <1>4, Put
<1> HIDE DEF g
<1>6. HartOK(g)
  BY <1>1, <1>3, <1>5, HartKept DEF FieldOK
<1>7. QED
  BY <1>1, <1>2, <1>5, <1>6 DEF StateOK, v

(* The action of a trigger is a trap, or debug mode.                        *)
LEMMA TriggersAct ==
    ASSUME NEW s, StateOK(s), NEW t, NEW pc, NEW r, r = triggered(s, t, pc)
    PROVE  Trapped(s, r, "breakpoint", pc)
<1>1. CASE r = enter_debug_mode(s, "hwbp")
  <2>1. /\ StateOK(r) /\ SamePort(s.mm, r.mm) /\ r.h.debug_mode = TRUE /\ r.h.pc = DEBUG_ROM_ENTRY
        /\ Kept(s.h, r.h, {"debug_mode", "dcsr", "prv", "dpc", "pc"})
    BY <1>1, EntersDebugMode
  <2>2. Kept(s.h, r.h, TrapFields)
    BY <2>1 DEF Kept, TrapFields
  <2>3. QED
    BY <2>1, <2>2 DEF Trapped, Gated
<1>2. CASE r = take_trap(s, throw("breakpoint", t.address), pc)
  <2> DEFINE e == throw("breakpoint", t.address)
  <2>1. e.cause = "breakpoint"
    BY DEF throw
  <2> HIDE DEF e
  <2>2. Trapped(s, r, e.cause, pc)
    BY <1>2, TakesTrap DEF e
  <2>3. QED
    BY <2>1, <2>2
<1>3. QED
  BY <1>1, <1>2 DEF triggered

(* The gate of a trap is the gate of the instruction that took it.          *)
LEMMA GatesInsn ==
    ASSUME NEW h, HartOK(h), NEW g, Kept(h, g, Harmless \cup {"pc"}), NEW k, NEW cause, NEW epc,
           \/ epc = h.pc
           \/ cause = "breakpoint" /\ \E l \in {2, 4} : epc = (h.pc + l) % 2 ^ XLEN,
           k.prv > g.prv => Gated(g, k, cause, epc)
    PROVE  privileged(h, k)
<1>1. HartFields \subseteq DOMAIN h
  BY HartFacts DEF IsHart
<1>2. g.prv = h.prv /\ g.mtvec = h.mtvec /\ g.stvec = h.stvec /\ g.mstatus = h.mstatus
  BY <1>1 DEF Kept, Harmless, HartFields
<1>3. reported(epc, h, causeOf(cause))
  BY DEF reported
<1>4. Gated(g, k, cause, epc) => gated(h, k)
  BY <1>2, <1>3 DEF Gated, gated
<1>5. QED
  BY <1>2, <1>4 DEF privileged

\* An instruction that throws, or is not reached, changes nothing but what came before it;
\* if the pipe was serialized for it and still is, it was overtaken.
Fails(insn, o) ==
    /\ StateOK(self(o)) /\ Kept(state, o.hs[cur], {"mip", "single_step", "serialized"})
    /\ o.hs[cur].single_step = begun
    /\ o.mm.load_reservation_address = mmu[cur].load_reservation_address
    /\ o.thrown = NoMatch => o.mm.matched_trigger = NoMatch
    /\ o.thrown # NoMatch => o.trap = NoTrap /\ (o.mm.matched_trigger # NoMatch => insn.op \in MemOps)
    /\ o.hs[cur].serialized => state.serialized

(* What an instruction that fails leaves behind.                            *)
LEMMA InsnFails ==
    ASSUME Typed, loop.at # "escaped", NEW insn, NEW o, failed(o),
           NEW s, Starts(s), Ran(s, insn, o) \/ Stopped(s, o), HartsOK(o.hs)
    PROVE  Fails(insn, o)
<1>1. /\ cur \in Harts /\ HartOK(state) /\ IsMmu(mmu[cur]) /\ mmu[cur].matched_trigger = NoMatch
      /\ HartFields \subseteq DOMAIN state /\ state.serialized \in BOOLEAN
  BY HartFacts DEF Typed, HartsOK, MatchesOver, state, IsHart
<1>2. /\ StateOK(s) /\ Kept(state, s.h, {"mip", "single_step"}) /\ SamePort(mmu[cur], s.mm)
      /\ s.h.single_step = begun /\ HartOK(s.h)
  BY DEF Starts, StateOK
<1>3. s.h.serialized = state.serialized
  BY <1>1, <1>2 DEF Kept, HartFields
<1>4. CASE Ran(s, insn, o)
  <2> DEFINE r == view(o)
  <2>1. Executes(s, insn, r) /\ r.h = o.hs[cur] /\ r.mm = o.mm /\ r.trap = o.trap /\ r.thrown = o.thrown
        /\ r.kind = o.kind
    BY <1>4 DEF Ran, view
  <2>2. failed(r) <=> failed(o)
    BY <2>1 DEF failed
  <2> HIDE DEF r
  <2>3. HartOK(o.hs[cur]) /\ IsMmu(o.mm) /\ Kept(s.h, o.hs[cur], {"serialized"})
    BY <2>1, <2>2 DEF Executes
  <2>4. StateOK(self(o))
    BY <2>3 DEF StateOK, self
  <2>5. Kept(state, o.hs[cur], {"mip", "single_step", "serialized"})
    BY <1>2, <2>3 DEF Kept
  <2>6. o.hs[cur].single_step = begun
    BY <1>1, <1>2, <2>3 DEF Kept, HartFields
  <2>7. o.mm.load_reservation_address = mmu[cur].load_reservation_address
    BY <1>2, <2>1, <2>2 DEF Executes, Reserves, SamePort
  <2>8. /\ o.thrown = NoMatch => o.mm.matched_trigger = NoMatch
        /\ o.thrown # NoMatch => o.trap = NoTrap /\ insn.op \in MemOps
    BY <1>1, <1>2, <2>1 DEF Executes, Matches, SamePort
  <2>9. o.hs[cur].serialized => state.serialized
    BY <1>3, <2>1, <2>2 DEF Executes, Serializes
  <2>10. QED
    BY <2>4, <2>5, <2>6, <2>7, <2>8, <2>9 DEF Fails
<1>5. CASE Stopped(s, o)
  <2>1. /\ o.hs[cur] = s.h /\ IsMmu(o.mm) /\ SamePort(s.mm, o.mm)
        /\ (o.thrown # NoMatch => o.trap = NoTrap)
    BY <1>5 DEF Stopped
  <2>2. StateOK(self(o))
    BY <1>2, <2>1 DEF StateOK, self
  <2>3. Kept(state, o.hs[cur], {"mip", "single_step", "serialized"})
    BY <1>2, <2>1 DEF Kept
  <2>4. /\ o.mm.load_reservation_address = mmu[cur].load_reservation_address
        /\ o.mm.matched_trigger = NoMatch
    BY <1>1, <1>2, <2>1 DEF SamePort
  <2>5. QED
    BY <1>2, <1>3, <2>1, <2>2, <2>3, <2>4 DEF Fails
<1>6. QED
  BY <1>4, <1>5

\* When it is executed, the pipe is serialized before and no longer after an access to a register.
SerializesPipe(insn, o) ==
    /\ o.kind \in {"plain", "before", "after", "wfi"}
    /\ o.kind = "before" => insn.op \in CsrOps /\ ~state.serialized
    /\ o.kind = "wfi" => insn.op = "wfi"
    /\ insn.op \in CsrOps => o.kind \in {"before", "after"}
    /\ insn.op \in CsrOps /\ o.kind = "after" => state.serialized /\ ~o.hs[cur].serialized
    /\ insn.op \notin CsrOps => o.hs[cur].serialized = state.serialized

\* An instruction that is executed.
Succeeds(insn, o) ==
    /\ StateOK(self(o)) /\ lockedKept(state, o.hs[cur])
    /\ o.hs[cur].prv > state.prv => state.debug_mode
    /\ o.mm.matched_trigger = NoMatch
    /\ Reserves(me, insn, view(o))
    /\ SerializesPipe(insn, o)
    /\ Counts(me, insn, view(o))
    /\ insn.op # "dret" => o.hs[cur].single_step = begun /\ o.hs[cur].debug_mode = state.debug_mode
    /\ insn.op = "dret" => /\ state.debug_mode
                           /\ state.dcsr.step => o.hs[cur].single_step = "stepping"

(* What an instruction that does not fail leaves behind.                    *)
LEMMA InsnSucceeds ==
    ASSUME Typed, loop.at # "escaped", NEW insn, NEW o, ~failed(o),
           NEW s, Starts(s), Ran(s, insn, o), HartsOK(o.hs)
    PROVE  Succeeds(insn, o)
<1> DEFINE r == view(o)
<1>1. /\ cur \in Harts /\ HartOK(state) /\ IsMmu(mmu[cur]) /\ mmu[cur].matched_trigger = NoMatch
      /\ HartFields \subseteq DOMAIN state
  BY HartFacts DEF Typed, HartsOK, MatchesOver, state, IsHart
<1>2. /\ StateOK(s) /\ Kept(state, s.h, {"mip", "single_step"}) /\ SamePort(mmu[cur], s.mm)
      /\ s.h.single_step = begun /\ HartOK(s.h)
  BY DEF Starts, StateOK
<1>3. /\ s.h.serialized = state.serialized /\ s.h.prv = state.prv /\ s.h.debug_mode = state.debug_mode
      /\ s.h.pmpcfg = state.pmpcfg /\ s.h.pmpaddr = state.pmpaddr /\ s.h.minstret = state.minstret
      /\ s.h.dcsr = state.dcsr
  BY <1>1, <1>2 DEF Kept, HartFields
<1>4. /\ Executes(s, insn, r) /\ r.h = o.hs[cur] /\ r.mm = o.mm /\ r.trap = o.trap
      /\ r.thrown = o.thrown /\ r.kind = o.kind
  BY DEF Ran, view
<1>5. ~failed(r) /\ o.thrown = NoMatch /\ me.h = state /\ me.mm = mmu[cur]
  BY <1>4 DEF failed, me
<1> HIDE DEF r
<1>6. StateOK(self(o))
  BY <1>4 DEF StateOK, self, Executes
<1>7. lockedKept(state, o.hs[cur])
  <2>1. lockedKept(state, s.h) /\ lockedKept(s.h, o.hs[cur])
    BY <1>3, <1>4, LockedSame DEF Executes
  <2>2. QED
    BY <2>1, LockedTransitive
<1>8. o.hs[cur].prv > state.prv => state.debug_mode
  BY <1>3, <1>4 DEF Executes
<1>9. o.mm.matched_trigger = NoMatch
  BY <1>1, <1>2, <1>4, <1>5 DEF Executes, Matches, SamePort
<1>10. Reserves(me, insn, r)
  BY <1>2, <1>4, <1>5 DEF Executes, Reserves, SamePort
<1>11. SerializesPipe(insn, o)
  BY <1>3, <1>4, <1>5 DEF Executes, Serializes, SerializesPipe
<1>12. Counts(me, insn, r)
  BY <1>3, <1>4, <1>5 DEF Executes, Counts
<1>13. /\ insn.op # "dret" => o.hs[cur].single_step = begun /\ o.hs[cur].debug_mode = state.debug_mode
       /\ insn.op = "dret" => /\ state.debug_mode
                              /\ state.dcsr.step => o.hs[cur].single_step = "stepping"
  BY <1>2, <1>3, <1>4, <1>5 DEF Executes, Steps
<1>14. QED
  BY <1>6, <1>7, <1>8, <1>9, <1>10, <1>11, <1>12, <1>13 DEF Succeeds, r

\* An instruction that is executed again after a trigger, from where o left it.
Restarts(insn, o, z) ==
    /\ StateOK(self(z)) /\ Kept(state, z.hs[cur], {"mip", "single_step", "serialized", "x"})
    /\ z.hs[cur].single_step = begun /\ z.hs[cur].serialized = o.hs[cur].serialized
    /\ Reserves(me, insn, view(z))
    /\ ~failed(z) => z.npc = (state.pc + insn.length) % 2 ^ XLEN

(* An instruction that is executed again after a trigger.                   *)
LEMMA InsnRestarts ==
    ASSUME Typed, NEW insn, wellFormed(insn), insn.op \in MemOps, NEW o, Fails(insn, o), OthersKept(o.hs),
           NEW z, z = restarted(o, insn)
    PROVE  OthersKept(z.hs) /\ Restarts(insn, o, z)
<1> DEFINE f == load_insn(o.hs[cur], o.mm, mem, state.pc, insn.length)
           r == view(z)
           s == [h |-> o.hs[cur], mm |-> f.mm]
<1>1. cur \in Harts /\ HartOK(state) /\ IsMmu(mmu[cur]) /\ HartFields \subseteq DOMAIN state
      /\ HartsOK(o.hs) /\ me.mm = mmu[cur]
  BY HartFacts DEF Typed, HartsOK, state, IsHart, OthersKept, me
<1>2. /\ IsMmu(o.mm) /\ Kept(state, o.hs[cur], {"mip", "single_step", "serialized"})
      /\ o.hs[cur].single_step = begun
      /\ o.mm.load_reservation_address = mmu[cur].load_reservation_address
      /\ o.thrown # NoMatch => o.trap = NoTrap
  BY DEF Fails, StateOK, self
<1>3. Fetched(o.mm, f)
  BY <1>2, Fetches
<1>4. \/ failed(f) /\ z = stopped(o.hs, f.mm, f.trap, f.thrown)
      \/ z = executed(o.hs, f.mm, insn)
  BY DEF restarted, Let
<1> HIDE DEF f
<1>5. IsMmu(f.mm) /\ SamePort(o.mm, f.mm) /\ (f.thrown # NoMatch => f.trap = NoTrap)
  BY <1>3 DEF Fetched
<1>6. Apart(o.hs, z) /\ (Ran(s, insn, z) \/ Stopped(s, z))
  <2>1. SamePort(f.mm, f.mm)
    BY DEF SamePort
  <2>2. CASE failed(f) /\ z = stopped(o.hs, f.mm, f.trap, f.thrown)
    BY <1>1, <1>5, <2>1, <2>2, Stops DEF failed
  <2>3. CASE z = executed(o.hs, f.mm, insn)
    BY <1>1, <1>5, <2>3, Runs
  <2>4. QED
    BY <1>4, <2>2, <2>3
<1>7. OthersKept(z.hs)
  BY <1>6 DEF OthersKept, Apart
<1>8. CASE Ran(s, insn, z)
  <2>1. /\ Executes(s, insn, r) /\ r.h = z.hs[cur] /\ r.mm = z.mm /\ r.trap = z.trap
        /\ r.thrown = z.thrown /\ r.kind = z.kind
        /\ ~failed(z) => z.npc = (state.pc + insn.length) % 2 ^ XLEN
    BY <1>8 DEF Ran, view
  <2>2. s.h = o.hs[cur] /\ s.mm = f.mm /\ insn.op \notin CsrOps /\ insn.op # "dret"
    BY DEF MemOps, CsrOps
  <2> HIDE DEF r, s
  <2>3. /\ HartOK(z.hs[cur]) /\ IsMmu(z.mm) /\ Kept(o.hs[cur], z.hs[cur], {"x"})
        /\ z.hs[cur].single_step = o.hs[cur].single_step
        /\ z.hs[cur].serialized = o.hs[cur].serialized
    BY <2>1, <2>2 DEF Executes, Steps, Serializes
  <2>4. StateOK(self(z))
    BY <2>3 DEF StateOK, self
  <2>5. Kept(state, z.hs[cur], {"mip", "single_step", "serialized", "x"})
    BY <1>2, <2>3 DEF Kept
  <2>6. Reserves(me, insn, r)
    BY <1>1, <1>2, <1>5, <2>1, <2>2 DEF Executes, Reserves, SamePort
  <2>7. QED
    BY <1>2, <1>7, <2>1, <2>3, <2>4, <2>5, <2>6 DEF Restarts, r
<1>9. CASE Stopped(s, z)
  <2>1. failed(z) /\ z.hs[cur] = o.hs[cur] /\ IsMmu(z.mm) /\ SamePort(f.mm, z.mm)
    BY <1>9 DEF Stopped
  <2>2. StateOK(self(z))
    BY <2>1 DEF StateOK, self, Fails
  <2>3. Kept(state, z.hs[cur], {"mip", "single_step", "serialized", "x"})
    BY <1>2, <2>1 DEF Kept
  <2>4. r.mm = z.mm /\ failed(r) /\ r.h = z.hs[cur]
    BY <2>1 DEF view, failed
  <2> HIDE DEF r
  <2>5. Reserves(me, insn, r)
    BY <1>1, <1>2, <1>5, <2>1, <2>4 DEF Reserves, SamePort
  <2>6. QED
    BY <1>2, <1>7, <2>1, <2>2, <2>3, <2>5 DEF Restarts, r
<1>10. QED
  BY <1>6, <1>8, <1>9

-----------------------------------------------------------------------------
(* The loop after an instruction *)

\* minstret is w's, and k more.
Counted(w, r, k) ==
    /\ StateOK(r) /\ r.mm = w.mm /\ Kept(w.h, r.h, {"minstret"})
    /\ r.h.minstret = (w.h.minstret + k) % 2 ^ XLEN

(* What was retired is counted.                                             *)
LEMMA CountsUp ==
    ASSUME NEW s, StateOK(s), NEW k \in Nat, NEW r,
           r = [s EXCEPT !.h.minstret = (@ + k) % 2 ^ XLEN]
    PROVE  Counted(s, r, k)
  BY Adds DEF Counted

(* Nothing is left of a turn that is over.                                  *)
LEMMA LoopEnds ==
    ASSUME NEW l, l = [Idle EXCEPT !.at = "end"]
    PROVE  LoopOK(l) /\ l.at = "end" /\ l.instret = 0
  BY DEF LoopOK, LoopFields, Idle

(* A turn goes on at the top of the loop.                                   *)
LEMMA LoopGoesOn ==
    ASSUME NEW l, l = [f \in LoopFields |-> l[f]], l.at = "top", l.n \in Nat, l.n > 0, l.instret = 0,
           l.again = NoInsn \/ wellFormed(l.again)
    PROVE  LoopOK(l)
<1>1. l.instret \in Nat
  OBVIOUS
<1>2. QED
  BY <1>1 DEF LoopOK

(* The turn ends.                                                           *)
LEMMA LoopStops ==
    ASSUME Typed, NEW w, StateOK(w), NEW a, a = afterStop(w)
    PROVE  /\ Counted(w, a.s, loop.instret) /\ ~a.retired /\ a.retired \in BOOLEAN
           /\ LoopOK(a.l) /\ a.l.at = "end"
<1>1. loop.instret \in Nat
  BY DEF Typed, LoopOK
<1>2. a.s = [w EXCEPT !.h.minstret = (@ + loop.instret) % 2 ^ XLEN]
  BY DEF afterStop
<1>3. Counted(w, a.s, loop.instret)
  BY <1>1, <1>2, Adds DEF Counted
<1>4. LoopOK(a.l) /\ a.l.at = "end" /\ a.retired = FALSE
  BY DEF afterStop, LoopOK, LoopFields, Idle
<1>5. QED
  BY <1>3, <1>4

(* The inner loop is left.                                                  *)
LEMMA LoopBreaks ==
    ASSUME Typed, loop.at = "inner", NEW w, StateOK(w),
           NEW k \in {loop.instret, loop.instret + 1}, NEW again, again = NoInsn \/ wellFormed(again),
           NEW a, a = afterBreak(w, k, again)
    PROVE  /\ Counted(w, a.s, k) /\ (a.retired <=> k = loop.instret + 1) /\ a.retired \in BOOLEAN
           /\ LoopOK(a.l) /\ a.l.at \in {"top", "end"}
           /\ k = loop.instret => a.l.at = "top" /\ a.l.again = again
<1>1. loop.instret \in Nat /\ loop.n \in Nat /\ loop.instret < loop.n
  BY DEF Typed, LoopOK
<1>2. a.s = [w EXCEPT !.h.minstret = (@ + k) % 2 ^ XLEN] /\ a.retired = (k > loop.instret)
  BY DEF afterBreak
<1>3. Counted(w, a.s, k)
  <2>1. k \in Nat /\ a.s = [w EXCEPT !.h.minstret = (@ + k) % 2 ^ XLEN]
    BY <1>1, <1>2
  <2>2. QED
    BY <2>1, Adds DEF Counted
<1>4. (a.retired <=> k = loop.instret + 1) /\ a.retired \in BOOLEAN
  <2> DEFINE b == k > loop.instret
  <2>1. (b <=> k = loop.instret + 1) /\ b \in BOOLEAN
    BY <1>1
  <2>2. a.retired = b
    BY <1>2
  <2> HIDE DEF b
  <2>3. QED
    BY <2>1, <2>2
<1>5. CASE loop.n = k
  <2>1. a.l = [Idle EXCEPT !.at = "end"]
    BY <1>5 DEF afterBreak
  <2>2. LoopOK(a.l) /\ a.l.at = "end"
    BY <2>1, LoopEnds
  <2>3. k # loop.instret
    BY <1>1, <1>5
  <2>4. QED
    BY <1>3, <1>4, <2>2, <2>3
<1>6. CASE loop.n # k
  <2>1. a.l = [Idle EXCEPT !.at = "top", !.n = loop.n - k, !.again = again]
    BY <1>6 DEF afterBreak
  <2>2. loop.n - k \in Nat /\ loop.n - k > 0
    BY <1>1, <1>6
  <2> DEFINE l == a.l
  <2>3. /\ l = [f \in LoopFields |-> l[f]] /\ l.at = "top" /\ l.n = loop.n - k /\ l.instret = 0
        /\ l.again = again
    BY <2>1 DEF LoopFields, Idle
  <2> HIDE DEF l
  <2>5. LoopOK(l)
    BY <2>2, <2>3, LoopGoesOn
  <2>4. QED
    BY <1>3, <1>4, <2>3, <2>5 DEF l
<1>7. QED
  BY <1>5, <1>6

(* The inner loop goes on, or n is reached.                                 *)
LEMMA LoopRetires ==
    ASSUME Typed, loop.at = "inner", NEW w, StateOK(w), NEW a, a = afterRetire(w)
    PROVE  /\ a.retired = TRUE /\ LoopOK(a.l)
           /\ \/ a.l.at = "end" /\ Counted(w, a.s, loop.instret + 1)
              \/ /\ a.l.at = "inner" /\ a.s = w
                 /\ a.l.instret = loop.instret + 1 /\ a.l.slow = loop.slow
<1> DEFINE l == [loop EXCEPT !.instret = @ + 1, !.again = NoInsn]
<1>1. /\ loop.instret \in Nat /\ loop.n \in Nat /\ loop.instret < loop.n
      /\ loop = [f \in LoopFields |-> loop[f]]
  BY DEF Typed, LoopOK
<1>2. /\ l = [f \in LoopFields |-> l[f]] /\ l.instret = loop.instret + 1 /\ l.again = NoInsn
      /\ l.at = "inner" /\ l.n = loop.n /\ l.slow = loop.slow
  BY <1>1 DEF LoopFields
<1>3. /\ a.retired = TRUE
      /\ a.l = IF l.instret = l.n THEN [Idle EXCEPT !.at = "end"] ELSE l
      /\ a.s = IF l.instret = l.n THEN [w EXCEPT !.h.minstret = (@ + l.instret) % 2 ^ XLEN] ELSE w
  BY DEF afterRetire
<1> HIDE DEF l
<1>4. CASE l.instret = l.n
  <2>1. LoopOK(a.l) /\ a.l.at = "end"
    BY <1>3, <1>4, LoopEnds
  <2>2. l.instret \in Nat /\ a.s = [w EXCEPT !.h.minstret = (@ + l.instret) % 2 ^ XLEN]
    BY <1>1, <1>2, <1>3, <1>4
  <2>3. Counted(w, a.s, l.instret)
    BY <2>2, CountsUp, Zenon
  <2>4. QED
    BY <1>2, <1>3, <2>1, <2>3
<1>5. CASE l.instret # l.n
  <2>1. l.instret < l.n /\ l.instret \in Nat
    BY <1>1, <1>2, <1>5
  <2>2. LoopOK(l)
    BY <1>1, <1>2, <2>1 DEF LoopOK
  <2>3. QED
    BY <1>2, <1>3, <1>5, <2>2
<1>6. QED
  BY <1>4, <1>5

-----------------------------------------------------------------------------
(* What holds after an instruction *)

HoldsReservation(insn, last, a) ==
    /\ \/ a.s.mm.load_reservation_address \in {mmu[cur].load_reservation_address, -1}
       \/ insn.op = "lr" /\ a.retired
    /\ scSucceeded(last, insn) => /\ mmu[cur].load_reservation_address # -1
                                  /\ a.s.mm.load_reservation_address = -1

\* What minstret is before the retired instructions are added to it.
base(insn, a) ==
    IF insn.op = "csrrw" /\ insn.csr = "minstret" /\ a.retired THEN (insn.val + 2 ^ XLEN - 1) % 2 ^ XLEN
    ELSE state.minstret

HoldsCount(insn, a) ==
    /\ a.retired \in BOOLEAN
    /\ a.l.at = "inner" => /\ a.retired /\ insn.op \notin CsrOps
                           /\ a.l.instret = loop.instret + 1 /\ a.s.h.minstret = state.minstret
    /\ a.l.at \in {"top", "end"} =>
           a.s.h.minstret = (base(insn, a) + (IF a.retired THEN loop.instret + 1 ELSE loop.instret)) % 2 ^ XLEN
    /\ a.l.at = "escaped" => ~a.retired
    /\ a.retired /\ insn.op \in CsrOps => state.serialized
    /\ a.retired /\ insn.op = "csrr" /\ insn.csr \in {"minstret", "instret"} => a.s.h.x = state.minstret

HoldsSerial(insn, o, a) ==
    a.s.h.serialized =>
        \/ /\ insn.op \in CsrOps /\ a.l.at = "top" /\ a.l.again = insn /\ ~a.retired
           /\ o.kind = "before" /\ o.trap = NoTrap
        \/ state.serialized /\ (insn.op \notin CsrOps \/ overtaken(o))

HoldsStep(insn, o, a) ==
    /\ insn.op = "dret" /\ a.retired => /\ state.debug_mode
                                        /\ state.dcsr.step => a.s.h.single_step = "stepping"
    /\ ~(insn.op = "dret" /\ a.retired) =>
           /\ state.debug_mode => a.s.h.debug_mode
           /\ a.s.h.debug_mode \/ (a.s.h.single_step = begun /\ (begun = "stepped" => o.trap = NoTrap))
    /\ a.l.at = "inner" =>
           /\ a.l.slow = loop.slow
           /\ \/ state.debug_mode
              \/ a.s.h.single_step = begun /\ a.s.h.debug_mode = state.debug_mode

Holds(insn, o, last, a) ==
    /\ StateOK(a.s) /\ LoopOK(a.l) /\ a.l.at # "idle"
    /\ a.l.at # "escaped" => a.s.mm.matched_trigger = NoMatch
    /\ lockedKept(state, a.s.h) /\ privileged(state, a.s.h)
    /\ HoldsReservation(insn, last, a) /\ HoldsCount(insn, a)
    /\ HoldsSerial(insn, o, a) /\ HoldsStep(insn, o, a)

(* What counting leaves alone.                                              *)
LEMMA CountedKeeps ==
    ASSUME NEW w, StateOK(w), NEW r, NEW k, Counted(w, r, k)
    PROVE  /\ StateOK(r) /\ r.mm = w.mm /\ r.h.minstret = (w.h.minstret + k) % 2 ^ XLEN
           /\ lockedKept(state, w.h) /\ privileged(state, w.h) => lockedKept(state, r.h) /\ privileged(state, r.h)
           /\ r.h.serialized = w.h.serialized /\ r.h.x = w.h.x
           /\ r.h.single_step = w.h.single_step /\ r.h.debug_mode = w.h.debug_mode
<1>1. HartOK(w.h) /\ HartFields \subseteq DOMAIN w.h /\ Kept(w.h, r.h, {"minstret"})
  BY HartFacts DEF StateOK, IsHart, Counted
<1>2. {"minstret"} \subseteq Harmless
  BY DEF Harmless
<1>3. lockedKept(state, w.h) /\ privileged(state, w.h) => lockedKept(state, r.h) /\ privileged(state, r.h)
  BY <1>1, <1>2, Unaffected
<1>4. /\ r.h.serialized = w.h.serialized /\ r.h.x = w.h.x
      /\ r.h.single_step = w.h.single_step /\ r.h.debug_mode = w.h.debug_mode
  BY <1>1 DEF Kept, HartFields
<1>5. QED
  BY <1>3, <1>4 DEF Counted

(* A trap is taken.                                                         *)
LEMMA HoldsTrap ==
    ASSUME Typed, loop.at = "inner", NEW insn, NEW o, Fails(insn, o), o.trap # NoTrap,
           NEW a, a = afterStop(caught(self(o), o.trap, state.pc)), NEW last, last = lastOf(o, insn)
    PROVE  Holds(insn, o, last, a)
<1> DEFINE s == self(o)
           w == caught(s, o.trap, state.pc)
<1>1. HartOK(state) /\ HartFields \subseteq DOMAIN state
  BY HartFacts DEF Typed, HartsOK, state, IsHart
<1>2. /\ StateOK(s) /\ s.h = o.hs[cur] /\ s.mm = o.mm
      /\ Kept(state, s.h, {"mip", "single_step", "serialized"}) /\ s.h.single_step = begun
      /\ s.mm.load_reservation_address = mmu[cur].load_reservation_address
      /\ s.mm.matched_trigger = NoMatch /\ (s.h.serialized => state.serialized)
      /\ last = o
  BY DEF Fails, self, lastOf
<1>3. failed(o) /\ o.thrown = NoMatch
  BY DEF failed, Fails
<1> HIDE DEF s
<1>4. Caught(s, w, o.trap.cause, state.pc)
  BY <1>2, Catches
<1> HIDE DEF w
<1>5. /\ StateOK(w) /\ SamePort(s.mm, w.mm) /\ Kept(s.h, w.h, TrapFields \cup {"single_step"})
      /\ IF begun = "stepped" THEN w.h.debug_mode ELSE w.h.single_step = begun
      /\ s.h.debug_mode => w.h.debug_mode
      /\ w.h.prv > s.h.prv => Gated(s.h, w.h, o.trap.cause, state.pc)
  BY <1>2, <1>4 DEF Caught
<1>6. /\ s.h.pmpcfg = state.pmpcfg /\ s.h.pmpaddr = state.pmpaddr /\ s.h.debug_mode = state.debug_mode
      /\ s.h.minstret = state.minstret /\ DOMAIN s.h = DOMAIN state
  BY <1>1, <1>2 DEF Kept, HartFields
<1>7. /\ w.h.pmpcfg = state.pmpcfg /\ w.h.pmpaddr = state.pmpaddr
      /\ w.h.minstret = state.minstret /\ w.h.serialized = s.h.serialized
  BY <1>1, <1>5, <1>6 DEF Kept, HartFields, TrapFields
<1>8. lockedKept(state, w.h)
  BY <1>7, LockedSame
<1>9. privileged(state, w.h)
  <2>1. Kept(state, s.h, Harmless \cup {"pc"})
    BY <1>2 DEF Kept, Harmless
  <2>2. QED
    BY <1>1, <1>5, <2>1, GatesInsn
<1>10. /\ Counted(w, a.s, loop.instret) /\ ~a.retired /\ a.retired \in BOOLEAN
       /\ LoopOK(a.l) /\ a.l.at = "end"
  BY <1>5, LoopStops DEF w, s
<1>11. /\ StateOK(a.s) /\ a.s.mm = w.mm /\ a.s.h.minstret = (w.h.minstret + loop.instret) % 2 ^ XLEN
       /\ lockedKept(state, a.s.h) /\ privileged(state, a.s.h)
       /\ a.s.h.serialized = w.h.serialized /\ a.s.h.x = w.h.x
       /\ a.s.h.single_step = w.h.single_step /\ a.s.h.debug_mode = w.h.debug_mode
  BY <1>5, <1>8, <1>9, <1>10, CountedKeeps
<1>12. HoldsReservation(insn, last, a)
  BY <1>2, <1>3, <1>5, <1>11 DEF HoldsReservation, SamePort, scSucceeded
<1>13. HoldsCount(insn, a)
  BY <1>7, <1>10, <1>11 DEF HoldsCount, base
<1>14. HoldsSerial(insn, o, a)
  BY <1>2, <1>3, <1>7, <1>11 DEF HoldsSerial, overtaken
<1>15. HoldsStep(insn, o, a)
  BY <1>5, <1>6, <1>10, <1>11 DEF HoldsStep
<1>16. a.s.mm.matched_trigger = NoMatch
  BY <1>2, <1>5, <1>11 DEF SamePort
<1>17. QED
  BY <1>10, <1>11, <1>12, <1>13, <1>14, <1>15, <1>16 DEF Holds

(* A trigger fires before the instruction.                                  *)
LEMMA HoldsBefore ==
    ASSUME Typed, loop.at = "inner", NEW insn, NEW o, Fails(insn, o), o.thrown # NoMatch,
           o.mm.matched_trigger = NoMatch,
           NEW a, a = afterBreak(triggered(self(o), o.thrown, state.pc), loop.instret, NoInsn),
           NEW last, last = lastOf(o, insn)
    PROVE  Holds(insn, o, last, a)
<1> DEFINE s == self(o)
           w == triggered(s, o.thrown, state.pc)
<1>1. HartOK(state) /\ HartFields \subseteq DOMAIN state
  BY HartFacts DEF Typed, HartsOK, state, IsHart
<1>2. /\ StateOK(s) /\ s.h = o.hs[cur] /\ s.mm = o.mm
      /\ Kept(state, s.h, {"mip", "single_step", "serialized"}) /\ s.h.single_step = begun
      /\ s.mm.load_reservation_address = mmu[cur].load_reservation_address
      /\ s.mm.matched_trigger = NoMatch /\ (s.h.serialized => state.serialized)
      /\ last = o
  BY DEF Fails, self, lastOf
<1>3. failed(o) /\ o.trap = NoTrap
  BY DEF failed, Fails
<1> HIDE DEF s
<1>4. Trapped(s, w, "breakpoint", state.pc)
  BY <1>2, TriggersAct
<1> HIDE DEF w
<1>5. /\ StateOK(w) /\ SamePort(s.mm, w.mm) /\ Kept(s.h, w.h, TrapFields)
      /\ s.h.debug_mode => w.h.debug_mode
      /\ w.h.prv > s.h.prv => Gated(s.h, w.h, "breakpoint", state.pc)
  BY <1>4 DEF Trapped
<1>6. /\ s.h.pmpcfg = state.pmpcfg /\ s.h.pmpaddr = state.pmpaddr /\ s.h.debug_mode = state.debug_mode
      /\ s.h.minstret = state.minstret /\ DOMAIN s.h = DOMAIN state
  BY <1>1, <1>2 DEF Kept, HartFields
<1>7. /\ w.h.pmpcfg = state.pmpcfg /\ w.h.pmpaddr = state.pmpaddr
      /\ w.h.minstret = state.minstret /\ w.h.serialized = s.h.serialized
      /\ w.h.single_step = s.h.single_step
  BY <1>1, <1>5, <1>6 DEF Kept, HartFields, TrapFields
<1>8. lockedKept(state, w.h)
  BY <1>7, LockedSame
<1>9. privileged(state, w.h)
  <2>1. Kept(state, s.h, Harmless \cup {"pc"})
    BY <1>2 DEF Kept, Harmless
  <2>2. QED
    BY <1>1, <1>5, <2>1, GatesInsn
<1>10. /\ Counted(w, a.s, loop.instret) /\ ~a.retired /\ a.retired \in BOOLEAN
       /\ LoopOK(a.l) /\ a.l.at = "top"
  <2>1. loop.instret \in Nat /\ loop.instret # loop.instret + 1
    BY DEF Typed, LoopOK
  <2>2. QED
    BY <1>5, <2>1, LoopBreaks DEF w, s
<1>11. /\ StateOK(a.s) /\ a.s.mm = w.mm /\ a.s.h.minstret = (w.h.minstret + loop.instret) % 2 ^ XLEN
       /\ lockedKept(state, a.s.h) /\ privileged(state, a.s.h)
       /\ a.s.h.serialized = w.h.serialized /\ a.s.h.x = w.h.x
       /\ a.s.h.single_step = w.h.single_step /\ a.s.h.debug_mode = w.h.debug_mode
  BY <1>5, <1>8, <1>9, <1>10, CountedKeeps
<1>12. HoldsReservation(insn, last, a)
  BY <1>2, <1>3, <1>5, <1>11 DEF HoldsReservation, SamePort, scSucceeded
<1>13. HoldsCount(insn, a)
  BY <1>7, <1>10, <1>11 DEF HoldsCount, base
<1>14. HoldsSerial(insn, o, a)
  BY <1>2, <1>3, <1>7, <1>11 DEF HoldsSerial, overtaken
<1>15. HoldsStep(insn, o, a)
  BY <1>2, <1>3, <1>5, <1>6, <1>7, <1>10, <1>11 DEF HoldsStep
<1>16. a.s.mm.matched_trigger = NoMatch
  BY <1>2, <1>5, <1>11 DEF SamePort
<1>17. QED
  BY <1>10, <1>11, <1>12, <1>13, <1>14, <1>15, <1>16 DEF Holds

(* What the restart throws leaves the loop.                                 *)
LEMMA HoldsEscape ==
    ASSUME Typed, loop.at = "inner", NEW insn, insn.op \in MemOps, NEW o, Fails(insn, o), o.thrown # NoMatch,
           NEW z, Restarts(insn, o, z), failed(z),
           NEW a, a = [s |-> self(z), l |-> [Idle EXCEPT !.at = "escaped"], retired |-> FALSE]
    PROVE  Holds(insn, o, z, a)
<1> DEFINE s == self(z)
           r == view(z)
<1>1. HartOK(state) /\ HartFields \subseteq DOMAIN state /\ me.mm = mmu[cur] /\ state.prv \in 0 .. 3
  BY HartFacts DEF Typed, HartsOK, state, IsHart, me
<1>2. /\ StateOK(s) /\ s.h = z.hs[cur] /\ s.mm = z.mm
      /\ Kept(state, s.h, {"mip", "single_step", "serialized", "x"}) /\ s.h.single_step = begun
      /\ s.h.serialized = o.hs[cur].serialized /\ Reserves(me, insn, r) /\ r.mm = z.mm
  BY DEF Restarts, self, view
<1>3. failed(r) /\ failed(o) /\ o.trap = NoTrap
  BY DEF failed, Fails, view
<1> HIDE DEF s, r
<1>4. a.s = s /\ a.retired = FALSE /\ a.l = [Idle EXCEPT !.at = "escaped"]
  BY DEF s
<1>5. LoopOK(a.l) /\ a.l.at = "escaped"
  BY <1>4 DEF LoopOK, LoopFields, Idle
<1>6. s.mm.load_reservation_address = mmu[cur].load_reservation_address
  BY <1>1, <1>2, <1>3 DEF Reserves
<1>7. /\ s.h.pmpcfg = state.pmpcfg /\ s.h.pmpaddr = state.pmpaddr /\ s.h.debug_mode = state.debug_mode
      /\ s.h.prv = state.prv
  BY <1>1, <1>2 DEF Kept, HartFields
<1>8. lockedKept(state, s.h)
  BY <1>7, LockedSame
<1>9. privileged(state, s.h)
  BY <1>1, <1>7 DEF privileged
<1>10. HoldsReservation(insn, z, a)
  BY <1>4, <1>6 DEF HoldsReservation, scSucceeded
<1>11. HoldsCount(insn, a)
  BY <1>4, <1>5 DEF HoldsCount
<1>12. HoldsSerial(insn, o, a)
  BY <1>2, <1>3, <1>4 DEF HoldsSerial, overtaken, Fails
<1>13. HoldsStep(insn, o, a)
  BY <1>2, <1>3, <1>4, <1>5, <1>7 DEF HoldsStep
<1>14. QED
  BY <1>2, <1>4, <1>5, <1>8, <1>9, <1>10, <1>11, <1>12, <1>13 DEF Holds

(* A trigger fires after the instruction.                                   *)
LEMMA HoldsAfter ==
    ASSUME Typed, loop.at = "inner", NEW insn, wellFormed(insn), insn.op \in MemOps,
           NEW o, Fails(insn, o), o.thrown # NoMatch, NEW z, Restarts(insn, o, z), ~failed(z),
           NEW u, u = [h |-> [z.hs[cur] EXCEPT !.pc = z.npc],
                       mm |-> [z.mm EXCEPT !.matched_trigger = NoMatch]],
           NEW a, a = afterBreak(triggered(u, o.thrown, z.npc), loop.instret + 1, NoInsn)
    PROVE  Holds(insn, o, z, a)
<1> DEFINE s == self(z)
           r == view(z)
           w == triggered(u, o.thrown, z.npc)
<1>1. HartOK(state) /\ HartFields \subseteq DOMAIN state /\ me.mm = mmu[cur]
  BY HartFacts DEF Typed, HartsOK, state, IsHart, me
<1>2. /\ StateOK(s) /\ s.h = z.hs[cur] /\ s.mm = z.mm
      /\ Kept(state, s.h, {"mip", "single_step", "serialized", "x"}) /\ s.h.single_step = begun
      /\ s.h.serialized = o.hs[cur].serialized /\ Reserves(me, insn, r) /\ r.mm = z.mm /\ r.h = z.hs[cur]
      /\ z.npc = (state.pc + insn.length) % 2 ^ XLEN
  BY DEF Restarts, self, view
<1>3. ~failed(r) /\ failed(o) /\ o.trap = NoTrap /\ insn.op \notin CsrOps /\ insn.op # "dret"
  BY DEF failed, Fails, view, MemOps, CsrOps
<1> HIDE DEF s, r
<1>4. StateOK(u) /\ Kept(s.h, u.h, {"pc"})
      /\ u.mm.load_reservation_address = s.mm.load_reservation_address /\ u.mm.matched_trigger = NoMatch
  <2> DEFINE v == z.npc
             h == s.h
             g == [h EXCEPT !["pc"] = v]
             mm == [s.mm EXCEPT !.matched_trigger = NoMatch]
  <2>1. HartOK(h) /\ IsMmu(s.mm) /\ "pc" \in FreeFields /\ u = [h |-> g, mm |-> mm]
    BY <1>2 DEF StateOK, FreeFields
  <2>2. /\ IsMmu(mm) /\ mm.load_reservation_address = s.mm.load_reservation_address
        /\ mm.matched_trigger = NoMatch
    BY <2>1 DEF IsMmu, MmuFields
  <2> HIDE DEF v, h
  <2>3. g = [h EXCEPT !["pc"] = v]
    OBVIOUS
  <2> HIDE DEF g, mm
  <2>4. HartOK(g) /\ Kept(h, g, {"pc"})
    BY <2>1, <2>3, PutsField
  <2>5. QED
    BY <2>1, <2>2, <2>4 DEF StateOK, h
<1>5. Trapped(u, w, "breakpoint", z.npc)
  BY <1>4, TriggersAct
<1> HIDE DEF w
<1>6. /\ StateOK(w) /\ SamePort(u.mm, w.mm) /\ Kept(u.h, w.h, TrapFields)
      /\ u.h.debug_mode => w.h.debug_mode
      /\ w.h.prv > u.h.prv => Gated(u.h, w.h, "breakpoint", z.npc)
  BY <1>5 DEF Trapped
<1>7. Kept(state, u.h, {"mip", "single_step", "serialized", "x", "pc"})
  BY <1>2, <1>4 DEF Kept
<1>8. /\ u.h.pmpcfg = state.pmpcfg /\ u.h.pmpaddr = state.pmpaddr /\ u.h.debug_mode = state.debug_mode
      /\ u.h.minstret = state.minstret /\ DOMAIN u.h = DOMAIN state
  BY <1>1, <1>7 DEF Kept, HartFields
<1>9. u.h.single_step = begun /\ u.h.serialized = s.h.serialized
  BY <1>1, <1>2, <1>4 DEF Kept, HartFields
<1>10. /\ w.h.pmpcfg = state.pmpcfg /\ w.h.pmpaddr = state.pmpaddr
       /\ w.h.minstret = state.minstret /\ w.h.serialized = s.h.serialized /\ w.h.single_step = begun
  BY <1>1, <1>6, <1>8, <1>9 DEF Kept, HartFields, TrapFields
<1>11. lockedKept(state, w.h)
  BY <1>10, LockedSame
<1>12. privileged(state, w.h)
  <2>1. Kept(state, u.h, Harmless \cup {"pc"})
    BY <1>7 DEF Kept, Harmless
  <2>2. \E l \in {2, 4} : z.npc = (state.pc + l) % 2 ^ XLEN
    BY <1>2 DEF wellFormed
  <2>3. QED
    BY <1>1, <1>6, <2>1, <2>2, GatesInsn
<1>13. /\ Counted(w, a.s, loop.instret + 1) /\ a.retired /\ a.retired \in BOOLEAN
       /\ LoopOK(a.l) /\ a.l.at \in {"top", "end"}
  BY <1>6, LoopBreaks DEF w
<1>14. /\ StateOK(a.s) /\ a.s.mm = w.mm /\ a.s.h.minstret = (w.h.minstret + (loop.instret + 1)) % 2 ^ XLEN
       /\ lockedKept(state, a.s.h) /\ privileged(state, a.s.h)
       /\ a.s.h.serialized = w.h.serialized
       /\ a.s.h.single_step = w.h.single_step /\ a.s.h.debug_mode = w.h.debug_mode
  BY <1>6, <1>11, <1>12, <1>13, CountedKeeps
<1>15. a.s.mm.load_reservation_address = s.mm.load_reservation_address /\ a.s.mm.matched_trigger = NoMatch
  BY <1>4, <1>6, <1>14 DEF SamePort
<1>16. HoldsReservation(insn, z, a)
  <2>1. -1 \notin 0 .. MemSize - 1
    OBVIOUS
  <2>2. QED
    BY <1>1, <1>2, <1>3, <1>13, <1>15, <2>1, SMTT(30) DEF HoldsReservation, Reserves, scSucceeded
<1>17. HoldsCount(insn, a)
  BY <1>3, <1>10, <1>13, <1>14 DEF HoldsCount, base, CsrOps
<1>18. HoldsSerial(insn, o, a)
  BY <1>2, <1>3, <1>10, <1>14 DEF HoldsSerial, overtaken, Fails
<1>19. HoldsStep(insn, o, a)
  BY <1>3, <1>6, <1>8, <1>10, <1>13, <1>14 DEF HoldsStep
<1>20. QED
  BY <1>13, <1>14, <1>15, <1>16, <1>17, <1>18, <1>19 DEF Holds

(* The instruction is executed, and what is left is where the loop is.      *)
LEMMA HoldsReserved ==
    ASSUME NEW insn, NEW o, ~failed(o), Succeeds(insn, o), NEW a,
           a.s.mm.load_reservation_address = o.mm.load_reservation_address,
           insn.op = "lr" => a.retired, NEW last, last = lastOf(o, insn)
    PROVE  HoldsReservation(insn, last, a)
<1> DEFINE r == view(o)
<1>1. Reserves(me, insn, r) /\ r.mm = o.mm /\ r.h = o.hs[cur] /\ me.mm = mmu[cur]
  BY DEF Succeeds, view, me
<1>2. ~failed(r) /\ last = o
  BY DEF failed, view, lastOf
<1> HIDE DEF r
<1>3. -1 \notin 0 .. MemSize - 1
  OBVIOUS
<1>4. QED
  BY <1>1, <1>2, <1>3 DEF HoldsReservation, Reserves, scSucceeded

(* What an instruction that is executed does to the mode.                   *)
LEMMA SucceedsFacts ==
    ASSUME Typed, NEW insn, NEW o, Succeeds(insn, o), NEW s, s = self(o)
    PROVE  /\ StateOK(s) /\ s.h = o.hs[cur] /\ s.mm = o.mm /\ HartFields \subseteq DOMAIN s.h
           /\ lockedKept(state, s.h) /\ privileged(state, s.h)
           /\ s.h.prv > state.prv => state.debug_mode
<1>1. /\ StateOK(s) /\ s.h = o.hs[cur] /\ s.mm = o.mm /\ lockedKept(state, s.h)
      /\ s.h.prv > state.prv => state.debug_mode
  BY DEF Succeeds, self
<1>2. HartFields \subseteq DOMAIN s.h
  BY <1>1, HartFacts DEF StateOK, IsHart
<1>3. QED
  BY <1>1, <1>2 DEF privileged

(* PC_SERIALIZE_BEFORE.                                                     *)
LEMMA SetsSerialized ==
    ASSUME NEW s, StateOK(s), NEW v \in BOOLEAN, NEW w, w = [s EXCEPT !.h.serialized = v]
    PROVE  StateOK(w) /\ w.mm = s.mm /\ Kept(s.h, w.h, {"serialized"})
<1> DEFINE g == [s.h EXCEPT !["serialized"] = v]
<1>1. /\ s = [h |-> s.h, mm |-> s.mm] /\ HartOK(s.h) /\ IsMmu(s.mm) /\ IsHart(s.h)
      /\ "serialized" \in DOMAIN s.h
  BY HartFacts DEF StateOK, IsHart, HartFields
<1>2. w = [h |-> g, mm |-> s.mm]
  BY <1>1
<1>3. IsHart(g) /\ Kept(s.h, g, {"serialized"}) /\ g.serialized = v
  BY <1>1, Put
<1> HIDE DEF g
<1>4. FieldOK("serialized", g.serialized)
  BY <1>3 DEF FieldOK
<1>5. HartOK(g)
  BY <1>1, <1>3, <1>4, HartKept
<1>6. Kept(s.h, g, {"serialized"})
  BY <1>3
<1>7. QED
  BY <1>1, <1>2, <1>5, <1>6 DEF StateOK

(* The pc moves on.                                                         *)
LEMMA SetsPc ==
    ASSUME NEW s, StateOK(s), NEW v, NEW w, w = [s EXCEPT !.h.pc = v]
    PROVE  StateOK(w) /\ w.mm = s.mm /\ Kept(s.h, w.h, {"pc"})
<1> DEFINE g == [s.h EXCEPT !["pc"] = v]
<1>1. /\ s = [h |-> s.h, mm |-> s.mm] /\ HartOK(s.h) /\ IsMmu(s.mm) /\ IsHart(s.h)
      /\ "pc" \in DOMAIN s.h
  BY HartFacts DEF StateOK, IsHart, HartFields
<1>2. w = [h |-> g, mm |-> s.mm]
  BY <1>1
<1>3. IsHart(g) /\ Kept(s.h, g, {"pc"})
  BY <1>1, Put
<1> HIDE DEF g
<1>4. HartOK(g)
  BY <1>1, <1>3, HartKept DEF FieldOK
<1>5. QED
  BY <1>1, <1>2, <1>3, <1>4 DEF StateOK

(* WFI ends the turn.                                                       *)
LEMMA HoldsWfi ==
    ASSUME Typed, loop.at = "inner", NEW insn, NEW o, Succeeds(insn, o), ~failed(o), o.kind = "wfi",
           NEW a, a = afterStop(self(o)), NEW last, last = lastOf(o, insn)
    PROVE  Holds(insn, o, last, a)
<1> DEFINE s == self(o)
           r == view(o)
<1>1. /\ StateOK(s) /\ s.h = o.hs[cur] /\ s.mm = o.mm
      /\ lockedKept(state, s.h) /\ privileged(state, s.h)
  BY SucceedsFacts
<1>2. insn.op = "wfi" /\ s.h.serialized = state.serialized
  BY <1>1 DEF Succeeds, SerializesPipe, CsrOps
<1>3. r.h = s.h /\ r.kind = "wfi" /\ Counts(me, insn, r) /\ me.h = state /\ o.trap = NoTrap
  BY <1>1 DEF view, Succeeds, me, failed
<1> HIDE DEF s, r
<1>4. s.h.minstret = state.minstret
  BY <1>2, <1>3 DEF Counts
<1>5. /\ Counted(s, a.s, loop.instret) /\ ~a.retired /\ a.retired \in BOOLEAN
      /\ LoopOK(a.l) /\ a.l.at = "end"
  BY <1>1, LoopStops DEF s
<1>6. /\ StateOK(a.s) /\ a.s.mm = s.mm /\ a.s.h.minstret = (s.h.minstret + loop.instret) % 2 ^ XLEN
      /\ lockedKept(state, a.s.h) /\ privileged(state, a.s.h)
      /\ a.s.h.serialized = s.h.serialized /\ a.s.h.x = s.h.x
      /\ a.s.h.single_step = s.h.single_step /\ a.s.h.debug_mode = s.h.debug_mode
  BY <1>1, <1>5, CountedKeeps
<1>7. HoldsReservation(insn, last, a)
  BY <1>1, <1>2, <1>6, HoldsReserved
<1>8. HoldsCount(insn, a)
  BY <1>2, <1>4, <1>5, <1>6 DEF HoldsCount, base
<1>9. HoldsSerial(insn, o, a)
  BY <1>2, <1>6 DEF HoldsSerial, CsrOps
<1>10. HoldsStep(insn, o, a)
  BY <1>1, <1>2, <1>3, <1>5, <1>6 DEF HoldsStep, Succeeds
<1>11. a.s.mm.matched_trigger = NoMatch
  BY <1>1, <1>6 DEF Succeeds
<1>12. QED
  BY <1>5, <1>6, <1>7, <1>8, <1>9, <1>10, <1>11 DEF Holds

(* The pipe is serialized and the instruction is to come.                   *)
LEMMA HoldsSerialize ==
    ASSUME Typed, loop.at = "inner", NEW insn, wellFormed(insn), NEW o, Succeeds(insn, o), ~failed(o),
           o.kind = "before", NEW w, StateOK(w), w.mm = o.mm, Kept(self(o).h, w.h, {"serialized"}),
           NEW a, a = afterBreak(w, loop.instret, insn), NEW last, last = lastOf(o, insn)
    PROVE  Holds(insn, o, last, a)
<1> DEFINE s == self(o)
           r == view(o)
<1>1. /\ StateOK(s) /\ s.h = o.hs[cur] /\ s.mm = o.mm /\ HartFields \subseteq DOMAIN s.h
      /\ lockedKept(state, s.h) /\ privileged(state, s.h)
  BY SucceedsFacts
<1>2. insn.op \in CsrOps
  BY DEF Succeeds, SerializesPipe
<1>3. r.h = s.h /\ r.kind = "before" /\ Counts(me, insn, r) /\ me.h = state /\ o.trap = NoTrap
  BY <1>1 DEF view, Succeeds, me, failed
<1> HIDE DEF s, r
<1>4. s.h.minstret = state.minstret
  BY <1>3 DEF Counts
<1>5. Kept(s.h, w.h, {"serialized"})
  BY DEF s
<1>6. lockedKept(state, w.h) /\ privileged(state, w.h)
  <2>1. {"serialized"} \subseteq Harmless /\ HartOK(s.h)
    BY <1>1 DEF Harmless, StateOK
  <2>2. QED
    BY <1>1, <1>5, <2>1, Unaffected
<1>7. w.h.minstret = state.minstret /\ w.h.single_step = s.h.single_step /\ w.h.debug_mode = s.h.debug_mode
  BY <1>1, <1>4, <1>5 DEF Kept, HartFields
<1>8. /\ Counted(w, a.s, loop.instret) /\ ~a.retired /\ a.retired \in BOOLEAN
      /\ LoopOK(a.l) /\ a.l.at = "top" /\ a.l.again = insn
  <2>1. loop.instret \in Nat /\ loop.instret # loop.instret + 1
    BY DEF Typed, LoopOK
  <2>2. QED
    BY <1>5, <2>1, LoopBreaks
<1>9. /\ StateOK(a.s) /\ a.s.mm = w.mm /\ a.s.h.minstret = (w.h.minstret + loop.instret) % 2 ^ XLEN
      /\ lockedKept(state, a.s.h) /\ privileged(state, a.s.h)
      /\ a.s.h.single_step = w.h.single_step /\ a.s.h.debug_mode = w.h.debug_mode
  BY <1>5, <1>6, <1>8, CountedKeeps
<1>10. HoldsReservation(insn, last, a)
  BY <1>1, <1>2, <1>5, <1>9, HoldsReserved DEF CsrOps
<1>11. HoldsCount(insn, a)
  BY <1>7, <1>8, <1>9 DEF HoldsCount, base
<1>12. HoldsSerial(insn, o, a)
  BY <1>2, <1>3, <1>8 DEF HoldsSerial
<1>13. HoldsStep(insn, o, a)
  BY <1>1, <1>2, <1>3, <1>7, <1>8, <1>9 DEF HoldsStep, Succeeds, CsrOps
<1>14. a.s.mm.matched_trigger = NoMatch
  BY <1>9 DEF Succeeds
<1>15. QED
  BY <1>8, <1>9, <1>10, <1>11, <1>12, <1>13, <1>14 DEF Holds

(* The instruction is executed and the pipe serialized.                     *)
LEMMA HoldsSerialized ==
    ASSUME Typed, loop.at = "inner", NEW insn, NEW o, Succeeds(insn, o), ~failed(o), o.kind = "after",
           NEW a, a = afterBreak(self(o), loop.instret + 1, NoInsn), NEW last, last = lastOf(o, insn)
    PROVE  Holds(insn, o, last, a)
<1> DEFINE s == self(o)
           r == view(o)
<1>1. /\ StateOK(s) /\ s.h = o.hs[cur] /\ s.mm = o.mm
      /\ lockedKept(state, s.h) /\ privileged(state, s.h)
  BY SucceedsFacts
<1>2. /\ insn.op \in CsrOps => state.serialized /\ ~s.h.serialized
      /\ insn.op \notin CsrOps => s.h.serialized = state.serialized
  BY <1>1 DEF Succeeds, SerializesPipe
<1>3. r.h = s.h /\ r.kind = "after" /\ Counts(me, insn, r) /\ me.h = state /\ o.trap = NoTrap
  BY <1>1 DEF view, Succeeds, me, failed
<1> HIDE DEF s, r
<1>4. /\ Counted(s, a.s, loop.instret + 1) /\ a.retired /\ a.retired \in BOOLEAN
      /\ LoopOK(a.l) /\ a.l.at \in {"top", "end"}
  BY <1>1, LoopBreaks DEF s
<1>5. /\ StateOK(a.s) /\ a.s.mm = s.mm /\ a.s.h.minstret = (s.h.minstret + (loop.instret + 1)) % 2 ^ XLEN
      /\ lockedKept(state, a.s.h) /\ privileged(state, a.s.h)
      /\ a.s.h.serialized = s.h.serialized /\ a.s.h.x = s.h.x
      /\ a.s.h.single_step = s.h.single_step /\ a.s.h.debug_mode = s.h.debug_mode
  BY <1>1, <1>4, CountedKeeps
<1>6. s.h.minstret = base(insn, a)
  BY <1>3, <1>4 DEF Counts, base
<1>7. HoldsReservation(insn, last, a)
  BY <1>1, <1>4, <1>5, HoldsReserved
<1>8. HoldsCount(insn, a)
  <2>1. insn.op = "csrr" /\ insn.csr \in {"minstret", "instret"} => s.h.x = state.minstret
    BY <1>3 DEF Counts
  <2>2. QED
    BY <1>2, <1>4, <1>5, <1>6, <2>1 DEF HoldsCount
<1>9. HoldsSerial(insn, o, a)
  BY <1>2, <1>5 DEF HoldsSerial
<1>10. HoldsStep(insn, o, a)
  BY <1>1, <1>3, <1>4, <1>5 DEF HoldsStep, Succeeds
<1>11. a.s.mm.matched_trigger = NoMatch
  BY <1>1, <1>5 DEF Succeeds
<1>12. QED
  BY <1>4, <1>5, <1>7, <1>8, <1>9, <1>10, <1>11 DEF Holds

(* The instruction is executed and the loop goes on.                        *)
LEMMA HoldsRetired ==
    ASSUME Typed, loop.at = "inner", NEW insn, NEW o, Succeeds(insn, o), ~failed(o), o.kind = "plain",
           NEW w, StateOK(w), w.mm = o.mm, Kept(self(o).h, w.h, {"pc"}),
           NEW a, a = afterRetire(w), NEW last, last = lastOf(o, insn)
    PROVE  Holds(insn, o, last, a)
<1> DEFINE s == self(o)
           r == view(o)
<1>1. /\ StateOK(s) /\ s.h = o.hs[cur] /\ s.mm = o.mm /\ HartFields \subseteq DOMAIN s.h
      /\ lockedKept(state, s.h) /\ (s.h.prv > state.prv => state.debug_mode)
  BY SucceedsFacts
<1>2. insn.op \notin CsrOps /\ s.h.serialized = state.serialized
  BY <1>1 DEF Succeeds, SerializesPipe
<1>3. r.h = s.h /\ r.kind = "plain" /\ Counts(me, insn, r) /\ me.h = state /\ o.trap = NoTrap
  BY <1>1 DEF view, Succeeds, me, failed
<1> HIDE DEF s, r
<1>4. s.h.minstret = state.minstret
  BY <1>3 DEF Counts
<1>5. Kept(s.h, w.h, {"pc"})
  BY DEF s
<1>6. /\ w.h.minstret = state.minstret /\ w.h.single_step = s.h.single_step /\ w.h.debug_mode = s.h.debug_mode
      /\ w.h.serialized = s.h.serialized /\ w.h.prv = s.h.prv
      /\ w.h.pmpcfg = s.h.pmpcfg /\ w.h.pmpaddr = s.h.pmpaddr
  BY <1>1, <1>4, <1>5 DEF Kept, HartFields
<1>7. lockedKept(state, w.h) /\ privileged(state, w.h)
  BY <1>1, <1>6 DEF privileged, lockedKept
<1>8. /\ a.retired = TRUE /\ LoopOK(a.l)
      /\ \/ a.l.at = "end" /\ Counted(w, a.s, loop.instret + 1)
         \/ /\ a.l.at = "inner" /\ a.s = w
            /\ a.l.instret = loop.instret + 1 /\ a.l.slow = loop.slow
  BY <1>5, LoopRetires, ZenonT(40)
<1>9. /\ StateOK(a.s) /\ a.s.mm = w.mm
      /\ a.l.at = "inner" => a.s.h.minstret = w.h.minstret
      /\ a.l.at # "inner" => a.s.h.minstret = (w.h.minstret + (loop.instret + 1)) % 2 ^ XLEN
      /\ lockedKept(state, a.s.h) /\ privileged(state, a.s.h)
      /\ a.s.h.serialized = w.h.serialized
      /\ a.s.h.single_step = w.h.single_step /\ a.s.h.debug_mode = w.h.debug_mode
  <2>1. CASE a.l.at = "end" /\ Counted(w, a.s, loop.instret + 1)
    BY <1>5, <1>7, <2>1, CountedKeeps
  <2>2. CASE a.l.at = "inner" /\ a.s = w
    BY <1>5, <1>7, <2>2
  <2>3. QED
    BY <1>8, <2>1, <2>2
<1>10. HoldsReservation(insn, last, a)
  BY <1>1, <1>5, <1>8, <1>9, HoldsReserved
<1>11. base(insn, a) = state.minstret
  BY <1>2 DEF base, CsrOps
<1>12. HoldsCount(insn, a)
  BY <1>2, <1>6, <1>8, <1>9, <1>11 DEF HoldsCount, CsrOps
<1>13. HoldsSerial(insn, o, a)
  BY <1>2, <1>6, <1>9 DEF HoldsSerial
<1>14. HoldsStep(insn, o, a)
  BY <1>1, <1>3, <1>6, <1>8, <1>9 DEF HoldsStep, Succeeds
<1>15. a.s.mm.matched_trigger = NoMatch
  BY <1>9 DEF Succeeds
<1>16. QED
  BY <1>8, <1>9, <1>10, <1>12, <1>13, <1>14, <1>15 DEF Holds

(* Every instruction ends in one of these ways.                             *)
LEMMA Concludes ==
    ASSUME Typed, loop.at = "inner", NEW insn, wellFormed(insn), NEW o, o = outcome(insn),
           NEW a, a = after(o, insn), NEW last, last = lastOf(o, insn)
    PROVE  OthersKept(last.hs) /\ Holds(insn, o, last, a)
<1> DEFINE s == self(o)
<1>1. OthersKept(o.hs) /\ HartsOK(o.hs)
  BY Outcomes DEF OthersKept
<1>2. PICK t : Starts(t) /\ (Ran(t, insn, o) \/ Stopped(t, o))
  BY Outcomes
<1>3. failed(o) => Fails(insn, o)
  BY <1>1, <1>2, InsnFails
<1>4. ~failed(o) => Succeeds(insn, o)
  <2>1. Stopped(t, o) => failed(o)
    BY DEF Stopped
  <2>2. QED
    BY <1>1, <1>2, <2>1, InsnSucceeds
<1>5. CASE o.trap # NoTrap
  <2>1. a = afterStop(caught(s, o.trap, state.pc))
    <3> DEFINE c == afterStop(caught(s, o.trap, state.pc))
    <3>1. after(o, insn) = CASE o.trap # NoTrap -> c
             [] o.trap = NoTrap /\ o.thrown # NoMatch -> afterTrigger(o, insn)
             [] ~failed(o) /\ o.kind = "wfi" -> afterStop(s)
             [] ~failed(o) /\ o.kind = "before" ->
                   afterBreak([s EXCEPT !.h.serialized = TRUE], loop.instret, insn)
             [] ~failed(o) /\ o.kind = "after" -> afterBreak(s, loop.instret + 1, NoInsn)
             [] ~failed(o) /\ o.kind = "plain" -> afterRetire([s EXCEPT !.h.pc = o.npc])
      BY DEF after, self
    <3> HIDE DEF c, s
    <3>2. a = c
      BY <1>5, <3>1 DEF failed
    <3>3. QED
      BY <3>2 DEF c
  <2>2. failed(o) /\ Fails(insn, o)
    BY <1>3, <1>5 DEF failed
  <2>3. last = o
    BY <1>5, <2>2 DEF lastOf, Fails
  <2>4. QED
    BY <1>1, <1>5, <2>1, <2>2, <2>3, HoldsTrap
<1>6. CASE o.trap = NoTrap /\ o.thrown # NoMatch
  <2>1. failed(o) /\ Fails(insn, o) /\ a = afterTrigger(o, insn)
    BY <1>3, <1>6 DEF failed, after
  <2>2. CASE o.mm.matched_trigger = NoMatch
    <3>1. a = afterBreak(triggered(s, o.thrown, state.pc), loop.instret, NoInsn) /\ last = o
      BY <2>1, <2>2 DEF afterTrigger, Let, self, lastOf
    <3>2. QED
      BY <1>1, <1>6, <2>1, <2>2, <3>1, HoldsBefore
  <2>3. CASE o.mm.matched_trigger # NoMatch
    <3> DEFINE u == [h |-> [last.hs[cur] EXCEPT !.pc = last.npc],
                     mm |-> [last.mm EXCEPT !.matched_trigger = NoMatch]]
    <3>1. last = restarted(o, insn) /\ insn.op \in MemOps
      BY <1>6, <2>1, <2>3 DEF lastOf, Fails
    <3>2. OthersKept(last.hs) /\ Restarts(insn, o, last)
      BY <1>1, <2>1, <3>1, InsnRestarts
    <3>3. CASE failed(last)
      <4>1. a = [s |-> self(last), l |-> [Idle EXCEPT !.at = "escaped"], retired |-> FALSE]
        BY <2>1, <2>3, <3>1, <3>3 DEF afterTrigger, Let, self
      <4>2. QED
        BY <1>6, <2>1, <3>1, <3>2, <3>3, <4>1, HoldsEscape
    <3>4. CASE ~failed(last)
      <4>1. a = afterBreak(triggered(u, o.thrown, last.npc), loop.instret + 1, NoInsn)
        BY <2>1, <2>3, <3>1, <3>4 DEF afterTrigger, Let
      <4>2. u = [h |-> [last.hs[cur] EXCEPT !.pc = last.npc],
                 mm |-> [last.mm EXCEPT !.matched_trigger = NoMatch]]
        OBVIOUS
      <4> HIDE DEF u
      <4>3. Holds(insn, o, last, a)
        BY <1>6, <2>1, <3>1, <3>2, <3>4, <4>1, <4>2, HoldsAfter
      <4>4. QED
        BY <3>2, <4>3
    <3>5. QED
      BY <3>3, <3>4
  <2>4. QED
    BY <2>2, <2>3
<1>7. CASE ~failed(o)
  <2>1. /\ Succeeds(insn, o) /\ o.trap = NoTrap /\ o.thrown = NoMatch /\ last = o
        /\ o.kind \in {"plain", "before", "after", "wfi"}
    BY <1>4, <1>7 DEF failed, lastOf, Succeeds, SerializesPipe
  <2>2. StateOK(s) /\ s.mm = o.mm
    BY <2>1 DEF Succeeds, self
  <2>3. CASE o.kind = "wfi"
    <3>1. a = afterStop(s)
      BY <1>7, <2>1, <2>3 DEF after, self
    <3>2. QED
      BY <1>1, <1>7, <2>1, <2>3, <3>1, HoldsWfi
  <2>4. CASE o.kind = "before"
    <3> DEFINE v == TRUE
               w == [s EXCEPT !.h.serialized = v]
    <3>1. a = afterBreak(w, loop.instret, insn)
      BY <1>7, <2>1, <2>4 DEF after, self
    <3> HIDE DEF s
    <3>2. v \in BOOLEAN /\ w = [s EXCEPT !.h.serialized = v]
      OBVIOUS
    <3> HIDE DEF v, w
    <3>3. StateOK(w) /\ w.mm = s.mm /\ Kept(s.h, w.h, {"serialized"})
      BY <2>2, <3>2, SetsSerialized
    <3>4. Holds(insn, o, last, a)
      BY <1>7, <2>1, <2>2, <2>4, <3>1, <3>3, HoldsSerialize DEF s
    <3>5. QED
      BY <1>1, <2>1, <3>4
  <2>5. CASE o.kind = "after"
    <3>1. a = afterBreak(s, loop.instret + 1, NoInsn)
      BY <1>7, <2>1, <2>5 DEF after, self
    <3>2. QED
      BY <1>1, <1>7, <2>1, <2>5, <3>1, HoldsSerialized
  <2>6. CASE o.kind = "plain"
    <3> DEFINE v == o.npc
               w == [s EXCEPT !.h.pc = v]
    <3>1. a = afterRetire(w)
      BY <1>7, <2>1, <2>6 DEF after, self
    <3> HIDE DEF s
    <3>2. w = [s EXCEPT !.h.pc = v]
      OBVIOUS
    <3> HIDE DEF v, w
    <3>3. StateOK(w) /\ w.mm = s.mm /\ Kept(s.h, w.h, {"pc"})
      BY <2>2, <3>2, SetsPc
    <3>4. Holds(insn, o, last, a)
      BY <1>7, <2>1, <2>2, <2>6, <3>1, <3>3, HoldsRetired DEF s
    <3>5. QED
      BY <1>1, <2>1, <3>4
  <2>7. QED
    BY <2>1, <2>3, <2>4, <2>5, <2>6
<1>8. QED
  BY <1>5, <1>6, <1>7 DEF failed

-----------------------------------------------------------------------------
(* An instruction and the bus *)

\* Nothing but the pending interrupts of the harts changes.
OnlyMip(hs, gs) == HartsOK(gs) /\ \A c \in Harts : Kept(hs[c], gs[c], {"mip"})

(* The pending interrupts hold anything.                                    *)
LEMMA PutsMip ==
    ASSUME NEW h, HartOK(h), NEW v, NEW g, g = [h EXCEPT !.mip = v]
    PROVE  HartOK(g) /\ Kept(h, g, {"mip"})
<1>1. IsHart(h) /\ "mip" \in DOMAIN h
  BY HartFacts DEF IsHart, HartFields
<1>2. IsHart(g) /\ Kept(h, g, {"mip"})
  BY <1>1 DEF IsHart, Kept
<1>3. QED
  BY <1>2, HartKept DEF FieldOK

(* clint_t::increment posts timer interrupts only.                          *)
LEMMA Increments ==
    ASSUME NEW hs, HartsOK(hs), NEW cl
    PROVE  OnlyMip(hs, increment(hs, cl))
<1> DEFINE v(c) == (hs[c].mip \ {"MTI"}) \cup (IF cl.mtime >= cl.mtimecmp[c] THEN {"MTI"} ELSE {})
           g(c) == [hs[c] EXCEPT !.mip = v(c)]
           gs == increment(hs, cl)
<1>1. DOMAIN hs = Harts /\ \A c \in Harts : HartOK(hs[c])
  BY DEF HartsOK
<1>2. gs = [c \in Harts |-> g(c)]
  BY <1>1 DEF increment
<1> HIDE DEF gs
<1>3. ASSUME NEW c \in Harts PROVE HartOK(g(c)) /\ Kept(hs[c], g(c), {"mip"})
  <2> HIDE DEF v
  <2>1. HartOK(hs[c]) /\ g(c) = [hs[c] EXCEPT !.mip = v(c)]
    BY <1>1
  <2> HIDE DEF g
  <2>2. QED
    BY <2>1, PutsMip
<1> HIDE DEF g
<1>4. HartsOK(gs)
  BY <1>2, <1>3 DEF HartsOK
<1>5. QED
  BY <1>2, <1>3, <1>4 DEF OnlyMip, gs

(* A store to msip posts a software interrupt only.                         *)
LEMMA Posts ==
    ASSUME NEW hs, HartsOK(hs), NEW bus
    PROVE  OnlyMip(hs, msipStore(hs, bus))
<1> DEFINE i == clintRegister(bus.addr).i
           v == (hs[i].mip \ {"MSI"}) \cup (IF bus.val % 2 = 1 THEN {"MSI"} ELSE {})
           g == [hs[i] EXCEPT !.mip = v]
           gs == msipStore(hs, bus)
<1>1. DOMAIN hs = Harts /\ \A c \in Harts : HartOK(hs[c])
  BY DEF HartsOK
<1>2. gs = hs \/ (i \in Harts /\ gs = [hs EXCEPT ![i] = g])
  BY <1>1 DEF msipStore
<1> HIDE DEF gs, i
<1>3. CASE gs = hs
  BY <1>3 DEF OnlyMip, Kept, gs
<1>4. CASE i \in Harts /\ gs = [hs EXCEPT ![i] = g]
  <2>1. HartOK(g) /\ Kept(hs[i], g, {"mip"})
    <3> HIDE DEF v
    <3>1. HartOK(hs[i]) /\ g = [hs[i] EXCEPT !.mip = v]
      BY <1>1, <1>4
    <3> HIDE DEF g
    <3>2. QED
      BY <3>1, PutsMip
  <2> HIDE DEF g
  <2>2. HartsOK(gs) /\ gs[i] = g /\ \A c \in Harts \ {i} : gs[c] = hs[c]
    BY <1>1, <1>4, <2>1 DEF HartsOK
  <2>3. \A c \in Harts : Kept(hs[c], gs[c], {"mip"})
    BY <2>1, <2>2 DEF Kept
  <2>4. QED
    BY <2>2, <2>3 DEF OnlyMip, gs
<1>5. QED
  BY <1>2, <1>3, <1>4

(* An access of the bus.                                                    *)
LEMMA Buses ==
    ASSUME NEW hs, HartsOK(hs), NEW cl, NEW bus, NEW b, b = onBus(hs, cl, bus)
    PROVE  OnlyMip(hs, b.hs)
<1> DEFINE posted == msipStore(hs, bus)
           stored == clintStore(cl, bus)
<1>1. \/ b.hs = increment(posted, stored)
      \/ b.hs = increment(hs, cl)
      \/ b.hs = hs
  BY DEF onBus
<1>2. OnlyMip(hs, posted)
  BY Posts
<1> HIDE DEF posted, stored
<1>3. CASE b.hs = increment(posted, stored)
  <2>1. HartsOK(posted)
    BY <1>2 DEF OnlyMip
  <2>2. OnlyMip(posted, b.hs)
    BY <1>3, <2>1, Increments
  <2>3. QED
    BY <1>2, <2>2 DEF OnlyMip, Kept
<1>4. CASE b.hs = increment(hs, cl)
  BY <1>4, Increments
<1>5. CASE b.hs = hs
  BY <1>5 DEF OnlyMip, Kept
<1>6. QED
  BY <1>1, <1>3, <1>4, <1>5

(* The instructions that may be fetched can be executed.                    *)
LEMMA FetchesWellFormed ==
    ASSUME Typed, NEW insn \in insnsHere
    PROVE  wellFormed(insn) /\ (loop.again # NoInsn => insn = loop.again)
<1>1. wellFormed(Unknown)
  BY DEF wellFormed, Unknown
<1>2. CASE loop.again # NoInsn
  BY <1>2 DEF insnsHere, Typed, LoopOK
<1>3. CASE loop.again = NoInsn
  <2>1. insn = Unknown \/ \E x \in DOMAIN code : insn \in code[x]
    BY <1>3 DEF insnsHere
  <2>2. QED
    BY <1>1, <1>3, <2>1 DEF Typed, CodeOK
<1>4. QED
  BY <1>2, <1>3

\* What Execute does.
Executed(insn, o, last, a) ==
    /\ insn \in insnsHere /\ wellFormed(insn) /\ Holds(insn, o, last, a) /\ last = lastOf(o, insn)
    /\ HartsOK(hart')
    /\ Kept(a.s.h, hart'[cur], {"mip", "x"})
    /\ \A c \in Harts \ {cur} : Kept(hart[c], hart'[c], {"mip"})
    /\ mmu' = [mmu EXCEPT ![cur] = a.s.mm] /\ loop' = a.l /\ hist' = remember(o, a, insn)
    /\ code' = code \/ \E x \in DOMAIN code : code' = [code EXCEPT ![x] = {insn}]
    /\ session' = session /\ cur' = cur /\ resets' = resets

(* One instruction, up to its effect on the bus.                            *)
LEMMA ExecuteDoes ==
    ASSUME Typed, Execute
    PROVE  loop.at = "inner" /\ ~stepOver /\ \E insn, o, last, a : Executed(insn, o, last, a)
<1>1. loop.at = "inner" /\ ~stepOver /\ session' = session /\ cur' = cur /\ resets' = resets
  BY DEF Execute
<1> DEFINE Did(insn, o, a, last, b) ==
               /\ hart' = IF last.bus.op = "load" /\ insn.op = "load" /\ a.retired
                          THEN [b.hs EXCEPT ![cur].x = clintLoad(b.hs, b.cl, last.bus.addr)]
                          ELSE b.hs
               /\ mmu' = [mmu EXCEPT ![cur] = a.s.mm]
               /\ mem' = last.mem
               /\ clint' = b.cl
               /\ loop' = a.l
               /\ code' = IF fetchAddress \in DOMAIN code /\ fetchAddress < DEBUG_START
                          THEN [code EXCEPT ![fetchAddress] = {insn}] ELSE code
               /\ hist' = remember(o, a, insn)
<1>2. \E insn \in insnsHere : \E o \in {outcome(insn)} :
      \E a \in {after(o, insn)}, last \in {lastOf(o, insn)} :
      \E b \in {onBus([last.hs EXCEPT ![cur] = a.s.h], clint, last.bus)} : Did(insn, o, a, last, b)
  BY Zenon DEF Execute
<1> HIDE DEF Did
<1>3. PICK insn \in insnsHere : \E o, a, last, b :
         /\ o = outcome(insn) /\ a = after(o, insn) /\ last = lastOf(o, insn)
         /\ b = onBus([last.hs EXCEPT ![cur] = a.s.h], clint, last.bus) /\ Did(insn, o, a, last, b)
  BY <1>2
<1>17. PICK o, a, last, b :
         /\ o = outcome(insn) /\ a = after(o, insn) /\ last = lastOf(o, insn)
         /\ b = onBus([last.hs EXCEPT ![cur] = a.s.h], clint, last.bus) /\ Did(insn, o, a, last, b)
  BY <1>3
<1> DEFINE hs == [last.hs EXCEPT ![cur] = a.s.h]
<1>4. wellFormed(insn) /\ cur \in Harts
  BY FetchesWellFormed DEF Typed
<1>5. o = outcome(insn) /\ a = after(o, insn) /\ last = lastOf(o, insn) /\ b = onBus(hs, clint, last.bus)
  BY <1>17
<1>6. OthersKept(last.hs) /\ Holds(insn, o, last, a)
  BY <1>1, <1>4, <1>5, Concludes
<1>7. HartsOK(hs) /\ hs[cur] = a.s.h /\ \A c \in Harts \ {cur} : hs[c] = last.hs[c]
  BY <1>4, <1>6 DEF Holds, StateOK, OthersKept, HartsOK
<1> HIDE DEF hs
<1>8. OnlyMip(hs, b.hs)
  BY <1>5, <1>7, Buses
<1>9. \A c \in Harts \ {cur} : Kept(hart[c], b.hs[c], {"mip"})
  BY <1>6, <1>7, <1>8 DEF OnlyMip, OthersKept, Kept
<1>10. HartsOK(b.hs) /\ Kept(a.s.h, b.hs[cur], {"mip"})
  BY <1>4, <1>7, <1>8 DEF OnlyMip
<1> DEFINE v == clintLoad(b.hs, b.cl, last.bus.addr)
           h == b.hs[cur]
           g == [h EXCEPT !["x"] = v]
<1>11. hart' = b.hs \/ hart' = [b.hs EXCEPT ![cur] = g]
  BY <1>17 DEF Did
<1>12. HartOK(g) /\ Kept(h, g, {"x"})
  <2> HIDE DEF v
  <2>1. HartOK(h) /\ "x" \in FreeFields /\ g = [h EXCEPT !["x"] = v]
    BY <1>4, <1>10 DEF HartsOK, FreeFields
  <2> HIDE DEF h, g
  <2>2. QED
    BY <2>1, PutsField
<1> HIDE DEF v, g
<1>13. HartsOK(hart') /\ Kept(a.s.h, hart'[cur], {"mip", "x"})
       /\ \A c \in Harts \ {cur} : hart'[c] = b.hs[c]
  <2>1. CASE hart' = b.hs
    BY <1>10, <2>1 DEF Kept
  <2>2. CASE hart' = [b.hs EXCEPT ![cur] = g]
    <3>1. HartsOK(hart') /\ hart'[cur] = g /\ \A c \in Harts \ {cur} : hart'[c] = b.hs[c]
      BY <1>4, <1>10, <1>12, <2>2 DEF HartsOK
    <3>2. Kept(a.s.h, g, {"mip", "x"})
      BY <1>10, <1>12 DEF Kept
    <3>3. QED
      BY <3>1, <3>2
  <2>3. QED
    BY <1>11, <2>1, <2>2
<1>14. code' = code \/ \E x \in DOMAIN code : code' = [code EXCEPT ![x] = {insn}]
  BY <1>17 DEF Did
<1>15. Executed(insn, o, last, a)
  BY <1>1, <1>4, <1>5, <1>6, <1>9, <1>13, <1>14, <1>17 DEF Executed, Did
<1>16. QED
  BY <1>1, <1>15

\* What is remembered of the hart that ran, from old to new.
RemembersOwn(insn, o, last, a, old, new) ==
    LET reads == insn.op = "csrr" /\ insn.csr \in {"minstret", "instret"} /\ a.retired
    IN  /\ new = [f \in HistFields |-> new[f]]
        /\ new.count = countAfter(a, insn)
        /\ new.read = IF reads THEN a.s.h.x ELSE old.read
        /\ new.due = IF reads THEN old.count ELSE old.due
        /\ new.lr = IF insn.op = "lr" /\ a.retired THEN wordOf(a.s.mm.load_reservation_address)
                    ELSE IF scSucceeded(last, insn) THEN -1 ELSE old.lr
        /\ new.stolen = (scSucceeded(last, insn) /\ old.lr # wordOf(mmu[cur].load_reservation_address))
        /\ new.left = leftAfter(o, a, insn)
        /\ new.stale = (old.stale \/ overtaken(o))

\* And of another.
RemembersOther(old, new) ==
    /\ new = [f \in HistFields |-> new[f]]
    /\ new.count = old.count /\ new.read = old.read /\ new.due = old.due
    /\ new.stolen = old.stolen /\ new.left = old.left /\ new.stale = old.stale

(* What remember leaves of each hart.                                       *)
LEMMA Remembers ==
    ASSUME Typed, NEW insn, NEW o, NEW a, NEW last, last = lastOf(o, insn),
           NEW new, new = remember(o, a, insn)
    PROVE  /\ new = [c \in Harts |-> new[c]]
           /\ RemembersOwn(insn, o, last, a, hist[cur], new[cur])
           /\ \A c \in Harts \ {cur} : RemembersOther(hist[c], new[c])
<1> DEFINE wrote == { w \in DOMAIN mem : last.mem[w] # mem[w] }
           old == hist[cur]
           reads == insn.op = "csrr" /\ insn.csr \in {"minstret", "instret"} /\ a.retired
           resv == wordOf(mmu[cur].load_reservation_address)
           ct == countAfter(a, insn)
           rd == IF reads THEN a.s.h.x ELSE old.read
           du == IF reads THEN old.count ELSE old.due
           l == IF insn.op = "lr" /\ a.retired THEN wordOf(a.s.mm.load_reservation_address)
                ELSE IF scSucceeded(last, insn) THEN -1 ELSE old.lr
           st == scSucceeded(last, insn) /\ old.lr # resv
           lf == leftAfter(o, a, insn)
           sl == old.stale \/ overtaken(o)
           mine == [old EXCEPT
                      !.count = countAfter(a, insn),
                      !.read = IF reads THEN a.s.h.x ELSE @,
                      !.due = IF reads THEN old.count ELSE @,
                      !.lr = IF insn.op = "lr" /\ a.retired
                             THEN wordOf(a.s.mm.load_reservation_address)
                             ELSE IF scSucceeded(last, insn) THEN -1 ELSE @,
                      !.stolen = scSucceeded(last, insn) /\ old.lr # resv,
                      !.left = leftAfter(o, a, insn),
                      !.stale = @ \/ overtaken(o)]
           upset(x) == [x EXCEPT !.fenced = @ /\ wrote \cap session.tables = {}]
           own == [upset(mine) EXCEPT !.fenced = @ \/ empty(a.s.mm)]
           other(c) == [upset(hist[c]) EXCEPT !.lr = IF @ \in wrote THEN -1 ELSE @]
<1>1. cur \in Harts /\ \A c \in Harts : hist[c] = [f \in HistFields |-> hist[c][f]]
  BY DEF Typed, HistOK
<1>2. new = [c \in Harts |-> IF c = cur THEN own ELSE other(c)]
  <2> DEFINE Made(x) ==
        LET written == { w \in DOMAIN mem : x.mem[w] # mem[w] }
            my == [hist[cur] EXCEPT
                     !.count = countAfter(a, insn),
                     !.read = IF reads THEN a.s.h.x ELSE @,
                     !.due = IF reads THEN hist[cur].count ELSE @,
                     !.lr = IF insn.op = "lr" /\ a.retired
                            THEN wordOf(a.s.mm.load_reservation_address)
                            ELSE IF scSucceeded(x, insn) THEN -1 ELSE @,
                     !.stolen = scSucceeded(x, insn) /\ hist[cur].lr # resv,
                     !.left = leftAfter(o, a, insn),
                     !.stale = @ \/ overtaken(o)]
            disturbed(y) == [y EXCEPT !.fenced = @ /\ written \cap session.tables = {}]
        IN  [c \in Harts |->
               IF c = cur THEN [disturbed(my) EXCEPT !.fenced = @ \/ empty(a.s.mm)]
               ELSE [disturbed(hist[c]) EXCEPT !.lr = IF @ \in written THEN -1 ELSE @]]
  <2>1. remember(o, a, insn) = Made(lastOf(o, insn))
    BY Zenon DEF remember, Let
  <2>2. Made(last) = [c \in Harts |-> IF c = cur THEN own ELSE other(c)]
    BY Zenon
  <2> HIDE DEF Made, own, other
  <2>3. QED
    BY <2>1, <2>2
<1>3. new[cur] = own /\ \A c \in Harts \ {cur} : new[c] = other(c)
  <2> HIDE DEF own, other
  <2>1. QED
    BY <1>1, <1>2
<1>4. new = [c \in Harts |-> new[c]]
  <2> HIDE DEF own, other
  <2>1. QED
    BY <1>2
<1>5. \A c \in Harts \ {cur} : RemembersOther(hist[c], new[c])
  <2> SUFFICES ASSUME NEW c \in Harts \ {cur} PROVE RemembersOther(hist[c], new[c])
    OBVIOUS
  <2> DEFINE h == hist[c]
             u == upset(h)
  <2>1. h = [f \in HistFields |-> h[f]] /\ new[c] = [u EXCEPT !.lr = IF @ \in wrote THEN -1 ELSE @]
    BY <1>1, <1>3
  <2> HIDE DEF h, wrote
  <2>2. /\ u = [f \in HistFields |-> u[f]]
        /\ u.count = h.count /\ u.read = h.read /\ u.due = h.due
        /\ u.stolen = h.stolen /\ u.left = h.left /\ u.stale = h.stale
    BY <2>1 DEF HistFields
  <2> HIDE DEF u
  <2>3. RemembersOther(u, new[c])
    BY <2>1, <2>2 DEF RemembersOther, HistFields
  <2>4. QED
    BY <2>2, <2>3 DEF RemembersOther, h
<1>6. RemembersOwn(insn, o, last, a, old, new[cur])
  <2>8. mine = [old EXCEPT !.count = ct, !.read = rd, !.due = du, !.lr = l, !.stolen = st,
                           !.left = lf, !.stale = sl]
    BY Zenon
  <2> HIDE DEF ct, rd, du, l, st, lf, sl, wrote
  <2>1. old = [f \in HistFields |-> old[f]] /\ new[cur] = own
    BY <1>1, <1>3
  <2> HIDE DEF old
  <2> DEFINE fenced == mine.fenced /\ wrote \cap session.tables = {}
             u == [mine EXCEPT !.fenced = fenced]
             both == u.fenced \/ empty(a.s.mm)
  <2>3. new[cur] = [u EXCEPT !.fenced = both]
    BY <2>1
  <2> HIDE DEF mine, fenced
  <2>2. /\ mine = [f \in HistFields |-> mine[f]]
        /\ mine.count = ct /\ mine.read = rd /\ mine.due = du /\ mine.lr = l /\ mine.stolen = st
        /\ mine.left = lf /\ mine.stale = sl
    BY <2>1, <2>8 DEF HistFields
  <2>4. /\ u = [f \in HistFields |-> u[f]]
        /\ u.count = ct /\ u.read = rd /\ u.due = du /\ u.lr = l /\ u.stolen = st
        /\ u.left = lf /\ u.stale = sl
    BY <2>2 DEF HistFields
  <2> HIDE DEF u, both
  <2> DEFINE n == new[cur]
  <2>5. /\ n = [f \in HistFields |-> n[f]]
        /\ n.count = ct /\ n.read = rd /\ n.due = du /\ n.lr = l /\ n.stolen = st
        /\ n.left = lf /\ n.stale = sl
    BY <2>3, <2>4 DEF HistFields
  <2> HIDE DEF n
  <2>6. RemembersOwn(insn, o, last, a, old, n)
    BY <2>5, Zenon DEF RemembersOwn, ct, rd, du, l, st, lf, sl
  <2>7. QED
    BY <2>6 DEF n
<1>7. QED
  BY <1>4, <1>5, <1>6

-----------------------------------------------------------------------------
(* The types are kept *)

(* The parts of Typed, in the next state.                                   *)
LEMMA TypedNext ==
    ASSUME Typed, session' = session, cur' \in Harts, resets' \in Nat,
           HartsOK(hart'),
           mmu' = [c \in Harts |-> mmu'[c]], \A c \in Harts : IsMmu(mmu'[c]),
           hist' = [c \in Harts |-> hist'[c]], \A c \in Harts : HistOK(hist'[c]),
           LoopOK(loop'),
           code' = [x \in DOMAIN code' |-> code'[x]],
           \A x \in DOMAIN code' : \A insn \in code'[x] : wellFormed(insn),
           loop'.at # "escaped" => \A c \in Harts : mmu'[c].matched_trigger = NoMatch
    PROVE  Typed'
<1>1. Harts' = Harts /\ session' \in Sessions
  BY DEF Harts, Typed
<1>2. HartsOK(hart)'
  BY <1>1 DEF HartsOK
<1>3. (\A c \in Harts : IsMmu(mmu[c]))' /\ (mmu = [c \in Harts |-> mmu[c]])'
  BY <1>1
<1>4. (\A c \in Harts : HistOK(hist[c]))' /\ (hist = [c \in Harts |-> hist[c]])'
  BY <1>1
<1>5. CodeOK' /\ MatchesOver'
  BY <1>1 DEF CodeOK, MatchesOver
<1>6. QED
  BY <1>1, <1>2, <1>3, <1>4, <1>5 DEF Typed

(* An instruction keeps the types.                                          *)
LEMMA ExecuteTyped == ASSUME Typed, Execute PROVE Typed'
<1>1. PICK insn, o, last, a : Executed(insn, o, last, a)
  BY ExecuteDoes
<1>2. loop.at = "inner" /\ cur \in Harts
  BY ExecuteDoes DEF Typed
<1>3. Holds(insn, o, last, a) /\ wellFormed(insn) /\ last = lastOf(o, insn) /\ HartsOK(hart')
      /\ mmu' = [mmu EXCEPT ![cur] = a.s.mm] /\ loop' = a.l /\ hist' = remember(o, a, insn)
      /\ (code' = code \/ \E x \in DOMAIN code : code' = [code EXCEPT ![x] = {insn}])
      /\ session' = session /\ cur' = cur /\ resets' = resets
  BY <1>1 DEF Executed
<1>4. /\ IsMmu(a.s.mm) /\ LoopOK(a.l)
      /\ a.l.at # "escaped" => a.s.mm.matched_trigger = NoMatch
  BY <1>3 DEF Holds, StateOK
<1>5. /\ mmu' = [d \in Harts |-> mmu'[d]] /\ \A d \in Harts : IsMmu(mmu'[d])
      /\ mmu'[cur] = a.s.mm /\ \A d \in Harts \ {cur} : mmu'[d] = mmu[d]
  <2>1. mmu = [d \in Harts |-> mmu[d]] /\ \A d \in Harts : IsMmu(mmu[d])
    BY DEF Typed
  <2>2. QED
    BY <1>2, <1>3, <1>4, <2>1
<1>6. loop'.at # "escaped" => \A c \in Harts : mmu'[c].matched_trigger = NoMatch
  BY <1>2, <1>3, <1>4, <1>5 DEF Typed, MatchesOver
<1>7. /\ hist' = [c \in Harts |-> hist'[c]]
      /\ RemembersOwn(insn, o, last, a, hist[cur], hist'[cur])
      /\ \A c \in Harts \ {cur} : RemembersOther(hist[c], hist'[c])
  BY <1>3, Remembers
<1>8. \A c \in Harts : HistOK(hist'[c])
  <2>1. \A c \in Harts \ {cur} : HistOK(hist'[c])
    BY <1>7 DEF RemembersOther, HistOK, Typed
  <2>2. /\ hist'[cur] = [f \in HistFields |-> hist'[cur][f]] /\ hist'[cur].count = countAfter(a, insn)
        /\ hist'[cur].stale = (hist[cur].stale \/ overtaken(o))
    BY <1>7 DEF RemembersOwn
  <2>3. hist'[cur].stale \in BOOLEAN
    BY <2>2
  <2>4. countAfter(a, insn) \in Word
    <3>1. hist[cur].count \in Word
      BY <1>2 DEF Typed, HistOK
    <3>2. (hist[cur].count + 1) % 2 ^ XLEN \in Word
      <4>1. hist[cur].count + 1 \in Int
        BY <3>1, WordAssumption DEF Word
      <4>2. QED
        BY <4>1, WordCut
    <3>3. insn.op = "csrrw" /\ insn.csr = "minstret" => insn.val \in Word
      BY <1>3 DEF wellFormed, operand
    <3>4. QED
      BY <3>1, <3>2, <3>3 DEF countAfter
  <2>5. HistOK(hist'[cur])
    BY <2>2, <2>3, <2>4 DEF HistOK
  <2>6. QED
    BY <2>1, <2>5
<1>9. /\ code' = [x \in DOMAIN code' |-> code'[x]]
      /\ \A x \in DOMAIN code' : \A i \in code'[x] : wellFormed(i)
  <2>1. CASE code' = code
    BY <2>1 DEF Typed, CodeOK
  <2>2. CASE \E x \in DOMAIN code : code' = [code EXCEPT ![x] = {insn}]
    <3>1. PICK x \in DOMAIN code : code' = [code EXCEPT ![x] = {insn}]
      BY <2>2
    <3>2. QED
      BY <1>3, <3>1 DEF Typed, CodeOK
  <2>3. QED
    BY <1>3, <2>1, <2>2
<1>10. cur' \in Harts /\ resets' \in Nat /\ LoopOK(loop')
  BY <1>2, <1>3, <1>4 DEF Typed
<1>11. QED
  BY <1>3, <1>5, <1>6, <1>7, <1>8, <1>9, <1>10, TypedNext

-----------------------------------------------------------------------------
(* The steps of a turn between instructions *)

\* The hart whose turn it is becomes s.
Becomes(s) ==
    /\ StateOK(s) /\ SamePort(mmu[cur], s.mm)
    /\ lockedKept(state, s.h) /\ privileged(state, s.h)
    /\ s.h.serialized = state.serialized
    /\ s.h.debug_mode \/ (s.h.single_step = state.single_step /\ ~state.debug_mode)

\* And what is remembered of it new.
Recalls(s, old, new) ==
    /\ new = [f \in HistFields |-> new[f]]
    /\ new.count = old.count /\ new.read = old.read /\ new.due = old.due
    /\ new.lr = old.lr /\ new.stolen = old.stolen
    /\ new.left = old.left \/ (s.h.debug_mode /\ new.left = 2)
    /\ new.stale \in BOOLEAN /\ (old.stale => new.stale)

\* The other harts stay as they are.
Quiet(s) ==
    /\ Becomes(s) /\ Recalls(s, hist[cur], hist'[cur])
    /\ HartsOK(hart') /\ hart'[cur] = s.h /\ \A c \in Harts \ {cur} : hart'[c] = hart[c]
    /\ mmu' = [c \in Harts |-> mmu'[c]] /\ mmu'[cur] = s.mm /\ \A c \in Harts \ {cur} : mmu'[c] = mmu[c]
    /\ hist' = [c \in Harts |-> hist'[c]] /\ \A c \in Harts \ {cur} : hist'[c] = hist[c]
    /\ LoopOK(loop') /\ loop'.at # "escaped"
    /\ session' = session /\ code' = code /\ resets' = resets /\ cur' = cur

(* Nothing happens to the hart.                                             *)
LEMMA StaysItself ==
    ASSUME Typed
    PROVE  Becomes(me) /\ me.h = state /\ me.mm = mmu[cur] /\ HartOK(state) /\ IsMmu(mmu[cur])
<1>1. /\ me.h = state /\ me.mm = mmu[cur] /\ HartOK(state) /\ IsMmu(mmu[cur])
      /\ state.debug_mode \in BOOLEAN /\ state.prv \in 0 .. 3
  BY HartFacts DEF me, Typed, HartsOK, state
<1>2. StateOK(me) /\ SamePort(mmu[cur], me.mm)
  BY <1>1 DEF StateOK, me, SamePort
<1>3. lockedKept(state, state) /\ privileged(state, state)
  BY <1>1, LockedSame DEF privileged
<1>4. QED
  BY <1>1, <1>2, <1>3 DEF Becomes

(* A hart that enters debug mode.                                           *)
LEMMA BecomesDebugged ==
    ASSUME Typed, NEW cause, NEW u, StateOK(u), Kept(state, u.h, {"single_step"}), u.mm = mmu[cur],
           NEW s, s = enter_debug_mode(u, cause)
    PROVE  /\ Becomes(s) /\ s.h.debug_mode /\ s.h.minstret = state.minstret
<1>1. HartOK(state) /\ HartFields \subseteq DOMAIN state
  BY StaysItself, HartFacts DEF IsHart
<1>2. /\ StateOK(s) /\ SamePort(mmu[cur], s.mm) /\ s.h.debug_mode = TRUE /\ s.h.pc = DEBUG_ROM_ENTRY
      /\ Kept(u.h, s.h, {"debug_mode", "dcsr", "prv", "dpc", "pc"})
  BY EntersDebugMode
<1>3. /\ s.h.pmpcfg = state.pmpcfg /\ s.h.pmpaddr = state.pmpaddr
      /\ s.h.serialized = state.serialized /\ s.h.minstret = state.minstret
  BY <1>1, <1>2 DEF Kept, HartFields
<1>4. lockedKept(state, s.h)
  BY <1>3, LockedSame
<1>5. privileged(state, s.h)
  BY <1>2 DEF privileged, gated
<1>6. QED
  BY <1>2, <1>3, <1>4, <1>5 DEF Becomes

(* One hart, its port and what is remembered of it change.                  *)
LEMMA QuietSteps ==
    ASSUME Typed, NEW s, Becomes(s), NEW new, Recalls(s, hist[cur], new),
           hart' = [hart EXCEPT ![cur] = s.h], mmu' = [mmu EXCEPT ![cur] = s.mm],
           hist' = [hist EXCEPT ![cur] = new], LoopOK(loop'), loop'.at # "escaped",
           session' = session, code' = code, resets' = resets, cur' = cur
    PROVE  Quiet(s)
<1>1. cur \in Harts /\ HartOK(s.h) /\ HartsOK(hart)
  BY DEF Typed, Becomes, StateOK
<1>2. HartsOK(hart') /\ hart'[cur] = s.h /\ \A c \in Harts \ {cur} : hart'[c] = hart[c]
  BY <1>1 DEF HartsOK
<1>3. mmu = [c \in Harts |-> mmu[c]] /\ hist = [c \in Harts |-> hist[c]]
  BY DEF Typed
<1>4. /\ mmu' = [c \in Harts |-> mmu'[c]] /\ mmu'[cur] = s.mm /\ \A c \in Harts \ {cur} : mmu'[c] = mmu[c]
  BY <1>1, <1>3
<1>5. /\ hist' = [c \in Harts |-> hist'[c]] /\ hist'[cur] = new
      /\ \A c \in Harts \ {cur} : hist'[c] = hist[c]
  BY <1>1, <1>3
<1>6. QED
  BY <1>2, <1>4, <1>5 DEF Quiet

(* What is remembered does not change.                                      *)
LEMMA RecallsSame ==
    ASSUME Typed, NEW s
    PROVE  Recalls(s, hist[cur], hist[cur]) /\ hist = [hist EXCEPT ![cur] = hist[cur]]
<1>1. cur \in Harts /\ hist = [c \in Harts |-> hist[c]] /\ HistOK(hist[cur])
  BY DEF Typed
<1>2. Recalls(s, hist[cur], hist[cur])
  BY <1>1 DEF Recalls, HistOK
<1>3. hist = [hist EXCEPT ![cur] = hist[cur]]
  BY <1>1
<1>4. QED
  BY <1>2, <1>3

(* The hart may be stepped again.                                           *)
LEMMA RecallsDebug ==
    ASSUME Typed, NEW s, s.h.debug_mode, NEW new, new = [hist[cur] EXCEPT !.left = 2]
    PROVE  Recalls(s, hist[cur], new)
  BY DEF Recalls, Typed, HistOK, HistFields

(* A trap came before the instruction.                                      *)
LEMMA RecallsTrap ==
    ASSUME Typed, NEW s, NEW b \in BOOLEAN, NEW new, new = [hist[cur] EXCEPT !.stale = @ \/ b]
    PROVE  Recalls(s, hist[cur], new) /\ new.stale = (hist[cur].stale \/ b)
<1> DEFINE old == hist[cur]
           v == old.stale \/ b
<1>1. old = [f \in HistFields |-> old[f]] /\ new = [old EXCEPT !.stale = v]
  BY DEF Typed, HistOK
<1>2. v \in BOOLEAN /\ (old.stale => v)
  OBVIOUS
<1> HIDE DEF old, v
<1>3. /\ new = [f \in HistFields |-> new[f]] /\ new.stale = v
      /\ new.count = old.count /\ new.read = old.read /\ new.due = old.due
      /\ new.lr = old.lr /\ new.stolen = old.stolen /\ new.left = old.left
  BY <1>1 DEF HistFields
<1>4. Recalls(s, old, new) /\ new.stale = v
  BY <1>2, <1>3 DEF Recalls
<1>5. QED
  BY <1>4 DEF old, v

(* A turn begins: the hart may enter debug mode.                            *)
LEMMA BeginTurnDoes ==
    ASSUME Typed, BeginTurn
    PROVE  /\ loop.at = "idle" /\ loop'.at = "top"
           /\ \E s : Quiet(s) /\ s.h.minstret = state.minstret /\ hist'[cur].stale = hist[cur].stale
<1> DEFINE cause == CASE halt_request[cur] = "regular" -> "debugint"
                      [] halt_request[cur] = "group" -> "group"
                      [] state.dcsr.halt -> "halt"
                      [] OTHER -> "none"
           s == IF cause = "none" \/ state.debug_mode THEN me ELSE enter_debug_mode(me, cause)
           new == IF s.h.debug_mode THEN [hist[cur] EXCEPT !.left = 2] ELSE hist[cur]
           l == [Idle EXCEPT !.at = "top", !.n = INTERLEAVE]
<1>1. /\ loop.at = "idle" /\ hart' = [hart EXCEPT ![cur] = s.h] /\ mmu' = [mmu EXCEPT ![cur] = s.mm]
      /\ loop' = l
      /\ hist' = IF s.h.debug_mode THEN [hist EXCEPT ![cur].left = 2] ELSE hist
      /\ session' = session /\ code' = code /\ resets' = resets /\ cur' = cur
  BY Zenon DEF BeginTurn
<1>2. Becomes(s) /\ s.h.minstret = state.minstret
  <2> HIDE DEF cause
  <2>1. Kept(state, me.h, {"single_step"}) /\ StateOK(me)
    BY StaysItself DEF Kept, Becomes
  <2>2. CASE s = me
    BY <2>2, StaysItself
  <2>3. CASE s = enter_debug_mode(me, cause)
    <3> HIDE DEF s
    <3>1. QED
      BY <2>1, <2>3, StaysItself, BecomesDebugged
  <2>4. QED
    BY <2>2, <2>3
<1> HIDE DEF s
<1>3. /\ Recalls(s, hist[cur], new) /\ hist' = [hist EXCEPT ![cur] = new]
      /\ new.stale = hist[cur].stale
  <2>1. CASE s.h.debug_mode
    <3>1. new = [hist[cur] EXCEPT !.left = 2] /\ hist' = [hist EXCEPT ![cur] = new]
      BY <1>1, <2>1
    <3>2. new.stale = hist[cur].stale
      BY <3>1 DEF Typed, HistOK, HistFields
    <3> HIDE DEF new
    <3>3. QED
      BY <2>1, <3>1, <3>2, RecallsDebug
  <2>2. CASE ~s.h.debug_mode
    <3>1. new = hist[cur] /\ hist' = hist
      BY <1>1, <2>2
    <3> HIDE DEF new
    <3>2. QED
      BY <3>1, RecallsSame
  <2>3. QED
    BY <2>1, <2>2
<1> HIDE DEF new
<1>4. LoopOK(l) /\ l.at = "top"
  <2>1. /\ l = [f \in LoopFields |-> l[f]] /\ l.at = "top" /\ l.n = INTERLEAVE /\ l.instret = 0
        /\ l.again = NoInsn
    BY DEF LoopFields, Idle
  <2>2. INTERLEAVE \in Nat /\ INTERLEAVE > 0
    BY InterleaveAssumption
  <2> HIDE DEF l
  <2>3. QED
    BY <2>1, <2>2, LoopGoesOn
<1> HIDE DEF l
<1>5. LoopOK(loop') /\ loop'.at = "top"
  BY <1>1, <1>4
<1>6. Quiet(s)
  BY <1>1, <1>2, <1>3, <1>5, QuietSteps
<1>7. hist'[cur].stale = hist[cur].stale
  BY <1>1, <1>3 DEF Typed
<1>8. QED
  BY <1>1, <1>2, <1>5, <1>6, <1>7

(* An interrupt is taken, or the inner loop is entered.                     *)
LEMMA TopDoes ==
    ASSUME Typed, Top
    PROVE  /\ loop.at = "top"
           /\ \/ /\ loop'.at = "end"
                 /\ \E s : Quiet(s) /\ s.h.minstret = state.minstret
                 /\ hist'[cur].stale = (hist[cur].stale \/ state.serialized)
              \/ /\ loop' = [loop EXCEPT !.at = "inner", !.instret = 0, !.slow = slow_path(state)]
                 /\ Quiet(me) /\ hart' = hart /\ mmu' = mmu /\ hist' = hist
<1> DEFINE trap == take_pending_interrupt(state)
           s == caught(me, trap, state.pc)
           new == [hist[cur] EXCEPT !.stale = @ \/ state.serialized]
<1>1. /\ loop.at = "top"
      /\ session' = session /\ code' = code /\ resets' = resets /\ cur' = cur
  BY DEF Top
<1>2. \/ /\ hart' = [hart EXCEPT ![cur] = s.h] /\ mmu' = [mmu EXCEPT ![cur] = s.mm]
         /\ loop' = [Idle EXCEPT !.at = "end"]
         /\ hist' = [hist EXCEPT ![cur].stale = @ \/ state.serialized]
      \/ /\ loop' = [loop EXCEPT !.at = "inner", !.instret = 0, !.slow = slow_path(state)]
         /\ hart' = hart /\ mmu' = mmu /\ hist' = hist
  BY DEF Top
<1>3. /\ HartOK(state) /\ HartFields \subseteq DOMAIN state /\ StateOK(me) /\ me.h = state
      /\ me.mm = mmu[cur] /\ state.serialized \in BOOLEAN /\ state.debug_mode \in BOOLEAN
  BY StaysItself, HartFacts DEF Becomes, IsHart
<1> HIDE DEF trap
<1>4. CASE /\ hart' = [hart EXCEPT ![cur] = s.h] /\ mmu' = [mmu EXCEPT ![cur] = s.mm]
           /\ loop' = [Idle EXCEPT !.at = "end"]
           /\ hist' = [hist EXCEPT ![cur].stale = @ \/ state.serialized]
  <2>1. Caught(me, s, trap.cause, state.pc)
    BY <1>3, Catches
  <2> HIDE DEF s
  <2>2. /\ StateOK(s) /\ SamePort(mmu[cur], s.mm) /\ Kept(state, s.h, TrapFields \cup {"single_step"})
        /\ s.h.debug_mode \/ s.h.single_step = state.single_step
        /\ state.debug_mode => s.h.debug_mode
        /\ s.h.prv > state.prv => Gated(state, s.h, trap.cause, state.pc)
    BY <1>3, <2>1 DEF Caught
  <2>3. /\ s.h.pmpcfg = state.pmpcfg /\ s.h.pmpaddr = state.pmpaddr
        /\ s.h.minstret = state.minstret /\ s.h.serialized = state.serialized
    BY <1>3, <2>2 DEF Kept, HartFields, TrapFields
  <2>4. lockedKept(state, s.h)
    BY <2>3, LockedSame
  <2>5. privileged(state, s.h)
    <3>1. Kept(state, state, Harmless \cup {"pc"})
      BY DEF Kept
    <3>2. QED
      BY <1>3, <2>2, <3>1, GatesInsn
  <2>6. Becomes(s)
    BY <2>2, <2>3, <2>4, <2>5 DEF Becomes
  <2>7. hist' = [hist EXCEPT ![cur] = new]
    BY <1>4
  <2>8. Recalls(s, hist[cur], new) /\ new.stale = (hist[cur].stale \/ state.serialized)
    BY <1>3, RecallsTrap
  <2> HIDE DEF new
  <2>9. LoopOK(loop') /\ loop'.at = "end"
    BY <1>4, LoopEnds
  <2>10. Quiet(s)
    BY <1>1, <1>4, <2>6, <2>7, <2>8, <2>9, QuietSteps
  <2>11. hist'[cur] = new
    BY <2>7 DEF Typed
  <2>12. QED
    BY <1>1, <2>3, <2>8, <2>9, <2>10, <2>11
<1>5. CASE /\ loop' = [loop EXCEPT !.at = "inner", !.instret = 0, !.slow = slow_path(state)]
           /\ hart' = hart /\ mmu' = mmu /\ hist' = hist
  <2>1. hart' = [hart EXCEPT ![cur] = me.h] /\ mmu' = [mmu EXCEPT ![cur] = me.mm]
    BY <1>3, <1>5 DEF Typed, HartsOK, state
  <2>2. Recalls(me, hist[cur], hist[cur]) /\ hist' = [hist EXCEPT ![cur] = hist[cur]]
    BY <1>5, RecallsSame
  <2>3. LoopOK(loop') /\ loop'.at = "inner"
    <3>1. /\ loop = [f \in LoopFields |-> loop[f]] /\ loop.n \in Nat /\ loop.n > 0
          /\ loop.again = NoInsn \/ wellFormed(loop.again)
      BY <1>1 DEF Typed, LoopOK
    <3> DEFINE l == loop'
    <3>2. /\ l = [f \in LoopFields |-> l[f]] /\ l.at = "inner" /\ l.n = loop.n /\ l.instret = 0
          /\ l.again = loop.again
      BY <1>5, <3>1 DEF LoopFields
    <3> HIDE DEF l
    <3>3. l.n \in Nat /\ l.instret \in Nat /\ l.instret < l.n
      BY <3>1, <3>2
    <3>4. LoopOK(l)
      BY <3>1, <3>2, <3>3 DEF LoopOK
    <3>5. QED
      BY <3>2, <3>4 DEF l
  <2>4. Becomes(me)
    BY StaysItself
  <2>5. Quiet(me)
    BY <1>1, <2>1, <2>2, <2>3, <2>4, QuietSteps
  <2>6. QED
    BY <1>1, <1>5, <2>5
<1>6. QED
  BY <1>2, <1>4, <1>5

(* A step is over: the hart is in debug mode.                               *)
LEMMA StepDoneDoes ==
    ASSUME Typed, StepDone
    PROVE  /\ loop.at = "inner" /\ loop.slow /\ ~state.serialized
           /\ hist'[cur].stale = hist[cur].stale
           /\ \E s : /\ Quiet(s) /\ s.h.debug_mode
                     /\ \/ loop' = loop /\ s.h.minstret = state.minstret
                        \/ /\ loop'.at \in {"top", "end"}
                           /\ s.h.minstret = (state.minstret + loop.instret) % 2 ^ XLEN
<1> DEFINE g == [state EXCEPT !["single_step"] = "none"]
           none == [h |-> g, mm |-> mmu[cur]]
           s == enter_debug_mode(none, "step")
           w == [s EXCEPT !.h.minstret = (@ + loop.instret) % 2 ^ XLEN]
           new == [hist[cur] EXCEPT !.left = 2]
           l == [loop EXCEPT !.at = left(loop.instret), !.n = @ - loop.instret]
<1>1. /\ loop.at = "inner" /\ loop.slow /\ ~state.serialized
      /\ session' = session /\ code' = code /\ resets' = resets /\ cur' = cur
  BY DEF StepDone, stepOver, mustStop
<1>2. /\ HartOK(state) /\ HartFields \subseteq DOMAIN state /\ IsHart(state)
      /\ IsMmu(mmu[cur]) /\ cur \in Harts
  BY StaysItself, HartFacts DEF IsHart, Typed
<1>3. \/ /\ state.debug_mode /\ hart' = [hart EXCEPT ![cur] = g] /\ mmu' = mmu /\ loop' = loop
         /\ hist' = hist
      \/ /\ hart' = [hart EXCEPT ![cur] = leave(s.h)] /\ mmu' = [mmu EXCEPT ![cur] = s.mm]
         /\ loop' = l /\ hist' = [hist EXCEPT ![cur].left = 2]
  <2>1. [me EXCEPT !.h.single_step = "none"] = none
    BY DEF me
  <2>2. QED
    BY <2>1 DEF StepDone
<1>4. HartOK(g) /\ Kept(state, g, {"single_step"})
  <2>1. "single_step" \in DOMAIN state
    BY <1>2 DEF HartFields
  <2>2. IsHart(g) /\ Kept(state, g, {"single_step"})
    BY <1>2, <2>1, Put
  <2> HIDE DEF g
  <2>3. QED
    BY <1>2, <2>2, HartKept DEF FieldOK
<1> HIDE DEF g
<1>5. /\ g.pmpcfg = state.pmpcfg /\ g.pmpaddr = state.pmpaddr /\ g.debug_mode = state.debug_mode
      /\ g.prv = state.prv /\ g.minstret = state.minstret /\ g.serialized = state.serialized
  BY <1>2, <1>4 DEF Kept, HartFields
<1>6. StateOK(none) /\ none.h = g /\ none.mm = mmu[cur]
  BY <1>2, <1>4 DEF StateOK
<1> HIDE DEF none
<1>7. CASE /\ state.debug_mode /\ hart' = [hart EXCEPT ![cur] = g] /\ mmu' = mmu /\ loop' = loop
           /\ hist' = hist
  <2>1. Becomes(none)
    <3>1. lockedKept(state, g)
      BY <1>5, LockedSame
    <3>2. privileged(state, g)
      BY <1>7 DEF privileged
    <3>3. QED
      BY <1>5, <1>6, <1>7, <3>1, <3>2 DEF Becomes, SamePort
  <2>2. hart' = [hart EXCEPT ![cur] = none.h] /\ mmu' = [mmu EXCEPT ![cur] = none.mm]
    BY <1>2, <1>6, <1>7 DEF Typed
  <2>3. Recalls(none, hist[cur], hist[cur]) /\ hist' = [hist EXCEPT ![cur] = hist[cur]]
    BY <1>7, RecallsSame
  <2>4. LoopOK(loop') /\ loop'.at # "escaped"
    BY <1>1, <1>7 DEF Typed
  <2>5. Quiet(none)
    BY <1>1, <2>1, <2>2, <2>3, <2>4, QuietSteps
  <2>6. none.h.debug_mode /\ none.h.minstret = state.minstret
    BY <1>5, <1>6, <1>7
  <2>7. QED
    BY <1>1, <1>7, <2>5, <2>6
<1>8. CASE /\ hart' = [hart EXCEPT ![cur] = leave(s.h)] /\ mmu' = [mmu EXCEPT ![cur] = s.mm]
           /\ loop' = l /\ hist' = [hist EXCEPT ![cur].left = 2]
  <2>1. Becomes(s) /\ s.h.debug_mode /\ s.h.minstret = state.minstret /\ StateOK(s)
    BY <1>4, <1>6, BecomesDebugged DEF Becomes
  <2> HIDE DEF s
  <2>2. loop.instret \in Nat /\ loop.n \in Nat /\ loop.instret < loop.n /\ loop.n - loop.instret \in Nat
    BY <1>1 DEF Typed, LoopOK
  <2>3. w = [s EXCEPT !.h.minstret = (@ + loop.instret) % 2 ^ XLEN]
    OBVIOUS
  <2>4. w.h = leave(s.h) /\ w.mm = s.mm
    <3>1. s = [h |-> s.h, mm |-> s.mm]
      BY <2>1 DEF StateOK
    <3>2. QED
      BY <3>1 DEF leave
  <2> HIDE DEF w
  <2>5. Counted(s, w, loop.instret)
    BY <2>1, <2>2, <2>3, CountsUp, Zenon
  <2>6. /\ StateOK(w) /\ w.h.minstret = (s.h.minstret + loop.instret) % 2 ^ XLEN
        /\ lockedKept(state, w.h) /\ privileged(state, w.h)
        /\ w.h.serialized = s.h.serialized
        /\ w.h.single_step = s.h.single_step /\ w.h.debug_mode = s.h.debug_mode
    BY <2>1, <2>5, CountedKeeps, ZenonT(40) DEF Becomes
  <2>7. Becomes(w)
    BY <2>1, <2>4, <2>6 DEF Becomes
  <2>8. new = [hist[cur] EXCEPT !.left = 2] /\ hist' = [hist EXCEPT ![cur] = new]
    BY <1>8
  <2>9. new.stale = hist[cur].stale
    BY <1>2 DEF Typed, HistOK, HistFields
  <2> HIDE DEF new
  <2>10. Recalls(w, hist[cur], new)
    BY <2>1, <2>6, <2>8, RecallsDebug
  <2>11. LoopOK(loop') /\ loop'.at = "top"
    <3>1. /\ loop = [f \in LoopFields |-> loop[f]] /\ (loop.again = NoInsn \/ wellFormed(loop.again))
      BY DEF Typed, LoopOK
    <3>2. left(loop.instret) = "top"
      BY <2>2 DEF left
    <3> DEFINE k == loop'
    <3>3. /\ k = [f \in LoopFields |-> k[f]] /\ k.at = "top" /\ k.n = loop.n - loop.instret
          /\ k.instret = loop.instret /\ k.again = loop.again
      BY <1>8, <3>1, <3>2 DEF LoopFields
    <3> HIDE DEF k
    <3>4. k.n \in Nat /\ k.instret \in Nat /\ k.n > 0
      BY <2>2, <3>3
    <3>5. LoopOK(k)
      BY <3>1, <3>3, <3>4 DEF LoopOK
    <3>6. QED
      BY <3>3, <3>5 DEF k
  <2>12. hart' = [hart EXCEPT ![cur] = w.h] /\ mmu' = [mmu EXCEPT ![cur] = w.mm]
    BY <1>8, <2>4
  <2>13. Quiet(w)
    BY <1>1, <2>7, <2>8, <2>10, <2>11, <2>12, QuietSteps
  <2>14. hist'[cur] = new
    BY <1>2, <2>8 DEF Typed
  <2>15. QED
    BY <1>1, <2>1, <2>6, <2>9, <2>11, <2>13, <2>14
<1>9. QED
  BY <1>3, <1>7, <1>8

(* The types are kept by a quiet step.                                      *)
LEMMA QuietTyped == ASSUME Typed, loop.at # "escaped", NEW s, Quiet(s) PROVE Typed'
<1>1. /\ cur \in Harts /\ resets' \in Nat /\ cur' \in Harts /\ IsMmu(s.mm) /\ HartsOK(hart')
      /\ session' = session /\ LoopOK(loop') /\ code' = code
  BY DEF Typed, Quiet, Becomes, StateOK
<1>2. mmu' = [c \in Harts |-> mmu'[c]] /\ \A c \in Harts : IsMmu(mmu'[c])
  BY <1>1 DEF Typed, Quiet
<1>3. \A c \in Harts : mmu'[c].matched_trigger = NoMatch
  BY <1>1 DEF Typed, Quiet, MatchesOver, Becomes, SamePort
<1>4. hist' = [c \in Harts |-> hist'[c]] /\ \A c \in Harts : HistOK(hist'[c])
  BY <1>1 DEF Typed, Quiet, Recalls, HistOK
<1>5. /\ code' = [x \in DOMAIN code' |-> code'[x]]
      /\ \A x \in DOMAIN code' : \A insn \in code'[x] : wellFormed(insn)
  BY <1>1 DEF Typed, CodeOK
<1>6. QED
  BY <1>1, <1>2, <1>3, <1>4, <1>5, TypedNext

-----------------------------------------------------------------------------
(* The first state, the end of a turn and the debugger *)

\* A hart that was reset.
Fresh(h) == HartOK(h) /\ h.minstret = 0 /\ h.serialized = FALSE /\ h.debug_mode = FALSE

(* The first entry of the PMP is set.                                       *)
LEMMA Permits == ASSUME NEW h, Fresh(h) PROVE Fresh(permitAll(h))
<1> DEFINE a == [h.pmpaddr EXCEPT ![0] = 2 ^ (MAX_PADDR_BITS - PMP_SHIFT) - 1]
           c == [h.pmpcfg EXCEPT ![0] = [L |-> FALSE, A |-> "napot", perm |-> {"R", "W", "X"}]]
           g == permitAll(h)
<1>1. IsHart(h) /\ "pmpaddr" \in DOMAIN h /\ "pmpcfg" \in DOMAIN h
  BY HartFacts DEF Fresh, IsHart, HartFields
<1>2. g = [h EXCEPT !["pmpaddr"] = a, !["pmpcfg"] = c]
  BY <1>1 DEF permitAll, IsHart
<1>3. a = [i \in Entries |-> a[i]] /\ c = [i \in Entries |-> c[i]]
  <2>1. /\ h.pmpcfg = [i \in Entries |-> h.pmpcfg[i]]
        /\ h.pmpaddr = [i \in Entries |-> h.pmpaddr[i]]
    BY HartFacts DEF Fresh
  <2>2. ASSUME NEW f, f = [i \in Entries |-> f[i]], NEW v, NEW k, k = [f EXCEPT ![0] = v]
        PROVE  k = [i \in Entries |-> k[i]]
    BY <2>2
  <2>3. QED
    BY <2>1, <2>2, Zenon
<1> HIDE DEF a, c, g
<1>4. IsHart(g) /\ Kept(h, g, {"pmpaddr", "pmpcfg"}) /\ g["pmpaddr"] = a /\ g["pmpcfg"] = c
  <2> DEFINE k == [h EXCEPT !["pmpaddr"] = a, !["pmpcfg"] = c]
  <2>1. IsHart(k) /\ Kept(h, k, {"pmpaddr", "pmpcfg"})
    BY <1>1 DEF IsHart, Kept
  <2>2. k["pmpaddr"] = a
    BY <1>1
  <2>3. k["pmpcfg"] = c
    BY <1>1
  <2>4. QED
    BY <1>2, <2>1, <2>2, <2>3, Zenon
<1>5. HartOK(g)
  BY <1>3, <1>4, HartKept DEF FieldOK, Fresh
<1>6. g.minstret = h.minstret /\ g.serialized = h.serialized /\ g.debug_mode = h.debug_mode
  BY <1>1, <1>4 DEF Kept, IsHart, HartFields
<1>7. QED
  BY <1>5, <1>6 DEF Fresh, g

(* A hart after its registers were given their first values.                *)
LEMMA FreshRegisters ==
    ASSUME NEW h, h = [state_t EXCEPT !.dcsr.halt = FALSE] PROVE Fresh(h) /\ Fresh(permitAll(h))
<1> DEFINE d == [state_t.dcsr EXCEPT !.halt = FALSE]
<1>1. /\ state_t.misa = max_isa /\ state_t.prv = PRV_M /\ state_t.mstatus = NoStatus
      /\ state_t.mtvec = 0 /\ state_t.stvec = 0 /\ state_t.minstret = 0
      /\ state_t.debug_mode = FALSE /\ state_t.serialized = FALSE
      /\ state_t.pmpcfg = [i \in Entries |-> NoPmp] /\ state_t.pmpaddr = [i \in Entries |-> 0]
      /\ state_t.dcsr = [prv |-> 0, step |-> FALSE, ebreak |-> {}, halt |-> FALSE, cause |-> "none"]
  BY DEF state_t, Entries
<1>2. IsHart(state_t)
  <2>1. HartFields \subseteq DOMAIN state_t
    BY DEF state_t, HartFields
  <2>2. state_t = [f \in DOMAIN state_t |-> state_t[f]]
    BY DEF state_t
  <2>3. QED
    BY <2>1, <2>2 DEF IsHart
<1>3. d = state_t.dcsr /\ DcsrOK(d)
  <2> DEFINE e == state_t.dcsr
             v == FALSE
  <2>1. /\ e = [f \in {"prv", "step", "ebreak", "halt", "cause"} |-> e[f]]
        /\ e.halt = v /\ e.prv = 0
    BY <1>1
  <2>2. d = [e EXCEPT !.halt = v]
    OBVIOUS
  <2> HIDE DEF e, v, d
  <2>3. d = e
    BY <2>1, <2>2
  <2>4. DcsrOK(e)
    BY <2>1 DEF DcsrOK
  <2>5. QED
    BY <2>3, <2>4 DEF e
<1>4. h = state_t
  <2>1. h = [state_t EXCEPT !["dcsr"] = d] /\ state_t = [f \in DOMAIN state_t |-> state_t[f]]
    BY <1>2 DEF IsHart
  <2> HIDE DEF d
  <2>2. QED
    BY <1>2, <1>3, <2>1 DEF IsHart, HartFields
<1>5. HartOK(h)
  <2>1. 0 \in Word
    BY WordAssumption DEF Word
  <2>2. StatusOK(NoStatus)
    BY DEF StatusOK, NoStatus, StatusFields, PRV_U, PRV_S
  <2>3. IsaOK(max_isa)
    BY DEF IsaOK
  <2>4. \A f \in HartFields : FieldOK(f, state_t[f])
    BY <1>1, <1>3, <2>1, <2>2, <2>3, ModesTypes, ZenonT(40) DEF FieldOK, HartFields
  <2>5. QED
    BY <1>2, <1>4, <2>4 DEF HartOK
<1>6. Fresh(h)
  BY <1>1, <1>4, <1>5 DEF Fresh
<1>7. QED
  BY <1>6, Permits

(* A hart and its port are told apart.                                      *)
LEMMA PartsOf == ASSUME NEW s, NEW k, NEW n, s = [h |-> k, mm |-> n] PROVE s.h = k /\ s.mm = n
  OBVIOUS

(* What reset does to a hart and its port.                                  *)
LEMMA ResetsHart ==
    ASSUME NEW mm, IsMmu(mm), NEW r, r = reset(mm, FALSE)
    PROVE  Fresh(r.h) /\ IsMmu(r.mm) /\ SamePort(mm, r.mm)
<1> DEFINE h == [state_t EXCEPT !.dcsr.halt = FALSE]
<1>1. r = IF n_pmp > 0 THEN [h |-> permitAll(h), mm |-> flush_tlb(mm)] ELSE [h |-> h, mm |-> mm]
  BY DEF reset
<1>2. Fresh(h) /\ Fresh(permitAll(h))
  BY FreshRegisters
<1>3. IsMmu(flush_tlb(mm)) /\ SamePort(mm, flush_tlb(mm)) /\ SamePort(mm, mm)
  BY Flushes DEF SamePort
<1> DEFINE p == permitAll(h)
           n == flush_tlb(mm)
<1>4. /\ r = [h |-> p, mm |-> n] \/ r = [h |-> h, mm |-> mm]
      /\ Fresh(p) /\ IsMmu(n) /\ SamePort(mm, n)
  BY <1>1, <1>2, <1>3, Zenon
<1> HIDE DEF h, p, n
<1>5. CASE r = [h |-> p, mm |-> n]
  BY <1>4, <1>5, PartsOf, Zenon
<1>6. CASE r = [h |-> h, mm |-> mm]
  BY <1>2, <1>3, <1>6, PartsOf, Zenon
<1>7. QED
  BY <1>4, <1>5, <1>6, Zenon

(* The harts at power on.                                                   *)
LEMMA PowersOn ==
    /\ Fresh(processor_t(FALSE).h) /\ IsMmu(processor_t(FALSE).mm)
    /\ processor_t(FALSE).mm.matched_trigger = NoMatch
    /\ processor_t(FALSE).mm.load_reservation_address = -1
<1> DEFINE h == [state_t EXCEPT !.dcsr.halt = FALSE]
<1>1. processor_t(FALSE) = [h |-> permitAll(h), mm |-> mmu_t]
  BY DEF processor_t
<1> DEFINE p == permitAll(h)
<1>2. Fresh(p)
  BY FreshRegisters
<1> HIDE DEF h
<1>5. processor_t(FALSE).h = p /\ processor_t(FALSE).mm = mmu_t
  <2> DEFINE r == processor_t(FALSE)
  <2>1. r = [h |-> p, mm |-> mmu_t]
    BY <1>1, Zenon
  <2> HIDE DEF r, p
  <2>2. r.h = p /\ r.mm = mmu_t
    BY <2>1
  <2>3. QED
    BY <2>2 DEF r
<1> HIDE DEF p
<1>3. IsMmu(mmu_t) /\ mmu_t.matched_trigger = NoMatch /\ mmu_t.load_reservation_address = -1
  BY DEF mmu_t, IsMmu, MmuFields
<1>4. QED
  BY <1>2, <1>3, <1>5

\* What is remembered of a hart at first.
Blank == [count |-> 0, read |-> 0, due |-> 0, fenced |-> TRUE, lr |-> -1, stolen |-> FALSE,
          left |-> 2, stale |-> FALSE]

(* No instruction is under way between turns.                               *)
LEMMA IdleOK == LoopOK(Idle) /\ Idle.at = "idle"
  BY DEF LoopOK, LoopFields, Idle

(* The first state has the types.                                           *)
LEMMA InitTyped ==
    ASSUME Init
    PROVE  /\ Typed /\ loop.at = "idle"
           /\ \A c \in Harts : /\ Fresh(hart[c]) /\ mmu[c].load_reservation_address = -1
                               /\ hist[c] = Blank
<1>1. /\ session \in Sessions /\ cur = 0 /\ resets = session.resets /\ loop = Idle /\ code = session.code
      /\ hart = [c \in Harts |-> processor_t(FALSE).h] /\ mmu = [c \in Harts |-> processor_t(FALSE).mm]
      /\ hist = [c \in Harts |-> Blank]
  BY DEF Init, Blank
<1>2. cur \in Harts /\ resets \in Nat
  BY <1>1, SomeHart, SessionsAssumption
<1>3. \A c \in Harts : /\ Fresh(hart[c]) /\ IsMmu(mmu[c]) /\ mmu[c].matched_trigger = NoMatch
                       /\ mmu[c].load_reservation_address = -1 /\ hist[c] = Blank
  BY <1>1, PowersOn
<1>4. HistOK(Blank)
  <2>1. 0 \in Word
    BY WordAssumption DEF Word
  <2>2. QED
    BY <2>1 DEF HistOK, HistFields, Blank
<1>5. CodeOK
  BY <1>1, SessionsAssumption DEF CodeOK
<1>6. HartsOK(hart)
  BY <1>1, <1>3 DEF HartsOK, Fresh
<1>7. mmu = [c \in Harts |-> mmu[c]] /\ hist = [c \in Harts |-> hist[c]]
  BY <1>1
<1>8. Typed
  BY <1>1, <1>2, <1>3, <1>4, <1>5, <1>6, <1>7, IdleOK DEF Typed, MatchesOver
<1>9. QED
  BY <1>1, <1>3, <1>8, IdleOK

(* The turn passes, and the reservation goes.                               *)
LEMMA EndTurnDoes ==
    ASSUME Typed, EndTurn
    PROVE  /\ Typed' /\ loop.at = "end" /\ loop'.at = "idle"
           /\ session' = session /\ resets' = resets /\ hart' = hart /\ hist' = hist
           /\ mmu'[cur].load_reservation_address = -1
           /\ \A c \in Harts \ {cur} : mmu'[c] = mmu[c]
<1> DEFINE nn == yield_load_reservation(mmu[cur])
<1>1. /\ loop.at = "end" /\ mmu' = [mmu EXCEPT ![cur] = nn] /\ cur' = (cur + 1) % session.harts
      /\ loop' = Idle /\ session' = session /\ hart' = hart /\ code' = code /\ resets' = resets
      /\ hist' = hist
  BY DEF EndTurn
<1>2. /\ cur \in Harts /\ session \in Sessions /\ IsMmu(mmu[cur]) /\ mmu = [c \in Harts |-> mmu[c]]
      /\ \A c \in Harts : IsMmu(mmu[c])
  BY DEF Typed
<1>3. IsMmu(nn) /\ nn.load_reservation_address = -1 /\ nn.matched_trigger = mmu[cur].matched_trigger
  BY <1>2 DEF yield_load_reservation, IsMmu, MmuFields
<1> HIDE DEF nn
<1>4. /\ mmu' = [c \in Harts |-> mmu'[c]] /\ mmu'[cur] = nn
      /\ \A c \in Harts \ {cur} : mmu'[c] = mmu[c]
  BY <1>1, <1>2
<1>5. \A c \in Harts : IsMmu(mmu'[c])
  BY <1>2, <1>3, <1>4
<1>6. \A c \in Harts : mmu'[c].matched_trigger = NoMatch
  BY <1>1, <1>2, <1>3, <1>4 DEF Typed, MatchesOver
<1>7. cur' \in Harts
  <2>1. session.harts \in Nat \ {0} /\ cur \in Nat
    BY <1>2, SomeHart DEF Harts
  <2>2. QED
    BY <1>1, <2>1 DEF Harts
<1>8. /\ HartsOK(hart') /\ hist' = [c \in Harts |-> hist'[c]] /\ \A c \in Harts : HistOK(hist'[c])
  BY <1>1 DEF Typed
<1>9. /\ code' = [x \in DOMAIN code' |-> code'[x]]
      /\ \A x \in DOMAIN code' : \A i \in code'[x] : wellFormed(i)
  BY <1>1 DEF Typed, CodeOK
<1>10. resets' \in Nat /\ LoopOK(loop') /\ loop'.at = "idle"
  BY <1>1, IdleOK DEF Typed
<1>11. Typed'
  BY <1>1, <1>4, <1>5, <1>6, <1>7, <1>8, <1>9, <1>10, TypedNext
<1>12. QED
  BY <1>1, <1>3, <1>4, <1>10, <1>11

(* The debugger asks for a halt.                                            *)
LEMMA HaltRequestDoes ==
    ASSUME Typed, NEW c, HaltRequest(c)
    PROVE  /\ Typed' /\ session' = session /\ hart' = hart /\ mmu' = mmu /\ loop' = loop /\ cur' = cur
           /\ resets' = resets /\ hist' = hist
<1>1. /\ session' = session /\ hart' = hart /\ mmu' = mmu /\ loop' = loop /\ cur' = cur
      /\ resets' = resets /\ hist' = hist /\ code' = code
  BY DEF HaltRequest
<1>2. Harts' = Harts
  BY <1>1 DEF Harts
<1>3. HartsOK(hart)' /\ CodeOK' /\ MatchesOver'
  BY <1>1, <1>2 DEF Typed, HartsOK, CodeOK, MatchesOver
<1>4. QED
  BY <1>1, <1>2, <1>3 DEF Typed

(* The debugger resets a hart.                                              *)
LEMMA ResetHartDoes ==
    ASSUME Typed, NEW c \in Harts, ResetHart(c)
    PROVE  /\ Typed' /\ session' = session /\ loop.at = "idle" /\ loop' = loop /\ cur' = cur
           /\ resets' # resets
           /\ Fresh(hart'[c]) /\ \A d \in Harts \ {c} : hart'[d] = hart[d]
           /\ SamePort(mmu[c], mmu'[c]) /\ \A d \in Harts \ {c} : mmu'[d] = mmu[d]
           /\ hist'[c].read = 0 /\ hist'[c].due = 0 /\ hist'[c].count = 0 /\ hist'[c].left = 2
           /\ hist'[c].lr = hist[c].lr /\ hist'[c].stolen = hist[c].stolen
           /\ \A d \in Harts \ {c} : hist'[d] = hist[d]
<1> DEFINE r == reset(mmu[c], FALSE)
           old == hist[c]
           v == old.fenced \/ empty(r.mm)
           new == [old EXCEPT !.count = 0, !.read = 0, !.due = 0, !.left = 2, !.stale = FALSE,
                              !.fenced = v]
<1>1. /\ loop.at = "idle" /\ hart' = [hart EXCEPT ![c] = r.h] /\ mmu' = [mmu EXCEPT ![c] = r.mm]
      /\ hist' = [hist EXCEPT ![c].count = 0, ![c].read = 0, ![c].due = 0, ![c].left = 2,
                              ![c].stale = FALSE, ![c].fenced = @ \/ empty(r.mm)]
      /\ resets > 0 /\ resets' = resets - 1
      /\ session' = session /\ code' = code /\ loop' = loop /\ cur' = cur
  BY Zenon DEF ResetHart
<1>2. /\ hist = [d \in Harts |-> hist[d]] /\ mmu = [d \in Harts |-> mmu[d]] /\ IsMmu(mmu[c])
      /\ \A d \in Harts : IsMmu(mmu[d]) /\ HistOK(hist[d])
      /\ old = [f \in HistFields |-> old[f]]
  BY DEF Typed, HistOK
<1>3. hist' = [hist EXCEPT ![c] = new]
  BY <1>1, <1>2 DEF HistFields
<1>4. Fresh(r.h) /\ IsMmu(r.mm) /\ SamePort(mmu[c], r.mm)
  BY <1>2, ResetsHart
<1> HIDE DEF r
<1>5. new = [old EXCEPT !.count = 0, !.read = 0, !.due = 0, !.left = 2, !.stale = FALSE, !.fenced = v]
  OBVIOUS
<1> HIDE DEF v, old, new
<1>6. /\ new = [f \in HistFields |-> new[f]] /\ new.count = 0 /\ new.read = 0 /\ new.due = 0
      /\ new.left = 2 /\ new.stale = FALSE /\ new.lr = old.lr /\ new.stolen = old.stolen
  BY <1>2, <1>5 DEF HistFields
<1>7. HistOK(new)
  <2>1. 0 \in Word
    BY WordAssumption DEF Word
  <2>2. QED
    BY <1>6, <2>1 DEF HistOK
<1>8. /\ hist' = [d \in Harts |-> hist'[d]] /\ hist'[c] = new /\ \A d \in Harts \ {c} : hist'[d] = hist[d]
  BY <1>2, <1>3
<1>9. /\ mmu' = [d \in Harts |-> mmu'[d]] /\ mmu'[c] = r.mm /\ \A d \in Harts \ {c} : mmu'[d] = mmu[d]
  BY <1>1, <1>2
<1>10. HartsOK(hart') /\ hart'[c] = r.h /\ \A d \in Harts \ {c} : hart'[d] = hart[d]
  BY <1>1, <1>4 DEF Typed, HartsOK, Fresh
<1>11. /\ \A d \in Harts : HistOK(hist'[d]) /\ IsMmu(mmu'[d])
  BY <1>2, <1>4, <1>7, <1>8, <1>9
<1>12. \A d \in Harts : mmu'[d].matched_trigger = NoMatch
  BY <1>1, <1>4, <1>9 DEF Typed, MatchesOver, SamePort
<1>13. /\ code' = [x \in DOMAIN code' |-> code'[x]]
       /\ \A x \in DOMAIN code' : \A i \in code'[x] : wellFormed(i)
  BY <1>1 DEF Typed, CodeOK
<1>14. cur' \in Harts /\ resets' \in Nat /\ LoopOK(loop') /\ resets' # resets
  BY <1>1 DEF Typed
<1>15. Typed'
  BY <1>1, <1>8, <1>9, <1>10, <1>11, <1>12, <1>13, <1>14, TypedNext
<1>16. QED
  BY <1>1, <1>4, <1>6, <1>8, <1>9, <1>10, <1>14, <1>15 DEF old

(* Nothing changes in a step that changes no variable.                      *)
LEMMA StutterTyped == ASSUME Typed, UNCHANGED vars PROVE Typed'
<1>1. /\ session' = session /\ hart' = hart /\ mmu' = mmu /\ loop' = loop /\ cur' = cur
      /\ resets' = resets /\ hist' = hist /\ code' = code
  BY DEF vars
<1>2. Harts' = Harts
  BY <1>1 DEF Harts
<1>3. HartsOK(hart)' /\ CodeOK' /\ MatchesOver'
  BY <1>1, <1>2 DEF Typed, HartsOK, CodeOK, MatchesOver
<1>4. QED
  BY <1>1, <1>2, <1>3 DEF Typed

-----------------------------------------------------------------------------
(* Types, the PMP and privilege *)

(* A step between instructions, and what it leaves alone.                   *)
LEMMA QuietStep ==
    ASSUME Typed, BeginTurn \/ Top \/ StepDone PROVE loop.at # "escaped" /\ \E s : Quiet(s)
<1>1. CASE BeginTurn
  BY <1>1, BeginTurnDoes
<1>2. CASE Top
  BY <1>2, TopDoes
<1>3. CASE StepDone
  BY <1>3, StepDoneDoes
<1>4. QED
  BY <1>1, <1>2, <1>3

(* Every step keeps the types.                                              *)
LEMMA NextTyped == ASSUME Typed, [Next]_vars PROVE Typed'
<1>1. CASE BeginTurn \/ Top \/ StepDone
  BY <1>1, QuietStep, QuietTyped
<1>2. CASE Execute
  BY <1>2, ExecuteTyped
<1>3. CASE EndTurn
  BY <1>3, EndTurnDoes
<1>4. ASSUME NEW c \in Harts, HaltRequest(c) \/ ResetHart(c) PROVE Typed'
  BY <1>4, HaltRequestDoes, ResetHartDoes
<1>5. CASE UNCHANGED vars
  BY <1>5, StutterTyped
<1>6. QED
  BY <1>1, <1>2, <1>3, <1>4, <1>5 DEF Next

(* The types of the harts, their memory ports, the loop of step, the code   *)
(* and what is remembered hold of every session: no register, no field of   *)
(* the MMU and no local of step ever holds what the code would not put      *)
(* there, and a match of a trigger never outlives its instruction.          *)
THEOREM HartTyped == Spec => []Typed
<1>1. Init => Typed
  BY InitTyped
<1>2. Typed /\ [Next]_vars => Typed'
  BY NextTyped
<1>3. QED
  BY <1>1, <1>2, PTL DEF Spec

(* Whatever the step, a hart that is not reset keeps the locked entries of  *)
(* its PMP and gains privilege only through a gate.                         *)
LEMMA StepsGuarded ==
    ASSUME Typed, [Next]_vars, resets' = resets
    PROVE  \A c \in Harts : lockedKept(hart[c], hart'[c]) /\ privileged(hart[c], hart'[c])
<1>1. \A c \in Harts : HartOK(hart[c]) /\ lockedKept(hart[c], hart[c]) /\ privileged(hart[c], hart[c])
  <2> SUFFICES ASSUME NEW c \in Harts
               PROVE  HartOK(hart[c]) /\ lockedKept(hart[c], hart[c]) /\ privileged(hart[c], hart[c])
    OBVIOUS
  <2>1. HartOK(hart[c]) /\ hart[c].prv \in 0 .. 3
    BY HartFacts DEF Typed, HartsOK
  <2>2. QED
    BY <2>1, LockedSame DEF privileged
<1>2. CASE BeginTurn \/ Top \/ StepDone
  <2>1. PICK s : Quiet(s)
    BY <1>2, QuietStep
  <2>2. QED
    BY <1>1, <2>1 DEF Quiet, Becomes, state
<1>3. CASE Execute
  <2>1. PICK insn, o, last, a : Executed(insn, o, last, a)
    BY <1>3, ExecuteDoes
  <2>2. HartOK(a.s.h) /\ lockedKept(state, a.s.h) /\ privileged(state, a.s.h)
    BY <2>1 DEF Executed, Holds, StateOK
  <2>3. Kept(a.s.h, hart'[cur], {"mip", "x"}) /\ \A c \in Harts \ {cur} : Kept(hart[c], hart'[c], {"mip"})
    BY <2>1 DEF Executed
  <2>4. {"mip", "x"} \subseteq Harmless /\ {"mip"} \subseteq Harmless
    BY DEF Harmless
  <2>5. lockedKept(state, hart'[cur]) /\ privileged(state, hart'[cur])
    BY <2>2, <2>3, <2>4, Unaffected
  <2>6. \A c \in Harts \ {cur} : lockedKept(hart[c], hart'[c]) /\ privileged(hart[c], hart'[c])
    BY <1>1, <2>3, <2>4, Unaffected
  <2>7. QED
    BY <2>5, <2>6 DEF state
<1>4. CASE EndTurn
  BY <1>1, <1>4, EndTurnDoes
<1>5. ASSUME NEW c \in Harts, HaltRequest(c) PROVE hart' = hart
  BY <1>5, HaltRequestDoes
<1>6. ASSUME NEW c \in Harts, ResetHart(c) PROVE FALSE
  BY <1>6, ResetHartDoes
<1>7. CASE UNCHANGED vars
  BY <1>1, <1>7 DEF vars
<1>8. QED
  BY <1>1, <1>2, <1>3, <1>4, <1>5, <1>6, <1>7 DEF Next

(* A locked entry of the PMP keeps its configuration and its address, and   *)
(* a locked top-of-range entry the address below it, through every          *)
(* instruction, trap, single step and turn, until the hart is reset.        *)
THEOREM HartLockedKept == Spec => LockedKept
<1>1. Typed /\ [Next]_vars => [resets' = resets => \A c \in Harts : lockedKept(hart[c], hart'[c])]_vars
  BY StepsGuarded
<1>2. QED
  BY <1>1, HartTyped, PTL DEF Spec, LockedKept

(* A hart outside debug mode gains privilege only by entering the handler   *)
(* of a trap, with the mode, the pc and the interrupt enable it had saved   *)
(* and interrupts off, or by entering debug mode.                           *)
THEOREM HartPrivilegeGated == Spec => PrivilegeGated
<1>1. Typed /\ [Next]_vars => [resets' = resets => \A c \in Harts : privileged(hart[c], hart'[c])]_vars
  BY StepsGuarded
<1>2. QED
  BY <1>1, HartTyped, PTL DEF Spec, PrivilegeGated

-----------------------------------------------------------------------------
(* The inductive invariant: c is a hart, h its registers, mm its port, old  *)
(* what is remembered of it, l the locals of step and now the hart whose    *)
(* turn it is.                                                              *)

\* A reservation is held in its hart's turn only, and for the word remembered.
Reserving(c, mm, old, l, now) ==
    /\ ~old.stolen
    /\ c # now \/ l.at = "idle" => mm.load_reservation_address = -1
    /\ mm.load_reservation_address # -1 => old.lr = wordOf(mm.load_reservation_address)

\* The pipe is serialized for the access to a register that comes next.
Serializing(c, h, old, l, now) ==
    h.serialized /\ ~old.stale =>
        /\ c = now /\ l.at \in {"top", "inner"} /\ l.again.op \in CsrOps
        /\ l.at = "inner" => l.instret = 0

\* What was retired is in minstret or in the local of step.
Counting(c, h, old, l, now) ==
    ~old.stale =>
        /\ old.read = old.due
        /\ c # now \/ l.at \in {"idle", "top", "end"} => h.minstret = old.count
        /\ c = now /\ l.at = "inner" => old.count = (h.minstret + l.instret) % 2 ^ XLEN

\* A step that is used up is seen by the slow path.
Stepping(c, h, old, l, now) ==
    /\ ~old.stale =>
           /\ old.left \in {0, 1, 2}
           /\ ~h.debug_mode /\ old.left = 1 => h.single_step \in {"stepping", "stepped"}
           /\ ~h.debug_mode /\ old.left = 0 => h.single_step = "stepped" /\ ~h.serialized
    /\ c = now /\ l.at = "inner" /\ slow_path(h) => l.slow

ScInv == \A c \in Harts : Reserving(c, mmu[c], hist[c], loop, cur)
SerialInv == \A c \in Harts : Serializing(c, hart[c], hist[c], loop, cur)
ExactInv == \A c \in Harts : Counting(c, hart[c], hist[c], loop, cur)
StepInv == \A c \in Harts : Stepping(c, hart[c], hist[c], loop, cur)

(* The first state.                                                         *)
LEMMA InitInv == ASSUME Init PROVE ScInv /\ SerialInv /\ ExactInv /\ StepInv
<1>1. /\ loop.at = "idle"
      /\ \A c \in Harts : Fresh(hart[c]) /\ mmu[c].load_reservation_address = -1 /\ hist[c] = Blank
  BY InitTyped
<1>2. /\ Blank.stolen = FALSE /\ Blank.read = 0 /\ Blank.due = 0 /\ Blank.count = 0
      /\ Blank.left = 2
  BY DEF Blank
<1>3. ScInv
  BY <1>1, <1>2 DEF ScInv, Reserving
<1>4. SerialInv
  BY <1>1 DEF SerialInv, Serializing, Fresh
<1>5. ExactInv
  BY <1>1, <1>2 DEF ExactInv, Counting, Fresh
<1>6. StepInv
  BY <1>1, <1>2 DEF StepInv, Stepping
<1>7. QED
  BY <1>3, <1>4, <1>5, <1>6

(* The instruction that is executed again is the one the pipe was           *)
(* serialized for.                                                          *)
LEMMA AgainIsCsr ==
    ASSUME Typed, loop.again.op \in CsrOps, NEW insn \in insnsHere PROVE insn.op \in CsrOps
<1>1. loop.again # NoInsn
  BY DEF NoInsn, CsrOps
<1>2. insn = loop.again
  BY <1>1 DEF insnsHere
<1>3. QED
  BY <1>2

(* What an instruction leaves of the registers the invariant is about.      *)
LEMMA ExecutedFields ==
    ASSUME Typed, NEW insn, NEW o, NEW last, NEW a, Executed(insn, o, last, a)
    PROVE  /\ cur \in Harts /\ session' = session /\ cur' = cur /\ loop' = a.l /\ a.l.at # "idle"
           /\ insn \in insnsHere /\ wellFormed(insn)
           /\ hart'[cur].serialized = a.s.h.serialized /\ hart'[cur].minstret = a.s.h.minstret
           /\ hart'[cur].single_step = a.s.h.single_step /\ hart'[cur].debug_mode = a.s.h.debug_mode
           /\ mmu'[cur] = a.s.mm
           /\ RemembersOwn(insn, o, last, a, hist[cur], hist'[cur])
           /\ \A c \in Harts \ {cur} :
                  /\ hart'[c].serialized = hart[c].serialized /\ hart'[c].minstret = hart[c].minstret
                  /\ hart'[c].single_step = hart[c].single_step
                  /\ hart'[c].debug_mode = hart[c].debug_mode
                  /\ mmu'[c] = mmu[c] /\ RemembersOther(hist[c], hist'[c])
<1>1. /\ insn \in insnsHere /\ wellFormed(insn) /\ last = lastOf(o, insn)
      /\ Kept(a.s.h, hart'[cur], {"mip", "x"})
      /\ \A c \in Harts \ {cur} : Kept(hart[c], hart'[c], {"mip"})
      /\ mmu' = [mmu EXCEPT ![cur] = a.s.mm] /\ loop' = a.l /\ hist' = remember(o, a, insn)
      /\ session' = session /\ cur' = cur /\ HartOK(a.s.h) /\ a.l.at # "idle"
  BY DEF Executed, Holds, StateOK
<1>2. cur \in Harts /\ mmu = [c \in Harts |-> mmu[c]] /\ \A c \in Harts : HartOK(hart[c])
  BY DEF Typed, HartsOK
<1>3. mmu'[cur] = a.s.mm /\ \A c \in Harts \ {cur} : mmu'[c] = mmu[c]
  BY <1>1, <1>2
<1>4. /\ hart'[cur].serialized = a.s.h.serialized /\ hart'[cur].minstret = a.s.h.minstret
      /\ hart'[cur].single_step = a.s.h.single_step /\ hart'[cur].debug_mode = a.s.h.debug_mode
  <2>1. HartFields \subseteq DOMAIN a.s.h
    BY <1>1, HartFacts DEF IsHart
  <2>2. QED
    BY <1>1, <2>1 DEF Kept, HartFields
<1>5. ASSUME NEW c \in Harts \ {cur}
      PROVE  /\ hart'[c].serialized = hart[c].serialized /\ hart'[c].minstret = hart[c].minstret
             /\ hart'[c].single_step = hart[c].single_step /\ hart'[c].debug_mode = hart[c].debug_mode
  <2>1. HartFields \subseteq DOMAIN hart[c] /\ Kept(hart[c], hart'[c], {"mip"})
    BY <1>1, <1>2, HartFacts DEF IsHart
  <2>2. QED
    BY <2>1 DEF Kept, HartFields
<1>6. /\ RemembersOwn(insn, o, last, a, hist[cur], hist'[cur])
      /\ \A c \in Harts \ {cur} : RemembersOther(hist[c], hist'[c])
  BY <1>1, Remembers
<1>7. QED
  BY <1>1, <1>2, <1>3, <1>4, <1>5, <1>6

(* An instruction and the reservations.                                     *)
LEMMA ExecuteReserves == ASSUME Typed, ScInv, Execute PROVE ScInv'
<1>1. PICK insn, o, last, a : Executed(insn, o, last, a)
  BY ExecuteDoes
<1>2. /\ cur \in Harts /\ session' = session /\ cur' = cur /\ loop' = a.l /\ a.l.at # "idle"
      /\ mmu'[cur] = a.s.mm /\ RemembersOwn(insn, o, last, a, hist[cur], hist'[cur])
      /\ \A c \in Harts \ {cur} : mmu'[c] = mmu[c] /\ RemembersOther(hist[c], hist'[c])
  BY <1>1, ExecutedFields
<1>3. HoldsReservation(insn, last, a)
  BY <1>1 DEF Executed, Holds
<1> DEFINE new == hist'[cur]
           won == scSucceeded(last, insn)
           was == mmu[cur].load_reservation_address
           is == a.s.mm.load_reservation_address
           kept == insn.op = "lr" /\ a.retired
<1>4. /\ new.lr = IF kept THEN wordOf(is) ELSE IF won THEN -1 ELSE hist[cur].lr
      /\ new.stolen = (won /\ hist[cur].lr # wordOf(was))
  BY <1>2 DEF RemembersOwn
<1>5. (is \in {was, -1} \/ kept) /\ (won => was # -1 /\ is = -1)
  BY <1>3 DEF HoldsReservation
<1>6. was # -1 => hist[cur].lr = wordOf(was)
  BY <1>2 DEF ScInv, Reserving
<1> HIDE DEF won, kept, was, is
<1>7. Reserving(cur, mmu'[cur], new, loop', cur)
  <2>1. ~new.stolen
    BY <1>4, <1>5, <1>6
  <2>2. is # -1 => new.lr = wordOf(is)
    BY <1>4, <1>5, <1>6
  <2>3. QED
    BY <1>2, <2>1, <2>2 DEF Reserving, is
<1>8. \A c \in Harts \ {cur} : Reserving(c, mmu'[c], hist'[c], loop', cur)
  BY <1>2 DEF ScInv, Reserving, RemembersOther
<1>9. QED
  BY <1>2, <1>7, <1>8 DEF ScInv, Harts

(* An instruction and the serialized pipe.                                  *)
LEMMA ExecuteSerializes == ASSUME Typed, SerialInv, Execute PROVE SerialInv'
<1>1. PICK insn, o, last, a : Executed(insn, o, last, a)
  BY ExecuteDoes
<1>2. /\ cur \in Harts /\ session' = session /\ cur' = cur /\ loop' = a.l /\ insn \in insnsHere
      /\ hart'[cur].serialized = a.s.h.serialized
      /\ RemembersOwn(insn, o, last, a, hist[cur], hist'[cur])
      /\ \A c \in Harts \ {cur} : hart'[c].serialized = hart[c].serialized
                                  /\ RemembersOther(hist[c], hist'[c])
  BY <1>1, ExecutedFields
<1>3. HoldsSerial(insn, o, a)
  BY <1>1 DEF Executed, Holds
<1>4. hist'[cur].stale = (hist[cur].stale \/ overtaken(o))
  BY <1>2 DEF RemembersOwn
<1>5. Serializing(cur, hart'[cur], hist'[cur], loop', cur)
  <2> SUFFICES ASSUME a.s.h.serialized, ~hist'[cur].stale
               PROVE  a.l.at = "top" /\ a.l.again.op \in CsrOps
    BY <1>2 DEF Serializing
  <2>1. ~hist[cur].stale /\ ~overtaken(o)
    BY <1>4
  <2>2. state.serialized => insn.op \in CsrOps
    BY <1>2, <2>1, AgainIsCsr DEF SerialInv, Serializing, state
  <2>3. QED
    BY <1>3, <2>1, <2>2 DEF HoldsSerial
<1>6. \A c \in Harts \ {cur} : Serializing(c, hart'[c], hist'[c], loop', cur)
  BY <1>2 DEF SerialInv, Serializing, RemembersOther
<1>7. QED
  BY <1>2, <1>5, <1>6 DEF SerialInv, Harts

(* Remainders by the size of a word.                                        *)
LEMMA WordArithmetic ==
    /\ \A m \in Word : m % 2 ^ XLEN = m
    /\ \A m \in Word, i \in Nat : (((m + i) % 2 ^ XLEN) + 1) % 2 ^ XLEN = (m + (i + 1)) % 2 ^ XLEN
    /\ \A m \in Word : (((m + 2 ^ XLEN - 1) % 2 ^ XLEN) + 1) % 2 ^ XLEN = m
<1> DEFINE W == 2 ^ XLEN
<1>1. W \in Nat \ {0} /\ Word = 0 .. W - 1
  BY WordAssumption DEF Word
<1> HIDE DEF W
<1>2. \A m \in Word : m % W = m
  BY <1>1
<1>3. ASSUME NEW m \in Word, NEW i \in Nat PROVE (((m + i) % W) + 1) % W = (m + (i + 1)) % W
  <2> DEFINE n == m + i
             q == n \div W
             r == n % W
  <2>1. n \in Nat /\ m + (i + 1) = n + 1
    BY <1>1
  <2> HIDE DEF n
  <2>2. q \in Nat /\ r \in 0 .. W - 1 /\ n = W * q + r
    BY <1>1, <2>1
  <2> HIDE DEF q, r
  <2>3. ASSUME NEW p \in Nat, NEW k \in 0 .. W - 1 PROVE (W * p + k) % W = k
    BY <1>1
  <2>4. CASE r + 1 < W
    <3>1. r + 1 \in 0 .. W - 1 /\ (r + 1) % W = r + 1
      BY <1>1, <2>2, <2>4
    <3>2. (W * q + (r + 1)) % W = r + 1
      BY <2>2, <2>3, <3>1
    <3>3. n + 1 = W * q + (r + 1)
      BY <1>1, <2>2
    <3>4. QED
      BY <2>1, <3>1, <3>2, <3>3 DEF r, n
  <2>5. CASE r + 1 = W
    <3>1. (r + 1) % W = 0
      BY <1>1, <2>5
    <3>2. (W * (q + 1) + 0) % W = 0
      BY <1>1, <2>2, <2>3
    <3>3. n + 1 = W * (q + 1) + 0
      BY <1>1, <2>2, <2>5
    <3>4. QED
      BY <2>1, <3>1, <3>2, <3>3 DEF r, n
  <2>6. QED
    BY <1>1, <2>2, <2>4, <2>5
<1>4. ASSUME NEW m \in Word PROVE (((m + W - 1) % W) + 1) % W = m
  <2>1. CASE m = 0
    BY <1>1, <2>1
  <2>2. CASE m > 0
    <3>1. (m + W - 1) % W = m - 1
      BY <1>1, <2>2
    <3>2. QED
      BY <1>1, <2>2, <3>1
  <2>3. QED
    BY <1>1, <2>1, <2>2
<1>5. QED
  BY <1>2, <1>3, <1>4 DEF W

(* An instruction and the counter.                                          *)
LEMMA ExecuteCounts == ASSUME Typed, SerialInv, ExactInv, Execute PROVE ExactInv'
<1>1. PICK insn, o, last, a : Executed(insn, o, last, a)
  BY ExecuteDoes
<1>2. /\ cur \in Harts /\ session' = session /\ cur' = cur /\ loop' = a.l /\ a.l.at # "idle"
      /\ wellFormed(insn) /\ hart'[cur].minstret = a.s.h.minstret
      /\ RemembersOwn(insn, o, last, a, hist[cur], hist'[cur])
      /\ \A c \in Harts \ {cur} : hart'[c].minstret = hart[c].minstret
                                  /\ RemembersOther(hist[c], hist'[c])
  BY <1>1, ExecutedFields
<1>3. HoldsCount(insn, a) /\ LoopOK(a.l)
  BY <1>1 DEF Executed, Holds
<1> DEFINE new == hist'[cur]
           old == hist[cur]
           m == state.minstret
           i == loop.instret
           val == insn.val
           writes == insn.op = "csrrw" /\ insn.csr = "minstret"
           reads == insn.op = "csrr" /\ insn.csr \in {"minstret", "instret"} /\ a.retired
           next == IF a.retired THEN i + 1 ELSE i
<1>4. /\ new.count = IF ~a.retired THEN old.count ELSE IF writes THEN val ELSE (old.count + 1) % 2 ^ XLEN
      /\ new.read = IF reads THEN a.s.h.x ELSE old.read
      /\ new.due = IF reads THEN old.count ELSE old.due
      /\ new.stale = (old.stale \/ overtaken(o))
  BY <1>2 DEF RemembersOwn, countAfter
<1>5. loop.at = "inner" /\ i \in Nat /\ m \in Word
  BY <1>2, ExecuteDoes, HartFacts DEF Typed, LoopOK, HartsOK, state
<1>6. Counting(cur, hart'[cur], new, loop', cur)
  <2> SUFFICES ASSUME ~new.stale
               PROVE  /\ new.read = new.due
                      /\ a.l.at \in {"top", "end"} => a.s.h.minstret = new.count
                      /\ a.l.at = "inner" => new.count = (a.s.h.minstret + a.l.instret) % 2 ^ XLEN
    BY <1>2, <1>3 DEF Counting, LoopOK
  <2>1. ~old.stale
    BY <1>4
  <2>2. old.read = old.due /\ old.count = (m + i) % 2 ^ XLEN
    BY <1>2, <1>5, <2>1 DEF ExactInv, Counting, state
  <2>3. a.retired /\ insn.op \in CsrOps => i = 0
    BY <1>2, <1>3, <1>5, <2>1 DEF HoldsCount, SerialInv, Serializing, state
  <2>4. new.read = new.due
    <3>1. CASE reads
      <4>1. a.s.h.x = m /\ i = 0
        BY <1>3, <2>3, <3>1 DEF HoldsCount, CsrOps
      <4>2. old.count = m
        BY <1>5, <2>2, <4>1, WordArithmetic DEF Word
      <4>3. QED
        BY <1>4, <3>1, <4>1, <4>2
    <3>2. CASE ~reads
      BY <1>4, <2>2, <3>2
    <3>3. QED
      BY <3>1, <3>2
  <2>5. (((m + i) % 2 ^ XLEN) + 1) % 2 ^ XLEN = (m + (i + 1)) % 2 ^ XLEN
    BY <1>5, WordArithmetic
  <2>6. a.l.at \in {"top", "end"} => a.s.h.minstret = (base(insn, a) + next) % 2 ^ XLEN
    BY <1>3 DEF HoldsCount
  <2>7. a.l.at = "inner" => /\ a.retired /\ ~writes /\ a.l.instret = i + 1 /\ a.s.h.minstret = m
    BY <1>3 DEF HoldsCount, CsrOps
  <2>8. base(insn, a) = IF writes /\ a.retired THEN (val + 2 ^ XLEN - 1) % 2 ^ XLEN ELSE m
    BY DEF base
  <2>9. writes => val \in Word
    BY <1>2 DEF wellFormed, operand
  <2>10. writes /\ a.retired => i = 0
    BY <2>3 DEF CsrOps
  <2> HIDE DEF new, old, m, i, val, writes, reads
  <2>11. CASE ~a.retired
    BY <1>4, <2>2, <2>4, <2>6, <2>7, <2>8, <2>11
  <2>12. CASE a.retired /\ writes
    <3>1. (((val + 2 ^ XLEN - 1) % 2 ^ XLEN) + 1) % 2 ^ XLEN = val /\ next = 1
      BY <2>9, <2>10, <2>12, WordArithmetic
    <3>2. QED
      BY <1>4, <2>4, <2>6, <2>7, <2>8, <2>12, <3>1
  <2>13. CASE a.retired /\ ~writes
    BY <1>4, <2>2, <2>4, <2>5, <2>6, <2>7, <2>8, <2>13
  <2>14. QED
    BY <1>3, <2>11, <2>12, <2>13 DEF HoldsCount
<1>7. \A c \in Harts \ {cur} : Counting(c, hart'[c], hist'[c], loop', cur)
  BY <1>2, ZenonT(40) DEF ExactInv, Counting, RemembersOther
<1>8. QED
  BY <1>2, <1>6, <1>7 DEF ExactInv, Harts

(* An instruction and single steps.                                         *)
LEMMA ExecuteSteps == ASSUME Typed, SerialInv, StepInv, Execute PROVE StepInv'
<1>1. PICK insn, o, last, a : Executed(insn, o, last, a)
  BY ExecuteDoes
<1>2. /\ cur \in Harts /\ session' = session /\ cur' = cur /\ loop' = a.l /\ insn \in insnsHere
      /\ hart'[cur].serialized = a.s.h.serialized /\ hart'[cur].single_step = a.s.h.single_step
      /\ hart'[cur].debug_mode = a.s.h.debug_mode
      /\ RemembersOwn(insn, o, last, a, hist[cur], hist'[cur])
      /\ \A c \in Harts \ {cur} :
             /\ hart'[c].serialized = hart[c].serialized /\ hart'[c].single_step = hart[c].single_step
             /\ hart'[c].debug_mode = hart[c].debug_mode /\ RemembersOther(hist[c], hist'[c])
  BY <1>1, ExecutedFields
<1>3. HoldsStep(insn, o, a) /\ HoldsSerial(insn, o, a)
  BY <1>1 DEF Executed, Holds
<1>4. /\ hist'[cur].stale = (hist[cur].stale \/ overtaken(o))
      /\ hist'[cur].left = leftAfter(o, a, insn)
  BY <1>2 DEF RemembersOwn
<1>5. loop.at = "inner" /\ ~stepOver /\ Stepping(cur, state, hist[cur], loop, cur)
  BY <1>2, ExecuteDoes DEF StepInv, state
<1>6. slow_path(state) => loop.slow
  BY <1>5 DEF Stepping
<1> DEFINE old == hist[cur].left
           new == hist'[cur].left
           resumed == insn.op = "dret" /\ a.retired
           used == a.retired \/ (o.trap # NoTrap /\ ~isInterrupt(o.trap.cause)) \/ o.kind = "wfi"
<1>7. a.l.at = "inner" /\ slow_path(a.s.h) => a.l.slow
  <2> SUFFICES ASSUME a.l.at = "inner", slow_path(a.s.h) PROVE loop.slow
    BY <1>3 DEF HoldsStep
  <2>1. slow_path(state)
    BY <1>3 DEF HoldsStep, slow_path, begun
  <2>2. QED
    BY <1>6, <2>1
<1>8. ASSUME ~hist'[cur].stale
      PROVE  /\ new \in {0, 1, 2}
             /\ ~a.s.h.debug_mode /\ new = 1 => a.s.h.single_step \in {"stepping", "stepped"}
             /\ ~a.s.h.debug_mode /\ new = 0 => a.s.h.single_step = "stepped" /\ ~a.s.h.serialized
  <2>1. ~hist[cur].stale /\ ~overtaken(o)
    BY <1>4, <1>8
  <2>2. /\ old \in {0, 1, 2}
        /\ ~state.debug_mode /\ old = 1 => state.single_step \in {"stepping", "stepped"}
        /\ ~state.debug_mode /\ old = 0 => state.single_step = "stepped" /\ ~state.serialized
    BY <1>5, <2>1 DEF Stepping
  <2>3. new = IF a.s.h.debug_mode THEN 2
              ELSE IF resumed THEN (IF state.dcsr.step THEN 1 ELSE 2)
              ELSE IF old < 2 /\ used THEN old - 1 ELSE old
    BY <1>4 DEF leftAfter
  <2>4. CASE a.s.h.debug_mode
    BY <2>3, <2>4
  <2>5. CASE ~a.s.h.debug_mode /\ resumed
    <3>1. state.dcsr.step => a.s.h.single_step = "stepping"
      BY <1>3, <2>5 DEF HoldsStep
    <3>2. QED
      BY <2>3, <2>5, <3>1
  <2>6. CASE ~a.s.h.debug_mode /\ ~resumed
    <3>1. /\ ~state.debug_mode /\ a.s.h.single_step = begun
          /\ begun = "stepped" => o.trap = NoTrap
      BY <1>3, <2>6 DEF HoldsStep
    <3>2. old # 0
      <4>1. old = 0 => stepOver
        BY <1>5, <1>6, <2>2, <3>1 DEF stepOver, mustStop, slow_path
      <4>2. QED
        BY <1>5, <4>1
    <3>3. CASE old = 2
      BY <2>3, <2>6, <3>3
    <3>4. CASE old = 1
      <4>1. state.single_step \in {"stepping", "stepped"}
        BY <2>2, <3>1, <3>4
      <4>2. loop.slow
        BY <1>6, <4>1 DEF slow_path
      <4>3. a.s.h.single_step = "stepped" /\ o.trap = NoTrap
        BY <3>1, <4>1, <4>2 DEF begun
      <4>4. new = IF used THEN 0 ELSE 1
        BY <2>3, <2>6, <3>4
      <4>5. used => ~a.s.h.serialized
        <5>1. state.serialized => insn.op \in CsrOps
          BY <1>2, <2>1, AgainIsCsr DEF SerialInv, Serializing, state
        <5>2. QED
          BY <1>3, <2>1, <5>1 DEF HoldsSerial
      <4> HIDE DEF used
      <4>6. QED
        BY <4>3, <4>4, <4>5
    <3>5. QED
      BY <2>2, <3>2, <3>3, <3>4
  <2>7. QED
    BY <2>4, <2>5, <2>6
<1>9. Stepping(cur, hart'[cur], hist'[cur], loop', cur)
  BY <1>2, <1>7, <1>8 DEF Stepping, slow_path
<1>10. \A c \in Harts \ {cur} : Stepping(c, hart'[c], hist'[c], loop', cur)
  BY <1>2, ZenonT(40) DEF StepInv, Stepping, RemembersOther
<1>11. QED
  BY <1>2, <1>9, <1>10 DEF StepInv, Harts

(* The steps of a turn between instructions.                                *)
LEMMA QuietInv ==
    ASSUME Typed, ScInv, SerialInv, ExactInv, StepInv, NEW s, Quiet(s), loop'.at # "idle",
           s.h.serialized /\ ~hist'[cur].stale =>
               /\ loop'.at = "inner" /\ loop'.instret = 0 /\ loop'.again.op \in CsrOps,
           ~hist[cur].stale =>
               IF loop'.at = "inner" THEN hist[cur].count = (s.h.minstret + loop'.instret) % 2 ^ XLEN
               ELSE s.h.minstret = hist[cur].count,
           loop'.at = "inner" /\ slow_path(s.h) => loop'.slow
    PROVE  ScInv' /\ SerialInv' /\ ExactInv' /\ StepInv'
<1>1. /\ cur \in Harts /\ session' = session /\ cur' = cur /\ Harts' = Harts
      /\ hart'[cur] = s.h /\ mmu'[cur] = s.mm
      /\ \A c \in Harts \ {cur} : hart'[c] = hart[c] /\ mmu'[c] = mmu[c] /\ hist'[c] = hist[c]
      /\ Becomes(s) /\ Recalls(s, hist[cur], hist'[cur])
  BY DEF Typed, Quiet, Harts
<1> DEFINE old == hist[cur]
           new == hist'[cur]
<1>2. /\ new.count = old.count /\ new.read = old.read /\ new.due = old.due
      /\ new.lr = old.lr /\ new.stolen = old.stolen
      /\ new.left = old.left \/ (s.h.debug_mode /\ new.left = 2)
      /\ new.stale \in BOOLEAN /\ (old.stale => new.stale)
  BY <1>1 DEF Recalls
<1>3. /\ s.mm.load_reservation_address = mmu[cur].load_reservation_address
      /\ s.h.serialized = state.serialized
      /\ s.h.debug_mode \/ (s.h.single_step = state.single_step /\ ~state.debug_mode)
  BY <1>1 DEF Becomes, SamePort
<1>4. ScInv'
  <2>1. Reserving(cur, s.mm, new, loop', cur)
    BY <1>1, <1>2, <1>3 DEF ScInv, Reserving
  <2>2. \A c \in Harts \ {cur} : Reserving(c, mmu'[c], hist'[c], loop', cur)
    BY <1>1 DEF ScInv, Reserving
  <2>3. QED
    BY <1>1, <2>1, <2>2 DEF ScInv
<1>5. SerialInv'
  <2>1. Serializing(cur, s.h, new, loop', cur)
    BY DEF Serializing
  <2>2. \A c \in Harts \ {cur} : Serializing(c, hart'[c], hist'[c], loop', cur)
    BY <1>1 DEF SerialInv, Serializing
  <2>3. QED
    BY <1>1, <2>1, <2>2 DEF SerialInv
<1>6. ExactInv'
  <2>1. Counting(cur, s.h, new, loop', cur)
    BY <1>1, <1>2 DEF ExactInv, Counting
  <2>2. \A c \in Harts \ {cur} : Counting(c, hart'[c], hist'[c], loop', cur)
    BY <1>1 DEF ExactInv, Counting
  <2>3. QED
    BY <1>1, <2>1, <2>2 DEF ExactInv
<1>7. StepInv'
  <2>1. Stepping(cur, s.h, new, loop', cur)
    BY <1>1, <1>2, <1>3 DEF StepInv, Stepping, state
  <2>2. \A c \in Harts \ {cur} : Stepping(c, hart'[c], hist'[c], loop', cur)
    BY <1>1 DEF StepInv, Stepping
  <2>3. QED
    BY <1>1, <2>1, <2>2 DEF StepInv
<1>8. QED
  BY <1>4, <1>5, <1>6, <1>7

(* What the invariant says of the hart whose turn it is.                    *)
LEMMA InvHere ==
    ASSUME Typed, SerialInv, ExactInv, StepInv
    PROVE  /\ state.minstret \in Word
           /\ state.serialized /\ ~hist[cur].stale =>
                  /\ loop.at \in {"top", "inner"} /\ loop.again.op \in CsrOps
                  /\ loop.at = "inner" => loop.instret = 0
           /\ ~hist[cur].stale =>
                  /\ loop.at \in {"idle", "top", "end"} => state.minstret = hist[cur].count
                  /\ loop.at = "inner" => hist[cur].count = (state.minstret + loop.instret) % 2 ^ XLEN
           /\ loop.at = "inner" /\ slow_path(state) => loop.slow
<1>1. cur \in Harts /\ HartOK(state)
  BY DEF Typed, HartsOK, state
<1>2. state.minstret \in Word
  BY <1>1, HartFacts
<1>3. /\ Serializing(cur, state, hist[cur], loop, cur) /\ Counting(cur, state, hist[cur], loop, cur)
      /\ Stepping(cur, state, hist[cur], loop, cur)
  BY <1>1 DEF SerialInv, ExactInv, StepInv, state
<1>4. QED
  BY <1>2, <1>3 DEF Serializing, Counting, Stepping

(* A turn begins.                                                           *)
LEMMA BeginTurnInv ==
    ASSUME Typed, ScInv, SerialInv, ExactInv, StepInv, BeginTurn
    PROVE  ScInv' /\ SerialInv' /\ ExactInv' /\ StepInv'
<1>1. /\ loop.at = "idle" /\ loop'.at = "top"
  BY BeginTurnDoes
<1>2. PICK s : Quiet(s) /\ s.h.minstret = state.minstret /\ hist'[cur].stale = hist[cur].stale
  BY BeginTurnDoes
<1>3. s.h.serialized = state.serialized
  BY <1>2 DEF Quiet, Becomes
<1>4. ~(s.h.serialized /\ ~hist'[cur].stale)
  BY <1>1, <1>2, <1>3, InvHere
<1>5. ~hist[cur].stale => s.h.minstret = hist[cur].count
  BY <1>1, <1>2, InvHere
<1>6. QED
  BY <1>1, <1>2, <1>4, <1>5, QuietInv

(* Interrupts are looked for, and the inner loop is entered.                *)
LEMMA TopInv ==
    ASSUME Typed, ScInv, SerialInv, ExactInv, StepInv, Top
    PROVE  ScInv' /\ SerialInv' /\ ExactInv' /\ StepInv'
<1>1. loop.at = "top"
  BY TopDoes
<1>2. ASSUME loop'.at = "end", NEW s, Quiet(s), s.h.minstret = state.minstret,
             hist'[cur].stale = (hist[cur].stale \/ state.serialized)
      PROVE  ScInv' /\ SerialInv' /\ ExactInv' /\ StepInv'
  <2>1. s.h.serialized = state.serialized
    BY <1>2 DEF Quiet, Becomes
  <2>2. ~(s.h.serialized /\ ~hist'[cur].stale)
    BY <1>2, <2>1
  <2>3. ~hist[cur].stale => s.h.minstret = hist[cur].count
    BY <1>1, <1>2, InvHere
  <2>4. QED
    BY <1>2, <2>2, <2>3, QuietInv
<1>3. ASSUME loop' = [loop EXCEPT !.at = "inner", !.instret = 0, !.slow = slow_path(state)],
             Quiet(me), hist' = hist
      PROVE  ScInv' /\ SerialInv' /\ ExactInv' /\ StepInv'
  <2> DEFINE v == slow_path(state)
             l == loop'
  <2>1. loop = [f \in LoopFields |-> loop[f]] /\ l = [loop EXCEPT !.at = "inner", !.instret = 0, !.slow = v]
    BY <1>3 DEF Typed, LoopOK
  <2> HIDE DEF v, l
  <2>2. l.at = "inner" /\ l.instret = 0 /\ l.again = loop.again /\ l.slow = v
    BY <2>1 DEF LoopFields
  <2>3. me.h = state
    BY StaysItself
  <2>4. me.h.serialized /\ ~hist'[cur].stale => l.again.op \in CsrOps
    BY <1>3, <2>2, <2>3, InvHere
  <2>5. ~hist[cur].stale => hist[cur].count = (me.h.minstret + l.instret) % 2 ^ XLEN
    <3>1. state.minstret \in Word /\ (~hist[cur].stale => state.minstret = hist[cur].count)
      BY <1>1, InvHere
    <3>2. state.minstret + 0 = state.minstret
      BY <3>1 DEF Word
    <3>3. QED
      BY <2>2, <2>3, <3>1, <3>2, WordArithmetic
  <2>6. slow_path(me.h) => l.slow
    BY <2>2, <2>3 DEF v
  <2>7. QED
    BY <1>3, <2>2, <2>4, <2>5, <2>6, QuietInv DEF l
<1>4. QED
  BY <1>2, <1>3, TopDoes

(* A step is over.                                                          *)
LEMMA StepDoneInv ==
    ASSUME Typed, ScInv, SerialInv, ExactInv, StepInv, StepDone
    PROVE  ScInv' /\ SerialInv' /\ ExactInv' /\ StepInv'
<1>1. /\ loop.at = "inner" /\ loop.slow /\ ~state.serialized
      /\ hist'[cur].stale = hist[cur].stale
  BY StepDoneDoes
<1>2. PICK s : /\ Quiet(s) /\ s.h.debug_mode
               /\ \/ loop' = loop /\ s.h.minstret = state.minstret
                  \/ /\ loop'.at \in {"top", "end"}
                     /\ s.h.minstret = (state.minstret + loop.instret) % 2 ^ XLEN
  BY StepDoneDoes
<1>3. ~s.h.serialized
  BY <1>1, <1>2 DEF Quiet, Becomes
<1>4. ~hist[cur].stale =>
          IF loop'.at = "inner" THEN hist[cur].count = (s.h.minstret + loop'.instret) % 2 ^ XLEN
          ELSE s.h.minstret = hist[cur].count
  BY <1>1, <1>2, InvHere
<1>5. loop'.at # "idle" /\ (loop'.at = "inner" => loop'.slow)
  BY <1>1, <1>2
<1>6. QED
  BY <1>2, <1>3, <1>4, <1>5, QuietInv

(* The turn passes.                                                         *)
LEMMA EndTurnInv ==
    ASSUME Typed, ScInv, SerialInv, ExactInv, StepInv, EndTurn
    PROVE  ScInv' /\ SerialInv' /\ ExactInv' /\ StepInv'
<1>1. /\ loop.at = "end" /\ loop'.at = "idle" /\ session' = session /\ hart' = hart /\ hist' = hist
      /\ mmu'[cur].load_reservation_address = -1
      /\ \A c \in Harts \ {cur} : mmu'[c] = mmu[c]
  BY EndTurnDoes
<1>2. Harts' = Harts
  BY <1>1 DEF Harts
<1>3. \A c \in Harts : mmu'[c].load_reservation_address = -1
  BY <1>1 DEF ScInv, Reserving
<1>4. ScInv'
  BY <1>1, <1>2, <1>3 DEF ScInv, Reserving
<1>5. SerialInv'
  BY <1>1, <1>2 DEF SerialInv, Serializing
<1>6. ExactInv'
  BY <1>1, <1>2 DEF ExactInv, Counting
<1>7. StepInv'
  BY <1>1, <1>2 DEF StepInv, Stepping
<1>8. QED
  BY <1>4, <1>5, <1>6, <1>7

(* The debugger resets a hart.                                              *)
LEMMA ResetHartInv ==
    ASSUME Typed, ScInv, SerialInv, ExactInv, StepInv, NEW c \in Harts, ResetHart(c)
    PROVE  ScInv' /\ SerialInv' /\ ExactInv' /\ StepInv'
<1>1. /\ session' = session /\ loop.at = "idle" /\ loop' = loop /\ cur' = cur
      /\ Fresh(hart'[c]) /\ \A d \in Harts \ {c} : hart'[d] = hart[d]
      /\ SamePort(mmu[c], mmu'[c]) /\ \A d \in Harts \ {c} : mmu'[d] = mmu[d]
      /\ hist'[c].read = 0 /\ hist'[c].due = 0 /\ hist'[c].count = 0 /\ hist'[c].left = 2
      /\ hist'[c].lr = hist[c].lr /\ hist'[c].stolen = hist[c].stolen
      /\ \A d \in Harts \ {c} : hist'[d] = hist[d]
  BY ResetHartDoes
<1>2. Harts' = Harts
  BY <1>1 DEF Harts
<1>3. ScInv'
  <2>1. Reserving(c, mmu'[c], hist'[c], loop', cur')
    BY <1>1 DEF ScInv, Reserving, SamePort
  <2>2. \A d \in Harts \ {c} : Reserving(d, mmu'[d], hist'[d], loop', cur')
    BY <1>1 DEF ScInv
  <2>3. QED
    BY <1>2, <2>1, <2>2 DEF ScInv
<1>4. SerialInv'
  <2>1. Serializing(c, hart'[c], hist'[c], loop', cur')
    BY <1>1 DEF Serializing, Fresh
  <2>2. \A d \in Harts \ {c} : Serializing(d, hart'[d], hist'[d], loop', cur')
    BY <1>1 DEF SerialInv
  <2>3. QED
    BY <1>2, <2>1, <2>2 DEF SerialInv
<1>5. ExactInv'
  <2>1. Counting(c, hart'[c], hist'[c], loop', cur')
    BY <1>1 DEF Counting, Fresh
  <2>2. \A d \in Harts \ {c} : Counting(d, hart'[d], hist'[d], loop', cur')
    BY <1>1 DEF ExactInv
  <2>3. QED
    BY <1>2, <2>1, <2>2 DEF ExactInv
<1>6. StepInv'
  <2>1. Stepping(c, hart'[c], hist'[c], loop', cur')
    BY <1>1 DEF Stepping
  <2>2. \A d \in Harts \ {c} : Stepping(d, hart'[d], hist'[d], loop', cur')
    BY <1>1 DEF StepInv
  <2>3. QED
    BY <1>2, <2>1, <2>2 DEF StepInv
<1>7. QED
  BY <1>3, <1>4, <1>5, <1>6

(* Nothing that the invariant is about changes.                             *)
LEMMA SameInv ==
    ASSUME ScInv, SerialInv, ExactInv, StepInv, session' = session, hart' = hart, mmu' = mmu,
           loop' = loop, cur' = cur, hist' = hist
    PROVE  ScInv' /\ SerialInv' /\ ExactInv' /\ StepInv'
  BY DEF ScInv, SerialInv, ExactInv, StepInv, Harts

HartInv == Typed /\ ScInv /\ SerialInv /\ ExactInv /\ StepInv

(* The invariant is inductive.                                              *)
LEMMA HartInvInductive == HartInv /\ [Next]_vars => HartInv'
<1> SUFFICES ASSUME HartInv, [Next]_vars PROVE ScInv' /\ SerialInv' /\ ExactInv' /\ StepInv'
  BY NextTyped DEF HartInv
<1>1. Typed /\ ScInv /\ SerialInv /\ ExactInv /\ StepInv
  BY DEF HartInv
<1>2. CASE BeginTurn
  BY <1>1, <1>2, BeginTurnInv
<1>3. CASE Top
  BY <1>1, <1>3, TopInv
<1>4. CASE StepDone
  BY <1>1, <1>4, StepDoneInv
<1>5. CASE Execute
  BY <1>1, <1>5, ExecuteReserves, ExecuteSerializes, ExecuteCounts, ExecuteSteps
<1>6. CASE EndTurn
  BY <1>1, <1>6, EndTurnInv
<1>7. ASSUME NEW c \in Harts, HaltRequest(c) PROVE ScInv' /\ SerialInv' /\ ExactInv' /\ StepInv'
  BY <1>1, <1>7, HaltRequestDoes, SameInv
<1>8. ASSUME NEW c \in Harts, ResetHart(c) PROVE ScInv' /\ SerialInv' /\ ExactInv' /\ StepInv'
  BY <1>1, <1>8, ResetHartInv
<1>9. CASE UNCHANGED vars
  BY <1>1, <1>9, SameInv DEF vars
<1>10. QED
  BY <1>2, <1>3, <1>4, <1>5, <1>6, <1>7, <1>8, <1>9 DEF Next

(* It holds of every session.                                               *)
LEMMA HartInvAlways == Spec => []HartInv
<1>1. Init => HartInv
  BY InitTyped, InitInv DEF HartInv
<1>2. QED
  BY <1>1, HartInvInductive, PTL DEF Spec

(* A store-conditional succeeds only if no other hart has changed the word  *)
(* since the load-reserved, for any number of harts, any program and any    *)
(* length of a turn, since a reservation never outlives its hart's turn.    *)
THEOREM HartScAtomic == Spec => []ScAtomic
<1>1. HartInv => ScAtomic
  BY DEF HartInv, ScInv, Reserving, ScAtomic
<1>2. QED
  BY <1>1, HartInvAlways, PTL

(* minstret is the number of instructions retired whenever the inner loop   *)
(* of step is left, and a program that reads it reads that number, on a     *)
(* hart that no trap has overtaken at a serialized instruction.             *)
THEOREM HartInstretExact == Spec => []InstretExact
<1>1. HartInv => InstretExact
  BY DEF HartInv, ExactInv, Counting, InstretExact
<1>2. QED
  BY <1>1, HartInvAlways, PTL

(* A hart resumed with dcsr.step executes one instruction, or takes the     *)
(* exception of one, before it is back in debug mode, on such a hart.       *)
THEOREM HartStepOne == Spec => []StepOne
<1>1. HartInv => StepOne
  BY DEF HartInv, StepInv, Stepping, StepOne
<1>2. QED
  BY <1>1, HartInvAlways, PTL

=============================================================================
