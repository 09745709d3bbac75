----------------------------- MODULE DebugModule -----------------------------
(***************************************************************************)
(* The debug module of Spike (riscv/debug_module.cc): the registers a      *)
(* debugger reads and writes over the debug module interface, the abstract *)
(* commands it turns into a program for a halted hart, the flags and the   *)
(* mailboxes the debug ROM polls, and the system bus port.                 *)
(*                                                                         *)
(* The state is one record s; each operation of the class maps s to its    *)
(* next value.  A register number is the class of registers the code tells *)
(* apart, a word of data an element of Vals; one data word and one program *)
(* buffer word are kept.  An instruction of an abstract program is a move  *)
(* [to, from] between places of the hart.                                  *)
(***************************************************************************)
EXTENDS Integers, Sequences, FiniteSets

CONSTANTS nprocs,   \* harts
          Vals,     \* data words
          config    \* debug_module_config_t

ASSUME nprocsAssumption == nprocs \in Nat \ {0}

Procs == 0 .. nprocs - 1

\* 1->0, 2->1, 3->2, 4->2
field_width(n) == CHOOSE i \in 0 .. n : 2 ^ i >= n /\ \A j \in 0 .. i - 1 : 2 ^ j < n

\* hart_state has an entry for every hart number the debugger can select.
Slots == 0 .. 2 ^ field_width(nprocs) - 1

ASSUME SlotsAssumption == Procs \subseteq Slots

NONE == 0
BUSY == 1
NOTSUP == 2
EXCEPTION == 3
HALTRESUME == 4

\* a & ~b for three-bit words
andNot(a, b) ==
    LET bit(x, i) == (x \div 2 ^ i) % 2
        keep(i) == IF bit(a, i) = 1 /\ bit(b, i) = 0 THEN 2 ^ i ELSE 0
    IN  keep(0) + keep(1) + keep(2)

\* Harts per hart-array window (32).
WindowSize == 1

-----------------------------------------------------------------------------
(* Reset *)

resetControl == [haltreq |-> FALSE, resumereq |-> FALSE, hasel |-> FALSE, hartsel |-> 0,
                 hartreset |-> FALSE, ndmreset |-> FALSE, dmactive |-> FALSE]

resetSbcs == [readonaddr |-> FALSE, sbaccess |-> 0, autoincrement |-> FALSE,
              readondata |-> FALSE, error |-> 0]

\* What the flags of the harts, the masks and the buffers hold is kept.
reset(s, challenge) ==
    [s EXCEPT !.dmcontrol = resetControl, !.authenticated = ~config.require_authentication,
              !.busy = FALSE, !.cmderr = NONE, !.autoexecdata = FALSE,
              !.autoexecprogbuf = FALSE, !.sbcs = resetSbcs, !.challenge = challenge,
              !.halt_request = [p \in Procs |-> "none"]]

\* The constructor; command, completed, the window and the bus registers are
\* read before the code writes them, so they start anywhere.
New(command, completed, hawindowsel, data, challenge) ==
    LET hart == [halted |-> FALSE, resumeack |-> FALSE, havereset |-> FALSE, haltgroup |-> 0]
    IN  reset([dmcontrol |-> resetControl, authenticated |-> TRUE, challenge |-> challenge,
               busy |-> FALSE, cmderr |-> NONE, autoexecdata |-> FALSE,
               autoexecprogbuf |-> FALSE, command |-> command, completed |-> completed,
               rti_remaining |-> 0, hart_array_mask |-> {}, hawindowsel |-> hawindowsel,
               data |-> data, progbuf |-> "nop", abstract |-> <<>>, custom |-> data,
               hart_state |-> [i \in Slots |-> hart], flags |-> [i \in Slots |-> {}],
               halt_request |-> [p \in Procs |-> "none"],
               sbcs |-> resetSbcs, sbaddress |-> <<0, 0, 0, 0>>,
               sbdata |-> <<data, data>>, ended |-> FALSE], challenge)

\* A plausible slip: a reset hart stays halted.
procResetHalted(s, id) ==
    [s EXCEPT !.hart_state[id].havereset = TRUE, !.hart_state[id].haltgroup = 0]

\* A hart was reset.
proc_reset(s, id) ==
    [s EXCEPT !.hart_state[id].havereset = TRUE, !.hart_state[id].halted = FALSE,
              !.hart_state[id].haltgroup = 0]

hart_selected(s, i) ==
    \/ i = s.dmcontrol.hartsel
    \/ s.dmcontrol.hasel /\ i \in s.hart_array_mask

-----------------------------------------------------------------------------
(* The mailboxes: stores of a hart's debug ROM to the module *)

storeHalted(s, id) ==
    LET H == s.hart_state
        group == IF H[id].halted \/ H[id].haltgroup = 0 THEN {}
                 ELSE { i \in Procs : i # id /\ ~H[i].halted /\ H[i].haltgroup = H[id].haltgroup }
    IN  [s EXCEPT !.hart_state[id].halted = TRUE,
                  !.halt_request = [p \in Procs |-> IF p \in group THEN "group" ELSE @[p]],
                  !.completed = @ \/ (s.dmcontrol.hartsel = id /\ "go" \notin s.flags[id])]

storeGoing(s, id) == [s EXCEPT !.flags[id] = @ \ {"go"}]

storeResuming(s, id) ==
    [s EXCEPT !.hart_state[id].halted = FALSE, !.hart_state[id].resumeack = TRUE,
              !.flags[id] = @ \ {"resume"}]

storeException(s) == [s EXCEPT !.cmderr = IF @ = NONE THEN EXCEPTION ELSE @]

-----------------------------------------------------------------------------
(* Abstract commands *)

is_fpu_reg(regno) == regno \in {"fpr", "fcsr"}

CsrRegs == {"csr", "nocsr", "fcsr"}

Move(to, from) == [to |-> to, from |-> from]

\* s0 saved, mstatus saved, FS switched on; and back.
fpuPrologue == << Move("dscratch0", "s0"), Move("s0", "mstatus"), Move("dscratch1", "s0"),
                  Move("s0", "FS"), Move("mstatus", "s0") >>

fpuEpilogue == << Move("s0", "dscratch1"), Move("mstatus", "s0"), Move("s0", "dscratch0") >>

\* A plausible slip: s0 is left with what was transferred.
csrTransferClobbering(regno, write) ==
    LET move == IF write THEN << Move("s0", "data"), Move(regno, "s0") >>
                ELSE << Move("s0", regno), Move("data", "s0") >>
    IN  IF is_fpu_reg(regno) THEN move ELSE << Move("dscratch0", "s0") >> \o move

csrTransfer(regno, write) ==
    LET move == IF write THEN << Move("s0", "data"), Move(regno, "s0") >>
                ELSE << Move("s0", regno), Move("data", "s0") >>
    IN  IF is_fpu_reg(regno) THEN move
        ELSE << Move("dscratch0", "s0") >> \o move \o << Move("s0", "dscratch0") >>

regTransfer(regno, write) ==
    << IF write THEN Move(regno, "data") ELSE Move("data", regno) >>

transferProgram(c) ==
    LET body == IF c.regno \in CsrRegs THEN csrTransfer(c.regno, c.write)
                ELSE regTransfer(c.regno, c.write)
    IN  IF is_fpu_reg(c.regno) THEN fpuPrologue \o body \o fpuEpilogue ELSE body

\* The program for the hart: the transfer, then the program buffer or ebreak.
commandProgram(c) ==
    (IF c.transfer THEN transferProgram(c) ELSE <<>>)
        \o << Move("pc", IF c.postexec THEN "progbuf" ELSE "ebreak") >>

\* The code refuses with part of the program written; nothing runs that part,
\* and the next command overwrites it.
transferSupported(c) ==
    /\ \/ c.regno \in CsrRegs /\ config.support_abstract_csr_access
       \/ c.regno \in {"s0", "gpr", "fpr"}
    /\ c.size # "other"

\* Odd custom registers are answered by the module itself.
customAccess(s, c) ==
    IF c.write THEN [s EXCEPT !.custom = s.data] ELSE [s EXCEPT !.data = s.custom]

\* A plausible slip: the completion of the previous command is not forgotten.
performStale(s) ==
    LET c == s.command
        h == s.dmcontrol.hartsel
        err(e) == [s EXCEPT !.cmderr = e]
    IN  IF s.cmderr # NONE THEN s
        ELSE IF s.busy THEN err(BUSY)
        ELSE IF c.type # "register" THEN err(NOTSUP)
        ELSE IF ~s.hart_state[h].halted THEN err(HALTRESUME)
        ELSE IF c.transfer /\ c.regno = "custom" THEN customAccess(s, c)
        ELSE IF c.transfer /\ ~transferSupported(c) THEN err(NOTSUP)
        ELSE [s EXCEPT !.abstract = commandProgram(c), !.flags[h] = @ \cup {"go"},
                       !.rti_remaining = config.abstract_rti, !.busy = TRUE]

perform_abstract_command(s) ==
    LET c == s.command
        h == s.dmcontrol.hartsel
        err(e) == [s EXCEPT !.cmderr = e]
    IN  IF s.cmderr # NONE THEN s
        ELSE IF s.busy THEN err(BUSY)
        ELSE IF c.type # "register" THEN err(NOTSUP)
        ELSE IF ~s.hart_state[h].halted THEN err(HALTRESUME)
        ELSE IF c.transfer /\ c.regno = "custom" THEN customAccess(s, c)
        ELSE IF c.transfer /\ ~transferSupported(c) THEN err(NOTSUP)
        ELSE [s EXCEPT !.abstract = commandProgram(c), !.flags[h] = @ \cup {"go"},
                       !.rti_remaining = config.abstract_rti, !.completed = FALSE,
                       !.busy = TRUE]

\* One cycle of the TAP in Run-Test/Idle.
run_test_idle(s) ==
    LET left == IF s.rti_remaining > 0 THEN s.rti_remaining - 1 ELSE 0
    IN  [s EXCEPT !.rti_remaining = left, !.busy = @ /\ ~(left = 0 /\ s.completed)]

-----------------------------------------------------------------------------
(* The system bus port *)

\* sbaddress words are 32 bits wide; W is their scaled modulus.
W == 16

sbBytes(s) == 2 ^ s.sbcs.sbaccess

\* The widths the port has: access8 ... access64.
sbSupported(s) == 8 * sbBytes(s) <= config.max_bus_master_bits /\ s.sbcs.sbaccess <= 3

\* What the bus answers to an access: it refuses the address, or knows it, and
\* then walks for the page or finds it in its TLB.
BusAnswers == {"fault", "walk", "hit"}

misaligned(s) == s.sbaddress[1] % sbBytes(s) # 0

\* An exception that nobody catches ends the simulator.
uncaught(s) == [s EXCEPT !.ended = TRUE]

\* The sum is taken in 32 bits before it is widened: there is no carry.
sb_autoincrement(s) ==
    IF s.sbcs.autoincrement /\ config.max_bus_master_bits > 0 /\ ~s.ended
    THEN [s EXCEPT !.sbaddress[1] = (@ + sbBytes(s)) % W] ELSE s

\* v is what the address holds.  Only an access fault is caught, and alignment is
\* looked at after a walk alone.
sb_read(s, bus, v) ==
    IF ~sbSupported(s) THEN [s EXCEPT !.sbcs.error = 3]
    ELSE IF bus = "fault" THEN [s EXCEPT !.sbcs.error = 2]
    ELSE IF bus = "walk" /\ misaligned(s) THEN uncaught(s)
    ELSE [s EXCEPT !.sbdata = IF s.sbcs.sbaccess = 3 THEN <<v, v>> ELSE <<v, @[2]>>]

sb_write(s, bus) ==
    IF ~sbSupported(s) THEN [s EXCEPT !.sbcs.error = 3]
    ELSE IF bus = "fault" \/ misaligned(s) THEN uncaught(s) ELSE s

-----------------------------------------------------------------------------
(* The debug module interface *)

\* A failed access has ok = FALSE; val is what a read returns.
Done(s, val) == [ok |-> TRUE, s |-> s, val |-> val]

Refused(s) == [ok |-> FALSE, s |-> s, val |-> "zero"]

readData(s) ==
    LET t == IF s.busy /\ s.cmderr = NONE THEN [s EXCEPT !.cmderr = BUSY] ELSE s
    IN  Done(IF ~s.busy /\ s.autoexecdata THEN perform_abstract_command(t) ELSE t,
             IF s.busy THEN "ones" ELSE s.data)

readProgbuf(s) ==
    Done(IF ~s.busy /\ s.autoexecprogbuf THEN perform_abstract_command(s) ELSE s,
         IF s.busy THEN "ones" ELSE s.progbuf)

dmstatus(s) ==
    LET sel == { i \in Procs : hart_selected(s, i) }
        H == s.hart_state
    IN  [allhalted |-> \A i \in sel : H[i].halted, anyhalted |-> \E i \in sel : H[i].halted,
         allrunning |-> \A i \in sel : ~H[i].halted, anyrunning |-> \E i \in sel : ~H[i].halted,
         allresumeack |-> \A i \in sel : H[i].resumeack,
         anyresumeack |-> \E i \in sel : H[i].resumeack,
         allnonexistant |-> sel = {}, anynonexistant |-> s.dmcontrol.hartsel >= nprocs,
         havereset |-> H[s.dmcontrol.hartsel].havereset, authenticated |-> s.authenticated]

window(s) == { n \in Procs : n \div WindowSize = s.hawindowsel }

readSbdata0(s, bus, v) ==
    LET t == IF s.sbcs.readondata THEN sb_read(s, bus, v) ELSE s
    IN  Done(IF s.sbcs.error # 0 THEN s
             ELSE IF t.sbcs.error # 0 THEN t ELSE sb_autoincrement(t), s.sbdata[1])

\* Words of the bus port that no access uses.
UpperWords == {"sbaddress2", "sbaddress3", "sbdata2", "sbdata3"}

dmi_read(s, addr, bus, v) ==
    CASE addr = "data0"       -> readData(s)
      [] addr = "progbuf0"    -> readProgbuf(s)
      [] addr = "dmcontrol"   -> Done(s, s.dmcontrol)
      [] addr = "dmstatus"    -> Done(s, dmstatus(s))
      [] addr = "abstractcs"  -> Done(s, <<s.busy, s.cmderr>>)
      [] addr = "abstractauto" -> Done(s, <<s.autoexecdata, s.autoexecprogbuf>>)
      [] addr \in {"command", "hartinfo"} -> Done(s, "zero")
      [] addr = "hawindowsel" -> Done(s, s.hawindowsel)
      [] addr = "hawindow"    -> Done(s, s.hart_array_mask \cap window(s))
      [] addr = "sbcs"        -> Done(s, s.sbcs)
      [] addr = "sbaddress0"  -> Done(s, s.sbaddress[1])
      [] addr = "sbaddress1"  -> Done(s, s.sbaddress[2])
      [] addr = "sbdata1"     -> Done(s, s.sbdata[2])
      [] addr \in UpperWords  -> Done(s, "zero")
      [] addr = "sbdata0"     -> readSbdata0(s, bus, v)
      [] addr = "authdata"    -> Done(s, s.challenge)
      [] addr = "dmcs2"       -> Done(s, s.hart_state[s.dmcontrol.hartsel].haltgroup)
      [] OTHER                -> Refused(s)

writeData(s, val) ==
    LET t == [s EXCEPT !.data = IF s.busy THEN @ ELSE val,
                       !.cmderr = IF s.busy /\ @ = NONE THEN BUSY ELSE @]
    IN  IF ~s.busy /\ s.autoexecdata THEN perform_abstract_command(t) ELSE t

writeProgbuf(s, val) ==
    LET t == [s EXCEPT !.progbuf = IF s.busy THEN @ ELSE val]
    IN  IF ~s.busy /\ s.autoexecprogbuf THEN perform_abstract_command(t) ELSE t

\* hartreset and ndmreset reset processors; each reports back to proc_reset.
resetHarts(s, R) ==
    [s EXCEPT !.hart_state = [i \in Slots |-> IF i \in R THEN proc_reset(s, i).hart_state[i]
                                              ELSE @[i]]]

writeDmcontrol(s, v, challenge) ==
    LET woken == IF ~s.dmcontrol.dmactive /\ v.dmactive THEN reset(s, challenge) ELSE s
        set == [woken EXCEPT !.dmcontrol =
                    [haltreq |-> v.haltreq, resumereq |-> v.resumereq,
                     hasel |-> config.support_hasel /\ v.hasel, hartsel |-> v.hartsel,
                     hartreset |-> v.hartreset, ndmreset |-> v.ndmreset,
                     dmactive |-> v.dmactive]]
        sel == { i \in Procs : hart_selected(set, i) }
        asked == [set EXCEPT
            !.halt_request = [p \in Procs |-> IF p \notin sel THEN @[p]
                                              ELSE IF v.haltreq THEN "regular" ELSE "none"],
            !.flags = [i \in Slots |-> IF i \in sel /\ v.resumereq THEN @[i] \cup {"resume"}
                                       ELSE @[i]],
            !.hart_state = [i \in Slots |->
                IF i \notin sel THEN @[i]
                ELSE [@[i] EXCEPT !.resumeack = @ /\ ~v.resumereq,
                                  !.havereset = @ /\ ~v.ackhavereset]]]
    IN  IF ~woken.authenticated \/ ~v.dmactive
        THEN [woken EXCEPT !.dmcontrol.dmactive = v.dmactive]
        ELSE resetHarts(asked, IF v.ndmreset THEN Procs ELSE IF v.hartreset THEN sel ELSE {})

\* The harts such a write resets.
hartsReset(s, v) ==
    IF ~v.dmactive \/ (IF s.dmcontrol.dmactive THEN ~s.authenticated
                       ELSE config.require_authentication) THEN {}
    ELSE IF v.ndmreset THEN Procs
    ELSE IF v.hartreset
    THEN { i \in Procs : i = v.hartsel
                         \/ (config.support_hasel /\ v.hasel /\ i \in s.hart_array_mask) }
    ELSE {}

writeSbaddress0(s, val, bus, v) ==
    LET t == [s EXCEPT !.sbaddress[1] = val]
    IN  IF s.sbcs.error = 0 /\ s.sbcs.readonaddr THEN sb_autoincrement(sb_read(t, bus, v)) ELSE t

writeSbdata0(s, val, bus) ==
    LET t == [s EXCEPT !.sbdata[1] = val]
        u == sb_write(t, bus)
    IN  IF s.sbcs.error # 0 THEN t ELSE IF u.sbcs.error # 0 THEN u ELSE sb_autoincrement(u)

writeAuthdata(s, val, challenge) ==
    IF ~config.require_authentication THEN s
    ELSE IF val = s.challenge + 1 THEN [s EXCEPT !.authenticated = TRUE]
    ELSE [s EXCEPT !.authenticated = FALSE, !.challenge = challenge]

\* fresh: the next challenge; bus and v: what the bus answers.
dmi_write(s, addr, val, fresh, bus, v) ==
    IF ~s.authenticated /\ addr \notin {"authdata", "dmcontrol"} THEN Refused(s)
    ELSE CASE addr = "data0"        -> Done(writeData(s, val), "zero")
           [] addr = "progbuf0"     -> Done(writeProgbuf(s, val), "zero")
           [] addr = "dmcontrol"    -> Done(writeDmcontrol(s, val, fresh), "zero")
           [] addr = "command"      -> Done(perform_abstract_command([s EXCEPT !.command = val]),
                                            "zero")
           [] addr = "hawindowsel"  -> Done([s EXCEPT !.hawindowsel = val], "zero")
           [] addr = "hawindow"     -> Done([s EXCEPT !.hart_array_mask =
                                                (@ \ window(s)) \cup (val \cap window(s))], "zero")
           [] addr = "abstractcs"   -> Done([s EXCEPT !.cmderr = andNot(@, val)], "zero")
           [] addr = "abstractauto" -> Done([s EXCEPT !.autoexecdata = val.data,
                                                      !.autoexecprogbuf = val.progbuf], "zero")
           [] addr = "sbcs"         -> Done([s EXCEPT !.sbcs = [val EXCEPT !.error =
                                                andNot(s.sbcs.error, val.error)]], "zero")
           [] addr = "sbaddress0"   -> Done(writeSbaddress0(s, val, bus, v), "zero")
           [] addr = "sbaddress1"   -> Done([s EXCEPT !.sbaddress[2] = val], "zero")
           [] addr = "sbdata0"      -> Done(writeSbdata0(s, val, bus), "zero")
           [] addr = "sbdata1"      -> Done([s EXCEPT !.sbdata[2] = val], "zero")
           [] addr \in UpperWords   -> Done(s, "zero")
           [] addr = "authdata"     -> Done(writeAuthdata(s, val, fresh), "zero")
           [] addr = "dmcs2"        -> Done(IF config.support_haltgroups
                                            THEN [s EXCEPT !.hart_state[s.dmcontrol.hartsel]
                                                             .haltgroup = val]
                                            ELSE s, "zero")
           [] OTHER                 -> Refused(s)
=============================================================================
