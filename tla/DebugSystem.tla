----------------------------- MODULE DebugSystem -----------------------------
(***************************************************************************)
(* A debugger on the bit-bang socket, the JTAG transport, the debug module *)
(* and the harts that execute its debug ROM.                               *)
(*                                                                         *)
(* sim_t::main runs the harts and the socket in turn; a tick of the socket *)
(* may stop after any command, so the clocks of the TAP and the steps of   *)
(* the harts interleave freely.  The harts touch nothing of the TAP, so a  *)
(* scan (select, capture, shift, update) is one step, as is a clock spent  *)
(* in Run-Test/Idle.  A session says which accesses a debugger makes and   *)
(* whether it waits: a patient one idles between its scans until the       *)
(* transport and the module have counted down, an impatient one does not.  *)
(***************************************************************************)
EXTENDS DebugModule

CONSTANTS Sessions,             \* [requests: a set of [op, addr, val], patient]
          required_rti_cycles,
          MaxResets             \* bound on hart resets

\* What is written to command and to dmcontrol.
CommandWord == [type : STRING, regno : STRING, write : BOOLEAN, transfer : BOOLEAN,
                postexec : BOOLEAN, size : STRING]

ControlWord == [haltreq : BOOLEAN, resumereq : BOOLEAN, hasel : BOOLEAN, hartsel : Slots,
                hartreset : BOOLEAN, ndmreset : BOOLEAN, dmactive : BOOLEAN,
                ackhavereset : BOOLEAN]

ASSUME SessionsAssumption ==
    \A x \in Sessions :
        /\ x.patient \in BOOLEAN
        /\ \A q \in x.requests :
               /\ q = [op |-> q.op, addr |-> q.addr, val |-> q.val]
               /\ q.op = "write" /\ q.addr = "command" => q.val \in CommandWord
               /\ q.op = "write" /\ q.addr = "dmcontrol" => q.val \in ControlWord

ASSUME ClocksAssumption == required_rti_cycles \in Nat /\ config.abstract_rti \in Nat

VARIABLES dm,     \* debug_module_t
          cpu,    \* the harts: where they are in the ROM, and their registers
          tap,    \* jtag_dtm_t
          client, \* remote_bitbang_t: a debugger is connected
          session,\* what the debugger does
          want,   \* history: what the registers of each hart must hold
          resets  \* history: hart resets so far

vars == <<dm, cpu, tap, client, session, want, resets>>

-----------------------------------------------------------------------------
(* The harts *)

ArchRegs == {"s0", "gpr", "fpr", "csr", "fcsr", "mstatus"}

Places == ArchRegs \cup {"dscratch0", "dscratch1"}

\* state_t::reset; FS is off.
someVal == CHOOSE v \in Vals : TRUE

ResetRegs == [p \in Places |-> IF p = "mstatus" THEN "off" ELSE someVal]

archOf(r) == [p \in ArchRegs |-> r[p]]

goTo(h, pc) == cpu' = [cpu EXCEPT ![h].pc = pc]

\* Halt requests are looked at when a hart starts its turn.
enter_debug_mode(h) ==
    /\ cpu[h].pc = "run"
    /\ dm.halt_request[h] # "none"
    /\ goTo(h, "entry")
    /\ UNCHANGED <<dm, tap, client, session, want, resets>>

saveS0(h) ==
    /\ cpu[h].pc = "entry"
    /\ cpu' = [cpu EXCEPT ![h].pc = "halted", ![h].r["dscratch0"] = cpu[h].r["s0"]]
    /\ UNCHANGED <<dm, tap, client, session, want, resets>>

\* s0 holds the hart id from here on.
signalHalted(h) ==
    /\ cpu[h].pc = "halted"
    /\ dm' = storeHalted(dm, h)
    /\ cpu' = [cpu EXCEPT ![h].pc = "pollGo", ![h].r["s0"] = "hartid"]
    /\ UNCHANGED <<tap, client, session, want, resets>>

pollGo(h) ==
    /\ cpu[h].pc = "pollGo"
    /\ goTo(h, IF "go" \in dm.flags[h] THEN "going" ELSE "pollResume")
    /\ UNCHANGED <<dm, tap, client, session, want, resets>>

pollResume(h) ==
    /\ cpu[h].pc = "pollResume"
    /\ goTo(h, IF "resume" \in dm.flags[h] THEN "resume" ELSE "halted")
    /\ UNCHANGED <<dm, tap, client, session, want, resets>>

\* GO is cleared, s0 restored, and the hart jumps to the abstract program.
going(h) ==
    /\ cpu[h].pc = "going"
    /\ dm' = storeGoing(dm, h)
    /\ cpu' = [cpu EXCEPT ![h].pc = "program", ![h].at = 1,
                          ![h].r["s0"] = cpu[h].r["dscratch0"]]
    /\ UNCHANGED <<tap, client, session, want, resets>>

valueAt(h, place) == IF place = "data" THEN dm.data ELSE IF place = "FS" THEN "on"
                     ELSE cpu[h].r[place]

\* A CSR that does not exist, or a floating-point register with FS off.
traps(h, m) ==
    \/ "nocsr" \in {m.to, m.from}
    \/ cpu[h].r["mstatus"] = "off" /\ {m.to, m.from} \cap {"fpr", "fcsr"} # {}

\* take_trap in debug mode: ebreak leads to the ROM's entry, anything else to
\* its exception handler.
executeAbstract(h) ==
    LET m == dm.abstract[cpu[h].at]
    IN  /\ cpu[h].pc = "program"
        /\ m.to # "pc"
        /\ IF traps(h, m) THEN goTo(h, "exception") /\ UNCHANGED dm
           ELSE IF m.to = "data"
           THEN /\ dm' = [dm EXCEPT !.data = valueAt(h, m.from)]
                /\ cpu' = [cpu EXCEPT ![h].at = @ + 1]
           ELSE /\ cpu' = [cpu EXCEPT ![h].at = @ + 1, ![h].r[m.to] = valueAt(h, m.from)]
                /\ UNCHANGED dm
        /\ UNCHANGED <<tap, client, session, want, resets>>

\* The program buffer faults or runs into its ebreak.
endAbstract(h) ==
    LET m == dm.abstract[cpu[h].at]
    IN  /\ cpu[h].pc = "program"
        /\ m.to = "pc"
        /\ goTo(h, IF m.from = "progbuf" /\ dm.progbuf = "fault" THEN "exception" ELSE "entry")
        /\ UNCHANGED <<dm, tap, client, session, want, resets>>

exception(h) ==
    /\ cpu[h].pc = "exception"
    /\ dm' = storeException(dm)
    /\ cpu' = [cpu EXCEPT ![h].pc = "entry", ![h].r["s0"] = cpu[h].r["dscratch0"]]
    /\ UNCHANGED <<tap, client, session, want, resets>>

resume(h) ==
    /\ cpu[h].pc = "resume"
    /\ dm' = storeResuming(dm, h)
    /\ goTo(h, "dret")
    /\ UNCHANGED <<tap, client, session, want, resets>>

dret(h) ==
    /\ cpu[h].pc = "dret"
    /\ cpu' = [cpu EXCEPT ![h].pc = "run", ![h].r["s0"] = cpu[h].r["dscratch0"]]
    /\ UNCHANGED <<dm, tap, client, session, want, resets>>

hartStep(h) ==
    \/ enter_debug_mode(h)
    \/ saveS0(h) \/ signalHalted(h) \/ pollGo(h) \/ pollResume(h) \/ going(h)
    \/ executeAbstract(h) \/ endAbstract(h) \/ exception(h) \/ resume(h) \/ dret(h)

-----------------------------------------------------------------------------
(* The TAP *)

\* The state after a clock with TMS low and with TMS high.
next ==
    [TEST_LOGIC_RESET |-> <<"RUN_TEST_IDLE", "TEST_LOGIC_RESET">>,
     RUN_TEST_IDLE  |-> <<"RUN_TEST_IDLE", "SELECT_DR_SCAN">>,
     SELECT_DR_SCAN |-> <<"CAPTURE_DR", "SELECT_IR_SCAN">>,
     CAPTURE_DR     |-> <<"SHIFT_DR", "EXIT1_DR">>,
     SHIFT_DR       |-> <<"SHIFT_DR", "EXIT1_DR">>,
     EXIT1_DR       |-> <<"PAUSE_DR", "UPDATE_DR">>,
     PAUSE_DR       |-> <<"PAUSE_DR", "EXIT2_DR">>,
     EXIT2_DR       |-> <<"SHIFT_DR", "UPDATE_DR">>,
     UPDATE_DR      |-> <<"RUN_TEST_IDLE", "SELECT_DR_SCAN">>,
     SELECT_IR_SCAN |-> <<"CAPTURE_IR", "TEST_LOGIC_RESET">>,
     CAPTURE_IR     |-> <<"SHIFT_IR", "EXIT1_IR">>,
     SHIFT_IR       |-> <<"SHIFT_IR", "EXIT1_IR">>,
     EXIT1_IR       |-> <<"PAUSE_IR", "UPDATE_IR">>,
     PAUSE_IR       |-> <<"PAUSE_IR", "EXIT2_IR">>,
     EXIT2_IR       |-> <<"SHIFT_IR", "UPDATE_IR">>,
     UPDATE_IR      |-> <<"RUN_TEST_IDLE", "SELECT_DR_SCAN">>]

clocked(state, tms) ==
    LET at[i \in 0 .. Len(tms)] == IF i = 0 THEN state ELSE next[at[i - 1]][tms[i] + 1]
    IN  at[Len(tms)]

Nop == [op |-> "nop", addr |-> "none", val |-> "zero"]

\* jtag_dtm_t::reset; the instruction register keeps its value.
tapReset(t) == [t EXCEPT !.state = "TEST_LOGIC_RESET", !.busy_stuck = FALSE,
                         !.rti_remaining = 0, !.dmi = Nop]

captureBusy(t) == t.ir = "DBUS" /\ (t.rti_remaining > 0 \/ t.busy_stuck)

\* A failed access leaves its request with status 2 in the register; status 2
\* read back as an operation is a write.
resultOf(req, ok) == IF ok THEN Nop ELSE [req EXCEPT !.op = "write"]

\* What the debugger is known not to do: change the selection or leave while a
\* command runs, resume a hart that is not halted.
polite(req) ==
    req.op = "write" /\ req.addr = "dmcontrol" =>
        /\ ~dm.busy
        /\ req.val.resumereq =>
               ~req.val.haltreq /\ dm.hart_state[req.val.hartsel].halted

\* The command that an access starts is what the hart's register must become.
noteCommand(s) ==
    LET c == s.command
        h == s.dmcontrol.hartsel
    IN  IF ~dm.busy /\ s.busy /\ c.transfer /\ c.write /\ c.regno \in ArchRegs
        THEN [want EXCEPT ![h][c.regno] = s.data] ELSE want

\* n clocks in Run-Test/Idle seen by the module.
idled(s, n) == LET after[i \in 0 .. n] == IF i = 0 THEN s ELSE run_test_idle(after[i - 1])
               IN  after[n]

waitingClocks == IF session.patient THEN required_rti_cycles + config.abstract_rti ELSE 0

\* update_dr for the debug bus: the access is performed; a patient debugger
\* then idles.
access(req) ==
    \E fresh \in {0, 1}, bus \in BusAnswers, v \in Vals :
        LET res == IF req.op = "read" THEN dmi_read(dm, req.addr, bus, v)
                   ELSE IF req.op = "write" THEN dmi_write(dm, req.addr, req.val, fresh, bus, v)
                   ELSE Done(dm, "zero")
            R == IF req.op = "write" /\ req.addr = "dmcontrol" THEN hartsReset(dm, req.val) ELSE {}
        IN  /\ req.addr \notin {"dmcontrol", "authdata"} => fresh = 0
            /\ req.addr \notin {"sbaddress0", "sbdata0"} => bus = "hit" /\ v = someVal
            /\ R # {} => resets < MaxResets
            /\ dm' = idled(res.s, waitingClocks)
            /\ cpu' = [h \in Procs |-> IF h \in R THEN [pc |-> "run", at |-> 1, r |-> ResetRegs]
                                       ELSE cpu[h]]
            /\ want' = [h \in Procs |-> IF h \in R THEN archOf(ResetRegs) ELSE noteCommand(res.s)[h]]
            /\ resets' = IF R = {} THEN resets ELSE resets + 1
            /\ tap' = [tap EXCEPT
                   !.state = IF waitingClocks = 0 THEN "UPDATE_DR" ELSE "RUN_TEST_IDLE",
                   !.rti_remaining = IF session.patient THEN 0 ELSE required_rti_cycles,
                   !.dmi = resultOf(req, res.ok)]

toCapture == clocked(tap.state, <<1, 0>>) = "CAPTURE_DR"

\* A scan of the debug bus register: through Shift-DR, or straight to Update-DR
\* with what was captured.
scanBus(req) ==
    /\ client
    /\ tap.ir = "DBUS"
    /\ toCapture
    /\ req \in session.requests \cup {tap.dmi}
    /\ polite(req)
    /\ ~captureBusy(tap)
    /\ access(req)
    /\ UNCHANGED <<client, session>>

\* A scan that finds the bus busy: the access is dropped, now and until dmireset.
scanBusy ==
    /\ client
    /\ toCapture
    /\ captureBusy(tap)
    /\ tap' = [tap EXCEPT !.state = "UPDATE_DR", !.busy_stuck = TRUE]
    /\ UNCHANGED <<dm, cpu, client, session, want, resets>>

scanDtmcontrol(hard) ==
    /\ client
    /\ tap.ir = "DTMCONTROL"
    /\ toCapture
    /\ tap' = IF hard THEN tapReset(tap)
              ELSE [tap EXCEPT !.state = "UPDATE_DR", !.busy_stuck = FALSE]
    /\ UNCHANGED <<dm, cpu, client, session, want, resets>>

scanIr(ir) ==
    /\ client
    /\ clocked(tap.state, <<1, 1, 0, 0, 1, 1>>) = "UPDATE_IR"
    /\ tap.ir # ir
    /\ tap' = [tap EXCEPT !.state = "UPDATE_IR", !.ir = ir]
    /\ UNCHANGED <<dm, cpu, client, session, want, resets>>

\* A clock in Run-Test/Idle.
idle ==
    /\ client
    /\ clocked(tap.state, <<0>>) = "RUN_TEST_IDLE"
    /\ tap' = [tap EXCEPT !.state = "RUN_TEST_IDLE",
                          !.rti_remaining = IF @ > 0 THEN @ - 1 ELSE 0]
    /\ dm' = run_test_idle(dm)
    /\ UNCHANGED <<cpu, client, session, want, resets>>

\* Five clocks with TMS high.
testLogicReset ==
    /\ client
    /\ clocked(tap.state, <<1, 1, 1, 1, 1>>) = "TEST_LOGIC_RESET"
    /\ tap' = [tap EXCEPT !.state = "TEST_LOGIC_RESET", !.ir = "IDCODE"]
    /\ UNCHANGED <<dm, cpu, client, session, want, resets>>

\* The reset command of the socket.
bitbangReset ==
    /\ client
    /\ tap' = tapReset(tap)
    /\ UNCHANGED <<dm, cpu, client, session, want, resets>>

-----------------------------------------------------------------------------
(* The socket *)

accept == ~client /\ client' = TRUE /\ UNCHANGED <<dm, cpu, tap, session, want, resets>>

\* The remote disconnected; the TAP and the module stay as they are.
disconnect == client /\ client' = FALSE /\ UNCHANGED <<dm, cpu, tap, session, want, resets>>

Debugger ==
    \/ \E req \in session.requests \cup {tap.dmi} : scanBus(req)
    \/ idle
    \/ ~session.patient /\ \/ scanBusy
                           \/ \E hard \in BOOLEAN : scanDtmcontrol(hard)
                           \/ \E ir \in {"DBUS", "DTMCONTROL"} : scanIr(ir)
                           \/ testLogicReset \/ bitbangReset
                           \/ accept \/ disconnect

\* rti_remaining, busy_stuck and ir of the transport have no initial value; a
\* patient debugger has reset them.
Init ==
    /\ session \in Sessions
    /\ \E c \in BOOLEAN : dm = New([type |-> "quick", regno |-> "gpr", write |-> FALSE,
                                    transfer |-> FALSE, postexec |-> FALSE, size |-> "word"],
                                   c, 0, someVal, 0)
    /\ cpu = [h \in Procs |-> [pc |-> "run", at |-> 1, r |-> ResetRegs]]
    /\ \E ir \in {"IDCODE", "DBUS"}, stuck \in BOOLEAN, left \in {0, 1} :
           /\ session.patient => ir = "DBUS" /\ ~stuck /\ left = 0
           /\ tap = [state |-> IF session.patient THEN "RUN_TEST_IDLE" ELSE "TEST_LOGIC_RESET",
                     ir |-> ir, dmi |-> Nop, rti_remaining |-> left, busy_stuck |-> stuck]
    /\ client = session.patient
    /\ want = [h \in Procs |-> archOf(ResetRegs)]
    /\ resets = 0

\* The simulator has ended; what the state says of its last access is moot.
stopped == dm.ended /\ UNCHANGED vars

Next ==
    \/ ~dm.ended /\ (Debugger \/ \E h \in Procs : hartStep(h))
    \/ stopped

Spec == Init /\ [][Next]_vars

-----------------------------------------------------------------------------
(* Properties *)

\* Where the debug ROM waits for the debugger: s0 is in dscratch0.
InLoop(h) == cpu[h].pc \in {"halted", "pollGo", "pollResume"}

archRegs(h) ==
    [p \in ArchRegs |-> IF p = "s0" /\ cpu[h].pc \in {"halted", "pollGo", "pollResume", "going",
                                                      "resume", "dret"}
                        THEN cpu[h].r["dscratch0"] ELSE cpu[h].r[p]]

commandPending(h) == dm.busy /\ dm.dmcontrol.hartsel = h

\* Between commands every register of a hart, s0 and mstatus included, holds
\* what its program or the debugger's last write left there, although the ROM
\* and the abstract programs use s0, both scratch registers and FS.
RegistersIntact ==
    \A h \in Procs : ~commandPending(h) /\ cpu[h].pc # "exception" => archRegs(h) = want[h]

\* A hart reported as halted is executing the debug ROM.
HaltedTruth ==
    \A h \in Procs : dm.hart_state[h].halted => cpu[h].pc \notin {"run", "dret"}

\* busy is not cleared before the hart is back in the ROM with the program
\* done, and a read of a register that exists has delivered it by then (unless
\* another command, refused meanwhile, took its place in the register).
CommandSettles ==
    [][dm.busy /\ ~dm'.busy =>
           LET h == dm.dmcontrol.hartsel
               c == dm.command
           IN  /\ cpu[h].pc \notin {"going", "program", "exception"}
               /\ "go" \notin dm.flags[h]
               /\ (/\ c.transfer /\ ~c.write /\ c.regno \in ArchRegs
                   /\ dm.abstract = commandProgram(c)) => dm.data = want[h][c.regno]]_vars
=============================================================================
