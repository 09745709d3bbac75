----------------------------- MODULE DebugProofs -----------------------------
(***************************************************************************)
(* Theorems about the debug module and the harts in its ROM: a hart that   *)
(* is reported halted is halted, no command loses a register, and a        *)
(* command that is no longer busy has been carried out.                    *)
(***************************************************************************)
EXTENDS DebugSystem, WellFoundedInduction, TLAPS

-----------------------------------------------------------------------------
(* Records are described by their fields: what most of them hold does not   *)
(* matter to the properties.                                                *)

DmFields == {"dmcontrol", "authenticated", "challenge", "busy", "cmderr", "autoexecdata",
             "autoexecprogbuf", "command", "completed", "rti_remaining", "hart_array_mask",
             "hawindowsel", "data", "progbuf", "abstract", "custom", "hart_state", "flags",
             "halt_request", "sbcs", "sbaddress", "sbdata", "ended"}

HartFields == {"halted", "resumeack", "havereset", "haltgroup"}

ControlFields == {"haltreq", "resumereq", "hasel", "hartsel", "hartreset", "ndmreset", "dmactive"}

TapFields == {"state", "ir", "dmi", "rti_remaining", "busy_stuck"}

HartStates(H) ==
    /\ H = [i \in Slots |-> H[i]]
    /\ \A i \in Slots : H[i] = [f \in HartFields |-> H[i][f]]

IsDm(s) ==
    /\ s = [f \in DmFields |-> s[f]]
    /\ s.busy \in BOOLEAN /\ s.completed \in BOOLEAN
    /\ s.dmcontrol = [f \in ControlFields |-> s.dmcontrol[f]]
    /\ s.dmcontrol.hartsel \in Slots
    /\ HartStates(s.hart_state)
    /\ s.flags = [i \in Slots |-> s.flags[i]]

IsCpu(c) ==
    /\ c = [f \in {"pc", "at", "r"} |-> c[f]]
    /\ c.r = [p \in Places |-> c.r[p]]

\* The commands and the program buffers a debugger has asked for.
quick == [type |-> "quick", regno |-> "gpr", write |-> FALSE, transfer |-> FALSE,
          postexec |-> FALSE, size |-> "word"]

asked(addr) == { q \in session.requests : q.op = "write" /\ q.addr = addr }

commandsOf == {quick} \cup { q.val : q \in asked("command") }

\* Requests the code refuses to write are kept by the transport, and so are
\* reads of registers that do not exist, which no write knows either.
WriteAddrs == {"data0", "progbuf0", "dmcontrol", "command", "hawindowsel", "hawindow",
               "abstractcs", "abstractauto", "sbcs", "sbaddress0", "sbaddress1", "sbdata0",
               "sbdata1", "authdata", "dmcs2"} \cup UpperWords

offered(q) ==
    /\ q = [op |-> q.op, addr |-> q.addr, val |-> q.val]
    /\ \/ q \in session.requests
       \/ q.op = "nop"
       \/ q.op = "write" /\ q.addr \notin WriteAddrs

TypeInv ==
    /\ IsDm(dm)
    /\ cpu = [h \in Procs |-> cpu[h]] /\ \A h \in Procs : IsCpu(cpu[h])
    /\ want = [h \in Procs |-> want[h]]
    /\ \A h \in Procs : want[h] = [p \in ArchRegs |-> want[h][p]]
    /\ tap = [f \in TapFields |-> tap[f]]
    /\ session \in Sessions
    /\ offered(tap.dmi)
    /\ dm.command \in commandsOf
    /\ dm.progbuf = "fault" => \E q \in asked("progbuf0") : q.val = "fault"

\* Only a hart that exists is ever reported halted.
HaltInv ==
    \A i \in Slots : dm.hart_state[i].halted =>
        i \in Procs /\ cpu[i].pc \notin {"run", "dret"}

pending(h) == dm.busy /\ dm.dmcontrol.hartsel = h

\* The flag, the place of the hart and the busy bit agree about who executes.
GoInv ==
    /\ dm.busy => dm.dmcontrol.hartsel \in Procs
    /\ \A i \in Slots : "go" \in dm.flags[i] => i \in Procs /\ pending(i) /\ ~dm.completed
    /\ \A h \in Procs :
           /\ cpu[h].pc = "going" => "go" \in dm.flags[h]
           /\ cpu[h].pc \in {"program", "exception"} =>
                  pending(h) /\ ~dm.completed /\ "go" \notin dm.flags[h]

-----------------------------------------------------------------------------
(* The registers during a command *)

supported(c) == c.transfer => transferSupported(c)

writes(c, p) == c.transfer /\ c.write /\ c.regno = p

current(c) == c \in commandsOf /\ supported(c) /\ dm.abstract = commandProgram(c)

\* The move that carries the value.
moveOf(c) == IF is_fpu_reg(c.regno) THEN IF c.regno = "fcsr" THEN 7 ELSE 6
             ELSE IF c.regno \in CsrRegs THEN 3 ELSE 1

lengthOf(c) == IF ~c.transfer THEN 1
               ELSE IF is_fpu_reg(c.regno) THEN IF c.regno = "fcsr" THEN 11 ELSE 10
               ELSE IF c.regno \in CsrRegs THEN 5 ELSE 2

Settled(h) == \A p \in ArchRegs : archRegs(h)[p] = want[h][p]

\* The command was accepted; the hart has not begun.
Waiting(h, c) ==
    \A p \in ArchRegs : IF writes(c, p) THEN dm.data = want[h][p]
                        ELSE archRegs(h)[p] = want[h][p]

\* Where each register is at every step of the program.
Executing(c, k, r, w, d) ==
    LET last == lengthOf(c)
        moved == c.transfer /\ k > moveOf(c)
        fpu == c.transfer /\ is_fpu_reg(c.regno)
    IN  /\ k \in 1 .. last
        /\ \A p \in ArchRegs \ {"s0", "mstatus"} :
               IF writes(c, p) /\ ~moved THEN d = w[p] ELSE r[p] = w[p]
        /\ ~writes(c, "s0") => r["dscratch0"] = w["s0"]
        /\ k = 1 \/ k = last => IF writes(c, "s0") /\ k = 1 THEN d = w["s0"] ELSE r["s0"] = w["s0"]
        /\ ~fpu \/ k <= 5 \/ k > last - 2 => r["mstatus"] = w["mstatus"]
        /\ fpu => /\ k > 5 /\ k <= last - 2 => r["mstatus"] = "on"
                  /\ k = 3 \/ k = last - 2 => r["s0"] = w["mstatus"]
                  /\ k >= 4 => r["dscratch1"] = w["mstatus"]
                  /\ k = 5 => r["s0"] = "on"
        /\ c.transfer /\ c.regno \in {"csr", "fcsr"} /\ k = moveOf(c) => r["s0"] = w[c.regno]
        /\ moved /\ ~c.write /\ c.regno \in ArchRegs => d = w[c.regno]

Delivered(h, c) ==
    c.transfer /\ ~c.write /\ c.regno \in ArchRegs => dm.data = want[h][c.regno]

\* The handler of the ROM still has to restore s0.
Excepted(h) ==
    /\ cpu[h].r["dscratch0"] = want[h]["s0"]
    /\ \A p \in ArchRegs \ {"s0"} : cpu[h].r[p] = want[h][p]

CommandState(h, c) ==
    CASE cpu[h].pc = "program"   -> Executing(c, cpu[h].at, cpu[h].r, want[h], dm.data)
      [] cpu[h].pc = "exception" -> Excepted(h) /\ Delivered(h, c)
      [] OTHER -> IF "go" \in dm.flags[h] THEN Waiting(h, c) ELSE Settled(h) /\ Delivered(h, c)

RegInv ==
    \A h \in Procs : IF pending(h) THEN \E c \in commandsOf : current(c) /\ CommandState(h, c)
                     ELSE Settled(h)

\* A debugger that does not write s0 in a command that also runs a program
\* buffer of which it makes one that faults: the ROM's exception handler would
\* put the old value back.
KeepsS0 ==
    \A x \in Sessions : \A q, p \in x.requests :
        ~ /\ q.op = "write" /\ q.addr = "command" /\ writes(q.val, "s0") /\ q.val.postexec
          /\ p.op = "write" /\ p.addr = "progbuf0" /\ p.val = "fault"

-----------------------------------------------------------------------------
(* Clocks in Run-Test/Idle *)

(* Induction over the natural numbers, the property being a set: the least  *)
(* number that is not in the set has no predecessor.                        *)
LEMMA SetInduction ==
    ASSUME NEW S, 0 \in S, \A n \in Nat : n \in S => n + 1 \in S
    PROVE  Nat \subseteq S
<1> DEFINE T == Nat \ S
           R == {ss \in Nat \X Nat : ss[1] < ss[2]}
<1>1. IsWellFoundedOn(R, Nat)
  BY NatLessThanWellFounded DEF OpToRel
<1>2. SUFFICES ASSUME T # {} PROVE FALSE
  OBVIOUS
<1>3. T \subseteq Nat
  OBVIOUS
<1> HIDE DEF R
<1>4. PICK x \in T : \A y \in T : ~ (<<y, x>> \in R)
  BY <1>1, <1>2, <1>3, WFMin
<1>5. x - 1 \in T
  BY <1>4
<1>6. <<x - 1, x>> \in R
  BY <1>5 DEF R
<1> QED BY <1>4, <1>5, <1>6

(* The recursive function that idled is defined by exists.                  *)
LEMMA IdledFunction ==
    ASSUME NEW s, NEW n \in Nat
    PROVE  \E g : /\ g = [i \in 0 .. n |-> IF i = 0 THEN s ELSE run_test_idle(g[i - 1])]
                  /\ idled(s, n) = g[n]
<1> DEFINE Solves(g, m) == g = [i \in 0 .. m |-> IF i = 0 THEN s ELSE run_test_idle(g[i - 1])]
           S == {m \in Nat : \E g : Solves(g, m)}
<1>1. 0 \in S
  <2> DEFINE g == [i \in 0 .. 0 |-> s]
  <2>1. Solves(g, 0)
    OBVIOUS
  <2> QED BY <2>1
<1>2. ASSUME NEW m \in Nat, m \in S PROVE m + 1 \in S
  <2>1. PICK g : Solves(g, m)
    BY <1>2
  <2> DEFINE k == [i \in 0 .. m + 1 |-> IF i <= m THEN g[i] ELSE run_test_idle(g[m])]
  <2>2. ASSUME NEW i \in 0 .. m + 1 PROVE k[i] = IF i = 0 THEN s ELSE run_test_idle(k[i - 1])
    <3>1. CASE i = 0
      BY <2>1, <3>1
    <3>2. CASE i \in 1 .. m
      BY <2>1, <3>2
    <3>3. CASE i = m + 1
      BY <2>1, <3>3
    <3> QED BY <3>1, <3>2, <3>3
  <2>3. Solves(k, m + 1)
    BY <2>2
  <2> HIDE DEF k
  <2>4. \E x : Solves(x, m + 1)
    BY <2>3
  <2> QED BY <2>4
<1>3. n \in S
  <2> HIDE DEF S
  <2> QED BY <1>1, <1>2, SetInduction
<1>4. \E g : Solves(g, n)
  BY <1>3
<1> DEFINE h == CHOOSE g : Solves(g, n)
<1>5. Solves(h, n)
  BY <1>4
<1>6. idled(s, n) = h[n]
  BY DEF idled
<1> QED BY <1>5, <1>6

\* All that clocks do to the module: count down, and end a completed command.
Idles(s, t) ==
    /\ t = [f \in DmFields |-> t[f]]
    /\ \A f \in DmFields \ {"busy", "rti_remaining"} : t[f] = s[f]
    /\ t.busy \in BOOLEAN
    /\ t.busy => s.busy
    /\ s.busy /\ ~t.busy => s.completed

(* One clock.                                                               *)
LEMMA IdleOnce ==
    ASSUME NEW s, NEW t, s = [f \in DmFields |-> s[f]], Idles(s, t), s.completed \in BOOLEAN
    PROVE  Idles(s, run_test_idle(t))
BY DEF Idles, run_test_idle, DmFields

(* Any number of clocks.                                                    *)
LEMMA IdleClocks ==
    ASSUME NEW s, IsDm(s), NEW n \in Nat
    PROVE  Idles(s, idled(s, n))
<1>1. PICK g : /\ g = [i \in 0 .. n |-> IF i = 0 THEN s ELSE run_test_idle(g[i - 1])]
               /\ idled(s, n) = g[n]
  BY IdledFunction
<1> DEFINE S == {i \in Nat : i <= n => Idles(s, g[i])}
<1>2. 0 \in S
  <2>1. g[0] = s
    BY <1>1
  <2>2. Idles(s, s)
    BY DEF Idles, IsDm, DmFields
  <2> QED BY <2>1, <2>2
<1>3. ASSUME NEW i \in Nat, i \in S PROVE i + 1 \in S
  <2>1. CASE i + 1 <= n
    <3>1. i + 1 \in 0 .. n /\ i + 1 - 1 = i /\ i <= n /\ i + 1 # 0
      BY <2>1
    <3>2. g[i + 1] = run_test_idle(g[i])
      BY <1>1, <3>1
    <3>3. Idles(s, g[i + 1])
      BY <1>3, <3>1, <3>2, IdleOnce DEF IsDm
    <3> QED BY <3>3
  <2> QED BY <2>1
<1>4. n \in S
  <2> HIDE DEF S
  <2> QED BY <1>2, <1>3, SetInduction
<1> QED BY <1>1, <1>4

(* A module that has been idle is still one.                                *)
LEMMA IdledDm ==
    ASSUME NEW s, IsDm(s), NEW t, Idles(s, t)
    PROVE  IsDm(t)
BY DEF Idles, IsDm, DmFields

-----------------------------------------------------------------------------
(* What accesses over the debug module interface do to the module *)

\* An access that neither starts a command nor controls harts.
Quiet(s, t) ==
    /\ IsDm(t)
    /\ t.busy = s.busy /\ t.completed = s.completed /\ t.abstract = s.abstract
    /\ t.flags = s.flags /\ t.dmcontrol = s.dmcontrol
    /\ \A i \in Slots : t.hart_state[i].halted = s.hart_state[i].halted
    /\ s.busy => t.data = s.data

\* An access that starts a command on the selected hart.
Starts(s, t) ==
    LET h == s.dmcontrol.hartsel
    IN  /\ IsDm(t)
        /\ ~s.busy /\ t.busy /\ ~t.completed
        /\ s.hart_state[h].halted
        /\ \A i \in Slots : t.hart_state[i].halted = s.hart_state[i].halted
        /\ t.dmcontrol = s.dmcontrol
        /\ t.flags = [s.flags EXCEPT ![h] = @ \cup {"go"}]
        /\ supported(t.command) /\ t.abstract = commandProgram(t.command)

Same(s, t) == t.command = s.command /\ t.progbuf = s.progbuf

(* A quiet change before another one, or before a start, adds nothing.      *)
LEMMA QuietThen ==
    ASSUME NEW s, NEW t, NEW u, IsDm(s), Quiet(s, t), Quiet(t, u) \/ Starts(t, u)
    PROVE  Quiet(s, u) \/ Starts(s, u)
BY DEF Quiet, Starts, IsDm

(* No change at all is a quiet one.                                         *)
LEMMA QuietSelf ==
    ASSUME NEW s, IsDm(s) PROVE Quiet(s, s) /\ Same(s, s)
BY DEF Quiet, Same

(* A change of fields that no property is about is quiet.                   *)
LEMMA QuietFields ==
    ASSUME NEW s, IsDm(s), NEW t, t = [f \in DmFields |-> t[f]],
           \A f \in {"dmcontrol", "busy", "command", "completed", "progbuf", "abstract",
                     "hart_state", "flags", "data"} : t[f] = s[f]
    PROVE  Quiet(s, t) /\ Same(s, t)
BY DEF Quiet, Same, IsDm

(* The command that is in the register starts, is refused or is answered.   *)
LEMMA PerformEffect ==
    ASSUME NEW s, IsDm(s), NEW t, t = perform_abstract_command(s)
    PROVE  (Quiet(s, t) \/ Starts(s, t)) /\ Same(s, t)
<1> DEFINE c == s.command
           h == s.dmcontrol.hartsel
           Begun == /\ t = [s EXCEPT !.abstract = commandProgram(c), !.flags[h] = @ \cup {"go"},
                                     !.rti_remaining = config.abstract_rti, !.completed = FALSE,
                                     !.busy = TRUE]
                    /\ ~s.busy /\ s.hart_state[h].halted /\ (c.transfer => transferSupported(c))
<1>1. ASSUME NEW e, t = [s EXCEPT !.cmderr = e] PROVE Quiet(s, t) /\ Same(s, t)
  BY <1>1, QuietFields DEF IsDm, DmFields
<1>2. CASE t = s
  BY <1>2, QuietSelf
<1>3. CASE t = customAccess(s, c) /\ ~s.busy
  <2>1. t = [f \in DmFields |-> t[f]] /\ \A f \in DmFields \ {"data", "custom"} : t[f] = s[f]
    BY <1>3 DEF customAccess, IsDm, DmFields
  <2>2. IsDm(t)
    BY <2>1 DEF IsDm, DmFields
  <2> QED BY <1>3, <2>1, <2>2 DEF Quiet, Same, DmFields
<1>4. CASE Begun
  <2>1. /\ t = [f \in DmFields |-> t[f]] /\ t.flags = [s.flags EXCEPT ![h] = @ \cup {"go"}]
        /\ t.busy = TRUE /\ t.completed = FALSE /\ t.abstract = commandProgram(c)
        /\ t.dmcontrol = s.dmcontrol /\ t.hart_state = s.hart_state
        /\ t.command = s.command /\ t.progbuf = s.progbuf
    BY <1>4, ZenonT(60) DEF IsDm, DmFields
  <2>2. IsDm(t)
    BY <2>1, ZenonT(60) DEF IsDm
  <2> QED BY <1>4, <2>1, <2>2 DEF Starts, Same, supported
<1>5. (\E e : t = [s EXCEPT !.cmderr = e]) \/ t = s \/ (t = customAccess(s, c) /\ ~s.busy) \/ Begun
  <2>1. CASE s.cmderr # NONE \/ s.busy \/ c.type # "register" \/ ~s.hart_state[h].halted
    BY <2>1 DEF perform_abstract_command
  <2>2. CASE /\ ~(s.cmderr # NONE \/ s.busy \/ c.type # "register" \/ ~s.hart_state[h].halted)
             /\ c.transfer /\ c.regno = "custom"
    BY <2>2 DEF perform_abstract_command
  <2>3. CASE /\ ~(s.cmderr # NONE \/ s.busy \/ c.type # "register" \/ ~s.hart_state[h].halted)
             /\ ~(c.transfer /\ c.regno = "custom")
    BY <2>3 DEF perform_abstract_command
  <2> QED BY <2>1, <2>2, <2>3
<1> QED BY <1>1, <1>2, <1>3, <1>4, <1>5

\* A step of the system bus port.
BusOnly(s, t) ==
    /\ t = [f \in DmFields |-> t[f]]
    /\ \A f \in DmFields \ {"sbcs", "sbaddress", "sbdata", "ended"} : t[f] = s[f]

(* The system bus port keeps to its own registers.                          *)
LEMMA BusSteps ==
    ASSUME NEW s, IsDm(s), NEW t, BusOnly(s, t), NEW bus, NEW v
    PROVE  /\ BusOnly(s, sb_read(t, bus, v)) /\ BusOnly(s, sb_write(t, bus))
           /\ BusOnly(s, sb_autoincrement(t))
           /\ Quiet(s, t) /\ Same(s, t)
<1>1. BusOnly(s, sb_read(t, bus, v))
  BY DEF BusOnly, sb_read, uncaught, DmFields
<1>2. BusOnly(s, sb_write(t, bus))
  BY DEF BusOnly, sb_write, uncaught, DmFields
<1>3. BusOnly(s, sb_autoincrement(t))
  BY DEF BusOnly, sb_autoincrement, DmFields
<1>4. Quiet(s, t) /\ Same(s, t)
  BY QuietFields DEF BusOnly, DmFields
<1> QED BY <1>1, <1>2, <1>3, <1>4

(* Reading never controls harts; it may start a command by itself.          *)
LEMMA ReadEffect ==
    ASSUME NEW s, IsDm(s), NEW addr, NEW bus, NEW v,
           NEW t, t = dmi_read(s, addr, bus, v).s
    PROVE  (Quiet(s, t) \/ Starts(s, t)) /\ Same(s, t)
<1>1. CASE addr = "data0"
  <2> DEFINE u == IF s.busy /\ s.cmderr = NONE THEN [s EXCEPT !.cmderr = BUSY] ELSE s
  <2>1. t = IF ~s.busy /\ s.autoexecdata THEN perform_abstract_command(u) ELSE u
    <3>1. t = readData(s).s
      BY <1>1 DEF dmi_read, UpperWords
    <3> QED BY <3>1 DEF readData, Done
  <2>2. /\ u = [f \in DmFields |-> u[f]]
        /\ \A f \in DmFields \ {"cmderr"} : u[f] = s[f]
    BY DEF IsDm, DmFields
  <2> HIDE DEF u
  <2>3. Quiet(s, u) /\ Same(s, u) /\ IsDm(u)
    BY <2>2, QuietFields DEF DmFields, Quiet
  <2>4. (Quiet(u, t) \/ Starts(u, t)) /\ Same(u, t)
    BY <2>1, <2>3, PerformEffect, QuietSelf
  <2> QED BY <2>3, <2>4, QuietThen DEF Same
<1>2. CASE addr = "progbuf0"
  <2>1. t = IF ~s.busy /\ s.autoexecprogbuf THEN perform_abstract_command(s) ELSE s
    <3>1. t = readProgbuf(s).s
      BY <1>2 DEF dmi_read, UpperWords
    <3> QED BY <3>1 DEF readProgbuf, Done
  <2> QED BY <2>1, PerformEffect, QuietSelf
<1>3. CASE addr = "sbdata0"
  <2>1. t = readSbdata0(s, bus, v).s
    BY <1>3 DEF dmi_read, UpperWords
  <2>2. BusOnly(s, s)
    BY DEF BusOnly, IsDm
  <2> DEFINE u == IF s.sbcs.readondata THEN sb_read(s, bus, v) ELSE s
  <2>3. BusOnly(s, u)
    BY <2>2, BusSteps
  <2>4. t = IF s.sbcs.error # 0 THEN s ELSE IF u.sbcs.error # 0 THEN u ELSE sb_autoincrement(u)
    BY <2>1 DEF readSbdata0, Done
  <2> HIDE DEF u
  <2>5. BusOnly(s, t)
    BY <2>2, <2>3, <2>4, BusSteps
  <2> QED BY <2>5, BusSteps
<1>4. CASE addr \notin {"data0", "progbuf0", "sbdata0"}
  <2>1. t = s
    BY <1>4 DEF dmi_read, Done, Refused
  <2> QED BY <2>1, QuietSelf
<1> QED BY <1>1, <1>2, <1>3, <1>4

(* So it is for writing, dmcontrol excepted; only the registers written to  *)
(* change the command and the program buffer.                               *)
LEMMA WriteEffect ==
    ASSUME NEW s, IsDm(s), NEW addr, addr # "dmcontrol", NEW val, NEW fresh, NEW bus, NEW v,
           NEW t, t = dmi_write(s, addr, val, fresh, bus, v).s
    PROVE  /\ Quiet(s, t) \/ Starts(s, t)
           /\ t.command = s.command \/ (addr = "command" /\ t.command = val)
           /\ t.progbuf = s.progbuf \/ (addr = "progbuf0" /\ t.progbuf = val)
<1>1. CASE ~s.authenticated /\ addr # "authdata"
  <2>1. t = s
    BY <1>1 DEF dmi_write, Refused
  <2> QED BY <2>1, QuietSelf DEF Same
<1> DEFINE open == ~(~s.authenticated /\ addr \notin {"authdata", "dmcontrol"})
<1>2. CASE open /\ addr = "data0"
  <2> DEFINE u == [s EXCEPT !.data = IF s.busy THEN @ ELSE val,
                            !.cmderr = IF s.busy /\ @ = NONE THEN BUSY ELSE @]
  <2>1. t = writeData(s, val)
    BY <1>2 DEF dmi_write, Done, UpperWords
  <2>2. t = IF ~s.busy /\ s.autoexecdata THEN perform_abstract_command(u) ELSE u
    BY <2>1 DEF writeData
  <2>3. /\ u = [f \in DmFields |-> u[f]] /\ (s.busy => u.data = s.data)
        /\ \A f \in DmFields \ {"cmderr", "data"} : u[f] = s[f]
    BY DEF IsDm, DmFields
  <2> HIDE DEF u
  <2>4. IsDm(u)
    BY <2>3 DEF IsDm, DmFields
  <2>5. Quiet(s, u) /\ Same(s, u)
    BY <2>3, <2>4 DEF Quiet, Same, DmFields
  <2>6. (Quiet(u, t) \/ Starts(u, t)) /\ Same(u, t)
    BY <2>2, <2>4, PerformEffect, QuietSelf
  <2> QED BY <2>5, <2>6, QuietThen DEF Same
<1>3. CASE open /\ addr = "progbuf0"
  <2> DEFINE u == [s EXCEPT !.progbuf = IF s.busy THEN @ ELSE val]
  <2>1. t = writeProgbuf(s, val)
    BY <1>3 DEF dmi_write, Done, UpperWords
  <2>2. t = IF ~s.busy /\ s.autoexecprogbuf THEN perform_abstract_command(u) ELSE u
    BY <2>1 DEF writeProgbuf
  <2>3. /\ u = [f \in DmFields |-> u[f]] /\ u.progbuf \in {s.progbuf, val}
        /\ \A f \in DmFields \ {"progbuf"} : u[f] = s[f]
    BY DEF IsDm, DmFields
  <2> HIDE DEF u
  <2>4. IsDm(u)
    BY <2>3 DEF IsDm, DmFields
  <2>5. Quiet(s, u) /\ u.command = s.command
    BY <2>3, <2>4 DEF Quiet, DmFields
  <2>6. (Quiet(u, t) \/ Starts(u, t)) /\ Same(u, t)
    BY <2>2, <2>4, PerformEffect, QuietSelf
  <2> QED BY <1>3, <2>3, <2>5, <2>6, QuietThen DEF Same
<1>4. CASE open /\ addr = "command"
  <2> DEFINE u == [s EXCEPT !.command = val]
  <2>1. t = perform_abstract_command(u)
    BY <1>4 DEF dmi_write, Done, UpperWords
  <2>2. /\ u = [f \in DmFields |-> u[f]] /\ u.command = val
        /\ \A f \in DmFields \ {"command"} : u[f] = s[f]
    BY DEF IsDm, DmFields
  <2> HIDE DEF u
  <2>3. IsDm(u)
    BY <2>2 DEF IsDm, DmFields
  <2>4. Quiet(s, u) /\ u.progbuf = s.progbuf
    BY <2>2, <2>3 DEF Quiet, DmFields
  <2>5. (Quiet(u, t) \/ Starts(u, t)) /\ Same(u, t)
    BY <2>1, <2>3, PerformEffect
  <2> QED BY <1>4, <2>2, <2>4, <2>5, QuietThen DEF Same
<1>5. CASE open /\ addr \in {"sbaddress0", "sbdata0", "sbcs", "sbaddress1", "sbdata1"}
  <2>1. BusOnly(s, s)
    BY DEF BusOnly, IsDm
  <2>2. ASSUME NEW x PROVE /\ BusOnly(s, [s EXCEPT !.sbaddress[1] = x])
                           /\ BusOnly(s, [s EXCEPT !.sbdata[1] = x])
    BY DEF BusOnly, IsDm, DmFields
  <2>3. CASE addr = "sbaddress0"
    <3>1. t = writeSbaddress0(s, val, bus, v)
      BY <1>5, <2>3 DEF dmi_write, Done, UpperWords
    <3> DEFINE u == [s EXCEPT !.sbaddress[1] = val]
    <3>2. t = IF s.sbcs.error = 0 /\ s.sbcs.readonaddr
              THEN sb_autoincrement(sb_read(u, bus, v)) ELSE u
      BY <3>1 DEF writeSbaddress0
    <3>3. BusOnly(s, u)
      BY <2>2
    <3> HIDE DEF u
    <3>4. BusOnly(s, sb_read(u, bus, v))
      BY <3>3, BusSteps
    <3>5. BusOnly(s, sb_autoincrement(sb_read(u, bus, v)))
      BY <3>4, BusSteps
    <3>6. BusOnly(s, t)
      BY <3>2, <3>3, <3>5
    <3> QED BY <3>6, BusSteps DEF Same
  <2>4. CASE addr = "sbdata0"
    <3>1. t = writeSbdata0(s, val, bus)
      BY <1>5, <2>4 DEF dmi_write, Done, UpperWords
    <3> DEFINE u == [s EXCEPT !.sbdata[1] = val]
               w == sb_write(u, bus)
    <3>2. t = IF s.sbcs.error # 0 THEN u ELSE IF w.sbcs.error # 0 THEN w ELSE sb_autoincrement(w)
      BY <3>1 DEF writeSbdata0
    <3>3. BusOnly(s, u)
      BY <2>2
    <3> HIDE DEF u
    <3>4. BusOnly(s, w)
      BY <3>3, BusSteps
    <3> HIDE DEF w
    <3>5. BusOnly(s, sb_autoincrement(w))
      BY <3>4, BusSteps
    <3>6. BusOnly(s, t)
      BY <3>2, <3>3, <3>4, <3>5
    <3> QED BY <3>6, BusSteps DEF Same
  <2>5. CASE addr = "sbcs"
    <3>1. t = [s EXCEPT !.sbcs = [val EXCEPT !.error = andNot(s.sbcs.error, val.error)]]
      BY <1>5, <2>5 DEF dmi_write, Done, UpperWords
    <3>2. BusOnly(s, t)
      BY <3>1 DEF BusOnly, IsDm, DmFields
    <3> QED BY <3>2, BusSteps DEF Same
  <2>6. CASE addr \in {"sbaddress1", "sbdata1"}
    <3>1. t = [s EXCEPT !.sbaddress[2] = val] \/ t = [s EXCEPT !.sbdata[2] = val]
      BY <1>5, <2>6 DEF dmi_write, Done, UpperWords
    <3>2. BusOnly(s, t)
      BY <3>1 DEF BusOnly, IsDm, DmFields
    <3> QED BY <3>2, BusSteps DEF Same
  <2> QED BY <1>5, <2>3, <2>4, <2>5, <2>6
<1>6. CASE open /\ addr \in {"hawindowsel", "hawindow", "abstractcs", "abstractauto", "authdata"}
  <2>1. \/ t = [s EXCEPT !.hawindowsel = val]
        \/ t = [s EXCEPT !.hart_array_mask = (@ \ window(s)) \cup (val \cap window(s))]
        \/ t = [s EXCEPT !.cmderr = andNot(@, val)]
        \/ t = [s EXCEPT !.autoexecdata = val.data, !.autoexecprogbuf = val.progbuf]
        \/ t = writeAuthdata(s, val, fresh)
    BY <1>6 DEF dmi_write, Done, UpperWords
  <2>2. /\ t = [f \in DmFields |-> t[f]]
        /\ \A f \in {"dmcontrol", "busy", "command", "completed", "progbuf", "abstract",
                     "hart_state", "flags", "data"} : t[f] = s[f]
    <3>1. CASE t = [s EXCEPT !.hawindowsel = val]
      BY <3>1 DEF IsDm, DmFields
    <3>2. CASE t = [s EXCEPT !.hart_array_mask = (@ \ window(s)) \cup (val \cap window(s))]
      BY <3>2 DEF IsDm, DmFields
    <3>3. CASE t = [s EXCEPT !.cmderr = andNot(@, val)]
      BY <3>3 DEF IsDm, DmFields
    <3>4. CASE t = [s EXCEPT !.autoexecdata = val.data, !.autoexecprogbuf = val.progbuf]
      BY <3>4 DEF IsDm, DmFields
    <3>5. CASE t = writeAuthdata(s, val, fresh)
      BY <3>5, ZenonT(60) DEF writeAuthdata, IsDm, DmFields
    <3> QED BY <2>1, <3>1, <3>2, <3>3, <3>4, <3>5
  <2> QED BY <2>2, QuietFields DEF Same
<1>7. CASE open /\ addr = "dmcs2"
  <2> DEFINE h == s.dmcontrol.hartsel
  <2>1. t = s \/ t = [s EXCEPT !.hart_state[h].haltgroup = val]
    BY <1>7 DEF dmi_write, Done, UpperWords
  <2>2. CASE t = s
    BY <2>2, QuietSelf DEF Same
  <2>3. CASE t = [s EXCEPT !.hart_state[h].haltgroup = val]
    <3>1. /\ t = [f \in DmFields |-> t[f]] /\ \A f \in DmFields \ {"hart_state"} : t[f] = s[f]
          /\ t.hart_state = [s.hart_state EXCEPT ![h] = [@ EXCEPT !.haltgroup = val]]
      BY <2>3 DEF IsDm, DmFields
    <3>2. /\ HartStates(t.hart_state)
          /\ \A i \in Slots : t.hart_state[i].halted = s.hart_state[i].halted
      <4>1. ASSUME NEW i \in Slots
            PROVE  /\ t.hart_state[i] = [f \in HartFields |-> t.hart_state[i][f]]
                   /\ t.hart_state[i].halted = s.hart_state[i].halted
        <5>1. h \in Slots /\ HartStates(s.hart_state)
          BY DEF IsDm
        <5>2. s.hart_state[i] = [f \in HartFields |-> s.hart_state[i][f]]
          BY <5>1 DEF HartStates
        <5>3. t.hart_state[i] = IF i = h THEN [s.hart_state[i] EXCEPT !.haltgroup = val]
                                ELSE s.hart_state[i]
          BY <3>1, <5>1 DEF HartStates
        <5> QED BY <5>2, <5>3 DEF HartFields
      <4>2. t.hart_state = [i \in Slots |-> t.hart_state[i]]
        BY <3>1 DEF IsDm, HartStates
      <4> QED BY <4>1, <4>2 DEF HartStates
    <3>3. IsDm(t)
      BY <3>1, <3>2 DEF IsDm, DmFields
    <3> QED BY <3>1, <3>2, <3>3 DEF Quiet, DmFields
  <2> QED BY <2>1, <2>2, <2>3
<1>8. CASE addr \notin {"data0", "progbuf0", "command", "sbaddress0", "sbdata0", "sbcs",
                        "sbaddress1", "sbdata1", "hawindowsel", "hawindow", "abstractcs",
                        "abstractauto", "authdata", "dmcs2", "dmcontrol"}
  <2>1. t = s
    BY <1>8 DEF dmi_write, Done, Refused
  <2> QED BY <2>1, QuietSelf DEF Same
<1> QED BY <1>1, <1>2, <1>3, <1>4, <1>5, <1>6, <1>7, <1>8

\* A write to dmcontrol that resets the harts R.
Controls(s, t, R) ==
    /\ IsDm(t) /\ Same(s, t)
    /\ t.busy = FALSE
    /\ \A i \in Slots : "go" \in t.flags[i] => "go" \in s.flags[i]
    /\ \A i \in Slots : t.hart_state[i].halted => s.hart_state[i].halted /\ i \notin R

(* The module resets exactly the harts that the model of the harts resets,  *)
(* and none of them stays reported as halted.                               *)
LEMMA ControlEffect ==
    ASSUME NEW s, IsDm(s), s.busy = FALSE, NEW v \in ControlWord, NEW fresh,
           NEW t, t = writeDmcontrol(s, v, fresh)
    PROVE  Controls(s, t, hartsReset(s, v))
<1> DEFINE woken == IF ~s.dmcontrol.dmactive /\ v.dmactive THEN reset(s, fresh) ELSE s
           control == [haltreq |-> v.haltreq, resumereq |-> v.resumereq,
                       hasel |-> config.support_hasel /\ v.hasel, hartsel |-> v.hartsel,
                       hartreset |-> v.hartreset, ndmreset |-> v.ndmreset,
                       dmactive |-> v.dmactive]
           set == [woken EXCEPT !.dmcontrol = control]
           sel == { i \in Procs : hart_selected(set, i) }
           asks == [set EXCEPT
              !.halt_request = [p \in Procs |-> IF p \notin sel THEN @[p]
                                                ELSE IF v.haltreq THEN "regular" ELSE "none"],
              !.flags = [i \in Slots |-> IF i \in sel /\ v.resumereq THEN @[i] \cup {"resume"}
                                         ELSE @[i]],
              !.hart_state = [i \in Slots |->
                IF i \notin sel THEN @[i]
                ELSE [@[i] EXCEPT !.resumeack = @ /\ ~v.resumereq,
                                  !.havereset = @ /\ ~v.ackhavereset]]]
           R == IF v.ndmreset THEN Procs ELSE IF v.hartreset THEN sel ELSE {}
<1>1. /\ woken = [f \in DmFields |-> woken[f]]
      /\ \A f \in {"command", "progbuf", "completed", "flags", "hart_state", "hart_array_mask"} :
             woken[f] = s[f]
      /\ woken.busy = FALSE
      /\ woken.dmcontrol = [f \in ControlFields |-> woken.dmcontrol[f]]
      /\ woken.dmcontrol.hartsel \in Slots
  <2>1. CASE ~s.dmcontrol.dmactive /\ v.dmactive
    <3>1. 0 \in Slots
      BY nprocsAssumption, SlotsAssumption DEF Procs
    <3>2. resetControl = [f \in ControlFields |-> resetControl[f]] /\ resetControl.hartsel = 0
      BY DEF resetControl, ControlFields
    <3> QED BY <2>1, <3>1, <3>2, ZenonT(60) DEF reset, IsDm, DmFields
  <2>2. CASE ~(~s.dmcontrol.dmactive /\ v.dmactive)
    BY <2>2 DEF IsDm, DmFields
  <2> QED BY <2>1, <2>2
<1>2. v.dmactive => (woken.authenticated <=>
                     IF s.dmcontrol.dmactive THEN s.authenticated
                     ELSE ~config.require_authentication)
  BY DEF reset, IsDm, DmFields
<1>3. t = IF ~woken.authenticated \/ ~v.dmactive
          THEN [woken EXCEPT !.dmcontrol.dmactive = v.dmactive] ELSE resetHarts(asks, R)
  BY DEF writeDmcontrol
<1>4. v.hartsel \in Slots
  BY DEF ControlWord
<1> HIDE DEF woken
<1>5. CASE ~woken.authenticated \/ ~v.dmactive
  <2>1. hartsReset(s, v) = {}
    BY <1>2, <1>5 DEF hartsReset
  <2>2. t = [woken EXCEPT !.dmcontrol = [@ EXCEPT !.dmactive = v.dmactive]]
    BY <1>3, <1>5
  <2>3. /\ t = [f \in DmFields |-> t[f]]
        /\ \A f \in {"command", "progbuf", "completed", "flags", "hart_state"} : t[f] = s[f]
        /\ t.busy = FALSE
        /\ t.dmcontrol = [f \in ControlFields |-> t.dmcontrol[f]]
        /\ t.dmcontrol.hartsel \in Slots
    BY <1>1, <2>2, SMTT(60) DEF DmFields, ControlFields
  <2>4. IsDm(t)
    BY <2>3 DEF IsDm
  <2> QED BY <2>1, <2>3, <2>4 DEF Controls, Same
<1>6. CASE woken.authenticated /\ v.dmactive
  <2>1. /\ set = [f \in DmFields |-> set[f]]
        /\ \A f \in {"command", "progbuf", "completed", "flags", "hart_state",
                     "hart_array_mask"} : set[f] = s[f]
        /\ set.busy = FALSE
        /\ set.dmcontrol = control
    BY <1>1 DEF DmFields
  <2>1a. set.dmcontrol.hartsel = v.hartsel /\ set.dmcontrol.hasel = (config.support_hasel /\ v.hasel)
    BY <2>1
  <2> HIDE DEF set, control
  <2>2. sel = { i \in Procs : i = v.hartsel
                         \/ (config.support_hasel /\ v.hasel /\ i \in s.hart_array_mask) }
    BY <2>1, <2>1a DEF hart_selected
  <2>3. hartsReset(s, v) = R
    BY <1>2, <1>6, <2>2 DEF hartsReset
  <2> HIDE DEF sel
  <2> DEFINE flags == [i \in Slots |-> IF i \in sel /\ v.resumereq THEN s.flags[i] \cup {"resume"}
                                       ELSE s.flags[i]]
             harts == asks.hart_state
  <2>3a. set.flags = s.flags /\ set.hart_state = s.hart_state
    BY <2>1
  <2>3b. asks.flags = flags
    BY <2>1, <2>3a DEF DmFields
  <2>3c. /\ harts = [i \in Slots |-> harts[i]]
         /\ \A i \in Slots : /\ harts[i] = [f \in HartFields |-> harts[i][f]]
                             /\ harts[i].halted = s.hart_state[i].halted
    <3>1. harts = [i \in Slots |-> harts[i]]
      BY <2>1 DEF DmFields
    <3>2. ASSUME NEW i \in Slots
          PROVE  harts[i] = [f \in HartFields |-> harts[i][f]] /\ harts[i].halted = s.hart_state[i].halted
      <4>1. s.hart_state[i] = [f \in HartFields |-> s.hart_state[i][f]]
        BY DEF IsDm, HartStates
      <4>2. CASE i \notin sel
        <5>1. harts[i] = s.hart_state[i]
          BY <2>1, <2>3a, <4>2 DEF DmFields
        <5> QED BY <4>1, <5>1
      <4>3. CASE i \in sel
        <5>1. \E x, y : harts[i] = [s.hart_state[i] EXCEPT !.resumeack = x, !.havereset = y]
          BY <2>1, <2>3a, <4>3 DEF DmFields
        <5>2. PICK x, y : harts[i] = [s.hart_state[i] EXCEPT !.resumeack = x, !.havereset = y]
          BY <5>1
        <5> HIDE DEF harts
        <5> QED BY <4>1, <5>2 DEF HartFields
      <4> QED BY <4>2, <4>3
    <3> QED BY <3>1, <3>2
  <2>3d. /\ asks = [f \in DmFields |-> asks[f]]
         /\ \A f \in {"command", "progbuf", "completed", "busy", "dmcontrol"} : asks[f] = set[f]
    BY <2>1 DEF DmFields
  <2> HIDE DEF asks, flags, harts
  <2>4. /\ asks = [f \in DmFields |-> asks[f]]
        /\ \A f \in {"command", "progbuf", "completed"} : asks[f] = s[f]
        /\ asks.busy = FALSE
        /\ asks.dmcontrol = control
        /\ asks.flags = flags
        /\ asks.hart_state = harts
    BY <2>1, <2>3b, <2>3c, <2>3d DEF harts
  <2> HIDE DEF R
  <2>5. t = resetHarts(asks, R)
    BY <1>3, <1>6
  <2> DEFINE after == [i \in Slots |-> IF i \in R THEN proc_reset(asks, i).hart_state[i]
                                       ELSE harts[i]]
  <2>6. /\ t = [f \in DmFields |-> t[f]]
        /\ \A f \in {"command", "progbuf", "completed"} : t[f] = s[f]
        /\ t.busy = FALSE /\ t.dmcontrol = control /\ t.flags = flags /\ t.hart_state = after
    <3>1. t = [asks EXCEPT !.hart_state = after]
      BY <2>4, <2>5 DEF resetHarts
    <3> HIDE DEF after
    <3> QED BY <2>4, <3>1 DEF DmFields
  <2>7. ASSUME NEW i \in Slots
        PROVE  /\ after[i] = [f \in HartFields |-> after[i][f]]
               /\ after[i].halted => s.hart_state[i].halted /\ i \notin R
    <3>1. s.hart_state[i] = [f \in HartFields |-> s.hart_state[i][f]]
      BY DEF IsDm, HartStates
    <3>2. harts[i] = [f \in HartFields |-> harts[i][f]] /\ harts[i].halted = s.hart_state[i].halted
      BY <2>3c
    <3>3. CASE i \in R
      <4>1. proc_reset(asks, i).hart_state[i] =
                [harts[i] EXCEPT !.havereset = TRUE, !.halted = FALSE, !.haltgroup = 0]
        <5>1. harts = [j \in Slots |-> harts[j]]
          BY <2>3c
        <5> QED BY <2>4, <3>2, <5>1 DEF proc_reset, DmFields, HartFields
      <4>2. after[i] = [harts[i] EXCEPT !.havereset = TRUE, !.halted = FALSE, !.haltgroup = 0]
        BY <3>3, <4>1
      <4> HIDE DEF after
      <4> QED BY <3>2, <4>2 DEF HartFields
    <3>4. CASE i \notin R
      <4>1. after[i] = harts[i]
        BY <3>4
      <4> QED BY <3>2, <3>4, <4>1
    <3> QED BY <3>3, <3>4
  <2>8. control = [f \in ControlFields |-> control[f]] /\ control.hartsel \in Slots
    BY <1>4 DEF control, ControlFields
  <2>9. HartStates(t.hart_state)
    <3>1. after = [i \in Slots |-> after[i]]
      OBVIOUS
    <3> HIDE DEF after
    <3> QED BY <2>6, <2>7, <3>1 DEF HartStates
  <2>10. IsDm(t)
    <3>1. t.flags = [i \in Slots |-> t.flags[i]]
      BY <2>6 DEF flags
    <3> HIDE DEF after
    <3> QED BY <2>6, <2>8, <2>9, <3>1 DEF IsDm
  <2>11. \A i \in Slots : "go" \in t.flags[i] => "go" \in s.flags[i]
    BY <2>6 DEF flags
  <2>12. \A i \in Slots : t.hart_state[i].halted => s.hart_state[i].halted /\ i \notin R
    <3> HIDE DEF after
    <3> QED BY <2>6, <2>7
  <2> QED BY <2>3, <2>6, <2>10, <2>11, <2>12 DEF Controls, Same
<1> QED BY <1>5, <1>6

-----------------------------------------------------------------------------
(* The debugger's steps *)

\* What a step of the debugger comes to for the harts.
QuietAccess ==
    \E t : Quiet(dm, t) /\ Idles(t, dm') /\ UNCHANGED <<cpu, want>>

StartAccess ==
    \E t : /\ Starts(dm, t) /\ Idles(t, dm') /\ UNCHANGED cpu
           /\ t.command \in commandsOf
           /\ want' = noteCommand(t)

ControlAccess ==
    \E t, R : /\ dm.busy = FALSE /\ Controls(dm, t, R) /\ Idles(t, dm')
              /\ cpu' = [h \in Procs |-> IF h \in R THEN [pc |-> "run", at |-> 1, r |-> ResetRegs]
                                         ELSE cpu[h]]
              /\ want' = [h \in Procs |-> IF h \in R THEN archOf(ResetRegs) ELSE want[h]]

\* What the debugger may have put into the module.
AskedOnly(t) ==
    /\ t.command \in commandsOf
    /\ t.progbuf = "fault" => \E q \in asked("progbuf0") : q.val = "fault"

(* An access that the module refuses stays in the transport as a write that *)
(* the debugger asked for or that no register answers.                      *)
LEMMA RefusedOffered ==
    ASSUME NEW req, offered(req), NEW s, NEW fresh, NEW bus, NEW v, NEW res,
           res = IF req.op = "read" THEN dmi_read(s, req.addr, bus, v)
                 ELSE IF req.op = "write" THEN dmi_write(s, req.addr, req.val, fresh, bus, v)
                 ELSE Done(s, "zero")
    PROVE  offered(resultOf(req, res.ok))
<1>1. CASE res.ok
  BY <1>1 DEF resultOf, Nop, offered
<1>2. CASE ~res.ok /\ req.op = "write"
  <2>1. resultOf(req, res.ok) = req
    BY <1>2 DEF resultOf, offered
  <2> QED BY <2>1
<1>3. CASE ~res.ok /\ req.op = "read"
  <2>1. req.addr \notin WriteAddrs
    <3>1. SUFFICES ASSUME req.addr \in WriteAddrs PROVE res.ok
      BY <1>3
    <3>2. res = dmi_read(s, req.addr, bus, v)
      BY <1>3
    <3>3. req.addr \in {"data0", "progbuf0", "sbdata0"} => res.ok
      <4>1. ASSUME NEW x, NEW y PROVE Done(x, y).ok
        BY DEF Done
      <4>2. CASE req.addr = "data0"
        <5>1. res = readData(s)
          BY <3>2, <4>2 DEF dmi_read, UpperWords
        <5> QED BY <4>1, <5>1 DEF readData
      <4>3. CASE req.addr = "progbuf0"
        <5>1. res = readProgbuf(s)
          BY <3>2, <4>3 DEF dmi_read, UpperWords
        <5> QED BY <4>1, <5>1 DEF readProgbuf
      <4>4. CASE req.addr = "sbdata0"
        <5>1. res = readSbdata0(s, bus, v)
          BY <3>2, <4>4 DEF dmi_read, UpperWords
        <5> QED BY <4>1, <5>1 DEF readSbdata0
      <4> QED BY <4>2, <4>3, <4>4
    <3>4. req.addr \in WriteAddrs \ {"data0", "progbuf0", "sbdata0"} => res.ok
      <4>1. req.addr \in WriteAddrs \ {"data0", "progbuf0", "sbdata0"} => \E y : res = Done(s, y)
        BY <3>2 DEF dmi_read, UpperWords, WriteAddrs
      <4>2. ASSUME NEW y PROVE Done(s, y).ok
        BY DEF Done
      <4> QED BY <4>1, <4>2
    <3> QED BY <3>1, <3>3, <3>4
  <2>2. LET q == [req EXCEPT !.op = "write"]
        IN  /\ resultOf(req, res.ok) = q /\ q.op = "write" /\ q.addr = req.addr
            /\ q = [op |-> q.op, addr |-> q.addr, val |-> q.val]
    BY <1>3 DEF resultOf, offered
  <2> QED BY <2>1, <2>2 DEF offered
<1>4. CASE ~res.ok /\ req.op # "write" /\ req.op # "read"
  BY <1>4 DEF Done
<1> QED BY <1>1, <1>2, <1>3, <1>4

(* The clocks a patient debugger spends are a number.                       *)
LEMMA WaitingType == session \in Sessions => waitingClocks \in Nat
BY ClocksAssumption DEF waitingClocks

(* An access over the transport.                                            *)
LEMMA AccessEffect ==
    ASSUME TypeInv, NEW req, offered(req), polite(req), access(req), session' = session
    PROVE  /\ QuietAccess \/ StartAccess \/ ControlAccess
           /\ IsDm(dm') /\ AskedOnly(dm')
           /\ tap' = [f \in TapFields |-> tap'[f]] /\ offered(tap'.dmi)
<1>1. PICK fresh \in {0, 1}, bus \in BusAnswers, v \in Vals :
        LET res == IF req.op = "read" THEN dmi_read(dm, req.addr, bus, v)
                   ELSE IF req.op = "write" THEN dmi_write(dm, req.addr, req.val, fresh, bus, v)
                   ELSE Done(dm, "zero")
            R == IF req.op = "write" /\ req.addr = "dmcontrol" THEN hartsReset(dm, req.val) ELSE {}
        IN  /\ req.addr \notin {"dmcontrol", "authdata"} => fresh = 0
            /\ req.addr \notin {"sbaddress0", "sbdata0"} => bus = "hit" /\ v = someVal
            /\ R # {} => resets < MaxResets
            /\ dm' = idled(res.s, waitingClocks)
            /\ cpu' = [h \in Procs |-> IF h \in R THEN [pc |-> "run", at |-> 1, r |-> ResetRegs]
                                       ELSE cpu[h]]
            /\ want' = [h \in Procs |-> IF h \in R THEN archOf(ResetRegs) ELSE noteCommand(res.s)[h]]
            /\ resets' = IF R = {} THEN resets ELSE resets + 1
            /\ tap' = [tap EXCEPT
                   !.state = IF waitingClocks = 0 THEN "UPDATE_DR" ELSE "RUN_TEST_IDLE",
                   !.rti_remaining = IF session.patient THEN 0 ELSE required_rti_cycles,
                   !.dmi = resultOf(req, res.ok)]
  BY DEF access
<1> DEFINE res == IF req.op = "read" THEN dmi_read(dm, req.addr, bus, v)
                  ELSE IF req.op = "write" THEN dmi_write(dm, req.addr, req.val, fresh, bus, v)
                  ELSE Done(dm, "zero")
           R == IF req.op = "write" /\ req.addr = "dmcontrol" THEN hartsReset(dm, req.val) ELSE {}
           t == res.s
<1>2. IsDm(dm) /\ AskedOnly(dm)
  BY DEF TypeInv, AskedOnly
<1>3. offered(resultOf(req, res.ok))
  <2> HIDE DEF res
  <2>1. res = IF req.op = "read" THEN dmi_read(dm, req.addr, bus, v)
              ELSE IF req.op = "write" THEN dmi_write(dm, req.addr, req.val, fresh, bus, v)
              ELSE Done(dm, "zero")
    BY DEF res
  <2> QED BY <2>1, RefusedOffered
<1>4. /\ dm' = idled(t, waitingClocks)
      /\ cpu' = [h \in Procs |-> IF h \in R THEN [pc |-> "run", at |-> 1, r |-> ResetRegs]
                                 ELSE cpu[h]]
      /\ want' = [h \in Procs |-> IF h \in R THEN archOf(ResetRegs) ELSE noteCommand(t)[h]]
      /\ tap' = [tap EXCEPT
                   !.state = IF waitingClocks = 0 THEN "UPDATE_DR" ELSE "RUN_TEST_IDLE",
                   !.rti_remaining = IF session.patient THEN 0 ELSE required_rti_cycles,
                   !.dmi = resultOf(req, res.ok)]
  BY <1>1
<1>5. CASE req.op = "write" /\ req.addr = "dmcontrol"
  <2>1. t = writeDmcontrol(dm, req.val, fresh)
    BY <1>5 DEF dmi_write, Done, UpperWords
  <2>2. req.val \in ControlWord
    BY <1>5, SessionsAssumption DEF offered, TypeInv, WriteAddrs
  <2>3. dm.busy = FALSE
    BY <1>2, <1>5 DEF polite, IsDm
  <2>4. R = hartsReset(dm, req.val)
    BY <1>5
  <2> HIDE DEF t, R
  <2>5. Controls(dm, t, R)
    BY <1>2, <2>1, <2>2, <2>3, <2>4, ControlEffect
  <2>6. AskedOnly(t) /\ IsDm(t)
    BY <1>2, <2>5 DEF AskedOnly, Controls, Same
  <2>7. noteCommand(t) = want
    BY <2>5 DEF noteCommand, Controls
  <2>8. (ControlAccess /\ Idles(t, dm')) /\ IsDm(t) /\ AskedOnly(t)
    <3>1. Idles(t, dm')
      BY <1>4, <2>6, IdleClocks, WaitingType DEF TypeInv
    <3>2. ControlAccess
      BY <1>4, <2>3, <2>5, <2>7, <3>1 DEF ControlAccess
    <3> QED BY <2>6, <3>1, <3>2
  <2>9. IsDm(dm') /\ AskedOnly(dm')
    BY <2>8, IdledDm DEF Idles, AskedOnly, DmFields
  <2>10. tap' = [f \in TapFields |-> tap'[f]] /\ tap'.dmi = resultOf(req, res.ok)
    BY <1>4 DEF TypeInv, TapFields
  <2> QED BY <1>3, <2>8, <2>9, <2>10
<1>6. CASE ~(req.op = "write" /\ req.addr = "dmcontrol")
  <2>1. R = {}
    BY <1>6
  <2>2. /\ Quiet(dm, t) \/ Starts(dm, t)
        /\ t.command = dm.command \/ (req.op = "write" /\ req.addr = "command" /\ t.command = req.val)
        /\ t.progbuf = dm.progbuf \/ (req.op = "write" /\ req.addr = "progbuf0" /\ t.progbuf = req.val)
    <3>1. CASE req.op = "read"
      <4>1. t = dmi_read(dm, req.addr, bus, v).s
        BY <3>1
      <4> HIDE DEF t
      <4> QED BY <1>2, <4>1, ReadEffect DEF Same
    <3>2. CASE req.op = "write"
      <4>1. t = dmi_write(dm, req.addr, req.val, fresh, bus, v).s
        BY <3>2
      <4> HIDE DEF t
      <4> QED BY <1>2, <1>6, <3>2, <4>1, WriteEffect
    <3>3. CASE req.op # "read" /\ req.op # "write"
      <4>1. t = dm
        BY <3>3 DEF Done
      <4> HIDE DEF t
      <4> QED BY <1>2, <4>1, QuietSelf DEF Same
    <3> QED BY <3>1, <3>2, <3>3
  <2> HIDE DEF t, R
  <2>3. IsDm(t)
    BY <2>2 DEF Quiet, Starts
  <2>4. AskedOnly(t)
    <3>1. req.op = "write" /\ req.addr \in {"command", "progbuf0"} => req \in asked(req.addr)
      BY DEF offered, WriteAddrs, asked
    <3> QED BY <1>2, <2>2, <3>1 DEF AskedOnly, commandsOf
  <2>5. Idles(t, dm')
    BY <1>4, <2>3, IdleClocks, WaitingType DEF TypeInv
  <2>6. cpu' = cpu /\ want' = noteCommand(t)
    <3>1. cpu' = cpu
      BY <1>4, <2>1 DEF TypeInv
    <3>2. noteCommand(t) = [h \in Procs |-> noteCommand(t)[h]]
      BY DEF noteCommand, TypeInv
    <3> QED BY <1>4, <2>1, <3>1, <3>2
  <2>7. QuietAccess \/ StartAccess
    <3>1. CASE Quiet(dm, t)
      <4>1. noteCommand(t) = want
        BY <3>1 DEF noteCommand, Quiet
      <4> QED BY <2>5, <2>6, <3>1, <4>1 DEF QuietAccess
    <3>2. CASE Starts(dm, t)
      BY <2>4, <2>5, <2>6, <3>2 DEF StartAccess, AskedOnly
    <3> QED BY <2>2, <3>1, <3>2
  <2>8. IsDm(dm') /\ AskedOnly(dm')
    BY <2>3, <2>4, <2>5, IdledDm DEF Idles, AskedOnly, DmFields
  <2>9. tap' = [f \in TapFields |-> tap'[f]] /\ tap'.dmi = resultOf(req, res.ok)
    BY <1>4 DEF TypeInv, TapFields
  <2> QED BY <1>3, <2>7, <2>8, <2>9
<1> QED BY <1>5, <1>6

(* Whatever the debugger does is an access of one of the three kinds, or    *)
(* quiet: scans that do not reach the module, clocks, resets of the TAP,    *)
(* connections that come and go.                                            *)
LEMMA DebuggerEffect ==
    ASSUME TypeInv, Debugger
    PROVE  /\ QuietAccess \/ StartAccess \/ ControlAccess
           /\ IsDm(dm') /\ AskedOnly(dm') /\ session' = session
           /\ tap' = [f \in TapFields |-> tap'[f]] /\ offered(tap'.dmi)
<1>1. IsDm(dm) /\ AskedOnly(dm) /\ tap = [f \in TapFields |-> tap[f]] /\ offered(tap.dmi)
  BY DEF TypeInv, AskedOnly
<1>2. offered(Nop)
  BY DEF offered, Nop
<1>3. ASSUME NEW req, req \in session.requests \cup {tap.dmi}, scanBus(req)
      PROVE  /\ QuietAccess \/ StartAccess \/ ControlAccess
             /\ IsDm(dm') /\ AskedOnly(dm') /\ session' = session
             /\ tap' = [f \in TapFields |-> tap'[f]] /\ offered(tap'.dmi)
  <2>1. offered(req)
    BY <1>1, <1>3, SessionsAssumption DEF offered, TypeInv
  <2>2. polite(req) /\ access(req) /\ session' = session
    BY <1>3 DEF scanBus
  <2> QED BY <2>1, <2>2, AccessEffect
<1>4. CASE idle
  <2>1. dm' = run_test_idle(dm) /\ UNCHANGED <<cpu, want, session>>
    BY <1>4 DEF idle
  <2>2. Quiet(dm, dm) /\ Idles(dm, dm)
    BY <1>1, QuietSelf DEF Idles, IsDm
  <2>3. Idles(dm, dm')
    BY <1>1, <2>1, <2>2, IdleOnce DEF IsDm
  <2>4. IsDm(dm') /\ AskedOnly(dm')
    BY <1>1, <2>3, IdledDm DEF Idles, AskedOnly, DmFields
  <2>5. tap' = [f \in TapFields |-> tap'[f]] /\ tap'.dmi = tap.dmi
    BY <1>1, <1>4 DEF idle, TapFields
  <2> QED BY <1>1, <2>1, <2>2, <2>3, <2>4, <2>5 DEF QuietAccess
<1>5. ASSUME UNCHANGED <<dm, cpu, session, want>>,
             tap' = [f \in TapFields |-> tap'[f]], tap'.dmi \in {tap.dmi, Nop}
      PROVE  /\ QuietAccess
             /\ IsDm(dm') /\ AskedOnly(dm') /\ session' = session
             /\ tap' = [f \in TapFields |-> tap'[f]] /\ offered(tap'.dmi)
  <2>1. Quiet(dm, dm) /\ Idles(dm, dm)
    BY <1>1, QuietSelf DEF Idles, IsDm
  <2> QED BY <1>1, <1>2, <1>5, <2>1 DEF QuietAccess
<1>6. CASE scanBusy \/ testLogicReset
  BY <1>1, <1>5, <1>6 DEF scanBusy, testLogicReset, TapFields
<1>7. ASSUME NEW hard \in BOOLEAN, scanDtmcontrol(hard)
      PROVE  UNCHANGED <<dm, cpu, session, want>>
             /\ tap' = [f \in TapFields |-> tap'[f]] /\ tap'.dmi \in {tap.dmi, Nop}
  BY <1>1, <1>7 DEF scanDtmcontrol, tapReset, TapFields
<1>8. ASSUME NEW ir, scanIr(ir)
      PROVE  UNCHANGED <<dm, cpu, session, want>>
             /\ tap' = [f \in TapFields |-> tap'[f]] /\ tap'.dmi \in {tap.dmi, Nop}
  BY <1>1, <1>8 DEF scanIr, TapFields
<1>9. CASE bitbangReset
  BY <1>1, <1>5, <1>9 DEF bitbangReset, tapReset, TapFields
<1>10. CASE accept \/ disconnect
  BY <1>1, <1>5, <1>10 DEF accept, disconnect
<1> QED BY <1>3, <1>4, <1>5, <1>6, <1>7, <1>8, <1>9, <1>10 DEF Debugger

-----------------------------------------------------------------------------
(* The harts' steps *)

\* What no step of a hart changes of the module.
HartKeeps ==
    /\ IsDm(dm')
    /\ \A f \in {"dmcontrol", "busy", "command", "progbuf", "abstract"} : dm'[f] = dm[f]

(* The store to the halted mailbox.                                         *)
LEMMA HaltedStore ==
    ASSUME IsDm(dm), NEW h \in Procs, dm' = storeHalted(dm, h)
    PROVE  /\ HartKeeps
           /\ dm'.data = dm.data /\ dm'.flags = dm.flags
           /\ dm'.completed = (dm.completed \/ (dm.dmcontrol.hartsel = h /\ "go" \notin dm.flags[h]))
           /\ \A i \in Slots : dm'.hart_state[i].halted => dm.hart_state[i].halted \/ i = h
<1>1. h \in Slots /\ HartStates(dm.hart_state)
  BY SlotsAssumption DEF IsDm
<1>2. /\ dm' = [f \in DmFields |-> dm'[f]]
      /\ \A f \in DmFields \ {"hart_state", "halt_request", "completed"} : dm'[f] = dm[f]
      /\ dm'.completed = (dm.completed \/ (dm.dmcontrol.hartsel = h /\ "go" \notin dm.flags[h]))
      /\ dm'.hart_state = [dm.hart_state EXCEPT ![h] = [@ EXCEPT !.halted = TRUE]]
  BY DEF storeHalted, IsDm, DmFields
<1>3. dm'.hart_state = [i \in Slots |-> dm'.hart_state[i]]
  BY <1>1, <1>2 DEF HartStates
<1>4. ASSUME NEW i \in Slots
      PROVE  /\ dm'.hart_state[i] = [f \in HartFields |-> dm'.hart_state[i][f]]
             /\ dm'.hart_state[i].halted => dm.hart_state[i].halted \/ i = h
  <2>1. dm.hart_state[i] = [f \in HartFields |-> dm.hart_state[i][f]]
    BY <1>1 DEF HartStates
  <2>2. dm'.hart_state[i] = IF i = h THEN [dm.hart_state[i] EXCEPT !.halted = TRUE]
                            ELSE dm.hart_state[i]
    BY <1>1, <1>2 DEF HartStates
  <2> QED BY <2>1, <2>2 DEF HartFields
<1>5. IsDm(dm')
  <2>1. HartStates(dm'.hart_state)
    BY <1>3, <1>4 DEF HartStates
  <2>2. dm'.completed \in BOOLEAN
    BY <1>2
  <2>3. /\ dm'.busy = dm.busy /\ dm'.dmcontrol = dm.dmcontrol /\ dm'.flags = dm.flags
    BY <1>2 DEF DmFields
  <2> QED BY <1>2, <2>1, <2>2, <2>3 DEF IsDm
<1> QED BY <1>2, <1>4, <1>5 DEF HartKeeps, DmFields

(* The store to the going mailbox.                                          *)
LEMMA GoingStore ==
    ASSUME IsDm(dm), NEW h \in Procs, dm' = storeGoing(dm, h)
    PROVE  /\ HartKeeps
           /\ dm'.data = dm.data /\ dm'.completed = dm.completed
           /\ dm'.flags = [dm.flags EXCEPT ![h] = @ \ {"go"}]
           /\ dm'.hart_state = dm.hart_state
<1>1. /\ dm' = [f \in DmFields |-> dm'[f]]
      /\ \A f \in DmFields \ {"flags"} : dm'[f] = dm[f]
      /\ dm'.flags = [dm.flags EXCEPT ![h] = @ \ {"go"}]
  BY DEF storeGoing, IsDm, DmFields
<1>2. IsDm(dm')
  BY <1>1 DEF IsDm, DmFields
<1> QED BY <1>1, <1>2 DEF HartKeeps, DmFields

(* The store to the resuming mailbox.                                       *)
LEMMA ResumingStore ==
    ASSUME IsDm(dm), NEW h \in Procs, dm' = storeResuming(dm, h)
    PROVE  /\ HartKeeps
           /\ dm'.data = dm.data /\ dm'.completed = dm.completed
           /\ dm'.flags = [dm.flags EXCEPT ![h] = @ \ {"resume"}]
           /\ \A i \in Slots : dm'.hart_state[i].halted => dm.hart_state[i].halted /\ i # h
<1>1. h \in Slots /\ HartStates(dm.hart_state)
  BY SlotsAssumption DEF IsDm
<1>2. /\ dm' = [f \in DmFields |-> dm'[f]]
      /\ \A f \in DmFields \ {"hart_state", "flags"} : dm'[f] = dm[f]
      /\ dm'.flags = [dm.flags EXCEPT ![h] = @ \ {"resume"}]
      /\ dm'.hart_state = [dm.hart_state EXCEPT ![h].halted = FALSE, ![h].resumeack = TRUE]
  <2>1. /\ dm' = [f \in DmFields |-> dm'[f]]
        /\ \A f \in DmFields \ {"hart_state", "flags"} : dm'[f] = dm[f]
    <3> DEFINE a == [dm.hart_state EXCEPT ![h].halted = FALSE]
               b == [a EXCEPT ![h].resumeack = TRUE]
               c == [dm.flags EXCEPT ![h] = @ \ {"resume"}]
    <3>1. dm' = [dm EXCEPT !.hart_state = a, !.hart_state = b, !.flags = c]
      BY DEF storeResuming, IsDm, DmFields
    <3> HIDE DEF a, b, c
    <3> QED BY <3>1 DEF IsDm, DmFields
  <2>2. dm'.flags = [dm.flags EXCEPT ![h] = @ \ {"resume"}]
    BY DEF storeResuming, IsDm, DmFields
  <2>3. dm'.hart_state = [dm.hart_state EXCEPT ![h].halted = FALSE, ![h].resumeack = TRUE]
    BY DEF storeResuming, IsDm, DmFields
  <2> QED BY <2>1, <2>2, <2>3
<1>3. dm'.hart_state = [i \in Slots |-> dm'.hart_state[i]]
  BY <1>1, <1>2 DEF HartStates
<1>4. ASSUME NEW i \in Slots
      PROVE  /\ dm'.hart_state[i] = [f \in HartFields |-> dm'.hart_state[i][f]]
             /\ dm'.hart_state[i].halted => dm.hart_state[i].halted /\ i # h
  <2>1. dm.hart_state[i] = [f \in HartFields |-> dm.hart_state[i][f]]
    BY <1>1 DEF HartStates
  <2>2. dm'.hart_state[i] = IF i = h THEN [dm.hart_state[i] EXCEPT !.halted = FALSE,
                                                                   !.resumeack = TRUE]
                            ELSE dm.hart_state[i]
    BY <1>1, <1>2 DEF HartStates
  <2> QED BY <2>1, <2>2 DEF HartFields
<1>5. IsDm(dm')
  <2>1. HartStates(dm'.hart_state)
    BY <1>3, <1>4 DEF HartStates
  <2>2. dm'.busy = dm.busy /\ dm'.dmcontrol = dm.dmcontrol /\ dm'.completed = dm.completed
    BY <1>2 DEF DmFields
  <2>3. dm'.flags = [i \in Slots |-> dm'.flags[i]]
    BY <1>2 DEF IsDm
  <2> QED BY <1>2, <2>1, <2>2, <2>3 DEF IsDm
<1> QED BY <1>2, <1>4, <1>5 DEF HartKeeps, DmFields

(* The store to the exception mailbox, and the store of a program to data.  *)
LEMMA OtherStores ==
    ASSUME IsDm(dm), NEW x, dm' = storeException(dm) \/ dm' = [dm EXCEPT !.data = x]
    PROVE  /\ HartKeeps
           /\ dm'.completed = dm.completed /\ dm'.flags = dm.flags
           /\ dm'.hart_state = dm.hart_state
           /\ dm' = storeException(dm) => dm'.data = dm.data
           /\ dm' = [dm EXCEPT !.data = x] => dm'.data = x
<1>1. CASE dm' = storeException(dm)
  <2>1. /\ dm' = [f \in DmFields |-> dm'[f]]
        /\ \A f \in DmFields \ {"cmderr"} : dm'[f] = dm[f]
    BY <1>1 DEF storeException, IsDm, DmFields
  <2>2. IsDm(dm')
    BY <2>1 DEF IsDm, DmFields
  <2>3. dm' = [dm EXCEPT !.data = x] => dm'.data = x
    BY DEF IsDm, DmFields
  <2> QED BY <1>1, <2>1, <2>2, <2>3 DEF HartKeeps, DmFields
<1>2. CASE dm' = [dm EXCEPT !.data = x]
  <2>1. /\ dm' = [f \in DmFields |-> dm'[f]] /\ dm'.data = x
        /\ \A f \in DmFields \ {"data"} : dm'[f] = dm[f]
    BY <1>2 DEF IsDm, DmFields
  <2>2. IsDm(dm')
    BY <2>1 DEF IsDm, DmFields
  <2>3. dm' = storeException(dm) => dm'.data = dm.data
    BY DEF storeException, IsDm, DmFields
  <2> QED BY <2>1, <2>2, <2>3 DEF HartKeeps, DmFields
<1> QED BY <1>1, <1>2

\* A step of h changes no other hart.
CpuOnly(h) ==
    /\ cpu' = [i \in Procs |-> cpu'[i]]
    /\ \A i \in Procs \ {h} : cpu'[i] = cpu[i]
    /\ IsCpu(cpu'[h])

(* Moving a hart's program counter.                                         *)
LEMMA GoToCpu ==
    ASSUME TypeInv, NEW h \in Procs, NEW pc, goTo(h, pc)
    PROVE  CpuOnly(h) /\ cpu'[h].pc = pc /\ cpu'[h].r = cpu[h].r /\ cpu'[h].at = cpu[h].at
<1>1. cpu = [i \in Procs |-> cpu[i]] /\ IsCpu(cpu[h])
  BY DEF TypeInv
<1> QED BY <1>1 DEF goTo, CpuOnly, IsCpu

Moves(h, pc, p, x) == cpu' = [cpu EXCEPT ![h].pc = pc, ![h].r[p] = x]

StepsOn(h, k, p, x) == cpu' = [cpu EXCEPT ![h].at = k, ![h].r[p] = x]

(* Moving it together with a register.                                      *)
LEMMA MoveCpu ==
    ASSUME TypeInv, NEW h \in Procs, NEW pc, NEW p \in Places, NEW x, Moves(h, pc, p, x)
    PROVE  /\ CpuOnly(h) /\ cpu'[h].pc = pc /\ cpu'[h].at = cpu[h].at /\ cpu'[h].r[p] = x
           /\ \A q \in Places \ {p} : cpu'[h].r[q] = cpu[h].r[q]
<1>1. cpu = [i \in Procs |-> cpu[i]] /\ IsCpu(cpu[h])
  BY DEF TypeInv
<1> DEFINE r == [cpu[h].r EXCEPT ![p] = x]
<1>2. /\ r = [q \in Places |-> r[q]] /\ r[p] = x
      /\ \A q \in Places \ {p} : r[q] = cpu[h].r[q]
  BY <1>1 DEF IsCpu
<1>3. cpu'[h] = [cpu[h] EXCEPT !.pc = pc, !.r = r]
  BY <1>1 DEF IsCpu, Moves
<1>4. cpu' = [i \in Procs |-> cpu'[i]] /\ \A i \in Procs \ {h} : cpu'[i] = cpu[i]
  BY <1>1 DEF Moves
<1> HIDE DEF r
<1>5. IsCpu(cpu'[h]) /\ cpu'[h].pc = pc /\ cpu'[h].at = cpu[h].at /\ cpu'[h].r = r
  BY <1>1, <1>2, <1>3 DEF IsCpu
<1> QED BY <1>2, <1>4, <1>5 DEF CpuOnly

(* Moving on in the abstract program, with a register.                      *)
LEMMA StepCpu ==
    ASSUME TypeInv, NEW h \in Procs, NEW k, NEW p \in Places, NEW x, StepsOn(h, k, p, x)
    PROVE  /\ CpuOnly(h) /\ cpu'[h].pc = cpu[h].pc /\ cpu'[h].at = k /\ cpu'[h].r[p] = x
           /\ \A q \in Places \ {p} : cpu'[h].r[q] = cpu[h].r[q]
<1>1. cpu = [i \in Procs |-> cpu[i]] /\ IsCpu(cpu[h])
  BY DEF TypeInv
<1> DEFINE r == [cpu[h].r EXCEPT ![p] = x]
<1>2. /\ r = [q \in Places |-> r[q]] /\ r[p] = x
      /\ \A q \in Places \ {p} : r[q] = cpu[h].r[q]
  BY <1>1 DEF IsCpu
<1>3. cpu'[h] = [cpu[h] EXCEPT !.at = k, !.r = r]
  BY <1>1 DEF IsCpu, StepsOn
<1>4. cpu' = [i \in Procs |-> cpu'[i]] /\ \A i \in Procs \ {h} : cpu'[i] = cpu[i]
  BY <1>1 DEF StepsOn
<1> HIDE DEF r
<1>5. IsCpu(cpu'[h]) /\ cpu'[h].pc = cpu[h].pc /\ cpu'[h].at = k /\ cpu'[h].r = r
  BY <1>1, <1>2, <1>3 DEF IsCpu
<1> QED BY <1>2, <1>4, <1>5 DEF CpuOnly

(* Entering the abstract program.                                           *)
LEMMA GoingCpu ==
    ASSUME TypeInv, NEW h \in Procs, going(h)
    PROVE  /\ CpuOnly(h) /\ cpu'[h].pc = "program" /\ cpu'[h].at = 1
           /\ cpu'[h].r["s0"] = cpu[h].r["dscratch0"]
           /\ \A q \in Places \ {"s0"} : cpu'[h].r[q] = cpu[h].r[q]
<1>1. cpu = [i \in Procs |-> cpu[i]] /\ IsCpu(cpu[h]) /\ "s0" \in Places
  BY DEF TypeInv, Places, ArchRegs
<1> DEFINE x == cpu[h].r["dscratch0"]
           r == [cpu[h].r EXCEPT !["s0"] = x]
<1>2. /\ r = [q \in Places |-> r[q]] /\ r["s0"] = x
      /\ \A q \in Places \ {"s0"} : r[q] = cpu[h].r[q]
  BY <1>1 DEF IsCpu
<1> HIDE DEF x
<1>3. cpu' = [cpu EXCEPT ![h].pc = "program", ![h].at = 1, ![h].r["s0"] = x]
  BY DEF going, x
<1>4. cpu'[h] = [cpu[h] EXCEPT !.pc = "program", !.at = 1, !.r = r]
  BY <1>1, <1>3 DEF IsCpu
<1>5. cpu' = [i \in Procs |-> cpu'[i]] /\ \A i \in Procs \ {h} : cpu'[i] = cpu[i]
  BY <1>1, <1>3
<1> HIDE DEF r
<1>6. IsCpu(cpu'[h]) /\ cpu'[h].pc = "program" /\ cpu'[h].at = 1 /\ cpu'[h].r = r
  BY <1>1, <1>2, <1>4 DEF IsCpu
<1> QED BY <1>2, <1>5, <1>6 DEF CpuOnly, x

(* The scratch register and s0 change places at the doors of the ROM.       *)
LEMMA SaveCpu ==
    ASSUME TypeInv, NEW h \in Procs, saveS0(h)
    PROVE  /\ CpuOnly(h) /\ cpu'[h].pc = "halted"
           /\ cpu'[h].r["dscratch0"] = cpu[h].r["s0"]
           /\ \A q \in Places \ {"dscratch0"} : cpu'[h].r[q] = cpu[h].r[q]
<1>1. "dscratch0" \in Places /\ Moves(h, "halted", "dscratch0", cpu[h].r["s0"])
  BY DEF saveS0, Moves, Places
<1> QED BY <1>1, MoveCpu

(* While it waits in the loop the hart's s0 is its number.                  *)
LEMMA SignalCpu ==
    ASSUME TypeInv, NEW h \in Procs, signalHalted(h)
    PROVE  /\ CpuOnly(h) /\ cpu'[h].pc = "pollGo"
           /\ \A q \in Places \ {"s0"} : cpu'[h].r[q] = cpu[h].r[q]
<1>1. "s0" \in Places /\ Moves(h, "pollGo", "s0", "hartid")
  BY DEF signalHalted, Moves, Places, ArchRegs
<1> QED BY <1>1, MoveCpu

(* The exception handler and dret restore s0.                               *)
LEMMA RestoreCpu ==
    ASSUME TypeInv, NEW h \in Procs, NEW pc,
           \/ exception(h) /\ pc = "entry"
           \/ dret(h) /\ pc = "run"
    PROVE  /\ CpuOnly(h) /\ cpu'[h].pc = pc
           /\ cpu'[h].r["s0"] = cpu[h].r["dscratch0"]
           /\ \A q \in Places \ {"s0"} : cpu'[h].r[q] = cpu[h].r[q]
<1>1. "s0" \in Places /\ Moves(h, pc, "s0", cpu[h].r["dscratch0"])
  BY DEF exception, dret, Moves, Places, ArchRegs
<1> QED BY <1>1, MoveCpu

(* The next move of the abstract program changes data, or a register, or    *)
(* traps.                                                                   *)
LEMMA ExecuteCpu ==
    ASSUME TypeInv, NEW h \in Procs, executeAbstract(h)
    PROVE  /\ CpuOnly(h) /\ cpu'[h].pc \in {"program", "exception"}
           /\ \/ UNCHANGED dm
              \/ \E x : dm' = [dm EXCEPT !.data = x]
<1> DEFINE m == dm.abstract[cpu[h].at]
<1>1. cpu = [i \in Procs |-> cpu[i]] /\ IsCpu(cpu[h]) /\ cpu[h].pc = "program"
  BY DEF TypeInv, executeAbstract
<1>2. CASE traps(h, m)
  <2>1. goTo(h, "exception") /\ UNCHANGED dm
    BY <1>2 DEF executeAbstract
  <2> QED BY <2>1, GoToCpu
<1>3. CASE ~traps(h, m) /\ m.to = "data"
  <2>1. /\ dm' = [dm EXCEPT !.data = valueAt(h, m.from)]
        /\ cpu' = [cpu EXCEPT ![h].at = @ + 1]
    BY <1>3 DEF executeAbstract
  <2>2. CpuOnly(h) /\ cpu'[h].pc = "program"
    BY <1>1, <2>1 DEF CpuOnly, IsCpu
  <2> QED BY <2>1, <2>2
<1>4. CASE ~traps(h, m) /\ m.to # "data"
  <2> DEFINE x == valueAt(h, m.from)
             r == [cpu[h].r EXCEPT ![m.to] = x]
  <2>1. cpu' = [cpu EXCEPT ![h].at = @ + 1, ![h].r[m.to] = x] /\ UNCHANGED dm
    BY <1>4 DEF executeAbstract
  <2>2. r = [q \in Places |-> r[q]]
    BY <1>1 DEF IsCpu
  <2> HIDE DEF x
  <2>3. cpu'[h] = [cpu[h] EXCEPT !.at = @ + 1, !.r = r]
    BY <1>1, <2>1 DEF IsCpu
  <2>4. cpu' = [i \in Procs |-> cpu'[i]] /\ \A i \in Procs \ {h} : cpu'[i] = cpu[i]
    BY <1>1, <2>1
  <2> HIDE DEF r
  <2>5. IsCpu(cpu'[h]) /\ cpu'[h].pc = "program"
    BY <1>1, <2>2, <2>3 DEF IsCpu
  <2> QED BY <2>1, <2>4, <2>5 DEF CpuOnly
<1> QED BY <1>2, <1>3, <1>4

\* A step of hart h as the module and the other harts see it.
HartEffect(h) ==
    /\ HartKeeps /\ CpuOnly(h)
    /\ UNCHANGED <<tap, session, want>>
    /\ \A i \in Slots : dm'.hart_state[i].halted =>
           \/ dm.hart_state[i].halted /\ (i = h => cpu'[h].pc \notin {"run", "dret"}
                                                   \/ cpu[h].pc \in {"run", "dret"})
           \/ i = h /\ cpu'[h].pc \notin {"run", "dret"}
    /\ \/ dm'.flags = dm.flags
       \/ dm'.flags = [dm.flags EXCEPT ![h] = @ \ {"go"}] /\ cpu'[h].pc = "program"
       \/ dm'.flags = [dm.flags EXCEPT ![h] = @ \ {"resume"}] /\ cpu'[h].pc # "going"
    /\ \/ dm'.completed = dm.completed
       \/ /\ dm'.flags = dm.flags /\ dm.dmcontrol.hartsel = h /\ "go" \notin dm.flags[h]
          /\ cpu[h].pc = "halted" /\ cpu'[h].pc = "pollGo"
    /\ cpu'[h].pc = "going" => "go" \in dm.flags[h] /\ dm'.flags = dm.flags
    /\ cpu'[h].pc = "program" =>
           \/ cpu[h].pc = "program" /\ dm'.flags = dm.flags
           \/ cpu[h].pc = "going" /\ dm'.flags = [dm.flags EXCEPT ![h] = @ \ {"go"}]
    /\ cpu'[h].pc = "exception" => cpu[h].pc = "program" /\ dm'.flags = dm.flags
    /\ dm'.data = dm.data \/ cpu[h].pc = "program"

(* Every step of a hart has that effect.                                    *)
LEMMA HartEffects ==
    ASSUME TypeInv, NEW h \in Procs, hartStep(h)
    PROVE  HartEffect(h)
<1>1. IsDm(dm) /\ (UNCHANGED dm => HartKeeps) /\ h \in Slots
  BY SlotsAssumption DEF TypeInv, HartKeeps
<1>2. ASSUME NEW pc, goTo(h, pc), UNCHANGED <<dm, tap, session, want>>,
             pc \notin {"program", "dret", "run"},
             pc = "going" => "go" \in dm.flags[h],
             pc = "exception" => cpu[h].pc = "program"
      PROVE  HartEffect(h)
  BY <1>1, <1>2, GoToCpu DEF HartEffect
<1>3. CASE enter_debug_mode(h)
  BY <1>2, <1>3 DEF enter_debug_mode
<1>4. CASE saveS0(h)
  BY <1>1, <1>4, SaveCpu DEF HartEffect, saveS0
<1>5. CASE signalHalted(h)
  <2>1. dm' = storeHalted(dm, h) /\ UNCHANGED <<tap, session, want>> /\ cpu[h].pc = "halted"
    BY <1>5 DEF signalHalted
  <2>2. CpuOnly(h) /\ cpu'[h].pc = "pollGo"
    BY <1>5, SignalCpu
  <2>3. dm.completed \in BOOLEAN
    BY <1>1 DEF IsDm
  <2> QED BY <1>1, <2>1, <2>2, <2>3, HaltedStore DEF HartEffect
<1>6. CASE pollGo(h)
  BY <1>2, <1>6 DEF pollGo
<1>7. CASE pollResume(h)
  BY <1>2, <1>7 DEF pollResume
<1>8. CASE going(h)
  <2>1. dm' = storeGoing(dm, h) /\ UNCHANGED <<tap, session, want>> /\ cpu[h].pc = "going"
    BY <1>8 DEF going
  <2> QED BY <1>1, <1>8, <2>1, GoingCpu, GoingStore DEF HartEffect
<1>9. CASE executeAbstract(h)
  <2>1. UNCHANGED <<tap, session, want>> /\ cpu[h].pc = "program"
    BY <1>9 DEF executeAbstract
  <2>2. /\ HartKeeps /\ dm'.completed = dm.completed /\ dm'.flags = dm.flags
        /\ dm'.hart_state = dm.hart_state
    BY <1>1, <1>9, ExecuteCpu, OtherStores
  <2> QED BY <1>9, <2>1, <2>2, ExecuteCpu DEF HartEffect
<1>10. CASE endAbstract(h)
  <2>1. cpu[h].pc = "program"
    BY <1>10 DEF endAbstract
  <2> QED BY <1>2, <1>10, <2>1 DEF endAbstract
<1>11. CASE exception(h)
  <2>1. dm' = storeException(dm) /\ UNCHANGED <<tap, session, want>> /\ cpu[h].pc = "exception"
    BY <1>11 DEF exception
  <2>2. CpuOnly(h) /\ cpu'[h].pc = "entry"
    BY <1>11, RestoreCpu
  <2>3. /\ HartKeeps /\ dm'.completed = dm.completed /\ dm'.flags = dm.flags
        /\ dm'.hart_state = dm.hart_state /\ dm'.data = dm.data
    BY <1>1, <2>1, OtherStores
  <2> QED BY <2>1, <2>2, <2>3 DEF HartEffect
<1>12. CASE resume(h)
  <2>1. /\ dm' = storeResuming(dm, h) /\ UNCHANGED <<tap, session, want>> /\ cpu[h].pc = "resume"
        /\ goTo(h, "dret")
    BY <1>12 DEF resume
  <2> QED BY <1>1, <2>1, GoToCpu, ResumingStore DEF HartEffect
<1>13. CASE dret(h)
  <2>1. UNCHANGED <<dm, tap, session, want>> /\ cpu[h].pc = "dret"
    BY <1>13 DEF dret
  <2>2. CpuOnly(h) /\ cpu'[h].pc = "run"
    BY <1>13, RestoreCpu
  <2> QED BY <1>1, <2>1, <2>2 DEF HartEffect
<1> QED BY <1>3, <1>4, <1>5, <1>6, <1>7, <1>8, <1>9, <1>10, <1>11, <1>12, <1>13 DEF hartStep

(* The types hold.                                                          *)
LEMMA TypeNext == TypeInv /\ [Next]_vars => TypeInv'
<1>1. ASSUME TypeInv, NEW h \in Procs, hartStep(h) PROVE TypeInv'
  <2>1. HartEffect(h)
    BY <1>1, HartEffects
  <2> QED BY <1>1, <2>1 DEF TypeInv, HartEffect, HartKeeps, CpuOnly, offered, asked, commandsOf
<1>2. ASSUME TypeInv, Debugger PROVE TypeInv'
  <2>1. /\ QuietAccess \/ StartAccess \/ ControlAccess
        /\ IsDm(dm') /\ AskedOnly(dm') /\ session' = session
        /\ tap' = [f \in TapFields |-> tap'[f]] /\ offered(tap'.dmi)
    BY <1>2, DebuggerEffect
  <2>2. /\ session' \in Sessions /\ offered(tap.dmi)' /\ (dm.command \in commandsOf)'
        /\ (dm.progbuf = "fault" => \E q \in asked("progbuf0") : q.val = "fault")'
    <3>1. session' \in Sessions /\ offered(tap.dmi)'
      BY <1>2, <2>1 DEF TypeInv, offered
    <3>2. /\ (dm.command \in commandsOf)'
          /\ (dm.progbuf = "fault" => \E q \in asked("progbuf0") : q.val = "fault")'
      BY <2>1 DEF AskedOnly, asked, commandsOf
    <3> QED BY <3>1, <3>2
  <2>3. /\ cpu' = [h \in Procs |-> cpu'[h]] /\ \A h \in Procs : IsCpu(cpu'[h])
        /\ want' = [h \in Procs |-> want'[h]]
        /\ \A h \in Procs : want'[h] = [p \in ArchRegs |-> want'[h][p]]
    <3>1. CASE QuietAccess
      BY <1>2, <3>1 DEF QuietAccess, TypeInv
    <3>2. CASE StartAccess
      <4>1. PICK t : want' = noteCommand(t) /\ UNCHANGED cpu
        BY <3>2 DEF StartAccess
      <4> QED BY <1>2, <4>1, ZenonT(60) DEF noteCommand, TypeInv
    <3>3. CASE ControlAccess
      <4> DEFINE new == [pc |-> "run", at |-> 1, r |-> ResetRegs]
      <4>1. PICK R : /\ cpu' = [h \in Procs |-> IF h \in R THEN new ELSE cpu[h]]
                     /\ want' = [h \in Procs |-> IF h \in R THEN archOf(ResetRegs) ELSE want[h]]
        BY <3>3 DEF ControlAccess
      <4>2. IsCpu(new)
        BY DEF IsCpu, ResetRegs
      <4>3. archOf(ResetRegs) = [p \in ArchRegs |-> archOf(ResetRegs)[p]]
        BY DEF archOf
      <4> HIDE DEF new
      <4> QED BY <1>2, <4>1, <4>2, <4>3 DEF TypeInv
    <3> QED BY <2>1, <3>1, <3>2, <3>3
  <2> QED BY <2>1, <2>2, <2>3 DEF TypeInv
<1>3. ASSUME TypeInv, UNCHANGED vars PROVE TypeInv'
  BY <1>3 DEF TypeInv, vars, offered, asked, commandsOf
<1> QED BY <1>1, <1>2, <1>3 DEF Next, stopped

(* The types hold at the start.                                             *)
LEMMA TypeInit == Init => TypeInv
<1> SUFFICES ASSUME Init PROVE TypeInv
  OBVIOUS
<1>1. 0 \in Procs /\ 0 \in Slots
  BY nprocsAssumption, SlotsAssumption DEF Procs
<1>2. PICK c \in BOOLEAN : dm = New(quick, c, 0, someVal, 0)
  BY DEF Init, quick
<1>3. /\ dm = [f \in DmFields |-> dm[f]]
      /\ dm.busy = FALSE /\ dm.completed = c /\ dm.dmcontrol = resetControl
      /\ dm.command = quick /\ dm.progbuf = "nop" /\ dm.flags = [i \in Slots |-> {}]
      /\ dm.hart_state = [i \in Slots |-> [halted |-> FALSE, resumeack |-> FALSE,
                                           havereset |-> FALSE, haltgroup |-> 0]]
  <2> DEFINE hart == [halted |-> FALSE, resumeack |-> FALSE, havereset |-> FALSE, haltgroup |-> 0]
             H == [i \in Slots |-> hart]
             F == [i \in Slots |-> {}]
             Q == [p \in Procs |-> "none"]
             n == [dmcontrol |-> resetControl, authenticated |-> TRUE, challenge |-> 0,
                   busy |-> FALSE, cmderr |-> NONE, autoexecdata |-> FALSE,
                   autoexecprogbuf |-> FALSE, command |-> quick, completed |-> c,
                   rti_remaining |-> 0, hart_array_mask |-> {}, hawindowsel |-> 0,
                   data |-> someVal, progbuf |-> "nop", abstract |-> <<>>, custom |-> someVal,
                   hart_state |-> H, flags |-> F, halt_request |-> Q,
                   sbcs |-> resetSbcs, sbaddress |-> <<0, 0, 0, 0>>,
                   sbdata |-> <<someVal, someVal>>, ended |-> FALSE]
  <2>1. dm = reset(n, 0)
    BY <1>2 DEF New
  <2> HIDE DEF H, F, Q
  <2>2. /\ n = [f \in DmFields |-> n[f]] /\ n.completed = c
        /\ n.command = quick /\ n.progbuf = "nop" /\ n.hart_state = H /\ n.flags = F
    BY DEF DmFields
  <2> HIDE DEF n
  <2>3. /\ dm = [f \in DmFields |-> dm[f]] /\ dm.completed = c
        /\ dm.busy = FALSE /\ dm.dmcontrol = resetControl
        /\ dm.command = quick /\ dm.progbuf = "nop" /\ dm.hart_state = H /\ dm.flags = F
    BY <2>1, <2>2, ZenonT(60) DEF reset, DmFields
  <2> QED BY <2>3 DEF H, F
<1>4. IsDm(dm)
  <2>1. HartStates(dm.hart_state)
    BY <1>3 DEF HartStates, HartFields
  <2>2. dm.dmcontrol = [f \in ControlFields |-> dm.dmcontrol[f]] /\ dm.dmcontrol.hartsel \in Slots
    BY <1>1, <1>3 DEF resetControl, ControlFields
  <2> QED BY <1>3, <2>1, <2>2 DEF IsDm
<1>5. cpu = [h \in Procs |-> cpu[h]] /\ \A h \in Procs : IsCpu(cpu[h])
  BY DEF Init, IsCpu, ResetRegs
<1>6. want = [h \in Procs |-> want[h]] /\ \A h \in Procs : want[h] = [p \in ArchRegs |-> want[h][p]]
  BY DEF Init, archOf
<1>7. tap = [f \in TapFields |-> tap[f]] /\ tap.dmi = Nop
  BY DEF Init, TapFields
<1>8. offered(tap.dmi)
  BY <1>7 DEF offered, Nop
<1>9. session \in Sessions /\ dm.command \in commandsOf
  BY <1>3 DEF Init, commandsOf
<1> QED BY <1>3, <1>4, <1>5, <1>6, <1>7, <1>8, <1>9 DEF TypeInv

(* Nothing is halted and nothing executes at the start.                     *)
LEMMA HaltInit == Init => HaltInv /\ GoInv
<1> SUFFICES ASSUME Init PROVE HaltInv /\ GoInv
  OBVIOUS
<1>1. PICK c \in BOOLEAN : dm = New(quick, c, 0, someVal, 0)
  BY DEF Init, quick
<1>2. /\ dm.flags = [i \in Slots |-> {}] /\ dm.busy = FALSE
      /\ dm.hart_state = [i \in Slots |-> [halted |-> FALSE, resumeack |-> FALSE,
                                           havereset |-> FALSE, haltgroup |-> 0]]
  BY <1>1 DEF New, reset
<1>3. \A h \in Procs : cpu[h].pc = "run"
  BY DEF Init
<1> QED BY <1>2, <1>3 DEF HaltInv, GoInv

-----------------------------------------------------------------------------
(* The flags, the places of the harts and what the module reports *)

(* A hart that is reported halted stays in the ROM until it is reported     *)
(* resumed, or until a reset that is reported too.                          *)
LEMMA HaltNext == TypeInv /\ HaltInv /\ [Next]_vars => HaltInv'
<1>1. ASSUME TypeInv, HaltInv, NEW h \in Procs, hartStep(h) PROVE HaltInv'
  <2>1. HartEffect(h)
    BY <1>1, HartEffects
  <2> QED BY <1>1, <2>1 DEF HaltInv, HartEffect, CpuOnly
<1>2. ASSUME TypeInv, HaltInv, Debugger PROVE HaltInv'
  <2>1. QuietAccess \/ StartAccess \/ ControlAccess
    BY <1>2, DebuggerEffect
  <2>2. ASSUME NEW t, Idles(t, dm') PROVE dm'.hart_state = t.hart_state
    BY <2>2 DEF Idles, DmFields
  <2>3. CASE QuietAccess
    BY <1>2, <2>2, <2>3 DEF QuietAccess, Quiet, HaltInv
  <2>4. CASE StartAccess
    BY <1>2, <2>2, <2>4 DEF StartAccess, Starts, HaltInv
  <2>5. CASE ControlAccess
    BY <1>2, <2>2, <2>5 DEF ControlAccess, Controls, HaltInv
  <2> QED BY <2>1, <2>3, <2>4, <2>5
<1>3. ASSUME HaltInv, UNCHANGED vars PROVE HaltInv'
  BY <1>3 DEF HaltInv, vars
<1> QED BY <1>1, <1>2, <1>3 DEF Next, stopped

(* A hart that executes, or is about to, keeps its command pending.         *)
LEMMA GoNext == TypeInv /\ HaltInv /\ GoInv /\ [Next]_vars => GoInv'
<1>1. ASSUME TypeInv, GoInv, NEW h \in Procs, hartStep(h) PROVE GoInv'
  <2>1. HartEffect(h) /\ h \in Slots /\ dm.flags = [i \in Slots |-> dm.flags[i]]
    BY <1>1, HartEffects, SlotsAssumption DEF TypeInv, IsDm
  <2>2. dm'.busy = dm.busy /\ dm'.dmcontrol = dm.dmcontrol
    BY <2>1 DEF HartEffect, HartKeeps
  <2>3. \A i \in Slots : "go" \in dm'.flags[i] => "go" \in dm.flags[i]
    BY <2>1 DEF HartEffect
  <2>4. \A i \in Slots \ {h} : dm'.flags[i] = dm.flags[i]
    BY <2>1 DEF HartEffect
  <2>5. \A i \in Slots : "go" \in dm'.flags[i] => i \in Procs /\ pending(i)' /\ ~dm'.completed
    BY <1>1, <2>1, <2>2, <2>3 DEF GoInv, HartEffect, pending
  <2>6. ASSUME NEW i \in Procs, i # h
        PROVE  /\ cpu'[i].pc = "going" => "go" \in dm'.flags[i]
               /\ cpu'[i].pc \in {"program", "exception"} =>
                      pending(i)' /\ ~dm'.completed /\ "go" \notin dm'.flags[i]
    <3>1. cpu'[i] = cpu[i] /\ dm'.flags[i] = dm.flags[i]
      BY <2>1, <2>4, <2>6, SlotsAssumption DEF HartEffect, CpuOnly
    <3>2. pending(i) => dm'.completed = dm.completed \/ cpu[i].pc \notin {"program", "exception"}
      BY <1>1, <2>1, <2>6 DEF HartEffect, GoInv, pending
    <3> QED BY <1>1, <2>2, <3>1, <3>2 DEF GoInv, pending
  <2>7. /\ cpu'[h].pc = "going" => "go" \in dm'.flags[h]
        /\ cpu'[h].pc \in {"program", "exception"} =>
               pending(h)' /\ ~dm'.completed /\ "go" \notin dm'.flags[h]
    <3>1. cpu'[h].pc = "going" => "go" \in dm'.flags[h]
      BY <2>1 DEF HartEffect
    <3>2. ASSUME cpu'[h].pc \in {"program", "exception"}
          PROVE  pending(h)' /\ ~dm'.completed /\ "go" \notin dm'.flags[h]
      <4>1. dm'.completed = dm.completed
        BY <2>1, <3>2 DEF HartEffect
      <4>2. CASE cpu[h].pc = "program" /\ dm'.flags = dm.flags
        BY <1>1, <2>2, <4>1, <4>2 DEF GoInv, pending
      <4>3. CASE cpu[h].pc = "going" /\ dm'.flags = [dm.flags EXCEPT ![h] = @ \ {"go"}]
        BY <1>1, <2>1, <2>2, <4>1, <4>3 DEF GoInv, pending
      <4> QED BY <2>1, <3>2, <4>2, <4>3 DEF HartEffect
    <3> QED BY <3>1, <3>2
  <2> QED BY <1>1, <2>2, <2>5, <2>6, <2>7 DEF GoInv
<1>2. ASSUME TypeInv, HaltInv, GoInv, Debugger PROVE GoInv'
  <2>1. QuietAccess \/ StartAccess \/ ControlAccess
    BY <1>2, DebuggerEffect
  <2>2. ASSUME NEW t, Idles(t, dm')
        PROVE  /\ dm'.flags = t.flags /\ dm'.completed = t.completed
               /\ dm'.dmcontrol = t.dmcontrol /\ (t.busy /\ ~t.completed => dm'.busy)
               /\ dm'.busy => t.busy
    BY <2>2 DEF Idles, DmFields
  <2>3. CASE QuietAccess
    BY <1>2, <2>2, <2>3 DEF QuietAccess, Quiet, GoInv, pending
  <2>4. CASE StartAccess
    <3> DEFINE h == dm.dmcontrol.hartsel
    <3>1. PICK t : Starts(dm, t) /\ Idles(t, dm') /\ UNCHANGED cpu
      BY <2>4 DEF StartAccess
    <3>2. h \in Procs /\ h \in Slots /\ dm.flags = [i \in Slots |-> dm.flags[i]]
      BY <1>2, <3>1 DEF Starts, HaltInv, TypeInv, IsDm
    <3>3. /\ dm'.busy /\ dm'.dmcontrol.hartsel = h /\ ~dm'.completed
          /\ dm'.flags = [dm.flags EXCEPT ![h] = @ \cup {"go"}]
      BY <2>2, <3>1 DEF Starts
    <3>4. /\ \A i \in Slots : "go" \notin dm.flags[i]
          /\ \A i \in Procs : cpu'[i].pc \notin {"going", "program", "exception"}
      BY <1>2, <3>1, SlotsAssumption DEF GoInv, Starts, pending
    <3> HIDE DEF h
    <3>5. \A i \in Slots : "go" \in dm'.flags[i] => i = h
      BY <3>2, <3>3, <3>4
    <3> QED BY <3>2, <3>3, <3>4, <3>5 DEF GoInv, pending
  <2>5. CASE ControlAccess
    <3>1. PICK t, R : /\ dm.busy = FALSE /\ Controls(dm, t, R) /\ Idles(t, dm')
              /\ cpu' = [h \in Procs |-> IF h \in R THEN [pc |-> "run", at |-> 1, r |-> ResetRegs]
                                         ELSE cpu[h]]
      BY <2>5 DEF ControlAccess
    <3>2. /\ dm'.busy = FALSE /\ \A i \in Slots : "go" \notin dm'.flags[i]
          /\ \A i \in Procs : cpu[i].pc \notin {"going", "program", "exception"}
      BY <1>2, <2>2, <3>1, SlotsAssumption DEF GoInv, Controls, pending, Idles
    <3>3. \A i \in Procs : cpu'[i].pc \notin {"going", "program", "exception"}
      BY <3>1, <3>2
    <3> QED BY <3>2, <3>3 DEF GoInv
  <2> QED BY <2>1, <2>3, <2>4, <2>5
<1>3. ASSUME GoInv, UNCHANGED vars PROVE GoInv'
  BY <1>3 DEF GoInv, vars, pending
<1> QED BY <1>1, <1>2, <1>3 DEF Next, stopped

(* The inductive invariant of the reports and the flags.                    *)
LEMMA FlagsInvariant == Spec => [](TypeInv /\ HaltInv /\ GoInv)
<1>1. TypeInv /\ HaltInv /\ GoInv /\ [Next]_vars => (TypeInv /\ HaltInv /\ GoInv)'
  BY TypeNext, HaltNext, GoNext
<1> QED BY <1>1, TypeInit, HaltInit, PTL DEF Spec

(* A hart that the module reports as halted is executing the debug ROM:     *)
(* dmstatus never claims a halt for a hart that runs, whatever the order    *)
(* of halt requests, resumes, group halts, resets and lost accesses.        *)
THEOREM HaltedIsTrue == Spec => []HaltedTruth
<1>1. HaltInv => HaltedTruth
  BY SlotsAssumption DEF HaltInv, HaltedTruth
<1> QED BY <1>1, FlagsInvariant, PTL

-----------------------------------------------------------------------------
(* The abstract programs, move by move *)

lastMove(c) == Move("pc", IF c.postexec THEN "progbuf" ELSE "ebreak")

\* The moves that carry the value of a control and status register by way of s0.
toS0(c) == IF c.write THEN Move("s0", "data") ELSE Move("s0", c.regno)

fromS0(c) == IF c.write THEN Move(c.regno, "s0") ELSE Move("data", "s0")

direct(c) == IF c.write THEN Move(c.regno, "data") ELSE Move("data", c.regno)

(* A program of five moves.                                                 *)
LEMMA FiveMoves ==
    ASSUME NEW a, NEW b, NEW c, NEW d, NEW e
    PROVE  LET P == (<<a>> \o <<b, c>> \o <<d>>) \o <<e>>
           IN  Len(P) = 5 /\ P[1] = a /\ P[2] = b /\ P[3] = c /\ P[4] = d /\ P[5] = e
OBVIOUS

(* A program of ten moves.                                                  *)
LEMMA TenMoves ==
    ASSUME NEW a, NEW b, NEW c, NEW d, NEW e, NEW x, NEW f, NEW g, NEW h, NEW i
    PROVE  LET P == (<<a, b, c, d, e>> \o <<x>> \o <<f, g, h>>) \o <<i>>
           IN  /\ Len(P) = 10 /\ P[1] = a /\ P[2] = b /\ P[3] = c /\ P[4] = d /\ P[5] = e
               /\ P[6] = x /\ P[7] = f /\ P[8] = g /\ P[9] = h /\ P[10] = i
OBVIOUS

(* A program of eleven moves.                                               *)
LEMMA ElevenMoves ==
    ASSUME NEW a, NEW b, NEW c, NEW d, NEW e, NEW x, NEW y, NEW f, NEW g, NEW h, NEW i
    PROVE  LET P == (<<a, b, c, d, e>> \o <<x, y>> \o <<f, g, h>>) \o <<i>>
           IN  /\ Len(P) = 11 /\ P[1] = a /\ P[2] = b /\ P[3] = c /\ P[4] = d /\ P[5] = e
               /\ P[6] = x /\ P[7] = y /\ P[8] = f /\ P[9] = g /\ P[10] = h /\ P[11] = i
OBVIOUS

(* A command that only executes.                                            *)
LEMMA EmptyProgram ==
    ASSUME NEW c, ~c.transfer
    PROVE  Len(commandProgram(c)) = 1 /\ commandProgram(c)[1] = lastMove(c)
BY DEF commandProgram, lastMove

(* An integer register is moved directly.                                   *)
LEMMA IntegerProgram ==
    ASSUME NEW c, c.transfer, c.regno \notin CsrRegs, ~is_fpu_reg(c.regno)
    PROVE  LET P == commandProgram(c)
           IN  Len(P) = 2 /\ P[1] = direct(c) /\ P[2] = lastMove(c)
<1>1. commandProgram(c) = << direct(c) >> \o << lastMove(c) >>
  BY DEF commandProgram, transferProgram, regTransfer, direct, lastMove
<1> QED BY <1>1

(* A control and status register is moved by way of s0, which is saved.     *)
LEMMA CsrProgram ==
    ASSUME NEW c, c.transfer, c.regno \in CsrRegs, ~is_fpu_reg(c.regno)
    PROVE  LET P == commandProgram(c)
           IN  /\ Len(P) = 5 /\ P[1] = Move("dscratch0", "s0") /\ P[2] = toS0(c)
               /\ P[3] = fromS0(c) /\ P[4] = Move("s0", "dscratch0") /\ P[5] = lastMove(c)
<1>1. commandProgram(c) = (<< Move("dscratch0", "s0") >> \o << toS0(c), fromS0(c) >>
                              \o << Move("s0", "dscratch0") >>) \o << lastMove(c) >>
  BY DEF commandProgram, transferProgram, csrTransfer, toS0, fromS0, lastMove
<1> QED BY <1>1, FiveMoves

(* The floating-point unit is switched on around the transfer of one of its *)
(* registers, directly for the thirty-two ...                               *)
LEMMA FprProgram ==
    ASSUME NEW c, c.transfer, c.regno = "fpr"
    PROVE  LET P == commandProgram(c)
           IN  /\ Len(P) = 10
               /\ P[1] = Move("dscratch0", "s0") /\ P[2] = Move("s0", "mstatus")
               /\ P[3] = Move("dscratch1", "s0") /\ P[4] = Move("s0", "FS")
               /\ P[5] = Move("mstatus", "s0") /\ P[6] = direct(c)
               /\ P[7] = Move("s0", "dscratch1") /\ P[8] = Move("mstatus", "s0")
               /\ P[9] = Move("s0", "dscratch0") /\ P[10] = lastMove(c)
<1>1. commandProgram(c) = (fpuPrologue \o << direct(c) >> \o fpuEpilogue) \o << lastMove(c) >>
  BY DEF commandProgram, transferProgram, regTransfer, direct, lastMove, is_fpu_reg, CsrRegs
<1> QED BY <1>1, TenMoves DEF fpuPrologue, fpuEpilogue

(* ... and by way of s0 for its control and status register.                *)
LEMMA FcsrProgram ==
    ASSUME NEW c, c.transfer, c.regno = "fcsr"
    PROVE  LET P == commandProgram(c)
           IN  /\ Len(P) = 11
               /\ P[1] = Move("dscratch0", "s0") /\ P[2] = Move("s0", "mstatus")
               /\ P[3] = Move("dscratch1", "s0") /\ P[4] = Move("s0", "FS")
               /\ P[5] = Move("mstatus", "s0") /\ P[6] = toS0(c) /\ P[7] = fromS0(c)
               /\ P[8] = Move("s0", "dscratch1") /\ P[9] = Move("mstatus", "s0")
               /\ P[10] = Move("s0", "dscratch0") /\ P[11] = lastMove(c)
<1>1. commandProgram(c) = (fpuPrologue \o << toS0(c), fromS0(c) >> \o fpuEpilogue)
                              \o << lastMove(c) >>
  BY DEF commandProgram, transferProgram, csrTransfer, toS0, fromS0, lastMove, is_fpu_reg, CsrRegs
<1> QED BY <1>1, ElevenMoves DEF fpuPrologue, fpuEpilogue

-----------------------------------------------------------------------------
(* What the moves do to the registers *)

\* A move takes registers r and data d to r2 and d2.
Performs(m, r, d, r2, d2) ==
    LET v == IF m.from = "data" THEN d ELSE IF m.from = "FS" THEN "on" ELSE r[m.from]
    IN  /\ m.to = "data" => d2 = v /\ r2 = r
        /\ m.to # "data" => /\ d2 = d /\ r2[m.to] = v
                            /\ \A q \in Places \ {m.to} : r2[q] = r[q]

(* A move from register to register.                                        *)
LEMMA RegisterMove ==
    ASSUME NEW a \in Places, NEW b \in Places, NEW r, NEW d, NEW r2, NEW d2,
           Performs(Move(a, b), r, d, r2, d2)
    PROVE  d2 = d /\ r2[a] = r[b] /\ \A q \in Places \ {a} : r2[q] = r[q]
BY DEF Performs, Move, Places, ArchRegs

(* A transfer of an integer register, s0 itself among them.                 *)
LEMMA IntegerMoves ==
    ASSUME NEW c, c.transfer, c.regno \in {"s0", "gpr"},
           NEW k, NEW r, NEW w, NEW d, Executing(c, k, r, w, d), k < 2,
           NEW r2, NEW d2, Performs(commandProgram(c)[k], r, d, r2, d2)
    PROVE  Executing(c, k + 1, r2, w, d2)
<1>1. lengthOf(c) = 2 /\ moveOf(c) = 1 /\ ~is_fpu_reg(c.regno) /\ c.regno \notin CsrRegs
  BY DEF lengthOf, moveOf, is_fpu_reg, CsrRegs
<1>2. k = 1
  BY <1>1 DEF Executing
<1>3. commandProgram(c)[k] = direct(c)
  BY <1>1, <1>2, IntegerProgram
<1>4. /\ c.write => r2[c.regno] = d /\ d2 = d /\ \A q \in Places \ {c.regno} : r2[q] = r[q]
      /\ ~c.write => d2 = r[c.regno] /\ r2 = r
  BY <1>3 DEF Performs, direct, Move
<1>5. CASE c.regno = "gpr"
  BY <1>1, <1>2, <1>4, <1>5 DEF Executing, writes, ArchRegs, Places
<1>6. CASE c.regno = "s0"
  BY <1>1, <1>2, <1>4, <1>6 DEF Executing, writes, ArchRegs, Places
<1> QED BY <1>5, <1>6

(* A transfer of a control and status register.                             *)
LEMMA CsrMoves ==
    ASSUME NEW c, c.transfer, c.regno \in {"csr", "nocsr"},
           NEW k, NEW r, NEW w, NEW d, Executing(c, k, r, w, d), k < 5,
           NEW r2, NEW d2, Performs(commandProgram(c)[k], r, d, r2, d2)
    PROVE  Executing(c, k + 1, r2, w, d2)
<1>1. lengthOf(c) = 5 /\ moveOf(c) = 3 /\ ~is_fpu_reg(c.regno) /\ c.regno \in CsrRegs
      /\ c.regno \notin {"s0", "mstatus", "gpr", "fpr", "fcsr", "data", "FS"}
  BY DEF lengthOf, moveOf, is_fpu_reg, CsrRegs
<1>2. k \in 1 .. 4
  BY <1>1 DEF Executing
<1>3. CASE k = 1
  <2>1. commandProgram(c)[k] = Move("dscratch0", "s0") /\ {"dscratch0", "s0"} \subseteq Places
    BY <1>3, <1>1, CsrProgram DEF Places, ArchRegs
  <2>2. d2 = d /\ r2["dscratch0"] = r["s0"] /\ \A q \in Places \ {"dscratch0"} : r2[q] = r[q]
    BY <2>1, RegisterMove
  <2> QED BY <1>1, <1>3, <2>2 DEF Executing, writes, ArchRegs, Places
<1>4. CASE k = 2
  <2>1. commandProgram(c)[k] = toS0(c)
    BY <1>4, <1>1, CsrProgram
  <2>2. /\ r2["s0"] = IF c.write THEN d ELSE r[c.regno]
        /\ d2 = d /\ \A q \in Places \ {"s0"} : r2[q] = r[q]
    BY <1>1, <2>1 DEF Performs, toS0, Move
  <2> QED BY <1>1, <1>4, <2>2 DEF Executing, writes, ArchRegs, Places
<1>5. CASE k = 3
  <2>1. commandProgram(c)[k] = fromS0(c)
    BY <1>5, <1>1, CsrProgram
  <2>2. /\ c.write => r2[c.regno] = r["s0"] /\ d2 = d /\ \A q \in Places \ {c.regno} : r2[q] = r[q]
        /\ ~c.write => d2 = r["s0"] /\ r2 = r
    BY <1>1, <2>1 DEF Performs, fromS0, Move
  <2> QED BY <1>1, <1>5, <2>2 DEF Executing, writes, ArchRegs, Places
<1>6. CASE k = 4
  <2>1. commandProgram(c)[k] = Move("s0", "dscratch0") /\ {"s0", "dscratch0"} \subseteq Places
    BY <1>6, <1>1, CsrProgram DEF Places, ArchRegs
  <2>2. d2 = d /\ r2["s0"] = r["dscratch0"] /\ \A q \in Places \ {"s0"} : r2[q] = r[q]
    BY <2>1, RegisterMove
  <2> QED BY <1>1, <1>6, <2>2 DEF Executing, writes, ArchRegs, Places
<1> QED BY <1>2, <1>3, <1>4, <1>5, <1>6

(* A transfer of a floating-point register: mstatus is changed and restored. *)
LEMMA FprMoves ==
    ASSUME NEW c, c.transfer, c.regno = "fpr",
           NEW k, NEW r, NEW w, NEW d, Executing(c, k, r, w, d), k < 10,
           NEW r2, NEW d2, Performs(commandProgram(c)[k], r, d, r2, d2)
    PROVE  Executing(c, k + 1, r2, w, d2)
<1>1. lengthOf(c) = 10 /\ moveOf(c) = 6 /\ is_fpu_reg(c.regno)
      /\ c.regno \notin {"s0", "mstatus", "gpr", "fcsr", "csr", "data", "FS"}
  BY DEF lengthOf, moveOf, is_fpu_reg, CsrRegs
<1>2. k \in 1 .. 9
  BY <1>1 DEF Executing
<1>3. CASE k = 1
  <2>1. commandProgram(c)[k] = Move("dscratch0", "s0") /\ {"dscratch0", "s0"} \subseteq Places
    BY <1>3, <1>1, FprProgram DEF Places, ArchRegs
  <2>2. d2 = d /\ r2["dscratch0"] = r["s0"] /\ \A q \in Places \ {"dscratch0"} : r2[q] = r[q]
    BY <2>1, RegisterMove
  <2> QED BY <1>1, <1>3, <2>2 DEF Executing, writes, ArchRegs, Places
<1>4. CASE k = 2
  <2>1. commandProgram(c)[k] = Move("s0", "mstatus") /\ {"s0", "mstatus"} \subseteq Places
    BY <1>4, <1>1, FprProgram DEF Places, ArchRegs
  <2>2. d2 = d /\ r2["s0"] = r["mstatus"] /\ \A q \in Places \ {"s0"} : r2[q] = r[q]
    BY <2>1, RegisterMove
  <2> QED BY <1>1, <1>4, <2>2 DEF Executing, writes, ArchRegs, Places
<1>5. CASE k = 3
  <2>1. commandProgram(c)[k] = Move("dscratch1", "s0") /\ {"dscratch1", "s0"} \subseteq Places
    BY <1>5, <1>1, FprProgram DEF Places, ArchRegs
  <2>2. d2 = d /\ r2["dscratch1"] = r["s0"] /\ \A q \in Places \ {"dscratch1"} : r2[q] = r[q]
    BY <2>1, RegisterMove
  <2> QED BY <1>1, <1>5, <2>2 DEF Executing, writes, ArchRegs, Places
<1>6. CASE k = 4
  <2>1. commandProgram(c)[k] = Move("s0", "FS")
    BY <1>6, <1>1, FprProgram
  <2>2. r2["s0"] = "on" /\ d2 = d /\ \A q \in Places \ {"s0"} : r2[q] = r[q]
    BY <2>1 DEF Performs, Move
  <2> QED BY <1>1, <1>6, <2>2 DEF Executing, writes, ArchRegs, Places
<1>7. CASE k = 5
  <2>1. commandProgram(c)[k] = Move("mstatus", "s0") /\ {"mstatus", "s0"} \subseteq Places
    BY <1>7, <1>1, FprProgram DEF Places, ArchRegs
  <2>2. d2 = d /\ r2["mstatus"] = r["s0"] /\ \A q \in Places \ {"mstatus"} : r2[q] = r[q]
    BY <2>1, RegisterMove
  <2> QED BY <1>1, <1>7, <2>2 DEF Executing, writes, ArchRegs, Places
<1>8. CASE k = 6
  <2>1. commandProgram(c)[k] = direct(c)
    BY <1>8, <1>1, FprProgram
  <2>2. /\ c.write => r2[c.regno] = d /\ d2 = d /\ \A q \in Places \ {c.regno} : r2[q] = r[q]
        /\ ~c.write => d2 = r[c.regno] /\ r2 = r
    BY <1>1, <2>1 DEF Performs, direct, Move
  <2> QED BY <1>1, <1>8, <2>2 DEF Executing, writes, ArchRegs, Places
<1>9. CASE k = 7
  <2>1. commandProgram(c)[k] = Move("s0", "dscratch1") /\ {"s0", "dscratch1"} \subseteq Places
    BY <1>9, <1>1, FprProgram DEF Places, ArchRegs
  <2>2. d2 = d /\ r2["s0"] = r["dscratch1"] /\ \A q \in Places \ {"s0"} : r2[q] = r[q]
    BY <2>1, RegisterMove
  <2> QED BY <1>1, <1>9, <2>2 DEF Executing, writes, ArchRegs, Places
<1>10. CASE k = 8
  <2>1. commandProgram(c)[k] = Move("mstatus", "s0") /\ {"mstatus", "s0"} \subseteq Places
    BY <1>10, <1>1, FprProgram DEF Places, ArchRegs
  <2>2. d2 = d /\ r2["mstatus"] = r["s0"] /\ \A q \in Places \ {"mstatus"} : r2[q] = r[q]
    BY <2>1, RegisterMove
  <2> QED BY <1>1, <1>10, <2>2 DEF Executing, writes, ArchRegs, Places
<1>11. CASE k = 9
  <2>1. commandProgram(c)[k] = Move("s0", "dscratch0") /\ {"s0", "dscratch0"} \subseteq Places
    BY <1>11, <1>1, FprProgram DEF Places, ArchRegs
  <2>2. d2 = d /\ r2["s0"] = r["dscratch0"] /\ \A q \in Places \ {"s0"} : r2[q] = r[q]
    BY <2>1, RegisterMove
  <2> QED BY <1>1, <1>11, <2>2 DEF Executing, writes, ArchRegs, Places
<1> QED BY <1>2, <1>3, <1>4, <1>5, <1>6, <1>7, <1>8, <1>9, <1>10, <1>11

(* A transfer of fcsr.                                                      *)
LEMMA FcsrMoves ==
    ASSUME NEW c, c.transfer, c.regno = "fcsr",
           NEW k, NEW r, NEW w, NEW d, Executing(c, k, r, w, d), k < 11,
           NEW r2, NEW d2, Performs(commandProgram(c)[k], r, d, r2, d2)
    PROVE  Executing(c, k + 1, r2, w, d2)
<1>1. lengthOf(c) = 11 /\ moveOf(c) = 7 /\ is_fpu_reg(c.regno)
      /\ c.regno \notin {"s0", "mstatus", "gpr", "fpr", "csr", "data", "FS"}
  BY DEF lengthOf, moveOf, is_fpu_reg, CsrRegs
<1>2. k \in 1 .. 10
  BY <1>1 DEF Executing
<1>3. CASE k = 1
  <2>1. commandProgram(c)[k] = Move("dscratch0", "s0") /\ {"dscratch0", "s0"} \subseteq Places
    BY <1>3, <1>1, FcsrProgram DEF Places, ArchRegs
  <2>2. d2 = d /\ r2["dscratch0"] = r["s0"] /\ \A q \in Places \ {"dscratch0"} : r2[q] = r[q]
    BY <2>1, RegisterMove
  <2> QED BY <1>1, <1>3, <2>2 DEF Executing, writes, ArchRegs, Places
<1>4. CASE k = 2
  <2>1. commandProgram(c)[k] = Move("s0", "mstatus") /\ {"s0", "mstatus"} \subseteq Places
    BY <1>4, <1>1, FcsrProgram DEF Places, ArchRegs
  <2>2. d2 = d /\ r2["s0"] = r["mstatus"] /\ \A q \in Places \ {"s0"} : r2[q] = r[q]
    BY <2>1, RegisterMove
  <2> QED BY <1>1, <1>4, <2>2 DEF Executing, writes, ArchRegs, Places
<1>5. CASE k = 3
  <2>1. commandProgram(c)[k] = Move("dscratch1", "s0") /\ {"dscratch1", "s0"} \subseteq Places
    BY <1>5, <1>1, FcsrProgram DEF Places, ArchRegs
  <2>2. d2 = d /\ r2["dscratch1"] = r["s0"] /\ \A q \in Places \ {"dscratch1"} : r2[q] = r[q]
    BY <2>1, RegisterMove
  <2> QED BY <1>1, <1>5, <2>2 DEF Executing, writes, ArchRegs, Places
<1>6. CASE k = 4
  <2>1. commandProgram(c)[k] = Move("s0", "FS")
    BY <1>6, <1>1, FcsrProgram
  <2>2. r2["s0"] = "on" /\ d2 = d /\ \A q \in Places \ {"s0"} : r2[q] = r[q]
    BY <2>1 DEF Performs, Move
  <2> QED BY <1>1, <1>6, <2>2 DEF Executing, writes, ArchRegs, Places
<1>7. CASE k = 5
  <2>1. commandProgram(c)[k] = Move("mstatus", "s0") /\ {"mstatus", "s0"} \subseteq Places
    BY <1>7, <1>1, FcsrProgram DEF Places, ArchRegs
  <2>2. d2 = d /\ r2["mstatus"] = r["s0"] /\ \A q \in Places \ {"mstatus"} : r2[q] = r[q]
    BY <2>1, RegisterMove
  <2> QED BY <1>1, <1>7, <2>2 DEF Executing, writes, ArchRegs, Places
<1>8. CASE k = 6
  <2>1. commandProgram(c)[k] = toS0(c)
    BY <1>8, <1>1, FcsrProgram
  <2>2. /\ r2["s0"] = IF c.write THEN d ELSE r[c.regno]
        /\ d2 = d /\ \A q \in Places \ {"s0"} : r2[q] = r[q]
    BY <1>1, <2>1 DEF Performs, toS0, Move
  <2> QED BY <1>1, <1>8, <2>2 DEF Executing, writes, ArchRegs, Places
<1>9. CASE k = 7
  <2>1. commandProgram(c)[k] = fromS0(c)
    BY <1>9, <1>1, FcsrProgram
  <2>2. /\ c.write => r2[c.regno] = r["s0"] /\ d2 = d /\ \A q \in Places \ {c.regno} : r2[q] = r[q]
        /\ ~c.write => d2 = r["s0"] /\ r2 = r
    BY <1>1, <2>1 DEF Performs, fromS0, Move
  <2> QED BY <1>1, <1>9, <2>2 DEF Executing, writes, ArchRegs, Places
<1>10. CASE k = 8
  <2>1. commandProgram(c)[k] = Move("s0", "dscratch1") /\ {"s0", "dscratch1"} \subseteq Places
    BY <1>10, <1>1, FcsrProgram DEF Places, ArchRegs
  <2>2. d2 = d /\ r2["s0"] = r["dscratch1"] /\ \A q \in Places \ {"s0"} : r2[q] = r[q]
    BY <2>1, RegisterMove
  <2> QED BY <1>1, <1>10, <2>2 DEF Executing, writes, ArchRegs, Places
<1>11. CASE k = 9
  <2>1. commandProgram(c)[k] = Move("mstatus", "s0") /\ {"mstatus", "s0"} \subseteq Places
    BY <1>11, <1>1, FcsrProgram DEF Places, ArchRegs
  <2>2. d2 = d /\ r2["mstatus"] = r["s0"] /\ \A q \in Places \ {"mstatus"} : r2[q] = r[q]
    BY <2>1, RegisterMove
  <2> QED BY <1>1, <1>11, <2>2 DEF Executing, writes, ArchRegs, Places
<1>12. CASE k = 10
  <2>1. commandProgram(c)[k] = Move("s0", "dscratch0") /\ {"s0", "dscratch0"} \subseteq Places
    BY <1>12, <1>1, FcsrProgram DEF Places, ArchRegs
  <2>2. d2 = d /\ r2["s0"] = r["dscratch0"] /\ \A q \in Places \ {"s0"} : r2[q] = r[q]
    BY <2>1, RegisterMove
  <2> QED BY <1>1, <1>12, <2>2 DEF Executing, writes, ArchRegs, Places
<1> QED BY <1>2, <1>3, <1>4, <1>5, <1>6, <1>7, <1>8, <1>9, <1>10, <1>11, <1>12

TransferRegs == {"s0", "gpr", "csr", "nocsr", "fpr", "fcsr"}

(* What a supported command transfers.                                      *)
LEMMA SupportedRegs ==
    ASSUME NEW c, supported(c), c.transfer PROVE c.regno \in TransferRegs
BY DEF supported, transferSupported, CsrRegs, TransferRegs

(* A program ends with its last move and nowhere else.                      *)
LEMMA ProgramEnds ==
    ASSUME NEW c, supported(c), NEW k \in 1 .. lengthOf(c)
    PROVE  /\ commandProgram(c)[k].to = "pc" <=> k = lengthOf(c)
           /\ k = lengthOf(c) => commandProgram(c)[k] = lastMove(c)
<1>1. ASSUME NEW a, NEW b PROVE Move(a, b).to = a /\ Move(a, b).from = b
  BY DEF Move
<1>2. /\ lastMove(c).to = "pc"
      /\ c.transfer => direct(c).to # "pc" /\ toS0(c).to # "pc" /\ fromS0(c).to # "pc"
  BY <1>1, SupportedRegs DEF lastMove, direct, toS0, fromS0, TransferRegs
<1>3. CASE ~c.transfer
  BY <1>2, <1>3, EmptyProgram DEF lengthOf
<1>4. CASE c.transfer /\ c.regno \in {"s0", "gpr"}
  <2>1. lengthOf(c) = 2 /\ ~is_fpu_reg(c.regno) /\ c.regno \notin CsrRegs
    BY <1>4 DEF lengthOf, is_fpu_reg, CsrRegs
  <2> QED BY <1>2, <1>4, <2>1, IntegerProgram
<1>5. CASE c.transfer /\ c.regno \in {"csr", "nocsr"}
  <2>1. lengthOf(c) = 5 /\ ~is_fpu_reg(c.regno) /\ c.regno \in CsrRegs
    BY <1>5 DEF lengthOf, is_fpu_reg, CsrRegs
  <2> QED BY <1>1, <1>2, <1>5, <2>1, CsrProgram
<1>6. CASE c.transfer /\ c.regno = "fpr"
  <2>1. lengthOf(c) = 10
    BY <1>6 DEF lengthOf, is_fpu_reg
  <2>2. \A i \in 1 .. 10 : i \in {1, 2, 3, 4, 5, 6, 7, 8, 9, 10}
    OBVIOUS
  <2> QED BY <1>1, <1>2, <1>6, <2>1, <2>2, FprProgram
<1>7. CASE c.transfer /\ c.regno = "fcsr"
  <2>1. lengthOf(c) = 11
    BY <1>7 DEF lengthOf, is_fpu_reg
  <2>2. \A i \in 1 .. 11 : i \in {1, 2, 3, 4, 5, 6, 7, 8, 9, 10, 11}
    OBVIOUS
  <2> QED BY <1>1, <1>2, <1>7, <2>1, <2>2, FcsrProgram
<1> QED BY <1>3, <1>4, <1>5, <1>6, <1>7, SupportedRegs DEF TransferRegs

(* A move that does not trap takes the registers to where the next move     *)
(* needs them.                                                              *)
LEMMA MovesKeep ==
    ASSUME NEW c, supported(c), NEW k, NEW r, NEW w, NEW d, Executing(c, k, r, w, d),
           k < lengthOf(c), NEW r2, NEW d2, Performs(commandProgram(c)[k], r, d, r2, d2)
    PROVE  Executing(c, k + 1, r2, w, d2)
<1>1. c.transfer /\ c.regno \in TransferRegs
  BY SupportedRegs DEF Executing, lengthOf
<1>2. CASE c.regno \in {"s0", "gpr"}
  BY <1>1, <1>2, IntegerMoves DEF lengthOf, is_fpu_reg, CsrRegs
<1>3. CASE c.regno \in {"csr", "nocsr"}
  BY <1>1, <1>3, CsrMoves DEF lengthOf, is_fpu_reg, CsrRegs
<1>4. CASE c.regno = "fpr"
  BY <1>1, <1>4, FprMoves DEF lengthOf, is_fpu_reg
<1>5. CASE c.regno = "fcsr"
  BY <1>1, <1>5, FcsrMoves DEF lengthOf, is_fpu_reg
<1> QED BY <1>1, <1>2, <1>3, <1>4, <1>5 DEF TransferRegs

Trapping(m, r) ==
    \/ "nocsr" \in {m.to, m.from}
    \/ r["mstatus"] = "off" /\ {m.to, m.from} \cap {"fpr", "fcsr"} # {}

(* Only the access to a register that does not exist traps: the unit is on  *)
(* whenever one of its registers is moved.                                  *)
LEMMA TrapsOnlyAbsent ==
    ASSUME NEW c, supported(c), NEW k, NEW r, NEW w, NEW d, Executing(c, k, r, w, d),
           k < lengthOf(c), Trapping(commandProgram(c)[k], r)
    PROVE  c.transfer /\ c.regno = "nocsr"
<1>1. c.transfer /\ c.regno \in TransferRegs
  BY SupportedRegs DEF Executing, lengthOf
<1>2. ASSUME NEW a, NEW b PROVE Move(a, b).to = a /\ Move(a, b).from = b
  BY DEF Move
<1>3. /\ {direct(c).to, direct(c).from} = {"data", c.regno}
      /\ {toS0(c).to, toS0(c).from} \subseteq {"s0", "data", c.regno}
      /\ {fromS0(c).to, fromS0(c).from} \subseteq {"s0", "data", c.regno}
  BY <1>2 DEF direct, toS0, fromS0
<1>4. CASE c.regno \in {"s0", "gpr"}
  <2>1. lengthOf(c) = 2 /\ ~is_fpu_reg(c.regno) /\ c.regno \notin CsrRegs
    BY <1>1, <1>4 DEF lengthOf, is_fpu_reg, CsrRegs
  <2>2. commandProgram(c)[k] = direct(c)
    BY <1>1, <2>1, IntegerProgram DEF Executing
  <2> QED BY <1>3, <1>4, <2>2 DEF Trapping
<1>5. CASE c.regno = "csr"
  <2>1. lengthOf(c) = 5 /\ ~is_fpu_reg(c.regno) /\ c.regno \in CsrRegs
    BY <1>1, <1>5 DEF lengthOf, is_fpu_reg, CsrRegs
  <2>2. k \in {1, 2, 3, 4}
    BY <2>1 DEF Executing
  <2>3. LET m == commandProgram(c)[k]
        IN  {m.to, m.from} \subseteq {"s0", "data", "csr", "dscratch0"}
    BY <1>1, <1>2, <1>3, <1>5, <2>1, <2>2, CsrProgram
  <2> QED BY <2>3 DEF Trapping
<1>6. CASE c.regno = "fpr"
  <2>1. lengthOf(c) = 10 /\ is_fpu_reg(c.regno)
    BY <1>1, <1>6 DEF lengthOf, is_fpu_reg
  <2>2. k \in {1, 2, 3, 4, 5, 6, 7, 8, 9}
    BY <2>1 DEF Executing
  <2>3. k # 6 => LET m == commandProgram(c)[k]
                 IN  {m.to, m.from} \subseteq {"s0", "mstatus", "FS", "dscratch0", "dscratch1"}
    BY <1>1, <1>2, <1>6, <2>2, FprProgram
  <2>4. k = 6 => commandProgram(c)[k] = direct(c) /\ r["mstatus"] = "on"
    BY <1>1, <1>6, <2>1, FprProgram DEF Executing
  <2> QED BY <1>3, <1>6, <2>3, <2>4 DEF Trapping
<1>7. CASE c.regno = "fcsr"
  <2>1. lengthOf(c) = 11 /\ is_fpu_reg(c.regno)
    BY <1>1, <1>7 DEF lengthOf, is_fpu_reg
  <2>2. k \in {1, 2, 3, 4, 5, 6, 7, 8, 9, 10}
    BY <2>1 DEF Executing
  <2>3. k \notin {6, 7} => LET m == commandProgram(c)[k]
                           IN  {m.to, m.from} \subseteq {"s0", "mstatus", "FS", "dscratch0", "dscratch1"}
    BY <1>1, <1>2, <1>7, <2>2, FcsrProgram
  <2>4. k \in {6, 7} => commandProgram(c)[k] \in {toS0(c), fromS0(c)} /\ r["mstatus"] = "on"
    BY <1>1, <1>7, <2>1, FcsrProgram DEF Executing
  <2> QED BY <1>3, <1>7, <2>3, <2>4 DEF Trapping
<1> QED BY <1>1, <1>4, <1>5, <1>6, <1>7 DEF TransferRegs

(* A program that traps has changed no register but s0.                     *)
LEMMA TrapKeeps ==
    ASSUME NEW c, c.transfer, c.regno = "nocsr", NEW k, NEW r, NEW w, NEW d,
           Executing(c, k, r, w, d)
    PROVE  r["dscratch0"] = w["s0"] /\ \A p \in ArchRegs \ {"s0"} : r[p] = w[p]
<1>1. ~is_fpu_reg(c.regno) /\ \A p \in ArchRegs : ~writes(c, p)
  BY DEF is_fpu_reg, writes, ArchRegs
<1> QED BY <1>1 DEF Executing, ArchRegs

(* A program that has run has written what it was to write, and kept the    *)
(* rest.                                                                    *)
LEMMA EndKeeps ==
    ASSUME NEW c, supported(c), NEW k, NEW r, NEW w, NEW d, Executing(c, k, r, w, d),
           k = lengthOf(c)
    PROVE  /\ \A p \in ArchRegs : r[p] = w[p]
           /\ ~writes(c, "s0") => r["dscratch0"] = w["s0"]
           /\ c.transfer /\ ~c.write /\ c.regno \in ArchRegs => d = w[c.regno]
<1>1. c.transfer => k > moveOf(c) /\ k # 1
  BY SupportedRegs DEF lengthOf, moveOf, TransferRegs, is_fpu_reg, CsrRegs
<1>2. \A p \in ArchRegs : writes(c, p) => c.transfer
  BY DEF writes
<1>3. r["s0"] = w["s0"] /\ r["mstatus"] = w["mstatus"]
  <2>1. lengthOf(c) \in Nat
    BY DEF lengthOf
  <2>2. writes(c, "s0") => c.transfer
    BY DEF writes
  <2> QED BY <1>1, <2>1, <2>2 DEF Executing
<1>4. \A p \in ArchRegs \ {"s0", "mstatus"} : r[p] = w[p]
  BY <1>1, <1>2 DEF Executing
<1> QED BY <1>1, <1>3, <1>4 DEF Executing

(* A move that does not trap has a target the hart has, or data.            *)
LEMMA MoveTargets ==
    ASSUME NEW c, supported(c), NEW k \in 1 .. lengthOf(c), k < lengthOf(c), NEW r,
           ~Trapping(commandProgram(c)[k], r)
    PROVE  commandProgram(c)[k].to \in Places \cup {"data"}
<1>1. c.transfer /\ c.regno \in TransferRegs
  BY SupportedRegs DEF lengthOf
<1>2. ASSUME NEW a, NEW b PROVE Move(a, b).to = a
  BY DEF Move
<1>3. {"s0", "mstatus", "dscratch0", "dscratch1"} \subseteq Places
      /\ (c.regno \in Places \/ c.regno = "nocsr")
  BY <1>1 DEF Places, ArchRegs, TransferRegs
<1>4. /\ direct(c).to \in {"data", c.regno} /\ fromS0(c).to \in {"data", c.regno}
      /\ toS0(c).to = "s0"
  BY <1>2 DEF direct, toS0, fromS0
<1>5. commandProgram(c)[k].to \in Places \cup {"data", c.regno}
  <2>1. CASE c.regno \in {"s0", "gpr"}
    <3>1. lengthOf(c) = 2 /\ ~is_fpu_reg(c.regno) /\ c.regno \notin CsrRegs
      BY <1>1, <2>1 DEF lengthOf, is_fpu_reg, CsrRegs
    <3> QED BY <1>1, <1>4, <3>1, IntegerProgram
  <2>2. CASE c.regno \in {"csr", "nocsr"}
    <3>1. lengthOf(c) = 5 /\ ~is_fpu_reg(c.regno) /\ c.regno \in CsrRegs
      BY <1>1, <2>2 DEF lengthOf, is_fpu_reg, CsrRegs
    <3>2. k \in {1, 2, 3, 4}
      BY <3>1
    <3> QED BY <1>1, <1>2, <1>3, <1>4, <3>1, <3>2, CsrProgram
  <2>3. CASE c.regno = "fpr"
    <3>1. k \in {1, 2, 3, 4, 5, 6, 7, 8, 9}
      BY <1>1, <2>3 DEF lengthOf, is_fpu_reg
    <3> QED BY <1>1, <1>2, <1>3, <1>4, <2>3, <3>1, FprProgram
  <2>4. CASE c.regno = "fcsr"
    <3>1. k \in {1, 2, 3, 4, 5, 6, 7, 8, 9, 10}
      BY <1>1, <2>4 DEF lengthOf, is_fpu_reg
    <3> QED BY <1>1, <1>2, <1>3, <1>4, <2>4, <3>1, FcsrProgram
  <2> QED BY <1>1, <2>1, <2>2, <2>3, <2>4 DEF TransferRegs
<1> QED BY <1>3, <1>5 DEF Trapping

-----------------------------------------------------------------------------
(* The harts' registers *)

\* A step of the ROM that moves s0 at most.
RomStep(h) ==
    /\ cpu[h].pc \notin {"program", "exception"} /\ cpu'[h].pc \notin {"program", "exception"}
    /\ \A p \in ArchRegs : archRegs(h)'[p] = archRegs(h)[p]
    /\ dm'.data = dm.data /\ ("go" \in dm'.flags[h] <=> "go" \in dm.flags[h])

(* In the loop of the ROM and at its doors no register is lost.             *)
LEMMA RomSteps ==
    ASSUME TypeInv, NEW h \in Procs,
           \/ enter_debug_mode(h) \/ saveS0(h) \/ signalHalted(h) \/ pollGo(h) \/ pollResume(h)
           \/ resume(h) \/ dret(h)
    PROVE  RomStep(h)
<1> DEFINE InRom == {"halted", "pollGo", "pollResume", "going", "resume", "dret"}
           arch(c, p) == IF p = "s0" /\ c.pc \in InRom THEN c.r["dscratch0"] ELSE c.r[p]
<1>1. \A p \in ArchRegs : archRegs(h)[p] = arch(cpu[h], p) /\ archRegs(h)'[p] = arch(cpu'[h], p)
  BY DEF archRegs
<1>2. IsDm(dm) /\ h \in Slots
  BY SlotsAssumption DEF TypeInv
<1>3. {"s0", "dscratch0"} \subseteq Places /\ ArchRegs \subseteq Places /\ "dscratch0" \notin ArchRegs
  BY DEF Places, ArchRegs
<1>4. ASSUME NEW pc, goTo(h, pc), pc \notin {"program", "exception"},
             cpu[h].pc \notin {"program", "exception"}, pc \in InRom <=> cpu[h].pc \in InRom,
             dm'.data = dm.data, "go" \in dm'.flags[h] <=> "go" \in dm.flags[h]
      PROVE  RomStep(h)
  <2>1. cpu'[h].pc = pc /\ cpu'[h].r = cpu[h].r
    BY <1>4 DEF goTo, TypeInv, IsCpu
  <2> QED BY <1>1, <1>4, <2>1 DEF RomStep
<1>5. CASE enter_debug_mode(h)
  BY <1>4, <1>5 DEF enter_debug_mode
<1>6. CASE pollGo(h)
  BY <1>4, <1>6 DEF pollGo
<1>7. CASE pollResume(h)
  BY <1>4, <1>7 DEF pollResume
<1>8. CASE resume(h)
  <2>1. dm' = storeResuming(dm, h) /\ goTo(h, "dret") /\ cpu[h].pc = "resume"
    BY <1>8 DEF resume
  <2>2. dm'.data = dm.data /\ dm'.flags = [dm.flags EXCEPT ![h] = @ \ {"resume"}]
    BY <1>2, <2>1, ResumingStore
  <2>3. "go" \in dm'.flags[h] <=> "go" \in dm.flags[h]
    BY <1>2, <2>2 DEF IsDm
  <2> QED BY <1>4, <2>1, <2>2, <2>3
<1>9. CASE saveS0(h)
  <2>1. /\ cpu[h].pc = "entry" /\ UNCHANGED dm /\ cpu'[h].pc = "halted"
        /\ cpu'[h].r["dscratch0"] = cpu[h].r["s0"]
        /\ \A q \in Places \ {"dscratch0"} : cpu'[h].r[q] = cpu[h].r[q]
    BY <1>9, SaveCpu DEF saveS0
  <2> QED BY <1>1, <1>3, <2>1 DEF RomStep
<1>10. CASE signalHalted(h)
  <2>1. /\ cpu[h].pc = "halted" /\ dm' = storeHalted(dm, h) /\ cpu'[h].pc = "pollGo"
        /\ \A q \in Places \ {"s0"} : cpu'[h].r[q] = cpu[h].r[q]
    BY <1>10, SignalCpu DEF signalHalted
  <2>2. dm'.data = dm.data /\ dm'.flags = dm.flags
    BY <1>2, <2>1, HaltedStore
  <2> QED BY <1>1, <1>3, <2>1, <2>2 DEF RomStep
<1>11. CASE dret(h)
  <2>1. /\ cpu[h].pc = "dret" /\ UNCHANGED dm /\ cpu'[h].pc = "run"
        /\ cpu'[h].r["s0"] = cpu[h].r["dscratch0"]
        /\ \A q \in Places \ {"s0"} : cpu'[h].r[q] = cpu[h].r[q]
    BY <1>11, RestoreCpu DEF dret
  <2> QED BY <1>1, <1>3, <2>1 DEF RomStep
<1> QED BY <1>5, <1>6, <1>7, <1>8, <1>9, <1>10, <1>11

(* Such a step keeps what is known of a command.                            *)
LEMMA RomKeeps ==
    ASSUME NEW h \in Procs, RomStep(h), want' = want, NEW c
    PROVE  /\ Settled(h) => Settled(h)'
           /\ CommandState(h, c) => CommandState(h, c)'
<1>1. Settled(h)' <=> Settled(h)
  BY DEF Settled, RomStep
<1>2. Waiting(h, c)' <=> Waiting(h, c)
  BY DEF Waiting, RomStep
<1>3. Delivered(h, c)' <=> Delivered(h, c)
  BY DEF Delivered, RomStep
<1> QED BY <1>1, <1>2, <1>3 DEF CommandState, RomStep

(* The hart enters the program of its command.                              *)
LEMMA GoingBegins ==
    ASSUME TypeInv, GoInv, NEW h \in Procs, going(h), NEW c, supported(c), CommandState(h, c)
    PROVE  CommandState(h, c)'
<1>1. /\ cpu[h].pc = "going" /\ want' = want /\ dm' = storeGoing(dm, h)
      /\ cpu'[h].pc = "program" /\ cpu'[h].at = 1
      /\ cpu'[h].r["s0"] = cpu[h].r["dscratch0"]
      /\ \A q \in Places \ {"s0"} : cpu'[h].r[q] = cpu[h].r[q]
  BY GoingCpu DEF going
<1>2. dm'.data = dm.data
  BY <1>1, GoingStore DEF TypeInv
<1>3. Waiting(h, c)
  BY <1>1 DEF GoInv, CommandState
<1>4. /\ archRegs(h)["s0"] = cpu[h].r["dscratch0"]
      /\ \A p \in ArchRegs \ {"s0"} : archRegs(h)[p] = cpu[h].r[p]
  BY <1>1 DEF archRegs, ArchRegs
<1> DEFINE r == cpu'[h].r
           w == want[h]
           d == dm.data
<1>5. /\ \A p \in ArchRegs : IF writes(c, p) THEN d = w[p] ELSE r[p] = w[p]
      /\ ~writes(c, "s0") => r["dscratch0"] = w["s0"]
  BY <1>1, <1>3, <1>4 DEF Waiting, Places, ArchRegs
<1> HIDE DEF r, w, d
<1>6. ~writes(c, "mstatus")
  BY SupportedRegs DEF writes, TransferRegs
<1>7. /\ lengthOf(c) \in Nat /\ 1 <= lengthOf(c) /\ moveOf(c) \in Nat /\ moveOf(c) >= 1
      /\ c.transfer /\ is_fpu_reg(c.regno) => lengthOf(c) >= 10
      /\ c.transfer /\ c.regno \in {"csr", "fcsr"} => moveOf(c) # 1
      /\ writes(c, "s0") => c.transfer
  BY DEF lengthOf, moveOf, is_fpu_reg, CsrRegs, writes
<1>8. Executing(c, 1, r, w, d)
  BY <1>5, <1>6, <1>7 DEF Executing, ArchRegs
<1> QED BY <1>1, <1>2, <1>8 DEF CommandState, r, w, d

(* A move of the program.                                                   *)
LEMMA ExecuteKeeps ==
    ASSUME TypeInv, NEW h \in Procs, executeAbstract(h), NEW c, supported(c),
           dm.abstract = commandProgram(c), CommandState(h, c)
    PROVE  CommandState(h, c)'
<1> DEFINE k == cpu[h].at
           m == dm.abstract[k]
           r == cpu[h].r
           w == want[h]
           d == dm.data
           x == IF m.from = "data" THEN d ELSE IF m.from = "FS" THEN "on" ELSE r[m.from]
<1>1. /\ cpu[h].pc = "program" /\ m.to # "pc" /\ want' = want
      /\ traps(h, m) <=> Trapping(m, r)
      /\ IF traps(h, m) THEN goTo(h, "exception") /\ UNCHANGED dm
         ELSE IF m.to = "data"
         THEN /\ dm' = [dm EXCEPT !.data = x]
              /\ cpu' = [cpu EXCEPT ![h].at = @ + 1]
         ELSE /\ cpu' = [cpu EXCEPT ![h].at = @ + 1, ![h].r[m.to] = x]
              /\ UNCHANGED dm
  BY DEF executeAbstract, traps, Trapping, valueAt
<1>2. Executing(c, k, r, w, d) /\ m = commandProgram(c)[k]
  BY <1>1 DEF CommandState
<1>3. /\ cpu = [i \in Procs |-> cpu[i]] /\ IsCpu(cpu[h]) /\ IsDm(dm)
  BY DEF TypeInv
<1>4. k \in 1 .. lengthOf(c) /\ k < lengthOf(c)
  <2>1. k \in 1 .. lengthOf(c) /\ lengthOf(c) \in Nat
    BY <1>2 DEF Executing, lengthOf
  <2>2. k # lengthOf(c)
    BY <1>1, <1>2, <2>1, ProgramEnds
  <2> QED BY <2>1, <2>2
<1>5. CASE traps(h, m)
  <2>1. goTo(h, "exception") /\ UNCHANGED dm /\ Trapping(m, r)
    BY <1>1, <1>5
  <2>2. c.transfer /\ c.regno = "nocsr"
    BY <1>2, <1>4, <2>1, TrapsOnlyAbsent
  <2>3. r["dscratch0"] = w["s0"] /\ \A p \in ArchRegs \ {"s0"} : r[p] = w[p]
    BY <1>2, <2>2, TrapKeeps
  <2>4. cpu'[h].pc = "exception" /\ cpu'[h].r = r
    BY <1>3, <2>1 DEF goTo, IsCpu
  <2>5. Excepted(h)' /\ Delivered(h, c)'
    BY <1>1, <2>2, <2>3, <2>4 DEF Excepted, Delivered, ArchRegs
  <2> QED BY <2>4, <2>5 DEF CommandState
<1>6. CASE ~traps(h, m)
  <2>1. m.to \in Places \cup {"data"}
    BY <1>1, <1>2, <1>4, <1>6, MoveTargets
  <2>2. /\ cpu'[h].pc = "program" /\ cpu'[h].at = k + 1
        /\ Performs(m, r, d, cpu'[h].r, dm'.data)
    <3>1. CASE m.to = "data"
      <4>1. dm' = [dm EXCEPT !.data = x] /\ cpu' = [cpu EXCEPT ![h].at = @ + 1]
        BY <1>1, <1>6, <3>1
      <4>2. cpu'[h].pc = "program" /\ cpu'[h].at = k + 1 /\ cpu'[h].r = r
        BY <1>1, <1>3, <4>1 DEF IsCpu
      <4>3. dm'.data = x
        BY <1>3, <4>1, OtherStores
      <4> QED BY <3>1, <4>2, <4>3 DEF Performs
    <3>2. CASE m.to # "data"
      <4>1. StepsOn(h, k + 1, m.to, x) /\ UNCHANGED dm
        BY <1>1, <1>3, <1>6, <3>2 DEF StepsOn
      <4> HIDE DEF x
      <4>2. /\ cpu'[h].pc = "program" /\ cpu'[h].at = k + 1 /\ cpu'[h].r[m.to] = x
            /\ \A q \in Places \ {m.to} : cpu'[h].r[q] = r[q]
        BY <1>1, <2>1, <3>2, <4>1, StepCpu
      <4> QED BY <3>2, <4>1, <4>2 DEF Performs, x
    <3> QED BY <3>1, <3>2
  <2>3. Executing(c, k + 1, cpu'[h].r, w, dm'.data)
    BY <1>2, <1>4, <2>2, MovesKeep
  <2> QED BY <1>1, <2>2, <2>3 DEF CommandState
<1> QED BY <1>5, <1>6

(* The end of the program: the hart is back in the ROM, or in its exception *)
(* handler with the old s0 in the scratch register.                         *)
LEMMA EndsKeep ==
    ASSUME KeepsS0, TypeInv, GoInv, NEW h \in Procs, endAbstract(h), NEW c \in commandsOf,
           supported(c), dm.abstract = commandProgram(c), CommandState(h, c)
    PROVE  CommandState(h, c)'
<1> DEFINE k == cpu[h].at
           r == cpu[h].r
           w == want[h]
           d == dm.data
           pc == IF dm.abstract[k].from = "progbuf" /\ dm.progbuf = "fault" THEN "exception"
                 ELSE "entry"
<1>1. /\ cpu[h].pc = "program" /\ commandProgram(c)[k].to = "pc" /\ want' = want
      /\ goTo(h, pc) /\ UNCHANGED dm
  BY DEF endAbstract
<1>2. Executing(c, k, r, w, d) /\ k \in 1 .. lengthOf(c)
  BY <1>1 DEF CommandState, Executing
<1>3. k = lengthOf(c) /\ commandProgram(c)[k] = lastMove(c)
  BY <1>1, <1>2, ProgramEnds
<1>4. /\ \A p \in ArchRegs : r[p] = w[p]
      /\ ~writes(c, "s0") => r["dscratch0"] = w["s0"]
      /\ c.transfer /\ ~c.write /\ c.regno \in ArchRegs => d = w[c.regno]
  BY <1>2, <1>3, EndKeeps
<1>5. cpu'[h].pc = pc /\ cpu'[h].r = r
  BY <1>1 DEF goTo, TypeInv, IsCpu
<1>6. Delivered(h, c)'
  BY <1>1, <1>4 DEF Delivered
<1>7. CASE pc = "exception"
  <2>1. c.postexec /\ dm.progbuf = "fault"
    BY <1>3, <1>7 DEF lastMove, Move
  <2>2. ~writes(c, "s0")
    <3>1. PICK p \in session.requests : p.op = "write" /\ p.addr = "progbuf0" /\ p.val = "fault"
      BY <2>1 DEF TypeInv, asked
    <3>2. CASE c = quick
      BY <3>2 DEF writes, quick
    <3>3. CASE c # quick
      <4>1. PICK q \in session.requests : q.op = "write" /\ q.addr = "command" /\ q.val = c
        BY <3>3 DEF commandsOf, asked
      <4> QED BY <2>1, <3>1, <4>1 DEF KeepsS0, TypeInv
    <3> QED BY <3>2, <3>3
  <2>3. Excepted(h)'
    BY <1>1, <1>4, <1>5, <2>2 DEF Excepted
  <2> QED BY <1>5, <1>6, <1>7, <2>3 DEF CommandState
<1>8. CASE pc = "entry"
  <2>1. Settled(h)'
    BY <1>1, <1>4, <1>5, <1>8 DEF Settled, archRegs
  <2>2. "go" \notin dm'.flags[h]
    BY <1>1 DEF GoInv
  <2> QED BY <1>5, <1>6, <1>8, <2>1, <2>2 DEF CommandState
<1> QED BY <1>7, <1>8

(* The exception handler restores s0.                                       *)
LEMMA ExceptionKeeps ==
    ASSUME TypeInv, GoInv, NEW h \in Procs, exception(h), NEW c, CommandState(h, c)
    PROVE  CommandState(h, c)'
<1>1. /\ cpu[h].pc = "exception" /\ want' = want /\ dm' = storeException(dm)
      /\ cpu'[h].pc = "entry" /\ cpu'[h].r["s0"] = cpu[h].r["dscratch0"]
      /\ \A q \in Places \ {"s0"} : cpu'[h].r[q] = cpu[h].r[q]
  BY RestoreCpu DEF exception
<1>2. dm'.data = dm.data /\ dm'.flags = dm.flags
  BY <1>1, OtherStores DEF TypeInv
<1>3. Excepted(h) /\ Delivered(h, c) /\ "go" \notin dm'.flags[h]
  BY <1>1, <1>2 DEF CommandState, GoInv
<1>4. Settled(h)'
  BY <1>1, <1>3 DEF Excepted, Settled, archRegs, ArchRegs, Places
<1>5. Delivered(h, c)'
  BY <1>1, <1>2, <1>3 DEF Delivered
<1> QED BY <1>1, <1>3, <1>4, <1>5 DEF CommandState

(* A step of a hart loses no register, of itself or of another hart.        *)
LEMMA RegHart ==
    ASSUME KeepsS0, TypeInv, GoInv, RegInv, NEW g \in Procs, hartStep(g)
    PROVE  RegInv'
<1>1. /\ HartEffect(g) /\ want' = want /\ dm'.busy = dm.busy /\ dm'.dmcontrol = dm.dmcontrol
      /\ dm'.abstract = dm.abstract /\ session' = session
  BY HartEffects DEF HartEffect, HartKeeps
<1>2. \A h \in Procs : pending(h)' <=> pending(h)
  BY <1>1 DEF pending
<1>3. commandsOf' = commandsOf
  BY <1>1 DEF commandsOf, asked
<1>4. ASSUME NEW c PROVE current(c)' <=> current(c)
  BY <1>1, <1>3 DEF current
<1>5. ASSUME NEW h \in Procs, h # g
      PROVE  IF pending(h)' THEN \E c \in commandsOf' : current(c)' /\ CommandState(h, c)'
             ELSE Settled(h)'
  <2>1. cpu'[h] = cpu[h] /\ ("go" \in dm'.flags[h] <=> "go" \in dm.flags[h])
    <3>1. h \in Slots /\ g \in Slots /\ dm.flags = [i \in Slots |-> dm.flags[i]]
      BY SlotsAssumption DEF TypeInv, IsDm
    <3> QED BY <1>1, <1>5, <3>1 DEF HartEffect, CpuOnly
  <2>2. pending(h) => dm'.data = dm.data
    BY <1>1, <1>5 DEF HartEffect, GoInv, pending
  <2>3. Settled(h)' <=> Settled(h)
    BY <1>1, <2>1 DEF Settled, archRegs
  <2>4. ASSUME pending(h), NEW c PROVE CommandState(h, c)' <=> CommandState(h, c)
    BY <1>1, <2>1, <2>2, <2>3, <2>4 DEF CommandState, Excepted, Delivered, Waiting, archRegs
  <2> QED BY <1>2, <1>3, <1>4, <2>3, <2>4 DEF RegInv
<1>6. CASE ~pending(g)
  <2>1. cpu[g].pc \notin {"going", "program", "exception"}
    BY <1>6, SlotsAssumption DEF GoInv, pending
  <2>2. RomStep(g)
    BY <2>1, RomSteps DEF hartStep, going, executeAbstract, endAbstract, exception
  <2>3. Settled(g)'
    BY <1>1, <1>6, <2>2, RomKeeps DEF RegInv
  <2> QED BY <1>2, <1>5, <1>6, <2>3 DEF RegInv
<1>7. CASE pending(g)
  <2>1. PICK c \in commandsOf : current(c) /\ CommandState(g, c)
    BY <1>7 DEF RegInv
  <2>2. supported(c) /\ dm.abstract = commandProgram(c)
    BY <2>1 DEF current
  <2>3. CommandState(g, c)'
    <3>1. CASE going(g)
      BY <2>1, <2>2, <3>1, GoingBegins
    <3>2. CASE executeAbstract(g)
      BY <2>1, <2>2, <3>2, ExecuteKeeps
    <3>3. CASE endAbstract(g)
      BY <2>1, <2>2, <3>3, EndsKeep
    <3>4. CASE exception(g)
      BY <2>1, <3>4, ExceptionKeeps
    <3>5. CASE \/ enter_debug_mode(g) \/ saveS0(g) \/ signalHalted(g) \/ pollGo(g) \/ pollResume(g)
               \/ resume(g) \/ dret(g)
      BY <1>1, <2>1, <3>5, RomSteps, RomKeeps
    <3> QED BY <3>1, <3>2, <3>3, <3>4, <3>5 DEF hartStep
  <2> QED BY <1>2, <1>3, <1>4, <1>5, <1>7, <2>1, <2>3 DEF RegInv
<1> QED BY <1>6, <1>7

(* An access loses no register: one that starts a command leaves the value  *)
(* it is to write in data, one that ends a command finds it carried out.    *)
LEMMA RegDebugger ==
    ASSUME TypeInv, HaltInv, GoInv, RegInv, Debugger
    PROVE  RegInv'
<1>1. (QuietAccess \/ StartAccess \/ ControlAccess) /\ session' = session
  BY DebuggerEffect
<1>2. commandsOf' = commandsOf
  BY <1>1 DEF commandsOf, asked
<1>3. ASSUME NEW t, Idles(t, dm')
      PROVE  /\ dm'.flags = t.flags /\ dm'.data = t.data /\ dm'.abstract = t.abstract
             /\ dm'.dmcontrol = t.dmcontrol /\ dm'.completed = t.completed
             /\ (dm'.busy => t.busy) /\ (t.busy /\ ~t.completed => dm'.busy)
  BY <1>3 DEF Idles, DmFields
<1>4. ASSUME dm.busy = FALSE, NEW h \in Procs
      PROVE  Settled(h) /\ cpu[h].pc \notin {"program", "exception"}
  BY <1>4 DEF RegInv, GoInv, pending
<1>5. CASE QuietAccess
  <2>1. PICK t : Quiet(dm, t) /\ Idles(t, dm') /\ UNCHANGED <<cpu, want>>
    BY <1>5 DEF QuietAccess
  <2>2. /\ dm'.flags = dm.flags /\ dm'.abstract = dm.abstract /\ dm'.dmcontrol = dm.dmcontrol
        /\ (dm.busy => dm'.data = dm.data) /\ (dm'.busy => dm.busy)
        /\ (dm.busy /\ ~dm.completed => dm'.busy)
    BY <1>3, <2>1 DEF Quiet
  <2>3. ASSUME NEW h \in Procs
        PROVE  IF pending(h)' THEN \E c \in commandsOf' : current(c)' /\ CommandState(h, c)'
               ELSE Settled(h)'
    <3>1. Settled(h)' <=> Settled(h)
      BY <2>1 DEF Settled, archRegs
    <3>2. CASE pending(h)'
      <4>1. pending(h) /\ dm'.data = dm.data
        BY <2>2, <3>2 DEF pending
      <4>2. PICK c \in commandsOf : current(c) /\ CommandState(h, c)
        BY <4>1 DEF RegInv
      <4>3. current(c)'
        BY <1>2, <2>2, <4>2 DEF current
      <4>4. CommandState(h, c)'
        BY <2>1, <2>2, <3>1, <4>1, <4>2
           DEF CommandState, Excepted, Delivered, Waiting, archRegs
      <4> QED BY <1>2, <3>2, <4>2, <4>3, <4>4
    <3>3. CASE ~pending(h)' /\ pending(h)
      <4>1. dm.completed
        BY <2>2, <3>3 DEF pending
      <4>2. "go" \notin dm.flags[h] /\ cpu[h].pc \notin {"program", "exception"}
        BY <4>1, SlotsAssumption DEF GoInv
      <4>3. Settled(h)
        BY <3>3, <4>2 DEF RegInv, CommandState
      <4> QED BY <3>1, <3>3, <4>3
    <3>4. CASE ~pending(h)' /\ ~pending(h)
      BY <3>1, <3>4 DEF RegInv
    <3> QED BY <3>2, <3>3, <3>4
  <2> QED BY <2>3 DEF RegInv
<1>6. CASE StartAccess
  <2>1. PICK t : /\ Starts(dm, t) /\ Idles(t, dm') /\ UNCHANGED cpu
                 /\ t.command \in commandsOf /\ want' = noteCommand(t)
    BY <1>6 DEF StartAccess
  <2> DEFINE g == dm.dmcontrol.hartsel
             c == t.command
  <2>2. /\ dm.busy = FALSE /\ dm'.busy /\ dm'.dmcontrol = dm.dmcontrol /\ t.busy
        /\ dm'.flags = [dm.flags EXCEPT ![g] = @ \cup {"go"}]
        /\ supported(c) /\ dm'.abstract = commandProgram(c) /\ dm'.data = t.data
        /\ t.dmcontrol = dm.dmcontrol /\ dm.hart_state[g].halted
    BY <1>3, <2>1 DEF Starts, TypeInv, IsDm
  <2>3. g \in Procs /\ g \in Slots /\ dm.flags = [i \in Slots |-> dm.flags[i]]
    BY <2>2 DEF HaltInv, TypeInv, IsDm
  <2>4. "go" \in dm'.flags[g]
    BY <2>2, <2>3
  <2>5. /\ want = [h \in Procs |-> want[h]] /\ want[g] = [p \in ArchRegs |-> want[g][p]]
        /\ want' = IF c.transfer /\ c.write /\ c.regno \in ArchRegs
                   THEN [want EXCEPT ![g][c.regno] = t.data] ELSE want
    BY <2>1, <2>2, <2>3 DEF noteCommand, TypeInv
  <2>6. /\ \A h \in Procs : h # g => want'[h] = want[h]
        /\ \A p \in ArchRegs : want'[g][p] = IF writes(c, p) THEN t.data ELSE want[g][p]
    BY <2>3, <2>5 DEF writes
  <2>7. ASSUME NEW h \in Procs, h # g PROVE ~pending(h)' /\ Settled(h)'
    <3>1. ~pending(h)'
      BY <2>2, <2>7 DEF pending
    <3>2. Settled(h) /\ cpu' = cpu /\ want'[h] = want[h]
      BY <1>4, <2>1, <2>2, <2>6, <2>7
    <3> HIDE DEF g, c
    <3>3. Settled(h)'
      BY <3>2 DEF Settled, archRegs
    <3> QED BY <3>1, <3>3
  <2>8. /\ dm'.dmcontrol.hartsel = g /\ current(c)'
        /\ \A p \in ArchRegs : IF writes(c, p) THEN dm'.data = want'[g][p]
                               ELSE archRegs(g)[p] = want'[g][p]
    <3>1. dm'.dmcontrol.hartsel = g /\ current(c)'
      BY <1>2, <2>1, <2>2 DEF current
    <3>2. Settled(g)
      BY <1>4, <2>2, <2>3
    <3>3. dm'.data = t.data
      BY <2>2
    <3> HIDE DEF g, c
    <3> QED BY <2>6, <3>1, <3>2, <3>3 DEF Settled
  <2>9. ASSUME NEW h \in Procs, h = g
        PROVE  pending(h)' /\ CommandState(h, c)'
    <3>1. pending(h)'
      BY <2>2, <2>9 DEF pending
    <3>2. \A p \in ArchRegs : archRegs(h)'[p] = archRegs(h)[p]
      BY <2>1 DEF archRegs
    <3>3. Waiting(h, c)'
      BY <2>8, <2>9, <3>2 DEF Waiting
    <3>4. cpu'[h].pc \notin {"program", "exception"} /\ "go" \in dm'.flags[h]
      BY <1>4, <2>1, <2>2, <2>4, <2>9
    <3> QED BY <3>1, <3>3, <3>4 DEF CommandState
  <2> QED BY <1>2, <2>1, <2>7, <2>8, <2>9 DEF RegInv
<1>7. CASE ControlAccess
  <2> DEFINE new == [pc |-> "run", at |-> 1, r |-> ResetRegs]
  <2>1. PICK t, R : /\ dm.busy = FALSE /\ Controls(dm, t, R) /\ Idles(t, dm')
                    /\ cpu' = [h \in Procs |-> IF h \in R THEN new ELSE cpu[h]]
                    /\ want' = [h \in Procs |-> IF h \in R THEN archOf(ResetRegs) ELSE want[h]]
    BY <1>7 DEF ControlAccess
  <2>2. dm'.busy = FALSE
    BY <2>1 DEF Controls, Idles
  <2>3. ASSUME NEW h \in Procs PROVE Settled(h)'
    <3>1. CASE h \notin R
      BY <1>4, <2>1, <3>1 DEF Settled, archRegs
    <3>2. CASE h \in R
      BY <2>1, <3>2 DEF Settled, archRegs, archOf
    <3> QED BY <3>1, <3>2
  <2> QED BY <2>2, <2>3 DEF RegInv, pending
<1> QED BY <1>1, <1>5, <1>6, <1>7

(* The registers at the start.                                              *)
LEMMA RegInit == Init => RegInv
<1> SUFFICES ASSUME Init PROVE RegInv
  OBVIOUS
<1>1. PICK c \in BOOLEAN : dm = New(quick, c, 0, someVal, 0)
  BY DEF Init, quick
<1>2. dm.busy = FALSE
  BY <1>1 DEF New, reset
<1>3. \A h \in Procs : Settled(h)
  BY DEF Init, Settled, archRegs, archOf
<1> QED BY <1>2, <1>3 DEF RegInv, pending

(* The inductive invariant of the registers.                                *)
LEMMA RegistersInvariant ==
    ASSUME KeepsS0 PROVE Spec => [](TypeInv /\ HaltInv /\ GoInv /\ RegInv)
<1> DEFINE Inv == TypeInv /\ HaltInv /\ GoInv /\ RegInv
<1>1. Init => Inv
  BY TypeInit, HaltInit, RegInit
<1>2. ASSUME Inv, [Next]_vars PROVE RegInv'
  <2>1. CASE UNCHANGED vars
    BY <1>2, <2>1 DEF vars, RegInv, pending, current, commandsOf, asked, CommandState, Excepted,
                      Delivered, Waiting, Settled, archRegs
  <2> QED BY <1>2, <2>1, RegHart, RegDebugger DEF Next, stopped
<1>3. Inv /\ [Next]_vars => Inv'
  BY <1>2, TypeNext, HaltNext, GoNext
<1> QED BY <1>1, <1>3, PTL DEF Spec

(* Between commands every register of every hart holds what its program or  *)
(* the debugger's last write left there: whatever the abstract programs and *)
(* the ROM do with s0, the scratch registers and mstatus, in whatever order *)
(* harts and debugger take their steps, they put it back.  The debugger     *)
(* must not combine a write of s0 with a program buffer that faults.        *)
THEOREM RegistersAreIntact ==
    ASSUME KeepsS0 PROVE Spec => []RegistersIntact
<1>1. TypeInv /\ RegInv => RegistersIntact
  <2> SUFFICES ASSUME TypeInv, RegInv, NEW h \in Procs, ~commandPending(h)
               PROVE  archRegs(h) = want[h]
    BY DEF RegistersIntact
  <2>1. Settled(h)
    BY DEF RegInv, pending, commandPending
  <2>2. want[h] = [p \in ArchRegs |-> want[h][p]] /\ archRegs(h) = [p \in ArchRegs |-> archRegs(h)[p]]
    BY DEF TypeInv, archRegs
  <2> QED BY <2>1, <2>2 DEF Settled
<1> QED BY <1>1, RegistersInvariant, PTL

-----------------------------------------------------------------------------
(* The end of a command *)

(* Two commands with the same program transfer the same: what the module    *)
(* keeps of a command identifies a read.                                    *)
LEMMA ProgramsTell ==
    ASSUME NEW a, supported(a), NEW b, b.transfer, ~b.write, b.regno \in ArchRegs,
           commandProgram(a) = commandProgram(b)
    PROVE  a.transfer /\ ~a.write /\ a.regno = b.regno
<1>1. ASSUME NEW x, NEW y PROVE Move(x, y).to = x /\ Move(x, y).from = y
  BY DEF Move
<1>2. /\ direct(b) = Move("data", b.regno) /\ toS0(b) = Move("s0", b.regno)
      /\ direct(a) = (IF a.write THEN Move(a.regno, "data") ELSE Move("data", a.regno))
      /\ toS0(a) = (IF a.write THEN Move("s0", "data") ELSE Move("s0", a.regno))
  BY DEF direct, toS0
<1>3. \A c \in {a, b} : ~c.transfer => Len(commandProgram(c)) = 1
  BY EmptyProgram
<1>4. \A c \in {a, b} : c.transfer /\ c.regno \in {"s0", "gpr", "mstatus"} =>
          Len(commandProgram(c)) = 2 /\ commandProgram(c)[1] = direct(c)
  BY IntegerProgram DEF CsrRegs, is_fpu_reg
<1>5. \A c \in {a, b} : c.transfer /\ c.regno \in {"csr", "nocsr"} =>
          Len(commandProgram(c)) = 5 /\ commandProgram(c)[2] = toS0(c)
  BY CsrProgram DEF CsrRegs, is_fpu_reg
<1>6. \A c \in {a, b} : c.transfer /\ c.regno = "fpr" =>
          Len(commandProgram(c)) = 10 /\ commandProgram(c)[6] = direct(c)
  BY FprProgram
<1>7. \A c \in {a, b} : c.transfer /\ c.regno = "fcsr" =>
          Len(commandProgram(c)) = 11 /\ commandProgram(c)[6] = toS0(c)
  BY FcsrProgram
<1>8. a.transfer => a.regno \in TransferRegs
  BY SupportedRegs
<1>9. CASE b.regno \in {"s0", "gpr", "mstatus"}
  <2>1. a.transfer /\ a.regno \in {"s0", "gpr"} /\ direct(a) = direct(b)
    BY <1>3, <1>4, <1>5, <1>6, <1>7, <1>8, <1>9 DEF TransferRegs
  <2> QED BY <1>1, <1>2, <1>9, <2>1
<1>10. CASE b.regno = "csr"
  <2>1. a.transfer /\ a.regno \in {"csr", "nocsr"} /\ toS0(a) = toS0(b)
    BY <1>3, <1>4, <1>5, <1>6, <1>7, <1>8, <1>10 DEF TransferRegs
  <2> QED BY <1>1, <1>2, <1>10, <2>1
<1>11. CASE b.regno = "fpr"
  <2>1. a.transfer /\ a.regno = "fpr" /\ direct(a) = direct(b)
    BY <1>3, <1>4, <1>5, <1>6, <1>7, <1>8, <1>11 DEF TransferRegs
  <2> QED BY <1>1, <1>2, <1>11, <2>1
<1>12. CASE b.regno = "fcsr"
  <2>1. a.transfer /\ a.regno = "fcsr" /\ toS0(a) = toS0(b)
    BY <1>3, <1>4, <1>5, <1>6, <1>7, <1>8, <1>12 DEF TransferRegs
  <2> QED BY <1>1, <1>2, <1>12, <2>1
<1> QED BY <1>9, <1>10, <1>11, <1>12 DEF ArchRegs

(* Busy is cleared by a clock after the hart has reported back.             *)
LEMMA BusyCleared ==
    ASSUME TypeInv, [Next]_vars, dm.busy, ~dm'.busy PROVE dm.completed
<1>1. ASSUME NEW h \in Procs, hartStep(h) PROVE FALSE
  BY <1>1, HartEffects DEF HartEffect, HartKeeps
<1>2. CASE Debugger
  <2>1. QuietAccess \/ StartAccess \/ ControlAccess
    BY <1>2, DebuggerEffect
  <2>2. CASE QuietAccess
    BY <2>2 DEF QuietAccess, Quiet, Idles
  <2> QED BY <2>1, <2>2 DEF StartAccess, ControlAccess, Starts
<1> QED BY <1>1, <1>2 DEF Next, stopped, vars

(* Busy is not cleared before the hart is back in the ROM with the program  *)
(* done; a read has then put the register's value in data, whatever was     *)
(* tried and refused meanwhile.                                             *)
THEOREM CommandsSettle ==
    ASSUME KeepsS0 PROVE Spec => CommandSettles
<1> DEFINE Inv == TypeInv /\ HaltInv /\ GoInv /\ RegInv
           Settles == dm.busy /\ ~dm'.busy =>
               LET h == dm.dmcontrol.hartsel
                   c == dm.command
               IN  /\ cpu[h].pc \notin {"going", "program", "exception"}
                   /\ "go" \notin dm.flags[h]
                   /\ (/\ c.transfer /\ ~c.write /\ c.regno \in ArchRegs
                       /\ dm.abstract = commandProgram(c)) => dm.data = want[h][c.regno]
<1>1. Inv /\ [Next]_vars => [Settles]_vars
  <2> SUFFICES ASSUME Inv, [Next]_vars, dm.busy, ~dm'.busy PROVE Settles
    OBVIOUS
  <2> DEFINE h == dm.dmcontrol.hartsel
             c == dm.command
  <2>1. dm.completed
    BY BusyCleared
  <2>2. h \in Procs /\ pending(h)
    BY DEF GoInv, pending
  <2>3. "go" \notin dm.flags[h] /\ cpu[h].pc \notin {"going", "program", "exception"}
    BY <2>1, <2>2, SlotsAssumption DEF GoInv
  <2>4. PICK a \in commandsOf : current(a) /\ CommandState(h, a)
    BY <2>2 DEF RegInv
  <2>5. supported(a) /\ dm.abstract = commandProgram(a) /\ Delivered(h, a)
    BY <2>3, <2>4 DEF current, CommandState
  <2>6. ASSUME c.transfer, ~c.write, c.regno \in ArchRegs, dm.abstract = commandProgram(c)
        PROVE  dm.data = want[h][c.regno]
    <3>1. a.transfer /\ ~a.write /\ a.regno = c.regno
      BY <2>5, <2>6, ProgramsTell
    <3> QED BY <2>5, <2>6, <3>1 DEF Delivered
  <2> QED BY <2>3, <2>6
<1> QED BY <1>1, RegistersInvariant, PTL DEF Spec, CommandSettles

=============================================================================
