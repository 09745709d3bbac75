------------------------------- MODULE MCDebug -------------------------------
(* Debuggers that halt, resume and reset harts and read and write their     *)
(* registers, alone or in halt groups, and one that hurries the transport.  *)
EXTENDS DebugSystem

SpikeConfig == [require_authentication |-> FALSE, abstract_rti |-> 1, support_hasel |-> TRUE,
                support_abstract_csr_access |-> TRUE, support_haltgroups |-> TRUE,
                max_bus_master_bits |-> 32]

Control(haltreq, resumereq, hartsel) ==
    [haltreq |-> haltreq, resumereq |-> resumereq, hartreset |-> FALSE, ndmreset |-> FALSE,
     hasel |-> FALSE, hartsel |-> hartsel, dmactive |-> TRUE, ackhavereset |-> TRUE]

Command(regno, write, postexec) ==
    [type |-> "register", regno |-> regno, write |-> write, transfer |-> TRUE,
     postexec |-> postexec, size |-> "word"]

W1(addr, val) == [op |-> "write", addr |-> addr, val |-> val]
R1(addr) == [op |-> "read", addr |-> addr, val |-> "zero"]

HaltAndResume(h) == { W1("dmcontrol", c) : c \in {Control(TRUE, FALSE, h), Control(FALSE, FALSE, h),
                                                  Control(FALSE, TRUE, h)} }

Commands(cs) == { W1("command", c) : c \in cs }

\* Both harts, one register.
TwoHarts == HaltAndResume(0) \cup HaltAndResume(1)
            \cup Commands({Command("s0", TRUE, FALSE)})

\* One hart, reset now and then, integer and control registers.
Registers == HaltAndResume(0)
             \cup {W1("dmcontrol", [Control(FALSE, FALSE, 0) EXCEPT !.hartreset = TRUE])}
             \cup Commands({Command("s0", FALSE, FALSE), Command("csr", TRUE, FALSE),
                            Command("nocsr", TRUE, FALSE), Command("custom", TRUE, FALSE)})
             \cup {W1("data0", "b"), W1("abstractcs", 7)}

\* The registers of the floating-point unit, which is off.
FpuRegisters == HaltAndResume(0)
                \cup Commands({Command("fpr", TRUE, FALSE), Command("fcsr", TRUE, FALSE),
                               Command("fcsr", FALSE, FALSE)})
                \cup {W1("data0", "b")}

\* The program buffer, run by itself and by accesses to the buffers.
Autoexec == HaltAndResume(0)
            \cup {W1("progbuf0", "fault"), W1("progbuf0", "nop"), W1("data0", "b"), R1("data0"),
                  R1("progbuf0"), W1("abstractcs", 7),
                  W1("abstractauto", [data |-> TRUE, progbuf |-> TRUE]),
                  W1("command", Command("gpr", TRUE, TRUE))}

\* Halt groups and the hart array.
Groups == { W1("dmcontrol", [Control(h, ~h, 0) EXCEPT !.hasel = TRUE]) : h \in BOOLEAN }
          \cup {W1("hawindow", {0, 1}), W1("dmcs2", 1), W1("hawindowsel", 1),
                W1("dmcontrol", Control(FALSE, FALSE, 1)),
                W1("dmcontrol", [Control(FALSE, FALSE, 0) EXCEPT !.ndmreset = TRUE])}

\* The system bus.
Sbcs(size, error) == [readonaddr |-> TRUE, sbaccess |-> size, autoincrement |-> TRUE,
                      readondata |-> TRUE, error |-> error]

Bus == {W1("sbcs", Sbcs(2, 0)), W1("sbcs", Sbcs(3, 7)), W1("sbaddress0", 12), W1("sbaddress0", 13),
        R1("sbdata0"), W1("sbdata0", "b"), W1("sbdata1", "b"), W1("sbaddress1", 1),
        W1("dmcontrol", Control(TRUE, FALSE, 0)),
        W1("dmcontrol", [Control(FALSE, FALSE, 0) EXCEPT !.dmactive = FALSE])}

\* The transport under a debugger that does not wait.
Hurried == HaltAndResume(0) \cup {W1("command", Command("s0", TRUE, FALSE)), W1("data0", "b"),
                                  R1("data0"), R1("other")}

SomeSessions == { [requests |-> r, patient |-> TRUE] : r \in {TwoHarts, Registers, FpuRegisters,
                                                              Autoexec, Groups, Bus} }
                \cup {[requests |-> Hurried, patient |-> FALSE]}
=============================================================================
