----------------------------- MODULE TLAdapter -----------------------------
(***************************************************************************)
(* The TileLink adapter (adapters/tilelink/adapter.py, utils.py): a memory  *)
(* and directory written as seven cocotb coroutines that share Python       *)
(* objects.  cocotb is cooperative and single threaded, so what one         *)
(* coroutine does between two awaits is one action; the coroutines are all  *)
(* resumed by the same clock edge in an order nothing fixes, so the actions *)
(* interleave freely.                                                       *)
(*                                                                         *)
(* Data.  An address is its 64-byte block; a block holds Beats bus words; a *)
(* word is the number of the store that wrote it (0: the loaded program).   *)
(* The source id of an A or C request is the block it is about: the tile    *)
(* has at most one request of each kind outstanding per block.              *)
(***************************************************************************)
EXTENDS Naturals, Sequences, FiniteSets

CONSTANTS
    Blocks,     \* block addresses the tile and the host can name
    Sinks,      \* d_sinks: GrantAck ids
    BSrcs,      \* b_srcs: probe source ids
    Beats,      \* bus words per block (block_size / d_datalen)
    TohostAligned, \* the host probes the first address of a block
    NoBlock,    \* probe_addr = 0, or no ongoing transaction
    NoSink

ASSUME BlocksAssumption == NoBlock \notin Blocks
ASSUME SinksAssumption == NoSink \notin Sinks
ASSUME BSrcsAssumption == BSrcs # {}
ASSUME TohostAssumption == TohostAligned \in BOOLEAN
ASSUME BeatsAssumption == Beats \in Nat \ {0}

VARIABLES
    drive,        \* self.drive: the coroutines' loop condition
    retrieve,     \* self.retrieve: stop() was called
    retrieving,   \* data_retriever has left its waiting loop
    memory,       \* the memory dict shared with the host
    block_perm,   \* block -> permission, "absent" when not a key
    d_sinks,      \* free_list of d_sinks
    ongoing_tlc,  \* sink -> block of the grant not yet acknowledged
    d_queue,      \* D messages with their callbacks
    pb,           \* the probe side: b_srcs, b_callback and b_queue
    a_mon,        \* locals of a_port_monitor: ongoings, burst_data
    c_count,      \* ongoings of c_port_monitor
    host_probe,   \* probe, probe_en and probe_addr
    err,          \* the exception that ended the simulation, or "none"
    a_ch, b_ch, c_ch, d_ch, e_ch  \* the ports: the message held valid

chans == <<a_ch, b_ch, c_ch, d_ch, e_ch>>
adapterVars == <<drive, retrieve, retrieving, memory, block_perm, d_sinks, ongoing_tlc,
                 d_queue, pb, a_mon, c_count, host_probe, err>>

-----------------------------------------------------------------------------
Beat == 0 .. Beats - 1
Words == [Beat -> Nat]
Fill(v) == [i \in Beat |-> v]
Caps == {"toT", "toB", "toN"}
Grows == {"NtoB", "NtoT", "BtoT"}
Reports == {"TtoB", "TtoN", "BtoN", "TtoT", "BtoB", "NtoN"}
NoMsg == [op |-> "none"]

(* CallBack objects: the function and the arguments that matter to it.      *)
CbKinds == {"none", "AccessAckData_cb", "AccessAck_cb", "ArithmeticAck_cb", "LogicalAck_cb",
            "GrantData_cb", "enableProbe", "probe_blocks_rec"}
MkCb(k, b, p, s, r) == [kind |-> k, addr |-> b, param |-> p, sink |-> s, rest |-> r]
NoCb == MkCb("none", NoBlock, "toN", NoSink, {})
Callback ==
    {NoCb}
    \cup [kind : {"GrantData_cb"}, addr : Blocks, param : Caps, sink : Sinks, rest : {{}}]
    \cup [kind : CbKinds \ {"none", "GrantData_cb"}, addr : Blocks, param : {"toN"},
          sink : {NoSink}, rest : SUBSET Blocks]
AckCb(k, b) == MkCb(k, b, "toN", NoSink, {})

DMessage ==
    [op : {"Grant", "GrantData"}, addr : Blocks, param : Caps, sink : Sinks, data : Words,
     cb : {"updatePerm"}]
    \cup [op : {"AccessAckData", "AccessAck", "HintAck", "ReleaseAck"}, addr : Blocks,
          param : {"toN"}, sink : {NoSink}, data : Words, cb : {"none", "updateMem"}]
MkD(o, b, p, s, w, c) ==
    [op |-> o, addr |-> b, param |-> p, sink |-> s, data |-> w, cb |-> c]
PlainD(o, b) == MkD(o, b, "toN", NoSink, Fill(0), "none")

BMessage == [op : {"ProbeBlock"}, param : Caps, source : BSrcs, addr : Blocks]
Request == [cb : Callback \ {NoCb}, param : Caps, addr : Blocks]
ProbeSide == [free : SUBSET BSrcs, events : Seq(Request), c_map : [BSrcs -> Callback],
              queue : Seq(BMessage), dup : BOOLEAN, bad : BOOLEAN]
MkReq(c, p, b) == [cb |-> c, param |-> p, addr |-> b]

(* get_d_messages: the words are read when the burst is queued.             *)
DataMsg(o, b, p, s, c) == MkD(o, b, p, s, memory[b], c)

-----------------------------------------------------------------------------
(* The probe side.  Random choice of a source makes each operator return    *)
(* the set of possible results.  q.dup records that b_callback.set found    *)
(* the slot in use, q.bad that b_srcs.release was given a free source.      *)

(* retrieveBlock_cb: b_srcs.get, b_callback.set, b_queue.push.              *)
Issue(q, r, s) ==
    [q EXCEPT !.free = @ \ {s},
              !.dup = @ \/ q.c_map[s] # NoCb,
              !.c_map[s] = r.cb,
              !.queue = Append(@, [op |-> "ProbeBlock", param |-> r.param,
                                   source |-> s, addr |-> r.addr])]

retrieveBlockDropped(q, r) ==    \* a slip: no reservation is made
    IF q.free # {} THEN {Issue(q, r, s) : s \in q.free} ELSE {q}

retrieveBlock(q, r) ==
    IF q.free # {} THEN {Issue(q, r, s) : s \in q.free}
                   ELSE {[q EXCEPT !.events = Append(@, r)]}

(* probe_blocks_rec on a non-empty list: probe one block, carry the rest.   *)
probeNext(q, rest) ==
    UNION {retrieveBlock(q, MkReq(MkCb("probe_blocks_rec", b, "toN", NoSink, rest \ {b}),
                                  "toN", b)) : b \in rest}

(* b_callback.call(s), as far as it changes the probe side.                 *)
callSource(q, s) ==
    LET cb == q.c_map[s]
        q1 == [q EXCEPT !.c_map[s] = NoCb]
    IN IF cb.kind = "probe_blocks_rec" /\ cb.rest # {} THEN probeNext(q1, cb.rest) ELSE {q1}

releaseSourceForgets(q, s) ==    \* a slip: a release does not look at the reservations
    {[q EXCEPT !.free = @ \cup {s}, !.bad = @ \/ s \in q.free]}

(* b_srcs.release(s): the oldest reservation runs at once.                  *)
releaseSource(q, s) ==
    LET f == [q EXCEPT !.free = @ \cup {s}, !.bad = @ \/ s \in q.free]
    IN IF f.events = <<>> THEN {f}
       ELSE {Issue([f EXCEPT !.events = Tail(@)], Head(f.events), t) : t \in f.free}

ackSourceReleaseFirst(q, s) ==    \* a slip: the two calls swapped
    UNION {callSource(q1, s) : q1 \in releaseSource(q, s)}

(* A ProbeAck: call the callback, and only then give the source back.       *)
ackSource(q, s) == UNION {releaseSource(q1, s) : q1 \in callSource(q, s)}

NoProbes == [free |-> BSrcs, events |-> <<>>, c_map |-> [s \in BSrcs |-> NoCb],
             queue |-> <<>>, dup |-> FALSE, bad |-> FALSE]

(* The exceptions that end a coroutine, and with it the simulation.         *)
Exceptions == {"none", "A interleaved", "burst_data unbound", "d_sinks is empty", "no retrievePerm",
               "param unbound", "d_sinks.release", "ongoing_tlc.pop", "updateMem",
               "host_interface", "b_callback.set", "b_srcs.release"}
probeError(q) == IF q.dup THEN "b_callback.set" ELSE IF q.bad THEN "b_srcs.release" ELSE "none"

-----------------------------------------------------------------------------
Running == drive /\ err = "none"

(* a_port_monitor.  The tile keeps A beats of one message together.         *)
aFire(ops) == Running /\ a_ch.op \in ops
aUnchanged == UNCHANGED <<drive, retrieve, retrieving, c_count, host_probe, b_ch, c_ch, d_ch, e_ch>>
aTake == a_ch' = NoMsg
permOfUnchecked(b) == "TIP"    \* a slip: the directory is not consulted
permOf(b) == IF block_perm[b] = "absent" THEN "TIP" ELSE block_perm[b]
notInterleaved == a_mon.source \in {NoBlock, a_ch.addr}
notePerm == block_perm' = [block_perm EXCEPT ![a_ch.addr] = permOf(a_ch.addr)]

(* 'Messages in A channel can not be interleaved'.                          *)
aInterleaved ==
    /\ aFire({"Get", "Put", "Arithmetic", "Logical", "Intent", "AcquireBlock", "AcquirePerm"})
    /\ ~notInterleaved
    /\ err' = "A interleaved"
    /\ UNCHANGED <<memory, block_perm, d_sinks, ongoing_tlc, d_queue, pb, a_mon, a_ch>>
    /\ aUnchanged

(* Probe the tile's copy first, then answer through callback cb.            *)
aRetrieve(cb, cap) ==
    \E q \in retrieveBlock(pb, MkReq(cb, cap, a_ch.addr)) : pb' = q /\ err' = probeError(q)
aAnswer(msgs) == d_queue' = d_queue \o msgs /\ UNCHANGED <<pb, err>>

aGet ==
    /\ aFire({"Get"}) /\ notInterleaved
    /\ notePerm
    /\ IF permOf(a_ch.addr) # "TIP"
         THEN aRetrieve(AckCb("AccessAckData_cb", a_ch.addr), "toT") /\ UNCHANGED d_queue
         ELSE aAnswer(<<DataMsg("AccessAckData", a_ch.addr, "toN", NoSink, "none")>>)
    /\ aTake
    /\ UNCHANGED <<memory, d_sinks, ongoing_tlc, a_mon>> /\ aUnchanged

(* PUT_FULL_DATA and PUT_PARTIAL_DATA on a block the tile does not own:     *)
(* every beat is written as it comes, the last one is acknowledged.         *)
aNextBeat == a_ch' = IF a_ch.beat + 1 = a_ch.len THEN NoMsg ELSE [a_ch EXCEPT !.beat = @ + 1]

(* The word at the monitor's count; a finished burst leaves ongoings.       *)
putWordLate ==    \* a slip: the count is advanced before the write
    [memory EXCEPT ![a_ch.addr][a_mon.count + 1] = a_ch.data]
putWord == [memory EXCEPT ![a_ch.addr][a_mon.count] = a_ch.data]
endBurst == a_mon' = [a_mon EXCEPT !.source = NoBlock, !.count = 0]

aPutTip ==
    /\ aFire({"Put"}) /\ notInterleaved /\ permOf(a_ch.addr) = "TIP"
    /\ notePerm
    /\ memory' = putWord
    /\ IF a_mon.count + 1 = a_ch.len
         THEN aAnswer(<<PlainD("AccessAck", a_ch.addr)>>) /\ endBurst
         ELSE a_mon' = [a_mon EXCEPT !.source = a_ch.addr, !.count = @ + 1]
              /\ UNCHANGED <<d_queue, pb, err>>
    /\ aNextBeat
    /\ UNCHANGED <<d_sinks, ongoing_tlc>> /\ aUnchanged

(* ... and on a block it owns: the first beat (count is never advanced      *)
(* here) probes the block and binds burst_data; a later beat of a burst     *)
(* that began in the other branch uses burst_data, bound or not.            *)
aPutOwned ==
    /\ aFire({"Put"}) /\ notInterleaved /\ permOf(a_ch.addr) # "TIP"
    /\ notePerm
    /\ IF a_mon.count = 0
         THEN aRetrieve(AckCb("AccessAck_cb", a_ch.addr), "toN")
              /\ a_mon' = [a_mon EXCEPT !.bound = TRUE]
         ELSE err' = (IF a_mon.bound THEN "none" ELSE "burst_data unbound")
              /\ UNCHANGED <<pb, a_mon>>
    /\ aNextBeat
    /\ UNCHANGED <<memory, d_sinks, ongoing_tlc, d_queue>> /\ aUnchanged

(* ARITHMETIC_DATA and LOGICAL_DATA, one word: the old word is returned.    *)
aAtomic ==
    /\ aFire({"Arithmetic", "Logical"}) /\ notInterleaved
    /\ notePerm
    /\ IF permOf(a_ch.addr) # "TIP"
         THEN /\ aRetrieve(AckCb(IF a_ch.op = "Arithmetic" THEN "ArithmeticAck_cb"
                                 ELSE "LogicalAck_cb", a_ch.addr), "toN")
              /\ UNCHANGED <<memory, d_queue>>
         ELSE /\ memory' = putWord
              /\ aAnswer(<<DataMsg("AccessAckData", a_ch.addr, "toN", NoSink, "none")>>)
    /\ aTake
    /\ UNCHANGED <<d_sinks, ongoing_tlc, a_mon>> /\ aUnchanged

aIntent ==
    /\ aFire({"Intent"}) /\ notInterleaved
    /\ notePerm
    /\ aAnswer(<<PlainD("HintAck", a_ch.addr)>>)
    /\ aTake
    /\ UNCHANGED <<memory, d_sinks, ongoing_tlc, a_mon>> /\ aUnchanged

(* d_sinks.get() on an empty free list.                                     *)
aNoSink ==
    /\ aFire({"AcquireBlock", "AcquirePerm"}) /\ notInterleaved /\ d_sinks = {}
    /\ notePerm
    /\ err' = "d_sinks is empty"
    /\ aTake
    /\ UNCHANGED <<memory, d_sinks, ongoing_tlc, d_queue, pb, a_mon>> /\ aUnchanged

grantCap(grow) == IF grow = "NtoB" THEN "toB" ELSE "toT"
probeCap(grow) == IF grow = "NtoB" THEN "toB" ELSE "toN"

aAcquireBlock ==
    /\ aFire({"AcquireBlock"}) /\ notInterleaved
    /\ notePerm
    /\ \E s \in d_sinks :
        /\ d_sinks' = d_sinks \ {s}
        /\ IF permOf(a_ch.addr) # "TIP"
             THEN /\ aRetrieve(MkCb("GrantData_cb", a_ch.addr, grantCap(a_ch.param), s, {}),
                               probeCap(a_ch.param))
                  /\ UNCHANGED <<d_queue, ongoing_tlc>>
             ELSE /\ aAnswer(<<DataMsg("GrantData", a_ch.addr, grantCap(a_ch.param), s,
                                       "updatePerm")>>)
                  /\ ongoing_tlc' = [ongoing_tlc EXCEPT ![s] = a_ch.addr]
    /\ aTake
    /\ UNCHANGED <<memory, a_mon>> /\ aUnchanged

(* retrievePerm, called for a block the tile owns, does not exist.          *)
aAcquirePerm ==
    /\ aFire({"AcquirePerm"}) /\ notInterleaved
    /\ notePerm
    /\ \E s \in d_sinks :
        /\ d_sinks' = d_sinks \ {s}
        /\ IF permOf(a_ch.addr) # "TIP"
             THEN err' = "no retrievePerm" /\ UNCHANGED <<pb, d_queue, ongoing_tlc>>
             ELSE /\ aAnswer(<<MkD("Grant", a_ch.addr, grantCap(a_ch.param), s, Fill(0),
                                   "updatePerm")>>)
                  /\ ongoing_tlc' = [ongoing_tlc EXCEPT ![s] = a_ch.addr]
    /\ aTake
    /\ UNCHANGED <<memory, a_mon>> /\ aUnchanged

-----------------------------------------------------------------------------
(* c_port_monitor.  A data message is written beat by beat at the           *)
(* monitor's own count; only its last beat has any other effect.            *)
hasData == c_ch.op \in {"ProbeAckData", "ReleaseData"}
cFire(ops) == Running /\ c_ch.op \in ops
lastBeatLate == ~hasData \/ c_count = Beats    \* a slip: off by one
lastBeat == ~hasData \/ c_count + 1 = Beats
cWriteReleaseOnly ==    \* a slip: the data of a ProbeAckData is not stored
    IF c_ch.op = "ReleaseData"
      THEN [memory EXCEPT ![c_ch.addr][c_count] = c_ch.data[c_ch.beat]] ELSE memory
cWrite == IF hasData THEN [memory EXCEPT ![c_ch.addr][c_count] = c_ch.data[c_ch.beat]] ELSE memory
cUnchanged == UNCHANGED <<retrieve, retrieving, d_sinks, a_mon, a_ch, b_ch, d_ch, e_ch>>

cBeat ==
    /\ cFire({"ProbeAckData", "ReleaseData"}) /\ ~lastBeat
    /\ memory' = cWrite
    /\ c_count' = c_count + 1
    /\ c_ch' = [c_ch EXCEPT !.beat = @ + 1]
    /\ UNCHANGED <<drive, block_perm, ongoing_tlc, d_queue, pb, host_probe, err>>
    /\ cUnchanged

cPermAny == block_perm' =    \* a slip: a report that keeps Trunk counts as well
    IF c_ch.param \in {"TtoB", "TtoN", "TtoT"}
      THEN [block_perm EXCEPT ![c_ch.addr] = "TIP"] ELSE block_perm

(* A report that gives up Trunk returns the block to Tip.                   *)
cPerm == block_perm' = IF c_ch.param \in {"TtoB", "TtoN"}
                         THEN [block_perm EXCEPT ![c_ch.addr] = "TIP"] ELSE block_perm

(* What callback cb does besides its work on the probe side.                *)
runCallback(cb, mem) ==
    /\ d_queue' = CASE cb.kind = "AccessAckData_cb" ->
                         Append(d_queue, MkD("AccessAckData", cb.addr, "toN", NoSink,
                                             mem[cb.addr], "none"))
                    [] cb.kind = "AccessAck_cb" ->
                         Append(d_queue, MkD("AccessAck", cb.addr, "toN", NoSink,
                                             Fill(0), "updateMem"))
                    [] cb.kind = "GrantData_cb" ->
                         Append(d_queue, MkD("GrantData", cb.addr, cb.param, cb.sink,
                                             mem[cb.addr], "updatePerm"))
                    [] OTHER -> d_queue
    /\ ongoing_tlc' = IF cb.kind = "GrantData_cb" THEN [ongoing_tlc EXCEPT ![cb.sink] = cb.addr]
                                                  ELSE ongoing_tlc
    /\ host_probe' = IF cb.kind = "enableProbe" THEN [host_probe EXCEPT !.en = TRUE]
                                                ELSE host_probe
    /\ drive' = ~(cb.kind = "probe_blocks_rec" /\ cb.rest = {})

(* ArithmeticAck_cb and LogicalAck_cb read the unbound names param, mask.   *)
callbackRaises(cb) == cb.kind \in {"ArithmeticAck_cb", "LogicalAck_cb"}

cProbeAck ==
    /\ cFire({"ProbeAck", "ProbeAckData"}) /\ lastBeat
    /\ memory' = cWrite
    /\ cPerm
    /\ runCallback(pb.c_map[c_ch.source], cWrite)
    /\ \E q \in ackSource(pb, c_ch.source) :
        /\ pb' = q
        /\ err' = IF callbackRaises(pb.c_map[c_ch.source]) THEN "param unbound" ELSE probeError(q)
    /\ c_count' = 0
    /\ c_ch' = NoMsg
    /\ cUnchanged

cRelease ==
    /\ cFire({"Release", "ReleaseData"}) /\ lastBeat
    /\ memory' = cWrite
    /\ cPerm
    /\ d_queue' = Append(d_queue, PlainD("ReleaseAck", c_ch.addr))
    /\ c_count' = 0
    /\ c_ch' = NoMsg
    /\ UNCHANGED <<drive, ongoing_tlc, pb, host_probe, err>> /\ cUnchanged

-----------------------------------------------------------------------------
(* e_port_monitor: release the sink, then forget the transaction.           *)
popTransaction(s) == [ongoing_tlc EXCEPT ![s] = NoBlock]

eGrantAck ==
    /\ Running /\ e_ch # NoMsg
    /\ err' = IF e_ch.sink \in d_sinks THEN "d_sinks.release"
              ELSE IF ongoing_tlc[e_ch.sink] = NoBlock THEN "ongoing_tlc.pop" ELSE "none"
    /\ d_sinks' = d_sinks \cup {e_ch.sink}
    /\ ongoing_tlc' = popTransaction(e_ch.sink)
    /\ e_ch' = NoMsg
    /\ UNCHANGED <<drive, retrieve, retrieving, memory, block_perm, d_queue, pb, a_mon, c_count,
                   host_probe, a_ch, b_ch, c_ch, d_ch>>

updatePermSwapped(b, param) ==    \* a slip: toB recorded instead of toT
    IF param = "toB" THEN [block_perm EXCEPT ![b] = "TRUNK"] ELSE block_perm
(* updatePerm records toT only.                                             *)
updatePerm(b, param) ==
    IF param = "toT" THEN [block_perm EXCEPT ![b] = "TRUNK"] ELSE block_perm

(* d_port_driver: the callback runs before the message is put on the port.  *)
(* updateMem fails on any burst_data.                                       *)
dDrive ==
    /\ Running /\ d_ch = NoMsg /\ d_queue # <<>>
    /\ LET m == Head(d_queue) IN
        /\ block_perm' = IF m.cb = "updatePerm" THEN updatePerm(m.addr, m.param) ELSE block_perm
        /\ IF m.cb = "updateMem" THEN err' = "updateMem" /\ d_ch' = d_ch
                                 ELSE err' = err /\ d_ch' = m
    /\ d_queue' = Tail(d_queue)
    /\ UNCHANGED <<drive, retrieve, retrieving, memory, d_sinks, ongoing_tlc, pb, a_mon, c_count,
                   host_probe, a_ch, b_ch, c_ch, e_ch>>

bDrive ==
    /\ Running /\ b_ch = NoMsg /\ pb.queue # <<>>
    /\ b_ch' = Head(pb.queue)
    /\ pb' = [pb EXCEPT !.queue = Tail(@)]
    /\ UNCHANGED <<drive, retrieve, retrieving, memory, block_perm, d_sinks, ongoing_tlc, d_queue,
                   a_mon, c_count, host_probe, err, a_ch, c_ch, d_ch, e_ch>>

(* data_retriever, probe_blocks: the list is the blocks not Tip right now.  *)
dataRetriever ==
    /\ Running /\ retrieve /\ ~retrieving
    /\ retrieving' = TRUE
    /\ LET probe_addrs == {b \in Blocks : block_perm[b] = "TRUNK"} IN
        IF probe_addrs = {} THEN drive' = FALSE /\ UNCHANGED <<pb, err>>
        ELSE \E q \in probeNext(pb, probe_addrs) :
                pb' = q /\ err' = probeError(q) /\ UNCHANGED drive
    /\ UNCHANGED <<retrieve, memory, block_perm, d_sinks, ongoing_tlc, d_queue, a_mon, c_count,
                   host_probe, chans>>

(* host_interface.  A request for a block in Tip stays pending.  The address*)
(* is compared unmasked with the block addresses in ongoing_tlc.            *)
hostReadyUnguarded == Running /\ host_probe.probe /\ host_probe.en    \* a slip: no check
hostReady == /\ Running /\ host_probe.probe /\ host_probe.en
             /\ TohostAligned => host_probe.addr \notin {ongoing_tlc[s] : s \in Sinks}

hostInterface ==
    /\ hostReady
    /\ block_perm[host_probe.addr] = "TRUNK"
    /\ \E q \in retrieveBlock(pb, MkReq(AckCb("enableProbe", host_probe.addr), "toN",
                                        host_probe.addr)) :
         pb' = q /\ err' = probeError(q)
    /\ host_probe' = [probe |-> FALSE, en |-> FALSE, addr |-> NoBlock]
    /\ UNCHANGED <<drive, retrieve, retrieving, memory, block_perm, d_sinks, ongoing_tlc, d_queue,
                   a_mon, c_count, chans>>

(* assert block_addr in block_perm.keys()                                   *)
hostUnknownBlock ==
    /\ hostReady
    /\ block_perm[host_probe.addr] = "absent"
    /\ err' = "host_interface"
    /\ UNCHANGED <<drive, retrieve, retrieving, memory, block_perm, d_sinks, ongoing_tlc, d_queue,
                   pb, a_mon, c_count, host_probe, chans>>

-----------------------------------------------------------------------------
(* What the host calls.  __init__, start and drive_input, probe_block, stop.*)
(* ongoing_tlc and host_probe survive from one start to the next.           *)
adapterInit ==
    /\ drive = FALSE /\ retrieve = FALSE /\ retrieving = FALSE
    /\ memory = [b \in Blocks |-> Fill(0)]
    /\ block_perm = [b \in Blocks |-> "absent"]
    /\ d_sinks = Sinks /\ ongoing_tlc = [s \in Sinks |-> NoBlock]
    /\ d_queue = <<>> /\ pb = NoProbes
    /\ a_mon = [source |-> NoBlock, count |-> 0, bound |-> FALSE] /\ c_count = 0
    /\ host_probe = [probe |-> FALSE, en |-> TRUE, addr |-> NoBlock]
    /\ err = "none"

adapterStart(loaded) ==
    /\ drive' = TRUE /\ retrieve' = FALSE /\ retrieving' = FALSE
    /\ memory' = [b \in Blocks |-> Fill(0)]
    /\ block_perm' = [b \in Blocks |-> IF b \in loaded THEN "TIP" ELSE "absent"]
    /\ d_sinks' = Sinks /\ d_queue' = <<>> /\ pb' = NoProbes
    /\ a_mon' = [source |-> NoBlock, count |-> 0, bound |-> FALSE] /\ c_count' = 0
    /\ UNCHANGED <<ongoing_tlc, host_probe, err>>

adapterProbe(b) == host_probe' = [host_probe EXCEPT !.probe = TRUE, !.addr = b]

onGoing == a_ch # NoMsg \/ c_ch # NoMsg
=============================================================================
