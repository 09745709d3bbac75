----------------------------- MODULE TileSystem -----------------------------
(***************************************************************************)
(* The adapter, the tile and the part of the RTL host that drives them      *)
(* (host.py run_test, tile_adapter.py start, probe_tohost and stop), over   *)
(* one or several runs of one simulation: the fuzzer keeps the adapter      *)
(* object, and what start() does not reset, from one program to the next.   *)
(* A host poll every 100 cycles and the loop's end at max_cycles are        *)
(* actions enabled at any time: no bound on the tile's speed is assumed.    *)
(***************************************************************************)
EXTENDS Tile

CONSTANTS
    Programs,  \* the programs: the blocks their image loads, their tohost block
    MaxRuns    \* bound: runs of one simulation

ASSUME ProgramsAssumption ==
    /\ Programs \subseteq [loaded : SUBSET Blocks, tohost : Blocks]
    /\ \A p \in Programs : p.tohost \in p.loaded
ASSUME MaxRunsAssumption == MaxRuns \in Nat

VARIABLES
    pc,      \* where run_test is: idle, run (the cycle loop), stop, wait
    tohost,  \* block of symbols['tohost']
    runs,    \* runs started
    atStop   \* latest when stop() set retrieve

hostVars == <<pc, tohost, runs, atStop>>
adapterStep == UNCHANGED <<tileVars, hostVars>>
vars == <<adapterVars, chans, tileVars, hostVars>>

Init ==
    /\ adapterInit /\ tileInit
    /\ pc = "idle" /\ tohost = NoBlock /\ runs = 0
    /\ atStop = [b \in Blocks |-> 0]

(* Load the program, reset the tile, start the adapter.                     *)
runTest(p) ==
    /\ err = "none" /\ pc = "idle" /\ runs < MaxRuns
    /\ tileReset /\ adapterStart(p.loaded)
    /\ pc' = "run" /\ tohost' = p.tohost /\ runs' = runs + 1
    /\ UNCHANGED atStop

(* i % 100 == 0: leave the loop if tohost was written, else ask for a probe.*)
poll ==
    /\ Running /\ pc = "run"
    /\ IF memory[tohost][0] # 0
         THEN pc' = "stop" /\ UNCHANGED host_probe
         ELSE adapterProbe(tohost) /\ UNCHANGED pc
    /\ UNCHANGED <<drive, retrieve, retrieving, memory, block_perm, d_sinks, ongoing_tlc, d_queue,
                   pb, a_mon, c_count, err, chans, tileVars, tohost, runs, atStop>>

(* max_cycles passed.                                                       *)
timeout ==
    /\ Running /\ pc = "run"
    /\ pc' = "stop"
    /\ UNCHANGED <<adapterVars, chans, tileVars, tohost, runs, atStop>>

(* tileAdapter.stop: once A and C are quiet, ask for the retrieval ...      *)
stop ==
    /\ Running /\ pc = "stop" /\ ~onGoing
    /\ retrieve' = TRUE
    /\ pc' = "wait" /\ atStop' = latest
    /\ UNCHANGED <<drive, retrieving, memory, block_perm, d_sinks, ongoing_tlc, d_queue, pb, a_mon,
                   c_count, host_probe, err, chans, tileVars, tohost, runs>>

(* ... and wait for it.  The host reads the signature from memory next.     *)
finish ==
    /\ err = "none" /\ pc = "wait" /\ ~drive
    /\ pc' = "idle"
    /\ UNCHANGED <<adapterVars, chans, tileVars, tohost, runs, atStop>>

(* The simulation ends after the last run or with an exception.             *)
ended == (err # "none" \/ (pc = "idle" /\ runs = MaxRuns)) /\ UNCHANGED vars

Next ==
    \/ adapterStep /\ aGet
    \/ adapterStep /\ aPutTip
    \/ adapterStep /\ aPutOwned
    \/ adapterStep /\ aAtomic
    \/ adapterStep /\ aIntent
    \/ adapterStep /\ aNoSink
    \/ adapterStep /\ aAcquireBlock
    \/ adapterStep /\ aAcquirePerm
    \/ adapterStep /\ aInterleaved
    \/ adapterStep /\ cBeat
    \/ adapterStep /\ cProbeAck
    \/ adapterStep /\ cRelease
    \/ adapterStep /\ eGrantAck
    \/ adapterStep /\ dDrive
    \/ adapterStep /\ bDrive
    \/ adapterStep /\ dataRetriever
    \/ adapterStep /\ hostInterface
    \/ adapterStep /\ hostUnknownBlock
    \/ UNCHANGED hostVars /\ \E b \in Blocks : tileStore(b)
    \/ UNCHANGED hostVars /\ \E b \in Blocks : tileRelease(b)
    \/ UNCHANGED hostVars /\ \E b \in Blocks, o \in {"AcquireBlock", "AcquirePerm"} : tileAcquire(b, o)
    \/ UNCHANGED hostVars /\ \E b \in Blocks, o \in UncachedOps : tileAccess(b, o)
    \/ UNCHANGED hostVars /\ tileProbe
    \/ UNCHANGED hostVars /\ tileGrantData
    \/ UNCHANGED hostVars /\ tileGrant
    \/ UNCHANGED hostVars /\ tileReleaseAck
    \/ UNCHANGED hostVars /\ tileAccessAck
    \/ \E p \in Programs : runTest(p)
    \/ poll \/ timeout \/ stop \/ finish \/ ended

Spec == Init /\ [][Next]_vars

(***************************************************************************)
(* Fairness.  Each coroutine and the host loop look at their ports on every *)
(* clock edge, so what is possible on infinitely many edges is done: weak   *)
(* fairness where the condition persists, strong fairness where another     *)
(* actor can take it away in between (a port freed and used again).  The    *)
(* tile answers probes and takes D messages; it need not issue anything.    *)
(* The cycle loop is not obliged to end: timeout has no fairness.           *)
(***************************************************************************)
aMonitor == (aGet \/ aPutTip \/ aPutOwned \/ aAtomic \/ aIntent \/ aNoSink \/ aAcquireBlock
             \/ aAcquirePerm \/ aInterleaved) /\ adapterStep
cMonitor == (cBeat \/ cProbeAck \/ cRelease) /\ adapterStep
tileTakesD == (tileGrantData \/ tileGrant \/ tileReleaseAck \/ tileAccessAck) /\ UNCHANGED hostVars

Fairness ==
    /\ WF_vars(aMonitor) /\ WF_vars(cMonitor)
    /\ WF_vars(eGrantAck /\ adapterStep)
    /\ WF_vars(dDrive /\ adapterStep)
    /\ WF_vars(bDrive /\ adapterStep)
    /\ WF_vars(dataRetriever /\ adapterStep)
    /\ SF_vars(hostInterface /\ adapterStep)
    /\ WF_vars(tileTakesD)
    /\ SF_vars(tileProbe /\ UNCHANGED hostVars)
    /\ WF_vars(poll) /\ SF_vars(stop) /\ WF_vars(finish)

FairSpec == Spec /\ Fairness

-----------------------------------------------------------------------------
AdapterTypeOK ==
    /\ drive \in BOOLEAN /\ retrieve \in BOOLEAN /\ retrieving \in BOOLEAN
    /\ memory \in [Blocks -> Words]
    /\ block_perm \in [Blocks -> {"absent", "TIP", "TRUNK"}]
    /\ d_sinks \subseteq Sinks
    /\ ongoing_tlc \in [Sinks -> Blocks \cup {NoBlock}]
    /\ d_queue \in Seq(DMessage)
    /\ pb \in ProbeSide
    /\ a_mon \in [source : Blocks \cup {NoBlock}, count : Nat, bound : BOOLEAN]
    /\ c_count \in Beat /\ c_count = (IF c_ch = NoMsg THEN 0 ELSE c_ch.beat)
    /\ host_probe \in [probe : BOOLEAN, en : BOOLEAN, addr : Blocks \cup {NoBlock}]
    /\ host_probe.probe => host_probe.addr \in Blocks
    /\ err \in Exceptions
PortTypeOK ==
    /\ a_ch \in AMessage \cup {NoMsg} /\ b_ch \in BMessage \cup {NoMsg}
    /\ c_ch \in CMessage \cup {NoMsg} /\ d_ch \in DMessage \cup {NoMsg}
    /\ e_ch \in EMessage \cup {NoMsg}
TileTypeOK ==
    /\ cache \in [Blocks -> Line] /\ latest \in [Blocks -> Nat] /\ seen \in [Blocks -> Nat]
    /\ acquiring \subseteq Blocks /\ access \subseteq Blocks /\ releasing \subseteq Blocks
HostTypeOK ==
    /\ pc \in {"idle", "run", "stop", "wait"} /\ tohost \in Blocks \cup {NoBlock}
    /\ pc = "run" => tohost \in Blocks
    /\ runs \in Nat /\ atStop \in [Blocks -> Nat]

(* The state of the adapter, the tile, their ports and the host loop has    *)
(* the shape the code gives it; the C monitor counts the beats as the tile  *)
(* sends them.                                                              *)
TypeOK == AdapterTypeOK /\ PortTypeOK /\ TileTypeOK /\ HostTypeOK

(* A probe source is either free, with no callback registered and no        *)
(* message about it anywhere, or held by exactly one probe on its way       *)
(* b_queue -> B port -> tile -> C port, whose callback is registered.  The  *)
(* callback runs before the source is released, and a release hands the     *)
(* source to the oldest reservation at once, so in the middle of            *)
(* c_port_monitor a source is held: neither free nor anybody's.  No         *)
(* reservation waits while a source is free, and neither assertion of the   *)
(* probe side (dup, bad) has failed.                                        *)
Queued(q) == {q.queue[i].source : i \in 1 .. Len(q.queue)}
SourcesOK(q, flying, held) ==
    /\ ~q.dup /\ ~q.bad
    /\ \A s \in BSrcs \ held :
        /\ (s \in q.free) <=> (q.c_map[s] = NoCb)
        /\ (s \in q.free) <=> (s \notin Queued(q) \cup flying)
    /\ \A s \in held : s \notin q.free \cup Queued(q) \cup flying /\ q.c_map[s] = NoCb
    /\ Queued(q) \cap flying = {}
    /\ \A i, j \in 1 .. Len(q.queue) : q.queue[i].source = q.queue[j].source => i = j
    /\ q.events # <<>> => q.free = {}
onB == IF b_ch = NoMsg THEN {} ELSE {b_ch.source}
onC == IF c_ch.op \in {"ProbeAck", "ProbeAckData"} THEN {c_ch.source} ELSE {}
ProbeSources == SourcesOK(pb, onB \cup onC, {}) /\ onB \cap onC = {}

(* A grant sink taken by an Acquire travels in exactly one place: a         *)
(* callback waiting for a probe, a reservation, the D queue, the D port or  *)
(* a GrantAck.  So d_sinks.release never sees a free sink.                  *)
sinkHolders(s) ==
    {<<"call", p>> : p \in {p \in BSrcs : pb.c_map[p].sink = s}}
    \cup {<<"event", i>> : i \in {i \in 1 .. Len(pb.events) : pb.events[i].cb.sink = s}}
    \cup {<<"queue", i>> : i \in {i \in 1 .. Len(d_queue) : d_queue[i].sink = s}}
    \cup {<<"D", 0>> : x \in {x \in {d_ch} : x # NoMsg /\ x.sink = s}}
    \cup {<<"E", 0>> : x \in {x \in {e_ch} : x # NoMsg /\ x.sink = s}}
SinkHeldOnce ==
    Running => \A s \in Sinks : Cardinality(sinkHolders(s)) = (IF s \in d_sinks THEN 0 ELSE 1)

(* No coroutine dies: no assertion of FreeList, srcToCallback or the        *)
(* monitors fails, no missing method or unbound name is reached.            *)
NoException == err = "none"

(* Whatever requests the tile mixes, the bookkeeping assertions never fail: *)
(* no callback slot is overwritten, no probe source or sink is given back   *)
(* twice, no GrantAck is for an unknown transaction.                        *)
BookkeepingSound ==
    err \notin {"b_callback.set", "b_srcs.release", "d_sinks.release", "ongoing_tlc.pop"}

(* An acknowledged uncached write is in memory: for a block the tile never  *)
(* caches, the first word is the newest store once nothing is outstanding.  *)
WritesApplied ==
    Running => \A b \in Blocks :
        (<<"AcquireBlock", b>> \notin TileOps /\ b \notin access) => memory[b][0] = latest[b]

(* The directory is never behind the tile: a block the tile may write is    *)
(* recorded as TRUNK, although the record is made when the Grant is put on  *)
(* the port and erased when a report is read, both at some distance from    *)
(* the tile's own change.  Retrieval and host probes rely on it.            *)
TrunkTracked ==
    \A b \in Blocks : cache[b].perm = "T" => block_perm[b] = "TRUNK"

CachedOnly == {b \in Blocks : \A o \in {"Put", "PutBurst", "Arithmetic", "Logical"} :
                                  <<o, b>> \notin TileOps}

(* No store through the cache is lost: memory holds the newest store of   *)
(* every block the directory does not record as TRUNK, all of its words;    *)
(* for the others the newest store is in memory, in a dirty line, or in the *)
(* C message being read.                                                    *)
NoStoreLost ==
    Running => \A b \in CachedOnly :
        LET newest == Fill(latest[b]) IN
        IF block_perm[b] # "TRUNK" THEN memory[b] = newest
        ELSE \/ memory[b] = newest
             \/ cache[b].dirty /\ cache[b].data = newest
             \/ c_ch # NoMsg /\ c_ch.addr = b /\ c_ch.data = newest

(* Data sent to the tile is current and whole: a GrantData, whose words     *)
(* were read when it was queued, still holds the newest store when it is    *)
(* delivered; an AccessAckData is one version of the block, not older than  *)
(* the request it answers.                                                  *)
dMessages == {d_queue[i] : i \in 1 .. Len(d_queue)} \cup ({d_ch} \ {NoMsg})
DataCurrent ==
    Running => \A m \in dMessages :
        /\ m.op = "GrantData" => m.data = Fill(latest[m.addr])
        /\ m.op = "AccessAckData" =>
             \E v \in seen[m.addr] .. latest[m.addr] : m.data = Fill(v)

(* When the adapter stops driving, memory holds every store made before     *)
(* stop() was called, whatever the tile did while its blocks were being     *)
(* retrieved: this is the memory the signature is read from.                *)
RetrievalComplete ==
    (err = "none" /\ pc = "wait" /\ ~drive) =>
        \A b \in Blocks, i \in Beat : memory[b][i] >= atStop[b]

(* The host never starts a probe of a block while a grant of that block is  *)
(* queued, on the port, or waiting for its GrantAck (ongoing_tlc).          *)
grantPending(b) ==
    \/ \E m \in dMessages : m.op \in {"Grant", "GrantData"} /\ m.addr = b
    \/ e_ch # NoMsg /\ ongoing_tlc[e_ch.sink] = b
HostProbeOutsideGrant ==
    [][(host_probe.en /\ ~host_probe'.en) => ~grantPending(host_probe.addr)]_vars

(* Once stop() has been called the run ends: the chain of retrieval probes  *)
(* through callbacks and reservations reaches its end.                      *)
RetrievalEnds == (pc = "wait") ~> (pc = "idle")

(* The host notices that the program wrote tohost: the cycle loop is left.  *)
TohostSeen == (pc = "run" /\ latest[tohost] > 0) ~> (pc # "run")

(* Every Acquire is granted, unless the run ends first.                     *)
AcquireGranted == \A b \in Blocks : (b \in acquiring) ~> (b \notin acquiring \/ ~drive)
=============================================================================
