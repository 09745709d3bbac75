-------------------------- MODULE CoherenceProofs --------------------------
(***************************************************************************)
(* The directory and the tile's cache: block_perm is never behind the       *)
(* permissions of the tile, and no store through the cache is lost, for     *)
(* every tile that follows the protocol, whatever else it requests.         *)
(***************************************************************************)
EXTENDS SinkProofs

-----------------------------------------------------------------------------
(* Where an Acquire is: on the A port, in a callback, in the D queue or on  *)
(* the D port.  A block has at most one, and only while the tile waits.     *)
GrantCallsOf(b) == {cb \in GrantCbs : cb.addr = b}
GrantsOf(b) == {m \in GrantMsgs : m.addr = b}
AcquireAt(b, a, q, Q, d, waiting) ==
    LET onA == a.op \in {"AcquireBlock", "AcquirePerm"} /\ a.addr = b
        onCalls == Calls(q, GrantCallsOf(b))
        onQueue == Queues(Q, GrantsOf(b))
        onD == d \in GrantsOf(b)
    IN /\ CallsOnce(q, GrantCallsOf(b)) /\ QueuesOnce(Q, GrantsOf(b))
       /\ onA \/ onCalls \/ onQueue \/ onD => b \in waiting
       /\ onA => ~onCalls /\ ~onQueue /\ ~onD
       /\ onCalls => ~onQueue /\ ~onD
       /\ onQueue => ~onD
AcquireInv == \A b \in Blocks : AcquireAt(b, a_ch, pb, d_queue, d_ch, acquiring)

(* The classes of a block are grant classes.                                *)
LEMMA BlockClasses ==
    ASSUME NEW b PROVE GrantCallsOf(b) \in SUBSET GrantCbs /\ GrantsOf(b) \in SUBSET GrantMsgs
BY DEF GrantCallsOf, GrantsOf

(* Steps that neither make nor move a grant, and leave no new Acquire.      *)
LEMMA QuietAcquires ==
    ASSUME AcquireInv, UNCHANGED <<d_ch, acquiring>>,
           a_ch' = a_ch \/ a_ch'.op \notin {"AcquireBlock", "AcquirePerm"},
           \A K \in SUBSET GrantCbs : KeepCalls(K), \A M \in SUBSET GrantMsgs : KeepMsgs(M)
    PROVE  AcquireInv'
<1> SUFFICES ASSUME NEW b \in Blocks
             PROVE  AcquireAt(b, a_ch', pb', d_queue', d_ch', acquiring')
  BY DEF AcquireInv
<1>1. AcquireAt(b, a_ch, pb, d_queue, d_ch, acquiring)
  BY DEF AcquireInv
<1>2. KeepCalls(GrantCallsOf(b)) /\ KeepMsgs(GrantsOf(b))
  BY BlockClasses
<1>3. QED
  BY <1>1, <1>2 DEF AcquireAt, KeepCalls, KeepMsgs

(* What a step of a_port_monitor leaves on the A port.                      *)
LEMMA aLeaves ==
    ASSUME TypeOK,
           aGet \/ aPutTip \/ aPutOwned \/ aAtomic \/ aIntent \/ aNoSink \/ aAcquireBlock
             \/ aAcquirePerm \/ aInterleaved
    PROVE  a_ch' = a_ch \/ a_ch'.op \notin {"AcquireBlock", "AcquirePerm"}
<1>1. CASE aPutTip \/ aPutOwned
  <2>0. aFire({"Put"}) /\ aNextBeat
    BY <1>1 DEF aPutTip, aPutOwned
  <2>1. a_ch \in AMessage /\ a_ch.op = "Put" /\ aNextBeat
    BY <2>0, aFireType
  <2>2. a_ch' = NoMsg \/ a_ch' = [a_ch EXCEPT !.beat = @ + 1]
    BY <2>1 DEF aNextBeat
  <2>3. a_ch'.op \in {"none", "Put"}
    BY <2>1, <2>2 DEF NoMsg, AMessage
  <2>4. QED
    BY <2>3
<1>2. CASE aInterleaved
  BY <1>2 DEF aInterleaved
<1>3. CASE aGet \/ aAtomic \/ aIntent \/ aNoSink \/ aAcquireBlock \/ aAcquirePerm
  <2>1. a_ch' = NoMsg
    BY <1>3 DEF aGet, aAtomic, aIntent, aNoSink, aAcquireBlock, aAcquirePerm, aTake
  <2>2. QED
    BY <2>1 DEF NoMsg
<1>4. QED
  BY <1>1, <1>2, <1>3

(* An Acquire moves from the A port into a callback or the D queue.         *)
LEMMA AcquireMoves ==
    ASSUME TypeOK, ProbeSources, AcquireInv, aAcquireBlock \/ aAcquirePerm, UNCHANGED acquiring
    PROVE  AcquireInv'
<1> SUFFICES ASSUME NEW b \in Blocks
             PROVE  AcquireAt(b, a_ch', pb', d_queue', d_ch', acquiring')
  BY DEF AcquireInv
<1>1. AcquireAt(b, a_ch, pb, d_queue, d_ch, acquiring)
  BY DEF AcquireInv
<1>2. UNCHANGED d_ch
  BY aGrant
<1>3. a_ch.op \in {"AcquireBlock", "AcquirePerm"} /\ a_ch' = NoMsg
  BY DEF aAcquireBlock, aAcquirePerm, aFire, aTake
<1>4. a_ch'.op = "none"
  BY <1>3 DEF NoMsg
<1>5. \/ \E cb \in GrantCbs : cb.addr = a_ch.addr /\ UNCHANGED d_queue
                              /\ \A K \in SUBSET GrantCbs : GainCall(K, cb)
      \/ \E m \in GrantMsgs : m.addr = a_ch.addr /\ UNCHANGED pb /\ d_queue' = Append(d_queue, m)
      \/ UNCHANGED <<pb, d_queue>>
  BY aGrant
<1>6. CASE \E cb \in GrantCbs : cb.addr = a_ch.addr /\ UNCHANGED d_queue
                                /\ \A K \in SUBSET GrantCbs : GainCall(K, cb)
  <2>1. PICK cb \in GrantCbs : cb.addr = a_ch.addr /\ UNCHANGED d_queue
                               /\ \A K \in SUBSET GrantCbs : GainCall(K, cb)
    BY <1>6
  <2>2. GainCall(GrantCallsOf(b), cb)
    BY <2>1, BlockClasses
  <2>3. cb \in GrantCallsOf(b) <=> b = a_ch.addr
    BY <2>1 DEF GrantCallsOf
  <2>4. CASE b = a_ch.addr
    BY <1>1, <1>2, <1>3, <1>4, <2>1, <2>2, <2>3, <2>4 DEF AcquireAt, GainCall
  <2>5. CASE b # a_ch.addr
    BY <1>1, <1>2, <1>3, <1>4, <2>1, <2>2, <2>3, <2>5 DEF AcquireAt, GainCall
  <2>6. QED
    BY <2>4, <2>5
<1>7. CASE \E m \in GrantMsgs : m.addr = a_ch.addr /\ UNCHANGED pb /\ d_queue' = Append(d_queue, m)
  <2>1. PICK m \in GrantMsgs : m.addr = a_ch.addr /\ UNCHANGED pb /\ d_queue' = Append(d_queue, m)
    BY <1>7
  <2>2. GainMsg(GrantsOf(b), m)
    BY <2>1, AppendGain DEF GrantMsgs
  <2>3. m \in GrantsOf(b) <=> b = a_ch.addr
    BY <2>1 DEF GrantsOf
  <2>4. CASE b = a_ch.addr
    BY <1>1, <1>2, <1>3, <1>4, <2>1, <2>2, <2>3, <2>4 DEF AcquireAt, GainMsg
  <2>5. CASE b # a_ch.addr
    BY <1>1, <1>2, <1>3, <1>4, <2>1, <2>2, <2>3, <2>5 DEF AcquireAt, GainMsg
  <2>6. QED
    BY <2>4, <2>5
<1>8. CASE UNCHANGED <<pb, d_queue>>
  BY <1>1, <1>2, <1>4, <1>8 DEF AcquireAt
<1>9. QED
  BY <1>5, <1>6, <1>7, <1>8

(* GrantData_cb moves the Acquire of its block to the D queue.              *)
LEMMA ProbeAckMoves ==
    ASSUME TypeOK, ProbeSources, AcquireInv, cProbeAck, UNCHANGED acquiring
    PROVE  AcquireInv'
<1> DEFINE cb == pb.c_map[c_ch.source]
<1>1. UNCHANGED <<d_ch, a_ch>> /\ cb \in Callback /\ \A K \in SUBSET GrantCbs : LoseCall(K, cb)
  BY cGrant DEF cProbeAck, cUnchanged
<1>2. CASE cb \notin GrantCbs
  <2>1. \A M \in SUBSET GrantMsgs : KeepMsgs(M)
    BY <1>2, cGrant
  <2>2. \A K \in SUBSET GrantCbs : KeepCalls(K)
    BY <1>1, <1>2 DEF LoseCall, KeepCalls
  <2>3. QED
    BY <1>1, <2>1, <2>2, QuietAcquires
<1>3. CASE cb \in GrantCbs
  <2>1. PICK m \in GrantMsgs : m.addr = cb.addr /\ d_queue' = Append(d_queue, m)
    BY <1>3, cGrant
  <2> HIDE DEF cb
  <2> SUFFICES ASSUME NEW b \in Blocks
               PROVE  AcquireAt(b, a_ch', pb', d_queue', d_ch', acquiring')
    BY DEF AcquireInv
  <2>2. AcquireAt(b, a_ch, pb, d_queue, d_ch, acquiring)
    BY DEF AcquireInv
  <2>3. LoseCall(GrantCallsOf(b), cb)
    BY <1>1, BlockClasses
  <2>4. GainMsg(GrantsOf(b), m)
    BY <2>1, AppendGain DEF GrantMsgs
  <2>5. (cb \in GrantCallsOf(b) <=> b = cb.addr) /\ (m \in GrantsOf(b) <=> b = cb.addr)
    BY <1>3, <2>1 DEF GrantCallsOf, GrantsOf
  <2>6. CASE b = cb.addr
    BY <1>1, <2>2, <2>3, <2>4, <2>5, <2>6 DEF AcquireAt, LoseCall, GainMsg
  <2>7. CASE b # cb.addr
    BY <1>1, <2>2, <2>3, <2>4, <2>5, <2>7 DEF AcquireAt, LoseCall, GainMsg
  <2>8. QED
    BY <2>6, <2>7
<1>4. QED
  BY <1>2, <1>3

(* The steps of the D channel and of the tile.                              *)
LEMMA dAcquires ==
    ASSUME TypeOK, AcquireInv,
           (dDrive /\ UNCHANGED acquiring) \/ tileGrantData \/ tileGrant \/ tileReleaseAck
             \/ tileAccessAck
    PROVE  AcquireInv'
<1> SUFFICES ASSUME NEW b \in Blocks
             PROVE  AcquireAt(b, a_ch', pb', d_queue', d_ch', acquiring')
  BY DEF AcquireInv
<1>1. AcquireAt(b, a_ch, pb, d_queue, d_ch, acquiring)
  BY DEF AcquireInv
<1>2. NoMsg \notin GrantsOf(b)
  BY NoMsgType DEF GrantsOf, GrantMsgs
<1>3. CASE dDrive /\ UNCHANGED acquiring
  <2> DEFINE h == Head(d_queue)
  <2>1. /\ d_ch = NoMsg /\ (d_ch' = h \/ UNCHANGED d_ch) /\ UNCHANGED <<pb, a_ch, acquiring>>
        /\ LoseMsg(GrantsOf(b), h)
    BY <1>3, dMoves DEF dDrive
  <2> HIDE DEF h
  <2>2. QED
    BY <1>1, <1>2, <2>1 DEF AcquireAt, LoseMsg
<1>4. CASE tileGrantData \/ tileGrant
  <2>1. /\ d_ch.op \in {"Grant", "GrantData"} /\ d_ch' = NoMsg
        /\ acquiring' = acquiring \ {d_ch.addr} /\ UNCHANGED <<pb, d_queue, a_ch>>
    BY <1>4 DEF tileGrantData, tileGrant, adapterVars
  <2>2. d_ch \in GrantsOf(b) <=> d_ch.addr = b
    BY <2>1 DEF TypeOK, PortTypeOK, NoMsg, GrantsOf, GrantMsgs
  <2>3. QED
    BY <1>1, <1>2, <2>1, <2>2 DEF AcquireAt
<1>5. CASE tileReleaseAck \/ tileAccessAck
  <2>1. d_ch' = NoMsg /\ UNCHANGED <<pb, d_queue, a_ch, acquiring>>
    BY <1>5 DEF tileReleaseAck, tileAccessAck, adapterVars
  <2>2. QED
    BY <1>1, <1>2, <2>1 DEF AcquireAt
<1>6. QED
  BY <1>3, <1>4, <1>5

(* A new Acquire is for a block that has none.                              *)
LEMMA tileAcquireOnce ==
    ASSUME AcquireInv, NEW c \in Blocks, NEW o \in {"AcquireBlock", "AcquirePerm"},
           tileAcquire(c, o)
    PROVE  AcquireInv'
<1> SUFFICES ASSUME NEW b \in Blocks
             PROVE  AcquireAt(b, a_ch', pb', d_queue', d_ch', acquiring')
  BY DEF AcquireInv
<1>1. AcquireAt(b, a_ch, pb, d_queue, d_ch, acquiring)
  BY DEF AcquireInv
<1>2. /\ c \notin acquiring /\ acquiring' = acquiring \cup {c} /\ UNCHANGED <<pb, d_queue, d_ch>>
      /\ a_ch = NoMsg /\ a_ch'.addr = c
  BY DEF tileAcquire, sendA, adapterVars
<1>3. a_ch.op = "none"
  BY <1>2 DEF NoMsg
<1>4. QED
  BY <1>1, <1>2, <1>3 DEF AcquireAt

(* Every step keeps at most one Acquire per block.                          *)
LEMMA NextAcquires == TypeOK /\ ProbeSources /\ AcquireInv /\ [Next]_vars => AcquireInv'
<1> SUFFICES ASSUME TypeOK, ProbeSources, AcquireInv, [Next]_vars PROVE AcquireInv'
  OBVIOUS
<1>1. CASE adapterStep /\ (aGet \/ aPutTip \/ aPutOwned \/ aAtomic \/ aIntent \/ aNoSink
                             \/ aInterleaved)
  <2>1. UNCHANGED <<d_ch, acquiring>>
    BY <1>1, aQuiet DEF adapterStep, tileVars
  <2>2. a_ch' = a_ch \/ a_ch'.op \notin {"AcquireBlock", "AcquirePerm"}
    BY <1>1, aLeaves
  <2>3. /\ \A K \in SUBSET GrantCbs : KeepCalls(K)
        /\ \A M \in SUBSET GrantMsgs : KeepMsgs(M)
    BY <1>1, aQuiet
  <2>4. QED
    BY <2>1, <2>2, <2>3, QuietAcquires
<1>2. CASE adapterStep /\ (aAcquireBlock \/ aAcquirePerm)
  BY <1>2, AcquireMoves DEF adapterStep, tileVars
<1>3. CASE adapterStep /\ (cBeat \/ cRelease \/ bDrive \/ dataRetriever \/ hostInterface
                             \/ hostUnknownBlock)
  <2>1. UNCHANGED <<d_ch, acquiring, a_ch>>
    BY <1>3, adapterQuiet DEF adapterStep, tileVars, cBeat, cRelease, cUnchanged, bDrive,
                              dataRetriever, hostInterface, hostUnknownBlock, chans
  <2>2. /\ \A K \in SUBSET GrantCbs : KeepCalls(K)
        /\ \A M \in SUBSET GrantMsgs : KeepMsgs(M)
    BY <1>3, adapterQuiet
  <2>3. QED
    BY <2>1, <2>2, QuietAcquires
<1>4. CASE adapterStep /\ cProbeAck
  BY <1>4, ProbeAckMoves DEF adapterStep, tileVars
<1>5. CASE (adapterStep /\ dDrive) \/ tileGrantData \/ tileGrant \/ tileReleaseAck \/ tileAccessAck
  BY <1>5, dAcquires DEF adapterStep, tileVars
<1>6. CASE \E b \in Blocks, o \in {"AcquireBlock", "AcquirePerm"} : tileAcquire(b, o)
  BY <1>6, tileAcquireOnce
<1>7. CASE \E b \in Blocks, o \in UncachedOps : tileAccess(b, o)
  <2>1. PICK b \in Blocks, o \in UncachedOps : tileAccess(b, o)
    BY <1>7
  <2>2. UNCHANGED <<pb, d_queue, d_ch, acquiring>>
    BY <2>1 DEF tileAccess, adapterVars
  <2>3. a_ch'.op \notin {"AcquireBlock", "AcquirePerm"}
    BY <2>1 DEF tileAccess, sendA, UncachedOps
  <2>4. QED
    BY <2>2, <2>3, KeepStep, QuietAcquires
<1>8. CASE \E p \in Programs : runTest(p)
  <2>1. pb' = NoProbes /\ d_queue' = <<>> /\ d_ch' = NoMsg /\ a_ch' = NoMsg
    BY <1>8 DEF runTest, tileReset, adapterStart
  <2>2. ASSUME NEW b \in Blocks PROVE AcquireAt(b, NoMsg, NoProbes, <<>>, NoMsg, acquiring')
    <3>1. ~Calls(NoProbes, GrantCallsOf(b)) /\ CallsOnce(NoProbes, GrantCallsOf(b))
      BY NoProbesCalls, GrantClasses DEF GrantCallsOf
    <3>2. NoMsg \notin GrantsOf(b) /\ NoMsg.op = "none"
      BY NoMsgType DEF GrantsOf, GrantMsgs, NoMsg
    <3>3. QED
      BY <3>1, <3>2, QueuesEmpty DEF AcquireAt
  <2>3. QED
    BY <2>1, <2>2 DEF AcquireInv
<1>9. CASE (adapterStep /\ eGrantAck) \/ (\E b \in Blocks : tileStore(b) \/ tileRelease(b))
           \/ tileProbe \/ poll \/ timeout \/ stop \/ finish \/ ended \/ UNCHANGED vars
  <2>1. UNCHANGED <<a_ch, pb, d_queue, d_ch, acquiring>>
    BY <1>9 DEF adapterStep, eGrantAck, tileStore, tileRelease, tileProbe, poll, timeout, stop,
                finish, ended, vars, adapterVars, chans, tileVars
  <2>2. QED
    BY <2>1 DEF AcquireInv
<1>10. QED
  BY <1>1, <1>2, <1>3, <1>4, <1>5, <1>6, <1>7, <1>8, <1>9 DEF Next

(* Before the first run nothing is under way.                               *)
LEMMA InitAcquires == Init => AcquireInv
<1> SUFFICES ASSUME Init, NEW b \in Blocks
             PROVE  AcquireAt(b, a_ch, pb, d_queue, d_ch, acquiring)
  BY DEF AcquireInv
<1>1. pb = NoProbes /\ d_queue = <<>> /\ d_ch = NoMsg /\ a_ch = NoMsg
  BY DEF Init, adapterInit, tileInit
<1>2. ~Calls(NoProbes, GrantCallsOf(b)) /\ CallsOnce(NoProbes, GrantCallsOf(b))
  BY NoProbesCalls, GrantClasses DEF GrantCallsOf
<1>3. NoMsg \notin GrantsOf(b) /\ NoMsg.op = "none"
  BY NoMsgType DEF GrantsOf, GrantMsgs, NoMsg
<1>4. QED
  BY <1>1, <1>2, <1>3, QueuesEmpty DEF AcquireAt

-----------------------------------------------------------------------------
(* The directory is never behind the tile.  TrunkTracked is not inductive:  *)
(* what erases TRUNK is a report read from the C port, what makes a line T  *)
(* is a grant taken from the D port.  So: no line is T while its Acquire is *)
(* under way; a Grant without data is to T; a grant to T on the port is     *)
(* already in the directory; and while a report that gives up Trunk is on   *)
(* the port, the block is TRUNK, its line is not T and no grant of it is    *)
(* queued or on the port, so reading the report erases nothing new.         *)
BranchGrants == {m \in GrantMsgs : m.op = "Grant" /\ m.param # "toT"}
AcquiredInv == \A b \in acquiring : cache[b].perm # "T"
PermInv ==
    /\ a_ch.op = "AcquirePerm" => a_ch.param # "NtoB"
    /\ ~Queues(d_queue, BranchGrants) /\ d_ch \notin BranchGrants
PortInv == d_ch \in GrantMsgs /\ d_ch.param = "toT" => block_perm[d_ch.addr] = "TRUNK"
GivesUp(c) == c # NoMsg /\ c.param \in {"TtoB", "TtoN"}
ReportInv ==
    GivesUp(c_ch) =>
        /\ block_perm[c_ch.addr] = "TRUNK" /\ cache[c_ch.addr].perm # "T"
        /\ ~Queues(d_queue, GrantsOf(c_ch.addr)) /\ d_ch \notin GrantsOf(c_ch.addr)
TrunkInv == AcquiredInv /\ PermInv /\ PortInv /\ ReportInv /\ TrunkTracked

(* The types the steps rely on.                                             *)
LEMMA TileTypes ==
    ASSUME TypeOK
    PROVE  /\ c_ch # NoMsg => c_ch \in CMessage /\ c_ch.addr \in Blocks
           /\ d_ch # NoMsg => d_ch \in DMessage /\ d_ch.addr \in Blocks
           /\ d_ch \in GrantMsgs => d_ch # NoMsg
           /\ acquiring \subseteq Blocks
           /\ block_perm \in [Blocks -> {"absent", "TIP", "TRUNK"}]
           /\ cache \in [Blocks -> Line]
           /\ \A b \in Blocks : cache[b] \in Line /\ cache[b].perm \in {"N", "B", "T"}
<1>1. c_ch # NoMsg => c_ch \in CMessage /\ c_ch.addr \in Blocks
  BY DEF TypeOK, PortTypeOK, CMessage
<1>2. d_ch # NoMsg => d_ch \in DMessage /\ d_ch.addr \in Blocks
  BY DEF TypeOK, PortTypeOK, DMessage
<1>3. d_ch \in GrantMsgs => d_ch # NoMsg
  BY NoMsgType DEF GrantMsgs
<1>4. /\ acquiring \subseteq Blocks /\ cache \in [Blocks -> Line]
      /\ block_perm \in [Blocks -> {"absent", "TIP", "TRUNK"}]
  BY DEF TypeOK, AdapterTypeOK, TileTypeOK
<1>5. \A b \in Blocks : cache[b] \in Line /\ cache[b].perm \in {"N", "B", "T"}
  BY <1>4 DEF Line
<1>6. QED
  BY <1>1, <1>2, <1>3, <1>4, <1>5

(* Steps that change neither directory, cache nor ports, and make no grant. *)
LEMMA QuietTrunk ==
    ASSUME TypeOK, TrunkInv, UNCHANGED <<d_ch, cache, acquiring>>,
           c_ch' = c_ch \/ ~GivesUp(c_ch'),
           a_ch' = a_ch \/ a_ch'.op # "AcquirePerm",
           \A b \in Blocks : block_perm'[b] = "TRUNK" <=> block_perm[b] = "TRUNK",
           \A M \in SUBSET GrantMsgs : KeepMsgs(M)
    PROVE  TrunkInv'
<1>1. AcquiredInv'
  BY DEF TrunkInv, AcquiredInv
<1>2. PermInv'
  <2>1. KeepMsgs(BranchGrants)
    BY DEF BranchGrants
  <2>2. QED
    BY <2>1 DEF TrunkInv, PermInv, KeepMsgs
<1>3. PortInv'
  BY TileTypes DEF TrunkInv, PortInv
<1>4. ReportInv'
  <2> SUFFICES ASSUME GivesUp(c_ch') PROVE ReportInv'
    BY DEF ReportInv
  <2>1. c_ch' = c_ch /\ c_ch.addr \in Blocks
    BY TileTypes DEF GivesUp
  <2>2. KeepMsgs(GrantsOf(c_ch.addr))
    BY BlockClasses
  <2>3. QED
    BY <2>1, <2>2 DEF TrunkInv, ReportInv, KeepMsgs
<1>5. TrunkTracked'
  BY DEF TrunkInv, TrunkTracked
<1>6. QED
  BY <1>1, <1>2, <1>3, <1>4, <1>5 DEF TrunkInv

(* a_port_monitor enters blocks into the directory, never as TRUNK.         *)
LEMMA aTrunk ==
    ASSUME TypeOK,
           aGet \/ aPutTip \/ aPutOwned \/ aAtomic \/ aIntent \/ aNoSink \/ aAcquireBlock
             \/ aAcquirePerm \/ aInterleaved
    PROVE  \A b \in Blocks : block_perm'[b] = "TRUNK" <=> block_perm[b] = "TRUNK"
<1>1. CASE aInterleaved
  BY <1>1 DEF aInterleaved
<1>2. CASE ~aInterleaved
  <2>1. notePerm /\ a_ch.addr \in Blocks
    BY <1>2, aFireType DEF aGet, aPutTip, aPutOwned, aAtomic, aIntent, aNoSink, aAcquireBlock,
                           aAcquirePerm
  <2>2. QED
    BY <2>1, TileTypes DEF notePerm, permOf
<1>3. QED
  BY <1>1, <1>2

(* An Acquire: it is granted at once only when the block is not TRUNK.      *)
LEMMA AcquireTrunk ==
    ASSUME TypeOK, ProbeSources, TrunkInv, aAcquireBlock \/ aAcquirePerm,
           UNCHANGED <<cache, acquiring>>
    PROVE  TrunkInv'
<1>1. UNCHANGED <<d_ch, c_ch>> /\ a_ch' = NoMsg
  BY DEF aAcquireBlock, aAcquirePerm, aUnchanged, aTake
<1>2. a_ch'.op = "none"
  BY <1>1 DEF NoMsg
<1>3. \A b \in Blocks : block_perm'[b] = "TRUNK" <=> block_perm[b] = "TRUNK"
  BY aTrunk
<1>4. CASE UNCHANGED d_queue
  BY <1>1, <1>2, <1>3, <1>4, KeepStep, QuietTrunk
<1>5. CASE \E m \in GrantMsgs :
             /\ permOf(a_ch.addr) = "TIP" /\ m.addr = a_ch.addr
             /\ m.param = grantCap(a_ch.param) /\ d_queue' = Append(d_queue, m)
             /\ a_ch.op = "AcquireBlock" => m.op = "GrantData"
  <2>1. PICK m \in GrantMsgs :
             /\ permOf(a_ch.addr) = "TIP" /\ m.addr = a_ch.addr
             /\ m.param = grantCap(a_ch.param) /\ d_queue' = Append(d_queue, m)
             /\ a_ch.op = "AcquireBlock" => m.op = "GrantData"
    BY <1>5
  <2>2. a_ch.op \in {"AcquireBlock", "AcquirePerm"}
    BY DEF aAcquireBlock, aAcquirePerm, aFire
  <2>3. \A M : GainMsg(M, m)
    BY <2>1, AppendGain DEF GrantMsgs
  <2>4. m \notin BranchGrants
    BY <2>1, <2>2 DEF BranchGrants, TrunkInv, PermInv, grantCap
  <2>5. PermInv'
    BY <1>1, <1>2, <2>3, <2>4 DEF TrunkInv, PermInv, GainMsg
  <2>6. AcquiredInv' /\ PortInv' /\ TrunkTracked'
    BY <1>1, <1>3, TileTypes DEF TrunkInv, AcquiredInv, PortInv, TrunkTracked
  <2>7. ReportInv'
    <3> SUFFICES ASSUME GivesUp(c_ch) PROVE ReportInv'
      BY <1>1 DEF ReportInv
    <3>1. c_ch.addr \in Blocks /\ block_perm[c_ch.addr] = "TRUNK"
      BY TileTypes DEF GivesUp, TrunkInv, ReportInv
    <3>2. m \notin GrantsOf(c_ch.addr)
      BY <2>1, <3>1 DEF GrantsOf, permOf
    <3>3. GainMsg(GrantsOf(c_ch.addr), m)
      BY <2>3
    <3>4. QED
      BY <1>1, <1>3, <3>1, <3>2, <3>3 DEF TrunkInv, ReportInv, GainMsg
  <2>8. QED
    BY <2>5, <2>6, <2>7 DEF TrunkInv
<1>6. QED
  BY <1>4, <1>5, aGrant

(* A report read from the C port: what it erases no line and no grant on    *)
(* the port relies on.                                                      *)
LEMMA cTrunk ==
    ASSUME TypeOK, ProbeSources, TrunkInv, cProbeAck \/ cRelease, UNCHANGED <<cache, acquiring>>
    PROVE  TrunkInv'
<1>1. /\ UNCHANGED <<d_ch, a_ch>> /\ c_ch' = NoMsg /\ cPerm /\ c_ch # NoMsg
  BY cFireType DEF cProbeAck, cRelease, cUnchanged
<1>2. \A b \in Blocks : block_perm'[b] = "TRUNK" \/ b = c_ch.addr \/ block_perm[b] # "TRUNK"
  BY <1>1, TileTypes DEF cPerm
<1>3. ~GivesUp(c_ch) => UNCHANGED block_perm
  BY <1>1 DEF cPerm, GivesUp
<1>4. AcquiredInv'
  BY DEF TrunkInv, AcquiredInv
<1>5. ReportInv'
  BY <1>1 DEF ReportInv, GivesUp
<1>6. TrunkTracked'
  BY <1>2, <1>3 DEF TrunkInv, TrunkTracked, ReportInv
<1>7. PortInv'
  <2> SUFFICES ASSUME d_ch \in GrantMsgs, d_ch.param = "toT"
               PROVE  block_perm'[d_ch.addr] = "TRUNK"
    BY <1>1 DEF PortInv
  <2>1. block_perm[d_ch.addr] = "TRUNK" /\ d_ch.addr \in Blocks
    BY TileTypes DEF TrunkInv, PortInv
  <2>2. GivesUp(c_ch) => d_ch.addr # c_ch.addr
    BY DEF TrunkInv, ReportInv, GrantsOf
  <2>3. QED
    BY <1>2, <1>3, <2>1, <2>2
<1>8. PermInv'
  <2>1. KeepMsgs(BranchGrants)
    <3>1. BranchGrants \in SUBSET GrantMsgs
      BY DEF BranchGrants
    <3>2. CASE cRelease
      BY <3>1, <3>2, adapterQuiet
    <3>3. CASE cProbeAck /\ pb.c_map[c_ch.source] \notin GrantCbs
      BY <3>1, <3>3, cGrant
    <3>4. CASE cProbeAck /\ pb.c_map[c_ch.source] \in GrantCbs
      <4>1. PICK m \in GrantMsgs : m.op = "GrantData" /\ d_queue' = Append(d_queue, m)
        BY <3>4, cGrant
      <4>2. m \in DMessage /\ m \notin BranchGrants
        BY <4>1 DEF BranchGrants, GrantMsgs
      <4>3. QED
        BY <4>1, <4>2, AppendGain
    <3>5. QED
      BY <3>2, <3>3, <3>4
  <2>2. QED
    BY <1>1, <2>1 DEF TrunkInv, PermInv, KeepMsgs
<1>9. QED
  BY <1>4, <1>5, <1>6, <1>7, <1>8 DEF TrunkInv

(* d_port_driver records a grant to T before the port shows it.             *)
LEMMA dTrunk ==
    ASSUME TypeOK, TrunkInv, dDrive, UNCHANGED <<cache, acquiring>>
    PROVE  TrunkInv'
<1> DEFINE h == Head(d_queue)
<1>1. /\ h \in DMessage /\ d_ch = NoMsg /\ (d_ch' = h \/ UNCHANGED d_ch)
      /\ \A M : LoseMsg(M, h) /\ UNCHANGED <<a_ch, c_ch>>
  BY dMoves DEF dDrive
<1>2. block_perm' = IF h.cb = "updatePerm" THEN updatePerm(h.addr, h.param) ELSE block_perm
  BY DEF dDrive
<1>3. h.addr \in Blocks /\ (h \in GrantMsgs => h.cb = "updatePerm")
  BY <1>1 DEF DMessage, GrantMsgs
<1> HIDE DEF h
<1>4. /\ \A b \in Blocks : block_perm[b] = "TRUNK" => block_perm'[b] = "TRUNK"
      /\ h \in GrantMsgs /\ h.param = "toT" => block_perm'[h.addr] = "TRUNK"
  BY <1>2, <1>3, TileTypes DEF updatePerm
<1>5. AcquiredInv' /\ TrunkTracked'
  BY <1>4, TileTypes DEF TrunkInv, AcquiredInv, TrunkTracked
<1>6. PermInv'
  <2>1. LoseMsg(BranchGrants, h)
    BY <1>1
  <2>2. QED
    BY <1>1, <2>1 DEF TrunkInv, PermInv, LoseMsg
<1>7. PortInv'
  BY <1>1, <1>4, TileTypes DEF TrunkInv, PortInv
<1>8. ReportInv'
  <2> SUFFICES ASSUME GivesUp(c_ch) PROVE ReportInv'
    BY <1>1 DEF ReportInv
  <2>1. c_ch.addr \in Blocks /\ LoseMsg(GrantsOf(c_ch.addr), h)
    BY <1>1, TileTypes DEF GivesUp
  <2>2. QED
    BY <1>1, <1>4, <2>1 DEF TrunkInv, ReportInv, LoseMsg
<1>9. QED
  BY <1>5, <1>6, <1>7, <1>8 DEF TrunkInv

(* A line of the tile loses T when the tile reports it, at the latest.      *)
LEMMA reportTrunk ==
    ASSUME TypeOK, AcquireInv, TrunkInv, NEW b \in Blocks, NEW line,
           cache' = [cache EXCEPT ![b] = line], line.perm = "T" => cache[b].perm = "T",
           GivesUp(c_ch') => c_ch'.addr = b /\ cache[b].perm = "T" /\ line.perm # "T",
           UNCHANGED <<d_ch, a_ch, d_queue, acquiring, block_perm>>
    PROVE  TrunkInv'
<1>1. \A x \in Blocks : cache'[x].perm = "T" => cache[x].perm = "T"
  BY TileTypes
<1>2. AcquiredInv' /\ TrunkTracked'
  BY <1>1, TileTypes DEF TrunkInv, AcquiredInv, TrunkTracked
<1>3. PermInv' /\ PortInv'
  BY DEF TrunkInv, PermInv, PortInv
<1>4. ReportInv'
  <2> SUFFICES ASSUME GivesUp(c_ch') PROVE ReportInv'
    BY DEF ReportInv
  <2>1. c_ch'.addr = b /\ cache[b].perm = "T" /\ cache'[b].perm # "T"
    BY TileTypes
  <2>2. block_perm[b] = "TRUNK" /\ b \notin acquiring
    BY <2>1 DEF TrunkInv, TrunkTracked, AcquiredInv
  <2>3. AcquireAt(b, a_ch, pb, d_queue, d_ch, acquiring)
    BY DEF AcquireInv
  <2>4. ~Queues(d_queue, GrantsOf(b)) /\ d_ch \notin GrantsOf(b)
    BY <2>2, <2>3 DEF AcquireAt
  <2>5. QED
    BY <2>1, <2>2, <2>4 DEF ReportInv
<1>5. QED
  BY <1>2, <1>3, <1>4 DEF TrunkInv

(* The answers to probes and the evictions.                                 *)
LEMMA shrinkGives ==
    ASSUME NEW perm \in {"N", "B", "T"}, NEW cap \in Caps
    PROVE  LET r == shrink(perm, cap)
           IN /\ r[1] = "T" => perm = "T"
              /\ r[2] \in {"TtoB", "TtoN"} => perm = "T" /\ r[1] # "T"
              /\ r[2] \in {"TtoB", "TtoN", "TtoT"} <=> perm = "T"
              /\ r[2] = "TtoT" => r[1] = "T"
              /\ r[1] \in {"N", "B", "T"}
BY DEF shrink, Caps

(* A probe answered shrinks the line by the permissions that the response reports. *)
LEMMA tileProbeTrunk ==
    ASSUME TypeOK, AcquireInv, TrunkInv, tileProbe PROVE TrunkInv'
<1> DEFINE b == b_ch.addr
           r == shrink(cache[b].perm, b_ch.param)
           line == IF r[1] = "N" THEN NoLine ELSE [cache[b] EXCEPT !.perm = r[1], !.dirty = FALSE]
<1>1. b \in Blocks /\ b_ch.param \in Caps
  BY DEF tileProbe, TypeOK, PortTypeOK, BMessage
<1>2. cache[b].perm \in {"N", "B", "T"} /\ cache[b] \in Line
  BY <1>1, TileTypes
<1>3. /\ c_ch'.param = r[2] /\ c_ch'.addr = b /\ cache' = [cache EXCEPT ![b] = line]
      /\ UNCHANGED <<d_ch, a_ch, d_queue, acquiring, block_perm>>
  BY DEF tileProbe, sendC, adapterVars
<1>4. /\ r[1] = "T" => cache[b].perm = "T"
      /\ r[2] \in {"TtoB", "TtoN"} => cache[b].perm = "T" /\ r[1] # "T"
  BY <1>1, <1>2, shrinkGives
<1>5. line.perm = r[1]
  BY <1>2 DEF NoLine, Line
<1> HIDE DEF b, r, line
<1>6. QED
  BY <1>1, <1>3, <1>4, <1>5, reportTrunk DEF GivesUp

(* A voluntary release gives up the line's permission with the message that reports it. *)
LEMMA tileReleaseTrunk ==
    ASSUME TypeOK, AcquireInv, TrunkInv, NEW b \in Blocks, tileRelease(b) PROVE TrunkInv'
<1>1. cache[b] \in Line /\ cache[b].perm \in {"N", "B", "T"}
  BY TileTypes
<1>2. PICK keep \in {"N", "B"} :
        /\ cache[b].perm = "B" => keep = "N"
        /\ sendC(IF cache[b].dirty THEN "ReleaseData" ELSE "Release",
                 IF cache[b].perm = "B" THEN "BtoN" ELSE IF keep = "B" THEN "TtoB" ELSE "TtoN",
                 NoBlock, b, cache[b].data)
        /\ cache' = [cache EXCEPT ![b] = IF keep = "N" THEN NoLine
                                         ELSE [@ EXCEPT !.perm = "B", !.dirty = FALSE]]
  BY DEF tileRelease
<1> DEFINE line == IF keep = "N" THEN NoLine ELSE [cache[b] EXCEPT !.perm = "B", !.dirty = FALSE]
<1>3. cache' = [cache EXCEPT ![b] = line]
  BY <1>2
<1>4. line.perm \in {"N", "B"}
  BY <1>1 DEF NoLine, Line
<1>5. /\ c_ch'.addr = b /\ c_ch'.param \in {"TtoB", "TtoN"} => cache[b].perm # "B"
  BY <1>2 DEF sendC
<1>6. cache[b].perm # "N" /\ UNCHANGED <<d_ch, a_ch, d_queue, acquiring, block_perm>>
  BY DEF tileRelease, adapterVars
<1>7. c_ch'.addr = b
  BY <1>2 DEF sendC
<1> HIDE DEF line
<1>8. GivesUp(c_ch') => c_ch'.addr = b /\ cache[b].perm = "T" /\ line.perm # "T"
  BY <1>1, <1>4, <1>5, <1>6, <1>7 DEF GivesUp
<1>9. QED
  BY <1>3, <1>4, <1>6, <1>8, reportTrunk

(* A grant is taken: its Acquire is over, and the directory has it.         *)
LEMMA tileGrantTrunk ==
    ASSUME TypeOK, AcquireInv, TrunkInv, tileGrantData \/ tileGrant PROVE TrunkInv'
<1> DEFINE b == d_ch.addr
<1>1. /\ d_ch.op \in {"Grant", "GrantData"} /\ d_ch' = NoMsg /\ acquiring' = acquiring \ {b}
      /\ UNCHANGED <<a_ch, c_ch, d_queue, pb, block_perm>>
  BY DEF tileGrantData, tileGrant, adapterVars
<1>2. d_ch \in GrantMsgs /\ b \in Blocks /\ d_ch \in GrantsOf(b)
  BY <1>1 DEF TypeOK, PortTypeOK, NoMsg, GrantMsgs, DMessage, GrantsOf
<1>3. \A x \in Blocks \ {b} : cache'[x] = cache[x]
  BY TileTypes DEF tileGrantData, tileGrant
<1>4. cache'[b].perm = "T" => block_perm[b] = "TRUNK"
  <2>1. CASE tileGrant
    <3>1. d_ch.op = "Grant"
      BY <2>1 DEF tileGrant
    <3>2. d_ch.param = "toT"
      BY <1>2, <3>1 DEF TrunkInv, PermInv, BranchGrants
    <3>3. QED
      BY <1>2, <3>2 DEF TrunkInv, PortInv
  <2>2. CASE tileGrantData
    <3>1. cache'[b].perm = "T" => d_ch.param = "toT"
      BY <1>2, <2>2, TileTypes DEF tileGrantData
    <3>2. QED
      BY <1>2, <3>1 DEF TrunkInv, PortInv
  <2>3. QED
    BY <2>1, <2>2
<1>5. NoMsg \notin GrantMsgs
  BY NoMsgType DEF GrantMsgs
<1> HIDE DEF b
<1>6. AcquiredInv'
  BY <1>1, <1>3, TileTypes DEF TrunkInv, AcquiredInv
<1>7. TrunkTracked'
  BY <1>1, <1>3, <1>4 DEF TrunkInv, TrunkTracked
<1>8. PortInv' /\ PermInv'
  BY <1>1, <1>5 DEF TrunkInv, PortInv, PermInv, BranchGrants
<1>9. ReportInv'
  <2> SUFFICES ASSUME GivesUp(c_ch) PROVE ReportInv'
    BY <1>1 DEF ReportInv
  <2>1. c_ch.addr \in Blocks /\ c_ch.addr # b
    BY <1>2, TileTypes DEF GivesUp, TrunkInv, ReportInv
  <2>2. QED
    BY <1>1, <1>3, <1>5, <2>1 DEF TrunkInv, ReportInv, GrantsOf
<1>10. QED
  BY <1>6, <1>7, <1>8, <1>9 DEF TrunkInv

(* An Acquire is made for a line that is not T.                             *)
LEMMA tileAcquireTrunk ==
    ASSUME TypeOK, TrunkInv, NEW b \in Blocks, NEW o \in {"AcquireBlock", "AcquirePerm"},
           tileAcquire(b, o)
    PROVE  TrunkInv'
<1>1. UNCHANGED <<c_ch, d_ch, d_queue, block_perm, cache>> /\ acquiring' = acquiring \cup {b}
  BY DEF tileAcquire, adapterVars
<1>2. PICK g \in Grows :
        /\ g \in CASE cache[b].perm = "N" -> {"NtoB", "NtoT"}
                   [] cache[b].perm = "B" -> {"BtoT"}
                   [] OTHER -> {}
        /\ o = "AcquirePerm" => g # "NtoB"
        /\ sendA(o, g, b, 1, 0)
  BY DEF tileAcquire
<1>3. cache[b].perm # "T"
  BY <1>2
<1>4. a_ch'.op = o /\ a_ch'.param = g
  BY <1>2 DEF sendA
<1>5. AcquiredInv' /\ TrunkTracked'
  BY <1>1, <1>3 DEF TrunkInv, AcquiredInv, TrunkTracked
<1>6. PermInv' /\ PortInv' /\ ReportInv'
  BY <1>1, <1>2, <1>4 DEF TrunkInv, PermInv, PortInv, ReportInv
<1>7. QED
  BY <1>5, <1>6 DEF TrunkInv

(* A store hit needs T and keeps it.                                        *)
LEMMA tileStoreTrunk ==
    ASSUME TypeOK, TrunkInv, NEW b \in Blocks, tileStore(b) PROVE TrunkInv'
<1>1. UNCHANGED <<a_ch, c_ch, d_ch, d_queue, block_perm, acquiring>>
  BY DEF tileStore, adapterVars, chans
<1>2. \A x \in Blocks : cache'[x].perm = cache[x].perm
  BY TileTypes DEF tileStore, Line
<1>3. QED
  BY <1>1, <1>2, TileTypes DEF TrunkInv, AcquiredInv, TrunkTracked, PermInv, PortInv, ReportInv,
                               GivesUp

(* The beats of a report leave its kind and its block as they are.          *)
LEMMA cBeatTrunk ==
    ASSUME TypeOK, TrunkInv, cBeat, UNCHANGED <<cache, acquiring>> PROVE TrunkInv'
<1>1. UNCHANGED <<a_ch, d_ch, d_queue, block_perm>> /\ c_ch' = [c_ch EXCEPT !.beat = @ + 1]
  BY DEF cBeat, cUnchanged
<1>2. c_ch \in CMessage
  BY cFireType DEF cBeat
<1>3. c_ch'.param = c_ch.param /\ c_ch'.addr = c_ch.addr
  BY <1>1, <1>2 DEF CMessage
<1>4. c_ch # NoMsg
  BY <1>2, NoMsgType
<1>5. QED
  BY <1>1, <1>3, <1>4 DEF TrunkInv, AcquiredInv, PermInv, PortInv, ReportInv, GivesUp, TrunkTracked

(* Every step of the system keeps the directory ahead of the tile.          *)
LEMMA NextTrunk ==
    TypeOK /\ ProbeSources /\ AcquireInv /\ TrunkInv /\ [Next]_vars => TrunkInv'
<1> SUFFICES ASSUME TypeOK, ProbeSources, AcquireInv, TrunkInv, [Next]_vars PROVE TrunkInv'
  OBVIOUS
<1>1. CASE adapterStep /\ (aGet \/ aPutTip \/ aPutOwned \/ aAtomic \/ aIntent \/ aNoSink
                             \/ aInterleaved)
  <2>1. UNCHANGED <<d_ch, c_ch, cache, acquiring>>
    BY <1>1 DEF adapterStep, tileVars, aGet, aPutTip, aPutOwned, aAtomic, aIntent, aNoSink,
                aInterleaved, aUnchanged
  <2>2. a_ch' = a_ch \/ a_ch'.op # "AcquirePerm"
    BY <1>1, aLeaves
  <2>3. \A b \in Blocks : block_perm'[b] = "TRUNK" <=> block_perm[b] = "TRUNK"
    BY <1>1, aTrunk
  <2>4. \A M \in SUBSET GrantMsgs : KeepMsgs(M)
    BY <1>1, aQuiet
  <2>5. QED
    BY <2>1, <2>2, <2>3, <2>4, QuietTrunk
<1>2. CASE adapterStep /\ (aAcquireBlock \/ aAcquirePerm)
  BY <1>2, AcquireTrunk DEF adapterStep, tileVars
<1>3. CASE adapterStep /\ cBeat
  BY <1>3, cBeatTrunk DEF adapterStep, tileVars
<1>4. CASE adapterStep /\ (cProbeAck \/ cRelease)
  BY <1>4, cTrunk DEF adapterStep, tileVars
<1>5. CASE adapterStep /\ dDrive
  BY <1>5, dTrunk DEF adapterStep, tileVars
<1>6. CASE \E b \in Blocks : tileStore(b)
  BY <1>6, tileStoreTrunk
<1>7. CASE \E b \in Blocks : tileRelease(b)
  BY <1>7, tileReleaseTrunk
<1>8. CASE \E b \in Blocks, o \in {"AcquireBlock", "AcquirePerm"} : tileAcquire(b, o)
  BY <1>8, tileAcquireTrunk
<1>9. CASE tileProbe
  BY <1>9, tileProbeTrunk
<1>10. CASE tileGrantData \/ tileGrant
  BY <1>10, tileGrantTrunk
<1>11. CASE \E b \in Blocks, o \in UncachedOps : tileAccess(b, o)
  <2>1. PICK b \in Blocks, o \in UncachedOps : tileAccess(b, o)
    BY <1>11
  <2>2. UNCHANGED <<d_queue, d_ch, c_ch, cache, acquiring, block_perm>>
    BY <2>1 DEF tileAccess, adapterVars
  <2>3. a_ch'.op # "AcquirePerm"
    BY <2>1 DEF tileAccess, sendA, UncachedOps
  <2>4. QED
    BY <2>2, <2>3, KeepStep, QuietTrunk
<1>12. CASE tileReleaseAck \/ tileAccessAck
  <2>1. d_ch' = NoMsg /\ UNCHANGED <<d_queue, a_ch, c_ch, cache, acquiring, block_perm>>
    BY <1>12 DEF tileReleaseAck, tileAccessAck, adapterVars
  <2>2. NoMsg \notin GrantMsgs
    BY NoMsgType DEF GrantMsgs
  <2>3. QED
    BY <2>1, <2>2 DEF TrunkInv, AcquiredInv, PermInv, PortInv, ReportInv, TrunkTracked,
                      BranchGrants, GrantsOf
<1>13. CASE \E p \in Programs : runTest(p)
  <2>1. /\ d_queue' = <<>> /\ d_ch' = NoMsg /\ a_ch' = NoMsg /\ c_ch' = NoMsg /\ acquiring' = {}
        /\ cache' = [b \in Blocks |-> NoLine]
    BY <1>13 DEF runTest, tileReset, adapterStart
  <2>2. NoMsg \notin GrantMsgs /\ a_ch'.op = "none"
    BY <2>1, NoMsgType DEF GrantMsgs, NoMsg
  <2>3. QED
    BY <2>1, <2>2, QueuesEmpty DEF TrunkInv, AcquiredInv, PermInv, PortInv, ReportInv, GivesUp,
                      TrunkTracked, BranchGrants, NoLine
<1>14. CASE adapterStep /\ (bDrive \/ dataRetriever \/ hostInterface \/ hostUnknownBlock
                              \/ eGrantAck)
  <2>1. UNCHANGED <<a_ch, c_ch, d_ch, d_queue, cache, acquiring, block_perm>>
    BY <1>14 DEF adapterStep, tileVars, bDrive, dataRetriever, hostInterface, hostUnknownBlock,
                 eGrantAck, chans
  <2>2. QED
    BY <2>1, KeepStep, QuietTrunk
<1>15. CASE poll \/ timeout \/ stop \/ finish \/ ended \/ UNCHANGED vars
  <2>1. UNCHANGED <<a_ch, c_ch, d_ch, d_queue, cache, acquiring, block_perm>>
    BY <1>15 DEF poll, timeout, stop, finish, ended, vars, adapterVars, chans, tileVars
  <2>2. QED
    BY <2>1, KeepStep, QuietTrunk
<1>16. QED
  BY <1>1, <1>2, <1>3, <1>4, <1>5, <1>6, <1>7, <1>8, <1>9, <1>10, <1>11, <1>12, <1>13, <1>14,
     <1>15 DEF Next

(* Before the first run no line is valid and the ports are quiet.           *)
LEMMA InitTrunk == Init => TrunkInv
<1> SUFFICES ASSUME Init PROVE TrunkInv
  OBVIOUS
<1>1. /\ d_queue = <<>> /\ d_ch = NoMsg /\ a_ch = NoMsg /\ c_ch = NoMsg /\ acquiring = {}
      /\ cache = [b \in Blocks |-> NoLine]
  BY DEF Init, adapterInit, tileInit
<1>2. NoMsg \notin GrantMsgs /\ a_ch.op = "none"
  BY <1>1, NoMsgType DEF GrantMsgs, NoMsg
<1>3. QED
  BY <1>1, <1>2, QueuesEmpty DEF TrunkInv, AcquiredInv, PermInv, PortInv, ReportInv, GivesUp,
                    TrunkTracked, BranchGrants, NoLine

(* Whatever the tile requests and in whatever order grants, probes and      *)
(* reports cross: block_perm records TRUNK for every block the tile may     *)
(* write.  host_interface, probe_blocks and the callbacks rely on it.       *)
THEOREM TrunkIsTracked == Spec => []TrunkTracked
<1>1. TrunkInv => TrunkTracked
  BY DEF TrunkInv
<1>2. QED
  BY <1>1, InitAcquires, InitTrunk, NextAcquires, NextTrunk, TypeCorrect, ProbeSourcesSound, PTL
     DEF Spec

-----------------------------------------------------------------------------
(* No store is lost.  For a block the tile writes only through its cache:   *)
(* a dirty line is T and newest; memory is newest unless the directory says *)
(* TRUNK; a message with data comes from a line that was T, what it carries *)
(* is newest unless the line has been written again, and the words read so  *)
(* far are in memory; the newest store is in memory, in the line or in the  *)
(* message; and no GrantData on its way is stale.                           *)
CarriesData(c) == c.op \in {"ProbeAckData", "ReleaseData"}
Stale(b, v) == {m \in GrantMsgs : m.op = "GrantData" /\ m.addr = b /\ m.data # Fill(v)}
CarryAt(b, mem, line, c, n, v) ==
    CarriesData(c) /\ c.addr = b =>
        /\ c.param \in {"TtoB", "TtoN", "TtoT"} /\ (c.param = "TtoT" => line.perm = "T")
        /\ c.data = Fill(v) \/ line.dirty
        /\ \A i \in Beat : i < n => mem[i] = c.data[i]
KeptAt(b, mem, line, c, v) ==
    mem = Fill(v) \/ line.dirty \/ (CarriesData(c) /\ c.addr = b /\ c.data = Fill(v))
StoreAt(b, mem, perm, line, c, n, Q, d, v) ==
    /\ line.dirty => line.perm = "T" /\ line.data = Fill(v)
    /\ perm # "TRUNK" => mem = Fill(v)
    /\ CarryAt(b, mem, line, c, n, v)
    /\ KeptAt(b, mem, line, c, v)
    /\ ~Queues(Q, Stale(b, v)) /\ d \notin Stale(b, v)
WriteRequests == {"Put", "Arithmetic", "Logical"}
DirtyInv == \A b \in Blocks : cache[b].dirty => cache[b].perm = "T"
StoreInv ==
    /\ DirtyInv
    /\ \A b \in CachedOnly :
         StoreAt(b, memory[b], block_perm[b], cache[b], c_ch, c_count, d_queue, d_ch, latest[b])
    /\ a_ch.op \in WriteRequests => a_ch.addr \notin CachedOnly

(* What StoreInv says is what NoStoreLost says, and more.                   *)
LEMMA StoresKept == ASSUME TypeOK, StoreInv PROVE NoStoreLost
<1> SUFFICES ASSUME NEW b \in CachedOnly
             PROVE  IF block_perm[b] # "TRUNK" THEN memory[b] = Fill(latest[b])
                    ELSE \/ memory[b] = Fill(latest[b])
                         \/ cache[b].dirty /\ cache[b].data = Fill(latest[b])
                         \/ c_ch # NoMsg /\ c_ch.addr = b /\ c_ch.data = Fill(latest[b])
  BY DEF NoStoreLost
<1>1. StoreAt(b, memory[b], block_perm[b], cache[b], c_ch, c_count, d_queue, d_ch, latest[b])
  BY DEF StoreInv
<1>2. CarriesData(c_ch) => c_ch # NoMsg
  BY DEF CarriesData, NoMsg
<1>3. QED
  BY <1>1, <1>2 DEF StoreAt, KeptAt

(* A step that leaves block b alone but for what its grants do.             *)
LEMMA QuietStore ==
    ASSUME StoreInv, NEW b \in CachedOnly,
           memory'[b] = memory[b], block_perm'[b] # "TRUNK" => block_perm[b] # "TRUNK",
           cache'[b] = cache[b], latest'[b] = latest[b], UNCHANGED <<c_ch, c_count>>,
           Queues(d_queue', Stale(b, latest[b])) => Queues(d_queue, Stale(b, latest[b])),
           d_ch' \in Stale(b, latest[b]) =>
               d_ch \in Stale(b, latest[b]) \/ Queues(d_queue, Stale(b, latest[b]))
    PROVE  StoreAt(b, memory'[b], block_perm'[b], cache'[b], c_ch', c_count', d_queue', d_ch',
                   latest'[b])
<1>1. StoreAt(b, memory[b], block_perm[b], cache[b], c_ch, c_count, d_queue, d_ch, latest[b])
  BY DEF StoreInv
<1>2. QED
  BY <1>1 DEF StoreAt, CarryAt, KeptAt

(* Stale grants are grants of their block.                                  *)
LEMMA StaleClass ==
    ASSUME NEW b, NEW v
    PROVE  /\ Stale(b, v) \in SUBSET GrantMsgs /\ Stale(b, v) \subseteq GrantsOf(b)
           /\ NoMsg \notin Stale(b, v)
BY NoMsgType DEF Stale, GrantMsgs, GrantsOf

(* A tile writes a CachedOnly block through its cache only.                 *)
LEMMA aMemory ==
    ASSUME TypeOK, StoreInv, NEW b \in CachedOnly,
           aGet \/ aPutTip \/ aPutOwned \/ aAtomic \/ aIntent \/ aNoSink \/ aAcquireBlock
             \/ aAcquirePerm \/ aInterleaved
    PROVE  memory'[b] = memory[b]
<1>1. CASE aGet \/ aPutOwned \/ aIntent \/ aNoSink \/ aAcquireBlock \/ aAcquirePerm
           \/ aInterleaved
  BY <1>1 DEF aGet, aPutOwned, aIntent, aNoSink, aAcquireBlock, aAcquirePerm, aInterleaved
<1>2. CASE aPutTip \/ aAtomic
  <2>1. a_ch.op \in WriteRequests
    BY <1>2 DEF aPutTip, aAtomic, aFire, WriteRequests
  <2>2. a_ch.addr # b /\ memory \in [Blocks -> Words] /\ b \in Blocks
    BY <2>1, ZenonT(60) DEF StoreInv, TypeOK, AdapterTypeOK, CachedOnly
  <2>3. memory' = memory \/ memory' = putWord
    BY <1>2 DEF aPutTip, aAtomic
  <2>4. QED
    BY <2>2, <2>3 DEF putWord
<1>3. QED
  BY <1>1, <1>2

(* What is left on the A port is no new write.                              *)
LEMMA aLeavesWrite ==
    ASSUME TypeOK, StoreInv,
           aGet \/ aPutTip \/ aPutOwned \/ aAtomic \/ aIntent \/ aNoSink \/ aAcquireBlock
             \/ aAcquirePerm \/ aInterleaved
    PROVE  a_ch'.op \in WriteRequests => a_ch'.addr \notin CachedOnly
<1>1. CASE aPutTip \/ aPutOwned
  <2>0. aFire({"Put"}) /\ aNextBeat
    BY <1>1 DEF aPutTip, aPutOwned
  <2>1. a_ch \in AMessage /\ a_ch.op = "Put" /\ aNextBeat
    BY <2>0, aFireType
  <2>2. a_ch' = NoMsg \/ a_ch' = [a_ch EXCEPT !.beat = @ + 1]
    BY <2>1 DEF aNextBeat
  <2>3. a_ch'.op = "none" \/ a_ch'.addr = a_ch.addr
    BY <2>1, <2>2 DEF NoMsg, AMessage
  <2>4. QED
    BY <2>1, <2>3 DEF StoreInv, WriteRequests
<1>2. CASE aInterleaved
  BY <1>2 DEF aInterleaved, StoreInv
<1>3. CASE aGet \/ aAtomic \/ aIntent \/ aNoSink \/ aAcquireBlock \/ aAcquirePerm
  <2>1. a_ch' = NoMsg
    BY <1>3 DEF aGet, aAtomic, aIntent, aNoSink, aAcquireBlock, aAcquirePerm, aTake
  <2>2. QED
    BY <2>1 DEF NoMsg, WriteRequests
<1>4. QED
  BY <1>1, <1>2, <1>3

(* An Acquire granted at once reads memory while no one owns the block.     *)
LEMMA AcquireStore ==
    ASSUME TypeOK, ProbeSources, StoreInv, aAcquireBlock \/ aAcquirePerm,
           UNCHANGED <<cache, latest>>, NEW b \in CachedOnly
    PROVE  StoreAt(b, memory'[b], block_perm'[b], cache'[b], c_ch', c_count', d_queue', d_ch',
                   latest'[b])
<1>1. b \in Blocks /\ memory'[b] = memory[b]
  BY aMemory DEF CachedOnly
<1>2. block_perm'[b] = "TRUNK" <=> block_perm[b] = "TRUNK"
  BY <1>1, aTrunk
<1>3. UNCHANGED <<d_ch, c_ch, c_count>>
  BY DEF aAcquireBlock, aAcquirePerm, aUnchanged
<1> DEFINE M == Stale(b, latest[b])
<1>4. Queues(d_queue', M) => Queues(d_queue, M)
  <2>1. CASE UNCHANGED d_queue
    BY <2>1
  <2>2. CASE \E m \in GrantMsgs :
               /\ permOf(a_ch.addr) = "TIP" /\ m.addr = a_ch.addr
               /\ m.op = "GrantData" => m.data = memory[a_ch.addr]
               /\ d_queue' = Append(d_queue, m)
    <3>1. PICK m \in GrantMsgs :
               /\ permOf(a_ch.addr) = "TIP" /\ m.addr = a_ch.addr
               /\ m.op = "GrantData" => m.data = memory[a_ch.addr]
               /\ d_queue' = Append(d_queue, m)
      BY <2>2
    <3>2. b = a_ch.addr => memory[b] = Fill(latest[b])
      BY <3>1 DEF permOf, StoreInv, StoreAt
    <3>3. m \notin M
      BY <3>1, <3>2 DEF Stale
    <3>4. m \in DMessage
      BY DEF GrantMsgs
    <3> HIDE DEF M
    <3>5. QED
      BY <3>1, <3>3, <3>4, AppendGain DEF KeepMsgs
  <2>3. QED
    BY <2>1, <2>2, aGrant
<1>5. QED
  BY <1>1, <1>2, <1>3, <1>4, QuietStore

(* The words of a data message in memory, beat by beat.                     *)
LEMMA cWrites ==
    ASSUME TypeOK, cFire({"ProbeAck", "ProbeAckData", "Release", "ReleaseData"})
    PROVE  /\ \A b \in Blocks : b # c_ch.addr \/ ~CarriesData(c_ch) => cWrite[b] = memory[b]
           /\ CarriesData(c_ch) /\ (\A i \in Beat : i < c_count => memory[c_ch.addr][i] = c_ch.data[i])
                => /\ \A i \in Beat : i < c_count + 1 => cWrite[c_ch.addr][i] = c_ch.data[i]
                   /\ lastBeat => cWrite[c_ch.addr] = c_ch.data
<1> DEFINE a == c_ch.addr
<1>1. c_ch \in CMessage /\ a \in Blocks /\ c_ch # NoMsg
  BY cFireType
<1>2. /\ memory \in [Blocks -> Words] /\ c_count \in Beat /\ c_count = c_ch.beat
      /\ c_ch.data \in [Beat -> Nat]
  BY <1>1 DEF TypeOK, AdapterTypeOK, CMessage, Words
<1>3. hasData <=> CarriesData(c_ch)
  BY DEF hasData, CarriesData
<1>4. \A b \in Blocks : b # a \/ ~CarriesData(c_ch) => cWrite[b] = memory[b]
  BY <1>2, <1>3 DEF cWrite
<1>5. ASSUME CarriesData(c_ch), \A i \in Beat : i < c_count => memory[a][i] = c_ch.data[i]
      PROVE  /\ \A i \in Beat : i < c_count + 1 => cWrite[a][i] = c_ch.data[i]
             /\ lastBeat => cWrite[a] = c_ch.data
  <2> DEFINE w == cWrite[a]
  <2>1. w = [memory[a] EXCEPT ![c_count] = c_ch.data[c_count]]
    BY <1>1, <1>2, <1>3, <1>5 DEF cWrite
  <2>2. memory[a] \in [Beat -> Nat]
    BY <1>1, <1>2 DEF Words
  <2>3. w \in [Beat -> Nat] /\ \A i \in Beat : w[i] = IF i = c_count THEN c_ch.data[i]
                                                       ELSE memory[a][i]
    BY <1>2, <2>1, <2>2
  <2> HIDE DEF w
  <2>4. ASSUME NEW i \in Beat, i < c_count + 1 PROVE w[i] = c_ch.data[i]
    <3>1. i \in Nat /\ c_count \in Nat
      BY <1>2 DEF Beat
    <3>2. i = c_count \/ i < c_count
      BY <2>4, <3>1
    <3>3. i < c_count => memory[a][i] = c_ch.data[i]
      BY <1>5
    <3>4. w[i] = IF i = c_count THEN c_ch.data[i] ELSE memory[a][i]
      BY <2>3
    <3>5. QED
      BY <3>2, <3>3, <3>4
  <2>5. lastBeat => \A i \in Beat : w[i] = c_ch.data[i]
    BY <1>2, <1>3, <1>5, <2>4, BeatsAssumption DEF lastBeat, Beat
  <2>6. lastBeat => w = c_ch.data
    BY <1>2, <2>3, <2>5
  <2>7. QED
    BY <2>4, <2>6 DEF w
<1>6. QED
  BY <1>4, <1>5

(* A beat that is not the last: only TRUNK blocks are written this way.     *)
LEMMA cBeatStore ==
    ASSUME TypeOK, TrunkInv, StoreInv, cBeat, UNCHANGED <<cache, latest>>, NEW b \in CachedOnly
    PROVE  StoreAt(b, memory'[b], block_perm'[b], cache'[b], c_ch', c_count', d_queue', d_ch',
                   latest'[b])
<1>1. /\ UNCHANGED <<d_ch, d_queue, block_perm>> /\ c_ch' = [c_ch EXCEPT !.beat = @ + 1]
      /\ memory' = cWrite /\ c_count' = c_count + 1
  BY DEF cBeat, cUnchanged
<1>2. c_ch \in CMessage /\ CarriesData(c_ch) /\ c_ch # NoMsg
  BY cFireType DEF cBeat, CarriesData
<1>3. /\ c_ch'.param = c_ch.param /\ c_ch'.addr = c_ch.addr /\ c_ch'.op = c_ch.op
      /\ c_ch'.data = c_ch.data
  BY <1>1, <1>2 DEF CMessage
<1>4. StoreAt(b, memory[b], block_perm[b], cache[b], c_ch, c_count, d_queue, d_ch, latest[b])
  BY DEF StoreInv
<1>5. cFire({"ProbeAck", "ProbeAckData", "Release", "ReleaseData"})
  BY DEF cBeat, cFire
<1>6. CASE b # c_ch.addr
  <2>1. memory'[b] = memory[b]
    BY <1>1, <1>5, <1>6, cWrites DEF CachedOnly
  <2>2. QED
    BY <1>1, <1>3, <1>4, <1>6, <2>1 DEF StoreAt, CarryAt, KeptAt
<1>7. CASE b = c_ch.addr
  <2>1. CarryAt(b, memory[b], cache[b], c_ch, c_count, latest[b])
    BY <1>4 DEF StoreAt
  <2>2. \A i \in Beat : i < c_count' => memory'[b][i] = c_ch'.data[i]
    BY <1>1, <1>2, <1>3, <1>5, <1>7, <2>1, cWrites DEF CarryAt
  <2>3. block_perm[b] = "TRUNK"
    BY <1>2, <1>7, <2>1 DEF CarryAt, TrunkInv, ReportInv, GivesUp, TrunkTracked, CachedOnly
  <2>4. CarryAt(b, memory'[b], cache'[b], c_ch', c_count', latest'[b])
    BY <1>2, <1>3, <1>7, <2>1, <2>2 DEF CarryAt
  <2>5. KeptAt(b, memory'[b], cache'[b], c_ch', latest'[b])
    BY <1>2, <1>3, <1>7, <2>1 DEF CarryAt, KeptAt, CarriesData
  <2>6. QED
    BY <1>1, <1>4, <2>3, <2>4, <2>5 DEF StoreAt
<1>8. QED
  BY <1>6, <1>7

(* The end of a C message: unless the line is dirty, memory is newest.      *)
LEMMA cMemory ==
    ASSUME TypeOK, StoreInv, cProbeAck \/ cRelease, NEW b \in CachedOnly
    PROVE  /\ memory'[b] = Fill(latest[b]) \/ cache[b].dirty
           /\ b # c_ch.addr => memory'[b] = memory[b]
<1>1. memory' = cWrite /\ lastBeat /\ cFire({"ProbeAck", "ProbeAckData", "Release", "ReleaseData"})
  BY DEF cProbeAck, cRelease, cFire
<1>2. b \in Blocks
  BY DEF CachedOnly
<1>3. StoreAt(b, memory[b], block_perm[b], cache[b], c_ch, c_count, d_queue, d_ch, latest[b])
  BY DEF StoreInv
<1>4. CASE b = c_ch.addr /\ CarriesData(c_ch)
  BY <1>1, <1>3, <1>4, cWrites DEF StoreAt, CarryAt
<1>5. CASE ~(b = c_ch.addr /\ CarriesData(c_ch))
  BY <1>1, <1>2, <1>3, <1>5, cWrites DEF StoreAt, KeptAt
<1>6. QED
  BY <1>4, <1>5

(* A report read: memory has the newest store before TRUNK is erased, and   *)
(* before GrantData_cb reads it.                                            *)
LEMMA cStore ==
    ASSUME TypeOK, ProbeSources, AcquireInv, TrunkInv, StoreInv, cProbeAck \/ cRelease,
           UNCHANGED <<cache, latest>>, NEW b \in CachedOnly
    PROVE  StoreAt(b, memory'[b], block_perm'[b], cache'[b], c_ch', c_count', d_queue', d_ch',
                   latest'[b])
<1>1. UNCHANGED d_ch /\ c_ch' = NoMsg /\ cPerm /\ c_ch # NoMsg
  BY cFireType DEF cProbeAck, cRelease, cUnchanged
<1>2. StoreAt(b, memory[b], block_perm[b], cache[b], c_ch, c_count, d_queue, d_ch, latest[b])
  BY DEF StoreInv
<1>3. b \in Blocks /\ (memory'[b] = Fill(latest[b]) \/ cache[b].dirty)
  BY cMemory DEF CachedOnly
<1>4. block_perm'[b] # "TRUNK" => memory'[b] = Fill(latest[b])
  <2>1. CASE b # c_ch.addr
    <3>1. memory'[b] = memory[b] /\ block_perm'[b] = block_perm[b]
      BY <1>1, <1>3, <2>1, cMemory, TileTypes DEF cPerm
    <3>2. QED
      BY <1>2, <3>1 DEF StoreAt
  <2>2. CASE b = c_ch.addr /\ GivesUp(c_ch)
    BY <1>2, <1>3, <2>2 DEF StoreAt, TrunkInv, ReportInv
  <2>3. CASE b = c_ch.addr /\ ~GivesUp(c_ch)
    <3>1. UNCHANGED block_perm
      BY <1>1, <2>3 DEF cPerm, GivesUp
    <3>2. cache[b].dirty => block_perm[b] = "TRUNK"
      BY <1>2, <1>3 DEF StoreAt, TrunkInv, TrunkTracked
    <3>3. QED
      BY <1>3, <3>1, <3>2
  <2>4. QED
    BY <2>1, <2>2, <2>3
<1> DEFINE M == Stale(b, latest[b])
<1>5. ~Queues(d_queue', M)
  <2>1. M \in SUBSET GrantMsgs /\ ~Queues(d_queue, M)
    BY <1>2, StaleClass DEF StoreAt
  <2>2. CASE cRelease
    BY <2>1, <2>2, adapterQuiet DEF KeepMsgs
  <2>3. CASE cProbeAck /\ pb.c_map[c_ch.source] \notin GrantCbs
    BY <2>1, <2>3, cGrant DEF KeepMsgs
  <2>4. CASE cProbeAck /\ pb.c_map[c_ch.source] \in GrantCbs
    <3> DEFINE cb == pb.c_map[c_ch.source]
    <3>1. PICK m \in GrantMsgs : m.addr = cb.addr /\ m.data = cWrite[cb.addr]
                                 /\ d_queue' = Append(d_queue, m)
      BY <2>4, cGrant
    <3>2. cb \in GrantCallsOf(cb.addr) /\ \A K \in SUBSET GrantCbs : LoseCall(K, cb)
      BY <2>4, cGrant DEF GrantCallsOf
    <3> HIDE DEF cb
    <3>3. b = cb.addr => b \in acquiring
      <4> SUFFICES ASSUME b = cb.addr PROVE b \in acquiring
        OBVIOUS
      <4>1. Calls(pb, GrantCallsOf(b))
        BY <3>2, BlockClasses DEF LoseCall
      <4>2. AcquireAt(b, a_ch, pb, d_queue, d_ch, acquiring)
        BY <1>3 DEF AcquireInv
      <4>3. QED
        BY <4>1, <4>2 DEF AcquireAt
    <3>4. b = cb.addr => memory'[b] = Fill(latest[b])
      BY <1>2, <1>3, <3>3 DEF StoreAt, TrunkInv, AcquiredInv
    <3>5. m \notin M /\ m \in DMessage
      BY <2>4, <3>1, <3>4 DEF Stale, cProbeAck, GrantMsgs
    <3> HIDE DEF M
    <3>6. QED
      BY <2>1, <3>1, <3>5, AppendGain DEF KeepMsgs
  <2>5. QED
    BY <2>2, <2>3, <2>4
<1>6. ~CarriesData(c_ch')
  BY <1>1 DEF CarriesData, NoMsg
<1>7. QED
  BY <1>1, <1>2, <1>3, <1>4, <1>5, <1>6 DEF StoreAt, CarryAt, KeptAt

(* A report leaves the tile: the data of a dirty line goes along.           *)
LEMMA reportStore ==
    ASSUME TypeOK, StoreInv, NEW x \in Blocks, NEW line,
           cache' = [cache EXCEPT ![x] = line], ~line.dirty,
           c_ch = NoMsg, c_ch'.addr = x, c_ch'.beat = 0, c_ch'.data = cache[x].data,
           CarriesData(c_ch') <=> cache[x].dirty,
           cache[x].dirty => c_ch'.param \in {"TtoB", "TtoN", "TtoT"}
                             /\ (c_ch'.param = "TtoT" => line.perm = "T"),
           UNCHANGED <<memory, block_perm, c_count, d_queue, d_ch, latest>>, NEW b \in CachedOnly
    PROVE  StoreAt(b, memory'[b], block_perm'[b], cache'[b], c_ch', c_count', d_queue', d_ch',
                   latest'[b])
<1>1. StoreAt(b, memory[b], block_perm[b], cache[b], c_ch, c_count, d_queue, d_ch, latest[b])
  BY DEF StoreInv
<1>2. ~CarriesData(c_ch) /\ c_count = 0
  BY DEF CarriesData, NoMsg, TypeOK, AdapterTypeOK
<1>3. cache'[x] = line /\ \A y \in Blocks : y # x => cache'[y] = cache[y]
  BY TileTypes
<1>4. b \in Blocks
  BY DEF CachedOnly
<1>5. CASE b # x
  <2>1. cache'[b] = cache[b]
    BY <1>3, <1>4, <1>5
  <2>2. QED
    BY <1>1, <1>2, <1>5, <2>1 DEF StoreAt, CarryAt, KeptAt
<1>6. CASE b = x
  <2>1. CarryAt(b, memory'[b], cache'[b], c_ch', c_count', latest'[b])
    BY <1>1, <1>2, <1>3, <1>6, BeatsAssumption DEF StoreAt, CarryAt, Beat
  <2>2. KeptAt(b, memory'[b], cache'[b], c_ch', latest'[b])
    BY <1>1, <1>2, <1>3, <1>6 DEF StoreAt, KeptAt
  <2>3. QED
    BY <1>1, <1>3, <1>6, <2>1, <2>2 DEF StoreAt
<1>7. QED
  BY <1>5, <1>6

(* The answer to a probe.                                                   *)
LEMMA tileProbeStore ==
    ASSUME TypeOK, StoreInv, tileProbe, NEW b \in CachedOnly
    PROVE  StoreAt(b, memory'[b], block_perm'[b], cache'[b], c_ch', c_count', d_queue', d_ch',
                   latest'[b])
<1> DEFINE x == b_ch.addr
           r == shrink(cache[x].perm, b_ch.param)
           line == IF r[1] = "N" THEN NoLine ELSE [cache[x] EXCEPT !.perm = r[1], !.dirty = FALSE]
<1>1. x \in Blocks /\ b_ch.param \in Caps
  BY DEF tileProbe, TypeOK, PortTypeOK, BMessage
<1>2. cache[x].perm \in {"N", "B", "T"} /\ cache[x] \in Line
  BY <1>1, TileTypes
<1>3. /\ c_ch = NoMsg /\ c_ch'.param = r[2] /\ c_ch'.addr = x /\ c_ch'.beat = 0
      /\ c_ch'.data = cache[x].data
      /\ c_ch'.op = (IF cache[x].dirty THEN "ProbeAckData" ELSE "ProbeAck")
      /\ cache' = [cache EXCEPT ![x] = line]
      /\ UNCHANGED <<memory, block_perm, c_count, d_queue, d_ch, latest>>
  BY DEF tileProbe, sendC, adapterVars
<1>4. r[2] \in {"TtoB", "TtoN", "TtoT"} <=> cache[x].perm = "T"
  BY <1>1, <1>2, shrinkGives
<1>5. r[2] = "TtoT" => r[1] = "T"
  BY <1>1, <1>2, shrinkGives
<1>6. line.perm = r[1] /\ ~line.dirty /\ (cache[x].dirty => cache[x].perm = "T")
  BY <1>1, <1>2 DEF NoLine, Line, StoreInv, DirtyInv
<1>7. CarriesData(c_ch') <=> cache[x].dirty
  BY <1>3 DEF CarriesData
<1> HIDE DEF x, r, line
<1>8. QED
  BY <1>1, <1>3, <1>4, <1>5, <1>6, <1>7, reportStore

(* An eviction.                                                             *)
LEMMA tileReleaseStore ==
    ASSUME TypeOK, StoreInv, NEW x \in Blocks, tileRelease(x), NEW b \in CachedOnly
    PROVE  StoreAt(b, memory'[b], block_perm'[b], cache'[b], c_ch', c_count', d_queue', d_ch',
                   latest'[b])
<1>1. cache[x] \in Line /\ cache[x].perm \in {"N", "B", "T"}
  BY TileTypes
<1>2. PICK keep \in {"N", "B"} :
        /\ cache[x].perm = "B" => keep = "N"
        /\ sendC(IF cache[x].dirty THEN "ReleaseData" ELSE "Release",
                 IF cache[x].perm = "B" THEN "BtoN" ELSE IF keep = "B" THEN "TtoB" ELSE "TtoN",
                 NoBlock, x, cache[x].data)
        /\ cache' = [cache EXCEPT ![x] = IF keep = "N" THEN NoLine
                                         ELSE [@ EXCEPT !.perm = "B", !.dirty = FALSE]]
  BY DEF tileRelease
<1> DEFINE line == IF keep = "N" THEN NoLine ELSE [cache[x] EXCEPT !.perm = "B", !.dirty = FALSE]
<1>3. cache' = [cache EXCEPT ![x] = line]
  BY <1>2
<1>4. ~line.dirty /\ (cache[x].dirty => cache[x].perm = "T")
  BY <1>1 DEF NoLine, Line, StoreInv, DirtyInv
<1>5. /\ c_ch = NoMsg /\ c_ch'.addr = x /\ c_ch'.beat = 0 /\ c_ch'.data = cache[x].data
      /\ c_ch'.op = (IF cache[x].dirty THEN "ReleaseData" ELSE "Release")
      /\ cache[x].perm = "T" => c_ch'.param \in {"TtoB", "TtoN"}
  BY <1>2 DEF sendC
<1>6. UNCHANGED <<memory, block_perm, c_count, d_queue, d_ch, latest>>
  BY DEF tileRelease, adapterVars
<1>7. CarriesData(c_ch') <=> cache[x].dirty
  BY <1>5 DEF CarriesData
<1> HIDE DEF line
<1>8. QED
  BY <1>3, <1>4, <1>5, <1>6, <1>7, reportStore

(* A grant is taken: no other message of the block is about.                *)
LEMMA tileGrantStore ==
    ASSUME TypeOK, AcquireInv, TrunkInv, StoreInv, tileGrantData \/ tileGrant, NEW b \in CachedOnly
    PROVE  StoreAt(b, memory'[b], block_perm'[b], cache'[b], c_ch', c_count', d_queue', d_ch',
                   latest'[b])
<1> DEFINE x == d_ch.addr
<1>1. /\ d_ch.op \in {"Grant", "GrantData"} /\ d_ch' = NoMsg
      /\ UNCHANGED <<c_ch, c_count, d_queue, block_perm, memory>>
  BY DEF tileGrantData, tileGrant, adapterVars
<1>2. d_ch \in GrantMsgs /\ x \in Blocks /\ d_ch \in GrantsOf(x) /\ d_ch \in DMessage
  BY <1>1 DEF TypeOK, PortTypeOK, NoMsg, GrantMsgs, DMessage, GrantsOf
<1>3. \A y \in Blocks \ {x} : cache'[y] = cache[y] /\ latest'[y] = latest[y]
  BY TileTypes DEF tileGrantData, tileGrant, TypeOK, TileTypeOK
<1>4. StoreAt(b, memory[b], block_perm[b], cache[b], c_ch, c_count, d_queue, d_ch, latest[b])
  BY DEF StoreInv
<1>5. b \in Blocks
  BY DEF CachedOnly
<1>6. CASE b # x
  <2>1. cache'[b] = cache[b] /\ latest'[b] = latest[b] /\ d_ch' \notin Stale(b, latest[b])
    BY <1>1, <1>3, <1>5, <1>6, StaleClass
  <2>2. QED
    BY <1>1, <2>1, QuietStore
<1>7. CASE b = x
  <2>1. AcquireAt(b, a_ch, pb, d_queue, d_ch, acquiring)
    BY <1>5 DEF AcquireInv
  <2>2. ~Queues(d_queue, GrantsOf(b)) /\ b \in acquiring
    BY <1>2, <1>7, <2>1 DEF AcquireAt
  <2>3. cache[b].perm # "T" /\ ~cache[b].dirty
    BY <1>4, <2>2 DEF TrunkInv, AcquiredInv, StoreAt
  <2>4. ~(CarriesData(c_ch) /\ c_ch.addr = b)
    <3> SUFFICES ASSUME CarriesData(c_ch), c_ch.addr = b PROVE FALSE
      OBVIOUS
    <3>1. GivesUp(c_ch)
      BY <1>4, <2>3 DEF StoreAt, CarryAt, GivesUp, CarriesData, NoMsg
    <3>2. QED
      BY <1>2, <1>7, <3>1 DEF TrunkInv, ReportInv
  <2>5. memory[b] = Fill(latest[b])
    BY <1>4, <2>3, <2>4 DEF StoreAt, KeptAt
  <2>6. \A v : ~Queues(d_queue', Stale(b, v)) /\ d_ch' \notin Stale(b, v)
    BY <1>1, <2>2, StaleClass DEF Queues
  <2>7. CASE tileGrantData
    <3>1. ~cache'[b].dirty /\ UNCHANGED latest
      BY <1>5, <1>7, <2>7, TileTypes DEF tileGrantData
    <3>2. QED
      BY <1>1, <1>4, <2>4, <2>5, <2>6, <3>1 DEF StoreAt, CarryAt, KeptAt
  <2>8. CASE tileGrant
    <3>1. /\ latest'[b] = latest[b] + 1 /\ cache'[b].perm = "T" /\ cache'[b].dirty
          /\ cache'[b].data = Fill(latest[b] + 1)
      BY <1>5, <1>7, <2>8, TileTypes DEF tileGrant, TypeOK, TileTypeOK
    <3>2. d_ch.op = "Grant"
      BY <2>8 DEF tileGrant
    <3>3. d_ch.param = "toT"
      BY <1>2, <3>2 DEF TrunkInv, PermInv, BranchGrants
    <3>4. block_perm'[b] = "TRUNK"
      BY <1>1, <1>2, <1>7, <3>3 DEF TrunkInv, PortInv
    <3>5. QED
      BY <1>1, <2>4, <2>6, <3>1, <3>4 DEF StoreAt, CarryAt, KeptAt
  <2>9. QED
    BY <2>7, <2>8
<1>8. QED
  BY <1>6, <1>7

(* A store hit: the line is dirty, TRUNK is recorded, no grant is under way.*)
LEMMA tileStoreStore ==
    ASSUME TypeOK, AcquireInv, TrunkInv, StoreInv, NEW x \in Blocks, tileStore(x),
           NEW b \in CachedOnly
    PROVE  StoreAt(b, memory'[b], block_perm'[b], cache'[b], c_ch', c_count', d_queue', d_ch',
                   latest'[b])
<1>1. UNCHANGED <<memory, block_perm, c_ch, c_count, d_queue, d_ch>> /\ cache[x].perm = "T"
  BY DEF tileStore, adapterVars, chans
<1>2. StoreAt(b, memory[b], block_perm[b], cache[b], c_ch, c_count, d_queue, d_ch, latest[b])
  BY DEF StoreInv
<1>3. b \in Blocks
  BY DEF CachedOnly
<1>4. CASE b # x
  <2>1. cache'[b] = cache[b] /\ latest'[b] = latest[b]
    BY <1>3, <1>4, TileTypes DEF tileStore, TypeOK, TileTypeOK
  <2>2. QED
    BY <1>1, <2>1, QuietStore
<1>5. CASE b = x
  <2>1. /\ latest'[b] = latest[b] + 1 /\ cache'[b].perm = "T" /\ cache'[b].dirty
        /\ cache'[b].data = Fill(latest[b] + 1)
    BY <1>1, <1>3, <1>5, TileTypes DEF tileStore, TypeOK, TileTypeOK, Line
  <2>2. block_perm[b] = "TRUNK" /\ b \notin acquiring
    BY <1>1, <1>3, <1>5 DEF TrunkInv, TrunkTracked, AcquiredInv
  <2>3. AcquireAt(b, a_ch, pb, d_queue, d_ch, acquiring)
    BY <1>3 DEF AcquireInv
  <2>4. ~Queues(d_queue, GrantsOf(b)) /\ d_ch \notin GrantsOf(b)
    BY <2>2, <2>3 DEF AcquireAt
  <2>5. \A v : ~Queues(d_queue', Stale(b, v)) /\ d_ch' \notin Stale(b, v)
    BY <1>1, <2>4, StaleClass DEF Queues
  <2>6. CarryAt(b, memory'[b], cache'[b], c_ch', c_count', latest'[b])
    BY <1>1, <1>2, <2>1 DEF StoreAt, CarryAt
  <2>7. QED
    BY <1>1, <2>1, <2>2, <2>5, <2>6 DEF StoreAt, KeptAt
<1>6. QED
  BY <1>4, <1>5

(* d_port_driver.                                                           *)
LEMMA dStore ==
    ASSUME TypeOK, StoreInv, dDrive, UNCHANGED <<cache, latest>>, NEW b \in CachedOnly
    PROVE  StoreAt(b, memory'[b], block_perm'[b], cache'[b], c_ch', c_count', d_queue', d_ch',
                   latest'[b])
<1> DEFINE h == Head(d_queue)
           M == Stale(b, latest[b])
<1>1. /\ d_ch = NoMsg /\ (d_ch' = h \/ UNCHANGED d_ch) /\ LoseMsg(M, h)
      /\ UNCHANGED <<memory, c_ch, c_count>>
  BY dMoves DEF dDrive
<1>2. h.addr \in Blocks /\ b \in Blocks
  BY dMoves DEF DMessage, CachedOnly
<1>3. block_perm' = IF h.cb = "updatePerm" THEN updatePerm(h.addr, h.param) ELSE block_perm
  BY DEF dDrive
<1> HIDE DEF h
<1>4. block_perm[b] = "TRUNK" => block_perm'[b] = "TRUNK"
  BY <1>2, <1>3, TileTypes DEF updatePerm
<1>5. /\ Queues(d_queue', M) => Queues(d_queue, M)
      /\ d_ch' \in M => d_ch \in M \/ Queues(d_queue, M)
  BY <1>1 DEF LoseMsg
<1> HIDE DEF M
<1>6. block_perm'[b] # "TRUNK" => block_perm[b] # "TRUNK"
  BY <1>4
<1>7. QED
  BY <1>1, <1>5, <1>6, QuietStore DEF M

(* Only lines with T become dirty, and a line loses both together.          *)
LEMMA NextDirty == TypeOK /\ TrunkInv /\ DirtyInv /\ [Next]_vars => DirtyInv'
<1> SUFFICES ASSUME TypeOK, TrunkInv, DirtyInv, [Next]_vars PROVE DirtyInv'
  OBVIOUS
<1>0. ASSUME NEW x \in Blocks, NEW line, cache' = [cache EXCEPT ![x] = line],
             line.dirty => line.perm = "T"
      PROVE  DirtyInv'
  BY <1>0, TileTypes DEF DirtyInv
<1>1. CASE UNCHANGED cache
  BY <1>1 DEF DirtyInv
<1>2. CASE \E x \in Blocks : tileStore(x)
  <2>1. PICK x \in Blocks : tileStore(x)
    BY <1>2
  <2>2. \A y \in Blocks : cache'[y].perm = cache[y].perm /\ (y # x => cache'[y] = cache[y])
    BY <2>1, TileTypes DEF tileStore, Line
  <2>3. cache[x].perm = "T"
    BY <2>1 DEF tileStore
  <2>4. QED
    BY <2>2, <2>3 DEF DirtyInv
<1>3. CASE \E x \in Blocks : tileRelease(x)
  <2>1. PICK x \in Blocks : tileRelease(x)
    BY <1>3
  <2>2. PICK keep \in {"N", "B"} :
          cache' = [cache EXCEPT ![x] = IF keep = "N" THEN NoLine
                                        ELSE [@ EXCEPT !.perm = "B", !.dirty = FALSE]]
    BY <2>1 DEF tileRelease
  <2> DEFINE line == IF keep = "N" THEN NoLine ELSE [cache[x] EXCEPT !.perm = "B", !.dirty = FALSE]
  <2>3. ~line.dirty /\ cache' = [cache EXCEPT ![x] = line]
    BY <2>2, TileTypes DEF NoLine, Line
  <2> HIDE DEF line
  <2>4. QED
    BY <1>0, <2>3
<1>4. CASE tileProbe
  <2> DEFINE x == b_ch.addr
             r == shrink(cache[x].perm, b_ch.param)
             line == IF r[1] = "N" THEN NoLine ELSE [cache[x] EXCEPT !.perm = r[1], !.dirty = FALSE]
  <2>1. x \in Blocks /\ cache' = [cache EXCEPT ![x] = line]
    BY <1>4 DEF tileProbe, TypeOK, PortTypeOK, BMessage
  <2>2. cache[x] \in Line
    BY <2>1, TileTypes
  <2>3. ~line.dirty
    BY <2>2 DEF NoLine, Line
  <2> HIDE DEF x, r, line
  <2>4. QED
    BY <1>0, <2>1, <2>3
<1>5. CASE tileGrantData \/ tileGrant
  <2>1. d_ch.addr \in Blocks
    BY <1>5, TileTypes DEF tileGrantData, tileGrant, NoMsg
  <2>2. CASE tileGrantData
    <3> DEFINE line == [perm |-> IF d_ch.param = "toT" THEN "T" ELSE "B", dirty |-> FALSE,
                        data |-> d_ch.data]
    <3>1. cache' = [cache EXCEPT ![d_ch.addr] = line] /\ ~line.dirty
      BY <2>2 DEF tileGrantData
    <3> HIDE DEF line
    <3>2. QED
      BY <1>0, <2>1, <3>1
  <2>3. CASE tileGrant
    <3> DEFINE line == [perm |-> "T", dirty |-> TRUE, data |-> Fill(latest[d_ch.addr] + 1)]
    <3>1. cache' = [cache EXCEPT ![d_ch.addr] = line] /\ line.perm = "T"
      BY <2>3 DEF tileGrant
    <3> HIDE DEF line
    <3>2. QED
      BY <1>0, <2>1, <3>1
  <2>4. QED
    BY <1>5, <2>2, <2>3
<1>6. CASE \E p \in Programs : runTest(p)
  BY <1>6 DEF runTest, tileReset, NoLine, DirtyInv
<1>7. CASE \E b \in Blocks, o \in {"AcquireBlock", "AcquirePerm"} : tileAcquire(b, o)
  BY <1>1, <1>7 DEF tileAcquire
<1>8. CASE \E b \in Blocks, o \in UncachedOps : tileAccess(b, o)
  BY <1>1, <1>8 DEF tileAccess
<1>9. CASE adapterStep \/ tileReleaseAck \/ tileAccessAck \/ poll \/ timeout \/ stop \/ finish
           \/ ended \/ UNCHANGED vars
  BY <1>1, <1>9 DEF adapterStep, tileReleaseAck, tileAccessAck, poll, timeout, stop, finish, ended,
                    vars, tileVars
<1>10. QED
  BY <1>2, <1>3, <1>4, <1>5, <1>6, <1>7, <1>8, <1>9 DEF Next

(* A CachedOnly block is never written through the A port.                  *)
LEMMA NextWrites == TypeOK /\ StoreInv /\ [Next]_vars
                      => (a_ch'.op \in WriteRequests => a_ch'.addr \notin CachedOnly)
<1> SUFFICES ASSUME TypeOK, StoreInv, [Next]_vars
             PROVE  a_ch'.op \in WriteRequests => a_ch'.addr \notin CachedOnly
  OBVIOUS
<1>1. CASE UNCHANGED a_ch
  BY <1>1 DEF StoreInv
<1>2. CASE aGet \/ aPutTip \/ aPutOwned \/ aAtomic \/ aIntent \/ aNoSink \/ aAcquireBlock
           \/ aAcquirePerm \/ aInterleaved
  BY <1>2, aLeavesWrite
<1>3. CASE \E b \in Blocks, o \in {"AcquireBlock", "AcquirePerm"} : tileAcquire(b, o)
  BY <1>3 DEF tileAcquire, sendA, WriteRequests
<1>4. CASE \E b \in Blocks, o \in UncachedOps : tileAccess(b, o)
  <2>1. PICK b \in Blocks, o \in UncachedOps : tileAccess(b, o)
    BY <1>4
  <2>2. <<o, b>> \in TileOps /\ a_ch'.addr = b
    BY <2>1 DEF tileAccess, sendA
  <2>3. a_ch'.op \in WriteRequests => o \in {"Put", "PutBurst", "Arithmetic", "Logical"}
    BY <2>1 DEF tileAccess, sendA, WriteRequests
  <2>4. QED
    BY <2>2, <2>3 DEF CachedOnly
<1>5. CASE \E p \in Programs : runTest(p)
  BY <1>5 DEF runTest, tileReset, NoMsg, WriteRequests
<1>6. CASE cBeat \/ cProbeAck \/ cRelease \/ eGrantAck \/ dDrive \/ bDrive \/ dataRetriever
           \/ hostInterface \/ hostUnknownBlock \/ tileProbe \/ tileGrantData \/ tileGrant
           \/ tileReleaseAck \/ tileAccessAck \/ (\E b \in Blocks : tileStore(b) \/ tileRelease(b))
           \/ poll \/ timeout \/ stop \/ finish \/ ended \/ UNCHANGED vars
  BY <1>1, <1>6 DEF cBeat, cProbeAck, cRelease, cUnchanged, eGrantAck, dDrive, bDrive,
       dataRetriever, hostInterface, hostUnknownBlock, tileProbe, tileGrantData, tileGrant,
       tileReleaseAck, tileAccessAck, tileStore, tileRelease, poll, timeout, stop, finish, ended,
       vars, chans
<1>7. QED
  BY <1>2, <1>3, <1>4, <1>5, <1>6 DEF Next

(* Every step of the system keeps the newest store of every such block.     *)
LEMMA NextStores ==
    TypeOK /\ ProbeSources /\ AcquireInv /\ TrunkInv /\ StoreInv /\ [Next]_vars => StoreInv'
<1> SUFFICES ASSUME TypeOK, ProbeSources, AcquireInv, TrunkInv, StoreInv, [Next]_vars,
                    NEW b \in CachedOnly
             PROVE  StoreAt(b, memory'[b], block_perm'[b], cache'[b], c_ch', c_count', d_queue',
                            d_ch', latest'[b])
  BY NextDirty, NextWrites DEF StoreInv
<1> DEFINE M == Stale(b, latest[b])
<1>0. b \in Blocks /\ M \in SUBSET GrantMsgs /\ NoMsg \notin M
  BY StaleClass DEF CachedOnly
<1>1. CASE adapterStep /\ (aGet \/ aPutTip \/ aPutOwned \/ aAtomic \/ aIntent \/ aNoSink
                             \/ aInterleaved)
  <2>1. UNCHANGED <<d_ch, c_ch, c_count, cache, latest>>
    BY <1>1 DEF adapterStep, tileVars, aGet, aPutTip, aPutOwned, aAtomic, aIntent, aNoSink,
                aInterleaved, aUnchanged
  <2>2. memory'[b] = memory[b]
    BY <1>1, aMemory
  <2>3. block_perm'[b] = "TRUNK" <=> block_perm[b] = "TRUNK"
    BY <1>0, <1>1, aTrunk
  <2>4. KeepMsgs(M)
    BY <1>0, <1>1, aQuiet
  <2>5. QED
    BY <2>1, <2>2, <2>3, <2>4, QuietStore DEF KeepMsgs
<1>2. CASE adapterStep /\ (aAcquireBlock \/ aAcquirePerm)
  BY <1>2, AcquireStore DEF adapterStep, tileVars
<1>3. CASE adapterStep /\ cBeat
  BY <1>3, cBeatStore DEF adapterStep, tileVars
<1>4. CASE adapterStep /\ (cProbeAck \/ cRelease)
  BY <1>4, cStore DEF adapterStep, tileVars
<1>5. CASE adapterStep /\ dDrive
  BY <1>5, dStore DEF adapterStep, tileVars
<1>6. CASE \E x \in Blocks : tileStore(x)
  BY <1>6, tileStoreStore
<1>7. CASE \E x \in Blocks : tileRelease(x)
  BY <1>7, tileReleaseStore
<1>8. CASE tileProbe
  BY <1>8, tileProbeStore
<1>9. CASE tileGrantData \/ tileGrant
  BY <1>9, tileGrantStore
<1>10. CASE \E x \in Blocks, o \in {"AcquireBlock", "AcquirePerm"} : tileAcquire(x, o)
  <2>1. UNCHANGED <<memory, block_perm, cache, latest, c_ch, c_count, d_queue, d_ch>>
    BY <1>10 DEF tileAcquire, adapterVars
  <2>2. QED
    BY <2>1, QuietStore
<1>11. CASE \E x \in Blocks, o \in UncachedOps : tileAccess(x, o)
  <2>1. PICK x \in Blocks, o \in UncachedOps : tileAccess(x, o)
    BY <1>11
  <2>2. UNCHANGED <<memory, block_perm, cache, c_ch, c_count, d_queue, d_ch>>
    BY <2>1 DEF tileAccess, adapterVars
  <2>3. latest'[b] = latest[b]
    <3>1. CASE o \in {"Get", "Intent"}
      BY <2>1, <3>1 DEF tileAccess
    <3>2. CASE o \in {"Put", "PutBurst", "Arithmetic", "Logical"}
      <4>1. x # b /\ latest' = [latest EXCEPT ![x] = @ + 1]
        BY <2>1, <3>2 DEF tileAccess, CachedOnly
      <4>2. QED
        BY <1>0, <4>1 DEF TypeOK, TileTypeOK
    <3>3. QED
      BY <3>1, <3>2 DEF UncachedOps
  <2>4. QED
    BY <2>2, <2>3, QuietStore
<1>12. CASE tileReleaseAck \/ tileAccessAck
  <2>1. d_ch' = NoMsg /\ UNCHANGED <<memory, block_perm, cache, latest, c_ch, c_count, d_queue>>
    BY <1>12 DEF tileReleaseAck, tileAccessAck, adapterVars
  <2>2. QED
    BY <1>0, <2>1, QuietStore
<1>13. CASE \E p \in Programs : runTest(p)
  <2>1. /\ memory'[b] = Fill(0) /\ latest'[b] = 0 /\ cache'[b] = NoLine /\ c_ch' = NoMsg
        /\ d_queue' = <<>> /\ d_ch' = NoMsg
    BY <1>0, <1>13 DEF runTest, tileReset, adapterStart
  <2>2. ~CarriesData(c_ch') /\ ~cache'[b].dirty
    BY <2>1 DEF CarriesData, NoMsg, NoLine
  <2>3. ~Queues(d_queue', Stale(b, 0)) /\ d_ch' \notin Stale(b, 0)
    BY <2>1, StaleClass, QueuesEmpty
  <2>4. QED
    BY <2>1, <2>2, <2>3 DEF StoreAt, CarryAt, KeptAt
<1>14. CASE adapterStep /\ (bDrive \/ dataRetriever \/ hostInterface \/ hostUnknownBlock
                              \/ eGrantAck)
  <2>1. UNCHANGED <<memory, block_perm, cache, latest, c_ch, c_count, d_queue, d_ch>>
    BY <1>14 DEF adapterStep, tileVars, bDrive, dataRetriever, hostInterface, hostUnknownBlock,
                 eGrantAck, chans
  <2>2. QED
    BY <2>1, QuietStore
<1>15. CASE poll \/ timeout \/ stop \/ finish \/ ended \/ UNCHANGED vars
  <2>1. UNCHANGED <<memory, block_perm, cache, latest, c_ch, c_count, d_queue, d_ch>>
    BY <1>15 DEF poll, timeout, stop, finish, ended, vars, adapterVars, chans, tileVars
  <2>2. QED
    BY <2>1, QuietStore
<1>16. QED
  BY <1>1, <1>2, <1>3, <1>4, <1>5, <1>6, <1>7, <1>8, <1>9, <1>10, <1>11, <1>12, <1>13, <1>14,
     <1>15 DEF Next

(* At first memory, cache and ports hold no store.                          *)
LEMMA InitStores == Init => StoreInv
<1> SUFFICES ASSUME Init PROVE StoreInv
  OBVIOUS
<1>1. /\ memory = [b \in Blocks |-> Fill(0)] /\ latest = [b \in Blocks |-> 0]
      /\ cache = [b \in Blocks |-> NoLine] /\ c_ch = NoMsg /\ a_ch = NoMsg
      /\ d_queue = <<>> /\ d_ch = NoMsg
  BY DEF Init, adapterInit, tileInit
<1>2. ~CarriesData(c_ch) /\ a_ch.op \notin WriteRequests /\ ~NoLine.dirty
  BY <1>1 DEF CarriesData, NoMsg, NoLine, WriteRequests
<1>3. ASSUME NEW b \in CachedOnly
      PROVE  StoreAt(b, memory[b], block_perm[b], cache[b], c_ch, c_count, d_queue, d_ch, latest[b])
  <2>1. memory[b] = Fill(0) /\ latest[b] = 0 /\ cache[b] = NoLine
    BY <1>1 DEF CachedOnly
  <2>2. ~Queues(d_queue, Stale(b, 0)) /\ d_ch \notin Stale(b, 0)
    BY <1>1, StaleClass, QueuesEmpty
  <2>3. QED
    BY <1>2, <2>1, <2>2 DEF StoreAt, CarryAt, KeptAt
<1>4. QED
  BY <1>1, <1>2, <1>3 DEF StoreInv, DirtyInv

(* For any number of blocks, beats, sources and sinks, and whatever probes, *)
(* evictions, grants and uncached requests cross: the newest store of a     *)
(* block the tile writes through its cache is in memory, in the dirty line  *)
(* or in the message c_port_monitor is reading, and in memory as soon as    *)
(* block_perm is not TRUNK.                                                 *)
THEOREM NoStoreIsLost == Spec => []NoStoreLost
<1>1. TypeOK /\ StoreInv => NoStoreLost
  BY StoresKept
<1>2. QED
  BY <1>1, InitAcquires, InitTrunk, InitStores, NextAcquires, NextTrunk, NextStores, TypeCorrect,
     ProbeSourcesSound, PTL DEF Spec

=============================================================================
