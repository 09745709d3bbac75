---------------------------- MODULE ProbeProofs ----------------------------
(***************************************************************************)
(* The life cycle of probe sources, for every set of sources.  The code     *)
(* comment "TODO, BoomTile has 3 b_src" asks for more than the one source   *)
(* of drive_input: the proofs do not depend on their number.                *)
(***************************************************************************)
EXTENDS TileSystemProofs

(* The sources of the messages of a B queue, and their distinctness.        *)
Srcs(Q) == {Q[i].source : i \in 1 .. Len(Q)}
Distinct(Q) == \A i, j \in 1 .. Len(Q) : Q[i].source = Q[j].source => i = j

(* Queueing a probe for a source that is not queued adds just that source.  *)
LEMMA QueueAppend ==
    ASSUME NEW Q \in Seq(BMessage), NEW m \in BMessage, Distinct(Q), m.source \notin Srcs(Q)
    PROVE  Srcs(Append(Q, m)) = Srcs(Q) \cup {m.source} /\ Distinct(Append(Q, m))
<1> DEFINE R == Append(Q, m)
<1>1. /\ Len(R) = Len(Q) + 1 /\ Len(Q) \in Nat
      /\ \A i \in 1 .. Len(Q) : R[i] = Q[i]
      /\ R[Len(Q) + 1] = m
  OBVIOUS
<1> HIDE DEF R
<1>2. \A i \in 1 .. Len(R) : i \in 1 .. Len(Q) \/ i = Len(Q) + 1
  BY <1>1
<1>3. Srcs(R) = Srcs(Q) \cup {m.source}
  <2>1. \A x \in Srcs(R) : x \in Srcs(Q) \cup {m.source}
    BY <1>1, <1>2 DEF Srcs
  <2>2. \A x \in Srcs(Q) : x \in Srcs(R)
    BY <1>1 DEF Srcs
  <2>3. m.source \in Srcs(R)
    BY <1>1 DEF Srcs
  <2>4. QED
    BY <2>1, <2>2, <2>3
<1>4. Distinct(R)
  <2> SUFFICES ASSUME NEW i \in 1 .. Len(R), NEW j \in 1 .. Len(R), R[i].source = R[j].source
               PROVE  i = j
    BY DEF Distinct
  <2>1. CASE i \in 1 .. Len(Q) /\ j \in 1 .. Len(Q)
    BY <1>1, <2>1 DEF Distinct
  <2>2. CASE i \in 1 .. Len(Q) /\ j = Len(Q) + 1
    BY <1>1, <2>2 DEF Srcs
  <2>3. CASE j \in 1 .. Len(Q) /\ i = Len(Q) + 1
    BY <1>1, <2>3 DEF Srcs
  <2>4. QED
    BY <1>2, <2>1, <2>2, <2>3
<1>5. QED
  BY <1>3, <1>4 DEF R

(* Taking the oldest probe out of the queue takes out just its source.      *)
LEMMA QueueTail ==
    ASSUME NEW Q \in Seq(BMessage), Q # <<>>, Distinct(Q)
    PROVE  /\ Head(Q) \in BMessage /\ Head(Q).source \in Srcs(Q)
           /\ Srcs(Tail(Q)) = Srcs(Q) \ {Head(Q).source} /\ Distinct(Tail(Q))
<1> DEFINE R == Tail(Q)
<1>1. /\ Len(Q) \in Nat /\ Len(Q) > 0 /\ Len(R) = Len(Q) - 1 /\ Head(Q) = Q[1]
      /\ \A i \in 1 .. Len(R) : R[i] = Q[i + 1]
      /\ Head(Q) \in BMessage
  OBVIOUS
<1> HIDE DEF R
<1>2. Head(Q).source \in Srcs(Q)
  BY <1>1 DEF Srcs
<1>3. \A x \in Srcs(R) : x \in Srcs(Q) \ {Head(Q).source}
  <2> SUFFICES ASSUME NEW i \in 1 .. Len(R)
               PROVE  R[i].source \in Srcs(Q) \ {Head(Q).source}
    BY DEF Srcs
  <2>1. i + 1 \in 1 .. Len(Q) /\ 1 \in 1 .. Len(Q) /\ i + 1 # 1
    BY <1>1
  <2>2. QED
    BY <1>1, <2>1 DEF Srcs, Distinct
<1>4. \A x \in Srcs(Q) \ {Head(Q).source} : x \in Srcs(R)
  <2> SUFFICES ASSUME NEW i \in 1 .. Len(Q), Q[i].source # Head(Q).source
               PROVE  Q[i].source \in Srcs(R)
    BY DEF Srcs
  <2>1. i # 1 /\ i - 1 \in 1 .. Len(R) /\ R[i - 1] = Q[(i - 1) + 1] /\ (i - 1) + 1 = i
    BY <1>1
  <2>2. QED
    BY <2>1 DEF Srcs
<1>5. Distinct(R)
  <2> SUFFICES ASSUME NEW i \in 1 .. Len(R), NEW j \in 1 .. Len(R), R[i].source = R[j].source
               PROVE  i = j
    BY DEF Distinct
  <2>1. i + 1 \in 1 .. Len(Q) /\ j + 1 \in 1 .. Len(Q)
    BY <1>1
  <2>2. i + 1 = j + 1
    BY <1>1, <2>1 DEF Distinct
  <2>3. QED
    BY <2>2
<1>6. QED
  BY <1>1, <1>2, <1>3, <1>4, <1>5 DEF R

-----------------------------------------------------------------------------
(* The probe-side operators.  SourcesOK without its clause on reservations  *)
(* is what Issue preserves by itself.                                       *)
Core(q, flying, held) ==
    /\ ~q.dup /\ ~q.bad
    /\ \A s \in BSrcs \ held :
        /\ (s \in q.free) <=> (q.c_map[s] = NoCb)
        /\ (s \in q.free) <=> (s \notin Srcs(q.queue) \cup flying)
    /\ \A s \in held : s \notin q.free \cup Srcs(q.queue) \cup flying /\ q.c_map[s] = NoCb
    /\ Srcs(q.queue) \cap flying = {}
    /\ Distinct(q.queue)

(* SourcesOK is Core and the clause on reservations.                        *)
LEMMA CoreIs ==
    ASSUME NEW q, NEW flying, NEW held
    PROVE  SourcesOK(q, flying, held)
             <=> Core(q, flying, held) /\ (q.events # <<>> => q.free = {})
BY DEF SourcesOK, Core, Queued, Srcs, Distinct

(* Issuing a probe on a free source keeps every source accounted for.       *)
LEMMA IssueSafe ==
    ASSUME NEW q \in ProbeSide, NEW r \in Request, NEW t \in q.free, NEW flying,
           NEW held \in SUBSET BSrcs, Core(q, flying, held)
    PROVE  /\ Core(Issue(q, r, t), flying, held)
           /\ Issue(q, r, t).events = q.events /\ Issue(q, r, t).free = q.free \ {t}
<1> DEFINE p == Issue(q, r, t)
           m == [op |-> "ProbeBlock", param |-> r.param, source |-> t, addr |-> r.addr]
<1>1. t \in BSrcs \ held /\ q.c_map[t] = NoCb /\ t \notin Srcs(q.queue) \cup flying
  BY DEF ProbeSide, Core
<1>2. r.cb # NoCb /\ m \in BMessage /\ m.source = t
  BY <1>1 DEF Request, BMessage
<1>3. q.queue \in Seq(BMessage) /\ q.c_map \in [BSrcs -> Callback] /\ q.free \subseteq BSrcs
  BY DEF ProbeSide
<1>4. /\ p.free = q.free \ {t} /\ p.queue = Append(q.queue, m) /\ p.events = q.events
      /\ p.c_map = [q.c_map EXCEPT ![t] = r.cb]
      /\ p.bad = q.bad
  BY DEF Issue, ProbeSide
<1>5. p.dup = (q.dup \/ q.c_map[t] # NoCb)
  BY DEF Issue, ProbeSide
<1> HIDE DEF p, m
<1>6. Srcs(p.queue) = Srcs(q.queue) \cup {t} /\ Distinct(p.queue)
  BY <1>1, <1>2, <1>3, <1>4, QueueAppend DEF Core
<1>7. ~p.dup /\ ~p.bad
  BY <1>1, <1>4, <1>5 DEF Core
<1>8. \A s \in BSrcs \ held :
        /\ (s \in p.free) <=> (p.c_map[s] = NoCb)
        /\ (s \in p.free) <=> (s \notin Srcs(p.queue) \cup flying)
  BY <1>1, <1>2, <1>3, <1>4, <1>6 DEF Core
<1>9. \A s \in held : s \notin p.free \cup Srcs(p.queue) \cup flying /\ p.c_map[s] = NoCb
  BY <1>1, <1>3, <1>4, <1>6 DEF Core
<1>10. Srcs(p.queue) \cap flying = {}
  BY <1>1, <1>6 DEF Core
<1>11. QED
  BY <1>4, <1>6, <1>7, <1>8, <1>9, <1>10 DEF Core, p

(* retrieveBlock keeps every source accounted for, on both of its paths.    *)
LEMMA RetrieveSafe ==
    ASSUME NEW q \in ProbeSide, NEW r \in Request, NEW flying, NEW held \in SUBSET BSrcs,
           SourcesOK(q, flying, held), NEW p \in retrieveBlock(q, r)
    PROVE  SourcesOK(p, flying, held)
<1>1. CASE q.free # {}
  <2>1. PICK t \in q.free : p = Issue(q, r, t)
    BY <1>1 DEF retrieveBlock
  <2>2. Core(q, flying, held) /\ q.events = <<>>
    BY <1>1, CoreIs
  <2>3. Core(p, flying, held) /\ p.events = <<>>
    BY <2>1, <2>2, IssueSafe
  <2>4. QED
    BY <2>3, CoreIs
<1>2. CASE q.free = {}
  <2>1. p = [q EXCEPT !.events = Append(@, r)]
    BY <1>2 DEF retrieveBlock
  <2>2. p.free = q.free /\ p.c_map = q.c_map /\ p.queue = q.queue /\ p.dup = q.dup /\ p.bad = q.bad
    BY <2>1 DEF ProbeSide
  <2>3. Core(q, flying, held)
    BY CoreIs
  <2>4. Core(p, flying, held)
    BY <2>2, <2>3 DEF Core
  <2>5. QED
    BY <1>2, <2>2, <2>4, CoreIs
<1>3. QED
  BY <1>1, <1>2

(* So does a step of the retrieval chain.                                   *)
LEMMA ProbeNextSafe ==
    ASSUME NEW q \in ProbeSide, NEW rest \in SUBSET Blocks, NEW flying,
           NEW held \in SUBSET BSrcs, SourcesOK(q, flying, held), NEW p \in probeNext(q, rest)
    PROVE  SourcesOK(p, flying, held)
<1>1. PICK b \in rest :
        p \in retrieveBlock(q, MkReq(MkCb("probe_blocks_rec", b, "toN", NoSink, rest \ {b}),
                                     "toN", b))
  BY DEF probeNext
<1>2. QED
  BY <1>1, RecCbType, RetrieveSafe

(* Emptying the slot of an answered probe: its source is held.              *)
LEMMA ClearSafe ==
    ASSUME NEW q \in ProbeSide, NEW flying, NEW s \in BSrcs, s \in flying,
           SourcesOK(q, flying, {})
    PROVE  SourcesOK([q EXCEPT !.c_map[s] = NoCb], flying \ {s}, {s})
<1> DEFINE q1 == [q EXCEPT !.c_map[s] = NoCb]
<1>1. /\ q1.free = q.free /\ q1.queue = q.queue /\ q1.events = q.events /\ q1.dup = q.dup
      /\ q1.bad = q.bad
  BY DEF ProbeSide
<1>2. q1.c_map[s] = NoCb /\ \A t \in BSrcs \ {s} : q1.c_map[t] = q.c_map[t]
  BY DEF ProbeSide
<1>3. Core(q, flying, {}) /\ (q.events # <<>> => q.free = {})
  BY CoreIs
<1> HIDE DEF q1
<1>4. Core(q1, flying \ {s}, {s})
  BY <1>1, <1>2, <1>3 DEF Core
<1>5. SourcesOK(q1, flying \ {s}, {s})
  BY <1>1, <1>3, <1>4, CoreIs
<1>6. QED
  BY <1>5 DEF q1

(* The callback of an answered probe runs while its source is held.         *)
LEMMA CallSafe ==
    ASSUME NEW q \in ProbeSide, NEW flying, NEW s \in BSrcs, s \in flying,
           SourcesOK(q, flying, {}), NEW p \in callSource(q, s)
    PROVE  SourcesOK(p, flying \ {s}, {s})
<1> DEFINE q1 == [q EXCEPT !.c_map[s] = NoCb]
<1>1. q1 \in ProbeSide
  BY DEF ProbeSide, Callback
<1>2. q.c_map[s] \in Callback
  BY DEF ProbeSide
<1>3. q.c_map[s].rest \in SUBSET Blocks
  BY <1>2 DEF Callback, NoCb, MkCb
<1>4. SourcesOK(q1, flying \ {s}, {s})
  BY ClearSafe
<1>5. QED
  BY <1>1, <1>3, <1>4, ProbeNextSafe DEF callSource

(* Releasing a held source frees it, or hands it to the oldest reservation. *)
LEMMA ReleaseSafe ==
    ASSUME NEW q \in ProbeSide, NEW flying, NEW s \in BSrcs, SourcesOK(q, flying, {s}),
           NEW p \in releaseSource(q, s)
    PROVE  SourcesOK(p, flying, {})
<1> DEFINE f == [q EXCEPT !.free = @ \cup {s}, !.bad = @ \/ s \in q.free]
           g == [f EXCEPT !.events = Tail(@)]
<1>1. f \in ProbeSide
  BY DEF ProbeSide
<1>2. /\ f.free = q.free \cup {s} /\ f.queue = q.queue /\ f.events = q.events /\ f.dup = q.dup
      /\ f.c_map = q.c_map
  BY DEF ProbeSide
<1>3. f.bad = (q.bad \/ s \in q.free)
  BY DEF ProbeSide
<1>4. Core(q, flying, {s}) /\ (q.events # <<>> => q.free = {})
  BY CoreIs
<1>5. Core(f, flying, {})
  <2> HIDE DEF f
  <2> QED
    BY <1>2, <1>3, <1>4 DEF Core
<1>6. CASE f.events = <<>>
  <2>1. p = f
    BY <1>6 DEF releaseSource
  <2>2. QED
    BY <1>5, <1>6, <2>1, CoreIs
<1>7. CASE f.events # <<>>
  <2>1. PICK t \in f.free : p = Issue(g, Head(f.events), t)
    BY <1>7 DEF releaseSource
  <2>2. f.free = {s} /\ t = s
    BY <1>2, <1>4, <1>7, <2>1
  <2>3. f.events \in Seq(Request)
    BY <1>1 DEF ProbeSide
  <2>4. Head(f.events) \in Request /\ Tail(f.events) \in Seq(Request)
    BY <1>7, <2>3
  <2> HIDE DEF f
  <2>5. g \in ProbeSide
    BY <1>1, <2>4 DEF ProbeSide
  <2>6. /\ g.free = f.free /\ g.queue = f.queue /\ g.dup = f.dup /\ g.bad = f.bad
        /\ g.c_map = f.c_map
    BY <1>1 DEF ProbeSide
  <2> HIDE DEF g
  <2>7. Core(g, flying, {})
    BY <1>5, <2>6 DEF Core
  <2>8. Core(p, flying, {}) /\ p.free = g.free \ {t}
    BY <2>1, <2>4, <2>5, <2>6, <2>7, IssueSafe
  <2>9. p.free = {}
    BY <2>2, <2>6, <2>8
  <2>10. QED
    BY <2>8, <2>9, CoreIs
<1>8. QED
  BY <1>6, <1>7

(* A ProbeAck: callback first, release second.                              *)
LEMMA AckSafe ==
    ASSUME NEW q \in ProbeSide, NEW flying, NEW s \in BSrcs, s \in flying,
           SourcesOK(q, flying, {}), NEW p \in ackSource(q, s)
    PROVE  SourcesOK(p, flying \ {s}, {})
<1>1. PICK q1 \in callSource(q, s) : p \in releaseSource(q1, s)
  BY DEF ackSource
<1>2. q1 \in ProbeSide /\ SourcesOK(q1, flying \ {s}, {s})
  BY CallType, CallSafe
<1>3. QED
  BY <1>1, <1>2, ReleaseSafe

-----------------------------------------------------------------------------
(* The steps of the system.  First the types they rely on.                  *)
LEMMA ProbeTypes ==
    ASSUME TypeOK
    PROVE  /\ pb \in ProbeSide /\ pb.queue \in Seq(BMessage)
           /\ b_ch # NoMsg => b_ch \in BMessage /\ b_ch.source \in BSrcs
           /\ c_ch # NoMsg => c_ch \in CMessage
           /\ c_ch.op \in {"ProbeAck", "ProbeAckData"} => c_ch.source \in BSrcs
<1>1. /\ pb \in ProbeSide /\ b_ch \in BMessage \cup {NoMsg} /\ c_ch \in CMessage \cup {NoMsg}
  BY DEF TypeOK, AdapterTypeOK, PortTypeOK
<1>2. pb.queue \in Seq(BMessage)
  BY <1>1 DEF ProbeSide
<1>3. b_ch # NoMsg => b_ch.source \in BSrcs
  BY <1>1 DEF BMessage
<1>4. c_ch.op \in {"ProbeAck", "ProbeAckData"} => c_ch.source \in BSrcs
  BY <1>1 DEF CMessage, NoMsg
<1>5. QED
  BY <1>1, <1>2, <1>3, <1>4

(* Steps that leave the probe side and the B and C ports alone.             *)
LEMMA StutterSafe ==
    ASSUME ProbeSources, UNCHANGED <<pb, b_ch, c_ch>>
    PROVE  ProbeSources'
<1>1. pb' = pb /\ onB' = onB /\ onC' = onC
  BY DEF onB, onC
<1>2. QED
  BY <1>1 DEF ProbeSources

(* Steps that call retrieveBlock: a_port_monitor, host_interface.           *)
LEMMA RetrieveStep ==
    ASSUME TypeOK, ProbeSources, NEW r \in Request, pb' \in retrieveBlock(pb, r),
           UNCHANGED <<b_ch, c_ch>>
    PROVE  ProbeSources'
<1>1. SourcesOK(pb', onB \cup onC, {})
  BY ProbeTypes, RetrieveSafe DEF ProbeSources
<1>2. onB' = onB /\ onC' = onC
  BY DEF onB, onC
<1>3. QED
  BY <1>1, <1>2 DEF ProbeSources

(* a_port_monitor: a request is answered, or probes the block first.        *)
LEMMA aSafe ==
    ASSUME TypeOK, ProbeSources,
           aGet \/ aPutTip \/ aPutOwned \/ aAtomic \/ aIntent \/ aNoSink \/ aAcquireBlock
             \/ aAcquirePerm \/ aInterleaved
    PROVE  ProbeSources'
<1>0. UNCHANGED <<b_ch, c_ch>> /\ a_ch.op # "none"
  BY DEF aGet, aPutTip, aPutOwned, aAtomic, aIntent, aNoSink, aAcquireBlock, aAcquirePerm,
         aInterleaved, aUnchanged, aFire
<1>1. UNCHANGED <<b_ch, c_ch>> /\ a_ch # NoMsg /\ a_ch \in AMessage
  BY <1>0 DEF TypeOK, PortTypeOK, NoMsg
<1>2. a_ch.addr \in Blocks
  BY <1>1 DEF AMessage
<1>3. ASSUME NEW k \in CbKinds \ {"none", "GrantData_cb"}, NEW c \in Caps,
             aRetrieve(AckCb(k, a_ch.addr), c)
      PROVE  ProbeSources'
  BY <1>1, <1>2, <1>3, AckCbType, RetrieveStep DEF aRetrieve
<1>4. CASE UNCHANGED pb
  BY <1>1, <1>4, StutterSafe
<1>5. CASE aGet
  <2>1. UNCHANGED pb \/ aRetrieve(AckCb("AccessAckData_cb", a_ch.addr), "toT")
    BY <1>5 DEF aGet, aAnswer
  <2>2. QED
    BY <1>3, <1>4, <2>1 DEF CbKinds, Caps
<1>6. CASE aPutOwned
  <2>1. UNCHANGED pb \/ aRetrieve(AckCb("AccessAck_cb", a_ch.addr), "toN")
    BY <1>6 DEF aPutOwned
  <2>2. QED
    BY <1>3, <1>4, <2>1 DEF CbKinds, Caps
<1>7. CASE aAtomic
  <2>1. \/ UNCHANGED pb
        \/ aRetrieve(AckCb("ArithmeticAck_cb", a_ch.addr), "toN")
        \/ aRetrieve(AckCb("LogicalAck_cb", a_ch.addr), "toN")
    BY <1>7 DEF aAtomic, aAnswer
  <2>2. QED
    BY <1>3, <1>4, <2>1 DEF CbKinds, Caps
<1>8. CASE aAcquireBlock
  <2>1. PICK s \in d_sinks :
          \/ UNCHANGED pb
          \/ aRetrieve(MkCb("GrantData_cb", a_ch.addr, grantCap(a_ch.param), s, {}),
                       probeCap(a_ch.param))
    BY <1>8 DEF aAcquireBlock, aAnswer
  <2>2. s \in Sinks
    BY DEF TypeOK, AdapterTypeOK
  <2>3. QED
    BY <1>1, <1>2, <1>4, <2>1, <2>2, GrantCapType, GrantCbType, RetrieveStep DEF aRetrieve
<1>9. CASE aPutTip \/ aIntent \/ aNoSink \/ aAcquirePerm \/ aInterleaved
  BY <1>4, <1>9 DEF aPutTip, aIntent, aNoSink, aAcquirePerm, aInterleaved, aAnswer
<1>10. QED
  BY <1>5, <1>6, <1>7, <1>8, <1>9

(* c_port_monitor: a beat, a Release, and the last beat of a ProbeAck.      *)
LEMMA cSafe ==
    ASSUME TypeOK, ProbeSources, cBeat \/ cProbeAck \/ cRelease
    PROVE  ProbeSources'
<1>1. UNCHANGED b_ch /\ onB' = onB
  BY DEF cBeat, cProbeAck, cRelease, cUnchanged, onB
<1>2. CASE cBeat
  <2>1. c_ch.op # "none" /\ c_ch \in CMessage /\ c_ch' = [c_ch EXCEPT !.beat = @ + 1] /\ pb' = pb
    BY <1>2, ProbeTypes DEF cBeat, cFire, NoMsg
  <2>2. c_ch'.op = c_ch.op /\ c_ch'.source = c_ch.source
    BY <2>1 DEF CMessage
  <2>3. onC' = onC
    BY <2>2 DEF onC
  <2>4. QED
    BY <1>1, <2>1, <2>3 DEF ProbeSources, SourcesOK, Queued
<1>3. CASE cRelease
  <2>1. c_ch.op \in {"Release", "ReleaseData"} /\ c_ch' = NoMsg /\ pb' = pb
    BY <1>3 DEF cRelease, cFire
  <2>2. onC = {} /\ onC' = {}
    BY <2>1 DEF onC, NoMsg
  <2>3. QED
    BY <1>1, <2>1, <2>2 DEF ProbeSources, SourcesOK, Queued
<1>4. CASE cProbeAck
  <2>1. /\ c_ch.op \in {"ProbeAck", "ProbeAckData"} /\ c_ch' = NoMsg
        /\ pb' \in ackSource(pb, c_ch.source)
    BY <1>4 DEF cProbeAck, cFire
  <2>2. onC = {c_ch.source} /\ onC' = {} /\ c_ch.source \in BSrcs
    BY <2>1, ProbeTypes DEF onC, NoMsg
  <2>3. SourcesOK(pb', (onB \cup onC) \ {c_ch.source}, {})
    BY <2>1, <2>2, ProbeTypes, AckSafe DEF ProbeSources
  <2>4. (onB \cup onC) \ {c_ch.source} = onB' \cup onC'
    BY <1>1, <2>2 DEF ProbeSources
  <2>5. QED
    BY <2>2, <2>3, <2>4 DEF ProbeSources
<1>5. QED
  BY <1>2, <1>3, <1>4

(* b_port_driver moves the oldest queued probe to the port.                 *)
LEMMA bDriveSafe == ASSUME TypeOK, ProbeSources, bDrive PROVE ProbeSources'
<1> DEFINE h == Head(pb.queue).source
<1>1. /\ b_ch = NoMsg /\ pb.queue # <<>> /\ b_ch' = Head(pb.queue) /\ UNCHANGED c_ch
      /\ pb' = [pb EXCEPT !.queue = Tail(@)]
  BY DEF bDrive
<1>2. Core(pb, onB \cup onC, {}) /\ (pb.events # <<>> => pb.free = {}) /\ onB \cap onC = {}
  BY CoreIs DEF ProbeSources
<1>3. /\ Head(pb.queue) \in BMessage /\ h \in Srcs(pb.queue)
      /\ Srcs(Tail(pb.queue)) = Srcs(pb.queue) \ {h} /\ Distinct(Tail(pb.queue))
  BY <1>1, <1>2, ProbeTypes, QueueTail DEF Core
<1>4. /\ pb'.queue = Tail(pb.queue) /\ pb'.free = pb.free /\ pb'.c_map = pb.c_map
      /\ pb'.events = pb.events /\ pb'.dup = pb.dup /\ pb'.bad = pb.bad
  BY <1>1, ProbeTypes DEF ProbeSide
<1>5. onB = {} /\ onB' = {h} /\ onC' = onC
  BY <1>1, <1>3, NoMsgType DEF onB, onC
<1> HIDE DEF h
<1>6. Core(pb', onB' \cup onC', {}) /\ onB' \cap onC' = {}
  BY <1>2, <1>3, <1>4, <1>5 DEF Core
<1>7. QED
  BY <1>2, <1>4, <1>6, CoreIs DEF ProbeSources

(* data_retriever begins the chain of retrieval probes.                     *)
LEMMA dataRetrieverSafe == ASSUME TypeOK, ProbeSources, dataRetriever PROVE ProbeSources'
<1> DEFINE trunk == {b \in Blocks : block_perm[b] = "TRUNK"}
<1>1. UNCHANGED <<b_ch, c_ch>> /\ (UNCHANGED pb \/ pb' \in probeNext(pb, trunk))
  BY DEF dataRetriever, chans
<1>2. CASE UNCHANGED pb
  BY <1>1, <1>2, StutterSafe
<1>3. CASE pb' \in probeNext(pb, trunk)
  <2>1. SourcesOK(pb', onB \cup onC, {})
    BY <1>3, ProbeTypes, ProbeNextSafe DEF ProbeSources
  <2>2. onB' = onB /\ onC' = onC
    BY <1>1 DEF onB, onC
  <2>3. QED
    BY <2>1, <2>2 DEF ProbeSources
<1>4. QED
  BY <1>1, <1>2, <1>3

(* host_interface probes the block of tohost.                               *)
LEMMA hostInterfaceSafe == ASSUME TypeOK, ProbeSources, hostInterface PROVE ProbeSources'
<1>1. host_probe.addr \in Blocks /\ UNCHANGED <<b_ch, c_ch>>
  BY DEF hostInterface, hostReady, chans, TypeOK, AdapterTypeOK
<1>2. pb' \in retrieveBlock(pb, MkReq(AckCb("enableProbe", host_probe.addr), "toN",
                                      host_probe.addr))
  BY DEF hostInterface
<1>3. MkReq(AckCb("enableProbe", host_probe.addr), "toN", host_probe.addr) \in Request
  BY <1>1, AckCbType DEF CbKinds, Caps
<1>4. QED
  BY <1>1, <1>2, <1>3, RetrieveStep

(* The tile answers a probe, or sends a Release, on the free C port.        *)
LEMMA tileProbeSafe == ASSUME TypeOK, ProbeSources, tileProbe PROVE ProbeSources'
<1>1. /\ b_ch # NoMsg /\ c_ch = NoMsg /\ b_ch' = NoMsg /\ UNCHANGED pb
      /\ c_ch'.op \in {"ProbeAck", "ProbeAckData"} /\ c_ch'.source = b_ch.source
  BY DEF tileProbe, sendC, adapterVars
<1>2. onB = {b_ch.source} /\ onC = {} /\ onB' = {} /\ onC' = {b_ch.source}
  BY <1>1 DEF onB, onC, NoMsg
<1>3. onB \cup onC = onB' \cup onC' /\ onB' \cap onC' = {}
  BY <1>2
<1>4. QED
  BY <1>1, <1>3 DEF ProbeSources, SourcesOK, Queued

(* A Release goes out on the C port with no probe source.                   *)
LEMMA tileReleaseSafe ==
    ASSUME TypeOK, ProbeSources, NEW b \in Blocks, tileRelease(b)
    PROVE  ProbeSources'
<1>1. /\ c_ch = NoMsg /\ UNCHANGED <<b_ch, pb>>
      /\ c_ch'.op \in {"Release", "ReleaseData"}
  BY DEF tileRelease, sendC, adapterVars
<1>2. onB' = onB /\ onC = {} /\ onC' = {}
  BY <1>1 DEF onB, onC, NoMsg
<1>3. QED
  BY <1>1, <1>2 DEF ProbeSources, SourcesOK, Queued

(* A new run begins with every source free.                                 *)
LEMMA NoProbesSafe == SourcesOK(NoProbes, {}, {})
<1>1. /\ NoProbes.free = BSrcs /\ NoProbes.events = <<>> /\ NoProbes.queue = <<>>
      /\ NoProbes.dup = FALSE /\ NoProbes.bad = FALSE
      /\ \A s \in BSrcs : NoProbes.c_map[s] = NoCb
  BY DEF NoProbes
<1>2. Srcs(NoProbes.queue) = {} /\ Distinct(NoProbes.queue)
  BY <1>1 DEF Srcs, Distinct
<1>3. Core(NoProbes, {}, {})
  BY <1>1, <1>2 DEF Core
<1>4. QED
  BY <1>1, <1>3, CoreIs

(* Every step of the system keeps the sources accounted for.                *)
LEMMA NextSafe == TypeOK /\ ProbeSources /\ [Next]_vars => ProbeSources'
<1> SUFFICES ASSUME TypeOK, ProbeSources, [Next]_vars PROVE ProbeSources'
  OBVIOUS
<1>1. CASE aGet \/ aPutTip \/ aPutOwned \/ aAtomic \/ aIntent \/ aNoSink \/ aAcquireBlock
             \/ aAcquirePerm \/ aInterleaved
  BY <1>1, aSafe
<1>2. CASE cBeat \/ cProbeAck \/ cRelease
  BY <1>2, cSafe
<1>3. CASE bDrive \/ dataRetriever \/ hostInterface
  BY <1>3, bDriveSafe, dataRetrieverSafe, hostInterfaceSafe
<1>4. CASE tileProbe \/ \E b \in Blocks : tileRelease(b)
  BY <1>4, tileProbeSafe, tileReleaseSafe
<1>5. CASE \E p \in Programs : runTest(p)
  <2>1. b_ch' = NoMsg /\ c_ch' = NoMsg /\ pb' = NoProbes
    BY <1>5 DEF runTest, tileReset, adapterStart
  <2>2. onB' = {} /\ onC' = {}
    BY <2>1 DEF onB, onC, NoMsg
  <2>3. QED
    BY <2>1, <2>2, NoProbesSafe DEF ProbeSources
<1>6. CASE eGrantAck \/ dDrive \/ hostUnknownBlock \/ poll \/ timeout \/ stop \/ finish \/ ended
           \/ UNCHANGED vars
  <2>1. UNCHANGED <<pb, b_ch, c_ch>>
    BY <1>6 DEF eGrantAck, dDrive, hostUnknownBlock, poll, timeout, stop, finish, ended, vars,
                adapterVars, chans
  <2>2. QED
    BY <2>1, StutterSafe
<1>7. CASE \/ \E b \in Blocks : tileStore(b)
           \/ \E b \in Blocks, o \in {"AcquireBlock", "AcquirePerm"} : tileAcquire(b, o)
           \/ \E b \in Blocks, o \in UncachedOps : tileAccess(b, o)
           \/ tileGrantData \/ tileGrant \/ tileReleaseAck \/ tileAccessAck
  <2>1. UNCHANGED <<pb, b_ch, c_ch>>
    BY <1>7 DEF tileStore, tileAcquire, tileAccess, tileGrantData, tileGrant, tileReleaseAck,
                tileAccessAck, adapterVars, chans
  <2>2. QED
    BY <2>1, StutterSafe
<1>8. QED
  BY <1>1, <1>2, <1>3, <1>4, <1>5, <1>6, <1>7 DEF Next

(* In every reachable state each probe source is free, or held by exactly   *)
(* one probe with its callback registered (b_srcs, b_callback, b_queue and  *)
(* the ports agree), and no reservation waits while a source is free.       *)
THEOREM ProbeSourcesSound == Spec => []ProbeSources
<1>1. Init => ProbeSources
  <2> SUFFICES ASSUME Init PROVE ProbeSources
    OBVIOUS
  <2>1. b_ch = NoMsg /\ c_ch = NoMsg /\ pb = NoProbes
    BY DEF Init, adapterInit, tileInit
  <2>2. onB = {} /\ onC = {}
    BY <2>1 DEF onB, onC, NoMsg
  <2>3. QED
    BY <2>1, <2>2, NoProbesSafe DEF ProbeSources
<1>2. QED
  BY <1>1, NextSafe, TypeCorrect, PTL DEF Spec
=============================================================================
