-------------------------- MODULE TileSystemProofs --------------------------
(***************************************************************************)
(* Proofs about the composed system, for every set of blocks, sinks, probe  *)
(* sources, tile requests and programs, and every number of beats.          *)
(***************************************************************************)
EXTENDS TileSystem, TLAPS

USE DEF Running

(* A block has a first word, and filling it gives a block's worth of words. *)
LEMMA ZeroBeat == 0 \in Beat
BY BeatsAssumption DEF Beat

(* A block filled with a store number is a block of words.                  *)
LEMMA FillType == \A v \in Nat : Fill(v) \in Words
BY DEF Fill, Words

(* NoMsg is not a message of any port.                                      *)
LEMMA NoMsgType ==
    /\ NoMsg \notin AMessage /\ NoMsg \notin BMessage /\ NoMsg \notin CMessage
    /\ NoMsg \notin DMessage /\ NoMsg \notin EMessage
BY DEF NoMsg, AMessage, BMessage, CMessage, DMessage, EMessage

-----------------------------------------------------------------------------
(* The probe-side operators of FreeList, srcToCallback and retrieveBlock    *)
(* return well-formed probe sides.                                          *)

(* Issuing a probe keeps the probe side well typed.                         *)
LEMMA IssueType ==
    ASSUME NEW q \in ProbeSide, NEW r \in Request, NEW s \in BSrcs
    PROVE  Issue(q, r, s) \in ProbeSide
<1>1. r.cb \in Callback /\ r.param \in Caps /\ r.addr \in Blocks
  BY DEF Request
<1>2. [op |-> "ProbeBlock", param |-> r.param, source |-> s, addr |-> r.addr] \in BMessage
  BY <1>1 DEF BMessage
<1> DEFINE m == [op |-> "ProbeBlock", param |-> r.param, source |-> s, addr |-> r.addr]
           d == q.dup \/ q.c_map[s] # NoCb
           p == [q EXCEPT !.free = @ \ {s}, !.dup = d, !.c_map[s] = r.cb,
                          !.queue = Append(@, m)]
<1>3. d \in BOOLEAN
  OBVIOUS
<1>4. Append(q.queue, m) \in Seq(BMessage)
  BY <1>2 DEF ProbeSide
<1> HIDE DEF m, d
<1>5. p \in ProbeSide
  BY <1>1, <1>3, <1>4 DEF ProbeSide
<1>6. QED
  BY <1>5 DEF Issue, p, m, d

(* So does retrieveBlock, with a source or with a reservation.              *)
LEMMA RetrieveType ==
    ASSUME NEW q \in ProbeSide, NEW r \in Request, NEW p \in retrieveBlock(q, r)
    PROVE  p \in ProbeSide
<1>1. CASE q.free # {}
  <2>1. PICK s \in q.free : p = Issue(q, r, s)
    BY <1>1 DEF retrieveBlock
  <2>2. s \in BSrcs
    BY DEF ProbeSide
  <2>3. QED
    BY <2>1, <2>2, IssueType
<1>2. CASE q.free = {}
  <2>1. p = [q EXCEPT !.events = Append(@, r)]
    BY <1>2 DEF retrieveBlock
  <2>2. Append(q.events, r) \in Seq(Request)
    BY DEF ProbeSide
  <2>3. QED
    BY <2>1, <2>2 DEF ProbeSide
<1>3. QED
  BY <1>1, <1>2

(* The callbacks the code makes.                                            *)
LEMMA AckCbType ==
    ASSUME NEW k \in CbKinds \ {"none", "GrantData_cb"}, NEW b \in Blocks, NEW c \in Caps
    PROVE  MkReq(AckCb(k, b), c, b) \in Request
BY DEF MkReq, AckCb, MkCb, NoCb, Callback, Request, CbKinds

(* GrantData_cb carries the permission and the sink of the Acquire.         *)
LEMMA GrantCbType ==
    ASSUME NEW b \in Blocks, NEW d \in Caps, NEW s \in Sinks, NEW c \in Caps
    PROVE  MkReq(MkCb("GrantData_cb", b, d, s, {}), c, b) \in Request
BY DEF MkReq, MkCb, NoCb, Callback, Request

(* probe_blocks_rec carries the blocks still to be retrieved.               *)
LEMMA RecCbType ==
    ASSUME NEW rest \in SUBSET Blocks, NEW b \in Blocks
    PROVE  MkReq(MkCb("probe_blocks_rec", b, "toN", NoSink, rest), "toN", b) \in Request
BY DEF MkReq, MkCb, NoCb, Callback, Request, CbKinds, Caps

(* A step of the retrieval chain keeps the probe side well typed.           *)
LEMMA ProbeNextType ==
    ASSUME NEW q \in ProbeSide, NEW rest \in SUBSET Blocks, NEW p \in probeNext(q, rest)
    PROVE  p \in ProbeSide
<1>1. PICK b \in rest :
        p \in retrieveBlock(q, MkReq(MkCb("probe_blocks_rec", b, "toN", NoSink, rest \ {b}),
                                     "toN", b))
  BY DEF probeNext
<1>2. QED
  BY <1>1, RecCbType, RetrieveType

(* Running the callback of a source keeps the probe side well typed.        *)
LEMMA CallType ==
    ASSUME NEW q \in ProbeSide, NEW s \in BSrcs, NEW p \in callSource(q, s)
    PROVE  p \in ProbeSide
<1> DEFINE q1 == [q EXCEPT !.c_map[s] = NoCb]
<1>1. q1 \in ProbeSide
  BY DEF ProbeSide, Callback
<1>2. q.c_map[s] \in Callback
  BY DEF ProbeSide
<1>3. q.c_map[s].rest \in SUBSET Blocks
  BY <1>2 DEF Callback, NoCb, MkCb
<1>4. QED
  BY <1>1, <1>3, ProbeNextType DEF callSource

(* Releasing a source keeps the probe side well typed.                      *)
LEMMA ReleaseType ==
    ASSUME NEW q \in ProbeSide, NEW s \in BSrcs, NEW p \in releaseSource(q, s)
    PROVE  p \in ProbeSide
<1> DEFINE f == [q EXCEPT !.free = @ \cup {s}, !.bad = @ \/ s \in q.free]
           g == [f EXCEPT !.events = Tail(@)]
<1>1. f \in ProbeSide
  BY DEF ProbeSide
<1>2. CASE f.events = <<>>
  BY <1>1, <1>2 DEF releaseSource
<1>3. CASE f.events # <<>>
  <2>1. PICK t \in f.free : p = Issue(g, Head(f.events), t)
    BY <1>3 DEF releaseSource
  <2>2. t \in BSrcs /\ f.events \in Seq(Request)
    BY <1>1 DEF ProbeSide
  <2>3. Head(f.events) \in Request /\ Tail(f.events) \in Seq(Request)
    BY <1>3, <2>2
  <2> HIDE DEF f
  <2>4. g \in ProbeSide
    BY <1>1, <2>3 DEF ProbeSide
  <2>5. QED
    BY <2>1, <2>2, <2>3, <2>4, IssueType
<1>4. QED
  BY <1>2, <1>3

(* A ProbeAck does both.                                                    *)
LEMMA AckType ==
    ASSUME NEW q \in ProbeSide, NEW s \in BSrcs, NEW p \in ackSource(q, s)
    PROVE  p \in ProbeSide
BY CallType, ReleaseType DEF ackSource

-----------------------------------------------------------------------------
(* What the D queue is given is a D message.                                *)
LEMMA PlainDType ==
    ASSUME NEW o \in {"AccessAckData", "AccessAck", "HintAck", "ReleaseAck"},
           NEW b \in Blocks, NEW w \in Words, NEW c \in {"none", "updateMem"}
    PROVE  MkD(o, b, "toN", NoSink, w, c) \in DMessage
BY DEF MkD, DMessage

(* A Grant or GrantData is a D message.                                     *)
LEMMA GrantDType ==
    ASSUME NEW o \in {"Grant", "GrantData"}, NEW b \in Blocks, NEW p \in Caps,
           NEW s \in Sinks, NEW w \in Words
    PROVE  MkD(o, b, p, s, w, "updatePerm") \in DMessage
BY DEF MkD, DMessage

(* Entering an unknown block into block_perm keeps its type.                *)
LEMMA NotePermType ==
    ASSUME TypeOK, a_ch \in AMessage, notePerm
    PROVE  block_perm' \in [Blocks -> {"absent", "TIP", "TRUNK"}]
BY DEF TypeOK, AdapterTypeOK, notePerm, permOf, AMessage

(* A request that probes first: the probe side and err.                     *)
LEMMA aRetrieveType ==
    ASSUME TypeOK, NEW cb, NEW cap, MkReq(cb, cap, a_ch.addr) \in Request, aRetrieve(cb, cap)
    PROVE  pb' \in ProbeSide /\ err' \in Exceptions
<1>1. PICK q \in retrieveBlock(pb, MkReq(cb, cap, a_ch.addr)) : pb' = q /\ err' = probeError(q)
  BY DEF aRetrieve
<1>2. q \in ProbeSide
  BY RetrieveType DEF TypeOK, AdapterTypeOK
<1>3. QED
  BY <1>1, <1>2 DEF probeError, Exceptions

(* A fired A port holds an A message; the D queue grows by D messages.      *)
LEMMA aFireType ==
    ASSUME TypeOK, NEW ops, "none" \notin ops, aFire(ops)
    PROVE  a_ch \in AMessage /\ a_ch.addr \in Blocks /\ a_ch.op \in ops
BY DEF TypeOK, PortTypeOK, aFire, NoMsg, AMessage

(* A request that is answered at once: the D queue.                         *)
LEMMA aAnswerType ==
    ASSUME TypeOK, NEW m \in DMessage, aAnswer(<<m>>)
    PROVE  d_queue' \in Seq(DMessage) /\ pb' \in ProbeSide /\ err' \in Exceptions
BY DEF TypeOK, AdapterTypeOK, aAnswer

(* What an A action changes: with its ports, queue and probe side typed,    *)
(* the rest of the adapter's state keeps its type.                          *)
LEMMA aFrameType ==
    ASSUME TypeOK, aUnchanged, adapterStep,
           block_perm' \in [Blocks -> {"absent", "TIP", "TRUNK"}],
           memory' \in [Blocks -> Words], d_sinks' \subseteq Sinks,
           ongoing_tlc' \in [Sinks -> Blocks \cup {NoBlock}],
           d_queue' \in Seq(DMessage), pb' \in ProbeSide, err' \in Exceptions,
           a_mon' \in [source : Blocks \cup {NoBlock}, count : Nat, bound : BOOLEAN],
           a_ch' \in AMessage \cup {NoMsg}
    PROVE  TypeOK'
<1>1. UNCHANGED <<drive, retrieve, retrieving, c_count, host_probe, b_ch, c_ch, d_ch, e_ch,
                  cache, acquiring, access, releasing, latest, seen, pc, tohost, runs, atStop>>
  BY DEF aUnchanged, adapterStep, tileVars, hostVars
<1>2. AdapterTypeOK'
  BY <1>1 DEF TypeOK, AdapterTypeOK
<1>3. PortTypeOK'
  BY <1>1 DEF TypeOK, PortTypeOK
<1>4. TileTypeOK' /\ HostTypeOK'
  BY <1>1 DEF TypeOK, TileTypeOK, HostTypeOK
<1>5. QED
  BY <1>2, <1>3, <1>4 DEF TypeOK

(* The A port after one beat: the next beat, or nothing.                    *)
LEMMA aNextBeatType ==
    ASSUME a_ch \in AMessage, aNextBeat
    PROVE  a_ch' \in AMessage \cup {NoMsg}
<1>1. a_ch.beat + 1 \in Nat
  BY DEF AMessage
<1>2. [a_ch EXCEPT !.beat = a_ch.beat + 1] \in AMessage
  BY <1>1 DEF AMessage
<1>3. QED
  BY <1>2 DEF aNextBeat

(* a_port_monitor keeps the types: Get.                                     *)
LEMMA aGetType == ASSUME TypeOK, aGet, adapterStep PROVE TypeOK'
<1>1. a_ch \in AMessage /\ a_ch.addr \in Blocks
  BY aFireType DEF aGet
<1>2. block_perm' \in [Blocks -> {"absent", "TIP", "TRUNK"}]
  BY <1>1, NotePermType DEF aGet
<1>3. d_queue' \in Seq(DMessage) /\ pb' \in ProbeSide /\ err' \in Exceptions
  <2>1. CASE permOf(a_ch.addr) # "TIP"
    <3>1. MkReq(AckCb("AccessAckData_cb", a_ch.addr), "toT", a_ch.addr) \in Request
      BY <1>1, AckCbType DEF CbKinds, Caps
    <3>2. d_queue' = d_queue /\ aRetrieve(AckCb("AccessAckData_cb", a_ch.addr), "toT")
      BY <2>1 DEF aGet
    <3>3. QED
      BY <3>1, <3>2, aRetrieveType DEF TypeOK, AdapterTypeOK
  <2>2. CASE permOf(a_ch.addr) = "TIP"
    <3>1. DataMsg("AccessAckData", a_ch.addr, "toN", NoSink, "none") \in DMessage
      BY <1>1, PlainDType DEF DataMsg, TypeOK, AdapterTypeOK
    <3>2. QED
      BY <2>2, <3>1, aAnswerType DEF aGet
  <2>3. QED
    BY <2>1, <2>2
<1>4. QED
  BY <1>2, <1>3, aFrameType DEF aGet, aTake, TypeOK, AdapterTypeOK

(* a_port_monitor keeps the types: Put to a block in Tip.                   *)
LEMMA aPutTipType == ASSUME TypeOK, aPutTip, adapterStep PROVE TypeOK'
<1>1. a_ch \in AMessage /\ a_ch.addr \in Blocks
  BY aFireType DEF aPutTip
<1>2. block_perm' \in [Blocks -> {"absent", "TIP", "TRUNK"}]
  BY <1>1, NotePermType DEF aPutTip
<1>3. memory' \in [Blocks -> Words]
  BY <1>1 DEF aPutTip, putWord, TypeOK, AdapterTypeOK, AMessage, Words
<1>4. d_queue' \in Seq(DMessage) /\ pb' \in ProbeSide /\ err' \in Exceptions
  <2>1. PlainD("AccessAck", a_ch.addr) \in DMessage
    BY <1>1, PlainDType, FillType DEF PlainD
  <2>2. CASE aAnswer(<<PlainD("AccessAck", a_ch.addr)>>)
    BY <2>1, <2>2, aAnswerType
  <2>3. CASE UNCHANGED <<d_queue, pb, err>>
    BY <2>3 DEF TypeOK, AdapterTypeOK
  <2>4. QED
    BY <2>2, <2>3 DEF aPutTip
<1>5. a_mon' \in [source : Blocks \cup {NoBlock}, count : Nat, bound : BOOLEAN]
  <2>1. a_mon \in [source : Blocks \cup {NoBlock}, count : Nat, bound : BOOLEAN]
    BY DEF TypeOK, AdapterTypeOK
  <2>2. \/ a_mon' = [a_mon EXCEPT !.source = NoBlock, !.count = 0]
        \/ a_mon' = [a_mon EXCEPT !.source = a_ch.addr, !.count = a_mon.count + 1]
    BY DEF aPutTip, endBurst
  <2>3. a_mon.count + 1 \in Nat /\ 0 \in Nat
    BY <2>1
  <2>4. \A b \in Blocks \cup {NoBlock}, n \in Nat :
           [a_mon EXCEPT !.source = b, !.count = n]
               \in [source : Blocks \cup {NoBlock}, count : Nat, bound : BOOLEAN]
    BY <2>1
  <2>5. QED
    BY <1>1, <2>2, <2>3, <2>4
<1>6. a_ch' \in AMessage \cup {NoMsg}
  BY <1>1, aNextBeatType DEF aPutTip
<1>7. QED
  BY <1>2, <1>3, <1>4, <1>5, <1>6, aFrameType DEF aPutTip, TypeOK, AdapterTypeOK

(* a_port_monitor keeps the types: Put to a block the tile owns.            *)
LEMMA aPutOwnedType == ASSUME TypeOK, aPutOwned, adapterStep PROVE TypeOK'
<1>1. a_ch \in AMessage /\ a_ch.addr \in Blocks
  BY aFireType DEF aPutOwned
<1>2. block_perm' \in [Blocks -> {"absent", "TIP", "TRUNK"}]
  BY <1>1, NotePermType DEF aPutOwned
<1>3. pb' \in ProbeSide /\ err' \in Exceptions
      /\ a_mon' \in [source : Blocks \cup {NoBlock}, count : Nat, bound : BOOLEAN]
  <2>1. CASE a_mon.count = 0
    <3>1. MkReq(AckCb("AccessAck_cb", a_ch.addr), "toN", a_ch.addr) \in Request
      BY <1>1, AckCbType DEF CbKinds, Caps
    <3>2. a_mon' = [a_mon EXCEPT !.bound = TRUE] /\ aRetrieve(AckCb("AccessAck_cb", a_ch.addr), "toN")
      BY <2>1 DEF aPutOwned
    <3>3. QED
      BY <3>1, <3>2, aRetrieveType DEF TypeOK, AdapterTypeOK
  <2>2. CASE a_mon.count # 0
    BY <2>2 DEF aPutOwned, TypeOK, AdapterTypeOK, Exceptions
  <2>3. QED
    BY <2>1, <2>2
<1>4. a_ch' \in AMessage \cup {NoMsg}
  BY <1>1, aNextBeatType DEF aPutOwned
<1>5. QED
  BY <1>2, <1>3, <1>4, aFrameType DEF aPutOwned, TypeOK, AdapterTypeOK

(* a_port_monitor keeps the types: an atomic.                               *)
LEMMA aAtomicType == ASSUME TypeOK, aAtomic, adapterStep PROVE TypeOK'
<1>1. a_ch \in AMessage /\ a_ch.addr \in Blocks
  BY aFireType DEF aAtomic
<1>2. block_perm' \in [Blocks -> {"absent", "TIP", "TRUNK"}]
  BY <1>1, NotePermType DEF aAtomic
<1>3. memory' \in [Blocks -> Words]
  <2>1. memory \in [Blocks -> Words] /\ a_ch.data \in Nat
    BY <1>1 DEF TypeOK, AdapterTypeOK, AMessage
  <2>2. [memory EXCEPT ![a_ch.addr][a_mon.count] = a_ch.data] \in [Blocks -> Words]
    BY <1>1, <2>1 DEF Words
  <2>3. QED
    BY <2>1, <2>2 DEF aAtomic, putWord
<1>4. d_queue' \in Seq(DMessage) /\ pb' \in ProbeSide /\ err' \in Exceptions
  <2>1. CASE permOf(a_ch.addr) # "TIP"
    <3> DEFINE k == IF a_ch.op = "Arithmetic" THEN "ArithmeticAck_cb" ELSE "LogicalAck_cb"
    <3>1. k \in CbKinds \ {"none", "GrantData_cb"} /\ "toN" \in Caps
      BY DEF CbKinds, Caps
    <3>2. d_queue' = d_queue /\ aRetrieve(AckCb(k, a_ch.addr), "toN")
      BY <2>1 DEF aAtomic
    <3> HIDE DEF k
    <3>3. MkReq(AckCb(k, a_ch.addr), "toN", a_ch.addr) \in Request
      BY <1>1, <3>1, AckCbType
    <3>4. QED
      BY <3>2, <3>3, aRetrieveType DEF TypeOK, AdapterTypeOK
  <2>2. CASE permOf(a_ch.addr) = "TIP"
    <3>1. DataMsg("AccessAckData", a_ch.addr, "toN", NoSink, "none") \in DMessage
      BY <1>1, PlainDType DEF DataMsg, TypeOK, AdapterTypeOK
    <3>2. QED
      BY <2>2, <3>1, aAnswerType DEF aAtomic
  <2>3. QED
    BY <2>1, <2>2
<1>5. QED
  BY <1>2, <1>3, <1>4, aFrameType DEF aAtomic, aTake, TypeOK, AdapterTypeOK

(* a_port_monitor keeps the types: a hint.                                  *)
LEMMA aIntentType == ASSUME TypeOK, aIntent, adapterStep PROVE TypeOK'
<1>1. a_ch \in AMessage /\ a_ch.addr \in Blocks
  BY aFireType DEF aIntent
<1>2. block_perm' \in [Blocks -> {"absent", "TIP", "TRUNK"}]
  BY <1>1, NotePermType DEF aIntent
<1>3. PlainD("HintAck", a_ch.addr) \in DMessage
  BY <1>1, PlainDType, FillType DEF PlainD
<1>4. d_queue' \in Seq(DMessage) /\ pb' \in ProbeSide /\ err' \in Exceptions
  BY <1>3, aAnswerType DEF aIntent
<1>5. QED
  BY <1>2, <1>4, aFrameType DEF aIntent, aTake, TypeOK, AdapterTypeOK

(* a_port_monitor keeps the types: an Acquire without a free sink.          *)
LEMMA aNoSinkType == ASSUME TypeOK, aNoSink, adapterStep PROVE TypeOK'
<1>1. a_ch \in AMessage /\ a_ch.addr \in Blocks
  BY aFireType DEF aNoSink
<1>2. block_perm' \in [Blocks -> {"absent", "TIP", "TRUNK"}]
  BY <1>1, NotePermType DEF aNoSink
<1>3. QED
  BY <1>2, aFrameType DEF aNoSink, aTake, TypeOK, AdapterTypeOK, Exceptions

(* a_port_monitor keeps the types: an interleaved beat.                     *)
LEMMA aInterleavedType == ASSUME TypeOK, aInterleaved, adapterStep PROVE TypeOK'
BY aFrameType DEF aInterleaved, TypeOK, AdapterTypeOK, PortTypeOK, Exceptions

(* The caps an Acquire asks for are caps.                                   *)
LEMMA GrantCapType == \A g : grantCap(g) \in Caps /\ probeCap(g) \in Caps
BY DEF grantCap, probeCap, Caps

(* a_port_monitor keeps the types: AcquireBlock.                            *)
LEMMA aAcquireBlockType == ASSUME TypeOK, aAcquireBlock, adapterStep PROVE TypeOK'
<1>1. a_ch \in AMessage /\ a_ch.addr \in Blocks
  BY aFireType DEF aAcquireBlock
<1>2. block_perm' \in [Blocks -> {"absent", "TIP", "TRUNK"}]
  BY <1>1, NotePermType DEF aAcquireBlock
<1> DEFINE d == grantCap(a_ch.param)
           c == probeCap(a_ch.param)
<1>3. d \in Caps /\ c \in Caps
  BY GrantCapType
<1>4. PICK s \in d_sinks :
        /\ d_sinks' = d_sinks \ {s}
        /\ IF permOf(a_ch.addr) # "TIP"
             THEN aRetrieve(MkCb("GrantData_cb", a_ch.addr, d, s, {}), c)
                  /\ UNCHANGED <<d_queue, ongoing_tlc>>
             ELSE aAnswer(<<DataMsg("GrantData", a_ch.addr, d, s, "updatePerm")>>)
                  /\ ongoing_tlc' = [ongoing_tlc EXCEPT ![s] = a_ch.addr]
  BY DEF aAcquireBlock
<1> HIDE DEF d, c
<1>5. s \in Sinks /\ d_sinks' \subseteq Sinks
  BY <1>4 DEF TypeOK, AdapterTypeOK
<1>6. /\ d_queue' \in Seq(DMessage) /\ pb' \in ProbeSide /\ err' \in Exceptions
      /\ ongoing_tlc' \in [Sinks -> Blocks \cup {NoBlock}]
  <2>1. CASE permOf(a_ch.addr) # "TIP"
    <3>1. MkReq(MkCb("GrantData_cb", a_ch.addr, d, s, {}), c, a_ch.addr) \in Request
      BY <1>1, <1>3, <1>5, GrantCbType
    <3>2. QED
      BY <1>4, <2>1, <3>1, aRetrieveType DEF TypeOK, AdapterTypeOK
  <2>2. CASE permOf(a_ch.addr) = "TIP"
    <3>1. DataMsg("GrantData", a_ch.addr, d, s, "updatePerm") \in DMessage
      BY <1>1, <1>3, <1>5, GrantDType DEF DataMsg, TypeOK, AdapterTypeOK
    <3>2. ongoing_tlc' \in [Sinks -> Blocks \cup {NoBlock}]
      BY <1>1, <1>4, <1>5, <2>2 DEF TypeOK, AdapterTypeOK
    <3>3. QED
      BY <1>4, <2>2, <3>1, <3>2, aAnswerType
  <2>3. QED
    BY <2>1, <2>2
<1>7. QED
  BY <1>2, <1>5, <1>6, aFrameType DEF aAcquireBlock, aTake, TypeOK, AdapterTypeOK

(* a_port_monitor keeps the types: AcquirePerm.                             *)
LEMMA aAcquirePermType == ASSUME TypeOK, aAcquirePerm, adapterStep PROVE TypeOK'
<1>1. a_ch \in AMessage /\ a_ch.addr \in Blocks
  BY aFireType DEF aAcquirePerm
<1>2. block_perm' \in [Blocks -> {"absent", "TIP", "TRUNK"}]
  BY <1>1, NotePermType DEF aAcquirePerm
<1> DEFINE d == grantCap(a_ch.param)
<1>3. d \in Caps
  BY GrantCapType
<1>4. PICK s \in d_sinks :
        /\ d_sinks' = d_sinks \ {s}
        /\ IF permOf(a_ch.addr) # "TIP"
             THEN err' = "no retrievePerm" /\ UNCHANGED <<pb, d_queue, ongoing_tlc>>
             ELSE aAnswer(<<MkD("Grant", a_ch.addr, d, s, Fill(0), "updatePerm")>>)
                  /\ ongoing_tlc' = [ongoing_tlc EXCEPT ![s] = a_ch.addr]
  BY DEF aAcquirePerm
<1> HIDE DEF d
<1>5. s \in Sinks /\ d_sinks' \subseteq Sinks
  BY <1>4 DEF TypeOK, AdapterTypeOK
<1>6. /\ d_queue' \in Seq(DMessage) /\ pb' \in ProbeSide /\ err' \in Exceptions
      /\ ongoing_tlc' \in [Sinks -> Blocks \cup {NoBlock}]
  <2>1. CASE permOf(a_ch.addr) # "TIP"
    BY <1>4, <2>1 DEF TypeOK, AdapterTypeOK, Exceptions
  <2>2. CASE permOf(a_ch.addr) = "TIP"
    <3>1. MkD("Grant", a_ch.addr, d, s, Fill(0), "updatePerm") \in DMessage
      BY <1>1, <1>3, <1>5, GrantDType, FillType
    <3>2. ongoing_tlc' \in [Sinks -> Blocks \cup {NoBlock}]
      BY <1>1, <1>4, <1>5, <2>2 DEF TypeOK, AdapterTypeOK
    <3>3. QED
      BY <1>4, <2>2, <3>1, <3>2, aAnswerType
  <2>3. QED
    BY <2>1, <2>2
<1>7. QED
  BY <1>2, <1>5, <1>6, aFrameType DEF aAcquirePerm, aTake, TypeOK, AdapterTypeOK

-----------------------------------------------------------------------------
(* The other adapter actions.                                               *)

(* Writing one beat of a C message keeps memory well typed.                 *)
LEMMA cWriteType ==
    ASSUME TypeOK, c_ch \in CMessage
    PROVE  cWrite \in [Blocks -> Words]
<1>1. c_ch.addr \in Blocks /\ c_ch.data[c_ch.beat] \in Nat
  BY DEF CMessage, Words
<1>2. memory \in [Blocks -> Words]
  BY DEF TypeOK, AdapterTypeOK
<1>3. [memory EXCEPT ![c_ch.addr][c_count] = c_ch.data[c_ch.beat]] \in [Blocks -> Words]
  BY <1>1, <1>2 DEF Words
<1>4. QED
  BY <1>2, <1>3 DEF cWrite

(* A fired C port holds a C message.                                        *)
LEMMA cFireType ==
    ASSUME TypeOK, NEW ops, "none" \notin ops, cFire(ops)
    PROVE  c_ch \in CMessage /\ c_ch.addr \in Blocks /\ c_ch.op \in ops /\ c_ch # NoMsg
BY DEF TypeOK, PortTypeOK, cFire, NoMsg, CMessage

(* What a step of c_port_monitor must establish beyond what it leaves alone. *)
LEMMA cFrameType ==
    ASSUME TypeOK, cUnchanged, adapterStep, drive' \in BOOLEAN,
           block_perm' \in [Blocks -> {"absent", "TIP", "TRUNK"}],
           memory' \in [Blocks -> Words],
           ongoing_tlc' \in [Sinks -> Blocks \cup {NoBlock}],
           d_queue' \in Seq(DMessage), pb' \in ProbeSide, err' \in Exceptions,
           host_probe' \in [probe : BOOLEAN, en : BOOLEAN, addr : Blocks \cup {NoBlock}],
           host_probe'.probe => host_probe'.addr \in Blocks,
           c_ch' \in CMessage \cup {NoMsg},
           c_count' \in Beat, c_count' = (IF c_ch' = NoMsg THEN 0 ELSE c_ch'.beat)
    PROVE  TypeOK'
<1>1. UNCHANGED <<retrieve, retrieving, d_sinks, a_mon, a_ch, b_ch, d_ch, e_ch,
                  cache, acquiring, access, releasing, latest, seen, pc, tohost, runs, atStop>>
  BY DEF cUnchanged, adapterStep, tileVars, hostVars
<1>2. AdapterTypeOK'
  BY <1>1 DEF TypeOK, AdapterTypeOK
<1>3. PortTypeOK'
  BY <1>1 DEF TypeOK, PortTypeOK
<1>4. TileTypeOK' /\ HostTypeOK'
  BY <1>1 DEF TypeOK, TileTypeOK, HostTypeOK
<1>5. QED
  BY <1>2, <1>3, <1>4 DEF TypeOK

(* c_port_monitor keeps the types: a beat that is not the last.             *)
LEMMA cBeatType == ASSUME TypeOK, cBeat, adapterStep PROVE TypeOK'
<1>1. c_ch \in CMessage /\ c_ch # NoMsg /\ c_ch.beat = c_count /\ c_count \in Beat
  BY cFireType DEF cBeat, TypeOK, AdapterTypeOK
<1>2. c_count + 1 \in Beat
  BY <1>1, BeatsAssumption DEF cBeat, lastBeat, hasData, Beat, cFire
<1>3. c_ch' \in CMessage /\ c_ch'.beat = c_count + 1
  BY <1>1, <1>2 DEF cBeat, CMessage
<1>4. c_ch' # NoMsg
  BY <1>3, NoMsgType
<1>5. memory' \in [Blocks -> Words]
  BY <1>1, cWriteType DEF cBeat
<1>6. QED
  BY <1>2, <1>3, <1>4, <1>5, cFrameType DEF cBeat, TypeOK, AdapterTypeOK

(* A report sets the directory entry to TIP or leaves it.                   *)
LEMMA cPermType ==
    ASSUME TypeOK, c_ch.addr \in Blocks, cPerm
    PROVE  block_perm' \in [Blocks -> {"absent", "TIP", "TRUNK"}]
BY DEF cPerm, TypeOK, AdapterTypeOK

(* c_port_monitor keeps the types: a Release.                               *)
LEMMA cReleaseType == ASSUME TypeOK, cRelease, adapterStep PROVE TypeOK'
<1>1. c_ch \in CMessage /\ c_ch.addr \in Blocks
  BY cFireType DEF cRelease
<1>2. memory' \in [Blocks -> Words] /\ block_perm' \in [Blocks -> {"absent", "TIP", "TRUNK"}]
  BY <1>1, cWriteType, cPermType DEF cRelease
<1>3. PlainD("ReleaseAck", c_ch.addr) \in DMessage
  BY <1>1, PlainDType, FillType DEF PlainD
<1>4. d_queue' \in Seq(DMessage)
  BY <1>3 DEF cRelease, TypeOK, AdapterTypeOK
<1>5. 0 \in Beat
  BY ZeroBeat
<1>6. QED
  BY <1>2, <1>4, <1>5, cFrameType DEF cRelease, TypeOK, AdapterTypeOK

(* A callback queues a D message, ends the drive or enables host probes.    *)
LEMMA runCallbackType ==
    ASSUME TypeOK, NEW cb \in Callback, NEW mem \in [Blocks -> Words], runCallback(cb, mem)
    PROVE  /\ d_queue' \in Seq(DMessage) /\ drive' \in BOOLEAN
           /\ ongoing_tlc' \in [Sinks -> Blocks \cup {NoBlock}]
           /\ host_probe' \in [probe : BOOLEAN, en : BOOLEAN, addr : Blocks \cup {NoBlock}]
           /\ host_probe'.probe => host_probe'.addr \in Blocks
<1>1. d_queue' \in Seq(DMessage)
  <2>1. d_queue \in Seq(DMessage)
    BY DEF TypeOK, AdapterTypeOK
  <2>2. CASE cb.kind = "AccessAckData_cb"
    <3>1. cb.addr \in Blocks
      BY <2>2 DEF Callback, NoCb, MkCb
    <3>2. MkD("AccessAckData", cb.addr, "toN", NoSink, mem[cb.addr], "none") \in DMessage
      BY <3>1, PlainDType
    <3>3. QED
      BY <2>1, <2>2, <3>2 DEF runCallback
  <2>3. CASE cb.kind = "AccessAck_cb"
    <3>1. cb.addr \in Blocks
      BY <2>3 DEF Callback, NoCb, MkCb
    <3>2. MkD("AccessAck", cb.addr, "toN", NoSink, Fill(0), "updateMem") \in DMessage
      BY <3>1, PlainDType, FillType
    <3>3. QED
      BY <2>1, <2>3, <3>2 DEF runCallback
  <2>4. CASE cb.kind = "GrantData_cb"
    <3>1. cb.addr \in Blocks /\ cb.param \in Caps /\ cb.sink \in Sinks
      BY <2>4 DEF Callback, NoCb, MkCb
    <3>2. MkD("GrantData", cb.addr, cb.param, cb.sink, mem[cb.addr], "updatePerm") \in DMessage
      BY <3>1, GrantDType
    <3>3. QED
      BY <2>1, <2>4, <3>2 DEF runCallback
  <2>5. CASE cb.kind \notin {"AccessAckData_cb", "AccessAck_cb", "GrantData_cb"}
    BY <2>1, <2>5 DEF runCallback
  <2>6. QED
    BY <2>2, <2>3, <2>4, <2>5
<1>2. ongoing_tlc' \in [Sinks -> Blocks \cup {NoBlock}]
  <2>1. cb.kind = "GrantData_cb" => cb.addr \in Blocks /\ cb.sink \in Sinks
    BY DEF Callback, NoCb, MkCb
  <2>2. QED
    BY <2>1 DEF runCallback, TypeOK, AdapterTypeOK
<1>3. /\ host_probe' \in [probe : BOOLEAN, en : BOOLEAN, addr : Blocks \cup {NoBlock}]
      /\ host_probe'.probe => host_probe'.addr \in Blocks
  BY DEF runCallback, TypeOK, AdapterTypeOK
<1>4. drive' \in BOOLEAN
  BY DEF runCallback
<1>5. QED
  BY <1>1, <1>2, <1>3, <1>4

(* c_port_monitor keeps the types: a ProbeAck.                              *)
LEMMA cProbeAckType == ASSUME TypeOK, cProbeAck, adapterStep PROVE TypeOK'
<1>1. c_ch \in CMessage /\ c_ch.addr \in Blocks /\ c_ch.op \in {"ProbeAck", "ProbeAckData"}
  BY cFireType DEF cProbeAck
<1>2. c_ch.source \in BSrcs
  BY <1>1 DEF CMessage
<1>3. memory' \in [Blocks -> Words] /\ cWrite \in [Blocks -> Words]
      /\ block_perm' \in [Blocks -> {"absent", "TIP", "TRUNK"}]
  BY <1>1, cWriteType, cPermType DEF cProbeAck
<1>4. pb.c_map[c_ch.source] \in Callback /\ pb \in ProbeSide
  BY <1>2 DEF TypeOK, AdapterTypeOK, ProbeSide
<1>5. /\ d_queue' \in Seq(DMessage) /\ drive' \in BOOLEAN
      /\ ongoing_tlc' \in [Sinks -> Blocks \cup {NoBlock}]
      /\ host_probe' \in [probe : BOOLEAN, en : BOOLEAN, addr : Blocks \cup {NoBlock}]
      /\ host_probe'.probe => host_probe'.addr \in Blocks
  BY <1>3, <1>4, runCallbackType DEF cProbeAck
<1>6. pb' \in ProbeSide
  BY <1>2, <1>4, AckType DEF cProbeAck
<1>7. err' \in Exceptions
  BY DEF cProbeAck, probeError, Exceptions
<1>8. 0 \in Beat /\ c_ch' = NoMsg /\ c_count' = 0
  BY ZeroBeat DEF cProbeAck
<1>9. cUnchanged
  BY DEF cProbeAck
<1>10. QED
  BY <1>3, <1>5, <1>6, <1>7, <1>8, <1>9, cFrameType

(* e_port_monitor keeps the types.                                          *)
LEMMA eGrantAckType == ASSUME TypeOK, eGrantAck, adapterStep PROVE TypeOK'
<1>1. e_ch \in EMessage /\ e_ch.sink \in Sinks
  BY DEF eGrantAck, TypeOK, PortTypeOK, EMessage
<1>2. UNCHANGED <<cache, acquiring, access, releasing, latest, seen, pc, tohost, runs, atStop>>
  BY DEF adapterStep, tileVars, hostVars
<1>3. AdapterTypeOK'
  <2>1. err' \in Exceptions
    BY DEF eGrantAck, Exceptions
  <2>2. QED
    BY <1>1, <2>1 DEF eGrantAck, popTransaction, TypeOK, AdapterTypeOK
<1>4. PortTypeOK'
  BY DEF eGrantAck, TypeOK, PortTypeOK
<1>5. TileTypeOK' /\ HostTypeOK'
  BY <1>2 DEF TypeOK, TileTypeOK, HostTypeOK
<1>6. QED
  BY <1>3, <1>4, <1>5 DEF TypeOK

(* d_port_driver keeps the types.                                           *)
LEMMA dDriveType == ASSUME TypeOK, dDrive, adapterStep PROVE TypeOK'
<1>1. UNCHANGED <<cache, acquiring, access, releasing, latest, seen, pc, tohost, runs, atStop>>
  BY DEF adapterStep, tileVars, hostVars
<1>2. Head(d_queue) \in DMessage /\ Tail(d_queue) \in Seq(DMessage)
  BY DEF dDrive, TypeOK, AdapterTypeOK
<1>3. Head(d_queue).addr \in Blocks
  BY <1>2 DEF DMessage
<1>4. block_perm' \in [Blocks -> {"absent", "TIP", "TRUNK"}]
  BY <1>3 DEF dDrive, updatePerm, TypeOK, AdapterTypeOK
<1>5. err' \in Exceptions /\ d_ch' \in DMessage \cup {NoMsg}
  BY <1>2, ZenonT(60) DEF dDrive, TypeOK, AdapterTypeOK, PortTypeOK, Exceptions
<1>6. AdapterTypeOK'
  BY <1>2, <1>4, <1>5 DEF dDrive, TypeOK, AdapterTypeOK
<1>7. PortTypeOK'
  BY <1>5 DEF dDrive, TypeOK, PortTypeOK
<1>8. TileTypeOK' /\ HostTypeOK'
  BY <1>1 DEF TypeOK, TileTypeOK, HostTypeOK
<1>9. QED
  BY <1>6, <1>7, <1>8 DEF TypeOK

(* b_port_driver keeps the types.                                           *)
LEMMA bDriveType == ASSUME TypeOK, bDrive, adapterStep PROVE TypeOK'
<1>1. UNCHANGED <<cache, acquiring, access, releasing, latest, seen, pc, tohost, runs, atStop>>
  BY DEF adapterStep, tileVars, hostVars
<1>2. pb \in ProbeSide /\ pb.queue \in Seq(BMessage)
  BY DEF TypeOK, AdapterTypeOK, ProbeSide
<1>3. Head(pb.queue) \in BMessage /\ Tail(pb.queue) \in Seq(BMessage)
  BY <1>2 DEF bDrive
<1>4. pb' \in ProbeSide
  BY <1>2, <1>3 DEF bDrive, ProbeSide
<1>5. AdapterTypeOK'
  BY <1>4 DEF bDrive, TypeOK, AdapterTypeOK
<1>6. PortTypeOK'
  BY <1>3 DEF bDrive, TypeOK, PortTypeOK
<1>7. TileTypeOK' /\ HostTypeOK'
  BY <1>1 DEF TypeOK, TileTypeOK, HostTypeOK
<1>8. QED
  BY <1>5, <1>6, <1>7 DEF TypeOK

(* data_retriever keeps the types.                                          *)
LEMMA dataRetrieverType == ASSUME TypeOK, dataRetriever, adapterStep PROVE TypeOK'
<1>1. UNCHANGED <<cache, acquiring, access, releasing, latest, seen, pc, tohost, runs, atStop,
                  a_ch, b_ch, c_ch, d_ch, e_ch>>
  BY DEF dataRetriever, chans, adapterStep, tileVars, hostVars
<1> DEFINE addrs == {b \in Blocks : block_perm[b] = "TRUNK"}
<1>2. pb' \in ProbeSide /\ err' \in Exceptions /\ drive' \in BOOLEAN
  <2>1. CASE addrs = {}
    BY <2>1 DEF dataRetriever, TypeOK, AdapterTypeOK
  <2>2. CASE addrs # {}
    <3>1. PICK q \in probeNext(pb, addrs) : pb' = q /\ err' = probeError(q) /\ drive' = drive
      BY <2>2 DEF dataRetriever
    <3>2. q \in ProbeSide
      BY ProbeNextType DEF TypeOK, AdapterTypeOK
    <3>3. QED
      BY <3>1, <3>2 DEF probeError, Exceptions, TypeOK, AdapterTypeOK
  <2>3. QED
    BY <2>1, <2>2
<1>3. AdapterTypeOK'
  BY <1>1, <1>2 DEF dataRetriever, TypeOK, AdapterTypeOK
<1>4. PortTypeOK' /\ TileTypeOK' /\ HostTypeOK'
  BY <1>1 DEF TypeOK, PortTypeOK, TileTypeOK, HostTypeOK
<1>5. QED
  BY <1>3, <1>4 DEF TypeOK

(* host_interface keeps the types.                                          *)
LEMMA hostInterfaceType == ASSUME TypeOK, hostInterface, adapterStep PROVE TypeOK'
<1>1. UNCHANGED <<cache, acquiring, access, releasing, latest, seen, pc, tohost, runs, atStop,
                  a_ch, b_ch, c_ch, d_ch, e_ch>>
  BY DEF hostInterface, chans, adapterStep, tileVars, hostVars
<1>2. host_probe.addr \in Blocks
  BY DEF hostInterface, hostReady, TypeOK, AdapterTypeOK
<1>3. MkReq(AckCb("enableProbe", host_probe.addr), "toN", host_probe.addr) \in Request
  BY <1>2, AckCbType DEF CbKinds, Caps
<1>4. PICK q \in retrieveBlock(pb, MkReq(AckCb("enableProbe", host_probe.addr), "toN",
                                        host_probe.addr)) : pb' = q /\ err' = probeError(q)
  BY DEF hostInterface
<1>5. pb' \in ProbeSide
  BY <1>3, <1>4, RetrieveType DEF TypeOK, AdapterTypeOK
<1>6. err' \in Exceptions
  BY <1>4 DEF probeError, Exceptions
<1>7. /\ host_probe' \in [probe : BOOLEAN, en : BOOLEAN, addr : Blocks \cup {NoBlock}]
      /\ host_probe'.probe => host_probe'.addr \in Blocks
  BY DEF hostInterface
<1>8. AdapterTypeOK'
  BY <1>1, <1>5, <1>6, <1>7 DEF hostInterface, TypeOK, AdapterTypeOK
<1>9. PortTypeOK' /\ TileTypeOK' /\ HostTypeOK'
  BY <1>1 DEF TypeOK, PortTypeOK, TileTypeOK, HostTypeOK
<1>10. QED
  BY <1>8, <1>9 DEF TypeOK

(* host_interface's failed assertion keeps the types.                       *)
LEMMA hostUnknownBlockType == ASSUME TypeOK, hostUnknownBlock, adapterStep PROVE TypeOK'
<1>1. UNCHANGED <<cache, acquiring, access, releasing, latest, seen, pc, tohost, runs, atStop,
                  a_ch, b_ch, c_ch, d_ch, e_ch>>
  BY DEF hostUnknownBlock, chans, adapterStep, tileVars, hostVars
<1>2. AdapterTypeOK'
  BY <1>1 DEF hostUnknownBlock, TypeOK, AdapterTypeOK, Exceptions
<1>3. PortTypeOK' /\ TileTypeOK' /\ HostTypeOK'
  BY <1>1 DEF TypeOK, PortTypeOK, TileTypeOK, HostTypeOK
<1>4. QED
  BY <1>2, <1>3 DEF TypeOK

-----------------------------------------------------------------------------
(* The tile's actions leave the adapter's own variables alone, except that  *)
(* the beat count must agree with the C port.                               *)
LEMMA tileFrameType ==
    ASSUME TypeOK, UNCHANGED <<adapterVars, hostVars>>, PortTypeOK', TileTypeOK',
           c_count = (IF c_ch' = NoMsg THEN 0 ELSE c_ch'.beat)
    PROVE  TypeOK'
<1>1. AdapterTypeOK'
  BY DEF adapterVars, TypeOK, AdapterTypeOK
<1>2. HostTypeOK'
  BY DEF hostVars, TypeOK, HostTypeOK
<1>3. QED
  BY <1>1, <1>2 DEF TypeOK

(* The lines the tile makes are lines.                                      *)
LEMMA LineType ==
    /\ NoLine \in Line
    /\ \A l \in Line, p \in {"N", "B", "T"} : [l EXCEPT !.perm = p, !.dirty = FALSE] \in Line
    /\ \A l \in Line, w \in Words : [l EXCEPT !.dirty = TRUE, !.data = w] \in Line
    /\ \A p \in {"N", "B", "T"}, d \in BOOLEAN, w \in Words :
          [perm |-> p, dirty |-> d, data |-> w] \in Line
BY FillType DEF NoLine, Line

(* A request put on the A port is an A message.                             *)
LEMMA sendAType ==
    ASSUME NEW o \in {"Get", "Put", "Arithmetic", "Logical", "Intent", "AcquireBlock", "AcquirePerm"},
           NEW g \in Grows, NEW b \in Blocks, NEW n \in 1 .. Beats, NEW v \in Nat,
           sendA(o, g, b, n, v)
    PROVE  a_ch' \in AMessage
BY DEF sendA, AMessage

(* The tile keeps the types: a store hit.                                   *)
LEMMA tileStoreType ==
    ASSUME TypeOK, NEW b \in Blocks, tileStore(b), UNCHANGED hostVars
    PROVE  TypeOK'
<1>1. latest[b] + 1 \in Nat
  BY DEF TypeOK, TileTypeOK
<1>2. cache[b] \in Line /\ Fill(latest[b] + 1) \in Words
  BY <1>1, FillType DEF TypeOK, TileTypeOK
<1>3. [cache[b] EXCEPT !.dirty = TRUE, !.data = Fill(latest[b] + 1)] \in Line
  BY <1>2, LineType
<1>4. cache' = [cache EXCEPT ![b] = [cache[b] EXCEPT !.dirty = TRUE, !.data = Fill(latest[b] + 1)]]
  BY DEF tileStore, TypeOK, TileTypeOK
<1>5. TileTypeOK'
  BY <1>1, <1>3, <1>4 DEF tileStore, TypeOK, TileTypeOK
<1>6. UNCHANGED chans /\ UNCHANGED adapterVars
  BY DEF tileStore
<1>7. PortTypeOK'
  BY <1>6 DEF chans, TypeOK, PortTypeOK
<1>8. c_count = (IF c_ch' = NoMsg THEN 0 ELSE c_ch'.beat)
  BY <1>6 DEF chans, TypeOK, AdapterTypeOK
<1>9. QED
  BY <1>5, <1>6, <1>7, <1>8, tileFrameType

(* The tile keeps the types: a miss.                                        *)
LEMMA tileAcquireType ==
    ASSUME TypeOK, NEW b \in Blocks, NEW o \in {"AcquireBlock", "AcquirePerm"},
           tileAcquire(b, o), UNCHANGED hostVars
    PROVE  TypeOK'
<1>1. a_ch' \in AMessage
  <2>1. PICK g \in Grows : sendA(o, g, b, 1, 0)
    BY DEF tileAcquire
  <2>2. 1 \in 1 .. Beats
    BY BeatsAssumption
  <2>3. QED
    BY <2>1, <2>2, sendAType
<1>2. TileTypeOK' /\ UNCHANGED <<b_ch, c_ch, d_ch, e_ch>> /\ UNCHANGED adapterVars
  BY DEF tileAcquire, TypeOK, TileTypeOK
<1>3. PortTypeOK'
  BY <1>1, <1>2 DEF TypeOK, PortTypeOK
<1>4. c_count = (IF c_ch' = NoMsg THEN 0 ELSE c_ch'.beat)
  BY <1>2 DEF TypeOK, AdapterTypeOK
<1>5. QED
  BY <1>2, <1>3, <1>4, tileFrameType

(* The tile keeps the types: an uncached request.                           *)
LEMMA tileAccessType ==
    ASSUME TypeOK, NEW b \in Blocks, NEW o \in UncachedOps,
           tileAccess(b, o), UNCHANGED hostVars
    PROVE  TypeOK'
<1>1. 1 \in 1 .. Beats /\ Beats \in 1 .. Beats
  BY BeatsAssumption
<1>2. latest[b] \in Nat /\ latest[b] + 1 \in Nat /\ "NtoB" \in Grows
  BY DEF TypeOK, TileTypeOK, Grows
<1>3. a_ch' \in AMessage
  <2>1. CASE sendA(o, "NtoB", b, 1, 0) /\ o \in {"Get", "Intent"}
    BY <1>1, <1>2, <2>1, sendAType
  <2>2. CASE /\ o \in {"Put", "PutBurst", "Arithmetic", "Logical"}
             /\ sendA(IF o = "PutBurst" THEN "Put" ELSE o, "NtoB", b,
                      IF o = "PutBurst" THEN Beats ELSE 1, latest[b] + 1)
    <3> DEFINE p == IF o = "PutBurst" THEN "Put" ELSE o
               n == IF o = "PutBurst" THEN Beats ELSE 1
    <3>1. p \in {"Put", "Arithmetic", "Logical"} /\ n \in 1 .. Beats
      BY <1>1, <2>2
    <3>2. sendA(p, "NtoB", b, n, latest[b] + 1)
      BY <2>2
    <3> HIDE DEF p, n
    <3>3. QED
      BY <1>2, <3>1, <3>2, sendAType
  <2>3. QED
    BY <2>1, <2>2 DEF tileAccess
<1>4. latest' \in [Blocks -> Nat] /\ seen' \in [Blocks -> Nat]
  BY <1>2 DEF tileAccess, TypeOK, TileTypeOK
<1>5. TileTypeOK' /\ UNCHANGED <<b_ch, c_ch, d_ch, e_ch>> /\ UNCHANGED adapterVars
  BY <1>4 DEF tileAccess, TypeOK, TileTypeOK
<1>6. PortTypeOK'
  BY <1>3, <1>5 DEF TypeOK, PortTypeOK
<1>7. c_count = (IF c_ch' = NoMsg THEN 0 ELSE c_ch'.beat)
  BY <1>5 DEF TypeOK, AdapterTypeOK
<1>8. QED
  BY <1>5, <1>6, <1>7, tileFrameType

(* A message put on an idle C port starts at beat 0, where the monitor is.  *)
LEMMA sendCType ==
    ASSUME TypeOK, NEW o, NEW p \in Reports, NEW s, NEW b \in Blocks, NEW w \in Words,
           \/ o \in {"ProbeAck", "ProbeAckData"} /\ s \in BSrcs
           \/ o \in {"Release", "ReleaseData"} /\ s = NoBlock,
           sendC(o, p, s, b, w)
    PROVE  c_ch' \in CMessage /\ c_count = (IF c_ch' = NoMsg THEN 0 ELSE c_ch'.beat)
<1>1. c_ch' = [op |-> o, param |-> p, source |-> s, addr |-> b, beat |-> 0, data |-> w]
  BY DEF sendC
<1>2. c_ch' \in CMessage
  BY <1>1, ZeroBeat DEF CMessage
<1>3. c_ch' # NoMsg /\ c_ch'.beat = 0
  BY <1>1, <1>2, NoMsgType
<1>4. c_count = 0
  BY DEF sendC, TypeOK, AdapterTypeOK
<1>5. QED
  BY <1>2, <1>3, <1>4

(* The tile keeps the types: an eviction.                                   *)
LEMMA tileReleaseType ==
    ASSUME TypeOK, NEW b \in Blocks, tileRelease(b), UNCHANGED hostVars
    PROVE  TypeOK'
<1>1. cache[b] \in Line /\ cache[b].data \in Words
  BY DEF TypeOK, TileTypeOK, Line
<1>2. PICK keep \in {"N", "B"} :
        /\ sendC(IF cache[b].dirty THEN "ReleaseData" ELSE "Release",
                 IF cache[b].perm = "B" THEN "BtoN" ELSE IF keep = "B" THEN "TtoB" ELSE "TtoN",
                 NoBlock, b, cache[b].data)
        /\ cache' = [cache EXCEPT ![b] = IF keep = "N" THEN NoLine
                                         ELSE [@ EXCEPT !.perm = "B", !.dirty = FALSE]]
  BY DEF tileRelease
<1> DEFINE o == IF cache[b].dirty THEN "ReleaseData" ELSE "Release"
           p == IF cache[b].perm = "B" THEN "BtoN" ELSE IF keep = "B" THEN "TtoB" ELSE "TtoN"
<1>3. o \in {"Release", "ReleaseData"} /\ p \in Reports /\ sendC(o, p, NoBlock, b, cache[b].data)
  BY <1>2 DEF Reports
<1> HIDE DEF o, p
<1>4. c_ch' \in CMessage /\ c_count = (IF c_ch' = NoMsg THEN 0 ELSE c_ch'.beat)
  BY <1>1, <1>3, sendCType
<1>5. cache' \in [Blocks -> Line]
  <2>1. NoLine \in Line /\ [cache[b] EXCEPT !.perm = "B", !.dirty = FALSE] \in Line
    BY <1>1, LineType
  <2>2. cache \in [Blocks -> Line]
    BY DEF TypeOK, TileTypeOK
  <2>3. QED
    BY <1>2, <2>1, <2>2
<1>6. TileTypeOK' /\ UNCHANGED <<a_ch, b_ch, d_ch, e_ch>> /\ UNCHANGED adapterVars
  BY <1>5 DEF tileRelease, TypeOK, TileTypeOK
<1>7. PortTypeOK'
  BY <1>4, <1>6 DEF TypeOK, PortTypeOK
<1>8. QED
  BY <1>4, <1>6, <1>7, tileFrameType

(* The answer to a probe is a permission and a report.                      *)
LEMMA shrinkType ==
    ASSUME NEW perm \in {"N", "B", "T"}, NEW cap \in Caps
    PROVE  shrink(perm, cap)[1] \in {"N", "B", "T"} /\ shrink(perm, cap)[2] \in Reports
BY DEF shrink, Caps, Reports

(* The tile keeps the types: the answer to a probe.                         *)
LEMMA tileProbeType == ASSUME TypeOK, tileProbe, UNCHANGED hostVars PROVE TypeOK'
<1>1. b_ch \in BMessage /\ b_ch.addr \in Blocks /\ b_ch.source \in BSrcs /\ b_ch.param \in Caps
  BY DEF tileProbe, TypeOK, PortTypeOK, BMessage
<1> DEFINE b == b_ch.addr
           r == shrink(cache[b].perm, b_ch.param)
           o == IF cache[b].dirty THEN "ProbeAckData" ELSE "ProbeAck"
<1>2. cache[b] \in Line /\ cache[b].data \in Words /\ cache[b].perm \in {"N", "B", "T"}
  BY <1>1 DEF TypeOK, TileTypeOK, Line
<1>3. r[1] \in {"N", "B", "T"} /\ r[2] \in Reports
  BY <1>1, <1>2, shrinkType
<1>4. /\ sendC(o, r[2], b_ch.source, b, cache[b].data)
      /\ cache' = [cache EXCEPT ![b] = IF r[1] = "N" THEN NoLine
                                       ELSE [@ EXCEPT !.perm = r[1], !.dirty = FALSE]]
  BY DEF tileProbe
<1>5. o \in {"ProbeAck", "ProbeAckData"}
  OBVIOUS
<1> HIDE DEF r, o
<1>6. c_ch' \in CMessage /\ c_count = (IF c_ch' = NoMsg THEN 0 ELSE c_ch'.beat)
  BY <1>1, <1>2, <1>3, <1>4, <1>5, sendCType
<1>7. cache' \in [Blocks -> Line]
  <2>1. NoLine \in Line /\ [cache[b] EXCEPT !.perm = r[1], !.dirty = FALSE] \in Line
    BY <1>2, <1>3, LineType
  <2>2. cache \in [Blocks -> Line]
    BY DEF TypeOK, TileTypeOK
  <2>3. QED
    BY <1>1, <1>4, <2>1, <2>2
<1>8. TileTypeOK' /\ UNCHANGED <<a_ch, d_ch, e_ch>> /\ UNCHANGED adapterVars
  BY <1>7 DEF tileProbe, TypeOK, TileTypeOK
<1>9. PortTypeOK'
  BY <1>6, <1>8 DEF tileProbe, TypeOK, PortTypeOK
<1>10. QED
  BY <1>6, <1>8, <1>9, tileFrameType

(* The tile keeps the types: a Grant taken.                                 *)
LEMMA tileGrantTypes ==
    ASSUME TypeOK, tileGrantData \/ tileGrant, UNCHANGED hostVars
    PROVE  TypeOK'
<1>1. d_ch \in DMessage /\ d_ch.addr \in Blocks /\ d_ch.sink \in Sinks /\ d_ch.data \in Words
  BY DEF tileGrantData, tileGrant, TypeOK, PortTypeOK, NoMsg, DMessage
<1>2. latest[d_ch.addr] + 1 \in Nat
  BY <1>1 DEF TypeOK, TileTypeOK
<1>3. cache' \in [Blocks -> Line] /\ latest' \in [Blocks -> Nat]
  <2>1. CASE tileGrantData
    <3> DEFINE p == IF d_ch.param = "toT" THEN "T" ELSE "B"
    <3>1. [perm |-> p, dirty |-> FALSE, data |-> d_ch.data] \in Line
      BY <1>1, LineType
    <3>2. cache' = [cache EXCEPT ![d_ch.addr] = [perm |-> p, dirty |-> FALSE, data |-> d_ch.data]]
          /\ latest' = latest
      BY <2>1 DEF tileGrantData
    <3> HIDE DEF p
    <3>3. QED
      BY <1>1, <3>1, <3>2 DEF TypeOK, TileTypeOK
  <2>2. CASE tileGrant
    <3> DEFINE w == Fill(latest[d_ch.addr] + 1)
    <3>1. [perm |-> "T", dirty |-> TRUE, data |-> w] \in Line
      BY <1>2, FillType, LineType
    <3>2. cache' = [cache EXCEPT ![d_ch.addr] = [perm |-> "T", dirty |-> TRUE, data |-> w]]
          /\ latest' = [latest EXCEPT ![d_ch.addr] = latest[d_ch.addr] + 1]
      BY <2>2 DEF tileGrant
    <3> HIDE DEF w
    <3>3. QED
      BY <1>1, <1>2, <3>1, <3>2 DEF TypeOK, TileTypeOK
  <2>3. QED
    BY <2>1, <2>2
<1>4. e_ch' \in EMessage
  BY <1>1 DEF tileGrantData, tileGrant, EMessage
<1>5. /\ acquiring' = acquiring \ {d_ch.addr} /\ d_ch' = NoMsg
      /\ UNCHANGED <<access, releasing, seen, a_ch, b_ch, c_ch>> /\ UNCHANGED adapterVars
  BY DEF tileGrantData, tileGrant
<1>6. TileTypeOK'
  BY <1>3, <1>5 DEF TypeOK, TileTypeOK
<1>7. PortTypeOK'
  BY <1>4, <1>5 DEF TypeOK, PortTypeOK
<1>8. c_count = (IF c_ch' = NoMsg THEN 0 ELSE c_ch'.beat)
  BY <1>5 DEF TypeOK, AdapterTypeOK
<1>9. QED
  BY <1>5, <1>6, <1>7, <1>8, tileFrameType

(* The tile keeps the types: an acknowledgement taken.                      *)
LEMMA tileAckTypes ==
    ASSUME TypeOK, tileReleaseAck \/ tileAccessAck, UNCHANGED hostVars
    PROVE  TypeOK'
<1>1. /\ d_ch' = NoMsg /\ UNCHANGED <<cache, acquiring, latest, seen, a_ch, b_ch, c_ch, e_ch>>
      /\ access' \subseteq access /\ releasing' \subseteq releasing /\ UNCHANGED adapterVars
  BY DEF tileReleaseAck, tileAccessAck
<1>2. TileTypeOK'
  BY <1>1 DEF TypeOK, TileTypeOK
<1>3. PortTypeOK'
  BY <1>1 DEF TypeOK, PortTypeOK
<1>4. c_count = (IF c_ch' = NoMsg THEN 0 ELSE c_ch'.beat)
  BY <1>1 DEF TypeOK, AdapterTypeOK
<1>5. QED
  BY <1>1, <1>2, <1>3, <1>4, tileFrameType

-----------------------------------------------------------------------------
(* The host's actions.                                                      *)
LEMMA NoProbesType == NoProbes \in ProbeSide
<1>1. [s \in BSrcs |-> NoCb] \in [BSrcs -> Callback]
  BY DEF Callback
<1>2. QED
  BY <1>1 DEF NoProbes, ProbeSide

(* A new run: everything start and reset set.                               *)
LEMMA runTestType ==
    ASSUME TypeOK, NEW p \in Programs, runTest(p)
    PROVE  TypeOK'
<1>1. p.loaded \in SUBSET Blocks /\ p.tohost \in Blocks
  BY ProgramsAssumption
<1>2. c_ch' = NoMsg /\ 0 \in Beat
  BY ZeroBeat DEF runTest, tileReset
<1>3. AdapterTypeOK'
  <2>1. memory' \in [Blocks -> Words]
    BY FillType DEF runTest, adapterStart
  <2>2. block_perm' \in [Blocks -> {"absent", "TIP", "TRUNK"}]
    BY DEF runTest, adapterStart
  <2>3. pb' \in ProbeSide
    BY NoProbesType DEF runTest, adapterStart
  <2>4. drive' \in BOOLEAN /\ retrieve' \in BOOLEAN /\ retrieving' \in BOOLEAN /\ d_sinks' \subseteq Sinks
    BY DEF runTest, adapterStart
  <2>5. d_queue' \in Seq(DMessage)
        /\ a_mon' \in [source : Blocks \cup {NoBlock}, count : Nat, bound : BOOLEAN]
    BY DEF runTest, adapterStart
  <2>6. c_count' = 0 /\ UNCHANGED <<ongoing_tlc, host_probe, err>>
    BY DEF runTest, adapterStart
  <2>7. QED
    BY <1>2, <2>1, <2>2, <2>3, <2>4, <2>5, <2>6 DEF TypeOK, AdapterTypeOK
<1>4. PortTypeOK'
  BY DEF runTest, tileReset, PortTypeOK
<1>5. TileTypeOK'
  BY LineType DEF runTest, tileReset, TileTypeOK
<1>6. HostTypeOK'
  BY <1>1 DEF runTest, TypeOK, HostTypeOK
<1>7. QED
  BY <1>3, <1>4, <1>5, <1>6 DEF TypeOK

(* The host loop: poll, timeout, stop, finish.                              *)
LEMMA hostLoopType == ASSUME TypeOK, poll \/ timeout \/ stop \/ finish PROVE TypeOK'
<1>1. UNCHANGED <<chans, tileVars>> /\ UNCHANGED <<drive, retrieving, memory, block_perm, d_sinks,
        ongoing_tlc, d_queue, pb, a_mon, c_count, err, tohost, runs>>
  BY DEF poll, timeout, stop, finish, adapterVars
<1>2. PortTypeOK' /\ TileTypeOK'
  BY <1>1 DEF chans, tileVars, TypeOK, PortTypeOK, TileTypeOK
<1>3. retrieve' \in BOOLEAN
  BY DEF poll, timeout, stop, finish, adapterVars, TypeOK, AdapterTypeOK
<1>4. /\ host_probe' \in [probe : BOOLEAN, en : BOOLEAN, addr : Blocks \cup {NoBlock}]
      /\ host_probe'.probe => host_probe'.addr \in Blocks
  <2>1. CASE UNCHANGED host_probe
    BY <2>1 DEF TypeOK, AdapterTypeOK
  <2>2. CASE poll /\ adapterProbe(tohost)
    <3>1. tohost \in Blocks
      BY <2>2 DEF poll, TypeOK, HostTypeOK
    <3>2. host_probe \in [probe : BOOLEAN, en : BOOLEAN, addr : Blocks \cup {NoBlock}]
      BY DEF TypeOK, AdapterTypeOK
    <3>3. host_probe' = [host_probe EXCEPT !.probe = TRUE, !.addr = tohost]
      BY <2>2 DEF adapterProbe
    <3>4. QED
      BY <3>1, <3>2, <3>3
  <2>3. QED
    BY <2>1, <2>2 DEF poll, timeout, stop, finish, adapterVars
<1>5. AdapterTypeOK'
  BY <1>1, <1>3, <1>4 DEF chans, TypeOK, AdapterTypeOK
<1>6. HostTypeOK'
  BY <1>1 DEF poll, timeout, stop, finish, TypeOK, TileTypeOK, HostTypeOK
<1>7. QED
  BY <1>2, <1>5, <1>6 DEF TypeOK

-----------------------------------------------------------------------------
(* The initial state is well typed.                                         *)
LEMMA InitType == Init => TypeOK
<1> SUFFICES ASSUME Init PROVE TypeOK
  OBVIOUS
<1>1. AdapterTypeOK
  <2>1. memory \in [Blocks -> Words] /\ pb \in ProbeSide
    BY FillType, NoProbesType DEF Init, adapterInit
  <2>2. /\ drive \in BOOLEAN /\ retrieve \in BOOLEAN /\ retrieving \in BOOLEAN
        /\ d_sinks \subseteq Sinks /\ err \in Exceptions
    BY DEF Init, adapterInit, Exceptions
  <2>7. d_queue \in Seq(DMessage)
    BY DEF Init, adapterInit
  <2>3. /\ block_perm \in [Blocks -> {"absent", "TIP", "TRUNK"}]
        /\ ongoing_tlc \in [Sinks -> Blocks \cup {NoBlock}]
    BY DEF Init, adapterInit
  <2>4. a_mon \in [source : Blocks \cup {NoBlock}, count : Nat, bound : BOOLEAN]
    BY DEF Init, adapterInit
  <2>5. /\ host_probe \in [probe : BOOLEAN, en : BOOLEAN, addr : Blocks \cup {NoBlock}]
        /\ host_probe.probe => host_probe.addr \in Blocks
    BY DEF Init, adapterInit
  <2>6. c_count \in Beat /\ c_count = (IF c_ch = NoMsg THEN 0 ELSE c_ch.beat)
    BY ZeroBeat DEF Init, adapterInit, tileInit
  <2>8. QED
    BY <2>1, <2>2, <2>3, <2>4, <2>5, <2>6, <2>7 DEF AdapterTypeOK
<1>2. PortTypeOK /\ TileTypeOK
  BY LineType DEF Init, tileInit, PortTypeOK, TileTypeOK
<1>3. HostTypeOK
  BY DEF Init, HostTypeOK
<1>4. QED
  BY <1>1, <1>2, <1>3 DEF TypeOK

(* Every step keeps the types.                                              *)
LEMMA NextType == TypeOK /\ [Next]_vars => TypeOK'
<1> SUFFICES ASSUME TypeOK, [Next]_vars PROVE TypeOK'
  OBVIOUS
<1>1. CASE UNCHANGED vars
  BY <1>1, SMTT(60) DEF vars, adapterVars, chans, tileVars, hostVars, TypeOK, AdapterTypeOK, PortTypeOK,
              TileTypeOK, HostTypeOK
<1>2. CASE adapterStep /\ (aGet \/ aPutTip \/ aPutOwned \/ aAtomic \/ aIntent \/ aNoSink
                          \/ aAcquireBlock \/ aAcquirePerm \/ aInterleaved)
  BY <1>2, aGetType, aPutTipType, aPutOwnedType, aAtomicType, aIntentType, aNoSinkType,
     aAcquireBlockType, aAcquirePermType, aInterleavedType
<1>3. CASE adapterStep /\ (cBeat \/ cProbeAck \/ cRelease)
  BY <1>3, cBeatType, cProbeAckType, cReleaseType
<1>4. CASE adapterStep /\ (eGrantAck \/ dDrive \/ bDrive \/ dataRetriever \/ hostInterface
                          \/ hostUnknownBlock)
  BY <1>4, eGrantAckType, dDriveType, bDriveType, dataRetrieverType, hostInterfaceType,
     hostUnknownBlockType
<1>5. CASE UNCHANGED hostVars /\ \E b \in Blocks : tileStore(b) \/ tileRelease(b)
  BY <1>5, tileStoreType, tileReleaseType
<1>6. CASE UNCHANGED hostVars /\ \E b \in Blocks, o \in {"AcquireBlock", "AcquirePerm"} :
                                   tileAcquire(b, o)
  BY <1>6, tileAcquireType
<1>7. CASE UNCHANGED hostVars /\ \E b \in Blocks, o \in UncachedOps : tileAccess(b, o)
  BY <1>7, tileAccessType
<1>8. CASE UNCHANGED hostVars /\ (tileProbe \/ tileGrantData \/ tileGrant \/ tileReleaseAck
                                  \/ tileAccessAck)
  BY <1>8, tileProbeType, tileGrantTypes, tileAckTypes
<1>9. CASE (\E p \in Programs : runTest(p)) \/ poll \/ timeout \/ stop \/ finish
  BY <1>9, runTestType, hostLoopType
<1>10. CASE ended
  BY <1>1, <1>10 DEF ended
<1>11. QED
  BY <1>1, <1>2, <1>3, <1>4, <1>5, <1>6, <1>7, <1>8, <1>9, <1>10 DEF Next

(* Type correctness of the adapter, the tile, their ports and the host loop *)
(* in every reachable state.                                                *)
THEOREM TypeCorrect == Spec => []TypeOK
BY InitType, NextType, PTL DEF Spec
=============================================================================
