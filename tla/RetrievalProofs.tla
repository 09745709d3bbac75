-------------------------- MODULE RetrievalProofs --------------------------
(***************************************************************************)
(* What the tile and the host are given to read: the data of every answer,  *)
(* the memory after the retrieval, the uncached writes; and that no         *)
(* coroutine dies for a tile that stays within what the adapter handles.    *)
(***************************************************************************)
EXTENDS CoherenceProofs

-----------------------------------------------------------------------------
(* A probe and its callback are about the same block, wherever the probe    *)
(* is: b_queue, a reservation, the B port, the C port.                      *)
SideMatched(q) ==
    /\ \A i \in 1 .. Len(q.queue) : q.queue[i].addr = q.c_map[q.queue[i].source].addr
    /\ \A i \in 1 .. Len(q.events) : q.events[i].addr = q.events[i].cb.addr
ProbeAcks == {"ProbeAck", "ProbeAckData"}
MatchInv ==
    /\ SideMatched(pb)
    /\ b_ch # NoMsg => b_ch.addr = pb.c_map[b_ch.source].addr
    /\ c_ch.op \in ProbeAcks => c_ch.addr = pb.c_map[c_ch.source].addr

(* A probe issued on a source that no queued probe uses.                    *)
LEMMA IssueMatches ==
    ASSUME NEW q \in ProbeSide, NEW r \in Request, NEW t \in BSrcs, t \notin Queued(q),
           SideMatched(q), r.addr = r.cb.addr
    PROVE  SideMatched(Issue(q, r, t)) /\ \A s \in BSrcs \ {t} : Issue(q, r, t).c_map[s] = q.c_map[s]
<1> DEFINE p == Issue(q, r, t)
           m == [op |-> "ProbeBlock", param |-> r.param, source |-> t, addr |-> r.addr]
           Q == q.queue
           R == Append(Q, m)
<1>1. /\ p.queue = R /\ p.events = q.events /\ p.c_map = [q.c_map EXCEPT ![t] = r.cb]
      /\ q.c_map \in [BSrcs -> Callback]
  BY DEF Issue, ProbeSide
<1>2. Q \in Seq(BMessage) /\ m \in BMessage
  BY DEF ProbeSide, Request, BMessage
<1>3. /\ Len(R) = Len(Q) + 1 /\ Len(Q) \in Nat
      /\ \A i \in 1 .. Len(Q) : R[i] = Q[i] /\ Q[i].source \in BSrcs
      /\ R[Len(Q) + 1] = m
  <2>1. \A i \in 1 .. Len(Q) : Q[i] \in BMessage
    BY <1>2
  <2>2. QED
    BY <1>2, <2>1 DEF BMessage
<1>4. m.source = t /\ m.addr = r.cb.addr
  OBVIOUS
<1>5. \A i \in 1 .. Len(Q) : Q[i].source # t
  BY DEF Queued
<1>6. p.c_map[t] = r.cb /\ \A s \in BSrcs \ {t} : p.c_map[s] = q.c_map[s]
  BY <1>1
<1> HIDE DEF p, m, R
<1>7. \A i \in 1 .. Len(R) : R[i].addr = p.c_map[R[i].source].addr
  <2> SUFFICES ASSUME NEW i \in 1 .. Len(R) PROVE R[i].addr = p.c_map[R[i].source].addr
    OBVIOUS
  <2>1. CASE i = Len(Q) + 1
    BY <1>3, <1>4, <1>6, <2>1
  <2>2. CASE i \in 1 .. Len(Q)
    <3>1. R[i] = Q[i] /\ Q[i].source \in BSrcs \ {t}
      BY <1>3, <1>5, <2>2
    <3>2. Q[i].addr = q.c_map[Q[i].source].addr
      BY <2>2 DEF SideMatched
    <3>3. QED
      BY <1>6, <3>1, <3>2
  <2>3. QED
    BY <1>3, <2>1, <2>2
<1>8. QED
  BY <1>1, <1>6, <1>7 DEF SideMatched, p

(* retrieveBlock.                                                           *)
LEMMA RetrieveMatches ==
    ASSUME NEW q \in ProbeSide, NEW r \in Request, NEW flying, NEW held \in SUBSET BSrcs,
           SourcesOK(q, flying, held), SideMatched(q), r.addr = r.cb.addr,
           NEW p \in retrieveBlock(q, r)
    PROVE  SideMatched(p) /\ \A s \in BSrcs \ q.free : p.c_map[s] = q.c_map[s]
<1>1. CASE q.free # {}
  <2>1. PICK t \in q.free : p = Issue(q, r, t)
    BY <1>1 DEF retrieveBlock
  <2>2. t \in BSrcs /\ t \notin Queued(q)
    BY DEF ProbeSide, SourcesOK
  <2>3. QED
    BY <2>1, <2>2, IssueMatches
<1>2. CASE q.free = {}
  <2> DEFINE E == q.events
             F == Append(E, r)
  <2>1. p = [q EXCEPT !.events = F]
    BY <1>2 DEF retrieveBlock
  <2>2. p.queue = q.queue /\ p.c_map = q.c_map /\ p.events = F /\ E \in Seq(Request)
    BY <2>1 DEF ProbeSide
  <2>3. /\ Len(F) = Len(E) + 1 /\ Len(E) \in Nat
        /\ \A i \in 1 .. Len(E) : F[i] = E[i]
        /\ F[Len(E) + 1] = r
    BY <2>2
  <2> HIDE DEF F
  <2>4. \A i \in 1 .. Len(F) : F[i].addr = F[i].cb.addr
    <3> SUFFICES ASSUME NEW i \in 1 .. Len(F) PROVE F[i].addr = F[i].cb.addr
      OBVIOUS
    <3>1. CASE i = Len(E) + 1
      BY <2>3, <3>1
    <3>2. CASE i \in 1 .. Len(E)
      BY <2>3, <3>2 DEF SideMatched
    <3>3. QED
      BY <2>3, <3>1, <3>2
  <2>5. QED
    BY <2>2, <2>4 DEF SideMatched
<1>3. QED
  BY <1>1, <1>2

(* The chain of the retrieval.                                              *)
LEMMA ProbeNextMatches ==
    ASSUME NEW q \in ProbeSide, NEW rest \in SUBSET Blocks, NEW flying, NEW held \in SUBSET BSrcs,
           SourcesOK(q, flying, held), SideMatched(q), NEW p \in probeNext(q, rest)
    PROVE  SideMatched(p) /\ \A s \in BSrcs \ q.free : p.c_map[s] = q.c_map[s]
<1>1. PICK b \in rest :
        p \in retrieveBlock(q, MkReq(MkCb("probe_blocks_rec", b, "toN", NoSink, rest \ {b}),
                                     "toN", b))
  BY DEF probeNext
<1> DEFINE r == MkReq(MkCb("probe_blocks_rec", b, "toN", NoSink, rest \ {b}), "toN", b)
<1>2. r \in Request
  BY RecCbType
<1>3. r.addr = r.cb.addr
  BY DEF MkReq, MkCb
<1> HIDE DEF r
<1>4. p \in retrieveBlock(q, r)
  BY <1>1 DEF r
<1>5. QED
  BY <1>2, <1>3, <1>4, RetrieveMatches

(* b_srcs.release.                                                          *)
LEMMA ReleaseMatches ==
    ASSUME NEW q \in ProbeSide, NEW flying, NEW s \in BSrcs, SourcesOK(q, flying, {s}),
           SideMatched(q), NEW p \in releaseSource(q, s)
    PROVE  SideMatched(p) /\ \A t \in BSrcs \ {s} : p.c_map[t] = q.c_map[t]
<1> DEFINE f == [q EXCEPT !.free = @ \cup {s}, !.bad = @ \/ s \in q.free]
           g == [f EXCEPT !.events = Tail(@)]
           E == q.events
           R == Tail(E)
<1>1. f \in ProbeSide /\ f.events = E /\ f.c_map = q.c_map /\ f.free = q.free \cup {s}
      /\ f.queue = q.queue /\ E \in Seq(Request)
  BY DEF ProbeSide
<1>2. CASE f.events = <<>>
  <2>1. p = f
    BY <1>2 DEF releaseSource
  <2>2. QED
    BY <1>1, <2>1 DEF SideMatched
<1>3. CASE f.events # <<>>
  <2>1. PICK t \in f.free : p = Issue(g, Head(f.events), t)
    BY <1>3 DEF releaseSource
  <2>2. t = s /\ s \notin Queued(q)
    BY <1>1, <1>3, <2>1 DEF SourcesOK
  <2>3. Head(E) \in Request /\ R \in Seq(Request)
    BY <1>1, <1>3
  <2>4. g \in ProbeSide /\ g.events = R /\ g.c_map = q.c_map /\ g.queue = q.queue
    <3> HIDE DEF f, R
    <3>1. g = [f EXCEPT !.events = R]
      BY <1>1 DEF R
    <3>2. QED
      BY <1>1, <2>3, <3>1 DEF ProbeSide
  <2>5. /\ Len(E) \in Nat /\ Len(E) > 0 /\ Len(R) = Len(E) - 1 /\ Head(E) = E[1]
        /\ \A i \in 1 .. Len(R) : R[i] = E[i + 1]
    BY <1>1, <1>3
  <2> HIDE DEF f, g, R
  <2>6. Head(E).addr = Head(E).cb.addr
    <3>1. 1 \in 1 .. Len(E)
      BY <2>5
    <3>2. QED
      BY <2>5, <3>1 DEF SideMatched
  <2>7. \A i \in 1 .. Len(R) : R[i].addr = R[i].cb.addr
    <3> SUFFICES ASSUME NEW i \in 1 .. Len(R) PROVE R[i].addr = R[i].cb.addr
      OBVIOUS
    <3>1. i + 1 \in 1 .. Len(E) /\ R[i] = E[i + 1]
      BY <2>5
    <3>2. QED
      BY <3>1 DEF SideMatched
  <2>8. SideMatched(g) /\ s \notin Queued(g)
    BY <2>2, <2>4, <2>7 DEF SideMatched, Queued
  <2>9. QED
    BY <1>1, <2>1, <2>2, <2>3, <2>4, <2>6, <2>8, IssueMatches
<1>4. QED
  BY <1>2, <1>3

(* A ProbeAck leaves the callbacks of the probes in flight as they are.     *)
LEMMA AckMatches ==
    ASSUME NEW q \in ProbeSide, NEW flying, NEW s \in BSrcs, s \in flying,
           SourcesOK(q, flying, {}), SideMatched(q), NEW p \in ackSource(q, s)
    PROVE  SideMatched(p) /\ \A t \in (flying \cap BSrcs) \ {s} : p.c_map[t] = q.c_map[t]
<1> DEFINE q1 == [q EXCEPT !.c_map[s] = NoCb]
           cb == q.c_map[s]
<1>1. PICK q2 \in callSource(q, s) : p \in releaseSource(q2, s)
  BY DEF ackSource
<1>2. q2 \in ProbeSide /\ SourcesOK(q2, flying \ {s}, {s})
  BY CallType, CallSafe
<1>3. /\ q1 \in ProbeSide /\ q1.queue = q.queue /\ q1.events = q.events /\ q1.free = q.free
      /\ q1.c_map = [q.c_map EXCEPT ![s] = NoCb] /\ q.c_map \in [BSrcs -> Callback]
  BY DEF ProbeSide, Callback
<1>4. SourcesOK(q1, flying \ {s}, {s})
  BY ClearSafe
<1>5. cb \in Callback /\ cb.rest \in SUBSET Blocks
  BY <1>3 DEF Callback, NoCb, MkCb
<1> HIDE DEF q1
<1>6. \A t \in BSrcs \ {s} : q1.c_map[t] = q.c_map[t]
  BY <1>3
<1>7. SideMatched(q1)
  <2> SUFFICES ASSUME NEW i \in 1 .. Len(q.queue)
               PROVE  q.queue[i].addr = q1.c_map[q.queue[i].source].addr
    BY <1>3 DEF SideMatched
  <2>1. q.queue[i].source \in Queued(q)
    BY DEF Queued
  <2>2. q.queue[i].source # s
    BY <2>1 DEF SourcesOK
  <2>3. q.queue \in Seq(BMessage)
    BY DEF ProbeSide
  <2>4. q.queue[i] \in BMessage
    BY <2>3
  <2>5. q.queue[i].source \in BSrcs \ {s}
    BY <2>2, <2>4 DEF BMessage
  <2>6. QED
    BY <1>6, <2>5 DEF SideMatched
<1>8. SideMatched(q2) /\ \A t \in BSrcs \ q1.free : q2.c_map[t] = q1.c_map[t]
  <2>1. CASE q2 = q1
    BY <1>7, <2>1
  <2>2. CASE cb.kind = "probe_blocks_rec" /\ cb.rest # {} /\ q2 \in probeNext(q1, cb.rest)
    BY <1>3, <1>4, <1>5, <1>7, <2>2, ProbeNextMatches
  <2>3. QED
    BY <2>1, <2>2 DEF callSource, q1
<1>9. SideMatched(p) /\ \A t \in BSrcs \ {s} : p.c_map[t] = q2.c_map[t]
  BY <1>1, <1>2, <1>8, ReleaseMatches
<1>10. \A t \in (flying \cap BSrcs) \ {s} : t \notin q1.free
  BY <1>3 DEF SourcesOK
<1>11. QED
  BY <1>6, <1>8, <1>9, <1>10

-----------------------------------------------------------------------------
(* What a request leaves behind: nothing, one message, or one probe.        *)
aStep == aGet \/ aPutTip \/ aPutOwned \/ aAtomic \/ aIntent \/ aNoSink \/ aAcquireBlock
         \/ aAcquirePerm \/ aInterleaved
Acquires == {"AcquireBlock", "AcquirePerm"}
CallFor(op) == CASE op = "Get" -> "AccessAckData_cb" [] op = "Put" -> "AccessAck_cb"
                 [] op = "Arithmetic" -> "ArithmeticAck_cb" [] op = "Logical" -> "LogicalAck_cb"
                 [] OTHER -> "GrantData_cb"
Answered ==
    UNCHANGED pb /\ \E m \in DMessage :
        /\ d_queue' = Append(d_queue, m) /\ m.addr = a_ch.addr /\ m.op # "ReleaseAck"
        /\ m.cb # "updateMem"
        /\ m.op \in {"Grant", "GrantData"} <=> a_ch.op \in Acquires
        /\ m.op = "AccessAckData" => permOf(a_ch.addr) = "TIP" /\ m.data = memory[a_ch.addr]
        /\ a_ch' = NoMsg \/ (a_ch.op = "Put" /\ a_mon.count + 1 = a_ch.len)
Probed ==
    UNCHANGED d_queue /\ \E r \in Request :
        /\ pb' \in retrieveBlock(pb, r) /\ r.addr = a_ch.addr /\ r.cb.addr = a_ch.addr
        /\ permOf(a_ch.addr) # "TIP" /\ r.cb.kind = CallFor(a_ch.op)
        /\ a_ch' = NoMsg \/ a_ch.op = "Put"

(* Every step of a_port_monitor is of one of the three kinds.               *)
LEMMA aFootprint ==
    ASSUME TypeOK, aStep PROVE UNCHANGED <<pb, d_queue>> \/ Answered \/ Probed
<1>2. a_ch \in AMessage /\ a_ch.addr \in Blocks
  BY aFireType DEF aStep, aGet, aPutTip, aPutOwned, aAtomic, aIntent, aNoSink, aInterleaved,
                   aAcquireBlock, aAcquirePerm
<1>3. memory[a_ch.addr] \in Words /\ Fill(0) \in Words /\ d_sinks \subseteq Sinks
  BY <1>2, FillType DEF TypeOK, AdapterTypeOK
<1>4. ASSUME NEW k \in CbKinds \ {"none", "GrantData_cb"}, NEW c \in Caps,
             aRetrieve(AckCb(k, a_ch.addr), c), UNCHANGED d_queue, permOf(a_ch.addr) # "TIP",
             k = CallFor(a_ch.op), a_ch' = NoMsg \/ a_ch.op = "Put"
      PROVE  Probed
  <2> DEFINE r == MkReq(AckCb(k, a_ch.addr), c, a_ch.addr)
  <2>1. r \in Request /\ r.cb.kind = k /\ r.cb.addr = a_ch.addr /\ r.addr = a_ch.addr
    BY <1>2, AckCbType DEF MkReq, AckCb, MkCb
  <2>2. pb' \in retrieveBlock(pb, r)
    BY <1>4 DEF aRetrieve
  <2> HIDE DEF r
  <2>3. QED
    BY <1>4, <2>1, <2>2 DEF Probed
<1>5. ASSUME NEW o \in {"AccessAckData", "AccessAck", "HintAck"}, NEW w \in Words,
             aAnswer(<<MkD(o, a_ch.addr, "toN", NoSink, w, "none")>>), a_ch.op \notin Acquires,
             o = "AccessAckData" => permOf(a_ch.addr) = "TIP" /\ w = memory[a_ch.addr],
             a_ch' = NoMsg \/ (a_ch.op = "Put" /\ a_mon.count + 1 = a_ch.len)
      PROVE  Answered
  <2> DEFINE m == MkD(o, a_ch.addr, "toN", NoSink, w, "none")
  <2>1. m \in DMessage /\ m.op = o /\ m.addr = a_ch.addr /\ m.data = w /\ m.cb = "none"
    BY <1>2, PlainDType DEF MkD
  <2> HIDE DEF m
  <2>2. d_queue' = Append(d_queue, m) /\ UNCHANGED pb
    BY <1>5, <2>1, AnswerAppend DEF m
  <2>3. QED
    BY <1>5, <2>1, <2>2 DEF Answered
<1>6. CASE aGet
  <2>0. a_ch.op = "Get" /\ a_ch' = NoMsg
    BY <1>6 DEF aGet, aFire, aTake
  <2>1. CASE permOf(a_ch.addr) # "TIP"
    BY <1>4, <1>6, <2>0, <2>1 DEF aGet, CbKinds, Caps, CallFor
  <2>2. CASE permOf(a_ch.addr) = "TIP"
    BY <1>3, <1>5, <1>6, <2>0, <2>2 DEF aGet, DataMsg, Acquires
  <2>3. QED
    BY <2>1, <2>2
<1>7. CASE aPutTip
  <2>0. a_ch.op = "Put"
    BY <1>7 DEF aPutTip, aFire
  <2>1. CASE a_mon.count + 1 = a_ch.len
    BY <1>3, <1>5, <1>7, <2>0, <2>1 DEF aPutTip, PlainD, Acquires
  <2>2. CASE a_mon.count + 1 # a_ch.len
    BY <1>7, <2>2 DEF aPutTip
  <2>3. QED
    BY <2>1, <2>2
<1>8. CASE aPutOwned
  <2>0. a_ch.op = "Put" /\ permOf(a_ch.addr) # "TIP" /\ UNCHANGED d_queue
    BY <1>8 DEF aPutOwned, aFire
  <2>1. CASE a_mon.count = 0
    BY <1>4, <1>8, <2>0, <2>1 DEF aPutOwned, CbKinds, Caps, CallFor
  <2>2. CASE a_mon.count # 0
    BY <1>8, <2>0, <2>2 DEF aPutOwned
  <2>3. QED
    BY <2>1, <2>2
<1>9. CASE aAtomic
  <2>0. a_ch.op \in {"Arithmetic", "Logical"} /\ a_ch' = NoMsg
    BY <1>9 DEF aAtomic, aFire, aTake
  <2>1. CASE permOf(a_ch.addr) # "TIP"
    <3>1. UNCHANGED d_queue
      BY <1>9, <2>1 DEF aAtomic
    <3>2. \/ a_ch.op = "Arithmetic" /\ aRetrieve(AckCb("ArithmeticAck_cb", a_ch.addr), "toN")
          \/ a_ch.op = "Logical" /\ aRetrieve(AckCb("LogicalAck_cb", a_ch.addr), "toN")
      BY <1>9, <2>0, <2>1 DEF aAtomic
    <3>3. QED
      BY <1>4, <2>0, <2>1, <3>1, <3>2 DEF CbKinds, Caps, CallFor
  <2>2. CASE permOf(a_ch.addr) = "TIP"
    BY <1>3, <1>5, <1>9, <2>0, <2>2 DEF aAtomic, DataMsg, Acquires
  <2>3. QED
    BY <2>1, <2>2
<1>10. CASE aIntent
  BY <1>3, <1>5, <1>10 DEF aIntent, PlainD, aFire, aTake, Acquires
<1>11. CASE aNoSink \/ aInterleaved
  BY <1>11 DEF aNoSink, aInterleaved
<1>12. CASE aAcquireBlock \/ aAcquirePerm
  <2>0. a_ch.op \in Acquires /\ a_ch' = NoMsg
    BY <1>12 DEF aAcquireBlock, aAcquirePerm, aFire, aTake, Acquires
  <2>1. grantCap(a_ch.param) \in Caps /\ probeCap(a_ch.param) \in Caps
    BY GrantCapType
  <2>2. CASE permOf(a_ch.addr) # "TIP"
    <3>1. CASE aAcquirePerm
      BY <2>2, <3>1 DEF aAcquirePerm
    <3>2. CASE aAcquireBlock
      <4>1. PICK s \in d_sinks :
               aRetrieve(MkCb("GrantData_cb", a_ch.addr, grantCap(a_ch.param), s, {}),
                         probeCap(a_ch.param)) /\ UNCHANGED d_queue
        BY <2>2, <3>2 DEF aAcquireBlock
      <4> DEFINE r == MkReq(MkCb("GrantData_cb", a_ch.addr, grantCap(a_ch.param), s, {}),
                            probeCap(a_ch.param), a_ch.addr)
      <4>2. r \in Request
        BY <1>2, <1>3, <2>1, GrantCbType
      <4>3. r.addr = a_ch.addr /\ r.cb.addr = a_ch.addr /\ r.cb.kind = "GrantData_cb"
        BY DEF MkReq, MkCb
      <4>4. pb' \in retrieveBlock(pb, r)
        BY <4>1 DEF aRetrieve
      <4>5. CallFor(a_ch.op) = "GrantData_cb"
        BY <2>0 DEF CallFor, Acquires
      <4> HIDE DEF r
      <4>6. QED
        BY <2>0, <2>2, <4>1, <4>2, <4>3, <4>4, <4>5 DEF Probed
    <3>3. QED
      BY <1>12, <3>1, <3>2
  <2>3. CASE permOf(a_ch.addr) = "TIP"
    <3>1. PICK s \in d_sinks, o \in {"Grant", "GrantData"}, w \in Words :
             aAnswer(<<MkD(o, a_ch.addr, grantCap(a_ch.param), s, w, "updatePerm")>>)
      BY <1>3, <1>12, <2>3 DEF aAcquireBlock, aAcquirePerm, DataMsg
    <3> DEFINE m == MkD(o, a_ch.addr, grantCap(a_ch.param), s, w, "updatePerm")
    <3>2. m \in DMessage
      BY <1>2, <1>3, <2>1, GrantDType
    <3>3. m.op = o /\ m.addr = a_ch.addr /\ m.cb = "updatePerm"
      BY DEF MkD
    <3> HIDE DEF m
    <3>4. d_queue' = Append(d_queue, m) /\ UNCHANGED pb
      BY <3>1, <3>2, AnswerAppend DEF m
    <3>5. QED
      BY <2>0, <3>2, <3>3, <3>4 DEF Answered
  <2>4. QED
    BY <2>2, <2>3
<1>13. QED
  BY <1>6, <1>7, <1>8, <1>9, <1>10, <1>11, <1>12 DEF aStep

Flying == onB \cup onC
(* The callbacks of the probes in flight stay until their answer is read.   *)
LEMMA FlyingKept ==
    ASSUME TypeOK, ProbeSources, MatchInv,
           \/ UNCHANGED pb
           \/ aStep
           \/ dataRetriever \/ hostInterface
    PROVE  SideMatched(pb') /\ \A s \in Flying : pb'.c_map[s] = pb.c_map[s]
<1>0. pb \in ProbeSide /\ SourcesOK(pb, onB \cup onC, {}) /\ SideMatched(pb)
  BY ProbeTypes DEF ProbeSources, MatchInv
<1>1. Flying \subseteq BSrcs /\ \A s \in Flying : s \notin pb.free
  <2>1. onB \subseteq BSrcs /\ onC \subseteq BSrcs
    BY ProbeTypes DEF onB, onC
  <2>2. QED
    BY <1>0, <2>1 DEF SourcesOK, Flying
<1>2. CASE UNCHANGED pb
  BY <1>0, <1>2
<1>3. ASSUME NEW r \in Request, pb' \in retrieveBlock(pb, r), r.addr = r.cb.addr
      PROVE  SideMatched(pb') /\ \A s \in Flying : pb'.c_map[s] = pb.c_map[s]
  BY <1>0, <1>1, <1>3, RetrieveMatches
<1>4. CASE aStep
  BY <1>2, <1>3, <1>4, aFootprint DEF Answered, Probed
<1>5. CASE dataRetriever
  <2> DEFINE trunk == {b \in Blocks : block_perm[b] = "TRUNK"}
  <2>1. UNCHANGED pb \/ pb' \in probeNext(pb, trunk)
    BY <1>5 DEF dataRetriever
  <2>2. CASE pb' \in probeNext(pb, trunk)
    BY <1>0, <1>1, <2>2, ProbeNextMatches
  <2>3. QED
    BY <1>2, <2>1, <2>2
<1>6. CASE hostInterface
  <2> DEFINE r == MkReq(AckCb("enableProbe", host_probe.addr), "toN", host_probe.addr)
  <2>1. host_probe.addr \in Blocks
    BY <1>6 DEF hostInterface, hostReady, TypeOK, AdapterTypeOK
  <2>2. pb' \in retrieveBlock(pb, r)
    BY <1>6 DEF hostInterface
  <2>3. r \in Request
    BY <2>1, AckCbType DEF CbKinds, Caps
  <2>4. r.addr = r.cb.addr
    BY DEF MkReq, AckCb, MkCb
  <2> HIDE DEF r
  <2>5. QED
    BY <1>3, <2>2, <2>3, <2>4
<1>7. QED
  BY <1>2, <1>4, <1>5, <1>6

(* A ProbeAck is read: the other probe in flight keeps its callback.        *)
LEMMA AckMatch == ASSUME TypeOK, ProbeSources, MatchInv, cProbeAck PROVE MatchInv'
<1> DEFINE s == c_ch.source
<1>1. /\ c_ch.op \in ProbeAcks /\ s \in BSrcs /\ UNCHANGED b_ch /\ c_ch' = NoMsg
      /\ pb' \in ackSource(pb, s)
  BY cFireType, ProbeTypes DEF cProbeAck, cUnchanged, ProbeAcks
<1>2. s \in Flying /\ onC = {s} /\ onB \cap onC = {}
  BY <1>1 DEF Flying, onC, ProbeAcks, ProbeSources
<1>3. pb \in ProbeSide /\ SourcesOK(pb, Flying, {}) /\ SideMatched(pb)
  BY ProbeTypes DEF ProbeSources, MatchInv, Flying
<1>4. SideMatched(pb') /\ \A t \in (Flying \cap BSrcs) \ {s} : pb'.c_map[t] = pb.c_map[t]
  BY <1>1, <1>2, <1>3, AckMatches
<1>5. b_ch # NoMsg => b_ch.source \in (Flying \cap BSrcs) \ {s}
  BY <1>2, ProbeTypes DEF Flying, onB
<1>6. c_ch'.op \notin ProbeAcks
  BY <1>1 DEF NoMsg, ProbeAcks
<1>7. QED
  BY <1>1, <1>4, <1>5, <1>6 DEF MatchInv

(* Every step keeps probes and callbacks matched.                           *)
LEMMA NextMatch == TypeOK /\ ProbeSources /\ MatchInv /\ [Next]_vars => MatchInv'
<1> SUFFICES ASSUME TypeOK, ProbeSources, MatchInv, [Next]_vars PROVE MatchInv'
  OBVIOUS
<1>0. /\ b_ch # NoMsg => b_ch.source \in Flying
      /\ c_ch.op \in ProbeAcks => c_ch.source \in Flying
  BY DEF Flying, onB, onC, ProbeAcks
<1>1. ASSUME SideMatched(pb') /\ \A s \in Flying : pb'.c_map[s] = pb.c_map[s], UNCHANGED b_ch,
             c_ch'.op \in ProbeAcks =>
                 c_ch.op \in ProbeAcks /\ c_ch'.source = c_ch.source /\ c_ch'.addr = c_ch.addr
      PROVE  MatchInv'
  BY <1>0, <1>1 DEF MatchInv
<1>2. CASE aStep \/ dataRetriever \/ hostInterface \/ (UNCHANGED <<pb, b_ch, c_ch>>)
  <2>1. UNCHANGED <<b_ch, c_ch>>
    BY <1>2 DEF aStep, aGet, aPutTip, aPutOwned, aAtomic, aIntent, aNoSink, aAcquireBlock,
                aAcquirePerm, aInterleaved, aUnchanged, dataRetriever, hostInterface, chans
  <2>2. QED
    BY <1>1, <1>2, <2>1, FlyingKept
<1>3. CASE cBeat
  <2>1. c_ch \in CMessage /\ c_ch' = [c_ch EXCEPT !.beat = @ + 1] /\ UNCHANGED <<pb, b_ch>>
    BY <1>3, cFireType DEF cBeat, cUnchanged
  <2>2. c_ch'.op = c_ch.op /\ c_ch'.source = c_ch.source /\ c_ch'.addr = c_ch.addr
    BY <2>1 DEF CMessage
  <2>3. QED
    BY <1>1, <2>1, <2>2, FlyingKept
<1>4. CASE cProbeAck
  BY <1>4, AckMatch
<1>5. CASE cRelease \/ (\E b \in Blocks : tileRelease(b))
  <2>1. c_ch'.op \notin ProbeAcks /\ UNCHANGED <<pb, b_ch>>
    <3>1. CASE cRelease
      BY <3>1 DEF cRelease, cUnchanged, NoMsg, ProbeAcks
    <3>2. CASE \E b \in Blocks : tileRelease(b)
      <4>1. PICK b \in Blocks : tileRelease(b)
        BY <3>2
      <4>2. c_ch'.op \in {"Release", "ReleaseData"}
        BY <4>1 DEF tileRelease, sendC
      <4>3. QED
        BY <4>1, <4>2 DEF tileRelease, adapterVars, ProbeAcks
    <3>3. QED
      BY <1>5, <3>1, <3>2
  <2>2. QED
    BY <1>1, <2>1, FlyingKept
<1>6. CASE bDrive
  <2> DEFINE Q == pb.queue
             R == Tail(Q)
  <2>1. Q # <<>> /\ b_ch' = Head(Q) /\ UNCHANGED c_ch /\ pb' = [pb EXCEPT !.queue = R]
    BY <1>6 DEF bDrive
  <2>2. Q \in Seq(BMessage) /\ pb'.queue = R /\ pb'.events = pb.events /\ pb'.c_map = pb.c_map
    BY <2>1, ProbeTypes DEF ProbeSide
  <2>3. /\ Len(Q) \in Nat /\ Len(Q) > 0 /\ Len(R) = Len(Q) - 1 /\ Head(Q) = Q[1]
        /\ \A i \in 1 .. Len(R) : R[i] = Q[i + 1]
    BY <2>1, <2>2
  <2> HIDE DEF R
  <2>4. \A i \in 1 .. Len(Q) : Q[i].addr = pb.c_map[Q[i].source].addr
    BY DEF MatchInv, SideMatched
  <2>5. 1 \in 1 .. Len(Q) /\ \A i \in 1 .. Len(R) : i + 1 \in 1 .. Len(Q)
    BY <2>3
  <2>6. b_ch'.addr = pb.c_map[b_ch'.source].addr
    BY <2>1, <2>3, <2>4, <2>5
  <2>7. \A i \in 1 .. Len(R) : R[i].addr = pb.c_map[R[i].source].addr
    BY <2>3, <2>4, <2>5
  <2>8. QED
    BY <2>1, <2>2, <2>6, <2>7 DEF MatchInv, SideMatched
<1>7. CASE tileProbe
  <2>1. /\ b_ch # NoMsg /\ b_ch' = NoMsg /\ c_ch'.source = b_ch.source /\ c_ch'.addr = b_ch.addr
        /\ UNCHANGED pb
    BY <1>7 DEF tileProbe, sendC, adapterVars
  <2>2. QED
    BY <2>1 DEF MatchInv
<1>8. CASE \E p \in Programs : runTest(p)
  <2>1. pb' = NoProbes /\ b_ch' = NoMsg /\ c_ch' = NoMsg
    BY <1>8 DEF runTest, adapterStart, tileReset
  <2>2. QED
    BY <2>1 DEF MatchInv, SideMatched, NoProbes, NoMsg, ProbeAcks
<1>9. CASE eGrantAck \/ dDrive \/ hostUnknownBlock \/ (\E b \in Blocks : tileStore(b))
           \/ (\E b \in Blocks, o \in {"AcquireBlock", "AcquirePerm"} : tileAcquire(b, o))
           \/ (\E b \in Blocks, o \in UncachedOps : tileAccess(b, o))
           \/ tileGrantData \/ tileGrant \/ tileReleaseAck \/ tileAccessAck
  <2>1. UNCHANGED <<pb, b_ch, c_ch>>
    BY <1>9 DEF eGrantAck, dDrive, hostUnknownBlock, tileStore, tileAcquire, tileAccess,
                tileGrantData, tileGrant, tileReleaseAck, tileAccessAck, adapterVars, chans
  <2>2. QED
    BY <1>2, <2>1
<1>10. CASE poll \/ timeout \/ stop \/ finish \/ ended \/ UNCHANGED vars
  BY <1>2, <1>10 DEF poll, timeout, stop, finish, ended, vars, adapterVars, chans
<1>11. QED
  BY <1>2, <1>3, <1>4, <1>5, <1>6, <1>7, <1>8, <1>9, <1>10 DEF Next, aStep

(* There is no probe before the first run.                                  *)
LEMMA InitMatch == Init => MatchInv
BY DEF Init, adapterInit, tileInit, MatchInv, SideMatched, NoProbes, NoMsg, ProbeAcks

-----------------------------------------------------------------------------
(* Memory only grows: no word is overwritten by an older store.  A message  *)
(* with data is at least as new as the words it will overwrite, and no word *)
(* is newer than the newest store.                                          *)
MemoryAt(b, mem, c, v) ==
    /\ \A i \in Beat : mem[i] <= v
    /\ CarriesData(c) /\ c.addr = b => \A i \in Beat : mem[i] <= c.data[i] /\ c.data[i] <= v
MemoryInv == \A b \in CachedOnly : MemoryAt(b, memory[b], c_ch, latest[b])
Newer(old, new) == \A i \in Beat : old[i] <= new[i]

(* The words are numbers.                                                   *)
LEMMA WordTypes ==
    ASSUME TypeOK
    PROVE  \A b \in Blocks : /\ memory[b] \in Words /\ latest[b] \in Nat /\ seen[b] \in Nat
                             /\ atStop[b] \in Nat
                             /\ \A i \in Beat : memory[b][i] \in Nat
<1>1. memory \in [Blocks -> Words] /\ latest \in [Blocks -> Nat] /\ atStop \in [Blocks -> Nat]
      /\ seen \in [Blocks -> Nat]
  BY DEF TypeOK, AdapterTypeOK, TileTypeOK, HostTypeOK
<1>2. QED
  BY <1>1 DEF Words

(* c_port_monitor writes one word, and a newer one.                         *)
LEMMA cGrows ==
    ASSUME TypeOK, MemoryInv, cBeat \/ cProbeAck \/ cRelease, NEW b \in CachedOnly
    PROVE  /\ Newer(memory[b], memory'[b]) /\ \A i \in Beat : memory'[b][i] <= latest[b]
           /\ CarriesData(c_ch) /\ c_ch.addr = b =>
                \A i \in Beat : memory'[b][i] <= c_ch.data[i] /\ c_ch.data[i] <= latest[b]
<1>1. cFire({"ProbeAck", "ProbeAckData", "Release", "ReleaseData"}) /\ memory' = cWrite
  BY DEF cBeat, cProbeAck, cRelease, cFire
<1>2. c_ch \in CMessage /\ c_ch # NoMsg /\ b \in Blocks
  BY <1>1, cFireType DEF CachedOnly
<1>3. /\ memory \in [Blocks -> Words] /\ memory[b] \in [Beat -> Nat] /\ c_count \in Beat
      /\ c_count = c_ch.beat /\ c_ch.data \in [Beat -> Nat] /\ latest[b] \in Nat
  BY <1>2, WordTypes DEF TypeOK, AdapterTypeOK, CMessage, Words
<1>4. MemoryAt(b, memory[b], c_ch, latest[b])
  BY DEF MemoryInv
<1>5. CASE b # c_ch.addr \/ ~CarriesData(c_ch)
  <2>1. memory'[b] = memory[b]
    BY <1>1, <1>2, <1>5, cWrites
  <2>2. \A i \in Beat : memory[b][i] \in Nat
    BY <1>3
  <2>3. QED
    BY <1>4, <1>5, <2>1, <2>2 DEF MemoryAt, Newer
<1>6. CASE b = c_ch.addr /\ CarriesData(c_ch)
  <2>1. memory'[b] = [memory[b] EXCEPT ![c_count] = c_ch.data[c_count]]
    BY <1>1, <1>2, <1>3, <1>6 DEF cWrite, hasData, CarriesData
  <2>2. \A i \in Beat : memory'[b][i] = IF i = c_count THEN c_ch.data[i] ELSE memory[b][i]
    BY <1>3, <2>1
  <2>3. \A i \in Beat : memory[b][i] \in Nat /\ c_ch.data[i] \in Nat
    BY <1>3
  <2>4. \A i \in Beat : memory[b][i] <= c_ch.data[i] /\ c_ch.data[i] <= latest[b]
                        /\ memory[b][i] <= latest[b]
    BY <1>4, <1>6 DEF MemoryAt
  <2>5. QED
    BY <1>3, <2>2, <2>3, <2>4 DEF Newer
<1>7. QED
  BY <1>5, <1>6

(* A report of a dirty line carries the newest store.                       *)
LEMMA reportMemory ==
    ASSUME TypeOK, StoreInv, MemoryInv, NEW x \in Blocks, NEW b \in CachedOnly, UNCHANGED latest,
           memory'[b] = memory[b], c_ch'.addr = x, c_ch'.data = cache[x].data,
           CarriesData(c_ch') => cache[x].dirty
    PROVE  MemoryAt(b, memory'[b], c_ch', latest'[b])
<1>1. MemoryAt(b, memory[b], c_ch, latest[b]) /\ b \in Blocks
  BY DEF MemoryInv, CachedOnly
<1>2. StoreAt(b, memory[b], block_perm[b], cache[b], c_ch, c_count, d_queue, d_ch, latest[b])
  BY DEF StoreInv
<1>3. CASE CarriesData(c_ch') /\ x = b
  <2>1. c_ch'.data = Fill(latest[b])
    BY <1>2, <1>3 DEF StoreAt
  <2>2. \A i \in Beat : c_ch'.data[i] = latest[b] /\ latest[b] \in Nat
    BY <1>1, <2>1, WordTypes DEF Fill
  <2>3. QED
    BY <1>1, <2>2 DEF MemoryAt
<1>4. CASE ~(CarriesData(c_ch') /\ x = b)
  BY <1>1, <1>4 DEF MemoryAt
<1>5. QED
  BY <1>3, <1>4

(* In every step but a new run memory grows, and stays behind the stores.   *)
LEMMA NextMemory ==
    ASSUME TypeOK, StoreInv, MemoryInv, [Next]_vars, NEW b \in CachedOnly
    PROVE  /\ MemoryAt(b, memory'[b], c_ch', latest'[b])
           /\ (\E p \in Programs : runTest(p)) \/ Newer(memory[b], memory'[b])
<1>0. b \in Blocks /\ memory[b] \in Words /\ latest[b] \in Nat
      /\ \A i \in Beat : memory[b][i] \in Nat
  BY WordTypes DEF CachedOnly
<1>1. MemoryAt(b, memory[b], c_ch, latest[b])
  BY DEF MemoryInv
<1>2. ASSUME memory'[b] = memory[b] PROVE Newer(memory[b], memory'[b])
  BY <1>0, <1>2 DEF Newer
<1>3. CASE memory'[b] = memory[b] /\ c_ch' = c_ch /\ latest'[b] = latest[b]
  BY <1>1, <1>2, <1>3
<1>4. CASE adapterStep /\ aStep
  <2>1. memory'[b] = memory[b]
    BY <1>4, aMemory DEF aStep
  <2>2. UNCHANGED <<c_ch, latest>>
    BY <1>4 DEF aStep, aGet, aPutTip, aPutOwned, aAtomic, aIntent, aNoSink, aAcquireBlock,
                aAcquirePerm, aInterleaved, aUnchanged, adapterStep, tileVars
  <2>3. QED
    BY <1>3, <2>1, <2>2
<1>5. CASE adapterStep /\ cBeat
  <2>1. c_ch \in CMessage /\ c_ch' = [c_ch EXCEPT !.beat = @ + 1] /\ UNCHANGED latest
    BY <1>5, cFireType DEF cBeat, adapterStep, tileVars
  <2>2. c_ch'.op = c_ch.op /\ c_ch'.addr = c_ch.addr /\ c_ch'.data = c_ch.data
    BY <2>1 DEF CMessage
  <2>3. QED
    BY <1>5, <2>1, <2>2, cGrows DEF MemoryAt, CarriesData
<1>6. CASE adapterStep /\ (cProbeAck \/ cRelease)
  <2>0. c_ch' = NoMsg /\ UNCHANGED latest
    BY <1>6 DEF cProbeAck, cRelease, adapterStep, tileVars
  <2>1. ~CarriesData(c_ch')
    BY <2>0 DEF CarriesData, NoMsg
  <2>2. QED
    BY <1>6, <2>0, <2>1, cGrows DEF MemoryAt
<1>7. CASE \E x \in Blocks : tileRelease(x)
  <2>1. PICK x \in Blocks : tileRelease(x)
    BY <1>7
  <2>2. /\ c_ch'.addr = x /\ c_ch'.data = cache[x].data /\ UNCHANGED <<latest, memory>>
        /\ c_ch'.op = (IF cache[x].dirty THEN "ReleaseData" ELSE "Release")
    BY <2>1 DEF tileRelease, sendC, adapterVars
  <2>3. CarriesData(c_ch') => cache[x].dirty
    BY <2>2 DEF CarriesData
  <2>4. QED
    BY <1>2, <2>2, <2>3, reportMemory
<1>8. CASE tileProbe
  <2>1. b_ch.addr \in Blocks
    BY <1>8 DEF tileProbe, TypeOK, PortTypeOK, BMessage
  <2>2. /\ c_ch'.addr = b_ch.addr /\ c_ch'.data = cache[b_ch.addr].data
        /\ UNCHANGED <<latest, memory>>
        /\ c_ch'.op = (IF cache[b_ch.addr].dirty THEN "ProbeAckData" ELSE "ProbeAck")
    BY <1>8 DEF tileProbe, sendC, adapterVars
  <2>3. CarriesData(c_ch') => cache[b_ch.addr].dirty
    BY <2>2 DEF CarriesData
  <2>4. QED
    BY <1>2, <2>1, <2>2, <2>3, reportMemory
<1>9. ASSUME NEW x \in Blocks, latest' = [latest EXCEPT ![x] = @ + 1], UNCHANGED <<memory, c_ch>>
      PROVE  MemoryAt(b, memory'[b], c_ch', latest'[b])
  <2>1. latest'[b] \in Nat /\ latest[b] <= latest'[b]
    BY <1>0, <1>9 DEF TypeOK, TileTypeOK
  <2>2. CarriesData(c_ch) => \A i \in Beat : c_ch.data[i] \in Nat
    <3>1. CarriesData(c_ch) => c_ch # NoMsg
      BY DEF CarriesData, NoMsg
    <3>2. c_ch # NoMsg => c_ch.data \in [Beat -> Nat]
      BY TileTypes DEF CMessage, Words
    <3>3. QED
      BY <3>1, <3>2
  <2>3. QED
    BY <1>0, <1>1, <1>9, <2>1, <2>2 DEF MemoryAt
<1>10. CASE \E x \in Blocks : tileStore(x)
  BY <1>2, <1>9, <1>10 DEF tileStore, adapterVars, chans
<1>11. CASE \E x \in Blocks, o \in UncachedOps : tileAccess(x, o)
  <2>1. PICK x \in Blocks, o \in UncachedOps : tileAccess(x, o)
    BY <1>11
  <2>2. UNCHANGED <<memory, c_ch>>
        /\ (latest' = [latest EXCEPT ![x] = @ + 1] \/ UNCHANGED latest)
    BY <2>1 DEF tileAccess, adapterVars
  <2>3. QED
    BY <1>2, <1>3, <1>9, <2>2
<1>12. CASE tileGrant
  <2>1. d_ch.addr \in Blocks
    BY <1>12, TileTypes DEF tileGrant, NoMsg
  <2>2. UNCHANGED <<memory, c_ch>> /\ latest' = [latest EXCEPT ![d_ch.addr] = @ + 1]
    BY <1>12 DEF tileGrant, adapterVars
  <2>3. QED
    BY <1>2, <1>9, <2>1, <2>2
<1>13. CASE \E p \in Programs : runTest(p)
  <2>1. memory'[b] = Fill(0) /\ latest'[b] = 0 /\ c_ch' = NoMsg
    BY <1>0, <1>13 DEF runTest, tileReset, adapterStart
  <2>2. ~CarriesData(c_ch') /\ \A i \in Beat : memory'[b][i] = 0
    BY <2>1 DEF CarriesData, NoMsg, Fill
  <2>3. QED
    BY <1>13, <2>1, <2>2 DEF MemoryAt
<1>14. CASE adapterStep /\ (bDrive \/ dataRetriever \/ hostInterface \/ hostUnknownBlock
                              \/ eGrantAck \/ dDrive)
  <2>1. UNCHANGED <<memory, latest, c_ch>>
    BY <1>14 DEF adapterStep, tileVars, bDrive, dataRetriever, hostInterface, hostUnknownBlock,
                 eGrantAck, dDrive, chans
  <2>2. QED
    BY <1>3, <2>1
<1>15. CASE tileGrantData \/ tileReleaseAck \/ tileAccessAck
            \/ (\E x \in Blocks, o \in {"AcquireBlock", "AcquirePerm"} : tileAcquire(x, o))
            \/ poll \/ timeout \/ stop \/ finish \/ ended \/ UNCHANGED vars
  <2>1. UNCHANGED <<memory, latest, c_ch>>
    BY <1>15 DEF tileGrantData, tileReleaseAck, tileAccessAck, tileAcquire, poll, timeout, stop,
                 finish, ended, vars, adapterVars, chans, tileVars
  <2>2. QED
    BY <1>3, <2>1
<1>16. QED
  BY <1>4, <1>5, <1>6, <1>7, <1>8, <1>10, <1>11, <1>12, <1>13, <1>14, <1>15 DEF Next, aStep

(* At first memory and stores are all at 0.                                 *)
LEMMA InitMemory == Init => MemoryInv
<1> SUFFICES ASSUME Init, NEW b \in CachedOnly PROVE MemoryAt(b, memory[b], c_ch, latest[b])
  BY DEF MemoryInv
<1>1. memory[b] = Fill(0) /\ latest[b] = 0 /\ c_ch = NoMsg
  BY DEF Init, adapterInit, tileInit, CachedOnly
<1>2. ~CarriesData(c_ch) /\ \A i \in Beat : memory[b][i] = 0
  BY <1>1 DEF CarriesData, NoMsg, Fill
<1>3. QED
  BY <1>1, <1>2 DEF MemoryAt

-----------------------------------------------------------------------------
(* The retrieval.  stop() notes the newest stores (atStop) and sets         *)
(* retrieve; data_retriever then probes the TRUNK blocks one after the      *)
(* other, each from the callback of the one before.  What must be retrieved *)
(* is not what the directory says by then, so the invariant is about the    *)
(* blocks a callback of the chain does not name: those are in memory.       *)
RecCbs == {cb \in Callback : cb.kind = "probe_blocks_rec"}
RecCb(y, rest) == MkCb("probe_blocks_rec", y, "toN", NoSink, rest)
Covered(mem, stops, x) == \A i \in Beat : mem[x][i] >= stops[x]
Skipping(mem, stops) ==
    {cb \in RecCbs : \E x \in CachedOnly \ ({cb.addr} \cup cb.rest) : ~Covered(mem, stops, x)}
trunkBlocks == {b \in Blocks : block_perm[b] = "TRUNK"}

(* The chain lives only after stop() was called in this run.                *)
PhaseInv ==
    /\ Calls(pb, RecCbs) => retrieving
    /\ retrieving => retrieve
    /\ drive /\ retrieve => pc = "wait"
    /\ ~drive => pc \in {"wait", "idle"}
    /\ pc = "wait" => \A b \in Blocks : atStop[b] <= latest[b]

(* What an answer will leave in memory.                                     *)
Brings(c, mem) == IF CarriesData(c) THEN c.data ELSE mem[c.addr]
ChainInv ==
    /\ ~Calls(pb, Skipping(memory, atStop))
    /\ c_ch.op \in ProbeAcks /\ pb.c_map[c_ch.source].kind = "probe_blocks_rec"
         /\ c_ch.addr \in CachedOnly =>
           \A i \in Beat : Brings(c_ch, memory)[i] >= atStop[c_ch.addr]
    /\ ~drive /\ pc = "wait" => \A x \in CachedOnly : Covered(memory, atStop, x)

(* probeNext registers the callback of the next block.                      *)
LEMMA ProbeNextChain ==
    ASSUME NEW q \in ProbeSide, NEW rest \in SUBSET Blocks, NEW flying, NEW held \in SUBSET BSrcs,
           SourcesOK(q, flying, held), NEW p \in probeNext(q, rest), NEW K, NoCb \notin K,
           Calls(p, K)
    PROVE  Calls(q, K) \/ \E y \in rest : RecCb(y, rest \ {y}) \in K
<1>1. PICK y \in rest : p \in retrieveBlock(q, MkReq(RecCb(y, rest \ {y}), "toN", y))
  BY DEF probeNext, RecCb
<1> DEFINE r == MkReq(RecCb(y, rest \ {y}), "toN", y)
<1>2. r \in Request
  BY RecCbType DEF RecCb
<1>3. r.cb = RecCb(y, rest \ {y})
  BY DEF MkReq
<1> HIDE DEF r
<1>4. p \in retrieveBlock(q, r)
  BY <1>1 DEF r
<1>5. Calls(q, K) \/ r.cb \in K
  BY <1>2, <1>4, RetrieveCalls
<1>6. QED
  BY <1>3, <1>5

(* After a ProbeAck every callback is an old one, or the chain's next.      *)
LEMMA AckChain ==
    ASSUME NEW q \in ProbeSide, NEW flying, NEW s \in BSrcs, s \in flying,
           SourcesOK(q, flying, {}), NEW p \in ackSource(q, s), NEW K, NoCb \notin K, Calls(p, K)
    PROVE  \/ Calls(q, K)
           \/ /\ q.c_map[s].kind = "probe_blocks_rec"
              /\ \E y \in q.c_map[s].rest : RecCb(y, q.c_map[s].rest \ {y}) \in K
<1> DEFINE q1 == [q EXCEPT !.c_map[s] = NoCb]
           cb == q.c_map[s]
<1>1. PICK q2 \in callSource(q, s) : p \in releaseSource(q2, s)
  BY DEF ackSource
<1>2. q2 \in ProbeSide /\ SourcesOK(q2, flying \ {s}, {s})
  BY CallType, CallSafe
<1>3. Calls(q2, K)
  BY <1>1, <1>2, ReleaseCalls
<1>4. Calls(q1, K) => Calls(q, K)
  BY ClearCalls
<1>5. CASE q2 = q1
  BY <1>3, <1>4, <1>5
<1>6. CASE cb.kind = "probe_blocks_rec" /\ cb.rest # {} /\ q2 \in probeNext(q1, cb.rest)
  <2>1. q1 \in ProbeSide /\ cb \in Callback
    BY DEF ProbeSide, Callback
  <2>2. cb.rest \in SUBSET Blocks
    BY <2>1 DEF Callback, NoCb, MkCb
  <2>3. SourcesOK(q1, flying \ {s}, {s})
    BY ClearSafe
  <2>4. Calls(q1, K) \/ \E y \in cb.rest : RecCb(y, cb.rest \ {y}) \in K
    BY <1>3, <1>6, <2>1, <2>2, <2>3, ProbeNextChain
  <2>5. QED
    BY <1>4, <1>6, <2>4
<1>7. QED
  BY <1>1, <1>5, <1>6 DEF callSource

(* Where a callback of the chain comes from.                                *)
LEMMA NextCalls ==
    ASSUME TypeOK, ProbeSources, [Next]_vars, NEW K \in SUBSET RecCbs, Calls(pb', K)
    PROVE  LET cb == pb.c_map[c_ch.source]
           IN \/ Calls(pb, K) /\ \A p \in Programs : ~runTest(p)
              \/ dataRetriever /\ \E y \in trunkBlocks : RecCb(y, trunkBlocks \ {y}) \in K
              \/ /\ cProbeAck /\ cb.kind = "probe_blocks_rec"
                 /\ \E y \in cb.rest : RecCb(y, cb.rest \ {y}) \in K
<1>0. NoCb \notin K /\ \A cb \in K : cb.kind = "probe_blocks_rec"
  BY DEF RecCbs, NoCb, MkCb
<1>00. pb \in ProbeSide /\ SourcesOK(pb, onB \cup onC, {})
  BY ProbeTypes DEF ProbeSources
<1>1. CASE \E p \in Programs : runTest(p)
  <2>1. pb' = NoProbes
    BY <1>1 DEF runTest, adapterStart
  <2>2. QED
    BY <1>0, <2>1, NoProbesCalls
<1>2. SUFFICES ASSUME \A p \in Programs : ~runTest(p), ~Calls(pb, K)
               PROVE  LET cb == pb.c_map[c_ch.source]
                      IN \/ dataRetriever /\ \E y \in trunkBlocks : RecCb(y, trunkBlocks \ {y}) \in K
                         \/ /\ cProbeAck /\ cb.kind = "probe_blocks_rec"
                            /\ \E y \in cb.rest : RecCb(y, cb.rest \ {y}) \in K
  BY <1>1
<1>3. ASSUME NEW r \in Request, pb' \in retrieveBlock(pb, r), r.cb.kind # "probe_blocks_rec"
      PROVE  FALSE
  BY <1>0, <1>00, <1>2, <1>3, RetrieveCalls
<1>4. CASE UNCHANGED pb
  BY <1>2, <1>4
<1>5. CASE aStep
  <2>1. UNCHANGED pb \/ Probed
    BY <1>5, aFootprint DEF Answered
  <2>2. \A o : CallFor(o) # "probe_blocks_rec"
    BY DEF CallFor
  <2>3. QED
    BY <1>3, <1>4, <2>1, <2>2 DEF Probed
<1>6. CASE dataRetriever
  <2>1. UNCHANGED pb \/ pb' \in probeNext(pb, trunkBlocks)
    BY <1>6 DEF dataRetriever, trunkBlocks
  <2>2. trunkBlocks \in SUBSET Blocks
    BY DEF trunkBlocks
  <2>3. CASE pb' \in probeNext(pb, trunkBlocks)
    BY <1>0, <1>00, <1>2, <1>6, <2>2, <2>3, ProbeNextChain, SMTT(60)
  <2>4. QED
    BY <1>4, <2>1, <2>3
<1>7. CASE hostInterface
  <2> DEFINE r == MkReq(AckCb("enableProbe", host_probe.addr), "toN", host_probe.addr)
  <2>1. host_probe.addr \in Blocks
    BY <1>7 DEF hostInterface, hostReady, TypeOK, AdapterTypeOK
  <2>2. pb' \in retrieveBlock(pb, r)
    BY <1>7 DEF hostInterface
  <2>3. r \in Request
    BY <2>1, AckCbType DEF CbKinds, Caps
  <2>4. r.cb.kind = "enableProbe"
    BY DEF MkReq, AckCb, MkCb
  <2> HIDE DEF r
  <2>5. QED
    BY <1>3, <2>2, <2>3, <2>4
<1>8. CASE cProbeAck
  <2>1. /\ c_ch.op \in ProbeAcks /\ c_ch.source \in BSrcs /\ pb' \in ackSource(pb, c_ch.source)
    BY <1>8, cFireType, ProbeTypes DEF cProbeAck, ProbeAcks
  <2>2. c_ch.source \in onB \cup onC
    BY <2>1 DEF onC, ProbeAcks
  <2>3. QED
    BY <1>0, <1>00, <1>2, <1>8, <2>1, <2>2, AckChain, ZenonT(60)
<1>9. CASE bDrive
  <2>1. pb'.c_map = pb.c_map /\ pb'.events = pb.events
    BY <1>00, <1>9 DEF bDrive, ProbeSide
  <2>2. QED
    BY <1>2, <2>1 DEF Calls
<1>10. CASE cBeat \/ cRelease \/ eGrantAck \/ dDrive \/ hostUnknownBlock
  BY <1>4, <1>10 DEF cBeat, cRelease, eGrantAck, dDrive, hostUnknownBlock
<1>11. CASE (\E b \in Blocks : tileStore(b)) \/ (\E b \in Blocks : tileRelease(b))
            \/ (\E b \in Blocks, o \in {"AcquireBlock", "AcquirePerm"} : tileAcquire(b, o))
            \/ (\E b \in Blocks, o \in UncachedOps : tileAccess(b, o))
            \/ tileProbe \/ tileGrantData \/ tileGrant \/ tileReleaseAck \/ tileAccessAck
  BY <1>4, <1>11 DEF tileStore, tileRelease, tileAcquire, tileAccess, tileProbe, tileGrantData,
       tileGrant, tileReleaseAck, tileAccessAck, adapterVars
<1>12. CASE poll \/ timeout \/ stop \/ finish \/ ended \/ UNCHANGED vars
  BY <1>4, <1>12 DEF poll, timeout, stop, finish, ended, vars, adapterVars
<1>13. QED
  BY <1>2, <1>5, <1>6, <1>7, <1>8, <1>9, <1>10, <1>11, <1>12 DEF Next, aStep

(* What each step does to the flags of the retrieval.                       *)
LEMMA NextFlags ==
    ASSUME [Next]_vars
    PROVE  \/ UNCHANGED <<drive, retrieve, retrieving, pc, atStop>>
           \/ cProbeAck /\ Running /\ UNCHANGED <<retrieve, retrieving, pc, atStop>>
           \/ /\ dataRetriever /\ Running /\ retrieve /\ retrieving'
              /\ UNCHANGED <<retrieve, pc, atStop>>
           \/ \E p \in Programs : runTest(p)
           \/ Running /\ pc = "run" /\ pc' = "stop" /\ UNCHANGED <<drive, retrieve, retrieving, atStop>>
           \/ stop
           \/ ~drive /\ pc' = "idle" /\ UNCHANGED <<drive, retrieve, retrieving, atStop>>
<1>1. CASE adapterStep /\ aStep
  BY <1>1 DEF aStep, aGet, aPutTip, aPutOwned, aAtomic, aIntent, aNoSink, aAcquireBlock,
              aAcquirePerm, aInterleaved, aUnchanged, adapterStep, hostVars
<1>2. CASE adapterStep /\ cProbeAck
  BY <1>2 DEF cProbeAck, cFire, cUnchanged, adapterStep, hostVars
<1>3. CASE adapterStep /\ dataRetriever
  BY <1>3 DEF dataRetriever, adapterStep, hostVars
<1>4. CASE adapterStep /\ (cBeat \/ cRelease \/ eGrantAck \/ dDrive \/ bDrive \/ hostInterface
                             \/ hostUnknownBlock)
  BY <1>4 DEF cBeat, cRelease, cUnchanged, eGrantAck, dDrive, bDrive, hostInterface,
              hostUnknownBlock, adapterStep, hostVars
<1>5. CASE UNCHANGED hostVars /\
           ((\E b \in Blocks : tileStore(b)) \/ (\E b \in Blocks : tileRelease(b))
            \/ (\E b \in Blocks, o \in {"AcquireBlock", "AcquirePerm"} : tileAcquire(b, o))
            \/ (\E b \in Blocks, o \in UncachedOps : tileAccess(b, o))
            \/ tileProbe \/ tileGrantData \/ tileGrant \/ tileReleaseAck \/ tileAccessAck)
  BY <1>5 DEF tileStore, tileRelease, tileAcquire, tileAccess, tileProbe, tileGrantData,
       tileGrant, tileReleaseAck, tileAccessAck, adapterVars, hostVars
<1>6. CASE poll \/ timeout \/ finish \/ ended \/ UNCHANGED vars
  BY <1>6 DEF poll, timeout, finish, ended, vars, adapterVars, hostVars
<1>7. QED
  BY <1>1, <1>2, <1>3, <1>4, <1>5, <1>6 DEF Next, aStep

(* Within a run the store numbers only grow.                                *)
LEMMA NextLatest ==
    ASSUME TypeOK, [Next]_vars, \A p \in Programs : ~runTest(p)
    PROVE  \A b \in Blocks : latest[b] <= latest'[b] /\ latest'[b] \in Nat
<1>0. latest \in [Blocks -> Nat]
  BY DEF TypeOK, TileTypeOK
<1>1. CASE UNCHANGED latest
  BY <1>0, <1>1
<1>2. ASSUME NEW x \in Blocks, latest' = [latest EXCEPT ![x] = @ + 1]
      PROVE  \A b \in Blocks : latest[b] <= latest'[b] /\ latest'[b] \in Nat
  BY <1>0, <1>2
<1>3. CASE \E x \in Blocks : tileStore(x)
  BY <1>2, <1>3 DEF tileStore
<1>4. CASE \E x \in Blocks, o \in UncachedOps : tileAccess(x, o)
  BY <1>1, <1>2, <1>4 DEF tileAccess
<1>5. CASE tileGrant
  <2>1. d_ch.addr \in Blocks
    BY <1>5, TileTypes DEF tileGrant, NoMsg
  <2>2. QED
    BY <1>2, <1>5, <2>1 DEF tileGrant
<1>6. CASE adapterStep \/ tileReleaseAck \/ tileAccessAck \/ tileProbe \/ tileGrantData
           \/ poll \/ timeout \/ stop \/ finish \/ ended \/ UNCHANGED vars
  BY <1>1, <1>6 DEF adapterStep, tileReleaseAck, tileAccessAck, tileProbe, tileGrantData, poll,
       timeout, stop, finish, ended, vars, tileVars
<1>7. CASE \E b \in Blocks : tileRelease(b)
  BY <1>1, <1>7 DEF tileRelease
<1>8. CASE \E b \in Blocks, o \in {"AcquireBlock", "AcquirePerm"} : tileAcquire(b, o)
  BY <1>1, <1>8 DEF tileAcquire
<1>9. QED
  BY <1>3, <1>4, <1>5, <1>6, <1>7, <1>8 DEF Next

(* A callback of the chain that is being answered is registered.            *)
LEMMA ChainAnswered ==
    ASSUME TypeOK, ProbeSources, cProbeAck
    PROVE  LET cb == pb.c_map[c_ch.source]
           IN cb \in Callback /\ \A K : cb \in K => Calls(pb, K)
<1>1. c_ch.source \in BSrcs
  BY cFireType, ProbeTypes DEF cProbeAck
<1>2. pb.c_map[c_ch.source] \in Callback
  BY <1>1, ProbeTypes DEF ProbeSide
<1>3. QED
  BY <1>1, <1>2 DEF Calls

(* Every step keeps the phases of a run in order.                           *)
LEMMA NextPhase == TypeOK /\ ProbeSources /\ PhaseInv /\ [Next]_vars => PhaseInv'
<1> SUFFICES ASSUME TypeOK, ProbeSources, PhaseInv, [Next]_vars PROVE PhaseInv'
  OBVIOUS
<1>1. CASE \E p \in Programs : runTest(p)
  <2>1. pb' = NoProbes /\ drive' = TRUE /\ retrieve' = FALSE /\ retrieving' = FALSE /\ pc' = "run"
    BY <1>1 DEF runTest, adapterStart
  <2>2. ~Calls(pb', RecCbs)
    BY <2>1, NoProbesCalls DEF RecCbs, NoCb, MkCb
  <2>3. QED
    BY <2>1, <2>2 DEF PhaseInv
<1>2. SUFFICES ASSUME \A p \in Programs : ~runTest(p) PROVE PhaseInv'
  BY <1>1
<1>3. Calls(pb', RecCbs) => Calls(pb, RecCbs) \/ dataRetriever
  <2>1. ASSUME Calls(pb', RecCbs), cProbeAck, pb.c_map[c_ch.source].kind = "probe_blocks_rec"
        PROVE  Calls(pb, RecCbs)
    BY <2>1, ChainAnswered DEF RecCbs
  <2>2. QED
    BY <2>1, NextCalls
<1>4. \A b \in Blocks : atStop[b] <= latest[b] => atStop[b] <= latest'[b]
  BY <1>2, NextLatest, WordTypes
<1>5. CASE UNCHANGED <<drive, retrieve, retrieving, pc, atStop>>
  <2>1. dataRetriever => retrieving'
    BY DEF dataRetriever
  <2>2. QED
    BY <1>3, <1>4, <1>5, <2>1 DEF PhaseInv
<1>6. CASE cProbeAck /\ Running /\ UNCHANGED <<retrieve, retrieving, pc, atStop>>
  <2>1. ~drive' => pb.c_map[c_ch.source].kind = "probe_blocks_rec"
    BY <1>6 DEF cProbeAck, runCallback
  <2>2. ~drive' => Calls(pb, RecCbs)
    BY <1>6, <2>1, ChainAnswered DEF RecCbs
  <2>3. ~drive' => pc' = "wait"
    BY <1>6, <2>2 DEF PhaseInv, Running
  <2>4. drive' /\ retrieve' => pc' = "wait"
    BY <1>6 DEF PhaseInv, Running
  <2>5. dataRetriever => retrieving'
    BY DEF dataRetriever
  <2>6. QED
    BY <1>3, <1>4, <1>6, <2>3, <2>4, <2>5 DEF PhaseInv
<1>7. CASE dataRetriever /\ Running /\ retrieve /\ retrieving' /\ UNCHANGED <<retrieve, pc, atStop>>
  BY <1>4, <1>7 DEF PhaseInv, Running
<1>8. CASE Running /\ pc = "run" /\ pc' = "stop"
           /\ UNCHANGED <<drive, retrieve, retrieving, atStop>>
  <2>1. dataRetriever => retrieving'
    BY DEF dataRetriever
  <2>2. QED
    BY <1>3, <1>8, <2>1 DEF PhaseInv, Running
<1>9. CASE stop
  <2>1. /\ drive /\ drive' = drive /\ retrieve' = TRUE /\ UNCHANGED <<retrieving, pb, latest>>
        /\ pc' = "wait" /\ atStop' = latest
    BY <1>9 DEF stop, Running, tileVars
  <2>2. QED
    BY <2>1, WordTypes DEF PhaseInv
<1>10. CASE ~drive /\ pc' = "idle" /\ UNCHANGED <<drive, retrieve, retrieving, atStop>>
  <2>1. dataRetriever => retrieving'
    BY DEF dataRetriever
  <2>2. QED
    BY <1>3, <1>10, <2>1 DEF PhaseInv
<1>11. QED
  BY <1>2, <1>5, <1>6, <1>7, <1>8, <1>9, <1>10, NextFlags

(* A step that makes memory newer leaves covered blocks covered.            *)
LEMMA CoveredKept ==
    ASSUME TypeOK, TypeOK', UNCHANGED atStop, NEW x \in CachedOnly, Newer(memory[x], memory'[x]),
           Covered(memory, atStop, x)
    PROVE  Covered(memory', atStop', x)
<1>1. x \in Blocks
  BY DEF CachedOnly
<1>2. atStop[x] \in Nat /\ \A i \in Beat : memory[x][i] \in Nat
  BY <1>1, WordTypes
<1>3. \A i \in Beat : memory'[x][i] \in Nat
  <2>1. memory' \in [Blocks -> Words]
    BY DEF TypeOK, AdapterTypeOK
  <2>2. QED
    BY <1>1, <2>1 DEF Words
<1>4. QED
  BY <1>2, <1>3 DEF Covered, Newer

(* What is on the C port after a step: no ProbeAck, the tile's answer to a  *)
(* probe, or the ProbeAck that was there, with the callback it had.         *)
LEMMA NextReport ==
    ASSUME TypeOK, ProbeSources, MatchInv, [Next]_vars, c_ch'.op \in ProbeAcks
    PROVE  \/ tileProbe
           \/ /\ c_ch.op \in ProbeAcks /\ c_ch'.op = c_ch.op /\ c_ch'.source = c_ch.source
              /\ c_ch'.addr = c_ch.addr /\ c_ch'.data = c_ch.data
              /\ pb'.c_map[c_ch.source] = pb.c_map[c_ch.source]
              /\ \A p \in Programs : ~runTest(p)
<1>1. CASE \E p \in Programs : runTest(p)
  BY <1>1 DEF runTest, tileReset, NoMsg, ProbeAcks
<1>2. SUFFICES ASSUME \A p \in Programs : ~runTest(p), ~tileProbe
               PROVE  /\ c_ch.op \in ProbeAcks /\ c_ch'.op = c_ch.op /\ c_ch'.source = c_ch.source
                      /\ c_ch'.addr = c_ch.addr /\ c_ch'.data = c_ch.data
                      /\ pb'.c_map[c_ch.source] = pb.c_map[c_ch.source]
  BY <1>1
<1>3. c_ch.op \in ProbeAcks => c_ch.source \in Flying
  BY DEF Flying, onC, ProbeAcks
<1>4. CASE aStep \/ dataRetriever \/ hostInterface \/ UNCHANGED <<pb, c_ch>>
  <2>1. UNCHANGED c_ch
    BY <1>4 DEF aStep, aGet, aPutTip, aPutOwned, aAtomic, aIntent, aNoSink, aAcquireBlock,
                aAcquirePerm, aInterleaved, aUnchanged, dataRetriever, hostInterface, chans
  <2>2. QED
    BY <1>3, <1>4, <2>1, FlyingKept
<1>5. CASE cBeat
  <2>1. c_ch \in CMessage /\ c_ch' = [c_ch EXCEPT !.beat = @ + 1] /\ UNCHANGED pb
    BY <1>5, cFireType DEF cBeat
  <2>2. /\ c_ch'.op = c_ch.op /\ c_ch'.source = c_ch.source /\ c_ch'.addr = c_ch.addr
        /\ c_ch'.data = c_ch.data
    BY <2>1 DEF CMessage
  <2>3. QED
    BY <2>1, <2>2
<1>6. CASE cProbeAck \/ cRelease
  <2>1. c_ch' = NoMsg
    BY <1>6 DEF cProbeAck, cRelease
  <2>2. QED
    BY <2>1 DEF NoMsg, ProbeAcks
<1>7. CASE \E b \in Blocks : tileRelease(b)
  <2>1. PICK b \in Blocks : tileRelease(b)
    BY <1>7
  <2>2. c_ch'.op \in {"Release", "ReleaseData"}
    BY <2>1 DEF tileRelease, sendC
  <2>3. QED
    BY <2>2 DEF ProbeAcks
<1>8. CASE bDrive
  <2>1. pb'.c_map = pb.c_map /\ UNCHANGED c_ch
    BY <1>8, ProbeTypes DEF bDrive, ProbeSide
  <2>2. QED
    BY <2>1
<1>9. CASE eGrantAck \/ dDrive \/ hostUnknownBlock \/ (\E b \in Blocks : tileStore(b))
           \/ (\E b \in Blocks, o \in {"AcquireBlock", "AcquirePerm"} : tileAcquire(b, o))
           \/ (\E b \in Blocks, o \in UncachedOps : tileAccess(b, o))
           \/ tileGrantData \/ tileGrant \/ tileReleaseAck \/ tileAccessAck
  <2>1. UNCHANGED <<pb, c_ch>>
    BY <1>9 DEF eGrantAck, dDrive, hostUnknownBlock, tileStore, tileAcquire, tileAccess,
                tileGrantData, tileGrant, tileReleaseAck, tileAccessAck, adapterVars, chans
  <2>2. QED
    BY <1>4, <2>1
<1>10. CASE poll \/ timeout \/ stop \/ finish \/ ended \/ UNCHANGED vars
  BY <1>4, <1>10 DEF poll, timeout, stop, finish, ended, vars, adapterVars, chans
<1>11. QED
  BY <1>2, <1>4, <1>5, <1>6, <1>7, <1>8, <1>9, <1>10 DEF Next, aStep

(* The last beat of an answer leaves in memory what the answer brings.      *)
LEMMA AckBrings ==
    ASSUME TypeOK, StoreInv, cProbeAck, c_ch.addr \in CachedOnly
    PROVE  memory'[c_ch.addr] = Brings(c_ch, memory)
<1> DEFINE a == c_ch.addr
<1>1. /\ memory' = cWrite /\ lastBeat
      /\ cFire({"ProbeAck", "ProbeAckData", "Release", "ReleaseData"}) /\ a \in Blocks
  BY DEF cProbeAck, cFire, CachedOnly
<1>2. StoreAt(a, memory[a], block_perm[a], cache[a], c_ch, c_count, d_queue, d_ch, latest[a])
  BY DEF StoreInv
<1>3. CASE CarriesData(c_ch)
  BY <1>1, <1>2, <1>3, cWrites DEF StoreAt, CarryAt, Brings
<1>4. CASE ~CarriesData(c_ch)
  BY <1>1, <1>4, cWrites DEF Brings
<1>5. QED
  BY <1>3, <1>4

(* The answer to a probe of a block brings its newest store.                *)
LEMMA ProbeBrings ==
    ASSUME TypeOK, StoreInv, tileProbe, c_ch'.addr \in CachedOnly
    PROVE  Brings(c_ch', memory') = Fill(latest[c_ch'.addr])
<1> DEFINE x == b_ch.addr
<1>1. /\ c_ch = NoMsg /\ c_ch'.addr = x /\ c_ch'.data = cache[x].data /\ UNCHANGED memory
      /\ c_ch'.op = (IF cache[x].dirty THEN "ProbeAckData" ELSE "ProbeAck")
  BY DEF tileProbe, sendC, adapterVars
<1>2. ~CarriesData(c_ch) /\ (CarriesData(c_ch') <=> cache[x].dirty)
  BY <1>1 DEF CarriesData, NoMsg
<1>3. StoreAt(x, memory[x], block_perm[x], cache[x], c_ch, c_count, d_queue, d_ch, latest[x])
  BY <1>1 DEF StoreInv
<1>4. QED
  BY <1>1, <1>2, <1>3 DEF StoreAt, KeptAt, Brings

(* An answer of the chain puts its block into memory.                       *)
LEMMA AckCovers ==
    ASSUME TypeOK, MatchInv, StoreInv, ChainInv, cProbeAck,
           pb.c_map[c_ch.source].kind = "probe_blocks_rec",
           pb.c_map[c_ch.source].addr \in CachedOnly
    PROVE  Covered(memory', atStop, pb.c_map[c_ch.source].addr)
<1>1. c_ch.op \in ProbeAcks
  BY DEF cProbeAck, cFire, ProbeAcks
<1>2. c_ch.addr = pb.c_map[c_ch.source].addr
  BY <1>1 DEF MatchInv
<1>3. memory'[c_ch.addr] = Brings(c_ch, memory)
  BY <1>2, AckBrings
<1>4. \A i \in Beat : Brings(c_ch, memory)[i] >= atStop[c_ch.addr]
  BY <1>1, <1>2 DEF ChainInv
<1>5. QED
  BY <1>2, <1>3, <1>4 DEF Covered

(* A block that is not TRUNK when the list is made is in memory.            *)
LEMMA TipCovered ==
    ASSUME TypeOK, StoreInv, PhaseInv, Running, retrieve, NEW x \in CachedOnly \ trunkBlocks
    PROVE  Covered(memory, atStop, x)
<1>1. StoreAt(x, memory[x], block_perm[x], cache[x], c_ch, c_count, d_queue, d_ch, latest[x])
  BY DEF StoreInv
<1>2. x \in Blocks /\ memory[x] = Fill(latest[x])
  BY <1>1 DEF CachedOnly, trunkBlocks, StoreAt
<1>3. atStop[x] <= latest[x] /\ atStop[x] \in Nat /\ latest[x] \in Nat
  BY <1>2, WordTypes DEF PhaseInv, Running
<1>4. QED
  BY <1>2, <1>3 DEF Covered, Fill

(* A step of the system keeps every block that the chain leaves out covered.*)
LEMMA NextChain ==
    TypeOK /\ TypeOK' /\ ProbeSources /\ MatchInv /\ StoreInv /\ MemoryInv /\ PhaseInv /\ ChainInv
      /\ [Next]_vars => ChainInv'
<1> SUFFICES ASSUME TypeOK, TypeOK', ProbeSources, MatchInv, StoreInv, MemoryInv, PhaseInv,
                    ChainInv, [Next]_vars
             PROVE  ChainInv'
  OBVIOUS
<1>1. CASE \E p \in Programs : runTest(p)
  <2>1. pb' = NoProbes /\ drive' = TRUE /\ c_ch' = NoMsg
    BY <1>1 DEF runTest, adapterStart, tileReset
  <2>2. \A m, st : ~Calls(pb', Skipping(m, st))
    BY <2>1, NoProbesCalls DEF Skipping, RecCbs, NoCb, MkCb
  <2>3. c_ch'.op \notin ProbeAcks
    BY <2>1 DEF NoMsg, ProbeAcks
  <2>4. QED
    BY <2>1, <2>2, <2>3 DEF ChainInv
<1>2. CASE stop
  <2>1. /\ drive /\ drive' = drive /\ pc = "stop" /\ UNCHANGED <<pb, c_ch>> /\ c_ch = NoMsg
    BY <1>2 DEF stop, Running, onGoing, chans
  <2>2. ~Calls(pb, RecCbs)
    BY <2>1 DEF PhaseInv
  <2>3. \A m, st : ~Calls(pb, Skipping(m, st))
    BY <2>2 DEF Calls, Skipping
  <2>4. c_ch'.op \notin ProbeAcks
    BY <2>1 DEF NoMsg, ProbeAcks
  <2>5. QED
    BY <2>1, <2>3, <2>4 DEF ChainInv
<1>3. SUFFICES ASSUME \A p \in Programs : ~runTest(p), ~stop PROVE ChainInv'
  BY <1>1, <1>2
<1>4. UNCHANGED atStop
  BY <1>3, NextFlags
<1>5. \A x \in CachedOnly : Newer(memory[x], memory'[x])
  BY <1>3, NextMemory
<1>6. \A x \in CachedOnly : Covered(memory, atStop, x) => Covered(memory', atStop', x)
  BY <1>4, <1>5, CoveredKept
<1> DEFINE S == Skipping(memory, atStop)
           T == Skipping(memory', atStop')
           cb == pb.c_map[c_ch.source]
<1>7. T \in SUBSET RecCbs /\ T \subseteq S
  BY <1>6 DEF Skipping
<1>8. ASSUME cProbeAck, cb.kind = "probe_blocks_rec", NEW x \in CachedOnly \ cb.rest
      PROVE  Covered(memory', atStop', x)
  <2>1. cb \in RecCbs /\ cb \notin S
    BY <1>8, ChainAnswered DEF RecCbs, ChainInv
  <2>2. CASE x # cb.addr
    <3>1. Covered(memory, atStop, x)
      BY <1>8, <2>1, <2>2 DEF Skipping
    <3>2. QED
      BY <1>6, <1>8, <3>1
  <2>3. CASE x = cb.addr
    BY <1>4, <1>8, <2>3, AckCovers
  <2>4. QED
    BY <2>2, <2>3
<1>9. ASSUME dataRetriever, NEW x \in CachedOnly \ trunkBlocks
      PROVE  Covered(memory', atStop', x)
  <2>1. Running /\ retrieve
    BY <1>9 DEF dataRetriever
  <2>2. QED
    BY <1>6, <1>9, <2>1, TipCovered
<1>10. ~Calls(pb', T)
  <2> SUFFICES ASSUME Calls(pb', T) PROVE FALSE
    OBVIOUS
  <2>0. \A y, rest : RecCb(y, rest).addr = y /\ RecCb(y, rest).rest = rest
    BY DEF RecCb, MkCb
  <2>1. ~Calls(pb, T)
    BY <1>7 DEF ChainInv, Calls
  <2>2. \/ dataRetriever /\ \E y \in trunkBlocks : RecCb(y, trunkBlocks \ {y}) \in T
        \/ /\ cProbeAck /\ cb.kind = "probe_blocks_rec"
           /\ \E y \in cb.rest : RecCb(y, cb.rest \ {y}) \in T
    <3> HIDE DEF T
    <3>1. QED
      BY <1>7, <2>1, NextCalls
  <2>3. ASSUME NEW U, NEW y \in U, RecCb(y, U \ {y}) \in T
        PROVE  \E x \in CachedOnly \ U : ~Covered(memory', atStop', x)
    BY <2>0, <2>3 DEF Skipping
  <2>4. CASE dataRetriever /\ \E y \in trunkBlocks : RecCb(y, trunkBlocks \ {y}) \in T
    BY <1>9, <2>3, <2>4
  <2>5. CASE /\ cProbeAck /\ cb.kind = "probe_blocks_rec"
             /\ \E y \in cb.rest : RecCb(y, cb.rest \ {y}) \in T
    BY <1>8, <2>3, <2>5
  <2>6. QED
    BY <2>2, <2>4, <2>5
<1>11. ASSUME c_ch'.op \in ProbeAcks, pb'.c_map[c_ch'.source].kind = "probe_blocks_rec",
              c_ch'.addr \in CachedOnly
       PROVE  \A i \in Beat : Brings(c_ch', memory')[i] >= atStop'[c_ch'.addr]
  <2> DEFINE a == c_ch'.addr
  <2>0. a \in Blocks
    BY <1>11 DEF CachedOnly
  <2>1. CASE tileProbe
    <3>1. /\ b_ch # NoMsg /\ c_ch'.source = b_ch.source /\ UNCHANGED pb /\ Running
      BY <2>1 DEF tileProbe, sendC, adapterVars
    <3>2. b_ch.source \in BSrcs /\ pb.c_map[b_ch.source] \in Callback
      BY <3>1, ProbeTypes DEF ProbeSide
    <3>3. Calls(pb, RecCbs)
      BY <1>11, <3>1, <3>2 DEF Calls, RecCbs
    <3>4. atStop[a] <= latest[a] /\ atStop[a] \in Nat /\ latest[a] \in Nat
      BY <2>0, <3>1, <3>3, WordTypes DEF PhaseInv, Running
    <3>5. Brings(c_ch', memory') = Fill(latest[a])
      BY <1>11, <2>1, ProbeBrings
    <3>6. QED
      BY <1>4, <3>4, <3>5 DEF Fill
  <2>2. CASE /\ c_ch.op \in ProbeAcks /\ c_ch'.op = c_ch.op /\ c_ch'.source = c_ch.source
             /\ c_ch'.addr = c_ch.addr /\ c_ch'.data = c_ch.data
             /\ pb'.c_map[c_ch.source] = pb.c_map[c_ch.source]
    <3>1. \A i \in Beat : Brings(c_ch, memory)[i] >= atStop[a]
      BY <1>11, <2>2 DEF ChainInv
    <3>2. CASE CarriesData(c_ch)
      BY <1>4, <2>2, <3>1, <3>2 DEF Brings, CarriesData
    <3>3. CASE ~CarriesData(c_ch)
      <4>1. Covered(memory, atStop, a)
        BY <2>2, <3>1, <3>3 DEF Brings, Covered
      <4>2. Covered(memory', atStop', a)
        BY <1>6, <1>11, <4>1
      <4>3. QED
        BY <2>2, <3>3, <4>2 DEF Brings, Covered, CarriesData
    <3>4. QED
      BY <3>2, <3>3
  <2>3. QED
    BY <1>11, <2>1, <2>2, NextReport
<1>12. ASSUME ~drive', pc' = "wait", NEW x \in CachedOnly PROVE Covered(memory', atStop', x)
  <2>1. CASE ~drive /\ pc = "wait"
    BY <1>6, <2>1 DEF ChainInv
  <2>2. CASE cProbeAck
    <3>1. cb.kind = "probe_blocks_rec" /\ cb.rest = {}
      BY <1>12, <2>2 DEF cProbeAck, runCallback
    <3>2. QED
      BY <1>8, <1>12, <2>2, <3>1
  <2>3. CASE dataRetriever
    <3>1. trunkBlocks = {}
      BY <1>12, <2>3 DEF dataRetriever, trunkBlocks, Running
    <3>2. QED
      BY <1>9, <1>12, <2>3, <3>1
  <2>4. QED
    BY <1>3, <1>12, <2>1, <2>2, <2>3, NextFlags
<1>13. QED
  BY <1>10, <1>11, <1>12 DEF ChainInv

(* Before the first run there is no chain.                                  *)
LEMMA InitChain == Init => PhaseInv /\ ChainInv
<1> SUFFICES ASSUME Init PROVE PhaseInv /\ ChainInv
  OBVIOUS
<1>1. pb = NoProbes /\ c_ch = NoMsg /\ pc = "idle" /\ drive = FALSE /\ retrieve = FALSE
      /\ retrieving = FALSE
  BY DEF Init, adapterInit, tileInit
<1>2. ~Calls(pb, RecCbs)
  BY <1>1, NoProbesCalls DEF RecCbs, NoCb, MkCb
<1>3. ~Calls(pb, Skipping(memory, atStop)) /\ c_ch.op \notin ProbeAcks
  BY <1>1, <1>2 DEF Calls, Skipping, NoMsg, ProbeAcks
<1>4. QED
  BY <1>1, <1>2, <1>3 DEF PhaseInv, ChainInv

(* MemoryInv as a whole.                                                    *)
LEMMA MemoryStep == TypeOK /\ StoreInv /\ MemoryInv /\ [Next]_vars => MemoryInv'
BY NextMemory DEF MemoryInv

(* The memory the signature is read from holds, for every block the tile    *)
(* writes through its cache, every store made before stop() was called,     *)
(* whatever evictions, grants and stores crossed the chain of probes and    *)
(* however few probe sources there are.                                     *)
THEOREM RetrievalIsComplete ==
    ASSUME CachedOnly = Blocks PROVE Spec => []RetrievalComplete
<1>1. TypeOK /\ ChainInv => RetrievalComplete
  <2> SUFFICES ASSUME TypeOK, ChainInv, pc = "wait", ~drive, NEW b \in Blocks, NEW i \in Beat
               PROVE  memory[b][i] >= atStop[b]
    BY DEF RetrievalComplete
  <2>1. Covered(memory, atStop, b)
    BY DEF ChainInv
  <2>2. QED
    BY <2>1 DEF Covered
<1>2. QED
  BY <1>1, InitAcquires, InitTrunk, InitStores, InitMatch, InitMemory, InitChain, NextAcquires,
     NextTrunk, NextStores, NextMatch, MemoryStep, NextPhase, NextChain, TypeCorrect,
     ProbeSourcesSound, PTL DEF Spec

-----------------------------------------------------------------------------
(* Uncached requests.  Where one is: on the A port, in a callback, in the D *)
(* queue or on the D port.  A block the tile only reads this way, or only   *)
(* uses this way, has at most one, and only while the tile waits for it.    *)
(* (A burst to a block the tile also caches may be answered twice over:     *)
(* its beats are handled one by one.)                                       *)
DeviceBlocks == {b \in Blocks : \A o \in {"AcquireBlock", "AcquirePerm"} : <<o, b>> \notin TileOps}
OneWay == CachedOnly \cup DeviceBlocks
AccessRequests == {"Get", "Put", "Arithmetic", "Logical", "Intent"}
AccessKinds == {"AccessAckData_cb", "AccessAck_cb", "ArithmeticAck_cb", "LogicalAck_cb"}
AccessCalls(b) == {cb \in Callback : cb.kind \in AccessKinds /\ cb.addr = b}
AccessAnswers(b) ==
    {m \in DMessage : m.op \in {"AccessAckData", "AccessAck", "HintAck"} /\ m.addr = b}
AccessAt(b, a, q, Q, d, busy) ==
    LET onA == a.op \in AccessRequests /\ a.addr = b
        onCalls == Calls(q, AccessCalls(b))
        onQueue == Queues(Q, AccessAnswers(b))
        onD == d \in AccessAnswers(b)
    IN /\ CallsOnce(q, AccessCalls(b)) /\ QueuesOnce(Q, AccessAnswers(b))
       /\ onA \/ onCalls \/ onQueue \/ onD => b \in busy
       /\ onA => ~onCalls /\ ~onQueue /\ ~onD
       /\ onCalls => ~onQueue /\ ~onD
       /\ onQueue => ~onD
AccessInv == \A b \in OneWay : AccessAt(b, a_ch, pb, d_queue, d_ch, access)

(* A block the tile never caches: nothing of it in the cache, no TRUNK, no  *)
(* data about it on C.                                                      *)
DeviceInv ==
    \A b \in DeviceBlocks :
        /\ b \notin acquiring /\ cache[b].perm = "N" /\ block_perm[b] # "TRUNK"
        /\ ~(CarriesData(c_ch) /\ c_ch.addr = b)

(* The A monitor counts the beats of a burst to such a block as the tile    *)
(* sends them; a burst it left unfinished (of a block the tile owned in     *)
(* between) is of no such block.                                            *)
MonInv ==
    /\ a_mon.source = NoBlock => a_mon.count = 0
    /\ a_mon.source \in DeviceBlocks =>
         a_ch.op = "Put" /\ a_ch.addr = a_mon.source /\ a_mon.count = a_ch.beat
    /\ a_ch.op = "Put" /\ a_ch.addr \in DeviceBlocks /\ a_ch.beat > 0 => a_mon.source = a_ch.addr

(* The classes of callbacks and answers.                                    *)
LEMMA AccessClasses ==
    ASSUME NEW b
    PROVE  /\ NoCb \notin AccessCalls(b) /\ NoMsg \notin AccessAnswers(b)
           /\ \A cb \in AccessCalls(b) : cb.kind # "probe_blocks_rec"
           /\ \A m \in AccessAnswers(b) : m \in DMessage
BY NoMsgType DEF AccessCalls, AccessAnswers, AccessKinds, NoCb, MkCb

(* Steps that make no answer, register no such callback and bring nothing   *)
(* new to the A port.                                                       *)
LEMMA QuietAccess ==
    ASSUME NEW b, AccessAt(b, a_ch, pb, d_queue, d_ch, access), UNCHANGED <<d_ch, access>>,
           a_ch'.op \in AccessRequests /\ a_ch'.addr = b => a_ch.op \in AccessRequests /\ a_ch.addr = b,
           KeepCalls(AccessCalls(b)), KeepMsgs(AccessAnswers(b))
    PROVE  AccessAt(b, a_ch', pb', d_queue', d_ch', access')
BY DEF AccessAt, KeepCalls, KeepMsgs

(* What a_port_monitor leaves on the port is what was there, or nothing.    *)
LEMMA aKeepsRequest ==
    ASSUME TypeOK, aStep
    PROVE  /\ a_ch \in AMessage /\ a_ch.op # "none" /\ a_ch.addr \in Blocks
           /\ a_ch' = NoMsg \/ a_ch' = a_ch \/ (a_ch.op = "Put" /\ a_ch' = [a_ch EXCEPT !.beat = @ + 1])
           /\ a_ch'.op # "none" => a_ch'.op = a_ch.op /\ a_ch'.addr = a_ch.addr
                                   /\ a_ch'.data = a_ch.data /\ a_ch'.len = a_ch.len
<1>0. a_ch \in AMessage /\ a_ch.addr \in Blocks
  BY aFireType DEF aStep, aGet, aPutTip, aPutOwned, aAtomic, aIntent, aNoSink, aInterleaved,
                   aAcquireBlock, aAcquirePerm
<1>1. a_ch \in AMessage /\ a_ch.op # "none" /\ a_ch.addr \in Blocks
  BY <1>0 DEF AMessage
<1>2. a_ch' = NoMsg \/ a_ch' = a_ch \/ (a_ch.op = "Put" /\ a_ch' = [a_ch EXCEPT !.beat = @ + 1])
  BY DEF aStep, aGet, aPutTip, aPutOwned, aAtomic, aIntent, aNoSink, aInterleaved,
         aAcquireBlock, aAcquirePerm, aTake, aNextBeat, aFire
<1>3. CASE a_ch' = NoMsg
  BY <1>1, <1>2, <1>3 DEF NoMsg
<1>4. CASE a_ch' = a_ch
  BY <1>1, <1>2, <1>4
<1>5. CASE a_ch.op = "Put" /\ a_ch' = [a_ch EXCEPT !.beat = @ + 1]
  BY <1>1, <1>5 DEF AMessage
<1>6. QED
  BY <1>1, <1>2, <1>3, <1>4, <1>5

(* A burst to a block the tile never caches is counted right.               *)
LEMMA DeviceCount ==
    ASSUME TypeOK, MonInv, notInterleaved, a_ch.op = "Put", a_ch.addr \in DeviceBlocks
    PROVE  a_mon.count = a_ch.beat
<1>1. a_ch \in AMessage /\ a_ch.beat \in Nat
  BY DEF TypeOK, PortTypeOK, NoMsg, AMessage
<1>2. QED
  BY <1>1 DEF MonInv, notInterleaved

(* A request for a OneWay block leaves the port when it is answered, or     *)
(* when its block is probed for it.                                         *)
LEMMA Consumed ==
    ASSUME TypeOK, StoreInv, DeviceInv, MonInv, aStep, a_ch.addr \in OneWay,
           Answered \/ Probed
    PROVE  a_ch' = NoMsg
<1>1. CASE a_ch.op # "Put"
  BY <1>1 DEF Answered, Probed
<1>2. CASE a_ch.op = "Put"
  <2>1. a_ch.addr \in DeviceBlocks
    BY <1>2 DEF StoreInv, WriteRequests, OneWay
  <2>2. permOf(a_ch.addr) = "TIP"
    <3>1. a_ch.addr \in Blocks /\ block_perm[a_ch.addr] \in {"absent", "TIP"}
      BY <2>1, TileTypes DEF DeviceBlocks, DeviceInv
    <3>2. QED
      BY <3>1 DEF permOf
  <2>3. CASE a_ch' = NoMsg
    BY <2>3
  <2>4. CASE a_mon.count + 1 = a_ch.len
    <3>1. aPutTip \/ aInterleaved
      BY <1>2, <2>2 DEF aStep, aGet, aPutOwned, aAtomic, aIntent, aNoSink, aAcquireBlock,
                        aAcquirePerm, aFire
    <3>2. CASE aPutTip
      <4>1. a_mon.count = a_ch.beat
        BY <1>2, <2>1, <3>2, DeviceCount DEF aPutTip
      <4>2. QED
        BY <2>4, <3>2, <4>1 DEF aPutTip, aNextBeat
    <3>3. CASE aInterleaved
      <4>1. UNCHANGED <<pb, d_queue>>
        BY <3>3 DEF aInterleaved
      <4>2. ~Probed
        BY <2>2 DEF Probed
      <4>3. ~Answered
        <5> SUFFICES ASSUME NEW m \in DMessage, d_queue' = Append(d_queue, m) PROVE FALSE
          BY DEF Answered
        <5>1. d_queue \in Seq(DMessage)
          BY DEF TypeOK, AdapterTypeOK
        <5>2. Len(d_queue') = Len(d_queue) + 1 /\ Len(d_queue) \in Nat
          BY <5>1
        <5>3. QED
          BY <4>1, <5>2
      <4>4. QED
        BY <4>2, <4>3
    <3>4. QED
      BY <3>1, <3>2, <3>3
  <2>5. QED
    BY <1>2, <2>2, <2>3, <2>4 DEF Answered, Probed
<1>3. QED
  BY <1>1, <1>2

(* a_port_monitor: the request moves into a callback or is answered.        *)
LEMMA aAccess ==
    ASSUME TypeOK, ProbeSources, StoreInv, DeviceInv, MonInv, AccessInv, aStep,
           UNCHANGED access, NEW b \in OneWay
    PROVE  AccessAt(b, a_ch', pb', d_queue', d_ch', access')
<1> DEFINE K == AccessCalls(b)
           M == AccessAnswers(b)
<1>1. AccessAt(b, a_ch, pb, d_queue, d_ch, access) /\ UNCHANGED d_ch
  BY DEF AccessInv, aStep, aGet, aPutTip, aPutOwned, aAtomic, aIntent, aNoSink, aInterleaved,
         aAcquireBlock, aAcquirePerm, aUnchanged
<1>2. a_ch'.op \in AccessRequests /\ a_ch'.addr = b => a_ch.op \in AccessRequests /\ a_ch.addr = b
  BY aKeepsRequest DEF AccessRequests
<1>3. NoCb \notin K
  BY AccessClasses
<1>4. a_ch.op \in AccessRequests <=> a_ch.op \notin Acquires
  BY aKeepsRequest DEF AMessage, AccessRequests, Acquires
<1>5. CASE UNCHANGED <<pb, d_queue>>
  BY <1>1, <1>2, <1>5, KeepStep, QuietAccess
<1>6. CASE Answered
  <2>1. PICK m \in DMessage :
          /\ UNCHANGED pb /\ d_queue' = Append(d_queue, m) /\ m.addr = a_ch.addr
          /\ m.op # "ReleaseAck" /\ (m.op \in {"Grant", "GrantData"} <=> a_ch.op \in Acquires)
    BY <1>6 DEF Answered
  <2>2. m \in M <=> a_ch.op \in AccessRequests /\ a_ch.addr = b
    BY <1>4, <2>1 DEF AccessAnswers, DMessage
  <2>3. GainMsg(M, m)
    BY <2>1, AppendGain
  <2>4. a_ch.addr = b => a_ch' = NoMsg
    BY <1>6, Consumed
  <2>5. NoMsg.op \notin AccessRequests
    BY DEF NoMsg, AccessRequests
  <2> HIDE DEF K, M
  <2>6. QED
    BY <1>1, <1>2, <2>1, <2>2, <2>3, <2>4, <2>5 DEF AccessAt, GainMsg, K, M
<1>7. CASE Probed
  <2>1. PICK r \in Request :
          /\ UNCHANGED d_queue /\ pb' \in retrieveBlock(pb, r) /\ r.cb.addr = a_ch.addr
          /\ r.cb.kind = CallFor(a_ch.op)
    BY <1>7 DEF Probed
  <2>2. r.cb \in K => a_ch.op \in AccessRequests /\ a_ch.addr = b
    <3>1. a_ch.op \in Acquires => CallFor(a_ch.op) = "GrantData_cb"
      BY DEF CallFor, Acquires
    <3>2. QED
      BY <1>4, <2>1, <3>1 DEF AccessCalls, AccessKinds
  <2>3. GainCall(K, r.cb)
    BY <1>3, <2>1, RetrieveGain
  <2>4. a_ch.addr = b => a_ch' = NoMsg
    BY <1>7, Consumed
  <2>5. NoMsg.op \notin AccessRequests
    BY DEF NoMsg, AccessRequests
  <2> HIDE DEF K, M
  <2>6. QED
    BY <1>1, <1>2, <2>1, <2>2, <2>3, <2>4, <2>5 DEF AccessAt, GainCall, K, M
<1>8. QED
  BY <1>5, <1>6, <1>7, aFootprint

(* c_port_monitor, a ProbeAck: its callback leaves the probe side, and      *)
(* answers about its own block or not at all.                               *)
LEMMA cFootprint ==
    ASSUME TypeOK, ProbeSources, cProbeAck
    PROVE  LET cb == pb.c_map[c_ch.source]
           IN /\ \A b : LoseCall(AccessCalls(b), cb)
              /\ cb \in Callback /\ UNCHANGED <<d_ch, a_ch>>
              /\ \/ UNCHANGED d_queue
                 \/ \E m \in DMessage :
                      /\ d_queue' = Append(d_queue, m) /\ m.addr = cb.addr
                      /\ m.cb = "updateMem" => cb.kind = "AccessAck_cb"
                      /\ \/ m.op = "GrantData"
                         \/ m.op = "AccessAck" /\ cb.kind = "AccessAck_cb"
                         \/ m.op = "AccessAckData" /\ cb.kind = "AccessAckData_cb"
                            /\ m.data = memory'[cb.addr]
<1> DEFINE s == c_ch.source
           cb == pb.c_map[s]
<1>1. /\ c_ch \in CMessage /\ c_ch.op \in {"ProbeAck", "ProbeAckData"} /\ s \in BSrcs
      /\ UNCHANGED <<d_ch, a_ch>>
  BY cFireType, ProbeTypes DEF cProbeAck, cUnchanged
<1>2. pb \in ProbeSide /\ onC = {s} /\ SourcesOK(pb, onB \cup onC, {})
  BY <1>1, ProbeTypes DEF ProbeSources, onC
<1>3. cb \in Callback
  BY <1>1, <1>2 DEF ProbeSide
<1>4. /\ pb' \in ackSource(pb, s) /\ runCallback(cb, cWrite) /\ cWrite \in [Blocks -> Words]
      /\ memory' = cWrite
  BY <1>1, cWriteType DEF cProbeAck
<1>5. \A b : LoseCall(AccessCalls(b), cb)
  BY <1>1, <1>2, <1>4, AccessClasses, AckCalls DEF LoseCall
<1> HIDE DEF cb
<1>6. cb.kind \in {"AccessAckData_cb", "AccessAck_cb", "GrantData_cb"} =>
        cb.addr \in Blocks /\ cWrite[cb.addr] \in Words
  BY <1>3, <1>4 DEF Callback, NoCb, MkCb
<1>7. Fill(0) \in Words
  BY FillType
<1>8. CASE cb.kind = "AccessAckData_cb"
  <2> DEFINE m == MkD("AccessAckData", cb.addr, "toN", NoSink, cWrite[cb.addr], "none")
  <2>1. /\ m \in DMessage /\ m.op = "AccessAckData" /\ m.addr = cb.addr /\ m.data = cWrite[cb.addr]
        /\ m.cb = "none"
    BY <1>6, <1>8, PlainDType DEF MkD
  <2>2. d_queue' = Append(d_queue, m)
    BY <1>4, <1>8 DEF runCallback
  <2> HIDE DEF m
  <2>3. QED
    BY <1>1, <1>3, <1>4, <1>5, <1>8, <2>1, <2>2 DEF cb
<1>9. CASE cb.kind = "AccessAck_cb"
  <2> DEFINE m == MkD("AccessAck", cb.addr, "toN", NoSink, Fill(0), "updateMem")
  <2>1. m \in DMessage /\ m.op = "AccessAck" /\ m.addr = cb.addr
    BY <1>6, <1>7, <1>9, PlainDType DEF MkD
  <2>2. d_queue' = Append(d_queue, m)
    BY <1>4, <1>9 DEF runCallback
  <2> HIDE DEF m
  <2>3. QED
    BY <1>1, <1>3, <1>5, <1>9, <2>1, <2>2 DEF cb
<1>10. CASE cb.kind = "GrantData_cb"
  <2>1. cb \in GrantCbs
    BY <1>3, <1>10 DEF GrantCbs
  <2>2. \E m \in GrantMsgs : m.op = "GrantData" /\ m.addr = cb.addr /\ d_queue' = Append(d_queue, m)
    BY <2>1, cGrant DEF cb
  <2>3. \A m \in GrantMsgs : m \in DMessage /\ (m.op = "GrantData" => m.cb = "updatePerm")
    BY DEF GrantMsgs, DMessage
  <2>4. QED
    BY <1>1, <1>3, <1>5, <2>2, <2>3 DEF cb
<1>11. CASE cb.kind \notin {"AccessAckData_cb", "AccessAck_cb", "GrantData_cb"}
  <2>1. UNCHANGED d_queue
    BY <1>4, <1>11 DEF runCallback
  <2>2. QED
    BY <1>1, <1>3, <1>5, <2>1 DEF cb
<1>12. QED
  BY <1>8, <1>9, <1>10, <1>11

(* A callback of an uncached request is answered at most once.              *)
LEMMA cAccess ==
    ASSUME TypeOK, ProbeSources, AccessInv, cProbeAck, UNCHANGED access, NEW b \in OneWay
    PROVE  AccessAt(b, a_ch', pb', d_queue', d_ch', access')
<1> DEFINE cb == pb.c_map[c_ch.source]
           K == AccessCalls(b)
           M == AccessAnswers(b)
<1>1. AccessAt(b, a_ch, pb, d_queue, d_ch, access)
  BY DEF AccessInv
<1>2. LoseCall(K, cb) /\ UNCHANGED <<d_ch, a_ch>> /\ cb \in Callback
  BY cFootprint
<1>3. CASE UNCHANGED d_queue
  <2> HIDE DEF cb, K, M
  <2>1. QED
    BY <1>1, <1>2, <1>3 DEF AccessAt, LoseCall, K, M
<1>4. CASE \E m \in DMessage :
             /\ d_queue' = Append(d_queue, m) /\ m.addr = cb.addr
             /\ \/ m.op = "GrantData"
                \/ m.op = "AccessAck" /\ cb.kind = "AccessAck_cb"
                \/ m.op = "AccessAckData" /\ cb.kind = "AccessAckData_cb"
  <2>1. PICK m \in DMessage :
             /\ d_queue' = Append(d_queue, m) /\ m.addr = cb.addr
             /\ \/ m.op = "GrantData"
                \/ m.op = "AccessAck" /\ cb.kind = "AccessAck_cb"
                \/ m.op = "AccessAckData" /\ cb.kind = "AccessAckData_cb"
    BY <1>4
  <2>2. m \in M => cb \in K
    BY <1>2, <2>1 DEF AccessAnswers, AccessCalls, AccessKinds
  <2>3. GainMsg(M, m)
    BY <2>1, AppendGain
  <2> HIDE DEF cb, K, M
  <2>4. QED
    BY <1>1, <1>2, <2>2, <2>3 DEF AccessAt, LoseCall, GainMsg, K, M
<1>5. QED
  BY <1>3, <1>4, cFootprint

(* The D channel: the answer reaches the port, then the tile.               *)
LEMMA dAccess ==
    ASSUME TypeOK, AccessInv,
           (dDrive /\ UNCHANGED access) \/ tileGrantData \/ tileGrant \/ tileReleaseAck
             \/ tileAccessAck,
           NEW b \in OneWay
    PROVE  AccessAt(b, a_ch', pb', d_queue', d_ch', access')
<1>1. AccessAt(b, a_ch, pb, d_queue, d_ch, access)
  BY DEF AccessInv
<1>2. NoMsg \notin AccessAnswers(b)
  BY AccessClasses
<1>3. CASE dDrive /\ UNCHANGED access
  <2> DEFINE h == Head(d_queue)
  <2>1. /\ d_ch = NoMsg /\ (d_ch' = h \/ UNCHANGED d_ch) /\ UNCHANGED <<pb, a_ch, access>>
        /\ LoseMsg(AccessAnswers(b), h)
    BY <1>3, dMoves DEF dDrive
  <2> HIDE DEF h
  <2>2. QED
    BY <1>1, <1>2, <2>1 DEF AccessAt, LoseMsg
<1>4. CASE tileAccessAck
  <2>1. /\ d_ch.op \in {"AccessAckData", "AccessAck", "HintAck"} /\ d_ch' = NoMsg
        /\ access' = access \ {d_ch.addr} /\ UNCHANGED <<pb, d_queue, a_ch>>
    BY <1>4 DEF tileAccessAck, adapterVars
  <2>2. d_ch \in AccessAnswers(b) <=> d_ch.addr = b
    BY <2>1, TileTypes DEF NoMsg, AccessAnswers
  <2>3. QED
    BY <1>1, <1>2, <2>1, <2>2 DEF AccessAt
<1>5. CASE tileReleaseAck \/ tileGrantData \/ tileGrant
  <2>1. d_ch' = NoMsg /\ UNCHANGED <<pb, d_queue, a_ch, access>>
    BY <1>5 DEF tileReleaseAck, tileGrantData, tileGrant, adapterVars
  <2>2. QED
    BY <1>1, <1>2, <2>1 DEF AccessAt
<1>6. QED
  BY <1>3, <1>4, <1>5

(* Every step keeps at most one uncached request of a OneWay block.         *)
LEMMA NextAccess ==
    TypeOK /\ ProbeSources /\ StoreInv /\ DeviceInv /\ MonInv /\ AccessInv /\ [Next]_vars
      => AccessInv'
<1> SUFFICES ASSUME TypeOK, ProbeSources, StoreInv, DeviceInv, MonInv, AccessInv, [Next]_vars,
                    NEW b \in OneWay
             PROVE  AccessAt(b, a_ch', pb', d_queue', d_ch', access')
  BY DEF AccessInv
<1>0. AccessAt(b, a_ch, pb, d_queue, d_ch, access)
  BY DEF AccessInv
<1>00. NoMsg.op \notin AccessRequests /\ NoCb \notin AccessCalls(b) /\ NoMsg \notin AccessAnswers(b)
       /\ \A cb \in AccessCalls(b) : cb.kind # "probe_blocks_rec"
  BY AccessClasses DEF NoMsg, AccessRequests
<1>1. CASE adapterStep /\ aStep
  BY <1>1, aAccess DEF adapterStep, tileVars
<1>2. CASE adapterStep /\ cProbeAck
  BY <1>2, cAccess DEF adapterStep, tileVars
<1>3. CASE (adapterStep /\ dDrive) \/ tileGrantData \/ tileGrant \/ tileReleaseAck \/ tileAccessAck
  BY <1>3, dAccess DEF adapterStep, tileVars
<1>4. CASE adapterStep /\ cRelease
  <2> DEFINE m == PlainD("ReleaseAck", c_ch.addr)
  <2>1. d_queue' = Append(d_queue, m) /\ UNCHANGED <<pb, a_ch, d_ch, access>> /\ c_ch.addr \in Blocks
    BY <1>4, cFireType DEF cRelease, cUnchanged, adapterStep, tileVars
  <2>2. m \in DMessage /\ m.op = "ReleaseAck"
    BY <2>1, FillType, PlainDType DEF PlainD, MkD
  <2>3. m \notin AccessAnswers(b)
    BY <2>2 DEF AccessAnswers
  <2> HIDE DEF m
  <2>4. QED
    BY <1>0, <2>1, <2>2, <2>3, AppendGain, KeepStep, QuietAccess
<1>5. CASE adapterStep /\ dataRetriever
  <2>1. UNCHANGED <<d_queue, d_ch, a_ch, access>>
    BY <1>5 DEF dataRetriever, chans, adapterStep, tileVars
  <2>2. UNCHANGED pb \/ pb' \in probeNext(pb, trunkBlocks)
    BY <1>5 DEF dataRetriever, trunkBlocks
  <2>3. KeepCalls(AccessCalls(b))
    <3>1. trunkBlocks \in SUBSET Blocks
      BY DEF trunkBlocks
    <3>2. pb \in ProbeSide /\ SourcesOK(pb, onB \cup onC, {})
      BY ProbeTypes DEF ProbeSources
    <3>3. CASE pb' \in probeNext(pb, trunkBlocks)
      BY <1>00, <3>1, <3>2, <3>3, ProbeNextCalls DEF KeepCalls
    <3>4. QED
      BY <2>2, <3>3, KeepStep
  <2>4. QED
    BY <1>0, <2>1, <2>3, KeepStep, QuietAccess
<1>6. CASE adapterStep /\ hostInterface
  <2> DEFINE r == MkReq(AckCb("enableProbe", host_probe.addr), "toN", host_probe.addr)
  <2>1. host_probe.addr \in Blocks /\ UNCHANGED <<d_queue, d_ch, a_ch, access>>
    BY <1>6 DEF hostInterface, hostReady, TypeOK, AdapterTypeOK, chans, adapterStep, tileVars
  <2>2. pb' \in retrieveBlock(pb, r)
    BY <1>6 DEF hostInterface
  <2>3. r \in Request
    BY <2>1, AckCbType DEF CbKinds, Caps
  <2>4. r.cb.kind = "enableProbe"
    BY DEF MkReq, AckCb, MkCb
  <2>5. r.cb \notin AccessCalls(b)
    BY <2>4 DEF AccessCalls, AccessKinds
  <2> HIDE DEF r
  <2>6. KeepCalls(AccessCalls(b))
    BY <1>00, <2>2, <2>3, <2>5, RetrieveGain
  <2>7. QED
    BY <1>0, <2>1, <2>6, KeepStep, QuietAccess
<1>7. CASE adapterStep /\ bDrive
  <2>1. pb'.c_map = pb.c_map /\ pb'.events = pb.events /\ UNCHANGED <<d_queue, d_ch, a_ch, access>>
    BY <1>7, ProbeTypes DEF bDrive, ProbeSide, adapterStep, tileVars
  <2>2. KeepCalls(AccessCalls(b))
    BY <2>1 DEF KeepCalls, Calls, CallsOnce
  <2>3. QED
    BY <1>0, <2>1, <2>2, KeepStep, QuietAccess
<1>8. CASE \E x \in Blocks, o \in {"AcquireBlock", "AcquirePerm"} : tileAcquire(x, o)
  <2>1. UNCHANGED <<pb, d_queue, d_ch, access>> /\ a_ch'.op \in {"AcquireBlock", "AcquirePerm"}
    BY <1>8 DEF tileAcquire, sendA, adapterVars
  <2>2. a_ch'.op \notin AccessRequests
    BY <2>1 DEF AccessRequests
  <2>3. QED
    BY <1>0, <2>1, <2>2, KeepStep, QuietAccess
<1>9. CASE \E x \in Blocks, o \in UncachedOps : tileAccess(x, o)
  <2>1. PICK x \in Blocks, o \in UncachedOps : tileAccess(x, o)
    BY <1>9
  <2>2. /\ x \notin access /\ access' = access \cup {x} /\ UNCHANGED <<pb, d_queue, d_ch>>
        /\ a_ch = NoMsg /\ a_ch'.addr = x
    BY <2>1 DEF tileAccess, sendA, adapterVars
  <2>3. QED
    BY <1>0, <1>00, <2>2 DEF AccessAt
<1>10. CASE \E p \in Programs : runTest(p)
  <2>1. pb' = NoProbes /\ d_queue' = <<>> /\ d_ch' = NoMsg /\ a_ch' = NoMsg
    BY <1>10 DEF runTest, tileReset, adapterStart
  <2>2. ~Calls(NoProbes, AccessCalls(b)) /\ CallsOnce(NoProbes, AccessCalls(b))
    BY <1>00, NoProbesCalls
  <2>3. QED
    BY <1>00, <2>1, <2>2, QueuesEmpty DEF AccessAt
<1>11. CASE (adapterStep /\ (eGrantAck \/ cBeat \/ hostUnknownBlock))
            \/ (\E x \in Blocks : tileStore(x)) \/ (\E x \in Blocks : tileRelease(x))
            \/ tileProbe \/ poll \/ timeout \/ stop \/ finish \/ ended \/ UNCHANGED vars
  <2>1. UNCHANGED <<a_ch, pb, d_queue, d_ch, access>>
    BY <1>11 DEF adapterStep, eGrantAck, cBeat, cUnchanged, hostUnknownBlock, tileStore,
                 tileRelease, tileProbe, poll, timeout, stop, finish, ended, vars, adapterVars,
                 chans, tileVars
  <2>2. QED
    BY <1>0, <2>1
<1>12. QED
  BY <1>1, <1>2, <1>3, <1>4, <1>5, <1>6, <1>7, <1>8, <1>9, <1>10, <1>11 DEF Next, aStep

(* Before the first run there is no request.                                *)
LEMMA InitAccess == Init => AccessInv
<1> SUFFICES ASSUME Init, NEW b \in OneWay PROVE AccessAt(b, a_ch, pb, d_queue, d_ch, access)
  BY DEF AccessInv
<1>1. pb = NoProbes /\ d_queue = <<>> /\ d_ch = NoMsg /\ a_ch = NoMsg
  BY DEF Init, adapterInit, tileInit
<1>2. NoMsg.op \notin AccessRequests /\ NoCb \notin AccessCalls(b) /\ NoMsg \notin AccessAnswers(b)
  BY AccessClasses DEF NoMsg, AccessRequests
<1>3. ~Calls(NoProbes, AccessCalls(b)) /\ CallsOnce(NoProbes, AccessCalls(b))
  BY <1>2, NoProbesCalls
<1>4. QED
  BY <1>1, <1>2, <1>3, QueuesEmpty DEF AccessAt

-----------------------------------------------------------------------------
(* A block the tile never caches stays out of the cache and the directory.  *)
LEMMA DeviceGrants ==
    ASSUME TypeOK, AcquireInv, DeviceInv, NEW b \in DeviceBlocks
    PROVE  /\ b \in Blocks /\ d_ch \notin GrantsOf(b) /\ ~Queues(d_queue, GrantsOf(b))
           /\ ~(a_ch.op \in {"AcquireBlock", "AcquirePerm"} /\ a_ch.addr = b)
<1>1. b \in Blocks /\ b \notin acquiring
  BY DEF DeviceBlocks, DeviceInv
<1>2. AcquireAt(b, a_ch, pb, d_queue, d_ch, acquiring)
  BY <1>1 DEF AcquireInv
<1>3. QED
  BY <1>1, <1>2 DEF AcquireAt

(* Every step keeps it out.                                                 *)
LEMMA NextDevice == TypeOK /\ AcquireInv /\ StoreInv /\ DeviceInv /\ [Next]_vars => DeviceInv'
<1> SUFFICES ASSUME TypeOK, AcquireInv, StoreInv, DeviceInv, [Next]_vars, NEW b \in DeviceBlocks
             PROVE  /\ b \notin acquiring' /\ cache'[b].perm = "N" /\ block_perm'[b] # "TRUNK"
                    /\ ~(CarriesData(c_ch') /\ c_ch'.addr = b)
  BY DEF DeviceInv
<1>0. /\ b \in Blocks /\ d_ch \notin GrantsOf(b) /\ ~Queues(d_queue, GrantsOf(b))
      /\ b \notin acquiring /\ cache[b].perm = "N" /\ block_perm[b] # "TRUNK"
      /\ ~(CarriesData(c_ch) /\ c_ch.addr = b) /\ ~cache[b].dirty
  BY DeviceGrants DEF DeviceInv, StoreInv, DirtyInv
<1>1. CASE adapterStep /\ aStep
  <2>1. UNCHANGED <<c_ch, acquiring, cache>>
    BY <1>1 DEF aStep, aGet, aPutTip, aPutOwned, aAtomic, aIntent, aNoSink, aInterleaved,
                aAcquireBlock, aAcquirePerm, aUnchanged, adapterStep, tileVars
  <2>2. block_perm'[b] # "TRUNK"
    BY <1>0, <1>1, aTrunk DEF aStep
  <2>3. QED
    BY <1>0, <2>1, <2>2
<1>2. CASE adapterStep /\ cBeat
  <2>1. c_ch \in CMessage /\ c_ch' = [c_ch EXCEPT !.beat = @ + 1] /\ UNCHANGED <<acquiring, cache, block_perm>>
    BY <1>2, cFireType DEF cBeat, adapterStep, tileVars
  <2>2. c_ch'.op = c_ch.op /\ c_ch'.addr = c_ch.addr
    BY <2>1 DEF CMessage
  <2>3. QED
    BY <1>0, <2>1, <2>2 DEF CarriesData
<1>3. CASE adapterStep /\ (cProbeAck \/ cRelease)
  <2>1. c_ch' = NoMsg /\ cPerm /\ UNCHANGED <<acquiring, cache>> /\ c_ch.addr \in Blocks
    BY <1>3, cFireType DEF cProbeAck, cRelease, adapterStep, tileVars
  <2>2. block_perm'[b] # "TRUNK"
    BY <1>0, <2>1, TileTypes DEF cPerm
  <2>3. ~CarriesData(c_ch')
    BY <2>1 DEF CarriesData, NoMsg
  <2>4. QED
    BY <1>0, <2>1, <2>2, <2>3
<1>4. CASE adapterStep /\ dDrive
  <2> DEFINE h == Head(d_queue)
  <2>1. /\ h \in DMessage /\ LoseMsg(GrantsOf(b), h) /\ UNCHANGED <<c_ch, acquiring, cache>>
        /\ block_perm' = IF h.cb = "updatePerm" THEN updatePerm(h.addr, h.param) ELSE block_perm
    BY <1>4, dMoves DEF dDrive, adapterStep, tileVars
  <2> HIDE DEF h
  <2>2. h \notin GrantsOf(b)
    BY <1>0, <2>1 DEF LoseMsg
  <2>3. h.cb = "updatePerm" => h.addr # b /\ h.addr \in Blocks
    BY <2>1, <2>2 DEF GrantsOf, GrantMsgs, DMessage
  <2>4. block_perm'[b] # "TRUNK"
    BY <1>0, <2>1, <2>3, TileTypes DEF updatePerm
  <2>5. QED
    BY <1>0, <2>1, <2>4
<1>5. CASE \E x \in Blocks : tileStore(x)
  <2>1. PICK x \in Blocks : tileStore(x)
    BY <1>5
  <2>2. cache[x].perm = "T" /\ UNCHANGED <<c_ch, acquiring, block_perm>>
    BY <2>1 DEF tileStore, adapterVars, chans
  <2>3. cache'[b] = cache[b]
    BY <1>0, <2>1, <2>2, TileTypes DEF tileStore
  <2>4. QED
    BY <1>0, <2>2, <2>3
<1>6. CASE \E x \in Blocks : tileRelease(x)
  <2>1. PICK x \in Blocks : tileRelease(x)
    BY <1>6
  <2>2. cache[x].perm # "N" /\ c_ch'.addr = x /\ UNCHANGED <<acquiring, block_perm>>
    BY <2>1 DEF tileRelease, sendC, adapterVars
  <2>3. x # b
    BY <1>0, <2>2
  <2>4. PICK line : cache' = [cache EXCEPT ![x] = line]
    BY <2>1 DEF tileRelease
  <2>5. cache'[b] = cache[b]
    BY <1>0, <2>3, <2>4, TileTypes
  <2>6. QED
    BY <1>0, <2>2, <2>3, <2>5
<1>7. CASE tileProbe
  <2> DEFINE x == b_ch.addr
             r == shrink(cache[x].perm, b_ch.param)
             line == IF r[1] = "N" THEN NoLine ELSE [cache[x] EXCEPT !.perm = r[1], !.dirty = FALSE]
  <2>1. x \in Blocks /\ b_ch.param \in Caps
    BY <1>7 DEF tileProbe, TypeOK, PortTypeOK, BMessage
  <2>2. /\ c_ch'.addr = x /\ cache' = [cache EXCEPT ![x] = line] /\ UNCHANGED <<acquiring, block_perm>>
        /\ c_ch'.op = (IF cache[x].dirty THEN "ProbeAckData" ELSE "ProbeAck")
    BY <1>7 DEF tileProbe, sendC, adapterVars
  <2>3. CarriesData(c_ch') => cache[x].dirty
    BY <2>2 DEF CarriesData
  <2>4. x = b => line.perm = "N"
    BY <1>0 DEF shrink, NoLine
  <2> HIDE DEF r, line
  <2>5. cache'[b].perm = "N"
    BY <1>0, <2>1, <2>2, <2>4, TileTypes
  <2>6. QED
    BY <1>0, <2>2, <2>3, <2>5
<1>8. CASE tileGrantData \/ tileGrant
  <2>1. d_ch.op \in {"Grant", "GrantData"} /\ UNCHANGED <<c_ch, block_perm>>
        /\ acquiring' = acquiring \ {d_ch.addr}
    BY <1>8 DEF tileGrantData, tileGrant, adapterVars
  <2>2. d_ch \in DMessage /\ d_ch.addr \in Blocks
    BY <2>1, TileTypes DEF NoMsg
  <2>3. d_ch.addr # b
    BY <1>0, <2>1, <2>2 DEF GrantsOf, GrantMsgs
  <2>4. cache'[b] = cache[b]
    BY <1>0, <1>8, <2>2, <2>3, TileTypes DEF tileGrantData, tileGrant
  <2>5. QED
    BY <1>0, <2>1, <2>4
<1>9. CASE \E x \in Blocks, o \in {"AcquireBlock", "AcquirePerm"} : tileAcquire(x, o)
  <2>1. PICK x \in Blocks, o \in {"AcquireBlock", "AcquirePerm"} : tileAcquire(x, o)
    BY <1>9
  <2>2. <<o, x>> \in TileOps /\ acquiring' = acquiring \cup {x} /\ UNCHANGED <<cache, c_ch, block_perm>>
    BY <2>1 DEF tileAcquire, adapterVars
  <2>3. x # b
    BY <2>2 DEF DeviceBlocks
  <2>4. QED
    BY <1>0, <2>2, <2>3
<1>10. CASE \E p \in Programs : runTest(p)
  <2>1. /\ acquiring' = {} /\ cache'[b] = NoLine /\ c_ch' = NoMsg
        /\ block_perm'[b] \in {"TIP", "absent"}
    BY <1>0, <1>10 DEF runTest, tileReset, adapterStart
  <2>2. QED
    BY <2>1 DEF NoLine, CarriesData, NoMsg
<1>11. CASE (adapterStep /\ (bDrive \/ dataRetriever \/ hostInterface \/ hostUnknownBlock \/ eGrantAck))
            \/ (\E x \in Blocks, o \in UncachedOps : tileAccess(x, o)) \/ tileReleaseAck
            \/ tileAccessAck \/ poll \/ timeout \/ stop \/ finish \/ ended \/ UNCHANGED vars
  <2>1. UNCHANGED <<c_ch, acquiring, cache, block_perm>>
    BY <1>11 DEF adapterStep, bDrive, dataRetriever, hostInterface, hostUnknownBlock, eGrantAck,
         tileAccess, tileReleaseAck, tileAccessAck, poll, timeout, stop, finish, ended, vars,
         adapterVars, chans, tileVars
  <2>2. QED
    BY <1>0, <2>1
<1>12. QED
  BY <1>1, <1>2, <1>3, <1>4, <1>5, <1>6, <1>7, <1>8, <1>9, <1>10, <1>11 DEF Next, aStep

(* A request for such a block finds the directory at Tip.                   *)
LEMMA DeviceTip ==
    ASSUME TypeOK, DeviceInv, a_ch.addr \in DeviceBlocks PROVE permOf(a_ch.addr) = "TIP"
<1>1. a_ch.addr \in Blocks /\ block_perm[a_ch.addr] \in {"absent", "TIP"}
  BY TileTypes DEF DeviceBlocks, DeviceInv
<1>2. QED
  BY <1>1 DEF permOf

(* Every step keeps the beat count of the A monitor right for such blocks.  *)
LEMMA NextMon == TypeOK /\ DeviceInv /\ MonInv /\ [Next]_vars => MonInv'
<1> SUFFICES ASSUME TypeOK, DeviceInv, MonInv, [Next]_vars PROVE MonInv'
  OBVIOUS
<1>0. NoBlock \notin DeviceBlocks /\ NoMsg.op # "Put" /\ DeviceBlocks \subseteq Blocks
  BY BlocksAssumption DEF DeviceBlocks, NoMsg
<1>00. a_mon \in [source : Blocks \cup {NoBlock}, count : Nat, bound : BOOLEAN]
  BY DEF TypeOK, AdapterTypeOK
<1>1. CASE UNCHANGED <<a_ch, a_mon>>
  BY <1>1 DEF MonInv
<1>2. CASE UNCHANGED a_mon /\ a_mon.source \notin DeviceBlocks
           /\ (a_ch'.op = "Put" => a_ch'.beat = 0)
  BY <1>2 DEF MonInv
<1>3. CASE aGet \/ aAtomic \/ aIntent \/ aNoSink \/ aAcquireBlock \/ aAcquirePerm
  <2>1. /\ UNCHANGED a_mon /\ a_ch' = NoMsg
        /\ a_ch.op \in {"Get", "Arithmetic", "Logical", "Intent", "AcquireBlock", "AcquirePerm"}
    BY <1>3 DEF aGet, aAtomic, aIntent, aNoSink, aAcquireBlock, aAcquirePerm, aFire, aTake
  <2>2. a_mon.source \notin DeviceBlocks
    BY <2>1 DEF MonInv
  <2>3. QED
    BY <1>0, <1>2, <2>1, <2>2
<1>4. CASE aPutTip
  <2>0. aFire({"Put"}) /\ notInterleaved /\ aNextBeat
    BY <1>4 DEF aPutTip
  <2>1. a_ch \in AMessage /\ a_ch.op = "Put" /\ a_ch.addr \in Blocks /\ notInterleaved /\ aNextBeat
    BY <2>0, aFireType
  <2>2. a_ch.beat \in Nat /\ a_ch.len \in Nat /\ a_mon.count \in Nat
    BY <1>00, <2>1, BeatsAssumption DEF AMessage
  <2>3. CASE a_mon.count + 1 = a_ch.len
    <3>1. a_mon'.source = NoBlock /\ a_mon'.count = 0
      BY <1>00, <1>4, <2>3 DEF aPutTip, endBurst
    <3>2. a_ch.addr \in DeviceBlocks => a_ch' = NoMsg
      BY <2>1, <2>3, DeviceCount DEF aNextBeat
    <3>3. a_ch'.op = "Put" => a_ch'.addr = a_ch.addr
      BY <1>0, <2>1 DEF aNextBeat, AMessage
    <3>4. QED
      BY <1>0, <3>1, <3>2, <3>3 DEF MonInv
  <2>4. CASE a_mon.count + 1 # a_ch.len
    <3>1. a_mon'.source = a_ch.addr /\ a_mon'.count = a_mon.count + 1
      BY <1>00, <1>4, <2>4 DEF aPutTip
    <3>2. a_ch.addr \in DeviceBlocks => a_mon.count = a_ch.beat
      BY <2>1, DeviceCount
    <3>3. a_ch.addr \in DeviceBlocks => a_ch' = [a_ch EXCEPT !.beat = @ + 1]
      BY <2>1, <2>4, <3>2 DEF aNextBeat
    <3>4. a_ch.addr \in DeviceBlocks =>
            a_ch'.op = "Put" /\ a_ch'.addr = a_ch.addr /\ a_ch'.beat = a_ch.beat + 1
      BY <2>1, <3>3 DEF AMessage
    <3>5. a_ch'.op = "Put" => a_ch'.addr = a_ch.addr
      BY <1>0, <2>1 DEF aNextBeat, AMessage
    <3>6. a_ch.addr # NoBlock
      BY <2>1, BlocksAssumption
    <3>7. QED
      BY <3>1, <3>2, <3>4, <3>5, <3>6 DEF MonInv
  <2>5. QED
    BY <2>3, <2>4
<1>5. CASE aPutOwned
  <2>0. aFire({"Put"}) /\ notInterleaved /\ aNextBeat
    BY <1>5 DEF aPutOwned
  <2>1. a_ch \in AMessage /\ a_ch.op = "Put" /\ a_ch.addr \in Blocks /\ notInterleaved /\ aNextBeat
    BY <2>0, aFireType
  <2>2. a_ch.addr \notin DeviceBlocks
    BY <1>5, DeviceTip DEF aPutOwned
  <2>3. a_mon.source \notin DeviceBlocks
    BY <1>0, <2>1, <2>2 DEF notInterleaved
  <2>4. a_mon'.source = a_mon.source /\ a_mon'.count = a_mon.count
    BY <1>00, <1>5 DEF aPutOwned
  <2>5. a_ch'.op = "Put" => a_ch'.addr = a_ch.addr
    BY <1>0, <2>1 DEF aNextBeat, AMessage
  <2>6. QED
    BY <2>2, <2>3, <2>4, <2>5 DEF MonInv
<1>6. CASE aInterleaved
  BY <1>1, <1>6 DEF aInterleaved
<1>7. CASE (\E b \in Blocks, o \in {"AcquireBlock", "AcquirePerm"} : tileAcquire(b, o))
           \/ (\E b \in Blocks, o \in UncachedOps : tileAccess(b, o))
  <2>1. a_ch = NoMsg /\ a_ch'.beat = 0 /\ UNCHANGED a_mon
    <3>1. CASE \E b \in Blocks, o \in {"AcquireBlock", "AcquirePerm"} : tileAcquire(b, o)
      BY <3>1 DEF tileAcquire, sendA, adapterVars
    <3>2. CASE \E b \in Blocks, o \in UncachedOps : tileAccess(b, o)
      <4>1. PICK b \in Blocks, o \in UncachedOps : tileAccess(b, o)
        BY <3>2
      <4>2. QED
        BY <4>1 DEF tileAccess, sendA, adapterVars
    <3>3. QED
      BY <1>7, <3>1, <3>2
  <2>2. a_mon.source \notin DeviceBlocks
    BY <1>0, <2>1 DEF MonInv
  <2>3. QED
    BY <1>2, <2>1, <2>2
<1>8. CASE \E p \in Programs : runTest(p)
  <2>1. a_ch' = NoMsg /\ a_mon'.source = NoBlock /\ a_mon'.count = 0
    BY <1>8 DEF runTest, tileReset, adapterStart
  <2>2. QED
    BY <1>0, <2>1 DEF MonInv
<1>9. CASE cBeat \/ cProbeAck \/ cRelease \/ eGrantAck \/ dDrive \/ bDrive \/ dataRetriever
           \/ hostInterface \/ hostUnknownBlock
  BY <1>1, <1>9 DEF cBeat, cProbeAck, cRelease, cUnchanged, eGrantAck, dDrive, bDrive,
       dataRetriever, hostInterface, hostUnknownBlock, chans
<1>10. CASE tileProbe \/ tileGrantData \/ tileGrant \/ tileReleaseAck \/ tileAccessAck
            \/ (\E b \in Blocks : tileStore(b)) \/ (\E b \in Blocks : tileRelease(b))
  BY <1>1, <1>10 DEF tileProbe, tileGrantData, tileGrant, tileReleaseAck, tileAccessAck,
       tileStore, tileRelease, adapterVars, chans
<1>11. CASE poll \/ timeout \/ stop \/ finish \/ ended \/ UNCHANGED vars
  BY <1>1, <1>11 DEF poll, timeout, stop, finish, ended, vars, adapterVars, chans
<1>12. QED
  BY <1>3, <1>4, <1>5, <1>6, <1>7, <1>8, <1>9, <1>10, <1>11 DEF Next

(* At first no block is cached and no burst has begun.                      *)
LEMMA InitDevice == Init => DeviceInv /\ MonInv
<1> SUFFICES ASSUME Init PROVE DeviceInv /\ MonInv
  OBVIOUS
<1>1. /\ acquiring = {} /\ cache = [b \in Blocks |-> NoLine] /\ c_ch = NoMsg /\ a_ch = NoMsg
      /\ block_perm = [b \in Blocks |-> "absent"] /\ a_mon.source = NoBlock /\ a_mon.count = 0
  BY DEF Init, adapterInit, tileInit
<1>2. NoMsg.op # "Put" /\ NoBlock \notin DeviceBlocks /\ ~CarriesData(NoMsg) /\ NoLine.perm = "N"
  BY BlocksAssumption DEF NoMsg, DeviceBlocks, CarriesData, NoLine
<1>3. DeviceBlocks \subseteq Blocks
  BY DEF DeviceBlocks
<1>4. QED
  BY <1>1, <1>2, <1>3 DEF DeviceInv, MonInv

-----------------------------------------------------------------------------
(* Uncached writes.  The write on the A port is the newest store; the first *)
(* word of a block the tile never caches is that store, or the write is     *)
(* still to be read.                                                        *)
Writing(a, b) == a.op \in WriteRequests /\ a.addr = b
AppliedAt(b, a, w, v) ==
    /\ Writing(a, b) => a.data = v
    /\ w[0] = v \/ (Writing(a, b) /\ a.beat = 0)
AppliedInv == \A b \in DeviceBlocks : AppliedAt(b, a_ch, memory[b], latest[b])

(* a_port_monitor writes the word that the request is at.                   *)
LEMMA aApplies ==
    ASSUME TypeOK, DeviceInv, MonInv, AppliedInv, aStep, UNCHANGED latest, NEW b \in DeviceBlocks
    PROVE  AppliedAt(b, a_ch', memory'[b], latest'[b])
<1>0. /\ b \in Blocks /\ memory \in [Blocks -> Words] /\ memory[b] \in [Beat -> Nat] /\ 0 \in Beat
      /\ NoMsg.op \notin WriteRequests
  <2>1. b \in Blocks /\ memory \in [Blocks -> Words]
    BY DEF DeviceBlocks, TypeOK, AdapterTypeOK
  <2>2. memory[b] \in [Beat -> Nat]
    BY <2>1 DEF Words
  <2>3. 0 \in Beat
    BY BeatsAssumption DEF Beat
  <2>4. NoMsg.op \notin WriteRequests
    BY DEF NoMsg, WriteRequests
  <2>5. QED
    BY <2>1, <2>2, <2>3, <2>4
<1>1. AppliedAt(b, a_ch, memory[b], latest[b])
  BY DEF AppliedInv
<1>2. /\ a_ch \in AMessage /\ a_ch.addr \in Blocks
      /\ a_ch'.op # "none" => a_ch'.op = a_ch.op /\ a_ch'.addr = a_ch.addr /\ a_ch'.data = a_ch.data
  BY aKeepsRequest
<1>3. a_ch.beat \in Nat
  BY <1>2 DEF AMessage
<1>4. Writing(a_ch', b) => Writing(a_ch, b) /\ a_ch'.data = a_ch.data
  BY <1>2 DEF Writing, WriteRequests
<1>5. CASE UNCHANGED memory /\ (~Writing(a_ch, b) \/ UNCHANGED a_ch)
  BY <1>1, <1>4, <1>5 DEF AppliedAt
<1>6. CASE memory' = putWord /\ a_ch.addr # b
  <2>1. memory'[b] = memory[b]
    BY <1>0, <1>2, <1>6 DEF putWord
  <2>2. QED
    BY <1>1, <1>4, <1>6, <2>1 DEF AppliedAt, Writing
<1>7. CASE memory' = putWord /\ Writing(a_ch, b) /\ a_mon.count = 0
  <2>1. memory'[b][0] = a_ch.data
    BY <1>0, <1>7 DEF putWord, Writing
  <2>2. QED
    BY <1>1, <1>4, <1>7, <2>1 DEF AppliedAt
<1>8. CASE memory' = putWord /\ Writing(a_ch, b) /\ a_mon.count = a_ch.beat /\ a_ch.beat # 0
  <2>1. memory'[b][0] = memory[b][0]
    BY <1>0, <1>3, <1>8 DEF putWord, Writing
  <2>2. QED
    BY <1>1, <1>4, <1>8, <2>1 DEF AppliedAt
<1>9. CASE aPutTip
  <2>0. aFire({"Put"}) /\ notInterleaved /\ memory' = putWord
    BY <1>9 DEF aPutTip
  <2>1. a_ch.op = "Put" /\ notInterleaved /\ memory' = putWord
    BY <2>0, aFireType
  <2>2. a_ch.addr = b => Writing(a_ch, b) /\ a_mon.count = a_ch.beat
    BY <2>1, DeviceCount DEF Writing, WriteRequests
  <2>3. QED
    BY <1>6, <1>7, <1>8, <2>1, <2>2
<1>10. CASE aAtomic
  <2>0. aFire({"Arithmetic", "Logical"}) /\ notInterleaved
    BY <1>10 DEF aAtomic
  <2>1. a_ch.op \in {"Arithmetic", "Logical"} /\ notInterleaved
    BY <2>0, aFireType
  <2>2. a_ch.addr = b => permOf(a_ch.addr) = "TIP"
    BY DeviceTip
  <2>3. a_ch.addr = b => a_mon.count = 0 /\ Writing(a_ch, b)
    BY <2>1 DEF MonInv, notInterleaved, Writing, WriteRequests
  <2>4. CASE permOf(a_ch.addr) = "TIP"
    BY <1>6, <1>7, <1>10, <2>3, <2>4 DEF aAtomic
  <2>5. CASE permOf(a_ch.addr) # "TIP"
    BY <1>5, <1>10, <2>2, <2>5 DEF aAtomic, Writing
  <2>6. QED
    BY <2>4, <2>5
<1>11. CASE aPutOwned
  <2>1. a_ch.addr # b
    BY <1>11, DeviceTip DEF aPutOwned
  <2>2. QED
    BY <1>5, <1>11, <2>1 DEF aPutOwned, Writing
<1>12. CASE aGet \/ aIntent \/ aNoSink \/ aAcquireBlock \/ aAcquirePerm
  <2>1. UNCHANGED memory /\ a_ch.op \notin WriteRequests
    BY <1>12 DEF aGet, aIntent, aNoSink, aAcquireBlock, aAcquirePerm, aFire, WriteRequests
  <2>2. QED
    BY <1>5, <2>1 DEF Writing
<1>13. CASE aInterleaved
  BY <1>5, <1>13 DEF aInterleaved
<1>14. QED
  BY <1>9, <1>10, <1>11, <1>12, <1>13 DEF aStep

(* Every step keeps the first word up to date.                              *)
LEMMA NextApplied ==
    TypeOK /\ AcquireInv /\ DeviceInv /\ MonInv /\ AppliedInv /\ [Next]_vars => AppliedInv'
<1> SUFFICES ASSUME TypeOK, AcquireInv, DeviceInv, MonInv, AppliedInv, [Next]_vars,
                    NEW b \in DeviceBlocks
             PROVE  AppliedAt(b, a_ch', memory'[b], latest'[b])
  BY DEF AppliedInv
<1>0. /\ b \in Blocks /\ latest \in [Blocks -> Nat] /\ d_ch \notin GrantsOf(b)
      /\ cache[b].perm = "N" /\ ~(CarriesData(c_ch) /\ c_ch.addr = b)
      /\ NoMsg.op \notin WriteRequests
  BY DeviceGrants DEF DeviceInv, TypeOK, TileTypeOK, NoMsg, WriteRequests
<1>1. AppliedAt(b, a_ch, memory[b], latest[b])
  BY DEF AppliedInv
<1>2. CASE a_ch' = a_ch /\ memory'[b] = memory[b] /\ latest'[b] = latest[b]
  BY <1>1, <1>2
<1>3. CASE adapterStep /\ aStep
  BY <1>3, aApplies DEF adapterStep, tileVars
<1>4. CASE adapterStep /\ (cBeat \/ cProbeAck \/ cRelease)
  <2>1. /\ cFire({"ProbeAck", "ProbeAckData", "Release", "ReleaseData"}) /\ memory' = cWrite
        /\ UNCHANGED <<a_ch, latest>>
    BY <1>4 DEF cBeat, cProbeAck, cRelease, cFire, cUnchanged, adapterStep, tileVars
  <2>2. memory'[b] = memory[b]
    BY <1>0, <2>1, cWrites
  <2>3. QED
    BY <1>2, <2>1, <2>2
<1>5. CASE \E x \in Blocks : tileStore(x)
  <2>1. PICK x \in Blocks : tileStore(x)
    BY <1>5
  <2>2. /\ x # b /\ latest' = [latest EXCEPT ![x] = @ + 1] /\ UNCHANGED <<a_ch, memory>>
    BY <1>0, <2>1 DEF tileStore, adapterVars, chans
  <2>3. QED
    BY <1>0, <1>2, <2>2
<1>6. CASE tileGrant
  <2>1. /\ d_ch.op = "Grant" /\ latest' = [latest EXCEPT ![d_ch.addr] = @ + 1]
        /\ UNCHANGED <<a_ch, memory>>
    BY <1>6 DEF tileGrant, adapterVars
  <2>2. d_ch \in DMessage
    BY <2>1, TileTypes DEF NoMsg
  <2>3. d_ch.addr # b
    BY <1>0, <2>1, <2>2 DEF GrantsOf, GrantMsgs
  <2>4. QED
    BY <1>0, <1>2, <2>1, <2>3
<1>7. CASE \E x \in Blocks, o \in {"AcquireBlock", "AcquirePerm"} : tileAcquire(x, o)
  <2>1. /\ a_ch = NoMsg /\ a_ch'.op \in {"AcquireBlock", "AcquirePerm"} /\ UNCHANGED <<memory, latest>>
    BY <1>7 DEF tileAcquire, sendA, adapterVars
  <2>2. ~Writing(a_ch, b) /\ ~Writing(a_ch', b)
    BY <1>0, <2>1 DEF Writing, WriteRequests
  <2>3. QED
    BY <1>1, <2>1, <2>2 DEF AppliedAt
<1>8. CASE \E x \in Blocks, o \in UncachedOps : tileAccess(x, o)
  <2>1. PICK x \in Blocks, o \in UncachedOps : tileAccess(x, o)
    BY <1>8
  <2>2. a_ch = NoMsg /\ UNCHANGED memory /\ a_ch'.addr = x /\ a_ch'.beat = 0
    BY <2>1 DEF tileAccess, sendA, adapterVars
  <2>3. \/ a_ch'.op \notin WriteRequests /\ UNCHANGED latest
        \/ /\ a_ch'.op \in WriteRequests /\ a_ch'.data = latest[x] + 1
           /\ latest' = [latest EXCEPT ![x] = @ + 1]
    BY <2>1 DEF tileAccess, sendA, WriteRequests
  <2>4. ~Writing(a_ch, b)
    BY <1>0, <2>2 DEF Writing
  <2>5. QED
    BY <1>0, <1>1, <2>2, <2>3, <2>4 DEF AppliedAt, Writing
<1>9. CASE \E p \in Programs : runTest(p)
  <2>1. a_ch' = NoMsg /\ memory'[b] = Fill(0) /\ latest'[b] = 0
    BY <1>0, <1>9 DEF runTest, tileReset, adapterStart
  <2>2. Fill(0)[0] = 0
    BY BeatsAssumption DEF Fill, Beat
  <2>3. QED
    BY <1>0, <2>1, <2>2 DEF AppliedAt, Writing
<1>10. CASE adapterStep /\ (bDrive \/ dataRetriever \/ hostInterface \/ hostUnknownBlock
                              \/ eGrantAck \/ dDrive)
  <2>1. UNCHANGED <<a_ch, memory, latest>>
    BY <1>10 DEF adapterStep, tileVars, bDrive, dataRetriever, hostInterface, hostUnknownBlock,
                 eGrantAck, dDrive, chans
  <2>2. QED
    BY <1>2, <2>1
<1>11. CASE tileProbe \/ tileGrantData \/ tileReleaseAck \/ tileAccessAck
            \/ (\E x \in Blocks : tileRelease(x))
            \/ poll \/ timeout \/ stop \/ finish \/ ended \/ UNCHANGED vars
  <2>1. UNCHANGED <<a_ch, memory, latest>>
    BY <1>11 DEF tileProbe, tileGrantData, tileReleaseAck, tileAccessAck, tileRelease, poll,
                 timeout, stop, finish, ended, vars, adapterVars, chans, tileVars
  <2>2. QED
    BY <1>2, <2>1
<1>12. QED
  BY <1>3, <1>4, <1>5, <1>6, <1>7, <1>8, <1>9, <1>10, <1>11 DEF Next, aStep

(* At first every word is 0, and no store has been made.                    *)
LEMMA InitApplied == Init => AppliedInv
<1> SUFFICES ASSUME Init, NEW b \in DeviceBlocks PROVE AppliedAt(b, a_ch, memory[b], latest[b])
  BY DEF AppliedInv
<1>1. a_ch = NoMsg /\ memory[b] = Fill(0) /\ latest[b] = 0
  BY DEF Init, adapterInit, tileInit, DeviceBlocks
<1>2. NoMsg.op \notin WriteRequests /\ Fill(0)[0] = 0
  BY BeatsAssumption DEF NoMsg, WriteRequests, Fill, Beat
<1>3. QED
  BY <1>1, <1>2 DEF AppliedAt, Writing

(* An acknowledged uncached write is in memory: the first word of a burst,  *)
(* and that of an atomic, is neither lost nor put at another word, whatever *)
(* other requests cross it.  The tile asks for the permission of a block    *)
(* only if it also asks for blocks to cache them.                           *)
THEOREM WritesAreApplied ==
    ASSUME \A b \in Blocks : <<"AcquirePerm", b>> \in TileOps => <<"AcquireBlock", b>> \in TileOps
    PROVE  Spec => []WritesApplied
<1>1. TypeOK /\ AccessInv /\ AppliedInv => WritesApplied
  <2> SUFFICES ASSUME AccessInv, AppliedInv, NEW b \in Blocks,
                      <<"AcquireBlock", b>> \notin TileOps, b \notin access
               PROVE  memory[b][0] = latest[b]
    BY DEF WritesApplied
  <2>1. b \in DeviceBlocks
    BY DEF DeviceBlocks
  <2>2. AccessAt(b, a_ch, pb, d_queue, d_ch, access) /\ AppliedAt(b, a_ch, memory[b], latest[b])
    BY <2>1 DEF AccessInv, AppliedInv, OneWay
  <2>3. ~(a_ch.op \in AccessRequests /\ a_ch.addr = b)
    BY <2>2 DEF AccessAt
  <2>4. ~Writing(a_ch, b)
    BY <2>3 DEF Writing, WriteRequests, AccessRequests
  <2>5. QED
    BY <2>2, <2>4 DEF AppliedAt
<1>2. QED
  BY <1>1, InitAcquires, InitTrunk, InitStores, InitAccess, InitDevice, InitApplied, NextAcquires,
     NextTrunk, NextStores, NextAccess, NextDevice, NextMon, NextApplied, TypeCorrect,
     ProbeSourcesSound, PTL DEF Spec

-----------------------------------------------------------------------------
(* The data of an answer.  An AccessAckData of a block the tile writes only *)
(* through its cache is one version of the block between the request (seen) *)
(* and now (latest); so is what the ProbeAck that a Get waits for will      *)
(* leave in memory.                                                         *)
VersionIn(w, lo, hi) == \E v \in lo .. hi : w = Fill(v)
Outdated(b, lo, hi) ==
    {m \in DMessage : m.op = "AccessAckData" /\ m.addr = b /\ ~VersionIn(m.data, lo, hi)}
AnswersFresh(b, Q, d, lo, hi) ==
    lo <= hi /\ ~Queues(Q, Outdated(b, lo, hi)) /\ d \notin Outdated(b, lo, hi)
ReportFresh(c, cb, mem, lo, hi) ==
    c.op \in ProbeAcks /\ cb.kind = "AccessAckData_cb" /\ c.addr \in CachedOnly =>
        VersionIn(Brings(c, mem), lo[c.addr], hi[c.addr])
FreshInv ==
    /\ \A b \in CachedOnly : AnswersFresh(b, d_queue, d_ch, seen[b], latest[b])
    /\ ReportFresh(c_ch, pb.c_map[c_ch.source], memory, seen, latest)

(* A later version of the block is no reason for an answer to be outdated.  *)
LEMMA WindowGrows ==
    ASSUME NEW lo \in Nat, NEW hi \in Nat, NEW top \in Nat, hi <= top
    PROVE  /\ \A w : VersionIn(w, lo, hi) => VersionIn(w, lo, top)
           /\ \A b : Outdated(b, lo, top) \subseteq Outdated(b, lo, hi)
<1>1. \A w : VersionIn(w, lo, hi) => VersionIn(w, lo, top)
  BY DEF VersionIn
<1>2. QED
  BY <1>1 DEF Outdated

(* The newest version is in the window.                                     *)
LEMMA NewestFits ==
    ASSUME NEW lo \in Nat, NEW hi \in Nat, lo <= hi PROVE VersionIn(Fill(hi), lo, hi)
BY DEF VersionIn

(* The window moves only with a new request, while none is outstanding.     *)
LEMMA NextSeen ==
    ASSUME TypeOK, [Next]_vars, \A p \in Programs : ~runTest(p), NEW b \in Blocks
    PROVE  \/ seen'[b] = seen[b]
           \/ /\ b \notin access /\ seen'[b] = latest[b] /\ UNCHANGED <<pb, d_queue, d_ch, c_ch>>
<1>0. seen \in [Blocks -> Nat]
  BY DEF TypeOK, TileTypeOK
<1>1. CASE \E x \in Blocks, o \in UncachedOps : tileAccess(x, o)
  <2>1. PICK x \in Blocks, o \in UncachedOps : tileAccess(x, o)
    BY <1>1
  <2>2. /\ x \notin access /\ seen' = [seen EXCEPT ![x] = latest[x]]
        /\ UNCHANGED <<pb, d_queue, d_ch, c_ch>>
    BY <2>1 DEF tileAccess, adapterVars
  <2>3. QED
    BY <1>0, <2>2
<1>2. CASE adapterStep \/ tileReleaseAck \/ tileAccessAck \/ tileProbe \/ tileGrantData \/ tileGrant
           \/ poll \/ timeout \/ stop \/ finish \/ ended \/ UNCHANGED vars
  BY <1>2 DEF adapterStep, tileReleaseAck, tileAccessAck, tileProbe, tileGrantData, tileGrant, poll,
       timeout, stop, finish, ended, vars, tileVars
<1>3. CASE (\E x \in Blocks : tileRelease(x)) \/ (\E x \in Blocks : tileStore(x))
           \/ (\E x \in Blocks, o \in {"AcquireBlock", "AcquirePerm"} : tileAcquire(x, o))
  BY <1>3 DEF tileRelease, tileAcquire, tileStore
<1>4. QED
  BY <1>1, <1>2, <1>3 DEF Next

(* Memory of such a block moves only while C brings data.                   *)
LEMMA MemoryStill ==
    ASSUME TypeOK, StoreInv, [Next]_vars, \A p \in Programs : ~runTest(p), NEW b \in CachedOnly,
           ~CarriesData(c_ch)
    PROVE  memory'[b] = memory[b]
<1>0. b \in Blocks
  BY DEF CachedOnly
<1>1. CASE aStep
  BY <1>1, aMemory DEF aStep
<1>2. CASE cBeat \/ cProbeAck \/ cRelease
  <2>1. cFire({"ProbeAck", "ProbeAckData", "Release", "ReleaseData"}) /\ memory' = cWrite
    BY <1>2 DEF cBeat, cProbeAck, cRelease, cFire
  <2>2. QED
    BY <1>0, <2>1, cWrites
<1>3. CASE bDrive \/ dataRetriever \/ hostInterface \/ hostUnknownBlock \/ eGrantAck \/ dDrive
           \/ poll \/ timeout \/ stop \/ finish \/ ended \/ UNCHANGED vars
  BY <1>3 DEF bDrive, dataRetriever, hostInterface, hostUnknownBlock, eGrantAck, dDrive,
       poll, timeout, stop, finish, ended, vars, adapterVars
<1>4. CASE tileProbe \/ tileGrantData \/ tileGrant \/ tileReleaseAck \/ tileAccessAck
           \/ (\E x \in Blocks : tileRelease(x)) \/ (\E x \in Blocks : tileStore(x))
           \/ (\E x \in Blocks, o \in {"AcquireBlock", "AcquirePerm"} : tileAcquire(x, o))
           \/ (\E x \in Blocks, o \in UncachedOps : tileAccess(x, o))
  BY <1>4 DEF tileProbe, tileGrantData, tileGrant, tileReleaseAck, tileAccessAck, tileRelease,
       tileStore, tileAcquire, tileAccess, adapterVars
<1>5. QED
  BY <1>1, <1>2, <1>3, <1>4 DEF Next, aStep

(* An answer made by a_port_monitor is the newest version.                  *)
LEMMA aFresh ==
    ASSUME TypeOK, StoreInv, FreshInv, aStep, NEW b \in CachedOnly
    PROVE  ~Queues(d_queue', Outdated(b, seen[b], latest[b])) /\ UNCHANGED d_ch
<1> DEFINE M == Outdated(b, seen[b], latest[b])
<1>0. ~Queues(d_queue, M) /\ seen[b] <= latest[b] /\ b \in Blocks
  BY DEF FreshInv, AnswersFresh, CachedOnly
<1>1. UNCHANGED d_ch
  BY DEF aStep, aGet, aPutTip, aPutOwned, aAtomic, aIntent, aNoSink, aInterleaved,
         aAcquireBlock, aAcquirePerm, aUnchanged
<1>2. CASE UNCHANGED d_queue
  BY <1>0, <1>1, <1>2
<1>3. CASE Answered
  <2>1. PICK m \in DMessage :
          /\ d_queue' = Append(d_queue, m) /\ m.addr = a_ch.addr
          /\ m.op = "AccessAckData" => permOf(a_ch.addr) = "TIP" /\ m.data = memory[a_ch.addr]
    BY <1>3 DEF Answered
  <2>2. m \notin M
    <3> SUFFICES ASSUME m \in M PROVE FALSE
      OBVIOUS
    <3>1. a_ch.addr = b /\ permOf(b) = "TIP" /\ m.data = memory[b] /\ ~VersionIn(m.data, seen[b], latest[b])
      BY <2>1 DEF Outdated
    <3>2. StoreAt(b, memory[b], block_perm[b], cache[b], c_ch, c_count, d_queue, d_ch, latest[b])
      BY DEF StoreInv
    <3>3. block_perm[b] # "TRUNK"
      BY <3>1 DEF permOf
    <3>4. m.data = Fill(latest[b])
      BY <3>1, <3>2, <3>3 DEF StoreAt
    <3>5. QED
      BY <1>0, <3>1, <3>4, NewestFits, WordTypes
  <2>3. GainMsg(M, m)
    BY <2>1, AppendGain
  <2> HIDE DEF M
  <2>4. QED
    BY <1>0, <1>1, <2>2, <2>3 DEF GainMsg, M
<1>4. QED
  BY <1>2, <1>3, aFootprint DEF Probed

(* An answer made by the callback of a Get is what the ProbeAck brought.    *)
LEMMA cFresh ==
    ASSUME TypeOK, ProbeSources, MatchInv, StoreInv, FreshInv, cProbeAck, NEW b \in CachedOnly
    PROVE  ~Queues(d_queue', Outdated(b, seen[b], latest[b])) /\ UNCHANGED d_ch
<1> DEFINE M == Outdated(b, seen[b], latest[b])
           cb == pb.c_map[c_ch.source]
<1>0. ~Queues(d_queue, M) /\ UNCHANGED d_ch
  BY cFootprint DEF FreshInv, AnswersFresh
<1>1. c_ch.op \in ProbeAcks /\ c_ch.addr = cb.addr
  BY DEF cProbeAck, cFire, ProbeAcks, MatchInv
<1>2. CASE UNCHANGED d_queue
  BY <1>0, <1>2
<1>3. CASE ~UNCHANGED d_queue
  <2>1. PICK m \in DMessage :
          /\ d_queue' = Append(d_queue, m) /\ m.addr = cb.addr
          /\ \/ m.op = "GrantData"
             \/ m.op = "AccessAck" /\ cb.kind = "AccessAck_cb"
             \/ m.op = "AccessAckData" /\ cb.kind = "AccessAckData_cb" /\ m.data = memory'[cb.addr]
    BY <1>3, cFootprint
  <2>2. m \notin M
    <3> SUFFICES ASSUME m \in M PROVE FALSE
      OBVIOUS
    <3>1. /\ cb.addr = b /\ cb.kind = "AccessAckData_cb" /\ m.data = memory'[b]
          /\ ~VersionIn(m.data, seen[b], latest[b])
      BY <2>1 DEF Outdated
    <3>2. memory'[b] = Brings(c_ch, memory)
      BY <1>1, <3>1, AckBrings
    <3>3. VersionIn(Brings(c_ch, memory), seen[b], latest[b])
      BY <1>1, <3>1 DEF FreshInv, ReportFresh
    <3>4. QED
      BY <3>1, <3>2, <3>3
  <2>3. GainMsg(M, m)
    BY <2>1, AppendGain
  <2> HIDE DEF M
  <2>4. QED
    BY <1>0, <2>2, <2>3 DEF GainMsg, M
<1>4. QED
  BY <1>2, <1>3

(* Every step leaves the answers on their way fresh, as seen from before.   *)
LEMMA NextAnswers ==
    ASSUME TypeOK, ProbeSources, MatchInv, StoreInv, FreshInv, [Next]_vars,
           \A p \in Programs : ~runTest(p), NEW b \in CachedOnly
    PROVE  LET M == Outdated(b, seen[b], latest[b]) IN ~Queues(d_queue', M) /\ d_ch' \notin M
<1> DEFINE M == Outdated(b, seen[b], latest[b])
<1>0. ~Queues(d_queue, M) /\ d_ch \notin M /\ NoMsg \notin M
  BY NoMsgType DEF FreshInv, AnswersFresh, Outdated
<1>1. CASE aStep
  BY <1>0, <1>1, aFresh
<1>2. CASE cProbeAck
  BY <1>0, <1>2, cFresh
<1>3. CASE cRelease
  <2> DEFINE m == PlainD("ReleaseAck", c_ch.addr)
  <2>0. cFire({"Release", "ReleaseData"}) /\ d_queue' = Append(d_queue, m) /\ UNCHANGED d_ch
    BY <1>3 DEF cRelease, cUnchanged
  <2>1. c_ch.addr \in Blocks
    BY <2>0, cFireType
  <2>2. m \in DMessage /\ m.op = "ReleaseAck"
    BY <2>1, FillType, PlainDType DEF PlainD, MkD
  <2>3. m \notin M
    BY <2>2 DEF Outdated
  <2> HIDE DEF m
  <2>4. GainMsg(M, m)
    BY <2>0, <2>2, AppendGain
  <2> HIDE DEF M
  <2>5. QED
    BY <1>0, <2>0, <2>3, <2>4 DEF GainMsg, M
<1>4. CASE dDrive
  <2> DEFINE h == Head(d_queue)
  <2>1. /\ LoseMsg(M, h) /\ (d_ch' = h \/ UNCHANGED d_ch)
    BY <1>4, dMoves
  <2> HIDE DEF M, h
  <2>2. QED
    BY <1>0, <2>1 DEF LoseMsg, M
<1>5. CASE tileGrantData \/ tileGrant \/ tileReleaseAck \/ tileAccessAck
  <2>1. d_ch' = NoMsg /\ UNCHANGED d_queue
    BY <1>5 DEF tileGrantData, tileGrant, tileReleaseAck, tileAccessAck, adapterVars
  <2>2. QED
    BY <1>0, <2>1
<1>6. CASE cBeat \/ bDrive \/ dataRetriever \/ hostInterface \/ hostUnknownBlock \/ eGrantAck
           \/ poll \/ timeout \/ stop \/ finish \/ ended \/ UNCHANGED vars
  <2>1. UNCHANGED <<d_queue, d_ch>>
    BY <1>6 DEF cBeat, cUnchanged, bDrive, dataRetriever, hostInterface, hostUnknownBlock,
                eGrantAck, poll, timeout, stop, finish, ended, vars, adapterVars, chans
  <2>2. QED
    BY <1>0, <2>1
<1>7. CASE tileProbe \/ (\E x \in Blocks : tileRelease(x)) \/ (\E x \in Blocks : tileStore(x))
           \/ (\E x \in Blocks, o \in {"AcquireBlock", "AcquirePerm"} : tileAcquire(x, o))
           \/ (\E x \in Blocks, o \in UncachedOps : tileAccess(x, o))
  <2>1. UNCHANGED <<d_queue, d_ch>>
    BY <1>7 DEF tileProbe, tileRelease, tileStore, tileAcquire, tileAccess, adapterVars, chans
  <2>2. QED
    BY <1>0, <2>1
<1>8. QED
  BY <1>1, <1>2, <1>3, <1>4, <1>5, <1>6, <1>7 DEF Next, aStep

(* Every step keeps the answers, and the report a Get waits for, fresh.     *)
LEMMA NextFresh ==
    TypeOK /\ ProbeSources /\ MatchInv /\ StoreInv /\ AccessInv /\ FreshInv /\ [Next]_vars
      => FreshInv'
<1> SUFFICES ASSUME TypeOK, ProbeSources, MatchInv, StoreInv, AccessInv, FreshInv, [Next]_vars
             PROVE  FreshInv'
  OBVIOUS
<1>1. CASE \E p \in Programs : runTest(p)
  <2>1. d_queue' = <<>> /\ d_ch' = NoMsg /\ c_ch' = NoMsg
        /\ \A b \in Blocks : seen'[b] = 0 /\ latest'[b] = 0
    BY <1>1 DEF runTest, tileReset, adapterStart
  <2>2. c_ch'.op \notin ProbeAcks
    BY <2>1 DEF NoMsg, ProbeAcks
  <2>3. \A b \in CachedOnly : AnswersFresh(b, d_queue', d_ch', seen'[b], latest'[b])
    BY <2>1, QueuesEmpty, NoMsgType DEF AnswersFresh, Outdated, CachedOnly
  <2>4. QED
    BY <2>2, <2>3 DEF FreshInv, ReportFresh
<1>2. CASE \A p \in Programs : ~runTest(p)
  <2>1. ASSUME NEW b \in CachedOnly
        PROVE  AnswersFresh(b, d_queue', d_ch', seen'[b], latest'[b])
    <3>0. /\ b \in Blocks /\ seen[b] \in Nat /\ latest[b] \in Nat /\ latest'[b] \in Nat
          /\ latest[b] <= latest'[b] /\ seen[b] <= latest[b]
      BY <1>2, NextLatest, WordTypes DEF CachedOnly, FreshInv, AnswersFresh
    <3>1. CASE seen'[b] = seen[b]
      <4>1. Outdated(b, seen'[b], latest'[b]) \subseteq Outdated(b, seen[b], latest[b])
        BY <3>0, <3>1, WindowGrows
      <4>2. /\ ~Queues(d_queue', Outdated(b, seen[b], latest[b]))
            /\ d_ch' \notin Outdated(b, seen[b], latest[b])
        BY <1>2, NextAnswers
      <4>3. QED
        BY <3>0, <3>1, <4>1, <4>2 DEF AnswersFresh, Queues
    <3>2. CASE b \notin access /\ seen'[b] = latest[b] /\ UNCHANGED <<pb, d_queue, d_ch, c_ch>>
      <4>1. AccessAt(b, a_ch, pb, d_queue, d_ch, access)
        BY DEF AccessInv, OneWay
      <4>2. ~Queues(d_queue, AccessAnswers(b)) /\ d_ch \notin AccessAnswers(b)
        BY <3>2, <4>1 DEF AccessAt
      <4>3. Outdated(b, seen'[b], latest'[b]) \subseteq AccessAnswers(b)
        BY DEF Outdated, AccessAnswers
      <4>4. QED
        BY <3>0, <3>2, <4>2, <4>3 DEF AnswersFresh, Queues
    <3>3. QED
      BY <1>2, <3>0, <3>1, <3>2, NextSeen
  <2>2. ReportFresh(c_ch', pb'.c_map[c_ch'.source], memory', seen', latest')
    <3> DEFINE b == c_ch'.addr
    <3> SUFFICES ASSUME c_ch'.op \in ProbeAcks, pb'.c_map[c_ch'.source].kind = "AccessAckData_cb",
                        b \in CachedOnly
                 PROVE  VersionIn(Brings(c_ch', memory'), seen'[b], latest'[b])
      BY DEF ReportFresh
    <3>0. /\ b \in Blocks /\ seen[b] \in Nat /\ latest[b] \in Nat /\ latest'[b] \in Nat
          /\ latest[b] <= latest'[b] /\ seen[b] <= latest[b]
      BY <1>2, NextLatest, WordTypes DEF CachedOnly, FreshInv, AnswersFresh
    <3>1. CASE tileProbe
      <4>1. UNCHANGED <<seen, latest>>
        BY <3>1 DEF tileProbe
      <4>2. Brings(c_ch', memory') = Fill(latest[b])
        BY <3>1, ProbeBrings
      <4>3. QED
        BY <3>0, <4>1, <4>2, NewestFits
    <3>2. CASE /\ c_ch.op \in ProbeAcks /\ c_ch'.op = c_ch.op /\ c_ch'.source = c_ch.source
               /\ c_ch'.addr = c_ch.addr /\ c_ch'.data = c_ch.data
               /\ pb'.c_map[c_ch.source] = pb.c_map[c_ch.source]
      <4>1. Brings(c_ch', memory') = Brings(c_ch, memory)
        <5>1. CarriesData(c_ch') <=> CarriesData(c_ch)
          BY <3>2 DEF CarriesData
        <5>2. CASE CarriesData(c_ch)
          BY <3>2, <5>1, <5>2 DEF Brings
        <5>3. CASE ~CarriesData(c_ch)
          BY <1>2, <3>2, <5>1, <5>3, MemoryStill DEF Brings
        <5>4. QED
          BY <5>2, <5>3
      <4>2. VersionIn(Brings(c_ch, memory), seen[b], latest[b])
        BY <3>2 DEF FreshInv, ReportFresh
      <4>3. seen'[b] = seen[b]
        <5>1. b \in access
          <6>1. AccessAt(b, a_ch, pb, d_queue, d_ch, access)
            BY DEF AccessInv, OneWay
          <6>2. c_ch.source \in BSrcs
            BY <3>2, ProbeTypes DEF ProbeAcks
          <6>3. pb.c_map[c_ch.source] \in Callback /\ pb.c_map[c_ch.source].addr = b
            BY <3>2, <6>2, ProbeTypes DEF ProbeSide, MatchInv
          <6>4. pb.c_map[c_ch.source] \in AccessCalls(b)
            BY <3>2, <6>3 DEF AccessCalls, AccessKinds
          <6>5. Calls(pb, AccessCalls(b))
            BY <6>2, <6>4 DEF Calls
          <6>6. QED
            BY <6>1, <6>5 DEF AccessAt
        <5>2. QED
          BY <1>2, <3>0, <5>1, NextSeen
      <4>4. QED
        BY <3>0, <4>1, <4>2, <4>3, WindowGrows
    <3>3. QED
      BY <3>1, <3>2, NextReport
  <2>3. QED
    BY <2>1, <2>2 DEF FreshInv
<1>3. QED
  BY <1>1, <1>2

(* At first no answer is on its way.                                        *)
LEMMA InitFresh == Init => FreshInv
<1> SUFFICES ASSUME Init PROVE FreshInv
  OBVIOUS
<1>1. d_queue = <<>> /\ d_ch = NoMsg /\ c_ch = NoMsg
      /\ \A b \in Blocks : seen[b] = 0 /\ latest[b] = 0
  BY DEF Init, adapterInit, tileInit
<1>2. c_ch.op \notin ProbeAcks
  BY <1>1 DEF NoMsg, ProbeAcks
<1>3. \A b \in CachedOnly : AnswersFresh(b, d_queue, d_ch, seen[b], latest[b])
  BY <1>1, QueuesEmpty, NoMsgType DEF AnswersFresh, Outdated, CachedOnly
<1>4. QED
  BY <1>2, <1>3 DEF FreshInv, ReportFresh

(* Data sent to the tile is current and whole: no answer mixes words of two *)
(* versions or holds one older than its request, although its words are     *)
(* read when it is queued and reports are written word by word.             *)
THEOREM DataIsCurrent ==
    ASSUME CachedOnly = Blocks PROVE Spec => []DataCurrent
<1>1. TypeOK /\ StoreInv /\ FreshInv => DataCurrent
  <2> SUFFICES ASSUME TypeOK, StoreInv, FreshInv, NEW m \in dMessages
               PROVE  /\ m.op = "GrantData" => m.data = Fill(latest[m.addr])
                      /\ m.op = "AccessAckData" =>
                           \E v \in seen[m.addr] .. latest[m.addr] : m.data = Fill(v)
    BY DEF DataCurrent
  <2> DEFINE b == m.addr
  <2>1. m \in DMessage /\ (m = d_ch \/ \E i \in 1 .. Len(d_queue) : d_queue[i] = m)
    BY DEF dMessages, TypeOK, AdapterTypeOK, PortTypeOK
  <2>2. b \in CachedOnly
    BY <2>1 DEF DMessage
  <2>3. AnswersFresh(b, d_queue, d_ch, seen[b], latest[b])
        /\ StoreAt(b, memory[b], block_perm[b], cache[b], c_ch, c_count, d_queue, d_ch, latest[b])
    BY <2>2 DEF FreshInv, StoreInv
  <2>4. m \notin Outdated(b, seen[b], latest[b]) /\ m \notin Stale(b, latest[b])
    BY <2>1, <2>3 DEF AnswersFresh, StoreAt, Queues
  <2>5. m.op = "GrantData" => m.data = Fill(latest[b])
    BY <2>1, <2>4 DEF Stale, GrantMsgs
  <2>6. m.op = "AccessAckData" => VersionIn(m.data, seen[b], latest[b])
    BY <2>1, <2>4 DEF Outdated
  <2>7. QED
    BY <2>5, <2>6 DEF VersionIn
<1>2. QED
  BY <1>1, InitAcquires, InitTrunk, InitStores, InitMatch, InitAccess, InitDevice, InitFresh,
     NextAcquires, NextTrunk, NextStores, NextMatch, NextAccess, NextDevice, NextMon, NextFresh,
     TypeCorrect, ProbeSourcesSound, PTL DEF Spec

-----------------------------------------------------------------------------
(* No exception.  The adapter handles a tile that caches and fetches: it    *)
(* dies of atomics and writes to blocks the tile owns, of an Acquire that   *)
(* finds no free sink, and of a host probe of a block that was never loaded.*)
(* These three conditions exclude that.                                     *)
PlainTile == TileOps \subseteq {"AcquireBlock", "Release", "Get", "Intent"} \X Blocks
EnoughSinks == Cardinality(Sinks) > Mshrs
SharedTohost == \A p, q \in Programs : p.tohost \in q.loaded

(* The sinks that are taken, but for one on the E port, belong to different *)
(* blocks the tile waits for.                                               *)
CallsWith(s, b) == CallsFor(s) \cap GrantCallsOf(b)
AnswersWith(s, b) == AnswersFor(s) \cap GrantsOf(b)
Carried(s, b) ==
    Calls(pb, CallsWith(s, b)) \/ Queues(d_queue, AnswersWith(s, b)) \/ d_ch \in AnswersWith(s, b)

(* A taken sink that is not on the E port is carried for a block.           *)
LEMMA SinkCarried ==
    ASSUME TypeOK, SinkInv, Running, NEW s \in Sinks \ d_sinks, ~(e_ch # NoMsg /\ e_ch.sink = s)
    PROVE  \E b \in Blocks : Carried(s, b)
<1>1. SinkAt(s, pb, d_queue, d_ch, e_ch, d_sinks)
  BY DEF SinkInv
<1>2. \A cb \in CallsFor(s) : cb.addr \in Blocks /\ cb \in CallsWith(s, cb.addr)
  BY DEF CallsFor, GrantCbs, Callback, NoCb, MkCb, CallsWith, GrantCallsOf
<1>3. \A m \in AnswersFor(s) : m.addr \in Blocks /\ m \in AnswersWith(s, m.addr)
  BY DEF AnswersFor, GrantMsgs, DMessage, AnswersWith, GrantsOf
<1>4. CASE Calls(pb, CallsFor(s))
  BY <1>2, <1>4 DEF Calls, Carried
<1>5. CASE Queues(d_queue, AnswersFor(s))
  BY <1>3, <1>5 DEF Queues, Carried
<1>6. CASE d_ch \in AnswersFor(s)
  BY <1>3, <1>6 DEF Carried
<1>7. QED
  BY <1>1, <1>4, <1>5, <1>6 DEF SinkAt

(* The block a sink is carried for is being waited for, and for no other    *)
(* sink.                                                                    *)
LEMMA CarriedOnce ==
    ASSUME AcquireInv, NEW b \in Blocks, NEW s \in Sinks, Carried(s, b)
    PROVE  /\ b \in acquiring /\ ~(a_ch.op \in Acquires /\ a_ch.addr = b)
           /\ \A t \in Sinks : Carried(t, b) => t = s
<1>1. AcquireAt(b, a_ch, pb, d_queue, d_ch, acquiring)
  BY DEF AcquireInv
<1>2. \A t : /\ Calls(pb, CallsWith(t, b)) => Calls(pb, GrantCallsOf(b))
             /\ Queues(d_queue, AnswersWith(t, b)) => Queues(d_queue, GrantsOf(b))
             /\ d_ch \in AnswersWith(t, b) => d_ch \in GrantsOf(b) /\ d_ch.sink = t
  BY DEF Calls, Queues, CallsWith, AnswersWith, AnswersFor
<1>3. b \in acquiring /\ ~(a_ch.op \in Acquires /\ a_ch.addr = b)
  BY <1>1, <1>2 DEF AcquireAt, Carried, Acquires
<1>4. ASSUME NEW t \in Sinks, Calls(pb, CallsWith(t, b)), Calls(pb, CallsWith(s, b)) PROVE t = s
  <2>1. CallsOnce(pb, GrantCallsOf(b))
    BY <1>1 DEF AcquireAt
  <2>2. \A cb : /\ cb \in CallsWith(t, b) => cb \in GrantCallsOf(b) /\ cb.sink = t
                /\ cb \in CallsWith(s, b) => cb \in GrantCallsOf(b) /\ cb.sink = s
    BY DEF CallsWith, CallsFor
  <2>3. QED
    BY <1>4, <2>1, <2>2 DEF Calls, CallsOnce
<1>5. ASSUME NEW t \in Sinks, Queues(d_queue, AnswersWith(t, b)), Queues(d_queue, AnswersWith(s, b))
      PROVE  t = s
  <2>1. QueuesOnce(d_queue, GrantsOf(b))
    BY <1>1 DEF AcquireAt
  <2>2. \A m : /\ m \in AnswersWith(t, b) => m \in GrantsOf(b) /\ m.sink = t
               /\ m \in AnswersWith(s, b) => m \in GrantsOf(b) /\ m.sink = s
    BY DEF AnswersWith, AnswersFor
  <2>3. QED
    BY <1>5, <2>1, <2>2 DEF Queues, QueuesOnce
<1>6. \A t \in Sinks : Carried(t, b) => t = s
  BY <1>1, <1>2, <1>4, <1>5 DEF AcquireAt, Carried
<1>7. QED
  BY <1>3, <1>6

(* An Acquire finds a free sink when there are more of them than Acquires.  *)
LEMMA SinkLeft ==
    ASSUME TypeOK, SinkInv, AcquireInv, Running, EnoughSinks,
           IsFiniteSet(acquiring), Cardinality(acquiring) <= Mshrs, a_ch.op \in Acquires
    PROVE  d_sinks # {}
<1> SUFFICES ASSUME d_sinks = {} PROVE FALSE
  OBVIOUS
<1> DEFINE S == {s \in Sinks : ~(e_ch # NoMsg /\ e_ch.sink = s)}
           T == acquiring \ {a_ch.addr}
           f == [s \in S |-> CHOOSE b \in Blocks : Carried(s, b)]
<1>1. \A s \in S : \E b \in Blocks : Carried(s, b)
  BY SinkCarried
<1>2. \A s \in S : f[s] \in Blocks /\ Carried(s, f[s])
  BY <1>1
<1>3. \A s \in S : f[s] \in T /\ \A t \in S : f[t] = f[s] => t = s
  <2> SUFFICES ASSUME NEW s \in S
               PROVE  f[s] \in T /\ \A t \in S : f[t] = f[s] => t = s
    OBVIOUS
  <2>1. f[s] \in Blocks /\ Carried(s, f[s]) /\ \A t \in S : Carried(t, f[t])
    BY <1>2
  <2> HIDE DEF f
  <2>2. /\ f[s] \in acquiring /\ f[s] # a_ch.addr
        /\ \A t \in Sinks : Carried(t, f[s]) => t = s
    BY <2>1, CarriedOnce
  <2>3. QED
    BY <2>1, <2>2
<1>4. f \in Injection(S, T)
  <2>1. f \in [S -> T]
    BY <1>3
  <2> HIDE DEF f
  <2>2. QED
    BY <1>3, <2>1 DEF Injection, IsInjective
<1> HIDE DEF f
<1>5. a_ch.addr \in acquiring
  <2>1. a_ch.addr \in Blocks
    BY DEF TypeOK, PortTypeOK, AMessage, NoMsg, Acquires
  <2>2. AcquireAt(a_ch.addr, a_ch, pb, d_queue, d_ch, acquiring)
    BY <2>1 DEF AcquireInv
  <2>3. QED
    BY <2>2 DEF AcquireAt, Acquires
<1>6. /\ IsFiniteSet(T) /\ Cardinality(T) = Cardinality(acquiring) - 1
      /\ Cardinality(acquiring) \in Nat
  BY <1>5, FS_RemoveElement, FS_CardinalityType
<1> HIDE DEF S, T
<1>7. IsFiniteSet(S) /\ Cardinality(S) <= Cardinality(T)
  BY <1>4, <1>6, FS_Injection
<1>8. /\ IsFiniteSet(S \cup {e_ch.sink}) /\ Cardinality(S) \in Nat
      /\ Cardinality(S \cup {e_ch.sink}) <= Cardinality(S) + 1
  BY <1>7, FS_AddElement, FS_CardinalityType, SMTT(60)
<1>9. Sinks \in SUBSET (S \cup {e_ch.sink})
  BY DEF S
<1>10. IsFiniteSet(Sinks) /\ Cardinality(Sinks) <= Cardinality(S \cup {e_ch.sink})
  BY <1>8, <1>9, FS_Subset
<1>11. Cardinality(Sinks) \in Nat /\ Cardinality(S \cup {e_ch.sink}) \in Nat /\ Mshrs \in Nat
  BY <1>8, <1>10, FS_CardinalityType, TileAssumption
<1>12. QED
  BY <1>6, <1>7, <1>8, <1>10, <1>11 DEF EnoughSinks

(* What a plain tile leaves out: requests that write, the callbacks and     *)
(* answers they would leave behind, an unfinished burst.                    *)
PlainRequests == {"none", "Get", "Intent", "AcquireBlock"}
WriteCalls == {cb \in Callback : cb.kind \in {"AccessAck_cb", "ArithmeticAck_cb", "LogicalAck_cb"}}
LateWrites == {m \in DMessage : m.cb = "updateMem"}
RequestInv ==
    /\ a_ch.op \in PlainRequests /\ a_mon.source = NoBlock
    /\ ~Calls(pb, WriteCalls) /\ ~Queues(d_queue, LateWrites)
(* The blocks the host may ask for are known to the adapter.                *)
TohostBlocks == {p.tohost : p \in Programs}
TohostInv ==
    /\ drive => \A b \in TohostBlocks : block_perm[b] # "absent"
    /\ host_probe.probe => host_probe.addr \in TohostBlocks
    /\ pc = "run" => tohost \in TohostBlocks
(* The tile keeps to its number of Acquires.                                *)
MshrInv == IsFiniteSet(acquiring) /\ Cardinality(acquiring) <= Mshrs

(* Every step keeps the requests plain.                                     *)
LEMMA NextRequests ==
    ASSUME PlainTile, TypeOK, ProbeSources, RequestInv, [Next]_vars PROVE RequestInv'
<1>0. /\ NoCb \notin WriteCalls /\ NoMsg.op \in PlainRequests
      /\ \A cb \in WriteCalls : cb.kind # "probe_blocks_rec"
      /\ \A x, y : RecCb(x, y) \notin WriteCalls
  BY DEF WriteCalls, NoCb, MkCb, NoMsg, PlainRequests, RecCb
<1>1. a_ch.op \in PlainRequests /\ a_mon.source = NoBlock /\ ~Calls(pb, WriteCalls)
      /\ ~Queues(d_queue, LateWrites)
  BY DEF RequestInv
<1>2. pb \in ProbeSide /\ SourcesOK(pb, onB \cup onC, {})
  BY ProbeTypes DEF ProbeSources
<1>3. CASE UNCHANGED <<a_ch, a_mon, pb, d_queue>>
  BY <1>1, <1>3 DEF RequestInv
<1>4. ASSUME NEW r \in Request, pb' \in retrieveBlock(pb, r), r.cb \notin WriteCalls
      PROVE  ~Calls(pb', WriteCalls)
  BY <1>0, <1>1, <1>4, RetrieveGain DEF GainCall
<1>5. CASE aStep
  <2>1. a_ch.op \in {"Get", "Intent", "AcquireBlock"}
    BY <1>1, <1>5, aKeepsRequest DEF PlainRequests
  <2>2. UNCHANGED a_mon
    BY <1>5, <2>1 DEF aStep, aGet, aPutTip, aPutOwned, aAtomic, aIntent, aNoSink, aInterleaved,
                      aAcquireBlock, aAcquirePerm, aFire
  <2>3. a_ch'.op \in PlainRequests
    BY <1>0, <1>1, <1>5, aKeepsRequest DEF PlainRequests
  <2>4. CallFor(a_ch.op) \in {"AccessAckData_cb", "GrantData_cb"}
    BY <2>1 DEF CallFor
  <2>5. CASE UNCHANGED <<pb, d_queue>>
    BY <1>1, <2>2, <2>3, <2>5 DEF RequestInv
  <2>6. CASE Answered
    <3>1. PICK m \in DMessage : UNCHANGED pb /\ d_queue' = Append(d_queue, m) /\ m.cb # "updateMem"
      BY <2>6 DEF Answered
    <3>2. ~Queues(d_queue', LateWrites)
      BY <1>1, <3>1, AppendGain DEF GainMsg, LateWrites
    <3>3. QED
      BY <1>1, <2>2, <2>3, <3>1, <3>2 DEF RequestInv
  <2>7. CASE Probed
    <3>1. PICK r \in Request : /\ UNCHANGED d_queue /\ pb' \in retrieveBlock(pb, r)
                               /\ r.cb.kind = CallFor(a_ch.op)
      BY <2>7 DEF Probed
    <3>2. ~Calls(pb', WriteCalls)
      BY <1>4, <2>4, <3>1 DEF WriteCalls
    <3>3. QED
      BY <1>1, <2>2, <2>3, <3>1, <3>2 DEF RequestInv
  <2>8. QED
    BY <1>5, <2>5, <2>6, <2>7, aFootprint
<1>6. CASE cProbeAck
  <2>1. /\ c_ch.op \in ProbeAcks /\ c_ch.source \in BSrcs /\ pb' \in ackSource(pb, c_ch.source)
        /\ UNCHANGED <<a_ch, a_mon>>
    BY <1>6, cFireType, ProbeTypes DEF cProbeAck, ProbeAcks, cUnchanged
  <2>2. c_ch.source \in onB \cup onC
    BY <2>1 DEF onC, ProbeAcks
  <2>3. ~Calls(pb', WriteCalls)
    <3> DEFINE rest == pb.c_map[c_ch.source].rest
    <3> SUFFICES ASSUME Calls(pb', WriteCalls) PROVE FALSE
      OBVIOUS
    <3>1. Calls(pb, WriteCalls) \/ \E y \in rest : RecCb(y, rest \ {y}) \in WriteCalls
      BY <1>0, <1>2, <2>1, <2>2, AckChain
    <3>2. QED
      BY <1>0, <1>1, <3>1
  <2>4. pb.c_map[c_ch.source] \notin WriteCalls
    BY <1>1, <2>1 DEF Calls
  <2>5. ~Queues(d_queue', LateWrites)
    <3>1. CASE UNCHANGED d_queue
      BY <1>1, <3>1
    <3>2. CASE ~UNCHANGED d_queue
      <4>1. PICK m \in DMessage :
              /\ d_queue' = Append(d_queue, m)
              /\ m.cb = "updateMem" => pb.c_map[c_ch.source].kind = "AccessAck_cb"
        BY <1>6, <3>2, cFootprint
      <4>2. pb.c_map[c_ch.source] \in Callback
        BY <1>6, cFootprint
      <4>3. m \notin LateWrites
        BY <2>4, <4>1, <4>2 DEF LateWrites, WriteCalls
      <4>4. QED
        BY <1>1, <4>1, <4>3, AppendGain DEF GainMsg
    <3>3. QED
      BY <3>1, <3>2
  <2>6. QED
    BY <1>1, <2>1, <2>3, <2>5 DEF RequestInv
<1>7. CASE cRelease
  <2> DEFINE m == PlainD("ReleaseAck", c_ch.addr)
  <2>0. /\ cFire({"Release", "ReleaseData"}) /\ d_queue' = Append(d_queue, m)
        /\ UNCHANGED <<a_ch, a_mon, pb>>
    BY <1>7 DEF cRelease, cUnchanged
  <2>1. c_ch.addr \in Blocks
    BY <2>0, cFireType
  <2>2. m \in DMessage /\ m.cb = "none"
    BY <2>1, FillType, PlainDType DEF PlainD, MkD
  <2> HIDE DEF m
  <2>3. ~Queues(d_queue', LateWrites)
    BY <1>1, <2>0, <2>2, AppendGain DEF GainMsg, LateWrites
  <2>4. QED
    BY <1>1, <2>0, <2>3 DEF RequestInv
<1>8. CASE dDrive
  <2>1. LoseMsg(LateWrites, Head(d_queue)) /\ UNCHANGED <<a_ch, a_mon, pb>>
    BY <1>8, dMoves DEF dDrive
  <2>2. ~Queues(d_queue', LateWrites)
    BY <1>1, <2>1 DEF LoseMsg
  <2>3. QED
    BY <1>1, <2>1, <2>2 DEF RequestInv
<1>9. CASE dataRetriever
  <2>1. (UNCHANGED pb \/ pb' \in probeNext(pb, trunkBlocks)) /\ UNCHANGED <<a_ch, a_mon, d_queue>>
    BY <1>9 DEF dataRetriever, trunkBlocks, chans
  <2>2. trunkBlocks \in SUBSET Blocks
    BY DEF trunkBlocks
  <2>3. CASE pb' \in probeNext(pb, trunkBlocks)
    <3>1. ~Calls(pb', WriteCalls)
      <4> SUFFICES ASSUME Calls(pb', WriteCalls) PROVE FALSE
        OBVIOUS
      <4>1. \/ Calls(pb, WriteCalls)
            \/ \E y \in trunkBlocks : RecCb(y, trunkBlocks \ {y}) \in WriteCalls
        BY <1>0, <1>2, <2>2, <2>3, ProbeNextChain
      <4>2. QED
        BY <1>0, <1>1, <4>1
    <3>2. QED
      BY <1>1, <2>1, <3>1 DEF RequestInv
  <2>4. QED
    BY <1>3, <2>1, <2>3
<1>10. CASE hostInterface
  <2> DEFINE r == MkReq(AckCb("enableProbe", host_probe.addr), "toN", host_probe.addr)
  <2>1. host_probe.addr \in Blocks
    BY <1>10 DEF hostInterface, hostReady, TypeOK, AdapterTypeOK
  <2>2. pb' \in retrieveBlock(pb, r) /\ UNCHANGED <<a_ch, a_mon, d_queue>>
    BY <1>10 DEF hostInterface, chans
  <2>3. r \in Request
    BY <2>1, AckCbType DEF CbKinds, Caps
  <2>4. r.cb.kind = "enableProbe"
    BY DEF MkReq, AckCb, MkCb
  <2> HIDE DEF r
  <2>5. ~Calls(pb', WriteCalls)
    BY <1>4, <2>2, <2>3, <2>4 DEF WriteCalls
  <2>6. QED
    BY <1>1, <2>2, <2>5 DEF RequestInv
<1>11. CASE bDrive
  <2>1. pb'.c_map = pb.c_map /\ pb'.events = pb.events /\ UNCHANGED <<a_ch, a_mon, d_queue>>
    BY <1>2, <1>11 DEF bDrive, ProbeSide
  <2>2. ~Calls(pb', WriteCalls)
    BY <1>1, <2>1 DEF Calls
  <2>3. QED
    BY <1>1, <2>1, <2>2 DEF RequestInv
<1>12. CASE \E b \in Blocks, o \in {"AcquireBlock", "AcquirePerm"} : tileAcquire(b, o)
  <2>1. PICK b \in Blocks, o \in {"AcquireBlock", "AcquirePerm"} : tileAcquire(b, o)
    BY <1>12
  <2>2. <<o, b>> \in TileOps /\ a_ch'.op = o /\ UNCHANGED <<a_mon, pb, d_queue>>
    BY <2>1 DEF tileAcquire, sendA, adapterVars
  <2>3. o \in {"AcquireBlock", "Release", "Get", "Intent"}
    BY <2>2 DEF PlainTile
  <2>4. a_ch'.op \in PlainRequests
    BY <2>1, <2>2, <2>3 DEF PlainRequests
  <2>5. QED
    BY <1>1, <2>2, <2>4 DEF RequestInv
<1>13. CASE \E b \in Blocks, o \in UncachedOps : tileAccess(b, o)
  <2>1. PICK b \in Blocks, o \in UncachedOps : tileAccess(b, o)
    BY <1>13
  <2>2. <<o, b>> \in TileOps /\ UNCHANGED <<a_mon, pb, d_queue>>
    BY <2>1 DEF tileAccess, adapterVars
  <2>3. o \in {"AcquireBlock", "Release", "Get", "Intent"}
    BY <2>2 DEF PlainTile
  <2>4. o \in {"Get", "Intent"}
    BY <2>1, <2>3 DEF UncachedOps
  <2>5. a_ch'.op = o
    BY <2>1, <2>4 DEF tileAccess, sendA
  <2>6. QED
    BY <1>1, <2>2, <2>4, <2>5 DEF RequestInv, PlainRequests
<1>14. CASE \E p \in Programs : runTest(p)
  <2>1. pb' = NoProbes /\ d_queue' = <<>> /\ a_ch' = NoMsg /\ a_mon'.source = NoBlock
    BY <1>14 DEF runTest, tileReset, adapterStart
  <2>2. QED
    BY <1>0, <2>1, NoProbesCalls, QueuesEmpty DEF RequestInv
<1>15. CASE cBeat \/ eGrantAck \/ hostUnknownBlock \/ poll \/ timeout \/ stop \/ finish \/ ended
            \/ UNCHANGED vars
  BY <1>3, <1>15 DEF cBeat, cUnchanged, eGrantAck, hostUnknownBlock, poll, timeout, stop, finish,
       ended, vars, adapterVars, chans
<1>16. CASE tileProbe \/ tileGrantData \/ tileGrant \/ tileReleaseAck \/ tileAccessAck
            \/ (\E b \in Blocks : tileStore(b)) \/ (\E b \in Blocks : tileRelease(b))
  BY <1>3, <1>16 DEF tileProbe, tileGrantData, tileGrant, tileReleaseAck, tileAccessAck,
       tileStore, tileRelease, adapterVars, chans
<1>17. QED
  BY <1>5, <1>6, <1>7, <1>8, <1>9, <1>10, <1>11, <1>12, <1>13, <1>14, <1>15, <1>16 DEF Next, aStep

(* A block in the directory stays there until the next run.                 *)
LEMMA NextKnown ==
    ASSUME TypeOK, [Next]_vars, \A p \in Programs : ~runTest(p), NEW b \in Blocks,
           block_perm[b] # "absent"
    PROVE  block_perm'[b] # "absent"
<1>0. block_perm \in [Blocks -> {"absent", "TIP", "TRUNK"}]
  BY TileTypes
<1>1. CASE UNCHANGED block_perm
  BY <1>1
<1>2. ASSUME NEW x \in Blocks, NEW p, p # "absent", block_perm' = [block_perm EXCEPT ![x] = p]
      PROVE  block_perm'[b] # "absent"
  BY <1>0, <1>2
<1>3. CASE aStep
  <2>1. a_ch.addr \in Blocks
    BY <1>3, aKeepsRequest
  <2>2. permOf(a_ch.addr) # "absent"
    BY DEF permOf
  <2>3. UNCHANGED block_perm \/ notePerm
    BY <1>3 DEF aStep, aGet, aPutTip, aPutOwned, aAtomic, aIntent, aNoSink, aInterleaved,
                aAcquireBlock, aAcquirePerm
  <2>4. QED
    BY <1>1, <1>2, <2>1, <2>2, <2>3 DEF notePerm
<1>4. CASE cProbeAck \/ cRelease
  <2>1. cFire({"ProbeAck", "ProbeAckData", "Release", "ReleaseData"}) /\ cPerm
    BY <1>4 DEF cProbeAck, cRelease, cFire
  <2>2. c_ch.addr \in Blocks
    BY <2>1, cFireType
  <2>3. QED
    BY <1>1, <1>2, <2>1, <2>2 DEF cPerm
<1>5. CASE dDrive
  <2> DEFINE h == Head(d_queue)
  <2>1. h \in DMessage
    BY <1>5, dMoves
  <2>2. block_perm' = IF h.cb = "updatePerm" THEN updatePerm(h.addr, h.param) ELSE block_perm
    BY <1>5 DEF dDrive
  <2> HIDE DEF h
  <2>3. h.addr \in Blocks
    BY <2>1 DEF DMessage
  <2>4. QED
    BY <1>1, <1>2, <2>2, <2>3 DEF updatePerm
<1>6. CASE cBeat \/ bDrive \/ dataRetriever \/ hostInterface \/ hostUnknownBlock \/ eGrantAck
           \/ poll \/ timeout \/ stop \/ finish \/ ended \/ UNCHANGED vars
  BY <1>1, <1>6 DEF cBeat, bDrive, dataRetriever, hostInterface, hostUnknownBlock, eGrantAck,
       poll, timeout, stop, finish, ended, vars, adapterVars
<1>7. CASE tileProbe \/ tileGrantData \/ tileGrant \/ tileReleaseAck \/ tileAccessAck
           \/ (\E x \in Blocks : tileRelease(x)) \/ (\E x \in Blocks : tileStore(x))
           \/ (\E x \in Blocks, o \in {"AcquireBlock", "AcquirePerm"} : tileAcquire(x, o))
           \/ (\E x \in Blocks, o \in UncachedOps : tileAccess(x, o))
  BY <1>1, <1>7 DEF tileProbe, tileGrantData, tileGrant, tileReleaseAck, tileAccessAck,
       tileRelease, tileStore, tileAcquire, tileAccess, adapterVars
<1>8. QED
  BY <1>3, <1>4, <1>5, <1>6, <1>7 DEF Next, aStep

(* What the host asks for stays a tohost block the adapter knows.           *)
LEMMA NextTohost == ASSUME SharedTohost, TypeOK, TohostInv, [Next]_vars PROVE TohostInv'
<1>0. TohostBlocks \subseteq Blocks
  BY ProgramsAssumption DEF TohostBlocks
<1>1. CASE \E p \in Programs : runTest(p)
  <2>1. PICK p \in Programs : runTest(p)
    BY <1>1
  <2>2. /\ block_perm' = [b \in Blocks |-> IF b \in p.loaded THEN "TIP" ELSE "absent"]
        /\ tohost' = p.tohost /\ UNCHANGED host_probe
    BY <2>1 DEF runTest, adapterStart
  <2>3. \A b \in TohostBlocks : b \in p.loaded
    BY DEF SharedTohost, TohostBlocks
  <2>4. QED
    BY <1>0, <2>2, <2>3 DEF TohostInv, TohostBlocks
<1>2. CASE \A p \in Programs : ~runTest(p)
  <2>1. ASSUME drive' => drive,
               /\ UNCHANGED host_probe \/ host_probe' = [host_probe EXCEPT !.en = TRUE]
                  \/ ~host_probe'.probe \/ (pc = "run" /\ host_probe'.addr = tohost)
               /\ UNCHANGED <<pc, tohost>> \/ pc' # "run"
        PROVE  TohostInv'
    <3>1. \A b \in TohostBlocks : block_perm[b] # "absent" => block_perm'[b] # "absent"
      BY <1>0, <1>2, NextKnown
    <3>2. host_probe'.probe => host_probe'.addr \in TohostBlocks
      BY <2>1 DEF TohostInv, TypeOK, AdapterTypeOK
    <3>3. QED
      BY <2>1, <3>1, <3>2 DEF TohostInv
  <2>2. CASE adapterStep /\ aStep
    <3>1. UNCHANGED <<drive, host_probe, pc, tohost>>
      BY <2>2 DEF aStep, aGet, aPutTip, aPutOwned, aAtomic, aIntent, aNoSink, aInterleaved,
                  aAcquireBlock, aAcquirePerm, aUnchanged, adapterStep, hostVars
    <3>2. QED
      BY <2>1, <3>1
  <2>3. CASE adapterStep /\ cProbeAck
    <3>1. /\ drive /\ UNCHANGED <<pc, tohost>>
          /\ UNCHANGED host_probe \/ host_probe' = [host_probe EXCEPT !.en = TRUE]
      BY <2>3 DEF cProbeAck, cFire, Running, runCallback, adapterStep, hostVars
    <3>2. QED
      BY <2>1, <3>1
  <2>4. CASE adapterStep /\ (cBeat \/ cRelease \/ eGrantAck \/ dDrive \/ bDrive \/ hostUnknownBlock)
    <3>1. UNCHANGED <<drive, host_probe, pc, tohost>>
      BY <2>4 DEF cBeat, cRelease, eGrantAck, dDrive, bDrive, hostUnknownBlock, adapterStep, hostVars
    <3>2. QED
      BY <2>1, <3>1
  <2>5. CASE adapterStep /\ (dataRetriever \/ hostInterface)
    <3>1. drive /\ (UNCHANGED host_probe \/ ~host_probe'.probe) /\ UNCHANGED <<pc, tohost>>
      BY <2>5 DEF dataRetriever, hostInterface, hostReady, Running, adapterStep, hostVars
    <3>2. QED
      BY <2>1, <3>1
  <2>6. CASE UNCHANGED hostVars
             /\ (tileProbe \/ tileGrantData \/ tileGrant \/ tileReleaseAck \/ tileAccessAck
                 \/ (\E x \in Blocks : tileRelease(x)) \/ (\E x \in Blocks : tileStore(x))
                 \/ (\E x \in Blocks, o \in {"AcquireBlock", "AcquirePerm"} : tileAcquire(x, o))
                 \/ (\E x \in Blocks, o \in UncachedOps : tileAccess(x, o)))
    <3>1. UNCHANGED <<drive, host_probe, pc, tohost>>
      BY <2>6 DEF tileProbe, tileGrantData, tileGrant, tileReleaseAck, tileAccessAck, tileRelease,
                  tileStore, tileAcquire, tileAccess, adapterVars, hostVars
    <3>2. QED
      BY <2>1, <3>1
  <2>7. CASE poll
    <3>1. /\ UNCHANGED <<drive, tohost>> /\ (pc' = pc \/ pc' # "run") /\ pc = "run"
          /\ UNCHANGED host_probe \/ host_probe' = [host_probe EXCEPT !.probe = TRUE, !.addr = tohost]
      BY <2>7 DEF poll, adapterProbe
    <3>2. UNCHANGED host_probe \/ host_probe'.addr = tohost
      BY <3>1 DEF TypeOK, AdapterTypeOK
    <3>3. QED
      BY <2>1, <3>1, <3>2
  <2>8. CASE timeout \/ stop \/ finish \/ ended \/ UNCHANGED vars
    <3>1. UNCHANGED <<drive, host_probe, tohost>> /\ (pc' = pc \/ pc' # "run")
      BY <2>8 DEF timeout, stop, finish, ended, vars, adapterVars, hostVars
    <3>2. QED
      BY <2>1, <3>1
  <2>9. QED
    BY <1>2, <2>2, <2>3, <2>4, <2>5, <2>6, <2>7, <2>8 DEF Next, aStep
<1>3. QED
  BY <1>1, <1>2

(* The tile stays within its number of Acquires.                            *)
LEMMA NextMshrs == MshrInv /\ [Next]_vars => MshrInv'
<1> SUFFICES ASSUME MshrInv, [Next]_vars PROVE MshrInv'
  OBVIOUS
<1>0. IsFiniteSet(acquiring) /\ Cardinality(acquiring) \in Nat /\ Cardinality(acquiring) <= Mshrs
      /\ Mshrs \in Nat
  BY FS_CardinalityType, TileAssumption DEF MshrInv
<1>1. CASE UNCHANGED acquiring
  BY <1>1 DEF MshrInv
<1>2. CASE \E b \in Blocks, o \in {"AcquireBlock", "AcquirePerm"} : tileAcquire(b, o)
  <2>1. PICK b \in Blocks, o \in {"AcquireBlock", "AcquirePerm"} : tileAcquire(b, o)
    BY <1>2
  <2>2. Cardinality(acquiring) < Mshrs /\ acquiring' = acquiring \cup {b}
    BY <2>1 DEF tileAcquire
  <2>3. /\ IsFiniteSet(acquiring \cup {b})
        /\ Cardinality(acquiring \cup {b}) =
             IF b \in acquiring THEN Cardinality(acquiring) ELSE Cardinality(acquiring) + 1
    BY <1>0, FS_AddElement
  <2>4. QED
    BY <1>0, <2>2, <2>3 DEF MshrInv
<1>3. CASE tileGrantData \/ tileGrant
  <2>1. acquiring' = acquiring \ {d_ch.addr}
    BY <1>3 DEF tileGrantData, tileGrant
  <2>2. /\ IsFiniteSet(acquiring \ {d_ch.addr})
        /\ Cardinality(acquiring \ {d_ch.addr}) <= Cardinality(acquiring)
    BY <1>0, FS_RemoveElement
  <2>3. Cardinality(acquiring \ {d_ch.addr}) \in Nat
    BY <2>2, FS_CardinalityType
  <2>4. QED
    BY <1>0, <2>1, <2>2, <2>3 DEF MshrInv
<1>4. CASE \E p \in Programs : runTest(p)
  <2>1. acquiring' = {}
    BY <1>4 DEF runTest, tileReset
  <2>2. QED
    BY <1>0, <2>1, FS_EmptySet DEF MshrInv
<1>5. CASE adapterStep \/ tileProbe \/ tileReleaseAck \/ tileAccessAck
           \/ (\E x \in Blocks : tileRelease(x)) \/ (\E x \in Blocks : tileStore(x))
           \/ (\E x \in Blocks, o \in UncachedOps : tileAccess(x, o))
           \/ poll \/ timeout \/ stop \/ finish \/ ended \/ UNCHANGED vars
  BY <1>1, <1>5 DEF adapterStep, tileProbe, tileReleaseAck, tileAccessAck, tileRelease, tileStore,
       tileAccess, poll, timeout, stop, finish, ended, vars, tileVars
<1>6. QED
  BY <1>2, <1>3, <1>4, <1>5 DEF Next

(* No step of a tile within these limits raises an exception.               *)
LEMMA NextClean ==
    ASSUME EnoughSinks, TypeOK, ProbeSources, ProbeSources', SinkInv, AcquireInv, BookkeepingSound',
           RequestInv, TohostInv, MshrInv, NoException, [Next]_vars
    PROVE  NoException'
<1>0. probeError(pb') = "none"
  BY ProbeErrorNone
<1>1. CASE UNCHANGED err \/ err' = "none"
  BY <1>1 DEF NoException
<1>2. ASSUME NEW cb, NEW cap, aRetrieve(cb, cap) PROVE err' = "none"
  BY <1>0, <1>2 DEF aRetrieve
<1>3. CASE aStep
  <2>1. a_ch.op \in {"Get", "Intent", "AcquireBlock"} /\ notInterleaved
    BY <1>3, aKeepsRequest DEF RequestInv, PlainRequests, notInterleaved
  <2>2. Running
    BY <1>3 DEF aStep, aGet, aPutTip, aPutOwned, aAtomic, aIntent, aNoSink, aInterleaved,
                aAcquireBlock, aAcquirePerm, aFire
  <2>3. ~aNoSink
    <3>1. aNoSink => a_ch.op \in Acquires /\ d_sinks = {}
      BY DEF aNoSink, aFire, Acquires
    <3>2. QED
      BY <2>2, <3>1, SinkLeft DEF MshrInv
  <2>4. aGet \/ aIntent \/ aAcquireBlock
    BY <1>3, <2>1, <2>3 DEF aStep, aPutTip, aPutOwned, aAtomic, aInterleaved, aAcquirePerm, aFire
  <2>5. CASE aGet
    BY <1>1, <1>2, <2>5 DEF aGet, aAnswer
  <2>6. CASE aIntent
    BY <1>1, <2>6 DEF aIntent, aAnswer
  <2>7. CASE aAcquireBlock
    BY <1>1, <1>2, <2>7 DEF aAcquireBlock, aAnswer
  <2>8. QED
    BY <2>4, <2>5, <2>6, <2>7
<1>4. CASE cProbeAck
  <2>1. pb.c_map[c_ch.source] \notin WriteCalls
    BY <1>4, ChainAnswered DEF RequestInv
  <2>2. pb.c_map[c_ch.source] \in Callback
    BY <1>4, ChainAnswered
  <2>3. ~callbackRaises(pb.c_map[c_ch.source])
    BY <2>1, <2>2 DEF WriteCalls, callbackRaises
  <2>4. err' = probeError(pb')
    BY <1>4, <2>3 DEF cProbeAck
  <2>5. QED
    BY <1>0, <1>1, <2>4
<1>5. CASE eGrantAck
  BY <1>5 DEF eGrantAck, BookkeepingSound, NoException
<1>6. CASE dDrive
  <2>1. Head(d_queue) \in DMessage /\ LoseMsg(LateWrites, Head(d_queue))
    BY <1>6, dMoves
  <2>2. Head(d_queue).cb # "updateMem"
    BY <2>1 DEF LoseMsg, RequestInv, LateWrites
  <2>3. QED
    BY <1>1, <1>6, <2>2 DEF dDrive
<1>7. CASE dataRetriever
  <2>1. UNCHANGED err \/ err' = probeError(pb')
    BY <1>7 DEF dataRetriever
  <2>2. QED
    BY <1>0, <1>1, <2>1
<1>8. CASE hostInterface
  <2>1. err' = probeError(pb')
    BY <1>8 DEF hostInterface
  <2>2. QED
    BY <1>0, <1>1, <2>1
<1>9. CASE hostUnknownBlock
  BY <1>9 DEF hostUnknownBlock, hostReady, Running, TohostInv
<1>10. CASE cBeat \/ cRelease \/ bDrive \/ (\E p \in Programs : runTest(p))
            \/ poll \/ timeout \/ stop \/ finish \/ ended \/ UNCHANGED vars
  BY <1>1, <1>10 DEF cBeat, cRelease, bDrive, runTest, adapterStart, poll, timeout, stop, finish,
       ended, vars, adapterVars
<1>11. CASE tileProbe \/ tileGrantData \/ tileGrant \/ tileReleaseAck \/ tileAccessAck
            \/ (\E x \in Blocks : tileRelease(x)) \/ (\E x \in Blocks : tileStore(x))
            \/ (\E x \in Blocks, o \in {"AcquireBlock", "AcquirePerm"} : tileAcquire(x, o))
            \/ (\E x \in Blocks, o \in UncachedOps : tileAccess(x, o))
  BY <1>1, <1>11 DEF tileProbe, tileGrantData, tileGrant, tileReleaseAck, tileAccessAck,
       tileRelease, tileStore, tileAcquire, tileAccess, adapterVars
<1>12. QED
  BY <1>3, <1>4, <1>5, <1>6, <1>7, <1>8, <1>9, <1>10, <1>11 DEF Next, aStep

(* Before the first run.                                                    *)
LEMMA InitClean == Init => NoException /\ RequestInv /\ TohostInv /\ MshrInv
<1> SUFFICES ASSUME Init PROVE NoException /\ RequestInv /\ TohostInv /\ MshrInv
  OBVIOUS
<1>1. /\ err = "none" /\ a_ch = NoMsg /\ a_mon.source = NoBlock /\ pb = NoProbes /\ d_queue = <<>>
      /\ drive = FALSE /\ ~host_probe.probe /\ pc = "idle" /\ acquiring = {}
  BY DEF Init, adapterInit, tileInit
<1>2. NoCb \notin WriteCalls /\ NoMsg.op \in PlainRequests
  BY DEF WriteCalls, NoCb, MkCb, NoMsg, PlainRequests
<1>3. RequestInv
  BY <1>1, <1>2, NoProbesCalls, QueuesEmpty DEF RequestInv
<1>4. MshrInv
  BY <1>1, FS_EmptySet, TileAssumption DEF MshrInv
<1>5. QED
  BY <1>1, <1>3, <1>4 DEF NoException, TohostInv

(* For a tile that caches and fetches, with more sinks than it has Acquires *)
(* outstanding and programs that load each other's tohost block, no         *)
(* coroutine dies: no assertion fails, no unbound name or missing method is *)
(* reached, in any number of runs.                                          *)
THEOREM NoCoroutineDies ==
    ASSUME PlainTile, EnoughSinks, SharedTohost PROVE Spec => []NoException
<1>1. Init => SinkInv /\ OngoingInv
  BY DEF Init, adapterInit, SinkInv, OngoingInv, Running
<1>2. TypeOK /\ ProbeSources /\ RequestInv /\ [Next]_vars => RequestInv'
  BY NextRequests
<1>3. TypeOK /\ TohostInv /\ [Next]_vars => TohostInv'
  BY NextTohost
<1>4. TypeOK /\ ProbeSources /\ ProbeSources' /\ SinkInv /\ AcquireInv /\ BookkeepingSound'
        /\ RequestInv /\ TohostInv /\ MshrInv /\ NoException /\ [Next]_vars => NoException'
  BY NextClean
<1>5. QED
  BY <1>1, <1>2, <1>3, <1>4, InitClean, InitAcquires, NextAcquires, NextSinks, NextMshrs,
     TypeCorrect, ProbeSourcesSound, BooksAreSound, PTL DEF Spec

=============================================================================
