----------------------------- MODULE SinkProofs -----------------------------
(***************************************************************************)
(* Where a grant is: the callbacks waiting for a probe, the D queue and the *)
(* ports.  First what FreeList, srcToCallback and the D queue do to a class *)
(* of callbacks or messages; then the life cycle of a grant sink, and the   *)
(* transactions of ongoing_tlc, for every number of sinks and sources.      *)
(***************************************************************************)
EXTENDS ProbeProofs, FiniteSetTheorems

(* A callback of class K is registered for a source, or waits in a          *)
(* reservation; and there is at most one place that holds one.              *)
Calls(q, K) ==
    \/ \E p \in BSrcs : q.c_map[p] \in K
    \/ \E i \in 1 .. Len(q.events) : q.events[i].cb \in K
CallsOnce(q, K) ==
    /\ \A p, t \in BSrcs : q.c_map[p] \in K /\ q.c_map[t] \in K => p = t
    /\ \A i, j \in 1 .. Len(q.events) : q.events[i].cb \in K /\ q.events[j].cb \in K => i = j
    /\ \A p \in BSrcs, i \in 1 .. Len(q.events) : ~(q.c_map[p] \in K /\ q.events[i].cb \in K)

(* The same for a class of messages in the D queue.                         *)
Queues(Q, M) == \E i \in 1 .. Len(Q) : Q[i] \in M
QueuesOnce(Q, M) == \A i, j \in 1 .. Len(Q) : Q[i] \in M /\ Q[j] \in M => i = j

(* Queueing a message adds it to its classes and to no other.               *)
LEMMA QueuesAppend ==
    ASSUME NEW Q \in Seq(DMessage), NEW m \in DMessage, NEW M
    PROVE  /\ Queues(Append(Q, m), M) <=> Queues(Q, M) \/ m \in M
           /\ QueuesOnce(Q, M) /\ ~(Queues(Q, M) /\ m \in M) => QueuesOnce(Append(Q, m), M)
<1> DEFINE R == Append(Q, m)
<1>1. /\ Len(R) = Len(Q) + 1 /\ Len(Q) \in Nat
      /\ \A i \in 1 .. Len(Q) : R[i] = Q[i]
      /\ R[Len(Q) + 1] = m
  OBVIOUS
<1> HIDE DEF R
<1>2. \A i \in 1 .. Len(R) : i \in 1 .. Len(Q) \/ i = Len(Q) + 1
  BY <1>1
<1>3. \A i \in 1 .. Len(Q) : i \in 1 .. Len(R)
  BY <1>1
<1>4. Len(Q) + 1 \in 1 .. Len(R)
  BY <1>1
<1>5. Queues(R, M) <=> Queues(Q, M) \/ m \in M
  BY <1>1, <1>2, <1>3, <1>4 DEF Queues
<1>6. QueuesOnce(Q, M) /\ ~(Queues(Q, M) /\ m \in M) => QueuesOnce(R, M)
  BY <1>1, <1>2 DEF Queues, QueuesOnce
<1>7. QED
  BY <1>5, <1>6 DEF R

(* Taking the oldest message takes out just that one.                       *)
LEMMA QueuesTail ==
    ASSUME NEW Q \in Seq(DMessage), Q # <<>>, NEW M
    PROVE  /\ Queues(Q, M) <=> Head(Q) \in M \/ Queues(Tail(Q), M)
           /\ QueuesOnce(Q, M) =>
                QueuesOnce(Tail(Q), M) /\ ~(Head(Q) \in M /\ Queues(Tail(Q), M))
<1> DEFINE R == Tail(Q)
<1>1. /\ Len(Q) \in Nat /\ Len(Q) > 0 /\ Len(R) = Len(Q) - 1 /\ Head(Q) = Q[1]
      /\ \A i \in 1 .. Len(R) : R[i] = Q[i + 1]
  OBVIOUS
<1> HIDE DEF R
<1>2. \A i \in 1 .. Len(R) : i + 1 \in 1 .. Len(Q) /\ i + 1 # 1
  BY <1>1
<1>3. 1 \in 1 .. Len(Q)
  BY <1>1
<1>4. \A i \in 1 .. Len(Q) : i = 1 \/ (i - 1 \in 1 .. Len(R) /\ R[i - 1] = Q[i])
  <2> SUFFICES ASSUME NEW i \in 1 .. Len(Q), i # 1
               PROVE  i - 1 \in 1 .. Len(R) /\ R[i - 1] = Q[i]
    OBVIOUS
  <2>1. i - 1 \in 1 .. Len(R) /\ (i - 1) + 1 = i
    BY <1>1
  <2>2. QED
    BY <1>1, <2>1
<1>5. Queues(R, M) => Queues(Q, M)
  BY <1>1, <1>2 DEF Queues
<1>6. Head(Q) \in M => Queues(Q, M)
  BY <1>1, <1>3 DEF Queues
<1>7. Queues(Q, M) => Head(Q) \in M \/ Queues(R, M)
  BY <1>1, <1>4 DEF Queues
<1>8. ASSUME QueuesOnce(Q, M) PROVE QueuesOnce(R, M)
  <2> SUFFICES ASSUME NEW i \in 1 .. Len(R), NEW j \in 1 .. Len(R), R[i] \in M, R[j] \in M
               PROVE  i = j
    BY DEF QueuesOnce
  <2>1. i + 1 = j + 1
    BY <1>1, <1>2, <1>8 DEF QueuesOnce
  <2>2. QED
    BY <2>1
<1>9. ASSUME QueuesOnce(Q, M), Head(Q) \in M, Queues(R, M) PROVE FALSE
  <2>1. PICK i \in 1 .. Len(R) : R[i] \in M
    BY <1>9 DEF Queues
  <2>2. i + 1 = 1
    BY <1>1, <1>2, <1>3, <1>9, <2>1 DEF QueuesOnce
  <2>3. QED
    BY <1>2, <2>2
<1>10. QED
  BY <1>5, <1>6, <1>7, <1>8, <1>9 DEF R

(* An empty queue holds no message of any class.                            *)
LEMMA QueuesEmpty == \A M : ~Queues(<<>>, M) /\ QueuesOnce(<<>>, M)
BY DEF Queues, QueuesOnce

-----------------------------------------------------------------------------
(* Registering a callback in a free slot, or in a reservation.              *)
LEMMA IssueCalls ==
    ASSUME NEW q \in ProbeSide, NEW r \in Request, NEW t \in BSrcs, q.c_map[t] = NoCb,
           NEW K, NoCb \notin K
    PROVE  /\ Calls(Issue(q, r, t), K) <=> Calls(q, K) \/ r.cb \in K
           /\ CallsOnce(q, K) /\ ~(Calls(q, K) /\ r.cb \in K) => CallsOnce(Issue(q, r, t), K)
<1> DEFINE p == Issue(q, r, t)
<1>1. p.events = q.events /\ p.c_map = [q.c_map EXCEPT ![t] = r.cb]
  BY DEF Issue, ProbeSide
<1>2. q.c_map \in [BSrcs -> Callback]
  BY DEF ProbeSide
<1>3. p.c_map[t] = r.cb /\ \A s \in BSrcs \ {t} : p.c_map[s] = q.c_map[s]
  BY <1>1, <1>2
<1> HIDE DEF p
<1>4. Calls(p, K) <=> Calls(q, K) \/ r.cb \in K
  BY <1>1, <1>3 DEF Calls
<1>5. CallsOnce(q, K) /\ ~(Calls(q, K) /\ r.cb \in K) => CallsOnce(p, K)
  BY <1>1, <1>3 DEF Calls, CallsOnce
<1>6. QED
  BY <1>4, <1>5 DEF p

(* A reservation carries the callback until a source is released.           *)
LEMMA ReserveCalls ==
    ASSUME NEW q \in ProbeSide, NEW r \in Request, NEW K
    PROVE  LET p == [q EXCEPT !.events = Append(@, r)]
           IN /\ Calls(p, K) <=> Calls(q, K) \/ r.cb \in K
              /\ CallsOnce(q, K) /\ ~(Calls(q, K) /\ r.cb \in K) => CallsOnce(p, K)
<1> DEFINE p == [q EXCEPT !.events = Append(@, r)]
           E == q.events
           F == Append(E, r)
<1>1. p.events = F /\ p.c_map = q.c_map /\ E \in Seq(Request)
  BY DEF ProbeSide
<1>2. /\ Len(F) = Len(E) + 1 /\ Len(E) \in Nat
      /\ \A i \in 1 .. Len(E) : F[i] = E[i]
      /\ F[Len(E) + 1] = r
  BY <1>1
<1> HIDE DEF p, F
<1>3. \A i \in 1 .. Len(F) : i \in 1 .. Len(E) \/ i = Len(E) + 1
  BY <1>2
<1>4. \A i \in 1 .. Len(E) : i \in 1 .. Len(F)
  BY <1>2
<1>5. Len(E) + 1 \in 1 .. Len(F)
  BY <1>2
<1>6. Calls(p, K) <=> Calls(q, K) \/ r.cb \in K
  BY <1>1, <1>2, <1>3, <1>4, <1>5 DEF Calls
<1>7. CallsOnce(q, K) /\ ~(Calls(q, K) /\ r.cb \in K) => CallsOnce(p, K)
  BY <1>1, <1>2, <1>3 DEF Calls, CallsOnce
<1>8. QED
  BY <1>6, <1>7 DEF p

(* retrieveBlock adds the callback of its request, on both of its paths.    *)
LEMMA RetrieveCalls ==
    ASSUME NEW q \in ProbeSide, NEW r \in Request, NEW flying, NEW held \in SUBSET BSrcs,
           SourcesOK(q, flying, held), NEW p \in retrieveBlock(q, r), NEW K, NoCb \notin K
    PROVE  /\ Calls(p, K) <=> Calls(q, K) \/ r.cb \in K
           /\ CallsOnce(q, K) /\ ~(Calls(q, K) /\ r.cb \in K) => CallsOnce(p, K)
<1>1. CASE q.free # {}
  <2>1. PICK t \in q.free : p = Issue(q, r, t)
    BY <1>1 DEF retrieveBlock
  <2>2. t \in BSrcs /\ q.c_map[t] = NoCb
    BY DEF ProbeSide, SourcesOK
  <2>3. QED
    BY <2>1, <2>2, IssueCalls
<1>2. CASE q.free = {}
  BY <1>2, ReserveCalls, ZenonT(60) DEF retrieveBlock
<1>3. QED
  BY <1>1, <1>2

(* b_callback.call empties the slot it runs.                                *)
LEMMA ClearCalls ==
    ASSUME NEW q \in ProbeSide, NEW s \in BSrcs, NEW K, NoCb \notin K
    PROVE  LET p == [q EXCEPT !.c_map[s] = NoCb]
           IN /\ Calls(q, K) <=> q.c_map[s] \in K \/ Calls(p, K)
              /\ CallsOnce(q, K) => CallsOnce(p, K) /\ ~(q.c_map[s] \in K /\ Calls(p, K))
<1> DEFINE p == [q EXCEPT !.c_map[s] = NoCb]
<1>1. p.events = q.events /\ p.c_map[s] = NoCb /\ \A t \in BSrcs \ {s} : p.c_map[t] = q.c_map[t]
  BY DEF ProbeSide
<1> HIDE DEF p
<1>2. Calls(q, K) <=> q.c_map[s] \in K \/ Calls(p, K)
  BY <1>1 DEF Calls
<1>3. CallsOnce(q, K) => CallsOnce(p, K) /\ ~(q.c_map[s] \in K /\ Calls(p, K))
  BY <1>1 DEF Calls, CallsOnce
<1>4. QED
  BY <1>2, <1>3 DEF p

(* b_srcs.release moves the oldest reservation to the slot, and no other.   *)
LEMMA ReleaseCalls ==
    ASSUME NEW q \in ProbeSide, NEW flying, NEW s \in BSrcs, SourcesOK(q, flying, {s}),
           NEW p \in releaseSource(q, s), NEW K, NoCb \notin K
    PROVE  (Calls(p, K) <=> Calls(q, K)) /\ (CallsOnce(q, K) => CallsOnce(p, K))
<1> DEFINE f == [q EXCEPT !.free = @ \cup {s}, !.bad = @ \/ s \in q.free]
           g == [f EXCEPT !.events = Tail(@)]
           E == q.events
           R == Tail(E)
<1>1. f \in ProbeSide /\ f.events = E /\ f.c_map = q.c_map /\ f.free = q.free \cup {s}
      /\ E \in Seq(Request)
  BY DEF ProbeSide
<1>2. CASE f.events = <<>>
  <2>1. p = f
    BY <1>2 DEF releaseSource
  <2>2. QED
    BY <1>1, <2>1 DEF Calls, CallsOnce
<1>3. CASE f.events # <<>>
  <2>1. PICK t \in f.free : p = Issue(g, Head(f.events), t)
    BY <1>3 DEF releaseSource
  <2>2. t = s /\ q.c_map[s] = NoCb
    BY <1>1, <1>3, <2>1 DEF SourcesOK
  <2>3. Head(E) \in Request /\ R \in Seq(Request)
    BY <1>1, <1>3
  <2>4. g \in ProbeSide /\ g.events = R /\ g.c_map = q.c_map
    <3> HIDE DEF f, R
    <3>1. g = [f EXCEPT !.events = R]
      BY <1>1 DEF R
    <3>2. QED
      BY <1>1, <2>3, <3>1 DEF ProbeSide
  <2>5. /\ Len(E) \in Nat /\ Len(E) > 0 /\ Len(R) = Len(E) - 1 /\ Head(E) = E[1]
        /\ \A i \in 1 .. Len(R) : R[i] = E[i + 1]
    BY <1>1, <1>3
  <2> HIDE DEF f, g, R
  <2>6. /\ Calls(p, K) <=> Calls(g, K) \/ Head(E).cb \in K
        /\ CallsOnce(g, K) /\ ~(Calls(g, K) /\ Head(E).cb \in K) => CallsOnce(p, K)
    BY <1>1, <2>1, <2>2, <2>3, <2>4, IssueCalls
  <2>7. \A i \in 1 .. Len(R) : i + 1 \in 1 .. Len(E) /\ i + 1 # 1
    BY <2>5
  <2>8. 1 \in 1 .. Len(E)
    BY <2>5
  <2>9. \A i \in 1 .. Len(E) : i = 1 \/ (i - 1 \in 1 .. Len(R) /\ R[i - 1] = E[i])
    <3> SUFFICES ASSUME NEW i \in 1 .. Len(E), i # 1
                 PROVE  i - 1 \in 1 .. Len(R) /\ R[i - 1] = E[i]
      OBVIOUS
    <3>1. i - 1 \in 1 .. Len(R) /\ (i - 1) + 1 = i
      BY <2>5
    <3>2. QED
      BY <2>5, <3>1
  <2>10. Calls(q, K) <=> Calls(g, K) \/ Head(E).cb \in K
    <3>1. Calls(g, K) => Calls(q, K)
      BY <2>4, <2>5, <2>7 DEF Calls
    <3>2. Head(E).cb \in K => Calls(q, K)
      BY <2>5, <2>8 DEF Calls
    <3>3. Calls(q, K) => Calls(g, K) \/ Head(E).cb \in K
      BY <2>4, <2>5, <2>9 DEF Calls
    <3>4. QED
      BY <3>1, <3>2, <3>3
  <2>11. ASSUME CallsOnce(q, K) PROVE CallsOnce(g, K) /\ ~(Calls(g, K) /\ Head(E).cb \in K)
    <3>1. \A i, j \in 1 .. Len(R) : R[i].cb \in K /\ R[j].cb \in K => i = j
      <4> SUFFICES ASSUME NEW i \in 1 .. Len(R), NEW j \in 1 .. Len(R), R[i].cb \in K, R[j].cb \in K
                   PROVE  i = j
        OBVIOUS
      <4>1. i + 1 = j + 1
        BY <2>5, <2>7, <2>11 DEF CallsOnce
      <4>2. QED
        BY <4>1
    <3>2. \A x \in BSrcs, i \in 1 .. Len(R) : ~(q.c_map[x] \in K /\ R[i].cb \in K)
      BY <2>5, <2>7, <2>11 DEF CallsOnce
    <3>3. CallsOnce(g, K)
      BY <2>4, <2>11, <3>1, <3>2 DEF CallsOnce
    <3>4. \A i \in 1 .. Len(R) : ~(R[i].cb \in K /\ Head(E).cb \in K)
      BY <2>5, <2>7, <2>8, <2>11 DEF CallsOnce
    <3>5. \A x \in BSrcs : ~(q.c_map[x] \in K /\ Head(E).cb \in K)
      BY <2>5, <2>8, <2>11 DEF CallsOnce
    <3>6. QED
      BY <2>4, <3>3, <3>4, <3>5 DEF Calls
  <2>12. QED
    BY <2>6, <2>10, <2>11
<1>4. QED
  BY <1>2, <1>3

(* The retrieval chain registers nothing but its own callbacks.             *)
LEMMA ProbeNextCalls ==
    ASSUME NEW q \in ProbeSide, NEW rest \in SUBSET Blocks, NEW flying, NEW held \in SUBSET BSrcs,
           SourcesOK(q, flying, held), NEW p \in probeNext(q, rest), NEW K, NoCb \notin K,
           \A cb \in K : cb.kind # "probe_blocks_rec"
    PROVE  (Calls(p, K) <=> Calls(q, K)) /\ (CallsOnce(q, K) => CallsOnce(p, K))
<1>1. PICK b \in rest :
        p \in retrieveBlock(q, MkReq(MkCb("probe_blocks_rec", b, "toN", NoSink, rest \ {b}),
                                     "toN", b))
  BY DEF probeNext
<1> DEFINE r == MkReq(MkCb("probe_blocks_rec", b, "toN", NoSink, rest \ {b}), "toN", b)
<1>2. r \in Request
  BY RecCbType
<1>3. r.cb.kind = "probe_blocks_rec"
  BY DEF MkReq, MkCb
<1>4. r.cb \notin K
  BY <1>3
<1>5. QED
  BY <1>1, <1>2, <1>4, RetrieveCalls

(* A ProbeAck takes its callback out of the classes it is in, and leaves    *)
(* the callbacks of the other probes alone.                                 *)
LEMMA AckCalls ==
    ASSUME NEW q \in ProbeSide, NEW flying, NEW s \in BSrcs, s \in flying,
           SourcesOK(q, flying, {}), NEW p \in ackSource(q, s), NEW K, NoCb \notin K,
           \A cb \in K : cb.kind # "probe_blocks_rec"
    PROVE  /\ Calls(q, K) <=> q.c_map[s] \in K \/ Calls(p, K)
           /\ CallsOnce(q, K) => CallsOnce(p, K) /\ ~(q.c_map[s] \in K /\ Calls(p, K))
<1> DEFINE q1 == [q EXCEPT !.c_map[s] = NoCb]
           cb == q.c_map[s]
<1>1. PICK q2 \in callSource(q, s) : p \in releaseSource(q2, s)
  BY DEF ackSource
<1>2. q2 \in ProbeSide /\ SourcesOK(q2, flying \ {s}, {s})
  BY CallType, CallSafe
<1>3. (Calls(p, K) <=> Calls(q2, K)) /\ (CallsOnce(q2, K) => CallsOnce(p, K))
  BY <1>1, <1>2, ReleaseCalls
<1>4. /\ Calls(q, K) <=> q.c_map[s] \in K \/ Calls(q1, K)
      /\ CallsOnce(q, K) => CallsOnce(q1, K) /\ ~(q.c_map[s] \in K /\ Calls(q1, K))
  BY ClearCalls
<1>5. (Calls(q2, K) <=> Calls(q1, K)) /\ (CallsOnce(q1, K) => CallsOnce(q2, K))
  <2>1. CASE q2 = q1
    BY <2>1
  <2>2. CASE cb.kind = "probe_blocks_rec" /\ cb.rest # {} /\ q2 \in probeNext(q1, cb.rest)
    <3>1. q1 \in ProbeSide /\ cb \in Callback
      BY DEF ProbeSide, Callback
    <3>2. cb.rest \in SUBSET Blocks
      BY <3>1 DEF Callback, NoCb, MkCb
    <3>3. SourcesOK(q1, flying \ {s}, {s})
      BY ClearSafe
    <3>4. QED
      BY <2>2, <3>1, <3>2, <3>3, ProbeNextCalls
  <2>3. QED
    BY <2>1, <2>2 DEF callSource
<1>6. QED
  BY <1>3, <1>4, <1>5

(* A new run begins with no callback registered.                            *)
LEMMA NoProbesCalls ==
    ASSUME NEW K, NoCb \notin K PROVE ~Calls(NoProbes, K) /\ CallsOnce(NoProbes, K)
BY DEF NoProbes, Calls, CallsOnce

-----------------------------------------------------------------------------
(* What a step does to a class K of callbacks and a class M of D messages.  *)
KeepCalls(K) ==
    (Calls(pb', K) <=> Calls(pb, K)) /\ (CallsOnce(pb, K) => CallsOnce(pb', K))
GainCall(K, cb) ==
    /\ Calls(pb', K) <=> Calls(pb, K) \/ cb \in K
    /\ CallsOnce(pb, K) /\ ~(Calls(pb, K) /\ cb \in K) => CallsOnce(pb', K)
LoseCall(K, cb) ==
    /\ Calls(pb, K) <=> cb \in K \/ Calls(pb', K)
    /\ CallsOnce(pb, K) => CallsOnce(pb', K) /\ ~(cb \in K /\ Calls(pb', K))
KeepMsgs(M) ==
    (Queues(d_queue', M) <=> Queues(d_queue, M)) /\ (QueuesOnce(d_queue, M) => QueuesOnce(d_queue', M))
GainMsg(M, m) ==
    /\ Queues(d_queue', M) <=> Queues(d_queue, M) \/ m \in M
    /\ QueuesOnce(d_queue, M) /\ ~(Queues(d_queue, M) /\ m \in M) => QueuesOnce(d_queue', M)
LoseMsg(M, m) ==
    /\ Queues(d_queue, M) <=> m \in M \/ Queues(d_queue', M)
    /\ QueuesOnce(d_queue, M) => QueuesOnce(d_queue', M) /\ ~(m \in M /\ Queues(d_queue', M))

(* Steps that do not touch the probe side, or the D queue, keep its classes.*)
LEMMA KeepStep ==
    /\ UNCHANGED pb => \A K : KeepCalls(K)
    /\ UNCHANGED d_queue => \A M : KeepMsgs(M)
BY DEF KeepCalls, KeepMsgs

(* retrieveBlock registers the callback of its request.                     *)
LEMMA RetrieveGain ==
    ASSUME TypeOK, ProbeSources, NEW r \in Request, pb' \in retrieveBlock(pb, r),
           NEW K, NoCb \notin K
    PROVE  GainCall(K, r.cb) /\ (r.cb \notin K => KeepCalls(K))
<1>1. GainCall(K, r.cb)
  BY ProbeTypes, RetrieveCalls DEF ProbeSources, GainCall
<1>2. QED
  BY <1>1 DEF GainCall, KeepCalls

(* Queueing one D message.                                                  *)
LEMMA AppendGain ==
    ASSUME TypeOK, NEW m \in DMessage, d_queue' = Append(d_queue, m), NEW M
    PROVE  GainMsg(M, m) /\ (m \notin M => KeepMsgs(M))
<1>1. GainMsg(M, m)
  BY QueuesAppend DEF TypeOK, AdapterTypeOK, GainMsg
<1>2. QED
  BY <1>1 DEF GainMsg, KeepMsgs

(* aAnswer with one message.                                                *)
LEMMA AnswerAppend ==
    ASSUME TypeOK, NEW m \in DMessage, aAnswer(<<m>>)
    PROVE  d_queue' = Append(d_queue, m) /\ UNCHANGED <<pb, err>>
BY DEF TypeOK, AdapterTypeOK, aAnswer

(* The callbacks that carry a sink, and the grants.                         *)
GrantCbs == {cb \in Callback : cb.kind = "GrantData_cb"}
GrantMsgs == {m \in DMessage : m.op \in {"Grant", "GrantData"}}

(* They are the callbacks and messages with a sink.                         *)
LEMMA GrantClasses ==
    /\ \A cb \in Callback : cb \in GrantCbs <=> cb.sink \in Sinks
    /\ \A cb \in Callback : cb \notin GrantCbs => cb.sink = NoSink
    /\ \A m \in DMessage : m \in GrantMsgs <=> m.sink \in Sinks
    /\ \A m \in DMessage : m \notin GrantMsgs => m.sink = NoSink
    /\ NoCb \notin GrantCbs /\ \A cb \in GrantCbs : cb.kind # "probe_blocks_rec"
BY SinksAssumption DEF GrantCbs, GrantMsgs, Callback, NoCb, MkCb, DMessage, CbKinds

(* a_port_monitor, every request but an Acquire: no grant is made.          *)
LEMMA aQuiet ==
    ASSUME TypeOK, ProbeSources,
           aGet \/ aPutTip \/ aPutOwned \/ aAtomic \/ aIntent \/ aNoSink \/ aInterleaved,
           NEW K \in SUBSET GrantCbs, NEW M \in SUBSET GrantMsgs
    PROVE  KeepCalls(K) /\ KeepMsgs(M) /\ UNCHANGED <<d_sinks, ongoing_tlc, d_ch, e_ch, drive>>
<1>1. UNCHANGED <<d_sinks, ongoing_tlc, d_ch, e_ch, drive>>
  BY DEF aGet, aPutTip, aPutOwned, aAtomic, aIntent, aNoSink, aInterleaved, aUnchanged
<1>2. a_ch \in AMessage /\ a_ch.addr \in Blocks
  BY aFireType DEF aGet, aPutTip, aPutOwned, aAtomic, aIntent, aNoSink, aInterleaved
<1>3. NoCb \notin K
  BY GrantClasses
<1>4. ASSUME NEW k \in CbKinds \ {"none", "GrantData_cb"}, NEW c \in Caps,
             aRetrieve(AckCb(k, a_ch.addr), c)
      PROVE  KeepCalls(K)
  <2> DEFINE r == MkReq(AckCb(k, a_ch.addr), c, a_ch.addr)
  <2>1. r \in Request /\ r.cb.kind = k
    BY <1>2, AckCbType DEF MkReq, AckCb, MkCb
  <2>2. r.cb \notin K
    BY <2>1 DEF GrantCbs
  <2>3. pb' \in retrieveBlock(pb, r)
    BY <1>4 DEF aRetrieve
  <2>4. QED
    BY <1>3, <2>1, <2>2, <2>3, RetrieveGain
<1>5. ASSUME NEW o \in {"AccessAckData", "AccessAck", "HintAck"}, NEW w \in Words,
             aAnswer(<<MkD(o, a_ch.addr, "toN", NoSink, w, "none")>>)
      PROVE  KeepCalls(K) /\ KeepMsgs(M)
  <2> DEFINE m == MkD(o, a_ch.addr, "toN", NoSink, w, "none")
  <2>1. m \in DMessage /\ m.op = o
    BY <1>2, PlainDType DEF MkD
  <2>2. m \notin M
    BY <2>1 DEF GrantMsgs
  <2> HIDE DEF m
  <2>3. d_queue' = Append(d_queue, m) /\ UNCHANGED pb
    BY <1>5, <2>1, AnswerAppend DEF m
  <2>4. QED
    BY <2>1, <2>2, <2>3, AppendGain, KeepStep
<1>6. memory[a_ch.addr] \in Words /\ Fill(0) \in Words
  BY <1>2, FillType DEF TypeOK, AdapterTypeOK
<1>7. CASE aGet
  <2>1. CASE permOf(a_ch.addr) # "TIP"
    BY <1>4, <1>7, <2>1, <1>1, KeepStep DEF aGet, CbKinds, Caps
  <2>2. CASE permOf(a_ch.addr) = "TIP"
    BY <1>1, <1>5, <1>6, <1>7, <2>2 DEF aGet, DataMsg
  <2>3. QED
    BY <2>1, <2>2
<1>8. CASE aPutTip
  <2>1. CASE a_mon.count + 1 = a_ch.len
    BY <1>1, <1>5, <1>6, <1>8, <2>1 DEF aPutTip, PlainD
  <2>2. CASE a_mon.count + 1 # a_ch.len
    BY <1>1, <1>8, <2>2, KeepStep DEF aPutTip
  <2>3. QED
    BY <2>1, <2>2
<1>9. CASE aPutOwned
  <2>1. UNCHANGED d_queue
    BY <1>9 DEF aPutOwned
  <2>2. CASE a_mon.count = 0
    BY <1>1, <1>4, <1>9, <2>1, <2>2, KeepStep DEF aPutOwned, CbKinds, Caps
  <2>3. CASE a_mon.count # 0
    BY <1>1, <1>9, <2>1, <2>3, KeepStep DEF aPutOwned
  <2>4. QED
    BY <2>2, <2>3
<1>10. CASE aAtomic
  <2>1. CASE permOf(a_ch.addr) # "TIP"
    <3>1. UNCHANGED d_queue
      BY <1>10, <2>1 DEF aAtomic
    <3>2. \/ aRetrieve(AckCb("ArithmeticAck_cb", a_ch.addr), "toN")
          \/ aRetrieve(AckCb("LogicalAck_cb", a_ch.addr), "toN")
      BY <1>10, <2>1 DEF aAtomic
    <3>3. QED
      BY <1>1, <1>4, <3>1, <3>2, KeepStep DEF CbKinds, Caps
  <2>2. CASE permOf(a_ch.addr) = "TIP"
    BY <1>1, <1>5, <1>6, <1>10, <2>2 DEF aAtomic, DataMsg
  <2>3. QED
    BY <2>1, <2>2
<1>11. CASE aIntent
  BY <1>1, <1>5, <1>6, <1>11 DEF aIntent, PlainD
<1>12. CASE aNoSink \/ aInterleaved
  BY <1>1, <1>12, KeepStep DEF aNoSink, aInterleaved
<1>13. QED
  BY <1>7, <1>8, <1>9, <1>10, <1>11, <1>12

(* a_port_monitor, an Acquire that finds a sink: the sink goes into a       *)
(* callback or into a grant on the D queue, or the monitor dies.            *)
LEMMA aGrant ==
    ASSUME TypeOK, ProbeSources, aAcquireBlock \/ aAcquirePerm
    PROVE  /\ UNCHANGED <<d_ch, e_ch, drive>>
           /\ \E s \in d_sinks :
                /\ d_sinks' = d_sinks \ {s}
                /\ \/ /\ permOf(a_ch.addr) # "TIP" /\ UNCHANGED <<d_queue, ongoing_tlc>>
                      /\ \E cb \in GrantCbs :
                            /\ cb.sink = s /\ cb.addr = a_ch.addr
                            /\ \A K \in SUBSET GrantCbs : GainCall(K, cb)
                   \/ /\ permOf(a_ch.addr) = "TIP" /\ UNCHANGED pb
                      /\ ongoing_tlc' = [ongoing_tlc EXCEPT ![s] = a_ch.addr]
                      /\ \E m \in GrantMsgs :
                            /\ m.sink = s /\ m.addr = a_ch.addr
                            /\ m.param = grantCap(a_ch.param)
                            /\ a_ch.op = "AcquireBlock" => m.op = "GrantData"
                            /\ a_ch.op = "AcquirePerm" => m.op = "Grant"
                            /\ m.op = "GrantData" => m.data = memory[a_ch.addr]
                            /\ d_queue' = Append(d_queue, m)
                   \/ err' # "none" /\ UNCHANGED <<pb, d_queue, ongoing_tlc>>
<1>1. UNCHANGED <<d_ch, e_ch, drive>>
  BY DEF aAcquireBlock, aAcquirePerm, aUnchanged
<1>2. a_ch \in AMessage /\ a_ch.addr \in Blocks /\ a_ch.op \in {"AcquireBlock", "AcquirePerm"}
  BY aFireType, ZenonT(60) DEF aAcquireBlock, aAcquirePerm
<1>3. memory[a_ch.addr] \in Words /\ Fill(0) \in Words /\ d_sinks \subseteq Sinks
  BY <1>2, FillType DEF TypeOK, AdapterTypeOK
<1> DEFINE d == grantCap(a_ch.param)
<1>4. d \in Caps /\ probeCap(a_ch.param) \in Caps
  BY GrantCapType
<1>5. CASE aAcquireBlock
  <2>0. a_ch.op = "AcquireBlock"
    BY <1>5 DEF aAcquireBlock, aFire
  <2>1. PICK s \in d_sinks :
          /\ d_sinks' = d_sinks \ {s}
          /\ IF permOf(a_ch.addr) # "TIP"
               THEN /\ aRetrieve(MkCb("GrantData_cb", a_ch.addr, grantCap(a_ch.param), s, {}),
                                 probeCap(a_ch.param))
                    /\ UNCHANGED <<d_queue, ongoing_tlc>>
               ELSE /\ aAnswer(<<DataMsg("GrantData", a_ch.addr, grantCap(a_ch.param), s,
                                         "updatePerm")>>)
                    /\ ongoing_tlc' = [ongoing_tlc EXCEPT ![s] = a_ch.addr]
    BY <1>5 DEF aAcquireBlock
  <2>2. s \in Sinks
    BY <1>3
  <2>3. CASE permOf(a_ch.addr) # "TIP"
    <3> DEFINE cb == MkCb("GrantData_cb", a_ch.addr, d, s, {})
               r == MkReq(cb, probeCap(a_ch.param), a_ch.addr)
    <3>1. r \in Request /\ r.cb = cb
      BY <1>2, <1>4, <2>2, GrantCbType DEF MkReq
    <3>2. cb \in Callback /\ cb.kind = "GrantData_cb" /\ cb.sink = s /\ cb.addr = a_ch.addr
      BY <1>2, <1>4, <2>2 DEF MkCb, Callback
    <3>3. cb \in GrantCbs
      BY <3>2 DEF GrantCbs
    <3>4. pb' \in retrieveBlock(pb, r) /\ UNCHANGED <<d_queue, ongoing_tlc>>
      BY <2>1, <2>3 DEF aRetrieve
    <3> HIDE DEF cb, r
    <3>5. \A K \in SUBSET GrantCbs : GainCall(K, cb)
      BY <3>1, <3>4, GrantClasses, RetrieveGain
    <3>6. QED
      BY <1>1, <2>1, <2>3, <3>2, <3>3, <3>4, <3>5
  <2>4. CASE permOf(a_ch.addr) = "TIP"
    <3> DEFINE m == MkD("GrantData", a_ch.addr, d, s, memory[a_ch.addr], "updatePerm")
    <3>1. m \in DMessage /\ m.op = "GrantData" /\ m.sink = s /\ m.addr = a_ch.addr
          /\ m.data = memory[a_ch.addr] /\ m.param = d
      BY <1>2, <1>3, <1>4, <2>2, GrantDType DEF MkD
    <3>2. m \in GrantMsgs
      BY <3>1 DEF GrantMsgs
    <3>3. aAnswer(<<m>>) /\ ongoing_tlc' = [ongoing_tlc EXCEPT ![s] = a_ch.addr]
      BY <2>1, <2>4 DEF DataMsg
    <3> HIDE DEF m
    <3>4. d_queue' = Append(d_queue, m) /\ UNCHANGED pb
      BY <3>1, <3>3, AnswerAppend
    <3>5. QED
      BY <1>1, <2>0, <2>1, <2>4, <3>1, <3>2, <3>3, <3>4
  <2>5. QED
    BY <2>3, <2>4
<1>6. CASE aAcquirePerm
  <2>0. a_ch.op = "AcquirePerm"
    BY <1>6 DEF aAcquirePerm, aFire
  <2>1. PICK s \in d_sinks :
          /\ d_sinks' = d_sinks \ {s}
          /\ IF permOf(a_ch.addr) # "TIP"
               THEN err' = "no retrievePerm" /\ UNCHANGED <<pb, d_queue, ongoing_tlc>>
               ELSE /\ aAnswer(<<MkD("Grant", a_ch.addr, grantCap(a_ch.param), s, Fill(0),
                                     "updatePerm")>>)
                    /\ ongoing_tlc' = [ongoing_tlc EXCEPT ![s] = a_ch.addr]
    BY <1>6 DEF aAcquirePerm
  <2>2. s \in Sinks
    BY <1>3
  <2>3. CASE permOf(a_ch.addr) # "TIP"
    BY <1>1, <2>1, <2>3
  <2>4. CASE permOf(a_ch.addr) = "TIP"
    <3> DEFINE m == MkD("Grant", a_ch.addr, d, s, Fill(0), "updatePerm")
    <3>1. m \in DMessage /\ m.op = "Grant" /\ m.sink = s /\ m.addr = a_ch.addr /\ m.param = d
      BY <1>2, <1>3, <1>4, <2>2, GrantDType DEF MkD
    <3>2. m \in GrantMsgs
      BY <3>1 DEF GrantMsgs
    <3>3. aAnswer(<<m>>) /\ ongoing_tlc' = [ongoing_tlc EXCEPT ![s] = a_ch.addr]
      BY <2>1, <2>4
    <3> HIDE DEF m
    <3>4. d_queue' = Append(d_queue, m) /\ UNCHANGED pb
      BY <3>1, <3>3, AnswerAppend
    <3>5. QED
      BY <1>1, <2>0, <2>1, <2>4, <3>1, <3>2, <3>3, <3>4
  <2>5. QED
    BY <2>3, <2>4
<1>7. QED
  BY <1>5, <1>6

(* c_port_monitor, a ProbeAck: its callback is registered, and leaves the   *)
(* probe side; GrantData_cb queues the grant it carries.                    *)
LEMMA cGrant ==
    ASSUME TypeOK, ProbeSources, cProbeAck
    PROVE  LET cb == pb.c_map[c_ch.source]
           IN /\ cb \in Callback \ {NoCb} /\ UNCHANGED <<d_sinks, d_ch, e_ch>>
              /\ \A K \in SUBSET GrantCbs : LoseCall(K, cb)
              /\ cb \notin GrantCbs =>
                   UNCHANGED ongoing_tlc /\ \A M \in SUBSET GrantMsgs : KeepMsgs(M)
              /\ cb \in GrantCbs =>
                   /\ ongoing_tlc' = [ongoing_tlc EXCEPT ![cb.sink] = cb.addr]
                   /\ \E m \in GrantMsgs :
                        /\ m.op = "GrantData" /\ m.sink = cb.sink /\ m.addr = cb.addr
                        /\ m.data = cWrite[cb.addr] /\ d_queue' = Append(d_queue, m)
<1> DEFINE s == c_ch.source
           cb == pb.c_map[s]
<1>1. /\ c_ch \in CMessage /\ c_ch.op \in {"ProbeAck", "ProbeAckData"} /\ s \in BSrcs
      /\ UNCHANGED <<d_sinks, d_ch, e_ch>>
  BY cFireType, ProbeTypes DEF cProbeAck, cUnchanged
<1>2. pb \in ProbeSide /\ onC = {s} /\ SourcesOK(pb, onB \cup onC, {})
  BY <1>1, ProbeTypes DEF ProbeSources, onC
<1>3. cb \in Callback \ {NoCb}
  BY <1>1, <1>2 DEF ProbeSide, SourcesOK
<1>4. pb' \in ackSource(pb, s) /\ runCallback(cb, cWrite) /\ cWrite \in [Blocks -> Words]
  BY <1>1, cWriteType DEF cProbeAck
<1>5. \A K \in SUBSET GrantCbs : LoseCall(K, cb)
  BY <1>1, <1>2, <1>4, GrantClasses, AckCalls DEF LoseCall
<1> HIDE DEF cb
<1>6. ASSUME cb \notin GrantCbs
      PROVE  UNCHANGED ongoing_tlc /\ \A M \in SUBSET GrantMsgs : KeepMsgs(M)
  <2>1. cb.kind # "GrantData_cb" /\ cb \in Callback
    BY <1>3, <1>6 DEF GrantCbs
  <2>2. UNCHANGED ongoing_tlc
    BY <1>4, <2>1 DEF runCallback
  <2>3. CASE cb.kind \in {"AccessAckData_cb", "AccessAck_cb"}
    <3>1. cb.addr \in Blocks
      BY <1>3, <2>3 DEF Callback, NoCb, MkCb
    <3>2. cWrite[cb.addr] \in Words /\ Fill(0) \in Words
      BY <1>4, <3>1, FillType
    <3> DEFINE m == IF cb.kind = "AccessAckData_cb"
                      THEN MkD("AccessAckData", cb.addr, "toN", NoSink, cWrite[cb.addr], "none")
                      ELSE MkD("AccessAck", cb.addr, "toN", NoSink, Fill(0), "updateMem")
    <3>3. m \in DMessage /\ m.op \in {"AccessAckData", "AccessAck"}
      BY <3>1, <3>2, PlainDType DEF MkD
    <3>4. d_queue' = Append(d_queue, m)
      BY <1>4, <2>3 DEF runCallback
    <3>5. m \notin GrantMsgs
      BY <3>3 DEF GrantMsgs
    <3> HIDE DEF m
    <3>6. QED
      BY <2>2, <3>3, <3>4, <3>5, AppendGain
  <2>4. CASE cb.kind \notin {"AccessAckData_cb", "AccessAck_cb"}
    <3>1. UNCHANGED d_queue
      BY <1>4, <2>1, <2>4 DEF runCallback
    <3>2. QED
      BY <2>2, <3>1, KeepStep
  <2>5. QED
    BY <2>3, <2>4
<1>7. ASSUME cb \in GrantCbs
      PROVE  /\ ongoing_tlc' = [ongoing_tlc EXCEPT ![cb.sink] = cb.addr]
             /\ \E m \in GrantMsgs :
                  /\ m.op = "GrantData" /\ m.sink = cb.sink /\ m.addr = cb.addr
                  /\ m.data = cWrite[cb.addr] /\ d_queue' = Append(d_queue, m)
  <2>1. cb.kind = "GrantData_cb" /\ cb.addr \in Blocks /\ cb.param \in Caps /\ cb.sink \in Sinks
    BY <1>7 DEF GrantCbs, Callback, NoCb, MkCb
  <2>2. cWrite[cb.addr] \in Words
    BY <1>4, <2>1
  <2> DEFINE m == MkD("GrantData", cb.addr, cb.param, cb.sink, cWrite[cb.addr], "updatePerm")
  <2>3. m \in DMessage
    BY <2>1, <2>2, GrantDType
  <2>4. m.op = "GrantData" /\ m.sink = cb.sink /\ m.addr = cb.addr /\ m.data = cWrite[cb.addr]
    BY DEF MkD
  <2>5. d_queue' = Append(d_queue, m) /\ ongoing_tlc' = [ongoing_tlc EXCEPT ![cb.sink] = cb.addr]
    BY <1>4, <2>1 DEF runCallback
  <2>6. m \in GrantMsgs
    BY <2>3, <2>4 DEF GrantMsgs
  <2> HIDE DEF m
  <2>7. QED
    BY <2>4, <2>5, <2>6
<1>8. QED
  BY <1>1, <1>3, <1>5, <1>6, <1>7 DEF cb

(* The other steps of the adapter that neither make nor move a grant.       *)
LEMMA adapterQuiet ==
    ASSUME TypeOK, ProbeSources,
           cBeat \/ cRelease \/ bDrive \/ dataRetriever \/ hostInterface \/ hostUnknownBlock,
           NEW K \in SUBSET GrantCbs, NEW M \in SUBSET GrantMsgs
    PROVE  KeepCalls(K) /\ KeepMsgs(M) /\ UNCHANGED <<d_sinks, ongoing_tlc, d_ch, e_ch>>
<1>1. UNCHANGED <<d_sinks, ongoing_tlc, d_ch, e_ch>>
  BY DEF cBeat, cRelease, cUnchanged, bDrive, dataRetriever, hostInterface, hostUnknownBlock, chans
<1>2. NoCb \notin K /\ \A cb \in K : cb.kind # "probe_blocks_rec"
  BY GrantClasses
<1>3. CASE cBeat \/ hostUnknownBlock
  BY <1>1, <1>3, KeepStep DEF cBeat, hostUnknownBlock
<1>4. CASE cRelease
  <2> DEFINE m == MkD("ReleaseAck", c_ch.addr, "toN", NoSink, Fill(0), "none")
  <2>1. d_queue' = Append(d_queue, m) /\ UNCHANGED pb
    BY <1>4 DEF cRelease, PlainD
  <2>2. m \in DMessage
    BY <1>4, cFireType, FillType, PlainDType DEF cRelease
  <2>3. m.op = "ReleaseAck"
    BY DEF MkD
  <2>4. m \notin M
    BY <2>3 DEF GrantMsgs
  <2> HIDE DEF m
  <2>5. QED
    BY <1>1, <2>1, <2>2, <2>4, AppendGain, KeepStep
<1>5. CASE bDrive
  <2>1. pb' = [pb EXCEPT !.queue = Tail(@)] /\ UNCHANGED d_queue
    BY <1>5 DEF bDrive
  <2>2. pb'.events = pb.events /\ pb'.c_map = pb.c_map
    BY <2>1, ProbeTypes DEF ProbeSide
  <2>3. KeepCalls(K)
    BY <2>2 DEF KeepCalls, Calls, CallsOnce
  <2>4. QED
    BY <1>1, <2>1, <2>3, KeepStep
<1>6. CASE dataRetriever
  <2> DEFINE trunk == {b \in Blocks : block_perm[b] = "TRUNK"}
  <2>1. UNCHANGED d_queue /\ (UNCHANGED pb \/ pb' \in probeNext(pb, trunk))
    BY <1>6 DEF dataRetriever
  <2>2. CASE UNCHANGED pb
    BY <1>1, <2>1, <2>2, KeepStep
  <2>3. CASE pb' \in probeNext(pb, trunk)
    <3>1. KeepCalls(K)
      BY <1>2, <2>3, ProbeTypes, ProbeNextCalls DEF ProbeSources, KeepCalls
    <3>2. QED
      BY <1>1, <2>1, <3>1, KeepStep
  <2>4. QED
    BY <2>1, <2>2, <2>3
<1>7. CASE hostInterface
  <2> DEFINE r == MkReq(AckCb("enableProbe", host_probe.addr), "toN", host_probe.addr)
  <2>1. host_probe.addr \in Blocks /\ UNCHANGED d_queue
    BY <1>7 DEF hostInterface, hostReady, TypeOK, AdapterTypeOK
  <2>2. pb' \in retrieveBlock(pb, r)
    BY <1>7 DEF hostInterface
  <2>3. r \in Request
    BY <2>1, AckCbType DEF CbKinds, Caps
  <2>4. r.cb.kind = "enableProbe"
    BY DEF MkReq, AckCb, MkCb
  <2>5. r.cb \notin K
    BY <2>4 DEF GrantCbs
  <2> HIDE DEF r
  <2>6. QED
    BY <1>1, <1>2, <2>1, <2>2, <2>3, <2>5, RetrieveGain, KeepStep
<1>8. QED
  BY <1>3, <1>4, <1>5, <1>6, <1>7

(* d_port_driver takes the oldest message to the port, or dies.             *)
LEMMA dMoves ==
    ASSUME TypeOK, dDrive
    PROVE  /\ Head(d_queue) \in DMessage /\ d_ch = NoMsg
           /\ \A M : LoseMsg(M, Head(d_queue))
           /\ UNCHANGED <<pb, d_sinks, ongoing_tlc, e_ch, drive>>
           /\ \/ d_ch' = Head(d_queue) /\ Head(d_queue).cb # "updateMem" /\ UNCHANGED err
              \/ UNCHANGED d_ch /\ Head(d_queue).cb = "updateMem" /\ err' # "none"
<1>1. d_queue \in Seq(DMessage) /\ d_queue # <<>> /\ d_queue' = Tail(d_queue)
  BY DEF dDrive, TypeOK, AdapterTypeOK
<1>2. \A M : LoseMsg(M, Head(d_queue))
  BY <1>1, QueuesTail DEF LoseMsg
<1>3. QED
  BY <1>1, <1>2 DEF dDrive

-----------------------------------------------------------------------------
(* The life cycle of a sink.  SinkHeldOnce counts the places of a sink; the *)
(* invariant below says the same without counting: a free sink is nowhere,  *)
(* a taken one in one kind of place, and there once.                        *)
CallsFor(s) == {cb \in GrantCbs : cb.sink = s}
AnswersFor(s) == {m \in GrantMsgs : m.sink = s}
SinkAt(s, q, Q, d, e, free) ==
    LET onCalls == Calls(q, CallsFor(s))
        onQueue == Queues(Q, AnswersFor(s))
        onD == d \in AnswersFor(s)
        onE == e # NoMsg /\ e.sink = s
    IN /\ CallsOnce(q, CallsFor(s)) /\ QueuesOnce(Q, AnswersFor(s))
       /\ s \in free => ~onCalls /\ ~onQueue /\ ~onD /\ ~onE
       /\ s \notin free => onCalls \/ onQueue \/ onD \/ onE
       /\ onCalls => ~onQueue /\ ~onD /\ ~onE
       /\ onQueue => ~onD /\ ~onE
       /\ onD => ~onE
SinkInv == Running => \A s \in Sinks : SinkAt(s, pb, d_queue, d_ch, e_ch, d_sinks)

(* A grant on its way is recorded in ongoing_tlc under its sink, and a      *)
(* GrantAck is for a recorded transaction.                                  *)
Unrecorded(o) == {m \in GrantMsgs : o[m.sink] # m.addr}
OngoingAt(o, Q, d, e) ==
    /\ ~Queues(Q, Unrecorded(o)) /\ d \notin Unrecorded(o)
    /\ e # NoMsg => o[e.sink] # NoBlock
OngoingInv == Running => OngoingAt(ongoing_tlc, d_queue, d_ch, e_ch)

(* The classes of a sink are grant classes.                                 *)
LEMMA SinkClasses ==
    ASSUME NEW s PROVE CallsFor(s) \in SUBSET GrantCbs /\ AnswersFor(s) \in SUBSET GrantMsgs
BY DEF CallsFor, AnswersFor

(* Steps that neither make nor move a grant leave every sink where it is.   *)
LEMMA QuietSinks ==
    ASSUME SinkInv, Running, UNCHANGED <<d_sinks, d_ch, e_ch>>,
           \A K \in SUBSET GrantCbs : KeepCalls(K), \A M \in SUBSET GrantMsgs : KeepMsgs(M)
    PROVE  SinkInv'
<1> SUFFICES ASSUME NEW s \in Sinks PROVE SinkAt(s, pb', d_queue', d_ch', e_ch', d_sinks')
  BY DEF SinkInv
<1>1. SinkAt(s, pb, d_queue, d_ch, e_ch, d_sinks)
  BY DEF SinkInv
<1>2. KeepCalls(CallsFor(s)) /\ KeepMsgs(AnswersFor(s))
  BY SinkClasses
<1>3. QED
  BY <1>1, <1>2 DEF SinkAt, KeepCalls, KeepMsgs

(* An Acquire takes a free sink along.                                      *)
LEMMA AcquireSinks ==
    ASSUME TypeOK, ProbeSources, SinkInv, Running, aAcquireBlock \/ aAcquirePerm
    PROVE  SinkInv'
<1> SUFFICES ASSUME err' = "none", NEW s \in Sinks
             PROVE  SinkAt(s, pb', d_queue', d_ch', e_ch', d_sinks')
  BY DEF SinkInv, Running
<1>1. SinkAt(s, pb, d_queue, d_ch, e_ch, d_sinks)
  BY DEF SinkInv
<1>2. UNCHANGED <<d_ch, e_ch>>
  BY aGrant
<1>3. PICK t \in d_sinks :
        /\ d_sinks' = d_sinks \ {t}
        /\ \/ /\ UNCHANGED d_queue
              /\ \E cb \in GrantCbs : cb.sink = t /\ \A K \in SUBSET GrantCbs : GainCall(K, cb)
           \/ /\ UNCHANGED pb
              /\ \E m \in GrantMsgs : m.sink = t /\ d_queue' = Append(d_queue, m)
  BY aGrant
<1>4. CASE \E cb \in GrantCbs : cb.sink = t /\ UNCHANGED d_queue
                                /\ \A K \in SUBSET GrantCbs : GainCall(K, cb)
  <2>1. PICK cb \in GrantCbs : cb.sink = t /\ UNCHANGED d_queue
                               /\ \A K \in SUBSET GrantCbs : GainCall(K, cb)
    BY <1>4
  <2>2. GainCall(CallsFor(s), cb)
    BY <2>1, SinkClasses
  <2>3. cb \in CallsFor(s) <=> s = t
    BY <2>1 DEF CallsFor
  <2>4. CASE s = t
    BY <1>1, <1>2, <1>3, <2>1, <2>2, <2>3, <2>4 DEF SinkAt, GainCall
  <2>5. CASE s # t
    BY <1>1, <1>2, <1>3, <2>1, <2>2, <2>3, <2>5 DEF SinkAt, GainCall
  <2>6. QED
    BY <2>4, <2>5
<1>5. CASE \E m \in GrantMsgs : m.sink = t /\ UNCHANGED pb /\ d_queue' = Append(d_queue, m)
  <2>1. PICK m \in GrantMsgs : m.sink = t /\ UNCHANGED pb /\ d_queue' = Append(d_queue, m)
    BY <1>5
  <2>2. GainMsg(AnswersFor(s), m)
    BY <2>1, AppendGain DEF GrantMsgs
  <2>3. m \in AnswersFor(s) <=> s = t
    BY <2>1 DEF AnswersFor
  <2>4. CASE s = t
    BY <1>1, <1>2, <1>3, <2>1, <2>2, <2>3, <2>4 DEF SinkAt, GainMsg
  <2>5. CASE s # t
    BY <1>1, <1>2, <1>3, <2>1, <2>2, <2>3, <2>5 DEF SinkAt, GainMsg
  <2>6. QED
    BY <2>4, <2>5
<1>6. QED
  BY <1>3, <1>4, <1>5

(* GrantData_cb moves its sink from the callback to the D queue.            *)
LEMMA ProbeAckSinks ==
    ASSUME TypeOK, ProbeSources, SinkInv, Running, cProbeAck
    PROVE  SinkInv'
<1> DEFINE cb == pb.c_map[c_ch.source]
<1>1. UNCHANGED <<d_sinks, d_ch, e_ch>> /\ cb \in Callback /\ \A K \in SUBSET GrantCbs : LoseCall(K, cb)
  BY cGrant
<1>2. CASE cb \notin GrantCbs
  <2>1. \A M \in SUBSET GrantMsgs : KeepMsgs(M)
    BY <1>2, cGrant
  <2>2. \A K \in SUBSET GrantCbs : KeepCalls(K)
    BY <1>1, <1>2 DEF LoseCall, KeepCalls
  <2>3. QED
    BY <1>1, <2>1, <2>2, QuietSinks
<1>3. CASE cb \in GrantCbs
  <2>1. PICK m \in GrantMsgs : m.sink = cb.sink /\ d_queue' = Append(d_queue, m)
    BY <1>3, cGrant
  <2> HIDE DEF cb
  <2> SUFFICES ASSUME NEW s \in Sinks
               PROVE  SinkAt(s, pb', d_queue', d_ch', e_ch', d_sinks')
    BY DEF SinkInv
  <2>2. SinkAt(s, pb, d_queue, d_ch, e_ch, d_sinks)
    BY DEF SinkInv
  <2>3. LoseCall(CallsFor(s), cb)
    BY <1>1, SinkClasses
  <2>4. GainMsg(AnswersFor(s), m)
    BY <2>1, AppendGain DEF GrantMsgs
  <2>5. (cb \in CallsFor(s) <=> s = cb.sink) /\ (m \in AnswersFor(s) <=> s = cb.sink)
    BY <1>3, <2>1 DEF CallsFor, AnswersFor
  <2>6. CASE s = cb.sink
    BY <1>1, <2>2, <2>3, <2>4, <2>5, <2>6 DEF SinkAt, LoseCall, GainMsg
  <2>7. CASE s # cb.sink
    BY <1>1, <2>2, <2>3, <2>4, <2>5, <2>7 DEF SinkAt, LoseCall, GainMsg
  <2>8. QED
    BY <2>6, <2>7
<1>4. QED
  BY <1>2, <1>3

(* d_port_driver moves a sink from the D queue to the port.                 *)
LEMMA dDriveSinks ==
    ASSUME TypeOK, SinkInv, Running, dDrive
    PROVE  SinkInv'
<1> SUFFICES ASSUME err' = "none", NEW s \in Sinks
             PROVE  SinkAt(s, pb', d_queue', d_ch', e_ch', d_sinks')
  BY DEF SinkInv, Running
<1>1. SinkAt(s, pb, d_queue, d_ch, e_ch, d_sinks)
  BY DEF SinkInv
<1> DEFINE h == Head(d_queue)
<1>2. d_ch = NoMsg /\ d_ch' = h /\ UNCHANGED <<pb, d_sinks, e_ch>> /\ LoseMsg(AnswersFor(s), h)
  BY dMoves
<1>3. NoMsg \notin AnswersFor(s)
  BY NoMsgType DEF AnswersFor, GrantMsgs
<1> HIDE DEF h
<1>4. QED
  BY <1>1, <1>2, <1>3 DEF SinkAt, LoseMsg

(* The tile turns a grant into a GrantAck with the same sink.               *)
LEMMA tileGrantSinks ==
    ASSUME TypeOK, SinkInv, Running, tileGrantData \/ tileGrant
    PROVE  SinkInv'
<1> SUFFICES ASSUME NEW s \in Sinks
             PROVE  SinkAt(s, pb', d_queue', d_ch', e_ch', d_sinks')
  BY DEF SinkInv
<1>1. SinkAt(s, pb, d_queue, d_ch, e_ch, d_sinks)
  BY DEF SinkInv
<1>2. d_ch.op \in {"Grant", "GrantData"} /\ e_ch = NoMsg /\ d_ch' = NoMsg
      /\ e_ch' = [op |-> "GrantAck", sink |-> d_ch.sink] /\ UNCHANGED <<pb, d_queue, d_sinks>>
  BY DEF tileGrantData, tileGrant, adapterVars
<1>3. d_ch \in GrantMsgs
  BY <1>2 DEF TypeOK, PortTypeOK, NoMsg, GrantMsgs
<1>4. NoMsg \notin AnswersFor(s) /\ (d_ch \in AnswersFor(s) <=> d_ch.sink = s)
  BY <1>3, NoMsgType DEF AnswersFor, GrantMsgs
<1>5. e_ch'.sink = d_ch.sink /\ e_ch' # NoMsg
  BY <1>2 DEF NoMsg
<1>6. QED
  BY <1>1, <1>2, <1>4, <1>5 DEF SinkAt

(* The tile's other answers carry no sink.                                  *)
LEMMA tileAckSinks ==
    ASSUME TypeOK, SinkInv, Running, tileReleaseAck \/ tileAccessAck
    PROVE  SinkInv'
<1> SUFFICES ASSUME NEW s \in Sinks
             PROVE  SinkAt(s, pb', d_queue', d_ch', e_ch', d_sinks')
  BY DEF SinkInv
<1>1. SinkAt(s, pb, d_queue, d_ch, e_ch, d_sinks)
  BY DEF SinkInv
<1>2. d_ch.op \notin {"Grant", "GrantData"} /\ d_ch' = NoMsg /\ UNCHANGED <<pb, d_queue, d_sinks, e_ch>>
  BY DEF tileReleaseAck, tileAccessAck, adapterVars
<1>3. d_ch \notin AnswersFor(s) /\ NoMsg \notin AnswersFor(s)
  BY <1>2, NoMsgType DEF AnswersFor, GrantMsgs
<1>4. QED
  BY <1>1, <1>2, <1>3 DEF SinkAt

(* A GrantAck gives its sink back.                                          *)
LEMMA eGrantAckSinks ==
    ASSUME TypeOK, SinkInv, Running, eGrantAck
    PROVE  SinkInv'
<1> SUFFICES ASSUME NEW s \in Sinks
             PROVE  SinkAt(s, pb', d_queue', d_ch', e_ch', d_sinks')
  BY DEF SinkInv
<1>1. SinkAt(s, pb, d_queue, d_ch, e_ch, d_sinks)
  BY DEF SinkInv
<1>2. e_ch # NoMsg /\ e_ch' = NoMsg /\ d_sinks' = d_sinks \cup {e_ch.sink}
      /\ UNCHANGED <<pb, d_queue, d_ch>>
  BY DEF eGrantAck
<1>3. QED
  BY <1>1, <1>2 DEF SinkAt

(* A new run begins with every sink free.                                   *)
LEMMA StartSinks ==
    ASSUME NEW s \in Sinks
    PROVE  SinkAt(s, NoProbes, <<>>, NoMsg, NoMsg, Sinks)
<1>1. ~Calls(NoProbes, CallsFor(s)) /\ CallsOnce(NoProbes, CallsFor(s))
  BY NoProbesCalls, GrantClasses DEF CallsFor
<1>2. NoMsg \notin AnswersFor(s)
  BY NoMsgType DEF AnswersFor, GrantMsgs
<1>3. QED
  BY <1>1, <1>2, QueuesEmpty DEF SinkAt

(* Every step of the system keeps every sink in one place.                  *)
LEMMA NextSinks == TypeOK /\ ProbeSources /\ SinkInv /\ [Next]_vars => SinkInv'
<1> SUFFICES ASSUME TypeOK, ProbeSources, SinkInv, [Next]_vars PROVE SinkInv'
  OBVIOUS
<1>1. CASE aGet \/ aPutTip \/ aPutOwned \/ aAtomic \/ aIntent \/ aNoSink \/ aInterleaved
  <2>1. Running
    BY <1>1 DEF aGet, aPutTip, aPutOwned, aAtomic, aIntent, aNoSink, aInterleaved, aFire
  <2>2. UNCHANGED <<d_sinks, d_ch, e_ch>>
    BY <1>1, aQuiet
  <2>3. /\ \A K \in SUBSET GrantCbs : KeepCalls(K)
        /\ \A M \in SUBSET GrantMsgs : KeepMsgs(M)
    BY <1>1, aQuiet
  <2>4. QED
    BY <2>1, <2>2, <2>3, QuietSinks
<1>2. CASE aAcquireBlock \/ aAcquirePerm
  BY <1>2, AcquireSinks DEF aAcquireBlock, aAcquirePerm, aFire
<1>3. CASE cBeat \/ cRelease \/ bDrive \/ dataRetriever \/ hostInterface \/ hostUnknownBlock
  <2>1. Running
    BY <1>3 DEF cBeat, cRelease, bDrive, dataRetriever, hostInterface, hostUnknownBlock, cFire,
                hostReady
  <2>2. UNCHANGED <<d_sinks, d_ch, e_ch>>
    BY <1>3, adapterQuiet
  <2>3. /\ \A K \in SUBSET GrantCbs : KeepCalls(K)
        /\ \A M \in SUBSET GrantMsgs : KeepMsgs(M)
    BY <1>3, adapterQuiet
  <2>4. QED
    BY <2>1, <2>2, <2>3, QuietSinks
<1>4. CASE cProbeAck
  BY <1>4, ProbeAckSinks DEF cProbeAck, cFire
<1>5. CASE eGrantAck \/ dDrive
  BY <1>5, eGrantAckSinks, dDriveSinks DEF eGrantAck, dDrive
<1>6. CASE tileGrantData \/ tileGrant \/ tileReleaseAck \/ tileAccessAck
  BY <1>6, tileGrantSinks, tileAckSinks DEF tileGrantData, tileGrant, tileReleaseAck, tileAccessAck
<1>7. CASE \E p \in Programs : runTest(p)
  <2>1. /\ pb' = NoProbes /\ d_queue' = <<>> /\ d_ch' = NoMsg /\ e_ch' = NoMsg /\ d_sinks' = Sinks
    BY <1>7 DEF runTest, tileReset, adapterStart
  <2>2. QED
    BY <2>1, StartSinks DEF SinkInv
<1>8. CASE \/ \E b \in Blocks : tileStore(b) \/ tileRelease(b)
           \/ \E b \in Blocks, o \in {"AcquireBlock", "AcquirePerm"} : tileAcquire(b, o)
           \/ \E b \in Blocks, o \in UncachedOps : tileAccess(b, o)
           \/ tileProbe
  <2>1. UNCHANGED <<pb, d_queue, d_ch, e_ch, d_sinks, drive, err>>
    BY <1>8 DEF tileStore, tileRelease, tileAcquire, tileAccess, tileProbe, adapterVars, chans
  <2>2. QED
    BY <2>1 DEF SinkInv, Running
<1>9. CASE poll \/ timeout \/ stop \/ finish \/ ended \/ UNCHANGED vars
  <2>1. UNCHANGED <<pb, d_queue, d_ch, e_ch, d_sinks, drive, err>>
    BY <1>9 DEF poll, timeout, stop, finish, ended, vars, adapterVars, chans
  <2>2. QED
    BY <2>1 DEF SinkInv, Running
<1>10. QED
  BY <1>1, <1>2, <1>3, <1>4, <1>5, <1>6, <1>7, <1>8, <1>9 DEF Next

(* The invariant counts as SinkHeldOnce does.                               *)
LEMMA SinkCount == ASSUME TypeOK, SinkInv PROVE SinkHeldOnce
<1> SUFFICES ASSUME Running, NEW s \in Sinks
             PROVE  Cardinality(sinkHolders(s)) = (IF s \in d_sinks THEN 0 ELSE 1)
  BY DEF SinkHeldOnce
<1>1. SinkAt(s, pb, d_queue, d_ch, e_ch, d_sinks)
  BY DEF SinkInv
<1>2. \A p \in BSrcs : pb.c_map[p] \in Callback
  BY DEF TypeOK, AdapterTypeOK, ProbeSide
<1>3. \A i \in 1 .. Len(pb.events) : pb.events[i].cb \in Callback
  <2>1. pb.events \in Seq(Request)
    BY DEF TypeOK, AdapterTypeOK, ProbeSide
  <2>2. \A i \in 1 .. Len(pb.events) : pb.events[i] \in Request
    BY <2>1
  <2>3. QED
    BY <2>2 DEF Request
<1>4. \A i \in 1 .. Len(d_queue) : d_queue[i] \in DMessage
  BY DEF TypeOK, AdapterTypeOK
<1>5. \A p \in BSrcs : pb.c_map[p].sink = s <=> pb.c_map[p] \in CallsFor(s)
  BY <1>2, GrantClasses DEF CallsFor
<1>6. \A i \in 1 .. Len(pb.events) : pb.events[i].cb.sink = s <=> pb.events[i].cb \in CallsFor(s)
  BY <1>3, GrantClasses DEF CallsFor
<1>7. \A i \in 1 .. Len(d_queue) : d_queue[i].sink = s <=> d_queue[i] \in AnswersFor(s)
  BY <1>4, GrantClasses DEF AnswersFor
<1>8. (d_ch # NoMsg /\ d_ch.sink = s) <=> d_ch \in AnswersFor(s)
  BY GrantClasses, NoMsgType DEF TypeOK, PortTypeOK, AnswersFor, GrantMsgs
<1> DEFINE C == {<<"call", p>> : p \in {p \in BSrcs : pb.c_map[p].sink = s}}
           V == {<<"event", i>> : i \in {i \in 1 .. Len(pb.events) : pb.events[i].cb.sink = s}}
           Q == {<<"queue", i>> : i \in {i \in 1 .. Len(d_queue) : d_queue[i].sink = s}}
           D == {<<"D", 0>> : x \in {x \in {d_ch} : x # NoMsg /\ x.sink = s}}
           E == {<<"E", 0>> : x \in {x \in {e_ch} : x # NoMsg /\ x.sink = s}}
<1>9. sinkHolders(s) = C \cup V \cup Q \cup D \cup E
  BY DEF sinkHolders
<1>10. ~Calls(pb, CallsFor(s)) => C = {} /\ V = {}
  BY <1>5, <1>6 DEF Calls
<1>11. ~Queues(d_queue, AnswersFor(s)) => Q = {}
  BY <1>7 DEF Queues
<1>12. d_ch \notin AnswersFor(s) => D = {}
  BY <1>8
<1>13. ~(e_ch # NoMsg /\ e_ch.sink = s) => E = {}
  OBVIOUS
<1>14. ASSUME Calls(pb, CallsFor(s)) PROVE \E x : C \cup V = {x}
  <2>1. CallsOnce(pb, CallsFor(s))
    BY <1>1 DEF SinkAt
  <2>2. CASE \E p \in BSrcs : pb.c_map[p] \in CallsFor(s)
    <3>1. PICK p \in BSrcs : pb.c_map[p] \in CallsFor(s)
      BY <2>2
    <3>2. {t \in BSrcs : pb.c_map[t].sink = s} = {p}
      BY <1>5, <2>1, <3>1 DEF CallsOnce
    <3>3. {i \in 1 .. Len(pb.events) : pb.events[i].cb.sink = s} = {}
      BY <1>6, <2>1, <3>1 DEF CallsOnce
    <3>4. C = {<<"call", p>>} /\ V = {}
      BY <3>2, <3>3
    <3>5. QED
      BY <3>4
  <2>3. CASE \E i \in 1 .. Len(pb.events) : pb.events[i].cb \in CallsFor(s)
    <3>1. PICK i \in 1 .. Len(pb.events) : pb.events[i].cb \in CallsFor(s)
      BY <2>3
    <3>2. {j \in 1 .. Len(pb.events) : pb.events[j].cb.sink = s} = {i}
      BY <1>6, <2>1, <3>1 DEF CallsOnce
    <3>3. {t \in BSrcs : pb.c_map[t].sink = s} = {}
      BY <1>5, <2>1, <3>1 DEF CallsOnce
    <3>4. V = {<<"event", i>>} /\ C = {}
      BY <3>2, <3>3
    <3>5. QED
      BY <3>4
  <2>4. QED
    BY <1>14, <2>2, <2>3 DEF Calls
<1>15. ASSUME Queues(d_queue, AnswersFor(s)) PROVE \E x : Q = {x}
  <2>1. PICK i \in 1 .. Len(d_queue) : d_queue[i] \in AnswersFor(s)
    BY <1>15 DEF Queues
  <2>2. {j \in 1 .. Len(d_queue) : d_queue[j].sink = s} = {i}
    BY <1>1, <1>7, <2>1 DEF SinkAt, QueuesOnce
  <2>3. Q = {<<"queue", i>>}
    BY <2>2
  <2>4. QED
    BY <2>3
<1>16. d_ch \in AnswersFor(s) => D = {<<"D", 0>>}
  BY <1>8
<1>17. (e_ch # NoMsg /\ e_ch.sink = s) => E = {<<"E", 0>>}
  OBVIOUS
<1> HIDE DEF C, V, Q, D, E
<1>18. CASE s \in d_sinks
  <2>1. sinkHolders(s) = {}
    BY <1>1, <1>9, <1>10, <1>11, <1>12, <1>13, <1>18 DEF SinkAt
  <2>2. QED
    BY <1>18, <2>1, FS_EmptySet
<1>19. CASE s \notin d_sinks
  <2>1. \E x : sinkHolders(s) = {x}
    <3>1. CASE Calls(pb, CallsFor(s))
      BY <1>1, <1>9, <1>11, <1>12, <1>13, <1>14, <3>1 DEF SinkAt
    <3>2. CASE Queues(d_queue, AnswersFor(s))
      BY <1>1, <1>9, <1>10, <1>12, <1>13, <1>15, <3>2 DEF SinkAt
    <3>3. CASE d_ch \in AnswersFor(s)
      BY <1>1, <1>9, <1>10, <1>11, <1>13, <1>16, <3>3 DEF SinkAt
    <3>4. CASE e_ch # NoMsg /\ e_ch.sink = s
      BY <1>1, <1>9, <1>10, <1>11, <1>12, <1>17, <3>4 DEF SinkAt
    <3>5. QED
      BY <1>1, <1>19, <3>1, <3>2, <3>3, <3>4 DEF SinkAt
  <2>2. QED
    BY <1>19, <2>1, FS_Singleton
<1>20. QED
  BY <1>18, <1>19

(* In every reachable state of a run a grant sink (d_sinks) is free, or     *)
(* held by exactly one callback, reservation, queued grant, grant on the D  *)
(* port or GrantAck.                                                        *)
THEOREM SinksHeldOnce == Spec => []SinkHeldOnce
<1>1. Init => SinkInv
  BY DEF Init, adapterInit, SinkInv, Running
<1>2. TypeOK /\ SinkInv => SinkHeldOnce
  BY SinkCount
<1>3. QED
  BY <1>1, <1>2, NextSinks, TypeCorrect, ProbeSourcesSound, PTL DEF Spec

-----------------------------------------------------------------------------
(* The transactions of ongoing_tlc.  A record is changed only while its     *)
(* sink is in no message: that is what SinkInv is needed for.               *)
LEMMA RecordChange ==
    ASSUME NEW o \in [Sinks -> Blocks \cup {NoBlock}], NEW s \in Sinks, NEW b,
           NEW Q, ~Queues(Q, AnswersFor(s)), NEW d, d \notin AnswersFor(s)
    PROVE  LET n == [o EXCEPT ![s] = b]
           IN /\ Queues(Q, Unrecorded(n)) => Queues(Q, Unrecorded(o))
              /\ d \in Unrecorded(n) => d \in Unrecorded(o)
<1> DEFINE n == [o EXCEPT ![s] = b]
<1>1. \A m : m \in Unrecorded(n) /\ m \notin AnswersFor(s) => m \in Unrecorded(o)
  <2> SUFFICES ASSUME NEW m, m \in Unrecorded(n), m \notin AnswersFor(s)
               PROVE  m \in Unrecorded(o)
    OBVIOUS
  <2>1. m \in GrantMsgs /\ m.sink # s /\ n[m.sink] # m.addr
    BY DEF Unrecorded, AnswersFor
  <2>2. m.sink \in Sinks
    BY <2>1, GrantClasses DEF GrantMsgs
  <2>3. n[m.sink] = o[m.sink]
    BY <2>1, <2>2
  <2>4. QED
    BY <2>1, <2>3 DEF Unrecorded
<1> HIDE DEF n
<1>2. QED
  BY <1>1 DEF Queues, n

(* A grant that is queued is recorded under its sink.                       *)
LEMMA RecordNew ==
    ASSUME NEW o \in [Sinks -> Blocks \cup {NoBlock}], NEW s \in Sinks, NEW m \in GrantMsgs,
           m.sink = s
    PROVE  m \notin Unrecorded([o EXCEPT ![s] = m.addr])
BY DEF Unrecorded

(* Steps that neither make nor move a grant keep the records.               *)
LEMMA QuietOngoing ==
    ASSUME OngoingInv, Running, UNCHANGED <<ongoing_tlc, d_ch, e_ch>>,
           \A M \in SUBSET GrantMsgs : KeepMsgs(M)
    PROVE  OngoingInv'
<1>1. Unrecorded(ongoing_tlc) \in SUBSET GrantMsgs
  BY DEF Unrecorded
<1>2. KeepMsgs(Unrecorded(ongoing_tlc))
  BY <1>1
<1>3. OngoingAt(ongoing_tlc, d_queue, d_ch, e_ch)
  BY DEF OngoingInv
<1>4. OngoingAt(ongoing_tlc, d_queue', d_ch, e_ch)
  BY <1>2, <1>3 DEF OngoingAt, KeepMsgs
<1>5. QED
  BY <1>4 DEF OngoingInv

(* A step that queues a grant for the sink it holds.                        *)
LEMMA GrantOngoing ==
    ASSUME TypeOK, OngoingInv, Running, NEW s \in Sinks, NEW m \in GrantMsgs, m.sink = s,
           d_queue' = Append(d_queue, m), ongoing_tlc' = [ongoing_tlc EXCEPT ![s] = m.addr],
           UNCHANGED <<d_ch, e_ch>>, ~Queues(d_queue, AnswersFor(s)), d_ch \notin AnswersFor(s),
           ~(e_ch # NoMsg /\ e_ch.sink = s)
    PROVE  OngoingInv'
<1> DEFINE o == ongoing_tlc
           n == [o EXCEPT ![s] = m.addr]
<1>1. OngoingAt(o, d_queue, d_ch, e_ch) /\ o \in [Sinks -> Blocks \cup {NoBlock}]
  BY DEF OngoingInv, TypeOK, AdapterTypeOK
<1>2. m \in DMessage /\ m \notin Unrecorded(n)
  BY <1>1, RecordNew DEF GrantMsgs
<1>3. ~Queues(d_queue, Unrecorded(n)) /\ d_ch \notin Unrecorded(n)
  BY <1>1, RecordChange DEF OngoingAt
<1>4. e_ch # NoMsg => e_ch.sink \in Sinks
  BY DEF TypeOK, PortTypeOK, EMessage
<1>5. e_ch # NoMsg => n[e_ch.sink] # NoBlock
  BY <1>1, <1>4 DEF OngoingAt
<1> HIDE DEF n
<1>6. ~Queues(d_queue', Unrecorded(n))
  BY <1>2, <1>3, AppendGain DEF GainMsg
<1>7. OngoingAt(n, d_queue', d_ch', e_ch')
  BY <1>3, <1>5, <1>6 DEF OngoingAt
<1>8. ongoing_tlc' = n
  BY DEF n
<1>9. QED
  BY <1>7, <1>8 DEF OngoingInv

(* Every step keeps the records of the grants on their way.                 *)
LEMMA NextOngoing ==
    TypeOK /\ ProbeSources /\ SinkInv /\ OngoingInv /\ [Next]_vars => OngoingInv'
<1> SUFFICES ASSUME TypeOK, ProbeSources, SinkInv, OngoingInv, [Next]_vars PROVE OngoingInv'
  OBVIOUS
<1>0. ongoing_tlc \in [Sinks -> Blocks \cup {NoBlock}] /\ d_sinks \subseteq Sinks
  BY DEF TypeOK, AdapterTypeOK
<1>1. CASE aGet \/ aPutTip \/ aPutOwned \/ aAtomic \/ aIntent \/ aNoSink \/ aInterleaved
  <2>1. Running
    BY <1>1 DEF aGet, aPutTip, aPutOwned, aAtomic, aIntent, aNoSink, aInterleaved, aFire
  <2>2. UNCHANGED <<ongoing_tlc, d_ch, e_ch>> /\ \A M \in SUBSET GrantMsgs : KeepMsgs(M)
    BY <1>1, aQuiet
  <2>3. QED
    BY <2>1, <2>2, QuietOngoing
<1>2. CASE aAcquireBlock \/ aAcquirePerm
  <2>1. Running
    BY <1>2 DEF aAcquireBlock, aAcquirePerm, aFire
  <2>2. PICK s \in d_sinks :
          \/ UNCHANGED <<d_queue, ongoing_tlc>>
          \/ /\ ongoing_tlc' = [ongoing_tlc EXCEPT ![s] = a_ch.addr]
             /\ \E m \in GrantMsgs : /\ m.sink = s /\ m.addr = a_ch.addr
                                     /\ d_queue' = Append(d_queue, m)
    BY <1>2, aGrant
  <2>3. UNCHANGED <<d_ch, e_ch>>
    BY <1>2, aGrant
  <2>4. CASE UNCHANGED <<d_queue, ongoing_tlc>>
    BY <2>1, <2>3, <2>4, KeepStep, QuietOngoing
  <2>5. s \in Sinks /\ SinkAt(s, pb, d_queue, d_ch, e_ch, d_sinks)
    BY <1>0, <2>1 DEF SinkInv
  <2>6. ~Queues(d_queue, AnswersFor(s)) /\ d_ch \notin AnswersFor(s)
        /\ ~(e_ch # NoMsg /\ e_ch.sink = s)
    BY <2>5 DEF SinkAt
  <2>7. QED
    BY <2>1, <2>2, <2>3, <2>4, <2>5, <2>6, GrantOngoing
<1>3. CASE cBeat \/ cRelease \/ bDrive \/ dataRetriever \/ hostInterface \/ hostUnknownBlock
  <2>1. Running
    BY <1>3 DEF cBeat, cRelease, bDrive, dataRetriever, hostInterface, hostUnknownBlock, cFire,
                hostReady
  <2>2. UNCHANGED <<ongoing_tlc, d_ch, e_ch>> /\ \A M \in SUBSET GrantMsgs : KeepMsgs(M)
    BY <1>3, adapterQuiet
  <2>3. QED
    BY <2>1, <2>2, QuietOngoing
<1>4. CASE cProbeAck
  <2> DEFINE cb == pb.c_map[c_ch.source]
  <2>1. Running /\ UNCHANGED <<d_ch, e_ch>>
    BY <1>4, cGrant DEF cProbeAck, cFire
  <2>2. CASE cb \notin GrantCbs
    BY <1>4, <2>1, <2>2, cGrant, QuietOngoing
  <2>3. CASE cb \in GrantCbs
    <3>1. /\ ongoing_tlc' = [ongoing_tlc EXCEPT ![cb.sink] = cb.addr]
          /\ \E m \in GrantMsgs : /\ m.sink = cb.sink /\ m.addr = cb.addr
                                  /\ d_queue' = Append(d_queue, m)
      BY <1>4, <2>3, cGrant
    <3>2. cb.sink \in Sinks
      BY <2>3, GrantClasses DEF GrantCbs
    <3>3. SinkAt(cb.sink, pb, d_queue, d_ch, e_ch, d_sinks)
      BY <2>1, <3>2 DEF SinkInv
    <3>4. cb \in CallsFor(cb.sink) /\ LoseCall(CallsFor(cb.sink), cb)
      BY <1>4, <2>3, cGrant, SinkClasses DEF CallsFor
    <3> HIDE DEF cb
    <3>5. Calls(pb, CallsFor(cb.sink))
      BY <3>4 DEF LoseCall
    <3>6. ~Queues(d_queue, AnswersFor(cb.sink)) /\ d_ch \notin AnswersFor(cb.sink)
          /\ ~(e_ch # NoMsg /\ e_ch.sink = cb.sink)
      BY <3>3, <3>5 DEF SinkAt
    <3>7. QED
      BY <2>1, <3>1, <3>2, <3>6, GrantOngoing
  <2>4. QED
    BY <2>2, <2>3
<1>5. CASE dDrive
  <2>1. Running /\ OngoingAt(ongoing_tlc, d_queue, d_ch, e_ch)
    BY <1>5 DEF dDrive, OngoingInv
  <2> DEFINE h == Head(d_queue)
  <2>2. /\ LoseMsg(Unrecorded(ongoing_tlc), h) /\ UNCHANGED <<ongoing_tlc, e_ch>>
        /\ d_ch' = h \/ UNCHANGED d_ch
    BY <1>5, dMoves
  <2> HIDE DEF h
  <2>3. OngoingAt(ongoing_tlc, d_queue', d_ch', e_ch')
    BY <2>1, <2>2 DEF OngoingAt, LoseMsg
  <2>4. QED
    BY <2>2, <2>3 DEF OngoingInv
<1>6. CASE eGrantAck
  <2> DEFINE s == e_ch.sink
             n == [ongoing_tlc EXCEPT ![s] = NoBlock]
  <2>1. /\ Running /\ e_ch # NoMsg /\ e_ch' = NoMsg /\ ongoing_tlc' = n
        /\ UNCHANGED <<d_queue, d_ch>>
    BY <1>6 DEF eGrantAck, popTransaction
  <2>2. s \in Sinks
    BY <2>1 DEF TypeOK, PortTypeOK, EMessage
  <2>3. OngoingAt(ongoing_tlc, d_queue, d_ch, e_ch) /\ SinkAt(s, pb, d_queue, d_ch, e_ch, d_sinks)
    BY <2>1, <2>2 DEF OngoingInv, SinkInv
  <2>4. ~Queues(d_queue, AnswersFor(s)) /\ d_ch \notin AnswersFor(s)
    BY <2>1, <2>3 DEF SinkAt
  <2>5. ~Queues(d_queue, Unrecorded(n)) /\ d_ch \notin Unrecorded(n)
    BY <1>0, <2>2, <2>3, <2>4, RecordChange DEF OngoingAt
  <2> HIDE DEF n
  <2>6. OngoingAt(n, d_queue', d_ch', e_ch')
    BY <2>1, <2>5 DEF OngoingAt
  <2>7. QED
    BY <2>1, <2>6 DEF OngoingInv
<1>7. CASE tileGrantData \/ tileGrant
  <2>1. /\ Running /\ d_ch.op \in {"Grant", "GrantData"} /\ d_ch' = NoMsg
        /\ e_ch' = [op |-> "GrantAck", sink |-> d_ch.sink] /\ UNCHANGED <<ongoing_tlc, d_queue>>
    BY <1>7 DEF tileGrantData, tileGrant, adapterVars
  <2>2. d_ch \in GrantMsgs /\ d_ch.addr \in Blocks
    BY <2>1 DEF TypeOK, PortTypeOK, NoMsg, GrantMsgs, DMessage
  <2>3. OngoingAt(ongoing_tlc, d_queue, d_ch, e_ch)
    BY <2>1 DEF OngoingInv
  <2>4. ongoing_tlc[d_ch.sink] = d_ch.addr
    BY <2>2, <2>3 DEF OngoingAt, Unrecorded
  <2>5. ongoing_tlc[e_ch'.sink] # NoBlock
    BY <2>1, <2>2, <2>4, BlocksAssumption
  <2>6. NoMsg \notin Unrecorded(ongoing_tlc)
    BY NoMsgType DEF Unrecorded, GrantMsgs
  <2>7. OngoingAt(ongoing_tlc, d_queue', d_ch', e_ch')
    BY <2>1, <2>3, <2>5, <2>6 DEF OngoingAt
  <2>8. QED
    BY <2>1, <2>7 DEF OngoingInv
<1>8. CASE tileReleaseAck \/ tileAccessAck
  <2>1. Running /\ d_ch' = NoMsg /\ UNCHANGED <<ongoing_tlc, d_queue, e_ch>>
    BY <1>8 DEF tileReleaseAck, tileAccessAck, adapterVars
  <2>2. NoMsg \notin Unrecorded(ongoing_tlc)
    BY NoMsgType DEF Unrecorded, GrantMsgs
  <2>3. OngoingAt(ongoing_tlc, d_queue', d_ch', e_ch')
    BY <2>1, <2>2 DEF OngoingInv, OngoingAt
  <2>4. QED
    BY <2>1, <2>3 DEF OngoingInv
<1>9. CASE \E p \in Programs : runTest(p)
  <2>1. d_queue' = <<>> /\ d_ch' = NoMsg /\ e_ch' = NoMsg
    BY <1>9 DEF runTest, tileReset, adapterStart
  <2>2. OngoingAt(ongoing_tlc', <<>>, NoMsg, NoMsg)
    BY NoMsgType, QueuesEmpty DEF OngoingAt, Unrecorded, GrantMsgs
  <2>3. QED
    BY <2>1, <2>2 DEF OngoingInv
<1>10. CASE \/ \E b \in Blocks : tileStore(b) \/ tileRelease(b)
            \/ \E b \in Blocks, o \in {"AcquireBlock", "AcquirePerm"} : tileAcquire(b, o)
            \/ \E b \in Blocks, o \in UncachedOps : tileAccess(b, o)
            \/ tileProbe
  <2>1. UNCHANGED <<ongoing_tlc, d_queue, d_ch, e_ch, drive, err>>
    BY <1>10 DEF tileStore, tileRelease, tileAcquire, tileAccess, tileProbe, adapterVars, chans
  <2>2. QED
    BY <2>1 DEF OngoingInv, Running
<1>11. CASE poll \/ timeout \/ stop \/ finish \/ ended \/ UNCHANGED vars
  <2>1. UNCHANGED <<ongoing_tlc, d_queue, d_ch, e_ch, drive, err>>
    BY <1>11 DEF poll, timeout, stop, finish, ended, vars, adapterVars, chans
  <2>2. QED
    BY <2>1 DEF OngoingInv, Running
<1>12. QED
  BY <1>1, <1>2, <1>3, <1>4, <1>5, <1>6, <1>7, <1>8, <1>9, <1>10, <1>11 DEF Next

-----------------------------------------------------------------------------
(* The bookkeeping assertions.  With the probe sources accounted for, the   *)
(* probe side raises nothing; with the sinks accounted for, nor does the    *)
(* monitor of E.                                                            *)
LEMMA ProbeErrorNone == ProbeSources' => probeError(pb') = "none"
BY DEF ProbeSources, SourcesOK, probeError

(* No step of the system fails a bookkeeping assertion.                     *)
LEMMA NextBooks ==
    TypeOK /\ ProbeSources' /\ SinkInv /\ OngoingInv /\ BookkeepingSound /\ [Next]_vars
      => BookkeepingSound'
<1> SUFFICES ASSUME TypeOK, ProbeSources', SinkInv, OngoingInv, BookkeepingSound, [Next]_vars
             PROVE  BookkeepingSound'
  OBVIOUS
<1>0. probeError(pb') = "none"
  BY ProbeErrorNone
<1>1. CASE UNCHANGED err
  BY <1>1 DEF BookkeepingSound
<1>2. CASE err' \in {"none", "A interleaved", "burst_data unbound", "d_sinks is empty",
                     "no retrievePerm", "param unbound", "updateMem", "host_interface"}
  BY <1>2 DEF BookkeepingSound
<1>3. ASSUME NEW cb, NEW cap, aRetrieve(cb, cap) PROVE err' = "none"
  BY <1>0, <1>3 DEF aRetrieve
<1>4. CASE aGet \/ aPutTip \/ aPutOwned \/ aAtomic \/ aIntent
  <2>1. CASE aGet
    BY <1>1, <1>2, <1>3, <2>1 DEF aGet, aAnswer
  <2>2. CASE aPutTip
    BY <1>1, <2>2 DEF aPutTip, aAnswer
  <2>3. CASE aPutOwned
    BY <1>2, <1>3, <2>3 DEF aPutOwned
  <2>4. CASE aAtomic
    BY <1>1, <1>2, <1>3, <2>4 DEF aAtomic, aAnswer
  <2>5. CASE aIntent
    BY <1>1, <2>5 DEF aIntent, aAnswer
  <2>6. QED
    BY <1>4, <2>1, <2>2, <2>3, <2>4, <2>5
<1>5. CASE aNoSink \/ aInterleaved
  BY <1>2, <1>5 DEF aNoSink, aInterleaved
<1>6. CASE aAcquireBlock
  BY <1>1, <1>2, <1>3, <1>6 DEF aAcquireBlock, aAnswer
<1>7. CASE aAcquirePerm
  BY <1>1, <1>2, <1>7 DEF aAcquirePerm, aAnswer
<1>8. CASE cBeat \/ cRelease \/ bDrive
  BY <1>1, <1>8 DEF cBeat, cRelease, bDrive
<1>9. CASE cProbeAck
  <2>1. err' = "param unbound" \/ err' = probeError(pb')
    BY <1>9 DEF cProbeAck
  <2>2. QED
    BY <1>0, <1>2, <2>1
<1>10. CASE eGrantAck
  <2>1. Running /\ e_ch # NoMsg
    BY <1>10 DEF eGrantAck
  <2>2. e_ch.sink \in Sinks
    BY <2>1 DEF TypeOK, PortTypeOK, EMessage
  <2>3. e_ch.sink \notin d_sinks
    BY <2>1, <2>2 DEF SinkInv, SinkAt
  <2>4. ongoing_tlc[e_ch.sink] # NoBlock
    BY <2>1 DEF OngoingInv, OngoingAt
  <2>5. err' = "none"
    BY <1>10, <2>3, <2>4 DEF eGrantAck
  <2>6. QED
    BY <1>2, <2>5
<1>11. CASE dDrive
  BY <1>1, <1>2, <1>11 DEF dDrive
<1>12. CASE dataRetriever \/ hostInterface \/ hostUnknownBlock
  <2>1. CASE dataRetriever
    <3>1. UNCHANGED err \/ err' = probeError(pb')
      BY <2>1 DEF dataRetriever
    <3>2. QED
      BY <1>0, <1>1, <1>2, <3>1
  <2>2. CASE hostInterface
    <3>1. err' = probeError(pb')
      BY <2>2 DEF hostInterface
    <3>2. QED
      BY <1>0, <1>2, <3>1
  <2>3. CASE hostUnknownBlock
    BY <1>2, <2>3 DEF hostUnknownBlock
  <2>4. QED
    BY <1>12, <2>1, <2>2, <2>3
<1>13. CASE \/ \E b \in Blocks : tileStore(b) \/ tileRelease(b)
            \/ \E b \in Blocks, o \in {"AcquireBlock", "AcquirePerm"} : tileAcquire(b, o)
            \/ \E b \in Blocks, o \in UncachedOps : tileAccess(b, o)
            \/ tileProbe \/ tileGrantData \/ tileGrant \/ tileReleaseAck \/ tileAccessAck
  BY <1>1, <1>13 DEF tileStore, tileRelease, tileAcquire, tileAccess, tileProbe, tileGrantData,
                     tileGrant, tileReleaseAck, tileAccessAck, adapterVars
<1>14. CASE (\E p \in Programs : runTest(p)) \/ poll \/ timeout \/ stop \/ finish \/ ended
            \/ UNCHANGED vars
  BY <1>1, <1>14 DEF runTest, adapterStart, poll, timeout, stop, finish, ended, vars, adapterVars
<1>15. QED
  BY <1>4, <1>5, <1>6, <1>7, <1>8, <1>9, <1>10, <1>11, <1>12, <1>13, <1>14 DEF Next

(* Whatever requests the tile mixes, however many sinks, sources, blocks    *)
(* and runs there are: no callback slot is overwritten, no probe source and *)
(* no sink is released twice, no GrantAck is for an unknown transaction.    *)
THEOREM BooksAreSound == Spec => []BookkeepingSound
<1>1. Init => SinkInv /\ OngoingInv /\ BookkeepingSound
  BY DEF Init, adapterInit, SinkInv, OngoingInv, BookkeepingSound, Running
<1>2. QED
  BY <1>1, NextSinks, NextOngoing, NextBooks, TypeCorrect, ProbeSourcesSound, PTL DEF Spec

-----------------------------------------------------------------------------
(* A host probe begins with host_interface and nothing else.                *)
LEMMA HostProbeStep ==
    ASSUME TypeOK, [Next]_vars, host_probe.en, ~host_probe'.en PROVE hostInterface
<1>1. CASE UNCHANGED host_probe
  BY <1>1
<1>2. CASE aGet \/ aPutTip \/ aPutOwned \/ aAtomic \/ aIntent \/ aNoSink \/ aInterleaved
           \/ aAcquireBlock \/ aAcquirePerm
  BY <1>1, <1>2 DEF aGet, aPutTip, aPutOwned, aAtomic, aIntent, aNoSink, aInterleaved,
                    aAcquireBlock, aAcquirePerm, aUnchanged
<1>3. CASE cBeat \/ cRelease \/ bDrive \/ eGrantAck \/ dDrive \/ dataRetriever \/ hostUnknownBlock
  BY <1>1, <1>3 DEF cBeat, cRelease, bDrive, eGrantAck, dDrive, dataRetriever, hostUnknownBlock
<1>4. CASE cProbeAck
  <2>1. UNCHANGED host_probe \/ host_probe' = [host_probe EXCEPT !.en = TRUE]
    BY <1>4 DEF cProbeAck, runCallback
  <2>2. QED
    BY <2>1 DEF TypeOK, AdapterTypeOK
<1>5. CASE \/ \E b \in Blocks : tileStore(b) \/ tileRelease(b)
           \/ \E b \in Blocks, o \in {"AcquireBlock", "AcquirePerm"} : tileAcquire(b, o)
           \/ \E b \in Blocks, o \in UncachedOps : tileAccess(b, o)
           \/ tileProbe \/ tileGrantData \/ tileGrant \/ tileReleaseAck \/ tileAccessAck
  BY <1>1, <1>5 DEF tileStore, tileRelease, tileAcquire, tileAccess, tileProbe, tileGrantData,
                    tileGrant, tileReleaseAck, tileAccessAck, adapterVars
<1>6. CASE (\E p \in Programs : runTest(p)) \/ timeout \/ stop \/ finish \/ ended \/ UNCHANGED vars
  BY <1>1, <1>6 DEF runTest, adapterStart, timeout, stop, finish, ended, vars, adapterVars
<1>7. CASE poll
  <2>1. UNCHANGED host_probe \/ host_probe' = [host_probe EXCEPT !.probe = TRUE, !.addr = tohost]
    BY <1>7 DEF poll, adapterProbe
  <2>2. QED
    BY <2>1 DEF TypeOK, AdapterTypeOK
<1>8. QED
  BY <1>2, <1>3, <1>4, <1>5, <1>6, <1>7 DEF Next

(* When it does, no grant of the block is queued, on the port or waiting    *)
(* for its GrantAck: each is in ongoing_tlc, which host_interface consults. *)
LEMMA HostProbeGuard ==
    ASSUME TohostAligned, TypeOK, OngoingInv, hostInterface
    PROVE  ~grantPending(host_probe.addr)
<1> DEFINE b == host_probe.addr
<1>1. Running /\ \A s \in Sinks : ongoing_tlc[s] # b
  BY DEF hostInterface, hostReady
<1>2. OngoingAt(ongoing_tlc, d_queue, d_ch, e_ch)
  BY <1>1 DEF OngoingInv
<1>3. ASSUME NEW m \in GrantMsgs, m \notin Unrecorded(ongoing_tlc) PROVE m.addr # b
  BY <1>1, <1>3, GrantClasses DEF Unrecorded, GrantMsgs
<1> HIDE DEF b
<1>4. ASSUME NEW i \in 1 .. Len(d_queue), d_queue[i].op \in {"Grant", "GrantData"}
      PROVE  d_queue[i].addr # b
  <2>1. d_queue[i] \in GrantMsgs
    BY <1>4 DEF GrantMsgs, TypeOK, AdapterTypeOK
  <2>2. d_queue[i] \notin Unrecorded(ongoing_tlc)
    BY <1>2 DEF OngoingAt, Queues
  <2>3. QED
    BY <1>3, <2>1, <2>2
<1>5. ASSUME d_ch # NoMsg, d_ch.op \in {"Grant", "GrantData"} PROVE d_ch.addr # b
  <2>1. d_ch \in GrantMsgs
    BY <1>5 DEF GrantMsgs, TypeOK, PortTypeOK
  <2>2. QED
    BY <1>2, <1>3, <2>1 DEF OngoingAt
<1>6. e_ch # NoMsg => ongoing_tlc[e_ch.sink] # b
  BY <1>1 DEF TypeOK, PortTypeOK, EMessage
<1>7. \A m \in dMessages : m.op \in {"Grant", "GrantData"} => m.addr # b
  BY <1>4, <1>5 DEF dMessages
<1>8. QED
  BY <1>6, <1>7 DEF grantPending, b

(* When tohost is the first address of a block, as the linker script of the *)
(* test programs places it, host_interface never probes a block while a     *)
(* grant of it is under way, in any run and for any mix of requests.        *)
THEOREM HostProbesOutsideGrants ==
    ASSUME TohostAligned PROVE Spec => HostProbeOutsideGrant
<1>1. Init => SinkInv /\ OngoingInv
  BY DEF Init, adapterInit, SinkInv, OngoingInv, Running
<1>2. TypeOK /\ OngoingInv /\ [Next]_vars
        => [(host_probe.en /\ ~host_probe'.en) => ~grantPending(host_probe.addr)]_vars
  BY HostProbeStep, HostProbeGuard
<1>3. QED
  BY <1>1, <1>2, NextSinks, NextOngoing, TypeCorrect, ProbeSourcesSound, PTL
     DEF Spec, HostProbeOutsideGrant

=============================================================================
