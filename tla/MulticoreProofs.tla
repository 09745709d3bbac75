-------------------------- MODULE MulticoreProofs --------------------------
(***************************************************************************)
(* What holds of the multicore sessions for every number of cores, batches  *)
(* and iterations, every set of coverage points, and any number of crashes  *)
(* and restarts.  The inductive invariant has five named parts; each rests  *)
(* on the ones before it.                                                   *)
(***************************************************************************)
EXTENDS Multicore, FiniteSetTheorems, WellFoundedInduction, TLAPS

(* Slots.  A process owns its slot from fork until checkState gives the     *)
(* slot back; proc_pid_arr records exactly the owners, and processes are    *)
(* forked in order.                                                         *)
Owner(p) == proc[p].at \notin {"none", "reaped"} \/ (pc = "check" /\ ended = p)
SlotInv ==
    /\ \A p \in Pids : (proc[p].at = "none") <=> (p > forked)
    /\ pc # "aborted" => \A p \in Pids : Owner(p) => pid_arr[proc[p].slot] = p
    /\ pc # "aborted" =>
         \A s \in Slots : pid_arr[s] # 0 => Owner(pid_arr[s]) /\ proc[pid_arr[s]].slot = s
    /\ pc = "loop" => \E s \in Slots : pid_arr[s] = 0
    /\ pc = "check" => ended \in Pids /\ proc[ended].at = "reaped"
    /\ pc \in {"over", "aborted"} => \A p \in Pids : proc[p].at \in {"none", "reaped"}

(* Semaphores.  A semaphore at 1 is held by nobody, and nobody shares one.  *)
MutexInv ==
    \A x \in Sems :
        /\ sem[x] = 1 => \A p \in Pids : x \notin holds(p)
        /\ \A p, q \in Pids : x \in holds(p) /\ x \in holds(q) => p = q

(* proc_states.  Between the two halves of set_state the array is as it was *)
(* read; from then on a process that has not failed is truthfully reported. *)
Reported(p) ==
    \/ proc[p].at \in {"merge", "truncate", "store"}
    \/ proc[p].at = "exit" /\ proc[p].status = 0
    \/ pc = "check" /\ ended = p
StatesInv ==
    /\ \A p \in Pids : proc[p].at = "setV" =>
         proc[p].snap = [states EXCEPT ![proc[p].slot] = proc[p].stop]
    /\ pc # "aborted" => \A p \in Pids : Reported(p) => states[proc[p].slot] = proc[p].stop
    /\ pc = "check" => proc[ended].status = 0
    /\ StopNoticed

(* Records, up to the first killed session.  An id in work is the counter's *)
(* value while the semaphore is held and below it afterwards; ids below the *)
(* counter are saved, about to be saved, or those of a process that died.   *)
Writing(p, k) == proc[p].at = "write" /\ kind(p) = k
Saving(p, k) == proc[p].at = "save" /\ kind(p) = k
Died == \E p \in Pids : proc[p].at = "exit" /\ proc[p].status = 1
RecordsOK(k) ==
    /\ saved[k] \subseteq 0 .. num[k] - 1
    /\ \A p \in Pids : Writing(p, k) => proc[p].id = num[k]
    /\ \A p \in Pids : Saving(p, k) => proc[p].id < num[k] /\ proc[p].id \notin saved[k]
    /\ \A p, q \in Pids : Saving(p, k) /\ Saving(q, k) /\ proc[p].id = proc[q].id => p = q
    /\ Died \/ \A i \in 0 .. num[k] - 1 :
                   i \in saved[k] \/ \E p \in Pids : Saving(p, k) /\ proc[p].id = i
RecordInv ==
    /\ overwritten => killed
    /\ pc = "aborted" => killed
    /\ ~killed => \A k \in Nums : RecordsOK(k)

(* Coverage.  What is logged is covered by the merged map, or by the        *)
(* process that has it in hand.                                             *)
CoverageInv ==
    /\ ~covmap.torn => cov_log <= Cardinality(covmap.points)
    /\ \A p \in Pids : proc[p].at \in {"truncate", "store"} => cov_log <= Cardinality(proc[p].cov)

-----------------------------------------------------------------------------
(* Facts about the constants and the operators of the model.                *)

(* There is a first slot, and process numbers are positive.                 *)
LEMMA Consts ==
    /\ Batches * Cores \in Nat /\ Cores \in Nat \ {0} /\ Iters \in Nat
    /\ Slots \subseteq Nat /\ 0 \in Slots /\ Pids \subseteq Nat \ {0} /\ 0 \notin Pids
BY CoresAssumption DEF Slots, Pids

(* A set of coverage points has a size.                                     *)
LEMMA CovSize ==
    ASSUME NEW c \in SUBSET Points
    PROVE  IsFiniteSet(c) /\ Cardinality(c) \in Nat
BY PointsAssumption, FS_Subset, FS_CardinalityType

(* or-ing a map into another never shrinks it.                              *)
LEMMA CovUnion ==
    ASSUME NEW c \in SUBSET Points, NEW d \in SUBSET Points
    PROVE  Cardinality(c) <= Cardinality(c \cup d) /\ Cardinality(d) <= Cardinality(c \cup d)
<1>1. c \cup d \in SUBSET Points /\ IsFiniteSet(c \cup d)
  BY CovSize
<1>2. c \in SUBSET (c \cup d) /\ d \in SUBSET (c \cup d)
  OBVIOUS
<1>3. QED
  BY <1>1, <1>2, FS_Subset

(* proc_pid_arr.index(0) returns the first free slot when there is one.     *)
LEMMA FreeSlot ==
    ASSUME \E s \in Slots : pid_arr[s] = 0
    PROVE  freeSlot \in Slots /\ pid_arr[freeSlot] = 0
<1> DEFINE T == {s \in Slots : pid_arr[s] = 0}
<1>1. T \subseteq Nat /\ T # {}
  BY Consts
<1>2. PICK s \in T : \A t \in T : ~(<<t, s>> \in OpToRel(<, Nat))
  BY <1>1, NatLessThanWellFounded, WFMin
<1>3. \A t \in T : ~(t < s)
  BY <1>1, <1>2 DEF OpToRel
<1>4. s \in Slots /\ pid_arr[s] = 0 /\ \A t \in 0 .. s - 1 : pid_arr[t] # 0
  BY <1>3, CoresAssumption DEF Slots
<1>5. QED
  BY <1>4 DEF freeSlot

(* A process just forked, and one that does not exist, have the shape of a  *)
(* process.                                                                 *)
LEMMA NewProcessType ==
    ASSUME NEW s \in Slots
    PROVE  NewProcess(s) \in Process
BY DEF NewProcess, Process, Places, Codes

(* A pid that was not started yet has a process record of the type.         *)
LEMMA NoProcessType == NoProcess \in Process /\ NoProcess.at = "none"
BY NewProcessType, Consts DEF NoProcess, NewProcess, Process, Places

(* What is left of an ended process keeps its slot and its stop code.       *)
LEMMA RemainsType ==
    ASSUME NEW p \in Pids, proc[p] \in Process, NEW l \in Places, NEW st \in {0, 1}
    PROVE  /\ remains(p, l, st) \in Process
           /\ remains(p, l, st).at = l /\ remains(p, l, st).status = st
           /\ remains(p, l, st).slot = proc[p].slot /\ remains(p, l, st).stop = proc[p].stop
<1>1. proc[p].slot \in Slots /\ proc[p].stop \in Codes
  BY DEF Process
<1>2. NewProcess(proc[p].slot) \in Process
  BY <1>1, NewProcessType
<1>3. QED
  BY <1>1, <1>2 DEF remains, NewProcess, Process

-----------------------------------------------------------------------------
(* Steps of a process.                                                      *)

(* A set of records still to be saved is never empty, and names its kind.   *)
LEMMA KindType ==
    ASSUME NEW p \in Pids
    PROVE  kind(p) \in Nums /\ kind(p) \in Sems
BY DEF kind, Nums, Sems

(* A step of a process, or of its timer, changes that process alone among   *)
(* the processes; it does not change its slot, and does not reap it.        *)
ProcessStep(p) ==
    /\ UNCHANGED <<parentVars, session, killed>>
    /\ proc[p].at \notin {"none", "exit", "reaped"}
    /\ proc' = [proc EXCEPT ![p] = proc'[p]]
    /\ proc'[p] \in Process /\ proc'[p].slot = proc[p].slot
    /\ proc'[p].at \notin {"none", "reaped"}

(* A step of a child changes its own record only, keeps its slot and never reaps it. *)
LEMMA ChildStep ==
    ASSUME TypeOK, NEW p \in Pids, Child(p) \/ lateTimer(p) \/ crash(p)
    PROVE  ProcessStep(p)
<1> USE DEF ProcessStep, parentVars
<1>1. /\ proc \in [Pids -> Process] /\ proc[p] \in Process
      /\ num \in [Nums -> Nat] /\ states \in [Slots -> Codes]
      /\ covmap.points \in SUBSET Points
      /\ covmap.torn \in BOOLEAN
      /\ proc[p].it + 1 \in Nat
      /\ {"ERR_COMPILE", "ERR_ISA_ASSERT", "ERR_RTL_SIM"} \subseteq Codes /\ "NORMAL" \in Codes
  BY DEF TypeOK, Codes, Process
<1> USE DEF history
<1>2. CASE boot(p)
  BY <1>1, <1>2 DEF boot, step, goto, Process, Places
<1>3. CASE covRestore(p)
  BY <1>1, <1>3 DEF covRestore, step, goto, Process, Places
<1>4. CASE testDropped(p)
  BY <1>1, <1>4 DEF testDropped, step, goto, Process, Places
<1>5. CASE testsOver(p)
  BY <1>1, <1>5 DEF testsOver, step, goto, Process, Places
<1>6. ASSUME NEW code \in {"ERR_COMPILE", "ERR_ISA_ASSERT", "ERR_RTL_SIM"}, testFails(p, code)
      PROVE  ProcessStep(p)
  BY <1>1, <1>6 DEF testFails, step, goto, Process, Places
<1>7. ASSUME NEW m \in BOOLEAN, NEW new \in SUBSET Points, testDone(p, m, new)
      PROVE  ProcessStep(p)
  <2> DEFINE cov == proc[p].cov \cup new
             todo == {n \in Nums : \/ n = "mNum" /\ m
                                   \/ n = "cNum" /\ Cardinality(cov) > proc[p].last}
  <2>1. cov \in SUBSET Points /\ Cardinality(cov) \in Nat /\ todo \in SUBSET Nums
    BY <1>1, CovSize DEF Process
  <2>2. /\ proc[p].at = "test" /\ UNCHANGED <<parentVars, history>>
        /\ proc' = [proc EXCEPT ![p] =
                [goto(p, IF todo = {} THEN "test" ELSE "read")
                     EXCEPT !.it = @ + 1, !.cov = cov, !.todo = todo,
                            !.last = IF "cNum" \in todo THEN Cardinality(cov) ELSE @]]
    BY <1>7 DEF testDone, step
  <2> HIDE DEF cov, todo
  <2>3. PICK l \in {"test", "read"}, last \in Nat :
          proc' = [proc EXCEPT ![p] = [proc[p] EXCEPT !.at = l, !.it = @ + 1, !.cov = cov,
                                                      !.todo = todo, !.last = last]]
    <3>1. PICK l \in {"test", "read"} : l = IF todo = {} THEN "test" ELSE "read"
      OBVIOUS
    <3>2. PICK last \in Nat : last = IF "cNum" \in todo THEN Cardinality(cov) ELSE proc[p].last
      BY <1>1, <2>1 DEF Process
    <3>3. QED
      BY <1>1, <2>2, <3>1, <3>2 DEF goto, Process
  <2> DEFINE new_p == [proc[p] EXCEPT !.at = l, !.it = @ + 1, !.cov = cov, !.todo = todo,
                                      !.last = last]
  <2>4. new_p \in Process /\ new_p.slot = proc[p].slot /\ new_p.at = l
    <3>1. proc[p].it \in Nat /\ l \in Places
      BY <1>1 DEF Process, Places
    <3>2. QED
      BY <1>1, <2>1, <3>1 DEF Process
  <2>5. proc' = [proc EXCEPT ![p] = new_p]
    BY <2>3
  <2> HIDE DEF new_p
  <2>6. QED
    BY <1>1, <2>2, <2>4, <2>5
<1>8. CASE readNum(p)
  BY <1>1, <1>8, KindType DEF readNum, step, goto, Process, Places
<1>9. CASE writeNum(p)
  BY <1>1, <1>9 DEF writeNum, step, goto, Process, Places
<1>10. CASE saveRecord(p)
  BY <1>1, <1>10 DEF saveRecord, step, goto, Process, Places
<1>11. CASE saveErr(p)
  BY <1>1, <1>11 DEF saveErr, step, goto, Process, Places
<1>12. CASE setStateRead(p)
  BY <1>1, <1>12 DEF setStateRead, step, goto, Process, Places
<1>13. CASE setStateWrite(p)
  BY <1>1, <1>13 DEF setStateWrite, step, goto, Process, Places
<1>14. CASE merge(p)
  BY <1>1, <1>14 DEF merge, step, goto, Process, Places
<1>15. CASE truncate(p)
  BY <1>1, <1>15 DEF truncate, step, goto, Process, Places
<1>16. "exit" \in Places /\ {0, 1} \subseteq {0, 1}
  BY DEF Places
<1>17. CASE storeCovmap(p)
  BY <1>1, <1>16, <1>17, RemainsType DEF storeCovmap, step
<1>18. ASSUME NEW status \in {0, 1}, mergeTorn(p, status)
       PROVE  ProcessStep(p)
  BY <1>1, <1>16, <1>18, RemainsType DEF mergeTorn
<1>19. CASE lateTimer(p)
  BY <1>1, <1>19 DEF lateTimer, step, goto, Process, Places, Codes
<1>20. CASE crash(p)
  BY <1>1, <1>16, <1>20, RemainsType DEF crash, Live
<1>21. QED
  BY <1>2, <1>3, <1>4, <1>5, <1>6, <1>7, <1>8, <1>9, <1>10, <1>11, <1>12, <1>13, <1>14, <1>15,
     <1>17, <1>18, <1>19, <1>20 DEF Child

(* A step of a process leaves the semaphores alone, takes one it then       *)
(* holds, or gives back the one it held; a crash keeps what it held.        *)
SemStep(p) ==
    \/ UNCHANGED sem /\ holds(p)' \subseteq holds(p)
    \/ \E x \in Sems : /\ sem[x] > 0 /\ sem' = [sem EXCEPT ![x] = @ - 1]
                       /\ holds(p)' \subseteq {x}
    \/ \E x \in Sems : /\ holds(p) = {x} /\ sem' = [sem EXCEPT ![x] = @ + 1]
                       /\ holds(p)' = {}

(* A child takes a semaphore that is free and gives back only one that it holds. *)
LEMMA ChildSems ==
    ASSUME TypeOK, NEW p \in Pids, Child(p) \/ lateTimer(p) \/ crash(p)
    PROVE  SemStep(p)
<1>1. proc \in [Pids -> Process] /\ proc[p] \in Process
  BY DEF TypeOK
<1> USE <1>1 DEF SemStep
<1>2. CASE boot(p)
  BY <1>2 DEF boot, Probe, step, goto, holds, Process
<1>3. CASE covRestore(p)
  BY <1>3 DEF covRestore, step, goto, holds, shared, Process
<1>4. CASE testDropped(p)
  BY <1>4 DEF testDropped, step, holds, shared, Process
<1>5. CASE testsOver(p)
  BY <1>5 DEF testsOver, step, goto, holds, shared, Process
<1>6. ASSUME NEW code \in {"ERR_COMPILE", "ERR_ISA_ASSERT", "ERR_RTL_SIM"}, testFails(p, code)
      PROVE  SemStep(p)
  BY <1>6 DEF testFails, step, goto, holds, shared, Process
<1>7. ASSUME NEW m \in BOOLEAN, NEW new \in SUBSET Points, testDone(p, m, new)
      PROVE  SemStep(p)
  <2>1. proc'[p].at \in {"test", "read"} /\ UNCHANGED sem
    BY <1>7 DEF testDone, step, goto, shared, Process
  <2>2. QED
    BY <2>1 DEF holds
<1>8. CASE readNum(p)
  <2>1. kind(p)' = kind(p) /\ proc'[p].at = "write"
    BY <1>8 DEF readNum, step, goto, kind, Process
  <2>2. holds(p)' = {kind(p)}
    BY <2>1 DEF holds
  <2>3. sem[kind(p)] > 0 /\ sem' = [sem EXCEPT ![kind(p)] = @ - 1]
    BY <1>8 DEF readNum, P
  <2>4. QED
    BY <2>2, <2>3, KindType
<1>9. CASE writeNum(p)
  <2>1. proc[p].at = "write" /\ proc'[p].at = "save"
    BY <1>9 DEF writeNum, step, goto, Process
  <2>2. holds(p) = {kind(p)} /\ holds(p)' = {}
    BY <2>1 DEF holds
  <2>3. sem' = [sem EXCEPT ![kind(p)] = @ + 1]
    BY <1>9 DEF writeNum, V
  <2>4. QED
    BY <2>2, <2>3, KindType
<1>10. CASE saveRecord(p)
  <2>1. proc'[p].at \in {"test", "read"} /\ UNCHANGED sem
    BY <1>10 DEF saveRecord, step, goto, Process
  <2>2. QED
    BY <2>1 DEF holds
<1>11. CASE saveErr(p)
  BY <1>11 DEF saveErr, step, goto, holds, shared, Process
<1>12. CASE setStateRead(p)
  <2>1. proc'[p].at = "setV" /\ sem["state"] > 0 /\ sem' = [sem EXCEPT !["state"] = @ - 1]
    BY <1>12 DEF setStateRead, P, step, goto, Process
  <2>2. "state" \in Sems /\ holds(p)' = {"state"}
    BY <2>1 DEF Sems, holds
  <2>3. QED
    BY <2>1, <2>2
<1>13. CASE setStateWrite(p)
  <2>1. /\ proc[p].at = "setV" /\ proc'[p].at = "merge"
        /\ sem' = [sem EXCEPT !["state"] = @ + 1]
    BY <1>13 DEF setStateWrite, V, step, goto, Process
  <2>2. "state" \in Sems /\ holds(p) = {"state"} /\ holds(p)' = {}
    BY <2>1 DEF Sems, holds
  <2>3. QED
    BY <2>1, <2>2
<1>14. CASE merge(p)
  <2>1. proc'[p].at = "truncate" /\ sem["covMap"] > 0 /\ sem' = [sem EXCEPT !["covMap"] = @ - 1]
    BY <1>14 DEF merge, P, step, goto, Process
  <2>2. "covMap" \in Sems /\ holds(p)' = {"covMap"}
    BY <2>1 DEF Sems, holds
  <2>3. QED
    BY <2>1, <2>2
<1>15. CASE truncate(p)
  <2>1. proc[p].at = "truncate" /\ proc'[p].at = "store" /\ UNCHANGED sem
    BY <1>15 DEF truncate, step, goto, Process
  <2>2. QED
    BY <2>1 DEF holds
<1>16. "exit" \in Places
  BY DEF Places
<1>17. CASE storeCovmap(p)
  <2>1. proc[p].at = "store" /\ proc'[p].at = "exit" /\ sem' = [sem EXCEPT !["covMap"] = @ + 1]
    BY <1>16, <1>17, RemainsType DEF storeCovmap, V, step
  <2>2. "covMap" \in Sems /\ holds(p) = {"covMap"} /\ holds(p)' = {}
    BY <2>1 DEF Sems, holds
  <2>3. QED
    BY <2>1, <2>2
<1>18. ASSUME NEW status \in {0, 1}, mergeTorn(p, status)
       PROVE  SemStep(p)
  <2>1. proc'[p].at = "exit" /\ sem["covMap"] > 0 /\ sem' = [sem EXCEPT !["covMap"] = @ - 1]
    BY <1>16, <1>18, RemainsType DEF mergeTorn, P
  <2>2. "covMap" \in Sems /\ holds(p)' = {}
    BY <2>1 DEF Sems, holds
  <2>3. QED
    BY <2>1, <2>2
<1>19. CASE lateTimer(p)
  <2>1. /\ proc'[p].at = proc[p].at /\ proc'[p].todo = proc[p].todo /\ UNCHANGED sem
    BY <1>19 DEF lateTimer, step, shared, Process
  <2>2. QED
    BY <2>1 DEF holds, kind
<1>20. CASE crash(p)
  <2>1. proc'[p].at = "exit" /\ UNCHANGED sem
    BY <1>16, <1>20, RemainsType DEF crash, shared
  <2>2. QED
    BY <2>1 DEF holds
<1>21. QED
  BY <1>2, <1>3, <1>4, <1>5, <1>6, <1>7, <1>8, <1>9, <1>10, <1>11, <1>12, <1>13, <1>14, <1>15,
     <1>17, <1>18, <1>19, <1>20 DEF Child

(* Mutual exclusion survives such a step, and the semaphores stay binary.   *)
LEMMA ChildMutex ==
    ASSUME TypeOK, MutexInv, NEW p \in Pids, ProcessStep(p), SemStep(p)
    PROVE  MutexInv' /\ sem' \in [Sems -> {0, 1}]
<1>1. \A q \in Pids \ {p} : holds(q)' = holds(q)
  <2> SUFFICES ASSUME NEW q \in Pids \ {p}
               PROVE  holds(q)' = holds(q)
    OBVIOUS
  <2>1. proc'[q] = proc[q]
    BY DEF ProcessStep, TypeOK
  <2>2. QED
    BY <2>1 DEF holds, kind
<1>2. sem \in [Sems -> {0, 1}]
  BY DEF TypeOK
<1>3. CASE UNCHANGED sem /\ holds(p)' \subseteq holds(p)
  BY <1>1, <1>2, <1>3 DEF MutexInv
<1>4. ASSUME NEW x \in Sems, sem[x] > 0, sem' = [sem EXCEPT ![x] = @ - 1], holds(p)' \subseteq {x}
      PROVE  MutexInv' /\ sem' \in [Sems -> {0, 1}]
  <2>1. sem[x] = 1 /\ sem'[x] = 0 /\ \A y \in Sems \ {x} : sem'[y] = sem[y]
    BY <1>2, <1>4
  <2>2. sem' \in [Sems -> {0, 1}]
    BY <1>2, <1>4, <2>1
  <2>3. \A q \in Pids : x \notin holds(q)
    BY <2>1 DEF MutexInv
  <2>4. ASSUME NEW y \in Sems
        PROVE  /\ sem'[y] = 1 => \A q \in Pids : y \notin holds(q)'
               /\ \A q, r \in Pids : y \in holds(q)' /\ y \in holds(r)' => q = r
    <3>1. CASE y = x
      BY <1>1, <1>4, <2>1, <2>3, <3>1
    <3>2. CASE y # x
      BY <1>1, <1>4, <2>1, <3>2 DEF MutexInv
    <3>3. QED
      BY <3>1, <3>2
  <2>5. QED
    BY <2>2, <2>4 DEF MutexInv
<1>5. ASSUME NEW x \in Sems, holds(p) = {x}, sem' = [sem EXCEPT ![x] = @ + 1], holds(p)' = {}
      PROVE  MutexInv' /\ sem' \in [Sems -> {0, 1}]
  <2>1. sem[x] = 0 /\ \A q \in Pids \ {p} : x \notin holds(q)
    BY <1>2, <1>5 DEF MutexInv
  <2>2. sem'[x] = 1 /\ \A y \in Sems \ {x} : sem'[y] = sem[y]
    BY <1>2, <1>5, <2>1
  <2>3. sem' \in [Sems -> {0, 1}]
    BY <1>2, <1>5, <2>2
  <2>4. ASSUME NEW y \in Sems
        PROVE  /\ sem'[y] = 1 => \A q \in Pids : y \notin holds(q)'
               /\ \A q, r \in Pids : y \in holds(q)' /\ y \in holds(r)' => q = r
    <3>1. CASE y = x
      BY <1>1, <1>5, <2>1, <2>2, <3>1
    <3>2. CASE y # x
      BY <1>1, <1>5, <2>2, <3>2 DEF MutexInv
    <3>3. QED
      BY <3>1, <3>2
  <2>5. QED
    BY <2>3, <2>4 DEF MutexInv
<1>6. QED
  BY <1>3, <1>4, <1>5 DEF SemStep

(* The counters, the array of states, the records and the coverage map stay *)
(* of their types.                                                          *)
SharedTypes ==
    /\ num \in [Nums -> Nat] /\ states \in [Slots -> Codes]
    /\ saved \in [Nums -> SUBSET Nat] /\ \A k \in Nums : IsFiniteSet(saved[k])
    /\ overwritten \in BOOLEAN
    /\ covmap \in [points : SUBSET Points, torn : BOOLEAN] /\ cov_log \in Nat
    /\ lost \subseteq Sems /\ crashes \in Nat

(* What a child writes to the shared values keeps their types.              *)
LEMMA ChildShared ==
    ASSUME TypeOK, NEW p \in Pids, Child(p) \/ lateTimer(p) \/ crash(p)
    PROVE  SharedTypes'
<1>1. proc[p] \in Process /\ SharedTypes
  BY DEF TypeOK, SharedTypes
<1>2. CASE UNCHANGED <<shared, lost, crashes>>
  BY <1>1, <1>2 DEF shared, SharedTypes
<1>3. CASE UNCHANGED <<num, states, saved, overwritten, covmap, cov_log, lost, crashes>>
  BY <1>1, <1>3 DEF SharedTypes
<1>4. CASE boot(p) \/ covRestore(p) \/ testDropped(p) \/ testsOver(p) \/ saveErr(p) \/ lateTimer(p)
  BY <1>2, <1>3, <1>4 DEF boot, covRestore, testDropped, testsOver, saveErr, lateTimer, step,
                          history
<1>5. ASSUME NEW code, testFails(p, code)
      PROVE  SharedTypes'
  BY <1>2, <1>5 DEF testFails, step, history
<1>6. ASSUME NEW m, NEW new, testDone(p, m, new)
      PROVE  SharedTypes'
  BY <1>2, <1>6 DEF testDone, step, history
<1>7. CASE readNum(p) \/ setStateRead(p) \/ merge(p)
  BY <1>3, <1>7 DEF readNum, setStateRead, merge, step, history
<1>8. CASE writeNum(p)
  <2>1. num' = [num EXCEPT ![kind(p)] = proc[p].id + 1] /\ proc[p].id + 1 \in Nat
    BY <1>1, <1>8 DEF writeNum, Process
  <2>2. UNCHANGED <<states, saved, overwritten, covmap, cov_log, lost, crashes>>
    BY <1>8 DEF writeNum, step, history
  <2>3. QED
    BY <1>1, <2>1, <2>2 DEF SharedTypes
<1>9. CASE saveRecord(p)
  <2>1. /\ saved' = [saved EXCEPT ![kind(p)] = @ \cup {proc[p].id}] /\ proc[p].id \in Nat
        /\ overwritten' \in BOOLEAN
    BY <1>1, <1>9 DEF saveRecord, Process
  <2>2. UNCHANGED <<num, states, covmap, cov_log, lost, crashes>>
    BY <1>9 DEF saveRecord, step, history
  <2>3. saved' \in [Nums -> SUBSET Nat]
    BY <1>1, <2>1, KindType DEF SharedTypes
  <2>4. ASSUME NEW k \in Nums
        PROVE  IsFiniteSet(saved'[k])
    <3>1. IsFiniteSet(saved[k])
      BY <1>1 DEF SharedTypes
    <3>2. saved'[k] = saved[k] \/ saved'[k] = saved[k] \cup {proc[p].id}
      BY <1>1, <2>1 DEF SharedTypes
    <3>3. QED
      BY <3>1, <3>2, FS_AddElement
  <2>5. QED
    BY <1>1, <2>1, <2>2, <2>3, <2>4 DEF SharedTypes
<1>10. CASE setStateWrite(p)
  <2>1. states' = proc[p].snap /\ proc[p].snap \in [Slots -> Codes]
    BY <1>1, <1>10 DEF setStateWrite, Process
  <2>2. UNCHANGED <<num, saved, overwritten, covmap, cov_log, lost, crashes>>
    BY <1>10 DEF setStateWrite, step, history
  <2>3. QED
    BY <1>1, <2>1, <2>2 DEF SharedTypes
<1>11. CASE truncate(p)
  <2>1. covmap' = [points |-> {}, torn |-> TRUE]
    BY <1>11 DEF truncate
  <2>2. UNCHANGED <<num, states, saved, overwritten, cov_log, lost, crashes>>
    BY <1>11 DEF truncate, step, history
  <2>3. QED
    BY <1>1, <2>1, <2>2 DEF SharedTypes
<1>12. CASE storeCovmap(p)
  <2>1. /\ covmap' = [points |-> proc[p].cov, torn |-> FALSE]
        /\ cov_log' = Cardinality(proc[p].cov)
        /\ UNCHANGED <<num, states, saved, overwritten, lost, crashes>>
    BY <1>12 DEF storeCovmap, step, history
  <2>2. proc[p].cov \in SUBSET Points /\ Cardinality(proc[p].cov) \in Nat
    BY <1>1, CovSize DEF Process
  <2>3. QED
    BY <1>1, <2>1, <2>2 DEF SharedTypes
<1>13. ASSUME NEW status, mergeTorn(p, status)
       PROVE  SharedTypes'
  BY <1>1, <1>13 DEF mergeTorn, SharedTypes, Sems
<1>14. CASE crash(p)
  <2>1. holds(p) \subseteq Sems
    BY KindType DEF holds, Sems
  <2>2. lost' = lost \cup holds(p) /\ crashes' = crashes + 1 /\ UNCHANGED shared
    BY <1>14 DEF crash
  <2>3. QED
    BY <1>1, <2>1, <2>2 DEF SharedTypes, shared
<1>15. QED
  BY <1>4, <1>5, <1>6, <1>7, <1>8, <1>9, <1>10, <1>11, <1>12, <1>13, <1>14 DEF Child

(* Slots stay with their processes.                                         *)
LEMMA ChildSlots ==
    ASSUME TypeOK, SlotInv, NEW p \in Pids, ProcessStep(p)
    PROVE  SlotInv'
<1>1. /\ \A q \in Pids \ {p} : proc'[q] = proc[q]
      /\ proc'[p].slot = proc[p].slot /\ proc'[p].at \notin {"none", "reaped"}
      /\ proc[p].at \notin {"none", "reaped"}
      /\ UNCHANGED <<pc, forked, pid_arr, ended>>
  BY DEF ProcessStep, TypeOK, parentVars
<1>2. \A q \in Pids : /\ (proc'[q].at = "none") <=> (proc[q].at = "none")
                      /\ (proc'[q].at = "reaped") <=> (proc[q].at = "reaped")
                      /\ proc'[q].slot = proc[q].slot
  BY <1>1
<1>3. \A q \in Pids : Owner(q)' <=> Owner(q)
  BY <1>1, <1>2 DEF Owner
<1>4. \A q \in Pids : (proc'[q].at = "none") <=> (q > forked')
  BY <1>1, <1>2 DEF SlotInv
<1>5. pc' # "aborted" => \A q \in Pids : Owner(q)' => pid_arr'[proc'[q].slot] = q
  BY <1>1, <1>2, <1>3 DEF SlotInv
<1>6. pc' # "aborted" => \A s \in Slots : pid_arr'[s] # 0 =>
                            Owner(pid_arr[s])' /\ proc'[pid_arr'[s]].slot = s
  <2> SUFFICES ASSUME pc # "aborted", NEW s \in Slots, pid_arr[s] # 0
               PROVE  Owner(pid_arr[s])' /\ proc'[pid_arr[s]].slot = s
    BY <1>1
  <2>1. PICK q \in Pids : q = pid_arr[s] /\ q = pid_arr'[s]
    BY <1>1 DEF TypeOK
  <2>2. Owner(q) /\ proc[q].slot = s
    BY <2>1, ZenonT(60) DEF SlotInv
  <2>3. Owner(q)' /\ proc'[q].slot = s
    BY <1>2, <1>3, <2>2
  <2>4. QED
    BY <2>1, <2>3 DEF Owner
<1>7. pc' = "loop" => \E s \in Slots : pid_arr'[s] = 0
  BY <1>1 DEF SlotInv
<1>8. pc' = "check" => ended' \in Pids /\ proc'[ended'].at = "reaped"
  BY <1>1, <1>2 DEF SlotInv
<1>9. pc' \in {"over", "aborted"} => \A q \in Pids : proc'[q].at \in {"none", "reaped"}
  BY <1>1, <1>2 DEF SlotInv
<1>10. QED
  BY <1>1, <1>4, <1>5, <1>6, <1>7, <1>8, <1>9 DEF SlotInv, Owner

-----------------------------------------------------------------------------
(* Steps of the parent.                                                     *)

(* The parent only reads the semaphores.                                    *)
LEMMA ParentShared ==
    ASSUME Parent
    PROVE  UNCHANGED <<shared, lost, session, crashes>>
BY DEF Parent, fork, drain, checkState, waitPid, abort, history

(* A fork: one slot is taken, one process is new.                           *)
LEMMA ForkStep ==
    ASSUME TypeOK, SlotInv, fork
    PROVE  /\ TypeOK' /\ SlotInv' /\ UNCHANGED <<ended, killed>>
           /\ forked' = forked + 1 /\ forked + 1 \in Pids /\ proc[forked + 1].at = "none"
           /\ proc'[forked + 1] = NewProcess(freeSlot) /\ freeSlot \in Slots
           /\ \A q \in Pids \ {forked + 1} : proc'[q] = proc[q]
           /\ pc' \in {"loop", "wait"}
<1> DEFINE n == forked + 1
           f == freeSlot
<1>1. /\ pc = "loop" /\ forked < Batches * Cores /\ forked' = n
      /\ pid_arr' = [pid_arr EXCEPT ![f] = n] /\ proc' = [proc EXCEPT ![n] = NewProcess(f)]
      /\ pc' = (IF running + 1 = Cores THEN "wait" ELSE "loop")
      /\ UNCHANGED <<ended, num, sem, states, saved, overwritten, covmap, cov_log, lost, session,
                     crashes, killed>>
  BY DEF fork, shared, history
<1>2. forked \in Nat /\ n \in Pids /\ n \in 0 .. Batches * Cores /\ n # 0
  BY <1>1, Consts DEF TypeOK, Pids
<1>3. f \in Slots /\ pid_arr[f] = 0
  BY <1>1, FreeSlot DEF SlotInv
<1>4. proc[n].at = "none"
  BY <1>2 DEF SlotInv
<1>5. NewProcess(f) \in Process /\ NewProcess(f).at = "boot" /\ NewProcess(f).slot = f
  BY <1>3, NewProcessType DEF NewProcess
<1> HIDE DEF f
<1>6. /\ proc'[n] = NewProcess(f) /\ \A q \in Pids \ {n} : proc'[q] = proc[q]
      /\ pid_arr'[f] = n /\ \A s \in Slots \ {f} : pid_arr'[s] = pid_arr[s]
  BY <1>1, <1>2, <1>3 DEF TypeOK
<1>7. TypeOK'
  <2>1. pid_arr' \in [Slots -> Pids \cup {0}] /\ proc' \in [Pids -> Process]
    BY <1>1, <1>2, <1>3, <1>5 DEF TypeOK
  <2>2. pc' \in {"loop", "wait"}
    BY <1>1
  <2>3. QED
    BY <1>1, <1>2, <2>1, <2>2 DEF TypeOK
<1>8. \E s \in Slots : pc' = "loop" => pid_arr'[s] = 0
  <2> DEFINE T == {s \in Slots : pid_arr[s] # 0}
  <2>1. IsFiniteSet(Slots) /\ Cardinality(Slots) = Cores
    <3>1. 0 \in Int /\ Cores - 1 \in Int /\ ~(0 > Cores - 1) /\ (Cores - 1) - 0 + 1 = Cores
      BY CoresAssumption
    <3>2. QED
      BY <3>1, FS_Interval DEF Slots
  <2>2. IsFiniteSet(T)
    BY <2>1, FS_Subset
  <2>3. Cardinality(T \cup {f}) = running + 1
    BY <1>3, <2>2, FS_AddElement DEF running
  <2>4. CASE T \cup {f} = Slots
    BY <1>1, <1>3, <2>1, <2>3, <2>4
  <2>5. CASE T \cup {f} # Slots
    <3>1. PICK s \in Slots : s \notin T \cup {f}
      BY <1>3, <2>5
    <3>2. QED
      BY <1>6, <3>1
  <2>6. QED
    BY <2>4, <2>5
<1>9. \A q \in Pids : (proc'[q].at = "none") <=> (q > forked')
  <2>1. \A q \in Pids \ {n} : (q > forked) <=> (q > forked')
    BY <1>1, <1>2, Consts
  <2>2. QED
    BY <1>1, <1>2, <1>5, <1>6, <2>1 DEF SlotInv
<1>10. pc # "aborted" /\ pc # "check" /\ pc' \in {"loop", "wait"}
  BY <1>1
<1>11. ASSUME NEW q \in Pids, Owner(q)'
       PROVE  pid_arr'[proc'[q].slot] = q
  <2>1. CASE q = n
    BY <1>5, <1>6, <2>1
  <2>2. CASE q # n
    <3>1. Owner(q) /\ proc'[q] = proc[q]
      BY <1>6, <1>10, <1>11, <2>2 DEF Owner
    <3>2. pid_arr[proc[q].slot] = q /\ proc[q].slot \in Slots /\ q # 0
      BY <1>10, <3>1, Consts DEF SlotInv, TypeOK, Process
    <3>3. QED
      BY <1>3, <1>6, <3>1, <3>2
  <2>3. QED
    BY <2>1, <2>2
<1>12. ASSUME NEW s \in Slots, pid_arr'[s] # 0
       PROVE  Owner(pid_arr[s])' /\ proc'[pid_arr'[s]].slot = s
  <2>1. CASE s = f
    BY <1>5, <1>6, <2>1 DEF Owner
  <2>2. CASE s # f
    <3>1. PICK q \in Pids : q = pid_arr[s] /\ q = pid_arr'[s]
      BY <1>6, <1>12, <2>2 DEF TypeOK
    <3>2. Owner(q) /\ proc[q].slot = s
      <4>1. pid_arr[s] # 0
        BY <3>1, Consts
      <4>2. Owner(pid_arr[s]) /\ proc[pid_arr[s]].slot = s
        BY <1>10, <4>1 DEF SlotInv
      <4>3. QED
        BY <3>1, <4>2
    <3>3. q # n /\ proc'[q] = proc[q]
      BY <1>4, <1>6, <1>10, <3>2 DEF Owner
    <3>4. QED
      BY <1>10, <3>1, <3>2, <3>3 DEF Owner
  <2>3. QED
    BY <2>1, <2>2
<1>13. SlotInv'
  BY <1>8, <1>9, <1>10, <1>11, <1>12 DEF SlotInv, Owner
<1>14. QED
  BY <1>1, <1>2, <1>3, <1>4, <1>6, <1>7, <1>10, <1>13 DEF f

(* Aborting: every process is killed and reaped, what it was stays.         *)
LEMMA AbortStep ==
    ASSUME TypeOK, SlotInv, abort, ended' \in Pids \cup {0}
    PROVE  /\ TypeOK' /\ SlotInv' /\ killed' = TRUE
           /\ \A q \in Pids : /\ proc'[q].at \in {"none", "reaped"}
                              /\ proc'[q].stop = proc[q].stop /\ proc'[q].status = proc[q].status
<1>1. /\ pc' = "aborted" /\ killed' = TRUE
      /\ proc' = [p \in Pids |-> IF proc[p].at = "none" THEN proc[p]
                                 ELSE remains(p, "reaped", proc[p].status)]
      /\ UNCHANGED <<forked, pid_arr, num, sem, states, saved, overwritten, covmap, cov_log, lost,
                     session, crashes>>
  BY DEF abort, shared
<1>2. ASSUME NEW q \in Pids
      PROVE  /\ proc'[q] \in Process /\ proc'[q].at \in {"none", "reaped"}
             /\ (proc'[q].at = "none") <=> (proc[q].at = "none")
             /\ proc'[q].stop = proc[q].stop /\ proc'[q].status = proc[q].status
  <2>1. proc[q] \in Process /\ proc[q].status \in {0, 1} /\ "reaped" \in Places
    BY DEF TypeOK, Process, Places
  <2>2. CASE proc[q].at = "none"
    BY <1>1, <2>1, <2>2
  <2>3. CASE proc[q].at # "none"
    <3>1. proc'[q] = remains(q, "reaped", proc[q].status)
      BY <1>1, <2>3
    <3>2. QED
      BY <2>1, <2>3, <3>1, RemainsType
  <2>4. QED
    BY <2>2, <2>3
<1>3. TypeOK'
  <2>1. proc' \in [Pids -> Process]
    BY <1>1, <1>2
  <2>2. QED
    BY <1>1, <2>1 DEF TypeOK
<1>4. SlotInv'
  BY <1>1, <1>2 DEF SlotInv
<1>5. QED
  BY <1>1, <1>2, <1>3, <1>4

(* waitPid on a process that exited with status 0.                          *)
LEMMA WaitStep ==
    ASSUME TypeOK, SlotInv, NEW p \in Pids, waitPid(p), proc[p].status = 0
    PROVE  /\ TypeOK' /\ SlotInv' /\ pc = "wait" /\ pc' = "check" /\ ended' = p
           /\ proc[p].at = "exit" /\ UNCHANGED <<forked, killed>>
           /\ proc'[p] = [proc[p] EXCEPT !.at = "reaped"]
           /\ \A q \in Pids \ {p} : proc'[q] = proc[q]
<1>1. /\ pc = "wait" /\ proc[p].at = "exit" /\ ended' = p /\ pc' = "check"
      /\ proc' = [proc EXCEPT ![p].at = "reaped"]
      /\ UNCHANGED <<forked, pid_arr, num, sem, states, saved, overwritten, covmap, cov_log, lost,
                     session, crashes, killed>>
  BY DEF waitPid, shared, history
<1>2. /\ proc'[p] = [proc[p] EXCEPT !.at = "reaped"] /\ \A q \in Pids \ {p} : proc'[q] = proc[q]
      /\ proc'[p] \in Process /\ proc'[p].at = "reaped" /\ proc'[p].slot = proc[p].slot
  <2>1. proc \in [Pids -> Process] /\ proc[p] \in Process /\ "reaped" \in Places
    BY DEF TypeOK, Places
  <2>2. proc'[p] = [proc[p] EXCEPT !.at = "reaped"] /\ \A q \in Pids \ {p} : proc'[q] = proc[q]
    BY <1>1, <2>1
  <2>3. QED
    BY <2>1, <2>2 DEF Process
<1>3. TypeOK'
  <2>1. proc' \in [Pids -> Process]
    BY <1>1, <1>2 DEF TypeOK
  <2>2. QED
    BY <1>1, <2>1 DEF TypeOK
<1>4. \A q \in Pids : proc'[q].slot = proc[q].slot /\ (Owner(q)' <=> Owner(q))
  BY <1>1, <1>2 DEF Owner
<1>5. ASSUME NEW s \in Slots, pid_arr'[s] # 0
      PROVE  Owner(pid_arr[s])' /\ proc'[pid_arr'[s]].slot = s
  <2>1. PICK q \in Pids : q = pid_arr[s] /\ q = pid_arr'[s]
    BY <1>1, <1>5 DEF TypeOK
  <2>2. Owner(pid_arr[s]) /\ proc[pid_arr[s]].slot = s
    BY <1>1, <1>5 DEF SlotInv
  <2>3. Owner(q)' /\ proc'[q].slot = s
    BY <1>4, <2>1, <2>2
  <2>4. QED
    BY <2>1, <2>3 DEF Owner
<1>6. SlotInv'
  <2>1. \A q \in Pids : (proc'[q].at = "none") <=> (q > forked')
    BY <1>1, <1>2 DEF SlotInv
  <2>2. \A q \in Pids : Owner(q)' => pid_arr'[proc'[q].slot] = q
    BY <1>1, <1>4 DEF SlotInv
  <2>3. QED
    BY <1>1, <1>2, <1>5, <2>1, <2>2 DEF SlotInv, Owner
<1>7. QED
  BY <1>1, <1>2, <1>3, <1>6

(* checkState on a process in state NORMAL: its slot is free again.         *)
LEMMA CheckStep ==
    ASSUME TypeOK, SlotInv, checkState, states[proc[ended].slot] = "NORMAL"
    PROVE  /\ TypeOK' /\ SlotInv' /\ pc = "check" /\ pc' = "loop" /\ ended \in Pids
           /\ UNCHANGED <<forked, ended, proc, killed>>
<1>1. /\ pc = "check" /\ pc' = "loop" /\ pid_arr' = [pid_arr EXCEPT ![proc[ended].slot] = 0]
      /\ UNCHANGED <<forked, ended, proc, num, sem, states, saved, overwritten, covmap, cov_log,
                     lost, session, crashes, killed>>
  BY DEF checkState, shared, history
<1>2. ended \in Pids /\ proc[ended].at = "reaped" /\ proc[ended].slot \in Slots
  BY <1>1 DEF SlotInv, TypeOK, Process
<1> DEFINE f == proc[ended].slot
<1>3. pid_arr'[f] = 0 /\ \A s \in Slots \ {f} : pid_arr'[s] = pid_arr[s]
  BY <1>1, <1>2 DEF TypeOK
<1>4. TypeOK'
  <2>1. pid_arr' \in [Slots -> Pids \cup {0}]
    BY <1>1, <1>2 DEF TypeOK
  <2>2. QED
    BY <1>1, <2>1 DEF TypeOK
<1>5. pid_arr[f] = ended
  BY <1>1, <1>2 DEF SlotInv, Owner
<1>6. \A q \in Pids : Owner(q)' => Owner(q) /\ q # ended
  BY <1>1, <1>2 DEF Owner
<1>7. ASSUME NEW q \in Pids, Owner(q)'
      PROVE  pid_arr'[proc'[q].slot] = q
  <2>1. pid_arr[proc[q].slot] = q /\ proc[q].slot \in Slots
    BY <1>1, <1>6, <1>7 DEF SlotInv, TypeOK, Process
  <2>2. proc[q].slot # f
    BY <1>5, <1>6, <1>7, <2>1
  <2>3. QED
    BY <1>1, <1>3, <2>1, <2>2
<1>8. ASSUME NEW s \in Slots, pid_arr'[s] # 0
      PROVE  Owner(pid_arr[s])' /\ proc'[pid_arr'[s]].slot = s
  <2>1. s # f /\ pid_arr'[s] = pid_arr[s]
    BY <1>3, <1>8
  <2>2. Owner(pid_arr[s]) /\ proc[pid_arr[s]].slot = s
    BY <1>1, <1>8, <2>1 DEF SlotInv
  <2>3. pid_arr[s] # ended
    BY <2>1, <2>2
  <2>4. proc[pid_arr[s]].at \notin {"none", "reaped"}
    BY <2>2, <2>3 DEF Owner
  <2>5. QED
    BY <1>1, <2>1, <2>2, <2>4 DEF Owner
<1>9. SlotInv'
  <2>1. \A q \in Pids : (proc'[q].at = "none") <=> (q > forked')
    BY <1>1 DEF SlotInv
  <2>2. \E s \in Slots : pid_arr'[s] = 0
    BY <1>2, <1>3
  <2>3. QED
    BY <1>1, <1>7, <1>8, <2>1, <2>2 DEF SlotInv, Owner
<1>10. QED
  BY <1>1, <1>2, <1>4, <1>9

(* The loop is over: with no process left the session is.                   *)
LEMMA DrainStep ==
    ASSUME TypeOK, SlotInv, drain
    PROVE  TypeOK' /\ SlotInv' /\ pc' \in {"wait", "over"} /\ UNCHANGED <<ended, proc, killed>>
<1>1. /\ pc = "loop" /\ pc' = (IF running > 0 THEN "wait" ELSE "over")
      /\ UNCHANGED <<forked, pid_arr, ended, proc, num, sem, states, saved, overwritten, covmap,
                     cov_log, lost, session, crashes, killed>>
  BY DEF drain, shared, history
<1>2. pc' \in {"wait", "over"} /\ TypeOK'
  BY <1>1 DEF TypeOK
<1>3. \A q \in Pids : Owner(q)' <=> Owner(q)
  BY <1>1, <1>2 DEF Owner
<1>4. ASSUME pc' = "over"
      PROVE  \A q \in Pids : proc'[q].at \in {"none", "reaped"}
  <2> DEFINE T == {s \in Slots : pid_arr[s] # 0}
  <2>1. IsFiniteSet(Slots)
    BY CoresAssumption, FS_Interval DEF Slots
  <2>2. IsFiniteSet(T) /\ Cardinality(T) \in Nat
    BY <2>1, FS_Subset, FS_CardinalityType
  <2>3. Cardinality(T) = 0
    BY <1>1, <1>4, <2>2 DEF running
  <2>4. T = {}
    BY <2>2, <2>3, FS_EmptySet
  <2>5. QED
    BY <1>1, <2>4, Consts DEF SlotInv, Owner, TypeOK, Process
<1>5. SlotInv'
  <2>1. ASSUME NEW s \in Slots, pid_arr'[s] # 0
        PROVE  Owner(pid_arr[s])' /\ proc'[pid_arr'[s]].slot = s
    BY <1>1, <1>2, <2>1 DEF SlotInv, Owner
  <2>2. QED
    BY <1>1, <1>2, <1>3, <1>4, <2>1 DEF SlotInv, Owner
<1>6. QED
  BY <1>1, <1>2, <1>5

(* A new session starts with free slots and free semaphores.                *)
LEMMA RestartStep ==
    ASSUME TypeOK, restart
    PROVE  /\ TypeOK' /\ SlotInv' /\ MutexInv'
           /\ pc' = "loop" /\ \A q \in Pids : proc'[q] = NoProcess
<1>1. /\ pc' = "loop" /\ forked' = 0 /\ ended' = 0
      /\ pid_arr' = [s \in Slots |-> 0] /\ proc' = [p \in Pids |-> NoProcess]
      /\ num' = [k \in Nums |-> Cardinality(saved[k])] /\ sem' = [x \in Sems |-> 1]
      /\ states' = [s \in Slots |-> "NORMAL"] /\ cov_log' = 0 /\ lost' = {}
      /\ session' = session + 1
      /\ UNCHANGED <<saved, overwritten, covmap, crashes, killed>>
  BY DEF restart
<1>2. \A q \in Pids : proc'[q] = NoProcess /\ proc'[q].at = "none" /\ holds(q)' = {}
  BY <1>1, NoProcessType DEF holds
<1>3. MutexInv'
  BY <1>2 DEF MutexInv
<1>4. SlotInv'
  BY <1>1, <1>2, Consts DEF SlotInv, Owner
<1>5. \A k \in Nums : Cardinality(saved[k]) \in Nat
  BY FS_CardinalityType DEF TypeOK
<1>6. proc' \in [Pids -> Process]
  BY <1>1, NoProcessType
<1>7. /\ pid_arr' \in [Slots -> Pids \cup {0}] /\ num' \in [Nums -> Nat]
      /\ sem' \in [Sems -> {0, 1}] /\ states' \in [Slots -> Codes]
  BY <1>1, <1>5 DEF Codes
<1>8. TypeOK'
  BY <1>1, <1>6, <1>7, Consts DEF TypeOK
<1>9. QED
  BY <1>1, <1>2, <1>3, <1>4, <1>8

-----------------------------------------------------------------------------
(* The first three parts together: they are inductive by themselves.        *)
BaseInv == TypeOK /\ SlotInv /\ MutexInv

(* If no process comes to hold anything and the semaphores stay as they     *)
(* are, nothing changes for mutual exclusion.                               *)
LEMMA MutexKept ==
    ASSUME MutexInv, UNCHANGED sem, \A q \in Pids : holds(q)' \subseteq holds(q)
    PROVE  MutexInv'
BY DEF MutexInv

(* Type, slots and locks are in order before the first session.             *)
LEMMA BaseInit == Init => BaseInv
<1> SUFFICES ASSUME Init
             PROVE  BaseInv
  OBVIOUS
<1>1. \A q \in Pids : proc[q] = NoProcess /\ proc[q].at = "none" /\ holds(q) = {}
  BY NoProcessType DEF Init, holds
<1>2. MutexInv
  BY <1>1 DEF MutexInv
<1>3. SlotInv
  BY <1>1, Consts DEF Init, SlotInv, Owner
<1>4. TypeOK
  <2>1. proc \in [Pids -> Process]
    BY NoProcessType DEF Init
  <2>2. /\ pid_arr \in [Slots -> Pids \cup {0}] /\ num \in [Nums -> Nat]
        /\ sem \in [Sems -> {0, 1}] /\ states \in [Slots -> Codes]
    BY DEF Init, Codes
  <2>3. saved \in [Nums -> SUBSET Nat] /\ \A k \in Nums : IsFiniteSet(saved[k])
    BY FS_EmptySet DEF Init
  <2>4. /\ covmap \in [points : SUBSET Points, torn : BOOLEAN] /\ cov_log \in Nat
        /\ overwritten \in BOOLEAN /\ killed \in BOOLEAN /\ session \in Nat /\ crashes \in Nat
        /\ lost \subseteq Sems
    BY DEF Init
  <2>5. /\ pc \in {"loop", "wait", "check", "over", "aborted"} /\ ended \in Pids \cup {0}
        /\ forked \in 0 .. Batches * Cores
    BY Consts DEF Init
  <2>6. QED
    BY <2>1, <2>2, <2>3, <2>4, <2>5 DEF TypeOK
<1>5. QED
  BY <1>2, <1>3, <1>4 DEF BaseInv

(* Every step of a child keeps the types, the slots and the locks.          *)
LEMMA BaseChild ==
    ASSUME BaseInv, NEW p \in Pids, Child(p) \/ lateTimer(p) \/ crash(p)
    PROVE  BaseInv' /\ ProcessStep(p)
<1>1. ProcessStep(p) /\ SemStep(p) /\ SharedTypes'
  BY ChildStep, ChildSems, ChildShared DEF BaseInv
<1>2. SlotInv' /\ MutexInv' /\ sem' \in [Sems -> {0, 1}]
  BY <1>1, ChildSlots, ChildMutex DEF BaseInv
<1>3. proc' \in [Pids -> Process]
  <2>1. proc \in [Pids -> Process] /\ proc'[p] \in Process /\ proc' = [proc EXCEPT ![p] = proc'[p]]
    BY <1>1 DEF BaseInv, TypeOK, ProcessStep
  <2>2. QED
    BY <2>1
<1>4. TypeOK'
  BY <1>1, <1>2, <1>3 DEF BaseInv, TypeOK, SharedTypes, ProcessStep, parentVars
<1>5. QED
  BY <1>1, <1>2, <1>4 DEF BaseInv

(* Every step of the parent keeps the types, the slots and the locks.       *)
LEMMA BaseParent ==
    ASSUME BaseInv, Parent
    PROVE  BaseInv'
<1>1. TypeOK /\ SlotInv /\ MutexInv /\ UNCHANGED sem
  BY ParentShared DEF BaseInv, shared
<1>2. CASE fork
  <2>1. TypeOK' /\ SlotInv'
    BY <1>1, <1>2, ForkStep
  <2>2. \A q \in Pids : holds(q)' \subseteq holds(q)
    <3> SUFFICES ASSUME NEW q \in Pids
                 PROVE  holds(q)' \subseteq holds(q)
      OBVIOUS
    <3>1. proc'[q] = proc[q] \/ proc'[q].at = "boot"
      BY <1>1, <1>2, ForkStep DEF NewProcess
    <3>2. QED
      BY <3>1 DEF holds, kind
  <2>3. QED
    BY <1>1, <2>1, <2>2, MutexKept DEF BaseInv
<1>3. CASE drain
  <2>1. TypeOK' /\ SlotInv' /\ UNCHANGED proc
    BY <1>1, <1>3, DrainStep
  <2>2. QED
    BY <1>1, <2>1, MutexKept DEF BaseInv, holds, kind
<1>4. ASSUME abort, ended' \in Pids \cup {0}
      PROVE  BaseInv'
  <2>1. TypeOK' /\ SlotInv' /\ \A q \in Pids : proc'[q].at \in {"none", "reaped"}
    BY <1>1, <1>4, AbortStep
  <2>2. \A q \in Pids : holds(q)' = {}
    BY <2>1 DEF holds
  <2>3. QED
    BY <1>1, <2>1, <2>2, MutexKept DEF BaseInv
<1>5. CASE checkState
  <2>1. CASE states[proc[ended].slot] # "NORMAL"
    BY <1>1, <1>4, <1>5, <2>1 DEF checkState, TypeOK
  <2>2. CASE states[proc[ended].slot] = "NORMAL"
    <3>1. TypeOK' /\ SlotInv' /\ UNCHANGED proc
      BY <1>1, <1>5, <2>2, CheckStep
    <3>2. QED
      BY <1>1, <3>1, MutexKept DEF BaseInv, holds, kind
  <2>3. QED
    BY <2>1, <2>2
<1>6. ASSUME NEW p \in Pids, waitPid(p)
      PROVE  BaseInv'
  <2>1. CASE proc[p].status # 0
    BY <1>4, <1>6, <2>1 DEF waitPid
  <2>2. CASE proc[p].status = 0
    <3>1. /\ TypeOK' /\ SlotInv' /\ \A q \in Pids \ {p} : proc'[q] = proc[q]
          /\ proc'[p] = [proc[p] EXCEPT !.at = "reaped"] /\ proc[p] \in Process
      BY <1>1, <1>6, <2>2, WaitStep DEF TypeOK
    <3>2. proc'[p].at = "reaped"
      BY <3>1 DEF Process
    <3>3. \A q \in Pids : holds(q)' \subseteq holds(q)
      BY <3>1, <3>2 DEF holds, kind
    <3>4. QED
      BY <1>1, <3>1, <3>3, MutexKept DEF BaseInv
  <2>3. QED
    BY <2>1, <2>2
<1>7. QED
  BY <1>2, <1>3, <1>5, <1>6 DEF Parent

(* A stuttering step keeps the base invariant.                              *)
LEMMA BaseStutter ==
    ASSUME BaseInv, UNCHANGED vars
    PROVE  BaseInv'
BY DEF BaseInv, vars, parentVars, shared, history, TypeOK, SlotInv, MutexInv, Owner, holds, kind

(* The base invariant is inductive.                                         *)
LEMMA BaseNext == BaseInv /\ [Next]_vars => BaseInv'
BY BaseChild, BaseParent, BaseStutter, RestartStep DEF Next, BaseInv

(* Type correctness of the sessions, the binary semaphores included.        *)
THEOREM MulticoreTypes == Spec => []TypeOK
<1>1. BaseInv => TypeOK
  BY DEF BaseInv
<1>2. QED
  BY <1>1, BaseInit, BaseNext, PTL DEF Spec

(* Two live processes never share a slot, and with it their input files,    *)
(* signatures, coverage file and entry of proc_states.                      *)
THEOREM SlotsExclusive == Spec => []SlotExclusive
<1>1. BaseInv => SlotExclusive
  <2> SUFFICES ASSUME BaseInv, NEW p \in Live, NEW q \in Live, proc[p].slot = proc[q].slot
               PROVE  p = q
    BY DEF SlotExclusive
  <2>1. p \in Pids /\ q \in Pids /\ Owner(p) /\ Owner(q)
    BY DEF Live, Owner
  <2>2. pc # "aborted"
    BY DEF BaseInv, SlotInv, Live
  <2>3. QED
    BY <2>1, <2>2 DEF BaseInv, SlotInv
<1>2. QED
  BY <1>1, BaseInit, BaseNext, PTL DEF Spec

(* No two processes are inside critical sections of one semaphore.          *)
THEOREM MutualExclusion == Spec => []MutexInv
<1>1. BaseInv => MutexInv
  BY DEF BaseInv
<1>2. QED
  BY <1>1, BaseInit, BaseNext, PTL DEF Spec

-----------------------------------------------------------------------------
(* The states the parent reads.                                             *)

(* What a step of a process does to its report: nothing, the first half of  *)
(* set_state, or the second half; only these two change anything here.      *)
ReportStep(p) ==
    \/ /\ UNCHANGED states /\ proc'[p].at # "setV"
       /\ proc'[p].at \in {"truncate", "store"} \/ (proc'[p].at = "exit" /\ proc'[p].status = 0)
            => proc[p].at \in {"merge", "truncate", "store"} /\ proc'[p].stop = proc[p].stop
       /\ proc'[p].at # "merge"
    \/ /\ UNCHANGED states /\ proc'[p].at = "setV"
       /\ proc'[p].snap = [states EXCEPT ![proc[p].slot] = proc[p].stop]
       /\ proc'[p].stop = proc[p].stop
    \/ /\ proc[p].at = "setV" /\ states' = proc[p].snap
       /\ proc'[p].at = "merge" /\ proc'[p].stop = proc[p].stop

(* A child writes procs_state by reading it whole, setting its own slot's code and
   storing it back; a process that ends with status 0 has passed that step.       *)
LEMMA ChildReports ==
    ASSUME TypeOK, NEW p \in Pids, Child(p) \/ lateTimer(p) \/ crash(p)
    PROVE  ReportStep(p)
<1>1. proc \in [Pids -> Process] /\ proc[p] \in Process /\ "exit" \in Places
  BY DEF TypeOK, Places
<1> USE <1>1 DEF ReportStep
<1>2. CASE boot(p)
  BY <1>2 DEF boot, step, goto, Process
<1>3. CASE covRestore(p)
  BY <1>3 DEF covRestore, step, goto, shared, Process
<1>4. CASE testDropped(p)
  BY <1>4 DEF testDropped, step, shared, Process
<1>5. CASE testsOver(p)
  BY <1>5 DEF testsOver, step, goto, shared, Process
<1>6. ASSUME NEW code, testFails(p, code)
      PROVE  ReportStep(p)
  BY <1>6 DEF testFails, step, goto, shared, Process
<1>7. ASSUME NEW m, NEW new, testDone(p, m, new)
      PROVE  ReportStep(p)
  <2>1. proc'[p].at \in {"test", "read"} /\ UNCHANGED states
    BY <1>7 DEF testDone, step, goto, shared, Process
  <2>2. QED
    BY <2>1
<1>8. CASE readNum(p)
  BY <1>8 DEF readNum, step, goto, Process
<1>9. CASE writeNum(p)
  BY <1>9 DEF writeNum, step, goto, Process
<1>10. CASE saveRecord(p)
  <2>1. proc'[p].at \in {"test", "read"} /\ UNCHANGED states
    BY <1>10 DEF saveRecord, step, goto, Process
  <2>2. QED
    BY <2>1
<1>11. CASE saveErr(p)
  BY <1>11 DEF saveErr, step, goto, shared, Process
<1>12. CASE setStateRead(p)
  BY <1>12 DEF setStateRead, step, goto, Process
<1>13. CASE setStateWrite(p)
  BY <1>13 DEF setStateWrite, step, goto, Process
<1>14. CASE merge(p)
  BY <1>14 DEF merge, step, goto, Process
<1>15. CASE truncate(p)
  BY <1>15 DEF truncate, step, goto, Process
<1>17. CASE storeCovmap(p)
  <2>1. /\ proc[p].at = "store" /\ proc'[p].at = "exit" /\ proc'[p].stop = proc[p].stop
        /\ UNCHANGED states
    BY <1>17, RemainsType DEF storeCovmap, step
  <2>2. QED
    BY <2>1
<1>18. ASSUME NEW status \in {0, 1}, mergeTorn(p, status)
       PROVE  ReportStep(p)
  <2>1. /\ proc[p].at = "merge" /\ proc'[p].at = "exit" /\ proc'[p].stop = proc[p].stop
        /\ UNCHANGED states
    BY <1>18, RemainsType DEF mergeTorn
  <2>2. QED
    BY <2>1
<1>19. CASE lateTimer(p)
  BY <1>19 DEF lateTimer, step, shared, Process
<1>20. CASE crash(p)
  <2>1. proc'[p].at = "exit" /\ proc'[p].status = 1 /\ UNCHANGED states
    BY <1>20, RemainsType DEF crash, shared
  <2>2. QED
    BY <2>1
<1>21. QED
  BY <1>2, <1>3, <1>4, <1>5, <1>6, <1>7, <1>8, <1>9, <1>10, <1>11, <1>12, <1>13, <1>14, <1>15,
     <1>17, <1>18, <1>19, <1>20 DEF Child

(* The steps of the children keep what the parent reads from procs_state.   *)
LEMMA StatesChild ==
    ASSUME BaseInv, StatesInv, NEW p \in Pids, Child(p) \/ lateTimer(p) \/ crash(p)
    PROVE  StatesInv'
<1>1. TypeOK /\ SlotInv /\ MutexInv /\ ProcessStep(p) /\ ReportStep(p)
  BY BaseChild, ChildReports DEF BaseInv
<1>2. /\ \A q \in Pids \ {p} : proc'[q] = proc[q]
      /\ proc'[p].slot = proc[p].slot /\ proc'[p].at \notin {"none", "reaped"}
      /\ proc[p].at \notin {"none", "exit", "reaped"}
      /\ UNCHANGED <<pc, ended>>
  BY <1>1 DEF ProcessStep, TypeOK, parentVars
<1>3. pc \notin {"over", "aborted"} /\ ~(pc = "check" /\ ended = p)
  BY <1>1, <1>2 DEF SlotInv
<1>4. /\ states \in [Slots -> Codes] /\ \A q \in Pids : proc[q].slot \in Slots
      /\ \A q \in Pids : proc[q].stop \in Codes
  BY <1>1 DEF TypeOK, Process
<1>5. ASSUME NEW q \in Pids, q # p, Owner(q)
      PROVE  proc[q].slot # proc[p].slot
  BY <1>1, <1>2, <1>3, <1>5 DEF SlotInv, Owner
<1>6. ASSUME NEW q \in Pids, proc[p].at = "setV", proc[q].at = "setV"
      PROVE  q = p
  <2>1. "state" \in Sems /\ "state" \in holds(p) /\ "state" \in holds(q)
    BY <1>6 DEF Sems, holds
  <2>2. QED
    BY <1>1, <2>1 DEF MutexInv
<1>7. ASSUME NEW q \in Pids, proc'[q].at = "setV"
      PROVE  proc'[q].snap = [states' EXCEPT ![proc'[q].slot] = proc'[q].stop]
  <2>1. CASE q = p
    BY <1>1, <1>2, <1>7, <2>1 DEF ReportStep
  <2>2. CASE q # p
    <3>1. UNCHANGED states
      BY <1>1, <1>2, <1>6, <1>7, <2>2 DEF ReportStep
    <3>2. QED
      BY <1>2, <1>7, <2>2, <3>1 DEF StatesInv
  <2>3. QED
    BY <2>1, <2>2
<1>8. ASSUME NEW q \in Pids, Reported(q)'
      PROVE  states'[proc'[q].slot] = proc'[q].stop
  <2>1. CASE q # p
    <3>1. Reported(q) /\ Owner(q) /\ proc'[q] = proc[q]
      BY <1>2, <1>8, <2>1 DEF Reported, Owner
    <3>2. states[proc[q].slot] = proc[q].stop /\ proc[q].slot # proc[p].slot
      BY <1>3, <1>5, <2>1, <3>1 DEF StatesInv
    <3>3. states'[proc[q].slot] = states[proc[q].slot]
      <4>1. CASE UNCHANGED states
        BY <4>1
      <4>2. CASE proc[p].at = "setV" /\ states' = proc[p].snap
        <5>1. states' = [states EXCEPT ![proc[p].slot] = proc[p].stop]
          BY <4>2 DEF StatesInv
        <5>2. QED
          BY <1>4, <3>2, <5>1
      <4>3. QED
        BY <1>1, <4>1, <4>2 DEF ReportStep
    <3>4. QED
      BY <3>1, <3>2, <3>3
  <2>2. CASE q = p
    <3>1. proc'[p].at \in {"merge", "truncate", "store"}
            \/ (proc'[p].at = "exit" /\ proc'[p].status = 0)
      BY <1>2, <1>3, <1>8, <2>2 DEF Reported
    <3>2. CASE proc[p].at = "setV" /\ states' = proc[p].snap /\ proc'[p].stop = proc[p].stop
      <4>1. states' = [states EXCEPT ![proc[p].slot] = proc[p].stop]
        BY <3>2 DEF StatesInv
      <4>2. QED
        BY <1>2, <1>4, <2>2, <3>2, <4>1
    <3>3. CASE /\ UNCHANGED states /\ proc[p].at \in {"merge", "truncate", "store"}
               /\ proc'[p].stop = proc[p].stop
      <4>1. states[proc[p].slot] = proc[p].stop
        BY <1>3, <3>3 DEF StatesInv, Reported
      <4>2. QED
        BY <1>2, <2>2, <3>3, <4>1
    <3>4. QED
      BY <1>1, <3>1, <3>2, <3>3 DEF ReportStep
  <2>3. QED
    BY <2>1, <2>2
<1>9. pc' = "check" => proc'[ended'].status = 0
  BY <1>1, <1>2, <1>3 DEF StatesInv, SlotInv
<1>10. StopNoticed'
  BY <1>2, <1>3 DEF StatesInv, StopNoticed
<1>11. QED
  BY <1>7, <1>8, <1>9, <1>10 DEF StatesInv

(* An abort of the parent is always for a child that stopped.               *)
LEMMA StatesAbort ==
    ASSUME BaseInv, StatesInv, abort, ended' \in Pids \cup {0},
           \E q \in Pids : proc[q].stop # "NORMAL" \/ proc[q].status # 0
    PROVE  StatesInv'
<1>1. /\ \A q \in Pids : /\ proc'[q].at \in {"none", "reaped"} /\ proc'[q].stop = proc[q].stop
                         /\ proc'[q].status = proc[q].status
      /\ pc' = "aborted"
  BY AbortStep DEF BaseInv, abort
<1>2. QED
  BY <1>1 DEF StatesInv, StopNoticed

(* The steps of the parent keep what it reads from procs_state.             *)
LEMMA StatesParent ==
    ASSUME BaseInv, StatesInv, Parent
    PROVE  StatesInv'
<1>1. TypeOK /\ SlotInv /\ UNCHANGED states
  BY ParentShared DEF BaseInv, shared
<1>2. CASE fork
  <2> DEFINE n == forked + 1
  <2>1. /\ n \in Pids /\ proc'[n] = NewProcess(freeSlot) /\ proc[n].at = "none"
        /\ \A q \in Pids \ {n} : proc'[q] = proc[q]
        /\ pc' \in {"loop", "wait"} /\ pc = "loop"
    BY <1>1, <1>2, ForkStep DEF fork
  <2>2. proc'[n].at = "boot"
    BY <2>1 DEF NewProcess
  <2> HIDE DEF n
  <2>3. \A q \in Pids : proc'[q].at = "setV" =>
           proc'[q].snap = [states' EXCEPT ![proc'[q].slot] = proc'[q].stop]
    BY <1>1, <2>1, <2>2 DEF StatesInv
  <2>4. \A q \in Pids : Reported(q)' => states'[proc'[q].slot] = proc'[q].stop
    BY <1>1, <2>1, <2>2 DEF StatesInv, Reported
  <2>5. StopNoticed'
    BY <2>1, <2>2 DEF StatesInv, StopNoticed
  <2>6. QED
    BY <2>1, <2>3, <2>4, <2>5 DEF StatesInv
<1>3. CASE drain
  <2>1. pc = "loop" /\ pc' \in {"wait", "over"} /\ UNCHANGED <<ended, proc>>
    BY <1>1, <1>3, DrainStep DEF drain
  <2>2. QED
    BY <1>1, <2>1 DEF StatesInv, StopNoticed, Reported
<1>4. CASE checkState
  <2>1. pc = "check" /\ ended \in Pids
    BY <1>1, <1>4 DEF checkState, SlotInv
  <2>2. states[proc[ended].slot] = proc[ended].stop /\ proc[ended].status = 0
    BY <2>1 DEF StatesInv, Reported
  <2>3. CASE states[proc[ended].slot] # "NORMAL"
    BY <1>1, <1>4, <2>1, <2>2, <2>3, StatesAbort DEF checkState, TypeOK
  <2>4. CASE states[proc[ended].slot] = "NORMAL"
    <3>1. pc' = "loop" /\ UNCHANGED <<ended, proc>>
      BY <1>1, <1>4, <2>4, CheckStep
    <3>2. QED
      BY <1>1, <2>1, <2>2, <2>4, <3>1 DEF StatesInv, StopNoticed, Reported
  <2>5. QED
    BY <2>3, <2>4
<1>5. ASSUME NEW p \in Pids, waitPid(p)
      PROVE  StatesInv'
  <2>1. CASE proc[p].status # 0
    BY <1>5, <2>1, StatesAbort DEF waitPid
  <2>2. CASE proc[p].status = 0
    <3>1. /\ pc = "wait" /\ pc' = "check" /\ ended' = p /\ proc[p].at = "exit"
          /\ proc'[p] = [proc[p] EXCEPT !.at = "reaped"] /\ proc[p] \in Process
          /\ \A q \in Pids \ {p} : proc'[q] = proc[q]
      BY <1>1, <1>5, <2>2, WaitStep DEF TypeOK
    <3>2. /\ proc'[p].at = "reaped" /\ proc'[p].slot = proc[p].slot
          /\ proc'[p].stop = proc[p].stop /\ proc'[p].status = 0
      BY <2>2, <3>1 DEF Process
    <3>3. \A q \in Pids : proc'[q].at = "setV" =>
             proc'[q].snap = [states' EXCEPT ![proc'[q].slot] = proc'[q].stop]
      <4> SUFFICES ASSUME NEW q \in Pids, proc'[q].at = "setV"
                   PROVE  proc'[q].snap = [states' EXCEPT ![proc'[q].slot] = proc'[q].stop]
        OBVIOUS
      <4>1. proc'[q] = proc[q]
        BY <3>1, <3>2
      <4>2. QED
        BY <1>1, <4>1 DEF StatesInv
    <3>4. ASSUME NEW q \in Pids, Reported(q)'
          PROVE  states'[proc'[q].slot] = proc'[q].stop
      <4>1. Reported(q)
        BY <2>2, <3>1, <3>2, <3>4 DEF Reported
      <4>2. states[proc[q].slot] = proc[q].stop
        BY <3>1, <4>1 DEF StatesInv
      <4>3. proc'[q].slot = proc[q].slot /\ proc'[q].stop = proc[q].stop
        BY <3>1, <3>2
      <4>4. QED
        BY <1>1, <4>2, <4>3
    <3>5. StopNoticed'
      BY <3>1, <3>2 DEF StatesInv, StopNoticed
    <3>6. QED
      BY <3>1, <3>2, <3>3, <3>4, <3>5 DEF StatesInv
  <2>3. QED
    BY <2>1, <2>2
<1>6. QED
  BY <1>2, <1>3, <1>4, <1>5 DEF Parent

(* Sessions begin without processes.                                        *)
LEMMA StatesFresh ==
    ASSUME pc = "loop", \A q \in Pids : proc[q] = NoProcess
    PROVE  StatesInv
<1>1. \A q \in Pids : proc[q].at = "none"
  BY NoProcessType
<1>2. QED
  BY <1>1 DEF StatesInv, StopNoticed, Reported

(* The invariant on the reported states is inductive above the base invariant. *)
LEMMA StatesNext == BaseInv /\ StatesInv /\ [Next]_vars => StatesInv'
<1> SUFFICES ASSUME BaseInv, StatesInv, [Next]_vars
             PROVE  StatesInv'
  OBVIOUS
<1>1. CASE UNCHANGED vars
  BY <1>1 DEF vars, parentVars, shared, history, StatesInv, StopNoticed, Reported
<1>2. CASE restart
  <2>1. pc' = "loop" /\ \A q \in Pids : proc'[q] = NoProcess
    BY <1>2, RestartStep DEF BaseInv
  <2>2. \A q \in Pids : proc'[q].at = "none"
    BY <2>1, NoProcessType
  <2>3. QED
    BY <2>1, <2>2 DEF StatesInv, StopNoticed, Reported
<1>3. QED
  BY <1>1, <1>2, StatesChild, StatesParent DEF Next

(* The parent moves on only from a process that ended well, and gives up    *)
(* only for one that did not: set_state, wait_check and get_state.          *)
THEOREM StopsNoticed == Spec => []StopNoticed
<1>1. Init => StatesInv
  BY StatesFresh DEF Init
<1>2. StatesInv => StopNoticed
  BY DEF StatesInv
<1>3. QED
  BY <1>1, <1>2, StatesNext, BaseInit, BaseNext, PTL DEF Spec

-----------------------------------------------------------------------------
(* The records.                                                             *)

(* A step outside the code that saves records.                              *)
QuietStep(p) ==
    /\ UNCHANGED <<num, saved, overwritten>>
    /\ \A k \in Nums : /\ Writing(p, k)' <=> Writing(p, k)
                       /\ Saving(p, k)' <=> Saving(p, k)
    /\ proc'[p].id = proc[p].id \/ proc[p].at \notin {"write", "save"}

(* A process dies: whatever it was saving is gone.                          *)
DyingStep(p) ==
    /\ UNCHANGED <<num, saved, overwritten>>
    /\ proc'[p].at = "exit" /\ proc'[p].status = 1

(* Of the steps of a child three touch the record numbers; the others do not. *)
LEMMA ChildRecords ==
    ASSUME TypeOK, NEW p \in Pids, Child(p) \/ lateTimer(p) \/ crash(p)
    PROVE  QuietStep(p) \/ DyingStep(p) \/ readNum(p) \/ writeNum(p) \/ saveRecord(p)
<1> USE DEF Writing, Saving
<1>1. proc \in [Pids -> Process] /\ proc[p] \in Process /\ "exit" \in Places
  BY DEF TypeOK, Places
<1>2. ASSUME UNCHANGED <<num, saved, overwritten>>, proc[p].at \notin {"write", "save"},
             proc'[p].at \notin {"write", "save"}
      PROVE  QuietStep(p)
  BY <1>2 DEF QuietStep
<1> USE <1>1
<1>3. CASE boot(p)
  BY <1>2, <1>3 DEF boot, step, goto, Process
<1>4. CASE covRestore(p)
  BY <1>2, <1>4 DEF covRestore, step, goto, shared, Process
<1>5. CASE testDropped(p)
  BY <1>2, <1>5 DEF testDropped, step, shared, Process
<1>6. CASE testsOver(p)
  BY <1>2, <1>6 DEF testsOver, step, goto, shared, Process
<1>7. ASSUME NEW code, testFails(p, code)
      PROVE  QuietStep(p)
  BY <1>2, <1>7 DEF testFails, step, goto, shared, Process
<1>8. ASSUME NEW m, NEW new, testDone(p, m, new)
      PROVE  QuietStep(p)
  <2>1. /\ proc[p].at = "test" /\ proc'[p].at \in {"test", "read"}
        /\ UNCHANGED <<num, saved, overwritten>>
    BY <1>8 DEF testDone, step, goto, shared, Process
  <2>2. QED
    BY <1>2, <2>1
<1>9. CASE saveErr(p)
  BY <1>2, <1>9 DEF saveErr, step, goto, shared, Process
<1>10. CASE setStateRead(p)
  BY <1>2, <1>10 DEF setStateRead, step, goto, Process
<1>11. CASE setStateWrite(p)
  BY <1>2, <1>11 DEF setStateWrite, step, goto, Process
<1>12. CASE merge(p)
  BY <1>2, <1>12 DEF merge, step, goto, Process
<1>13. CASE truncate(p)
  BY <1>2, <1>13 DEF truncate, step, goto, Process
<1>14. CASE storeCovmap(p)
  BY <1>2, <1>14, RemainsType DEF storeCovmap, step
<1>15. ASSUME NEW status \in {0, 1}, mergeTorn(p, status)
       PROVE  QuietStep(p)
  BY <1>2, <1>15, RemainsType DEF mergeTorn
<1>16. CASE lateTimer(p)
  <2>1. /\ proc'[p].at = proc[p].at /\ proc'[p].todo = proc[p].todo /\ proc'[p].id = proc[p].id
        /\ UNCHANGED <<num, saved, overwritten>>
    BY <1>16 DEF lateTimer, step, shared, Process
  <2>2. QED
    BY <2>1 DEF QuietStep, kind
<1>17. CASE crash(p)
  BY <1>17, RemainsType DEF crash, shared, DyingStep
<1>18. QED
  BY <1>3, <1>4, <1>5, <1>6, <1>7, <1>8, <1>9, <1>10, <1>11, <1>12, <1>13, <1>14, <1>15, <1>16,
     <1>17 DEF Child

(* A step away from the record numbers keeps the books of each kind.        *)
LEMMA RecordsQuiet ==
    ASSUME TypeOK, NEW p \in Pids, ProcessStep(p), QuietStep(p), NEW k \in Nums, RecordsOK(k)
    PROVE  RecordsOK(k)'
<1>1. /\ \A q \in Pids \ {p} : proc'[q] = proc[q]
      /\ proc[p].at \notin {"none", "exit", "reaped"}
  BY DEF ProcessStep, TypeOK
<1>2. \A q \in Pids : (Writing(q, k)' <=> Writing(q, k)) /\ (Saving(q, k)' <=> Saving(q, k))
  BY <1>1 DEF QuietStep, Writing, Saving, kind
<1>3. \A q \in Pids : Writing(q, k) \/ Saving(q, k) => proc'[q].id = proc[q].id
  BY <1>1 DEF QuietStep, Writing, Saving
<1>4. Died => Died'
  BY <1>1 DEF Died
<1>5. num'[k] = num[k] /\ saved'[k] = saved[k]
  BY DEF QuietStep
<1>6. QED
  BY <1>2, <1>3, <1>4, <1>5 DEF RecordsOK

(* The death of a process keeps the books of each kind.                     *)
LEMMA RecordsDying ==
    ASSUME TypeOK, NEW p \in Pids, ProcessStep(p), DyingStep(p), NEW k \in Nums, RecordsOK(k)
    PROVE  RecordsOK(k)'
<1>1. \A q \in Pids \ {p} : proc'[q] = proc[q]
  BY DEF ProcessStep, TypeOK
<1>2. \A q \in Pids : /\ Writing(q, k)' => Writing(q, k) /\ proc'[q] = proc[q]
                      /\ Saving(q, k)' => Saving(q, k) /\ proc'[q] = proc[q]
  BY <1>1 DEF DyingStep, Writing, Saving, kind
<1>3. Died'
  BY DEF Died, DyingStep
<1>4. num'[k] = num[k] /\ saved'[k] = saved[k]
  BY DEF DyingStep
<1>5. QED
  BY <1>2, <1>3, <1>4 DEF RecordsOK

(* Reading the number under the lock keeps the books of each kind.          *)
LEMMA RecordsRead ==
    ASSUME TypeOK, NEW p \in Pids, ProcessStep(p), readNum(p), NEW k \in Nums, RecordsOK(k)
    PROVE  RecordsOK(k)'
<1>1. proc \in [Pids -> Process] /\ proc[p] \in Process
  BY DEF TypeOK
<1>2. /\ proc[p].at = "read" /\ proc'[p].at = "write" /\ proc'[p].todo = proc[p].todo
      /\ proc'[p].id = num[kind(p)] /\ UNCHANGED <<num, saved>>
      /\ \A q \in Pids \ {p} : proc'[q] = proc[q]
  BY <1>1 DEF readNum, step, goto, Process
<1>3. \A q \in Pids : Saving(q, k)' => Saving(q, k) /\ proc'[q] = proc[q]
  BY <1>2 DEF Saving, kind
<1>4. \A q \in Pids : Saving(q, k) => Saving(q, k)' /\ proc'[q] = proc[q]
  BY <1>2 DEF Saving, kind
<1>5. ASSUME NEW q \in Pids, Writing(q, k)'
      PROVE  proc'[q].id = num'[k]
  <2>1. CASE q = p
    <3>1. kind(p)' = kind(p) /\ kind(p)' = k
      BY <1>2, <1>5, <2>1 DEF kind, Writing
    <3>2. QED
      BY <1>2, <2>1, <3>1
  <2>2. CASE q # p
    <3>1. Writing(q, k) /\ proc'[q] = proc[q]
      BY <1>2, <1>5, <2>2 DEF Writing, kind
    <3>2. QED
      BY <1>2, <3>1 DEF RecordsOK
  <2>3. QED
    BY <2>1, <2>2
<1>6. Died => Died'
  BY <1>2 DEF Died
<1>7. QED
  BY <1>2, <1>3, <1>4, <1>5, <1>6 DEF RecordsOK

(* Writing the number back under the lock keeps the books of each kind.     *)
LEMMA RecordsWrite ==
    ASSUME TypeOK, MutexInv, NEW p \in Pids, ProcessStep(p), writeNum(p), NEW k \in Nums,
           RecordsOK(k)
    PROVE  RecordsOK(k)'
<1>1. /\ proc \in [Pids -> Process] /\ proc[p] \in Process /\ num \in [Nums -> Nat]
      /\ num[k] \in Nat /\ \A q \in Pids : proc[q].id \in Nat
  BY DEF TypeOK, Process
<1>2. /\ proc[p].at = "write" /\ proc'[p].at = "save" /\ proc'[p].todo = proc[p].todo
      /\ proc'[p].id = proc[p].id /\ UNCHANGED saved
      /\ num' = [num EXCEPT ![kind(p)] = proc[p].id + 1]
      /\ \A q \in Pids \ {p} : proc'[q] = proc[q]
  BY <1>1 DEF writeNum, step, goto, Process
<1>3. Died => Died'
  BY <1>2 DEF Died
<1>4. kind(p)' = kind(p) /\ \A q \in Pids : kind(q)' = kind(q)
  BY <1>2 DEF kind
<1>5. CASE k # kind(p)
  <2>1. num'[k] = num[k] /\ saved'[k] = saved[k]
    BY <1>1, <1>2, <1>5
  <2>2. \A q \in Pids : /\ (Writing(q, k)' <=> Writing(q, k)) /\ (Saving(q, k)' <=> Saving(q, k))
                        /\ proc'[q].id = proc[q].id
    BY <1>2, <1>4, <1>5 DEF Writing, Saving
  <2>3. QED
    BY <1>3, <2>1, <2>2 DEF RecordsOK
<1>6. CASE k = kind(p)
  <2>1. Writing(p, k) /\ proc[p].id = num[k] /\ num'[k] = num[k] + 1
    BY <1>1, <1>2, <1>6 DEF Writing, RecordsOK
  <2>2. ASSUME NEW q \in Pids, Writing(q, k)
        PROVE  q = p
    <3>1. k \in Sems /\ k \in holds(p) /\ k \in holds(q)
      BY <2>1, <2>2 DEF Sems, holds, Writing
    <3>2. QED
      BY <3>1 DEF MutexInv
  <2>3. \A q \in Pids : ~Writing(q, k)'
    BY <1>2, <1>4, <2>2 DEF Writing
  <2>4. /\ Saving(p, k)' /\ proc'[p].id = num[k]
        /\ \A q \in Pids \ {p} : (Saving(q, k)' <=> Saving(q, k)) /\ proc'[q].id = proc[q].id
    BY <1>2, <1>4, <1>6, <2>1 DEF Saving
  <2>5. \A q \in Pids \ {p} : Saving(q, k) => proc[q].id < num[k] /\ proc[q].id \notin saved[k]
    BY DEF RecordsOK
  <2>6. saved'[k] = saved[k] /\ saved[k] \subseteq 0 .. num[k] - 1 /\ num[k] \notin saved[k]
    BY <1>1, <1>2 DEF RecordsOK
  <2>7. saved'[k] \subseteq 0 .. num'[k] - 1
    BY <1>1, <2>1, <2>6
  <2>8. \A q \in Pids : Saving(q, k)' => proc'[q].id < num'[k] /\ proc'[q].id \notin saved'[k]
    BY <1>1, <2>1, <2>4, <2>5, <2>6
  <2>9. \A q, r \in Pids : Saving(q, k)' /\ Saving(r, k)' /\ proc'[q].id = proc'[r].id => q = r
    <3> SUFFICES ASSUME NEW q \in Pids, NEW r \in Pids, Saving(q, k)', Saving(r, k)',
                        proc'[q].id = proc'[r].id, q # r
                 PROVE  FALSE
      OBVIOUS
    <3>1. CASE q = p \/ r = p
      BY <1>1, <2>4, <2>5, <3>1
    <3>2. CASE q # p /\ r # p
      BY <2>4, <3>2 DEF RecordsOK
    <3>3. QED
      BY <3>1, <3>2
  <2>10. Died' \/ \A i \in 0 .. num'[k] - 1 :
                    i \in saved'[k] \/ \E q \in Pids : Saving(q, k)' /\ proc'[q].id = i
    <3> SUFFICES ASSUME ~Died, NEW i \in 0 .. num'[k] - 1, i \notin saved'[k]
                 PROVE  \E q \in Pids : Saving(q, k)' /\ proc'[q].id = i
      BY <1>3
    <3>1. CASE i = num[k]
      BY <2>4, <3>1
    <3>2. CASE i # num[k]
      <4>1. i \in 0 .. num[k] - 1
        BY <1>1, <2>1, <3>2
      <4>2. PICK q \in Pids : Saving(q, k) /\ proc[q].id = i
        BY <2>6, <4>1 DEF RecordsOK
      <4>3. q # p
        BY <1>2, <4>2 DEF Saving
      <4>4. QED
        BY <2>4, <4>2, <4>3
    <3>3. QED
      BY <3>1, <3>2
  <2>11. QED
    BY <2>3, <2>7, <2>8, <2>9, <2>10 DEF RecordsOK
<1>7. QED
  BY <1>5, <1>6

(* A record is saved under an id that no earlier record of the kind has.    *)
LEMMA RecordsSave ==
    ASSUME TypeOK, NEW p \in Pids, ProcessStep(p), saveRecord(p), NEW k \in Nums,
           RecordsOK(k)
    PROVE  RecordsOK(k)' /\ (k = kind(p) => proc[p].id \notin saved[k])
<1>1. /\ proc \in [Pids -> Process] /\ proc[p] \in Process /\ saved \in [Nums -> SUBSET Nat]
      /\ num[k] \in Nat /\ \A q \in Pids : proc[q].id \in Nat
  BY DEF TypeOK, Process
<1>2. /\ proc[p].at = "save" /\ proc'[p].at \in {"test", "read"} /\ UNCHANGED num
      /\ saved' = [saved EXCEPT ![kind(p)] = @ \cup {proc[p].id}]
      /\ \A q \in Pids \ {p} : proc'[q] = proc[q]
  BY <1>1 DEF saveRecord, step, goto, Process
<1>3. Died => Died'
  BY <1>2 DEF Died
<1>4. \A q \in Pids \ {p} : /\ (Writing(q, k)' <=> Writing(q, k))
                            /\ (Saving(q, k)' <=> Saving(q, k)) /\ proc'[q].id = proc[q].id
  BY <1>2 DEF Writing, Saving, kind
<1>5. ~Writing(p, k) /\ ~Writing(p, k)' /\ ~Saving(p, k)'
  BY <1>2 DEF Writing, Saving
<1>6. CASE k # kind(p)
  <2>1. num'[k] = num[k] /\ saved'[k] = saved[k] /\ ~Saving(p, k)
    BY <1>1, <1>2, <1>6 DEF Saving
  <2>2. \A q \in Pids : Saving(q, k) => q # p
    BY <2>1
  <2>3. QED
    BY <1>3, <1>4, <1>5, <1>6, <2>1, <2>2 DEF RecordsOK
<1>7. CASE k = kind(p)
  <2>1. /\ Saving(p, k) /\ saved'[k] = saved[k] \cup {proc[p].id} /\ num'[k] = num[k]
        /\ proc[p].id < num[k] /\ proc[p].id \notin saved[k]
    BY <1>1, <1>2, <1>7 DEF Saving, RecordsOK
  <2>2. saved'[k] \subseteq 0 .. num'[k] - 1
    BY <1>1, <2>1 DEF RecordsOK
  <2>3. \A q \in Pids : Writing(q, k)' => proc'[q].id = num'[k]
    BY <1>4, <1>5, <2>1 DEF RecordsOK
  <2>4. ASSUME NEW q \in Pids, Saving(q, k)'
        PROVE  proc'[q].id < num'[k] /\ proc'[q].id \notin saved'[k]
    <3>1. q # p /\ Saving(q, k) /\ proc'[q].id = proc[q].id
      BY <1>4, <1>5, <2>4
    <3>2. proc[q].id # proc[p].id /\ proc[q].id < num[k] /\ proc[q].id \notin saved[k]
      BY <2>1, <3>1 DEF RecordsOK
    <3>3. QED
      BY <2>1, <3>1, <3>2
  <2>5. \A q, r \in Pids : Saving(q, k)' /\ Saving(r, k)' /\ proc'[q].id = proc'[r].id => q = r
    BY <1>4, <1>5 DEF RecordsOK
  <2>6. Died' \/ \A i \in 0 .. num'[k] - 1 :
                    i \in saved'[k] \/ \E q \in Pids : Saving(q, k)' /\ proc'[q].id = i
    <3> SUFFICES ASSUME ~Died, NEW i \in 0 .. num[k] - 1, i \notin saved'[k]
                 PROVE  \E q \in Pids : Saving(q, k)' /\ proc'[q].id = i
      BY <1>3, <2>1
    <3>1. PICK q \in Pids : Saving(q, k) /\ proc[q].id = i
      BY <2>1 DEF RecordsOK
    <3>2. q # p
      BY <2>1, <3>1
    <3>3. QED
      BY <1>4, <3>1, <3>2
  <2>7. QED
    BY <2>1, <2>2, <2>3, <2>4, <2>5, <2>6 DEF RecordsOK
<1>8. QED
  BY <1>6, <1>7

(* Every step of a child keeps the record invariant.                        *)
LEMMA RecordChild ==
    ASSUME BaseInv, RecordInv, NEW p \in Pids, Child(p) \/ lateTimer(p) \/ crash(p)
    PROVE  RecordInv'
<1>1. TypeOK /\ SlotInv /\ MutexInv /\ ProcessStep(p)
  BY BaseChild DEF BaseInv
<1>2. killed' = killed /\ pc' = pc
  BY <1>1 DEF ProcessStep, parentVars
<1>3. ~killed => \A k \in Nums : RecordsOK(k)'
  BY <1>1, ChildRecords, RecordsQuiet, RecordsDying, RecordsRead, RecordsWrite, RecordsSave
     DEF RecordInv
<1>4. overwritten' => killed'
  <2>1. CASE saveRecord(p)
    <3>1. overwritten' = (overwritten \/ proc[p].id \in saved[kind(p)])
      BY <2>1 DEF saveRecord
    <3>2. ~killed => proc[p].id \notin saved[kind(p)]
      BY <1>1, <2>1, KindType, RecordsSave DEF RecordInv
    <3>3. QED
      BY <1>2, <3>1, <3>2 DEF RecordInv
  <2>2. CASE UNCHANGED overwritten
    BY <1>2, <2>2 DEF RecordInv
  <2>3. QED
    BY <1>1, <2>1, <2>2, ChildRecords DEF QuietStep, DyingStep, readNum, writeNum
<1>5. QED
  BY <1>2, <1>3, <1>4 DEF RecordInv

(* The parent's steps other than giving up change no record in work.        *)
LEMMA RecordsFrame ==
    ASSUME UNCHANGED <<num, saved>>, NEW k \in Nums, RecordsOK(k), Died => Died',
           \A q \in Pids : \/ proc'[q] = proc[q]
                           \/ /\ proc'[q].at \notin {"write", "save"}
                              /\ proc[q].at \notin {"write", "save"}
    PROVE  RecordsOK(k)'
<1>1. \A q \in Pids : /\ (Writing(q, k)' <=> Writing(q, k)) /\ (Saving(q, k)' <=> Saving(q, k))
                      /\ Writing(q, k) \/ Saving(q, k) => proc'[q].id = proc[q].id
  BY DEF Writing, Saving, kind
<1>2. num'[k] = num[k] /\ saved'[k] = saved[k]
  OBVIOUS
<1>3. QED
  BY <1>1, <1>2 DEF RecordsOK

(* Every step of the parent keeps the record invariant.                     *)
LEMMA RecordParent ==
    ASSUME BaseInv, RecordInv, Parent
    PROVE  RecordInv'
<1>1. TypeOK /\ SlotInv /\ UNCHANGED <<num, saved, overwritten>>
  BY ParentShared DEF BaseInv, shared
<1>2. ASSUME abort
      PROVE  RecordInv'
  BY <1>2 DEF abort, RecordInv
<1>3. ASSUME UNCHANGED killed, pc' # "aborted", Died => Died',
             \A q \in Pids : \/ proc'[q] = proc[q]
                             \/ /\ proc'[q].at \notin {"write", "save"}
                                /\ proc[q].at \notin {"write", "save"}
      PROVE  RecordInv'
  BY <1>1, <1>3, RecordsFrame DEF RecordInv
<1>4. CASE fork
  <2> DEFINE n == forked + 1
  <2>1. /\ n \in Pids /\ proc'[n] = NewProcess(freeSlot) /\ proc[n].at = "none"
        /\ \A q \in Pids \ {n} : proc'[q] = proc[q]
        /\ pc' \in {"loop", "wait"} /\ UNCHANGED killed
    BY <1>1, <1>4, ForkStep
  <2>2. proc'[n].at = "boot"
    BY <2>1 DEF NewProcess
  <2> HIDE DEF n
  <2>3. Died => Died'
    BY <2>1 DEF Died
  <2>4. QED
    BY <1>3, <2>1, <2>2, <2>3
<1>5. CASE drain
  BY <1>1, <1>3, <1>5, DrainStep DEF Died
<1>6. CASE checkState
  <2>1. CASE states[proc[ended].slot] # "NORMAL"
    BY <1>2, <1>6, <2>1 DEF checkState
  <2>2. CASE states[proc[ended].slot] = "NORMAL"
    BY <1>1, <1>3, <1>6, <2>2, CheckStep DEF Died
  <2>3. QED
    BY <2>1, <2>2
<1>7. ASSUME NEW p \in Pids, waitPid(p)
      PROVE  RecordInv'
  <2>1. CASE proc[p].status # 0
    BY <1>2, <1>7, <2>1 DEF waitPid
  <2>2. CASE proc[p].status = 0
    <3>1. /\ pc' = "check" /\ proc[p].at = "exit" /\ proc[p] \in Process
          /\ proc'[p] = [proc[p] EXCEPT !.at = "reaped"]
          /\ \A q \in Pids \ {p} : proc'[q] = proc[q]
          /\ UNCHANGED killed
      BY <1>1, <1>7, <2>2, WaitStep DEF TypeOK
    <3>2. proc'[p].at = "reaped"
      BY <3>1 DEF Process
    <3>3. Died => Died'
      BY <2>2, <3>1 DEF Died
    <3>4. QED
      BY <1>3, <3>1, <3>2, <3>3
  <2>3. QED
    BY <2>1, <2>2
<1>8. QED
  BY <1>4, <1>5, <1>6, <1>7 DEF Parent

(* A session that ended by itself left the ids 0 .. n - 1.                  *)
LEMMA DenseAtEnd ==
    ASSUME BaseInv, RecordInv, pc = "over", ~killed, NEW k \in Nums
    PROVE  saved[k] = 0 .. num[k] - 1
<1>1. ~Died /\ \A q \in Pids : ~Saving(q, k)
  BY DEF BaseInv, SlotInv, Died, Saving
<1>2. QED
  BY <1>1 DEF RecordInv, RecordsOK

(* A new session starts its numbers from the records on disk.               *)
LEMMA RecordRestart ==
    ASSUME BaseInv, RecordInv, restart
    PROVE  RecordInv'
<1>1. /\ pc \in {"over", "aborted"} /\ pc' = "loop" /\ UNCHANGED <<saved, overwritten, killed>>
      /\ num' = [k \in Nums |-> Cardinality(saved[k])]
  BY DEF restart
<1>2. \A q \in Pids : proc'[q].at = "none"
  BY RestartStep, NoProcessType DEF BaseInv
<1>3. ASSUME ~killed, NEW k \in Nums
      PROVE  RecordsOK(k)'
  <2>1. saved[k] = 0 .. num[k] - 1 /\ num[k] \in Nat
    BY <1>1, <1>3, DenseAtEnd DEF RecordInv, BaseInv, TypeOK
  <2>2. Cardinality(0 .. num[k] - 1) = num[k]
    <3>1. Cardinality(0 .. num[k] - 1) = IF 0 > num[k] - 1 THEN 0 ELSE (num[k] - 1) - 0 + 1
      BY <2>1, FS_Interval, SMTT(60)
    <3>2. QED
      BY <2>1, <3>1
  <2>3. num'[k] = num[k]
    BY <1>1, <2>1, <2>2
  <2>4. \A q \in Pids : ~Writing(q, k)' /\ ~Saving(q, k)'
    BY <1>2 DEF Writing, Saving
  <2>5. QED
    BY <1>1, <2>1, <2>3, <2>4 DEF RecordsOK
<1>4. QED
  BY <1>1, <1>3 DEF RecordInv

(* There are no records before the first session.                           *)
LEMMA RecordInit == Init => RecordInv
<1> SUFFICES ASSUME Init
             PROVE  RecordInv
  OBVIOUS
<1>1. \A q \in Pids : proc[q].at = "none"
  BY NoProcessType DEF Init
<1>2. ASSUME NEW k \in Nums
      PROVE  RecordsOK(k)
  BY <1>1 DEF Init, RecordsOK, Writing, Saving
<1>3. QED
  BY <1>2 DEF Init, RecordInv

(* The record invariant is inductive above the base invariant.              *)
LEMMA RecordNext == BaseInv /\ RecordInv /\ [Next]_vars => RecordInv'
<1> SUFFICES ASSUME BaseInv, RecordInv, [Next]_vars
             PROVE  RecordInv'
  OBVIOUS
<1>1. CASE UNCHANGED vars
  <2>1. UNCHANGED <<proc, num, saved, overwritten, killed, pc>>
    BY <1>1 DEF vars, parentVars, shared, history
  <2>2. QED
    BY <2>1, RecordsFrame DEF RecordInv, Died
<1>2. QED
  BY <1>1, RecordChild, RecordParent, RecordRestart DEF Next

(* No saved mismatch or corpus entry is written again before the first      *)
(* killed session, over any number of sessions on one directory.            *)
THEOREM RecordsAreKept == Spec => []RecordsKept
<1>1. RecordInv => RecordsKept
  BY DEF RecordInv, RecordsKept
<1>2. QED
  BY <1>1, RecordInit, RecordNext, BaseInit, BaseNext, PTL DEF Spec

(* Sessions that end by themselves leave ids without gaps.                  *)
THEOREM RecordsAreDense == Spec => []RecordsDense
<1>1. BaseInv /\ RecordInv => RecordsDense
  BY DenseAtEnd DEF RecordsDense
<1>2. QED
  BY <1>1, RecordInit, RecordNext, BaseInit, BaseNext, PTL DEF Spec

-----------------------------------------------------------------------------
(* The coverage map.                                                        *)

(* Only the three parts of store_covmap matter; other steps of a process    *)
(* keep the map and the log and do not enter the critical section.          *)
LEMMA ChildCoverage ==
    ASSUME TypeOK, NEW p \in Pids, Child(p) \/ lateTimer(p) \/ crash(p)
    PROVE  \/ UNCHANGED <<covmap, cov_log>> /\ proc'[p].at \notin {"truncate", "store"}
           \/ merge(p) \/ truncate(p) \/ storeCovmap(p)
<1>1. proc \in [Pids -> Process] /\ proc[p] \in Process /\ "exit" \in Places
  BY DEF TypeOK, Places
<1> USE <1>1
<1> DEFINE Calm == UNCHANGED <<covmap, cov_log>> /\ proc'[p].at \notin {"truncate", "store"}
<1>2. boot(p) => Calm
  BY DEF boot, step, goto, Process
<1>3. covRestore(p) => Calm
  BY DEF covRestore, step, goto, shared, Process
<1>4. testDropped(p) => Calm
  BY DEF testDropped, step, shared, Process
<1>5. testsOver(p) => Calm
  BY DEF testsOver, step, goto, shared, Process
<1>6. ASSUME NEW code, testFails(p, code)
      PROVE  Calm
  BY <1>6 DEF testFails, step, goto, shared, Process
<1>7. ASSUME NEW m, NEW new, testDone(p, m, new)
      PROVE  Calm
  <2>1. proc'[p].at \in {"test", "read"} /\ UNCHANGED <<covmap, cov_log>>
    BY <1>7 DEF testDone, step, goto, shared, Process
  <2>2. QED
    BY <2>1
<1>8. readNum(p) => Calm
  BY DEF readNum, step, goto, Process
<1>9. writeNum(p) => Calm
  BY DEF writeNum, step, goto, Process
<1>10. ASSUME saveRecord(p)
       PROVE  Calm
  <2>1. proc'[p].at \in {"test", "read"} /\ UNCHANGED <<covmap, cov_log>>
    BY <1>10 DEF saveRecord, step, goto, Process
  <2>2. QED
    BY <2>1
<1>11. saveErr(p) => Calm
  BY DEF saveErr, step, goto, shared, Process
<1>12. setStateRead(p) => Calm
  BY DEF setStateRead, step, goto, Process
<1>13. setStateWrite(p) => Calm
  BY DEF setStateWrite, step, goto, Process
<1>14. ASSUME NEW status \in {0, 1}, mergeTorn(p, status)
       PROVE  Calm
  BY <1>14, RemainsType DEF mergeTorn
<1>15. lateTimer(p) => Calm
  BY DEF lateTimer, step, shared, Process
<1>16. crash(p) => Calm
  BY RemainsType DEF crash, shared
<1> HIDE DEF Calm
<1>17. Calm \/ merge(p) \/ truncate(p) \/ storeCovmap(p)
  BY <1>2, <1>3, <1>4, <1>5, <1>6, <1>7, <1>8, <1>9, <1>10, <1>11, <1>12, <1>13, <1>14, <1>15,
     <1>16 DEF Child
<1>18. QED
  BY <1>17 DEF Calm

(* No step of a child lowers the coverage that was logged.                  *)
LEMMA CoverageChild ==
    ASSUME BaseInv, CoverageInv, NEW p \in Pids, Child(p) \/ lateTimer(p) \/ crash(p)
    PROVE  CoverageInv' /\ cov_log' >= cov_log
<1>1. /\ TypeOK /\ MutexInv /\ proc \in [Pids -> Process] /\ proc[p] \in Process
      /\ covmap \in [points : SUBSET Points, torn : BOOLEAN] /\ cov_log \in Nat
      /\ proc[p].cov \in SUBSET Points /\ "exit" \in Places
  BY DEF BaseInv, TypeOK, Process, Places
<1>2. \A q \in Pids \ {p} : proc'[q] = proc[q]
  BY <1>1, BaseChild DEF ProcessStep
<1>3. CASE UNCHANGED <<covmap, cov_log>> /\ proc'[p].at \notin {"truncate", "store"}
  BY <1>1, <1>2, <1>3 DEF CoverageInv
<1>4. CASE merge(p)
  <2>1. /\ ~covmap.torn /\ UNCHANGED <<covmap, cov_log>>
        /\ proc'[p].cov = proc[p].cov \cup covmap.points
    BY <1>1, <1>4 DEF merge, step, goto, Process
  <2>2. /\ cov_log <= Cardinality(covmap.points)
        /\ Cardinality(covmap.points) <= Cardinality(proc'[p].cov)
        /\ Cardinality(covmap.points) \in Nat /\ Cardinality(proc'[p].cov) \in Nat
    <3>1. covmap.points \in SUBSET Points /\ proc[p].cov \cup covmap.points \in SUBSET Points
      BY <1>1
    <3>2. QED
      BY <1>1, <2>1, <3>1, CovUnion, CovSize DEF CoverageInv
  <2>3. cov_log <= Cardinality(proc'[p].cov)
    BY <1>1, <2>2
  <2>4. \A q \in Pids : proc'[q].at \in {"truncate", "store"}
          => cov_log' <= Cardinality(proc'[q].cov)
    BY <1>2, <2>1, <2>3 DEF CoverageInv
  <2>5. ~covmap'.torn => cov_log' <= Cardinality(covmap'.points)
    BY <2>1, <2>2
  <2>6. QED
    BY <1>1, <2>1, <2>4, <2>5 DEF CoverageInv
<1>5. CASE truncate(p)
  <2>1. proc[p].at = "truncate" /\ UNCHANGED cov_log /\ covmap' = [points |-> {}, torn |-> TRUE]
    BY <1>5 DEF truncate
  <2>2. proc'[p].cov = proc[p].cov
    BY <1>1, <1>5 DEF truncate, step, goto, Process
  <2>3. covmap'.torn
    BY <2>1
  <2>4. \A q \in Pids : proc'[q].at \in {"truncate", "store"}
          => cov_log' <= Cardinality(proc'[q].cov)
    BY <1>2, <2>1, <2>2 DEF CoverageInv
  <2>5. QED
    BY <1>1, <2>1, <2>3, <2>4 DEF CoverageInv
<1>6. CASE storeCovmap(p)
  <2>1. /\ proc[p].at = "store" /\ proc'[p].at = "exit"
        /\ covmap' = [points |-> proc[p].cov, torn |-> FALSE]
        /\ cov_log' = Cardinality(proc[p].cov)
    BY <1>1, <1>6, RemainsType DEF storeCovmap, step
  <2>2. cov_log <= Cardinality(proc[p].cov) /\ Cardinality(proc[p].cov) \in Nat
    BY <1>1, <2>1, CovSize DEF CoverageInv
  <2>3. ASSUME NEW q \in Pids, proc[q].at \in {"truncate", "store"}
        PROVE  q = p
    <3>1. "covMap" \in Sems /\ "covMap" \in holds(p) /\ "covMap" \in holds(q)
      BY <2>1, <2>3 DEF Sems, holds
    <3>2. QED
      BY <1>1, <3>1 DEF MutexInv
  <2>4. \A q \in Pids : proc'[q].at \notin {"truncate", "store"}
    BY <1>2, <2>1, <2>3
  <2>5. cov_log' >= cov_log /\ cov_log' <= Cardinality(covmap'.points)
    BY <1>1, <2>1, <2>2
  <2>6. QED
    BY <2>4, <2>5 DEF CoverageInv
<1>7. QED
  BY <1>1, <1>3, <1>4, <1>5, <1>6, ChildCoverage

(* The parent leaves the logged coverage alone.                             *)
LEMMA CoverageParent ==
    ASSUME BaseInv, CoverageInv, Parent
    PROVE  CoverageInv' /\ cov_log' = cov_log
<1>1. TypeOK /\ SlotInv /\ UNCHANGED <<covmap, cov_log>>
  BY ParentShared DEF BaseInv, shared
<1>2. ASSUME \A q \in Pids : proc'[q] = proc[q] \/ proc'[q].at \notin {"truncate", "store"}
      PROVE  CoverageInv' /\ cov_log' = cov_log
  BY <1>1, <1>2 DEF CoverageInv
<1>3. CASE fork
  <2>1. \A q \in Pids : proc'[q] = proc[q] \/ proc'[q] = NewProcess(freeSlot)
    BY <1>1, <1>3, ForkStep
  <2>2. NewProcess(freeSlot).at = "boot"
    BY DEF NewProcess
  <2>3. QED
    BY <1>2, <2>1, <2>2
<1>4. CASE drain
  BY <1>1, <1>2, <1>4, DrainStep
<1>5. ASSUME abort, ended' \in Pids \cup {0}
      PROVE  CoverageInv' /\ cov_log' = cov_log
  BY <1>1, <1>2, <1>5, AbortStep
<1>6. CASE checkState
  <2>1. CASE states[proc[ended].slot] # "NORMAL"
    BY <1>1, <1>5, <1>6, <2>1 DEF checkState, TypeOK
  <2>2. CASE states[proc[ended].slot] = "NORMAL"
    BY <1>1, <1>2, <1>6, <2>2, CheckStep
  <2>3. QED
    BY <2>1, <2>2
<1>7. ASSUME NEW p \in Pids, waitPid(p)
      PROVE  CoverageInv' /\ cov_log' = cov_log
  <2>1. CASE proc[p].status # 0
    BY <1>5, <1>7, <2>1 DEF waitPid
  <2>2. CASE proc[p].status = 0
    <3>1. /\ proc[p] \in Process /\ proc'[p] = [proc[p] EXCEPT !.at = "reaped"]
          /\ \A q \in Pids \ {p} : proc'[q] = proc[q]
      BY <1>1, <1>7, <2>2, WaitStep DEF TypeOK
    <3>2. proc'[p].at = "reaped"
      BY <3>1 DEF Process
    <3>3. QED
      BY <1>2, <3>1, <3>2
  <2>3. QED
    BY <2>1, <2>2
<1>8. QED
  BY <1>3, <1>4, <1>6, <1>7 DEF Parent

(* Within a session the logged coverage never falls.                        *)
LEMMA CoverageNext ==
    BaseInv /\ CoverageInv /\ [Next]_vars
        => CoverageInv' /\ (session' = session => cov_log' >= cov_log)
<1> SUFFICES ASSUME BaseInv, CoverageInv, [Next]_vars
             PROVE  CoverageInv' /\ (session' = session => cov_log' >= cov_log)
  OBVIOUS
<1>1. /\ cov_log \in Nat /\ session \in Nat
      /\ covmap.points \in SUBSET Points /\ Cardinality(covmap.points) \in Nat
  BY CovSize DEF BaseInv, TypeOK
<1>2. CASE UNCHANGED vars
  BY <1>1, <1>2 DEF vars, parentVars, shared, history, CoverageInv
<1>3. CASE restart
  <2>1. cov_log' = 0 /\ UNCHANGED covmap /\ session' = session + 1
    BY <1>3 DEF restart
  <2>2. \A q \in Pids : proc'[q].at = "none"
    BY <1>3, RestartStep, NoProcessType DEF BaseInv
  <2>3. QED
    BY <1>1, <2>1, <2>2 DEF CoverageInv
<1>4. CASE Parent
  BY <1>1, <1>4, CoverageParent
<1>5. QED
  BY <1>2, <1>3, <1>4, CoverageChild DEF Next

(* The total coverage a session logs never goes down.                       *)
THEOREM CoverageOnlyGrows == Spec => CoverageGrows
<1>1. Init => CoverageInv
  <2> SUFFICES ASSUME Init
               PROVE  CoverageInv
    OBVIOUS
  <2>1. \A q \in Pids : proc[q].at = "none"
    BY NoProcessType DEF Init
  <2>2. cov_log = 0 /\ covmap.points = {} /\ Cardinality(covmap.points) = 0
    BY FS_EmptySet DEF Init
  <2>3. QED
    BY <2>1, <2>2 DEF CoverageInv
<1>2. BaseInv /\ CoverageInv /\ [Next]_vars => [session' = session => cov_log' >= cov_log]_vars
  BY CoverageNext
<1>3. BaseInv /\ CoverageInv /\ [Next]_vars => CoverageInv'
  BY CoverageNext
<1>4. QED
  BY <1>1, <1>2, <1>3, BaseInit, BaseNext, PTL DEF Spec, CoverageGrows

=============================================================================
