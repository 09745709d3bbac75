----------------------------- MODULE Multicore -----------------------------
(***************************************************************************)
(* Multicore fuzzing: DifuzzRTL.py forks one process per batch and core,    *)
(* each runs Fuzzer.Run, and they share, through procManager, two counters, *)
(* four semaphores, an array of process states, and the output directory.   *)
(*                                                                         *)
(* A process takes one step between two operations another process can      *)
(* observe: a semaphore, a shared read or write, a file.  What a test does  *)
(* (compile, Spike, RTL, comparison) is its outcome: nothing to report, a   *)
(* mismatch, new coverage points, or the code that ends the loop.           *)
(* RECORD = 1 is assumed: results are saved.  The output directory outlives *)
(* a session; a session that failed is started again by its user.           *)
(***************************************************************************)
EXTENDS Naturals, FiniteSets

CONSTANTS
    Cores,       \* multicore
    Batches,     \* num_batch
    Iters,       \* num_iter (5000 in the code)
    Points,      \* coverage points of the design
    MaxSessions, \* bound: starts of DifuzzRTL.py on one output directory
    MaxCrashes   \* bound: processes killed from outside (out of memory)

ASSUME CoresAssumption == Cores \in Nat \ {0} /\ Batches \in Nat /\ Iters \in Nat
ASSUME PointsAssumption == IsFiniteSet(Points)
ASSUME BoundsAssumption == MaxSessions \in Nat /\ MaxCrashes \in Nat

VARIABLES
    pc,         \* the parent: loop, wait, check, over, aborted
    forked,     \* the loop variable i: processes forked in this session
    pid_arr,    \* proc_pid_arr: slot -> process, 0 when free
    ended,      \* the process waitpid returned
    proc,       \* process -> its local state
    num,        \* shared memory of mNum and cNum
    sem,        \* the semaphores
    states,     \* proc_states
    saved,      \* ids in mismatch/sim_input and in corpus
    overwritten,\* history: a saved file was written again
    covmap,     \* the merged coverage map; torn: truncated, not yet written
    cov_log,    \* the coverage column of the last line of cov_log
    lost,       \* history: semaphores whose holder died in this session
    session, crashes, killed  \* history: starts, crashes, killed sessions

shared == <<num, sem, states, saved, overwritten, covmap, cov_log>>
parentVars == <<pc, forked, pid_arr, ended>>
history == <<lost, session, crashes, killed>>
vars == <<parentVars, proc, shared, history>>

-----------------------------------------------------------------------------
Slots == 0 .. Cores - 1
Pids == 1 .. Batches * Cores
Nums == {"mNum", "cNum"}
Sems == Nums \cup {"covMap", "state"}

(* A process: where it is, its slot, iterations done, stop code, records    *)
(* still to save and the id of the one in work, coverage reached, the size  *)
(* last logged, the states it read, whether a late timer fired, exit status *)
NewProcess(slot) ==
    [at |-> "boot", slot |-> slot, it |-> 0, stop |-> "NORMAL", todo |-> {}, id |-> 0,
     cov |-> {}, last |-> 0, snap |-> [s \in Slots |-> "NORMAL"], late |-> FALSE, status |-> 0]
NoProcess == [NewProcess(0) EXCEPT !.at = "none"]

Live == {p \in Pids : proc[p].at \notin {"none", "exit", "reaped"}}
running == Cardinality({s \in Slots : pid_arr[s] # 0})

P(x) == sem[x] > 0 /\ sem' = [sem EXCEPT ![x] = @ - 1]
V(x) == sem' = [sem EXCEPT ![x] = @ + 1]
Probe(x) == sem[x] > 0 /\ UNCHANGED sem    \* P and V with only a read in between

(* One process moves on; the others, the parent and the history stay.       *)
step(p, new) ==
    /\ proc' = [proc EXCEPT ![p] = new]
    /\ UNCHANGED <<parentVars, history>>
goto(p, l) == [proc[p] EXCEPT !.at = l]
(* What is left of a process that has ended.                                *)
remains(p, l, status) ==
    [NewProcess(proc[p].slot) EXCEPT !.at = l, !.stop = proc[p].stop, !.status = status]

-----------------------------------------------------------------------------
(* The child: Fuzzer.Run.                                                   *)

(* The last line of cov_log is read under the covMap semaphore.             *)
boot(p) ==
    /\ proc[p].at = "boot" /\ Probe("covMap")
    /\ step(p, goto(p, "restore"))
    /\ UNCHANGED <<num, states, saved, overwritten, covmap, cov_log>>

(* cov_restore: the design reads the map without the semaphore.             *)
covRestore(p) ==
    /\ proc[p].at = "restore"
    /\ step(p, [goto(p, "test") EXCEPT !.cov = IF covmap.torn THEN {} ELSE covmap.points])
    /\ UNCHANGED shared

(* One iteration.  A test whose Spike run timed out, or whose interrupt was *)
(* not taken, is dropped; a TIMEOUT left behind by an earlier timer is      *)
(* cleared and drops this test.                                             *)
testDropped(p) ==
    /\ proc[p].at = "test" /\ proc[p].it < Iters
    /\ step(p, [proc[p] EXCEPT !.it = @ + 1, !.stop = "NORMAL"])
    /\ UNCHANGED shared

testFails(p, code) ==
    /\ proc[p].at = "test" /\ proc[p].it < Iters
    /\ proc[p].stop = "NORMAL" \/ code = "ERR_COMPILE"
    /\ step(p, [goto(p, "err") EXCEPT !.stop = code])
    /\ UNCHANGED shared

testDone(p, mismatch, new) ==
    /\ proc[p].at = "test" /\ proc[p].it < Iters /\ proc[p].stop = "NORMAL"
    /\ LET cov == proc[p].cov \cup new
           todo == {n \in Nums : \/ n = "mNum" /\ mismatch
                                 \/ n = "cNum" /\ Cardinality(cov) > proc[p].last}
       IN step(p, [goto(p, IF todo = {} THEN "test" ELSE "read")
                     EXCEPT !.it = @ + 1, !.cov = cov, !.todo = todo,
                            !.last = IF "cNum" \in todo THEN Cardinality(cov) ELSE @])
    /\ UNCHANGED shared

testsOver(p) ==
    /\ proc[p].at = "test" /\ proc[p].it = Iters
    /\ step(p, goto(p, "err"))
    /\ UNCHANGED shared

(* isa_timeout is a thread: a timer that fired just before timer.cancel()   *)
(* sets the stop code later, whatever the process is doing by then (at most *)
(* once per process here; the code is not read after set_state).            *)
lateTimer(p) ==
    /\ proc[p].at \in {"test", "read", "write", "save", "err", "setP"}
    /\ proc[p].it > 0 /\ ~proc[p].late
    /\ step(p, [proc[p] EXCEPT !.stop = "ERR_ISA_TIMEOUT", !.late = TRUE])
    /\ UNCHANGED shared

(* mismatch first, then coverage: read_num, write_num, save.                *)
kind(p) == IF "mNum" \in proc[p].todo THEN "mNum" ELSE "cNum"
readNumUnlocked(p) ==    \* a slip: read_num does not take the semaphore
    /\ proc[p].at = "read"
    /\ step(p, [goto(p, "write") EXCEPT !.id = num[kind(p)]])
    /\ UNCHANGED shared
readNumNext(p) ==    \* a slip: the id is the number after the count
    /\ proc[p].at = "read" /\ P(kind(p))
    /\ step(p, [goto(p, "write") EXCEPT !.id = num[kind(p)] + 1])
    /\ UNCHANGED <<num, states, saved, overwritten, covmap, cov_log>>
readNum(p) ==
    /\ proc[p].at = "read" /\ P(kind(p))
    /\ step(p, [goto(p, "write") EXCEPT !.id = num[kind(p)]])
    /\ UNCHANGED <<num, states, saved, overwritten, covmap, cov_log>>
writeNumKeeps(p) ==    \* a slip: write_num does not give the semaphore back
    /\ proc[p].at = "write"
    /\ num' = [num EXCEPT ![kind(p)] = proc[p].id + 1]
    /\ step(p, goto(p, "save"))
    /\ UNCHANGED <<sem, states, saved, overwritten, covmap, cov_log>>
writeNum(p) ==
    /\ proc[p].at = "write" /\ V(kind(p))
    /\ num' = [num EXCEPT ![kind(p)] = proc[p].id + 1]
    /\ step(p, goto(p, "save"))
    /\ UNCHANGED <<states, saved, overwritten, covmap, cov_log>>
saveRecord(p) ==
    /\ proc[p].at = "save"
    /\ LET k == kind(p) IN
        /\ saved' = [saved EXCEPT ![k] = @ \cup {proc[p].id}]
        /\ overwritten' = (overwritten \/ proc[p].id \in saved[k])
        /\ step(p, [goto(p, IF proc[p].todo = {k} THEN "test" ELSE "read") EXCEPT !.todo = @ \ {k}])
    /\ UNCHANGED <<num, sem, states, covmap, cov_log>>

(* save_err appends to fuzz_log under the state semaphore.                  *)
saveErr(p) ==
    /\ proc[p].at = "err"
    /\ proc[p].stop # "NORMAL" => sem["state"] > 0
    /\ step(p, goto(p, "setP"))
    /\ UNCHANGED shared

(* set_state rewrites the whole array.                                      *)
setStateReadUnlocked(p) ==    \* a slip: set_state does not take the semaphore
    /\ proc[p].at = "setP"
    /\ step(p, [goto(p, "setV") EXCEPT !.snap = [states EXCEPT ![proc[p].slot] = proc[p].stop]])
    /\ UNCHANGED shared
setStateRead(p) ==
    /\ proc[p].at = "setP" /\ P("state")
    /\ step(p, [goto(p, "setV") EXCEPT !.snap = [states EXCEPT ![proc[p].slot] = proc[p].stop]])
    /\ UNCHANGED <<num, states, saved, overwritten, covmap, cov_log>>
setStateWrite(p) ==
    /\ proc[p].at = "setV" /\ V("state")
    /\ states' = proc[p].snap
    /\ step(p, goto(p, "merge"))
    /\ UNCHANGED <<num, saved, overwritten, covmap, cov_log>>

(* store_covmap: read the merged map and or this process's map into it ...  *)
mergeUnlocked(p) ==    \* a slip: the map is read before covMap_sem.P
    /\ proc[p].at = "merge" /\ ~covmap.torn
    /\ step(p, [goto(p, "truncate") EXCEPT !.cov = @ \cup covmap.points])
    /\ UNCHANGED shared
merge(p) ==
    /\ proc[p].at = "merge" /\ ~covmap.torn /\ P("covMap")
    /\ step(p, [goto(p, "truncate") EXCEPT !.cov = @ \cup covmap.points])
    /\ UNCHANGED <<num, states, saved, overwritten, covmap, cov_log>>

(* ... a map an earlier session left truncated raises IndexError, with the  *)
(* semaphore held; whether the simulator then exits with 0 is cocotb's      *)
(* business ...                                                             *)
mergeTorn(p, status) ==
    /\ proc[p].at = "merge" /\ covmap.torn /\ P("covMap")
    /\ proc' = [proc EXCEPT ![p] = remains(p, "exit", status)]
    /\ lost' = lost \cup {"covMap"}
    /\ UNCHANGED <<parentVars, num, states, saved, overwritten, covmap, cov_log, session, crashes,
                   killed>>

(* ... open(..., 'w') ...                                                   *)
truncate(p) ==
    /\ proc[p].at = "truncate"
    /\ covmap' = [points |-> {}, torn |-> TRUE]
    /\ step(p, goto(p, "store"))
    /\ UNCHANGED <<num, sem, states, saved, overwritten, cov_log>>

(* ... write it back, log the sum, leave.                                   *)
storeCovmap(p) ==
    /\ proc[p].at = "store" /\ V("covMap")
    /\ covmap' = [points |-> proc[p].cov, torn |-> FALSE]
    /\ cov_log' = Cardinality(proc[p].cov)
    /\ step(p, remains(p, "exit", 0))
    /\ UNCHANGED <<num, states, saved, overwritten>>

(* The process is killed from outside, with the semaphore it holds.         *)
holds(p) == CASE proc[p].at = "write" -> {kind(p)}
              [] proc[p].at = "setV" -> {"state"}
              [] proc[p].at \in {"truncate", "store"} -> {"covMap"}
              [] OTHER -> {}
crash(p) ==
    /\ p \in Live /\ crashes < MaxCrashes
    /\ proc' = [proc EXCEPT ![p] = remains(p, "exit", 1)]
    /\ crashes' = crashes + 1 /\ lost' = lost \cup holds(p)
    /\ UNCHANGED <<parentVars, shared, session, killed>>

-----------------------------------------------------------------------------
(* The parent.                                                              *)

(* procManager.__init__: the counters continue from the number of files.    *)
Init ==
    /\ pc = "loop" /\ forked = 0 /\ ended = 0
    /\ pid_arr = [s \in Slots |-> 0] /\ proc = [p \in Pids |-> NoProcess]
    /\ num = [k \in Nums |-> 0] /\ sem = [x \in Sems |-> 1]
    /\ states = [s \in Slots |-> "NORMAL"]
    /\ saved = [k \in Nums |-> {}] /\ overwritten = FALSE
    /\ covmap = [points |-> {}, torn |-> FALSE] /\ cov_log = 0
    /\ lost = {} /\ session = 1 /\ crashes = 0 /\ killed = FALSE

restart ==
    /\ pc \in {"over", "aborted"} /\ session < MaxSessions
    /\ pc' = "loop" /\ forked' = 0 /\ ended' = 0
    /\ pid_arr' = [s \in Slots |-> 0] /\ proc' = [p \in Pids |-> NoProcess]
    /\ num' = [k \in Nums |-> Cardinality(saved[k])] /\ sem' = [x \in Sems |-> 1]
    /\ states' = [s \in Slots |-> "NORMAL"]
    /\ cov_log' = 0
    /\ lost' = {} /\ session' = session + 1
    /\ UNCHANGED <<saved, overwritten, covmap, crashes, killed>>

(* proc_pid_arr.index(0)                                                    *)
freeSlotByBatch == forked % Cores    \* a slip: the batch number picks the slot
freeSlot == CHOOSE s \in Slots : pid_arr[s] = 0 /\ \A t \in 0 .. s - 1 : pid_arr[t] # 0

fork ==
    /\ pc = "loop" /\ forked < Batches * Cores
    /\ forked' = forked + 1
    /\ pid_arr' = [pid_arr EXCEPT ![freeSlot] = forked + 1]
    /\ proc' = [proc EXCEPT ![forked + 1] = NewProcess(freeSlot)]
    /\ pc' = IF running + 1 = Cores THEN "wait" ELSE "loop"
    /\ UNCHANGED <<ended, shared, history>>

(* The loop is over: wait for the rest, then remove the shared objects.     *)
drain ==
    /\ pc = "loop" /\ forked = Batches * Cores
    /\ pc' = IF running > 0 THEN "wait" ELSE "over"
    /\ UNCHANGED <<forked, pid_arr, ended, proc, shared, history>>

(* Kill every process, exit(-1).  A free slot, kill(0), is the whole group. *)
abort ==
    /\ pc' = "aborted" /\ killed' = TRUE
    /\ proc' = [p \in Pids |-> IF proc[p].at = "none" THEN proc[p]
                           ELSE remains(p, "reaped", proc[p].status)]
    /\ UNCHANGED <<forked, pid_arr, shared, lost, session, crashes>>

(* wait_check: waitpid returns some process that has exited ...             *)
waitPid(p) ==
    /\ pc = "wait" /\ proc[p].at = "exit"
    /\ ended' = p
    /\ IF proc[p].status # 0 THEN abort
       ELSE /\ pc' = "check" /\ proc' = [proc EXCEPT ![p].at = "reaped"]
            /\ UNCHANGED <<forked, pid_arr, shared, history>>

(* ... and its state is looked up.                                          *)
checkState ==
    /\ pc = "check" /\ sem["state"] > 0
    /\ IF states[proc[ended].slot] # "NORMAL" THEN abort /\ UNCHANGED ended
       ELSE /\ pc' = "loop"
            /\ pid_arr' = [pid_arr EXCEPT ![proc[ended].slot] = 0]
            /\ UNCHANGED <<forked, ended, proc, shared, history>>

Child(p) ==
    \/ boot(p) \/ covRestore(p)
    \/ testDropped(p) \/ testsOver(p)
    \/ \E code \in {"ERR_COMPILE", "ERR_ISA_ASSERT", "ERR_RTL_SIM"} : testFails(p, code)
    \/ \E m \in BOOLEAN, new \in SUBSET Points : testDone(p, m, new)
    \/ readNum(p) \/ writeNum(p) \/ saveRecord(p)
    \/ saveErr(p) \/ setStateRead(p) \/ setStateWrite(p)
    \/ merge(p) \/ truncate(p) \/ storeCovmap(p)
    \/ \E status \in {0, 1} : mergeTorn(p, status)
Parent == fork \/ drain \/ checkState \/ \E p \in Pids : waitPid(p)

Next ==
    \/ \E p \in Pids : Child(p) \/ lateTimer(p) \/ crash(p)
    \/ Parent
    \/ restart

Spec == Init /\ [][Next]_vars

(* Every process runs; a P that stays possible is granted.  Timers, crashes *)
(* and restarts are not obliged to happen.                                  *)
FairSpec == Spec /\ WF_vars(Parent) /\ \A p \in Pids : WF_vars(Child(p))

-----------------------------------------------------------------------------
Places == {"none", "boot", "restore", "test", "read", "write", "save", "err", "setP", "setV",
           "merge", "truncate", "store", "exit", "reaped"}
Codes == {"NORMAL", "ERR_COMPILE", "ERR_ISA_ASSERT", "ERR_RTL_SIM", "ERR_ISA_TIMEOUT"}
Process == [at : Places, slot : Slots, it : Nat, stop : Codes, todo : SUBSET Nums, id : Nat,
            cov : SUBSET Points, last : Nat, snap : [Slots -> Codes], late : BOOLEAN,
            status : {0, 1}]

(* The state has the shape the code gives it; the semaphores are binary,    *)
(* although nothing in posix_ipc bounds what V does to one.                 *)
TypeOK ==
    /\ pc \in {"loop", "wait", "check", "over", "aborted"}
    /\ forked \in 0 .. Batches * Cores
    /\ pid_arr \in [Slots -> Pids \cup {0}] /\ ended \in Pids \cup {0}
    /\ proc \in [Pids -> Process]
    /\ num \in [Nums -> Nat] /\ sem \in [Sems -> {0, 1}] /\ states \in [Slots -> Codes]
    /\ saved \in [Nums -> SUBSET Nat] /\ \A k \in Nums : IsFiniteSet(saved[k])
    /\ overwritten \in BOOLEAN
    /\ covmap \in [points : SUBSET Points, torn : BOOLEAN] /\ cov_log \in Nat
    /\ lost \subseteq Sems /\ session \in Nat /\ crashes \in Nat /\ killed \in BOOLEAN

(* Two live processes never share a slot: a slot names the files a process  *)
(* works in (.input_N, .isa_sig_N, covmap-N) and its entry in proc_states,  *)
(* and is handed on as soon as its owner has been reaped.                   *)
SlotExclusive ==
    \A p, q \in Live : proc[p].slot = proc[q].slot => p = q

(* No saved mismatch or corpus entry is overwritten, in this session or a   *)
(* later one, unless a session was killed before: ids are handed out under  *)
(* a semaphore, and a restart counts the files.                             *)
RecordsKept == overwritten => killed

(* A session that ends by itself leaves the ids 0 .. n - 1, none missing:   *)
(* what the next start, update_corpus and Minimize take for granted.        *)
RecordsDense ==
    (pc = "over" /\ ~killed) => \A k \in Nums : saved[k] = 0 .. num[k] - 1

(* The parent moves on from a process only if it ended in state NORMAL with *)
(* exit status 0, and gives up only for a reason: set_state rewrites every  *)
(* entry of the shared array, and slots are reused.                         *)
StopNoticed ==
    /\ pc # "aborted" =>
         \A p \in Pids : proc[p].at = "reaped" /\ ~(pc = "check" /\ ended = p) =>
             proc[p].stop = "NORMAL" /\ proc[p].status = 0
    /\ pc = "aborted" => \E p \in Pids : proc[p].stop # "NORMAL" \/ proc[p].status # 0

(* Within a session the logged total coverage never goes down, although     *)
(* processes restore the map without the semaphore and finish in any order. *)
CoverageGrows == [][session' = session => cov_log' >= cov_log]_vars

(* A session ends, unless a process died inside a critical section: the     *)
(* semaphores are not SEM_UNDO, so the parent (get_state) or the other      *)
(* processes then wait for ever.                                            *)
SessionEnds == (pc = "loop") ~> (pc \in {"over", "aborted"} \/ lost # {})
=============================================================================
