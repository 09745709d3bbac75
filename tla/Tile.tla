-------------------------------- MODULE Tile --------------------------------
(***************************************************************************)
(* The device under test, seen from its TileLink ports: a RocketTile or     *)
(* BoomTile simulated from Verilog.  It is external to the adapter; what is *)
(* modelled is what the adapter relies on: a coherent cache that follows    *)
(* the TileLink rules for one agent, and uncached requests.  The tile       *)
(*   - keeps at most one Acquire, one uncached request and one Release      *)
(*     outstanding per block, and Mshrs Acquires in all;                    *)
(*   - does not Release a block whose Grant is pending, and neither         *)
(*     Acquires a block nor answers a Probe for it before its ReleaseAck;   *)
(*   - answers a Probe that overtakes a Grant from the state it is in;      *)
(*   - sends GrantAck with the last beat of the Grant.                      *)
(* TileOps selects which requests the tile makes and for which blocks.      *)
(***************************************************************************)
EXTENDS TLAdapter

CONSTANTS
    TileOps,  \* set of <<request, block>> pairs the tile may issue
    Mshrs,    \* Acquires the tile keeps outstanding
    MaxStore  \* bound: stores per block and run

ASSUME TileAssumption ==
    /\ Mshrs \in Nat /\ MaxStore \in Nat
    /\ TileOps \subseteq {"Get", "Put", "PutBurst", "Arithmetic", "Logical", "Intent",
                          "AcquireBlock", "AcquirePerm", "Release"} \X Blocks

VARIABLES
    cache,   \* block -> the tile's permission, dirty bit and words
    acquiring, \* blocks whose Acquire has not been granted
    access,  \* blocks with an uncached request outstanding
    releasing, \* blocks whose Release has not been acknowledged
    latest,  \* number of the newest store to each block
    seen     \* latest when the outstanding uncached request was issued

tileVars == <<cache, acquiring, access, releasing, latest, seen>>

Line == [perm : {"N", "B", "T"}, dirty : BOOLEAN, data : Words]
NoLine == [perm |-> "N", dirty |-> FALSE, data |-> Fill(0)]

AMessage == [op : {"Get", "Put", "Arithmetic", "Logical", "Intent", "AcquireBlock", "AcquirePerm"},
             param : Grows, addr : Blocks, len : 1 .. Beats, beat : Nat, data : Nat]
CMessage ==
    [op : {"ProbeAck", "ProbeAckData"}, param : Reports, source : BSrcs, addr : Blocks,
     beat : Beat, data : Words]
    \cup [op : {"Release", "ReleaseData"}, param : Reports, source : {NoBlock}, addr : Blocks,
          beat : Beat, data : Words]
EMessage == [op : {"GrantAck"}, sink : Sinks]

sendA(o, p, b, n, v) ==
    /\ a_ch = NoMsg
    /\ a_ch' = [op |-> o, param |-> p, addr |-> b, len |-> n, beat |-> 0, data |-> v]
sendC(o, p, s, b, w) ==
    /\ c_ch = NoMsg
    /\ c_ch' = [op |-> o, param |-> p, source |-> s, addr |-> b, beat |-> 0, data |-> w]

-----------------------------------------------------------------------------
(* A store hit: the line takes the next store number.                       *)
tileStore(b) ==
    /\ Running /\ cache[b].perm = "T" /\ latest[b] < MaxStore
    /\ latest' = [latest EXCEPT ![b] = @ + 1]
    /\ cache' = [cache EXCEPT ![b].dirty = TRUE, ![b].data = Fill(latest[b] + 1)]
    /\ UNCHANGED <<acquiring, access, releasing, seen, adapterVars, chans>>

(* A miss, or a store to a shared line.                                     *)
tileAcquire(b, o) ==
    /\ Running /\ <<o, b>> \in TileOps
    /\ b \notin acquiring \cup releasing /\ Cardinality(acquiring) < Mshrs
    /\ \E g \in Grows :
        /\ g \in CASE cache[b].perm = "N" -> {"NtoB", "NtoT"}
                   [] cache[b].perm = "B" -> {"BtoT"}
                   [] OTHER -> {}
        /\ o = "AcquirePerm" => g # "NtoB" /\ latest[b] < MaxStore
        /\ sendA(o, g, b, 1, 0)
    /\ acquiring' = acquiring \cup {b}
    /\ UNCHANGED <<cache, access, releasing, latest, seen, adapterVars, b_ch, c_ch, d_ch, e_ch>>

UncachedOps == {"Get", "Put", "PutBurst", "Arithmetic", "Logical", "Intent"}

(* An uncached request; Put and the atomics write the next store number.    *)
tileAccess(b, o) ==
    /\ Running /\ <<o, b>> \in TileOps
    /\ b \notin access
    /\ \/ /\ o \in {"Get", "Intent"}
          /\ sendA(o, "NtoB", b, 1, 0)
          /\ UNCHANGED latest
       \/ /\ o \in {"Put", "PutBurst", "Arithmetic", "Logical"}
          /\ latest[b] < MaxStore
          /\ sendA(IF o = "PutBurst" THEN "Put" ELSE o, "NtoB", b,
                   IF o = "PutBurst" THEN Beats ELSE 1, latest[b] + 1)
          /\ latest' = [latest EXCEPT ![b] = @ + 1]
    /\ access' = access \cup {b}
    /\ seen' = [seen EXCEPT ![b] = latest[b]]
    /\ UNCHANGED <<cache, acquiring, releasing, adapterVars, b_ch, c_ch, d_ch, e_ch>>

(* Eviction, to Branch or to Nothing.                                       *)
tileRelease(b) ==
    /\ Running /\ <<"Release", b>> \in TileOps
    /\ cache[b].perm # "N" /\ b \notin acquiring \cup releasing
    /\ \E keep \in {"N", "B"} :
        /\ cache[b].perm = "B" => keep = "N"
        /\ sendC(IF cache[b].dirty THEN "ReleaseData" ELSE "Release",
                 IF cache[b].perm = "B" THEN "BtoN" ELSE IF keep = "B" THEN "TtoB" ELSE "TtoN",
                 NoBlock, b, cache[b].data)
        /\ cache' = [cache EXCEPT ![b] = IF keep = "N" THEN NoLine
                                         ELSE [@ EXCEPT !.perm = "B", !.dirty = FALSE]]
    /\ releasing' = releasing \cup {b}
    /\ UNCHANGED <<acquiring, access, latest, seen, adapterVars, a_ch, b_ch, d_ch, e_ch>>

(* The answer to a Probe: cap the permission, hand over dirty data.         *)
shrink(perm, cap) ==
    CASE perm = "N" -> <<"N", "NtoN">>
      [] perm = "B" -> IF cap = "toN" THEN <<"N", "BtoN">> ELSE <<"B", "BtoB">>
      [] perm = "T" -> CASE cap = "toN" -> <<"N", "TtoN">>
                         [] cap = "toB" -> <<"B", "TtoB">>
                         [] cap = "toT" -> <<"T", "TtoT">>

tileProbe ==
    /\ Running /\ b_ch # NoMsg /\ b_ch.addr \notin releasing
    /\ LET b == b_ch.addr
           line == cache[b]
           r == shrink(line.perm, b_ch.param)
       IN /\ sendC(IF line.dirty THEN "ProbeAckData" ELSE "ProbeAck", r[2], b_ch.source, b,
                   line.data)
          /\ cache' = [cache EXCEPT ![b] = IF r[1] = "N" THEN NoLine
                                           ELSE [@ EXCEPT !.perm = r[1], !.dirty = FALSE]]
    /\ b_ch' = NoMsg
    /\ UNCHANGED <<acquiring, access, releasing, latest, seen, adapterVars, a_ch, d_ch, e_ch>>

-----------------------------------------------------------------------------
(* Answers on D.                                                            *)
tileGrantData ==
    /\ Running /\ d_ch.op = "GrantData" /\ e_ch = NoMsg
    /\ cache' = [cache EXCEPT ![d_ch.addr] =
                    [perm |-> IF d_ch.param = "toT" THEN "T" ELSE "B", dirty |-> FALSE,
                     data |-> d_ch.data]]
    /\ UNCHANGED latest
    /\ acquiring' = acquiring \ {d_ch.addr}
    /\ e_ch' = [op |-> "GrantAck", sink |-> d_ch.sink]
    /\ d_ch' = NoMsg
    /\ UNCHANGED <<access, releasing, seen, adapterVars, a_ch, b_ch, c_ch>>

(* AcquirePerm is made to overwrite the whole line.                         *)
tileGrant ==
    /\ Running /\ d_ch.op = "Grant" /\ e_ch = NoMsg
    /\ cache' = [cache EXCEPT ![d_ch.addr] =
                    [perm |-> "T", dirty |-> TRUE, data |-> Fill(latest[d_ch.addr] + 1)]]
    /\ latest' = [latest EXCEPT ![d_ch.addr] = @ + 1]
    /\ acquiring' = acquiring \ {d_ch.addr}
    /\ e_ch' = [op |-> "GrantAck", sink |-> d_ch.sink]
    /\ d_ch' = NoMsg
    /\ UNCHANGED <<access, releasing, seen, adapterVars, a_ch, b_ch, c_ch>>

tileReleaseAck ==
    /\ Running /\ d_ch.op = "ReleaseAck"
    /\ releasing' = releasing \ {d_ch.addr}
    /\ d_ch' = NoMsg
    /\ UNCHANGED <<cache, acquiring, access, latest, seen, adapterVars, a_ch, b_ch, c_ch, e_ch>>

tileAccessAck ==
    /\ Running /\ d_ch.op \in {"AccessAckData", "AccessAck", "HintAck"}
    /\ access' = access \ {d_ch.addr}
    /\ d_ch' = NoMsg
    /\ UNCHANGED <<cache, acquiring, releasing, latest, seen, adapterVars, a_ch, b_ch, c_ch, e_ch>>

tileInit ==
    /\ cache = [b \in Blocks |-> NoLine]
    /\ acquiring = {} /\ access = {} /\ releasing = {}
    /\ latest = [b \in Blocks |-> 0] /\ seen = [b \in Blocks |-> 0]
    /\ a_ch = NoMsg /\ b_ch = NoMsg /\ c_ch = NoMsg /\ d_ch = NoMsg /\ e_ch = NoMsg

(* reset: the tile forgets everything, and takes what a driver still holds. *)
tileReset ==
    /\ cache' = [b \in Blocks |-> NoLine]
    /\ acquiring' = {} /\ access' = {} /\ releasing' = {}
    /\ latest' = [b \in Blocks |-> 0] /\ seen' = [b \in Blocks |-> 0]
    /\ a_ch' = NoMsg /\ b_ch' = NoMsg /\ c_ch' = NoMsg /\ d_ch' = NoMsg /\ e_ch' = NoMsg
=============================================================================
