------------------------------ MODULE FdtSystem ------------------------------
(***************************************************************************)
(* A device tree built with the sequential writer and then edited, and     *)
(* overlays applied to it: what dts.cc and the tools around it do with     *)
(* libfdt.  The client is well-behaved: it closes the nodes it opens,      *)
(* writes properties before subnodes and names nodes by offsets it has     *)
(* just looked up.  What it does not know is when the buffer is full.      *)
(***************************************************************************)
EXTENDS FdtOverlay

CONSTANTS Names, PropNames, Values,
          Size,          \* of the buffer of the writer
          MaxSize,       \* of the buffer a tree is moved to
          MaxCalls,      \* bound on the calls of the writer
          MaxEdits,      \* bound on the edits
          OverlaySize,   \* of the buffers of a base tree and its overlay
          Overlays       \* [base, overlay]: sequences of calls of the writer

VARIABLES fdt,    \* the blob
          open,   \* nodes the client has open; -1 once the root is closed
          calls,  \* calls so far
          last,   \* the last call: [op, at, name, val, ret]; with the overlay for "overlay"
          tree    \* history: what the blob says

vars == <<fdt, open, calls, last, tree>>

-----------------------------------------------------------------------------
(* What a blob says *)

\* The nodes of the structure block in preorder, with their offsets.
Parsed(f) ==
    LET nameAt(o) == stringAt(f, f.off_dt_struct + o + TAGSIZE)
        propName(o) == stringAt(f, int32(structWord(f, o + 2 * TAGSIZE)) + f.off_dt_strings)
        propValue(o) == bytesAt(f, f.off_dt_struct + o + PropSize, structWord(f, o + TAGSIZE))
        walk[o \in Nat, d \in Int] ==
            Let(fdt_next_tag(f, o), LAMBDA t :
            LET e == [off |-> o, tag |-> t.tag, depth |-> d]
            IN  CASE t.tag = FDT_BEGIN_NODE -> <<e>> \o walk[t.next, d + 1]
                  [] t.tag = FDT_END_NODE -> walk[t.next, d - 1]
                  [] t.tag = FDT_PROP -> <<e>> \o walk[t.next, d]
                  [] t.tag = FDT_NOP -> walk[t.next, d]
                  [] OTHER -> <<>>)
        node(acc, e) ==
            IF e.tag = FDT_BEGIN_NODE
            THEN Append(acc, [off |-> e.off, depth |-> e.depth, name |-> nameAt(e.off), props |-> <<>>])
            ELSE [acc EXCEPT ![Len(acc)].props =
                     [m \in DOMAIN @ \cup {propName(e.off)} |->
                         IF m = propName(e.off) THEN propValue(e.off) ELSE @[m]]]
    IN  IF f.magic = "none" \/ f.off_dt_strings = 0 THEN <<>> ELSE FoldLeft(node, <<>>, walk[0, 0])

TreeOf(s) ==
    [i \in 1 .. Len(s) |-> [depth |-> s[i].depth, name |-> s[i].name, props |-> s[i].props]]

-----------------------------------------------------------------------------
(* The writer *)

writing == fdt.magic = "SW_MAGIC"

\* A call with the node it names, by its position, and its other arguments
Call(op, at, name, val) == [op |-> op, at |-> at, name |-> name, val |-> val, ret |-> 0]

plainly(op) == Call(op, 0, <<>>, <<>>)

returned(r, c) == fdt' = r.f /\ tree' = Parsed(r.f) /\ last' = [c EXCEPT !.ret = r.ret]

called(r, c) == returned(r, c) /\ calls' = calls + 1

moreCalls == calls < MaxCalls

beginNode(name) ==
    /\ writing /\ moreCalls
    /\ open >= 0
    /\ open = 0 <=> name = <<>>
    /\ \E r \in {fdt_begin_node(fdt, name)} :
           called(r, Call("begin", open, name, <<>>)) /\ open' = IF r.ret = 0 THEN open + 1 ELSE open

endNode ==
    /\ writing /\ open > 0
    /\ last.op = "end" => last.ret = 0
    /\ \E r \in {fdt_end_node(fdt)} :
           /\ called(r, plainly("end"))
           /\ open' = IF r.ret # 0 THEN open ELSE IF open = 1 THEN -1 ELSE open - 1

\* Properties come right after the start of their node, each name once.
property(n, v) ==
    /\ writing /\ moreCalls /\ open > 0
    /\ last.op \in {"begin", "property"} /\ last.ret = 0
    /\ n \notin DOMAIN tree[Len(tree)].props
    /\ called(fdt_property(fdt, n, v), Call("property", Len(tree), n, v))
    /\ UNCHANGED open

reserve ==
    /\ writing /\ calls = 0
    /\ called(fdt_add_reservemap_entry(fdt, 1, 1), plainly("reserve"))
    /\ UNCHANGED open

finishReservemap ==
    /\ writing /\ fdt.off_dt_strings = 0
    /\ called(fdt_finish_reservemap(fdt), plainly("reservemap"))
    /\ UNCHANGED open

\* A client that runs out of space takes a larger buffer.
resize ==
    /\ writing /\ last.ret = -NOSPACE /\ fdt.totalsize < MaxSize
    /\ called(fdt_resize(fdt, MaxSize), plainly("resize"))
    /\ UNCHANGED open

finish ==
    /\ writing /\ open = -1
    /\ last.op = "finish" => last.ret = 0
    /\ \E r \in {fdt_finish(fdt)} :
           /\ returned(r, plainly("finish"))
           /\ calls' = IF r.ret = 0 THEN 0 ELSE calls + 1
    /\ UNCHANGED open

-----------------------------------------------------------------------------
(* Edits of a finished tree *)

finished == fdt.magic = "MAGIC"

edited(r, c) ==
    /\ finished
    /\ calls < MaxEdits
    /\ called(r, c)
    /\ UNCHANGED open

openInto == last.op = "finish" /\ edited(fdt_open_into(fdt, MaxSize), plainly("open_into"))

pack == edited(fdt_pack(fdt), plainly("pack"))

\* The client has looked up the offset o of node i.
editProperty(i, o) ==
    \E n \in PropNames :
        \/ edited(fdt_delprop(fdt, o, n), Call("delprop", i, n, <<>>))
        \/ edited(fdt_nop_property(fdt, o, n), Call("nop_property", i, n, <<>>))
        \/ \E v \in Values :
               \/ edited(fdt_setprop(fdt, o, n, v), Call("setprop", i, n, v))
               \/ edited(fdt_appendprop(fdt, o, n, v), Call("appendprop", i, n, v))
               \/ edited(fdt_setprop_inplace(fdt, o, n, v), Call("setprop_inplace", i, n, v))

editNode(i, o) ==
    \/ \E name \in Names \ {<<>>} :
           \/ edited(fdt_add_subnode(fdt, o, name), Call("add_subnode", i, name, <<>>))
           \/ i # 1 /\ edited(fdt_set_name(fdt, o, name), Call("set_name", i, name, <<>>))
    \/ i # 1 /\ edited(fdt_del_node(fdt, o), Call("del_node", i, <<>>, <<>>))
    \/ i # 1 /\ edited(fdt_nop_node(fdt, o), Call("nop_node", i, <<>>, <<>>))

editReserve ==
    \/ edited(fdt_add_mem_rsv(fdt, 2, 1), plainly("add_mem_rsv"))
    \/ edited(fdt_del_mem_rsv(fdt, 0), plainly("del_mem_rsv"))

emptyTree ==
    /\ calls = 0 /\ writing
    /\ called(fdt_create_empty_tree(MaxSize), plainly("create_empty_tree"))
    /\ UNCHANGED open

-----------------------------------------------------------------------------
(* Overlays *)

perform(r, c) ==
    then(r, LAMBDA f : CASE c.op = "begin" -> fdt_begin_node(f, c.name)
                         [] c.op = "end" -> fdt_end_node(f)
                         [] c.op = "property" -> fdt_property(f, c.name, c.val))

\* A tree built by a sequence of calls.
Built(script, size) ==
    Let(FoldLeft(perform, then(fdt_create(size), fdt_finish_reservemap), script), LAMBDA body :
        then(body, fdt_finish).f)

overlayOf == Built(last.case.overlay, OverlaySize)

applyOverlay ==
    /\ last.op = "base"
    /\ \E r \in {fdt_overlay_apply(fdt, overlayOf)} :
           fdt' = r.f /\ tree' = Parsed(r.f) /\ last' = [last EXCEPT !.op = "overlay", !.ret = r.ret]
    /\ UNCHANGED <<open, calls>>

-----------------------------------------------------------------------------

Init ==
    /\ \/ /\ fdt = fdt_create(Size).f
          /\ open = 0 /\ calls = 0
          /\ last = plainly("create")
       \/ \E c \in Overlays :
              /\ fdt = fdt_open_into(Built(c.base, OverlaySize), OverlaySize).f
              /\ open = -1 /\ calls = MaxEdits
              /\ last = [op |-> "base", ret |-> 0, case |-> c]
    /\ tree = Parsed(fdt)

Next ==
    \/ \E name \in Names : beginNode(name)
    \/ endNode
    \/ \E n \in PropNames, v \in Values : property(n, v)
    \/ reserve \/ finishReservemap \/ resize \/ finish
    \/ openInto \/ pack \/ editReserve \/ emptyTree
    \/ \E i \in 1 .. Len(tree) : editProperty(i, tree[i].off) \/ editNode(i, tree[i].off)
    \/ applyOverlay

Spec == Init /\ [][Next]_vars

-----------------------------------------------------------------------------
(* Properties *)

edits == last.op \notin {"base", "overlay"}

\* The last call as its client sees it: a new node is at a position, not at an
\* offset.
callSeen ==
    LET new == { i \in 1 .. Len(tree) : tree[i].off = last.ret }
        position == IF last.op = "add_subnode" /\ new # {} THEN CHOOSE i \in new : TRUE ELSE last.ret
    IN  [last EXCEPT !.ret = position] @@ [count |-> calls]

Tree == INSTANCE FdtTree WITH nodes <- IF edits THEN TreeOf(tree) ELSE <<>>,
                              call <- IF edits THEN callSeen ELSE plainly("create")

\* A call that reports success has done to the tree exactly what it was asked
\* for, to the node and the property it was asked for, and fdt_add_subnode
\* returns where the new node is; a call fails only for want of room or because
\* the node or property is missing, there already or of another length, with
\* that error, and leaves the tree as it was.  No call disturbs another node's
\* name or property by moving blocks, sharing strings or running out of space.
Edits == Tree!Spec

\* The position of the parent of node i in preorder.
parentOf(s, i) ==
    LET above == { k \in 1 .. i - 1 : s[k].depth < s[i].depth }
    IN  CHOOSE k \in above : \A j \in above : j <= k

childrenOf(s, i) == { k \in i + 1 .. Len(s) : s[k].depth = s[i].depth + 1 /\ parentOf(s, k) = i }

\* No two siblings have names that a lookup without unit address confuses.
Unambiguous(s) ==
    \A i, k \in 2 .. Len(s) : i # k /\ s[i].depth = s[k].depth /\ parentOf(s, i) = parentOf(s, k)
                                => s[i].name[1] # s[k].name[1]

\* The strings of a list, each up to and without its terminator.
stringsOf(v) ==
    Fn(Nat, LAMBDA from, i :
        IF i > Len(v) THEN <<>>
        ELSE Let(SelectInSubSeq(v, i, Len(v), LAMBDA c : c = 0), LAMBDA z :
                 << SubSeq(v, i, z - 1) >> \o from[z + 1]))[1]

\* The list queries of a property with value v.
ListsAgree(o, n, v) ==
    Let(stringsOf(v), LAMBDA list :
        IF v # <<>> /\ v[Len(v)] # 0 THEN fdt_stringlist_count(fdt, o, n) = -BADVALUE
        ELSE /\ fdt_stringlist_count(fdt, o, n) = Len(list)
             /\ \A i \in 1 .. Len(list) : list[fdt_stringlist_search(fdt, o, n, list[i]) + 1] = list[i])

\* After any sequence of calls the blob passes the library's own check, and its
\* queries (names, depths, parents, subnodes, properties, string lists, paths and
\* back) agree with the tree the blob stands for.
QueriesAgree ==
    finished =>
        LET s == tree
        IN  /\ fdt_check_full(fdt, fdt.totalsize) = 0
            /\ \A i \in 1 .. Len(s) :
                   LET o == s[i].off IN
                   Let(fdt_get_path(fdt, o, fdt.totalsize), LAMBDA p :
                       /\ fdt_get_name(fdt, o).name = s[i].name
                       /\ fdt_node_depth(fdt, o) = s[i].depth
                       /\ fdt_parent_offset(fdt, o) = IF i = 1 THEN -NOTFOUND ELSE s[parentOf(s, i)].off
                       /\ ToSet(subnodes(fdt, o)) = { s[k].off : k \in childrenOf(s, i) }
                       /\ Len(properties(fdt, o)) = Cardinality(DOMAIN s[i].props)
                       /\ \A n \in DOMAIN s[i].props :
                              /\ valueOf(fdt, fdt_getprop(fdt, o, n)) = s[i].props[n]
                              /\ ListsAgree(o, n, s[i].props[n])
                       /\ p.err = 0
                       /\ Unambiguous(s) => fdt_path_offset(fdt, p.path) = o)
            /\ \A n \in PropNames, v \in Values :
                   Let({ i \in 1 .. Len(s) : n \in DOMAIN s[i].props /\ s[i].props[n] = v }, LAMBDA hits :
                       fdt_node_offset_by_prop_value(fdt, -1, n, v) =
                           IF hits = {} THEN -NOTFOUND
                           ELSE s[CHOOSE i \in hits : \A j \in hits : i <= j].off)

-----------------------------------------------------------------------------
(* What an overlay means, by the paths of nodes *)

\* The path of node i, / for each level; the root's is empty.
pathTo(s, i) ==
    Fn(Nat, LAMBDA up, k :
        IF k = 1 THEN <<>> ELSE up[parentOf(s, k)] \o <<SLASH>> \o s[k].name)[i]

nodesAt(s, p) == { i \in 1 .. Len(s) : pathTo(s, i) = p }

nodeAt(s, p) == CHOOSE i \in nodesAt(s, p) : TRUE

phandleOf(s, i) == s[i].props[PHANDLE]

phandleNodes(s) == { i \in 1 .. Len(s) : PHANDLE \in DOMAIN s[i].props }

\* The nodes of an overlay that go into the tree, with their fragment and the
\* rest of their path.
moved(o) ==
    { m \in [node : 1 .. Len(o), fragment : { i \in 1 .. Len(o) : o[i].depth = 1 }] :
          Let(pathTo(o, m.fragment) \o <<SLASH>> \o OVERLAY, LAMBDA p :
          Let(pathTo(o, m.node), LAMBDA q :
              IsPrefix(p, q))) }

restOf(o, m) == SubSeq(pathTo(o, m.node), Len(pathTo(o, m.fragment)) + 3, Len(pathTo(o, m.node)))

\* The labels of __fixups__ that name a place: path:property:offset.
labelsOf(o, i, n, d) ==
    Let((IF i = 1 THEN <<SLASH>> ELSE pathTo(o, i)) \o <<COLON>> \o n \o <<COLON, d + 1, 0>>, LAMBDA place :
    Let(UNION { DOMAIN o[k].props : k \in nodesAt(o, <<SLASH>> \o FIXUPS) }, LAMBDA fix :
    LET names(l) == Let(o[nodeAt(o, <<SLASH>> \o FIXUPS)].props[l], LAMBDA v :
                        \E a \in 0 .. Len(v) - Len(place) :
                            SubSeq(v, a + 1, a + Len(place)) = place /\ (a = 0 \/ v[a] = 0))
    IN  { l \in fix : names(l) }))

\* The path a label of the base tree stands for.
labelled(base, l) == Front(base[nodeAt(base, <<SLASH>> \o SYMBOLS)].props[l])

targetOf(base, o, fragment) ==
    LET props == o[fragment].props IN
    Let(labelsOf(o, fragment, TARGET, 0), LAMBDA labels :
        IF TARGET \notin DOMAIN props
        THEN IF props[TARGET_PATH] = <<SLASH, 0>> THEN <<>> ELSE Front(props[TARGET_PATH])
        ELSE IF labels # {} THEN labelled(base, CHOOSE l \in labels : TRUE)
        ELSE pathTo(base, CHOOSE i \in phandleNodes(base) : phandleOf(base, i) = props[TARGET]))

newPath(base, o, m) == targetOf(base, o, m.fragment) \o restOf(o, m)

\* The offsets of local references in a property.
localRefs(o, i, n) ==
    UNION { IF n \notin DOMAIN o[k].props THEN {}
            ELSE LET v == o[k].props[n] IN { v[2 * j - 1] * B + v[2 * j] : j \in 1 .. Len(v) \div 2 } :
            k \in nodesAt(o, <<SLASH>> \o LOCAL_FIXUPS \o pathTo(o, i)) }

\* The node a place of the overlay refers to, as a path of the merged tree.
meant(base, o, i, n, d) ==
    LET word == SubSeq(o[i].props[n], d + 1, d + 2) IN
    Let(CHOOSE m \in moved(o) : m.node \in phandleNodes(o) /\ phandleOf(o, m.node) = word, LAMBDA own :
    Let(labelsOf(o, i, n, d), LAMBDA labels :
        IF labels # {} THEN labelled(base, CHOOSE l \in labels : TRUE) ELSE newPath(base, o, own)))

\* An overlay that is applied merges its fragments into their targets, the later
\* one winning; phandles stay unique; every reference of the overlay, to its own
\* nodes or to a label of the tree, points to the node it was written for; every
\* symbol of a merged node is found under its label; and what the overlay
\* does not name is as it was (overlay_merge and the renumbering before it).
OverlayMerged ==
    last.op = "overlay" /\ last.ret = 0 =>
        Let(Parsed(Built(last.case.base, OverlaySize)), LAMBDA base :
        Let(Parsed(overlayOf), LAMBDA o :
        Let(moved(o), LAMBDA all :
        Let({ pathTo(base, i) : i \in 1 .. Len(base) } \cup { newPath(base, o, m) : m \in all }, LAMBDA paths :
        LET symbols == <<SLASH>> \o SYMBOLS
            writers(p, n) == { m \in all : newPath(base, o, m) = p /\ n \in DOMAIN o[m.node].props }
            lastWriter(p, n) == CHOOSE m \in writers(p, n) : \A k \in writers(p, n) : k.node <= m.node
            old(p) == IF nodesAt(base, p) = {} THEN <<>> ELSE base[nodeAt(base, p)].props
        IN  /\ { pathTo(tree, i) : i \in 1 .. Len(tree) } \cup {symbols} = paths \cup {symbols}
            /\ Cardinality({ phandleOf(tree, i) : i \in phandleNodes(tree) }) = Cardinality(phandleNodes(tree))
            /\ \A p \in paths \ {symbols} :
                   Let(tree[nodeAt(tree, p)].props, LAMBDA props :
                       /\ DOMAIN old(p) \subseteq DOMAIN props
                       /\ \A n \in DOMAIN props :
                              IF writers(p, n) = {} THEN props[n] = old(p)[n]
                              ELSE Let(lastWriter(p, n).node, LAMBDA i :
                                   LET v == o[i].props[n] IN
                                   Let({ d \in 0 .. Len(v) - 2 :
                                            d \in localRefs(o, i, n) \/ labelsOf(o, i, n, d) # {} }, LAMBDA places :
                                       n # PHANDLE =>
                                       /\ Len(props[n]) = Len(v)
                                       /\ \A d \in places : SubSeq(props[n], d + 1, d + 2) =
                                              phandleOf(tree, nodeAt(tree, meant(base, o, i, n, d)))
                                       /\ \A k \in 1 .. Len(v) :
                                              props[n][k] = v[k] \/ k - 1 \in places \/ k - 2 \in places)))
            /\ \A k \in nodesAt(o, symbols) : \A l \in DOMAIN o[k].props : \A m \in all :
                   Front(o[k].props[l]) = pathTo(o, m.node) =>
                       Let(fdt_getprop(fdt, tree[nodeAt(tree, symbols)].off, l), LAMBDA value :
                           fdt_path_offset(fdt, stringAt(fdt, value.at))
                               = tree[nodeAt(tree, newPath(base, o, m))].off)))))
=============================================================================
