----------------------------- MODULE FdtOverlay -----------------------------
(***************************************************************************)
(* fdt_overlay.c: an overlay o is applied to a tree f.  Its phandles are   *)
(* moved above those of the tree, references are fixed up, and every       *)
(* fragment is merged into its target.                                     *)
(*                                                                         *)
(* The functions edit both blobs; they return [f, o, ret].                 *)
(***************************************************************************)
EXTENDS FdtWrite

OVERLAY == <<6>>          \* __overlay__
TARGET == <<5>>           \* target
TARGET_PATH == <<1>>      \* target-path
SYMBOLS == <<2>>          \* __symbols__
FIXUPS == <<3>>           \* __fixups__
LOCAL_FIXUPS == <<4>>     \* __local_fixups__

Both(f, o, ret) == [f |-> f, o |-> o, ret |-> ret]

\* Work on the elements of a sequence until one fails.
untilError(Op(_, _), b, s) ==
    FoldLeft(LAMBDA acc, e : IF acc.ret # 0 THEN acc ELSE Op(acc, e), b, s)

overlay_get_target_phandle(o, fragment) ==
    Let(fdt_getprop(o, fragment, TARGET), LAMBDA val :
        IF val.at < 0 THEN 0 ELSE IF val.len # TAGSIZE THEN W - 1 ELSE fdt32_ld(o, val.at))

\* The target's offset, and where the path is that named it, or -1.
targetNamed(f, o, phandle, path) ==
    IF phandle = W - 1 THEN [off |-> -BADPHANDLE, path |-> -1]
    ELSE IF phandle # 0 THEN [off |-> fdt_node_offset_by_phandle(f, phandle), path |-> -1]
    ELSE IF path.at >= 0 THEN [off |-> fdt_path_offset(f, stringAt(o, path.at)), path |-> path.at]
    ELSE [off |-> IF path.len = -NOTFOUND THEN -BADOVERLAY ELSE path.len, path |-> -1]

overlay_get_target(f, o, fragment) ==
    targetNamed(f, o, overlay_get_target_phandle(o, fragment), fdt_getprop(o, fragment, TARGET_PATH))

overlay_phandle_add_offset(o, node, name, delta) ==
    Let(fdt_getprop(o, node, name), LAMBDA val :
    Let(fdt32_ld(o, val.at), LAMBDA adj :
        IF val.at < 0 THEN Ret(o, val.len)
        ELSE IF val.len # TAGSIZE THEN Ret(o, -BADPHANDLE)
        ELSE IF u32(adj + delta) < adj \/ adj + delta = W - 1 THEN Ret(o, -NOPHANDLES)
        ELSE fdt_setprop_inplace(o, node, name, fdt32_st(adj + delta))))

\* Edits in place: the offsets of the nodes stay, so the recursion over the
\* subnodes is a walk over the nodes.
nodeAndBelow(f, node) ==
    Fn(Int, LAMBDA from, n :
        Let(subnodes(f, n), LAMBDA kids :
            <<n>> \o FlattenSeq([k \in 1 .. Len(kids) |-> from[kids[k]]])))[node]

overlay_adjust_node_phandles(o, node, delta) ==
    untilError(LAMBDA acc, n :
                   untilError(LAMBDA a, name :
                                  Let(overlay_phandle_add_offset(a.f, n, name, delta), LAMBDA r :
                                      IF r.ret = -NOTFOUND THEN Ret(r.f, 0) ELSE r),
                              acc, << PHANDLE, LINUX_PHANDLE >>),
               Ret(o, 0), nodeAndBelow(o, node))

overlay_adjust_local_phandles(o, delta) == overlay_adjust_node_phandles(o, 0, delta)

\* One property of a node of __local_fixups__: the offsets of references in the
\* property of the same name of the tree's node.
localFixup(o, tree_node, prop, delta) ==
    Let(fdt_getprop_by_offset(o, prop), LAMBDA fixup :
    Let(fdt_getprop(o, tree_node, fixup.name), LAMBDA tree :
        IF fixup.at < 0 THEN Ret(o, fixup.len)
        ELSE IF fixup.len % TAGSIZE # 0 \/ tree.len = -NOTFOUND THEN Ret(o, -BADOVERLAY)
        ELSE IF tree.at < 0 THEN Ret(o, tree.len)
        ELSE untilError(LAMBDA acc, i :
                 Let(fdt32_ld(o, fixup.at + (i - 1) * TAGSIZE), LAMBDA poffset :
                 Let(fdt32_ld(acc.f, tree.at + poffset) + delta, LAMBDA adj :
                 Let(fdt_setprop_inplace_namelen_partial(acc.f, tree_node, fixup.name, poffset,
                                                         fdt32_st(adj)), LAMBDA r :
                     IF r.ret = -NOSPACE THEN Ret(r.f, -BADOVERLAY) ELSE r))),
                 Ret(o, 0), [i \in 1 .. fixup.len \div TAGSIZE |-> i])))

\* Pairs of a node of the tree and its node of __local_fixups__, in the order
\* of the recursion; a missing tree node ends it.
fixupPairs(o, tree, fixups) ==
    Fn2(Int, Int, LAMBDA from, t, x :
        << [tree |-> t, fixup |-> x] >>
        \o IF t < 0 THEN <<>>
           ELSE Let(subnodes(o, x), LAMBDA kids :
                    FlattenSeq([k \in 1 .. Len(kids) |->
                        from[fdt_subnode_offset(o, t, fdt_get_name(o, kids[k]).name), kids[k]]])))[tree, fixups]

overlay_update_local_node_references(o, tree, fixups, delta) ==
    untilError(LAMBDA acc, p :
                   IF p.tree < 0 THEN Ret(acc.f, IF p.tree = -NOTFOUND THEN -BADOVERLAY ELSE p.tree)
                   ELSE untilError(LAMBDA a, prop : localFixup(a.f, p.tree, prop, delta), acc,
                                   properties(acc.f, p.fixup)),
               Ret(o, 0), fixupPairs(o, tree, fixups))

\* A plausible slip: the renumbered phandles are not followed by the references to them.
referencesAsWritten(o, delta) == Ret(o, 0)

overlay_update_local_references(o, delta) ==
    Let(fdt_path_offset(o, <<SLASH>> \o LOCAL_FIXUPS), LAMBDA fixups :
        IF fixups = -NOTFOUND THEN Ret(o, 0)
        ELSE IF fixups < 0 THEN Ret(o, fixups)
        ELSE overlay_update_local_node_references(o, 0, fixups, delta))

setReference(o, fixup_off, name, poffset, phandle) ==
    IF phandle = 0 THEN Ret(o, -NOTFOUND)
    ELSE IF fixup_off < 0 THEN Ret(o, IF fixup_off = -NOTFOUND THEN -BADOVERLAY ELSE fixup_off)
    ELSE fdt_setprop_inplace_namelen_partial(o, fixup_off, name, poffset, fdt32_st(phandle))

referTo(f, o, path, name, poffset, symbol_off) ==
    IF symbol_off < 0 THEN Ret(o, symbol_off)
    ELSE setReference(o, fdt_path_offset_namelen(o, path), name, poffset, fdt_get_phandle(f, symbol_off))

referToSymbol(f, o, path, name, poffset, symbol) ==
    IF symbol.at < 0 THEN Ret(o, symbol.len)
    ELSE referTo(f, o, path, name, poffset, fdt_path_offset(f, stringAt(f, symbol.at)))

overlay_fixup_one_phandle(f, o, symbols_off, path, name, poffset, label) ==
    IF symbols_off < 0 THEN Ret(o, symbols_off)
    ELSE referToSymbol(f, o, path, name, poffset, fdt_getprop(f, symbols_off, label))

fixupStrings(list) ==
    Fn(Nat, LAMBDA from, i :
        IF i > 1 /\ i > Len(list) THEN <<>>
        ELSE Let(SelectInSubSeq(list, i, Len(list), LAMBDA c : c = 0), LAMBDA z :
                 IF z = 0 THEN << <<>> >> ELSE << SubSeq(list, i, z - 1) >> \o from[z + 1]))[1]

\* The references to one label: strings path:name:offset.
overlay_fixup_phandle(f, o, symbols_off, property) ==
    Let(fdt_getprop_by_offset(o, property), LAMBDA value :
        IF value.at < 0 THEN Ret(o, IF value.len = -NOTFOUND THEN -INTERNAL ELSE value.len)
        ELSE untilError(LAMBDA acc, s :
                 Let(SelectInSeq(s, LAMBDA c : c = COLON), LAMBDA a :
                 Let(SelectInSubSeq(s, a + 1, Len(s), LAMBDA c : c = COLON), LAMBDA b :
                     IF a = 0 \/ a = Len(s) \/ b = 0 \/ b = a + 1 \/ b # Len(s) - 1
                     THEN Ret(acc.f, -BADOVERLAY)
                     ELSE overlay_fixup_one_phandle(f, acc.f, symbols_off, SubSeq(s, 1, a - 1),
                                                    SubSeq(s, a + 1, b - 1), s[b + 1] - 1, value.name))),
                 Ret(o, 0), fixupStrings(valueOf(o, value))))

fixupLabels(f, o, fixups_off, symbols_off) ==
    IF fixups_off = -NOTFOUND THEN Ret(o, 0)
    ELSE IF fixups_off < 0 THEN Ret(o, fixups_off)
    ELSE IF symbols_off < 0 /\ symbols_off # -NOTFOUND THEN Ret(o, symbols_off)
    ELSE untilError(LAMBDA acc, p : overlay_fixup_phandle(f, acc.f, symbols_off, p), Ret(o, 0),
                    properties(o, fixups_off))

overlay_fixup_phandles(f, o) ==
    fixupLabels(f, o, fdt_path_offset(o, <<SLASH>> \o FIXUPS), fdt_path_offset(f, <<SLASH>> \o SYMBOLS))

RECURSIVE overlay_apply_node(_, _, _, _)

\* The properties of a node, then its subnodes one by one, in a tree that moves
\* with every edit.
overlay_apply_node(f, target, o, node) ==
    Let(untilError(LAMBDA acc, p :
                       Let(fdt_getprop_by_offset(o, p), LAMBDA v :
                           IF v.len < 0 THEN Ret(acc.f, IF v.len = -NOTFOUND THEN -INTERNAL ELSE v.len)
                           ELSE fdt_setprop(acc.f, target, v.name, valueOf(o, v))),
                   Ret(f, 0), properties(o, node)), LAMBDA set :
        untilError(LAMBDA acc, subnode :
                       Let(fdt_get_name(o, subnode).name, LAMBDA name :
                       Let(fdt_add_subnode(acc.f, target, name), LAMBDA added :
                       Let(fdt_subnode_offset(acc.f, target, name), LAMBDA old :
                       LET nnode == IF added.ret # -EXISTS THEN added.ret
                                    ELSE IF old = -NOTFOUND THEN -INTERNAL ELSE old
                       IN  IF nnode < 0 THEN Ret(acc.f, nnode)
                           ELSE overlay_apply_node(added.f, nnode, o, subnode)))),
                   set, subnodes(o, node)))

overlay_merge(f, o) ==
    untilError(LAMBDA acc, fragment :
                   Let(fdt_subnode_offset(o, fragment, OVERLAY), LAMBDA overlay :
                   Let(overlay_get_target(acc.f, o, fragment).off, LAMBDA target :
                       IF overlay = -NOTFOUND THEN acc
                       ELSE IF overlay < 0 THEN Ret(acc.f, overlay)
                       ELSE IF target < 0 THEN Ret(acc.f, target)
                       ELSE overlay_apply_node(acc.f, target, o, overlay))),
               Ret(f, 0), subnodes(o, 0))

get_path_len(f, node) ==
    Let(Fn(Int, LAMBDA from, n :
               Let(fdt_get_name(f, n), LAMBDA name :
               Let(fdt_parent_offset(f, n), LAMBDA up :
                   IF name.len = 0 THEN 0
                   ELSE IF up < 0 THEN up ELSE from[up] + name.len + 1)))[node], LAMBDA len :
        IF len = 0 THEN 1 ELSE len)

\* A symbol of the overlay, /fragment/__overlay__ or /fragment/__overlay__/rest:
\* whether it is in the tree after the merge, and the rest with its terminator.
symbolParts(path) ==
    Let(SelectInSubSeq(path, 2, Len(path), LAMBDA c : c = SLASH), LAMBDA s :
    LET tail == IF s = 0 THEN <<>> ELSE SubSeq(path, s, Len(path))
    IN  [kept |-> /\ s # 0
                  /\ SubSeq(tail, 1, 2) = <<SLASH>> \o OVERLAY
                  /\ Len(tail) = 2 \/ tail[3] = SLASH,
         fragment |-> SubSeq(path, 2, s - 1),
         rel |-> IF Len(tail) = 2 THEN <<>> ELSE Append(SubSeq(tail, 4, Len(tail)), 0)])

\* The path of a target in the tree, without the slash of the root.
pathOf(f, target, len) ==
    IF target < 0 THEN [err |-> target, path |-> <<>>]
    ELSE IF len = 1 THEN [err |-> 0, path |-> <<>>] ELSE fdt_get_path(f, target, len + 1)

targetPath(f, o, fragment, t, len) ==
    IF t.path < 0 THEN pathOf(f, overlay_get_target(f, o, fragment).off, len)
    ELSE [err |-> 0, path |-> IF len = 1 THEN <<>> ELSE stringAt(o, t.path)]

\* The symbol's path in the tree: the path of the target, a slash, the rest.
fillSymbol(g, rel, base) ==
    IF base.err < 0 THEN Ret(g.f, base.err)
    ELSE Ret(store(g.f, g.f.off_dt_struct + g.off + PropSize, base.path \o <<SLASH>> \o rel \o <<0>>), 0)

\* The property was made first, so the target is looked up again in the tree that moved.
writeSymbol(g, o, fragment, rel, t, len) ==
    IF g.ret < 0 THEN Ret(g.f, g.ret)
    ELSE fillSymbol(g, rel, targetPath(g.f, o, fragment, t, len))

makeSymbol(f, o, root_sym, name, fragment, rel, t, len) ==
    IF len < 0 THEN Ret(f, len)
    ELSE writeSymbol(fdt_setprop_placeholder(f, root_sym, name,
                                             len + (IF len > 1 THEN 1 ELSE 0) + Len(rel) + 1),
                     o, fragment, rel, t, len)

symbolAt(f, o, root_sym, name, fragment, rel, t) ==
    IF t.off < 0 THEN Ret(f, t.off)
    ELSE makeSymbol(f, o, root_sym, name, fragment, rel, t,
                    IF t.path >= 0 THEN Len(stringAt(o, t.path)) ELSE get_path_len(f, t.off))

symbolIn(f, o, root_sym, name, fragment, rel) ==
    IF fragment < 0 \/ fdt_subnode_offset(o, fragment, OVERLAY) < 0 THEN Ret(f, -BADOVERLAY)
    ELSE symbolAt(f, o, root_sym, name, fragment, rel, overlay_get_target(f, o, fragment))

symbolFor(f, o, root_sym, v, path) ==
    LET p == symbolParts(path)
    IN  IF v.at < 0 THEN Ret(f, v.len)
        ELSE IF v.len # Len(path) + 1 \/ path = <<>> \/ path[1] # SLASH THEN Ret(f, -BADVALUE)
        ELSE IF ~p.kept THEN Ret(f, 0)
        ELSE symbolIn(f, o, root_sym, v.name, fdt_subnode_offset_namelen(o, 0, p.fragment), p.rel)

addSymbol(f, o, root_sym, prop) ==
    Let(fdt_getprop_by_offset(o, prop), LAMBDA v : symbolFor(f, o, root_sym, v, stringAt(o, v.at)))

addSymbols(o, ov_sym, root) ==
    IF root.ret < 0 THEN root
    ELSE untilError(LAMBDA acc, prop : addSymbol(acc.f, o, root.ret, prop), Ret(root.f, 0),
                    properties(o, ov_sym))

\* The node __symbols__ of the tree, made if it is missing.
symbolsNode(f, old) == IF old = -NOTFOUND THEN fdt_add_subnode(f, 0, SYMBOLS) ELSE Ret(f, old)

overlay_symbol_update(f, o) ==
    Let(fdt_subnode_offset(o, 0, SYMBOLS), LAMBDA ov_sym :
        IF ov_sym < 0 THEN Ret(f, 0)
        ELSE addSymbols(o, ov_sym, symbolsNode(f, fdt_subnode_offset(f, 0, SYMBOLS))))

\* The steps, each only if the one before succeeded.
updateReferences(a, delta) == IF a.ret # 0 THEN a ELSE overlay_update_local_references(a.f, delta)

fixupReferences(f, b) == IF b.ret # 0 THEN b ELSE overlay_fixup_phandles(f, b.f)

updateSymbols(d, o) == IF d.ret # 0 THEN d ELSE overlay_symbol_update(d.f, o)

mergePrepared(f, c) == IF c.ret # 0 THEN Ret(f, c.ret) ELSE updateSymbols(overlay_merge(f, c.f), c.f)

\* After a failure neither blob can be used.
spoil(e, o) == Both(IF e.ret = 0 THEN e.f ELSE [e.f EXCEPT !.magic = "none"],
                    [o EXCEPT !.magic = "none"], e.ret)

applyPrepared(f, c) == spoil(mergePrepared(f, c), c.f)

applyAbove(f, o, delta) ==
    IF delta < 0 THEN spoil(Ret(f, delta), o)
    ELSE applyPrepared(f, fixupReferences(f, updateReferences(overlay_adjust_local_phandles(o, delta),
                                                              delta)))

fdt_overlay_apply(f, o) ==
    IF fdt_ro_probe_(f) < 0 THEN Both(f, o, fdt_ro_probe_(f))
    ELSE IF fdt_ro_probe_(o) < 0 THEN Both(f, o, fdt_ro_probe_(o))
    ELSE applyAbove(f, o, fdt_find_max_phandle(f))
=============================================================================
