-------------------------------- MODULE MCFdt --------------------------------
EXTENDS FdtSystem

a == 1
b == 2

SomeNames == {<<>>, <<a>>, <<a, AT, b>>}
SomeProps == {<<b>>, <<a, b>>}
SomeValues == {<<>>, <<a, 0, b>>, <<0, a, 0>>}

-----------------------------------------------------------------------------
(* Overlays, each with the tree it is made for *)

node(name, body) ==
    << [op |-> "begin", name |-> name] >> \o body \o << [op |-> "end"] >>

prop(name, val) == << [op |-> "property", name |-> name, val |-> val] >>

word(n) == << 0, n >>
x == <<8>>
y == <<9>>
z == <<10, AT, a>>
r == <<11>>
f == <<1>>
g == <<7, AT, b>>
lx == <<7, 1>>
lz == <<7, 2>>
path(names) == FlattenSeq([i \in 1 .. Len(names) |-> <<SLASH>> \o names[i]])
place(names, n, d) == path(names) \o <<COLON>> \o n \o <<COLON, d + 1, 0>>

\* Two nodes, the second one refers to the first.
Base ==
    node(<<>>, node(x, prop(PHANDLE, word(1)))
            \o node(y, prop(PHANDLE, word(2)) \o prop(r, word(1)))
            \o node(SYMBOLS, prop(lx, path(<<x>>) \o <<0>>)))

\* A new node below a target named by a path, a reference to it that replaces
\* the target's, and a symbol for it.
LocalReference ==
    node(<<>>, node(f, prop(TARGET_PATH, path(<<y>>) \o <<0>>)
                    \o node(OVERLAY, prop(r, word(1)) \o node(z, prop(PHANDLE, word(1)))))
            \o node(LOCAL_FIXUPS, node(f, node(OVERLAY, prop(r, word(0)))))
            \o node(SYMBOLS, prop(lz, path(<<f, OVERLAY, z>>) \o <<0>>)))

\* References to a label of the tree: the target, and the second word of a property.
Labelled ==
    node(<<>>, node(g, prop(TARGET, <<15, 15>>)
                    \o node(OVERLAY, node(z, prop(r, <<3, 3, 15, 15>>))))
            \o node(FIXUPS, prop(lx, place(<<g>>, TARGET, 0) \o place(<<g, OVERLAY, z>>, r, 2))))

\* A target named by its phandle and the root, a node both trees have, and a node
\* the first fragment adds as the target of the second.
TwoFragments ==
    node(<<>>, node(f, prop(TARGET, word(2)) \o node(OVERLAY, node(z, prop(r, <<3>>))))
            \o node(g, prop(TARGET_PATH, path(<<y, z>>) \o <<0>>)
                    \o node(OVERLAY, prop(r, <<4>>) \o prop(PHANDLE, word(5))))
            \o node(SYMBOLS, prop(lz, path(<<g, OVERLAY>>) \o <<0>>)))

AtRoot ==
    node(<<>>, node(f, prop(TARGET_PATH, <<SLASH, 0>>)
                    \o node(OVERLAY, prop(r, <<5>>) \o node(x, node(z, prop(r, <<>>)))))
            \o node(SYMBOLS, prop(lz, path(<<f, OVERLAY, x, z>>) \o <<0>>) \o prop(lx, path(<<f>>) \o <<0>>)))

\* A label the tree does not have.
Unresolved ==
    node(<<>>, node(g, prop(TARGET, <<15, 15>>) \o node(OVERLAY, <<>>))
            \o node(FIXUPS, prop(lz, place(<<g>>, TARGET, 0))))

SomeOverlays ==
    { [base |-> Base, overlay |-> o] : o \in {LocalReference, Labelled, TwoFragments, AtRoot, Unresolved} }

-----------------------------------------------------------------------------

\* The arguments of the last call decide no later step, and each step is checked
\* as it is taken: states that differ in nothing else count as one.
view ==
    << fdt, open, calls, tree,
       IF edits THEN [op |-> last.op, ret |-> last.ret] ELSE last >>
=============================================================================
