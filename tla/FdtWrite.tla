------------------------------ MODULE FdtWrite ------------------------------
(***************************************************************************)
(* The writing half of libfdt: the sequential writer that builds a blob    *)
(* (fdt_sw.c, fdt_empty_tree.c), in-place edits (fdt_wip.c) and edits that *)
(* move blocks (fdt_rw.c).                                                 *)
(*                                                                         *)
(* An operation returns [f, ret]: the blob it leaves, also when it fails,  *)
(* and 0, an offset or an error.                                           *)
(***************************************************************************)
EXTENDS Fdt

Ret(f, ret) == [f |-> f, ret |-> ret]

\* What memmove does within a blob.
memmove(f, to, from, n) == store(f, to, bytesAt(f, from, n))

-----------------------------------------------------------------------------
(* fdt_sw.c *)

fdt_sw_probe_(f) ==
    IF f.magic = "MAGIC" THEN -BADSTATE ELSE IF f.magic # "SW_MAGIC" THEN -BADMAGIC ELSE 0

fdt_sw_probe_memrsv_(f) ==
    IF fdt_sw_probe_(f) # 0 THEN fdt_sw_probe_(f)
    ELSE IF f.off_dt_strings # 0 THEN -BADSTATE ELSE 0

fdt_sw_probe_struct_(f) ==
    IF fdt_sw_probe_(f) # 0 THEN fdt_sw_probe_(f)
    ELSE IF f.off_dt_strings # f.totalsize THEN -BADSTATE ELSE 0

\* Whether len bytes fit between the structure and the strings.
fdt_grab_space_(f, len) ==
    f.size_dt_struct + len <= f.totalsize - f.off_dt_struct - f.size_dt_strings

grabbed(f, s) ==
    store([f EXCEPT !.size_dt_struct = @ + Len(s)], f.off_dt_struct + f.size_dt_struct, s)

zeros(n) == [i \in 1 .. n |-> 0]

Blank(n) == [magic |-> "none", version |-> 0, last_comp_version |-> 0, totalsize |-> 0,
             off_mem_rsvmap |-> 0, off_dt_struct |-> 0, off_dt_strings |-> 0,
             size_dt_strings |-> 0, size_dt_struct |-> 0, mem |-> zeros(n)]

\* last_comp_version holds the flags until the blob is finished.
fdt_create_with_flags(bufsize, flags) ==
    IF bufsize < HeaderSize THEN Ret(Blank(bufsize), -NOSPACE)
    ELSE Ret([Blank(bufsize) EXCEPT !.magic = "SW_MAGIC", !.version = FDT_LAST_SUPPORTED_VERSION,
                  !.last_comp_version = flags, !.totalsize = bufsize,
                  !.off_mem_rsvmap = HeaderSize, !.off_dt_struct = HeaderSize], 0)

fdt_create(bufsize) == fdt_create_with_flags(bufsize, 0)

\* The blob moves to another buffer; the strings stay at its end.
fdt_resize(f, bufsize) ==
    LET headsize == f.off_dt_struct + f.size_dt_struct
        tailsize == f.size_dt_strings IN
    Let(bytesAt(f, 0, headsize) \o zeros(bufsize - headsize - tailsize)
        \o bytesAt(f, f.totalsize - tailsize, tailsize), LAMBDA moved :
        IF fdt_sw_probe_(f) # 0 THEN Ret(f, fdt_sw_probe_(f))
        ELSE IF headsize + tailsize > f.totalsize THEN Ret(f, -INTERNAL)
        ELSE IF headsize + tailsize > bufsize THEN Ret(f, -NOSPACE)
        ELSE Ret([f EXCEPT !.mem = moved, !.totalsize = bufsize,
                           !.off_dt_strings = IF @ # 0 THEN bufsize ELSE @], 0))

fdt_add_reservemap_entry(f, addr, size) ==
    IF fdt_sw_probe_memrsv_(f) # 0 THEN Ret(f, fdt_sw_probe_memrsv_(f))
    ELSE IF f.off_dt_struct + RsvSize > f.totalsize THEN Ret(f, -NOSPACE)
    ELSE Ret(store([f EXCEPT !.off_dt_struct = @ + RsvSize], f.off_dt_struct, <<addr, size>>), 0)

fdt_finish_reservemap(f) ==
    Let(fdt_add_reservemap_entry(f, 0, 0), LAMBDA g :
        IF g.ret # 0 THEN g ELSE Ret([g.f EXCEPT !.off_dt_strings = g.f.totalsize], 0))

pad(s, n) == [i \in 1 .. n |-> IF i <= Len(s) THEN s[i] ELSE 0]

swToken(f, s) ==
    IF fdt_sw_probe_struct_(f) # 0 THEN Ret(f, fdt_sw_probe_struct_(f))
    ELSE IF ~fdt_grab_space_(f, Len(s)) THEN Ret(f, -NOSPACE)
    ELSE Ret(grabbed(f, s), 0)

fdt_begin_node(f, name) ==
    swToken(f, fdt32_st(FDT_BEGIN_NODE) \o pad(name, FDT_TAGALIGN(Len(name) + 1)))

fdt_end_node(f) == swToken(f, fdt32_st(FDT_END_NODE))

\* The table grows down from the end of the buffer; offsets are negative, and 0
\* means that there is no room.
fdt_add_string_(f, s) ==
    LET offset == -f.size_dt_strings - (Len(s) + 1)
    IN  IF f.totalsize + offset < f.off_dt_struct + f.size_dt_struct THEN Ret(f, 0)
        ELSE Ret(store([f EXCEPT !.size_dt_strings = @ + Len(s) + 1], f.totalsize + offset,
                       Append(s, 0)), offset)

swDelLastString(f, s) == [f EXCEPT !.size_dt_strings = @ - (Len(s) + 1)]

swFindAddString(f, s) ==
    LET size == f.size_dt_strings IN
    Let(fdt_find_string_(bytesAt(f, f.totalsize - size, size), s), LAMBDA p :
        IF p >= 0 THEN [f |-> f, ret |-> p - size, allocated |-> FALSE]
        ELSE [f |-> fdt_add_string_(f, s).f, ret |-> fdt_add_string_(f, s).ret, allocated |-> TRUE])

NO_NAME_DEDUP == 1

fdt_property_placeholder(f, name, len) ==
    Let(fdt_add_string_(f, name), LAMBDA added :
    Let(IF f.last_comp_version = NO_NAME_DEDUP
        THEN [f |-> added.f, ret |-> added.ret, allocated |-> TRUE]
        ELSE swFindAddString(f, name), LAMBDA n :
    Let(fdt32_st(FDT_PROP) \o fdt32_st(len) \o fdt32_st(n.ret), LAMBDA head :
        IF fdt_sw_probe_struct_(f) # 0 THEN Ret(f, fdt_sw_probe_struct_(f))
        ELSE IF n.ret = 0 THEN Ret(f, -NOSPACE)
        ELSE IF ~fdt_grab_space_(n.f, PropSize + FDT_TAGALIGN(len))
        THEN Ret(IF n.allocated THEN swDelLastString(n.f, name) ELSE n.f, -NOSPACE)
        ELSE Ret(grabbed(n.f, pad(head, PropSize + FDT_TAGALIGN(len))), 0))))

fdt_property(f, name, val) ==
    Let(fdt_property_placeholder(f, name, Len(val)), LAMBDA g :
    LET at == f.off_dt_struct + f.size_dt_struct + PropSize
    IN  IF g.ret # 0 THEN g ELSE Ret(store(g.f, at, val), 0))

\* The strings move down to the structure, then every name offset is corrected.
fdt_finish(f) ==
    Let(grabbed(f, fdt32_st(FDT_END)), LAMBDA g :
    LET newstroffset == g.off_dt_struct + g.size_dt_struct IN
    Let([memmove(g, newstroffset, g.totalsize - g.size_dt_strings, g.size_dt_strings)
            EXCEPT !.off_dt_strings = newstroffset], LAMBDA moved :
    LET nameoff(o) == int32(structWord(moved, o + 2 * TAGSIZE)) + f.size_dt_strings
        fix(h, o) == store(h, h.off_dt_struct + o + 2 * TAGSIZE, fdt32_st(nameoff(o))) IN
    Let(Fn(Nat, LAMBDA walk, o :
               Let(fdt_next_tag(moved, o), LAMBDA t :
                   << [off |-> o, tag |-> t.tag, next |-> t.next] >>
                   \o IF t.tag = FDT_END THEN <<>> ELSE walk[t.next]))[0], LAMBDA tags :
    LET end == tags[Len(tags)].next IN
    Let(FoldLeft(LAMBDA h, t : IF t.tag = FDT_PROP THEN fix(h, t.off) ELSE h, moved, tags), LAMBDA done :
        IF fdt_sw_probe_struct_(f) # 0 THEN Ret(f, fdt_sw_probe_struct_(f))
        ELSE IF ~fdt_grab_space_(f, TAGSIZE) THEN Ret(f, -NOSPACE)
        ELSE IF end < 0 THEN Ret(done, end)
        ELSE Ret([done EXCEPT !.totalsize = newstroffset + f.size_dt_strings,
                      !.last_comp_version = FDT_FIRST_SUPPORTED_VERSION, !.magic = "MAGIC"], 0)))))

-----------------------------------------------------------------------------
(* fdt_wip.c *)

fdt_setprop_inplace_namelen_partial(f, node, name, idx, val) ==
    Let(fdt_getprop_namelen(f, node, name), LAMBDA v :
        IF v.at < 0 THEN Ret(f, v.len)
        ELSE IF v.len < Len(val) + idx THEN Ret(f, -NOSPACE)
        ELSE Ret(store(f, v.at + idx, val), 0))

fdt_setprop_inplace(f, node, name, val) ==
    Let(fdt_getprop(f, node, name), LAMBDA v :
        IF v.at < 0 THEN Ret(f, v.len)
        ELSE IF v.len # Len(val) THEN Ret(f, -NOSPACE)
        ELSE fdt_setprop_inplace_namelen_partial(f, node, name, 0, val))

\* Whole tags, so the padding of the last one is covered as well.
fdt_nop_region_(f, offset, len) ==
    LET n == FDT_TAGALIGN(len) \div TAGSIZE
    IN  store(f, f.off_dt_struct + offset,
              [i \in 1 .. n * TAGSIZE |-> fdt32_st(FDT_NOP)[((i - 1) % TAGSIZE) + 1]])

fdt_nop_property(f, node, name) ==
    Let(fdt_get_property_namelen(f, node, name), LAMBDA prop :
        IF prop.off < 0 THEN Ret(f, prop.len)
        ELSE Ret(fdt_nop_region_(f, prop.off, prop.len + PropSize), 0))

fdt_node_end_offset_(f, offset) ==
    Fn2(Int, Int, LAMBDA from, o, d :
        IF o < 0 \/ d < 0 THEN o
        ELSE Let(fdt_next_node(f, o, d, TRUE), LAMBDA n : from[n.off, n.depth]))[offset, 0]

fdt_nop_node(f, node) ==
    Let(fdt_node_end_offset_(f, node), LAMBDA end :
        IF end < 0 THEN Ret(f, end) ELSE Ret(fdt_nop_region_(f, node, end - node), 0))

-----------------------------------------------------------------------------
(* fdt_rw.c *)

fdt_blocks_misordered_(f, mem_rsv_size, struct_size) ==
    \/ f.off_mem_rsvmap < HeaderSize
    \/ f.off_dt_struct < f.off_mem_rsvmap + mem_rsv_size
    \/ f.off_dt_strings < f.off_dt_struct + struct_size
    \/ f.totalsize < f.off_dt_strings + f.size_dt_strings

fdt_rw_probe_(f) ==
    IF fdt_ro_probe_(f) < 0 THEN fdt_ro_probe_(f)
    ELSE IF f.version < 17 THEN -BADVERSION
    ELSE IF fdt_blocks_misordered_(f, RsvSize, f.size_dt_struct) THEN -BADLAYOUT ELSE 0

fdt_data_size_(f) == f.off_dt_strings + f.size_dt_strings

\* Everything behind the splice point moves.
fdt_splice_(f, p, oldlen, newlen) ==
    LET end == fdt_data_size_(f)
    IN  IF p + oldlen > end \/ end - oldlen + newlen < 0 THEN Ret(f, -BADOFFSET)
        ELSE IF end - oldlen + newlen > f.totalsize THEN Ret(f, -NOSPACE)
        ELSE Ret(memmove(f, p + newlen, p + oldlen, end - p - oldlen), 0)

fdt_splice_mem_rsv_(f, p, oldn, newn) ==
    Let(fdt_splice_(f, p, oldn * RsvSize, newn * RsvSize), LAMBDA g :
    LET delta == (newn - oldn) * RsvSize
    IN  IF g.ret # 0 THEN g
        ELSE Ret([g.f EXCEPT !.off_dt_struct = @ + delta, !.off_dt_strings = @ + delta], 0))

\* A plausible slip: the strings are not known to have moved.
spliceStructOnly(f, p, oldlen, newlen) ==
    Let(fdt_splice_(f, p, oldlen, newlen), LAMBDA g :
        IF g.ret # 0 THEN g ELSE Ret([g.f EXCEPT !.size_dt_struct = @ + newlen - oldlen], 0))

fdt_splice_struct_(f, p, oldlen, newlen) ==
    Let(fdt_splice_(f, p, oldlen, newlen), LAMBDA g :
        IF g.ret # 0 THEN g
        ELSE Ret([g.f EXCEPT !.size_dt_struct = @ + newlen - oldlen,
                             !.off_dt_strings = @ + newlen - oldlen], 0))

fdt_del_last_string_(f, s) == [f EXCEPT !.size_dt_strings = @ - (Len(s) + 1)]

fdt_splice_string_(f, newlen) ==
    Let(fdt_splice_(f, fdt_data_size_(f), 0, newlen), LAMBDA g :
        IF g.ret # 0 THEN g ELSE Ret([g.f EXCEPT !.size_dt_strings = @ + newlen], 0))

fdt_find_add_string_(f, s) ==
    Let(fdt_find_string_(bytesAt(f, f.off_dt_strings, f.size_dt_strings), s), LAMBDA p :
    Let(fdt_splice_string_(f, Len(s) + 1), LAMBDA g :
        IF p >= 0 THEN [f |-> f, ret |-> p, allocated |-> FALSE]
        ELSE IF g.ret # 0 THEN [f |-> f, ret |-> g.ret, allocated |-> FALSE]
        ELSE [f |-> store(g.f, fdt_data_size_(f), Append(s, 0)), ret |-> f.size_dt_strings,
              allocated |-> TRUE]))

fdt_add_mem_rsv(f, address, size) ==
    Let(f.off_mem_rsvmap + fdt_num_mem_rsv(f) * RsvSize, LAMBDA re :
    Let(fdt_splice_mem_rsv_(f, re, 0, 1), LAMBDA g :
        IF fdt_rw_probe_(f) # 0 THEN Ret(f, fdt_rw_probe_(f))
        ELSE IF g.ret # 0 THEN g ELSE Ret(store(g.f, re, <<address, size>>), 0)))

fdt_del_mem_rsv(f, n) ==
    IF fdt_rw_probe_(f) # 0 THEN Ret(f, fdt_rw_probe_(f))
    ELSE IF n >= fdt_num_mem_rsv(f) THEN Ret(f, -NOTFOUND)
    ELSE fdt_splice_mem_rsv_(f, f.off_mem_rsvmap + n * RsvSize, 1, 0)

setLen(f, off, len) == store(f, f.off_dt_struct + off + TAGSIZE, fdt32_st(len))

\* The property functions also return where the property is.
fdt_resize_property_(f, node, name, len) ==
    Let(fdt_get_property_namelen(f, node, name), LAMBDA prop :
    Let(fdt_splice_struct_(f, f.off_dt_struct + prop.off + PropSize,
                           FDT_TAGALIGN(prop.len), FDT_TAGALIGN(len)), LAMBDA g :
        IF prop.off < 0 THEN [f |-> f, ret |-> prop.len, off |-> -1]
        ELSE IF g.ret # 0 THEN [f |-> f, ret |-> g.ret, off |-> -1]
        ELSE [f |-> setLen(g.f, prop.off, len), ret |-> 0, off |-> prop.off]))

fdt_add_property_(f, node, name, len) ==
    Let(fdt_check_node_offset_(f, node), LAMBDA nextoffset :
    Let(fdt_find_add_string_(f, name), LAMBDA n :
    Let(fdt_splice_struct_(n.f, f.off_dt_struct + nextoffset, 0, PropSize + FDT_TAGALIGN(len)), LAMBDA g :
    Let(fdt32_st(FDT_PROP) \o fdt32_st(len) \o fdt32_st(n.ret), LAMBDA head :
    LET fail(h, e) == [f |-> h, ret |-> e, off |-> -1]
    IN  IF nextoffset < 0 THEN fail(f, nextoffset)
        ELSE IF n.ret < 0 THEN fail(f, n.ret)
        ELSE IF g.ret # 0 THEN fail(IF n.allocated THEN fdt_del_last_string_(n.f, name) ELSE f, g.ret)
        ELSE [f |-> store(g.f, f.off_dt_struct + nextoffset, head), ret |-> 0, off |-> nextoffset]))))

fdt_set_name(f, node, name) ==
    Let(fdt_get_name(f, node), LAMBDA old :
    LET namep == f.off_dt_struct + node + TAGSIZE IN
    Let(fdt_splice_struct_(f, namep, FDT_TAGALIGN(old.len + 1), FDT_TAGALIGN(Len(name) + 1)), LAMBDA g :
        IF fdt_rw_probe_(f) # 0 THEN Ret(f, fdt_rw_probe_(f))
        ELSE IF old.len < 0 THEN Ret(f, old.len)
        ELSE IF g.ret # 0 THEN g ELSE Ret(store(g.f, namep, Append(name, 0)), 0)))

fdt_setprop_placeholder(f, node, name, len) ==
    Let(fdt_resize_property_(f, node, name, len), LAMBDA r :
        IF fdt_rw_probe_(f) # 0 THEN [f |-> f, ret |-> fdt_rw_probe_(f), off |-> -1]
        ELSE IF r.ret = -NOTFOUND THEN fdt_add_property_(f, node, name, len) ELSE r)

fdt_setprop(f, node, name, val) ==
    Let(fdt_setprop_placeholder(f, node, name, Len(val)), LAMBDA g :
        IF g.ret # 0 THEN Ret(g.f, g.ret)
        ELSE Ret(store(g.f, g.f.off_dt_struct + g.off + PropSize, val), 0))

fdt_appendprop(f, node, name, val) ==
    Let(fdt_get_property_namelen(f, node, name), LAMBDA prop :
    LET data == f.off_dt_struct + prop.off + PropSize
        newlen == prop.len + Len(val) IN
    Let(fdt_splice_struct_(f, data, FDT_TAGALIGN(prop.len), FDT_TAGALIGN(newlen)), LAMBDA g :
    Let(fdt_add_property_(f, node, name, Len(val)), LAMBDA added :
        IF fdt_rw_probe_(f) # 0 THEN Ret(f, fdt_rw_probe_(f))
        ELSE IF prop.off >= 0
        THEN IF g.ret # 0 THEN g
             ELSE Ret(store(setLen(g.f, prop.off, newlen), data + prop.len, val), 0)
        ELSE IF added.ret # 0 THEN Ret(added.f, added.ret)
        ELSE Ret(store(added.f, f.off_dt_struct + added.off + PropSize, val), 0))))

fdt_delprop(f, node, name) ==
    Let(fdt_get_property_namelen(f, node, name), LAMBDA prop :
        IF fdt_rw_probe_(f) # 0 THEN Ret(f, fdt_rw_probe_(f))
        ELSE IF prop.off < 0 THEN Ret(f, prop.len)
        ELSE fdt_splice_struct_(f, f.off_dt_struct + prop.off, PropSize + FDT_TAGALIGN(prop.len), 0))

\* The new node is put after the properties of its parent.
fdt_add_subnode_namelen(f, parent, name) ==
    Let(fdt_subnode_offset_namelen(f, parent, name), LAMBDA found :
    Let(Fn(Nat, LAMBDA skip, o :
               Let(fdt_next_tag(f, o), LAMBDA t :
                   IF t.tag \in {FDT_PROP, FDT_NOP} THEN skip[t.next] ELSE o))
            [fdt_next_tag(f, parent).next], LAMBDA offset :
    Let(fdt32_st(FDT_BEGIN_NODE) \o pad(name, FDT_TAGALIGN(Len(name) + 1))
        \o fdt32_st(FDT_END_NODE), LAMBDA node :
    Let(fdt_splice_struct_(f, f.off_dt_struct + offset, 0, Len(node)), LAMBDA g :
        IF fdt_rw_probe_(f) # 0 THEN Ret(f, fdt_rw_probe_(f))
        ELSE IF found >= 0 THEN Ret(f, -EXISTS)
        ELSE IF found # -NOTFOUND THEN Ret(f, found)
        ELSE IF g.ret # 0 THEN g ELSE Ret(store(g.f, f.off_dt_struct + offset, node), offset)))))

fdt_add_subnode(f, parent, name) == fdt_add_subnode_namelen(f, parent, name)

fdt_del_node(f, node) ==
    Let(fdt_node_end_offset_(f, node), LAMBDA end :
        IF fdt_rw_probe_(f) # 0 THEN Ret(f, fdt_rw_probe_(f))
        ELSE IF end < 0 THEN Ret(f, end)
        ELSE fdt_splice_struct_(f, f.off_dt_struct + node, end - node, 0))

\* The blocks one after the other in a buffer that may be the old one.
fdt_packblocks_(f, mem, mem_rsv_size, struct_size) ==
    LET struct_off == HeaderSize + mem_rsv_size
        strings_off == struct_off + struct_size IN
    Let(store([f EXCEPT !.mem = mem], HeaderSize, bytesAt(f, f.off_mem_rsvmap, mem_rsv_size)), LAMBDA a :
    Let(store(a, struct_off,
              bytesAt(IF mem = f.mem THEN a ELSE f, f.off_dt_struct, struct_size)), LAMBDA b :
    Let(store(b, strings_off,
              bytesAt(IF mem = f.mem THEN b ELSE f, f.off_dt_strings, f.size_dt_strings)), LAMBDA c :
        [c EXCEPT !.off_mem_rsvmap = HeaderSize, !.off_dt_struct = struct_off,
                  !.size_dt_struct = struct_size, !.off_dt_strings = strings_off])))

fdt_move(f, bufsize) ==
    IF fdt_ro_probe_(f) < 0 THEN Ret(f, fdt_ro_probe_(f))
    ELSE IF f.totalsize > bufsize THEN Ret(f, -NOSPACE)
    ELSE Ret([f EXCEPT !.mem = bytesAt(f, 0, f.totalsize) \o zeros(bufsize - f.totalsize)], 0)

\* Opened into a buffer of its own.
fdt_open_into(f, bufsize) ==
    Let((fdt_num_mem_rsv(f) + 1) * RsvSize, LAMBDA mem_rsv_size :
    Let(IF f.version >= 17 THEN f.size_dt_struct
        ELSE Fn(Nat, LAMBDA walk, o :
                 Let(fdt_next_tag(f, o), LAMBDA t :
                     IF t.tag = FDT_END THEN t.next ELSE walk[t.next]))[0], LAMBDA struct_size :
    LET newsize == HeaderSize + mem_rsv_size + struct_size + f.size_dt_strings IN
    Let(fdt_move(f, bufsize), LAMBDA moved :
    Let(fdt_packblocks_(f, zeros(bufsize), mem_rsv_size, struct_size), LAMBDA packed :
        IF fdt_ro_probe_(f) < 0 THEN Ret(f, fdt_ro_probe_(f))
        ELSE IF struct_size < 0 THEN Ret(f, struct_size)
        ELSE IF ~fdt_blocks_misordered_(f, mem_rsv_size, struct_size)
        THEN IF moved.ret # 0 THEN moved
             ELSE Ret([moved.f EXCEPT !.version = 17, !.size_dt_struct = struct_size,
                                      !.totalsize = bufsize], 0)
        ELSE IF bufsize < newsize THEN Ret(f, -NOSPACE)
        ELSE Ret([packed EXCEPT !.magic = "MAGIC", !.totalsize = bufsize, !.version = 17,
                                !.last_comp_version = 16], 0)))))

fdt_pack(f) ==
    Let(fdt_packblocks_(f, f.mem, (fdt_num_mem_rsv(f) + 1) * RsvSize, f.size_dt_struct), LAMBDA g :
        IF fdt_rw_probe_(f) # 0 THEN Ret(f, fdt_rw_probe_(f))
        ELSE Ret([g EXCEPT !.totalsize = fdt_data_size_(g)], 0))

-----------------------------------------------------------------------------
(* fdt_empty_tree.c and fdt_addresses.c *)

\* Each step only if the one before succeeded.
then(r, Op(_)) == IF r.ret # 0 THEN r ELSE Op(r.f)

fdt_create_empty_tree(bufsize) ==
    Let(then(then(then(fdt_create(bufsize), fdt_finish_reservemap),
                  LAMBDA f : fdt_begin_node(f, <<>>)), fdt_end_node), LAMBDA built :
        then(then(built, fdt_finish), LAMBDA f : fdt_open_into(f, bufsize)))

\* addr and size are two words at most.
fdt_appendprop_addrrange(f, parent, node, name, addr, size) ==
    Let(fdt_address_cells(f, parent), LAMBDA ac :
    Let(fdt_size_cells(f, parent), LAMBDA sc :
    LET cells(x, n) == IF n = 1 THEN fdt32_st(x) ELSE fdt32_st(x \div W) \o fdt32_st(x)
    IN  IF ac < 0 THEN Ret(f, ac)
        ELSE IF sc < 0 THEN Ret(f, sc)
        ELSE IF ac = 1 /\ (addr >= W \/ W - addr < size) THEN Ret(f, -BADVALUE)
        ELSE IF ac \notin {1, 2} THEN Ret(f, -BADNCELLS)
        ELSE IF sc = 1 /\ size >= W THEN Ret(f, -BADVALUE)
        ELSE IF sc \notin {1, 2} THEN Ret(f, -BADNCELLS)
        ELSE fdt_appendprop(f, node, name, cells(addr, ac) \o cells(size, sc))))
=============================================================================
