--------------------------------- MODULE Fdt ---------------------------------
(***************************************************************************)
(* libfdt, as Spike links it to build and read the device tree it boots    *)
(* with: the header checks, the walk over the structure block and the      *)
(* read-only queries (fdt.c, fdt_ro.c, fdt_addresses.c).                   *)
(*                                                                         *)
(* A blob f is its header fields and its bytes, f.mem.  The bytes are      *)
(* scaled: a byte has 4 bits, an fdt32_t two bytes, a reserve entry two,   *)
(* the header four.  A long reserved name ("phandle", "__overlay__") is    *)
(* one character.  An error is a negative result, as in C; a function that *)
(* returns a pointer and a length returns the offset and the length.       *)
(***************************************************************************)
EXTENDS Integers, Sequences, FiniteSets, SequencesExt, Binding

B == 16                      \* values of a byte
W == B * B                   \* values of an fdt32_t
INT32_MAX == W \div 2 - 1
TAGSIZE == 2
RsvSize == 2                 \* sizeof(struct fdt_reserve_entry)
PropSize == 3 * TAGSIZE      \* sizeof(struct fdt_property)
HeaderSize == 4

FDT_BEGIN_NODE == 1
FDT_END_NODE == 2
FDT_PROP == 3
FDT_NOP == 4
FDT_END == 9

NOTFOUND == 1
EXISTS == 2
NOSPACE == 3
BADOFFSET == 4
BADPATH == 5
BADPHANDLE == 6
BADSTATE == 7
TRUNCATED == 8
BADMAGIC == 9
BADVERSION == 10
BADSTRUCTURE == 11
BADLAYOUT == 12
INTERNAL == 13
BADNCELLS == 14
BADVALUE == 15
BADOVERLAY == 16
NOPHANDLES == 17

FDT_FIRST_SUPPORTED_VERSION == 2
FDT_LAST_SUPPORTED_VERSION == 17

\* Characters with a meaning of their own.
AT == 15
SLASH == 14
COLON == 13
PHANDLE == <<12>>
LINUX_PHANDLE == <<7>>

FDT_TAGALIGN(x) == ((x + TAGSIZE - 1) \div TAGSIZE) * TAGSIZE

u32(x) == x % W
int32(w) == IF w > INT32_MAX THEN w - W ELSE w

\* Bytes a .. a + n - 1, a big-endian word, and a C string.
byteAt(f, a) == f.mem[a + 1]

bytesAt(f, a, n) == SubSeq(f.mem, a + 1, a + n)

fdt32_ld(f, a) == byteAt(f, a) * B + byteAt(f, a + 1)

stringAt(f, a) ==
    bytesAt(f, a, Fn(Nat, LAMBDA strlen, k : IF byteAt(f, a + k) = 0 THEN k ELSE strlen[k + 1])[0])

fdt32_st(x) == << u32(x) \div B, u32(x) % B >>

store(f, a, s) ==
    [f EXCEPT !.mem = SubSeq(@, 1, a) \o s \o SubSeq(@, a + Len(s) + 1, Len(@))]

-----------------------------------------------------------------------------
(* The header *)

fdt_ro_probe_(f) ==
    Let(IF f.magic = "MAGIC"
        THEN IF \/ f.version < FDT_FIRST_SUPPORTED_VERSION
                \/ f.last_comp_version > FDT_LAST_SUPPORTED_VERSION
             THEN -BADVERSION ELSE 0
        ELSE IF f.magic = "SW_MAGIC"
        THEN IF f.size_dt_struct = 0 THEN -BADSTATE ELSE 0
        ELSE -BADMAGIC, LAMBDA bad :
        IF bad < 0 THEN bad ELSE IF f.totalsize < INT32_MAX THEN f.totalsize ELSE -TRUNCATED)

check_off_(hdrsize, totalsize, off) == off >= hdrsize /\ off <= totalsize

check_block_(hdrsize, totalsize, base, size) ==
    /\ check_off_(hdrsize, totalsize, base)
    /\ u32(base + size) >= base
    /\ check_off_(hdrsize, totalsize, u32(base + size))

fdt_header_size_(version) ==
    IF version <= 1 THEN 1 ELSE IF version <= 2 THEN 2 ELSE IF version <= 16 THEN 3 ELSE 4

fdt_check_header(f) ==
    LET hdrsize == fdt_header_size_(f.version)
    IN  IF f.magic # "MAGIC" THEN -BADMAGIC
        ELSE IF \/ f.version < FDT_FIRST_SUPPORTED_VERSION
                \/ f.last_comp_version > FDT_LAST_SUPPORTED_VERSION
                \/ f.version < f.last_comp_version THEN -BADVERSION
        ELSE IF /\ f.totalsize >= hdrsize
                /\ f.totalsize <= INT32_MAX
                /\ check_off_(hdrsize, f.totalsize, f.off_mem_rsvmap)
                /\ IF f.version < 17 THEN check_off_(hdrsize, f.totalsize, f.off_dt_struct)
                   ELSE check_block_(hdrsize, f.totalsize, f.off_dt_struct, f.size_dt_struct)
                /\ check_block_(hdrsize, f.totalsize, f.off_dt_strings, f.size_dt_strings)
             THEN 0 ELSE -TRUNCATED

-----------------------------------------------------------------------------
(* The structure block *)

\* Whether len bytes at an offset lie in the block; offsets count from its start.
fdt_offset_ptr(f, offset, len) ==
    LET absoffset == u32(offset + f.off_dt_struct)
    IN  /\ absoffset >= u32(offset)
        /\ u32(absoffset + len) >= absoffset
        /\ u32(absoffset + len) <= f.totalsize
        /\ f.version >= 17 => /\ u32(offset + len) >= u32(offset)
                              /\ u32(offset + len) <= f.size_dt_struct

structWord(f, offset) == fdt32_ld(f, f.off_dt_struct + offset)

RECURSIVE nameEnd(_, _), nodeFrom(_, _, _, _), subnodeFrom(_, _, _), subnodesFrom(_, _)

\* Where the name that starts at an offset ends, or -1.
nameEnd(f, i) ==
    IF ~fdt_offset_ptr(f, i, 1) THEN -1
    ELSE IF byteAt(f, f.off_dt_struct + i) = 0 THEN i ELSE nameEnd(f, i + 1)

\* The end of a property; values of at least 8 bytes were aligned before version 16.
propEnd(f, offset) ==
    Let(structWord(f, offset), LAMBDA len :
    LET plain == offset + PropSize - TAGSIZE + len
    IN  IF f.version < 16 /\ len >= 2 * TAGSIZE /\ (plain - len) % (2 * TAGSIZE) # 0
        THEN plain + TAGSIZE ELSE plain)

\* Where what follows a tag ends; 0 if the tag is unknown or that is cut off.
tagEnd(f, tag, start) ==
    CASE tag = FDT_BEGIN_NODE -> nameEnd(f, start) + 1
      [] tag = FDT_PROP -> IF fdt_offset_ptr(f, start, TAGSIZE) THEN propEnd(f, start) ELSE 0
      [] tag \in {FDT_END, FDT_END_NODE, FDT_NOP} -> start
      [] OTHER -> 0

tagUpTo(f, startoffset, offset) ==
    IF offset = 0 \/ ~fdt_offset_ptr(f, startoffset, offset - startoffset)
    THEN [tag |-> FDT_END, next |-> -BADSTRUCTURE]
    ELSE [tag |-> structWord(f, startoffset), next |-> FDT_TAGALIGN(offset)]

\* The tag at an offset and the offset of the next one.
fdt_next_tag(f, startoffset) ==
    IF ~fdt_offset_ptr(f, startoffset, TAGSIZE) THEN [tag |-> FDT_END, next |-> -TRUNCATED]
    ELSE tagUpTo(f, startoffset, tagEnd(f, structWord(f, startoffset), startoffset + TAGSIZE))

checkTag(f, offset, tag) ==
    Let(fdt_next_tag(f, offset), LAMBDA t :
        IF offset < 0 \/ offset % TAGSIZE # 0 \/ t.tag # tag THEN -BADOFFSET ELSE t.next)

fdt_check_node_offset_(f, offset) == checkTag(f, offset, FDT_BEGIN_NODE)

fdt_check_prop_offset_(f, offset) == checkTag(f, offset, FDT_PROP)

\* The next node in preorder; with a depth, the walk also ends where the depth
\* becomes negative.
nodeFrom(f, o, d, counting) ==
    Let(fdt_next_tag(f, o), LAMBDA t :
        CASE t.tag \in {FDT_PROP, FDT_NOP} -> nodeFrom(f, t.next, d, counting)
          [] t.tag = FDT_BEGIN_NODE -> [off |-> o, depth |-> d + 1]
          [] t.tag = FDT_END_NODE -> IF counting /\ d - 1 < 0
                                     THEN [off |-> t.next, depth |-> d - 1]
                                     ELSE nodeFrom(f, t.next, d - 1, counting)
          [] OTHER -> [off |-> IF t.next >= 0 \/ (t.next = -TRUNCATED /\ ~counting)
                               THEN -NOTFOUND ELSE t.next, depth |-> d])

nodeAfter(f, first, depth, counting) ==
    IF first < 0 THEN [off |-> first, depth |-> depth] ELSE nodeFrom(f, first, depth, counting)

fdt_next_node(f, offset, depth, counting) ==
    nodeAfter(f, IF offset >= 0 THEN fdt_check_node_offset_(f, offset) ELSE 0, depth, counting)

fdt_first_subnode(f, offset) ==
    Let(fdt_next_node(f, offset, 0, TRUE), LAMBDA n :
        IF n.off < 0 \/ n.depth # 1 THEN -NOTFOUND ELSE n.off)

subnodeFrom(f, o, d) ==
    Let(fdt_next_node(f, o, d, TRUE), LAMBDA n :
        IF n.off < 0 \/ n.depth < 1 THEN -NOTFOUND
        ELSE IF n.depth > 1 THEN subnodeFrom(f, n.off, n.depth) ELSE n.off)

fdt_next_subnode(f, offset) == subnodeFrom(f, offset, 1)

\* fdt_for_each_subnode
subnodesFrom(f, o) == IF o < 0 THEN <<>> ELSE <<o>> \o subnodesFrom(f, fdt_next_subnode(f, o))

subnodes(f, parent) == subnodesFrom(f, fdt_first_subnode(f, parent))

\* The first place of a string in a table, also at the tail of a longer one.
fdt_find_string_(strtab, s) ==
    LET z == Append(s, 0) IN
    Let({ p \in 0 .. Len(strtab) - Len(z) : SubSeq(strtab, p + 1, p + Len(z)) = z }, LAMBDA at :
        IF at = {} THEN -1 ELSE CHOOSE p \in at : \A q \in at : p <= q)

-----------------------------------------------------------------------------
(* Names and strings *)

fdt_get_name(f, nodeoffset) ==
    Let(fdt_check_node_offset_(f, nodeoffset), LAMBDA err :
    Let(stringAt(f, f.off_dt_struct + nodeoffset + TAGSIZE), LAMBDA nh :
    LET slashes == { i \in 1 .. Len(nh) : nh[i] = SLASH } IN
    Let(CHOOSE i \in slashes : \A j \in slashes : j <= i, LAMBDA leaf :
        IF fdt_ro_probe_(f) < 0 THEN [name |-> <<>>, len |-> fdt_ro_probe_(f)]
        ELSE IF err < 0 THEN [name |-> <<>>, len |-> err]
        ELSE IF f.version >= 16 THEN [name |-> nh, len |-> Len(nh)]
        ELSE IF slashes = {} THEN [name |-> <<>>, len |-> -BADSTRUCTURE]
        ELSE [name |-> SubSeq(nh, leaf + 1, Len(nh)), len |-> Len(nh) - leaf])))

\* A name without a unit address matches a node that has one.
fdt_nodename_eq_(f, offset, s) ==
    Let(fdt_get_name(f, offset), LAMBDA p :
        /\ p.len >= Len(s)
        /\ SubSeq(p.name, 1, Len(s)) = s
        /\ \/ p.len = Len(s)
           \/ p.name[Len(s) + 1] = AT /\ \A i \in 1 .. Len(s) : s[i] # AT)

fdt_get_string(f, stroffset) ==
    Let(fdt_ro_probe_(f), LAMBDA totalsize :
    LET absoffset == u32(stroffset + f.off_dt_strings)
        room == totalsize - absoffset
        finished == f.magic = "MAGIC" IN
    Let(IF finished
        THEN IF f.version >= 17 /\ f.size_dt_strings - stroffset < room
             THEN f.size_dt_strings - stroffset ELSE room
        ELSE IF -stroffset < room THEN -stroffset ELSE room, LAMBDA len :
    Let(IF finished
        THEN stroffset < 0 \/ (f.version >= 17 /\ stroffset >= f.size_dt_strings)
        ELSE stroffset >= 0 \/ stroffset < -f.size_dt_strings, LAMBDA outside :
    LET fail(e) == [s |-> <<>>, len |-> e]
    IN  IF totalsize < 0 THEN fail(totalsize)
        ELSE IF absoffset >= totalsize \/ outside THEN fail(-BADOFFSET)
        ELSE IF \A i \in 0 .. len - 1 : byteAt(f, absoffset + i) # 0 THEN fail(-TRUNCATED)
        ELSE [s |-> stringAt(f, absoffset), len |-> Len(stringAt(f, absoffset))])))

fdt_string_eq_(f, stroffset, s) ==
    Let(fdt_get_string(f, stroffset), LAMBDA p :
        p.len = Len(s) /\ p.s = s)

-----------------------------------------------------------------------------
(* The reserve map *)

fdt_mem_rsv(f, n) ==
    LET absoffset == f.off_mem_rsvmap + n * RsvSize
    IN  IF absoffset > f.totalsize - RsvSize THEN -1 ELSE absoffset

fdt_get_mem_rsv(f, n) ==
    Let(fdt_mem_rsv(f, n), LAMBDA re :
        IF re < 0 THEN -BADOFFSET ELSE [address |-> byteAt(f, re), size |-> byteAt(f, re + 1)])

fdt_num_mem_rsv(f) ==
    Fn(Nat, LAMBDA from, i :
        IF fdt_mem_rsv(f, i) < 0 THEN -TRUNCATED
        ELSE IF byteAt(f, fdt_mem_rsv(f, i) + 1) = 0 THEN i ELSE from[i + 1])[0]

-----------------------------------------------------------------------------
(* Properties *)

RECURSIVE nextprop_(_, _), propertiesFrom(_, _), propertyNamed(_, _, _)

\* A plausible slip: a property that was replaced by NOPs ends the properties of its node.
nextpropUpToNop(f, offset) ==
    Let(fdt_next_tag(f, offset), LAMBDA t :
        CASE t.tag = FDT_END -> IF t.next >= 0 THEN -BADSTRUCTURE ELSE t.next
          [] t.tag = FDT_PROP -> offset
          [] OTHER -> -NOTFOUND)

nextprop_(f, offset) ==
    Let(fdt_next_tag(f, offset), LAMBDA t :
        CASE t.tag = FDT_END -> IF t.next >= 0 THEN -BADSTRUCTURE ELSE t.next
          [] t.tag = FDT_PROP -> offset
          [] t.tag = FDT_NOP -> nextprop_(f, t.next)
          [] OTHER -> -NOTFOUND)

\* The offset after a tag that was checked, or its error.
propertyAfter(f, offset) == IF offset < 0 THEN offset ELSE nextprop_(f, offset)

fdt_first_property_offset(f, nodeoffset) == propertyAfter(f, fdt_check_node_offset_(f, nodeoffset))

fdt_next_property_offset(f, offset) == propertyAfter(f, fdt_check_prop_offset_(f, offset))

\* fdt_for_each_property_offset
propertiesFrom(f, o) ==
    IF o < 0 THEN <<>> ELSE <<o>> \o propertiesFrom(f, fdt_next_property_offset(f, o))

properties(f, node) == propertiesFrom(f, fdt_first_property_offset(f, node))

fdt_get_property_by_offset_(f, offset) ==
    Let(fdt_check_prop_offset_(f, offset), LAMBDA err :
        IF err < 0 THEN [off |-> -1, len |-> err]
        ELSE [off |-> offset, len |-> structWord(f, offset + TAGSIZE)])

fdt_get_property_by_offset(f, offset) ==
    IF f.version < 16 THEN [off |-> -1, len |-> -BADVERSION]
    ELSE fdt_get_property_by_offset_(f, offset)

propertyNamed(f, o, name) ==
    IF o < 0 THEN [off |-> -1, len |-> o]
    ELSE IF fdt_string_eq_(f, int32(structWord(f, o + 2 * TAGSIZE)), name)
    THEN fdt_get_property_by_offset_(f, o)
    ELSE propertyNamed(f, fdt_next_property_offset(f, o), name)

fdt_get_property_namelen_(f, node, name) ==
    propertyNamed(f, fdt_first_property_offset(f, node), name)

fdt_get_property_namelen(f, node, name) ==
    IF f.version < 16 THEN [off |-> -1, len |-> -BADVERSION]
    ELSE fdt_get_property_namelen_(f, node, name)

\* Where the value of a property starts in the blob.
dataAt(f, prop) ==
    f.off_dt_struct + prop.off + PropSize
        + (IF f.version < 16 /\ (prop.off + PropSize) % (2 * TAGSIZE) # 0 /\ prop.len >= 2 * TAGSIZE
           THEN TAGSIZE ELSE 0)

\* The value of a property: its address and length; at = -1 with an error.
fdt_getprop_namelen(f, node, name) ==
    Let(fdt_get_property_namelen_(f, node, name), LAMBDA prop :
        [at |-> IF prop.off < 0 THEN -1 ELSE dataAt(f, prop), len |-> prop.len])

fdt_getprop(f, node, name) == fdt_getprop_namelen(f, node, name)

fdt_getprop_by_offset(f, offset) ==
    Let(fdt_get_property_by_offset_(f, offset), LAMBDA prop :
    Let(fdt_get_string(f, int32(structWord(f, offset + 2 * TAGSIZE))), LAMBDA name :
        IF prop.off < 0 THEN [at |-> -1, len |-> prop.len, name |-> <<>>]
        ELSE IF name.len < 0 THEN [at |-> -1, len |-> name.len, name |-> <<>>]
        ELSE [at |-> dataAt(f, prop), len |-> prop.len, name |-> name.s]))

valueOf(f, v) == bytesAt(f, v.at, v.len)

fdt_get_phandle(f, node) ==
    Let([name \in {PHANDLE, LINUX_PHANDLE} |-> fdt_getprop(f, node, name)], LAMBDA php :
    LET given(name) == php[name].at >= 0 /\ php[name].len = TAGSIZE
    IN  IF given(PHANDLE) THEN fdt32_ld(f, php[PHANDLE].at)
        ELSE IF given(LINUX_PHANDLE) THEN fdt32_ld(f, php[LINUX_PHANDLE].at) ELSE 0)

-----------------------------------------------------------------------------
(* Finding nodes *)

RECURSIVE subnodeNamed(_, _, _, _), descend(_, _, _), walkFrom(_, _, _, _), nodesFrom(_, _)

subnodeNamed(f, o, d, name) ==
    IF o < 0 \/ d < 0 THEN IF d < 0 THEN -NOTFOUND ELSE o
    ELSE IF d = 1 /\ fdt_nodename_eq_(f, o, name) THEN o
    ELSE Let(fdt_next_node(f, o, d, TRUE), LAMBDA n : subnodeNamed(f, n.off, n.depth, name))

fdt_subnode_offset_namelen(f, parent, name) ==
    IF fdt_ro_probe_(f) < 0 THEN fdt_ro_probe_(f) ELSE subnodeNamed(f, parent, 0, name)

fdt_subnode_offset(f, parent, name) == fdt_subnode_offset_namelen(f, parent, name)

\* A path: its components, found one below the other; a path that does not
\* start with / starts with an alias.
ALIASES == <<11>>

\* The name a path starts with, what follows it, and a path without its first slashes.
pathHead(path) ==
    LET q == SelectInSeq(path, LAMBDA c : c = SLASH)
    IN  IF q = 0 THEN path ELSE SubSeq(path, 1, q - 1)

pathBody(path) ==
    LET p == SelectInSeq(path, LAMBDA c : c # SLASH)
    IN  IF p = 0 THEN <<>> ELSE SubSeq(path, p, Len(path))

pathTail(path) == SubSeq(path, Len(pathHead(path)) + 1, Len(path))

descend(f, o, path) ==
    Let(pathBody(path), LAMBDA body :
        IF o < 0 \/ body = <<>> THEN o
        ELSE descend(f, fdt_subnode_offset_namelen(f, o, pathHead(body)), pathTail(body)))

fdt_get_alias_namelen(f, name) ==
    Let(descend(f, 0, <<SLASH>> \o ALIASES), LAMBDA node :
        IF node < 0 THEN [at |-> -1, len |-> node] ELSE fdt_getprop_namelen(f, node, name))

\* Where a path starts: at the root, or at the node its alias stands for.
aliased(f, alias) == IF alias.at < 0 THEN -BADPATH ELSE descend(f, 0, stringAt(f, alias.at))

fdt_path_offset_namelen(f, path) ==
    IF fdt_ro_probe_(f) < 0 THEN fdt_ro_probe_(f)
    ELSE descend(f, IF path # <<>> /\ path[1] = SLASH THEN 0
                    ELSE aliased(f, fdt_get_alias_namelen(f, pathHead(path))), pathTail(path))

fdt_path_offset(f, path) == fdt_path_offset_namelen(f, path)

\* The loops of the next functions: all nodes up to an offset, with their depths.
walkFrom(f, o, d, nodeoffset) ==
    << [off |-> o, depth |-> d] >>
    \o IF o < 0 \/ o > nodeoffset THEN <<>>
       ELSE Let(fdt_next_node(f, o, d, TRUE), LAMBDA n : walkFrom(f, n.off, n.depth, nodeoffset))

walkTo(f, nodeoffset) == walkFrom(f, 0, 0, nodeoffset)

\* The result of a walk that did not meet its node.
walkError(w) ==
    LET e == w[Len(w)].off
    IN  IF e = -NOTFOUND \/ e >= 0 THEN -BADOFFSET ELSE IF e = -BADOFFSET THEN -BADSTRUCTURE ELSE e

\* The path is built in the caller's buffer: names are dropped on the way up,
\* and a name that does not fit is left out until it is known to be needed.
fdt_get_path(f, nodeoffset, buflen) ==
    Let(walkTo(f, nodeoffset), LAMBDA w :
    LET up(path) == SubSeq(path, 1, SelectLastInSeq(SubSeq(path, 1, Len(path) - 1),
                                                    LAMBDA c : c = SLASH))
        raise[path \in Seq(0 .. B - 1), n \in Nat] == IF n = 0 THEN path ELSE raise[up(path), n - 1]
        at[i \in Nat] ==
            LET prev == IF i = 1 THEN [path |-> <<>>, pdepth |-> 0] ELSE at[i - 1] IN
            Let(IF prev.pdepth > w[i].depth THEN prev.pdepth - w[i].depth ELSE 0, LAMBDA over :
            LET path == raise[prev.path, over] IN
            Let(fdt_get_name(f, w[i].off).name, LAMBDA name :
                IF prev.pdepth - over >= w[i].depth /\ Len(path) + Len(name) + 1 <= buflen
                THEN [path |-> path \o name \o <<SLASH>>, pdepth |-> prev.pdepth - over + 1]
                ELSE [path |-> path, pdepth |-> prev.pdepth - over]))
        hits == { i \in 1 .. Len(w) : w[i].off = nodeoffset }
        i == CHOOSE k \in hits : TRUE
        fail(e) == [err |-> e, path |-> <<>>]
    IN  IF fdt_ro_probe_(f) < 0 THEN fail(fdt_ro_probe_(f))
        ELSE IF buflen < 2 THEN fail(-NOSPACE)
        ELSE IF hits = {} THEN fail(walkError(w))
        ELSE IF at[i].pdepth < w[i].depth + 1 THEN fail(-NOSPACE)
        ELSE [err |-> 0, path |-> IF Len(at[i].path) > 1 THEN Front(at[i].path) ELSE at[i].path])

fdt_supernode_atdepth_offset(f, nodeoffset, supernodedepth) ==
    Let(walkTo(f, nodeoffset), LAMBDA w :
    LET hits == { i \in 1 .. Len(w) : w[i].off = nodeoffset }
        i == CHOOSE k \in hits : TRUE IN
    Let({ k \in 1 .. i : w[k].depth = supernodedepth }, LAMBDA above :
    LET fail(e) == [off |-> e, depth |-> 0]
    IN  IF fdt_ro_probe_(f) < 0 THEN fail(fdt_ro_probe_(f))
        ELSE IF supernodedepth < 0 THEN fail(-NOTFOUND)
        ELSE IF hits = {} THEN fail(walkError(w))
        ELSE [off |-> IF supernodedepth > w[i].depth THEN -NOTFOUND
                      ELSE w[CHOOSE k \in above : \A j \in above : j <= k].off,
              depth |-> w[i].depth]))

fdt_node_depth(f, nodeoffset) ==
    Let(fdt_supernode_atdepth_offset(f, nodeoffset, 0), LAMBDA s :
        IF s.off # 0 THEN IF s.off < 0 THEN s.off ELSE -INTERNAL ELSE s.depth)

fdt_parent_offset(f, nodeoffset) ==
    Let(fdt_node_depth(f, nodeoffset), LAMBDA d :
        IF d < 0 THEN d ELSE fdt_supernode_atdepth_offset(f, nodeoffset, d - 1).off)

\* The nodes after an offset, and the error that ends them.
nodesFrom(f, o) == <<o>> \o IF o < 0 THEN <<>> ELSE nodesFrom(f, fdt_next_node(f, o, 0, FALSE).off)

nodesAfter(f, start) == nodesFrom(f, fdt_next_node(f, start, 0, FALSE).off)

\* The search among them ends at the first hit or with the error.
firstOf(nodes, hits) == nodes[CHOOSE i \in hits : \A j \in hits : i <= j]

isValue(f, v, val) == v.at >= 0 /\ valueOf(f, v) = val

withValue(f, nodes, name, val) ==
    firstOf(nodes, { i \in 1 .. Len(nodes) :
                        nodes[i] < 0 \/ isValue(f, fdt_getprop(f, nodes[i], name), val) })

fdt_node_offset_by_prop_value(f, start, name, val) ==
    IF fdt_ro_probe_(f) < 0 THEN fdt_ro_probe_(f)
    ELSE withValue(f, nodesAfter(f, start), name, val)

withPhandle(f, nodes, phandle) ==
    firstOf(nodes, { i \in 1 .. Len(nodes) : nodes[i] < 0 \/ fdt_get_phandle(f, nodes[i]) = phandle })

fdt_node_offset_by_phandle(f, phandle) ==
    IF phandle \in {0, W - 1} THEN -BADPHANDLE
    ELSE IF fdt_ro_probe_(f) < 0 THEN fdt_ro_probe_(f)
    ELSE withPhandle(f, nodesAfter(f, -1), phandle)

\* The largest phandle, or the error of the walk.
maxPhandle(f, nodes) ==
    IF nodes[Len(nodes)] # -NOTFOUND THEN nodes[Len(nodes)]
    ELSE FoldLeft(LAMBDA max, o : LET v == fdt_get_phandle(f, o) IN IF v > max THEN v ELSE max,
                  0, Front(nodes))

fdt_find_max_phandle(f) == maxPhandle(f, nodesAfter(f, -1))

FDT_MAX_PHANDLE == W - 2

fdt_generate_phandle(f) ==
    Let(fdt_find_max_phandle(f), LAMBDA max :
        IF max < 0 THEN max ELSE IF max = FDT_MAX_PHANDLE THEN -NOPHANDLES ELSE max + 1)

-----------------------------------------------------------------------------
(* String lists *)

\* The strings from an address on: their count, or what Stop says of one.
stringlist(f, v, Stop(_, _, _), none) ==
    LET end == v.at + v.len
        from[a \in Nat, idx \in Nat] ==
            Let({ k \in a .. end - 1 : byteAt(f, k) = 0 }, LAMBDA nul :
            LET z == CHOOSE k \in nul : \A j \in nul : k <= j
            IN  IF a >= end THEN none[idx]
                ELSE IF nul = {} THEN -BADVALUE
                ELSE IF Stop(idx, a, z - a) THEN idx
                ELSE from[z + 1, idx + 1])
    IN  IF v.at < 0 THEN v.len ELSE from[v.at, 0]

fdt_stringlist_count(f, node, property) ==
    stringlist(f, fdt_getprop(f, node, property), LAMBDA idx, a, len : FALSE, [i \in Nat |-> i])

fdt_stringlist_search(f, node, property, s) ==
    stringlist(f, fdt_getprop(f, node, property),
               LAMBDA idx, a, len : bytesAt(f, a, len) = s, [i \in Nat |-> -NOTFOUND])

\* The n-th string exists.
fdt_stringlist_get(f, node, property, n) ==
    stringlist(f, fdt_getprop(f, node, property), LAMBDA idx, a, len : idx = n,
               [i \in Nat |-> -NOTFOUND])

\* The comparison takes the byte after the string along, also at the end of the list.
fdt_stringlist_contains(f, at, listlen, s) ==
    Fn2(Nat, Int, LAMBDA from, a, left :
        LET nul == { k \in a .. a + left - 1 : byteAt(f, k) = 0 } IN
        Let(CHOOSE k \in nul : \A j \in nul : k <= j, LAMBDA z :
            IF left < Len(s) THEN FALSE
            ELSE IF bytesAt(f, a, Len(s) + 1) = Append(s, 0) THEN TRUE
            ELSE IF nul = {} THEN FALSE
            ELSE from[z + 1, left - (z - a + 1)]))[at, listlen]

COMPATIBLE == <<10>>

fdt_node_check_compatible(f, node, compatible) ==
    Let(fdt_getprop(f, node, COMPATIBLE), LAMBDA prop :
        IF prop.at < 0 THEN prop.len
        ELSE IF fdt_stringlist_contains(f, prop.at, prop.len, compatible) THEN 0 ELSE 1)

withCompatible(f, nodes, compatible) ==
    Let([i \in 1 .. Len(nodes) |-> IF nodes[i] < 0 THEN nodes[i]
                                   ELSE fdt_node_check_compatible(f, nodes[i], compatible)], LAMBDA err :
        Let(CHOOSE i \in 1 .. Len(nodes) :
                /\ nodes[i] < 0 \/ (err[i] <= 0 /\ err[i] # -NOTFOUND)
                /\ \A j \in 1 .. i - 1 : err[j] > 0 \/ err[j] = -NOTFOUND, LAMBDA i :
            IF err[i] < 0 THEN err[i] ELSE nodes[i]))

fdt_node_offset_by_compatible(f, start, compatible) ==
    IF fdt_ro_probe_(f) < 0 THEN fdt_ro_probe_(f)
    ELSE withCompatible(f, nodesAfter(f, start), compatible)

-----------------------------------------------------------------------------
(* The full check *)

fdt_check_full(f, bufsize) ==
    LET from[o \in Nat, depth \in Nat] ==
            Let(fdt_next_tag(f, o), LAMBDA t :
            Let(fdt_getprop_by_offset(f, o), LAMBDA bad :
                IF t.next < 0 THEN t.next
                ELSE CASE t.tag = FDT_NOP -> from[t.next, depth]
                       [] t.tag = FDT_END -> IF depth = 0 THEN 0 ELSE -BADSTRUCTURE
                       [] t.tag = FDT_BEGIN_NODE -> from[t.next, depth + 1]
                       [] t.tag = FDT_END_NODE -> IF depth = 0 THEN -BADSTRUCTURE
                                                  ELSE from[t.next, depth - 1]
                       [] t.tag = FDT_PROP -> IF bad.at < 0 THEN bad.len ELSE from[t.next, depth]))
    IN  IF bufsize < fdt_header_size_(1) THEN -TRUNCATED
        ELSE IF fdt_check_header(f) # 0 THEN fdt_check_header(f)
        ELSE IF bufsize < f.totalsize THEN -TRUNCATED
        ELSE IF fdt_num_mem_rsv(f) < 0 THEN fdt_num_mem_rsv(f)
        ELSE from[0, 0]

-----------------------------------------------------------------------------
(* Cells *)

ADDRESS_CELLS == <<9>>
SIZE_CELLS == <<8>>
FDT_MAX_NCELLS == 4

fdt_cells(f, node, name) ==
    Let(fdt_getprop(f, node, name), LAMBDA c :
        IF c.at < 0 THEN c.len
        ELSE IF c.len # TAGSIZE \/ fdt32_ld(f, c.at) > FDT_MAX_NCELLS THEN -BADNCELLS
        ELSE fdt32_ld(f, c.at))

fdt_address_cells(f, node) ==
    Let(fdt_cells(f, node, ADDRESS_CELLS), LAMBDA val :
        IF val = 0 THEN -BADNCELLS ELSE IF val = -NOTFOUND THEN 2 ELSE val)

fdt_size_cells(f, node) ==
    Let(fdt_cells(f, node, SIZE_CELLS), LAMBDA val : IF val = -NOTFOUND THEN 1 ELSE val)
=============================================================================
