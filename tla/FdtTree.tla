------------------------------- MODULE FdtTree -------------------------------
(***************************************************************************)
(* What a device tree is to those who write one through libfdt: its nodes  *)
(* in preorder, each with its depth, its name and its properties.  There   *)
(* are no offsets, no blocks and no space.                                 *)
(*                                                                         *)
(* The last call, its arguments and what it returned are part of the state,*)
(* so that a step is tied to the call that was made: a call that reports   *)
(* success has done to the tree exactly what libfdt.h says of it, and one  *)
(* that reports an error has a reason for it and has left the tree alone.  *)
(***************************************************************************)
EXTENDS Integers, Sequences

CONSTANTS NOTFOUND, EXISTS, NOSPACE, BADSTATE,  \* errors, returned negated
          AT                                    \* what precedes a unit address

VARIABLES nodes,  \* the nodes in preorder: [depth, name, props]
          call    \* the last call: [op, at, name, val, ret, count]

-----------------------------------------------------------------------------
(* What the calls do to a tree.  at is the position of a node, for          *)
(* fdt_begin_node the number of nodes that are open.                        *)

Without(props, n) == [m \in DOMAIN props \ {n} |-> props[m]]

With(props, n, v) == [m \in DOMAIN props \cup {n} |-> IF m = n THEN v ELSE props[m]]

Node(depth, name) == [depth |-> depth, name |-> name, props |-> <<>>]

\* The nodes below node i end before this position.
endOf(s, i) ==
    LET after == { k \in i + 1 .. Len(s) : s[k].depth <= s[i].depth }
    IN  IF after = {} THEN Len(s) + 1 ELSE CHOOSE k \in after : \A j \in after : k <= j

childAdded(s, i, name) == SubSeq(s, 1, i) \o <<Node(s[i].depth + 1, name)>> \o SubSeq(s, i + 1, Len(s))

subtreeRemoved(s, i) == SubSeq(s, 1, i - 1) \o SubSeq(s, endOf(s, i), Len(s))

\* Calls that move or copy the blob, or write what is not in the tree.
Elsewhere == {"create", "end", "reserve", "reservemap", "resize", "finish", "open_into", "pack",
              "add_mem_rsv", "del_mem_rsv"}

Done(s, c) ==
    CASE c.op = "begin" -> Append(s, Node(c.at, c.name))
      [] c.op \in {"property", "setprop", "setprop_inplace"} ->
             [s EXCEPT ![c.at].props = With(@, c.name, c.val)]
      [] c.op = "appendprop" ->
             [s EXCEPT ![c.at].props =
                 With(@, c.name, IF c.name \in DOMAIN @ THEN @[c.name] \o c.val ELSE c.val)]
      [] c.op \in {"delprop", "nop_property"} -> [s EXCEPT ![c.at].props = Without(@, c.name)]
      [] c.op = "add_subnode" -> childAdded(s, c.at, c.name)
      [] c.op \in {"del_node", "nop_node"} -> subtreeRemoved(s, c.at)
      [] c.op = "set_name" -> [s EXCEPT ![c.at].name = c.name]
      [] c.op = "create_empty_tree" -> <<Node(0, <<>>)>>
      [] c.op \in Elsewhere -> s

-----------------------------------------------------------------------------
(* When they fail                                                          *)

\* A node answers to its name, with or without its unit address.
answersTo(have, name) ==
    \/ have = name
    \/ /\ Len(have) > Len(name) /\ SubSeq(have, 1, Len(name)) = name /\ have[Len(name) + 1] = AT
       /\ \A i \in 1 .. Len(name) : name[i] # AT

hasChild(s, i, name) ==
    \E k \in i + 1 .. endOf(s, i) - 1 : s[k].depth = s[i].depth + 1 /\ answersTo(s[k].name, name)

hasProperty(s, c) == c.name \in DOMAIN s[c.at].props

\* The error that the tree alone determines, or 0.
Refusal(s, c) ==
    CASE c.op \in {"delprop", "nop_property", "setprop_inplace"} /\ ~hasProperty(s, c) -> -NOTFOUND
      [] c.op = "setprop_inplace" /\ hasProperty(s, c) ->
             IF Len(s[c.at].props[c.name]) = Len(c.val) THEN 0 ELSE -NOSPACE
      [] c.op = "add_subnode" /\ hasChild(s, c.at, c.name) -> -EXISTS
      [] OTHER -> 0

\* Calls that need room.  What does not grow fits.
mayLackSpace(s, c) ==
    \/ c.op \in {"begin", "end", "property", "reserve", "reservemap", "resize", "finish",
                 "appendprop", "add_subnode", "add_mem_rsv", "open_into", "create_empty_tree"}
    \/ c.op = "setprop" /\ (hasProperty(s, c) => Len(c.val) > Len(s[c.at].props[c.name]))
    \/ c.op = "set_name" /\ Len(c.name) > Len(s[c.at].name)

\* Errors that come from what is not in the tree: room, the state of the writer
\* before its first node, the reservations.
mayFail(s, c) ==
    \/ c.ret = -NOSPACE /\ mayLackSpace(s, c)
    \/ c.ret = -BADSTATE /\ c.op = "begin" /\ s = <<>>
    \/ c.ret = -NOTFOUND /\ c.op = "del_mem_rsv"

-----------------------------------------------------------------------------

\* A new node is where fdt_add_subnode says it is: right after its parent.
Returned(c) == c.ret = IF c.op = "add_subnode" THEN c.at + 1 ELSE 0

Succeed(c) ==
    /\ Refusal(nodes, c) = 0
    /\ Returned(c)
    /\ nodes' = Done(nodes, c)

Fail(c) ==
    /\ c.ret < 0
    /\ c.ret = Refusal(nodes, c) \/ (Refusal(nodes, c) = 0 /\ mayFail(nodes, c))
    /\ UNCHANGED nodes

Init == nodes = <<>> /\ call.op = "create"

Next == Succeed(call') \/ Fail(call')

Spec == Init /\ [][Next]_<<nodes, call>>
=============================================================================
