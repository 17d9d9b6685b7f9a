----------------------------- MODULE Quicklist -----------------------------
(***************************************************************************)
(* The quicklist (src/src/vr_quicklist.c), a linked list of ziplists, as   *)
(* the list commands use it: list_compress_depth is 0, so no node is ever  *)
(* compressed, and list_max_ziplist_size is -2, so a node takes entries    *)
(* up to a number of bytes.  nodes is the linked list; zl a node's entries *)
(* and sz, count the cached numbers beside them.  NULL is 0, a position in *)
(* nodes or in a zl counts from 1 and an offset, as in C, from 0 or -1.    *)
(***************************************************************************)
EXTENDS Integers, Sequences, SequencesExt

CONSTANTS
    Bytes(_),    \* the bytes of an entry, with its ziplist header
    NodeLimit    \* optimization_level[1], the bytes a node may grow to

BlobLen(zl) == FoldLeft(LAMBDA n, v : n + Bytes(v), 0, zl)
quicklistCreate == [nodes |-> <<>>, count |-> 0]
quicklistCreateNode(v) == [zl |-> <<v>>, count |-> 1, sz |-> Bytes(v)]
quicklistCount(ql) == ql.count

_quicklistNodeAllowInsert(node, v) == node.sz + Bytes(v) <= NodeLimit

\* A node that takes one more entry at its head or its tail.
Grown(node, zl) == [zl |-> zl, count |-> node.count + 1, sz |-> BlobLen(zl)]

quicklistPushHead(ql, v) ==
    [count |-> ql.count + 1,
     nodes |-> IF ql.nodes # <<>> /\ _quicklistNodeAllowInsert(Head(ql.nodes), v)
               THEN ReplaceAt(ql.nodes, 1, Grown(Head(ql.nodes), <<v>> \o Head(ql.nodes).zl))
               ELSE <<quicklistCreateNode(v)>> \o ql.nodes]

quicklistPushTail(ql, v) ==
    [count |-> ql.count + 1,
     nodes |-> IF ql.nodes # <<>> /\ _quicklistNodeAllowInsert(Last(ql.nodes), v)
               THEN ReplaceAt(ql.nodes, Len(ql.nodes), Grown(Last(ql.nodes), Append(Last(ql.nodes).zl, v)))
               ELSE Append(ql.nodes, quicklistCreateNode(v))]

quicklistPush(ql, v, where) == IF where = "head" THEN quicklistPushHead(ql, v) ELSE quicklistPushTail(ql, v)

__quicklistDelNode(ql, n) ==
    [nodes |-> RemoveAt(ql.nodes, n), count |-> ql.count - ql.nodes[n].count]

\* The entry at position p of node n goes, and the node with its last entry.
quicklistDelIndex(ql, n, p) ==
    LET zl == RemoveAt(ql.nodes[n].zl, p)
        node == [zl |-> zl, count |-> ql.nodes[n].count - 1, sz |-> BlobLen(zl)]
        less == [nodes |-> ReplaceAt(ql.nodes, n, node), count |-> ql.count]
        gone == node.count = 0
        done == IF gone THEN __quicklistDelNode(less, n) ELSE less
    IN  [done EXCEPT !.count = @ - 1]

ziplistIndex(zl, offset) ==
    LET p == IF offset < 0 THEN Len(zl) + offset + 1 ELSE offset + 1
    IN  IF p \in DOMAIN zl THEN p ELSE 0

\* Walks the cached counts from either end to the node that holds index.
RECURSIVE NodeOf(_, _, _, _)
NodeOf(ql, n, step, index) ==
    IF n \notin DOMAIN ql.nodes \/ index < ql.nodes[n].count THEN [node |-> n, index |-> index]
    ELSE NodeOf(ql, n + step, step, index - ql.nodes[n].count)

quicklistIndex(ql, idx) ==
    LET forward == idx >= 0
        index == IF forward THEN idx ELSE -idx - 1
        at == IF forward THEN NodeOf(ql, 1, 1, index) ELSE NodeOf(ql, Len(ql.nodes), -1, index)
    IN  IF index >= ql.count \/ at.node \notin DOMAIN ql.nodes THEN [node |-> 0]
        ELSE LET offset == IF forward THEN at.index ELSE -at.index - 1
             IN  [node |-> at.node, offset |-> offset, zi |-> ziplistIndex(ql.nodes[at.node].zl, offset)]

\* The node's cached sz keeps the size the node had before.
quicklistReplaceAtIndex(ql, idx, v) ==
    LET e == quicklistIndex(ql, idx)
    IN  [ql EXCEPT !.nodes[e.node].zl = ReplaceAt(@, e.zi, v)]

quicklistPopCustom(ql, where) ==
    LET n == IF where = "head" THEN 1 ELSE Len(ql.nodes)
        p == ziplistIndex(ql.nodes[n].zl, IF where = "head" THEN 0 ELSE -1)
    IN  [value |-> ql.nodes[n].zl[p], ql |-> quicklistDelIndex(ql, n, p)]

\* The entries from offset on leave node n; del says how many are counted out.
ziplistDeleteRange(zl, offset, num) ==
    LET p == ziplistIndex(zl, offset)
    IN  IF p = 0 THEN zl ELSE SubSeq(zl, 1, p - 1) \o SubSeq(zl, p + num, Len(zl))

RECURSIVE DelFrom(_, _, _, _)
DelFrom(ql, n, offset, extent) ==
    LET node == ql.nodes[n]
        entire == offset = 0 /\ extent >= node.count
        del == IF entire THEN node.count
               ELSE IF offset >= 0 /\ extent >= node.count THEN node.count - offset
               ELSE IF offset < 0 /\ -offset <= extent THEN -offset
               ELSE extent
        zl == ziplistDeleteRange(node.zl, offset, del)
        cut == [nodes |-> ReplaceAt(ql.nodes, n, [zl |-> zl, count |-> node.count - del, sz |-> BlobLen(zl)]),
                count |-> ql.count - del]
        emptied == cut.nodes[n].count = 0
        rest == IF entire THEN __quicklistDelNode(ql, n)
                ELSE IF emptied THEN __quicklistDelNode(cut, n) ELSE cut
    IN  IF extent = 0 THEN ql
        ELSE DelFrom(rest, IF entire \/ emptied THEN n ELSE n + 1, 0, extent - del)

\* A mutant that forgets to bound the range by the end of the list.
quicklistDelRangeUnbounded(ql, start, count) ==
    LET e == quicklistIndex(ql, start)
    IN  IF count <= 0 \/ e.node = 0 \/ start = 0 THEN ql ELSE DelFrom(ql, e.node, e.offset, count)

quicklistDelRange(ql, start, count) ==
    LET extent == IF start >= 0 /\ count > ql.count - start THEN ql.count - start
                  ELSE IF start < 0 /\ count > -start THEN -start ELSE count
        e == quicklistIndex(ql, start)
    IN  IF count <= 0 \/ e.node = 0 THEN ql ELSE DelFrom(ql, e.node, e.offset, extent)

-----------------------------------------------------------------------------
(* The iterator: the node, the offset in it, and the entry (zi) when the   *)
(* iterator stands on one.                                                 *)

quicklistGetIteratorAtIdx(ql, direction, idx) ==
    LET e == quicklistIndex(ql, idx)
    IN  [direction |-> direction, current |-> e.node, zi |-> 0,
         offset |-> IF e.node = 0 THEN 0 ELSE e.offset]

RECURSIVE quicklistNext(_, _)
quicklistNext(ql, it) ==
    LET step == IF it.direction = "forward" THEN 1 ELSE -1
        zl == ql.nodes[it.current].zl
        zi == IF it.zi = 0 THEN ziplistIndex(zl, it.offset)
              ELSE IF it.zi + step \in DOMAIN zl THEN it.zi + step ELSE 0
        offset == IF it.zi = 0 THEN it.offset ELSE it.offset + step
        far == IF it.current + step \in DOMAIN ql.nodes THEN it.current + step ELSE 0
    IN  IF it.current = 0 THEN it
        ELSE IF zi # 0 THEN [it EXCEPT !.zi = zi, !.offset = offset]
        ELSE quicklistNext(ql, [it EXCEPT !.current = far, !.zi = 0,
                                          !.offset = IF step = 1 THEN 0 ELSE -1])

\* The iterator after the entry it stands on went: the next call looks at the
\* same offset again, or at the neighbour when the node went too.
quicklistDelEntry(ql, it) ==
    LET less == quicklistDelIndex(ql, it.current, it.zi)
        gone == Len(less.nodes) < Len(ql.nodes)
        forward == it.direction = "forward"
        next == IF it.current \in DOMAIN less.nodes THEN it.current ELSE 0
    IN  [ql |-> less,
         it |-> IF ~gone THEN [it EXCEPT !.zi = 0]
                ELSE [it EXCEPT !.zi = 0, !.current = IF forward THEN next ELSE it.current - 1,
                                !.offset = IF forward THEN 0 ELSE -1]]
=============================================================================
