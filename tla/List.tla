-------------------------------- MODULE List --------------------------------
(***************************************************************************)
(* The list commands on one key (src/src/vr_t_list.c).  obj is the value   *)
(* of the key: absent, of another type or a quicklist (ql, module          *)
(* Quicklist).  ref is the list the commands made, agree says that the     *)
(* last write sent the reply it owed.  A command runs under the lock of    *)
(* its internal database, so it is a step.                                 *)
(***************************************************************************)
EXTENDS Quicklist

CONSTANTS
    Entries,      \* the values pushed
    MaxLen,       \* pushes stop at this length
    Idx           \* the indexes and counts tried

VARIABLES obj, ref, agree

vars == <<obj, ref, agree>>

Absent == [enc |-> "none"]
OtherType == [enc |-> "other"]
ListObj(ql) == [enc |-> "quicklist", ql |-> ql]
IsList(o) == o.enc = "quicklist"
Kept(ql) == IF quicklistCount(ql) = 0 THEN Absent ELSE ListObj(ql)

listTypePush(ql, v, where) == quicklistPush(ql, v, where)
listTypePop(ql, where) == quicklistPopCustom(ql, where)
listTypeLength(o) == quicklistCount(o.ql)
listTypeInitIterator(ql, index, direction) == quicklistGetIteratorAtIdx(ql, direction, index)
listTypeNext(ql, it) == quicklistNext(ql, it)
listTypeGet(ql, it) == ql.nodes[it.current].zl[it.zi]
listTypeEqual(ql, it, v) == listTypeGet(ql, it) = v
listTypeDelete(ql, it) == quicklistDelEntry(ql, it)

-----------------------------------------------------------------------------
(* The reference: what a range of a list is, and what LREM removes.        *)

RangeOf(s, from, to) ==
    SubSeq(s, IF from < 0 THEN 1 ELSE from + 1, IF to >= Len(s) THEN Len(s) ELSE to + 1)

Doomed(s, v, toremove) ==
    {p \in DOMAIN s : /\ s[p] = v
                      /\ LET before == Cardinality({q \in 1 .. p - 1 : s[q] = v})
                             after == Cardinality({q \in p + 1 .. Len(s) : s[q] = v})
                         IN  \/ toremove = 0
                             \/ toremove > 0 /\ before < toremove
                             \/ toremove < 0 /\ after < -toremove}

Without(s, gone) ==
    FoldLeft(LAMBDA t, p : IF p \in gone THEN t ELSE Append(t, s[p]), <<>>, [i \in DOMAIN s |-> i])

-----------------------------------------------------------------------------
(* The commands that write.                                                *)

Stay == UNCHANGED <<obj, ref>>
Answer(got, owed) == agree' = (got = owed)
Num(n) == <<"int", n>>
Init == obj = Absent /\ ref = <<>> /\ agree = TRUE

WrongType == obj = OtherType /\ Stay /\ Answer(<<"wrongtype">>, <<"wrongtype">>)
Missing(reply) == obj = Absent /\ Stay /\ Answer(reply, reply)

pushGenericCommand(vs, where) ==
    \/ WrongType
    \/ LET ql == FoldLeft(LAMBDA q, v : listTypePush(q, v, where),
                          IF obj = Absent THEN quicklistCreate ELSE obj.ql, vs)
       IN  /\ obj # OtherType /\ Len(ref) + Len(vs) <= MaxLen
           /\ obj' = ListObj(ql)
           /\ ref' = IF where = "head" THEN Reverse(vs) \o ref ELSE ref \o vs
           /\ Answer(Num(listTypeLength(ListObj(ql))), Num(Len(ref')))

lsetCommand(index, v) ==
    \/ WrongType
    \/ Missing(<<"nokey">>)
    \/ LET p == IF index < 0 THEN Len(ref) + index + 1 ELSE index + 1
           found == quicklistIndex(obj.ql, index).node # 0
       IN  /\ IsList(obj)
           /\ obj' = IF found THEN ListObj(quicklistReplaceAtIndex(obj.ql, index, v)) ELSE obj
           /\ ref' = IF p \in DOMAIN ref THEN ReplaceAt(ref, p, v) ELSE ref
           /\ Answer(found, p \in DOMAIN ref)

popGenericCommand(where) ==
    \/ WrongType
    \/ Missing(<<"nil">>)
    \/ LET r == listTypePop(obj.ql, where)
       IN  /\ IsList(obj)
           /\ obj' = Kept(r.ql)
           /\ ref' = IF where = "head" THEN Tail(ref) ELSE Front(ref)
           /\ Answer(r.value, IF where = "head" THEN Head(ref) ELSE Last(ref))

\* LRANGE and LTRIM: negative indexes count from the tail; an empty range is
\* start > end.
Bounds(llen, start, end) ==
    LET s == IF start < 0 THEN llen + start ELSE start
        e == IF end < 0 THEN llen + end ELSE end
        s0 == IF s < 0 THEN 0 ELSE s
    IN  IF s0 > e \/ s0 >= llen THEN <<1, 0>> ELSE <<s0, IF e >= llen THEN llen - 1 ELSE e>>

ltrimCommand(start, end) ==
    \/ WrongType
    \/ Missing(<<"ok">>)
    \/ LET llen == listTypeLength(obj)
           b == Bounds(llen, start, end)
           ltrim == IF b = <<1, 0>> THEN llen ELSE b[1]
           rtrim == IF b = <<1, 0>> THEN 0 ELSE llen - b[2] - 1
           left == quicklistDelRange(obj.ql, 0, ltrim)
           ql == quicklistDelRange(left, -rtrim, rtrim)
           n == Len(ref)
           from(i) == IF i < 0 THEN n + i ELSE i
       IN  /\ IsList(obj)
           /\ obj' = Kept(ql)
           /\ ref' = RangeOf(ref, from(start), from(end))
           /\ Answer(<<"ok">>, <<"ok">>)

\* LREM walks from the tail when toremove is negative, and removes all
\* occurrences when it is 0.
RECURSIVE RemoveLoop(_, _, _, _, _)
RemoveLoop(ql, it, v, toremove, removed) ==
    LET at == listTypeNext(ql, it)
        d == listTypeDelete(ql, at)
    IN  IF at.current = 0 THEN [ql |-> ql, removed |-> removed]
        ELSE IF ~listTypeEqual(ql, at, v) THEN RemoveLoop(ql, at, v, toremove, removed)
        ELSE IF toremove # 0 /\ removed + 1 = toremove THEN [ql |-> d.ql, removed |-> removed + 1]
        ELSE RemoveLoop(d.ql, d.it, v, toremove, removed + 1)

lremCommand(toremove, v) ==
    \/ WrongType
    \/ Missing(Num(0))
    \/ LET it == IF toremove < 0 THEN listTypeInitIterator(obj.ql, -1, "backward")
                 ELSE listTypeInitIterator(obj.ql, 0, "forward")
           n == IF toremove < 0 THEN -toremove ELSE toremove
           r == RemoveLoop(obj.ql, it, v, n, 0)
           gone == Doomed(ref, v, toremove)
       IN  /\ IsList(obj)
           /\ obj' = Kept(r.ql)
           /\ ref' = Without(ref, gone)
           /\ Answer(Num(r.removed), Num(Cardinality(gone)))

\* DEL, and SET of a string over the key: the keyspace's commands.
delCommand == obj # Absent /\ obj' = Absent /\ ref' = <<>> /\ Answer(<<"ok">>, <<"ok">>)
setCommand == obj = Absent /\ obj' = OtherType /\ ref' = <<>> /\ Answer(<<"ok">>, <<"ok">>)

Next ==
    \/ \E u, v \in Entries, where \in {"head", "tail"} :
         pushGenericCommand(<<u>>, where) \/ pushGenericCommand(<<u, v>>, where)
    \/ \E where \in {"head", "tail"} : popGenericCommand(where)
    \/ \E i \in Idx, v \in Entries : lsetCommand(i, v) \/ lremCommand(i, v)
    \/ \E i, j \in Idx : ltrimCommand(i, j)
    \/ delCommand
    \/ setCommand

Spec == Init /\ [][Next]_vars

-----------------------------------------------------------------------------
(* The commands that read.                                                 *)

llenCommand(o) == IF o = Absent THEN 0 ELSE listTypeLength(o)

lindexCommand(o, index) ==
    LET e == quicklistIndex(o.ql, index)
    IN  IF o = Absent THEN <<"nil">> ELSE IF e.node = 0 THEN <<"nil">> ELSE <<o.ql.nodes[e.node].zl[e.zi]>>

\* rangelen entries are announced, and as many times the iterator is asked.
RECURSIVE Walk(_, _, _)
Walk(ql, it, n) ==
    IF n = 0 THEN <<>>
    ELSE LET at == listTypeNext(ql, it) IN <<listTypeGet(ql, at)>> \o Walk(ql, at, n - 1)

lrangeCommand(o, start, end) ==
    LET b == Bounds(llenCommand(o), start, end)
    IN  IF o = Absent \/ b = <<1, 0>> THEN <<>>
        ELSE Walk(o.ql, listTypeInitIterator(o.ql, b[1], "forward"), b[2] - b[1] + 1)

\* The key holds exactly the list its commands made, through every split into
\* nodes: the cached counts of the list and of each node are those of its
\* entries and no node is empty (vr_quicklist.c:580, 924), so that an index
\* from either end (1192) finds its entry; deleting while iterating skips and
\* repeats nothing, in both directions (601, vr_t_list.c:563); no empty list
\* is left behind; every write sent the reply it owed; LLEN, LINDEX and LRANGE
\* answer from that list.
ListIsRef ==
    /\ agree
    /\ ~IsList(obj) => ref = <<>>
    /\ IsList(obj) =>
         /\ ref # <<>>
         /\ FlattenSeq([i \in DOMAIN obj.ql.nodes |-> obj.ql.nodes[i].zl]) = ref
         /\ \A i \in DOMAIN obj.ql.nodes : LET node == obj.ql.nodes[i]
                                           IN  node.count = Len(node.zl) /\ node.count > 0
    /\ obj # OtherType =>
         /\ llenCommand(obj) = Len(ref)
         /\ \A i \in Idx : LET p == IF i < 0 THEN Len(ref) + i + 1 ELSE i + 1
                           IN  lindexCommand(obj, i) = (IF p \in DOMAIN ref THEN <<ref[p]>> ELSE <<"nil">>)
         /\ \A i, j \in Idx : LET n == Len(ref)
                                  from(x) == IF x < 0 THEN n + x ELSE x
                              IN  lrangeCommand(obj, i, j) = RangeOf(ref, from(i), from(j))
=============================================================================
