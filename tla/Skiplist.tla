------------------------------ MODULE Skiplist ------------------------------
(***************************************************************************)
(* The skip list of a sorted set (src/src/vr_t_zset.c).  An element is     *)
(* named by a number, its place in the order of compareStringObjects, and  *)
(* names its node as well: the dict of the sorted set lets no element in   *)
(* twice.  The header is node 0 and NULL is -1.  A list is the record      *)
(*   level, length, tail   as in the struct,                               *)
(*   node                  node -> [score, back, lv], where lv[i] is the   *)
(*                         forward pointer and the span of level i.        *)
(* The random level of a new node is an argument.                          *)
(***************************************************************************)
EXTENDS Integers, Sequences, FiniteSets

CONSTANT ZSKIPLIST_MAXLEVEL   \* 32 in the code

Header == 0
Nil == -1

zslCreateNode(levels, score) ==
    [score |-> score, back |-> Nil,
     lv |-> [i \in 1 .. levels |-> [fwd |-> Nil, span |-> 0]]]

zslCreate ==
    [level |-> 1, length |-> 0, tail |-> Nil,
     node |-> [n \in {Header} |-> zslCreateNode(ZSKIPLIST_MAXLEVEL, 0)]]

Nodes(zsl) == DOMAIN zsl.node \ {Header}
Forward(zsl, x, i) == zsl.node[x].lv[i].fwd
Span(zsl, x, i) == zsl.node[x].lv[i].span
Score(zsl, x) == zsl.node[x].score
First(zsl) == Forward(zsl, Header, 1)

\* One level of the loop every search shares: go forward from x while the next
\* node is in the set S and the rank reached stays within lim.
RECURSIVE Advance(_, _, _, _, _)
Advance(zsl, S, lim, i, at) ==
    LET nx == Forward(zsl, at.x, i)
        r == at.rank + Span(zsl, at.x, i)
    IN  IF nx # Nil /\ nx \in S /\ r <= lim
        THEN Advance(zsl, S, lim, i, [x |-> nx, rank |-> r]) ELSE at

\* The whole search, top level first: the node and the rank at which each
\* level was left (update[i] and rank[i] of the code).
RECURSIVE Descend(_, _, _, _, _)
Descend(zsl, S, lim, i, at) ==
    IF i = 0 THEN <<>>
    ELSE LET here == Advance(zsl, S, lim, i, at)
         IN  Append(Descend(zsl, S, lim, i - 1, here), here)

Path(zsl, S, lim) ==
    LET p == Descend(zsl, S, lim, zsl.level, [x |-> Header, rank |-> 0])
    IN  [i \in 1 .. zsl.level |-> p[i]]

Before(zsl, score, obj) ==
    {n \in Nodes(zsl) : \/ Score(zsl, n) < score
                        \/ Score(zsl, n) = score /\ n < obj}

zslInsert(zsl, score, obj, level) ==
    LET found == Path(zsl, Before(zsl, score, obj), zsl.length)
        top == IF level > zsl.level THEN level ELSE zsl.level
        at(i) == IF i <= zsl.level THEN found[i] ELSE [x |-> Header, rank |-> 0]
        old(i) == IF i <= zsl.level THEN zsl.node[at(i).x].lv[i]
                  ELSE [fwd |-> Nil, span |-> zsl.length]
        gap(i) == at(1).rank - at(i).rank
        new == [score |-> score,
                back |-> IF at(1).x = Header THEN Nil ELSE at(1).x,
                lv |-> [i \in 1 .. level |->
                          [fwd |-> old(i).fwd, span |-> old(i).span - gap(i)]]]
        next == old(1).fwd
        link(n) == [zsl.node[n] EXCEPT
                     !.lv = [i \in DOMAIN @ |->
                               IF i > top \/ at(i).x # n THEN @[i]
                               ELSE IF i <= level THEN [fwd |-> obj, span |-> gap(i) + 1]
                               ELSE [old(i) EXCEPT !.span = @ + 1]],
                     !.back = IF n = next THEN obj ELSE @]
    IN  [level |-> top, length |-> zsl.length + 1,
         tail |-> IF next = Nil THEN obj ELSE zsl.tail,
         node |-> [n \in DOMAIN zsl.node \cup {obj} |->
                     IF n = obj THEN new ELSE link(n)]]

\* zsl->level goes down while the header's top level is empty.
Shrink(node, level) ==
    LET used == {i \in 1 .. level : i = 1 \/ node[Header].lv[i].fwd # Nil}
    IN  CHOOSE i \in used : \A j \in used : j <= i

\* A mutant that adjusts the spans only of the levels x is on.
zslDeleteNodeNoSpan(zsl, x, update) ==
    LET next == Forward(zsl, x, 1)
        cut(n) == [zsl.node[n] EXCEPT
                    !.lv = [i \in DOMAIN @ |->
                              IF i > zsl.level \/ update[i].x # n \/ @[i].fwd # x THEN @[i]
                              ELSE [fwd |-> Forward(zsl, x, i),
                                    span |-> @[i].span + Span(zsl, x, i) - 1]],
                    !.back = IF n = next THEN zsl.node[x].back ELSE @]
        rest == [n \in DOMAIN zsl.node \ {x} |-> cut(n)]
    IN  [level |-> Shrink(rest, zsl.level), length |-> zsl.length - 1,
         tail |-> IF next = Nil THEN zsl.node[x].back ELSE zsl.tail,
         node |-> rest]

\* Unlink x; update is the path that leads to it.  zslFreeNode is part of every
\* caller, so x leaves the domain here.
zslDeleteNode(zsl, x, update) ==
    LET next == Forward(zsl, x, 1)
        cut(n) == [zsl.node[n] EXCEPT
                    !.lv = [i \in DOMAIN @ |->
                              IF i > zsl.level \/ update[i].x # n THEN @[i]
                              ELSE IF @[i].fwd = x
                              THEN [fwd |-> Forward(zsl, x, i),
                                    span |-> @[i].span + Span(zsl, x, i) - 1]
                              ELSE [@[i] EXCEPT !.span = @ - 1]],
                    !.back = IF n = next THEN zsl.node[x].back ELSE @]
        rest == [n \in DOMAIN zsl.node \ {x} |-> cut(n)]
    IN  [level |-> Shrink(rest, zsl.level), length |-> zsl.length - 1,
         tail |-> IF next = Nil THEN zsl.node[x].back ELSE zsl.tail,
         node |-> rest]

\* The node with this score and object, if it is there, is unlinked.
zslDelete(zsl, score, obj) ==
    LET update == Path(zsl, Before(zsl, score, obj), zsl.length)
        x == Forward(zsl, update[1].x, 1)
    IN  IF x = obj /\ Score(zsl, x) = score
        THEN [ok |-> TRUE, zsl |-> zslDeleteNode(zsl, x, update)]
        ELSE [ok |-> FALSE, zsl |-> zsl]

zslValueGteMin(value, spec) == IF spec.minex THEN value > spec.min ELSE value >= spec.min
zslValueLteMax(value, spec) == IF spec.maxex THEN value < spec.max ELSE value <= spec.max

EmptyRange(spec) ==
    spec.min > spec.max \/ (spec.min = spec.max /\ (spec.minex \/ spec.maxex))

zslIsInRange(zsl, spec) ==
    /\ ~EmptyRange(spec)
    /\ zsl.tail # Nil /\ zslValueGteMin(Score(zsl, zsl.tail), spec)
    /\ First(zsl) # Nil /\ zslValueLteMax(Score(zsl, First(zsl)), spec)

BelowMin(zsl, spec) == {n \in Nodes(zsl) : ~zslValueGteMin(Score(zsl, n), spec)}
UpToMax(zsl, spec) == {n \in Nodes(zsl) : zslValueLteMax(Score(zsl, n), spec)}

zslFirstInRange(zsl, spec) ==
    LET x == Forward(zsl, Path(zsl, BelowMin(zsl, spec), zsl.length)[1].x, 1)
    IN  IF zslIsInRange(zsl, spec) /\ x \in UpToMax(zsl, spec) THEN x ELSE Nil

zslLastInRange(zsl, spec) ==
    LET x == Path(zsl, UpToMax(zsl, spec), zsl.length)[1].x
    IN  IF zslIsInRange(zsl, spec) /\ zslValueGteMin(Score(zsl, x), spec) THEN x ELSE Nil

\* The loop of the range deletions: unlink from x on, while the node is in S
\* and at most n of them; the path stays the same.
RECURSIVE DeleteWhile(_, _, _, _, _)
DeleteWhile(zsl, x, update, S, n) ==
    IF x = Nil \/ x \notin S \/ n = 0 THEN zsl
    ELSE DeleteWhile(zslDeleteNode(zsl, x, update), Forward(zsl, x, 1), update, S, n - 1)

zslDeleteRangeByScore(zsl, spec) ==
    LET update == Path(zsl, BelowMin(zsl, spec), zsl.length)
    IN  DeleteWhile(zsl, Forward(zsl, update[1].x, 1), update, UpToMax(zsl, spec), zsl.length)

\* The range of ZREMRANGEBYLEX; its ends are in the order of the elements, with
\* "-" below and "+" above every one of them (shared.minstring, maxstring).
zslDeleteRangeByLex(zsl, spec) ==
    LET update == Path(zsl, {n \in Nodes(zsl) : ~zslValueGteMin(n, spec)}, zsl.length)
    IN  DeleteWhile(zsl, Forward(zsl, update[1].x, 1), update,
                    {n \in Nodes(zsl) : zslValueLteMax(n, spec)}, zsl.length)

\* start and end are 1-based.
zslDeleteRangeByRank(zsl, start, end) ==
    LET update == Path(zsl, Nodes(zsl), start - 1)
        traversed == update[1].rank + 1
    IN  DeleteWhile(zsl, Forward(zsl, update[1].x, 1), update, Nodes(zsl), end + 1 - traversed)

\* The rank of an element, 1-based, 0 when it is not found.
zslGetRank(zsl, score, obj) ==
    LET path == Path(zsl, Before(zsl, score, obj) \cup
                          {n \in Nodes(zsl) : n = obj /\ Score(zsl, n) = score}, zsl.length)
        hit == {i \in DOMAIN path : path[i].x = obj}
    IN  IF hit = {} THEN 0 ELSE path[CHOOSE i \in hit : TRUE].rank

zslGetElementByRank(zsl, rank) ==
    LET path == Path(zsl, Nodes(zsl), rank)
        hit == {i \in DOMAIN path : path[i].rank = rank}
    IN  IF hit = {} THEN Nil ELSE path[CHOOSE i \in hit : \A j \in hit : j <= i].x

-----------------------------------------------------------------------------
\* The elements in the order of level 1, and backwards from the tail.
RECURSIVE ForwardFrom(_, _), BackwardFrom(_, _)
ForwardFrom(zsl, x) == IF x = Nil THEN <<>> ELSE <<x>> \o ForwardFrom(zsl, Forward(zsl, x, 1))
BackwardFrom(zsl, x) == IF x = Nil THEN <<>> ELSE <<x>> \o BackwardFrom(zsl, zsl.node[x].back)

\* A skip list is coherent: level 1 holds every node in order, the backward
\* pointers mirror it, every level is the sublist of the nodes that reach it,
\* each span of a used level that leads to a node is the distance to it and the
\* last one of a level the distance to the end, and length, tail and level agree.
Coherent(zsl) ==
    LET s == ForwardFrom(zsl, First(zsl))
        pos == [n \in DOMAIN zsl.node |->
                  IF n = Header THEN 0 ELSE CHOOSE k \in 1 .. Len(s) : s[k] = n]
        has(i) == {n \in DOMAIN zsl.node : i <= Len(zsl.node[n].lv)}
        after(n, i) == {m \in has(i) : pos[m] > pos[n]}
    IN  /\ Len(s) = zsl.length /\ zsl.length = Cardinality(Nodes(zsl))
        /\ \A k \in 1 .. Len(s) - 1 :
              s[k + 1] \notin Before(zsl, Score(zsl, s[k]), s[k])
        /\ BackwardFrom(zsl, zsl.tail) = [k \in 1 .. Len(s) |-> s[Len(s) + 1 - k]]
        /\ \A n \in Nodes(zsl) : Len(zsl.node[n].lv) <= zsl.level
        /\ zsl.level > 1 => Forward(zsl, Header, zsl.level) # Nil
        /\ \A i \in 1 .. zsl.level : \A n \in has(i) :
              LET nx == Forward(zsl, n, i)
              IN  IF after(n, i) = {} THEN nx = Nil /\ Span(zsl, n, i) = zsl.length - pos[n]
                  ELSE /\ nx \in after(n, i) /\ \A m \in after(n, i) : pos[nx] <= pos[m]
                       /\ Span(zsl, n, i) = pos[nx] - pos[n]
=============================================================================
