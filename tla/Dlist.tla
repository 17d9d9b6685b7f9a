------------------------------- MODULE Dlist --------------------------------
(***************************************************************************)
(* The doubly linked list (dep/dlist) that holds the clients of a loop,    *)
(* its pending writes and clients to close, the replies of a client, the   *)
(* slow log and the swap units.  l is the dlist with its nodes by address, *)
(* the addresses allocated, and an iterator; ref is the sequence of nodes  *)
(* it stands for and what the iterator owes its caller; agree is whether   *)
(* every call so far returned what it should.                              *)
(***************************************************************************)
EXTENDS Integers, SequencesExt

CONSTANTS
    Nodes,    \* addresses, positive; the allocator may hand out any free one
    Values    \* the pointers kept in the list

VARIABLES l, ref, agree

NULL == 0
Freed == [value |-> NULL, prev |-> NULL, next |-> NULL]
Done == [on |-> FALSE, next |-> NULL, cur |-> NULL]

\* The nodes met from n on, k of them at most.
RECURSIVE Walk(_, _, _, _)
Walk(x, n, forward, k) ==
    IF n = NULL \/ k = 0 THEN <<>>
    ELSE <<n>> \o Walk(x, IF forward THEN x.node[n].next ELSE x.node[n].prev, forward, k - 1)
Forward(x) == Walk(x, x.head, TRUE, Cardinality(Nodes) + 1)
Backward(x) == Walk(x, x.tail, FALSE, Cardinality(Nodes) + 1)

-----------------------------------------------------------------------------
dlistCreate == [head |-> NULL, tail |-> NULL, len |-> 0, node |-> [n \in Nodes |-> Freed], used |-> {}, it |-> Done]

Allocated(x, n) == [x EXCEPT !.used = @ \union {n}, !.len = @ + 1]
Only(x, n, v) ==
    [Allocated(x, n) EXCEPT !.head = n, !.tail = n, !.node[n] = [value |-> v, prev |-> NULL, next |-> NULL]]

dlistAddNodeHead(x, n, v) ==
    IF x.len = 0 THEN Only(x, n, v)
    ELSE [Allocated(x, n) EXCEPT !.node[n] = [value |-> v, prev |-> NULL, next |-> x.head],
                                 !.node[x.head].prev = n, !.head = n]
dlistAddNodeTail(x, n, v) ==
    IF x.len = 0 THEN Only(x, n, v)
    ELSE [Allocated(x, n) EXCEPT !.node[n] = [value |-> v, prev |-> x.tail, next |-> NULL],
                                 !.node[x.tail].next = n, !.tail = n]

\* Mutant: the tail is left where it was.
dlistDelNodeKeepsTail(x, n) ==
    LET p == x.node[n].prev
        q == x.node[n].next
        Left(m) == CASE m = n -> Freed
                     [] m = p -> [x.node[m] EXCEPT !.next = q]
                     [] m = q -> [x.node[m] EXCEPT !.prev = p]
                     [] OTHER -> x.node[m]
    IN  [x EXCEPT !.node = [m \in Nodes |-> Left(m)], !.used = @ \ {n}, !.len = @ - 1,
                  !.head = IF p = NULL THEN q ELSE @]

dlistDelNode(x, n) ==
    LET p == x.node[n].prev
        q == x.node[n].next
        Left(m) == CASE m = n -> Freed
                     [] m = p -> [x.node[m] EXCEPT !.next = q]
                     [] m = q -> [x.node[m] EXCEPT !.prev = p]
                     [] OTHER -> x.node[m]
    IN  [x EXCEPT !.node = [m \in Nodes |-> Left(m)], !.used = @ \ {n}, !.len = @ - 1,
                  !.head = IF p = NULL THEN q ELSE @,
                  !.tail = IF q = NULL THEN p ELSE @]

dlistRewind(x) == [x EXCEPT !.it = [on |-> TRUE, next |-> x.head, cur |-> NULL]]

\* The iterator moves on before the caller gets the node.
dlistNext(x) ==
    IF x.it.next = NULL THEN [x EXCEPT !.it = Done]
    ELSE [x EXCEPT !.it.cur = x.it.next, !.it.next = x.node[x.it.next].next]

dlistSearchKey(x, v) ==
    LET found == SelectSeq(Forward(x), LAMBDA n : x.node[n].value = v)
    IN  IF found = <<>> THEN NULL ELSE found[1]

dlistPop(x) == IF x.head = NULL THEN x ELSE dlistDelNode(x, x.head)

\* len nodes from the head on are freed.
dlistRelease(x) == ToSet(Walk(x, x.head, TRUE, x.len))

-----------------------------------------------------------------------------
Init == l = dlistCreate /\ ref = [seq |-> <<>>, owed |-> <<>>] /\ agree = TRUE

\* Elements are added at either end, also during an iteration.
Add == \E n \in Nodes \ l.used, v \in Values :
    /\ \/ l' = dlistAddNodeHead(l, n, v) /\ ref' = [ref EXCEPT !.seq = <<<<n, v>>>> \o @]
       \/ l' = dlistAddNodeTail(l, n, v) /\ ref' = [ref EXCEPT !.seq = Append(@, <<n, v>>)]
    /\ UNCHANGED agree

\* The way a client is taken off a list: searched for, asserted, deleted.
SearchAndDelete == \E v \in Values :
    LET n == dlistSearchKey(l, v)
        at == {i \in DOMAIN ref.seq : ref.seq[i][2] = v}
        first == CHOOSE i \in at : \A j \in at : i <= j
    IN  /\ ~l.it.on
        /\ agree' = (agree /\ n = IF at = {} THEN NULL ELSE ref.seq[first][1])
        /\ l' = IF n = NULL THEN l ELSE dlistDelNode(l, n)
        /\ ref' = IF at = {} THEN ref ELSE [ref EXCEPT !.seq = RemoveAt(@, first)]

Pop ==
    /\ ~l.it.on
    /\ agree' = (agree /\ (l.head = NULL <=> ref.seq = <<>>))
    /\ l' = dlistPop(l)
    /\ ref' = [ref EXCEPT !.seq = IF @ = <<>> THEN @ ELSE Tail(@)]

Rewind ==
    /\ ~l.it.on
    /\ l' = dlistRewind(l) /\ ref' = [ref EXCEPT !.owed = ref.seq] /\ UNCHANGED agree

\* What was there when the iteration began comes first, then what was appended since.
Advance ==
    LET got == <<l.it.next, l.node[l.it.next].value>>
    IN  /\ l.it.on
        /\ l' = dlistNext(l)
        /\ ref' = [ref EXCEPT !.owed = IF @ = <<>> THEN @ ELSE Tail(@)]
        /\ agree' = (agree /\ IF l.it.next = NULL THEN ref.owed = <<>>
                              ELSE IF ref.owed # <<>> THEN got = Head(ref.owed)
                              ELSE got \in ToSet(ref.seq))

\* "It's valid to remove the currently returned element".
DeleteCurrent ==
    /\ l.it.on /\ l.it.cur # NULL
    /\ l' = [dlistDelNode(l, l.it.cur) EXCEPT !.it.cur = NULL]
    /\ ref' = [ref EXCEPT !.seq = SelectSeq(@, LAMBDA e : e[1] # l.it.cur)]
    /\ UNCHANGED agree

Release ==
    /\ ~l.it.on
    /\ agree' = (agree /\ dlistRelease(l) = l.used)
    /\ l' = dlistCreate /\ ref' = [ref EXCEPT !.seq = <<>>]

Next == Add \/ SearchAndDelete \/ Pop \/ Rewind \/ Advance \/ DeleteCurrent \/ Release

-----------------------------------------------------------------------------
\* The list is the sequence of what was added and not removed, read from either
\* end, with its length and no node leaked; and an iteration during which the
\* caller removes the elements it is given and adds others at both ends returns
\* every element that was there when it began, once and in order (dlist.c,
\* as handleClientsWithPendingWrites and CLIENT KILL use it).
DlistIsSeq ==
    LET nodes == [i \in DOMAIN ref.seq |-> ref.seq[i][1]]
    IN  /\ agree
        /\ Forward(l) = nodes /\ Backward(l) = Reverse(nodes)
        /\ l.len = Len(nodes) /\ l.used = ToSet(nodes)
        /\ \A i \in DOMAIN ref.seq : l.node[nodes[i]].value = ref.seq[i][2]
=============================================================================
