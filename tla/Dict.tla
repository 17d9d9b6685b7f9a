-------------------------------- MODULE Dict --------------------------------
(***************************************************************************)
(* The hash table under the keyspace, the sets, hashes and sorted sets     *)
(* (src/src/vr_dict.c): two tables, moved one bucket at a time from the    *)
(* first to the second while the dictionary is in use; the stateless       *)
(* cursor of SCAN; the safe iterator of KEYS.  A bucket is the sequence of *)
(* its chain.  keys is the set the dictionary stands for, walk a scan or   *)
(* an iteration under way.  Between two calls of a scan the lock is free   *)
(* and any other action may happen; an iteration holds it throughout and   *)
(* only deletes the entry it was given (keysCommand, expireIfNeeded).      *)
(***************************************************************************)
EXTENDS Integers, Sequences, FiniteSets, SequencesExt

CONSTANTS
    Keys,                    \* keys, with their hash as value
    DICT_HT_INITIAL_SIZE,    \* 4 in vr_dict.h
    HASHTABLE_MIN_FILL,      \* 10 (percent) in vr_server.h
    EmptyVisits,             \* 10 per step in dictRehash
    Batch,                   \* 100 steps at a time in dictRehashMilliseconds
    Width                    \* bits of unsigned long, scaled down

VARIABLES d, keys, walk

vars == <<d, keys, walk>>

-----------------------------------------------------------------------------
NoTable == [size |-> 0, used |-> 0, table |-> <<>>]
NewTable(n) == [size |-> n, used |-> 0, table |-> [i \in 0 .. n - 1 |-> <<>>]]
_dictInit == [ht0 |-> NoTable, ht1 |-> NoTable, rehashidx |-> -1, iterators |-> 0]
dictIsRehashing(x) == x.rehashidx # -1
dictSize(x) == x.ht0.used + x.ht1.used
dictSlots(x) == x.ht0.size + x.ht1.size

Push(ht, k) == [ht EXCEPT !.used = @ + 1, !.table[k % ht.size] = <<k>> \o @]
Unlink(ht, k) == [ht EXCEPT !.used = @ - 1, !.table[k % ht.size] = SelectSeq(@, LAMBDA e : e # k)]
Holds(ht, k) == ht.size > 0 /\ Contains(ht.table[k % ht.size], k)

RECURSIVE PowerFrom(_, _)
PowerFrom(i, size) == IF i >= size THEN i ELSE PowerFrom(2 * i, size)
_dictNextPower(size) == PowerFrom(DICT_HT_INITIAL_SIZE, size)

dictExpand(x, size) ==
    LET n == _dictNextPower(size)
    IN  IF dictIsRehashing(x) \/ x.ht0.used > size \/ n = x.ht0.size THEN x
        ELSE IF x.ht0.size = 0 THEN [x EXCEPT !.ht0 = NewTable(n)]
        ELSE [x EXCEPT !.ht1 = NewTable(n), !.rehashidx = 0]

dictResize(x) ==
    IF dictIsRehashing(x) THEN x
    ELSE dictExpand(x, IF x.ht0.used < DICT_HT_INITIAL_SIZE THEN DICT_HT_INITIAL_SIZE ELSE x.ht0.used)

_dictExpandIfNeeded(x) ==
    IF dictIsRehashing(x) THEN x
    ELSE IF x.ht0.size = 0 THEN dictExpand(x, DICT_HT_INITIAL_SIZE)
    ELSE IF x.ht0.used >= x.ht0.size THEN dictExpand(x, x.ht0.used * 2)
    ELSE x

\* Up to n buckets, after at most visits empty ones; the second table becomes
\* the first when nothing is left in that.
RECURSIVE RehashSteps(_, _, _)
RehashSteps(x, n, visits) ==
    LET full == {i \in x.rehashidx .. x.ht0.size - 1 : x.ht0.table[i] # <<>>}
        i == CHOOSE m \in full : \A j \in full : m <= j
    IN  IF x.ht0.used = 0 THEN [x EXCEPT !.ht0 = x.ht1, !.ht1 = NoTable, !.rehashidx = -1]
        ELSE IF n = 0 THEN x
        ELSE IF i - x.rehashidx >= visits THEN [x EXCEPT !.rehashidx = @ + visits]
        ELSE RehashSteps([x EXCEPT !.ht0.table[i] = <<>>, !.ht0.used = @ - Len(x.ht0.table[i]),
                                   !.ht1 = FoldLeft(Push, @, x.ht0.table[i]), !.rehashidx = i + 1],
                         n - 1, visits - (i - x.rehashidx))

dictRehash(x, n) == IF dictIsRehashing(x) THEN RehashSteps(x, n, n * EmptyVisits) ELSE x
_dictRehashStep(x) == IF x.iterators = 0 THEN dictRehash(x, 1) ELSE x

\* The table grows first if it must; whether k was found there: -1 in the code.
_dictKeyIndex(x, k) ==
    LET y == _dictExpandIfNeeded(x)
    IN  [d |-> y, found |-> Holds(y.ht0, k) \/ (dictIsRehashing(y) /\ Holds(y.ht1, k))]

\* dictAddRaw: the key goes to the new table of a rehash.
dictAdd(x, k) ==
    LET index == _dictKeyIndex(_dictRehashStep(x), k)
        y == index.d
    IN  IF index.found THEN y
        ELSE IF dictIsRehashing(y) THEN [y EXCEPT !.ht1 = Push(@, k)] ELSE [y EXCEPT !.ht0 = Push(@, k)]

dictGenericDelete(x, k) ==
    LET y == _dictRehashStep(x)
    IN  IF x.ht0.size = 0 THEN x
        ELSE IF Holds(y.ht0, k) THEN [y EXCEPT !.ht0 = Unlink(@, k)]
        ELSE IF dictIsRehashing(y) /\ Holds(y.ht1, k) THEN [y EXCEPT !.ht1 = Unlink(@, k)]
        ELSE y

dictFind(x, k) == dictSize(x) > 0 /\ (Holds(x.ht0, k) \/ (dictIsRehashing(x) /\ Holds(x.ht1, k)))

\* The keys a random bucket number can lead to.
dictGetRandomKey(x) ==
    IF ~dictIsRehashing(x) THEN UNION {Range(x.ht0.table[h]) : h \in 0 .. x.ht0.size - 1}
    ELSE UNION {IF h >= x.ht0.size THEN Range(x.ht1.table[h - x.ht0.size]) ELSE Range(x.ht0.table[h]) :
                  h \in x.rehashidx .. dictSlots(x) - 1}

htNeedsResize(x) ==
    /\ dictSlots(x) > DICT_HT_INITIAL_SIZE /\ dictSize(x) > 0
    /\ (dictSize(x) * 100) \div dictSlots(x) < HASHTABLE_MIN_FILL

-----------------------------------------------------------------------------
(* The cursor: table sizes are powers of 2, so v & mask is v % size.       *)

RECURSIVE Reversed(_, _)
Reversed(v, bits) == IF bits = 0 THEN 0 ELSE (v % 2) * 2 ^ (bits - 1) + Reversed(v \div 2, bits - 1)
rev(v) == Reversed(v, Width)

\* A mutant that counts up instead of counting up the reversed bits.
AdvancePlain(v, size) == IF (v % size) + 1 = size THEN 0 ELSE (v % size) + 1

\* v |= ~m0; v = rev(v); v++; v = rev(v)
Advance(v, size) == rev((rev((v % size) + 2 ^ Width - size) + 1) % 2 ^ Width)

\* The buckets of the larger table that share the cursor's bits, from v up.
RECURSIVE Expansions(_, _, _)
Expansions(v, small, big) ==
    LET up == (((v \div small + 1) * small) % 2 ^ Width) + (v % small)
    IN  {v % big} \cup (IF (up % big) \div small # 0 THEN Expansions(up, small, big) ELSE {})

\* The keys of a call and the next cursor.
dictScan(x, v) ==
    LET t0 == IF dictIsRehashing(x) /\ x.ht0.size > x.ht1.size THEN x.ht1 ELSE x.ht0
        t1 == IF dictIsRehashing(x) /\ x.ht0.size > x.ht1.size THEN x.ht0 ELSE x.ht1
        more == IF dictIsRehashing(x) THEN UNION {Range(t1.table[i]) : i \in Expansions(v, t0.size, t1.size)} ELSE {}
    IN  IF dictSize(x) = 0 THEN [emit |-> {}, v |-> 0]
        ELSE [emit |-> Range(t0.table[v % t0.size]) \cup more, v |-> Advance(v, t0.size)]

-----------------------------------------------------------------------------
NoEntry == -1
NoWalk == [kind |-> "none"]
Init == d = _dictInit /\ keys = {} /\ walk = NoWalk

\* What a scan still owes: the keys there from its start and not returned yet;
\* and whether the table has shrunk to a quarter.
Watch(kept, y) ==
    walk' = IF walk.kind = "scan"
            THEN [walk EXCEPT !.owed = @ \cap kept, !.quarter = @ \/ (y.ht1.size > 0 /\ 4 * y.ht1.size <= y.ht0.size)]
            ELSE walk
\* No iteration holds the lock; a scan that is over is put away first.
Free == walk.kind = "none" \/ (walk.kind = "scan" /\ ~walk.over)

Add(k) == /\ Free /\ d' = dictAdd(d, k) /\ keys' = keys \cup {k} /\ Watch(keys', d')
Delete(k) == /\ Free /\ d' = dictGenericDelete(d, k) /\ keys' = keys \ {k} /\ Watch(keys', d')
Resize == /\ Free /\ htNeedsResize(d) /\ d' = dictResize(d) /\ UNCHANGED keys /\ Watch(keys, d')

\* incrementallyRehashForDb: whole batches until the millisecond is over.
RECURSIVE Batches(_, _)
Batches(x, n) == IF n = 0 THEN x ELSE Batches(dictRehash(x, Batch), n - 1)
RehashMilliseconds == /\ Free /\ dictIsRehashing(d)
                      /\ \E n \in 1 .. 2 : d' = Batches(d, n)
                      /\ UNCHANGED keys /\ Watch(keys, d')
RandomKey == /\ Free /\ dictSize(d) > 0 /\ d' = _dictRehashStep(d) /\ UNCHANGED keys /\ Watch(keys, d')
Empty == /\ Free /\ d' = _dictInit /\ keys' = {} /\ Watch(keys', d')

\* A scan, one call at a time.
Scan == LET v == IF walk.kind = "scan" THEN walk.v ELSE 0
            r == dictScan(d, v)
        IN  /\ \/ walk.kind = "none" /\ dictSize(d) > 0
               \/ walk.kind = "scan" /\ ~walk.over
            /\ walk' = [kind |-> "scan", v |-> r.v,
                        owed |-> (IF walk.kind = "scan" THEN walk.owed ELSE keys) \ r.emit,
                        quarter |-> walk.kind = "scan" /\ walk.quarter,
                        over |-> r.v = 0]
            /\ UNCHANGED <<d, keys>>
ScanOver == walk.kind = "scan" /\ walk.over /\ walk' = NoWalk /\ UNCHANGED <<d, keys>>

\* dictNext: the rest of the chain, as it was when its entry was returned, then
\* the buckets that follow in this table and in the second.
Table(t) == IF t = 0 THEN d.ht0 ELSE d.ht1
NextFull(t, from) ==
    LET here == {i \in from .. Table(t).size - 1 : Table(t).table[i] # <<>>}
    IN  IF here # {} THEN <<t, CHOOSE i \in here : \A j \in here : i <= j>> ELSE <<>>
FirstFull(t, from) ==
    IF NextFull(t, from) # <<>> \/ t = 1 \/ ~dictIsRehashing(d) THEN NextFull(t, from) ELSE NextFull(1, 0)
EntryAt(k, t, i) ==
    LET chain == Table(t).table[i]
        p == CHOOSE q \in DOMAIN chain : chain[q] = k
    IN  [walk EXCEPT !.t = t, !.i = i, !.entry = k, !.next = IF p < Len(chain) THEN chain[p + 1] ELSE NoEntry,
                     !.got = Append(@, k)]

dictNext ==
    LET at == FirstFull(walk.t, walk.i + 1)
    IN  IF walk.entry # NoEntry /\ walk.next # NoEntry THEN EntryAt(walk.next, walk.t, walk.i)
        ELSE IF at = <<>> THEN [walk EXCEPT !.entry = NoEntry, !.over = TRUE]
        ELSE EntryAt(Table(at[1]).table[at[2]][1], at[1], at[2])

dictGetSafeIterator ==
    /\ walk.kind = "none"
    /\ walk' = [kind |-> "iter", t |-> 0, i |-> -1, entry |-> NoEntry, next |-> NoEntry,
                got |-> <<>>, must |-> keys, over |-> FALSE]
    /\ UNCHANGED <<d, keys>>
IterNext == /\ walk.kind = "iter" /\ ~walk.over
            /\ d' = IF walk.i = -1 /\ walk.t = 0 THEN [d EXCEPT !.iterators = @ + 1] ELSE d
            /\ walk' = dictNext /\ UNCHANGED keys
IterDelete == /\ walk.kind = "iter" /\ ~walk.over /\ walk.entry \in keys
              /\ d' = dictGenericDelete(d, walk.entry) /\ keys' = keys \ {walk.entry} /\ UNCHANGED walk
dictReleaseIterator == /\ walk.kind = "iter" /\ walk.over
                       /\ d' = [d EXCEPT !.iterators = @ - 1] /\ walk' = NoWalk /\ UNCHANGED keys

Next ==
    \/ \E k \in Keys : Add(k) \/ Delete(k)
    \/ Resize \/ RehashMilliseconds \/ RandomKey \/ Empty
    \/ Scan \/ ScanOver
    \/ dictGetSafeIterator \/ IterNext \/ IterDelete \/ dictReleaseIterator

Spec == Init /\ [][Next]_vars

-----------------------------------------------------------------------------
Chained(ht) == FoldLeft(LAMBDA n, i : n + Len(ht.table[i - 1]), 0, [i \in 1 .. ht.size |-> i])

\* Whatever the rehash under way, the dictionary is its set of keys: every key
\* is found, nothing else is, each is chained once in its own bucket, the used
\* counters that end a rehash (vr_dict.c:239) count the chains, the buckets
\* below rehashidx are empty, and any key may come out of dictGetRandomKey,
\* whose loop therefore ends.
DictIsSet ==
    /\ \A k \in Keys : dictFind(d, k) <=> k \in keys
    /\ dictSize(d) = Cardinality(keys)
    /\ dictGetRandomKey(d) = keys
    /\ \A ht \in {d.ht0, d.ht1} :
         /\ ht.used = Chained(ht)
         /\ \A i \in 0 .. ht.size - 1, k \in Keys : Contains(ht.table[i], k) => i = k % ht.size
    /\ ~dictIsRehashing(d) => d.ht1 = NoTable
    /\ dictIsRehashing(d) => /\ d.ht1.size > 0
                             /\ \A i \in 0 .. d.rehashidx - 1 : d.ht0.table[i] = <<>>
    /\ d.iterators = IF walk.kind = "iter" /\ ~(walk.i = -1 /\ ~walk.over) THEN 1 ELSE 0

\* "The function guarantees all elements present in the dictionary get returned
\* between the start and end of the iteration" (vr_dict.c:740), whatever is
\* added, deleted, grown or rehashed between two calls, unless the table
\* shrinks to a quarter or less meanwhile; and an iteration that deletes the
\* entries it is given returns every key once (vr_dict.c:564).
WalksAreComplete ==
    walk.kind # "none" /\ walk.over =>
      /\ walk.kind = "scan" /\ ~walk.quarter => walk.owed = {}
      /\ walk.kind = "iter" => Range(walk.got) = walk.must /\ Len(walk.got) = Cardinality(walk.must)
=============================================================================
