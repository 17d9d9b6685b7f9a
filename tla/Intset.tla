------------------------------- MODULE Intset -------------------------------
(***************************************************************************)
(* The intset (src/src/vr_intset.c): a sorted array of integers, all of    *)
(* one width, kept in consecutive cells of memory.  A cell stands for two  *)
(* bytes and holds a digit of base Base; an integer takes encoding cells,  *)
(* low cell first, in two's complement.  cells is the whole allocation, so *)
(* a write over a cell another value still needs is a write over it.       *)
(***************************************************************************)
EXTENDS Integers, Sequences, FiniteSets

CONSTANT Base    \* the values of a cell; even

INTSET_ENC_INT16 == 1
INTSET_ENC_INT32 == 2
INTSET_ENC_INT64 == 4

Half(enc) == (Base ^ enc) \div 2
_intsetValueEncoding(v) ==
    CHOOSE enc \in {INTSET_ENC_INT16, INTSET_ENC_INT32, INTSET_ENC_INT64} :
        /\ v \in -Half(enc) .. Half(enc) - 1
        /\ \A e \in {INTSET_ENC_INT16, INTSET_ENC_INT32} : e < enc => v \notin -Half(e) .. Half(e) - 1

\* Reading pos as an integer of enc cells: its digits, then the sign.
_intsetGetEncoded(is, pos, enc) ==
    LET c(i) == is.cells[pos * enc + i]
        u == IF enc = 1 THEN c(0)
             ELSE IF enc = 2 THEN c(0) + Base * c(1)
             ELSE c(0) + Base * c(1) + Base ^ 2 * c(2) + Base ^ 3 * c(3)
    IN  IF u >= Half(enc) THEN u - Base ^ enc ELSE u
_intsetGet(is, pos) == _intsetGetEncoded(is, pos, is.encoding)

_intsetSet(is, pos, value) ==
    LET at == pos * is.encoding
    IN  [is EXCEPT !.cells =
           [i \in DOMAIN @ |-> IF i \in at .. at + is.encoding - 1
                               THEN (value \div Base ^ (i - at)) % Base ELSE @[i]]]

intsetNew == [encoding |-> INTSET_ENC_INT16, length |-> 0, cells |-> [i \in {} |-> 0]]

\* realloc: what fits is kept; a new cell holds anything, here 0.
intsetResize(is, len) ==
    [is EXCEPT !.cells = [i \in 0 .. len * is.encoding - 1 |-> IF i \in DOMAIN @ THEN @[i] ELSE 0]]

RECURSIVE Bisect(_, _, _, _)
Bisect(is, value, min, max) ==
    LET mid == (min + max) \div 2
        cur == _intsetGet(is, mid)
    IN  IF max < min THEN [found |-> FALSE, pos |-> min]
        ELSE IF value > cur THEN Bisect(is, value, mid + 1, max)
        ELSE IF value < cur THEN Bisect(is, value, min, mid - 1)
        ELSE [found |-> TRUE, pos |-> mid]

intsetSearch(is, value) ==
    IF is.length = 0 \/ value < _intsetGet(is, 0) THEN [found |-> FALSE, pos |-> 0]
    ELSE IF value > _intsetGet(is, is.length - 1) THEN [found |-> FALSE, pos |-> is.length]
    ELSE Bisect(is, value, 0, is.length - 1)

\* Back to front, in place: a value is read at its old width from cells no
\* wider value has been written to yet.
RECURSIVE Widen(_, _, _, _)
Widen(is, i, prepend, curenc) ==
    IF i < 0 THEN is
    ELSE Widen(_intsetSet(is, i + prepend, _intsetGetEncoded(is, i, curenc)), i - 1, prepend, curenc)

\* A mutant that appends whatever the sign of the value.
intsetUpgradeAndAddLast(is, value) ==
    LET wide == intsetResize([is EXCEPT !.encoding = _intsetValueEncoding(value)], is.length + 1)
    IN  [_intsetSet(Widen(wide, is.length - 1, 0, is.encoding), is.length, value) EXCEPT !.length = @ + 1]

intsetUpgradeAndAdd(is, value) ==
    LET prepend == IF value < 0 THEN 1 ELSE 0
        wide == intsetResize([is EXCEPT !.encoding = _intsetValueEncoding(value)], is.length + 1)
        moved == Widen(wide, is.length - 1, prepend, is.encoding)
    IN  [_intsetSet(moved, IF prepend = 1 THEN 0 ELSE is.length, value) EXCEPT !.length = @ + 1]

intsetMoveTail(is, from, to) ==
    LET enc == is.encoding
        n == (is.length - from) * enc
    IN  [is EXCEPT !.cells = [i \in DOMAIN @ |->
           IF i \in to * enc .. to * enc + n - 1 THEN @[i - to * enc + from * enc] ELSE @[i]]]

\* The value is new exactly when the length grew.
intsetAdd(is, value) ==
    LET at == intsetSearch(is, value)
        room == intsetResize(is, is.length + 1)
        gap == IF at.pos < is.length THEN intsetMoveTail(room, at.pos, at.pos + 1) ELSE room
    IN  IF _intsetValueEncoding(value) > is.encoding THEN intsetUpgradeAndAdd(is, value)
        ELSE IF at.found THEN is
        ELSE [_intsetSet(gap, at.pos, value) EXCEPT !.length = @ + 1]

intsetFind(is, value) ==
    _intsetValueEncoding(value) <= is.encoding /\ intsetSearch(is, value).found

intsetRemove(is, value) ==
    LET pos == intsetSearch(is, value).pos
        shut == IF pos < is.length - 1 THEN intsetMoveTail(is, pos + 1, pos) ELSE is
    IN  IF intsetFind(is, value) THEN [intsetResize(shut, is.length - 1) EXCEPT !.length = @ - 1] ELSE is

intsetGet(is, pos) == _intsetGet(is, pos)
intsetLen(is) == is.length
=============================================================================
