------------------------------ MODULE Ziplist ------------------------------
(***************************************************************************)
(* The ziplist (src/src/vr_ziplist.c): entries packed one after the other, *)
(* each led by the length of the one before it in 1 byte or, from          *)
(* ZIP_BIGLEN on, in 5.  An insertion or a deletion changes that field of  *)
(* the next entry, perhaps its size, and so on down the list.  zl holds    *)
(* the header (bytes, tail, len) and the entries in memory order: where    *)
(* one lies follows from the sizes before it.  Lengths, thresholds and     *)
(* sizes are those of the code; a text is a name and its length.  ref is   *)
(* the list of values and ok says that no call wrote outside its memory    *)
(* or before making room.                                                  *)
(***************************************************************************)
EXTENDS Integers, Sequences, FiniteSets, SequencesExt

CONSTANTS
    Values,          \* [num |-> n] or [text |-> name, slen |-> its length]
    MaxEntries,      \* bound on the list
    ZipUint16Max,    \* UINT16_MAX, from which on len does not count, scaled down
    ShortLen         \* the longest element of a packed hash or sorted set (64)

VARIABLES zl, ref, ok

vars == <<zl, ref, ok>>

ZIP_BIGLEN == 254
ZIPLIST_HEADER_SIZE == 10
IntWidths == <<1, 2, 3>>      \* zipIntSize; the 4 and 8 byte forms follow the same rule

IsNum(v) == "num" \in DOMAIN v

-----------------------------------------------------------------------------
(* Encodings.                                                              *)

\* The bytes of a number: none for 0 .. 12, else the narrowest that holds it.
zipTryEncoding(n) ==
    IF n \in 0 .. 12 THEN 0
    ELSE CHOOSE w \in Range(IntWidths) :
           /\ n \in -(2 ^ (8 * w - 1)) .. 2 ^ (8 * w - 1) - 1
           /\ \A x \in Range(IntWidths) : x < w => n \notin -(2 ^ (8 * x - 1)) .. 2 ^ (8 * x - 1) - 1
zipSaveInteger(n, w) == IF w = 0 THEN n + 1 ELSE n % 2 ^ (8 * w)
zipLoadInteger(b, w) == IF w = 0 THEN b - 1 ELSE IF b >= 2 ^ (8 * w - 1) THEN b - 2 ^ (8 * w) ELSE b

zipEncodeLength(v) == IF IsNum(v) THEN 1 ELSE IF v.slen <= 63 THEN 1 ELSE IF v.slen <= 16383 THEN 2 ELSE 5
zipPrevEncodeLength(len) == IF len < ZIP_BIGLEN THEN 1 ELSE 5

\* An entry: the field for the length before it, its own header and its payload.
Encoded(v, prevlen) ==
    [prevlensize |-> zipPrevEncodeLength(prevlen), prevlen |-> prevlen, lensize |-> zipEncodeLength(v),
     len |-> IF IsNum(v) THEN zipTryEncoding(v.num) ELSE v.slen,
     data |-> IF IsNum(v) THEN [int |-> zipSaveInteger(v.num, zipTryEncoding(v.num))] ELSE v]
zipRawEntryLength(e) == e.prevlensize + e.lensize + e.len
zipPrevLenByteDiff(e, len) == zipPrevEncodeLength(len) - e.prevlensize

RECURSIVE Offset(_, _)
Offset(es, i) == IF i = 1 THEN ZIPLIST_HEADER_SIZE ELSE Offset(es, i - 1) + zipRawEntryLength(es[i - 1])
\* The entry that starts at an offset; the end mark is the one after the last.
At(es, offset) == CHOOSE i \in 1 .. Len(es) + 1 : Offset(es, i) = offset
Starts(es) == {Offset(es, i) : i \in 1 .. Len(es) + 1}

-----------------------------------------------------------------------------
(* The list.                                                               *)

ziplistNew == [bytes |-> ZIPLIST_HEADER_SIZE + 1, tail |-> ZIPLIST_HEADER_SIZE, len |-> 0, es |-> <<>>]
ziplistResize(z, len) == [z EXCEPT !.bytes = len]
IncrLength(z, n) == [z EXCEPT !.len = IF @ < ZipUint16Max THEN @ + n ELSE @]

\* The entry after i may need to say that i is longer than it was.  Its field
\* grows when it must and keeps its size otherwise.
RECURSIVE __ziplistCascadeUpdate(_, _)
__ziplistCascadeUpdate(z, i) ==
    LET rawlen == zipRawEntryLength(z.es[i])
        next == z.es[i + 1]
        extra == zipPrevEncodeLength(rawlen) - next.prevlensize
        grown == [z EXCEPT !.bytes = @ + extra,
                           !.tail = IF @ # Offset(z.es, i + 1) THEN @ + extra ELSE @,
                           !.es[i + 1].prevlensize = @ + extra, !.es[i + 1].prevlen = rawlen]
    IN  IF i >= Len(z.es) THEN z
        ELSE IF next.prevlen = rawlen THEN z
        ELSE IF extra > 0 THEN __ziplistCascadeUpdate(grown, i + 1)
        ELSE [z EXCEPT !.es[i + 1].prevlen = rawlen]

\* A mutant that does not look beyond the next entry.
__ziplistDeleteOnce(z, i, num) ==
    LET last == IF i + num - 1 > Len(z.es) THEN Len(z.es) ELSE i + num - 1
        first == z.es[i]
        totlen == Offset(z.es, last + 1) - Offset(z.es, i)
        next == z.es[last + 1]
        diff == zipPrevLenByteDiff(next, first.prevlen)
        moved == [next EXCEPT !.prevlensize = @ + diff, !.prevlen = first.prevlen]
    IN  IF last < Len(z.es)
        THEN IncrLength([z EXCEPT !.es = SubSeq(@, 1, i - 1) \o <<moved>> \o SubSeq(@, last + 2, Len(@)),
                                  !.bytes = @ - totlen + diff,
                                  !.tail = @ - totlen + (IF last + 1 < Len(z.es) THEN diff ELSE 0)],
                        -(last - i + 1))
        ELSE IncrLength([z EXCEPT !.es = SubSeq(@, 1, i - 1), !.bytes = @ - totlen,
                                  !.tail = Offset(z.es, i) - first.prevlen], -(last - i + 1))

\* num entries from the i-th; the next takes over the first one's field, in
\* the minimal size, written into the room of what is deleted.
__ziplistDelete(z, i, num) ==
    LET last == IF i + num - 1 > Len(z.es) THEN Len(z.es) ELSE i + num - 1
        first == z.es[i]
        totlen == Offset(z.es, last + 1) - Offset(z.es, i)
        next == z.es[last + 1]
        diff == zipPrevLenByteDiff(next, first.prevlen)
        moved == [next EXCEPT !.prevlensize = @ + diff, !.prevlen = first.prevlen]
        cut == IncrLength([z EXCEPT !.es = SubSeq(@, 1, i - 1) \o <<moved>> \o SubSeq(@, last + 2, Len(@)),
                                    !.bytes = @ - totlen + diff,
                                    !.tail = @ - totlen + (IF last + 1 < Len(z.es) THEN diff ELSE 0)],
                          -(last - i + 1))
    IN  IF totlen = 0 THEN z
        ELSE IF last < Len(z.es) THEN IF diff # 0 THEN __ziplistCascadeUpdate(cut, i) ELSE cut
        ELSE IncrLength([z EXCEPT !.es = SubSeq(@, 1, i - 1), !.bytes = @ - totlen,
                                  !.tail = Offset(z.es, i) - first.prevlen], -(last - i + 1))
RoomToDelete(z, i, num) ==
    LET last == i + num - 1
    IN  last < Len(z.es) =>
          Offset(z.es, last + 1) - Offset(z.es, i) >= zipPrevLenByteDiff(z.es[last + 1], z.es[i].prevlen)

\* Before the i-th entry, or at the end.
PrevLenAt(z, i) ==
    IF i <= Len(z.es) THEN z.es[i].prevlen
    ELSE IF z.es = <<>> THEN 0 ELSE zipRawEntryLength(z.es[At(z.es, z.tail)])
__ziplistInsert(z, i, v) ==
    LET e == Encoded(v, PrevLenAt(z, i))
        reqlen == zipRawEntryLength(e)
        diff == zipPrevLenByteDiff(z.es[i], reqlen)
        moved == [z.es[i] EXCEPT !.prevlensize = @ + diff, !.prevlen = reqlen]
        put == [z EXCEPT !.bytes = @ + reqlen + diff,
                         !.tail = @ + reqlen + (IF i < Len(z.es) THEN diff ELSE 0),
                         !.es = SubSeq(@, 1, i - 1) \o <<e, moved>> \o SubSeq(@, i + 1, Len(@))]
    IN  IF i > Len(z.es)
        THEN IncrLength([z EXCEPT !.bytes = @ + reqlen, !.tail = Offset(z.es, i), !.es = Append(@, e)], 1)
        ELSE IncrLength(IF diff # 0 THEN __ziplistCascadeUpdate(put, i + 1) ELSE put, 1)
\* The list is resized before its end is moved, so it must not get shorter.
RoomToInsert(z, i, v) ==
    LET reqlen == zipRawEntryLength(Encoded(v, PrevLenAt(z, i)))
    IN  i <= Len(z.es) => reqlen + zipPrevLenByteDiff(z.es[i], reqlen) >= 0

\* From the head by sizes, from the tail by the lengths before; 0 for NULL.
RECURSIVE Back(_, _, _)
Back(es, offset, n) ==
    IF offset \notin Starts(es) THEN 0
    ELSE IF n = 0 THEN At(es, offset)
    ELSE IF es[At(es, offset)].prevlen = 0 THEN 0
    ELSE Back(es, offset - es[At(es, offset)].prevlen, n - 1)
ziplistIndex(z, index) ==
    IF z.es = <<>> THEN 0
    ELSE IF index < 0 THEN Back(z.es, z.tail, -index - 1)
    ELSE IF index < Len(z.es) THEN index + 1 ELSE 0

\* Pointers are offsets here; p may be at the end mark.
AtEnd(z, p) == p = Offset(z.es, Len(z.es) + 1)
ziplistNext(z, p) ==
    LET q == p + zipRawEntryLength(z.es[At(z.es, p)])
    IN  IF AtEnd(z, p) THEN 0 ELSE IF AtEnd(z, q) THEN 0 ELSE q
ziplistPrev(z, p) ==
    IF AtEnd(z, p) THEN IF z.es = <<>> THEN 0 ELSE z.tail
    ELSE IF p = ZIPLIST_HEADER_SIZE THEN 0
    ELSE p - z.es[At(z.es, p)].prevlen

ziplistGet(e) == IF "int" \in DOMAIN e.data THEN [num |-> zipLoadInteger(e.data.int, e.len)] ELSE e.data
ziplistLen(z) == IF z.len < ZipUint16Max THEN z.len ELSE Len(z.es)

ziplistCompare(e, v) ==
    IF "int" \in DOMAIN e.data THEN IsNum(v) /\ zipLoadInteger(e.data.int, e.len) = v.num
    ELSE ~IsNum(v) /\ e.len = v.slen /\ e.data = v
\* From the i-th entry on, every skip + 1 of them; 0 for NULL.
RECURSIVE ziplistFind(_, _, _, _)
ziplistFind(z, i, v, skip) ==
    IF i > Len(z.es) THEN 0 ELSE IF ziplistCompare(z.es[i], v) THEN i ELSE ziplistFind(z, i + skip + 1, v, skip)

-----------------------------------------------------------------------------
(* The calls the types make: lists push at the ends, delete, and replace   *)
(* (quicklistReplaceAtIndex) entries of any length; hashes and sorted sets *)
(* insert anywhere, short entries only.                                    *)

Init == zl = ziplistNew /\ ref = <<>> /\ ok = TRUE

ziplistPush(v, where) ==
    LET i == IF where = "head" THEN 1 ELSE Len(zl.es) + 1
    IN  /\ Len(ref) < MaxEntries
        /\ zl' = __ziplistInsert(zl, i, v) /\ ref' = InsertAt(ref, i, v)
        /\ ok' = RoomToInsert(zl, i, v)

Short(w) == IF IsNum(w) THEN TRUE ELSE w.slen <= ShortLen
ziplistInsert(v, i) ==
    /\ Len(ref) < MaxEntries /\ i <= Len(ref)
    /\ \A w \in Range(ref) \cup {v} : Short(w)
    /\ zl' = __ziplistInsert(zl, i, v) /\ ref' = InsertAt(ref, i, v)
    /\ ok' = RoomToInsert(zl, i, v)

ziplistDeleteRange(index, num) ==
    LET i == ziplistIndex(zl, index)
    IN  /\ i # 0
        /\ zl' = __ziplistDelete(zl, i, num)
        /\ LET j == IF index < 0 THEN Len(ref) + index + 1 ELSE index + 1
           IN  ref' = SubSeq(ref, 1, j - 1) \o SubSeq(ref, j + num, Len(ref))
        /\ ok' = RoomToDelete(zl, i, num)

Replace(v, i) ==
    /\ i <= Len(ref)
    /\ LET cut == __ziplistDelete(zl, i, 1)
       IN  /\ zl' = __ziplistInsert(cut, i, v)
           /\ ok' = (RoomToDelete(zl, i, 1) /\ RoomToInsert(cut, i, v))
    /\ ref' = [ref EXCEPT ![i] = v]

\* ziplistLen counts a list too long for len, and stores a count that fits again.
Recount == /\ zl.len >= ZipUint16Max /\ Len(zl.es) < ZipUint16Max
           /\ zl' = [zl EXCEPT !.len = Len(zl.es)] /\ UNCHANGED <<ref, ok>>

Next ==
    \/ Recount
    \/ \E v \in Values : \/ \E where \in {"head", "tail"} : ziplistPush(v, where)
                         \/ \E i \in 1 .. MaxEntries : ziplistInsert(v, i) \/ Replace(v, i)
    \/ \E index \in -MaxEntries .. MaxEntries - 1, num \in 1 .. 2 : ziplistDeleteRange(index, num)

Spec == Init /\ [][Next]_vars

-----------------------------------------------------------------------------
\* However far a change of size runs down the list, every entry names the
\* length of the one before it in a field that holds it (vr_ziplist.c:461),
\* bytes and the tail offset are where the list really ends and its last entry
\* really starts, the way back from the tail meets the same entries as the way
\* from the head, numbers come back as they went in whatever width they are
\* packed in, ziplistFind finds the first match; no deletion writes before the
\* room it frees and no insertion shrinks the list before moving its end
\* (vr_ziplist.c:544, 627).
ZiplistIsList ==
    /\ ok
    /\ [i \in DOMAIN zl.es |-> ziplistGet(zl.es[i])] = ref
    /\ zl.bytes = Offset(zl.es, Len(zl.es) + 1) + 1
    /\ zl.tail = Offset(zl.es, IF zl.es = <<>> THEN 1 ELSE Len(zl.es))
    /\ ziplistLen(zl) = Len(ref)
    /\ \A i \in DOMAIN zl.es :
         /\ zl.es[i].prevlen = IF i = 1 THEN 0 ELSE zipRawEntryLength(zl.es[i - 1])
         /\ zl.es[i].prevlensize >= zipPrevEncodeLength(zl.es[i].prevlen)
         /\ ziplistIndex(zl, i - Len(ref) - 1) = i
    /\ ziplistIndex(zl, -Len(ref) - 1) = 0
    /\ \A i \in 1 .. Len(ref) + 1 :
         LET p == Offset(zl.es, i)
         IN  /\ ziplistPrev(zl, p) = IF i = 1 THEN 0 ELSE Offset(zl.es, i - 1)
             /\ ziplistNext(zl, p) = IF i >= Len(ref) THEN 0 ELSE Offset(zl.es, i + 1)
    /\ \A v \in Values, skip \in 0 .. 1 :
         LET hits == {i \in DOMAIN ref : i % (skip + 1) = 1 % (skip + 1) /\ ref[i] = v}
         IN  ziplistFind(zl, 1, v, skip) = IF hits = {} THEN 0 ELSE CHOOSE i \in hits : \A j \in hits : i <= j
=============================================================================
