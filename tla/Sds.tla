-------------------------------- MODULE Sds ---------------------------------
(***************************************************************************)
(* The dynamic strings of dep/sds: a header of one of several widths with  *)
(* the length and the room of a buffer.  s is [type, len, buf]; buf is the *)
(* memory after the header, the terminating null byte included, with Junk  *)
(* where nothing was written; the header of type 5 has no room of its own. *)
(* ref is the string itself and agree whether all that was read or asserted *)
(* so far was right.                                                       *)
(***************************************************************************)
EXTENDS Text

CONSTANTS
    Limits,            \* [5 |-> 32, 8 |-> 255, ...], scaled down: lengths below fit the header
    SDS_MAX_PREALLOC,  \* 1 MB, scaled down
    Pieces,            \* the strings that are appended and copied
    Ranges,            \* the bounds given to sdsrange
    Patterns, Seps,    \* what is matched and what is split on
    CONFIG_AUTHPASS_MAX_LEN,  \* 512, scaled down
    MaxLen             \* bound on the length of the string

VARIABLES s, ref, agree

Types == DOMAIN Limits
Least(types) == CHOOSE t \in types : \A u \in types : t <= u
Junk == 255

sdsReqType(n) ==
    LET fits == {t \in Types : n < Limits[t]} IN
    IF fits = {} THEN CHOOSE t \in Types : \A u \in Types : u <= t ELSE Least(fits)
NotFive(t) == IF t = 5 THEN 8 ELSE t
sdsalloc(x) == IF x.type = 5 THEN x.len ELSE x.alloc
sdsavail(x) == sdsalloc(x) - x.len
Str(x) == SubSeq(x.buf, 1, x.len)

\* memcpy to an offset of the buffer; a write past its end is remembered in x.over.
Put(x, at, t) ==
    LET end == at + Len(t) IN
    [x EXCEPT !.buf = [i \in DOMAIN @ |-> IF i \in at + 1 .. end THEN t[i - at] ELSE @[i]],
              !.over = @ \/ end > Len(x.buf)]
\* The new length and the null byte after it.
Ended(x, n) == [Put(x, n, <<0>>) EXCEPT !.len = n]
Memory(n) == [i \in 1 .. n + 1 |-> Junk]
Header(type, n, len) == [type |-> type, alloc |-> n, len |-> len, buf |-> Memory(n), over |-> FALSE]

sdsnewlen(init) ==
    LET t == sdsReqType(Len(init))
        type == IF init = <<>> THEN NotFive(t) ELSE t
    IN  Ended(Put(Header(type, Len(init), 0), 0, init), Len(init))

\* Mutant: the header is chosen for the length asked for, not for the room taken.
sdsMakeRoomForShort(x, addlen) ==
    LET want == x.len + addlen
        newlen == IF want < SDS_MAX_PREALLOC THEN want * 2 ELSE want + SDS_MAX_PREALLOC
    IN  IF sdsavail(x) >= addlen THEN x
        ELSE Put(Header(NotFive(sdsReqType(want)), newlen, x.len), 0, SubSeq(x.buf, 1, x.len + 1))

sdsMakeRoomFor(x, addlen) ==
    LET want == x.len + addlen
        newlen == IF want < SDS_MAX_PREALLOC THEN want * 2 ELSE want + SDS_MAX_PREALLOC
    IN  IF sdsavail(x) >= addlen THEN x
        ELSE Put(Header(NotFive(sdsReqType(newlen)), newlen, x.len), 0, SubSeq(x.buf, 1, x.len + 1))

sdsRemoveFreeSpace(x) ==
    Put(Header(sdsReqType(x.len), x.len, x.len), 0, SubSeq(x.buf, 1, x.len + 1))

sdscatlen(x, t) == Ended(Put(sdsMakeRoomFor(x, Len(t)), x.len, t), x.len + Len(t))

sdscpylen(x, t) ==
    LET y == IF sdsalloc(x) < Len(t) THEN sdsMakeRoomFor(x, Len(t) - x.len) ELSE x
    IN  Ended(Put(y, 0, t), Len(t))

sdsgrowzero(x, n) ==
    IF n <= x.len THEN x
    ELSE LET zeros == [i \in 1 .. n - x.len + 1 |-> 0]
         IN  [Put(sdsMakeRoomFor(x, n - x.len), x.len, zeros) EXCEPT !.len = n]

sdsclear(x) == Ended(x, 0)

sdsIncrLenAsserts(x, incr) ==
    \/ x.type = 5 /\ incr > 0 /\ x.len + incr < Limits[5]
    \/ x.type # 5 /\ incr >= 0 /\ sdsavail(x) >= incr
    \/ incr < 0 /\ x.len >= -incr
sdsIncrLen(x, incr) == Ended(x, x.len + incr)

sdsrange(x, start, end) ==
    LET From(i) == IF i >= 0 THEN i ELSE IF x.len + i < 0 THEN 0 ELSE x.len + i
        a == From(start)
        b == IF From(end) >= x.len THEN x.len - 1 ELSE From(end)
        newlen == IF a > b THEN 0 ELSE b - a + 1
    IN  IF x.len = 0 THEN x
        ELSE Ended(Put(x, 0, SubSeq(x.buf, a + 1, a + newlen)), newlen)

\* strchr finds the null byte in every set.
sdstrim(x, cset) ==
    LET keep == {i \in 1 .. x.len : x.buf[i] \notin cset \union {0}}
        sp == IF keep = {} THEN x.len + 1 ELSE Least(keep)
        ep == CHOOSE i \in sp - 1 .. x.len : i \in keep \union {sp - 1} /\ \A j \in keep : j <= i
    IN  Ended(Put(x, 0, SubSeq(x.buf, sp, ep)), ep - sp + 1)

-----------------------------------------------------------------------------
Init == /\ \E t \in Pieces : s = sdsnewlen(t) /\ ref = t
        /\ agree = TRUE

Cat == \E t \in Pieces :
    /\ Len(ref) + Len(t) <= MaxLen
    /\ s' = sdscatlen(s, t) /\ ref' = ref \o t /\ UNCHANGED agree

Cpy == \E t \in Pieces : s' = sdscpylen(s, t) /\ ref' = t /\ UNCHANGED agree

GrowZero == \E n \in 0 .. MaxLen :
    /\ s' = sdsgrowzero(s, n)
    /\ ref' = ref \o [i \in 1 .. n - Len(ref) |-> 0]
    /\ UNCHANGED agree

Clear == s' = sdsclear(s) /\ ref' = <<>> /\ UNCHANGED agree

RemoveFreeSpace == s' = sdsRemoveFreeSpace(s) /\ UNCHANGED <<ref, agree>>

\* The way the query buffer is filled: room for n bytes, k of them read, and
\* the length told afterwards.
Read == \E t \in Pieces, more \in 0 .. 1 :
    LET x == Put(sdsMakeRoomFor(s, Len(t) + more), s.len, t) IN
    /\ t # <<>> /\ Len(ref) + Len(t) <= MaxLen
    /\ agree' = (agree /\ sdsIncrLenAsserts(x, Len(t)))
    /\ s' = sdsIncrLen(x, Len(t)) /\ ref' = ref \o t

\* The way the two bytes after a bulk are taken off.
Shorten == \E n \in 1 .. Len(ref) :
    /\ agree' = (agree /\ sdsIncrLenAsserts(s, -n))
    /\ s' = sdsIncrLen(s, -n) /\ ref' = SubSeq(ref, 1, Len(ref) - n)

Cut == \E a \in Ranges, b \in Ranges :
    LET At0(i) == IF i < 0 THEN i + Len(ref) ELSE i
        kept == {i \in 0 .. Len(ref) - 1 : At0(a) <= i /\ (i <= At0(b) \/ (At0(b) < 0 /\ i = 0))}
    IN  /\ s' = sdsrange(s, a, b)
        /\ ref' = SubSeq(ref, IF kept = {} THEN 1 ELSE Least(kept) + 1,
                              (IF kept = {} THEN 0 ELSE Least(kept)) + Cardinality(kept))
        /\ UNCHANGED agree

Trim == \E cset \in SUBSET {Space, CR} :
    LET core == {i \in DOMAIN ref : ref[i] \notin cset \union {0}} IN
    /\ s' = sdstrim(s, cset)
    /\ ref' = IF core = {} THEN <<>>
              ELSE SubSeq(ref, Least(core), CHOOSE i \in core : \A j \in core : j <= i)
    /\ UNCHANGED agree

\* The pure operations on a string as it was created.
Match ==
    /\ s = sdsnewlen(ref)
    /\ agree' = (agree /\ \A p \in Patterns, nocase \in BOOLEAN :
                    Regular(p, ref, nocase) =>
                        (stringmatchlen(p, Str(s), nocase) <=> Aligned(Elements(p, nocase, ToSet(ref)), ref)))
    /\ UNCHANGED <<s, ref>>

Quoted ==
    /\ s = sdsnewlen(ref)
    /\ agree' = (agree /\ \A t \in Pieces :
                    sdssplitargs(sdscatrepr(Str(s)) \o <<Space>> \o sdscatrepr(t))
                        = [ok |-> TRUE, argv |-> <<ref, t>>])
    /\ UNCHANGED <<s, ref>>

Split ==
    /\ s = sdsnewlen(ref)
    /\ agree' = (agree /\ \A sep \in Seps :
                    LET parts == sdssplitlen(Str(s), sep) IN
                    /\ Join(parts, sep) = ref
                    /\ \A i \in DOMAIN parts : ~Holds(parts[i], sep))
    /\ UNCHANGED <<s, ref>>

\* AUTH compares a password the configuration accepted with what it is given; both
\* end at their first null byte.
Compare ==
    /\ s = sdsnewlen(ref) /\ strlen(ref) <= CONFIG_AUTHPASS_MAX_LEN
    /\ agree' = (agree /\ \A t \in Pieces \union {ref, ref \o <<0>>, Append(ref, 97)} :
                    time_independent_strcmp(t, ref, CONFIG_AUTHPASS_MAX_LEN) = 0
                        <=> SubSeq(t, 1, strlen(t)) = SubSeq(ref, 1, strlen(ref)))
    /\ UNCHANGED <<s, ref>>

Next == \/ Cat \/ Cpy \/ GrowZero \/ Clear \/ RemoveFreeSpace \/ Read \/ Shorten
        \/ Cut \/ Trim \/ Match \/ Quoted \/ Split \/ Compare

\* Whatever a string has been through, it holds what was put into it, a null byte
\* follows, nothing was written past its memory, the width of its header holds
\* its length and its room; and the matcher, the quoting, the splitting and the
\* comparison of passwords agree with their meaning on it (dep/sds/sds.c,
\* stringmatchlen of vr_util.c, time_independent_strcmp of vr_server.c).
StringsAreRef ==
    /\ agree
    /\ Str(s) = ref /\ s.buf[s.len + 1] = 0
    /\ ~s.over /\ s.len <= sdsalloc(s) /\ sdsalloc(s) < Len(s.buf)
    /\ sdsalloc(s) < Limits[s.type]
=============================================================================
