------------------------------ MODULE Strings ------------------------------
(***************************************************************************)
(* The string commands on one key (src/src/vr_t_string.c), the encodings   *)
(* of a string object (src/src/vr_object.c), the conversions between long  *)
(* long and decimal text (src/src/vr_util.c) and the bit commands          *)
(* (src/src/vr_bitops.c).  obj is the value of the key: absent, of another *)
(* type, an integer (int, n) or bytes (raw or embstr, s).  ref is the text *)
(* the commands made, <<>> also when there is no key; agree says whether   *)
(* the last write sent the reply it owed: "right", "wrong", or "wrapped"   *)
(* where it did not because a number left long long.  A byte is its        *)
(* number.  A command runs under the lock of its internal database, so it  *)
(* is a step.                                                              *)
(***************************************************************************)
EXTENDS Integers, Sequences, FiniteSets, SequencesExt

CONSTANTS
    LLONG_MIN, LLONG_MAX,     \* the ends of long long, scaled down
    EMBSTR_SIZE_LIMIT,        \* OBJ_ENCODING_EMBSTR_SIZE_LIMIT, scaled down
    MaxBytes,                 \* the 512 MB a string may have, scaled down
    LongBytes,                \* sizeof(unsigned long), scaled down
    PopAlign, PopBlock,       \* 4 and 28 in redisPopcount, scaled down
    Texts,                    \* the texts tried as arguments
    Incrs, Offs, Bits         \* increments, byte offsets and bit offsets tried

VARIABLES obj, ref, agree

vars == <<obj, ref, agree>>

Absent == [enc |-> "none"]
OtherType == [enc |-> "other"]
Died == [enc |-> "died"]             \* the process is gone, and every value with it
IntObj(n) == [enc |-> "int", n |-> n]
Raw(s) == [enc |-> "raw", s |-> s]
IsString(o) == o.enc \in {"int", "raw", "embstr"}

Nul == 0
Minus == 45
Digits == 48 .. 57
LongLong == LLONG_MIN .. LLONG_MAX
NoNumber == 2 * LLONG_MAX + 2          \* the C_ERR of a conversion: no long long
IsNumber(n) == n # NoNumber

\* What a conversion to long long, or its arithmetic, makes of n.
ToLongLong(n) == ((n - LLONG_MIN) % (LLONG_MAX - LLONG_MIN + 1)) + LLONG_MIN

-----------------------------------------------------------------------------
(* Decimal text and long long.                                             *)

RECURSIVE digits10(_)
digits10(v) == IF v < 10 THEN 1 ELSE 1 + digits10(v \div 10)
sdigits10(v) == IF v < 0 THEN digits10(-v) + 1 ELSE digits10(v)

\* Two digits at a time from the end, then the last one or two, then the sign.
RECURSIVE Decimal(_)
Decimal(v) ==
    IF v >= 100 THEN Decimal(v \div 100) \o <<48 + (v % 100) \div 10, 48 + (v % 10)>>
    ELSE IF v < 10 THEN <<48 + v>> ELSE <<48 + v \div 10, 48 + (v % 10)>>
ll2string(v) == IF v < 0 THEN <<Minus>> \o Decimal(-v) ELSE Decimal(v)

\* The digits of s from i on added to v, as unsigned long long; all must be used.
RECURSIVE Accumulate(_, _, _)
Accumulate(s, i, v) ==
    IF i > Len(s) THEN v
    ELSE IF s[i] \notin Digits \/ v > (2 * LLONG_MAX + 1) \div 10
            \/ v * 10 > 2 * LLONG_MAX + 1 - (s[i] - 48) THEN -1
    ELSE Accumulate(s, i + 1, v * 10 + s[i] - 48)

\* A mutant that lets the magnitude of LLONG_MIN through without a sign.
string2llWide(s) ==
    LET neg == s # <<>> /\ s[1] = Minus
        p == IF neg THEN 2 ELSE 1
        v == Accumulate(s, p, 0)
    IN  IF s = <<48>> THEN 0
        ELSE IF p > Len(s) THEN NoNumber
        ELSE IF s[p] \notin 49 .. 57 \/ v = -1 \/ v > -LLONG_MIN THEN NoNumber
        ELSE IF neg \/ v > LLONG_MAX THEN -v ELSE v

\* Only what ll2string prints is read: no sign but '-', no leading zero.
string2ll(s) ==
    LET neg == s # <<>> /\ s[1] = Minus
        p == IF neg THEN 2 ELSE 1
        v == Accumulate(s, p, 0)
    IN  IF s = <<48>> THEN 0
        ELSE IF p > Len(s) THEN NoNumber
        ELSE IF s[p] \notin 49 .. 57 \/ v = -1 THEN NoNumber
        ELSE IF neg THEN IF v > -LLONG_MIN THEN NoNumber ELSE -v
        ELSE IF v > LLONG_MAX THEN NoNumber ELSE v

\* strtoll stops at a NUL, takes leading zeros, and reads nothing as 0.
strtoll(s) ==
    LET nul == {i \in DOMAIN s : s[i] = Nul}
        c == IF nul = {} THEN s ELSE SubSeq(s, 1, (CHOOSE i \in nul : \A j \in nul : i <= j) - 1)
        neg == c # <<>> /\ c[1] = Minus
        d == IF neg THEN Tail(c) ELSE c
        v == FoldLeft(LAMBDA n, x : IF n = -1 \/ x \notin Digits THEN -1 ELSE n * 10 + x - 48, 0, d)
        n == IF neg THEN -v ELSE v
    IN  IF c = <<>> THEN 0
        ELSE IF d = <<>> \/ v = -1 \/ n \notin LongLong THEN NoNumber ELSE n

-----------------------------------------------------------------------------
(* String objects.                                                         *)

createStringObject(s) == [enc |-> IF Len(s) <= EMBSTR_SIZE_LIMIT THEN "embstr" ELSE "raw", s |-> s]
createStringObjectFromLongLong(n) == IntObj(n)
tryObjectEncoding(s) ==
    IF s # <<>> /\ IsNumber(string2ll(s)) THEN IntObj(string2ll(s)) ELSE createStringObject(s)
getDecodedObject(o) == IF o.enc = "int" THEN ll2string(o.n) ELSE o.s
dbUnshareStringValue(o) == Raw(getDecodedObject(o))
stringObjectLen(o) == IF o.enc = "int" THEN sdigits10(o.n) ELSE Len(o.s)
getLongLongFromObject(o) ==
    IF o = Absent THEN 0 ELSE IF o.enc = "int" THEN o.n ELSE strtoll(o.s)
checkStringLength(size) == ToLongLong(size) <= MaxBytes

Zeros(n) == [i \in 1 .. n |-> Nul]
sdsgrowzero(s, len) == IF len <= Len(s) THEN s ELSE s \o Zeros(len - Len(s))
Overlay(s, offset, v) ==
    [i \in DOMAIN s |-> IF i - offset \in DOMAIN v THEN v[i - offset] ELSE s[i]]

-----------------------------------------------------------------------------
(* The commands that write.                                                *)

Stay == UNCHANGED <<obj, ref>>
Answer(got, owed) == agree' = IF got = owed THEN "right" ELSE "wrong"
Num(n) == <<"int", n>>
Init == obj = Absent /\ ref = <<>> /\ agree = "right"

WrongType == obj = OtherType /\ Stay /\ Answer(<<"wrongtype">>, <<"wrongtype">>)

\* SET key v with no flag, NX or XX; SETNX.  A value of any type is replaced.
setGenericCommand(v, flag) ==
    \/ /\ \/ flag = "nx" /\ obj # Absent
          \/ flag = "xx" /\ obj = Absent
       /\ Stay /\ Answer(<<"nil">>, <<"nil">>)
    \/ /\ flag = "nx" => obj = Absent
       /\ flag = "xx" => obj # Absent
       /\ obj' = tryObjectEncoding(v) /\ ref' = v /\ Answer(<<"ok">>, <<"ok">>)

getsetCommand(v) ==
    \/ WrongType
    \/ /\ obj # OtherType
       /\ obj' = tryObjectEncoding(v) /\ ref' = v
       /\ Answer(IF obj = Absent THEN <<>> ELSE getDecodedObject(obj), ref)

\* offset + Len(v) is a sum of size_t that checkStringLength takes as long long:
\* past LLONG_MAX it is negative and passes, and the allocation of so many bytes
\* fails, which ends the process.
setrangeCommand(offset, v) ==
    \/ offset < 0 /\ Stay /\ Answer(<<"range">>, <<"range">>)
    \/ offset >= 0 /\ WrongType
    \/ /\ offset >= 0 /\ obj # OtherType /\ v = <<>>
       /\ Stay /\ Answer(Num(IF obj = Absent THEN 0 ELSE stringObjectLen(obj)), Num(Len(ref)))
    \/ /\ offset >= 0 /\ obj # OtherType /\ v # <<>> /\ ~checkStringLength(offset + Len(v))
       /\ Stay /\ Answer(<<"toobig">>, <<"toobig">>)
    \/ /\ offset >= 0 /\ obj # OtherType /\ v # <<>> /\ checkStringLength(offset + Len(v))
       /\ offset + Len(v) > LLONG_MAX
       /\ obj' = Died /\ ref' = <<>> /\ agree' = "wrapped"
    \/ /\ offset >= 0 /\ obj # OtherType /\ v # <<>> /\ checkStringLength(offset + Len(v))
       /\ offset + Len(v) <= LLONG_MAX
       /\ LET o == IF obj = Absent THEN Raw(Zeros(offset + Len(v))) ELSE dbUnshareStringValue(obj)
              s == Overlay(sdsgrowzero(o.s, offset + Len(v)), offset, v)
          IN  /\ obj' = Raw(s)
              /\ ref' = [i \in 1 .. (IF Len(ref) > offset + Len(v) THEN Len(ref) ELSE offset + Len(v)) |->
                           IF i > offset /\ i <= offset + Len(v) THEN v[i - offset]
                           ELSE IF i \in DOMAIN ref THEN ref[i] ELSE Nul]
              /\ Answer(Num(Len(s)), Num(Len(ref')))

\* INCR, DECR, INCRBY and DECRBY, to add exact; the refcount is never 1
\* (createObject), so the value is always replaced.  DECRBY negates its argument
\* in long long, so that incr need not be exact.
incrDecrCommand(incr, exact) ==
    \/ WrongType
    \/ LET old == getLongLongFromObject(obj)
           was == strtoll(ref)
           overflow == \/ incr < 0 /\ old < 0 /\ incr < LLONG_MIN - old
                       \/ incr > 0 /\ old > 0 /\ incr > LLONG_MAX - old
           owed == IF ~IsNumber(was) THEN <<"notint">>
                   ELSE IF was + exact \in LongLong THEN Num(was + exact) ELSE <<"overflow">>
           Reply(got) == IF incr = exact \/ got = owed THEN Answer(got, owed) ELSE agree' = "wrapped"
       IN  /\ obj # OtherType
           /\ \/ ~IsNumber(old) /\ Stay /\ Reply(<<"notint">>)
              \/ IsNumber(old) /\ overflow /\ Stay /\ Reply(<<"overflow">>)
              \/ /\ IsNumber(old) /\ ~overflow
                 /\ obj' = createStringObjectFromLongLong(old + incr)
                 /\ ref' = ll2string(was + incr) /\ Reply(Num(old + incr))
incrbyCommand(incr) == incrDecrCommand(incr, incr)
decrbyCommand(incr) == incrDecrCommand(ToLongLong(-incr), -incr)

\* The sums tried are whole and fit, so that they print exactly.
incrbyfloatCommand(incr) ==
    \/ WrongType
    \/ LET old == getLongLongFromObject(obj)
       IN  /\ obj # OtherType
           /\ \/ ~IsNumber(old) /\ Stay /\ Answer(IsNumber(strtoll(ref)), FALSE)
              \/ /\ IsNumber(old) /\ old + incr \in LongLong
                 /\ obj' = createStringObject(ll2string(old + incr))
                 /\ ref' = ll2string(strtoll(ref) + incr)
                 /\ Answer(ll2string(old + incr), ref')

appendCommand(v) ==
    \/ WrongType
    \/ /\ obj = Absent /\ obj' = tryObjectEncoding(v) /\ ref' = v
       /\ Answer(Num(stringObjectLen(obj')), Num(Len(v)))
    \/ /\ IsString(obj) /\ ~checkStringLength(stringObjectLen(obj) + Len(v))
       /\ Stay /\ Answer(Len(ref) + Len(v) > MaxBytes, TRUE)
    \/ /\ IsString(obj) /\ checkStringLength(stringObjectLen(obj) + Len(v))
       /\ obj' = Raw(dbUnshareStringValue(obj).s \o v) /\ ref' = ref \o v
       /\ Answer(Num(Len(obj'.s)), Num(Len(ref')))

BitOf(byte, bit) == (byte \div 2 ^ bit) % 2

\* lookupStringForBitCommand makes or grows the string first.
setbitCommand(bitoffset, on) ==
    LET byte == bitoffset \div 8
        bit == 7 - (bitoffset % 8)
        o == IF obj = Absent THEN Raw(Zeros(byte + 1))
             ELSE Raw(sdsgrowzero(dbUnshareStringValue(obj).s, byte + 1))
        old == BitOf(o.s[byte + 1], bit)
        was == IF byte + 1 \in DOMAIN ref THEN BitOf(ref[byte + 1], bit) ELSE 0
        big == sdsgrowzero(ref, byte + 1)
    IN  \/ byte >= MaxBytes /\ Stay /\ Answer(<<"range">>, <<"range">>)
        \/ byte < MaxBytes /\ WrongType
        \/ /\ byte < MaxBytes /\ obj # OtherType
           /\ obj' = Raw([o.s EXCEPT ![byte + 1] = @ - old * 2 ^ bit + on * 2 ^ bit])
           /\ ref' = [big EXCEPT ![byte + 1] = @ + (on - was) * 2 ^ bit]
           /\ Answer(old, was)

delCommand == obj # Absent /\ obj' = Absent /\ ref' = <<>> /\ Answer(<<"ok">>, <<"ok">>)
\* Another type at the key, made by the commands of that type.
otherCommand == obj = Absent /\ obj' = OtherType /\ ref' = <<>> /\ Answer(<<"ok">>, <<"ok">>)

Command ==
    \/ \E v \in Texts : \/ \E flag \in {"none", "nx", "xx"} : setGenericCommand(v, flag)
                        \/ getsetCommand(v)
                        \/ appendCommand(v)
                        \/ \E offset \in Offs : setrangeCommand(offset, v)
    \/ \E incr \in Incrs : incrbyCommand(incr) \/ decrbyCommand(incr) \/ incrbyfloatCommand(incr)
    \/ \E bitoffset \in Bits, on \in {0, 1} : setbitCommand(bitoffset, on)
    \/ delCommand
    \/ otherCommand

\* The server is started again; nothing was saved.
Restart == obj = Died /\ obj' = Absent /\ ref' = <<>> /\ agree' = "right"

Next ==
    \/ obj # Died /\ Command
    \/ Restart

Spec == Init /\ [][Next]_vars

-----------------------------------------------------------------------------
(* The commands that read.                                                 *)

getCommand(o) == IF o = Absent THEN <<>> ELSE getDecodedObject(o)

\* MGET, for one of its keys: another type counts as a missing key.
mgetCommand(o) == IF IsString(o) THEN getDecodedObject(o) ELSE <<>>
strlenCommand(o) == IF o = Absent THEN 0 ELSE stringObjectLen(o)

\* GETRANGE, BITCOUNT and BITPOS: the first and the last byte, end < start when
\* there is none.
Clamp(start, end, len) ==
    LET s == IF start < 0 THEN len + start ELSE start
        e == IF end < 0 THEN len + end ELSE end
        s0 == IF s < 0 THEN 0 ELSE s
        e0 == IF e < 0 THEN 0 ELSE e
    IN  <<s0, IF e0 >= len THEN len - 1 ELSE e0>>

getrangeCommand(o, start, end) ==
    LET str == getDecodedObject(o)
        r == Clamp(start, end, Len(str))
    IN  IF r[1] > r[2] THEN <<>> ELSE SubSeq(str, r[1] + 1, r[2] + 1)

getbitCommand(o, bitoffset) ==
    LET s == getDecodedObject(o)
        byte == bitoffset \div 8
    IN  IF byte < Len(s) THEN BitOf(s[byte + 1], 7 - (bitoffset % 8)) ELSE 0

bitsinbyte(b) == FoldLeft(LAMBDA n, i : n + BitOf(b, i - 1), 0, [i \in 1 .. 8 |-> i])

\* Bytes up to an aligned address, blocks, the remaining bytes; addr is the
\* address of s.
RECURSIVE Blocks(_, _)
Blocks(s, bits) ==
    IF Len(s) < PopBlock THEN FoldLeft(LAMBDA n, b : n + bitsinbyte(b), bits, s)
    ELSE Blocks(SubSeq(s, PopBlock + 1, Len(s)),
                bits + FoldLeft(LAMBDA n, b : n + bitsinbyte(b), 0, SubSeq(s, 1, PopBlock)))
RECURSIVE redisPopcount(_, _)
redisPopcount(s, addr) ==
    IF addr % PopAlign # 0 /\ s # <<>> THEN bitsinbyte(s[1]) + redisPopcount(Tail(s), addr + 1)
    ELSE Blocks(s, 0)

bitcountCommand(o, start, end, addr) ==
    LET s == getrangeCommand(o, start, end) IN redisPopcount(s, addr)

\* Skips bytes to an aligned address and then whole words while they are all
\* skip; the next word is padded with zeros and searched bit by bit.
RECURSIVE SkipWords(_, _, _)
SkipWords(s, skip, pos) ==
    IF Len(s) < LongBytes \/ \E i \in 1 .. LongBytes : s[i] # skip THEN [s |-> s, pos |-> pos]
    ELSE SkipWords(SubSeq(s, LongBytes + 1, Len(s)), skip, pos + LongBytes * 8)
RECURSIVE SkipBytes(_, _, _, _)
SkipBytes(s, addr, skip, pos) ==
    IF addr % LongBytes = 0 \/ s = <<>> \/ s[1] # skip THEN SkipWords(s, skip, pos)
    ELSE SkipBytes(Tail(s), addr + 1, skip, pos + 8)

redisBitpos(s, addr, bit) ==
    LET at == SkipBytes(s, addr, IF bit = 1 THEN 0 ELSE 255, 0)
        word == [i \in 0 .. LongBytes * 8 - 1 |->
                   IF i \div 8 + 1 \in DOMAIN at.s THEN BitOf(at.s[i \div 8 + 1], 7 - (i % 8)) ELSE 0]
        hit == {i \in DOMAIN word : word[i] = bit}
    IN  IF hit = {} THEN -1 ELSE at.pos + (CHOOSE i \in hit : \A j \in hit : i <= j)

bitposCommand(o, bit, start, end, endGiven, addr) ==
    LET s == getDecodedObject(o)
        r == Clamp(start, IF endGiven THEN end ELSE Len(s) - 1, Len(s))
        bytes == r[2] - r[1] + 1
        pos == redisBitpos(SubSeq(s, r[1] + 1, r[2] + 1), addr + r[1], bit)
    IN  IF r[1] > r[2] THEN -1
        ELSE IF endGiven /\ bit = 0 /\ pos = bytes * 8 THEN -1
        ELSE IF pos = -1 THEN -1 ELSE pos + r[1] * 8

-----------------------------------------------------------------------------
\* The bits of ref between two bytes, counted one by one, and the first of them
\* that is bit; the end of the string is followed by zeros unless an end is given.
RefBits(r) == {i \in r[1] * 8 .. r[2] * 8 + 7 : BitOf(ref[i \div 8 + 1], 7 - (i % 8)) = 1}
RefPos(r, bit, endGiven) ==
    LET hit == {i \in r[1] * 8 .. r[2] * 8 + 7 : BitOf(ref[i \div 8 + 1], 7 - (i % 8)) = bit}
    IN  IF r[1] > r[2] THEN -1
        ELSE IF hit # {} THEN CHOOSE i \in hit : \A j \in hit : i <= j
        ELSE IF bit = 0 /\ ~endGiven THEN r[2] * 8 + 8 ELSE -1

\* The value reads back as the text the commands made, whatever its encoding:
\* a text is kept as an integer only when printing it gives the same bytes
\* (vr_object.c:381, vr_util.c:342), its length is the length of the print
\* (vr_object.c:527), no string passes the size limit and no embstr its own;
\* every write sent the reply it owed, INCR refusing exactly the sums that are
\* no long long (vr_t_string.c:437); the ranges of GETRANGE, BITCOUNT and
\* BITPOS are those of the text and the word loops of the last two, from any
\* address, count and find what a bit by bit search does (vr_bitops.c:10, 71).
\* Numbers that leave long long are excepted: DECRBY LLONG_MIN, and a SETRANGE
\* that ends past LLONG_MAX and brings the process down.
StringIsRef ==
    /\ agree # "wrong"
    /\ ~IsString(obj) => ref = <<>>
    /\ obj.enc = "embstr" => Len(obj.s) <= EMBSTR_SIZE_LIMIT
    /\ mgetCommand(obj) = ref
    /\ obj \notin {OtherType, Died} =>
         getCommand(obj) = ref /\ strlenCommand(obj) = Len(ref) /\ Len(ref) <= MaxBytes
    /\ IsString(obj) =>
         /\ \A bitoffset \in Bits :
              getbitCommand(obj, bitoffset) = (IF bitoffset \div 8 < Len(ref)
                                               THEN BitOf(ref[bitoffset \div 8 + 1], 7 - (bitoffset % 8)) ELSE 0)
         /\ \A start, end \in Offs :
              LET r == Clamp(start, end, Len(ref))
              IN  /\ getrangeCommand(obj, start, end) = SubSeq(ref, r[1] + 1, r[2] + 1)
                  /\ \A addr \in 0 .. PopAlign - 1 :
                       bitcountCommand(obj, start, end, addr) =
                         (IF r[1] > r[2] THEN 0 ELSE Cardinality(RefBits(r)))
                  /\ \A addr \in 0 .. LongBytes - 1, bit \in {0, 1}, given \in BOOLEAN :
                       bitposCommand(obj, bit, start, end, given, addr) =
                         RefPos(IF given THEN r ELSE Clamp(start, Len(ref) - 1, Len(ref)), bit, given)

\* SETRANGE refuses every string over the limit (vr_t_string.c:242) and DECRBY
\* subtracts its argument or reports an overflow.  The code keeps neither where a
\* number leaves long long (243, 271, 489).
NothingWraps == agree # "wrapped"
=============================================================================
