-------------------------------- MODULE Hash --------------------------------
(***************************************************************************)
(* The hash commands on one key (src/src/vr_t_hash.c).  obj is the value   *)
(* of the key: absent, of another type, a ziplist (zl, the sequence of its *)
(* field-value pairs) or a hash table (ht, a function).  ref is the hash   *)
(* the commands made and agree says that the last write sent the reply it  *)
(* owed.  A value is a number LLONG_MIN .. LLONG_MAX or a text; numbers    *)
(* are printed in decimal and read back, by string2ll or strtold.  A       *)
(* command runs under the lock of its internal database, so it is a step.  *)
(***************************************************************************)
EXTENDS Integers, Sequences, SequencesExt

CONSTANTS
    Fields, LongFields,    \* fields; those longer than hash_max_ziplist_value
    LLONG_MIN, LLONG_MAX,  \* the ends of long long, scaled down
    Text, LongText,        \* values no command reads as a number; the second
                           \* is longer than hash_max_ziplist_value
    MaxEntries,            \* hash_max_ziplist_entries
    Sets                   \* the field-value lists of HMSET tried

VARIABLES obj, ref, agree

vars == <<obj, ref, agree>>

Numbers == LLONG_MIN .. LLONG_MAX
Values == Numbers \cup {Text, LongText}

Absent == [enc |-> "none"]
OtherType == [enc |-> "other"]
Ziplist(zl) == [enc |-> "ziplist", zl |-> zl]
Table(ht) == [enc |-> "ht", ht |-> ht]
IsHash(o) == o.enc \in {"ziplist", "ht"}
With(f, k, v) == [x \in DOMAIN f \cup {k} |-> IF x = k THEN v ELSE f[x]]
Without(f, k) == [x \in DOMAIN f \ {k} |-> f[x]]
EmptyMap == [x \in {} |-> 0]

-----------------------------------------------------------------------------
(* The hash type.                                                          *)

\* ziplistFind with skip 1: it looks at the fields only.
FieldAt(zl, f) ==
    LET hit == {i \in DOMAIN zl : zl[i][1] = f}
    IN  IF hit = {} THEN 0 ELSE CHOOSE i \in hit : \A j \in hit : i <= j

NoValue == LongText + 1
hashTypeGetFromZiplist(o, f) ==
    IF FieldAt(o.zl, f) = 0 THEN NoValue ELSE o.zl[FieldAt(o.zl, f)][2]
hashTypeGetFromHashTable(o, f) == IF f \in DOMAIN o.ht THEN o.ht[f] ELSE NoValue
hashTypeGetObject(o, f) ==
    IF o.enc = "ziplist" THEN hashTypeGetFromZiplist(o, f) ELSE hashTypeGetFromHashTable(o, f)
hashTypeExists(o, f) == hashTypeGetObject(o, f) # NoValue
hashTypeLength(o) == IF o.enc = "ziplist" THEN Len(o.zl) ELSE Cardinality(DOMAIN o.ht)

\* The pairs the iterator returns, in the order of the ziplist or in any order.
IteratedPairs(o) ==
    IF o.enc = "ziplist" THEN o.zl
    ELSE LET s == SetToSeq(DOMAIN o.ht) IN [i \in DOMAIN s |-> <<s[i], o.ht[s[i]]>>]

hashTypeConvertZiplist(o) ==
    Table(FoldLeft(LAMBDA m, p : With(m, p[1], p[2]), EmptyMap, IteratedPairs(o)))
hashTypeConvert(o) == hashTypeConvertZiplist(o)

hashTypeTryConversion(o, args) ==
    IF o.enc = "ziplist" /\ args \cap (LongFields \cup {LongText}) # {}
    THEN hashTypeConvert(o) ELSE o

hashTypeSet(o, f, v) ==
    LET i == FieldAt(o.zl, f)
        zl == IF i # 0 THEN ReplaceAt(o.zl, i, <<f, v>>) ELSE Append(o.zl, <<f, v>>)
    IN  IF o.enc = "ht" THEN Table(With(o.ht, f, v))
        ELSE IF Len(zl) > MaxEntries THEN hashTypeConvert(Ziplist(zl)) ELSE Ziplist(zl)

hashTypeDelete(o, f) ==
    IF o.enc = "ht" THEN Table(Without(o.ht, f))
    ELSE IF FieldAt(o.zl, f) = 0 THEN o ELSE Ziplist(RemoveAt(o.zl, FieldAt(o.zl, f)))

\* createHashObject makes an empty ziplist.
hashTypeLookupWriteOrCreate == IF obj = Absent THEN Ziplist(<<>>) ELSE obj

-----------------------------------------------------------------------------
(* The commands that write.                                                *)

Stay == UNCHANGED <<obj, ref>>
Answer(got, owed) == agree' = (got = owed)
Num(n) == <<"int", n>>
Init == obj = Absent /\ ref = EmptyMap /\ agree = TRUE

WrongType == obj = OtherType /\ Stay /\ Answer(<<"wrongtype">>, <<"wrongtype">>)

hsetCommand(f, v) ==
    \/ WrongType
    \/ LET o == hashTypeTryConversion(hashTypeLookupWriteOrCreate, {f, v})
       IN  /\ obj # OtherType
           /\ obj' = hashTypeSet(o, f, v) /\ ref' = With(ref, f, v)
           /\ Answer(Num(IF hashTypeExists(o, f) THEN 0 ELSE 1), Num(IF f \in DOMAIN ref THEN 0 ELSE 1))

\* The conversion comes first, and stays when the field is there.
hsetnxCommand(f, v) ==
    \/ WrongType
    \/ LET o == hashTypeTryConversion(hashTypeLookupWriteOrCreate, {f, v})
           has == hashTypeExists(o, f)
       IN  /\ obj # OtherType
           /\ obj' = IF has THEN o ELSE hashTypeSet(o, f, v)
           /\ ref' = IF f \in DOMAIN ref THEN ref ELSE With(ref, f, v)
           /\ Answer(Num(IF has THEN 0 ELSE 1), Num(IF f \in DOMAIN ref THEN 0 ELSE 1))

hmsetCommand(pairs) ==
    \/ WrongType
    \/ LET args == UNION {{pairs[i][1], pairs[i][2]} : i \in DOMAIN pairs}
           o == hashTypeTryConversion(hashTypeLookupWriteOrCreate, args)
       IN  /\ obj # OtherType
           /\ obj' = FoldLeft(LAMBDA h, p : hashTypeSet(h, p[1], p[2]), o, pairs)
           /\ ref' = FoldLeft(LAMBDA m, p : With(m, p[1], p[2]), ref, pairs)
           /\ Answer(<<"ok">>, <<"ok">>)

\* incr is added when the sum is a long long; an empty hash made for the key
\* stays, should the command stop after making it.
hincrbyCommand(f, incr) ==
    \/ WrongType
    \/ LET o == hashTypeLookupWriteOrCreate
           cur == hashTypeGetObject(o, f)
           old == IF cur = NoValue THEN 0 ELSE cur
           overflow == \/ incr < 0 /\ old < 0 /\ incr < LLONG_MIN - old
                       \/ incr > 0 /\ old > 0 /\ incr > LLONG_MAX - old
           was == IF f \in DOMAIN ref THEN ref[f] ELSE 0
           fits == was \in Numbers /\ was + incr \in Numbers
           owed == IF was \notin Numbers THEN <<"notint">>
                   ELSE IF fits THEN Num(was + incr) ELSE <<"overflow">>
       IN  /\ obj # OtherType
           /\ ref' = IF fits THEN With(ref, f, was + incr) ELSE ref
           /\ \/ old \notin Numbers /\ obj' = o /\ Answer(<<"notint">>, owed)
              \/ old \in Numbers /\ overflow /\ obj' = o /\ Answer(<<"overflow">>, owed)
              \/ old \in Numbers /\ ~overflow /\ obj' = hashTypeSet(o, f, old + incr)
                   /\ Answer(Num(old + incr), owed)

\* No overflow check: a long double has room; the guard bounds the numbers.
hincrbyfloatCommand(f, incr) ==
    \/ WrongType
    \/ LET o == hashTypeLookupWriteOrCreate
           cur == hashTypeGetObject(o, f)
           old == IF cur = NoValue THEN 0 ELSE cur
           was == IF f \in DOMAIN ref THEN ref[f] ELSE 0
       IN  /\ obj # OtherType
           /\ \/ old \notin Numbers /\ obj' = o /\ ref' = ref
                   /\ Answer(<<"notfloat">>, IF was \in Numbers THEN Num(was) ELSE <<"notfloat">>)
              \/ /\ old \in Numbers /\ old + incr \in Numbers
                 /\ obj' = hashTypeSet(o, f, old + incr)
                 /\ ref' = With(ref, f, was + incr)
                 /\ Answer(Num(old + incr), Num(was + incr))

\* A mutant that deletes the key only after the last field of the call.
HdelAfter(o, fields, n) ==
    LET there == SelectSeq(fields, LAMBDA f : hashTypeExists(o, f))
    IN  [o |-> FoldLeft(hashTypeDelete, o, there), n |-> n + Cardinality(ToSet(there))]

RECURSIVE Hdel(_, _, _)
Hdel(o, fields, n) ==
    IF fields = <<>> THEN [o |-> o, n |-> n]
    ELSE LET p == hashTypeDelete(o, Head(fields))
         IN  IF ~hashTypeExists(o, Head(fields)) THEN Hdel(o, Tail(fields), n)
             ELSE IF hashTypeLength(p) = 0 THEN [o |-> Absent, n |-> n + 1]
             ELSE Hdel(p, Tail(fields), n + 1)

hdelCommand(fields) ==
    \/ obj = Absent /\ Stay /\ Answer(Num(0), Num(0))
    \/ WrongType
    \/ /\ IsHash(obj)
       /\ LET r == Hdel(obj, fields, 0)
              gone == ToSet(fields) \cap DOMAIN ref
          IN  /\ obj' = r.o /\ ref' = [x \in DOMAIN ref \ gone |-> ref[x]]
              /\ Answer(Num(r.n), Num(Cardinality(gone)))

\* DEL, and SET of a string over the key: the keyspace's commands.
delCommand == obj # Absent /\ obj' = Absent /\ ref' = EmptyMap /\ Answer(<<"ok">>, <<"ok">>)
setCommand == obj = Absent /\ obj' = OtherType /\ ref' = EmptyMap /\ Answer(<<"ok">>, <<"ok">>)

Next ==
    \/ \E f \in Fields, v \in Values : hsetCommand(f, v) \/ hsetnxCommand(f, v)
    \/ \E pairs \in Sets : hmsetCommand(pairs)
    \/ \E f \in Fields, incr \in Numbers : hincrbyCommand(f, incr) \/ hincrbyfloatCommand(f, incr)
    \/ \E f, g \in Fields : hdelCommand(<<f, g>>)
    \/ delCommand
    \/ setCommand

Spec == Init /\ [][Next]_vars

-----------------------------------------------------------------------------
(* The commands that read.                                                 *)

\* The start every one of them shares: a missing key, another type, the value.
Read(o, none, reply) ==
    IF o = Absent THEN none ELSE IF o = OtherType THEN <<"wrongtype">> ELSE reply

addHashFieldToReply(o, f) == IF o = Absent THEN NoValue ELSE hashTypeGetObject(o, f)
hgetCommand(o, f) == Read(o, <<NoValue>>, <<addHashFieldToReply(o, f)>>)
hmgetCommand(o, fields) ==
    LET reply == [i \in DOMAIN fields |-> addHashFieldToReply(o, fields[i])] IN Read(o, reply, reply)
hlenCommand(o) == Read(o, Num(0), Num(hashTypeLength(o)))
hexistsCommand(o, f) == Read(o, Num(0), Num(IF hashTypeExists(o, f) THEN 1 ELSE 0))

\* HKEYS, HVALS and HGETALL by what they ask for, 1 the fields and 2 the values:
\* the announced length and what is sent.
addHashIteratorCursorToReply(pair, what) == [i \in DOMAIN what |-> pair[what[i]]]
genericHgetallCommand(o, what) ==
    Read(o, <<0, <<>>>>, <<hashTypeLength(o) * Len(what),
                           FlattenSeq([i \in DOMAIN IteratedPairs(o) |->
                                         addHashIteratorCursorToReply(IteratedPairs(o)[i], what)])>>)

-----------------------------------------------------------------------------
\* The key holds exactly the hash its commands made, in either encoding: each
\* field once, no empty hash (vr_t_hash.c:739, and an HINCRBY that stops after
\* hashTypeLookupWriteOrCreate), a ziplist never over hash_max_ziplist_entries
\* (vr_t_hash.c:203); every write sent the reply it owed, HINCRBY refusing
\* exactly the sums that are no long long (vr_t_hash.c:565); the reads answer
\* from that hash, and HKEYS, HVALS and HGETALL announce what they send (862).
HashIsRef ==
    /\ agree
    /\ obj.enc \in {"none", "other"} => ref = EmptyMap
    /\ IsHash(obj) =>
         LET n == Cardinality(DOMAIN ref)
             all == genericHgetallCommand(obj, <<1, 2>>)
         IN  /\ ref # EmptyMap
             /\ obj.enc = "ziplist" => Len(obj.zl) <= MaxEntries
             /\ all[1] = 2 * n /\ Len(all[2]) = 2 * n
             /\ \A f \in DOMAIN ref : \E i \in 1 .. n : all[2][2 * i - 1] = f /\ all[2][2 * i] = ref[f]
             /\ genericHgetallCommand(obj, <<1>>) = <<n, [i \in 1 .. n |-> all[2][2 * i - 1]]>>
             /\ genericHgetallCommand(obj, <<2>>) = <<n, [i \in 1 .. n |-> all[2][2 * i]]>>
    /\ obj # OtherType => \A f, g \in Fields :
         LET value(x) == IF x \in DOMAIN ref THEN ref[x] ELSE NoValue
         IN  /\ hmgetCommand(obj, <<f, g>>) = <<value(f), value(g)>>
             /\ hgetCommand(obj, f) = <<value(f)>>
             /\ hexistsCommand(obj, f) = Num(IF f \in DOMAIN ref THEN 1 ELSE 0)
             /\ hlenCommand(obj) = Num(Cardinality(DOMAIN ref))
=============================================================================
