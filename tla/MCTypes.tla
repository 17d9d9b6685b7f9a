------------------------------ MODULE MCTypes ------------------------------
(***************************************************************************)
(* The data types for TLC: one part per type, each an instance of its      *)
(* module.  The parts share the variables and never mix: part is chosen    *)
(* in the initial state.                                                   *)
(***************************************************************************)
EXTENDS Integers, Sequences

VARIABLES part, obj, ref, agree

ZInf == 1
ZScores == {-1, 0, 1}
ZPair(e, s) == [ele |-> e, score |-> s]
ZAdds ==
    {[pairs |-> <<ZPair(e, s)>>, opt |-> o] : e \in 1 .. 3, s \in ZScores,
        o \in {{}, {"nx"}, {"xx", "ch"}, {"incr"}, {"incr", "xx"}}}
    \cup {[pairs |-> <<ZPair(d, s), ZPair(e, 0)>>, opt |-> o] :
        d \in 1 .. 3, e \in 1 .. 3, s \in {-1, 1}, o \in {{"ch"}}}
    \cup {[pairs |-> <<ZPair(1, 1), ZPair(2, 0)>>, opt |-> o] : o \in {{"nx", "xx"}, {"incr"}}}
Z == INSTANCE Zset WITH
       ZSKIPLIST_MAXLEVEL <- 2, Eles <- 1 .. 3, LongEles <- {3}, Scores <- ZScores,
       Inf <- ZInf, MaxEntries <- 2, Adds <- ZAdds, Rems <- {<<1>>, <<2>>, <<3, 1>>, <<1, 2, 3>>}

H == INSTANCE Hash WITH
       Fields <- 1 .. 3, LongFields <- {}, LLONG_MIN <- -2, LLONG_MAX <- 1, Text <- 5, LongText <- 6,
       MaxEntries <- 2, Sets <- {<<<<1, 1>>, <<2, 5>>>>, <<<<2, 6>>, <<3, -2>>>>, <<<<3, 0>>, <<3, 1>>>>}

S == INSTANCE SetType WITH
       Base <- 4, Ints <- {-100, -3, 0, 1, 6}, Texts <- {200}, MaxIntset <- 4, UINT_MAX <- 15,
       Counts <- {-1, 0, 1, 3, 5, 16}, SPOP_MOVE_STRATEGY_MUL <- 2

LBytes(v) == v
L == INSTANCE List WITH Bytes <- LBytes, NodeLimit <- 3, Entries <- {1, 2}, MaxLen <- 4, Idx <- -3 .. 3

T == INSTANCE Strings WITH
       LLONG_MIN <- -12, LLONG_MAX <- 11, EMBSTR_SIZE_LIMIT <- 2, MaxBytes <- 4, LongBytes <- 2,
       PopAlign <- 2, PopBlock <- 2, Offs <- {-2, 0, 1, 3, 11}, Bits <- {7, 9, 40}, Incrs <- {-12, -1, 1, 11},
       Texts <- {<<>>, <<48>>, <<49>>, <<49, 49>>, <<49, 50>>, <<45, 49, 50>>, <<255, 255>>}

O == INSTANCE SetOps WITH
       db <- obj, cmd <- ref, seen <- agree, Elems <- 1 .. 4, Values <- {{1}, {1, 2}, {1, 2, 3, 4}},
       Sources <- {<<"a", "b">>, <<"a", "b", "b", "b">>}, Dsts <- {"none", "a"}, MaxWrites <- 1

D == INSTANCE Dict WITH
       d <- obj, keys <- ref, walk <- agree, Keys <- {0, 2, 4, 5}, DICT_HT_INITIAL_SIZE <- 2,
       HASHTABLE_MIN_FILL <- 40, EmptyVisits <- 2, Batch <- 2, Width <- 4

P == INSTANCE Ziplist WITH
       zl <- obj, ok <- agree, MaxEntries <- 4, ZipUint16Max <- 3, ShortLen <- 64,
       Values <- {[num |-> 12], [num |-> -129], [text |-> "a", slen |-> 64],
                  [text |-> "b", slen |-> 248], [text |-> "c", slen |-> 300]}

Y == INSTANCE HyperLogLog WITH
       HLL_REGISTERS <- 4, HLL_SPARSE_VAL_MAX_VALUE <- 2, HLL_SPARSE_VAL_MAX_LEN <- 2, HLL_SPARSE_ZERO_MAX_LEN <- 2,
       HLL_SPARSE_XZERO_MAX_LEN <- 4, SparseMaxBytes <- 3, Counts <- {1, 2, 41}

Init == \/ part = "zset" /\ Z!Init
        \/ part = "hash" /\ H!Init
        \/ part = "set" /\ S!Init
        \/ part = "hll" /\ Y!Init
        \/ part = "ziplist" /\ P!Init
        \/ part = "dict" /\ D!Init
        \/ part = "setops" /\ O!Init
        \/ part = "string" /\ T!Init
        \/ part = "list" /\ L!Init
Next == \/ part = "zset" /\ Z!Next /\ UNCHANGED part
        \/ part = "hash" /\ H!Next /\ UNCHANGED part
        \/ part = "set" /\ S!Next /\ UNCHANGED part
        \/ part = "hll" /\ Y!Next /\ UNCHANGED part
        \/ part = "ziplist" /\ P!Next /\ UNCHANGED part
        \/ part = "dict" /\ D!Next /\ UNCHANGED part
        \/ part = "setops" /\ O!Next /\ UNCHANGED part
        \/ part = "string" /\ T!Next /\ UNCHANGED part
        \/ part = "list" /\ L!Next /\ UNCHANGED part
Spec == Init /\ [][Next]_<<part, obj, ref, agree>>

\* Zset!ZsetIsRef: a sorted set, as ziplist or skip list and dict, is the one its
\* commands made, and the writes replied what they owed.  Zset!ReadsAgree: ZRANGE,
\* ZRANGEBYSCORE, ZCOUNT, ZSCORE and ZRANK answer from it.
ZsetIsRef == part = "zset" => Z!ZsetIsRef /\ Z!ReadsAgree

\* Hash!HashIsRef: a hash, as ziplist or table, is the one its commands made.
HashIsRef == part = "hash" => H!HashIsRef

\* SetType!SetIsRef: a set, as intset or table, is the one its commands made, and
\* SPOP sends what it was asked for unless the count is over UINT_MAX.
SetIsRef == part = "set" => S!SetIsRef

\* List!ListIsRef: a list over quicklist nodes is the one its commands made.
ListIsRef == part = "list" => L!ListIsRef

\* Strings!StringIsRef: a string, as integer, embstr or raw, is the text its
\* commands made, bit by bit, and every reply is owed unless a number left long long.
StringIsRef == part = "string" => T!StringIsRef

\* SetType!NothingWraps, Strings!NothingWraps: no reply is wrong because a number was
\* cut to its C type.  The code does not keep this, in SPOP, SETRANGE and DECRBY.
NothingWraps == (part = "set" => S!NothingWraps) /\ (part = "string" => T!NothingWraps)

\* SetOps!SetOpAnswers: SINTER, SUNION and SDIFF, which lock one key at a time,
\* answer what a reader can rely on while another client writes: SDIFF by its first
\* algorithm, SINTER while no key of it vanishes.
SetOpAnswers == part = "setops" => O!SetOpAnswers

\* SetOps!DiffTwoAnswers: the second algorithm of SDIFF returns what stays in the
\* first set and is in no other.
DiffTwoAnswers == part = "setops" => O!DiffTwoAnswers

\* Dict!DictIsSet: a hash table is its set of keys, whatever rehash is under way.
\* Dict!WalksAreComplete: a scan and a safe iteration return every key that
\* stayed, a scan unless the table shrinks to a quarter meanwhile.
DictIsSet == part = "dict" => D!DictIsSet /\ D!WalksAreComplete

\* Ziplist!ZiplistIsList: a ziplist is its list of entries, and every length in it
\* is right.
ZiplistIsList == part = "ziplist" => P!ZiplistIsList

\* HyperLogLog!HllIsRegisters: a HyperLogLog is its registers, sparse or dense.
HllIsRegisters == part = "hll" => Y!HllIsRegisters
=============================================================================
