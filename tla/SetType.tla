------------------------------ MODULE SetType ------------------------------
(***************************************************************************)
(* The set commands on one key (src/src/vr_t_set.c).  obj is the value of  *)
(* the key: absent, of another type, an intset (is, module Intset) or a    *)
(* hash table (ht, a set).  ref is the set the commands made, agree says   *)
(* whether the last write sent the reply it owed: "right", "wrong", or     *)
(* "wrapped" where it did not because a number was cut to its C type.  An  *)
(* element is an integer or one of Texts, which                            *)
(* isObjectRepresentableAsLongLong refuses.  A command runs under the lock *)
(* of its internal database, so it is a step.                              *)
(***************************************************************************)
EXTENDS Intset, SequencesExt

CONSTANTS
    Ints, Texts,              \* elements: integers, and texts (integers beyond any width)
    MaxIntset,                \* set_max_intset_entries
    UINT_MAX,                 \* spopWithCountCommand keeps its count as unsigned
    Counts,                   \* the counts of SPOP tried
    SPOP_MOVE_STRATEGY_MUL    \* 5 in the code

VARIABLES obj, ref, agree

vars == <<obj, ref, agree>>

Eles == Ints \cup Texts
Absent == [enc |-> "none"]
OtherType == [enc |-> "other"]
IntsetObj(is) == [enc |-> "intset", is |-> is]
Table(ht) == [enc |-> "ht", ht |-> ht]
IsSet(o) == o.enc \in {"intset", "ht"}

-----------------------------------------------------------------------------
(* The set type.                                                           *)

isObjectRepresentableAsLongLong(v) == v \in Ints
setTypeCreate(v) == IF isObjectRepresentableAsLongLong(v) THEN IntsetObj(intsetNew) ELSE Table({})

\* What the iterator returns, one after the other.
IteratedEles(o) ==
    IF o.enc = "ht" THEN SetToSeq(o.ht) ELSE [i \in 1 .. intsetLen(o.is) |-> intsetGet(o.is, i - 1)]

setTypeConvert(o) == Table(ToSet(IteratedEles(o)))
setTypeSize(o) == IF o.enc = "ht" THEN Cardinality(o.ht) ELSE intsetLen(o.is)
setTypeIsMember(o, v) ==
    IF o.enc = "ht" THEN v \in o.ht ELSE isObjectRepresentableAsLongLong(v) /\ intsetFind(o.is, v)

setTypeAdd(o, v) ==
    IF o.enc = "ht" THEN Table(o.ht \cup {v})
    ELSE IF ~isObjectRepresentableAsLongLong(v) THEN Table(setTypeConvert(o).ht \cup {v})
    ELSE LET is == intsetAdd(o.is, v)
         IN  IF intsetLen(is) > intsetLen(o.is) /\ intsetLen(is) > MaxIntset
             THEN setTypeConvert(IntsetObj(is)) ELSE IntsetObj(is)

setTypeRemove(o, v) ==
    IF o.enc = "ht" THEN Table(o.ht \ {v})
    ELSE IF isObjectRepresentableAsLongLong(v) THEN IntsetObj(intsetRemove(o.is, v)) ELSE o

\* An element of a set that is not empty, any of them.
setTypeRandomElement(o) == ToSet(IteratedEles(o))

-----------------------------------------------------------------------------
(* The commands that write.                                                *)

Stay == UNCHANGED <<obj, ref>>
Answer(got, owed) == agree' = IF got = owed THEN "right" ELSE "wrong"
Num(n) == <<"int", n>>
Init == obj = Absent /\ ref = {} /\ agree = "right"

WrongType == obj = OtherType /\ Stay /\ Answer(<<"wrongtype">>, <<"wrongtype">>)
Missing(reply) == obj = Absent /\ Stay /\ Answer(reply, reply)

saddCommand(vs) ==
    \/ WrongType
    \/ LET start == IF obj = Absent THEN setTypeCreate(vs[1]) ELSE obj
           done == FoldLeft(LAMBDA o, v : setTypeAdd(o, v), start, vs)
       IN  /\ obj # OtherType
           /\ obj' = done /\ ref' = ref \cup ToSet(vs)
           /\ Answer(Num(setTypeSize(done) - setTypeSize(start)), Num(Cardinality(ToSet(vs) \ ref)))

\* A mutant that goes on without deleting the emptied set.
sremCommandKeeps(vs) ==
    /\ IsSet(obj)
    /\ LET o == FoldLeft(LAMBDA x, v : setTypeRemove(x, v), obj, vs)
       IN  /\ obj' = o /\ ref' = ref \ ToSet(vs)
           /\ Answer(Num(setTypeSize(obj) - setTypeSize(o)), Num(Cardinality(ToSet(vs) \cap ref)))

\* The loop ends with the last element, and so does the key.
sremCommand(vs) ==
    \/ WrongType
    \/ Missing(Num(0))
    \/ /\ IsSet(obj)
       /\ LET o == FoldLeft(LAMBDA x, v : setTypeRemove(x, v), obj, vs)
          IN  /\ obj' = IF setTypeSize(o) = 0 THEN Absent ELSE o
              /\ ref' = ref \ ToSet(vs)
              /\ Answer(Num(setTypeSize(obj) - setTypeSize(o)), Num(Cardinality(ToSet(vs) \cap ref)))

\* A pop of l elements answers rightly when what it sends is of the set, once
\* each, and as many as were asked for or as there are; exactly that leaves the
\* set.  A count that unsigned does not hold is cut, and then fewer may be sent.
Owed(l) == IF l < Cardinality(ref) THEN l ELSE Cardinality(ref)
Popped(sent, l) ==
    /\ ref' = ref \ ToSet(sent)
    /\ agree' = IF Cardinality(ToSet(sent)) # Len(sent) \/ ~(ToSet(sent) \subseteq ref) THEN "wrong"
                ELSE IF Len(sent) = Owed(l) THEN "right"
                ELSE IF l > UINT_MAX THEN "wrapped" ELSE "wrong"

\* CASE 2: count random elements leave the set, one after the other.
PopFew(count, l) ==
    \E out \in SUBSET setTypeRandomElement(obj) :
        /\ Cardinality(out) = count
        /\ obj' = FoldLeft(LAMBDA o, v : setTypeRemove(o, v), obj, SetToSeq(out))
        /\ Popped(SetToSeq(out), l)

\* CASE 3: the elements that stay move to a new set, drawn in any order; what
\* is left of the old one is sent.
PopMany(count, l) ==
    \E first \in setTypeRandomElement(obj), stay \in SUBSET setTypeRandomElement(obj) :
        /\ first \in stay /\ Cardinality(stay) = setTypeSize(obj) - count
        /\ LET drawn == <<first>> \o SetToSeq(stay \ {first})
               old == FoldLeft(LAMBDA o, v : setTypeRemove(o, v), obj, drawn)
           IN  /\ obj' = FoldLeft(LAMBDA o, v : setTypeAdd(o, v), setTypeCreate(first), drawn)
               /\ Popped(IteratedEles(old), l)

spopWithCountCommand(l) ==
    LET count == l % (UINT_MAX + 1)
        size == setTypeSize(obj)
    IN  \/ l < 0 /\ Stay /\ Answer(<<"outofrange">>, <<"outofrange">>)
        \/ l >= 0 /\ WrongType
        \/ l >= 0 /\ Missing(<<"empty">>)
        \/ l >= 0 /\ IsSet(obj) /\ count = 0 /\ UNCHANGED obj /\ Popped(<<>>, l)
        \/ l >= 0 /\ IsSet(obj) /\ count > 0 /\
             \/ count >= size /\ obj' = Absent /\ Popped(IteratedEles(obj), l)
             \/ count < size /\ (size - count) * SPOP_MOVE_STRATEGY_MUL > count /\ PopFew(count, l)
             \/ count < size /\ (size - count) * SPOP_MOVE_STRATEGY_MUL <= count /\ PopMany(count, l)

spopCommand ==
    \/ WrongType
    \/ Missing(<<"nil">>)
    \/ /\ IsSet(obj)
       /\ \E v \in setTypeRandomElement(obj) :
            LET o == setTypeRemove(obj, v)
            IN  obj' = (IF setTypeSize(o) = 0 THEN Absent ELSE o) /\ Popped(<<v>>, 1)

\* DEL, and SET of a string over the key: the keyspace's commands.
delCommand == obj # Absent /\ obj' = Absent /\ ref' = {} /\ Answer(<<"ok">>, <<"ok">>)
setCommand == obj = Absent /\ obj' = OtherType /\ ref' = {} /\ Answer(<<"ok">>, <<"ok">>)

Next ==
    \/ \E u, v \in Eles : saddCommand(<<u, v>>) \/ sremCommand(<<u, v>>)
    \/ \E l \in Counts : spopWithCountCommand(l)
    \/ spopCommand
    \/ delCommand
    \/ setCommand

Spec == Init /\ [][Next]_vars

-----------------------------------------------------------------------------
(* The commands that read.                                                 *)

sismemberCommand(o, v) == IF o = Absent THEN 0 ELSE IF setTypeIsMember(o, v) THEN 1 ELSE 0
scardCommand(o) == IF o = Absent THEN 0 ELSE setTypeSize(o)
smembersGenericCommand(o) == <<setTypeSize(o), IteratedEles(o)>>
smembersCommand(o) == IF o = Absent THEN <<0, <<>>>> ELSE smembersGenericCommand(o)

\* The key holds exactly the set its commands made, in either encoding: the
\* intset's cells decode to its elements in increasing order through every
\* upgrade of width (vr_intset.c:126) and it is never over
\* set_max_intset_entries (vr_t_set.c:41); no empty set is left behind
\* (296, 648); every write sent the reply it owed, and each of the three ways
\* of SPOP (485, 526, 545) removes exactly the elements it sends, as many as it
\* was asked for or all, unless the count is over UINT_MAX; SISMEMBER, SCARD and
\* SMEMBERS answer from that set.
SetIsRef ==
    /\ agree # "wrong"
    /\ ~IsSet(obj) => ref = {}
    /\ obj.enc = "intset" => /\ intsetLen(obj.is) <= MaxIntset
                             /\ \A i \in 2 .. intsetLen(obj.is) :
                                  IteratedEles(obj)[i - 1] < IteratedEles(obj)[i]
    /\ IsSet(obj) => ref # {}
    /\ obj # OtherType =>
         /\ \A v \in Eles : sismemberCommand(obj, v) = (IF v \in ref THEN 1 ELSE 0)
         /\ scardCommand(obj) = Cardinality(ref)
         /\ smembersCommand(obj)[1] = Len(smembersCommand(obj)[2])
         /\ ToSet(smembersCommand(obj)[2]) = ref
         /\ Len(smembersCommand(obj)[2]) = Cardinality(ref)

\* SPOP with a count of at least the size returns the whole set, whatever the
\* count (vr_t_set.c:482).  The code does not keep this: it cuts the count to
\* unsigned (450), and pops nothing for UINT_MAX + 1.
NothingWraps == agree # "wrapped"
=============================================================================
