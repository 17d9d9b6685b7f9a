-------------------------------- MODULE Zset --------------------------------
(***************************************************************************)
(* The sorted-set commands on one key (src/src/vr_t_zset.c): ZADD and its  *)
(* options, ZINCRBY, ZREM, the three ZREMRANGEBY commands and the reads.   *)
(* obj is the value  of the key: absent, a value of another type, a        *)
(* ziplist (zl, the sequence of its element-score pairs) or a skip list    *)
(* with its dict (dict[e] is the score the entry of e points at).  A       *)
(* command runs under the lock of its internal database, so it is a step.  *)
(* ref is what the sorted set must be, a function from elements to scores, *)
(* and agree says that the last write sent the reply it owed.  Scores are  *)
(* integers; Inf stands for the float infinity.  A score in a ziplist is   *)
(* printed with 17 digits and read back, which returns the same score.     *)
(***************************************************************************)
EXTENDS Skiplist, SequencesExt

CONSTANTS
    Eles,         \* elements, positive numbers in the order of the strings
    LongEles,     \* those longer than zset_max_ziplist_value
    Scores,       \* the scores commands give
    Inf,          \* larger than every finite score reached
    MaxEntries,   \* zset_max_ziplist_entries
    Adds,         \* the argument lists of ZADD tried: [pairs, opt]
    Rems          \* the member lists of ZREM tried

VARIABLES obj, ref, agree

vars == <<obj, ref, agree>>

Absent == [enc |-> "none"]
OtherType == [enc |-> "other"]
Ziplist(zl) == [enc |-> "ziplist", zl |-> zl]
SkipDict(zsl, dict) == [enc |-> "skiplist", zsl |-> zsl, dict |-> dict]
IsZset(o) == o.enc \in {"ziplist", "skiplist"}
Pair(e, s) == [ele |-> e, score |-> s]

NaN == Inf + 1
Infinite(s) == s \in {Inf, -Inf}
\* The float sum; NaN when opposite infinities meet.
Plus(a, b) == CASE Infinite(a) /\ Infinite(b) /\ a # b -> NaN
                [] Infinite(a) -> a
                [] Infinite(b) -> b
                [] OTHER -> a + b

-----------------------------------------------------------------------------
(* Ziplist-backed sorted sets.                                             *)

\* Index of the pair of ele, 0 when it is not there.
zzlFind(zl, ele) ==
    LET hit == {i \in DOMAIN zl : zl[i].ele = ele}
    IN  IF hit = {} THEN 0 ELSE CHOOSE i \in hit : TRUE

zzlDelete(zl, i) == RemoveAt(zl, i)

\* In front of the first pair with a larger score, or the same and a larger
\* element.
zzlInsert(zl, ele, score) ==
    LET beyond == {i \in DOMAIN zl : \/ zl[i].score > score
                                     \/ zl[i].score = score /\ zl[i].ele > ele}
        at == IF beyond = {} THEN Len(zl) + 1
              ELSE CHOOSE i \in beyond : \A j \in beyond : i <= j
    IN  InsertAt(zl, at, Pair(ele, score))

zzlLength(zl) == Len(zl)

zzlIsInRange(zl, spec) ==
    /\ ~EmptyRange(spec)
    /\ zl # <<>>
    /\ zslValueGteMin(Last(zl).score, spec)
    /\ zslValueLteMax(Head(zl).score, spec)

\* Index of the first pair in the range, 0 when there is none.
zzlFirstInRange(zl, spec) ==
    LET ge == {i \in DOMAIN zl : zslValueGteMin(zl[i].score, spec)}
        i == CHOOSE i \in ge : \A j \in ge : i <= j
    IN  IF zzlIsInRange(zl, spec) /\ ge # {} /\ zslValueLteMax(zl[i].score, spec)
        THEN i ELSE 0

zzlLastInRange(zl, spec) ==
    LET le == {i \in DOMAIN zl : zslValueLteMax(zl[i].score, spec)}
        i == CHOOSE i \in le : \A j \in le : j <= i
    IN  IF zzlIsInRange(zl, spec) /\ le # {} /\ zslValueGteMin(zl[i].score, spec)
        THEN i ELSE 0

\* The pairs from index i on that are deleted while Ok(pair): i stays put while
\* what follows moves down to it.
RECURSIVE DeletePairsFrom(_, _, _)
DeletePairsFrom(zl, i, Ok) ==
    IF i > Len(zl) \/ zl[i].ele \notin Ok THEN zl
    ELSE DeletePairsFrom(RemoveAt(zl, i), i, Ok)

zzlDeleteRangeByScore(zl, spec) ==
    LET i == zzlFirstInRange(zl, spec)
        le == {zl[j].ele : j \in {k \in DOMAIN zl : zslValueLteMax(zl[k].score, spec)}}
    IN  IF i = 0 THEN zl ELSE DeletePairsFrom(zl, i, le)

zzlIsInLexRange(zl, spec) ==
    /\ ~(spec.min = spec.max /\ (spec.minex \/ spec.maxex))
    /\ zl # <<>>
    /\ zslValueGteMin(Last(zl).ele, spec)
    /\ zslValueLteMax(Head(zl).ele, spec)

zzlFirstInLexRange(zl, spec) ==
    LET ge == {i \in DOMAIN zl : zslValueGteMin(zl[i].ele, spec)}
        i == CHOOSE i \in ge : \A j \in ge : i <= j
    IN  IF zzlIsInLexRange(zl, spec) /\ ge # {} /\ zslValueLteMax(zl[i].ele, spec)
        THEN i ELSE 0

zzlDeleteRangeByLex(zl, spec) ==
    LET i == zzlFirstInLexRange(zl, spec)
    IN  IF i = 0 THEN zl
        ELSE DeletePairsFrom(zl, i, {e \in Eles : zslValueLteMax(e, spec)})

zzlDeleteRangeByRank(zl, start, end) ==
    SubSeq(zl, 1, start - 1) \o SubSeq(zl, end + 1, Len(zl))

-----------------------------------------------------------------------------
(* Common sorted-set functions.                                            *)

zsetLength(o) == IF o.enc = "ziplist" THEN zzlLength(o.zl) ELSE o.zsl.length

\* Ziplist to skip list, pair by pair; levels[e] is the random level e gets.
RECURSIVE Rebuild(_, _, _)
Rebuild(zl, zs, levels) ==
    IF zl = <<>> THEN zs
    ELSE LET p == Head(zl)
         IN  Rebuild(Tail(zl),
                     SkipDict(zslInsert(zs.zsl, p.score, p.ele, levels[p.ele]),
                              [e \in DOMAIN zs.dict \cup {p.ele} |->
                                 IF e = p.ele THEN p.score ELSE zs.dict[e]]),
                     levels)

EmptySkipDict == SkipDict(zslCreate, [e \in {} |-> 0])

zsetConvert(o, levels) ==
    IF o.enc = "skiplist" THEN o ELSE Rebuild(o.zl, EmptySkipDict, levels)

None == Inf + 2
zsetScore(o, ele) ==
    IF o.enc = "ziplist"
    THEN IF zzlFind(o.zl, ele) = 0 THEN None ELSE o.zl[zzlFind(o.zl, ele)].score
    ELSE IF ele \in DOMAIN o.dict THEN o.dict[ele] ELSE None

Put(o, ele, score, level) ==
    SkipDict(zslInsert(o.zsl, score, ele, level),
             [e \in DOMAIN o.dict \cup {ele} |-> IF e = ele THEN score ELSE o.dict[e]])

-----------------------------------------------------------------------------
(* ZADD and ZINCRBY: a = [o, added, updated, processed, score, nan] runs   *)
(* through the pairs; opt is the set of options given.                     *)

ZaddZiplist(a, p, opt, levels) ==
    LET i == zzlFind(a.o.zl, p.ele)
        score == IF i # 0 /\ "incr" \in opt THEN Plus(p.score, a.o.zl[i].score) ELSE p.score
        zl == zzlInsert(a.o.zl, p.ele, p.score)
        long == zzlLength(zl) > MaxEntries \/ p.ele \in LongEles
    IN  CASE i # 0 /\ "nx" \in opt -> a
          [] i # 0 /\ "nx" \notin opt /\ score = NaN -> [a EXCEPT !.nan = TRUE]
          [] i # 0 /\ "nx" \notin opt /\ score # NaN ->
               LET moved == score # a.o.zl[i].score
               IN  [a EXCEPT
                     !.o = IF moved THEN Ziplist(zzlInsert(zzlDelete(@.zl, i), p.ele, score)) ELSE @,
                     !.updated = IF moved THEN @ + 1 ELSE @,
                     !.processed = @ + 1, !.score = score]
          [] i = 0 /\ "xx" \in opt -> [a EXCEPT !.score = score]
          [] OTHER -> [a EXCEPT
                        !.o = IF long THEN zsetConvert(Ziplist(zl), levels) ELSE Ziplist(zl),
                        !.added = @ + 1, !.processed = @ + 1, !.score = score]

ZaddSkiplist(a, p, opt, levels) ==
    LET there == p.ele \in DOMAIN a.o.dict
        cur == a.o.dict[p.ele]
        score == IF there /\ "incr" \in opt THEN Plus(p.score, cur) ELSE p.score
    IN  CASE there /\ "nx" \in opt -> a
          [] there /\ "nx" \notin opt /\ score = NaN -> [a EXCEPT !.nan = TRUE]
          [] there /\ "nx" \notin opt /\ score # NaN ->
               LET out == [a.o EXCEPT !.zsl = zslDelete(@, cur, p.ele).zsl]
               IN  [a EXCEPT
                     !.o = IF score # cur THEN Put(out, p.ele, score, levels[p.ele]) ELSE @,
                     !.updated = IF score # cur THEN @ + 1 ELSE @,
                     !.processed = @ + 1, !.score = score]
          [] ~there /\ "xx" \in opt -> [a EXCEPT !.score = score]
          [] OTHER -> [a EXCEPT !.o = Put(@, p.ele, score, levels[p.ele]),
                                !.added = @ + 1, !.processed = @ + 1, !.score = score]

RECURSIVE ZaddPairs(_, _, _, _)
ZaddPairs(a, pairs, opt, levels) ==
    IF pairs = <<>> \/ a.nan THEN a
    ELSE ZaddPairs(IF a.o.enc = "ziplist" THEN ZaddZiplist(a, Head(pairs), opt, levels)
                   ELSE ZaddSkiplist(a, Head(pairs), opt, levels),
                   Tail(pairs), opt, levels)

ZaddReply(a, opt) ==
    CASE a.nan -> <<"nan">>
      [] ~a.nan /\ "incr" \in opt -> IF a.processed > 0 THEN <<"score", a.score>> ELSE <<"nil">>
      [] OTHER -> <<"int", IF "ch" \in opt THEN a.added + a.updated ELSE a.added>>

-----------------------------------------------------------------------------
(* What a sorted set owes, over the reference function f.                  *)

EmptyRef == [e \in {} |-> 0]
With(f, e, s) == [x \in DOMAIN f \cup {e} |-> IF x = e THEN s ELSE f[x]]
Without(f, S) == [x \in DOMAIN f \ S |-> f[x]]

\* The elements in the order of scores, ties in the order of elements.
Ranked(f) ==
    SetToSortSeq(DOMAIN f, LAMBDA d, e : f[d] < f[e] \/ (f[d] = f[e] /\ d < e))

\* ZADD takes its pairs one by one; NX and XX skip, NaN stops.
AbsAdd(f, pairs, opt) ==
    LET one(a, p) ==
          LET old == p.ele \in DOMAIN a.f
              s == IF old /\ "incr" \in opt THEN Plus(p.score, a.f[p.ele]) ELSE p.score
          IN  IF a.nan \/ (IF old THEN "nx" ELSE "xx") \in opt THEN a
              ELSE IF s = NaN THEN [a EXCEPT !.nan = TRUE]
              ELSE [f |-> With(a.f, p.ele, s), nan |-> FALSE, last |-> <<"score", s>>,
                    added |-> a.added + (IF old THEN 0 ELSE 1),
                    changed |-> a.changed + (IF old /\ a.f[p.ele] = s THEN 0 ELSE 1)]
    IN  FoldLeft(one, [f |-> f, nan |-> FALSE, last |-> <<"nil">>, added |-> 0, changed |-> 0],
                 pairs)

AbsAddReply(a, opt) ==
    IF a.nan THEN <<"nan">>
    ELSE IF "incr" \in opt THEN a.last
    ELSE <<"int", IF "ch" \in opt THEN a.changed ELSE a.added>>

-----------------------------------------------------------------------------
(* The write commands.                                                     *)

Stay == UNCHANGED <<obj, ref>>
Answer(got, owed) == agree' = (got = owed)

Init == obj = Absent /\ ref = EmptyRef /\ agree = TRUE

zaddGenericCommand(pairs, opt, levels) ==
    LET refused == {"nx", "xx"} \subseteq opt \/ ("incr" \in opt /\ Len(pairs) > 1)
        new == IF MaxEntries = 0 \/ Head(pairs).ele \in LongEles THEN EmptySkipDict
               ELSE Ziplist(<<>>)
        a == ZaddPairs([o |-> IF obj = Absent THEN new ELSE obj, added |-> 0, updated |-> 0,
                        processed |-> 0, score |-> 0, nan |-> FALSE], pairs, opt, levels)
        b == AbsAdd(ref, pairs, opt)
    IN  \/ refused /\ Stay /\ Answer(<<"error">>, <<"error">>)
        \/ ~refused /\ obj = OtherType /\ Stay /\ Answer(<<"wrongtype">>, <<"wrongtype">>)
        \/ /\ ~refused /\ obj = Absent /\ "xx" \in opt
           /\ Stay
           /\ Answer(IF "incr" \in opt THEN <<"nil">> ELSE <<"int", 0>>, AbsAddReply(b, opt))
        \/ /\ ~refused /\ obj # OtherType /\ ~(obj = Absent /\ "xx" \in opt)
           /\ \E done \in {a}, owed \in {b} :
                 /\ obj' = done.o /\ ref' = owed.f
                 /\ Answer(ZaddReply(done, opt), AbsAddReply(owed, opt))

\* Delete the members one by one, up to the one that empties the set.
RECURSIVE RemMembers(_, _, _)
RemMembers(o, members, n) ==
    IF members = <<>> THEN [o |-> o, n |-> n]
    ELSE LET e == Head(members)
             i == IF o.enc = "ziplist" THEN zzlFind(o.zl, e) ELSE IF e \in DOMAIN o.dict THEN 1 ELSE 0
             p == IF o.enc = "ziplist" THEN Ziplist(zzlDelete(o.zl, i))
                  ELSE SkipDict(zslDelete(o.zsl, o.dict[e], e).zsl, Without(o.dict, {e}))
         IN  IF i = 0 THEN RemMembers(o, Tail(members), n)
             ELSE IF zsetLength(p) = 0 THEN [o |-> Absent, n |-> n + 1]
             ELSE RemMembers(p, Tail(members), n + 1)

\* A key that is missing or of another type ends the command at once.
NoZset(none) ==
    \/ obj = Absent /\ Stay /\ Answer(none, none)
    \/ obj = OtherType /\ Stay /\ Answer(<<"wrongtype">>, <<"wrongtype">>)

zremCommand(members) ==
    \/ NoZset(<<"int", 0>>)
    \/ /\ IsZset(obj)
       /\ \E r \in {RemMembers(obj, members, 0)}, gone \in {ToSet(members) \cap DOMAIN ref} :
              /\ obj' = r.o /\ ref' = Without(ref, gone)
              /\ Answer(<<"int", r.n>>, <<"int", Cardinality(gone)>>)

\* Index arguments count from the end when negative; <<>> when empty.
Sanitize(start, end, llen) ==
    LET s0 == IF start < 0 THEN llen + start ELSE start
        s == IF s0 < 0 THEN 0 ELSE s0
        e == IF end < 0 THEN llen + end ELSE end
    IN  IF s > e \/ s >= llen THEN <<>> ELSE <<s, IF e >= llen THEN llen - 1 ELSE e>>

\* What is left of a range deletion; the dict loses what the list loses.
AfterRange(kind, range) ==
    LET w == Sanitize(range.min, range.max, zsetLength(obj))
        left == CASE kind = "rank" -> IF w = <<>> THEN obj.zl ELSE zzlDeleteRangeByRank(obj.zl, w[1] + 1, w[2] + 1)
                  [] kind = "score" -> zzlDeleteRangeByScore(obj.zl, range)
                  [] kind = "lex" -> zzlDeleteRangeByLex(obj.zl, range)
        zsl == CASE kind = "rank" -> IF w = <<>> THEN obj.zsl ELSE zslDeleteRangeByRank(obj.zsl, w[1] + 1, w[2] + 1)
                 [] kind = "score" -> zslDeleteRangeByScore(obj.zsl, range)
                 [] kind = "lex" -> zslDeleteRangeByLex(obj.zsl, range)
    IN  IF obj.enc = "ziplist" THEN Ziplist(left)
        ELSE SkipDict(zsl, Without(obj.dict, Nodes(obj.zsl) \ Nodes(zsl)))

InRange(kind, range) ==
    LET s == Ranked(ref)
        w == Sanitize(range.min, range.max, Len(s))
    IN  CASE kind = "rank" -> IF w = <<>> THEN {} ELSE {s[i] : i \in w[1] + 1 .. w[2] + 1}
          [] kind = "score" -> {e \in DOMAIN ref : zslValueGteMin(ref[e], range) /\ zslValueLteMax(ref[e], range)}
          [] kind = "lex" -> {e \in DOMAIN ref : zslValueGteMin(e, range) /\ zslValueLteMax(e, range)}

\* A range by element is defined only when all scores are equal.
zremrangeGenericCommand(kind, range) ==
    \/ NoZset(<<"int", 0>>)
    \/ /\ IsZset(obj)
       /\ kind = "lex" => \A d, e \in DOMAIN ref : ref[d] = ref[e]
       /\ \E o \in {AfterRange(kind, range)}, gone \in {InRange(kind, range)} :
              /\ obj' = IF zsetLength(o) = 0 THEN Absent ELSE o
              /\ ref' = Without(ref, gone)
              /\ Answer(<<"int", zsetLength(obj) - zsetLength(o)>>, <<"int", Cardinality(gone)>>)

\* DEL, and SET of a string over the key: the keyspace's commands.
delCommand == obj # Absent /\ obj' = Absent /\ ref' = EmptyRef /\ Answer(<<"ok">>, <<"ok">>)
setCommand == obj = Absent /\ obj' = OtherType /\ ref' = EmptyRef /\ Answer(<<"ok">>, <<"ok">>)

\* zslRandomLevel for the elements a ZADD may insert into a skip list.
LevelsFor(pairs) ==
    [IF obj.enc = "skiplist" THEN {pairs[i].ele : i \in DOMAIN pairs} ELSE Eles
       -> 1 .. ZSKIPLIST_MAXLEVEL]

Ranges(S) == [min : S, max : S, minex : BOOLEAN, maxex : BOOLEAN]
LexEnds == Eles \cup {0, 1 + Cardinality(Eles)}
RangesOf ==
    [kind : {"score"}, range : Ranges(Scores)]
    \cup [kind : {"lex"}, range : Ranges(LexEnds)]
    \cup [kind : {"rank"}, range : [min : -3 .. 2, max : -3 .. 2]]

Next ==
    \/ \E a \in Adds : \E levels \in LevelsFor(a.pairs) : zaddGenericCommand(a.pairs, a.opt, levels)
    \/ \E members \in Rems : zremCommand(members)
    \/ \E q \in RangesOf : zremrangeGenericCommand(q.kind, q.range)
    \/ delCommand
    \/ setCommand

Spec == Init /\ [][Next]_vars

-----------------------------------------------------------------------------
(* The read commands, over a sorted set o; a reply is a sequence of pairs. *)

\* The pairs from a node (skip list) or an index (ziplist) on, in a direction.
Onward(o, x, reverse) ==
    IF x = (IF o.enc = "ziplist" THEN 0 ELSE Nil) THEN <<>>
    ELSE IF o.enc = "ziplist"
    THEN IF reverse THEN Reverse(SubSeq(o.zl, 1, x)) ELSE SubSeq(o.zl, x, Len(o.zl))
    ELSE LET s == IF reverse THEN BackwardFrom(o.zsl, x) ELSE ForwardFrom(o.zsl, x)
         IN  [i \in DOMAIN s |-> Pair(s[i], Score(o.zsl, s[i]))]

Take(s, n) == SubSeq(s, 1, IF n < Len(s) THEN n ELSE Len(s))

\* The announced length and the pairs sent.
zrangeGenericCommand(o, start, end, reverse) ==
    LET llen == zsetLength(o)
        w == Sanitize(start, end, llen)
        zlstart == IF reverse THEN llen - w[1] ELSE w[1] + 1
        zslstart == IF w[1] > 0
                    THEN zslGetElementByRank(o.zsl, IF reverse THEN llen - w[1] ELSE w[1] + 1)
                    ELSE IF reverse THEN o.zsl.tail ELSE First(o.zsl)
        n == w[2] - w[1] + 1
    IN  IF w = <<>> THEN <<0, <<>>>>
        ELSE <<n, Take(Onward(o, IF o.enc = "ziplist" THEN zlstart ELSE zslstart, reverse), n)>>

\* A negative offset runs off the end; a negative limit is no limit.
genericZrangebyscoreCommand(o, range, reverse, offset, limit) ==
    LET x == IF o.enc = "ziplist"
             THEN IF reverse THEN zzlLastInRange(o.zl, range) ELSE zzlFirstInRange(o.zl, range)
             ELSE IF reverse THEN zslLastInRange(o.zsl, range) ELSE zslFirstInRange(o.zsl, range)
        s == Onward(o, x, reverse)
        rest == IF offset < 0 THEN <<>> ELSE SubSeq(s, offset + 1, Len(s))
        ok(p) == IF reverse THEN zslValueGteMin(p.score, range) ELSE zslValueLteMax(p.score, range)
        sent == {i \in 0 .. Len(rest) : (limit < 0 \/ i <= limit) /\ \A j \in 1 .. i : ok(rest[j])}
    IN  Take(rest, Max(sent))

zcardCommand(o) == IF o = Absent THEN 0 ELSE zsetLength(o)
zscoreCommand(o, ele) == IF o = Absent THEN None ELSE zsetScore(o, ele)

zcountCommand(o, range) ==
    LET first == zslFirstInRange(o.zsl, range)
        last == zslLastInRange(o.zsl, range)
        rank(n) == zslGetRank(o.zsl, Score(o.zsl, n), n)
        upto == o.zsl.length - (rank(first) - 1)
    IN  IF o.enc = "ziplist"
        THEN Len(genericZrangebyscoreCommand(o, range, FALSE, 0, -1))
        ELSE IF first = Nil THEN 0
        ELSE IF last = Nil THEN upto ELSE upto - (o.zsl.length - rank(last))

\* The rank from 0 in the given direction, Nil when there is no such element.
zrankGenericCommand(o, ele, reverse) ==
    LET rank == IF o.enc = "ziplist" THEN zzlFind(o.zl, ele)
                ELSE IF ele \in DOMAIN o.dict THEN zslGetRank(o.zsl, o.dict[ele], ele) ELSE 0
    IN  IF rank = 0 THEN Nil ELSE IF reverse THEN zsetLength(o) - rank ELSE rank - 1

-----------------------------------------------------------------------------
(* Properties.                                                             *)

\* The key holds exactly the sorted set its commands made, in either encoding:
\* the ziplist is in order, the skip list is coherent and its dict points at the
\* same scores, no empty sorted set stays behind (vr_t_zset.c:1406, 1430, 1519,
\* 1537), a ziplist is within its limits (vr_t_zset.c:1297-1300), and every write
\* sent the reply it owed.
ZsetIsRef ==
    /\ agree
    /\ obj.enc \in {"none", "other"} => ref = EmptyRef
    /\ obj.enc = "ziplist" =>
          /\ obj.zl = [i \in DOMAIN Ranked(ref) |-> Pair(Ranked(ref)[i], ref[Ranked(ref)[i]])]
          /\ obj.zl # <<>> /\ Len(obj.zl) <= MaxEntries /\ DOMAIN ref \cap LongEles = {}
    /\ obj.enc = "skiplist" =>
          /\ obj.dict = ref /\ ref # EmptyRef
          /\ Coherent(obj.zsl)
          /\ ForwardFrom(obj.zsl, First(obj.zsl)) = Ranked(ref)
          /\ \A e \in DOMAIN ref : Score(obj.zsl, e) = ref[e]

\* Every read of the sorted set, by index, by score, by element, forwards and
\* backwards, counts and lists what the reference says (vr_t_zset.c:2130-2939):
\* the announced length is the number of pairs sent, and the counts ZCOUNT gets
\* from two ranks are those of the elements in range.
ReadsAgree ==
    LET s == Ranked(ref)
        dir(r, t) == IF r THEN Reverse(t) ELSE t
        pairs(t) == [i \in DOMAIN t |-> Pair(t[i], ref[t[i]])]
        within(range) == SelectSeq(s, LAMBDA e : e \in InRange("score", range))
    IN  IsZset(obj) =>
        /\ \A start, end \in -2 .. 2, r \in BOOLEAN :
              LET w == Sanitize(start, end, Len(s))
                  t == IF w = <<>> THEN <<>> ELSE SubSeq(dir(r, s), w[1] + 1, w[2] + 1)
              IN  zrangeGenericCommand(obj, start, end, r) = <<Len(t), pairs(t)>>
        /\ \A range \in Ranges(Scores), r \in BOOLEAN :
              LET t == pairs(dir(r, within(range)))
              IN  /\ genericZrangebyscoreCommand(obj, range, r, 0, -1) = t
                  /\ genericZrangebyscoreCommand(obj, range, r, 1, 1) = SubSeq(t, 2, 2 - (IF Len(t) < 2 THEN 1 ELSE 0))
                  /\ genericZrangebyscoreCommand(obj, range, r, -1, -1) = <<>>
                  /\ zcountCommand(obj, range) = Len(t)
        /\ \A e \in Eles, r \in BOOLEAN :
              /\ zscoreCommand(obj, e) = IF e \in DOMAIN ref THEN ref[e] ELSE None
              /\ zcardCommand(obj) = Len(s)
              /\ LET at == zrankGenericCommand(obj, e, r)
                 IN  IF e \in DOMAIN ref THEN dir(r, s)[at + 1] = e ELSE at = Nil
=============================================================================
