------------------------------- MODULE SetOps -------------------------------
(***************************************************************************)
(* SINTER, SUNION, SDIFF and their STORE forms (src/src/vr_t_set.c) while  *)
(* other workers write.  A command takes the lock of one internal database *)
(* at a time, so it never sees all its keys at one instant: a step is what *)
(* it does under one lock.  db[k] is the set at a key, {} when there is    *)
(* none and Other when the key holds another type (what a set looks like   *)
(* in memory is the matter of SetType); cmd is the command in progress;    *)
(* seen[k] is every value the key has had since the command began.         *)
(***************************************************************************)
EXTENDS Integers, Sequences, FiniteSets, FiniteSetsExt

CONSTANTS
    Elems,         \* the elements, numbers from 1 on
    Values,        \* the sets a key may hold
    Sources,       \* the sequences of keys commands name
    Dsts,          \* the target keys of the STORE forms; "none" for the others
    MaxWrites      \* how many writes by others a command meets at most

VARIABLES db, cmd, seen

vars == <<db, cmd, seen>>

Other == {0}
Keys == DOMAIN db
Idle == [pc |-> "idle"]

Init == /\ db \in [UNION {{s[i] : i \in DOMAIN s} : s \in Sources} -> Values \cup {{}, Other}]
        /\ cmd = Idle /\ seen = [k \in Keys |-> {}]

\* The key the command is at, and its value.
Cur == db[cmd.keys[cmd.j]]
NoKey == Cur = {}
WrongType == Cur = Other
ASet == ~NoKey /\ ~WrongType

Go(c) == cmd' = c /\ UNCHANGED <<db, seen>>
Fail == Go([cmd EXCEPT !.pc = "done", !.err = TRUE])
\* On to the next key, or to pc after the last one.
NextKey(c, pc) == IF c.j = Len(c.keys) THEN [c EXCEPT !.pc = pc, !.j = 1] ELSE [c EXCEPT !.j = @ + 1]

Begin(op, keys, dst) ==
    /\ cmd.pc = "idle"
    /\ cmd' = [pc |-> IF op = "inter" THEN "isizes" ELSE "sizes", op |-> op, keys |-> keys, dst |-> dst,
               j |-> 1, min |-> 0, len |-> 0, one |-> 0, two |-> 0, algo |-> 1,
               todo |-> {}, acc |-> {}, card |-> 0, err |-> FALSE, writes |-> 0]
    /\ seen' = [k \in Keys |-> {db[k]}]
    /\ UNCHANGED db

-----------------------------------------------------------------------------
(* sinterGenericCommand: sizes, a copy of the smallest set, one test per    *)
(* element and key.                                                         *)

InterSizes ==
    /\ cmd.pc = "isizes"
    /\ \/ NoKey /\ Go([cmd EXCEPT !.pc = "store"])
       \/ WrongType /\ Fail
       \/ /\ ASet
          /\ LET less == cmd.min = 0 \/ Cardinality(Cur) < cmd.len
                 c == [cmd EXCEPT !.min = IF less THEN cmd.j ELSE @, !.len = IF less THEN Cardinality(Cur) ELSE @]
             IN  Go(IF c.j = Len(c.keys) THEN [c EXCEPT !.pc = "icopy", !.j = c.min] ELSE [c EXCEPT !.j = @ + 1])

\* The next key to test an element against: the smallest set is passed over.
SkipMin(j) == IF j = cmd.min THEN j + 1 ELSE j

InterCopy ==
    /\ cmd.pc = "icopy"
    /\ \/ NoKey /\ Go([cmd EXCEPT !.pc = "store"])
       \/ WrongType /\ Fail
       \/ ASet /\ Go([cmd EXCEPT !.pc = "itest", !.todo = Cur, !.j = SkipMin(1)])

NextEle(c) == [c EXCEPT !.todo = @ \ {Min(@)}, !.j = SkipMin(1)]
Accept(c) == [c EXCEPT !.acc = @ \cup {Min(c.todo)}, !.card = @ + 1]

\* A mutant that keeps the element when a set lacks it.
InterTestLast ==
    /\ cmd.pc = "itest"
    /\ \/ cmd.todo = {} /\ Go([cmd EXCEPT !.pc = "store"])
       \/ cmd.todo # {} /\ cmd.j > Len(cmd.keys) /\ Go(NextEle(Accept(cmd)))
       \/ /\ cmd.todo # {} /\ cmd.j <= Len(cmd.keys)
          /\ Go([cmd EXCEPT !.j = SkipMin(@ + 1)])

\* A key that has vanished ends the command without elements.
InterTest ==
    /\ cmd.pc = "itest"
    /\ \/ cmd.todo = {} /\ Go([cmd EXCEPT !.pc = "store"])
       \/ cmd.todo # {} /\ cmd.j > Len(cmd.keys) /\ Go(NextEle(Accept(cmd)))
       \/ /\ cmd.todo # {} /\ cmd.j <= Len(cmd.keys)
          /\ \/ NoKey /\ Go([cmd EXCEPT !.pc = "store", !.acc = {}])
             \/ WrongType /\ Fail
             \/ ASet /\ Min(cmd.todo) \notin Cur /\ Go(NextEle(cmd))
             \/ ASet /\ Min(cmd.todo) \in Cur /\ Go([cmd EXCEPT !.j = SkipMin(@ + 1)])

-----------------------------------------------------------------------------
(* sunionDiffGenericCommand.                                               *)

\* The work either algorithm of SDIFF would do, one key at a time.
Sizes ==
    /\ cmd.pc = "sizes"
    /\ \/ WrongType /\ Fail
       \/ /\ ~WrongType
          /\ LET len == IF cmd.j = 1 THEN Cardinality(Cur) ELSE cmd.len
                 c == IF NoKey THEN cmd
                      ELSE [cmd EXCEPT !.len = len, !.one = @ + len, !.two = @ + Cardinality(Cur)]
                 algo == IF c.op = "diff" /\ c.one \div 2 > c.two THEN 2 ELSE 1
             IN  Go(NextKey([c EXCEPT !.algo = algo],
                            IF c.op = "union" THEN "union" ELSE IF algo = 1 THEN "dcopy" ELSE "diff2"))

Union ==
    /\ cmd.pc = "union"
    /\ \/ WrongType /\ Fail
       \/ ~WrongType /\ Go(NextKey([cmd EXCEPT !.acc = @ \cup Cur, !.card = Cardinality(cmd.acc \cup Cur)], "store"))

DiffCopy ==
    /\ cmd.pc = "dcopy"
    /\ \/ NoKey /\ Go([cmd EXCEPT !.pc = "store"])
       \/ WrongType /\ Fail
       \/ ASet /\ Go([cmd EXCEPT !.pc = "dtest", !.todo = Cur, !.j = 2])

NextDiff(c) == [c EXCEPT !.todo = @ \ {Min(@)}, !.j = 2]

DiffTest ==
    /\ cmd.pc = "dtest"
    /\ \/ cmd.todo = {} /\ Go([cmd EXCEPT !.pc = "store"])
       \/ cmd.todo # {} /\ cmd.j > Len(cmd.keys) /\ Go(NextDiff(Accept(cmd)))
       \/ /\ cmd.todo # {} /\ cmd.j <= Len(cmd.keys)
          /\ \/ WrongType /\ Fail
             \/ Min(cmd.todo) \in Cur /\ Go(NextDiff(cmd))
             \/ ~WrongType /\ Min(cmd.todo) \notin Cur /\ Go([cmd EXCEPT !.j = @ + 1])

\* Algorithm 2 reads the first key for every j.
DiffTwo ==
    LET first == db[cmd.keys[1]]
        acc == IF cmd.j = 1 THEN first ELSE cmd.acc \ first
        c == [cmd EXCEPT !.acc = acc, !.card = Cardinality(acc)]
    IN  /\ cmd.pc = "diff2"
        /\ \/ first = Other /\ Fail
           \/ first = {} /\ cmd.j = 1 /\ Go([cmd EXCEPT !.pc = "store"])
           \/ first = {} /\ cmd.j > 1 /\ Go(NextKey(cmd, "store"))
           \/ /\ first \notin {{}, Other}
              /\ Go(IF c.card = 0 THEN [c EXCEPT !.pc = "store"] ELSE NextKey(c, "store"))

\* done: the reply, or the target key, replaced whatever it held.
Store ==
    /\ cmd.pc = "store"
    /\ cmd' = [cmd EXCEPT !.pc = "done"]
    /\ db' = IF cmd.dst = "none" THEN db ELSE [db EXCEPT ![cmd.dst] = cmd.acc]
    /\ UNCHANGED seen

Write(k, v) ==
    /\ cmd.pc \notin {"idle", "done"} /\ cmd.writes < MaxWrites /\ v # db[k]
    /\ db' = [db EXCEPT ![k] = v]
    /\ cmd' = [cmd EXCEPT !.writes = @ + 1]
    /\ seen' = [seen EXCEPT ![k] = @ \cup {v}]

Reset == cmd.pc = "done" /\ cmd' = Idle /\ seen' = [k \in Keys |-> {}] /\ UNCHANGED db

Next ==
    \/ \E op \in {"inter", "union", "diff"}, keys \in Sources, dst \in Dsts : Begin(op, keys, dst)
    \/ InterSizes \/ InterCopy \/ InterTest
    \/ Sizes \/ Union \/ DiffCopy \/ DiffTest \/ DiffTwo
    \/ Store
    \/ \E k \in Keys, v \in Values \cup {{}, Other} : Write(k, v)
    \/ Reset

Spec == Init /\ [][Next]_vars

-----------------------------------------------------------------------------
Held(k) == {v \ {0} : v \in seen[k]}
Ever(k) == UNION Held(k)
Always(k) == {e \in Elems : \A v \in Held(k) : e \in v}
Replied == cmd.pc = "done" /\ ~cmd.err
OtherKeys == {cmd.keys[i] : i \in 2 .. Len(cmd.keys)}
AllKeys == {cmd.keys[i] : i \in DOMAIN cmd.keys}

\* Without the lock of all its keys a set command still answers something a
\* reader can rely on: an element it returns was in the sets that must have it
\* at some instant of the command, and out of those that must not; an element
\* that qualified throughout is returned; the multi-bulk length announced is
\* the number of elements sent, and the STORE forms store just that.  Stated
\* for SDIFF's algorithm 1, and for SINTER while no source key vanishes
\* (vr_t_set.c:941 then drops the elements and keeps the count).
SetOpAnswers ==
    Replied =>
      /\ cmd.op = "union" => /\ UNION {Always(k) : k \in AllKeys} \subseteq cmd.acc
                             /\ cmd.acc \subseteq UNION {Ever(k) : k \in AllKeys}
      /\ cmd.op = "inter" => \/ \E k \in AllKeys : {} \in seen[k]
                             \/ /\ {e \in Elems : \A k \in AllKeys : e \in Always(k)} \subseteq cmd.acc
                                /\ \A k \in AllKeys : cmd.acc \subseteq Ever(k)
                                /\ cmd.card = Cardinality(cmd.acc)
      /\ cmd.op = "diff" /\ cmd.algo = 1 =>
           /\ Always(cmd.keys[1]) \ UNION {Ever(k) : k \in OtherKeys} \subseteq cmd.acc
           /\ cmd.acc \subseteq Ever(cmd.keys[1]) \ UNION {Always(k) : k \in OtherKeys}
      /\ cmd.op # "inter" => cmd.card = Cardinality(cmd.acc)
      /\ cmd.dst # "none" => db[cmd.dst] = cmd.acc

\* "Add all the elements of the first set to the auxiliary set. Then remove all
\* the elements of all the next sets from it" (the comment on algorithm 2 of
\* SDIFF, vr_t_set.c:1226): an element that stays in the first set and is never
\* in a next one is returned.
DiffTwoAnswers ==
    Replied /\ cmd.op = "diff" /\ cmd.algo = 2 =>
      Always(cmd.keys[1]) \ UNION {Ever(k) : k \in OtherKeys} \subseteq cmd.acc
=============================================================================
