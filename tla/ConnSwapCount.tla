---------------------------- MODULE ConnSwapCount ----------------------------
(***************************************************************************)
(* Proofs that ncurr_cconn bounds the open connections by maxclients, and, *)
(* from that bound, that the bytes on a socketpair never fall out of step  *)
(* with the units on the csul.                                             *)
(***************************************************************************)
EXTENDS ConnSwapProofs

\* Cardinalities of sets of connections.
LEMMA ConnsFinite ==
  ASSUME NEW S \in SUBSET Conns
  PROVE  IsFiniteSet(S) /\ Cardinality(S) \in Nat
BY FS_Subset, FS_CardinalityType, ConstantsAssumption

\* Freeing clients gives back as many places as there were clients.
LEMMA FreeCard ==
  ASSUME NEW S \in SUBSET Conns, NEW F \in SUBSET S
  PROVE  Cardinality(S \ F) = Cardinality(S) - Cardinality(F)
<1>1. S \cap F = F
  OBVIOUS
<1> QED BY ZenonT(40), <1>1, ConnsFinite, FS_Difference

\* Settle takes the clients it frees out of Open and out of the counter.
LEMMA SettleCount ==
  ASSUME TypeOK, TypeOK', NEW w \in Worker, NEW c \in Conns, NEW K \in SUBSET clients[w],
         NEW how \in {"stay", "jump", "free"}, Settle(w, c, K, how),
         LinkedFit, phase[c] = "live",
         UNCHANGED master, CounterCoversOpen
  PROVE  CounterCoversOpen'
<1> DEFINE freed == IF how = "free" THEN K \cup {c} ELSE K
<1>1. PICK F : F = freed
  BY Zenon
<1>2. F \subseteq Open
  BY ZenonT(40), <1>1 DEF Open, LinkedFit, TypeOK
<1>3. /\ phase' = [x \in Conns |-> IF x \in F THEN "none" ELSE phase[x]]
      /\ ncurr' = ncurr - Cardinality(F)
  BY <1>1 DEF Settle
<1> HIDE DEF freed
<1>4. Open' = Open \ F
  BY <1>3 DEF Open
<1>5. Open \in SUBSET Conns
  BY DEF Open
<1>6. /\ Cardinality(Open') = Cardinality(Open) - Cardinality(F)
      /\ Cardinality(Open) \in Nat /\ Cardinality(F) \in Nat
  BY <1>2, <1>4, <1>5, FreeCard, ConnsFinite
<1>7. Uncounted' = Uncounted /\ Uncounted \in {0, 1}
  BY DEF Uncounted
<1>8. ncurr \in Int /\ MaxClients \in Nat
  BY ConstantsAssumption DEF TypeOK
<1> QED BY <1>3, <1>6, <1>7, <1>8 DEF CounterCoversOpen

\* maxclients bounds the open connections in every reachable state, although
\* the master counts a socket only after it has handed it to a worker that may
\* have closed it by then.
THEOREM CounterCorrect == Spec => []CounterCoversOpen
<1>1. Init => CounterCoversOpen
  <2> SUFFICES ASSUME Init PROVE CounterCoversOpen
    OBVIOUS
  <2>1. Open = {} /\ Uncounted = 0 /\ ncurr = 0
    BY DEF Init, Open, Uncounted, Idle
  <2> QED BY <2>1, FS_EmptySet, ConstantsAssumption DEF CounterCoversOpen
<1>2. TypeOK /\ TypeOK' /\ OwnerInv /\ CounterCoversOpen /\ [Next]_vars => CounterCoversOpen'
  <2> SUFFICES ASSUME TypeOK, TypeOK', OwnerInv, CounterCoversOpen, [Next]_vars
               PROVE  CounterCoversOpen'
    OBVIOUS
  <2>0. /\ LinkedFit /\ QueuedFit
        /\ Open \in SUBSET Conns /\ IsFiniteSet(Open) /\ Cardinality(Open) \in Nat
        /\ ncurr \in Int /\ ncurr' \in Int /\ MaxClients \in Nat
        /\ Uncounted \in {0, 1} /\ Uncounted' \in {0, 1}
    <3>1. Open \in SUBSET Conns
      BY DEF Open
    <3> QED BY Zenon, <3>1, ConnsFinite, ConstantsAssumption DEF TypeOK, OwnerInv, Uncounted
  <2>1. ASSUME UNCHANGED <<phase, ncurr>>, Uncounted' = Uncounted PROVE CounterCoversOpen'
    BY <2>0, <2>1 DEF CounterCoversOpen, Open
  <2>2. ASSUME NEW c \in Conns, Accept(c) PROVE CounterCoversOpen'
    <3>1. /\ phase[c] = "none" /\ phase' = [phase EXCEPT ![c] = "sock"]
          /\ ncurr' = ncurr /\ ncurr < MaxClients
          /\ master = Idle /\ master'.at = "noticeNew"
      BY <2>2 DEF Accept
    <3>1a. \A x \in Conns : phase'[x] = IF x = c THEN "sock" ELSE phase[x]
      BY <3>1 DEF TypeOK
    <3>2. Open' = Open \cup {c} /\ c \notin Open
      BY <3>1, <3>1a DEF Open
    <3>3. Cardinality(Open') = Cardinality(Open) + 1
      BY <2>0, <3>2, FS_AddElement
    <3>4. Uncounted = 0 /\ Uncounted' = 1
      BY <3>1 DEF Uncounted, Idle
    <3> QED BY <2>0, <3>1, <3>3, <3>4 DEF CounterCoversOpen
  <2>3. ASSUME NoticeNew PROVE CounterCoversOpen'
    <3>1. master'.at = "count" /\ master.at = "noticeNew"
      BY <2>3 DEF NoticeNew, TypeOK
    <3> QED BY <2>1, <2>3, <3>1 DEF NoticeNew, Uncounted, clientVars
  <2>4. ASSUME CountNew PROVE CounterCoversOpen'
    <3>1. /\ master.at = "count" /\ master'.at = "idle"
          /\ ncurr' = ncurr + 1 /\ phase' = phase
      BY <2>4 DEF CountNew, Idle, clientVars
    <3>2. Uncounted = 1 /\ Uncounted' = 0 /\ Open' = Open
      BY <3>1 DEF Uncounted, Open
    <3> QED BY <2>0, <3>1, <3>2 DEF CounterCoversOpen
  <2>5. ASSUME NEW w \in Worker, MasterBack(w) PROVE CounterCoversOpen'
    <3>1. master = Idle /\ (master' = master \/ master'.at = "noticeJump")
      BY <2>5 DEF MasterBack
    <3> QED BY <2>1, <2>5, <3>1 DEF MasterBack, Uncounted, Idle, clientVars
  <2>6. ASSUME NoticeJump PROVE CounterCoversOpen'
    BY <2>1, <2>6 DEF NoticeJump, Uncounted, Idle, clientVars
  <2>7. ASSUME NEW w \in Worker, ReadQuery(w) PROVE CounterCoversOpen'
    <3>0. PICK c \in clients[w] : \E K \in SUBSET (clients[w] \ {c}) :
            \E how \in AfterCommand : Settle(w, c, K, how)
      BY <2>7 DEF ReadQuery
    <3>1. PICK K \in SUBSET (clients[w] \ {c}), how \in AfterCommand : Settle(w, c, K, how)
      BY <3>0
    <3>2. c \in Conns /\ phase[c] = "live" /\ K \in SUBSET clients[w]
      BY <2>0 DEF LinkedFit, TypeOK
    <3>3. how \in {"stay", "jump", "free"} /\ UNCHANGED master
      BY <2>7 DEF AfterCommand, ReadQuery, masterVars
    <3> QED BY <2>0, <3>1, <3>2, <3>3, SettleCount
  <2>8. ASSUME NEW w \in Worker, CloseClient(w) PROVE CounterCoversOpen'
    <3>1. PICK c \in clients[w] : Settle(w, c, {}, "free")
      BY <2>8 DEF CloseClient
    <3>2. c \in Conns /\ phase[c] = "live" /\ UNCHANGED master
      BY <2>0, <2>8 DEF LinkedFit, TypeOK, CloseClient, masterVars
    <3> QED BY <2>0, <3>1, <3>2, SettleCount
  <2>9. ASSUME NEW w \in Worker, WorkerNew(w) PROVE CounterCoversOpen'
    <3>0. master' = master /\ Uncounted' = Uncounted
      BY <2>9 DEF WorkerNew, masterVars, Uncounted
    <3>1. CASE csul[w] = <<>>
      BY <2>1, <2>9, <3>0, <3>1 DEF WorkerNew, clientVars
    <3>2. CASE csul[w] # <<>>
      <4>0. PICK c : c = Head(csul[w]).conn
        OBVIOUS
      <4>1. 1 \in 1 .. Len(csul[w]) /\ Head(csul[w]) = csul[w][1]
        BY <3>2, TailAt DEF TypeOK
      <4>2. c \in Conns /\ (Head(csul[w]).kind = "c" => phase[c] = "sock")
        BY <2>0, <4>0, <4>1, UnitTypes DEF QueuedFit, UnitFits
      <4>3. \/ UNCHANGED <<phase, ncurr>>
            \/ /\ Head(csul[w]).kind = "c"
               /\ phase' = [phase EXCEPT ![c] = "live"] /\ ncurr' = ncurr
            \/ /\ Head(csul[w]).kind = "c"
               /\ phase' = [phase EXCEPT ![c] = "none"]
               /\ ncurr' = ncurr - 1 \/ (AllocFail /\ ncurr' = ncurr)
        BY <2>9, <3>2, <4>0 DEF WorkerNew, clientVars
      <4>4. CASE Head(csul[w]).kind = "c" /\ phase' = [phase EXCEPT ![c] = "live"] /\ ncurr' = ncurr
        <5>1. Open' = Open
          BY Zenon, <4>2, <4>4 DEF Open, TypeOK
        <5> QED BY <2>0, <3>0, <4>4, <5>1 DEF CounterCoversOpen
      <4>5. CASE /\ Head(csul[w]).kind = "c"
                 /\ phase' = [phase EXCEPT ![c] = "none"]
                 /\ ncurr' = ncurr - 1 \/ (AllocFail /\ ncurr' = ncurr)
        <5>1. Open' = Open \ {c} /\ c \in Open
          BY Zenon, <4>2, <4>5 DEF Open, TypeOK
        <5>2. Cardinality(Open') = Cardinality(Open) - 1
          BY Zenon, <2>0, <5>1, FS_RemoveElement
        <5>3. CASE ncurr' = ncurr - 1
          BY <2>0, <3>0, <5>2, <5>3 DEF CounterCoversOpen
        <5>4. CASE AllocFail /\ ncurr' = ncurr
          <6>1. Cardinality(Open') <= ncurr' + Uncounted' /\ ncurr' + Uncounted' <= MaxClients
            BY <2>0, <3>0, <5>2, <5>4 DEF CounterCoversOpen
          <6> QED BY <5>4, <6>1 DEF CounterCoversOpen
        <5> QED BY <4>5, <5>3, <5>4
      <4> QED BY <2>1, <3>0, <4>3, <4>4, <4>5
    <3> QED BY <3>1, <3>2
  <2>10. ASSUME NEW w \in Worker, WorkerJump(w) PROVE CounterCoversOpen'
    <3>0. master' = master /\ Uncounted' = Uncounted
      BY <2>10 DEF WorkerJump, masterVars, Uncounted
    <3>1. CASE csul[w] = <<>>
      BY <2>1, <2>10, <3>0, <3>1 DEF WorkerJump, clientVars
    <3>2. CASE csul[w] # <<>>
      <4>0. PICK c : c = Head(csul[w]).conn
        OBVIOUS
      <4>1. 1 \in 1 .. Len(csul[w]) /\ Head(csul[w]) = csul[w][1]
        BY <3>2, TailAt DEF TypeOK
      <4>2. c \in Conns /\ (Head(csul[w]).kind = "j" => phase[c] = "live")
        BY <2>0, <4>0, <4>1, UnitTypes DEF QueuedFit, UnitFits
      <4>3. \/ UNCHANGED <<phase, ncurr>>
            \/ /\ Head(csul[w]).kind = "j"
               /\ \E K \in SUBSET clients[w] : \E how \in AfterCommand \cup {"jump", "free"} :
                    Settle(w, c, K, how)
        BY <2>10, <3>2, <4>0 DEF WorkerJump, clientVars
      <4>4. ASSUME Head(csul[w]).kind = "j", NEW K \in SUBSET clients[w],
                   NEW how \in AfterCommand \cup {"jump", "free"}, Settle(w, c, K, how)
            PROVE  CounterCoversOpen'
        <5>1. how \in {"stay", "jump", "free"}
          BY DEF AfterCommand
        <5>2. phase[c] = "live" /\ c \in Conns /\ LinkedFit /\ UNCHANGED master
          BY <2>0, <3>0, <4>2, <4>4
        <5> QED BY <4>4, <5>1, <5>2, SettleCount
      <4> QED BY <2>1, <3>0, <4>3, <4>4
    <3> QED BY <3>1, <3>2
  <2>11. ASSUME NEW w \in Worker, Announce(w) PROVE CounterCoversOpen'
    BY <2>1, <2>11 DEF Announce, clientVars, masterVars, Uncounted
  <2>12. CASE UNCHANGED vars
    BY <2>1, <2>12 DEF vars, Uncounted
  <2>13. CASE Master
    BY <2>2, <2>3, <2>4, <2>5, <2>6, <2>12, <2>13 DEF Master, Reject
  <2>14. ASSUME NEW w \in Worker, WorkerThread(w) PROVE CounterCoversOpen'
    BY <2>7, <2>8, <2>9, <2>10, <2>11, <2>14 DEF WorkerThread
  <2> QED BY <2>12, <2>13, <2>14 DEF Next, Aborted
<1> QED BY <1>1, <1>2, TypeCorrect, OwnerInvariant, PTL DEF Spec

-----------------------------------------------------------------------------
(***************************************************************************)
(* Bytes and units.  InStep(w) is what NoticesMatchUnits says of worker w. *)
(* It is kept because the byte for a unit always fits: the units on a csul *)
(* are for different open connections, and there are at most maxclients of *)
(* those.                                                                  *)
(***************************************************************************)

InStep(w) ==
  /\ Len(csul[w]) = Len(down[w]) + (IF Unsent(w) THEN 1 ELSE 0)
  /\ \A i \in 1 .. Len(down[w]) : csul[w][i].kind = down[w][i]
  /\ Unsent(w) => csul[w][Len(csul[w])].kind =
                    (IF master.at = "noticeNew" THEN "c" ELSE "j")

\* There are no more units on a csul than open connections.
LEMMA QueueBounded ==
  ASSUME TypeOK, OwnerInv, NEW w \in Worker
  PROVE  Len(csul[w]) \in Nat /\ Len(csul[w]) <= Cardinality(Open)
<1> DEFINE n == Len(csul[w])
           f == [i \in 1 .. n |-> csul[w][i].conn]
<1>1. n \in Nat
  BY DEF TypeOK
<1>2. \A i \in 1 .. n : csul[w][i].conn \in Open
  BY UnitTypes DEF OwnerInv, QueuedFit, UnitFits, Open, Kind
<1>3. \A i, j \in 1 .. n : csul[w][i].conn = csul[w][j].conn => i = j
  BY DEF OwnerInv, QueuedOnce
<1>4. f \in Injection(1 .. n, Open)
  BY <1>2, <1>3 DEF Injection, IsInjective
<1>5. Open \in SUBSET Conns
  BY DEF Open
<1>6. IsFiniteSet(Open)
  BY <1>5, ConnsFinite
<1> HIDE DEF f
<1>7. Cardinality(1 .. n) <= Cardinality(Open)
  BY <1>4, <1>6, FS_Injection
<1> HIDE DEF n
<1>8. Cardinality(1 .. n) = n
  BY <1>1, FS_Interval
<1>9. n <= Cardinality(Open)
  BY <1>7, <1>8
<1> QED BY <1>1, <1>9 DEF n

\* csul_push by the master, which has then to write the unit's byte.
LEMMA PushInStep ==
  ASSUME TypeOK, \A x \in Worker : InStep(x), \A x \in Worker : ~Unsent(x),
         NEW t \in Worker, NEW u \in Unit, csul' = [csul EXCEPT ![t] = Append(@, u)],
         down' = down, NEW b \in {"noticeNew", "noticeJump"},
         master' = [at |-> b, w |-> t], u.kind = (IF b = "noticeNew" THEN "c" ELSE "j"),
         NEW v \in Worker
  PROVE  InStep(v)'
<1>1. csul[v] \in Seq(Unit) /\ down[v] \in Seq(Kind) /\ Len(down[v]) \in Nat
  BY DEF TypeOK
<1>2. Len(csul[v]) = Len(down[v]) /\ \A i \in 1 .. Len(down[v]) : csul[v][i].kind = down[v][i]
  <2>1. InStep(v) /\ ~Unsent(v)
    OBVIOUS
  <2> QED BY <1>1, <2>1 DEF InStep
<1>3. CASE v = t
  <2>1. csul'[v] = Append(csul[v], u)
    BY <1>3 DEF TypeOK
  <2>2. /\ Len(csul'[v]) = Len(csul[v]) + 1
        /\ \A i \in 1 .. Len(csul[v]) : csul'[v][i] = csul[v][i]
        /\ csul'[v][Len(csul[v]) + 1] = u
    BY <1>1, <2>1, AppendAt
  <2>3. Unsent(v)' /\ master'.at = b
    BY <1>3 DEF Unsent
  <2> QED BY <1>1, <1>2, <2>2, <2>3 DEF InStep
<1>4. CASE v # t
  <2>1. csul'[v] = csul[v]
    BY <1>4 DEF TypeOK
  <2>2. ~Unsent(v)'
    BY <1>4 DEF Unsent
  <2> QED BY Zenon, <1>1, <1>2, <2>1, <2>2 DEF InStep
<1> QED BY <1>3, <1>4

\* The master writes the byte of the unit it has pushed.
LEMMA WriteInStep ==
  ASSUME TypeOK, OwnerInv, CounterCoversOpen, Reliable,
         \A x \in Worker : InStep(x), UNCHANGED csul,
         master.at \in {"noticeNew", "noticeJump"}, NEW byte \in Kind,
         byte = (IF master.at = "noticeNew" THEN "c" ELSE "j"),
         down' = [down EXCEPT ![master.w] = WriteByte(@, byte)],
         master'.at \in {"count", "idle"}, NEW v \in Worker
  PROVE  InStep(v)'
<1>1. csul[v] \in Seq(Unit) /\ down[v] \in Seq(Kind) /\ Len(down[v]) \in Nat
  BY DEF TypeOK
<1>2. ~Unsent(v)'
  BY DEF Unsent
<1>3. CASE v = master.w
  <2>1. Unsent(v)
    BY <1>3 DEF Unsent
  <2>2. /\ Len(csul[v]) = Len(down[v]) + 1
        /\ \A i \in 1 .. Len(down[v]) : csul[v][i].kind = down[v][i]
        /\ csul[v][Len(down[v]) + 1].kind = byte
    BY Zenon, <1>1, <2>1 DEF InStep
  <2>3. Len(csul[v]) <= Cardinality(Open) /\ Cardinality(Open) <= MaxClients
    <3>1. Len(csul[v]) <= Cardinality(Open)
      BY QueueBounded
    <3>2. Open \in SUBSET Conns
      BY DEF Open
    <3>3. Cardinality(Open) \in Nat
      BY <3>2, ConnsFinite
    <3>4. ncurr \in Int /\ Uncounted \in Int /\ MaxClients \in Nat
      BY ConstantsAssumption DEF TypeOK, Uncounted
    <3> QED BY <3>1, <3>3, <3>4 DEF CounterCoversOpen
  <2>4. Cardinality(Open) \in Nat /\ MaxClients \in Nat /\ NoticeCap \in Nat /\ MaxClients <= NoticeCap
    <3>1. Open \in SUBSET Conns
      BY DEF Open
    <3> QED BY <3>1, ConnsFinite, ConstantsAssumption DEF Reliable
  <2>5. Len(down[v]) < NoticeCap
    BY <1>1, <2>2, <2>3, <2>4
  <2>6. down'[v] = Append(down[v], byte)
    BY <1>3, <2>5 DEF WriteByte, TypeOK
  <2>7. /\ Len(down'[v]) = Len(down[v]) + 1
        /\ \A i \in 1 .. Len(down[v]) : down'[v][i] = down[v][i]
        /\ down'[v][Len(down[v]) + 1] = byte
    BY <1>1, <2>6, AppendAt
  <2>8. \A i \in 1 .. Len(down'[v]) : csul[v][i].kind = down'[v][i]
    BY <1>1, <2>2, <2>7
  <2> QED BY <1>1, <1>2, <2>2, <2>7, <2>8 DEF InStep
<1>4. CASE v # master.w
  <2>1. down'[v] = down[v] /\ ~Unsent(v)
    BY <1>4 DEF TypeOK, Unsent
  <2> QED BY Zenon, <1>2, <2>1 DEF InStep
<1> QED BY <1>3, <1>4

\* Two queues that agree index by index still agree without their heads.
LEMMA TailsAgree ==
  ASSUME NEW q \in Seq(Unit), NEW d \in Seq(Kind), q # <<>>, d # <<>>,
         NEW k \in {0, 1}, Len(q) = Len(d) + k,
         \A i \in 1 .. Len(d) : q[i].kind = d[i]
  PROVE  /\ Len(Tail(q)) = Len(Tail(d)) + k
         /\ \A i \in 1 .. Len(Tail(d)) : Tail(q)[i].kind = Tail(d)[i]
         /\ k = 1 => Tail(q)[Len(Tail(q))] = q[Len(q)]
<1>1. /\ Len(Tail(q)) = Len(q) - 1 /\ Len(q) \in Nat \ {0}
      /\ \A i \in 1 .. Len(q) - 1 : Tail(q)[i] = q[i + 1]
  BY TailAt
<1>2. /\ Len(Tail(d)) = Len(d) - 1 /\ Len(d) \in Nat \ {0}
      /\ \A i \in 1 .. Len(d) - 1 : Tail(d)[i] = d[i + 1]
  BY TailAt
<1>3. ASSUME NEW i \in 1 .. Len(Tail(d)) PROVE Tail(q)[i].kind = Tail(d)[i]
  <2>1. i + 1 \in 1 .. Len(d) /\ i \in 1 .. Len(q) - 1 /\ i \in 1 .. Len(d) - 1
    BY <1>1, <1>2
  <2>2. q[i + 1].kind = d[i + 1]
    BY <2>1
  <2> QED BY <1>1, <1>2, <2>1, <2>2
<1>4. ASSUME k = 1 PROVE Tail(q)[Len(Tail(q))] = q[Len(q)]
  <2>1. Len(q) - 1 \in 1 .. Len(q) - 1 /\ Len(q) - 1 + 1 = Len(q)
    BY <1>1, <1>2, <1>4
  <2> QED BY <1>1, <2>1
<1> QED BY <1>1, <1>2, <1>3, <1>4

\* A worker that reads the first byte and pops the first unit.
LEMMA PopInStep ==
  ASSUME TypeOK, \A x \in Worker : InStep(x), NEW w \in Worker,
         down[w] # <<>>, down' = [down EXCEPT ![w] = Tail(@)],
         csul[w] # <<>>, csul' = [csul EXCEPT ![w] = Tail(@)],
         UNCHANGED master, NEW v \in Worker
  PROVE  InStep(v)'
<1>1. csul[v] \in Seq(Unit) /\ down[v] \in Seq(Kind) /\ InStep(v) /\ Unsent(v)' = Unsent(v)
  BY DEF TypeOK, Unsent
<1>2. CASE v = w
  <2>1. csul'[v] = Tail(csul[v]) /\ down'[v] = Tail(down[v])
    BY <1>2 DEF TypeOK
  <2>2. PICK k \in {0, 1} : k = IF Unsent(v) THEN 1 ELSE 0
    OBVIOUS
  <2>3. Len(csul[v]) = Len(down[v]) + k /\ \A i \in 1 .. Len(down[v]) : csul[v][i].kind = down[v][i]
    BY <1>1, <2>2 DEF InStep
  <2>4. /\ Len(csul'[v]) = Len(down'[v]) + k
        /\ \A i \in 1 .. Len(down'[v]) : csul'[v][i].kind = down'[v][i]
        /\ k = 1 => csul'[v][Len(csul'[v])] = csul[v][Len(csul[v])]
    <3>1. PICK q \in Seq(Unit) : q = csul[v]
      BY <1>1
    <3>2. PICK d \in Seq(Kind) : d = down[v]
      BY <1>1
    <3>3. q # <<>> /\ d # <<>>
      BY <1>2, <3>1, <3>2
    <3>4. /\ Len(Tail(q)) = Len(Tail(d)) + k
          /\ \A i \in 1 .. Len(Tail(d)) : Tail(q)[i].kind = Tail(d)[i]
          /\ k = 1 => Tail(q)[Len(Tail(q))] = q[Len(q)]
      BY <2>3, <3>1, <3>2, <3>3, TailsAgree
    <3> QED BY Zenon, <2>1, <3>1, <3>2, <3>4
  <2> QED BY Zenon, <1>1, <2>2, <2>4 DEF InStep
<1>3. CASE v # w
  <2>1. csul'[v] = csul[v] /\ down'[v] = down[v]
    BY <1>3 DEF TypeOK
  <2> QED BY Zenon, <1>1, <2>1 DEF InStep
<1> QED BY <1>2, <1>3

\* A step keeps every worker's bytes in step with its units.
LEMMA InStepNext ==
  ASSUME TypeOK, TypeOK', OwnerInv, CounterCoversOpen, Reliable,
         \A x \in Worker : InStep(x), [Next]_vars, NEW v \in Worker
  PROVE  InStep(v)'
<1>1. ASSUME UNCHANGED <<csul, down, master>> PROVE InStep(v)'
  BY Zenon, <1>1 DEF InStep, Unsent
<1>2. ASSUME NEW c \in Conns, Accept(c) PROVE InStep(v)'
  <2>1. PICK t \in Worker : t = (last + 1) % N
    BY TidType DEF TypeOK
  <2>2. PICK u \in Unit : u = [kind |-> "c", conn |-> c]
    BY Zenon DEF Unit, Kind
  <2>3. /\ csul' = [csul EXCEPT ![t] = Append(@, u)]
        /\ master' = [at |-> "noticeNew", w |-> t] /\ down' = down
    BY <1>2, <2>1, <2>2 DEF Accept
  <2>4. \A x \in Worker : ~Unsent(x)
    BY <1>2 DEF Accept, Idle, Unsent
  <2>5. u.kind = "c"
    BY <2>2
  <2> QED BY Zenon, <2>3, <2>4, <2>5, PushInStep
<1>3. ASSUME NoticeNew PROVE InStep(v)'
  <2>1. /\ UNCHANGED csul /\ master.at = "noticeNew" /\ master'.at = "count"
        /\ down' = [down EXCEPT ![master.w] = WriteByte(@, "c")]
    BY <1>3 DEF NoticeNew, TypeOK
  <2> QED BY <2>1, WriteInStep DEF Kind
<1>4. ASSUME CountNew PROVE InStep(v)'
  <2>1. UNCHANGED <<csul, down>> /\ ~Unsent(v) /\ ~Unsent(v)'
    BY <1>4 DEF CountNew, Unsent, Idle
  <2> QED BY Zenon, <2>1 DEF InStep
<1>5. ASSUME NEW w \in Worker, MasterBack(w) PROVE InStep(v)'
  <2>1. CASE cbsul = <<>>
    BY <1>1, <1>5, <2>1 DEF MasterBack
  <2>2. CASE cbsul # <<>>
    <3>1. PICK su : su = Head(cbsul)
      OBVIOUS
    <3>2. su \in BackUnit
      <4>1. 1 \in 1 .. Len(cbsul) /\ Head(cbsul) = cbsul[1]
        BY <2>2, TailAt DEF TypeOK
      <4> QED BY <3>1, <4>1, UnitTypes
    <3>3. PICK u \in Unit : u = [kind |-> "j", conn |-> su.conn]
      BY Zenon, <3>2 DEF Unit, Kind, BackUnit
    <3>4. /\ csul' = [csul EXCEPT ![su.num] = Append(@, u)]
          /\ master' = [at |-> "noticeJump", w |-> su.num] /\ down' = down
      BY <1>5, <2>2, <3>1, <3>3 DEF MasterBack
    <3>5. \A x \in Worker : ~Unsent(x)
      BY <1>5 DEF MasterBack, Idle, Unsent
    <3>6. u.kind = "j" /\ su.num \in Worker
      BY <3>2, <3>3 DEF BackUnit
    <3> QED BY Zenon, <3>4, <3>5, <3>6, PushInStep
  <2> QED BY <2>1, <2>2
<1>6. ASSUME NoticeJump PROVE InStep(v)'
  <2>1. /\ UNCHANGED csul /\ master.at = "noticeJump" /\ master'.at = "idle"
        /\ down' = [down EXCEPT ![master.w] = WriteByte(@, "j")]
    BY <1>6 DEF NoticeJump, Idle
  <2> QED BY <2>1, WriteInStep DEF Kind
<1>7. ASSUME NEW w \in Worker, ReadQuery(w) \/ CloseClient(w) \/ Announce(w) PROVE InStep(v)'
  BY <1>1, <1>7 DEF ReadQuery, CloseClient, Announce, masterVars
<1>8. ASSUME NEW w \in Worker, WorkerNew(w) \/ WorkerJump(w) PROVE InStep(v)'
  <2>1. down[w] # <<>> /\ down' = [down EXCEPT ![w] = Tail(@)]
    BY Zenon, <1>8 DEF WorkerNew, WorkerJump, ReadByte, Reliable
  <2>2. csul[w] # <<>>
    <3>1. InStep(w) /\ down[w] \in Seq(Kind) /\ csul[w] \in Seq(Unit)
      BY DEF TypeOK
    <3>2. Len(down[w]) \in Nat \ {0}
      BY <2>1, <3>1, TailAt
    <3>3. Len(csul[w]) # 0
      <4>1. PICK n \in {0, 1} : Len(csul[w]) = Len(down[w]) + n
        BY Zenon, <3>1 DEF InStep
      <4> QED BY <3>2, <4>1
    <3> QED BY <3>1, <3>3
  <2>3. csul' = [csul EXCEPT ![w] = Tail(@)] /\ UNCHANGED master
    BY Zenon, <1>8, <2>2 DEF WorkerNew, WorkerJump, masterVars
  <2> QED BY Zenon, <2>1, <2>2, <2>3, PopInStep
<1>9. CASE UNCHANGED vars
  BY <1>1, <1>9 DEF vars
<1>10. CASE Master
  BY <1>2, <1>3, <1>4, <1>5, <1>6, <1>9, <1>10 DEF Master, Reject
<1>11. ASSUME NEW w \in Worker, WorkerThread(w) PROVE InStep(v)'
  BY <1>7, <1>8, <1>11 DEF WorkerThread
<1> QED BY <1>9, <1>10, <1>11 DEF Next, Aborted

\* While a socketpair can hold a byte for every connection maxclients allows,
\* and its reads succeed, every byte a worker reads is the one written for the
\* unit it pops: thread_event_process never mixes up a socket and a client.
THEOREM NoticesCorrect == Spec => []NoticesMatchUnits
<1>1. Init => NoticesMatchUnits
  BY DEF Init, NoticesMatchUnits, Unsent, Idle
<1>2. TypeOK /\ TypeOK' /\ OwnerInv /\ CounterCoversOpen /\ NoticesMatchUnits /\ [Next]_vars
        => NoticesMatchUnits'
  <2> SUFFICES ASSUME TypeOK, TypeOK', OwnerInv, CounterCoversOpen, NoticesMatchUnits,
                      [Next]_vars, Reliable, NEW v \in Worker
               PROVE  InStep(v)'
    BY Zenon DEF NoticesMatchUnits, InStep, Unsent
  <2>1. \A x \in Worker : InStep(x)
    BY Zenon DEF NoticesMatchUnits, InStep
  <2> QED BY <2>1, InStepNext
<1> QED BY <1>1, <1>2, TypeCorrect, OwnerInvariant, CounterCorrect, PTL DEF Spec
=============================================================================
