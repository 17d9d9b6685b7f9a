--------------------------- MODULE ConnSwapProofs ---------------------------
(***************************************************************************)
(* Proofs about ConnSwap, for every number of workers and connections and  *)
(* for every kind of failure the module models.                            *)
(***************************************************************************)
EXTENDS ConnSwap, FiniteSetTheorems, TLAPS

(***************************************************************************)
(* Lemmas on the operators of ConnSwap.                                    *)
(***************************************************************************)

\* worker_get_next_idx stays inside the array of workers.
LEMMA NextIdxType == \A w \in Worker : NextIdx(w) \in Worker
BY ConstantsAssumption DEF Worker, NextIdx

\* dispatch_conn_new picks an existing worker, the first time too.
LEMMA TidType == \A l \in Worker \cup {-1} : (l + 1) % N \in Worker
<1> SUFFICES ASSUME NEW l \in Worker \cup {-1} PROVE (l + 1) % N \in Worker
  OBVIOUS
<1>1. N \in Nat /\ N > 0 /\ l + 1 \in Nat
  BY ConstantsAssumption DEF Worker
<1> QED BY <1>1 DEF Worker

\* A full socketpair takes nothing, any other takes the byte.
LEMMA WriteByteType ==
  ASSUME NEW p \in Seq(Kind), NEW b \in Kind
  PROVE  WriteByte(p, b) \in Seq(Kind)
BY DEF WriteByte

\* What Settle assigns has the right type.
LEMMA SettleType ==
  ASSUME TypeOK, NEW w \in Worker, NEW c \in Conns, NEW K \in SUBSET Conns,
         NEW how \in {"stay", "jump", "free"}, Settle(w, c, K, how)
  PROVE  /\ phase' \in [Conns -> Phase]
         /\ clients' \in [Worker -> SUBSET Conns]
         /\ ncurr' \in Int
         /\ cbsul' \in Seq(BackUnit)
         /\ dist' \in [Worker -> Conns \cup {NoConn}]
<1> DEFINE freed == IF how = "free" THEN K \cup {c} ELSE K
<1>1. Cardinality(freed) \in Nat
  <2>1. freed \in SUBSET Conns
    OBVIOUS
  <2> HIDE DEF freed
  <2>2. IsFiniteSet(freed)
    BY <2>1, FS_Subset, ConstantsAssumption
  <2> QED BY <2>2, FS_CardinalityType
<1>2. ncurr' = ncurr - Cardinality(freed)
  BY DEF Settle
<1>3. ncurr' \in Int
  <2> HIDE DEF freed
  <2> QED BY <1>1, <1>2 DEF TypeOK
<1>4. [num |-> NextIdx(w), conn |-> c] \in BackUnit
  BY NextIdxType DEF BackUnit
<1>5. phase' \in [Conns -> Phase]
  BY DEF TypeOK, Settle, Phase
<1>6. clients' \in [Worker -> SUBSET Conns]
  BY ZenonT(40) DEF TypeOK, Settle
<1>7. cbsul' \in Seq(BackUnit) /\ dist' \in [Worker -> Conns \cup {NoConn}]
  BY <1>4 DEF TypeOK, Settle
<1> QED BY <1>3, <1>5, <1>6, <1>7

\* The variables of ConnSwap stay in their types.
THEOREM TypeCorrect == Spec => []TypeOK
<1>1. Init => TypeOK
  BY ConstantsAssumption
  DEF TypeOK, Init, Worker, Idle, Phase, MasterAt, Fault, Unit, Kind, BackUnit
<1>2. TypeOK /\ [Next]_vars => TypeOK'
  <2> SUFFICES ASSUME TypeOK, [Next]_vars PROVE TypeOK'
    OBVIOUS
  <2>0. /\ 0 \in Worker
        /\ Idle \in [at : MasterAt, w : Worker]
        /\ {"none", "sock", "live"} \subseteq Phase
        /\ {"none", "mixup", "wild", "assert"} \subseteq Fault
    BY ConstantsAssumption DEF Worker, Idle, MasterAt, Phase, Fault
  <2>1. ASSUME NEW c \in Conns, Accept(c) PROVE TypeOK'
    <3>1. (last + 1) % N \in Worker
      BY TidType DEF TypeOK
    <3>2. [kind |-> "c", conn |-> c] \in Unit
      BY DEF Unit, Kind
    <3>3. csul' \in [Worker -> Seq(Unit)]
      BY <2>1, <3>1, <3>2 DEF Accept, TypeOK
    <3>4. master' \in [at : MasterAt, w : Worker]
      BY <2>1, <3>1 DEF Accept, MasterAt
    <3>5. phase' \in [Conns -> Phase]
      BY <2>1, <2>0 DEF Accept, TypeOK
    <3> QED BY ZenonT(40), <2>1, <3>1, <3>3, <3>4, <3>5 DEF Accept, TypeOK
  <2>2. ASSUME NoticeNew PROVE TypeOK'
    <3>1. WriteByte(down[master.w], "c") \in Seq(Kind)
      BY WriteByteType DEF Kind, TypeOK
    <3>2. down' \in [Worker -> Seq(Kind)]
      BY <2>2, <3>1 DEF NoticeNew, TypeOK
    <3>3. master' \in [at : MasterAt, w : Worker]
      BY Zenon, <2>2 DEF NoticeNew, TypeOK, MasterAt
    <3> QED BY ZenonT(40), <2>2, <3>2, <3>3 DEF NoticeNew, clientVars, TypeOK
  <2>3. ASSUME CountNew PROVE TypeOK'
    <3>1. ncurr' \in Int
      BY <2>3 DEF CountNew, TypeOK
    <3> QED BY Zenon, <2>0, <2>3, <3>1 DEF CountNew, clientVars, TypeOK
  <2>4. ASSUME NEW w \in Worker, MasterBack(w) PROVE TypeOK'
    <3>1. up' \in [Worker -> Nat]
      BY <2>4 DEF MasterBack, TypeOK
    <3>2. CASE cbsul = <<>>
      BY <2>4, <3>1, <3>2 DEF MasterBack, clientVars, TypeOK
    <3>3. CASE cbsul # <<>>
      <4> DEFINE su == Head(cbsul)
      <4>1. su \in BackUnit /\ Tail(cbsul) \in Seq(BackUnit)
        BY <3>3 DEF TypeOK
      <4>2. su.num \in Worker /\ [kind |-> "j", conn |-> su.conn] \in Unit
        BY <4>1 DEF BackUnit, Unit, Kind
      <4>3. /\ csul' = [csul EXCEPT ![su.num] = Append(@, [kind |-> "j", conn |-> su.conn])]
            /\ master' = [at |-> "noticeJump", w |-> su.num]
            /\ cbsul' = Tail(cbsul)
            /\ UNCHANGED <<clientVars, down, ncurr, last, dist, fault>>
        BY <2>4, <3>3 DEF MasterBack
      <4> HIDE DEF su
      <4>4. csul' \in [Worker -> Seq(Unit)]
        BY <4>2, <4>3 DEF TypeOK
      <4>5. master' \in [at : MasterAt, w : Worker]
        BY <4>2, <4>3 DEF MasterAt
      <4> QED BY Zenon, <3>1, <4>1, <4>3, <4>4, <4>5 DEF clientVars, TypeOK
    <3> QED BY <3>2, <3>3
  <2>5. ASSUME NoticeJump PROVE TypeOK'
    <3>1. WriteByte(down[master.w], "j") \in Seq(Kind)
      BY WriteByteType DEF Kind, TypeOK
    <3>2. down' \in [Worker -> Seq(Kind)]
      BY <2>5, <3>1 DEF NoticeJump, TypeOK
    <3> QED BY <2>5, <2>0, <3>2 DEF NoticeJump, clientVars, TypeOK
  <2>6. ASSUME NEW w \in Worker, ReadQuery(w) PROVE TypeOK'
    <3>0. PICK c \in clients[w] : \E K \in SUBSET (clients[w] \ {c}) :
            \E how \in AfterCommand : Settle(w, c, K, how)
      BY <2>6 DEF ReadQuery
    <3>1. PICK K \in SUBSET (clients[w] \ {c}), how \in AfterCommand : Settle(w, c, K, how)
      BY <3>0
    <3>2. c \in Conns /\ K \in SUBSET Conns /\ how \in {"stay", "jump", "free"}
      BY DEF AfterCommand, TypeOK
    <3>3. /\ phase' \in [Conns -> Phase]
          /\ clients' \in [Worker -> SUBSET Conns]
          /\ ncurr' \in Int
          /\ cbsul' \in Seq(BackUnit)
          /\ dist' \in [Worker -> Conns \cup {NoConn}]
      BY <3>1, <3>2, SettleType
    <3> QED BY ZenonT(40), <2>6, <3>3 DEF ReadQuery, masterVars, TypeOK
  <2>7. ASSUME NEW w \in Worker, CloseClient(w) PROVE TypeOK'
    <3>1. PICK c \in clients[w] : Settle(w, c, {}, "free")
      BY <2>7 DEF CloseClient
    <3>2. c \in Conns
      BY DEF TypeOK
    <3>3. /\ phase' \in [Conns -> Phase]
          /\ clients' \in [Worker -> SUBSET Conns]
          /\ ncurr' \in Int
          /\ cbsul' \in Seq(BackUnit)
          /\ dist' \in [Worker -> Conns \cup {NoConn}]
      BY <3>1, <3>2, SettleType
    <3> QED BY ZenonT(40), <2>7, <3>3 DEF CloseClient, masterVars, TypeOK
  <2>8. ASSUME NEW w \in Worker, NEW b, ReadByte(w, b)
        PROVE  down' \in [Worker -> Seq(Kind)]
    <3>1. down[w] \in Seq(Kind) /\ down[w] # <<>>
      BY <2>8 DEF ReadByte, TypeOK
    <3>2. Tail(down[w]) \in Seq(Kind)
      BY <3>1
    <3> QED BY Zenon, <2>8, <3>2 DEF ReadByte, TypeOK
  <2>9. ASSUME NEW w \in Worker, WorkerNew(w) PROVE TypeOK'
    <3>1. down' \in [Worker -> Seq(Kind)]
      BY <2>8, <2>9 DEF WorkerNew
    <3>2. CASE csul[w] = <<>>
      BY ZenonT(40), <2>9, <3>1, <3>2 DEF WorkerNew, masterVars, clientVars, TypeOK
    <3>3. CASE csul[w] # <<>>
      <4> DEFINE c == Head(csul[w]).conn
      <4>1. Head(csul[w]) \in Unit /\ Tail(csul[w]) \in Seq(Unit)
        BY <3>3 DEF TypeOK
      <4>2. c \in Conns /\ 0 \in 0 .. N-1
        BY <4>1, <2>0 DEF Unit, Worker
      <4>3. /\ csul' = [csul EXCEPT ![w] = Tail(@)]
            /\ UNCHANGED <<up, cbsul, last, master, dist>>
        BY <2>9, <3>3 DEF WorkerNew, masterVars
      <4>4. csul' \in [Worker -> Seq(Unit)]
        BY <4>1, <4>3 DEF TypeOK
      <4>5. CASE fault' = "mixup" /\ UNCHANGED <<clientVars, ncurr>>
        BY Zenon, <2>0, <3>1, <4>3, <4>4, <4>5 DEF clientVars, TypeOK
      <4>6. CASE /\ phase' = [phase EXCEPT ![c] = "live"]
                 /\ clients' = [clients EXCEPT ![w] = @ \cup {c}]
                 /\ curidx' = [curidx EXCEPT ![c] = w]
                 /\ steps' = [steps EXCEPT ![c] = 0]
                 /\ UNCHANGED <<ncurr, fault>>
        <5> HIDE DEF c
        <5>1. phase' \in [Conns -> Phase]
          BY Zenon, <2>0, <4>6 DEF TypeOK
        <5>2. clients' \in [Worker -> SUBSET Conns]
          BY <4>2, <4>6 DEF TypeOK
        <5>3. curidx' \in [Conns -> Worker \cup {-1}]
          BY Zenon, <4>6 DEF TypeOK
        <5>4. steps' \in [Conns -> 0 .. N-1]
          BY <4>2, <4>6 DEF TypeOK
        <5> QED BY Zenon, <3>1, <4>3, <4>4, <4>6, <5>1, <5>2, <5>3, <5>4 DEF TypeOK
      <4>7. CASE /\ phase' = [phase EXCEPT ![c] = "none"]
                 /\ ncurr' \in {ncurr, ncurr - 1}
                 /\ UNCHANGED <<curidx, steps, clients, fault>>
        <5> HIDE DEF c
        <5>1. phase' \in [Conns -> Phase]
          BY ZenonT(40), <2>0, <4>7 DEF TypeOK
        <5>2. ncurr' \in Int
          BY <4>7 DEF TypeOK
        <5> QED BY ZenonT(40), <3>1, <4>3, <4>4, <4>7, <5>1, <5>2 DEF TypeOK
      <4> QED BY <2>9, <3>3, <4>5, <4>6, <4>7 DEF WorkerNew, clientVars
    <3> QED BY <3>2, <3>3
  <2>10. ASSUME NEW w \in Worker, WorkerJump(w) PROVE TypeOK'
    <3>1. down' \in [Worker -> Seq(Kind)]
      BY <2>8, <2>10 DEF WorkerJump
    <3>2. CASE csul[w] = <<>>
      BY ZenonT(40), <2>10, <3>1, <3>2 DEF WorkerJump, masterVars, clientVars, TypeOK
    <3>3. CASE csul[w] # <<>>
      <4> DEFINE c == Head(csul[w]).conn
                 s == steps[c] + 1
      <4>1. Head(csul[w]) \in Unit /\ Tail(csul[w]) \in Seq(Unit)
        BY <3>3 DEF TypeOK
      <4>2. c \in Conns
        BY <4>1 DEF Unit
      <4>0. csul' = [csul EXCEPT ![w] = Tail(@)] /\ UNCHANGED <<up, last, master>>
        BY <2>10, <3>3 DEF WorkerJump, masterVars
      <4>3. csul' \in [Worker -> Seq(Unit)] /\ UNCHANGED <<up, last, master>>
        BY <4>0, <4>1 DEF TypeOK
      <4>4. CASE fault' \in {"mixup", "assert"} /\ UNCHANGED <<clientVars, cbsul, ncurr, dist>>
        BY Zenon, <2>0, <3>1, <4>3, <4>4 DEF clientVars, TypeOK
      <4>5. CASE /\ UNCHANGED fault
                 /\ curidx' = [curidx EXCEPT ![c] = w]
                 /\ \/ s < N - 1 /\ steps' = [steps EXCEPT ![c] = s]
                    \/ steps' = [steps EXCEPT ![c] = 0]
                 /\ \E K \in SUBSET clients[w] : \E how \in {"stay", "jump", "free"} :
                      Settle(w, c, K, how)
        <5> HIDE DEF c
        <5>1. PICK K \in SUBSET clients[w], how \in {"stay", "jump", "free"} :
                Settle(w, c, K, how)
          BY <4>5
        <5>2. steps[c] \in 0 .. N-1 /\ N \in Nat
          BY <4>2, ConstantsAssumption DEF TypeOK
        <5>3. (s < N - 1 => s \in 0 .. N-1) /\ 0 \in 0 .. N-1
          BY <5>2
        <5>4. steps' \in [Conns -> 0 .. N-1]
          BY Zenon, <4>2, <4>5, <5>3 DEF TypeOK
        <5>5. K \in SUBSET Conns
          BY DEF TypeOK
        <5>6. /\ phase' \in [Conns -> Phase]
              /\ clients' \in [Worker -> SUBSET Conns]
              /\ ncurr' \in Int
              /\ cbsul' \in Seq(BackUnit)
              /\ dist' \in [Worker -> Conns \cup {NoConn}]
          BY <4>2, <5>1, <5>5, SettleType
        <5>7. curidx' \in [Conns -> Worker \cup {-1}]
          BY <4>2, <4>5 DEF TypeOK
        <5> QED BY Zenon, <3>1, <4>3, <4>5, <5>4, <5>6, <5>7 DEF TypeOK
      <4> QED BY <2>10, <3>3, <4>4, <4>5 DEF WorkerJump, AfterCommand
    <3> QED BY <3>2, <3>3
  <2>11. ASSUME NEW w \in Worker, Announce(w) PROVE TypeOK'
    <3>1. dist' \in [Worker -> Conns \cup {NoConn}] /\ fault' \in Fault
      BY <2>11, <2>0 DEF Announce, TypeOK
    <3>2. up' \in [Worker -> Nat]
      <4>1. CASE UNCHANGED up
        BY <4>1 DEF TypeOK
      <4>2. ASSUME NEW idx, up' = [up EXCEPT ![idx] = IF @ < NoticeCap THEN @ + 1 ELSE @]
            PROVE  up' \in [Worker -> Nat]
        <5>1. CASE idx \in Worker
          BY <4>2, <5>1 DEF TypeOK
        <5>2. CASE idx \notin Worker
          BY Zenon, <4>2, <5>2 DEF TypeOK
        <5> QED BY <5>1, <5>2
      <4> QED BY <2>11, <4>1, <4>2 DEF Announce
    <3> QED BY ZenonT(40), <2>11, <3>1, <3>2 DEF Announce, clientVars, masterVars, TypeOK
  <2>12. CASE UNCHANGED vars
    BY <2>12 DEF vars, TypeOK
  <2> QED BY <2>1, <2>2, <2>3, <2>4, <2>5, <2>6, <2>7, <2>9, <2>10, <2>11, <2>12
          DEF Next, Master, WorkerThread, Reject, Aborted
<1> QED BY <1>1, <1>2, PTL DEF Spec

-----------------------------------------------------------------------------
(***************************************************************************)
(* Who holds a connection.  OneOwner and RoutedByCuridx are not inductive: *)
(* that a unit popped by the master or by a worker does not meet a second  *)
(* one for the same connection follows from where its phase and its curidx *)
(* allow it to be.  OwnerInv says that unit by unit.                       *)
(***************************************************************************)

LinkedFit ==
  \A w \in Worker : \A c \in clients[w] :
    phase[c] = "live" /\ curidx[c] = w /\ steps[c] = 0

UnitFits(w, u) ==
  /\ u.kind = "c" => phase[u.conn] = "sock"
  /\ u.kind = "j" => phase[u.conn] = "live" /\ w = NextIdx(curidx[u.conn])

QueuedFit ==
  \A w \in Worker : \A i \in 1 .. Len(csul[w]) : UnitFits(w, csul[w][i])

ReturningFit ==
  \A i \in 1 .. Len(cbsul) :
    phase[cbsul[i].conn] = "live" /\ cbsul[i].num = NextIdx(curidx[cbsul[i].conn])

QueuedOnce ==
  \A w, v \in Worker : \A i \in 1 .. Len(csul[w]) : \A j \in 1 .. Len(csul[v]) :
    csul[w][i].conn = csul[v][j].conn => w = v /\ i = j

ReturningOnce ==
  \A i, j \in 1 .. Len(cbsul) : cbsul[i].conn = cbsul[j].conn => i = j

Apart ==
  /\ \A w \in Worker : \A i \in 1 .. Len(csul[w]) :
       /\ \A v \in Worker : csul[w][i].conn \notin clients[v]
       /\ \A j \in 1 .. Len(cbsul) : csul[w][i].conn # cbsul[j].conn
  /\ \A v \in Worker : \A j \in 1 .. Len(cbsul) : cbsul[j].conn \notin clients[v]

NoneLost ==
  fault = "none" =>
    \A c \in Conns : phase[c] # "none" =>
      \/ \E w \in Worker : c \in clients[w]
      \/ \E w \in Worker : \E i \in 1 .. Len(csul[w]) : csul[w][i].conn = c
      \/ \E i \in 1 .. Len(cbsul) : cbsul[i].conn = c

OwnerInv ==
  /\ LinkedFit /\ QueuedFit /\ ReturningFit
  /\ QueuedOnce /\ ReturningOnce /\ Apart /\ NoneLost

\* What is on a queue, and what Append and Tail do to it, index by index.
LEMMA SeqAt ==
  ASSUME NEW S, NEW q \in Seq(S), NEW i \in 1 .. Len(q)
  PROVE  q[i] \in S
OBVIOUS

LEMMA AppendAt ==
  ASSUME NEW S, NEW q \in Seq(S), NEW e \in S
  PROVE  /\ Len(Append(q, e)) = Len(q) + 1
         /\ Len(q) \in Nat
         /\ \A i \in 1 .. Len(q) : Append(q, e)[i] = q[i]
         /\ Append(q, e)[Len(q) + 1] = e
OBVIOUS

LEMMA TailAt ==
  ASSUME NEW S, NEW q \in Seq(S), q # <<>>
  PROVE  /\ Len(Tail(q)) = Len(q) - 1
         /\ Len(q) \in Nat \ {0}
         /\ Head(q) = q[1]
         /\ \A i \in 1 .. Len(q) - 1 : Tail(q)[i] = q[i + 1]
OBVIOUS

\* The units on the lists hold connections and the targets are workers.
LEMMA UnitTypes ==
  ASSUME TypeOK
  PROVE  /\ \A v \in Worker : \A i \in 1 .. Len(csul[v]) :
              /\ csul[v][i] \in Unit
              /\ csul[v][i].kind \in Kind
              /\ csul[v][i].conn \in Conns
         /\ \A i \in 1 .. Len(cbsul) :
              cbsul[i] \in BackUnit /\ cbsul[i].num \in Worker /\ cbsul[i].conn \in Conns
<1>1. ASSUME NEW v \in Worker, NEW i \in 1 .. Len(csul[v]) PROVE csul[v][i] \in Unit
  <2>1. csul[v] \in Seq(Unit)
    BY DEF TypeOK
  <2> QED BY <2>1, SeqAt
<1>2. ASSUME NEW i \in 1 .. Len(cbsul) PROVE cbsul[i] \in BackUnit
  <2>1. cbsul \in Seq(BackUnit)
    BY DEF TypeOK
  <2> QED BY <2>1, SeqAt
<1> QED BY <1>1, <1>2 DEF Unit, BackUnit

\* The units on the csul lists after csul_push of u to worker t.
Pushed(t, u) ==
  /\ \A v \in Worker : \A i \in 1 .. Len(csul[v]) :
       i \in 1 .. Len(csul'[v]) /\ csul'[v][i] = csul[v][i]
  /\ \E i \in 1 .. Len(csul'[t]) : csul'[t][i] = u
  /\ \A v \in Worker : \A i \in 1 .. Len(csul'[v]) :
       \/ i \in 1 .. Len(csul[v]) /\ csul'[v][i] = csul[v][i]
       \/ v = t /\ i = Len(csul[t]) + 1 /\ csul'[v][i] = u

LEMMA CsulPush ==
  ASSUME TypeOK, NEW t \in Worker, NEW u \in Unit,
         csul' = [csul EXCEPT ![t] = Append(@, u)]
  PROVE  Pushed(t, u)
<1>1. \A v \in Worker : csul[v] \in Seq(Unit) /\ Len(csul[v]) \in Nat
  BY DEF TypeOK
<1>2. csul'[t] = Append(csul[t], u) /\ \A v \in Worker : v # t => csul'[v] = csul[v]
  BY DEF TypeOK
<1>3. /\ Len(csul'[t]) = Len(csul[t]) + 1
      /\ \A i \in 1 .. Len(csul[t]) : csul'[t][i] = csul[t][i]
      /\ csul'[t][Len(csul[t]) + 1] = u
  BY <1>1, <1>2, AppendAt
<1>4. \A v \in Worker : \A i \in 1 .. Len(csul[v]) :
        i \in 1 .. Len(csul'[v]) /\ csul'[v][i] = csul[v][i]
  BY <1>1, <1>2, <1>3
<1>5. Len(csul[t]) + 1 \in 1 .. Len(csul'[t])
  BY <1>1, <1>3
<1>6. \A v \in Worker : \A i \in 1 .. Len(csul'[v]) :
        \/ i \in 1 .. Len(csul[v]) /\ csul'[v][i] = csul[v][i]
        \/ v = t /\ i = Len(csul[t]) + 1 /\ csul'[v][i] = u
  BY <1>1, <1>2, <1>3
<1> QED BY <1>3, <1>4, <1>5, <1>6 DEF Pushed

\* The units on the csul lists after csul_pop of worker w.
Popped(w) ==
  /\ 1 \in 1 .. Len(csul[w]) /\ Head(csul[w]) = csul[w][1]
  /\ \A v \in Worker : \A i \in 1 .. Len(csul'[v]) :
       \/ v # w /\ i \in 1 .. Len(csul[v]) /\ csul'[v][i] = csul[v][i]
       \/ v = w /\ i + 1 \in 1 .. Len(csul[v]) /\ csul'[v][i] = csul[v][i + 1]
  /\ \A v \in Worker : \A i \in 1 .. Len(csul[v]) :
       \/ v = w /\ i = 1
       \/ \E j \in 1 .. Len(csul'[v]) : csul'[v][j] = csul[v][i]

LEMMA CsulPop ==
  ASSUME TypeOK, NEW w \in Worker, csul[w] # <<>>, csul' = [csul EXCEPT ![w] = Tail(@)]
  PROVE  Popped(w)
<1>1. \A v \in Worker : csul[v] \in Seq(Unit) /\ Len(csul[v]) \in Nat
  BY DEF TypeOK
<1>2. csul'[w] = Tail(csul[w]) /\ \A v \in Worker : v # w => csul'[v] = csul[v]
  BY DEF TypeOK
<1>3. /\ Len(csul'[w]) = Len(csul[w]) - 1
      /\ Len(csul[w]) \in Nat \ {0}
      /\ Head(csul[w]) = csul[w][1]
      /\ \A i \in 1 .. Len(csul[w]) - 1 : csul'[w][i] = csul[w][i + 1]
  BY Zenon, <1>1, <1>2, TailAt
<1>4. ASSUME NEW i \in 1 .. Len(csul[w]), i # 1
      PROVE  \E j \in 1 .. Len(csul'[w]) : csul'[w][j] = csul[w][i]
  <2>1. i - 1 \in 1 .. Len(csul'[w]) /\ csul'[w][i - 1] = csul[w][i]
    BY <1>3, <1>4
  <2> QED BY Zenon, <2>1
<1>5. ASSUME NEW v \in Worker, NEW i \in 1 .. Len(csul'[v])
      PROVE  \/ v # w /\ i \in 1 .. Len(csul[v]) /\ csul'[v][i] = csul[v][i]
             \/ v = w /\ i + 1 \in 1 .. Len(csul[v]) /\ csul'[v][i] = csul[v][i + 1]
  BY <1>1, <1>2, <1>3
<1>6. ASSUME NEW v \in Worker, NEW i \in 1 .. Len(csul[v])
      PROVE  \/ v = w /\ i = 1
             \/ \E j \in 1 .. Len(csul'[v]) : csul'[v][j] = csul[v][i]
  <2>1. CASE v = w
    BY Zenon, <1>4, <2>1
  <2>2. CASE v # w
    BY <1>2, <2>2
  <2> QED BY Zenon, <2>1, <2>2
<1>7. 1 \in 1 .. Len(csul[w]) /\ Head(csul[w]) = csul[w][1]
  BY <1>3
<1> QED BY Zenon, <1>5, <1>6, <1>7 DEF Popped

\* The units on cbsul after cbsul_push of u.
LEMMA CbsulPush ==
  ASSUME TypeOK, NEW u \in BackUnit, cbsul' = Append(cbsul, u)
  PROVE  /\ \A i \in 1 .. Len(cbsul) : i \in 1 .. Len(cbsul') /\ cbsul'[i] = cbsul[i]
         /\ Len(cbsul) + 1 \in 1 .. Len(cbsul')
         /\ cbsul'[Len(cbsul) + 1] = u
         /\ \A i \in 1 .. Len(cbsul') :
              \/ i \in 1 .. Len(cbsul) /\ cbsul'[i] = cbsul[i]
              \/ i = Len(cbsul) + 1 /\ cbsul'[i] = u
<1>1. /\ Len(cbsul') = Len(cbsul) + 1 /\ Len(cbsul) \in Nat
      /\ \A i \in 1 .. Len(cbsul) : cbsul'[i] = cbsul[i]
      /\ cbsul'[Len(cbsul) + 1] = u
  BY AppendAt DEF TypeOK
<1> QED BY <1>1

\* The units on cbsul after cbsul_pop.
LEMMA CbsulPop ==
  ASSUME TypeOK, cbsul # <<>>, cbsul' = Tail(cbsul)
  PROVE  /\ 1 \in 1 .. Len(cbsul) /\ Head(cbsul) = cbsul[1]
         /\ \A i \in 1 .. Len(cbsul') : i + 1 \in 1 .. Len(cbsul) /\ cbsul'[i] = cbsul[i + 1]
         /\ \A i \in 1 .. Len(cbsul) :
              i = 1 \/ \E j \in 1 .. Len(cbsul') : cbsul'[j] = cbsul[i]
<1>1. /\ Len(cbsul') = Len(cbsul) - 1 /\ Len(cbsul) \in Nat \ {0}
      /\ Head(cbsul) = cbsul[1]
      /\ \A i \in 1 .. Len(cbsul) - 1 : cbsul'[i] = cbsul[i + 1]
  BY TailAt DEF TypeOK
<1>2. ASSUME NEW i \in 1 .. Len(cbsul), i # 1
      PROVE  \E j \in 1 .. Len(cbsul') : cbsul'[j] = cbsul[i]
  <2>1. i - 1 \in 1 .. Len(cbsul') /\ cbsul'[i - 1] = cbsul[i]
    BY <1>1, <1>2
  <2> QED BY <2>1
<1> QED BY <1>1, <1>2

\* Connection c is on no queue and linked to no worker, and every unit the step
\* leaves on the csul lists fits where it is.
QueuesWithout(c) ==
  \A v \in Worker : \A i \in 1 .. Len(csul'[v]) :
    /\ UnitFits(v, csul'[v][i])
    /\ csul'[v][i].conn # c
    /\ csul'[v][i].conn \in Conns
    /\ \A x \in Worker : csul'[v][i].conn \notin clients[x]
    /\ \A j \in 1 .. Len(cbsul) : csul'[v][i].conn # cbsul[j].conn

\* Every other connection in the program is where it was, or still on its queue.
OthersHeld(c) ==
  \A x \in Conns \ {c} : phase[x] # "none" =>
    \/ \E v \in Worker : x \in clients[v]
    \/ \E v \in Worker : \E i \in 1 .. Len(csul'[v]) : csul'[v][i].conn = x
    \/ \E i \in 1 .. Len(cbsul) : cbsul[i].conn = x

\* The same, when it is the cbsul list that the step may have shortened.
OthersReturning(c) ==
  \A x \in Conns \ {c} : phase[x] # "none" =>
    \/ \E v \in Worker : x \in clients[v]
    \/ \E v \in Worker : \E i \in 1 .. Len(csul[v]) : csul[v][i].conn = x
    \/ \E i \in 1 .. Len(cbsul') : cbsul'[i].conn = x

\* cbsul holds only units it held before, none of them for c.
ReturnsWithout(c) ==
  \A i \in 1 .. Len(cbsul') :
    cbsul'[i].conn # c /\ \E j \in 1 .. Len(cbsul) : cbsul'[i] = cbsul[j]

\* The step leaves the routing fields of every connection but c alone.
RoutesWithout(c) ==
  \A x \in Conns : x # c => curidx'[x] = curidx[x] /\ steps'[x] = steps[x]

\* Where connection c is not.
OnlyWith(w, c) == \A v \in Worker : v # w => c \notin clients[v]
Unlinked(c) == \A v \in Worker : c \notin clients[v]
Unqueued(c) == \A v \in Worker : \A i \in 1 .. Len(csul[v]) : csul[v][i].conn # c
NotReturning(c) == \A i \in 1 .. Len(cbsul) : cbsul[i].conn # c

\* Settle keeps OwnerInv when the units it finds on the csul lists are not for
\* client c and are apart from everything else, and c itself is held by w alone.
LEMMA SettleOwner ==
  ASSUME TypeOK, TypeOK', LinkedFit, ReturningFit, ReturningOnce,
         NEW w \in Worker, NEW c \in Conns, NEW K \in SUBSET (clients[w] \ {c}),
         NEW how \in {"stay", "jump", "free"}, Settle(w, c, K, how),
         phase[c] = "live", curidx'[c] = w, how = "stay" => steps'[c] = 0,
         RoutesWithout(c), OnlyWith(w, c), NotReturning(c),
         QueuedOnce', QueuesWithout(c), Apart,
         fault' = "none" => OthersHeld(c)
  PROVE  OwnerInv'
<1>0. \A v \in Worker : \A j \in 1 .. Len(cbsul) : cbsul[j].conn \notin clients[v]
  BY DEF Apart
<1> DEFINE freed == IF how = "free" THEN K \cup {c} ELSE K
           u == [num |-> NextIdx(w), conn |-> c]
<1>1. /\ phase' = [x \in Conns |-> IF x \in freed THEN "none" ELSE phase[x]]
      /\ clients' = [clients EXCEPT ![w] =
                       IF how = "stay" THEN (@ \ K) \cup {c} ELSE (@ \ K) \ {c}]
      /\ cbsul' = IF how = "jump" THEN Append(cbsul, u) ELSE cbsul
  BY DEF Settle
<1>2. freed \subseteq clients[w] \cup {c} /\ (c \in freed => how = "free")
  OBVIOUS
<1>2a. K \subseteq freed /\ freed \subseteq K \cup {c} /\ c \notin K
  OBVIOUS
<1>3. u \in BackUnit /\ u.num = NextIdx(w) /\ u.conn = c
  BY ZenonT(40), NextIdxType DEF BackUnit
<1> HIDE DEF freed, u
<1>4. /\ \A v \in Worker : v # w => clients'[v] = clients[v]
      /\ clients'[w] = IF how = "stay" THEN (clients[w] \ K) \cup {c}
                                       ELSE (clients[w] \ K) \ {c}
  BY ZenonT(40), <1>1 DEF TypeOK
<1>5. \A x \in Conns : phase'[x] = IF x \in freed THEN "none" ELSE phase[x]
  BY ZenonT(40), <1>1
<1>6. \A i \in 1 .. Len(cbsul') :
        \/ i \in 1 .. Len(cbsul) /\ cbsul'[i] = cbsul[i]
        \/ how = "jump" /\ i = Len(cbsul) + 1 /\ cbsul'[i] = u
  BY ZenonT(40), <1>1, <1>3, CbsulPush
<1>7. /\ \A i \in 1 .. Len(cbsul) : i \in 1 .. Len(cbsul') /\ cbsul'[i] = cbsul[i]
      /\ how = "jump" => \E i \in 1 .. Len(cbsul') : cbsul'[i].conn = c
  BY ZenonT(40), <1>1, <1>3, CbsulPush
<1>8. \A i \in 1 .. Len(cbsul) : cbsul[i].conn \in Conns /\ cbsul[i].conn \notin freed
  <2> TAKE i \in 1 .. Len(cbsul)
  <2>1. cbsul[i] \in BackUnit
    BY UnitTypes
  <2> QED BY <2>1, <1>0, <1>2 DEF BackUnit, NotReturning
<1>9. \A v \in Worker : \A i \in 1 .. Len(csul'[v]) :
        csul'[v][i].conn \in Conns /\ csul'[v][i].conn \notin freed
  <2> TAKE v \in Worker
  <2> TAKE i \in 1 .. Len(csul'[v])
  <2>0. csul'[v] \in Seq(Unit)
    BY ZenonT(40) DEF TypeOK
  <2>1. csul'[v][i] \in Unit
    BY <2>0, SeqAt
  <2>2. csul'[v][i].conn \notin clients[w] /\ csul'[v][i].conn # c
    BY DEF QueuesWithout
  <2> QED BY <2>1, <2>2, <1>2 DEF Unit
<1>10. \A v \in Worker : \A x \in clients'[v] :
         \/ x \in clients[v] /\ x # c /\ x \notin freed /\ x \in Conns
         \/ x = c /\ v = w /\ how = "stay"
  <2> TAKE v \in Worker
  <2> TAKE x \in clients'[v]
  <2>0. x \in Conns
    BY ZenonT(40) DEF TypeOK
  <2>1. CASE v = w
    BY <1>2a, <1>4, <2>0, <2>1
  <2>2. CASE v # w
    <3>1. x \in clients[v] /\ x # c
      BY <1>4, <2>2 DEF OnlyWith
    <3>2. x \notin clients[w]
      BY <2>2, <3>1 DEF LinkedFit
    <3> QED BY <2>0, <3>1, <3>2, <1>2
  <2> QED BY <2>1, <2>2
<1>11. LinkedFit'
  <2> SUFFICES ASSUME NEW v \in Worker, NEW x \in clients'[v]
               PROVE  phase'[x] = "live" /\ curidx'[x] = v /\ steps'[x] = 0
    BY DEF LinkedFit
  <2>1. CASE x \in clients[v] /\ x # c /\ x \notin freed /\ x \in Conns
    <3>1. phase[x] = "live" /\ curidx[x] = v /\ steps[x] = 0
      BY <2>1 DEF LinkedFit
    <3>2. phase'[x] = phase[x]
      BY <1>5, <2>1
    <3>3. curidx'[x] = curidx[x] /\ steps'[x] = steps[x]
      BY <2>1 DEF RoutesWithout
    <3> QED BY <3>1, <3>2, <3>3
  <2>2. CASE x = c /\ v = w /\ how = "stay"
    <3>1. c \notin freed
      BY <1>2, <2>2
    <3>2. phase'[c] = "live"
      BY <1>5, <3>1
    <3> QED BY <2>2, <3>2
  <2> QED BY <1>10, <2>1, <2>2
<1>12. QueuedFit'
  <2> SUFFICES ASSUME NEW v \in Worker, NEW i \in 1 .. Len(csul'[v])
               PROVE  UnitFits(v, csul[v][i])'
    BY DEF QueuedFit
  <2>0. PICK e : e = csul'[v][i]
    OBVIOUS
  <2>1. UnitFits(v, e) /\ e.conn # c
    BY <2>0 DEF QueuesWithout
  <2>2. e.conn \in Conns /\ e.conn \notin freed
    BY <1>9, <2>0
  <2>3. phase'[e.conn] = phase[e.conn]
    BY <1>5, <2>2
  <2>4. curidx'[e.conn] = curidx[e.conn]
    BY ZenonT(40), <2>1, <2>2 DEF RoutesWithout
  <2> QED BY <2>0, <2>1, <2>3, <2>4 DEF UnitFits, NextIdx
<1>13. ReturningFit'
  <2> SUFFICES ASSUME NEW i \in 1 .. Len(cbsul')
               PROVE  (phase[cbsul[i].conn] = "live"
                        /\ cbsul[i].num = NextIdx(curidx[cbsul[i].conn]))'
    BY DEF ReturningFit
  <2>1. CASE i \in 1 .. Len(cbsul) /\ cbsul'[i] = cbsul[i]
    <3>0. PICK e : e = cbsul[i]
      OBVIOUS
    <3>1. phase[e.conn] = "live" /\ e.num = NextIdx(curidx[e.conn])
      BY <2>1, <3>0 DEF ReturningFit
    <3>2. e.conn \in Conns /\ e.conn \notin freed /\ e.conn # c
      BY <1>8, <2>1, <3>0 DEF NotReturning
    <3>3. phase'[e.conn] = phase[e.conn]
      BY <1>5, <3>2
    <3>4. curidx'[e.conn] = curidx[e.conn]
      BY <3>2 DEF RoutesWithout
    <3> QED BY <2>1, <3>0, <3>1, <3>3, <3>4 DEF NextIdx
  <2>2. CASE how = "jump" /\ cbsul'[i] = u
    <3>1. c \notin freed
      BY <1>2, <2>2
    <3>2. phase'[c] = "live"
      BY <1>5, <3>1
    <3>3. u.num = NextIdx(curidx'[c])
      BY <1>3
    <3> QED BY <1>3, <2>2, <3>2, <3>3 DEF NextIdx
  <2> QED BY ZenonT(40), <1>6, <2>1, <2>2
<1>14. ReturningOnce'
  <2> SUFFICES ASSUME NEW i \in 1 .. Len(cbsul'), NEW j \in 1 .. Len(cbsul'),
                      cbsul'[i].conn = cbsul'[j].conn
               PROVE  i = j
    BY DEF ReturningOnce
  <2>1. CASE /\ i \in 1 .. Len(cbsul) /\ cbsul'[i] = cbsul[i]
             /\ j \in 1 .. Len(cbsul) /\ cbsul'[j] = cbsul[j]
    BY <2>1 DEF ReturningOnce
  <2>2. CASE i \in 1 .. Len(cbsul) /\ cbsul'[i] = cbsul[i] /\ cbsul'[j] = u
    BY <1>3, <2>2 DEF NotReturning
  <2>3. CASE j \in 1 .. Len(cbsul) /\ cbsul'[j] = cbsul[j] /\ cbsul'[i] = u
    BY <1>3, <2>3 DEF NotReturning
  <2> QED BY <1>6, <2>1, <2>2, <2>3
<1>15. Apart'
  <2>1. ASSUME NEW v \in Worker, NEW i \in 1 .. Len(csul'[v]), NEW x \in Worker
        PROVE  csul'[v][i].conn \notin clients'[x]
    <3>1. csul'[v][i].conn \notin clients[x] /\ csul'[v][i].conn # c
      BY ZenonT(40) DEF QueuesWithout
    <3> QED BY <1>10, <3>1
  <2>2. ASSUME NEW v \in Worker, NEW i \in 1 .. Len(csul'[v]), NEW j \in 1 .. Len(cbsul')
        PROVE  csul'[v][i].conn # cbsul'[j].conn
    <3>1. CASE j \in 1 .. Len(cbsul) /\ cbsul'[j] = cbsul[j]
      BY <3>1 DEF QueuesWithout
    <3>2. CASE cbsul'[j] = u
      BY <1>3, <3>2 DEF QueuesWithout
    <3> QED BY <1>6, <3>1, <3>2
  <2>3. ASSUME NEW v \in Worker, NEW j \in 1 .. Len(cbsul')
        PROVE  cbsul'[j].conn \notin clients'[v]
    <3>1. CASE j \in 1 .. Len(cbsul) /\ cbsul'[j] = cbsul[j]
      <4>1. cbsul[j].conn \notin clients[v] /\ cbsul[j].conn # c
        BY <1>0, <3>1 DEF NotReturning
      <4> QED BY <1>10, <3>1, <4>1
    <3>2. CASE how = "jump" /\ cbsul'[j] = u
      BY <1>3, <1>10, <3>2
    <3> QED BY <1>6, <3>1, <3>2
  <2> QED BY <2>1, <2>2, <2>3 DEF Apart
<1>16. NoneLost'
  <2> SUFFICES ASSUME fault' = "none", NEW x \in Conns, phase'[x] # "none"
               PROVE  \/ \E v \in Worker : x \in clients'[v]
                      \/ \E v \in Worker : \E i \in 1 .. Len(csul'[v]) : csul'[v][i].conn = x
                      \/ \E i \in 1 .. Len(cbsul') : cbsul'[i].conn = x
    BY DEF NoneLost
  <2>0. x \notin freed /\ phase[x] # "none"
    BY ZenonT(40), <1>5
  <2>1. CASE x = c
    <3>1. how \in {"stay", "jump"}
      BY ZenonT(40), <2>0, <2>1 DEF freed
    <3> QED BY ZenonT(40), <2>1, <3>1, <1>4, <1>7
  <2>2. CASE x # c
    <3>1. ASSUME NEW v \in Worker, x \in clients[v] PROVE x \in clients'[v]
      BY ZenonT(40), <1>2a, <1>4, <2>0, <2>2, <3>1
    <3>2. \/ \E v \in Worker : x \in clients[v]
          \/ \E v \in Worker : \E i \in 1 .. Len(csul'[v]) : csul'[v][i].conn = x
          \/ \E i \in 1 .. Len(cbsul) : cbsul[i].conn = x
      BY ZenonT(40), <2>0, <2>2 DEF OthersHeld
    <3> QED BY ZenonT(40), <1>7, <3>1, <3>2
  <2> QED BY <2>1, <2>2
<1> QED BY <1>11, <1>12, <1>13, <1>14, <1>15, <1>16 DEF OwnerInv

\* What is left after csul_pop: the popped connection is nowhere any more, and
\* every other one is where it was.
LEMMA PopOwner ==
  ASSUME TypeOK, OwnerInv, NEW w \in Worker, Popped(w), NEW c, c = Head(csul[w]).conn
  PROVE  /\ c \in Conns
         /\ UnitFits(w, Head(csul[w]))
         /\ Head(csul[w]).kind \in Kind
         /\ QueuedOnce'
         /\ QueuesWithout(c) /\ Unlinked(c) /\ NotReturning(c)
         /\ fault = "none" => OthersHeld(c)
<1>1. 1 \in 1 .. Len(csul[w]) /\ Head(csul[w]) = csul[w][1]
  BY DEF Popped
<1>2. \A v \in Worker : \A i \in 1 .. Len(csul[v]) : csul[v][i] \in Unit
  BY UnitTypes
<1>3. c \in Conns /\ c = csul[w][1].conn /\ Head(csul[w]).kind \in Kind
  BY <1>1, <1>2 DEF Unit
<1>4. UnitFits(w, Head(csul[w]))
  BY <1>1 DEF OwnerInv, QueuedFit
<1>5. /\ \A v \in Worker : c \notin clients[v]
      /\ \A i \in 1 .. Len(cbsul) : cbsul[i].conn # c
  BY <1>1, <1>3 DEF OwnerInv, Apart
<1>6. ASSUME NEW v \in Worker, NEW i \in 1 .. Len(csul'[v])
      PROVE  \E k \in 1 .. Len(csul[v]) : csul'[v][i] = csul[v][k] /\ k = (IF v = w THEN i + 1 ELSE i)
  <2>1. CASE v # w /\ i \in 1 .. Len(csul[v]) /\ csul'[v][i] = csul[v][i]
    BY <2>1
  <2>2. CASE v = w /\ i + 1 \in 1 .. Len(csul[v]) /\ csul'[v][i] = csul[v][i + 1]
    BY <2>2
  <2> QED BY <2>1, <2>2 DEF Popped
<1>7. ASSUME NEW v \in Worker, NEW i \in 1 .. Len(csul'[v])
      PROVE  /\ UnitFits(v, csul'[v][i])
             /\ csul'[v][i].conn # c
             /\ csul'[v][i].conn \in Conns
             /\ \A x \in Worker : csul'[v][i].conn \notin clients[x]
             /\ \A j \in 1 .. Len(cbsul) : csul'[v][i].conn # cbsul[j].conn
  <2>1. PICK k \in 1 .. Len(csul[v]) : csul'[v][i] = csul[v][k] /\ k = (IF v = w THEN i + 1 ELSE i)
    BY <1>6
  <2>0. ~(v = w /\ k = 1)
    BY <2>1
  <2>2. csul[v][k].conn # c
    BY <1>1, <1>3, <2>0 DEF OwnerInv, QueuedOnce
  <2>3. csul[v][k].conn \in Conns
    BY <1>2 DEF Unit
  <2> QED BY <2>1, <2>2, <2>3 DEF OwnerInv, QueuedFit, Apart
<1>8. QueuedOnce'
  <2> SUFFICES ASSUME NEW v \in Worker, NEW x \in Worker,
                      NEW i \in 1 .. Len(csul'[v]), NEW j \in 1 .. Len(csul'[x]),
                      csul'[v][i].conn = csul'[x][j].conn
               PROVE  v = x /\ i = j
    BY DEF QueuedOnce
  <2>1. PICK k \in 1 .. Len(csul[v]) : csul'[v][i] = csul[v][k] /\ k = (IF v = w THEN i + 1 ELSE i)
    BY <1>6
  <2>2. PICK l \in 1 .. Len(csul[x]) : csul'[x][j] = csul[x][l] /\ l = (IF x = w THEN j + 1 ELSE j)
    BY ZenonT(40), <1>6
  <2>3. v = x /\ k = l
    BY <2>1, <2>2 DEF OwnerInv, QueuedOnce
  <2> QED BY <2>1, <2>2, <2>3
<1>9. ASSUME fault = "none", NEW x \in Conns \ {c}, phase[x] # "none"
      PROVE  \/ \E v \in Worker : x \in clients[v]
             \/ \E v \in Worker : \E i \in 1 .. Len(csul'[v]) : csul'[v][i].conn = x
             \/ \E i \in 1 .. Len(cbsul) : cbsul[i].conn = x
  <2>1. \/ \E v \in Worker : x \in clients[v]
        \/ \E v \in Worker : \E i \in 1 .. Len(csul[v]) : csul[v][i].conn = x
        \/ \E i \in 1 .. Len(cbsul) : cbsul[i].conn = x
    BY <1>9 DEF OwnerInv, NoneLost
  <2>2. ASSUME NEW v \in Worker, NEW i \in 1 .. Len(csul[v]), csul[v][i].conn = x
        PROVE  \E j \in 1 .. Len(csul'[v]) : csul'[v][j].conn = x
    BY ZenonT(40), <1>3, <2>2 DEF Popped
  <2> QED BY <2>1, <2>2
<1>10. QueuesWithout(c)
  BY <1>7 DEF QueuesWithout
<1>11. Unlinked(c) /\ NotReturning(c)
  BY <1>5 DEF Unlinked, NotReturning
<1>12. fault = "none" => OthersHeld(c)
  BY <1>9 DEF OthersHeld
<1> QED BY <1>3, <1>4, <1>8, <1>10, <1>11, <1>12

\* What is on the lists after csul_push of a unit for a connection that is not
\* on any of them; cbsul may have lost units.
LEMMA PushOwner ==
  ASSUME LinkedFit, QueuedFit, ReturningFit', QueuedOnce, ReturningOnce', Apart,
         NEW t \in Worker, NEW u \in Unit, Pushed(t, u),
         UNCHANGED <<clients, curidx, steps>>,
         UnitFits(t, u)',
         \A x \in Conns : x # u.conn => phase'[x] = phase[x],
         TypeOK,
         Unlinked(u.conn), Unqueued(u.conn), ReturnsWithout(u.conn),
         fault' = "none" => OthersReturning(u.conn)
  PROVE  OwnerInv'
<1>1. \A v \in Worker : \A i \in 1 .. Len(csul[v]) : csul[v][i].conn \in Conns
  BY ZenonT(40), UnitTypes
<1>2. LinkedFit'
  <2>1. \A v \in Worker : clients[v] \subseteq Conns
    BY ZenonT(40) DEF TypeOK
  <2> SUFFICES ASSUME NEW v \in Worker, NEW x \in clients[v]
               PROVE  phase'[x] = "live" /\ curidx[x] = v /\ steps[x] = 0
    BY ZenonT(40) DEF LinkedFit
  <2>2. x # u.conn /\ x \in Conns
    BY <2>1 DEF Unlinked
  <2>3. phase'[x] = phase[x]
    BY <2>2
  <2> QED BY ZenonT(40), <2>3 DEF LinkedFit
<1>3. QueuedFit'
  <2> SUFFICES ASSUME NEW v \in Worker, NEW i \in 1 .. Len(csul'[v])
               PROVE  UnitFits(v, csul[v][i])'
    BY ZenonT(40) DEF QueuedFit
  <2>1. CASE i \in 1 .. Len(csul[v]) /\ csul'[v][i] = csul[v][i]
    <3>1. UnitFits(v, csul[v][i])
      BY ZenonT(40), <2>1 DEF QueuedFit
    <3>2. phase'[csul[v][i].conn] = phase[csul[v][i].conn]
      BY ZenonT(40), <1>1, <2>1 DEF Unqueued
    <3> QED BY ZenonT(40), <2>1, <3>1, <3>2 DEF UnitFits, NextIdx
  <2>2. CASE v = t /\ csul'[v][i] = u
    BY ZenonT(40), <2>2 DEF UnitFits
  <2> QED BY <2>1, <2>2 DEF Pushed
<1>4. QueuedOnce'
  <2> SUFFICES ASSUME NEW v \in Worker, NEW x \in Worker,
                      NEW i \in 1 .. Len(csul'[v]), NEW j \in 1 .. Len(csul'[x]),
                      csul'[v][i].conn = csul'[x][j].conn
               PROVE  v = x /\ i = j
    BY DEF QueuedOnce
  <2>1. \/ i \in 1 .. Len(csul[v]) /\ csul'[v][i] = csul[v][i]
        \/ v = t /\ i = Len(csul[t]) + 1 /\ csul'[v][i] = u
    BY DEF Pushed
  <2>2. \/ j \in 1 .. Len(csul[x]) /\ csul'[x][j] = csul[x][j]
        \/ x = t /\ j = Len(csul[t]) + 1 /\ csul'[x][j] = u
    BY DEF Pushed
  <2>3. CASE /\ i \in 1 .. Len(csul[v]) /\ csul'[v][i] = csul[v][i]
             /\ j \in 1 .. Len(csul[x]) /\ csul'[x][j] = csul[x][j]
    BY <2>3 DEF QueuedOnce
  <2>4. CASE /\ i \in 1 .. Len(csul[v]) /\ csul'[v][i] = csul[v][i]
             /\ csul'[x][j] = u
    BY <2>4 DEF Unqueued
  <2>5. CASE /\ j \in 1 .. Len(csul[x]) /\ csul'[x][j] = csul[x][j]
             /\ csul'[v][i] = u
    BY <2>5 DEF Unqueued
  <2> QED BY ZenonT(40), <2>1, <2>2, <2>3, <2>4, <2>5
<1>5. Apart'
  <2>1. ASSUME NEW v \in Worker, NEW i \in 1 .. Len(csul'[v]), NEW x \in Worker
        PROVE  csul'[v][i].conn \notin clients'[x]
    <3>1. CASE i \in 1 .. Len(csul[v]) /\ csul'[v][i] = csul[v][i]
      BY <3>1 DEF Apart
    <3>2. CASE csul'[v][i] = u
      BY ZenonT(40), <3>2 DEF Unlinked
    <3> QED BY <3>1, <3>2 DEF Pushed
  <2>2. ASSUME NEW v \in Worker, NEW i \in 1 .. Len(csul'[v]), NEW j \in 1 .. Len(cbsul')
        PROVE  csul'[v][i].conn # cbsul'[j].conn
    <3>0. PICK k \in 1 .. Len(cbsul) : cbsul'[j] = cbsul[k]
      BY DEF ReturnsWithout
    <3>1. CASE i \in 1 .. Len(csul[v]) /\ csul'[v][i] = csul[v][i]
      BY <3>0, <3>1 DEF Apart
    <3>2. CASE csul'[v][i] = u
      BY <3>2 DEF ReturnsWithout
    <3> QED BY <3>1, <3>2 DEF Pushed
  <2>3. ASSUME NEW v \in Worker, NEW j \in 1 .. Len(cbsul')
        PROVE  cbsul'[j].conn \notin clients'[v]
    BY ZenonT(40) DEF Apart, ReturnsWithout
  <2> QED BY ZenonT(40), <2>1, <2>2, <2>3 DEF Apart
<1>6. NoneLost'
  <2> SUFFICES ASSUME fault' = "none", NEW x \in Conns, phase'[x] # "none"
               PROVE  \/ \E v \in Worker : x \in clients'[v]
                      \/ \E v \in Worker : \E i \in 1 .. Len(csul'[v]) : csul'[v][i].conn = x
                      \/ \E i \in 1 .. Len(cbsul') : cbsul'[i].conn = x
    BY ZenonT(40) DEF NoneLost
  <2>1. CASE x = u.conn
    BY ZenonT(40), <2>1 DEF Pushed
  <2>2. CASE x # u.conn
    <3>1. \/ \E v \in Worker : x \in clients[v]
          \/ \E v \in Worker : \E i \in 1 .. Len(csul[v]) : csul[v][i].conn = x
          \/ \E i \in 1 .. Len(cbsul') : cbsul'[i].conn = x
      BY ZenonT(40), <2>2 DEF OthersReturning
    <3>2. ASSUME NEW v \in Worker, NEW i \in 1 .. Len(csul[v]), csul[v][i].conn = x
          PROVE  i \in 1 .. Len(csul'[v]) /\ csul'[v][i].conn = x
      BY <3>2 DEF Pushed
    <3>3. clients' = clients
      OBVIOUS
    <3> QED BY ZenonT(40), <3>1, <3>2, <3>3
  <2> QED BY ZenonT(40), <2>1, <2>2
<1> QED BY <1>2, <1>3, <1>4, <1>5, <1>6 DEF OwnerInv

\* Every step of every thread keeps OwnerInv.
LEMMA OwnerStep ==
  ASSUME TypeOK, TypeOK', OwnerInv, [Next]_vars
  PROVE  OwnerInv'
<1>0. /\ LinkedFit /\ QueuedFit /\ ReturningFit /\ QueuedOnce /\ ReturningOnce
      /\ Apart /\ NoneLost
  BY DEF OwnerInv
<1>1. ASSUME UNCHANGED <<clientVars, csul, cbsul>>, fault' = "none" => fault = "none"
      PROVE  OwnerInv'
  <2>0. UNCHANGED <<phase, curidx, steps, clients, csul, cbsul>>
    BY <1>1 DEF clientVars
  <2>1. LinkedFit'
    BY <1>0, <2>0 DEF LinkedFit
  <2>2. QueuedFit'
    BY <1>0, <2>0 DEF QueuedFit, UnitFits, NextIdx
  <2>3. ReturningFit'
    BY ZenonT(40), <1>0, <2>0 DEF ReturningFit, NextIdx
  <2>4. QueuedOnce'
    BY <1>0, <2>0 DEF QueuedOnce
  <2>5. ReturningOnce'
    BY <1>0, <2>0 DEF ReturningOnce
  <2>6. Apart'
    BY <1>0, <2>0 DEF Apart
  <2>7. NoneLost'
    <3>1. fault' = "none" => fault = "none"
      BY <1>1
    <3> QED BY <1>0, <2>0, <3>1 DEF NoneLost
  <2> QED BY <2>1, <2>2, <2>3, <2>4, <2>5, <2>6, <2>7 DEF OwnerInv
<1>2. ASSUME NEW c \in Conns, Accept(c), fault = "none" PROVE OwnerInv'
  <2> DEFINE u == [kind |-> "c", conn |-> c]
  <2>2. PICK t \in Worker : t = (last + 1) % N
    BY TidType DEF TypeOK
  <2>1. /\ phase[c] = "none"
        /\ phase' = [phase EXCEPT ![c] = "sock"]
        /\ csul' = [csul EXCEPT ![t] = Append(@, u)]
        /\ UNCHANGED <<curidx, steps, clients, cbsul>>
    BY <1>2, <2>2 DEF Accept
  <2>3. u \in Unit /\ u.kind = "c" /\ u.conn = c
    BY ZenonT(40) DEF Unit, Kind
  <2> HIDE DEF u
  <2>4. phase'[c] = "sock" /\ \A x \in Conns : x # c => phase'[x] = phase[x]
    BY ZenonT(40), <2>1 DEF TypeOK
  <2>5. Pushed(t, u)
    BY ZenonT(40), <2>1, <2>2, <2>3, CsulPush
  <2>6. UnitFits(t, u)'
    BY <2>3, <2>4 DEF UnitFits
  <2>7. Unlinked(c)
    BY <1>0, <2>1 DEF LinkedFit, Unlinked
  <2>8. Unqueued(c)
    <3> USE DEF Unqueued
    <3> TAKE v \in Worker
    <3> TAKE i \in 1 .. Len(csul[v])
    <3>2. csul[v][i].kind \in Kind
      BY UnitTypes
    <3>3. UnitFits(v, csul[v][i])
      BY <1>0 DEF QueuedFit
    <3> QED BY <2>1, <3>2, <3>3 DEF UnitFits, Kind
  <2>9. ReturnsWithout(c)
    BY <1>0, <2>1 DEF ReturningFit, ReturnsWithout
  <2>10. ReturningOnce'
    BY <1>0, <2>1 DEF ReturningOnce
  <2>11. ReturningFit'
    <3> SUFFICES ASSUME NEW i \in 1 .. Len(cbsul)
                 PROVE  phase'[cbsul[i].conn] = "live"
                          /\ cbsul[i].num = NextIdx(curidx[cbsul[i].conn])
      BY <2>1 DEF ReturningFit, NextIdx
    <3>2. cbsul[i].conn \in Conns
      BY UnitTypes
    <3>3. cbsul[i].conn # c
      BY ZenonT(40), <2>1, <2>9 DEF ReturnsWithout
    <3> QED BY ZenonT(40), <1>0, <2>4, <3>2, <3>3 DEF ReturningFit
  <2>12. OthersReturning(c)
    BY <1>0, <1>2, <2>1 DEF NoneLost, OthersReturning
  <2>13. UNCHANGED <<clients, curidx, steps>>
    BY <2>1
  <2> QED
    BY ZenonT(40), <1>0, <2>2, <2>3, <2>4, <2>5, <2>6, <2>7, <2>8, <2>9, <2>10,
       <2>11, <2>12, <2>13, PushOwner
<1>3. ASSUME NEW w \in Worker, MasterBack(w), fault = "none" PROVE OwnerInv'
  <2>1. CASE cbsul = <<>>
    BY ZenonT(40), <1>1, <1>3, <2>1 DEF MasterBack
  <2>2. CASE cbsul # <<>>
    <3>0. PICK su : su = Head(cbsul)
      BY ZenonT(40)
    <3> DEFINE u == [kind |-> "j", conn |-> su.conn]
    <3>1. /\ csul' = [csul EXCEPT ![su.num] = Append(@, u)]
          /\ cbsul' = Tail(cbsul)
          /\ UNCHANGED <<clientVars, fault>>
      BY <1>3, <2>2, <3>0 DEF MasterBack
    <3>2. /\ 1 \in 1 .. Len(cbsul) /\ su = cbsul[1]
          /\ \A i \in 1 .. Len(cbsul') : i + 1 \in 1 .. Len(cbsul) /\ cbsul'[i] = cbsul[i + 1]
          /\ \A i \in 1 .. Len(cbsul) :
               i = 1 \/ \E j \in 1 .. Len(cbsul') : cbsul'[j] = cbsul[i]
      BY <2>2, <3>0, <3>1, CbsulPop
    <3>4. su \in BackUnit
      BY <3>2, UnitTypes
    <3>5. su.num \in Worker /\ u \in Unit /\ u.kind = "j" /\ u.conn = su.conn
      BY <3>4 DEF BackUnit, Unit, Kind
    <3>6. phase[su.conn] = "live" /\ su.num = NextIdx(curidx[su.conn])
      BY <1>0, <3>2 DEF ReturningFit
    <3> HIDE DEF u
    <3>7. Pushed(su.num, u)
      BY ZenonT(40), <3>1, <3>5, CsulPush
    <3>8. UNCHANGED <<phase, curidx, steps, clients, fault>>
      BY <3>1 DEF clientVars
    <3>9. UnitFits(su.num, u)'
      BY <3>5, <3>6, <3>8 DEF UnitFits, NextIdx
    <3>10. Unlinked(u.conn)
      BY <1>0, <3>2, <3>5 DEF Apart, Unlinked
    <3>11. Unqueued(u.conn)
      BY <1>0, <3>2, <3>5 DEF Apart, Unqueued
    <3>12. ReturnsWithout(u.conn)
      <4> USE DEF ReturnsWithout
      <4> TAKE i \in 1 .. Len(cbsul')
      <4>1. i + 1 \in 1 .. Len(cbsul) /\ cbsul'[i] = cbsul[i + 1] /\ i + 1 # 1
        BY <3>2
      <4>2. cbsul[i + 1].conn # cbsul[1].conn
        BY <1>0, <3>2, <4>1 DEF ReturningOnce
      <4> QED BY <3>2, <3>5, <4>1, <4>2
    <3>13. ReturningFit'
      BY <1>0, <3>8, <3>12 DEF ReturnsWithout, ReturningFit, NextIdx
    <3>14. ReturningOnce'
      <4> SUFFICES ASSUME NEW i \in 1 .. Len(cbsul'), NEW j \in 1 .. Len(cbsul'),
                          cbsul'[i].conn = cbsul'[j].conn
                   PROVE  i = j
        BY DEF ReturningOnce
      <4>1. /\ i + 1 \in 1 .. Len(cbsul) /\ cbsul'[i] = cbsul[i + 1]
            /\ j + 1 \in 1 .. Len(cbsul) /\ cbsul'[j] = cbsul[j + 1]
        BY ZenonT(40), <3>2
      <4>2. i + 1 = j + 1
        BY <1>0, <4>1 DEF ReturningOnce
      <4> QED BY <4>2
    <3>15. ASSUME fault' = "none", NEW x \in Conns \ {u.conn}, phase[x] # "none"
           PROVE  \/ \E v \in Worker : x \in clients[v]
                  \/ \E v \in Worker : \E i \in 1 .. Len(csul[v]) : csul[v][i].conn = x
                  \/ \E i \in 1 .. Len(cbsul') : cbsul'[i].conn = x
      <4>1. \/ \E v \in Worker : x \in clients[v]
            \/ \E v \in Worker : \E i \in 1 .. Len(csul[v]) : csul[v][i].conn = x
            \/ \E i \in 1 .. Len(cbsul) : cbsul[i].conn = x
        BY <1>0, <3>8, <3>15 DEF NoneLost
      <4>2. ASSUME NEW i \in 1 .. Len(cbsul), cbsul[i].conn = x
            PROVE  \E j \in 1 .. Len(cbsul') : cbsul'[j].conn = x
        BY ZenonT(40), <3>2, <3>5, <4>2
      <4> QED BY <4>1, <4>2
    <3>16. fault' = "none" => OthersReturning(u.conn)
      BY <3>15 DEF OthersReturning
    <3>17. \A x \in Conns : x # u.conn => phase'[x] = phase[x]
      BY <3>8
    <3>18. UNCHANGED <<clients, curidx, steps>>
      BY <3>8
    <3> QED BY ZenonT(40), <1>0, <3>5, <3>7, <3>9, <3>10, <3>11, <3>12, <3>13, <3>14,
               <3>16, <3>17, <3>18, PushOwner
  <2> QED BY <2>1, <2>2
<1>4. ASSUME NEW w \in Worker, NEW c \in clients[w], NEW K \in SUBSET (clients[w] \ {c}),
             NEW how \in {"stay", "jump", "free"}, Settle(w, c, K, how),
             UNCHANGED <<curidx, steps, csul, fault>>
      PROVE  OwnerInv'
  <2>1. c \in Conns
    BY ZenonT(40) DEF TypeOK
  <2>2. phase[c] = "live" /\ curidx[c] = w /\ steps[c] = 0
    BY <1>0 DEF LinkedFit
  <2>3. OnlyWith(w, c)
    BY <1>0, <2>2 DEF LinkedFit, OnlyWith
  <2>4. NotReturning(c)
    BY <1>0 DEF Apart, NotReturning
  <2>5. QueuedOnce'
    <3>1. csul' = csul
      BY <1>4
    <3> QED BY <1>0, <3>1 DEF QueuedOnce
  <2>6. QueuesWithout(c)
    <3> SUFFICES ASSUME NEW v \in Worker, NEW i \in 1 .. Len(csul[v])
                 PROVE  /\ UnitFits(v, csul[v][i])
                        /\ csul[v][i].conn # c
                        /\ csul[v][i].conn \in Conns
                        /\ \A x \in Worker : csul[v][i].conn \notin clients[x]
                        /\ \A j \in 1 .. Len(cbsul) : csul[v][i].conn # cbsul[j].conn
      BY <1>4 DEF QueuesWithout
    <3>1. UnitFits(v, csul[v][i])
      BY ZenonT(40), <1>0 DEF QueuedFit
    <3>2. csul[v][i].conn \in Conns
      BY UnitTypes
    <3> QED BY ZenonT(40), <1>0, <3>1, <3>2 DEF Apart
  <2>8. fault' = "none" => OthersHeld(c)
    BY ZenonT(40), <1>0, <1>4 DEF NoneLost, OthersHeld
  <2>9. curidx'[c] = w /\ steps'[c] = 0 /\ RoutesWithout(c)
    BY <1>4, <2>2 DEF RoutesWithout
  <2>10. Settle(w, c, K, how)
    BY <1>4
  <2> QED BY <1>0, <2>1, <2>2, <2>3, <2>4, <2>5, <2>6, <2>8, <2>9, <2>10, SettleOwner
<1>5. ASSUME NEW w \in Worker, ReadQuery(w) PROVE OwnerInv'
  <2>1. PICK c \in clients[w] : \E K \in SUBSET (clients[w] \ {c}) :
          \E how \in AfterCommand : Settle(w, c, K, how)
    BY <1>5 DEF ReadQuery
  <2>2. PICK K \in SUBSET (clients[w] \ {c}), how \in AfterCommand : Settle(w, c, K, how)
    BY <2>1
  <2>3. how \in {"stay", "jump", "free"}
    BY DEF AfterCommand
  <2>4. UNCHANGED <<curidx, steps, csul, fault>>
    BY <1>5 DEF ReadQuery
  <2> QED BY ZenonT(40), <1>4, <2>2, <2>3, <2>4
<1>6. ASSUME NEW w \in Worker, CloseClient(w) PROVE OwnerInv'
  <2>1. PICK c \in clients[w] : Settle(w, c, {}, "free")
    BY <1>6 DEF CloseClient
  <2>2. UNCHANGED <<curidx, steps, csul, fault>>
    BY <1>6 DEF CloseClient
  <2> QED BY <1>4, <2>1, <2>2
<1>7. ASSUME NEW w \in Worker, WorkerNew(w), fault = "none" PROVE OwnerInv'
  <2>1. CASE csul[w] = <<>>
    BY <1>1, <1>7, <2>1 DEF WorkerNew
  <2>2. CASE csul[w] # <<>>
    <3>0. PICK c : c = Head(csul[w]).conn
      BY ZenonT(40)
    <3>1. csul' = [csul EXCEPT ![w] = Tail(@)] /\ cbsul' = cbsul
      BY <1>7, <2>2 DEF WorkerNew
    <3>2. Popped(w)
      BY Zenon, <2>2, <3>1, CsulPop
    <3>3. /\ c \in Conns
          /\ UnitFits(w, Head(csul[w]))
          /\ QueuedOnce'
          /\ QueuesWithout(c) /\ Unlinked(c) /\ NotReturning(c)
          /\ OthersHeld(c)
      BY Zenon, <1>7, <3>0, <3>2, PopOwner
    <3>4. ReturningOnce'
      BY <1>0, <3>1 DEF ReturningOnce
    <3>5. ASSUME \A x \in Conns \ {c} : /\ phase'[x] = phase[x] /\ curidx'[x] = curidx[x]
                                        /\ steps'[x] = steps[x],
                 \A v \in Worker : \A x \in Conns \ {c} : x \in clients'[v] <=> x \in clients[v],
                 \A v \in Worker : c \in clients'[v] =>
                   phase'[c] = "live" /\ curidx'[c] = v /\ steps'[c] = 0,
                 (fault' = "none" /\ phase'[c] # "none") => \E v \in Worker : c \in clients'[v]
          PROVE  OwnerInv'
      <4>0. \A v \in Worker : clients'[v] \subseteq Conns
        BY DEF TypeOK
      <4>1. LinkedFit'
        <5> SUFFICES ASSUME NEW v \in Worker, NEW x \in clients'[v]
                     PROVE  phase'[x] = "live" /\ curidx'[x] = v /\ steps'[x] = 0
          BY DEF LinkedFit
        <5>1. CASE x = c
          BY <3>5, <5>1
        <5>2. CASE x # c
          <6>1. x \in Conns \ {c} /\ x \in clients[v]
            BY <3>5, <4>0, <5>2
          <6>2. phase[x] = "live" /\ curidx[x] = v /\ steps[x] = 0
            BY ZenonT(40), <1>0, <6>1 DEF LinkedFit
          <6> QED BY <3>5, <6>1, <6>2
        <5> QED BY <5>1, <5>2
      <4>2. QueuedFit'
        <5> SUFFICES ASSUME NEW v \in Worker, NEW i \in 1 .. Len(csul'[v])
                     PROVE  UnitFits(v, csul[v][i])'
          BY ZenonT(40) DEF QueuedFit
        <5>1. UnitFits(v, csul'[v][i]) /\ csul'[v][i].conn \in Conns \ {c}
          BY ZenonT(40), <3>3 DEF QueuesWithout
        <5> QED BY <3>5, <5>1 DEF UnitFits, NextIdx
      <4>3. ReturningFit'
        <5> SUFFICES ASSUME NEW i \in 1 .. Len(cbsul)
                     PROVE  /\ phase'[cbsul[i].conn] = "live"
                            /\ cbsul[i].num = NextIdx(curidx'[cbsul[i].conn])
          BY <3>1 DEF ReturningFit, NextIdx
        <5>1. cbsul[i].conn \in Conns \ {c}
          BY ZenonT(40), <3>3, UnitTypes DEF NotReturning
        <5> QED BY ZenonT(40), <1>0, <3>5, <5>1 DEF ReturningFit
      <4>4. Apart'
        <5>1. ASSUME NEW v \in Worker, NEW i \in 1 .. Len(csul'[v]), NEW x \in Worker
              PROVE  csul'[v][i].conn \notin clients'[x]
          BY ZenonT(40), <3>3, <3>5 DEF QueuesWithout
        <5>2. ASSUME NEW v \in Worker, NEW i \in 1 .. Len(csul'[v]), NEW j \in 1 .. Len(cbsul')
              PROVE  csul'[v][i].conn # cbsul'[j].conn
          <6>1. cbsul' = cbsul
            BY ZenonT(40), <3>1
          <6> QED BY <3>3, <6>1 DEF QueuesWithout
        <5>3. ASSUME NEW v \in Worker, NEW j \in 1 .. Len(cbsul')
              PROVE  cbsul'[j].conn \notin clients'[v]
          <6>1. cbsul'[j] = cbsul[j] /\ cbsul[j].conn \in Conns \ {c}
            BY ZenonT(40), <3>1, <3>3, UnitTypes DEF NotReturning
          <6> QED BY ZenonT(40), <1>0, <3>1, <3>5, <6>1 DEF Apart
        <5> QED BY ZenonT(40), <5>1, <5>2, <5>3 DEF Apart
      <4>5. NoneLost'
        <5> SUFFICES ASSUME fault' = "none", NEW x \in Conns, phase'[x] # "none"
                     PROVE  \/ \E v \in Worker : x \in clients'[v]
                            \/ \E v \in Worker : \E i \in 1 .. Len(csul'[v]) : csul'[v][i].conn = x
                            \/ \E i \in 1 .. Len(cbsul') : cbsul'[i].conn = x
          BY DEF NoneLost
        <5>1. CASE x = c
          BY ZenonT(40), <3>5, <5>1
        <5>2. CASE x # c
          <6>1. phase[x] # "none" /\ \A v \in Worker : x \in clients'[v] <=> x \in clients[v]
            BY <3>5, <5>2
          <6>2. cbsul' = cbsul
            BY ZenonT(40), <3>1
          <6> QED BY ZenonT(40), <3>3, <5>2, <6>1, <6>2 DEF OthersHeld
        <5> QED BY ZenonT(40), <5>1, <5>2
      <4> QED BY ZenonT(40), <3>3, <3>4, <4>1, <4>2, <4>3, <4>4, <4>5 DEF OwnerInv
    <3>6. CASE fault' = "mixup" /\ UNCHANGED clientVars
      BY ZenonT(40), <3>3, <3>5, <3>6 DEF clientVars, Unlinked
    <3>7. CASE /\ phase' = [phase EXCEPT ![c] = "live"]
               /\ clients' = [clients EXCEPT ![w] = @ \cup {c}]
               /\ curidx' = [curidx EXCEPT ![c] = w]
               /\ steps' = [steps EXCEPT ![c] = 0]
      <4>1. /\ phase'[c] = "live" /\ curidx'[c] = w /\ steps'[c] = 0
            /\ \A x \in Conns \ {c} : /\ phase'[x] = phase[x] /\ curidx'[x] = curidx[x]
                                      /\ steps'[x] = steps[x]
        <5>1. /\ phase \in [Conns -> Phase] /\ curidx \in [Conns -> Worker \cup {-1}]
              /\ steps \in [Conns -> 0 .. N-1] /\ c \in Conns
          BY ZenonT(40), <3>3 DEF TypeOK
        <5>2. phase'[c] = "live" /\ \A x \in Conns \ {c} : phase'[x] = phase[x]
          BY <3>7, <5>1
        <5>3. curidx'[c] = w /\ \A x \in Conns \ {c} : curidx'[x] = curidx[x]
          BY <3>7, <5>1
        <5>4. steps'[c] = 0 /\ \A x \in Conns \ {c} : steps'[x] = steps[x]
          BY <3>7, <5>1
        <5> QED BY ZenonT(40), <5>2, <5>3, <5>4
      <4>2. clients'[w] = clients[w] \cup {c} /\ \A v \in Worker : v # w => clients'[v] = clients[v]
        BY ZenonT(40), <3>7 DEF TypeOK
      <4> QED BY ZenonT(40), <3>3, <3>5, <4>1, <4>2 DEF Unlinked
    <3>8. CASE phase' = [phase EXCEPT ![c] = "none"] /\ UNCHANGED <<curidx, steps, clients>>
      <4>1. phase'[c] = "none" /\ \A x \in Conns \ {c} : phase'[x] = phase[x]
        BY ZenonT(40), <3>3, <3>8 DEF TypeOK
      <4> QED BY ZenonT(40), <3>3, <3>5, <3>8, <4>1 DEF Unlinked
    <3>9. \/ fault' = "mixup" /\ UNCHANGED clientVars
          \/ /\ phase' = [phase EXCEPT ![c] = "live"]
             /\ clients' = [clients EXCEPT ![w] = @ \cup {c}]
             /\ curidx' = [curidx EXCEPT ![c] = w]
             /\ steps' = [steps EXCEPT ![c] = 0]
          \/ phase' = [phase EXCEPT ![c] = "none"] /\ UNCHANGED <<curidx, steps, clients>>
      BY ZenonT(40), <1>7, <2>2, <3>0 DEF WorkerNew
    <3> QED BY <3>6, <3>7, <3>8, <3>9
  <2> QED BY ZenonT(40), <2>1, <2>2
<1>8. ASSUME NEW w \in Worker, WorkerJump(w), fault = "none" PROVE OwnerInv'
  <2>1. CASE csul[w] = <<>>
    BY ZenonT(40), <1>1, <1>8, <2>1 DEF WorkerJump
  <2>2. CASE csul[w] # <<>>
    <3>0. PICK c : c = Head(csul[w]).conn
      BY ZenonT(40)
    <3>1. csul' = [csul EXCEPT ![w] = Tail(@)]
      BY Zenon, <1>8, <2>2 DEF WorkerJump
    <3>2. Popped(w)
      BY ZenonT(40), <2>2, <3>1, CsulPop
    <3>3. /\ c \in Conns
          /\ UnitFits(w, Head(csul[w]))
          /\ QueuedOnce'
          /\ QueuesWithout(c) /\ Unlinked(c) /\ NotReturning(c)
          /\ OthersHeld(c)
      BY Zenon, <1>8, <3>0, <3>2, PopOwner
    <3>4. CASE fault' \in {"mixup", "assert"} /\ UNCHANGED <<clientVars, cbsul>>
      <4>1. LinkedFit' /\ ReturningFit' /\ ReturningOnce'
        BY ZenonT(40), <1>0, <3>4 DEF clientVars, LinkedFit, ReturningFit, ReturningOnce, NextIdx
      <4>2. QueuedFit'
        BY ZenonT(40), <3>3, <3>4 DEF QueuesWithout, clientVars, QueuedFit, UnitFits, NextIdx
      <4>3. Apart'
        BY ZenonT(40), <1>0, <3>3, <3>4 DEF QueuesWithout, clientVars, Apart
      <4>4. NoneLost'
        BY ZenonT(40), <3>4 DEF NoneLost
      <4> QED BY ZenonT(40), <3>3, <4>1, <4>2, <4>3, <4>4 DEF OwnerInv
    <3>5. CASE /\ Head(csul[w]).kind = "j"
               /\ curidx' = [curidx EXCEPT ![c] = w]
               /\ \E K \in SUBSET clients[w] : \E how \in {"stay", "jump", "free"} :
                    /\ Settle(w, c, K, how)
                    /\ \/ how = "jump" /\ steps' = [steps EXCEPT ![c] = steps[c] + 1]
                       \/ steps' = [steps EXCEPT ![c] = 0]
      <4>1. PICK K \in SUBSET clients[w], how \in {"stay", "jump", "free"} :
              /\ Settle(w, c, K, how)
              /\ \/ how = "jump" /\ steps' = [steps EXCEPT ![c] = steps[c] + 1]
                 \/ steps' = [steps EXCEPT ![c] = 0]
        BY <3>5
      <4>2. K \in SUBSET (clients[w] \ {c})
        BY ZenonT(40), <3>3 DEF Unlinked
      <4>3. phase[c] = "live"
        BY ZenonT(40), <3>0, <3>3, <3>5 DEF UnitFits
      <4>0. curidx \in [Conns -> Worker \cup {-1}] /\ steps \in [Conns -> 0 .. N-1] /\ c \in Conns
        BY ZenonT(40), <3>3 DEF TypeOK
      <4>4a. curidx' = [curidx EXCEPT ![c] = w]
        BY Zenon, <3>5
      <4>4b. \/ how = "jump" /\ steps' = [steps EXCEPT ![c] = steps[c] + 1]
             \/ steps' = [steps EXCEPT ![c] = 0]
        BY <4>1
      <4>4. curidx'[c] = w /\ (how = "stay" => steps'[c] = 0)
        BY ZenonT(40), <4>0, <4>4a, <4>4b
      <4>5. RoutesWithout(c)
        BY ZenonT(40), <4>0, <4>4a, <4>4b DEF RoutesWithout
      <4>6. OnlyWith(w, c)
        BY <3>3 DEF Unlinked, OnlyWith
      <4>7. Settle(w, c, K, how)
        BY ZenonT(40), <4>1
      <4> QED BY ZenonT(40), <1>0, <3>3, <4>2, <4>3, <4>4, <4>5, <4>6, <4>7, SettleOwner
    <3>6. \/ fault' \in {"mixup", "assert"} /\ UNCHANGED <<clientVars, cbsul>>
          \/ /\ Head(csul[w]).kind = "j"
             /\ curidx' = [curidx EXCEPT ![c] = w]
             /\ steps' = [steps EXCEPT ![c] = steps[c] + 1]
             /\ \E K \in SUBSET clients[w] : Settle(w, c, K, "jump")
          \/ /\ Head(csul[w]).kind = "j"
             /\ curidx' = [curidx EXCEPT ![c] = w]
             /\ steps' = [steps EXCEPT ![c] = 0]
             /\ \E K \in SUBSET clients[w] : \E how \in AfterCommand \cup {"free"} :
                  Settle(w, c, K, how)
      BY ZenonT(40), <1>8, <2>2, <3>0 DEF WorkerJump, clientVars
    <3>7. AfterCommand \cup {"free"} \subseteq {"stay", "jump", "free"}
      BY DEF AfterCommand
    <3> QED BY <3>4, <3>5, <3>6, <3>7
  <2> QED BY ZenonT(40), <2>1, <2>2
<1>9. ASSUME NoticeNew \/ CountNew \/ NoticeJump PROVE OwnerInv'
  BY ZenonT(40), <1>1, <1>9 DEF NoticeNew, CountNew, NoticeJump
<1>10. ASSUME NEW w \in Worker, Announce(w), fault = "none" PROVE OwnerInv'
  BY <1>1, <1>10 DEF Announce
<1>11. CASE UNCHANGED vars
  BY <1>1, <1>11 DEF vars, clientVars
<1>12. CASE fault = "none" /\ Master
  BY ZenonT(40), <1>2, <1>3, <1>9, <1>11, <1>12 DEF Master, Reject
<1>13. ASSUME fault = "none", NEW w \in Worker, WorkerThread(w) PROVE OwnerInv'
  BY <1>5, <1>6, <1>7, <1>8, <1>10, <1>13 DEF WorkerThread
<1> QED BY <1>11, <1>12, <1>13 DEF Next, Aborted

\* OwnerInv holds in every reachable state.
LEMMA OwnerInvariant == Spec => []OwnerInv
<1>1. Init => OwnerInv
  BY DEF Init, OwnerInv, LinkedFit, QueuedFit, ReturningFit, QueuedOnce, ReturningOnce,
     Apart, NoneLost
<1>2. TypeOK /\ TypeOK' /\ OwnerInv /\ [Next]_vars => OwnerInv'
  BY OwnerStep
<1> QED BY <1>1, <1>2, TypeCorrect, PTL DEF Spec

\* No connection is ever on two lists or twice on one, whatever notice is lost
\* or misread and whatever allocation fails; and while nothing failed every
\* open connection is on one.
THEOREM OwnersExclusive == Spec => []OneOwner
<1>1. TypeOK /\ OwnerInv => OneOwner
  <2> SUFFICES ASSUME TypeOK, OwnerInv PROVE OneOwner
    OBVIOUS
  <2>0. /\ LinkedFit /\ QueuedFit /\ ReturningFit /\ QueuedOnce /\ ReturningOnce
        /\ Apart /\ NoneLost
    BY DEF OwnerInv
  <2>1. ASSUME NEW w \in Worker, NEW v \in Worker, w # v
        PROVE  clients[w] \cap clients[v] = {} /\ Queued(w) \cap Queued(v) = {}
    BY <2>0, <2>1 DEF LinkedFit, QueuedOnce, Queued
  <2>2. ASSUME NEW w \in Worker, NEW v \in Worker PROVE clients[w] \cap Queued(v) = {}
    BY <2>0 DEF Apart, Queued
  <2>3. ASSUME NEW w \in Worker PROVE (clients[w] \cup Queued(w)) \cap Returning = {}
    BY <2>0 DEF Apart, Queued, Returning
  <2>4. ASSUME NEW w \in Worker PROVE clients[w] \subseteq Open
    BY ZenonT(40), <2>0 DEF LinkedFit, Open, TypeOK
  <2>5. ASSUME NEW w \in Worker PROVE Queued(w) \subseteq Open
    <3> SUFFICES ASSUME NEW i \in 1 .. Len(csul[w]) PROVE csul[w][i].conn \in Open
      BY DEF Queued
    <3>1. csul[w][i].kind \in Kind /\ csul[w][i].conn \in Conns
      BY UnitTypes
    <3>2. UnitFits(w, csul[w][i])
      BY <2>0 DEF QueuedFit
    <3>3. phase[csul[w][i].conn] # "none"
      BY <3>1, <3>2 DEF UnitFits, Kind
    <3> QED BY <3>1, <3>3 DEF Open
  <2>6. Returning \subseteq Open
    BY ZenonT(40), <2>0, UnitTypes DEF ReturningFit, Open, Returning
  <2>7. fault = "none" =>
          \A c \in Open : c \in Returning \/ \E w \in Worker : c \in clients[w] \cup Queued(w)
    BY <2>0 DEF NoneLost, Open, Returning, Queued
  <2> QED BY <2>0, <2>1, <2>2, <2>3, <2>4, <2>5, <2>6, <2>7
          DEF OneOwner, QueuedOnce, ReturningOnce
<1> QED BY <1>1, TypeCorrect, OwnerInvariant, PTL

\* A linked client is at its curidx and a moving one is sent to the worker
\* after it.
THEOREM RoutingCorrect == Spec => []RoutedByCuridx
<1>1. OwnerInv => RoutedByCuridx
  BY DEF OwnerInv, LinkedFit, QueuedFit, UnitFits, ReturningFit, RoutedByCuridx
<1> QED BY <1>1, OwnerInvariant, PTL
=============================================================================
