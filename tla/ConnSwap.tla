------------------------------ MODULE ConnSwap ------------------------------
(***************************************************************************)
(* How vire hands connections to its worker threads and moves clients from *)
(* worker to worker (vr_master.c, vr_worker.c, and the linking and freeing *)
(* of clients in vr_client.c).                                             *)
(*                                                                         *)
(* The master accepts a socket, queues a swap unit on a worker's list csul *)
(* and writes the byte 'c' to the worker's socketpair.  A client running   *)
(* CLIENT LIST, CLIENT KILL or COMMAND STATS "jumps": its worker unlinks   *)
(* it, queues a unit on the master's list cbsul and writes 'b'; the master *)
(* moves the unit to the csul of the target and writes 'j'.  The byte and  *)
(* the unit travel separately: a unit has no tag, and the byte alone tells *)
(* the worker whether it holds a new socket or a client.                   *)
(*                                                                         *)
(* An action is what one thread does between two accesses to state that    *)
(* another thread can see change: a whole event handler, cut only where    *)
(* dispatch_conn_new and dispatch_conn_exist touch shared state again      *)
(* after they have published a unit.                                       *)
(***************************************************************************)
EXTENDS Integers, Sequences, FiniteSets, Functions

CONSTANTS
  N,           \* darray_n(&workers), the number of worker threads
  Conns,       \* names for connections, and for the clients made of them
  NoConn,      \* not a connection
  MaxClients,  \* the maxclients option
  NoticeCap,   \* how many unread bytes one direction of a socketpair holds
  ReadFail,    \* whether vr_read may fail on a socketpair that has a byte
  AllocFail    \* whether dalloc may return NULL

ASSUME ConstantsAssumption ==
  /\ N \in Nat \ {0}
  /\ MaxClients \in Nat
  /\ NoticeCap \in Nat
  /\ IsFiniteSet(Conns)
  /\ NoConn \notin Conns
  /\ ReadFail \in BOOLEAN
  /\ AllocFail \in BOOLEAN

Worker == 0 .. N-1

(***************************************************************************)
(* A name of Conns is free ("none"), an accepted socket that is not a      *)
(* client yet ("sock"), or a client ("live").  A unit carries in `kind'    *)
(* what its data pointer really is; the code cannot see it.                *)
(***************************************************************************)
Phase == {"none", "sock", "live"}
Kind  == {"c", "j"}
Unit  == [kind : Kind, conn : Conns]
BackUnit == [num : Worker, conn : Conns]
MasterAt == {"idle", "noticeNew", "count", "noticeJump"}
Fault == {"none", "mixup", "wild", "assert"}

VARIABLES
  phase,    \* Conns -> Phase
  curidx,   \* Conns -> the client's curidx, -1 before it is set
  steps,    \* Conns -> the client's steps
  clients,  \* Worker -> the clients on vel->clients
  csul,     \* Worker -> its connect swap unit list
  down,     \* Worker -> the bytes on their way from the master
  up,       \* Worker -> the number of 'b' bytes on their way to the master
  cbsul,    \* the master's connect back swap unit list
  ncurr,    \* ncurr_cconn
  last,     \* last_worker_thread
  master,   \* where the master thread is, and the worker it deals with
  dist,     \* Worker -> the client it has pushed on cbsul but not announced
  fault     \* what undefined behaviour or failed assertion ended the run

clientVars == <<phase, curidx, steps, clients>>
masterVars == <<last, master>>
vars == <<phase, curidx, steps, clients, csul, down, up, cbsul, ncurr, last,
          master, dist, fault>>

Idle == [at |-> "idle", w |-> 0]

Init ==
  /\ phase = [c \in Conns |-> "none"]
  /\ curidx = [c \in Conns |-> -1]
  /\ steps = [c \in Conns |-> 0]
  /\ clients = [w \in Worker |-> {}]
  /\ csul = [w \in Worker |-> <<>>]
  /\ down = [w \in Worker |-> <<>>]
  /\ up = [w \in Worker |-> 0]
  /\ cbsul = <<>>
  /\ ncurr = 0
  /\ last = -1
  /\ master = Idle
  /\ dist = [w \in Worker |-> NoConn]
  /\ fault = "none"

Open == {c \in Conns : phase[c] # "none"}

\* worker_get_next_idx
NextIdx(w) == IF w + 1 >= N THEN 0 ELSE w + 1

\* vr_write of one byte on a nonblocking socketpair: a full one takes nothing
\* and the caller only logs it.
WriteByte(pipe, byte) ==
  IF Len(pipe) < NoticeCap THEN Append(pipe, byte) ELSE pipe

\* vr_read of one byte in the worker's thread_event_process: when it fails the
\* byte stays, and the handler goes on as if it had read 'c'.
ReadByte(w, byte) ==
  /\ down[w] # <<>>
  /\ \/ /\ Head(down[w]) = byte
        /\ down' = [down EXCEPT ![w] = Tail(@)]
     \/ /\ ReadFail /\ byte = "c"
        /\ UNCHANGED down

-----------------------------------------------------------------------------
(***************************************************************************)
(* The master thread.                                                      *)
(***************************************************************************)

\* client_accept, vr_listen_accept and dispatch_conn_new up to csul_push.  A
\* name is taken again only when no worker still holds a pointer to the client
\* it stood for.
Accept(c) ==
  LET tid == (last + 1) % N IN
  /\ master = Idle
  /\ phase[c] = "none"
  /\ \A w \in Worker : dist[w] # c
  /\ ncurr < MaxClients
  /\ phase' = [phase EXCEPT ![c] = "sock"]
  /\ csul' = [csul EXCEPT ![tid] = Append(@, [kind |-> "c", conn |-> c])]
  /\ last' = tid
  /\ master' = [at |-> "noticeNew", w |-> tid]
  /\ UNCHANGED <<curidx, steps, clients, down, up, cbsul, ncurr, dist, fault>>

\* A connection over the limit, or one for which csui_new fails in
\* dispatch_conn_new, is closed at once.
Reject ==
  /\ master = Idle
  /\ ncurr >= MaxClients \/ AllocFail
  /\ UNCHANGED vars

\* dispatch_conn_new: write 'c' to the worker.
NoticeNewForgotten ==
  /\ master.at = "noticeNew"
  /\ master' = [master EXCEPT !.at = "count"]
  /\ UNCHANGED <<clientVars, csul, down, up, cbsul, ncurr, last, dist, fault>>
NoticeNew ==
  /\ master.at = "noticeNew"
  /\ down' = [down EXCEPT ![master.w] = WriteByte(@, "c")]
  /\ master' = [master EXCEPT !.at = "count"]
  /\ UNCHANGED <<clientVars, csul, up, cbsul, ncurr, last, dist, fault>>

\* dispatch_conn_new: update_curr_clients_add(1), after the worker was told.
CountNewForgotten ==
  /\ master.at = "count"
  /\ master' = Idle
  /\ UNCHANGED <<clientVars, csul, down, up, cbsul, ncurr, last, dist, fault>>
CountNew ==
  /\ master.at = "count"
  /\ ncurr' = ncurr + 1
  /\ master' = Idle
  /\ UNCHANGED <<clientVars, csul, down, up, cbsul, last, dist, fault>>

\* The master's thread_event_process: a 'b' from worker w, or a failed read,
\* taken for a 'b'.  The unit popped is the oldest of cbsul, whichever worker
\* pushed it.
MasterBack(w) ==
  /\ master = Idle
  /\ up[w] > 0
  /\ \/ up' = [up EXCEPT ![w] = @ - 1]
     \/ ReadFail /\ UNCHANGED up
  /\ \/ /\ cbsul = <<>>
        /\ UNCHANGED <<csul, cbsul, master>>
     \/ /\ cbsul # <<>>
        /\ LET su == Head(cbsul) IN
             /\ csul' = [csul EXCEPT ![su.num] =
                           Append(@, [kind |-> "j", conn |-> su.conn])]
             /\ master' = [at |-> "noticeJump", w |-> su.num]
        /\ cbsul' = Tail(cbsul)
  /\ UNCHANGED <<clientVars, down, ncurr, last, dist, fault>>

\* The master's thread_event_process: write 'j' to the target.
NoticeJumpForgotten ==
  /\ master.at = "noticeJump"
  /\ master' = Idle
  /\ UNCHANGED <<clientVars, csul, down, up, cbsul, ncurr, last, dist, fault>>
NoticeJumpAsNew ==
  /\ master.at = "noticeJump"
  /\ down' = [down EXCEPT ![master.w] = WriteByte(@, "c")]
  /\ master' = Idle
  /\ UNCHANGED <<clientVars, csul, up, cbsul, ncurr, last, dist, fault>>
NoticeJump ==
  /\ master.at = "noticeJump"
  /\ down' = [down EXCEPT ![master.w] = WriteByte(@, "j")]
  /\ master' = Idle
  /\ UNCHANGED <<clientVars, csul, up, cbsul, ncurr, last, dist, fault>>

-----------------------------------------------------------------------------
(***************************************************************************)
(* A worker thread.  dist[w] # NoConn says that w is inside                *)
(* dispatch_conn_exist, past cbsul_push.                                   *)
(***************************************************************************)

\* What a handler of worker w leaves behind when it ran commands of client c
\* and freed the clients in K: c stays linked to w, is freed too, or is
\* unlinked, put on cbsul for the next worker and still to be announced.
\* freeClient ends in conn_put, which gives the place of the socket back.
SettleKeepsLink(w, c, K, how) ==
  LET freed == IF how = "free" THEN K \cup {c} ELSE K IN
  /\ phase' = [x \in Conns |-> IF x \in freed THEN "none" ELSE phase[x]]
  /\ clients' = [clients EXCEPT ![w] = @ \ freed]
  /\ ncurr' = ncurr - Cardinality(freed)
  /\ cbsul' = IF how = "jump"
              THEN Append(cbsul, [num |-> NextIdx(w), conn |-> c])
              ELSE cbsul
  /\ dist' = [dist EXCEPT ![w] = IF how = "jump" THEN c ELSE NoConn]
SettleToSelf(w, c, K, how) ==
  LET freed == IF how = "free" THEN K \cup {c} ELSE K IN
  /\ phase' = [x \in Conns |-> IF x \in freed THEN "none" ELSE phase[x]]
  /\ clients' = [clients EXCEPT ![w] =
                   IF how = "stay" THEN (@ \ K) \cup {c} ELSE (@ \ K) \ {c}]
  /\ ncurr' = ncurr - Cardinality(freed)
  /\ cbsul' = IF how = "jump" THEN Append(cbsul, [num |-> w, conn |-> c]) ELSE cbsul
  /\ dist' = [dist EXCEPT ![w] = IF how = "jump" THEN c ELSE NoConn]
Settle(w, c, K, how) ==
  LET freed == IF how = "free" THEN K \cup {c} ELSE K IN
  /\ phase' = [x \in Conns |-> IF x \in freed THEN "none" ELSE phase[x]]
  /\ clients' = [clients EXCEPT ![w] =
                   IF how = "stay" THEN (@ \ K) \cup {c} ELSE (@ \ K) \ {c}]
  /\ ncurr' = ncurr - Cardinality(freed)
  /\ cbsul' = IF how = "jump"
              THEN Append(cbsul, [num |-> NextIdx(w), conn |-> c])
              ELSE cbsul
  /\ dist' = [dist EXCEPT ![w] = IF how = "jump" THEN c ELSE NoConn]

\* How a handler can leave client c after a command that found c->steps = 0:
\* with one worker every command is complete at once; otherwise a jump starts,
\* unless csui_new fails in dispatch_conn_exist, which then frees c.
AfterCommand ==
  IF N = 1 THEN {"stay"} ELSE {"stay", "jump"} \cup (IF AllocFail THEN {"free"} ELSE {})

\* readQueryFromClient and processInputBuffer on a client of w.  K is what
\* CLIENT KILL frees among the clients of w.
ReadQuery(w) ==
  /\ dist[w] = NoConn
  /\ \E c \in clients[w] : \E K \in SUBSET (clients[w] \ {c}) :
       \E how \in AfterCommand : Settle(w, c, K, how)
  /\ UNCHANGED <<curidx, steps, csul, down, up, masterVars, fault>>

\* freeClient from any other handler of w: end of file or an error on the
\* socket, a reply sent to a client marked CLIENT_CLOSE_AFTER_REPLY, the cron.
\* The cron frees a client of w here; that an entry of clients_to_close may
\* have jumped away meanwhile is in ClientJump.
CloseClient(w) ==
  /\ dist[w] = NoConn
  /\ \E c \in clients[w] : Settle(w, c, {}, "free")
  /\ UNCHANGED <<curidx, steps, csul, down, up, masterVars, fault>>

\* The worker's thread_event_process, case 'c'.  The pop may find nothing, or
\* a unit that holds a client.  Otherwise: the socket becomes a client;
\* vr_set_nonblocking or createClient fails, and conn_put closes it; conn_get
\* fails, and the socket is closed but stays counted.
WorkerNew(w) ==
  /\ dist[w] = NoConn
  /\ ReadByte(w, "c")
  /\ \/ /\ csul[w] = <<>>
        /\ UNCHANGED <<clientVars, csul, ncurr, fault>>
     \/ /\ csul[w] # <<>>
        /\ csul' = [csul EXCEPT ![w] = Tail(@)]
        /\ LET c == Head(csul[w]).conn IN
           \/ /\ Head(csul[w]).kind = "j"
              /\ fault' = "mixup"
              /\ UNCHANGED <<clientVars, ncurr>>
           \/ /\ Head(csul[w]).kind = "c"
              /\ phase' = [phase EXCEPT ![c] = "live"]
              /\ clients' = [clients EXCEPT ![w] = @ \cup {c}]
              /\ curidx' = [curidx EXCEPT ![c] = w]
              /\ steps' = [steps EXCEPT ![c] = 0]
              /\ UNCHANGED <<ncurr, fault>>
           \/ /\ Head(csul[w]).kind = "c"
              /\ phase' = [phase EXCEPT ![c] = "none"]
              /\ ncurr' = ncurr - 1
              /\ UNCHANGED <<curidx, steps, clients, fault>>
           \/ /\ Head(csul[w]).kind = "c"
              /\ AllocFail
              /\ phase' = [phase EXCEPT ![c] = "none"]
              /\ UNCHANGED <<curidx, steps, clients, ncurr, fault>>
  /\ UNCHANGED <<up, cbsul, masterVars, dist>>

\* The worker's thread_event_process, case 'j': the command's proc runs here,
\* and the client jumps on, or the command is complete and the client is
\* linked to w, where linkClientToEventloop goes on with its query buffer (or
\* frees it, when its read event cannot be created).  When csui_new fails for
\* a client that is on its way, freeClient does not find it on vel->clients:
\* ASSERT(ln != NULL) in unlinkClient.
WorkerJump(w) ==
  /\ dist[w] = NoConn
  /\ ReadByte(w, "j")
  /\ \/ /\ csul[w] = <<>>
        /\ UNCHANGED <<clientVars, csul, cbsul, ncurr, dist, fault>>
     \/ /\ csul[w] # <<>>
        /\ csul' = [csul EXCEPT ![w] = Tail(@)]
        /\ LET c == Head(csul[w]).conn
               s == steps[c] + 1
           IN
           \/ /\ Head(csul[w]).kind = "c"
              /\ fault' = "mixup"
              /\ UNCHANGED <<clientVars, cbsul, ncurr, dist>>
           \/ /\ Head(csul[w]).kind = "j"
              /\ curidx' = [curidx EXCEPT ![c] = w]
              /\ s < N - 1
              /\ steps' = [steps EXCEPT ![c] = s]
              /\ \E K \in SUBSET clients[w] : Settle(w, c, K, "jump")
              /\ UNCHANGED fault
           \/ /\ Head(csul[w]).kind = "j"
              /\ s < N - 1 /\ AllocFail
              /\ fault' = "assert"
              /\ UNCHANGED <<clientVars, cbsul, ncurr, dist>>
           \/ /\ Head(csul[w]).kind = "j"
              /\ curidx' = [curidx EXCEPT ![c] = w]
              /\ s >= N - 1
              /\ steps' = [steps EXCEPT ![c] = 0]
              /\ \E K \in SUBSET clients[w] : \E how \in AfterCommand \cup {"free"} :
                   Settle(w, c, K, how)
              /\ UNCHANGED fault
  /\ UNCHANGED <<up, masterVars>>

\* The end of dispatch_conn_exist: read c->curidx and write 'b' to the
\* socketpair of that worker.  c was published before: another worker may own
\* it by now, or may have freed it.  Freed memory holds anything; the index
\* read from it may belong to no worker.
Announce(w) ==
  LET c == dist[w] IN
  /\ c # NoConn
  /\ dist' = [dist EXCEPT ![w] = NoConn]
  /\ \/ \E idx \in (IF phase[c] = "live" THEN {curidx[c]} ELSE Worker) :
          /\ up' = [up EXCEPT ![idx] = IF @ < NoticeCap THEN @ + 1 ELSE @]
          /\ UNCHANGED fault
     \/ /\ phase[c] # "live"
        /\ fault' = "wild"
        /\ UNCHANGED up
  /\ UNCHANGED <<clientVars, csul, down, cbsul, ncurr, masterVars>>

\* After a failed assertion or a wild access there is nothing left to model.
Aborted == fault # "none" /\ UNCHANGED vars

Master ==
  \/ \E c \in Conns : Accept(c)
  \/ Reject
  \/ NoticeNew
  \/ CountNew
  \/ \E w \in Worker : MasterBack(w)
  \/ NoticeJump

WorkerThread(w) ==
  \/ ReadQuery(w)
  \/ CloseClient(w)
  \/ WorkerNew(w)
  \/ WorkerJump(w)
  \/ Announce(w)

Next ==
  \/ fault = "none" /\ Master
  \/ fault = "none" /\ \E w \in Worker : WorkerThread(w)
  \/ Aborted

\* aeMain serves every ready descriptor of a thread once per round, whatever
\* else the thread has to do, and a handler that was entered returns.
Fairness ==
  /\ WF_vars(fault = "none" /\ (NoticeNew \/ CountNew \/ NoticeJump))
  /\ \A w \in Worker :
       /\ SF_vars(fault = "none" /\ MasterBack(w))
       /\ SF_vars(fault = "none" /\ (WorkerNew(w) \/ WorkerJump(w)))
       /\ WF_vars(fault = "none" /\ Announce(w))

Spec == Init /\ [][Next]_vars

FairSpec == Spec /\ Fairness
-----------------------------------------------------------------------------
(***************************************************************************)
(* Properties.                                                             *)
(***************************************************************************)

\* The connections with a unit on w's csul, and on the master's cbsul.
Queued(w) == {csul[w][i].conn : i \in 1 .. Len(csul[w])}
Returning == {cbsul[i].conn : i \in 1 .. Len(cbsul)}

TypeOK ==
  /\ phase \in [Conns -> Phase]
  /\ curidx \in [Conns -> Worker \cup {-1}]
  /\ steps \in [Conns -> 0 .. N-1]
  /\ clients \in [Worker -> SUBSET Conns]
  /\ csul \in [Worker -> Seq(Unit)]
  /\ down \in [Worker -> Seq(Kind)]
  /\ up \in [Worker -> Nat]
  /\ cbsul \in Seq(BackUnit)
  /\ ncurr \in Int
  /\ last \in Worker \cup {-1}
  /\ master \in [at : MasterAt, w : Worker]
  /\ dist \in [Worker -> Conns \cup {NoConn}]
  /\ fault \in Fault

\* No notice is ever lost or misread.
Reliable == MaxClients <= NoticeCap /\ ~ReadFail

\* The byte the master has still to write to w for a unit it has pushed.
Unsent(w) ==
  /\ master.w = w
  /\ master.at \in {"noticeNew", "noticeJump"}

\* The bytes a worker will read say, one by one and in order, what the units on
\* its csul are: 'c' for a socket, 'j' for a client; only the master's last
\* unit may still wait for its byte.  So case 'c' of thread_event_process never
\* takes a client for a socket, nor case 'j' a listener for a client.  This
\* needs a socketpair that can hold a byte for each of maxclients connections:
\* a byte that does not fit is dropped, and the list is out of step for good.
NoticesMatchUnits ==
  Reliable =>
    \A w \in Worker :
      /\ Len(csul[w]) = Len(down[w]) + (IF Unsent(w) THEN 1 ELSE 0)
      /\ \A i \in 1 .. Len(down[w]) : csul[w][i].kind = down[w][i]
      /\ Unsent(w) => csul[w][Len(csul[w])].kind =
                        (IF master.at = "noticeNew" THEN "c" ELSE "j")

\* A connection is in one place: on the client list of one worker, in one unit
\* of one csul, or in one unit of cbsul.  No two threads ever work on the same
\* client through these lists, and while nothing failed none is lost: the
\* steps of unlinkClientFromEventloop, cbsul_push, csul_push and
\* linkClientToEventloop hand it over without a gap or an overlap.
OneOwner ==
  /\ \A w, v \in Worker :
       /\ w # v => clients[w] \cap clients[v] = {} /\ Queued(w) \cap Queued(v) = {}
       /\ clients[w] \cap Queued(v) = {}
       /\ (clients[w] \cup Queued(w)) \cap Returning = {}
       /\ (clients[w] \cup Queued(w)) \subseteq Open
       /\ \A i, j \in 1 .. Len(csul[w]) : csul[w][i].conn = csul[w][j].conn => i = j
  /\ Returning \subseteq Open
  /\ \A i, j \in 1 .. Len(cbsul) : cbsul[i].conn = cbsul[j].conn => i = j
  /\ fault = "none" =>
       \A c \in Open : c \in Returning \/ \E w \in Worker : c \in clients[w] \cup Queued(w)

\* A client on vel->clients is not in a jump (steps = 0) and its curidx is that
\* worker; a client on its way was put there by the worker before its target,
\* so that worker_get_next_idx takes it round the ring.
RoutedByCuridx ==
  /\ \A w \in Worker : \A c \in clients[w] : curidx[c] = w /\ steps[c] = 0
  /\ \A i \in 1 .. Len(cbsul) : cbsul[i].num = NextIdx(curidx[cbsul[i].conn])
  /\ \A w \in Worker : \A i \in 1 .. Len(csul[w]) :
       csul[w][i].kind = "j" => w = NextIdx(curidx[csul[w][i].conn])

\* The accepted socket that dispatch_conn_new has not counted yet.
Uncounted == IF master.at \in {"noticeNew", "count"} THEN 1 ELSE 0

\* ncurr_cconn is the number of open connections, up to the one the master is
\* dispatching, so that maxclients bounds them although the worker may close
\* the socket before it is counted.  When an allocation fails in conn_get the
\* counter stays too high, never too low.
CounterCoversOpen ==
  /\ Cardinality(Open) <= ncurr + Uncounted
  /\ ncurr + Uncounted <= MaxClients
  /\ ~AllocFail => Cardinality(Open) = ncurr + Uncounted

\* A unit sends c to worker t.
Heading(c, t) ==
  \/ \E i \in 1 .. Len(cbsul) : cbsul[i] = [num |-> t, conn |-> c]
  \/ \E i \in 1 .. Len(csul[t]) : csul[t][i] = [kind |-> "j", conn |-> c]

\* Every hop of a jump comes to an end: a client sent to a worker is taken up
\* there, unless the process died.  A jump has N - 1 hops, so it ends too, and
\* linkClientToEventloop goes on with the rest of the query buffer.
HopFinishes ==
  \A c \in Conns, t \in Worker : Heading(c, t) ~> (~Heading(c, t) \/ fault # "none")

\* An accepted socket becomes a client or is closed.
SocketServed ==
  \A c \in Conns : (phase[c] = "sock") ~> (phase[c] # "sock" \/ fault # "none")

\* A worker inside dispatch_conn_exist reads curidx of a client that exists.
AnnouncedIsLive ==
  \A w \in Worker : dist[w] # NoConn => phase[dist[w]] = "live"

\* unlinkClient's ASSERT(ln != NULL): a client being freed is on the client
\* list of its worker.
FreedIsLinked == fault # "assert"

\* Where ClientOwner sees a connection.
SeatOf ==
  [c \in Conns |->
     CASE phase[c] = "none" -> [at |-> "none", w |-> 0]
       [] phase[c] = "sock" -> [at |-> "new", w |-> 0]
       [] OTHER -> IF \E w \in Worker : c \in clients[w]
                   THEN [at |-> "linked", w |-> CHOOSE w \in Worker : c \in clients[w]]
                   ELSE [at |-> "moving", w |-> 0]]

Owner == INSTANCE ClientOwner WITH seat <- SeatOf

\* The lists, bytes and counters implement ClientOwner, also when notices are
\* lost or misread and allocations fail.
ImplementsOwner == Owner!Spec
=============================================================================
