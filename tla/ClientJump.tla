----------------------------- MODULE ClientJump -----------------------------
(***************************************************************************)
(* What happens to a client and its commands while it is served by workers *)
(* (vr_client.c, vr_worker.c, commandCommand in vr_command.c).  A client   *)
(* reads commands into its query buffer and runs them in order.  CLIENT    *)
(* LIST, CLIENT KILL and COMMAND STATS need what every worker knows: the   *)
(* client jumps to each worker in turn, runs the command's proc there, and *)
(* carries what it has gathered in c->cache.  Replies wait in the output   *)
(* buffer, and the event loop that owns the client has to be told to send  *)
(* them.                                                                   *)
(*                                                                         *)
(* ConnSwap models how the client travels; here it is in flight until its  *)
(* target takes it.  A step is a handler of one worker, or one turn of the *)
(* loop of processInputBuffer.                                             *)
(***************************************************************************)
EXTENDS Integers, Sequences, FiniteSets, SequencesExt

CONSTANTS
  N,          \* the number of workers
  Conns,      \* names for clients
  NoConn,     \* not a client
  Cmds,       \* the commands that clients send
  MaxCmds,    \* bound: how many of them the connected clients have sent
  MaxId,      \* bound: how many clients one worker creates
  EventFail   \* whether aeCreateFileEvent may fail

Worker == 0 .. N-1

\* worker_get_next_idx
NextIdxNoWrap(w) == w + 1
NextIdx(w) == IF w + 1 >= N THEN 0 ELSE w + 1

(***************************************************************************)
(* A command is a record with a field op.  "kill" has the fields of        *)
(* struct clientkilldata: addr (NoConn when it is not given), id (0 when   *)
(* it is not) and skipme.  "plain" stands for every command that is done   *)
(* in one call, a CLIENT KILL with a syntax error included.                *)
(***************************************************************************)
NoCmd == [op |-> "none"]
Jumping == {"list", "kill", "stats"}

ASSUME ConstantsAssumption ==
  /\ N \in Nat \ {0} /\ MaxCmds \in Nat /\ MaxId \in Nat
  /\ IsFiniteSet(Conns) /\ NoConn \notin Conns
  /\ \A k \in Cmds : k.op \in Jumping \cup {"plain", "quit"}
  /\ EventFail \in BOOLEAN

(***************************************************************************)
(* The fields of a client that matter here.  cmd is the command of a jump  *)
(* under way: it is NoCmd when CLIENT_JUMP is not set.  The cache is that  *)
(* of its command: for CLIENT LIST the text, as how often each client is   *)
(* in it (seen); for COMMAND STATS how often the table of each worker was  *)
(* added (tables); for CLIENT KILL the struct clientkilldata, with         *)
(* close_this_client (mine).  What it held stays visible after the reply   *)
(* was built from it, until the reply is sent.                             *)
(***************************************************************************)
NoCache == [op |-> "none"]
NewCache(k) ==
  CASE k.op = "list" -> [op |-> "list", seen |-> [x \in Conns |-> 0]]
    [] k.op = "stats" -> [op |-> "stats", tables |-> [w \in Worker |-> 0]]
    [] k.op = "kill" -> [op |-> "kill", mine |-> FALSE, kills |-> k]

Dead ==
  [at |-> "none", w |-> 0, id |-> 0, qbuf |-> <<>>, ncmd |-> 0, cmd |-> NoCmd,
   steps |-> 0, cache |-> NoCache, out |-> <<>>, got |-> 0,
   pw |-> FALSE, wh |-> FALSE, closing |-> FALSE]

VARIABLES
  cl,      \* Conns -> the client's fields
  nextid,  \* Worker -> vel->next_client_id
  tocl,    \* Worker -> vel->clients_to_close
  busy,    \* Worker -> the client whose query buffer it is working on, and
           \*   whether readQueryFromClient or linkClientToEventloop asked for it
  still,   \* history: Conns -> the clients that were linked when this client's
           \*   jump began and have stayed on their worker since
  fault    \* a worker freed a client of another event loop

vars == <<cl, nextid, tocl, busy, still, fault>>

NotBusy == [c |-> NoConn, from |-> "none"]

Init ==
  /\ cl = [c \in Conns |-> Dead]
  /\ nextid = [w \in Worker |-> 1]
  /\ tocl = [w \in Worker |-> {}]
  /\ busy = [w \in Worker |-> NotBusy]
  /\ still = [c \in Conns |-> {}]
  /\ fault = FALSE

\* vel->clients of worker w.
Linked(w) == {x \in Conns : cl[x].at = "linked" /\ cl[x].w = w}

\* The clients in S leave the list they are on.
Leave(S) == [c \in Conns |-> still[c] \ S]

\* The clients marked CLIENT_CLOSE_ASAP, and freeClientAsync for S on worker w.
ToClose == UNION {tocl[w] : w \in Worker}
FreeAsync(w, S) == [tocl EXCEPT ![w] = @ \cup (S \ ToClose)]

\* addReply, with prepareClientToWrite: the client goes on the list of pending
\* writes unless its output buffer already held something.
AddReply(r) ==
  [r EXCEPT !.out = Append(@, r.ncmd), !.pw = @ \/ r.out = <<>>]

\* dispatch_conn_exist: unlinkClientFromEventloop takes the client off the
\* list of pending writes and removes its write handler, and off it goes.
SendOnDropsReplies(r, w) ==
  [r EXCEPT !.at = "moving", !.w = NextIdx(w), !.pw = FALSE, !.wh = FALSE,
            !.out = <<>>]
SendOn(r, w) == [r EXCEPT !.at = "moving", !.w = NextIdx(w), !.pw = FALSE, !.wh = FALSE]

\* Which client CLIENT KILL k of client c finds.
Match(k, c, x) ==
  /\ k.addr # NoConn => k.addr = x
  /\ k.id # 0 => k.id = cl[x].id
  /\ ~(k.skipme /\ x = c)

\* What CLIENT KILL finds on worker w.  It closes c itself later on, and frees
\* the others at once.
VictimsNotSelf(w, c, k) == {x \in Linked(w) \ {c} : k.op = "kill" /\ Match(k, c, x)}
Victims(w, c, k) == {x \in Linked(w) : k.op = "kill" /\ Match(k, c, x)}

\* c->steps >= darray_n(&workers) - 1: the jump has been on all workers.
DoneLate(r) == r.steps >= N
Done(r) == r.steps >= N - 1

\* The cache of c's command k once it has run on worker w too.
Gathered(w, c, k, cache) ==
  LET here == Linked(w) IN
  CASE k.op = "list" -> [cache EXCEPT !.seen = [x \in Conns |-> @[x] + (IF x \in here THEN 1 ELSE 0)]]
    [] k.op = "stats" -> [cache EXCEPT !.tables[w] = @ + 1]
    [] k.op = "kill" -> [cache EXCEPT !.mine = @ \/ c \in Victims(w, c, k)]

\* What the proc of a jumping command does for client c, now the record r, on
\* worker w: it adds what w knows to the cache, and when all workers have been
\* visited it replies and the jump is over.
Visit(w, c, r) ==
  LET cache == Gathered(w, c, r.cmd, r.cache)
      over == [AddReply(r) EXCEPT !.cache = cache, !.cmd = NoCmd, !.steps = 0,
                                  !.closing = @ \/ (r.cmd.op = "kill" /\ cache.mine)]
  IN IF Done(r) THEN over ELSE SendOn([r EXCEPT !.cache = cache], w)

\* freeClient for all of S, which are linked to w, and r as the record of c.
Update(w, c, r, S) ==
  /\ cl' = [x \in Conns |-> IF x = c THEN r ELSE IF x \in S THEN Dead ELSE cl[x]]
  /\ tocl' = [tocl EXCEPT ![w] = @ \ S]

-----------------------------------------------------------------------------
(***************************************************************************)
(* The handlers of worker w.                                               *)
(***************************************************************************)

Free(w) == busy[w] = NotBusy

\* thread_event_process, case 'c', with createClient.
NewClient(w, c) ==
  /\ Free(w)
  /\ cl[c].at = "none"
  /\ nextid[w] <= MaxId
  /\ cl' = [cl EXCEPT ![c] = [Dead EXCEPT !.at = "linked", !.w = w, !.id = nextid[w]]]
  /\ nextid' = [nextid EXCEPT ![w] = @ + 1]
  /\ UNCHANGED <<tocl, busy, still, fault>>

Received == MapThenSumSet(LAMBDA x : cl[x].ncmd + Len(cl[x].qbuf), Conns)

\* readQueryFromClient: one or more commands arrive.
Read(w, c) ==
  /\ Free(w)
  /\ c \in Linked(w)
  /\ \E n \in 1 .. 2 :
       /\ Received + n <= MaxCmds
       /\ \E ks \in [1 .. n -> Cmds] : cl' = [cl EXCEPT ![c].qbuf = @ \o ks]
  /\ busy' = [busy EXCEPT ![w] = [c |-> c, from |-> "read"]]
  /\ UNCHANGED <<nextid, tocl, still, fault>>

\* processInputBuffer goes on while there is a command to run, but not once the
\* client is to be closed.
MoreToRunAnyway(c) == cl[c].qbuf # <<>>
MoreToRun(c) == cl[c].qbuf # <<>> /\ ~cl[c].closing

\* One turn of the loop of processInputBuffer, with processCommand: after a
\* command that jumps the loop ends, and the caller sends the client off.
RunCommand(w) ==
  LET c == busy[w].c
      r == [cl[c] EXCEPT !.qbuf = Tail(@), !.ncmd = @ + 1]
      k == Head(cl[c].qbuf)
      began == [r EXCEPT !.cmd = k, !.cache = NewCache(k)]
  IN
  /\ ~Free(w)
  /\ MoreToRun(c)
  /\ IF k.op \in Jumping
     THEN LET now == Visit(w, c, began)
              dead == Victims(w, c, k) \ {c}
              linked == {x \in Conns : cl[x].at = "linked"}
          IN /\ Update(w, c, now, dead)
             /\ busy' = IF now.at = "moving" THEN [busy EXCEPT ![w] = NotBusy] ELSE busy
             /\ still' = [Leave(dead \cup (IF now.at = "moving" THEN {c} ELSE {}))
                            EXCEPT ![c] = linked \ (dead \cup {c})]
     ELSE /\ Update(w, c, [AddReply(r) EXCEPT !.closing = (k.op = "quit")], {})
          /\ UNCHANGED <<busy, still>>
  /\ UNCHANGED <<nextid, fault>>

\* The loop of processInputBuffer is over: nothing is left to run, or nothing
\* may run any more.  linkClientToEventloop then sees to it that replies from
\* before the jump are sent; when the write event cannot be created the client
\* is put on clients_to_close.
EndOfInputUnarmed(w) ==
  /\ ~Free(w)
  /\ ~MoreToRun(busy[w].c)
  /\ busy' = [busy EXCEPT ![w] = NotBusy]
  /\ UNCHANGED <<cl, tocl, nextid, still, fault>>
EndOfInput(w) ==
  LET c == busy[w].c
      arm == busy[w].from = "link" /\ cl[c].out # <<>> /\ ~cl[c].pw
  IN
  /\ ~Free(w)
  /\ ~MoreToRun(c)
  /\ busy' = [busy EXCEPT ![w] = NotBusy]
  /\ \/ /\ cl' = IF arm THEN [cl EXCEPT ![c].wh = TRUE] ELSE cl
        /\ UNCHANGED tocl
     \/ /\ arm /\ EventFail
        /\ tocl' = FreeAsync(w, {c})
        /\ UNCHANGED cl
  /\ UNCHANGED <<nextid, still, fault>>

\* thread_event_process, case 'j': run the proc here, then send the client on
\* or link it to this event loop.
Arrive(w, c) ==
  LET r == [cl[c] EXCEPT !.steps = @ + 1, !.w = w]
      now == Visit(w, c, r)
      dead == Victims(w, c, r.cmd)
  IN
  /\ Free(w)
  /\ cl[c].at = "moving" /\ cl[c].w = w
  /\ \/ /\ now.at = "moving" /\ now.cmd # NoCmd
        /\ Update(w, c, now, dead)
        /\ UNCHANGED busy
     \/ /\ now.cmd = NoCmd
        /\ Update(w, c, [now EXCEPT !.at = "linked"], dead)
        /\ busy' = [busy EXCEPT ![w] = [c |-> c, from |-> "link"]]
     \/ /\ now.cmd = NoCmd /\ EventFail
        /\ Update(w, c, Dead, dead)
        /\ UNCHANGED busy
  /\ still' = Leave(dead)
  /\ UNCHANGED <<nextid, fault>>

\* writeToClient: everything is sent, or a part, or the socket has an error.
\* A client that was to be closed after its reply is freed.
Sent(r, n) ==
  LET left == SubSeq(r.out, n + 1, Len(r.out)) IN
  IF left = <<>> /\ r.closing THEN Dead
  ELSE [r EXCEPT !.out = left, !.got = @ + n, !.wh = @ /\ left # <<>>,
                 !.cache = IF left = <<>> THEN NoCache ELSE @]

\* worker_before_sleep with handleClientsWithPendingWrites: every client on the
\* list is written to, and gets a write handler for what is left.
BeforeSleep(w) ==
  LET S == {x \in Linked(w) : cl[x].pw} IN
  /\ Free(w)
  /\ S # {}
  /\ \E n \in [S -> -1 .. MaxCmds], bad \in (IF EventFail THEN SUBSET S ELSE {{}}) :
       LET wrote == [x \in S |-> IF n[x] = -1 THEN Dead
                                 ELSE Sent([cl[x] EXCEPT !.pw = FALSE], n[x])]
           rest == {x \in S : wrote[x].at = "linked" /\ wrote[x].out # <<>>}
           dead == {x \in S : wrote[x].at = "none"}
       IN /\ \A x \in S : n[x] <= Len(cl[x].out)
          /\ bad \subseteq rest
          /\ cl' = [x \in Conns |-> IF x \notin S THEN cl[x]
                      ELSE [wrote[x] EXCEPT !.wh = x \in rest \ bad]]
          /\ tocl' = [FreeAsync(w, bad) EXCEPT ![w] = @ \ dead]
          /\ still' = Leave(dead)
  /\ UNCHANGED <<nextid, busy, fault>>

\* sendReplyToClient.
Writable(w, c) ==
  /\ Free(w)
  /\ c \in Linked(w) /\ cl[c].wh
  /\ \E n \in 1 .. Len(cl[c].out) : cl' = [cl EXCEPT ![c] = Sent(@, n)]
  /\ LET dead == IF cl'[c].at = "none" THEN {c} ELSE {} IN
       /\ tocl' = [tocl EXCEPT ![w] = @ \ dead]
       /\ still' = Leave(dead)
  /\ UNCHANGED <<nextid, busy, fault>>

\* End of file or an error on the socket.
Hangup(w, c) ==
  /\ Free(w)
  /\ c \in Linked(w)
  /\ Update(w, c, Dead, {c})
  /\ still' = Leave({c})
  /\ UNCHANGED <<nextid, busy, fault>>

\* worker_cron, with freeClientsInAsyncFreeQueue.  To free a client that is not
\* linked to w is to work on the lists of another thread, or of none: nothing
\* is known of what follows.
Cron(w) ==
  /\ Free(w)
  /\ tocl[w] # {}
  /\ \/ /\ tocl[w] \subseteq Linked(w)
        /\ cl' = [x \in Conns |-> IF x \in tocl[w] THEN Dead ELSE cl[x]]
        /\ still' = Leave(tocl[w])
        /\ tocl' = [tocl EXCEPT ![w] = {}]
        /\ UNCHANGED fault
     \/ /\ ~(tocl[w] \subseteq Linked(w))
        /\ fault' = TRUE
        /\ UNCHANGED <<cl, tocl, still>>
  /\ UNCHANGED <<nextid, busy>>

WorkerThread(w) ==
  \/ RunCommand(w)
  \/ EndOfInput(w)
  \/ BeforeSleep(w)
  \/ Cron(w)
  \/ \E c \in Conns : \/ NewClient(w, c) \/ Read(w, c) \/ Arrive(w, c)
                      \/ Writable(w, c) \/ Hangup(w, c)

\* freeClient searches clients_to_close of the client's own event loop: a freed
\* client that is still on such a list was on another one, and the search has
\* brought the process down.
Crashed == fault \/ \E c \in ToClose : cl[c].at = "none"

Next == ~Crashed /\ \E w \in Worker : WorkerThread(w)

\* aeMain serves every ready descriptor once per round and runs
\* worker_before_sleep before each; a handler that was entered returns.  A
\* socket is readable and writable as its peer likes: nothing is assumed of it.
Fairness ==
  \A w \in Worker :
    /\ WF_vars(~Crashed /\ (RunCommand(w) \/ EndOfInput(w)))
    /\ SF_vars(~Crashed /\ BeforeSleep(w))
    /\ \A c \in Conns : SF_vars(~Crashed /\ Arrive(w, c))

Spec == Init /\ [][Next]_vars
FairSpec == Spec /\ Fairness

-----------------------------------------------------------------------------
(***************************************************************************)
(* Properties.                                                             *)
(***************************************************************************)

\* Where the jump of c has been: on all workers once it is over.
Visited(c) ==
  IF cl[c].cmd = NoCmd THEN Worker
  ELSE {(cl[c].w - 1 - k + N) % N : k \in 0 .. cl[c].steps}

\* Every variable keeps its type: the fields of struct client, and the lists
\* and counters of the event loops.
TypeOK ==
  /\ \A c \in Conns :
       /\ cl[c].at \in {"none", "linked", "moving"}
       /\ cl[c].w \in Worker
       /\ cl[c].id \in 0 .. MaxId
       /\ cl[c].qbuf \in Seq(Cmds) /\ cl[c].cmd \in Cmds \cup {NoCmd}
       /\ cl[c].ncmd + Len(cl[c].qbuf) <= MaxCmds
       /\ cl[c].steps \in 0 .. N-1
       /\ cl[c].out \in Seq(1 .. MaxCmds) /\ cl[c].got \in 0 .. MaxCmds
       /\ {cl[c].pw, cl[c].wh, cl[c].closing} \subseteq BOOLEAN
       /\ cl[c].cmd # NoCmd => cl[c].cache.op = cl[c].cmd.op
       /\ still[c] \subseteq Conns
  /\ nextid \in [Worker -> 1 .. MaxId + 1]
  /\ tocl \in [Worker -> SUBSET Conns]
  /\ \A w \in Worker : busy[w] = NotBusy \/ busy[w] \in [c : Linked(w), from : {"read", "link"}]
  /\ fault \in BOOLEAN

\* The replies a client has got, and those that wait in its output buffer, are
\* those of its commands in the order in which it sent them, one for each: a
\* jump neither loses nor repeats a reply, nor lets one overtake it, although
\* the command of a jump runs on every worker (resetClient and
\* processInputBuffer stop at CLIENT_JUMP).
RepliesInOrder ==
  \A c \in Conns :
    /\ cl[c].out = [i \in 1 .. Len(cl[c].out) |-> cl[c].got + i]
    /\ cl[c].got + Len(cl[c].out) = cl[c].ncmd - (IF cl[c].cmd = NoCmd THEN 0 ELSE 1)

\* When an event loop has a client with replies to send and is not in the
\* middle of its input, something will send them: the client is on the list of
\* pending writes or has a write handler, never both, or it is going to be
\* closed.  prepareClientToWrite does nothing when the buffer was not empty,
\* so this rests on linkClientToEventloop arming what a jump disarmed.  A client
\* in flight is of no event loop, so that no worker can touch it before its
\* target does (unlinkClientFromEventloop).
RepliesArmed ==
  /\ \A w \in Worker : \A c \in Linked(w) :
       /\ ~(cl[c].pw /\ cl[c].wh)
       /\ cl[c].out # <<>> /\ busy[w].c # c => cl[c].pw \/ cl[c].wh \/ c \in ToClose
       /\ cl[c].pw \/ cl[c].wh => cl[c].out # <<>>
  /\ \A c \in Conns : cl[c].at = "moving" =>
       /\ ~cl[c].pw /\ ~cl[c].wh
       /\ \A w \in Worker : busy[w].c # c

\* CLIENT LIST counts every client that stayed where it was once, when its
\* worker has been visited, and not before: no worker is left out or visited
\* twice.  (A client that jumps itself meanwhile may be missed or be listed
\* twice.)  The client that asks is in the list once.  COMMAND STATS adds the
\* table of every worker once.
GatheredOnce ==
  \A c \in Conns :
    /\ cl[c].cache.op = "list" =>
         /\ cl[c].cache.seen[c] = 1
         /\ \A x \in still[c] :
              cl[c].cache.seen[x] = IF cl[x].w \in Visited(c) THEN 1 ELSE 0
    /\ cl[c].cache.op = "stats" =>
         \A w \in Worker : cl[c].cache.tables[w] = IF w \in Visited(c) THEN 1 ELSE 0

\* Wherever CLIENT KILL has been, it leaves no client that matched and was
\* there when the command began, other than the one that sent it, which is
\* closed after its reply.
KilledAll ==
  \A c \in Conns : cl[c].cache.op = "kill" =>
    /\ \A x \in still[c] : cl[x].w \in Visited(c) => ~Match(cl[c].cache.kills, c, x)
    /\ cl[c].cmd = NoCmd /\ Match(cl[c].cache.kills, c, c) => cl[c].closing

\* What is on a worker's list of clients to close is linked to that worker.  The
\* code does not keep this: a client on the list that jumps stays on it, since
\* unlinkClientFromEventloop does not look there.
ToCloseIsOwn == \A w \in Worker : tocl[w] \subseteq Linked(w)

\* The id of a client is its own.  The code does not keep this: every worker
\* numbers its clients from 1.
UniqueIds ==
  \A c, d \in Conns : cl[c].at # "none" /\ cl[d].at # "none" /\ c # d => cl[c].id # cl[d].id

\* After QUIT, or CLIENT KILL of itself, a client runs no other command.
NothingAfterClose ==
  [][\A c \in Conns : cl[c].closing /\ cl'[c].at # "none" => cl'[c].ncmd = cl[c].ncmd]_vars

\* A command that jumps is answered, or its client is gone, whatever the other
\* clients do.
JumpAnswered ==
  \A c \in Conns, n \in 1 .. MaxCmds :
    (cl[c].at = "moving" /\ cl[c].ncmd = n)
      ~> (cl[c].at = "none" \/ cl[c].got + Len(cl[c].out) >= n)

\* The peer of c keeps reading: wherever the write handler of c is installed
\* over and over, its socket has room in time, and sendReplyToClient runs.
PeerReads(c) == \A w \in Worker : SF_vars(~Crashed /\ Writable(w, c))

\* Replies get to a client that keeps reading, or it is gone, whatever the
\* others do or leave unread.
RepliesSent ==
  \A c \in Conns : PeerReads(c) =>
    \A n \in 1 .. MaxCmds :
      (cl[c].out # <<>> /\ cl[c].ncmd = n)
        ~> (cl[c].at = "none" \/ cl[c].got >= n)
=============================================================================
