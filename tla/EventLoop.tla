----------------------------- MODULE EventLoop ------------------------------
(***************************************************************************)
(* The event loop of a worker (dep/ae) and what its handlers do to it.     *)
(* loop is the aeEventLoop: the events by descriptor, maxfd, setsize, the  *)
(* events fired and not yet handled, and the cron timer.  os is the        *)
(* kernel's side: for every descriptor the connection it belongs to now    *)
(* (0 for none), whether that connection is linked to this loop, and the   *)
(* interest epoll holds for it.  Descriptor 0 is the worker's end of its   *)
(* socket pair.  ok is whether every callback so far was given the         *)
(* connection its descriptor belongs to.                                   *)
(***************************************************************************)
EXTENDS Integers, FiniteSetsExt

CONSTANTS
    Fds,        \* the descriptors of the process, 0 among them
    SetSize,    \* of the loop when it is created
    Grow,       \* 1000, scaled down
    MaxConn,    \* bound on the connections accepted
    Second,     \* 1000 ms, scaled down
    Period,     \* of the cron, 1000/hz ms
    Clock       \* the times gettimeofday may give

VARIABLES loop, os, ok

R == "AE_READABLE"
W == "AE_WRITABLE"
Masks == SUBSET {R, W}
MaxOf(S) == IF S = {} THEN -1 ELSE CHOOSE m \in S : \A n \in S : n <= m

-----------------------------------------------------------------------------
\* The operations of the loop; s is [loop, os].

\* The new slots above maxfd are set to AE_NONE.
aeResizeSetSize(s, n) ==
    IF s.loop.maxfd >= n THEN s
    ELSE [s EXCEPT !.loop.setsize = n,
                   !.loop.ev = [fd \in Fds |-> IF fd > s.loop.maxfd THEN [mask |-> {}, data |-> 0] ELSE @[fd]]]

\* EPOLL_CTL_ADD for a new descriptor, EPOLL_CTL_MOD for a known one.
AddFails(s, fd) == (s.loop.ev[fd].mask = {}) # (s.os.interest[fd] = {})

aeCreateFileEvent(s0, fd, mask, data) ==
    LET s == IF fd >= s0.loop.setsize THEN aeResizeSetSize(s0, fd + Grow) ELSE s0
        all == s.loop.ev[fd].mask \union mask
    IN  [s EXCEPT !.loop.ev[fd] = [mask |-> all, data |-> data],
                  !.loop.maxfd = MaxOf({@, fd}),
                  !.os.interest[fd] = all]

aeDeleteFileEvent(s, fd, mask) ==
    LET left == s.loop.ev[fd].mask \ mask
        below == {j \in Fds : j < fd /\ s.loop.ev[j].mask # {}}
    IN  IF fd >= s.loop.setsize \/ s.loop.ev[fd].mask = {} THEN s
        ELSE [s EXCEPT !.loop.ev[fd].mask = left,
                       !.os.interest[fd] = left,
                       !.loop.maxfd = IF fd = @ /\ left = {} THEN MaxOf(below) ELSE @]

\* Which handlers of a fired event are still called: an event handled before it
\* may have removed it.  Mutant: what was fired is called.
StillSetAsFired(s, e) == e.mask
StillSet(s, e) == s.loop.ev[e.fd].mask \intersect e.mask

-----------------------------------------------------------------------------
\* What the handlers do.

Linked(s) == {fd \in Fds \ {0} : s.os.linked[fd]}
Unlinked(s, fd) == aeDeleteFileEvent(aeDeleteFileEvent(s, fd, {R}), fd, {W})

\* unlinkClientFromEventloop, before a jump to another worker.
unlinkClientFromEventloop(s, fd) == [Unlinked(s, fd) EXCEPT !.os.linked[fd] = FALSE]

\* unlinkClient of freeClient: both events, then close(2), which epoll notices.
freeClient(s, fd) ==
    [Unlinked(s, fd) EXCEPT !.os.linked[fd] = FALSE, !.os.conn[fd] = 0, !.os.interest[fd] = {}]

\* A new client, or one that jumps back; it is freed when epoll refuses it.
linkClient(s, fd) ==
    IF AddFails(s, fd) THEN freeClient(s, fd)
    ELSE [aeCreateFileEvent(s, fd, {R}, s.os.conn[fd]) EXCEPT !.os.linked[fd] = TRUE]

\* The readable handler: of the socket pair, a connection is taken over, or freed
\* when that fails; of a client, commands are run, one of which may kill a client
\* of this worker, make the client jump, or end it.
ReadHandler(s, fd) ==
    IF fd = 0
    THEN {s} \union UNION {{linkClient(s, n), freeClient(s, n)} :
                            n \in {f \in Fds \ {0} : s.os.conn[f] # 0 /\ ~s.os.linked[f]}}
    ELSE {s, unlinkClientFromEventloop(s, fd)} \union {freeClient(s, n) : n \in Linked(s)}

\* The writable handler: more is left, all is sent, or the client is freed.
WriteHandler(s, fd) == {s, aeDeleteFileEvent(s, fd, {W}), freeClient(s, fd)}

\* The cron frees the clients that are to be closed; it also samples the statistics
\* and refreshes the copy of the configuration (ConfCache).
freeClientsInAsyncFreeQueue(s) == {FoldSet(LAMBDA fd, x : freeClient(x, fd), s, S) : S \in SUBSET Linked(s)}
worker_cron(s) == freeClientsInAsyncFreeQueue(s)

-----------------------------------------------------------------------------
State == [loop |-> loop, os |-> os]
Becomes(s) == loop' = s.loop /\ os' = s.os

Init ==
    LET none == [loop |-> [ev |-> [fd \in Fds |-> [mask |-> {}, data |-> 0]], maxfd |-> -1, setsize |-> SetSize,
                           fired |-> {}, phase |-> "before", when |-> 0, lastTime |-> 0, now |-> 0],
                 os |-> [conn |-> [fd \in Fds |-> 0], linked |-> [fd \in Fds |-> FALSE],
                         interest |-> [fd \in Fds |-> {}], next |-> 1]]
        created == aeCreateFileEvent(none, 0, {R}, 0)
    IN  \E t \in Clock :
        /\ loop = [created.loop EXCEPT !.when = t, !.lastTime = t \div Second, !.now = t]
        /\ os = created.os
        /\ ok = TRUE

\* handleClientsWithPendingWrites: a reply that did not go out at once is left
\* to the writable event, or its client is freed.
BeforeSleep ==
    /\ loop.phase = "before"
    /\ \E fd \in Linked(State) :
        \/ Becomes(aeCreateFileEvent(State, fd, {W}, os.conn[fd]))
        \/ Becomes(freeClient(State, fd))
    /\ UNCHANGED ok

\* epoll_wait: any of the descriptors it watches, in any order; a hang-up is
\* told as writable whether asked for or not.  The other end of the socket pair
\* is never closed, so descriptor 0 is only ever readable; its handler is the one
\* that may move the array of events under the pointer aeProcessEvents keeps, and
\* what is read through that afterwards is masked by what was fired.
aeApiPoll ==
    /\ loop.phase = "before"
    /\ \E S \in SUBSET {fd \in Fds : os.interest[fd] # {}} :
        \E m \in {f \in [S -> Masks \ {{}}] : \A fd \in S : fd = 0 => f[fd] = {R}} :
            loop' = [loop EXCEPT !.phase = "files", !.fired = {[fd |-> fd, mask |-> m[fd]] : fd \in S}]
    /\ UNCHANGED <<os, ok>>

\* One fired event: the readable handler, then the writable one if it is still set.
aeProcessEvents ==
    /\ loop.phase = "files"
    /\ \E e \in loop.fired :
        LET s0 == [State EXCEPT !.loop.fired = @ \ {e}]
            Right(s) == s.loop.ev[e.fd].data = s.os.conn[e.fd]
        IN  \E s1 \in IF R \in StillSet(s0, e) THEN ReadHandler(s0, e.fd) ELSE {s0} :
            \E s2 \in IF W \in StillSet(s1, e) THEN WriteHandler(s1, e.fd) ELSE {s1} :
                /\ Becomes(s2)
                /\ ok' = (ok /\ (R \in StillSet(s0, e) => Right(s0)) /\ (W \in StillSet(s1, e) => Right(s1)))

FilesDone ==
    /\ loop.phase = "files" /\ loop.fired = {}
    /\ loop' = [loop EXCEPT !.phase = "time"]
    /\ UNCHANGED <<os, ok>>

\* The clock may have been set: when the second it shows is before the last one
\* seen, the timer is made to expire.  The cron asks to be called again.
processTimeEvents ==
    /\ loop.phase = "time"
    /\ \E t \in Clock :
        LET when == IF t \div Second < loop.lastTime THEN loop.when % Second ELSE loop.when
        IN  \E s \in IF t >= when THEN worker_cron(State) ELSE {State} :
                /\ os' = s.os
                /\ loop' = [s.loop EXCEPT !.phase = "before", !.now = t, !.lastTime = t \div Second,
                                          !.when = IF t >= when THEN t + Period ELSE when]
    /\ UNCHANGED ok

\* The rest of the process: a connection is accepted on the lowest free descriptor,
\* one that is not linked here is closed by the worker that has it.
Accept ==
    /\ os.next <= MaxConn
    /\ \E fd \in {f \in Fds \ {0} : os.conn[f] = 0} :
        /\ \A g \in Fds \ {0} : g < fd => os.conn[g] # 0
        /\ os' = [os EXCEPT !.conn[fd] = os.next, !.next = @ + 1]
    /\ UNCHANGED <<loop, ok>>

CloseElsewhere ==
    /\ \E fd \in Fds \ {0} : os.conn[fd] # 0 /\ ~os.linked[fd] /\ os' = [os EXCEPT !.conn[fd] = 0]
    /\ UNCHANGED <<loop, ok>>

Next == \/ BeforeSleep \/ aeApiPoll \/ aeProcessEvents \/ FilesDone \/ processTimeEvents
        \/ Accept \/ CloseElsewhere

\* Every callback gets the connection its descriptor belongs to at that moment, also
\* when an event handled earlier in the same round closed that descriptor and it
\* was given out again; epoll watches exactly what the loop has registered, which
\* is what makes its ADD and MOD succeed; a registered event belongs to a linked
\* connection; maxfd and setsize bound the registered descriptors; and after a
\* round the cron is due within its period, and a second at most if the clock was
\* set back (ae.c, ae_epoll.c, unlinkClient of vr_client.c).
EventsAreLive ==
    LET set == {fd \in Fds : loop.ev[fd].mask # {}} IN
    /\ ok
    /\ \A fd \in Fds : os.interest[fd] = loop.ev[fd].mask
    /\ \A fd \in set \ {0} : os.linked[fd] /\ loop.ev[fd].data = os.conn[fd]
    /\ loop.maxfd = MaxOf(set) /\ loop.maxfd < loop.setsize
    /\ loop.phase = "before" => loop.when <= loop.now + Period + Second - 1
=============================================================================
