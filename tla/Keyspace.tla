------------------------------ MODULE Keyspace ------------------------------
(***************************************************************************)
(* The keys of one logical database, as the workers and the backend thread *)
(* use them together (vr_db.c, the string commands of vr_t_string.c, and   *)
(* freeMemoryIfNeeded in vr_server.c).  The logical database is cut into   *)
(* DbNum internal databases with a read-write lock each.                   *)
(*                                                                         *)
(* What runs between lockDbRead or lockDbWrite and unlockDb is one step:   *)
(* the lock keeps it apart from every other such section on that internal  *)
(* database.  A command on several keys, or on all internal databases, is  *)
(* a loop of sections, and other threads run between them.  Values are     *)
(* left out: a key is in the dict or not, and has a deadline or not.       *)
(***************************************************************************)
EXTENDS Integers, Sequences, FiniteSets

CONSTANTS
  Worker,       \* the worker threads, each serving one client
  Key,
  DbNum,        \* server.dbinum
  Home,         \* the internal database of each key
  Bucket,       \* the bucket of each key in its hash table
  Buckets,      \* how many buckets a hash table has
  Ops,          \* the commands that the client of each worker sends
  MaxArgs,      \* bound: how many keys a command names
  MaxNow,       \* bound: the clock stops here
  LLONG_MAX,    \* the end of long long, scaled down
  Second,       \* a second in milliseconds, scaled down
  Times,        \* the times that SET is given: a number and its unit
  MaxMemory,    \* maxmemory, counted in keys; 0 for no limit
  Policy,       \* maxmemory-policy: which keys it samples, if any
  KeysLimit     \* max-time-complexity-limit; 0 for no limit

Db == 0 .. DbNum-1

OnKey == {"set", "modify", "expire", "persist"}
OnKeys == {"mset", "del", "exists"}
OnAll == {"keys", "dbsize", "flush", "random", "scan"}

ASSUME ConstantsAssumption ==
  /\ IsFiniteSet(Worker) /\ IsFiniteSet(Key)
  /\ DbNum \in Nat \ {0} /\ Home \in [Key -> Db]
  /\ Buckets \in Nat \ {0} /\ Bucket \in [Key -> 0 .. Buckets-1]
  /\ Ops \in [Worker -> SUBSET (OnKey \cup OnKeys \cup OnAll)]
  /\ MaxArgs \in Nat \ {0} /\ MaxNow \in Nat \ {0}
  /\ LLONG_MAX \in Nat /\ MaxNow <= LLONG_MAX /\ Second \in Nat \ {0}
  /\ Times \subseteq [n : 1 .. LLONG_MAX, unit : {1, Second}]
  /\ MaxMemory \in Nat /\ KeysLimit \in Nat
  /\ Policy \in {"noeviction", "volatile", "allkeys"}

VARIABLES
  db,       \* [dict, expires, failed] of all internal databases together
  now,      \* vr_msec_now
  cmd,      \* the command each worker is running
  current,  \* current_db of activeExpireCycle
  watch     \* history: what each command could have seen since it began

vars == <<db, now, cmd, current, watch>>

-----------------------------------------------------------------------------
(***************************************************************************)
(* The C-level API.  s is a value of db.  expires[k] is the deadline of k, *)
(* or None when k is not in the expires dict.  A deadline may be negative, *)
(* and then it does not matter which: the commands take it for no          *)
(* deadline, the backend for one that has passed.  A failed serverAssert   *)
(* ends the process; failed names the function.                            *)
(***************************************************************************)
None == -1
Negative == -2

Require(s, holds, site) ==
  IF holds \/ s.failed # "no" THEN s ELSE [s EXCEPT !.failed = site]

KeysIn(s, i) == {k \in s.dict : Home[k] = i}
ExpiresIn(s, i) == {k \in Key : Home[k] = i /\ s.expires[k] # None}

dbAdd(s, k) ==
  Require([s EXCEPT !.dict = @ \cup {k}], k \notin s.dict, "dbAdd")

dbOverwrite(s, k) == Require(s, k \in s.dict, "dbOverwrite")

\* dbDelete, of several keys at once.
dbDeleteKeepsExpire(s, K) == [s EXCEPT !.dict = @ \ K]
dbDelete(s, K) ==
  [s EXCEPT !.dict = @ \ K,
            !.expires = [k \in Key |-> IF k \in K THEN None ELSE @[k]]]

removeExpire(s, k) ==
  Require([s EXCEPT !.expires[k] = None], k \in s.dict, "removeExpire")

setExpire(s, k, when) ==
  Require([s EXCEPT !.expires[k] = when], k \in s.dict, "setExpire")

\* getExpire returns s.expires[k]; this is its safety check.
getExpire(s, k) ==
  Require(s, s.expires[k] # None => k \in s.dict, "getExpire")

checkIfExpired(s, k, t) == s.expires[k] > 0 /\ t > s.expires[k]

expireIfNeeded(s, k, t) ==
  LET r == getExpire(s, k)
  IN  IF r.expires[k] < 0 \/ t <= r.expires[k] THEN r ELSE dbDelete(r, {k})

\* With expired = NULL, which makes lookupKeyWrite look at the dict alone.
setKey(s, k) ==
  removeExpire(IF k \in s.dict THEN dbOverwrite(s, k) ELSE dbAdd(s, k), k)

Live(s, t) == {k \in s.dict : ~checkIfExpired(s, k, t)}

\* dalloc_used_memory, in keys.
Used == Cardinality(db.dict)

-----------------------------------------------------------------------------
(***************************************************************************)
(* A command of a worker.  pc says how far it is: "evict" and "evicted" in *)
(* freeMemoryIfNeeded, "count" in the first loop of KEYS, "run" in its     *)
(* loop, "filter" and "check" where SCAN filters, "end" when it is about   *)
(* to reply, "oom" when it is about to reply that there is no memory.  at  *)
(* is the position of the loop (a key of args, or an internal database), n *)
(* a counter, got the keys of the reply, and batch and cursor the keys and *)
(* the cursor of one call of SCAN; RANDOMKEY starts at the database that   *)
(* cursor says.  time is the time to live that SET names, if it does.      *)
(***************************************************************************)
NoTime == [n |-> 0, unit |-> 1]

Idle ==
  [op |-> "none", pc |-> "idle", args |-> <<>>, at |-> 0, n |-> 0,
   got |-> {}, batch |-> {}, cursor |-> 0, time |-> NoTime]

NoWatch == [stable |-> {}, seen |-> {}]

Init ==
  /\ db = [dict |-> {}, expires |-> [k \in Key |-> None], failed |-> "no"]
  /\ now = 0
  /\ cmd = [w \in Worker |-> Idle]
  /\ current = 0
  /\ watch = [w \in Worker |-> NoWatch]

Running == db.failed = "no"

Goto(w, c) == cmd' = [cmd EXCEPT ![w] = c]
Finish(w) == Goto(w, Idle)

Evicting(c) == c.pc \in {"evict", "evicted", "oom"}

\* The dict that the policy samples.  noeviction gives up without looking,
\* which comes to the same as finding nothing.
Evictable(s) ==
  CASE Policy = "noeviction" -> {}
    [] Policy = "volatile" -> {k \in Key : s.expires[k] # None}
    [] Policy = "allkeys" -> s.dict

\* History: the keys that were there all the time since the command began (or
\* since it began to evict), and the keys that were there at some time.  What
\* this means depends on the command: DBSIZE, FLUSHDB and DEL are about all
\* keys of the dict, the others about keys that have not expired; eviction has
\* its own choice of keys, and a key that SCAN must return has no deadline.
Named(c) == IF c.op \in OnKeys THEN {c.args[i] : i \in DOMAIN c.args} ELSE Key
Lasting(c, s, t) ==
  CASE Evicting(c) -> Evictable(s)
    [] c.op \in {"dbsize", "flush", "del"} -> s.dict \cap Named(c)
    [] c.op \in {"keys", "random", "exists"} -> Live(s, t) \cap Named(c)
    [] c.op = "scan" -> {k \in s.dict : s.expires[k] = None}
    [] OTHER -> {}
Appearing(c, s, t) ==
  CASE Evicting(c) -> {}
    [] c.op = "dbsize" -> s.dict
    [] c.op \in {"keys", "random", "exists", "scan"} -> Live(s, t) \cap Named(c)
    [] OTHER -> {}
Watch ==
  watch' = [w \in Worker |->
    LET c == cmd'[w]
        lasting == Lasting(c, db', now')
        appearing == Appearing(c, db', now')
    IN  IF c.pc = "idle" THEN NoWatch
        ELSE IF cmd[w].pc = "idle" \/ Evicting(cmd[w]) # Evicting(c)
          THEN [stable |-> lasting, seen |-> appearing]
        ELSE [stable |-> watch[w].stable \cap lasting,
              seen |-> watch[w].seen \cup appearing]]

-----------------------------------------------------------------------------
(***************************************************************************)
(* processCommand calls freeMemoryIfNeeded before every command, and       *)
(* refuses a command that may need memory when nothing can be freed.       *)
(***************************************************************************)
DenyOom == {"set", "modify", "mset"}

Started(c) ==
  [c EXCEPT !.pc = IF c.op = "keys" THEN "count" ELSE "run",
            !.at = IF c.op \in OnKeys THEN 1 ELSE c.cursor, !.n = 0]

Commands(w) ==
  {[Idle EXCEPT !.op = o, !.args = <<k>>] : o \in Ops[w] \cap OnKey, k \in Key}
  \cup {[Idle EXCEPT !.op = o, !.args = <<k>>, !.time = x] :
          o \in Ops[w] \cap {"set"}, k \in Key, x \in Times}
  \cup {[Idle EXCEPT !.op = o, !.args = a] :
          o \in Ops[w] \cap OnKeys, a \in UNION {[1 .. m -> Key] : m \in 1 .. MaxArgs}}
  \cup {[Idle EXCEPT !.op = o] : o \in Ops[w] \cap OnAll}
  \cup {[Idle EXCEPT !.op = o, !.cursor = i] : o \in Ops[w] \cap {"random"}, i \in Db}

BeginUnchecked(w) ==
  /\ cmd[w].pc = "idle"
  /\ \E c \in Commands(w) : Goto(w, Started(c))
  /\ UNCHANGED <<db, now, current>>
Begin(w) ==
  /\ cmd[w].pc = "idle"
  /\ \E c \in Commands(w) :
       Goto(w, IF MaxMemory = 0 \/ Used <= MaxMemory THEN Started(c)
               ELSE [c EXCEPT !.pc = "evict", !.at = 0, !.n = 0])
  /\ UNCHANGED <<db, now, current>>

\* What freeMemoryIfNeeded does under the lock of one internal database: it
\* takes some key of the dict that the policy samples.
EvictOneForgets(w) ==
  LET c == cmd[w]
  IN  /\ c.pc = "evict" /\ c.at < DbNum
      /\ \/ /\ \E k \in Evictable(db) :
                 Home[k] = c.at /\ db' = dbDelete(db, {k})
            /\ Goto(w, [c EXCEPT !.pc = "evicted", !.at = @ + 1])
         \/ /\ \A k \in Evictable(db) : Home[k] # c.at
            /\ Goto(w, [c EXCEPT !.at = @ + 1])
            /\ UNCHANGED db
      /\ UNCHANGED <<now, current>>
EvictOne(w) ==
  LET c == cmd[w]
  IN  /\ c.pc = "evict" /\ c.at < DbNum
      /\ \/ /\ \E k \in Evictable(db) :
                 Home[k] = c.at /\ db' = dbDelete(db, {k})
            /\ Goto(w, [c EXCEPT !.pc = "evicted", !.at = @ + 1, !.n = 1])
         \/ /\ \A k \in Evictable(db) : Home[k] # c.at
            /\ Goto(w, [c EXCEPT !.at = @ + 1])
            /\ UNCHANGED db
      /\ UNCHANGED <<now, current>>

\* It looks at the memory again after the lock is released.
Evicted(w) ==
  LET c == cmd[w]
  IN  /\ c.pc = "evicted"
      /\ Goto(w, IF Used <= MaxMemory THEN Started(c) ELSE [c EXCEPT !.pc = "evict"])
      /\ UNCHANGED <<db, now, current>>

\* After a round over all databases: again, or give up if none gave a key.
EvictRound(w) ==
  LET c == cmd[w]
  IN  /\ c.pc = "evict" /\ c.at = DbNum
      /\ Goto(w, IF c.n # 0 THEN [c EXCEPT !.at = 0, !.n = 0]
                 ELSE IF c.op \in DenyOom THEN [c EXCEPT !.pc = "oom"]
                 ELSE Started(c))
      /\ UNCHANGED <<db, now, current>>

-----------------------------------------------------------------------------
(***************************************************************************)
(* Commands with one section.  The clock is read once for the look-up and  *)
(* may have moved to t when a deadline is computed or compared.            *)
(***************************************************************************)
On(w, op) == cmd[w].pc = "run" /\ cmd[w].op = op
Arg(w) == cmd[w].args[1]
Later == now .. MaxNow
\* Bound: a deadline past the end of time is never met anyway.
AtMost(when) ==
  IF when < 0 THEN Negative ELSE IF when < MaxNow THEN when ELSE MaxNow

\* What arithmetic on long long makes of n; setGenericCommand refuses a time
\* that is not positive, and looks neither at the product nor at the sum.
LongLong(n) == ((n + LLONG_MAX + 1) % (2 * (LLONG_MAX + 1))) - (LLONG_MAX + 1)
Milliseconds(time) == LongLong(time.n * time.unit)
Deadline(time, t) == LongLong(t + Milliseconds(time))

\* setGenericCommand: with NX, XX or neither, and with a time or none.  In the
\* effect on the keys, getsetCommand is the case without NX, XX and time.
Set(w) ==
  LET k == Arg(w)
      time == cmd[w].time
      found == expireIfNeeded(db, k, now)
  IN  /\ On(w, "set")
      /\ \/ db' = found /\ UNCHANGED now               \* NX or XX not met
         \/ time = NoTime /\ db' = setKey(found, k) /\ UNCHANGED now
         \/ /\ time # NoTime
            /\ \E t \in Later :
                 /\ db' = setExpire(setKey(found, k), k, AtMost(Deadline(time, t)))
                 /\ now' = t
      /\ Finish(w)
      /\ UNCHANGED current

\* incrDecrCommand, incrbyfloatCommand, appendCommand, setrangeCommand: a
\* missing key is added, the deadline of a key stays; or the type, a number or
\* a length is refused.
ModifyUnexpired(w) ==
  LET k == Arg(w)
  IN  /\ On(w, "modify")
      /\ db' = (IF k \in db.dict THEN dbOverwrite(db, k) ELSE dbAdd(db, k))
      /\ Finish(w)
      /\ UNCHANGED <<now, current>>
Modify(w) ==
  LET k == Arg(w)
      found == expireIfNeeded(db, k, now)
  IN  /\ On(w, "modify")
      /\ \/ db' = found
         \/ db' = IF k \in found.dict THEN dbOverwrite(found, k) ELSE dbAdd(found, k)
      /\ Finish(w)
      /\ UNCHANGED <<now, current>>

\* expireGenericCommand: the time is any, since EXPIRE computes it before it
\* waits for the lock and EXPIREAT is given it.
ExpireUnexpired(w) ==
  LET k == Arg(w)
  IN  /\ On(w, "expire")
      /\ k \in db.dict
      /\ \E when \in now+1 .. MaxNow+1 : db' = setExpire(db, k, AtMost(when))
      /\ Finish(w)
      /\ UNCHANGED <<now, current>>
Expire(w) ==
  LET k == Arg(w)
      found == expireIfNeeded(db, k, now)
  IN  /\ On(w, "expire")
      /\ \/ k \notin found.dict /\ db' = found /\ UNCHANGED now
         \/ /\ k \in found.dict
            /\ \E t \in Later, when \in 0 .. MaxNow+1 :
                 /\ db' = IF when <= t THEN dbDelete(found, {k})
                                       ELSE setExpire(found, k, AtMost(when))
                 /\ now' = t
      /\ Finish(w)
      /\ UNCHANGED current

\* persistCommand looks at the dict alone, not at the clock.
Persist(w) ==
  LET k == Arg(w)
  IN  /\ On(w, "persist")
      /\ db' = IF k \in db.dict THEN removeExpire(db, k) ELSE db
      /\ Finish(w)
      /\ UNCHANGED <<now, current>>

-----------------------------------------------------------------------------
(***************************************************************************)
(* Commands on several keys: a section for each of them.                   *)
(***************************************************************************)
OnNext(w, op) == On(w, op) /\ cmd[w].at <= Len(cmd[w].args)
NextArg(w) == cmd[w].args[cmd[w].at]
Advance(w, more) ==
  LET c == cmd[w]
  IN  Goto(w, [c EXCEPT !.at = @ + 1, !.n = @ + more,
                        !.pc = IF c.at = Len(c.args) THEN "end" ELSE "run"])

MSet(w) ==
  /\ OnNext(w, "mset")
  /\ db' = setKey(expireIfNeeded(db, NextArg(w), now), NextArg(w))
  /\ Advance(w, 0)
  /\ UNCHANGED <<now, current>>

Del(w) ==
  LET k == NextArg(w)
      found == expireIfNeeded(db, k, now)
  IN  /\ OnNext(w, "del")
      /\ db' = dbDelete(found, {k})
      /\ Advance(w, IF k \in found.dict THEN 1 ELSE 0)
      /\ UNCHANGED <<now, current>>

ExistsDeadline(w) ==
  LET k == NextArg(w)
  IN  /\ OnNext(w, "exists")
      /\ db' = getExpire(db, k)
      /\ Advance(w, IF db.expires[k] = None /\ k \in db.dict THEN 1 ELSE 0)
      /\ UNCHANGED <<now, current>>
Exists(w) ==
  LET k == NextArg(w)
  IN  /\ OnNext(w, "exists")
      /\ db' = getExpire(db, k)
      /\ Advance(w, IF ~checkIfExpired(db, k, now) /\ k \in db.dict THEN 1 ELSE 0)
      /\ UNCHANGED <<now, current>>

-----------------------------------------------------------------------------
(***************************************************************************)
(* Commands on all internal databases: a section for each of them.         *)
(***************************************************************************)
NextDbSkips(c) ==
  [c EXCEPT !.at = @ + 2, !.pc = IF c.at + 2 >= DbNum THEN "end" ELSE "run"]
NextDb(c) ==
  [c EXCEPT !.at = @ + 1, !.pc = IF c.at + 1 = DbNum THEN "end" ELSE "run"]

Flush(w) ==
  /\ On(w, "flush")
  /\ db' = dbDelete(db, {k \in Key : Home[k] = cmd[w].at})
  /\ Goto(w, NextDb(cmd[w]))
  /\ UNCHANGED <<now, current>>

DbSize(w) ==
  /\ On(w, "dbsize")
  /\ Goto(w, [NextDb(cmd[w]) EXCEPT !.n = @ + Cardinality(KeysIn(db, cmd[w].at))])
  /\ UNCHANGED <<db, now, current>>

\* The first loop of keysCommand, with the check of the limit after it.
KeysCount(w) ==
  LET c == cmd[w]
      n == c.n + Cardinality(KeysIn(db, c.at))
  IN  /\ c.pc = "count"
      /\ Goto(w, IF c.at + 1 < DbNum THEN [c EXCEPT !.at = @ + 1, !.n = n]
                 ELSE IF KeysLimit # 0 /\ n > KeysLimit THEN Idle
                 ELSE [c EXCEPT !.pc = "run", !.at = 0, !.n = 0])
      /\ UNCHANGED <<db, now, current>>

\* Its second loop, with the pattern "*": a key that has expired is deleted.
Keys(w) ==
  LET c == cmd[w]
      here == KeysIn(db, c.at)
      dead == {k \in here : expireIfNeeded(db, k, now) # db}
  IN  /\ On(w, "keys")
      /\ db' = dbDelete(db, dead)
      /\ Goto(w, [NextDb(c) EXCEPT !.got = @ \cup (here \ dead)])
      /\ UNCHANGED <<now, current>>

\* The keys dbRandomKey may return: it draws until it draws one that has not
\* expired, and where all have it goes on drawing.
dbRandomKey(s, i, t) == KeysIn(s, i) \cap Live(s, t)

\* One turn of the loop of randomkeyCommand, which goes on with the next internal
\* database when one is empty.
RandomKeyShort(w) ==
  LET c == cmd[w]
      here == KeysIn(db, c.at)
  IN  /\ On(w, "random")
      /\ \/ \E k \in dbRandomKey(db, c.at, now) :
              Goto(w, [c EXCEPT !.got = {k}, !.pc = "end"])
         \/ /\ here = {}
            /\ Goto(w, IF c.n < DbNum - 2
                         THEN [c EXCEPT !.n = @ + 1, !.at = (@ + 1) % DbNum]
                         ELSE [c EXCEPT !.pc = "end"])
      /\ UNCHANGED <<db, now, current>>
RandomKey(w) ==
  LET c == cmd[w]
      here == KeysIn(db, c.at)
  IN  /\ On(w, "random")
      /\ \/ \E k \in dbRandomKey(db, c.at, now) :
              Goto(w, [c EXCEPT !.got = {k}, !.pc = "end"])
         \/ /\ here = {}
            /\ Goto(w, IF c.n < DbNum
                         THEN [c EXCEPT !.n = @ + 1, !.at = (@ + 1) % DbNum]
                         ELSE [c EXCEPT !.pc = "end"])
      /\ UNCHANGED <<db, now, current>>

-----------------------------------------------------------------------------
(***************************************************************************)
(* SCAN, called again with the cursor of the last reply until that is 0.   *)
(* Which internal database it has come to is kept in c->scanid, here at.   *)
(* The hash table has a fixed number of buckets.  A call visits some of    *)
(* them under the lock (COUNT decides how many; dictScan is through with   *)
(* an empty table at once), and goes on with the next database when it is  *)
(* through with one.  That every call passes freeMemoryIfNeeded is left    *)
(* out for all but the first.                                              *)
(***************************************************************************)
VisitedTo(c) == IF KeysIn(db, c.at) = {} THEN {Buckets} ELSE c.cursor+1 .. Buckets

VisitStops(w) ==
  LET c == cmd[w]
  IN  /\ On(w, "scan")
      /\ \E e \in VisitedTo(c) :
           LET read == {k \in KeysIn(db, c.at) : Bucket[k] \in c.cursor .. e-1}
           IN  Goto(w, [c EXCEPT !.batch = @ \cup read, !.cursor = e % Buckets,
                                 !.pc = "filter"])
      /\ UNCHANGED <<db, now, current>>
Visit(w) ==
  LET c == cmd[w]
  IN  /\ On(w, "scan")
      /\ \E e \in VisitedTo(c) :
           LET read == {k \in KeysIn(db, c.at) : Bucket[k] \in c.cursor .. e-1}
               d == [c EXCEPT !.batch = @ \cup read, !.cursor = e % Buckets]
           IN  Goto(w, IF e = Buckets /\ c.at < DbNum - 1
                         THEN [d EXCEPT !.at = @ + 1]
                         ELSE [d EXCEPT !.pc = "filter"])
      /\ UNCHANGED <<db, now, current>>

\* Then, with no lock, it looks for each key in the expires dict of the
\* database it came to last: getExpire up to its safety check.
Filter(w) ==
  LET c == cmd[w]
  IN  /\ c.pc = "filter"
      /\ \E k \in c.batch :
           Goto(w, IF Home[k] # c.at \/ db.expires[k] = None
                     THEN [c EXCEPT !.batch = @ \ {k}, !.got = @ \cup {k}]
                     ELSE [c EXCEPT !.pc = "check", !.args = <<k>>, !.n = db.expires[k]])
      /\ UNCHANGED <<db, now, current>>

\* The safety check, and the deadline, read from an entry that another thread
\* may have freed meanwhile: then it may be anything.
Check(w) ==
  LET c == cmd[w]
      k == Arg(w)
      kept == IF db.expires[k] = c.n THEN {~checkIfExpired(db, k, now)} ELSE BOOLEAN
  IN  /\ c.pc = "check"
      /\ db' = Require(db, k \in db.dict, "scan")
      /\ \E keep \in kept :
           Goto(w, [c EXCEPT !.pc = "filter", !.args = <<>>, !.n = 0, !.batch = @ \ {k},
                             !.got = IF keep THEN @ \cup {k} ELSE @])
      /\ UNCHANGED <<now, current>>

\* The reply of one call, and the next call.
ScanReply(w) ==
  LET c == cmd[w]
  IN  /\ c.pc = "filter" /\ c.batch = {}
      /\ Goto(w, [c EXCEPT !.pc = IF c.cursor = 0 THEN "end" ELSE "run"])
      /\ UNCHANGED <<db, now, current>>

Reply(w) ==
  /\ cmd[w].pc \in {"end", "oom"}
  /\ Finish(w)
  /\ UNCHANGED <<db, now, current>>

-----------------------------------------------------------------------------
(***************************************************************************)
(* activeExpireCycle, as the cron of the backend thread calls it: under    *)
(* the lock of one database it deletes those expired keys that it happens  *)
(* to draw.  How many databases a call visits, and whether it stops for    *)
(* want of time, only decides when it goes on: the next section, of this   *)
(* call or of the next, is always on the database at current_db.           *)
(***************************************************************************)
Due == {k \in ExpiresIn(db, current) : now > db.expires[k]}

CycleDbNoWrap(drawn) ==
  /\ db' = dbDelete(db, drawn)
  /\ current' = current + 1
  /\ UNCHANGED <<now, cmd>>
CycleDbStays(drawn) ==
  /\ db' = dbDelete(db, drawn)
  /\ UNCHANGED <<now, cmd, current>>
CycleDb(drawn) ==
  /\ db' = dbDelete(db, drawn)
  /\ current' = (current + 1) % DbNum
  /\ UNCHANGED <<now, cmd>>

Tick ==
  /\ now < MaxNow /\ now' = now + 1
  /\ UNCHANGED <<db, cmd, current>>

-----------------------------------------------------------------------------
Single(w) == Set(w) \/ Modify(w) \/ Expire(w) \/ Persist(w)
Multi(w) == MSet(w) \/ Del(w) \/ Exists(w)
All(w) == Flush(w) \/ DbSize(w) \/ KeysCount(w) \/ Keys(w) \/ RandomKey(w)
Scan(w) == Visit(w) \/ Filter(w) \/ Check(w) \/ ScanReply(w)
FreeMemory(w) == EvictOne(w) \/ Evicted(w) \/ EvictRound(w)

Continue(w) ==
  /\ Running
  /\ Single(w) \/ Multi(w) \/ All(w) \/ Scan(w) \/ FreeMemory(w) \/ Reply(w)
  /\ Watch
Accept(w) == Running /\ Begin(w) /\ Watch
Collect(drawn) == Running /\ CycleDb(drawn) /\ Watch
Time == Running /\ Tick /\ Watch

Next ==
  \/ \E w \in Worker : Accept(w) \/ Continue(w)
  \/ \E drawn \in SUBSET Due : Collect(drawn)
  \/ Time

Spec == Init /\ [][Next]_vars

(***************************************************************************)
(* Every thread goes on, and time passes.  Drawing at random from the keys *)
(* with a deadline, the backend does not miss the same key for ever.       *)
(***************************************************************************)
Fairness ==
  /\ \A w \in Worker : WF_vars(Continue(w))
  /\ WF_vars(\E drawn \in SUBSET Due : Collect(drawn))
  /\ \A k \in Key : SF_vars(\E drawn \in SUBSET Due : k \in drawn /\ Collect(drawn))
  /\ WF_vars(Time)

FairSpec == Spec /\ Fairness

-----------------------------------------------------------------------------
\* The state of the keyspace, of the commands and of the backend has its type.
TypeOK ==
  /\ db \in [dict : SUBSET Key, expires : [Key -> {None, Negative} \cup (0 .. MaxNow)],
             failed : {"no", "dbAdd", "dbOverwrite", "removeExpire", "setExpire",
                       "getExpire", "scan"}]
  /\ now \in 0 .. MaxNow
  /\ \A w \in Worker :
       /\ cmd[w].op \in {"none"} \cup Ops[w]
       /\ cmd[w].args \in Seq(Key) /\ cmd[w].at \in Nat
       /\ cmd[w].n \in Nat \cup {Negative} /\ cmd[w].time \in Times \cup {NoTime}
       /\ cmd[w].got \subseteq Key /\ cmd[w].batch \subseteq Key
       /\ cmd[w].cursor \in 0 .. DbNum + Buckets
  /\ current \in Db
  /\ watch \in [Worker -> [stable : SUBSET Key, seen : SUBSET Key]]

\* No command aborts the server: the assertions of dbAdd, dbOverwrite,
\* removeExpire, setExpire and getExpire hold wherever they are reached with
\* the lock held; and no key stays in an expires dict after it has left the
\* dict, whichever of DEL, FLUSHDB, expiry on access, the backend and eviction
\* took it (vr_db.c:969: "it should also be present in the main dict").
AssertsHold ==
  /\ db.failed \in {"no", "scan"}
  /\ {k \in Key : db.expires[k] # None} \subseteq db.dict

Ends(w, op) == cmd[w].op = op /\ cmd[w].pc = "end"

\* KEYS, though it locks one internal database at a time, returns every key
\* that was alive during the whole command and no key that never was
\* (keysCommand).
KeysComplete ==
  \A w \in Worker : Ends(w, "keys") =>
    watch[w].stable \subseteq cmd[w].got /\ cmd[w].got \subseteq watch[w].seen

\* DBSIZE returns a number between that of the keys that were there all the
\* time and that of the keys that were there at some time (dbsizeCommand).
DbSizeBounds ==
  \A w \in Worker : Ends(w, "dbsize") =>
    /\ Cardinality(watch[w].stable) <= cmd[w].n
    /\ cmd[w].n <= Cardinality(watch[w].seen)

\* EXISTS counts every argument that was alive during the whole command, and
\* none that never was, the same key named twice included (existsCommand).
ExistsBounds ==
  \A w \in Worker : Ends(w, "exists") =>
    LET args == cmd[w].args
        In(S) == Cardinality({i \in DOMAIN args : args[i] \in S})
    IN  In(watch[w].stable) <= cmd[w].n /\ cmd[w].n <= In(watch[w].seen)

\* When FLUSHDB or DEL ends, no key that it was to remove has been in the dict
\* all the time, whatever others wrote meanwhile (flushdbCommand, delCommand).
Removed ==
  \A w \in Worker :
    /\ Ends(w, "flush") => watch[w].stable = {}
    /\ Ends(w, "del") =>
         \A i \in DOMAIN cmd[w].args : cmd[w].args[i] \notin watch[w].stable

\* RANDOMKEY returns nil only if no key lived during the whole command, and
\* otherwise a key that was alive (randomkeyCommand, dbRandomKey).
RandomKeyFound ==
  \A w \in Worker : Ends(w, "random") =>
    /\ cmd[w].got = {} => watch[w].stable = {}
    /\ cmd[w].got \subseteq watch[w].seen

\* A full iteration of SCAN returns every key that was there all the time and
\* whose deadline the unlocked filter could not misread, because it had none
\* (scanGenericCommand).
ScanComplete ==
  \A w \in Worker : Ends(w, "scan") =>
    watch[w].stable \subseteq cmd[w].got

\* The commands that lock one internal database after another answer what
\* their weak atomicity allows and no more: KEYS, DBSIZE, EXISTS, RANDOMKEY and
\* a full iteration of SCAN, each as said above (vr_db.c:342-513, 515-776).
WideAnswers ==
  KeysComplete /\ DbSizeBounds /\ ExistsBounds /\ RandomKeyFound /\ ScanComplete

\* freeMemoryIfNeeded gives up only if no key that it could have evicted was
\* there all the time (vr_server.c:638).
GivesUpRightly ==
  \A w \in Worker : cmd[w].pc = "oom" => watch[w].stable = {}

\* The limit of memory is checked before a command and not while it runs, so
\* it may be exceeded, but only by what one command of each worker can add
\* (processCommand).
MemoryBounded ==
  MaxMemory # 0 => Used <= MaxMemory + Cardinality(Worker) * MaxArgs

\* An expired key comes back to life only by a command that names it and
\* writes a new value, or by PERSIST (lookupKeyWrite before every write).
DeadStaysDead ==
  [][\A k \in db.dict \ Live(db, now) :
       k \in Live(db', now') =>
         \E w \in Worker :
           /\ cmd[w].op \in {"set", "mset", "modify", "persist"} /\ cmd'[w] # cmd[w]
           /\ \E i \in DOMAIN cmd[w].args : cmd[w].args[i] = k]_vars

\* The deadline of a time given at t is a long long.
Exact(time, t) == t + time.n * time.unit <= LLONG_MAX

Writing(w) == cmd[w].pc = "run" /\ cmd[w].op \in OnKey \ {"persist"} /\ cmd'[w] # cmd[w]

\* A command that writes a key never leaves it in the dict as an expired key,
\* where the write would be invisible and the next access would delete it
\* (lookupKeyWrite with expired given, setExpire after the clock moved on).  A
\* SET whose deadline is no long long is excepted.
WritesAreVisible ==
  [][\A w \in Worker : Writing(w) /\ Exact(cmd[w].time, now') =>
       Arg(w) \notin db'.dict \ Live(db', now')]_vars

\* The same of every SET that is given a positive time (vr_t_string.c:45).  The
\* code does not keep this: neither the product (49) nor the sum (70) is checked.
EveryWriteIsVisible ==
  [][\A w \in Worker : Writing(w) => Arg(w) \notin db'.dict \ Live(db', now')]_vars

\* The entry of the expires dict that SCAN found while it filtered is still in
\* the main dict when getExpire checks that (vr_db.c:969-971).
ScanAssertHolds == db.failed # "scan"

\* SCAN returns only keys that were alive at some time during it: "Filter
\* element if it is an expired key" (vr_db.c:718).
ScanFiltersExpired ==
  \A w \in Worker : Ends(w, "scan") => cmd[w].got \subseteq watch[w].seen

\* An expired key does not stay for ever, even if nobody asks for it: the
\* backend comes to its database and draws it (activeExpireCycle).
ExpiredCollected ==
  \A k \in Key : (k \in db.dict \ Live(db, now)) ~> (k \notin db.dict \ Live(db, now))

\* RANDOMKEY returns, although it draws again and again while all keys of a
\* database have expired (dbRandomKey).
RandomKeyReturns ==
  \A w \in Worker : (cmd[w].op = "random") ~> (cmd[w].pc \in {"end", "idle"})
=============================================================================
