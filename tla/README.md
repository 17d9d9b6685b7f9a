# Verification of vire

vire is a Redis server with several threads: one *master* thread accepts
connections, `threads` *worker* threads each run an event loop and serve the
clients that are linked to it, and one *backend* thread expires keys and moves
hash tables along. All threads share the keyspace, which is cut into internal
databases with a lock each; a client belongs to one worker at a time.

This directory holds TLA+ modules for the server, configurations for TLC, and
proofs for TLAPS.

    tlc -config ConnSwap_lossy.cfg MCConnSwap
    tlapm ConnSwapProofs.tla

## The system

| Part | Modules | Meets |
|---|---|---|
| master, hand-over of connections (`vr_master.c`, `vr_worker.c`, `vr_connection.c`) | ConnSwap, ClientOwner | workers, over swap lists and socketpairs |
| clients and the commands that visit every worker (`vr_client.c`, `vr_command.c`) | ClientJump | their worker, other workers through the master |
| requests and replies of a connection (`vr_client.c`) | Protocol, ReplyBuf | the peer |
| event loop (`dep/ae`, `vr_worker.c`) | EventLoop | handlers, the kernel |
| keyspace, active expiry, memory limit (`vr_db.c`, `vr_server.c`) | Keyspace | workers, backend |
| hash table (`vr_dict.c`) | Dict | keyspace, types |
| data types (`vr_t_*.c`) and encodings | Strings, List, Hash, SetType, SetOps, Zset, HyperLogLog; Quicklist, Ziplist, Intset, Skiplist | keyspace |
| configuration (`vr_conf.c`), AUTH and ADMIN (`vr_server.c`) | ConfOptions, ConfFile, ConfCache | all threads, the file |
| slow log (`vr_slowlog.c`) | Slowlog | workers, configuration |
| strings and lists (`dep/sds`, `dep/dlist`, `vr_util.c`) | Sds, Text, Dlist | everything |

What makes it hard: a client is handed from thread to thread in several steps,
and the notice of it travels apart from the client; three commands visit all
workers while clients come, go and jump themselves; a full socketpair, a failed
read, a failed allocation in the middle of a hand-over; replies that are left
over when a client changes its event loop; options that are cached per thread;
keys that expire or go between two locks; tables that are moved a bucket at a
time while they are scanned; values that change their encoding under a command.
`PROJECT.json` lists these hazards with their lines and properties.

## Modules: threads

**ConnSwap** models the hand-over of connections. Its state is the lists and
pipes the threads share: `csul` of each worker, the master's `cbsul`, the bytes
in both directions of the socketpairs (`down`, `up`), the connection counter
(`ncurr`), the client lists, and of each client its `curidx` and `steps`. An
action is what a thread does between two accesses to shared state: a whole
handler, except that `dispatch_conn_new` is cut before it writes the notice
(`Accept`, `NoticeNew`) and before it counts (`CountNew`), the master's relay
before it writes the notice (`MasterBack`, `NoticeJump`), and
`dispatch_conn_exist` after `cbsul_push` (`dist` and `Announce`). What commands
do is left open: `ReadQuery` lets a client stay or jump and lets it free any
clients of its worker, as CLIENT KILL may. The cron
frees only clients of its own worker here; that one on `clients_to_close` may
have jumped away meanwhile is in ClientJump. Failures are switched on by
`ReadFail`, `AllocFail` and a small `NoticeCap`. A unit records in `kind` what
its pointer really is; the code only has the byte. Reading freed memory gives
any worker index, or ends in the fault "wild". `MaxClients` is constant.

**ClientOwner** is what the hand-over promises: each connection has one seat
(none, new, linked to one worker, moving), a worker changes only the clients
that are linked to it or arrive, and at most `MaxClients` are open. `ConnSwap`
implements it with the refinement mapping `SeatOf`.

**ClientJump** models a client and its commands on top of such a hand-over: the
query buffer and the loop of `processInputBuffer` (one command a step, during
which the worker is `busy`), the jump of CLIENT LIST, CLIENT KILL and COMMAND
STATS with what they gather at each worker, the output buffer, the list of
pending writes (`pw`), write handlers (`wh`), CLIENT_CLOSE_AFTER_REPLY
(`closing`), `clients_to_close` and the cron. A reply is the serial number of
its command. Commands that are done in one call are one command, "plain".
`still` is a history variable: who has stayed on a worker since a jump began.

**Keyspace** models the keys of one logical database, cut into internal ones.
`db` holds the dict, the expires dict and whether a `serverAssert` failed
(`failed`); the C-level API (`dbAdd`, `setKey`, `expireIfNeeded`, ...) are
operators on it. What runs between taking and releasing the lock of an internal
database is one action; a command on several keys or on all internal databases
is a loop of such actions, with its position in `cmd`, and the other worker, the
backend (`CycleDb`) and the clock run in between. `freeMemoryIfNeeded` is such a
loop too, before the command. SCAN takes its keys under the lock and filters
them without it, so there each look-up is an action, and an entry that was freed
meanwhile reads as anything. SET forms its deadline in long long
(`Milliseconds`, `Deadline`). Values, and which of the keys it may evict a
policy prefers, are left out. A SCAN is the whole iteration, over tables that
are not resized (that is Dict's matter). `watch` is a history variable: which
keys were there all the time, or at some time, since a command began. The
backend's division of its work into calls is left out.

**MCConnSwap**, **MCClientJump** and **MCKeyspace** give TLC the constants.

## Modules: values (`MCTypes`)

A command on one key runs under the lock of its internal database, so it is one
step. In Strings, List, Hash, SetType, Zset and HyperLogLog `obj` is the value
of the key in the encoding it has, `ref` the abstract value the commands so far
must have made, and `agree` says whether the last command replied what it owed. Each
module has one action per command that writes, with its conversions of encoding
and the deletion of emptied keys; the commands that only read are operators
compared with `ref` in every state. Thresholds are scaled down so that every
encoding is met.

* **Strings**: int, embstr and raw values; conversion between text and long long
  with its ends; SETRANGE, APPEND, the increments; the bit commands, with the
  word-wise loops of `redisPopcount` and `redisBitpos` at any alignment.
* **List** over **Quicklist**: nodes with a limit on their size, indexes and
  deletions from either end, iterators that delete.
* **Hash**, **SetType** over **Intset** (binary search, widening), **Zset** over
  **Skiplist** (levels, spans, backward links): both encodings and the
  conversion. Scores are integers and the infinities, floating-point increments
  are over integers: rounding is left out.
* **HyperLogLog**: the sparse opcodes with splitting, merging and promotion, the
  6-bit packing, the cached count.
* **Ziplist**: entries by their lengths and offsets, the cascade of updates of
  `prevlen`.
* **SetOps**: SINTER, SUNION, SDIFF and their STORE forms lock one key at a time;
  another client writes between two steps. `seen` is a history variable: the
  values each key had since the command began.
* **Dict**: the two tables with their chains, a rehash step in each operation
  that makes one, growing and shrinking, the cursor of `dictScan`, the safe
  iterator. `walk` is the scan or iteration under way and what it owes.

## Modules: around the keyspace (`MCServer`)

* **ConfOptions**: the options and their setters, overflow included; an element
  read at an index that was never set is either outcome (`luck`).
* **ConfFile**: loading a file, CONFIG SET, CONFIG REWRITE one option at a time
  while others are set, the write and the truncation apart, a crash and a
  restart anywhere. `want` is what the file must say.
* **ConfCache**: `conf_cache_update` option by option under CONFIG SETs of other
  threads, and the gates of `processCommand`, AUTH and ADMIN, some of which read
  the copy and some the configuration.
* **Slowlog**: push and trim as separate critical sections of several workers,
  with a read of `slowlog-max-len` in between.
* **Protocol**: the parser over the query buffer, with reads of any size, inline
  and multi bulk requests, big arguments, errors, and jumps that stop it.
* **ReplyBuf**: the static buffer, the list of nodes, shared and appended nodes,
  deferred lengths, partial writes.
* **EventLoop**: registration, epoll's own interest, fired events handled in turn
  while descriptors are closed and reused, the cron under a clock that is set.
* **Sds**, **Text**: headers and room of dynamic strings; glob matching, quoting
  and splitting, the comparison of passwords, against reference definitions.
* **Dlist**: nodes by address, and an iterator while the list changes.

In `MCTypes` and `MCServer` the parts share the variables and never mix; `part`
is chosen in the initial state, and a property speaks of its own part.

Operators just above the definition they resemble, such as `SettleToSelf` or
`AdvancePlain`, are deliberate errors: a property is trusted once such an error
makes TLC refute it.

## Runs

| Run | Instance | Shows |
|---|---|---|
| `connswap_lossy` | 2 workers, 3 connections, 2 places, 1 notice per pipe, reads and allocations fail | one owner, routing, counter; ConnSwap implements ClientOwner |
| `connswap_live` | 3 workers, 2 connections, 2 notices per pipe, allocations fail, fair | units and notices in step; every hop ends; every socket is served |
| `connswap_race` | 2 workers, 2 connections | **violated**: `c->curidx` is read after the client was freed |
| `jump_gather` | 3 workers, 2 clients at a time, 3 commands in flight, events may fail | gathered answers complete and without repetition, replies in order, someone always will send them |
| `jump_kill` | 2 workers, 2 clients, 2 commands in flight, fair | CLIENT KILL leaves no match behind, nothing runs after a close, jumps are answered, replies are sent to a peer that reads |
| `keyspace_wide` | 2 workers, 2 keys in 2 internal databases, 3 times | wide commands answer within what their piecewise locking allows; the two dicts agree; no assertion fails under a lock; an expired key is neither written to nor revived |
| `keyspace_memory` | 2 workers, 4 keys, room for 1, volatile policy | eviction gives up only with reason; the limit is passed by at most one command per worker |
| `keyspace_live` | 2 workers, 2 keys, fair | expired keys are collected; RANDOMKEY returns |
| `keyspace_scan` | 2 workers, 2 keys | **violated**: the safety check of `getExpire`, reached from SCAN without the lock |
| `types` | `MCTypes` | every type in every encoding is its abstract value and replies rightly; set commands over several keys; scans and iterations complete |
| `setops_diff` | `MCTypes` | **violated**: the second algorithm of SDIFF loses the first set |
| `server` | `MCServer` | the eight properties of the parts above |

Some properties hold under a condition that is written into them, because the
code does not keep them beyond it:

* `RewriteIsFaithful`: no refused CONFIG SET has left its value behind, no
  password needs quotes, the file has no headers.
* `SlowlogBounded`: `slowlog-max-len` is not the -1 that a refused number leaves.
* `DictIsSet`: a scan is complete unless the table shrinks to a quarter.
* `SetOpAnswers`: SDIFF by its first algorithm; SINTER while no key vanishes.
* `WritesAreVisible`: the deadline SET computes is a long long (`Exact`).
* `SetIsRef`, `StringIsRef`: nothing wrapped in the last command (`agree` is then
  "wrapped", and the reply or value is what the code makes of it).
* `RepliesSent`: the peer goes on reading (`PeerReads`), see Fairness.
* `StringsAreRef`: the glob matcher on the calls `Regular` of Text names.
* `NoticesMatchUnits`: notices are reliable (`Reliable`). A socketpair holds a
  few hundred one-byte messages and `maxclients` is 10000 by default, so a burst
  can break this.

Disagreements without a run of their own. Those that name a definition show
with a small change to a configuration.

* A dropped notice strands a client for ever: `HopFinishes` fails in
  `ConnSwap_live.cfg` with `NoticeCap = 1`.
* `ASSERT(ln != NULL)` in `unlinkClient` fails when a swap unit cannot be
  allocated at a later hop of a jump: `FreedIsLinked` fails as the invariant of
  `ConnSwap_live.cfg`.
* Client ids are numbered per worker and so are not unique, and a client may
  jump while it is on `clients_to_close`: `UniqueIds` and `ToCloseIsOwn` each
  fail as the invariant of `ClientJump_gather.cfg`.
* SCAN returns expired keys of internal databases other than the last one it
  came to: `ScanFiltersExpired` fails as the invariant of `Keyspace_scan.cfg`.
* A refused CONFIG SET stays in effect (`maxmemory-policy` is stored at
  `vr_conf.c:265`, before the policies that `conf/vire.conf:118` calls
  unsupported are refused), and a later CONFIG REWRITE writes a file that does
  not load. Without its second disjunct `RewriteIsFaithful` says this.
* `dictGetRandomKey` makes a rehash step (`vr_dict.c:596`) under the read lock
  `dbRandomKey` takes; the comment at `vr_dict.c:459` says why reads must not.
* A header line of the configuration file is refused exactly when it is closed
  by its bracket (`vr_conf.c:1076`).
* After an inline request that ends in a bare newline `vr_client.c:1024` drops
  a byte of the next one; Protocol's inline requests end in CR LF.
* CLIENT PAUSE and CLIENT REPLY are answered with a syntax error: every branch
  before line 1629 of `vr_client.c` returns, so their code is not reached.
* SET with a time to live multiplies and adds without looking
  (`vr_t_string.c:49`, `:70`): the deadline may wrap into the past, and the key
  is written and dead at once. `EveryWriteIsVisible`, which is `WritesAreVisible`
  without its condition, fails as the property of `Keyspace_wide.cfg`.
* SETRANGE adds offset and length before it compares them with the limit
  (`vr_t_string.c:243`); the sum may wrap, pass, and ask for more memory than
  there is, which ends the process. DECRBY negates LLONG_MIN
  (`vr_t_string.c:489`), and SPOP cuts its count to 32 bits (`vr_t_set.c:450`),
  so that it may pop fewer elements than the comment at `vr_t_set.c:482`
  says. `NothingWraps` of `MCTypes` fails as the invariant of its run.

## Bounds

Three workers are the least at which a jump has a worker in the middle that
neither starts nor ends it, and at which a relay can overtake another worker's
notice. With three names and two places, a connection is refused and names are
used again. `NoticeCap` 2 with two clients is the least capacity that loses
nothing; 1 loses notices. In ClientJump, `MaxCmds` bounds the commands of the
connected clients together, so that three allow a pipeline of a jump between two
others; `MaxId` bounds how many clients a worker ever makes, which is why those
runs do not check for deadlock: a run may end with nobody left to connect. The
properties of `jump_gather` speak of one client or of two, and none of its
commands acts on another client, so two at a time are enough; names are used
again. It was also checked once with three clients and once with four commands.

In Keyspace the clock has the values 0 to 2 (`MaxNow`), which is before, at and
after a deadline of 1; a deadline past the end of the clock is stored as
`MaxNow`, one before its start as `Negative`. long long ends at 7 and a second
has 3 units (`LLONG_MAX`, `Second`), so that in `keyspace_wide` a sum and a
product wrap (`LongTimes`). There the writer's only deletion is an EXPIRE with a
time that has passed, which is the same call of `dbDelete` as DEL's. Two keys in
two internal databases let a wide command be overtaken between any two of its
sections; with two arguments the same key can be named twice. In
`keyspace_memory` there are more keys than the limit and one write of each
worker allow together, so that `MemoryBounded` could fail. These runs do not
check for deadlock because a failed assertion ends the process.

In `MCTypes` and `MCServer` sizes and thresholds of the code are constants with
small values, so that a few elements cross every one of them: three elements
convert a sorted set or a hash, four keys make a table grow, shrink and rehash,
three bytes fill a read. The lengths of entries in Ziplist are those of the
code; only the largest count its header holds is small. Integers wrap or are
refused at the ends given by `LLONG_MIN`, `LLONG_MAX`, `INT_MAX` and `UINT_MAX`.
Three requests in a row are the least in which a request is parsed between two
others.

## Fairness

`aeMain` serves every ready descriptor in each round, so a handler whose
descriptor is ready again and again runs: strong fairness for handlers of a
descriptor, weak fairness for the rest of a handler that has begun. Nothing is
assumed of clients: none has to send, and none has to read. That the socket of a
client becomes writable again and again is the peer's doing, so `RepliesSent`
has it as its premise (`PeerReads`), client by client. In Keyspace every thread
goes on with the command it has begun, time passes, and the backend's cron comes
again; that random sampling does not miss the same key for ever is strong
fairness for drawing each key. It holds with probability 1, except that a table
filled to less than 1% is not sampled until it has been resized, which is not
modelled there.

## Proofs

**ConnSwapProofs** and **ConnSwapCount** prove, for all numbers of workers,
connections, places and notices, with and without failures:

* `TypeCorrect`: the type invariant of ConnSwap.
* `OwnersExclusive` and `RoutingCorrect`: `OneOwner` and `RoutedByCuridx`.
  Neither is inductive: that a unit pushed on a list is not there already
  follows only from where its connection was before. `OwnerInv` says what each
  list may hold (a linked client is live, at its own index, in no jump; a unit
  for a socket holds a connection that is no client yet; a unit for a client
  comes from the worker before), that lists are free of repetition and apart
  from each other, and that nothing is lost while no fault has happened. Every
  action pops, pushes or settles; there is one lemma for each of these
  (`PopOwner`, `PushOwner`, `SettleOwner`), and each action is put together
  from them in `OwnerStep`.
* `CounterCorrect`: `CounterCoversOpen`, from `OwnerInv` and the cardinality of
  the set of open connections.
* `NoticesCorrect`: `NoticesMatchUnits`. A pipe has room because it holds at
  most one byte per unit, units hold different connections (`OwnerInv`) and at
  most `MaxClients` are open (`CounterCoversOpen`); so no byte is dropped, and
  list and pipe move in step.

Assumed is only `ConstantsAssumption`. Checked by TLC alone: liveness under
fairness, which is out of the prover's reach; the refinement of ClientOwner; and
everything about the other modules, many of which use RECURSIVE operators.

## Not modelled

`components` in `PROJECT.json` says what is left out of each part. In short:

* code no entry of the command table reaches: MULTI, blocking commands, Pub/Sub,
  replication, AOF, RDB, scripting, SMOVE, SRANDMEMBER, RPOPLPUSH, LINSERT,
  ZUNIONSTORE, ZINTERSTORE, PFMERGE, BITOP, RENAME, MOVE, insertion into and
  compression of quicklists, the LRU eviction pool, red-black trees, zipmaps;
* floating-point results: rounding of increments and scores, the estimate of
  PFCOUNT;
* text for display: INFO, CLIENT LIST lines, COMMAND, OBJECT, logging;
* start-up, signals, statistics;
* the free lists of `vr_connection.c`, which two threads change without a lock,
  so that any outcome is possible;
* a short `write` of the configuration file, which the code counts as success,
  and lines of it longer than 1024 bytes, which CONFIG REWRITE reads in pieces.

The modules of one key and Keyspace are not composed: Keyspace relies on one
command under one lock being one step, which is what they model.
