------------------------------ MODULE Slowlog ------------------------------
(***************************************************************************)
(* The slow log (vr_slowlog.c): every worker pushes entries at the head of *)
(* one list and trims its tail, in two critical sections with a read of    *)
(* slowlog-max-len in between, while CONFIG SET changes that option.       *)
(***************************************************************************)
EXTENDS Integers, Sequences, FiniteSets

CONSTANTS
    Workers,
    SLOWLOG_ENTRY_MAX_ARGC,
    Argcs,       \* numbers of arguments of the commands that are run
    MaxLens,     \* values slowlog-max-len is set to; -1 is what a refused number leaves
    MaxId,       \* bound: entries pushed in a behaviour
    MaxSets      \* bound: values slowlog-max-len has in a behaviour

VARIABLES
    log,     \* the list, head first, and the next id
    w,       \* per worker: where it is in slowlogPushEntryIfNeeded, what it pushed and read
    conf     \* slowlog-max-len; set counts how often it was set, trimmed is (not in the code)
             \* the set after which a worker last read it and trimmed

vars == <<log, w, conf>>

Idle == [at |-> "idle", pushed |-> FALSE, max |-> 0, set |-> 0]

\* Arguments past the limit are replaced by one that tells how many
\* there were; of, the number of arguments given, is not in the code.
slowlogCreateEntry(argc) ==
    [of   |-> argc,
     argc |-> IF argc > SLOWLOG_ENTRY_MAX_ARGC THEN SLOWLOG_ENTRY_MAX_ARGC ELSE argc,
     more |-> IF argc > SLOWLOG_ENTRY_MAX_ARGC THEN argc - SLOWLOG_ENTRY_MAX_ARGC + 1 ELSE 0]

\* slow: the command took at least the worker's slowlog-log-slower-than.  With
\* the log disabled the call returns at once, which is no step here.
Push(i, slow, argc) ==
    /\ w[i].at = "idle" /\ (slow => log.next < MaxId)
    /\ log' = IF slow THEN [list |-> <<[id |-> log.next, entry |-> slowlogCreateEntry(argc)]>> \o log.list,
                            next |-> log.next + 1]
              ELSE log
    /\ w' = [w EXCEPT ![i] = [Idle EXCEPT !.at = "read", !.pushed = slow]]
    /\ UNCHANGED conf
ReadMaxLen(i) ==
    /\ w[i].at = "read"
    /\ w' = [w EXCEPT ![i].at = "trim", ![i].max = conf.max, ![i].set = conf.set]
    /\ UNCHANGED <<log, conf>>

\* The length is unsigned: compared with a negative limit it is never greater.
TooLong(list, max) == max >= 0 /\ Len(list) > max

\* A mutant that drops one entry at most.
TrimOne(i) ==
    /\ w[i].at = "trim"
    /\ log' = IF TooLong(log.list, w[i].max) THEN [log EXCEPT !.list = SubSeq(@, 1, Len(@) - 1)] ELSE log
    /\ conf' = [conf EXCEPT !.trimmed = IF w[i].set > @ THEN w[i].set ELSE @]
    /\ w' = [w EXCEPT ![i] = Idle]
Trim(i) ==
    /\ w[i].at = "trim"
    /\ log' = IF TooLong(log.list, w[i].max) THEN [log EXCEPT !.list = SubSeq(@, 1, w[i].max)] ELSE log
    /\ conf' = [conf EXCEPT !.trimmed = IF w[i].set > @ THEN w[i].set ELSE @]
    /\ w' = [w EXCEPT ![i] = Idle]

slowlogReset(i) == w[i].at = "idle" /\ log' = [log EXCEPT !.list = <<>>] /\ UNCHANGED <<w, conf>>

SetMaxLen(i, n) ==
    /\ w[i].at = "idle" /\ conf.set < MaxSets
    /\ conf' = [conf EXCEPT !.max = n, !.set = @ + 1]
    /\ UNCHANGED <<log, w>>

Init ==
    /\ log = [list |-> <<>>, next |-> 0]
    /\ w = [i \in Workers |-> Idle]
    /\ conf \in [max : MaxLens, set : {1}, trimmed : {1}]
Next ==
    \E i \in Workers :
        \/ \E slow \in BOOLEAN, argc \in Argcs : Push(i, slow, argc)
        \/ ReadMaxLen(i) \/ Trim(i) \/ slowlogReset(i)
        \/ \E n \in MaxLens : SetMaxLen(i, n)
Spec == Init /\ [][Next]_vars

-----------------------------------------------------------------------------
\* The log is bounded and in order: its ids run down from the last one given with
\* no gap, so trims by several workers and resets only ever drop the oldest; no
\* entry has more than SLOWLOG_ENTRY_MAX_ARGC arguments, and a cut one accounts for
\* those it leaves out; and once a worker has
\* read the current slowlog-max-len and trimmed, the log is longer than it only by
\* the entries of workers that have not trimmed yet.  After a refused number has
\* left -1 in the option the log is not bounded.
SlowlogBounded ==
    /\ \A k \in DOMAIN log.list :
        /\ log.list[k].id = log.next - k
        /\ LET e == log.list[k].entry
           IN  /\ e.argc =< SLOWLOG_ENTRY_MAX_ARGC
               /\ e.of = IF e.more = 0 THEN e.argc ELSE e.argc - 1 + e.more
    /\ conf.trimmed = conf.set /\ conf.max >= 0 =>
        Len(log.list) =< conf.max + Cardinality({i \in Workers : w[i].pushed})
=============================================================================
