----------------------------- MODULE ConfCache -----------------------------
(***************************************************************************)
(* The configuration as the threads see it: CONFIG SET by the client of    *)
(* any thread, the copy of the hot options every thread keeps and brings   *)
(* up to date from its cron, and the gates of processCommand, AUTH and     *)
(* ADMIN, some of which read the copy and some the configuration.          *)
(***************************************************************************)
EXTENDS ConfOptions

CONSTANTS
    Threads,     \* worker threads, each with one client
    Sets,        \* the <<option, conf_value>> pairs clients send with CONFIG SET
    FdLimit,     \* the clients the operating system has file descriptors for
    MaxVersion   \* bound: no CONFIG SET past this version of the configuration

VARIABLES
    conf,    \* the options and their version, behind the rwlock
    thr,     \* per thread: the copy, its update in progress, its client's authenticated level
    gate     \* not in the code: per thread, whether requirepass was empty at some moment since
             \* its last update began (open) and since the one in progress began (pending);
             \* late, whether the last command ran although it was not

vars == <<conf, thr, gate>>

Cached == <<"maxclients", "requirepass", "adminpass", "maxmemory", "max-time-complexity-limit",
            "slowlog-log-slower-than">>
CachedOptions == {Cached[i] : i \in DOMAIN Cached}
Idle == [at |-> 0, version |-> 0]

NoPass == conf.val["requirepass"] = <<>>

conf_cache_init(c) == [val |-> [o \in CachedOptions |-> c.val[o]], version |-> 0]

\* conf_cache_update: the version is read first.  A newer one drops the
\* passwords and starts the copy, one option per read lock.
CacheBegin(t) ==
    /\ thr[t].upd.at = 0 /\ conf.version > thr[t].cc.version
    /\ gate' = [gate EXCEPT !.pending[t] = NoPass]
    /\ thr' = [thr EXCEPT ![t].upd = [at |-> 1, version |-> conf.version],
                          ![t].cc.val = [@ EXCEPT !["requirepass"] = <<>>, !["adminpass"] = <<>>]]
    /\ UNCHANGED conf
CacheUpToDate(t) ==
    /\ thr[t].upd.at = 0 /\ conf.version =< thr[t].cc.version
    /\ gate' = [gate EXCEPT !.open[t] = NoPass]
    /\ UNCHANGED <<conf, thr>>
CacheCopy(t) ==
    /\ thr[t].upd.at \in 1 .. Len(Cached)
    /\ thr' = [thr EXCEPT ![t].upd.at = @ + 1,
                          ![t].cc.val[Cached[thr[t].upd.at]] = conf.val[Cached[thr[t].upd.at]]]
    /\ UNCHANGED <<conf, gate>>

\* A mutant that stamps the copy with the version found when it is complete.
CacheEndStampNow(t) ==
    /\ thr[t].upd.at = Len(Cached) + 1
    /\ thr' = [thr EXCEPT ![t].upd = Idle, ![t].cc.version = conf.version]
    /\ gate' = [gate EXCEPT !.open[t] = gate.pending[t]]
    /\ UNCHANGED conf

\* The copy carries the version read before it was made.
CacheEnd(t) ==
    /\ thr[t].upd.at = Len(Cached) + 1
    /\ thr' = [thr EXCEPT ![t].upd = Idle, ![t].cc.version = thr[t].upd.version]
    /\ gate' = [gate EXCEPT !.open[t] = gate.pending[t]]
    /\ UNCHANGED conf

-----------------------------------------------------------------------------
(* Commands: a thread runs one only between two calls of its cron. *)

\* The gates of processCommand; needadmin is set by commands-need-adminpass.
NoAuth(t, cmd) ==
    thr[t].cc.val["requirepass"] # <<>> /\ thr[t].auth = 0 /\ cmd \notin {"auth", "admin"}
NoAdmin(t, cmd, needadmin) ==
    needadmin /\ thr[t].cc.val["adminpass"] # <<>> /\ thr[t].auth < 2 /\ cmd # "admin"
Through(t, cmd, needadmin) == ~NoAuth(t, cmd) /\ ~NoAdmin(t, cmd, needadmin)
Late(t, cmd, needadmin) ==
    Through(t, cmd, needadmin) /\ cmd \notin {"auth", "admin"} /\ thr[t].auth = 0 /\ ~gate.open[t]
processCommand(t, cmd, needadmin) ==
    /\ thr[t].upd.at = 0
    /\ gate' = [open    |-> [u \in Threads |-> gate.open[u] \/ conf'.val["requirepass"] = <<>>],
                pending |-> [u \in Threads |-> gate.pending[u] \/ conf'.val["requirepass"] = <<>>],
                late    |-> Late(t, cmd, needadmin)]

\* A command of the table, one commands-need-adminpass names or not.
Plain(t, needadmin) == UNCHANGED <<conf, thr>> /\ processCommand(t, "plain", needadmin)

\* AUTH and ADMIN compare with the configuration itself.  A wrong password
\* takes back what the client had.
authCommand(t, pw) ==
    /\ UNCHANGED conf
    /\ processCommand(t, "auth", FALSE)
    /\ LET pass == conf.val["requirepass"]
           level == IF pass # <<pw>> THEN 0 ELSE IF thr[t].auth = 0 THEN 1 ELSE thr[t].auth
       IN  thr' = [thr EXCEPT ![t].auth = IF pass = <<>> THEN @ ELSE level]
adminCommand(t, pw) ==
    /\ UNCHANGED conf
    /\ processCommand(t, "admin", FALSE)
    /\ LET pass == conf.val["adminpass"]
       IN  thr' = [thr EXCEPT ![t].auth = IF pass = <<>> THEN @ ELSE IF pass = <<pw>> THEN 2 ELSE 0]

\* adjustOpenFilesLimit: asked for more clients than there are descriptors for,
\* it lowers maxclients to what there are.
Adjusted(n) ==
    IF n > FdLimit /\ FdLimit >= 1 THEN opt_set(conf, "maxclients", <<Digits(FdLimit, "")>>, TRUE).conf ELSE conf

MaxclientsInvalid(cv) == Len(cv) > 1 \/ ~string2ll(cv[1]) \/ cv[1].n < 1
AfterConfigSet(t, o, cv) ==
    IF OptionOf(o).no \/ (o = "maxclients" /\ MaxclientsInvalid(cv)) THEN conf
    ELSE IF o = "maxclients" /\ cv[1].n > FdLimit THEN Adjusted(cv[1].n)
    ELSE IF o = "adminpass" /\ thr[t].cc.val["adminpass"] # <<>> /\ thr[t].auth < 2 THEN conf
    ELSE opt_set(conf, o, cv, TRUE).conf
configSetCommand(t, o, cv) ==
    /\ conf.version < MaxVersion
    /\ conf' = IF Through(t, "config", FALSE) THEN AfterConfigSet(t, o, cv) ELSE conf
    /\ processCommand(t, "config", FALSE)
    /\ UNCHANGED thr

Init ==
    /\ \E pass \in {<<>>, <<Word("p")>>} :
        conf = [conf_init EXCEPT !.val["requirepass"] = pass]
    /\ thr = [t \in Threads |-> [cc |-> conf_cache_init(conf), upd |-> Idle, auth |-> 0]]
    /\ gate = [open    |-> [t \in Threads |-> NoPass], pending |-> [t \in Threads |-> NoPass],
               late    |-> FALSE]
Next ==
    \E t \in Threads :
        \/ CacheBegin(t) \/ CacheUpToDate(t) \/ CacheCopy(t) \/ CacheEnd(t)
        \/ \E needadmin \in BOOLEAN : Plain(t, needadmin)
        \/ \E pw \in {Word("p"), Word("q")} : authCommand(t, pw) \/ adminCommand(t, pw)
        \/ \E s \in Sets : configSetCommand(t, s[1], s[2])
Spec == Init /\ [][Next]_vars

-----------------------------------------------------------------------------
\* The copy of thread t carries the current version.
Current(t) == thr[t].upd.at = 0 /\ thr[t].cc.version = conf.version

\* No change of the configuration is lost to a thread, however CONFIG SETs fall
\* between the reads of conf_cache_update: a copy that carries the current version
\* is the configuration, option for option; and processCommand runs a command of a
\* client that gave no password only if requirepass was empty at some moment since
\* the thread's last conf_cache_update began.
CacheFollowsConf ==
    /\ \A t \in Threads : Current(t) => \A o \in CachedOptions : thr[t].cc.val[o] = conf.val[o]
    /\ ~gate.late
=============================================================================
