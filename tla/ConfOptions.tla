---------------------------- MODULE ConfOptions ----------------------------
(***************************************************************************)
(* The options of the server and their setters (vr_conf.c).  A text is     *)
(* what the setters tell apart: whether it starts with digits, the number  *)
(* and what follows it.  A conf_value is a sequence of texts: one text is  *)
(* a CONF_VALUE_TYPE_STRING, several are a CONF_VALUE_TYPE_ARRAY.          *)
(***************************************************************************)
EXTENDS Integers, Sequences

CONSTANTS
    Kilo,        \* 1024, scaled down
    Thousand,    \* 1000, scaled down
    INT_MAX,     \* of the int the numeric options are kept in
    LLONG_MAX    \* of the long long maxmemory is kept in

Digits(n, unit) == [d |-> TRUE, n |-> n, w |-> unit]
Word(w) == [d |-> FALSE, n |-> 0, w |-> w]
Empty == Word("")
TooLong == Word("longer than CONFIG_AUTHPASS_MAX_LEN")

evictpolicy_strings ==
    <<"volatile-lru", "volatile-random", "volatile-ttl", "allkeys-lru", "allkeys-random", "noeviction">>
UnsupportedPolicies == {1, 4}

\* The table of the options in its own order; no is CONF_FIELD_FLAGS_NO_MODIFY.
conf_server_options ==
    <<[name |-> "databases", set |-> "int_non_zero", no |-> TRUE],
      [name |-> "internal-dbs-per-databases", set |-> "int_non_zero", no |-> TRUE],
      [name |-> "maxmemory", set |-> "maxmemory", no |-> FALSE],
      [name |-> "maxmemory-policy", set |-> "maxmemory_policy", no |-> FALSE],
      [name |-> "maxmemory-samples", set |-> "int_non_zero", no |-> FALSE],
      [name |-> "max-time-complexity-limit", set |-> "longlong", no |-> FALSE],
      [name |-> "bind", set |-> "array_sds", no |-> TRUE],
      [name |-> "port", set |-> "int", no |-> TRUE],
      [name |-> "threads", set |-> "int", no |-> TRUE],
      [name |-> "maxclients", set |-> "int_non_zero", no |-> FALSE],
      [name |-> "slowlog-log-slower-than", set |-> "longlong", no |-> FALSE],
      [name |-> "slowlog-max-len", set |-> "int", no |-> FALSE],
      [name |-> "requirepass", set |-> "password", no |-> FALSE],
      [name |-> "adminpass", set |-> "password", no |-> FALSE],
      [name |-> "commands-need-adminpass", set |-> "commands_need_adminpass", no |-> TRUE]>>
Options == {conf_server_options[i].name : i \in DOMAIN conf_server_options}
OptionOf(o) == conf_server_options[CHOOSE i \in DOMAIN conf_server_options : conf_server_options[i].name = o]
Arrays == {o \in Options : OptionOf(o).set \in {"array_sds", "commands_need_adminpass"}}
Passwords == {o \in Options : OptionOf(o).set = "password"}

\* Passwords are <<>> (NULL) or <<text>>, arrays are sequences of texts.
conf_server_set_default ==
    [o \in Options |->
        CASE o = "bind" -> <<Word("0.0.0.0")>>
          [] o \in Passwords \/ o = "commands-need-adminpass" -> <<>>
          [] o = "maxmemory-policy" -> Len(evictpolicy_strings)
          [] o \in {"maxmemory", "max-time-complexity-limit"} -> 0
          [] OTHER -> 1]
conf_init == [val |-> conf_server_set_default, version |-> 0]

\* A number past INT_MAX wraps in the int it is added up in; a negative one is -1.
vr_atoi(t) == LET v == t.n % (2 * (INT_MAX + 1)) IN IF v > INT_MAX THEN -1 ELSE v
sdsIsNum(t) == t.d /\ t.n >= 0 /\ t.w = ""
string2ll(t) == t.d /\ t.w = "" /\ t.n \in -LLONG_MAX - 1 .. LLONG_MAX

Units ==
    [u \in {"", "b", "k", "kb", "m", "mb", "g", "gb"} |->
        CASE u \in {"", "b"} -> 1
          [] u = "k" -> Thousand
          [] u = "kb" -> Kilo
          [] u = "m" -> Thousand * Thousand
          [] u = "mb" -> Kilo * Kilo
          [] u = "g" -> Thousand * Thousand * Thousand
          [] u = "gb" -> Kilo * Kilo * Kilo]
WrapLongLong(n) == ((n + LLONG_MAX + 1) % (2 * (LLONG_MAX + 1))) - LLONG_MAX - 1

\* memtoll takes a text without digits for 0, and fails on a unit it does not know.
memtollFails(t) == t.w \notin DOMAIN Units
memtoll(t) == WrapLongLong((IF t.d THEN t.n ELSE 0) * Units[t.w])

\* A setter leaves the options c.val, bumps c.version only when it accepts,
\* and tells whether it did.
Refused(c) == [conf |-> c, ok |-> FALSE]
RefusedAfterWriting(c, o, v) == [conf |-> [c EXCEPT !.val[o] = v], ok |-> FALSE]
Accepted(c, o, v) == [conf |-> [val |-> [c.val EXCEPT ![o] = v], version |-> c.version + 1], ok |-> TRUE]

conf_set_maxmemory(c, o, cv) ==
    IF Len(cv) > 1 \/ memtollFails(cv[1]) \/ memtoll(cv[1]) < 0
    THEN Refused(c) ELSE Accepted(c, o, memtoll(cv[1]))

\* The policy is stored before the unsupported ones are refused, and the
\* version is never bumped.
conf_set_maxmemory_policy(c, o, cv) ==
    LET found == {i \in DOMAIN evictpolicy_strings : Word(evictpolicy_strings[i]) = cv[1]}
        i == CHOOSE i \in found : TRUE
    IN  IF Len(cv) > 1 \/ found = {} THEN Refused(c)
        ELSE [RefusedAfterWriting(c, o, i) EXCEPT !.ok = i \notin UnsupportedPolicies]

\* The number is stored before it is compared with the least value allowed.
SetInt(c, o, cv, least) ==
    IF Len(cv) > 1 \/ ~sdsIsNum(cv[1]) THEN Refused(c)
    ELSE IF vr_atoi(cv[1]) < least THEN RefusedAfterWriting(c, o, vr_atoi(cv[1]))
    ELSE Accepted(c, o, vr_atoi(cv[1]))
conf_set_int(c, o, cv) == SetInt(c, o, cv, 0)
conf_set_int_non_zero(c, o, cv) == SetInt(c, o, cv, 1)

conf_set_longlong(c, o, cv) ==
    IF Len(cv) > 1 \/ ~string2ll(cv[1]) THEN Refused(c) ELSE Accepted(c, o, cv[1].n)

conf_set_password(c, o, cv) ==
    IF Len(cv) > 1 \/ cv[1] = TooLong THEN Refused(c)
    ELSE Accepted(c, o, IF cv[1] = Empty THEN <<>> ELSE cv)

\* Before it takes an array the setter reads the element at an index it never
\* set: luck is whether that read finds a string.
conf_set_array_sds(c, o, cv, luck) ==
    IF Len(cv) > 1 /\ ~luck THEN Refused(c) ELSE Accepted(c, o, cv)
\* The same code over again.
conf_set_commands_need_adminpass(c, o, cv, luck) == conf_set_array_sds(c, o, cv, luck)

opt_set(c, o, cv, luck) ==
    CASE OptionOf(o).set = "maxmemory" -> conf_set_maxmemory(c, o, cv)
      [] OptionOf(o).set = "maxmemory_policy" -> conf_set_maxmemory_policy(c, o, cv)
      [] OptionOf(o).set = "int_non_zero" -> conf_set_int_non_zero(c, o, cv)
      [] OptionOf(o).set = "int" -> conf_set_int(c, o, cv)
      [] OptionOf(o).set = "longlong" -> conf_set_longlong(c, o, cv)
      [] OptionOf(o).set = "password" -> conf_set_password(c, o, cv)
      [] OptionOf(o).set = "array_sds" -> conf_set_array_sds(c, o, cv, luck)
      [] OptionOf(o).set = "commands_need_adminpass" -> conf_set_commands_need_adminpass(c, o, cv, luck)

\* The values the setters of o accept: what a refused CONFIG SET may leave
\* behind is not among them.
Acceptable(o, v) ==
    CASE o = "maxmemory-policy" -> v \notin UnsupportedPolicies
      [] OptionOf(o).set = "int_non_zero" -> v >= 1
      [] OptionOf(o).set = "int" -> v >= 0
      [] OTHER -> TRUE
=============================================================================
