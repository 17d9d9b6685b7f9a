------------------------------ MODULE MCServer ------------------------------
(***************************************************************************)
(* The parts of the server around the keyspace for TLC: one part per       *)
(* module, each an instance of it.  The parts share the variables and      *)
(* never mix: part is chosen in the initial state.                         *)
(***************************************************************************)
EXTENDS Integers, Sequences, TLC

VARIABLES part, obj, ref, agree

FD(n, u) == [d |-> TRUE, n |-> n, w |-> u]
FW(w) == [d |-> FALSE, n |-> 0, w |-> w]
FLine(k, name, args) == [k |-> k, name |-> name, args |-> args]
FPort == FLine("opt", "port", <<FD(7, "")>>)
FBlank == FLine("blank", "", <<>>)
FFiles ==
    {<<FPort, FLine("comment", "x", <<>>), FLine("opt", "dir", <<FW("d")>>),
       FLine("opt", "bind", <<FW("h1")>>), FBlank, FLine("opt", "bind", <<FW("h2")>>), FBlank>>,
     <<FLine("opt", "requirepass", <<FW("a b")>>),
       FLine("opt", "commands-need-adminpass", <<FW("get"), FW("set")>>),
       FLine("opt", "maxmemory", <<FD(2, "k")>>)>>,
     <<FLine("bad", "q", <<>>), FPort>>,
     <<FPort, FPort>>,
     <<FLine("closed", "server", <<>>), FPort>>,
     <<FLine("org", "server", <<>>), FPort, FLine("org", "other", <<>>), FLine("opt", "threads", <<FD(3, "")>>)>>,
     <<FLine("comment", "x", <<>>)>>}
FSets ==
    {<<"maxmemory", <<v>>>> : v \in {FD(3, "kb"), FD(2, "gb")}}
    \cup {<<"maxmemory-policy", <<FW(w)>>>> : w \in {"allkeys-lru", "volatile-ttl"}}
    \cup {<<"slowlog-max-len", <<FD(20, "")>>>>, <<"maxmemory-samples", <<FD(3, "")>>>>,
          <<"slowlog-log-slower-than", <<FD(-1, "")>>>>}
    \cup {<<"requirepass", cv>> : cv \in {<<FW("")>>, <<FW("s")>>, <<FW("a"), FW("b")>>}}
F == INSTANCE ConfFile WITH
       proc <- obj, disk <- ref, want <- agree, Kilo <- 4, Thousand <- 3, INT_MAX <- 15, LLONG_MAX <- 127,
       Files <- FFiles, Sets <- FSets, MaxSets <- 1, MaxEdits <- 1

CSets ==
    {<<"requirepass", <<FW(w)>>>> : w \in {"", "p"}} \cup {<<"adminpass", <<FW("q")>>>>}
    \cup {<<"maxclients", <<FD(n, "")>>>> : n \in {0, 2, 9}} \cup {<<"port", <<FD(9, "")>>>>}
C == INSTANCE ConfCache WITH
       conf <- obj, thr <- ref, gate <- agree, Kilo <- 4, Thousand <- 3, INT_MAX <- 15, LLONG_MAX <- 127,
       Threads <- {1, 2}, Sets <- CSets, FdLimit <- 4, MaxVersion <- 2

L == INSTANCE Slowlog WITH
       log <- obj, w <- ref, conf <- agree, Workers <- {1, 2}, SLOWLOG_ENTRY_MAX_ARGC <- 3, Argcs <- {3, 5},
       MaxLens <- {-1, 0, 1}, MaxId <- 4, MaxSets <- 3

TChars == {42, 63, 91, 92, 93, 94, 45, 97, 98}
TPatterns == UNION {[1 .. n -> TChars] : n \in 0 .. 2}
    \cup {<<91>> \o p : p \in [1 .. 3 -> {92, 93, 94, 45, 97, 98}]}
    \cup {p \o <<42, 98>> : p \in [1 .. 2 -> {42, 63, 97, 98}]}
    \cup {<<91, 97, 45, 99, 93, 42>>, <<91, 94, 97, 45, 98, 93, 63>>}
T == INSTANCE Sds WITH
       s <- obj, Limits <- (5 :> 3 @@ 8 :> 6 @@ 16 :> 10 @@ 32 :> 1000), SDS_MAX_PREALLOC <- 4,
       Pieces <- {<<>>, <<97>>, <<65, 32>>, <<98, 34, 13>>, <<0, 92>>},
       Ranges <- {-9, -2, -1, 0, 1, 2, 9}, Patterns <- TPatterns, Seps <- {<<97>>, <<32, 98>>, <<98, 98>>},
       CONFIG_AUTHPASS_MAX_LEN <- 3, MaxLen <- 4

PR(k, w) == [kind |-> k, what |-> w]
PGood ==
    {PR("multi", w) : w \in {<<<<97>>, <<>>>>, <<<<97>>, <<42, 13, 10, 36>>, <<98>>>>, <<<<98, 98, 98, 98, 98>>>>,
                              <<<<106>>, <<97>>>>, <<<<113>>>>}}
    \cup {PR("inline", w) : w \in {<<<<97, 98>>, <<98>>>>, <<<<106>>>>}}
    \cup {PR("none", w) : w \in {<<13, 10>>, <<42, 48, 13, 10>>, <<42, 45, 49, 13, 10>>}}
PBad ==
    {PR("bad", w) : w \in {<<42, 120, 13, 10>>, <<42, 57, 57, 13, 10>>, <<97, 34, 13, 10>>,
                            <<42, 49, 13, 10, 97, 13, 10>>, <<42, 49, 13, 10, 36, 45, 49, 13, 10>>,
                            <<42, 49, 13, 10, 36, 57, 57, 13, 10>>,
                            <<42, 49, 13, 10, 36, 49, 49, 49, 49, 49, 49, 49, 49, 49, 49, 49, 49, 49, 49>>,
                            [i \in 1 .. 16 |-> 98], [i \in 1 .. 16 |-> IF i = 1 THEN 42 ELSE 49]}}
P == INSTANCE Protocol WITH
       c <- obj, wire <- ref, script <- agree, PROTO_IOBUF_LEN <- 3, PROTO_MBULK_BIG_ARG <- 4,
       PROTO_INLINE_MAX_SIZE <- 9, MaxMultibulk <- 12, MaxBulk <- 12, QuitName <- <<113>>, JumpName <- <<106>>,
       Scripts <- {<<x, y, z>> : x \in PGood, y \in PGood, z \in PGood \cup PBad}

R == INSTANCE ReplyBuf WITH
       c <- obj, next <- ref, sent <- agree, PROTO_REPLY_CHUNK_BYTES <- 4, OBJ_ENCODING_EMBSTR_SIZE_LIMIT <- 1,
       Lengths <- {0, 1, 2, 3}, HeaderLen <- 2, MaxOpen <- 2, MaxBytes <- 9, MaxNodes <- 3

E == INSTANCE EventLoop WITH
       loop <- obj, os <- ref, ok <- agree, Fds <- 0 .. 2, SetSize <- 2, Grow <- 2, MaxConn <- 3,
       Second <- 2, Period <- 1, Clock <- 2 .. 6

D == INSTANCE Dlist WITH l <- obj, Nodes <- 1 .. 4, Values <- {7, 8}

Init == \/ part = "file" /\ F!Init
        \/ part = "dlist" /\ D!Init
        \/ part = "slowlog" /\ L!Init
        \/ part = "cache" /\ C!Init
        \/ part = "loop" /\ E!Init
        \/ part = "reply" /\ R!Init
        \/ part = "proto" /\ P!Init
        \/ part = "sds" /\ T!Init
Next == \/ part = "file" /\ F!Next /\ UNCHANGED part
        \/ part = "slowlog" /\ L!Next /\ UNCHANGED part
        \/ part = "dlist" /\ D!Next /\ UNCHANGED part
        \/ part = "cache" /\ C!Next /\ UNCHANGED part
        \/ part = "loop" /\ E!Next /\ UNCHANGED part
        \/ part = "reply" /\ R!Next /\ UNCHANGED part
        \/ part = "proto" /\ P!Next /\ UNCHANGED part
        \/ part = "sds" /\ T!Next /\ UNCHANGED part
Spec == Init /\ [][Next]_<<part, obj, ref, agree>>

\* ConfFile!RewriteIsFaithful: whatever is set meanwhile and wherever the server
\* stops, a rewritten configuration file loads and says what the server was set to,
\* unless a refused CONFIG SET left its value behind, a password needs quotes or
\* the file has headers.
RewriteIsFaithful == part = "file" => F!RewriteIsFaithful

\* ConfCache!CacheFollowsConf: a thread's copy of the configuration is never taken
\* for current when it is not, and its gates lag by one update at most.
CacheFollowsConf == part = "cache" => C!CacheFollowsConf

\* Slowlog!SlowlogBounded: the slow log keeps the newest entries, as many as
\* slowlog-max-len says and one more per worker at most, once it has been trimmed
\* to the current value and that is not the -1 a refused number leaves.
SlowlogBounded == part = "slowlog" => L!SlowlogBounded

\* EventLoop!EventsAreLive: every callback of a worker's event loop gets the
\* connection its descriptor belongs to, and the cron is never put off.
EventsAreLive == part = "loop" => E!EventsAreLive

\* ReplyBuf!RepliesAsAdded: the peer gets the bytes of the replies as they were
\* added, and the output is accounted for.
RepliesAsAdded == part = "reply" => R!RepliesAsAdded

\* Protocol!RequestsParsed: however the bytes are cut into reads, the commands
\* executed are those that were sent.
RequestsParsed == part = "proto" => P!RequestsParsed

\* Sds!StringsAreRef: a dynamic string holds what was put into it within its
\* memory, and matching, quoting and splitting mean what they should on it.
StringsAreRef == part = "sds" => T!StringsAreRef

\* Dlist!DlistIsSeq: the linked list under every queue of the server is the
\* sequence of its elements, also while it is walked and changed.
DlistIsSeq == part = "dlist" => D!DlistIsSeq
=============================================================================
