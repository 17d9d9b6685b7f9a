---------------------------- MODULE MCKeyspace ----------------------------
(***************************************************************************)
(* Instances of Keyspace for TLC.                                          *)
(***************************************************************************)
EXTENDS Keyspace, TLC

CONSTANTS w1, w2, ka, kb, kc, kd

HomeABCD == ka :> 0 @@ kb :> 0 @@ kc :> 1 @@ kd :> 1
BucketABCD == ka :> 0 @@ kb :> 1 @@ kc :> 0 @@ kd :> 1
HomeAC == ka :> 0 @@ kc :> 1
BucketAC == ka :> 1 @@ kc :> 0

\* One client runs commands on several keys or on all, the other writes, and
\* deletes by EXPIRE with a time that has passed.
Writes == {"set", "modify", "expire", "persist", "mset"}
Wide == (w1 :> {"keys", "dbsize", "flush", "random", "scan", "del", "exists"})
        @@ (w2 :> Writes)
Fill == (w1 :> {"set", "expire", "keys"}) @@ (w2 :> {"set"})
Draw == (w1 :> {"random"}) @@ (w2 :> {"set", "del"})
Scans == (w1 :> {"scan"}) @@ (w2 :> {"set", "del"})

\* A millisecond; a time whose deadline is past LLONG_MAX once the clock has
\* moved; and 5 seconds, 15 milliseconds, which long long takes for -1.
ShortTime == [n : {1}, unit : {1}]
LongTimes == ShortTime \cup {[n |-> LLONG_MAX, unit |-> 1], [n |-> 5, unit |-> Second]}
=============================================================================
