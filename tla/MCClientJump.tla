---------------------------- MODULE MCClientJump ----------------------------
(***************************************************************************)
(* Instances of ClientJump for TLC.                                        *)
(***************************************************************************)
EXTENDS ClientJump, TLC

CONSTANTS c1, c2, c3

ConnSymmetry == Permutations(Conns)

Plain == [op |-> "plain"]
Quit == [op |-> "quit"]
List == [op |-> "list"]
Stats == [op |-> "stats"]
\* CLIENT KILL TYPE normal, and CLIENT KILL ID 1 SKIPME no.
KillOthers == [op |-> "kill", addr |-> NoConn, id |-> 0, skipme |-> TRUE]
KillFirst == [op |-> "kill", addr |-> NoConn, id |-> 1, skipme |-> FALSE]

Gather == {List, Stats, Plain}
Kills == {KillFirst, KillOthers, Quit}
=============================================================================
