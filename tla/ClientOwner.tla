----------------------------- MODULE ClientOwner -----------------------------
(***************************************************************************)
(* What the hand-over of connections promises to the rest of vire, without *)
(* lists, bytes or counters: every connection has one seat.  It is waiting *)
(* to become a client, linked to one worker, or moving between workers;    *)
(* only the thread of a worker touches the clients linked to it; and at    *)
(* most MaxClients connections are open.                                   *)
(***************************************************************************)
EXTENDS Integers, FiniteSets

CONSTANTS N, Conns, MaxClients

Worker == 0 .. N-1

None   == [at |-> "none", w |-> 0]
New    == [at |-> "new", w |-> 0]
Moving == [at |-> "moving", w |-> 0]
LinkedTo(w) == [at |-> "linked", w |-> w]

Seat == {None, New, Moving} \cup {LinkedTo(w) : w \in Worker}

VARIABLE seat  \* Conns -> Seat

Init == seat = [c \in Conns |-> None]

\* The master accepts a connection.
Connect(c) ==
  /\ seat[c] = None
  /\ Cardinality({x \in Conns : seat[x] # None}) < MaxClients
  /\ seat' = [seat EXCEPT ![c] = New]

\* A worker makes a client of a new connection, or closes it.
Adopt(c, w) ==
  /\ seat[c] = New
  /\ seat' = [seat EXCEPT ![c] = LinkedTo(w)]

Refuse(c) ==
  /\ seat[c] = New
  /\ seat' = [seat EXCEPT ![c] = None]

\* Worker w serves client c, which is linked to it or arrives, frees the
\* clients K of its own, and keeps c, sends it on or frees it.
Serve(w, c) ==
  /\ seat[c] \in {LinkedTo(w), Moving}
  /\ \E K \in SUBSET {x \in Conns : seat[x] = LinkedTo(w)},
        end \in {LinkedTo(w), Moving, None} :
       seat' = [x \in Conns |-> IF x = c THEN end
                                ELSE IF x \in K THEN None ELSE seat[x]]

Next ==
  \E c \in Conns :
    \/ Connect(c)
    \/ Refuse(c)
    \/ \E w \in Worker : Adopt(c, w) \/ Serve(w, c)

Spec == Init /\ [][Next]_seat
=============================================================================
