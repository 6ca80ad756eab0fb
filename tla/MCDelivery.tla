----------------------------- MODULE MCDelivery -----------------------------
(* Instances of Delivery for TLC: a user a who writes to a user b. *)
EXTENDS Delivery, TLC

CONSTANTS a, b, a1, b1, b2

MCUserOf == [c \in Conns |-> IF c = a1 THEN a ELSE b]
MCAuthor == [t \in Texts |-> a]
MCAddressee == [t \in Texts |-> b]
MCMsgs == {"text", "receipt"} \X Texts
MCWorker == [c \in Conns |-> <<"offline", c>>]
MCCallers == Conns \cup {<<"offline", c>> : c \in Conns}
MCOne == [c \in Conns |-> 1]
MCTwo == [c \in Conns |-> 2]
MCTwoAndOne == [c \in Conns |-> IF c = a1 THEN 2 ELSE 1]
MCOnlyA == [c \in Conns |-> IF c = a1 THEN 1 ELSE 0]
=============================================================================
