------------------------------- MODULE MCHub -------------------------------
(* Instances of Hub for TLC: one user with two connections. *)
EXTENDS Hub

CONSTANTS alice, c1, c2

MCUserOf == [c \in Conns |-> alice]

=============================================================================
