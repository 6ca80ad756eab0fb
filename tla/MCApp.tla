------------------------------- MODULE MCApp -------------------------------
(* Instances of AppSession for TLC. *)
EXTENDS AppSession
=============================================================================
