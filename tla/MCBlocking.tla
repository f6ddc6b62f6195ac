----------------------------- MODULE MCBlocking -----------------------------
(* A few students, each of whom asked to join the post of every other.     *)
EXTENDS Blocking

Everybody == [s \in Students |-> Students \ {s}]
=============================================================================
