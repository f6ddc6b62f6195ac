----------------------------- MODULE MCHomeFeed -----------------------------
(* Posts of one host.                                                      *)
EXTENDS HomeFeed

CONSTANTS p1, h1

OneHost == [p \in Posts |-> h1]
=============================================================================
