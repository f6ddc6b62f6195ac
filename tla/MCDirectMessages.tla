-------------------------- MODULE MCDirectMessages --------------------------
(* The two students with the least uids allow direct messages, the third does *)
(* not, so that whoever writes may have changed to another chat meanwhile.    *)
EXTENDS DirectMessages

FirstTwo == {1, 2}
=============================================================================
