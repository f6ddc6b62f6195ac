--------------------------- MODULE MCActivityChat ---------------------------
(* Two students; one of them is in a second chat, too.                     *)
EXTENDS ActivityChat

CONSTANTS s1, s2, c1, c2

\* s1 hosts both activities, s2 is a guest of the first.
OneShared == [c \in Chats |-> IF c = c1 THEN {s1, s2} ELSE {s1}]
=============================================================================
