---- MODULE MCPublishedSessions ----
(* PublishedSessions with one worker at the releases and two requests at the  *)
(* sessions.                                                                  *)
EXTENDS PublishedSessions, TLC

CONSTANTS r1, r2, k1, k2, w1, p1, p2
Symmetry == Permutations(Releases) \cup Permutations(Keys) \cup Permutations(Players)
====
