---------------------------- MODULE MCMediaStore ----------------------------
(* The instance of MediaStore that TLC checks: two objects, two numbers of  *)
(* which one is seeded, and two requests at a time.                         *)
EXTENDS MediaStore, TLC

CONSTANTS o1, o2, p1, p2, r1, r2

MCObjects == {o1, o2}
MCPhones == {p1, p2}
MCSeededPhones == {p1}
MCRequests == {r1, r2}

\* Nothing distinguishes the objects, nor the requests.
Symmetry == Permutations(MCObjects) \cup Permutations(MCRequests)
==============================================================================
