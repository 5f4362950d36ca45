------------------------------ MODULE MCSignIn ------------------------------
(* Values the instances of the ceremonies give their constants.             *)
EXTENDS SignIn, TLC

CONSTANTS k1, k2, k3, k4, s1, s2, r1, r2, c1

\* Ceremonies, session ids and requests are interchangeable.
Interchangeable ==
  Permutations(Ceremony) \cup Permutations(Sid) \cup Permutations(Request)
===============================================================================
