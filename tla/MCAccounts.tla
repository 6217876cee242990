----------------------------- MODULE MCAccounts -----------------------------
(* Three users, two requests at a time, one of two addresses registered.  *)
EXTENDS Accounts, TLC

CONSTANTS u1, u2, u3, c1, c2, e1, e2, w1, w2

MCChanges == {[email |-> Null, password |-> Null],
              [email |-> Null, password |-> w2],
              [email |-> e2, password |-> Null]}

Symmetry == Permutations({u1, u2, u3}) \cup Permutations({c1, c2})
=============================================================================
