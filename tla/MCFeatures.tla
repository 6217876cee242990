----------------------------- MODULE MCFeatures -----------------------------
(* Small instances of Features: one file of two chunks. *)
EXTENDS Features, TLC

CONSTANTS f1, j1, j2, r1, r2

MCIndices == 0..1
=============================================================================
