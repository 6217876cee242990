------------------------------- MODULE MCFiles -------------------------------
(* Small instances of Files: chunks 0 and 1, two regions, two PATCH bodies. *)
EXTENDS FilesStore, TLC

CONSTANTS f1, s1, s2, w1, w2, d1, d2

MCIndices == 0..1
MCRegions == {"east", "west"}

Rename    == [regions |-> Null, features |-> Null]
ChangeAll == [regions |-> <<"east", "west">>, features |-> Features]

JustRename    == {Rename}
JustChangeAll == {ChangeAll}

(* For FilesAll: outbox and deleted are histories that no guard and, but for *)
(* their types, no property of that run reads.                               *)
Viewed == <<files, chunks, born, waiting, proc, faults>>

Symmetry == Permutations({s1, s2}) \cup Permutations({w1, w2}) \cup Permutations({d1, d2})
=============================================================================
