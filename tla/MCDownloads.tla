---------------------------- MODULE MCDownloads -----------------------------
(* The instance of MCFiles, with signed URLs. *)
EXTENDS MCFiles, Downloads
=============================================================================
