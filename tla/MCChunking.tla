----------------------------- MODULE MCChunking -----------------------------
(* Every file size from a negative one (CreateFileDto accepts any number) to *)
(* a few chunks, with a chunk size of four bytes.                            *)
EXTENDS Chunking, TLC

MCSizes == -5..41
=============================================================================
