------------------------------ MODULE Chunking ------------------------------
(***************************************************************************)
(* How FilesService.create cuts a file of `size` bytes into chunk rows,    *)
(* with the arithmetic of ChunkUtil.  The loop of create appends one chunk *)
(* per iteration; `parts` is the array `chunks` it fills, each element     *)
(* reduced to the first byte it stands for and to its size column.         *)
(*                                                                         *)
(* configuration.ts takes the chunk size from process.env, where it is a   *)
(* string, or from the number literal when the variable is not set.  With  *)
(* a string, `/` and `*` still convert it to a number and `start + size`   *)
(* concatenates: SizeIsText selects that case.                             *)
(***************************************************************************)
EXTENDS Integers, Sequences

CONSTANTS
    ChunkSize,     \* storage.chunkSize
    MaxSafe,       \* Number.MAX_SAFE_INTEGER
    Sizes,         \* the `size` values of CreateFileDto that are considered
    SizeIsText     \* TRUE when storage.chunkSize comes from the environment

ASSUME ChunkingAssumption ==
    /\ ChunkSize \in Nat \ {0}
    /\ MaxSafe \in Nat
    /\ Sizes \subseteq Int
    /\ \A n \in Sizes : n + ChunkSize <= MaxSafe
    /\ SizeIsText \in BOOLEAN

VARIABLES size, parts

vars == <<size, parts>>

-----------------------------------------------------------------------------

Lesser(a, b) == IF a <= b THEN a ELSE b

(* The power of ten that shifts a number past the decimal digits of        *)
(* ChunkSize: what concatenating the two texts does to the left one.       *)
Shift == 10 ^ (CHOOSE k \in 1..16 : 10 ^ (k - 1) <= ChunkSize /\ ChunkSize < 10 ^ k)

Plus(start) == IF SizeIsText THEN start * Shift + ChunkSize ELSE start + ChunkSize

(* Three plausible mistakes, to put in the place of the operators below: a *)
(* division that rounds down, chunks counted from one, an end that is the  *)
(* first byte of the next chunk.                                           *)
calculateFullChunks(fileSize) == fileSize \div ChunkSize

getChunkRangeFromOne(i) ==
    LET start == (i - 1) * ChunkSize
    IN  [start |-> start, end |-> Lesser(Plus(start) - 1, MaxSafe)]

getChunkRangeTooLong(i) ==
    LET start == i * ChunkSize
    IN  [start |-> start, end |-> Lesser(Plus(start), MaxSafe)]

(* Math.ceil(fileSize / chunkSize) *)
calculateChunks(fileSize) == (fileSize + ChunkSize - 1) \div ChunkSize

getChunkRange(i) ==
    LET start == i * ChunkSize
    IN  [start |-> start, end |-> Lesser(Plus(start) - 1, MaxSafe)]

(* The chunk the loop builds in iteration i. *)
newChunk(i) ==
    LET range == getChunkRange(i)
    IN  [start |-> range.start,
         size  |-> Lesser(range.end - range.start + 1, size - range.start)]

Init ==
    /\ size \in Sizes
    /\ parts = << >>

PushChunk ==
    /\ Len(parts) < calculateChunks(size)
    /\ parts' = Append(parts, newChunk(Len(parts)))
    /\ UNCHANGED size

Next == PushChunk

Spec == Init /\ [][Next]_vars

-----------------------------------------------------------------------------
(* Properties *)

Done == Len(parts) >= calculateChunks(size)

Part == [start : Nat, size : Int]

TypeOK ==
    /\ size \in Sizes
    /\ parts \in Seq(Part)

(* "Files are split into fixed-size chunks" (README.md:65): every chunk of *)
(* create's loop is ChunkSize bytes long, except a shorter, non-empty last *)
(* one.                                                                    *)
FixedSize ==
    \A k \in 1..Len(parts) :
        /\ parts[k].size \in 1..ChunkSize
        /\ k < Len(parts) => parts[k].size = ChunkSize

(* Chunks neither overlap nor leave a gap: each one starts where the one   *)
(* before it ends, so that Buffer.concat in index order gives the file     *)
(* back (assembleFileFromChunks).                                          *)
Contiguous ==
    \A k \in 1..Len(parts) :
        parts[k].start = (IF k = 1 THEN 0 ELSE parts[k - 1].start + parts[k - 1].size)

(* When the loop is over, the last chunk ends exactly at the end of the    *)
(* file, and a file without bytes has no chunk at all.                     *)
CoversFile ==
    Done => IF parts = << >>
            THEN size <= 0
            ELSE parts[Len(parts)].start + parts[Len(parts)].size = size

=============================================================================
