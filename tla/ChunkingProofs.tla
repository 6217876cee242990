--------------------------- MODULE ChunkingProofs ---------------------------
(***************************************************************************)
(* For a chunk size that is a number, every file size, and every chunk     *)
(* size: the loop of create cuts the file without gap or overlap into      *)
(* chunks of ChunkSize bytes and one shorter, non-empty last chunk.        *)
(***************************************************************************)
EXTENDS Chunking, TLAPS

LEMMA TimesMonotone ==
    ASSUME NEW a \in Int, NEW b \in Int, NEW c \in Nat, a <= b
    PROVE  a * c <= b * c
<1>1. (b - a) * c >= 0
    OBVIOUS
<1>2. (b - a) * c = b * c - a * c
    OBVIOUS
<1> QED BY <1>1, <1>2

(* calculateChunks rounds up. *)
LEMMA CeilBounds ==
    ASSUME ChunkingAssumption, NEW n \in Int
    PROVE  /\ calculateChunks(n) \in Int
           /\ n <= calculateChunks(n) * ChunkSize
           /\ (calculateChunks(n) - 1) * ChunkSize < n
<1> DEFINE q == (n + ChunkSize - 1) \div ChunkSize
<1>1. q \in Int /\ ChunkSize \in Nat \ {0}
    BY DEF ChunkingAssumption
<1>2. q * ChunkSize <= n + ChunkSize - 1 /\ n + ChunkSize - 1 < q * ChunkSize + ChunkSize
    BY <1>1
<1>3. (q - 1) * ChunkSize = q * ChunkSize - ChunkSize
    BY <1>1
<1> QED BY <1>1, <1>2, <1>3 DEF calculateChunks

(* Bytes left of the file where chunk i starts. *)
LEMMA BytesLeft ==
    ASSUME ChunkingAssumption, NEW n \in Int, NEW i \in Nat, i < calculateChunks(n)
    PROVE  /\ i * ChunkSize \in Nat
           /\ n - i * ChunkSize >= 1
           /\ i + 1 < calculateChunks(n) => n - i * ChunkSize > ChunkSize
           /\ i + 1 = calculateChunks(n) => n - i * ChunkSize <= ChunkSize
<1> DEFINE t == calculateChunks(n)
<1>1. ChunkSize \in Nat \ {0}
    BY DEF ChunkingAssumption
<1>2. t \in Int /\ n <= t * ChunkSize /\ (t - 1) * ChunkSize < n
    BY CeilBounds
<1> HIDE DEF t
<1>3. i * ChunkSize <= (t - 1) * ChunkSize
    <2>1. i \in Int /\ t - 1 \in Int /\ i <= t - 1
        BY <1>2 DEF t
    <2> QED BY <1>1, <2>1, TimesMonotone
<1>4. i * ChunkSize \in Nat /\ (t - 1) * ChunkSize \in Int
    BY <1>1, <1>2
<1>5. (i + 1) * ChunkSize = i * ChunkSize + ChunkSize
    BY <1>1
<1>6. ASSUME i + 1 < t PROVE n - i * ChunkSize > ChunkSize
    <2>1. i + 1 \in Int /\ t - 1 \in Int /\ i + 1 <= t - 1
        BY <1>2, <1>6
    <2>2. (i + 1) * ChunkSize <= (t - 1) * ChunkSize
        BY <1>1, <2>1, TimesMonotone
    <2> QED BY <1>1, <1>2, <1>4, <1>5, <2>2
<1>7. ASSUME i + 1 = t PROVE n - i * ChunkSize <= ChunkSize
    BY <1>1, <1>2, <1>4, <1>5, <1>7
<1> QED BY <1>2, <1>3, <1>4, <1>6, <1>7 DEF t

(* What iteration i builds. *)
LEMMA NewChunkIs ==
    ASSUME ChunkingAssumption, ~SizeIsText, size \in Sizes, NEW i \in Nat,
           i < calculateChunks(size)
    PROVE  newChunk(i) = [start |-> i * ChunkSize,
                          size  |-> Lesser(ChunkSize, size - i * ChunkSize)]
<1>1. size \in Int /\ size + ChunkSize <= MaxSafe /\ ChunkSize \in Nat \ {0} /\ MaxSafe \in Nat
    BY DEF ChunkingAssumption
<1>2. i * ChunkSize \in Nat /\ size - i * ChunkSize >= 1
    BY <1>1, BytesLeft
<1>3. Plus(i * ChunkSize) = i * ChunkSize + ChunkSize
    BY DEF Plus
<1>4. Lesser(i * ChunkSize + ChunkSize - 1, MaxSafe) = i * ChunkSize + ChunkSize - 1
    BY <1>1, <1>2 DEF Lesser
<1>5. i * ChunkSize + ChunkSize - 1 - i * ChunkSize + 1 = ChunkSize
    BY <1>1, <1>2
<1> QED BY <1>3, <1>4, <1>5 DEF newChunk, getChunkRange

(* The inductive invariant: the array holds the first chunks of the file.  *)
ChunkAt(k) == [start |-> (k - 1) * ChunkSize,
               size  |-> Lesser(ChunkSize, size - (k - 1) * ChunkSize)]

ArrayOK ==
    /\ size \in Sizes
    /\ parts \in Seq(Part)
    /\ parts # << >> => Len(parts) <= calculateChunks(size)

ChunksInv == ArrayOK /\ \A k \in 1..Len(parts) : parts[k] = ChunkAt(k)

LEMMA ChunksInvInit == Init => ChunksInv
BY DEF Init, ChunksInv, ArrayOK

LEMMA ChunksInvStep ==
    ASSUME ChunkingAssumption, ~SizeIsText, ChunksInv, [Next]_vars PROVE ChunksInv'
<1>1. CASE PushChunk
    <2> DEFINE n == Len(parts)
               c == [start |-> n * ChunkSize, size |-> Lesser(ChunkSize, size - n * ChunkSize)]
    <2>1. n \in Nat /\ n < calculateChunks(size) /\ size \in Int /\ ChunkSize \in Nat
        BY <1>1 DEF PushChunk, ChunksInv, ArrayOK, ChunkingAssumption
    <2>2. n * ChunkSize \in Nat
        BY <2>1, BytesLeft
    <2>3. c \in Part
        BY <2>1, <2>2 DEF Part, Lesser
    <2>4. parts' = Append(parts, c) /\ size' = size
        BY <1>1, <2>1, NewChunkIs DEF PushChunk, ChunksInv, ArrayOK
    <2>5. calculateChunks(size) \in Int
        BY <2>1, CeilBounds
    <2> HIDE DEF c
    <2>6. parts' \in Seq(Part) /\ Len(parts') = n + 1
        BY <2>3, <2>4 DEF ChunksInv, ArrayOK
    <2>7. \A k \in 1..Len(parts') : parts'[k] = IF k = n + 1 THEN c ELSE parts[k]
        BY <2>4, <2>6 DEF ChunksInv, ArrayOK
    <2>8. \A k \in 1..Len(parts') : parts'[k] = ChunkAt(k)
        <3> SUFFICES ASSUME NEW k \in 1..Len(parts') PROVE parts'[k] = ChunkAt(k)
            OBVIOUS
        <3>1. CASE k = n + 1
            <4>1. k - 1 = n
                BY <2>1, <3>1
            <4> QED BY <2>7, <3>1, <4>1 DEF c, ChunkAt
        <3>2. CASE k # n + 1
            <4>1. k \in 1..n
                BY <2>1, <2>6, <3>2
            <4> QED BY <2>7, <3>2, <4>1 DEF ChunksInv
        <3> QED BY <3>1, <3>2
    <2>9. calculateChunks(size)' = calculateChunks(size) /\ \A k : ChunkAt(k)' = ChunkAt(k)
        BY <2>4 DEF calculateChunks, ChunkAt
    <2> QED BY <2>1, <2>4, <2>5, <2>6, <2>8, <2>9 DEF ChunksInv, ArrayOK
<1>2. CASE UNCHANGED vars
    BY <1>2 DEF vars, ChunksInv, ArrayOK, calculateChunks, ChunkAt
<1> QED BY <1>1, <1>2 DEF Next

(* The loop of create() keeps its array as calculated so far.              *)
THEOREM ChunksInvariant ==
    ASSUME ChunkingAssumption, ~SizeIsText PROVE Spec => []ChunksInv
BY ChunksInvInit, ChunksInvStep, PTL DEF Spec

(* The array is a sequence of chunks, each with a start and a size, of one *)
(* of the files considered.                                                *)
THEOREM TypeCorrect ==
    ASSUME ChunkingAssumption, ~SizeIsText PROVE Spec => []TypeOK
<1>1. ChunksInv => TypeOK
    BY DEF ChunksInv, ArrayOK, TypeOK
<1> QED BY <1>1, ChunksInvariant, PTL

(* Every chunk but the last is ChunkSize bytes long, none is empty.        *)
THEOREM FixedSizeChunks ==
    ASSUME ChunkingAssumption, ~SizeIsText PROVE Spec => []FixedSize
<1>1. ChunksInv => FixedSize
    <2> SUFFICES ASSUME ChunksInv, NEW k \in 1..Len(parts)
                 PROVE  /\ parts[k].size \in 1..ChunkSize
                        /\ k < Len(parts) => parts[k].size = ChunkSize
        BY DEF FixedSize
    <2>1. /\ Len(parts) \in Nat /\ k - 1 \in Nat /\ (k - 1) + 1 = k
          /\ size \in Int /\ ChunkSize \in Nat \ {0}
        BY DEF ChunksInv, ArrayOK, ChunkingAssumption
    <2>2. calculateChunks(size) \in Int /\ k <= calculateChunks(size)
          /\ Len(parts) <= calculateChunks(size)
        BY SMTT(30), <2>1, CeilBounds DEF ChunksInv, ArrayOK
    <2>3. /\ (k - 1) * ChunkSize \in Nat
          /\ size - (k - 1) * ChunkSize >= 1
          /\ k < calculateChunks(size) => size - (k - 1) * ChunkSize > ChunkSize
        <3>1. k - 1 < calculateChunks(size)
            BY <2>1, <2>2
        <3> QED BY <2>1, <3>1, BytesLeft
    <2>4. parts[k].size = Lesser(ChunkSize, size - (k - 1) * ChunkSize)
        <3>1. parts[k] = ChunkAt(k)
            BY DEF ChunksInv
        <3> QED BY <3>1 DEF ChunkAt
    <2> QED BY <2>1, <2>2, <2>3, <2>4 DEF Lesser
<1> QED BY <1>1, ChunksInvariant, PTL

(* Each chunk starts where the one before it ends.                         *)
THEOREM ContiguousChunks ==
    ASSUME ChunkingAssumption, ~SizeIsText PROVE Spec => []Contiguous
<1>1. ChunksInv /\ FixedSize => Contiguous
    <2> SUFFICES ASSUME ChunksInv, FixedSize, NEW k \in 1..Len(parts)
                 PROVE  parts[k].start = (IF k = 1 THEN 0
                                          ELSE parts[k - 1].start + parts[k - 1].size)
        BY DEF Contiguous
    <2>1. Len(parts) \in Nat /\ ChunkSize \in Nat
        BY DEF ChunksInv, ArrayOK, ChunkingAssumption
    <2>2. parts[k].start = (k - 1) * ChunkSize
        <3>1. parts[k] = ChunkAt(k)
            BY DEF ChunksInv
        <3> QED BY <3>1 DEF ChunkAt
    <2>3. CASE k = 1
        BY <2>1, <2>2, <2>3
    <2>4. CASE k # 1
        <3>1. k - 1 \in 1..Len(parts) /\ k - 1 < Len(parts)
            BY <2>1, <2>4
        <3>2. parts[k - 1].start = (k - 1 - 1) * ChunkSize /\ parts[k - 1].size = ChunkSize
            <4>1. parts[k - 1] = ChunkAt(k - 1)
                BY <3>1 DEF ChunksInv
            <4>2. parts[k - 1].size = ChunkSize
                BY <3>1 DEF FixedSize
            <4> QED BY <4>1, <4>2 DEF ChunkAt
        <3>3. (k - 1) * ChunkSize = (k - 1 - 1) * ChunkSize + ChunkSize
            BY <2>1
        <3> QED BY <2>2, <2>4, <3>2, <3>3
    <2> QED BY <2>3, <2>4
<1> QED BY <1>1, ChunksInvariant, FixedSizeChunks, PTL

(* The chunks of the finished loop end where the file ends.                *)
THEOREM ChunksCoverFile ==
    ASSUME ChunkingAssumption, ~SizeIsText PROVE Spec => []CoversFile
<1>1. ChunksInv => CoversFile
    <2> SUFFICES ASSUME ChunksInv, Done
                 PROVE  IF parts = << >> THEN size <= 0
                        ELSE parts[Len(parts)].start + parts[Len(parts)].size = size
        BY DEF CoversFile
    <2> DEFINE t == calculateChunks(size)
    <2>1. size \in Int /\ ChunkSize \in Nat \ {0} /\ Len(parts) \in Nat
        BY DEF ChunksInv, ArrayOK, ChunkingAssumption
    <2>2. t \in Int /\ size <= t * ChunkSize
        BY <2>1, CeilBounds
    <2>3. CASE parts = << >>
        <3>1. t <= 0
            BY <2>3 DEF Done
        <3>2. t * ChunkSize <= 0 * ChunkSize
            BY <2>1, <2>2, <3>1, TimesMonotone
        <3> HIDE DEF t
        <3>3. t * ChunkSize \in Int /\ 0 * ChunkSize = 0
            BY <2>1, <2>2
        <3> QED BY <2>1, <2>2, <2>3, <3>2, <3>3
    <2>4. CASE parts # << >>
        <3>1. Len(parts) = t /\ Len(parts) \in 1..Len(parts)
            BY <2>1, <2>2, <2>4 DEF Done, ChunksInv, ArrayOK
        <3>2. t - 1 \in Nat /\ t - 1 < t /\ (t - 1) + 1 = t
            BY <2>2, <3>1
        <3>3. (t - 1) * ChunkSize \in Nat /\ size - (t - 1) * ChunkSize <= ChunkSize
            BY <2>1, <3>2, BytesLeft
        <3>4. /\ parts[Len(parts)].start = (t - 1) * ChunkSize
              /\ parts[Len(parts)].size = Lesser(ChunkSize, size - (t - 1) * ChunkSize)
            <4>1. parts[Len(parts)] = ChunkAt(Len(parts))
                BY <3>1 DEF ChunksInv
            <4>2. ChunkAt(Len(parts)) = ChunkAt(t)
                BY <3>1
            <4> QED BY <4>1, <4>2 DEF ChunkAt
        <3> HIDE DEF t
        <3> QED BY <2>1, <2>4, <3>3, <3>4 DEF Lesser
    <2> QED BY <2>3, <2>4
<1> QED BY <1>1, ChunksInvariant, PTL

=============================================================================
