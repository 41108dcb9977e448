--------------------------- MODULE ChunkMapping ---------------------------
(***************************************************************************)
(* The arithmetic of chunks (DeduplicationService, ChunkMap, FileUtil).    *)
(*                                                                         *)
(* A virtual file is stored in chunks of ChunkSize bytes, in another order *)
(* than that of the file.  A chunk map says which chunk of the file each   *)
(* stored chunk is, what it hashes to, and which one is the last of the    *)
(* file and how much of it belongs to the file.  Offsets are long and do   *)
(* not overflow here; ints do, and ToInt is the conversion to them.        *)
(***************************************************************************)
EXTENDS Integers, FiniteSets, FiniteSetsExt, SequencesExt

CONSTANTS
    ChunkSize,  \* bytes in a chunk
    MaxInt,     \* the largest int
    Hashes      \* the hashes of chunks, taken for their contents

ASSUME ChunkingAssumption ==
    ChunkSize \in Nat \ {0} /\ MaxInt \in Nat \ {0} /\ ChunkSize <= MaxInt

(* What a cast or an overflow leaves of n: its value modulo 2^width. *)
ToInt(n) == ((n + MaxInt + 1) % (2 * (MaxInt + 1))) - (MaxInt + 1)

\* Math.DivRem and Math.Ceiling; C# truncates towards zero.
Quotient(n)  == IF n >= 0 THEN n \div ChunkSize ELSE -((-n) \div ChunkSize)
Remainder(n) == IF n >= 0 THEN n % ChunkSize ELSE -((-n) % ChunkSize)
Ceiling(n)   == (n + ChunkSize - 1) \div ChunkSize

---------------------------------------------------------------------------
(* Chunk maps.  Indices start from 0, as in the code. *)

Chunks(map) == DOMAIN map.fileIndex

IsChunkMap(map) ==
    LET n == Cardinality(Chunks(map))
    IN  n \in Nat /\ map \in
                [ fileIndex : [0 .. n - 1 -> 0 .. n - 1], hash : [0 .. n - 1 -> Hashes],
                  eofIndex : -1 .. n - 1, eofSize : 0 .. ChunkSize ]

(* ChunkIndices: the array starts with zeroes, and the last entry for a file index stands. *)
ChunkIndexOf(map, i) ==
    LET at == { c \in Chunks(map) : map.fileIndex[c] = i }
    IN  IF at = {} THEN 0 ELSE Max(at)

SizeOf(map, c) == IF c = map.eofIndex THEN map.eofSize ELSE ChunkSize

(* ChunkMap.FileSize: computed with ints, and widened only then. *)
FileSize(map) == ToInt(ToInt(ChunkSize * (Cardinality(Chunks(map)) - 1)) + map.eofSize)

(* The map that AddFileAllChunks and AddFileWithBasicChunkMap make while they read a     *)
(* file of that size: a short last chunk ends the loop, and so does reading nothing.      *)
BasicMap(blocks, size) ==
    LET n == Ceiling(size)
    IN  [ fileIndex |-> [c \in 0 .. n - 1 |-> c], hash |-> [c \in 0 .. n - 1 |-> blocks[c]],
          eofIndex |-> n - 1,
          eofSize  |-> IF size % ChunkSize = 0 THEN ChunkSize ELSE size % ChunkSize ]

(* What the comments of ChunkMap say of a map: FileIndices is an order of the chunks,    *)
(* and EofChunkIndex is where the last chunk of the file is.                             *)
IsTrueMap(map) ==
    LET n == Cardinality(Chunks(map))
    IN  /\ map.fileIndex \in Bijection(Chunks(map), Chunks(map))
        /\ map.eofIndex \in Chunks(map) => map.fileIndex[map.eofIndex] = n - 1

(* The zeroes that PadFileWithZeros appends to a file of that size. *)
Padding(size) == ToInt(ToInt(Ceiling(size) * ChunkSize) - size)

---------------------------------------------------------------------------
(* From a range of bytes to parts of chunks (MapChunks).  The chunks of the range are    *)
(* looked up first, which gives each a path, an index and a size; the first and          *)
(* the last are then cut to the range.                                                   *)

FirstChunk(offset) == ToInt(Quotient(offset))

\* Defect: a range that ends where a chunk ends takes the next chunk, too.
LastChunkAfter(end) == ToInt(Quotient(end))

LastChunk(end) == LET q == ToInt(Quotient(end)) IN IF Remainder(end) = 0 THEN q - 1 ELSE q

\* Defect: a range that ends where a chunk ends takes nothing of it.
RestInLastChunk(end) == Remainder(end)

InLastChunk(end) == IF Remainder(end) = 0 THEN ChunkSize ELSE Remainder(end)

ChunksOf(offset, count) == FirstChunk(offset) .. LastChunk(offset + count)

(* An empty list of chunks makes MapChunks throw, when it cuts the first one. *)
Mappable(offset, count) == FirstChunk(offset) <= LastChunk(offset + count)

MapChunks(offset, count, mapped) ==
    LET first == FirstChunk(offset)
        last  == LastChunk(offset + count)
        skip  == Remainder(offset)
        Part(c) ==
            LET m     == mapped[c]
                start == IF c = first THEN skip ELSE 0
                end   == IF c = last THEN InLastChunk(offset + count)
                         ELSE IF c = first THEN ChunkSize ELSE m.size
            IN  [ path |-> m.path, at |-> ToInt(m.index * ChunkSize) + start,
                  count |-> ToInt(end - start) ]
    IN  [ i \in 1 .. last - first + 1 |-> Part(first + i - 1) ]

\* Defect: the chunk in which the range begins is taken for whole.
TouchedChunks(offset, count) ==
    offset \div ChunkSize .. (offset + count) \div ChunkSize - 1

(* RegisterFilePart: the chunks that lie in the range as a whole. *)
WholeChunks(offset, count) ==
    Ceiling(offset) .. (offset + count) \div ChunkSize - 1
===========================================================================
