------------------------------ MODULE ChunkDb ------------------------------
(***************************************************************************)
(* The chunk database (ChunkDbService, ChunkDbHelper, DeduplicationService *)
(* and the part of FileUtil that they call).  It knows files, with a chunk *)
(* map for most, and for each hash the one place where such a chunk is     *)
(* stored.  Every call runs in one to three transactions of SQLite; a      *)
(* transaction is one step, since SQLite lets one of them write at a time. *)
(*                                                                         *)
(* Three kinds of files are in it: sources, added from the local disk;     *)
(* virtual files, which are sources put into another order and exist only  *)
(* as a map; and downloads, which the engine writes to the disk in the     *)
(* order of their map.                                                     *)
(***************************************************************************)
EXTENDS ChunkMapping

CONSTANTS
    Threads,
    Sources, Virtuals, Downloads,
    Block,      \* Block[p][i]: the i-th chunk of source p, padded with zeroes
    Size,       \* Size[p]: the length of source p before it is padded
    Map,        \* Map[p]: the chunk map with which virtual file or download p is added
    Ranges,     \* the ranges asked for: records with offset and count
    Parts,      \* the ranges in which downloads are written
    None        \* no row, no map, no place

Paths == Sources \cup Virtuals \cup Downloads
Reordered == Virtuals \cup Downloads
MapOf(p) == IF p \in Sources THEN BasicMap(Block[p], Size[p]) ELSE Map[p]

ASSUME FilesAssumption ==
    /\ Sources \cap Reordered = {} /\ Virtuals \cap Downloads = {}
    /\ Size \in [Sources -> Nat]
    /\ \A p \in Sources : Block[p] \in [0 .. Ceiling(Size[p]) - 1 -> Hashes]
    /\ \A p \in Reordered : IsChunkMap(Map[p])
    /\ Ranges \cup Parts \subseteq [offset : Nat, count : Nat]
    /\ None \notin Paths /\ None \notin [path : Paths, index : Nat]
    /\ \A p \in Paths : None \notin [map : {None, MapOf(p)}, size : Int]

VARIABLES
    file,       \* the table ManagedFile: a row per path
    place,      \* the table DataChunk: where the chunk of a hash is stored
    padded,     \* sources that have been padded on the disk
    written,    \* written[p]: the bytes of download p that are on the disk
    call        \* call[t]: the call that thread t executes, with its locals

vars == <<file, place, padded, written, call>>

----------------------------------------------------------------------------
Pcs == {"idle", "hash", "map", "pad",       \* AddFileWithBasicChunkMap
        "indices", "mapped",                \* MapFileIndicesToChunkIndices
        "places", "located"}                \* GetDedupFileSourceLocations

\* count is what was asked for, realCount what there is of it.
Idle == [pc |-> "idle", path |-> None, offset |-> 0, count |-> 0, realCount |-> 0,
         map |-> None, parts |-> <<>>]

Request(pc, p, r) == [Idle EXCEPT !.pc = pc, !.path = p, !.offset = r.offset, !.count = r.count]

At(t, pc) == call[t].pc = pc
PathOf(t) == call[t].path

(* GetManagedFile gives the row; without one, or without the map that the caller then    *)
(* follows, there is an exception.                                                       *)
HasRow(p) == file[p] # None
HasMap(p) == HasRow(p) /\ file[p].map # None

ChunksOfSource(p) == 0 .. Ceiling(Size[p]) - 1

(* The bytes of a path that can be read from the disk. *)
OnDisk(p) ==
    CASE p \in Sources   -> 0 .. Size[p] + (IF p \in padded THEN Padding(Size[p]) ELSE 0) - 1
      [] p \in Downloads -> written[p]
      [] OTHER           -> {}

BytesOf(c) == c * ChunkSize .. (c + 1) * ChunkSize - 1
BytesOfMap(map) == UNION { BytesOf(c) : c \in Chunks(map) }

\* Defect: the next chunk's index is stored.
WithNextPlaces(p, chunks, hash) ==
    [ h \in Hashes |->
        LET at == { c \in chunks : hash[c] = h }
        IN  IF place[h] = None /\ at # {} THEN [path |-> p, index |-> Min(at) + 1] ELSE place[h] ]

(* AddChunkIfNotExists for each chunk in the given set, from the first to the last. *)
WithPlaces(p, chunks, hash) ==
    [ h \in Hashes |->
        LET at == { c \in chunks : hash[c] = h }
        IN  IF place[h] = None /\ at # {} THEN [path |-> p, index |-> Min(at)] ELSE place[h] ]

----------------------------------------------------------------------------
Init ==
    /\ file = [p \in Paths |-> None]
    /\ place = [h \in Hashes |-> None]
    /\ padded = {}
    /\ written = [p \in Downloads |-> {}]
    /\ call = [t \in Threads |-> Idle]

Goto(t, c) == call' = [call EXCEPT ![t] = c]

(* An exception ends the call; the transaction it is in, if any, is rolled back. *)
Throws(t) == Goto(t, Idle) /\ UNCHANGED <<file, place, padded, written>>

(* AddFileWithBasicChunkMap: a transaction for the row, one for the chunks, one for the  *)
(* map; then the file is padded.                                                         *)
CreateFile(t, p) ==
    /\ At(t, "idle")
    /\ ~HasRow(p)       \* Path is unique
    /\ file' = [file EXCEPT ![p] = [map |-> None, size |-> Size[p]]]
    /\ Goto(t, [Idle EXCEPT !.pc = "hash", !.path = p])
    /\ UNCHANGED <<place, padded, written>>

\* Defect: the loop ends at the short last chunk before that is stored.
StoreFullChunks(t) ==
    LET p == PathOf(t)
    IN  /\ At(t, "hash")
        /\ place' = WithPlaces(p, 0 .. Size[p] \div ChunkSize - 1, Block[p])
        /\ Goto(t, [call[t] EXCEPT !.pc = "map", !.map = BasicMap(Block[p], Size[p])])
        /\ UNCHANGED <<file, padded, written>>

StoreChunks(t) ==
    LET p == PathOf(t)
    IN  /\ At(t, "hash")
        /\ place' = WithPlaces(p, ChunksOfSource(p), Block[p])
        /\ Goto(t, [call[t] EXCEPT !.pc = "map", !.map = BasicMap(Block[p], Size[p])])
        /\ UNCHANGED <<file, padded, written>>

(* The public AddFileAllChunks ends here: no map, no padding. *)
LeaveWithoutMap(t) ==
    /\ At(t, "map")
    /\ Goto(t, Idle)
    /\ UNCHANGED <<file, place, padded, written>>

StoreMap(t) ==
    /\ At(t, "map")
    /\ HasRow(PathOf(t))
    /\ file' = [file EXCEPT ![PathOf(t)] = [file[PathOf(t)] EXCEPT !.map = call[t].map]]
    /\ Goto(t, [call[t] EXCEPT !.pc = "pad"])
    /\ UNCHANGED <<place, padded, written>>

PadFile(t) ==
    /\ At(t, "pad")
    /\ padded' = padded \cup {PathOf(t)}
    /\ Goto(t, Idle)
    /\ UNCHANGED <<file, place, written>>

(* AddFile and AddFileToDownload: one transaction each.  The size of a download is that  *)
(* of the torrent, which counts the padding.                                             *)
AddFile(p) ==
    /\ ~HasRow(p)
    /\ file' = [file EXCEPT ![p] = [map |-> Map[p], size |-> FileSize(Map[p])]]
    /\ UNCHANGED <<place, padded, written, call>>

AddFileToDownload(p) ==
    /\ ~HasRow(p)
    /\ file' = [file EXCEPT ![p] = [map |-> Map[p],
                                    size |-> Cardinality(Chunks(Map[p])) * ChunkSize]]
    /\ UNCHANGED <<place, padded, written, call>>

(* The engine (external) writes parts of a download, and registers what is there; parts  *)
(* do not begin and end with chunks.                                                     *)
BytesIn(r) == r.offset .. r.offset + r.count - 1

WritePart(p, r) ==
    /\ HasRow(p)
    /\ BytesIn(r) \subseteq BytesOfMap(Map[p])
    /\ written' = [written EXCEPT ![p] = written[p] \cup BytesIn(r)]
    /\ UNCHANGED <<file, place, padded, call>>

RegisterFilePart(p, r) ==
    /\ HasMap(p)
    /\ BytesIn(r) \subseteq written[p]
    /\ LET chunks == WholeChunks(r.offset, r.count)
       IN  /\ chunks \subseteq Chunks(file[p].map)
           /\ place' = WithPlaces(p, chunks, file[p].map.hash)
    /\ UNCHANGED <<file, padded, written, call>>

----------------------------------------------------------------------------
(* MapFileIndicesToChunkIndices: where a range of the file lies in the reordered file. *)
ClipToSize(t, p, r) ==
    /\ At(t, "idle")
    /\ HasRow(p)
    /\ r.offset <= file[p].size
    /\ Goto(t, [Request("indices", p, r) EXCEPT
                    !.realCount = Min({ToInt(file[p].size - r.offset), r.count})])
    /\ UNCHANGED <<file, place, padded, written>>

PartsOf(c, map) ==
    LET Indexed(i) ==
            LET at == ChunkIndexOf(map, i)
            IN  [path |-> c.path, index |-> at, size |-> SizeOf(map, at)]
    IN  MapChunks(c.offset, c.realCount, [i \in ChunksOf(c.offset, c.realCount) |-> Indexed(i)])

(* GetChunkIndices needs the last chunk of the map, which an empty file has not. *)
GetChunkIndices(t) ==
    LET c   == call[t]
        map == file[c.path].map
    IN  /\ At(t, "indices")
        /\ IF /\ HasMap(c.path)
              /\ map.eofIndex \in Chunks(map)
              /\ Mappable(c.offset, c.realCount)
              /\ ChunksOf(c.offset, c.realCount) \subseteq Chunks(map)
           THEN /\ Goto(t, [c EXCEPT !.pc = "mapped", !.map = map, !.parts = PartsOf(c, map)])
                /\ UNCHANGED <<file, place, padded, written>>
           ELSE Throws(t)

(* GetDedupFileSourceLocations: where the chunks of a range of the reordered file are    *)
(* stored, in this file or in others.                                                    *)
GetRow(t, p, r) ==
    /\ At(t, "idle")
    /\ HasMap(p)
    /\ Goto(t, [Request("places", p, r) EXCEPT !.map = file[p].map])
    /\ UNCHANGED <<file, place, padded, written>>

PlacesOf(c) ==
    LET Located(i) ==
            LET at == place[c.map.hash[i]]
            IN  [path |-> at.path, index |-> at.index, size |-> SizeOf(c.map, i)]
    IN  MapChunks(c.offset, c.count, [i \in ChunksOf(c.offset, c.count) |-> Located(i)])

GetChunkLocations(t) ==
    LET c == call[t]
    IN  /\ At(t, "places")
        /\ IF /\ c.map.eofIndex \in Chunks(c.map)
              /\ Mappable(c.offset, c.count)
              /\ ChunksOf(c.offset, c.count) \subseteq Chunks(c.map)
              /\ \A i \in ChunksOf(c.offset, c.count) : place[c.map.hash[i]] # None
           THEN /\ Goto(t, [c EXCEPT !.pc = "located", !.parts = PlacesOf(c)])
                /\ UNCHANGED <<file, place, padded, written>>
           ELSE Throws(t)

(* The caller has the answer. *)
TakeAnswer(t) ==
    /\ At(t, "mapped") \/ At(t, "located")
    /\ Goto(t, Idle)
    /\ UNCHANGED <<file, place, padded, written>>

(* A file cannot be read, the database is busy for too long. *)
Fail(t) ==
    /\ ~At(t, "idle")
    /\ Throws(t)

(* The process ends; what was committed stays. *)
Crash ==
    /\ call' = [t \in Threads |-> Idle]
    /\ UNCHANGED <<file, place, padded, written>>

Next ==
    \/ \E t \in Threads :
        \/ \E p \in Sources : CreateFile(t, p)
        \/ \E p \in Paths, r \in Ranges : ClipToSize(t, p, r)
        \/ \E p \in Reordered, r \in Ranges : GetRow(t, p, r)
        \/ StoreChunks(t) \/ LeaveWithoutMap(t) \/ StoreMap(t) \/ PadFile(t)
        \/ GetChunkIndices(t) \/ GetChunkLocations(t)
        \/ TakeAnswer(t) \/ Fail(t)
    \/ \E p \in Virtuals : AddFile(p)
    \/ \E p \in Downloads :
        \/ AddFileToDownload(p)
        \/ \E r \in Parts : WritePart(p, r) \/ RegisterFilePart(p, r)
    \/ Crash

Spec == Init /\ [][Next]_vars

----------------------------------------------------------------------------
ChunksOfPath(p) == IF p \in Sources THEN ChunksOfSource(p) ELSE Chunks(Map[p])
HashIn(p, c) == IF p \in Sources THEN Block[p][c] ELSE Map[p].hash[c]

(* Rows, places and calls keep their types, and what is in the tables is in its file. *)
TypeOK ==
    /\ \A p \in Paths :
        file[p] = None \/ file[p] \in [map : {None, MapOf(p)}, size : Int]
    /\ \A h \in Hashes :
        place[h] = None \/ \E p \in Paths : place[h] \in [path : {p}, index : ChunksOfPath(p)]
    /\ padded \subseteq Sources
    /\ \A p \in Downloads : written[p] \subseteq BytesOfMap(Map[p])
    /\ \A t \in Threads :
        /\ call[t].pc \in Pcs
        /\ call[t].path \in Paths \cup {None}
        /\ call[t].offset \in Nat /\ call[t].count \in Nat /\ call[t].realCount \in Int
        /\ ~At(t, "idle") => call[t].map \in {None, MapOf(PathOf(t))}

(* The chunk that the database names for a hash has that hash and is on the disk as a    *)
(* whole, also while others register parts of downloads, whatever fails.  The exception  *)
(* is in the code: the chunks of a source are published before its padding is written.   *)
LocatedIsStored ==
    \A h \in Hashes : place[h] # None =>
        LET p == place[h].path
            c == place[h].index
        IN  /\ HashIn(p, c) = h
            /\ \/ BytesOf(c) \subseteq OnDisk(p)
               \/ p \in Sources \ padded /\ BytesOf(c) \cap 0 .. Size[p] - 1 \subseteq OnDisk(p)

(* A source has its map only when each of its chunks can be found, so that files put     *)
(* together from it can be read.  The size that its map tells is its size just when that  *)
(* is an int: beyond, FileSize overflows and tells another one (ChunkMap.cs:196).        *)
MappedSourceIsLocatable ==
    \A p \in Sources : HasMap(p) =>
        /\ \A c \in ChunksOfSource(p) : place[Block[p][c]] # None
        /\ FileSize(file[p].map) = file[p].size <=> Size[p] <= MaxInt

BytesOfParts(parts) ==
    FlattenSeq([i \in DOMAIN parts |-> [k \in 1 .. parts[i].count |-> <<parts[i].path, parts[i].at + k - 1>>]])

(* The bytes of a range of a file, where they lie in the reordered file. *)
MappedIsTrue(c) ==
    LET n == Min({file[c.path].size - c.offset, c.count})
        ByteAt(b) == <<c.path, ChunkIndexOf(c.map, b \div ChunkSize) * ChunkSize + (b % ChunkSize)>>
    IN  BytesOfParts(c.parts) = [k \in 1 .. n |-> ByteAt(c.offset + k - 1)]

(* The parts with which a range of a file is answered are, byte for byte and in order,   *)
(* where the range lies in the reordered file, and nothing of it is left out but what is *)
(* beyond the end.  This is so for maps of which the comments are true, and while the    *)
(* size of the file and the offset of each of its chunks are ints: the casts go wrong    *)
(* beyond.                                                                               *)
MappedIsRange ==
    \A t \in Threads :
        LET c == call[t]
        IN  /\ At(t, "mapped") /\ IsTrueMap(c.map)
            /\ file[c.path].size <= MaxInt /\ (Cardinality(Chunks(c.map)) - 1) * ChunkSize <= MaxInt
            => MappedIsTrue(c)

(* Where the last chunk of the file lies in the midst of a range, the zeroes that fill   *)
(* it up are left out, and what is read as byte b lies that much further.               *)
EndIsInside(c) ==
    c.map.eofIndex \in (c.offset \div ChunkSize) + 1 .. ((c.offset + c.count - 1) \div ChunkSize) - 1
Skipped(c) == IF EndIsInside(c) THEN ChunkSize - c.map.eofSize ELSE 0
ByteOf(c, b) ==
    IF EndIsInside(c) /\ b >= c.map.eofIndex * ChunkSize + c.map.eofSize THEN b + Skipped(c) ELSE b

(* The places with which a range of a reordered file is answered hold the bytes of that  *)
(* range and in that order, with whichever file they are shared, but for the zeroes that *)
(* fill up the last chunk of the file.  The offsets of the chunks have to be ints.       *)
LocatedIsRange ==
    \A t \in Threads :
        LET c == call[t]
            Content(b) == <<c.map.hash[b \div ChunkSize], b % ChunkSize>>
            Found(x) == <<HashIn(x[1], x[2] \div ChunkSize), x[2] % ChunkSize>>
            bytes == BytesOfParts(c.parts)
        IN  /\ At(t, "located")
            /\ (c.offset + c.count) \div ChunkSize <= MaxInt
            /\ \A i \in ChunksOf(c.offset, c.count) : place[c.map.hash[i]].index * ChunkSize <= MaxInt
            => [k \in DOMAIN bytes |-> Found(bytes[k])] =
               [k \in 1 .. c.count - Skipped(c) |-> Content(ByteOf(c, c.offset + k - 1))]
===========================================================================
