-------------------------- MODULE ChunkDb_proofs --------------------------
(***************************************************************************)
(* What the chunk database names for a hash is stored, and the chunks of a *)
(* source that has its map can be found: for any files, chunk maps and     *)
(* sizes of ints, and any number of threads.                               *)
(***************************************************************************)
EXTENDS ChunkDb, FiniteSetTheorems, WellFoundedInduction, TLAPS

----------------------------------------------------------------------------
(* Arithmetic *)

LEMMA DivMod ==
  ASSUME NEW a \in Int, NEW d \in Nat \ {0}
  PROVE  /\ a \div d \in Int /\ a % d \in 0 .. d - 1
         /\ a = d * (a \div d) + (a % d)
OBVIOUS

LEMMA ModIs ==
  ASSUME NEW d \in Nat \ {0}, NEW q \in Int, NEW r \in 0 .. d - 1
  PROVE  (d * q + r) % d = r
<1> DEFINE a == d * q + r
<1> DEFINE p == a \div d
<1>1. a \in Int /\ d * q \in Int
  OBVIOUS
<1>2. p \in Int /\ a % d \in 0 .. d - 1 /\ a = d * p + (a % d)
  BY <1>1, DivMod
<1>3. CASE p <= q - 1
  <2>1. d * p <= d * (q - 1)
    BY <1>2, <1>3
  <2>2. d * (q - 1) = d * q - d
    OBVIOUS
  <2>3. QED
    BY <1>1, <1>2, <2>1, <2>2
<1>4. CASE p >= q + 1
  <2>1. d * p >= d * (q + 1)
    BY <1>2, <1>4
  <2>2. d * (q + 1) = d * q + d
    OBVIOUS
  <2>3. QED
    BY <1>1, <1>2, <2>1, <2>2
<1>5. CASE p = q
  BY <1>1, <1>2, <1>5
<1>6. QED
  BY <1>2, <1>3, <1>4, <1>5

\* A chunk that begins before a whole multiple of ChunkSize ends by it.
LEMMA QuotientBounds ==
  ASSUME NEW n \in Nat
  PROVE  /\ n \div ChunkSize \in Nat /\ Ceiling(n) \in Nat
         /\ (n \div ChunkSize) * ChunkSize <= n
         /\ n < (n \div ChunkSize) * ChunkSize + ChunkSize
         /\ Ceiling(n) * ChunkSize >= n
         /\ Ceiling(n) * ChunkSize < n + ChunkSize
<1> USE ChunkingAssumption
<1>1. \A m \in Nat : /\ m \div ChunkSize \in Nat
                     /\ ChunkSize * (m \div ChunkSize) <= m
                     /\ m < ChunkSize * (m \div ChunkSize) + ChunkSize
  BY DivMod
<1>2. n + ChunkSize - 1 \in Nat
  OBVIOUS
<1>3. QED
  BY <1>1, <1>2 DEF Ceiling

LEMMA Multiples ==
  ASSUME NEW a \in Int, NEW b \in Int, a <= b
  PROVE  a * ChunkSize <= b * ChunkSize
BY ChunkingAssumption

Width == 2 * (MaxInt + 1)

LEMMA ToIntOf ==
  ASSUME NEW n \in Int
  PROVE  \E k \in Int : ToInt(n) = n + Width * k
<1>1. Width \in Nat \ {0} /\ MaxInt \in Nat
  BY ChunkingAssumption DEF Width
<1>0. PICK a \in Int : a = n + MaxInt + 1
  BY <1>1
<1> DEFINE q == a \div Width
<1>2. q \in Int /\ a % Width \in Int /\ a = Width * q + (a % Width)
  BY <1>1, DivMod
<1>3. ToInt(n) = n + Width * (-q)
  <2>1. Width * (-q) = -(Width * q)
    BY <1>1, <1>2
  <2>2. ToInt(n) = (a % Width) - (MaxInt + 1)
    BY <1>0 DEF ToInt, Width
  <2>3. QED
    BY <1>1, <1>0, <1>2, <2>1, <2>2
<1>4. QED
  BY <1>2, <1>3

LEMMA ToIntBound ==
  ASSUME NEW n \in Int
  PROVE  ToInt(n) \in Int /\ ToInt(n) <= MaxInt
<1>1. Width \in Nat \ {0} /\ MaxInt \in Nat /\ Width = 2 * (MaxInt + 1)
  BY ChunkingAssumption DEF Width
<1>2. PICK a \in Int : a = n + MaxInt + 1
  BY <1>1
<1>3. PICK r \in 0 .. Width - 1 : r = a % Width
  BY <1>1, DivMod
<1>4. ToInt(n) = r - (MaxInt + 1)
  BY <1>3, <1>1, <1>2 DEF ToInt
<1>5. QED
  BY <1>3, <1>1, <1>4

LEMMA ToIntType == \A n \in Int : ToInt(n) \in Int
<1>1. Width \in Nat \ {0} /\ MaxInt \in Nat
  BY ChunkingAssumption DEF Width
<1>2. ASSUME NEW n \in Int PROVE ToInt(n) \in Int
  <2>1. (n + MaxInt + 1) % Width \in Int
    BY <1>1, DivMod
  <2>2. QED
    BY <1>1, <2>1 DEF ToInt, Width
<1>3. QED
  BY <1>2

\* An int that has gone wrong by a multiple of 2^width comes right in the end.
LEMMA ToIntIs ==
  ASSUME NEW n \in Int, NEW k \in Int, n + Width * k \in 0 .. MaxInt
  PROVE  ToInt(n) = n + Width * k
<1>1. Width \in Nat \ {0} /\ MaxInt \in Nat
  BY ChunkingAssumption DEF Width
<1>2. PICK r \in 0 .. Width - 1 : r = n + Width * k + MaxInt + 1
  BY <1>1 DEF Width
<1>3. n + MaxInt + 1 = Width * (-k) + r
  BY <1>1, <1>2
<1>4. (n + MaxInt + 1) % Width = r
  <2>1. (Width * (-k) + r) % Width = r
    BY <1>1, ModIs, -k \in Int
  <2>2. QED
    BY <1>3, <2>1
<1>5. QED
  BY <1>1, <1>2, <1>4 DEF ToInt, Width

LEMMA ToIntTwice ==
  ASSUME NEW y \in Int, NEW e \in Int, y + e \in 0 .. MaxInt
  PROVE  ToInt(ToInt(y) + e) = y + e
<1>1. Width \in Nat
  BY ChunkingAssumption DEF Width
<1>2. PICK k \in Int : ToInt(y) = y + Width * k
  BY ToIntOf
<1>3. PICK m \in Int : m = Width * k
  BY <1>1
<1>4. Width * (-k) = -m /\ -k \in Int
  BY <1>1, <1>3
<1>5. ToInt(y + m + e) = y + m + e + Width * (-k)
  <2>1. y + m + e + Width * (-k) \in 0 .. MaxInt
    BY <1>4
  <2>2. QED
    BY <1>4, <2>1, ToIntIs, y + m + e \in Int
<1>6. QED
  BY <1>2, <1>3, <1>4, <1>5

\* PadFileWithZeros fills the last chunk, also of a file whose size is not of an int.
LEMMA PaddingFills ==
  ASSUME NEW n \in Nat
  PROVE  Padding(n) \in Int /\ n + Padding(n) = Ceiling(n) * ChunkSize
<1>1. PICK x \in Int : x = Ceiling(n) * ChunkSize
  BY QuotientBounds, ChunkingAssumption
<1>2. x + (-n) \in 0 .. MaxInt
  BY <1>1, QuotientBounds, ChunkingAssumption
<1>3. ToInt(ToInt(x) + (-n)) = x + (-n)
  BY <1>2, ToIntTwice
<1>4. ToInt(x) \in Int
  BY ToIntType
<1>5. Padding(n) = ToInt(ToInt(x) + (-n))
  BY <1>1, <1>4 DEF Padding
<1>6. QED
  BY <1>1, <1>2, <1>3, <1>5

\* The last chunk of a file takes what the others leave of it.
LEMMA LastChunkRest ==
  ASSUME NEW n \in Nat
  PROVE  LET e == IF n % ChunkSize = 0 THEN ChunkSize ELSE n % ChunkSize
         IN  e \in 1 .. ChunkSize /\ ChunkSize * (Ceiling(n) - 1) + e = n
<1>1. ChunkSize \in Nat \ {0}
  BY ChunkingAssumption
<1> DEFINE q == n \div ChunkSize
<1> DEFINE r == n % ChunkSize
<1> DEFINE c == Ceiling(n)
<1>2. q \in Int /\ r \in 0 .. ChunkSize - 1 /\ n = ChunkSize * q + r
  BY <1>1, DivMod
<1>3. c \in Nat /\ c * ChunkSize >= n /\ c * ChunkSize < n + ChunkSize
  BY QuotientBounds
<1> HIDE DEF q, r, c
<1>4. PICK x \in Int : x = ChunkSize * q
  BY <1>1, <1>2
<1>5. PICK z \in Int : z = c * ChunkSize
  BY <1>1, <1>3
<1>6. /\ q * ChunkSize = x /\ (q - 1) * ChunkSize = x - ChunkSize
      /\ (q + 1) * ChunkSize = x + ChunkSize
      /\ (q + 2) * ChunkSize = x + ChunkSize + ChunkSize
  BY <1>1, <1>2, <1>4
<1>7. ChunkSize * (c - 1) = z - ChunkSize
  BY <1>1, <1>3, <1>5
<1>8. CASE r = 0
  <2>1. z = x
    <3>1. c >= q + 1 => x + ChunkSize <= z
      BY <1>2, <1>3, <1>5, <1>6, Multiples, q + 1 \in Int
    <3>2. c <= q - 1 => z <= x - ChunkSize
      BY <1>2, <1>3, <1>5, <1>6, Multiples, q - 1 \in Int
    <3>3. c = q => z = x
      BY <1>5, <1>6
    <3>4. QED
      BY <1>1, <1>2, <1>3, <1>4, <1>5, <1>8, <3>1, <3>2, <3>3
  <2>2. ChunkSize * (c - 1) + ChunkSize = n
    <3>1. n = x /\ x - ChunkSize + ChunkSize = x
      BY <1>1, <1>2, <1>4, <1>8
    <3>2. QED
      BY <1>7, <2>1, <3>1
  <2>3. QED
    BY <1>1, <1>8, <2>2 DEF r, c
<1>9. CASE r # 0
  <2>1. z = x + ChunkSize
    <3>1. c >= q + 2 => x + ChunkSize + ChunkSize <= z
      BY <1>2, <1>3, <1>5, <1>6, Multiples, q + 2 \in Int
    <3>2. c <= q => z <= x
      BY <1>2, <1>3, <1>5, <1>6, Multiples
    <3>3. c = q + 1 => z = x + ChunkSize
      BY <1>5, <1>6
    <3>4. QED
      BY <1>1, <1>2, <1>3, <1>4, <1>5, <1>9, <3>1, <3>2, <3>3
  <2>2. ChunkSize * (c - 1) + r = n
    BY <1>1, <1>2, <1>4, <1>5, <1>7, <2>1
  <2>3. r \in 1 .. ChunkSize
    BY <1>1, <1>2, <1>9
  <2>4. QED
    BY <1>9, <2>2, <2>3 DEF r, c
<1>10. QED
  BY <1>8, <1>9

\* The map that is made of a file tells its size, if that is of an int.
\* The size that a map tells is right for sizes that are ints, and for no others.
LEMMA BasicMapSize ==
  ASSUME NEW n \in Nat, NEW blocks
  PROVE  FileSize(BasicMap(blocks, n)) = n <=> n <= MaxInt
<1> DEFINE map == BasicMap(blocks, n)
<1> DEFINE e == IF n % ChunkSize = 0 THEN ChunkSize ELSE n % ChunkSize
<1> DEFINE c == Ceiling(n)
<1>1. c \in Nat
  BY QuotientBounds
<1>2. e \in Int /\ ChunkSize * (c - 1) + e = n
  BY LastChunkRest, ChunkingAssumption
<1>3. map.eofSize = e /\ Chunks(map) = 0 .. c - 1
  BY DEF BasicMap, Chunks
<1> HIDE DEF e, c, map
<1>4. Cardinality(Chunks(map)) = c
  BY <1>1, <1>3, FS_Interval
<1>5. PICK y \in Int : y = ChunkSize * (c - 1)
  BY <1>1, ChunkingAssumption
<1>6. ToInt(ToInt(y) + e) = n <=> n <= MaxInt
  <2>1. y + e = n
    BY <1>2, <1>5
  <2>2. CASE n <= MaxInt
    <3>1. y + e \in 0 .. MaxInt
      BY <2>1, <2>2, ChunkingAssumption
    <3>2. QED
      BY <1>2, <2>1, <2>2, <3>1, ToIntTwice
  <2>3. CASE ~(n <= MaxInt)
    <3>1. ToInt(y) \in Int
      BY ToIntBound
    <3>2. ToInt(y) + e \in Int
      BY <1>2, <3>1
    <3>3. ToInt(ToInt(y) + e) <= MaxInt
      BY <3>2, ToIntBound
    <3>4. QED
      BY <2>3, <3>3
  <2>4. QED
    BY <2>2, <2>3
<1>7. FileSize(map) = ToInt(ToInt(ChunkSize * (Cardinality(Chunks(map)) - 1)) + map.eofSize)
  BY DEF FileSize
<1>8. QED
  BY <1>3, <1>4, <1>5, <1>6, <1>7 DEF map

\* The parts of a file that lie in a range as whole chunks lie in it with all their bytes.
LEMMA WholeInRange ==
  ASSUME NEW r \in [offset : Nat, count : Nat], NEW c \in WholeChunks(r.offset, r.count)
  PROVE  BytesOf(c) \subseteq BytesIn(r)
<1> DEFINE o == r.offset
<1> DEFINE n == r.count
<1>1. o \in Nat /\ n \in Nat /\ o + n \in Nat
  OBVIOUS
<1> HIDE DEF o, n
<1>2. /\ Ceiling(o) \in Nat /\ Ceiling(o) * ChunkSize >= o
      /\ (o + n) \div ChunkSize \in Nat /\ ((o + n) \div ChunkSize) * ChunkSize <= o + n
  BY <1>1, QuotientBounds
<1>3. c \in Int /\ Ceiling(o) <= c /\ c + 1 <= (o + n) \div ChunkSize
  BY <1>2 DEF WholeChunks, o, n
<1>4. o <= c * ChunkSize /\ (c + 1) * ChunkSize <= o + n
  <2>1. Ceiling(o) * ChunkSize <= c * ChunkSize
    BY <1>2, <1>3, Multiples
  <2>2. (c + 1) * ChunkSize <= ((o + n) \div ChunkSize) * ChunkSize
    BY <1>2, <1>3, Multiples, c + 1 \in Int
  <2>3. PICK x \in Int, y \in Int, u \in Int, v \in Int :
           /\ x = Ceiling(o) * ChunkSize /\ y = c * ChunkSize /\ u = (c + 1) * ChunkSize
           /\ v = ((o + n) \div ChunkSize) * ChunkSize
    BY <1>2, <1>3, ChunkingAssumption
  <2>4. QED
    BY <1>1, <1>2, <2>1, <2>2, <2>3
<1>5. PICK x \in Int, y \in Int : x = c * ChunkSize /\ y = (c + 1) * ChunkSize
  BY <1>3, ChunkingAssumption
<1>6. x .. y - 1 \subseteq o .. o + n - 1
  BY <1>1, <1>4, <1>5
<1>7. QED
  BY <1>5, <1>6 DEF BytesOf, BytesIn, o, n

LEMMA MinIn ==
  ASSUME NEW S \in SUBSET Nat, S # {}
  PROVE  Min(S) \in S
<1>1. PICK x \in S : \A y \in S : ~ (<<y, x>> \in OpToRel(<, Nat))
  BY NatLessThanWellFounded, WFMin
<1>2. ASSUME NEW y \in S PROVE x <= y
  <2>1. y < x => <<y, x>> \in OpToRel(<, Nat)
    BY DEF OpToRel
  <2>2. ~ (y < x)
    BY <1>1, <2>1
  <2>3. x \in Nat /\ y \in Nat
    OBVIOUS
  <2>4. QED
    BY <2>2, <2>3
<1>3. QED
  BY <1>2 DEF Min

LEMMA MinOfTwo ==
  ASSUME NEW i \in Int, NEW j \in Int
  PROVE  Min({i, j}) \in Int
<1>1. \E x \in {i, j} : \A y \in {i, j} : x <= y
  <2>1. CASE i <= j
    BY <2>1
  <2>2. CASE j <= i
    BY <2>2
  <2>3. QED
    BY <2>1, <2>2
<1>2. QED
  BY <1>1 DEF Min

----------------------------------------------------------------------------
(* The inductive invariant *)

Rows ==
    /\ DOMAIN file = Paths
    /\ \A p \in Paths : file[p] = None \/ file[p] \in [map : {None, MapOf(p)}, size : Int]
    /\ \A p \in Sources : HasRow(p) => file[p].size = Size[p]

(* What place says is the case: for a download, the bytes are there; for a source they   *)
(* are, as soon as it is padded.                                                         *)
Holds(x, h, on) ==
    \E p \in Sources \cup Downloads :
        /\ x \in [path : {p}, index : ChunksOfPath(p)]
        /\ HashIn(p, x.index) = h
        /\ p \in Downloads => BytesOf(x.index) \subseteq on[p]

Places == \A h \in Hashes : place[h] = None \/ Holds(place[h], h, written)

Disk ==
    /\ padded \subseteq Sources
    /\ DOMAIN written = Downloads
    /\ \A p \in Downloads : written[p] \subseteq BytesOfMap(Map[p])

Fits(c) ==
    /\ c \in [pc : Pcs, path : Paths \cup {None}, offset : Nat, count : Nat, realCount : Int,
              map : {c.map}, parts : {c.parts}]
    /\ c.pc # "idle" => c.path \in Paths /\ c.map \in {None, MapOf(c.path)}
    /\ c.pc \in {"hash", "map", "pad"} => c.path \in Sources
    /\ c.pc = "map" => c.map = MapOf(c.path)

Calls == DOMAIN call = Threads /\ \A t \in Threads : Fits(call[t])

(* The chunks of source p can be found when at says where chunks are. *)
Found(p, at) == \A c \in ChunksOfSource(p) : at[Block[p][c]] # None

MappedIsFound == \A p \in Sources : HasMap(p) => Found(p, place)
PlacedIsFound == \A t \in Threads : At(t, "map") => Found(PathOf(t), place)

Inv == Rows /\ Places /\ Disk /\ Calls /\ MappedIsFound /\ PlacedIsFound

----------------------------------------------------------------------------
(* The properties follow from the invariant *)

LEMMA ChunksAreNat ==
  ASSUME NEW p \in Paths
  PROVE  ChunksOfPath(p) \subseteq Nat
<1>1. CASE p \in Sources
  <2>1. Ceiling(Size[p]) \in Nat
    BY <1>1, FilesAssumption, QuotientBounds
  <2>2. QED
    BY <1>1, <2>1 DEF ChunksOfPath, ChunksOfSource
<1>2. CASE p \notin Sources
  <2>1. IsChunkMap(Map[p])
    BY <1>2, FilesAssumption DEF Paths, Reordered
  <2>2. QED
    BY <1>2, <2>1 DEF IsChunkMap, Chunks, ChunksOfPath
<1>3. QED
  BY <1>1, <1>2

\* A chunk of a source is in the bytes that it has with its padding.
LEMMA ChunkOfSource ==
  ASSUME NEW p \in Sources, NEW c \in ChunksOfSource(p)
  PROVE  BytesOf(c) \subseteq 0 .. Size[p] + Padding(Size[p]) - 1
<1> DEFINE all == Size[p] + Padding(Size[p])
<1>1. Size[p] \in Nat
  BY FilesAssumption
<1>2. all = Ceiling(Size[p]) * ChunkSize /\ Ceiling(Size[p]) \in Nat
  BY <1>1, PaddingFills, QuotientBounds
<1> HIDE DEF all
<1>3. c \in Nat /\ c + 1 <= Ceiling(Size[p])
  BY <1>2 DEF ChunksOfSource
<1>4. PICK x \in Int, y \in Int, z \in Int : /\ x = c * ChunkSize /\ y = (c + 1) * ChunkSize
                                             /\ z = Ceiling(Size[p]) * ChunkSize
  BY <1>2, <1>3, ChunkingAssumption
<1>5. x >= 0 /\ y <= z
  <2>1. 0 * ChunkSize <= c * ChunkSize /\ 0 * ChunkSize = 0
    BY <1>3, Multiples, ChunkingAssumption
  <2>2. (c + 1) * ChunkSize <= Ceiling(Size[p]) * ChunkSize
    BY <1>2, <1>3, Multiples, c + 1 \in Int
  <2>3. QED
    BY <1>4, <2>1, <2>2
<1>6. x .. y - 1 \subseteq 0 .. z - 1
  BY <1>4, <1>5
<1>7. BytesOf(c) = x .. y - 1
  BY <1>4 DEF BytesOf
<1>8. BytesOf(c) \subseteq 0 .. all - 1
  BY <1>2, <1>4, <1>6, <1>7
<1>9. QED
  <2>1. Padding(Size[p]) \in Int /\ all = Size[p] + Padding(Size[p])
    BY <1>1, PaddingFills DEF all
  <2>2. all - 1 = Size[p] + Padding(Size[p]) - 1
    BY <1>1, <2>1
  <2>3. QED
    BY <1>8, <2>2

LEMMA InvType ==
  ASSUME Inv
  PROVE  TypeOK
<1>1. \A h \in Hashes :
        place[h] = None \/ \E p \in Paths : place[h] \in [path : {p}, index : ChunksOfPath(p)]
  BY DEF Inv, Places, Holds, Paths
<1>2. \A t \in Threads :
        /\ call[t].pc \in Pcs
        /\ call[t].path \in Paths \cup {None}
        /\ call[t].offset \in Nat /\ call[t].count \in Nat /\ call[t].realCount \in Int
        /\ ~At(t, "idle") => call[t].map \in {None, MapOf(PathOf(t))}
  BY DEF Inv, Calls, Fits, At, PathOf
<1>3. QED
  BY <1>1, <1>2 DEF Inv, Rows, Disk, TypeOK

LEMMA InvStored ==
  ASSUME Inv
  PROVE  LocatedIsStored
<1> SUFFICES ASSUME NEW h \in Hashes, place[h] # None
             PROVE  LET p == place[h].path
                        c == place[h].index
                    IN  /\ HashIn(p, c) = h
                        /\ \/ BytesOf(c) \subseteq OnDisk(p)
                           \/ /\ p \in Sources \ padded
                              /\ BytesOf(c) \cap 0 .. Size[p] - 1 \subseteq OnDisk(p)
  BY DEF LocatedIsStored
<1>1. PICK p \in Sources \cup Downloads :
        /\ place[h] \in [path : {p}, index : ChunksOfPath(p)]
        /\ HashIn(p, place[h].index) = h
        /\ p \in Downloads => BytesOf(place[h].index) \subseteq written[p]
  BY DEF Inv, Places, Holds
<1> DEFINE c == place[h].index
<1>2. place[h].path = p /\ c \in ChunksOfPath(p)
  BY <1>1
<1> HIDE DEF c
<1>3. CASE p \in Downloads
  <2>1. OnDisk(p) = written[p]
    BY <1>3, FilesAssumption DEF OnDisk, Reordered
  <2>2. QED
    BY <1>1, <1>2, <1>3, <2>1 DEF c
<1>4. CASE p \in Sources /\ p \in padded
  <2>1. OnDisk(p) = 0 .. Size[p] + Padding(Size[p]) - 1
    BY <1>4, FilesAssumption DEF OnDisk, Reordered
  <2>2. BytesOf(c) \subseteq OnDisk(p)
    BY <1>2, <1>4, <2>1, ChunkOfSource DEF ChunksOfPath
  <2>3. QED
    BY <1>1, <1>2, <2>2 DEF c
<1>5. CASE p \in Sources /\ p \notin padded
  <2>1. OnDisk(p) = 0 .. Size[p] - 1
    <3>1. Size[p] \in Nat /\ OnDisk(p) = 0 .. Size[p] + 0 - 1
      BY <1>5, FilesAssumption DEF OnDisk, Reordered
    <3>2. QED
      BY <3>1
  <2>2. QED
    BY <1>1, <1>2, <1>5, <2>1 DEF c
<1>6. QED
  BY <1>3, <1>4, <1>5

LEMMA InvMapped ==
  ASSUME Inv
  PROVE  MappedSourceIsLocatable
<1> SUFFICES ASSUME NEW p \in Sources, HasMap(p)
             PROVE  /\ \A c \in ChunksOfSource(p) : place[Block[p][c]] # None
                    /\ FileSize(file[p].map) = file[p].size <=> Size[p] <= MaxInt
  BY DEF MappedSourceIsLocatable
<1>1. \A c \in ChunksOfSource(p) : place[Block[p][c]] # None
  BY DEF Inv, MappedIsFound, Found
<1>2. file[p].map = BasicMap(Block[p], Size[p]) /\ file[p].size = Size[p]
  BY DEF Inv, Rows, HasMap, HasRow, Paths, MapOf
<1>3. FileSize(file[p].map) = file[p].size <=> Size[p] <= MaxInt
  BY <1>2, BasicMapSize, FilesAssumption
<1>4. QED
  BY <1>1, <1>3

----------------------------------------------------------------------------
(* Every step keeps the invariant *)

LEMMA BlockHash ==
  ASSUME NEW p \in Sources, NEW c \in ChunksOfSource(p)
  PROVE  Block[p][c] \in Hashes
BY FilesAssumption DEF ChunksOfSource

LEMMA IdleFits == Fits(Idle)
BY DEF Fits, Idle, Pcs

\* A thread goes on; chunks that were found still are.
LEMMA CallStep ==
  ASSUME Calls, PlacedIsFound, NEW t \in Threads, NEW R, Fits(R), Goto(t, R),
         R.pc = "map" => Found(R.path, place'),
         \A p \in Sources : Found(p, place) => Found(p, place')
  PROVE  Calls' /\ PlacedIsFound'
<1>1. DOMAIN call = Threads /\ \A u \in Threads : Fits(call[u])
  BY DEF Calls
<1>2. call' = [call EXCEPT ![t] = R]
  BY DEF Goto
<1>3. DOMAIN call' = Threads
  BY <1>1, <1>2
<1>4. ASSUME NEW u \in Threads
      PROVE  Fits(call'[u]) /\ (call'[u].pc = "map" => Found(call'[u].path, place'))
  <2>1. CASE u = t
    <3>1. call'[u] = R
      BY <1>1, <1>2, <2>1
    <3>2. QED
      BY <3>1
  <2>2. CASE u # t
    <3>1. call'[u] = call[u]
      BY <1>1, <1>2, <2>2
    <3>2. call[u].pc = "map" => call[u].path \in Sources /\ Found(call[u].path, place)
      BY <1>1 DEF Fits, PlacedIsFound, At, PathOf
    <3>3. QED
      BY <1>1, <3>1, <3>2
  <2>3. QED
    BY <2>1, <2>2
<1>5. Calls'
  BY <1>3, <1>4 DEF Calls
<1>6. PlacedIsFound'
  BY <1>4 DEF PlacedIsFound, At, PathOf
<1>7. QED
  BY <1>5, <1>6

\* Chunks of a file whose bytes are there are added.
LEMMA PlaceStep ==
  ASSUME Places, NEW p \in Sources \cup Downloads, NEW chunks \in SUBSET ChunksOfPath(p),
         NEW hash, \A c \in chunks : hash[c] = HashIn(p, c),
         p \in Downloads => \A c \in chunks : BytesOf(c) \subseteq written[p],
         place' = WithPlaces(p, chunks, hash), written' = written
  PROVE  /\ Places'
         /\ \A h \in Hashes : place[h] # None => place'[h] # None
         /\ \A c \in chunks : hash[c] \in Hashes => place'[hash[c]] # None
<1> DEFINE at(h) == { c \in chunks : hash[c] = h }
<1>1. chunks \subseteq Nat
  BY ChunksAreNat DEF Paths
<1>2. \A h \in Hashes : place'[h] = IF place[h] = None /\ at(h) # {}
                                    THEN [path |-> p, index |-> Min(at(h))] ELSE place[h]
  BY DEF WithPlaces
<1>3. ASSUME NEW h \in Hashes, at(h) # {}
      PROVE  Min(at(h)) \in chunks /\ hash[Min(at(h))] = h
  <2>1. at(h) \in SUBSET Nat
    BY <1>1
  <2>2. Min(at(h)) \in at(h)
    BY <1>3, <2>1, MinIn
  <2>3. QED
    BY <2>2
<1>4. ASSUME NEW h \in Hashes, place[h] = None, at(h) # {}
      PROVE  place'[h] # None /\ Holds(place'[h], h, written')
  <2>1. PICK m \in chunks : m = Min(at(h)) /\ hash[m] = h
    BY <1>3, <1>4
  <2>2. place'[h] = [path |-> p, index |-> m]
    BY <1>2, <1>4, <2>1
  <2>3. Holds(place'[h], h, written')
    <3>1. place'[h] \in [path : {p}, index : ChunksOfPath(p)] /\ place'[h].index = m
      BY <2>1, <2>2
    <3>2. HashIn(p, m) = h
      BY <2>1
    <3>3. p \in Downloads => BytesOf(m) \subseteq written'[p]
      BY <2>1
    <3>4. QED
      BY <3>1, <3>2, <3>3 DEF Holds
  <2>4. [path |-> p, index |-> m] \in [path : Paths, index : Nat]
    BY <1>1, <2>1 DEF Paths
  <2>5. QED
    BY <2>2, <2>3, <2>4, FilesAssumption
<1>5. \A h \in Hashes : ~(place[h] = None /\ at(h) # {}) => place'[h] = place[h]
  BY <1>2
<1>6. Places'
  <2>1. ASSUME NEW h \in Hashes
        PROVE  place'[h] = None \/ Holds(place'[h], h, written')
    <3>1. CASE place[h] = None /\ at(h) # {}
      BY <1>4, <3>1
    <3>2. CASE ~(place[h] = None /\ at(h) # {})
      BY <1>5, <3>2 DEF Places
    <3>3. QED
      BY <3>1, <3>2
  <2>2. QED
    BY <2>1 DEF Places
<1>7. \A h \in Hashes : place[h] # None => place'[h] # None
  BY <1>5
<1>8. ASSUME NEW c \in chunks, hash[c] \in Hashes
      PROVE  place'[hash[c]] # None
  <2>1. at(hash[c]) # {}
    OBVIOUS
  <2>2. QED
    BY <1>4, <1>5, <1>8, <2>1
<1>9. QED
  BY <1>6, <1>7, <1>8

\* A step of one thread that leaves the tables and the disk alone.
LEMMA CallOnly ==
  ASSUME Inv, NEW t \in Threads, NEW R, Fits(R), R.pc # "map", Goto(t, R),
         UNCHANGED <<file, place, padded, written>>
  PROVE  Inv'
<1>1. Calls' /\ PlacedIsFound'
  BY CallStep DEF Inv
<1>2. Rows' /\ Places' /\ Disk' /\ MappedIsFound'
  BY DEF Inv, Rows, Places, Disk, MappedIsFound, HasMap, HasRow
<1>3. QED
  BY <1>1, <1>2 DEF Inv

LEMMA ThrowsInv ==
  ASSUME Inv, NEW t \in Threads, Throws(t)
  PROVE  Inv'
<1>1. Goto(t, Idle) /\ UNCHANGED <<file, place, padded, written>>
  BY DEF Throws
<1>2. Idle.pc # "map"
  BY DEF Idle
<1>3. QED
  BY <1>1, <1>2, IdleFits, CallOnly

LEMMA RequestFits ==
  ASSUME NEW pc \in {"indices", "places"}, NEW p \in Paths, NEW r \in [offset : Nat, count : Nat]
  PROVE  /\ Fits(Request(pc, p, r))
         /\ Request(pc, p, r).pc = pc /\ Request(pc, p, r).path = p
<1> DEFINE R == Request(pc, p, r)
<1>1. Fits(Idle) /\ Idle.map = None
  BY IdleFits DEF Idle
<1>2. R = [Idle EXCEPT !.pc = pc, !.path = p, !.offset = r.offset, !.count = r.count]
  BY DEF Request
<1>3. /\ R.pc = pc /\ R.path = p /\ R.map = None
      /\ R \in [pc : Pcs, path : Paths \cup {None}, offset : Nat, count : Nat, realCount : Int,
                map : {R.map}, parts : {R.parts}]
  BY <1>1, <1>2 DEF Fits, Pcs
<1> HIDE DEF R
<1>4. Fits(R)
  BY <1>3 DEF Fits
<1>5. QED
  BY <1>3, <1>4 DEF R

LEMMA InitInv ==
  ASSUME Init
  PROVE  Inv
<1>1. Rows
  BY DEF Init, Rows, HasRow, Paths
<1>2. Places
  BY DEF Init, Places
<1>3. Disk
  BY DEF Init, Disk
<1>4. Calls
  BY IdleFits DEF Init, Calls
<1>5. MappedIsFound
  BY DEF Init, MappedIsFound, HasMap, HasRow, Paths
<1>6. PlacedIsFound
  BY DEF Init, PlacedIsFound, At, Idle
<1>7. QED
  BY <1>1, <1>2, <1>3, <1>4, <1>5, <1>6 DEF Inv

\* A row is stored or changed.
LEMMA RowStep ==
  ASSUME Rows, MappedIsFound, NEW p \in Paths,
         NEW row \in [map : {None, MapOf(p)}, size : Int],
         p \in Sources => row.size = Size[p],
         p \in Sources /\ row.map # None => Found(p, place),
         file' = [file EXCEPT ![p] = row], place' = place
  PROVE  Rows' /\ MappedIsFound'
<1>1. DOMAIN file = Paths /\ DOMAIN file' = Paths
  BY DEF Rows
<1>2. file'[p] = row /\ \A q \in Paths : q # p => file'[q] = file[q]
  BY <1>1
<1>3. Rows'
  <2>1. \A q \in Paths : file'[q] = None \/ file'[q] \in [map : {None, MapOf(q)}, size : Int]
    BY <1>2 DEF Rows
  <2>2. \A q \in Sources : file'[q] # None => file'[q].size = Size[q]
    BY <1>2 DEF Rows, HasRow, Paths
  <2>3. QED
    BY <1>1, <2>1, <2>2 DEF Rows, HasRow
<1>4. MappedIsFound'
  BY <1>2 DEF MappedIsFound, HasMap, HasRow, Paths
<1>5. QED
  BY <1>3, <1>4

LEMMA CreateFileInv ==
  ASSUME Inv, NEW t \in Threads, NEW p \in Sources, CreateFile(t, p)
  PROVE  Inv'
<1> DEFINE row == [map |-> None, size |-> Size[p]]
<1> DEFINE R == [Idle EXCEPT !.pc = "hash", !.path = p]
<1>1. /\ file' = [file EXCEPT ![p] = row] /\ Goto(t, R)
      /\ UNCHANGED <<place, padded, written>>
  BY DEF CreateFile
<1>2. p \in Paths /\ Size[p] \in Nat
  BY FilesAssumption DEF Paths
<1>3. row \in [map : {None, MapOf(p)}, size : Int] /\ row.size = Size[p] /\ row.map = None
  BY <1>2
<1>4. Fits(R) /\ R.pc # "map"
  <2>1. Fits(Idle) /\ Idle.map = None
    BY IdleFits DEF Idle
  <2>2. /\ R.pc = "hash" /\ R.path = p /\ R.map = None
        /\ R \in [pc : Pcs, path : Paths \cup {None}, offset : Nat, count : Nat, realCount : Int,
                  map : {R.map}, parts : {R.parts}]
    BY <1>2, <2>1 DEF Fits, Pcs
  <2> HIDE DEF R
  <2>3. QED
    BY <1>2, <2>2 DEF Fits
<1> HIDE DEF row, R
<1>5. Rows' /\ MappedIsFound'
  BY <1>1, <1>2, <1>3, RowStep DEF Inv
<1>6. Calls' /\ PlacedIsFound'
  BY <1>1, <1>4, CallStep DEF Inv
<1>7. Places' /\ Disk'
  BY <1>1 DEF Inv, Places, Disk
<1>8. QED
  BY <1>5, <1>6, <1>7 DEF Inv

LEMMA StoreChunksInv ==
  ASSUME Inv, NEW t \in Threads, StoreChunks(t)
  PROVE  Inv'
<1> DEFINE p == PathOf(t)
<1> DEFINE R == [call[t] EXCEPT !.pc = "map", !.map = BasicMap(Block[p], Size[p])]
<1>1. /\ place' = WithPlaces(p, ChunksOfSource(p), Block[p]) /\ Goto(t, R)
      /\ UNCHANGED <<file, padded, written>>
  BY DEF StoreChunks
<1>2. Fits(call[t]) /\ p \in Sources
  BY DEF Inv, Calls, Fits, StoreChunks, At, PathOf
<1>3. Fits(R) /\ R.path = p
  <2>1. BasicMap(Block[p], Size[p]) = MapOf(p)
    BY <1>2 DEF MapOf
  <2>2. QED
    BY <1>2, <2>1 DEF Fits, Pcs, Paths, PathOf
<1> HIDE DEF p, R
<1>4. ChunksOfPath(p) = ChunksOfSource(p) /\ \A c \in ChunksOfSource(p) : Block[p][c] = HashIn(p, c)
  BY <1>2 DEF ChunksOfPath, HashIn
<1>5. p \notin Downloads
  BY <1>2, FilesAssumption DEF Reordered
<1>6. /\ Places'
      /\ \A h \in Hashes : place[h] # None => place'[h] # None
      /\ \A c \in ChunksOfSource(p) : Block[p][c] \in Hashes => place'[Block[p][c]] # None
  <2>1. Places /\ written' = written /\ place' = WithPlaces(p, ChunksOfSource(p), Block[p])
    BY <1>1 DEF Inv
  <2>2. p \in Sources \cup Downloads /\ ChunksOfSource(p) \in SUBSET ChunksOfPath(p)
    BY <1>2, <1>4
  <2>3. \A c \in ChunksOfSource(p) : Block[p][c] = HashIn(p, c)
    BY <1>4
  <2>4. QED
    BY <1>5, <2>1, <2>2, <2>3, PlaceStep
<1>7. Found(p, place') /\ \A q \in Sources : Found(q, place) => Found(q, place')
  BY <1>2, <1>6, BlockHash DEF Found
<1>8. Calls' /\ PlacedIsFound'
  BY <1>1, <1>3, <1>7, CallStep DEF Inv
<1>9. Rows' /\ Disk' /\ MappedIsFound'
  BY <1>1, <1>7 DEF Inv, Rows, Disk, MappedIsFound, HasMap, HasRow
<1>10. QED
  BY <1>6, <1>8, <1>9 DEF Inv

LEMMA StoreMapInv ==
  ASSUME Inv, NEW t \in Threads, StoreMap(t)
  PROVE  Inv'
<1> DEFINE p == PathOf(t)
<1> DEFINE row == [file[p] EXCEPT !.map = call[t].map]
<1> DEFINE R == [call[t] EXCEPT !.pc = "pad"]
<1>1. /\ file' = [file EXCEPT ![p] = row] /\ Goto(t, R) /\ At(t, "map") /\ HasRow(p)
      /\ UNCHANGED <<place, padded, written>>
  BY DEF StoreMap
<1>2. Fits(call[t]) /\ p \in Sources /\ call[t].map = MapOf(p) /\ Found(p, place)
  BY <1>1 DEF Inv, Calls, Fits, At, PathOf, PlacedIsFound
<1>3. p \in Paths
  BY <1>2 DEF Paths
<1>4. row \in [map : {None, MapOf(p)}, size : Int] /\ row.size = Size[p]
  BY <1>1, <1>2, <1>3 DEF Inv, Rows, HasRow
<1>5. Fits(R) /\ R.pc # "map"
  BY <1>2, <1>3 DEF Fits, Pcs, PathOf
<1> HIDE DEF p, row, R
<1>6. Rows' /\ MappedIsFound'
  BY <1>1, <1>2, <1>3, <1>4, RowStep DEF Inv
<1>7. Calls' /\ PlacedIsFound'
  BY <1>1, <1>5, CallStep DEF Inv
<1>8. Places' /\ Disk'
  BY <1>1 DEF Inv, Places, Disk
<1>9. QED
  BY <1>6, <1>7, <1>8 DEF Inv

LEMMA PadFileInv ==
  ASSUME Inv, NEW t \in Threads, PadFile(t)
  PROVE  Inv'
<1>1. padded' = padded \cup {PathOf(t)} /\ Goto(t, Idle) /\ UNCHANGED <<file, place, written>>
  BY DEF PadFile
<1>2. PathOf(t) \in Sources
  BY DEF Inv, Calls, Fits, PadFile, At, PathOf
<1>3. Idle.pc # "map"
  BY DEF Idle
<1>4. Calls' /\ PlacedIsFound'
  BY <1>1, <1>3, IdleFits, CallStep DEF Inv
<1>5. Rows' /\ Places' /\ Disk' /\ MappedIsFound'
  BY <1>1, <1>2 DEF Inv, Rows, Places, Disk, MappedIsFound, HasMap, HasRow
<1>6. QED
  BY <1>4, <1>5 DEF Inv

\* Virtual files and downloads are not sources: what is stored of them has no bearing on those.
LEMMA ReorderedInv ==
  ASSUME Inv, NEW p \in Reordered, NEW size \in Int,
         file' = [file EXCEPT ![p] = [map |-> Map[p], size |-> size]],
         UNCHANGED <<place, padded, written, call>>
  PROVE  Inv'
<1>1. p \in Paths /\ p \notin Sources
  BY FilesAssumption DEF Paths, Reordered
<1>2. [map |-> Map[p], size |-> size] \in [map : {None, MapOf(p)}, size : Int]
  BY <1>1 DEF MapOf
<1>3. Rows' /\ MappedIsFound'
  BY <1>1, <1>2, RowStep DEF Inv
<1>4. Places' /\ Disk' /\ Calls' /\ PlacedIsFound'
  BY DEF Inv, Places, Disk, Calls, PlacedIsFound, At, PathOf
<1>5. QED
  BY <1>3, <1>4 DEF Inv

LEMMA MapSize ==
  ASSUME NEW p \in Reordered
  PROVE  FileSize(Map[p]) \in Int /\ Cardinality(Chunks(Map[p])) * ChunkSize \in Int
<1> DEFINE n == Cardinality(Chunks(Map[p]))
<1>1. IsChunkMap(Map[p]) /\ ChunkSize \in Nat
  BY FilesAssumption, ChunkingAssumption
<1>2. n \in Nat /\ Map[p].eofSize \in Int
  BY <1>1 DEF IsChunkMap
<1>3. n * ChunkSize \in Int /\ ChunkSize * (n - 1) \in Int
  BY <1>1, <1>2
<1>4. FileSize(Map[p]) = ToInt(ToInt(ChunkSize * (n - 1)) + Map[p].eofSize)
  BY DEF FileSize
<1>5. ToInt(ChunkSize * (n - 1)) + Map[p].eofSize \in Int
  BY <1>2, <1>3, ToIntType
<1>6. QED
  BY <1>3, <1>4, <1>5, ToIntType

LEMMA AddFileInv ==
  ASSUME Inv, NEW p \in Virtuals, AddFile(p)
  PROVE  Inv'
<1>1. p \in Reordered
  BY DEF Reordered
<1>2. FileSize(Map[p]) \in Int
  BY <1>1, MapSize
<1>3. QED
  BY <1>1, <1>2, ReorderedInv DEF AddFile

LEMMA AddFileToDownloadInv ==
  ASSUME Inv, NEW p \in Downloads, AddFileToDownload(p)
  PROVE  Inv'
<1>1. p \in Reordered
  BY DEF Reordered
<1>2. Cardinality(Chunks(Map[p])) * ChunkSize \in Int
  BY <1>1, MapSize
<1>3. QED
  BY <1>1, <1>2, ReorderedInv DEF AddFileToDownload

LEMMA WritePartInv ==
  ASSUME Inv, NEW p \in Downloads, NEW r \in Parts, WritePart(p, r)
  PROVE  Inv'
<1>1. /\ BytesIn(r) \subseteq BytesOfMap(Map[p])
      /\ written' = [written EXCEPT ![p] = written[p] \cup BytesIn(r)]
      /\ UNCHANGED <<file, place, padded, call>>
  BY DEF WritePart
<1>2. DOMAIN written = Downloads /\ DOMAIN written' = Downloads
  BY <1>1 DEF Inv, Disk
<1>3. \A q \in Downloads : written[q] \subseteq written'[q]
  BY <1>1, <1>2
<1>4. Disk'
  <2>1. \A q \in Downloads : written'[q] \subseteq BytesOfMap(Map[q])
    BY <1>1, <1>2 DEF Inv, Disk
  <2>2. QED
    BY <1>1, <1>2, <2>1 DEF Inv, Disk
<1>5. Places'
  <2>1. \A x, h : Holds(x, h, written) => Holds(x, h, written')
    BY <1>3 DEF Holds
  <2>2. QED
    BY <1>1, <2>1 DEF Inv, Places
<1>6. Rows' /\ Calls' /\ MappedIsFound' /\ PlacedIsFound'
  BY <1>1 DEF Inv, Rows, Calls, MappedIsFound, PlacedIsFound, HasMap, HasRow, At, PathOf
<1>7. QED
  BY <1>4, <1>5, <1>6 DEF Inv

LEMMA RegisterFilePartInv ==
  ASSUME Inv, NEW p \in Downloads, NEW r \in Parts, RegisterFilePart(p, r)
  PROVE  Inv'
<1> DEFINE chunks == WholeChunks(r.offset, r.count)
<1> DEFINE map == file[p].map
<1>1. /\ BytesIn(r) \subseteq written[p] /\ chunks \subseteq Chunks(map)
      /\ place' = WithPlaces(p, chunks, map.hash) /\ UNCHANGED <<file, padded, written, call>>
  BY DEF RegisterFilePart
<1>2. p \in Paths /\ p \notin Sources /\ p \in Reordered
  BY FilesAssumption DEF Paths, Reordered
<1>3. map = Map[p]
  BY <1>2 DEF Inv, Rows, RegisterFilePart, HasMap, HasRow, MapOf
<1>4. ChunksOfPath(p) = Chunks(map) /\ \A c \in chunks : map.hash[c] = HashIn(p, c)
  BY <1>2, <1>3 DEF ChunksOfPath, HashIn
<1>5. \A c \in chunks : BytesOf(c) \subseteq written[p]
  BY <1>1, WholeInRange, FilesAssumption
<1> HIDE DEF chunks, map
<1>6. Places' /\ \A h \in Hashes : place[h] # None => place'[h] # None
  <2>1. Places /\ written' = written /\ place' = WithPlaces(p, chunks, map.hash)
    BY <1>1 DEF Inv
  <2>2. p \in Sources \cup Downloads /\ chunks \in SUBSET ChunksOfPath(p)
    BY <1>1, <1>4
  <2>3. QED
    BY <1>4, <1>5, <2>1, <2>2, PlaceStep
<1>7. \A q \in Sources : Found(q, place) => Found(q, place')
  BY <1>6, BlockHash DEF Found
<1>8. Rows' /\ Disk' /\ Calls' /\ MappedIsFound' /\ PlacedIsFound'
  <2>1. PlacedIsFound'
    BY <1>1, <1>7 DEF Inv, Calls, Fits, PlacedIsFound, At, PathOf
  <2>2. QED
    BY <1>1, <1>7, <2>1 DEF Inv, Rows, Disk, Calls, MappedIsFound, HasMap, HasRow
<1>9. QED
  BY <1>6, <1>8 DEF Inv

LEMMA ClipToSizeInv ==
  ASSUME Inv, NEW t \in Threads, NEW p \in Paths, NEW r \in Ranges, ClipToSize(t, p, r)
  PROVE  Inv'
<1> DEFINE k == Min({ToInt(file[p].size - r.offset), r.count})
<1> DEFINE A == Request("indices", p, r)
<1> DEFINE R == [A EXCEPT !.realCount = k]
<1>1. Goto(t, R) /\ UNCHANGED <<file, place, padded, written>>
  BY DEF ClipToSize
<1>2. r \in [offset : Nat, count : Nat]
  BY FilesAssumption
<1>3. k \in Int
  <2>1. file[p].size \in Int
    BY DEF Inv, Rows, ClipToSize, HasRow
  <2>2. ToInt(file[p].size - r.offset) \in Int
    BY <1>2, <2>1, ToIntType
  <2>3. QED
    BY <1>2, <2>2, MinOfTwo
<1>4. Fits(A) /\ A.pc = "indices"
  BY <1>2, RequestFits
<1> HIDE DEF k, A
<1>5. Fits(R) /\ R.pc # "map"
  BY <1>3, <1>4 DEF Fits
<1> HIDE DEF R
<1>6. QED
  BY <1>1, <1>5, CallOnly

LEMMA GetChunkIndicesInv ==
  ASSUME Inv, NEW t \in Threads, GetChunkIndices(t)
  PROVE  Inv'
<1> DEFINE c == call[t]
<1> DEFINE map == file[c.path].map
<1> DEFINE R == [c EXCEPT !.pc = "mapped", !.map = map, !.parts = PartsOf(c, map)]
<1>1. \/ HasMap(c.path) /\ Goto(t, R) /\ UNCHANGED <<file, place, padded, written>>
      \/ Throws(t)
  BY DEF GetChunkIndices
<1>2. CASE HasMap(c.path) /\ Goto(t, R) /\ UNCHANGED <<file, place, padded, written>>
  <2>1. Fits(c) /\ c.path \in Paths
    BY DEF Inv, Calls, Fits, GetChunkIndices, At
  <2>2. map \in {None, MapOf(c.path)}
    BY <1>2, <2>1 DEF Inv, Rows, HasMap, HasRow
  <2> HIDE DEF map
  <2>3. Fits(R) /\ R.pc # "map"
    BY <2>1, <2>2 DEF Fits, Pcs
  <2> HIDE DEF R
  <2>4. QED
    BY <1>2, <2>3, CallOnly
<1>3. CASE Throws(t)
  BY <1>3, ThrowsInv
<1>4. QED
  BY <1>1, <1>2, <1>3

LEMMA GetRowInv ==
  ASSUME Inv, NEW t \in Threads, NEW p \in Reordered, NEW r \in Ranges, GetRow(t, p, r)
  PROVE  Inv'
<1> DEFINE A == Request("places", p, r)
<1> DEFINE R == [A EXCEPT !.map = file[p].map]
<1>1. HasMap(p) /\ Goto(t, R) /\ UNCHANGED <<file, place, padded, written>>
  BY DEF GetRow
<1>2. p \in Paths /\ r \in [offset : Nat, count : Nat]
  BY FilesAssumption DEF Paths, Reordered
<1>3. file[p].map \in {None, MapOf(p)}
  BY <1>1, <1>2 DEF Inv, Rows, HasMap, HasRow
<1>4. Fits(A) /\ A.pc = "places" /\ A.path = p
  BY <1>2, RequestFits
<1> HIDE DEF A
<1>5. Fits(R) /\ R.pc # "map"
  BY <1>2, <1>3, <1>4 DEF Fits
<1> HIDE DEF R
<1>6. QED
  BY <1>1, <1>5, CallOnly

LEMMA GetChunkLocationsInv ==
  ASSUME Inv, NEW t \in Threads, GetChunkLocations(t)
  PROVE  Inv'
<1> DEFINE c == call[t]
<1> DEFINE R == [c EXCEPT !.pc = "located", !.parts = PlacesOf(c)]
<1>1. \/ Goto(t, R) /\ UNCHANGED <<file, place, padded, written>>
      \/ Throws(t)
  BY DEF GetChunkLocations
<1>2. CASE Goto(t, R) /\ UNCHANGED <<file, place, padded, written>>
  <2>1. Fits(c) /\ c.pc = "places"
    BY DEF Inv, Calls, GetChunkLocations, At
  <2>2. Fits(R) /\ R.pc # "map"
    BY <2>1 DEF Fits, Pcs
  <2> HIDE DEF R
  <2>3. QED
    BY <1>2, <2>2, CallOnly
<1>3. CASE Throws(t)
  BY <1>3, ThrowsInv
<1>4. QED
  BY <1>1, <1>2, <1>3

LEMMA CrashInv ==
  ASSUME Inv, Crash
  PROVE  Inv'
<1>1. call' = [t \in Threads |-> Idle] /\ UNCHANGED <<file, place, padded, written>>
  BY DEF Crash
<1>2. Calls' /\ PlacedIsFound'
  BY <1>1, IdleFits DEF Calls, PlacedIsFound, At, Idle
<1>3. Rows' /\ Places' /\ Disk' /\ MappedIsFound'
  BY <1>1 DEF Inv, Rows, Places, Disk, MappedIsFound, HasMap, HasRow
<1>4. QED
  BY <1>2, <1>3 DEF Inv

LEMMA NextInv ==
  ASSUME Inv, [Next]_vars
  PROVE  Inv'
<1>1. CASE UNCHANGED vars
  <2>1. UNCHANGED <<file, place, padded, written, call>>
    BY <1>1 DEF vars
  <2>2. QED
    BY <2>1 DEF Inv, Rows, Places, Disk, Calls, MappedIsFound, PlacedIsFound, HasMap, HasRow,
                At, PathOf
<1>2. ASSUME NEW t \in Threads, NEW p \in Sources, CreateFile(t, p) PROVE Inv'
  BY <1>2, CreateFileInv
<1>3. ASSUME NEW t \in Threads, NEW p \in Paths, NEW r \in Ranges, ClipToSize(t, p, r) PROVE Inv'
  BY <1>3, ClipToSizeInv
<1>4. ASSUME NEW t \in Threads, NEW p \in Reordered, NEW r \in Ranges, GetRow(t, p, r) PROVE Inv'
  BY <1>4, GetRowInv
<1>5. ASSUME NEW t \in Threads, StoreChunks(t) PROVE Inv'
  BY <1>5, StoreChunksInv
<1>6. ASSUME NEW t \in Threads, StoreMap(t) PROVE Inv'
  BY <1>6, StoreMapInv
<1>7. ASSUME NEW t \in Threads, PadFile(t) PROVE Inv'
  BY <1>7, PadFileInv
<1>8. ASSUME NEW t \in Threads, GetChunkIndices(t) PROVE Inv'
  BY <1>8, GetChunkIndicesInv
<1>9. ASSUME NEW t \in Threads, GetChunkLocations(t) PROVE Inv'
  BY <1>9, GetChunkLocationsInv
<1>10. ASSUME NEW t \in Threads, LeaveWithoutMap(t) \/ TakeAnswer(t) \/ Fail(t) PROVE Inv'
  BY <1>10, ThrowsInv DEF LeaveWithoutMap, TakeAnswer, Fail, Throws
<1>11. ASSUME NEW p \in Virtuals, AddFile(p) PROVE Inv'
  BY <1>11, AddFileInv
<1>12. ASSUME NEW p \in Downloads, AddFileToDownload(p) PROVE Inv'
  BY <1>12, AddFileToDownloadInv
<1>13. ASSUME NEW p \in Downloads, NEW r \in Parts, WritePart(p, r) PROVE Inv'
  BY <1>13, WritePartInv
<1>14. ASSUME NEW p \in Downloads, NEW r \in Parts, RegisterFilePart(p, r) PROVE Inv'
  BY <1>14, RegisterFilePartInv
<1>15. CASE Crash
  BY <1>15, CrashInv
<1>16. QED
  BY <1>1, <1>2, <1>3, <1>4, <1>5, <1>6, <1>7, <1>8, <1>9, <1>10, <1>11, <1>12, <1>13, <1>14, <1>15
     DEF Next

----------------------------------------------------------------------------
\* The invariant holds of every behaviour, with any number of threads and files.
THEOREM Invariance == Spec => []Inv
<1>1. Init => Inv
  BY InitInv
<1>2. Inv /\ [Next]_vars => Inv'
  BY NextInv
<1>3. QED
  BY <1>1, <1>2, PTL DEF Spec

\* Rows, places and calls keep their types: places are in files that are known to the model.
THEOREM TypeCorrect == Spec => []TypeOK
<1>1. Inv => TypeOK
  BY InvType
<1>2. QED
  BY <1>1, Invariance, PTL

\* Whatever fails or is interrupted, the place that the database has for a hash is one
\* where a chunk with that hash is stored as a whole, but for padding still to be written.
THEOREM PlacesAreTrue == Spec => []LocatedIsStored
<1>1. Inv => LocatedIsStored
  BY InvStored
<1>2. QED
  BY <1>1, Invariance, PTL

\* A source that has its map can be read through the places of its chunks, and its map
\* tells its size.
THEOREM MappedSourcesCanBeRead == Spec => []MappedSourceIsLocatable
<1>1. Inv => MappedSourceIsLocatable
  BY InvMapped
<1>2. QED
  BY <1>1, Invariance, PTL
==============================================================================
