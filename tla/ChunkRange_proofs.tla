------------------------- MODULE ChunkRange_proofs -------------------------
(***************************************************************************)
(* What a range of a file is mapped to is that range, byte for byte: for   *)
(* any files, chunk maps, sizes of chunks and ranges.                      *)
(***************************************************************************)
EXTENDS ChunkDb_proofs, SequenceTheorems

----------------------------------------------------------------------------
(* Sequences, one behind the other *)

LEMMA NatSets ==
  ASSUME NEW S, 0 \in S, \A n \in Nat : n \in S => n + 1 \in S
  PROVE  Nat \subseteq S
<1> DEFINE T == Nat \ S
<1> SUFFICES ASSUME T # {} PROVE FALSE
  OBVIOUS
<1>1. PICK x \in T : \A y \in T : ~ (<<y, x>> \in OpToRel(<, Nat))
  BY NatLessThanWellFounded, WFMin, T \subseteq Nat
<1>2. x # 0 /\ x \in Nat /\ x \notin S
  OBVIOUS
<1>3. x - 1 \in Nat /\ (x - 1) + 1 = x
  BY <1>2
<1>4. x - 1 \in T => <<x - 1, x>> \in OpToRel(<, Nat)
  BY <1>2, <1>3 DEF OpToRel
<1>5. x - 1 \notin T
  BY <1>1, <1>4
<1>6. QED
  BY <1>2, <1>3, <1>5

LEMMA TupleIsSeq ==
  ASSUME NEW X, NEW n \in Nat, NEW f \in [1 .. n -> X]
  PROVE  f \in Seq(X) /\ Len(f) = n
<1>1. f \in Seq(X)
  BY SeqDef
<1>2. Len(f) \in Nat /\ 1 .. Len(f) = 1 .. n
  BY <1>1, LenProperties
<1>3. QED
  BY <1>1, <1>2

Flatten(s) == CHOOSE f : f = [i \in 1 .. Len(s) |-> IF i = 1 THEN s[i] ELSE f[i - 1] \o s[i]]

LEMMA FlattenSeqIs ==
  ASSUME NEW s, Len(s) # 0
  PROVE  FlattenSeq(s) = Flatten(s)[Len(s)]
BY DEF FlattenSeq, Flatten

LEMMA CutsGrow ==
  ASSUME NEW m \in Nat \ {0}, NEW cut \in [0 .. m -> Int], cut[0] = 0,
         \A i \in 1 .. m : cut[i - 1] <= cut[i]
  PROVE  \A i \in 0 .. m : cut[i] \in Nat /\ cut[i] <= cut[m]
<1> DEFINE Up == { n \in Nat : n <= m => cut[n] >= 0 }
<1> DEFINE Down == { n \in Nat : n <= m => cut[m - n] <= cut[m] }
<1>1. Nat \subseteq Up
  <2>1. 0 \in Up
    OBVIOUS
  <2>2. ASSUME NEW n \in Nat, n \in Up PROVE n + 1 \in Up
    <3>1. ASSUME n + 1 <= m PROVE cut[n + 1] >= 0
      <4>1. PICK j \in 1 .. m : j = n + 1 /\ j - 1 = n
        BY <3>1
      <4>2. cut[n] >= 0 /\ cut[n] \in Int /\ cut[j] \in Int /\ cut[n] <= cut[j]
        BY <2>2, <4>1
      <4>3. QED
        BY <4>1, <4>2
    <3>2. QED
      BY <3>1
  <2> HIDE DEF Up
  <2>3. QED
    BY <2>1, <2>2, NatSets
<1>2. Nat \subseteq Down
  <2>1. 0 \in Down
    BY m - 0 = m
  <2>2. ASSUME NEW n \in Nat, n \in Down PROVE n + 1 \in Down
    <3>1. ASSUME n + 1 <= m PROVE cut[m - (n + 1)] <= cut[m]
      <4>1. PICK j \in 1 .. m : j = m - n /\ j - 1 = m - (n + 1)
        BY <3>1
      <4>2. cut[j - 1] \in Int /\ cut[j] \in Int /\ cut[m] \in Int /\ cut[j - 1] <= cut[j] /\ cut[j] <= cut[m]
        BY <2>2, <4>1
      <4>3. QED
        BY <4>1, <4>2
    <3>2. QED
      BY <3>1
  <2> HIDE DEF Down
  <2>3. QED
    BY <2>1, <2>2, NatSets
<1>3. ASSUME NEW i \in 0 .. m PROVE cut[i] \in Nat /\ cut[i] <= cut[m]
  <2>1. cut[i] >= 0
    BY <1>1
  <2>2. PICK n \in Nat : n = m - i /\ n <= m /\ m - n = i
    OBVIOUS
  <2>3. cut[m - n] <= cut[m]
    BY <1>2, <2>2
  <2>4. QED
    BY <2>1, <2>2, <2>3
<1>4. QED
  BY <1>3

\* The sequences in s, put one behind the other, are all, when the i-th is what all has
\* from cut[i - 1] to cut[i].
IsCut(X, m, s, all, cut) ==
  /\ m \in Nat \ {0} /\ s \in Seq(Seq(X)) /\ Len(s) = m /\ all \in Seq(X)
  /\ cut \in [0 .. m -> Int] /\ cut[0] = 0 /\ cut[m] = Len(all)
  /\ \A i \in 1 .. m :
        /\ cut[i] = cut[i - 1] + Len(s[i])
        /\ \A k \in 1 .. Len(s[i]) : s[i][k] = all[cut[i - 1] + k]

LEMMA FlattenIs ==
  ASSUME NEW X, NEW m, NEW s, NEW all, NEW cut, IsCut(X, m, s, all, cut)
  PROVE  FlattenSeq(s) = all
<1>p. /\ m \in Nat \ {0} /\ s \in Seq(Seq(X)) /\ Len(s) = m /\ all \in Seq(X)
      /\ cut \in [0 .. m -> Int] /\ cut[0] = 0 /\ cut[m] = Len(all)
  BY DEF IsCut
<1>c. ASSUME NEW i \in 1 .. m
      PROVE  /\ cut[i] = cut[i - 1] + Len(s[i])
             /\ \A k \in 1 .. Len(s[i]) : s[i][k] = all[cut[i - 1] + k]
  BY DEF IsCut
<1> USE <1>p
<1> DEFINE F == [i \in 1 .. m |-> SubSeq(all, 1, cut[i])]
<1>a. /\ Len(all) \in Nat /\ DOMAIN all = 1 .. Len(all)
      /\ \A k \in 1 .. Len(all) : all[k] \in X
  BY LenProperties, ElementOfSeq
<1>b. \A i \in 0 .. m : cut[i] \in Nat /\ cut[i] <= Len(all)
  <2>1. ASSUME NEW i \in 1 .. m PROVE cut[i - 1] <= cut[i]
    <3>1. s[i] \in Seq(X)
      BY ElementOfSeq
    <3>2. Len(s[i]) \in Nat /\ cut[i] = cut[i - 1] + Len(s[i])
      BY <1>c, <3>1, LenProperties
    <3>3. cut[i - 1] \in Int /\ cut[i] \in Int
      BY i - 1 \in 0 .. m
    <3>4. QED
      BY <3>2, <3>3
  <2>2. QED
    BY <2>1, CutsGrow
<1>0. ASSUME NEW i \in 1 .. m
      PROVE  F[i] \in Seq(X) /\ Len(F[i]) = cut[i] /\ \A k \in 1 .. cut[i] : F[i][k] = all[k]
  <2>1. cut[i] \in Nat /\ cut[i] <= Len(all)
    BY <1>b
  <2>2. \A k \in 1 .. cut[i] : all[k] \in X
    BY <1>a, <2>1
  <2>3. PICK n \in Nat : n = cut[i]
    BY <2>1
  <2>4. /\ SubSeq(all, 1, n) \in Seq(X)
        /\ Len(SubSeq(all, 1, n)) = IF 1 <= n THEN n - 1 + 1 ELSE 0
        /\ \A k \in 1 .. n - 1 + 1 : SubSeq(all, 1, n)[k] = all[1 + k - 1]
    BY <2>2, <2>3, SubSeqProperties
  <2>5. QED
    BY <2>3, <2>4
<1>1. ASSUME NEW i \in 1 .. m
      PROVE  F[i] = IF i = 1 THEN s[i] ELSE F[i - 1] \o s[i]
  <2>1. F[i] \in Seq(X) /\ Len(F[i]) = cut[i] /\ \A k \in 1 .. cut[i] : F[i][k] = all[k]
    BY <1>0
  <2>2. s[i] \in Seq(X)
    BY ElementOfSeq
  <2>3. /\ cut[i] = cut[i - 1] + Len(s[i]) /\ cut[i - 1] \in Nat /\ cut[i] \in Nat /\ Len(s[i]) \in Nat
        /\ \A k \in 1 .. Len(s[i]) : s[i][k] = all[cut[i - 1] + k]
    BY <1>b, <1>c, <2>2, LenProperties, i - 1 \in 0 .. m
  <2>4. CASE i = 1
    <3>1. Len(s[i]) = cut[i] /\ \A k \in 1 .. Len(s[i]) : s[i][k] = all[k]
      <4>1. cut[i - 1] = 0
        BY <2>4, i - 1 = 0
      <4>2. \A k \in 1 .. Len(s[i]) : cut[i - 1] + k = k
        BY <2>3, <4>1
      <4>3. QED
        BY <2>3, <4>1, <4>2
    <3>2. F[i] = s[i]
      BY <2>1, <2>2, <3>1, SeqEqual
    <3>3. QED
      BY <2>4, <3>2
  <2>5. CASE i # 1
    <3>1. PICK h \in 1 .. m : h = i - 1
      BY <2>5
    <3>2. PICK p \in Seq(X), u \in Seq(X) : p = F[h] /\ u = s[i]
      BY <1>0, <2>2
    <3>3. PICK a \in Nat, b \in Nat : a = cut[h] /\ b = cut[i]
      BY <2>3, <3>1
    <3>4. Len(p) = a /\ \A k \in 1 .. a : p[k] = all[k]
      BY <1>0, <3>2, <3>3
    <3>5. Len(u) \in Nat /\ b = a + Len(u) /\ \A k \in 1 .. Len(u) : u[k] = all[a + k]
      BY <2>3, <3>1, <3>2, <3>3
    <3>6. Len(F[i]) = b /\ F[i] \in Seq(X) /\ \A k \in 1 .. b : F[i][k] = all[k]
      BY <2>1, <3>3
    <3> HIDE DEF F
    <3>7. PICK G \in Seq(X) :
            /\ G = p \o u /\ Len(G) = a + Len(u)
            /\ \A k \in 1 .. a + Len(u) : G[k] = IF k <= a THEN p[k] ELSE u[k - a]
      <4>1. /\ p \o u \in Seq(X) /\ Len(p \o u) = Len(p) + Len(u)
            /\ \A k \in 1 .. Len(p) + Len(u) :
                  (p \o u)[k] = IF k <= Len(p) THEN p[k] ELSE u[k - Len(p)]
        BY ConcatProperties
      <4>2. PICK G : G = p \o u
        OBVIOUS
      <4>3. QED
        BY <3>4, <4>1, <4>2
    <3>8. ASSUME NEW k \in 1 .. b PROVE G[k] = all[k]
      <4>1. CASE k <= a
        BY <3>4, <3>5, <3>7, <4>1
      <4>2. CASE k > a
        <5>1. PICK j \in 1 .. Len(u) : j = k - a /\ a + j = k
          BY <3>5, <4>2
        <5>2. G[k] = u[j]
          BY <3>5, <3>7, <4>2, <5>1
        <5>3. QED
          BY <3>5, <5>1, <5>2
      <4>3. QED
        BY <4>1, <4>2
    <3>9. G = F[i]
      <4>1. Len(G) = Len(F[i]) /\ \A k \in 1 .. Len(G) : G[k] = F[i][k]
        BY <3>5, <3>6, <3>7, <3>8
      <4>2. QED
        BY <3>6, <4>1, SeqEqual
    <3>10. QED
      BY <2>5, <3>1, <3>2, <3>7, <3>9
  <2>6. QED
    BY <2>4, <2>5
<1> HIDE DEF F
<1>2. F = [i \in 1 .. m |-> IF i = 1 THEN s[i] ELSE F[i - 1] \o s[i]]
  BY <1>1 DEF F
<1> DEFINE H == Flatten(s)
<1>3. H = [i \in 1 .. m |-> IF i = 1 THEN s[i] ELSE H[i - 1] \o s[i]]
  BY <1>2 DEF Flatten
<1> HIDE DEF H
<1> DEFINE E == { n \in Nat : n + 1 \in 1 .. m => H[n + 1] = F[n + 1] }
<1>4. 0 \in E
  BY <1>1, <1>3
<1>5. ASSUME NEW n \in Nat, n \in E PROVE n + 1 \in E
  <2>1. ASSUME n + 2 \in 1 .. m PROVE H[n + 2] = F[n + 2]
    <3>1. n + 1 \in 1 .. m /\ n + 2 # 1 /\ (n + 2) - 1 = n + 1
      BY <2>1
    <3>2. H[n + 1] = F[n + 1]
      BY <1>5, <3>1
    <3> DEFINE k == n + 2
    <3>3. k \in 1 .. m /\ k # 1 /\ k - 1 = n + 1
      BY <2>1, <3>1
    <3> HIDE DEF k
    <3>4. H[k] = H[k - 1] \o s[k]
      BY <1>3, <3>3
    <3>5. F[k] = F[k - 1] \o s[k]
      BY <1>2, <3>3
    <3>6. QED
      BY <3>2, <3>3, <3>4, <3>5 DEF k
  <2>2. n + 1 \in Nat /\ (n + 1) + 1 = n + 2
    OBVIOUS
  <2>3. QED
    BY <2>1, <2>2
<1>6. m - 1 \in E
  <2> HIDE DEF E
  <2>1. QED
    BY <1>4, <1>5, NatSets, m - 1 \in Nat
<1>7. H[m] = F[m]
  BY <1>6, (m - 1) + 1 = m, m \in 1 .. m
<1>8. F[m] = SubSeq(all, 1, Len(all))
  BY DEF F
<1>9. QED
  BY <1>7, <1>8, SubSeqFull, FlattenSeqIs DEF H
----------------------------------------------------------------------------
(* Chunks and the bytes in them *)

LEMMA ToIntSame ==
  ASSUME NEW n \in 0 .. MaxInt
  PROVE  ToInt(n) = n
<1>1. Width \in Nat /\ Width * 0 = 0
  BY ChunkingAssumption DEF Width
<1>2. n \in Int /\ 0 \in Int /\ n + Width * 0 \in 0 .. MaxInt
  BY <1>1, ChunkingAssumption
<1>3. ToInt(n) = n + Width * 0
  BY <1>2, ToIntIs
<1>4. QED
  BY <1>1, <1>3

LEMMA NextMultiple ==
  ASSUME NEW c \in Int
  PROVE  c * ChunkSize \in Int /\ (c + 1) * ChunkSize = c * ChunkSize + ChunkSize
BY ChunkingAssumption

LEMMA LessIsBefore ==
  ASSUME NEW c \in Int, NEW d \in Int, c < d
  PROVE  c * ChunkSize + ChunkSize <= d * ChunkSize
<1>1. (c + 1) * ChunkSize <= d * ChunkSize
  BY Multiples, c + 1 \in Int, c + 1 <= d
<1>2. QED
  BY <1>1, NextMultiple

\* A byte that lies in chunk c is found there.
LEMMA ByteInChunk ==
  ASSUME NEW b \in Int, NEW c \in Int, c * ChunkSize <= b, b < c * ChunkSize + ChunkSize
  PROVE  b \div ChunkSize = c /\ b % ChunkSize = b - c * ChunkSize
<1>1. ChunkSize \in Nat \ {0}
  BY ChunkingAssumption
<1> DEFINE q == b \div ChunkSize
<1> DEFINE r == b % ChunkSize
<1>2. q \in Int /\ r \in 0 .. ChunkSize - 1 /\ b = ChunkSize * q + r
  BY <1>1, DivMod
<1> HIDE DEF q, r
<1>3. ChunkSize * q = q * ChunkSize
  BY <1>1, <1>2
<1>4. PICK x \in Int, y \in Int : x = q * ChunkSize /\ y = c * ChunkSize
  BY <1>2, NextMultiple
<1>5. q < c => x + ChunkSize <= y
  BY <1>2, <1>4, LessIsBefore
<1>6. c < q => y + ChunkSize <= x
  BY <1>2, <1>4, LessIsBefore
<1>7. q = c
  BY <1>1, <1>2, <1>3, <1>4, <1>5, <1>6
<1>8. QED
  BY <1>1, <1>2, <1>3, <1>4, <1>7 DEF q, r

LEMMA ChunkOfByte ==
  ASSUME NEW n \in Nat
  PROVE  /\ n \div ChunkSize \in Nat /\ n % ChunkSize \in 0 .. ChunkSize - 1
         /\ (n \div ChunkSize) * ChunkSize + (n % ChunkSize) = n
         /\ Quotient(n) = n \div ChunkSize /\ Remainder(n) = n % ChunkSize
<1>1. ChunkSize \in Nat \ {0}
  BY ChunkingAssumption
<1> DEFINE q == n \div ChunkSize
<1>2. q \in Nat
  BY QuotientBounds
<1>3. n % ChunkSize \in 0 .. ChunkSize - 1 /\ n = ChunkSize * q + (n % ChunkSize)
  <2>1. n \in Int
    OBVIOUS
  <2> HIDE DEF q
  <2>2. q = n \div ChunkSize
    BY DEF q
  <2>3. QED
    BY <1>1, <2>1, <2>2, DivMod
<1>4. ChunkSize * q = q * ChunkSize
  BY <1>1, <1>2
<1>5. Quotient(n) = n \div ChunkSize /\ Remainder(n) = n % ChunkSize
  BY DEF Quotient, Remainder
<1> HIDE DEF q
<1>6. q * ChunkSize + (n % ChunkSize) = n
  BY <1>2, <1>3, <1>4, NextMultiple
<1>7. QED
  BY <1>2, <1>3, <1>5, <1>6 DEF q

LEMMA Quotients ==
  ASSUME NEW m \in Nat, NEW n \in Nat, m <= n
  PROVE  m \div ChunkSize <= n \div ChunkSize
<1> DEFINE p == m \div ChunkSize
<1> DEFINE q == n \div ChunkSize
<1>1. p \in Nat /\ q \in Nat /\ p * ChunkSize <= m /\ n < q * ChunkSize + ChunkSize
  BY QuotientBounds
<1> HIDE DEF p, q
<1>2. q < p => q * ChunkSize + ChunkSize <= p * ChunkSize
  BY <1>1, LessIsBefore
<1>3. p * ChunkSize \in Int /\ q * ChunkSize \in Int /\ ChunkSize \in Nat
  BY <1>1, NextMultiple, ChunkingAssumption
<1>4. p <= q
  BY <1>1, <1>2, <1>3
<1>5. QED
  BY <1>4 DEF p, q

\* Where a range begins and ends, when its chunks have numbers of an int.
LEMMA RangeEnds ==
  ASSUME NEW offset \in Nat, NEW count \in Nat, (offset + count) \div ChunkSize <= MaxInt
  PROVE  LET first == FirstChunk(offset)
             last == LastChunk(offset + count)
             skip == Remainder(offset)
             rest == InLastChunk(offset + count)
         IN  /\ first = offset \div ChunkSize /\ first \in Nat
             /\ skip \in 0 .. ChunkSize - 1 /\ first * ChunkSize + skip = offset
             /\ last \in Int /\ rest \in 1 .. ChunkSize
             /\ last * ChunkSize + rest = offset + count
<1> DEFINE end == offset + count
<1>1. end \in Nat /\ offset <= end
  OBVIOUS
<1>2. ChunkSize \in Nat \ {0} /\ MaxInt \in Nat
  BY ChunkingAssumption
<1>3. end \div ChunkSize \in 0 .. MaxInt /\ offset \div ChunkSize \in 0 .. MaxInt
  BY <1>1, <1>2, ChunkOfByte, Quotients
<1>4. FirstChunk(offset) = offset \div ChunkSize
  BY <1>3, ChunkOfByte, ToIntSame DEF FirstChunk
<1> HIDE DEF end
<1> DEFINE q == end \div ChunkSize
<1> DEFINE r == end % ChunkSize
<1>5. /\ q \in Nat /\ r \in 0 .. ChunkSize - 1
      /\ q = end \div ChunkSize /\ q * ChunkSize + r = end
      /\ Quotient(end) = q /\ Remainder(end) = r
  BY <1>1, ChunkOfByte
<1> HIDE DEF q, r
<1>6. ToInt(Quotient(end)) = q
  BY <1>3, <1>5, ToIntSame
<1>7. ASSUME r = 0
      PROVE  /\ LastChunk(end) \in Int /\ InLastChunk(end) \in 1 .. ChunkSize
             /\ LastChunk(end) * ChunkSize + InLastChunk(end) = end
  <2>1. LastChunk(end) = q - 1 /\ InLastChunk(end) = ChunkSize
    BY <1>5, <1>6, <1>7 DEF LastChunk, InLastChunk
  <2>2. (q - 1) * ChunkSize + ChunkSize = q * ChunkSize /\ q * ChunkSize \in Int
    BY <1>5, NextMultiple, q - 1 \in Int, (q - 1) + 1 = q
  <2>3. (q - 1) * ChunkSize + ChunkSize = end
    BY <1>5, <1>7, <2>2
  <2>4. QED
    BY <1>2, <1>5, <2>1, <2>3, ChunkSize \in 1 .. ChunkSize
<1>8. ASSUME r # 0
      PROVE  /\ LastChunk(end) \in Int /\ InLastChunk(end) \in 1 .. ChunkSize
             /\ LastChunk(end) * ChunkSize + InLastChunk(end) = end
  <2>1. LastChunk(end) = q /\ InLastChunk(end) = r
    BY <1>5, <1>6, <1>8 DEF LastChunk, InLastChunk
  <2>2. r \in 1 .. ChunkSize
    BY <1>2, <1>5, <1>8
  <2>3. QED
    BY <1>5, <2>1, <2>2
<1>9. /\ LastChunk(end) \in Int /\ InLastChunk(end) \in 1 .. ChunkSize
      /\ LastChunk(end) * ChunkSize + InLastChunk(end) = end
  BY <1>7, <1>8
<1>10. /\ FirstChunk(offset) \in Nat /\ Remainder(offset) \in 0 .. ChunkSize - 1
       /\ FirstChunk(offset) * ChunkSize + Remainder(offset) = offset
  BY <1>4, ChunkOfByte
<1>11. QED
  BY <1>4, <1>9, <1>10 DEF end

----------------------------------------------------------------------------
(* MapChunks *)

\* What a range takes of chunk c: from its byte StartIn to before its byte StopIn.
StartIn(offset, c) == IF c = FirstChunk(offset) THEN Remainder(offset) ELSE 0
StopIn(offset, end, c, size) ==
  IF c = LastChunk(end) THEN InLastChunk(end) ELSE IF c = FirstChunk(offset) THEN ChunkSize ELSE size

\* The chunks that the range overlaps with have offsets and sizes of an int.
Fitting(offset, count, mapped) ==
  \A c \in ChunksOf(offset, count) :
    mapped[c].index \in Nat /\ mapped[c].index * ChunkSize <= MaxInt /\ mapped[c].size \in 0 .. ChunkSize

LEMMA PartsAre ==
  ASSUME NEW offset \in Nat, NEW count \in Nat, (offset + count) \div ChunkSize <= MaxInt,
         Mappable(offset, count), NEW mapped, Fitting(offset, count, mapped)
  PROVE  LET parts == MapChunks(offset, count, mapped)
             first == FirstChunk(offset)
             m == LastChunk(offset + count) - first + 1
         IN  /\ m \in Nat \ {0} /\ DOMAIN parts = 1 .. m
             /\ \A i \in 1 .. m :
                  LET c == first + i - 1
                      from == StartIn(offset, c)
                      to == StopIn(offset, offset + count, c, mapped[c].size)
                  IN  /\ c \in ChunksOf(offset, count)
                      /\ from \in 0 .. ChunkSize /\ to \in 0 .. ChunkSize /\ from <= to
                      /\ parts[i] = [path |-> mapped[c].path, at |-> mapped[c].index * ChunkSize + from,
                                     count |-> to - from]
<1> DEFINE end == offset + count
<1> DEFINE first == FirstChunk(offset)
<1> DEFINE last == LastChunk(end)
<1> DEFINE m == last - first + 1
<1> DEFINE parts == MapChunks(offset, count, mapped)
<1> DEFINE from(c) == StartIn(offset, c)
<1> DEFINE to(c) == StopIn(offset, end, c, mapped[c].size)
<1>1. /\ first \in Nat /\ last \in Int /\ first <= last /\ end \in Nat
      /\ Remainder(offset) \in 0 .. ChunkSize - 1 /\ first * ChunkSize + Remainder(offset) = offset
      /\ InLastChunk(end) \in 1 .. ChunkSize /\ last * ChunkSize + InLastChunk(end) = end
  BY RangeEnds DEF Mappable
<1>2. ChunkSize \in Nat \ {0} /\ MaxInt \in Nat /\ ChunkSize <= MaxInt
  BY ChunkingAssumption
<1>3. m \in Nat \ {0}
  BY <1>1
<1>4. parts = [i \in 1 .. m |->
                 LET c == first + i - 1
                 IN  [path |-> mapped[c].path, at |-> ToInt(mapped[c].index * ChunkSize) + from(c),
                      count |-> ToInt(to(c) - from(c))]]
  BY DEF MapChunks, StartIn, StopIn
<1>5. ASSUME NEW c \in first .. last
      PROVE  /\ from(c) \in 0 .. ChunkSize /\ to(c) \in 0 .. ChunkSize /\ from(c) <= to(c)
             /\ ToInt(mapped[c].index * ChunkSize) = mapped[c].index * ChunkSize
             /\ ToInt(to(c) - from(c)) = to(c) - from(c)
  <2>1. /\ mapped[c].index \in Nat /\ mapped[c].index * ChunkSize <= MaxInt
        /\ mapped[c].size \in 0 .. ChunkSize
    BY DEF Fitting, ChunksOf
  <2>2. from(c) \in 0 .. ChunkSize /\ to(c) \in 0 .. ChunkSize
    BY <1>1, <1>2, <2>1 DEF StartIn, StopIn
  <2>3. from(c) <= to(c)
    <3>1. CASE c = first /\ c = last
      <4>1. from(c) = Remainder(offset) /\ to(c) = InLastChunk(end)
        BY <3>1 DEF StartIn, StopIn
      <4>2. PICK x \in Int : x = first * ChunkSize
        BY <1>1, NextMultiple
      <4>3. x + Remainder(offset) = offset /\ x + InLastChunk(end) = end /\ offset <= end
        <5>1. offset <= end
          OBVIOUS
        <5> HIDE DEF first, last, end
        <5>2. last * ChunkSize = x
          BY <3>1, <4>2
        <5>3. QED
          BY <1>1, <4>2, <5>1, <5>2
      <4>4. QED
        BY <1>1, <4>1, <4>2, <4>3
    <3>2. CASE c = first /\ c # last
      BY <1>1, <1>2, <2>2, <3>2 DEF StartIn, StopIn
    <3>3. CASE c # first
      BY <2>2, <3>3 DEF StartIn
    <3>4. QED
      BY <3>1, <3>2, <3>3
  <2> HIDE DEF from, to
  <2>4. to(c) - from(c) \in 0 .. MaxInt
    BY <1>2, <2>2, <2>3
  <2>5. mapped[c].index * ChunkSize \in 0 .. MaxInt
    <3>1. 0 * ChunkSize <= mapped[c].index * ChunkSize /\ 0 * ChunkSize = 0
      BY <1>2, <2>1, Multiples
    <3>2. QED
      BY <1>2, <2>1, <3>1, NextMultiple
  <2>6. QED
    BY <2>2, <2>3, <2>4, <2>5, ToIntSame
<1> HIDE DEF parts, from, to
<1>6. ASSUME NEW i \in 1 .. m
      PROVE  LET c == first + i - 1
             IN  /\ c \in first .. last
                 /\ from(c) \in 0 .. ChunkSize /\ to(c) \in 0 .. ChunkSize /\ from(c) <= to(c)
                 /\ parts[i] = [path |-> mapped[c].path, at |-> mapped[c].index * ChunkSize + from(c),
                                count |-> to(c) - from(c)]
  <2>1. PICK c \in first .. last : c = first + i - 1
    BY <1>1
  <2>2. parts[i] = [path |-> mapped[c].path, at |-> ToInt(mapped[c].index * ChunkSize) + from(c),
                    count |-> ToInt(to(c) - from(c))]
    BY <1>4, <2>1
  <2>3. QED
    BY <1>5, <2>1, <2>2
<1>7. DOMAIN parts = 1 .. m
  BY <1>4
<1>8. QED
  BY <1>3, <1>6, <1>7 DEF parts, from, to, ChunksOf

\* The bytes of a range, in order, when its chunks are whole, but for chunk e if that is
\* inside: of it there are size bytes.
Inside(offset, count, e) ==
  e \in (offset \div ChunkSize) + 1 .. ((offset + count - 1) \div ChunkSize) - 1
Gap(offset, count, e, size) == IF Inside(offset, count, e) THEN ChunkSize - size ELSE 0
ByteAfter(offset, count, e, size, b) ==
  IF Inside(offset, count, e) /\ b >= e * ChunkSize + size THEN b + Gap(offset, count, e, size) ELSE b

ByteIn(mapped, b) ==
  <<mapped[b \div ChunkSize].path, mapped[b \div ChunkSize].index * ChunkSize + (b % ChunkSize)>>
BytesOfRange(offset, count, mapped, e, size) ==
  [k \in 1 .. count - Gap(offset, count, e, size) |->
     ByteIn(mapped, ByteAfter(offset, count, e, size, offset + k - 1))]

\* The last byte of a range lies in its last chunk.
LEMMA LastByte ==
  ASSUME NEW offset \in Nat, NEW count \in Nat, (offset + count) \div ChunkSize <= MaxInt
  PROVE  (offset + count - 1) \div ChunkSize = LastChunk(offset + count)
<1> DEFINE end == offset + count
<1>1. end \in Nat /\ end - 1 = offset + count - 1
  OBVIOUS
<1> DEFINE last == LastChunk(end)
<1> DEFINE rest == InLastChunk(end)
<1>2. last \in Int /\ rest \in 1 .. ChunkSize /\ last * ChunkSize + rest = end
  BY RangeEnds
<1> HIDE DEF last, rest, end
<1>3. PICK x \in Int : x = last * ChunkSize
  BY <1>2, NextMultiple
<1>4. x <= end - 1 /\ end - 1 < x + ChunkSize /\ end - 1 \in Int
  BY <1>1, <1>2, <1>3, ChunkingAssumption
<1>5. (end - 1) \div ChunkSize = last
  BY <1>2, <1>3, <1>4, ByteInChunk
<1>6. QED
  BY <1>1, <1>5 DEF last, end

MayMap(offset, count, mapped, e, size) ==
  /\ offset \in Nat /\ count \in Nat /\ (offset + count) \div ChunkSize <= MaxInt
  /\ Mappable(offset, count) /\ Fitting(offset, count, mapped)
  /\ e \in Int /\ size \in 0 .. ChunkSize
  /\ \A c \in ChunksOf(offset, count) : mapped[c].size = IF c = e THEN size ELSE ChunkSize

LEMMA RangeOfParts ==
  ASSUME NEW offset, NEW count, NEW mapped, NEW e, NEW size, MayMap(offset, count, mapped, e, size)
  PROVE  /\ count - Gap(offset, count, e, size) \in Nat
         /\ BytesOfParts(MapChunks(offset, count, mapped)) =
              BytesOfRange(offset, count, mapped, e, size)
<1>0. /\ offset \in Nat /\ count \in Nat /\ (offset + count) \div ChunkSize <= MaxInt
      /\ Mappable(offset, count) /\ Fitting(offset, count, mapped)
      /\ e \in Int /\ size \in 0 .. ChunkSize
      /\ \A c \in ChunksOf(offset, count) : mapped[c].size = IF c = e THEN size ELSE ChunkSize
  BY DEF MayMap
<1> USE <1>0
<1> DEFINE end == offset + count
<1> DEFINE first == FirstChunk(offset)
<1> DEFINE last == LastChunk(end)
<1> DEFINE skip == Remainder(offset)
<1> DEFINE rest == InLastChunk(end)
<1> DEFINE m == last - first + 1
<1> DEFINE parts == MapChunks(offset, count, mapped)
<1> DEFINE from(c) == StartIn(offset, c)
<1> DEFINE to(c) == StopIn(offset, end, c, mapped[c].size)
<1> DEFINE inside == e \in first + 1 .. last - 1
<1> DEFINE gap == IF inside THEN ChunkSize - size ELSE 0
<1> DEFINE n == count - gap
<1> DEFINE after(b) == IF inside /\ b >= e * ChunkSize + size THEN b + gap ELSE b
<1> DEFINE all == [k \in 1 .. n |-> ByteIn(mapped, after(offset + k - 1))]
<1>1. /\ first = offset \div ChunkSize
      /\ first \in Nat /\ last \in Int /\ first <= last /\ end \in Nat
      /\ skip \in 0 .. ChunkSize - 1 /\ first * ChunkSize + skip = offset
      /\ rest \in 1 .. ChunkSize /\ last * ChunkSize + rest = end
  BY RangeEnds DEF Mappable
<1>2. ChunkSize \in Nat \ {0} /\ MaxInt \in Nat /\ ChunkSize <= MaxInt
  BY ChunkingAssumption
<1>3. /\ m \in Nat \ {0} /\ DOMAIN parts = 1 .. m
      /\ \A i \in 1 .. m :
           LET c == first + i - 1
           IN  /\ c \in first .. last
               /\ from(c) \in 0 .. ChunkSize /\ to(c) \in 0 .. ChunkSize /\ from(c) <= to(c)
               /\ parts[i] = [path |-> mapped[c].path, at |-> mapped[c].index * ChunkSize + from(c),
                              count |-> to(c) - from(c)]
  BY PartsAre DEF ChunksOf
<1>4. (offset + count - 1) \div ChunkSize = last
  BY LastByte
<1>5. /\ inside <=> Inside(offset, count, e)
      /\ gap = Gap(offset, count, e, size)
      /\ \A b : after(b) = ByteAfter(offset, count, e, size, b)
  BY <1>1, <1>4 DEF Inside, Gap, ByteAfter
<1>6. gap \in 0 .. ChunkSize /\ (inside => gap = ChunkSize - size) /\ (~inside => gap = 0)
  BY <1>2
<1> DEFINE pos(c) == c * ChunkSize - (IF inside /\ c > e THEN gap ELSE 0)
<1> DEFINE base(c) == IF c = first THEN offset ELSE pos(c)
<1> DEFINE end2 == end - gap
<1>7. ASSUME NEW c \in first .. last
      PROVE  /\ base(c) \in Int
             /\ base(c) + (to(c) - from(c)) = IF c = last THEN end2 ELSE base(c + 1)
             /\ \A k \in 1 .. to(c) - from(c) : after(base(c) + k - 1) = c * ChunkSize + from(c) + k - 1
  <2>1. PICK x \in Int : x = c * ChunkSize /\ (c + 1) * ChunkSize = x + ChunkSize
    BY <1>1, NextMultiple
  <2>2. PICK y \in Int : y = e * ChunkSize
    BY NextMultiple
  <2>3. (c < e => x + ChunkSize <= y) /\ (e < c => y + ChunkSize <= x) /\ (c = e => x = y)
    BY <1>1, <2>1, <2>2, LessIsBefore
  <2>4. /\ from(c) = IF c = first THEN skip ELSE 0
        /\ to(c) = IF c = last THEN rest ELSE IF c = first \/ c # e THEN ChunkSize ELSE size
    BY <1>2 DEF StartIn, StopIn, ChunksOf
  <2>5. /\ c = first => x + skip = offset
        /\ c = last => x + rest = end
    <3> HIDE DEF first, last, skip, rest, end
    <3>1. QED
      BY <1>1, <2>1
  <2>6. /\ base(c) = IF c = first THEN offset ELSE x - (IF inside /\ c > e THEN gap ELSE 0)
        /\ c # last => base(c + 1) = x + ChunkSize - (IF inside /\ c >= e THEN gap ELSE 0)
    <3>1. c \in Int /\ c >= first /\ first \in Int
      BY <1>1
    <3> HIDE DEF first, last, inside, gap
    <3>2. pos(c + 1) = x + ChunkSize - (IF inside /\ c + 1 > e THEN gap ELSE 0)
      <4> DEFINE d == c + 1
      <4>1. d * ChunkSize = x + ChunkSize
        BY <2>1
      <4> HIDE DEF d
      <4> DEFINE g == IF inside /\ d > e THEN gap ELSE 0
      <4>2. pos(d) = d * ChunkSize - g
        OBVIOUS
      <4>g. g \in Int
        BY <1>2, <1>6
      <4> HIDE DEF g, pos
      <4>3. pos(d) = x + ChunkSize - g
        BY <1>6, <2>1, <4>1, <4>2, <4>g, ChunkingAssumption
      <4>4. QED
        BY <4>3 DEF d, g
    <3> HIDE DEF pos
    <3>3. c + 1 # first /\ (c + 1 > e <=> c >= e)
      BY <3>1
    <3>4. base(c + 1) = pos(c + 1)
      BY <3>3
    <3>5. pos(c) = x - (IF inside /\ c > e THEN gap ELSE 0)
      BY <2>1 DEF pos
    <3>6. QED
      BY <3>2, <3>3, <3>4, <3>5
  <2>7. inside => first < e /\ e < last
    BY <1>1
  <2>8. \A b : after(b) = IF inside /\ b >= y + size THEN b + gap ELSE b
    BY <2>2
  <2> HIDE DEF from, to, base, after, first, last, skip, rest, inside, gap, end
  <2>9. base(c) \in Int /\ from(c) \in Int /\ to(c) \in Int
    BY <1>1, <1>2, <1>6, <2>1, <2>4, <2>6
  <2>10. base(c) + (to(c) - from(c)) = IF c = last THEN end2 ELSE base(c + 1)
    <3>1. /\ gap \in Int /\ end \in Int /\ e \in Int /\ c \in Int /\ skip \in Int /\ rest \in Int
          /\ first \in Int /\ last \in Int /\ offset \in Int /\ size \in Int /\ first <= c /\ c <= last
      BY <1>1, <1>2, <1>6
    <3>2. CASE c = last
      <4>1. base(c) + (to(c) - from(c)) = end - gap
        <5>1. ASSUME c = first PROVE gap = 0
          BY <1>6, <2>7, <3>1, <3>2, <5>1
        <5>2. ASSUME c # first PROVE base(c) = x - gap
          BY <1>6, <2>6, <2>7, <3>1, <3>2, <5>2
        <5>3. CASE c = first
          BY <2>1, <2>4, <2>5, <2>6, <3>1, <3>2, <5>1, <5>3
        <5>4. CASE c # first
          BY <2>1, <2>4, <2>5, <2>6, <3>1, <3>2, <5>2, <5>4
        <5>5. QED
          BY <5>3, <5>4
      <4>2. QED
        BY <3>2, <4>1
    <3>3. CASE c # last /\ c = first
      <4>1. base(c + 1) = x + ChunkSize
        BY <1>2, <2>1, <2>6, <2>7, <3>1, <3>3
      <4>2. QED
        BY <1>2, <2>1, <2>4, <2>5, <2>6, <3>1, <3>3, <4>1
    <3>4. CASE c # last /\ c # first /\ c = e
      <4>1. inside
        BY <3>1, <3>4 DEF inside
      <4>2. base(c) = x /\ base(c + 1) = x + ChunkSize - gap /\ to(c) - from(c) = size - 0 /\ gap = ChunkSize - size
        BY <1>2, <1>6, <2>1, <2>4, <2>6, <3>1, <3>4, <4>1
      <4>3. QED
        BY <1>2, <2>1, <3>1, <3>4, <4>2
    <3>5. CASE c # last /\ c # first /\ c # e
      BY <1>2, <1>6, <2>1, <2>4, <2>6, <3>1, <3>5
    <3>6. QED
      BY <3>2, <3>3, <3>4, <3>5
  <2>11. ASSUME NEW k \in 1 .. to(c) - from(c)
         PROVE  after(base(c) + k - 1) = x + from(c) + k - 1
    BY <1>1, <1>2, <1>6, <2>1, <2>2, <2>3, <2>4, <2>5, <2>6, <2>7, <2>8, <2>9
  <2>12. QED
    BY <2>1, <2>9, <2>10, <2>11
<1> DEFINE s == [i \in DOMAIN parts |->
                   [k \in 1 .. parts[i].count |-> <<parts[i].path, parts[i].at + k - 1>>]]
<1> DEFINE cut == [i \in 0 .. m |-> IF i = m THEN n ELSE base(first + i) - offset]
<1> DEFINE X == { ByteIn(mapped, b) : b \in Int }
<1> HIDE DEF parts, from, to, base, after, inside, gap, s
<1>8. base(first) = offset
  BY DEF base
<1>9. n \in Int /\ cut \in [0 .. m -> Int] /\ cut[0] = 0 /\ cut[m] = n
  <2>1. n \in Int
    BY <1>2, <1>6
  <2> HIDE DEF n
  <2>2. ASSUME NEW i \in 0 .. m, i # m PROVE base(first + i) \in Int
    BY <1>1, <1>7, <2>2
  <2>3. cut \in [0 .. m -> Int]
    BY <2>1, <2>2
  <2>4. cut[0] = 0
    BY <1>1, <1>3, <1>8, first + 0 = first
  <2>5. QED
    BY <1>3, <2>1, <2>3, <2>4
<1>10. ASSUME NEW i \in 1 .. m
       PROVE  LET c == first + i - 1
              IN  /\ c \in first .. last /\ cut[i - 1] = base(c) - offset
                  /\ cut[i] = cut[i - 1] + (to(c) - from(c))
  <2>1. PICK c \in first .. last : c = first + i - 1
    BY <1>1
  <2>2. cut[i - 1] = base(c) - offset
    <3>1. i - 1 \in 0 .. m /\ i - 1 # m /\ first + (i - 1) = c
      BY <1>1, <2>1
    <3> HIDE DEF first, n, m
    <3>2. QED
      BY <3>1
  <2>3. ASSUME i = m PROVE cut[i] = n /\ c = last
    <3>1. i \in 0 .. m /\ c = last
      BY <1>1, <2>1, <2>3
    <3> HIDE DEF first, n, m
    <3>2. QED
      BY <2>3, <3>1
  <2>4. ASSUME i # m PROVE cut[i] = base(c + 1) - offset /\ c # last
    <3>1. i \in 0 .. m /\ first + i = c + 1 /\ c # last
      BY <1>1, <2>1, <2>4
    <3> HIDE DEF first, n, m
    <3>2. QED
      BY <2>4, <3>1
  <2>5. base(c) \in Int /\ base(c) + (to(c) - from(c)) = IF c = last THEN end2 ELSE base(c + 1)
    BY <1>7
  <2>6. from(c) \in Int /\ to(c) \in Int /\ gap \in Int /\ end2 = offset + count - gap
    BY <1>2, <1>3, <1>6, <2>1
  <2> HIDE DEF cut, first, last, end2
  <2>7. cut[i] = cut[i - 1] + (to(c) - from(c))
    BY <2>2, <2>3, <2>4, <2>5, <2>6
  <2>8. QED
    BY <2>1, <2>2, <2>7
<1> HIDE DEF cut, m, n, first, last, end, end2
<1>11. ASSUME NEW i \in 1 .. m
       PROVE  cut[i - 1] <= cut[i] /\ cut[i - 1] \in Int /\ cut[i] \in Int
  <2>1. PICK c \in first .. last : c = first + i - 1
    BY <1>10
  <2>2. cut[i - 1] \in Int /\ cut[i] \in Int
    <3>1. m \in Nat /\ cut \in [0 .. m -> Int]
      BY <1>3, <1>9
    <3>2. QED
      BY <3>1, i - 1 \in 0 .. m, i \in 0 .. m
  <2>3. cut[i] = cut[i - 1] + (to(c) - from(c))
    BY <1>10, <2>1
  <2>4. from(c) \in Int /\ to(c) \in Int /\ from(c) <= to(c)
    <3>1. from(c) \in 0 .. ChunkSize /\ to(c) \in 0 .. ChunkSize /\ from(c) <= to(c)
      BY <1>3, <2>1
    <3>2. QED
      BY <1>2, <3>1
  <2>5. QED
    BY <2>2, <2>3, <2>4
<1>12. \A i \in 0 .. m : cut[i] \in Nat /\ cut[i] <= n
  BY <1>3, <1>9, <1>11, CutsGrow
<1>13. n \in Nat
  BY <1>3, <1>9, <1>12
<1>14. ASSUME NEW b \in Int PROVE after(b) \in Int
  BY <1>2, <1>6 DEF after
<1>15. all \in [1 .. n -> X]
  <2>1. \A k \in 1 .. n : offset + k - 1 \in Int
    BY <1>13
  <2>2. QED
    BY <1>14, <2>1
<1>16. all \in Seq(X) /\ Len(all) = n
  BY <1>13, <1>15, TupleIsSeq
<1>17. ASSUME NEW i \in 1 .. m
       PROVE  /\ s[i] \in Seq(X)
              /\ cut[i] = cut[i - 1] + Len(s[i])
              /\ \A k \in 1 .. Len(s[i]) : s[i][k] = all[cut[i - 1] + k]
  <2> DEFINE c == first + i - 1
  <2> DEFINE len == to(c) - from(c)
  <2>1. /\ c \in first .. last /\ c \in Int
        /\ from(c) \in 0 .. ChunkSize /\ to(c) \in 0 .. ChunkSize /\ from(c) <= to(c)
        /\ parts[i] = [path |-> mapped[c].path, at |-> mapped[c].index * ChunkSize + from(c),
                       count |-> len]
    <3>1. PICK d \in first .. last : d = first + i - 1
      BY <1>10
    <3>2. /\ from(d) \in 0 .. ChunkSize /\ to(d) \in 0 .. ChunkSize /\ from(d) <= to(d)
          /\ parts[i] = [path |-> mapped[d].path, at |-> mapped[d].index * ChunkSize + from(d),
                         count |-> to(d) - from(d)]
      BY <1>3, <3>1
    <3>3. d \in Int
      BY <1>1
    <3>4. QED
      BY <3>1, <3>2, <3>3
  <2>2. mapped[c].index * ChunkSize \in Int
    BY <2>1, NextMultiple DEF Fitting, ChunksOf, first, last, end
  <2>3. /\ cut[i - 1] = base(c) - offset /\ cut[i] = cut[i - 1] + len
        /\ cut[i - 1] \in Nat /\ cut[i] \in Nat /\ cut[i] <= n
    <3>1. cut[i - 1] = base(c) - offset /\ cut[i] = cut[i - 1] + len
      BY <1>10
    <3> HIDE DEF c, len
    <3>2. QED
      BY <1>3, <1>12, <3>1, i - 1 \in 0 .. m
  <2>4. len \in Nat
    BY <1>2, <2>1
  <2> HIDE DEF c
  <2>5. s[i] = [k \in 1 .. len |-> <<mapped[c].path, mapped[c].index * ChunkSize + from(c) + k - 1>>]
    <3>1. s[i] = [k \in 1 .. parts[i].count |-> <<parts[i].path, parts[i].at + k - 1>>]
      BY <1>3 DEF s
    <3>2. /\ parts[i].count = len /\ parts[i].path = mapped[c].path
          /\ parts[i].at = mapped[c].index * ChunkSize + from(c)
      BY <2>1
    <3> HIDE DEF len
    <3>3. QED
      BY <3>1, <3>2
  <2>6. ASSUME NEW k \in 1 .. len
        PROVE  s[i][k] = all[cut[i - 1] + k] /\ cut[i - 1] + k \in 1 .. n
    <3>1. cut[i - 1] + k \in 1 .. n
      <4> HIDE DEF len
      <4>1. QED
        BY <1>13, <2>3, <2>4
    <3>2. base(c) \in Int /\ after(base(c) + k - 1) = c * ChunkSize + from(c) + k - 1
      BY <1>7, <2>1
    <3>3. offset + (cut[i - 1] + k) - 1 = base(c) + k - 1
      BY <2>3, <3>2
    <3>4. all[cut[i - 1] + k] = ByteIn(mapped, c * ChunkSize + from(c) + k - 1)
      <4>1. all[cut[i - 1] + k] = ByteIn(mapped, after(offset + (cut[i - 1] + k) - 1))
        BY <3>1
      <4>2. QED
        BY <3>2, <3>3, <4>1
    <3>5. PICK x \in Int : x = c * ChunkSize
      BY <2>1, NextMultiple
    <3> DEFINE b == x + from(c) + k - 1
    <3>6. b \in Int /\ x <= b /\ b < x + ChunkSize /\ b - x = from(c) + k - 1
      BY <1>2, <2>1, <3>5
    <3> HIDE DEF b
    <3>7. b \div ChunkSize = c /\ b % ChunkSize = from(c) + k - 1
      BY <2>1, <3>5, <3>6, ByteInChunk
    <3>8. ByteIn(mapped, b) = <<mapped[c].path, mapped[c].index * ChunkSize + (from(c) + k - 1)>>
      BY <3>7 DEF ByteIn
    <3>9. mapped[c].index * ChunkSize + (from(c) + k - 1) = mapped[c].index * ChunkSize + from(c) + k - 1
      <4>1. PICK y \in Int : y = mapped[c].index * ChunkSize
        BY <2>2
      <4>2. QED
        BY <2>1, <4>1
    <3>10. s[i][k] = ByteIn(mapped, b)
      BY <2>5, <3>8, <3>9
    <3>11. QED
      BY <3>1, <3>4, <3>5, <3>10 DEF b
  <2>7. s[i] \in [1 .. len -> X]
    <3>1. \A k \in 1 .. n : all[k] \in X
      BY <1>15
    <3> HIDE DEF X, all, len
    <3>2. \A k \in 1 .. len : s[i][k] \in X
      BY <2>6, <3>1
    <3>3. QED
      BY <2>5, <3>2
  <2>8. s[i] \in Seq(X) /\ Len(s[i]) = len
    <3> HIDE DEF X, len
    <3>1. QED
      BY <2>4, <2>7, TupleIsSeq
  <2> HIDE DEF X, all, len
  <2>9. QED
    BY <2>3, <2>6, <2>8
<1>18. s \in [1 .. m -> Seq(X)]
  BY <1>3, <1>17 DEF s
<1>19. s \in Seq(Seq(X)) /\ Len(s) = m
  BY <1>3, <1>18, TupleIsSeq
<1>20. FlattenSeq(s) = all
  <2> HIDE DEF X, all
  <2>1. QED
    <3>1. cut[0] = 0 /\ cut[m] = Len(all) /\ cut \in [0 .. m -> Int]
      BY <1>9, <1>16
    <3>2. \A i \in 1 .. m :
            /\ cut[i] = cut[i - 1] + Len(s[i])
            /\ \A k \in 1 .. Len(s[i]) : s[i][k] = all[cut[i - 1] + k]
      BY <1>17
    <3>3. m \in Nat \ {0} /\ all \in Seq(X) /\ s \in Seq(Seq(X)) /\ Len(s) = m
      BY <1>3, <1>16, <1>19
    <3>4. IsCut(X, m, s, all, cut)
      BY <3>1, <3>2, <3>3, Zenon DEF IsCut
    <3>5. QED
      BY <3>4, FlattenIs, Zenon
<1>21. BytesOfParts(parts) = all
  BY <1>20 DEF BytesOfParts, s
<1>22. n = count - Gap(offset, count, e, size)
  BY <1>5 DEF n
<1>23. all = [k \in 1 .. n |-> ByteIn(mapped, ByteAfter(offset, count, e, size, offset + k - 1))]
  BY <1>5
<1>24. QED
  BY <1>13, <1>21, <1>22, <1>23 DEF parts, BytesOfRange

----------------------------------------------------------------------------
(* Chunk maps *)

LEMMA RangeOfZero ==
  ASSUME NEW n \in Nat
  PROVE  Cardinality(0 .. n - 1) = n
<1>1. Cardinality(0 .. n - 1) = IF 0 > n - 1 THEN 0 ELSE n - 1 - 0 + 1
  BY FS_Interval, 0 \in Int, n - 1 \in Int
<1>2. QED
  BY <1>1

LEMMA MapIsChunkMap ==
  ASSUME NEW p \in Paths
  PROVE  IsChunkMap(MapOf(p))
<1>1. CASE p \in Sources
  <2> DEFINE n == Ceiling(Size[p])
  <2> DEFINE map == BasicMap(Block[p], Size[p])
  <2>1. Size[p] \in Nat /\ n \in Nat /\ Block[p] \in [0 .. n - 1 -> Hashes]
    BY <1>1, FilesAssumption, QuotientBounds
  <2> DEFINE e == IF Size[p] % ChunkSize = 0 THEN ChunkSize ELSE Size[p] % ChunkSize
  <2>2. e \in 0 .. ChunkSize
    BY <2>1, LastChunkRest, ChunkingAssumption
  <2>3. map = [fileIndex |-> [c \in 0 .. n - 1 |-> c], hash |-> [c \in 0 .. n - 1 |-> Block[p][c]],
               eofIndex |-> n - 1, eofSize |-> e]
    BY DEF BasicMap
  <2> HIDE DEF n, e, map
  <2>4. Cardinality(Chunks(map)) = n
    BY <2>1, <2>3, RangeOfZero DEF Chunks
  <2>5. [c \in 0 .. n - 1 |-> Block[p][c]] \in [0 .. n - 1 -> Hashes] /\ n - 1 \in -1 .. n - 1
    BY <2>1
  <2>6. map \in [fileIndex : [0 .. n - 1 -> 0 .. n - 1], hash : [0 .. n - 1 -> Hashes],
                 eofIndex : -1 .. n - 1, eofSize : 0 .. ChunkSize]
    BY <2>2, <2>3, <2>5
  <2>7. IsChunkMap(map)
    BY <2>1, <2>4, <2>6 DEF IsChunkMap
  <2>8. QED
    BY <1>1, <2>7 DEF MapOf, map
<1>2. CASE p \notin Sources
  BY <1>2, FilesAssumption DEF Paths, Reordered, MapOf
<1>3. QED
  BY <1>1, <1>2

\* What follows for a chunk map: its chunks, their hashes, and how much of each there is.
LEMMA ChunkMapParts ==
  ASSUME NEW map, IsChunkMap(map)
  PROVE  LET n == Cardinality(Chunks(map))
         IN  /\ n \in Nat /\ Chunks(map) = 0 .. n - 1
             /\ map.fileIndex \in [0 .. n - 1 -> 0 .. n - 1]
             /\ \A c \in Chunks(map) : map.hash[c] \in Hashes
             /\ map.eofIndex \in Int /\ map.eofSize \in 0 .. ChunkSize
             /\ \A c : SizeOf(map, c) \in 0 .. ChunkSize
<1> DEFINE n == Cardinality(Chunks(map))
<1>1. /\ n \in Nat
      /\ map \in [fileIndex : [0 .. n - 1 -> 0 .. n - 1], hash : [0 .. n - 1 -> Hashes],
                  eofIndex : -1 .. n - 1, eofSize : 0 .. ChunkSize]
  BY DEF IsChunkMap
<1> HIDE DEF n
<1>2. map.fileIndex \in [0 .. n - 1 -> 0 .. n - 1] /\ map.hash \in [0 .. n - 1 -> Hashes]
  BY <1>1
<1>3. map.eofIndex \in Int /\ map.eofSize \in 0 .. ChunkSize
  BY <1>1
<1>4. Chunks(map) = 0 .. n - 1
  BY <1>2 DEF Chunks
<1>5. \A c : SizeOf(map, c) \in 0 .. ChunkSize
  BY <1>3, ChunkingAssumption DEF SizeOf
<1>6. QED
  BY <1>1, <1>2, <1>3, <1>4, <1>5 DEF n

\* Where FileIndices is an order, ChunkIndices is its inverse.
LEMMA ChunkIndexIs ==
  ASSUME NEW map, IsChunkMap(map), IsTrueMap(map), NEW i \in Chunks(map)
  PROVE  ChunkIndexOf(map, i) \in Chunks(map) /\ map.fileIndex[ChunkIndexOf(map, i)] = i
<1> DEFINE at == { c \in Chunks(map) : map.fileIndex[c] = i }
<1>1. map.fileIndex \in Bijection(Chunks(map), Chunks(map))
  BY DEF IsTrueMap
<1>2. PICK c \in Chunks(map) : map.fileIndex[c] = i
  BY <1>1 DEF Bijection, Surjection
<1>3. \A d \in Chunks(map) : map.fileIndex[d] = i => d = c
  BY <1>1, <1>2 DEF Bijection, Injection, IsInjective
<1>4. at = {c}
  BY <1>2, <1>3
<1>5. c \in Int
  BY ChunkMapParts
<1>6. Max(at) = c
  BY <1>4, <1>5 DEF Max
<1>7. QED
  BY <1>2, <1>4, <1>6 DEF ChunkIndexOf

\* The maps that are made of a file are true.
LEMMA BasicMapIsTrue ==
  ASSUME NEW size \in Nat, NEW blocks
  PROVE  IsTrueMap(BasicMap(blocks, size))
<1> DEFINE n == Ceiling(size)
<1> DEFINE map == BasicMap(blocks, size)
<1>1. n \in Nat
  BY QuotientBounds
<1>2. map.fileIndex = [c \in 0 .. n - 1 |-> c] /\ map.eofIndex = n - 1
  BY DEF BasicMap
<1> HIDE DEF map, n
<1>3. Chunks(map) = 0 .. n - 1 /\ Cardinality(0 .. n - 1) = n
  BY <1>1, <1>2, RangeOfZero DEF Chunks
<1>4. map.fileIndex \in Bijection(0 .. n - 1, 0 .. n - 1)
  BY <1>2 DEF Bijection, Injection, Surjection, IsInjective
<1>5. n - 1 \in 0 .. n - 1 => map.fileIndex[n - 1] = n - 1
  BY <1>2
<1>6. QED
  BY <1>2, <1>3, <1>4, <1>5 DEF IsTrueMap, map

----------------------------------------------------------------------------
(* What a thread that has an answer, or is about to, knows of its request: the rows and   *)
(* places it was made from have not changed since, but for what is added to them.         *)

Clipped(c, rows) ==
    /\ rows[c.path] # None /\ c.offset <= rows[c.path].size
    /\ c.realCount = Min({ToInt(rows[c.path].size - c.offset), c.count})

Followed(c, count) ==
    /\ c.map.eofIndex \in Chunks(c.map)
    /\ Mappable(c.offset, count) /\ ChunksOf(c.offset, count) \subseteq Chunks(c.map)

\* PlacesOf, when at says where chunks are.
Located(c, at) ==
    [ i \in ChunksOf(c.offset, c.count) |->
        [path |-> at[c.map.hash[i]].path, index |-> at[c.map.hash[i]].index,
         size |-> SizeOf(c.map, i)] ]

Answered(c, rows, at) ==
    /\ c.pc \in {"indices", "mapped"} => Clipped(c, rows)
    /\ c.pc \in {"mapped", "places", "located"} => c.map = MapOf(c.path)
    /\ c.pc \in {"places", "located"} => c.path \in Reordered
    /\ c.pc = "mapped" => Followed(c, c.realCount) /\ c.parts = PartsOf(c, c.map)
    /\ c.pc = "located" =>
         /\ Followed(c, c.count)
         /\ \A i \in ChunksOf(c.offset, c.count) : at[c.map.hash[i]] # None
         /\ c.parts = MapChunks(c.offset, c.count, Located(c, at))

Answers == \A t \in Threads : Answered(call[t], file, place)

\* Rows keep their sizes, and places stay where they are.
RowsKept == \A p \in Paths : file[p] # None => file'[p] # None /\ file'[p].size = file[p].size
PlacesKept == \A h \in Hashes : place[h] # None => place'[h] = place[h]

LEMMA AnsweredKept ==
  ASSUME NEW c, Fits(c), Answered(c, file, place), RowsKept, PlacesKept
  PROVE  Answered(c, file', place')
<1>1. CASE c.pc \in {"indices", "mapped"}
  <2>1. c.path \in Paths
    BY <1>1 DEF Fits
  <2>2. Clipped(c, file')
    BY <1>1, <2>1 DEF Answered, Clipped, RowsKept
  <2>3. QED
    BY <1>1, <2>2 DEF Answered
<1>2. CASE c.pc = "located"
  <2>1. /\ Followed(c, c.count) /\ c.map = MapOf(c.path) /\ c.path \in Paths /\ c.path \in Reordered
        /\ \A i \in ChunksOf(c.offset, c.count) : place[c.map.hash[i]] # None
        /\ c.parts = MapChunks(c.offset, c.count, Located(c, place))
    BY <1>2 DEF Answered, Fits
  <2>2. \A i \in ChunksOf(c.offset, c.count) : c.map.hash[i] \in Hashes
    <3>1. IsChunkMap(c.map)
      BY <2>1, MapIsChunkMap
    <3>2. \A i \in Chunks(c.map) : c.map.hash[i] \in Hashes
      BY <3>1, ChunkMapParts
    <3>3. QED
      BY <2>1, <3>2 DEF Followed
  <2>3. \A i \in ChunksOf(c.offset, c.count) : place'[c.map.hash[i]] = place[c.map.hash[i]]
    BY <2>1, <2>2 DEF PlacesKept
  <2>4. Located(c, place') = Located(c, place)
    BY <2>3 DEF Located
  <2>5. QED
    BY <1>2, <2>1, <2>3, <2>4 DEF Answered
<1>3. CASE c.pc \notin {"indices", "mapped", "located"}
  BY <1>3 DEF Answered
<1>4. QED
  BY <1>1, <1>2, <1>3

LEMMA AnswerStep ==
  ASSUME Inv, Answers, NEW t \in Threads, NEW R, Answered(R, file', place'), Goto(t, R),
         RowsKept, PlacesKept
  PROVE  Answers'
<1>1. call' = [call EXCEPT ![t] = R] /\ DOMAIN call = Threads /\ \A u \in Threads : Fits(call[u])
  BY DEF Goto, Inv, Calls
<1>2. ASSUME NEW u \in Threads PROVE Answered(call'[u], file', place')
  <2>1. CASE u = t
    BY <1>1, <2>1
  <2>2. CASE u # t
    <3>1. call'[u] = call[u]
      BY <1>1, <2>2
    <3>2. Answered(call[u], file', place')
      BY <1>1, AnsweredKept DEF Answers
    <3>3. QED
      BY <3>1, <3>2
  <2>3. QED
    BY <2>1, <2>2
<1>3. QED
  BY <1>2 DEF Answers

LEMMA OthersAnswer ==
  ASSUME Inv, Answers, UNCHANGED call, RowsKept, PlacesKept
  PROVE  Answers'
<1>1. ASSUME NEW u \in Threads PROVE Answered(call'[u], file', place')
  <2>1. Fits(call[u]) /\ Answered(call[u], file, place)
    BY DEF Inv, Calls, Answers
  <2>2. Answered(call[u], file', place')
    BY <2>1, AnsweredKept
  <2>3. QED
    BY <2>2
<1>2. QED
  BY <1>1 DEF Answers

\* A call that is at none of these steps.
LEMMA NothingAnswered ==
  ASSUME NEW c, NEW rows, NEW at, c.pc \notin {"indices", "mapped", "places", "located"}
  PROVE  Answered(c, rows, at)
BY DEF Answered

LEMMA PlacesAdded ==
  ASSUME NEW p, NEW chunks, NEW hash, place' = WithPlaces(p, chunks, hash)
  PROVE  PlacesKept
BY DEF PlacesKept, WithPlaces

LEMMA TablesKept ==
  ASSUME UNCHANGED <<file, place>>
  PROVE  RowsKept /\ PlacesKept
BY DEF RowsKept, PlacesKept

LEMMA InitAnswers ==
  ASSUME Init
  PROVE  Answers
BY DEF Init, Answers, Answered, Idle

LEMMA SourceAnswers ==
  ASSUME Inv, Answers, NEW t \in Threads,
         \/ \E p \in Sources : CreateFile(t, p)
         \/ StoreChunks(t) \/ StoreMap(t) \/ PadFile(t) \/ LeaveWithoutMap(t) \/ TakeAnswer(t) \/ Fail(t)
  PROVE  Answers'
<1>0. DOMAIN file = Paths /\ \A u \in Threads : Fits(call[u])
  BY DEF Inv, Rows, Calls
<1>1. ASSUME NEW p \in Sources, CreateFile(t, p) PROVE Answers'
  <2> DEFINE R == [Idle EXCEPT !.pc = "hash", !.path = p]
  <2>1. R.pc = "hash" /\ Goto(t, R) /\ place' = place
    BY <1>1 DEF CreateFile, Idle
  <2>2. file[p] = None /\ \A q \in Paths : q # p => file'[q] = file[q]
    BY <1>0, <1>1 DEF CreateFile, HasRow
  <2>3. RowsKept /\ PlacesKept
    BY <2>1, <2>2 DEF RowsKept, PlacesKept
  <2> HIDE DEF R
  <2>4. QED
    BY <2>1, <2>3, NothingAnswered, AnswerStep
<1>2. ASSUME StoreChunks(t) PROVE Answers'
  <2> DEFINE p == PathOf(t)
  <2> DEFINE R == [call[t] EXCEPT !.pc = "map", !.map = BasicMap(Block[p], Size[p])]
  <2>1. Goto(t, R) /\ place' = WithPlaces(p, ChunksOfSource(p), Block[p]) /\ file' = file
    BY <1>2 DEF StoreChunks
  <2>2. R.pc = "map"
    BY <1>0 DEF Fits
  <2>3. RowsKept /\ PlacesKept
    BY <2>1, PlacesAdded DEF RowsKept
  <2> HIDE DEF R
  <2>4. QED
    BY <2>1, <2>2, <2>3, NothingAnswered, AnswerStep
<1>3. ASSUME StoreMap(t) PROVE Answers'
  <2> DEFINE p == PathOf(t)
  <2> DEFINE R == [call[t] EXCEPT !.pc = "pad"]
  <2>1. /\ Goto(t, R) /\ place' = place /\ HasRow(p)
        /\ file' = [file EXCEPT ![p] = [file[p] EXCEPT !.map = call[t].map]]
    BY <1>3 DEF StoreMap
  <2>2. R.pc = "pad" /\ p \in Paths
    BY <1>0, <1>3 DEF Fits, StoreMap, At, PathOf
  <2>3. /\ file[p] \in [map : {None, MapOf(p)}, size : Int]
    BY <2>1, <2>2 DEF Inv, Rows, HasRow
  <2>4. \A q \in Paths : file[q] # None => file'[q] # None /\ file'[q].size = file[q].size
    <3>1. \A q \in Paths : q # p => file'[q] = file[q]
      BY <1>0, <2>1
    <3>2. file'[p] = [file[p] EXCEPT !.map = call[t].map]
      BY <1>0, <2>1, <2>2
    <3>3. file'[p].size = file[p].size
      BY <2>3, <3>2
    <3>4. file'[p] # None
      <4>1. file'[p] \in [map : {None, MapOf(p)}, size : Int]
        <5>1. call[t].map \in {None, MapOf(p)}
          BY <1>0, <1>3 DEF Fits, StoreMap, At, PathOf
        <5>2. QED
          BY <2>3, <3>2, <5>1
      <4>2. QED
        BY <2>2, <4>1, FilesAssumption
    <3>5. QED
      BY <3>1, <3>3, <3>4
  <2>5. RowsKept /\ PlacesKept
    BY <2>1, <2>4 DEF RowsKept, PlacesKept
  <2> HIDE DEF R
  <2>6. QED
    BY <2>1, <2>2, <2>5, NothingAnswered, AnswerStep
<1>4. ASSUME PadFile(t) \/ LeaveWithoutMap(t) \/ TakeAnswer(t) \/ Fail(t) PROVE Answers'
  <2>1. Goto(t, Idle) /\ UNCHANGED <<file, place>>
    BY <1>4 DEF PadFile, LeaveWithoutMap, TakeAnswer, Fail, Throws
  <2>2. Idle.pc = "idle"
    BY DEF Idle
  <2>3. QED
    BY <2>1, <2>2, TablesKept, NothingAnswered, AnswerStep
<1>5. QED
  BY <1>1, <1>2, <1>3, <1>4

LEMMA ThrowsAnswers ==
  ASSUME Inv, Answers, NEW t \in Threads, Throws(t)
  PROVE  Answers'
<1>1. Goto(t, Idle) /\ UNCHANGED <<file, place>> /\ Idle.pc = "idle"
  BY DEF Throws, Idle
<1>2. QED
  BY <1>1, TablesKept, NothingAnswered, AnswerStep

LEMMA RequestIs ==
  ASSUME NEW pc, NEW p, NEW r
  PROVE  Request(pc, p, r) =
            [pc |-> pc, path |-> p, offset |-> r.offset, count |-> r.count, realCount |-> 0,
             map |-> None, parts |-> <<>>]
<1> DEFINE A == [Idle EXCEPT !.pc = pc]
<1> DEFINE B == [A EXCEPT !.path = p]
<1> DEFINE C == [B EXCEPT !.offset = r.offset]
<1> DEFINE D == [C EXCEPT !.count = r.count]
<1>1. Request(pc, p, r) = D
  BY DEF Request
<1> HIDE DEF A, B, C, D
<1>2. A = [pc |-> pc, path |-> None, offset |-> 0, count |-> 0, realCount |-> 0,
           map |-> None, parts |-> <<>>]
  BY DEF A, Idle
<1>3. B = [pc |-> pc, path |-> p, offset |-> 0, count |-> 0, realCount |-> 0,
           map |-> None, parts |-> <<>>]
  BY <1>2 DEF B
<1>4. C = [pc |-> pc, path |-> p, offset |-> r.offset, count |-> 0, realCount |-> 0,
           map |-> None, parts |-> <<>>]
  BY <1>3 DEF C
<1>5. D = [pc |-> pc, path |-> p, offset |-> r.offset, count |-> r.count, realCount |-> 0,
           map |-> None, parts |-> <<>>]
  BY <1>4 DEF D
<1>6. QED
  BY <1>1, <1>5

LEMMA ClipToSizeAnswers ==
  ASSUME Inv, Answers, NEW t \in Threads, NEW p \in Paths, NEW r \in Ranges, ClipToSize(t, p, r)
  PROVE  Answers'
<1> DEFINE k == Min({ToInt(file[p].size - r.offset), r.count})
<1> DEFINE R == [Request("indices", p, r) EXCEPT !.realCount = k]
<1>1. /\ Goto(t, R) /\ UNCHANGED <<file, place>>
      /\ file[p] # None /\ r.offset <= file[p].size
  BY DEF ClipToSize, HasRow
<1>2. R = [pc |-> "indices", path |-> p, offset |-> r.offset, count |-> r.count, realCount |-> k,
           map |-> None, parts |-> <<>>]
  BY RequestIs
<1>3. R.pc = "indices" /\ R.path = p /\ R.offset = r.offset /\ R.count = r.count /\ R.realCount = k
  BY <1>2
<1> HIDE DEF R
<1>4. Answered(R, file', place')
  BY <1>1, <1>3 DEF Answered, Clipped
<1>5. QED
  BY <1>1, <1>4, TablesKept, AnswerStep

LEMMA GetRowAnswers ==
  ASSUME Inv, Answers, NEW t \in Threads, NEW p \in Reordered, NEW r \in Ranges, GetRow(t, p, r)
  PROVE  Answers'
<1> DEFINE R == [Request("places", p, r) EXCEPT !.map = file[p].map]
<1>1. Goto(t, R) /\ UNCHANGED <<file, place>> /\ HasMap(p) /\ p \in Paths
  BY DEF GetRow, Paths, Reordered
<1>2. file[p].map = MapOf(p)
  BY <1>1 DEF Inv, Rows, HasMap, HasRow
<1>3. R = [pc |-> "places", path |-> p, offset |-> r.offset, count |-> r.count, realCount |-> 0,
           map |-> file[p].map, parts |-> <<>>]
  BY RequestIs
<1>4. R.pc = "places" /\ R.path = p /\ R.map = MapOf(p)
  BY <1>2, <1>3
<1> HIDE DEF R
<1>5. Answered(R, file', place')
  BY <1>4 DEF Answered
<1>6. QED
  BY <1>1, <1>5, TablesKept, AnswerStep

LEMMA GetChunkIndicesAnswers ==
  ASSUME Inv, Answers, NEW t \in Threads, GetChunkIndices(t)
  PROVE  Answers'
<1> DEFINE c == call[t]
<1> DEFINE map == file[c.path].map
<1> DEFINE parts == PartsOf(c, map)
<1> DEFINE R == [c EXCEPT !.pc = "mapped", !.map = map, !.parts = parts]
<1>1. Fits(c) /\ c.pc = "indices" /\ c.path \in Paths /\ Clipped(c, file)
  BY DEF Inv, Calls, Fits, GetChunkIndices, At, Answers, Answered
<1>2. \/ Throws(t)
      \/ /\ Goto(t, R) /\ UNCHANGED <<file, place>>
         /\ HasMap(c.path) /\ map.eofIndex \in Chunks(map)
         /\ Mappable(c.offset, c.realCount) /\ ChunksOf(c.offset, c.realCount) \subseteq Chunks(map)
  BY DEF GetChunkIndices
<1>3. ASSUME Goto(t, R), UNCHANGED <<file, place>>, HasMap(c.path), map.eofIndex \in Chunks(map),
             Mappable(c.offset, c.realCount), ChunksOf(c.offset, c.realCount) \subseteq Chunks(map)
      PROVE  Answers'
  <2>1. map = MapOf(c.path)
    BY <1>1, <1>3 DEF Inv, Rows, HasMap, HasRow
  <2>2. /\ R.pc = "mapped" /\ R.map = map /\ R.parts = parts /\ R.path = c.path
        /\ R.offset = c.offset /\ R.count = c.count /\ R.realCount = c.realCount
    <3> HIDE DEF map, parts
    <3>1. QED
      BY <1>1 DEF Fits
  <2>3. parts = PartsOf(R, map)
    <3> HIDE DEF map, R
    <3>1. QED
      BY <2>2 DEF PartsOf
  <2> HIDE DEF R, map, parts
  <2>4. Clipped(R, file')
    BY <1>1, <1>3, <2>2 DEF Clipped
  <2>5. Followed(R, R.realCount)
    BY <1>3, <2>2 DEF Followed
  <2>6. Answered(R, file', place')
    BY <2>1, <2>2, <2>3, <2>4, <2>5 DEF Answered
  <2>7. QED
    BY <1>3, <2>6, TablesKept, AnswerStep
<1>4. QED
  BY <1>2, <1>3, ThrowsAnswers

LEMMA GetChunkLocationsAnswers ==
  ASSUME Inv, Answers, NEW t \in Threads, GetChunkLocations(t)
  PROVE  Answers'
<1> DEFINE c == call[t]
<1> DEFINE parts == PlacesOf(c)
<1> DEFINE R == [c EXCEPT !.pc = "located", !.parts = parts]
<1>1. Fits(c) /\ c.pc = "places" /\ c.path \in Reordered /\ c.map = MapOf(c.path)
  BY DEF Inv, Calls, GetChunkLocations, At, Answers, Answered
<1>2. \/ Throws(t)
      \/ /\ Goto(t, R) /\ UNCHANGED <<file, place>>
         /\ Followed(c, c.count)
         /\ \A i \in ChunksOf(c.offset, c.count) : place[c.map.hash[i]] # None
  BY DEF GetChunkLocations, Followed
<1>3. ASSUME Goto(t, R), UNCHANGED <<file, place>>, Followed(c, c.count),
             \A i \in ChunksOf(c.offset, c.count) : place[c.map.hash[i]] # None
      PROVE  Answers'
  <2>1. /\ R.pc = "located" /\ R.map = c.map /\ R.parts = parts /\ R.path = c.path
        /\ R.offset = c.offset /\ R.count = c.count
    <3> HIDE DEF parts
    <3>1. QED
      BY <1>1 DEF Fits
  <2>2. parts = MapChunks(c.offset, c.count, Located(c, place))
    BY DEF PlacesOf, Located
  <2> HIDE DEF R, parts
  <2>3. Located(R, place) = Located(c, place)
    BY <2>1 DEF Located
  <2>4. Followed(R, R.count)
    BY <1>3, <2>1 DEF Followed
  <2>5. \A i \in ChunksOf(R.offset, R.count) : place[R.map.hash[i]] # None
    BY <1>3, <2>1
  <2>6. R.parts = MapChunks(R.offset, R.count, Located(R, place))
    BY <2>1, <2>2, <2>3
  <2>7. Answered(R, file, place)
    BY <1>1, <2>1, <2>4, <2>5, <2>6 DEF Answered
  <2>8. Answered(R, file', place')
    BY <1>3, <2>7
  <2>9. QED
    BY <1>3, <2>8, TablesKept, AnswerStep
<1>4. QED
  BY <1>2, <1>3, ThrowsAnswers

LEMMA FileAnswers ==
  ASSUME Inv, Answers,
         \/ \E p \in Virtuals : AddFile(p)
         \/ \E p \in Downloads :
              \/ AddFileToDownload(p)
              \/ \E r \in Parts : WritePart(p, r) \/ RegisterFilePart(p, r)
  PROVE  Answers'
<1>1. ASSUME NEW p, NEW row, ~HasRow(p), file' = [file EXCEPT ![p] = row], UNCHANGED <<place, call>>
      PROVE  Answers'
  <2>1. file[p] = None /\ \A q \in Paths : q # p => file'[q] = file[q]
    BY <1>1 DEF Inv, Rows, HasRow
  <2>2. RowsKept /\ PlacesKept
    BY <1>1, <2>1 DEF RowsKept, PlacesKept
  <2>3. QED
    BY <1>1, <2>2, OthersAnswer
<1>2. ASSUME NEW p \in Virtuals, AddFile(p) PROVE Answers'
  BY <1>1, <1>2 DEF AddFile
<1>3. ASSUME NEW p \in Downloads, AddFileToDownload(p) PROVE Answers'
  BY <1>1, <1>3 DEF AddFileToDownload
<1>4. ASSUME NEW p \in Downloads, NEW r \in Parts, WritePart(p, r) PROVE Answers'
  BY <1>4, TablesKept, OthersAnswer DEF WritePart
<1>5. ASSUME NEW p \in Downloads, NEW r \in Parts, RegisterFilePart(p, r) PROVE Answers'
  <2>1. PlacesKept
    BY <1>5, PlacesAdded DEF RegisterFilePart
  <2>2. UNCHANGED call /\ RowsKept
    BY <1>5 DEF RegisterFilePart, RowsKept
  <2>3. QED
    BY <2>1, <2>2, OthersAnswer
<1>6. QED
  BY <1>2, <1>3, <1>4, <1>5

LEMMA NextAnswers ==
  ASSUME Inv, Answers, [Next]_vars
  PROVE  Answers'
<1>1. CASE UNCHANGED vars
  BY <1>1, TablesKept, OthersAnswer DEF vars
<1>2. ASSUME NEW t \in Threads, NEW p \in Paths, NEW r \in Ranges, ClipToSize(t, p, r) PROVE Answers'
  BY <1>2, ClipToSizeAnswers
<1>3. ASSUME NEW t \in Threads, NEW p \in Reordered, NEW r \in Ranges, GetRow(t, p, r) PROVE Answers'
  BY <1>3, GetRowAnswers
<1>4. ASSUME NEW t \in Threads, GetChunkIndices(t) PROVE Answers'
  BY <1>4, GetChunkIndicesAnswers
<1>5. ASSUME NEW t \in Threads, GetChunkLocations(t) PROVE Answers'
  BY <1>5, GetChunkLocationsAnswers
<1>6. ASSUME NEW t \in Threads,
             \/ \E p \in Sources : CreateFile(t, p)
             \/ StoreChunks(t) \/ StoreMap(t) \/ PadFile(t) \/ LeaveWithoutMap(t) \/ TakeAnswer(t) \/ Fail(t)
      PROVE  Answers'
  BY <1>6, SourceAnswers
<1>7. ASSUME \/ \E p \in Virtuals : AddFile(p)
             \/ \E p \in Downloads :
                  \/ AddFileToDownload(p)
                  \/ \E r \in Parts : WritePart(p, r) \/ RegisterFilePart(p, r)
      PROVE  Answers'
  BY <1>7, FileAnswers
<1>8. CASE Crash
  BY <1>8 DEF Crash, Idle, Answers, Answered
<1>9. QED
  BY <1>1, <1>2, <1>3, <1>4, <1>5, <1>6, <1>7, <1>8 DEF Next

----------------------------------------------------------------------------
(* The answers are the range *)

LEMMA QuotientIsLess ==
  ASSUME NEW n \in Nat
  PROVE  n \div ChunkSize \in Nat /\ n \div ChunkSize <= n
<1> DEFINE q == n \div ChunkSize
<1>1. q \in Nat /\ q * ChunkSize <= n
  BY QuotientBounds
<1> HIDE DEF q
<1>2. q <= q * ChunkSize
  BY <1>1, ChunkingAssumption
<1>3. q * ChunkSize \in Int
  BY <1>1, NextMultiple
<1>4. QED
  BY <1>1, <1>2, <1>3 DEF q

LEMMA MinIs ==
  ASSUME NEW i \in Nat, NEW j \in Nat
  PROVE  Min({i, j}) \in Nat /\ Min({i, j}) <= i /\ Min({i, j}) <= j
<1>1. \E x \in {i, j} : \A y \in {i, j} : x <= y
  <2>1. CASE i <= j
    BY <2>1
  <2>2. CASE j <= i
    BY <2>2
  <2>3. QED
    BY <2>1, <2>2
<1>2. QED
  BY <1>1 DEF Min

\* A byte of a range lies in one of its chunks.
LEMMA ByteOfRange ==
  ASSUME NEW offset \in Nat, NEW count \in Nat, (offset + count) \div ChunkSize <= MaxInt,
         NEW b \in offset .. offset + count - 1
  PROVE  b \in Nat /\ b \div ChunkSize \in ChunksOf(offset, count)
<1>1. b \in Nat /\ offset + count - 1 \in Nat /\ offset <= b /\ b <= offset + count - 1
  OBVIOUS
<1>2. /\ offset \div ChunkSize <= b \div ChunkSize
      /\ b \div ChunkSize <= (offset + count - 1) \div ChunkSize
  BY <1>1, Quotients
<1>3. /\ FirstChunk(offset) = offset \div ChunkSize
      /\ LastChunk(offset + count) = (offset + count - 1) \div ChunkSize
  BY RangeEnds, LastByte
<1>4. /\ b \div ChunkSize \in Nat /\ offset \div ChunkSize \in Nat
      /\ (offset + count - 1) \div ChunkSize \in Nat
  BY <1>1, ChunkOfByte
<1>5. QED
  BY <1>1, <1>2, <1>3, <1>4 DEF ChunksOf

\* The parts of a range, taken through the order of a true map.
LEMMA MappedRange ==
  ASSUME NEW c, NEW n \in Nat, c.offset \in Nat, c.realCount = n, c.offset + n <= MaxInt,
         IsChunkMap(c.map), IsTrueMap(c.map), Followed(c, n),
         (Cardinality(Chunks(c.map)) - 1) * ChunkSize <= MaxInt,
         c.parts = PartsOf(c, c.map)
  PROVE  BytesOfParts(c.parts) =
           [k \in 1 .. n |->
              LET b == c.offset + k - 1
              IN  <<c.path, ChunkIndexOf(c.map, b \div ChunkSize) * ChunkSize + (b % ChunkSize)>>]
<1> DEFINE offset == c.offset
<1> DEFINE map == c.map
<1> DEFINE of == Cardinality(Chunks(map))
<1> DEFINE mapped == [i \in ChunksOf(offset, n) |->
                        [path |-> c.path, index |-> ChunkIndexOf(map, i),
                         size |-> SizeOf(map, ChunkIndexOf(map, i))]]
<1>1. offset + n \in Nat /\ offset \in Nat /\ (offset + n) \div ChunkSize <= MaxInt
  BY QuotientIsLess, ChunkingAssumption
<1>2. c.parts = MapChunks(offset, n, mapped)
  BY DEF PartsOf
<1>3. /\ of \in Nat /\ Chunks(map) = 0 .. of - 1 /\ map.eofIndex \in Int
      /\ map.eofSize \in 0 .. ChunkSize /\ \A i : SizeOf(map, i) \in 0 .. ChunkSize
  BY ChunkMapParts
<1>4. ASSUME NEW i \in ChunksOf(offset, n)
      PROVE  /\ ChunkIndexOf(map, i) \in Chunks(map)
             /\ ChunkIndexOf(map, i) = map.eofIndex <=> i = of - 1
  <2>1. i \in Chunks(map) /\ map.eofIndex \in Chunks(map)
    BY DEF Followed
  <2>2. /\ ChunkIndexOf(map, i) \in Chunks(map) /\ map.fileIndex[ChunkIndexOf(map, i)] = i
        /\ map.fileIndex[map.eofIndex] = of - 1
    BY <2>1, ChunkIndexIs DEF IsTrueMap
  <2>3. /\ of - 1 \in Chunks(map)
        /\ ChunkIndexOf(map, of - 1) \in Chunks(map) /\ map.fileIndex[ChunkIndexOf(map, of - 1)] = of - 1
    <3>1. of - 1 \in Chunks(map)
      BY <1>3, <2>1
    <3>2. QED
      BY <3>1, ChunkIndexIs
  <2>4. \A d1, d2 \in Chunks(map) : map.fileIndex[d1] = map.fileIndex[d2] => d1 = d2
    BY DEF IsTrueMap, Bijection, Injection, IsInjective
  <2>5. ChunkIndexOf(map, of - 1) = map.eofIndex
    BY <2>1, <2>2, <2>3, <2>4
  <2>6. QED
    BY <2>2, <2>5
<1>5. Fitting(offset, n, mapped)
  <2>1. ASSUME NEW i \in ChunksOf(offset, n)
        PROVE  /\ mapped[i].index \in Nat /\ mapped[i].index * ChunkSize <= MaxInt
               /\ mapped[i].size \in 0 .. ChunkSize
    <3>1. PICK x \in 0 .. of - 1 : x = ChunkIndexOf(map, i) /\ mapped[i].index = x
      BY <1>3, <1>4
    <3>2. x * ChunkSize <= (of - 1) * ChunkSize
      BY <1>3, Multiples, x \in Int, of - 1 \in Int, x <= of - 1
    <3>3. x * ChunkSize \in Int /\ (of - 1) * ChunkSize \in Int /\ (of - 1) * ChunkSize <= MaxInt
      BY <1>3, NextMultiple, x \in Int, of - 1 \in Int
    <3>4. x * ChunkSize <= MaxInt
      BY <3>2, <3>3, ChunkingAssumption
    <3>5. QED
      BY <1>3, <3>1, <3>4
  <2>2. QED
    BY <2>1 DEF Fitting
<1>6. of - 1 \in Int /\ \A i \in ChunksOf(offset, n) :
        mapped[i].size = IF i = of - 1 THEN map.eofSize ELSE ChunkSize
  <2>1. ASSUME NEW i \in ChunksOf(offset, n)
        PROVE  mapped[i].size = IF i = of - 1 THEN map.eofSize ELSE ChunkSize
    BY <1>4 DEF SizeOf
  <2>2. QED
    BY <1>3, <2>1
<1>7. Mappable(offset, n)
  BY DEF Followed
<1>8. ~Inside(offset, n, of - 1)
  <2>1. (offset + n - 1) \div ChunkSize = LastChunk(offset + n)
    BY <1>1, LastByte
  <2>2. LastChunk(offset + n) \in ChunksOf(offset, n)
    BY <1>1, <1>7, RangeEnds DEF Mappable, ChunksOf
  <2>3. LastChunk(offset + n) \in 0 .. of - 1
    BY <1>3, <2>2 DEF Followed
  <2> HIDE DEF of
  <2>4. ~(of - 1 \in (offset \div ChunkSize) + 1 .. LastChunk(offset + n) - 1)
    BY <1>3, <2>3
  <2>5. QED
    BY <2>1, <2>4 DEF Inside
<1> HIDE DEF mapped, of, map, offset
<1>9. Gap(offset, n, of - 1, map.eofSize) = 0 /\ \A b : ByteAfter(offset, n, of - 1, map.eofSize, b) = b
  BY <1>8 DEF Gap, ByteAfter
<1>10. BytesOfParts(c.parts) = [k \in 1 .. n |-> ByteIn(mapped, offset + k - 1)]
  <2>1. BytesOfParts(MapChunks(offset, n, mapped)) =
          [k \in 1 .. n - Gap(offset, n, of - 1, map.eofSize) |->
             ByteIn(mapped, ByteAfter(offset, n, of - 1, map.eofSize, offset + k - 1))]
    <3>1. PICK e \in Int, z \in 0 .. ChunkSize : e = of - 1 /\ z = map.eofSize
      BY <1>3, <1>6
    <3>2. \A i \in ChunksOf(offset, n) : mapped[i].size = IF i = e THEN z ELSE ChunkSize
      BY <1>6, <3>1
    <3>3. BytesOfParts(MapChunks(offset, n, mapped)) =
            [k \in 1 .. n - Gap(offset, n, e, z) |-> ByteIn(mapped, ByteAfter(offset, n, e, z, offset + k - 1))]
      <4>1. MayMap(offset, n, mapped, e, z)
        BY <1>1, <1>5, <1>7, <3>2 DEF MayMap
      <4>2. BytesOfParts(MapChunks(offset, n, mapped)) = BytesOfRange(offset, n, mapped, e, z)
        BY <4>1, RangeOfParts
      <4>3. QED
        BY <4>2 DEF BytesOfRange
    <3>4. QED
      BY <3>1, <3>3
  <2>2. n - 0 = n
    OBVIOUS
  <2>3. QED
    BY <1>2, <1>9, <2>1, <2>2
<1>11. ASSUME NEW k \in 1 .. n
       PROVE  LET b == offset + k - 1
              IN  ByteIn(mapped, b) =
                    <<c.path, ChunkIndexOf(map, b \div ChunkSize) * ChunkSize + (b % ChunkSize)>>
  <2>1. PICK b \in offset .. offset + n - 1 : b = offset + k - 1
    BY <1>1
  <2>2. b \div ChunkSize \in ChunksOf(offset, n)
    BY <1>1, ByteOfRange
  <2>3. QED
    BY <2>1, <2>2 DEF ByteIn, mapped
<1>12. QED
  BY <1>10, <1>11 DEF offset, map

LEMMA InvMappedRange ==
  ASSUME Inv, Answers
  PROVE  MappedIsRange
<1> SUFFICES ASSUME NEW t \in Threads, At(t, "mapped"), IsTrueMap(call[t].map),
                    file[call[t].path].size <= MaxInt,
                    (Cardinality(Chunks(call[t].map)) - 1) * ChunkSize <= MaxInt
             PROVE  MappedIsTrue(call[t])
  BY DEF MappedIsRange
<1> DEFINE c == call[t]
<1> DEFINE left == file[c.path].size - c.offset
<1> DEFINE n == Min({left, c.count})
<1>1. /\ Fits(c) /\ c.pc = "mapped" /\ c.path \in Paths /\ c.offset \in Nat /\ c.count \in Nat
      /\ Clipped(c, file) /\ c.map = MapOf(c.path)
      /\ Followed(c, c.realCount) /\ c.parts = PartsOf(c, c.map)
  BY DEF Inv, Calls, Fits, At, Answers, Answered
<1>2. file[c.path].size \in Int /\ c.offset <= file[c.path].size
  BY <1>1 DEF Inv, Rows, Clipped
<1>3. left \in Nat /\ left \in 0 .. MaxInt
  BY <1>1, <1>2, ChunkingAssumption
<1>4. c.realCount = n
  BY <1>1, <1>3, ToIntSame DEF Clipped
<1>5. n \in Nat /\ n <= left
  BY <1>1, <1>3, MinIs
<1>6. c.offset + n <= MaxInt
  <2> HIDE DEF n
  <2>1. QED
    BY <1>1, <1>2, <1>5, ChunkingAssumption
<1>7. IsChunkMap(c.map)
  BY <1>1, MapIsChunkMap
<1> HIDE DEF n, left
<1>8. BytesOfParts(c.parts) =
        [k \in 1 .. n |->
           LET b == c.offset + k - 1
           IN  <<c.path, ChunkIndexOf(c.map, b \div ChunkSize) * ChunkSize + (b % ChunkSize)>>]
  BY <1>1, <1>4, <1>5, <1>6, <1>7, MappedRange
<1>9. QED
  BY <1>8 DEF MappedIsTrue, n, left

LEMMA InvLocatedRange ==
  ASSUME Inv, Answers
  PROVE  LocatedIsRange
<1> DEFINE Content(c, b) == <<c.map.hash[b \div ChunkSize], b % ChunkSize>>
<1> DEFINE Stored(x) == <<HashIn(x[1], x[2] \div ChunkSize), x[2] % ChunkSize>>
<1>1. ASSUME NEW t \in Threads, At(t, "located"),
             (call[t].offset + call[t].count) \div ChunkSize <= MaxInt,
             \A i \in ChunksOf(call[t].offset, call[t].count) :
               place[call[t].map.hash[i]].index * ChunkSize <= MaxInt
      PROVE  LET c == call[t]
                 bytes == BytesOfParts(c.parts)
             IN  [k \in DOMAIN bytes |-> Stored(bytes[k])] =
                 [k \in 1 .. c.count - Skipped(c) |-> Content(c, ByteOf(c, c.offset + k - 1))]
  <2> DEFINE c == call[t]
  <2> DEFINE offset == c.offset
  <2> DEFINE count == c.count
  <2> DEFINE map == c.map
  <2> DEFINE e == map.eofIndex
  <2> DEFINE z == map.eofSize
  <2> DEFINE mapped == Located(c, place)
  <2> DEFINE bytes == BytesOfParts(c.parts)
  <2>1. /\ Fits(c) /\ c.pc = "located" /\ c.path \in Paths /\ offset \in Nat /\ count \in Nat
        /\ map = MapOf(c.path) /\ Followed(c, count)
        /\ \A i \in ChunksOf(offset, count) : place[map.hash[i]] # None
        /\ c.parts = MapChunks(offset, count, mapped)
    BY <1>1 DEF Inv, Calls, Fits, At, Answers, Answered
  <2>2. /\ e \in Int /\ z \in 0 .. ChunkSize
        /\ \A i \in Chunks(map) : map.hash[i] \in Hashes
        /\ \A i : SizeOf(map, i) \in 0 .. ChunkSize
    BY <2>1, MapIsChunkMap, ChunkMapParts
  <2>3. ASSUME NEW i \in ChunksOf(offset, count)
        PROVE  /\ mapped[i].index \in Nat /\ mapped[i].index * ChunkSize <= MaxInt
               /\ HashIn(mapped[i].path, mapped[i].index) = map.hash[i]
               /\ mapped[i].size = IF i = e THEN z ELSE ChunkSize
               /\ mapped[i].size \in 0 .. ChunkSize
    <3>1. PICK h \in Hashes : h = map.hash[i]
      BY <2>1, <2>2 DEF Followed
    <3>2. /\ mapped[i].path = place[h].path /\ mapped[i].index = place[h].index
          /\ mapped[i].size = SizeOf(map, i)
      BY <3>1 DEF Located
    <3>3. PICK p \in Sources \cup Downloads :
            place[h] \in [path : {p}, index : ChunksOfPath(p)] /\ HashIn(p, place[h].index) = h
      BY <2>1, <3>1 DEF Inv, Places, Holds
    <3>4. place[h].path = p /\ place[h].index \in Nat
      BY <3>3, ChunksAreNat DEF Paths
    <3>5. place[h].index * ChunkSize <= MaxInt
      BY <1>1, <3>1
    <3>6. mapped[i].size = IF i = e THEN z ELSE ChunkSize
      BY <3>2 DEF SizeOf
    <3> HIDE DEF mapped
    <3>7. QED
      BY <2>2, <3>1, <3>2, <3>3, <3>4, <3>5, <3>6
  <2> HIDE DEF mapped, map, offset, count, e, z, c
  <2>4. MayMap(offset, count, mapped, e, z)
    <3>1. (offset + count) \div ChunkSize <= MaxInt /\ Mappable(offset, count)
      BY <1>1, <2>1 DEF Followed, c, offset, count
    <3>2. Fitting(offset, count, mapped)
      BY <2>3 DEF Fitting
    <3>3. QED
      BY <2>1, <2>2, <2>3, <3>1, <3>2 DEF MayMap
  <2> DEFINE gap == Gap(offset, count, e, z)
  <2> DEFINE After(b) == ByteAfter(offset, count, e, z, b)
  <2>5. count - gap \in Nat /\ bytes = BytesOfRange(offset, count, mapped, e, z)
    BY <2>1, <2>4, RangeOfParts
  <2>6. bytes = [k \in 1 .. count - gap |-> ByteIn(mapped, After(offset + k - 1))]
    BY <2>5 DEF BytesOfRange
  <2>7. /\ Skipped(c) = gap
        /\ \A b : ByteOf(c, b) = After(b)
    BY DEF Skipped, ByteOf, EndIsInside, Inside, Gap, ByteAfter, offset, count, e, z, map
  <2>8. ASSUME NEW k \in 1 .. count - gap
        PROVE  Stored(bytes[k]) = Content(c, After(offset + k - 1))
    <3>1. gap \in Nat
      BY <2>2, ChunkingAssumption DEF Gap
    <3>2. PICK b \in offset .. offset + count - 1 : b = After(offset + k - 1)
      <4>1. offset + k - 1 \in Int /\ After(offset + k - 1) \in {offset + k - 1, offset + k - 1 + gap}
        BY <2>1, <3>1 DEF ByteAfter
      <4> HIDE DEF gap, After
      <4>2. After(offset + k - 1) \in offset .. offset + count - 1
        BY <2>1, <3>1, <4>1
      <4>3. QED
        BY <4>2
    <3> DEFINE i == b \div ChunkSize
    <3> DEFINE r == b % ChunkSize
    <3>3. i \in ChunksOf(offset, count) /\ r \in 0 .. ChunkSize - 1
      <4>1. b \in Nat /\ i \in ChunksOf(offset, count)
        BY <2>1, <2>4, ByteOfRange DEF MayMap
      <4>2. QED
        BY <4>1, ChunkOfByte
    <3>4. bytes[k] = <<mapped[i].path, mapped[i].index * ChunkSize + r>>
      BY <2>6, <3>2 DEF ByteIn
    <3> HIDE DEF i, r, bytes
    <3>5. PICK x \in Nat, y \in Int : x = mapped[i].index /\ y = x * ChunkSize
      BY <2>3, <3>3, NextMultiple
    <3>6. (y + r) \div ChunkSize = x /\ (y + r) % ChunkSize = r
      <4>1. PICK v \in Int : v = y + r
        BY <3>3, <3>5
      <4>2. y <= v /\ v < y + ChunkSize /\ v - y = r
        BY <3>3, <3>5, <4>1, ChunkingAssumption
      <4>3. v \div ChunkSize = x /\ v % ChunkSize = v - y
        BY <3>5, <4>2, ByteInChunk, x \in Int
      <4>4. QED
        BY <4>1, <4>2, <4>3
    <3>7. Stored(bytes[k]) = <<HashIn(mapped[i].path, x), r>>
      BY <3>4, <3>5, <3>6
    <3>8. HashIn(mapped[i].path, x) = map.hash[i]
      BY <2>3, <3>3, <3>5
    <3>9. QED
      BY <3>2, <3>7, <3>8 DEF i, r, map
  <2>9. DOMAIN bytes = 1 .. count - gap
    BY <2>6
  <2>10. [k \in DOMAIN bytes |-> Stored(bytes[k])]
         = [k \in 1 .. count - gap |-> Content(c, After(offset + k - 1))]
    <3> HIDE DEF bytes, gap, After
    <3>1. QED
      BY <2>8, <2>9
  <2>11. QED
    BY <2>7, <2>10 DEF c, offset, count
<1>2. QED
  BY <1>1 DEF LocatedIsRange

----------------------------------------------------------------------------
(* The invariant, and with it the answers to all ranges *)

LEMMA AnswersAlways == Spec => [](Inv /\ Answers)
<1>1. Init => Inv /\ Answers
  BY InitInv, InitAnswers
<1>2. Inv /\ Answers /\ [Next]_vars => Inv' /\ Answers'
  BY NextInv, NextAnswers
<1>3. QED
  BY <1>1, <1>2, PTL DEF Spec

\* The parts with which a range of a file is answered are, byte for byte and in order, where
\* the range lies in the reordered file, whatever other threads store in between: for any
\* true map of any length, any range and any size of chunks.
THEOREM MappedRangesAreTrue == Spec => []MappedIsRange
<1>1. Inv /\ Answers => MappedIsRange
  BY InvMappedRange
<1>2. QED
  BY <1>1, AnswersAlways, PTL

\* The places with which a range of a reordered file is answered hold its bytes, in order,
\* in whichever files they lie, but for the zeroes that fill up the last chunk of the file.
THEOREM LocatedRangesAreTrue == Spec => []LocatedIsRange
<1>1. Inv /\ Answers => LocatedIsRange
  BY InvLocatedRange
<1>2. QED
  BY <1>1, AnswersAlways, PTL
=============================================================================
