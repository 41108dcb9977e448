----------------------- MODULE BitTorrentData_proofs -----------------------
(***************************************************************************)
(* What the registry says of the data in Downloads, for any number of      *)
(* hosts, names, contents and requests.                                    *)
(***************************************************************************)
EXTENDS BitTorrentManager_proofs

----------------------------------------------------------------------------
(* The inductive invariant.  It says where incomplete data comes from: a torrent is      *)
(* bringing it, or it was there at the start.                                            *)

IsPart(h, n) == data[h][n] # Absent /\ ~data[h][n].whole

PartsAreExplained ==
  \A h \in Hosts, n \in Names :
    IsPart(h, n) => Overwriting(h, n) \/ <<h, n>> \in halfAtBoot \/ phase[h] = "down"

RegisteredIsPresent ==
  \A h \in Hosts : \A n \in registry[h] : data[h][n] # Absent /\ phase[h] # "down"

\* The start-up registers with the engine what the engine does not have.
SeedsAreFresh ==
  \A h \in Hosts, n \in Names :
    n \in toSeed[h] \/ phase[h] = "down" =>
      phase[h] # "up" /\ \A v \in Versions : engine[h][n][v] = "none"

\* Another torrent than <<n, v>> of h is writing to the path of n.
OtherOverwrites(h, n, v) == \E w \in Versions \ {v} : engine[h][n][w] = "downloading"

\* A publication has found its data, and a Get that was woken has brought its own.
HasData(r) ==
  LET q == req[r]
  IN Active(r) =>
       /\ ~IsGet(q) => data[q.host][q.name] # Absent
       /\ q.pc = "enlist" /\ IsGet(q) =>
            /\ engine[q.host][q.name][q.ver] = "seeding"
            /\ data[q.host][q.name] # Absent
            /\ data[q.host][q.name].whole \/ OtherOverwrites(q.host, q.name, q.ver)

AllHaveData == \A r \in Requests : HasData(r)

\* A torrent's handler has the wait handle of a Get that waits for this torrent.
WaitsFor(r, h, n, v) ==
  /\ Active(r) /\ req[r].pc = "wait"
  /\ req[r].host = h /\ req[r].name = n /\ req[r].ver = v

HoldersWait ==
  \A h \in Hosts, n \in Names, v \in Versions, r \in Requests :
    handle[h][n][v] = r => WaitsFor(r, h, n, v)

DataInv ==
  /\ PartsAreExplained /\ RegisteredIsPresent /\ SeedsAreFresh
  /\ AllHaveData /\ HoldersWait

----------------------------------------------------------------------------
(* What steps keep.  Data, once there, is never absent again; requests touch none. *)

\* The step of a request, in what concerns data, the start-up and the engine.
RequestFrame ==
  /\ UNCHANGED <<phase, toSeed, data, halfAtBoot>>
  /\ \A h \in Hosts, n \in Names, v \in Versions :
       engine'[h][n][v] # engine[h][n][v] =>
         phase[h] = "up" /\ engine[h][n][v] = "none" /\ engine'[h][n][v] = "hashing"

LEMMA RequestStepFrame ==
  ASSUME TypeOK, AllGood, NEW r \in Requests,
         ArriveGet(r) \/ ArrivePublish(r) \/ Leave(r) \/ Step(r)
  PROVE  RequestFrame
<1>1. CASE StartDownload(r)
  <2>1. /\ req[r].host \in Hosts /\ req[r].name \in Names /\ req[r].ver \in Versions
        /\ phase[req[r].host] = "up"
    BY <1>1, ActiveIsRequest DEF StartDownload, At, AllGood, Good
  <2>2. UNCHANGED <<phase, toSeed, data, halfAtBoot>>
    BY <1>1 DEF StartDownload, diskVars
  <2>3. CASE UNCHANGED engine
    BY <2>2, <2>3 DEF RequestFrame
  <2>4. CASE /\ engine' = [engine EXCEPT ![req[r].host][req[r].name][req[r].ver] = "hashing"]
             /\ engine[req[r].host][req[r].name][req[r].ver] = "none"
    <3>1. PICK k \in Hosts, m \in Names, w \in Versions :
            k = req[r].host /\ m = req[r].name /\ w = req[r].ver
      BY <2>1
    <3>2. \A h \in Hosts, n \in Names, v \in Versions :
            engine'[h][n][v] = IF h = k /\ n = m /\ v = w THEN "hashing" ELSE engine[h][n][v]
      <4>1. engine' = [engine EXCEPT ![k][m][w] = "hashing"]
        BY <2>4, <3>1
      <4>2. engine \in [Hosts -> [Names -> [Versions -> EngineState]]]
        BY DEF TypeOK
      <4>3. QED
        BY <3>1, <4>1, <4>2, Read3
    <3>3. phase[k] = "up" /\ engine[k][m][w] = "none"
      BY <2>1, <2>4, <3>1
    <3>4. QED
      BY <2>2, <3>2, <3>3 DEF RequestFrame
  <2>5. QED
    BY <1>1, <2>3, <2>4 DEF StartDownload, Registers, Contains, processVars
<1>2. CASE ~StartDownload(r)
  <2>1. UNCHANGED <<phase, toSeed, data, halfAtBoot, engine>>
    BY <1>2 DEF ArriveGet, ArrivePublish, Leave, Step, ReadTorrent, DownloadTorrent, OpenTorrent,
                CloseTorrent, PutUrl, Enlist, CheckEngine, diskVars, processVars
  <2>2. QED
    BY <2>1 DEF RequestFrame
<1>3. QED
  BY <1>1, <1>2

\* What concerns a host alone survives the step of a request.
LEMMA RequestKeepsParts ==
  ASSUME PartsAreExplained, SeedsAreFresh, RequestFrame
  PROVE  PartsAreExplained' /\ SeedsAreFresh'
<1>1. ASSUME NEW h \in Hosts, NEW n \in Names, Overwriting(h, n) PROVE Overwriting(h, n)'
  BY <1>1 DEF Overwriting, RequestFrame
<1>2. PartsAreExplained'
  BY <1>1 DEF PartsAreExplained, IsPart, RequestFrame
<1>3. SeedsAreFresh'
  BY DEF SeedsAreFresh, RequestFrame
<1>4. QED
  BY <1>2, <1>3

\* A request that stays keeps its data.
LEMMA StaysSupplied ==
  ASSUME TypeOK, AllGood, RequestFrame, NEW s \in Requests, HasData(s), req'[s] = req[s]
  PROVE  HasData(s)'
<1>1. CASE ~Active(s)
  BY <1>1 DEF HasData, Active
<1>2. CASE Active(s)
  <2>1. req[s].host \in Hosts /\ req[s].name \in Names
    BY <1>2, ActiveIsRequest
  <2>2. ASSUME req[s].pc = "enlist", IsGet(req[s])
        PROVE  /\ engine'[req[s].host][req[s].name][req[s].ver] = "seeding"
               /\ OtherOverwrites(req[s].host, req[s].name, req[s].ver)
                    => OtherOverwrites(req[s].host, req[s].name, req[s].ver)'
    <3>1. req[s].ver \in Versions /\ engine[req[s].host][req[s].name][req[s].ver] = "seeding"
      BY <1>2, <2>2 DEF AllGood, Good, HasData
    <3>2. QED
      BY <2>1, <3>1 DEF OtherOverwrites, RequestFrame
  <2>3. data' = data
    BY DEF RequestFrame
  <2>4. QED
    BY <1>2, <2>1, <2>2, <2>3, ZenonT(30) DEF HasData, Active, IsGet
<1>3. QED
  BY <1>1, <1>2

\* How the step of a request leaves it: it has ended; or goes on, and not to the registry
\* if it is a Get; or it has arrived.
Moves(r) ==
  Active(r)' =>
    \/ /\ Active(r)
       /\ req'[r].op = req[r].op /\ req'[r].host = req[r].host /\ req'[r].name = req[r].name
       /\ req'[r].pc = "enlist" => ~IsGet(req[r])
    \/ req'[r].pc = "torrent" /\ IsGet(req'[r])
    \/ req'[r].pc = "save" /\ data[req'[r].host][req'[r].name] # Absent

LEMMA RequestStepMoves ==
  ASSUME TypeOK, AllGood, NEW r \in Requests,
         ArriveGet(r) \/ ArrivePublish(r) \/ Leave(r) \/ Step(r)
  PROVE  Moves(r)
<1> USE ConstantsAssumption
<1>1. ASSUME Fail(r) PROVE Moves(r)
  BY <1>1 DEF Fail, Moves, Active, TypeOK
<1>2. ASSUME Active(r), NEW p \in Pcs, Goto(r, p), p = "enlist" => ~IsGet(req[r]) PROVE Moves(r)
  BY <1>2, GotoMoves DEF Moved, Moves
<1>3. ASSUME Active(r) PROVE AfterTorrent(req[r]) \in Pcs \ {"enlist"}
  BY <1>3, ActiveIsRequest DEF AfterTorrent, IsGet, Ops, Pcs
<1>4. ASSUME ArriveGet(r) PROVE Moves(r)
  <2>1. PICK h \in Hosts, n \in Names, o \in {"get", "peek"} :
          req' = [req EXCEPT ![r] = [pc |-> "torrent", op |-> o, host |-> h, name |-> n,
                                     hit |-> n \in registry[h], ver |-> NoTorrent]]
    BY <1>4 DEF ArriveGet
  <2>2. req'[r] = [pc |-> "torrent", op |-> o, host |-> h, name |-> n,
                   hit |-> n \in registry[h], ver |-> NoTorrent]
    BY <2>1 DEF TypeOK
  <2>3. QED
    BY <2>2 DEF Moves, IsGet
<1>5. ASSUME ArrivePublish(r) PROVE Moves(r)
  BY <1>5 DEF ArrivePublish, Moves, TypeOK, Item
<1>6. ASSUME Leave(r) PROVE Moves(r)
  BY <1>6, <1>1 DEF Leave, Fail
<1>7. ASSUME ReadTorrent(r) \/ DownloadTorrent(r) PROVE Moves(r)
  <2>1. Active(r) /\ req[r] \in Request /\ req[r].name \in Names
    BY <1>7, ActiveIsRequest DEF ReadTorrent, DownloadTorrent, At
  <2>2. ASSUME NEW p \in Pcs \ {"enlist"}, NEW t \in TorrentBytes,
               req' = [req EXCEPT ![r] = [req[r] EXCEPT !.ver = t, !.pc = p]]
        PROVE  Moves(r)
    <3>1. Moved(r, p, t)
      BY <2>1, <2>2, GotoWithMoves
    <3>2. QED
      BY <2>1, <2>2, <3>1 DEF Moved, Moves
  <2>3. TorrentsOffered(req[r].name) \subseteq TorrentBytes /\ "save" \in Pcs \ {"enlist"}
    BY <2>1, OfferedType DEF Pcs
  <2>4. QED
    BY <1>1, <1>3, <1>7, <2>1, <2>2, <2>3 DEF ReadTorrent, DownloadTorrent, TorrentBytes
<1>8. ASSUME OpenTorrent(r) \/ CloseTorrent(r) PROVE Moves(r)
  BY <1>1, <1>2, <1>3, <1>8 DEF OpenTorrent, CloseTorrent, At, Pcs
<1>9. ASSUME PutUrl(r) PROVE Moves(r)
  BY <1>1, <1>2, <1>9 DEF PutUrl, At, Pcs, AllGood, Good
<1>10. ASSUME Enlist(r) \/ CheckEngine(r) PROVE Moves(r)
  BY <1>1, <1>2, <1>10 DEF Enlist, CheckEngine, At, Pcs
<1>11. ASSUME StartDownload(r) PROVE Moves(r)
  <2>1. AfterStart(req[r]) \in Pcs \ {"enlist"}
    BY DEF AfterStart, Pcs
  <2>2. QED
    BY <1>1, <1>2, <1>11, <2>1 DEF StartDownload, At
<1>12. QED
  BY <1>4, <1>5, <1>6, <1>7, <1>8, <1>9, <1>10, <1>11 DEF Step

\* No step is taken by a request that waits.
LEMMA WaitingStays ==
  ASSUME NEW r \in Requests, ArriveGet(r) \/ ArrivePublish(r) \/ Leave(r) \/ Step(r)
  PROVE  ~At(r, "wait")
BY DEF ArriveGet, ArrivePublish, Leave, Step, ReadTorrent, DownloadTorrent, OpenTorrent,
       CloseTorrent, PutUrl, Enlist, CheckEngine, StartDownload, At

LEMMA RequestStepHolders ==
  ASSUME Inv, HoldersWait, NEW r \in Requests,
         ArriveGet(r) \/ ArrivePublish(r) \/ Leave(r) \/ Step(r)
  PROVE  HoldersWait'
<1> USE ConstantsAssumption
<1>1. TypeOK /\ AllGood /\ OthersStay(r) /\ ~At(r, "wait")
  BY RequestStepGood, WaitingStays DEF Inv
<1>2. ASSUME NEW h \in Hosts, NEW n \in Names, NEW v \in Versions, NEW s \in Requests,
             handle[h][n][v] = s
      PROVE  WaitsFor(s, h, n, v)'
  <2>1. WaitsFor(s, h, n, v)
    BY <1>2 DEF HoldersWait
  <2>2. s # r
    BY <1>1, <2>1 DEF WaitsFor, At
  <2>3. QED
    BY <1>1, <2>1, <2>2 DEF WaitsFor, OthersStay, Active
<1>3. CASE UNCHANGED handle
  BY <1>2, <1>3 DEF HoldersWait
<1>4. CASE handle' # handle
  <2>1. StartDownload(r)
    BY <1>4 DEF ArriveGet, ArrivePublish, Leave, Step, ReadTorrent, DownloadTorrent, OpenTorrent,
                CloseTorrent, PutUrl, Enlist, CheckEngine, processVars
  <2>2. Active(r)
    BY <2>1 DEF StartDownload, At
  <2>3. PICK h \in Hosts, n \in Names, v \in Versions :
          h = req[r].host /\ n = req[r].name /\ v = req[r].ver
    BY <1>1, <2>1, <2>2, ActiveIsRequest DEF StartDownload, At, AllGood, Good
  <2>4. PICK x \in {r, NoRequest} :
          /\ handle' = [handle EXCEPT ![h][n][v] = x]
          /\ x = r => PassesHandle(req[r])
    BY <1>4, <2>1, <2>3 DEF StartDownload, processVars
  <2>5. \A k \in Hosts, m \in Names, w \in Versions :
          handle'[k][m][w] = IF k = h /\ m = n /\ w = v THEN x ELSE handle[k][m][w]
    <3> DEFINE Holders == Requests \cup {NoRequest}
    <3>1. handle \in [Hosts -> [Names -> [Versions -> Holders]]]
      BY <1>1 DEF TypeOK
    <3> HIDE DEF Holders
    <3>2. handle' = [handle EXCEPT ![h][n][v] = x]
      BY <2>4
    <3>3. QED
      BY <3>1, <3>2, Read3
  <2>6. x = r => Moved(r, "wait", v)
    <3>1. Goto(r, AfterStart(req[r]))
      BY <1>4, <2>1 DEF StartDownload, processVars
    <3>2. x = r => AfterStart(req[r]) = "wait"
      BY <2>4 DEF AfterStart
    <3>3. QED
      BY <1>1, <2>2, <2>3, <3>1, <3>2, GotoMoves DEF Pcs
  <2>7. ASSUME x = r
        PROVE  WaitsFor(r, h, n, v)'
    <3>1. Moved(r, "wait", v)
      BY <2>6, <2>7
    <3>2. req'[r] # Idle
      BY <3>1 DEF Moved, Idle
    <3>3. QED
      BY <2>3, <3>1, <3>2 DEF Moved, Active, WaitsFor
  <2>8. QED
    BY <1>2, <2>4, <2>5, <2>7 DEF HoldersWait
<1>5. QED
  BY <1>3, <1>4

\* The steps of requests keep the invariant: whoever registers a name has its data.
LEMMA RequestStepData ==
  ASSUME Inv, DataInv, NEW r \in Requests,
         ArriveGet(r) \/ ArrivePublish(r) \/ Leave(r) \/ Step(r)
  PROVE  DataInv'
<1>1. TypeOK /\ AllGood /\ OthersStay(r) /\ RequestFrame /\ Moves(r)
  BY RequestStepGood, RequestStepFrame, RequestStepMoves DEF Inv
<1>2. PartsAreExplained' /\ SeedsAreFresh' /\ HoldersWait'
  BY <1>1, RequestKeepsParts, RequestStepHolders DEF DataInv
<1>3. RegisteredIsPresent'
  <2>1. UNCHANGED <<phase, data>>
    BY <1>1 DEF RequestFrame
  <2>2. CASE UNCHANGED registry
    BY <2>1, <2>2 DEF DataInv, RegisteredIsPresent
  <2>3. CASE registry' # registry
    <3>1. Enlist(r)
      BY <2>3 DEF ArriveGet, ArrivePublish, Leave, Step, ReadTorrent, DownloadTorrent, OpenTorrent,
                  CloseTorrent, PutUrl, CheckEngine, StartDownload
    <3>2. /\ Active(r) /\ req[r].pc = "enlist"
          /\ registry' = [registry EXCEPT ![req[r].host] = @ \cup {req[r].name}]
      BY <2>3, <3>1 DEF Enlist, At
    <3>3. data[req[r].host][req[r].name] # Absent /\ phase[req[r].host] = "up"
      BY <1>1, <3>2 DEF DataInv, AllHaveData, HasData, AllGood, Good
    <3>4. \A h \in Hosts : registry'[h] \subseteq
            registry[h] \cup (IF h = req[r].host THEN {req[r].name} ELSE {})
      BY <1>1, <3>2 DEF TypeOK
    <3>5. QED
      BY <2>1, <3>3, <3>4 DEF DataInv, RegisteredIsPresent
  <2>4. QED
    BY <2>2, <2>3
<1>4. AllHaveData'
  <2>1. ASSUME NEW s \in Requests \ {r} PROVE HasData(s)'
    BY <1>1, <2>1, StaysSupplied DEF DataInv, AllHaveData, OthersStay
  <2>2. HasData(r)'
    <3>1. HasData(r) /\ data' = data
      BY <1>1 DEF DataInv, AllHaveData, RequestFrame
    <3>2. QED
      BY <1>1, <3>1 DEF Moves, HasData, Active, IsGet
  <2>3. QED
    BY <2>1, <2>2 DEF AllHaveData
<1>5. QED
  BY <1>2, <1>3, <1>4 DEF DataInv

----------------------------------------------------------------------------
(* The engine, the user and restarts *)

LEMMA WholeIsThere ==
  ASSUME NEW v \in Versions, NEW b \in BOOLEAN
  PROVE  [ver |-> v, whole |-> b] # Absent
BY ConstantsAssumption

\* One torrent of h goes from one state to another.
LEMMA EngineMoves ==
  ASSUME TypeOK, NEW h \in Hosts, NEW n \in Names, NEW v \in Versions, NEW x
  PROVE  \A k \in Hosts, m \in Names, w \in Versions :
           [engine EXCEPT ![h][n][v] = x][k][m][w] = IF k = h /\ m = n /\ w = v THEN x ELSE engine[k][m][w]
<1>1. engine \in [Hosts -> [Names -> [Versions -> EngineState]]]
  BY DEF TypeOK
<1>2. QED
  BY <1>1, Read3

LEMMA DataMoves ==
  ASSUME TypeOK, NEW h \in Hosts, NEW n \in Names, NEW x
  PROVE  \A k \in Hosts, m \in Names :
           [data EXCEPT ![h][n] = x][k][m] = IF k = h /\ m = n THEN x ELSE data[k][m]
<1> DEFINE Contents == Item \cup {Absent}
<1>1. data \in [Hosts -> [Names -> Contents]]
  BY DEF TypeOK
<1> HIDE DEF Contents
<1>2. QED
  BY <1>1, Read2

\* A request that is active is where the invariant speaks of it.
LEMMA ActiveIsPlaced ==
  ASSUME TypeOK, AllGood, NEW r \in Requests, Active(r)
  PROVE  /\ req[r].host \in Hosts /\ req[r].name \in Names /\ phase[req[r].host] = "up"
         /\ req[r].pc = "enlist" => req[r].ver \in Versions
BY ActiveIsRequest DEF AllGood, Good

LEMMA HashingData ==
  ASSUME Inv, DataInv, NEW h \in Hosts, NEW n \in Names, NEW v \in Versions, HashingDone(h, n, v)
  PROVE  DataInv'
<1>1. TypeOK /\ AllGood /\ UNCHANGED <<phase, toSeed, data, registry, handle, req, halfAtBoot>>
  BY DEF Inv, HashingDone, diskVars
<1>2. \A k \in Hosts, m \in Names, w \in Versions :
        engine[k][m][w] # "hashing" => engine'[k][m][w] = engine[k][m][w]
  BY <1>1, EngineMoves DEF HashingDone
<1>3. PartsAreExplained' /\ SeedsAreFresh' /\ RegisteredIsPresent'
  BY <1>1, <1>2 DEF DataInv, PartsAreExplained, IsPart, Overwriting, SeedsAreFresh, RegisteredIsPresent
<1>4. HoldersWait'
  BY <1>1 DEF DataInv, HoldersWait, WaitsFor, Active
<1>5. AllHaveData'
  <2>1. SUFFICES ASSUME NEW r \in Requests, Active(r) PROVE HasData(r)'
    BY <1>1 DEF AllHaveData, HasData, Active
  <2>2. HasData(r) /\ req[r].host \in Hosts /\ req[r].name \in Names
        /\ (req[r].pc = "enlist" => req[r].ver \in Versions)
    BY <1>1, <2>1, ActiveIsPlaced DEF DataInv, AllHaveData
  <2>3. QED
    BY <1>1, <1>2, <2>1, <2>2 DEF HasData, Active, IsGet, OtherOverwrites
<1>6. QED
  BY <1>3, <1>4, <1>5 DEF DataInv

\* Whoever has a path to himself and writes complete data to it.
LEMMA WholeData ==
  ASSUME Inv, DataInv, NEW h \in Hosts, NEW n \in Names, NEW x, x # Absent, x.whole,
         UNCHANGED <<phase, toSeed, registry, engine, handle, req, halfAtBoot>>,
         data' = [data EXCEPT ![h][n] = x]
  PROVE  DataInv'
<1>1. TypeOK /\ AllGood
  BY DEF Inv
<1>2. \A k \in Hosts, m \in Names :
        /\ data[k][m] # Absent => data'[k][m] # Absent
        /\ data'[k][m] # data[k][m] => data'[k][m] # Absent /\ data'[k][m].whole
  <2>1. \A k \in Hosts, m \in Names : data'[k][m] = IF k = h /\ m = n THEN x ELSE data[k][m]
    BY <1>1, DataMoves
  <2>2. ASSUME NEW k \in Hosts, NEW m \in Names, k = h, m = n
        PROVE  data'[k][m] # Absent /\ data'[k][m].whole
    BY <2>1, <2>2
  <2>3. ASSUME NEW k \in Hosts, NEW m \in Names, ~(k = h /\ m = n)
        PROVE  data'[k][m] = data[k][m]
    BY <2>1, <2>3
  <2>4. QED
    BY <2>2, <2>3
<1>3. PartsAreExplained' /\ SeedsAreFresh' /\ RegisteredIsPresent'
  <2>1. RegisteredIsPresent'
    BY <1>1, <1>2 DEF DataInv, RegisteredIsPresent, TypeOK
  <2>2. QED
    BY <1>2, <2>1 DEF DataInv, PartsAreExplained, IsPart, Overwriting, SeedsAreFresh
<1>4. HoldersWait'
  BY DEF DataInv, HoldersWait, WaitsFor, Active
<1>5. AllHaveData'
  <2>1. SUFFICES ASSUME NEW r \in Requests, Active(r) PROVE HasData(r)'
    BY DEF AllHaveData, HasData, Active
  <2>2. HasData(r) /\ req[r].host \in Hosts /\ req[r].name \in Names
    BY <1>1, <2>1, ActiveIsPlaced DEF DataInv, AllHaveData
  <2>3. QED
    BY <1>2, <2>1, <2>2 DEF HasData, Active, IsGet, OtherOverwrites
<1>6. QED
  BY <1>3, <1>4, <1>5 DEF DataInv

\* Pieces come only while their torrent downloads, which is not one that is seeded.
LEMMA PiecesData ==
  ASSUME Inv, DataInv, NEW h \in Hosts, NEW n \in Names, NEW v \in Versions, ReceivePieces(h, n, v)
  PROVE  DataInv'
<1>1. /\ TypeOK /\ AllGood /\ engine[h][n][v] = "downloading"
      /\ UNCHANGED <<phase, toSeed, registry, engine, handle, req, halfAtBoot>>
  BY DEF Inv, ReceivePieces, processVars
<1>2. PICK x : x = [ver |-> v, whole |-> FALSE]
  OBVIOUS
<1>3. \A k \in Hosts, m \in Names :
        /\ data[k][m] # Absent => data'[k][m] # Absent
        /\ data'[k][m] # data[k][m] => k = h /\ m = n
  <2>1. x # Absent
    BY <1>2, WholeIsThere
  <2>2. data' = [data EXCEPT ![h][n] = x]
    BY <1>2 DEF ReceivePieces
  <2>3. \A k \in Hosts, m \in Names : data'[k][m] = IF k = h /\ m = n THEN x ELSE data[k][m]
    BY <1>1, <2>2, DataMoves
  <2>4. QED
    BY <2>1, <2>3
<1>4. PartsAreExplained' /\ SeedsAreFresh' /\ RegisteredIsPresent'
  <2>1. RegisteredIsPresent'
    BY <1>1, <1>3 DEF DataInv, RegisteredIsPresent, TypeOK
  <2>2. QED
    BY <1>1, <1>3, <2>1 DEF DataInv, PartsAreExplained, IsPart, Overwriting, SeedsAreFresh
<1>5. HoldersWait'
  BY <1>1 DEF DataInv, HoldersWait, WaitsFor, Active
<1>6. AllHaveData'
  <2>1. SUFFICES ASSUME NEW r \in Requests, Active(r) PROVE HasData(r)'
    BY <1>1 DEF AllHaveData, HasData, Active
  <2>2. HasData(r) /\ req[r].host \in Hosts /\ req[r].name \in Names
    BY <1>1, <2>1, ActiveIsPlaced DEF DataInv, AllHaveData
  <2>3. QED
    BY <1>1, <1>3, <2>1, <2>2 DEF HasData, Active, IsGet, OtherOverwrites
<1>7. QED
  BY <1>4, <1>5, <1>6 DEF DataInv

\* The end of a download leaves complete data, and wakes only who waits for it.
LEMMA DownloadedData ==
  ASSUME Inv, DataInv, NEW h \in Hosts, NEW n \in Names, NEW v \in Versions, DownloadDone(h, n, v)
  PROVE  DataInv'
<1> USE ConstantsAssumption
<1>1. /\ TypeOK /\ AllGood /\ engine[h][n][v] = "downloading"
      /\ UNCHANGED <<phase, toSeed, registry, halfAtBoot>>
  BY DEF Inv, DownloadDone
<1>2. \A k \in Hosts, m \in Names, w \in Versions :
        engine'[k][m][w] = IF k = h /\ m = n /\ w = v THEN "seeding" ELSE engine[k][m][w]
  <2>1. engine' = [engine EXCEPT ![h][n][v] = "seeding"]
    BY DEF DownloadDone
  <2>2. QED
    BY <1>1, <2>1, EngineMoves
<1>3. /\ data'[h][n] # Absent /\ data'[h][n].whole
      /\ \A k \in Hosts, m \in Names : ~(k = h /\ m = n) => data'[k][m] = data[k][m]
  <2>1. PICK x : x = [ver |-> v, whole |-> TRUE]
    OBVIOUS
  <2>2. x # Absent /\ x.whole /\ data' = [data EXCEPT ![h][n] = x]
    BY <2>1, WholeIsThere DEF DownloadDone, Flushed
  <2>3. \A k \in Hosts, m \in Names : data'[k][m] = IF k = h /\ m = n THEN x ELSE data[k][m]
    BY <1>1, <2>2, DataMoves
  <2>4. QED
    BY <2>2, <2>3
<1>4. PartsAreExplained' /\ SeedsAreFresh' /\ RegisteredIsPresent'
  <2>1. PartsAreExplained'
    BY <1>1, <1>2, <1>3 DEF DataInv, PartsAreExplained, IsPart, Overwriting
  <2>2. SeedsAreFresh'
    BY <1>1, <1>2 DEF DataInv, SeedsAreFresh
  <2>3. RegisteredIsPresent'
    <3>1. \A k \in Hosts : registry'[k] = registry[k] /\ registry[k] \subseteq Names
      BY <1>1 DEF TypeOK
    <3>2. QED
      BY <1>1, <1>3, <3>1 DEF DataInv, RegisteredIsPresent
  <2>4. QED
    BY <2>1, <2>2, <2>3
<1>5. \A r \in Requests : r \in Woken(h, n, v) => WaitsFor(r, h, n, v)
  BY DEF Woken, DataInv, HoldersWait
<1>6. \A r \in Requests : req'[r] = IF r \in Woken(h, n, v) THEN [req[r] EXCEPT !.pc = "enlist"]
                                                          ELSE req[r]
  BY DEF DownloadDone
<1>7. HoldersWait'
  <2>1. \A k \in Hosts, m \in Names, w \in Versions :
          handle'[k][m][w] = IF k = h /\ m = n /\ w = v THEN NoRequest ELSE handle[k][m][w]
    <3> DEFINE Holders == Requests \cup {NoRequest}
    <3>1. handle \in [Hosts -> [Names -> [Versions -> Holders]]]
      BY <1>1 DEF TypeOK
    <3> HIDE DEF Holders
    <3>2. QED
      BY <3>1, Read3 DEF DownloadDone
  <2>2. SUFFICES ASSUME NEW k \in Hosts, NEW m \in Names, NEW w \in Versions, NEW r \in Requests,
                        handle'[k][m][w] = r
                 PROVE  WaitsFor(r, k, m, w)'
    BY DEF HoldersWait
  <2>3. ~(k = h /\ m = n /\ w = v) /\ WaitsFor(r, k, m, w)
    BY <2>1, <2>2 DEF DataInv, HoldersWait
  <2>4. r \notin Woken(h, n, v)
    BY <1>5, <2>3 DEF WaitsFor
  <2>5. QED
    BY <1>6, <2>3, <2>4 DEF WaitsFor, Active
<1>8. AllHaveData'
  <2>1. SUFFICES ASSUME NEW r \in Requests PROVE HasData(r)'
    BY DEF AllHaveData
  <2>2. CASE r \in Woken(h, n, v)
    <3>1. Active(r) /\ req[r] \in Request /\ WaitsFor(r, h, n, v)
      BY <1>1, <1>5, <2>2, ActiveIsRequest DEF WaitsFor
    <3>2. Moved(r, "enlist", v)
      BY <1>6, <2>2, <3>1 DEF Moved, Request, WaitsFor
    <3>3. QED
      BY <1>2, <1>3, <3>1, <3>2 DEF Moved, HasData, WaitsFor
  <2>3. CASE r \notin Woken(h, n, v) /\ Active(r)
    <3>1. /\ HasData(r) /\ req'[r] = req[r] /\ req[r].host \in Hosts /\ req[r].name \in Names
          /\ req[r].pc = "enlist" => req[r].ver \in Versions
      BY <1>1, <1>6, <2>3, ActiveIsPlaced DEF DataInv, AllHaveData
    <3>2. /\ data[req[r].host][req[r].name] # Absent => data'[req[r].host][req[r].name] # Absent
          /\ data[req[r].host][req[r].name].whole \/ (req[r].host = h /\ req[r].name = n)
               => data'[req[r].host][req[r].name].whole
      BY <1>3, <3>1
    <3>3. ASSUME req[r].pc = "enlist", IsGet(req[r]), ~(req[r].host = h /\ req[r].name = n)
          PROVE  OtherOverwrites(req[r].host, req[r].name, req[r].ver)
                   => OtherOverwrites(req[r].host, req[r].name, req[r].ver)'
      BY <1>2, <3>1, <3>3 DEF OtherOverwrites
    <3>4. ASSUME req[r].pc = "enlist", IsGet(req[r])
          PROVE  engine'[req[r].host][req[r].name][req[r].ver] = "seeding"
      BY <1>2, <2>3, <3>1, <3>4 DEF HasData
    <3>5. QED
      BY <2>3, <3>1, <3>2, <3>3, <3>4 DEF HasData, Active, IsGet
  <2>4. CASE ~Active(r)
    BY <1>5, <1>6, <2>4 DEF HasData, Active, WaitsFor
  <2>5. QED
    BY <2>2, <2>3, <2>4
<1>9. QED
  BY <1>4, <1>7, <1>8 DEF DataInv

\* A host that stops forgets all that the invariant speaks of, but its data.
LEMMA StopData ==
  ASSUME Inv, DataInv, NEW h \in Hosts, Stop(h), UNCHANGED <<data, halfAtBoot>>
  PROVE  DataInv'
<1> USE ConstantsAssumption
<1>1. TypeOK /\ AllGood
  BY DEF Inv
<1>2. /\ phase'[h] = "down" /\ registry'[h] = {}
      /\ \A n \in Names, v \in Versions : engine'[h][n][v] = "none" /\ handle'[h][n][v] = NoRequest
  BY <1>1 DEF Stop, NoEngine, NoHandle, TypeOK
<1>3. \A k \in Hosts \ {h} :
        /\ phase'[k] = phase[k] /\ registry'[k] = registry[k] /\ toSeed'[k] = toSeed[k]
        /\ engine'[k] = engine[k] /\ handle'[k] = handle[k]
  BY <1>1 DEF Stop, TypeOK
<1>4. \A r \in Requests : Active(r)' =>
        req'[r] = req[r] /\ Active(r) /\ req[r].host \in Hosts \ {h} /\ req[r].name \in Names
  BY <1>1, ActiveIsPlaced DEF Stop, Active
<1>5. PartsAreExplained' /\ SeedsAreFresh'
  <2>1. PartsAreExplained'
    BY <1>2, <1>3 DEF DataInv, PartsAreExplained, IsPart, Overwriting
  <2>2. SeedsAreFresh'
    BY <1>2, <1>3 DEF DataInv, SeedsAreFresh
  <2>3. QED
    BY <2>1, <2>2
<1>6. RegisteredIsPresent'
  BY <1>2, <1>3 DEF DataInv, RegisteredIsPresent
<1>7. HoldersWait'
  <2>1. SUFFICES ASSUME NEW k \in Hosts, NEW n \in Names, NEW v \in Versions, NEW r \in Requests,
                        handle'[k][n][v] = r
                 PROVE  WaitsFor(r, k, n, v)'
    BY DEF HoldersWait
  <2>2. k # h /\ WaitsFor(r, k, n, v)
    BY <1>2, <1>3, <2>1 DEF DataInv, HoldersWait
  <2>3. req'[r] = req[r]
    BY <2>2 DEF Stop, WaitsFor
  <2>4. QED
    BY <2>2, <2>3 DEF WaitsFor, Active
<1>8. AllHaveData'
  <2>1. SUFFICES ASSUME NEW r \in Requests, Active(r)' PROVE HasData(r)'
    BY DEF AllHaveData, HasData
  <2>2. HasData(r)
    BY DEF DataInv, AllHaveData
  <2>3. /\ req'[r] = req[r] /\ Active(r) /\ data' = data
        /\ engine'[req[r].host] = engine[req[r].host]
    BY <1>3, <1>4, <2>1
  <2>4. QED
    BY <2>2, <2>3 DEF HasData, IsGet, OtherOverwrites
<1>9. QED
  BY <1>5, <1>6, <1>7, <1>8 DEF DataInv

\* A start concerns no request: those of the host ended with its process.
LEMMA StartKeepsRequests ==
  ASSUME Inv, DataInv, NEW h \in Hosts, phase[h] # "up", UNCHANGED <<data, handle, req>>,
         \A k \in Hosts \ {h} : engine'[k] = engine[k]
  PROVE  AllHaveData' /\ HoldersWait'
<1>1. HoldersWait'
  BY DEF DataInv, HoldersWait, WaitsFor, Active
<1>2. ASSUME NEW r \in Requests, Active(r) PROVE HasData(r)'
  <2>1. HasData(r) /\ req[r].host \in Hosts \ {h} /\ req[r].name \in Names
    BY <1>2, ActiveIsPlaced DEF Inv, DataInv, AllHaveData
  <2>2. QED
    BY <1>2, <2>1 DEF HasData, Active, IsGet, OtherOverwrites
<1>3. QED
  BY <1>1, <1>2 DEF AllHaveData, HasData, Active

LEMMA BootData ==
  ASSUME Inv, DataInv, NEW h \in Hosts, Boot(h)
  PROVE  DataInv'
<1>1. TypeOK /\ phase[h] = "down" /\ UNCHANGED <<data, engine, handle, req>>
  BY DEF Inv, Boot, diskVars, processVars
<1>2. AllHaveData' /\ HoldersWait'
  BY <1>1, StartKeepsRequests
<1>3. /\ phase'[h] = "boot" /\ registry'[h] = Downloaded(h)
      /\ \A k \in Hosts \ {h} :
           phase'[k] = phase[k] /\ registry'[k] = registry[k] /\ toSeed'[k] = toSeed[k]
  BY <1>1 DEF Boot, TypeOK
<1>4. /\ \A k \in Hosts \ {h}, n \in Names : <<k, n>> \in halfAtBoot => <<k, n>> \in halfAtBoot'
      /\ \A n \in Names : IsPart(h, n) => <<h, n>> \in halfAtBoot'
  BY DEF Boot, IsPart, Downloaded
<1>5. PartsAreExplained'
  BY <1>1, <1>3, <1>4 DEF DataInv, PartsAreExplained, IsPart, Overwriting
<1>6. RegisteredIsPresent'
  BY <1>1, <1>3 DEF DataInv, RegisteredIsPresent, Downloaded
<1>7. SeedsAreFresh'
  BY <1>1, <1>3 DEF DataInv, SeedsAreFresh
<1>8. QED
  BY <1>2, <1>5, <1>6, <1>7 DEF DataInv

LEMMA BootDoneData ==
  ASSUME Inv, DataInv, NEW h \in Hosts, BootDone(h)
  PROVE  DataInv'
<1>1. /\ TypeOK /\ phase[h] = "boot" /\ toSeed[h] = {}
      /\ UNCHANGED <<data, engine, handle, req, toSeed, registry, halfAtBoot>>
  BY DEF Inv, BootDone, diskVars, processVars
<1>2. AllHaveData' /\ HoldersWait'
  BY <1>1, StartKeepsRequests
<1>3. phase'[h] = "up" /\ \A k \in Hosts \ {h} : phase'[k] = phase[k]
  BY <1>1 DEF BootDone, TypeOK
<1>4. PartsAreExplained'
  BY <1>1, <1>3 DEF DataInv, PartsAreExplained, IsPart, Overwriting
<1>5. RegisteredIsPresent' /\ SeedsAreFresh'
  BY <1>1, <1>3 DEF DataInv, RegisteredIsPresent, SeedsAreFresh
<1>6. QED
  BY <1>2, <1>4, <1>5 DEF DataInv

LEMMA SeedNextData ==
  ASSUME Inv, DataInv, NEW h \in Hosts, NEW n \in Names, SeedNext(h, n)
  PROVE  DataInv'
<1>1. /\ TypeOK /\ phase[h] = "boot" /\ n \in toSeed[h]
      /\ UNCHANGED <<phase, data, registry, handle, req, halfAtBoot>>
      /\ toSeed' = [toSeed EXCEPT ![h] = @ \ {n}]
  BY DEF Inv, SeedNext
<1>2. PICK v : engine' = [engine EXCEPT ![h][n][v] = "hashing"]
  BY DEF SeedNext
<1>3. \A k \in Hosts, m \in Names, w \in Versions :
        engine'[k][m][w] = IF k = h /\ m = n /\ w = v THEN "hashing" ELSE engine[k][m][w]
  BY <1>1, <1>2 DEF TypeOK
<1>4. \A k \in Hosts \ {h} : engine'[k] = engine[k]
  BY <1>1, <1>2 DEF TypeOK
<1>5. AllHaveData' /\ HoldersWait'
  BY <1>1, <1>4, StartKeepsRequests
<1>6. \A w \in Versions : engine[h][n][w] = "none"
  BY <1>1 DEF DataInv, SeedsAreFresh
<1>7. PartsAreExplained'
  <2>1. ASSUME NEW k \in Hosts, NEW m \in Names, Overwriting(k, m) PROVE Overwriting(k, m)'
    BY <1>3, <1>6, <2>1 DEF Overwriting
  <2>2. QED
    BY <1>1, <2>1 DEF DataInv, PartsAreExplained, IsPart
<1>8. SeedsAreFresh'
  <2>1. \A k \in Hosts : toSeed'[k] \subseteq toSeed[k] /\ n \notin toSeed'[h]
    BY <1>1 DEF TypeOK
  <2>2. QED
    BY <1>1, <1>3, <2>1 DEF DataInv, SeedsAreFresh
<1>9. RegisteredIsPresent'
  BY <1>1 DEF DataInv, RegisteredIsPresent
<1>10. QED
  BY <1>5, <1>7, <1>8, <1>9 DEF DataInv

----------------------------------------------------------------------------
(* The theorems *)

LEMMA DataStep == Inv /\ DataInv /\ [Next]_vars => DataInv'
<1> SUFFICES ASSUME Inv, DataInv, [Next]_vars PROVE DataInv'
  OBVIOUS
<1>1. CASE UNCHANGED vars
  <2>1. UNCHANGED <<phase, toSeed, data, registry, engine, handle, req, halfAtBoot>>
    BY <1>1 DEF vars, diskVars, processVars
  <2>2. PartsAreExplained' /\ RegisteredIsPresent' /\ SeedsAreFresh'
    BY <2>1 DEF DataInv, PartsAreExplained, IsPart, Overwriting, RegisteredIsPresent, SeedsAreFresh
  <2>3. AllHaveData' /\ HoldersWait'
    BY <2>1 DEF DataInv, AllHaveData, HasData, Active, OtherOverwrites, HoldersWait, WaitsFor
  <2>4. QED
    BY <2>2, <2>3 DEF DataInv
<1>2. ASSUME NEW r \in Requests, ArriveGet(r) \/ ArrivePublish(r) \/ Leave(r) \/ Step(r)
      PROVE  DataInv'
  BY <1>2, RequestStepData
<1>3. ASSUME NEW h \in Hosts, NEW n \in Names, NEW v \in Versions, Stage(h, n, v) \/ Rewrite(h, n, v)
      PROVE  DataInv'
  <2>1. PICK x : x = [ver |-> v, whole |-> TRUE]
    OBVIOUS
  <2>2. x # Absent /\ x.whole
    BY <2>1, WholeIsThere
  <2>3. /\ UNCHANGED <<phase, toSeed, registry, engine, handle, req, halfAtBoot>>
        /\ data' = [data EXCEPT ![h][n] = x]
    BY <1>3, <2>1 DEF Stage, Rewrite, processVars
  <2>4. QED
    BY <2>2, <2>3, WholeData
<1>4. ASSUME NEW h \in Hosts, NEW n \in Names, NEW v \in Versions,
             HashingDone(h, n, v) \/ ReceivePieces(h, n, v) \/ DownloadDone(h, n, v)
      PROVE  DataInv'
  BY <1>4, HashingData, PiecesData, DownloadedData
<1>5. ASSUME NEW h \in Hosts, Crash(h) \/ \E n \in Names : SeedFails(h, n)
      PROVE  DataInv'
  BY <1>5, StopData DEF Crash, SeedFails, diskVars
<1>6. ASSUME NEW h \in Hosts, Boot(h) \/ BootDone(h) \/ \E n \in Names : SeedNext(h, n)
      PROVE  DataInv'
  BY <1>6, BootData, BootDoneData, SeedNextData
<1>7. QED
  BY <1>1, <1>2, <1>3, <1>4, <1>5, <1>6 DEF Next, Step

\* Incomplete data always has a torrent that is bringing it, or was there at the start.
THEOREM DataInvHolds == Spec => []DataInv
<1>1. Init => DataInv
  <2>1. Init => PartsAreExplained /\ RegisteredIsPresent /\ SeedsAreFresh
    BY DEF Init, PartsAreExplained, IsPart, RegisteredIsPresent, SeedsAreFresh
  <2>2. Init => AllHaveData /\ HoldersWait
    BY ConstantsAssumption DEF Init, AllHaveData, HasData, Active, HoldersWait
  <2>3. QED
    BY <2>1, <2>2 DEF DataInv
<1>2. QED
  BY <1>1, DataStep, InvHolds, PTL DEF Spec

\* What is registered is complete, but for what the property excepts.
THEOREM RegisteredAreWhole == Spec => []RegisteredIsWhole
<1>1. Inv /\ DataInv => RegisteredIsWhole
  <2> SUFFICES ASSUME Inv, DataInv, NEW h \in Hosts, NEW n \in registry[h]
               PROVE  \/ data[h][n] \in Item /\ data[h][n].whole
                      \/ <<h, n>> \in halfAtBoot
                      \/ Overwriting(h, n)
    BY DEF RegisteredIsWhole
  <2>1. data[h][n] # Absent /\ phase[h] # "down"
    BY DEF DataInv, RegisteredIsPresent
  <2>2. n \in Names /\ data[h][n] \in Item
    BY <2>1 DEF Inv, TypeOK
  <2>3. QED
    BY <2>1, <2>2 DEF DataInv, PartsAreExplained, IsPart
<1>2. QED
  BY <1>1, InvHolds, DataInvHolds, PTL

\* A Get registers a name when its download is over.
THEOREM GetsRegisterWhatIsComplete == Spec => RegisteredOnCompletion
<1>1. Inv /\ DataInv /\ [Next]_vars =>
        [\A r \in Requests : At(r, "enlist") /\ req[r].op = "get" =>
           LET q == req[r]
           IN registry'[q.host] = registry[q.host] \cup {q.name} /\ registry' # registry =>
                \/ data[q.host][q.name] \in Item /\ data[q.host][q.name].whole
                \/ \E v \in Versions \ {q.ver} : engine[q.host][q.name][v] = "downloading"]_vars
  <2>1. ASSUME Inv, DataInv, NEW r \in Requests, At(r, "enlist"), req[r].op = "get"
        PROVE  \/ data[req[r].host][req[r].name] \in Item /\ data[req[r].host][req[r].name].whole
               \/ \E v \in Versions \ {req[r].ver} :
                    engine[req[r].host][req[r].name][v] = "downloading"
    <3>1. HasData(r) /\ Active(r) /\ IsGet(req[r])
      BY <2>1 DEF DataInv, AllHaveData, At, IsGet
    <3>2. data[req[r].host][req[r].name] \in Item \cup {Absent}
      BY <2>1, <3>1, ActiveIsPlaced DEF Inv, TypeOK
    <3>3. QED
      BY <2>1, <3>1, <3>2 DEF HasData, At, OtherOverwrites
  <2>2. QED
    BY <2>1
<1>2. QED
  BY <1>1, InvHolds, DataInvHolds, PTL DEF Spec, RegisteredOnCompletion
============================================================================
