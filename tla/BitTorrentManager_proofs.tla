---------------------- MODULE BitTorrentManager_proofs ----------------------
(***************************************************************************)
(* Safety of the data-sharing core for any number of hosts, names,         *)
(* contents and requests.                                                  *)
(***************************************************************************)
EXTENDS BitTorrentManager, TLAPS

----------------------------------------------------------------------------
(* Types *)

\* One entry of a function of two or three arguments changes within its type.
LEMMA Update2 ==
  ASSUME NEW A, NEW B, NEW S, NEW f \in [A -> [B -> S]], NEW a \in A, NEW b \in B, NEW x \in S
  PROVE  [f EXCEPT ![a][b] = x] \in [A -> [B -> S]]
OBVIOUS

LEMMA Read2 ==
  ASSUME NEW A, NEW B, NEW S, NEW f \in [A -> [B -> S]], NEW a \in A, NEW b \in B, NEW x
  PROVE  \A c \in A, d \in B :
           [f EXCEPT ![a][b] = x][c][d] = IF c = a /\ d = b THEN x ELSE f[c][d]
OBVIOUS

LEMMA Read3 ==
  ASSUME NEW A, NEW B, NEW C, NEW S, NEW f \in [A -> [B -> [C -> S]]],
         NEW a \in A, NEW b \in B, NEW c \in C, NEW x
  PROVE  \A i \in A, j \in B, k \in C :
           [f EXCEPT ![a][b][c] = x][i][j][k] = IF i = a /\ j = b /\ k = c THEN x ELSE f[i][j][k]
OBVIOUS

LEMMA Update3 ==
  ASSUME NEW A, NEW B, NEW C, NEW S, NEW f \in [A -> [B -> [C -> S]]],
         NEW a \in A, NEW b \in B, NEW c, NEW x \in S
  PROVE  [f EXCEPT ![a][b][c] = x] \in [A -> [B -> [C -> S]]]
OBVIOUS

\* Changing the pc, or the pc and the torrent in hand, of a request keeps its type.
LEMMA RequestUpdate ==
  ASSUME NEW q \in Request, NEW p \in Pcs, NEW t \in TorrentBytes
  PROVE  /\ [q EXCEPT !.pc = p] \in Request
         /\ [q EXCEPT !.ver = t, !.pc = p] \in Request
BY DEF Request

LEMMA ActiveIsRequest ==
  ASSUME TypeOK, NEW r \in Requests, Active(r)
  PROVE  /\ req[r] \in Request
         /\ req[r].host \in Hosts /\ req[r].name \in Names /\ req[r].ver \in TorrentBytes
         /\ req[r].op \in Ops /\ req[r].hit \in BOOLEAN
BY DEF TypeOK, Active, Request

\* A step that moves one request on keeps the type of req.
LEMMA GotoType ==
  ASSUME TypeOK, NEW r \in Requests, Active(r), NEW p \in Pcs, Goto(r, p)
  PROVE  req' \in [Requests -> Request \cup {Idle}]
BY ActiveIsRequest, RequestUpdate DEF Goto, TypeOK

LEMMA FailType ==
  ASSUME TypeOK, NEW r \in Requests, Fail(r)
  PROVE  req' \in [Requests -> Request \cup {Idle}]
BY DEF Fail, TypeOK

LEMMA AfterTorrentType ==
  ASSUME NEW q \in Request
  PROVE  AfterTorrent(q) \in Pcs
<1>1. q.op \in Ops /\ q.hit \in BOOLEAN
  BY DEF Request
<1>2. QED
  BY <1>1 DEF AfterTorrent, Pcs, Ops, IsGet

LEMMA StopType ==
  ASSUME TypeOK, NEW h \in Hosts, Stop(h)
  PROVE  /\ phase' \in [Hosts -> {"up", "boot", "down"}]
         /\ toSeed' \in [Hosts -> SUBSET Names]
         /\ registry' \in [Hosts -> SUBSET Names]
         /\ engine' \in [Hosts -> [Names -> [Versions -> EngineState]]]
         /\ handle' \in [Hosts -> [Names -> [Versions -> Requests \cup {NoRequest}]]]
         /\ req' \in [Requests -> Request \cup {Idle}]
         /\ unstarted' \subseteq Hosts \X Names /\ lost' \subseteq Hosts \X Names
BY DEF TypeOK, Stop, NoEngine, NoHandle, EngineState

LEMMA OfferedType ==
  ASSUME TypeOK, NEW n \in Names
  PROVE  TorrentsOffered(n) \subseteq TorrentBytes \ {NoTorrent}
BY DEF TypeOK, TorrentsOffered

\* A torrent of h changes its state in the engine, or its handler the wait handle.
LEMMA EngineUpdate ==
  ASSUME TypeOK, NEW h \in Hosts, NEW n \in Names, NEW v
  PROVE  /\ [engine EXCEPT ![h][n][v] = "hashing"]
              \in [Hosts -> [Names -> [Versions -> EngineState]]]
         /\ \A x \in Requests \cup {NoRequest} :
              [handle EXCEPT ![h][n][v] = x]
                \in [Hosts -> [Names -> [Versions -> Requests \cup {NoRequest}]]]
<1>1. "hashing" \in EngineState /\ engine \in [Hosts -> [Names -> [Versions -> EngineState]]]
  BY DEF EngineState, TypeOK
<1>2. [engine EXCEPT ![h][n][v] = "hashing"] \in [Hosts -> [Names -> [Versions -> EngineState]]]
  BY <1>1, Update3, ZenonT(30)
<1>3. ASSUME NEW x \in Requests \cup {NoRequest}
      PROVE  [handle EXCEPT ![h][n][v] = x]
               \in [Hosts -> [Names -> [Versions -> Requests \cup {NoRequest}]]]
  <2> DEFINE Holders == Requests \cup {NoRequest}
  <2>1. x \in Holders /\ handle \in [Hosts -> [Names -> [Versions -> Holders]]]
    BY DEF TypeOK
  <2> HIDE DEF Holders
  <2>2. [handle EXCEPT ![h][n][v] = x] \in [Hosts -> [Names -> [Versions -> Holders]]]
    BY <2>1, Update3
  <2>3. QED
    BY <2>2 DEF Holders
<1>4. QED
  BY <1>2, <1>3

LEMMA TypeStep == TypeOK /\ [Next]_vars => TypeOK'
<1> SUFFICES ASSUME TypeOK, [Next]_vars PROVE TypeOK'
  OBVIOUS
<1> USE ConstantsAssumption
<1>1. CASE UNCHANGED vars
  BY <1>1 DEF TypeOK, vars, diskVars, processVars
<1>2. ASSUME NEW r \in Requests, ArriveGet(r) PROVE TypeOK'
  <2>1. req' \in [Requests -> Request \cup {Idle}]
    BY <1>2 DEF ArriveGet, TypeOK, Request, Pcs, Ops, TorrentBytes
  <2>2. QED
    BY <1>2, <2>1 DEF ArriveGet, TypeOK, diskVars, processVars
<1>3. ASSUME NEW r \in Requests, ArrivePublish(r) PROVE TypeOK'
  <2>1. req' \in [Requests -> Request \cup {Idle}]
    BY <1>3 DEF ArrivePublish, TypeOK, Request, Pcs, Ops, TorrentBytes, Item
  <2>2. QED
    BY <1>3, <2>1 DEF ArrivePublish, TypeOK, diskVars, processVars
<1>4. ASSUME NEW r \in Requests, Leave(r) PROVE TypeOK'
  BY <1>4 DEF Leave, TypeOK, diskVars, processVars
<1>5. ASSUME NEW r \in Requests, ReadTorrent(r) PROVE TypeOK'
  <2>1. Active(r) /\ req[r] \in Request /\ AfterTorrent(req[r]) \in Pcs
    BY <1>5, ActiveIsRequest, AfterTorrentType DEF ReadTorrent, At
  <2>2. torrentFile[req[r].host][req[r].name] \in TorrentBytes
    BY <2>1 DEF TypeOK, Request
  <2>3. req' \in [Requests -> Request \cup {Idle}]
    <3>1. CASE Fail(r)
      BY <3>1, FailType
    <3>2. CASE req' = [req EXCEPT ![r] =
                         [req[r] EXCEPT !.ver = torrentFile[req[r].host][req[r].name],
                                        !.pc = AfterTorrent(req[r])]]
      <4>1. [req[r] EXCEPT !.ver = torrentFile[req[r].host][req[r].name],
                           !.pc = AfterTorrent(req[r])] \in Request
        BY <2>1, <2>2, RequestUpdate
      <4>2. QED
        BY <3>2, <4>1 DEF TypeOK
    <3>3. QED
      BY <1>5, <3>1, <3>2 DEF ReadTorrent
  <2>4. QED
    BY <1>5, <2>3 DEF ReadTorrent, TypeOK, diskVars, processVars
<1>6. ASSUME NEW r \in Requests, DownloadTorrent(r) PROVE TypeOK'
  <2>1. Active(r) /\ req[r] \in Request /\ req[r].name \in Names
    BY <1>6, ActiveIsRequest DEF DownloadTorrent, At
  <2>2. TorrentsOffered(req[r].name) \subseteq TorrentBytes /\ "save" \in Pcs
    BY <2>1, OfferedType DEF Pcs
  <2>3. req' \in [Requests -> Request \cup {Idle}]
    <3>1. CASE Fail(r)
      BY <3>1, FailType
    <3>2. ASSUME NEW v \in TorrentsOffered(req[r].name),
                 req' = [req EXCEPT ![r] = [req[r] EXCEPT !.ver = v, !.pc = "save"]]
          PROVE  req' \in [Requests -> Request \cup {Idle}]
      <4>1. [req[r] EXCEPT !.ver = v, !.pc = "save"] \in Request
        BY <2>1, <2>2, RequestUpdate
      <4>2. QED
        BY <3>2, <4>1 DEF TypeOK
    <3>3. QED
      BY <1>6, <3>1, <3>2 DEF DownloadTorrent
  <2>4. QED
    BY <1>6, <2>3 DEF DownloadTorrent, TypeOK, diskVars, processVars
<1>7. ASSUME NEW r \in Requests, OpenTorrent(r) PROVE TypeOK'
  <2>1. Active(r) /\ "saving" \in Pcs
    BY <1>7 DEF OpenTorrent, At, Pcs
  <2>2. req' \in [Requests -> Request \cup {Idle}]
    BY <1>7, <2>1, GotoType, FailType DEF OpenTorrent
  <2>3. torrentFile' \in [Hosts -> [Names -> TorrentBytes]]
    <3>1. /\ Truncated \in TorrentBytes
          /\ req[r].host \in Hosts /\ req[r].name \in Names
      BY <2>1, ActiveIsRequest DEF Truncated, TorrentBytes
    <3>2. torrentFile \in [Hosts -> [Names -> TorrentBytes]]
      BY DEF TypeOK
    <3>3. [torrentFile EXCEPT ![req[r].host][req[r].name] = Truncated]
            \in [Hosts -> [Names -> TorrentBytes]]
      BY <3>1, <3>2, Update2
    <3>4. QED
      BY <1>7, <3>2, <3>3 DEF OpenTorrent
  <2>4. QED
    BY <1>7, <2>2, <2>3 DEF OpenTorrent, TypeOK, processVars
<1>8. ASSUME NEW r \in Requests, CloseTorrent(r) PROVE TypeOK'
  <2>1. Active(r) /\ req[r] \in Request /\ req[r].ver \in TorrentBytes
    BY <1>8, ActiveIsRequest DEF CloseTorrent, At
  <2>2. req' \in [Requests -> Request \cup {Idle}]
    BY <1>8, <2>1, AfterTorrentType, GotoType, FailType DEF CloseTorrent
  <2>3. torrentFile' \in [Hosts -> [Names -> TorrentBytes]]
    BY <1>8, <2>1 DEF CloseTorrent, TypeOK
  <2>4. QED
    BY <1>8, <2>2, <2>3 DEF CloseTorrent, TypeOK, processVars
<1>9. ASSUME NEW r \in Requests, PutUrl(r) PROVE TypeOK'
  <2>1. Active(r) /\ "enlist" \in Pcs /\ req[r].host \in Hosts
    BY <1>9, ActiveIsRequest DEF PutUrl, At, Pcs
  <2>2. req' \in [Requests -> Request \cup {Idle}]
    BY <1>9, <2>1, GotoType, FailType DEF PutUrl
  <2>3. dict' \in [Names -> SUBSET Hosts]
    <3>1. CASE UNCHANGED dict
      BY <3>1 DEF TypeOK
    <3>2. CASE dict' = [dict EXCEPT ![req[r].name] = @ \cup {req[r].host}]
      BY <2>1, <3>2 DEF TypeOK
    <3>3. QED
      BY <1>9, <3>1, <3>2 DEF PutUrl
  <2>4. QED
    BY <1>9, <2>2, <2>3 DEF PutUrl, TypeOK, diskVars, processVars
<1>10. ASSUME NEW r \in Requests, Enlist(r) PROVE TypeOK'
  <2>1. /\ Active(r) /\ "ok" \in Pcs /\ "start" \in Pcs
        /\ req[r].host \in Hosts /\ req[r].name \in Names
    BY <1>10, ActiveIsRequest DEF Enlist, At, Pcs
  <2>2. req' \in [Requests -> Request \cup {Idle}]
    BY <1>10, <2>1, GotoType, FailType DEF Enlist
  <2>3. registry' \in [Hosts -> SUBSET Names]
    <3>1. CASE UNCHANGED registry
      BY <3>1 DEF TypeOK
    <3>2. CASE registry' = [registry EXCEPT ![req[r].host] = @ \cup {req[r].name}]
      BY <2>1, <3>2 DEF TypeOK
    <3>3. QED
      BY <1>10, <3>1, <3>2 DEF Enlist
  <2>4. unstarted' \subseteq Hosts \X Names /\ lost' \subseteq Hosts \X Names
    BY <1>10, <2>1 DEF Enlist, TypeOK
  <2>5. QED
    BY <1>10, <2>2, <2>3, <2>4 DEF Enlist, TypeOK, diskVars
<1>11. ASSUME NEW r \in Requests, CheckEngine(r) PROVE TypeOK'
  <2>1. Active(r) /\ "ok" \in Pcs /\ "start" \in Pcs
    BY <1>11 DEF CheckEngine, At, Pcs
  <2>2. req' \in [Requests -> Request \cup {Idle}]
    BY <1>11, <2>1, GotoType DEF CheckEngine
  <2>3. QED
    BY <1>11, <2>2 DEF CheckEngine, TypeOK, diskVars, processVars
<1>12. ASSUME NEW r \in Requests, StartDownload(r) PROVE TypeOK'
  <2>1. Active(r) /\ AfterStart(req[r]) \in Pcs
    BY <1>12 DEF StartDownload, At, Pcs, AfterStart
  <2>2. req' \in [Requests -> Request \cup {Idle}]
    BY <1>12, <2>1, GotoType, FailType DEF StartDownload
  <2>3. PICK h \in Hosts, n \in Names, v \in TorrentBytes :
          h = req[r].host /\ n = req[r].name /\ v = req[r].ver
    BY <2>1, ActiveIsRequest
  <2>4. CASE UNCHANGED processVars
    BY <1>12, <2>2, <2>4 DEF StartDownload, TypeOK, processVars, diskVars
  <2>5. CASE /\ engine' = [engine EXCEPT ![h][n][v] = "hashing"]
             /\ \E x \in Requests \cup {NoRequest} : handle' = [handle EXCEPT ![h][n][v] = x]
    BY <1>12, <2>2, <2>5, EngineUpdate DEF StartDownload, TypeOK, diskVars
  <2>6. QED
    BY <1>12, <2>3, <2>4, <2>5 DEF StartDownload
<1>13. ASSUME NEW h \in Hosts, NEW n \in Names, NEW v \in Versions, HashingDone(h, n, v)
       PROVE TypeOK'
  BY <1>13 DEF HashingDone, TypeOK, AfterHashing, EngineState, diskVars
<1>14. ASSUME NEW h \in Hosts, NEW n \in Names, NEW v \in Versions, ReceivePieces(h, n, v)
       PROVE TypeOK'
  BY <1>14 DEF ReceivePieces, TypeOK, Item, processVars
<1>15. ASSUME NEW h \in Hosts, NEW n \in Names, NEW v \in Versions, DownloadDone(h, n, v)
       PROVE TypeOK'
  <2>1. \A r \in Woken(h, n, v) : [req[r] EXCEPT !.pc = "enlist"] \in Request
    BY ActiveIsRequest, RequestUpdate DEF Woken, At, Pcs, TorrentBytes
  <2>2. req' \in [Requests -> Request \cup {Idle}]
    BY <1>15, <2>1 DEF DownloadDone, TypeOK
  <2>3. QED
    BY <1>15, <2>2 DEF DownloadDone, TypeOK, Item, Flushed, EngineState
<1>16. ASSUME NEW h \in Hosts, NEW n \in Names, NEW v \in Versions,
              Stage(h, n, v) \/ Rewrite(h, n, v)
       PROVE TypeOK'
  <2>1. [ver |-> v, whole |-> TRUE] \in Item \cup {Absent}
    BY DEF Item
  <2>2. data' \in [Hosts -> [Names -> Item \cup {Absent}]]
    <3>1. [data EXCEPT ![h][n] = [ver |-> v, whole |-> TRUE]]
            \in [Hosts -> [Names -> Item \cup {Absent}]]
      BY <2>1, Update2 DEF TypeOK
    <3>2. QED
      BY <1>16, <3>1 DEF Stage, Rewrite
  <2>3. QED
    BY <1>16, <2>2 DEF Stage, Rewrite, TypeOK, processVars
<1>17. ASSUME NEW h \in Hosts, Crash(h) PROVE TypeOK'
  BY <1>17, StopType DEF Crash, TypeOK, diskVars
<1>18. ASSUME NEW h \in Hosts, Boot(h) PROVE TypeOK'
  BY <1>18 DEF Boot, TypeOK, Downloaded, SeedList, diskVars, processVars
<1>19. ASSUME NEW h \in Hosts, BootDone(h) PROVE TypeOK'
  BY <1>19 DEF BootDone, TypeOK, diskVars, processVars
<1>20. ASSUME NEW h \in Hosts, NEW n \in Names, SeedNext(h, n) PROVE TypeOK'
  <2>1. PICK v \in IF torrentFile[h][n] = NoTorrent THEN TorrentsOffered(n) \ {Torn}
                                                ELSE {torrentFile[h][n]} \ {Torn} :
             /\ torrentFile' = [torrentFile EXCEPT ![h][n] = v]
             /\ engine' = [engine EXCEPT ![h][n][v] = "hashing"]
    BY <1>20 DEF SeedNext
  <2>2. v \in TorrentBytes /\ "hashing" \in EngineState
    BY <2>1, OfferedType DEF TypeOK, EngineState
  <2>3. torrentFile' \in [Hosts -> [Names -> TorrentBytes]]
    BY <2>1, <2>2, Update2 DEF TypeOK
  <2>4. engine' \in [Hosts -> [Names -> [Versions -> EngineState]]]
    BY <2>1, EngineUpdate
  <2>5. QED
    BY <1>20, <2>3, <2>4 DEF SeedNext, TypeOK
<1>21. ASSUME NEW h \in Hosts, NEW n \in Names, SeedFails(h, n) PROVE TypeOK'
  <2>1. torrentFile' \in [Hosts -> [Names -> TorrentBytes]]
    <3>1. [torrentFile EXCEPT ![h][n] = Torn] \in [Hosts -> [Names -> TorrentBytes]]
      BY Update2 DEF TypeOK, TorrentBytes
    <3>2. QED
      BY <1>21, <3>1 DEF SeedFails, TypeOK
  <2>2. QED
    BY <1>21, <2>1, StopType DEF SeedFails, TypeOK
<1>22. QED
  BY <1>1, <1>2, <1>3, <1>4, <1>5, <1>6, <1>7, <1>8, <1>9, <1>10, <1>11, <1>12, <1>13,
     <1>14, <1>15, <1>16, <1>17, <1>18, <1>19, <1>20, <1>21 DEF Next

\* Every variable keeps its type, over all the interleavings of requests, the engine,
\* crashes and restarts.
THEOREM TypeCorrect == Spec => []TypeOK
<1>1. Init => TypeOK
  BY DEF Init, TypeOK, TorrentBytes, EngineState
<1>2. QED
  BY <1>1, TypeStep, PTL DEF Spec

----------------------------------------------------------------------------
(* Safety: the inductive invariant *)

\* A thread of h has registered n, though perhaps in vain.
Listed(h, n) == n \in registry[h] \/ <<h, n>> \in lost

\* What holds of a request by the point its thread has reached.  Its host runs; a hit
\* stays registered; a publication has its torrent file, then its URL, then its
\* registry entry; a Get that is past StartDownload has its torrent in the engine.
Good(r) ==
  LET q == req[r]
  IN Active(r) =>
       /\ phase[q.host] = "up"
       /\ q.hit => IsGet(q) /\ q.name \in registry[q.host]
       /\ q.pc \in {"save", "saving"} => q.ver # NoTorrent
       /\ q.pc \in {"contains", "dict", "enlist", "start", "wait", "ok"} => q.ver \in Versions
       /\ q.pc = "contains" => q.hit
       /\ q.pc = "dict" => ~IsGet(q) /\ torrentFile[q.host][q.name] # NoTorrent
       /\ q.pc \in {"enlist", "start", "ok"} /\ ~IsGet(q) => q.host \in dict[q.name]
       /\ q.pc = "start" => q.op = "get" \/ Listed(q.host, q.name)
       /\ q.pc = "wait" => /\ q.op = "get"
                          /\ Contains(q.host, q.name, q.ver)
                          /\ handle[q.host][q.name][q.ver] = r
       /\ q.pc = "enlist" /\ IsGet(q) => q.op = "get" /\ Contains(q.host, q.name, q.ver)
       /\ q.pc = "ok" /\ q.op # "peek" => /\ Listed(q.host, q.name)
                                         /\ Contains(q.host, q.name, q.ver)

AllGood == \A r \in Requests : Good(r)

Inv == TypeOK /\ PublishedUrlResolves /\ AllGood

\* What a step does not take from host h: it runs on, its registry grows, torrent files
\* stay, and the torrents of its engine stay with their handlers.
Keeps(h) ==
  /\ phase'[h] = phase[h]
  /\ registry[h] \subseteq registry'[h]
  /\ \A n \in Names : Listed(h, n) => Listed(h, n)'
  /\ \A n \in Names : torrentFile[h][n] # NoTorrent => torrentFile'[h][n] # NoTorrent
  /\ \A n \in Names, v \in Versions :
       Contains(h, n, v) => Contains(h, n, v)' /\ handle'[h][n][v] = handle[h][n][v]

DictKeeps == \A n \in Names : dict[n] \subseteq dict'[n]

\* Requests other than r are where they were.
OthersStay(r) == \A s \in Requests \ {r} : req'[s] = req[s]

\* A request that does not move stays good if its host keeps what it has.
LEMMA StaysGood ==
  ASSUME TypeOK, NEW r \in Requests, Good(r), req'[r] = req[r], DictKeeps,
         Active(r) => Keeps(req[r].host)
  PROVE  Good(r)'
<1>1. CASE ~Active(r)
  BY <1>1 DEF Good, Active
<1>2. CASE Active(r)
  <2>1. req[r].host \in Hosts /\ req[r].name \in Names /\ Keeps(req[r].host)
    BY <1>2, ActiveIsRequest
  <2>2. QED
    BY <1>2, <2>1, ZenonT(60) DEF Good, Active, Keeps, DictKeeps, IsGet, Contains
<1>3. QED
  BY <1>1, <1>2

\* One request moves to a good state and the others stay.
LEMMA OneMoves ==
  ASSUME TypeOK, AllGood, NEW r \in Requests, Good(r)', DictKeeps,
         OthersStay(r), \A h \in Hosts : Keeps(h)
  PROVE  AllGood'
<1>1. ASSUME NEW s \in Requests \ {r} PROVE Good(s)'
  <2>1. Active(s) => Keeps(req[s].host)
    BY ActiveIsRequest
  <2>2. QED
    BY <2>1, StaysGood DEF AllGood, OthersStay
<1>2. QED
  BY <1>1 DEF AllGood

\* No request moves, and only hosts without requests lose anything.
LEMMA NoneMoves ==
  ASSUME TypeOK, AllGood, UNCHANGED req, DictKeeps,
         \A r \in Requests : Active(r) => Keeps(req[r].host)
  PROVE  AllGood'
BY StaysGood DEF AllGood

\* A host that stops takes its requests along and disturbs no other.
LEMMA StopGood ==
  ASSUME TypeOK, AllGood, NEW h \in Hosts, Stop(h), DictKeeps,
         \A x \in Hosts, n \in Names :
           torrentFile[x][n] # NoTorrent => torrentFile'[x][n] # NoTorrent
  PROVE  AllGood'
<1>1. SUFFICES ASSUME NEW r \in Requests PROVE Good(r)'
  BY DEF AllGood
<1>2. CASE Active(r) /\ req[r].host = h
  BY <1>2 DEF Stop, Good, Active
<1>3. CASE Active(r) /\ req[r].host # h
  <2>1. req[r].host \in Hosts /\ req'[r] = req[r]
    BY <1>3, ActiveIsRequest DEF Stop
  <2>2. Keeps(req[r].host)
    BY <1>3, <2>1 DEF Stop, Keeps, TypeOK, Contains, Listed
  <2>3. QED
    BY <2>1, <2>2, StaysGood DEF AllGood
<1>4. CASE ~Active(r)
  BY <1>4 DEF Stop, Good, Active
<1>5. QED
  BY <1>2, <1>3, <1>4

\* Nothing but requests, torrent files and data changes.
LEMMA QuietKeeps ==
  ASSUME UNCHANGED <<phase, registry, lost, engine, handle, dict>>,
         \A h \in Hosts, n \in Names :
           torrentFile[h][n] # NoTorrent => torrentFile'[h][n] # NoTorrent
  PROVE  DictKeeps /\ \A h \in Hosts : Keeps(h)
BY DEF DictKeeps, Keeps, Contains, Listed

LEMMA FailMoves ==
  ASSUME TypeOK, NEW r \in Requests, Fail(r)
  PROVE  OthersStay(r) /\ Good(r)'
BY DEF Fail, OthersStay, Good, Active, TypeOK

\* req'[r] after a move to p with torrent t in hand.
Moved(r, p, t) ==
  /\ req'[r].pc = p /\ req'[r].ver = t
  /\ req'[r].op = req[r].op /\ req'[r].hit = req[r].hit
  /\ req'[r].host = req[r].host /\ req'[r].name = req[r].name

LEMMA GotoMoves ==
  ASSUME TypeOK, NEW r \in Requests, Active(r), NEW p \in Pcs, Goto(r, p)
  PROVE  OthersStay(r) /\ Moved(r, p, req[r].ver)
<1>1. req[r] \in Request /\ req' = [req EXCEPT ![r] = [req[r] EXCEPT !.pc = p]]
  BY ActiveIsRequest DEF Goto
<1>2. OthersStay(r) /\ req'[r] = [req[r] EXCEPT !.pc = p]
  BY <1>1 DEF OthersStay, TypeOK
<1>3. QED
  BY <1>1, <1>2 DEF Moved, Request

LEMMA GotoWithMoves ==
  ASSUME TypeOK, NEW r \in Requests, Active(r), NEW p \in Pcs, NEW t \in TorrentBytes,
         req' = [req EXCEPT ![r] = [req[r] EXCEPT !.ver = t, !.pc = p]]
  PROVE  OthersStay(r) /\ Moved(r, p, t)
<1>1. req[r] \in Request
  BY ActiveIsRequest
<1>2. OthersStay(r) /\ req'[r] = [req[r] EXCEPT !.ver = t, !.pc = p]
  BY DEF OthersStay, TypeOK
<1>3. DEFINE q == [req[r] EXCEPT !.ver = t, !.pc = p]
<1>4. /\ q.pc = p /\ q.ver = t /\ q.op = req[r].op /\ q.host = req[r].host
      /\ q.name = req[r].name /\ q.hit = req[r].hit
  BY <1>1, SMTT(30) DEF Request
<1>5. QED
  BY <1>1, <1>2, <1>4, ZenonT(30) DEF Moved

LEMMA RequestStepGood ==
  ASSUME TypeOK, AllGood, NEW r \in Requests,
         ArriveGet(r) \/ ArrivePublish(r) \/ Leave(r) \/ Step(r)
  PROVE  AllGood' /\ OthersStay(r) /\ \A h \in Hosts : Keeps(h)
<1> USE ConstantsAssumption
<1> DEFINE Quiet == DictKeeps /\ \A h \in Hosts : Keeps(h)
<1>0. Good(r) /\ (Active(r) => /\ req[r] \in Request
                               /\ req[r].host \in Hosts /\ req[r].name \in Names
                               /\ req[r].ver \in TorrentBytes
                               /\ req[r].op \in Ops /\ req[r].hit \in BOOLEAN)
  BY ActiveIsRequest DEF AllGood
<1>1. CASE ArriveGet(r)
  <2>1. Quiet
    BY <1>1, QuietKeeps DEF ArriveGet, diskVars, processVars
  <2>2. OthersStay(r) /\ Good(r)'
    <3>1. PICK h \in Hosts, n \in Names, o \in {"get", "peek"} :
            /\ phase[h] = "up"
            /\ req' = [req EXCEPT ![r] =
                         [pc |-> "torrent", op |-> o, host |-> h, name |-> n,
                          hit |-> n \in registry[h], ver |-> NoTorrent]]
      BY <1>1 DEF ArriveGet
    <3>2. /\ OthersStay(r) /\ phase' = phase /\ registry' = registry
          /\ req'[r] = [pc |-> "torrent", op |-> o, host |-> h, name |-> n,
                        hit |-> n \in registry[h], ver |-> NoTorrent]
      BY <1>1, <3>1 DEF ArriveGet, OthersStay, TypeOK
    <3>3. /\ req'[r].pc = "torrent" /\ req'[r].op = o /\ req'[r].host = h
          /\ req'[r].name = n /\ (req'[r].hit => n \in registry[h])
      <4>1. req'[r].pc = "torrent" /\ req'[r].op = o /\ req'[r].host = h /\ req'[r].name = n
        BY <3>2
      <4>2. PICK b \in BOOLEAN : b <=> n \in registry[h]
        OBVIOUS
      <4>3. req'[r] = [pc |-> "torrent", op |-> o, host |-> h, name |-> n,
                       hit |-> b, ver |-> NoTorrent]
        BY <3>2, <4>2, Zenon
      <4>4. req'[r].hit = b
        BY <4>3
      <4>5. QED
        BY <4>1, <4>2, <4>4
    <3>4. Good(r)'
      BY <3>1, <3>2, <3>3 DEF Good, IsGet
    <3>5. QED
      BY <3>2, <3>4
  <2>3. QED
    BY <2>1, <2>2, OneMoves
<1>2. CASE ArrivePublish(r)
  <2>1. Quiet
    BY <1>2, QuietKeeps DEF ArrivePublish, diskVars, processVars
  <2>2. OthersStay(r) /\ Good(r)'
    BY <1>2 DEF ArrivePublish, OthersStay, Good, Active, IsGet, TypeOK, Item
  <2>3. QED
    BY <2>1, <2>2, OneMoves
<1>3. CASE Leave(r)
  <2>1. Quiet
    BY <1>3, QuietKeeps DEF Leave, diskVars, processVars
  <2>2. OthersStay(r) /\ Good(r)'
    BY <1>3 DEF Leave, OthersStay, Good, Active, TypeOK
  <2>3. QED
    BY <2>1, <2>2, OneMoves
<1>4. CASE ReadTorrent(r)
  <2>1. Quiet
    BY <1>4, QuietKeeps DEF ReadTorrent, diskVars, processVars
  <2>2. OthersStay(r) /\ Good(r)'
    <3>1. CASE Fail(r)
      BY <3>1, FailMoves
    <3>2. CASE ~Fail(r)
      <4>1. PICK t \in Versions : /\ t = torrentFile[req[r].host][req[r].name]
                                 /\ req' = [req EXCEPT ![r] = [req[r] EXCEPT
                                              !.ver = t, !.pc = AfterTorrent(req[r])]]
        BY <1>4, <3>2 DEF ReadTorrent
      <4>2. OthersStay(r) /\ Moved(r, AfterTorrent(req[r]), t)
        BY <1>4, <1>0, <4>1, AfterTorrentType, GotoWithMoves DEF ReadTorrent, At, TorrentBytes
      <4>3. Active(r) /\ req[r].pc = "torrent" /\ Good(r)
        BY <1>4, <1>0 DEF ReadTorrent, At
      <4>4. t \in Versions /\ torrentFile'[req[r].host][req[r].name] # NoTorrent
        BY <1>4, <4>1 DEF ReadTorrent, diskVars
      <4>5. Good(r)'
        BY <1>0, <2>1, <4>2, <4>3, <4>4
        DEF AfterTorrent, Moved, Good, Active, IsGet, Ops, Keeps
      <4>6. QED
        BY <4>2, <4>5
    <3>3. QED
      BY <3>1, <3>2
  <2>3. QED
    BY <2>1, <2>2, OneMoves
<1>5. CASE DownloadTorrent(r)
  <2>1. Quiet
    BY <1>5, QuietKeeps DEF DownloadTorrent, diskVars, processVars
  <2>2. \A v \in TorrentsOffered(req[r].name) : v # NoTorrent
    BY DEF TorrentsOffered
  <2>3. OthersStay(r) /\ Good(r)'
    <3>1. CASE Fail(r)
      BY <3>1, FailMoves
    <3>2. ASSUME NEW v \in TorrentsOffered(req[r].name),
                 req' = [req EXCEPT ![r] = [req[r] EXCEPT !.ver = v, !.pc = "save"]]
          PROVE  OthersStay(r) /\ Good(r)'
      <4>1. v \in TorrentBytes /\ "save" \in Pcs /\ Active(r)
        BY <1>5, <1>0, OfferedType DEF DownloadTorrent, At, Pcs
      <4>2. OthersStay(r) /\ Moved(r, "save", v)
        BY <3>2, <4>1, GotoWithMoves
      <4>3. Good(r)'
        BY <1>0, <2>1, <2>2, <4>1, <4>2 DEF Moved, Good, Active, IsGet, Keeps
      <4>4. QED
        BY <4>2, <4>3
    <3>3. QED
      BY <1>5, <3>1, <3>2 DEF DownloadTorrent
  <2>4. QED
    BY <2>1, <2>3, OneMoves
<1>6. CASE OpenTorrent(r)
  <2>1. Quiet
    <3>1. CASE UNCHANGED torrentFile
      BY <1>6, <3>1, QuietKeeps DEF OpenTorrent, processVars
    <3>2. CASE torrentFile' = [torrentFile EXCEPT ![req[r].host][req[r].name] = Truncated]
      <4>1. \A h \in Hosts, n \in Names :
              torrentFile[h][n] # NoTorrent => torrentFile'[h][n] # NoTorrent
        BY <1>0, <1>6, <3>2, Read2 DEF OpenTorrent, At, Truncated, TypeOK
      <4>2. QED
        BY <1>6, <4>1, QuietKeeps DEF OpenTorrent, processVars
    <3>3. QED
      BY <1>6, <3>1, <3>2 DEF OpenTorrent
  <2>2. OthersStay(r) /\ Good(r)'
    <3>1. CASE Fail(r)
      BY <3>1, FailMoves
    <3>2. ASSUME NEW p \in {"saving"}, Goto(r, p), ~Fail(r)
          PROVE  OthersStay(r) /\ Good(r)'
      <4>1. OthersStay(r) /\ Moved(r, p, req[r].ver)
        BY <1>6, <3>2, GotoMoves DEF OpenTorrent, At, Pcs
      <4>2. Good(r)'
        BY <1>6, <1>0, <2>1, <3>2, <4>1
        DEF OpenTorrent, At, Moved, Good, Active, IsGet, Keeps, TypeOK
      <4>3. QED
        BY <4>1, <4>2
    <3>3. QED
      BY <1>6, <3>1, <3>2 DEF OpenTorrent
  <2>3. QED
    BY <2>1, <2>2, OneMoves
<1>7. CASE CloseTorrent(r)
  <2>1. /\ Active(r) /\ req[r].pc = "saving" /\ req[r].ver # NoTorrent
        /\ torrentFile' = [torrentFile EXCEPT ![req[r].host][req[r].name] = req[r].ver]
    BY <1>0, <1>7 DEF CloseTorrent, At, Good
  <2>2. \A h \in Hosts, n \in Names :
          torrentFile'[h][n] = IF h = req[r].host /\ n = req[r].name THEN req[r].ver
                                                                  ELSE torrentFile[h][n]
    BY <1>0, <2>1, Read2 DEF TypeOK
  <2>3. Quiet
    BY <1>7, <2>1, <2>2, QuietKeeps DEF CloseTorrent, processVars
  <2>4. OthersStay(r) /\ Good(r)'
    <3>1. CASE Fail(r)
      BY <3>1, FailMoves
    <3>2. CASE req[r].ver # Torn /\ Goto(r, AfterTorrent(req[r]))
      <4>1. OthersStay(r) /\ Moved(r, AfterTorrent(req[r]), req[r].ver)
        BY <1>0, <2>1, <3>2, AfterTorrentType, GotoMoves
      <4>2. req[r].ver \in Versions /\ torrentFile'[req[r].host][req[r].name] # NoTorrent
        BY <1>0, <2>1, <2>2, <3>2 DEF TorrentBytes
      <4>3. Good(r)'
        BY <1>0, <2>1, <2>3, <4>1, <4>2
        DEF AfterTorrent, Moved, Good, Active, IsGet, Ops, Keeps
      <4>4. QED
        BY <4>1, <4>3
    <3>3. QED
      BY <1>7, <3>1, <3>2 DEF CloseTorrent
  <2>5. QED
    BY <2>3, <2>4, OneMoves
<1>8. CASE PutUrl(r)
  <2>1. Quiet
    <3>1. DictKeeps
      <4>1. CASE UNCHANGED dict
        BY <4>1 DEF DictKeeps
      <4>2. CASE dict' = [dict EXCEPT ![req[r].name] = @ \cup {req[r].host}]
        BY <4>2 DEF DictKeeps, TypeOK
      <4>3. QED
        BY <1>8, <4>1, <4>2 DEF PutUrl
    <3>2. QED
      BY <1>8, <3>1 DEF PutUrl, Keeps, Contains, Listed, diskVars, processVars
  <2>2. OthersStay(r) /\ Good(r)'
    <3>1. CASE Fail(r)
      BY <3>1, FailMoves
    <3>2. ASSUME NEW p \in {"enlist"}, Goto(r, p), ~Fail(r)
          PROVE  OthersStay(r) /\ Good(r)'
      <4>1. OthersStay(r) /\ Moved(r, p, req[r].ver)
        BY <1>8, <3>2, GotoMoves DEF PutUrl, At, Pcs
      <4>2. Good(r)'
        BY <1>8, <1>0, <2>1, <3>2, <4>1
        DEF PutUrl, At, Moved, Good, Active, IsGet, Keeps, TypeOK
      <4>3. QED
        BY <4>1, <4>2
    <3>3. QED
      BY <1>8, <3>1, <3>2 DEF PutUrl
  <2>3. QED
    BY <2>1, <2>2, OneMoves
<1>9. CASE Enlist(r)
  <2>1. Quiet
    <3>1. \A h \in Hosts : /\ registry[h] \subseteq registry'[h]
                            /\ \A n \in Names : Listed(h, n) => Listed(h, n)'
      <4>1. CASE UNCHANGED registry /\ lost \subseteq lost'
        BY <4>1 DEF Listed
      <4>2. CASE /\ registry' = [registry EXCEPT ![req[r].host] = @ \cup {req[r].name}]
                 /\ lost' = lost \ {<<req[r].host, req[r].name>>}
        BY <4>2 DEF TypeOK, Listed
      <4>3. QED
        BY <1>9, <4>1, <4>2 DEF Enlist
    <3>2. QED
      BY <1>9, <3>1 DEF Enlist, DictKeeps, Keeps, Contains, diskVars
  <2>2. OthersStay(r) /\ Good(r)'
    <3>1. CASE Fail(r)
      BY <3>1, FailMoves
    <3>2. CASE /\ \/ registry' = [registry EXCEPT ![req[r].host] = @ \cup {req[r].name}]
                  \/ lost' = lost \cup {<<req[r].host, req[r].name>>}
               /\ Goto(r, IF req[r].op = "get" THEN "ok" ELSE "start")
      <4> DEFINE p == IF req[r].op = "get" THEN "ok" ELSE "start"
      <4>1. Active(r) /\ req[r].pc = "enlist" /\ p \in Pcs
        BY <1>9 DEF Enlist, At, Pcs
      <4>2. OthersStay(r) /\ Moved(r, p, req[r].ver)
        BY <3>2, <4>1, GotoMoves
      <4>3. Listed(req[r].host, req[r].name)'
        <5>1. \/ req[r].name \in registry'[req[r].host]
              \/ <<req[r].host, req[r].name>> \in lost'
          BY <1>0, <3>2, <4>1 DEF TypeOK
        <5>2. QED
          BY <4>2, <5>1 DEF Moved, Listed
      <4>4. Good(r)'
        BY <1>0, <2>1, <4>1, <4>2, <4>3
        DEF Moved, Good, Active, IsGet, Ops, Keeps, DictKeeps
      <4>5. QED
        BY <4>2, <4>4
    <3>3. QED
      BY <1>9, <3>1, <3>2 DEF Enlist
  <2>3. QED
    BY <2>1, <2>2, OneMoves
<1>10. CASE CheckEngine(r)
  <2>1. Quiet
    BY <1>10, QuietKeeps DEF CheckEngine, diskVars, processVars
  <2>2. OthersStay(r) /\ Good(r)'
    <3>1. CASE Fail(r)
      BY <3>1, FailMoves
    <3>2. ASSUME NEW p \in {"ok", "start"}, Goto(r, p), ~Fail(r)
          PROVE  OthersStay(r) /\ Good(r)'
      <4>1. OthersStay(r) /\ Moved(r, p, req[r].ver)
        BY <1>10, <3>2, GotoMoves DEF CheckEngine, At, Pcs
      <4>2. Good(r)'
        <5>1. /\ Active(r) /\ req[r].pc = "contains"
              /\ p = "ok" => Contains(req[r].host, req[r].name, req[r].ver)
          BY <1>0, <1>10, <3>2, <4>1 DEF CheckEngine, At, Goto, Moved, TypeOK
        <5>2. QED
          BY <1>0, <2>1, <4>1, <5>1 DEF Moved, Good, Active, IsGet, Keeps, Listed
      <4>3. QED
        BY <4>1, <4>2
    <3>3. QED
      BY <1>10, <3>1, <3>2 DEF CheckEngine
  <2>3. QED
    BY <2>1, <2>2, OneMoves
<1>11. CASE StartDownload(r)
  <2>1. /\ Active(r) /\ req[r].pc = "start" /\ req[r].ver \in Versions
    BY <1>0, <1>11 DEF StartDownload, At, Good
  <2>2. CASE ~Registers(req[r].host, req[r].name, req[r].ver)
    <3>1. Quiet
      BY <1>11, <2>2, QuietKeeps DEF StartDownload, diskVars, processVars
    <3>2. QED
      BY <1>11, <2>2, <3>1, FailMoves, OneMoves DEF StartDownload
  <2>3. CASE Registers(req[r].host, req[r].name, req[r].ver)
    <3>1. PICK x : x = (IF PassesHandle(req[r]) THEN r ELSE NoRequest)
      OBVIOUS
    <3>2. /\ engine' = [engine EXCEPT ![req[r].host][req[r].name][req[r].ver] = "hashing"]
          /\ handle' = [handle EXCEPT ![req[r].host][req[r].name][req[r].ver] = x]
          /\ Goto(r, AfterStart(req[r]))
          /\ UNCHANGED <<phase, toSeed, diskVars, registry, lost, dict, halfAtBoot>>
      BY <1>11, <2>3, <3>1 DEF StartDownload
    <3>3. \A h \in Hosts, n \in Names, v \in Versions :
            engine'[h][n][v] = IF h = req[r].host /\ n = req[r].name /\ v = req[r].ver
                               THEN "hashing" ELSE engine[h][n][v]
      BY <1>0, <2>1, <3>2, Read3 DEF TypeOK
    <3>4. \A h \in Hosts, n \in Names, v \in Versions :
            handle'[h][n][v] = IF h = req[r].host /\ n = req[r].name /\ v = req[r].ver
                               THEN x ELSE handle[h][n][v]
      <4>1. PICK Holders : handle \in [Hosts -> [Names -> [Versions -> Holders]]]
        BY DEF TypeOK
      <4>2. QED
        BY <1>0, <2>1, <3>2, <4>1, Read3
    <3>5. Quiet
      <4>1. \A h \in Hosts, n \in Names, v \in Versions : Contains(h, n, v) =>
              engine'[h][n][v] # "none" /\ handle'[h][n][v] = handle[h][n][v]
        BY <2>3, <3>3, <3>4 DEF Registers, Contains
      <4>2. DictKeeps
        BY <3>2 DEF DictKeeps
      <4>3. ASSUME NEW h \in Hosts PROVE Keeps(h)
        BY <3>2, <4>1, <4>3 DEF Keeps, Contains, Listed, diskVars
      <4>4. QED
        BY <4>2, <4>3
    <3>6. OthersStay(r) /\ Moved(r, AfterStart(req[r]), req[r].ver)
      BY <1>0, <2>1, <3>2, GotoMoves DEF AfterStart, Pcs
    <3>7. Contains(req[r].host, req[r].name, req[r].ver)'
      BY <1>0, <2>1, <3>3, <3>6 DEF Contains, Moved
    <3>8. PassesHandle(req[r]) => handle'[req[r].host][req[r].name][req[r].ver] = r
      BY <1>0, <2>1, <3>1, <3>4
    <3>9. Good(r)'
      BY <1>0, <2>1, <3>5, <3>6, <3>7, <3>8
      DEF AfterStart, PassesHandle, Moved, Good, Active, IsGet, Ops, Keeps, DictKeeps, Listed
    <3>10. QED
      BY <3>5, <3>6, <3>9, OneMoves
  <2>4. QED
    BY <2>2, <2>3
<1>12. QED
  BY <1>1, <1>2, <1>3, <1>4, <1>5, <1>6, <1>7, <1>8, <1>9, <1>10, <1>11 DEF Step

TorrentFilesStay ==
  \A h \in Hosts, n \in Names : torrentFile[h][n] # NoTorrent => torrentFile'[h][n] # NoTorrent

\* No step removes a torrent file: those that write one write something.
LEMMA TorrentFilesStayStep ==
  ASSUME TypeOK, AllGood, [Next]_vars
  PROVE  TorrentFilesStay
<1> USE ConstantsAssumption
<1>1. ASSUME NEW x \in Hosts, NEW m \in Names, NEW t, t # NoTorrent,
             torrentFile' = [torrentFile EXCEPT ![x][m] = t]
      PROVE  TorrentFilesStay
  BY <1>1, Read2 DEF TorrentFilesStay, TypeOK
<1>2. ASSUME NEW r \in Requests, OpenTorrent(r)
      PROVE  TorrentFilesStay
  <2>1. req[r].host \in Hosts /\ req[r].name \in Names /\ Truncated # NoTorrent
    BY <1>2, ActiveIsRequest DEF OpenTorrent, At, Truncated
  <2>2. CASE UNCHANGED torrentFile
    BY <2>2 DEF TorrentFilesStay
  <2>3. CASE torrentFile' = [torrentFile EXCEPT ![req[r].host][req[r].name] = Truncated]
    BY <1>1, <2>1, <2>3
  <2>4. QED
    BY <1>2, <2>2, <2>3 DEF OpenTorrent
<1>3. ASSUME NEW r \in Requests, CloseTorrent(r)
      PROVE  TorrentFilesStay
  <2>1. /\ req[r].host \in Hosts /\ req[r].name \in Names /\ req[r].ver # NoTorrent
        /\ torrentFile' = [torrentFile EXCEPT ![req[r].host][req[r].name] = req[r].ver]
    BY <1>3, ActiveIsRequest DEF CloseTorrent, At, AllGood, Good
  <2>2. QED
    BY <1>1, <2>1
<1>4. ASSUME NEW h \in Hosts, NEW n \in Names, SeedNext(h, n)
      PROVE  TorrentFilesStay
  <2>1. PICK v \in IF torrentFile[h][n] = NoTorrent THEN TorrentsOffered(n) \ {Torn}
                                                ELSE {torrentFile[h][n]} \ {Torn} :
             torrentFile' = [torrentFile EXCEPT ![h][n] = v]
    BY <1>4 DEF SeedNext
  <2>2. v # NoTorrent
    BY <2>1, OfferedType
  <2>3. QED
    BY <1>1, <2>1, <2>2
<1>5. ASSUME NEW h \in Hosts, NEW n \in Names, SeedFails(h, n)
      PROVE  TorrentFilesStay
  <2>1. CASE UNCHANGED torrentFile
    BY <2>1 DEF TorrentFilesStay
  <2>2. CASE torrentFile' = [torrentFile EXCEPT ![h][n] = Torn]
    BY <1>1, <2>2
  <2>3. QED
    BY <1>5, <2>1, <2>2 DEF SeedFails
<1>6. CASE UNCHANGED torrentFile
  BY <1>6 DEF TorrentFilesStay
<1>7. ASSUME NEW r \in Requests,
             \/ ArriveGet(r) \/ ArrivePublish(r) \/ Leave(r) \/ ReadTorrent(r)
             \/ DownloadTorrent(r) \/ PutUrl(r) \/ Enlist(r) \/ CheckEngine(r)
             \/ StartDownload(r)
      PROVE  UNCHANGED torrentFile
  BY <1>7 DEF ArriveGet, ArrivePublish, Leave, ReadTorrent, DownloadTorrent, PutUrl, Enlist,
              CheckEngine, StartDownload, diskVars
<1>8. ASSUME NEW h \in Hosts, NEW n \in Names, NEW v \in Versions,
             \/ HashingDone(h, n, v) \/ ReceivePieces(h, n, v) \/ DownloadDone(h, n, v)
             \/ Stage(h, n, v) \/ Rewrite(h, n, v)
      PROVE  UNCHANGED torrentFile
  BY <1>8 DEF HashingDone, ReceivePieces, DownloadDone, Stage, Rewrite, diskVars
<1>9. ASSUME NEW h \in Hosts, Crash(h) \/ Boot(h) \/ BootDone(h)
      PROVE  UNCHANGED torrentFile
  BY <1>9 DEF Crash, Boot, BootDone, diskVars
<1>10. CASE UNCHANGED vars
  BY <1>6, <1>10 DEF vars, diskVars
<1>11. QED
  BY <1>2, <1>3, <1>4, <1>5, <1>6, <1>7, <1>8, <1>9, <1>10 DEF Next

\* Steps of the engine, of the local user, of a crash and of a restart.
LEMMA OtherStepGood ==
  ASSUME TypeOK, AllGood, TorrentFilesStay, NEW h \in Hosts,
         \/ \E n \in Names, v \in Versions :
              \/ Swarm(h, n, v) \/ Stage(h, n, v) \/ Rewrite(h, n, v)
         \/ Crash(h) \/ Boot(h) \/ BootDone(h)
         \/ \E n \in Names : SeedNext(h, n) \/ SeedFails(h, n)
  PROVE  AllGood'
<1> USE ConstantsAssumption
<1>1. \A r \in Requests : Active(r) => req[r].host \in Hosts /\ phase[req[r].host] = "up"
  BY ActiveIsRequest DEF AllGood, Good
<1>2. ASSUME NEW n \in Names, NEW v \in Versions, HashingDone(h, n, v)
      PROVE  AllGood'
  <2>1. \A x \in Hosts, m \in Names, w \in Versions : Contains(x, m, w) => Contains(x, m, w)'
    <3>1. AfterHashing(h, n, v) # "none"
      BY DEF AfterHashing
    <3>2. QED
      BY <1>2, <3>1, Read3 DEF HashingDone, Contains, TypeOK
  <2>2. DictKeeps /\ \A x \in Hosts : Keeps(x)
    BY <1>2, <2>1 DEF HashingDone, DictKeeps, Keeps, Listed, diskVars
  <2>3. QED
    BY <1>1, <1>2, <2>2, NoneMoves DEF HashingDone
<1>3. ASSUME NEW n \in Names, NEW v \in Versions,
             ReceivePieces(h, n, v) \/ Stage(h, n, v) \/ Rewrite(h, n, v)
      PROVE  AllGood'
  <2>1. UNCHANGED <<phase, registry, lost, engine, handle, dict, torrentFile, req>>
    BY <1>3 DEF ReceivePieces, Stage, Rewrite, processVars
  <2>2. DictKeeps /\ \A x \in Hosts : Keeps(x)
    BY <2>1, QuietKeeps
  <2>3. QED
    BY <1>1, <2>1, <2>2, NoneMoves
<1>4. ASSUME NEW n \in Names, NEW v \in Versions, DownloadDone(h, n, v)
      PROVE  AllGood'
  <2>1. \A x \in Hosts, m \in Names, w \in Versions : Contains(x, m, w) => Contains(x, m, w)'
    BY <1>4, Read3 DEF DownloadDone, Contains, TypeOK
  <2>2. UNCHANGED <<phase, torrentFile, registry, lost, dict>>
    BY <1>4 DEF DownloadDone
  <2>3. SUFFICES ASSUME NEW r \in Requests PROVE Good(r)'
    BY DEF AllGood
  <2>4. CASE r \in Woken(h, n, v)
    <3>1. Active(r) /\ req[r] \in Request /\ req[r].pc = "wait" /\ Good(r)
      BY <2>4, ActiveIsRequest DEF Woken, At, AllGood
    <3>2. req'[r] = [req[r] EXCEPT !.pc = "enlist"]
      BY <1>4, <2>4 DEF DownloadDone
    <3>3. Moved(r, "enlist", req[r].ver)
      BY <3>1, <3>2 DEF Moved, Request
    <3>4. req[r].host \in Hosts /\ req[r].name \in Names /\ req[r].ver \in Versions
      BY <3>1, ActiveIsRequest DEF Good
    <3>5. Contains(req[r].host, req[r].name, req[r].ver)'
      BY <2>1, <3>1, <3>3, <3>4 DEF Good, Contains, Moved
    <3>6. QED
      BY <2>2, <3>1, <3>3, <3>4, <3>5 DEF Good, Moved, IsGet
  <2>5. CASE r \notin Woken(h, n, v)
    <3>1. req'[r] = req[r] /\ Good(r)
      BY <1>4, <2>5 DEF DownloadDone, AllGood
    <3>2. CASE ~Active(r)
      BY <3>1, <3>2 DEF Good, Active
    <3>3. CASE Active(r)
      <4>1. req[r].host \in Hosts /\ req[r].name \in Names
        BY <3>3, ActiveIsRequest
      <4>2. ASSUME req[r].pc = "wait"
            PROVE  handle'[req[r].host][req[r].name][req[r].ver] = r
        <5>1. /\ req[r].ver \in Versions
              /\ handle[req[r].host][req[r].name][req[r].ver] = r
          BY <3>1, <3>3, <4>2 DEF Good
        <5>2. ~(req[r].host = h /\ req[r].name = n /\ req[r].ver = v)
          BY <2>5, <3>3, <4>2, <5>1 DEF Woken, At
        <5>3. handle \in [Hosts -> [Names -> [Versions -> Requests \cup {NoRequest}]]]
          BY DEF TypeOK
        <5>4. handle' = [handle EXCEPT ![h][n][v] = NoRequest]
          BY <1>4 DEF DownloadDone
        <5>5. QED
          BY <4>1, <5>1, <5>2, <5>3, <5>4, Read3
      <4>3. QED
        BY <2>1, <2>2, <3>1, <3>3, <4>1, <4>2 DEF Good, Active, IsGet, Contains, Listed
    <3>4. QED
      BY <3>2, <3>3
  <2>6. QED
    BY <2>4, <2>5
<1>5. CASE Crash(h) \/ \E n \in Names : SeedFails(h, n)
  <2>1. Stop(h) /\ UNCHANGED dict
    BY <1>5 DEF Crash, SeedFails
  <2>2. QED
    BY <2>1, StopGood DEF DictKeeps, TorrentFilesStay
<1>6. CASE Boot(h) \/ BootDone(h)
  <2>1. phase[h] # "up" /\ UNCHANGED <<req, dict>>
    BY <1>6 DEF Boot, BootDone
  <2>2. \A x \in Hosts \ {h} : Keeps(x)
    BY <1>6 DEF Boot, BootDone, Keeps, Contains, Listed, TypeOK, diskVars, processVars
  <2>3. QED
    BY <1>1, <2>1, <2>2, NoneMoves DEF DictKeeps
<1>7. ASSUME NEW n \in Names, SeedNext(h, n)
      PROVE  AllGood'
  <2>1. phase[h] # "up" /\ UNCHANGED <<phase, registry, lost, handle, req, dict>>
    BY <1>7 DEF SeedNext
  <2>2. \A x \in Hosts \ {h} : engine'[x] = engine[x]
    BY <1>7 DEF SeedNext, TypeOK
  <2>3. \A x \in Hosts \ {h} : Keeps(x)
    BY <2>1, <2>2 DEF Keeps, Contains, Listed, TorrentFilesStay
  <2>4. QED
    BY <1>1, <2>1, <2>3, NoneMoves DEF DictKeeps
<1>8. QED
  BY <1>2, <1>3, <1>4, <1>5, <1>6, <1>7 DEF Swarm

\* Only PutUrl changes the dictionary.
LEMMA DictChanges ==
  ASSUME [Next]_vars, dict' # dict
  PROVE  \E r \in Requests : PutUrl(r)
<1>1. ASSUME NEW r \in Requests,
             \/ ArriveGet(r) \/ ArrivePublish(r) \/ Leave(r) \/ ReadTorrent(r)
             \/ DownloadTorrent(r) \/ OpenTorrent(r) \/ CloseTorrent(r) \/ Enlist(r)
             \/ CheckEngine(r) \/ StartDownload(r)
      PROVE  UNCHANGED dict
  BY <1>1 DEF ArriveGet, ArrivePublish, Leave, ReadTorrent, DownloadTorrent, OpenTorrent,
              CloseTorrent, Enlist, CheckEngine, StartDownload
<1>2. ASSUME NEW h \in Hosts, NEW n \in Names, NEW v \in Versions,
             \/ HashingDone(h, n, v) \/ ReceivePieces(h, n, v) \/ DownloadDone(h, n, v)
             \/ Stage(h, n, v) \/ Rewrite(h, n, v)
      PROVE  UNCHANGED dict
  BY <1>2 DEF HashingDone, ReceivePieces, DownloadDone, Stage, Rewrite
<1>3. ASSUME NEW h \in Hosts,
             \/ Crash(h) \/ Boot(h) \/ BootDone(h)
             \/ \E n \in Names : SeedNext(h, n) \/ SeedFails(h, n)
      PROVE  UNCHANGED dict
  BY <1>3 DEF Crash, Boot, BootDone, SeedNext, SeedFails
<1>4. QED
  BY <1>1, <1>2, <1>3 DEF Next, vars

LEMMA InvStep == Inv /\ [Next]_vars => Inv'
<1> SUFFICES ASSUME Inv, [Next]_vars PROVE Inv'
  OBVIOUS
<1>1. TypeOK /\ AllGood /\ TypeOK' /\ TorrentFilesStay
  BY TypeStep, TorrentFilesStayStep DEF Inv
<1>2. AllGood'
  <2>1. CASE UNCHANGED vars
    <3>1. UNCHANGED <<phase, registry, lost, engine, handle, dict>> /\ UNCHANGED <<torrentFile, req>>
      BY <2>1 DEF vars, diskVars, processVars
    <3>2. DictKeeps /\ \A h \in Hosts : Keeps(h)
      BY <3>1, QuietKeeps
    <3>3. QED
      BY <1>1, <3>1, <3>2, NoneMoves, ActiveIsRequest
  <2>2. CASE Next
    BY <1>1, <2>2, RequestStepGood, OtherStepGood DEF Next, Step, Swarm
  <2>3. QED
    BY <2>1, <2>2
<1>3. PublishedUrlResolves'
  <2>1. SUFFICES ASSUME NEW n \in Names, NEW h \in dict'[n]
                 PROVE  torrentFile'[h][n] # NoTorrent
    BY DEF PublishedUrlResolves
  <2>2. h \in Hosts
    BY <1>1 DEF TypeOK
  <2>3. CASE h \in dict[n]
    BY <1>1, <2>2, <2>3 DEF Inv, PublishedUrlResolves, TorrentFilesStay
  <2>4. CASE h \notin dict[n]
    <3>1. PICK r \in Requests : PutUrl(r)
      BY <2>4, DictChanges
    <3>2. h = req[r].host /\ n = req[r].name
      BY <1>1, <2>4, <3>1 DEF PutUrl, TypeOK
    <3>3. torrentFile[h][n] # NoTorrent
      BY <1>1, <3>1, <3>2 DEF PutUrl, At, AllGood, Good
    <3>4. QED
      BY <1>1, <2>2, <3>3 DEF TorrentFilesStay
  <2>5. QED
    BY <2>3, <2>4
<1>4. QED
  BY <1>1, <1>2, <1>3 DEF Inv

\* The inductive invariant holds: the type, where published URLs lead, and what each
\* request has already done for its name at the place where it stands.
THEOREM InvHolds == Spec => []Inv
<1>1. Init => Inv
  <2>1. Init => TypeOK
    BY DEF Init, TypeOK, TorrentBytes, EngineState
  <2>2. Init => PublishedUrlResolves /\ AllGood
    BY DEF Init, PublishedUrlResolves, AllGood, Good, Active
  <2>3. QED
    BY <2>1, <2>2 DEF Inv
<1>2. QED
  BY <1>1, InvStep, PTL DEF Spec

\* A published URL always leads to a torrent file.
THEOREM PublishedUrlsResolve == Spec => []PublishedUrlResolves
<1>1. Inv => PublishedUrlResolves
  BY DEF Inv
<1>2. QED
  BY <1>1, InvHolds, PTL

\* A blocked Get never loses the handler that can wake it.
THEOREM WaitersAreHeld == Spec => []WaiterIsHeld
<1>1. Inv => WaiterIsHeld
  BY DEF Inv, AllGood, Good, WaiterIsHeld, At
<1>2. QED
  BY <1>1, InvHolds, PTL

\* A request answered with success leaves a registered name, its torrent in the engine
\* and, if it was a publication, its URL in the dictionary.
THEOREM AnsweredAreServed == Spec => []AnsweredIsServed
<1>1. Inv => AnsweredIsServed
  BY DEF Inv, AllGood, Good, AnsweredIsServed, Listed, At
<1>2. QED
  BY <1>1, InvHolds, PTL

----------------------------------------------------------------------------
(* Every registered name of a running host is shared *)

\* n, registered on h, is shared, about to be, in the hands of a publication, or left by one.
Shared(h, n) ==
  \/ \E v \in Versions : Contains(h, n, v)
  \/ n \in toSeed[h]
  \/ \E r \in Requests : At(r, "start") /\ req[r].host = h /\ req[r].name = n
  \/ <<h, n>> \in unstarted

\* A step of a request: whoever leaves "start" has its torrent in the engine, and
\* whoever registers a name goes to "start" or has downloaded the data.
LEMMA SharedRequestStep ==
  ASSUME Inv, NEW r \in Requests,
         ArriveGet(r) \/ ArrivePublish(r) \/ Leave(r) \/ Step(r),
         NEW h \in Hosts, NEW n \in registry'[h], n \in registry[h] => Shared(h, n)
  PROVE  Shared(h, n)'
<1>1. TypeOK /\ Good(r) /\ OthersStay(r) /\ Keeps(h)
  BY RequestStepGood DEF Inv, AllGood
<1>2. n \in Names
  <2>1. registry'[h] \subseteq Names
    <3>1. registry' \in [Hosts -> SUBSET Names]
      BY <1>1, TypeStep DEF Next, Step, TypeOK
    <3>2. QED
      BY <3>1
  <2>2. QED
    BY <2>1
<1>3. ASSUME NEW v \in Versions, Contains(h, n, v) PROVE Shared(h, n)'
  BY <1>1, <1>2, <1>3 DEF Keeps, Shared
<1>4. toSeed' = toSeed
  BY DEF ArriveGet, ArrivePublish, Leave, Step, ReadTorrent, DownloadTorrent, OpenTorrent,
         CloseTorrent, PutUrl, Enlist, CheckEngine, StartDownload
<1>5. ASSUME n \in registry[h] PROVE Shared(h, n)'
  <2>1. CASE n \in toSeed[h]
    BY <1>4, <2>1 DEF Shared
  <2>2. ASSUME NEW s \in Requests \ {r}, At(s, "start"), req[s].host = h, req[s].name = n
        PROVE  Shared(h, n)'
    BY <1>1, <2>2 DEF OthersStay, Shared, At, Active
  <2>3. CASE At(r, "start") /\ req[r].host = h /\ req[r].name = n
    <3>1. StartDownload(r) /\ req[r].ver \in Versions
      BY <1>1, <2>3 DEF ArriveGet, ArrivePublish, Leave, Step, ReadTorrent, DownloadTorrent,
                        OpenTorrent, CloseTorrent, PutUrl, Enlist, CheckEngine, At, Good
    <3>2. CASE Contains(h, n, req[r].ver)
      BY <1>3, <3>1, <3>2
    <3>3. CASE ~Contains(h, n, req[r].ver)
      <4>1. engine' = [engine EXCEPT ![h][n][req[r].ver] = "hashing"]
        BY <2>3, <3>1, <3>3 DEF StartDownload, Registers
      <4>2. engine'[h][n][req[r].ver] = "hashing"
        BY <1>1, <1>2, <3>1, <4>1, Read3 DEF TypeOK
      <4>3. QED
        BY <3>1, <4>2 DEF Shared, Contains
    <3>4. QED
      BY <3>2, <3>3
  <2>4. CASE <<h, n>> \in unstarted
    <3>1. <<h, n>> \in unstarted' \/ (At(r, "start") /\ req[r].host = h /\ req[r].name = n)
      BY <2>4 DEF ArriveGet, ArrivePublish, Leave, Step, ReadTorrent, DownloadTorrent, OpenTorrent,
                  CloseTorrent, PutUrl, Enlist, CheckEngine, StartDownload, processVars
    <3>2. QED
      BY <2>3, <3>1 DEF Shared
  <2>5. QED
    BY <1>3, <1>5, <2>1, <2>2, <2>3, <2>4 DEF Shared
<1>6. ASSUME n \notin registry[h] PROVE Shared(h, n)'
  <2>1. Enlist(r)
    BY <1>6 DEF ArriveGet, ArrivePublish, Leave, Step, ReadTorrent, DownloadTorrent, OpenTorrent,
                CloseTorrent, PutUrl, CheckEngine, StartDownload
  <2>2. At(r, "enlist") /\ req[r].host = h /\ req[r].name = n
    <3>1. At(r, "enlist") /\ (registry' # registry =>
            registry' = [registry EXCEPT ![req[r].host] = @ \cup {req[r].name}])
      BY <2>1 DEF Enlist
    <3>2. registry' = [registry EXCEPT ![req[r].host] = @ \cup {req[r].name}]
      BY <1>6, <3>1
    <3>3. \A x \in Hosts : x # req[r].host => registry'[x] = registry[x]
      BY <1>1, <3>2 DEF TypeOK
    <3>4. req[r].host = h
      BY <1>6, <3>3
    <3>5. QED
      BY <1>1, <1>6, <3>1, <3>2, <3>4 DEF TypeOK
  <2>3. CASE req[r].op = "get"
    <3>1. req[r].ver \in Versions /\ Contains(h, n, req[r].ver)
      BY <1>1, <2>2, <2>3 DEF Good, At, IsGet
    <3>2. QED
      BY <1>3, <3>1
  <2>4. CASE req[r].op # "get" /\ Goto(r, IF req[r].op = "get" THEN "ok" ELSE "start")
    <3>1. Moved(r, "start", req[r].ver)
      BY <1>1, <2>2, <2>4, GotoMoves DEF At, Pcs
    <3>2. QED
      BY <2>2, <3>1 DEF Moved, Shared, At, Active, Idle
  \* The registry file could not be written.
  <2>5. CASE /\ Fail(r)
             /\ unstarted' = IF Contains(req[r].host, req[r].name, req[r].ver) THEN unstarted
                             ELSE unstarted \cup {<<req[r].host, req[r].name>>}
    <3>1. CASE Contains(h, n, req[r].ver)
      <4>1. req[r].ver \in Versions
        BY <1>1, <2>2 DEF Good, At
      <4>2. QED
        BY <1>3, <3>1, <4>1
    <3>2. CASE ~Contains(h, n, req[r].ver)
      BY <2>2, <2>5, <3>2 DEF Shared
    <3>3. QED
      BY <3>1, <3>2
  <2>6. QED
    BY <1>6, <2>1, <2>3, <2>4, <2>5 DEF Enlist
<1>7. QED
  BY <1>5, <1>6

LEMMA SharedStep == Inv /\ RegisteredIsShared /\ [Next]_vars => RegisteredIsShared'
<1> USE ConstantsAssumption
<1> SUFFICES ASSUME Inv, RegisteredIsShared, [Next]_vars, SeedAtStartup,
                    NEW h \in Hosts, NEW n \in registry'[h]
             PROVE  Shared(h, n)'
  BY DEF RegisteredIsShared, Shared
<1>1. TypeOK /\ (n \in registry[h] => Shared(h, n))
  BY DEF Inv, RegisteredIsShared, Shared
<1>2. n \in Names
  BY TypeStep DEF Inv, TypeOK
<1>3. ASSUME NEW r \in Requests, ArriveGet(r) \/ ArrivePublish(r) \/ Leave(r) \/ Step(r)
      PROVE  Shared(h, n)'
  BY <1>1, <1>3, SharedRequestStep
\* A step that leaves requests, registry and toSeed of h alone and keeps its torrents.
<1>4. ASSUME registry'[h] = registry[h], toSeed'[h] = toSeed[h],
             \A r \in Requests : Active(r) /\ req[r].host = h /\ req[r].pc = "start"
                                  => req'[r] = req[r],
             <<h, n>> \in unstarted => <<h, n>> \in unstarted',
             \A v \in Versions : Contains(h, n, v) => Contains(h, n, v)'
      PROVE  Shared(h, n)'
  BY <1>1, <1>4 DEF Shared, At, Active
<1>5. ASSUME NEW x \in Hosts, NEW m \in Names, NEW v \in Versions, HashingDone(x, m, v)
      PROVE  Shared(h, n)'
  <2>1. \A w \in Versions : Contains(h, n, w) => Contains(h, n, w)'
    <3>1. AfterHashing(x, m, v) # "none"
      BY DEF AfterHashing
    <3>2. QED
      BY <1>1, <1>2, <1>5, <3>1, Read3 DEF HashingDone, Contains, TypeOK
  <2>2. QED
    BY <1>4, <1>5, <2>1 DEF HashingDone
<1>6. ASSUME NEW x \in Hosts, NEW m \in Names, NEW v \in Versions,
             ReceivePieces(x, m, v) \/ Stage(x, m, v) \/ Rewrite(x, m, v)
      PROVE  Shared(h, n)'
  BY <1>4, <1>6 DEF ReceivePieces, Stage, Rewrite, processVars, Contains
<1>7. ASSUME NEW x \in Hosts, NEW m \in Names, NEW v \in Versions, DownloadDone(x, m, v)
      PROVE  Shared(h, n)'
  <2>1. \A w \in Versions : Contains(h, n, w) => Contains(h, n, w)'
    BY <1>1, <1>2, <1>7, Read3 DEF DownloadDone, Contains, TypeOK
  <2>2. \A r \in Requests : Active(r) /\ req[r].pc = "start" => req'[r] = req[r]
    BY <1>7 DEF DownloadDone, Woken, At
  <2>3. QED
    BY <1>4, <1>7, <2>1, <2>2 DEF DownloadDone
<1>8. ASSUME NEW x \in Hosts, Stop(x) PROVE Shared(h, n)'
  <2>1. h # x
    BY <1>1, <1>8 DEF Stop, TypeOK
  <2>2. /\ registry'[h] = registry[h] /\ toSeed'[h] = toSeed[h] /\ engine'[h] = engine[h]
        /\ <<h, n>> \in unstarted => <<h, n>> \in unstarted'
    BY <1>1, <1>8, <2>1 DEF Stop, TypeOK
  <2>3. \A r \in Requests : Active(r) /\ req[r].host = h => req'[r] = req[r]
    BY <1>8, <2>1 DEF Stop
  <2>4. QED
    BY <1>4, <2>2, <2>3 DEF Contains
<1>9. ASSUME NEW x \in Hosts, Boot(x) PROVE Shared(h, n)'
  <2>1. CASE h = x
    BY <1>1, <1>9, <2>1 DEF Boot, SeedList, Downloaded, Shared, TypeOK
  <2>2. CASE h # x
    BY <1>1, <1>4, <1>9, <2>2 DEF Boot, Contains, TypeOK, processVars
  <2>3. QED
    BY <2>1, <2>2
<1>10. ASSUME NEW x \in Hosts, BootDone(x) PROVE Shared(h, n)'
  BY <1>4, <1>10 DEF BootDone, Contains, processVars
<1>11. ASSUME NEW x \in Hosts, NEW m \in Names, SeedNext(x, m) PROVE Shared(h, n)'
  <2>1. PICK v \in IF torrentFile[x][m] = NoTorrent THEN TorrentsOffered(m) \ {Torn}
                                                ELSE {torrentFile[x][m]} \ {Torn} :
             engine' = [engine EXCEPT ![x][m][v] = "hashing"]
    BY <1>11 DEF SeedNext
  <2>2. v \in Versions
    BY <1>1, <2>1, OfferedType DEF TypeOK, TorrentBytes
  <2>3. \A y \in Hosts, k \in Names, w \in Versions :
          engine'[y][k][w] = IF y = x /\ k = m /\ w = v THEN "hashing" ELSE engine[y][k][w]
    BY <1>1, <2>1, <2>2, Read3 DEF TypeOK
  <2>4. CASE h = x /\ n = m
    BY <1>2, <2>2, <2>3, <2>4 DEF Shared, Contains
  <2>5. CASE h # x \/ n # m
    <3>1. registry' = registry /\ req' = req /\ unstarted' = unstarted /\ (n \in toSeed[h] => n \in toSeed'[h])
      BY <1>1, <1>11, <2>5 DEF SeedNext, TypeOK
    <3>2. \A w \in Versions : Contains(h, n, w) => Contains(h, n, w)'
      BY <1>2, <2>3 DEF Contains
    <3>3. QED
      BY <1>1, <3>1, <3>2 DEF Shared, At, Active
  <2>6. QED
    BY <2>4, <2>5
<1>12. CASE UNCHANGED vars
  BY <1>4, <1>12 DEF vars, processVars, Contains
<1>13. QED
  BY <1>3, <1>5, <1>6, <1>7, <1>8, <1>9, <1>10, <1>11, <1>12
  DEF Next, Step, Crash, SeedFails

\* With seeding at startup, every name a running server has registered is in its engine
\* or about to be, over crashes, failed starts and restarts.
THEOREM RegisteredAreShared == Spec => []RegisteredIsShared
<1>1. Init => RegisteredIsShared
  BY DEF Init, RegisteredIsShared
<1>2. QED
  BY <1>1, InvHolds, SharedStep, PTL DEF Spec

============================================================================
