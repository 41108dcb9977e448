------------------------- MODULE BitTorrentManager -------------------------
(***************************************************************************)
(* The data-sharing core of a GatorShare server: BitTorrentManager with    *)
(* TorrentHelper and the registry of cached items, on several hosts that   *)
(* share one dictionary service (name -> URLs of .torrent files) and swarm *)
(* through MonoTorrent's ClientEngine.                                     *)
(*                                                                         *)
(* Web requests (Get, Peek, Publish, Update) run on the threads of their   *)
(* host and interleave at every file, dictionary, engine and registry      *)
(* access.  A host may crash at any of these points and restart from what  *)
(* its Torrents and Downloads directories hold.                            *)
(*                                                                         *)
(* External: the dictionary service, the engine (hashing, download,        *)
(* seeding) and the local user who stages files in Downloads.              *)
(***************************************************************************)
EXTENDS FiniteSets

CONSTANTS
  Hosts,          \* GatorShare servers
  Names,          \* the "nameSpace|name" keys
  Versions,       \* contents a data item can have; a torrent is <<name, version>>
  Requests,       \* web requests being served at one time, over all hosts
  SeedAtStartup,  \* appSetting BitTorrentManagerStartSeedingAtStartup
  NoTorrent,      \* there is no .torrent file
  Torn,           \* a .torrent file whose writing was cut short
  Absent,         \* there is nothing at the item's path in Downloads
  NoRequest       \* no wait handle (StartDownload was passed null)

ASSUME ConstantsAssumption ==
  /\ SeedAtStartup \in BOOLEAN
  /\ NoTorrent \notin Versions /\ Torn \notin Versions /\ NoTorrent # Torn
  /\ NoRequest \notin Requests
  /\ Absent \notin [ver : Versions, whole : BOOLEAN]

VARIABLES
  phase,        \* phase[h]: the server process is "down", "boot"ing or "up"
  toSeed,       \* toSeed[h]: entries StartSeedingLocalFiles has yet to visit
  torrentFile,  \* torrentFile[h][n]: Torrents/<n>.torrent on h's disk
  data,         \* data[h][n]: Downloads/<n> on h's disk
  registry,     \* registry[h]: names in h's CacheRegistry (memory)
  engine,       \* engine[h][n][v]: h's ClientEngine on torrent <<n, v>>
  handle,       \* handle[h][n][v]: the request whose wait handle the torrent's handler has to set
  dict,         \* dict[n]: hosts whose torrent URL is stored under n
  req,          \* req[r]: the request served in slot r
  halfAtBoot,   \* <<h, n>>: Downloads/<n> was incomplete when h last booted (history)
  unstarted,    \* <<h, n>>: a publication of n on h failed when it had registered n and
                \* not started it yet; nobody has started n since (history)
  lost          \* <<h, n>>: h's thread has registered n and the entry was lost in a race;
                \* nobody has registered n since (history)

diskVars == <<torrentFile, data>>
processVars == <<engine, handle, unstarted, lost>>
vars == <<phase, toSeed, torrentFile, data, registry, engine, handle, dict, req,
          halfAtBoot, unstarted, lost>>

----------------------------------------------------------------------------
(* Data *)

TorrentBytes == Versions \cup {NoTorrent, Torn}
Item == [ver : Versions, whole : BOOLEAN]
EngineState == {"none", "hashing", "downloading", "seeding"}

Ops == {"get", "peek", "publish", "update"}
Pcs == {"torrent", "save", "saving", "contains", "start", "wait", "dict", "enlist",
        "ok"}

\* A request: its operation, host and name; hit: the name was registered when it
\* arrived; ver: the torrent it has in hand.
Request == [pc : Pcs, op : Ops, host : Hosts, name : Names, hit : BOOLEAN,
            ver : TorrentBytes]

Idle == [pc |-> "idle"]

Active(r) == req[r] # Idle
IsGet(q) == q.op \in {"get", "peek"}

\* The data of n on h is exactly what torrent <<n, v>> describes.
HasWhole(h, n, v) == data[h][n] = [ver |-> v, whole |-> TRUE]

\* _clientEngine.Contains(torrent)
Contains(h, n, v) == engine[h][n][v] # "none"

\* Torrents/<n>.torrent is open for writing.
FileBusy(h, n) ==
  \E r \in Requests : Active(r) /\ req[r].pc = "saving" /\ req[r].host = h /\ req[r].name = n

At(r, p) == Active(r) /\ req[r].pc = p
Goto(r, p) == req' = [req EXCEPT ![r].pc = p]

\* An exception leaves the handler: the controller maps it to an error response.
Fail(r) == req' = [req EXCEPT ![r] = Idle]

----------------------------------------------------------------------------
(* Initial state: fresh servers with empty directories. *)

Init ==
  /\ phase = [h \in Hosts |-> "up"]
  /\ toSeed = [h \in Hosts |-> {}]
  /\ torrentFile = [h \in Hosts |-> [n \in Names |-> NoTorrent]]
  /\ data = [h \in Hosts |-> [n \in Names |-> Absent]]
  /\ registry = [h \in Hosts |-> {}]
  /\ engine = [h \in Hosts |-> [n \in Names |-> [v \in Versions |-> "none"]]]
  /\ handle = [h \in Hosts |-> [n \in Names |-> [v \in Versions |-> NoRequest]]]
  /\ dict = [n \in Names |-> {}]
  /\ req = [r \in Requests |-> Idle]
  /\ halfAtBoot = {}
  /\ unstarted = {}
  /\ lost = {}

----------------------------------------------------------------------------
(* The arrival and the end of a request *)

\* GetData and PeekData up to the registry check, which is made once.
ArriveGet(r) ==
  /\ ~Active(r)
  /\ \E h \in Hosts, n \in Names, o \in {"get", "peek"} :
       /\ phase[h] = "up"
       /\ req' = [req EXCEPT ![r] =
            [pc |-> "torrent", op |-> o, host |-> h, name |-> n,
             hit |-> n \in registry[h], ver |-> NoTorrent]]
  /\ UNCHANGED <<phase, toSeed, diskVars, registry, processVars, dict, halfAtBoot>>

\* PublishDataInternal up to CreateTorrent, which hashes the data as it is.  The
\* client publishes what it has staged, so there is complete data at the path.
ArrivePublish(r) ==
  /\ ~Active(r)
  /\ \E h \in Hosts, n \in Names, o \in {"publish", "update"} :
       /\ phase[h] = "up"
       /\ data[h][n] \in Item /\ data[h][n].whole
       /\ req' = [req EXCEPT ![r] =
            [pc |-> "save", op |-> o, host |-> h, name |-> n,
             hit |-> FALSE, ver |-> data[h][n].ver]]
  /\ UNCHANGED <<phase, toSeed, diskVars, registry, processVars, dict, halfAtBoot>>

\* The answer has been sent and the slot is free again.
Leave(r) ==
  /\ At(r, "ok")
  /\ req' = [req EXCEPT ![r] = Idle]
  /\ UNCHANGED <<phase, toSeed, diskVars, registry, processVars, dict, halfAtBoot>>

----------------------------------------------------------------------------
(* TorrentHelper.ReadOrDownloadTorrent and WriteTorrent *)

\* Defect: a Get of a registered name does not look at the engine.
AfterTorrentUnchecked(q) ==
  CASE ~IsGet(q)                   -> "dict"
    [] q.op = "get" /\ ~q.hit      -> "start"
    [] IsGet(q) /\ (q.hit \/ q.op = "peek") -> "ok"

\* Where GetData and PublishDataInternal go once they have the torrent.
AfterTorrent(q) ==
  CASE ~IsGet(q)                   -> "dict"
    [] IsGet(q) /\ q.hit           -> "contains"
    [] q.op = "get" /\ ~q.hit      -> "start"
    [] q.op = "peek" /\ ~q.hit     -> "ok"

\* The torrent file exists and is read; a torn one does not load, and one that is
\* being written cannot be opened.
ReadTorrent(r) ==
  LET q == req[r]
      t == torrentFile[q.host][q.name]
  IN /\ At(r, "torrent")
     /\ t # NoTorrent
     /\ \/ /\ t \in Versions /\ ~FileBusy(q.host, q.name)
           /\ req' = [req EXCEPT ![r] = [q EXCEPT !.ver = t, !.pc = AfterTorrent(q)]]
        \/ /\ t = Torn \/ FileBusy(q.host, q.name)
           /\ Fail(r)
     /\ UNCHANGED <<phase, toSeed, diskVars, registry, processVars, dict, halfAtBoot>>

\* What the URLs listed under n lead to: a host that is up serves the bytes of its
\* torrent file, also torn ones, unless the file is open for writing.
TorrentsOffered(n) ==
  {torrentFile[h][n] : h \in {x \in dict[n] : phase[x] = "up" /\ ~FileBusy(x, n)}}
    \ {NoTorrent}

\* The torrent file does not exist: some listed URL answers, or the dictionary has
\* no URL, is unreachable, or every URL fails.
DownloadTorrent(r) ==
  LET q == req[r]
  IN /\ At(r, "torrent")
     /\ torrentFile[q.host][q.name] = NoTorrent
     /\ \/ \E v \in TorrentsOffered(q.name) :
             req' = [req EXCEPT ![r] = [q EXCEPT !.ver = v, !.pc = "save"]]
        \/ Fail(r)
     /\ UNCHANGED <<phase, toSeed, diskVars, registry, processVars, dict, halfAtBoot>>

\* Defect: the old file is deleted before the new one is written.
Deleted == NoTorrent

\* What the disk holds while the file is being written.
Truncated == Torn

\* File.WriteAllBytes opens and truncates the file, unless another thread has it open.
OpenTorrent(r) ==
  LET q == req[r]
  IN /\ At(r, "save")
     /\ \/ /\ ~FileBusy(q.host, q.name)
           /\ torrentFile' = [torrentFile EXCEPT ![q.host][q.name] = Truncated]
           /\ Goto(r, "saving")
        \/ /\ FileBusy(q.host, q.name)
           /\ Fail(r)
           /\ UNCHANGED torrentFile
     /\ UNCHANGED <<phase, toSeed, data, registry, processVars, dict, halfAtBoot>>

\* The file is complete; what was downloaded torn is now a torn file and does not load.
CloseTorrent(r) ==
  LET q == req[r]
  IN /\ At(r, "saving")
     /\ torrentFile' = [torrentFile EXCEPT ![q.host][q.name] = q.ver]
     /\ IF q.ver = Torn THEN Fail(r) ELSE Goto(r, AfterTorrent(q))
     /\ UNCHANGED <<phase, toSeed, data, registry, processVars, dict, halfAtBoot>>

----------------------------------------------------------------------------
(* The dictionary: DictionaryServiceProxy.CreateTorrent and PutTorrent *)

\* Create fails when the key exists; Put adds the URL.  Either may fail, and may
\* have stored the URL before it failed (BrunetDhtService.Create is two calls).
PutUrl(r) ==
  LET q == req[r]
  IN /\ At(r, "dict")
     /\ \/ /\ q.op = "update" \/ dict[q.name] = {}
           /\ dict' = [dict EXCEPT ![q.name] = @ \cup {q.host}]
           /\ Goto(r, "enlist") \/ Fail(r)
        \/ /\ Fail(r)
           /\ UNCHANGED dict
     /\ UNCHANGED <<phase, toSeed, diskVars, registry, processVars, halfAtBoot>>

----------------------------------------------------------------------------
(* The cache registry *)

\* Another thread of the host writes to the registry as well.
RacesToEnlist(r) ==
  \E s \in Requests \ {r} : At(s, "enlist") /\ req[s].host = req[r].host

\* AddPathToRegistry throws on a key that is there; UpdatePathInRegistry does not.  Both
\* throw when the registry file cannot be written, which is after the memory has changed.
\* The Dictionary is not synchronized: of two writes at the same time one may be lost.
Enlist(r) ==
  LET q == req[r]
  IN /\ At(r, "enlist")
     /\ \/ /\ q.op = "update" \/ q.name \notin registry[q.host]
           /\ \/ /\ registry' = [registry EXCEPT ![q.host] = @ \cup {q.name}]
                 /\ lost' = lost \ {<<q.host, q.name>>}
              \/ /\ q.name \notin registry[q.host] /\ RacesToEnlist(r)
                 /\ lost' = lost \cup {<<q.host, q.name>>}
                 /\ UNCHANGED registry
           /\ \/ Goto(r, IF q.op = "get" THEN "ok" ELSE "start") /\ UNCHANGED unstarted
              \/ /\ Fail(r)
                 /\ unstarted' = IF Contains(q.host, q.name, q.ver) THEN unstarted
                                 ELSE unstarted \cup {<<q.host, q.name>>}
        \/ /\ q.op # "update" /\ q.name \in registry[q.host]
           /\ Fail(r)
           /\ UNCHANGED <<registry, unstarted, lost>>
     /\ UNCHANGED <<phase, toSeed, diskVars, engine, handle, dict, halfAtBoot>>

----------------------------------------------------------------------------
(* StartDownload and the torrent's state *)

\* The registered-name branch of GetData: an engine that has the torrent is left alone.
CheckEngine(r) ==
  LET q == req[r]
  IN /\ At(r, "contains")
     /\ Goto(r, IF Contains(q.host, q.name, q.ver) THEN "ok" ELSE "start")
     /\ UNCHANGED <<phase, toSeed, diskVars, registry, processVars, dict, halfAtBoot>>

\* Defect: a torrent that is already there is registered once more.
RegistersTwice(h, n, v) == TRUE

\* _clientEngine.Register accepts a torrent it does not have and throws on others.
Registers(h, n, v) == ~Contains(h, n, v)

\* Only a Get that missed passes a wait handle.
PassesHandle(q) == q.op = "get" /\ ~q.hit

\* Defect: the Get does not wait on the handle.
AfterStartNoWait(q) == IF PassesHandle(q) THEN "enlist" ELSE "ok"

AfterStart(q) == IF PassesHandle(q) THEN "wait" ELSE "ok"

\* Register, attach the handlers and Start; the request then waits or is done.
StartDownload(r) ==
  LET q == req[r]
  IN /\ At(r, "start")
     /\ \/ /\ Registers(q.host, q.name, q.ver)
           /\ engine' = [engine EXCEPT ![q.host][q.name][q.ver] = "hashing"]
           /\ handle' = [handle EXCEPT ![q.host][q.name][q.ver] =
                           IF PassesHandle(q) THEN r ELSE NoRequest]
           /\ unstarted' = unstarted \ {<<q.host, q.name>>}
           /\ Goto(r, AfterStart(q))
        \/ /\ ~Registers(q.host, q.name, q.ver)
           /\ Fail(r)
           /\ UNCHANGED processVars
     /\ UNCHANGED <<phase, toSeed, diskVars, registry, lost, dict, halfAtBoot>>

\* Defect: the engine stops on data that is not complete.
StopsIfIncomplete(h, n, v) == IF HasWhole(h, n, v) THEN "seeding" ELSE "stopped"

\* The state the engine enters after hashing.
AfterHashing(h, n, v) == IF HasWhole(h, n, v) THEN "seeding" ELSE "downloading"

\* The engine has hashed what is on disk: complete data is seeded at once.  The state
\* goes from Hashing to Seeding then, which the handler does not take for a download.
HashingDone(h, n, v) ==
  /\ engine[h][n][v] = "hashing"
  /\ engine' = [engine EXCEPT ![h][n][v] = AfterHashing(h, n, v)]
  /\ UNCHANGED <<phase, toSeed, diskVars, registry, handle, unstarted, lost, dict, req,
                 halfAtBoot>>

\* Some other host seeds <<n, v>> and has the data.
Seeded(h, n, v) ==
  \E s \in Hosts \ {h} : engine[s][n][v] = "seeding" /\ HasWhole(s, n, v)

\* Some pieces arrive and replace what was at the path.
ReceivePieces(h, n, v) ==
  /\ engine[h][n][v] = "downloading"
  /\ Seeded(h, n, v)
  /\ data[h][n] # [ver |-> v, whole |-> FALSE]
  /\ data' = [data EXCEPT ![h][n] = [ver |-> v, whole |-> FALSE]]
  /\ UNCHANGED <<phase, toSeed, torrentFile, registry, processVars, dict, req, halfAtBoot>>

\* Defect: the handler releases nobody.
WokenNone(h, n, v) == {}

\* Whom the handler of <<n, v>> releases at the end of a download.
Woken(h, n, v) == {r \in Requests : handle[h][n][v] = r /\ At(r, "wait")}

\* Defect: the handle is set before DiskManager.Flush has put the last piece on disk.
Unflushed(v) == [ver |-> v, whole |-> FALSE]

\* What is on disk after DiskManager.Flush.
Flushed(v) == [ver |-> v, whole |-> TRUE]

\* The last piece: the TorrentStateChanged handler (Downloading to Seeding) flushes
\* the data to disk and then sets the wait handle.
DownloadDone(h, n, v) ==
  /\ engine[h][n][v] = "downloading"
  /\ Seeded(h, n, v)
  /\ data[h][n] = [ver |-> v, whole |-> FALSE]
  /\ data' = [data EXCEPT ![h][n] = Flushed(v)]
  /\ engine' = [engine EXCEPT ![h][n][v] = "seeding"]
  /\ req' = [r \in Requests |->
               IF r \in Woken(h, n, v) THEN [req[r] EXCEPT !.pc = "enlist"] ELSE req[r]]
  /\ handle' = [handle EXCEPT ![h][n][v] = NoRequest]
  /\ UNCHANGED <<phase, toSeed, torrentFile, registry, unstarted, lost, dict, halfAtBoot>>

----------------------------------------------------------------------------
(* The local user *)

\* A file is put (linked) into Downloads: FilesysManager.CopyToServer.
Stage(h, n, v) ==
  /\ data[h][n] = Absent
  /\ data' = [data EXCEPT ![h][n] = [ver |-> v, whole |-> TRUE]]
  /\ UNCHANGED <<phase, toSeed, torrentFile, registry, processVars, dict, req, halfAtBoot>>

\* A complete file nothing is downloading into is rewritten.
Rewrite(h, n, v) ==
  /\ data[h][n] \in Item /\ data[h][n].whole /\ data[h][n].ver # v
  /\ \A w \in Versions : engine[h][n][w] # "downloading"
  /\ data' = [data EXCEPT ![h][n] = [ver |-> v, whole |-> TRUE]]
  /\ UNCHANGED <<phase, toSeed, torrentFile, registry, processVars, dict, req, halfAtBoot>>

----------------------------------------------------------------------------
(* Crash and restart *)

NoEngine == [n \in Names |-> [v \in Versions |-> "none"]]
NoHandle == [n \in Names |-> [v \in Versions |-> NoRequest]]

\* The process ends: memory and the requests being served are gone.
Stop(h) ==
  /\ phase' = [phase EXCEPT ![h] = "down"]
  /\ toSeed' = [toSeed EXCEPT ![h] = {}]
  /\ registry' = [registry EXCEPT ![h] = {}]
  /\ engine' = [engine EXCEPT ![h] = NoEngine]
  /\ handle' = [handle EXCEPT ![h] = NoHandle]
  /\ unstarted' = {x \in unstarted : x[1] # h}
  /\ lost' = {x \in lost : x[1] # h}
  /\ req' = [r \in Requests |-> IF Active(r) /\ req[r].host = h THEN Idle ELSE req[r]]

Crash(h) ==
  /\ phase[h] # "down"
  /\ Stop(h)
  /\ UNCHANGED <<diskVars, dict, halfAtBoot>>

\* Every path in the Downloads directory.
Downloaded(h) == {n \in Names : data[h][n] # Absent}

\* Defect: the start-up seeds only what has a torrent file.
SeedListWithTorrent(h) ==
  {n \in Downloaded(h) : SeedAtStartup /\ torrentFile[h][n] \in Versions}

\* The entries StartSeedingLocalFiles goes through.
SeedList(h) == {n \in Downloaded(h) : SeedAtStartup}

\* The constructor: the registry file keeps the entries whose path exists and
\* LoadCacheDir adds every path of Downloads that is missing from it, so that what
\* is registered is what is there.
Boot(h) ==
  /\ phase[h] = "down"
  /\ phase' = [phase EXCEPT ![h] = "boot"]
  /\ registry' = [registry EXCEPT ![h] = Downloaded(h)]
  /\ toSeed' = [toSeed EXCEPT ![h] = SeedList(h)]
  /\ halfAtBoot' = {x \in halfAtBoot : x[1] # h} \cup
                   {<<h, n>> : n \in {m \in Downloaded(h) : ~data[h][m].whole}}
  /\ UNCHANGED <<diskVars, processVars, dict, req>>

\* One turn of StartSeedingLocalFiles: GetData of a registered name, which finds the
\* torrent on disk or has it downloaded and saved.
SeedNext(h, n) ==
  /\ phase[h] = "boot"
  /\ n \in toSeed[h]
  /\ \E v \in IF torrentFile[h][n] = NoTorrent THEN TorrentsOffered(n) \ {Torn}
                                              ELSE {torrentFile[h][n]} \ {Torn} :
       /\ torrentFile' = [torrentFile EXCEPT ![h][n] = v]
       /\ engine' = [engine EXCEPT ![h][n][v] = "hashing"]
  /\ toSeed' = [toSeed EXCEPT ![h] = @ \ {n}]
  /\ UNCHANGED <<phase, data, registry, handle, unstarted, lost, dict, req, halfAtBoot>>

\* There is no torrent to be had, or it is torn: GetData throws out of
\* StartSeedingLocalFiles and of Start, and the server does not come up.  Or the process
\* ends while the torrent is being saved.
SeedFails(h, n) ==
  /\ phase[h] = "boot"
  /\ n \in toSeed[h]
  /\ \/ /\ torrentFile[h][n] \in {NoTorrent, Torn}
        /\ UNCHANGED torrentFile
     \/ /\ torrentFile[h][n] = NoTorrent /\ TorrentsOffered(n) # {}
        /\ torrentFile' = [torrentFile EXCEPT ![h][n] = Torn]
  /\ Stop(h)
  /\ UNCHANGED <<data, dict, halfAtBoot>>

\* Start returns and requests are served.
BootDone(h) ==
  /\ phase[h] = "boot"
  /\ toSeed[h] = {}
  /\ phase' = [phase EXCEPT ![h] = "up"]
  /\ UNCHANGED <<toSeed, diskVars, registry, processVars, dict, req, halfAtBoot>>

----------------------------------------------------------------------------
(* Specification *)

\* What the thread of request r does next, once it is started.
Step(r) ==
  \/ ReadTorrent(r) \/ DownloadTorrent(r) \/ OpenTorrent(r) \/ CloseTorrent(r)
  \/ PutUrl(r) \/ Enlist(r) \/ CheckEngine(r) \/ StartDownload(r)

Swarm(h, n, v) == HashingDone(h, n, v) \/ ReceivePieces(h, n, v) \/ DownloadDone(h, n, v)

Next ==
  \/ \E r \in Requests : ArriveGet(r) \/ ArrivePublish(r) \/ Leave(r)
  \/ \E r \in Requests :
       \/ ReadTorrent(r) \/ DownloadTorrent(r) \/ OpenTorrent(r) \/ CloseTorrent(r)
       \/ PutUrl(r) \/ Enlist(r) \/ CheckEngine(r) \/ StartDownload(r)
  \/ \E h \in Hosts, n \in Names, v \in Versions :
       \/ HashingDone(h, n, v) \/ ReceivePieces(h, n, v) \/ DownloadDone(h, n, v)
       \/ Stage(h, n, v) \/ Rewrite(h, n, v)
  \/ \E h \in Hosts : Crash(h) \/ Boot(h) \/ BootDone(h)
  \/ \E h \in Hosts, n \in Names : SeedNext(h, n) \/ SeedFails(h, n)

Spec == Init /\ [][Next]_vars

\* Request threads run on, and the engine goes on while it can: it hashes, and it
\* downloads what some other host seeds.  Nothing obliges a client to call, a user to
\* stage data, a host to crash or an operator to restart it.
Fairness ==
  /\ \A r \in Requests : WF_vars(Step(r)) /\ WF_vars(Leave(r))
  /\ \A h \in Hosts, n \in Names, v \in Versions : WF_vars(Swarm(h, n, v))

FairSpec == Spec /\ Fairness

----------------------------------------------------------------------------
(* Properties *)

\* Every variable keeps its type.
TypeOK ==
  /\ phase \in [Hosts -> {"up", "boot", "down"}]
  /\ toSeed \in [Hosts -> SUBSET Names]
  /\ torrentFile \in [Hosts -> [Names -> TorrentBytes]]
  /\ data \in [Hosts -> [Names -> Item \cup {Absent}]]
  /\ registry \in [Hosts -> SUBSET Names]
  /\ engine \in [Hosts -> [Names -> [Versions -> EngineState]]]
  /\ handle \in [Hosts -> [Names -> [Versions -> Requests \cup {NoRequest}]]]
  /\ dict \in [Names -> SUBSET Hosts]
  /\ req \in [Requests -> Request \cup {Idle}]
  /\ halfAtBoot \subseteq Hosts \X Names
  /\ unstarted \subseteq Hosts \X Names
  /\ lost \subseteq Hosts \X Names

\* A URL that can be looked up leads to a torrent file: PublishDataInternal writes the
\* file before it stores the URL, and no failure, overwrite or crash removes it.
PublishedUrlResolves ==
  \A n \in Names : \A h \in dict[n] : torrentFile[h][n] # NoTorrent

\* A Get blocked in GetData is the one whose wait handle the TorrentStateChanged handler
\* of its torrent has: no concurrent Get, Publish or Update of the same torrent takes
\* the handler away, so that the end of the download can wake it.
WaiterIsHeld ==
  \A r \in Requests : At(r, "wait") =>
    LET q == req[r]
    IN Contains(q.host, q.name, q.ver) /\ handle[q.host][q.name][q.ver] = r

\* Some torrent of n is being downloaded into h's path.
Overwriting(h, n) == \E v \in Versions : engine[h][n][v] = "downloading"

\* GetData takes a registered name for one whose data is there.  It is there and
\* complete, unless the host restarted on the remains of a download (LoadCacheDir
\* registers whatever is in Downloads) or a torrent of other content is writing to it.
RegisteredIsWhole ==
  \A h \in Hosts : \A n \in registry[h] :
    \/ data[h][n] \in Item /\ data[h][n].whole
    \/ <<h, n>> \in halfAtBoot
    \/ Overwriting(h, n)

\* A request answered with success leaves the name registered and the engine at work
\* on the very torrent it is about, and after Publish and Update the URL can be looked
\* up, whatever other requests did to the same name meanwhile.  The entry alone may be
\* missing, when it was lost in a race of two writes to the unsynchronized Dictionary.
AnsweredIsServed ==
  \A r \in Requests : At(r, "ok") /\ req[r].op # "peek" =>
    LET q == req[r]
    IN /\ q.name \in registry[q.host] \/ <<q.host, q.name>> \in lost
       /\ Contains(q.host, q.name, q.ver)
       /\ IsGet(q) \/ q.host \in dict[q.name]

\* With seeding at startup, every registered name of a running host has a torrent in
\* the engine, also after restarts, or a thread or the start-up is about to see to it:
\* StartSeedingLocalFiles leaves none out.  The exception is a publication that could not
\* write the registry file, until somebody gets or updates the name or the server restarts.
RegisteredIsShared ==
  SeedAtStartup =>
    \A h \in Hosts : \A n \in registry[h] :
      \/ \E v \in Versions : Contains(h, n, v)
      \/ n \in toSeed[h]
      \/ \E r \in Requests : At(r, "start") /\ req[r].host = h /\ req[r].name = n
      \/ <<h, n>> \in unstarted

\* "Wait until downloading finishes": a Get registers the name only once its own torrent
\* has brought complete data, unless other content is being downloaded to the same path.
RegisteredOnCompletion ==
  [][\A r \in Requests : At(r, "enlist") /\ req[r].op = "get" =>
       LET q == req[r]
       IN registry'[q.host] = registry[q.host] \cup {q.name} /\ registry' # registry =>
            \/ data[q.host][q.name] \in Item /\ data[q.host][q.name].whole
            \/ \E v \in Versions \ {q.ver} : engine[q.host][q.name][v] = "downloading"]_vars

\* r waits for data that no other host seeds, or that the engine found complete when it
\* hashed it, so that the handler has not been called for a download.
WaitsInVain(r) ==
  /\ At(r, "wait")
  /\ LET q == req[r]
     IN \/ ~Seeded(q.host, q.name, q.ver)
        \/ /\ engine[q.host][q.name][q.ver] = "seeding"
           /\ handle[q.host][q.name][q.ver] = r

\* Every request ends: none is stuck in the torrent file, the dictionary or the
\* registry, and a blocked Get wakes when its download is over.
RequestEnds ==
  \A r \in Requests : Active(r) ~> (~Active(r) \/ WaitsInVain(r))

\* "The torrent of the data could be either already in place or not", and the handle is
\* "to wait on for the downloading to be finished": a Get whose data turns out to be
\* complete returns.
CompleteGetReturns ==
  \A r \in Requests :
    At(r, "wait") /\ engine[req[r].host][req[r].name][req[r].ver] = "seeding" ~> ~At(r, "wait")

\* Only Update may "overwrite the existing key": a Publish never replaces the torrent
\* behind a published URL while the engine shares other content under it.
PublishKeepsPublished ==
  [][\A r \in Requests : At(r, "saving") /\ req[r].op = "publish" =>
       LET q == req[r]
       IN torrentFile'[q.host][q.name] # torrentFile[q.host][q.name] =>
            \/ q.host \notin dict[q.name]
            \/ \A w \in Versions \ {q.ver} : ~Contains(q.host, q.name, w)]_vars

============================================================================
