# A verification of GatorShare / Hurricane

GatorShare shares files and directories under names. Each host runs a web server that
publishes what lies in its Downloads directory as BitTorrent torrents, stores the URL of
the torrent file under the name in a dictionary (a DHT or a web service), and fetches
what others have published; a FUSE file system lets programs read and write those names
as files. Hurricane is a second program on the same code base: it serves the blocks of a
virtual disk out of a chunk database and downloads missing pieces when they are read.

This directory models the parts of the system whose correctness depends on the order of
things, checks them with TLC, and proves every safety property that they
have, with TLAPS; liveness is left to TLC.

## Inventory

`src/src` below is the source directory of the repository. Lines of `*/Scripts`
(jQuery, MS Ajax) are third-party code.

| Component | State | Operations | Talks to | What is hard, and what must hold |
|---|---|---|---|---|
| BitTorrentManager, TorrentHelper, BitTorrentCache, BitTorrentService and its controllers (`gSeries.GatorShare`, `gSeries.Web`) | Downloads and Torrents directories, the engine's torrents and their handlers | Get, Peek, Publish, Update, start-up seeding | dictionary, engine, registry, other hosts over HTTP | web requests race on one name; no lock anywhere; waits without a timeout; crashes between file, dictionary, registry and engine. Registered means present, answered means shared, a published URL resolves, a Get wakes |
| CacheRegistry, SerializableDictionary | the dictionary of registered items and its file | load, prune, scan, add, update | called by BitTorrentManager on every web thread | unsynchronised dictionary, a file rewritten by several threads, crashes half-way. The file keeps up; a start ends with what Downloads holds |
| DictionaryServiceProxy and the dictionary services (BrunetDhtService, CloudDictionary, SimpleStorageDictionary; not compiled: BrunetDht, OpenDht, BigTable) | remote keys and values | Put, Create, Get, retries, fragments | RPC and HTTP services | a Create that never creates, create in two calls, expiry, fragments out of order, retries at their limit |
| DictionaryServiceTracker and listener, TorrentFolderWatcher | the tracker's torrents and peers | announce, add torrent | dictionary, file system | a file seen while it is written, or rewritten when it is loaded already; announces during start. What is whole is tracked, and peers find each other |
| PieceLevelTorrentManager, HttpPieceInfoServer | torrents of single pieces | serve a piece, read a block | BitTorrentManager, peers | two readers of a piece, a server that answers one request at a time |
| DistributedDiskManager, FileService, VirtualDiskDownloadService (`gSeries.DataDistributionService`) | tables of torrents and files; waits for pieces | start a download, read a range, path status | engine, chunk database | an event missed before the subscription, a timeout against a late piece, a set changed on two threads |
| ChunkDbService, ChunkDbHelper, DeduplicationService, ChunkMap, FileUtil, FullProfileChunkMapBuilder (`gSeries.ProvisionSupport`) | files, chunks and maps in SQLite | add file, torrent or chunks; look up | NHibernate | several transactions per operation; arithmetic of the last chunk |
| FuseFilesys, RedirectFSHelper, FilesysContext, file-system event handlers | table of open handles, virtual files | open, create, read, write, release | kernel threads, the web server | handle tables under threads, publication at release that fails half-way |
| RetryUtil, ServerProxy | none | retry a call, fetch | HTTP | what a retry does after success |
| Host programs, controllers of the web templates, configuration, logging, encodings, path and XML helpers | configuration | wiring | | formatting and wiring only: not modelled |

`PROJECT.json` lists every component with its files, and under `hazards` what is hard to
test in each, at its line.

## Modules

| Module | What it is |
|---|---|
| `BitTorrentManager.tla` | The data-sharing core: several hosts, their requests, dictionary, engine, crashes and restarts |
| `MCBitTorrentManager.tla`, `BitTorrent*.cfg` | Its instances for TLC |
| `BitTorrentManager_proofs.tla` | Its invariant and theorems |
| `BitTorrentData_proofs.tla` | What the registry says of the data: a second invariant on top |
| `CacheRegistry.tla` | The registry, its file, its threads and its start |
| `CachedItems.tla` | What the registry's callers take it for |
| `MCCacheRegistry.tla`, `CacheRegistry*.cfg` | Its instances for TLC |
| `CacheRegistry_proofs.tla` | Its invariant and theorems |
| `VirtualDisk.tla` | What reads of a virtual disk promise to their callers |
| `OnDemandRead.tla` | How DistributedDiskManager reads while the engine downloads |
| `MCOnDemandRead.tla`, `OnDemandRead*.cfg` | Its instances for TLC |
| `OnDemandRead_proofs.tla` | Its invariant, theorems and refinement |
| `ChunkMapping.tla` | The arithmetic of chunks: maps, ranges, padding, with C#'s ints |
| `ChunkDb.tla` | The chunk database, a transaction at a time, and the lookups that use the arithmetic |
| `MCChunkDb.tla`, `ChunkDb.cfg` | Their instance for TLC: files, maps and ranges |
| `ChunkDb_proofs.tla` | Lemmas on the arithmetic, the database's invariant and theorems |
| `ChunkRange_proofs.tla` | Answers to ranges, byte for byte: a second invariant on top |
| `OpenFileTable.tla` | What a file system promises to those who open files |
| `FuseHandles.tla` | How the client's FUSE calls, its table of open files and its virtual files keep it |
| `MCFuseHandles.tla`, `FuseHandles.cfg` | Its instance for TLC |
| `FuseHandles_proofs.tla` | Its invariant, theorems and refinement |
| `PieceLevel.tla`, `MCPieceLevel.tla`, `PieceTorrent.cfg` | Reads through torrents of pieces, on top of what `BitTorrentManager` provides |
| `DictionaryTracker.tla`, `MCDictionaryTracker.tla`, `DictionaryTracker.cfg` | How peers find each other through trackers, the dictionary and the folder watcher |
| `DictionaryTracker_proofs.tla` | What is whole is tracked and what is handled is right, for any number of trackers and peers |

### BitTorrentManager

One `"nameSpace|name"` key is an element of `Names`; the content behind it is an element
of `Versions`, and a torrent is the pair of a name and a version, since a torrent's info
hash is determined by the content.

* `torrentFile[h][n]` and `data[h][n]` are the two files of a name on a host's disk. A
  torrent file can be missing, complete or `Torn` (its writing was cut short); data can
  be absent, or some version, whole or not.
* `registry[h]` is the memory of the CacheRegistry, `dict[n]` the hosts whose URL is
  stored, `engine[h][n][v]` and `handle[h][n][v]` the ClientEngine's torrents and which
  request's wait handle the `TorrentStateChanged` closure of each has captured.
* `req[r]` is a web request in progress. Its `pc` is the next access to shared state:
  `torrent` (ReadOrDownloadTorrent: `ReadTorrent`, `DownloadTorrent`), `save` and
  `saving` (WriteAllBytes: `OpenTorrent` truncates, `CloseTorrent` completes), `dict`
  (`PutUrl`), `enlist` (registry: `Enlist`), `contains` (`CheckEngine`), `start`
  (`StartDownload`) and `wait` (the wait handle). Every exception that leaves a handler
  is `Fail`; the controllers turn it into an error response.
* `HashingDone`, `ReceivePieces` and `DownloadDone` are the engine. `DownloadDone` contains
  the program's own handler: it flushes, then sets the handle that was captured.
* `Crash` ends a host's process anywhere. `Boot` is the constructor (registry file and
  scan), `SeedNext`/`SeedFails` one turn of `StartSeedingLocalFiles`, `BootDone` the end
  of `Start`.
* `Stage` and `Rewrite` are the local user. A user does not rewrite data that is being
  downloaded.

Everything that another host, the dictionary or the engine can do is nondeterministic: a
URL in the list may fail or answer, a dictionary call may fail before or after it has
stored the URL, pieces come while somebody seeds.

The registry is a set here. `Boot` begins it with what Downloads holds. `Enlist` adds a name, or
refuses one that is there; then the call may still throw, because the file that is written next
cannot be opened or the enumeration breaks; and where another thread of the host is writing to the
Dictionary at the same time, the name may not arrive at all. That these are the outcomes is what
`CacheRegistry` shows, as an implementation of `CachedItems`: `Start`, `Write`, `Refuse`, `End` and
`Stop` there are `Boot`, `Enlist` and `Stop` here, where `Write` and `End` are one step, since
between the two a thread touches nothing but the file, which no other part reads. Two history
variables keep apart what the properties have to except: `unstarted`, a name whose publication threw
between registering and starting it, and `lost`, a name that did not arrive.

### CacheRegistry

`registry` is the dictionary, `file` the XML file (a set of keys, none, or `Torn`),
`thread[t]` a RegisterPath call in progress. `EndAdd` is the dictionary write, with a lost
update when two overlap; `Open` truncates the file or fails because another thread has it
open; between `StartDump` and `EndDump` the enumeration runs, and any `EndAdd` in that time
makes it throw (`Disturbed`, `CloseBroken`); `Close` puts the text into the file. A crash
leaves what was in the file, truncated or not. `CachedItems` is the same seen from outside, without
the file and its writers and with a start in one step; `Items` maps the one to the other. The constructor is `Load`, `PruneThrows` or
`PruneEnds`, then `ScanAdds` and `ScanEnds`. Only items in Downloads are registered by the
server, so that a key stands for its path; items elsewhere, which the constructor can
take under the server's own name space, are left out.

### OnDemandRead and VirtualDisk

`VirtualDisk` has three variables: whether the file is under download, the pieces this host
has, and the call of each reader. A call is answered with its list or refused; before
it can be refused, it must have noticed that something was missing, or the file is unknown.

`OnDemandRead` is the code. `read[r]` holds the locals of the `ReadReorderedFile` call on
thread r: the read list (as the piece of each item), `readResults`, `failedItems`,
`pieces2Request`, and in `waited` which log line was reached. Its `pc` is the next access
to something shared: `lookup` (the table), `read` (one queued disk read at a time),
`request` (under the picker's lock: ask and subscribe), `wait`, `detach`, `reread`, and the
reply. `wh` is the set of readers whose AutoResetEvent is set; `calls[r]` are the invocations of
the delegate `dl` of r's read, each queued or in the middle of `Remove`. The HashSet is not
safe to share: of two overlapping removals one may be lost from `Count` (`EndRemove`).
`manager` is how far `StartDownloadingFile` has come; a failure in the middle is a state from
which it does not go on. The engine (external) receives pieces in any order, whether
asked for or not, and raises `PieceHashed` for each at any time after it can be read, also
for those that its first hashing finds; failed hashes are raised at any time. Time is left out:
a wait may run out whenever the handle is not set.

A queued disk read is taken to succeed if and only if the piece is there; I/O errors
other than that are left out. One torrent is modelled, since no state is shared between torrents
other than the table, which is concurrent.

The mapping (`CallOf`) takes a read to its caller's view: a read is "excused" once an item of its
first pass has failed.

### ChunkDb and ChunkMapping

`file[p]` is a row of ManagedFile with the chunk map it may have, `place[h]` the DataChunk of a
hash: which path holds such a chunk, at which index. `padded` and `written` are what is on the
disk. `call[t]` is a call in progress; its `pc` is the next transaction: `CreateFile`,
`StoreChunks`, `StoreMap` and then `PadFile` for AddFileWithBasicChunkMap (`LeaveWithoutMap` where
AddFileAllChunks is called alone), `ClipToSize` and `GetChunkIndices` for
MapFileIndicesToChunkIndices, `GetRow` and `GetChunkLocations` for GetDedupFileSourceLocations.
`AddFile`, `AddFileToDownload` and `RegisterFilePart` are one transaction each. SQLite lets one
transaction write at a time, so a transaction is a step. `Fail` is an exception and `Crash`
the end of the process: both keep what was committed. `WritePart` is the engine (external), which
writes a download in parts that do not begin and end with chunks.

`ChunkMapping` is what the calls compute: `MapChunks` with its first and last chunk, `FileSize`,
`PadFileWithZeros`. `ToInt` is the conversion to int wherever the code has an int or a cast to
one; longs do not overflow. `MaxInt` is a constant, so that the width can be small. Contents are
their hashes: two chunks with one hash are taken for the same, as the code does.

The maps of virtual files and downloads are given with them (`Map`), in any order and with the
file's last, short chunk at any place. `FullProfileChunkMapBuilder` picks an order from a
profile; any order is taken. `IsTrueMap` is what the comments of `ChunkMap` say a map is: an order of
the chunks that knows where the last one is. The maps of sources are made by `BasicMap` and proved to
be true (`BasicMapIsTrue`); those of the builder are not (see the weaknesses).

### FuseHandles and OpenFileTable

`OpenFileTable` has one variable, a function from handles in use to the files they denote.

`FuseHandles` is the client. A path has data in the shadow directory (`shadow`), a virtual file
(`virtual`, an XML record, `Torn` while it is written) and perhaps a link in the server's Downloads
(`link`). `fd[h]` is what descriptor h was opened for: open(2) gives the lowest free number, and
numbers are used again. `context[h]` is the FilesysContext's entry, `app[a]` an application with
the FUSE call that it waits for. Open, create and release are cut wherever they
touch something shared; every exception that ends a call early is `Ends`, and what it leaves behind
(a descriptor, an entry, a link) stays. Only the table has a lock in the code. `posts[p]`
counts publications up to `MaxPosts`.

The mapping takes the handles of applications that are using them, with their entries. A
release that fails half-way has ended the use all the same, so that what it leaks is in no
application's way.

### PieceLevel

A thread reads part of an item: it gets the item's torrent, looks for the piece, gets the piece's
torrent (`DownloadPieceTorrent`, or a peer's `AskPeer` and `UpdateData`), stores it under the
piece's name and gets the piece. `torrentFile[h][n]` tells which torrent is stored under which name, which is what
finding 5 is about; getting and publishing are one step each here, their detail is in `BitTorrentManager`.

### DictionaryTracker

Several hosts publish one torrent, each with a tracker of its own, and peers announce themselves to
the tracker their torrent names. An announcement is `Announce`, which ends with what `GetPeers` returns, one
`HandleEntry` for each peer that it returned, `AnnouncePeer` and the tracker's `Answer` (external). `weather` is
what the announcement meets of the dictionary. `file`, `writing`, `found` and `missed` are the
torrent's file and the watcher. Every Publish and Update writes the file, also one that the dictionary then refuses
(`BitTorrentManager.cs:291`), so that `BeginWrite` may begin at any time, over a torrent that is tracked as
well. The watcher is told of a file that is created, and not of one that is written over. `LoadTorrent` is its
handler half a second later, when the file may be whole, torn, or of another content; only then does the tracker
answer for the torrent, and it goes on doing so whatever becomes of the file. `missed` is a history variable: the
hosts whose watcher was not told of what was written, or found it not whole. `Crash` includes the start that
follows, with `ForceScan`.

## Runs

| Run | What it asks | Instance | States | Outcome |
|---|---|---|---|---|
| `sharing` | Do requests, swarm, crashes and restarts keep the core's promises, and does every request end? | 2 hosts, 1 name, 1 version, 2 requests at a time, seeding at startup, `FairSpec` | 300,306 | holds |
| `versions` | Does the registry vouch for complete data when the content under a name changes? | 2 hosts, 1 name, 2 versions, 1 request, symmetric in hosts and versions | 546,151 | holds |
| `complete_get` | Does a Get of data that is already complete return? | 1 host, fair | | violated: it waits for ever |
| `refused_publish` | Does a refused Publish leave what was published alone? | 1 host, 2 versions | | violated: the torrent file is overwritten |
| `registry` | Does the file keep up, does a start end with what Downloads holds, and is the registry what its callers take it for? | 3 keys, 2 threads, `FairSpec` | 137,374 | holds |
| `registry_start` | Does a start cope with stale entries? | 3 keys, 2 threads | | violated: it throws |
| `on_demand` | Do reads during a download implement the virtual disk, and do all end? | 2 readers, 2 pieces, one read list of both in reverse, `FairSpec` | 304,925 | holds |
| `on_demand_late` | Does a wait run out only when pieces are missing? | 1 reader, 2 pieces | | violated: a read of what is on the disk waits too |
| `chunk_store` | Is what the database says of chunks true, and is a range answered with its bytes? | 2 threads, chunks of 2 bytes, `MaxInt` 7; sources of 3 and 10 bytes, a virtual file with its short chunk in the middle, a download with it in front; symmetric in threads | 244,718 | holds |
| `fuse` | Do handles, entries and publications keep apart under several threads and failing releases? | 2 applications, 2 paths (1 online), 2 descriptors, `MaxPosts` 2; symmetric in applications | 1,184,104 | holds |
| `piece_torrent` | Is the torrent stored for a piece that of the piece? | 2 hosts, 2 threads, 2 pieces | | violated: it is that of the item |
| `tracker` | Is what is whole on the disk tracked, and do peers of different trackers find each other? | 2 trackers with a peer each, 1 crash, 1 torrent file rewritten, `FairSpec` | 238,070 | holds |

Why these bounds are enough to be interesting. Three counters would be unbounded and have a bound
in a guard: `MaxPosts` (2, one more than a path may be published), `MaxCrashes` (1 crash, of a tracker or a
peer, in `tracker`; crashes are not counted in the other modules) and `MaxRewrites` (in `tracker`, one torrent file that
is whole is written over, on either host; files that are torn or hold something else are written any number of times). Descriptors are limited as they are in the
system, by `MaxHandle`. All else is bounded by the instances' sets alone. Names share only the
registry's Dictionary and its file: a writer of any name can make a call throw or lose its entry. The first
`Enlist` may do at any time, and for the second the other request on the one name is enough; the rest of the
races are between requests on one name. Two requests make every
pairwise race, on one host and across hosts, and a slot is used again and again, so that
longer histories occur (a Publish, a crash, a restart, a Get). Two hosts give a publisher
and a downloader, each of which can crash. Two versions give an Update that overtakes a
download. Three keys and two threads give the registry file an earlier entry to lose
while two threads write it. Two pieces give a read two events whose removals can overlap, of which one
can be lost or missed, and the reversed list tells an item's index from its piece; two readers share the
picker's list and the engine. A source of 3 bytes has a chunk to be padded, one of 10 is larger than an int of `MaxInt` 7, and two
sources and two reordered files share both hashes, so that a place is contended; the ranges begin and end in
and between chunks, lie across the short chunk, and one is empty. Two descriptors are fewer than two
applications can leak, so that open(2) fails and numbers are used again. Two trackers with a peer each is the
least in which peers need the dictionary. Symmetry is used only in `versions`, `chunk_store` and `fuse`, which
have no liveness property.

What the properties say in words is written above each in the modules. The less obvious ones:

* `RegisteredIsWhole` is the promise behind the `@TODO Check integrity of the data` in
  `GetData`: a registered name is answered without waiting. It holds with two exceptions
  that the property names: the remains of a download that a restart registers
  (`halfAtBoot`), and two torrents of different content that write to one path.
* `RequestEnds` excepts a Get that `WaitsInVain`: nobody seeds its data, or the engine
  already has the data in full. The second is the defect that `complete_get` isolates.
* `RegisteredIsShared` and `AnsweredIsServed` have an exception each, `unstarted` and `lost`, for what the
  registry does to its callers. They are as narrow as the code allows: the first ends when anybody gets or
  updates the name, the second when anybody registers it, and both with the process. Neither
  excuses a name whose calls succeeded one after the other.
* `LocatedIsStored` has the exception that the code has: a source's chunks are published before
  it is padded, so that its last chunk can be short on the disk. A crash in between, or
  AddFileAllChunks alone, leaves it short for ever.
* `MappedIsRange` speaks of true maps, and of files whose size, and whose chunks' offsets, are within an
  int: `ToInt` goes wrong beyond, which TLC shows for the larger source. The offsets have to be named, since the
  size of a virtual file is itself computed with ints, and may come out small of a map that is large. `LocatedIsRange`
  has the same limit for the chunks of the range alone, and leaves out what the code leaves out: of a
  short chunk that comes to lie inside a range, the padding (`ChunkDbService.cs:376`); at the edges of
  a range it is counted.
* `PublishedOnce` holds because `CopyToServer` throws on a link that is there. The price is that
  a failed publication cannot be repeated.
* `WholeIsTracked` has the exception that the code has, by the name of `missed`: a torrent whose writing takes longer
  than the watcher waits, or that is written over a file that is there (the watcher handles Created only), is not
  tracked until the next start. It says that nothing else goes untracked, over crashes and rewrites. `PeersMeet`
  speaks of trackers that have loaded the torrent or are about to, and lets go of those whose load then fails.
  `PeersAreListed` holds even then.
* `MappedSourceIsLocatable` says of the size that a source's map tells when it is right and when it is wrong; in the run
  it is right for the source of 3 bytes, and wrong for the one of 10.
* `FileKeepsUp` compares the file with the memory, and says nothing of an entry that the memory itself lost in a race.
  What may be lost is in `EndAdd`, and in the abstract `CachedItems`: only a write that overlaps another one.
* `StartsInTheEnd` shows that the defect of `registry_start` heals itself: every failed start
  has removed one stale entry from the file.

### Fairness

`BitTorrentManager`: weak fairness of each request's thread (an ASP.NET worker runs on,
and dictionary and HTTP calls end, with an answer or an exception) and of the engine on
each torrent (MonoTorrent's main loop hashes and downloads as long as somebody seeds).
Nothing is assumed of clients, users, crashes or operators. `CacheRegistry`: weak fairness
of the start-up code only, which includes that a server that is down is started again; the
property that needs it, `StartsInTheEnd`, speaks of runs that from some time on do not crash.
`OnDemandRead`: weak fairness of each reader's thread, which includes that 40 seconds pass. Nothing is assumed of the
engine or of the thread pool: pieces may never come, and events may never be handled.
`DictionaryTracker`: weak fairness of the watcher's handler and of the listener's thread, and strong
fairness of announcements that meet a dictionary in order (`Announce(p, "fine")`): a BitTorrent client
announces itself at intervals as long as it runs, the tracker's listener is free again after each
announcement, and the dictionary is not out of reach every time. Nothing is assumed of the writing of torrent
files, or of crashes and failed calls of the dictionary in between. `ChunkDb`, `FuseHandles` and `PieceLevel` state no liveness.

## Disagreements between the code and what it says

1. **A Get of data that is already there hangs.** If the item is complete in Downloads but
   not registered (a user staged it after the start, or another content's download was
   replaced by it), GetData registers the torrent, the engine hashes it and goes from
   Hashing to Seeding; the handler sets the wait handle only when the previous state is
   Downloading (`BitTorrentManager.cs:358`), and line 220 waits without a timeout. The
   remark at line 320 promises a handle "to wait on for the downloading to be finished". (`complete_get`)
2. **A refused Publish overwrites the published torrent file.** `PublishDataInternal` writes
   the file (l. 291) before `Create` may refuse the key (l. 298). The URL stored by the
   first publication then leads to the torrent of the new content, which this host does
   not seed. `BitTorrentService.cs:93` reserves overwriting for Update. (`refused_publish`)
3. **A stale registry entry stops the server's start.** `LoadRegistryFile` removes an entry
   from the dictionary it enumerates (`CacheRegistry.cs:92-95`). (`registry_start`)
4. **A read of what is on the disk waits 40 seconds.** `wh.WaitOne(40000)`
   (`DistributedDiskManager.cs:84`) is reached also when nothing was requested; the
   delegate that sets the handle is attached only when something was. The read then takes
   the branch that logs "Pieces cannot be downloaded in time." (line 87). The same happens when
   the pieces come between the first Read and the subscription, about which a TODO asks
   (lines 54-55). The answer is right all the same: `on_demand` shows that the second Read makes up for it. (`on_demand_late`)

5. **A read of a piece downloads the whole item.** `DownloadPieceTorrent` passes the item's name on
   to `TryReadOrDownloadTorrent` instead of the piece's (`PieceLevelTorrentManager.cs:148`). The item's torrent has
   just been read, so the call succeeds, no peer is asked, and the torrent of the item is stored under
   the piece's name. Line 135 promises "the torrent of the piece". (`piece_torrent`)

Weaknesses met while modelling that no text of the repository denies, and that the models have as they are:

* A publication that cannot write the registry file (another thread has it open, `CacheRegistry.cs:233`) throws
  when its URL and its name are known already and nothing shares its data (`BitTorrentManager.cs:298-311`). It cannot be
  repeated, since the key exists; an Update or a Get on this host mends it.
* An entry of the registry that is lost in a race leaves an item that the engine has and the registry has not: Gets
  of it throw in `Register` until an Update or a restart.
* A source that could not be added completely can never be added again: its row is there
  (`ChunkDbHelper.cs:141`), without a map. The chunk published before the padding stays short.
* Sizes and offsets of 2 GB and more do not survive the casts to int (`ChunkMap.cs:196`, `DeduplicationService.cs:123-132`).
  A read at the very end of a file that ends with a chunk throws, since its range has no chunk.
* Closing a file that was downloaded and only read throws, because its data is not in the shadow
  directory, and leaks its descriptor (`RedirectFSHelper.cs:232`); so does any exception in the release
  event (`FuseFilesys.cs:106`), which also leaves the entry.
* A map made from a profile takes its first chunk for the end of the file, of 0 bytes: `BuildChunkMapDto` sets neither
  `EofChunkIndex` nor `EofChunkSize` (`FullProfileChunkMapBuilder.cs:121`), and nothing sets them later. A range with
  that chunk inside is answered without its bytes. The short last chunk is not counted either (line 71). No
  other code of the repository calls the builder. `MappedIsRange` therefore asks for a true map.
* A publication that fails once can never be repeated: its link stays (`FilesysManager.cs:89`).
* An Update does not reach the tracker: the watcher handles Created only (`TorrentFolderWatcher.cs`), and the torrent
  file is there already. The new torrent is tracked after the next start, as is one that took longer than half a
  second to write (`TorrentFolderWatcherHelper.cs:30`).
* `SimpleStorageDictionary.Create` never creates: it looks the key up first, and `Get` throws for a key that is not
  there (`SimpleStorageDictionary.cs:87`).
* A peek at the server that takes long may overwrite the virtual file of a path that was created
  here meanwhile.

## Proofs

TLAPS proves the following for any values of the constants, under the modules' assumptions
alone. `ConstantsAssumption` and `FileAssumption` say that the model values that stand for "none" and "torn"
differ from real values, and that `SeedAtStartup` is a Boolean; the others are named below.

* `BitTorrentManager_proofs`: `TypeCorrect`, `PublishedUrlsResolve`, `WaitersAreHeld`,
  `AnsweredAreServed`, `RegisteredAreShared`.

  The first needs nothing else. The next three share one inductive invariant, `Inv`. What
  has to be said is what each request has *already* achieved at the place where it stands
  (`Good`): before `dict` its torrent file exists, because `PublishedUrlResolves` would
  otherwise break at the step that stores the URL; after `dict` its URL is stored; after
  `enlist` the name is registered, or its entry was lost (`Listed`); at `wait` the engine has its torrent with its handle;
  after waiting, the engine still has it. Each of these is stable under the steps of all
  others because they only add: files, URLs, registrations and torrents are never removed
  except by a crash of the host, which also ends the host's requests. `StaysGood` is the
  lemma that says so, and each action then has only its own request to care for.
  `RegisteredAreShared` has an invariant of its own on top, because it relates the
  registry to the start-up's worklist.
* `BitTorrentData_proofs`: `RegisteredAreWhole`, `RegisteredOnCompletion` as `GetsRegisterWhatIsComplete`.

  `RegisteredIsWhole` is no invariant of its own: that a Get registers complete data depends on
  what happens to the path while it waits. `DataInv` says instead where incomplete data comes from
  (`PartsAreExplained`: a torrent brings it, or the host found it at its start, or is down), that what
  is registered is present, and of a Get about to register that *its* torrent is seeded and its data is
  there and complete unless *another* torrent writes to the path (`HasData`). For that, the one whom a handler wakes must be
  waiting for this very torrent (`HoldersWait`), and the start-up must not put a torrent back to
  hashing (`SeedsAreFresh`).
* `CacheRegistry_proofs`: `TypeCorrect`, `FileKeepsUpHolds`, `ComesUpHolds`, and
  `RegistryImplementsCachedItems`, the refinement.

  `FileKeepsUp` is about rest, and is not inductive: in the middle the file is torn. `Inv`
  says that one thread at most has the file open (`OneWriter`), and that, unless a call has
  failed, somebody is about to write the whole registry or the file is closed and has it
  (`UpInSync`). The case that makes it work is `EndAdd`: it makes every other thread's text
  stale, but leaves a writer of its own. `StartInSync` carries `ComesUpWithDownloads`, and the refinement:
  a start is one step of `CachedItems` because no thread runs before its end (`StartRefines`), and a thread
  that another one disturbs has written already, so that `AddRefines` changes one call only.
* `OnDemandRead_proofs`, from `PiecesAssumption` (the null result is not a piece; read lists are
  sequences of pieces): `TypeCorrect`, `WokenReadsAreAnswered`, `WaitedForIsDemanded`, and
  `ReadsImplementVirtualDisk`, the refinement.

  `Inv` says of each read (`Sound`) that every item has its bytes or is still accounted
  for, as to do or as failed, and that while it waits a failed item's piece is on the disk or
  still in `pieces2Request`; and of the delegates (`Woken`) that a passed hash is that of
  a piece on the disk, so that an empty `pieces2Request` means that nothing is missing,
  however many removals were lost on the way. `Sound` takes the disk and the picker's list as
  parameters, so that one lemma (`StaysSound`) covers whatever the engine and other readers do.

* `ChunkDb_proofs`, from `ChunkingAssumption` (a chunk has a byte at least and at most `MaxInt`) and
  `FilesAssumption` (three kinds of files, maps that are chunk maps, `None` is no path, no place and no row):
  `TypeCorrect`, `PlacesAreTrue` for `LocatedIsStored`, `MappedSourcesCanBeRead` for
  `MappedSourceIsLocatable`.

  Half of it is arithmetic: that padding fills the last chunk (`PaddingFills`), and that the size that a basic
  map tells is that of the file just when that is an int (`BasicMapSize`): within, nothing
  overflows, and beyond, no int can be it; that a chunk that `RegisterFilePart` takes lies in the range as a
  whole (`WholeInRange`). The invariant says what each call has achieved by its `pc` (a call at "map" has all
  its chunks stored), that places are only added, and that a row with a map has its
  chunks placed.
* `ChunkRange_proofs`, from the same assumptions: `MappedRangesAreTrue` for `MappedIsRange`,
  `LocatedRangesAreTrue` for `LocatedIsRange`.

  The invariant on top of `Inv` (`Answers`) says of each call what its request and its answer were made from,
  *as the tables are now*: that the row still has the size that the range was clipped to, and the places are still those that
  the parts name. It is stable because rows keep their sizes and places stay where they are (`RowsKept`,
  `PlacesKept`, `AnsweredKept`), whatever other threads commit between the transactions of a call.

  The rest is about sequences. The bytes of an answer are those of its parts one behind the other (`FlattenSeq`), for any
  number of parts. `FlattenIs` says that such a concatenation is a given sequence if the parts are what that
  sequence has from cut to cut; it is proved by induction over the parts, for which a set of natural
  numbers that has 0 and every successor is all of them (`NatSets`, from the well-foundedness of `<`: no rule that takes an
  operator is needed). `RangeOfParts` gives the cuts of a range: chunk c of it begins at c * `ChunkSize`, or
  less by the padding if the short chunk came before, and the first and last are cut as the range is. Of the lookups,
  `MappedRange` needs that a true map's `ChunkIndices` is the inverse of its `FileIndices` (`ChunkIndexIs`), so that the
  short chunk is only ever the last of a range; and the places need `Places` of `Inv`, that what lies there has the hash.
* `FuseHandles_proofs`, from `HandlesAssumption`: `TypeCorrect`, `EntriesAreOpen`, `HandlesLeadToFiles`,
  `NothingPublishedTwice` and `HandlesImplementOpenFiles`, the refinement.

  The invariant adds that two calls never have one descriptor (`Apart`), which holds although descriptors
  leak, because a leaked number is not free; and that a path that a call is about to post has its link, has not been
  posted, and is in the hands of that call alone. A path without a link has never been posted.

* `DictionaryTracker_proofs`, from `TrackersAssumption`: `TypeCorrect`, and `WholeFilesAreTracked` for `WholeIsTracked`.

  `WholeIsTracked` is not inductive, because a file becomes whole long after the watcher was told of it. `Disk`
  says it of a file from its first byte on: a host whose file is torn or the torrent tracks it, has it to load, or has
  missed it; and what was missed stays out of the other two. Of the announcements, entries in hand stay in the
  dictionary because it only grows.

The properties themselves say what they say; TLC shows that the states they speak of occur
(each has a variant of one definition, marked "Defect" in the modules, that violates it).

Only model-checked: the liveness properties `RequestEnds`, `StartsInTheEnd`, `ReadEnds`,
`PeersAreListed` and `PeersMeet` (the prover does not handle fairness and ENABLED). Violations are found by
TLC alone.

## Plan

Done: the data-sharing core, the registry, on-demand reads, the chunk database with its arithmetic, the
handles of the client's file system, piece torrents, the tracker with its watcher. To come:

1. `Dictionary`: create-once as an abstract specification, with BrunetDhtService's two calls and expiry against it.
2. `Retry`: `RetryUtil` around a call that may fail after it has taken effect.

## Not modelled

The program is C#. The JavaScript in the repository, `*/Scripts` of the two web projects, is third-party code (jQuery,
jQuery validation, Microsoft Ajax, in plain, debug and documentation form) that comes with the ASP.NET project template; no page of
the program has a script of its own. It is left out, so that a coverage that counts JavaScript finds none of it;
the lines that `PROJECT.json` maps are all of the C# code.

Left out of the program:

* Formatting and encoding, HTTP status codes, configuration and logging, the web templates.
* Code that is not compiled: `OpenDht`, `BigTableDictionary`, `LocalHT`, and `BrunetDht` with its fragments.
* The inside of MonoTorrent, which is modelled from how the code uses it: hashing, downloading from a
  seeder, seeding, the two checks `Contains` and `Register`, its tracker and its announcements. `fastresume.data` is
  read and never written, so that every torrent starts with hashing. Announcements that a peer has
  stopped are left out: no code of the program stops a torrent. One that it has completed is an announcement like any other.
* Expiry of keys in the dictionary, and SimpleStorageDictionary, which cannot create a key.
* Of the chunk database: AddTorrent, AddChunk, AddChunks other than through RegisterFilePart, and the methods
  that count references (MakePersistent, GetChunkEntry), whose transactions are never committed. `FullProfileChunkMapBuilder`
  and what tells it the profiles.
* Of the client's file system: directories, rename, truncate and links, which pass to the shadow directory
  and keep nothing in the program, and the bytes of reads and writes.
* Several torrents at once in `OnDemandRead` and `DictionaryTracker`: they share a table that is safe.
* `RetryUtil`, the HTTP client and path helpers: sequential and without state.
