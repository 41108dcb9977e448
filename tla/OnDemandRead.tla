---------------------------- MODULE OnDemandRead ----------------------------
(***************************************************************************)
(* Reads of a file that the engine is downloading.  A read takes what can  *)
(* be read from the disk, asks the engine for the pieces of the rest, waits*)
(* for the engine's PieceHashed events (40 seconds at most), and reads the *)
(* rest again.  Readers are web-service threads; events are delivered on   *)
(* threads of the pool, which share a HashSet with the reader and with one *)
(* another without a lock.                                                 *)
(***************************************************************************)
EXTENDS Naturals, Sequences

CONSTANTS
  Readers,    \* threads that call ReadReorderedFile
  Pieces,     \* the pieces of the file; a piece stands for its bytes as well
  ReadLists,  \* read lists: the piece in which each (offset, count) lies
  NoBytes     \* an element of readResults that is null

ASSUME PiecesAssumption ==
  /\ NoBytes \notin Pieces
  /\ ReadLists \subseteq Seq(Pieces)

VARIABLES
  manager,    \* how far StartDownloadingFile has come with the torrent manager
  readable,   \* pieces that a queued read can read
  unhashed,   \* readable pieces whose PieceHashed event is still to be raised
  onDemand,   \* pieces the picker was asked for that have not come
  read,       \* read[r]: the call of ReadReorderedFile on thread r, with its locals
  wh,         \* readers whose AutoResetEvent is set
  calls       \* calls[r]: invocations of the delegate dl of r's read

vars == <<manager, readable, unhashed, onDemand, read, wh, calls>>

----------------------------------------------------------------------------
Pcs == {"idle", "lookup", "read", "request", "wait", "detach", "reread",
        "answered", "refused"}

\* todo: what the current Read has not queued yet; failedItems, newFailed: what the
\* first and the second Read return; waited: which of the two log lines was reached.
NoRead ==
  [pc |-> "idle", list |-> <<>>, todo |-> {}, failedItems |-> {}, newFailed |-> {},
   readResults |-> <<>>, pieces2Request |-> {}, waited |-> "no"]

EventCall == [piece : Pieces, hash : {"passed", "failed"}, at : {"queued", "removing"}]

At(r, p) == read[r].pc = p
Listed == manager \in {"listed", "started"}

\* Defect: an item's index taken for a piece's.
IndicesOf(r, S) == S

PiecesOf(r, S) == {read[r].list[i] : i \in S}

\* tm.PieceHashed holds the delegate of r's read.
Subscribed(r) == read[r].pc \in {"wait", "detach"} /\ read[r].failedItems # {}

\* RaiseAsyncEvent hands one invocation per subscriber to the thread pool.
Raise(p, h) ==
  calls' = [r \in Readers |->
              IF Subscribed(r)
              THEN calls[r] \cup {[piece |-> p, hash |-> h, at |-> "queued"]}
              ELSE calls[r]]

Init ==
  /\ manager = "none"
  /\ readable \in SUBSET Pieces
  /\ unhashed = {}
  /\ onDemand = {}
  /\ read = [r \in Readers |-> NoRead]
  /\ wh = {}
  /\ calls = [r \in Readers |-> {}]

----------------------------------------------------------------------------
(* StartDownloadingFile.  A second call for the torrent throws in Register. *)

RegisterManager ==
  /\ manager = "none"
  /\ manager' = "registered"
  /\ UNCHANGED <<readable, unhashed, onDemand, read, wh, calls>>

EnterInTable ==
  /\ manager = "registered"
  /\ manager' = "listed"
  /\ UNCHANGED <<readable, unhashed, onDemand, read, wh, calls>>

\* The engine begins by hashing what is there.
StartManager ==
  /\ manager = "listed"
  /\ manager' = "started"
  /\ unhashed' = readable
  /\ UNCHANGED <<readable, onDemand, read, wh, calls>>

----------------------------------------------------------------------------
(* The engine *)

\* A piece has come, asked for or not, and can be read.
ReceivePiece(p) ==
  /\ manager = "started"
  /\ p \notin readable
  /\ readable' = readable \cup {p}
  /\ unhashed' = unhashed \cup {p}
  /\ onDemand' = onDemand \ {p}
  /\ UNCHANGED <<manager, read, wh, calls>>

HashPasses(p) ==
  /\ p \in unhashed
  /\ unhashed' = unhashed \ {p}
  /\ Raise(p, "passed")
  /\ UNCHANGED <<manager, readable, onDemand, read, wh>>

HashFails(p) ==
  /\ manager = "started"
  /\ p \notin readable
  /\ Raise(p, "failed")
  /\ UNCHANGED <<manager, readable, unhashed, onDemand, read, wh>>

----------------------------------------------------------------------------
(* The delegate dl, on threads of the pool *)

\* if (pieces2Request.Count == 0) wh.Set()
TestAndSet(r, left) == wh' = IF left = {} THEN wh \cup {r} ELSE wh

BeginRemove(r) ==
  /\ \E c \in calls[r] :
       /\ c.at = "queued" /\ c.hash = "passed"
       /\ calls' = [calls EXCEPT ![r] = (@ \ {c}) \cup {[c EXCEPT !.at = "removing"]}]
  /\ UNCHANGED <<manager, readable, unhashed, onDemand, read, wh>>

\* Remove is not atomic: of two that overlap, one may be lost from the Count.
EndRemove(r) ==
  /\ \E c \in calls[r] :
       /\ c.at = "removing"
       /\ calls' = [calls EXCEPT ![r] = @ \ {c}]
       /\ \E left \in {read[r].pieces2Request \ {c.piece}} \cup
                      (IF \E d \in calls[r] \ {c} : d.at = "removing"
                       THEN {read[r].pieces2Request} ELSE {}) :
            /\ read' = [read EXCEPT ![r].pieces2Request = left]
            /\ TestAndSet(r, left)
  /\ UNCHANGED <<manager, readable, unhashed, onDemand>>

\* Defect: HashPassed is not looked at.
HandleFailedAsPassed(r) ==
  /\ \E c \in calls[r] :
       /\ c.at = "queued" /\ c.hash = "failed"
       /\ calls' = [calls EXCEPT ![r] = @ \ {c}]
       /\ read' = [read EXCEPT ![r].pieces2Request = @ \ {c.piece}]
       /\ TestAndSet(r, read[r].pieces2Request \ {c.piece})
  /\ UNCHANGED <<manager, readable, unhashed, onDemand>>

HandleFailed(r) ==
  /\ \E c \in calls[r] :
       /\ c.at = "queued" /\ c.hash = "failed"
       /\ calls' = [calls EXCEPT ![r] = @ \ {c}]
  /\ TestAndSet(r, read[r].pieces2Request)
  /\ UNCHANGED <<manager, readable, unhashed, onDemand, read>>

----------------------------------------------------------------------------
(* ReadReorderedFile *)

Ask(r) ==
  /\ At(r, "idle")
  /\ \E l \in ReadLists :
       read' = [read EXCEPT ![r] = [NoRead EXCEPT !.pc = "lookup", !.list = l]]
  /\ UNCHANGED <<manager, readable, unhashed, onDemand, wh, calls>>

\* KeyNotFoundException becomes InvalidOperationException.
LookupFails(r) ==
  /\ At(r, "lookup")
  /\ ~ Listed
  /\ read' = [read EXCEPT ![r].pc = "refused"]
  /\ UNCHANGED <<manager, readable, unhashed, onDemand, wh, calls>>

\* The results are new objects.
Lookup(r) ==
  /\ At(r, "lookup")
  /\ Listed
  /\ LET items == DOMAIN read[r].list IN
     read' = [read EXCEPT ![r] = [@ EXCEPT
                !.pc = "read", !.todo = items, !.readResults = [i \in items |-> NoBytes]]]
  /\ UNCHANGED <<manager, readable, unhashed, onDemand, wh, calls>>

\* Read queues one item at a time, in order, and waits for its callback.
Queued(r, i) ==
  /\ read[r].pc \in {"read", "reread"}
  /\ i \in read[r].todo
  /\ \A j \in read[r].todo : i <= j

ReadSucceeds(r) ==
  /\ \E i \in DOMAIN read[r].list :
       /\ Queued(r, i)
       /\ read[r].list[i] \in readable
       /\ read' = [read EXCEPT ![r] = [read[r] EXCEPT
                     !.todo = @ \ {i},
                     !.readResults = [@ EXCEPT ![i] = read[r].list[i]]]]
  /\ UNCHANGED <<manager, readable, unhashed, onDemand, wh, calls>>

ReadFails(r) ==
  /\ \E i \in DOMAIN read[r].list :
       /\ Queued(r, i)
       /\ read[r].list[i] \notin readable
       /\ read' = [read EXCEPT ![r] =
                     IF At(r, "read")
                     THEN [read[r] EXCEPT !.todo = @ \ {i}, !.failedItems = @ \cup {i}]
                     ELSE [read[r] EXCEPT !.todo = @ \ {i}, !.newFailed = @ \cup {i}]]
  /\ UNCHANGED <<manager, readable, unhashed, onDemand, wh, calls>>

FirstReadEnds(r) ==
  /\ At(r, "read")
  /\ read[r].todo = {}
  /\ read' = [read EXCEPT ![r].pc = "request"]
  /\ UNCHANGED <<manager, readable, unhashed, onDemand, wh, calls>>

\* Defect: only the last of the failed items is asked for.
RequestLast(r) ==
  /\ At(r, "request")
  /\ LET failed == read[r].failedItems IN
     /\ read' = [read EXCEPT ![r] = [@ EXCEPT !.pc = "wait", !.pieces2Request = PiecesOf(r, failed)]]
     /\ onDemand' = onDemand \cup PiecesOf(r, {i \in failed : \A j \in failed : j <= i})
  /\ UNCHANGED <<manager, readable, unhashed, wh, calls>>

\* Under the picker's lock: ask for the pieces of the failed items and subscribe.
Request(r) ==
  /\ At(r, "request")
  /\ LET pieces == PiecesOf(r, read[r].failedItems) IN
     /\ read' = [read EXCEPT ![r] = [@ EXCEPT !.pc = "wait", !.pieces2Request = pieces]]
     /\ onDemand' = onDemand \cup pieces
  /\ UNCHANGED <<manager, readable, unhashed, wh, calls>>

\* WaitOne consumes the signal.
Wakes(r) ==
  /\ At(r, "wait")
  /\ r \in wh
  /\ wh' = wh \ {r}
  /\ read' = [read EXCEPT ![r] = [@ EXCEPT !.pc = "detach", !.waited = "in time"]]
  /\ UNCHANGED <<manager, readable, unhashed, onDemand, calls>>

\* Defect: a wait that has run out begins again.
WaitsAgain(r) == At(r, "wait") /\ r \notin wh /\ UNCHANGED vars

TimesOut(r) ==
  /\ At(r, "wait")
  /\ r \notin wh
  /\ read' = [read EXCEPT ![r] = [@ EXCEPT !.pc = "detach", !.waited = "late"]]
  /\ UNCHANGED <<manager, readable, unhashed, onDemand, wh, calls>>

\* PieceHashed -= dl, and the second Read begins. Nobody looks at pieces2Request and wh
\* again, so that the invocations still under way are forgotten with them.
Detach(r) ==
  /\ At(r, "detach")
  /\ read' = [read EXCEPT ![r] = [@ EXCEPT
                !.pc = "reread", !.todo = read[r].failedItems, !.pieces2Request = {}]]
  /\ wh' = wh \ {r}
  /\ calls' = [calls EXCEPT ![r] = {}]
  /\ UNCHANGED <<manager, readable, unhashed, onDemand>>

\* Defect: what the second Read missed is not looked at.
ReplyAnyway(r) ==
  /\ At(r, "reread")
  /\ read[r].todo = {}
  /\ read' = [read EXCEPT ![r].pc = "answered"]
  /\ UNCHANGED <<manager, readable, unhashed, onDemand, wh, calls>>

Reply(r) ==
  /\ At(r, "reread")
  /\ read[r].todo = {}
  /\ read' = [read EXCEPT ![r].pc = IF read[r].newFailed = {} THEN "answered" ELSE "refused"]
  /\ UNCHANGED <<manager, readable, unhashed, onDemand, wh, calls>>

TakeReply(r) ==
  /\ read[r].pc \in {"answered", "refused"}
  /\ read' = [read EXCEPT ![r] = NoRead]
  /\ UNCHANGED <<manager, readable, unhashed, onDemand, wh, calls>>

----------------------------------------------------------------------------
Engine(p) == ReceivePiece(p) \/ HashPasses(p) \/ HashFails(p)
Event(r) == BeginRemove(r) \/ EndRemove(r) \/ HandleFailed(r)
Thread(r) ==
  \/ LookupFails(r) \/ Lookup(r) \/ ReadSucceeds(r) \/ ReadFails(r) \/ FirstReadEnds(r)
  \/ Request(r) \/ Wakes(r) \/ TimesOut(r) \/ Detach(r) \/ Reply(r)

Next ==
  \/ RegisterManager \/ EnterInTable \/ StartManager
  \/ \E p \in Pieces : Engine(p)
  \/ \E r \in Readers : Ask(r) \/ Thread(r) \/ Event(r) \/ TakeReply(r)

Spec == Init /\ [][Next]_vars

\* A thread that is not blocked runs on, and a wait ends after 40 seconds.
FairSpec == Spec /\ \A r \in Readers : WF_vars(Thread(r))

----------------------------------------------------------------------------
(* Properties *)

\* The state has the shape the code gives it.
Read ==
  [pc : Pcs, list : ReadLists \cup {<<>>}, todo : SUBSET Nat, failedItems : SUBSET Nat,
   newFailed : SUBSET Nat, readResults : Seq(Pieces \cup {NoBytes}),
   pieces2Request : SUBSET Pieces, waited : {"no", "in time", "late"}]

TypeOK ==
  /\ manager \in {"none", "registered", "listed", "started"}
  /\ readable \subseteq Pieces
  /\ unhashed \subseteq readable
  /\ onDemand \subseteq Pieces
  /\ read \in [Readers -> Read]
  /\ wh \subseteq Readers
  /\ calls \in [Readers -> SUBSET EventCall]

\* A read that was told that its pieces have been downloaded is not refused for want of
\* them, whatever became of the events of other pieces, of failed hashes, and of removals
\* that ran into each other.
InTimeIsAnswered ==
  \A r \in Readers : read[r].waited = "in time" => ~ At(r, "refused")

\* Nobody waits for a piece that has not come and that nobody has asked the picker for,
\* though pieces are taken off the picker's list on behalf of every reader at once.
MissingIsDemanded ==
  \A r \in Readers : At(r, "wait") =>
    PiecesOf(r, read[r].failedItems) \subseteq readable \cup onDemand

\* Every read is answered or refused in the end, even when the event it waits for was
\* raised before it subscribed, or was lost from the Count.
ReadEnds ==
  \A r \in Readers : At(r, "lookup") ~> (At(r, "answered") \/ At(r, "refused"))

\* What the reads are to their callers.
StateOf(r) ==
  CASE At(r, "idle") -> "none"
    [] At(r, "answered") -> "answered"
    [] At(r, "refused") -> "refused"
    [] OTHER -> IF read[r].failedItems = {} THEN "asked" ELSE "excused"

CallOf(r) ==
  [state |-> StateOf(r),
   list  |-> read[r].list,
   data  |-> IF At(r, "answered") THEN read[r].readResults ELSE <<>>]

Disk == INSTANCE VirtualDisk WITH
  listed <- Listed,
  call <- [r \in Readers |-> CallOf(r)]

\* Reads implement VirtualDisk: an answer has all the bytes, each in its place, and a
\* read is refused only if the file is not under download or its first Read has missed
\* something; a read of what is on the disk is always answered.
ImplementsVirtualDisk == Disk!Spec

\* What the log says of a wait that ran out: "Pieces cannot be downloaded in time."
LateMeansMissing ==
  [][\A r \in Readers : TimesOut(r) => ~ (PiecesOf(r, read[r].failedItems) \subseteq readable)]_vars
=============================================================================
