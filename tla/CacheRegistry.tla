--------------------------- MODULE CacheRegistry ---------------------------
(***************************************************************************)
(* The registry of cached items: a dictionary in memory that web-request   *)
(* threads change without a lock, and a file that every change rewrites    *)
(* through the enumeration of the dictionary.  A start of the server reads *)
(* the file, prunes what is gone and adds what Downloads holds.  The       *)
(* process may crash anywhere, also half-way through writing the file.     *)
(*                                                                         *)
(* Paths and keys ("nameSpace|name") determine one another, as they do for *)
(* the paths of Downloads, the only ones the server registers.             *)
(***************************************************************************)
EXTENDS FiniteSets

CONSTANTS
  Keys,       \* keys of the dictionary, each with its path in Downloads
  Threads,    \* web-request threads that register paths
  NoFile,     \* there is no registry file
  Torn        \* a registry file that does not deserialize

ASSUME FileAssumption ==
  {NoFile, Torn} \cap [keys : SUBSET Keys] = {}

VARIABLES
  phase,      \* "down", "prune" (constructor), "scan" (LoadCacheDir), "up", or
              \* "threw": the last start ended in an exception
  present,    \* keys whose path exists
  registry,   \* keys of _registry (memory)
  file,       \* the registry file
  thread,     \* thread[t]: the RegisterPath call t is in
  refused     \* some RegisterPath call failed since the server came up (history)

vars == <<phase, present, registry, file, thread, refused>>

----------------------------------------------------------------------------
Pcs == {"adding", "open", "opened", "dumping", "broken", "closing"}

\* key: what is registered; update: no exception when the key is there; dump: the
\* keys serialized so far that Dispose will flush.
Call == [pc : Pcs, key : Keys, update : BOOLEAN, dump : SUBSET Keys]
Idle == [pc |-> "idle"]

At(t, p) == thread[t] # Idle /\ thread[t].pc = p
FileOpen(t) == thread[t] # Idle /\ thread[t].pc \in {"opened", "dumping", "broken", "closing"}
Goto(t, p) == thread' = [thread EXCEPT ![t].pc = p]

\* The exception leaves RegisterPath.
Throw(t) ==
  /\ thread' = [thread EXCEPT ![t] = Idle]
  /\ refused' = TRUE

\* TryReadFromFile keeps the empty dictionary when the file does not deserialize.
ReadBack(f) == IF f \in {NoFile, Torn} THEN {} ELSE f.keys

Init ==
  /\ phase = "down"
  /\ present \in SUBSET Keys
  /\ registry = {}
  /\ file = NoFile
  /\ thread = [t \in Threads |-> Idle]
  /\ refused = FALSE

----------------------------------------------------------------------------
(* Start of the server *)

\* LoadRegistryFile reads the file.
Load ==
  /\ phase \in {"down", "threw"}
  /\ phase' = "prune"
  /\ registry' = ReadBack(file)
  /\ UNCHANGED <<present, file, thread, refused>>

\* Defect: the pruned dictionary is not written back.
RewrittenNot(r) == file

\* What WriteToFile leaves when nothing disturbs it.
Rewritten(r) == [keys |-> r]

\* The loop over _registry.Keys: a key whose path is gone is removed and the file
\* rewritten; the enumerator then finds its dictionary changed and throws.
PruneThrows ==
  /\ phase = "prune"
  /\ \E k \in registry \ present :
       /\ file' = Rewritten(registry \ {k})
       /\ registry' = {}
  /\ phase' = "threw"
  /\ UNCHANGED <<present, thread, refused>>

\* Every path was there.
PruneEnds ==
  /\ phase = "prune"
  /\ registry \subseteq present
  /\ phase' = "scan"
  /\ UNCHANGED <<present, registry, file, thread, refused>>

\* LoadCacheDir adds a path that is not registered and rewrites the file.
ScanAdds ==
  /\ phase = "scan"
  /\ \E k \in present \ registry :
       /\ registry' = registry \cup {k}
       /\ file' = Rewritten(registry \cup {k})
  /\ UNCHANGED <<phase, present, thread, refused>>

\* Defect: LoadCacheDir is left out once the file has given some entry.
ScannedIfLoaded == registry # {} \/ present \subseteq registry

\* Every path of Downloads has been seen.
Scanned == present \subseteq registry

ScanEnds ==
  /\ phase = "scan"
  /\ Scanned
  /\ phase' = "up"
  /\ refused' = FALSE
  /\ UNCHANGED <<present, registry, file, thread>>

----------------------------------------------------------------------------
(* RegisterPath, on the threads of web requests *)

\* checkPath: the path exists.
BeginAdd(t) ==
  /\ phase = "up"
  /\ thread[t] = Idle
  /\ \E k \in present, u \in BOOLEAN :
       thread' = [thread EXCEPT ![t] =
                    [pc |-> "adding", key |-> k, update |-> u, dump |-> {}]]
  /\ UNCHANGED <<phase, present, registry, file, refused>>

\* Defect: a disturbed enumeration is started over, in a state that nothing handles.
DisturbedAnew(t) ==
  [s \in Threads |->
     IF s = t THEN [thread[t] EXCEPT !.pc = "open"]
     ELSE IF At(s, "dumping") THEN [thread[s] EXCEPT !.pc = "retrying"] ELSE thread[s]]

\* Whoever enumerates a dictionary that changes throws on its next step.
Disturbed(t) ==
  [s \in Threads |->
     IF s = t THEN [thread[t] EXCEPT !.pc = "open"]
     ELSE IF At(s, "dumping") THEN [thread[s] EXCEPT !.pc = "broken"] ELSE thread[s]]

\* Defect: an update of a key that is there is refused like an addition.
AcceptsNew(c) == c.key \notin registry

\* _registry.Add throws on a key that is there; _registry[key] = value does not.
Accepts(c) == c.update \/ c.key \notin registry

\* Dictionary is not synchronized: of two writes at the same time one may be lost.
EndAdd(t) ==
  LET c == thread[t]
      overlaps == \E s \in Threads \ {t} : At(s, "adding")
  IN /\ At(t, "adding")
     /\ \/ /\ Accepts(c)
           /\ \/ registry' = registry \cup {c.key}
              \/ overlaps /\ UNCHANGED registry
           /\ thread' = Disturbed(t)
           /\ UNCHANGED refused
        \/ /\ ~Accepts(c)
           /\ Throw(t)
           /\ UNCHANGED registry
     /\ UNCHANGED <<phase, present, file>>

\* new StreamWriter truncates the file, or fails when another thread has it open.
Open(t) ==
  /\ At(t, "open")
  /\ \/ /\ \A s \in Threads : ~FileOpen(s)
        /\ file' = Torn
        /\ Goto(t, "opened")
        /\ UNCHANGED refused
     \/ /\ \E s \in Threads : FileOpen(s)
        /\ Throw(t)
        /\ UNCHANGED file
  /\ UNCHANGED <<phase, present, registry>>

\* WriteXml starts to enumerate Keys, ...
StartDump(t) ==
  /\ At(t, "opened")
  /\ Goto(t, "dumping")
  /\ UNCHANGED <<phase, present, registry, file, refused>>

\* Defect: only the key of this call is serialized.
DumpedOne(t) == {thread[t].key}

\* What the enumeration yields.
Dumped(t) == registry

\* ... comes to its end, ...
EndDump(t) ==
  /\ At(t, "dumping")
  /\ thread' = [thread EXCEPT ![t].pc = "closing", ![t].dump = Dumped(t)]
  /\ UNCHANGED <<phase, present, registry, file, refused>>

\* ... and the writer is disposed: the text reaches the file.
Close(t) ==
  /\ At(t, "closing")
  /\ file' = [keys |-> thread[t].dump]
  /\ thread' = [thread EXCEPT ![t] = Idle]
  /\ UNCHANGED <<phase, present, registry, refused>>

\* The enumeration has thrown: half of the text reaches the file.
CloseBroken(t) ==
  /\ At(t, "broken")
  /\ Throw(t)
  /\ UNCHANGED <<phase, present, registry, file>>

----------------------------------------------------------------------------
(* The surroundings *)

\* Data appears in Downloads or is deleted, though not while the server starts.
Appear(k) ==
  /\ phase \in {"up", "down", "threw"}
  /\ k \notin present
  /\ present' = present \cup {k}
  /\ UNCHANGED <<phase, registry, file, thread, refused>>

Vanish(k) ==
  /\ phase \in {"up", "down", "threw"}
  /\ k \in present
  /\ present' = present \ {k}
  /\ UNCHANGED <<phase, registry, file, thread, refused>>

\* The process ends, possibly while the start-up rewrites the file.
Crash ==
  /\ phase \notin {"down", "threw"}
  /\ phase' = "down"
  /\ registry' = {}
  /\ \/ UNCHANGED file
     \/ phase \in {"prune", "scan"} /\ registry # present /\ file' = Torn
  /\ thread' = [t \in Threads |-> Idle]
  /\ UNCHANGED <<present, refused>>

----------------------------------------------------------------------------
Starting == Load \/ PruneThrows \/ PruneEnds \/ ScanAdds \/ ScanEnds

Next ==
  \/ Load \/ PruneThrows \/ PruneEnds \/ ScanAdds \/ ScanEnds
  \/ \E t \in Threads :
       \/ BeginAdd(t) \/ EndAdd(t) \/ Open(t) \/ StartDump(t) \/ EndDump(t)
       \/ Close(t) \/ CloseBroken(t)
  \/ \E k \in Keys : Appear(k) \/ Vanish(k)
  \/ Crash

Spec == Init /\ [][Next]_vars

\* A server that is down, or that failed to start, is started again, and its start runs on.
FairSpec == Spec /\ WF_vars(Starting)

----------------------------------------------------------------------------
(* Properties *)

\* Every variable keeps its type.
TypeOK ==
  /\ phase \in {"down", "prune", "scan", "up", "threw"}
  /\ present \subseteq Keys
  /\ registry \subseteq Keys
  /\ file \in [keys : SUBSET Keys] \cup {NoFile, Torn}
  /\ thread \in [Threads -> Call \cup {Idle}]
  /\ refused \in BOOLEAN

\* The server comes up with exactly what Downloads holds in its registry, whatever
\* crash, torn file, failed start or deletion came before (BitTorrentManager's Boot).
ComesUpWithDownloads ==
  [][phase # "up" /\ phase' = "up" => registry' = present']_vars

\* At rest, the file says what the memory says, unless a RegisterPath call failed: a
\* save of what an earlier call found never outlasts that of a later one.  An entry that
\* the Dictionary itself lost in a race is in neither (ImplementsCachedItems allows it).
FileKeepsUp ==
  phase = "up" /\ (\A t \in Threads : thread[t] = Idle) /\ ~refused =>
    ReadBack(file) = registry

\* What a call does to the memory, and when.
Calls ==
  [t \in Threads |->
     IF thread[t] = Idle THEN Idle
     ELSE [key |-> thread[t].key, update |-> thread[t].update, written |-> thread[t].pc # "adding"]]

Items == INSTANCE CachedItems WITH
  up <- phase = "up", registry <- IF phase = "up" THEN registry ELSE {}, call <- Calls, None <- Idle

\* Seen from its callers the registry is a set that starts as what Downloads holds and
\* that each call extends or is refused by, whatever becomes of the file: files that do
\* not deserialize, failed starts and enumerations that break show in no other way.
ImplementsCachedItems == Items!Spec

\* A start that prunes throws, but leaves one stale entry less behind it, so that
\* starting again brings the server up in the end if it does not crash.
StartsInTheEnd == <>[][~Crash]_vars => []<>(phase = "up")

\* LoadRegistryFile "checks whether the file/dir references exists": it is meant to
\* cope with those that do not, and not to end the start of the server.
StartDoesNotThrow == phase # "threw"

============================================================================
