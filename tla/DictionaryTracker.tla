------------------------- MODULE DictionaryTracker -------------------------
(***************************************************************************)
(* How the peers of a torrent find each other (DictionaryServiceTracker,   *)
(* its listener, DictionaryServiceProxy and the watcher of the torrents).  *)
(*                                                                         *)
(* A torrent names the tracker of the host that published it, and its      *)
(* peers announce themselves there.  Several hosts can publish the same    *)
(* torrent, and then there are several trackers, which share their peers   *)
(* through the dictionary: on each announcement a tracker reads the peers  *)
(* of the torrent from it and puts the announcing peer into it.  The       *)
(* tracker of MonoTorrent answers only for torrents that the watcher has   *)
(* added to it, when their files appeared.  The file of a torrent is       *)
(* written by every Publish and Update of its name, also by one that is    *)
(* refused afterwards, and may be rewritten at any time.                   *)
(*                                                                         *)
(* One torrent is modelled, under a name that may have others before and   *)
(* after it.                                                               *)
(***************************************************************************)
EXTENDS Naturals, FiniteSets

CONSTANTS
    Trackers,       \* the hosts that publish the torrent
    Peers,          \* the peers that share it
    TrackerOf,      \* TrackerOf[p]: the tracker in the torrent that peer p has
    MaxCrashes,     \* bound: how often hosts crash
    MaxRewrites,    \* bound: how often a file that holds the torrent is written again
    Absent, Torn, Other, Current    \* what the file can hold: the torrent is Current

ASSUME TrackersAssumption ==
    /\ TrackerOf \in [Peers -> Trackers]
    /\ MaxCrashes \in Nat /\ MaxRewrites \in Nat
    /\ Absent \notin {Torn, Other, Current} /\ Torn \notin {Other, Current} /\ Other # Current

VARIABLES
    file,       \* file[k]: the file of the torrent on the disk of host k
    writing,    \* the hosts that are writing that file
    found,      \* the hosts whose watcher has found the file and not loaded it yet
    missed,     \* the hosts whose watcher missed what was written: there was a file, or
                \* it was not this torrent, or not whole, when the watcher looked (history)
    tracked,    \* the hosts whose tracker knows the torrent
    peers,      \* peers[k]: the peers that the tracker of host k knows
    dict,       \* the peers in the dictionary
    holders,    \* the peers that have the torrent
    running,    \* the peers that are started
    known,      \* known[p]: the other peers that peer p has been told of
    call,       \* call[k]: the announcement that tracker k handles
    rewrites,   \* how often a file that holds the torrent has been written again
    crashes     \* how often hosts have crashed

disk == <<file, writing, found, missed, rewrites>>
swarm == <<holders, running>>
vars == <<disk, tracked, peers, dict, swarm, known, call, crashes>>

----------------------------------------------------------------------------
(* What an announcement meets of the dictionary: nothing wrong; a Get that fails with a   *)
(* DictionaryServiceException, or with another exception, as BrunetDhtService's does when *)
(* the DHT cannot be reached; a Put that fails in any way.                               *)
Weather == {"fine", "getFails", "getThrows", "putFails"}

Pcs == {"idle", "handle", "answer"}

Idle == [pc |-> "idle", peer |-> Absent, weather |-> "fine", entries |-> {}]

At(k, pc) == call[k].pc = pc
PeerOf(k) == call[k].peer
Ends(k) == call' = [call EXCEPT ![k] = Idle]

Init ==
    /\ file = [k \in Trackers |-> Absent]
    /\ writing = {}
    /\ found = {}
    /\ missed = {}
    /\ rewrites = 0
    /\ tracked = {}
    /\ peers = [k \in Trackers |-> {}]
    /\ dict = {}
    /\ holders = {}
    /\ running = {}
    /\ known = [p \in Peers |-> {}]
    /\ call = [k \in Trackers |-> Idle]
    /\ crashes = 0

----------------------------------------------------------------------------
(* WriteTorrent, and the file that ReadOrDownloadTorrent saves.  The system tells the     *)
(* watcher of a file that is created, not of one that is written again.                  *)
BeginWrite(k) ==
    /\ k \notin writing
    /\ file' = [file EXCEPT ![k] = Torn]
    /\ writing' = writing \cup {k}
    /\ IF file[k] = Current
       THEN rewrites < MaxRewrites /\ rewrites' = rewrites + 1
       ELSE UNCHANGED rewrites
    /\ \/ /\ file[k] = Absent
          /\ found' = found \cup {k}
          /\ UNCHANGED missed
       \/ /\ file[k] # Absent
          /\ missed' = IF k \in tracked \cup found THEN missed ELSE missed \cup {k}
          /\ UNCHANGED found
    /\ UNCHANGED <<tracked, peers, dict, swarm, known, call, crashes>>

\* Defect: the file is not closed when it has been written.
EndWriteOpen(k) ==
    /\ k \in writing
    /\ \E torrent \in {Torn, Other, Current} : file' = [file EXCEPT ![k] = torrent]
    /\ UNCHANGED <<writing, found, missed, rewrites, tracked, peers, dict, swarm, known, call, crashes>>

(* What is written is the torrent of the data as they are, or a downloaded one, which    *)
(* may be torn.                                                                          *)
EndWrite(k) ==
    /\ k \in writing
    /\ \E torrent \in {Torn, Other, Current} : file' = [file EXCEPT ![k] = torrent]
    /\ writing' = writing \ {k}
    /\ UNCHANGED <<found, missed, rewrites, tracked, peers, dict, swarm, known, call, crashes>>

\* Defect: the watcher takes what it finds for loaded, whatever is in the file.
LoadTorrentAnyhow(k) ==
    /\ k \in found
    /\ found' = found \ {k}
    /\ tracked' = IF file[k] = Current THEN tracked \cup {k} ELSE tracked
    /\ UNCHANGED <<file, writing, missed, rewrites, peers, dict, swarm, known, call, crashes>>

(* The watcher waits for half a second, and loads what there is then; if it cannot be    *)
(* loaded, it is left at that.                                                           *)
LoadTorrent(k) ==
    /\ k \in found
    /\ found' = found \ {k}
    /\ \/ /\ file[k] = Current
          /\ tracked' = tracked \cup {k}
          /\ UNCHANGED missed
       \/ /\ file[k] # Current
          /\ missed' = IF k \in tracked THEN missed ELSE missed \cup {k}
          /\ UNCHANGED tracked
    /\ UNCHANGED <<file, writing, rewrites, peers, dict, swarm, known, call, crashes>>

(* A peer takes the torrent from its publisher, and keeps it.                            *)
StartTorrent(p) ==
    /\ p \notin running
    /\ p \in holders \/ file[TrackerOf[p]] = Current
    /\ holders' = holders \cup {p}
    /\ running' = running \cup {p}
    /\ UNCHANGED <<disk, tracked, peers, dict, known, call, crashes>>

----------------------------------------------------------------------------
(* No peers when the dictionary fails or does not know the key. *)
GetPeers(weather) == IF weather = "getFails" THEN {} ELSE dict

\* Defect: a key that the dictionary does not know makes the announcement fail.
AnnounceOfKey(p, weather) ==
    LET k == TrackerOf[p]
    IN  /\ p \in running
        /\ At(k, "idle")
        /\ call' = IF weather = "getThrows" \/ dict = {} THEN call
                   ELSE [call EXCEPT ![k] = [pc |-> "handle", peer |-> p,
                            weather |-> IF weather = "putFails" THEN "putFails" ELSE "fine",
                            entries |-> GetPeers(weather)]]
        /\ UNCHANGED <<disk, tracked, peers, dict, swarm, known, crashes>>

(* The tracker's HTTP listener takes one announcement at a time, and hands it to         *)
(* OnAnnounceReceived first, which begins with GetPeers, and to the tracker then.  When   *)
(* GetPeers throws, the announcement is lost before it has changed anything.             *)
Announce(p, weather) ==
    LET k == TrackerOf[p]
    IN  /\ p \in running
        /\ At(k, "idle")
        /\ call' = IF weather = "getThrows" THEN call
                   ELSE [call EXCEPT ![k] = [pc |-> "handle", peer |-> p,
                            weather |-> IF weather = "putFails" THEN "putFails" ELSE "fine",
                            entries |-> GetPeers(weather)]]
        /\ UNCHANGED <<disk, tracked, peers, dict, swarm, known, crashes>>

(* Each entry is handed to the tracker, as if that peer had announced itself.  Entries    *)
(* have the fields that IsValid asks for, since AnnouncePeer writes them, and none says   *)
(* that its peer has stopped: no code of the program stops a torrent or the engine.       *)
HandleEntry(k) ==
    /\ At(k, "handle")
    /\ \E q \in call[k].entries :
        /\ call' = [call EXCEPT ![k] = [call[k] EXCEPT !.entries = call[k].entries \ {q}]]
        /\ peers' = IF k \in tracked THEN [peers EXCEPT ![k] = peers[k] \cup {q}] ELSE peers
    /\ UNCHANGED <<disk, tracked, dict, swarm, known, crashes>>

(* AnnouncePeer; a Put that fails in any way is made up for by the next announcement. *)
AnnouncePeer(k) ==
    /\ At(k, "handle")
    /\ call[k].entries = {}
    /\ dict' = IF call[k].weather = "putFails" THEN dict ELSE dict \cup {PeerOf(k)}
    /\ call' = [call EXCEPT ![k] = [call[k] EXCEPT !.pc = "answer", !.weather = "fine"]]
    /\ UNCHANGED <<disk, tracked, peers, swarm, known, crashes>>

(* MonoTorrent's tracker (external) refuses a torrent that it does not know; otherwise   *)
(* it adds the peer to its list and answers with the others on it.                       *)
Answer(k) ==
    LET p == PeerOf(k)
    IN  /\ At(k, "answer")
        /\ IF k \in tracked
           THEN /\ peers' = [peers EXCEPT ![k] = peers[k] \cup {p}]
                /\ known' = [known EXCEPT ![p] = known[p] \cup (peers[k] \ {p})]
           ELSE UNCHANGED <<peers, known>>
        /\ Ends(k)
        /\ UNCHANGED <<disk, tracked, dict, swarm, crashes>>

----------------------------------------------------------------------------
(* A peer's process ends, and with it what it was told. *)
StopPeer(p) ==
    /\ crashes < MaxCrashes
    /\ crashes' = crashes + 1
    /\ p \in running
    /\ running' = running \ {p}
    /\ known' = [known EXCEPT ![p] = {}]
    /\ UNCHANGED <<disk, tracked, peers, dict, holders, call>>

\* Defect: the scan at the start leaves out the directories of the namespaces.
CrashUnscanned(k) ==
    /\ crashes < MaxCrashes
    /\ crashes' = crashes + 1
    /\ writing' = writing \ {k}
    /\ found' = found \ {k}
    /\ missed' = missed \ {k}
    /\ tracked' = tracked \ {k}
    /\ peers' = [peers EXCEPT ![k] = {}]
    /\ Ends(k)
    /\ UNCHANGED <<file, rewrites, dict, swarm, known>>

(* A publisher crashes and starts again: ForceScan finds the files that are there.       *)
Crash(k) ==
    /\ crashes < MaxCrashes
    /\ crashes' = crashes + 1
    /\ writing' = writing \ {k}
    /\ found' = IF file[k] # Absent THEN found \cup {k} ELSE found
    /\ missed' = missed \ {k}
    /\ tracked' = tracked \ {k}
    /\ peers' = [peers EXCEPT ![k] = {}]
    /\ Ends(k)
    /\ UNCHANGED <<file, rewrites, dict, swarm, known>>

Handling(k) == HandleEntry(k) \/ AnnouncePeer(k) \/ Answer(k)

Next ==
    \/ \E k \in Trackers :
        BeginWrite(k) \/ EndWrite(k) \/ LoadTorrent(k) \/ Handling(k) \/ Crash(k)
    \/ \E p \in Peers :
        StartTorrent(p) \/ StopPeer(p) \/ \E weather \in Weather : Announce(p, weather)

Spec == Init /\ [][Next]_vars

(* The threads of the watcher and of the listener run.  A peer announces itself again    *)
(* and again (external), and the dictionary is not out of order each time.               *)
Fairness ==
    /\ \A k \in Trackers : WF_vars(LoadTorrent(k)) /\ WF_vars(Handling(k))
    /\ \A p \in Peers : SF_vars(Announce(p, "fine"))

FairSpec == Spec /\ Fairness

----------------------------------------------------------------------------
(* Files, tables and calls keep their types; a tracker handles only peers whose torrent   *)
(* names it, with entries that are in the dictionary.                                    *)
TypeOK ==
    /\ file \in [Trackers -> {Absent, Torn, Other, Current}]
    /\ \A k \in writing : file[k] = Torn
    /\ found \cup missed \subseteq { k \in Trackers : file[k] # Absent }
    /\ missed \cap (tracked \cup found) = {} /\ tracked \subseteq Trackers
    /\ peers \in [Trackers -> SUBSET Peers] /\ known \in [Peers -> SUBSET Peers]
    /\ dict \subseteq Peers /\ running \subseteq holders /\ holders \subseteq Peers
    /\ rewrites \in 0 .. MaxRewrites /\ crashes \in 0 .. MaxCrashes
    /\ \A k \in Trackers : ~At(k, "idle") =>
        /\ call[k].pc \in Pcs /\ call[k].weather \in Weather
        /\ PeerOf(k) \in Peers /\ TrackerOf[PeerOf(k)] = k
        /\ call[k].entries \subseteq dict

(* "Dump torrent to the torrent folder so that tracker could load it.": a host whose disk *)
(* holds the torrent whole tracks it or is about to load it, over writes, downloads and   *)
(* crashes, except that the watcher can miss what was written: over a file that was       *)
(* there, of which no event tells it, or not ended half a second after it began.          *)
WholeIsTracked ==
    \A k \in Trackers : file[k] = Current => k \in tracked \cup found \cup missed

(* A peer that goes on announcing itself gets into the dictionary, whether its tracker   *)
(* answers for the torrent or not: other trackers can then tell of it.  This needs the   *)
(* first announcement to survive that the dictionary has no such key.                    *)
PeersAreListed ==
    \A p \in Peers : p \in running ~> (p \in dict \/ p \notin running)

(* A peer whose tracker has loaded the torrent, or has found its file, learns of every    *)
(* other that goes on running, though they announce themselves to different hosts, though *)
(* calls of the dictionary fail, the file is rewritten or torn and the tracker is started *)
(* again; unless the watcher, loading what it found, does not find the torrent whole.     *)
PeersMeet ==
    \A p \in Peers : \A q \in Peers \ {p} :
        (TrackerOf[p] \in tracked \cup found /\ {p, q} \subseteq running)
            ~> (q \in known[p] \/ ~({p, q} \subseteq running) \/ TrackerOf[p] \in missed)
===========================================================================
