---------------------- MODULE DictionaryTracker_proofs ----------------------
(***************************************************************************)
(* Safety of the tracker for any number of trackers and peers.             *)
(***************************************************************************)
EXTENDS DictionaryTracker, TLAPS

Calls == [pc : Pcs, peer : Peers \cup {Absent}, weather : Weather, entries : SUBSET Peers]

Tables ==
  /\ writing \subseteq Trackers /\ tracked \subseteq Trackers
  /\ call \in [Trackers -> Calls]

\* What TypeOK says of the disk and the tracker, and of the announcements.  Of the torrent,
\* also before it is whole: from its first byte on, its host has it to track or to load.
Disk ==
  /\ file \in [Trackers -> {Absent, Torn, Other, Current}]
  /\ \A k \in writing : file[k] = Torn
  /\ found \cup missed \subseteq { k \in Trackers : file[k] # Absent }
  /\ missed \cap (tracked \cup found) = {}
  /\ rewrites \in 0 .. MaxRewrites
  /\ \A k \in Trackers : file[k] \in {Torn, Current} => k \in tracked \cup found \cup missed

Lists ==
  /\ peers \in [Trackers -> SUBSET Peers] /\ known \in [Peers -> SUBSET Peers]
  /\ dict \subseteq Peers /\ running \subseteq holders /\ holders \subseteq Peers
  /\ crashes \in 0 .. MaxCrashes

Handled(k) ==
  ~At(k, "idle") =>
    /\ call[k].pc \in Pcs /\ call[k].weather \in Weather
    /\ PeerOf(k) \in Peers /\ TrackerOf[PeerOf(k)] = k
    /\ call[k].entries \subseteq dict

AllHandled == \A k \in Trackers : Handled(k)

Inv == Tables /\ Disk /\ Lists /\ AllHandled

LEMMA InvIsType == Inv => TypeOK /\ WholeIsTracked
BY DEF Inv, Tables, Disk, Lists, AllHandled, Handled, TypeOK, WholeIsTracked

\* Trackers that handle nothing, or what they handled, keep what is known of them.
LEMMA CallsStay ==
  ASSUME Inv, UNCHANGED call, dict \subseteq dict'
  PROVE  AllHandled'
BY DEF Inv, AllHandled, Handled, At, PeerOf

\* One tracker goes on to R.
LEMMA CallMoves ==
  ASSUME Inv, NEW k \in Trackers, NEW R \in Calls, call' = [call EXCEPT ![k] = R],
         dict \subseteq dict',
         R.pc # "idle" => R.peer \in Peers /\ TrackerOf[R.peer] = k /\ R.entries \subseteq dict'
  PROVE  call' \in [Trackers -> Calls] /\ AllHandled'
<1>1. /\ call' \in [Trackers -> Calls]
      /\ \A j \in Trackers : call'[j] = IF j = k THEN R ELSE call[j]
  BY DEF Inv, Tables
<1>2. R.pc \in Pcs /\ R.weather \in Weather
  BY DEF Calls
<1>3. Handled(k)'
  BY <1>1, <1>2 DEF Handled, At, PeerOf
<1>4. ASSUME NEW j \in Trackers \ {k} PROVE Handled(j)'
  BY <1>1 DEF Inv, AllHandled, Handled, At, PeerOf
<1>5. QED
  BY <1>1, <1>3, <1>4 DEF AllHandled

LEMMA IdleCall == Idle \in Calls /\ Idle.pc = "idle"
BY DEF Idle, Calls, Pcs, Weather

LEMMA CallEnds ==
  ASSUME Inv, NEW k \in Trackers, Ends(k), dict \subseteq dict'
  PROVE  call' \in [Trackers -> Calls] /\ AllHandled'
BY IdleCall, CallMoves DEF Ends

\* The call of a tracker that handles an announcement.
LEMMA CallIs ==
  ASSUME Inv, NEW k \in Trackers, ~At(k, "idle")
  PROVE  /\ call[k] \in Calls /\ PeerOf(k) \in Peers /\ TrackerOf[PeerOf(k)] = k
         /\ call[k].peer = PeerOf(k) /\ call[k].entries \subseteq dict /\ dict \subseteq Peers
BY DEF Inv, Tables, Lists, AllHandled, Handled, PeerOf

----------------------------------------------------------------------------
(* The disk *)

LEMMA DiskStep ==
  ASSUME Inv, NEW k \in Trackers, BeginWrite(k) \/ EndWrite(k) \/ LoadTorrent(k)
  PROVE  Inv'
<1>1. UNCHANGED <<peers, dict, swarm, known, call, crashes>>
  BY DEF BeginWrite, EndWrite, LoadTorrent
<1>2. Lists' /\ AllHandled' /\ call' \in [Trackers -> Calls]
  BY <1>1, CallsStay DEF Inv, Lists, Tables, swarm
<1>3. Absent # Torn /\ Absent # Current /\ Absent # Other
  BY TrackersAssumption
<1>4. CASE BeginWrite(k)
  <2>1. /\ file' = [file EXCEPT ![k] = Torn] /\ writing' = writing \cup {k}
        /\ UNCHANGED tracked /\ found \subseteq found' /\ found' \subseteq found \cup {k}
        /\ missed \subseteq missed' /\ missed' \subseteq missed \cup {k}
        /\ k \in tracked \cup found' \cup missed'
    BY <1>4 DEF BeginWrite
  <2>2. missed' \cap (tracked' \cup found') = {}
    BY <1>4 DEF BeginWrite, Inv, Disk, Tables
  <2>3. rewrites' \in 0 .. MaxRewrites
    BY <1>4, TrackersAssumption DEF BeginWrite, Inv, Disk
  <2>4. Disk' /\ Tables'
    BY <1>2, <1>3, <2>1, <2>2, <2>3 DEF Inv, Disk, Tables
  <2>5. QED
    BY <1>2, <2>4 DEF Inv
<1>5. CASE EndWrite(k)
  <2>1. PICK torrent \in {Torn, Other, Current} : file' = [file EXCEPT ![k] = torrent]
    BY <1>5 DEF EndWrite
  <2>2. /\ writing' = writing \ {k} /\ UNCHANGED <<found, missed, rewrites, tracked>>
        /\ k \in writing
    BY <1>5 DEF EndWrite
  <2>3. Disk' /\ Tables'
    BY <1>2, <1>3, <2>1, <2>2 DEF Inv, Disk, Tables
  <2>4. QED
    BY <1>2, <2>3 DEF Inv
<1>6. CASE LoadTorrent(k)
  <2>1. UNCHANGED <<file, writing, rewrites>> /\ k \in found /\ found' = found \ {k}
    BY <1>6 DEF LoadTorrent
  <2>2. \/ tracked' = tracked \cup {k} /\ missed' = missed
        \/ tracked' = tracked /\ missed' = IF k \in tracked THEN missed ELSE missed \cup {k}
    BY <1>6 DEF LoadTorrent
  <2>3. Disk' /\ Tables'
    BY <1>2, <2>1, <2>2 DEF Inv, Disk, Tables
  <2>4. QED
    BY <1>2, <2>3 DEF Inv
<1>7. QED
  BY <1>4, <1>5, <1>6

LEMMA CrashStep ==
  ASSUME Inv, NEW k \in Trackers, Crash(k)
  PROVE  Inv'
<1>1. call' \in [Trackers -> Calls] /\ AllHandled'
  BY CallEnds DEF Crash
<1>2. crashes' \in 0 .. MaxCrashes
  BY TrackersAssumption DEF Crash, Inv, Lists
<1>3. Lists'
  BY <1>2 DEF Crash, Inv, Lists, swarm
<1>4. Disk'
  BY TrackersAssumption DEF Crash, Inv, Disk
<1>5. Tables'
  BY <1>1 DEF Crash, Inv, Tables
<1>6. QED
  BY <1>1, <1>3, <1>4, <1>5 DEF Inv

----------------------------------------------------------------------------
(* The peers *)

LEMMA PeerStep ==
  ASSUME Inv, NEW p \in Peers, StartTorrent(p) \/ StopPeer(p)
  PROVE  Inv'
<1>1. UNCHANGED <<disk, tracked, peers, dict, call>>
  BY DEF StartTorrent, StopPeer
<1>2. Tables' /\ Disk' /\ AllHandled'
  BY <1>1, CallsStay DEF Inv, Tables, Disk, disk
<1>3. crashes' \in 0 .. MaxCrashes
  BY TrackersAssumption DEF StartTorrent, StopPeer, Inv, Lists
<1>4. Lists'
  BY <1>1, <1>3 DEF StartTorrent, StopPeer, Inv, Lists
<1>5. QED
  BY <1>2, <1>4 DEF Inv

LEMMA AnnounceStep ==
  ASSUME Inv, NEW p \in Peers, NEW weather \in Weather, Announce(p, weather)
  PROVE  Inv'
<1> DEFINE k == TrackerOf[p]
           R == [pc |-> "handle", peer |-> p,
                 weather |-> IF weather = "putFails" THEN "putFails" ELSE "fine",
                 entries |-> GetPeers(weather)]
<1>1. k \in Trackers
  BY TrackersAssumption
<1>2. R \in Calls /\ R.peer = p /\ R.entries \subseteq dict
  BY DEF Calls, Pcs, Weather, GetPeers, Inv, Lists
<1>3. /\ call' = call \/ call' = [call EXCEPT ![k] = R]
      /\ UNCHANGED <<disk, tracked, peers, dict, swarm, known, crashes>>
  BY DEF Announce
<1>4. call' \in [Trackers -> Calls] /\ AllHandled'
  <2>1. CASE call' = call
    BY <1>3, <2>1, CallsStay DEF Inv, Tables
  <2>2. CASE call' = [call EXCEPT ![k] = R]
    <3>1. TrackerOf[p] = k
      OBVIOUS
    <3> HIDE DEF k, R
    <3>2. QED
      BY <1>1, <1>2, <1>3, <2>2, <3>1, CallMoves
  <2>3. QED
    BY <1>3, <2>1, <2>2
<1>5. QED
  BY <1>3, <1>4 DEF Inv, Tables, Disk, Lists, disk, swarm

----------------------------------------------------------------------------
(* The announcement *)

LEMMA HandleEntryStep ==
  ASSUME Inv, NEW k \in Trackers, HandleEntry(k)
  PROVE  Inv'
<1>1. UNCHANGED <<disk, tracked, dict, swarm, known, crashes>>
  BY DEF HandleEntry
<1>2. ~At(k, "idle")
  BY DEF HandleEntry, At
<1>3. PICK q \in call[k].entries :
        /\ call' = [call EXCEPT ![k] = [call[k] EXCEPT !.entries = call[k].entries \ {q}]]
        /\ peers' = IF k \in tracked THEN [peers EXCEPT ![k] = peers[k] \cup {q}] ELSE peers
  BY DEF HandleEntry
<1>4. /\ call[k] \in Calls /\ PeerOf(k) \in Peers /\ TrackerOf[PeerOf(k)] = k
      /\ call[k].peer = PeerOf(k) /\ call[k].entries \subseteq dict /\ dict \subseteq Peers
  BY <1>2, CallIs
<1>5. call' \in [Trackers -> Calls] /\ AllHandled'
  <2> DEFINE R == [call[k] EXCEPT !.entries = call[k].entries \ {q}]
  <2>1. R \in Calls /\ R.peer = PeerOf(k) /\ R.entries \subseteq dict
    BY <1>4 DEF Calls
  <2>2. call' = [call EXCEPT ![k] = R]
    BY <1>3
  <2> HIDE DEF R
  <2>3. QED
    BY <1>1, <1>4, <2>1, <2>2, CallMoves
<1>6. q \in Peers
  BY <1>4
<1>7. peers' \in [Trackers -> SUBSET Peers]
  BY <1>3, <1>6 DEF Inv, Lists
<1>8. QED
  BY <1>1, <1>5, <1>7 DEF Inv, Tables, Disk, Lists, disk, swarm

LEMMA AnnouncePeerStep ==
  ASSUME Inv, NEW k \in Trackers, AnnouncePeer(k)
  PROVE  Inv'
<1>1. UNCHANGED <<disk, tracked, peers, swarm, known, crashes>>
  BY DEF AnnouncePeer
<1>2. ~At(k, "idle")
  BY DEF AnnouncePeer, At
<1>3. /\ call[k] \in Calls /\ PeerOf(k) \in Peers /\ TrackerOf[PeerOf(k)] = k
      /\ call[k].peer = PeerOf(k) /\ call[k].entries \subseteq dict /\ dict \subseteq Peers
  BY <1>2, CallIs
<1>4. dict \subseteq dict' /\ dict' \subseteq Peers
  BY <1>3 DEF AnnouncePeer
<1>5. call' \in [Trackers -> Calls] /\ AllHandled'
  <2> DEFINE R == [call[k] EXCEPT !.pc = "answer", !.weather = "fine"]
  <2>1. call' = [call EXCEPT ![k] = R]
    BY DEF AnnouncePeer
  <2>2. R \in Calls /\ R.peer = PeerOf(k) /\ R.entries \subseteq dict'
    BY <1>3, <1>4 DEF Calls, Pcs, Weather
  <2> HIDE DEF R
  <2>3. QED
    BY <1>3, <1>4, <2>1, <2>2, CallMoves
<1>6. QED
  BY <1>1, <1>4, <1>5 DEF Inv, Tables, Disk, Lists, disk, swarm

LEMMA AnswerStep ==
  ASSUME Inv, NEW k \in Trackers, Answer(k)
  PROVE  Inv'
<1>1. UNCHANGED <<disk, tracked, dict, swarm, crashes>>
  BY DEF Answer
<1>2. call' \in [Trackers -> Calls] /\ AllHandled'
  BY <1>1, CallEnds DEF Answer
<1>3. PeerOf(k) \in Peers
  <2>1. ~At(k, "idle")
    BY DEF Answer, At
  <2>2. QED
    BY <2>1, CallIs
<1>4. peers' \in [Trackers -> SUBSET Peers] /\ known' \in [Peers -> SUBSET Peers]
  <2>1. peers \in [Trackers -> SUBSET Peers] /\ known \in [Peers -> SUBSET Peers]
    BY DEF Inv, Lists
  <2>2. peers[k] \subseteq Peers /\ known[PeerOf(k)] \subseteq Peers
    BY <1>3, <2>1
  <2>3. \/ /\ peers' = [peers EXCEPT ![k] = peers[k] \cup {PeerOf(k)}]
           /\ known' = [known EXCEPT ![PeerOf(k)] =
                            known[PeerOf(k)] \cup (peers[k] \ {PeerOf(k)})]
        \/ UNCHANGED <<peers, known>>
    BY DEF Answer
  <2>4. QED
    BY <1>3, <2>1, <2>2, <2>3
<1>5. QED
  BY <1>1, <1>2, <1>4 DEF Inv, Tables, Disk, Lists, disk, swarm

----------------------------------------------------------------------------

LEMMA InvStart == Init => Inv
<1> SUFFICES ASSUME Init PROVE Inv
  OBVIOUS
<1>1. Tables
  BY IdleCall DEF Init, Tables
<1>2. Disk
  BY TrackersAssumption DEF Init, Disk
<1>3. Lists
  BY TrackersAssumption DEF Init, Lists
<1>4. AllHandled
  BY IdleCall DEF Init, AllHandled, Handled, At
<1>5. QED
  BY <1>1, <1>2, <1>3, <1>4 DEF Inv

LEMMA InvStep == Inv /\ [Next]_vars => Inv'
<1> SUFFICES ASSUME Inv, [Next]_vars PROVE Inv'
  OBVIOUS
<1>1. ASSUME NEW k \in Trackers, BeginWrite(k) \/ EndWrite(k) \/ LoadTorrent(k) PROVE Inv'
  BY <1>1, DiskStep
<1>2. ASSUME NEW k \in Trackers, Handling(k) PROVE Inv'
  BY <1>2, HandleEntryStep, AnnouncePeerStep, AnswerStep DEF Handling
<1>3. ASSUME NEW k \in Trackers, Crash(k) PROVE Inv'
  BY <1>3, CrashStep
<1>4. ASSUME NEW p \in Peers, StartTorrent(p) \/ StopPeer(p) PROVE Inv'
  BY <1>4, PeerStep
<1>5. ASSUME NEW p \in Peers, NEW weather \in Weather, Announce(p, weather) PROVE Inv'
  BY <1>5, AnnounceStep
<1>6. CASE UNCHANGED vars
  BY <1>6, CallsStay DEF vars, disk, swarm, Inv, Tables, Disk, Lists
<1>7. QED
  BY <1>1, <1>2, <1>3, <1>4, <1>5, <1>6 DEF Next

(* Whatever the publishers write and rewrite, the peers announce and the dictionary       *)
(* refuses, files, tables and calls keep their types, and a tracker handles only peers    *)
(* whose torrent names it, with entries that are in the dictionary.                      *)
THEOREM TypeCorrect == Spec => []TypeOK
<1>1. Init => Inv
  BY InvStart
<1>2. Inv /\ [Next]_vars => Inv'
  BY InvStep
<1>3. Inv => TypeOK
  BY InvIsType
<1>4. QED
  BY <1>1, <1>2, <1>3, PTL DEF Spec

(* Over any writes, downloads and crashes of any number of hosts, a host whose disk holds *)
(* the torrent whole tracks it or is about to load it, unless its watcher missed it:      *)
(* what PublishDataInternal dumps "so that tracker could load it" is lost in no other way.*)
THEOREM WholeFilesAreTracked == Spec => []WholeIsTracked
<1>1. Init => Inv
  BY InvStart
<1>2. Inv /\ [Next]_vars => Inv'
  BY InvStep
<1>3. Inv => WholeIsTracked
  BY InvIsType
<1>4. QED
  BY <1>1, <1>2, <1>3, PTL DEF Spec
=============================================================================
