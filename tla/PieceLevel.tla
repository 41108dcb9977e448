---------------------------- MODULE PieceLevel ----------------------------
(***************************************************************************)
(* Reads of part of an item through torrents of its pieces                 *)
(* (PieceLevelTorrentManager, HttpPieceInfoServer).                        *)
(*                                                                         *)
(* To read from an item a host needs the item's torrent, which it writes   *)
(* to its torrents; then the torrent of the piece, which it writes under   *)
(* the piece's name, and then gets the piece like any other item.  A host  *)
(* that is asked for the torrent of a piece makes the piece and publishes  *)
(* it.  How items are got and published is in BitTorrentManager; here that *)
(* is a step, and torrent files are written in one, too.                   *)
(***************************************************************************)
CONSTANTS
    Hosts, Threads,
    HostOf,     \* HostOf[t]: the host that thread t runs on
    Seeders,    \* the hosts that have the item from the start
    Pieces,     \* the names of the pieces
    Item,       \* the name of the item, which is not one of a piece
    None

Names == Pieces \cup {Item}

VARIABLES
    torrentFile,    \* torrentFile[h][n]: what the torrent stored under n is the torrent of
    data,           \* data[h]: the names in Downloads
    call            \* call[t]: the read of thread t: its pc, piece and the torrent it has

vars == <<torrentFile, data, call>>

----------------------------------------------------------------------------
Idle == [pc |-> "idle", piece |-> None, torrent |-> None, peer |-> None]

At(t, pc) == call[t].pc = pc
PieceOf(t) == call[t].piece
TorrentAt(t, n) == torrentFile[HostOf[t]][n]

Goto(t, pc) == call' = [call EXCEPT ![t] = [call[t] EXCEPT !.pc = pc]]
Ends(t) == call' = [call EXCEPT ![t] = Idle]
Has(t, torrent, pc) == call' = [call EXCEPT ![t] = [call[t] EXCEPT !.pc = pc, !.torrent = torrent]]
Store(h, n, torrent) == torrentFile' = [torrentFile EXCEPT ![h][n] = torrent]

(* ReadOrDownloadTorrent gives the torrent stored under a name; another host's, which is *)
(* stored then, if there is none.                                                        *)
CanReadOrDownload(t, n, torrent) ==
    \/ TorrentAt(t, n) = torrent /\ torrent # None
    \/ TorrentAt(t, n) = None /\ torrent # None /\ \E h \in Hosts : torrentFile[h][n] = torrent

Init ==
    /\ torrentFile = [h \in Hosts |-> [n \in Names |-> IF h \in Seeders /\ n = Item THEN Item ELSE None]]
    /\ data = [h \in Hosts |-> IF h \in Seeders THEN {Item} ELSE {}]
    /\ call = [t \in Threads |-> Idle]

GetDataBlock(t, i) ==
    /\ At(t, "idle")
    /\ call' = [call EXCEPT ![t] = [Idle EXCEPT !.pc = "item", !.piece = i]]
    /\ UNCHANGED <<torrentFile, data>>

ReadItemTorrent(t) ==
    /\ At(t, "item")
    /\ \/ /\ CanReadOrDownload(t, Item, Item)
          /\ Store(HostOf[t], Item, Item)
          /\ Goto(t, "look")
       \/ Ends(t) /\ UNCHANGED torrentFile
    /\ UNCHANGED data

(* A piece that is there is read, even while it is being written. *)
LookForPiece(t) ==
    /\ At(t, "look")
    /\ IF PieceOf(t) \in data[HostOf[t]] THEN Ends(t) ELSE Goto(t, "piece")
    /\ UNCHANGED <<torrentFile, data>>

(* DownloadPieceTorrent passes the name of the item, not that of the piece. *)
DownloadPieceTorrent(t) ==
    /\ At(t, "piece")
    /\ \/ \E torrent \in Names :
            /\ CanReadOrDownload(t, Item, torrent)
            /\ Store(HostOf[t], Item, torrent)
            /\ Has(t, torrent, "write")
       \/ /\ TorrentAt(t, Item) = None      \* then the dictionary has failed
          /\ Goto(t, "peers")
          /\ UNCHANGED torrentFile
    /\ UNCHANGED data

(* The peer's ServePiece: a stored torrent means that the piece is served already;       *)
(* otherwise it writes the piece, and publishes it.                                      *)
AskPeer(t, h) ==
    /\ At(t, "peers")
    /\ Item \in data[h]
    /\ IF torrentFile[h][PieceOf(t)] # None
       THEN Has(t, torrentFile[h][PieceOf(t)], "write") /\ UNCHANGED data
       ELSE /\ data' = [data EXCEPT ![h] = data[h] \cup {PieceOf(t)}]
            /\ call' = [call EXCEPT ![t] = [call[t] EXCEPT !.pc = "publish", !.peer = h]]
    /\ UNCHANGED torrentFile

UpdateData(t) ==
    /\ At(t, "publish")
    /\ Store(call[t].peer, PieceOf(t), PieceOf(t))
    /\ Has(t, PieceOf(t), "write")
    /\ UNCHANGED data

NoPeer(t) ==
    /\ At(t, "peers")
    /\ Ends(t)
    /\ UNCHANGED <<torrentFile, data>>

WriteTorrentFile(t) ==
    /\ At(t, "write")
    /\ Store(HostOf[t], PieceOf(t), call[t].torrent)
    /\ Goto(t, "get")
    /\ UNCHANGED data

(* The piece is got by its torrent, and what that describes is then in Downloads. *)
GetData(t) ==
    /\ At(t, "get")
    /\ \/ data' = [data EXCEPT ![HostOf[t]] = data[HostOf[t]] \cup {TorrentAt(t, PieceOf(t))}]
       \/ UNCHANGED data
    /\ Ends(t)
    /\ UNCHANGED torrentFile

Next ==
    \E t \in Threads :
        \/ \E i \in Pieces : GetDataBlock(t, i)
        \/ ReadItemTorrent(t) \/ LookForPiece(t) \/ DownloadPieceTorrent(t)
        \/ \E h \in Hosts : AskPeer(t, h)
        \/ UpdateData(t) \/ NoPeer(t) \/ WriteTorrentFile(t) \/ GetData(t)

Spec == Init /\ [][Next]_vars

----------------------------------------------------------------------------
(* "Downloads the torrent of the piece and write it": the torrent that is stored under   *)
(* the name of a piece is the torrent of that piece, and so what a read gets is the      *)
(* piece and no more.                                                                    *)
PieceTorrentIsOfPiece ==
    \A h \in Hosts, i \in Pieces : torrentFile[h][i] \in {None, i}
===========================================================================
