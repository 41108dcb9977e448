------------------------ MODULE OnDemandRead_proofs ------------------------
(***************************************************************************)
(* Reads that wait for the engine implement VirtualDisk, and a read that   *)
(* was woken in time is answered, for any number of readers and pieces and *)
(* any read lists.                                                         *)
(***************************************************************************)
EXTENDS OnDemandRead, SequenceTheorems, TLAPS

----------------------------------------------------------------------------
(* Types *)

LEMMA ListIsRange ==
  ASSUME NEW R \in Read
  PROVE  /\ R.list \in Seq(Pieces)
         /\ DOMAIN R.list = 1 .. Len(R.list)
         /\ DOMAIN R.list \subseteq Nat
         /\ \A i \in DOMAIN R.list : R.list[i] \in Pieces
<1>1. R.list \in ReadLists \cup {<<>>}
  BY DEF Read
<1>2. <<>> \in Seq(Pieces)
  OBVIOUS
<1>3. R.list \in Seq(Pieces)
  BY <1>1, <1>2, PiecesAssumption
<1>4. QED
  BY <1>3

\* A thread's step replaces the locals of its own read.
LEMMA OneReadChanges ==
  ASSUME TypeOK, NEW r \in Readers, NEW R \in Read, read' = [read EXCEPT ![r] = R]
  PROVE  read' \in [Readers -> Read] /\ read'[r] = R /\ \A s \in Readers \ {r} : read'[s] = read[s]
BY DEF TypeOK

LEMMA PiecesOfType ==
  ASSUME TypeOK, NEW r \in Readers, NEW S \in SUBSET DOMAIN read[r].list
  PROVE  PiecesOf(r, S) \in SUBSET Pieces
<1>1. read[r] \in Read
  BY DEF TypeOK
<1>2. QED
  BY <1>1, ListIsRange DEF PiecesOf

LEMMA RaiseType ==
  ASSUME TypeOK, NEW p \in Pieces, NEW h \in {"passed", "failed"}, Raise(p, h)
  PROVE  calls' \in [Readers -> SUBSET EventCall]
<1>1. [piece |-> p, hash |-> h, at |-> "queued"] \in EventCall
  BY DEF EventCall
<1>2. QED
  BY <1>1 DEF Raise, TypeOK

LEMMA NoReadType == NoRead \in Read
BY DEF NoRead, Read, Pcs

----------------------------------------------------------------------------
(* The invariant *)

\* Items whose result is not there yet.
Unread(R) ==
  IF R.pc = "read" THEN R.todo \cup R.failedItems
  ELSE IF R.pc = "reread" THEN R.todo \cup R.newFailed
  ELSE IF R.pc = "answered" THEN {} ELSE R.failedItems

\* What the locals R of a read have to do with the pieces on the disk and those the
\* picker was asked for: every item is read or accounted for, and what the read waits
\* for is on the disk, or still in pieces2Request and asked for.
Sound(R, disk, asked) ==
  /\ R.todo \cup R.failedItems \cup R.newFailed \subseteq DOMAIN R.list
  /\ R.newFailed \subseteq R.failedItems
  /\ R.pc = "lookup" => R.failedItems = {}
  /\ R.pc \in {"lookup", "read", "request", "wait", "detach"} => R.newFailed = {}
  /\ R.pc = "reread" => R.todo \subseteq R.failedItems
  /\ R.pc \in {"read", "request", "wait", "detach", "reread", "answered"} =>
       /\ DOMAIN R.readResults = DOMAIN R.list
       /\ \A i \in DOMAIN R.list \ Unread(R) :
            R.readResults[i] = R.list[i] /\ R.list[i] \in disk
  /\ R.waited = "in time" =>
       /\ R.pc \in {"detach", "reread", "answered"}
       /\ R.newFailed = {}
       /\ \A i \in R.failedItems : R.list[i] \in disk
  /\ R.pc \in {"wait", "detach"} =>
       \A i \in R.failedItems : R.list[i] \in disk \cup R.pieces2Request
  /\ R.pc = "wait" => \A i \in R.failedItems : R.list[i] \in disk \cup asked

\* The delegate runs only for a read that is waiting, a passed hash is that of a piece
\* on the disk, and the handle is set only when the read misses nothing any more.
Woken(r) ==
  /\ \A c \in calls[r] : c.hash = "passed" \/ c.at = "removing" => c.piece \in readable
  /\ calls[r] # {} => read[r].pc \in {"wait", "detach"}
  /\ r \in wh =>
       /\ read[r].pc \in {"wait", "detach"}
       /\ \A i \in read[r].failedItems : read[r].list[i] \in readable

Inv == TypeOK /\ \A r \in Readers : Sound(read[r], readable, onDemand) /\ Woken(r)

LEMMA StaysSound ==
  ASSUME NEW R, NEW d1, NEW a1, NEW d2, NEW a2,
         Sound(R, d1, a1), d1 \subseteq d2, a1 \subseteq a2 \cup d2
  PROVE  Sound(R, d2, a2)
BY DEF Sound, Unread

LEMMA InitInv == Init => Inv
<1> SUFFICES ASSUME Init PROVE Inv
  OBVIOUS
<1>1. TypeOK
  BY NoReadType DEF Init, TypeOK
<1>2. ASSUME NEW r \in Readers PROVE Sound(read[r], readable, onDemand) /\ Woken(r)
  BY <1>2 DEF Init, NoRead, Sound, Woken
<1>3. QED
  BY <1>1, <1>2 DEF Inv

\* A step of one thread that leaves engine, events and other reads alone.
LEMMA ThreadKeepsInv ==
  ASSUME Inv, NEW r \in Readers, NEW R \in Read,
         read' = [read EXCEPT ![r] = R], Sound(R, readable, onDemand'),
         UNCHANGED <<manager, readable, unhashed>>,
         onDemand \subseteq onDemand', onDemand' \in SUBSET Pieces,
         wh' \in SUBSET wh, calls' = [calls EXCEPT ![r] = calls'[r]],
         calls'[r] \in SUBSET calls[r],
         calls'[r] # {} => R.pc \in {"wait", "detach"},
         r \in wh' => /\ R.pc \in {"wait", "detach"}
                      /\ \A i \in R.failedItems : R.list[i] \in readable,
         \A s \in Readers \ {r} : s \in wh' <=> s \in wh
  PROVE  Inv'
<1>1. /\ read' \in [Readers -> Read] /\ read'[r] = R
      /\ \A s \in Readers \ {r} : read'[s] = read[s]
  BY OneReadChanges DEF Inv
<1>2. calls' \in [Readers -> SUBSET EventCall] /\ \A s \in Readers \ {r} : calls'[s] = calls[s]
  BY DEF Inv, TypeOK
<1>3. TypeOK'
  BY <1>1, <1>2 DEF Inv, TypeOK
<1>4. ASSUME NEW s \in Readers PROVE Sound(read'[s], readable, onDemand')
  <2>1. CASE s = r
    BY <2>1, <1>1
  <2>2. CASE s # r
    <3>1. Sound(read[s], readable, onDemand)
      BY DEF Inv
    <3>2. Sound(read[s], readable, onDemand')
      BY <3>1, StaysSound
    <3>3. QED
      BY <3>2, <2>2, <1>1
  <2>3. QED
    BY <2>1, <2>2
<1>5. ASSUME NEW s \in Readers PROVE Woken(s)'
  <2>1. Woken(s)
    BY DEF Inv
  <2>2. CASE s = r
    BY <2>1, <2>2, <1>1 DEF Woken
  <2>3. CASE s # r
    BY <2>1, <2>3, <1>1, <1>2 DEF Woken
  <2>4. QED
    BY <2>2, <2>3
<1>6. QED
  BY <1>3, <1>4, <1>5 DEF Inv

----------------------------------------------------------------------------
(* The steps of a thread *)

LEMMA LookupFailsInv == ASSUME Inv, NEW r \in Readers, LookupFails(r) PROVE Inv'
<1> DEFINE R == [read[r] EXCEPT !.pc = "refused"]
<1>1. read[r] \in Read /\ Sound(read[r], readable, onDemand) /\ Woken(r)
  BY DEF Inv, TypeOK
<1>2. R \in Read
  BY <1>1 DEF LookupFails, Read, Pcs, At
<1>3. Sound(R, readable, onDemand)
  BY <1>1, ListIsRange DEF LookupFails, At, Read, Sound, Unread
<1>4. read' = [read EXCEPT ![r] = R]
  BY DEF LookupFails
<1> HIDE DEF R
<1>5. TypeOK
  BY DEF Inv
<1>6. QED
  BY <1>1, <1>2, <1>3, <1>4, <1>5, ThreadKeepsInv DEF LookupFails, TypeOK, R, At, Woken

LEMMA FirstReadEndsInv == ASSUME Inv, NEW r \in Readers, FirstReadEnds(r) PROVE Inv'
<1> DEFINE R == [read[r] EXCEPT !.pc = "request"]
<1>1. read[r] \in Read /\ Sound(read[r], readable, onDemand) /\ Woken(r)
  BY DEF Inv, TypeOK
<1>2. R \in Read
  BY <1>1 DEF FirstReadEnds, Read, Pcs, At
<1>3. Sound(R, readable, onDemand)
  BY <1>1, ListIsRange DEF FirstReadEnds, At, Read, Sound, Unread
<1>4. read' = [read EXCEPT ![r] = R]
  BY DEF FirstReadEnds
<1> HIDE DEF R
<1>5. TypeOK
  BY DEF Inv
<1>6. QED
  BY <1>1, <1>2, <1>3, <1>4, <1>5, ThreadKeepsInv DEF FirstReadEnds, TypeOK, R, At, Woken

LEMMA WakesInv == ASSUME Inv, NEW r \in Readers, Wakes(r) PROVE Inv'
<1> DEFINE R == [read[r] EXCEPT !.pc = "detach", !.waited = "in time"]
<1>1. read[r] \in Read /\ Sound(read[r], readable, onDemand) /\ Woken(r)
  BY DEF Inv, TypeOK
<1>2. R \in Read
  BY <1>1 DEF Wakes, Read, Pcs, At
<1>3. Sound(R, readable, onDemand)
  BY <1>1, ListIsRange DEF Wakes, At, Read, Sound, Unread, Woken
<1>4. read' = [read EXCEPT ![r] = R]
  BY DEF Wakes
<1>5. R.pc = "detach" /\ R.list = read[r].list /\ R.failedItems = read[r].failedItems
  BY <1>1 DEF Read
<1> HIDE DEF R
<1>6. TypeOK
  BY DEF Inv
<1>7. QED
  BY <1>1, <1>2, <1>3, <1>4, <1>5, <1>6, ThreadKeepsInv DEF Wakes, TypeOK, At, Woken

LEMMA TimesOutInv == ASSUME Inv, NEW r \in Readers, TimesOut(r) PROVE Inv'
<1> DEFINE R == [read[r] EXCEPT !.pc = "detach", !.waited = "late"]
<1>1. read[r] \in Read /\ Sound(read[r], readable, onDemand) /\ Woken(r)
  BY DEF Inv, TypeOK
<1>2. R \in Read
  BY <1>1 DEF TimesOut, Read, Pcs, At
<1>3. Sound(R, readable, onDemand)
  BY <1>1, ListIsRange DEF TimesOut, At, Read, Sound, Unread
<1>4. read' = [read EXCEPT ![r] = R]
  BY DEF TimesOut
<1>5. R.pc = "detach" /\ R.list = read[r].list /\ R.failedItems = read[r].failedItems
  BY <1>1 DEF Read
<1> HIDE DEF R
<1>6. TypeOK
  BY DEF Inv
<1>7. QED
  BY <1>1, <1>2, <1>3, <1>4, <1>5, <1>6, ThreadKeepsInv DEF TimesOut, TypeOK, At, Woken

LEMMA DetachInv == ASSUME Inv, NEW r \in Readers, Detach(r) PROVE Inv'
<1> DEFINE R == [read[r] EXCEPT
                !.pc = "reread", !.todo = read[r].failedItems, !.pieces2Request = {}]
<1>1. read[r] \in Read /\ Sound(read[r], readable, onDemand) /\ Woken(r)
  BY DEF Inv, TypeOK
<1>2. R \in Read
  BY <1>1 DEF Detach, Read, Pcs, At
<1>3. Sound(R, readable, onDemand)
  BY <1>1, ListIsRange DEF Detach, At, Read, Sound, Unread
<1>4. read' = [read EXCEPT ![r] = R]
  BY DEF Detach
<1> HIDE DEF R
<1>5. TypeOK
  BY DEF Inv
<1>6. QED
  BY <1>1, <1>2, <1>3, <1>4, <1>5, ThreadKeepsInv DEF Detach, TypeOK, R, At, Woken

LEMMA ReplyInv == ASSUME Inv, NEW r \in Readers, Reply(r) PROVE Inv'
<1> DEFINE R == [read[r] EXCEPT
                !.pc = IF read[r].newFailed = {} THEN "answered" ELSE "refused"]
<1>1. read[r] \in Read /\ Sound(read[r], readable, onDemand) /\ Woken(r)
  BY DEF Inv, TypeOK
<1>2. R \in Read
  BY <1>1 DEF Reply, Read, Pcs, At
<1>3. Sound(R, readable, onDemand)
  BY <1>1, ListIsRange DEF Reply, At, Read, Sound, Unread
<1>4. read' = [read EXCEPT ![r] = R]
  BY DEF Reply
<1> HIDE DEF R
<1>5. TypeOK
  BY DEF Inv
<1>6. QED
  BY <1>1, <1>2, <1>3, <1>4, <1>5, ThreadKeepsInv DEF Reply, TypeOK, R, At, Woken

LEMMA TakeReplyInv == ASSUME Inv, NEW r \in Readers, TakeReply(r) PROVE Inv'
<1> DEFINE R == NoRead
<1>1. read[r] \in Read /\ Sound(read[r], readable, onDemand) /\ Woken(r)
  BY DEF Inv, TypeOK
<1>2. R \in Read
  BY <1>1, NoReadType DEF TakeReply, Read, Pcs, At
<1>3. Sound(R, readable, onDemand)
  BY <1>1, ListIsRange DEF TakeReply, At, Read, Sound, Unread, NoRead
<1>4. read' = [read EXCEPT ![r] = R]
  BY DEF TakeReply
<1> HIDE DEF R
<1>5. TypeOK
  BY DEF Inv
<1>6. QED
  BY <1>1, <1>2, <1>3, <1>4, <1>5, ThreadKeepsInv DEF TakeReply, TypeOK, R, At, Woken

LEMMA AskInv == ASSUME Inv, NEW r \in Readers, Ask(r) PROVE Inv'
<1>1. read[r] \in Read /\ Sound(read[r], readable, onDemand) /\ Woken(r)
  BY DEF Inv, TypeOK
<1>2. PICK l \in ReadLists :
        read' = [read EXCEPT ![r] = [NoRead EXCEPT !.pc = "lookup", !.list = l]]
  BY DEF Ask
<1> DEFINE R == [NoRead EXCEPT !.pc = "lookup", !.list = l]
<1>3. R \in Read
  BY NoReadType DEF Read, Pcs
<1>4. Sound(R, readable, onDemand)
  BY DEF Sound, NoRead
<1>5. R.pc = "lookup"
  BY DEF NoRead
<1>6. read' = [read EXCEPT ![r] = R]
  BY <1>2
<1> HIDE DEF R
<1>7. TypeOK
  BY DEF Inv
<1>8. QED
  BY <1>1, <1>3, <1>4, <1>6, <1>7, ThreadKeepsInv DEF Ask, TypeOK, At, Woken

LEMMA LookupInv == ASSUME Inv, NEW r \in Readers, Lookup(r) PROVE Inv'
<1> DEFINE items == DOMAIN read[r].list
           R == [read[r] EXCEPT
                   !.pc = "read", !.todo = items, !.readResults = [i \in items |-> NoBytes]]
<1>1. read[r] \in Read /\ Sound(read[r], readable, onDemand) /\ Woken(r)
  BY DEF Inv, TypeOK
<1>2. [i \in items |-> NoBytes] \in Seq(Pieces \cup {NoBytes})
  BY <1>1, ListIsRange
<1>3. R \in Read
  BY <1>1, <1>2, ListIsRange DEF Read, Pcs
<1>4. Sound(R, readable, onDemand)
  BY <1>1, ListIsRange DEF Lookup, At, Read, Sound, Unread
<1>5. read' = [read EXCEPT ![r] = R]
  BY DEF Lookup
<1> HIDE DEF R
<1>6. TypeOK
  BY DEF Inv
<1>7. QED
  BY <1>1, <1>3, <1>4, <1>5, <1>6, ThreadKeepsInv DEF Lookup, TypeOK, At, Woken

LEMMA RequestInv == ASSUME Inv, NEW r \in Readers, Request(r) PROVE Inv'
<1> DEFINE pieces == PiecesOf(r, read[r].failedItems)
           R == [read[r] EXCEPT !.pc = "wait", !.pieces2Request = pieces]
<1>1. read[r] \in Read /\ Sound(read[r], readable, onDemand) /\ Woken(r) /\ TypeOK
  BY DEF Inv, TypeOK
<1>2. pieces \in SUBSET Pieces
  BY <1>1, PiecesOfType DEF Sound
<1>3. R \in Read
  BY <1>1, <1>2 DEF Read, Pcs
<1>4. \A i \in read[r].failedItems : read[r].list[i] \in pieces
  BY DEF PiecesOf
<1>5. read' = [read EXCEPT ![r] = R] /\ onDemand' = onDemand \cup pieces
  BY DEF Request
<1> HIDE DEF pieces
<1>6. Sound(R, readable, onDemand')
  BY <1>1, <1>4, <1>5 DEF Request, At, Read, Sound, Unread
<1> HIDE DEF R
<1>7. QED
  BY <1>1, <1>2, <1>3, <1>5, <1>6, ThreadKeepsInv DEF Request, TypeOK, At, Woken

LEMMA ReadSucceedsInv == ASSUME Inv, NEW r \in Readers, ReadSucceeds(r) PROVE Inv'
<1>1. read[r] \in Read /\ Sound(read[r], readable, onDemand) /\ Woken(r)
  BY DEF Inv, TypeOK
<1>2. PICK i \in DOMAIN read[r].list :
        /\ Queued(r, i)
        /\ read[r].list[i] \in readable
        /\ read' = [read EXCEPT ![r] = [read[r] EXCEPT
                      !.todo = @ \ {i},
                      !.readResults = [@ EXCEPT ![i] = read[r].list[i]]]]
  BY DEF ReadSucceeds
<1> DEFINE results == [read[r].readResults EXCEPT ![i] = read[r].list[i]]
           R == [read[r] EXCEPT !.todo = @ \ {i}, !.readResults = results]
<1>3. /\ read[r].pc \in {"read", "reread"} /\ i \in read[r].todo
      /\ DOMAIN read[r].readResults = DOMAIN read[r].list
  BY <1>1, <1>2 DEF Queued, Sound
<1>4. results \in Seq(Pieces \cup {NoBytes})
  <2>1. read[r].readResults \in Seq(Pieces \cup {NoBytes})
    BY <1>1 DEF Read
  <2>2. read[r].list[i] \in Pieces \cup {NoBytes}
    BY <1>1, ListIsRange
  <2>3. i \in 1 .. Len(read[r].readResults)
    BY <1>3, <2>1
  <2>4. QED
    BY <2>1, <2>2, <2>3, ExceptSeq
<1>5. /\ DOMAIN results = DOMAIN read[r].list
      /\ results[i] = read[r].list[i]
      /\ \A j \in DOMAIN read[r].list \ {i} : results[j] = read[r].readResults[j]
  BY <1>2, <1>3
<1>6. read' = [read EXCEPT ![r] = R]
  BY <1>2
<1> HIDE DEF results
<1>7. R \in Read
  BY <1>1, <1>4 DEF Read
<1>8. Sound(R, readable, onDemand)
  <2>1. /\ R.pc = read[r].pc /\ R.list = read[r].list /\ R.todo = read[r].todo \ {i}
        /\ R.failedItems = read[r].failedItems /\ R.newFailed = read[r].newFailed
        /\ R.readResults = results /\ R.waited = read[r].waited
    BY <1>1 DEF Read
  <2> HIDE DEF R
  <2>2. CASE read[r].pc = "read"
    BY <1>1, <1>2, <1>3, <1>5, <2>1, <2>2 DEF Sound, Unread
  <2>3. CASE read[r].pc = "reread"
    BY <1>1, <1>2, <1>3, <1>5, <2>1, <2>3 DEF Sound, Unread
  <2>4. QED
    BY <1>3, <2>2, <2>3
<1> HIDE DEF R
<1>9. TypeOK
  BY DEF Inv
<1>10. QED
  BY <1>1, <1>3, <1>6, <1>7, <1>8, <1>9, ThreadKeepsInv DEF ReadSucceeds, TypeOK, Woken

LEMMA ReadFailsInv == ASSUME Inv, NEW r \in Readers, ReadFails(r) PROVE Inv'
<1>1. read[r] \in Read /\ Sound(read[r], readable, onDemand) /\ Woken(r)
  BY DEF Inv, TypeOK
<1>2. PICK i \in DOMAIN read[r].list :
        /\ Queued(r, i)
        /\ read[r].list[i] \notin readable
        /\ read' = [read EXCEPT ![r] =
                      IF At(r, "read")
                      THEN [read[r] EXCEPT !.todo = @ \ {i}, !.failedItems = @ \cup {i}]
                      ELSE [read[r] EXCEPT !.todo = @ \ {i}, !.newFailed = @ \cup {i}]]
  BY DEF ReadFails
<1> DEFINE R == IF read[r].pc = "read"
                THEN [read[r] EXCEPT !.todo = @ \ {i}, !.failedItems = @ \cup {i}]
                ELSE [read[r] EXCEPT !.todo = @ \ {i}, !.newFailed = @ \cup {i}]
<1>3. read[r].pc \in {"read", "reread"} /\ i \in read[r].todo
  BY <1>2 DEF Queued
<1>4. read' = [read EXCEPT ![r] = R]
  BY <1>2 DEF At
<1>5. R \in Read
  BY <1>1, <1>2, ListIsRange DEF Read
<1>6. Sound(R, readable, onDemand)
  <2>1. /\ R.pc = read[r].pc /\ R.list = read[r].list /\ R.todo = read[r].todo \ {i}
        /\ R.readResults = read[r].readResults /\ R.waited = read[r].waited
    BY <1>1 DEF Read
  <2>2. CASE read[r].pc = "read"
    <3>1. /\ R.failedItems = read[r].failedItems \cup {i} /\ R.newFailed = read[r].newFailed
      BY <1>1, <2>2 DEF Read
    <3> HIDE DEF R
    <3>2. QED
      BY <1>1, <1>2, <1>3, <2>1, <2>2, <3>1 DEF Sound, Unread
  <2>3. CASE read[r].pc = "reread"
    <3>1. /\ R.failedItems = read[r].failedItems /\ R.newFailed = read[r].newFailed \cup {i}
      BY <1>1, <2>3 DEF Read
    <3> HIDE DEF R
    <3>2. QED
      BY <1>1, <1>2, <1>3, <2>1, <2>3, <3>1 DEF Sound, Unread
  <2>4. QED
    BY <1>3, <2>2, <2>3
<1> HIDE DEF R
<1>7. TypeOK
  BY DEF Inv
<1>8. QED
  BY <1>1, <1>3, <1>4, <1>5, <1>6, <1>7, ThreadKeepsInv DEF ReadFails, TypeOK, Woken

LEMMA ThreadInv == ASSUME Inv, NEW r \in Readers, Ask(r) \/ Thread(r) \/ TakeReply(r) PROVE Inv'
BY AskInv, LookupFailsInv, LookupInv, ReadSucceedsInv, ReadFailsInv, FirstReadEndsInv,
   RequestInv, WakesInv, TimesOutInv, DetachInv, ReplyInv, TakeReplyInv DEF Thread

----------------------------------------------------------------------------
(* The steps of the engine and of the delegates *)

LEMMA DownloadInv == Inv /\ (RegisterManager \/ EnterInTable \/ StartManager) => Inv'
<1> SUFFICES ASSUME Inv, RegisterManager \/ EnterInTable \/ StartManager PROVE Inv'
  OBVIOUS
<1>1. UNCHANGED <<readable, onDemand, read, wh, calls>>
  BY DEF RegisterManager, EnterInTable, StartManager
<1>2. TypeOK'
  BY DEF Inv, TypeOK, RegisterManager, EnterInTable, StartManager
<1>3. \A r \in Readers : Woken(r)'
  BY <1>1 DEF Inv, Woken
<1>4. \A r \in Readers : Sound(read[r], readable, onDemand)'
  BY <1>1 DEF Inv
<1>5. QED
  BY <1>2, <1>3, <1>4 DEF Inv

LEMMA ReceiveInv == ASSUME Inv, NEW p \in Pieces, ReceivePiece(p) PROVE Inv'
<1>1. /\ readable' = readable \cup {p} /\ onDemand' = onDemand \ {p}
      /\ UNCHANGED <<read, wh, calls>>
  BY DEF ReceivePiece
<1>2. TypeOK'
  BY DEF Inv, TypeOK, ReceivePiece
<1>3. ASSUME NEW r \in Readers PROVE Sound(read[r], readable', onDemand')
  <2>1. Sound(read[r], readable, onDemand)
    BY DEF Inv
  <2>2. QED
    BY <1>1, <2>1, StaysSound
<1>4. ASSUME NEW r \in Readers PROVE Woken(r)'
  BY <1>1 DEF Inv, Woken
<1>5. QED
  BY <1>1, <1>2, <1>3, <1>4 DEF Inv

LEMMA RaiseInv ==
  ASSUME Inv, NEW p \in Pieces, NEW h \in {"passed", "failed"}, Raise(p, h),
         h = "passed" => p \in readable, unhashed' \in SUBSET unhashed,
         UNCHANGED <<manager, readable, onDemand, read, wh>>
  PROVE  Inv'
<1>1. TypeOK'
  BY RaiseType DEF Inv, TypeOK
<1>2. ASSUME NEW r \in Readers PROVE Woken(r)'
  <2>1. Woken(r)
    BY DEF Inv
  <2>2. \/ calls'[r] = calls[r]
        \/ /\ read[r].pc \in {"wait", "detach"}
           /\ calls'[r] = calls[r] \cup {[piece |-> p, hash |-> h, at |-> "queued"]}
    BY DEF Raise, Subscribed
  <2>3. \A c \in calls'[r] : c.hash = "passed" \/ c.at = "removing" => c.piece \in readable
    BY <2>1, <2>2 DEF Woken
  <2>4. QED
    BY <2>1, <2>2, <2>3 DEF Woken
<1>3. QED
  BY <1>1, <1>2 DEF Inv

LEMMA EngineInv == ASSUME Inv, NEW p \in Pieces, Engine(p) PROVE Inv'
<1>1. CASE HashPasses(p)
  BY <1>1, RaiseInv DEF HashPasses, Inv, TypeOK
<1>2. CASE HashFails(p)
  BY <1>2, RaiseInv DEF HashFails, Inv, TypeOK
<1>3. QED
  BY <1>1, <1>2, ReceiveInv DEF Engine

\* A delegate takes pieces on the disk from pieces2Request, and sets the handle only if
\* none is left.
LEMMA DelegateKeepsInv ==
  ASSUME Inv, NEW r \in Readers, NEW left \in SUBSET read[r].pieces2Request,
         read[r].pieces2Request \ left \subseteq readable, calls[r] # {},
         read' = [read EXCEPT ![r] = [read[r] EXCEPT !.pieces2Request = left]],
         TestAndSet(r, left),
         NEW S \in SUBSET calls[r], calls' = [calls EXCEPT ![r] = S],
         UNCHANGED <<manager, readable, unhashed, onDemand>>
  PROVE  Inv'
<1> DEFINE R == [read[r] EXCEPT !.pieces2Request = left]
<1>1. read[r] \in Read /\ Sound(read[r], readable, onDemand) /\ Woken(r) /\ TypeOK
  BY DEF Inv, TypeOK
<1>2. /\ R \in Read /\ R.pc = read[r].pc /\ R.list = read[r].list
      /\ R.failedItems = read[r].failedItems /\ R.pieces2Request = left
  BY <1>1 DEF Read
<1>3. Sound(R, readable, onDemand)
  BY <1>1 DEF Sound, Unread, Read
<1>4. read' = [read EXCEPT ![r] = R]
  OBVIOUS
<1> HIDE DEF R
<1>5. /\ read' \in [Readers -> Read] /\ read'[r] = R
      /\ \A s \in Readers \ {r} : read'[s] = read[s]
  BY <1>1, <1>2, <1>4, OneReadChanges
<1>6. /\ calls' \in [Readers -> SUBSET EventCall] /\ calls'[r] = S
      /\ \A s \in Readers \ {r} : calls'[s] = calls[s]
  BY <1>1 DEF TypeOK
<1>7. TypeOK'
  BY <1>1, <1>5, <1>6 DEF TypeOK, TestAndSet
<1>8. \A s \in Readers : Sound(read'[s], readable, onDemand)
  BY <1>3, <1>5 DEF Inv
<1>9. Woken(r)'
  <2>1. left = {} => \A i \in R.failedItems : R.list[i] \in readable
    BY <1>1, <1>2, <1>3 DEF Woken, Sound
  <2>2. QED
    BY <1>1, <1>2, <1>5, <1>6, <2>1 DEF Woken, TestAndSet
<1>10. \A s \in Readers \ {r} : Woken(s)'
  BY <1>5, <1>6 DEF Inv, Woken, TestAndSet
<1>11. QED
  BY <1>7, <1>8, <1>9, <1>10 DEF Inv

LEMMA EventInv == ASSUME Inv, NEW r \in Readers, Event(r) PROVE Inv'
<1>1. read[r] \in Read /\ Woken(r) /\ TypeOK /\ calls[r] \in SUBSET EventCall
  BY DEF Inv, TypeOK
<1>2. CASE BeginRemove(r)
  <2>1. PICK c \in calls[r] :
          /\ c.hash = "passed"
          /\ calls' = [calls EXCEPT ![r] = (calls[r] \ {c}) \cup {[c EXCEPT !.at = "removing"]}]
    BY <1>2 DEF BeginRemove
  <2>2. c \in EventCall
    BY <1>1
  <2> DEFINE d == [c EXCEPT !.at = "removing"]
  <2>3. d \in EventCall /\ d.hash = "passed" /\ d.piece = c.piece
    BY <2>1, <2>2 DEF EventCall
  <2> HIDE DEF d
  <2>4. calls' = [calls EXCEPT ![r] = (calls[r] \ {c}) \cup {d}]
    BY <2>1 DEF d
  <2>5. /\ calls' \in [Readers -> SUBSET EventCall]
        /\ calls'[r] = (calls[r] \ {c}) \cup {d}
        /\ \A s \in Readers \ {r} : calls'[s] = calls[s]
    BY <1>1, <2>3, <2>4 DEF TypeOK
  <2>6. TypeOK'
    BY <1>1, <1>2, <2>5 DEF TypeOK, BeginRemove
  <2>7. \A s \in Readers : Woken(s)'
    BY <1>1, <1>2, <2>1, <2>3, <2>5 DEF Inv, Woken, BeginRemove
  <2>8. QED
    BY <1>2, <2>6, <2>7 DEF Inv, BeginRemove
<1>3. CASE EndRemove(r)
  <2>1. PICK c \in calls[r] :
          /\ c.at = "removing"
          /\ calls' = [calls EXCEPT ![r] = calls[r] \ {c}]
          /\ \E left \in {read[r].pieces2Request \ {c.piece}, read[r].pieces2Request} :
               /\ read' = [read EXCEPT ![r].pieces2Request = left]
               /\ TestAndSet(r, left)
    BY <1>3 DEF EndRemove
  <2>2. PICK left \in {read[r].pieces2Request \ {c.piece}, read[r].pieces2Request} :
          read' = [read EXCEPT ![r] = [read[r] EXCEPT !.pieces2Request = left]] /\ TestAndSet(r, left)
    BY <2>1
  <2>3. c.piece \in readable
    BY <1>1, <2>1 DEF Woken
  <2>4. QED
    BY <1>1, <1>3, <2>1, <2>2, <2>3, DelegateKeepsInv DEF EndRemove
<1>4. CASE HandleFailed(r)
  <2>1. PICK c \in calls[r] : calls' = [calls EXCEPT ![r] = calls[r] \ {c}]
    BY <1>4 DEF HandleFailed
  <2>2. read' = [read EXCEPT ![r] = [read[r] EXCEPT !.pieces2Request = read[r].pieces2Request]]
    BY <1>1, <1>4 DEF HandleFailed, Read, TypeOK
  <2>3. QED
    BY <1>1, <1>4, <2>1, <2>2, DelegateKeepsInv DEF HandleFailed
<1>5. QED
  BY <1>2, <1>3, <1>4 DEF Event

LEMMA NextInv == Inv /\ [Next]_vars => Inv'
<1> SUFFICES ASSUME Inv, [Next]_vars PROVE Inv'
  OBVIOUS
<1>1. CASE RegisterManager \/ EnterInTable \/ StartManager
  BY <1>1, DownloadInv
<1>2. CASE \E p \in Pieces : Engine(p)
  BY <1>2, EngineInv
<1>3. CASE \E r \in Readers : Ask(r) \/ Thread(r) \/ TakeReply(r)
  BY <1>3, ThreadInv
<1>4. CASE \E r \in Readers : Event(r)
  BY <1>4, EventInv
<1>5. CASE UNCHANGED vars
  BY <1>5 DEF Inv, TypeOK, Woken, vars
<1>6. QED
  BY <1>1, <1>2, <1>3, <1>4, <1>5 DEF Next

LEMMA AlwaysInv == Spec => []Inv
<1>1. QED
  BY InitInv, NextInv, PTL DEF Spec

----------------------------------------------------------------------------
\* The locals of every read and the events under way keep the shape the code gives them.
THEOREM TypeCorrect == Spec => []TypeOK
<1>1. Inv => TypeOK
  BY DEF Inv
<1>2. QED
  BY <1>1, AlwaysInv, PTL

\* A read that is told in time that its pieces have come is answered, never refused:
\* no order of events, timeouts, failed hashes and lost removals wakes it too early.
THEOREM WokenReadsAreAnswered == Spec => []InTimeIsAnswered
<1>1. Inv => InTimeIsAnswered
  BY DEF Inv, InTimeIsAnswered, Sound, At
<1>2. QED
  BY <1>1, AlwaysInv, PTL

\* Whatever a waiting read misses has come or stands on the picker's list.
THEOREM WaitedForIsDemanded == Spec => []MissingIsDemanded
<1>1. ASSUME Inv, NEW r \in Readers, At(r, "wait")
      PROVE  PiecesOf(r, read[r].failedItems) \subseteq readable \cup onDemand
  <2>1. \A i \in read[r].failedItems : read[r].list[i] \in readable \cup onDemand
    BY <1>1 DEF Inv, Sound, At
  <2>2. QED
    BY <2>1 DEF PiecesOf
<1>2. Inv => MissingIsDemanded
  BY <1>1 DEF MissingIsDemanded
<1>3. QED
  BY <1>2, AlwaysInv, PTL

----------------------------------------------------------------------------
(* Reads implement VirtualDisk *)

\* CallOf, of the locals of a read.
StateIn(R) ==
  IF R.pc = "idle" THEN "none"
  ELSE IF R.pc = "answered" THEN "answered"
  ELSE IF R.pc = "refused" THEN "refused"
  ELSE IF R.failedItems = {} THEN "asked" ELSE "excused"

CallIn(R) ==
  [state |-> StateIn(R),
   list  |-> R.list,
   data  |-> IF R.pc = "answered" THEN R.readResults ELSE <<>>]

Call == [r \in Readers |-> CallOf(r)]

LEMMA CallIsCallIn == \A r \in Readers : CallOf(r) = CallIn(read[r])
BY DEF CallOf, CallIn, StateOf, StateIn, At

LEMMA CallChanges ==
  ASSUME TypeOK, NEW r \in Readers, NEW R \in Read, read' = [read EXCEPT ![r] = R]
  PROVE  Call' = [Call EXCEPT ![r] = CallIn(R)]
<1>1. read'[r] = R /\ \A s \in Readers \ {r} : read'[s] = read[s]
  BY OneReadChanges
<1>2. CallOf(r)' = CallIn(R)
  BY <1>1 DEF CallOf, CallIn, StateOf, StateIn, At
<1>3. ASSUME NEW s \in Readers \ {r} PROVE CallOf(s)' = CallOf(s)
  BY <1>1 DEF CallOf, StateOf, At
<1>4. QED
  BY <1>2, <1>3 DEF Call

LEMMA CallStays ==
  ASSUME TypeOK, NEW r \in Readers, NEW R \in Read, read' = [read EXCEPT ![r] = R],
         CallIn(R) = CallIn(read[r]), UNCHANGED <<manager, readable>>
  PROVE  UNCHANGED Disk!vars
<1>1. Call' = Call
  BY CallChanges, CallIsCallIn DEF Call
<1>2. QED
  BY <1>1 DEF Disk!vars, Call, Listed

LEMMA InitRefines == Init => Disk!Init
<1> SUFFICES ASSUME Init PROVE Disk!Init
  OBVIOUS
<1>1. \A r \in Readers : CallOf(r) = Disk!None
  BY DEF Init, NoRead, CallOf, StateOf, At, Disk!None
<1>2. QED
  BY <1>1 DEF Init, Disk!Init, Listed

LEMMA OwnRead ==
  ASSUME TypeOK, NEW r \in Readers, NEW R, read' = [read EXCEPT ![r] = R]
  PROVE  read'[r] = R /\ read' = [read EXCEPT ![r] = read'[r]]
<1>1. read'[r] = R
  BY DEF TypeOK
<1>2. QED
  BY <1>1

LEMMA StuttersRefine ==
  ASSUME Inv, NEW r \in Readers,
         Lookup(r) \/ ReadSucceeds(r) \/ FirstReadEnds(r) \/ Request(r)
           \/ Wakes(r) \/ TimesOut(r) \/ Detach(r)
  PROVE  UNCHANGED Disk!vars
<1>1. read[r] \in Read /\ TypeOK /\ Inv'
  BY ThreadInv DEF Inv, TypeOK, Thread
<1>2. read' \in [Readers -> Read]
  BY <1>1 DEF Inv, TypeOK
<1> DEFINE R == read'[r]
<1>3. /\ R.list = read[r].list
      /\ R.pc \notin {"idle", "answered", "refused"}
      /\ R.failedItems = read[r].failedItems
      /\ read' = [read EXCEPT ![r] = R]
  <2>1. CASE Lookup(r)
    BY <1>1, <1>2, <2>1 DEF Lookup, Read, TypeOK
  <2>2. CASE FirstReadEnds(r)
    <3> DEFINE S == [read[r] EXCEPT !.pc = "request"]
    <3>1. read' = [read EXCEPT ![r] = S]
      BY <2>2 DEF FirstReadEnds
    <3>2. /\ S.list = read[r].list /\ S.failedItems = read[r].failedItems
          /\ S.pc \notin {"idle", "answered", "refused"}
      BY <1>1 DEF Read
    <3> HIDE DEF S
    <3>3. QED
      BY <1>1, <3>1, <3>2, OwnRead
  <2>3. CASE Request(r)
    <3> DEFINE S == [read[r] EXCEPT !.pc = "wait", !.pieces2Request = PiecesOf(r, read[r].failedItems)]
    <3>1. read' = [read EXCEPT ![r] = S]
      BY <2>3 DEF Request
    <3>2. /\ S.list = read[r].list /\ S.failedItems = read[r].failedItems
          /\ S.pc \notin {"idle", "answered", "refused"}
      BY <1>1 DEF Read
    <3> HIDE DEF S
    <3>3. QED
      BY <1>1, <3>1, <3>2, OwnRead
  <2>4. CASE Wakes(r)
    <3> DEFINE S == [read[r] EXCEPT !.pc = "detach", !.waited = "in time"]
    <3>1. read' = [read EXCEPT ![r] = S]
      BY <2>4 DEF Wakes
    <3>2. /\ S.list = read[r].list /\ S.failedItems = read[r].failedItems
          /\ S.pc \notin {"idle", "answered", "refused"}
      BY <1>1 DEF Read
    <3> HIDE DEF S
    <3>3. QED
      BY <1>1, <3>1, <3>2, OwnRead
  <2>5. CASE TimesOut(r)
    <3> DEFINE S == [read[r] EXCEPT !.pc = "detach", !.waited = "late"]
    <3>1. read' = [read EXCEPT ![r] = S]
      BY <2>5 DEF TimesOut
    <3>2. /\ S.list = read[r].list /\ S.failedItems = read[r].failedItems
          /\ S.pc \notin {"idle", "answered", "refused"}
      BY <1>1 DEF Read
    <3> HIDE DEF S
    <3>3. QED
      BY <1>1, <3>1, <3>2, OwnRead
  <2>6. CASE Detach(r)
    <3> DEFINE S == [read[r] EXCEPT 
                     !.pc = "reread", !.todo = read[r].failedItems, !.pieces2Request = {}]
    <3>1. read' = [read EXCEPT ![r] = S]
      BY <2>6 DEF Detach
    <3>2. /\ S.list = read[r].list /\ S.failedItems = read[r].failedItems
          /\ S.pc \notin {"idle", "answered", "refused"}
      BY <1>1 DEF Read
    <3> HIDE DEF S
    <3>3. QED
      BY <1>1, <3>1, <3>2, OwnRead
  <2>7. CASE ReadSucceeds(r)
    <3>1. PICK i \in DOMAIN read[r].list :
            /\ Queued(r, i)
            /\ read' = [read EXCEPT ![r] = [read[r] EXCEPT
                          !.todo = @ \ {i},
                          !.readResults = [@ EXCEPT ![i] = read[r].list[i]]]]
      BY <2>7 DEF ReadSucceeds
    <3> DEFINE results == [read[r].readResults EXCEPT ![i] = read[r].list[i]]
               S == [read[r] EXCEPT !.todo = @ \ {i}, !.readResults = results]
    <3>2. read' = [read EXCEPT ![r] = S]
      BY <3>1
    <3> HIDE DEF results
    <3>3. /\ S.list = read[r].list /\ S.failedItems = read[r].failedItems
          /\ S.pc \notin {"idle", "answered", "refused"}
      BY <1>1, <3>1 DEF Read, Queued
    <3> HIDE DEF S
    <3>4. QED
      BY <1>1, <3>2, <3>3, OwnRead
  <2>8. QED
    BY <2>1, <2>2, <2>3, <2>4, <2>5, <2>6, <2>7
<1>4. R \in Read
  BY <1>2
<1> HIDE DEF R
<1>5. read[r].pc \notin {"idle", "answered", "refused"}
  BY DEF Lookup, ReadSucceeds, Queued, FirstReadEnds, Request, Wakes, TimesOut, Detach, At
<1>6. CallIn(R) = CallIn(read[r])
  BY <1>3, <1>5 DEF CallIn, StateIn
<1>7. UNCHANGED <<manager, readable>>
  BY DEF Lookup, ReadSucceeds, FirstReadEnds, Request, Wakes, TimesOut, Detach
<1>8. QED
  BY <1>1, <1>3, <1>4, <1>6, <1>7, CallStays

LEMMA DelegatesRefine == ASSUME Inv, NEW r \in Readers, Event(r) PROVE UNCHANGED Disk!vars
<1>1. read[r] \in Read /\ TypeOK
  BY DEF Inv, TypeOK
<1>2. CASE BeginRemove(r) \/ HandleFailed(r)
  BY <1>2 DEF BeginRemove, HandleFailed, Disk!vars, Listed, CallOf, StateOf, At
<1>3. CASE EndRemove(r)
  <2>1. PICK left \in SUBSET read[r].pieces2Request : read' = [read EXCEPT ![r].pieces2Request = left]
    BY <1>3 DEF EndRemove
  <2> DEFINE R == [read[r] EXCEPT !.pieces2Request = left]
  <2>2. R \in Read /\ CallIn(R) = CallIn(read[r])
    BY <1>1 DEF Read, CallIn, StateIn
  <2>3. read' = [read EXCEPT ![r] = R]
    BY <2>1
  <2> HIDE DEF R
  <2>4. QED
    BY <1>1, <1>3, <2>2, <2>3, CallStays DEF EndRemove
<1>4. QED
  BY <1>2, <1>3 DEF Event

LEMMA AskRefines == ASSUME Inv, NEW r \in Readers, Ask(r) PROVE Disk!Ask(r)
<1>1. PICK l \in ReadLists :
        read' = [read EXCEPT ![r] = [NoRead EXCEPT !.pc = "lookup", !.list = l]]
  BY DEF Ask
<1> DEFINE R == [NoRead EXCEPT !.pc = "lookup", !.list = l]
<1>2. R \in Read
  BY NoReadType DEF Read, Pcs
<1>3. CallIn(R) = [state |-> "asked", list |-> l, data |-> <<>>]
  BY DEF CallIn, StateIn, NoRead
<1>4. read' = [read EXCEPT ![r] = R]
  BY <1>1
<1> HIDE DEF R
<1>5. Call' = [Call EXCEPT ![r] = [state |-> "asked", list |-> l, data |-> <<>>]]
  BY <1>2, <1>3, <1>4, CallChanges DEF Inv
<1>6. CallOf(r).state = "none"
  BY DEF Ask, CallOf, StateOf, At
<1>7. Disk!State(r) = "none"
  BY <1>6 DEF Disk!State
<1>8. UNCHANGED <<Listed, readable>>
  BY DEF Ask, Listed
<1>9. QED
  BY <1>5, <1>7, <1>8 DEF Disk!Ask, Call

\* A step of r that changes its reply: what VirtualDisk makes of it.
LEMMA GotoRefines ==
  ASSUME TypeOK, NEW r \in Readers, NEW R \in Read, read' = [read EXCEPT ![r] = R],
         R.list = read[r].list, NEW s, NEW d, StateIn(R) = s,
         d = (IF R.pc = "answered" THEN R.readResults ELSE <<>>)
  PROVE  Disk!Goto(r, s, d)
<1>1. Call' = [Call EXCEPT ![r] = CallIn(R)]
  BY CallChanges
<1>2. Disk!List(r) = read[r].list
  BY DEF Disk!List, CallOf
<1>3. CallIn(R) = [state |-> s, list |-> Disk!List(r), data |-> d]
  BY <1>2 DEF CallIn
<1>4. QED
  BY <1>1, <1>3 DEF Disk!Goto, Call

LEMMA LookupFailsRefines == ASSUME Inv, NEW r \in Readers, LookupFails(r) PROVE Disk!Refuse(r)
<1> DEFINE R == [read[r] EXCEPT !.pc = "refused"]
<1>1. read[r] \in Read /\ Sound(read[r], readable, onDemand) /\ TypeOK
  BY DEF Inv, TypeOK
<1>2. /\ R \in Read /\ R.list = read[r].list /\ R.pc = "refused" /\ StateIn(R) = "refused"
  BY <1>1 DEF Read, Pcs, StateIn
<1>3. read' = [read EXCEPT ![r] = R]
  BY DEF LookupFails
<1> HIDE DEF R
<1>4. Disk!Goto(r, "refused", <<>>)
  BY <1>1, <1>2, <1>3, GotoRefines
<1>5. CallOf(r).state = "asked"
  BY <1>1 DEF LookupFails, CallOf, StateOf, At, Sound
<1>6. Disk!State(r) = "asked"
  BY <1>5 DEF Disk!State
<1>7. ~ Listed /\ UNCHANGED <<Listed, readable>>
  BY DEF LookupFails, Listed
<1>8. QED
  BY <1>4, <1>6, <1>7 DEF Disk!Refuse

LEMMA ReadFailsRefines ==
  ASSUME Inv, NEW r \in Readers, ReadFails(r)
  PROVE  Disk!Notice(r) \/ UNCHANGED Disk!vars
<1>1. read[r] \in Read /\ Sound(read[r], readable, onDemand) /\ TypeOK
  BY DEF Inv, TypeOK
<1>2. PICK i \in DOMAIN read[r].list :
        /\ Queued(r, i)
        /\ read[r].list[i] \notin readable
        /\ read' = [read EXCEPT ![r] =
                      IF At(r, "read")
                      THEN [read[r] EXCEPT !.todo = @ \ {i}, !.failedItems = @ \cup {i}]
                      ELSE [read[r] EXCEPT !.todo = @ \ {i}, !.newFailed = @ \cup {i}]]
  BY DEF ReadFails
<1> DEFINE R == IF read[r].pc = "read"
                THEN [read[r] EXCEPT !.todo = @ \ {i}, !.failedItems = @ \cup {i}]
                ELSE [read[r] EXCEPT !.todo = @ \ {i}, !.newFailed = @ \cup {i}]
<1>3. R.list = read[r].list /\ R.pc = read[r].pc
  BY <1>1 DEF Read
<1>4. read[r].pc \in {"read", "reread"} /\ i \in read[r].todo
  BY <1>2 DEF Queued
<1>5. R.failedItems # {} /\ (read[r].pc = "reread" => R.failedItems = read[r].failedItems)
  BY <1>1, <1>4 DEF Read, Sound
<1>6. R \in Read
  BY <1>1, <1>2, ListIsRange DEF Read
<1>7. read' = [read EXCEPT ![r] = R]
  BY <1>2 DEF At
<1> HIDE DEF R
<1>8. UNCHANGED <<manager, readable>>
  BY DEF ReadFails
<1>9. CASE read[r].failedItems = {}
  <2>1. StateIn(R) = "excused"
    BY <1>3, <1>4, <1>5 DEF StateIn
  <2>2. Disk!Goto(r, "excused", <<>>)
    BY <1>1, <1>3, <1>4, <1>6, <1>7, <2>1, GotoRefines
  <2>3. CallOf(r).state = "asked" /\ CallOf(r).list = read[r].list
    BY <1>4, <1>9 DEF CallOf, StateOf, At
  <2>4. Disk!State(r) = "asked" /\ Disk!List(r) = read[r].list
    BY <2>3 DEF Disk!State, Disk!List
  <2>5. ~ (Disk!Wanted(Disk!List(r)) \subseteq readable)
    BY <1>2, <2>4 DEF Disk!Wanted
  <2>6. QED
    BY <1>8, <2>2, <2>4, <2>5 DEF Disk!Notice, Listed
<1>10. CASE read[r].failedItems # {}
  <2>1. CallIn(R) = CallIn(read[r])
    BY <1>3, <1>4, <1>5, <1>10 DEF CallIn, StateIn
  <2>2. QED
    BY <1>1, <1>6, <1>7, <1>8, <2>1, CallStays
<1>11. QED
  BY <1>9, <1>10

LEMMA ReplyRefines ==
  ASSUME Inv, NEW r \in Readers, Reply(r) PROVE Disk!Answer(r) \/ Disk!Refuse(r)
<1> DEFINE R == [read[r] EXCEPT !.pc = IF read[r].newFailed = {} THEN "answered" ELSE "refused"]
<1>1. read[r] \in Read /\ Sound(read[r], readable, onDemand) /\ TypeOK
  BY DEF Inv, TypeOK
<1>2. At(r, "reread") /\ read[r].todo = {} /\ UNCHANGED <<manager, readable>>
  BY DEF Reply
<1>3. /\ R \in Read /\ R.list = read[r].list /\ R.readResults = read[r].readResults
      /\ R.pc = IF read[r].newFailed = {} THEN "answered" ELSE "refused"
  BY <1>1 DEF Read, Pcs
<1>4. read' = [read EXCEPT ![r] = R]
  BY DEF Reply
<1> HIDE DEF R
<1>5. /\ CallOf(r).state = (IF read[r].failedItems = {} THEN "asked" ELSE "excused")
      /\ CallOf(r).list = read[r].list
  BY <1>2 DEF CallOf, StateOf, At
<1>6. /\ Disk!State(r) = (IF read[r].failedItems = {} THEN "asked" ELSE "excused")
      /\ Disk!List(r) = read[r].list
  BY <1>5 DEF Disk!State, Disk!List
<1>7. CASE read[r].newFailed = {}
  <2>1. StateIn(R) = "answered" /\ R.pc = "answered"
    BY <1>3, <1>7 DEF StateIn
  <2>2. /\ DOMAIN read[r].readResults = DOMAIN read[r].list
        /\ \A i \in DOMAIN read[r].list :
             read[r].readResults[i] = read[r].list[i] /\ read[r].list[i] \in readable
    BY <1>1, <1>2, <1>7 DEF Sound, Unread, At
  <2>3. read[r].readResults \in Seq(Pieces \cup {NoBytes}) /\ read[r].list \in Seq(Pieces)
    BY <1>1, ListIsRange DEF Read
  <2>4. read[r].readResults = read[r].list
    BY <2>2, <2>3
  <2>5. Disk!Goto(r, "answered", Disk!List(r))
    BY <1>1, <1>3, <1>4, <1>6, <2>1, <2>4, GotoRefines
  <2>6. Disk!Wanted(Disk!List(r)) \subseteq readable
    BY <1>6, <2>2 DEF Disk!Wanted
  <2>7. QED
    BY <1>2, <1>6, <2>5, <2>6 DEF Disk!Answer, Listed
<1>8. CASE read[r].newFailed # {}
  <2>1. StateIn(R) = "refused" /\ R.pc = "refused"
    BY <1>3, <1>8 DEF StateIn
  <2>2. Disk!Goto(r, "refused", <<>>)
    BY <1>1, <1>3, <1>4, <2>1, GotoRefines
  <2>3. Disk!State(r) = "excused"
    BY <1>1, <1>6, <1>8 DEF Sound
  <2>4. QED
    BY <1>2, <2>2, <2>3 DEF Disk!Refuse, Listed
<1>9. QED
  BY <1>7, <1>8

LEMMA TakeRefines == ASSUME Inv, NEW r \in Readers, TakeReply(r) PROVE Disk!Take(r)
<1>1. read' = [read EXCEPT ![r] = NoRead] /\ UNCHANGED <<manager, readable>>
  BY DEF TakeReply
<1>2. CallIn(NoRead) = Disk!None
  BY DEF CallIn, StateIn, NoRead, Disk!None
<1>3. Call' = [Call EXCEPT ![r] = Disk!None]
  BY <1>1, <1>2, NoReadType, CallChanges DEF Inv
<1>4. CallOf(r).state \in {"answered", "refused"}
  BY DEF TakeReply, CallOf, StateOf, At
<1>5. Disk!State(r) \in {"answered", "refused"}
  BY <1>4 DEF Disk!State
<1>6. QED
  BY <1>1, <1>3, <1>5 DEF Disk!Take, Call, Listed

LEMMA EngineRefines ==
  ASSUME Inv, NEW p \in Pieces, Engine(p) PROVE Disk!Come(p) \/ UNCHANGED Disk!vars
<1>1. UNCHANGED <<manager, read>>
  BY DEF Engine, ReceivePiece, HashPasses, HashFails
<1>2. UNCHANGED <<Listed, Call>>
  BY <1>1 DEF Listed, Call, CallOf, StateOf, At
<1>3. readable' = readable \cup {p} \/ UNCHANGED readable
  BY DEF Engine, ReceivePiece, HashPasses, HashFails
<1>4. QED
  BY <1>2, <1>3 DEF Disk!Come, Disk!vars, Call

LEMMA DownloadRefines ==
  ASSUME RegisterManager \/ EnterInTable \/ StartManager
  PROVE  Disk!Enlist \/ UNCHANGED Disk!vars
<1>1. UNCHANGED <<readable, read>>
  BY DEF RegisterManager, EnterInTable, StartManager
<1>2. UNCHANGED Call
  BY <1>1 DEF Call, CallOf, StateOf, At
<1>3. Listed' = TRUE \/ UNCHANGED Listed
  BY DEF RegisterManager, EnterInTable, StartManager, Listed
<1>4. QED
  BY <1>1, <1>2, <1>3 DEF Disk!Enlist, Disk!vars, Call

LEMMA StepRefines == Inv /\ [Next]_vars => [Disk!Next]_(Disk!vars)
<1> SUFFICES ASSUME Inv, [Next]_vars PROVE Disk!Next \/ UNCHANGED Disk!vars
  OBVIOUS
<1>1. CASE RegisterManager \/ EnterInTable \/ StartManager
  BY <1>1, DownloadRefines DEF Disk!Next
<1>2. CASE \E p \in Pieces : Engine(p)
  BY <1>2, EngineRefines DEF Disk!Next
<1>3. CASE \E r \in Readers : Ask(r) \/ TakeReply(r) \/ Event(r)
  BY <1>3, AskRefines, TakeRefines, DelegatesRefine DEF Disk!Next
<1>4. CASE \E r \in Readers : Thread(r)
  <2>1. PICK r \in Readers : Thread(r)
    BY <1>4
  <2>2. \/ Disk!Notice(r) \/ Disk!Answer(r) \/ Disk!Refuse(r)
        \/ UNCHANGED Disk!vars
    BY <2>1, LookupFailsRefines, ReadFailsRefines, ReplyRefines, StuttersRefine DEF Thread
  <2>3. QED
    BY <2>2 DEF Disk!Next
<1>5. CASE UNCHANGED vars
  BY <1>5 DEF vars, Disk!vars, Listed, CallOf, StateOf, At
<1>6. QED
  BY <1>1, <1>2, <1>3, <1>4, <1>5 DEF Next

\* The reads of DistributedDiskManager implement VirtualDisk: an answer is what was asked
\* for, each segment in its place, and a refusal has a reason.
THEOREM ReadsImplementVirtualDisk == Spec => ImplementsVirtualDisk
<1>1. QED
  BY InitRefines, StepRefines, AlwaysInv, PTL DEF Spec, ImplementsVirtualDisk, Disk!Spec
=============================================================================
