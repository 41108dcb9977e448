------------------------ MODULE CacheRegistry_proofs ------------------------
(***************************************************************************)
(* The registry file keeps up with the memory, and the server comes up     *)
(* with what Downloads holds, for any number of keys and threads.          *)
(***************************************************************************)
EXTENDS CacheRegistry, TLAPS

----------------------------------------------------------------------------
(* Types *)

LEMMA CallUpdate ==
  ASSUME TypeOK, NEW t \in Threads, thread[t] # Idle, NEW p \in Pcs, NEW d \in SUBSET Keys
  PROVE  /\ thread[t] \in Call /\ thread[t].key \in Keys
         /\ [thread[t] EXCEPT !.pc = p] \in Call
         /\ [thread[t] EXCEPT !.pc = p, !.dump = d] \in Call
<1>1. thread[t] \in Call
  BY DEF TypeOK
<1>2. QED
  BY <1>1 DEF Call

LEMMA DisturbedType ==
  ASSUME TypeOK, NEW t \in Threads, At(t, "adding")
  PROVE  Disturbed(t) \in [Threads -> Call \cup {Idle}]
<1>1. "open" \in Pcs /\ "broken" \in Pcs
  BY DEF Pcs
<1>2. [thread[t] EXCEPT !.pc = "open"] \in Call
  BY <1>1, CallUpdate DEF At
<1>3. \A s \in Threads : At(s, "dumping") => [thread[s] EXCEPT !.pc = "broken"] \in Call
  BY <1>1, CallUpdate DEF At
<1>4. QED
  BY <1>2, <1>3 DEF Disturbed, TypeOK

LEMMA TypeStep == TypeOK /\ [Next]_vars => TypeOK'
<1> SUFFICES ASSUME TypeOK, [Next]_vars PROVE TypeOK'
  OBVIOUS
<1> USE FileAssumption
<1>1. CASE Load
  BY <1>1 DEF Load, TypeOK, ReadBack
<1>2. CASE PruneThrows \/ PruneEnds \/ ScanAdds \/ ScanEnds
  <2>1. \A S \in SUBSET Keys : Rewritten(S) \in [keys : SUBSET Keys]
    BY DEF Rewritten
  <2>2. CASE PruneThrows
    <3>1. PICK k \in registry \ present : file' = Rewritten(registry \ {k}) /\ registry' = {}
      BY <2>2 DEF PruneThrows
    <3>2. file' \in [keys : SUBSET Keys]
      BY <2>1, <3>1 DEF TypeOK
    <3>3. QED
      BY <2>2, <3>1, <3>2 DEF PruneThrows, TypeOK
  <2>3. CASE ScanAdds
    <3>1. PICK k \in present \ registry :
            registry' = registry \cup {k} /\ file' = Rewritten(registry \cup {k})
      BY <2>3 DEF ScanAdds
    <3>2. registry' \subseteq Keys /\ file' \in [keys : SUBSET Keys]
      BY <2>1, <3>1 DEF TypeOK
    <3>3. QED
      BY <2>3, <3>2 DEF ScanAdds, TypeOK
  <2>4. CASE PruneEnds \/ ScanEnds
    BY <2>4 DEF PruneEnds, ScanEnds, TypeOK
  <2>5. QED
    BY <1>2, <2>2, <2>3, <2>4
<1>3. ASSUME NEW t \in Threads, BeginAdd(t) PROVE TypeOK'
  BY <1>3 DEF BeginAdd, TypeOK, Call, Pcs
<1>4. ASSUME NEW t \in Threads, EndAdd(t) PROVE TypeOK'
  <2>1. At(t, "adding") /\ thread[t].key \in Keys
    BY <1>4, CallUpdate DEF EndAdd, At, Pcs
  <2>2. thread' \in [Threads -> Call \cup {Idle}]
    BY <1>4, <2>1, DisturbedType DEF EndAdd, Throw, TypeOK
  <2>3. registry' \subseteq Keys /\ refused' \in BOOLEAN
    BY <1>4, <2>1 DEF EndAdd, Throw, TypeOK
  <2>4. QED
    BY <1>4, <2>2, <2>3 DEF EndAdd, TypeOK
<1>5. ASSUME NEW t \in Threads, Open(t) \/ StartDump(t) \/ EndDump(t) \/ Close(t) \/ CloseBroken(t)
      PROVE TypeOK'
  <2>1. /\ thread[t] # Idle /\ thread[t].pc \in Pcs
        /\ thread[t].dump \in SUBSET Keys /\ thread[t] \in Call
    BY <1>5 DEF Open, StartDump, EndDump, Close, CloseBroken, At, TypeOK, Call
  <2>2. \A p \in Pcs, d \in SUBSET Keys :
          /\ [thread[t] EXCEPT !.pc = p] \in Call
          /\ [thread[t] EXCEPT !.pc = p, !.dump = d] \in Call
    BY <2>1, CallUpdate
  <2>3. thread' \in [Threads -> Call \cup {Idle}]
    <3>1. CASE Open(t)
      BY <2>1, <2>2, <3>1 DEF Open, Goto, Throw, TypeOK, Pcs
    <3>2. CASE StartDump(t)
      BY <2>1, <2>2, <3>2 DEF StartDump, Goto, TypeOK, Pcs
    <3>3. CASE EndDump(t)
      <4>1. [thread[t] EXCEPT !.pc = "closing", !.dump = registry] \in Call
        BY <2>2 DEF Pcs, TypeOK
      <4>2. thread' = [thread EXCEPT ![t] = [thread[t] EXCEPT !.pc = "closing", !.dump = registry]]
        BY <2>1, <3>3 DEF EndDump, Dumped, TypeOK, Call
      <4>3. QED
        BY <4>1, <4>2 DEF TypeOK
    <3>4. CASE Close(t) \/ CloseBroken(t)
      BY <3>4 DEF Close, CloseBroken, Throw, TypeOK
    <3>5. QED
      BY <1>5, <3>1, <3>2, <3>3, <3>4
  <2>4. file' \in [keys : SUBSET Keys] \cup {NoFile, Torn}
    <3>1. CASE Close(t)
      BY <2>1, <3>1 DEF Close
    <3>2. CASE Open(t) \/ StartDump(t) \/ EndDump(t) \/ CloseBroken(t)
      BY <3>2 DEF Open, StartDump, EndDump, CloseBroken, TypeOK
    <3>3. QED
      BY <1>5, <3>1, <3>2
  <2>5. UNCHANGED <<phase, present, registry>> /\ refused' \in BOOLEAN
    BY <1>5 DEF Open, StartDump, EndDump, Close, CloseBroken, Throw, TypeOK
  <2>6. QED
    BY <2>3, <2>4, <2>5 DEF TypeOK
<1>6. ASSUME NEW k \in Keys, Appear(k) \/ Vanish(k) PROVE TypeOK'
  BY <1>6 DEF Appear, Vanish, TypeOK
<1>7. CASE Crash
  BY <1>7 DEF Crash, TypeOK
<1>8. CASE UNCHANGED vars
  BY <1>8 DEF vars, TypeOK
<1>9. QED
  BY <1>1, <1>2, <1>3, <1>4, <1>5, <1>6, <1>7, <1>8 DEF Next

\* Every variable keeps its type.
THEOREM TypeCorrect == Spec => []TypeOK
<1>1. Init => TypeOK
  BY DEF Init, TypeOK
<1>2. QED
  BY <1>1, TypeStep, PTL DEF Spec

----------------------------------------------------------------------------
(* The inductive invariant *)

\* Only one thread has the file open.
OneWriter == \A s, t \in Threads : FileOpen(s) /\ FileOpen(t) => s = t

\* t will write the whole registry, or fail trying.
Pending(t) ==
  \/ At(t, "open") \/ At(t, "opened") \/ At(t, "dumping")
  \/ At(t, "closing") /\ thread[t].dump = registry

\* While the server is up and no call has failed: a write is pending, or the file is
\* closed and has it all.
UpInSync ==
  phase = "up" /\ ~refused =>
    \/ \E t \in Threads : Pending(t)
    \/ ReadBack(file) = registry /\ \A t \in Threads : ~FileOpen(t)

\* The start of the server: no threads yet, memory and file agree.
StartInSync ==
  /\ phase # "up" => \A t \in Threads : thread[t] = Idle
  /\ phase \in {"prune", "scan"} => ReadBack(file) = registry
  /\ phase = "scan" => registry \subseteq present

Inv == TypeOK /\ OneWriter /\ UpInSync /\ StartInSync

LEMMA RewrittenReadsBack ==
  ASSUME NEW S \in SUBSET Keys
  PROVE  ReadBack(Rewritten(S)) = S
<1>1. [keys |-> S] \in [keys : SUBSET Keys]
  OBVIOUS
<1>2. QED
  BY <1>1, FileAssumption DEF ReadBack, Rewritten

LEMMA InvStep == Inv /\ [Next]_vars => Inv'
<1> SUFFICES ASSUME Inv, [Next]_vars PROVE Inv'
  OBVIOUS
<1>0. TypeOK /\ TypeOK' /\ OneWriter /\ UpInSync /\ StartInSync
  BY TypeStep DEF Inv
<1>1. CASE Load \/ PruneThrows \/ PruneEnds \/ ScanAdds \/ ScanEnds
  <2>1. UNCHANGED thread /\ \A t \in Threads : thread[t] = Idle
    BY <1>0, <1>1 DEF Load, PruneThrows, PruneEnds, ScanAdds, ScanEnds, StartInSync
  <2>2. OneWriter'
    BY <2>1 DEF OneWriter, FileOpen
  <2>3. UpInSync'
    <3>1. CASE ScanEnds
      BY <1>0, <2>1, <3>1 DEF ScanEnds, StartInSync, UpInSync, FileOpen
    <3>2. CASE phase' # "up"
      BY <3>2 DEF UpInSync
    <3>3. QED
      BY <1>1, <3>1, <3>2 DEF Load, PruneThrows, PruneEnds, ScanAdds
  <2>4. StartInSync'
    <3>1. CASE ScanAdds
      <4>1. PICK k \in present \ registry :
              registry' = registry \cup {k} /\ file' = Rewritten(registry \cup {k})
        BY <3>1 DEF ScanAdds
      <4>2. ReadBack(file') = registry'
        BY <1>0, <4>1, RewrittenReadsBack DEF TypeOK
      <4>3. QED
        BY <1>0, <2>1, <3>1, <4>1, <4>2 DEF ScanAdds, StartInSync, ReadBack
    <3>2. CASE Load \/ PruneThrows \/ PruneEnds \/ ScanEnds
      BY <1>0, <2>1, <3>2 DEF Load, PruneThrows, PruneEnds, ScanEnds, StartInSync, ReadBack
    <3>3. QED
      BY <1>1, <3>1, <3>2
  <2>5. QED
    BY <1>0, <2>2, <2>3, <2>4 DEF Inv
<1>2. ASSUME NEW t \in Threads, BeginAdd(t) PROVE Inv'
  <2>1. /\ thread[t] = Idle /\ phase = "up" /\ UNCHANGED <<phase, present, registry, file, refused>>
        /\ At(t, "adding")' /\ \A s \in Threads \ {t} : thread'[s] = thread[s]
    BY <1>0, <1>2 DEF BeginAdd, TypeOK, At, Idle
  <2>2. \A s \in Threads : (FileOpen(s)' <=> FileOpen(s)) /\ (Pending(s)' <=> Pending(s))
    BY <2>1 DEF FileOpen, Pending, At
  <2>3. QED
    BY <1>0, <2>1, <2>2 DEF Inv, OneWriter, UpInSync, StartInSync, ReadBack
<1>3. ASSUME NEW t \in Threads, EndAdd(t) PROVE Inv'
  <2>1. phase = "up" /\ At(t, "adding") /\ UNCHANGED <<phase, present, file>>
    BY <1>0, <1>3 DEF EndAdd, At, StartInSync
  <2>2. CASE Throw(t)
    <3>1. refused' /\ thread'[t] = Idle /\ \A s \in Threads \ {t} : thread'[s] = thread[s]
      BY <1>0, <2>2 DEF Throw, TypeOK
    <3>2. OneWriter'
      BY <1>0, <3>1 DEF OneWriter, FileOpen
    <3>3. QED
      BY <1>0, <2>1, <3>1, <3>2 DEF Inv, UpInSync, StartInSync
  <2>3. CASE thread' = Disturbed(t)
    <3>1. thread[t] \in Call
      BY <1>0, <2>1 DEF At, TypeOK
    <3>2. thread'[t] = [thread[t] EXCEPT !.pc = "open"]
      BY <2>3 DEF Disturbed
    <3>3. thread'[t].pc = "open" /\ thread'[t] # Idle
      BY <3>1, <3>2 DEF Call, Idle
    <3>4. ~FileOpen(t)' /\ Pending(t)'
      BY <3>3 DEF FileOpen, Pending, At
    <3>5. ASSUME NEW s \in Threads \ {t}, FileOpen(s)' PROVE FileOpen(s)
      BY <2>3, <3>5 DEF Disturbed, FileOpen, At
    <3>6. OneWriter'
      BY <1>0, <3>4, <3>5 DEF OneWriter
    <3>7. QED
      BY <1>0, <2>1, <3>4, <3>6 DEF Inv, UpInSync, StartInSync
  <2>4. QED
    BY <1>3, <2>2, <2>3 DEF EndAdd
<1>4. ASSUME NEW t \in Threads, Open(t) \/ StartDump(t) \/ EndDump(t) \/ Close(t) \/ CloseBroken(t)
      PROVE  Inv'
  <2>1. /\ phase = "up" /\ UNCHANGED <<phase, present, registry>>
        /\ thread[t] # Idle /\ thread[t] \in Call
    BY <1>0, <1>4 DEF Open, StartDump, EndDump, Close, CloseBroken, At, StartInSync, TypeOK
  <2>2. \A s \in Threads \ {t} : thread'[s] = thread[s]
    BY <1>0, <1>4 DEF Open, StartDump, EndDump, Close, CloseBroken, Goto, Throw, TypeOK
  <2>3. \A s \in Threads \ {t} : (FileOpen(s)' <=> FileOpen(s)) /\ (Pending(s)' <=> Pending(s))
    BY <2>1, <2>2 DEF FileOpen, Pending, At
  <2>4. FileOpen(t)' => FileOpen(t) \/ \A s \in Threads : ~FileOpen(s)
    <3>1. CASE Open(t)
      BY <1>0, <2>1, <3>1 DEF Open, Throw, TypeOK, FileOpen
    <3>2. CASE StartDump(t) \/ EndDump(t) \/ Close(t) \/ CloseBroken(t)
      BY <2>1, <3>2 DEF StartDump, EndDump, Close, CloseBroken, At, FileOpen
    <3>3. QED
      BY <1>4, <3>1, <3>2
  <2>5. OneWriter'
    BY <1>0, <2>3, <2>4 DEF OneWriter
  <2>6. UpInSync'
    <3>1. CASE Throw(t)
      BY <3>1 DEF Throw, UpInSync
    <3>2. CASE (Open(t) \/ StartDump(t)) /\ ~Throw(t)
      <4>1. PICK p \in {"opened", "dumping"} : Goto(t, p)
        BY <3>2 DEF Open, StartDump
      <4>2. thread'[t] = [thread[t] EXCEPT !.pc = p]
        BY <1>0, <2>1, <4>1 DEF Goto, TypeOK
      <4>3. Pending(t)'
        BY <2>1, <4>2 DEF Call, Pending, At, Idle
      <4>4. QED
        BY <4>3 DEF UpInSync
    <3>3. CASE EndDump(t)
      <4>1. thread' = [thread EXCEPT ![t] = [thread[t] EXCEPT !.pc = "closing", !.dump = registry]]
        BY <1>0, <2>1, <3>3 DEF EndDump, Dumped, TypeOK, Call
      <4>2. thread'[t] = [thread[t] EXCEPT !.pc = "closing", !.dump = registry]
        BY <1>0, <4>1 DEF TypeOK
      <4>3. Pending(t)'
        BY <2>1, <4>2 DEF Call, Pending, At, Idle
      <4>4. QED
        BY <4>3 DEF UpInSync
    <3>4. CASE Close(t)
      <4>1. /\ At(t, "closing") /\ FileOpen(t) /\ ~FileOpen(t)' /\ file' = Rewritten(thread[t].dump)
            /\ UNCHANGED refused
        BY <1>0, <3>4 DEF Close, At, FileOpen, TypeOK, Rewritten
      <4>2. CASE thread[t].dump = registry
        <5>1. ReadBack(file') = registry'
          BY <1>0, <2>1, <4>1, <4>2, RewrittenReadsBack DEF TypeOK
        <5>2. \A s \in Threads : ~FileOpen(s)'
          BY <1>0, <2>3, <4>1 DEF OneWriter
        <5>3. QED
          BY <5>1, <5>2 DEF UpInSync, ReadBack
      <4>3. CASE thread[t].dump # registry
        <5>1. ~Pending(t)
          BY <4>1, <4>3 DEF Pending, At
        <5>2. QED
          BY <1>0, <2>1, <2>3, <4>1, <5>1 DEF UpInSync
      <4>4. QED
        BY <4>2, <4>3
    <3>5. QED
      BY <1>4, <3>1, <3>2, <3>3, <3>4 DEF CloseBroken
  <2>7. StartInSync'
    BY <2>1 DEF StartInSync
  <2>8. QED
    BY <1>0, <2>5, <2>6, <2>7 DEF Inv
<1>5. ASSUME NEW k \in Keys, Appear(k) \/ Vanish(k) PROVE Inv'
  <2>1. UNCHANGED <<phase, registry, file, thread, refused>> /\ phase # "scan"
    BY <1>5 DEF Appear, Vanish
  <2>2. QED
    BY <1>0, <2>1 DEF Inv, OneWriter, UpInSync, StartInSync, FileOpen, Pending, At, ReadBack
<1>6. CASE Crash
  <2>1. phase' = "down" /\ \A t \in Threads : thread'[t] = Idle
    BY <1>6 DEF Crash
  <2>2. QED
    BY <1>0, <2>1 DEF Inv, OneWriter, UpInSync, StartInSync, FileOpen
<1>7. CASE UNCHANGED vars
  BY <1>0, <1>7 DEF vars, Inv, OneWriter, UpInSync, StartInSync, FileOpen, Pending, At, ReadBack
<1>8. QED
  BY <1>1, <1>2, <1>3, <1>4, <1>5, <1>6, <1>7 DEF Next

\* The inductive invariant holds: one writer at a time, and either a write of the whole
\* registry is pending, or a call has failed, or the file has everything.
THEOREM InvHolds == Spec => []Inv
<1>1. Init => Inv
  BY DEF Init, Inv, TypeOK, OneWriter, UpInSync, StartInSync, FileOpen
<1>2. QED
  BY <1>1, InvStep, PTL DEF Spec

\* At rest, and unless some call failed, the registry file holds the registry: threads
\* that write at the same time lose nothing without an exception.
THEOREM FileKeepsUpHolds == Spec => []FileKeepsUp
<1>1. Inv => FileKeepsUp
  BY DEF Inv, UpInSync, FileKeepsUp, Pending, At
<1>2. QED
  BY <1>1, InvHolds, PTL

\* The server comes up with exactly what Downloads holds.
THEOREM ComesUpHolds == Spec => ComesUpWithDownloads
<1>1. Inv /\ [Next]_vars => [phase # "up" /\ phase' = "up" => registry' = present']_vars
  <2> SUFFICES ASSUME Inv, [Next]_vars, phase # "up", phase' = "up"
               PROVE  registry' = present'
    OBVIOUS
  <2>1. ScanEnds
    BY DEF Next, vars, Load, PruneThrows, PruneEnds, ScanAdds, BeginAdd, EndAdd, Open, StartDump,
           EndDump, Close, CloseBroken, Appear, Vanish, Crash, Inv, StartInSync, At
  <2>2. QED
    BY <2>1 DEF ScanEnds, Scanned, Inv, StartInSync
<1>2. QED
  BY <1>1, InvHolds, PTL DEF Spec, ComesUpWithDownloads


----------------------------------------------------------------------------
(* The registry as its callers see it *)

\* The call of t as the abstract registry has it.
CallOf(c) ==
  IF c = Idle THEN Idle ELSE [key |-> c.key, update |-> c.update, written |-> c.pc # "adding"]

LEMMA CallsAre ==
  /\ Calls = [t \in Threads |-> CallOf(thread[t])]
  /\ Calls' = [t \in Threads |-> CallOf(thread'[t])]
BY DEF Calls, CallOf

\* One thread's call changes.
LEMMA CallChanges ==
  ASSUME NEW t \in Threads, TypeOK, NEW c, thread' = [thread EXCEPT ![t] = c]
  PROVE  Calls' = [Calls EXCEPT ![t] = CallOf(c)]
BY CallsAre DEF TypeOK

LEMMA CallIs ==
  ASSUME NEW c \in Call
  PROVE  /\ CallOf(c) # Idle
         /\ CallOf(c).key = c.key /\ CallOf(c).update = c.update
         /\ CallOf(c).written = (c.pc # "adding")
<1>1. c # Idle
  BY DEF Call, Idle, Pcs
<1>2. CallOf(c) = [key |-> c.key, update |-> c.update, written |-> c.pc # "adding"]
  BY <1>1 DEF CallOf
<1>3. CallOf(c) # Idle
  <2>1. "pc" \in DOMAIN Idle /\ "pc" \notin DOMAIN CallOf(c)
    BY <1>2 DEF Idle
  <2>2. QED
    BY <2>1
<1>4. QED
  BY <1>2, <1>3

\* What a call of t is to the abstract registry, by where its thread is.
LEMMA CallAt ==
  ASSUME TypeOK, NEW t \in Threads, thread[t] # Idle
  PROVE  /\ thread[t] \in Call /\ Calls[t] = CallOf(thread[t])
         /\ Calls[t] # Idle /\ Calls[t].key = thread[t].key
         /\ Calls[t].update = thread[t].update
         /\ Calls[t].written <=> ~At(t, "adding")
         /\ Items!Writing(t) <=> At(t, "adding")
<1>1. thread[t] \in Call
  BY DEF TypeOK
<1>2. Calls[t] = CallOf(thread[t])
  BY CallsAre
<1>3. QED
  BY <1>1, <1>2, CallIs DEF Items!Writing, At

\* The start of the server, which no one sees before it has ended.
LEMMA StartRefines ==
  ASSUME Inv, Load \/ PruneThrows \/ PruneEnds \/ ScanAdds \/ ScanEnds
  PROVE  Items!Start \/ UNCHANGED Items!vars
<1>1. UNCHANGED <<Calls, present>>
  BY DEF Load, PruneThrows, PruneEnds, ScanAdds, ScanEnds, Calls
<1>2. CASE ScanEnds
  <2>1. registry = present
    BY <1>2 DEF ScanEnds, Scanned, Inv, StartInSync
  <2>2. QED
    BY <1>1, <1>2, <2>1 DEF ScanEnds, Items!Start
<1>3. CASE Load \/ PruneThrows \/ PruneEnds \/ ScanAdds
  BY <1>1, <1>3 DEF Load, PruneThrows, PruneEnds, ScanAdds, Items!vars
<1>4. QED
  BY <1>2, <1>3

LEMMA BeginRefines ==
  ASSUME Inv, NEW t \in Threads, BeginAdd(t)
  PROVE  \E k \in Keys, u \in BOOLEAN : Items!Ask(t, k, u)
<1>1. PICK k \in present, u \in BOOLEAN :
        thread' = [thread EXCEPT ![t] = [pc |-> "adding", key |-> k, update |-> u, dump |-> {}]]
  BY DEF BeginAdd
<1>2. k \in Keys /\ TypeOK
  BY DEF Inv, TypeOK
<1>3. [pc |-> "adding", key |-> k, update |-> u, dump |-> {}] \in Call
  BY <1>2 DEF Call, Pcs
<1>4. CallOf([pc |-> "adding", key |-> k, update |-> u, dump |-> {}])
        = [key |-> k, update |-> u, written |-> FALSE]
  BY DEF CallOf, Idle
<1>5. Calls' = [Calls EXCEPT ![t] = [key |-> k, update |-> u, written |-> FALSE]]
  BY <1>1, <1>2, <1>4, CallChanges
<1>6. Calls[t] = Idle
  BY CallsAre DEF BeginAdd, CallOf
<1>7. Items!Ask(t, k, u)
  BY <1>5, <1>6 DEF BeginAdd, Items!Ask
<1>8. QED
  BY <1>2, <1>7

\* A call that has thrown, or is over, has left.
LEMMA LeftIs ==
  ASSUME TypeOK, NEW t \in Threads, thread' = [thread EXCEPT ![t] = Idle]
  PROVE  Calls' = [Calls EXCEPT ![t] = Idle]
<1>1. CallOf(Idle) = Idle
  BY DEF CallOf
<1>2. QED
  BY <1>1, CallChanges

LEMMA AddRefines ==
  ASSUME Inv, NEW t \in Threads, EndAdd(t)
  PROVE  Items!Write(t) \/ Items!Refuse(t)
<1>1. /\ TypeOK /\ phase = "up" /\ At(t, "adding") /\ thread[t] # Idle
      /\ UNCHANGED <<phase, present, file>>
  BY DEF Inv, StartInSync, EndAdd, At
<1>2. /\ thread[t] \in Call /\ Calls[t] = CallOf(thread[t])
      /\ Calls[t].key = thread[t].key /\ Calls[t].update = thread[t].update
      /\ Items!Writing(t)
  BY <1>1, CallAt
<1>3. CASE /\ Accepts(thread[t]) /\ thread' = Disturbed(t)
           /\ \/ registry' = registry \cup {thread[t].key}
              \/ (\E s \in Threads \ {t} : At(s, "adding")) /\ UNCHANGED registry
  \* Those whose enumeration is disturbed have written already.
  <2>1. ASSUME NEW s \in Threads
        PROVE  CallOf(thread'[s]) =
                 IF s = t THEN [key |-> Calls[t].key, update |-> Calls[t].update, written |-> TRUE]
                 ELSE CallOf(thread[s])
    <3>1. CASE s = t
      <4>1. thread'[t] = [thread[t] EXCEPT !.pc = "open"]
        BY <1>3 DEF Disturbed
      <4>2. [thread[t] EXCEPT !.pc = "open"] \in Call /\ "open" \in Pcs
        BY <1>2 DEF Call, Pcs
      <4>3. /\ [thread[t] EXCEPT !.pc = "open"].key = thread[t].key
            /\ [thread[t] EXCEPT !.pc = "open"].update = thread[t].update
            /\ [thread[t] EXCEPT !.pc = "open"].pc = "open"
        BY <1>2 DEF Call
      <4>4. thread'[t] # Idle
        BY <4>1, <4>3 DEF Idle
      <4>5. QED
        BY <1>2, <3>1, <4>1, <4>3, <4>4 DEF CallOf
    <3>2. CASE s # t /\ At(s, "dumping")
      <4>1. thread'[s] = [thread[s] EXCEPT !.pc = "broken"] /\ thread[s] \in Call
        BY <1>1, <1>3, <3>2 DEF Disturbed, At, TypeOK
      <4>2. /\ [thread[s] EXCEPT !.pc = "broken"].key = thread[s].key
            /\ [thread[s] EXCEPT !.pc = "broken"].update = thread[s].update
            /\ [thread[s] EXCEPT !.pc = "broken"].pc = "broken"
        BY <4>1 DEF Call
      <4>3. thread'[s] # Idle /\ thread[s] # Idle /\ thread[s].pc = "dumping"
        BY <3>2, <4>1, <4>2 DEF Idle, At
      <4>4. QED
        BY <3>2, <4>1, <4>2, <4>3 DEF CallOf
    <3>3. CASE s # t /\ ~At(s, "dumping")
      BY <1>3, <3>3 DEF Disturbed
    <3>4. QED
      BY <3>1, <3>2, <3>3
  <2>2. Calls' = [Calls EXCEPT ![t] = [key |-> Calls[t].key, update |-> Calls[t].update,
                                        written |-> TRUE]]
    BY <2>1, CallsAre
  <2>3. \/ registry' = registry \cup {Calls[t].key}
        \/ (\E s \in Threads \ {t} : Items!Writing(s)) /\ UNCHANGED registry
    <3>1. CASE registry' = registry \cup {thread[t].key}
      BY <1>2, <3>1
    <3>2. CASE (\E s \in Threads \ {t} : At(s, "adding")) /\ UNCHANGED registry
      <4>1. PICK s \in Threads \ {t} : At(s, "adding")
        BY <3>2
      <4>2. Items!Writing(s)
        BY <1>1, <4>1, CallAt DEF At
      <4>3. QED
        BY <3>2, <4>2
    <3>3. QED
      BY <1>3, <3>1, <3>2
  <2>4. Calls[t].update \/ Calls[t].key \notin registry
    BY <1>2, <1>3 DEF Accepts
  <2>5. QED
    BY <1>1, <1>2, <2>2, <2>3, <2>4 DEF Items!Write
<1>4. CASE ~Accepts(thread[t]) /\ Throw(t) /\ UNCHANGED registry
  <2>1. Calls' = [Calls EXCEPT ![t] = Idle]
    BY <1>1, <1>4, LeftIs DEF Throw
  <2>2. QED
    BY <1>1, <1>2, <1>4, <2>1 DEF Accepts, Items!Refuse
<1>5. QED
  BY <1>3, <1>4 DEF EndAdd

\* A thread that writes the file changes nothing that callers see, until it leaves.
LEMMA FileRefines ==
  ASSUME Inv, NEW t \in Threads,
         Open(t) \/ StartDump(t) \/ EndDump(t) \/ Close(t) \/ CloseBroken(t)
  PROVE  Items!End(t) \/ UNCHANGED Items!vars
<1>1. /\ TypeOK /\ thread[t] # Idle /\ ~At(t, "adding")
      /\ UNCHANGED <<phase, present, registry>>
  BY DEF Inv, Open, StartDump, EndDump, Close, CloseBroken, At
<1>2. /\ thread[t] \in Call /\ Calls[t] = CallOf(thread[t]) /\ Calls[t] # Idle /\ Calls[t].written
  BY <1>1, CallAt
<1>3. CASE thread' = [thread EXCEPT ![t] = Idle]
  <2>1. Calls' = [Calls EXCEPT ![t] = Idle]
    BY <1>1, <1>3, LeftIs
  <2>2. QED
    BY <1>1, <1>2, <2>1 DEF Items!End
<1>4. ASSUME NEW c \in Call, c.key = thread[t].key, c.update = thread[t].update,
             c.pc # "adding", thread' = [thread EXCEPT ![t] = c]
      PROVE  UNCHANGED Items!vars
  <2>1. CallOf(c) = CallOf(thread[t])
    <3>1. c # Idle /\ thread[t].pc # "adding"
      BY <1>1, <1>4, CallIs DEF At, CallOf
    <3>2. QED
      BY <1>1, <1>4, <3>1 DEF CallOf
  <2>2. Calls' = [Calls EXCEPT ![t] = Calls[t]]
    BY <1>1, <1>2, <1>4, <2>1, CallChanges
  <2>3. Calls' = Calls
    BY <2>2, CallsAre
  <2>4. QED
    BY <1>1, <2>3 DEF Items!vars
<1>5. CASE Close(t) \/ CloseBroken(t) \/ (Open(t) /\ Throw(t))
  BY <1>3, <1>5 DEF Close, CloseBroken, Throw
<1>6. ASSUME NEW p \in {"opened", "dumping"}, Goto(t, p) PROVE UNCHANGED Items!vars
  <2>1. thread' = [thread EXCEPT ![t] = [thread[t] EXCEPT !.pc = p]]
    BY <1>6 DEF Goto
  <2>2. /\ [thread[t] EXCEPT !.pc = p] \in Call
        /\ [thread[t] EXCEPT !.pc = p].key = thread[t].key
        /\ [thread[t] EXCEPT !.pc = p].update = thread[t].update
        /\ [thread[t] EXCEPT !.pc = p].pc # "adding"
    BY <1>2 DEF Call, Pcs
  <2>3. QED
    BY <1>4, <2>1, <2>2
<1>7. CASE EndDump(t)
  <2> DEFINE c == [thread[t] EXCEPT !.pc = "closing", !.dump = registry]
  <2>1. thread' = [thread EXCEPT ![t] = c]
    BY <1>1, <1>2, <1>7 DEF EndDump, Dumped, TypeOK, Call
  <2>2. /\ c \in Call /\ c.key = thread[t].key /\ c.update = thread[t].update
        /\ c.pc # "adding"
    BY <1>1, <1>2 DEF Call, Pcs, TypeOK
  <2>3. QED
    BY <1>4, <2>1, <2>2
<1>8. QED
  BY <1>5, <1>6, <1>7 DEF Open, StartDump

LEMMA StepRefines == Inv /\ [Next]_vars => [Items!Next]_(Items!vars)
<1> SUFFICES ASSUME Inv, [Next]_vars PROVE Items!Next \/ UNCHANGED Items!vars
  OBVIOUS
<1>1. CASE Load \/ PruneThrows \/ PruneEnds \/ ScanAdds \/ ScanEnds
  BY <1>1, StartRefines DEF Items!Next
<1>2. CASE \E t \in Threads : BeginAdd(t)
  BY <1>2, BeginRefines DEF Items!Next
<1>3. CASE \E t \in Threads : EndAdd(t)
  BY <1>3, AddRefines DEF Items!Next
<1>4. CASE \E t \in Threads :
             Open(t) \/ StartDump(t) \/ EndDump(t) \/ Close(t) \/ CloseBroken(t)
  BY <1>4, FileRefines DEF Items!Next
<1>5. CASE \E k \in Keys : Appear(k) \/ Vanish(k)
  <2>1. present' \subseteq Keys /\ UNCHANGED <<phase, registry, thread>>
    BY <1>5 DEF Appear, Vanish, Inv, TypeOK
  <2>2. Calls' = Calls
    BY <2>1 DEF Calls
  <2>3. QED
    BY <2>1, <2>2 DEF Items!Change, Items!Next
<1>6. CASE Crash
  <2>1. Calls' = [t \in Threads |-> Idle]
    BY <1>6, CallsAre DEF Crash, CallOf
  <2>2. CASE phase = "up"
    BY <1>6, <2>1, <2>2 DEF Crash, Items!Stop, Items!Next
  <2>3. CASE phase # "up"
    <3>1. Calls = [t \in Threads |-> Idle]
      BY <2>3, CallsAre DEF Inv, StartInSync, CallOf
    <3>2. QED
      BY <1>6, <2>1, <2>3, <3>1 DEF Crash, Items!vars
  <2>4. QED
    BY <2>2, <2>3
<1>7. CASE UNCHANGED vars
  BY <1>7 DEF vars, Items!vars, Calls
<1>8. QED
  BY <1>1, <1>2, <1>3, <1>4, <1>5, <1>6, <1>7 DEF Next

\* The registry implements what its callers take it for: a set that begins as what
\* Downloads holds, and grows by what is registered until the process ends.
THEOREM RegistryImplementsCachedItems == Spec => ImplementsCachedItems
<1>1. Init => Items!Init
  BY CallsAre DEF Init, Items!Init, CallOf
<1>2. QED
  BY <1>1, InvHolds, StepRefines, PTL DEF Spec, ImplementsCachedItems, Items!Spec
============================================================================
