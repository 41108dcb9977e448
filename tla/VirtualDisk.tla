---------------------------- MODULE VirtualDisk ----------------------------
(***************************************************************************)
(* What FileService promises to its clients about one file of a virtual    *)
(* disk that is downloaded piece by piece: a read is answered with exactly *)
(* the bytes that were asked for, in the order they were asked for, or it  *)
(* is refused, and it is refused only for a reason.                        *)
(***************************************************************************)
EXTENDS Sequences

CONSTANTS
  Readers,    \* threads that read
  Pieces,     \* the pieces of the file; a piece stands for its bytes as well
  ReadLists   \* what a read may ask for: the piece of each segment, in order

VARIABLES
  listed,     \* the file is known to be under download
  readable,   \* pieces whose bytes this host has
  call        \* call[r]: the read that r makes, and its reply

vars == <<listed, readable, call>>

----------------------------------------------------------------------------
None == [state |-> "none", list |-> <<>>, data |-> <<>>]

State(r) == call[r].state
List(r) == call[r].list
Wanted(l) == {l[i] : i \in DOMAIN l}

Goto(r, s, d) == call' = [call EXCEPT ![r] = [state |-> s, list |-> List(r), data |-> d]]

Init ==
  /\ listed = FALSE
  /\ readable \in SUBSET Pieces
  /\ call = [r \in Readers |-> None]

Enlist ==
  /\ listed' = TRUE
  /\ UNCHANGED <<readable, call>>

Come(p) ==
  /\ readable' = readable \cup {p}
  /\ UNCHANGED <<listed, call>>

Ask(r) ==
  /\ State(r) = "none"
  /\ \E l \in ReadLists :
       call' = [call EXCEPT ![r] = [state |-> "asked", list |-> l, data |-> <<>>]]
  /\ UNCHANGED <<listed, readable>>

\* Bytes that were asked for are not here now: the read may be refused later on, even
\* if they come in the meantime.
Notice(r) ==
  /\ State(r) = "asked"
  /\ ~ (Wanted(List(r)) \subseteq readable)
  /\ Goto(r, "excused", <<>>)
  /\ UNCHANGED <<listed, readable>>

Answer(r) ==
  /\ State(r) \in {"asked", "excused"}
  /\ Wanted(List(r)) \subseteq readable
  /\ Goto(r, "answered", List(r))
  /\ UNCHANGED <<listed, readable>>

Refuse(r) ==
  /\ State(r) = "excused" \/ (State(r) = "asked" /\ ~ listed)
  /\ Goto(r, "refused", <<>>)
  /\ UNCHANGED <<listed, readable>>

Take(r) ==
  /\ State(r) \in {"answered", "refused"}
  /\ call' = [call EXCEPT ![r] = None]
  /\ UNCHANGED <<listed, readable>>

Next ==
  \/ Enlist
  \/ \E p \in Pieces : Come(p)
  \/ \E r \in Readers : Ask(r) \/ Notice(r) \/ Answer(r) \/ Refuse(r) \/ Take(r)

Spec == Init /\ [][Next]_vars
=============================================================================
