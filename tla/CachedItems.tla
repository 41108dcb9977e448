---------------------------- MODULE CachedItems ----------------------------
(***************************************************************************)
(* What a server takes its registry of cached items for: a set of names    *)
(* that begins as what Downloads holds and grows by one name with each     *)
(* call, until the process ends.  A call for a name that is there is       *)
(* refused unless it is an update.  Whether a call that has changed the    *)
(* set then ends with an exception is left open, and of calls that change  *)
(* it at the same time one may do so in vain.                              *)
(***************************************************************************)
CONSTANTS Keys, Threads, None

VARIABLES up, present, registry, call

vars == <<up, present, registry, call>>

Writing(t) == call[t] # None /\ ~call[t].written

Init ==
    /\ up = FALSE
    /\ present \in SUBSET Keys
    /\ registry = {}
    /\ call = [t \in Threads |-> None]

Start ==
    /\ ~up
    /\ up' = TRUE
    /\ registry' = present
    /\ UNCHANGED <<present, call>>

Ask(t, k, u) ==
    /\ up /\ call[t] = None /\ k \in present
    /\ call' = [call EXCEPT ![t] = [key |-> k, update |-> u, written |-> FALSE]]
    /\ UNCHANGED <<up, present, registry>>

Write(t) ==
    /\ Writing(t)
    /\ call[t].update \/ call[t].key \notin registry
    /\ \/ registry' = registry \cup {call[t].key}
       \/ (\E s \in Threads \ {t} : Writing(s)) /\ UNCHANGED registry
    /\ call' = [call EXCEPT ![t] = [key |-> call[t].key, update |-> call[t].update, written |-> TRUE]]
    /\ UNCHANGED <<up, present>>

Refuse(t) ==
    /\ Writing(t)
    /\ ~call[t].update /\ call[t].key \in registry
    /\ call' = [call EXCEPT ![t] = None]
    /\ UNCHANGED <<up, present, registry>>

End(t) ==
    /\ call[t] # None /\ call[t].written
    /\ call' = [call EXCEPT ![t] = None]
    /\ UNCHANGED <<up, present, registry>>

Stop ==
    /\ up
    /\ up' = FALSE
    /\ registry' = {}
    /\ call' = [t \in Threads |-> None]
    /\ UNCHANGED present

Change ==
    /\ present' \in SUBSET Keys
    /\ UNCHANGED <<up, registry, call>>

Next ==
    \/ Start \/ Stop \/ Change
    \/ \E t \in Threads :
        \/ \E k \in Keys, u \in BOOLEAN : Ask(t, k, u)
        \/ Write(t) \/ Refuse(t) \/ End(t)

Spec == Init /\ [][Next]_vars
=============================================================================
