--------------------------- MODULE OpenFileTable ---------------------------
(***************************************************************************)
(* What a file system promises to those who open files: a handle that no   *)
(* other open file has, and that denotes this file until it is released.   *)
(***************************************************************************)
CONSTANTS Handles, Files

VARIABLE table      \* the open files, by their handles

Init == table = [h \in {} |-> h]

Open(h, f) ==
    /\ h \notin DOMAIN table
    /\ table' = [g \in DOMAIN table \cup {h} |-> IF g = h THEN f ELSE table[g]]

Release(S) ==
    /\ S \subseteq DOMAIN table
    /\ table' = [g \in DOMAIN table \ S |-> table[g]]

Next ==
    \/ \E h \in Handles, f \in Files : Open(h, f)
    \/ \E S \in SUBSET Handles : Release(S)

Spec == Init /\ [][Next]_table
=============================================================================
