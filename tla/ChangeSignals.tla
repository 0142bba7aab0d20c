---------------------------- MODULE ChangeSignals ----------------------------
(***************************************************************************)
(* What the queue promises to a writer (docs/adr/0003-postgres-job-queue): *)
(* an "entity changed" signal commits with the change, repeated signals    *)
(* collapse, and the derived text is owed a refresh until one has read the *)
(* latest change.  No rows, processes or transactions here.                *)
(***************************************************************************)
EXTENDS Naturals

CONSTANT Entities

VARIABLES
    data,      \* committed version of each entity
    indexed,   \* the version its derived search text was computed from
    owed       \* the entities a refresh is still owed to

vars == <<data, indexed, owed>>

Init ==
    /\ data = [e \in Entities |-> 0]
    /\ indexed = [e \in Entities |-> 0]
    /\ owed = {}

\* A change commits together with its signal.
Change(e) ==
    /\ data' = [data EXCEPT ![e] = @ + 1]
    /\ owed' = owed \cup {e}
    /\ UNCHANGED indexed

\* An owed refresh reads the latest committed version.
Refresh(e) ==
    /\ e \in owed
    /\ indexed' = [indexed EXCEPT ![e] = data[e]]
    /\ UNCHANGED <<data, owed>>

\* The debt is cleared, but only when nothing changed since the refresh.
Settle(e) ==
    /\ e \in owed /\ indexed[e] = data[e]
    /\ owed' = owed \ {e}
    /\ UNCHANGED <<data, indexed>>

Next == \E e \in Entities : Change(e) \/ Refresh(e) \/ Settle(e)

Spec == Init /\ [][Next]_vars
=============================================================================
