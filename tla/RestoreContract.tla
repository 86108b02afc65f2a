--------------------------- MODULE RestoreContract ---------------------------
(***************************************************************************)
(* What the Restore controller promises to whoever reads the status of a   *)
(* Restore: a final phase stays, no work starts behind it, and Finished    *)
(* means that all the work the status stands for is done.  How the phase   *)
(* is found - passes, caches, retries, the order of the Velero restores -  *)
(* is left to RestoreReconciler, which implements this specification.      *)
(***************************************************************************)
CONSTANTS
    Ids,     \* pieces of work, the Velero restores
    Phases   \* phases of the Restore

VARIABLES
    phase,     \* in the status of the Restore
    counted,   \* the work that the status stands for
    work       \* how far each piece of work has come

vars == <<phase, counted, work>>

Final == {"Finished", "FinishedWithErrors"}

(* A Velero restore is created.                                            *)
Start(id) ==
    /\ phase \notin Final
    /\ work[id] = "none"
    /\ work' = [work EXCEPT ![id] = "open"]
    /\ UNCHANGED <<phase, counted>>

(* Velero ends one, with or without errors.                                *)
End(id) ==
    /\ work[id] = "open"
    /\ work' \in {[work EXCEPT ![id] = w] : w \in {"done", "bad"}}
    /\ UNCHANGED <<phase, counted>>

(* Velero restores disappear: orphans, or deleted by a user.               *)
Forget(gone) ==
    /\ work' = [id \in Ids |-> IF id \in gone THEN "none" ELSE work[id]]
    /\ UNCHANGED <<phase, counted>>

(* The status of the Restore is written.                                   *)
Report(p, covered) ==
    /\ phase \notin Final
    /\ p = "Finished" => \A id \in covered : work[id] \in {"none", "done"}
    /\ phase' = p /\ counted' = covered
    /\ UNCHANGED work

Init ==
    /\ phase = "" /\ counted = Ids
    /\ work = [id \in Ids |-> "none"]

Next ==
    \/ \E id \in Ids : Start(id) \/ End(id)
    \/ \E gone \in SUBSET Ids : Forget(gone)
    \/ \E p \in Phases, covered \in SUBSET Ids : Report(p, covered)

Spec == Init /\ [][Next]_vars

=============================================================================
