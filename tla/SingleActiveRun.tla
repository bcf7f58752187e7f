-------------------------- MODULE SingleActiveRun --------------------------
(***************************************************************************)
(* What the Optimization Run Service promises to every thread of the       *)
(* process (service.rs, ADR-0001): at most one run is active, a run has no *)
(* outcome while it is active, and in one indivisible step it gets its one *)
(* outcome and makes room for the next run.                                *)
(***************************************************************************)
CONSTANTS Runs, NoRun

Outcomes == {"succeeded", "cancelled", "failed"}

VARIABLES
    active,     \* the active run, or NoRun
    outcome     \* what each run ended with, "none" until then

Init == active = NoRun /\ outcome = [r \in Runs |-> "none"]

Admit(r) ==
    /\ active = NoRun /\ outcome[r] = "none"
    /\ active' = r
    /\ UNCHANGED outcome

Commit(r) ==
    /\ active = r
    /\ active' = NoRun
    /\ \E o \in Outcomes : outcome' = [outcome EXCEPT ![r] = o]

Next == \E r \in Runs : Admit(r) \/ Commit(r)

Spec == Init /\ [][Next]_<<active, outcome>>

=============================================================================
