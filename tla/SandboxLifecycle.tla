-------------------------- MODULE SandboxLifecycle --------------------------
(***************************************************************************)
(* What the Pool promises about each sandbox, told without the pool: it    *)
(* boots, waits to be used, is leased to one allocation, is retired, and   *)
(* is gone.  No phase is entered twice.                                    *)
(***************************************************************************)
CONSTANT Handles

VARIABLE phase

Init == phase = [h \in Handles |-> "unbooted"]

Boot(h) ==
    /\ phase[h] = "unbooted"
    /\ phase' = [phase EXCEPT ![h] = "ready"]

\* Allocate.
Lease(h) ==
    /\ phase[h] = "ready"
    /\ phase' = [phase EXCEPT ![h] = "leased"]

\* Release of one sandbox, or Shutdown of many.
Retire(S) ==
    /\ \A h \in S : phase[h] \in {"ready", "leased"}
    /\ phase' = [h \in Handles |-> IF h \in S THEN "retired" ELSE phase[h]]

Destroy(h) ==
    /\ phase[h] = "retired"
    /\ phase' = [phase EXCEPT ![h] = "gone"]

Next ==
    \/ \E h \in Handles : Boot(h) \/ Lease(h) \/ Destroy(h)
    \/ \E S \in SUBSET Handles : Retire(S)

Spec == Init /\ [][Next]_phase

\* What is retired is destroyed.
FairSpec == Spec /\ \A h \in Handles : WF_phase(Destroy(h))
=============================================================================
