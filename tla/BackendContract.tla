-------------------------- MODULE BackendContract --------------------------
(***************************************************************************)
(* What the Pool relies on when it drives one sandbox of a Backend: Boot   *)
(* returns a sandbox or an error that leaves nothing behind, and Destroy,  *)
(* called any number of times by anyone, returns once nothing is left.     *)
(***************************************************************************)
CONSTANT Destroyers     \* goroutines that call Destroy

VARIABLES
    resources,      \* the sandbox's process, files and directory
    bootAnswer,     \* what Boot returned
    call            \* the Destroy call of each goroutine

vars == <<resources, bootAnswer, call>>

Init ==
    /\ resources = "absent"
    /\ bootAnswer = "none"
    /\ call = [d \in Destroyers |-> "idle"]

Acquire ==
    /\ resources = "absent"
    /\ bootAnswer = "none"
    /\ resources' = "held"
    /\ UNCHANGED <<bootAnswer, call>>

Succeed ==
    /\ resources = "held"
    /\ bootAnswer = "none"
    /\ bootAnswer' = "ok"
    /\ UNCHANGED <<resources, call>>

\* Freed by a Boot that fails, or by the Destroy calls under way.
Free ==
    /\ resources = "held"
    /\ bootAnswer = "none" \/ \E d \in Destroyers : call[d] = "calling"
    /\ resources' = "freed"
    /\ bootAnswer' \in IF bootAnswer = "none" THEN {"none", "error"}
                       ELSE {bootAnswer}
    /\ UNCHANGED call

Fail ==
    /\ resources # "held"
    /\ bootAnswer = "none"
    /\ bootAnswer' = "error"
    /\ UNCHANGED <<resources, call>>

Destroy(d) ==
    /\ bootAnswer = "ok"
    /\ call[d] # "calling"
    /\ call' = [call EXCEPT ![d] = "calling"]
    /\ UNCHANGED <<resources, bootAnswer>>

\* Idempotent: whoever frees the sandbox, everyone is answered after that.
\* The answer may come with the last resource.
Answer(d) ==
    /\ call[d] = "calling"
    /\ resources' = "freed"
    /\ call' = [call EXCEPT ![d] = "answered"]
    /\ UNCHANGED bootAnswer

Next ==
    \/ Acquire
    \/ Succeed
    \/ Free
    \/ Fail
    \/ \E d \in Destroyers : Destroy(d) \/ Answer(d)

Spec == Init /\ [][Next]_vars
=============================================================================
