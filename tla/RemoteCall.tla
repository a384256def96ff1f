---------------------------- MODULE RemoteCall -----------------------------
(***************************************************************************)
(* What the caller of Backend.Exec may conclude from its answer when the   *)
(* tool runs in another process: a result means that the tool ran; an      *)
(* error means that it did not, unless the call had a deadline or the      *)
(* other side broke down, when it may have run, or may even run later.     *)
(***************************************************************************)
CONSTANTS
    Calls,      \* calls of Exec
    Timed       \* those whose context has a deadline

VARIABLES
    call,       \* what the caller knows of each call
    ran,        \* the calls whose tool was run
    broken      \* the agent is lost

vars == <<call, ran, broken>>

Init ==
    /\ call = [c \in Calls |-> "idle"]
    /\ ran = {}
    /\ broken = FALSE

Start(c) ==
    /\ call[c] = "idle"
    /\ call' = [call EXCEPT ![c] = "pending"]
    /\ UNCHANGED <<ran, broken>>

\* Once at most; behind the caller's back only after a deadline.
Run(c) ==
    /\ call[c] = "pending" \/ (call[c] = "failed" /\ c \in Timed)
    /\ c \notin ran
    /\ ran' = ran \cup {c}
    /\ UNCHANGED <<call, broken>>

Answer(c) ==
    /\ call[c] = "pending"
    /\ c \in ran
    /\ call' = [call EXCEPT ![c] = "answered"]
    /\ UNCHANGED <<ran, broken>>

Fail(c) ==
    /\ call[c] = "pending"
    /\ c \in ran => c \in Timed \/ broken
    /\ call' = [call EXCEPT ![c] = "failed"]
    /\ UNCHANGED <<ran, broken>>

Break ==
    /\ ~broken
    /\ broken' = TRUE
    /\ UNCHANGED <<call, ran>>

Next ==
    \/ \E c \in Calls : Start(c) \/ Run(c) \/ Answer(c) \/ Fail(c)
    \/ Break

Spec == Init /\ [][Next]_vars
=============================================================================
