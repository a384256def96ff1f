---------------------------- MODULE SandboxPool ----------------------------
(***************************************************************************)
(* The Pool of sandbox/sandbox.go: a stack of warm sandboxes, a map of the *)
(* active ones, and the goroutines that move sandboxes between them.       *)
(*                                                                         *)
(* Every critical section under Pool.mu is one action; every call of the   *)
(* Backend (Boot, Exec, Destroy) happens outside the lock and takes two    *)
(* steps, so anything can happen between the call and what the caller does *)
(* with its answer.  The Backend is kept abstract: Boot and Destroy may    *)
(* fail, and a sandbox is a handle that is up, down, or lost (its Destroy  *)
(* returned an error, which the Pool only logs).                           *)
(*                                                                         *)
(* Two bounds limit a model: Handles, the sandboxes that can ever boot,    *)
(* and Replenishers, the replenishWarmPool goroutines alive at one time.   *)
(***************************************************************************)
EXTENDS Integers, Sequences

CONSTANTS
    Handles,        \* the sandboxes Boot can return, each at most once
    NoHandle,       \* a nil Handle
    Ids,            \* the strings Handle.ID() returns
    IdOf,           \* the id of each handle
    Callers,        \* goroutines of the program that uses the Pool
    Replenishers,   \* replenishWarmPool goroutines
    PoolSize,       \* Config.PoolSize
    Sizes,          \* the values of MemoryMB/VCPUs; 0 stands for "omitted"
    DefaultSize,    \* Config.DefaultMemoryMB/DefaultVCPUs
    Envs,           \* the values of AllocRequest.Env
    NoEnv           \* the empty Env

Procs == Callers \cup Replenishers

\* AllocRequest: what a Backend looks at when it boots a sandbox.
Requests == [size : Sizes \cup {DefaultSize}, env : Envs]

\* The request New and replenishWarmPool boot with.
WarmRequest == [size |-> DefaultSize, env |-> NoEnv]

ASSUME PoolAssumption ==
    /\ NoHandle \notin Handles
    /\ IdOf \in [Handles -> Ids]
    /\ Callers \cap Replenishers = {}
    /\ PoolSize \in Int
    /\ Sizes \subseteq Nat
    /\ DefaultSize \in Nat
    /\ NoEnv \in Envs

\* An entry of Pool.active.  Its key is the id of its handle.
Allocations == [handle : Handles, req : Requests]
NoAllocation == [handle |-> NoHandle, req |-> WarmRequest]

VARIABLES
    preboot,    \* attempts left in the loop of New; the Pool serves at 0
    warm,       \* Pool.warm, the top of the stack at the end
    active,     \* Pool.active, as the set of its entries
    vm,         \* what has become of each sandbox
    bootedFor,  \* the request each sandbox was booted with
    pc,         \* where each goroutine stands
    req,        \* the request of the goroutine's Boot call
    booted,     \* the handle its Boot returned and it has not stored yet
    left,       \* attempts left in the loop of replenishWarmPool
    target,     \* the allocation an Execute dispatches to
    stopping,   \* handles taken out of active, still to be destroyed
    draining    \* handles taken out of warm, still to be destroyed

vars == <<preboot, warm, active, vm, bootedFor, pc, req, booted, left, target,
          stopping, draining>>

\* A Go loop "for range n" runs no iteration when n is negative.
Iterations(n) == IF n > 0 THEN n ELSE 0

Init ==
    /\ preboot = Iterations(PoolSize)
    /\ warm = <<>>
    /\ active = {}
    /\ vm = [h \in Handles |-> "unbooted"]
    /\ bootedFor = [h \in Handles |-> WarmRequest]
    /\ pc = [p \in Procs |-> "idle"]
    /\ req = [p \in Procs |-> WarmRequest]
    /\ booted = [p \in Procs |-> NoHandle]
    /\ left = [p \in Procs |-> 0]
    /\ target = [p \in Procs |-> NoAllocation]
    /\ stopping = [p \in Procs |-> {}]
    /\ draining = [p \in Procs |-> {}]

----------------------------------------------------------------------------
(* The two collections, as the code reads and writes them.                 *)

WarmHandles == {warm[i] : i \in DOMAIN warm}
ActiveHandles == {a.handle : a \in active}

\* (The definitions named Bad... are slips a change of the code could bring in,
\* one for each property to notice.  No action uses them.)

\* active[h.ID()] = &allocation{h, r}: an entry with the same id is replaced.
Recorded(h, r) ==
    {a \in active : IdOf[a.handle] # IdOf[h]} \cup {[handle |-> h, req |-> r]}

\* The defaulting at the head of Allocate.
WithDefaults(r) == IF r.size = 0 THEN [r EXCEPT !.size = DefaultSize] ELSE r

----------------------------------------------------------------------------
(* New: the pre-boot loop.  Nobody else has the Pool yet.                  *)

PreBoot(h) ==
    /\ preboot > 0
    /\ vm[h] = "unbooted"
    /\ vm' = [vm EXCEPT ![h] = "up"]
    /\ bootedFor' = [bootedFor EXCEPT ![h] = WarmRequest]
    /\ warm' = Append(warm, h)
    /\ preboot' = preboot - 1
    /\ UNCHANGED <<active, pc, req, booted, left, target, stopping,
                   draining>>

\* A failed attempt is logged and the loop goes on with the next one.
PreBootFails ==
    /\ preboot > 0
    /\ preboot' = preboot - 1
    /\ UNCHANGED <<warm, active, vm, bootedFor, pc, req, booted, left, target,
                   stopping, draining>>

\* A goroutine that holds no call may start one, once New has returned.
Ready(c) == preboot = 0 /\ pc[c] = "idle"

----------------------------------------------------------------------------
(* Allocate.                                                               *)

\* Takes the last one, removes the first one.
BadAllocateWarm(c, r, k) ==
    /\ Ready(c)
    /\ warm # <<>>
    /\ pc[k] = "idle"
    /\ warm' = SubSeq(warm, 2, Len(warm))
    /\ active' = Recorded(warm[Len(warm)], WithDefaults(r))
    /\ pc' = [pc EXCEPT ![k] = "read"]
    /\ UNCHANGED <<preboot, vm, bootedFor, req, booted, left, target, stopping,
                   draining>>

\* The warm pool has a sandbox: take the last one, record it, and start a
\* replenisher.  The call returns at once.
AllocateWarm(c, r, k) ==
    /\ Ready(c)
    /\ warm # <<>>
    /\ pc[k] = "idle"
    /\ warm' = SubSeq(warm, 1, Len(warm) - 1)
    /\ active' = Recorded(warm[Len(warm)], WithDefaults(r))
    /\ pc' = [pc EXCEPT ![k] = "read"]
    /\ UNCHANGED <<preboot, vm, bootedFor, req, booted, left, target, stopping,
                   draining>>

\* Starts a replenisher here too.
BadAllocateCold(c, r) ==
    /\ Ready(c)
    /\ warm = <<>>
    /\ req' = [req EXCEPT ![c] = WithDefaults(r)]
    /\ \E k \in Replenishers :
          /\ pc[k] = "idle"
          /\ pc' = [pc EXCEPT ![c] = "boot", ![k] = "read"]
    /\ UNCHANGED <<preboot, warm, active, vm, bootedFor, booted, left, target,
                   stopping, draining>>

\* It has none: call Boot with the lock released.  No replenisher is started.
AllocateCold(c, r) ==
    /\ Ready(c)
    /\ warm = <<>>
    /\ req' = [req EXCEPT ![c] = WithDefaults(r)]
    /\ pc' = [pc EXCEPT ![c] = "boot"]
    /\ UNCHANGED <<preboot, warm, active, vm, bootedFor, booted, left, target,
                   stopping, draining>>

\* Record the sandbox Boot returned.
StoreActive(c) ==
    /\ c \in Callers
    /\ pc[c] = "store"
    /\ active' = Recorded(booted[c], req[c])
    /\ booted' = [booted EXCEPT ![c] = NoHandle]
    /\ req' = [req EXCEPT ![c] = WarmRequest]
    /\ pc' = [pc EXCEPT ![c] = "idle"]
    /\ UNCHANGED <<preboot, warm, vm, bootedFor, left, target, stopping,
                   draining>>

----------------------------------------------------------------------------
(* Backend.Boot, called by Allocate and by replenishWarmPool.              *)

BootReturns(p, h) ==
    /\ pc[p] = "boot"
    /\ vm[h] = "unbooted"
    /\ vm' = [vm EXCEPT ![h] = "up"]
    /\ bootedFor' = [bootedFor EXCEPT ![h] = req[p]]
    /\ booted' = [booted EXCEPT ![p] = h]
    /\ pc' = [pc EXCEPT ![p] = "store"]
    /\ UNCHANGED <<preboot, warm, active, req, left, target, stopping, draining>>

\* Allocate returns the error; a replenisher gives up its remaining attempts.
BootFails(p) ==
    /\ pc[p] = "boot"
    /\ req' = [req EXCEPT ![p] = WarmRequest]
    /\ left' = [left EXCEPT ![p] = 0]
    /\ pc' = [pc EXCEPT ![p] = "idle"]
    /\ UNCHANGED <<preboot, warm, active, vm, bootedFor, booted, target,
                   stopping, draining>>

----------------------------------------------------------------------------
(* replenishWarmPool.                                                      *)

\* How many sandboxes are missing from the warm pool; the slips forget those
\* that are there, and one.
BadNeeded == Iterations(PoolSize)
ShortNeeded == Iterations(PoolSize - Len(warm) - 1)
Needed == Iterations(PoolSize - Len(warm))

\* It is read once, under the lock.
ReadNeeded(k) ==
    /\ pc[k] = "read"
    /\ left' = [left EXCEPT ![k] = Needed]
    /\ pc' = [pc EXCEPT ![k] = IF left'[k] > 0 THEN "boot" ELSE "idle"]
    /\ UNCHANGED <<preboot, warm, active, vm, bootedFor, req, booted, target,
                   stopping, draining>>

\* Runs one round too many.
BadStoreWarm(k) ==
    /\ k \in Replenishers
    /\ pc[k] = "store"
    /\ warm' = Append(warm, booted[k])
    /\ booted' = [booted EXCEPT ![k] = NoHandle]
    /\ left' = [left EXCEPT ![k] = left[k] - 1]
    /\ pc' = [pc EXCEPT ![k] = IF left'[k] >= 0 THEN "boot" ELSE "idle"]
    /\ UNCHANGED <<preboot, active, vm, bootedFor, req, target, stopping,
                   draining>>

\* Every sandbox booted is appended, whatever the pool holds by then.
StoreWarm(k) ==
    /\ k \in Replenishers
    /\ pc[k] = "store"
    /\ warm' = Append(warm, booted[k])
    /\ booted' = [booted EXCEPT ![k] = NoHandle]
    /\ left' = [left EXCEPT ![k] = left[k] - 1]
    /\ pc' = [pc EXCEPT ![k] = IF left'[k] > 0 THEN "boot" ELSE "idle"]
    /\ UNCHANGED <<preboot, active, vm, bootedFor, req, target, stopping,
                   draining>>

----------------------------------------------------------------------------
(* Execute.  An unknown id is refused and changes nothing.                 *)

\* The allocation is read under the lock and used after it is released.
ExecuteLookup(c, a) ==
    /\ Ready(c)
    /\ a \in active
    /\ target' = [target EXCEPT ![c] = a]
    /\ pc' = [pc EXCEPT ![c] = "exec"]
    /\ UNCHANGED <<preboot, warm, active, vm, bootedFor, req, booted, left,
                   stopping, draining>>

\* Backend.Exec returns a result or an error; the Pool keeps neither.
ExecReturns(c) ==
    /\ pc[c] = "exec"
    /\ target' = [target EXCEPT ![c] = NoAllocation]
    /\ pc' = [pc EXCEPT ![c] = "idle"]
    /\ UNCHANGED <<preboot, warm, active, vm, bootedFor, req, booted, left,
                   stopping, draining>>

----------------------------------------------------------------------------
(* Release and Shutdown: take the sandboxes out under the lock, destroy    *)
(* them one after the other without it.                                    *)

\* Leaves the entry in the map.
BadRelease(c, a) ==
    /\ Ready(c)
    /\ a \in active
    /\ stopping' = [stopping EXCEPT ![c] = {a.handle}]
    /\ pc' = [pc EXCEPT ![c] = "release"]
    /\ UNCHANGED <<preboot, warm, active, vm, bootedFor, req, booted, left,
                   target, draining>>

\* Gives the sandbox back to the warm pool.
BadReuse(c, a) ==
    /\ Ready(c)
    /\ a \in active
    /\ active' = active \ {a}
    /\ warm' = Append(warm, a.handle)
    /\ UNCHANGED <<preboot, vm, bootedFor, pc, req, booted, left, target,
                   stopping, draining>>

\* Empties the warm pool and forgets what was in it.
BadDrain(c) ==
    /\ Ready(c)
    /\ active' = {}
    /\ warm' = <<>>
    /\ stopping' = [stopping EXCEPT ![c] = ActiveHandles]
    /\ pc' = [pc EXCEPT ![c] = "shutdown"]
    /\ UNCHANGED <<preboot, vm, bootedFor, req, booted, left, target, draining>>

\* Destroys the active sandboxes without taking them out of the map.
BadShutdown(c) ==
    /\ Ready(c)
    /\ warm' = <<>>
    /\ stopping' = [stopping EXCEPT ![c] = ActiveHandles]
    /\ draining' = [draining EXCEPT ![c] = WarmHandles]
    /\ pc' = [pc EXCEPT ![c] = "shutdown"]
    /\ UNCHANGED <<preboot, active, vm, bootedFor, req, booted, left, target>>

\* Release of an id that is not active changes nothing.
Release(c, a) ==
    /\ Ready(c)
    /\ a \in active
    /\ active' = active \ {a}
    /\ stopping' = [stopping EXCEPT ![c] = {a.handle}]
    /\ pc' = [pc EXCEPT ![c] = "release"]
    /\ UNCHANGED <<preboot, warm, vm, bootedFor, req, booted, left, target,
                   draining>>

Shutdown(c) ==
    /\ Ready(c)
    /\ active' = {}
    /\ warm' = <<>>
    /\ stopping' = [stopping EXCEPT ![c] = ActiveHandles]
    /\ draining' = [draining EXCEPT ![c] = WarmHandles]
    /\ pc' = [pc EXCEPT ![c] = "shutdown"]
    /\ UNCHANGED <<preboot, vm, bootedFor, req, booted, left, target>>

\* Gives up at the first error.
BadDestroyReturns(c, h, outcome) ==
    /\ pc[c] \in {"release", "shutdown"}
    /\ \/ h \in stopping[c]
       \/ stopping[c] = {} /\ h \in draining[c]
    /\ vm' = [vm EXCEPT ![h] = outcome]
    /\ stopping' = [stopping EXCEPT ![c] = IF outcome = "down" THEN @ \ {h} ELSE {}]
    /\ draining' = [draining EXCEPT ![c] = IF outcome = "down" THEN @ \ {h} ELSE {}]
    /\ UNCHANGED <<preboot, warm, active, bootedFor, pc, req, booted, left,
                   target>>

\* Never comes to the warm ones.
BadDestroyLoop(c, h, outcome) ==
    /\ pc[c] \in {"release", "shutdown"}
    /\ h \in stopping[c]
    /\ vm' = [vm EXCEPT ![h] = outcome]
    /\ stopping' = [stopping EXCEPT ![c] = @ \ {h}]
    /\ UNCHANGED <<preboot, warm, active, bootedFor, pc, req, booted, left,
                   target, draining>>

\* Returns after the active ones.
BadStopReturns(c) ==
    /\ pc[c] \in {"release", "shutdown"}
    /\ stopping[c] = {}
    /\ pc' = [pc EXCEPT ![c] = "idle"]
    /\ UNCHANGED <<preboot, warm, active, vm, bootedFor, req, booted, left,
                   target, stopping, draining>>

\* Backend.Destroy of the next sandbox: the active ones first (a map, so in
\* any order), then the warm ones.  An error is logged and the loop goes on.
DestroyReturns(c, h, outcome) ==
    /\ pc[c] \in {"release", "shutdown"}
    /\ \/ h \in stopping[c]
       \/ stopping[c] = {} /\ h \in draining[c]
    /\ vm' = [vm EXCEPT ![h] = outcome]
    /\ stopping' = [stopping EXCEPT ![c] = @ \ {h}]
    /\ draining' = [draining EXCEPT ![c] = @ \ {h}]
    /\ UNCHANGED <<preboot, warm, active, bootedFor, pc, req, booted, left,
                   target>>

StopReturns(c) ==
    /\ pc[c] \in {"release", "shutdown"}
    /\ stopping[c] = {}
    /\ draining[c] = {}
    /\ pc' = [pc EXCEPT ![c] = "idle"]
    /\ UNCHANGED <<preboot, warm, active, vm, bootedFor, req, booted, left,
                   target, stopping, draining>>

----------------------------------------------------------------------------

\* A call of the program using the Pool.
Call(c) ==
    \/ \E r \in Requests, k \in Replenishers : AllocateWarm(c, r, k)
    \/ \E r \in Requests : AllocateCold(c, r)
    \/ \E a \in active : ExecuteLookup(c, a)
    \/ \E a \in active : Release(c, a)
    \/ Shutdown(c)

\* A step of a goroutine that is inside the Pool.
Continue(p) ==
    \/ \E h \in Handles : BootReturns(p, h)
    \/ BootFails(p)
    \/ StoreActive(p)
    \/ ReadNeeded(p)
    \/ StoreWarm(p)
    \/ ExecReturns(p)
    \/ \E h \in Handles, outcome \in {"down", "lost"} :
          DestroyReturns(p, h, outcome)
    \/ StopReturns(p)

Next ==
    \/ \E h \in Handles : PreBoot(h)
    \/ PreBootFails
    \/ \E c \in Callers : Call(c)
    \/ \E p \in Procs : Continue(p)

Spec == Init /\ [][Next]_vars

\* The Backend's calls return and the scheduler runs every goroutine that can
\* run.  Nobody is obliged to call the Pool.
Fairness == \A p \in Procs : WF_vars(Continue(p))

FairSpec == Spec /\ Fairness

----------------------------------------------------------------------------
(* Properties.                                                             *)

TypeOK ==
    /\ preboot \in Nat
    /\ warm \in Seq(Handles)
    /\ active \subseteq Allocations
    /\ vm \in [Handles -> {"unbooted", "up", "down", "lost"}]
    /\ bootedFor \in [Handles -> Requests]
    /\ pc \in [Procs -> {"idle", "boot", "store", "read", "exec", "release",
                         "shutdown"}]
    /\ req \in [Procs -> Requests]
    /\ booted \in [Procs -> Handles \cup {NoHandle}]
    /\ left \in [Procs -> Nat]
    /\ target \in [Procs -> Allocations \cup {NoAllocation}]
    /\ stopping \in [Procs -> SUBSET Handles]
    /\ draining \in [Procs -> SUBSET Handles]

\* The sandboxes a goroutine alone answers for: the one its Boot returned and
\* those it has still to destroy.
InHand(p) ==
    {h \in Handles : h = booted[p]} \cup stopping[p] \cup draining[p]

\* Every sandbox is in at most one place: once in the warm pool, or in one
\* active entry, or in the hands of one goroutine.  So no two goroutines ever
\* destroy the same sandbox, and none is handed out while it is destroyed.
SingleOwner ==
    /\ \A i, j \in DOMAIN warm : warm[i] = warm[j] => i = j
    /\ WarmHandles \cap ActiveHandles = {}
    /\ \A p \in Procs : InHand(p) \cap (WarmHandles \cup ActiveHandles) = {}
    /\ \A p, q \in Procs : p # q => InHand(p) \cap InHand(q) = {}
    /\ \A p \in Procs : stopping[p] \cap draining[p] = {}

Owned(h) ==
    \/ h \in WarmHandles \cup ActiveHandles
    \/ \E p \in Procs : h \in InHand(p)

\* Neither the warm pool nor the active map ever holds a sandbox whose Destroy
\* has returned, and no goroutine destroys one a second time.
OwnedIsUp == \A h \in Handles : Owned(h) => vm[h] = "up"

\* A running sandbox that nobody can reach any more (so that nobody will ever
\* destroy it) was displaced from the active map by one with the same id.
NoLeak ==
    \A h \in Handles :
        vm[h] = "up" /\ ~Owned(h) =>
            \E g \in Handles \ {h} : IdOf[g] = IdOf[h] /\ vm[g] # "unbooted"

\* Execute uses the allocation it read after the lock is gone.  Meanwhile the
\* sandbox may be released, but it is never offered to another Allocate nor
\* recorded for another request.
ExecKeepsTenant ==
    \A c \in Callers : pc[c] = "exec" =>
        /\ target[c].handle \notin WarmHandles
        /\ \A p \in Procs : target[c].handle # booted[p]
        /\ \A a \in active : a.handle = target[c].handle => a = target[c]

\* The Pool serves, its warm pool is empty, and no replenisher runs.
Cold ==
    /\ preboot = 0
    /\ warm = <<>>
    /\ \A k \in Replenishers : pc[k] = "idle"

\* A cold pool stays cold whatever is called: no Allocate that boots its own
\* sandbox starts a replenisher, no Release brings a sandbox back, and no
\* goroutine under way has one for the warm pool.  So once the boots of the
\* last replenisher have failed, or a Shutdown has run, every later Allocate
\* waits for a boot.
ColdStaysCold == [][Cold => Cold']_vars

\* Every call of the Pool and every replenisher comes to its end.
CallsReturn == \A p \in Procs : pc[p] # "idle" ~> pc[p] = "idle"

\* The sandboxes taken out of the Pool and not yet destroyed.
Retiring == UNION {stopping[p] \cup draining[p] : p \in Procs}

\* The life of each sandbox, as SandboxLifecycle tells it.
Phase ==
    [h \in Handles |->
        IF vm[h] = "unbooted" THEN "unbooted"
        ELSE IF vm[h] # "up" THEN "gone"
        ELSE IF h \in ActiveHandles THEN "leased"
        ELSE IF h \in Retiring THEN "retired"
        ELSE "ready"]

Lifecycle == INSTANCE SandboxLifecycle WITH phase <- Phase

\* The Pool takes each sandbox through its life once: it is leased at most
\* once, never comes back from a release, and what is taken out is destroyed.
LifecycleSpec == Lifecycle!Spec
LifecycleFairSpec == Lifecycle!FairSpec

\* "Shutdown stops all active sandboxes and drains the warm pool": when a
\* Shutdown returns, the warm pool is empty.
ShutdownDrains ==
    [][\A c \in Callers :
          pc[c] = "shutdown" /\ pc'[c] = "idle" => warm = <<>>]_vars

\* A tool call runs in a sandbox that was booted with the Env of the request
\* it was allocated for.
EnvDelivered ==
    \A c \in Callers : pc[c] = "exec" =>
        bootedFor[target[c].handle].env = target[c].req.env
=============================================================================
