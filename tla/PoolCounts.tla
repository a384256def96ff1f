----------------------------- MODULE PoolCounts -----------------------------
(***************************************************************************)
(* What the replenishers of SandboxPool still have to deliver, counted.    *)
(***************************************************************************)
EXTENDS SandboxPool, FiniteSets

\* A replenisher can be started, and only so many goroutines run at one time.
ASSUME CountAssumption == IsFiniteSet(Replenishers) /\ Replenishers # {}

\* So far every boot of a warm sandbox has succeeded and nobody has called
\* Shutdown.
VARIABLE steady

CountInit == Init /\ steady = TRUE

CountNext ==
    /\ Next
    /\ steady' = (steady /\ ~PreBootFails
                        /\ (\A k \in Replenishers : ~BootFails(k))
                        /\ (\A c \in Callers : ~Shutdown(c)))

CountSpec == CountInit /\ [][CountNext]_<<vars, steady>>

\* The rounds that the replenishers of S, with their loops at l, have before them.
Rounds(l, S) == UNION {{k} \X (1 .. l[k]) : k \in S}

\* Sandboxes the running replenishers have still to add to the warm pool.
Promised == Cardinality(Rounds(left, Replenishers))

\* A replenisher counts what is missing once and then boots as many, so several
\* of them together overfill the pool, but never beyond PoolSize for each that
\* can be running; one alone never goes beyond PoolSize.
WarmBound ==
    preboot + Len(warm) + Promised
        <= Iterations(PoolSize) * Cardinality(Replenishers)

\* What is taken from the warm pool is replaced: as long as the pool is steady,
\* what it holds and what the running replenishers have still to add make up
\* PoolSize, unless one of them has yet to count what is missing.
RefillPromise ==
    steady /\ preboot = 0 =>
        \/ \E k \in Replenishers : pc[k] = "read"
        \/ Len(warm) + Promised >= PoolSize
=============================================================================
