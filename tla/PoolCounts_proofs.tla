-------------------------- MODULE PoolCounts_proofs --------------------------
(***************************************************************************)
(* Proofs about PoolCounts: how far any number of replenishers overfill    *)
(* the warm pool, and that they refill it.                                 *)
(***************************************************************************)
EXTENDS PoolCounts, SandboxPool_proofs, FiniteSetTheorems

----------------------------------------------------------------------------
(* The rounds, counted.                                                    *)

N == Iterations(PoolSize)

LEMMA PoolSizeType == N \in Nat /\ PoolSize <= N /\ PoolSize \in Int
BY PoolAssumption DEF N, Iterations

LEMMA Crowd ==
    ASSUME NEW k \in Replenishers
    PROVE  /\ Cardinality(Replenishers) \in Nat
           /\ Cardinality(Replenishers \ {k}) = Cardinality(Replenishers) - 1
           /\ Cardinality(Replenishers \ {k}) \in Nat
           /\ IsFiniteSet(Replenishers \ {k})
BY CountAssumption, FS_RemoveElement, FS_CardinalityType

LEMMA Multiples ==
    ASSUME NEW n \in Nat, NEW m \in Nat, m >= 1
    PROVE  n * m \in Nat /\ n <= n * m /\ (m - 1) * n = n * m - n
BY SMT

LEMMA Ceiling ==
    /\ N * Cardinality(Replenishers) \in Nat
    /\ N <= N * Cardinality(Replenishers)
    /\ (Cardinality(Replenishers) - 1) * N = N * Cardinality(Replenishers) - N
<1>1. PICK k \in Replenishers : TRUE
  BY CountAssumption
<1>2. /\ Cardinality(Replenishers) \in Nat
      /\ Cardinality(Replenishers) - 1 \in Nat
  BY <1>1, Crowd
<1>3. Cardinality(Replenishers) >= 1
  BY <1>2
<1> QED BY <1>2, <1>3, PoolSizeType, Multiples

LEMMA UpTo ==
    ASSUME NEW m \in Nat
    PROVE  IsFiniteSet(1 .. m) /\ Cardinality(1 .. m) = m
BY FS_Interval

\* No S of replenishers that are bounded one by one has more rounds than the
\* rectangle S \X (1 .. n).
LEMMA RoundsBounded ==
    ASSUME NEW l, NEW S, IsFiniteSet(S), NEW n \in Nat,
           \A k \in S : l[k] \in Nat /\ l[k] <= n
    PROVE  /\ IsFiniteSet(Rounds(l, S))
           /\ Cardinality(Rounds(l, S)) \in Nat
           /\ Cardinality(Rounds(l, S)) <= Cardinality(S) * n
<1>1. Rounds(l, S) \subseteq S \X (1 .. n)
  <2>1. \A k \in S : 1 .. l[k] \subseteq 1 .. n
    OBVIOUS
  <2>2. \A k \in S : {k} \X (1 .. l[k]) \subseteq S \X (1 .. n)
    BY <2>1
  <2> QED BY <2>2 DEF Rounds
<1>2. IsFiniteSet(1 .. n) /\ Cardinality(1 .. n) = n
  BY UpTo
<1>3. IsFiniteSet(S \X (1 .. n)) /\ Cardinality(S \X (1 .. n)) = Cardinality(S) * n
  BY <1>2, FS_Product
<1>4. IsFiniteSet(Rounds(l, S)) /\ Cardinality(Rounds(l, S)) <= Cardinality(S \X (1 .. n))
  BY <1>1, <1>3, FS_Subset
<1> QED BY <1>3, <1>4, FS_CardinalityType

\* One replenisher's rounds come on top of those of the others.
LEMMA RoundsSplit ==
    ASSUME NEW l, NEW S, NEW k \in S, IsFiniteSet(S), NEW n \in Nat,
           \A j \in S : l[j] \in Nat /\ l[j] <= n
    PROVE  Cardinality(Rounds(l, S)) = Cardinality(Rounds(l, S \ {k})) + l[k]
<1> DEFINE A == Rounds(l, S \ {k})
           B == {k} \X (1 .. l[k])
<1>1. Rounds(l, S) = A \cup B /\ A \cap B = {}
  <2>1. Rounds(l, S) = A \cup B
    BY DEF Rounds
  <2>2. A \cap B = {}
    BY DEF Rounds
  <2> QED BY <2>1, <2>2
<1>2. IsFiniteSet(S \ {k})
  BY FS_RemoveElement
<1>3. IsFiniteSet(A) /\ Cardinality(A) \in Nat
  <2>1. \A j \in S \ {k} : l[j] \in Nat /\ l[j] <= n
    OBVIOUS
  <2> QED BY <1>2, <2>1, RoundsBounded
<1>4. IsFiniteSet(1 .. l[k]) /\ Cardinality(1 .. l[k]) = l[k]
  BY UpTo
<1>5. IsFiniteSet(B) /\ Cardinality(B) = l[k]
  <2>1. IsFiniteSet({k}) /\ Cardinality({k}) = 1
    BY FS_Singleton
  <2> DEFINE C == 1 .. l[k]
  <2>2. IsFiniteSet(C) /\ Cardinality(C) = l[k] /\ l[k] \in Nat
    BY <1>4
  <2>3. B = {k} \X C
    OBVIOUS
  <2> HIDE DEF B, C
  <2>4. IsFiniteSet({k} \X C) /\ Cardinality({k} \X C) = Cardinality({k}) * Cardinality(C)
    BY <2>1, <2>2, FS_Product
  <2>5. Cardinality({k}) * Cardinality(C) = l[k]
    BY <2>1, <2>2
  <2> QED BY <2>3, <2>4, <2>5
<1> HIDE DEF A, B
<1>6. Cardinality(A \cup B) = Cardinality(A) + Cardinality(B) - Cardinality(A \cap B)
  BY <1>3, <1>5, FS_Union
<1>7. Cardinality(A \cap B) = 0
  BY <1>1, FS_EmptySet
<1> QED BY <1>1, <1>3, <1>5, <1>6, <1>7 DEF A

LEMMA RoundsSame ==
    ASSUME NEW l, NEW m, NEW S, \A k \in S : l[k] = m[k]
    PROVE  Rounds(l, S) = Rounds(m, S)
BY DEF Rounds

----------------------------------------------------------------------------
(* The invariant.                                                          *)

Bounded == \A k \in Replenishers : left[k] <= N

\* Nobody uses the Pool before New has returned.
Quiet == preboot > 0 => \A p \in Procs : pc[p] = "idle"

Reading == \E k \in Replenishers : pc[k] = "read"

Total == preboot + Len(warm) + Promised

Refilled == steady => Reading \/ Total >= PoolSize

Counts ==
    /\ Bounded
    /\ Quiet
    /\ Total <= N * Cardinality(Replenishers)
    /\ steady \in BOOLEAN
    /\ Refilled

LEMMA CountsInit == CountInit => Counts
<1> SUFFICES ASSUME CountInit PROVE Counts
  OBVIOUS
<1>1. /\ preboot = N /\ warm = <<>> /\ steady = TRUE
      /\ \A p \in Procs : pc[p] = "idle"
      /\ \A k \in Replenishers : left[k] = 0
  BY DEF CountInit, Init, N, Procs
<1>2. Promised = 0
  <2>1. \A k \in Replenishers : {k} \X (1 .. left[k]) = {}
    BY <1>1
  <2>2. Rounds(left, Replenishers) = {}
    BY <2>1 DEF Rounds
  <2> QED BY <2>2, FS_EmptySet DEF Promised
<1>3. Total = N
  BY <1>1, <1>2, PoolSizeType, EmptySeq DEF Total
<1>4. N <= N * Cardinality(Replenishers)
  BY Ceiling
<1> QED BY <1>1, <1>3, <1>4, PoolSizeType DEF Counts, Bounded, Quiet, Refilled

\* What the counts are made of, and what they are without one replenisher.
LEMMA CountFacts ==
    ASSUME TypeInv, Counts
    PROVE  /\ preboot \in Nat /\ Len(warm) \in Nat /\ Promised \in Nat
           /\ Total \in Nat
           /\ \A k \in Replenishers : left[k] \in Nat /\ left[k] <= N
<1>1. \A k \in Replenishers : left[k] \in Nat /\ left[k] <= N
  BY DEF TypeInv, TypeOK, Counts, Bounded, Procs
<1>2. Promised \in Nat
  BY <1>1, PoolSizeType, CountAssumption, RoundsBounded DEF Promised
<1>3. preboot \in Nat /\ Len(warm) \in Nat
  BY LenProperties DEF TypeInv, TypeOK
<1> QED BY <1>1, <1>2, <1>3 DEF Total

\* A step that leaves the counts alone, or takes something away from a pool
\* that is steady no longer or has a replenisher that is yet to count.
LEMMA EasyKeeps ==
    ASSUME TypeInv, TypeInv', Counts, Quiet', steady' \in BOOLEAN, steady' => steady,
           \A k \in Replenishers : left'[k] = left[k],
           preboot' + Len(warm') <= preboot + Len(warm),
           \/ ~steady' \/ Reading'
           \/ (preboot' + Len(warm') = preboot + Len(warm) /\ (Reading => Reading'))
    PROVE  Counts'
<1>1. Bounded'
  BY DEF Counts, Bounded
<1>2. Promised' = Promised
  BY RoundsSame DEF Promised
<1>3. preboot \in Nat /\ Len(warm) \in Nat /\ Promised \in Nat
  BY CountFacts
<1>4. preboot' \in Nat /\ Len(warm') \in Nat
  BY LenProperties DEF TypeInv, TypeOK
<1>5. Total' <= Total /\ (preboot' + Len(warm') = preboot + Len(warm) => Total' = Total)
  BY <1>2, <1>3, <1>4 DEF Total
<1>6. (Total <= N * Cardinality(Replenishers))'
  <2>1. Total' \in Int /\ Total \in Int
    BY <1>2, <1>3, <1>4 DEF Total
  <2>2. N * Cardinality(Replenishers) \in Int
    BY Ceiling
  <2> QED BY <1>5, <2>1, <2>2 DEF Counts, N
<1>7. Refilled'
  BY <1>5 DEF Refilled, Counts
<1> QED BY <1>1, <1>6, <1>7 DEF Counts

\* A step that changes what one replenisher has before it.
LEMMA LeftKeeps ==
    ASSUME TypeInv, TypeInv', Counts, Quiet', preboot' = preboot,
           steady' \in BOOLEAN, steady' => steady,
           NEW k \in Replenishers,
           \A j \in Replenishers \ {k} : left'[j] = left[j],
           left'[k] <= N
    PROVE  /\ Bounded'
           /\ \E rest \in Nat :
                /\ rest <= N * Cardinality(Replenishers) - N
                /\ Total = preboot + Len(warm) + rest + left[k]
                /\ Total' = preboot + Len(warm') + rest + left'[k]
<1> DEFINE S == Replenishers \ {k}
           rest == Cardinality(Rounds(left, S))
<1>1. \A j \in Replenishers : left[j] \in Nat /\ left[j] <= N
  BY CountFacts
<1>2. \A j \in Replenishers : left'[j] \in Nat /\ left'[j] <= N
  BY <1>1 DEF TypeInv, TypeOK, Procs
<1>3. N \in Nat
  BY PoolSizeType
<1>4. rest \in Nat /\ rest <= Cardinality(S) * N
  <2>1. \A j \in S : left[j] \in Nat /\ left[j] <= N
    BY <1>1
  <2> QED BY <1>3, <2>1, Crowd, RoundsBounded
<1>5. rest <= N * Cardinality(Replenishers) - N
  <2>1. Cardinality(S) * N = N * Cardinality(Replenishers) - N
    BY Ceiling, Crowd
  <2> QED BY <1>4, <2>1
<1>6. Promised = rest + left[k]
  BY <1>1, <1>3, CountAssumption, RoundsSplit DEF Promised
<1>7. Promised' = rest + left'[k]
  <2>1. Cardinality(Rounds(left', Replenishers)) = Cardinality(Rounds(left', S)) + left'[k]
    BY <1>2, <1>3, CountAssumption, RoundsSplit
  <2>2. Rounds(left', S) = Rounds(left, S)
    BY RoundsSame
  <2> QED BY <2>1, <2>2 DEF Promised
<1>8. Bounded'
  BY <1>2 DEF Bounded, N
<1>9. /\ preboot \in Nat /\ Len(warm) \in Nat /\ Len(warm') \in Nat
      /\ left[k] \in Nat /\ left'[k] \in Nat
  BY <1>1, <1>2, LenProperties DEF TypeInv, TypeOK
<1> HIDE DEF rest
<1>10. /\ Total = preboot + Len(warm) + rest + left[k]
       /\ Total' = preboot + Len(warm') + rest + left'[k]
  BY <1>4, <1>6, <1>7, <1>9, SMTT(30) DEF Total
<1> QED BY <1>4, <1>5, <1>8, <1>10

LEMMA ReadNeededKeeps ==
    ASSUME TypeInv, TypeInv', Counts, NEW k \in Replenishers, ReadNeeded(k),
           Quiet', steady' \in BOOLEAN, steady' => steady
    PROVE  Counts'
<1>1. preboot' = preboot /\ warm' = warm /\ pc[k] = "read" /\ k \in Procs
  BY DEF ReadNeeded, Procs
<1>2. preboot = 0
  BY <1>1 DEF Counts, Quiet, TypeInv, TypeOK
<1>3. left'[k] = Needed /\ \A j \in Replenishers \ {k} : left'[j] = left[j]
  BY <1>1 DEF ReadNeeded, TypeInv, TypeOK, Procs
<1>4. Len(warm) \in Nat /\ left[k] \in Nat
  BY CountFacts
<1>5. /\ Needed \in Nat /\ Needed <= N
      /\ Len(warm) + Needed >= PoolSize
      /\ Needed = 0 \/ Len(warm) + Needed = N
  BY <1>4, PoolAssumption DEF Needed, Iterations, N
<1>6. PICK rest \in Nat :
        /\ rest <= N * Cardinality(Replenishers) - N
        /\ Total = preboot + Len(warm) + rest + left[k]
        /\ Total' = preboot + Len(warm') + rest + left'[k]
  BY <1>1, <1>3, <1>5, LeftKeeps
<1>7. Bounded'
  BY <1>1, <1>3, <1>5, LeftKeeps
<1>8. N * Cardinality(Replenishers) \in Int /\ N \in Nat
  BY Ceiling, PoolSizeType
<1>9. Total <= N * Cardinality(Replenishers)
  BY DEF Counts
<1>10. Total' <= N * Cardinality(Replenishers)
  BY <1>1, <1>2, <1>3, <1>4, <1>5, <1>6, <1>8, <1>9
<1>11. Total' >= PoolSize
  BY <1>1, <1>2, <1>3, <1>4, <1>5, <1>6, PoolSizeType
<1> QED BY <1>7, <1>10, <1>11 DEF Counts, Refilled, N

LEMMA StoreWarmCounts ==
    ASSUME TypeInv, TypeInv', Counts, NEW k \in Replenishers, StoreWarm(k),
           Quiet', steady' \in BOOLEAN, steady' => steady
    PROVE  Counts'
<1>1. preboot' = preboot /\ pc[k] = "store" /\ k \in Procs /\ warm' = Append(warm, booted[k])
  BY DEF StoreWarm, Procs
<1>2. left[k] \in Nat /\ left[k] > 0 /\ left[k] <= N /\ Len(warm) \in Nat /\ preboot \in Nat
  BY <1>1, CountFacts DEF TypeInv, LocalsOK
<1>3. Len(warm') = Len(warm) + 1
  <2>1. booted[k] \in Handles
    BY <1>1, PoolAssumption DEF TypeInv, TypeOK, LocalsOK
  <2> QED BY <1>1, <2>1, AppendProperties DEF TypeInv, TypeOK
<1>4. left'[k] = left[k] - 1 /\ \A j \in Replenishers \ {k} : left'[j] = left[j]
  BY <1>1 DEF StoreWarm, TypeInv, TypeOK, Procs
<1>5. left'[k] <= N
  BY <1>2, <1>4, PoolSizeType
<1>6. PICK rest \in Nat :
        /\ Total = preboot + Len(warm) + rest + left[k]
        /\ Total' = preboot + Len(warm') + rest + left'[k]
  BY <1>1, <1>4, <1>5, LeftKeeps
<1>7. Bounded'
  BY <1>1, <1>4, <1>5, LeftKeeps
<1>8. Total' = Total
  BY <1>2, <1>3, <1>4, <1>6
<1>9. Reading => Reading'
  <2>1. \A j \in Replenishers \ {k} : pc'[j] = pc[j]
    BY <1>1 DEF StoreWarm, TypeInv, TypeOK, Procs
  <2> QED BY <1>1, <2>1 DEF Reading
<1> QED BY <1>7, <1>8, <1>9 DEF Counts, Refilled, N

LEMMA BootFailsCounts ==
    ASSUME TypeInv, TypeInv', Counts, NEW k \in Replenishers, BootFails(k),
           Quiet', steady' = FALSE
    PROVE  Counts'
<1>1. preboot' = preboot /\ warm' = warm /\ k \in Procs
  BY DEF BootFails, Procs
<1>2. left'[k] = 0 /\ \A j \in Replenishers \ {k} : left'[j] = left[j]
  BY <1>1 DEF BootFails, TypeInv, TypeOK, Procs
<1>3. left[k] \in Nat /\ Len(warm) \in Nat /\ preboot \in Nat /\ N \in Nat
  BY CountFacts, PoolSizeType
<1>0. left'[k] <= N
  BY <1>2, <1>3
<1>8. steady' \in BOOLEAN /\ (steady' => steady)
  OBVIOUS
<1>4. PICK rest \in Nat :
        /\ Total = preboot + Len(warm) + rest + left[k]
        /\ Total' = preboot + Len(warm') + rest + left'[k]
  BY <1>0, <1>1, <1>2, <1>8, LeftKeeps
<1>5. Bounded'
  BY <1>0, <1>1, <1>2, <1>8, LeftKeeps
<1>6. Total' <= Total /\ Total \in Int /\ Total' \in Int
  BY <1>1, <1>2, <1>3, <1>4
<1>7. (Total <= N * Cardinality(Replenishers))'
  <2>1. N * Cardinality(Replenishers) \in Int
    BY Ceiling
  <2> QED BY <1>6, <2>1 DEF Counts, N
<1> QED BY <1>5, <1>7 DEF Counts, Refilled

LEMMA QuietNext ==
    ASSUME TypeInv, Quiet, [Next]_vars
    PROVE  Quiet'
<1>1. CASE preboot' > 0
  <2>1. preboot > 0
    BY <1>1 DEF Next, vars, TypeInv, TypeOK, PreBoot, PreBootFails, Call, Continue, AllocateWarm,
       AllocateCold, ExecuteLookup, Release, Shutdown, BootReturns, BootFails, StoreActive,
       ReadNeeded, StoreWarm, ExecReturns, DestroyReturns, StopReturns
  <2>2. \A p \in Procs : pc[p] = "idle"
    BY <2>1 DEF Quiet
  <2>3. ~ \E p \in Procs : Continue(p)
    BY <2>2 DEF Continue, BootReturns, BootFails, StoreActive, ReadNeeded, StoreWarm,
       ExecReturns, DestroyReturns, StopReturns
  <2>4. ~ \E c \in Callers : Call(c)
    BY <2>1 DEF Call, Ready, AllocateWarm, AllocateCold, ExecuteLookup, Release, Shutdown,
       TypeInv, TypeOK
  <2>5. pc' = pc
    BY <2>3, <2>4 DEF Next, vars, PreBoot, PreBootFails
  <2> QED BY <2>2, <2>5 DEF Quiet
<1>2. CASE ~(preboot' > 0)
  BY <1>2 DEF Quiet
<1> QED BY <1>1, <1>2

LEMMA CountsNext ==
    ASSUME TypeInv, Counts, [CountNext]_<<vars, steady>>
    PROVE  Counts'
<1>1. [Next]_vars
  BY DEF CountNext
<1>2. TypeInv'
  BY <1>1, TypeInvNext
<1>3. Quiet'
  BY <1>1, QuietNext DEF Counts
<1>4. steady' \in BOOLEAN /\ (steady' => steady)
  <2>1. CASE CountNext
    BY <2>1, Zenon DEF CountNext
  <2>2. CASE UNCHANGED <<vars, steady>>
    BY <2>2 DEF Counts
  <2> QED BY <2>1, <2>2
<1>5. /\ preboot \in Nat /\ Len(warm) \in Nat
      /\ preboot' \in Nat /\ Len(warm') \in Nat
  BY <1>2, LenProperties DEF TypeInv, TypeOK
<1>6. SUFFICES ASSUME CountNext PROVE Counts'
  <2>1. CASE UNCHANGED <<vars, steady>>
    <3>1. Promised' = Promised /\ Reading' = Reading
      BY <2>1 DEF Promised, Reading, vars
    <3> QED BY <2>1, <3>1, <1>3 DEF vars, Counts, Bounded, Total, Refilled
  <2> QED BY <2>1, <1>6
<1>7. ASSUME NEW h \in Handles, PreBoot(h) PROVE Counts'
  <2>1. Len(warm') = Len(warm) + 1 /\ preboot' = preboot - 1 /\ left' = left /\ pc' = pc
    BY <1>7, AppendProperties DEF PreBoot, TypeInv, TypeOK
  <2>2. preboot' + Len(warm') = preboot + Len(warm) /\ (Reading => Reading')
    BY <1>5, <2>1 DEF Reading
  <2> QED BY <1>2, <1>3, <1>4, <1>5, <2>1, <2>2, EasyKeeps
<1>8. CASE PreBootFails
  <2>1. ~steady'
    BY <1>6, <1>8 DEF CountNext
  <2>2. preboot' + Len(warm') <= preboot + Len(warm) /\ left' = left
    BY <1>5, <1>8 DEF PreBootFails
  <2> QED BY <1>2, <1>3, <1>4, <2>1, <2>2, EasyKeeps
<1>9. ASSUME NEW c \in Callers, Call(c) PROVE Counts'
  <2>1. ASSUME NEW r \in Requests, NEW k \in Replenishers, AllocateWarm(c, r, k)
        PROVE  Counts'
    <3>1. Reading'
      BY <2>1 DEF AllocateWarm, Reading, TypeInv, TypeOK, Procs
    <3>2. Len(warm') <= Len(warm)
      BY <2>1, <1>5 DEF AllocateWarm, TypeInv, TypeOK
    <3>3. preboot' + Len(warm') <= preboot + Len(warm) /\ left' = left
      BY <2>1, <1>5, <3>2 DEF AllocateWarm
    <3> QED BY <1>2, <1>3, <1>4, <3>1, <3>3, EasyKeeps
  <2>2. CASE Shutdown(c)
    <3>1. ~steady'
      BY <1>6, <2>2 DEF CountNext
    <3>2. Len(warm') = 0 /\ preboot' = preboot /\ left' = left
      BY <2>2 DEF Shutdown
    <3>3. preboot' + Len(warm') <= preboot + Len(warm)
      BY <1>5, <3>2
    <3> QED BY <1>2, <1>3, <1>4, <3>1, <3>2, <3>3, EasyKeeps
  <2>3. CASE \/ \E r \in Requests : AllocateCold(c, r)
             \/ \E a \in active : ExecuteLookup(c, a) \/ Release(c, a)
    <3>1. /\ preboot' = preboot /\ warm' = warm /\ left' = left /\ pc[c] = "idle"
          /\ \A k \in Replenishers : pc'[k] = pc[k]
      BY <2>3, PoolAssumption
         DEF AllocateCold, ExecuteLookup, Release, Ready, TypeInv, TypeOK, Procs
    <3>2. preboot' + Len(warm') = preboot + Len(warm) /\ (Reading => Reading')
      BY <3>1 DEF Reading
    <3> QED BY <1>2, <1>3, <1>4, <1>5, <3>1, <3>2, EasyKeeps
  <2> QED BY <1>9, <2>1, <2>2, <2>3 DEF Call
<1>10. ASSUME NEW p \in Procs, Continue(p) PROVE Counts'
  <2>1. CASE p \in Replenishers /\ ReadNeeded(p)
    BY <1>2, <1>3, <1>4, <2>1, ReadNeededKeeps
  <2>2. CASE StoreWarm(p)
    <3>1. p \in Replenishers
      BY <2>2 DEF StoreWarm
    <3> QED BY <1>2, <1>3, <1>4, <2>2, <3>1, StoreWarmCounts
  <2>3. CASE p \in Replenishers /\ BootFails(p)
    <3>1. steady' = FALSE
      BY <1>4, <1>6, <2>3 DEF CountNext
    <3> QED BY <1>2, <1>3, <2>3, <3>1, BootFailsCounts
  <2>4. CASE p \notin Replenishers /\ (ReadNeeded(p) \/ BootFails(p))
    <3>1. /\ preboot' = preboot /\ warm' = warm
          /\ \A k \in Replenishers : left'[k] = left[k] /\ pc'[k] = pc[k]
      BY <2>4 DEF ReadNeeded, BootFails, TypeInv, TypeOK, Procs
    <3>2. preboot' + Len(warm') = preboot + Len(warm) /\ (Reading => Reading')
      BY <3>1 DEF Reading
    <3> QED BY <1>2, <1>3, <1>4, <1>5, <3>1, <3>2, EasyKeeps
  <2>5. CASE \/ \E h \in Handles : BootReturns(p, h)
             \/ StoreActive(p) \/ ExecReturns(p) \/ StopReturns(p)
             \/ \E h \in Handles, outcome \in {"down", "lost"} : DestroyReturns(p, h, outcome)
    <3>1. preboot' = preboot /\ warm' = warm /\ left' = left
      BY <2>5 DEF BootReturns, StoreActive, ExecReturns, StopReturns, DestroyReturns
    <3>2. \A k \in Replenishers : pc[k] = "read" => pc'[k] = "read"
      BY <2>5 DEF BootReturns, StoreActive, ExecReturns, StopReturns, DestroyReturns,
                  TypeInv, TypeOK, Procs
    <3>3. preboot' + Len(warm') = preboot + Len(warm) /\ (Reading => Reading')
      BY <3>1, <3>2 DEF Reading
    <3> QED BY <1>2, <1>3, <1>4, <1>5, <3>1, <3>3, EasyKeeps
  <2> QED BY <1>10, <2>1, <2>2, <2>3, <2>4, <2>5 DEF Continue
<1> QED BY <1>6, <1>7, <1>8, <1>9, <1>10 DEF CountNext, Next

LEMMA CountInvariance == CountSpec => [](TypeInv /\ Counts)
<1>1. CountInit => TypeInv /\ Counts
  BY TypeInvInit, CountsInit DEF CountInit
<1>2. TypeInv /\ Counts /\ [CountNext]_<<vars, steady>> => (TypeInv /\ Counts)'
  <2>1. [CountNext]_<<vars, steady>> => [Next]_vars
    BY DEF CountNext
  <2> QED BY <2>1, TypeInvNext, CountsNext
<1> QED BY <1>1, <1>2, PTL DEF CountSpec

(***************************************************************************)
(* However many replenishers count what is missing before any of them has  *)
(* stored a sandbox, the warm pool stays below PoolSize for each of them.  *)
(***************************************************************************)
THEOREM PoolIsBounded == CountSpec => []WarmBound
<1>1. Counts => WarmBound
  BY DEF Counts, Total, WarmBound, N
<1> QED BY <1>1, CountInvariance, PTL

(***************************************************************************)
(* While boots succeed and nobody shuts the pool down, every sandbox that  *)
(* Allocate takes from it is replaced.                                     *)
(***************************************************************************)
THEOREM PoolIsRefilled == CountSpec => []RefillPromise
<1>1. TypeInv /\ Counts => RefillPromise
  <2> SUFFICES ASSUME TypeInv, Counts, steady, preboot = 0, ~Reading
               PROVE  Len(warm) + Promised >= PoolSize
    BY DEF RefillPromise, Reading
  <2>1. Total >= PoolSize
    BY DEF Counts, Refilled
  <2> QED BY <2>1, CountFacts DEF Total
<1> QED BY <1>1, CountInvariance, PTL
=============================================================================
