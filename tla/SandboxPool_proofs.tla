------------------------- MODULE SandboxPool_proofs -------------------------
(***************************************************************************)
(* Proofs about SandboxPool, for every number of callers, replenishers and *)
(* sandboxes, every PoolSize, and ids that may collide.                    *)
(***************************************************************************)
EXTENDS SandboxPool, SequenceTheorems, TLAPS

Elems(s) == {s[i] : i \in DOMAIN s}
Distinct(s) == \A i, j \in DOMAIN s : s[i] = s[j] => i = j

----------------------------------------------------------------------------
(* The stack of warm sandboxes.                                            *)

\* replenishWarmPool pushes: the stack gains one element.
LEMMA PushFacts ==
    ASSUME NEW S, NEW s \in Seq(S), NEW e \in S
    PROVE  /\ Append(s, e) \in Seq(S)
           /\ Elems(Append(s, e)) = Elems(s) \cup {e}
           /\ Distinct(s) /\ e \notin Elems(s) => Distinct(Append(s, e))
<1> DEFINE t == Append(s, e)
<1>1. /\ t \in Seq(S)
      /\ DOMAIN s = 1..Len(s)
      /\ DOMAIN t = 1..(Len(s) + 1)
      /\ Len(s) \in Nat
      /\ \A i \in 1..Len(s) : t[i] = s[i]
      /\ t[Len(s) + 1] = e
  BY AppendProperties
<1> HIDE DEF t
<1>2. Elems(t) = Elems(s) \cup {e}
  <2>1. ASSUME NEW x \in Elems(t) PROVE x \in Elems(s) \cup {e}
    BY <1>1 DEF Elems
  <2>2. ASSUME NEW x \in Elems(s) \cup {e} PROVE x \in Elems(t)
    BY <1>1 DEF Elems
  <2> QED BY <2>1, <2>2
<1>3. Distinct(s) /\ e \notin Elems(s) => Distinct(t)
  BY <1>1 DEF Distinct, Elems
<1> QED BY <1>1, <1>2, <1>3 DEF t

\* Allocate pops: the stack loses its last element.
LEMMA PopFacts ==
    ASSUME NEW S, NEW s \in Seq(S), s # <<>>
    PROVE  /\ SubSeq(s, 1, Len(s) - 1) \in Seq(S)
           /\ s[Len(s)] \in S
           /\ Elems(s) = Elems(SubSeq(s, 1, Len(s) - 1)) \cup {s[Len(s)]}
           /\ Distinct(s) => /\ Distinct(SubSeq(s, 1, Len(s) - 1))
                             /\ s[Len(s)] \notin Elems(SubSeq(s, 1, Len(s) - 1))
<1> DEFINE t == SubSeq(s, 1, Len(s) - 1)
<1>1. Len(s) \in Nat /\ Len(s) > 0 /\ DOMAIN s = 1..Len(s)
  BY EmptySeq
<1>2. /\ t \in Seq(S)
      /\ DOMAIN t = 1..(Len(s) - 1)
      /\ \A i \in 1..(Len(s) - 1) : t[i] = s[i]
  BY <1>1, SubSeqProperties
<1>3. s[Len(s)] \in S
  BY <1>1, ElementOfSeq
<1> HIDE DEF t
<1>4. Elems(s) = Elems(t) \cup {s[Len(s)]}
  <2>1. ASSUME NEW x \in Elems(s) PROVE x \in Elems(t) \cup {s[Len(s)]}
    <3>1. PICK i \in DOMAIN s : x = s[i]
      BY DEF Elems
    <3>2. i \in Int /\ 1 <= i /\ i <= Len(s)
      BY <1>1
    <3>3. i = Len(s) \/ i \in 1..(Len(s) - 1)
      BY <1>1, <3>2
    <3> QED BY <3>1, <3>3, <1>2 DEF Elems
  <2>2. ASSUME NEW x \in Elems(t) \cup {s[Len(s)]} PROVE x \in Elems(s)
    BY <1>1, <1>2 DEF Elems
  <2> QED BY <2>1, <2>2
<1>5. Distinct(s) => Distinct(t) /\ s[Len(s)] \notin Elems(t)
  BY <1>1, <1>2 DEF Distinct, Elems
<1> QED BY <1>2, <1>3, <1>4, <1>5 DEF t

----------------------------------------------------------------------------
(* Types, and what a goroutine's local variables hold at each of its steps. *)

LocalsOK ==
    \A p \in Procs :
        /\ booted[p] # NoHandle <=> pc[p] = "store"
        /\ pc[p] \notin {"release", "shutdown"} =>
              stopping[p] = {} /\ draining[p] = {}
        /\ p \in Replenishers /\ pc[p] \in {"boot", "store"} => left[p] > 0
        /\ pc[p] = "exec" => target[p] \in Allocations

TypeInv == TypeOK /\ LocalsOK

LEMMA RequestTypes ==
    /\ WarmRequest \in Requests
    /\ \A r \in Requests : WithDefaults(r) \in Requests
    /\ \A n \in Int : Iterations(n) \in Nat
BY PoolAssumption DEF WarmRequest, Requests, WithDefaults, Iterations

LEMMA RecordedType ==
    ASSUME NEW h \in Handles, NEW r \in Requests, active \subseteq Allocations
    PROVE  Recorded(h, r) \subseteq Allocations
BY DEF Recorded, Allocations

LEMMA TypeInvInit == Init => TypeInv
<1> SUFFICES ASSUME Init PROVE TypeInv
  OBVIOUS
<1> USE PoolAssumption, RequestTypes DEF Init
<1>1. TypeOK
  BY EmptySeq DEF TypeOK
<1>2. LocalsOK
  BY DEF LocalsOK
<1> QED BY <1>1, <1>2 DEF TypeInv

LEMMA TypeInvNext == TypeInv /\ [Next]_vars => TypeInv'
<1> SUFFICES ASSUME TypeInv, [Next]_vars PROVE TypeInv'
  OBVIOUS
<1> USE PoolAssumption, RequestTypes
<1>1. ASSUME NEW h \in Handles, PreBoot(h) PROVE TypeInv'
  <2>1. warm' \in Seq(Handles)
    BY <1>1, PushFacts DEF PreBoot, TypeInv, TypeOK
  <2>2. TypeOK'
    BY <1>1, <2>1, SMTT(30) DEF PreBoot, TypeInv, TypeOK
  <2>3. LocalsOK'
    BY <1>1 DEF PreBoot, TypeInv, LocalsOK
  <2> QED BY <2>2, <2>3 DEF TypeInv
<1>2. CASE PreBootFails
  BY <1>2 DEF PreBootFails, TypeInv, TypeOK, LocalsOK
<1>3. ASSUME NEW c \in Callers, NEW r \in Requests, NEW k \in Replenishers,
             AllocateWarm(c, r, k)
      PROVE  TypeInv'
  <2>1. warm' \in Seq(Handles) /\ warm[Len(warm)] \in Handles
    BY <1>3, PopFacts DEF AllocateWarm, TypeInv, TypeOK
  <2>2. active' \subseteq Allocations
    BY <1>3, <2>1, RecordedType DEF AllocateWarm, TypeInv, TypeOK
  <2>3. TypeOK'
    BY <1>3, <2>1, <2>2 DEF AllocateWarm, TypeInv, TypeOK, Procs
  <2>4. LocalsOK'
    BY <1>3 DEF AllocateWarm, TypeInv, TypeOK, LocalsOK, Procs
  <2> QED BY <2>3, <2>4 DEF TypeInv
<1>4. ASSUME NEW c \in Callers, NEW r \in Requests, AllocateCold(c, r)
      PROVE  TypeInv'
  BY <1>4 DEF AllocateCold, Ready, TypeInv, TypeOK, LocalsOK, Procs
<1>5. ASSUME NEW c \in Callers, NEW a \in active, ExecuteLookup(c, a)
      PROVE  TypeInv'
  BY <1>5 DEF ExecuteLookup, Ready, TypeInv, TypeOK, LocalsOK, Procs
<1>6. ASSUME NEW c \in Callers, NEW a \in active, Release(c, a)
      PROVE  TypeInv'
  <2>1. /\ c \in Procs /\ a.handle \in Handles
        /\ active' \subseteq active
        /\ stopping' = [stopping EXCEPT ![c] = {a.handle}]
        /\ pc' = [pc EXCEPT ![c] = "release"] /\ pc[c] = "idle"
        /\ UNCHANGED <<preboot, warm, vm, bootedFor, req, booted, left, target, draining>>
    BY <1>6 DEF Release, Ready, Allocations, TypeInv, TypeOK, Procs
  <2>2. TypeOK'
    BY <2>1 DEF TypeInv, TypeOK
  <2>3. LocalsOK'
    BY <2>1 DEF TypeInv, TypeOK, LocalsOK
  <2> QED BY <2>2, <2>3 DEF TypeInv
<1>7. ASSUME NEW c \in Callers, Shutdown(c) PROVE TypeInv'
  BY <1>7, EmptySeq DEF Shutdown, Ready, ActiveHandles, WarmHandles,
     Allocations, TypeInv, TypeOK, LocalsOK, Procs
<1>8. ASSUME NEW p \in Procs, NEW h \in Handles, BootReturns(p, h)
      PROVE  TypeInv'
  <2>1. TypeOK'
    BY <1>8 DEF BootReturns, TypeInv, TypeOK
  <2>2. LocalsOK'
    BY <1>8 DEF BootReturns, TypeInv, TypeOK, LocalsOK
  <2> QED BY <2>1, <2>2 DEF TypeInv
<1>9. ASSUME NEW p \in Procs, BootFails(p) PROVE TypeInv'
  BY <1>9 DEF BootFails, TypeInv, TypeOK, LocalsOK, Procs
<1>10. ASSUME NEW p \in Procs, StoreActive(p) PROVE TypeInv'
  <2>1. active' \subseteq Allocations
    BY <1>10, RecordedType DEF StoreActive, TypeInv, TypeOK, LocalsOK
  <2>2. TypeOK'
    BY <1>10, <2>1 DEF StoreActive, TypeInv, TypeOK
  <2>3. LocalsOK'
    BY <1>10 DEF StoreActive, TypeInv, TypeOK, LocalsOK
  <2> QED BY <2>2, <2>3 DEF TypeInv
<1>11. ASSUME NEW p \in Procs, ReadNeeded(p) PROVE TypeInv'
  <2>1. Len(warm) \in Nat
    BY LenProperties DEF TypeInv, TypeOK
  <2>2. left' \in [Procs -> Nat] /\ left'[p] = Needed
    BY <1>11, <2>1 DEF ReadNeeded, Needed, TypeInv, TypeOK
  <2>3. TypeOK'
    BY <1>11, <2>2 DEF ReadNeeded, TypeInv, TypeOK
  <2>4. LocalsOK'
    BY <1>11, <2>2 DEF ReadNeeded, TypeInv, TypeOK, LocalsOK
  <2> QED BY <2>3, <2>4 DEF TypeInv
<1>12. ASSUME NEW p \in Procs, StoreWarm(p) PROVE TypeInv'
  <2>1. warm' \in Seq(Handles)
    BY <1>12, PushFacts DEF StoreWarm, TypeInv, TypeOK, LocalsOK
  <2>2. left[p] - 1 \in Nat
    <3>1. left[p] \in Nat
      BY DEF TypeInv, TypeOK
    <3>2. left[p] > 0
      BY <1>12 DEF StoreWarm, TypeInv, LocalsOK
    <3> QED BY <3>1, <3>2
  <2>3. TypeOK'
    BY <1>12, <2>1, <2>2 DEF StoreWarm, TypeInv, TypeOK
  <2>4. LocalsOK'
    BY <1>12, <2>2 DEF StoreWarm, TypeInv, TypeOK, LocalsOK
  <2> QED BY <2>3, <2>4 DEF TypeInv
<1>13. ASSUME NEW p \in Procs, ExecReturns(p) PROVE TypeInv'
  BY <1>13 DEF ExecReturns, TypeInv, TypeOK, LocalsOK
<1>14. ASSUME NEW p \in Procs, NEW h \in Handles,
              NEW outcome \in {"down", "lost"}, DestroyReturns(p, h, outcome)
       PROVE  TypeInv'
  <2>1. TypeOK'
    BY <1>14 DEF DestroyReturns, TypeInv, TypeOK
  <2>2. LocalsOK'
    BY <1>14 DEF DestroyReturns, TypeInv, TypeOK, LocalsOK
  <2> QED BY <2>1, <2>2 DEF TypeInv
<1>15. ASSUME NEW p \in Procs, StopReturns(p) PROVE TypeInv'
  BY <1>15 DEF StopReturns, TypeInv, TypeOK, LocalsOK
<1>16. CASE UNCHANGED vars
  BY <1>16 DEF vars, TypeInv, TypeOK, LocalsOK
<1> QED
  BY <1>1, <1>2, <1>3, <1>4, <1>5, <1>6, <1>7, <1>8, <1>9, <1>10, <1>11,
     <1>12, <1>13, <1>14, <1>15, <1>16 DEF Next, Call, Continue

----------------------------------------------------------------------------
(* Who owns each sandbox.                                                  *)

\* The sandbox of a tool call in progress was booted at some time.
TargetBooted ==
    \A c \in Callers : pc[c] = "exec" => vm[target[c].handle] # "unbooted"

\* Pool.active is a Go map: one entry per key.
OneEntryPerId ==
    \A a, b \in active : IdOf[a.handle] = IdOf[b.handle] => a = b

Ownership ==
    /\ SingleOwner
    /\ OwnedIsUp
    /\ NoLeak
    /\ OneEntryPerId
    /\ ExecKeepsTenant
    /\ TargetBooted

LEMMA OwnershipInit == Init => Ownership
<1> SUFFICES ASSUME Init PROVE Ownership
  OBVIOUS
<1>1. WarmHandles = {} /\ ActiveHandles = {} /\ \A p \in Procs : InHand(p) = {}
  BY PoolAssumption, EmptySeq DEF Init, WarmHandles, ActiveHandles, InHand
<1>2. SingleOwner
  BY <1>1 DEF SingleOwner, Init
<1>3. OwnedIsUp /\ NoLeak /\ OneEntryPerId /\ ExecKeepsTenant /\ TargetBooted
  BY <1>1 DEF Init, OwnedIsUp, Owned, NoLeak, OneEntryPerId, ExecKeepsTenant,
     TargetBooted, Procs
<1> QED BY <1>2, <1>3 DEF Ownership

LEMMA ReleaseKeeps ==
    ASSUME TypeInv, Ownership, NEW c \in Callers, NEW a \in active, Release(c, a)
    PROVE  Ownership'
<1>1. WarmHandles' = WarmHandles /\ ActiveHandles' = ActiveHandles \ {a.handle}
  BY DEF Release, WarmHandles, ActiveHandles, Ownership, OneEntryPerId
<1>2. /\ InHand(c) = {}
      /\ InHand(c)' = {a.handle}
      /\ \A p \in Procs \ {c} : InHand(p)' = InHand(p)
  BY PoolAssumption
     DEF Release, Ready, InHand, TypeInv, TypeOK, LocalsOK, Procs, Allocations
<1>3. a.handle \in ActiveHandles
  BY DEF ActiveHandles
<1>4. SingleOwner'
  <2>1. \A i, j \in DOMAIN warm' : warm'[i] = warm'[j] => i = j
    BY DEF Ownership, SingleOwner, Release
  <2>2. WarmHandles' \cap ActiveHandles' = {}
    BY <1>1 DEF Ownership, SingleOwner
  <2>3. \A p \in Procs :
            InHand(p)' \cap (WarmHandles' \cup ActiveHandles') = {}
    BY <1>1, <1>2, <1>3 DEF Ownership, SingleOwner
  <2>4. \A p, q \in Procs : p # q => InHand(p)' \cap InHand(q)' = {}
    BY <1>2, <1>3 DEF Ownership, SingleOwner
  <2>5. \A p \in Procs : stopping'[p] \cap draining'[p] = {}
    BY DEF Ownership, SingleOwner, Release, Ready, TypeInv, TypeOK, LocalsOK, Procs
  <2> QED BY <2>1, <2>2, <2>3, <2>4, <2>5 DEF SingleOwner
<1>5. \A h \in Handles : Owned(h)' <=> Owned(h)
  BY <1>1, <1>2, <1>3 DEF Owned, Procs
<1>6. OwnedIsUp'
  BY <1>5 DEF OwnedIsUp, Ownership, Release
<1>7. NoLeak'
  BY <1>5 DEF NoLeak, Ownership, Release
<1>8. OneEntryPerId'
  BY DEF OneEntryPerId, Ownership, Release
<1>9. ExecKeepsTenant' /\ TargetBooted'
  BY <1>1 DEF ExecKeepsTenant, TargetBooted, Ownership, Release, Ready, TypeInv,
     TypeOK, Procs
<1> QED BY <1>4, <1>6, <1>7, <1>8, <1>9 DEF Ownership

\* The steps that move no sandbox: only the locals of a goroutine change.
LEMMA QuietKeeps ==
    ASSUME TypeInv, Ownership,
           UNCHANGED <<warm, active, vm, booted, stopping, draining>>,
           \A c \in Callers : pc'[c] = "exec" =>
               pc[c] = "exec" /\ target'[c] = target[c]
    PROVE  Ownership'
<1>1. /\ WarmHandles' = WarmHandles
      /\ ActiveHandles' = ActiveHandles
      /\ \A p \in Procs : InHand(p)' = InHand(p)
  BY DEF WarmHandles, ActiveHandles, InHand
<1>2. SingleOwner'
  BY <1>1 DEF Ownership, SingleOwner
<1>3. \A h \in Handles : Owned(h)' <=> Owned(h)
  BY <1>1 DEF Owned
<1>4. OwnedIsUp' /\ NoLeak'
  BY <1>3 DEF Ownership, OwnedIsUp, NoLeak
<1>5. OneEntryPerId' /\ ExecKeepsTenant' /\ TargetBooted'
  BY <1>1 DEF Ownership, OneEntryPerId, ExecKeepsTenant, TargetBooted
<1> QED BY <1>2, <1>4, <1>5 DEF Ownership

LEMMA ExecuteKeeps ==
    ASSUME TypeInv, Ownership,
           NEW c \in Callers, NEW a \in active, ExecuteLookup(c, a)
    PROVE  Ownership'
<1>1. /\ WarmHandles' = WarmHandles
      /\ ActiveHandles' = ActiveHandles
      /\ \A p \in Procs : InHand(p)' = InHand(p)
  BY DEF ExecuteLookup, WarmHandles, ActiveHandles, InHand
<1>2. SingleOwner'
  BY <1>1 DEF Ownership, SingleOwner, ExecuteLookup
<1>3. \A h \in Handles : Owned(h)' <=> Owned(h)
  BY <1>1 DEF Owned
<1>4. OwnedIsUp' /\ NoLeak'
  BY <1>3 DEF Ownership, OwnedIsUp, NoLeak, ExecuteLookup
<1>5. /\ a.handle \in ActiveHandles
      /\ a.handle \in Handles
      /\ vm[a.handle] = "up"
  BY DEF ActiveHandles, Ownership, OwnedIsUp, Owned, TypeInv, TypeOK, Allocations
<1>6. a.handle \notin WarmHandles /\ \A p \in Procs : a.handle # booted[p]
  BY <1>5 DEF Ownership, SingleOwner, InHand
<1>7. \A b \in active : b.handle = a.handle => b = a
  BY DEF Ownership, OneEntryPerId
<1>8. ExecKeepsTenant' /\ TargetBooted'
  BY <1>1, <1>5, <1>6, <1>7 DEF Ownership, ExecKeepsTenant, TargetBooted,
     ExecuteLookup, TypeInv, TypeOK, Procs
<1>9. OneEntryPerId'
  BY DEF Ownership, OneEntryPerId, ExecuteLookup
<1> QED BY <1>2, <1>4, <1>8, <1>9 DEF Ownership

\* A sandbox nobody has seen yet belongs to nobody.
LEMMA FreshIsUnowned ==
    ASSUME TypeInv, Ownership, NEW h \in Handles, vm[h] = "unbooted"
    PROVE  /\ h \notin WarmHandles
           /\ h \notin ActiveHandles
           /\ \A p \in Procs : h \notin InHand(p)
BY DEF Ownership, OwnedIsUp, Owned

LEMMA PreBootKeeps ==
    ASSUME TypeInv, Ownership, NEW h \in Handles, PreBoot(h)
    PROVE  Ownership'
<1>1. vm[h] = "unbooted" /\ warm \in Seq(Handles)
  BY DEF PreBoot, TypeInv, TypeOK
<1>2. /\ h \notin WarmHandles
      /\ h \notin ActiveHandles
      /\ \A p \in Procs : h \notin InHand(p)
  BY <1>1, FreshIsUnowned
<1>3. /\ WarmHandles' = WarmHandles \cup {h}
      /\ ActiveHandles' = ActiveHandles
      /\ \A p \in Procs : InHand(p)' = InHand(p)
  <2>1. WarmHandles' = WarmHandles \cup {h}
    BY <1>1, PushFacts, SMTT(30) DEF PreBoot, WarmHandles, Elems
  <2> QED BY <2>1 DEF PreBoot, ActiveHandles, InHand
<1>4. SingleOwner'
  <2>1. \A i, j \in DOMAIN warm' : warm'[i] = warm'[j] => i = j
    BY <1>1, <1>2, PushFacts
       DEF Ownership, SingleOwner, PreBoot, Distinct, Elems, WarmHandles
  <2> QED BY <1>2, <1>3, <2>1 DEF Ownership, SingleOwner, PreBoot
<1>5. \A g \in Handles : Owned(g)' <=> Owned(g) \/ g = h
  BY <1>3 DEF Owned
<1>6. OwnedIsUp'
  BY <1>5 DEF Ownership, OwnedIsUp, PreBoot, TypeInv, TypeOK
<1>7. NoLeak'
  BY <1>5 DEF Ownership, NoLeak, PreBoot, TypeInv, TypeOK
<1>8. OneEntryPerId'
  BY DEF Ownership, OneEntryPerId, PreBoot
<1>9. ExecKeepsTenant' /\ TargetBooted'
  BY <1>1, <1>3 DEF Ownership, ExecKeepsTenant, TargetBooted, PreBoot, TypeInv,
     TypeOK, LocalsOK, Procs, Allocations
<1> QED BY <1>4, <1>6, <1>7, <1>8, <1>9 DEF Ownership

LEMMA BootReturnsKeeps ==
    ASSUME TypeInv, Ownership, NEW p \in Procs, NEW h \in Handles,
           BootReturns(p, h)
    PROVE  Ownership'
<1>1. vm[h] = "unbooted"
  BY DEF BootReturns
<1>2. /\ h \notin WarmHandles
      /\ h \notin ActiveHandles
      /\ \A q \in Procs : h \notin InHand(q)
  BY <1>1, FreshIsUnowned
<1>3. /\ WarmHandles' = WarmHandles
      /\ ActiveHandles' = ActiveHandles
      /\ InHand(p)' = InHand(p) \cup {h}
      /\ \A q \in Procs \ {p} : InHand(q)' = InHand(q)
  <2>1. WarmHandles' = WarmHandles /\ ActiveHandles' = ActiveHandles
    BY DEF BootReturns, WarmHandles, ActiveHandles
  <2>2. booted[p] = NoHandle /\ NoHandle \notin Handles
    BY PoolAssumption DEF BootReturns, TypeInv, LocalsOK
  <2>3. booted' = [booted EXCEPT ![p] = h] /\ booted \in [Procs -> Handles \cup {NoHandle}]
    BY DEF BootReturns, TypeInv, TypeOK
  <2>4. InHand(p)' = InHand(p) \cup {h}
    BY <2>2, <2>3 DEF InHand, BootReturns
  <2>5. \A q \in Procs \ {p} : InHand(q)' = InHand(q)
    BY <2>3 DEF InHand, BootReturns
  <2> QED BY <2>1, <2>4, <2>5
<1>4. SingleOwner'
  BY <1>2, <1>3 DEF Ownership, SingleOwner, BootReturns
<1>5. \A g \in Handles : Owned(g)' <=> Owned(g) \/ g = h
  BY <1>3 DEF Owned
<1>6. OwnedIsUp'
  BY <1>5 DEF Ownership, OwnedIsUp, BootReturns, TypeInv, TypeOK
<1>7. NoLeak'
  BY <1>5 DEF Ownership, NoLeak, BootReturns, TypeInv, TypeOK
<1>8. OneEntryPerId'
  BY DEF Ownership, OneEntryPerId, BootReturns
<1>9. ExecKeepsTenant' /\ TargetBooted'
  BY <1>1, <1>3 DEF Ownership, ExecKeepsTenant, TargetBooted, BootReturns,
     TypeInv, TypeOK, LocalsOK, Procs, Allocations
<1> QED BY <1>4, <1>6, <1>7, <1>8, <1>9 DEF Ownership

\* Writing an entry of the active map: the entry with the same id, if there is
\* one, is displaced.
LEMMA RecordedFacts ==
    ASSUME OneEntryPerId, NEW h, NEW r
    PROVE  LET A == {a.handle : a \in Recorded(h, r)}
           IN  /\ h \in A
               /\ A \subseteq ActiveHandles \cup {h}
               /\ \A g \in ActiveHandles \ A : g # h /\ IdOf[g] = IdOf[h]
               /\ \A a, b \in Recorded(h, r) :
                     IdOf[a.handle] = IdOf[b.handle] => a = b
<1> DEFINE A == {a.handle : a \in Recorded(h, r)}
           e == [handle |-> h, req |-> r]
<1>1. e \in Recorded(h, r) /\ e.handle = h
  BY DEF Recorded
<1>2. h \in A
  BY <1>1
<1>3. \A a \in Recorded(h, r) : a = e \/ (a \in active /\ IdOf[a.handle] # IdOf[h])
  BY DEF Recorded
<1>4. A \subseteq ActiveHandles \cup {h}
  BY <1>3 DEF ActiveHandles
<1>5. ASSUME NEW g \in ActiveHandles \ A PROVE g # h /\ IdOf[g] = IdOf[h]
  <2>1. PICK a \in active : g = a.handle
    BY DEF ActiveHandles
  <2>2. a \notin Recorded(h, r)
    BY <2>1, <1>5
  <2> QED BY <2>1, <2>2, <1>2, <1>5 DEF Recorded
<1>6. \A a, b \in Recorded(h, r) : IdOf[a.handle] = IdOf[b.handle] => a = b
  BY <1>1, <1>3 DEF OneEntryPerId
<1> QED BY <1>2, <1>4, <1>5, <1>6

LEMMA AllocateWarmKeeps ==
    ASSUME TypeInv, Ownership, NEW c \in Callers, NEW r \in Requests,
           NEW k \in Replenishers, AllocateWarm(c, r, k)
    PROVE  Ownership'
<1> DEFINE h == warm[Len(warm)]
<1>1. /\ warm \in Seq(Handles)
      /\ warm # <<>>
      /\ warm' = SubSeq(warm, 1, Len(warm) - 1)
      /\ active' = Recorded(h, WithDefaults(r))
      /\ Distinct(warm)
  BY DEF AllocateWarm, TypeInv, TypeOK, Ownership, SingleOwner, Distinct
<1>2. /\ h \in Handles
      /\ WarmHandles = WarmHandles' \cup {h}
      /\ Distinct(warm')
      /\ h \notin WarmHandles'
  <2>1. WarmHandles = Elems(warm) /\ WarmHandles' = Elems(warm')
    BY DEF WarmHandles, Elems
  <2> QED BY <1>1, <2>1, PopFacts
<1> HIDE DEF h
<1>3. h \notin ActiveHandles /\ \A p \in Procs : h \notin InHand(p)
  BY <1>2 DEF Ownership, SingleOwner
<1>4. /\ h \in ActiveHandles'
      /\ ActiveHandles' \subseteq ActiveHandles \cup {h}
      /\ \A g \in ActiveHandles \ ActiveHandles' : g # h /\ IdOf[g] = IdOf[h]
      /\ OneEntryPerId'
  <2>1. ActiveHandles' = {a.handle : a \in Recorded(h, WithDefaults(r))}
    BY <1>1 DEF ActiveHandles
  <2>2. \A a, b \in Recorded(h, WithDefaults(r)) :
            IdOf[a.handle] = IdOf[b.handle] => a = b
    BY RecordedFacts DEF Ownership
  <2>3. OneEntryPerId'
    BY <1>1, <2>2 DEF OneEntryPerId
  <2> QED BY <2>1, <2>3, RecordedFacts DEF Ownership
<1>5. \A p \in Procs : InHand(p)' = InHand(p)
  BY DEF AllocateWarm, InHand
<1>6. SingleOwner'
  BY <1>2, <1>3, <1>4, <1>5
     DEF Ownership, SingleOwner, Distinct, AllocateWarm
<1>7. /\ Owned(h)
      /\ \A g \in Handles : Owned(g)' => Owned(g)
      /\ \A g \in Handles : Owned(g) /\ ~Owned(g)' => g # h /\ IdOf[g] = IdOf[h]
  BY <1>2, <1>4, <1>5 DEF Owned
<1>8. OwnedIsUp'
  BY <1>7 DEF Ownership, OwnedIsUp, AllocateWarm
<1>9. vm[h] = "up"
  BY <1>2, <1>7 DEF Ownership, OwnedIsUp
<1>10. NoLeak'
  BY <1>2, <1>7, <1>9 DEF Ownership, NoLeak, AllocateWarm
<1>11. ExecKeepsTenant' /\ TargetBooted'
  BY <1>1, <1>2 DEF Ownership, ExecKeepsTenant, TargetBooted, AllocateWarm,
     Recorded, TypeInv, TypeOK, Procs
<1> QED BY <1>4, <1>6, <1>8, <1>10, <1>11 DEF Ownership

LEMMA StoreActiveKeeps ==
    ASSUME TypeInv, Ownership, NEW c \in Procs, StoreActive(c)
    PROVE  Ownership'
<1> DEFINE h == booted[c]
<1>1. /\ h \in Handles
      /\ NoHandle \notin Handles
      /\ active' = Recorded(h, req[c])
      /\ h \in InHand(c)
  BY PoolAssumption DEF StoreActive, TypeInv, TypeOK, LocalsOK, InHand
<1>2. /\ InHand(c)' = {}
      /\ InHand(c) = {h}
      /\ \A p \in Procs \ {c} : InHand(p)' = InHand(p)
  BY <1>1, ZenonT(60) DEF StoreActive, TypeInv, TypeOK, LocalsOK, InHand
<1>3. h \notin ActiveHandles /\ h \notin WarmHandles
  BY <1>1 DEF Ownership, SingleOwner
<1>4. /\ h \in ActiveHandles'
      /\ ActiveHandles' \subseteq ActiveHandles \cup {h}
      /\ \A g \in ActiveHandles \ ActiveHandles' : g # h /\ IdOf[g] = IdOf[h]
      /\ OneEntryPerId'
  BY <1>1, RecordedFacts DEF Ownership, ActiveHandles, OneEntryPerId
<1>5. WarmHandles' = WarmHandles
  BY DEF StoreActive, WarmHandles
<1>6. SingleOwner'
  BY <1>1, <1>2, <1>3, <1>4, <1>5 DEF Ownership, SingleOwner, StoreActive
<1>7. /\ Owned(h)
      /\ \A g \in Handles : Owned(g)' => Owned(g)
      /\ \A g \in Handles : Owned(g) /\ ~Owned(g)' => g # h /\ IdOf[g] = IdOf[h]
  BY <1>1, <1>2, <1>4, <1>5 DEF Owned
<1>8. OwnedIsUp'
  BY <1>7 DEF Ownership, OwnedIsUp, StoreActive
<1>9. vm[h] = "up"
  BY <1>1, <1>7 DEF Ownership, OwnedIsUp
<1>10. NoLeak'
  BY <1>1, <1>7, <1>9 DEF Ownership, NoLeak, StoreActive
<1>11. ExecKeepsTenant' /\ TargetBooted'
  BY <1>1, <1>5 DEF Ownership, ExecKeepsTenant, TargetBooted, StoreActive,
     Recorded, TypeInv, TypeOK, LocalsOK, Procs, Allocations
<1> QED BY <1>4, <1>6, <1>8, <1>10, <1>11 DEF Ownership

LEMMA StoreWarmKeeps ==
    ASSUME TypeInv, Ownership, NEW k \in Procs, StoreWarm(k)
    PROVE  Ownership'
<1> DEFINE h == booted[k]
<1>1. /\ h \in Handles
      /\ NoHandle \notin Handles
      /\ warm \in Seq(Handles)
      /\ warm' = Append(warm, h)
      /\ h \in InHand(k)
      /\ Distinct(warm)
  BY PoolAssumption DEF StoreWarm, TypeInv, TypeOK, LocalsOK, InHand, Ownership,
     SingleOwner, Distinct
<1>2. /\ InHand(k)' = {}
      /\ InHand(k) = {h}
      /\ \A p \in Procs \ {k} : InHand(p)' = InHand(p)
  BY <1>1, ZenonT(60) DEF StoreWarm, TypeInv, TypeOK, LocalsOK, InHand
<1>3. h \notin ActiveHandles /\ h \notin WarmHandles
  BY <1>1 DEF Ownership, SingleOwner
<1>4. WarmHandles' = WarmHandles \cup {h} /\ Distinct(warm')
  BY <1>1, <1>3, PushFacts DEF WarmHandles, Elems
<1>5. ActiveHandles' = ActiveHandles
  BY DEF StoreWarm, ActiveHandles
<1>6. SingleOwner'
  BY <1>1, <1>2, <1>3, <1>4, <1>5
     DEF Ownership, SingleOwner, StoreWarm, Distinct
<1>7. \A g \in Handles : Owned(g)' <=> Owned(g)
  BY <1>1, <1>2, <1>4, <1>5 DEF Owned
<1>8. OwnedIsUp' /\ NoLeak' /\ OneEntryPerId'
  BY <1>7 DEF Ownership, OwnedIsUp, NoLeak, OneEntryPerId, StoreWarm
<1>9. ExecKeepsTenant' /\ TargetBooted'
  BY <1>1, <1>4 DEF Ownership, ExecKeepsTenant, TargetBooted, StoreWarm,
     TypeInv, TypeOK, LocalsOK, Procs, Allocations
<1> QED BY <1>6, <1>8, <1>9 DEF Ownership

LEMMA ShutdownKeeps ==
    ASSUME TypeInv, Ownership, NEW c \in Callers, Shutdown(c)
    PROVE  Ownership'
<1>1. WarmHandles' = {} /\ ActiveHandles' = {}
  BY EmptySeq DEF Shutdown, WarmHandles, ActiveHandles
<1>2. /\ InHand(c) = {}
      /\ InHand(c)' = WarmHandles \cup ActiveHandles
      /\ \A p \in Procs \ {c} : InHand(p)' = InHand(p)
  BY PoolAssumption, SMTT(30) DEF Shutdown, Ready, InHand, TypeInv, TypeOK, LocalsOK, Procs
<1>3. SingleOwner'
  BY <1>1, <1>2, EmptySeq DEF Ownership, SingleOwner, Shutdown, TypeInv, TypeOK, Procs
<1>4. \A g \in Handles : Owned(g)' <=> Owned(g)
  BY <1>1, <1>2 DEF Owned, Procs
<1>5. OwnedIsUp' /\ NoLeak' /\ OneEntryPerId'
  BY <1>4 DEF Ownership, OwnedIsUp, NoLeak, OneEntryPerId, Shutdown
<1>6. ExecKeepsTenant' /\ TargetBooted'
  BY <1>1 DEF Ownership, ExecKeepsTenant, TargetBooted, Shutdown, Ready,
     TypeInv, TypeOK, Procs
<1> QED BY <1>3, <1>5, <1>6 DEF Ownership

LEMMA DestroyKeeps ==
    ASSUME TypeInv, Ownership, NEW c \in Procs, NEW h \in Handles,
           NEW outcome \in {"down", "lost"}, DestroyReturns(c, h, outcome)
    PROVE  Ownership'
<1>1. WarmHandles' = WarmHandles /\ ActiveHandles' = ActiveHandles
  BY DEF DestroyReturns, WarmHandles, ActiveHandles
<1>2. /\ h \in InHand(c)
      /\ InHand(c)' = InHand(c) \ {h}
      /\ \A p \in Procs \ {c} : InHand(p)' = InHand(p)
  <2>1. h \in stopping[c] \cup draining[c]
    BY DEF DestroyReturns
  <2>2. booted[c] = NoHandle
    BY DEF DestroyReturns, TypeInv, LocalsOK
  <2>3. /\ booted' = booted
        /\ stopping'[c] = stopping[c] \ {h} /\ draining'[c] = draining[c] \ {h}
        /\ \A p \in Procs \ {c} : stopping'[p] = stopping[p] /\ draining'[p] = draining[p]
    BY DEF DestroyReturns, TypeInv, TypeOK
  <2> QED BY <2>1, <2>2, <2>3, PoolAssumption DEF InHand
<1>3. SingleOwner'
  <2>1. \A i, j \in DOMAIN warm' : warm'[i] = warm'[j] => i = j
    BY DEF Ownership, SingleOwner, DestroyReturns
  <2>2. \A p \in Procs : InHand(p)' \subseteq InHand(p)
    BY <1>2
  <2>3. \A p, q \in Procs : p # q => InHand(p)' \cap InHand(q)' = {}
    BY <2>2 DEF Ownership, SingleOwner
  <2>4. \A p \in Procs : stopping'[p] \cap draining'[p] = {}
    BY DEF Ownership, SingleOwner, DestroyReturns, TypeInv, TypeOK
  <2> QED BY <1>1, <2>1, <2>2, <2>3, <2>4 DEF Ownership, SingleOwner
<1>4. \A g \in Handles : Owned(g)' <=> Owned(g) /\ g # h
  BY <1>1, <1>2 DEF Owned, Ownership, SingleOwner
<1>5. OwnedIsUp'
  BY <1>4 DEF Ownership, OwnedIsUp, DestroyReturns, TypeInv, TypeOK
<1>6. NoLeak'
  BY <1>4 DEF Ownership, NoLeak, DestroyReturns, TypeInv, TypeOK
<1>7. OneEntryPerId'
  BY DEF Ownership, OneEntryPerId, DestroyReturns
<1>8. ExecKeepsTenant' /\ TargetBooted'
  BY <1>1 DEF Ownership, ExecKeepsTenant, TargetBooted, DestroyReturns,
     TypeInv, TypeOK, LocalsOK, Procs, Allocations
<1> QED BY <1>3, <1>5, <1>6, <1>7, <1>8 DEF Ownership

----------------------------------------------------------------------------
(* The inductive invariant, and the invariants it implies.                 *)

LEMMA OwnershipNext == TypeInv /\ Ownership /\ [Next]_vars => Ownership'
<1> SUFFICES ASSUME TypeInv, Ownership, [Next]_vars PROVE Ownership'
  OBVIOUS
<1>1. ASSUME NEW h \in Handles, PreBoot(h) PROVE Ownership'
  BY <1>1, PreBootKeeps
<1>2. CASE PreBootFails
  BY <1>2, QuietKeeps DEF PreBootFails
<1>3. ASSUME NEW c \in Callers, NEW r \in Requests, NEW k \in Replenishers,
             AllocateWarm(c, r, k)
      PROVE  Ownership'
  BY <1>3, AllocateWarmKeeps
<1>4. ASSUME NEW c \in Callers, NEW r \in Requests, AllocateCold(c, r)
      PROVE  Ownership'
  BY <1>4, QuietKeeps DEF AllocateCold, TypeInv, TypeOK
<1>5. ASSUME NEW c \in Callers, NEW a \in active, ExecuteLookup(c, a)
      PROVE  Ownership'
  BY <1>5, ExecuteKeeps
<1>6. ASSUME NEW c \in Callers, NEW a \in active, Release(c, a)
      PROVE  Ownership'
  BY <1>6, ReleaseKeeps
<1>7. ASSUME NEW c \in Callers, Shutdown(c) PROVE Ownership'
  BY <1>7, ShutdownKeeps
<1>8. ASSUME NEW p \in Procs, NEW h \in Handles, BootReturns(p, h)
      PROVE  Ownership'
  BY <1>8, BootReturnsKeeps
<1>9. ASSUME NEW p \in Procs, BootFails(p) PROVE Ownership'
  BY <1>9, QuietKeeps DEF BootFails, TypeInv, TypeOK, Procs
<1>10. ASSUME NEW p \in Procs, StoreActive(p) PROVE Ownership'
  BY <1>10, StoreActiveKeeps
<1>11. ASSUME NEW p \in Procs, ReadNeeded(p) PROVE Ownership'
  BY <1>11, QuietKeeps DEF ReadNeeded, TypeInv, TypeOK, Procs
<1>12. ASSUME NEW p \in Procs, StoreWarm(p) PROVE Ownership'
  BY <1>12, StoreWarmKeeps
<1>13. ASSUME NEW p \in Procs, ExecReturns(p) PROVE Ownership'
  BY <1>13, QuietKeeps DEF ExecReturns, TypeInv, TypeOK, Procs
<1>14. ASSUME NEW p \in Procs, NEW h \in Handles,
              NEW outcome \in {"down", "lost"}, DestroyReturns(p, h, outcome)
       PROVE  Ownership'
  BY <1>14, DestroyKeeps
<1>15. ASSUME NEW p \in Procs, StopReturns(p) PROVE Ownership'
  BY <1>15, QuietKeeps DEF StopReturns, TypeInv, TypeOK, Procs
<1>16. CASE UNCHANGED vars
  BY <1>16, QuietKeeps DEF vars
<1> QED
  BY <1>1, <1>2, <1>3, <1>4, <1>5, <1>6, <1>7, <1>8, <1>9, <1>10, <1>11,
     <1>12, <1>13, <1>14, <1>15, <1>16 DEF Next, Call, Continue

Inv == TypeInv /\ Ownership

LEMMA Invariance == Spec => []Inv
<1>1. Init => Inv
  BY TypeInvInit, OwnershipInit DEF Inv
<1>2. Inv /\ [Next]_vars => Inv'
  BY TypeInvNext, OwnershipNext DEF Inv
<1> QED BY <1>1, <1>2, PTL DEF Spec

\* The variables keep their types.
THEOREM TypeCorrect == Spec => []TypeOK
<1>1. Inv => TypeOK
  BY DEF Inv, TypeInv
<1> QED BY <1>1, Invariance, PTL

\* New, Allocate, Release, Shutdown and replenishWarmPool, however they
\* interleave, keep every sandbox in one place at most: no sandbox is handed
\* out twice, or destroyed twice, or destroyed while it is in the pool.
THEOREM SingleOwnership == Spec => []SingleOwner
<1>1. Inv => SingleOwner
  BY DEF Inv, Ownership
<1> QED BY <1>1, Invariance, PTL

\* Neither the warm pool nor the active map holds a destroyed sandbox.
THEOREM OwnedStaysUp == Spec => []OwnedIsUp
<1>1. Inv => OwnedIsUp
  BY DEF Inv, Ownership
<1> QED BY <1>1, Invariance, PTL

\* A running sandbox is within somebody's reach, unless an id came up twice.
THEOREM LeaksOnlyByCollision == Spec => []NoLeak
<1>1. Inv => NoLeak
  BY DEF Inv, Ownership
<1> QED BY <1>1, Invariance, PTL

\* The sandbox Execute dispatches to after unlocking is never recycled while
\* the tool call runs.
THEOREM ExecIsolation == Spec => []ExecKeepsTenant
<1>1. Inv => ExecKeepsTenant
  BY DEF Inv, Ownership
<1> QED BY <1>1, Invariance, PTL

\* A pool that is cold stays cold for ever, whatever is called: neither a warm
\* sandbox nor a replenisher comes back.  In particular a replenisher whose
\* boots failed when the pool was empty is never followed by another one.
THEOREM ColdForever == Spec => ColdStaysCold /\ [](Cold => []Cold)
<1>1. Inv /\ [Next]_vars /\ Cold => Cold'
  <2> SUFFICES ASSUME Inv, [Next]_vars, Cold PROVE Cold'
    OBVIOUS
  <2> USE PoolAssumption DEF Cold, Inv, TypeInv, TypeOK
  <2>1. ASSUME NEW h \in Handles, PreBoot(h) PROVE FALSE
    BY <2>1 DEF PreBoot
  <2>2. CASE PreBootFails
    BY <2>2 DEF PreBootFails
  <2>3. ASSUME NEW c \in Callers, Call(c) PROVE Cold'
    BY <2>3 DEF Call, AllocateWarm, AllocateCold, ExecuteLookup, Release,
       Shutdown, Procs
  <2>4. ASSUME NEW p \in Callers, Continue(p) PROVE Cold'
    BY <2>4 DEF Continue, BootReturns, BootFails, StoreActive, ReadNeeded,
       StoreWarm, ExecReturns, DestroyReturns, StopReturns, Procs
  <2>5. ASSUME NEW p \in Replenishers, Continue(p) PROVE FALSE
    BY <2>5 DEF Continue, BootReturns, BootFails, StoreActive, ReadNeeded,
       StoreWarm, ExecReturns, DestroyReturns, StopReturns
  <2>6. CASE UNCHANGED vars
    BY <2>6 DEF vars
  <2> QED BY <2>1, <2>2, <2>3, <2>4, <2>5, <2>6 DEF Next, Procs
<1> QED BY <1>1, Invariance, PTL DEF Spec, ColdStaysCold

----------------------------------------------------------------------------
(* What each sandbox was booted with.                                      *)

\* Boot was given the caller's own request, or the sandbox is a warm one.
Suits(h, r) == bootedFor[h] \in {r, WarmRequest}

Provenance ==
    /\ \A h \in WarmHandles : bootedFor[h] = WarmRequest
    /\ \A p \in Procs : pc[p] = "store" => bootedFor[booted[p]] = req[p]
    /\ \A k \in Replenishers : req[k] = WarmRequest
    /\ \A a \in active : Suits(a.handle, a.req)
    /\ \A c \in Callers : pc[c] = "exec" => Suits(target[c].handle, target[c].req)

\* Boot returns a sandbox that nobody has or uses.
LEMMA BootKeepsRequests ==
    ASSUME Inv, Provenance, NEW h \in Handles, vm[h] = "unbooted", NEW r,
           bootedFor' = [bootedFor EXCEPT ![h] = r]
    PROVE  /\ \A g \in Handles : g # h => bootedFor'[g] = bootedFor[g]
           /\ bootedFor'[h] = r
           /\ h \notin WarmHandles \cup ActiveHandles
           /\ \A p \in Procs : h # booted[p]
           /\ \A c \in Callers : pc[c] = "exec" => h # target[c].handle
<1>1. ~Owned(h)
  BY DEF Inv, Ownership, OwnedIsUp
<1>2. \A c \in Callers : pc[c] = "exec" => h # target[c].handle
  BY DEF Inv, Ownership, TargetBooted
<1> QED BY <1>1, <1>2 DEF Owned, InHand, Inv, TypeInv, TypeOK

\* A step that boots nothing and leaves both collections keeps Provenance if
\* it starts no Boot with a request of its own in a replenisher.
LEMMA QuietProvenance ==
    ASSUME Provenance, UNCHANGED <<warm, active, bootedFor>>,
           \A p \in Procs : pc'[p] = "store" =>
              pc[p] = "store" /\ booted'[p] = booted[p] /\ req'[p] = req[p],
           \A k \in Replenishers : req'[k] = req[k] \/ req'[k] = WarmRequest,
           \A c \in Callers : pc'[c] = "exec" =>
              \/ pc[c] = "exec" /\ target'[c] = target[c]
              \/ target'[c] \in active
    PROVE  Provenance'
BY DEF Provenance, Suits, WarmHandles

\* Every step keeps Provenance.
LEMMA ProvenanceNext == Inv /\ Provenance /\ [Next]_vars => Provenance'
<1> SUFFICES ASSUME Inv, Provenance, [Next]_vars PROVE Provenance'
  OBVIOUS
<1>0. TypeOK /\ LocalsOK
  BY DEF Inv, TypeInv
<1>1. ASSUME NEW h \in Handles, PreBoot(h) PROVE Provenance'
  <2>1. WarmHandles' = WarmHandles \cup {h}
    <3>1. warm' = Append(warm, h) /\ warm \in Seq(Handles)
      BY <1>0, <1>1 DEF PreBoot, TypeOK
    <3> QED BY <3>1, PushFacts DEF WarmHandles, Elems
  <2>2. \A g \in WarmHandles \cup ActiveHandles : g \in Handles
    BY <1>0, ElementOfSeq DEF TypeOK, WarmHandles, ActiveHandles, Allocations
  <2>3. /\ \A g \in Handles : g # h => bootedFor'[g] = bootedFor[g]
        /\ bootedFor'[h] = WarmRequest
    BY <1>1, BootKeepsRequests DEF PreBoot
  <2>4. /\ h \notin WarmHandles \cup ActiveHandles
        /\ \A p \in Procs : h # booted[p]
        /\ \A c \in Callers : pc[c] = "exec" => h # target[c].handle
    BY <1>1, BootKeepsRequests DEF PreBoot
  <2>5. UNCHANGED <<active, pc, req, booted, target>>
    BY <1>1 DEF PreBoot
  <2>6. \A a \in active : Suits(a.handle, a.req)'
    BY <2>2, <2>3, <2>4, <2>5 DEF Provenance, Suits, ActiveHandles
  <2>7. \A p \in Procs : pc[p] = "store" => booted[p] \in Handles
    BY <1>0 DEF TypeOK, LocalsOK
  <2>8. \A c \in Callers : pc[c] = "exec" => Suits(target[c].handle, target[c].req)'
    <3>1. \A c \in Callers : pc[c] = "exec" => target[c].handle \in Handles
      BY <1>0 DEF LocalsOK, Procs, Allocations
    <3> QED BY <2>3, <2>4, <2>5, <3>1 DEF Provenance, Suits
  <2> QED BY <2>1, <2>2, <2>3, <2>4, <2>5, <2>6, <2>7, <2>8 DEF Provenance
<1>2. CASE PreBootFails
  BY <1>2, QuietProvenance DEF PreBootFails
<1>3. ASSUME NEW c \in Callers, NEW r \in Requests, NEW k \in Replenishers,
             AllocateWarm(c, r, k)
      PROVE  Provenance'
  <2> DEFINE h == warm[Len(warm)]
  <2>1. WarmHandles' \subseteq WarmHandles /\ h \in WarmHandles
    <3>1. WarmHandles = Elems(warm) /\ WarmHandles' = Elems(warm')
      BY DEF WarmHandles, Elems
    <3>2. warm \in Seq(Handles) /\ warm # <<>> /\ warm' = SubSeq(warm, 1, Len(warm) - 1)
      BY <1>0, <1>3 DEF AllocateWarm, TypeOK
    <3> QED BY <3>1, <3>2, PopFacts
  <2>2. Suits(h, WithDefaults(r))
    BY <2>1 DEF Provenance, Suits
  <2>3. active' \subseteq active \cup {[handle |-> h, req |-> WithDefaults(r)]}
    BY <1>3 DEF AllocateWarm, Recorded
  <2>4. \A q \in Procs : pc'[q] \in {"store", "exec"} => pc'[q] = pc[q]
    BY <1>0, <1>3 DEF AllocateWarm, TypeOK
  <2>5. UNCHANGED <<bootedFor, req, booted, target>>
    BY <1>3 DEF AllocateWarm
  <2> HIDE DEF h
  <2>6. \A a \in active' : Suits(a.handle, a.req)'
    BY <2>2, <2>3, <2>5 DEF Provenance, Suits
  <2> QED BY <2>1, <2>4, <2>5, <2>6 DEF Provenance, Suits, Procs
<1>4. ASSUME NEW c \in Callers, NEW r \in Requests, AllocateCold(c, r)
      PROVE  Provenance'
  BY <1>0, <1>4, PoolAssumption, QuietProvenance DEF AllocateCold, TypeOK, Procs
<1>5. ASSUME NEW c \in Callers, NEW a \in active, ExecuteLookup(c, a)
      PROVE  Provenance'
  BY <1>0, <1>5, QuietProvenance DEF ExecuteLookup, TypeOK, Procs
<1>6. ASSUME NEW c \in Callers, NEW a \in active, Release(c, a)
      PROVE  Provenance'
  BY <1>0, <1>6 DEF Release, Provenance, Suits, WarmHandles, TypeOK, Procs
<1>7. ASSUME NEW c \in Callers, Shutdown(c) PROVE Provenance'
  <2>1. WarmHandles' = {}
    BY <1>7, EmptySeq DEF Shutdown, WarmHandles
  <2> QED BY <1>0, <1>7, <2>1 DEF Shutdown, Provenance, Suits, TypeOK, Procs
<1>8. ASSUME NEW p \in Procs, NEW h \in Handles, BootReturns(p, h)
      PROVE  Provenance'
  <2>1. \A g \in WarmHandles \cup ActiveHandles : g \in Handles
    BY <1>0, ElementOfSeq DEF TypeOK, WarmHandles, ActiveHandles, Allocations
  <2>2. /\ \A g \in Handles : g # h => bootedFor'[g] = bootedFor[g]
        /\ bootedFor'[h] = req[p]
        /\ h \notin WarmHandles \cup ActiveHandles
        /\ \A q \in Procs : h # booted[q]
        /\ \A c \in Callers : pc[c] = "exec" => h # target[c].handle
    BY <1>8, BootKeepsRequests DEF BootReturns
  <2>3. \A q \in Procs : pc'[q] = "store" => bootedFor'[booted'[q]] = req'[q]
    BY <1>0, <1>8, <2>2 DEF BootReturns, Provenance, LocalsOK, TypeOK
  <2>4. \A c \in Callers : pc'[c] = "exec" =>
            target'[c] = target[c] /\ Suits(target[c].handle, target[c].req)'
    BY <1>0, <1>8, <2>2 DEF BootReturns, Provenance, Suits, LocalsOK, TypeOK,
       Procs, Allocations
  <2>5. \A a \in active : Suits(a.handle, a.req)'
    BY <2>1, <2>2 DEF Provenance, Suits, ActiveHandles
  <2>6. WarmHandles' = WarmHandles
    BY <1>8 DEF BootReturns, WarmHandles
  <2> QED BY <1>8, <2>1, <2>2, <2>3, <2>4, <2>5, <2>6
          DEF BootReturns, Provenance, Suits
<1>9. ASSUME NEW p \in Procs, BootFails(p) PROVE Provenance'
  BY <1>0, <1>9, QuietProvenance DEF BootFails, TypeOK, Procs
<1>10. ASSUME NEW p \in Procs, StoreActive(p) PROVE Provenance'
  <2>1. Suits(booted[p], req[p])
    BY <1>10 DEF StoreActive, Provenance, Suits
  <2>2. active' \subseteq active \cup {[handle |-> booted[p], req |-> req[p]]}
    BY <1>10 DEF StoreActive, Recorded
  <2>3. p \notin Replenishers /\ pc'[p] = "idle"
    BY <1>0, <1>10, PoolAssumption DEF StoreActive, TypeOK
  <2> QED BY <1>0, <1>10, <2>1, <2>2, <2>3
          DEF StoreActive, Provenance, Suits, WarmHandles, TypeOK, Procs
<1>11. ASSUME NEW p \in Procs, ReadNeeded(p) PROVE Provenance'
  <2>1. \A q \in Procs : pc'[q] \in {"store", "exec"} => pc'[q] = pc[q]
    BY <1>0, <1>11 DEF ReadNeeded, TypeOK
  <2> QED BY <1>11, <2>1, QuietProvenance DEF ReadNeeded, Procs
<1>12. ASSUME NEW p \in Procs, StoreWarm(p) PROVE Provenance'
  <2>1. WarmHandles' = WarmHandles \cup {booted[p]}
    <3>1. warm' = Append(warm, booted[p]) /\ warm \in Seq(Handles) /\ booted[p] \in Handles
      BY <1>0, <1>12 DEF StoreWarm, TypeOK, LocalsOK
    <3> QED BY <3>1, PushFacts DEF WarmHandles, Elems
  <2>2. bootedFor[booted[p]] = WarmRequest
    BY <1>12 DEF StoreWarm, Provenance
  <2>3. \A q \in Procs : pc'[q] \in {"store", "exec"} => q # p /\ pc'[q] = pc[q]
    BY <1>0, <1>12 DEF StoreWarm, TypeOK
  <2> QED BY <1>0, <1>12, <2>1, <2>2, <2>3
          DEF StoreWarm, Provenance, Suits, TypeOK, Procs
<1>13. ASSUME NEW p \in Procs, ExecReturns(p) PROVE Provenance'
  BY <1>0, <1>13, QuietProvenance DEF ExecReturns, TypeOK, Procs
<1>14. ASSUME NEW p \in Procs, NEW h \in Handles,
              NEW outcome \in {"down", "lost"}, DestroyReturns(p, h, outcome)
       PROVE  Provenance'
  BY <1>14, QuietProvenance DEF DestroyReturns
<1>15. ASSUME NEW p \in Procs, StopReturns(p) PROVE Provenance'
  BY <1>0, <1>15, QuietProvenance DEF StopReturns, TypeOK, Procs
<1>16. CASE UNCHANGED vars
  BY <1>16, QuietProvenance DEF vars
<1> QED
  BY <1>1, <1>2, <1>3, <1>4, <1>5, <1>6, <1>7, <1>8, <1>9, <1>10, <1>11,
     <1>12, <1>13, <1>14, <1>15, <1>16 DEF Next, Call, Continue

LEMMA ProvenanceAlways == Spec => []Provenance
<1>1. Init => Provenance
  BY EmptySeq DEF Init, Provenance, WarmHandles, Procs
<1> QED BY <1>1, ProvenanceNext, Invariance, PTL DEF Spec

\* A tool call runs in a sandbox that was booted with the request it was
\* allocated for or with the request of the warm pool, never with that of
\* another tenant: what EnvDelivered asks for fails only for a warm sandbox.
THEOREM NobodyElsesRequest ==
    Spec => [](\A c \in Callers : pc[c] = "exec" =>
                  Suits(target[c].handle, target[c].req))
<1>1. Provenance => (\A c \in Callers : pc[c] = "exec" =>
                        Suits(target[c].handle, target[c].req))
  BY DEF Provenance
<1> QED BY <1>1, ProvenanceAlways, PTL

\* The Pool serves without a warm sandbox, and none will come.
AllCold ==
    /\ preboot = 0 /\ warm = <<>>
    /\ \A k \in Replenishers : pc[k] = "idle"
    /\ \A a \in active : bootedFor[a.handle] = a.req
    /\ \A c \in Callers : pc[c] = "exec" => bootedFor[target[c].handle] = target[c].req

\* Without a PoolSize no replenisher is started.
LEMMA AllColdNext ==
    ASSUME PoolSize <= 0
    PROVE  Inv /\ Provenance /\ AllCold /\ [Next]_vars => AllCold'
<1> SUFFICES ASSUME Inv, Provenance, AllCold, [Next]_vars PROVE AllCold'
  OBVIOUS
<1>0. /\ TypeOK /\ LocalsOK
      /\ preboot = 0 /\ warm = <<>> /\ \A k \in Replenishers : pc[k] = "idle"
      /\ Callers \cap Replenishers = {}
  BY PoolAssumption DEF Inv, TypeInv, AllCold
<1>1. ASSUME NEW c \in Callers, Call(c) PROVE AllCold'
  <2>1. ASSUME NEW r \in Requests, AllocateCold(c, r) PROVE AllCold'
    BY <1>0, <2>1 DEF AllocateCold, AllCold, TypeOK, Procs
  <2>2. ASSUME NEW a \in active, ExecuteLookup(c, a) PROVE AllCold'
    BY <1>0, <2>2 DEF ExecuteLookup, AllCold, TypeOK, Procs
  <2>3. ASSUME NEW a \in active, Release(c, a) PROVE AllCold'
    BY <1>0, <2>3 DEF Release, AllCold, TypeOK, Procs
  <2>4. CASE Shutdown(c)
    BY <1>0, <2>4 DEF Shutdown, AllCold, TypeOK, Procs
  <2> QED BY <1>0, <1>1, <2>1, <2>2, <2>3, <2>4 DEF Call, AllocateWarm
<1>2. ASSUME NEW p \in Procs, Continue(p) PROVE AllCold'
  <2>1. ASSUME NEW h \in Handles, BootReturns(p, h) PROVE AllCold'
    <3>1. p \notin Replenishers
      BY <1>0, <2>1 DEF BootReturns
    <3>2. /\ \A g \in Handles : g # h => bootedFor'[g] = bootedFor[g]
          /\ h \notin ActiveHandles
          /\ \A c \in Callers : pc[c] = "exec" => h # target[c].handle
      <4>1. vm[h] = "unbooted" /\ bootedFor' = [bootedFor EXCEPT ![h] = req[p]]
        BY <2>1 DEF BootReturns
      <4>2. ~Owned(h) /\ \A c \in Callers : pc[c] = "exec" => h # target[c].handle
        BY <4>1 DEF Inv, Ownership, OwnedIsUp, TargetBooted
      <4> QED BY <1>0, <4>1, <4>2 DEF Owned, TypeOK
    <3>3. \A a \in active : a.handle \in Handles /\ a.handle # h
      BY <1>0, <3>2 DEF TypeOK, Allocations, ActiveHandles
    <3>4. \A c \in Callers : pc'[c] = "exec" =>
              pc[c] = "exec" /\ target'[c] = target[c] /\ target[c].handle \in Handles
      BY <1>0, <2>1 DEF BootReturns, TypeOK, LocalsOK, Procs, Allocations
    <3> QED BY <1>0, <2>1, <3>1, <3>2, <3>3, <3>4 DEF BootReturns, AllCold
  <2>2. CASE BootFails(p)
    BY <1>0, <2>2 DEF BootFails, AllCold, TypeOK, Procs
  <2>3. CASE StoreActive(p)
    <3>1. active' \subseteq active \cup {[handle |-> booted[p], req |-> req[p]]}
      BY <2>3 DEF StoreActive, Recorded
    <3>2. bootedFor[booted[p]] = req[p]
      BY <2>3 DEF StoreActive, Provenance
    <3> QED BY <1>0, <2>3, <3>1, <3>2 DEF StoreActive, AllCold, TypeOK, Procs
  <2>4. CASE ReadNeeded(p)
    <3>1. Needed = 0
      BY <1>0, EmptySeq, PoolAssumption DEF Needed, Iterations
    <3> QED BY <1>0, <2>4, <3>1 DEF ReadNeeded, AllCold, TypeOK, Procs
  <2>5. CASE StoreWarm(p)
    BY <1>0, <2>5 DEF StoreWarm
  <2>6. CASE ExecReturns(p)
    BY <1>0, <2>6 DEF ExecReturns, AllCold, TypeOK, Procs
  <2>7. ASSUME NEW h \in Handles, NEW outcome \in {"down", "lost"},
               DestroyReturns(p, h, outcome)
        PROVE  AllCold'
    BY <2>7 DEF DestroyReturns, AllCold
  <2>8. CASE StopReturns(p)
    BY <1>0, <2>8 DEF StopReturns, AllCold, TypeOK, Procs
  <2> QED BY <1>2, <2>1, <2>2, <2>3, <2>4, <2>5, <2>6, <2>7, <2>8 DEF Continue
<1>3. CASE UNCHANGED vars
  BY <1>3 DEF vars, AllCold
<1> QED BY <1>0, <1>1, <1>2, <1>3 DEF Next, PreBoot, PreBootFails

\* Without a warm pool the two promises the Pool breaks with one are kept: a
\* tool call runs with the Env of its Allocate, and Shutdown leaves no sandbox
\* in the pool.
THEOREM ColdPoolKeepsPromises ==
    ASSUME PoolSize <= 0
    PROVE  Spec => []EnvDelivered /\ ShutdownDrains
<1>1. Init => AllCold
  BY PoolAssumption DEF Init, AllCold, Iterations, Procs
<1>2. AllCold => EnvDelivered
  BY DEF AllCold, EnvDelivered
<1>3. AllCold => [\A c \in Callers :
                     pc[c] = "shutdown" /\ pc'[c] = "idle" => warm = <<>>]_vars
  BY DEF AllCold
<1> QED BY <1>1, <1>2, <1>3, AllColdNext, ProvenanceAlways, Invariance, PTL
        DEF Spec, ShutdownDrains

----------------------------------------------------------------------------
(* The Pool implements SandboxLifecycle when ids are unique.               *)

IdsUnique == \A g, h \in Handles : IdOf[g] = IdOf[h] => g = h

LEMMA RetiringInHand ==
    ASSUME TypeInv, Ownership, NEW h \in Handles, h \in Retiring
    PROVE  vm[h] = "up" /\ h \notin ActiveHandles /\ h \notin WarmHandles
<1>1. PICK p \in Procs : h \in InHand(p)
  BY DEF Retiring, InHand
<1> QED BY <1>1 DEF Ownership, SingleOwner, OwnedIsUp, Owned

\* A step that touches neither the sandboxes nor these two sets is a stutter.
LEMMA PhaseUnchanged ==
    ASSUME vm' = vm, ActiveHandles' = ActiveHandles, Retiring' = Retiring
    PROVE  Phase' = Phase
BY DEF Phase

LEMMA PhaseBoots ==
    ASSUME TypeInv, Ownership, NEW h \in Handles, vm[h] = "unbooted",
           vm' = [vm EXCEPT ![h] = "up"],
           ActiveHandles' = ActiveHandles, Retiring' = Retiring
    PROVE  Lifecycle!Next
<1>1. h \notin ActiveHandles
  BY FreshIsUnowned
<1>2. h \notin Retiring
  BY RetiringInHand
<1>3. vm \in [Handles -> {"unbooted", "up", "down", "lost"}]
  BY DEF TypeInv, TypeOK
<1>4. Phase[h] = "unbooted" /\ Phase' = [Phase EXCEPT ![h] = "ready"]
  BY <1>1, <1>2, <1>3 DEF Phase
<1> QED BY <1>4 DEF Lifecycle!Next, Lifecycle!Boot

LEMMA PhaseLeases ==
    ASSUME TypeInv, Ownership, IdsUnique,
           NEW h \in Handles, vm[h] = "up", NEW r \in Requests,
           h \notin ActiveHandles, h \notin Retiring,
           vm' = vm, active' = Recorded(h, r), Retiring' = Retiring
    PROVE  Lifecycle!Next
<1>1. ActiveHandles' = ActiveHandles \cup {h}
  <2>1. ActiveHandles' = {a.handle : a \in Recorded(h, r)}
    BY DEF ActiveHandles
  <2>2. /\ h \in ActiveHandles'
        /\ ActiveHandles' \subseteq ActiveHandles \cup {h}
        /\ \A g \in ActiveHandles \ ActiveHandles' : g # h /\ IdOf[g] = IdOf[h]
    BY <2>1, RecordedFacts DEF Ownership
  <2>3. ActiveHandles \subseteq Handles
    BY DEF ActiveHandles, TypeInv, TypeOK, Allocations
  <2> QED BY <2>2, <2>3 DEF IdsUnique
<1>2. Phase[h] = "ready" /\ Phase' = [Phase EXCEPT ![h] = "leased"]
  BY <1>1 DEF Phase
<1> QED BY <1>2 DEF Lifecycle!Next, Lifecycle!Lease

LEMMA PhaseRetires ==
    ASSUME TypeInv, Ownership, NEW S \in SUBSET Handles,
           S \subseteq WarmHandles \cup ActiveHandles,
           vm' = vm, ActiveHandles' = ActiveHandles \ S,
           Retiring' = Retiring \cup S
    PROVE  Lifecycle!Next
<1>1. \A h \in S : vm[h] = "up" /\ h \notin Retiring
  BY RetiringInHand DEF Ownership, OwnedIsUp, Owned
<1>2. \A h \in S : Phase[h] \in {"ready", "leased"}
  BY <1>1 DEF Phase
<1>3. Phase' = [h \in Handles |-> IF h \in S THEN "retired" ELSE Phase[h]]
  BY <1>1 DEF Phase
<1> QED BY <1>2, <1>3 DEF Lifecycle!Next, Lifecycle!Retire

LEMMA LifecycleInit == Init => Lifecycle!Init
BY DEF Init, Lifecycle!Init, Phase

LEMMA LifecycleStep ==
    IdsUnique /\ Inv /\ [Next]_vars => [Lifecycle!Next]_Phase
<1> SUFFICES ASSUME IdsUnique, TypeInv, Ownership, [Next]_vars
             PROVE  Lifecycle!Next \/ Phase' = Phase
  BY DEF Inv
<1> DEFINE Goal == Lifecycle!Next \/ Phase' = Phase
<1>1. ASSUME NEW h \in Handles, PreBoot(h) PROVE Goal
  BY <1>1, PhaseBoots DEF PreBoot, ActiveHandles, Retiring
<1>2. CASE PreBootFails
  BY <1>2, PhaseUnchanged DEF PreBootFails, ActiveHandles, Retiring
<1>3. ASSUME NEW c \in Callers, NEW r \in Requests, NEW k \in Replenishers,
             AllocateWarm(c, r, k)
      PROVE  Goal
  <2> DEFINE h == warm[Len(warm)]
  <2>1. h \in Handles /\ h \in WarmHandles
    BY <1>3, PopFacts DEF AllocateWarm, TypeInv, TypeOK, WarmHandles, Elems
  <2>2. vm[h] = "up" /\ h \notin ActiveHandles /\ h \notin Retiring
    BY <2>1, RetiringInHand DEF Ownership, OwnedIsUp, Owned, SingleOwner
  <2>3. WithDefaults(r) \in Requests
    BY RequestTypes
  <2>4. vm' = vm /\ active' = Recorded(h, WithDefaults(r)) /\ Retiring' = Retiring
    BY <1>3 DEF AllocateWarm, Retiring
  <2> HIDE DEF h
  <2> QED BY <2>1, <2>2, <2>3, <2>4, PhaseLeases
<1>4. ASSUME NEW c \in Callers, NEW r \in Requests, AllocateCold(c, r)
      PROVE  Goal
  BY <1>4, PhaseUnchanged DEF AllocateCold, ActiveHandles, Retiring
<1>5. ASSUME NEW c \in Callers, NEW a \in active, ExecuteLookup(c, a)
      PROVE  Goal
  BY <1>5, PhaseUnchanged DEF ExecuteLookup, ActiveHandles, Retiring
<1>6. ASSUME NEW c \in Callers, NEW a \in active, Release(c, a)
      PROVE  Goal
  <2>1. a.handle \in Handles /\ a.handle \in ActiveHandles
    BY DEF TypeInv, TypeOK, Allocations, ActiveHandles
  <2>2. ActiveHandles' = ActiveHandles \ {a.handle}
    BY <1>6 DEF Release, ActiveHandles, Ownership, OneEntryPerId
  <2>3. stopping[c] = {} /\ stopping \in [Procs -> SUBSET Handles] /\ c \in Procs
    BY <1>6 DEF Release, Ready, TypeInv, TypeOK, LocalsOK, Procs
  <2>4. Retiring' = Retiring \cup {a.handle}
    BY <1>6, <2>3 DEF Release, Retiring
  <2> QED BY <1>6, <2>1, <2>2, <2>4, PhaseRetires DEF Release
<1>7. ASSUME NEW c \in Callers, Shutdown(c) PROVE Goal
  <2> DEFINE S == WarmHandles \cup ActiveHandles
  <2>1. S \subseteq Handles
    BY DEF TypeInv, TypeOK, Allocations, ActiveHandles, WarmHandles
  <2>2. ActiveHandles' = ActiveHandles \ S
    BY <1>7 DEF Shutdown, ActiveHandles
  <2>3. /\ stopping[c] = {} /\ stopping \in [Procs -> SUBSET Handles]
        /\ draining[c] = {} /\ draining \in [Procs -> SUBSET Handles]
        /\ c \in Procs
    BY <1>7 DEF Shutdown, Ready, TypeInv, TypeOK, LocalsOK, Procs
  <2>4. Retiring' = Retiring \cup S
    BY <1>7, <2>3 DEF Shutdown, Retiring
  <2> QED BY <1>7, <2>1, <2>2, <2>4, PhaseRetires DEF Shutdown
<1>8. ASSUME NEW p \in Procs, NEW h \in Handles, BootReturns(p, h) PROVE Goal
  BY <1>8, PhaseBoots DEF BootReturns, ActiveHandles, Retiring
<1>9. ASSUME NEW p \in Procs, BootFails(p) PROVE Goal
  BY <1>9, PhaseUnchanged DEF BootFails, ActiveHandles, Retiring
<1>10. ASSUME NEW p \in Procs, StoreActive(p) PROVE Goal
  <2>1. booted[p] \in Handles /\ booted[p] \in InHand(p)
    <3>1. booted[p] # NoHandle
      BY <1>10 DEF StoreActive, TypeInv, LocalsOK
    <3>2. booted[p] \in Handles
      BY <3>1 DEF TypeInv, TypeOK
    <3> QED BY <3>2 DEF InHand
  <2>2. vm[booted[p]] = "up" /\ booted[p] \notin ActiveHandles
    BY <2>1 DEF Ownership, OwnedIsUp, Owned, SingleOwner
  <2>3. booted[p] \notin Retiring
    <3>1. SUFFICES ASSUME NEW q \in Procs, booted[p] \in stopping[q] \cup draining[q]
                   PROVE  FALSE
      BY DEF Retiring
    <3>2. booted[p] \in InHand(q)
      BY <3>1 DEF InHand
    <3>3. q = p
      BY <2>1, <3>2 DEF Ownership, SingleOwner
    <3> QED BY <1>10, <3>1, <3>3 DEF StoreActive, TypeInv, LocalsOK
  <2>4. req[p] \in Requests
    BY DEF TypeInv, TypeOK
  <2>5. vm' = vm /\ active' = Recorded(booted[p], req[p]) /\ Retiring' = Retiring
    BY <1>10 DEF StoreActive, Retiring
  <2> QED BY <2>1, <2>2, <2>3, <2>4, <2>5, PhaseLeases
<1>11. ASSUME NEW p \in Procs, ReadNeeded(p) PROVE Goal
  BY <1>11, PhaseUnchanged DEF ReadNeeded, ActiveHandles, Retiring
<1>12. ASSUME NEW p \in Procs, StoreWarm(p) PROVE Goal
  BY <1>12, PhaseUnchanged DEF StoreWarm, ActiveHandles, Retiring
<1>13. ASSUME NEW p \in Procs, ExecReturns(p) PROVE Goal
  BY <1>13, PhaseUnchanged DEF ExecReturns, ActiveHandles, Retiring
<1>14. ASSUME NEW p \in Procs, NEW h \in Handles,
              NEW outcome \in {"down", "lost"}, DestroyReturns(p, h, outcome)
       PROVE  Goal
  <2>1. h \in Retiring
    BY <1>14 DEF DestroyReturns, Retiring
  <2>2. vm[h] = "up" /\ h \notin ActiveHandles
    BY <2>1, RetiringInHand
  <2>3. \A q \in Procs \ {p} : h \notin stopping[q] \cup draining[q]
    BY <1>14 DEF DestroyReturns, Ownership, SingleOwner, InHand
  <2>4. Retiring' = Retiring \ {h}
    BY <1>14, <2>3 DEF DestroyReturns, Retiring, TypeInv, TypeOK
  <2>5. Phase[h] = "retired" /\ Phase' = [Phase EXCEPT ![h] = "gone"]
    BY <1>14, <2>1, <2>2, <2>4
       DEF DestroyReturns, Phase, ActiveHandles, TypeInv, TypeOK
  <2> QED BY <2>5 DEF Lifecycle!Next, Lifecycle!Destroy
<1>15. ASSUME NEW p \in Procs, StopReturns(p) PROVE Goal
  BY <1>15, PhaseUnchanged DEF StopReturns, ActiveHandles, Retiring
<1>16. CASE UNCHANGED vars
  BY <1>16, PhaseUnchanged DEF vars, ActiveHandles, Retiring
<1> QED
  BY <1>1, <1>2, <1>3, <1>4, <1>5, <1>6, <1>7, <1>8, <1>9, <1>10, <1>11,
     <1>12, <1>13, <1>14, <1>15, <1>16 DEF Next, Call, Continue

\* With unique ids the Pool takes every sandbox through its life once: booted,
\* leased at most once, retired, destroyed; it never returns to the warm pool.
THEOREM Refinement == ASSUME IdsUnique PROVE Spec => LifecycleSpec
<1>1. Init => Lifecycle!Init
  BY LifecycleInit
<1>2. Inv /\ [Next]_vars => [Lifecycle!Next]_Phase
  BY LifecycleStep
<1> QED BY <1>1, <1>2, Invariance, PTL DEF Spec, LifecycleSpec, Lifecycle!Spec
=============================================================================
