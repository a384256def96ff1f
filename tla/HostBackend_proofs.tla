------------------------- MODULE HostBackend_proofs -------------------------
(***************************************************************************)
(* Proofs about HostBackend, for any number of calls, nested to any depth, *)
(* and any order of registrations.                                         *)
(***************************************************************************)
EXTENDS HostBackend, TLAPS

Active(c) == pc[c] \in {"get", "locked", "running", "nested", "register"}
Called(c) == pc[c] \in {"running", "nested", "register"}

\* A call made by a tool is the only one its tool waits for.
Nesting ==
    /\ \A c \in Calls : Active(c) /\ caller[c] # Nobody => pc[caller[c]] = "nested"
    /\ \A c, d \in Calls :
        Active(c) /\ Active(d) /\ caller[c] = caller[d] /\ caller[c] # Nobody => c = d

\* The context a call was made with.
Outer(c) == IF caller[c] = Nobody THEN <<>> ELSE ctx[caller[c]]

Contexts ==
    \A c \in Calls :
        /\ Active(c) => handle[c] \in Handles /\ name[c] \in Names
        /\ pc[c] \in {"get", "locked"} => ctx[c] = Outer(c)
        /\ Called(c) => ctx[c] = WithEnv(Outer(c), Env[handle[c]])

\* A version once found is there for good.
Versions ==
    \A c \in Calls :
        /\ Active(c) => found[c] <= reg[name[c]]
        /\ pc[c] = "done" /\ handle[c] \notin Foreign => name[c] \in Names

Writing ==
    /\ \A c \in Calls : writer = c <=> pc[c] = "register"
    /\ writer = "defaults" => next < Len(Defaults)

Inv == TypeOK /\ Nesting /\ Contexts /\ Versions /\ Writing /\ LookupCurrent

LEMMA Initially == Init => Inv
BY HostAssumption
   DEF Init, Inv, TypeOK, Nesting, Contexts, Versions, Writing, LookupCurrent, Active, Called

LEMMA CallKeeps ==
    ASSUME Inv, NEW c \in Calls, NEW n \in Names, NEW h \in Handles \cup Foreign,
           NEW p \in Calls \cup {Nobody}, Call(c, n, h, p)
    PROVE  Inv'
<1>0. TypeOK /\ Nesting /\ Contexts /\ Versions /\ Writing /\ LookupCurrent
  BY DEF Inv
<1>1. /\ reg' = reg /\ readers' = readers /\ writer' = writer /\ next' = next /\ ran' = ran
      /\ pc[c] = "idle"
  BY DEF Call, lock
<1>2. /\ name'[c] = n /\ handle'[c] = h /\ caller'[c] = p /\ found'[c] = reg[n]
      /\ ctx'[c] = IF p = Nobody THEN <<>> ELSE ctx[p]
      /\ pc'[c] = IF h \in Foreign THEN "done" ELSE "get"
  BY <1>0 DEF Call, TypeOK
<1>3. ASSUME NEW d \in Calls, d # c
      PROVE  /\ name'[d] = name[d] /\ handle'[d] = handle[d] /\ caller'[d] = caller[d]
             /\ found'[d] = found[d] /\ ctx'[d] = ctx[d]
             /\ pc'[d] = IF d = p /\ h \notin Foreign THEN "nested" ELSE pc[d]
  BY <1>0, <1>3 DEF Call, TypeOK
<1>4. p # Nobody => p \in Calls /\ pc[p] = "running" /\ p # c
  BY <1>1 DEF Call
<1>5. \A d \in Calls : d # c => /\ Active(d)' = Active(d) /\ Called(d)' = Called(d)
                                /\ pc'[d] # pc[d] => pc'[d] = "nested" /\ pc[d] = "running"
  BY <1>3, <1>4, HostAssumption DEF Active, Called
<1>6. TypeOK'
  <2>1. pc' \in [Calls -> {"idle", "get", "locked", "running", "nested", "register", "done"}]
    BY <1>0 DEF Call, TypeOK
  <2>2. readers' = {d \in Calls : pc'[d] = "locked"}
    <3>1. \A d \in Calls : pc'[d] = "locked" <=> pc[d] = "locked"
      BY <1>1, <1>2, <1>5
    <3> QED BY <1>0, <1>1, <3>1 DEF TypeOK
  <2>3. ctx' \in [Calls -> Seq({Env[g] : g \in Handles})]
    <3> DEFINE S == {Env[g] : g \in Handles}
    <3>1. ctx \in [Calls -> Seq(S)]
      BY <1>0, Zenon DEF TypeOK
    <3> HIDE DEF S
    <3>2. ctx' \in [Calls -> Seq(S)]
      <4>1. <<>> \in Seq(S)
        OBVIOUS
      <4> QED BY <1>4, <3>1, <4>1 DEF Call
    <3> QED BY <3>2 DEF S
  <2>4. /\ name' \in [Calls -> Names \cup {NoName}]
        /\ handle' \in [Calls -> Handles \cup Foreign \cup {Nobody}]
        /\ caller' \in [Calls -> Calls \cup {Nobody}]
        /\ found' \in [Calls -> Nat]
    BY <1>0 DEF Call, TypeOK
  <2> QED BY <1>0, <1>1, <2>1, <2>2, <2>3, <2>4 DEF TypeOK
<1>7. Nesting'
  <2>1. ASSUME NEW d \in Calls, Active(d)', caller'[d] # Nobody
        PROVE  pc'[caller'[d]] = "nested"
    <3>1. CASE d = c
      BY <1>2, <1>3, <1>4, <2>1, <3>1 DEF Active
    <3>2. CASE d # c
      <4>1. caller'[d] = caller[d] /\ caller[d] \in Calls /\ pc[caller[d]] = "nested"
        BY <1>0, <1>3, <1>5, <2>1, <3>2 DEF Nesting, TypeOK
      <4> QED BY <1>1, <1>5, <4>1
    <3> QED BY <3>1, <3>2
  <2>2. ASSUME NEW d \in Calls, NEW e \in Calls, Active(d)', Active(e)',
               caller'[d] = caller'[e], caller'[d] # Nobody
        PROVE  d = e
    <3>1. \A f \in Calls : f # c /\ Active(f)' /\ caller'[f] # Nobody => caller'[f] # p
      BY <1>0, <1>3, <1>4, <1>5 DEF Nesting
    <3>2. CASE d # c /\ e # c
      BY <1>0, <1>3, <1>5, <2>2, <3>2 DEF Nesting
    <3> QED BY <1>2, <2>2, <3>1, <3>2
  <2> QED BY <2>1, <2>2 DEF Nesting
<1>8. Contexts'
  <2>1. ASSUME NEW d \in Calls, d # c, Active(d)
        PROVE  Outer(d)' = Outer(d)
    BY <1>0, <1>1, <1>3, <2>1 DEF Outer, Nesting, TypeOK
  <2>2. Outer(c)' = ctx'[c]
    BY <1>2, <1>3, <1>4 DEF Outer
  <2>3. ASSUME NEW d \in Calls
        PROVE  /\ Active(d)' => handle'[d] \in Handles /\ name'[d] \in Names
               /\ pc'[d] \in {"get", "locked"} => ctx'[d] = Outer(d)'
               /\ Called(d)' => ctx'[d] = WithEnv(Outer(d)', Env[handle'[d]])
    <3>1. CASE d = c
      BY <1>2, <2>2, <3>1 DEF Active, Called
    <3>2. CASE d # c
      BY <1>0, <1>3, <1>5, <2>1, <3>2 DEF Contexts, Active, Called
    <3> QED BY <3>1, <3>2
  <2> QED BY <2>3 DEF Contexts, WithEnv
<1>9. Versions'
  <2>1. reg[n] <= reg[n]
    BY <1>0 DEF TypeOK
  <2>2. ASSUME NEW d \in Calls
        PROVE  /\ Active(d)' => found'[d] <= reg'[name'[d]]
               /\ pc'[d] = "done" /\ handle'[d] \notin Foreign => name'[d] \in Names
    <3>1. CASE d = c
      BY <1>1, <1>2, <2>1, <3>1
    <3>2. CASE d # c
      BY <1>0, <1>1, <1>3, <1>5, <3>2 DEF Versions
    <3> QED BY <3>1, <3>2
  <2> QED BY <2>2 DEF Versions
<1>10. Writing'
  <2>1. \A d \in Calls : pc'[d] = "register" <=> pc[d] = "register"
    BY <1>1, <1>2, <1>5
  <2> QED BY <1>0, <1>1, <2>1 DEF Writing
<1>11. LookupCurrent'
  <2>1. ASSUME NEW d \in Calls, handle'[d] \notin Foreign,
               pc'[d] \in {"running", "nested", "register", "done"}
        PROVE  found'[d] <= ran'[d] /\ ran'[d] <= reg'[name'[d]]
    <3>1. d # c
      BY <1>2, <2>1
    <3> QED BY <1>0, <1>1, <1>3, <1>5, <2>1, <3>1 DEF LookupCurrent
  <2> QED BY <2>1 DEF LookupCurrent
<1> QED BY <1>6, <1>7, <1>8, <1>9, <1>10, <1>11 DEF Inv

\* The end of a call, found to be unknown or returned by its tool; v is the
\* version it ran.
LEMMA EndKeeps ==
    ASSUME Inv, NEW c \in Calls, pc[c] \in {"locked", "running"}, Ended(c),
           reg' = reg, writer' = writer, next' = next, UNCHANGED args, ctx' = ctx,
           readers' = readers \ {c},
           NEW v \in Nat, ran' = [ran EXCEPT ![c] = v],
           handle[c] \in Handles => found[c] <= v /\ v <= reg[name[c]]
    PROVE  Inv'
<1>0. TypeOK /\ Nesting /\ Contexts /\ Versions /\ Writing /\ LookupCurrent
  BY DEF Inv
<1>1. name' = name /\ handle' = handle /\ caller' = caller /\ found' = found
  BY DEF args
<1>2. Active(c) /\ handle[c] \in Handles /\ name[c] \in Names
  BY <1>0 DEF Active, Contexts
<1>3. caller[c] # Nobody => caller[c] \in Calls /\ caller[c] # c /\ pc[caller[c]] = "nested"
  BY <1>0, <1>2 DEF Nesting, TypeOK
<1>4. \A d \in Calls : pc'[d] = IF d = c THEN "done"
                               ELSE IF d = caller[c] THEN "running" ELSE pc[d]
  BY DEF Ended
<1>5. \A d \in Calls : d # c => /\ Active(d)' = Active(d) /\ Called(d)' = Called(d)
                                /\ pc'[d] # pc[d] => /\ pc'[d] = "running" /\ pc[d] = "nested"
                                                     /\ d = caller[c]
  BY <1>3, <1>4, HostAssumption DEF Active, Called
<1>6. TypeOK'
  <2>1. pc' \in [Calls -> {"idle", "get", "locked", "running", "nested", "register", "done"}]
    BY <1>0 DEF Ended, TypeOK
  <2>2. readers' = {d \in Calls : pc'[d] = "locked"}
    <3>1. \A d \in Calls : pc'[d] = "locked" <=> d # c /\ pc[d] = "locked"
      BY <1>4, <1>5
    <3> QED BY <1>0, <3>1 DEF TypeOK
  <2>3. ran' \in [Calls -> Nat]
    BY <1>0 DEF TypeOK
  <2> QED BY <1>0, <1>1, <2>1, <2>2, <2>3 DEF TypeOK
<1>7. Nesting'
  <2>1. ASSUME NEW d \in Calls, Active(d)', caller'[d] # Nobody
        PROVE  pc'[caller'[d]] = "nested"
    <3>1. d # c /\ Active(d) /\ pc[caller[d]] = "nested" /\ caller[d] \in Calls
      BY <1>0, <1>1, <1>4, <1>5, <2>1 DEF Active, Nesting, TypeOK
    <3>2. caller[d] # caller[c]
      BY <1>0, <1>1, <1>2, <2>1, <3>1 DEF Nesting
    <3>3. caller[d] # c
      BY <3>1
    <3> QED BY <1>1, <1>5, <3>1, <3>2, <3>3
  <2>2. \A d \in Calls : Active(d)' => Active(d)
    BY <1>2, <1>5
  <2> QED BY <1>0, <1>1, <2>1, <2>2 DEF Nesting
<1>8. Contexts'
  <2>1. \A d \in Calls : Outer(d)' = Outer(d)
    BY <1>1 DEF Outer
  <2>2. ASSUME NEW d \in Calls
        PROVE  /\ Active(d)' => handle'[d] \in Handles /\ name'[d] \in Names
               /\ pc'[d] \in {"get", "locked"} => ctx'[d] = Outer(d)'
               /\ Called(d)' => ctx'[d] = WithEnv(Outer(d)', Env[handle'[d]])
    <3>1. CASE d = c
      BY <1>4, <3>1 DEF Active, Called
    <3>2. CASE d # c
      BY <1>0, <1>1, <1>5, <2>1, <3>2 DEF Contexts
    <3> QED BY <3>1, <3>2
  <2> QED BY <2>2 DEF Contexts, WithEnv
<1>9. Versions'
  <2>1. ASSUME NEW d \in Calls
        PROVE  /\ Active(d)' => found'[d] <= reg'[name'[d]]
               /\ pc'[d] = "done" /\ handle'[d] \notin Foreign => name'[d] \in Names
    <3>1. CASE d = c
      BY <1>1, <1>2, <1>4, <3>1 DEF Active
    <3>2. CASE d # c
      BY <1>0, <1>1, <1>5, <3>2 DEF Versions
    <3> QED BY <3>1, <3>2
  <2> QED BY <2>1 DEF Versions
<1>10. Writing'
  <2>1. \A d \in Calls : pc'[d] = "register" <=> pc[d] = "register"
    BY <1>4, <1>5
  <2> QED BY <1>0, <2>1 DEF Writing
<1>11. LookupCurrent'
  <2>1. ASSUME NEW d \in Calls, handle'[d] \notin Foreign,
               pc'[d] \in {"running", "nested", "register", "done"}
        PROVE  found'[d] <= ran'[d] /\ ran'[d] <= reg'[name'[d]]
    <3>1. CASE d = c
      BY <1>0, <1>1, <1>2, <3>1 DEF TypeOK
    <3>2. CASE d # c
      <4>1. ran'[d] = ran[d]
        BY <1>0, <3>2 DEF TypeOK
      <4> QED BY <1>0, <1>1, <1>5, <2>1, <3>2, <4>1 DEF LookupCurrent
    <3> QED BY <3>1, <3>2
  <2> QED BY <2>1 DEF LookupCurrent
<1> QED BY <1>6, <1>7, <1>8, <1>9, <1>10, <1>11 DEF Inv

\* A call that goes on without making another or ending leaves who waits for
\* whom as it is.
LEMMA MoveKeepsNesting ==
    ASSUME Inv, NEW c \in Calls, Active(c), pc[c] # "nested",
           NEW q \in {"locked", "running", "register"},
           pc' = [pc EXCEPT ![c] = q], caller' = caller
    PROVE  /\ Nesting'
           /\ pc' \in [Calls -> {"idle", "get", "locked", "running", "nested", "register", "done"}]
           /\ pc'[c] = q /\ \A d \in Calls : d # c => pc'[d] = pc[d]
           /\ \A d \in Calls : Active(d)' = Active(d)
           /\ \A d \in Calls : Active(d) => caller[d] # c
<1>0. TypeOK /\ Nesting
  BY DEF Inv
<1>1. pc'[c] = q /\ \A d \in Calls : d # c => pc'[d] = pc[d]
  BY <1>0 DEF TypeOK
<1>2. pc' \in [Calls -> {"idle", "get", "locked", "running", "nested", "register", "done"}]
  BY <1>0 DEF TypeOK
<1>3. \A d \in Calls : Active(d)' = Active(d)
  BY <1>1 DEF Active
<1>4. \A d \in Calls : Active(d) => caller[d] # c
  BY <1>0, HostAssumption DEF Nesting
<1>5. \A d \in Calls : Active(d) /\ caller[d] # Nobody =>
                          caller[d] \in Calls /\ pc'[caller[d]] = "nested"
  BY <1>0, <1>1, <1>4 DEF Nesting, TypeOK
<1> QED BY <1>0, <1>1, <1>2, <1>3, <1>4, <1>5 DEF Nesting

LEMMA RLockKeeps ==
    ASSUME Inv, NEW c \in Calls, RLock(c)
    PROVE  Inv'
<1>0. TypeOK /\ Nesting /\ Contexts /\ Versions /\ Writing /\ LookupCurrent
  BY DEF Inv
<1>1. /\ reg' = reg /\ writer' = writer /\ next' = next /\ ran' = ran /\ ctx' = ctx
      /\ name' = name /\ handle' = handle /\ caller' = caller /\ found' = found
      /\ readers' = readers \cup {c} /\ pc[c] = "get"
  BY DEF RLock, args
<1>2. /\ Nesting'
      /\ pc' \in [Calls -> {"idle", "get", "locked", "running", "nested", "register", "done"}]
      /\ pc'[c] = "locked" /\ \A d \in Calls : d # c => pc'[d] = pc[d]
      /\ \A d \in Calls : Active(d)' = Active(d)
  BY <1>1, MoveKeepsNesting DEF RLock, Active
<1>3. TypeOK'
  BY <1>0, <1>1, <1>2 DEF TypeOK
<1>4. Contexts'
  <2>1. \A d \in Calls : Outer(d)' = Outer(d) /\ Called(d)' = Called(d)
    BY <1>1, <1>2 DEF Outer, Called
  <2> QED BY <1>0, <1>1, <1>2, <2>1 DEF Contexts, WithEnv
<1>5. Versions'
  BY <1>0, <1>1, <1>2 DEF Versions
<1>6. Writing'
  BY <1>0, <1>1, <1>2 DEF Writing
<1>7. LookupCurrent'
  BY <1>0, <1>1, <1>2 DEF LookupCurrent
<1> QED BY <1>2, <1>3, <1>4, <1>5, <1>6, <1>7 DEF Inv

LEMMA GetKeeps ==
    ASSUME Inv, NEW c \in Calls, Get(c)
    PROVE  Inv'
<1>0. TypeOK /\ Nesting /\ Contexts /\ Versions /\ Writing /\ LookupCurrent
  BY DEF Inv
<1>1. /\ reg' = reg /\ writer' = writer /\ next' = next
      /\ name' = name /\ handle' = handle /\ caller' = caller /\ found' = found
      /\ readers' = readers \ {c} /\ pc[c] = "locked"
      /\ ran' = [ran EXCEPT ![c] = reg[name[c]]]
  BY DEF Get, args, ReaderGone
<1>2. /\ Active(c) /\ name[c] \in Names /\ handle[c] \in Handles
      /\ reg[name[c]] \in Nat /\ found[c] <= reg[name[c]]
  BY <1>0, <1>1 DEF Active, Contexts, Versions, TypeOK
<1>3. CASE reg[name[c]] = 0
  <2>1. Ended(c) /\ ctx' = ctx /\ reg[name[c]] <= reg[name[c]]
    BY <1>2, <1>3 DEF Get
  <2> QED BY <1>1, <1>2, <2>1, EndKeeps DEF args
<1>4. CASE reg[name[c]] # 0
  <2>1. /\ pc' = [pc EXCEPT ![c] = "running"]
        /\ ctx' = [ctx EXCEPT ![c] = WithEnv(@, Env[handle[c]])]
    BY <1>4 DEF Get
  <2>2. /\ Nesting'
        /\ pc' \in [Calls -> {"idle", "get", "locked", "running", "nested", "register", "done"}]
        /\ pc'[c] = "running" /\ \A d \in Calls : d # c => pc'[d] = pc[d]
        /\ \A d \in Calls : Active(d)' = Active(d)
        /\ \A d \in Calls : Active(d) => caller[d] # c
    BY <1>1, <1>2, <2>1, MoveKeepsNesting
  <2>3. TypeOK'
    <3>1. readers' = {d \in Calls : pc'[d] = "locked"}
      BY <1>0, <1>1, <2>2 DEF TypeOK
    <3>2. ran' \in [Calls -> Nat]
      BY <1>0, <1>1, <1>2 DEF TypeOK
    <3>3. ctx' \in [Calls -> Seq({Env[g] : g \in Handles})]
      <4> DEFINE S == {Env[g] : g \in Handles}
      <4>1. ctx \in [Calls -> Seq(S)]
        BY <1>0, Zenon DEF TypeOK
      <4>2. Env[handle[c]] \in S
        BY <1>2
      <4> HIDE DEF S
      <4>3. WithEnv(ctx[c], Env[handle[c]]) \in Seq(S)
        BY <4>1, <4>2 DEF WithEnv
      <4>4. ctx' \in [Calls -> Seq(S)]
        BY <2>1, <4>1, <4>3
      <4> QED BY <4>4 DEF S
    <3> QED BY <1>0, <1>1, <2>2, <3>1, <3>2, <3>3 DEF TypeOK
  <2>4. Contexts'
    <3>1. ctx'[c] = WithEnv(ctx[c], Env[handle[c]]) /\ \A d \in Calls : d # c => ctx'[d] = ctx[d]
      BY <1>0, <2>1 DEF TypeOK
    <3>2. ASSUME NEW d \in Calls, Active(d)
          PROVE  Outer(d)' = Outer(d)
      BY <1>0, <1>1, <2>2, <3>1, <3>2 DEF Outer, TypeOK
    <3>3. ctx'[c] = WithEnv(Outer(c)', Env[handle'[c]])
      BY <1>0, <1>1, <1>2, <3>1, <3>2 DEF Contexts
    <3>4. ASSUME NEW d \in Calls
          PROVE  /\ Active(d)' => handle'[d] \in Handles /\ name'[d] \in Names
                 /\ pc'[d] \in {"get", "locked"} => ctx'[d] = Outer(d)'
                 /\ Called(d)' => ctx'[d] = WithEnv(Outer(d)', Env[handle'[d]])
      <4>1. CASE d = c
        BY <1>1, <1>2, <2>2, <3>3, <4>1
      <4>2. CASE d # c
        BY <1>0, <1>1, <2>2, <3>1, <3>2, <4>2 DEF Contexts, Active, Called
      <4> QED BY <4>1, <4>2
    <3> QED BY <3>4 DEF Contexts, WithEnv
  <2>5. Versions'
    BY <1>0, <1>1, <2>2 DEF Versions
  <2>6. Writing'
    BY <1>0, <1>1, <2>2 DEF Writing
  <2>7. LookupCurrent'
    <3>1. /\ ran'[c] = reg[name[c]] /\ reg[name[c]] <= reg[name[c]]
          /\ \A d \in Calls : d # c => ran'[d] = ran[d]
      BY <1>0, <1>1, <1>2 DEF TypeOK
    <3> QED BY <1>0, <1>1, <1>2, <2>2, <3>1 DEF LookupCurrent
  <2> QED BY <2>2, <2>3, <2>4, <2>5, <2>6, <2>7 DEF Inv
<1> QED BY <1>3, <1>4

LEMMA ToolReturnsKeeps ==
    ASSUME Inv, NEW c \in Calls, ToolReturns(c)
    PROVE  Inv'
<1>0. TypeOK /\ Contexts /\ LookupCurrent
  BY DEF Inv
<1>1. /\ reg' = reg /\ readers' = readers /\ writer' = writer /\ next' = next
      /\ ran' = ran /\ ctx' = ctx /\ UNCHANGED args /\ pc[c] = "running" /\ Ended(c)
  BY DEF ToolReturns, lock
<1>2. readers' = readers \ {c} /\ ran' = [ran EXCEPT ![c] = ran[c]] /\ ran[c] \in Nat
  BY <1>0, <1>1 DEF TypeOK
<1>3. handle[c] \in Handles => found[c] <= ran[c] /\ ran[c] <= reg[name[c]]
  BY <1>0, <1>1, HostAssumption DEF LookupCurrent
<1> QED BY <1>1, <1>2, <1>3, EndKeeps

LEMMA WantLockKeeps ==
    ASSUME Inv, NEW who \in Calls \cup {"defaults"}, WantLock(who)
    PROVE  Inv'
<1>0. TypeOK /\ Nesting /\ Contexts /\ Versions /\ Writing /\ LookupCurrent
  BY DEF Inv
<1>1. /\ reg' = reg /\ readers' = readers /\ next' = next /\ ran' = ran /\ ctx' = ctx
      /\ name' = name /\ handle' = handle /\ caller' = caller /\ found' = found
      /\ writer = Nobody /\ writer' = who
  BY DEF WantLock, args
<1>2. CASE who \in Calls
  <2>1. pc[who] = "running" /\ pc' = [pc EXCEPT ![who] = "register"]
    BY <1>2, HostAssumption DEF WantLock
  <2>2. /\ Nesting'
        /\ pc' \in [Calls -> {"idle", "get", "locked", "running", "nested", "register", "done"}]
        /\ pc'[who] = "register" /\ \A d \in Calls : d # who => pc'[d] = pc[d]
        /\ \A d \in Calls : Active(d)' = Active(d)
    BY <1>1, <1>2, <2>1, MoveKeepsNesting DEF Active
  <2>3. TypeOK'
    BY <1>0, <1>1, <2>1, <2>2 DEF TypeOK
  <2>4. Contexts'
    <3>1. \A d \in Calls : Outer(d)' = Outer(d) /\ Called(d)' = Called(d)
      BY <1>1, <2>1, <2>2 DEF Outer, Called
    <3> QED BY <1>0, <1>1, <2>1, <2>2, <3>1 DEF Contexts, WithEnv
  <2>5. Versions'
    BY <1>0, <1>1, <2>2 DEF Versions
  <2>6. Writing'
    BY <1>0, <1>1, <1>2, <2>1, <2>2, HostAssumption DEF Writing
  <2>7. LookupCurrent'
    BY <1>0, <1>1, <2>1, <2>2 DEF LookupCurrent
  <2> QED BY <2>2, <2>3, <2>4, <2>5, <2>6, <2>7 DEF Inv
<1>3. CASE who = "defaults"
  <2>1. pc' = pc /\ next < Len(Defaults)
    BY <1>3, HostAssumption DEF WantLock
  <2>2. TypeOK'
    BY <1>0, <1>1, <2>1 DEF TypeOK
  <2>3. Nesting' /\ Contexts' /\ Versions' /\ LookupCurrent'
    BY <1>0, <1>1, <2>1
       DEF Nesting, Contexts, Versions, LookupCurrent, Active, Called, Outer, WithEnv
  <2>4. Writing'
    BY <1>0, <1>1, <1>3, <2>1, HostAssumption DEF Writing
  <2> QED BY <2>2, <2>3, <2>4 DEF Inv
<1> QED BY <1>2, <1>3

\* A registration makes one version newer and no other older.
LEMMA InstalledGrows ==
    ASSUME TypeOK, NEW n \in Names, reg' = Installed(n)
    PROVE  reg' \in [Names -> Nat] /\ \A m \in Names : reg[m] <= reg'[m]
BY DEF TypeOK, Installed

\* What calls have found and run stays within a registry that has grown.
LEMMA GrowthKeeps ==
    ASSUME TypeOK, Contexts, Versions, LookupCurrent,
           reg' \in [Names -> Nat], \A m \in Names : reg[m] <= reg'[m],
           name' = name, handle' = handle, found' = found, ran' = ran,
           \A d \in Calls : Active(d)' = Active(d) /\ Called(d)' = Called(d)
                            /\ (pc'[d] = "done" <=> pc[d] = "done")
    PROVE  Versions' /\ LookupCurrent'
<1>1. ASSUME NEW d \in Calls
      PROVE  /\ Active(d)' => found'[d] <= reg'[name'[d]]
             /\ pc'[d] = "done" /\ handle'[d] \notin Foreign => name'[d] \in Names
  <2>1. Active(d) => name[d] \in Names /\ found[d] <= reg[name[d]]
    BY DEF Contexts, Versions
  <2>2. Active(d) => found[d] <= reg'[name[d]]
    BY <2>1 DEF TypeOK
  <2> QED BY <2>2 DEF Versions
<1>2. ASSUME NEW d \in Calls, handle'[d] \notin Foreign,
             pc'[d] \in {"running", "nested", "register", "done"}
      PROVE  found'[d] <= ran'[d] /\ ran'[d] <= reg'[name'[d]]
  <2>1. pc[d] \in {"running", "nested", "register", "done"}
    BY <1>2 DEF Called
  <2>2. found[d] <= ran[d] /\ ran[d] <= reg[name[d]] /\ name[d] \in Names
    BY <1>2, <2>1 DEF LookupCurrent, Contexts, Versions, Active
  <2>3. ran[d] <= reg'[name[d]]
    BY <2>2 DEF TypeOK
  <2> QED BY <2>2, <2>3
<1> QED BY <1>1, <1>2 DEF Versions, LookupCurrent

LEMMA RegisterKeeps ==
    ASSUME Inv, NEW who \in Calls \cup {"defaults"}, Register(who)
    PROVE  Inv'
<1>0. TypeOK /\ Nesting /\ Contexts /\ Versions /\ Writing /\ LookupCurrent
  BY DEF Inv
<1>1. /\ readers' = readers /\ ran' = ran /\ ctx' = ctx
      /\ name' = name /\ handle' = handle /\ caller' = caller /\ found' = found
      /\ writer = who /\ writer' = Nobody
  BY DEF Register, args
<1>2. CASE who \in Calls
  <2>1. /\ reg' = Installed(name[who]) /\ next' = next
        /\ pc' = [pc EXCEPT ![who] = "running"] /\ pc[who] = "register"
    BY <1>0, <1>1, <1>2, HostAssumption DEF Register, Writing
  <2>2. /\ Nesting'
        /\ pc' \in [Calls -> {"idle", "get", "locked", "running", "nested", "register", "done"}]
        /\ pc'[who] = "running" /\ \A d \in Calls : d # who => pc'[d] = pc[d]
        /\ \A d \in Calls : Active(d)' = Active(d)
    BY <1>1, <1>2, <2>1, MoveKeepsNesting DEF Active
  <2>3. name[who] \in Names
    BY <1>0, <1>2, <2>1 DEF Contexts, Active
  <2>4. reg' \in [Names -> Nat] /\ \A m \in Names : reg[m] <= reg'[m]
    BY <1>0, <2>1, <2>3, InstalledGrows
  <2>5. TypeOK'
    BY <1>0, <1>1, <2>1, <2>2, <2>4 DEF TypeOK
  <2>6. \A d \in Calls : /\ Outer(d)' = Outer(d) /\ Called(d)' = Called(d)
                         /\ pc'[d] = "done" <=> pc[d] = "done"
    BY <1>1, <2>1, <2>2 DEF Outer, Called
  <2>7. Contexts'
    BY <1>0, <1>1, <2>1, <2>2, <2>6 DEF Contexts, WithEnv
  <2>8. Versions' /\ LookupCurrent'
    BY <1>0, <1>1, <2>2, <2>4, <2>6, GrowthKeeps
  <2>9. Writing'
    BY <1>0, <1>1, <2>1, <2>2, HostAssumption DEF Writing
  <2> QED BY <2>2, <2>5, <2>7, <2>8, <2>9 DEF Inv
<1>3. CASE who = "defaults"
  <2>1. reg' = Installed(Defaults[next + 1]) /\ next' = next + 1 /\ pc' = pc
    BY <1>3 DEF Register
  <2>2. next < Len(Defaults) /\ Defaults[next + 1] \in Names
    BY <1>0, <1>1, <1>3, HostAssumption DEF Writing, TypeOK
  <2>3. reg' \in [Names -> Nat] /\ \A m \in Names : reg[m] <= reg'[m]
    BY <1>0, <2>1, <2>2, InstalledGrows
  <2>4. next' \in 0 .. Len(Defaults)
    BY <1>0, <2>1, <2>2, HostAssumption DEF TypeOK
  <2>5. TypeOK'
    BY <1>0, <1>1, <2>1, <2>3, <2>4 DEF TypeOK
  <2>6. Nesting' /\ Contexts'
    BY <1>0, <1>1, <2>1 DEF Nesting, Contexts, Active, Called, Outer, WithEnv
  <2>7. Versions' /\ LookupCurrent'
    <3>1. \A d \in Calls : /\ Active(d)' = Active(d) /\ Called(d)' = Called(d)
                           /\ pc'[d] = "done" <=> pc[d] = "done"
      BY <2>1 DEF Active, Called
    <3> QED BY <1>0, <1>1, <2>3, <3>1, GrowthKeeps
  <2>8. Writing'
    BY <1>0, <1>1, <1>3, <2>1, HostAssumption DEF Writing
  <2> QED BY <2>5, <2>6, <2>7, <2>8 DEF Inv
<1> QED BY <1>2, <1>3

LEMMA StutterKeeps ==
    ASSUME Inv, UNCHANGED vars
    PROVE  Inv'
BY DEF Inv, vars, lock, args, TypeOK, Nesting, Contexts, Versions, Writing, LookupCurrent,
       Active, Called, Outer, WithEnv

LEMMA Inductive == Inv /\ [Next]_vars => Inv'
<1> SUFFICES ASSUME Inv, [Next]_vars
             PROVE  Inv'
  OBVIOUS
<1>1. ASSUME NEW c \in Calls, NEW r \in Requests, NEW p \in Calls \cup {Nobody},
             Call(c, r[1], r[2], p)
      PROVE  Inv'
  <2>1. r[1] \in Names /\ r[2] \in Handles \cup Foreign
    BY HostAssumption
  <2> QED BY <1>1, <2>1, CallKeeps
<1> QED BY <1>1, RLockKeeps, GetKeeps, ToolReturnsKeeps, WantLockKeeps, RegisterKeeps,
           StutterKeeps DEF Next

LEMMA Invariance == Spec => []Inv
<1>1. Init => Inv
  BY Initially
<1>2. Inv /\ [Next]_vars => Inv'
  BY Inductive
<1> QED BY <1>1, <1>2, PTL DEF Spec

(***************************************************************************)
(* The types, and that exactly the calls that look their tool up hold the  *)
(* lock for reading.                                                       *)
(***************************************************************************)
THEOREM TypeCorrect == Spec => []TypeOK
<1>1. Inv => TypeOK
  BY DEF Inv
<1> QED BY <1>1, Invariance, PTL

(***************************************************************************)
(* A call finds what was registered when it was made, or something newer.  *)
(***************************************************************************)
THEOREM LookupIsCurrent == Spec => []LookupCurrent
<1>1. Inv => LookupCurrent
  BY DEF Inv
<1> QED BY <1>1, Invariance, PTL

(***************************************************************************)
(* EnvFromContext gives a tool the env of its own sandbox, however deep    *)
(* the call is nested.                                                     *)
(***************************************************************************)
THEOREM EnvIsScoped == Spec => []EnvScope
<1>1. ASSUME Inv PROVE EnvScope
  <2> SUFFICES ASSUME NEW c \in Calls, Called(c)
               PROVE  IF Env[handle[c]] # NoEnv THEN EnvFromContext(c) = Env[handle[c]]
                      ELSE EnvFromContext(c) =
                              IF caller[c] = Nobody THEN NoEnv ELSE EnvFromContext(caller[c])
    BY DEF EnvScope, Called
  <2>1. ctx[c] = WithEnv(Outer(c), Env[handle[c]])
    BY <1>1 DEF Inv, Contexts
  <2>2. CASE Env[handle[c]] # NoEnv
    <3> DEFINE S == {Env[g] : g \in Handles}
    <3>1. Outer(c) \in Seq(S) /\ Env[handle[c]] \in S
      <4>1. ctx \in [Calls -> Seq(S)] /\ handle[c] \in Handles
            /\ caller[c] \in Calls \cup {Nobody}
        BY <1>1, Zenon DEF Inv, TypeOK, Contexts, Active, Called
      <4>2. Env[handle[c]] \in S
        BY <4>1
      <4> HIDE DEF S
      <4>3. <<>> \in Seq(S)
        OBVIOUS
      <4> QED BY <4>1, <4>2, <4>3 DEF Outer
    <3> HIDE DEF S
    <3>2. ctx[c] = Append(Outer(c), Env[handle[c]])
      BY <2>1, <2>2 DEF WithEnv
    <3>3. ctx[c] # <<>> /\ ctx[c][Len(ctx[c])] = Env[handle[c]]
      BY <3>1, <3>2
    <3> QED BY <2>2, <3>3 DEF EnvFromContext
  <2>3. CASE Env[handle[c]] = NoEnv
    BY <2>1, <2>3 DEF WithEnv, Outer, EnvFromContext
  <2> QED BY <2>2, <2>3
<1> QED BY <1>1, Invariance, PTL
=============================================================================
