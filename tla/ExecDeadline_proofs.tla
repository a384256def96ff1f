------------------------- MODULE ExecDeadline_proofs ------------------------
(***************************************************************************)
(* Theorems about ExecDeadline, for every length of the timeouts and every *)
(* context a caller may come with.                                         *)
(***************************************************************************)
EXTENDS ExecDeadline, TLAPS

----------------------------------------------------------------------------
(* The arithmetic of the conversions.                                      *)

LEMMA Division ==
    ASSUME NEW x \in Nat, NEW s \in Nat \ {0}
    PROVE  /\ x \div s \in Nat
           /\ (x \div s) * s <= x
           /\ x < (x \div s) * s + s
BY SMT

LEMMA Remainder ==
    ASSUME NEW x \in Nat, NEW s \in Nat \ {0}
    PROVE  x % s \in Nat /\ x % s <= x
BY SMT

LEMMA Product ==
    ASSUME NEW x \in Nat, NEW y \in Nat
    PROVE  x * y \in Nat /\ (x > 0 /\ y > 0 => x * y > 0)
BY SMT

\* A context that has a deadline has an earliest one.
HasEarliest(deadlines) ==
    /\ deadlines \subseteq Int
    /\ deadlines # {} => /\ Earliest(deadlines) \in deadlines
                         /\ \A e \in deadlines : Earliest(deadlines) <= e

LEMMA ExecCtxHasEarliest ==
    ASSUME NEW caller \in Callers, NEW t \in Timeouts
    PROVE  HasEarliest(ExecCtx(caller, t))
<1> DEFINE S == ExecCtx(caller, t)
<1>1. Timeout(t) \in Int
  BY DeadlineAssumption DEF Timeout
<1>2. S \subseteq Int
  BY <1>1, DeadlineAssumption DEF ExecCtx
<1>3. S # {} => \E d \in S : \A e \in S : d <= e
  <2> SUFFICES ASSUME S # {} PROVE \E d \in S : \A e \in S : d <= e
    OBVIOUS
  <2>1. CASE caller = {}
    BY <1>1, <2>1 DEF ExecCtx
  <2>2. CASE caller # {}
    <3>1. PICK d \in caller : \A e \in caller : d <= e
      BY <2>2, DeadlineAssumption
    <3>2. d \in Int
      BY DeadlineAssumption
    <3>3. CASE Timeout(t) > 0 /\ Timeout(t) < d
      BY <1>1, <1>2, <3>1, <3>2, <3>3 DEF ExecCtx
    <3>4. CASE ~(Timeout(t) > 0 /\ Timeout(t) < d)
      BY <1>1, <1>2, <3>1, <3>2, <3>4 DEF ExecCtx
    <3> QED BY <3>3, <3>4
  <2> QED BY <2>1, <2>2
<1> QED BY <1>2, <1>3 DEF HasEarliest, Earliest

\* TimeoutSeconds is the time left without its fraction, and omitted only when
\* less than a second is left or there is no deadline.
LEMMA SecondsFacts ==
    ASSUME now \in Nat, NEW S, HasEarliest(S)
    PROVE  /\ Seconds(S) \in Nat
           /\ Seconds(S) = 0 => \A d \in S : \E e \in S : e - now < Second
           /\ Seconds(S) > 0 => /\ S # {}
                                /\ now + Seconds(S) * Second <= Earliest(S)
                                /\ Earliest(S) < now + Seconds(S) * Second + Second
<1> DEFINE first == Earliest(S)
           n == Seconds(S)
<1>1. Second \in Nat /\ Second > 0
  BY DeadlineAssumption
<1>2. S # {} => first \in S /\ first \in Int
  BY DEF HasEarliest
<1>3. CASE S = {} \/ Left(S) <= 0
  <2>1. n = 0
    BY <1>3 DEF Seconds
  <2>2. S # {} => first \in S /\ first - now < Second
    BY <1>1, <1>2, <1>3 DEF Left
  <2> QED BY <2>1, <2>2
<1>4. CASE S # {} /\ ~(Left(S) <= 0)
  <2> DEFINE left == first - now
  <2>1. left \in Nat /\ n = left \div Second
    BY <1>2, <1>4 DEF Seconds, Left
  <2> HIDE DEF n, left
  <2>2. n \in Nat /\ n * Second <= left /\ left < n * Second + Second
    BY <1>1, <2>1, Division
  <2>3. n * Second \in Nat
    BY <1>1, <2>2, Product
  <2>0. n = 0 => left < Second
    <3> SUFFICES ASSUME n = 0 PROVE left < Second
      OBVIOUS
    <3>1. n * Second = 0
      BY <1>1
    <3> QED BY <1>1, <2>1, <2>2, <3>1
  <2> USE DEF left
  <2> HIDE DEF first
  <2>4. now + n * Second <= first /\ first < now + n * Second + Second
    BY <1>1, <1>2, <1>4, <2>2, <2>3
  <2>5. n = 0 => first - now < Second
    BY <2>0
  <2>6. n = 0 => \A d \in S : \E e \in S : e - now < Second
    BY <1>2, <1>4, <2>5
  <2> QED BY <1>4, <2>2, <2>4, <2>6 DEF n, first
<1> QED BY <1>3, <1>4

LEMMA BudgetFacts ==
    ASSUME NEW n \in Nat
    PROVE  Budget(n) \in Nat /\ Budget(n) > 0
BY Product, DeadlineAssumption DEF Budget

LEMMA BashLimitFacts ==
    ASSUME NEW asked \in Int
    PROVE  /\ BashLimit(asked) \in Int
           /\ asked > 0 => asked * Second \in Nat /\ BashLimit(asked) <= asked * Second
<1>1. CASE ~(asked > 0)
  BY <1>1, DeadlineAssumption DEF BashLimit
<1>2. CASE asked > 0
  <2> DEFINE x == asked * Second
             m == MaxDuration + 1
  <2>1. x \in Nat /\ m \in Nat \ {0} /\ 2 * m \in Nat \ {0}
    BY <1>2, Product, DeadlineAssumption
  <2>2. BashLimit(asked) = ((x + m) % (2 * m)) - m
    <3>1. x + MaxDuration + 1 = x + m
      BY <2>1, DeadlineAssumption
    <3> QED BY <1>2, <3>1 DEF BashLimit, Wrap
  <2> HIDE DEF x, m
  <2>3. x + m \in Nat
    BY <2>1
  <2>4. (x + m) % (2 * m) \in Nat /\ (x + m) % (2 * m) <= x + m
    BY <2>1, <2>3, Remainder
  <2>5. BashLimit(asked) \in Int /\ BashLimit(asked) <= x
    BY <2>1, <2>2, <2>4
  <2> QED BY <2>1, <2>5 DEF x
<1> QED BY <1>1, <1>2

LEMMA OwnLimitsFacts ==
    ASSUME NEW t \in Tools \cup {NoTool}
    PROVE  OwnLimits(t) \subseteq Int
<1>1. t.asked \in Int
  BY DeadlineAssumption DEF NoTool
<1> QED BY <1>1, BashLimitFacts, DeadlineAssumption DEF OwnLimits

----------------------------------------------------------------------------
(* The inductive invariant.                                                *)

\* What the seconds on their way to the agent say about the time left when they
\* were taken.
Fits ==
    /\ seconds = 0 => \A d \in ctx : \E e \in ctx : e - taken < Second
    /\ seconds > 0 => /\ ctx # {}
                      /\ taken + seconds * Second <= Earliest(ctx)
                      /\ Earliest(ctx) < taken + seconds * Second + Second

\* What the position of the call says about its context, and how the context
\* of a running tool was made.
Shape ==
    /\ HasEarliest(ctx)
    /\ backend = "none" <=> host = "idle"
    /\ host = "idle" => now = 0 /\ conn = {}
    /\ host \in {"idle", "exec", "dial"} => guest = "none"
    /\ backend = "host" => host # "dial" /\ (host = "waiting" => guest = "running")
    /\ backend = "vm" /\ host = "waiting" => conn = ConnDeadline(ctx)
    /\ backend = "vm" /\ host # "exec" => Fits
    /\ backend = "vm" /\ guest \in {"running", "ended", "cut"} => taken <= began
    /\ guest = "request" => backend = "vm"
    /\ guest = "running" =>
        toolCtx = (IF backend = "host" THEN ctx ELSE {began + Budget(seconds)})
                      \cup {began + limit : limit \in OwnLimits(tool)}

\* The clock has not passed what is due.
InTime ==
    /\ (host \in {"exec", "dial"} \/ (backend = "vm" /\ host = "waiting")) /\ now > 0
            => \A d \in ctx : now <= d
    /\ guest = "running" /\ tool.obeys /\ now > began
            => \A d \in toolCtx : now <= d
    /\ backend = "host" /\ host = "waiting" /\ now = began /\ now > 0
            => \A d \in ctx : now <= d

Inv == TypeOK /\ Shape /\ InTime /\ NotCutShort

LEMMA Initially == Init => Inv
BY DeadlineAssumption
   DEF Init, Inv, TypeOK, Shape, Fits, InTime, NotCutShort, HasEarliest

LEMMA ToolIsKnown == TypeOK => tool \in Tools \cup {NoTool}
BY DEF TypeOK

\* The context a tool is given.
LEMMA ToolContext ==
    ASSUME Inv, NEW t \in Tools \cup {NoTool}, NEW D, D \subseteq Int
    PROVE  D \cup {now + limit : limit \in OwnLimits(t)} \subseteq Int
<1> DEFINE own == OwnLimits(t)
<1>1. own \subseteq Int
  BY OwnLimitsFacts
<1>2. now \in Int
  BY DEF Inv, TypeOK
<1> HIDE DEF own
<1>3. {now + limit : limit \in own} \subseteq Int
  BY <1>1, <1>2
<1> QED BY <1>3 DEF own

LEMMA ExecuteKeeps ==
    ASSUME Inv, NEW b \in {"host", "vm"}, NEW caller \in Callers,
           NEW timeout \in Timeouts, NEW t \in Tools, Execute(b, caller, timeout, t)
    PROVE  Inv'
<1>1. HasEarliest(ctx')
  BY ExecCtxHasEarliest DEF Execute
<1>2. HasEarliest(ctx)'
  BY <1>1 DEF HasEarliest, Earliest
<1>3. now' = 0 /\ guest' = "none" /\ conn' = {} /\ host' = "exec" /\ backend' = b
  BY DEF Execute, Inv, Shape
<1>4. TypeOK'
  BY <1>1, <1>3 DEF Inv, TypeOK, Execute, HasEarliest
<1>5. Shape' /\ InTime' /\ NotCutShort'
  BY <1>2, <1>3 DEF Shape, InTime, NotCutShort
<1> QED BY <1>4, <1>5 DEF Inv

LEMMA RunOnHostKeeps ==
    ASSUME Inv, RunOnHost
    PROVE  Inv'
<1>1. tool \in Tools \cup {NoTool} /\ ctx \subseteq Int
  BY DEF Inv, TypeOK
<1>2. toolCtx' = ctx \cup {now + limit : limit \in OwnLimits(tool)}
  BY DEF RunOnHost, StartTool
<1>3. toolCtx' \subseteq Int
  BY <1>1, <1>2, ToolContext
<1>4. TypeOK'
  BY <1>3 DEF Inv, TypeOK, RunOnHost, StartTool
<1>5. Shape'
  BY <1>2 DEF Inv, Shape, RunOnHost, StartTool, HasEarliest, Earliest, OwnLimits, BashLimit,
              Wrap
<1>6. InTime' /\ NotCutShort'
  BY <1>4 DEF Inv, TypeOK, InTime, NotCutShort, RunOnHost, StartTool
<1> QED BY <1>4, <1>5, <1>6 DEF Inv

LEMMA TakeTimeLeftKeeps ==
    ASSUME Inv, TakeTimeLeft
    PROVE  Inv'
<1>1. HasEarliest(ctx) /\ now \in Nat
  BY DEF Inv, TypeOK, Shape
<1>2. seconds' = Seconds(ctx) /\ taken' = now
  BY DEF TakeTimeLeft
<1>3. TypeOK'
  BY <1>1, <1>2, SecondsFacts DEF Inv, TypeOK, TakeTimeLeft
<1>4. Fits'
  <2>1. ctx' = ctx /\ Earliest(ctx)' = Earliest(ctx)
    BY DEF TakeTimeLeft, Earliest
  <2> QED BY <1>1, <1>2, <2>1, SecondsFacts DEF Fits
<1>5. Shape'
  BY <1>4 DEF Inv, Shape, TakeTimeLeft, HasEarliest, Earliest
<1>6. InTime' /\ NotCutShort'
  BY DEF Inv, Shape, InTime, NotCutShort, TakeTimeLeft
<1> QED BY <1>3, <1>5, <1>6 DEF Inv

LEMMA HandleRequestKeeps ==
    ASSUME Inv, HandleRequest
    PROVE  Inv'
<1>1. tool \in Tools \cup {NoTool} /\ seconds \in Nat /\ now \in Nat
  BY DEF Inv, TypeOK
<1>2. backend = "vm" /\ host \notin {"idle", "exec", "dial"} /\ taken <= now
  BY DEF Inv, TypeOK, Shape, HandleRequest
<1>3. now + Budget(seconds) \in Int
  BY <1>1, BudgetFacts
<1>4. toolCtx' = {now + Budget(seconds)} \cup {now + limit : limit \in OwnLimits(tool)}
  BY DEF HandleRequest, StartTool
<1>5. toolCtx' \subseteq Int
  BY <1>1, <1>3, <1>4, ToolContext
<1>6. TypeOK'
  BY <1>5 DEF Inv, TypeOK, HandleRequest, StartTool
<1>7. Shape'
  BY <1>2, <1>4 DEF Inv, Shape, Fits, HandleRequest, StartTool, HasEarliest, Earliest,
                    ConnDeadline, OwnLimits, BashLimit, Wrap, Budget
<1>8. InTime' /\ NotCutShort'
  BY <1>1, <1>2 DEF Inv, InTime, NotCutShort, HandleRequest, StartTool
<1> QED BY <1>6, <1>7, <1>8 DEF Inv

\* A tool in a VM whose context is done has had the seconds of the request, or
\* the limit it set itself.
LEMMA CutIsLate ==
    ASSUME Inv, guest = "running", backend = "vm", Expired(toolCtx)
    PROVE  \/ began + Budget(seconds) <= now
           \/ \E limit \in OwnLimits(tool) : began + limit <= now
<1>1. toolCtx = {began + Budget(seconds)} \cup {began + limit : limit \in OwnLimits(tool)}
  BY DEF Inv, Shape
<1>2. PICK d \in toolCtx : d <= now
  BY DEF Expired
<1>3. CASE d = began + Budget(seconds)
  BY <1>2, <1>3
<1>4. CASE d \in {began + limit : limit \in OwnLimits(tool)}
  <2>1. PICK limit \in OwnLimits(tool) : d = began + limit
    BY <1>4
  <2> QED BY <1>2, <2>1
<1> QED BY <1>1, <1>2, <1>3, <1>4

LEMMA ToolReturnsKeeps ==
    ASSUME Inv, NEW how \in {"ended", "cut"}, ToolReturns(how)
    PROVE  Inv'
<1> USE DEF ToolReturns
<1>1. TypeOK'
  BY DEF Inv, TypeOK
<1>2. Shape'
  BY DEF Inv, TypeOK, Shape, Fits, HasEarliest, Earliest, ConnDeadline
<1>3. InTime'
  BY DEF Inv, InTime
<1>4. NotCutShort'
  <2> SUFFICES ASSUME backend = "vm", how = "cut", ctx # {}
               PROVE  NotCutShort'
    BY DEF NotCutShort
  <2>1. Expired(toolCtx)
    OBVIOUS
  <2>2. /\ now \in Nat /\ began \in Nat /\ seconds \in Nat /\ Second \in Nat \ {0}
        /\ ctx \subseteq Int /\ taken \in Nat /\ taken <= began
    BY DeadlineAssumption DEF Inv, TypeOK, Shape
  <2>3. HasEarliest(ctx) /\ Fits
    BY DEF Inv, Shape
  <2>4. CASE \E limit \in OwnLimits(tool) : began + limit <= now
    <3>1. PICK limit \in OwnLimits(tool) : began + limit <= now
      BY <2>4
    <3>2. limit \in Int
      BY OwnLimitsFacts DEF Inv, TypeOK
    <3>3. ended' >= began' + limit /\ tool' = tool
      BY <2>2, <3>1, <3>2
    <3>4. limit \in OwnLimits(tool)'
      BY <3>3 DEF OwnLimits, BashLimit, Wrap
    <3> QED BY <3>3, <3>4 DEF NotCutShort
  <2>5. CASE began + Budget(seconds) <= now
    <3>1. \E d \in ctx : now > d - Second
      <4>1. CASE seconds = 0
        <5>1. PICK d \in ctx : d - taken < Second
          BY <2>3, <4>1 DEF Fits
        <5>2. d \in Int /\ Budget(seconds) \in Nat
          BY <2>2, BudgetFacts
        <5>3. now > d - Second
          BY <2>2, <2>5, <5>1, <5>2
        <5> QED BY <5>3
      <4>2. CASE seconds > 0
        <5> DEFINE d == Earliest(ctx)
        <5>1. /\ d < taken + seconds * Second + Second
              /\ d \in ctx
          BY <2>3, <4>2 DEF Fits, HasEarliest
        <5>2. Budget(seconds) = seconds * Second /\ seconds * Second \in Nat
          BY <2>2, <4>2, Product DEF Budget
        <5>3. d \in Int
          BY <2>2, <5>1
        <5> HIDE DEF d
        <5>4. now > d - Second
          BY <2>2, <2>5, <5>1, <5>2, <5>3
        <5> QED BY <5>1, <5>4
      <4> QED BY <2>2, <4>1, <4>2
    <3>2. ended' = now /\ ctx' = ctx
      OBVIOUS
    <3> QED BY <3>1, <3>2 DEF NotCutShort
  <2> QED BY <2>1, <2>4, <2>5, CutIsLate
<1> QED BY <1>1, <1>2, <1>3, <1>4 DEF Inv

LEMMA HostStepKeeps ==
    ASSUME Inv, SendRequest \/ ReceiveAnswer \/ GiveUp
    PROVE  Inv'
<1> USE DEF Inv, Shape, Fits, HasEarliest, Earliest, ConnDeadline, OwnLimits, BashLimit,
            Wrap, Budget
<1>1. CASE SendRequest
  <2>1. backend = "vm"
    BY <1>1 DEF SendRequest, TypeOK
  <2>2. TypeOK'
    BY <1>1 DEF SendRequest, TypeOK
  <2>3. Shape'
    BY <1>1, <2>1 DEF SendRequest
  <2>4. InTime' /\ NotCutShort'
    BY <1>1, <2>1 DEF SendRequest, InTime, NotCutShort
  <2> QED BY <2>2, <2>3, <2>4
<1>2. CASE ReceiveAnswer
  BY <1>2 DEF ReceiveAnswer, TypeOK, InTime, NotCutShort
<1>3. CASE GiveUp
  <2>1. TypeOK' /\ NotCutShort'
    BY <1>3 DEF GiveUp, TypeOK, NotCutShort
  <2>2. backend \in {"host", "vm"} /\ conn \subseteq ctx
    BY <1>3 DEF GiveUp, TypeOK
  <2>3. Shape' /\ InTime'
    BY <1>3, <2>2 DEF GiveUp, InTime
  <2> QED BY <2>1, <2>3
<1> QED BY <1>1, <1>2, <1>3

LEMMA TickKeeps ==
    ASSUME Inv, Tick
    PROVE  Inv'
<1> USE DEF Tick
<1>1. TypeOK'
  BY DeadlineAssumption DEF Inv, TypeOK
<1>2. Shape'
  BY DEF Inv, TypeOK, Shape, Fits, HasEarliest, Earliest, ConnDeadline, OwnLimits,
         BashLimit, Wrap, Budget
<1>3. InTime'
  <2>1. ASSUME host \in {"exec", "dial"}, NEW d \in ctx
        PROVE  now' <= d
    BY <2>1 DEF Inv, TypeOK, Expired
  <2>2. ASSUME backend = "vm", host = "waiting", NEW d \in ctx
        PROVE  now' <= d
    <3>1. HasEarliest(ctx) /\ conn = ConnDeadline(ctx) /\ ctx \subseteq Int /\ now \in Nat
      BY <2>2 DEF Inv, TypeOK, Shape
    <3>2. Earliest(ctx) \in conn /\ Earliest(ctx) <= d /\ Earliest(ctx) \in Int
      BY <2>2, <3>1 DEF HasEarliest, ConnDeadline
    <3>3. now < Earliest(ctx)
      BY <2>2, <3>1, <3>2 DEF Expired
    <3>4. d \in Int /\ now' = now + 1
      BY <2>2, <3>1
    <3> HIDE DEF Tick
    <3> QED BY <3>1, <3>2, <3>3, <3>4
  <2>3. ASSUME guest = "running", tool.obeys, NEW d \in toolCtx
        PROVE  now' <= d
    BY <2>3 DEF Inv, TypeOK, Expired
  <2>4. now' # began'
    BY DEF Inv, TypeOK
  <2> QED BY <2>1, <2>2, <2>3, <2>4 DEF InTime
<1>4. NotCutShort'
  BY DEF Inv, NotCutShort, OwnLimits, BashLimit, Wrap
<1> QED BY <1>1, <1>2, <1>3, <1>4 DEF Inv

LEMMA Stutter ==
    ASSUME Inv, UNCHANGED vars
    PROVE  Inv'
BY DEF vars, Inv, TypeOK, Shape, Fits, InTime, NotCutShort, HasEarliest, Earliest,
       ConnDeadline, OwnLimits, BashLimit, Wrap, Budget

LEMMA Invariance == Spec => []Inv
<1>1. Inv /\ [Next]_vars => Inv'
  BY ExecuteKeeps, RunOnHostKeeps, TakeTimeLeftKeeps, HandleRequestKeeps,
     ToolReturnsKeeps, HostStepKeeps, TickKeeps, Stutter DEF Next
<1> QED BY Initially, <1>1, PTL DEF Spec

----------------------------------------------------------------------------
(* The theorems.                                                           *)

\* Times, contexts and positions have their types.
THEOREM TypeCorrect == Spec => []TypeOK
<1>1. Inv => TypeOK
  BY DEF Inv
<1> QED BY <1>1, Invariance, PTL

\* Pool.Execute outlasts its deadline only in host mode with a tool that
\* disregards its context: the connection's deadline ends every other wait.
THEOREM DeadlineEndsCall == Spec => []LateOnlyOnHost
<1>1. Inv => LateOnlyOnHost
  <2> SUFFICES ASSUME Inv, host \in {"exec", "dial", "waiting"}, now > 0,
                      NEW d \in ctx, d < now
               PROVE  backend = "host" /\ ~tool.obeys
    BY DEF LateOnlyOnHost
  <2>1. d \in Int /\ now \in Nat /\ backend \in {"host", "vm"}
    BY DEF Inv, TypeOK, Shape
  <2>2. backend = "host" /\ host = "waiting"
    BY <2>1 DEF Inv, InTime
  <2>3. d \in toolCtx /\ guest = "running" /\ began \in 0 .. now
    BY <2>2 DEF Inv, Shape, TypeOK
  <2>4. now > began
    BY <2>1, <2>2, <2>3 DEF Inv, InTime
  <2>5. ~tool.obeys
    BY <2>1, <2>3, <2>4 DEF Inv, InTime
  <2> QED BY <2>2, <2>5
<1> QED BY <1>1, Invariance, PTL

\* However long the deadline and wherever time passes, the seconds the host
\* sends let an obedient tool run beyond the deadline by no more than the
\* request took from the look at the time left to the tool; and the agent's
\* default replaces them only if less than a second was left at that look.
THEOREM OverrunIsBounded == Spec => []OverrunBound
<1>1. Inv => OverrunBound
  <2> SUFFICES ASSUME Inv, backend = "vm", guest = "running", tool.obeys
               PROVE  \/ \A d \in ctx : now <= d + (began - taken)
                      \/ /\ \A d \in ctx : \E e \in ctx : e - taken < Second
                         /\ now <= began + AgentDefault
    BY DEF OverrunBound
  <2>1. /\ now \in Nat /\ began \in Nat /\ began <= now /\ seconds \in Nat
        /\ ctx \subseteq Int /\ taken \in Nat
    BY DEF Inv, TypeOK
  <2>2. HasEarliest(ctx) /\ Fits /\ began + Budget(seconds) \in toolCtx
    BY DEF Inv, Shape
  <2>3. now <= began + Budget(seconds)
    <3>1. Budget(seconds) \in Nat
      BY <2>1, BudgetFacts
    <3> QED BY <2>1, <2>2, <3>1 DEF Inv, InTime
  <2>4. CASE seconds = 0
    <3>1. Budget(seconds) = AgentDefault
      BY <2>4 DEF Budget
    <3> QED BY <2>2, <2>3, <2>4, <3>1 DEF Fits
  <2>5. CASE seconds > 0
    <3>1. Budget(seconds) = seconds * Second /\ seconds * Second \in Nat
      BY <2>1, <2>5, Product, DeadlineAssumption DEF Budget
    <3>2. ASSUME NEW d \in ctx PROVE now <= d + (began - taken)
      <4> DEFINE first == Earliest(ctx)
      <4>1. /\ taken + seconds * Second <= first /\ first <= d
            /\ first \in Int /\ d \in Int
        BY <2>1, <2>2, <2>5 DEF Fits, HasEarliest
      <4> HIDE DEF first
      <4> QED BY <2>1, <2>3, <3>1, <4>1
    <3> QED BY <3>2
  <2> QED BY <2>1, <2>4, <2>5
<1> QED BY <1>1, Invariance, PTL

\* Cutting the time left to whole seconds costs a tool less than a second.
THEOREM CutNearDeadline == Spec => []NotCutShort
<1>1. Inv => NotCutShort
  BY DEF Inv
<1> QED BY <1>1, Invariance, PTL

\* A product of durations that wraps around never lengthens a bash command.
THEOREM BashKeepsItsLimit == Spec => []NoLongerThanAsked
<1>1. Inv => NoLongerThanAsked
  <2> SUFFICES ASSUME Inv, guest = "running", tool.kind = "bash", tool.asked > 0, tool.obeys
               PROVE  now <= began + tool.asked * Second
    BY DEF NoLongerThanAsked
  <2>1. now \in Nat /\ began \in Nat /\ began <= now
    BY DEF Inv, TypeOK
  <2>2. tool.asked \in Int
    BY DeadlineAssumption DEF Inv, TypeOK, NoTool
  <2> DEFINE limit == BashLimit(tool.asked)
             long == tool.asked * Second
  <2>3. limit \in Int /\ long \in Nat /\ limit <= long
    BY <2>2, BashLimitFacts
  <2>4. limit \in OwnLimits(tool)
    BY DEF OwnLimits
  <2>5. began + limit \in toolCtx
    BY <2>4 DEF Inv, Shape
  <2>6. now > began => now <= began + limit
    BY <2>5 DEF Inv, InTime
  <2> HIDE DEF limit, long
  <2>7. now <= began + long
    BY <2>1, <2>3, <2>6
  <2> QED BY <2>7 DEF long
<1> QED BY <1>1, Invariance, PTL
=============================================================================
