------------------------ MODULE AgentSession_proofs -------------------------
(***************************************************************************)
(* Proofs about AgentSession, for any number of probes, calls and waiting  *)
(* connections: the WaitGroup counts the handlers, a clean stop leaves     *)
(* none behind, and the answers of Exec mean what RemoteCall says.         *)
(***************************************************************************)
EXTENDS AgentSession, FiniteSetTheorems, TLAPS

\* The connections whose handler has not called wg.Done yet.
Busy == {c \in Conns : Handling(c)}

Counted == IsFiniteSet(Busy) /\ wg = Cardinality(Busy)

\* What the two ends of a connection know of each other.
ConnShape(c) ==
    /\ client[c] \in {"idle", "connect"} => handler[c] = "none" /\ c \notin queue
    /\ c \in queue => handler[c] = "none"
    /\ client[c] \in {"send", "receive"} => c \in Calls
    /\ client[c] = "receive" => c \in sent
    /\ c \in sent => client[c] \in {"receive", "done", "failed"}
    /\ handler[c] \in {"execute", "encode", "replied"} => c \in sent
    /\ c \in Calls /\ client[c] = "done" => c \in responses
    /\ c \in responses => handler[c] = "replied"
    /\ handler[c] = "replied" => c \in responses \/ client[c] = "failed"
    /\ c \in sent /\ c \notin Timed /\ client[c] = "failed" =>
        guest # "running" \/ handler[c] \in {"closed", "reset", "replied"}

ServeShape ==
    /\ guest = "exited" => serve \in {"start", "nil", "error"}
    /\ serve \in {"start", "nil"} => \A c \in Conns : ~Handling(c)

Inv ==
    /\ TypeOK
    /\ Counted
    /\ \A c \in Conns : ConnShape(c)
    /\ ServeShape

LEMMA Initially == Init => Inv
<1> SUFFICES ASSUME Init PROVE Inv
  OBVIOUS
<1>1. Busy = {}
  BY DEF Init, Busy, Handling
<1>2. Counted
  BY <1>1, FS_EmptySet DEF Counted, Init
<1>3. TypeOK /\ ServeShape /\ \A c \in Conns : ConnShape(c)
  BY DEF Init, TypeOK, ServeShape, ConnShape, Handling
<1> QED BY <1>2, <1>3 DEF Inv

----------------------------------------------------------------------------
(* The counter.                                                            *)

LEMMA CountKept ==
    ASSUME Inv, wg' = wg, \A c \in Conns : Handling(c)' <=> Handling(c)
    PROVE  Counted'
<1>1. Busy' = Busy
  BY DEF Busy, Conns
<1> QED BY <1>1 DEF Inv, Counted

LEMMA CountUp ==
    ASSUME Inv, NEW c \in Conns, ~Handling(c), wg' = wg + 1,
           handler' = [handler EXCEPT ![c] = "decode"]
    PROVE  Counted' /\ wg' \in Nat
<1>1. Busy' = Busy \cup {c} /\ c \notin Busy
  BY DEF Busy, Handling, Conns, Inv, TypeOK
<1> QED BY <1>1, FS_AddElement DEF Inv, Counted, TypeOK

LEMMA CountDown ==
    ASSUME Inv, NEW c \in Conns, Handling(c), wg' = wg - 1,
           NEW end \in {"closed", "replied"}, handler' = [handler EXCEPT ![c] = end]
    PROVE  Counted' /\ wg' \in Nat
<1>1. Busy' = Busy \ {c} /\ c \in Busy
  BY DEF Busy, Handling, Conns, Inv, TypeOK
<1>2. IsFiniteSet(Busy') /\ Cardinality(Busy') = Cardinality(Busy) - 1
  BY <1>1, FS_RemoveElement DEF Inv, Counted
<1>3. Cardinality(Busy') \in Nat
  BY <1>2, FS_CardinalityType
<1> QED BY <1>2, <1>3 DEF Inv, Counted

----------------------------------------------------------------------------
(* The steps keep the invariant.                                           *)

LEMMA HostKeeps ==
    ASSUME Inv, NEW c \in Conns, Dial(c) \/ HostStep(c)
    PROVE  Inv'
<1> USE DEF Inv
<1>1. UNCHANGED <<serveVars, handlerVars>>
  BY DEF Dial, HostStep, Connected, ConnectFails, Send, SendFails, Receive, ReceiveFails
<1>2. Counted' /\ ServeShape'
  <2>1. \A d \in Conns : Handling(d)' <=> Handling(d)
    BY <1>1 DEF Handling, handlerVars
  <2>2. Counted'
    BY <1>1, <2>1, CountKept DEF handlerVars
  <2>3. ServeShape'
    BY <1>1, <2>1 DEF ServeShape, serveVars, Conns
  <2> QED BY <2>2, <2>3
<1>3. CASE Dial(c)
  BY <1>1, <1>2, <1>3 DEF Dial, TypeOK, ConnShape, handlerVars, serveVars
<1>4. CASE Connected(c)
  BY <1>1, <1>2, <1>4, SessionAssumption
     DEF Connected, Reachable, TypeOK, ConnShape, handlerVars, serveVars, Conns
<1>5. CASE ConnectFails(c)
  BY <1>1, <1>2, <1>5 DEF ConnectFails, Reachable, TypeOK, ConnShape, handlerVars,
     serveVars, Conns
<1>6. CASE Send(c)
  <2>1. c \in Calls
    BY <1>6 DEF Send, ConnShape, Conns
  <2> QED BY <1>1, <1>2, <1>6, <2>1 DEF Send, TypeOK, ConnShape, handlerVars, serveVars
<1>7. CASE SendFails(c)
  BY <1>1, <1>2, <1>7 DEF SendFails, TypeOK, ConnShape, handlerVars, serveVars
<1>8. CASE Receive(c)
  BY <1>1, <1>2, <1>8 DEF Receive, TypeOK, ConnShape, handlerVars, serveVars
<1>9. CASE ReceiveFails(c)
  BY <1>1, <1>2, <1>9 DEF ReceiveFails, GuestClosed, TypeOK, ConnShape, handlerVars,
     serveVars
<1> QED BY <1>3, <1>4, <1>5, <1>6, <1>7, <1>8, <1>9 DEF HostStep

LEMMA ServeKeeps ==
    ASSUME Inv,
           Listen \/ ListenFails \/ Cancel \/ CloseListener \/ AcceptFails \/ CheckContext
               \/ WaitReturns \/ Exit \/ Crash
    PROVE  Inv'
<1> USE DEF Inv
<1>1. UNCHANGED <<hostVars, wg, responses>>
  BY DEF Listen, ListenFails, Cancel, CloseListener, AcceptFails, CheckContext,
     WaitReturns, Exit, Crash,
         handlerVars
<1>2. \A c \in Conns : Handling(c)' <=> Handling(c)
  <2>1. CASE CloseListener
    BY <2>1 DEF CloseListener, Handling, ConnShape, TypeOK
  <2>2. CASE UNCHANGED handlerVars
    BY <2>2 DEF Handling, handlerVars
  <2> QED BY <2>1, <2>2 DEF Listen, ListenFails, Cancel, AcceptFails, CheckContext,
        WaitReturns, Exit, Crash
<1>3. Counted'
  BY <1>1, <1>2, CountKept
<1>4. CASE CloseListener
  <2>1. TypeOK'
    BY <1>1, <1>4 DEF CloseListener, TypeOK, hostVars
  <2>2. ASSUME NEW c \in Conns PROVE ConnShape(c)'
    BY <1>1, <1>4 DEF CloseListener, TypeOK, ConnShape, hostVars
  <2>3. ServeShape'
    BY <1>2, <1>4 DEF CloseListener, ServeShape, Conns
  <2> QED BY <1>3, <2>1, <2>2, <2>3 DEF Conns
<1>5. CASE WaitReturns
  <2>1. Busy = {}
    BY <1>5, FS_EmptySet DEF WaitReturns, Counted
  <2>2. \A c \in Conns : ~Handling(c)
    BY <2>1 DEF Busy
  <2> QED BY <1>2, <1>3, <1>5, <2>2
        DEF WaitReturns, TypeOK, ConnShape, ServeShape, hostVars, handlerVars, Conns
<1>6. CASE Listen \/ ListenFails \/ Cancel \/ AcceptFails \/ CheckContext \/ Exit \/ Crash
  BY <1>2, <1>3, <1>6
     DEF Listen, ListenFails, Cancel, AcceptFails, CheckContext, Exit, Crash, TypeOK,
           ConnShape, ServeShape,
         hostVars, handlerVars, Conns
<1> QED BY <1>4, <1>5, <1>6

LEMMA AcceptKeeps ==
    ASSUME Inv, NEW c \in Conns, Accept(c)
    PROVE  Inv'
<1> USE DEF Inv
<1>1. ~Handling(c) /\ handler[c] = "none"
  BY DEF Accept, ConnShape, Handling
<1>2. Counted' /\ wg' \in Nat
  BY <1>1, CountUp DEF Accept
<1>3. TypeOK'
  BY <1>2 DEF Accept, TypeOK, hostVars, serveVars
<1>4. ASSUME NEW d \in Conns PROVE ConnShape(d)'
  BY <1>1 DEF Accept, ConnShape, TypeOK, hostVars, serveVars
<1>5. ServeShape'
  BY DEF Accept, ServeShape, serveVars
<1> QED BY <1>2, <1>3, <1>4, <1>5 DEF Conns

LEMMA HandlerKeeps ==
    ASSUME Inv, NEW c \in Conns, HandlerStep(c)
    PROVE  Inv'
<1> USE DEF Inv
<1>1. UNCHANGED <<hostVars, queue, serveVars>> /\ guest = "running" /\ Handling(c)
  BY DEF HandlerStep, Decode, DecodeFails, ToolReturns, Reply, Handling
<1>2. ServeShape'
  BY <1>1 DEF ServeShape, serveVars
<1>3. CASE Decode(c) \/ ToolReturns(c)
  <2>1. \A d \in Conns : Handling(d)' <=> Handling(d)
    BY <1>3 DEF Decode, ToolReturns, Handling, TypeOK
  <2>2. Counted'
    BY <1>3, <2>1, CountKept DEF Decode, ToolReturns
  <2>3. TypeOK' /\ \A d \in Conns : ConnShape(d)'
    BY <1>1, <1>3 DEF Decode, ToolReturns, TypeOK, ConnShape, hostVars, serveVars
  <2> QED BY <1>2, <2>2, <2>3 DEF Conns
<1>4. CASE DecodeFails(c)
  <2>1. Counted' /\ wg' \in Nat
    BY <1>1, <1>4, CountDown DEF DecodeFails
  <2>2. TypeOK' /\ \A d \in Conns : ConnShape(d)'
    BY <1>1, <1>4, <2>1 DEF DecodeFails, HostClosed, TypeOK, ConnShape, hostVars, serveVars
  <2> QED BY <1>2, <2>1, <2>2 DEF Conns
<1>5. CASE Reply(c)
  <2>1. Counted' /\ wg' \in Nat
    BY <1>1, <1>5, CountDown DEF Reply
  <2>2. c \in sent /\ c \in Calls /\ c \notin responses
    BY <1>5 DEF Reply, ConnShape, TypeOK
  <2>3. HostClosed(c) => client[c] = "failed"
    BY <1>5, <2>2 DEF HostClosed, ConnShape
  <2>4. TypeOK'
    BY <1>1, <1>5, <2>1, <2>2 DEF Reply, TypeOK, hostVars, serveVars
  <2>5. ASSUME NEW d \in Conns PROVE ConnShape(d)'
    BY <1>1, <1>5, <2>2, <2>3 DEF Reply, TypeOK, ConnShape, hostVars, serveVars
  <2> QED BY <1>2, <2>1, <2>4, <2>5 DEF Conns
<1> QED BY <1>3, <1>4, <1>5 DEF HandlerStep

LEMMA StutterKeeps ==
    ASSUME Inv, UNCHANGED vars
    PROVE  Inv'
<1>1. \A c \in Conns : Handling(c)' <=> Handling(c)
  BY DEF vars, Handling
<1>2. Counted'
  BY <1>1, CountKept DEF vars
<1> QED BY <1>1, <1>2 DEF vars, Inv, TypeOK, ConnShape, ServeShape, Conns

LEMMA Invariance == Spec => []Inv
<1>1. Inv /\ [Next]_vars => Inv'
  BY HostKeeps, ServeKeeps, AcceptKeeps, HandlerKeeps, StutterKeeps DEF Next, ServeStep
<1> QED BY Initially, <1>1, PTL DEF Spec

----------------------------------------------------------------------------
(* The theorems.                                                           *)

\* The WaitGroup counter is a natural number (wg.Done never makes it negative,
\* which would panic), and the positions of both ends have their types.
THEOREM TypeCorrect == Spec => []TypeOK
<1>1. Inv => TypeOK
  BY DEF Inv
<1> QED BY <1>1, Invariance, PTL

\* When Serve returns nil no handler runs, and each call whose request was read
\* has its response, or its caller has given up.
THEOREM StopIsClean == Spec => []CleanStop
<1>1. Inv => CleanStop
  BY DEF Inv, ServeShape, ConnShape, CleanStop
<1> QED BY <1>1, Invariance, PTL

\* The WaitGroup counts exactly the connections between Accept and the end of
\* their handler.
THEOREM CounterIsExact == Spec => [](wg = Cardinality({c \in Conns : Handling(c)}))
<1>1. Inv => wg = Cardinality({c \in Conns : Handling(c)})
  BY DEF Inv, Counted, Busy
<1> QED BY <1>1, Invariance, PTL

----------------------------------------------------------------------------
(* The refinement of RemoteCall.                                           *)

LEMMA ContractInit == Init => Contract!Init
BY DEF Init, Contract!Init, CallState, Ran, Broken, Conns

LEMMA Stutters ==
    ASSUME CallState' = CallState, Ran' = Ran, Broken' = Broken
    PROVE  [Contract!Next]_(Contract!vars)
BY DEF Contract!vars

LEMMA HostImplements ==
    ASSUME Inv, NEW c \in Conns, Dial(c) \/ HostStep(c)
    PROVE  [Contract!Next]_(Contract!vars)
<1> USE DEF Inv
<1>1. Ran' = Ran /\ Broken' = Broken
  BY DEF Dial, HostStep, Connected, ConnectFails, Send, SendFails, Receive, ReceiveFails,
         Ran, Broken, handlerVars, serveVars
<1>2. PICK x \in {"connect", "send", "receive", "done", "failed"} :
          client' = [client EXCEPT ![c] = x]
  BY DEF Dial, HostStep, Connected, ConnectFails, Send, SendFails, Receive, ReceiveFails
<1>3. CASE c \notin Calls
  <2>1. CallState' = CallState
    BY <1>2, <1>3 DEF CallState, TypeOK, Conns
  <2> QED BY <1>1, <2>1, Stutters
<1>4. CASE c \in Calls
  <2>1. \A d \in Calls \ {c} : CallState'[d] = CallState[d]
    BY <1>2, <1>4 DEF CallState, TypeOK, Conns
  <2>2. CASE Dial(c)
    <3>1. CallState[c] = "idle" /\ CallState' = [CallState EXCEPT ![c] = "pending"]
      BY <1>4, <2>2 DEF Dial, CallState, TypeOK, Conns
    <3> QED BY <1>1, <1>4, <3>1 DEF Contract!Next, Contract!Start
  <2>3. CASE Connected(c) \/ Send(c)
    <3>1. CallState' = CallState
      BY <1>4, <2>3, SessionAssumption DEF Connected, Send, CallState, TypeOK, Conns
    <3> QED BY <1>1, <3>1, Stutters
  <2>4. CASE Receive(c)
    <3>1. CallState[c] = "pending" /\ CallState' = [CallState EXCEPT ![c] = "answered"]
      BY <1>4, <2>4 DEF Receive, CallState, TypeOK, Conns
    <3>2. c \in Ran
      BY <1>4, <2>4 DEF Receive, ConnShape, Ran
    <3> QED BY <1>1, <1>4, <3>1, <3>2 DEF Contract!Next, Contract!Answer
  <2>5. CASE ConnectFails(c) \/ SendFails(c) \/ ReceiveFails(c)
    <3>1. CallState[c] = "pending" /\ CallState' = [CallState EXCEPT ![c] = "failed"]
      BY <1>4, <2>5 DEF ConnectFails, SendFails, ReceiveFails, CallState, TypeOK, Conns
    <3>2. c \in Ran => c \in Timed \/ Broken
      <4>1. CASE ConnectFails(c) \/ SendFails(c)
        BY <4>1 DEF ConnectFails, SendFails, ConnShape, Ran
      <4>2. CASE ReceiveFails(c)
        <5> SUFFICES ASSUME c \in Ran, c \notin Timed, guest # "dead"
                     PROVE  serve = "error"
          BY DEF Broken
        <5>1. GuestClosed(c) /\ c \notin responses /\ client[c] = "receive"
          BY <4>2 DEF ReceiveFails
        <5>2. handler[c] \in {"execute", "encode"}
          BY <5>1 DEF Ran, ConnShape
        <5>3. guest = "exited"
          BY <5>1, <5>2 DEF GuestClosed, TypeOK
        <5> QED BY <5>2, <5>3 DEF ServeShape, Handling
      <4> QED BY <2>5, <4>1, <4>2
    <3> QED BY <1>1, <1>4, <3>1, <3>2 DEF Contract!Next, Contract!Fail
  <2> QED BY <2>2, <2>3, <2>4, <2>5 DEF HostStep
<1> QED BY <1>3, <1>4

\* A tool runs only for a caller that waits, or whose deadline has passed.
LEMMA HandlerImplements ==
    ASSUME Inv, NEW c \in Conns, HandlerStep(c)
    PROVE  [Contract!Next]_(Contract!vars)
<1> USE DEF Inv
<1>1. CallState' = CallState /\ Broken' = Broken /\ guest = "running"
  BY DEF HandlerStep, Decode, DecodeFails, ToolReturns, Reply, CallState, Broken, hostVars,
         serveVars
<1>2. CASE Decode(c)
  <2>1. c \in Calls /\ c \in sent /\ handler[c] = "decode"
    BY <1>2 DEF Decode, TypeOK
  <2>2. c \notin Ran /\ Ran' = Ran \cup {c}
    BY <1>2, <2>1 DEF Decode, Ran, TypeOK, Conns
  <2>3. client[c] = "receive" \/ (client[c] = "failed" /\ c \in Timed)
    BY <1>1, <2>1 DEF ConnShape
  <2>4. CallState[c] = "pending" \/ (CallState[c] = "failed" /\ c \in Timed)
    BY <2>1, <2>3 DEF CallState
  <2> QED BY <1>1, <2>1, <2>2, <2>4 DEF Contract!Next, Contract!Run
<1>3. CASE DecodeFails(c) \/ ToolReturns(c) \/ Reply(c)
  <2>1. Ran' = Ran
    BY <1>3 DEF DecodeFails, ToolReturns, Reply, Ran, TypeOK, Conns
  <2> QED BY <1>1, <2>1, Stutters
<1> QED BY <1>2, <1>3 DEF HandlerStep

LEMMA ServeImplements ==
    ASSUME Inv,
           \/ Listen \/ ListenFails \/ Cancel \/ CloseListener \/ AcceptFails \/ CheckContext
           \/ WaitReturns \/ Exit \/ Crash
           \/ \E c \in Conns : Accept(c)
           \/ UNCHANGED vars
    PROVE  [Contract!Next]_(Contract!vars)
<1> USE DEF Inv
<1>1. CallState' = CallState
  BY DEF Listen, ListenFails, Cancel, CloseListener, AcceptFails, CheckContext,
     WaitReturns, Exit, Crash,
         Accept, vars, hostVars, CallState
<1>2. Ran' = Ran
  <2>1. CASE CloseListener
    BY <2>1 DEF CloseListener, Ran, ConnShape, TypeOK, Conns
  <2>2. CASE \E c \in Conns : Accept(c)
    BY <2>2 DEF Accept, Ran, ConnShape, TypeOK, Conns
  <2>3. CASE handler' = handler
    BY <2>3 DEF Ran
  <2> QED BY <2>1, <2>2, <2>3
        DEF Listen, ListenFails, Cancel, AcceptFails, CheckContext, WaitReturns, Exit,
              Crash, vars, handlerVars
<1>3. Broken => Broken'
  BY DEF Listen, ListenFails, Cancel, CloseListener, AcceptFails, CheckContext,
     WaitReturns, Exit, Crash,
         Accept, vars, serveVars, Broken, TypeOK
<1>4. Broken \in BOOLEAN /\ Broken' \in BOOLEAN
  BY DEF Broken
<1>5. Broken' = Broken \/ Contract!Break
  BY <1>1, <1>2, <1>3, <1>4 DEF Contract!Break
<1> QED BY <1>1, <1>2, <1>5, Stutters DEF Contract!Next

\* What the caller of Exec concludes from its answer is true, however probes,
\* calls, stops and crashes fall together.
THEOREM ImplementsCallContract == Spec => KeepsCallContract
<1>1. Inv /\ [Next]_vars => [Contract!Next]_(Contract!vars)
  BY HostImplements, HandlerImplements, ServeImplements DEF Next, ServeStep
<1> QED BY ContractInit, <1>1, Invariance, PTL
        DEF Spec, KeepsCallContract, Contract!Spec
=============================================================================
