------------------------ MODULE FirecrackerVM_proofs ------------------------
(***************************************************************************)
(* Proofs about FirecrackerVM, for every set of goroutines calling Destroy *)
(* and every moment at which the VMM may refuse, hang or die.              *)
(***************************************************************************)
EXTENDS FirecrackerVM, TLAPS

(* The inductive invariant has three parts: what is held at each step of   *)
(* Boot, what is held at each step of Destroy, and what has been           *)
(* configured at each step of driveBoot.                                   *)

BootShape ==
    /\ boot = "idle" => workDir = "none" /\ logFile = "none" /\ vmm = "none"
    /\ boot = "log" => workDir = "present" /\ logFile = "none" /\ vmm = "none"
    /\ boot = "launch" => workDir = "present" /\ logFile = "open" /\ vmm = "none"
    /\ boot \in {"idle", "log", "launch"} \cup DOMAIN After =>
          once = "new" /\ \A p \in Procs : stop[p] = "idle"
    /\ boot \in {"cleanup", "ready"} \cup DOMAIN After => vmm # "none"
    /\ boot \in {"cleanup", "failed"} => \A d \in Destroyers : stop[d] = "idle"
    /\ boot = "ready" => stop[Booter] = "idle"
    /\ boot = "cleanup" => stop[Booter] # "idle"
    /\ boot = "failed" =>
          \/ once = "new" /\ vmm = "none" /\ Freed /\ stop[Booter] = "idle"
          \/ once = "done" /\ stop[Booter] = "returned"

StopShape ==
    /\ once = "new" => waiter = "none" /\ \A p \in Procs : stop[p] \in {"idle", "once"}
    /\ once = "new" /\ vmm # "none" => workDir = "present" /\ logFile = "open"
    /\ once = "running" =>
          /\ workDir = "present"
          /\ logFile = "open"
          /\ \A p \in Procs : stop[p] # "returned"
    /\ once = "done" => Freed /\ vmm = "reaped"
    /\ once # "new" => vmm # "none"
    /\ TerminateOnce
    /\ \A p \in Procs :
          /\ stop[p] = "sigterm" => waiter = "none"
          /\ stop[p] \in {"select", "sigkill", "await"} => waiter # "none"
          /\ stop[p] = "clean" => waiter = "sent"
    /\ vmm = "reaped" <=> waiter \in {"reaped", "sent"}

ConfigShape ==
    /\ boot = "source" => "machine" \in configured
    /\ boot = "drive" => {"machine", "source"} \subseteq configured
    /\ boot = "vsock" => {"machine", "source", "drive"} \subseteq configured
    /\ boot \in {"start", "agent", "ready"} => configured = Resources
    /\ boot \in {"agent", "ready"} => instance
    /\ instance => configured = Resources

Inv == TypeOK /\ BootShape /\ StopShape /\ ConfigShape

LEMMA Steps ==
    /\ DOMAIN After = {"socket", "machine", "source", "drive", "vsock", "start",
                       "agent"}
    /\ After["socket"] = "machine"
    /\ After["machine"] = "source"
    /\ After["source"] = "drive"
    /\ After["drive"] = "vsock"
    /\ After["vsock"] = "start"
    /\ After["start"] = "agent"
    /\ After["agent"] = "ready"
BY DEF After

LEMMA InvInit == Init => Inv
BY VMAssumption, Steps, ZenonT(60)
   DEF Init, Inv, TypeOK, BootShape, StopShape, ConfigShape, Procs, Freed,
       TerminateOnce, Terminating, Resources

LEMMA TypeNext == TypeOK /\ [Next]_vars => TypeOK'
<1> SUFFICES ASSUME TypeOK, [Next]_vars PROVE TypeOK'
  OBVIOUS
<1>1. CASE BootStep
  <2> USE <1>1, Steps DEF TypeOK, bootVars, stopVars, Procs
  <2>1. CASE MakeWorkDir \/ BootRefused \/ CreateLog \/ LogFails
    BY <2>1 DEF MakeWorkDir, BootRefused, CreateLog, LogFails, RemoveAll
  <2>2. CASE Launch \/ LaunchFails
    BY <2>2 DEF Launch, LaunchFails, RemoveAll
  <2>3. CASE CallSucceeds
    BY <2>3 DEF CallSucceeds, Driving, Answered, Resources
  <2>4. CASE RequestFails \/ ContextEnds \/ BootFails
    BY <2>4 DEF RequestFails, ContextEnds, GiveUp, BootFails
  <2> QED BY <2>1, <2>2, <2>3, <2>4 DEF BootStep, BootGoesOn
<1>2. CASE Expire
  BY <1>2 DEF Expire, TypeOK, stopVars
<1>3. ASSUME NEW d \in Destroyers, Destroy(d) PROVE TypeOK'
  <2>1. /\ UNCHANGED <<bootVars, workDir, logFile, vmm, killed, once, waiter>>
        /\ stop' = [stop EXCEPT ![d] = "once"]
    BY <1>3 DEF Destroy
  <2>2. d \in Procs
    BY DEF Procs
  <2> QED BY <2>1, <2>2 DEF TypeOK, bootVars
<1>4. ASSUME NEW p \in Procs, StopStep(p) PROVE TypeOK'
  <2>1. CASE EnterOnce(p) \/ PassOnce(p) \/ Sigterm(p) \/ ExitSeen(p)
    BY <2>1 DEF EnterOnce, PassOnce, Sigterm, ExitSeen, TypeOK, bootVars
  <2>2. CASE StopTimeout(p) \/ Sigkill(p) \/ Clean(p)
    BY <2>2, ZenonT(60) DEF StopTimeout, Sigkill, Clean, RemoveAll, TypeOK, bootVars
  <2> QED BY <1>4, <2>1, <2>2 DEF StopStep
<1>5. CASE Wait \/ VmmExits
  BY <1>5 DEF Wait, Reap, Report, VmmExits, TypeOK, bootVars, stopVars
<1>6. CASE UNCHANGED vars
  BY <1>6 DEF vars, TypeOK
<1> QED BY <1>1, <1>2, <1>3, <1>4, <1>5, <1>6 DEF Next

\* Boot creates, launches and configures, or gives up; Destroy is not in play.
LEMMA BootKeeps == Inv /\ (BootStep \/ Expire) => (BootShape /\ StopShape /\ ConfigShape)'
<1> SUFFICES ASSUME Inv, BootStep \/ Expire
             PROVE  (BootShape /\ StopShape /\ ConfigShape)'
  OBVIOUS
<1> USE VMAssumption, Steps
    DEF Inv, TypeOK, BootShape, StopShape, ConfigShape, stopVars, Procs, Freed,
        TerminateOnce, Terminating, Resources
<1>1. CASE MakeWorkDir
  BY <1>1 DEF MakeWorkDir
<1>2. CASE BootRefused
  BY <1>2 DEF BootRefused
<1>3. CASE CreateLog
  BY <1>3 DEF CreateLog
<1>4. CASE LogFails
  BY <1>4 DEF LogFails, RemoveAll
<1>5. CASE Launch
  BY <1>5 DEF Launch
<1>6. CASE LaunchFails
  BY <1>6 DEF LaunchFails, RemoveAll
<1>7. CASE CallSucceeds
  <2>1. UNCHANGED <<workDir, logFile, vmm, once, stop, waiter>>
    BY <1>7 DEF CallSucceeds
  <2>2. vmm = "running" /\ boot \in DOMAIN After /\ boot' = After[boot]
    BY <1>7 DEF CallSucceeds, Driving, Answered
  <2>3. BootShape'
    BY <2>1, <2>2
  <2>4. StopShape'
    BY <2>1
  <2>5. ConfigShape'
    <3>1. /\ configured' = configured \cup ({boot} \cap Resources)
          /\ instance' = (instance \/ boot = "start")
      BY <1>7 DEF CallSucceeds
    <3>2. CASE boot = "start"
      BY <3>1, <3>2, <2>2
    <3>3. CASE boot \in {"socket", "machine", "source"}
      BY <3>1, <3>3, <2>2
    <3>4. CASE boot \in {"drive", "agent"}
      BY <3>1, <3>4, <2>2
    <3>5. CASE boot = "vsock"
      <4>1. \A r \in {"machine", "source", "drive"} : r \in configured
        BY <3>5
      <4>2. configured \subseteq Resources
        OBVIOUS
      <4>3. \A r \in Resources : r \in configured'
        BY <3>1, <3>5, <4>1
      <4>4. configured' \subseteq Resources
        BY <3>1, <4>2
      <4> HIDE DEF Resources, Inv, TypeOK, BootShape, StopShape, ConfigShape
      <4>5. configured' = Resources
        BY <4>3, <4>4
      <4> USE DEF ConfigShape
      <4>6. boot' = "start"
        BY <3>5, <2>2
      <4> QED BY <4>5, <4>6
    <3> QED BY <2>2, <3>2, <3>3, <3>4, <3>5
  <2> QED BY <2>3, <2>4, <2>5
<1>8. CASE RequestFails \/ ContextEnds
  BY <1>8 DEF RequestFails, ContextEnds, GiveUp, Requesting, RequestCut,
     SocketNeverOpens, AgentNeverAnswers
<1>9. CASE BootFails
  BY <1>9 DEF BootFails
<1>10. CASE Expire
  BY <1>10 DEF Expire
<1> QED
  BY <1>1, <1>2, <1>3, <1>4, <1>5, <1>6, <1>7, <1>8, <1>9, <1>10 DEF BootStep,
     BootGoesOn

LEMMA StopKeeps ==
    ASSUME Inv, NEW p \in Procs, StopStep(p)
    PROVE  (BootShape /\ StopShape /\ ConfigShape)'
<1> USE VMAssumption, Steps
    DEF Inv, TypeOK, BootShape, StopShape, ConfigShape, bootVars, Procs, Freed,
        TerminateOnce, Terminating, Resources
<1>1. CASE EnterOnce(p)
  BY <1>1 DEF EnterOnce
<1>2. CASE PassOnce(p)
  BY <1>2 DEF PassOnce
<1>3. CASE Sigterm(p)
  BY <1>3 DEF Sigterm
<1>4. CASE ExitSeen(p)
  BY <1>4 DEF ExitSeen
<1>5. CASE StopTimeout(p)
  BY <1>5 DEF StopTimeout
<1>6. CASE Sigkill(p)
  BY <1>6 DEF Sigkill
<1>7. CASE Clean(p)
  BY <1>7 DEF Clean, RemoveAll
<1> QED BY <1>1, <1>2, <1>3, <1>4, <1>5, <1>6, <1>7 DEF StopStep

LEMMA OthersKeep ==
    ASSUME Inv,
           \/ \E d \in Destroyers : Destroy(d)
           \/ Wait
           \/ VmmExits
           \/ UNCHANGED vars
    PROVE  (BootShape /\ StopShape /\ ConfigShape)'
<1> USE VMAssumption, Steps
    DEF Inv, TypeOK, BootShape, StopShape, ConfigShape, bootVars, stopVars,
        Procs, Freed, TerminateOnce, Terminating, Resources
<1>1. ASSUME NEW d \in Destroyers, Destroy(d)
      PROVE  (BootShape /\ StopShape /\ ConfigShape)'
  BY <1>1 DEF Destroy
<1>2. CASE Reap
  BY <1>2 DEF Reap
<1>3. CASE Report
  BY <1>3 DEF Report
<1>4. CASE VmmExits
  BY <1>4 DEF VmmExits
<1>5. CASE UNCHANGED vars
  BY <1>5 DEF vars
<1> QED BY <1>1, <1>2, <1>3, <1>4, <1>5 DEF Wait

LEMMA InvNext == Inv /\ [Next]_vars => Inv'
BY TypeNext, BootKeeps, StopKeeps, OthersKeep DEF Inv, Next

LEMMA Invariance == Spec => []Inv
<1> QED BY InvInit, InvNext, PTL DEF Spec

\* The variables keep their types.
THEOREM TypeCorrect == Spec => []TypeOK
<1>1. Inv => TypeOK
  BY DEF Inv
<1> QED BY <1>1, Invariance, PTL

\* Wherever Boot fails, before or after the VMM is launched, no process, open
\* log or directory is left to free.
THEOREM FailedBootIsClean == Spec => []FailedBootLeavesNothing
<1>1. Inv => FailedBootLeavesNothing
  BY DEF Inv, FailedBootLeavesNothing, BootShape, StopShape
<1> QED BY <1>1, Invariance, PTL

\* Every Destroy that returns, whoever ran terminate, returns after it is over.
THEOREM DestroyIsComplete == Spec => []DestroyedWhenReturned
<1>1. Inv => DestroyedWhenReturned
  BY DEF Inv, TypeOK, DestroyedWhenReturned, StopShape
<1> QED BY <1>1, Invariance, PTL

\* The directory is removed only when the VMM has been reaped or never ran.
THEOREM DirectoryIsSafe == Spec => []DirOutlivesVMM
<1>1. Inv => DirOutlivesVMM
  BY Steps DEF Inv, TypeOK, DirOutlivesVMM, BootShape, StopShape
<1> QED BY <1>1, Invariance, PTL

\* SIGTERM is never sent to the process id of a process already reaped.
THEOREM SigtermIsSafe == Spec => []SigtermHitsVMM
<1>1. Inv => SigtermHitsVMM
  BY DEF Inv, TypeOK, SigtermHitsVMM, StopShape, TerminateOnce, Terminating
<1> QED BY <1>1, Invariance, PTL

\* sync.Once: however many call Destroy, one goroutine terminates the VMM.
THEOREM OneTerminator == Spec => []TerminateOnce
<1>1. Inv => TerminateOnce
  BY DEF Inv, StopShape
<1> QED BY <1>1, Invariance, PTL

\* driveBoot configures everything before it starts the instance.
THEOREM StartIsConfigured == Spec => []StartedWhenConfigured
<1>1. Inv => StartedWhenConfigured
  BY DEF Inv, ConfigShape, StartedWhenConfigured
<1> QED BY <1>1, Invariance, PTL

----------------------------------------------------------------------------
(* FirecrackerVM implements BackendContract.                               *)

LEMMA ContractInit == Init => Contract!Init
BY DEF Init, Contract!Init, HostResources, Held, BootAnswer, DestroyCall, Procs

\* A step that changes nothing the contract speaks of.
LEMMA Stutters ==
    ASSUME HostResources' = HostResources, BootAnswer' = BootAnswer,
           DestroyCall' = DestroyCall
    PROVE  [Contract!Next]_(Contract!vars)
BY DEF Contract!vars

LEMMA BootImplements ==
    Inv /\ (BootStep \/ Expire) => [Contract!Next]_(Contract!vars)
<1> SUFFICES ASSUME Inv, BootStep \/ Expire
             PROVE  [Contract!Next]_(Contract!vars)
  OBVIOUS
<1>1. CASE MakeWorkDir
  <2>1. HostResources = "absent" /\ HostResources' = "held"
    BY <1>1 DEF Inv, BootShape, MakeWorkDir, HostResources, Held
  <2>2. BootAnswer = "none" /\ BootAnswer' = "none" /\ DestroyCall' = DestroyCall
    BY <1>1 DEF MakeWorkDir, BootAnswer, DestroyCall, stopVars
  <2> QED BY <2>1, <2>2 DEF Contract!Next, Contract!Acquire
<1>2. CASE BootRefused
  <2>1. HostResources = "absent" /\ HostResources' = "absent"
    BY <1>2 DEF Inv, BootShape, BootRefused, HostResources, Held
  <2>2. BootAnswer = "none" /\ BootAnswer' = "error" /\ DestroyCall' = DestroyCall
    BY <1>2 DEF BootRefused, BootAnswer, DestroyCall, stopVars
  <2> QED BY <2>1, <2>2 DEF Contract!Next, Contract!Fail
<1>3. CASE CreateLog \/ Launch
  <2>1. HostResources = "held" /\ HostResources' = "held"
    BY <1>3 DEF Inv, BootShape, CreateLog, Launch, HostResources, Held
  <2>2. BootAnswer = "none" /\ BootAnswer' = "none" /\ DestroyCall' = DestroyCall
    BY <1>3 DEF CreateLog, Launch, BootAnswer, DestroyCall, stopVars
  <2> QED BY <2>1, <2>2, Stutters
<1>4. CASE LogFails \/ LaunchFails
  <2>1. HostResources = "held" /\ HostResources' = "freed"
    BY <1>4 DEF Inv, BootShape, LogFails, LaunchFails, RemoveAll, HostResources, Held
  <2>2. BootAnswer = "none" /\ BootAnswer' = "error" /\ DestroyCall' = DestroyCall
    BY <1>4 DEF LogFails, LaunchFails, BootAnswer, DestroyCall, stopVars
  <2> QED BY <2>1, <2>2 DEF Contract!Next, Contract!Free
<1>5. CASE CallSucceeds
  <2>1. HostResources = "held" /\ HostResources' = "held"
    BY <1>5 DEF CallSucceeds, Answered, HostResources, Held
  <2>2. BootAnswer = "none" /\ BootAnswer' \in {"none", "ok"}
    BY <1>5, Steps DEF CallSucceeds, Driving, Answered, BootAnswer
  <2>3. DestroyCall' = DestroyCall
    BY <1>5 DEF CallSucceeds, DestroyCall, stopVars
  <2> QED BY <2>1, <2>2, <2>3, Stutters DEF Contract!Next, Contract!Succeed
<1>6. CASE RequestFails \/ ContextEnds
  <2> USE <1>6 DEF RequestFails, ContextEnds, GiveUp
  <2>1. HostResources' = HostResources
    BY DEF HostResources, Held
  <2>2. BootAnswer' = BootAnswer
    BY Steps DEF Requesting, RequestCut, SocketNeverOpens, AgentNeverAnswers,
       Resources, BootAnswer
  <2>3. DestroyCall' = DestroyCall
    BY VMAssumption DEF Inv, TypeOK, DestroyCall, Procs
  <2> QED BY <2>1, <2>2, <2>3, Stutters
<1>7. CASE BootFails
  <2>1. Freed /\ vmm = "reaped"
    BY <1>7 DEF Inv, TypeOK, BootShape, StopShape, BootFails, Procs
  <2>2. HostResources = "freed" /\ HostResources' = "freed"
    BY <1>7, <2>1 DEF Freed, BootFails, HostResources, Held
  <2>3. BootAnswer = "none" /\ BootAnswer' = "error" /\ DestroyCall' = DestroyCall
    BY <1>7 DEF BootFails, BootAnswer, DestroyCall, stopVars
  <2> QED BY <2>2, <2>3 DEF Contract!Next, Contract!Fail
<1>8. CASE Expire
  <2>1. /\ HostResources' = HostResources
        /\ BootAnswer' = BootAnswer
        /\ DestroyCall' = DestroyCall
    BY <1>8 DEF Expire, HostResources, Held, BootAnswer, DestroyCall, stopVars
  <2> QED BY <2>1, Stutters
<1> QED
  BY <1>1, <1>2, <1>3, <1>4, <1>5, <1>6, <1>7, <1>8 DEF BootStep, BootGoesOn

LEMMA StopImplements ==
    ASSUME Inv, NEW p \in Procs, StopStep(p)
    PROVE  [Contract!Next]_(Contract!vars)
<1>1. BootAnswer' = BootAnswer
  BY DEF StopStep, EnterOnce, PassOnce, Sigterm, ExitSeen, StopTimeout, Sigkill,
     Clean, bootVars, BootAnswer
<1>2. CASE EnterOnce(p) \/ Sigterm(p) \/ ExitSeen(p) \/ StopTimeout(p) \/ Sigkill(p)
  <2>1. HostResources' = HostResources
    BY <1>2 DEF EnterOnce, Sigterm, ExitSeen, StopTimeout, Sigkill, HostResources, Held
  <2>2. DestroyCall' = DestroyCall
    BY <1>2 DEF EnterOnce, Sigterm, ExitSeen, StopTimeout, Sigkill, DestroyCall,
       Inv, TypeOK, Procs
  <2> QED BY <1>1, <2>1, <2>2, Stutters
<1>3. CASE PassOnce(p)
  <2>1. HostResources = "freed" /\ HostResources' = "freed"
    BY <1>3 DEF PassOnce, HostResources, Held, Freed, Inv, StopShape
  <2>2. CASE p \in Destroyers
    <3>1. DestroyCall[p] = "calling"
      BY <1>3, <2>2 DEF PassOnce, DestroyCall
    <3>2. DestroyCall' = [DestroyCall EXCEPT ![p] = "answered"]
      BY <1>3, <2>2 DEF PassOnce, DestroyCall, Inv, TypeOK, Procs
    <3> QED BY <1>1, <2>1, <2>2, <3>1, <3>2 DEF Contract!Next, Contract!Answer
  <2>3. CASE p = Booter
    <3>1. DestroyCall' = DestroyCall
      BY <1>3, <2>3, VMAssumption DEF PassOnce, DestroyCall, Inv, TypeOK, Procs
    <3> QED BY <1>1, <2>1, <3>1, Stutters
  <2> QED BY <2>2, <2>3 DEF Procs
<1>4. CASE Clean(p)
  <2>1. Terminating(p) /\ once = "running" /\ vmm = "reaped" /\ workDir = "present"
    BY <1>4 DEF Clean, Terminating, Inv, StopShape, TerminateOnce
  <2>2. HostResources = "held" /\ HostResources' = "freed"
    BY <1>4, <2>1 DEF Clean, RemoveAll, HostResources, Held
  <2>3. CASE p \in Destroyers
    <3>1. DestroyCall[p] = "calling"
      BY <1>4, <2>3 DEF Clean, DestroyCall
    <3>2. DestroyCall' = [DestroyCall EXCEPT ![p] = "answered"]
      BY <1>4, <2>3 DEF Clean, DestroyCall, Inv, TypeOK, Procs
    <3> QED BY <1>1, <2>2, <2>3, <3>1, <3>2 DEF Contract!Next, Contract!Answer
  <2>4. CASE p = Booter
    <3>1. DestroyCall' = DestroyCall
      BY <1>4, <2>4, VMAssumption DEF Clean, DestroyCall, Inv, TypeOK, Procs
    <3>2. BootAnswer = "none"
      BY <1>4, <2>1, <2>4 DEF Clean, BootAnswer, Inv, BootShape
    <3> QED BY <1>1, <2>2, <3>1, <3>2 DEF Contract!Next, Contract!Free
  <2> QED BY <2>3, <2>4 DEF Procs
<1> QED BY <1>2, <1>3, <1>4 DEF StopStep

LEMMA OthersImplement ==
    ASSUME Inv,
           \/ \E d \in Destroyers : Destroy(d)
           \/ Wait
           \/ VmmExits
           \/ UNCHANGED vars
    PROVE  [Contract!Next]_(Contract!vars)
<1>1. ASSUME NEW d \in Destroyers, Destroy(d)
      PROVE  [Contract!Next]_(Contract!vars)
  <2>1. HostResources' = HostResources /\ BootAnswer' = BootAnswer /\ BootAnswer = "ok"
    BY <1>1 DEF Destroy, HostResources, Held, BootAnswer, bootVars
  <2>2. /\ DestroyCall[d] # "calling"
        /\ DestroyCall' = [DestroyCall EXCEPT ![d] = "calling"]
    BY <1>1 DEF Destroy, DestroyCall, Inv, TypeOK, Procs
  <2> QED BY <2>1, <2>2 DEF Contract!Next, Contract!Destroy
<1>2. CASE Wait \/ VmmExits
  <2>1. BootAnswer' = BootAnswer /\ DestroyCall' = DestroyCall
    BY <1>2 DEF Wait, Reap, Report, VmmExits, BootAnswer, DestroyCall, bootVars, stopVars
  <2>2. CASE Reap
    <3>1. once = "running"
      BY <2>2 DEF Reap, Inv, TypeOK, StopShape
    <3>2. HostResources = "held" /\ HostResources' = "held"
      BY <2>2, <3>1 DEF Reap, HostResources, Held, Inv, StopShape
    <3> QED BY <2>1, <3>2, Stutters
  <2>3. CASE Report \/ VmmExits
    <3>1. HostResources' = HostResources
      BY <2>3 DEF Report, VmmExits, HostResources, Held
    <3> QED BY <2>1, <3>1, Stutters
  <2> QED BY <1>2, <2>2, <2>3 DEF Wait
<1>3. CASE UNCHANGED vars
  <2>1. /\ HostResources' = HostResources
        /\ BootAnswer' = BootAnswer
        /\ DestroyCall' = DestroyCall
    BY <1>3 DEF vars, HostResources, Held, BootAnswer, DestroyCall
  <2> QED BY <2>1, Stutters
<1> QED BY <1>1, <1>2, <1>3

\* FirecrackerBackend keeps the contract the Pool relies on.
THEOREM ImplementsContract == Spec => KeepsContract
<1>1. Init => Contract!Init
  BY ContractInit
<1>2. Inv /\ [Next]_vars => [Contract!Next]_(Contract!vars)
  BY BootImplements, StopImplements, OthersImplement DEF Next
<1> QED BY <1>1, <1>2, Invariance, PTL DEF Spec, KeepsContract, Contract!Spec
=============================================================================
