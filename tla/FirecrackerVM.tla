--------------------------- MODULE FirecrackerVM ---------------------------
(***************************************************************************)
(* One microVM of FirecrackerBackend, from Boot to Destroy: the goroutine  *)
(* in Boot, the goroutines in Destroy, the goroutine that waits for the    *)
(* VMM process, and the VMM itself, which may refuse a request, hang, or   *)
(* die at any moment.                                                      *)
(*                                                                         *)
(* Timeouts are steps that may come at any time.  The VMM and its guest    *)
(* are external: they are modelled by what Boot and Destroy see of them.   *)
(***************************************************************************)
CONSTANTS
    Booter,         \* the goroutine that calls Boot
    Destroyers      \* goroutines that call Destroy on the handle it returned

ASSUME VMAssumption == Booter \notin Destroyers

Procs == Destroyers \cup {Booter}

VARIABLES
    boot,           \* where Boot stands
    expired,        \* the Boot context is done (BootTimeout, or its parent)
    workDir,        \* the per-VM directory
    logFile,        \* the file that takes the VMM's output
    vmm,            \* the VMM process
    killed,         \* the VMM process has been sent SIGKILL
    configured,     \* the resources PUT so far
    instance,       \* InstanceStart has been accepted
    once,           \* firecrackerHandle.stopOnce
    stop,           \* where each goroutine stands in Destroy
    waiter          \* the goroutine running cmd.Wait

vars == <<boot, expired, workDir, logFile, vmm, killed, configured, instance,
          once, stop, waiter>>

bootVars == <<boot, expired, configured, instance>>
stopVars == <<killed, once, stop, waiter>>

Init ==
    /\ boot = "idle"
    /\ expired = FALSE
    /\ workDir = "none"
    /\ logFile = "none"
    /\ vmm = "none"
    /\ killed = FALSE
    /\ configured = {}
    /\ instance = FALSE
    /\ once = "new"
    /\ stop = [p \in Procs |-> "idle"]
    /\ waiter = "none"

\* os.RemoveAll may fail, which is only logged or not looked at.
RemoveAll == workDir' \in {"removed", "leftover"}

----------------------------------------------------------------------------
(* Boot: the host side, before there is a handle.                          *)

\* The configuration is complete and the working directory is made.
MakeWorkDir ==
    /\ boot = "idle"
    /\ boot' = "log"
    /\ workDir' = "present"
    /\ UNCHANGED <<expired, logFile, vmm, configured, instance, stopVars>>

\* A path is missing from the configuration, or MkdirTemp fails.
BootRefused ==
    /\ boot = "idle"
    /\ boot' = "failed"
    /\ UNCHANGED <<expired, workDir, logFile, vmm, configured, instance, stopVars>>

CreateLog ==
    /\ boot = "log"
    /\ boot' = "launch"
    /\ logFile' = "open"
    /\ UNCHANGED <<expired, workDir, vmm, configured, instance, stopVars>>

LogFails ==
    /\ boot = "log"
    /\ boot' = "failed"
    /\ RemoveAll
    /\ UNCHANGED <<expired, logFile, vmm, configured, instance, stopVars>>

\* The VMM is started whether or not the context is still live.
Launch ==
    /\ boot = "launch"
    /\ boot' = "socket"
    /\ vmm' = "running"
    /\ UNCHANGED <<expired, workDir, logFile, configured, instance, stopVars>>

\* (The definitions named Bad... are slips a change of the code could bring in,
\* one for each property to notice.  No action uses them.)

\* Leaves the log file open.
BadLaunchFails ==
    /\ boot = "launch"
    /\ boot' = "failed"
    /\ RemoveAll
    /\ UNCHANGED <<expired, logFile, vmm, configured, instance, stopVars>>

LaunchFails ==
    /\ boot = "launch"
    /\ boot' = "failed"
    /\ logFile' = "closed"
    /\ RemoveAll
    /\ UNCHANGED <<expired, vmm, configured, instance, stopVars>>

----------------------------------------------------------------------------
(* driveBoot: poll the API socket, PUT the resources, start the instance,  *)
(* poll the agent.                                                         *)

Resources == {"machine", "source", "drive", "vsock"}

\* The vsock device is left for last.
BadAfter == [socket |-> "machine", machine |-> "source", source |-> "drive",
             drive |-> "start", start |-> "vsock", vsock |-> "agent",
             agent |-> "ready"]

\* The order of the calls.
After == [socket |-> "machine", machine |-> "source", source |-> "drive",
          drive |-> "vsock", vsock |-> "start", start |-> "agent",
          agent |-> "ready"]

Driving == boot \in DOMAIN After

\* Nobody answers for a dead VMM, and the agent does not answer before its
\* instance runs.
Answered ==
    /\ ~expired
    /\ vmm = "running"
    /\ boot = "agent" => instance

\* Takes every call for a resource.
BadCallSucceeds ==
    /\ Driving
    /\ Answered
    /\ boot' = After[boot]
    /\ configured' = configured \cup {boot}
    /\ instance' = (instance \/ boot = "start")
    /\ UNCHANGED <<expired, workDir, logFile, vmm, stopVars>>

\* The call under way succeeds.
CallSucceeds ==
    /\ Driving
    /\ Answered
    /\ boot' = After[boot]
    /\ configured' = configured \cup ({boot} \cap Resources)
    /\ instance' = (instance \/ boot = "start")
    /\ UNCHANGED <<expired, workDir, logFile, vmm, stopVars>>

\* Returns the error without cleaning up.
BadGiveUp ==
    /\ boot' = "failed"
    /\ UNCHANGED <<expired, workDir, logFile, vmm, configured, instance, stopVars>>

\* driveBoot returns an error, and Boot destroys the handle itself.
GiveUp ==
    /\ boot' = "cleanup"
    /\ stop' = [stop EXCEPT ![Booter] = "once"]
    /\ UNCHANGED <<expired, workDir, logFile, vmm, configured, instance,
                   killed, once, waiter>>

Requesting == boot \in Resources \cup {"start"}

\* The PUT under way fails: the VMM refuses it, or the connection breaks.
\* Nothing obliges a VMM that hangs to do either.
RequestFails == Requesting /\ GiveUp

\* The request is made without the context.
BadRequestCut == FALSE

\* The end of the context ends the PUT under way, and the two polls.
RequestCut == Requesting /\ expired
SocketNeverOpens == boot = "socket" /\ expired
AgentNeverAnswers == boot = "agent" /\ expired

ContextEnds ==
    /\ RequestCut \/ SocketNeverOpens \/ AgentNeverAnswers
    /\ GiveUp

\* The cleanup is over and Boot returns the error.
BootFails ==
    /\ boot = "cleanup"
    /\ stop[Booter] = "returned"
    /\ boot' = "failed"
    /\ UNCHANGED <<expired, workDir, logFile, vmm, configured, instance, stopVars>>

\* BootTimeout passes, or the caller of Boot gives up.
Expire ==
    /\ boot \notin {"ready", "failed"}
    /\ ~expired
    /\ expired' = TRUE
    /\ UNCHANGED <<boot, workDir, logFile, vmm, configured, instance, stopVars>>

----------------------------------------------------------------------------
(* Destroy, destroyHandle and terminate.                                   *)

\* The Pool, or anyone with the handle, calls Destroy: once, again, at a time.
Destroy(d) ==
    /\ boot = "ready"
    /\ stop[d] \in {"idle", "returned"}
    /\ stop' = [stop EXCEPT ![d] = "once"]
    /\ UNCHANGED <<bootVars, workDir, logFile, vmm, killed, once, waiter>>

\* No Once.
BadEnterOnce(p) ==
    /\ stop[p] = "once"
    /\ once' = "running"
    /\ stop' = [stop EXCEPT ![p] = "sigterm"]
    /\ UNCHANGED <<bootVars, workDir, logFile, vmm, killed, waiter>>

\* A flag in place of the Once: those who come later do not wait.
BadPassOnce(p) ==
    /\ stop[p] = "once"
    /\ once # "new"
    /\ stop' = [stop EXCEPT ![p] = "returned"]
    /\ UNCHANGED <<bootVars, workDir, logFile, vmm, killed, once, waiter>>

\* stopOnce.Do: the first runs terminate, the others wait until it has.
EnterOnce(p) ==
    /\ stop[p] = "once"
    /\ once = "new"
    /\ once' = "running"
    /\ stop' = [stop EXCEPT ![p] = "sigterm"]
    /\ UNCHANGED <<bootVars, workDir, logFile, vmm, killed, waiter>>

PassOnce(p) ==
    /\ stop[p] = "once"
    /\ once = "done"
    /\ stop' = [stop EXCEPT ![p] = "returned"]
    /\ UNCHANGED <<bootVars, workDir, logFile, vmm, killed, once, waiter>>

\* SIGTERM, which the VMM may obey or not, then start waiting for its exit.
Sigterm(p) ==
    /\ stop[p] = "sigterm"
    /\ waiter' = "waiting"
    /\ stop' = [stop EXCEPT ![p] = "select"]
    /\ UNCHANGED <<bootVars, workDir, logFile, vmm, killed, once>>

ExitSeen(p) ==
    /\ stop[p] \in {"select", "await"}
    /\ waiter = "sent"
    /\ stop' = [stop EXCEPT ![p] = "clean"]
    /\ UNCHANGED <<bootVars, workDir, logFile, vmm, killed, once, waiter>>

\* Does not wait for the exit.
BadAwait(p) ==
    /\ stop[p] = "sigkill"
    /\ killed' = (vmm = "running")
    /\ stop' = [stop EXCEPT ![p] = "clean"]
    /\ UNCHANGED <<bootVars, workDir, logFile, vmm, once, waiter>>

\* SIGTERM again.
BadSigkill(p) ==
    /\ stop[p] = "sigkill"
    /\ stop' = [stop EXCEPT ![p] = "await"]
    /\ UNCHANGED <<bootVars, workDir, logFile, vmm, killed, once, waiter>>

\* StopTimeout, which may pass just as the VMM exits.
StopTimeout(p) ==
    /\ stop[p] = "select"
    /\ stop' = [stop EXCEPT ![p] = "sigkill"]
    /\ UNCHANGED <<bootVars, workDir, logFile, vmm, killed, once, waiter>>

Sigkill(p) ==
    /\ stop[p] = "sigkill"
    /\ killed' = (vmm = "running")
    /\ stop' = [stop EXCEPT ![p] = "await"]
    /\ UNCHANGED <<bootVars, workDir, logFile, vmm, once, waiter>>

\* The deferred cleanup; then stopOnce is done and the call returns.
Clean(p) ==
    /\ stop[p] = "clean"
    /\ logFile' = "closed"
    /\ RemoveAll
    /\ once' = "done"
    /\ stop' = [stop EXCEPT ![p] = "returned"]
    /\ UNCHANGED <<bootVars, vmm, killed, waiter>>

\* cmd.Wait reaps the process, then its goroutine reports on the channel.
Reap ==
    /\ waiter = "waiting"
    /\ vmm = "zombie"
    /\ vmm' = "reaped"
    /\ waiter' = "reaped"
    /\ UNCHANGED <<bootVars, workDir, logFile, killed, once, stop>>

Report ==
    /\ waiter = "reaped"
    /\ waiter' = "sent"
    /\ UNCHANGED <<bootVars, workDir, logFile, vmm, killed, once, stop>>

----------------------------------------------------------------------------

\* The VMM exits: it crashes, its guest reboots, or it obeys a signal.
VmmExits ==
    /\ vmm = "running"
    /\ vmm' = "zombie"
    /\ UNCHANGED <<bootVars, workDir, logFile, stopVars>>

\* Steps of Boot that the host takes by itself.
BootGoesOn ==
    \/ CreateLog
    \/ LogFails
    \/ Launch
    \/ LaunchFails
    \/ ContextEnds
    \/ BootFails

BootStep ==
    \/ MakeWorkDir
    \/ BootRefused
    \/ CallSucceeds
    \/ RequestFails
    \/ BootGoesOn

StopStep(p) ==
    \/ EnterOnce(p)
    \/ PassOnce(p)
    \/ Sigterm(p)
    \/ ExitSeen(p)
    \/ StopTimeout(p)
    \/ Sigkill(p)
    \/ Clean(p)

Wait == Reap \/ Report

Next ==
    \/ BootStep
    \/ Expire
    \/ \E d \in Destroyers : Destroy(d)
    \/ \E p \in Procs : StopStep(p)
    \/ Wait
    \/ VmmExits

Spec == Init /\ [][Next]_vars

\* Goroutines that can run do, the two timers fire, the kernel ends a process
\* that was sent SIGKILL.  Nobody is obliged to call Boot or Destroy, and the
\* VMM is not obliged to answer a request, with an error or without, to obey
\* SIGTERM, or to stay alive.
Fairness ==
    /\ WF_vars(BootGoesOn)
    /\ WF_vars(boot # "idle" /\ Expire)
    /\ \A p \in Procs : WF_vars(StopStep(p))
    /\ WF_vars(Wait)
    /\ WF_vars(killed /\ VmmExits)

FairSpec == Spec /\ Fairness

----------------------------------------------------------------------------
(* Properties.                                                             *)

TypeOK ==
    /\ boot \in {"idle", "log", "launch", "cleanup", "ready", "failed"}
                \cup DOMAIN After
    /\ expired \in BOOLEAN
    /\ workDir \in {"none", "present", "removed", "leftover"}
    /\ logFile \in {"none", "open", "closed"}
    /\ vmm \in {"none", "running", "zombie", "reaped"}
    /\ killed \in BOOLEAN
    /\ configured \subseteq Resources
    /\ instance \in BOOLEAN
    /\ once \in {"new", "running", "done"}
    /\ stop \in [Procs -> {"idle", "once", "sigterm", "select", "sigkill",
                           "await", "clean", "returned"}]
    /\ waiter \in {"none", "waiting", "reaped", "sent"}

\* Nothing of the VM is left that Boot or Destroy could still free.
Freed ==
    /\ vmm \in {"none", "reaped"}
    /\ logFile # "open"
    /\ workDir # "present"

\* "Tear down the VMM and remove the work dir so we don't leak processes":
\* a Boot that returns an error, at whatever step, has freed everything.
FailedBootLeavesNothing == boot = "failed" => Freed

\* Whoever's Destroy returns, the first caller's or one that came later, the
\* process has been reaped, the log closed and the directory removed.
DestroyedWhenReturned ==
    \A p \in Procs : stop[p] = "returned" => Freed /\ vmm = "reaped"

\* The directory with the VMM's sockets is not removed under a live VMM.
DirOutlivesVMM ==
    workDir \in {"removed", "leftover"} => vmm \in {"none", "reaped"}

\* SIGTERM goes to a process id that is still the VMM's: no goroutine has
\* reaped the process before.
SigtermHitsVMM ==
    \A p \in Procs : stop[p] = "sigterm" => vmm \in {"running", "zombie"}

\* One goroutine at most is inside terminate, and none is after it is done.
Terminating(p) == stop[p] \in {"sigterm", "select", "sigkill", "await", "clean"}

TerminateOnce ==
    \A p \in Procs : Terminating(p) =>
        /\ once = "running"
        /\ \A q \in Procs \ {p} : ~Terminating(q)

\* The instance starts after all its resources were accepted, and Boot returns
\* a handle after the instance started.
StartedWhenConfigured ==
    /\ instance => configured = Resources
    /\ boot = "ready" => instance

\* Boot returns although the VMM dies, never opens its sockets, or takes a
\* request and never answers it: the end of the context reaches every wait.
BootReturns == boot # "idle" ~> boot \in {"ready", "failed"}

\* Destroy returns although the VMM ignores SIGTERM or exits by itself.
DestroyReturns ==
    \A d \in Destroyers : stop[d] = "once" ~> stop[d] = "returned"

\* The Backend's contract, in terms of the VM.
Held == vmm \in {"running", "zombie"} \/ workDir = "present" \/ logFile = "open"

HostResources ==
    IF Held THEN "held"
    ELSE IF vmm = "none" /\ workDir = "none" THEN "absent" ELSE "freed"

BootAnswer ==
    IF boot = "ready" THEN "ok" ELSE IF boot = "failed" THEN "error" ELSE "none"

DestroyCall ==
    [d \in Destroyers |->
        IF stop[d] = "idle" THEN "idle"
        ELSE IF stop[d] = "returned" THEN "answered" ELSE "calling"]

Contract == INSTANCE BackendContract WITH
    resources <- HostResources, bootAnswer <- BootAnswer, call <- DestroyCall

\* FirecrackerBackend keeps the promises of Backend.
KeepsContract == Contract!Spec
=============================================================================
