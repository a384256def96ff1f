# A model of emberbox

emberbox runs the tools of an agent in sandboxes. A program on the host keeps a
`Pool` of sandboxes; a `Backend` makes and destroys them; with the Firecracker
backend each sandbox is a microVM in which a second program, `emberbox-agent`,
executes one tool call per connection.

This directory holds TLA+ modules that follow the Go source, TLC configurations
that check them on small instances, and TLAPS proofs for instances of any size.

## The system

| Part | State | Operations | Talks to |
|---|---|---|---|
| `sandbox.Pool` (`sandbox/sandbox.go`) | stack `warm`, map `active`, one mutex | `New`, `Allocate`, `Execute`, `Release`, `Shutdown`, goroutine `replenishWarmPool` | a `Backend`, always with the mutex released |
| `Backend`, `Handle` (`sandbox/backend.go`) | none (interface) | `Boot`, `Exec`, `Destroy` | called by the Pool |
| `FirecrackerBackend` (`sandbox/firecracker.go`) | per VM: directory, log file, VMM process, `stopOnce` | `Boot`, `Destroy`, `terminate`, `Exec` | the VMM over its API socket, the guest over a vsock |
| API client (`sandbox/firecracker_api.go`) | none | one PUT per resource, `waitForSocket` | the VMM |
| agent client (`sandbox/agentclient.go`) | one connection per call | `dialAgentVsockUDS`, `agentRoundTrip`, `waitForVsockAgent` | the agent |
| agent (`agent/`, `cmd/emberbox-agent`) | accept loop, `WaitGroup`, one goroutine per connection | `Serve`, `HandleConnection`, `executeTool` | `tool.Registry`, the tools |
| `HostBackend` (`sandbox/host.go`) | handle with its environment | `Boot`, `Exec`, `Destroy` | `tool.Registry`, in the process |
| `tool.Registry` (`tool/tool.go`) | map under an RWMutex | `Register`, `Get`, `List` | |
| tools (`tools/`) | the file system of the sandbox | `file_read`, `file_write`, `file_edit`, `bash`, `grep`, `glob`, `web_fetch` | |

What is hard about it:

- The Pool never holds its lock over a Backend call. Whatever it decided under
  the lock may be stale when the call returns: a replenisher's count, the
  emptiness of the pool, the allocation an `Execute` uses.
- Nothing joins a replenisher, so it may outlive `Shutdown`.
- `Boot` may fail at a dozen steps with a process and a directory in hand, and
  `Destroy` may be called by anyone, again, and at the same time.
- The VMM and the guest may hang, die or answer late; the only help is timeouts.
- The agent stops while connections are waiting, being read, or running a tool,
  and the host cannot always tell what became of its call.
- A deadline changes its form several times on its way to a tool: context,
  socket deadline, whole seconds, context again, the tool's own limit.
- Tools take no locks: calls on one file interleave at their system calls, and
  a write may stop after any byte.
- In host mode tools run on the caller's goroutine, may call other tools, and
  share one registry that may be changed meanwhile.

What makes each part correct:

- Pool: a sandbox is in one place at a time, is leased once, is destroyed once,
  is lost only to another with its id, and never serves an allocation other than
  its own; while boots succeed the warm pool is refilled, and it does not grow
  beyond PoolSize for each replenisher that runs at one time (how many that are,
  the code does not limit).
- FirecrackerBackend: the promises of `BackendContract` below.
- Agent and its client: what the answer of `Exec` says about the tool is true;
  a clean stop leaves nothing half done; calls come to an end, and so does
  `Serve`, unless a client keeps it waiting.
- Deadlines: who may outlast one, and by how much; no tool is cut short early.
- File tools: a call that meets no other writer is atomic, and exact if it
  succeeds; one that fails leaves the file as it was or with a beginning of its
  text; no byte of a file is invented.
- HostBackend and registry: a call finds a tool that is not stale, sees the
  environment of its sandbox (or, if that has none, the one its context came
  with), and returns.

## The modules

| Module | What it is |
|---|---|
| `SandboxLifecycle` | abstract: the phases of each sandbox, unbooted, ready, leased, retired, gone |
| `SandboxPool` | the Pool |
| `PoolCounts` | the Pool with the sandboxes its replenishers still owe it, and the properties that count them |
| `MCSandboxPool`, `MCPoolCounts` | their instances for TLC |
| `SandboxPool_proofs`, `PoolCounts_proofs` | their theorems |
| `BackendContract` | abstract: what Boot and Destroy promise about the resources of one sandbox |
| `FirecrackerVM` | one microVM from Boot to Destroy |
| `MCFirecrackerVM`, `FirecrackerVM_proofs` | its instances and theorems |
| `RemoteCall` | abstract: what the caller of `Exec` may conclude from its answer |
| `AgentSession` | the host and the agent of one microVM |
| `MCAgentSession`, `AgentSession_proofs` | its instances and theorems |
| `ExecDeadline` | the deadline of one Execute, against a clock |
| `MCExecDeadline`, `ExecDeadline_proofs` | its instances and theorems |
| `FileStore` | abstract: what the three file tools promise about one file |
| `FileTools`, `MCFileTools` | the file tools at their system calls, and the instances |
| `FileTexts_proofs` | what counting and replacing compute, for every text |
| `FileTools_proofs` | the theorems about `FileTools` |
| `HostBackend` | calls in host mode and the registry they share |
| `MCHostBackend`, `HostBackend_proofs` | its instances and theorems |

Definitions named `Bad...` (and `ShortNeeded`, `UnguardedSeconds`) are slips a
change of the code could bring in. No action uses them; each is the mutant that
shows that a property is not vacuous, and `PROJECT.json` says which property has
to notice which.

### SandboxPool

One action is one critical section, or one Backend call's return. `pc[p]` is
where a goroutine stands between two of them:

- `New`: `PreBoot`, `PreBootFails` (the loop goes on after a failure).
- `Allocate`: `AllocateWarm` pops the stack, records the entry and starts a
  replenisher; `AllocateCold`, then `BootReturns` or `BootFails`, then
  `StoreActive`.
- `replenishWarmPool`: `ReadNeeded` counts once; then `BootReturns` and
  `StoreWarm` for each round, or `BootFails`, which ends it.
- `Execute`: `ExecuteLookup` under the lock, `ExecReturns` any time later.
- `Release` and `Shutdown` take the handles out (`stopping`, `draining`);
  `DestroyReturns` is one Backend call, whose error is only logged (`lost`);
  `StopReturns` ends the call.

`active` is the set of the map's entries. Its key is the id of the handle, so
storing an entry displaces another one with the same id (`Recorded`). Requests
carry a size (memory and CPUs in one) and an environment. Timeouts are not
needed here: `Exec` may return at any time (`ExecDeadline` says when it has to).
`Status` only reads.

The Backend is abstract: Boot returns a handle nobody has seen (its id may be
known) or an error; Destroy makes the sandbox `down` or `lost`. This covers
HostBackend, FirecrackerBackend and the ones users write.

### FirecrackerVM

`boot` is the step `Boot` has reached; `stop[p]` where goroutine `p` stands in
`destroyHandle` and `terminate` (`Boot` itself calls it when it fails); `waiter`
is the goroutine around `cmd.Wait`; `once` is `stopOnce`. The VMM is `running`,
a `zombie` once it has exited, and `reaped` after `cmd.Wait`. It exits whenever
it likes. A PUT may fail at any time (`RequestFails`) but is not obliged to: one
that hangs, like the two polls, ends only with the context (`ContextEnds`).
`os.RemoveAll` may leave the directory behind, which the code tolerates.

`KeepsContract` is the refinement of `BackendContract` under the mapping
`HostResources` (process, log and directory together), `BootAnswer` and
`DestroyCall`: a Boot that answers with an error holds nothing; a Destroy
answers only when everything is freed, whoever freed it; nothing is freed
between a successful Boot and the first Destroy.

### AgentSession

Every probe and every call is a connection with two ends: `client[c]` is the
host's goroutine, `handler[c]` the agent's. Firecracker's multiplexer answers
"OK" when the guest's listening socket has room. The agent is the process
(`guest`), its listener, the position of `Serve`, the WaitGroup counter and the
handlers. `Crash` is the end of the VMM (Destroy, say) or a panic in a tool,
with data in flight lost; `Exit` and `ListenFails` are the ends of `main`. `Exec`
is called only after a probe has succeeded, as `Boot` returns a handle only then.

`KeepsCallContract` is the refinement of `RemoteCall`: a result means that the
tool ran; an error of a call without a deadline, from an agent that did not
break down (`Broken`: it crashed, or its accept failed), means that the tool
did not run and will not. With a deadline, the tool may run after the caller
was told of the failure, so a retry may run it twice.

### ExecDeadline

One Execute, in either mode, while a clock ticks; it may tick between any two
steps. A context is the set of its deadlines, of which the earliest counts.
`ExecCtx` is `Allocate`'s default and `Execute`'s `WithTimeout`. After `Execute`
the call goes on with `RunOnHost`, on the caller's goroutine, or with
`TakeTimeLeft`, where `FirecrackerBackend.Exec` measures what is left (`Left`)
of a deadline that is some time old by then. What it finds, `agentRoundTrip` cuts
to whole seconds (`Seconds`), and omits a zero from the request; `ConnDeadline` is
the `SetDeadline` of the connection; `Budget` the timeout `HandleConnection`
makes of the seconds; `OwnLimits` what `bash` and `web_fetch` add, `bash` by a
product that wraps around. The request may be under way for any time, also
after the host gave up. A tool that `obeys` returns when its context is done;
one that does not returns when it likes. Operations on a connection fail at its
deadline. `Tick` does not pass a time at which something is due, so what takes
no time in the model is the way from a deadline to whoever waits for it. The
two ways of ending a context early, the caller's cancel and the stop of the
agent, are not here; `AgentSession` has the second.

`OverrunBound` and `NotCutShort` are the two sides of the conversion. A timeout
of N seconds arrives as N - 1, as some of it has gone when it is measured, so a
tool may be cut less than a second early. It may outlive its call by the time
its request was under way; and when less than a second was left at the look, or
no deadline was set, by the agent's sixty seconds. A Timeout of exactly one
second is such a case.

### FileTools

Calls of `file_read`, `file_write` and `file_edit` on one file, which is a
sequence of bytes. Each action is one system call, and may fail: `OpenRead` and
a turn of the scanner's loop (`Scan`); `ReadFile` with the count and the
replacement made of it; `MakeDir`; `Truncate` and `Put`, which are what
`os.WriteFile` does. `Put` puts the bytes of its text over those at the beginning
of the file, and may stop after any of them, or fail with all of them in (the
error of Close). `NL` and `CR` are the bytes `bufio.ScanLines` looks for, and a
line of `MaxLine` bytes or more overflows its buffer. `Count` and `Replace` follow
the loops of the Go functions.

`KeepsFileStore` is the refinement of `FileStore`, which says by positions what
the tools compute by scanning: `Window`, where a line has a number because of the
newlines before it; `Editable` ("no two occurrences are apart", which is what
`strings.Count` finds, and less than what "unique" says, as `files_unique`
shows); and `Edited`. A read or an edit may also fail without a reason that
`FileStore` knows, and then changes nothing. The mapping (`Content`, `State`)
shows the file a writer is about to put as soon as it has truncated the old one.
There a call that overlaps no other writer happens in one step; `raced` names the
others, about which `FileStore` says nothing, and `NothingInvented` says what
still holds then: the lines of the file may be nobody's, its bytes are not.

### HostBackend

`Call` is `Exec` up to the lookup, made by a goroutine of its own or by the tool
of another call with its context; `RLock` and `Get` are `Registry.Get`, with a
waiting writer keeping readers out as in `sync.RWMutex`; `ToolReturns` ends the
call and lets the caller go on. `WantLock` and `Register` are
`Registry.Register`, by a running tool or by `RegisterDefaults`, which goes
through its list. The registry holds for each name how often it was registered,
so that "older" has a meaning. `ctx[c]` is the stack of environments that
`context.WithValue` has built.

## The runs

| Run | Shows | Instance |
|---|---|---|
| `pool` | ownership, leaks under colliding ids, a cold pool stays cold | 4 handles, two of them with one id, 2 callers, 2 replenishers, PoolSize 2 |
| `pool_counts` | how far the pool overfills, the refill while boots succeed, the life of a sandbox | 6 handles with ids of their own, 1 caller, 2 replenishers, PoolSize 2 |
| `pool_live` | calls end, what is taken out is destroyed, isolation | 3 handles, 2 callers, 1 replenisher, PoolSize 1 |
| `pool_shutdown` | violated: Shutdown does not drain the pool | 3 handles, 1 caller, 1 replenisher |
| `pool_env` | violated: Env is not delivered from the warm pool | the same, with an environment |
| `firecracker` | what is freed, when, by whom; Boot and Destroy return; the contract | 3 destroyers |
| `agent` | what an answer means, clean stops; every call returns; `Serve` returns unless a client keeps it waiting | 2 probes, 2 calls, one of them with a deadline, a backlog of 1 |
| `deadline` | who outlasts a deadline, who is cut short, the limits of bash | 2 ticks to the second, deadlines from -1 to 7 ticks, 13 kinds of tool |
| `files` | the promises of `FileStore`; what racing writers leave | 3 calls out of 14 inputs, 3 original files |
| `files_mixed` | violated: two overlapping writes mix | 2 calls of `file_write` |
| `files_unique` | violated: an edit whose `old_string` is not unique | 1 call |
| `host` | lookup, environment and return of nested calls | 3 calls, 2 names, 3 sandboxes (one without Env), a foreign handle, 2 registrations of a name |

**Bounds.** `Handles` is all sandboxes that ever boot. Two warm ones, one that
an Allocate boots and one that a replenisher boots are the most that a step of
the Pool relates, which is four; the counting runs have six so that two
replenishers can each boot a full pool, and `WarmBound` is attained there. A
call that finds no handle left to boot can still fail, so the bound stops no
goroutine. `Replenishers` bounds those alive at one time: an Allocate from the
warm pool waits for a free one in the model. `RefillPromise` speaks of the
behaviours in which every boot of a warm sandbox has succeeded so far and nobody
called Shutdown, which `PoolCounts` records in `steady`. The runs of the other
components do not check for deadlock: a VM, a session, a call have an end.
`Backlog` is 16 in the code and 1 here, so that a full socket is met. In
`deadline`, two ticks make a second, so that deadlines have fractions, and one of
the timeouts is exactly a second; the agent's default is longer than the other
timeouts and `bash`'s longer than that, as in the code; the clock runs past both,
and with `MaxDuration` 15 a product wraps to a negative and to a small positive
limit. In `files`, the texts have a line that is empty, one that is too long, one
that ends in a carriage return and one without a newline; the windows lie before,
in, at the end of and behind the text, limits are absent, positive and negative, an
`old_string` occurs in overlapping places and apart, and three calls are enough for
a reader to see two writers. In `host`, three calls nest to depth three, and the
sandbox without an environment may be the innermost. Symmetry is used in safety
runs only, over identities the module only compares for equality; the two
handles that share an id are not among them.

**Fairness.** `SandboxPool`: every goroutine that is inside the Pool goes on,
which includes that Backend calls return (`firecracker` shows this for `Boot`
and `Destroy`, `agent` and `host` for `Exec`). `FirecrackerVM`: goroutines go
on, the Boot context ends at last, and the kernel ends a process that was sent
SIGKILL; the VMM owes nothing, not even an error. `AgentSession` is checked under
`AgentFairness`, which is about the agent alone: its goroutines go on and **tools return**, while a client may fall silent between any
two of its steps. The code gives each tool a context with a timeout but cannot make
it obey; `bash` waits for its pipes, which a child of the shell may keep open.
Accept on an open listener is not obliged to fail. `ServeReturns` has the
silent clients in its premise, because the code cannot do without: a handler
reads and writes without a deadline, and the end of the context ends neither.
`CallsReturn` has `HostFairness` in its premise: the goroutines of the host, too,
go on to write the request, read the response and close (`agentRoundTrip`), and
Firecracker answers or refuses a CONNECT, for which the host reads without a
deadline if its context has none. Nobody is ever obliged to call, stop or crash anything.
`HostBackend`: goroutines go on, the lock is handed to whoever waits,
and a tool that waits neither for another nor for the registry returns.

## What does not hold

- `ShutdownDrains`: "Shutdown stops all active sandboxes and drains the warm
  pool", but a replenisher that is inside Boot at that time adds its sandbox
  afterwards. The sandbox stays reachable (`NoLeak` holds): a second Shutdown
  would find it.
- `EnvDelivered`: the environment of an allocation travels with the handle at
  Boot, and a warm sandbox was booted before the allocation was asked for.
- `WrittenWhole`: "Execute creates or overwrites a file with the given content",
  but two overlapping calls truncate the file first, both of them, and then
  write over each other; both succeed.
- `EditOnlyUnique`: "provide more context to make it unique", but occurrences that
  overlap count as one: with `old_string` "aa" a file that holds "aaa" is edited.

Two errors the repository declares, `ErrPoolExhausted` and `ErrVMTimeout`
(`sandbox/types.go`), are returned nowhere: the Pool has no limit, and a call
that outlasts its deadline gives an error of the network or of the tool.

## What is proved

All theorems are for arbitrary constants that satisfy the named assumptions
(`PoolAssumption`, `CountAssumption`, `VMAssumption`, `SessionAssumption`,
`DeadlineAssumption`, `FileAssumption`, `HostAssumption`), which state types,
that sets do not overlap, in `CountAssumption` that there are replenishers and
finitely many, and in `DeadlineAssumption` that a context with a deadline has an
earliest one. A theorem that needs more says so in its own ASSUME.

**SandboxPool_proofs.** `TypeCorrect`, `SingleOwnership`, `OwnedStaysUp`,
`LeaksOnlyByCollision`, `ExecIsolation`, `ColdForever`, `NobodyElsesRequest`,
`ColdPoolKeepsPromises`, and `Refinement` (of
`SandboxLifecycle`, for unique ids).

The inductive invariant is `TypeInv /\ Ownership`. `TypeInv` adds to `TypeOK`
what each position of a goroutine says about its locals: which goroutine may
hold a booted handle, an allocation in use, or handles to destroy. `Ownership`
joins the safety properties, because none is inductive by itself: that a popped
handle is not active already needs `SingleOwner`; that a handle just booted is
in nobody's hands needs `OwnedIsUp`; that an Execute keeps its tenant needs that
its handle has not come back to the pool, which needs both. There is one lemma
per group of actions (`AllocateWarmKeeps`, `ShutdownKeeps`, ...), and
`PushFacts` and `PopFacts` say what the stack operations do to the set of warm
handles. The refinement maps each step to a step of one sandbox, to the
retirement of a set of them, or to a stutter. `ColdForever` has both the step
and what follows from it: from the first state in which the pool is `Cold`
(nothing warm, no replenisher) it is so for ever.

Two theorems say what is left of the promises that `pool_env` and
`pool_shutdown` refute. `NobodyElsesRequest`: the sandbox of a tool call was
booted with the request of its own Allocate or with the bare request of the warm
pool, so the Env may be missing but is never that of somebody else. Its
invariant `Provenance` follows a request from Boot to the entry of the map; it
needs `OwnedIsUp`, because a Boot that returned a sandbox already in use would
overwrite what that one was booted for. `ColdPoolKeepsPromises`: with a PoolSize
of zero or less, both promises hold (`AllCold`: no replenisher ever starts).

**PoolCounts_proofs.** `PoolIsBounded` and `PoolIsRefilled`, for any finite
number of replenishers.

Neither property is inductive. `Counts` adds that no replenisher owes more than
PoolSize (`Bounded`), that New is alone (`Quiet`), and states the refill for New
as well. What several replenishers owe together is the number of pairs of a
replenisher and a round (`Rounds`), which makes a sum a cardinality:
`RoundsSplit` takes one replenisher out of it, `RoundsBounded` compares the rest
with a rectangle. That one's new count, the pool and the bound of the others
make up `WarmBound`.

**FirecrackerVM_proofs.** `TypeCorrect`, `FailedBootIsClean`,
`DestroyIsComplete`, `DirectoryIsSafe`, `SigtermIsSafe`, `OneTerminator`,
`StartIsConfigured`, and `ImplementsContract`.

The invariant joins the shape of the VM for each position of Boot
(`BootShape`), for each position of Destroy together with the state of the Once
and of the waiter (`StopShape`), and the resources configured so far
(`ConfigShape`).

**AgentSession_proofs.** `TypeCorrect`, `StopIsClean`, `CounterIsExact` and
`ImplementsCallContract`.

The invariant says that the WaitGroup counter is the number of handlers
(`Counted`), what the two ends of a connection know of each other (`ConnShape`),
and what each position of `Serve` implies for the listener and the handlers
(`ServeShape`). The refinement needs `ConnShape`: an answer is under way only if
the tool has returned, and a call whose connection was refused has reached no
handler.

**ExecDeadline_proofs.** `TypeCorrect`, `DeadlineEndsCall`, `OverrunIsBounded`,
`CutNearDeadline` and `BashKeepsItsLimit`, for any length of a second.

The invariant says what each position of host and guest implies for the
deadlines they hold (`Shape`) and that no position outlasts what is due there
(`InTime`); the seconds sent are those that were left at the time `taken`,
whenever they are used. The arithmetic is in lemmas: `SecondsFacts` (a deadline
loses less than a second) and `BashLimitFacts` (a wrapped product is not larger).

**HostBackend_proofs.** `TypeCorrect`, `LookupIsCurrent` and `EnvIsScoped`, for
calls nested to any depth.

The invariant says that a tool waits for one call at a time (`Nesting`), without
which a context could change while an inner call relies on it; that a context is
the one of the caller with the own environment on top (`Contexts`); that
versions only grow (`Versions`); and who waits as a writer (`Writing`).

**FileTexts_proofs.** `CountMeansEditable` and `ReplaceMeansEdited`: for every
text and every `old_string`, `Count` is one exactly if there is an occurrence and
no two are apart, and `Replace` changes the first occurrence and nothing else.

Both operators are recursive functions over the places of a text. That a
function with such a definition exists has to be shown before anything can be
said of its values: `Recursion` does it for every definition that looks only
towards the end of the text, and `CountEquation` and `ReplaceEquation` apply it.
The induction over places is `Downward`, put as a fact about a set of places
instead of a predicate: a largest place outside the set would be a
counterexample, and `LeastElement` gives one. What is shown of each place `i` is
that the count from `i` is zero if all occurrences lie before it, and one if
those from `i` on are within one length of each other. For the reader the module
relates the scan to positions: a line begins at the first byte or behind a
newline, its number grows with its place (`NumberGrows`), so a number names one
line (`LineAt`), and the scanner goes from one to the next (`NextLine`).

**FileTools_proofs.** `TypeCorrect`, `NothingIsInvented`, `ImplementsFileStore`
and `WholeWhenAlone`, for any number of calls, any inputs, and texts of any
length.

The inductive invariant `Inv` adds to the types what the position of a call says
of its locals (`Shape`), and three parts about overlapping. `WritersRace`: while
a writer is active, every other active call is in `raced`; so a step changes the
file under nobody who is undisturbed (`StepKeeps`). `Reading`: an undisturbed
reader stands at the beginning of a line, or at the end, has counted the lines
before it, and has gathered those of the window it has passed, in the file as it
still is. `Writing`: the text an undisturbed writer is to put is what
its input makes of the file as it still is, and after the truncation the file is
empty. The refinement then has a case for each action: the last turn of a scan
is the read of the whole window (`ScanFindsWindow`) or its failure, the truncation
is the change, the write confirms it or leaves a beginning of it
(`FailImplements`), and a step of a call in `raced` is a step about which
`FileStore` promises nothing (`RaceImplements`). `NothingIsInvented` needs in addition that a call gets its
text once (`TextStays`). `WholeWhenAlone` is what is left of the promise that
`files_mixed` refutes: if no calls overlapped, all of them were file_writes and
succeeded, the file is the content of one of them.

**Only model-checked.** Liveness (`CallsReturn`, `ServeReturns`, `BootReturns`,
`DestroyReturns`) and the fair version of the Pool's refinement
(`LifecycleFairSpec`), which rest on fairness and so on ENABLED, beyond the
prover. Every invariant and every action property of a
passing run is a theorem.

## What is not modelled

- SIGKILL to a process group whose id is free again: `terminate` may send it
  when the VMM exits just as StopTimeout passes. SIGTERM cannot (`SigtermHitsVMM`).
- The end of a tool's context by the stop of the agent or by the caller's cancel:
  `AgentSession` has tools that return at any time, `ExecDeadline` only deadlines.
- What `bash`, `grep`, `glob` and `web_fetch` run outside the program, and the
  layout of their output.
- Which system call of a read meets a change of the file: `file_read` takes a
  line in one step, although the scanner reads blocks. Files other than the one
  the calls share, directories and links.
- The system calls that make a vsock listener, and the bodies of the Firecracker
  API: only what succeeds or fails, and in which order, is in `AgentSession` and
  `FirecrackerVM`.
- Flags, logging, HTTP and JSON, addresses: no property is about them.
- The examples and `sandboxtest` add no logic.

## The plan

1. The core: `SandboxPool`, `FirecrackerVM`, `AgentSession`, with
   `SandboxLifecycle`, `BackendContract` and `RemoteCall` as their abstract
   specifications (done); theorems about the first two (done).
2. `ExecDeadline`, `FileTools` with `FileStore`, `HostBackend` with the registry
   (done); theorems about all three, about `AgentSession` and about the counts of
   the Pool (done).
3. Left: `AgentSession` composed with `FileTools`, for a call that is retried
   while the first one still edits the file; the system calls of
   `vsock_linux.go` below the accept loop. To prove: that what the host concludes
   from an answer of `AgentSession` and what `FileStore` promises compose.
