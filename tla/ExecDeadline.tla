---------------------------- MODULE ExecDeadline ----------------------------
(***************************************************************************)
(* How a deadline travels with one Pool.Execute: from the caller's context *)
(* and the allocation's Timeout to the connection, as whole seconds to the *)
(* in-VM agent, from there to the context of the tool and to the tool's    *)
(* own limit.  The HostBackend hands the context to the tool itself.       *)
(*                                                                         *)
(* Time is a number of ticks since the call, and may pass between any two  *)
(* steps.  A context is the set of its deadlines; context.WithTimeout adds *)
(* one and the earliest one counts.  Contexts that are cancelled, by the   *)
(* caller or by an agent that stops, are left out.                         *)
(***************************************************************************)
EXTENDS Integers

CONSTANTS
    Second,          \* ticks of a second
    DefaultTimeout,  \* Config.DefaultTimeout
    Timeouts,        \* values of AllocRequest.Timeout
    Callers,         \* contexts callers come with
    Tools,           \* [kind, asked, obeys]: asked is bash's in.Timeout, obeys
                     \* says that the tool returns once its context is done
    AgentDefault, BashDefault, FetchLimit,  \* 60, 120 and 30 seconds
    MaxDuration,     \* the largest time.Duration
    Horizon          \* bound: the clock stops here

ASSUME DeadlineAssumption ==
    /\ Second \in Nat \ {0} /\ AgentDefault \in Nat \ {0} /\ MaxDuration \in Nat
    /\ DefaultTimeout \in Int /\ BashDefault \in Int /\ FetchLimit \in Int
    /\ Timeouts \subseteq Int /\ Horizon \in Nat
    /\ \A caller \in Callers :
        /\ caller \subseteq Int
        /\ caller # {} => \E d \in caller : \A e \in caller : d <= e
    /\ Tools \subseteq [kind : {"bash", "web_fetch", "other"}, asked : Int,
                        obeys : BOOLEAN]

VARIABLES
    now,
    backend,         \* "none", "host" or "vm"
    tool,            \* which tool runs, with what input
    ctx,             \* execCtx
    conn,            \* the deadlines set on the connection
    host,            \* "idle", "exec", "dial", "waiting", "answered", "failed"
    taken,           \* when FirecrackerBackend.Exec looked how much was left
    seconds,         \* agentRequest.TimeoutSeconds, 0 when it is omitted
    guest,           \* "none", "request" (under way), "running", "ended", "cut"
    toolCtx,         \* the context of the tool, with its own limit
    began, ended     \* when the tool was called and when it returned

vars == <<now, backend, tool, ctx, conn, host, taken, seconds, guest, toolCtx, began,
          ended>>

NoTool == [kind |-> "other", asked |-> 0, obeys |-> TRUE]

----------------------------------------------------------------------------
Expired(deadlines) == \E d \in deadlines : d <= now
Earliest(deadlines) == CHOOSE d \in deadlines : \A e \in deadlines : d <= e

Timeout(t) == IF t = 0 THEN DefaultTimeout ELSE t

\* Allocate's default and Execute's context.WithTimeout.
ExecCtx(caller, t) ==
    caller \cup (IF Timeout(t) > 0 THEN {Timeout(t)} ELSE {})

\* conn.SetDeadline(ctx.Deadline())
BadConnDeadline(deadlines) == {}
ConnDeadline(deadlines) == {d \in deadlines : d = Earliest(deadlines)}

\* time.Until(deadline), and int(timeout.Seconds()) of what is left; the slips
\* round up, and send what is no longer left.
Left(deadlines) == Earliest(deadlines) - now

BadSeconds(deadlines) ==
    IF deadlines = {} \/ Left(deadlines) <= 0 THEN 0
    ELSE (Left(deadlines) + Second - 1) \div Second
UnguardedSeconds(deadlines) ==
    IF deadlines = {} THEN 0 ELSE Left(deadlines) \div Second
Seconds(deadlines) ==
    IF deadlines = {} \/ Left(deadlines) <= 0 THEN 0
    ELSE Left(deadlines) \div Second

\* The timeout the agent gives a tool.
BadBudget(n) == IF n > 0 THEN n ELSE AgentDefault
Budget(n) == IF n > 0 THEN n * Second ELSE AgentDefault

\* A product of durations wraps around.
Wrap(x) == ((x + MaxDuration + 1) % (2 * (MaxDuration + 1))) - (MaxDuration + 1)

BadBashLimit(asked) == BashDefault
BashLimit(asked) == IF asked > 0 THEN Wrap(asked * Second) ELSE BashDefault

\* The limit a tool sets itself: BashTool's WithTimeout, WebFetchTool's client.
OwnLimits(t) ==
    CASE t.kind = "bash" -> {BashLimit(t.asked)}
      [] t.kind = "web_fetch" -> {FetchLimit}
      [] OTHER -> {}

----------------------------------------------------------------------------
Init ==
    /\ now = 0
    /\ backend = "none" /\ tool = NoTool
    /\ ctx = {} /\ conn = {} /\ toolCtx = {}
    /\ host = "idle" /\ guest = "none"
    /\ taken = 0 /\ seconds = 0 /\ began = 0 /\ ended = 0

StartTool(t, deadlines) ==
    /\ guest' = "running"
    /\ toolCtx' = deadlines \cup {now + limit : limit \in OwnLimits(t)}
    /\ began' = now

\* Pool.Execute makes its context and calls Backend.Exec.
Execute(b, caller, timeout, t) ==
    /\ host = "idle"
    /\ backend' = b /\ tool' = t /\ host' = "exec"
    /\ ctx' = ExecCtx(caller, timeout)
    /\ UNCHANGED <<now, conn, taken, seconds, guest, toolCtx, began, ended>>

\* HostBackend.Exec: the tool runs on the caller's goroutine, in its context.
RunOnHost ==
    /\ backend = "host" /\ host = "exec"
    /\ host' = "waiting"
    /\ StartTool(tool, ctx)
    /\ UNCHANGED <<now, backend, tool, ctx, conn, taken, seconds, ended>>

\* FirecrackerBackend.Exec looks how much time is left before it dials.  What
\* agentRoundTrip makes of it later is still what was left then.
TakeTimeLeft ==
    /\ backend = "vm" /\ host = "exec"
    /\ host' = "dial"
    /\ taken' = now
    /\ seconds' = Seconds(ctx)
    /\ UNCHANGED <<now, backend, tool, ctx, conn, guest, toolCtx, began, ended>>

\* dialAgentVsockUDS has its OK and agentRoundTrip encodes the request.
SendRequest ==
    /\ host = "dial" /\ ~Expired(ctx)
    /\ conn' = ConnDeadline(ctx)
    /\ host' = "waiting" /\ guest' = "request"
    /\ UNCHANGED <<now, backend, tool, ctx, taken, seconds, toolCtx, began, ended>>

\* The agent decodes the request, however late and whether or not the host
\* still waits, and calls the tool.
HandleRequest ==
    /\ guest = "request"
    /\ StartTool(tool, {now + Budget(seconds)})
    /\ UNCHANGED <<now, backend, tool, ctx, conn, host, taken, seconds, ended>>

\* The tool comes to its end, or returns because its context is done.
ToolReturns(how) ==
    /\ guest = "running"
    /\ how = "cut" => tool.obeys /\ Expired(toolCtx)
    /\ guest' = how /\ ended' = now
    /\ host' = IF backend = "host" THEN "answered" ELSE host
    /\ UNCHANGED <<now, backend, tool, ctx, conn, taken, seconds, toolCtx, began>>

ReceiveAnswer ==
    /\ backend = "vm" /\ host = "waiting" /\ guest \in {"ended", "cut"}
    /\ ~Expired(conn)
    /\ host' = "answered"
    /\ UNCHANGED <<now, backend, tool, ctx, conn, taken, seconds, guest, toolCtx, began,
                   ended>>

\* The context ends DialContext, the deadline of the connection the rest.
GiveUp ==
    /\ \/ host = "dial" /\ Expired(ctx)
       \/ host = "waiting" /\ Expired(conn)
    /\ host' = "failed"
    /\ UNCHANGED <<now, backend, tool, ctx, conn, taken, seconds, guest, toolCtx, began,
                   ended>>

\* The clock does not pass what is due: a goroutine that only has to go on, or
\* an operation on the connection, at the deadline, an obedient tool at the end
\* of its context.
Tick ==
    /\ now < Horizon /\ host # "idle"
    /\ ~(host \in {"exec", "dial"} /\ Expired(ctx))
    /\ ~(host = "waiting" /\ Expired(conn))
    /\ ~(guest = "running" /\ tool.obeys /\ Expired(toolCtx))
    /\ now' = now + 1
    /\ UNCHANGED <<backend, tool, ctx, conn, host, taken, seconds, guest, toolCtx, began,
                   ended>>

Next ==
    \/ \E b \in {"host", "vm"}, caller \in Callers, timeout \in Timeouts, t \in Tools :
        Execute(b, caller, timeout, t)
    \/ RunOnHost \/ TakeTimeLeft
    \/ SendRequest \/ HandleRequest \/ ReceiveAnswer \/ GiveUp \/ Tick
    \/ \E how \in {"ended", "cut"} : ToolReturns(how)

Spec == Init /\ [][Next]_vars

----------------------------------------------------------------------------
\* Types; and no time is recorded that is yet to come.
TypeOK ==
    /\ now \in 0 .. Horizon
    /\ backend \in {"none", "host", "vm"}
    /\ tool \in Tools \cup {NoTool}
    /\ ctx \subseteq Int /\ conn \subseteq ctx /\ toolCtx \subseteq Int
    /\ host \in {"idle", "exec", "dial", "waiting", "answered", "failed"}
    /\ guest \in {"none", "request", "running", "ended", "cut"}
    /\ seconds \in Nat /\ taken \in 0 .. now
    /\ began \in 0 .. now /\ ended \in 0 .. now

\* Pool.Execute outlasts its deadline only in host mode, with a tool that
\* disregards its context.  (When the deadline has passed already the call
\* ends before the clock moves.)
LateOnlyOnHost ==
    (host \in {"exec", "dial", "waiting"} /\ now > 0 /\ \E d \in ctx : d < now)
        => backend = "host" /\ ~tool.obeys

\* In a VM an obedient tool may run on although its caller has given up, but
\* not beyond the deadline by more than the request took from the look at the
\* time left to the call of the tool.  When less than a second was left at that
\* look (so also for a Timeout of exactly one second, as soon as any of it has
\* gone), or there was no deadline, no timeout is sent and the tool runs for the
\* agent's own.
OverrunBound ==
    (backend = "vm" /\ guest = "running" /\ tool.obeys) =>
        \/ \A d \in ctx : now <= d + (began - taken)
        \/ /\ \A d \in ctx : \E e \in ctx : e - taken < Second
           /\ now <= began + AgentDefault

\* A tool in a VM is not cut short more than a second before the deadline of
\* its call, unless by the limit it set itself.
NotCutShort ==
    (backend = "vm" /\ guest = "cut" /\ ctx # {}) =>
        \/ \E d \in ctx : ended > d - Second
        \/ \E limit \in OwnLimits(tool) : ended >= began + limit

\* A command of bash that obeys runs no longer than it asked for, in either
\* mode and whatever it asked for: a product that wraps around only gets
\* smaller.
NoLongerThanAsked ==
    (guest = "running" /\ tool.kind = "bash" /\ tool.asked > 0 /\ tool.obeys)
        => now <= began + tool.asked * Second
=============================================================================
