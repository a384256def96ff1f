---------------------------- MODULE AgentSession ----------------------------
(***************************************************************************)
(* The host and the agent of one microVM: the probes of waitForVsockAgent, *)
(* the calls of dialAgentVsockUDS, each on a connection of its own, and on *)
(* the other side the accept loop of Agent.Serve, a goroutine per          *)
(* connection in HandleConnection, the goroutine that closes the listener, *)
(* and the main function of emberbox-agent around them.                    *)
(*                                                                         *)
(* Firecracker's multiplexer and the kernels are external: a connection is *)
(* what both ends see of it.  A deadline may pass at any time.  Contents   *)
(* are left out: each call sends one request and its tool gives one        *)
(* response, an error ("unknown tool", "tool error") being one too.        *)
(***************************************************************************)
EXTENDS Naturals, FiniteSets

CONSTANTS
    Probes,     \* the attempts waitForVsockAgent makes, one at a time
    Calls,      \* the calls of Exec
    Timed,      \* those whose context has a deadline
    Backlog     \* connections the listening socket holds for Accept

ASSUME SessionAssumption ==
    /\ Probes \cap Calls = {}
    /\ Timed \subseteq Calls
    /\ Backlog \in Nat

Conns == Probes \cup Calls

VARIABLES
    client,     \* where the host stands with each connection
    sent,       \* the connections on which the request was written
    queue,      \* the connections that wait to be accepted
    guest,      \* the agent's process
    cancelled,  \* the context of Serve is done
    listener,   \* the listening socket
    serve,      \* where Serve stands
    wg,         \* its WaitGroup
    handler,    \* where HandleConnection stands with each connection
    responses   \* the connections on which the response was written

vars == <<client, sent, queue, guest, cancelled, listener, serve, wg, handler,
          responses>>

hostVars == <<client, sent>>
serveVars == <<guest, cancelled, listener, serve>>
handlerVars == <<wg, handler, responses>>

Init ==
    /\ client = [c \in Conns |-> "idle"]
    /\ sent = {}
    /\ queue = {}
    /\ guest = "running"
    /\ cancelled = FALSE
    /\ listener = "unbound"
    /\ serve = "start"
    /\ wg = 0
    /\ handler = [c \in Conns |-> "none"]
    /\ responses = {}

HostClosed(c) == client[c] \in {"done", "failed"}

GuestClosed(c) == guest # "running" \/ handler[c] \in {"closed", "replied", "reset"}

\* A CONNECT finds a listener with room for it.
Reachable ==
    /\ guest = "running"
    /\ listener = "open"
    /\ Cardinality(queue) < Backlog

----------------------------------------------------------------------------
(* The host.                                                               *)

\* The next probe follows one that failed; Exec needs the handle Boot returns
\* after one that did not.
Dial(c) ==
    /\ client[c] = "idle"
    /\ IF c \in Probes
       THEN \A p \in Probes : client[p] \in {"idle", "failed"}
       ELSE \E p \in Probes : client[p] = "done"
    /\ client' = [client EXCEPT ![c] = "connect"]
    /\ UNCHANGED <<sent, queue, serveVars, handlerVars>>

\* The answer to CONNECT is "OK".  A probe wants no more and closes.
Connected(c) ==
    /\ client[c] = "connect"
    /\ Reachable
    /\ queue' = queue \cup {c}
    /\ client' = [client EXCEPT ![c] = IF c \in Probes THEN "done" ELSE "send"]
    /\ UNCHANGED <<sent, serveVars, handlerVars>>

\* It is not; or the context ends while dialling; or a deadline passes, and the
\* connection the guest may have by then is closed.
ConnectFails(c) ==
    /\ client[c] = "connect"
    /\ \/ queue' = queue
       \/ c \in Timed \cup Probes /\ Reachable /\ queue' = queue \cup {c}
    /\ client' = [client EXCEPT ![c] = "failed"]
    /\ UNCHANGED <<sent, serveVars, handlerVars>>

Send(c) ==
    /\ client[c] = "send"
    /\ client' = [client EXCEPT ![c] = "receive"]
    /\ sent' = sent \cup {c}
    /\ UNCHANGED <<queue, serveVars, handlerVars>>

\* The input is no JSON, the deadline has passed, or nobody is there to read.
SendFails(c) ==
    /\ client[c] = "send"
    /\ client' = [client EXCEPT ![c] = "failed"]
    /\ UNCHANGED <<sent, queue, serveVars, handlerVars>>

Receive(c) ==
    /\ client[c] = "receive"
    /\ c \in responses
    /\ client' = [client EXCEPT ![c] = "done"]
    /\ UNCHANGED <<sent, queue, serveVars, handlerVars>>

\* Without a deadline on the connection only its end ends the wait: nothing
\* looks at the context once the request is written.
ReceiveFails(c) ==
    /\ client[c] = "receive"
    /\ \/ c \in Timed
       \/ guest = "dead"
       \/ GuestClosed(c) /\ c \notin responses
    /\ client' = [client EXCEPT ![c] = "failed"]
    /\ UNCHANGED <<sent, queue, serveVars, handlerVars>>

----------------------------------------------------------------------------
(* main and Serve.                                                         *)

Listen ==
    /\ guest = "running"
    /\ serve = "start"
    /\ listener' = "open"
    /\ serve' = "accept"
    /\ UNCHANGED <<hostVars, queue, guest, cancelled, handlerVars>>

\* The port cannot be bound: main logs it and exits with status 1.
ListenFails ==
    /\ guest = "running"
    /\ serve = "start"
    /\ guest' = "exited"
    /\ UNCHANGED <<hostVars, queue, cancelled, listener, serve, handlerVars>>

\* SIGINT or SIGTERM ends the context.
Cancel ==
    /\ guest = "running"
    /\ serve # "start"
    /\ ~cancelled
    /\ cancelled' = TRUE
    /\ UNCHANGED <<hostVars, queue, guest, listener, serve, handlerVars>>

\* The goroutine that waits for the end of the context closes the listener;
\* the kernel resets the connections that were not accepted.
CloseListener ==
    /\ guest = "running"
    /\ cancelled
    /\ listener = "open"
    /\ listener' = "closed"
    /\ queue' = {}
    /\ handler' = [c \in Conns |-> IF c \in queue THEN "reset" ELSE handler[c]]
    /\ UNCHANGED <<hostVars, guest, cancelled, serve, wg, responses>>

\* (The definitions named Bad... are slips a change of the code could bring in,
\* one for each property to notice.  No action uses them.)

\* wg.Add is left to the handler.
BadAccept(c) ==
    /\ guest = "running"
    /\ serve = "accept"
    /\ listener = "open"
    /\ c \in queue
    /\ queue' = queue \ {c}
    /\ handler' = [handler EXCEPT ![c] = "decode"]
    /\ UNCHANGED <<hostVars, serveVars, wg, responses>>

Accept(c) ==
    /\ guest = "running"
    /\ serve = "accept"
    /\ listener = "open"
    /\ c \in queue
    /\ queue' = queue \ {c}
    /\ wg' = wg + 1
    /\ handler' = [handler EXCEPT ![c] = "decode"]
    /\ UNCHANGED <<hostVars, serveVars, responses>>

\* The listener is closed, or accept(2) fails for a reason of its own.
AcceptFails ==
    /\ guest = "running"
    /\ serve = "accept"
    /\ serve' = "check"
    /\ UNCHANGED <<hostVars, queue, guest, cancelled, listener, handlerVars>>

\* Returns without waiting.
BadCheckContext ==
    /\ guest = "running"
    /\ serve = "check"
    /\ serve' = IF cancelled THEN "nil" ELSE "error"
    /\ UNCHANGED <<hostVars, queue, guest, cancelled, listener, handlerVars>>

\* The context says which of the two it was taken for: the one waits for the
\* handlers, the other returns the error at once.
CheckContext ==
    /\ guest = "running"
    /\ serve = "check"
    /\ serve' = IF cancelled THEN "wait" ELSE "error"
    /\ UNCHANGED <<hostVars, queue, guest, cancelled, listener, handlerVars>>

WaitReturns ==
    /\ guest = "running"
    /\ serve = "wait"
    /\ wg = 0
    /\ serve' = "nil"
    /\ UNCHANGED <<hostVars, queue, guest, cancelled, listener, handlerVars>>

\* The error is only logged.
BadExit ==
    /\ guest = "running"
    /\ serve = "nil"
    /\ guest' = "exited"
    /\ UNCHANGED <<hostVars, queue, cancelled, listener, serve, handlerVars>>

\* main returns, or exits with status 1, and its goroutines are gone.
Exit ==
    /\ guest = "running"
    /\ serve \in {"nil", "error"}
    /\ guest' = "exited"
    /\ UNCHANGED <<hostVars, queue, cancelled, listener, serve, handlerVars>>

\* The VMM is killed or a tool panics: what was under way is lost, answers on
\* their way to the host too.
Crash ==
    /\ guest # "dead"
    /\ guest' = "dead"
    /\ UNCHANGED <<hostVars, queue, cancelled, listener, serve, handlerVars>>

----------------------------------------------------------------------------
(* HandleConnection.                                                       *)

Decode(c) ==
    /\ guest = "running"
    /\ handler[c] = "decode"
    /\ c \in sent
    /\ handler' = [handler EXCEPT ![c] = "execute"]
    /\ UNCHANGED <<hostVars, queue, serveVars, wg, responses>>

\* The early return misses wg.Done.
BadDecodeFails(c) ==
    /\ guest = "running"
    /\ handler[c] = "decode"
    /\ HostClosed(c)
    /\ handler' = [handler EXCEPT ![c] = "closed"]
    /\ UNCHANGED <<hostVars, queue, serveVars, wg, responses>>

\* The host has closed: end of file, or half a request.  Decode has no deadline.
DecodeFails(c) ==
    /\ guest = "running"
    /\ handler[c] = "decode"
    /\ HostClosed(c)
    /\ handler' = [handler EXCEPT ![c] = "closed"]
    /\ wg' = wg - 1
    /\ UNCHANGED <<hostVars, queue, serveVars, responses>>

ToolReturns(c) ==
    /\ guest = "running"
    /\ handler[c] = "execute"
    /\ handler' = [handler EXCEPT ![c] = "encode"]
    /\ UNCHANGED <<hostVars, queue, serveVars, wg, responses>>

\* Drops the response when the context of Serve is done.
BadReply(c) ==
    /\ guest = "running"
    /\ handler[c] = "encode"
    /\ handler' = [handler EXCEPT ![c] = "replied"]
    /\ responses' = IF cancelled THEN responses ELSE responses \cup {c}
    /\ wg' = wg - 1
    /\ UNCHANGED <<hostVars, queue, serveVars>>

\* Write the response, if somebody is there to read it; close; wg.Done.
Reply(c) ==
    /\ guest = "running"
    /\ handler[c] = "encode"
    /\ handler' = [handler EXCEPT ![c] = "replied"]
    /\ responses' = IF HostClosed(c) THEN responses ELSE responses \cup {c}
    /\ wg' = wg - 1
    /\ UNCHANGED <<hostVars, queue, serveVars>>

----------------------------------------------------------------------------

HostStep(c) ==
    \/ Connected(c)
    \/ ConnectFails(c)
    \/ Send(c)
    \/ SendFails(c)
    \/ Receive(c)
    \/ ReceiveFails(c)

HandlerStep(c) ==
    \/ Decode(c)
    \/ DecodeFails(c)
    \/ ToolReturns(c)
    \/ Reply(c)

ServeStep ==
    \/ \E c \in Conns : Accept(c)
    \/ AcceptFails
    \/ CheckContext
    \/ WaitReturns
    \/ Exit

Next ==
    \/ \E c \in Conns : Dial(c) \/ HostStep(c) \/ HandlerStep(c)
    \/ Listen
    \/ ListenFails
    \/ Cancel
    \/ CloseListener
    \/ ServeStep
    \/ Crash

Spec == Init /\ [][Next]_vars

\* What Serve and main do of themselves.
ServeRuns ==
    \/ \E c \in Conns : Accept(c)
    \/ listener = "closed" /\ AcceptFails
    \/ CheckContext
    \/ WaitReturns
    \/ Exit

\* What a handler does whatever its client is doing.  A response may be more
\* than the connection holds, so its Write ends only when the client reads it
\* or closes.
HandlerRuns(c) ==
    \/ Decode(c)
    \/ DecodeFails(c)
    \/ ToolReturns(c)
    \/ HostClosed(c) /\ Reply(c)

\* Every goroutine of the agent that can run does, and every tool returns
\* (executeTool ends its context after the timeout, or with that of Serve,
\* which a tool has to respect).  The accept of an open listener need not fail,
\* and nobody is obliged to stop the agent or to crash it.  Clients are obliged
\* to nothing.
AgentFairness ==
    /\ \A c \in Conns : WF_vars(HandlerRuns(c))
    /\ WF_vars(CloseListener)
    /\ WF_vars(ServeRuns)

AgentFairSpec == Spec /\ AgentFairness

\* The goroutine in Exec or in the probe goes on too: it writes its request
\* once it is connected, reads the response, and closes; and a handler can write
\* what is being read.  A CONNECT is answered or refused by the multiplexer.
HostFairness ==
    \A c \in Conns : WF_vars(HostStep(c)) /\ WF_vars(HandlerStep(c))

----------------------------------------------------------------------------
(* Properties.                                                             *)

TypeOK ==
    /\ client \in [Conns -> {"idle", "connect", "send", "receive", "done",
                             "failed"}]
    /\ sent \subseteq Calls
    /\ queue \subseteq Conns
    /\ guest \in {"running", "exited", "dead"}
    /\ cancelled \in BOOLEAN
    /\ listener \in {"unbound", "open", "closed"}
    /\ serve \in {"start", "accept", "check", "wait", "nil", "error"}
    /\ wg \in Nat
    /\ handler \in [Conns -> {"none", "reset", "decode", "execute", "encode",
                              "closed", "replied"}]
    /\ responses \subseteq Calls

\* Between Accept and the end of HandleConnection.
Handling(c) == handler[c] \in {"decode", "execute", "encode"}

\* When Serve returns nil no handler runs any more, and every call whose
\* request one of them read has its response, or nobody waits for it.
CleanStop ==
    serve = "nil" =>
        \A c \in Conns :
            /\ ~Handling(c)
            /\ handler[c] = "replied" => c \in responses \/ client[c] = "failed"

\* What the caller of Exec is told, in terms of the session.
CallState ==
    [c \in Calls |->
        IF client[c] = "idle" THEN "idle"
        ELSE IF client[c] = "done" THEN "answered"
        ELSE IF client[c] = "failed" THEN "failed" ELSE "pending"]

Ran == {c \in Calls : handler[c] \in {"execute", "encode", "replied"}}

Broken == guest = "dead" \/ serve = "error"

Contract == INSTANCE RemoteCall WITH
    call <- CallState, ran <- Ran, broken <- Broken

\* A result means that the tool ran; an error without a deadline and with an
\* agent that was not lost means that it did not and will not.
KeepsCallContract == Contract!Spec

\* The handler waits for its client: for a request, or half of one, that the
\* client neither sends nor gives up, or until the client reads the response.
\* Neither wait has a deadline, and the end of the context ends neither.
WaitsForClient(c) ==
    /\ ~HostClosed(c)
    /\ \/ handler[c] = "decode" /\ c \notin sent
       \/ handler[c] = "encode"

\* After its context ends Serve returns, unless one of its clients keeps a
\* handler waiting for ever; that is all a client can do to it, at whatever
\* moment it connected.
ServeReturns ==
    (\A c \in Conns : []<>~WaitsForClient(c))
        => (cancelled ~> serve \in {"nil", "error"} \/ guest = "dead")

\* Every call of Exec returns, also when the agent stops or dies under it, with
\* or without a deadline, given that the host's own goroutines go on, that tools
\* return and that CONNECTs are answered.
CallsReturn ==
    HostFairness => \A c \in Calls : client[c] = "connect" ~> HostClosed(c)
=============================================================================
