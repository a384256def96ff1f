----------------------------- MODULE HostBackend ----------------------------
(***************************************************************************)
(* Tool calls on the HostBackend and the tool.Registry they share: calls   *)
(* look their tool up under a reader lock, run it without one, and tools   *)
(* may call others with the context they were given or register more of    *)
(* them, while RegisterDefaults goes through its list.                     *)
(***************************************************************************)
EXTENDS Integers, Sequences

CONSTANTS
    Calls,          \* calls of HostBackend.Exec
    Names,          \* names of tools
    Defaults,       \* the names RegisterDefaults registers, in its order
    Handles,        \* sandboxes of the backend
    Foreign,        \* handles of another backend
    Requests,       \* pairs of a name and a handle callers come with
    Env,            \* the Env each sandbox was allocated with, or NoEnv
    NoEnv, NoName, Nobody,
    MaxVersion      \* bound: a name is registered so many times

ASSUME HostAssumption ==
    /\ Defaults \in Seq(Names)
    /\ Nobody \notin Calls /\ "defaults" \notin Calls \cup {Nobody}
    /\ Handles \cap Foreign = {} /\ Nobody \notin Handles
    /\ Requests \subseteq Names \X (Handles \cup Foreign)
    /\ MaxVersion \in Nat

VARIABLES
    reg,            \* r.tools: how often a name was registered, 0 for never
    readers,        \* who holds r.mu for reading
    writer,         \* who holds it, or has asked for it, for writing
    next,           \* the defaults registered so far
    pc,             \* "idle", "get", "locked", "running", "nested", "register",
                    \* "done"
    name, handle,   \* the arguments of a call
    caller,         \* the call whose tool made this one, or Nobody
    ctx,            \* the envs in the context of the tool, innermost last
    ran,            \* the version of the tool a call runs, 0 for none
    found           \* reg[name] when the call was made

lock == <<readers, writer>>
args == <<name, handle, caller, found>>
vars == <<reg, lock, next, pc, args, ctx, ran>>

----------------------------------------------------------------------------
BadInstalled(n) == [m \in Names |-> IF m = n THEN reg[n] + 1 ELSE 0]
Installed(n) == [reg EXCEPT ![n] = @ + 1]

BadReaderGone(c) == readers
ReaderGone(c) == readers \ {c}

\* context.WithValue when the sandbox has an env, else the caller's context.
BadWithEnv(outer, e) == IF e = NoEnv \/ outer # <<>> THEN outer ELSE <<e>>
WithEnv(outer, e) == IF e = NoEnv THEN outer ELSE Append(outer, e)

EnvFromContext(c) == IF ctx[c] = <<>> THEN NoEnv ELSE ctx[c][Len(ctx[c])]

Init ==
    /\ reg = [n \in Names |-> 0]
    /\ readers = {} /\ writer = Nobody
    /\ next = 0
    /\ pc = [c \in Calls |-> "idle"]
    /\ name = [c \in Calls |-> NoName]
    /\ handle = [c \in Calls |-> Nobody]
    /\ caller = [c \in Calls |-> Nobody]
    /\ ctx = [c \in Calls |-> <<>>]
    /\ ran = [c \in Calls |-> 0]
    /\ found = [c \in Calls |-> 0]

\* The call of tool n on sandbox h, by a goroutine of its own or by the tool of
\* call p, which waits for it.  A handle of another backend is an error.
Call(c, n, h, p) ==
    /\ pc[c] = "idle"
    /\ p # Nobody => pc[p] = "running"
    /\ pc' = [d \in Calls |->
                IF d = c THEN IF h \in Foreign THEN "done" ELSE "get"
                ELSE IF d = p /\ h \notin Foreign THEN "nested"
                ELSE pc[d]]
    /\ name' = [name EXCEPT ![c] = n]
    /\ handle' = [handle EXCEPT ![c] = h]
    /\ caller' = [caller EXCEPT ![c] = p]
    /\ ctx' = [ctx EXCEPT ![c] = IF p = Nobody THEN <<>> ELSE ctx[p]]
    /\ found' = [found EXCEPT ![c] = reg[n]]
    /\ UNCHANGED <<reg, lock, next, ran>>

\* Registry.Get: a writer that waits keeps new readers out.
RLock(c) ==
    /\ pc[c] = "get" /\ writer = Nobody
    /\ readers' = readers \cup {c}
    /\ pc' = [pc EXCEPT ![c] = "locked"]
    /\ UNCHANGED <<reg, writer, next, args, ctx, ran>>

\* What follows the end of call c: its caller goes on.
Ended(c) ==
    pc' = [d \in Calls |-> IF d = c THEN "done"
                           ELSE IF d = caller[c] THEN "running" ELSE pc[d]]

\* The lock is given back before the tool is called, if there is one.
Get(c) ==
    /\ pc[c] = "locked"
    /\ readers' = ReaderGone(c)
    /\ ran' = [ran EXCEPT ![c] = reg[name[c]]]
    /\ IF reg[name[c]] = 0 THEN Ended(c) /\ UNCHANGED ctx
       ELSE /\ pc' = [pc EXCEPT ![c] = "running"]
            /\ ctx' = [ctx EXCEPT ![c] = WithEnv(@, Env[handle[c]])]
    /\ UNCHANGED <<reg, writer, next, args>>

\* t.Execute returns, with a result or an error.
ToolReturns(c) ==
    /\ pc[c] = "running"
    /\ Ended(c)
    /\ UNCHANGED <<reg, lock, next, args, ctx, ran>>

\* Registry.Register.  Defaults stands for the goroutine of RegisterDefaults.
WantLock(who) ==
    /\ writer = Nobody
    /\ \/ /\ who \in Calls /\ pc[who] = "running"
          /\ reg[name[who]] < MaxVersion
          /\ pc' = [pc EXCEPT ![who] = "register"]
       \/ /\ who = "defaults" /\ next < Len(Defaults)
          /\ UNCHANGED pc
    /\ writer' = who
    /\ UNCHANGED <<reg, readers, next, args, ctx, ran>>

Register(who) ==
    /\ writer = who /\ readers = {}
    /\ writer' = Nobody
    /\ IF who = "defaults"
       THEN /\ reg' = Installed(Defaults[next + 1])
            /\ next' = next + 1 /\ UNCHANGED pc
       ELSE /\ reg' = Installed(name[who])
            /\ pc' = [pc EXCEPT ![who] = "running"] /\ UNCHANGED next
    /\ UNCHANGED <<readers, args, ctx, ran>>

Next ==
    \/ \E c \in Calls :
        \/ \E r \in Requests, p \in Calls \cup {Nobody} : Call(c, r[1], r[2], p)
        \/ RLock(c) \/ Get(c) \/ ToolReturns(c)
    \/ \E who \in Calls \cup {"defaults"} : WantLock(who) \/ Register(who)

Spec == Init /\ [][Next]_vars

\* Goroutines are scheduled, and a tool that neither waits for another nor for
\* the registry comes to its end.
FairSpec ==
    /\ Spec
    /\ \A c \in Calls : WF_vars(RLock(c)) /\ WF_vars(Get(c)) /\ WF_vars(ToolReturns(c))
    /\ \A who \in Calls \cup {"defaults"} : WF_vars(Register(who))

----------------------------------------------------------------------------
\* Types; a call holds the lock exactly while it looks its tool up.
TypeOK ==
    /\ reg \in [Names -> Nat]
    /\ readers = {c \in Calls : pc[c] = "locked"}
    /\ writer \in Calls \cup {"defaults", Nobody}
    /\ next \in 0 .. Len(Defaults)
    /\ pc \in [Calls -> {"idle", "get", "locked", "running", "nested", "register",
                         "done"}]
    /\ name \in [Calls -> Names \cup {NoName}]
    /\ handle \in [Calls -> Handles \cup Foreign \cup {Nobody}]
    /\ caller \in [Calls -> Calls \cup {Nobody}]
    /\ ctx \in [Calls -> Seq({Env[h] : h \in Handles})]
    /\ ran \in [Calls -> Nat] /\ found \in [Calls -> Nat]

\* However registrations run alongside, a call never says "unknown tool" of a
\* name that was registered when it was made, and never runs a tool that had
\* been replaced by then.
LookupCurrent ==
    \A c \in Calls :
        (handle[c] \notin Foreign /\ pc[c] \in {"running", "nested", "register", "done"})
            => found[c] <= ran[c] /\ ran[c] <= reg[name[c]]

\* A tool sees the env of its own sandbox; when that has none, it sees what the
\* tool that made the call sees, and none when no tool did: never the env of a
\* call beside it or of an outer one that an inner one has covered.
EnvScope ==
    \A c \in Calls :
        pc[c] \in {"running", "nested", "register"} =>
            IF Env[handle[c]] # NoEnv THEN EnvFromContext(c) = Env[handle[c]]
            ELSE EnvFromContext(c) =
                    IF caller[c] = Nobody THEN NoEnv ELSE EnvFromContext(caller[c])

\* Every call returns: no tool is called, and no other one made, with the lock
\* of the registry in hand.
CallsReturn == \A c \in Calls : pc[c] = "get" ~> pc[c] = "done"
=============================================================================
