--------------------------- MODULE PluginSession ---------------------------
(***************************************************************************)
(* The plugin side of the ABI as the SDK implements it (hmcl-plugin-sdk,   *)
(* mod __private): the process-static PluginRuntime with its one session   *)
(* slot, the InvocationGate of a session, the admission of each context,   *)
(* and the entry points initialize_inner, invoke_inner, shutdown_inner.    *)
(*                                                                         *)
(* Any number of threads are in these functions at once.  A thread's call  *)
(* stack is a sequence of frames, because the host may reenter the plugin  *)
(* from a host call.  Each action is one critical section or one return of *)
(* plugin or host code.  A panic of plugin code is caught at the ABI       *)
(* boundary and unwinds through the same Drop implementations, so it takes *)
(* the path of an error.                                                   *)
(***************************************************************************)
EXTENDS Naturals, Sequences, FiniteSets

CONSTANTS
    HostThreads,  \* threads on which the host calls the plugin's table
    Workers,      \* threads the plugin started, holding context clones
    Contexts,     \* bound: the contexts successive initializations create
    MaxStack,     \* bound: depth of a host thread's call stack
    MaxWorkerStack, \* bound: the same for a worker
    None

Threads == HostThreads \cup Workers

ASSUME PluginSessionAssumption ==
    /\ IsFiniteSet(Threads) /\ HostThreads # {}
    /\ HostThreads \cap Workers = {}
    /\ MaxStack \in Nat \ {0} /\ MaxWorkerStack \in 1..MaxStack
    /\ None \notin Contexts

VARIABLES
    stack,        \* the ABI calls each thread is in, outermost first
    slot,         \* PluginRuntime.session
    created,      \* contexts that plugin code has been given
    refs,         \* strong count of a context's Arc<Session>
    accepting,    \* InvocationState.accepting
    invocations,  \* InvocationState.in_flight
    active,       \* HostAdmission.active
    inFlight      \* HostAdmission.in_flight

gateVars == <<refs, accepting, invocations>>
hostVars == <<active, inFlight>>
vars == <<stack, slot, created, refs, accepting, invocations, active, inFlight>>

\* Plugin code is running: it may call the host through its context.
PluginCode == {"initialize", "invoke", "shutdown", "drop"}
Deactivating == {"deactivate", "recheck", "blocked", "close"}
Steps == PluginCode \cup Deactivating
           \cup {"install", "leave", "host", "wait", "asleep", "unwrap"}

Frame == [at : Steps, ctx : Contexts]

TypeOK ==
    /\ stack \in [Threads -> UNION {[1..n -> Frame] : n \in 0..MaxStack}]
    /\ slot \in Contexts \cup {None}
    /\ created \subseteq Contexts
    /\ refs \in [Contexts -> 0..(1 + MaxStack * Cardinality(Threads))]
    /\ accepting \in [Contexts -> BOOLEAN]
    /\ invocations \in [Contexts -> 0..(MaxStack * Cardinality(Threads))]
    /\ active \in [Contexts -> BOOLEAN]
    /\ inFlight \in [Contexts -> 0..(MaxStack * Cardinality(Threads))]

Init ==
    /\ stack = [t \in Threads |-> <<>>]
    /\ slot = None
    /\ created = {}
    /\ refs = [c \in Contexts |-> 0]
    /\ accepting = [c \in Contexts |-> FALSE]
    /\ invocations = [c \in Contexts |-> 0]
    /\ active = [c \in Contexts |-> TRUE]
    /\ inFlight = [c \in Contexts |-> 0]

-----------------------------------------------------------------------------
(* The call stack.                                                         *)

Idle(t) == stack[t] = <<>>
Top(t) == stack[t][Len(stack[t])]
At(t, step) == ~Idle(t) /\ Top(t).at = step
Room(t) == IF t \in Workers THEN MaxWorkerStack ELSE MaxStack
HasRoom(t) == Len(stack[t]) < Room(t)

Call(t, step, c) ==
    stack' = [stack EXCEPT ![t] = Append(@, [at |-> step, ctx |-> c])]
Stepped(s, step) == [s EXCEPT ![Len(s)].at = step]
Goto(t, step) == stack' = [stack EXCEPT ![t] = Stepped(@, step)]
Popped(s) == SubSeq(s, 1, Len(s) - 1)
Return(t) == stack' = [stack EXCEPT ![t] = Popped(@)]

\* Thread t returns and notifies a condition variable if n is zero: threads
\* of context c asleep at `asleep` go on to `awake`.
ReturnAndNotify(t, c, n, asleep, awake) ==
    stack' = [u \in Threads |->
        IF u = t THEN Popped(stack[u])
        ELSE IF n = 0 /\ At(u, asleep) /\ Top(u).ctx = c
          THEN Stepped(stack[u], awake)
        ELSE stack[u]]

\* The frames of context c at one of the given steps, by their position.
FramesAt(c, steps) ==
    {p \in Threads \X (1..MaxStack) :
        /\ p[2] <= Len(stack[p[1]])
        /\ stack[p[1]][p[2]].ctx = c
        /\ stack[p[1]][p[2]].at \in steps}

\* HOST_LEASE_DEPTHS of thread t for context c.
Depth(t, c) == Cardinality({p \in FramesAt(c, {"host"}) : p[1] = t})

-----------------------------------------------------------------------------
(* Host calls: HostState::lease, the call, and Drop for HostLease.         *)

\* Plugin code of context c runs at the top of the stack, or a thread the
\* plugin started uses its clone of the context.
HoldsContext(t, c) ==
    \/ ~Idle(t) /\ Top(t).at \in PluginCode /\ Top(t).ctx = c
    \/ Idle(t) /\ t \in Workers /\ c \in created

\* Mutant: reentry is decided by the shared counter, not by the thread.
HostCallByAnyLease(t, c) ==
    /\ HoldsContext(t, c)
    /\ HasRoom(t)
    /\ active[c] \/ inFlight[c] > 0
    /\ inFlight' = [inFlight EXCEPT ![c] = @ + 1]
    /\ Call(t, "host", c)
    /\ UNCHANGED <<slot, created, active, gateVars>>

\* A refused call returns Unavailable to the plugin and changes nothing.
HostCall(t, c) ==
    /\ HoldsContext(t, c)
    /\ HasRoom(t)
    /\ active[c] \/ Depth(t, c) > 0
    /\ inFlight' = [inFlight EXCEPT ![c] = @ + 1]
    /\ Call(t, "host", c)
    /\ UNCHANGED <<slot, created, active, gateVars>>

HostReturn(t) ==
    /\ At(t, "host")
    /\ LET c == Top(t).ctx IN
        /\ inFlight' = [inFlight EXCEPT ![c] = @ - 1]
        /\ ReturnAndNotify(t, c, inFlight[c] - 1, "blocked", "recheck")
    /\ UNCHANGED <<slot, created, active, gateVars>>

-----------------------------------------------------------------------------
(* initialize_inner.                                                       *)

\* The first look at the slot; a context made while it is occupied is thrown
\* away before any plugin code sees it, and leaves no trace.
InitializeBegin(t, c) ==
    /\ t \in HostThreads /\ Idle(t)
    /\ slot = None
    /\ c \notin created
    /\ created' = created \cup {c}
    /\ Call(t, "initialize", c)
    /\ UNCHANGED <<slot, gateVars, hostVars>>

\* Plugin::initialize returns; after an error or a panic its value is
\* dropped, before the guard deactivates the context.
InitializeOk(t) ==
    /\ At(t, "initialize")
    /\ Goto(t, "install")
    /\ UNCHANGED <<slot, created, gateVars, hostVars>>

InitializeFails(t) ==
    /\ At(t, "initialize")
    /\ Goto(t, "drop")
    /\ UNCHANGED <<slot, created, gateVars, hostVars>>

\* Mutant: the slot is not looked at again after plugin code ran.
InstallUnchecked(t) ==
    /\ At(t, "install")
    /\ slot' = Top(t).ctx
    /\ refs' = [refs EXCEPT ![Top(t).ctx] = 1]
    /\ accepting' = [accepting EXCEPT ![Top(t).ctx] = TRUE]
    /\ Return(t)
    /\ UNCHANGED <<created, invocations, hostVars>>

\* The second look at the slot: it was unlocked while plugin code ran.
Install(t) ==
    /\ At(t, "install")
    /\ LET c == Top(t).ctx IN
        IF slot = None
          THEN /\ slot' = c
               /\ refs' = [refs EXCEPT ![c] = 1]
               /\ accepting' = [accepting EXCEPT ![c] = TRUE]
               /\ Return(t)
          ELSE Goto(t, "drop") /\ UNCHANGED <<slot, refs, accepting>>
    /\ UNCHANGED <<created, invocations, hostVars>>

-----------------------------------------------------------------------------
(* invoke_inner.                                                           *)

\* Under the session lock the session is cloned and its gate entered.  With
\* no session, or a closed gate, the call returns PluginError.
InvokeBegin(t) ==
    /\ (t \in HostThreads /\ Idle(t)) \/ At(t, "host")
    /\ HasRoom(t)
    /\ slot # None
    /\ accepting[slot]
    /\ refs' = [refs EXCEPT ![slot] = @ + 1]
    /\ invocations' = [invocations EXCEPT ![slot] = @ + 1]
    /\ Call(t, "invoke", slot)
    /\ UNCHANGED <<slot, created, accepting, hostVars>>

\* Mutant: the invocation leaves the gate and keeps its session clone.
InvokeReturnKeepsSession(t) ==
    /\ At(t, "invoke")
    /\ Goto(t, "leave")
    /\ UNCHANGED <<slot, created, gateVars, hostVars>>

\* Plugin::invoke has returned and its output, if any, was allocated by a host
\* call: Drop for InvocationLease drops the session first ...
InvokeReturn(t) ==
    /\ At(t, "invoke")
    /\ refs' = [refs EXCEPT ![Top(t).ctx] = @ - 1]
    /\ Goto(t, "leave")
    /\ UNCHANGED <<slot, created, accepting, invocations, hostVars>>

\* Mutant: the last invocation leaves without notify_all().
LeaveSilently(t) ==
    /\ At(t, "leave")
    /\ invocations' = [invocations EXCEPT ![Top(t).ctx] = @ - 1]
    /\ Return(t)
    /\ UNCHANGED <<slot, created, refs, accepting, hostVars>>

\* ... and then leaves the gate.
Leave(t) ==
    /\ At(t, "leave")
    /\ LET c == Top(t).ctx IN
        /\ invocations' = [invocations EXCEPT ![c] = @ - 1]
        /\ ReturnAndNotify(t, c, invocations[c] - 1, "asleep", "wait")
    /\ UNCHANGED <<slot, created, refs, accepting, hostVars>>

-----------------------------------------------------------------------------
(* shutdown_inner and PluginContext::deactivate.                           *)

\* Mutant: the session is cloned out of the slot instead of taken.
ShutdownBeginClones(t) ==
    /\ t \in HostThreads /\ Idle(t)
    /\ slot # None
    /\ accepting' = [accepting EXCEPT ![slot] = FALSE]
    /\ Call(t, "wait", slot)
    /\ UNCHANGED <<slot, created, refs, invocations, hostVars>>

\* Under the session lock the session leaves the slot and its gate closes.  A
\* call with another plugin's id puts the session back under the same lock.
ShutdownBegin(t) ==
    /\ t \in HostThreads /\ Idle(t)
    /\ slot # None
    /\ slot' = None
    /\ accepting' = [accepting EXCEPT ![slot] = FALSE]
    /\ Call(t, "wait", slot)
    /\ UNCHANGED <<created, refs, invocations, hostVars>>

\* InvocationGate::wait, each time it holds the lock of the gate.
AwaitInvocations(t) ==
    /\ At(t, "wait")
    /\ Goto(t, IF invocations[Top(t).ctx] = 0 THEN "unwrap" ELSE "asleep")
    /\ UNCHANGED <<slot, created, gateVars, hostVars>>

\* Arc::try_unwrap: with another clone alive the plugin is never shut down.
Unwrap(t) ==
    /\ At(t, "unwrap")
    /\ LET c == Top(t).ctx IN
        /\ refs' = [refs EXCEPT ![c] = @ - 1]
        /\ Goto(t, IF refs[c] = 1 THEN "shutdown" ELSE "deactivate")
    /\ UNCHANGED <<slot, created, accepting, invocations, hostVars>>

\* Mutant: the context is deactivated before the plugin value is dropped.
ShutdownReturnDeactivates(t) ==
    /\ At(t, "shutdown")
    /\ active' = [active EXCEPT ![Top(t).ctx] = FALSE]
    /\ Goto(t, "drop")
    /\ UNCHANGED <<slot, created, gateVars, inFlight>>

\* Plugin::shutdown returns, whatever its result; the value is dropped next.
ShutdownReturn(t) ==
    /\ At(t, "shutdown")
    /\ Goto(t, "drop")
    /\ UNCHANGED <<slot, created, gateVars, hostVars>>

\* The plugin value and the handles it owned are dropped.
DropReturn(t) ==
    /\ At(t, "drop")
    /\ Goto(t, "deactivate")
    /\ UNCHANGED <<slot, created, gateVars, hostVars>>

\* The wait loop of HostState::deactivate.
AwaitLeases(t) ==
    Goto(t, IF inFlight[Top(t).ctx] = 0 THEN "close" ELSE "blocked")

Deactivate(t) ==
    /\ At(t, "deactivate")
    /\ active' = [active EXCEPT ![Top(t).ctx] = FALSE]
    /\ AwaitLeases(t)
    /\ UNCHANGED <<slot, created, gateVars, inFlight>>

Recheck(t) ==
    /\ At(t, "recheck")
    /\ AwaitLeases(t)
    /\ UNCHANGED <<slot, created, gateVars, hostVars>>

\* CallbackRegistry::close, and the entry point returns.
CloseCallbacks(t) ==
    /\ At(t, "close")
    /\ Return(t)
    /\ UNCHANGED <<slot, created, gateVars, hostVars>>

\* Condvar::wait may return without a notification.
SpuriousWake(t) ==
    /\ \/ At(t, "asleep") /\ Goto(t, "wait")
       \/ At(t, "blocked") /\ Goto(t, "recheck")
    /\ UNCHANGED <<slot, created, gateVars, hostVars>>

-----------------------------------------------------------------------------

\* What runs once it was started: the SDK's own steps and the returns of
\* plugin and host code.
Advance(t) ==
    \/ HostReturn(t)
    \/ InitializeOk(t) \/ InitializeFails(t) \/ Install(t)
    \/ InvokeReturn(t) \/ Leave(t)
    \/ AwaitInvocations(t) \/ Unwrap(t) \/ ShutdownReturn(t) \/ DropReturn(t)
    \/ Deactivate(t) \/ Recheck(t) \/ CloseCallbacks(t)

Next ==
    \E t \in Threads :
        \/ Advance(t)
        \/ SpuriousWake(t)
        \/ InvokeBegin(t)
        \/ ShutdownBegin(t)
        \/ \E c \in Contexts : HostCall(t, c) \/ InitializeBegin(t, c)

Spec == Init /\ [][Next]_vars

\* Threads are scheduled, and plugin and host code return at every depth.
\* Nothing obliges the host to call the plugin, or the plugin the host.
Fairness ==
    \A t \in Threads : \A d \in 1..Room(t) :
        SF_vars(Len(stack[t]) = d /\ Advance(t))

FairSpec == Spec /\ Fairness

-----------------------------------------------------------------------------
(* Properties.                                                             *)

\* The context's place in its life, read off the thread that owns it.
Phase(c) ==
    IF c \notin created THEN "unborn"
    ELSE IF slot = c THEN "open"
    ELSE IF FramesAt(c, {"initialize", "install"}) # {} THEN "initializing"
    ELSE IF FramesAt(c, {"wait", "asleep", "unwrap"}) # {} THEN "closing"
    ELSE IF FramesAt(c, {"shutdown"}) # {} THEN "shutdown"
    ELSE IF FramesAt(c, {"drop", "deactivate"}) # {} THEN "retiring"
    ELSE IF FramesAt(c, {"recheck", "blocked", "close"}) # {} THEN "draining"
    ELSE "ended"

Contract(c) == INSTANCE SessionContract WITH
    phase <- Phase(c),
    busy <- Cardinality(FramesAt(c, {"invoke"})),
    calls <- Cardinality(FramesAt(c, {"host"}))

\* Every context lives by the ABI's contract: shutdown runs after the last
\* invocation and alone, and once initialize has failed or shutdown has
\* returned no host callback is called through any clone of the context.
KeepsContract ==
    /\ \A c \in Contexts : Contract(c)!Init
    /\ [][\A c \in Contexts : [Contract(c)!Next]_(Contract(c)!vars)]_vars

DrainStep(t, c) ==
    IF ~Idle(t) /\ Top(t).ctx = c
      THEN CASE Top(t).at = "blocked" -> "blocked"
             [] Top(t).at = "recheck" -> "check"
             [] OTHER -> "idle"
      ELSE "idle"

Admission(c) == INSTANCE HostAdmission WITH
    MaxDepth <- MaxStack,
    MaxInFlight <- MaxStack * Cardinality(Threads),
    active <- active[c],
    inFlight <- inFlight[c],
    depth <- [t \in Threads |-> Depth(t, c)],
    drain <- [t \in Threads |-> DrainStep(t, c)],
    drained <- \/ FramesAt(c, {"close"}) # {}
               \/ Phase(c) = "ended"

\* The host side of each context is an instance of HostAdmission, so what is
\* proved of that module holds here.
RefinesAdmission ==
    /\ \A c \in Contexts : Admission(c)!Init
    /\ [][\A c \in Contexts : [Admission(c)!Next]_(Admission(c)!vars)]_vars

\* After the gate has drained, shutdown holds the only reference to the
\* session: Arc::try_unwrap cannot fail and skip the plugin's shutdown.
UnwrapSucceeds == \A t \in Threads : At(t, "unwrap") => refs[Top(t).ctx] = 1

\* While the plugin's code runs its context is active, so that the handles it
\* drops are released and the output it returns can be allocated.
PluginCodeFindsHostOpen ==
    \A t \in Threads : \A i \in DOMAIN stack[t] :
        stack[t][i].at \in PluginCode => active[stack[t][i].ctx]

\* Every shutdown that took a session returns, and every initialization that
\* fails does, although both wait for other threads.
EndsOnceClosing ==
    \A c \in Contexts : Phase(c) \in {"closing", "retiring"} ~> Phase(c) = "ended"
=============================================================================
