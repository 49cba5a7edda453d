--------------------------- MODULE EmbeddedEngine ---------------------------
(***************************************************************************)
(* The native engine (hmcl-rust-host-native, embedded.rs, struct Engine)   *)
(* with any number of threads in its operations.  An operation finds its   *)
(* payload under the engine's mutex and works on it under the payload's    *)
(* own, with a clone of the Arc in between: by then the payload may have   *)
(* been unloaded, or the engine closed.  The payload's mutex is held for   *)
(* the whole of every call into the plugin.                                *)
(*                                                                         *)
(* A plugin's invoke callback may call the host, and what the launcher     *)
(* does for it may lead back, on the same thread, to another operation.    *)
(* Reenters says between which payloads.  One level of nesting is enough   *)
(* for a thread to wait for a mutex it holds, or for two to wait for each  *)
(* other.                                                                  *)
(***************************************************************************)
EXTENDS Naturals, Sequences, SequencesExt

CONSTANTS
    Threads,
    MaxPayloads,   \* bound: payloads loaded over the engine's life
    Reenters,      \* <<p, q>>: host calls of p may lead to operations on q
    None

ASSUME EngineAssumption == MaxPayloads \in Nat \ {0} /\ None \notin 1..MaxPayloads

Payloads == 1..MaxPayloads   \* EngineState.next_payload_id starts at 1

VARIABLES
    closed,      \* EngineState.closed
    loaded,      \* number of payloads loaded so far: next_payload_id - 1
    registered,  \* keys of EngineState.payloads
    loadOrder,   \* EngineState.load_order
    state,       \* EmbeddedPayload.state, "Absent" before it is loaded
    at,          \* where each thread is in an operation
    on,          \* the payload whose Arc the operation holds
    outer,       \* the payload whose host call the thread is inside of
    todo         \* payloads close() has still to shut down

engine == <<closed, loaded, registered, loadOrder>>
vars == <<closed, loaded, registered, loadOrder, state, at, on, outer, todo>>

PayloadStates == {"Loaded", "Enabled", "Disabled", "ShutdownFailed", "Shutdown"}
Over == {"ShutdownFailed", "Shutdown"}

\* Operations that have looked their payload up and not yet locked it.
Pending == {"enable", "disable", "invoke", "unload"}
\* Calls into the plugin, made with the payload's mutex held.
Calling == {"initializing", "invoking", "shutting", "forcing"}
Steps == {"idle", "removing", "closing"} \cup Pending \cup Calling

TypeOK ==
    /\ closed \in BOOLEAN
    /\ loaded \in 0..MaxPayloads
    /\ registered \subseteq 1..loaded
    /\ ToSet(loadOrder) = registered
    /\ state \in [Payloads -> PayloadStates \cup {"Absent"}]
    /\ at \in [Threads -> Steps]
    /\ on \in [Threads -> Payloads \cup {None}]
    /\ outer \in [Threads -> Payloads \cup {None}]
    /\ ToSet(todo) \subseteq 1..loaded

Init ==
    /\ closed = FALSE
    /\ loaded = 0
    /\ registered = {}
    /\ loadOrder = <<>>
    /\ state = [p \in Payloads |-> "Absent"]
    /\ at = [t \in Threads |-> "idle"]
    /\ on = [t \in Threads |-> None]
    /\ outer = [t \in Threads |-> None]
    /\ todo = <<>>

-----------------------------------------------------------------------------

Locked(p) == \E t \in Threads : outer[t] = p \/ (at[t] \in Calling /\ on[t] = p)

\* Thread t goes on to `step`; payload p is left in state s.
Step(t, step) == at' = [at EXCEPT ![t] = step]
Set(p, s) == state' = [state EXCEPT ![p] = s]

\* Engine::load_payload.  The engine's mutex is held while the library is
\* opened and queried; a failure leaves nothing behind.
LoadPayload(t) ==
    /\ at[t] = "idle"
    /\ ~closed
    /\ loaded < MaxPayloads
    /\ loaded' = loaded + 1
    /\ registered' = registered \cup {loaded + 1}
    /\ loadOrder' = Append(loadOrder, loaded + 1)
    /\ Set(loaded + 1, "Loaded")
    /\ UNCHANGED <<closed, at, on, outer, todo>>

\* Engine::payload, the first half of the four operations on a payload.
Lookup(t, op, p) ==
    /\ at[t] = "idle"
    /\ ~closed
    /\ p \in registered
    /\ outer[t] = None \/ <<outer[t], p>> \in Reenters
    /\ Step(t, op)
    /\ on' = [on EXCEPT ![t] = p]
    /\ UNCHANGED <<engine, state, outer, todo>>

\* The second half begins when the payload's mutex is granted.
Granted(t, op) == at[t] = op /\ ~Locked(on[t])

\* Mutant: enable() does not tell a payload that is over from a disabled one.
EnableAfterShutdown(t) ==
    /\ Granted(t, "enable")
    /\ LET p == on[t] IN
        IF state[p] = "Loaded"
          THEN Step(t, "initializing") /\ UNCHANGED state
          ELSE Step(t, "idle") /\ Set(p, "Enabled")
    /\ UNCHANGED <<engine, on, outer, todo>>

\* EmbeddedPayload::enable: the first time it initializes the plugin.
Enable(t) ==
    /\ Granted(t, "enable")
    /\ LET p == on[t] IN
        CASE state[p] = "Loaded" -> Step(t, "initializing") /\ UNCHANGED state
          [] state[p] \in {"Disabled", "Enabled"} -> Step(t, "idle") /\ Set(p, "Enabled")
          [] OTHER -> Step(t, "idle") /\ UNCHANGED state
    /\ UNCHANGED <<engine, on, outer, todo>>

InitializeReturn(t, ok) ==
    /\ at[t] = "initializing"
    /\ Step(t, "idle")
    /\ IF ok THEN Set(on[t], "Enabled") ELSE UNCHANGED state
    /\ UNCHANGED <<engine, on, outer, todo>>

\* EmbeddedPayload::disable.
Disable(t) ==
    /\ Granted(t, "disable")
    /\ Step(t, "idle")
    /\ IF state[on[t]] = "Enabled" THEN Set(on[t], "Disabled") ELSE UNCHANGED state
    /\ UNCHANGED <<engine, on, outer, todo>>

\* Mutant: the payload's lock is an RwLock, which invoke takes for reading.
InvokeShared(t) ==
    /\ at[t] = "invoke"
    /\ \A u \in Threads : at[u] \in Calling /\ on[u] = on[t] => at[u] = "invoking"
    /\ Step(t, IF state[on[t]] = "Enabled" THEN "invoking" ELSE "idle")
    /\ UNCHANGED <<engine, state, on, outer, todo>>

\* EmbeddedPayload::invoke.
Invoke(t) ==
    /\ Granted(t, "invoke")
    /\ Step(t, IF state[on[t]] = "Enabled" THEN "invoking" ELSE "idle")
    /\ UNCHANGED <<engine, state, on, outer, todo>>

InvokeReturn(t) ==
    /\ at[t] = "invoking"
    /\ Step(t, "idle")
    /\ UNCHANGED <<engine, state, on, outer, todo>>

\* host_invoke of the plugin: until it returns the thread may begin other
\* operations, and keeps the mutex of the payload it came from.
HostCall(t) ==
    /\ at[t] = "invoking" /\ outer[t] = None
    /\ \E q \in Payloads : <<on[t], q>> \in Reenters
    /\ Step(t, "idle")
    /\ outer' = [outer EXCEPT ![t] = on[t]]
    /\ UNCHANGED <<engine, state, on, todo>>

HostReturn(t) ==
    /\ at[t] = "idle" /\ outer[t] # None
    /\ Step(t, "invoking")
    /\ on' = [on EXCEPT ![t] = outer[t]]
    /\ outer' = [outer EXCEPT ![t] = None]
    /\ UNCHANGED <<engine, state, todo>>

\* EmbeddedPayload::shutdown_for_unload: refused while enabled, a call into the
\* plugin when disabled, and otherwise (never initialized, or a shutdown that
\* was already attempted) only a change of state.
ShutdownForUnload(t) ==
    /\ Granted(t, "unload")
    /\ LET p == on[t] IN
        CASE state[p] = "Enabled" -> Step(t, "idle") /\ UNCHANGED state
          [] state[p] = "Disabled" -> Step(t, "shutting") /\ UNCHANGED state
          [] OTHER -> Step(t, "removing") /\ Set(p, "Shutdown")
    /\ UNCHANGED <<engine, on, outer, todo>>

\* EmbeddedPayload::shutdown_once for unload: a failure ends the operation and
\* leaves the payload registered.
ShutdownReturn(t, ok) ==
    /\ at[t] = "shutting"
    /\ Step(t, IF ok THEN "removing" ELSE "idle")
    /\ Set(on[t], IF ok THEN "Shutdown" ELSE "ShutdownFailed")
    /\ UNCHANGED <<engine, on, outer, todo>>

\* Vec::retain of the other identifiers: this one is in the order once, or not
\* any more.
Without(order, p) ==
    IF p \in ToSet(order)
      THEN RemoveAt(order, CHOOSE i \in DOMAIN order : order[i] = p)
      ELSE order

\* The end of Engine::unload_payload, under the engine's mutex again.
RemovePayload(t) ==
    /\ at[t] = "removing"
    /\ registered' = registered \ {on[t]}
    /\ loadOrder' = Without(loadOrder, on[t])
    /\ Step(t, "idle")
    /\ UNCHANGED <<closed, loaded, state, on, outer, todo>>

\* Mutant: close() goes through the payloads in load order.
CloseInLoadOrder(t) ==
    /\ at[t] = "idle" /\ outer[t] = None
    /\ ~closed
    /\ closed' = TRUE
    /\ todo' = loadOrder
    /\ loadOrder' = <<>>
    /\ registered' = {}
    /\ Step(t, "closing")
    /\ UNCHANGED <<loaded, state, on, outer>>

\* Engine::close.  A second call returns Ok at once and changes nothing.
CloseBegin(t) ==
    /\ at[t] = "idle" /\ outer[t] = None
    /\ ~closed
    /\ closed' = TRUE
    /\ todo' = Reverse(loadOrder)
    /\ loadOrder' = <<>>
    /\ registered' = {}
    /\ Step(t, "closing")
    /\ UNCHANGED <<loaded, state, on, outer>>

\* Mutant: the payload at the head of the list stays there.
ForceShutdownNoPop(t) ==
    /\ at[t] = "closing" /\ todo # <<>>
    /\ ~Locked(Head(todo))
    /\ on' = [on EXCEPT ![t] = Head(todo)]
    /\ IF state[Head(todo)] \in {"Enabled", "Disabled"}
         THEN Step(t, "forcing") /\ UNCHANGED state
         ELSE Set(Head(todo), "Shutdown") /\ UNCHANGED at
    /\ UNCHANGED <<engine, outer, todo>>

\* Mutant: close() does not wait for the payload's mutex.
ForceShutdownUnlocked(t) ==
    /\ at[t] = "closing" /\ todo # <<>>
    /\ todo' = Tail(todo)
    /\ on' = [on EXCEPT ![t] = Head(todo)]
    /\ IF state[Head(todo)] \in {"Enabled", "Disabled"}
         THEN Step(t, "forcing") /\ UNCHANGED state
         ELSE Set(Head(todo), "Shutdown") /\ UNCHANGED at
    /\ UNCHANGED <<engine, outer>>

\* EmbeddedPayload::force_shutdown of the next payload, when its mutex is free.
ForceShutdown(t) ==
    /\ at[t] = "closing" /\ todo # <<>>
    /\ ~Locked(Head(todo))
    /\ todo' = Tail(todo)
    /\ on' = [on EXCEPT ![t] = Head(todo)]
    /\ IF state[Head(todo)] \in {"Enabled", "Disabled"}
         THEN Step(t, "forcing") /\ UNCHANGED state
         ELSE Set(Head(todo), "Shutdown") /\ UNCHANGED at
    /\ UNCHANGED <<engine, outer>>

ForceReturn(t, ok) ==
    /\ at[t] = "forcing"
    /\ Step(t, "closing")
    /\ Set(on[t], IF ok THEN "Shutdown" ELSE "ShutdownFailed")
    /\ UNCHANGED <<engine, on, outer, todo>>

CloseReturn(t) ==
    /\ at[t] = "closing" /\ todo = <<>>
    /\ Step(t, "idle")
    /\ UNCHANGED <<engine, state, on, outer, todo>>

\* The steps of an operation that has begun.
Advance(t) ==
    \/ Enable(t) \/ Disable(t) \/ Invoke(t) \/ ShutdownForUnload(t)
    \/ InvokeReturn(t) \/ HostReturn(t) \/ RemovePayload(t)
    \/ ForceShutdown(t) \/ CloseReturn(t)
    \/ \E ok \in BOOLEAN :
        InitializeReturn(t, ok) \/ ShutdownReturn(t, ok) \/ ForceReturn(t, ok)

Next ==
    \E t \in Threads :
        \/ Advance(t)
        \/ HostCall(t)
        \/ LoadPayload(t)
        \/ CloseBegin(t)
        \/ \E op \in Pending, p \in Payloads : Lookup(t, op, p)

Spec == Init /\ [][Next]_vars

\* Threads are scheduled, host calls return, and so do plugin callbacks,
\* however often they call the host.  Mutexes need not be fair: the engine
\* admits no new operation once it is closed.
Fairness == \A t \in Threads : WF_vars(Advance(t)) /\ SF_vars(InvokeReturn(t))

FairSpec == Spec /\ Fairness

-----------------------------------------------------------------------------
(* Properties.                                                             *)

\* A payload's life, by the calls that are in it, and by its state if none is.
In(step, p) == \E t \in Threads : at[t] = step /\ on[t] = p
Rest(s) ==
    CASE s = "Absent" -> "absent"
      [] s = "Loaded" -> "loaded"
      [] s = "Enabled" -> "enabled"
      [] s = "Disabled" -> "disabled"
      [] OTHER -> "ended"

\* Threads that are inside a callback of p: in the call itself, or further on, in
\* a host call that was made from it.
Inside(p) == {t \in Threads : at[t] \in Calling /\ on[t] = p}
Beyond(p) == {t \in Threads : outer[t] = p}
Alone(p) ==
    /\ \A t, u \in Inside(p) \cup Beyond(p) : t = u
    /\ Inside(p) \cap Beyond(p) = {}

\* The callbacks of a plugin exclude each other: no two threads are inside of
\* them, and no thread is inside twice, whatever its host calls lead to.  It is
\* what the mutex of the payload is for, between an enable, an invoke, an unload
\* and the shutdown of close().
OneCallAtATime == \A p \in Payloads : Alone(p)

\* The life of p; PayloadLifecycle knows no callbacks that overlap.
Life(p) ==
    IF ~Alone(p) THEN "overlapping"
    ELSE IF In("initializing", p) THEN "initializing"
    ELSE IF In("invoking", p) \/ (\E t \in Threads : outer[t] = p) THEN "invoking"
    ELSE IF In("shutting", p) \/ In("forcing", p) THEN "ending"
    ELSE Rest(state[p])

Lifecycle(p) == INSTANCE PayloadLifecycle WITH life <- Life(p)

\* Whatever the threads do, each plugin sees a sequential life: one callback
\* at a time, no second initialize, at most one shutdown, nothing after it.
LivesAreSequential ==
    /\ \A p \in Payloads : Lifecycle(p)!Init
    /\ [][\A p \in Payloads : [Lifecycle(p)!Next]_(Life(p))]_vars

\* close() shuts a payload down only after every payload loaded later is over.
ReverseLoadOrder == \A t \in Threads : at[t] = "forcing" =>
    \A p \in (on[t] + 1)..loaded : state[p] \in Over

\* A payload that is neither registered nor still to be shut down by close() is
\* over for good.  So nothing runs after close(), and a thread that looked a
\* payload up before it was unloaded cannot bring it back to life.
BeingClosed(p) ==
    p \in ToSet(todo) \/ \E t \in Threads : at[t] = "forcing" /\ on[t] = p
OverOnceRemoved == \A p \in 1..loaded :
    p \in registered \/ BeingClosed(p) \/ state[p] \in Over

\* Once the engine is closed every operation ends, close() itself included,
\* although operations hold payloads and wait for their mutexes.
QuietAfterClose == closed ~> \A t \in Threads : at[t] = "idle" /\ outer[t] = None

\* Plugin callbacks "may be reentered through host callbacks"
\* (hmcl-runtime-abi, HmclPluginApiV1): an operation that a plugin's host call
\* leads to gets the mutex of its payload.
ReentryReturns == \A t \in Threads :
    outer[t] # None /\ at[t] \in Pending ~> at[t] \notin Pending
=============================================================================
