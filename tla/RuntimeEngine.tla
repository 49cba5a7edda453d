---------------------------- MODULE RuntimeEngine ----------------------------
(***************************************************************************)
(* The Java side of the Host plugin: RustRuntimeHostPlugin opens one       *)
(* RustRuntimeEngine and publishes it as a RustRuntimeProvider; the engine *)
(* routes each payload to the embedded RustNativeEngine (and through JNI   *)
(* to the Rust Engine) or to a process of its own.                         *)
(*                                                                         *)
(* Every operation holds the monitor of RustRuntimeEngine from beginning   *)
(* to end, and an operation on embedded payloads that of RustNativeEngine  *)
(* inside it, while the plugin runs.  So one thread at a time is in an     *)
(* operation; what runs beside it are the plugins' own threads, whose      *)
(* Bridge calls need the inner monitor for requireSession(), and calls to  *)
(* close the Provider and to unload the Host.  A thread inside a Bridge    *)
(* call does not start another operation of the engine here.               *)
(*                                                                         *)
(* Payload ids ascend in load order, so the engines' lists of payloads are *)
(* sets of ids here.                                                       *)
(***************************************************************************)
EXTENDS Naturals

CONSTANTS
    Callers,       \* launcher threads
    Workers,       \* threads of plugins, started by their initialize
    MaxPayloads    \* bound: the payload ids the engine allocates

ASSUME RuntimeAssumption == Callers \cap Workers = {} /\ MaxPayloads \in Nat \ {0}

Threads == Callers \cup Workers
Ids == 1..MaxPayloads
Modes == {"embedded", "isolated"}

VARIABLES
    host,            \* RustRuntimeHostPlugin.registration and .engine
    providerClosed,  \* RustRuntimeProvider.closed
    closed,          \* RustRuntimeEngine.closed
    allocated,       \* nextPayloadId - 1
    payloads,        \* keys of RustRuntimeEngine.payloads
    mode,            \* the backend of each payload
    handle,          \* RustNativeEngine.handle and .closed
    contexts,        \* keys of payloadContexts and payloadSessions
    sessions,        \* keys of sessionContexts, by payload
    registered,      \* embedded payloads the Rust engine has
    state,           \* EmbeddedPayload.state, or the process of the payload
    at,              \* where each thread is
    on,              \* the payload that is about, 0 if none
    resume,          \* where a caller goes on after RustRuntimeEngine.close
    todo             \* payloads close() has still to end

plugin == <<host, providerClosed>>
maps == <<allocated, payloads, mode, contexts, sessions, registered>>
vars == <<host, providerClosed, closed, allocated, payloads, mode, handle,
          contexts, sessions, registered, state, at, on, resume, todo>>

Initialized == {"Enabled", "Disabled"}
Over == {"Absent", "Shutdown", "ShutdownFailed", "Ended"}
States == Initialized \cup Over \cup {"Loaded", "Running"}

\* Plugin code on the thread of the operation, and the wait for the host calls
\* of other threads after a failed initialize or a shutdown
\* (PluginContext::deactivate).
PluginCode == {"initialize", "invoke", "shutdown", "forced"}
Draining == {"failed", "drain", "forcedDrain"}
Holding == PluginCode \cup Draining \cup {"isolated", "closing"}
CallerSteps == {"idle", "unregister", "unload"} \cup Holding
WorkerSteps == {"idle", "bridge", "transport"}

TypeOK ==
    /\ host \in {"new", "loaded", "unloading", "unloaded"}
    /\ providerClosed \in BOOLEAN /\ closed \in BOOLEAN
    /\ allocated \in 0..MaxPayloads
    /\ payloads \subseteq 1..allocated
    /\ mode \in [Ids -> Modes]
    /\ handle \in {"none", "live", "closed"}
    /\ contexts \subseteq 1..allocated
    /\ sessions \subseteq 1..allocated
    /\ registered \subseteq 1..allocated
    /\ state \in [Ids -> States]
    /\ at \in [Threads -> CallerSteps \cup WorkerSteps]
    /\ on \in [Threads -> Ids \cup {0}]
    /\ resume \in [Callers -> {"idle", "unload"}]
    /\ todo \subseteq 1..allocated

Init ==
    /\ host = "new" /\ providerClosed = FALSE /\ closed = FALSE
    /\ allocated = 0
    /\ payloads = {}
    /\ mode = [p \in Ids |-> "embedded"]
    /\ handle = "none"
    /\ contexts = {} /\ sessions = {} /\ registered = {}
    /\ state = [p \in Ids |-> "Absent"]
    /\ at = [t \in Threads |-> "idle"]
    /\ on = [t \in Threads |-> 0]
    /\ resume = [t \in Callers |-> "idle"]
    /\ todo = {}

-----------------------------------------------------------------------------

Of(ids, m) == {p \in ids : mode[p] = m}

\* The monitor of RustRuntimeEngine, and that of RustNativeEngine, which close()
\* takes after the last isolated payload.
EngineFree == \A t \in Callers : at[t] \notin Holding
NativeFree == \A t \in Callers :
    /\ at[t] \notin PluginCode \cup Draining
    /\ at[t] = "closing" => Of(todo, "isolated") # {}

Goto(t, step) == at' = [at EXCEPT ![t] = step]
Set(p, s) == state' = [state EXCEPT ![p] = s]

\* A caller enters an operation of the open engine.
Enter(t) ==
    /\ at[t] = "idle"
    /\ host # "new"
    /\ EngineFree
    /\ ~closed

\* RustRuntimeHostPlugin.load opens an engine and registers a Provider of it; if
\* that is refused it closes the engine, as onUnload does, and is not loaded.
\* After an unload it may be loaded again; no thread is in an operation then.
HostLoad(t, accepted) ==
    /\ at[t] = "idle" /\ host \in {"new", "unloaded"}
    /\ host' = IF accepted THEN "loaded" ELSE "unloading"
    /\ Goto(t, IF accepted THEN "idle" ELSE "unload")
    /\ providerClosed' = FALSE /\ closed' = FALSE
    /\ allocated' = 0 /\ handle' = "none"
    /\ payloads' = {} /\ contexts' = {} /\ sessions' = {} /\ registered' = {}
    /\ mode' = [p \in Ids |-> "embedded"]
    /\ state' = [p \in Ids |-> "Absent"]
    /\ on' = [u \in Threads |-> 0] /\ resume' = [u \in Callers |-> "idle"]
    /\ UNCHANGED todo

\* RustNativeEngine.initialize.
Initialize(t) ==
    /\ Enter(t)
    /\ handle = "none"
    /\ handle' = "live"
    /\ UNCHANGED <<plugin, closed, maps, state, at, on, resume, todo>>

\* loadPayload of both engines.  The session is known before native code runs
\* and forgotten again if it fails; the allocated id is spent either way.
LoadPayload(t, m, ok) ==
    /\ Enter(t)
    /\ allocated < MaxPayloads
    /\ allocated' = allocated + 1
    /\ LET p == allocated + 1
           loaded == ok /\ (m = "embedded" => handle = "live")
           embedded == loaded /\ m = "embedded"
           Added(s) == IF embedded THEN s \cup {p} ELSE s
       IN /\ mode' = [mode EXCEPT ![p] = m]
          /\ payloads' = IF loaded THEN payloads \cup {p} ELSE payloads
          /\ contexts' = Added(contexts)
          /\ sessions' = Added(sessions)
          /\ registered' = Added(registered)
          /\ state' = CASE embedded -> [state EXCEPT ![p] = "Loaded"]
                        [] loaded /\ ~embedded -> [state EXCEPT ![p] = "Running"]
                        [] OTHER -> state
    /\ UNCHANGED <<plugin, closed, handle, at, on, resume, todo>>

\* A call into plugin code on the caller's own thread.
Run(t, code, p) ==
    /\ Goto(t, code)
    /\ on' = [on EXCEPT ![t] = p]

Unmoved == UNCHANGED <<at, on>>

\* requireBackend, and requirePayload of the embedded engine.
Embedded(p) == p \in payloads /\ mode[p] = "embedded" /\ p \in contexts

\* EmbeddedPayload::enable, ::disable and ::invoke behind the monitors.
EnablePayload(t, p) ==
    /\ Enter(t) /\ Embedded(p)
    /\ \/ state[p] = "Loaded" /\ Run(t, "initialize", p) /\ UNCHANGED state
       \/ state[p] \in Initialized /\ Set(p, "Enabled") /\ Unmoved
    /\ UNCHANGED <<plugin, closed, maps, handle, resume, todo>>

DisablePayload(t, p) ==
    /\ Enter(t) /\ Embedded(p)
    /\ state[p] \in Initialized
    /\ Set(p, "Disabled")
    /\ UNCHANGED <<plugin, closed, maps, handle, at, on, resume, todo>>

InvokePayload(t, p) ==
    /\ Enter(t) /\ Embedded(p)
    /\ state[p] = "Enabled"
    /\ Run(t, "invoke", p)
    /\ UNCHANGED <<plugin, closed, maps, handle, state, resume, todo>>

\* Any exchange with the process of an isolated payload but its shutdown.
IsolatedCall(t, p) ==
    /\ Enter(t)
    /\ p \in payloads /\ mode[p] = "isolated"
    /\ Run(t, "isolated", p)
    /\ UNCHANGED <<plugin, closed, maps, handle, state, resume, todo>>

\* It returns, or a deadline or a protocol error ends the process.
IsolatedReturn(t, ok) ==
    /\ at[t] = "isolated"
    /\ Goto(t, "idle")
    /\ IF ok THEN UNCHANGED state ELSE Set(on[t], "Ended")
    /\ UNCHANGED <<plugin, closed, maps, handle, on, resume, todo>>

\* The payload leaves every map of the embedded route.
Forget(p) ==
    /\ registered' = registered \ {p}
    /\ contexts' = contexts \ {p}
    /\ sessions' = sessions \ {p}
    /\ payloads' = payloads \ {p}
    /\ UNCHANGED <<allocated, mode>>

\* unloadPayload of an embedded payload: refused while it is enabled.
UnloadEmbedded(t, p) ==
    /\ Enter(t) /\ Embedded(p)
    /\ \/ state[p] = "Disabled" /\ Run(t, "shutdown", p) /\ UNCHANGED <<state, maps>>
       \/ state[p] \in {"Loaded", "ShutdownFailed"} /\ Set(p, "Shutdown") /\ Forget(p) /\ Unmoved
    /\ UNCHANGED <<plugin, closed, handle, resume, todo>>

\* unloadPayload of an isolated payload: its process is over whether or not
\* shutdown() throws, and the id is removed in `finally`.
UnloadIsolated(t, p) ==
    /\ Enter(t)
    /\ p \in payloads /\ mode[p] = "isolated"
    /\ Set(p, "Ended")
    /\ payloads' = payloads \ {p}
    /\ UNCHANGED <<plugin, closed, allocated, mode, contexts, sessions, registered,
                   handle, at, on, resume, todo>>

-----------------------------------------------------------------------------
(* Plugin code returns.                                                    *)

\* After an error the context is deactivated before the callback returns.
InitializeReturn(t, ok) ==
    /\ at[t] = "initialize"
    /\ Goto(t, IF ok THEN "idle" ELSE "failed")
    /\ IF ok THEN Set(on[t], "Enabled") ELSE UNCHANGED state
    /\ UNCHANGED <<plugin, closed, maps, handle, on, resume, todo>>

InvokeReturn(t) ==
    /\ at[t] = "invoke"
    /\ Goto(t, "idle")
    /\ UNCHANGED <<plugin, closed, maps, handle, state, on, resume, todo>>

\* Plugin::shutdown has returned: its context is deactivated.
ShutdownReturn(t) ==
    /\ \/ at[t] = "shutdown" /\ Goto(t, "drain")
       \/ at[t] = "forced" /\ Goto(t, "forcedDrain")
    /\ UNCHANGED <<plugin, closed, maps, handle, state, on, resume, todo>>

\* Mutant: deactivate() does not wait for the host calls in flight.
QuiescedAtOnce(p) == TRUE

\* No thread of the payload is inside a host call.
Quiesced(p) == \A w \in Workers : at[w] = "idle" \/ on[w] # p

FailedReturn(t) ==
    /\ at[t] = "failed" /\ Quiesced(on[t])
    /\ Goto(t, "idle")
    /\ UNCHANGED <<plugin, closed, maps, handle, state, on, resume, todo>>

\* Mutant: unload drops the Java session although shutdown failed.
UnloadReturnForgets(t, ok) ==
    /\ at[t] = "drain" /\ Quiesced(on[t])
    /\ Goto(t, "idle")
    /\ Set(on[t], IF ok THEN "Shutdown" ELSE "ShutdownFailed")
    /\ IF ok THEN Forget(on[t])
       ELSE /\ contexts' = contexts \ {on[t]}
            /\ sessions' = sessions \ {on[t]}
            /\ UNCHANGED <<allocated, mode, payloads, registered>>
    /\ UNCHANGED <<plugin, closed, handle, on, resume, todo>>

\* Engine::unload_payload returns; an error leaves the payload in every map.
UnloadReturn(t, ok) ==
    /\ at[t] = "drain" /\ Quiesced(on[t])
    /\ Goto(t, "idle")
    /\ Set(on[t], IF ok THEN "Shutdown" ELSE "ShutdownFailed")
    /\ IF ok THEN Forget(on[t]) ELSE UNCHANGED maps
    /\ UNCHANGED <<plugin, closed, handle, on, resume, todo>>

-----------------------------------------------------------------------------
(* Closing.                                                                *)

\* RustRuntimeEngine.close: the first caller closes isolated payloads in
\* reverse load order and then the embedded engine; a later one, who had to
\* wait for the monitor, returns at once.
CloseEngine(t, next) ==
    /\ EngineFree
    /\ IF closed
         THEN Goto(t, next) /\ UNCHANGED <<closed, payloads, resume, todo>>
         ELSE /\ closed' = TRUE
              /\ todo' = Of(payloads, "isolated") \cup registered
              /\ payloads' = {}
              /\ Goto(t, "closing")
              /\ resume' = [resume EXCEPT ![t] = next]

\* The payload whose turn it is: of the isolated ones, or else of the others,
\* the one loaded last.
Last(p) == p \in todo /\ \A q \in todo :
    IF mode[q] = mode[p] THEN q <= p ELSE mode[p] = "isolated"

\* Mutant: the payload that was ended stays on the list.
CloseNextNoPop(t, p) ==
    /\ at[t] = "closing" /\ Last(p)
    /\ IF state[p] \in Initialized
         THEN Run(t, "forced", p) /\ UNCHANGED state
         ELSE Set(p, IF mode[p] = "isolated" THEN "Ended" ELSE "Shutdown") /\ Unmoved
    /\ UNCHANGED <<plugin, closed, maps, handle, resume, todo>>

\* IsolatedPayload.close, or EmbeddedPayload::force_shutdown.
CloseNext(t, p) ==
    /\ at[t] = "closing" /\ Last(p)
    /\ IF state[p] \in Initialized
         THEN Run(t, "forced", p) /\ UNCHANGED <<state, todo>>
         ELSE /\ Set(p, IF mode[p] = "isolated" THEN "Ended" ELSE "Shutdown")
              /\ todo' = todo \ {p}
              /\ Unmoved
    /\ UNCHANGED <<plugin, closed, maps, handle, resume>>

ForcedReturn(t, ok) ==
    /\ at[t] = "forcedDrain" /\ Quiesced(on[t])
    /\ Set(on[t], IF ok THEN "Shutdown" ELSE "ShutdownFailed")
    /\ todo' = todo \ {on[t]}
    /\ Goto(t, "closing")
    /\ UNCHANGED <<plugin, closed, maps, handle, on, resume>>

\* The end of RustNativeEngine.close.
CloseReturn(t) ==
    /\ at[t] = "closing" /\ todo = {}
    /\ handle' = "closed"
    /\ contexts' = {} /\ sessions' = {} /\ registered' = {}
    /\ Goto(t, resume[t])
    /\ UNCHANGED <<plugin, closed, allocated, payloads, mode, state, on, resume, todo>>

\* RustRuntimeProvider.close: only one caller ever gets through to the engine,
\* and the others do not wait for it.
ProviderClose(t, next) ==
    IF providerClosed
      THEN Goto(t, next) /\ UNCHANGED <<providerClosed, closed, payloads, resume, todo>>
      ELSE providerClosed' = TRUE /\ CloseEngine(t, next)

SupervisorCloses(t) ==
    /\ at[t] = "idle" /\ host # "new" /\ ~providerClosed
    /\ ProviderClose(t, "idle")
    /\ UNCHANGED <<host, allocated, mode, contexts, sessions, registered, handle, state, on>>

\* RustRuntimeHostPlugin.onUnload takes its fields under its own monitor ...
HostUnload(t) ==
    /\ at[t] = "idle" /\ host = "loaded"
    /\ host' = "unloading"
    /\ Goto(t, "unregister")
    /\ UNCHANGED <<providerClosed, closed, maps, handle, state, on, resume, todo>>

\* ... closes the registration, which closes the Provider unless it fails ...
Unregister(t, ok) ==
    /\ at[t] = "unregister"
    /\ IF ok
         THEN ProviderClose(t, "unload")
         ELSE Goto(t, "unload") /\ UNCHANGED <<providerClosed, closed, payloads, resume, todo>>
    /\ UNCHANGED <<host, allocated, mode, contexts, sessions, registered, handle, state, on>>

\* Mutant: the engine is left to the Provider, which is already closing it.
UnloadEngineOnceClosed(t) ==
    /\ at[t] = "unload"
    /\ IF closed
         THEN /\ Goto(t, "idle") /\ host' = "unloaded"
              /\ UNCHANGED <<closed, payloads, resume, todo>>
         ELSE CloseEngine(t, "unload") /\ UNCHANGED host
    /\ UNCHANGED <<providerClosed, allocated, mode, contexts, sessions, registered,
                   handle, state, on>>

\* ... and closes the engine itself, in any case.
UnloadEngine(t) ==
    /\ at[t] = "unload"
    /\ IF closed /\ EngineFree
         THEN /\ Goto(t, "idle") /\ host' = "unloaded"
              /\ UNCHANGED <<closed, payloads, resume, todo>>
         ELSE CloseEngine(t, "unload") /\ UNCHANGED host
    /\ UNCHANGED <<providerClosed, allocated, mode, contexts, sessions, registered,
                   handle, state, on>>

-----------------------------------------------------------------------------
(* A Bridge call of a plugin's own thread: host_invoke under a HostLease,   *)
(* JavaBridge::invoke on the attached thread, RustNativeEngine.invokeBridge. *)

\* The plugin's context admits host calls from its initialize on, until it is
\* deactivated.
Admits(p) ==
    \/ \E t \in Callers : at[t] = "initialize" /\ on[t] = p
    \/ /\ state[p] \in Initialized
       /\ \A t \in Callers : at[t] \in Draining => on[t] # p

BridgeCall(w, p) ==
    /\ at[w] = "idle" /\ Admits(p)
    /\ Run(w, "bridge", p)
    /\ UNCHANGED <<plugin, closed, maps, handle, state, resume, todo>>

\* requireSession is synchronized; the transport is called without the lock.
RequireSession(w) ==
    /\ at[w] = "bridge" /\ NativeFree
    /\ Goto(w, IF on[w] \in sessions THEN "transport" ELSE "idle")
    /\ UNCHANGED <<plugin, closed, maps, handle, state, on, resume, todo>>

BridgeReturn(w) ==
    /\ at[w] = "transport"
    /\ Goto(w, "idle")
    /\ UNCHANGED <<plugin, closed, maps, handle, state, on, resume, todo>>

-----------------------------------------------------------------------------

\* The steps of the operation that holds the monitor.
Advance(t) ==
    \/ InvokeReturn(t) \/ FailedReturn(t) \/ ShutdownReturn(t) \/ CloseReturn(t)
    \/ \E p \in Ids : CloseNext(t, p)
    \/ \E ok \in BOOLEAN :
        \/ IsolatedReturn(t, ok) \/ InitializeReturn(t, ok)
        \/ UnloadReturn(t, ok) \/ ForcedReturn(t, ok)

Operation(t) ==
    \/ Initialize(t)
    \/ \E m \in Modes, ok \in BOOLEAN : LoadPayload(t, m, ok)
    \/ \E p \in Ids :
        \/ EnablePayload(t, p) \/ DisablePayload(t, p) \/ InvokePayload(t, p)
        \/ IsolatedCall(t, p) \/ UnloadEmbedded(t, p) \/ UnloadIsolated(t, p)

HostStep(t) ==
    \/ HostUnload(t) \/ UnloadEngine(t) \/ SupervisorCloses(t)
    \/ \E ok \in BOOLEAN : HostLoad(t, ok) \/ Unregister(t, ok)

Bridge(w) ==
    RequireSession(w) \/ BridgeReturn(w) \/ \E p \in Ids : BridgeCall(w, p)

Next ==
    \/ \E t \in Callers : Advance(t) \/ Operation(t) \/ HostStep(t)
    \/ \E w \in Workers : Bridge(w)

Spec == Init /\ [][Next]_vars

\* An operation under way is scheduled and its plugin code returns, and so do
\* Bridge calls.  Java monitors are not fair, so nothing is assumed of a
\* caller that waits for one to begin.
Fairness ==
    /\ \A t \in Callers : WF_vars(Advance(t))
    /\ \A w \in Workers : SF_vars(RequireSession(w)) /\ WF_vars(BridgeReturn(w))

FairSpec == Spec /\ Fairness

-----------------------------------------------------------------------------
(* Properties.                                                             *)

\* A plugin that may call the host has its session in sessionContexts: from
\* its initialize to the end of its shutdown, on its own threads too, and also
\* while the engine is being closed.  So requireSession never fails.
BridgeFindsItsSession ==
    /\ \A t \in Callers : at[t] \in PluginCode \cup Draining => on[t] \in sessions
    /\ \A w \in Workers : at[w] = "bridge" => on[w] \in sessions

\* Between operations the four maps of the embedded route agree, in Java and in
\* Rust, whichever of the steps of load or unload failed; and a payload that
\* has no route left is over.
RoutesAgree == EngineFree =>
    /\ Of(payloads, "embedded") = contexts
    /\ contexts = sessions
    /\ sessions = registered
    /\ \A p \in Ids : p \notin payloads => state[p] \in Over

\* When onUnload has returned, cleanup is complete: every payload was shut down
\* and every process ended, even if the registration failed to close, or the
\* Provider was already being closed by another thread.
UnloadMeansClosed == host = "unloaded" =>
    closed /\ EngineFree /\ \A p \in Ids : state[p] \in Over

\* Thread t deactivates the context of a plugin while a thread of the plugin is
\* in a Bridge call and waits for the monitor that t holds.
Blocked(t) == at[t] \in Draining /\ \E w \in Workers : at[w] = "bridge" /\ on[w] = on[t]

\* Only that wait can keep an operation from ending: whatever fails, and whoever
\* closes, every other one ends and releases its monitors.
OnlyDrainsBlock == \A t \in Callers : []<>(at[t] \notin Holding) \/ <>[]Blocked(t)

\* An operation of the engine ends and releases its monitor.
OperationsEnd == \A t \in Callers : at[t] \in Holding ~> at[t] \notin Holding
=============================================================================
