-------------------------- MODULE SessionContract --------------------------
(***************************************************************************)
(* What the SDK promises about the life of one plugin context, seen from   *)
(* the outside: when the plugin's own code runs, and when the host's       *)
(* function table is called.  It is the contract hmcl-runtime-abi states   *)
(* for HmclPluginShutdownFn (invocations are over before shutdown runs,    *)
(* and shutdown runs alone) and for HmclHostApiV1 (callbacks stay valid    *)
(* until shutdown has completed, so none may be called afterwards).        *)
(***************************************************************************)
EXTENDS Naturals

VARIABLES
    phase,   \* where the context is in its life
    busy,    \* invocations running in the plugin
    calls    \* host calls in flight

vars == <<phase, busy, calls>>

Phases == {"unborn", "initializing", "open", "closing", "shutdown",
           "retiring", "draining", "ended"}

Init == phase = "unborn" /\ busy = 0 /\ calls = 0

Move(from, to) == phase = from /\ phase' = to /\ UNCHANGED <<busy, calls>>

Create == Move("unborn", "initializing")
Accept == Move("initializing", "open")
Refuse == Move("initializing", "retiring")

\* An invocation enters an open session only.
EnterInvocation ==
    /\ phase = "open"
    /\ busy' = busy + 1
    /\ UNCHANGED <<phase, calls>>

LeaveInvocation ==
    /\ busy > 0
    /\ busy' = busy - 1
    /\ UNCHANGED <<phase, calls>>

Close == Move("open", "closing")

\* The plugin's shutdown starts when no invocation is left in it.
StartShutdown == busy = 0 /\ Move("closing", "shutdown")

\* The plugin value is gone.
Retire == Move("shutdown", "retiring")

\* The context stops admitting host calls.
Drain == Move("retiring", "draining")

\* A host call may start from creation until the context drains, and then
\* only inside another host call.
StartCall ==
    /\ phase \notin {"unborn", "ended"}
    /\ phase = "draining" => calls > 0
    /\ calls' = calls + 1
    /\ UNCHANGED <<phase, busy>>

EndCall ==
    /\ calls > 0
    /\ calls' = calls - 1
    /\ UNCHANGED <<phase, busy>>

\* Initialize or shutdown returns: the host may free its callbacks.
End == calls = 0 /\ Move("draining", "ended")

Next ==
    \/ Create \/ Accept \/ Refuse
    \/ EnterInvocation \/ LeaveInvocation
    \/ Close \/ StartShutdown \/ Retire \/ Drain
    \/ StartCall \/ EndCall
    \/ End

Spec == Init /\ [][Next]_vars
=============================================================================
