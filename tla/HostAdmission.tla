--------------------------- MODULE HostAdmission ---------------------------
(***************************************************************************)
(* The admission gate in front of the host's function table                *)
(* (hmcl-plugin-sdk, struct HostState).  Every call a plugin makes into    *)
(* the host holds a HostLease; deactivate() closes admission and returns   *)
(* only when the last lease is gone, because from then on the host may     *)
(* free what the copied function pointers refer to.                        *)
(*                                                                         *)
(* One action is one critical section of the `admission` mutex.  The       *)
(* thread-local HOST_LEASE_DEPTHS is read and written only by its own      *)
(* thread, so its updates belong to the action of that thread.             *)
(***************************************************************************)
EXTENDS Naturals, FiniteSets

CONSTANTS
    Threads,      \* threads that may hold a clone of the context
    MaxDepth,     \* bound: nesting of host calls on one thread
    MaxInFlight   \* usize::MAX of the in_flight counter

ASSUME ThreadsAssumption == IsFiniteSet(Threads) /\ Threads # {}
ASSUME MaxDepthAssumption == MaxDepth \in Nat \ {0}
ASSUME MaxInFlightAssumption == MaxInFlight \in Nat \ {0}

VARIABLES
    active,       \* HostAdmission.active
    inFlight,     \* HostAdmission.in_flight
    depth,        \* HOST_LEASE_DEPTHS of each thread, for this host
    drain,        \* where each thread is in deactivate()
    drained       \* some call of deactivate() has returned

vars == <<active, inFlight, depth, drain, drained>>

\* "blocked": asleep in quiesced.wait(); "check": woken, and about to take the
\* mutex to test in_flight again.
DrainSteps == {"idle", "check", "blocked"}

TypeOK ==
    /\ active \in BOOLEAN
    /\ inFlight \in 0..MaxInFlight
    /\ depth \in [Threads -> 0..MaxDepth]
    /\ drain \in [Threads -> DrainSteps]
    /\ drained \in BOOLEAN

Init ==
    /\ active = TRUE
    /\ inFlight = 0
    /\ depth = [t \in Threads |-> 0]
    /\ drain = [t \in Threads |-> "idle"]
    /\ drained = FALSE

-----------------------------------------------------------------------------

\* Mutant: reentry is decided by the shared counter, not by the thread.
AdmittedByAnyLease(t) == active \/ inFlight > 0

\* A thread is admitted while the gate is open, and a thread that already
\* holds a lease is admitted even after it closed.
Admitted(t) == active \/ depth[t] > 0

\* Mutant: the last lease leaves without notify_all().
NoNotify(n) == drain

\* notify_all() is called when the count reaches zero.
Notify(n) ==
    IF n = 0
      THEN [t \in Threads |-> IF drain[t] = "blocked" THEN "check" ELSE drain[t]]
      ELSE drain

\* Mutant: only the outermost lease of a thread is counted.
LeaseOutermostCounted(t) ==
    /\ drain[t] = "idle"
    /\ Admitted(t)
    /\ inFlight < MaxInFlight
    /\ depth[t] < MaxDepth
    /\ inFlight' = IF depth[t] = 0 THEN inFlight + 1 ELSE inFlight
    /\ depth' = [depth EXCEPT ![t] = @ + 1]
    /\ UNCHANGED <<active, drain, drained>>

\* HostState::lease.  A refused call returns Unavailable and changes nothing,
\* as does a count that would overflow.
Lease(t) ==
    /\ drain[t] = "idle"
    /\ Admitted(t)
    /\ inFlight < MaxInFlight
    /\ depth[t] < MaxDepth
    /\ inFlight' = inFlight + 1
    /\ depth' = [depth EXCEPT ![t] = @ + 1]
    /\ UNCHANGED <<active, drain, drained>>

\* Drop for HostLease.
DropLease(t) ==
    /\ depth[t] > 0
    /\ depth' = [depth EXCEPT ![t] = @ - 1]
    /\ inFlight' = inFlight - 1
    /\ drain' = Notify(inFlight - 1)
    /\ UNCHANGED <<active, drained>>

\* The wait loop of deactivate(), each time its thread holds the mutex: it
\* returns on a count of zero and sleeps otherwise.
TestCount(t) ==
    /\ drain' = [drain EXCEPT ![t] = IF inFlight = 0 THEN "idle" ELSE "blocked"]
    /\ drained' = (drained \/ inFlight = 0)

\* HostState::deactivate closes admission and enters its wait loop under one
\* lock.  Its callers hold no lease: a thread that did would wait for itself.
Deactivate(t) ==
    /\ drain[t] = "idle"
    /\ depth[t] = 0
    /\ active' = FALSE
    /\ TestCount(t)
    /\ UNCHANGED <<inFlight, depth>>

\* Mutant: the wait is not in a loop.
RecheckOnce(t) ==
    /\ drain[t] = "check"
    /\ drain' = [drain EXCEPT ![t] = "idle"]
    /\ drained' = TRUE
    /\ UNCHANGED <<active, inFlight, depth>>

\* A woken thread holds the mutex again.
Recheck(t) ==
    /\ drain[t] = "check"
    /\ TestCount(t)
    /\ UNCHANGED <<active, inFlight, depth>>

\* Condvar::wait may return without a notification.
SpuriousWake(t) ==
    /\ drain[t] = "blocked"
    /\ drain' = [drain EXCEPT ![t] = "check"]
    /\ UNCHANGED <<active, inFlight, depth, drained>>

Next ==
    \E t \in Threads :
        \/ Lease(t)
        \/ DropLease(t)
        \/ Deactivate(t)
        \/ Recheck(t)
        \/ SpuriousWake(t)

Spec == Init /\ [][Next]_vars

\* Every host call returns, at whatever depth it was made: a thread that keeps
\* coming back to one depth does not start nested calls there for ever.  A
\* woken thread is scheduled.
Fairness ==
    \A t \in Threads :
        /\ WF_vars(Recheck(t))
        /\ \A d \in 1..MaxDepth : SF_vars(depth[t] = d /\ DropLease(t))

FairSpec == Spec /\ Fairness

-----------------------------------------------------------------------------

\* The leases that exist, each named by its thread and its nesting depth.
LeasesOf(d) == {l \in Threads \X (1..MaxDepth) : l[2] <= d[l[1]]}
Leases == LeasesOf(depth)

\* The counter the deactivating thread waits on is the number of live leases.
CountIsExact == inFlight = Cardinality(Leases)

\* Once deactivate() has returned, no thread is inside a host call, and none
\* ever will be: the host may free its callbacks (deactivate, lease).
QuiescentForever == drained => ~active /\ Leases = {}

\* A thread asleep in deactivate() always has a lease in flight whose drop
\* wakes it: no notification is lost between the test and the wait.
NoLostWakeup == (\E t \in Threads : drain[t] = "blocked") => Leases # {}

\* After admission has closed, only threads that were already inside a host
\* call can be inside one: the set of calling threads only shrinks.
Callers == {t \in Threads : depth[t] > 0}
OnlyReentryAfterClose == [][~active => Callers' \subseteq Callers]_vars

\* Every call of deactivate() returns if host calls do (deactivate).
DeactivateReturns == \A t \in Threads : drain[t] # "idle" ~> drain[t] = "idle"
=============================================================================
