--------------------------- MODULE HostResources ---------------------------
(***************************************************************************)
(* What crosses the ABI by transfer of ownership, for one plugin context:  *)
(* buffers, which the host allocates in the table of HostCallbacks         *)
(* (embedded.rs) and the SDK owns as an HostBuffer (lib.rs), and           *)
(* references to host objects, which the SDK owns as ObjectHandles         *)
(* (handle.rs).                                                            *)
(*                                                                         *)
(* Threads run plugin code.  A thread holds a lease of the context's       *)
(* HostAdmission from one step of a host call to its last; HostAdmission   *)
(* models the lease itself.  One thread at a time is the invoker, the      *)
(* thread on which the host invokes the plugin under the payload's mutex.  *)
(* The Bridge behind the host callbacks is external: it may refuse, and    *)
(* the size of its answers is its choice.                                  *)
(***************************************************************************)
EXTENDS Naturals, FiniteSets

CONSTANTS
    Threads,     \* threads of plugin code that hold the context
    Addresses,   \* what the allocator can return; freed ones come back
    Objects,     \* objects of the launcher
    MaxSize,     \* bound: bytes in one buffer
    MaxRefs,     \* bound: references to one object
    MaxFailures, \* bound: counted cleanup failures
    None         \* the null pointer, and no thread

ASSUME HostResourcesAssumption ==
    /\ IsFiniteSet(Threads) /\ None \notin Threads \cup Addresses \cup 0..MaxSize
    /\ MaxSize \in Nat \ {0} /\ MaxRefs \in Nat \ {0} /\ MaxFailures \in Nat

VARIABLES
    active,     \* HostAdmission.active
    drained,    \* deactivate() has returned
    invoker,    \* the thread in the plugin's invoke entry point
    at,         \* the host call a thread is in
    on,         \* the object of that call
    table,      \* HostCallbacks.allocations: the size of each, None if not there
    held,       \* the HmclOwnedBuffer each thread owns
    wrappers,   \* live ObjectHandles of an object
    loose,      \* references the host has transferred in a value, not adopted
    refs,       \* the references the launcher counts for this session
    failures    \* ContextInner.cleanup_failures

bufferVars == <<table, held>>
handleVars == <<on, wrappers, loose, refs, failures>>
vars == <<active, drained, invoker, at, on, table, held,
          wrappers, loose, refs, failures>>

Buffer == [data : Addresses \cup {None}, len : 0..MaxSize, capacity : 0..MaxSize]
Empty == [data |-> None, len |-> 0, capacity |-> 0]

\* Between these steps a thread holds a lease.
Leased == {"calling", "received", "allocated", "retaining", "releasing"}
Steps == Leased \cup {"idle", "checked", "written"}

TypeOK ==
    /\ active \in BOOLEAN /\ drained \in BOOLEAN
    /\ invoker \in Threads \cup {None}
    /\ at \in [Threads -> Steps]
    /\ on \in [Threads -> Objects \cup {None}]
    /\ table \in [Addresses -> 1..MaxSize \cup {None}]
    /\ held \in [Threads -> Buffer]
    /\ wrappers \in [Objects -> 0..MaxRefs]
    /\ loose \in [Objects -> 0..MaxRefs]
    /\ refs \in [Objects -> 0..MaxRefs]
    /\ failures \in 0..MaxFailures

Init ==
    /\ active = TRUE /\ drained = FALSE /\ invoker = None
    /\ at = [t \in Threads |-> "idle"]
    /\ on = [t \in Threads |-> None]
    /\ table = [a \in Addresses |-> None]
    /\ held = [t \in Threads |-> Empty]
    /\ wrappers = [o \in Objects |-> 0]
    /\ loose = [o \in Objects |-> 0]
    /\ refs = [o \in Objects |-> 0]
    /\ failures = 0

Free == {a \in Addresses : table[a] = None}
HoldsLease(t) == at[t] \in Leased
Move(t, step) == at' = [at EXCEPT ![t] = step]

-----------------------------------------------------------------------------
(* The allocation table of the host.                                       *)

\* HostCallbacks::allocate: t owns a buffer of n bytes, len of them set.
\* Nothing is allocated for a buffer of no bytes.
Allocate(t, n, len) ==
    IF n = 0
      THEN held' = [held EXCEPT ![t] = Empty] /\ UNCHANGED table
      ELSE \E a \in Free :
             /\ table' = [table EXCEPT ![a] = n]
             /\ held' = [held EXCEPT ![t] = [data |-> a, len |-> len, capacity |-> n]]

\* Mutant: the bytes are copied out and the allocation stays.
SurrenderByCopy(t) == held' = [held EXCEPT ![t] = Empty] /\ UNCHANGED table

\* HostCallbacks::release and take_output: the entry leaves the table before
\* the descriptor is compared with it; t's token is gone whatever comes out.
Surrender(t) ==
    /\ table' = IF held[t].capacity = 0 THEN table
                ELSE [table EXCEPT ![held[t].data] = None]
    /\ held' = [held EXCEPT ![t] = Empty]

-----------------------------------------------------------------------------
(* PluginContext::invoke: the result of a host call is a buffer.           *)

CallBegin(t) ==
    /\ at[t] = "idle" /\ active
    /\ Move(t, "calling")
    /\ UNCHANGED <<active, drained, invoker, bufferVars, handleVars>>

\* host_invoke answers: n bytes, all of them set.
CallAnswered(t) ==
    /\ at[t] = "calling"
    /\ \E n \in 0..MaxSize : Allocate(t, n, n)
    /\ Move(t, "received")
    /\ UNCHANGED <<active, drained, invoker, handleVars>>

\* host_invoke refuses: the SDK owns nothing, and the lease is dropped.
CallRefused(t) ==
    /\ at[t] = "calling"
    /\ Move(t, "idle")
    /\ UNCHANGED <<active, drained, invoker, bufferVars, handleVars>>

\* The bytes are copied and the buffer released, both under the lease.
CallReleases(t) ==
    /\ at[t] = "received"
    /\ Surrender(t)
    /\ Move(t, "idle")
    /\ UNCHANGED <<active, drained, invoker, handleVars>>

-----------------------------------------------------------------------------
(* invoke_inner: the output of the plugin is a buffer the host allocates,  *)
(* the SDK fills and the host takes back.                                  *)

InvokeBegin(t) ==
    /\ at[t] = "idle" /\ invoker = None /\ active
    /\ invoker' = t
    /\ UNCHANGED <<active, drained, at, bufferVars, handleVars>>

\* allocate_wire: a lease from the callback to the last byte.
OutputAllocated(t) ==
    /\ invoker = t /\ at[t] = "idle" /\ active
    /\ \E n \in 0..MaxSize : Allocate(t, n, 0)
    /\ Move(t, "allocated")
    /\ UNCHANGED <<active, drained, invoker, handleVars>>

OutputWritten(t) ==
    /\ at[t] = "allocated"
    /\ held' = [held EXCEPT ![t].len = held[t].capacity]
    /\ Move(t, "written")
    /\ UNCHANGED <<active, drained, invoker, table, handleVars>>

\* EmbeddedPayload::invoke, once the entry point has returned.
TakeOutput(t) ==
    /\ at[t] = "written"
    /\ Surrender(t)
    /\ invoker' = None
    /\ Move(t, "idle")
    /\ UNCHANGED <<active, drained, handleVars>>

\* The entry point returns an error: no output to take.
InvokeFails(t) ==
    /\ invoker = t /\ at[t] = "idle"
    /\ invoker' = None
    /\ UNCHANGED <<active, drained, at, bufferVars, handleVars>>

-----------------------------------------------------------------------------
(* References to host objects.                                             *)

\* External: a reference arrives in a value of the host.
HostTransfers(o) ==
    /\ active /\ refs[o] < MaxRefs
    /\ refs' = [refs EXCEPT ![o] = @ + 1]
    /\ loose' = [loose EXCEPT ![o] = @ + 1]
    /\ UNCHANGED <<active, drained, invoker, at, on, bufferVars, wrappers, failures>>

\* ObjectHandle::from_owned: refused, with the reference left to the caller,
\* once host calls are.
Adopt(t, o) ==
    /\ at[t] = "idle" /\ loose[o] > 0 /\ active
    /\ loose' = [loose EXCEPT ![o] = @ - 1]
    /\ wrappers' = [wrappers EXCEPT ![o] = @ + 1]
    /\ UNCHANGED <<active, drained, invoker, at, on, bufferVars, refs, failures>>

\* ObjectHandle::from_borrowed and try_clone: a first lease, dropped again.
BorrowBegin(t, o) ==
    /\ at[t] = "idle" /\ active
    /\ on' = [on EXCEPT ![t] = o]
    /\ Move(t, "checked")
    /\ UNCHANGED <<active, drained, invoker, bufferVars, wrappers, loose, refs, failures>>

EndOfCall(t) == Move(t, "idle") /\ on' = [on EXCEPT ![t] = None]

\* Mutant: the context was active, so it still is.
RetainBeginUnchecked(t) ==
    /\ at[t] = "checked"
    /\ Move(t, "retaining")
    /\ UNCHANGED <<active, drained, invoker, on, bufferVars, wrappers, loose, refs, failures>>

\* A second lease for the call itself, and no wrapper without it.
RetainBegin(t) ==
    /\ at[t] = "checked"
    /\ IF active THEN Move(t, "retaining") /\ UNCHANGED on ELSE EndOfCall(t)
    /\ UNCHANGED <<active, drained, invoker, bufferVars, wrappers, loose, refs, failures>>

Retained(t) ==
    /\ at[t] = "retaining" /\ refs[on[t]] < MaxRefs
    /\ refs' = [refs EXCEPT ![on[t]] = @ + 1]
    /\ wrappers' = [wrappers EXCEPT ![on[t]] = @ + 1]
    /\ EndOfCall(t)
    /\ UNCHANGED <<active, drained, invoker, bufferVars, loose, failures>>

\* Mutant: the status of the host is not looked at.
RetainRefusedUnseen(t) ==
    /\ at[t] = "retaining" /\ wrappers[on[t]] < MaxRefs
    /\ wrappers' = [wrappers EXCEPT ![on[t]] = @ + 1]
    /\ EndOfCall(t)
    /\ UNCHANGED <<active, drained, invoker, bufferVars, loose, refs, failures>>

\* The host refuses (the handle is stale): nothing is owned.
RetainRefused(t) ==
    /\ at[t] = "retaining"
    /\ EndOfCall(t)
    /\ UNCHANGED <<active, drained, invoker, bufferVars, wrappers, loose, refs, failures>>

\* Drop for ObjectHandle: without a lease, nothing is released or counted.
DropHandle(t, o) ==
    /\ at[t] = "idle" /\ wrappers[o] > 0
    /\ wrappers' = [wrappers EXCEPT ![o] = @ - 1]
    /\ IF active
         THEN Move(t, "releasing") /\ on' = [on EXCEPT ![t] = o]
         ELSE UNCHANGED <<at, on>>
    /\ UNCHANGED <<active, drained, invoker, bufferVars, loose, refs, failures>>

Released(t) ==
    /\ at[t] = "releasing"
    /\ refs' = [refs EXCEPT ![on[t]] = @ - 1]
    /\ EndOfCall(t)
    /\ UNCHANGED <<active, drained, invoker, bufferVars, wrappers, loose, failures>>

\* A release that fails is counted and not tried again.
ReleaseFails(t) ==
    /\ at[t] = "releasing" /\ failures < MaxFailures
    /\ failures' = failures + 1
    /\ EndOfCall(t)
    /\ UNCHANGED <<active, drained, invoker, bufferVars, wrappers, loose, refs>>

-----------------------------------------------------------------------------
(* PluginContext::deactivate, which shutdown_inner calls once no thread is *)
(* in an invocation.                                                       *)

Deactivate ==
    /\ active /\ invoker = None
    /\ active' = FALSE
    /\ UNCHANGED <<drained, invoker, at, bufferVars, handleVars>>

\* The last lease is gone.
Drained ==
    /\ ~active /\ ~drained
    /\ \A t \in Threads : ~HoldsLease(t)
    /\ drained' = TRUE
    /\ UNCHANGED <<active, invoker, at, bufferVars, handleVars>>

-----------------------------------------------------------------------------
BufferStep(t) ==
    \/ CallBegin(t) \/ CallAnswered(t) \/ CallRefused(t) \/ CallReleases(t)
    \/ InvokeBegin(t) \/ OutputAllocated(t) \/ OutputWritten(t)
    \/ TakeOutput(t) \/ InvokeFails(t)

HandleStep(t) ==
    \/ RetainBegin(t) \/ Retained(t) \/ RetainRefused(t)
    \/ Released(t) \/ ReleaseFails(t)
    \/ \E o \in Objects : Adopt(t, o) \/ BorrowBegin(t, o) \/ DropHandle(t, o)

Next ==
    \/ \E t \in Threads : BufferStep(t) \/ HandleStep(t)
    \/ \E o \in Objects : HostTransfers(o)
    \/ Deactivate \/ Drained

Spec == Init /\ [][Next]_vars

-----------------------------------------------------------------------------
(* Properties.                                                             *)

Owned(t) == held[t] # Empty

\* Every buffer the plugin side owns is an allocation of the host's table,
\* with the capacity the host recorded, no two threads own the same one even
\* though addresses come back, and every allocation is owned by someone: no
\* use after release, no second release, no leak.  (Buffer ownership in
\* HostBuffer, HostCallbacks::allocate, release and take_output.)
BuffersHaveOneOwner ==
    /\ \A t \in Threads : Owned(t) =>
          /\ held[t].data # None
          /\ table[held[t].data] = held[t].capacity
          /\ held[t].len <= held[t].capacity
          /\ \A u \in Threads \ {t} : held[u].data # held[t].data
    /\ \A a \in Addresses \ Free : \E t \in Threads : held[t].data = a

\* When deactivate() has returned, the host may free its table and its
\* context: no buffer is allocated, no host call is in progress on any thread,
\* and none starts again, also from a borrow that had seen the context active.
\* (PluginContext::invoke, retain_handle, release_handle_for_drop.)
NothingOutstanding ==
    drained => /\ Free = Addresses
               /\ \A t \in Threads : ~Owned(t) /\ ~HoldsLease(t)

\* The launcher counts a reference for every ObjectHandle, for every reference
\* not adopted yet and for every release under way: no handle is used or
\* released after its last reference is gone.  While host calls are admitted
\* it counts no other, except one per counted cleanup failure: nothing leaks
\* silently before the shutdown.  (ObjectHandle::from_owned, from_borrowed,
\* drop.)
Releasing(o) == {t \in Threads : at[t] = "releasing" /\ on[t] = o}
Accounted(o) == wrappers[o] + loose[o] + Cardinality(Releasing(o))

ReferencesBalance ==
    \A o \in Objects :
        /\ Accounted(o) <= refs[o]
        /\ active => refs[o] <= Accounted(o) + failures
=============================================================================
