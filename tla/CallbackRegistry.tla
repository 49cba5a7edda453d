------------------------- MODULE CallbackRegistry -------------------------
(***************************************************************************)
(* Completion capabilities and futures (hmcl-plugin-sdk, future.rs).  A    *)
(* registry hands out pairs that share an entry; the entry ends exactly    *)
(* once, by complete(), by cancel() (or the drop of the future), or by     *)
(* close() when the context is deactivated.                                *)
(*                                                                         *)
(* There are two kinds of lock: the registry's and one per entry.  Every   *)
(* critical section of the registry lock is one action.  The entry lock is *)
(* kept across actions only by complete(), which takes the registry lock   *)
(* while it holds the entry's: a thread at "completing" holds it.          *)
(*                                                                         *)
(* complete() cancels when it cannot upgrade its weak registry; a pending  *)
(* entry has a living future, which owns the registry, so that branch has  *)
(* no state to run in and is left out.                                     *)
(***************************************************************************)
EXTENDS Naturals, FiniteSets

CONSTANTS
    Threads,
    Entries,      \* bound: the Arc<Entry> values pair() creates
    MaxPending,   \* MAX_PENDING_CALLBACKS
    MaxId,        \* u64::MAX of the callback identifiers
    None

ASSUME RegistryAssumption ==
    /\ MaxPending \in Nat /\ MaxId \in Nat \ {0}
    /\ MaxPending <= MaxId
    /\ None \notin Entries

VARIABLES
    closed,    \* RegistryState.closed
    nextId,    \* RegistryState.next_id
    entries,   \* RegistryState.entries: the entry at each identifier
    state,     \* Entry.state, "unborn" before pair() makes the entry
    id,        \* Callback.id and PluginFuture.id
    at,        \* where each thread is in a call
    on,        \* the entry that call is about
    drained,   \* entries close() took out and has still to cancel
    wins       \* how many calls were told that they ended the entry

registry == <<closed, nextId, entries>>
vars == <<closed, nextId, entries, state, id, at, on, drained, wins>>

Ids == 1..MaxId
Terminal == {"complete", "cancelled"}
Steps == {"idle", "completing", "removing", "closing", "asleep", "woken"}

TypeOK ==
    /\ closed \in BOOLEAN
    /\ nextId \in Ids
    /\ entries \in [Ids -> Entries \cup {None}]
    /\ state \in [Entries -> {"unborn", "pending"} \cup Terminal]
    /\ id \in [Entries -> Ids \cup {None}]
    /\ at \in [Threads -> Steps]
    /\ on \in [Threads -> Entries \cup {None}]
    /\ drained \subseteq Entries
    /\ wins \in [Entries -> Nat]

Init ==
    /\ closed = FALSE
    /\ nextId = 1
    /\ entries = [i \in Ids |-> None]
    /\ state = [e \in Entries |-> "unborn"]
    /\ id = [e \in Entries |-> None]
    /\ at = [t \in Threads |-> "idle"]
    /\ on = [t \in Threads |-> None]
    /\ drained = {}
    /\ wins = [e \in Entries |-> 0]

-----------------------------------------------------------------------------

Registered == {i \in Ids : entries[i] # None}
Unlocked(e) == \A t \in Threads : ~(at[t] = "completing" /\ on[t] = e)

\* The identifier k steps after i: successor() wraps to 1, never to 0.
Successor(i, k) == ((i - 1 + k) % MaxId) + 1

\* Mutant: the next identifier is taken without a look at who holds it.
TakeNextId(i) == i = nextId

\* vacant_id(): the first identifier from next_id on that no entry holds, at
\* most as far as there are entries to skip.
VacantId(i) ==
    \E k \in 0..Cardinality(Registered) :
        /\ i = Successor(nextId, k)
        /\ entries[i] = None
        /\ \A j \in 0..(k - 1) : entries[Successor(nextId, j)] # None

\* Mutant: a closed registry still hands out pairs.
PairWhenClosed(e) ==
    /\ state[e] = "unborn"
    /\ Cardinality(Registered) < MaxPending
    /\ \E i \in Ids :
        /\ VacantId(i)
        /\ entries' = [entries EXCEPT ![i] = e]
        /\ id' = [id EXCEPT ![e] = i]
        /\ nextId' = Successor(i, 1)
    /\ state' = [state EXCEPT ![e] = "pending"]
    /\ UNCHANGED <<closed, at, on, drained, wins>>

\* CallbackRegistry::pair.  Refused, with nothing changed, when the registry is
\* closed or full.
Pair(e) ==
    /\ state[e] = "unborn"
    /\ ~closed
    /\ Cardinality(Registered) < MaxPending
    /\ \E i \in Ids :
        /\ VacantId(i)
        /\ entries' = [entries EXCEPT ![i] = e]
        /\ id' = [id EXCEPT ![e] = i]
        /\ nextId' = Successor(i, 1)
    /\ state' = [state EXCEPT ![e] = "pending"]
    /\ UNCHANGED <<closed, at, on, drained, wins>>

\* Entry e ends as s, with notify_all() on its condition variable; thread t
\* goes on to `step`.
End(t, e, s, step) ==
    /\ state' = [state EXCEPT ![e] = s]
    /\ at' = [u \in Threads |->
                IF u = t THEN step
                ELSE IF at[u] = "asleep" /\ on[u] = e THEN "woken" ELSE at[u]]

Start(t, e, step) ==
    /\ at[t] = "idle"
    /\ at' = [at EXCEPT ![t] = step]
    /\ on' = [on EXCEPT ![t] = e]

\* Callback::complete finds the entry pending and keeps its lock; on an ended
\* entry it reports CallbackFailed or Cancelled and changes nothing.
CompleteBegin(t, e) ==
    /\ state[e] = "pending"
    /\ Unlocked(e)
    /\ Start(t, e, "completing")
    /\ UNCHANGED <<registry, state, id, drained, wins>>

\* With the registry lock as well, complete() looks whether the entry is still
\* registered, and ends it either way.
EndCompletion(t) ==
    /\ at[t] = "completing"
    /\ LET e == on[t] IN
        IF closed \/ entries[id[e]] # e
          THEN /\ End(t, e, "cancelled", "idle")
               /\ UNCHANGED <<entries, wins>>
          ELSE /\ End(t, e, "complete", "idle")
               /\ entries' = [entries EXCEPT ![id[e]] = None]
               /\ wins' = [wins EXCEPT ![e] = @ + 1]
    /\ UNCHANGED <<closed, nextId, id, on, drained>>

\* Mutant: close() keeps the registry lock while it cancels the entries.
CompleteBehindClose(t) ==
    (\A u \in Threads : at[u] # "closing") /\ EndCompletion(t)

Complete(t) == EndCompletion(t)

\* Mutant: cancel() overwrites an entry that has already ended.
CancelAnyway(t, e) ==
    /\ at[t] = "idle"
    /\ state[e] # "unborn"
    /\ Unlocked(e)
    /\ End(t, e, "cancelled", "removing")
    /\ on' = [on EXCEPT ![t] = e]
    /\ wins' = [wins EXCEPT ![e] = @ + 1]
    /\ UNCHANGED <<registry, id, drained>>

\* PluginFuture::cancel, and its Drop: the entry ends under its own lock ...
Cancel(t, e) ==
    /\ at[t] = "idle"
    /\ state[e] = "pending"
    /\ Unlocked(e)
    /\ End(t, e, "cancelled", "removing")
    /\ on' = [on EXCEPT ![t] = e]
    /\ wins' = [wins EXCEPT ![e] = @ + 1]
    /\ UNCHANGED <<registry, id, drained>>

\* ... and leaves the registry under the other one (CallbackRegistry::remove,
\* which takes out nothing but that very entry).
Remove(t) ==
    /\ at[t] = "removing"
    /\ entries' = IF entries[id[on[t]]] = on[t]
                    THEN [entries EXCEPT ![id[on[t]]] = None]
                    ELSE entries
    /\ at' = [at EXCEPT ![t] = "idle"]
    /\ UNCHANGED <<closed, nextId, state, id, on, drained, wins>>

\* CallbackRegistry::close, called once, by PluginContext::deactivate: the
\* entries leave the registry under its lock ...
CloseBegin(t) ==
    /\ ~closed
    /\ Start(t, None, "closing")
    /\ closed' = TRUE
    /\ drained' = {entries[i] : i \in Registered}
    /\ entries' = [i \in Ids |-> None]
    /\ UNCHANGED <<nextId, state, id, wins>>

\* Mutant: close() ends the entry but wakes nobody.
CancelDrainedSilently(t, e) ==
    /\ at[t] = "closing" /\ e \in drained
    /\ Unlocked(e)
    /\ state' = [state EXCEPT ![e] = IF @ = "pending" THEN "cancelled" ELSE @]
    /\ drained' = drained \ {e}
    /\ UNCHANGED <<registry, id, at, on, wins>>

\* ... and are cancelled one by one, each under its own, if still pending.
CancelDrained(t, e) ==
    /\ at[t] = "closing" /\ e \in drained
    /\ Unlocked(e)
    /\ IF state[e] = "pending"
         THEN End(t, e, "cancelled", "closing")
         ELSE UNCHANGED <<state, at>>
    /\ drained' = drained \ {e}
    /\ UNCHANGED <<registry, id, on, wins>>

CloseReturn(t) ==
    /\ at[t] = "closing" /\ drained = {}
    /\ at' = [at EXCEPT ![t] = "idle"]
    /\ UNCHANGED <<registry, state, id, on, drained, wins>>

\* PluginFuture::wait sleeps on a pending entry; on an ended one it returns
\* the result at once.
Wait(t, e) ==
    /\ state[e] = "pending"
    /\ Unlocked(e)
    /\ Start(t, e, "asleep")
    /\ UNCHANGED <<registry, state, id, drained, wins>>

SpuriousWake(t) ==
    /\ at[t] = "asleep"
    /\ at' = [at EXCEPT ![t] = "woken"]
    /\ UNCHANGED <<registry, state, id, on, drained, wins>>

\* The loop of wait(), once the entry lock is held again.
Woken(t) ==
    /\ at[t] = "woken"
    /\ Unlocked(on[t])
    /\ at' = [at EXCEPT ![t] = IF state[on[t]] = "pending" THEN "asleep" ELSE "idle"]
    /\ UNCHANGED <<registry, state, id, on, drained, wins>>

\* The steps of a call that has begun.
Advance(t) ==
    \/ Complete(t)
    \/ Remove(t)
    \/ CloseReturn(t)
    \/ \E e \in Entries : CancelDrained(t, e)
    \/ Woken(t)

Next ==
    \/ \E e \in Entries : Pair(e)
    \/ \E t \in Threads :
        \/ Advance(t)
        \/ CloseBegin(t)
        \/ SpuriousWake(t)
        \/ \E e \in Entries : CompleteBegin(t, e) \/ Cancel(t, e) \/ Wait(t, e)

Spec == Init /\ [][Next]_vars

\* Threads are scheduled and mutexes are granted; nobody has to complete,
\* cancel or close anything.
Fairness == \A t \in Threads : WF_vars(Advance(t))

FairSpec == Spec /\ Fairness

-----------------------------------------------------------------------------
(* Properties.                                                             *)

\* Of all the calls that race to end an entry at most one is told it did, and
\* none is before the entry has ended (complete, cancel).
OneWinner == \A e \in Entries :
    wins[e] <= 1 /\ (wins[e] = 1 => state[e] \in Terminal)

\* What a future once returned it returns for ever: complete, cancel and close
\* never overwrite a result.
ResultIsFinal == [][\A e \in Entries : state[e] \in Terminal => state'[e] = state[e]]_vars

\* A pending entry of an open registry is the one its identifier leads to, even
\* after identifiers have wrapped around: pair() never displaces a live entry.
PendingIsRegistered == \A e \in Entries :
    state[e] = "pending" /\ ~closed => entries[id[e]] = e

\* No entry outlives its context: when close() has finished none is pending,
\* and none can be created (close, pair, complete).
NothingPendingAfterClose ==
    closed /\ (\A t \in Threads : at[t] # "closing")
        => \A e \in Entries : state[e] # "pending"

\* Nobody sleeps on a future that has ended, and closing the registry ends
\* them all: after close() every wait() returns.
WaitsEnd == closed ~> (\A t \in Threads : at[t] \notin {"asleep", "woken"})

\* The two kinds of lock are never waited for in a circle: calls return.
CallsReturn == \A t \in Threads :
    at[t] \in {"completing", "removing", "closing"} ~> at[t] = "idle"
=============================================================================
