----------------------- MODULE CallbackRegistryProofs -----------------------
(***************************************************************************)
(* The safety of the callback registry, for any threads, any entries, any  *)
(* capacity and any range of identifiers above it.                         *)
(*                                                                         *)
(* None of the properties is inductive.  That an entry ends once depends   *)
(* on who may still end it: a completing thread has the entry pending and  *)
(* to itself.  That close() leaves nothing pending depends on every        *)
(* pending entry being found under its identifier, which in turn depends   *)
(* on a removing thread taking out an ended entry only.                    *)
(***************************************************************************)
EXTENDS CallbackRegistry, TLAPS

\* What the registry maps an identifier to has that identifier.
Indexed == \A i \in Ids : entries[i] # None =>
    id[entries[i]] = i /\ state[entries[i]] # "unborn"

Numbered == \A e \in Entries : state[e] # "unborn" => id[e] \in Ids

ClosedIsEmpty == closed => \A i \in Ids : entries[i] = None

\* What is pending in a closed registry is still to be cancelled by close().
PendingIsDrained == closed => \A e \in Entries : state[e] = "pending" => e \in drained

DrainedByCloser == drained # {} => \E t \in Threads : at[t] = "closing"

\* The entry of a call in progress: pending, and locked by no other thread, in
\* complete(); ended in remove().
CallsHoldEntries == \A t \in Threads :
    /\ at[t] \in {"asleep", "woken", "completing", "removing"} => on[t] \in Entries
    /\ at[t] = "completing" =>
          /\ state[on[t]] = "pending"
          /\ \A u \in Threads : at[u] = "completing" /\ on[u] = on[t] => u = t
    /\ at[t] = "removing" => state[on[t]] \in Terminal

RegistryInv ==
    /\ Indexed
    /\ Numbered
    /\ PendingIsRegistered
    /\ ClosedIsEmpty
    /\ PendingIsDrained

IInv ==
    /\ TypeOK
    /\ RegistryInv
    /\ DrainedByCloser
    /\ CallsHoldEntries
    /\ OneWinner

-----------------------------------------------------------------------------
(* Identifiers and ends of entries.                                        *)

\* successor() stays among the identifiers.
LEMMA SuccessorIsId ==
  ASSUME NEW i \in Ids
  PROVE  Successor(i, 1) \in Ids
<1>1. MaxId \in Nat /\ MaxId > 0
  BY RegistryAssumption DEF Ids
<1>2. (i - 1 + 1) % MaxId \in 0..(MaxId - 1)
  BY <1>1 DEF Ids
<1> QED
  BY <1>1, <1>2 DEF Successor, Ids

\* Ending an entry wakes the threads that sleep on it and touches no other.
LEMMA EndSteps ==
  ASSUME TypeOK, NEW t \in Threads, NEW e \in Entries,
         NEW s \in Terminal, NEW step \in Steps, End(t, e, s, step)
  PROVE  /\ state' \in [Entries -> {"unborn", "pending"} \cup Terminal]
         /\ at' \in [Threads -> Steps]
         /\ state'[e] = s /\ \A f \in Entries \ {e} : state'[f] = state[f]
         /\ at'[t] = step
         /\ \A u \in Threads \ {t} :
               at'[u] = at[u] \/ (at[u] = "asleep" /\ at'[u] = "woken")
<1>1. state' = [state EXCEPT ![e] = s]
  BY DEF End
<1>2. at' = [u \in Threads |->
               IF u = t THEN step
               ELSE IF at[u] = "asleep" /\ on[u] = e THEN "woken" ELSE at[u]]
  BY DEF End
<1>3. at \in [Threads -> Steps] /\ "woken" \in Steps
  BY DEF TypeOK, Steps
<1>4. state \in [Entries -> {"unborn", "pending"} \cup Terminal]
  BY DEF TypeOK
<1> QED
  BY <1>1, <1>2, <1>3, <1>4

-----------------------------------------------------------------------------
(* The inductive invariant.                                                *)

\* It holds of the initial state.
LEMMA InitIInv == Init => IInv
<1> SUFFICES ASSUME Init PROVE IInv
  OBVIOUS
<1>1. 1 \in Ids
  BY RegistryAssumption DEF Ids
<1>2. TypeOK
  BY <1>1 DEF Init, TypeOK, Steps
<1>3. RegistryInv
  BY RegistryAssumption
  DEF Init, RegistryInv, Indexed, Numbered, PendingIsRegistered, ClosedIsEmpty,
      PendingIsDrained
<1> QED
  BY <1>2, <1>3 DEF Init, IInv, DrainedByCloser, CallsHoldEntries, OneWinner

\* pair(): the identifier was vacant, so no pending entry loses its own.
LEMMA PairKeeps ==
  ASSUME IInv, NEW e \in Entries, Pair(e)
  PROVE  IInv'
<1> USE DEF IInv
<1>1. PICK i \in Ids : /\ entries[i] = None
                       /\ entries' = [entries EXCEPT ![i] = e]
                       /\ id' = [id EXCEPT ![e] = i]
                       /\ nextId' = Successor(i, 1)
  BY DEF Pair, VacantId
<1>2. /\ state[e] = "unborn" /\ ~closed
      /\ state' = [state EXCEPT ![e] = "pending"]
      /\ UNCHANGED <<closed, at, on, drained, wins>>
  BY DEF Pair
<1>3. TypeOK'
  BY <1>1, <1>2, SuccessorIsId DEF TypeOK
<1>4. Indexed' /\ Numbered'
  BY <1>1, <1>2, RegistryAssumption DEF RegistryInv, Indexed, Numbered, TypeOK
<1>5. PendingIsRegistered'
  BY <1>1, <1>2, RegistryAssumption
  DEF RegistryInv, Indexed, Numbered, PendingIsRegistered, TypeOK
<1>6. ClosedIsEmpty' /\ PendingIsDrained' /\ DrainedByCloser'
  BY <1>2 DEF ClosedIsEmpty, PendingIsDrained, DrainedByCloser
<1>7. CallsHoldEntries'
  BY <1>2 DEF CallsHoldEntries, TypeOK, Terminal
<1>8. OneWinner'
  BY <1>2 DEF OneWinner, TypeOK, Terminal
<1> QED
  BY <1>3, <1>4, <1>5, <1>6, <1>7, <1>8 DEF RegistryInv

\* complete() begins on a pending entry that no other thread has locked.
LEMMA CompleteBeginKeeps ==
  ASSUME IInv, NEW t \in Threads, NEW e \in Entries, CompleteBegin(t, e)
  PROVE  IInv'
<1> USE DEF IInv
<1>1. /\ state[e] = "pending" /\ Unlocked(e) /\ at[t] = "idle"
      /\ at' = [at EXCEPT ![t] = "completing"] /\ on' = [on EXCEPT ![t] = e]
      /\ UNCHANGED <<closed, nextId, entries, state, id, drained, wins>>
  BY DEF CompleteBegin, Start, registry
<1>2. TypeOK'
  BY <1>1 DEF TypeOK, Steps
<1>3. RegistryInv' /\ OneWinner'
  BY <1>1 DEF RegistryInv, Indexed, Numbered, PendingIsRegistered,
              ClosedIsEmpty, PendingIsDrained, OneWinner
<1>4. DrainedByCloser'
  BY <1>1 DEF DrainedByCloser, TypeOK
<1>5. CallsHoldEntries'
  BY <1>1 DEF CallsHoldEntries, Unlocked, TypeOK
<1> QED
  BY <1>2, <1>3, <1>4, <1>5

\* complete() ends an entry that is pending and its own.
LEMMA CompleteKeeps ==
  ASSUME IInv, NEW t \in Threads, Complete(t)
  PROVE  IInv'
<1> USE DEF IInv
<1> DEFINE e == on[t]
<1>1. /\ at[t] = "completing" /\ e \in Entries /\ state[e] = "pending"
      /\ \A u \in Threads : at[u] = "completing" /\ on[u] = e => u = t
      /\ id[e] \in Ids /\ wins[e] = 0
  <2>1. at[t] = "completing"
    BY DEF Complete, EndCompletion
  <2>2. /\ e \in Entries /\ state[e] = "pending"
        /\ \A u \in Threads : at[u] = "completing" /\ on[u] = e => u = t
    BY <2>1 DEF CallsHoldEntries
  <2>3. id[e] \in Ids /\ wins[e] = 0
    BY <2>2 DEF RegistryInv, Numbered, OneWinner, TypeOK, Terminal
  <2> QED
    BY <2>1, <2>2, <2>3
<1>2. PICK s \in Terminal : End(t, e, s, "idle")
  BY DEF Complete, EndCompletion, Terminal
<1>3. /\ state' \in [Entries -> {"unborn", "pending"} \cup Terminal]
      /\ at' \in [Threads -> Steps]
      /\ state'[e] = s /\ \A f \in Entries \ {e} : state'[f] = state[f]
      /\ at'[t] = "idle"
      /\ \A u \in Threads \ {t} :
            at'[u] = at[u] \/ (at[u] = "asleep" /\ at'[u] = "woken")
  BY <1>1, <1>2, EndSteps DEF Steps
<1>4. UNCHANGED <<closed, nextId, id, on, drained>>
  BY DEF Complete, EndCompletion
<1>5. \/ /\ closed \/ entries[id[e]] # e
         /\ UNCHANGED <<entries, wins>>
      \/ /\ ~closed /\ entries[id[e]] = e
         /\ entries' = [entries EXCEPT ![id[e]] = None]
         /\ wins' = [wins EXCEPT ![e] = @ + 1]
  BY DEF Complete, EndCompletion
<1>6. TypeOK'
  BY <1>1, <1>3, <1>4, <1>5 DEF TypeOK
<1>7. Indexed' /\ Numbered'
  BY <1>1, <1>3, <1>4, <1>5, RegistryAssumption
  DEF RegistryInv, Indexed, Numbered, TypeOK, Terminal
<1>8. PendingIsRegistered'
  BY <1>1, <1>3, <1>4, <1>5, RegistryAssumption
  DEF RegistryInv, PendingIsRegistered, Numbered, TypeOK, Terminal
<1>9. ClosedIsEmpty' /\ PendingIsDrained'
  BY <1>1, <1>3, <1>4, <1>5
  DEF RegistryInv, ClosedIsEmpty, PendingIsDrained, TypeOK, Terminal
<1>10. DrainedByCloser'
  BY <1>1, <1>3, <1>4 DEF DrainedByCloser
<1>11. CallsHoldEntries'
  BY <1>1, <1>3, <1>4 DEF CallsHoldEntries
<1>12. OneWinner'
  BY <1>1, <1>3, <1>4, <1>5 DEF OneWinner, TypeOK, Terminal
<1> QED
  BY <1>6, <1>7, <1>8, <1>9, <1>10, <1>11, <1>12 DEF RegistryInv

\* cancel() ends a pending entry that nobody has locked, and has still to take
\* it out of the registry.
LEMMA CancelKeeps ==
  ASSUME IInv, NEW t \in Threads, NEW e \in Entries, Cancel(t, e)
  PROVE  IInv'
<1> USE DEF IInv
<1>1. /\ at[t] = "idle" /\ state[e] = "pending" /\ Unlocked(e)
      /\ End(t, e, "cancelled", "removing")
      /\ on' = [on EXCEPT ![t] = e] /\ wins' = [wins EXCEPT ![e] = @ + 1]
      /\ UNCHANGED <<closed, nextId, entries, id, drained>>
  BY DEF Cancel, registry
<1>2. /\ state' \in [Entries -> {"unborn", "pending"} \cup Terminal]
      /\ at' \in [Threads -> Steps]
      /\ state'[e] = "cancelled" /\ \A f \in Entries \ {e} : state'[f] = state[f]
      /\ at'[t] = "removing"
      /\ \A u \in Threads \ {t} :
            at'[u] = at[u] \/ (at[u] = "asleep" /\ at'[u] = "woken")
  BY <1>1, EndSteps DEF Steps, Terminal
<1>3. TypeOK'
  <2>1. on' \in [Threads -> Entries \cup {None}] /\ wins' \in [Entries -> Nat]
    BY <1>1 DEF TypeOK
  <2> QED
    BY <1>1, <1>2, <2>1 DEF TypeOK
<1>4. RegistryInv'
  BY <1>1, <1>2, RegistryAssumption
  DEF RegistryInv, Indexed, Numbered, PendingIsRegistered, ClosedIsEmpty,
      PendingIsDrained, TypeOK, Terminal
<1>5. DrainedByCloser'
  BY <1>1, <1>2 DEF DrainedByCloser
<1>6. CallsHoldEntries'
  <2>1. on' \in [Threads -> Entries \cup {None}] /\ on'[t] = e
        /\ \A u \in Threads \ {t} : on'[u] = on[u]
    BY <1>1 DEF TypeOK
  <2> QED
    BY <1>1, <1>2, <2>1 DEF CallsHoldEntries, Unlocked, Terminal
<1>7. OneWinner'
  BY <1>1, <1>2 DEF OneWinner, TypeOK, Terminal
<1> QED
  BY <1>3, <1>4, <1>5, <1>6, <1>7

\* remove() takes out an entry that has ended.
LEMMA RemoveKeeps ==
  ASSUME IInv, NEW t \in Threads, Remove(t)
  PROVE  IInv'
<1> USE DEF IInv
<1>1. /\ at[t] = "removing" /\ at' = [at EXCEPT ![t] = "idle"]
      /\ UNCHANGED <<closed, nextId, state, id, on, drained, wins>>
  BY DEF Remove
<1>2. \A i \in Ids : \/ entries'[i] = entries[i]
                     \/ entries[i] = on[t] /\ entries'[i] = None
  BY DEF Remove, TypeOK
<1>3. on[t] \in Entries /\ state[on[t]] \in Terminal
  BY <1>1 DEF CallsHoldEntries
<1>4. entries' \in [Ids -> Entries \cup {None}]
  BY DEF Remove, TypeOK
<1>5. TypeOK'
  BY <1>1, <1>4 DEF TypeOK, Steps
<1>6. Indexed' /\ Numbered'
  BY <1>1, <1>2, RegistryAssumption DEF RegistryInv, Indexed, Numbered
<1>7. PendingIsRegistered'
  BY <1>1, <1>2, <1>3 DEF RegistryInv, PendingIsRegistered, Numbered, Terminal
<1>8. ClosedIsEmpty' /\ PendingIsDrained'
  BY <1>1, <1>2 DEF RegistryInv, ClosedIsEmpty, PendingIsDrained
<1>9. DrainedByCloser' /\ CallsHoldEntries' /\ OneWinner'
  BY <1>1 DEF DrainedByCloser, CallsHoldEntries, OneWinner, TypeOK
<1> QED
  BY <1>5, <1>6, <1>7, <1>8, <1>9 DEF RegistryInv

\* close() takes every pending entry along, as each is under its identifier.
LEMMA CloseBeginKeeps ==
  ASSUME IInv, NEW t \in Threads, CloseBegin(t)
  PROVE  IInv'
<1> USE DEF IInv
<1>1. /\ ~closed /\ closed' = TRUE /\ at[t] = "idle"
      /\ at' = [at EXCEPT ![t] = "closing"] /\ on' = [on EXCEPT ![t] = None]
      /\ drained' = {entries[i] : i \in Registered}
      /\ entries' = [i \in Ids |-> None]
      /\ UNCHANGED <<nextId, state, id, wins>>
  BY DEF CloseBegin, Start
<1>2. TypeOK'
  <2>1. drained' \subseteq Entries
    BY <1>1 DEF TypeOK, Registered
  <2> QED
    BY <1>1, <2>1 DEF TypeOK, Steps
<1>3. Indexed' /\ Numbered' /\ PendingIsRegistered' /\ ClosedIsEmpty'
  BY <1>1 DEF RegistryInv, Indexed, Numbered, PendingIsRegistered, ClosedIsEmpty
<1>4. PendingIsDrained'
  <2> SUFFICES ASSUME NEW e \in Entries, state[e] = "pending"
               PROVE  e \in drained'
    BY <1>1 DEF PendingIsDrained
  <2>1. id[e] \in Ids /\ entries[id[e]] = e /\ e # None
    BY <1>1, RegistryAssumption DEF RegistryInv, Numbered, PendingIsRegistered
  <2> QED
    BY <1>1, <2>1 DEF Registered
<1>5. DrainedByCloser' /\ CallsHoldEntries' /\ OneWinner'
  BY <1>1 DEF DrainedByCloser, CallsHoldEntries, OneWinner, TypeOK
<1> QED
  BY <1>2, <1>3, <1>4, <1>5 DEF RegistryInv

\* close() cancels one of the entries it took out.
LEMMA CancelDrainedKeeps ==
  ASSUME IInv, NEW t \in Threads, NEW e \in Entries, CancelDrained(t, e)
  PROVE  IInv'
<1> USE DEF IInv
<1>1. /\ at[t] = "closing" /\ Unlocked(e) /\ drained' = drained \ {e}
      /\ UNCHANGED <<closed, nextId, entries, id, on, wins>>
  BY DEF CancelDrained, registry
<1>2. CASE state[e] = "pending"
  <2>1. End(t, e, "cancelled", "closing")
    BY <1>2 DEF CancelDrained
  <2>2. /\ state' \in [Entries -> {"unborn", "pending"} \cup Terminal]
        /\ at' \in [Threads -> Steps]
        /\ state'[e] = "cancelled" /\ \A f \in Entries \ {e} : state'[f] = state[f]
        /\ at'[t] = "closing"
        /\ \A u \in Threads \ {t} :
              at'[u] = at[u] \/ (at[u] = "asleep" /\ at'[u] = "woken")
    BY <2>1, EndSteps DEF Steps, Terminal
  <2>3. TypeOK'
    BY <1>1, <2>2 DEF TypeOK
  <2>4. RegistryInv'
    BY <1>1, <1>2, <2>2, RegistryAssumption
    DEF RegistryInv, Indexed, Numbered, PendingIsRegistered, ClosedIsEmpty,
        PendingIsDrained, TypeOK, Terminal
  <2>5. DrainedByCloser'
    BY <2>2 DEF DrainedByCloser
  <2>6. CallsHoldEntries'
    BY <1>1, <1>2, <2>2 DEF CallsHoldEntries, Unlocked, Terminal
  <2>7. OneWinner'
    BY <1>1, <1>2, <2>2 DEF OneWinner, TypeOK, Terminal
  <2> QED
    BY <2>3, <2>4, <2>5, <2>6, <2>7
<1>3. CASE state[e] # "pending"
  <2>1. UNCHANGED <<state, at>>
    BY <1>3 DEF CancelDrained
  <2>2. TypeOK' /\ OneWinner' /\ CallsHoldEntries' /\ DrainedByCloser'
    BY <1>1, <2>1 DEF TypeOK, OneWinner, CallsHoldEntries, DrainedByCloser
  <2>3. RegistryInv'
    BY <1>1, <1>3, <2>1
    DEF RegistryInv, Indexed, Numbered, PendingIsRegistered, ClosedIsEmpty,
        PendingIsDrained
  <2> QED
    BY <2>2, <2>3
<1> QED
  BY <1>2, <1>3

\* Steps that move one thread, which is in none of complete() and remove()
\* afterwards, and change nothing else but the entry it waits for.
LEMMA MoveKeeps ==
  ASSUME IInv, NEW t \in Threads, NEW step \in {"idle", "asleep", "woken"},
         at' = [at EXCEPT ![t] = step],
         on' \in [Threads -> Entries \cup {None}],
         \A u \in Threads \ {t} : on'[u] = on[u],
         step # "idle" => on'[t] \in Entries,
         at[t] = "closing" => drained = {},
         UNCHANGED <<closed, nextId, entries, state, id, drained, wins>>
  PROVE  IInv'
<1> USE DEF IInv
<1>1. TypeOK'
  BY DEF TypeOK, Steps
<1>2. RegistryInv' /\ OneWinner'
  BY DEF RegistryInv, Indexed, Numbered, PendingIsRegistered, ClosedIsEmpty,
         PendingIsDrained, OneWinner
<1>3. DrainedByCloser'
  BY DEF DrainedByCloser, TypeOK
<1>4. CallsHoldEntries'
  BY DEF CallsHoldEntries, TypeOK
<1> QED
  BY <1>1, <1>2, <1>3, <1>4

\* Every step preserves the inductive invariant.
LEMMA NextKeeps == IInv /\ [Next]_vars => IInv'
<1> SUFFICES ASSUME IInv, [Next]_vars PROVE IInv'
  OBVIOUS
<1>0. /\ on \in [Threads -> Entries \cup {None}]
      /\ \A t \in Threads : at[t] \in {"asleep", "woken"} => on[t] \in Entries
  BY DEF IInv, TypeOK, CallsHoldEntries
<1>1. ASSUME NEW e \in Entries, Pair(e) PROVE IInv'
  BY <1>1, PairKeeps
<1>2. ASSUME NEW t \in Threads, Complete(t) PROVE IInv'
  BY <1>2, CompleteKeeps
<1>3. ASSUME NEW t \in Threads, Remove(t) PROVE IInv'
  BY <1>3, RemoveKeeps
<1>4. ASSUME NEW t \in Threads, CloseReturn(t) PROVE IInv'
  BY <1>0, <1>4, MoveKeeps DEF CloseReturn, registry
<1>5. ASSUME NEW t \in Threads, NEW e \in Entries, CancelDrained(t, e) PROVE IInv'
  BY <1>5, CancelDrainedKeeps
<1>6. ASSUME NEW t \in Threads, Woken(t) PROVE IInv'
  <2>1. CASE state[on[t]] = "pending"
    BY <1>0, <1>6, <2>1, MoveKeeps DEF Woken, registry
  <2>2. CASE state[on[t]] # "pending"
    BY <1>0, <1>6, <2>2, MoveKeeps DEF Woken, registry
  <2> QED
    BY <2>1, <2>2
<1>7. ASSUME NEW t \in Threads, CloseBegin(t) PROVE IInv'
  BY <1>7, CloseBeginKeeps
<1>8. ASSUME NEW t \in Threads, SpuriousWake(t) PROVE IInv'
  BY <1>0, <1>8, MoveKeeps DEF SpuriousWake, registry
<1>9. ASSUME NEW t \in Threads, NEW e \in Entries, CompleteBegin(t, e) PROVE IInv'
  BY <1>9, CompleteBeginKeeps
<1>10. ASSUME NEW t \in Threads, NEW e \in Entries, Cancel(t, e) PROVE IInv'
  BY <1>10, CancelKeeps
<1>11. ASSUME NEW t \in Threads, NEW e \in Entries, Wait(t, e) PROVE IInv'
  BY <1>0, <1>11, MoveKeeps DEF Wait, Start, registry
<1>12. CASE UNCHANGED vars
  BY <1>12
  DEF vars, IInv, TypeOK, RegistryInv, Indexed, Numbered, PendingIsRegistered,
      ClosedIsEmpty, PendingIsDrained, DrainedByCloser, CallsHoldEntries, OneWinner
<1> QED
  BY <1>1, <1>2, <1>3, <1>4, <1>5, <1>6, <1>7, <1>8, <1>9, <1>10, <1>11, <1>12
  DEF Next, Advance

\* The inductive invariant holds of every reachable state.
LEMMA Invariant == Spec => []IInv
  BY InitIInv, NextKeeps, PTL DEF Spec

-----------------------------------------------------------------------------
(* The results.                                                            *)

\* Identifiers stay in range: the counter wraps and never hands out zero.
THEOREM TypeCorrect == Spec => []TypeOK
<1>1. IInv => TypeOK
  BY DEF IInv
<1> QED
  BY <1>1, Invariant, PTL

\* Of the calls that race to end an entry at most one wins.
THEOREM AtMostOneWinner == Spec => []OneWinner
<1>1. IInv => OneWinner
  BY DEF IInv
<1> QED
  BY <1>1, Invariant, PTL

\* pair() never displaces a live entry, however often identifiers wrap.
THEOREM PendingFound == Spec => []PendingIsRegistered
<1>1. IInv => PendingIsRegistered
  BY DEF IInv, RegistryInv
<1> QED
  BY <1>1, Invariant, PTL

\* When close() has finished nothing is pending, and nothing ever will be.
THEOREM CloseEndsAll == Spec => []NothingPendingAfterClose
<1>1. IInv => NothingPendingAfterClose
  BY DEF IInv, RegistryInv, PendingIsDrained, DrainedByCloser, NothingPendingAfterClose
<1> QED
  BY <1>1, Invariant, PTL

\* No call ever changes the result of an entry that has ended.
THEOREM ResultsAreFinal == Spec => ResultIsFinal
<1>1. IInv /\ [Next]_vars
        => [\A e \in Entries : state[e] \in Terminal => state'[e] = state[e]]_vars
  <2> SUFFICES ASSUME IInv, [Next]_vars, NEW f \in Entries, state[f] \in Terminal
               PROVE  state'[f] = state[f]
    OBVIOUS
  <2>0. TypeOK /\ CallsHoldEntries /\ state[f] # "pending" /\ state[f] # "unborn"
    BY DEF IInv, Terminal
  <2>1. ASSUME NEW e \in Entries, Pair(e) PROVE state'[f] = state[f]
    BY <2>0, <2>1 DEF Pair, TypeOK
  <2>2. ASSUME NEW t \in Threads, Complete(t) PROVE state'[f] = state[f]
    <3>1. on[t] \in Entries \ {f}
      BY <2>0, <2>2 DEF Complete, EndCompletion, CallsHoldEntries
    <3> QED
      BY <2>0, <2>2, <3>1 DEF Complete, EndCompletion, End, TypeOK
  <2>3. ASSUME NEW t \in Threads, NEW e \in Entries, Cancel(t, e)
        PROVE  state'[f] = state[f]
    BY <2>0, <2>3 DEF Cancel, End, TypeOK
  <2>4. ASSUME NEW t \in Threads, NEW e \in Entries, CancelDrained(t, e)
        PROVE  state'[f] = state[f]
    BY <2>0, <2>4 DEF CancelDrained, End, TypeOK
  <2>5. ASSUME UNCHANGED state PROVE state'[f] = state[f]
    BY <2>5
  <2> QED
    BY <2>1, <2>2, <2>3, <2>4, <2>5
    DEF Next, Advance, Remove, CloseReturn, Woken, CloseBegin, SpuriousWake,
        CompleteBegin, Wait, vars
<1> QED
  BY <1>1, Invariant, PTL DEF Spec, ResultIsFinal
=============================================================================
