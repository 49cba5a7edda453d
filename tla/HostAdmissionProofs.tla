------------------------ MODULE HostAdmissionProofs ------------------------
(***************************************************************************)
(* The safety of the host admission gate, for any finite set of threads,   *)
(* any nesting of host calls and any width of the counter.                 *)
(*                                                                         *)
(* TypeOK is not inductive: that in_flight never goes below zero when a    *)
(* lease is dropped depends on the counter being exactly the number of     *)
(* leases, which in turn makes the deactivating thread's test for zero     *)
(* mean that no lease is left.  IInv ties these together.                  *)
(***************************************************************************)
EXTENDS HostAdmission, FiniteSetTheorems, TLAPS

\* Admission is closed before any thread waits for the leases to drain.
DrainersClosed == \A t \in Threads : drain[t] # "idle" => ~active

IInv ==
    /\ TypeOK
    /\ CountIsExact
    /\ DrainersClosed
    /\ QuiescentForever
    /\ NoLostWakeup

Depths == [Threads -> 0..MaxDepth]

-----------------------------------------------------------------------------
(* The set of leases and its cardinality.                                  *)

\* There are finitely many leases.
LEMMA LeasesFinite ==
  ASSUME NEW d \in Depths
  PROVE  IsFiniteSet(LeasesOf(d))
<1>1. IsFiniteSet(1..MaxDepth)
  BY FS_Interval, MaxDepthAssumption
<1>2. IsFiniteSet(Threads \X (1..MaxDepth))
  BY <1>1, FS_Product, ThreadsAssumption
<1> QED
  BY <1>2, FS_Subset DEF LeasesOf

\* There is no lease exactly when their number is zero, and then no thread is
\* inside a host call.
LEMMA ZeroMeansNoLease ==
  ASSUME NEW d \in Depths
  PROVE  /\ Cardinality(LeasesOf(d)) = 0 <=> LeasesOf(d) = {}
         /\ LeasesOf(d) = {} <=> \A t \in Threads : d[t] = 0
<1>1. Cardinality(LeasesOf(d)) = 0 <=> LeasesOf(d) = {}
  BY LeasesFinite, FS_EmptySet
<1>2. ASSUME NEW t \in Threads, d[t] # 0
      PROVE  <<t, 1>> \in LeasesOf(d)
  BY <1>2, MaxDepthAssumption DEF Depths, LeasesOf
<1>3. ASSUME \A t \in Threads : d[t] = 0
      PROVE  LeasesOf(d) = {}
  BY <1>3, MaxDepthAssumption DEF LeasesOf
<1> QED
  BY <1>1, <1>2, <1>3

\* One more level of nesting on one thread is one more lease.
LEMMA DeeperAddsOne ==
  ASSUME NEW d \in Depths, NEW t \in Threads, d[t] < MaxDepth
  PROVE  Cardinality(LeasesOf([d EXCEPT ![t] = @ + 1]))
           = Cardinality(LeasesOf(d)) + 1
<1> DEFINE l == <<t, d[t] + 1>>
<1>1. l \notin LeasesOf(d)
  BY DEF Depths, LeasesOf
<1>2. LeasesOf([d EXCEPT ![t] = @ + 1]) = LeasesOf(d) \cup {l}
  BY MaxDepthAssumption DEF Depths, LeasesOf
<1> QED
  BY <1>1, <1>2, LeasesFinite, FS_AddElement

\* One level less is one lease less.
LEMMA ShallowerRemovesOne ==
  ASSUME NEW d \in Depths, NEW t \in Threads, d[t] > 0
  PROVE  Cardinality(LeasesOf([d EXCEPT ![t] = @ - 1]))
           = Cardinality(LeasesOf(d)) - 1
<1> DEFINE l == <<t, d[t]>>
<1>1. l \in LeasesOf(d)
  BY DEF Depths, LeasesOf
<1>2. LeasesOf([d EXCEPT ![t] = @ - 1]) = LeasesOf(d) \ {l}
  BY MaxDepthAssumption DEF Depths, LeasesOf
<1> QED
  BY <1>1, <1>2, LeasesFinite, FS_RemoveElement

-----------------------------------------------------------------------------
(* The inductive invariant.                                                *)

\* It holds of the initial state.
LEMMA InitIInv == Init => IInv
<1> SUFFICES ASSUME Init PROVE IInv
  OBVIOUS
<1>1. TypeOK
  <2>1. inFlight \in 0..MaxInFlight
    BY MaxInFlightAssumption DEF Init
  <2>2. 0 \in 0..MaxDepth
    BY MaxDepthAssumption
  <2>3. depth \in [Threads -> 0..MaxDepth]
    BY <2>2 DEF Init
  <2>4. active \in BOOLEAN /\ drained \in BOOLEAN /\ drain \in [Threads -> DrainSteps]
    BY DEF Init, DrainSteps
  <2> QED
    BY <2>1, <2>3, <2>4 DEF TypeOK
<1>2. Leases = {}
  BY ZeroMeansNoLease, <1>1 DEF Init, Leases, TypeOK, Depths
<1>3. CountIsExact
  BY <1>2, FS_EmptySet DEF Init, CountIsExact
<1> QED
  BY <1>1, <1>2, <1>3
  DEF Init, IInv, DrainersClosed, QuiescentForever, NoLostWakeup

\* lease(): a thread admitted after admission closed was inside a host call
\* already, so nobody has returned from deactivate() yet.
LEMMA LeaseKeeps ==
  ASSUME IInv, NEW t \in Threads, Lease(t)
  PROVE  IInv'
<1> USE DEF IInv
<1>1. TypeOK'
  BY MaxDepthAssumption, MaxInFlightAssumption DEF TypeOK, Lease
<1>2. CountIsExact'
  BY DeeperAddsOne DEF TypeOK, Depths, CountIsExact, Leases, Lease
<1>3. DrainersClosed'
  BY DEF DrainersClosed, Lease
<1>4. ~drained
  BY ZeroMeansNoLease DEF TypeOK, Depths, QuiescentForever, Leases, Lease, Admitted
<1>5. QuiescentForever'
  BY <1>4 DEF QuiescentForever, Lease
<1>6. Leases' # {}
  <2>1. depth' \in Depths
    BY <1>1 DEF TypeOK, Depths
  <2>2. depth'[t] # 0
    BY DEF TypeOK, Lease
  <2> QED
    BY <2>1, <2>2, ZeroMeansNoLease DEF Leases
<1> QED
  BY <1>1, <1>2, <1>3, <1>5, <1>6 DEF NoLostWakeup

\* Drop for HostLease: the last lease leaves no thread asleep.
LEMMA DropLeaseKeeps ==
  ASSUME IInv, NEW t \in Threads, DropLease(t)
  PROVE  IInv'
<1> USE DEF IInv
<1>1. depth \in Depths /\ depth' \in Depths /\ depth[t] > 0
  BY MaxDepthAssumption DEF TypeOK, Depths, DropLease
<1>2. CountIsExact'
  BY <1>1, ShallowerRemovesOne DEF CountIsExact, Leases, DropLease
<1>3. inFlight > 0
  BY <1>1, ZeroMeansNoLease DEF TypeOK, CountIsExact, Leases
<1>4. TypeOK'
  BY <1>1, <1>3, MaxInFlightAssumption DEF TypeOK, Depths, DropLease, Notify, DrainSteps
<1>5. DrainersClosed'
  BY DEF DrainersClosed, DropLease, Notify, TypeOK
<1>6. QuiescentForever'
  BY <1>1, ZeroMeansNoLease DEF QuiescentForever, Leases, DropLease
<1>7. NoLostWakeup'
  <2>1. CASE inFlight' = 0
    BY <2>1 DEF NoLostWakeup, DropLease, Notify, TypeOK
  <2>2. CASE inFlight' # 0
    BY <1>1, <1>2, <2>2, ZeroMeansNoLease DEF NoLostWakeup, CountIsExact, Leases
  <2> QED
    BY <2>1, <2>2
<1> QED
  BY <1>2, <1>4, <1>5, <1>6, <1>7

\* The wait loop of deactivate(): it returns only when no lease is left and
\* sleeps only while there is one.
LEMMA TestCountKeeps ==
  ASSUME IInv, NEW t \in Threads, TestCount(t), active' = FALSE,
         UNCHANGED <<inFlight, depth>>
  PROVE  IInv'
<1> USE DEF IInv
<1>1. depth \in Depths
  BY DEF TypeOK, Depths
<1>2. TypeOK' /\ CountIsExact' /\ DrainersClosed'
  BY DEF TypeOK, DrainSteps, CountIsExact, Leases, DrainersClosed, TestCount
<1>3. inFlight = 0 <=> Leases = {}
  BY <1>1, ZeroMeansNoLease DEF CountIsExact, Leases
<1>4. QuiescentForever'
  BY <1>3 DEF QuiescentForever, Leases, TestCount
<1>5. NoLostWakeup'
  BY <1>3 DEF NoLostWakeup, Leases, TestCount, TypeOK
<1> QED
  BY <1>2, <1>4, <1>5

\* Every step preserves the inductive invariant.
LEMMA NextKeeps == IInv /\ [Next]_vars => IInv'
<1> SUFFICES ASSUME IInv, [Next]_vars PROVE IInv'
  OBVIOUS
<1>1. ASSUME NEW t \in Threads, Lease(t) PROVE IInv'
  BY <1>1, LeaseKeeps
<1>2. ASSUME NEW t \in Threads, DropLease(t) PROVE IInv'
  BY <1>2, DropLeaseKeeps
<1>3. ASSUME NEW t \in Threads, Deactivate(t) PROVE IInv'
  BY <1>3, TestCountKeeps DEF Deactivate
<1>4. ASSUME NEW t \in Threads, Recheck(t) PROVE IInv'
  <2>1. active' = FALSE
    BY <1>4 DEF IInv, TypeOK, DrainersClosed, Recheck
  <2> QED
    BY <1>4, <2>1, TestCountKeeps DEF Recheck
<1>5. ASSUME NEW t \in Threads, SpuriousWake(t) PROVE IInv'
  BY <1>5
  DEF SpuriousWake, IInv, TypeOK, DrainSteps, CountIsExact, Leases,
      DrainersClosed, QuiescentForever, NoLostWakeup
<1>6. CASE UNCHANGED vars
  BY <1>6
  DEF vars, IInv, TypeOK, CountIsExact, Leases, DrainersClosed,
      QuiescentForever, NoLostWakeup
<1> QED
  BY <1>1, <1>2, <1>3, <1>4, <1>5, <1>6 DEF Next

\* The inductive invariant holds of every reachable state.
LEMMA Invariant == Spec => []IInv
  BY InitIInv, NextKeeps, PTL DEF Spec

-----------------------------------------------------------------------------
(* The results.                                                            *)

\* The counter stays within its width and never underflows.
THEOREM TypeCorrect == Spec => []TypeOK
<1>1. IInv => TypeOK
  BY DEF IInv
<1> QED
  BY <1>1, Invariant, PTL

\* The counter deactivate() waits on is the number of host calls in flight.
THEOREM CountExact == Spec => []CountIsExact
<1>1. IInv => CountIsExact
  BY DEF IInv
<1> QED
  BY <1>1, Invariant, PTL

\* When deactivate() has returned no thread is, or ever again will be, inside
\* a host call: the host may free its callback table.
THEOREM Quiescence == Spec => []QuiescentForever
<1>1. IInv => QuiescentForever
  BY DEF IInv
<1> QED
  BY <1>1, Invariant, PTL

\* A thread asleep in deactivate() has a lease whose drop will wake it.
THEOREM WakeupNotLost == Spec => []NoLostWakeup
<1>1. IInv => NoLostWakeup
  BY DEF IInv
<1> QED
  BY <1>1, Invariant, PTL

\* After admission closes, no thread enters the host from outside it.
THEOREM ReentryOnly == Spec => OnlyReentryAfterClose
<1>1. TypeOK /\ [Next]_vars => [~active => Callers' \subseteq Callers]_vars
  <2> SUFFICES ASSUME TypeOK, [Next]_vars, ~active
               PROVE  Callers' \subseteq Callers
    OBVIOUS
  <2>1. ASSUME NEW t \in Threads, Lease(t) PROVE Callers' \subseteq Callers
    BY <2>1 DEF Lease, Admitted, Callers, TypeOK
  <2>2. ASSUME NEW t \in Threads, DropLease(t) PROVE Callers' \subseteq Callers
    BY <2>2 DEF DropLease, Callers, TypeOK
  <2>3. ASSUME UNCHANGED depth PROVE Callers' \subseteq Callers
    BY <2>3 DEF Callers
  <2> QED
    BY <2>1, <2>2, <2>3 DEF Next, Deactivate, Recheck, SpuriousWake, vars
<1> QED
  BY <1>1, TypeCorrect, PTL DEF Spec, OnlyReentryAfterClose
=============================================================================
