------------------------ MODULE EmbeddedEngineProofs ------------------------
(***************************************************************************)
(* The invariants of EmbeddedEngine for any number of threads and payloads *)
(* and any reentrance.                                                     *)
(*                                                                         *)
(* A payload that is over stays over because whoever changes its state     *)
(* holds its mutex, and a first enable, the one operation that writes a    *)
(* state it has not just read, has held it since it read Loaded.  close()  *)
(* finds every payload that is not over in the load order, which ascends;  *)
(* so what it still has to do descends.                                    *)
(***************************************************************************)
EXTENDS EmbeddedEngine, SequenceTheorems, TLAPS

Ascending(s) == \A i, j \in DOMAIN s : i < j => s[i] < s[j]

\* An identifier that is taken out of an ascending order is not in it any more.
LEMMA WithoutRemoves ==
  ASSUME NEW S \in SUBSET Nat, NEW order \in Seq(S), Ascending(order), NEW p \in S
  PROVE  /\ Without(order, p) \in Seq(S)
         /\ Ascending(Without(order, p))
         /\ ToSet(Without(order, p)) = ToSet(order) \ {p}
<1>1. CASE p \notin ToSet(order)
  BY <1>1 DEF Without
<1>2. CASE p \in ToSet(order)
  <2> DEFINE i == CHOOSE k \in DOMAIN order : order[k] = p
             front == SubSeq(order, 1, i - 1)
             back == SubSeq(order, i + 1, Len(order))
             rest == front \o back
  <2>1. i \in 1..Len(order) /\ order[i] = p
    BY <1>2 DEF ToSet
  <2>2. Without(order, p) = rest
    BY <1>2 DEF Without, RemoveAt
  <2> HIDE DEF i
  <2>3. /\ rest \in Seq(S)
        /\ Len(rest) = Len(order) - 1
        /\ \A k \in 1..Len(rest) : rest[k] = IF k < i THEN order[k] ELSE order[k + 1]
    <3>1. front \in Seq(S) /\ Len(front) = i - 1 /\ \A k \in 1..(i - 1) : front[k] = order[k]
      BY <2>1
    <3>2. back \in Seq(S) /\ Len(back) = Len(order) - i
      BY <2>1
    <3>3. \A k \in 1..(Len(order) - i) : back[k] = order[i + k]
      BY <2>1
    <3> HIDE DEF front, back
    <3>4. rest \in Seq(S) /\ Len(rest) = Len(order) - 1
      <4>1. rest \in Seq(S) /\ Len(rest) = Len(front) + Len(back)
        BY <3>1, <3>2, ConcatProperties
      <4>2. Len(front) + Len(back) = Len(order) - 1
        BY <2>1, <3>1, <3>2
      <4> QED
        BY <4>1, <4>2
    <3>5. ASSUME NEW k \in 1..Len(rest)
          PROVE  rest[k] = IF k < i THEN order[k] ELSE order[k + 1]
      <4>1. CASE k < i
        BY <2>1, <3>1, <3>2, <4>1
      <4>2. CASE ~(k < i)
        <5>1. rest[k] = back[k - (i - 1)] /\ k - (i - 1) \in 1..(Len(order) - i)
          BY <2>1, <3>1, <3>2, <3>4, <4>2
        <5>2. i + (k - (i - 1)) = k + 1
          BY <2>1
        <5> QED
          BY <3>3, <4>2, <5>1, <5>2
      <4> QED
        BY <4>1, <4>2
    <3> QED
      BY <3>4, <3>5
  <2> HIDE DEF rest
  <2>4. Ascending(rest)
    <3> SUFFICES ASSUME NEW j \in 1..Len(rest), NEW k \in 1..Len(rest), j < k
                 PROVE  rest[j] < rest[k]
      BY <2>3 DEF Ascending
    <3> DEFINE j0 == IF j < i THEN j ELSE j + 1
               k0 == IF k < i THEN k ELSE k + 1
    <3>1. rest[j] = order[j0] /\ rest[k] = order[k0]
      BY <2>3
    <3>2. j0 \in 1..Len(order) /\ k0 \in 1..Len(order) /\ j0 < k0
      BY <2>1, <2>3
    <3> QED
      BY <3>1, <3>2 DEF Ascending
  <2>5. \A k \in 1..Len(order) : order[k] = p => k = i
    BY <2>1 DEF Ascending
  <2>6. ToSet(rest) \subseteq ToSet(order) \ {p}
    <3> SUFFICES ASSUME NEW k \in 1..Len(rest) PROVE rest[k] \in ToSet(order) \ {p}
      BY <2>3 DEF ToSet
    <3> DEFINE j == IF k < i THEN k ELSE k + 1
    <3>1. j \in 1..Len(order) /\ j # i /\ rest[k] = order[j]
      BY <2>1, <2>3
    <3> HIDE DEF j
    <3> QED
      BY <2>5, <3>1 DEF ToSet
  <2>7. ASSUME NEW x \in ToSet(order) \ {p}
        PROVE  x \in ToSet(rest)
    <3>1. PICK k \in 1..Len(order) : order[k] = x
      BY DEF ToSet
    <3>2. k # i
      BY <2>1, <3>1
    <3>3. CASE k < i
      BY <2>1, <2>3, <3>1, <3>3 DEF ToSet
    <3>4. CASE k > i
      <4>1. k - 1 \in 1..Len(rest) /\ rest[k - 1] = x
        BY <2>1, <2>3, <3>1, <3>4
      <4> QED
        BY <2>3, <4>1 DEF ToSet
    <3> QED
      BY <2>1, <3>1, <3>2, <3>3, <3>4
  <2> QED
    BY <2>2, <2>3, <2>4, <2>6, <2>7
<1> QED
  BY <1>1, <1>2

\* What close() collects: the same payloads, the last one first.
LEMMA ReverseDescends ==
  ASSUME NEW S \in SUBSET Nat, NEW order \in Seq(S), Ascending(order)
  PROVE  /\ Reverse(order) \in Seq(S)
         /\ ToSet(Reverse(order)) = ToSet(order)
         /\ \A i, j \in DOMAIN Reverse(order) :
              i < j => Reverse(order)[j] < Reverse(order)[i]
<1> DEFINE r == Reverse(order)
           n == Len(order)
<1>1. r \in Seq(S) /\ Len(r) = n /\ \A i \in 1..n : r[i] = order[n - i + 1]
  BY DEF Reverse
<1>2. n \in Nat /\ \A i \in 1..n : /\ n - i + 1 \in 1..n
                                   /\ n - (n - i + 1) + 1 = i
                                   /\ order[i] \in Nat
  <2>0. n \in Nat /\ \A i \in 1..n : order[i] \in S
    OBVIOUS
  <2>1. n \in Nat /\ \A i \in 1..n : order[i] \in Nat
    BY <2>0
  <2>2. \A i \in 1..n : n - i + 1 \in 1..n /\ n - (n - i + 1) + 1 = i
    BY <2>1
  <2> QED
    BY <2>1, <2>2
<1> HIDE DEF r, n
<1>3. ToSet(r) \subseteq ToSet(order)
  <2> SUFFICES ASSUME NEW i \in 1..n PROVE r[i] \in ToSet(order)
    BY <1>1 DEF ToSet
  <2>1. r[i] = order[n - i + 1] /\ n - i + 1 \in DOMAIN order
    BY <1>1, <1>2 DEF n
  <2> QED
    BY <2>1 DEF ToSet
<1>4. ToSet(order) \subseteq ToSet(r)
  <2> SUFFICES ASSUME NEW i \in 1..n PROVE order[i] \in ToSet(r)
    BY DEF ToSet, n
  <2>1. r[n - i + 1] = order[i] /\ n - i + 1 \in 1..Len(r)
    BY <1>1, <1>2
  <2> QED
    BY <1>1, <2>1 DEF ToSet
<1>5. ASSUME NEW i \in 1..n, NEW j \in 1..n, i < j
      PROVE  r[j] < r[i]
  <2>1. n - j + 1 < n - i + 1
    BY <1>2, <1>5
  <2>2. order[n - j + 1] < order[n - i + 1]
    BY <1>2, <2>1 DEF Ascending, n
  <2> QED
    BY <1>1, <2>2
<1>6. DOMAIN r = 1..n /\ ToSet(r) = ToSet(order)
  BY <1>1, <1>3, <1>4
<1> QED
  BY <1>1, <1>5, <1>6 DEF r

-----------------------------------------------------------------------------
(* The invariant.                                                          *)

\* Thread t has the mutex of payload p.
Holds(t, p) == outer[t] = p \/ (at[t] \in Calling /\ on[t] = p)

Types ==
    /\ closed \in BOOLEAN
    /\ loaded \in 0..MaxPayloads
    /\ registered \subseteq 1..loaded
    /\ loadOrder \in Seq(1..loaded) /\ todo \in Seq(1..loaded)
    /\ state \in [Payloads -> PayloadStates \cup {"Absent"}]
    /\ at \in [Threads -> Steps]
    /\ on \in [Threads -> Payloads \cup {None}]
    /\ outer \in [Threads -> 1..loaded \cup {None}]

\* A payload has a state once it is loaded.
Present == \A p \in Payloads : state[p] = "Absent" <=> p \notin 1..loaded

\* What a thread knows of the payload it is at.
Knows(t) ==
    /\ at[t] \in Pending \cup Calling \cup {"removing"} => on[t] \in 1..loaded
    /\ at[t] \in Calling => outer[t] # on[t]
    /\ at[t] = "initializing" => state[on[t]] = "Loaded"
    /\ at[t] = "invoking" => state[on[t]] = "Enabled"
    /\ outer[t] # None => state[outer[t]] = "Enabled"
    /\ at[t] = "removing" => state[on[t]] \in Over

Exclusive == \A t, u \in Threads : \A p \in Payloads :
    Holds(t, p) /\ Holds(u, p) => t = u

\* The order in which payloads are loaded, and the one in which close() takes
\* them, which is never later than the payload it is at.
Ordered ==
    /\ ToSet(loadOrder) = registered
    /\ Ascending(loadOrder)
    /\ \A i, j \in DOMAIN todo : i < j => todo[j] < todo[i]
    /\ \A t \in Threads : at[t] = "forcing" => \A i \in DOMAIN todo : todo[i] < on[t]

\* One thread closes the engine, once.
OneCloser ==
    /\ \A t, u \in Threads : at[t] \in {"closing", "forcing"}
                               /\ at[u] \in {"closing", "forcing"} => t = u
    /\ closed => registered = {}
    /\ ~closed => todo = <<>> /\ \A t \in Threads : at[t] \notin {"closing", "forcing"}

Inv ==
    /\ Types /\ Present /\ Exclusive /\ Ordered /\ OneCloser /\ OverOnceRemoved
    /\ \A t \in Threads : Knows(t)

LEMMA InitInv == Init => Inv
<1> SUFFICES ASSUME Init PROVE Inv
  OBVIOUS
<1>1. Types
  <2>1. loadOrder \in Seq(1..loaded) /\ todo \in Seq(1..loaded)
    BY DEF Init
  <2>2. loaded \in 0..MaxPayloads /\ registered \subseteq 1..loaded
    BY EngineAssumption DEF Init
  <2>3. /\ state \in [Payloads -> PayloadStates \cup {"Absent"}]
        /\ at \in [Threads -> Steps]
        /\ on \in [Threads -> Payloads \cup {None}]
        /\ outer \in [Threads -> 1..loaded \cup {None}]
    BY DEF Init, Steps
  <2> QED
    BY <2>1, <2>2, <2>3 DEF Init, Types
<1>2. Exclusive /\ \A t \in Threads : Knows(t)
  BY EngineAssumption DEF Init, Exclusive, Holds, Knows, Payloads, Pending, Calling
<1>3. Ordered /\ OneCloser /\ OverOnceRemoved /\ Present
  BY DEF Init, Ordered, Ascending, OneCloser, OverOnceRemoved, ToSet, Present
<1> QED
  BY <1>1, <1>2, <1>3 DEF Inv

-----------------------------------------------------------------------------
(* The steps.                                                              *)

\* Over \subseteq PayloadStates, and everything loaded is a payload.
LEMMA Loaded == ASSUME Types PROVE 1..loaded \subseteq Payloads /\ loaded \in Nat
BY EngineAssumption DEF Types, Payloads

\* Work on a payload by the thread that has its mutex, or gets it while no
\* other thread has it.
LEMMA WorkKeeps ==
  ASSUME Inv, NEW t \in Threads, NEW p \in 1..loaded, on[t] = p,
         at[t] \in Pending \cup {"initializing", "invoking", "shutting"},
         at[t] \in Pending => ~Locked(p),
         NEW step \in {"idle", "removing", "initializing", "invoking", "shutting"},
         Step(t, step),
         NEW s \in PayloadStates, state' = [state EXCEPT ![p] = s],
         state[p] \in Over => s \in Over,
         step = "initializing" => s = "Loaded", step = "invoking" => s = "Enabled",
         step = "removing" => s \in Over,
         UNCHANGED <<engine, on, outer, todo>>
  PROVE  Inv'
<1> USE DEF Inv, engine
<1>1. /\ at' \in [Threads -> Steps]
      /\ \A u \in Threads : at'[u] = IF u = t THEN step ELSE at[u]
  BY DEF Types, Step, Steps, Calling
<1>2. /\ state' \in [Payloads -> PayloadStates \cup {"Absent"}]
      /\ \A q \in Payloads : state'[q] = IF q = p THEN s ELSE state[q]
      /\ p \in Payloads
  BY Loaded DEF Types
<1>3. Types' /\ Present'
  BY <1>1, <1>2 DEF Types, Present, PayloadStates
<1>4. \A u \in Threads \ {t} : ~Holds(u, p)
  BY <1>2 DEF Locked, Holds, Exclusive, Calling
<1>5. Exclusive'
  BY <1>1, <1>4 DEF Exclusive, Holds, Calling
<1>6. Ordered' /\ OneCloser'
  BY <1>1 DEF Ordered, OneCloser, ToSet, Ascending, Pending
<1>7. OverOnceRemoved'
  BY <1>1, <1>2, Loaded DEF OverOnceRemoved, BeingClosed, ToSet, Pending
<1>8. \A u \in Threads : Knows(u)'
  <2>1. outer[t] # p
    <3>1. CASE at[t] \in Pending
      BY <3>1 DEF Locked
    <3>2. CASE at[t] \in Calling
      BY <3>2 DEF Knows
    <3> QED
      BY <3>1, <3>2 DEF Calling
  <2>2. Knows(t)'
    BY <1>1, <1>2, <2>1 DEF Knows, Pending
  <2>3. ASSUME NEW u \in Threads \ {t}
        PROVE  Knows(u)'
    <3>1. outer[u] # None => outer[u] \in Payloads /\ outer[u] # p
      BY <1>4, Loaded DEF Types, Holds
    <3> QED
      BY <1>1, <1>2, <1>4, <3>1, Loaded DEF Knows, Holds, Calling, Pending
  <2> QED
    BY <2>2, <2>3
<1> QED
  BY <1>3, <1>5, <1>6, <1>7, <1>8

\* A thread looks a payload up, leaves for a host call or comes back from one.
LEMMA MoveKeeps ==
  ASSUME Inv, NEW t \in Threads,
         (\E op \in Pending, p \in Payloads : Lookup(t, op, p))
           \/ HostCall(t) \/ HostReturn(t)
  PROVE  Inv'
<1> USE DEF Inv, engine
<1>1. /\ UNCHANGED <<engine, state, todo>>
      /\ at' \in [Threads -> Steps] /\ on' \in [Threads -> Payloads \cup {None}]
      /\ outer' \in [Threads -> 1..loaded \cup {None}]
      /\ \A u \in Threads \ {t} : at'[u] = at[u] /\ on'[u] = on[u] /\ outer'[u] = outer[u]
      /\ at'[t] \in Pending \cup {"idle", "invoking"} /\ at[t] \in {"idle", "invoking"}
  <2>1. CASE \E op \in Pending, p \in Payloads : Lookup(t, op, p)
    BY <2>1 DEF Types, Lookup, Step, Steps, Pending
  <2>2. CASE HostCall(t)
    BY <2>2 DEF Types, HostCall, Step, Steps, Calling, Knows
  <2>3. CASE HostReturn(t)
    BY <2>3, Loaded DEF Types, HostReturn, Step, Steps, Calling
  <2> QED
    BY <2>1, <2>2, <2>3
<1>2. Types' /\ Present'
  BY <1>1 DEF Types, Present
<1>3. \A p \in Payloads : Holds(t, p)' => Holds(t, p)
  BY <1>1, EngineAssumption
  DEF Lookup, HostCall, HostReturn, Step, Types, Holds, Pending, Calling, Payloads
<1>4. Exclusive'
  BY <1>1, <1>3 DEF Exclusive, Holds
<1>5. Ordered' /\ OneCloser'
  BY <1>1 DEF Ordered, OneCloser, ToSet, Ascending, Pending
<1>6. OverOnceRemoved'
  BY <1>1 DEF OverOnceRemoved, BeingClosed, ToSet, Pending
<1>7. ASSUME NEW u \in Threads
      PROVE  Knows(u)'
  <2>1. CASE u # t
    BY <1>1, <2>1 DEF Knows
  <2>2. CASE u = t
    <3>1. CASE \E op \in Pending, p \in Payloads : Lookup(t, op, p)
      <4>1. /\ at'[t] \in Pending /\ on'[t] \in registered
            /\ outer' = outer /\ registered \subseteq 1..loaded
        BY <3>1 DEF Lookup, Step, Types
      <4> QED
        BY <1>1, <2>2, <4>1 DEF Knows, Pending, Calling
    <3>2. CASE HostCall(t)
      BY <1>1, <2>2, <3>2 DEF Knows, HostCall, Types, Step, Pending, Calling
    <3>3. CASE HostReturn(t)
      BY <1>1, <2>2, <3>3, EngineAssumption DEF Knows, HostReturn, Types, Pending, Calling
    <3> QED
      BY <3>1, <3>2, <3>3
  <2> QED
    BY <2>1, <2>2
<1> QED
  BY <1>2, <1>4, <1>5, <1>6, <1>7

\* A payload is loaded under the next identifier.
LEMMA LoadKeeps ==
  ASSUME Inv, NEW t \in Threads, LoadPayload(t)
  PROVE  Inv'
<1> USE DEF Inv
<1> DEFINE p == loaded + 1
<1>1. /\ UNCHANGED <<closed, at, on, outer, todo>> /\ ~closed /\ loaded' = p
      /\ registered' = registered \cup {p} /\ loadOrder' = Append(loadOrder, p)
      /\ loaded \in Nat /\ loaded' \in 0..MaxPayloads /\ p \in Payloads
      /\ 1..loaded' = (1..loaded) \cup {p} /\ p \notin 1..loaded
  BY EngineAssumption DEF LoadPayload, Types, Payloads
<1>2. /\ state' \in [Payloads -> PayloadStates \cup {"Absent"}]
      /\ \A q \in Payloads : state'[q] = IF q = p THEN "Loaded" ELSE state[q]
  BY <1>1 DEF LoadPayload, Set, Types, PayloadStates
<1> HIDE DEF p
<1>3. Types'
  <2>1. loadOrder \in Seq(1..loaded') /\ todo \in Seq(1..loaded')
    BY <1>1, SeqMonotonic DEF Types
  <2>2. loadOrder' \in Seq(1..loaded')
    BY <1>1, <2>1
  <2> QED
    BY <1>1, <1>2, <2>1, <2>2 DEF Types
<1>4. Exclusive' /\ OneCloser'
  BY <1>1 DEF Exclusive, Holds, OneCloser
<1>8. Present'
  BY <1>1, <1>2 DEF Present
<1>5. Ordered'
  <2>1. /\ Len(loadOrder') = Len(loadOrder) + 1 /\ Len(loadOrder) \in Nat
        /\ \A i \in 1..Len(loadOrder) : loadOrder'[i] = loadOrder[i]
        /\ loadOrder'[Len(loadOrder) + 1] = p
    BY <1>1 DEF Types
  <2>2. ToSet(loadOrder') = registered'
    <3>1. ToSet(loadOrder) = registered
      BY DEF Ordered
    <3>2. DOMAIN loadOrder = 1..Len(loadOrder) /\ DOMAIN loadOrder' = 1..Len(loadOrder')
      BY <1>1 DEF Types
    <3>3. 1..Len(loadOrder') = (1..Len(loadOrder)) \cup {Len(loadOrder) + 1}
      BY <2>1
    <3> QED
      BY <1>1, <2>1, <3>1, <3>2, <3>3 DEF ToSet
  <2>3. Ascending(loadOrder')
    <3>1. \A i \in 1..Len(loadOrder) : loadOrder[i] \in 1..loaded
      BY DEF Types
    <3>2. \A i \in 1..Len(loadOrder) : loadOrder[i] < p
      BY <1>1, <3>1 DEF p
    <3>3. DOMAIN loadOrder = 1..Len(loadOrder) /\ DOMAIN loadOrder' = 1..Len(loadOrder')
      BY <1>1 DEF Types
    <3> QED
      BY <2>1, <3>2, <3>3 DEF Ordered, Ascending
  <2> QED
    BY <1>1, <2>2, <2>3 DEF Ordered
<1>6. OverOnceRemoved'
  BY <1>1, <1>2, Loaded DEF OverOnceRemoved, BeingClosed, ToSet
<1>7. ASSUME NEW u \in Threads
      PROVE  Knows(u)'
  <2>1. outer[u] # None => outer[u] \in Payloads /\ outer[u] # p
    BY <1>1, Loaded DEF Types
  <2> QED
    BY <1>1, <1>2, <2>1, Loaded DEF Knows, Calling
<1> QED
  BY <1>3, <1>4, <1>5, <1>6, <1>7, <1>8

\* An unloaded payload leaves the registry and the order.
LEMMA RemoveKeeps ==
  ASSUME Inv, NEW t \in Threads, RemovePayload(t)
  PROVE  Inv'
<1> USE DEF Inv
<1> DEFINE p == on[t]
<1>1. /\ UNCHANGED <<closed, loaded, state, on, outer, todo>>
      /\ registered' = registered \ {p} /\ loadOrder' = Without(loadOrder, p)
      /\ at' \in [Threads -> Steps] /\ at[t] = "removing"
      /\ \A u \in Threads : at'[u] = IF u = t THEN "idle" ELSE at[u]
  BY DEF RemovePayload, Step, Types, Steps
<1>2. p \in 1..loaded /\ state[p] \in Over
  BY <1>1 DEF Knows
<1>3. /\ loadOrder' \in Seq(1..loaded)
      /\ Ascending(loadOrder')
      /\ ToSet(loadOrder') = ToSet(loadOrder) \ {p}
  <2>1. loadOrder \in Seq(1..loaded) /\ 1..loaded \in SUBSET Nat /\ Ascending(loadOrder)
    BY DEF Types, Ordered
  <2> HIDE DEF p
  <2>2. /\ Without(loadOrder, p) \in Seq(1..loaded)
        /\ Ascending(Without(loadOrder, p))
        /\ ToSet(Without(loadOrder, p)) = ToSet(loadOrder) \ {p}
    <3> HIDE DEF Inv
    <3> QED
      BY ONLY <1>2, <2>1, WithoutRemoves
  <2> QED
    BY <1>1, <2>2
<1>4. Types' /\ Ordered' /\ Present'
  BY <1>1, <1>3 DEF Types, Ordered, Present
<1>5. Exclusive' /\ OneCloser'
  BY <1>1 DEF Exclusive, Holds, OneCloser, Calling
<1>6. OverOnceRemoved'
  BY <1>1, <1>2 DEF OverOnceRemoved, BeingClosed, ToSet
<1>7. \A u \in Threads : Knows(u)'
  BY <1>1 DEF Knows, Calling, Pending
<1> QED
  BY <1>4, <1>5, <1>6, <1>7

\* close() takes what there is, the last payload first.
LEMMA CloseBeginKeeps ==
  ASSUME Inv, NEW t \in Threads, CloseBegin(t)
  PROVE  Inv'
<1> USE DEF Inv
<1>1. /\ UNCHANGED <<loaded, state, on, outer>> /\ ~closed /\ closed'
      /\ registered' = {} /\ loadOrder' = <<>> /\ todo' = Reverse(loadOrder)
      /\ at' \in [Threads -> Steps] /\ at[t] = "idle"
      /\ \A u \in Threads : at'[u] = IF u = t THEN "closing" ELSE at[u]
  BY DEF CloseBegin, Step, Types, Steps
<1>2. /\ todo' \in Seq(1..loaded)
      /\ \A i, j \in DOMAIN todo' : i < j => todo'[j] < todo'[i]
      /\ ToSet(todo') = registered
  <2>1. loadOrder \in Seq(1..loaded) /\ 1..loaded \in SUBSET Nat /\ Ascending(loadOrder)
    BY DEF Types, Ordered
  <2> QED
    BY <1>1, <2>1, ReverseDescends DEF Ordered
<1>3. \A u \in Threads : at'[u] # "forcing" /\ (u # t => at'[u] # "closing")
  BY <1>1 DEF OneCloser
<1>4. Types'
  <2>1. loadOrder' \in Seq(1..loaded)
    BY <1>1
  <2> QED
    BY <1>1, <1>2, <2>1 DEF Types
<1>5. Ordered'
  <2>1. ToSet(loadOrder') = registered' /\ Ascending(loadOrder')
    BY <1>1 DEF ToSet, Ascending
  <2> QED
    BY <1>2, <1>3, <2>1 DEF Ordered
<1>6. Exclusive' /\ OneCloser' /\ Present'
  BY <1>1, <1>3 DEF Present, Exclusive, Holds, OneCloser, Calling
<1>7. OverOnceRemoved'
  BY <1>1, <1>2 DEF OverOnceRemoved, BeingClosed, OneCloser, ToSet
<1>8. \A u \in Threads : Knows(u)'
  BY <1>1 DEF Knows, Calling, Pending
<1> QED
  BY <1>4, <1>5, <1>6, <1>7, <1>8

\* close() goes on to the next payload, whose mutex nobody has.
LEMMA ForceKeeps ==
  ASSUME Inv, NEW t \in Threads, ForceShutdown(t)
  PROVE  Inv'
<1> USE DEF Inv, engine
<1> DEFINE p == Head(todo)
<1>1. /\ UNCHANGED <<closed, loaded, registered, loadOrder, outer>>
      /\ todo' = Tail(todo) /\ todo # <<>> /\ at[t] = "closing" /\ ~Locked(p)
      /\ on' = [on EXCEPT ![t] = p]
      /\ \/ Step(t, "forcing") /\ UNCHANGED state
         \/ Set(p, "Shutdown") /\ UNCHANGED at
  BY DEF ForceShutdown
<1>2. /\ todo' \in Seq(1..loaded) /\ p \in 1..loaded /\ p \in Payloads
      /\ DOMAIN todo = 1..Len(todo) /\ DOMAIN todo' = 1..(Len(todo) - 1)
      /\ Len(todo) \in Nat \ {0} /\ p = todo[1]
      /\ \A i \in 1..(Len(todo) - 1) : todo'[i] = todo[i + 1]
  <2>1. todo \in Seq(1..loaded)
    BY DEF Types
  <2> QED
    BY <1>1, <2>1, Loaded
<1> HIDE DEF p
<1>3. ToSet(todo) = ToSet(todo') \cup {p}
  <2>1. ASSUME NEW i \in 1..Len(todo), i # 1
        PROVE  i - 1 \in 1..(Len(todo) - 1) /\ todo[i] = todo'[i - 1]
    BY <1>2, <2>1
  <2>2. 1 \in 1..Len(todo) /\ \A i \in 1..(Len(todo) - 1) : i + 1 \in 1..Len(todo)
    BY <1>2
  <2>3. ToSet(todo) \subseteq ToSet(todo') \cup {p}
    BY <1>2, <2>1 DEF ToSet
  <2>4. ToSet(todo') \subseteq ToSet(todo)
    <3> SUFFICES ASSUME NEW i \in 1..(Len(todo) - 1) PROVE todo'[i] \in ToSet(todo)
      BY <1>2 DEF ToSet
    <3> QED
      BY <1>2, <2>2 DEF ToSet
  <2>5. p \in ToSet(todo)
    BY <1>2, <2>2 DEF ToSet
  <2> QED
    BY <2>3, <2>4, <2>5
<1>4. /\ \A i, j \in DOMAIN todo' : i < j => todo'[j] < todo'[i]
      /\ \A i \in DOMAIN todo' : todo'[i] < p
  <2>1. \A i \in 1..(Len(todo) - 1) : i + 1 \in 1..Len(todo) /\ 1 < i + 1
    BY <1>2
  <2>2. \A i, j \in 1..(Len(todo) - 1) : i < j => i + 1 < j + 1
    BY <1>2
  <2>3. 1 \in 1..Len(todo)
    BY <1>2
  <2> QED
    BY <1>2, <2>1, <2>2, <2>3 DEF Ordered
<1>5. /\ on' \in [Threads -> Payloads \cup {None}]
      /\ \A u \in Threads : on'[u] = IF u = t THEN p ELSE on[u]
      /\ \A u \in Threads : ~Holds(u, p)
  BY <1>1, <1>2 DEF Types, Locked, Holds
<1>6. /\ state' \in [Payloads -> PayloadStates \cup {"Absent"}]
      /\ at' \in [Threads -> Steps]
      /\ \A u \in Threads \ {t} : at'[u] = at[u]
      /\ \A q \in Payloads \ {p} : state'[q] = state[q]
      /\ \/ at'[t] = "forcing" /\ state' = state
         \/ at'[t] = "closing" /\ state'[p] \in Over
      /\ state'[p] = "Absent" <=> state[p] = "Absent"
  BY <1>1, <1>2 DEF Types, Present, Step, Set, Steps, Calling, PayloadStates, Over
<1>7. Types' /\ Present'
  BY <1>1, <1>2, <1>5, <1>6 DEF Types, Present
<1>8. Exclusive'
  <2>1. \A u \in Threads : \A q \in Payloads : Holds(u, q)' => Holds(u, q) \/ (u = t /\ q = p)
    BY <1>1, <1>5, <1>6 DEF Holds, Calling
  <2> QED
    BY <1>5, <2>1 DEF Exclusive
<1>9. \A u \in Threads \ {t} : at[u] \notin {"closing", "forcing"}
  BY <1>1 DEF OneCloser
<1>10. Ordered' /\ OneCloser'
  BY <1>1, <1>4, <1>5, <1>6, <1>9 DEF Ordered, OneCloser
<1>11. OverOnceRemoved'
  BY <1>1, <1>3, <1>5, <1>6, <1>9, Loaded DEF OverOnceRemoved, BeingClosed
<1>12. ASSUME NEW u \in Threads
       PROVE  Knows(u)'
  <2>1. /\ outer[u] # p /\ outer'[u] = outer[u]
        /\ outer[u] # None => outer[u] \in Payloads
    BY <1>1, <1>5, Loaded DEF Types, Holds
  <2>2. CASE u = t
    <3>1. at'[t] \in {"forcing", "closing"} /\ outer'[t] = outer[t] /\ outer[t] # p
      BY <1>6, <2>1, <2>2
    <3>2. at'[t] = "forcing" => on'[t] = p /\ p \in 1..loaded'
      BY <1>1, <1>2, <1>5, <1>6
    <3>3. outer[t] # None => state[outer[t]] = "Enabled" /\ state'[outer[t]] = state[outer[t]]
      BY <1>6, <2>1, <2>2 DEF Knows
    <3> QED
      BY <2>2, <3>1, <3>2, <3>3 DEF Knows, Calling, Pending
  <2>3. CASE u # t
    <3>1. on'[u] = on[u] /\ at'[u] = at[u]
      BY <1>5, <1>6, <2>3
    <3>2. on[u] = p => at[u] \notin Calling
      BY <1>5 DEF Holds
    <3>3. on[u] = p /\ state[p] \in Over => state'[p] \in Over
      BY <1>1, <1>2, <1>6 DEF Set, Types, Over
    <3> QED
      BY <1>1, <1>6, <2>1, <3>1, <3>2, <3>3, Loaded DEF Knows, Calling
  <2> QED
    BY <2>2, <2>3
<1> QED
  BY <1>7, <1>8, <1>10, <1>11, <1>12

\* A forced shutdown returns, or the last one has.
LEMMA CloseEndKeeps ==
  ASSUME Inv, NEW t \in Threads, CloseReturn(t) \/ \E ok \in BOOLEAN : ForceReturn(t, ok)
  PROVE  Inv'
<1> USE DEF Inv, engine
<1>1. CASE CloseReturn(t)
  <2>1. /\ UNCHANGED <<engine, state, on, outer, todo>> /\ at[t] = "closing"
        /\ at' \in [Threads -> Steps]
        /\ \A u \in Threads : at'[u] = IF u = t THEN "idle" ELSE at[u]
    BY <1>1 DEF CloseReturn, Step, Types, Steps
  <2>5. Types' /\ Exclusive'
    BY <2>1 DEF Types, Exclusive, Holds, Calling
  <2>6. Ordered'
    BY <2>1 DEF Ordered
  <2>2. OneCloser'
    BY <2>1 DEF OneCloser
  <2>4. Present'
    BY <2>1 DEF Present
  <2>3. OverOnceRemoved' /\ \A u \in Threads : Knows(u)'
    BY <2>1 DEF OverOnceRemoved, BeingClosed, Knows, Calling, Pending
  <2> QED
    BY <2>2, <2>3, <2>4, <2>5, <2>6
<1>2. CASE \E ok \in BOOLEAN : ForceReturn(t, ok)
  <2> DEFINE p == on[t]
  <2>1. PICK s \in Over :
          /\ state' = [state EXCEPT ![p] = s]
          /\ UNCHANGED <<engine, on, outer, todo>> /\ at[t] = "forcing"
          /\ at' = [at EXCEPT ![t] = "closing"]
    BY <1>2 DEF ForceReturn, Step, Set, Over
  <2>2. p \in 1..loaded /\ p \in Payloads /\ s \in PayloadStates
    BY <2>1, Loaded DEF Knows, Calling, Over, PayloadStates
  <2>3. /\ at' \in [Threads -> Steps]
        /\ \A u \in Threads : at'[u] = IF u = t THEN "closing" ELSE at[u]
        /\ state' \in [Payloads -> PayloadStates \cup {"Absent"}]
        /\ \A q \in Payloads : state'[q] = IF q = p THEN s ELSE state[q]
    BY <2>1, <2>2 DEF Types, Steps
  <2>4. \A u \in Threads \ {t} : ~Holds(u, p)
    BY <2>1, <2>2 DEF Exclusive, Holds, Calling
  <2>5. Types' /\ Exclusive' /\ Ordered' /\ OneCloser'
    BY <2>1, <2>3 DEF Types, Exclusive, Holds, Calling, Ordered, OneCloser
  <2>8. Present'
    BY <2>1, <2>2, <2>3 DEF Present, PayloadStates
  <2>6. OverOnceRemoved'
    BY <2>1, <2>2, <2>3, Loaded DEF OverOnceRemoved, BeingClosed
  <2>7. \A u \in Threads : Knows(u)'
    <3> SUFFICES ASSUME NEW u \in Threads PROVE Knows(u)'
      OBVIOUS
    <3>1. outer[u] # None => outer[u] \in Payloads /\ outer[u] # p
      BY <2>1, <2>4, Loaded DEF Types, Holds, Knows, Calling
    <3>2. CASE u = t
      BY <2>1, <2>2, <2>3, <3>1, <3>2 DEF Knows, Calling, Pending
    <3>3. CASE u # t
      BY <2>1, <2>2, <2>3, <2>4, <3>1, <3>3, Loaded DEF Knows, Holds, Calling, Pending
    <3> QED
      BY <3>2, <3>3
  <2> QED
    BY <2>5, <2>6, <2>7, <2>8
<1> QED
  BY <1>1, <1>2

LEMMA StepKeeps ==
  ASSUME Inv, [Next]_vars
  PROVE  Inv'
<1>1. CASE UNCHANGED vars
  <2>1. Types' /\ Present' /\ Exclusive' /\ Ordered' /\ OneCloser'
    BY <1>1 DEF vars, Inv, Types, Present, Exclusive, Holds, Ordered, OneCloser
  <2>2. OverOnceRemoved' /\ \A t \in Threads : Knows(t)'
    BY <1>1 DEF vars, Inv, OverOnceRemoved, BeingClosed, Knows
  <2> QED
    BY <2>1, <2>2 DEF Inv
<1>2. ASSUME NEW t \in Threads, Advance(t)
      PROVE  Inv'
  <2> DEFINE p == on[t]
  <2>1. at[t] \in Pending \cup Calling => p \in 1..loaded /\ p \in Payloads
    BY Loaded DEF Inv, Knows
  <2>2. p \in 1..loaded => state[p] \in PayloadStates
    BY Loaded DEF Inv, Types, Present
  <2>3. state = [state EXCEPT ![p] = state[p]]
    BY DEF Inv, Types
  <2>4. CASE Enable(t)
    <3>1. at[t] = "enable" /\ ~Locked(p) /\ UNCHANGED <<engine, on, outer, todo>>
      BY <2>4 DEF Enable, Granted
    <3>2. CASE state[p] = "Loaded" /\ Step(t, "initializing") /\ UNCHANGED state
      BY <2>1, <2>2, <2>3, <3>1, <3>2, WorkKeeps DEF Pending, PayloadStates
    <3>3. CASE state[p] \in {"Disabled", "Enabled"} /\ Step(t, "idle") /\ Set(p, "Enabled")
      BY <2>1, <3>1, <3>3, WorkKeeps DEF Pending, PayloadStates, Over, Set
    <3>4. CASE Step(t, "idle") /\ UNCHANGED state
      BY <2>1, <2>2, <2>3, <3>1, <3>4, WorkKeeps DEF Pending
    <3> QED
      BY <2>4, <3>2, <3>3, <3>4 DEF Enable
  <2>5. CASE Disable(t)
    <3>1. at[t] = "disable" /\ ~Locked(p) /\ UNCHANGED <<engine, on, outer, todo>>
          /\ Step(t, "idle")
      BY <2>5 DEF Disable, Granted
    <3>2. CASE state[p] = "Enabled" /\ Set(p, "Disabled")
      BY <2>1, <3>1, <3>2, WorkKeeps DEF Pending, PayloadStates, Over, Set
    <3>3. CASE UNCHANGED state
      BY <2>1, <2>2, <2>3, <3>1, <3>3, WorkKeeps DEF Pending
    <3> QED
      BY <2>5, <3>2, <3>3 DEF Disable
  <2>6. CASE Invoke(t)
    <3>1. at[t] = "invoke" /\ ~Locked(p) /\ UNCHANGED <<engine, state, on, outer, todo>>
          /\ ((state[p] = "Enabled" /\ Step(t, "invoking")) \/ Step(t, "idle"))
      BY <2>6 DEF Invoke, Granted
    <3> QED
      BY <2>1, <2>2, <2>3, <3>1, WorkKeeps DEF Pending
  <2>7. CASE InvokeReturn(t)
    <3>1. at[t] = "invoking" /\ UNCHANGED <<engine, state, on, outer, todo>>
          /\ Step(t, "idle")
      BY <2>7 DEF InvokeReturn
    <3> QED
      BY <2>1, <2>2, <2>3, <3>1, WorkKeeps DEF Pending, Calling
  <2>8. CASE \E ok \in BOOLEAN : InitializeReturn(t, ok)
    <3>1. at[t] = "initializing" /\ UNCHANGED <<engine, on, outer, todo>> /\ Step(t, "idle")
          /\ (Set(p, "Enabled") \/ UNCHANGED state)
      BY <2>8 DEF InitializeReturn
    <3>2. state[p] \notin Over
      BY <3>1 DEF Inv, Knows, Over
    <3> QED
      BY <2>1, <2>2, <2>3, <3>1, <3>2, WorkKeeps DEF Pending, Calling, PayloadStates, Set
  <2>9. CASE ShutdownForUnload(t)
    <3>1. at[t] = "unload" /\ ~Locked(p) /\ UNCHANGED <<engine, on, outer, todo>>
          /\ \/ (Step(t, "idle") \/ Step(t, "shutting")) /\ UNCHANGED state
             \/ Step(t, "removing") /\ Set(p, "Shutdown")
      BY <2>9 DEF ShutdownForUnload, Granted
    <3> QED
      BY <2>1, <2>2, <2>3, <3>1, WorkKeeps DEF Pending, PayloadStates, Over, Set
  <2>10. CASE \E ok \in BOOLEAN : ShutdownReturn(t, ok)
    <3>1. at[t] = "shutting" /\ UNCHANGED <<engine, on, outer, todo>>
          /\ \/ Step(t, "idle") /\ Set(p, "ShutdownFailed")
             \/ Step(t, "removing") /\ Set(p, "Shutdown")
      BY <2>10 DEF ShutdownReturn
    <3> QED
      BY <2>1, <3>1, WorkKeeps DEF Pending, Calling, PayloadStates, Over, Set
  <2>11. CASE HostReturn(t) \/ RemovePayload(t) \/ ForceShutdown(t) \/ CloseReturn(t)
                \/ \E ok \in BOOLEAN : ForceReturn(t, ok)
    BY <2>11, MoveKeeps, RemoveKeeps, ForceKeeps, CloseEndKeeps
  <2> QED
    BY <1>2, <2>4, <2>5, <2>6, <2>7, <2>8, <2>9, <2>10, <2>11 DEF Advance
<1>3. ASSUME NEW t \in Threads,
             \/ HostCall(t) \/ LoadPayload(t) \/ CloseBegin(t)
             \/ \E op \in Pending, p \in Payloads : Lookup(t, op, p)
      PROVE  Inv'
  BY <1>3, MoveKeeps, LoadKeeps, CloseBeginKeeps
<1> QED
  BY <1>1, <1>2, <1>3 DEF Next

LEMMA Invariant == Spec => []Inv
<1>1. Init => Inv
  BY InitInv
<1>2. Inv /\ [Next]_vars => Inv'
  BY StepKeeps
<1> QED
  BY <1>1, <1>2, PTL DEF Spec

\* The registry and the load order hold the same payloads, all of them loaded
\* before, and so does what close() has still to do.
THEOREM TypeCorrect == Spec => []TypeOK
<1>1. Inv => TypeOK
  <2> SUFFICES ASSUME Inv PROVE TypeOK
    OBVIOUS
  <2>1. \A i \in DOMAIN todo : todo[i] \in 1..loaded
    BY DEF Inv, Types
  <2> QED
    BY <2>1, Loaded DEF Inv, Types, Ordered, TypeOK, ToSet
<1> QED
  BY <1>1, Invariant, PTL

\* Nothing an operation does late, after an unload or during close(), brings a
\* payload back: outside the registry and the list of close() it is over.
THEOREM OverForGood == Spec => []OverOnceRemoved
<1>1. Inv => OverOnceRemoved
  BY DEF Inv
<1> QED
  BY <1>1, Invariant, PTL

\* When close() calls the shutdown of a payload, every payload loaded after it
\* is over.
THEOREM LastLoadedFirst == Spec => []ReverseLoadOrder
<1>1. Inv => ReverseLoadOrder
  <2> SUFFICES ASSUME Inv, NEW t \in Threads, at[t] = "forcing",
                      NEW p \in (on[t] + 1)..loaded
               PROVE  state[p] \in Over
    BY DEF ReverseLoadOrder
  <2>1. on[t] \in 1..loaded /\ loaded \in Nat
    BY Loaded DEF Inv, Knows, Calling
  <2>2. p \in 1..loaded /\ p > on[t]
    BY <2>1
  <2>3. p \notin registered
    BY DEF Inv, OneCloser
  <2>4. p \notin ToSet(todo)
    BY <2>1, <2>2 DEF Inv, Ordered, Types, ToSet
  <2>5. \A u \in Threads : at[u] = "forcing" => u = t
    BY DEF Inv, OneCloser
  <2> QED
    BY <2>1, <2>2, <2>3, <2>4, <2>5 DEF Inv, OverOnceRemoved, BeingClosed
<1> QED
  BY <1>1, Invariant, PTL

-----------------------------------------------------------------------------
(* The life of each payload.                                               *)

\* Whoever is inside of a callback of p, or beyond it in a host call, has the
\* mutex of p, and nobody has it twice.
LEMMA AllAlone == Inv => OneCallAtATime
<1> SUFFICES ASSUME Inv, NEW p \in Payloads PROVE Alone(p)
  BY DEF OneCallAtATime
<1>1. \A t \in Inside(p) \cup Beyond(p) : t \in Threads /\ Holds(t, p)
  BY DEF Inside, Beyond, Holds
<1>2. Inside(p) \cap Beyond(p) = {}
  BY DEF Inside, Beyond, Inv, Knows
<1> QED
  BY <1>1, <1>2 DEF Alone, Inv, Exclusive

LEMMA AllAloneNext == (Inv => OneCallAtATime)'
BY AllAlone, PTL

\* Two threads are never inside of callbacks of the same plugin, and a thread
\* whose host call led to another operation is not called back into it
\* (EmbeddedPayload, whose mutex enable, invoke, unload and close() take).
THEOREM OneAtATime == Spec => []OneCallAtATime
<1> QED
  BY AllAlone, Invariant, PTL

\* What Life says of a payload whose mutex a thread at `step` has, or nobody.
LifeAt(step, s) ==
    CASE step = "initializing" -> "initializing"
      [] step = "invoking" -> "invoking"
      [] step \in {"shutting", "forcing"} -> "ending"
      [] OTHER -> Rest(s)

Invoked(p) == In("invoking", p) \/ \E t \in Threads : outer[t] = p
Ending(p) == In("shutting", p) \/ In("forcing", p)

LifeFacts(p) ==
    /\ In("initializing", p) => Life(p) = "initializing"
    /\ Invoked(p) => Life(p) = "invoking"
    /\ Ending(p) => Life(p) = "ending"
    /\ ~In("initializing", p) /\ ~Invoked(p) /\ ~Ending(p) => Life(p) = Rest(state[p])

\* The mutex makes the parts of a life exclude each other.
LEMMA LifeOf == Inv => \A p \in Payloads : LifeFacts(p)
<1> SUFFICES ASSUME Inv, NEW p \in Payloads PROVE LifeFacts(p)
  OBVIOUS
<1>1. ~(In("initializing", p) /\ Invoked(p))
  BY DEF In, Invoked, Inv, Exclusive, Holds, Knows, Calling
<1>2. ~(In("initializing", p) /\ Ending(p))
  BY DEF In, Ending, Inv, Exclusive, Holds, Calling
<1>3. ~(Invoked(p) /\ Ending(p))
  BY DEF In, Invoked, Ending, Inv, Exclusive, Holds, Knows, Calling
<1>4. Alone(p)
  BY AllAlone DEF OneCallAtATime
<1> QED
  BY <1>1, <1>2, <1>3, <1>4 DEF LifeFacts, Life, Invoked, Ending

LEMMA LifeOfNext == (Inv => \A p \in Payloads : LifeFacts(p))'
BY LifeOf, PTL

\* A payload with the same callers and state goes on living as it did.
LEMMA SameLife ==
  ASSUME Inv, Inv', NEW p \in Payloads,
         In("initializing", p)' <=> In("initializing", p), Invoked(p)' <=> Invoked(p),
         Ending(p)' <=> Ending(p), state'[p] = state[p]
  PROVE  Life(p)' = Life(p)
<1>1. Alone(p) /\ Alone(p)'
  BY AllAlone, AllAloneNext DEF OneCallAtATime
<1> QED
  BY <1>1 DEF Life, Invoked, Ending

\* Thread t works on payload p, whose mutex it has or gets: p goes from the
\* life of the step before to that of the step after, and no other changes.
LEMMA WorkLives ==
  ASSUME Inv, Inv', NEW t \in Threads, NEW p \in Payloads, on'[t] = p, outer' = outer,
         \A u \in Threads \ {t} : at'[u] = at[u] /\ on'[u] = on[u],
         \A q \in Payloads \ {p} : state'[q] = state[q],
         \/ at[t] \in Calling /\ on[t] = p
         \/ at[t] \notin Calling /\ ~Locked(p)
  PROVE  /\ Life(p) = LifeAt(at[t], state[p])
         /\ Life(p)' = LifeAt(at'[t], state'[p])
         /\ \A q \in Payloads \ {p} : Life(q)' = Life(q)
<1> USE DEF Calling
<1>1. /\ LifeFacts(p) /\ LifeFacts(p)'
      /\ \A q \in Payloads : LifeFacts(q) /\ LifeFacts(q)'
  BY LifeOf, LifeOfNext
<1>2. outer[t] # p /\ \A u \in Threads \ {t} : ~Holds(u, p)
  BY DEF Inv, Exclusive, Holds, Knows, Locked
<1>3. \A u \in Threads \ {t} :
        /\ outer[u] # p /\ outer'[u] # p
        /\ on[u] = p => at[u] \notin Calling
        /\ on'[u] = p => at'[u] \notin Calling
  BY <1>2 DEF Holds
<1>4. Life(p) = LifeAt(at[t], state[p])
  <2>1. CASE at[t] \in Calling /\ on[t] = p
    BY <1>1, <2>1 DEF LifeFacts, LifeAt, In, Invoked, Ending
  <2>2. CASE at[t] \notin Calling
    <3>1. ~In("initializing", p) /\ ~Invoked(p) /\ ~Ending(p)
      BY <1>2, <1>3, <2>2 DEF In, Invoked, Ending
    <3> QED
      BY <1>1, <2>2, <3>1 DEF LifeFacts, LifeAt
  <2> QED
    BY <2>1, <2>2
<1>5. Life(p)' = LifeAt(at'[t], state'[p])
  <2>1. CASE at'[t] \in Calling
    BY <1>1, <2>1 DEF LifeFacts, LifeAt, In, Invoked, Ending
  <2>2. CASE at'[t] \notin Calling
    <3>1. ~In("initializing", p)' /\ ~Invoked(p)' /\ ~Ending(p)'
      BY <1>2, <1>3, <2>2 DEF In, Invoked, Ending
    <3> QED
      BY <1>1, <2>2, <3>1 DEF LifeFacts, LifeAt
  <2> QED
    BY <2>1, <2>2
<1>6. ASSUME NEW q \in Payloads \ {p}
      PROVE  Life(q)' = Life(q)
  <2>1. \A step \in Calling : In(step, q)' <=> In(step, q)
    BY DEF In
  <2>2. Invoked(q)' <=> Invoked(q)
    BY <2>1 DEF Invoked
  <2>3. Ending(q)' <=> Ending(q)
    BY <2>1 DEF Ending
  <2> QED
    BY <2>1, <2>2, <2>3, SameLife
<1> QED
  BY <1>4, <1>5, <1>6

\* A step of PayloadLifecycle, or none.
Lives(p) == Life(p)' = Life(p) \/ Lifecycle(p)!Next

\* A thread that works on a payload takes it from one part of its life to the
\* next.
LEMMA WorkKeepsLives ==
  ASSUME Inv, Inv', NEW t \in Threads, Advance(t), at[t] \in Pending \cup Calling \cup {"closing"},
         ~HostReturn(t), ~CloseReturn(t)
  PROVE  \A p \in Payloads : Lives(p)
<1> SUFFICES \E p \in Payloads : Lives(p) /\ \A q \in Payloads \ {p} : Life(q)' = Life(q)
  BY DEF Lives
<1> USE DEF engine
<1>1. CASE ForceShutdown(t)
  <2>0. PICK p \in 1..loaded : p = Head(todo)
    BY <1>1 DEF ForceShutdown, Inv, Types
  <2>1. /\ p \in Payloads
        /\ UNCHANGED <<loaded, outer>> /\ at[t] = "closing" /\ ~Locked(p)
        /\ on' = [on EXCEPT ![t] = p]
        /\ \/ Step(t, "forcing") /\ UNCHANGED state /\ state[p] \in {"Enabled", "Disabled"}
           \/ Set(p, "Shutdown") /\ UNCHANGED at /\ state[p] \notin {"Enabled", "Disabled"}
    BY <1>1, <2>0, Loaded DEF ForceShutdown, Inv
  <2>2. /\ on'[t] = p /\ \A u \in Threads \ {t} : at'[u] = at[u] /\ on'[u] = on[u]
        /\ \A q \in Payloads \ {p} : state'[q] = state[q]
        /\ outer' = outer /\ at[t] \notin Calling
        /\ \/ at'[t] = "forcing" /\ state[p] \in {"Enabled", "Disabled"}
           \/ at'[t] = "closing" /\ state'[p] = "Shutdown"
                /\ state[p] \notin {"Enabled", "Disabled"}
    BY <2>1 DEF Inv, Types, Step, Set, Calling
  <2>3. /\ Life(p) = LifeAt(at[t], state[p])
        /\ Life(p)' = LifeAt(at'[t], state'[p])
        /\ \A q \in Payloads \ {p} : Life(q)' = Life(q)
    BY <2>1, <2>2, WorkLives
  <2>4. state[p] \in PayloadStates
    BY <2>1 DEF Inv, Types, Present
  <2>5. /\ Life(p) = Rest(state[p])
        /\ Life(p)' = IF at'[t] = "forcing" THEN "ending" ELSE Rest(state'[p])
    BY <2>1, <2>2, <2>3 DEF LifeAt
  <2>6. Lives(p)
    BY <2>2, <2>4, <2>5 DEF PayloadStates, Rest, Lives, Lifecycle!Next, Lifecycle!Move
  <2> QED
    BY <2>1, <2>3, <2>6
<1>2. CASE ~ForceShutdown(t)
  <2>0. PICK p \in Payloads : p = on[t] /\ p \in 1..loaded
    <3>1. at[t] # "closing"
      BY <1>2 DEF Advance, Enable, Disable, Invoke, ShutdownForUnload, InvokeReturn,
           RemovePayload, InitializeReturn, ShutdownReturn, ForceReturn, Granted
    <3> QED
      BY <3>1, Loaded DEF Inv, Knows
  <2>1. state[p] \in PayloadStates
        /\ (at[t] = "initializing" => state[p] = "Loaded")
        /\ (at[t] = "invoking" => state[p] = "Enabled")
    BY <2>0 DEF Inv, Knows, Types, Present
  <2> DEFINE Goes(step, s) == at' = [at EXCEPT ![t] = step] /\ state' = [state EXCEPT ![p] = s]
  <2>2. state = [state EXCEPT ![p] = state[p]]
    BY DEF Inv, Types
  <2>3. /\ UNCHANGED <<on, outer>>
        /\ at[t] \in Calling \/ (at[t] \notin Calling /\ ~Locked(p))
        /\ \/ at[t] \in Pending /\ state[p] = "Loaded" /\ Goes("initializing", state[p])
           \/ at[t] \in Pending /\ state[p] \in {"Disabled", "Enabled"} /\ Goes("idle", "Enabled")
           \/ at[t] \in Pending /\ Goes("idle", state[p])
           \/ at[t] \in Pending /\ state[p] = "Enabled" /\ Goes("idle", "Disabled")
           \/ at[t] \in Pending /\ state[p] = "Enabled" /\ Goes("invoking", state[p])
           \/ at[t] \in Pending /\ state[p] = "Disabled" /\ Goes("shutting", state[p])
           \/ at[t] \in Pending /\ state[p] \notin {"Enabled", "Disabled"} /\ Goes("removing", "Shutdown")
           \/ at[t] = "initializing" /\ (Goes("idle", "Enabled") \/ Goes("idle", state[p]))
           \/ at[t] = "invoking" /\ Goes("idle", state[p])
           \/ at[t] = "shutting" /\ (Goes("removing", "Shutdown") \/ Goes("idle", "ShutdownFailed"))
           \/ at[t] = "forcing" /\ (Goes("closing", "Shutdown") \/ Goes("closing", "ShutdownFailed"))
    BY <1>2, <2>0, <2>2
    DEF Advance, Enable, Disable, Invoke, ShutdownForUnload, InvokeReturn, RemovePayload,
        InitializeReturn, ShutdownReturn, ForceReturn, Granted, Step, Set, Pending, Calling
  <2>4. \A step, s : Goes(step, s) => at'[t] = step /\ state'[p] = s
    BY <2>0 DEF Inv, Types
  <2>5. /\ on'[t] = p /\ \A u \in Threads \ {t} : at'[u] = at[u] /\ on'[u] = on[u]
        /\ \A q \in Payloads \ {p} : state'[q] = state[q]
    BY <2>0, <2>3 DEF Inv, Types
  <2>6. /\ Life(p) = LifeAt(at[t], state[p])
        /\ Life(p)' = LifeAt(at'[t], state'[p])
        /\ \A q \in Payloads \ {p} : Life(q)' = Life(q)
    BY <2>0, <2>3, <2>5, WorkLives
  <2> DEFINE Reached(step, s) == at'[t] = step /\ state'[p] = s
  <2>7. \/ at[t] \in Pending /\ state[p] = "Loaded" /\ Reached("initializing", state[p])
        \/ at[t] \in Pending /\ state[p] \in {"Disabled", "Enabled"} /\ Reached("idle", "Enabled")
        \/ at[t] \in Pending /\ Reached("idle", state[p])
        \/ at[t] \in Pending /\ state[p] = "Enabled" /\ Reached("idle", "Disabled")
        \/ at[t] \in Pending /\ state[p] = "Enabled" /\ Reached("invoking", state[p])
        \/ at[t] \in Pending /\ state[p] = "Disabled" /\ Reached("shutting", state[p])
        \/ at[t] \in Pending /\ state[p] \notin {"Enabled", "Disabled"}
             /\ Reached("removing", "Shutdown")
        \/ at[t] = "initializing" /\ (Reached("idle", "Enabled") \/ Reached("idle", state[p]))
        \/ at[t] = "invoking" /\ Reached("idle", state[p])
        \/ at[t] \in {"shutting", "forcing"}
             /\ at'[t] \in {"idle", "removing", "closing"} /\ state'[p] \in Over
    <3> HIDE DEF Goes
    <3> QED
      BY <2>3, <2>4 DEF Over
  <2>8. Lives(p)
    BY <2>1, <2>6, <2>7
    DEF PayloadStates, Pending, Over, LifeAt, Rest, Lives, Lifecycle!Next, Lifecycle!Move
  <2> QED
    BY <2>0, <2>6, <2>8
<1> QED
  BY <1>1, <1>2

\* Any other step leaves every life as it is, but for the payload it loads.
LEMMA StepLives ==
  ASSUME Inv, Inv', [Next]_vars
  PROVE  \A p \in Payloads : Lives(p)
<1>1. CASE UNCHANGED vars
  BY <1>1 DEF vars, Lives, Life, In, Alone, Inside, Beyond
<1>2. ASSUME NEW t \in Threads, LoadPayload(t)
      PROVE  \A p \in Payloads : Lives(p)
  <2>1. PICK p \in Payloads : p = loaded + 1 /\ p \notin 1..loaded
    BY <1>2, EngineAssumption DEF LoadPayload, Inv, Types, Payloads
  <2>2. /\ UNCHANGED <<at, on, outer>> /\ state[p] = "Absent" /\ state'[p] = "Loaded"
        /\ \A q \in Payloads \ {p} : state'[q] = state[q]
    BY <1>2, <2>1 DEF LoadPayload, Set, Inv, Types, Present
  <2>3. ~In("initializing", p) /\ ~Invoked(p) /\ ~Ending(p)
    <3>1. p # None
      BY EngineAssumption DEF Payloads
    <3>2. \A u \in Threads : outer[u] # p /\ (at[u] \in Calling => on[u] # p)
      BY <2>1, <3>1 DEF Inv, Types, Knows
    <3> QED
      BY <3>2 DEF In, Invoked, Ending, Calling
  <2>4. Life(p) = "absent" /\ Life(p)' = "loaded"
    <3>1. ~In("initializing", p)' /\ ~Invoked(p)' /\ ~Ending(p)'
      BY <2>2, <2>3 DEF In, Invoked, Ending
    <3> QED
      BY <2>2, <2>3, <3>1, LifeOf, LifeOfNext DEF LifeFacts, Rest
  <2>5. \A q \in Payloads \ {p} : Life(q)' = Life(q)
    BY <2>2 DEF Life, In, Alone, Inside, Beyond
  <2> QED
    BY <2>4, <2>5 DEF Lives, Lifecycle!Next, Lifecycle!Move
<1>3. ASSUME NEW t \in Threads,
             \/ HostCall(t) \/ CloseBegin(t) \/ HostReturn(t) \/ CloseReturn(t) \/ RemovePayload(t)
             \/ \E op \in Pending, p \in Payloads : Lookup(t, op, p)
      PROVE  \A p \in Payloads : Lives(p)
  <2> SUFFICES ASSUME NEW p \in Payloads PROVE Life(p)' = Life(p)
    BY DEF Lives
  <2>1. /\ state' = state
        /\ \A u \in Threads \ {t} : at'[u] = at[u] /\ on'[u] = on[u] /\ outer'[u] = outer[u]
    BY <1>3
    DEF HostCall, CloseBegin, HostReturn, CloseReturn, RemovePayload, Lookup, Step, Inv, Types
  <2>2. at[t] \notin {"initializing", "shutting", "forcing"}
        /\ at'[t] \notin {"initializing", "shutting", "forcing"}
    BY <1>3
    DEF HostCall, CloseBegin, HostReturn, CloseReturn, RemovePayload, Lookup, Step, Inv, Types,
        Pending
  <2>3. ((at[t] = "invoking" /\ on[t] = p) \/ outer[t] = p)
          <=> ((at'[t] = "invoking" /\ on'[t] = p) \/ outer'[t] = p)
    BY <1>3, EngineAssumption
    DEF HostCall, CloseBegin, HostReturn, CloseReturn, RemovePayload, Lookup, Step, Inv, Types,
        Pending, Payloads
  <2>4. (In("initializing", p)' <=> In("initializing", p)) /\ (Ending(p)' <=> Ending(p))
    BY <2>1, <2>2 DEF In, Ending
  <2>5. Invoked(p)' <=> Invoked(p)
    BY <2>1, <2>3 DEF Invoked, In
  <2> QED
    BY <2>1, <2>4, <2>5, SameLife
<1>4. ASSUME NEW t \in Threads, Advance(t), ~HostReturn(t), ~CloseReturn(t), ~RemovePayload(t)
      PROVE  \A p \in Payloads : Lives(p)
  <2>1. at[t] \in Pending \cup Calling \cup {"closing"}
    BY <1>4
    DEF Advance, Enable, Disable, Invoke, ShutdownForUnload, InvokeReturn, ForceShutdown,
        InitializeReturn, ShutdownReturn, ForceReturn, Granted, Pending, Calling
  <2> QED
    BY <1>4, <2>1, WorkKeepsLives
<1> QED
  BY <1>1, <1>2, <1>3, <1>4 DEF Next

\* However the threads interleave, and whatever its host calls lead to, each
\* plugin is called as PayloadLifecycle has it: callbacks that do not overlap,
\* one successful initialize, at most one shutdown, nothing after it.
THEOREM SequentialLife == Spec => LivesAreSequential
<1>1. Init => \A p \in Payloads : Lifecycle(p)!Init
  BY EngineAssumption DEF Init, Lifecycle!Init, Life, In, Alone, Inside, Beyond, Calling, Rest, Payloads
<1>2. Inv /\ Inv' /\ [Next]_vars => [\A p \in Payloads : [Lifecycle(p)!Next]_(Life(p))]_vars
  <2> SUFFICES ASSUME Inv, Inv', [Next]_vars, NEW p \in Payloads
               PROVE  [Lifecycle(p)!Next]_(Life(p))
    OBVIOUS
  <2> QED
    BY StepLives DEF Lives
<1> QED
  BY <1>1, <1>2, Invariant, PTL DEF Spec, LivesAreSequential
=============================================================================
