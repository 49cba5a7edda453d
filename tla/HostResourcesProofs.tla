------------------------- MODULE HostResourcesProofs -------------------------
(***************************************************************************)
(* The invariants of HostResources for every number of threads, addresses  *)
(* and objects.  Buffers and references are proved apart: a step of the    *)
(* one kind is, for the other, at most a move of a thread that owns        *)
(* nothing of that kind.                                                   *)
(***************************************************************************)
EXTENDS HostResources, FiniteSetTheorems, TLAPS

-----------------------------------------------------------------------------
(* Buffers.                                                                *)

BufferTypes ==
    /\ active \in BOOLEAN /\ drained \in BOOLEAN
    /\ invoker \in Threads \cup {None}
    /\ at \in [Threads -> Steps]
    /\ table \in [Addresses -> 1..MaxSize \cup {None}]
    /\ held \in [Threads -> Buffer]

\* A thread owns a buffer at these steps only.
Owning == {"received", "allocated", "written"}

Ownership ==
    /\ \A t \in Threads : Owned(t) =>
          /\ held[t].data \in Addresses
          /\ table[held[t].data] = held[t].capacity
          /\ held[t].len <= held[t].capacity
    /\ \A t, u \in Threads : t # u /\ Owned(t) => held[u].data # held[t].data
    /\ \A a \in Addresses : table[a] # None => \E t \in Threads : held[t].data = a

\* An owner that holds no lease is the invoker, which is gone before the
\* context is deactivated; nobody acquires a lease afterwards.
Progress ==
    /\ \A t \in Threads : Owned(t) => at[t] \in Owning
    /\ \A t \in Threads : at[t] \in {"allocated", "written"} => invoker = t
    /\ ~active => invoker = None
    /\ drained => ~active /\ \A t \in Threads : ~HoldsLease(t)

BufferInv == BufferTypes /\ Ownership /\ Progress

\* Buffers are told apart from nothing by their address and their size.
LEMMA OwnedBuffers ==
  ASSUME BufferTypes, NEW t \in Threads
  PROVE  /\ held[t] \in Buffer
         /\ ~Owned(t) <=> held[t] = Empty
         /\ held[t] = Empty => held[t].data = None
<1> QED
  BY DEF BufferTypes, Owned, Empty

\* A thread that owns nothing receives a fresh address, or none at all.
LEMMA AllocateGivesOne ==
  ASSUME BufferTypes, Ownership, NEW t \in Threads, ~Owned(t),
         NEW n \in 0..MaxSize, NEW len \in 0..n, Allocate(t, n, len)
  PROVE  /\ table' \in [Addresses -> 1..MaxSize \cup {None}]
         /\ held' \in [Threads -> Buffer]
         /\ \A u \in Threads \ {t} : held'[u] = held[u]
         /\ Ownership'
<1> USE HostResourcesAssumption
<1>1. CASE n = 0
  <2>1. held' = held /\ table' = table
    BY <1>1, OwnedBuffers DEF Allocate, BufferTypes
  <2> QED
    BY <2>1 DEF BufferTypes, Ownership, Owned
<1>2. CASE n # 0
  <2>1. PICK a \in Free :
          /\ table' = [table EXCEPT ![a] = n]
          /\ held' = [held EXCEPT ![t] = [data |-> a, len |-> len, capacity |-> n]]
    BY <1>2 DEF Allocate
  <2>2. a \in Addresses /\ table[a] = None /\ n \in 1..MaxSize
    BY <1>2 DEF Free
  <2>3. [data |-> a, len |-> len, capacity |-> n] \in Buffer
    BY <2>2 DEF Buffer
  <2>4. /\ table' \in [Addresses -> 1..MaxSize \cup {None}]
        /\ held' \in [Threads -> Buffer]
    BY <2>1, <2>2, <2>3 DEF BufferTypes
  <2>5. /\ \A u \in Threads \ {t} : held'[u] = held[u]
        /\ held'[t].data = a /\ held'[t].len = len /\ held'[t].capacity = n
        /\ \A b \in Addresses \ {a} : table'[b] = table[b]
        /\ table'[a] = n
    BY <2>1, <2>2 DEF BufferTypes
  <2>6. \A u \in Threads : held[u].data # a
    <3> SUFFICES ASSUME NEW u \in Threads, held[u].data = a PROVE FALSE
      OBVIOUS
    <3>1. Owned(u)
      BY <2>2, OwnedBuffers
    <3>2. table[a] = held[u].capacity /\ held[u].capacity \in 0..MaxSize
      BY <3>1, OwnedBuffers DEF Ownership, Buffer
    <3> QED
      BY <3>2, <2>2
  <2>7. Owned(t)' /\ \A u \in Threads \ {t} : Owned(u)' <=> Owned(u)
    BY <2>2, <2>5 DEF Owned, Empty
  <2>8. \A u \in Threads : Owned(u)' =>
          /\ held'[u].data \in Addresses
          /\ table'[held'[u].data] = held'[u].capacity
          /\ held'[u].len <= held'[u].capacity
    BY <2>2, <2>5, <2>6, <2>7 DEF Ownership
  <2>9. \A u, v \in Threads : u # v /\ Owned(u)' => held'[v].data # held'[u].data
    <3> SUFFICES ASSUME NEW u \in Threads, NEW v \in Threads, u # v, Owned(u)'
                 PROVE  held'[v].data # held'[u].data
      OBVIOUS
    <3>1. CASE u = t
      BY <2>5, <2>6, <3>1
    <3>2. CASE v = t
      BY <2>5, <2>6, <3>2
    <3>3. CASE u # t /\ v # t
      BY <2>5, <2>7, <3>3 DEF Ownership
    <3> QED
      BY <3>1, <3>2, <3>3
  <2>10. \A b \in Addresses : table'[b] # None => \E u \in Threads : held'[u].data = b
    <3> SUFFICES ASSUME NEW b \in Addresses, table'[b] # None
                 PROVE  \E u \in Threads : held'[u].data = b
      OBVIOUS
    <3>1. CASE b = a
      BY <2>5, <3>1
    <3>2. CASE b # a
      <4>1. PICK u \in Threads : held[u].data = b
        BY <2>5, <3>2 DEF Ownership
      <4>2. u # t
        BY <4>1, OwnedBuffers
      <4> QED
        BY <2>5, <4>1, <4>2
    <3> QED
      BY <3>1, <3>2
  <2> QED
    BY <2>4, <2>5, <2>8, <2>9, <2>10 DEF Ownership
<1> QED
  BY <1>1, <1>2

\* A thread hands its buffer back: it owns nothing, and the address is free.
LEMMA SurrenderGivesBack ==
  ASSUME BufferTypes, Ownership, NEW t \in Threads, Surrender(t)
  PROVE  /\ table' \in [Addresses -> 1..MaxSize \cup {None}]
         /\ held' \in [Threads -> Buffer]
         /\ \A u \in Threads \ {t} : held'[u] = held[u]
         /\ ~Owned(t)'
         /\ Ownership'
<1> USE HostResourcesAssumption
<1>1. /\ held' = [held EXCEPT ![t] = Empty]
      /\ table' = IF held[t].capacity = 0 THEN table
                  ELSE [table EXCEPT ![held[t].data] = None]
  BY DEF Surrender
<1>2. Empty \in Buffer /\ Empty.data = None /\ Empty.capacity = 0
  BY DEF Empty, Buffer
<1>3. /\ held' \in [Threads -> Buffer]
      /\ \A u \in Threads \ {t} : held'[u] = held[u]
      /\ held'[t] = Empty
  BY <1>1, <1>2 DEF BufferTypes
<1>4. table' \in [Addresses -> 1..MaxSize \cup {None}]
  BY <1>1 DEF BufferTypes
<1>5. CASE ~Owned(t)
  <2>1. held' = held /\ table' = table
    BY <1>1, <1>2, <1>5, OwnedBuffers DEF BufferTypes
  <2> QED
    BY <1>3, <1>4, <1>5, <2>1 DEF Ownership, Owned
<1>6. CASE Owned(t)
  <2> DEFINE a == held[t].data
  <2>1. a \in Addresses /\ table[a] = held[t].capacity
    BY <1>6 DEF Ownership
  <2>2. table[a] # None /\ table[a] \in 1..MaxSize
    BY <2>1, OwnedBuffers DEF Buffer, BufferTypes
  <2>3. /\ table'[a] = None
        /\ \A b \in Addresses \ {a} : table'[b] = table[b]
    BY <1>1, <2>1, <2>2 DEF BufferTypes
  <2>4. \A u \in Threads \ {t} : held[u].data # a
    BY <1>6 DEF Ownership
  <2>5. \A u \in Threads : Owned(u)' => u # t /\ Owned(u)
    BY <1>3 DEF Owned
  <2>6. \A b \in Addresses : table'[b] # None => \E u \in Threads : held'[u].data = b
    <3> SUFFICES ASSUME NEW b \in Addresses, table'[b] # None
                 PROVE  \E u \in Threads : held'[u].data = b
      OBVIOUS
    <3>1. b # a /\ table[b] # None
      BY <2>3
    <3>2. PICK u \in Threads : held[u].data = b
      BY <3>1 DEF Ownership
    <3> QED
      BY <1>3, <3>1, <3>2
  <2>7. \A u \in Threads : Owned(u)' =>
          /\ held'[u].data \in Addresses
          /\ table'[held'[u].data] = held'[u].capacity
          /\ held'[u].len <= held'[u].capacity
    BY <1>3, <2>3, <2>4, <2>5 DEF Ownership
  <2>8. \A u, v \in Threads : u # v /\ Owned(u)' => held'[v].data # held'[u].data
    <3> SUFFICES ASSUME NEW u \in Threads, NEW v \in Threads, u # v, Owned(u)'
                 PROVE  held'[v].data # held'[u].data
      OBVIOUS
    <3>1. u # t /\ Owned(u) /\ held'[u] = held[u] /\ held[u].data \in Addresses
      BY <1>3, <2>5 DEF Ownership
    <3>2. CASE v = t
      BY <1>2, <1>3, <3>1, <3>2
    <3>3. CASE v # t
      BY <1>3, <3>1, <3>3 DEF Ownership
    <3> QED
      BY <3>2, <3>3
  <2> QED
    BY <1>3, <1>4, <2>6, <2>7, <2>8 DEF Ownership, Owned
<1> QED
  BY <1>5, <1>6

\* A step that moves no thread and touches no buffer changes nothing here.
LEMMA BufferIsAlone ==
  ASSUME BufferInv, UNCHANGED <<active, drained, invoker, at, bufferVars>>
  PROVE  BufferInv'
BY DEF BufferInv, BufferTypes, Ownership, Progress, Owned, HoldsLease, bufferVars

\* A thread that owns nothing moves on, without a new lease unless the context
\* is active.
LEMMA MoveKeepsBuffers ==
  ASSUME BufferInv, NEW t \in Threads, at[t] \notin Owning,
         NEW step \in Steps \ {"allocated", "written"}, Move(t, step),
         step \in Leased => active \/ HoldsLease(t),
         UNCHANGED <<active, drained, invoker, bufferVars>>
  PROVE  BufferInv'
<1>1. BufferTypes'
  BY DEF BufferInv, BufferTypes, Move, bufferVars
<1>2. Ownership'
  BY DEF BufferInv, Ownership, Owned, bufferVars
<1>3. \A u \in Threads : at'[u] = IF u = t THEN step ELSE at[u]
  BY DEF BufferInv, BufferTypes, Move
<1>4. ~Owned(t)
  BY DEF BufferInv, Progress
<1>5. Progress'
  BY <1>3, <1>4 DEF BufferInv, Progress, Owned, HoldsLease, bufferVars
<1> QED
  BY <1>1, <1>2, <1>5 DEF BufferInv

\* Every step keeps the buffers in order.
LEMMA BufferStepKeeps ==
  ASSUME BufferInv, [Next]_vars
  PROVE  BufferInv'
<1> USE HostResourcesAssumption
<1>1. ASSUME NEW t \in Threads, BufferStep(t)
      PROVE  BufferInv'
  <2>1. CASE CallBegin(t)
    BY <2>1, MoveKeepsBuffers DEF CallBegin, Owning, Steps, Leased
  <2>2. CASE CallAnswered(t)
    <3>1. PICK n \in 0..MaxSize : Allocate(t, n, n)
      BY <2>2 DEF CallAnswered
    <3>2. ~Owned(t) /\ ~drained
      BY <2>2 DEF CallAnswered, BufferInv, Progress, Owning, HoldsLease, Leased
    <3>3. n \in 0..n
      BY <3>1
    <3>4. /\ table' \in [Addresses -> 1..MaxSize \cup {None}]
          /\ held' \in [Threads -> Buffer]
          /\ \A u \in Threads \ {t} : held'[u] = held[u]
          /\ Ownership'
      BY <3>1, <3>2, <3>3, AllocateGivesOne DEF BufferInv
    <3>5. /\ \A u \in Threads : at'[u] = IF u = t THEN "received" ELSE at[u]
          /\ at' \in [Threads -> Steps]
      BY <2>2 DEF CallAnswered, Move, BufferInv, BufferTypes, Steps, Leased
    <3>6. UNCHANGED <<active, drained, invoker>>
      BY <2>2 DEF CallAnswered
    <3>7. Progress'
      BY <3>2, <3>4, <3>5, <3>6 DEF BufferInv, Progress, Owned, Owning
    <3> QED
      BY <3>4, <3>5, <3>6, <3>7 DEF BufferInv, BufferTypes
  <2>3. CASE CallRefused(t)
    BY <2>3, MoveKeepsBuffers DEF CallRefused, Owning, Steps, Leased
  <2>4. CASE CallReleases(t) \/ TakeOutput(t)
    <3>1. /\ Surrender(t) /\ Move(t, "idle") /\ UNCHANGED <<active, drained>>
          /\ invoker' = invoker \/ (invoker' = None /\ at[t] = "written")
      BY <2>4 DEF CallReleases, TakeOutput
    <3>2. /\ table' \in [Addresses -> 1..MaxSize \cup {None}]
          /\ held' \in [Threads -> Buffer]
          /\ \A u \in Threads \ {t} : held'[u] = held[u]
          /\ ~Owned(t)'
          /\ Ownership'
      BY <3>1, SurrenderGivesBack DEF BufferInv
    <3>3. /\ \A u \in Threads : at'[u] = IF u = t THEN "idle" ELSE at[u]
          /\ at' \in [Threads -> Steps]
      BY <3>1 DEF Move, BufferInv, BufferTypes, Steps
    <3>4. \A u \in Threads \ {t} : at[u] \in {"allocated", "written"} => invoker' = u
      BY <3>1 DEF BufferInv, Progress
    <3>5. Progress'
      BY <3>1, <3>2, <3>3, <3>4 DEF BufferInv, Progress, Owned, HoldsLease, Leased
    <3> QED
      BY <3>1, <3>2, <3>3, <3>5 DEF BufferInv, BufferTypes
  <2>5. CASE InvokeBegin(t)
    BY <2>5 DEF InvokeBegin, BufferInv, BufferTypes, Ownership, Progress, Owned,
                HoldsLease, bufferVars
  <2>6. CASE OutputAllocated(t)
    <3>1. PICK n \in 0..MaxSize : Allocate(t, n, 0)
      BY <2>6 DEF OutputAllocated
    <3>2. ~Owned(t) /\ ~drained
      BY <2>6 DEF OutputAllocated, BufferInv, Progress, Owning
    <3>3. 0 \in 0..n
      BY <3>1
    <3>4. /\ table' \in [Addresses -> 1..MaxSize \cup {None}]
          /\ held' \in [Threads -> Buffer]
          /\ \A u \in Threads \ {t} : held'[u] = held[u]
          /\ Ownership'
      BY <3>1, <3>2, <3>3, AllocateGivesOne DEF BufferInv
    <3>5. /\ \A u \in Threads : at'[u] = IF u = t THEN "allocated" ELSE at[u]
          /\ at' \in [Threads -> Steps]
      BY <2>6 DEF OutputAllocated, Move, BufferInv, BufferTypes, Steps, Leased
    <3>6. UNCHANGED <<active, drained, invoker>> /\ invoker = t
      BY <2>6 DEF OutputAllocated
    <3>7. Progress'
      BY <3>2, <3>4, <3>5, <3>6 DEF BufferInv, Progress, Owned, Owning
    <3> QED
      BY <3>4, <3>5, <3>6, <3>7 DEF BufferInv, BufferTypes
  <2>7. CASE OutputWritten(t)
    <3>1. /\ \A u \in Threads : at'[u] = IF u = t THEN "written" ELSE at[u]
          /\ at' \in [Threads -> Steps]
          /\ invoker = t
          /\ UNCHANGED <<active, drained, invoker, table>>
      BY <2>7 DEF OutputWritten, Move, BufferInv, BufferTypes, Progress, Steps
    <3>2. held' = [held EXCEPT ![t].len = held[t].capacity] /\ held[t] \in Buffer
      BY <2>7 DEF OutputWritten, BufferInv, BufferTypes
    <3>3. /\ held' \in [Threads -> Buffer]
          /\ \A u \in Threads : /\ held'[u].data = held[u].data
                                /\ held'[u].capacity = held[u].capacity
                                /\ u # t => held'[u] = held[u]
          /\ held'[t].len = held'[t].capacity
      BY <3>2 DEF BufferInv, BufferTypes, Buffer
    <3>4. ~Owned(t) => ~Owned(t)'
      BY <3>2, <3>3, OwnedBuffers DEF BufferInv, Owned, Empty
    <3>5. \A u \in Threads : Owned(u)' => Owned(u)
      BY <3>3, <3>4 DEF Owned
    <3>6. Ownership'
      BY <3>1, <3>3, <3>5 DEF BufferInv, BufferTypes, Buffer, Ownership
    <3>7. Progress'
      BY <3>1, <3>5, <3>3 DEF BufferInv, Progress, Owning, HoldsLease, Leased
    <3> QED
      BY <3>1, <3>3, <3>6, <3>7 DEF BufferInv, BufferTypes
  <2>8. CASE InvokeFails(t)
    BY <2>8 DEF InvokeFails, BufferInv, BufferTypes, Ownership, Progress, Owned,
                HoldsLease, bufferVars
  <2> QED
    BY <1>1, <2>1, <2>2, <2>3, <2>4, <2>5, <2>6, <2>7, <2>8 DEF BufferStep
<1>2. ASSUME NEW t \in Threads, HandleStep(t)
      PROVE  BufferInv'
  <2>1. CASE UNCHANGED <<active, drained, invoker, at, bufferVars>>
    BY <2>1, BufferIsAlone
  <2>2. ASSUME NEW step \in {"idle", "checked", "retaining", "releasing"}, Move(t, step),
               step \in Leased => active \/ HoldsLease(t),
               at[t] \in {"idle", "checked", "retaining", "releasing"},
               UNCHANGED <<active, drained, invoker, bufferVars>>
        PROVE  BufferInv'
    BY <2>2, MoveKeepsBuffers DEF Owning, Steps, Leased
  <2>3. CASE \E o \in Objects : Adopt(t, o) \/ BorrowBegin(t, o) \/ DropHandle(t, o)
    BY <2>1, <2>2, <2>3 DEF Adopt, BorrowBegin, DropHandle, Leased
  <2>4. CASE RetainBegin(t)
    BY <2>2, <2>4 DEF RetainBegin, EndOfCall, Leased
  <2>5. CASE Retained(t) \/ RetainRefused(t) \/ Released(t) \/ ReleaseFails(t)
    BY <2>2, <2>5 DEF Retained, RetainRefused, Released, ReleaseFails, EndOfCall, Leased
  <2> QED
    BY <1>2, <2>3, <2>4, <2>5 DEF HandleStep
<1>3. ASSUME NEW o \in Objects, HostTransfers(o)
      PROVE  BufferInv'
  BY <1>3, BufferIsAlone DEF HostTransfers
<1>4. CASE Deactivate
  BY <1>4 DEF Deactivate, BufferInv, BufferTypes, Ownership, Progress, Owned,
              HoldsLease, bufferVars
<1>5. CASE Drained
  BY <1>5 DEF Drained, BufferInv, BufferTypes, Ownership, Progress, Owned,
              HoldsLease, bufferVars
<1>6. CASE UNCHANGED vars
  BY <1>6, BufferIsAlone DEF vars, bufferVars, handleVars
<1> QED
  BY <1>1, <1>2, <1>3, <1>4, <1>5, <1>6 DEF Next

LEMMA BufferInvariant == Spec => []BufferInv
<1>1. Init => BufferInv
  <2> SUFFICES ASSUME Init PROVE BufferInv
    OBVIOUS
  <2>1. Empty \in Buffer
    BY HostResourcesAssumption DEF Empty, Buffer
  <2> QED
    BY <2>1, HostResourcesAssumption
    DEF Init, BufferInv, BufferTypes, Ownership, Progress, Owned, Steps, Leased, HoldsLease
<1>2. BufferInv /\ [Next]_vars => BufferInv'
  BY BufferStepKeeps
<1> QED
  BY <1>1, <1>2, PTL DEF Spec

\* Every buffer the plugin side holds is an allocation of the host with that
\* capacity, held by one thread only, and every allocation is held: nothing is
\* used after its release, released twice or lost, although addresses are used
\* again (HostBuffer, HostCallbacks::allocate, release and take_output).
THEOREM OneOwner == Spec => []BuffersHaveOneOwner
<1>1. BufferInv => BuffersHaveOneOwner
  <2> SUFFICES ASSUME BufferInv PROVE BuffersHaveOneOwner
    OBVIOUS
  <2> QED
    BY HostResourcesAssumption
    DEF BufferInv, BufferTypes, Ownership, BuffersHaveOneOwner, Free
<1> QED
  BY <1>1, BufferInvariant, PTL

\* When deactivate() has returned no buffer is allocated and no host call is
\* in progress or begins: the host may free its table.
THEOREM NothingLeft == Spec => []NothingOutstanding
<1>1. BufferInv => NothingOutstanding
  <2> SUFFICES ASSUME BufferInv, drained
               PROVE  /\ Free = Addresses
                      /\ \A t \in Threads : ~Owned(t) /\ ~HoldsLease(t)
    BY DEF NothingOutstanding
  <2>1. ~active /\ invoker = None /\ \A t \in Threads : ~HoldsLease(t)
    BY DEF BufferInv, Progress
  <2>2. \A t \in Threads : ~Owned(t)
    BY <2>1, HostResourcesAssumption
    DEF BufferInv, Progress, Owning, HoldsLease, Leased
  <2>3. \A t \in Threads : held[t].data = None
    BY <2>2, OwnedBuffers DEF BufferInv
  <2>4. \A a \in Addresses : table[a] = None
    BY <2>3, HostResourcesAssumption DEF BufferInv, Ownership
  <2> QED
    BY <2>1, <2>2, <2>4 DEF Free
<1> QED
  BY <1>1, BufferInvariant, PTL

-----------------------------------------------------------------------------
(* References.                                                             *)

HandleTypes ==
    /\ on \in [Threads -> Objects \cup {None}]
    /\ wrappers \in [Objects -> 0..MaxRefs]
    /\ loose \in [Objects -> 0..MaxRefs]
    /\ refs \in [Objects -> 0..MaxRefs]
    /\ failures \in 0..MaxFailures

AtHandle == {"checked", "retaining", "releasing"}

HandleInv ==
    /\ at \in [Threads -> Steps]
    /\ HandleTypes
    /\ \A t \in Threads : at[t] \in AtHandle => on[t] \in Objects
    /\ ReferencesBalance

\* Only thread t moves.
OnlyMoves(t) == \A u \in Threads \ {t} : at'[u] = at[u] /\ on'[u] = on[u]

\* There are finitely many releases under way.
LEMMA ReleasingFinite ==
  ASSUME NEW o \in Objects
  PROVE  IsFiniteSet(Releasing(o)) /\ Cardinality(Releasing(o)) \in Nat
BY HostResourcesAssumption, FS_Subset, FS_CardinalityType DEF Releasing

\* A thread that is not in a release before or after makes no difference.
LEMMA ReleasingSame ==
  ASSUME NEW t \in Threads, OnlyMoves(t), at[t] # "releasing", at'[t] # "releasing",
         NEW o \in Objects
  PROVE  Releasing(o)' = Releasing(o)
BY DEF OnlyMoves, Releasing

\* A release that begins is one more of its object.
LEMMA ReleasingMore ==
  ASSUME NEW t \in Threads, OnlyMoves(t), at[t] # "releasing", at'[t] = "releasing",
         NEW o \in Objects
  PROVE  Cardinality(Releasing(o)')
           = Cardinality(Releasing(o)) + IF on'[t] = o THEN 1 ELSE 0
<1>1. CASE on'[t] = o
  <2>1. Releasing(o)' = Releasing(o) \cup {t} /\ t \notin Releasing(o)
    BY <1>1 DEF OnlyMoves, Releasing
  <2> QED
    BY <1>1, <2>1, ReleasingFinite, FS_AddElement
<1>2. CASE on'[t] # o
  <2>1. Releasing(o)' = Releasing(o)
    BY <1>2 DEF OnlyMoves, Releasing
  <2> QED
    BY <1>2, <2>1, ReleasingFinite
<1> QED
  BY <1>1, <1>2

\* A release that ends is one less.
LEMMA ReleasingLess ==
  ASSUME NEW t \in Threads, OnlyMoves(t), at[t] = "releasing", at'[t] # "releasing",
         NEW o \in Objects
  PROVE  Cardinality(Releasing(o)')
           = Cardinality(Releasing(o)) - IF on[t] = o THEN 1 ELSE 0
<1>1. CASE on[t] = o
  <2>1. Releasing(o)' = Releasing(o) \ {t} /\ t \in Releasing(o)
    BY <1>1 DEF OnlyMoves, Releasing
  <2> QED
    BY <1>1, <2>1, ReleasingFinite, FS_RemoveElement
<1>2. CASE on[t] # o
  <2>1. Releasing(o)' = Releasing(o)
    BY <1>2 DEF OnlyMoves, Releasing
  <2> QED
    BY <1>2, <2>1, ReleasingFinite
<1> QED
  BY <1>1, <1>2

\* Moves that are no release, with every count as it was.
LEMMA MoveKeepsHandles ==
  ASSUME HandleInv, NEW t \in Threads, NEW step \in Steps \ {"releasing"}, Move(t, step),
         at[t] # "releasing", on' \in [Threads -> Objects \cup {None}],
         \A u \in Threads \ {t} : on'[u] = on[u],
         step \in AtHandle => on'[t] \in Objects,
         UNCHANGED <<wrappers, loose, refs, failures>>, active' => active
  PROVE  HandleInv'
<1>1. at' \in [Threads -> Steps] /\ \A u \in Threads : at'[u] = IF u = t THEN step ELSE at[u]
  BY DEF HandleInv, Move
<1>2. OnlyMoves(t)
  BY <1>1 DEF OnlyMoves
<1>3. HandleTypes'
  BY DEF HandleInv, HandleTypes
<1>4. ReferencesBalance'
  <2>1. \A o \in Objects : Releasing(o)' = Releasing(o)
    BY <1>1, <1>2, ReleasingSame
  <2>2. \A o \in Objects : Accounted(o)' = Accounted(o)
    BY <2>1 DEF Accounted
  <2> QED
    BY <2>2 DEF HandleInv, ReferencesBalance
<1> QED
  BY <1>1, <1>3, <1>4 DEF HandleInv, AtHandle

\* The end of a call on an object, in terms of single threads.
LEMMA CallEnds ==
  ASSUME HandleInv, NEW t \in Threads, EndOfCall(t)
  PROVE  /\ at' \in [Threads -> Steps]
         /\ on' \in [Threads -> Objects \cup {None}]
         /\ OnlyMoves(t) /\ at'[t] = "idle"
BY DEF HandleInv, HandleTypes, EndOfCall, Move, OnlyMoves, Steps

\* Every step keeps the references in balance.
LEMMA HandleStepKeeps ==
  ASSUME HandleInv, BufferInv, [Next]_vars
  PROVE  HandleInv'
<1> USE HostResourcesAssumption
<1>0. \A o \in Objects : /\ Cardinality(Releasing(o)) \in Nat
                         /\ wrappers[o] \in 0..MaxRefs /\ loose[o] \in 0..MaxRefs
                         /\ refs[o] \in 0..MaxRefs /\ failures \in 0..MaxFailures
                         /\ Accounted(o) <= refs[o]
                         /\ active => refs[o] <= Accounted(o) + failures
  BY ReleasingFinite DEF HandleInv, HandleTypes, ReferencesBalance
<1>1. ASSUME NEW t \in Threads, BufferStep(t)
      PROVE  HandleInv'
  <2>1. CASE UNCHANGED <<active, at, handleVars>>
    BY <2>1 DEF HandleInv, HandleTypes, ReferencesBalance, Accounted, Releasing,
                AtHandle, handleVars
  <2>2. ASSUME NEW step \in {"calling", "received", "idle", "allocated", "written"},
               Move(t, step), at[t] # "releasing", active' => active,
               UNCHANGED handleVars
        PROVE  HandleInv'
    BY <2>2, MoveKeepsHandles DEF HandleInv, HandleTypes, AtHandle, Steps, Leased, handleVars
  <2>3. CASE InvokeBegin(t) \/ InvokeFails(t)
    BY <2>1, <2>3 DEF InvokeBegin, InvokeFails
  <2>4. CASE CallBegin(t) \/ CallAnswered(t) \/ CallRefused(t) \/ CallReleases(t)
    BY <2>2, <2>4 DEF CallBegin, CallAnswered, CallRefused, CallReleases
  <2>5. CASE OutputAllocated(t) \/ OutputWritten(t) \/ TakeOutput(t)
    BY <2>2, <2>5 DEF OutputAllocated, OutputWritten, TakeOutput
  <2> QED
    BY <1>1, <2>3, <2>4, <2>5 DEF BufferStep
<1>2. ASSUME NEW t \in Threads, RetainBegin(t) \/ RetainRefused(t)
      PROVE  HandleInv'
  BY <1>2, MoveKeepsHandles
  DEF RetainBegin, RetainRefused, EndOfCall, Move, HandleInv, HandleTypes, AtHandle,
      Steps, Leased
<1>3. ASSUME NEW t \in Threads, Retained(t)
      PROVE  HandleInv'
  <2>1. PICK o \in Objects : o = on[t]
    BY <1>3 DEF Retained, HandleInv, AtHandle
  <2>2. /\ refs' = [refs EXCEPT ![o] = @ + 1] /\ refs[o] < MaxRefs
        /\ wrappers' = [wrappers EXCEPT ![o] = @ + 1]
        /\ at[t] = "retaining" /\ UNCHANGED <<active, loose, failures>>
    BY <1>3, <2>1 DEF Retained
  <2>3. /\ at' \in [Threads -> Steps] /\ on' \in [Threads -> Objects \cup {None}]
        /\ OnlyMoves(t) /\ at'[t] = "idle"
    BY <1>3, CallEnds DEF Retained
  <2>4. \A x \in Objects : Releasing(x)' = Releasing(x)
    BY <2>2, <2>3, ReleasingSame
  <2>5. \A x \in Objects :
          /\ refs'[x] = IF x = o THEN refs[x] + 1 ELSE refs[x]
          /\ wrappers'[x] = IF x = o THEN wrappers[x] + 1 ELSE wrappers[x]
    BY <2>2 DEF HandleInv, HandleTypes
  <2>6. ReferencesBalance'
    BY <1>0, <2>2, <2>4, <2>5 DEF ReferencesBalance, Accounted
  <2>7. wrappers[o] + 1 <= MaxRefs
    BY <1>0, <2>2 DEF Accounted
  <2>8. HandleTypes'
    BY <2>2, <2>3, <2>7 DEF HandleInv, HandleTypes
  <2> QED
    BY <2>3, <2>6, <2>8 DEF HandleInv, AtHandle, OnlyMoves
<1>4. ASSUME NEW t \in Threads, Released(t)
      PROVE  HandleInv'
  <2>1. PICK o \in Objects : o = on[t]
    BY <1>4 DEF Released, HandleInv, AtHandle
  <2>2. /\ refs' = [refs EXCEPT ![o] = @ - 1] /\ at[t] = "releasing"
        /\ UNCHANGED <<active, wrappers, loose, failures>>
    BY <1>4, <2>1 DEF Released
  <2>3. /\ at' \in [Threads -> Steps] /\ on' \in [Threads -> Objects \cup {None}]
        /\ OnlyMoves(t) /\ at'[t] = "idle"
    BY <1>4, CallEnds DEF Released
  <2>4. \A x \in Objects : Cardinality(Releasing(x)')
                             = Cardinality(Releasing(x)) - IF o = x THEN 1 ELSE 0
    BY <2>1, <2>2, <2>3, ReleasingLess
  <2>5. \A x \in Objects : refs'[x] = refs[x] - IF o = x THEN 1 ELSE 0
    BY <1>0, <2>2 DEF HandleInv, HandleTypes
  <2>6. t \in Releasing(o) /\ Cardinality(Releasing(o)) # 0
    <3>1. t \in Releasing(o)
      BY <2>1, <2>2 DEF Releasing
    <3> QED
      BY <3>1, ReleasingFinite, FS_EmptySet
  <2>7. Cardinality(Releasing(o)) >= 1 /\ refs[o] >= 1
    BY <1>0, <2>6 DEF Accounted
  <2>8. ReferencesBalance'
    BY <1>0, <2>2, <2>4, <2>5 DEF ReferencesBalance, Accounted
  <2>9. HandleTypes'
    BY <2>2, <2>3, <2>7 DEF HandleInv, HandleTypes
  <2> QED
    BY <2>3, <2>8, <2>9 DEF HandleInv, AtHandle, OnlyMoves
<1>5. ASSUME NEW t \in Threads, ReleaseFails(t)
      PROVE  HandleInv'
  <2>1. PICK o \in Objects : o = on[t]
    BY <1>5 DEF ReleaseFails, HandleInv, AtHandle
  <2>2. /\ failures' = failures + 1 /\ failures < MaxFailures /\ at[t] = "releasing"
        /\ UNCHANGED <<active, wrappers, loose, refs>>
    BY <1>5 DEF ReleaseFails
  <2>3. /\ at' \in [Threads -> Steps] /\ on' \in [Threads -> Objects \cup {None}]
        /\ OnlyMoves(t) /\ at'[t] = "idle"
    BY <1>5, CallEnds DEF ReleaseFails
  <2>4. \A x \in Objects : Cardinality(Releasing(x)')
                             = Cardinality(Releasing(x)) - IF o = x THEN 1 ELSE 0
    BY <2>1, <2>2, <2>3, ReleasingLess
  <2>5. ReferencesBalance'
    BY <1>0, <2>2, <2>4 DEF ReferencesBalance, Accounted
  <2>6. HandleTypes'
    BY <2>2, <2>3 DEF HandleInv, HandleTypes
  <2> QED
    BY <2>3, <2>5, <2>6 DEF HandleInv, AtHandle, OnlyMoves
<1>6. ASSUME NEW t \in Threads, NEW o \in Objects, Adopt(t, o)
      PROVE  HandleInv'
  <2>1. /\ loose' = [loose EXCEPT ![o] = @ - 1] /\ loose[o] > 0
        /\ wrappers' = [wrappers EXCEPT ![o] = @ + 1]
        /\ UNCHANGED <<active, at, on, refs, failures>>
    BY <1>6 DEF Adopt
  <2>2. \A x \in Objects :
          /\ loose'[x] = loose[x] - IF o = x THEN 1 ELSE 0
          /\ wrappers'[x] = wrappers[x] + IF o = x THEN 1 ELSE 0
          /\ Releasing(x)' = Releasing(x)
    BY <1>0, <2>1 DEF HandleInv, HandleTypes, Releasing
  <2>3. ReferencesBalance'
    BY <1>0, <2>1, <2>2 DEF ReferencesBalance, Accounted
  <2>4. wrappers[o] + 1 <= MaxRefs
    BY <1>0, <2>1 DEF Accounted
  <2>5. HandleTypes'
    BY <2>1, <2>4 DEF HandleInv, HandleTypes
  <2> QED
    BY <2>1, <2>3, <2>5 DEF HandleInv, AtHandle
<1>7. ASSUME NEW t \in Threads, NEW o \in Objects, BorrowBegin(t, o)
      PROVE  HandleInv'
  BY <1>7, MoveKeepsHandles
  DEF BorrowBegin, Move, HandleInv, HandleTypes, AtHandle, Steps
<1>8. ASSUME NEW t \in Threads, NEW o \in Objects, DropHandle(t, o)
      PROVE  HandleInv'
  <2>1. /\ wrappers' = [wrappers EXCEPT ![o] = @ - 1] /\ wrappers[o] > 0
        /\ at[t] = "idle" /\ UNCHANGED <<active, loose, refs, failures>>
    BY <1>8 DEF DropHandle
  <2>2. HandleTypes' /\ at' \in [Threads -> Steps] /\ OnlyMoves(t)
    BY <1>8, <2>1 DEF DropHandle, Move, HandleInv, HandleTypes, OnlyMoves, Steps, Leased
  <2>3. \A x \in Objects : wrappers'[x] = wrappers[x] - IF o = x THEN 1 ELSE 0
    BY <1>0, <2>1 DEF HandleInv, HandleTypes
  <2>4. CASE active
    <3>1. at'[t] = "releasing" /\ on'[t] = o
      BY <1>8, <2>4 DEF DropHandle, Move, HandleInv, HandleTypes
    <3>2. \A x \in Objects : Cardinality(Releasing(x)')
                               = Cardinality(Releasing(x)) + IF o = x THEN 1 ELSE 0
      BY <2>1, <2>2, <3>1, ReleasingMore
    <3>3. ReferencesBalance'
      BY <1>0, <2>1, <2>3, <3>2 DEF ReferencesBalance, Accounted
    <3> QED
      BY <2>2, <3>1, <3>3 DEF HandleInv, AtHandle, OnlyMoves
  <2>5. CASE ~active
    <3>1. UNCHANGED <<at, on>>
      BY <1>8, <2>5 DEF DropHandle
    <3>2. \A x \in Objects : Releasing(x)' = Releasing(x)
      BY <3>1 DEF Releasing
    <3>3. ReferencesBalance'
      BY <1>0, <2>1, <2>3, <2>5, <3>2 DEF ReferencesBalance, Accounted
    <3> QED
      BY <2>2, <3>1, <3>3 DEF HandleInv, AtHandle
  <2> QED
    BY <2>4, <2>5
<1>9. ASSUME NEW o \in Objects, HostTransfers(o)
      PROVE  HandleInv'
  <2>1. /\ refs' = [refs EXCEPT ![o] = @ + 1] /\ refs[o] < MaxRefs
        /\ loose' = [loose EXCEPT ![o] = @ + 1]
        /\ UNCHANGED <<active, at, on, wrappers, failures>>
    BY <1>9 DEF HostTransfers
  <2>2. \A x \in Objects :
          /\ refs'[x] = refs[x] + IF o = x THEN 1 ELSE 0
          /\ loose'[x] = loose[x] + IF o = x THEN 1 ELSE 0
          /\ Releasing(x)' = Releasing(x)
    BY <1>0, <2>1 DEF HandleInv, HandleTypes, Releasing
  <2>3. ReferencesBalance'
    BY <1>0, <2>1, <2>2 DEF ReferencesBalance, Accounted
  <2>4. loose[o] + 1 <= MaxRefs
    BY <1>0, <2>1 DEF Accounted
  <2>5. HandleTypes'
    BY <2>1, <2>4 DEF HandleInv, HandleTypes
  <2> QED
    BY <2>1, <2>3, <2>5 DEF HandleInv, AtHandle
<1>10. CASE Deactivate \/ Drained \/ UNCHANGED vars
  BY <1>10
  DEF Deactivate, Drained, vars, handleVars, HandleInv, HandleTypes, AtHandle,
      ReferencesBalance, Accounted, Releasing
<1> QED
  BY <1>1, <1>2, <1>3, <1>4, <1>5, <1>6, <1>7, <1>8, <1>9, <1>10 DEF Next, HandleStep

LEMMA HandleInvariant == Spec => []HandleInv
<1>1. Init => HandleInv
  <2> SUFFICES ASSUME Init PROVE HandleInv
    OBVIOUS
  <2>1. \A o \in Objects : Cardinality(Releasing(o)) = 0
    BY FS_EmptySet DEF Init, Releasing
  <2> QED
    BY <2>1, HostResourcesAssumption
    DEF Init, HandleInv, HandleTypes, AtHandle, ReferencesBalance, Accounted, Steps
<1>2. HandleInv /\ BufferInv /\ [Next]_vars => HandleInv'
  BY HandleStepKeeps
<1> QED
  BY <1>1, <1>2, BufferInvariant, PTL DEF Spec

\* No object handle outlives the launcher's references, and while host calls
\* are admitted no reference is lost without being counted (ObjectHandle).
THEOREM HandlesBalance == Spec => []ReferencesBalance
<1>1. HandleInv => ReferencesBalance
  BY DEF HandleInv
<1> QED
  BY <1>1, HandleInvariant, PTL

\* Every variable keeps its type: no count exceeds the references there are.
THEOREM TypeCorrect == Spec => []TypeOK
<1>1. BufferInv /\ HandleInv => TypeOK
  BY DEF BufferInv, BufferTypes, HandleInv, HandleTypes, TypeOK
<1> QED
  BY <1>1, BufferInvariant, HandleInvariant, PTL
=============================================================================
