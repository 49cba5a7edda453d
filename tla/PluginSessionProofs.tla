------------------------- MODULE PluginSessionProofs -------------------------
(***************************************************************************)
(* Proofs about PluginSession, for any number of threads and contexts and  *)
(* any depth of the call stacks.  The counters of the SDK (the strong      *)
(* count of a session, the invocations in its gate, the leases of its      *)
(* host) are the cardinalities of sets of frames of the call stacks, and   *)
(* every action changes at most one frame at the top of a stack, apart     *)
(* from the threads it wakes.  The lemmas of the first part say what each  *)
(* operation on the stacks does to those sets; each action then keeps the  *)
(* life of every context.                                                  *)
(***************************************************************************)
EXTENDS PluginSession, FiniteSetTheorems, TLAPS

\* The call stacks are stacks of frames of bounded depth.

StackOK ==
    /\ stack \in [Threads -> Seq(Frame)]
    /\ \A t \in Threads : Len(stack[t]) <= MaxStack

\* FramesAt of any stacks.
FramesOf(st, c, steps) ==
    {p \in Threads \X (1..MaxStack) :
        /\ p[2] <= Len(st[p[1]])
        /\ st[p[1]][p[2]].ctx = c
        /\ st[p[1]][p[2]].at \in steps}

\* The position of the frame a thread is in.
Pos(t) == <<t, Len(stack[t])>>

\* The position a call of the thread takes.
Above(t) == <<t, Len(stack[t]) + 1>>

On(c, steps) == FramesOf(stack, c, steps)

\* An invocation of context c is under way.
Running == {"invoke", "leave"}

\* The thread that gives a context its life and ends it.
Owning == {"initialize", "install", "wait", "asleep", "unwrap", "shutdown", "drop"}
            \cup Deactivating

Draining == {"recheck", "blocked", "close"}

Typed ==
    /\ StackOK
    /\ slot \in Contexts \cup {None}
    /\ created \subseteq Contexts
    /\ refs \in [Contexts -> Int] /\ invocations \in [Contexts -> Int]
    /\ inFlight \in [Contexts -> Int]
    /\ accepting \in [Contexts -> BOOLEAN] /\ active \in [Contexts -> BOOLEAN]

\* The counters count frames; the slot, or the shutdown that took it, has one
\* more reference to the session.
Held(c) == slot = c \/ On(c, {"wait", "asleep", "unwrap"}) # {}

Counts(c) ==
    /\ invocations[c] = Cardinality(On(c, Running))
    /\ refs[c] = Cardinality(On(c, {"invoke"})) + (IF Held(c) THEN 1 ELSE 0)
    /\ inFlight[c] = Cardinality(On(c, {"host"}))

\* A context belongs to one thread or to the slot.
Owned(c) ==
    /\ \A p, q \in On(c, Owning) : p = q
    /\ slot = c => On(c, Owning) = {}

\* Invocations are in an open session, or in one whose shutdown waits for them.
Entered(c) == On(c, Running) # {} => slot = c \/ On(c, {"wait", "asleep"}) # {}

Unborn(c) == c \notin created => slot # c /\ On(c, Steps) = {} /\ active[c]

\* Only host calls are left of a context that was deactivated.
Shut(c) == ~active[c] => slot # c /\ On(c, Steps \ (Draining \cup {"host"})) = {}

Drains(c) ==
    /\ On(c, Draining) # {} => ~active[c]
    /\ On(c, {"close"}) # {} => On(c, {"host"}) = {}

Over(c) == c \in created /\ slot # c /\ On(c, Owning) = {} =>
    ~active[c] /\ On(c, {"host"}) = {}

Lives(c) ==
    /\ Counts(c) /\ Owned(c) /\ Entered(c)
    /\ Unborn(c) /\ Shut(c) /\ Drains(c) /\ Over(c)

Inv == Typed /\ \A c \in Contexts : Lives(c)

-----------------------------------------------------------------------------
(* What the operations on the call stacks do to the sets of frames.        *)

USE PluginSessionAssumption

\* The frame a thread is in, as an element of the sets of frames.
LEMMA TopTyped ==
  ASSUME StackOK, NEW t \in Threads, ~Idle(t)
  PROVE  /\ Len(stack[t]) \in 1..MaxStack /\ Top(t) \in Frame
         /\ Top(t).at \in Steps /\ Top(t).ctx \in Contexts
         /\ \A d, S : Pos(t) \in FramesOf(stack, d, S) <=> Top(t).ctx = d /\ Top(t).at \in S
<1>1. stack[t] \in Seq(Frame) /\ stack[t] # <<>>
  BY DEF StackOK, Idle
<1>2. Len(stack[t]) \in 1..MaxStack
  BY <1>1 DEF StackOK
<1>3. Top(t) \in Frame
  BY <1>1, <1>2 DEF Top
<1>4. \A d, S : Pos(t) \in FramesOf(stack, d, S) <=> Top(t).ctx = d /\ Top(t).at \in S
  BY <1>2 DEF FramesOf, Pos, Top
<1> QED BY <1>2, <1>3, <1>4 DEF Frame

\* A call adds one frame.
LEMMA CallAdds ==
  ASSUME StackOK, NEW t \in Threads, HasRoom(t), NEW s \in Steps, NEW c \in Contexts,
         Call(t, s, c), NEW d, NEW S
  PROVE  /\ FramesOf(stack', d, S) =
              IF c = d /\ s \in S THEN FramesOf(stack, d, S) \cup {Above(t)}
                                 ELSE FramesOf(stack, d, S)
         /\ Above(t) \notin FramesOf(stack, d, S)
         /\ Above(t) \in Threads \X (1..MaxStack)
         /\ StackOK'
<1>1. stack[t] \in Seq(Frame) /\ Len(stack[t]) \in Nat /\ Len(stack[t]) < MaxStack
  BY DEF StackOK, HasRoom, Room
<1>2. /\ stack'[t] = Append(stack[t], [at |-> s, ctx |-> c])
      /\ \A u \in Threads \ {t} : stack'[u] = stack[u]
  BY DEF Call, StackOK
<1>3. /\ Len(stack'[t]) = Len(stack[t]) + 1
      /\ stack'[t][Len(stack[t]) + 1] = [at |-> s, ctx |-> c]
      /\ \A i \in 1..Len(stack[t]) : stack'[t][i] = stack[t][i]
  BY <1>1, <1>2
<1>4. Above(t) \in Threads \X (1..MaxStack) /\ Above(t) \notin FramesOf(stack, d, S)
  BY <1>1, <1>3 DEF Above, FramesOf
<1>5. \A p \in Threads \X (1..MaxStack) :
        p \in FramesOf(stack', d, S) <=>
          p \in FramesOf(stack, d, S) \/ (p = Above(t) /\ c = d /\ s \in S)
  <2> TAKE p \in Threads \X (1..MaxStack)
  <2>1. PICK u \in Threads, i \in 1..MaxStack : p = <<u, i>>
    OBVIOUS
  <2>2. CASE u # t
    BY <2>1, <2>2, <1>2, <1>4 DEF FramesOf, Above
  <2>3. CASE u = t /\ i <= Len(stack[t])
    BY <2>1, <2>3, <1>1, <1>3, <1>4 DEF FramesOf, Above
  <2>4. CASE u = t /\ i = Len(stack[t]) + 1
    BY <2>1, <2>4, <1>1, <1>3, <1>4 DEF FramesOf, Above
  <2>5. CASE u = t /\ i > Len(stack[t]) + 1
    BY <2>1, <2>5, <1>1, <1>3, <1>4 DEF FramesOf, Above
  <2> QED BY <2>2, <2>3, <2>4, <2>5, <1>1
<1>6. StackOK'
  <2>1. [at |-> s, ctx |-> c] \in Frame
    BY DEF Frame
  <2>2. Append(stack[t], [at |-> s, ctx |-> c]) \in Seq(Frame)
    BY <2>1, <1>1
  <2>3. stack' \in [Threads -> Seq(Frame)]
    BY <2>2 DEF Call, StackOK
  <2> QED BY <2>3, <1>1, <1>2, <1>3 DEF StackOK
<1> QED BY <1>4, <1>5, <1>6 DEF FramesOf

\* A step within a function moves one frame.
LEMMA GotoMoves ==
  ASSUME StackOK, NEW t \in Threads, ~Idle(t), NEW s \in Steps, Goto(t, s), NEW d, NEW S
  PROVE  /\ FramesOf(stack', d, S) =
              IF Top(t).ctx = d /\ s \in S THEN FramesOf(stack, d, S) \cup {Pos(t)}
                                          ELSE FramesOf(stack, d, S) \ {Pos(t)}
         /\ StackOK'
<1>1. stack[t] \in Seq(Frame) /\ Len(stack[t]) \in 1..MaxStack
  BY TopTyped DEF StackOK
<1>2. /\ stack'[t] = [stack[t] EXCEPT ![Len(stack[t])].at = s]
      /\ \A u \in Threads \ {t} : stack'[u] = stack[u]
  BY DEF Goto, StackOK, Stepped
<1>3. /\ Len(stack'[t]) = Len(stack[t])
      /\ stack'[t][Len(stack[t])] = [Top(t) EXCEPT !.at = s]
      /\ \A i \in 1..Len(stack[t]) : i # Len(stack[t]) => stack'[t][i] = stack[t][i]
  BY <1>1, <1>2 DEF Top
<1>4. stack'[t][Len(stack[t])].at = s /\ stack'[t][Len(stack[t])].ctx = Top(t).ctx
  BY <1>3, TopTyped DEF Frame
<1>5. \A p \in Threads \X (1..MaxStack) :
        p \in FramesOf(stack', d, S) <=>
          IF p = Pos(t) THEN Top(t).ctx = d /\ s \in S ELSE p \in FramesOf(stack, d, S)
  <2> TAKE p \in Threads \X (1..MaxStack)
  <2>1. PICK u \in Threads, i \in 1..MaxStack : p = <<u, i>>
    OBVIOUS
  <2>2. CASE u # t
    BY <2>1, <2>2, <1>2 DEF FramesOf, Pos
  <2>3. CASE u = t /\ i < Len(stack[t])
    BY <2>1, <2>3, <1>1, <1>3 DEF FramesOf, Pos
  <2>4. CASE u = t /\ i = Len(stack[t])
    <3>1. p = Pos(t) /\ p[1] = t /\ p[2] = Len(stack[t])
      BY <2>1, <2>4 DEF Pos
    <3>2. p[2] <= Len(stack'[p[1]]) /\ stack'[p[1]][p[2]] = stack'[t][Len(stack[t])]
      BY <3>1, <1>1, <1>3
    <3>3. p \in FramesOf(stack', d, S) <=> Top(t).ctx = d /\ s \in S
      BY <3>2, <1>4 DEF FramesOf
    <3> QED BY <3>1, <3>3
  <2>5. CASE u = t /\ i > Len(stack[t])
    BY <2>1, <2>5, <1>1, <1>3 DEF FramesOf, Pos
  <2> QED BY <2>2, <2>3, <2>4, <2>5, <1>1
<1>6. Pos(t) \in Threads \X (1..MaxStack)
  BY <1>1 DEF Pos
<1>7. StackOK'
  <2>1. [Top(t) EXCEPT !.at = s] \in Frame
    BY TopTyped DEF Frame
  <2>2. stack'[t] \in Seq(Frame)
    BY <2>1, <1>1, <1>2 DEF Top
  <2> QED BY <2>2, <1>1, <1>2, <1>3 DEF StackOK, Goto
<1> QED BY <1>5, <1>6, <1>7 DEF FramesOf

\* Thread t returns, and some of those asleep go on.
Pops(t, asleep, awake) ==
    /\ stack' \in [Threads -> Seq(Frame)]
    /\ stack'[t] = Popped(stack[t])
    /\ \A u \in Threads \ {t} :
         \/ stack'[u] = stack[u]
         \/ At(u, asleep) /\ stack'[u] = Stepped(stack[u], awake)

\* A return removes one frame; who is woken stays in the set of frames he was in.
LEMMA ReturnRemoves ==
  ASSUME StackOK, NEW t \in Threads, ~Idle(t), NEW asleep, NEW awake \in Steps, NEW d,
         NEW S,
         asleep \in S <=> awake \in S,
         Pops(t, asleep, awake)
  PROVE  /\ FramesOf(stack', d, S) = FramesOf(stack, d, S) \ {Pos(t)}
         /\ StackOK'
<1> USE DEF Pops
<1>1. stack[t] \in Seq(Frame) /\ Len(stack[t]) \in 1..MaxStack
  BY TopTyped DEF StackOK
<1>2. /\ Len(stack'[t]) = Len(stack[t]) - 1
      /\ \A i \in 1..(Len(stack[t]) - 1) : stack'[t][i] = stack[t][i]
  BY <1>1 DEF Popped
<1>3. ASSUME NEW u \in Threads \ {t}
      PROVE  /\ Len(stack'[u]) = Len(stack[u])
             /\ \A i \in 1..Len(stack[u]) :
                  /\ stack'[u][i].ctx = stack[u][i].ctx
                  /\ stack'[u][i].at \in S <=> stack[u][i].at \in S
  <2>1. stack[u] \in Seq(Frame)
    BY DEF StackOK
  <2>2. CASE stack'[u] = stack[u]
    BY <2>2
  <2>3. CASE At(u, asleep) /\ stack'[u] = Stepped(stack[u], awake)
    <3>1. Len(stack[u]) \in 1..MaxStack /\ Top(u) \in Frame /\ Top(u).at = asleep
      BY <2>3, TopTyped DEF At
    <3>2. /\ Len(stack'[u]) = Len(stack[u])
          /\ stack'[u][Len(stack[u])] = [Top(u) EXCEPT !.at = awake]
          /\ \A i \in 1..Len(stack[u]) : i # Len(stack[u]) => stack'[u][i] = stack[u][i]
      BY <2>1, <2>3, <3>1 DEF Stepped, Top
    <3>3. stack'[u][Len(stack[u])].at = awake /\ stack'[u][Len(stack[u])].ctx = Top(u).ctx
      BY <3>1, <3>2 DEF Frame
    <3> QED BY <3>1, <3>2, <3>3 DEF Top
  <2> QED BY <2>2, <2>3
<1>4. \A p \in Threads \X (1..MaxStack) :
        p \in FramesOf(stack', d, S) <=> p # Pos(t) /\ p \in FramesOf(stack, d, S)
  <2> TAKE p \in Threads \X (1..MaxStack)
  <2>1. PICK u \in Threads, i \in 1..MaxStack : p = <<u, i>>
    OBVIOUS
  <2>2. CASE u # t
    <3>1. Len(stack[u]) \in Nat
      BY DEF StackOK
    <3> QED BY <2>1, <2>2, <1>3, <3>1 DEF FramesOf, Pos
  <2>3. CASE u = t /\ i < Len(stack[t])
    BY <2>1, <2>3, <1>1, <1>2 DEF FramesOf, Pos
  <2>4. CASE u = t /\ i >= Len(stack[t])
    BY <2>1, <2>4, <1>1, <1>2 DEF FramesOf, Pos
  <2> QED BY <2>2, <2>3, <2>4, <1>1
<1>5. StackOK'
  BY <1>1, <1>2, <1>3 DEF StackOK
<1> QED BY <1>4, <1>5 DEF FramesOf

\* A stack without its top frame is a stack.
LEMMA PoppedTyped ==
  ASSUME StackOK, NEW t \in Threads, ~Idle(t)
  PROVE  Popped(stack[t]) \in Seq(Frame)
<1>1. stack[t] \in Seq(Frame) /\ Len(stack[t]) \in 1..MaxStack
  BY TopTyped DEF StackOK
<1> QED BY <1>1 DEF Popped

\* A stack whose top frame moved is a stack.
LEMMA SteppedTyped ==
  ASSUME StackOK, NEW t \in Threads, ~Idle(t), NEW s \in Steps
  PROVE  Stepped(stack[t], s) \in Seq(Frame)
<1>1. stack[t] \in Seq(Frame) /\ Len(stack[t]) \in 1..MaxStack /\ Top(t) \in Frame
  BY TopTyped DEF StackOK
<1>2. [Top(t) EXCEPT !.at = s] \in Frame
  BY <1>1 DEF Frame
<1> QED BY <1>1, <1>2 DEF Stepped, Top

\* A return that wakes nobody.
LEMMA ReturnPops ==
  ASSUME StackOK, NEW t \in Threads, ~Idle(t), Return(t), NEW d, NEW S
  PROVE  /\ FramesOf(stack', d, S) = FramesOf(stack, d, S) \ {Pos(t)}
         /\ StackOK'
<1>1. stack' \in [Threads -> Seq(Frame)]
  BY PoppedTyped DEF StackOK, Return
<1>2. /\ stack'[t] = Popped(stack[t])
      /\ \A u \in Threads \ {t} : stack'[u] = stack[u]
  BY DEF StackOK, Return
<1>3. "close" \in Steps /\ Pops(t, "close", "close")
  BY <1>1, <1>2 DEF Steps, Deactivating, Pops
<1> QED BY <1>3, ReturnRemoves

\* A return that may notify a condition variable.
LEMMA NotifyPops ==
  ASSUME StackOK, NEW t \in Threads, ~Idle(t), NEW c, NEW n,
         NEW asleep \in Steps, NEW awake \in Steps,
         ReturnAndNotify(t, c, n, asleep, awake), NEW d, NEW S,
         asleep \in S <=> awake \in S
  PROVE  /\ FramesOf(stack', d, S) = FramesOf(stack, d, S) \ {Pos(t)}
         /\ StackOK'
<1>1. stack' \in [Threads -> Seq(Frame)]
  BY PoppedTyped, SteppedTyped DEF StackOK, ReturnAndNotify, At
<1>2. /\ stack'[t] = Popped(stack[t])
      /\ \A u \in Threads \ {t} :
           \/ stack'[u] = stack[u]
           \/ At(u, asleep) /\ stack'[u] = Stepped(stack[u], awake)
  BY DEF StackOK, ReturnAndNotify
<1>3. Pops(t, asleep, awake)
  BY <1>1, <1>2 DEF Pops
<1> QED BY <1>3, ReturnRemoves

-----------------------------------------------------------------------------
(* The same, counted.                                                      *)

\* The frames of a context can be counted: finitely many threads, of bounded depth.
LEMMA FramesFinite ==
  ASSUME NEW st, NEW d, NEW S
  PROVE  /\ IsFiniteSet(FramesOf(st, d, S))
         /\ Cardinality(FramesOf(st, d, S)) \in Nat
         /\ Cardinality(FramesOf(st, d, S)) = 0 <=> FramesOf(st, d, S) = {}
         /\ Cardinality(FramesOf(st, d, S)) <= MaxStack * Cardinality(Threads)
<1>1. /\ IsFiniteSet(1..MaxStack) /\ Cardinality(1..MaxStack) = MaxStack
      /\ IsFiniteSet(Threads) /\ Cardinality(Threads) \in Nat
  <2>1. 1 \in Int /\ MaxStack \in Int /\ MaxStack >= 1
    OBVIOUS
  <2>2. IsFiniteSet(1..MaxStack) /\ Cardinality(1..MaxStack) = MaxStack - 1 + 1
    BY <2>1, FS_Interval
  <2>3. IsFiniteSet(Threads)
    OBVIOUS
  <2>4. Cardinality(Threads) \in Nat
    BY <2>3, FS_CardinalityType
  <2> QED BY <2>1, <2>2, <2>3, <2>4
<1>2. /\ IsFiniteSet(Threads \X (1..MaxStack))
      /\ Cardinality(Threads \X (1..MaxStack)) = Cardinality(Threads) * MaxStack
  BY <1>1, FS_Product
<1>3. FramesOf(st, d, S) \subseteq Threads \X (1..MaxStack)
  BY DEF FramesOf
<1>4. /\ IsFiniteSet(FramesOf(st, d, S))
      /\ Cardinality(FramesOf(st, d, S)) <= Cardinality(Threads) * MaxStack
  BY <1>2, <1>3, FS_Subset
<1>5. Cardinality(Threads) * MaxStack = MaxStack * Cardinality(Threads)
  BY <1>1
<1>6. Cardinality(FramesOf(st, d, S)) \in Nat
  BY <1>4, FS_CardinalityType
<1>7. Cardinality(FramesOf(st, d, S)) = 0 <=> FramesOf(st, d, S) = {}
  BY <1>4, FS_EmptySet
<1> QED BY <1>4, <1>5, <1>6, <1>7

\* What one element adds to a cardinality.
LEMMA OneMore ==
  ASSUME NEW X, IsFiniteSet(X), NEW x
  PROVE  Cardinality(X \cup {x}) = IF x \in X THEN Cardinality(X) ELSE Cardinality(X) + 1
BY FS_AddElement

\* What one element takes from a cardinality.
LEMMA OneLess ==
  ASSUME NEW X, IsFiniteSet(X), NEW x
  PROVE  Cardinality(X \ {x}) = IF x \in X THEN Cardinality(X) - 1 ELSE Cardinality(X)
BY FS_RemoveElement

\* The frames of context d at steps S after a call, a step, a return of thread t.
Adds(t, s, c, d, S) ==
    /\ FramesOf(stack', d, S) = IF c =
         d /\ s \in S THEN FramesOf(stack, d, S) \cup {Above(t)}
                                                    ELSE FramesOf(stack, d, S)
    /\ Cardinality(FramesOf(stack', d, S)) =
         Cardinality(FramesOf(stack, d, S)) + (IF c = d /\ s \in S THEN 1 ELSE 0)

Moves(t, s, d, S) ==
    /\ FramesOf(stack', d, S) =
         IF Top(t).ctx # d \/ (s \in S <=> Top(t).at \in S) THEN FramesOf(stack, d, S)
         ELSE IF s \in S THEN FramesOf(stack, d, S) \cup {Pos(t)}
         ELSE FramesOf(stack, d, S) \ {Pos(t)}
    /\ Pos(t) \in FramesOf(stack, d, S) <=> Top(t).ctx = d /\ Top(t).at \in S
    /\ Cardinality(FramesOf(stack', d, S)) =
         IF Top(t).ctx # d \/ (s \in S <=> Top(t).at \in S)
           THEN Cardinality(FramesOf(stack, d, S))
         ELSE IF s \in S THEN Cardinality(FramesOf(stack, d, S)) + 1
         ELSE Cardinality(FramesOf(stack, d, S)) - 1

Removes(t, d, S) ==
    /\ FramesOf(stack', d, S) = IF Top(t).ctx = d /\ Top(t).at \in S
                                  THEN FramesOf(stack, d, S) \ {Pos(t)}
                                  ELSE FramesOf(stack, d, S)
    /\ Pos(t) \in FramesOf(stack, d, S) <=> Top(t).ctx = d /\ Top(t).at \in S
    /\ Cardinality(FramesOf(stack', d, S)) =
         Cardinality(FramesOf(stack, d, S))
           - (IF Top(t).ctx = d /\ Top(t).at \in S THEN 1 ELSE 0)

\* More steps, more frames.
LEMMA Within ==
  ASSUME NEW st, NEW d, NEW S, NEW R, S \subseteq R
  PROVE  FramesOf(st, d, S) \subseteq FramesOf(st, d, R)
BY DEF FramesOf

\* How the sets of steps lie in each other.
LEMMA Nested ==
  ASSUME NEW st, NEW d
  PROVE  /\ FramesOf(st, d, {"close"}) \subseteq FramesOf(st, d, Draining)
         /\ FramesOf(st, d, Draining) \subseteq FramesOf(st, d, Owning)
         /\ FramesOf(st, d, {"wait", "asleep"}) \subseteq
              FramesOf(st, d, {"wait", "asleep", "unwrap"})
         /\ FramesOf(st, d, {"wait", "asleep", "unwrap"}) \subseteq FramesOf(st, d, Owning)
         /\ FramesOf(st, d, Owning) \subseteq FramesOf(st, d, Steps)
         /\ FramesOf(st, d, Steps \ (Draining \cup {"host"})) \subseteq
              FramesOf(st, d, Owning) \cup FramesOf(st, d, Running)
BY DEF FramesOf, Draining, Owning, Deactivating, Running, Steps, PluginCode

\* A thread that holds a lease has a host call under way.
LEMMA DepthCounts ==
  ASSUME NEW t \in Threads, NEW d, Depth(t, d) > 0
  PROVE  FramesOf(stack, d, {"host"}) # {}
<1>1. Depth(t, d) = Cardinality({p \in FramesOf(stack, d, {"host"}) : p[1] = t})
  BY DEF Depth, FramesAt, FramesOf
<1>2. CASE FramesOf(stack, d, {"host"}) = {}
  <2>1. {p \in FramesOf(stack, d, {"host"}) : p[1] = t} = {}
    BY <1>2
  <2> QED BY <2>1, <1>1, FS_EmptySet
<1> QED BY <1>2

\* A call adds one to the count of the frames at its step.
LEMMA CallCounts ==
  ASSUME StackOK, NEW t \in Threads, HasRoom(t), NEW s \in Steps,
         NEW c \in Contexts, Call(t, s, c)
  PROVE  StackOK' /\ \A d, S : Adds(t, s, c, d, S)
<1> SUFFICES ASSUME NEW d, NEW S PROVE StackOK' /\ Adds(t, s, c, d, S)
  OBVIOUS
<1>1. /\ IsFiniteSet(FramesOf(stack, d, S)) /\ Cardinality(FramesOf(stack, d, S)) \in Nat
  BY FramesFinite
<1> QED BY <1>1, CallAdds, OneMore DEF Adds

\* A step within a function takes one frame from one count to another.
LEMMA GotoCounts ==
  ASSUME StackOK, NEW t \in Threads, ~Idle(t), NEW s \in Steps, Goto(t, s)
  PROVE  StackOK' /\ \A d, S : Moves(t, s, d, S)
<1> SUFFICES ASSUME NEW d, NEW S PROVE StackOK' /\ Moves(t, s, d, S)
  OBVIOUS
<1>1. /\ IsFiniteSet(FramesOf(stack, d, S)) /\ Cardinality(FramesOf(stack, d, S)) \in Nat
      /\ Pos(t) \in FramesOf(stack, d, S) <=> Top(t).ctx = d /\ Top(t).at \in S
  BY FramesFinite, TopTyped
<1>2. /\ StackOK'
      /\ FramesOf(stack', d, S) = IF Top(t).ctx = d /\ s \in S
                                  THEN FramesOf(stack, d, S) \cup {Pos(t)}
                                  ELSE FramesOf(stack, d, S) \ {Pos(t)}
  BY GotoMoves
<1>3. /\ Pos(t) \in FramesOf(stack, d, S) =>
              FramesOf(stack, d, S) \cup {Pos(t)} = FramesOf(stack, d, S)
      /\ Pos(t) \notin FramesOf(stack, d, S) =>
              FramesOf(stack, d, S) \ {Pos(t)} = FramesOf(stack, d, S)
  OBVIOUS
<1>4. /\ Pos(t) \notin FramesOf(stack, d, S) =>
           Cardinality(FramesOf(stack, d, S) \cup {Pos(t)}) =
             Cardinality(FramesOf(stack, d, S)) + 1
      /\ Pos(t) \in FramesOf(stack, d, S) =>
           Cardinality(FramesOf(stack, d, S) \ {Pos(t)}) =
             Cardinality(FramesOf(stack, d, S)) - 1
  BY <1>1, OneMore, OneLess
<1>5. FramesOf(stack', d, S) =
        IF Top(t).ctx # d \/ (s \in S <=> Top(t).at \in S) THEN FramesOf(stack, d, S)
        ELSE IF s \in S THEN FramesOf(stack, d, S) \cup {Pos(t)}
        ELSE FramesOf(stack, d, S) \ {Pos(t)}
  BY <1>1, <1>2, <1>3
<1> QED BY <1>1, <1>2, <1>4, <1>5 DEF Moves

\* A return takes one frame from the counts.
LEMMA ReturnCounts ==
  ASSUME StackOK, NEW t \in Threads, ~Idle(t), Return(t)
  PROVE  StackOK' /\ \A d, S : Removes(t, d, S)
<1> SUFFICES ASSUME NEW d, NEW S PROVE StackOK' /\ Removes(t, d, S)
  OBVIOUS
<1>1. /\ IsFiniteSet(FramesOf(stack, d, S)) /\ Cardinality(FramesOf(stack, d, S)) \in Nat
      /\ Pos(t) \in FramesOf(stack, d, S) <=> Top(t).ctx = d /\ Top(t).at \in S
  BY FramesFinite, TopTyped
<1>2. Pos(t) \notin FramesOf(stack, d, S) =>
           FramesOf(stack, d, S) \ {Pos(t)} = FramesOf(stack, d, S)
  OBVIOUS
<1>3. Pos(t) \in FramesOf(stack, d, S) =>
        Cardinality(FramesOf(stack, d, S) \ {Pos(t)}) =
          Cardinality(FramesOf(stack, d, S)) - 1
  BY <1>1, OneLess
<1>4. StackOK' /\ FramesOf(stack', d, S) = FramesOf(stack, d, S) \ {Pos(t)}
  BY ReturnPops
<1>5. CASE Top(t).ctx = d /\ Top(t).at \in S
  BY <1>1, <1>3, <1>4, <1>5 DEF Removes
<1>6. CASE ~(Top(t).ctx = d /\ Top(t).at \in S)
  BY <1>1, <1>2, <1>4, <1>6 DEF Removes
<1> QED BY <1>5, <1>6

\* So does a return that notifies.
LEMMA NotifyCounts ==
  ASSUME StackOK, NEW t \in Threads, ~Idle(t), NEW c, NEW n,
         NEW asleep \in Steps, NEW awake \in Steps, ReturnAndNotify(t, c, n, asleep, awake)
  PROVE  StackOK' /\ \A d, S : (asleep \in S <=> awake \in S) => Removes(t, d, S)
<1> SUFFICES ASSUME NEW d, NEW S
             PROVE  StackOK' /\ ((asleep \in S <=> awake \in S) => Removes(t, d, S))
  OBVIOUS
<1>1. /\ IsFiniteSet(FramesOf(stack, d, S)) /\ Cardinality(FramesOf(stack, d, S)) \in Nat
      /\ Pos(t) \in FramesOf(stack, d, S) <=> Top(t).ctx = d /\ Top(t).at \in S
  BY FramesFinite, TopTyped
<1>2. StackOK'
  <2>1. asleep \in Steps <=> awake \in Steps
    OBVIOUS
  <2> QED BY <2>1, NotifyPops
<1>3. ASSUME asleep \in S <=> awake \in S PROVE Removes(t, d, S)
  <2>1. Pos(t) \notin FramesOf(stack, d, S) =>
             FramesOf(stack, d, S) \ {Pos(t)} = FramesOf(stack, d, S)
    OBVIOUS
  <2>2. Pos(t) \in FramesOf(stack, d, S) =>
          Cardinality(FramesOf(stack, d, S) \ {Pos(t)}) =
            Cardinality(FramesOf(stack, d, S)) - 1
    BY <1>1, OneLess
  <2>3. FramesOf(stack', d, S) = FramesOf(stack, d, S) \ {Pos(t)}
    BY <1>3, NotifyPops
  <2> QED BY <1>1, <2>1, <2>2, <2>3 DEF Removes
<1> QED BY <1>2, <1>3


-----------------------------------------------------------------------------

\* The invariant holds before any call of the plugin's table.
LEMMA InitEstablishes == Init => Inv
<1> SUFFICES ASSUME Init PROVE Inv
  OBVIOUS
<1>1. StackOK
  BY DEF Init, StackOK
<1>2. \A c, S : FramesOf(stack, c, S) = {}
  BY DEF Init, FramesOf
<1>3. Typed
  BY <1>1 DEF Init, Typed
<1>4. \A c, S : Cardinality(FramesOf(stack, c, S)) = 0
  BY <1>2, FramesFinite
<1>5. \A c \in Contexts : Lives(c)
  BY <1>2, <1>4 DEF Init, Counts, Held, Owned, Entered, Unborn, Shut, Drains, Over,
     Lives, On
<1> QED BY <1>3, <1>5 DEF Inv

\* Admission of a host call: HostState::lease.
LEMMA HostCallKeeps ==
  ASSUME Inv, NEW t \in Threads, NEW c \in Contexts, HostCall(t, c)
  PROVE  Inv'
<1> USE DEF Inv, HostCall
<1>1. c \in Contexts /\ HasRoom(t) /\ "host" \in Steps
  BY DEF Steps, Idle, HasRoom, Room
<1>2. StackOK' /\ \A d, S : Adds(t, "host", c, d, S)
  BY <1>1, CallCounts DEF Typed
<1>3. Typed'
  BY <1>1, <1>2 DEF Typed, gateVars, hostVars
<1>4. ASSUME NEW d \in Contexts PROVE Lives(d)'
  <2> USE <1>1, <1>2 DEF Adds, At, gateVars, hostVars, Lives, On
  <2>1. active[c] \/ FramesOf(stack, c, {"host"}) # {}
    BY DepthCounts
  <2>2. c \in created
    <3>1. CASE ~Idle(t) /\ Top(t).at \in PluginCode /\ Top(t).ctx = c
      <4>1. Pos(t) \in FramesOf(stack, c, Steps)
        BY <3>1, TopTyped DEF Steps, Typed
      <4> QED BY <4>1 DEF Unborn
    <3> QED BY <3>1 DEF HoldsContext
  <2>3. Counts(d)'
    BY DEF Counts, Held, Running, Typed
  <2>4. Owned(d)'
    BY DEF Owned, Owning, Deactivating
  <2>5. Entered(d)'
    BY DEF Entered, Running
  <2>6. Unborn(d)'
    BY <2>2 DEF Unborn, PluginCode
  <2>7. Shut(d)'
    BY DEF Shut, Deactivating, Draining, PluginCode, Steps
  <2>8. Drains(d)'
    BY <2>1, Nested DEF Drains, Draining
  <2>9. Over(d)'
    BY <2>1 DEF Over, Deactivating
  <2> QED BY <2>3, <2>4, <2>5, <2>6, <2>7, <2>8, <2>9
<1> QED BY <1>3, <1>4

\* Drop for HostLease.
LEMMA HostReturnKeeps ==
  ASSUME Inv, NEW t \in Threads, HostReturn(t)
  PROVE  Inv'
<1> USE DEF Inv, HostReturn
<1>1. ~Idle(t) /\ Top(t).ctx \in Contexts
  BY TopTyped DEF At, Typed
<1>2. StackOK' /\ \A d, S : ("blocked" \in S <=> "recheck" \in S) => Removes(t, d, S)
  <2>1. "blocked" \in Steps /\ "recheck" \in Steps
    BY DEF Steps, Deactivating
  <2> QED BY <2>1, <1>1, NotifyCounts DEF Typed
<1>3. Typed'
  BY <1>1, <1>2 DEF Typed, gateVars, hostVars
<1>4. ASSUME NEW d \in Contexts PROVE Lives(d)'
  <2> USE <1>1, <1>2 DEF Removes, At, gateVars, hostVars, Lives, On
  <2>1. Counts(d)'
    BY DEF Counts, Held, Running, Typed
  <2>2. Owned(d)'
    BY DEF Owned, Owning, Deactivating
  <2>3. Entered(d)'
    BY DEF Entered, Running
  <2>4. Unborn(d)'
    BY DEF Unborn, Deactivating, PluginCode, Steps
  <2>5. Shut(d)'
    BY DEF Shut, Deactivating, Draining, PluginCode, Steps
  <2>6. Drains(d)'
    BY DEF Drains, Draining
  <2>7. Over(d)'
    BY DEF Over, Owning, Deactivating
  <2> QED BY <2>1, <2>2, <2>3, <2>4, <2>5, <2>6, <2>7
<1> QED BY <1>3, <1>4

\* initialize_inner enters plugin code with a new context.
LEMMA InitializeBeginKeeps ==
  ASSUME Inv, NEW t \in Threads, NEW c \in Contexts, InitializeBegin(t, c)
  PROVE  Inv'
<1> USE DEF Inv, InitializeBegin
<1>1. c \in Contexts /\ HasRoom(t) /\ "initialize" \in Steps
  BY DEF Steps, PluginCode, Idle, HasRoom, Room
<1>2. StackOK' /\ \A d, S : Adds(t, "initialize", c, d, S)
  BY <1>1, CallCounts DEF Typed
<1>3. Typed'
  BY <1>1, <1>2 DEF Typed, gateVars, hostVars
<1>4. ASSUME NEW d \in Contexts PROVE Lives(d)'
  <2> USE <1>1, <1>2 DEF Adds, At, gateVars, hostVars, Lives, On
  <2>1. Counts(d)'
    BY DEF Counts, Held, Running
  <2>2. Owned(d)'
    BY Nested DEF Owned, Unborn, Deactivating, PluginCode
  <2>3. Entered(d)'
    BY DEF Entered, Running
  <2>4. Unborn(d)'
    BY DEF Unborn, PluginCode
  <2>5. Shut(d)'
    BY DEF Unborn, Shut, Deactivating, Draining, PluginCode, Steps
  <2>6. Drains(d)'
    BY DEF Drains, Draining
  <2>7. Over(d)'
    BY DEF Counts, Entered, Unborn, Shut, Over, Owning, Deactivating, Steps
  <2> QED BY <2>1, <2>2, <2>3, <2>4, <2>5, <2>6, <2>7
<1> QED BY <1>3, <1>4

\* Plugin::initialize succeeds.
LEMMA InitializeOkKeeps ==
  ASSUME Inv, NEW t \in Threads, InitializeOk(t)
  PROVE  Inv'
<1> USE DEF Inv, InitializeOk
<1>1. ~Idle(t) /\ Top(t).ctx \in Contexts
  BY TopTyped DEF At, Typed
<1> DEFINE s == "install"
<1>2. s \in Steps /\ Goto(t, s)
  BY DEF Steps, PluginCode, Deactivating
<1>3. StackOK' /\ \A d, S : Moves(t, s, d, S)
  <2> HIDE DEF s
  <2> QED BY <1>2, <1>1, GotoCounts DEF Typed
<1>4. Typed'
  BY <1>1, <1>3 DEF Typed, gateVars, hostVars
<1>5. ASSUME NEW d \in Contexts PROVE Lives(d)'
  <2> USE <1>1, <1>3 DEF Moves, At, gateVars, hostVars, Lives, On
  <2>1. Counts(d)'
    BY DEF Counts, Held, Running
  <2>2. Owned(d)'
    BY DEF Owned, Owning, Deactivating
  <2>3. Entered(d)'
    BY DEF Entered, Running
  <2>4. Unborn(d)'
    BY Nested DEF Unborn, Owning, PluginCode
  <2>5. Shut(d)'
    BY DEF Shut, Deactivating, Draining, PluginCode, Steps
  <2>6. Drains(d)'
    BY DEF Drains, Draining
  <2>7. Over(d)'
    BY DEF Over, Owning, Deactivating
  <2> QED BY <2>1, <2>2, <2>3, <2>4, <2>5, <2>6, <2>7
<1> QED BY <1>4, <1>5

\* Plugin::initialize fails.
LEMMA InitializeFailsKeeps ==
  ASSUME Inv, NEW t \in Threads, InitializeFails(t)
  PROVE  Inv'
<1> USE DEF Inv, InitializeFails
<1>1. ~Idle(t) /\ Top(t).ctx \in Contexts
  BY TopTyped DEF At, Typed
<1> DEFINE s == "drop"
<1>2. s \in Steps /\ Goto(t, s)
  BY DEF Steps, PluginCode, Deactivating
<1>3. StackOK' /\ \A d, S : Moves(t, s, d, S)
  <2> HIDE DEF s
  <2> QED BY <1>2, <1>1, GotoCounts DEF Typed
<1>4. Typed'
  BY <1>1, <1>3 DEF Typed, gateVars, hostVars
<1>5. ASSUME NEW d \in Contexts PROVE Lives(d)'
  <2> USE <1>1, <1>3 DEF Moves, At, gateVars, hostVars, Lives, On
  <2>1. Counts(d)'
    BY DEF Counts, Held, Running
  <2>2. Owned(d)'
    BY DEF Owned, Owning, Deactivating
  <2>3. Entered(d)'
    BY DEF Entered, Running
  <2>4. Unborn(d)'
    BY Nested DEF Unborn, Owning, PluginCode
  <2>5. Shut(d)'
    BY DEF Shut, Deactivating, Draining, PluginCode, Steps
  <2>6. Drains(d)'
    BY DEF Drains, Draining
  <2>7. Over(d)'
    BY DEF Over, Owning, Deactivating
  <2> QED BY <2>1, <2>2, <2>3, <2>4, <2>5, <2>6, <2>7
<1> QED BY <1>4, <1>5

\* invoke_inner clones the session and enters its gate.
LEMMA InvokeBeginKeeps ==
  ASSUME Inv, NEW t \in Threads, InvokeBegin(t)
  PROVE  Inv'
<1> USE DEF Inv, InvokeBegin
<1>1. slot \in Contexts /\ HasRoom(t) /\ "invoke" \in Steps
  BY DEF Typed, Steps, PluginCode, Idle, HasRoom, Room
<1>2. StackOK' /\ \A d, S : Adds(t, "invoke", slot, d, S)
  BY <1>1, CallCounts DEF Typed
<1>3. Typed'
  BY <1>1, <1>2 DEF Typed, gateVars, hostVars
<1>4. ASSUME NEW d \in Contexts PROVE Lives(d)'
  <2> USE <1>1, <1>2 DEF Adds, At, gateVars, hostVars, Lives, On
  <2>1. Counts(d)'
    BY DEF Counts, Held, Running, Typed
  <2>2. Owned(d)'
    BY DEF Owned, Owning, Deactivating
  <2>3. Entered(d)'
    BY DEF Entered, Typed
  <2>4. Unborn(d)'
    BY DEF Unborn, PluginCode
  <2>5. Shut(d)'
    BY DEF Shut, Deactivating, Draining, PluginCode, Steps
  <2>6. Drains(d)'
    BY DEF Drains, Draining
  <2>7. Over(d)'
    BY DEF Over, Deactivating
  <2> QED BY <2>1, <2>2, <2>3, <2>4, <2>5, <2>6, <2>7
<1> QED BY <1>3, <1>4

\* Drop for InvocationLease, first half: the clone of the session.
LEMMA InvokeReturnKeeps ==
  ASSUME Inv, NEW t \in Threads, InvokeReturn(t)
  PROVE  Inv'
<1> USE DEF Inv, InvokeReturn
<1>1. ~Idle(t) /\ Top(t).ctx \in Contexts
  BY TopTyped DEF At, Typed
<1> DEFINE s == "leave"
<1>2. s \in Steps /\ Goto(t, s)
  BY DEF Steps, PluginCode, Deactivating
<1>3. StackOK' /\ \A d, S : Moves(t, s, d, S)
  <2> HIDE DEF s
  <2> QED BY <1>2, <1>1, GotoCounts DEF Typed
<1>4. Typed'
  BY <1>1, <1>3 DEF Typed, gateVars, hostVars
<1>5. ASSUME NEW d \in Contexts PROVE Lives(d)'
  <2> USE <1>1, <1>3 DEF Moves, At, gateVars, hostVars, Lives, On
  <2>1. Lives(d) /\ Typed
    OBVIOUS
  <2>2. Counts(d)'
    <3>1. /\ (invocations[d] = Cardinality(On(d, Running)))'
          /\ (inFlight[d] = Cardinality(On(d, {"host"})))'
      BY DEF Counts, Running
    <3>2. Held(d)' <=> Held(d)
      BY DEF Held
    <3>3. refs'[d] = IF Top(t).ctx = d THEN refs[d] - 1 ELSE refs[d]
      BY DEF Typed
    <3>4. Cardinality(FramesOf(stack', d, {"invoke"})) =
            IF Top(t).ctx = d THEN Cardinality(FramesOf(stack, d, {"invoke"})) - 1
                              ELSE Cardinality(FramesOf(stack, d, {"invoke"}))
      OBVIOUS
    <3>5. Cardinality(FramesOf(stack, d, {"invoke"})) \in Nat
      BY FramesFinite
    <3> QED BY <3>1, <3>2, <3>3, <3>4, <3>5, <2>1 DEF Counts
  <2>3. Owned(d)'
    BY DEF Owned, Owning, Deactivating
  <2>4. Entered(d)'
    BY DEF Entered, Running
  <2>5. Unborn(d)'
    BY DEF Unborn, Deactivating, PluginCode, Steps
  <2>6. Shut(d)'
    BY DEF Shut, Deactivating, Draining, PluginCode, Steps
  <2>7. Drains(d)'
    BY DEF Drains, Draining
  <2>8. Over(d)'
    BY DEF Over, Owning, Deactivating
  <2> QED BY <2>2, <2>3, <2>4, <2>5, <2>6, <2>7, <2>8
<1> QED BY <1>4, <1>5

\* Drop for InvocationLease, second half: the gate.
LEMMA LeaveKeeps ==
  ASSUME Inv, NEW t \in Threads, Leave(t)
  PROVE  Inv'
<1> USE DEF Inv, Leave
<1>1. ~Idle(t) /\ Top(t).ctx \in Contexts
  BY TopTyped DEF At, Typed
<1>2. StackOK' /\ \A d, S : ("asleep" \in S <=> "wait" \in S) => Removes(t, d, S)
  <2>1. "asleep" \in Steps /\ "wait" \in Steps
    BY DEF Steps, Deactivating
  <2> QED BY <2>1, <1>1, NotifyCounts DEF Typed
<1>3. Typed'
  BY <1>1, <1>2 DEF Typed, gateVars, hostVars
<1>4. ASSUME NEW d \in Contexts PROVE Lives(d)'
  <2> USE <1>1, <1>2 DEF Removes, At, gateVars, hostVars, Lives, On
  <2>1. Counts(d)'
    BY DEF Counts, Held, Running, Typed
  <2>2. Owned(d)'
    BY DEF Owned, Owning, Deactivating
  <2>3. Entered(d)'
    BY DEF Entered, Running
  <2>4. Unborn(d)'
    BY DEF Unborn, Deactivating, PluginCode, Steps
  <2>5. Shut(d)'
    BY DEF Shut, Deactivating, Draining, PluginCode, Steps
  <2>6. Drains(d)'
    BY DEF Drains, Draining
  <2>7. Over(d)'
    BY DEF Over, Owning, Deactivating
  <2> QED BY <2>1, <2>2, <2>3, <2>4, <2>5, <2>6, <2>7
<1> QED BY <1>3, <1>4

\* shutdown_inner takes the session out of the slot.
LEMMA ShutdownBeginKeeps ==
  ASSUME Inv, NEW t \in Threads, ShutdownBegin(t)
  PROVE  Inv'
<1> USE DEF Inv, ShutdownBegin
<1>1. slot \in Contexts /\ HasRoom(t) /\ "wait" \in Steps
  BY DEF Typed, Steps, Idle, HasRoom, Room
<1>2. StackOK' /\ \A d, S : Adds(t, "wait", slot, d, S)
  BY <1>1, CallCounts DEF Typed
<1>3. Typed'
  BY <1>1, <1>2 DEF Typed, gateVars, hostVars
<1>4. ASSUME NEW d \in Contexts PROVE Lives(d)'
  <2> USE <1>1, <1>2 DEF Adds, At, gateVars, hostVars, Lives, On
  <2>1. Over(d)'
    <3>1. CASE d = slot
      <4>1. FramesOf(stack', d, Owning) # {}
        BY <3>1 DEF Owning
      <4> QED BY <4>1 DEF Over
    <3>2. CASE d # slot
      BY <3>2 DEF Over
    <3> QED BY <3>1, <3>2
  <2>2. Counts(d)'
    BY DEF Counts, Held, Owned, Entered, Unborn, Drains, Over, Running, Owning,
       Deactivating, Draining
  <2>3. Owned(d)'
    BY DEF Owned, Deactivating
  <2>4. Entered(d)'
    BY DEF Counts, Owned, Entered, Unborn, Shut, Drains, Over, Running, Deactivating
  <2>5. Unborn(d)'
    BY DEF Unborn, PluginCode
  <2>6. Shut(d)'
    BY DEF Shut, Deactivating, Draining, PluginCode, Steps
  <2>7. Drains(d)'
    BY DEF Drains, Draining
  <2> QED BY <2>2, <2>3, <2>4, <2>5, <2>6, <2>7, <2>1
<1> QED BY <1>3, <1>4

\* InvocationGate::wait.
LEMMA AwaitInvocationsKeeps ==
  ASSUME Inv, NEW t \in Threads, AwaitInvocations(t)
  PROVE  Inv'
<1> USE DEF Inv, AwaitInvocations
<1>1. ~Idle(t) /\ Top(t).ctx \in Contexts
  BY TopTyped DEF At, Typed
<1> DEFINE s == IF invocations[Top(t).ctx] = 0 THEN "unwrap" ELSE "asleep"
<1>2. s \in Steps /\ Goto(t, s)
  BY DEF Steps, PluginCode, Deactivating
<1>3. StackOK' /\ \A d, S : Moves(t, s, d, S)
  <2> HIDE DEF s
  <2> QED BY <1>2, <1>1, GotoCounts DEF Typed
<1>4. \/ invocations[Top(t).ctx] = 0 /\ s = "unwrap"
      \/ ~(invocations[Top(t).ctx] = 0) /\ s = "asleep"
  OBVIOUS
<1> HIDE DEF s
<1>5. Typed'
  BY <1>1, <1>3 DEF Typed, gateVars, hostVars
<1>6. ASSUME NEW d \in Contexts PROVE Lives(d)'
  <2>1. /\ Cardinality(FramesOf(stack, d, {"host"})) = 0 <=>
             FramesOf(stack, d, {"host"}) = {}
        /\ Cardinality(FramesOf(stack, d, Running)) = 0 <=> FramesOf(stack, d, Running) = {}
    BY FramesFinite
  <2> USE <1>1, <1>3, <1>4 DEF Moves, At, gateVars, hostVars, Lives, On
  <2>2. Counts(d)'
    BY DEF Counts, Held, Running
  <2>3. Owned(d)'
    BY Nested DEF Owned, Deactivating
  <2>4. Entered(d)'
    BY <2>1 DEF Counts, Entered, Running
  <2>5. Unborn(d)'
    BY Nested DEF Unborn, PluginCode
  <2>6. Shut(d)'
    BY DEF Shut, Deactivating, Draining, PluginCode, Steps
  <2>7. Drains(d)'
    BY DEF Drains, Draining
  <2>8. Over(d)'
    BY Nested DEF Over, Deactivating
  <2> QED BY <2>2, <2>3, <2>4, <2>5, <2>6, <2>7, <2>8
<1> QED BY <1>5, <1>6

\* Arc::try_unwrap: the reference the shutdown held is the one that goes.
LEMMA UnwrapKeeps ==
  ASSUME Inv, NEW t \in Threads, Unwrap(t)
  PROVE  Inv'
<1> USE DEF Inv, Unwrap
<1>1. ~Idle(t) /\ Top(t).ctx \in Contexts
  BY TopTyped DEF At, Typed
<1> DEFINE s == IF refs[Top(t).ctx] = 1 THEN "shutdown" ELSE "deactivate"
<1>2. s \in Steps /\ Goto(t, s)
  BY DEF Steps, PluginCode, Deactivating
<1>3. StackOK' /\ \A d, S : Moves(t, s, d, S)
  <2> HIDE DEF s
  <2> QED BY <1>2, <1>1, GotoCounts DEF Typed
<1>4. \/ refs[Top(t).ctx] = 1 /\ s = "shutdown"
      \/ ~(refs[Top(t).ctx] = 1) /\ s = "deactivate"
  OBVIOUS
<1> HIDE DEF s
<1>5. Typed'
  BY <1>1, <1>3 DEF Typed, gateVars, hostVars
<1>6. ASSUME NEW d \in Contexts PROVE Lives(d)'
  <2> USE <1>1, <1>3, <1>4 DEF Moves, At, gateVars, hostVars, Lives, On
  <2>1. Lives(d) /\ Typed
    OBVIOUS
  <2>2. Counts(d)'
    <3>1. /\ (invocations[d] = Cardinality(On(d, Running)))'
          /\ (inFlight[d] = Cardinality(On(d, {"host"})))'
      BY DEF Counts, Running
    <3>2. Cardinality(FramesOf(stack', d, {"invoke"})) =
          Cardinality(FramesOf(stack, d, {"invoke"}))
      OBVIOUS
    <3>3. CASE Top(t).ctx # d
      <4>1. Held(d)' <=> Held(d)
        BY <3>3 DEF Held
      <4>2. refs'[d] = refs[d]
        BY <3>3 DEF Typed
      <4> QED BY <3>1, <3>2, <4>1, <4>2, <2>1 DEF Counts
    <3>4. CASE Top(t).ctx = d
      <4>1. Pos(t) \in FramesOf(stack, d, {"wait", "asleep", "unwrap"})
        BY <3>4
      <4>2. Held(d) /\ ~Held(d)'
        <5>1. slot # d /\ \A q \in FramesOf(stack, d, {"wait", "asleep", "unwrap"}) :
                q = Pos(t)
          BY <4>1, <2>1, Nested DEF Owned
        <5>2. FramesOf(stack', d, {"wait", "asleep", "unwrap"}) =
                FramesOf(stack, d, {"wait", "asleep", "unwrap"}) \ {Pos(t)}
          BY <3>4
        <5> QED BY <4>1, <5>1, <5>2 DEF Held
      <4>3. refs'[d] = refs[d] - 1 /\ Cardinality(FramesOf(stack, d, {"invoke"})) \in Nat
        BY <3>4, FramesFinite DEF Typed
      <4> QED BY <3>1, <3>2, <4>2, <4>3, <2>1 DEF Counts
    <3> QED BY <3>3, <3>4
  <2>3. Owned(d)'
    BY Nested DEF Owned, Deactivating
  <2>4. Entered(d)'
    BY DEF Entered, Running
  <2>5. Unborn(d)'
    BY Nested DEF Unborn, PluginCode
  <2>6. Shut(d)'
    BY DEF Shut, Deactivating, Draining, PluginCode, Steps
  <2>7. Drains(d)'
    BY DEF Drains, Draining
  <2>8. Over(d)'
    BY DEF Over, Owning, Deactivating
  <2> QED BY <2>2, <2>3, <2>4, <2>5, <2>6, <2>7, <2>8
<1> QED BY <1>5, <1>6

\* Plugin::shutdown returns.
LEMMA ShutdownReturnKeeps ==
  ASSUME Inv, NEW t \in Threads, ShutdownReturn(t)
  PROVE  Inv'
<1> USE DEF Inv, ShutdownReturn
<1>1. ~Idle(t) /\ Top(t).ctx \in Contexts
  BY TopTyped DEF At, Typed
<1> DEFINE s == "drop"
<1>2. s \in Steps /\ Goto(t, s)
  BY DEF Steps, PluginCode, Deactivating
<1>3. StackOK' /\ \A d, S : Moves(t, s, d, S)
  <2> HIDE DEF s
  <2> QED BY <1>2, <1>1, GotoCounts DEF Typed
<1>4. Typed'
  BY <1>1, <1>3 DEF Typed, gateVars, hostVars
<1>5. ASSUME NEW d \in Contexts PROVE Lives(d)'
  <2> USE <1>1, <1>3 DEF Moves, At, gateVars, hostVars, Lives, On
  <2>1. Counts(d)'
    BY DEF Counts, Held, Running
  <2>2. Owned(d)'
    BY DEF Owned, Owning, Deactivating
  <2>3. Entered(d)'
    BY DEF Entered, Running
  <2>4. Unborn(d)'
    BY Nested DEF Unborn, Owning, PluginCode
  <2>5. Shut(d)'
    BY DEF Shut, Deactivating, Draining, PluginCode, Steps
  <2>6. Drains(d)'
    BY DEF Drains, Draining
  <2>7. Over(d)'
    BY DEF Over, Owning, Deactivating
  <2> QED BY <2>1, <2>2, <2>3, <2>4, <2>5, <2>6, <2>7
<1> QED BY <1>4, <1>5

\* The plugin value is dropped.
LEMMA DropReturnKeeps ==
  ASSUME Inv, NEW t \in Threads, DropReturn(t)
  PROVE  Inv'
<1> USE DEF Inv, DropReturn
<1>1. ~Idle(t) /\ Top(t).ctx \in Contexts
  BY TopTyped DEF At, Typed
<1> DEFINE s == "deactivate"
<1>2. s \in Steps /\ Goto(t, s)
  BY DEF Steps, PluginCode, Deactivating
<1>3. StackOK' /\ \A d, S : Moves(t, s, d, S)
  <2> HIDE DEF s
  <2> QED BY <1>2, <1>1, GotoCounts DEF Typed
<1>4. Typed'
  BY <1>1, <1>3 DEF Typed, gateVars, hostVars
<1>5. ASSUME NEW d \in Contexts PROVE Lives(d)'
  <2> USE <1>1, <1>3 DEF Moves, At, gateVars, hostVars, Lives, On
  <2>1. Counts(d)'
    BY DEF Counts, Held, Running
  <2>2. Owned(d)'
    BY DEF Owned, Owning, Deactivating
  <2>3. Entered(d)'
    BY DEF Entered, Running
  <2>4. Unborn(d)'
    BY Nested DEF Unborn, Owning, PluginCode
  <2>5. Shut(d)'
    BY DEF Shut, Deactivating, Draining, PluginCode, Steps
  <2>6. Drains(d)'
    BY DEF Drains, Draining
  <2>7. Over(d)'
    BY DEF Over, Owning, Deactivating
  <2> QED BY <2>1, <2>2, <2>3, <2>4, <2>5, <2>6, <2>7
<1> QED BY <1>4, <1>5

\* HostState::deactivate closes the context.
LEMMA DeactivateKeeps ==
  ASSUME Inv, NEW t \in Threads, Deactivate(t)
  PROVE  Inv'
<1> USE DEF Inv, Deactivate, AwaitLeases
<1>1. ~Idle(t) /\ Top(t).ctx \in Contexts
  BY TopTyped DEF At, Typed
<1> DEFINE s == IF inFlight[Top(t).ctx] = 0 THEN "close" ELSE "blocked"
<1>2. s \in Steps /\ Goto(t, s)
  BY DEF Steps, PluginCode, Deactivating
<1>3. StackOK' /\ \A d, S : Moves(t, s, d, S)
  <2> HIDE DEF s
  <2> QED BY <1>2, <1>1, GotoCounts DEF Typed
<1>4. \/ inFlight[Top(t).ctx] = 0 /\ s = "close"
      \/ ~(inFlight[Top(t).ctx] = 0) /\ s = "blocked"
  OBVIOUS
<1> HIDE DEF s
<1>5. Typed'
  BY <1>1, <1>3 DEF Typed, gateVars, hostVars
<1>6. ASSUME NEW d \in Contexts PROVE Lives(d)'
  <2>1. /\ Cardinality(FramesOf(stack, d, {"host"})) = 0 <=>
             FramesOf(stack, d, {"host"}) = {}
        /\ Cardinality(FramesOf(stack, d, Running)) = 0 <=> FramesOf(stack, d, Running) = {}
    BY FramesFinite
  <2> USE <1>1, <1>3, <1>4 DEF Moves, At, gateVars, hostVars, Lives, On
  <2>2. Counts(d)'
    BY DEF Counts, Held, Running
  <2>3. Owned(d)'
    BY DEF Owned, Owning, Deactivating
  <2>4. Entered(d)'
    BY DEF Entered, Running
  <2>5. Unborn(d)'
    BY Nested DEF Unborn, Owning, Deactivating, PluginCode
  <2>6. Shut(d)'
    BY Nested DEF Owned, Entered, Shut, Running, Deactivating, Draining, PluginCode,
       Steps
  <2>7. Drains(d)'
    BY <2>1 DEF Counts, Drains, Typed
  <2>8. Over(d)'
    BY DEF Over, Owning, Deactivating
  <2> QED BY <2>2, <2>3, <2>4, <2>5, <2>6, <2>7, <2>8
<1> QED BY <1>5, <1>6

\* HostState::deactivate looks at the leases again.
LEMMA RecheckKeeps ==
  ASSUME Inv, NEW t \in Threads, Recheck(t)
  PROVE  Inv'
<1> USE DEF Inv, Recheck, AwaitLeases
<1>1. ~Idle(t) /\ Top(t).ctx \in Contexts
  BY TopTyped DEF At, Typed
<1> DEFINE s == IF inFlight[Top(t).ctx] = 0 THEN "close" ELSE "blocked"
<1>2. s \in Steps /\ Goto(t, s)
  BY DEF Steps, PluginCode, Deactivating
<1>3. StackOK' /\ \A d, S : Moves(t, s, d, S)
  <2> HIDE DEF s
  <2> QED BY <1>2, <1>1, GotoCounts DEF Typed
<1>4. \/ inFlight[Top(t).ctx] = 0 /\ s = "close"
      \/ ~(inFlight[Top(t).ctx] = 0) /\ s = "blocked"
  OBVIOUS
<1> HIDE DEF s
<1>5. Typed'
  BY <1>1, <1>3 DEF Typed, gateVars, hostVars
<1>6. ASSUME NEW d \in Contexts PROVE Lives(d)'
  <2>1. /\ Cardinality(FramesOf(stack, d, {"host"})) = 0 <=>
             FramesOf(stack, d, {"host"}) = {}
        /\ Cardinality(FramesOf(stack, d, Running)) = 0 <=> FramesOf(stack, d, Running) = {}
    BY FramesFinite
  <2> USE <1>1, <1>3, <1>4 DEF Moves, At, gateVars, hostVars, Lives, On
  <2>2. Counts(d)'
    BY DEF Counts, Held, Running
  <2>3. Owned(d)'
    BY DEF Owned, Owning, Deactivating
  <2>4. Entered(d)'
    BY DEF Entered, Running
  <2>5. Unborn(d)'
    BY Nested DEF Unborn, Owning, Deactivating, PluginCode
  <2>6. Shut(d)'
    BY DEF Shut, Deactivating, Draining, PluginCode, Steps
  <2>7. Drains(d)'
    BY <2>1 DEF Counts, Drains, Draining
  <2>8. Over(d)'
    BY DEF Over, Owning, Deactivating
  <2> QED BY <2>2, <2>3, <2>4, <2>5, <2>6, <2>7, <2>8
<1> QED BY <1>5, <1>6

\* The callbacks are closed and the entry point returns.
LEMMA CloseCallbacksKeeps ==
  ASSUME Inv, NEW t \in Threads, CloseCallbacks(t)
  PROVE  Inv'
<1> USE DEF Inv, CloseCallbacks
<1>1. ~Idle(t) /\ Top(t).ctx \in Contexts
  BY TopTyped DEF At, Typed
<1>2. StackOK' /\ \A d, S : Removes(t, d, S)
  BY <1>1, ReturnCounts DEF Typed
<1>3. Typed'
  BY <1>1, <1>2 DEF Typed, gateVars, hostVars
<1>4. ASSUME NEW d \in Contexts PROVE Lives(d)'
  <2>1. /\ Cardinality(FramesOf(stack, d, {"host"})) = 0 <=>
             FramesOf(stack, d, {"host"}) = {}
        /\ Cardinality(FramesOf(stack, d, Running)) = 0 <=> FramesOf(stack, d, Running) = {}
    BY FramesFinite
  <2> USE <1>1, <1>2 DEF Removes, At, gateVars, hostVars, Lives, On
  <2>2. Lives(d) /\ Typed
    OBVIOUS
  <2>3. Counts(d)'
    BY DEF Counts, Held, Running
  <2>4. Owned(d)'
    BY DEF Owned, Deactivating
  <2>5. Entered(d)'
    BY DEF Entered, Typed
  <2>6. Unborn(d)'
    BY DEF Unborn, PluginCode
  <2>7. Shut(d)'
    BY <2>1, <2>2, Nested DEF Shut, Running, Owning, Deactivating, Draining,
       PluginCode, Typed
  <2>8. Drains(d)'
    BY DEF Drains, Typed
  <2>9. Over(d)'
    BY Nested DEF Drains, Over, Deactivating
  <2> QED BY <2>3, <2>4, <2>5, <2>6, <2>7, <2>8, <2>9
<1> QED BY <1>3, <1>4

\* A wait that returns without a notification.
LEMMA SpuriousWakeKeeps ==
  ASSUME Inv, NEW t \in Threads, SpuriousWake(t)
  PROVE  Inv'
<1> USE DEF Inv, SpuriousWake
<1>1. ~Idle(t) /\ Top(t).ctx \in Contexts
  BY TopTyped DEF At, Typed
<1> DEFINE s == IF Top(t).at = "asleep" THEN "wait" ELSE "recheck"
<1>2. s \in Steps /\ Goto(t, s)
  <2>1. CASE Top(t).at = "asleep"
    BY <2>1 DEF Steps, At
  <2>2. CASE Top(t).at # "asleep"
    BY <2>2 DEF Steps, At, Deactivating
  <2> QED BY <2>1, <2>2
<1>3. StackOK' /\ \A d, S : Moves(t, s, d, S)
  <2> HIDE DEF s
  <2> QED BY <1>2, <1>1, GotoCounts DEF Typed
<1>4. \/ Top(t).at = "asleep" /\ s = "wait"
      \/ ~(Top(t).at = "asleep") /\ s = "recheck"
  OBVIOUS
<1> HIDE DEF s
<1>5. Typed'
  BY <1>1, <1>3 DEF Typed, gateVars, hostVars
<1>6. ASSUME NEW d \in Contexts PROVE Lives(d)'
  <2> USE <1>1, <1>3, <1>4 DEF Moves, At, gateVars, hostVars, Lives, On
  <2>1. Counts(d)'
    BY DEF Counts, Held, Running
  <2>2. Owned(d)'
    BY DEF Owned, Owning, Deactivating
  <2>3. Entered(d)'
    BY DEF Entered, Running
  <2>4. Unborn(d)'
    BY Nested DEF Unborn, Owning, Deactivating, PluginCode
  <2>5. Shut(d)'
    BY DEF Shut, Deactivating, Draining, PluginCode, Steps
  <2>6. Drains(d)'
    BY DEF Drains, Draining
  <2>7. Over(d)'
    BY DEF Over, Owning, Deactivating
  <2> QED BY <2>1, <2>2, <2>3, <2>4, <2>5, <2>6, <2>7
<1> QED BY <1>5, <1>6

\* initialize_inner looks at the slot again, and installs the session or drops it.
LEMMA InstallKeeps ==
  ASSUME Inv, NEW t \in Threads, Install(t)
  PROVE  Inv'
<1> USE DEF Inv, Install
<1>1. ~Idle(t) /\ Top(t).ctx \in Contexts
  BY TopTyped DEF At, Typed
<1>2. CASE slot = None
  <2>1. StackOK' /\ \A d, S : Removes(t, d, S)
    BY <1>1, <1>2, ReturnCounts DEF Typed, Steps, PluginCode
  <2>2. Typed'
    <3>1. /\ slot' \in Contexts /\ refs' \in [Contexts -> Int]
          /\ accepting' \in [Contexts -> BOOLEAN]
      <4>1. Typed /\ slot' = Top(t).ctx /\ refs' = [refs EXCEPT ![Top(t).ctx] = 1]
            /\ accepting' = [accepting EXCEPT ![Top(t).ctx] = TRUE]
        BY <1>2
      <4> HIDE DEF Inv, Install
      <4> QED BY <1>1, <4>1 DEF Typed
    <3> QED BY <2>1, <3>1 DEF Typed, hostVars
  <2>3. ASSUME NEW d \in Contexts PROVE Lives(d)'
    <3> USE <1>1, <1>2, <2>1 DEF Removes, At, hostVars, Lives, On
    <3>1. Lives(d) /\ Typed
      OBVIOUS
    <3>2. Counts(d)'
      <4>1. /\ (invocations[d] = Cardinality(On(d, Running)))'
            /\ (inFlight[d] = Cardinality(On(d, {"host"})))'
        BY <3>1 DEF Counts, Running, Typed
      <4>2. Cardinality(FramesOf(stack', d, {"invoke"})) =
            Cardinality(FramesOf(stack, d, {"invoke"}))
        <5>1. Cardinality(FramesOf(stack, d, {"invoke"})) \in Nat
          BY FramesFinite
        <5> QED BY <5>1
      <4>3. \A q : q \in FramesOf(stack', d, {"wait", "asleep", "unwrap"}) <=>
                    q \in FramesOf(stack, d, {"wait", "asleep", "unwrap"})
        OBVIOUS
      <4>4. CASE Top(t).ctx # d
        <5>1. Held(d)' <=> Held(d)
          BY <4>3, <4>4 DEF Held
        <5>2. refs'[d] = refs[d]
          BY <4>4 DEF Typed
        <5> QED BY <4>1, <4>2, <5>1, <5>2, <3>1 DEF Counts
      <4>5. CASE Top(t).ctx = d
        <5>1. refs'[d] = 1 /\ Held(d)'
          BY <4>5, <3>1 DEF Typed, Held
        <5>2. FramesOf(stack, d, {"wait", "asleep"}) = {}
          <6>1. /\ Pos(t) \in FramesOf(stack, d, Owning)
                /\ Pos(t) \notin FramesOf(stack, d, {"wait", "asleep"})
            BY <4>5 DEF Owning
          <6> QED BY <6>1, <3>1, Nested DEF Owned
        <5>3. FramesOf(stack, d, {"invoke"}) = {}
          BY <1>2, <5>2, <3>1, Within DEF Entered, Running
        <5>4. Cardinality(FramesOf(stack, d, {"invoke"})) = 0
          BY <5>3, FramesFinite
        <5> QED BY <4>1, <4>2, <5>1, <5>4 DEF Counts
      <4> QED BY <4>4, <4>5
    <3>3. Owned(d)'
      BY DEF Owned, Owning, Deactivating
    <3>4. Entered(d)'
      BY DEF Entered, Typed
    <3>5. Unborn(d)'
      BY Nested DEF Unborn, Owning, PluginCode
    <3>6. Shut(d)'
      BY DEF Shut, Deactivating, Draining, PluginCode, Steps
    <3>7. Drains(d)'
      BY DEF Drains, Typed
    <3>8. Over(d)'
      BY DEF Over, Deactivating
    <3> QED BY <3>2, <3>3, <3>4, <3>5, <3>6, <3>7, <3>8
  <2> QED BY <2>2, <2>3
<1>3. CASE slot # None
  <2>1. StackOK' /\ \A d, S : Moves(t, "drop", d, S)
    BY <1>1, <1>3, GotoCounts DEF Typed, Steps, PluginCode
  <2>2. Typed'
    BY <1>1, <1>3, <2>1 DEF Typed, hostVars
  <2>3. ASSUME NEW d \in Contexts PROVE Lives(d)'
    <3> USE <1>1, <1>3, <2>1 DEF Moves, At, hostVars, Lives, On
    <3>1. Counts(d)'
      BY DEF Counts, Held, Running
    <3>2. Owned(d)'
      BY DEF Owned, Owning, Deactivating
    <3>3. Entered(d)'
      BY DEF Entered, Running
    <3>4. Unborn(d)'
      BY Nested DEF Unborn, Owning, PluginCode
    <3>5. Shut(d)'
      BY DEF Shut, Deactivating, Draining, PluginCode, Steps
    <3>6. Drains(d)'
      BY DEF Drains, Draining
    <3>7. Over(d)'
      BY DEF Over, Owning, Deactivating
    <3> QED BY <3>1, <3>2, <3>3, <3>4, <3>5, <3>6, <3>7
  <2> QED BY <2>2, <2>3
<1> QED BY <1>2, <1>3

\* The invariant is inductive.
LEMMA NextKeeps == Inv /\ [Next]_vars => Inv'
<1> SUFFICES ASSUME Inv, [Next]_vars PROVE Inv'
  OBVIOUS
<1>1. CASE Next
  <2>1. PICK t \in Threads :
          \/ Advance(t) \/ SpuriousWake(t) \/ InvokeBegin(t) \/ ShutdownBegin(t)
          \/ \E c \in Contexts : HostCall(t, c) \/ InitializeBegin(t, c)
    BY <1>1 DEF Next
  <2>2. CASE Advance(t)
    BY <2>2, HostReturnKeeps, InitializeOkKeeps, InitializeFailsKeeps, InstallKeeps,
       InvokeReturnKeeps, LeaveKeeps, AwaitInvocationsKeeps, UnwrapKeeps,
       ShutdownReturnKeeps, DropReturnKeeps, DeactivateKeeps, RecheckKeeps,
       CloseCallbacksKeeps DEF Advance
  <2> QED BY <2>1, <2>2, SpuriousWakeKeeps, InvokeBeginKeeps, ShutdownBeginKeeps,
             HostCallKeeps, InitializeBeginKeeps
<1>2. CASE UNCHANGED vars
  <2> USE <1>2 DEF vars
  <2>1. Typed'
    BY DEF Inv, Typed, StackOK
  <2>2. ASSUME NEW d \in Contexts PROVE Lives(d)'
    <3>1. Lives(d)
      BY DEF Inv
    <3>2. \A S : On(d, S)' = On(d, S)
      BY DEF On
    <3> QED BY <3>1, <3>2 DEF Lives, Counts, Held, Owned, Entered, Unborn, Shut,
               Drains, Over
  <2> QED BY <2>1, <2>2 DEF Inv
<1> QED BY <1>1, <1>2

\* The invariant holds in every state the program reaches.
LEMMA Invariance == Spec => []Inv
BY InitEstablishes, NextKeeps, PTL DEF Spec

\* Every counter of the runtime stays within the number of calls that can be
\* under way, whatever the number of threads and the depth of their stacks.
THEOREM TypeCorrect == Spec => []TypeOK
<1>1. Inv => TypeOK
  <2> SUFFICES ASSUME Inv PROVE TypeOK
    OBVIOUS
  <2>1. stack \in [Threads -> UNION {[1..n -> Frame] : n \in 0..MaxStack}]
    <3>1. ASSUME NEW t \in Threads
          PROVE  stack[t] \in UNION {[1..n -> Frame] : n \in 0..MaxStack}
      <4>1. Len(stack[t]) \in 0..MaxStack /\ stack[t] \in [1..Len(stack[t]) -> Frame]
        BY DEF Inv, Typed, StackOK
      <4> QED BY <4>1
    <3> QED BY <3>1 DEF Inv, Typed, StackOK
  <2>2. MaxStack * Cardinality(Threads) \in Nat
    BY FS_CardinalityType
  <2>3. ASSUME NEW c \in Contexts
        PROVE  /\ refs[c] \in 0..(1 + MaxStack * Cardinality(Threads))
               /\ invocations[c] \in 0..(MaxStack * Cardinality(Threads))
               /\ inFlight[c] \in 0..(MaxStack * Cardinality(Threads))
    <3>1. \A S : /\ Cardinality(FramesOf(stack, c, S)) \in Nat
                 /\ Cardinality(FramesOf(stack, c, S)) <= MaxStack * Cardinality(Threads)
      BY FramesFinite
    <3>2. Counts(c)
      BY DEF Inv, Lives
    <3> HIDE DEF Inv
    <3> DEFINE N == MaxStack * Cardinality(Threads)
    <3>3. N \in Nat /\ \A S : Cardinality(FramesOf(stack, c, S)) \in 0..N
      BY <3>1, <2>2
    <3> HIDE DEF N
    <3>4. refs[c] \in 0..(1 + N) /\ invocations[c] \in 0..N /\ inFlight[c] \in 0..N
      BY <3>2, <3>3 DEF Counts, On
    <3> QED BY <3>4 DEF N
  <2>4. /\ refs \in [Contexts -> 0..(1 + MaxStack * Cardinality(Threads))]
        /\ invocations \in [Contexts -> 0..(MaxStack * Cardinality(Threads))]
        /\ inFlight \in [Contexts -> 0..(MaxStack * Cardinality(Threads))]
    <3> HIDE DEF Inv
    <3> DEFINE N == MaxStack * Cardinality(Threads)
    <3>1. \A c \in Contexts :
            refs[c] \in 0..(1 + N) /\ invocations[c] \in 0..N /\ inFlight[c] \in 0..N
      BY <2>3
    <3>2. Typed
      BY DEF Inv
    <3> HIDE DEF N
    <3>3. /\ refs \in [Contexts -> 0..(1 + N)]
          /\ invocations \in [Contexts -> 0..N] /\ inFlight \in [Contexts -> 0..N]
      BY <3>1, <3>2 DEF Typed
    <3> QED BY <3>3 DEF N
  <2> QED BY <2>1, <2>4 DEF TypeOK, Inv, Typed
<1> QED BY <1>1, Invariance, PTL

\* The gate of a session whose shutdown goes on is empty, and the shutdown has
\* the only reference to the session.
LEMMA GateDrained ==
  ASSUME Inv, NEW t \in Threads, At(t, "unwrap")
  PROVE  /\ refs[Top(t).ctx] = 1
         /\ Cardinality(FramesOf(stack, Top(t).ctx, {"invoke"})) = 0
<1>1. PICK c \in Contexts : c = Top(t).ctx
  BY TopTyped DEF Inv, Typed, At
<1>2. \A S : "unwrap" \in S => Pos(t) \in FramesOf(stack, c, S)
  BY <1>1, TopTyped DEF Inv, Typed, At
<1>3. Lives(c) /\ Pos(t) \in FramesOf(stack, c, Owning)
  BY <1>2 DEF Inv, Owning
<1>4. FramesOf(stack, c, {"wait", "asleep"}) = {}
  <2>1. Pos(t) \notin FramesOf(stack, c, {"wait", "asleep"})
    <3>1. StackOK /\ ~Idle(t) /\ Top(t).at \notin {"wait", "asleep"}
      BY DEF Inv, Typed, At
    <3> QED BY <3>1, TopTyped
  <2> QED BY <2>1, <1>3, Nested DEF Lives, Owned, On
<1>5. FramesOf(stack, c, Running) = {} /\ Held(c)
  BY <1>2, <1>3, <1>4 DEF Lives, Owned, Entered, Held, On
<1>6. FramesOf(stack, c, {"invoke"}) = {}
  BY <1>5, Within DEF Running
<1>7. Cardinality(FramesOf(stack, c, {"invoke"})) = 0
  BY <1>6, FramesFinite
<1> QED BY <1>1, <1>3, <1>5, <1>7 DEF Lives, Counts, On

\* shutdown_inner's Arc::try_unwrap succeeds on any number of threads: no
\* invocation keeps a clone of the session once the gate has drained, so the
\* plugin's shutdown is never skipped.
THEOREM ShutdownUnwraps == Spec => []UnwrapSucceeds
<1>1. Inv => UnwrapSucceeds
  BY GateDrained DEF UnwrapSucceeds
<1> QED BY <1>1, Invariance, PTL

\* A context is deactivated only when the plugin's code is over: no handle that
\* code drops is leaked, and no output it returns fails to be allocated, because
\* the host was closed under it.
THEOREM HostOpen == Spec => []PluginCodeFindsHostOpen
<1>1. Inv => PluginCodeFindsHostOpen
  <2> SUFFICES ASSUME Inv, NEW t \in Threads, NEW i \in DOMAIN stack[t],
                      stack[t][i].at \in PluginCode
               PROVE  active[stack[t][i].ctx]
    BY DEF PluginCodeFindsHostOpen
  <2>1. stack[t] \in Seq(Frame) /\ i \in 1..Len(stack[t]) /\ Len(stack[t]) <= MaxStack
    BY DEF Inv, Typed, StackOK
  <2>2. PICK c \in Contexts : c = stack[t][i].ctx
    <3>1. stack[t][i] \in Frame
      BY <2>1
    <3> QED BY <3>1 DEF Frame
  <2>3. <<t, i>> \in FramesOf(stack, c, Steps \ (Draining \cup {"host"}))
    BY <2>1, <2>2 DEF FramesOf, Steps, PluginCode, Draining
  <2> QED BY <2>2, <2>3 DEF Inv, Lives, Shut, On, Typed
<1> QED BY <1>1, Invariance, PTL

-----------------------------------------------------------------------------
(* The session keeps the contract of each of its contexts.                 *)

\* Phase, of any stacks, slot and set of created contexts.
PhaseOf(st, sl, cr, c) ==
    IF c \notin cr THEN "unborn"
    ELSE IF sl = c THEN "open"
    ELSE IF FramesOf(st, c, {"initialize", "install"}) # {} THEN "initializing"
    ELSE IF FramesOf(st, c, {"wait", "asleep", "unwrap"}) # {} THEN "closing"
    ELSE IF FramesOf(st, c, {"shutdown"}) # {} THEN "shutdown"
    ELSE IF FramesOf(st, c, {"drop", "deactivate"}) # {} THEN "retiring"
    ELSE IF FramesOf(st, c, {"recheck", "blocked", "close"}) # {} THEN "draining"
    ELSE "ended"

\* One thread at most owns the context, and none before it is created or while
\* it is in the slot.
OneOwner(st, sl, cr, c) ==
    /\ \A p, q \in FramesOf(st, c, Owning) : p = q
    /\ sl = c => FramesOf(st, c, Owning) = {}
    /\ c \notin cr => sl # c /\ FramesOf(st, c, Owning) = {}

\* The steps of the phases of a context that has an owner.
OwnedPhases == {{"initialize", "install"}, {"wait", "asleep", "unwrap"}, {"shutdown"},
                {"drop", "deactivate"}, {"recheck", "blocked", "close"}}

\* The frames of the owner are in one phase.
LEMMA OnePhase ==
  ASSUME NEW st, NEW sl, NEW cr, NEW c, OneOwner(st, sl, cr, c),
         NEW S \in OwnedPhases, NEW R \in OwnedPhases, S # R, FramesOf(st, c, S) # {}
  PROVE  FramesOf(st, c, R) = {} /\ sl # c /\ c \in cr
<1>1. S \cap R = {} /\ S \subseteq Owning /\ R \subseteq Owning
  BY DEF OwnedPhases, Owning, Deactivating
<1>2. FramesOf(st, c, S) \subseteq FramesOf(st, c, Owning) /\
        FramesOf(st, c, R) \subseteq FramesOf(st, c, Owning)
  BY <1>1, Within
<1>3. FramesOf(st, c, S) \cap FramesOf(st, c, R) = {}
  BY <1>1 DEF FramesOf
<1> QED BY <1>2, <1>3 DEF OneOwner

\* The phase of a context, from the place of its owner.
LEMMA PhaseTable ==
  ASSUME NEW st, NEW sl, NEW cr, NEW c, OneOwner(st, sl, cr, c)
  PROVE  /\ FramesOf(st, c, {"initialize", "install"}) # {} =>
              PhaseOf(st, sl, cr, c) = "initializing"
         /\ FramesOf(st, c, {"wait", "asleep", "unwrap"}) # {} =>
              PhaseOf(st, sl, cr, c) = "closing"
         /\ FramesOf(st, c, {"shutdown"}) # {} => PhaseOf(st, sl, cr, c) = "shutdown"
         /\ FramesOf(st, c, {"drop", "deactivate"}) # {} =>
              PhaseOf(st, sl, cr, c) = "retiring"
         /\ FramesOf(st, c, {"recheck", "blocked", "close"}) # {} =>
              PhaseOf(st, sl, cr, c) = "draining"
         /\ sl = c => PhaseOf(st, sl, cr, c) = "open"
<1>1. \A S, R \in OwnedPhases :
        S # R /\ FramesOf(st, c, S) # {} => FramesOf(st, c, R) = {} /\ sl # c /\ c \in cr
  BY OnePhase
<1> DEFINE A == FramesOf(st, c, {"initialize", "install"})
           B == FramesOf(st, c, {"wait", "asleep", "unwrap"})
           C == FramesOf(st, c, {"shutdown"})
           D == FramesOf(st, c, {"drop", "deactivate"})
           E == FramesOf(st, c, {"recheck", "blocked", "close"})
<1>2. /\ A # {} \/ B # {} \/ C # {} \/ D # {} \/ E # {} => sl # c /\ c \in cr
      /\ A # {} => B = {} /\ C = {} /\ D = {} /\ E = {}
      /\ B # {} => C = {} /\ D = {} /\ E = {}
      /\ C # {} => D = {} /\ E = {}
      /\ D # {} => E = {}
      /\ B # {} => A = {}
      /\ C # {} => A = {} /\ B = {}
      /\ D # {} => A = {} /\ B = {} /\ C = {}
      /\ E # {} => A = {} /\ B = {} /\ C = {} /\ D = {}
  <2>1. /\ {"initialize", "install"} \in OwnedPhases
        /\ {"wait", "asleep", "unwrap"} \in OwnedPhases
        /\ {"shutdown"} \in OwnedPhases
        /\ {"drop", "deactivate"} \in OwnedPhases
        /\ {"recheck", "blocked", "close"} \in OwnedPhases
    BY DEF OwnedPhases
  <2>2. /\ "initialize" \notin {"wait", "asleep", "unwrap"} /\
             "initialize" \notin {"shutdown"}
        /\ "initialize" \notin {"drop", "deactivate"} /\
             "initialize" \notin {"recheck", "blocked", "close"}
        /\ "wait" \notin {"shutdown"} /\ "wait" \notin {"drop", "deactivate"}
        /\ "wait" \notin {"recheck", "blocked", "close"}
        /\ "shutdown" \notin {"drop", "deactivate"} /\
             "shutdown" \notin {"recheck", "blocked", "close"}
        /\ "drop" \notin {"recheck", "blocked", "close"}
    OBVIOUS
  <2> QED BY <1>1, <2>1, <2>2
<1>3. sl = c => c \in cr
  BY DEF OneOwner
<1> QED BY <1>2, <1>3 DEF PhaseOf

\* The phase of a context nothing of which moved between phases.
LEMMA SamePhase ==
  ASSUME NEW c, c \in created' <=> c \in created, slot' = c <=> slot = c,
         \A S \in OwnedPhases : FramesOf(stack', c, S) = FramesOf(stack, c, S)
  PROVE  Phase(c)' = Phase(c)
<1>1. /\ FramesOf(stack', c, {"initialize", "install"}) =
           FramesOf(stack, c, {"initialize", "install"})
      /\ FramesOf(stack', c, {"wait", "asleep", "unwrap"}) =
           FramesOf(stack, c, {"wait", "asleep", "unwrap"})
      /\ FramesOf(stack', c, {"shutdown"}) = FramesOf(stack, c, {"shutdown"})
      /\ FramesOf(stack', c, {"drop", "deactivate"}) =
           FramesOf(stack, c, {"drop", "deactivate"})
      /\ FramesOf(stack', c, {"recheck", "blocked", "close"}) =
           FramesOf(stack, c, {"recheck", "blocked", "close"})
  BY DEF OwnedPhases
<1>2. /\ \A S : FramesAt(c, S) = FramesOf(stack, c, S)
      /\ \A S : FramesAt(c, S)' = FramesOf(stack', c, S)
  BY DEF FramesAt, FramesOf
<1> QED BY <1>1, <1>2 DEF Phase

\* The variables of the contract, and the owner of a context before and after
\* a step.
LEMMA ContractView ==
  ASSUME Inv, Inv', NEW c \in Contexts
  PROVE  /\ Phase(c) = PhaseOf(stack, slot, created, c)
         /\ Phase(c)' = PhaseOf(stack', slot', created', c)
         /\ FramesAt(c, {"invoke"}) = FramesOf(stack, c, {"invoke"})
         /\ FramesAt(c, {"invoke"})' = FramesOf(stack', c, {"invoke"})
         /\ FramesAt(c, {"host"}) = FramesOf(stack, c, {"host"})
         /\ FramesAt(c, {"host"})' = FramesOf(stack', c, {"host"})
         /\ OneOwner(stack, slot, created, c)
         /\ OneOwner(stack', slot', created', c)
         /\ Cardinality(FramesOf(stack, c, {"invoke"})) \in Nat
         /\ Cardinality(FramesOf(stack, c, {"host"})) \in Nat
<1>1. \A S : /\ FramesAt(c, S) = FramesOf(stack, c, S)
             /\ FramesAt(c, S)' = FramesOf(stack', c, S)
  BY DEF FramesAt, FramesOf
<1>2. \A st : FramesOf(st, c, Owning) \subseteq FramesOf(st, c, Steps)
  BY Nested
<1>3. OneOwner(stack, slot, created, c)
  BY <1>2 DEF Inv, Lives, Owned, Unborn, OneOwner, On
<1>4. OneOwner(stack', slot', created', c)
  BY <1>2 DEF Inv, Lives, Owned, Unborn, OneOwner, On
<1>5. Phase(c) = PhaseOf(stack, slot, created, c)
  BY <1>1 DEF Phase, PhaseOf
<1>6. Phase(c)' = PhaseOf(stack', slot', created', c)
  BY <1>1 DEF Phase, PhaseOf
<1> QED BY <1>1, <1>3, <1>4, <1>5, <1>6, FramesFinite

\* A step that moves no frame of a context into or out of a phase, an
\* invocation or a host call is none of its contract.
LEMMA Unmoved ==
  ASSUME NEW c \in Contexts, c \in created' <=> c \in created, slot' = c <=> slot = c,
         \A S \in OwnedPhases \cup {{"invoke"}, {"host"}} :
            FramesOf(stack', c, S) = FramesOf(stack, c, S)
  PROVE  UNCHANGED Contract(c)!vars
<1>1. Phase(c)' = Phase(c)
  BY SamePhase
<1>2. /\ FramesOf(stack', c, {"invoke"}) = FramesOf(stack, c, {"invoke"})
      /\ FramesOf(stack', c, {"host"}) = FramesOf(stack, c, {"host"})
  OBVIOUS
<1>3. FramesAt(c, {"invoke"})' = FramesAt(c, {"invoke"}) /\ FramesAt(c, {"host"})' =
        FramesAt(c, {"host"})
  BY <1>2 DEF FramesAt, FramesOf
<1> QED BY <1>1, <1>3 DEF Contract!vars


\* Each action is a step of the contract of every context, or none of it.
LEMMA InitializeOkContract ==
  ASSUME Inv, Inv', NEW t \in Threads, InitializeOk(t), NEW d \in Contexts
  PROVE  [Contract(d)!Next]_(Contract(d)!vars)
<1>1. ~Idle(t) /\ Top(t).ctx \in Contexts
  BY TopTyped DEF At, Inv, Typed, InitializeOk
<1>2. PICK s \in {"install"} : Goto(t, s) /\ Top(t).at = "initialize"
  BY DEF InitializeOk, At
<1>3. \A S : Moves(t, s, d, S)
  <2>1. s \in Steps
    BY DEF Steps, PluginCode, Deactivating
  <2> QED BY <2>1, <1>1, <1>2, GotoCounts DEF Inv, Typed
<1>4. \A S \in OwnedPhases \cup {{"invoke"}, {"host"}} :
        FramesOf(stack', d, S) = FramesOf(stack, d, S)
  BY <1>2, <1>3 DEF Moves, OwnedPhases
<1> QED BY <1>4, Unmoved DEF InitializeOk

\* InvocationGate::wait is none of the contract,
LEMMA AwaitInvocationsContract ==
  ASSUME Inv, Inv', NEW t \in Threads, AwaitInvocations(t), NEW d \in Contexts
  PROVE  [Contract(d)!Next]_(Contract(d)!vars)
<1>1. ~Idle(t) /\ Top(t).ctx \in Contexts
  BY TopTyped DEF At, Inv, Typed, AwaitInvocations
<1>2. PICK s \in {"unwrap", "asleep"} : Goto(t, s) /\ Top(t).at = "wait"
  BY DEF AwaitInvocations, At
<1>3. \A S : Moves(t, s, d, S)
  <2>1. s \in Steps
    BY DEF Steps, PluginCode, Deactivating
  <2> QED BY <2>1, <1>1, <1>2, GotoCounts DEF Inv, Typed
<1>4. \A S \in OwnedPhases \cup {{"invoke"}, {"host"}} :
        FramesOf(stack', d, S) = FramesOf(stack, d, S)
  BY <1>2, <1>3 DEF Moves, OwnedPhases
<1> QED BY <1>4, Unmoved DEF AwaitInvocations

\* nor is the return of the plugin value's Drop,
LEMMA DropReturnContract ==
  ASSUME Inv, Inv', NEW t \in Threads, DropReturn(t), NEW d \in Contexts
  PROVE  [Contract(d)!Next]_(Contract(d)!vars)
<1>1. ~Idle(t) /\ Top(t).ctx \in Contexts
  BY TopTyped DEF At, Inv, Typed, DropReturn
<1>2. PICK s \in {"deactivate"} : Goto(t, s) /\ Top(t).at = "drop"
  BY DEF DropReturn, At
<1>3. \A S : Moves(t, s, d, S)
  <2>1. s \in Steps
    BY DEF Steps, PluginCode, Deactivating
  <2> QED BY <2>1, <1>1, <1>2, GotoCounts DEF Inv, Typed
<1>4. \A S \in OwnedPhases \cup {{"invoke"}, {"host"}} :
        FramesOf(stack', d, S) = FramesOf(stack, d, S)
  BY <1>2, <1>3 DEF Moves, OwnedPhases
<1> QED BY <1>4, Unmoved DEF DropReturn

\* nor a second look at the leases,
LEMMA RecheckContract ==
  ASSUME Inv, Inv', NEW t \in Threads, Recheck(t), NEW d \in Contexts
  PROVE  [Contract(d)!Next]_(Contract(d)!vars)
<1>1. ~Idle(t) /\ Top(t).ctx \in Contexts
  BY TopTyped DEF At, Inv, Typed, Recheck
<1>2. PICK s \in {"close", "blocked"} : Goto(t, s) /\ Top(t).at = "recheck"
  BY DEF Recheck, At, AwaitLeases
<1>3. \A S : Moves(t, s, d, S)
  <2>1. s \in Steps
    BY DEF Steps, PluginCode, Deactivating
  <2> QED BY <2>1, <1>1, <1>2, GotoCounts DEF Inv, Typed
<1>4. \A S \in OwnedPhases \cup {{"invoke"}, {"host"}} :
        FramesOf(stack', d, S) = FramesOf(stack, d, S)
  BY <1>2, <1>3 DEF Moves, OwnedPhases
<1> QED BY <1>4, Unmoved DEF Recheck

\* nor a wait that returns early,
LEMMA SpuriousWakeContract ==
  ASSUME Inv, Inv', NEW t \in Threads, SpuriousWake(t), NEW d \in Contexts
  PROVE  [Contract(d)!Next]_(Contract(d)!vars)
<1>1. ~Idle(t) /\ Top(t).ctx \in Contexts
  BY TopTyped DEF At, Inv, Typed, SpuriousWake
<1>2. PICK s \in {"wait", "recheck"} :
        Goto(t, s) /\ Top(t).at = IF s = "wait" THEN "asleep" ELSE "blocked"
  BY DEF SpuriousWake, At
<1>3. \A S : Moves(t, s, d, S)
  <2>1. s \in Steps
    BY DEF Steps, PluginCode, Deactivating
  <2> QED BY <2>1, <1>1, <1>2, GotoCounts DEF Inv, Typed
<1>4. \A S \in OwnedPhases \cup {{"invoke"}, {"host"}} :
        FramesOf(stack', d, S) = FramesOf(stack, d, S)
  BY <1>2, <1>3 DEF Moves, OwnedPhases
<1> QED BY <1>4, Unmoved DEF SpuriousWake

\* nor the exit from the gate, whose invocation is over.
LEMMA LeaveContract ==
  ASSUME Inv, Inv', NEW t \in Threads, Leave(t), NEW d \in Contexts
  PROVE  [Contract(d)!Next]_(Contract(d)!vars)
<1>1. ~Idle(t) /\ Top(t).ctx \in Contexts
  BY TopTyped DEF At, Inv, Typed, Leave
<1>2. \A S : ("asleep" \in S <=> "wait" \in S) => Removes(t, d, S)
  <2>1. "asleep" \in Steps /\ "wait" \in Steps
    BY DEF Steps
  <2> QED BY <2>1, <1>1, NotifyCounts DEF Inv, Typed, Leave
<1>3. \A S \in OwnedPhases \cup {{"invoke"}, {"host"}} :
        FramesOf(stack', d, S) = FramesOf(stack, d, S)
  BY <1>2 DEF Removes, OwnedPhases, Leave, At
<1> QED BY <1>3, Unmoved DEF Leave

\* Refuse: a plugin whose initialize failed.
LEMMA InitializeFailsContract ==
  ASSUME Inv, Inv', NEW t \in Threads, InitializeFails(t), NEW d \in Contexts
  PROVE  [Contract(d)!Next]_(Contract(d)!vars)
<1>1. ~Idle(t) /\ Top(t).ctx \in Contexts
  BY TopTyped DEF At, Inv, Typed, InitializeFails
<1>2. PICK s \in {"drop"} : Goto(t, s) /\ Top(t).at = "initialize"
  BY DEF InitializeFails, At
<1>3. \A S : Moves(t, s, d, S)
  <2>1. s \in Steps
    BY DEF Steps, PluginCode, Deactivating
  <2> QED BY <2>1, <1>1, <1>2, GotoCounts DEF Inv, Typed
<1>4. CASE Top(t).ctx # d
  <2>1. \A S : FramesOf(stack', d, S) = FramesOf(stack, d, S)
    BY <1>3, <1>4 DEF Moves
  <2> QED BY <2>1, Unmoved DEF InitializeFails
<1>5. CASE Top(t).ctx = d
  <2>1. FramesOf(stack, d, {"initialize", "install"}) # {}
    BY <1>2, <1>3, <1>5 DEF Moves
  <2>2. FramesOf(stack', d, {"drop", "deactivate"}) # {}
    BY <1>2, <1>3, <1>5 DEF Moves
  <2>3. Phase(d) = "initializing" /\ Phase(d)' = "retiring"
    BY <2>1, <2>2, ContractView, PhaseTable
  <2>4. /\ FramesOf(stack', d, {"invoke"}) = FramesOf(stack, d, {"invoke"})
        /\ FramesOf(stack', d, {"host"}) = FramesOf(stack, d, {"host"})
    BY <1>2, <1>3 DEF Moves
  <2> QED BY <2>3, <2>4, ContractView DEF Contract!Next, Contract!Refuse, Contract!Move
<1> QED BY <1>4, <1>5

\* Retire.
LEMMA ShutdownReturnContract ==
  ASSUME Inv, Inv', NEW t \in Threads, ShutdownReturn(t), NEW d \in Contexts
  PROVE  [Contract(d)!Next]_(Contract(d)!vars)
<1>1. ~Idle(t) /\ Top(t).ctx \in Contexts
  BY TopTyped DEF At, Inv, Typed, ShutdownReturn
<1>2. PICK s \in {"drop"} : Goto(t, s) /\ Top(t).at = "shutdown"
  BY DEF ShutdownReturn, At
<1>3. \A S : Moves(t, s, d, S)
  <2>1. s \in Steps
    BY DEF Steps, PluginCode, Deactivating
  <2> QED BY <2>1, <1>1, <1>2, GotoCounts DEF Inv, Typed
<1>4. CASE Top(t).ctx # d
  <2>1. \A S : FramesOf(stack', d, S) = FramesOf(stack, d, S)
    BY <1>3, <1>4 DEF Moves
  <2> QED BY <2>1, Unmoved DEF ShutdownReturn
<1>5. CASE Top(t).ctx = d
  <2>1. FramesOf(stack, d, {"shutdown"}) # {}
    BY <1>2, <1>3, <1>5 DEF Moves
  <2>2. FramesOf(stack', d, {"drop", "deactivate"}) # {}
    BY <1>2, <1>3, <1>5 DEF Moves
  <2>3. Phase(d) = "shutdown" /\ Phase(d)' = "retiring"
    BY <2>1, <2>2, ContractView, PhaseTable
  <2>4. /\ FramesOf(stack', d, {"invoke"}) = FramesOf(stack, d, {"invoke"})
        /\ FramesOf(stack', d, {"host"}) = FramesOf(stack, d, {"host"})
    BY <1>2, <1>3 DEF Moves
  <2> QED BY <2>3, <2>4, ContractView DEF Contract!Next, Contract!Retire, Contract!Move
<1> QED BY <1>4, <1>5

\* Drain.
LEMMA DeactivateContract ==
  ASSUME Inv, Inv', NEW t \in Threads, Deactivate(t), NEW d \in Contexts
  PROVE  [Contract(d)!Next]_(Contract(d)!vars)
<1>1. ~Idle(t) /\ Top(t).ctx \in Contexts
  BY TopTyped DEF At, Inv, Typed, Deactivate
<1>2. PICK s \in {"close", "blocked"} : Goto(t, s) /\ Top(t).at = "deactivate"
  BY DEF Deactivate, At, AwaitLeases
<1>3. \A S : Moves(t, s, d, S)
  <2>1. s \in Steps
    BY DEF Steps, PluginCode, Deactivating
  <2> QED BY <2>1, <1>1, <1>2, GotoCounts DEF Inv, Typed
<1>4. CASE Top(t).ctx # d
  <2>1. \A S : FramesOf(stack', d, S) = FramesOf(stack, d, S)
    BY <1>3, <1>4 DEF Moves
  <2> QED BY <2>1, Unmoved DEF Deactivate
<1>5. CASE Top(t).ctx = d
  <2>1. FramesOf(stack, d, {"drop", "deactivate"}) # {}
    BY <1>2, <1>3, <1>5 DEF Moves
  <2>2. FramesOf(stack', d, {"recheck", "blocked", "close"}) # {}
    BY <1>2, <1>3, <1>5 DEF Moves
  <2>3. Phase(d) = "retiring" /\ Phase(d)' = "draining"
    BY <2>1, <2>2, ContractView, PhaseTable
  <2>4. /\ FramesOf(stack', d, {"invoke"}) = FramesOf(stack, d, {"invoke"})
        /\ FramesOf(stack', d, {"host"}) = FramesOf(stack, d, {"host"})
    BY <1>2, <1>3 DEF Moves
  <2> QED BY <2>3, <2>4, ContractView DEF Contract!Next, Contract!Drain, Contract!Move
<1> QED BY <1>4, <1>5

\* StartShutdown: the gate is empty.
LEMMA UnwrapContract ==
  ASSUME Inv, Inv', NEW t \in Threads, Unwrap(t), NEW d \in Contexts
  PROVE  [Contract(d)!Next]_(Contract(d)!vars)
<1>1. ~Idle(t) /\ Top(t).ctx \in Contexts
  BY TopTyped DEF At, Inv, Typed, Unwrap
<1>2. PICK s \in {"shutdown"} : Goto(t, s) /\ Top(t).at = "unwrap"
  BY GateDrained DEF Unwrap, At
<1>3. \A S : Moves(t, s, d, S)
  <2>1. s \in Steps
    BY DEF Steps, PluginCode, Deactivating
  <2> QED BY <2>1, <1>1, <1>2, GotoCounts DEF Inv, Typed
<1>4. CASE Top(t).ctx # d
  <2>1. \A S : FramesOf(stack', d, S) = FramesOf(stack, d, S)
    BY <1>3, <1>4 DEF Moves
  <2> QED BY <2>1, Unmoved DEF Unwrap
<1>5. CASE Top(t).ctx = d
  <2>1. FramesOf(stack, d, {"wait", "asleep", "unwrap"}) # {}
    BY <1>2, <1>3, <1>5 DEF Moves
  <2>2. FramesOf(stack', d, {"shutdown"}) # {}
    BY <1>2, <1>3, <1>5 DEF Moves
  <2>3. Phase(d) = "closing" /\ Phase(d)' = "shutdown"
    BY <2>1, <2>2, ContractView, PhaseTable
  <2>4. /\ FramesOf(stack', d, {"invoke"}) = FramesOf(stack, d, {"invoke"})
        /\ FramesOf(stack', d, {"host"}) = FramesOf(stack, d, {"host"})
    BY <1>2, <1>3 DEF Moves
  <2>5. Cardinality(FramesAt(d, {"invoke"})) = 0
    BY <1>5, GateDrained, ContractView DEF Unwrap
  <2> QED BY <2>3, <2>4, <2>5, ContractView DEF Contract!Next, Contract!StartShutdown,
             Contract!Move
<1> QED BY <1>4, <1>5

\* Create.
LEMMA InitializeBeginContract ==
  ASSUME Inv, Inv', NEW t \in Threads, NEW c \in Contexts, InitializeBegin(t, c),
         NEW d \in Contexts
  PROVE  [Contract(d)!Next]_(Contract(d)!vars)
<1>1. c \in Contexts /\ HasRoom(t) /\ "initialize" \in Steps
  BY DEF Inv, Typed, Steps, PluginCode, Idle, HasRoom, Room, InitializeBegin
<1>2. \A S : Adds(t, "initialize", c, d, S)
  BY <1>1, CallCounts DEF Inv, Typed, InitializeBegin
<1>3. CASE d # c
  <2>1. \A S : FramesOf(stack', d, S) = FramesOf(stack, d, S)
    BY <1>2, <1>3 DEF Adds
  <2> QED BY <2>1, <1>3, Unmoved DEF InitializeBegin
<1>4. CASE d = c
  <2>1. FramesOf(stack', d, {"initialize", "install"}) # {}
    BY <1>2, <1>4 DEF Adds
  <2>2. Phase(d) = "unborn" /\ Phase(d)' = "initializing"
    BY <1>4, <2>1, ContractView, PhaseTable DEF Phase, InitializeBegin
  <2>3. /\ FramesOf(stack', d, {"invoke"}) = FramesOf(stack, d, {"invoke"})
        /\ FramesOf(stack', d, {"host"}) = FramesOf(stack, d, {"host"})
    BY <1>2 DEF Adds
  <2> QED BY <2>2, <2>3, ContractView DEF Contract!Next, Contract!Create, Contract!Move
<1> QED BY <1>3, <1>4

\* Close.
LEMMA ShutdownBeginContract ==
  ASSUME Inv, Inv', NEW t \in Threads, ShutdownBegin(t), NEW d \in Contexts
  PROVE  [Contract(d)!Next]_(Contract(d)!vars)
<1>1. slot \in Contexts /\ HasRoom(t) /\ "wait" \in Steps
  BY DEF Inv, Typed, Steps, PluginCode, Idle, HasRoom, Room, ShutdownBegin
<1>2. \A S : Adds(t, "wait", slot, d, S)
  BY <1>1, CallCounts DEF Inv, Typed, ShutdownBegin
<1>3. CASE d # slot
  <2>1. \A S : FramesOf(stack', d, S) = FramesOf(stack, d, S)
    BY <1>2, <1>3 DEF Adds
  <2> QED BY <2>1, <1>3, Unmoved DEF ShutdownBegin
<1>4. CASE d = slot
  <2>1. FramesOf(stack', d, {"wait", "asleep", "unwrap"}) # {}
    BY <1>2, <1>4 DEF Adds
  <2>2. Phase(d) = "open" /\ Phase(d)' = "closing"
    BY <1>4, <2>1, ContractView, PhaseTable
  <2>3. /\ FramesOf(stack', d, {"invoke"}) = FramesOf(stack, d, {"invoke"})
        /\ FramesOf(stack', d, {"host"}) = FramesOf(stack, d, {"host"})
    BY <1>2 DEF Adds
  <2> QED BY <2>2, <2>3, ContractView DEF Contract!Next, Contract!Close, Contract!Move
<1> QED BY <1>3, <1>4

\* EnterInvocation.
LEMMA InvokeBeginContract ==
  ASSUME Inv, Inv', NEW t \in Threads, InvokeBegin(t), NEW d \in Contexts
  PROVE  [Contract(d)!Next]_(Contract(d)!vars)
<1>1. slot \in Contexts /\ HasRoom(t) /\ "invoke" \in Steps
  BY DEF Inv, Typed, Steps, PluginCode, Idle, HasRoom, Room, InvokeBegin
<1>2. \A S : Adds(t, "invoke", slot, d, S)
  BY <1>1, CallCounts DEF Inv, Typed, InvokeBegin
<1>3. CASE d # slot
  <2>1. \A S : FramesOf(stack', d, S) = FramesOf(stack, d, S)
    BY <1>2, <1>3 DEF Adds
  <2> QED BY <2>1, Unmoved DEF InvokeBegin
<1>4. CASE d = slot
  <2>1. Phase(d) = "open" /\ Phase(d)' = "open"
    BY <1>4, ContractView DEF PhaseOf, OneOwner, InvokeBegin
  <2>2. /\ Cardinality(FramesOf(stack', d, {"invoke"})) =
             Cardinality(FramesOf(stack, d, {"invoke"})) + 1
        /\ FramesOf(stack', d, {"host"}) = FramesOf(stack, d, {"host"})
    BY <1>2, <1>4 DEF Adds
  <2> QED BY <2>1, <2>2, ContractView DEF Contract!Next, Contract!EnterInvocation
<1> QED BY <1>3, <1>4

\* LeaveInvocation.
LEMMA InvokeReturnContract ==
  ASSUME Inv, Inv', NEW t \in Threads, InvokeReturn(t), NEW d \in Contexts
  PROVE  [Contract(d)!Next]_(Contract(d)!vars)
<1>1. ~Idle(t) /\ Top(t).ctx \in Contexts
  BY TopTyped DEF At, Inv, Typed, InvokeReturn
<1>2. \A S : Moves(t, "leave", d, S)
  <2>1. "leave" \in Steps
    BY DEF Steps
  <2> QED BY <2>1, <1>1, GotoCounts DEF Inv, Typed, InvokeReturn
<1>3. CASE Top(t).ctx # d
  <2>1. \A S : FramesOf(stack', d, S) = FramesOf(stack, d, S)
    BY <1>2, <1>3 DEF Moves
  <2> QED BY <2>1, Unmoved DEF InvokeReturn
<1>4. CASE Top(t).ctx = d
  <2>1. Top(t).at = "invoke"
    BY DEF InvokeReturn, At
  <2>2. /\ \A S \in OwnedPhases : FramesOf(stack', d, S) = FramesOf(stack, d, S)
        /\ FramesOf(stack', d, {"host"}) = FramesOf(stack, d, {"host"})
    BY <1>2, <2>1 DEF Moves, OwnedPhases
  <2>3. Phase(d)' = Phase(d)
    BY <2>2, SamePhase DEF InvokeReturn
  <2>4. /\ FramesOf(stack, d, {"invoke"}) # {}
        /\ Cardinality(FramesOf(stack', d, {"invoke"})) =
             Cardinality(FramesOf(stack, d, {"invoke"})) - 1
    BY <1>2, <1>4, <2>1 DEF Moves
  <2>5. Cardinality(FramesOf(stack, d, {"invoke"})) > 0
    BY <2>4, FramesFinite
  <2> QED BY <2>2, <2>3, <2>4, <2>5, ContractView DEF Contract!Next,
             Contract!LeaveInvocation
<1> QED BY <1>3, <1>4

\* A context whose life is over has no owner.
LEMMA EndedOwnerless ==
  ASSUME NEW st, NEW sl, NEW cr, NEW c, PhaseOf(st, sl, cr, c) = "ended"
  PROVE  sl # c /\ FramesOf(st, c, Owning) = {}
<1>1. FramesOf(st, c, Owning) =
        FramesOf(st, c, {"initialize", "install"}) \cup
          FramesOf(st, c, {"wait", "asleep", "unwrap"})
          \cup FramesOf(st, c, {"shutdown"}) \cup FramesOf(st, c, {"drop", "deactivate"})
          \cup FramesOf(st, c, {"recheck", "blocked", "close"})
  BY DEF FramesOf, Owning, Deactivating
<1> QED BY <1>1 DEF PhaseOf

\* StartCall.
LEMMA HostCallContract ==
  ASSUME Inv, Inv', NEW t \in Threads, NEW c \in Contexts, HostCall(t, c),
         NEW d \in Contexts
  PROVE  [Contract(d)!Next]_(Contract(d)!vars)
<1>1. c \in Contexts /\ HasRoom(t) /\ "host" \in Steps
  BY DEF Inv, Typed, Steps, PluginCode, Idle, HasRoom, Room, HostCall
<1>2. \A S : Adds(t, "host", c, d, S)
  BY <1>1, CallCounts DEF Inv, Typed, HostCall
<1>3. CASE d # c
  <2>1. \A S : FramesOf(stack', d, S) = FramesOf(stack, d, S)
    BY <1>2, <1>3 DEF Adds
  <2> QED BY <2>1, Unmoved DEF HostCall
<1>4. CASE d = c
  <2>1. \A S \in OwnedPhases \cup {{"invoke"}} :
          FramesOf(stack', d, S) = FramesOf(stack, d, S)
    BY <1>2 DEF Adds, OwnedPhases
  <2>2. Phase(d)' = Phase(d)
    BY <2>1, SamePhase DEF HostCall
  <2>3. /\ Cardinality(FramesOf(stack', d, {"host"})) =
             Cardinality(FramesOf(stack, d, {"host"})) + 1
        /\ FramesOf(stack', d, {"invoke"}) = FramesOf(stack, d, {"invoke"})
    BY <1>2, <1>4, <2>1 DEF Adds
  <2>4. active[d] \/ Cardinality(FramesOf(stack, d, {"host"})) > 0
    BY <1>4, DepthCounts, FramesFinite DEF HostCall
  <2>5. d \in created
    <3>1. CASE ~Idle(t) /\ Top(t).at \in PluginCode /\ Top(t).ctx = c
      <4>1. Pos(t) \in FramesOf(stack, c, Steps)
        BY <3>1, TopTyped DEF Steps, Inv, Typed
      <4> QED BY <1>4, <4>1 DEF Unborn, Inv, Lives, On
    <3> QED BY <1>4, <3>1 DEF HoldsContext, HostCall
  <2>6. Phase(d) # "unborn"
    BY <2>5 DEF Phase
  <2>7. CASE Phase(d) = "ended"
    <3>1. slot # d /\ FramesOf(stack, d, Owning) = {}
      BY <2>5, <2>7, ContractView, EndedOwnerless DEF Inv, Typed
    <3>2. ~active[d] /\ FramesOf(stack, d, {"host"}) = {}
      BY <2>5, <3>1 DEF Inv, Lives, Over, On
    <3> QED BY <3>2, <2>4, FramesFinite
  <2>8. CASE Phase(d) = "draining"
    <3>1. FramesOf(stack, d, {"recheck", "blocked", "close"}) # {}
      BY <2>8, ContractView DEF PhaseOf
    <3>2. ~active[d]
      BY <3>1 DEF Inv, Lives, Drains, Draining, On
    <3> QED BY <2>2, <2>3, <2>4, <2>8, <3>2, ContractView DEF Contract!Next,
               Contract!StartCall
  <2> QED BY <2>2, <2>3, <2>6, <2>7, <2>8, ContractView DEF Contract!Next,
             Contract!StartCall
<1> QED BY <1>3, <1>4

\* EndCall.
LEMMA HostReturnContract ==
  ASSUME Inv, Inv', NEW t \in Threads, HostReturn(t), NEW d \in Contexts
  PROVE  [Contract(d)!Next]_(Contract(d)!vars)
<1>1. ~Idle(t) /\ Top(t).ctx \in Contexts
  BY TopTyped DEF At, Inv, Typed, HostReturn
<1>2. \A S : ("blocked" \in S <=> "recheck" \in S) => Removes(t, d, S)
  <2>1. "blocked" \in Steps /\ "recheck" \in Steps
    BY DEF Steps, Deactivating
  <2> QED BY <2>1, <1>1, NotifyCounts DEF Inv, Typed, HostReturn
<1>3. Top(t).at = "host"
  BY DEF HostReturn, At
<1>4. /\ \A S \in OwnedPhases : FramesOf(stack', d, S) = FramesOf(stack, d, S)
      /\ FramesOf(stack', d, {"invoke"}) = FramesOf(stack, d, {"invoke"})
  BY <1>2, <1>3 DEF Removes, OwnedPhases
<1>5. Phase(d)' = Phase(d)
  BY <1>4, SamePhase DEF HostReturn
<1>6. Removes(t, d, {"host"})
  BY <1>2
<1>7. CASE Top(t).ctx # d
  BY <1>4, <1>5, <1>6, <1>7, ContractView DEF Removes, Contract!vars
<1>8. CASE Top(t).ctx = d
  <2>1. /\ FramesOf(stack, d, {"host"}) # {}
        /\ Cardinality(FramesOf(stack', d, {"host"})) =
             Cardinality(FramesOf(stack, d, {"host"})) - 1
    BY <1>3, <1>6, <1>8 DEF Removes
  <2>2. Cardinality(FramesOf(stack, d, {"host"})) > 0
    BY <2>1, FramesFinite
  <2> QED BY <1>4, <1>5, <2>1, <2>2, ContractView DEF Contract!Next, Contract!EndCall
<1> QED BY <1>7, <1>8

\* A context that was created and has neither owner nor slot is over.
LEMMA OwnerlessEnded ==
  ASSUME NEW st, NEW sl, NEW cr, NEW c, sl # c, c \in cr, FramesOf(st, c, Owning) = {}
  PROVE  PhaseOf(st, sl, cr, c) = "ended"
<1>1. \A S \in OwnedPhases : FramesOf(st, c, S) \subseteq FramesOf(st, c, Owning)
  BY DEF OwnedPhases, FramesOf, Owning, Deactivating
<1>2. \A S \in OwnedPhases : FramesOf(st, c, S) = {}
  BY <1>1
<1> QED BY <1>2 DEF PhaseOf, OwnedPhases

\* End.
LEMMA CloseCallbacksContract ==
  ASSUME Inv, Inv', NEW t \in Threads, CloseCallbacks(t), NEW d \in Contexts
  PROVE  [Contract(d)!Next]_(Contract(d)!vars)
<1>1. ~Idle(t) /\ Top(t).ctx \in Contexts
  BY TopTyped DEF At, Inv, Typed, CloseCallbacks
<1>2. \A S : Removes(t, d, S)
  BY <1>1, ReturnCounts DEF Inv, Typed, CloseCallbacks
<1>3. CASE Top(t).ctx # d
  <2>1. \A S : FramesOf(stack', d, S) = FramesOf(stack, d, S)
    BY <1>2, <1>3 DEF Removes
  <2> QED BY <2>1, Unmoved DEF CloseCallbacks
<1>4. CASE Top(t).ctx = d
  <2>1. Top(t).at = "close"
    BY DEF CloseCallbacks, At
  <2>2. /\ Pos(t) \in FramesOf(stack, d, {"close"})
        /\ Pos(t) \in FramesOf(stack, d, {"recheck", "blocked", "close"})
        /\ Pos(t) \in FramesOf(stack, d, Owning)
        /\ FramesOf(stack', d, Owning) = FramesOf(stack, d, Owning) \ {Pos(t)}
    BY <1>2, <1>4, <2>1 DEF Removes, Owning, Deactivating
  <2>3. FramesOf(stack', d, Owning) = {} /\ slot' # d /\ d \in created'
    BY <2>2, ContractView DEF OneOwner, CloseCallbacks
  <2>4. Phase(d) = "draining" /\ Phase(d)' = "ended"
    BY <2>2, <2>3, ContractView, PhaseTable, OwnerlessEnded
  <2>5. Cardinality(FramesOf(stack, d, {"host"})) = 0
    BY <2>2, FramesFinite DEF Inv, Lives, Drains, On
  <2>6. /\ FramesOf(stack', d, {"invoke"}) = FramesOf(stack, d, {"invoke"})
        /\ FramesOf(stack', d, {"host"}) = FramesOf(stack, d, {"host"})
    BY <1>2, <2>1 DEF Removes
  <2> QED BY <2>4, <2>5, <2>6, ContractView DEF Contract!Next, Contract!End,
             Contract!Move
<1> QED BY <1>3, <1>4

\* Accept, or Refuse when another thread was first.
LEMMA InstallContract ==
  ASSUME Inv, Inv', NEW t \in Threads, Install(t), NEW d \in Contexts
  PROVE  [Contract(d)!Next]_(Contract(d)!vars)
<1>1. ~Idle(t) /\ Top(t).ctx \in Contexts
  BY TopTyped DEF At, Inv, Typed, Install
<1>2. Top(t).at = "install"
  BY DEF Install, At
<1>3. CASE slot = None
  <2>1. \A S : Removes(t, d, S)
    BY <1>1, <1>3, ReturnCounts DEF Inv, Typed, Install
  <2>2. CASE Top(t).ctx # d
    <3>1. \A S : FramesOf(stack', d, S) = FramesOf(stack, d, S)
      BY <2>1, <2>2 DEF Removes
    <3> QED BY <1>3, <2>2, <3>1, Unmoved DEF Install
  <2>3. CASE Top(t).ctx = d
    <3>1. FramesOf(stack, d, {"initialize", "install"}) # {}
      BY <1>2, <2>1, <2>3 DEF Removes
    <3>2. slot' = d
      BY <1>3, <2>3 DEF Install
    <3>3. Phase(d) = "initializing" /\ Phase(d)' = "open"
      BY <3>1, <3>2, ContractView, PhaseTable
    <3>4. /\ FramesOf(stack', d, {"invoke"}) = FramesOf(stack, d, {"invoke"})
          /\ FramesOf(stack', d, {"host"}) = FramesOf(stack, d, {"host"})
      BY <1>2, <2>1 DEF Removes
    <3> QED BY <3>3, <3>4, ContractView DEF Contract!Next, Contract!Accept,
               Contract!Move
  <2> QED BY <2>2, <2>3
<1>4. CASE slot # None
  <2>1. \A S : Moves(t, "drop", d, S)
    BY <1>1, <1>4, GotoCounts DEF Inv, Typed, Install, Steps, PluginCode
  <2>2. CASE Top(t).ctx # d
    <3>1. \A S : FramesOf(stack', d, S) = FramesOf(stack, d, S)
      BY <2>1, <2>2 DEF Moves
    <3> QED BY <1>4, <3>1, Unmoved DEF Install
  <2>3. CASE Top(t).ctx = d
    <3>1. FramesOf(stack, d, {"initialize", "install"}) # {} /\
            FramesOf(stack', d, {"drop", "deactivate"}) # {}
      BY <1>2, <2>1, <2>3 DEF Moves
    <3>2. Phase(d) = "initializing" /\ Phase(d)' = "retiring"
      BY <3>1, ContractView, PhaseTable
    <3>3. /\ FramesOf(stack', d, {"invoke"}) = FramesOf(stack, d, {"invoke"})
          /\ FramesOf(stack', d, {"host"}) = FramesOf(stack, d, {"host"})
      BY <1>2, <2>1 DEF Moves
    <3> QED BY <3>2, <3>3, ContractView DEF Contract!Next, Contract!Refuse,
               Contract!Move
  <2> QED BY <2>2, <2>3
<1> QED BY <1>3, <1>4

\* Every step of the session keeps every contract.
LEMMA StepContract ==
  ASSUME Inv, Inv', [Next]_vars, NEW d \in Contexts
  PROVE  [Contract(d)!Next]_(Contract(d)!vars)
<1>1. CASE Next
  <2>1. PICK t \in Threads :
          \/ Advance(t) \/ SpuriousWake(t) \/ InvokeBegin(t) \/ ShutdownBegin(t)
          \/ \E c \in Contexts : HostCall(t, c) \/ InitializeBegin(t, c)
    BY <1>1 DEF Next
  <2>2. CASE Advance(t)
    BY <2>2, HostReturnContract, InitializeOkContract, InitializeFailsContract,
       InstallContract, InvokeReturnContract, LeaveContract, AwaitInvocationsContract,
       UnwrapContract, ShutdownReturnContract, DropReturnContract, DeactivateContract,
       RecheckContract, CloseCallbacksContract DEF Advance
  <2> QED BY <2>1, <2>2, SpuriousWakeContract, InvokeBeginContract,
             ShutdownBeginContract,
             HostCallContract, InitializeBeginContract
<1>2. CASE UNCHANGED vars
  BY <1>2, Unmoved DEF vars
<1> QED BY <1>1, <1>2

\* Every context lives by the contract of the ABI, however the threads of the
\* host and of the plugin interleave: shutdown runs after the last invocation and
\* alone, and no host callback is called once the host may free it.
THEOREM Refines == Spec => KeepsContract
<1>1. Init => \A c \in Contexts : Contract(c)!Init
  <2> SUFFICES ASSUME Init, NEW c \in Contexts PROVE Contract(c)!Init
    OBVIOUS
  <2>1. \A S : FramesAt(c, S) = {}
    BY DEF Init, FramesAt
  <2>2. Cardinality({}) = 0
    BY FS_EmptySet
  <2> QED BY <2>1, <2>2 DEF Init, Phase, Contract!Init
<1>2. Inv /\ Inv' /\ [Next]_vars =>
        [\A c \in Contexts : [Contract(c)!Next]_(Contract(c)!vars)]_vars
  BY StepContract
<1> QED BY <1>1, <1>2, Invariance, PTL DEF Spec, KeepsContract

-----------------------------------------------------------------------------
(* The host side of each context is an instance of HostAdmission.          *)

\* A thread that initializes or shuts a context down is in no other call, and
\* what a call was made from is plugin code or a host call.
Nesting ==
    /\ \A c \in Contexts : \A p \in On(c, Owning) : p[2] = 1
    /\ \A t \in Threads : \A i \in 1..(Len(stack[t]) - 1) :
          stack[t][i].at \in PluginCode \cup {"host"}

\* What becomes of the frames below the top, and of the other threads.
LEMMA AfterCall ==
  ASSUME StackOK, NEW t \in Threads, NEW s \in Steps, NEW c \in Contexts, Call(t, s, c)
  PROVE  /\ Len(stack'[t]) = Len(stack[t]) + 1 /\ Len(stack[t]) \in Nat
         /\ stack'[t][Len(stack[t]) + 1] = [at |-> s, ctx |-> c]
         /\ \A i \in 1..Len(stack[t]) : stack'[t][i] = stack[t][i]
         /\ \A u \in Threads \ {t} : stack'[u] = stack[u]
BY DEF StackOK, Call

\* The same of a step within a function.
LEMMA AfterGoto ==
  ASSUME StackOK, NEW t \in Threads, ~Idle(t), NEW s \in Steps, Goto(t, s)
  PROVE  /\ Len(stack'[t]) = Len(stack[t]) /\ Len(stack[t]) \in Nat \ {0}
         /\ stack'[t][Len(stack[t])].at = s
         /\ stack'[t][Len(stack[t])].ctx = Top(t).ctx
         /\ \A i \in 1..(Len(stack[t]) - 1) : stack'[t][i] = stack[t][i]
         /\ \A u \in Threads \ {t} : stack'[u] = stack[u]
<1>1. stack[t] \in Seq(Frame) /\ Len(stack[t]) \in 1..MaxStack /\ Top(t) \in Frame
  BY TopTyped DEF StackOK
<1>2. /\ stack'[t] = [stack[t] EXCEPT ![Len(stack[t])].at = s]
      /\ \A u \in Threads \ {t} : stack'[u] = stack[u]
  BY DEF Goto, StackOK, Stepped
<1>3. /\ Len(stack'[t]) = Len(stack[t])
      /\ stack'[t][Len(stack[t])] = [Top(t) EXCEPT !.at = s]
      /\ \A i \in 1..Len(stack[t]) : i # Len(stack[t]) => stack'[t][i] = stack[t][i]
  BY <1>1, <1>2 DEF Top
<1>4. stack'[t][Len(stack[t])].at = s /\ stack'[t][Len(stack[t])].ctx = Top(t).ctx
  BY <1>1, <1>3 DEF Frame
<1> QED BY <1>1, <1>2, <1>3, <1>4

\* The same of a return.
LEMMA AfterPop ==
  ASSUME StackOK, NEW t \in Threads, ~Idle(t), stack'[t] = Popped(stack[t])
  PROVE  /\ Len(stack'[t]) = Len(stack[t]) - 1 /\ Len(stack[t]) \in Nat \ {0}
         /\ \A i \in 1..(Len(stack[t]) - 1) : stack'[t][i] = stack[t][i]
<1>1. stack[t] \in Seq(Frame) /\ Len(stack[t]) \in 1..MaxStack
  BY TopTyped DEF StackOK
<1> QED BY <1>1 DEF Popped

\* A thread that was notified.
LEMMA AfterWake ==
  ASSUME StackOK, NEW u \in Threads, NEW asleep, NEW awake \in Steps, At(u, asleep),
         stack'[u] = Stepped(stack[u], awake)
  PROVE  /\ Len(stack'[u]) = Len(stack[u]) /\ Len(stack[u]) \in Nat \ {0}
         /\ stack'[u][Len(stack[u])].at = awake
         /\ stack'[u][Len(stack[u])].ctx = Top(u).ctx
         /\ \A i \in 1..(Len(stack[u]) - 1) : stack'[u][i] = stack[u][i]
<1>1. stack[u] \in Seq(Frame) /\ Len(stack[u]) \in 1..MaxStack /\ Top(u) \in Frame
  BY TopTyped DEF StackOK, At
<1>2. /\ Len(stack'[u]) = Len(stack[u])
      /\ stack'[u][Len(stack[u])] = [Top(u) EXCEPT !.at = awake]
      /\ \A i \in 1..Len(stack[u]) : i # Len(stack[u]) => stack'[u][i] = stack[u][i]
  BY <1>1 DEF Stepped, Top
<1>3. stack'[u][Len(stack[u])].at = awake /\ stack'[u][Len(stack[u])].ctx = Top(u).ctx
  BY <1>1, <1>2 DEF Frame
<1> QED BY <1>1, <1>2, <1>3

\* Of a return that may notify.
LEMMA AfterNotify ==
  ASSUME StackOK, NEW t \in Threads, ~Idle(t), NEW c, NEW n, NEW asleep, NEW awake,
         ReturnAndNotify(t, c, n, asleep, awake)
  PROVE  /\ stack'[t] = Popped(stack[t])
         /\ \A u \in Threads \ {t} :
              IF n = 0 /\ At(u, asleep) /\ Top(u).ctx = c
                THEN stack'[u] = Stepped(stack[u], awake) ELSE stack'[u] = stack[u]
BY DEF ReturnAndNotify

\* Every action is one of these operations on the stacks.
LEMMA StackSteps ==
  ASSUME Inv, Next
  PROVE  \E t \in Threads :
           \/ \E s \in {"host", "invoke", "initialize", "wait"}, c \in Contexts :
                /\ Call(t, s, c) /\ HasRoom(t)
                /\ s = "host" => Idle(t) \/ Top(t).at \in PluginCode
                /\ s = "invoke" => Idle(t) \/ Top(t).at = "host"
                /\ s \in {"initialize", "wait"} => Idle(t)
           \/ \E s \in Steps :
                /\ ~Idle(t) /\ Goto(t, s)
                /\ s \in Owning <=> Top(t).at \in Owning
           \/ ~Idle(t) /\ Return(t)
           \/ \E c, n : ~Idle(t) /\ ReturnAndNotify(t, c, n, "blocked", "recheck")
           \/ \E c, n : ~Idle(t) /\ ReturnAndNotify(t, c, n, "asleep", "wait")
<1> USE DEF At
<1>1. PICK t \in Threads :
        \/ Advance(t) \/ SpuriousWake(t) \/ InvokeBegin(t) \/ ShutdownBegin(t)
        \/ \E c \in Contexts : HostCall(t, c) \/ InitializeBegin(t, c)
  BY DEF Next
<1> DEFINE Calls == \E s \in {"host", "invoke", "initialize", "wait"}, c \in Contexts :
                /\ Call(t, s, c) /\ HasRoom(t)
                /\ s = "host" => Idle(t) \/ Top(t).at \in PluginCode
                /\ s = "invoke" => Idle(t) \/ Top(t).at = "host"
                /\ s \in {"initialize", "wait"} => Idle(t)
           Goes == \E s \in Steps :
                /\ ~Idle(t) /\ Goto(t, s)
                /\ s \in Owning <=> Top(t).at \in Owning
<1>2. slot \in Contexts \cup {None}
  BY DEF Inv, Typed
<1>3. ASSUME NEW c \in Contexts, HostCall(t, c) PROVE Calls
  BY <1>3 DEF HostCall, HoldsContext
<1>4. ASSUME NEW c \in Contexts, InitializeBegin(t, c) PROVE Calls
  BY <1>4 DEF InitializeBegin, HasRoom, Room, Idle
<1>5. CASE InvokeBegin(t)
  <2>1. Calls
    BY <1>2, <1>5 DEF InvokeBegin
  <2> QED BY <2>1
<1>6. CASE ShutdownBegin(t)
  <2>1. Calls
    BY <1>2, <1>6 DEF ShutdownBegin, HasRoom, Room, Idle
  <2> QED BY <2>1
<1>7. CASE HostReturn(t) \/ Leave(t)
  BY <1>7 DEF HostReturn, Leave
<1>8. CASE CloseCallbacks(t)
  BY <1>8 DEF CloseCallbacks
<1>9. CASE Install(t)
  <2>1. CASE slot = None
    BY <1>9, <2>1 DEF Install
  <2>2. CASE slot # None
    <3>1. Goes
      BY <1>9, <2>2 DEF Install, Owning, Steps, PluginCode
    <3> QED BY <3>1
  <2> QED BY <2>1, <2>2
<1>10. ASSUME InitializeOk(t) \/ InitializeFails(t) \/ InvokeReturn(t) \/
                ShutdownReturn(t) \/ DropReturn(t)
       PROVE  Goes
  BY <1>10 DEF InitializeOk, InitializeFails, InvokeReturn, ShutdownReturn, DropReturn,
     Owning,
     Steps, PluginCode, Deactivating
<1>11. ASSUME AwaitInvocations(t) PROVE Goes
  BY <1>11 DEF AwaitInvocations, Owning, Steps
<1>12. ASSUME Unwrap(t) PROVE Goes
  BY <1>12 DEF Unwrap, Owning, Steps, PluginCode, Deactivating
<1>13. ASSUME Deactivate(t) \/ Recheck(t) PROVE Goes
  BY <1>13 DEF Deactivate, Recheck, AwaitLeases, Owning, Steps, Deactivating
<1>14. ASSUME SpuriousWake(t) PROVE Goes
  BY <1>14 DEF SpuriousWake, Owning, Steps, Deactivating
<1> QED BY <1>1, <1>3, <1>4, <1>5, <1>6, <1>7, <1>8, <1>9, <1>10, <1>11, <1>12, <1>13,
           <1>14
        DEF Advance

\* The nesting of the calls is inductive.
LEMMA NestingKeeps ==
  ASSUME Inv, Nesting, [Next]_vars
  PROVE  Nesting'
<1> USE DEF Nesting, On
<1>1. CASE UNCHANGED vars
  BY <1>1 DEF vars
<1>2. CASE Next
  <2> DEFINE Below(st, t) == \A i \in 1..(Len(st[t]) - 1) :
    st[t][i].at \in PluginCode \cup {"host"}
             Bottom(st) == \A c \in Contexts : \A p \in FramesOf(st, c, Owning) : p[2] = 1
  <2>1. PICK t \in Threads :
           \/ \E s \in {"host", "invoke", "initialize", "wait"}, c \in Contexts :
                /\ Call(t, s, c) /\ HasRoom(t)
                /\ s = "host" => Idle(t) \/ Top(t).at \in PluginCode
                /\ s = "invoke" => Idle(t) \/ Top(t).at = "host"
                /\ s \in {"initialize", "wait"} => Idle(t)
           \/ \E s \in Steps :
                /\ ~Idle(t) /\ Goto(t, s)
                /\ s \in Owning <=> Top(t).at \in Owning
           \/ ~Idle(t) /\ Return(t)
           \/ \E c, n : ~Idle(t) /\ ReturnAndNotify(t, c, n, "blocked", "recheck")
           \/ \E c, n : ~Idle(t) /\ ReturnAndNotify(t, c, n, "asleep", "wait")
    BY <1>2, StackSteps
  <2>2. StackOK /\ Bottom(stack) /\ \A u \in Threads : Below(stack, u)
    BY DEF Inv, Typed
  <2>3. ASSUME NEW s \in {"host", "invoke", "initialize", "wait"}, NEW c \in Contexts,
               Call(t, s, c), HasRoom(t),
               s = "host" => Idle(t) \/ Top(t).at \in PluginCode,
               s = "invoke" => Idle(t) \/ Top(t).at = "host",
               s \in {"initialize", "wait"} => Idle(t)
        PROVE  Bottom(stack') /\ \A u \in Threads : Below(stack', u)
    <3>1. s \in Steps
      BY DEF Steps, PluginCode
    <3>2. \A d, S : Adds(t, s, c, d, S)
      BY <2>2, <2>3, <3>1, CallCounts
    <3>3. s \in Owning => Above(t)[2] = 1
      BY <2>3 DEF Owning, Deactivating, Above, Idle
    <3>4. Bottom(stack')
      BY <2>2, <3>2, <3>3 DEF Adds
    <3>5. /\ Len(stack'[t]) = Len(stack[t]) + 1 /\ Len(stack[t]) \in Nat
          /\ \A i \in 1..Len(stack[t]) : stack'[t][i] = stack[t][i]
          /\ \A u \in Threads \ {t} : stack'[u] = stack[u]
      BY <2>2, <2>3, <3>1, AfterCall
    <3>6. ASSUME NEW u \in Threads PROVE Below(stack', u)
      <4>1. CASE u # t
        BY <2>2, <3>5, <4>1
      <4>2. CASE u = t /\ Idle(t)
        <5>1. Len(stack[t]) = 0
          BY <4>2 DEF Idle
        <5>2. Len(stack'[t]) = 0 + 1
          BY <3>5, <5>1
        <5>3. 1..(0 + 1 - 1) = {}
          OBVIOUS
        <5>4. 1..(Len(stack'[t]) - 1) = {}
          BY <5>2, <5>3
        <5> QED BY <4>2, <5>4
      <4>3. CASE u = t /\ ~Idle(t)
        <5>1. Len(stack[t]) \in Nat \ {0} /\
                stack[t][Len(stack[t])].at \in PluginCode \cup {"host"}
          BY <2>2, <2>3, <4>3, TopTyped DEF Top
        <5>2. \A i \in 1..Len(stack[t]) : stack[t][i].at \in PluginCode \cup {"host"}
          BY <2>2, <5>1
        <5> QED BY <3>5, <4>3, <5>1, <5>2
      <4> QED BY <4>1, <4>2, <4>3
    <3> QED BY <3>4, <3>6
  <2>4. ASSUME NEW s \in Steps, ~Idle(t), Goto(t, s), s \in Owning <=> Top(t).at \in Owning
        PROVE  Bottom(stack') /\ \A u \in Threads : Below(stack', u)
    <3>1. \A d : FramesOf(stack', d, Owning) = FramesOf(stack, d, Owning)
      BY <2>2, <2>4, GotoCounts DEF Moves
    <3> QED BY <2>2, <2>4, <3>1, AfterGoto
  <2>5. ASSUME ~Idle(t), Return(t)
        PROVE  Bottom(stack') /\ \A u \in Threads : Below(stack', u)
    <3>1. \A d : FramesOf(stack', d, Owning) \subseteq FramesOf(stack, d, Owning)
      BY <2>2, <2>5, ReturnCounts DEF Removes
    <3>2. stack'[t] = Popped(stack[t]) /\ \A u \in Threads \ {t} : stack'[u] = stack[u]
      BY <2>2, <2>5 DEF Return, StackOK
    <3> QED BY <2>2, <2>5, <3>1, <3>2, AfterPop
  <2>6. ASSUME NEW c, NEW n, NEW asleep \in Owning, NEW awake \in Owning, ~Idle(t),
               ReturnAndNotify(t, c, n, asleep, awake)
        PROVE  Bottom(stack') /\ \A u \in Threads : Below(stack', u)
    <3>1. asleep \in Steps /\ awake \in Steps
      BY DEF Owning, Steps, PluginCode, Deactivating
    <3>2. \A d : FramesOf(stack', d, Owning) \subseteq FramesOf(stack, d, Owning)
      BY <2>2, <2>6, <3>1, NotifyCounts DEF Removes
    <3>3. ASSUME NEW u \in Threads PROVE Below(stack', u)
      <4>1. CASE u = t
        BY <2>2, <2>6, <4>1, AfterNotify, AfterPop
      <4>2. CASE u # t /\ stack'[u] = stack[u]
        BY <2>2, <4>2
      <4>3. CASE u # t /\ At(u, asleep) /\ stack'[u] = Stepped(stack[u], awake)
        BY <2>2, <3>1, <4>3, AfterWake
      <4> QED BY <2>2, <2>6, <4>1, <4>2, <4>3, AfterNotify
    <3> QED BY <2>2, <3>2, <3>3
  <2>7. "blocked" \in Owning /\ "recheck" \in Owning /\ "asleep" \in Owning /\
          "wait" \in Owning
    BY DEF Owning, Deactivating
  <2>8. Bottom(stack') /\ \A u \in Threads : Below(stack', u)
    BY <2>1, <2>3, <2>4, <2>5, <2>6, <2>7
  <2> QED BY <2>8
<1> QED BY <1>1, <1>2

\* The leases of a thread, of any stacks.
LeasesOf(st, t, c) == {p \in FramesOf(st, c, {"host"}) : p[1] = t}

\* HOST_LEASE_DEPTHS counts the leases of a thread.
LEMMA DepthIs ==
  ASSUME NEW t, NEW c
  PROVE  /\ Depth(t, c) = Cardinality(LeasesOf(stack, t, c))
         /\ Depth(t, c)' = Cardinality(LeasesOf(stack', t, c))
         /\ \A st :
              IsFiniteSet(LeasesOf(st, t, c)) /\ Cardinality(LeasesOf(st, t, c)) \in Nat
<1>1. \A st : LeasesOf(st, t, c) \subseteq FramesOf(st, c, {"host"})
  BY DEF LeasesOf
<1>2. \A st : IsFiniteSet(LeasesOf(st, t, c))
  BY <1>1, FramesFinite, FS_Subset
<1>3. /\ Depth(t, c) = Cardinality(LeasesOf(stack, t, c))
      /\ Depth(t, c)' = Cardinality(LeasesOf(stack', t, c))
  BY DEF Depth, LeasesOf, FramesAt, FramesOf
<1> QED BY <1>2, <1>3, FS_CardinalityType

\* No more leases than frames.
LEMMA DepthBounded ==
  ASSUME StackOK, NEW t \in Threads, NEW c
  PROVE  Depth(t, c) \in 0..Len(stack[t])
<1>1. Len(stack[t]) \in Nat
  BY DEF StackOK
<1>2. LeasesOf(stack, t, c) \subseteq {t} \X (1..Len(stack[t]))
  BY <1>1 DEF LeasesOf, FramesOf
<1>3. IsFiniteSet(1..Len(stack[t])) /\ Cardinality(1..Len(stack[t])) = Len(stack[t])
  <2>1. Cardinality(1..Len(stack[t])) =
          IF 1 > Len(stack[t]) THEN 0 ELSE Len(stack[t]) - 1 + 1
    BY <1>1, FS_Interval
  <2> QED BY <1>1, <2>1, FS_Interval
<1>4. IsFiniteSet({t}) /\ Cardinality({t}) = 1
  BY FS_Singleton
<1>5. /\ IsFiniteSet({t} \X (1..Len(stack[t])))
      /\ Cardinality({t} \X (1..Len(stack[t]))) = 1 * Len(stack[t])
  BY <1>3, <1>4, FS_Product
<1>6. Cardinality(LeasesOf(stack, t, c)) <= 1 * Len(stack[t])
  BY <1>2, <1>5, FS_Subset
<1> QED BY <1>1, <1>6, DepthIs

\* A step that moves no host call changes no depth.
LEMMA DepthSame ==
  ASSUME NEW c, FramesOf(stack', c, {"host"}) = FramesOf(stack, c, {"host"})
  PROVE  \A u \in Threads : Depth(u, c)' = Depth(u, c)
<1>1. \A u : LeasesOf(stack', u, c) = LeasesOf(stack, u, c)
  BY DEF LeasesOf
<1> QED BY <1>1, DepthIs

\* A host call is one level deeper.
LEMMA DepthAfterCall ==
  ASSUME StackOK, NEW t \in Threads, HasRoom(t), NEW c \in Contexts, Call(t, "host", c)
  PROVE  \A u \in Threads : Depth(u, c)' = IF u = t THEN Depth(u, c) + 1 ELSE Depth(u, c)
<1>1. /\ FramesOf(stack', c, {"host"}) = FramesOf(stack, c, {"host"}) \cup {Above(t)}
      /\ Above(t) \notin FramesOf(stack, c, {"host"})
  BY CallAdds DEF Steps
<1>2. Above(t)[1] = t
  BY DEF Above
<1>3. LeasesOf(stack', t, c) =
        LeasesOf(stack, t, c) \cup {Above(t)} /\ Above(t) \notin LeasesOf(stack, t, c)
  BY <1>1, <1>2 DEF LeasesOf
<1>4. \A u \in Threads \ {t} : LeasesOf(stack', u, c) = LeasesOf(stack, u, c)
  BY <1>1, <1>2 DEF LeasesOf
<1>5. Cardinality(LeasesOf(stack', t, c)) = Cardinality(LeasesOf(stack, t, c)) + 1
  BY <1>3, DepthIs, OneMore
<1> QED BY <1>4, <1>5, DepthIs

\* Its return is one level up.
LEMMA DepthAfterReturn ==
  ASSUME NEW t \in Threads, NEW c,
         FramesOf(stack', c, {"host"}) = FramesOf(stack, c, {"host"}) \ {Pos(t)},
         Pos(t) \in FramesOf(stack, c, {"host"})
  PROVE  /\ \A u \in Threads : Depth(u, c)' = IF u = t THEN Depth(u, c) - 1 ELSE Depth(u, c)
         /\ Depth(t, c) > 0
<1>1. Pos(t)[1] = t
  BY DEF Pos
<1>2. LeasesOf(stack', t, c) =
        LeasesOf(stack, t, c) \ {Pos(t)} /\ Pos(t) \in LeasesOf(stack, t, c)
  BY <1>1 DEF LeasesOf
<1>3. \A u \in Threads \ {t} : LeasesOf(stack', u, c) = LeasesOf(stack, u, c)
  BY <1>1 DEF LeasesOf
<1>4. Cardinality(LeasesOf(stack', t, c)) = Cardinality(LeasesOf(stack, t, c)) - 1
  BY <1>2, DepthIs, OneLess
<1>5. Depth(t, c) # 0
  BY <1>2, DepthIs, FS_EmptySet
<1> QED BY <1>3, <1>4, <1>5, DepthIs

\* Where a thread is in deactivate() of a context, after each operation.
LEMMA DrainSame ==
  ASSUME NEW u \in Threads, NEW d, stack'[u] = stack[u]
  PROVE  DrainStep(u, d)' = DrainStep(u, d)
BY DEF DrainStep, Idle, Top

\* A call is made outside deactivate().
LEMMA DrainAfterCall ==
  ASSUME StackOK, NEW t \in Threads, NEW s \in Steps \ {"blocked", "recheck"},
         NEW c \in Contexts,
         Call(t, s, c), Idle(t) \/ Top(t).at \in PluginCode \cup {"host"}, NEW d
  PROVE  /\ DrainStep(t, d) = "idle"
         /\ \A u \in Threads : DrainStep(u, d)' = DrainStep(u, d)
<1>1. /\ Len(stack'[t]) = Len(stack[t]) + 1 /\ Len(stack[t]) \in Nat
      /\ stack'[t][Len(stack[t]) + 1] = [at |-> s, ctx |-> c]
      /\ \A u \in Threads \ {t} : stack'[u] = stack[u]
  BY AfterCall
<1>2. DrainStep(t, d) = "idle"
  BY DEF DrainStep, PluginCode
<1>3. Top(t)'.at = s
  BY <1>1 DEF Top
<1>4. DrainStep(t, d)' = "idle"
  BY <1>3 DEF DrainStep
<1>5. \A u \in Threads \ {t} : DrainStep(u, d)' = DrainStep(u, d)
  BY <1>1, DrainSame
<1> QED BY <1>2, <1>4, <1>5

\* DrainStep, of a step.
DrainAt(s) == CASE s = "blocked" -> "blocked" [] s = "recheck" -> "check" [] OTHER -> "idle"

\* A step within a function may enter, continue or leave the wait.
LEMMA DrainAfterGoto ==
  ASSUME StackOK, NEW t \in Threads, ~Idle(t), NEW s \in Steps, Goto(t, s), NEW d
  PROVE  /\ DrainStep(t, d) = IF Top(t).ctx = d THEN DrainAt(Top(t).at) ELSE "idle"
         /\ DrainStep(t, d)' = IF Top(t).ctx = d THEN DrainAt(s) ELSE "idle"
         /\ \A u \in Threads \ {t} : DrainStep(u, d)' = DrainStep(u, d)
<1>1. /\ Len(stack'[t]) = Len(stack[t]) /\ Len(stack[t]) \in Nat \ {0}
      /\ stack'[t][Len(stack[t])].at = s
      /\ stack'[t][Len(stack[t])].ctx = Top(t).ctx
      /\ \A u \in Threads \ {t} : stack'[u] = stack[u]
  BY AfterGoto
<1>2. Top(t)'.at = s /\ Top(t)'.ctx = Top(t).ctx /\ ~Idle(t)'
  BY <1>1 DEF Top, Idle
<1> QED BY <1>1, <1>2, DrainSame DEF DrainStep, DrainAt

\* Of a stack with one frame, or with one below the top.
LEMMA OneOrMore == \A n \in Nat \ {0} : n = 1 \/ n - 1 \in 1..(n - 1)
OBVIOUS

\* What a function returns to is outside deactivate().
LEMMA DrainAfterPop ==
  ASSUME StackOK, Nesting, NEW t \in Threads, ~Idle(t), stack'[t] = Popped(stack[t]),
         NEW d
  PROVE  DrainStep(t, d)' = "idle"
<1>1. /\ Len(stack'[t]) = Len(stack[t]) - 1 /\ Len(stack[t]) \in Nat \ {0}
      /\ \A i \in 1..(Len(stack[t]) - 1) : stack'[t][i] = stack[t][i]
  BY AfterPop
<1>2. stack[t] \in Seq(Frame)
  BY DEF StackOK
<1>3. CASE Len(stack[t]) = 1
  <2>1. Popped(stack[t]) \in Seq(Frame)
    BY PoppedTyped
  <2>2. stack'[t] = <<>>
    BY <1>1, <1>3, <2>1
  <2> QED BY <2>2 DEF DrainStep, Idle
<1>4. Len(stack[t]) = 1 \/ Len(stack[t]) - 1 \in 1..(Len(stack[t]) - 1)
  BY <1>1, OneOrMore
<1>5. CASE Len(stack[t]) - 1 \in 1..(Len(stack[t]) - 1)
  <2>1. Len(stack[t]) - 1 \in 1..(Len(stack[t]) - 1)
    BY <1>5
  <2>2. stack[t][Len(stack[t]) - 1].at \in PluginCode \cup {"host"}
    BY <2>1 DEF Nesting
  <2>3. Top(t)'.at \in PluginCode \cup {"host"}
    BY <1>1, <2>1, <2>2 DEF Top
  <2> QED BY <2>3 DEF DrainStep, PluginCode
<1> QED BY <1>3, <1>5, <1>4

\* A notified thread tests the count again.
LEMMA DrainAfterWake ==
  ASSUME StackOK, NEW u \in Threads, NEW asleep, NEW awake \in Steps, At(u, asleep),
         stack'[u] = Stepped(stack[u], awake), NEW d
  PROVE  /\ DrainStep(u, d) = IF Top(u).ctx = d THEN DrainAt(asleep) ELSE "idle"
         /\ DrainStep(u, d)' = IF Top(u).ctx = d THEN DrainAt(awake) ELSE "idle"
<1>1. /\ Len(stack'[u]) = Len(stack[u]) /\ Len(stack[u]) \in Nat \ {0}
      /\ stack'[u][Len(stack[u])].at = awake
      /\ stack'[u][Len(stack[u])].ctx = Top(u).ctx
  BY AfterWake
<1>2. Top(u)'.at = awake /\ Top(u)'.ctx = Top(u).ctx /\ ~Idle(u)'
  BY <1>1 DEF Top, Idle
<1> QED BY <1>2 DEF DrainStep, DrainAt, At

\* When the life of a context is over.
LEMMA EndedIs ==
  ASSUME NEW st, NEW sl, NEW cr, NEW c
  PROVE  PhaseOf(st, sl, cr, c) = "ended" <=>
           c \in cr /\ sl # c /\ FramesOf(st, c, Owning) = {}
<1>1. c \notin cr => PhaseOf(st, sl, cr, c) = "unborn"
  BY DEF PhaseOf
<1> QED BY <1>1, EndedOwnerless, OwnerlessEnded

\* Some call of deactivate() has returned.
Drained(c) == FramesAt(c, {"close"}) # {} \/ Phase(c) = "ended"

\* Drained, in terms of the frames.
LEMMA DrainedIs ==
  ASSUME NEW c
  PROVE  /\ Drained(c) <=> \/ FramesOf(stack, c, {"close"}) # {}
                           \/ c \in created /\ slot # c /\ FramesOf(stack, c, Owning) = {}
         /\ Drained(c)' <=> \/ FramesOf(stack', c, {"close"}) # {}
                            \/ c \in created' /\ slot' # c /\
                                 FramesOf(stack', c, Owning) = {}
<1>1. /\ \A S : FramesAt(c, S) = FramesOf(stack, c, S)
      /\ \A S : FramesAt(c, S)' = FramesOf(stack', c, S)
  BY DEF FramesAt, FramesOf
<1>2. Phase(c) = PhaseOf(stack, slot, created, c)
  BY <1>1 DEF Phase, PhaseOf
<1>3. Phase(c)' = PhaseOf(stack', slot', created', c)
  BY <1>1 DEF Phase, PhaseOf
<1> QED BY <1>1, <1>2, <1>3, EndedIs DEF Drained

\* A step that is none of the admission of context c.
LEMMA Outside ==
  ASSUME NEW c, active'[c] = active[c], inFlight'[c] = inFlight[c],
         \A u \in Threads :
           Depth(u, c)' = Depth(u, c) /\ DrainStep(u, c)' = DrainStep(u, c),
         Drained(c)' <=> Drained(c)
  PROVE  UNCHANGED Admission(c)!vars
<1>1. [u \in Threads |-> Depth(u, c)]' = [u \in Threads |-> Depth(u, c)]
  OBVIOUS
<1>2. [u \in Threads |-> DrainStep(u, c)]' = [u \in Threads |-> DrainStep(u, c)]
  OBVIOUS
<1>3. (FramesAt(c, {"close"}) # {} \/ Phase(c) = "ended")' =
        (FramesAt(c, {"close"}) # {} \/ Phase(c) = "ended")
  BY DEF Drained
<1> QED BY <1>1, <1>2, <1>3 DEF Admission!vars

\* Steps of the session, and those of other contexts.
LEMMA GotoOutside ==
  ASSUME Inv, NEW t \in Threads, ~Idle(t), NEW s \in Steps, Goto(t, s), NEW d,
         \/ Top(t).ctx # d
         \/ /\ s \in Owning <=> Top(t).at \in Owning
            /\ s \notin {"host", "blocked", "recheck", "close"}
            /\ Top(t).at \notin {"host", "blocked", "recheck", "close"},
         UNCHANGED <<slot, created, inFlight>>, active'[d] = active[d]
  PROVE  UNCHANGED Admission(d)!vars
<1>1. StackOK /\ \A S : Moves(t, s, d, S)
  BY GotoCounts DEF Inv, Typed
<1>2. /\ FramesOf(stack', d, {"host"}) = FramesOf(stack, d, {"host"})
      /\ FramesOf(stack', d, {"close"}) = FramesOf(stack, d, {"close"})
      /\ FramesOf(stack', d, Owning) = FramesOf(stack, d, Owning)
  BY <1>1 DEF Moves
<1>3. \A u \in Threads : Depth(u, d)' = Depth(u, d)
  BY <1>2, DepthSame
<1>4. \A u \in Threads : DrainStep(u, d)' = DrainStep(u, d)
  BY <1>1, DrainAfterGoto DEF DrainAt
<1>5. Drained(d)' <=> Drained(d)
  BY <1>2, DrainedIs
<1> QED BY <1>3, <1>4, <1>5, Outside

\* The same of calls other than host calls.
LEMMA CallOutside ==
  ASSUME Inv, NEW t \in Threads, HasRoom(t), NEW s \in {"host", "invoke", "initialize",
         "wait"},
         NEW c \in Contexts, Call(t, s, c), Idle(t) \/
           Top(t).at \in PluginCode \cup {"host"},
         NEW d, c # d \/ s # "host", Drained(d)' <=> Drained(d),
         active'[d] = active[d], inFlight'[d] = inFlight[d]
  PROVE  UNCHANGED Admission(d)!vars
<1>1. s \in Steps \ {"blocked", "recheck"} /\ StackOK
  BY DEF Steps, PluginCode, Inv, Typed
<1>2. \A S : Adds(t, s, c, d, S)
  BY <1>1, CallCounts
<1>3. FramesOf(stack', d, {"host"}) = FramesOf(stack, d, {"host"})
  BY <1>2 DEF Adds
<1>4. \A u \in Threads : Depth(u, d)' = Depth(u, d)
  BY <1>3, DepthSame
<1>5. \A u \in Threads : DrainStep(u, d)' = DrainStep(u, d)
  BY <1>1, DrainAfterCall
<1> QED BY <1>4, <1>5, Outside

\* What is left of the admission of a context by each step of the session: the
\* calls of the entry points,
LEMMA InitializeBeginOutside ==
  ASSUME Inv, Inv', NEW t \in Threads, NEW c \in Contexts, InitializeBegin(t, c),
         NEW d \in Contexts
  PROVE  UNCHANGED Admission(d)!vars
<1>1. HasRoom(t) /\ "initialize" \in Steps /\ Idle(t) /\ Call(t, "initialize", c)
  BY DEF InitializeBegin, HasRoom, Room, Idle, Steps, PluginCode
<1>2. \A S : Adds(t, "initialize", c, d, S)
  BY <1>1, CallCounts DEF Inv, Typed
<1>3. Drained(d)' <=> Drained(d)
  <2>1. FramesOf(stack', d, {"close"}) = FramesOf(stack, d, {"close"})
    BY <1>2 DEF Adds
  <2>2. CASE d # c
    BY <1>2, <2>1, <2>2, DrainedIs DEF Adds, InitializeBegin
  <2>3. CASE d = c
    <3>1. FramesOf(stack', d, Owning) # {} /\ d \notin created
      BY <1>2, <2>3 DEF Adds, Owning, InitializeBegin
    <3> QED BY <2>1, <3>1, DrainedIs
  <2> QED BY <2>2, <2>3
<1> QED BY <1>1, <1>3, CallOutside DEF InitializeBegin, hostVars

\* ... of invoke,
LEMMA InvokeBeginOutside ==
  ASSUME Inv, NEW t \in Threads, InvokeBegin(t), NEW d \in Contexts
  PROVE  UNCHANGED Admission(d)!vars
<1>1. /\ HasRoom(t) /\ "invoke" \in Steps /\ slot \in Contexts /\ Call(t, "invoke", slot)
      /\ Idle(t) \/ Top(t).at = "host"
  BY DEF InvokeBegin, Inv, Typed, At, Steps, PluginCode
<1>2. \A S : Adds(t, "invoke", slot, d, S)
  BY <1>1, CallCounts DEF Inv, Typed
<1>3. Drained(d)' <=> Drained(d)
  BY <1>2, DrainedIs DEF Adds, InvokeBegin, Owning, Deactivating
<1> QED BY <1>1, <1>3, CallOutside DEF InvokeBegin, hostVars

\* ... and of shutdown,
LEMMA ShutdownBeginOutside ==
  ASSUME Inv, NEW t \in Threads, ShutdownBegin(t), NEW d \in Contexts
  PROVE  UNCHANGED Admission(d)!vars
<1>1. HasRoom(t) /\ "wait" \in Steps /\ Idle(t) /\ slot \in Contexts /\
        Call(t, "wait", slot)
  BY DEF ShutdownBegin, Inv, Typed, HasRoom, Room, Idle, Steps
<1>2. \A S : Adds(t, "wait", slot, d, S)
  BY <1>1, CallCounts DEF Inv, Typed
<1>3. Drained(d)' <=> Drained(d)
  <2>1. FramesOf(stack', d, {"close"}) = FramesOf(stack, d, {"close"})
    BY <1>2 DEF Adds
  <2>2. CASE d # slot
    <3>1. slot' # d
      BY DEF ShutdownBegin, Inv, Typed
    <3> QED BY <1>2, <2>1, <2>2, <3>1, DrainedIs DEF Adds, ShutdownBegin
  <2>3. CASE d = slot
    <3>1. FramesOf(stack', d, Owning) # {}
      BY <1>2, <2>3 DEF Adds, Owning
    <3> QED BY <2>1, <2>3, <3>1, DrainedIs
  <2> QED BY <2>2, <2>3
<1> QED BY <1>1, <1>3, CallOutside DEF ShutdownBegin, hostVars

\* Returns other than that of a host call.
LEMMA ReturnOutside ==
  ASSUME Inv, Nesting, NEW t \in Threads, ~Idle(t), Top(t).at \notin {"host",
         "blocked", "recheck"},
         NEW d,
         \/ Return(t)
         \/ \E c, n : ReturnAndNotify(t, c, n, "asleep", "wait"),
         Drained(d)' <=> Drained(d), active'[d] = active[d], inFlight'[d] = inFlight[d]
  PROVE  UNCHANGED Admission(d)!vars
<1>1. StackOK /\ "asleep" \in Steps /\ "wait" \in Steps
  BY DEF Inv, Typed, Steps
<1>2. Removes(t, d, {"host"})
  BY <1>1, ReturnCounts, NotifyCounts
<1>3. FramesOf(stack', d, {"host"}) = FramesOf(stack, d, {"host"})
  BY <1>2 DEF Removes
<1>4. \A u \in Threads : Depth(u, d)' = Depth(u, d)
  BY <1>3, DepthSame
<1>5. /\ stack'[t] = Popped(stack[t])
      /\ \A u \in Threads \ {t} :
           \/ stack'[u] = stack[u]
           \/ At(u, "asleep") /\ stack'[u] = Stepped(stack[u], "wait")
  BY <1>1, AfterNotify DEF Return, StackOK
<1>6. DrainStep(t, d)' = DrainStep(t, d)
  BY <1>1, <1>5, DrainAfterPop DEF DrainStep
<1>7. ASSUME NEW u \in Threads \ {t} PROVE DrainStep(u, d)' = DrainStep(u, d)
  BY <1>1, <1>5, DrainSame, DrainAfterWake DEF DrainAt
<1> QED BY <1>4, <1>6, <1>7, Outside

\* the installation of a session,
LEMMA InstallOutside ==
  ASSUME Inv, Nesting, NEW t \in Threads, Install(t), NEW d \in Contexts
  PROVE  UNCHANGED Admission(d)!vars
<1>1. ~Idle(t) /\ Top(t).at = "install" /\ Top(t).ctx \in Contexts /\ StackOK
  BY TopTyped DEF Install, At, Inv, Typed
<1>2. CASE slot = None
  <2>1. Return(t) /\ slot' = Top(t).ctx /\ UNCHANGED <<created, hostVars>>
    BY <1>2 DEF Install
  <2>2. \A S : Removes(t, d, S)
    BY <1>1, <2>1, ReturnCounts
  <2>3. Drained(d)' <=> Drained(d)
    <3>1. FramesOf(stack', d, {"close"}) = FramesOf(stack, d, {"close"}) /\ slot # d
      BY <1>1, <1>2, <2>2 DEF Removes
    <3>2. CASE Top(t).ctx # d
      BY <2>1, <2>2, <3>1, <3>2, DrainedIs DEF Removes
    <3>3. CASE Top(t).ctx = d
      <4>1. FramesOf(stack, d, Owning) # {}
        BY <1>1, <2>2, <3>3 DEF Removes, Owning
      <4> QED BY <2>1, <3>1, <3>3, <4>1, DrainedIs
    <3> QED BY <3>2, <3>3
  <2> QED BY <1>1, <2>1, <2>3, ReturnOutside DEF hostVars
<1>3. CASE slot # None
  <2>1. Goto(t, "drop") /\ "drop" \in Steps
    BY <1>3 DEF Install, Steps, PluginCode
  <2> QED BY <1>1, <1>3, <2>1, GotoOutside DEF Install, hostVars, Owning
<1> QED BY <1>2, <1>3

\* the end of a context,
LEMMA CloseCallbacksOutside ==
  ASSUME Inv, Inv', Nesting, NEW t \in Threads, CloseCallbacks(t), NEW d \in Contexts
  PROVE  UNCHANGED Admission(d)!vars
<1>1. ~Idle(t) /\ Top(t).at = "close" /\ Top(t).ctx \in Contexts /\ StackOK /\ Return(t)
  BY TopTyped DEF CloseCallbacks, At, Inv, Typed
<1>2. \A S : Removes(t, d, S)
  BY <1>1, ReturnCounts
<1>3. CASE Top(t).ctx # d
  <2>1. Drained(d)' <=> Drained(d)
    BY <1>2, <1>3, DrainedIs DEF Removes, CloseCallbacks
  <2> QED BY <1>1, <2>1, ReturnOutside DEF CloseCallbacks, hostVars
<1>4. CASE Top(t).ctx = d
  <2>1. /\ FramesOf(stack, d, {"close"}) # {}
        /\ Pos(t) \in FramesOf(stack, d, Owning)
        /\ FramesOf(stack', d, Owning) = FramesOf(stack, d, Owning) \ {Pos(t)}
    BY <1>1, <1>2, <1>4 DEF Removes, Owning, Deactivating
  <2>2. FramesOf(stack', d, Owning) = {} /\ slot' # d /\ d \in created'
    BY <2>1, ContractView DEF OneOwner, CloseCallbacks
  <2>3. Drained(d)' /\ Drained(d)
    BY <2>1, <2>2, DrainedIs
  <2> QED BY <1>1, <2>3, ReturnOutside DEF CloseCallbacks, hostVars
<1> QED BY <1>3, <1>4

\* the end of an invocation.
LEMMA LeaveOutside ==
  ASSUME Inv, Nesting, NEW t \in Threads, Leave(t), NEW d \in Contexts
  PROVE  UNCHANGED Admission(d)!vars
<1>1. /\ ~Idle(t) /\ Top(t).at =
           "leave" /\ StackOK /\ "asleep" \in Steps /\ "wait" \in Steps
      /\ \E c, n : ReturnAndNotify(t, c, n, "asleep", "wait")
  BY DEF Leave, At, Inv, Typed, Steps
<1>2. Removes(t, d, {"close"}) /\ Removes(t, d, Owning)
  BY <1>1, NotifyCounts DEF Owning
<1>3. /\ FramesOf(stack', d, {"close"}) = FramesOf(stack, d, {"close"})
      /\ FramesOf(stack', d, Owning) = FramesOf(stack, d, Owning)
  BY <1>1, <1>2 DEF Removes, Owning, Deactivating
<1>4. Drained(d)' <=> Drained(d)
  BY <1>3, DrainedIs DEF Leave
<1> QED BY <1>1, <1>4, ReturnOutside DEF Leave, hostVars

\* The steps of the session that move one frame.
LEMMA SessionOutside ==
  ASSUME Inv, NEW t \in Threads, NEW d \in Contexts,
         \/ InitializeOk(t) \/ InitializeFails(t) \/ InvokeReturn(t) \/ AwaitInvocations(t)
         \/ Unwrap(t) \/ ShutdownReturn(t) \/ DropReturn(t)
         \/ SpuriousWake(t) /\ Top(t).at = "asleep"
  PROVE  UNCHANGED Admission(d)!vars
<1>1. ~Idle(t) /\ UNCHANGED <<slot, created, hostVars>>
  BY DEF InitializeOk, InitializeFails, InvokeReturn, AwaitInvocations, Unwrap,
     ShutdownReturn,
     DropReturn, SpuriousWake, At
<1>2. PICK s \in Steps :
         /\ Goto(t, s)
         /\ s \in Owning <=> Top(t).at \in Owning
         /\ s \notin {"host", "blocked", "recheck", "close"}
         /\ Top(t).at \notin {"host", "blocked", "recheck", "close"}
  <2> DEFINE P(s) == /\ s \in Steps
                     /\ Goto(t, s)
                     /\ s \in Owning <=> Top(t).at \in Owning
                     /\ s \notin {"host", "blocked", "recheck", "close"}
                     /\ Top(t).at \notin {"host", "blocked", "recheck", "close"}
  <2>1. \/ P("install") \/ P("drop") \/ P("leave") \/ P("unwrap") \/ P("asleep")
        \/ P("shutdown") \/ P("deactivate") \/ P("wait")
    BY DEF InitializeOk, InitializeFails, InvokeReturn, AwaitInvocations, Unwrap,
       ShutdownReturn, DropReturn, SpuriousWake, At, Owning, Steps, PluginCode, Deactivating
  <2> QED BY <2>1
<1> QED BY <1>1, <1>2, GotoOutside DEF hostVars

\* HostState::lease.
LEMMA HostCallAdmission ==
  ASSUME Inv, NEW t \in Threads, NEW c \in Contexts, HostCall(t, c), NEW d \in Contexts
  PROVE  [Admission(d)!Next]_(Admission(d)!vars)
<1>1. /\ HasRoom(t) /\ "host" \in Steps /\ Call(t, "host", c) /\ StackOK
      /\ Idle(t) \/ Top(t).at \in PluginCode
  BY DEF HostCall, HoldsContext, Steps, Inv, Typed
<1>2. \A S : Adds(t, "host", c, d, S)
  BY <1>1, CallCounts
<1>3. Drained(d)' <=> Drained(d)
  BY <1>2, DrainedIs DEF Adds, HostCall, Owning, Deactivating
<1>4. CASE d # c
  <2>1. active'[d] = active[d] /\ inFlight'[d] = inFlight[d]
    BY <1>4 DEF HostCall, Inv, Typed
  <2> QED BY <1>1, <1>3, <1>4, <2>1, CallOutside
<1>5. CASE d = c
  <2>1. \A u \in Threads : Depth(u, d)' = IF u = t THEN Depth(u, d) + 1 ELSE Depth(u, d)
    BY <1>1, <1>5, DepthAfterCall
  <2>2. DrainStep(t, d) = "idle" /\ \A u \in Threads : DrainStep(u, d)' = DrainStep(u, d)
    BY <1>1, DrainAfterCall
  <2>3. inFlight[d] < MaxStack * Cardinality(Threads)
    <3> DEFINE N == MaxStack * Cardinality(Threads)
    <3>1. /\ Cardinality(FramesOf(stack', d, {"host"})) =
               Cardinality(FramesOf(stack, d, {"host"})) + 1
          /\ Cardinality(FramesOf(stack', d, {"host"})) <= N
          /\ Cardinality(FramesOf(stack, d, {"host"})) \in Nat
      BY <1>2, <1>5, FramesFinite DEF Adds
    <3>2. N \in Nat
      BY FS_CardinalityType
    <3>3. inFlight[d] = Cardinality(FramesOf(stack, d, {"host"}))
      BY DEF Inv, Lives, Counts, On
    <3> HIDE DEF N
    <3>4. inFlight[d] < N
      BY <3>1, <3>2, <3>3
    <3> QED BY <3>4 DEF N
  <2>4. Depth(t, d) < MaxStack
    <3>1. Depth(t, d) \in 0..Len(stack[t]) /\ Len(stack[t]) \in Nat
      BY <1>1, DepthBounded DEF StackOK
    <3>2. Len(stack[t]) < MaxStack
      BY <1>1, <3>1 DEF HasRoom, Room
    <3> QED BY <3>1, <3>2
  <2>5. inFlight'[d] = inFlight[d] + 1 /\ active'[d] =
          active[d] /\ (active[d] \/ Depth(t, d) > 0)
    BY <1>5 DEF HostCall, Inv, Typed
  <2>6. [u \in Threads |-> Depth(u, d)]' =
          [[u \in Threads |-> Depth(u, d)] EXCEPT ![t] = @ + 1]
    BY <2>1
  <2>7. [u \in Threads |-> DrainStep(u, d)]' = [u \in Threads |-> DrainStep(u, d)]
    BY <2>2
  <2>8. (FramesAt(d, {"close"}) # {} \/ Phase(d) = "ended")' =
          (FramesAt(d, {"close"}) # {} \/ Phase(d) = "ended")
    BY <1>3 DEF Drained
  <2>9. Admission(d)!Lease(t)
    BY <2>2, <2>3, <2>4, <2>5, <2>6, <2>7, <2>8 DEF Admission!Lease, Admission!Admitted
  <2> QED BY <2>9 DEF Admission!Next
<1> QED BY <1>4, <1>5

\* Drop for HostLease.
LEMMA HostReturnAdmission ==
  ASSUME Inv, Nesting, NEW t \in Threads, HostReturn(t), NEW d \in Contexts
  PROVE  [Admission(d)!Next]_(Admission(d)!vars)
<1>1. /\ ~Idle(t) /\ Top(t).at = "host" /\ Top(t).ctx \in Contexts /\ StackOK
      /\ "blocked" \in Steps /\ "recheck" \in Steps
      /\ ReturnAndNotify(t, Top(t).ctx, inFlight[Top(t).ctx] - 1, "blocked", "recheck")
  BY TopTyped DEF HostReturn, At, Inv, Typed, Steps, Deactivating
<1>2. Removes(t, d, {"host"}) /\ Removes(t, d, {"close"}) /\ Removes(t, d, Owning)
  <2>1. "blocked" \in Owning /\ "recheck" \in Owning
    BY DEF Owning, Deactivating
  <2> QED BY <1>1, <2>1, NotifyCounts
<1>3. /\ FramesOf(stack', d, {"close"}) = FramesOf(stack, d, {"close"})
      /\ FramesOf(stack', d, Owning) = FramesOf(stack, d, Owning)
  BY <1>1, <1>2 DEF Removes, Owning, Deactivating
<1>4. Drained(d)' <=> Drained(d)
  BY <1>3, DrainedIs DEF HostReturn
<1>5. /\ stack'[t] = Popped(stack[t])
      /\ \A u \in Threads \ {t} :
           IF inFlight[Top(t).ctx] - 1 = 0 /\ At(u, "blocked") /\ Top(u).ctx = Top(t).ctx
             THEN stack'[u] = Stepped(stack[u], "recheck") ELSE stack'[u] = stack[u]
  <2>1. PICK n : n = inFlight[Top(t).ctx] - 1
    OBVIOUS
  <2>2. PICK c : c = Top(t).ctx
    OBVIOUS
  <2>3. ReturnAndNotify(t, c, n, "blocked", "recheck")
    BY <1>1, <2>1, <2>2
  <2>4. /\ stack'[t] = Popped(stack[t])
        /\ \A u \in Threads \ {t} :
             IF n = 0 /\ At(u, "blocked") /\ Top(u).ctx = c
               THEN stack'[u] = Stepped(stack[u], "recheck") ELSE stack'[u] = stack[u]
    BY <1>1, <2>3, AfterNotify
  <2> QED BY <2>1, <2>2, <2>4
<1>6. DrainStep(t, d) = "idle" /\ DrainStep(t, d)' = "idle"
  BY <1>1, <1>5, DrainAfterPop DEF DrainStep
<1>7. CASE Top(t).ctx # d
  <2>1. FramesOf(stack', d, {"host"}) = FramesOf(stack, d, {"host"})
    BY <1>2, <1>7 DEF Removes
  <2>2. \A u \in Threads : Depth(u, d)' = Depth(u, d)
    BY <2>1, DepthSame
  <2>3. ASSUME NEW u \in Threads \ {t} PROVE DrainStep(u, d)' = DrainStep(u, d)
    <3>1. CASE stack'[u] = stack[u]
      BY <3>1, DrainSame
    <3>2. CASE /\ At(u, "blocked") /\ Top(u).ctx = Top(t).ctx
               /\ stack'[u] = Stepped(stack[u], "recheck")
      BY <1>1, <1>7, <3>2, DrainAfterWake
    <3> QED BY <1>5, <3>1, <3>2
  <2>4. active'[d] = active[d] /\ inFlight'[d] = inFlight[d]
    BY <1>7 DEF HostReturn, Inv, Typed
  <2> QED BY <1>4, <1>6, <2>2, <2>3, <2>4, Outside
<1>8. CASE Top(t).ctx = d
  <2>1. /\ \A u \in Threads : Depth(u, d)' = IF u = t THEN Depth(u, d) - 1 ELSE Depth(u, d)
        /\ Depth(t, d) > 0
    BY <1>1, <1>2, <1>8, DepthAfterReturn DEF Removes
  <2>2. ASSUME NEW u \in Threads \ {t}
        PROVE  DrainStep(u, d)' = IF inFlight[d] - 1 = 0 /\ DrainStep(u, d) = "blocked"
                                    THEN "check" ELSE DrainStep(u, d)
    <3>1. CASE inFlight[d] - 1 = 0 /\ At(u, "blocked") /\ Top(u).ctx = d
      BY <1>1, <1>5, <1>8, <3>1, DrainAfterWake DEF DrainAt
    <3>2. CASE ~(inFlight[d] - 1 = 0 /\ At(u, "blocked") /\ Top(u).ctx = d)
      <4>1. stack'[u] = stack[u]
        BY <1>5, <1>8, <3>2
      <4>2. DrainStep(u, d) = "blocked" => At(u, "blocked") /\ Top(u).ctx = d
        BY DEF DrainStep, At
      <4> QED BY <3>2, <4>1, <4>2, DrainSame
    <3> QED BY <3>1, <3>2
  <2>3. inFlight'[d] = inFlight[d] - 1 /\ active'[d] = active[d]
    BY <1>8 DEF HostReturn, Inv, Typed
  <2>4. [u \in Threads |-> Depth(u, d)]' =
          [[u \in Threads |-> Depth(u, d)] EXCEPT ![t] = @ - 1]
    BY <2>1
  <2>5. [u \in Threads |-> DrainStep(u, d)]' = Admission(d)!Notify(inFlight[d] - 1)
    <3>1. \A u \in Threads : DrainStep(u, d)' =
             IF inFlight[d] - 1 = 0 /\ DrainStep(u, d) =
               "blocked" THEN "check" ELSE DrainStep(u, d)
      BY <1>6, <2>2
    <3>2. CASE inFlight[d] - 1 = 0
      BY <3>1, <3>2 DEF Admission!Notify
    <3>3. CASE inFlight[d] - 1 # 0
      BY <3>1, <3>3 DEF Admission!Notify
    <3> QED BY <3>2, <3>3
  <2>6. (FramesAt(d, {"close"}) # {} \/ Phase(d) = "ended")' =
          (FramesAt(d, {"close"}) # {} \/ Phase(d) = "ended")
    BY <1>4 DEF Drained
  <2>7. Admission(d)!DropLease(t)
    BY <2>1, <2>3, <2>4, <2>5, <2>6 DEF Admission!DropLease
  <2> QED BY <2>7 DEF Admission!Next
<1> QED BY <1>7, <1>8

\* The wait loop: what the thread that deactivates sees, and what it leaves.
LEMMA AwaitLeasesDrains ==
  ASSUME Inv, Nesting, NEW t \in Threads, ~Idle(t), Top(t).at \in {"deactivate",
         "recheck"},
         AwaitLeases(t), UNCHANGED <<slot, created, inFlight>>, NEW d, d = Top(t).ctx
  PROVE  /\ \A u \in Threads : Depth(u, d)' = Depth(u, d)
         /\ Depth(t, d) = 0
         /\ ~Drained(d) /\ (Drained(d)' <=> inFlight[d] = 0)
         /\ [u \in Threads |-> DrainStep(u, d)]' =
              [[u \in Threads |-> DrainStep(u, d)] EXCEPT
                 ![t] = IF inFlight[d] = 0 THEN "idle" ELSE "blocked"]
         /\ DrainStep(t, d) = IF Top(t).at = "recheck" THEN "check" ELSE "idle"
<1> DEFINE s == IF inFlight[d] = 0 THEN "close" ELSE "blocked"
<1>1. StackOK /\ s \in Steps /\ s \in Owning /\ Goto(t, s) /\ d \in Contexts
  BY TopTyped DEF Inv, Typed, AwaitLeases, Steps, Owning, Deactivating
<1>2. /\ inFlight[d] = 0 => s = "close"
      /\ inFlight[d] # 0 => s = "blocked"
  OBVIOUS
<1> HIDE DEF s
<1>3. \A S : Moves(t, s, d, S)
  BY <1>1, GotoCounts
<1>4. FramesOf(stack', d, {"host"}) = FramesOf(stack, d, {"host"})
  BY <1>2, <1>3 DEF Moves
<1>5. Pos(t) \in FramesOf(stack, d, Owning) /\ FramesOf(stack', d, Owning) =
        FramesOf(stack, d, Owning)
  <2>1. Top(t).at \in Owning
    BY DEF Owning, Deactivating
  <2> QED BY <1>1, <1>3, <2>1 DEF Moves
<1>6. Depth(t, d) = 0
  <2>1. Len(stack[t]) = 1
    BY <1>1, <1>5 DEF Nesting, On, Pos
  <2>2. LeasesOf(stack, t, d) = {}
    BY <2>1 DEF LeasesOf, FramesOf, Top
  <2> QED BY <2>2, DepthIs, FS_EmptySet
<1>7. FramesOf(stack, d, {"close"}) = {}
  <2>1. Pos(t) \notin FramesOf(stack, d, {"close"})
    BY <1>3 DEF Moves
  <2>2. FramesOf(stack, d, {"close"}) \subseteq FramesOf(stack, d, Owning)
    BY Nested
  <2> QED BY <1>1, <1>5, <2>1, <2>2 DEF Inv, Lives, Owned, On
<1>8. ~Drained(d)
  BY <1>5, <1>7, DrainedIs
<1>9. FramesOf(stack', d, {"close"}) # {} <=> inFlight[d] = 0
  <2>1. FramesOf(stack', d, {"close"}) = IF s =
          "close" THEN FramesOf(stack, d, {"close"}) \cup {Pos(t)}
                                                          ELSE FramesOf(stack, d, {"close"})
    BY <1>3 DEF Moves
  <2> QED BY <1>2, <1>7, <2>1
<1>10. Drained(d)' <=> inFlight[d] = 0
  BY <1>5, <1>9, DrainedIs
<1>11. /\ DrainStep(t, d) = DrainAt(Top(t).at) /\ DrainStep(t, d)' = DrainAt(s)
       /\ \A u \in Threads \ {t} : DrainStep(u, d)' = DrainStep(u, d)
  BY <1>1, DrainAfterGoto
<1>12. \A u \in Threads : DrainStep(u, d)' =
          IF u = t THEN (IF inFlight[d] = 0 THEN "idle" ELSE "blocked") ELSE DrainStep(u, d)
  BY <1>2, <1>11 DEF DrainAt
<1>13. [u \in Threads |-> DrainStep(u, d)]' =
          [[u \in Threads |-> DrainStep(u, d)] EXCEPT
             ![t] = IF inFlight[d] = 0 THEN "idle" ELSE "blocked"]
  BY <1>12
<1>14. DrainStep(t, d) = IF Top(t).at = "recheck" THEN "check" ELSE "idle"
  BY <1>11 DEF DrainAt
<1> QED BY <1>4, <1>6, <1>8, <1>10, <1>13, <1>14, DepthSame

\* HostState::deactivate.
LEMMA DeactivateAdmission ==
  ASSUME Inv, Nesting, NEW t \in Threads, Deactivate(t), NEW d \in Contexts
  PROVE  [Admission(d)!Next]_(Admission(d)!vars)
<1>1. /\ ~Idle(t) /\ Top(t).at = "deactivate" /\ Top(t).ctx \in Contexts
      /\ AwaitLeases(t) /\ UNCHANGED <<slot, created, inFlight>>
  BY TopTyped DEF Deactivate, At, Inv, Typed
<1>2. CASE Top(t).ctx # d
  <2>1. PICK s \in Steps : Goto(t, s)
    BY <1>1 DEF AwaitLeases, Steps, Deactivating
  <2>2. active'[d] = active[d]
    BY <1>2 DEF Deactivate, Inv, Typed
  <2> QED BY <1>1, <1>2, <2>1, <2>2, GotoOutside
<1>3. CASE Top(t).ctx = d
  <2>1. active'[d] = FALSE
    BY <1>3 DEF Deactivate, Inv, Typed
  <2>2. /\ [u \in Threads |-> Depth(u, d)]' = [u \in Threads |-> Depth(u, d)]
        /\ Depth(t, d) = 0 /\ DrainStep(t, d) = "idle"
        /\ ~Drained(d) /\ (Drained(d)' <=> inFlight[d] = 0)
        /\ [u \in Threads |-> DrainStep(u, d)]' =
             [[u \in Threads |-> DrainStep(u, d)] EXCEPT
                ![t] = IF inFlight[d] = 0 THEN "idle" ELSE "blocked"]
    BY <1>1, <1>3, AwaitLeasesDrains
  <2>3. (FramesAt(d, {"close"}) # {} \/ Phase(d) = "ended")' =
          ((FramesAt(d, {"close"}) # {} \/ Phase(d) = "ended") \/ inFlight[d] = 0)
    BY <2>2 DEF Drained
  <2>4. Admission(d)!Deactivate(t)
    BY <1>1, <2>1, <2>2, <2>3 DEF Admission!Deactivate, Admission!TestCount
  <2> QED BY <2>4 DEF Admission!Next
<1> QED BY <1>2, <1>3

\* A woken thread takes the mutex again.
LEMMA RecheckAdmission ==
  ASSUME Inv, Nesting, NEW t \in Threads, Recheck(t), NEW d \in Contexts
  PROVE  [Admission(d)!Next]_(Admission(d)!vars)
<1>1. /\ ~Idle(t) /\ Top(t).at = "recheck" /\ Top(t).ctx \in Contexts
      /\ AwaitLeases(t) /\ UNCHANGED <<slot, created, inFlight>> /\ active' = active
  BY TopTyped DEF Recheck, At, Inv, Typed, hostVars
<1>2. CASE Top(t).ctx # d
  <2>1. PICK s \in Steps : Goto(t, s)
    BY <1>1 DEF AwaitLeases, Steps, Deactivating
  <2> QED BY <1>1, <1>2, <2>1, GotoOutside
<1>3. CASE Top(t).ctx = d
  <2>1. /\ [u \in Threads |-> Depth(u, d)]' = [u \in Threads |-> Depth(u, d)]
        /\ DrainStep(t, d) = "check"
        /\ ~Drained(d) /\ (Drained(d)' <=> inFlight[d] = 0)
        /\ [u \in Threads |-> DrainStep(u, d)]' =
             [[u \in Threads |-> DrainStep(u, d)] EXCEPT
                ![t] = IF inFlight[d] = 0 THEN "idle" ELSE "blocked"]
    BY <1>1, <1>3, AwaitLeasesDrains
  <2>2. (FramesAt(d, {"close"}) # {} \/ Phase(d) = "ended")' =
          ((FramesAt(d, {"close"}) # {} \/ Phase(d) = "ended") \/ inFlight[d] = 0)
    BY <2>1 DEF Drained
  <2>3. Admission(d)!Recheck(t)
    BY <1>1, <2>1, <2>2 DEF Admission!Recheck, Admission!TestCount
  <2> QED BY <2>3 DEF Admission!Next
<1> QED BY <1>2, <1>3

\* Condvar::wait returns without a notification.
LEMMA SpuriousWakeAdmission ==
  ASSUME Inv, NEW t \in Threads, SpuriousWake(t), NEW d \in Contexts
  PROVE  [Admission(d)!Next]_(Admission(d)!vars)
<1>1. CASE Top(t).at = "asleep"
  BY <1>1, SessionOutside
<1>2. CASE Top(t).at # "asleep"
  <2>1. /\ ~Idle(t) /\ Top(t).at = "blocked" /\ Goto(t, "recheck") /\ StackOK
        /\ "recheck" \in Steps /\ UNCHANGED <<slot, created, active, inFlight>>
    BY <1>2 DEF SpuriousWake, At, Inv, Typed, Steps, Deactivating, hostVars
  <2>2. CASE Top(t).ctx # d
    BY <2>1, <2>2, GotoOutside
  <2>3. CASE Top(t).ctx = d
    <3>1. \A S : Moves(t, "recheck", d, S)
      BY <2>1, GotoCounts
    <3>2. /\ FramesOf(stack', d, {"host"}) = FramesOf(stack, d, {"host"})
          /\ FramesOf(stack', d, {"close"}) = FramesOf(stack, d, {"close"})
          /\ FramesOf(stack', d, Owning) = FramesOf(stack, d, Owning)
      BY <2>1, <3>1 DEF Moves, Owning, Deactivating
    <3>3. Drained(d)' <=> Drained(d)
      BY <2>1, <3>2, DrainedIs
    <3>4. /\ DrainStep(t, d) = "blocked" /\ DrainStep(t, d)' = "check"
          /\ \A u \in Threads \ {t} : DrainStep(u, d)' = DrainStep(u, d)
      BY <2>1, <2>3, DrainAfterGoto DEF DrainAt
    <3>5. [u \in Threads |-> DrainStep(u, d)]' =
            [[u \in Threads |-> DrainStep(u, d)] EXCEPT ![t] = "check"]
      BY <3>4
    <3>6. [u \in Threads |-> Depth(u, d)]' = [u \in Threads |-> Depth(u, d)]
      BY <3>2, DepthSame
    <3>7. (FramesAt(d, {"close"}) # {} \/ Phase(d) = "ended")' =
            (FramesAt(d, {"close"}) # {} \/ Phase(d) = "ended")
      BY <3>3 DEF Drained
    <3>8. Admission(d)!SpuriousWake(t)
      BY <2>1, <3>4, <3>5, <3>6, <3>7 DEF Admission!SpuriousWake
    <3> QED BY <3>8 DEF Admission!Next
  <2> QED BY <2>2, <2>3
<1> QED BY <1>1, <1>2

\* Every step of the session is a step of every admission, or none of it.
LEMMA StepAdmission ==
  ASSUME Inv, Inv', Nesting, [Next]_vars, NEW d \in Contexts
  PROVE  [Admission(d)!Next]_(Admission(d)!vars)
<1>1. CASE Next
  <2>1. PICK t \in Threads :
          \/ Advance(t) \/ SpuriousWake(t) \/ InvokeBegin(t) \/ ShutdownBegin(t)
          \/ \E c \in Contexts : HostCall(t, c) \/ InitializeBegin(t, c)
    BY <1>1 DEF Next
  <2>2. CASE Advance(t)
    BY <2>2, HostReturnAdmission, SessionOutside, InstallOutside, LeaveOutside,
       DeactivateAdmission, RecheckAdmission, CloseCallbacksOutside DEF Advance
  <2> QED BY <2>1, <2>2, SpuriousWakeAdmission, InvokeBeginOutside,
             ShutdownBeginOutside,
             HostCallAdmission, InitializeBeginOutside
<1>2. CASE UNCHANGED vars
  <2>1. \A S : FramesOf(stack', d, S) = FramesOf(stack, d, S)
    BY <1>2 DEF vars
  <2>2. \A u \in Threads : Depth(u, d)' = Depth(u, d) /\ DrainStep(u, d)' = DrainStep(u, d)
    BY <1>2, <2>1, DepthSame, DrainSame DEF vars
  <2>3. Drained(d)' <=> Drained(d)
    BY <1>2, <2>1, DrainedIs DEF vars
  <2> QED BY <1>2, <2>2, <2>3, Outside DEF vars
<1> QED BY <1>1, <1>2

\* The host side of every context of the session is the admission gate that
\* HostAdmission models alone, so what is proved there holds of the composition.
THEOREM Admits == Spec => RefinesAdmission
<1>1. Init => Nesting
  <2> SUFFICES ASSUME Init PROVE Nesting
    OBVIOUS
  <2>1. \A c : On(c, Owning) = {}
    BY DEF Init, On, FramesOf
  <2>2. \A t \in Threads : 1..(Len(stack[t]) - 1) = {}
    BY DEF Init
  <2> QED BY <2>1, <2>2 DEF Nesting
<1>2. Inv /\ Nesting /\ [Next]_vars => Nesting'
  BY NestingKeeps
<1>3. Init => \A c \in Contexts : Admission(c)!Init
  <2> SUFFICES ASSUME Init, NEW c \in Contexts PROVE Admission(c)!Init
    OBVIOUS
  <2>1. \A S : FramesAt(c, S) = {}
    BY DEF Init, FramesAt
  <2>2. \A t \in Threads : Depth(t, c) = 0
    <3>1. \A t : {p \in FramesAt(c, {"host"}) : p[1] = t} = {}
      BY <2>1
    <3> QED BY <3>1, FS_EmptySet DEF Depth
  <2>3. \A t \in Threads : DrainStep(t, c) = "idle"
    BY DEF Init, DrainStep, Idle
  <2>4. ~(FramesAt(c, {"close"}) # {} \/ Phase(c) = "ended")
    BY <2>1 DEF Init, Phase
  <2>5. active[c] = TRUE /\ inFlight[c] = 0
    BY DEF Init
  <2> QED BY <2>2, <2>3, <2>4, <2>5 DEF Admission!Init
<1>4. Inv /\ Inv' /\ Nesting /\ [Next]_vars =>
        [\A c \in Contexts : [Admission(c)!Next]_(Admission(c)!vars)]_vars
  BY StepAdmission
<1> QED BY <1>1, <1>2, <1>3, <1>4, Invariance, PTL DEF Spec, RefinesAdmission
=============================================================================
