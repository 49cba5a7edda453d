------------------------- MODULE RuntimeEngineProofs -------------------------
(***************************************************************************)
(* The invariants of RuntimeEngine for any threads and any number of       *)
(* payloads.  One caller at a time has the engine's monitor; what the      *)
(* others see is therefore what an operation leaves behind.  A plugin's    *)
(* own thread that is inside a Bridge call keeps its payload where it is,  *)
(* because every way out of its life waits for that thread.                *)
(***************************************************************************)
EXTENDS RuntimeEngine, TLAPS

Closing == {"closing", "forced", "forcedDrain"}
InPayload == PluginCode \cup Draining

\* Threads keep to their own steps.
Steps ==
    /\ \A t \in Callers : at[t] \in CallerSteps
    /\ \A w \in Workers : at[w] \in WorkerSteps

\* The monitor of RustRuntimeEngine.
Exclusive == \A t, u \in Callers : at[t] \in Holding /\ at[u] \in Holding => t = u

\* The embedded route is one set of payloads in all maps, always.
Routes == contexts = sessions /\ sessions = registered

\* An open engine routes every payload that is not over.
Open == ~closed =>
    /\ todo = {}
    /\ Of(payloads, "embedded") = registered
    /\ \A p \in Ids : p \notin payloads => state[p] \in Over
    /\ \A t \in Callers : at[t] \notin Closing

\* One that is closed has them on its list, and then none.
Closed == closed =>
    /\ payloads = {}
    /\ Of(todo, "embedded") \subseteq registered
    /\ \A p \in Ids : p \notin todo => state[p] \in Over
    /\ \A t \in Callers : at[t] \in Holding => at[t] \in Closing
    /\ EngineFree => todo = {} /\ registered = {}

\* What the caller in an operation knows of its payload.
Knows(t) ==
    /\ at[t] \in InPayload => on[t] \in registered
    /\ at[t] \in {"initialize", "failed"} => state[on[t]] = "Loaded"
    /\ at[t] \in {"invoke", "shutdown", "drain", "forced", "forcedDrain"} =>
         state[on[t]] \in Initialized
    /\ at[t] \in {"forced", "forcedDrain"} => on[t] \in todo
    /\ at[t] = "isolated" => on[t] \in payloads /\ mode[on[t]] = "isolated"

\* The payload of a Bridge call is initialized, or being initialized.
Calls(w) == at[w] # "idle" =>
    /\ on[w] \in registered
    /\ \/ state[on[w]] \in Initialized
       \/ \E t \in Callers : at[t] \in {"initialize", "failed"} /\ on[t] = on[w]

\* Initialized payloads are embedded.
Kinds == \A p \in Ids :
    /\ state[p] \in Initialized \cup {"Loaded"} => mode[p] = "embedded" /\ p \in registered
    /\ p \in registered => mode[p] = "embedded"

\* An unloaded Host has a closed engine that nobody is in.
Unloaded == host = "unloaded" => closed /\ EngineFree

\* Before the first load nothing has happened.
Quiet == host = "new" => ~closed /\ registered = {} /\ \A t \in Callers : at[t] = "idle"

Known == \A t \in Callers : Knows(t)
Called == \A w \in Workers : Calls(w)

Inv ==
    /\ TypeOK /\ Steps /\ Exclusive
    /\ Routes /\ Kinds /\ Open /\ Closed
    /\ Unloaded /\ Quiet
    /\ Known /\ Called

\* The step sets, and what an action is short for.
USE RuntimeAssumption DEF Threads, Ids, Modes, States, Initialized, Over, Holding,
    PluginCode, Draining, CallerSteps, WorkerSteps, Closing, InPayload,
    Goto, Set, Run, Unmoved, plugin, maps

-----------------------------------------------------------------------------

\* A Host not loaded yet.
LEMMA InitEstablishes == Init => Inv
<1> SUFFICES ASSUME Init PROVE Inv
  OBVIOUS
<1> USE DEF Init
<1>1. TypeOK
  <2>1. mode \in [Ids -> Modes] /\ state \in [Ids -> States]
    OBVIOUS
  <2>2. /\ at \in [Threads -> CallerSteps \cup WorkerSteps]
        /\ on \in [Threads -> Ids \cup {0}]
    OBVIOUS
  <2>3. resume \in [Callers -> {"idle", "unload"}]
    OBVIOUS
  <2>4. allocated \in 0..MaxPayloads
    OBVIOUS
  <2>5. /\ host = "new" /\ handle = "none" /\ allocated = 0
        /\ providerClosed \in BOOLEAN /\ closed \in BOOLEAN
        /\ payloads = {} /\ contexts = {} /\ sessions = {} /\ registered = {} /\ todo = {}
    BY Zenon
  <2> HIDE DEF Init, Ids, Modes, States, CallerSteps, WorkerSteps, Threads
  <2> QED BY <2>1, <2>2, <2>3, <2>4, <2>5 DEF TypeOK
<1>2. Steps /\ Exclusive /\ Routes /\ Open /\ Closed /\ Kinds
  BY DEF Steps, Exclusive, Routes, Open, Closed, Kinds, Of
<1>3. Unloaded /\ Quiet /\ Known /\ Called
  BY DEF Unloaded, Quiet, Known, Knows, Called, Calls
<1> QED BY <1>1, <1>2, <1>3 DEF Inv

\* RustRuntimeEngine.close, whoever calls it.
LEMMA CloseEngineKeeps ==
  ASSUME Inv, NEW t \in Callers, NEW next \in {"idle", "unload"},
         at[t] \notin Holding, host # "new", host' = host,
         providerClosed' \in BOOLEAN, CloseEngine(t, next),
         UNCHANGED <<allocated, mode, contexts, sessions, registered, handle, state, on>>
  PROVE  Inv'
<1> USE DEF CloseEngine, Inv, TypeOK
<1>1. CASE closed
  <2> USE <1>1
  <2>1. TypeOK'
    BY ZenonT(30)
  <2>2. Steps' /\ Exclusive' /\ Routes' /\ Open' /\ Kinds'
    BY DEF Steps, Exclusive, Routes, Open, Kinds
  <2>3. Closed' /\ Unloaded'
    BY ZenonT(30) DEF Closed, Unloaded, EngineFree, Of
  <2>4. Quiet' /\ Known' /\ Called'
    BY DEF Quiet, Known, Knows, Called, Calls
  <2> QED BY <2>1, <2>2, <2>3, <2>4
<1>2. CASE ~closed
  <2> USE <1>2
  <2>1. todo' \subseteq 1..allocated'
    BY DEF Of
  <2>2. TypeOK'
    BY <2>1
  <2>3. Steps' /\ Exclusive'
    <3>1. \A u \in Threads \ {t} : at'[u] = at[u]
      OBVIOUS
    <3>2. at'[t] = "closing"
      OBVIOUS
    <3> QED BY <3>1, <3>2, SMTT(60) DEF Steps, Exclusive, EngineFree
  <2>4. Routes' /\ Kinds' /\ Open'
    BY DEF Routes, Kinds, Open, Of, EngineFree
  <2>5. \A p \in Ids : p \notin todo' => state[p] \in Over
    <3>1. \A p \in Ids : p \notin todo' => p \notin payloads
      BY DEF Open, Of
    <3> QED BY <3>1 DEF Open
  <2>6. Of(todo', "embedded") \subseteq registered
    BY DEF Of
  <2>7. Closed'
    BY <2>5, <2>6 DEF Closed, EngineFree, Exclusive, Of
  <2>8. Unloaded' /\ Quiet' /\ Known' /\ Called'
    BY DEF Steps, EngineFree, Unloaded, Quiet, Known, Knows, Called, Calls
  <2> QED BY <2>2, <2>3, <2>4, <2>7, <2>8
<1> QED BY <1>1, <1>2

\* The Host plugin is loaded or unloaded, or its Provider is closed.
LEMMA HostStepKeeps ==
  ASSUME Inv, NEW t \in Callers, HostStep(t)
  PROVE  Inv'
<1> USE DEF Inv, TypeOK
<1>1. ASSUME NEW ok \in BOOLEAN, HostLoad(t, ok) PROVE Inv'
  <2> USE <1>1 DEF HostLoad
  <2>1. /\ registered = {} /\ EngineFree /\ todo = {}
        /\ \A w \in Workers : at[w] = "idle"
    BY DEF Unloaded, Quiet, Closed, Open, Called, Calls, EngineFree, Steps
  <2>2. TypeOK'
    <3>1. (mode \in [Ids -> Modes])' /\ (state \in [Ids -> States])'
      OBVIOUS
    <3>2. (at \in [Threads -> CallerSteps \cup WorkerSteps])'
      OBVIOUS
    <3>3. (on \in [Threads -> Ids \cup {0}])' /\ (resume \in [Callers -> {"idle", "unload"}])'
      OBVIOUS
    <3>4. allocated' \in 0..MaxPayloads
      OBVIOUS
    <3>5. /\ host' \in {"loaded", "unloading"} /\ handle' = "none" /\ allocated' = 0
          /\ providerClosed' \in BOOLEAN /\ closed' \in BOOLEAN
          /\ payloads' = {} /\ contexts' = {} /\ sessions' = {} /\ registered' = {} /\ todo' = {}
      BY <2>1, Zenon
    <3> HIDE DEF HostLoad, Inv, Ids, Modes, States, CallerSteps, WorkerSteps, Threads
    <3> QED BY <3>1, <3>2, <3>3, <3>4, <3>5
  <2>3. Steps' /\ Exclusive' /\ Routes' /\ Kinds'
    BY <2>1 DEF Steps, Exclusive, Routes, Kinds, EngineFree
  <2>4. Open' /\ Closed' /\ Unloaded' /\ Quiet'
    BY <2>1 DEF Open, Closed, Unloaded, Quiet, EngineFree, Of
  <2>5. Known' /\ Called'
    BY <2>1 DEF Known, Knows, Called, Calls, EngineFree
  <2> QED BY <2>2, <2>3, <2>4, <2>5
<1>2. ASSUME HostUnload(t) PROVE Inv'
  BY <1>2 DEF HostUnload, Steps, Exclusive, Routes, Open, Closed, Kinds, Unloaded,
       Quiet, Known, Knows, Called, Calls, Of, EngineFree
<1>3. ASSUME SupervisorCloses(t) PROVE Inv'
  BY <1>3, CloseEngineKeeps DEF SupervisorCloses, ProviderClose
<1>4. ASSUME NEW ok \in BOOLEAN, Unregister(t, ok) PROVE Inv'
  <2>1. host # "new"
    BY <1>4 DEF Unregister, Quiet
  <2>2. CASE ok /\ ~providerClosed
    BY <1>4, <2>1, <2>2, CloseEngineKeeps DEF Unregister, ProviderClose
  <2>3. CASE ~(ok /\ ~providerClosed)
    <3> USE <1>4, <2>3 DEF Unregister, ProviderClose
    <3>1. TypeOK'
      OBVIOUS
    <3>2. Steps' /\ Exclusive' /\ Routes' /\ Kinds'
      BY DEF Steps, Exclusive, Routes, Kinds
    <3>3. Open' /\ Quiet'
      BY DEF Open, Quiet, Of
    <3>4. Known'
      BY DEF Known, Knows
    <3>5. Called'
      BY DEF Called, Calls
    <3>6. EngineFree' <=> EngineFree
      BY DEF EngineFree
    <3>7. Closed' /\ Unloaded'
      BY <3>6, ZenonT(30) DEF Closed, Unloaded, Of
    <3> QED BY <3>1, <3>2, <3>3, <3>4, <3>5, <3>7
  <2> QED BY <2>2, <2>3
<1>5. ASSUME UnloadEngine(t) PROVE Inv'
  <2>1. host # "new"
    BY <1>5 DEF UnloadEngine, Quiet
  <2>2. CASE ~(closed /\ EngineFree)
    BY <1>5, <2>1, <2>2, CloseEngineKeeps DEF UnloadEngine
  <2>3. CASE closed /\ EngineFree
    <3> USE <1>5, <2>3 DEF UnloadEngine
    <3>1. TypeOK'
      OBVIOUS
    <3>2. Steps' /\ Exclusive'
      BY SMTT(30) DEF Steps, Exclusive
    <3>3. Routes' /\ Kinds'
      BY DEF Routes, Kinds
    <3>4. Open' /\ Quiet'
      BY DEF Open, Quiet, Of
    <3>5. Known'
      BY DEF Known, Knows
    <3>6. Called'
      BY DEF Called, Calls
    <3>7. EngineFree' <=> EngineFree
      BY DEF EngineFree
    <3>8. Closed' /\ Unloaded'
      BY <3>7, ZenonT(30) DEF Closed, Unloaded, Of
    <3> QED BY <3>1, <3>2, <3>3, <3>4, <3>5, <3>6, <3>8
  <2> QED BY <2>2, <2>3
<1> QED BY <1>1, <1>2, <1>3, <1>4, <1>5 DEF HostStep

\* An operation of the open engine begins.
LEMMA OperationKeeps ==
  ASSUME Inv, NEW t \in Callers, Operation(t)
  PROVE  Inv'
<1> USE DEF Inv, TypeOK, Enter
<1>1. ASSUME Initialize(t) PROVE Inv'
  <2> USE <1>1 DEF Initialize
  <2>1. TypeOK'
    OBVIOUS
  <2>2. Steps' /\ Exclusive'
    BY DEF Steps, Exclusive
  <2>3. Routes'
    BY DEF Routes
  <2>4. Kinds' /\ Open' /\ Closed'
    BY DEF Kinds, Open, Closed, Of
  <2>5. Unloaded' /\ Quiet'
    BY DEF Unloaded, Quiet
  <2>6. Known' /\ Called'
    BY DEF Known, Knows, Called, Calls
  <2> QED BY <2>1, <2>2, <2>3, <2>4, <2>5, <2>6
<1>2. ASSUME NEW m \in Modes, NEW ok \in BOOLEAN, LoadPayload(t, m, ok) PROVE Inv'
  <2> USE <1>2 DEF LoadPayload
  <2>1. TypeOK'
    OBVIOUS
  <2>2. Steps' /\ Exclusive'
    BY DEF Steps, Exclusive
  <2>3. Routes'
    BY DEF Routes
  <2>4. Kinds' /\ Open' /\ Closed'
    BY DEF Kinds, Open, Closed, Of
  <2>5. Unloaded' /\ Quiet'
    BY DEF Unloaded, Quiet
  <2>6. Known' /\ Called'
    BY DEF Known, Knows, Called, Calls
  <2> QED BY <2>1, <2>2, <2>3, <2>4, <2>5, <2>6
<1>3. ASSUME NEW p \in Ids, EnablePayload(t, p) PROVE Inv'
  <2> USE <1>3 DEF EnablePayload, Embedded
  <2>1. TypeOK'
    BY SMTT(30)
  <2>2. Steps' /\ Exclusive'
    BY SMTT(30) DEF Steps, Exclusive, EngineFree
  <2>3. Routes'
    BY DEF Routes
  <2>4. Kinds' /\ Open' /\ Closed'
    BY DEF Kinds, Open, Closed, Of
  <2>5. Unloaded' /\ Quiet'
    BY DEF Unloaded, Quiet
  <2>6. Known' /\ Called'
    BY DEF Exclusive, Open, Known, Knows, Called, Calls, EngineFree, Of
  <2> QED BY <2>1, <2>2, <2>3, <2>4, <2>5, <2>6
<1>4. ASSUME NEW p \in Ids, DisablePayload(t, p) PROVE Inv'
  <2> USE <1>4 DEF DisablePayload, Embedded
  <2>1. TypeOK'
    OBVIOUS
  <2>2. Steps' /\ Exclusive'
    BY DEF Steps, Exclusive
  <2>3. Routes'
    BY DEF Routes
  <2>4. Kinds' /\ Open' /\ Closed'
    BY DEF Kinds, Open, Closed, Of
  <2>5. Unloaded' /\ Quiet'
    BY DEF Unloaded, Quiet
  <2>6. Known' /\ Called'
    BY DEF Known, Knows, Called, Calls
  <2> QED BY <2>1, <2>2, <2>3, <2>4, <2>5, <2>6
<1>5. ASSUME NEW p \in Ids, InvokePayload(t, p) PROVE Inv'
  <2> USE <1>5 DEF InvokePayload, Embedded
  <2>1. TypeOK'
    OBVIOUS
  <2>2. Steps' /\ Exclusive'
    BY DEF Steps, Exclusive, EngineFree
  <2>3. Routes'
    BY DEF Routes
  <2>4. Kinds' /\ Open' /\ Closed'
    BY DEF Kinds, Open, Closed, Of
  <2>5. Unloaded' /\ Quiet'
    BY DEF Unloaded, Quiet
  <2>6. Known' /\ Called'
    BY DEF Open, Known, Knows, Called, Calls, Of
  <2> QED BY <2>1, <2>2, <2>3, <2>4, <2>5, <2>6
<1>6. ASSUME NEW p \in Ids, IsolatedCall(t, p) PROVE Inv'
  <2> USE <1>6 DEF IsolatedCall
  <2>1. TypeOK'
    OBVIOUS
  <2>2. Steps' /\ Exclusive'
    BY DEF Steps, Exclusive, EngineFree
  <2>3. Routes'
    BY DEF Routes
  <2>4. Kinds' /\ Open' /\ Closed'
    BY DEF Kinds, Open, Closed, Of
  <2>5. Unloaded' /\ Quiet'
    BY DEF Unloaded, Quiet
  <2>6. Known' /\ Called'
    BY DEF Known, Knows, Called, Calls
  <2> QED BY <2>1, <2>2, <2>3, <2>4, <2>5, <2>6
<1>7. ASSUME NEW p \in Ids, UnloadEmbedded(t, p) PROVE Inv'
  <2> USE <1>7 DEF UnloadEmbedded, Embedded, Forget
  <2>1. TypeOK'
    BY ZenonT(30)
  <2>2. Steps' /\ Exclusive'
    BY SMTT(30) DEF Steps, Exclusive, EngineFree
  <2>3. Routes'
    BY DEF Routes
  <2>4. Kinds'
    BY SMTT(30) DEF Kinds
  <2>5. Open'
    BY SMTT(30) DEF Exclusive, Routes, Kinds, Open, Known, Knows, Of
  <2>6. Closed'
    BY SMTT(30) DEF Exclusive, Closed, Known, Knows
  <2>7. Unloaded' /\ Quiet'
    BY DEF Unloaded, Quiet
  <2>8. Known' /\ Called'
    BY DEF Open, Known, Knows, Called, Calls, EngineFree, Of
  <2> QED BY <2>1, <2>2, <2>3, <2>4, <2>5, <2>6, <2>7, <2>8
<1>8. ASSUME NEW p \in Ids, UnloadIsolated(t, p) PROVE Inv'
  <2> USE <1>8 DEF UnloadIsolated
  <2>1. TypeOK'
    OBVIOUS
  <2>2. Steps' /\ Exclusive'
    BY DEF Steps, Exclusive
  <2>3. Routes'
    BY DEF Routes
  <2>4. Kinds' /\ Open' /\ Closed'
    BY DEF Kinds, Open, Closed, Of
  <2>5. Unloaded' /\ Quiet'
    BY DEF Unloaded, Quiet
  <2>6. Known' /\ Called'
    BY DEF Open, Known, Knows, Called, Calls, EngineFree, Of
  <2> QED BY <2>1, <2>2, <2>3, <2>4, <2>5, <2>6
<1> QED BY <1>1, <1>2, <1>3, <1>4, <1>5, <1>6, <1>7, <1>8 DEF Operation

\* The operation under way goes on or returns.
LEMMA AdvanceKeeps ==
  ASSUME Inv, NEW t \in Callers, Advance(t)
  PROVE  Inv'
<1> USE DEF Inv, TypeOK
<1>1. ASSUME InvokeReturn(t) PROVE Inv'
  <2> USE <1>1 DEF InvokeReturn
  <2>1. TypeOK'
    OBVIOUS
  <2>2. Steps' /\ Exclusive'
    BY DEF Steps, Exclusive
  <2>3. Routes'
    BY DEF Routes
  <2>4. Kinds' /\ Open' /\ Closed'
    BY DEF Kinds, Open, Closed, Of
  <2>5. Unloaded' /\ Quiet'
    BY DEF Unloaded, Quiet, EngineFree
  <2>6. Known' /\ Called'
    BY DEF Known, Knows, Called, Calls
  <2> QED BY <2>1, <2>2, <2>3, <2>4, <2>5, <2>6
<1>2. ASSUME FailedReturn(t) PROVE Inv'
  <2> USE <1>2 DEF FailedReturn, Quiesced
  <2>1. TypeOK'
    OBVIOUS
  <2>2. Steps' /\ Exclusive'
    BY DEF Steps, Exclusive
  <2>3. Routes'
    BY DEF Routes
  <2>4. Kinds' /\ Open' /\ Closed'
    BY DEF Kinds, Open, Closed, Of
  <2>5. Unloaded' /\ Quiet'
    BY DEF Unloaded, Quiet, EngineFree
  <2>6. Known' /\ Called'
    BY DEF Known, Knows, Called, Calls
  <2> QED BY <2>1, <2>2, <2>3, <2>4, <2>5, <2>6
<1>3. ASSUME ShutdownReturn(t) PROVE Inv'
  <2> USE <1>3 DEF ShutdownReturn
  <2>1. TypeOK'
    OBVIOUS
  <2>2. Steps' /\ Exclusive'
    BY SMTT(30) DEF Steps, Exclusive
  <2>3. Routes'
    BY DEF Routes
  <2>4. Kinds' /\ Open' /\ Closed'
    BY DEF Kinds, Open, Closed, EngineFree, Of
  <2>5. Unloaded' /\ Quiet'
    BY DEF Unloaded, Quiet, EngineFree
  <2>6. Known' /\ Called'
    BY DEF Exclusive, Known, Knows, Called, Calls
  <2> QED BY <2>1, <2>2, <2>3, <2>4, <2>5, <2>6
<1>4. ASSUME CloseReturn(t) PROVE Inv'
  <2> USE <1>4 DEF CloseReturn
  <2>1. TypeOK'
    OBVIOUS
  <2>2. Steps' /\ Exclusive'
    BY DEF Steps, Exclusive
  <2>3. Routes'
    BY DEF Routes
  <2>4. Kinds' /\ Open' /\ Closed'
    BY DEF Kinds, Open, Closed, Of
  <2>5. Unloaded' /\ Quiet'
    BY DEF Unloaded, Quiet, EngineFree
  <2>6. Known' /\ Called'
    BY SMTT(60) DEF Exclusive, Open, Closed, Known, Knows, Called, Calls
  <2> QED BY <2>1, <2>2, <2>3, <2>4, <2>5, <2>6
<1>5. ASSUME NEW p \in Ids, CloseNext(t, p) PROVE Inv'
  <2> USE <1>5 DEF CloseNext, Last
  <2>1. TypeOK'
    OBVIOUS
  <2>2. Steps' /\ Exclusive'
    BY DEF Steps, Exclusive
  <2>3. Routes'
    BY DEF Routes
  <2>4. Kinds' /\ Open' /\ Closed'
    BY DEF Routes, Kinds, Open, Closed, EngineFree, Of
  <2>5. Unloaded' /\ Quiet'
    BY DEF Unloaded, Quiet, EngineFree
  <2>6. Known' /\ Called'
    BY SMTT(30) DEF Steps, Exclusive, Routes, Kinds, Open, Known, Knows, Called, Calls
  <2> QED BY <2>1, <2>2, <2>3, <2>4, <2>5, <2>6
<1>6. ASSUME NEW ok \in BOOLEAN, IsolatedReturn(t, ok) PROVE Inv'
  <2> USE <1>6 DEF IsolatedReturn
  <2>1. TypeOK'
    OBVIOUS
  <2>2. Steps' /\ Exclusive'
    BY DEF Steps, Exclusive
  <2>3. Routes'
    BY DEF Routes
  <2>4. Kinds' /\ Open' /\ Closed'
    BY DEF Kinds, Open, Closed, Known, Knows, Of
  <2>5. Unloaded' /\ Quiet'
    BY DEF Unloaded, Quiet, EngineFree
  <2>6. Known' /\ Called'
    BY DEF Exclusive, Kinds, Known, Knows, Called, Calls
  <2> QED BY <2>1, <2>2, <2>3, <2>4, <2>5, <2>6
<1>7. ASSUME NEW ok \in BOOLEAN, InitializeReturn(t, ok) PROVE Inv'
  <2> USE <1>7 DEF InitializeReturn
  <2>1. TypeOK'
    OBVIOUS
  <2>2. Steps' /\ Exclusive'
    BY DEF Steps, Exclusive
  <2>3. Routes'
    BY DEF Routes
  <2>4. Kinds' /\ Open' /\ Closed'
    BY SMTT(30) DEF Routes, Kinds, Open, Closed, Known, Knows, Of
  <2>5. Unloaded' /\ Quiet'
    BY DEF Unloaded, Quiet, EngineFree
  <2>6. Known' /\ Called'
    BY DEF Exclusive, Routes, Known, Knows, Called, Calls
  <2> QED BY <2>1, <2>2, <2>3, <2>4, <2>5, <2>6
<1>8. ASSUME NEW ok \in BOOLEAN, UnloadReturn(t, ok) PROVE Inv'
  <2> USE <1>8 DEF UnloadReturn, Quiesced, Forget
  <2>1. TypeOK'
    OBVIOUS
  <2>2. Steps' /\ Exclusive'
    BY DEF Steps, Exclusive
  <2>3. Routes'
    BY DEF Routes
  <2>4. Kinds'
    BY SMTT(30) DEF Kinds
  <2>5. ~closed
    BY DEF Closed
  <2>6. Open' /\ Closed'
    <3>1. CASE ok
      BY <2>5, <3>1, SMTT(30) DEF Routes, Kinds, Open, Closed, Of
    <3>2. CASE ~ok
      BY <2>5, <3>2, SMTT(30) DEF Routes, Known, Knows, Open, Closed, Of
    <3> QED BY <3>1, <3>2
  <2>7. Unloaded' /\ Quiet'
    BY DEF Unloaded, Quiet, EngineFree
  <2>8. Known' /\ Called'
    BY DEF Exclusive, Known, Knows, Called, Calls
  <2> QED BY <2>1, <2>2, <2>3, <2>4, <2>6, <2>7, <2>8
<1>9. ASSUME NEW ok \in BOOLEAN, ForcedReturn(t, ok) PROVE Inv'
  <2> USE <1>9 DEF ForcedReturn, Quiesced
  <2>1. TypeOK'
    OBVIOUS
  <2>2. Steps' /\ Exclusive'
    BY DEF Steps, Exclusive
  <2>3. Routes'
    BY DEF Routes
  <2>4. Kinds' /\ Open' /\ Closed'
    BY DEF Kinds, Open, Closed, EngineFree, Of
  <2>5. Unloaded' /\ Quiet'
    BY DEF Unloaded, Quiet, EngineFree
  <2>6. Known' /\ Called'
    BY DEF Exclusive, Known, Knows, Called, Calls
  <2> QED BY <2>1, <2>2, <2>3, <2>4, <2>5, <2>6
<1> QED BY <1>1, <1>2, <1>3, <1>4, <1>5, <1>6, <1>7, <1>8, <1>9 DEF Advance

\* A Bridge call of a plugin's own thread.
LEMMA BridgeKeeps ==
  ASSUME Inv, NEW w \in Workers, Bridge(w)
  PROVE  Inv'
<1> USE DEF Inv, TypeOK
<1>1. ASSUME RequireSession(w) PROVE Inv'
  <2> USE <1>1 DEF RequireSession
  <2>1. TypeOK'
    OBVIOUS
  <2>2. Steps' /\ Exclusive'
    BY DEF Steps, Exclusive
  <2>3. Routes'
    BY DEF Routes
  <2>4. Kinds' /\ Open' /\ Closed'
    BY DEF Kinds, Open, Closed, EngineFree, Of
  <2>5. Unloaded' /\ Quiet'
    BY DEF Unloaded, Quiet, EngineFree
  <2>6. Known' /\ Called'
    BY DEF Known, Knows, Called, Calls
  <2> QED BY <2>1, <2>2, <2>3, <2>4, <2>5, <2>6
<1>2. ASSUME BridgeReturn(w) PROVE Inv'
  <2> USE <1>2 DEF BridgeReturn
  <2>1. TypeOK'
    OBVIOUS
  <2>2. Steps' /\ Exclusive'
    BY DEF Steps, Exclusive
  <2>3. Routes'
    BY DEF Routes
  <2>4. Kinds' /\ Open' /\ Closed'
    BY DEF Kinds, Open, Closed, EngineFree, Of
  <2>5. Unloaded' /\ Quiet'
    BY DEF Unloaded, Quiet, EngineFree
  <2>6. Known' /\ Called'
    BY DEF Known, Knows, Called, Calls
  <2> QED BY <2>1, <2>2, <2>3, <2>4, <2>5, <2>6
<1>3. ASSUME NEW p \in Ids, BridgeCall(w, p) PROVE Inv'
  <2> USE <1>3 DEF BridgeCall, Admits
  <2>1. TypeOK'
    OBVIOUS
  <2>2. Steps' /\ Exclusive'
    BY DEF Steps, Exclusive
  <2>3. Routes'
    BY DEF Routes
  <2>4. Kinds' /\ Open' /\ Closed'
    BY DEF Kinds, Open, Closed, EngineFree, Of
  <2>5. Unloaded' /\ Quiet'
    BY DEF Unloaded, Quiet, EngineFree
  <2>6. Known' /\ Called'
    BY DEF Routes, Kinds, Known, Knows, Called, Calls
  <2> QED BY <2>1, <2>2, <2>3, <2>4, <2>5, <2>6
<1> QED BY <1>1, <1>2, <1>3 DEF Bridge

\* Inv is inductive ...
LEMMA NextKeeps == Inv /\ [Next]_vars => Inv'
<1> SUFFICES ASSUME Inv, [Next]_vars PROVE Inv'
  OBVIOUS
<1>1. CASE Next
  BY <1>1, OperationKeeps, AdvanceKeeps, HostStepKeeps, BridgeKeeps DEF Next
<1>2. CASE UNCHANGED vars
  BY <1>2 DEF vars, Inv, TypeOK, Steps, Exclusive, Routes, Open, Closed, Kinds,
       Unloaded, Quiet, Known, Knows, Called, Calls, EngineFree, Of
<1> QED BY <1>1, <1>2

\* ... and so always holds.
LEMMA Invariance == Spec => []Inv
BY InitEstablishes, NextKeeps, PTL DEF Spec

\* Every variable keeps its type.
THEOREM TypeCorrect == Spec => []TypeOK
<1>1. Inv => TypeOK
  BY DEF Inv
<1> QED BY <1>1, Invariance, PTL

\* requireSession finds the session of every plugin that may call the host,
\* however its Bridge calls interleave with unload, close and Host unload.
THEOREM SessionsFound == Spec => []BridgeFindsItsSession
<1>1. Inv => BridgeFindsItsSession
  BY DEF Inv, BridgeFindsItsSession, Routes, Known, Knows, Called, Calls
<1> QED BY <1>1, Invariance, PTL

\* Between operations the maps of RustRuntimeEngine, RustNativeEngine and the
\* Rust engine name the same payloads.
THEOREM RoutesAlwaysAgree == Spec => []RoutesAgree
<1>1. Inv => RoutesAgree
  BY DEF Inv, RoutesAgree, Routes, Open, Closed, EngineFree, Of
<1> QED BY <1>1, Invariance, PTL

\* RustRuntimeHostPlugin.onUnload returns with everything shut down.
THEOREM UnloadCloses == Spec => []UnloadMeansClosed
<1>1. Inv => UnloadMeansClosed
  BY DEF Inv, UnloadMeansClosed, Unloaded, Closed
<1> QED BY <1>1, Invariance, PTL
=============================================================================
