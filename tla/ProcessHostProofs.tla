-------------------------- MODULE ProcessHostProofs --------------------------
(***************************************************************************)
(* The invariants of ProcessHost, for any range of identifiers.  What the  *)
(* payload sees holds whatever threads it has.  What travels on the pipes  *)
(* is in order only if it has none of its own: then the two sides hold one *)
(* exchange at a time, and Exchange says where it is.                      *)
(***************************************************************************)
EXTENDS ProcessHost, SequenceTheorems, TLAPS

\* While Main handles a command it knows the command's id.
Handling == {"initialize", "invoke", "shutdown", "respond"}

\* The state of the payload while Main is in a call of it, and at the end.
Standing ==
    /\ at \in Handling => request \in CommandIds
    /\ at = "initialize" => payload = "Loaded"
    /\ at = "invoke" => payload = "Enabled"
    /\ at = "shutdown" => payload = "Disabled"
    /\ at = "forced" => payload \in Initialized
    /\ at = "exited" => payload \notin Initialized
    /\ server = "Closed" => payload = "Shutdown"

Inv == TypeOK /\ Standing

\* A frame more on a pipe, or one less.
LEMMA Frames ==
  ASSUME NEW S, NEW s \in Seq(S), NEW x \in S
  PROVE  Append(s, x) \in Seq(S) /\ (s # <<>> => Tail(s) \in Seq(S) /\ Head(s) \in S)
<1> QED
  OBVIOUS

\* The counter goes up by two, and from the last even u64 to zero.
LEMMA SpendCounts ==
  ASSUME nextCallbackId \in Counts, SpendId
  PROVE  nextCallbackId' \in Counts
<1> DEFINE n == nextCallbackId
           m == 2 * (MaxCallId + 1)
<1>1. MaxCallId \in Nat /\ n \in Nat /\ n % 2 = 0 /\ n <= 2 * MaxCallId + 1 /\ n' = (n + 2) % m
  BY ProcessAssumption DEF Counts, SpendId
<1> HIDE DEF n
<1>2. n + 2 <= m /\ m \in Nat \ {0} /\ (n + 2) % 2 = 0
  BY <1>1
<1>3. (n + 2) % m = IF n + 2 = m THEN 0 ELSE n + 2
  BY <1>1, <1>2
<1>4. n' \in Nat /\ n' <= 2 * MaxCallId + 1 /\ n' % 2 = 0
  BY <1>1, <1>2, <1>3
<1> QED
  BY <1>1, <1>4 DEF Counts, n

LEMMA IdsApart == CommandIds \cap (CallIds \cup {0}) = {} /\ CommandIds \in SUBSET Nat
BY DEF CommandIds, CallIds

\* However serve() ends, the payload is left alone, to be shut down, or over.
LEMMA EndKeeps ==
  ASSUME Inv, at \in {"serve", "respond"}, NEW how \in {"clean", "failed"}, End(how),
         UNCHANGED server
  PROVE  /\ at' \in {"forced", "exited"} /\ exit' = how
         /\ payload' \in {"Absent", "Loaded", "ShutdownFailed", "Shutdown"} \cup Initialized
         /\ server' \in {"Loaded", "Closed"} <=> payload' # "Absent"
         /\ Standing'
<1> QED
  BY DEF Inv, TypeOK, Standing, Handling, End, Initialized

LEMMA ServeKeeps ==
  ASSUME Inv, Serve
  PROVE  Inv'
<1>1. /\ Serving /\ reader' = None /\ toChild' \in Seq(ToChildFrames)
      /\ request' \in CommandIds \/ (request' = request /\ at' \in {"forced", "exited"})
      /\ UNCHANGED <<call, nextCallbackId, toParent, open, awaited, nextRequestId>>
  <2>1. toChild # <<>> => Tail(toChild) \in Seq(ToChildFrames) /\ Head(toChild) \in ToChildFrames
    BY DEF Inv, TypeOK
  <2>2. ASSUME NEW c \in Commands, Receive(c)
        PROVE  Serving /\ reader' = None /\ toChild' \in Seq(ToChildFrames)
               /\ request' \in CommandIds /\ UNCHANGED <<call, nextCallbackId, toParent, open, awaited, nextRequestId>>
    BY <2>1, <2>2 DEF Receive, Consume, ToChildFrames, Commands, parent
  <2>3. CASE ServeFails \/ ServeEof
    BY <2>1, <2>3 DEF ServeFails, ServeEof, Consume, End, parent, Inv, TypeOK
  <2>4. CASE ~(ServeFails \/ ServeEof)
    <3>1. \E c \in Commands : Receive(c)
      BY <2>4 DEF Serve, Hello, Load, Enable, Invoke, Disable, Shutdown, Commands
    <3> QED
      BY <2>2, <3>1
  <2> QED
    BY <2>3, <2>4
<1>2. /\ server' \in {"AwaitHello", "AwaitLoad", "Loaded", "Closed"}
      /\ payload' \in {"Absent", "Loaded", "ShutdownFailed", "Shutdown"} \cup Initialized
      /\ server' \in {"Loaded", "Closed"} <=> payload' # "Absent"
      /\ at' \in PluginCode \cup {"serve", "respond", "exited"}
      /\ response' \in Responses
      /\ exit' \in {"running", "clean", "failed"}
      /\ Standing'
  <2> USE <1>1 DEF Serving, Handling
  <2>1. CASE Hello
    BY <2>1 DEF Inv, TypeOK, Standing, Hello, Receive, Respond, Responses
  <2>2. CASE \E ok \in BOOLEAN : Load(ok)
    BY <2>2 DEF Inv, TypeOK, Standing, Load, Receive, Respond, Responses, Initialized
  <2>3. CASE Enable
    BY <2>3 DEF Inv, TypeOK, Standing, Enable, Receive, Respond, Responses, Enter, Initialized, PluginCode
  <2>4. CASE Invoke
    BY <2>4 DEF Inv, TypeOK, Standing, Invoke, Receive, Respond, Responses, Enter, Initialized, PluginCode
  <2>5. CASE Disable
    BY <2>5 DEF Inv, TypeOK, Standing, Disable, Receive, Respond, Responses, Initialized
  <2>6. CASE Shutdown
    BY <2>6 DEF Inv, TypeOK, Standing, Shutdown, Receive, Respond, Responses, Enter, Initialized, PluginCode
  <2>7. CASE ServeFails
    BY <2>7, EndKeeps DEF Inv, TypeOK, ServeFails, PluginCode
  <2>8. CASE ServeEof
    BY <2>8, EndKeeps DEF Inv, TypeOK, ServeEof, PluginCode
  <2> QED
    BY <2>1, <2>2, <2>3, <2>4, <2>5, <2>6, <2>7, <2>8 DEF Serve
<1> QED
  BY <1>1, <1>2 DEF Inv, TypeOK

LEMMA PluginReturnKeeps ==
  ASSUME Inv, PluginReturn
  PROVE  Inv'
<1>1. UNCHANGED <<request, bridge, toChild, toParent, parent>>
  BY DEF PluginReturn, InitializeReturn, ShutdownReturn, ForcedReturn, InvokeReturn, Returning
<1>2. CASE \E ok \in BOOLEAN : InitializeReturn(ok)
  BY <1>1, <1>2
  DEF Inv, TypeOK, Standing, Handling, InitializeReturn, Returning, Respond, Responses, Initialized, bridge, parent
<1>3. CASE \E ok \in BOOLEAN : ShutdownReturn(ok)
  BY <1>1, <1>3
  DEF Inv, TypeOK, Standing, Handling, ShutdownReturn, Returning, Respond, Responses, Initialized, bridge, parent
<1>4. CASE \E ok \in BOOLEAN : ForcedReturn(ok)
  BY <1>1, <1>4 DEF Inv, TypeOK, Standing, Handling, ForcedReturn, Initialized, bridge, parent
<1>5. CASE \E body \in Responses : InvokeReturn(body)
  BY <1>1, <1>5
  DEF Inv, TypeOK, Standing, Handling, InvokeReturn, Returning, Respond, bridge, parent
<1> QED
  BY <1>2, <1>3, <1>4, <1>5 DEF PluginReturn

LEMMA WriteResponseKeeps ==
  ASSUME Inv, WriteResponse
  PROVE  Inv'
<1>1. UNCHANGED <<server, request, response, bridge, toChild, parent>> /\ at = "respond"
  BY DEF WriteResponse
<1>2. toParent' \in Seq(ToParentFrames)
  <2> DEFINE frame == [id |-> request, body |-> response]
  <2>1. CASE open /\ response # "TooLarge"
    <3>1. frame \in ToParentFrames
      BY <1>1, <2>1 DEF Inv, TypeOK, Standing, Handling, Responses, ToParentFrames
    <3>2. toParent' = Append(toParent, frame)
      BY <2>1 DEF WriteResponse
    <3> QED
      BY <3>1, <3>2, Frames DEF Inv, TypeOK
  <2>2. CASE ~(open /\ response # "TooLarge")
    BY <2>2 DEF WriteResponse, Inv, TypeOK
  <2> QED
    BY <2>1, <2>2
<1>3. CASE \E how \in {"clean", "failed"} : End(how)
  BY <1>1, <1>2, <1>3, EndKeeps DEF Inv, TypeOK, bridge, parent, PluginCode
<1>4. CASE at' = "serve" /\ UNCHANGED <<payload, exit>>
  BY <1>1, <1>2, <1>4 DEF Inv, TypeOK, Standing, Handling, bridge, parent
<1> QED
  BY <1>3, <1>4 DEF WriteResponse

\* What a call does with its identifier.
LEMMA WriteSends ==
  ASSUME Inv, NEW t \in Threads, NEW fits \in BOOLEAN, BridgeWrite(t, fits)
  PROVE  /\ InPlugin(t) /\ nextCallbackId' \in Counts /\ UNCHANGED <<child, reader, toChild, parent>>
         /\ \/ UNCHANGED <<toParent, call>>
            \/ /\ nextCallbackId \in CallIds /\ open
               /\ call' = [call EXCEPT ![t] = nextCallbackId]
               /\ toParent' = Append(toParent, [id |-> nextCallbackId, body |-> "Call"])
<1>1. nextCallbackId \in 1..MaxCallId => nextCallbackId \in CallIds
  BY DEF Inv, TypeOK, Counts, CallIds
<1> QED
  BY <1>1, SpendCounts DEF BridgeWrite, Inv, TypeOK

LEMMA BridgeKeeps ==
  ASSUME Inv, NEW t \in Threads,
         (\E fits \in BOOLEAN : BridgeWrite(t, fits)) \/ BridgeLock(t) \/ BridgeRead(t)
  PROVE  Inv'
<1>1. UNCHANGED <<server, payload, at, request, response, exit, open, awaited, nextRequestId>>
  BY DEF BridgeWrite, BridgeLock, BridgeRead, child, parent
<1>2. ASSUME NEW fits \in BOOLEAN, BridgeWrite(t, fits)
      PROVE  Inv'
  <2>1. /\ nextCallbackId' \in Counts /\ UNCHANGED <<reader, toChild>>
        /\ \/ UNCHANGED <<toParent, call>>
           \/ /\ nextCallbackId \in CallIds
              /\ call' = [call EXCEPT ![t] = nextCallbackId]
              /\ toParent' = Append(toParent, [id |-> nextCallbackId, body |-> "Call"])
    BY <1>2, WriteSends
  <2>2. toParent' \in Seq(ToParentFrames)
    <3>1. nextCallbackId \in CallIds => [id |-> nextCallbackId, body |-> "Call"] \in ToParentFrames
      BY DEF ToParentFrames
    <3> QED
      BY <2>1, <3>1, Frames DEF Inv, TypeOK
  <2>3. call' \in [Threads -> CallIds \cup {0}]
    BY <2>1 DEF Inv, TypeOK
  <2> QED
    BY <1>1, <2>1, <2>2, <2>3 DEF Inv, TypeOK, Standing
<1>3. CASE BridgeLock(t)
  BY <1>1, <1>3 DEF BridgeLock, Inv, TypeOK, Standing
<1>4. CASE BridgeRead(t)
  <2>1. toChild' \in Seq(ToChildFrames) /\ reader' = None
    <3>1. toChild # <<>> => Tail(toChild) \in Seq(ToChildFrames)
      BY DEF Inv, TypeOK
    <3> QED
      BY <1>4, <3>1 DEF BridgeRead, Consume, Inv, TypeOK
  <2>2. call' \in [Threads -> CallIds \cup {0}]
    BY <1>4 DEF BridgeRead, Inv, TypeOK
  <2> QED
    BY <1>1, <1>4, <2>1, <2>2 DEF BridgeRead, Inv, TypeOK, Standing
<1> QED
  BY <1>2, <1>3, <1>4

LEMMA ParentKeeps ==
  ASSUME Inv,
         \/ \E command \in Commands : ParentSend(command)
         \/ ParentRead
         \/ \E cut \in BOOLEAN : ParentCloses(cut)
  PROVE  Inv'
<1>1. UNCHANGED <<server, payload, at, request, response, exit, call, reader, nextCallbackId>>
  BY DEF ParentSend, ParentRead, ParentCloses, child, bridge
<1>2. ASSUME NEW command \in Commands, ParentSend(command)
      PROVE  Inv'
  <2>1. nextRequestId \in CommandIds /\ nextRequestId \in 1..MaxRequestId /\ MaxRequestId \in Nat
    BY <1>2, ProcessAssumption DEF ParentSend, CommandIds, Inv, TypeOK
  <2>2. [id |-> nextRequestId, body |-> command] \in ToChildFrames
    BY <2>1 DEF ToChildFrames
  <2>3. toChild' \in Seq(ToChildFrames)
    BY <1>2, <2>2 DEF ParentSend, Inv, TypeOK
  <2>4. awaited' \in 0..MaxRequestId /\ nextRequestId' \in CommandIds /\ nextRequestId' <= MaxRequestId + 2
    BY <1>2, <2>1 DEF ParentSend, CommandIds
  <2> QED
    BY <1>1, <1>2, <2>3, <2>4 DEF ParentSend, Inv, TypeOK, Standing
<1>3. CASE ParentRead
  <2> DEFINE answer == [id |-> Head(toParent).id, body |-> "Answer"]
  <2>1. Head(toParent) \in ToParentFrames /\ toParent' \in Seq(ToParentFrames)
    BY <1>3 DEF ParentRead, Inv, TypeOK
  <2>2. Head(toParent).body = "Call" => answer \in ToChildFrames
    BY <2>1 DEF ToChildFrames, ToParentFrames
  <2>3. toChild' \in Seq(ToChildFrames) /\ awaited' \in 0..MaxRequestId
    <3>1. CASE Head(toParent).body = "Call"
      <4>1. toChild' = Append(toChild, answer) /\ awaited' = awaited
        BY <1>3, <3>1 DEF ParentRead
      <4> QED
        BY <2>2, <3>1, <4>1, Frames DEF Inv, TypeOK
    <3>2. CASE Head(toParent).body # "Call"
      BY <1>3, <3>2, ProcessAssumption DEF ParentRead, Inv, TypeOK
    <3> QED
      BY <3>1, <3>2
  <2> QED
    BY <1>1, <1>3, <2>1, <2>3 DEF ParentRead, Inv, TypeOK, Standing
<1>4. ASSUME NEW cut \in BOOLEAN, ParentCloses(cut)
      PROVE  Inv'
  <2>1. [id |-> 0, body |-> "Cut"] \in ToChildFrames
    BY DEF ToChildFrames
  <2>2. toChild' \in Seq(ToChildFrames)
    BY <1>4, <2>1, Frames DEF ParentCloses, Inv, TypeOK
  <2>3. awaited' \in 0..MaxRequestId
    <3>1. awaited' = 0
      BY <1>4 DEF ParentCloses
    <3>2. MaxRequestId \in Nat
      BY ProcessAssumption
    <3> QED
      BY <3>1, <3>2
  <2>4. open' \in BOOLEAN
    BY <1>4 DEF ParentCloses
  <2> QED
    BY <1>1, <1>4, <2>2, <2>3, <2>4 DEF ParentCloses, Inv, TypeOK, Standing
<1> QED
  BY <1>2, <1>3, <1>4

LEMMA Invariant == Spec => []Inv
<1>1. Init => Inv
  <2> SUFFICES ASSUME Init PROVE Inv
    OBVIOUS
  <2> QED
    BY ProcessAssumption DEF Init, Inv, TypeOK, Standing, Handling, Initialized, Responses, CommandIds, Counts
<1>2. Inv /\ [Next]_vars => Inv'
  <2> SUFFICES ASSUME Inv, [Next]_vars PROVE Inv'
    OBVIOUS
  <2>1. CASE ServeLock
    BY <2>1 DEF ServeLock, Inv, TypeOK, Standing, child, parent
  <2>2. CASE UNCHANGED vars
    BY <2>2 DEF vars, Inv, TypeOK, Standing
  <2> QED
    BY <2>1, <2>2, ServeKeeps, PluginReturnKeeps, WriteResponseKeeps, BridgeKeeps, ParentKeeps
    DEF Next
<1> QED
  BY <1>1, <1>2, PTL DEF Spec

\* The ids of commands and responses are odd, those of calls and their answers
\* even and within i64: also when the identifiers have run out, when every call
\* is refused and spends one more, and when the counter has come round and ids
\* are issued again (ProcessBridge::call, write_response).
THEOREM DirectionsApart == Spec => []DirectionsNeverCollide
<1>1. Inv => DirectionsNeverCollide
  <2> SUFFICES ASSUME Inv PROVE DirectionsNeverCollide
    OBVIOUS
  <2>1. \A i \in DOMAIN toParent : toParent[i] \in ToParentFrames
    BY DEF Inv, TypeOK
  <2>2. \A i \in DOMAIN toChild : toChild[i] \in ToChildFrames
    BY DEF Inv, TypeOK
  <2>3. \A f \in ToParentFrames : f.body = "Call" <=> f.id \in CallIds
    BY IdsApart DEF ToParentFrames
  <2>4. \A f \in ToChildFrames : f.body = "Answer" <=> f.id \in CallIds
    BY IdsApart DEF ToChildFrames, Commands, CallIds
  <2> QED
    BY <2>1, <2>2, <2>3, <2>4 DEF DirectionsNeverCollide
<1> QED
  BY <1>1, Invariant, PTL

\* However serve() ends - a shutdown, an error, the end of the stream - its
\* payload has been shut down if it was initialized (Server::close_on_eof, the
\* drop of the engine).
THEOREM ExitsShutDown == Spec => []ShutDownAtExit
<1>1. Inv => ShutDownAtExit
  BY DEF Inv, Standing, ShutDownAtExit
<1> QED
  BY <1>1, Invariant, PTL

-----------------------------------------------------------------------------
(* The life of the payload, whatever threads it has.                       *)

\* However serve() ends, the payload's life moves on as it may.
LEMMA EndLives ==
  ASSUME Inv, at \in {"serve", "respond"}, NEW how, End(how)
  PROVE  [Lifecycle!Next]_Life
<1> QED
  BY DEF Inv, TypeOK, Standing, End, Initialized, Life, Rest, Lifecycle!Next, Lifecycle!Move

LEMMA StepLives ==
  ASSUME Inv, [Next]_vars
  PROVE  [Lifecycle!Next]_Life
<1> USE DEF Inv, TypeOK, Standing, Initialized, Life, Rest, Lifecycle!Next, Lifecycle!Move
<1>1. CASE UNCHANGED <<at, payload>>
  BY <1>1
<1>2. CASE Hello \/ Disable \/ \E ok \in BOOLEAN : Load(ok)
  BY <1>2 DEF Hello, Disable, Load, Receive, Serving, Respond
<1>3. CASE Enable \/ Invoke
  BY <1>3 DEF Enable, Invoke, Receive, Serving, Respond, Enter
<1>4. CASE Shutdown
  BY <1>4 DEF Shutdown, Receive, Serving, Respond, Enter
<1>5. CASE ServeFails \/ ServeEof
  BY <1>5, EndLives DEF ServeFails, ServeEof, Serving
<1>6. CASE \E ok \in BOOLEAN : InitializeReturn(ok) \/ ShutdownReturn(ok) \/ ForcedReturn(ok)
  BY <1>6 DEF InitializeReturn, ShutdownReturn, ForcedReturn, Returning, Respond
<1>7. CASE \E body \in Responses : InvokeReturn(body)
  BY <1>7 DEF InvokeReturn, Returning, Respond
<1>8. CASE WriteResponse
  <2>1. at = "respond" /\ ((\E how : End(how)) \/ (at' = "serve" /\ UNCHANGED payload))
    BY <1>8 DEF WriteResponse
  <2> QED
    BY <2>1, EndLives
<1>9. UNCHANGED <<at, payload>> \/ Serve \/ WriteResponse \/ PluginReturn
  BY DEF Next, vars, ServeLock, BridgeWrite, BridgeLock, BridgeRead, ParentSend, ParentRead,
      ParentCloses, child
<1> QED
  BY <1>1, <1>2, <1>3, <1>4, <1>5, <1>6, <1>7, <1>8, <1>9 DEF Serve, PluginReturn

\* Whatever commands arrive and however serve() ends, the payload is
\* initialized, invoked and shut down in the order PayloadLifecycle promises
\* (Engine::enable_payload, invoke_payload, unload_payload, force_shutdown).
THEOREM OneLife == Spec => KeepsLifecycle
<1>1. Init => Lifecycle!Init
  BY DEF Init, Lifecycle!Init, Life, Rest
<1> QED
  BY <1>1, StepLives, Invariant, PTL DEF Spec, KeepsLifecycle, Lifecycle!Spec

-----------------------------------------------------------------------------
(* The exchange of frames, of a payload without threads of its own.        *)

Command == [id : {awaited}, body : Commands]
Response == [id : {awaited}, body : {"Ok", "Error"}]
Request == [id |-> call[Main], body |-> "Call"]
Answer == [id |-> call[Main], body |-> "Answer"]

\* While the pipes are open the two sides hold one thing between them:
\* nothing, a command, the call it is in, a callback or its answer, a response.
Idle == awaited = 0 /\ at \in {"serve", "exited"} /\ toChild = <<>> /\ toParent = <<>>
Commanded ==
    /\ awaited # 0 /\ at \in {"serve", "exited"}
    /\ toParent = <<>> /\ \E c \in Command : toChild = <<c>>
Working ==
    /\ awaited # 0 /\ call[Main] = 0 /\ at \in PluginCode \cup {"respond", "exited"}
    /\ request = awaited
    /\ toChild = <<>> /\ toParent = <<>>
Calling ==
    /\ awaited # 0 /\ call[Main] # 0 /\ at \in PluginCode /\ request = awaited
    /\ \/ toParent = <<Request>> /\ toChild = <<>>
       \/ toParent = <<>> /\ toChild = <<Answer>>
Responded ==
    /\ awaited # 0 /\ at \in {"serve", "exited"}
    /\ toChild = <<>> /\ \E r \in Response : toParent = <<r>>

Exchange ==
    /\ call[Main] # 0 => at \in PluginCode
    /\ exit = "failed" => at \in {"forced", "exited"} /\ (~open \/ response = "TooLarge")
    /\ \A i \in DOMAIN toChild : toChild[i].body = "Answer" =>
            i = 1 /\ call[Main] # 0 /\ toChild[i].id = call[Main]
    /\ open => Idle \/ Commanded \/ Working \/ Calling \/ Responded

\* A pipe with a frame less is none with as many, or with more.
LEMMA Shorter ==
  ASSUME NEW S, NEW s \in Seq(S), s # <<>>
  PROVE  Tail(s) # s /\ \A x : Tail(s) # Append(s, x)
<1>1. PICK n \in Nat : Len(s) = n
  OBVIOUS
<1>2. Len(Tail(s)) = n - 1
  BY <1>1
<1>3. n - 1 # n /\ n - 1 # n + 1
  BY SMT
<1>4. ASSUME NEW x PROVE Len(Append(s, x)) = n + 1
  <2>1. s \in Seq(S \cup {x})
    OBVIOUS
  <2> QED
    BY <1>1, <2>1, AppendProperties
<1>5. Tail(s) # s
  BY <1>1, <1>2, <1>3
<1>6. ASSUME NEW x PROVE Tail(s) # Append(s, x)
  <2>1. Len(Append(s, x)) = n + 1
    BY <1>4
  <2> QED
    BY <1>2, <1>3, <2>1
<1> QED
  BY <1>5, <1>6

LEMMA OneFrame ==
  ASSUME NEW x
  PROVE  Append(<<>>, x) = <<x>> /\ Tail(<<x>>) = <<>> /\ Head(<<x>>) = x /\ <<x>> # <<>>
<1> QED
  OBVIOUS

\* The answer is the first frame to the child, and only Main's call finds it.
LEMMA AnswerFirst ==
  ASSUME Inv, Exchange, toChild # <<>>
  PROVE  /\ Head(toChild).body = "Answer" => call[Main] # 0 /\ Head(toChild).id = call[Main]
         /\ \A i \in DOMAIN Tail(toChild) : Tail(toChild)[i].body # "Answer"
<1>1. toChild \in Seq(ToChildFrames)
  BY DEF Inv, TypeOK
<1>2. Head(toChild) = toChild[1] /\ 1 \in DOMAIN toChild
  BY <1>1
<1>3. ASSUME NEW i \in DOMAIN Tail(toChild)
      PROVE  Tail(toChild)[i] = toChild[i + 1] /\ i + 1 \in DOMAIN toChild /\ i + 1 # 1
  BY <1>1, <1>3
<1> QED
  BY <1>2, <1>3 DEF Exchange

LEMMA ServeExchanges ==
  ASSUME Inv, Exchange, Serve
  PROVE  Exchange'
<1>1. at = "serve" /\ call[Main] = 0 /\ exit # "failed"
  BY DEF Serve, Hello, Load, Enable, Invoke, Disable, Shutdown, Receive, ServeFails, ServeEof, Serving,
      Exchange, PluginCode
<1>2. open => ~Working /\ ~Calling
  BY <1>1 DEF Working, Calling, PluginCode
<1>3. ASSUME NEW c \in Commands, Receive(c),
             at' \in PluginCode \cup {"respond"}
      PROVE  Exchange'
  <2>1. UNCHANGED <<exit, call, toParent, open, awaited>> /\ toChild' = Tail(toChild)
        /\ request' = Head(toChild).id /\ toChild # <<>>
    BY <1>3 DEF Receive, Consume, parent
  <2>2. CASE open
    <3>1. Commanded
      BY <1>2, <2>1, <2>2 DEF Exchange, Idle, Responded
    <3>2. PICK f \in Command : toChild = <<f>>
      BY <3>1 DEF Commanded
    <3>3. toChild' = <<>> /\ request' = awaited
      BY <2>1, <3>2, OneFrame DEF Command
    <3>4. Working'
      BY <1>1, <1>3, <2>1, <3>1, <3>3 DEF Working, Commanded
    <3> QED
      BY <1>1, <2>1, <3>3, <3>4 DEF Exchange
  <2>3. CASE ~open
    BY <1>1, <2>1, <2>3, AnswerFirst DEF Exchange
  <2> QED
    BY <2>2, <2>3
<1>4. CASE ServeFails
  <2>1. toChild # <<>> /\ Head(toChild).body \in {"Answer", "Cut"} /\ toChild' = Tail(toChild)
        /\ at' \in {"forced", "exited"} /\ UNCHANGED <<call, open>>
    BY <1>4 DEF ServeFails, Consume, End, parent
  <2>2. ~open
    <3> SUFFICES ASSUME open PROVE FALSE
      OBVIOUS
    <3>1. Commanded
      BY <1>2, <2>1 DEF Exchange, Idle, Responded
    <3> QED
      BY <2>1, <3>1, OneFrame DEF Commanded, Command, Commands
  <2> QED
    BY <1>1, <2>1, <2>2, AnswerFirst DEF Exchange
<1>5. CASE ServeEof
  BY <1>1, <1>5 DEF ServeEof, End, Exchange, parent
<1> QED
  BY <1>3, <1>4, <1>5
  DEF Serve, Hello, Load, Enable, Invoke, Disable, Shutdown, Respond, Enter, PluginCode, Commands

LEMMA ReturnExchanges ==
  ASSUME Inv, Exchange, PluginReturn
  PROVE  Exchange'
<1>1. UNCHANGED <<request, call, toChild, toParent, open, awaited>> /\ call[Main] = 0 /\ at \in PluginCode
  BY DEF PluginReturn, InitializeReturn, ShutdownReturn, ForcedReturn, InvokeReturn, Returning,
      PluginCode, bridge, parent
<1>2. /\ at' \in {"respond", "exited"}
      /\ \/ at # "forced" /\ UNCHANGED exit
         \/ at' = "exited" /\ UNCHANGED <<exit, response>>
  BY DEF PluginReturn, InitializeReturn, ShutdownReturn, ForcedReturn, InvokeReturn, Returning, Respond
<1>3. open => Working
  BY <1>1 DEF Exchange, Idle, Commanded, Calling, Responded, PluginCode
<1> QED
  BY <1>1, <1>2, <1>3 DEF Exchange, Working, PluginCode

LEMMA ResponseExchanges ==
  ASSUME Inv, Exchange, WriteResponse
  PROVE  Exchange'
<1>1. UNCHANGED <<server, request, response, call, toChild, open, awaited>> /\ at = "respond"
      /\ call[Main] = 0 /\ exit # "failed"
  BY DEF WriteResponse, bridge, parent, Exchange, PluginCode
<1>2. open => Working
  BY <1>1 DEF Exchange, Idle, Commanded, Calling, Responded, PluginCode
<1>3. CASE open /\ response # "TooLarge"
  <2>1. toParent' = <<[id |-> request, body |-> response]>>
    BY <1>2, <1>3, OneFrame DEF WriteResponse, Working
  <2>2. [id |-> request, body |-> response] \in Response
    BY <1>2, <1>3 DEF Response, Working, Inv, TypeOK, Responses
  <2>3. at' \in {"serve", "exited"} /\ exit' # "failed"
    BY <1>1, <1>3 DEF WriteResponse, End, Inv, Standing, Initialized
  <2>4. Responded'
    BY <1>1, <1>2, <1>3, <2>1, <2>2, <2>3 DEF Responded, Response, Working
  <2> QED
    BY <1>1, <2>3, <2>4 DEF Exchange
<1>4. CASE ~(open /\ response # "TooLarge")
  <2>1. at' \in {"forced", "exited"} /\ UNCHANGED toParent
    BY <1>4 DEF WriteResponse, End
  <2> QED
    BY <1>1, <1>2, <1>4, <2>1 DEF Exchange, Working, PluginCode
<1> QED
  BY <1>3, <1>4

LEMMA BridgeExchanges ==
  ASSUME Inv, Exchange, at # "exited",
         (\E fits \in BOOLEAN : BridgeWrite(Main, fits)) \/ BridgeLock(Main) \/ BridgeRead(Main)
  PROVE  Exchange'
<1>1. UNCHANGED <<at, request, response, exit, open, awaited>>
  BY DEF BridgeWrite, BridgeLock, BridgeRead, child, parent
<1>2. ASSUME NEW fits \in BOOLEAN, BridgeWrite(Main, fits)
      PROVE  Exchange'
  <2>1. at \in PluginCode /\ call[Main] = 0 /\ UNCHANGED toChild
    BY <1>2 DEF BridgeWrite, InPlugin
  <2>2. \A i \in DOMAIN toChild : toChild[i].body # "Answer"
    BY <2>1 DEF Exchange
  <2>3. open => Working
    BY <2>1 DEF Exchange, Idle, Commanded, Calling, Responded, PluginCode
  <2>4. CASE UNCHANGED <<toParent, call>>
    BY <1>1, <2>1, <2>3, <2>4 DEF Exchange, Working
  <2>5. CASE /\ nextCallbackId \in CallIds /\ open
             /\ call' = [call EXCEPT ![Main] = nextCallbackId]
             /\ toParent' = Append(toParent, [id |-> nextCallbackId, body |-> "Call"])
    <3>1. call'[Main] = nextCallbackId /\ nextCallbackId # 0
      BY <2>5 DEF Inv, TypeOK, Threads, CallIds
    <3>2. toParent' = <<Request>>'
      BY <2>3, <2>5, <3>1, OneFrame DEF Working, Request
    <3>3. Calling'
      BY <1>1, <2>1, <2>3, <2>5, <3>1, <3>2 DEF Calling, Working
    <3> QED
      BY <1>1, <2>1, <2>2, <3>3 DEF Exchange
  <2> QED
    BY <1>2, <2>4, <2>5, WriteSends DEF Threads
<1>3. CASE BridgeLock(Main)
  BY <1>1, <1>3 DEF BridgeLock, Exchange, Idle, Commanded, Working, Calling, Responded, Command,
      Response, Request, Answer
<1>4. CASE BridgeRead(Main)
  <2>1. call'[Main] = 0 /\ call[Main] # 0 /\ at \in PluginCode /\ UNCHANGED toParent
    BY <1>4 DEF BridgeRead, Inv, TypeOK, Threads, Exchange
  <2>2. toChild' = toChild \/ (toChild # <<>> /\ toChild' = Tail(toChild))
    BY <1>4 DEF BridgeRead, Consume
  <2>3. \A i \in DOMAIN toChild' : toChild'[i].body # "Answer"
    <3>1. CASE toChild = <<>>
      BY <1>4, <3>1 DEF BridgeRead
    <3>2. CASE toChild # <<>>
      BY <1>4, <3>2, AnswerFirst DEF BridgeRead, Consume
    <3> QED
      BY <3>1, <3>2
  <2>4. CASE open
    <3>1. Calling /\ toChild # <<>>
      BY <1>4, <2>1, <2>4 DEF BridgeRead, Exchange, Idle, Commanded, Working, Responded, PluginCode
    <3>2. toChild = <<Answer>> /\ toParent = <<>>
      BY <3>1 DEF Calling
    <3>3. toChild' = <<>>
      BY <1>4, <3>1, <3>2, OneFrame DEF BridgeRead, Consume
    <3>4. Working'
      BY <1>1, <2>1, <3>1, <3>2, <3>3 DEF Working, Calling
    <3> QED
      BY <1>1, <2>1, <2>3, <3>4 DEF Exchange
  <2>5. CASE ~open
    BY <1>1, <2>1, <2>3, <2>5 DEF Exchange
  <2> QED
    BY <2>4, <2>5
<1> QED
  BY <1>2, <1>3, <1>4

LEMMA ParentExchanges ==
  ASSUME Inv, Exchange,
         \/ \E command \in Commands : ParentSend(command)
         \/ ParentRead
         \/ \E cut \in BOOLEAN : ParentCloses(cut)
  PROVE  Exchange'
<1>1. UNCHANGED <<at, request, response, exit, call>>
  BY DEF ParentSend, ParentRead, ParentCloses, child, bridge
<1>2. ASSUME NEW command \in Commands, ParentSend(command)
      PROVE  Exchange'
  <2> DEFINE frame == [id |-> nextRequestId, body |-> command]
  <2>1. Idle /\ awaited' = nextRequestId /\ awaited' # 0 /\ UNCHANGED <<open, toParent>>
    BY <1>2 DEF ParentSend, Exchange, Commanded, Working, Calling, Responded, Inv, TypeOK, CommandIds
  <2>2. toChild' = <<frame>>
    BY <1>2, <2>1, OneFrame DEF ParentSend, Idle
  <2>3. Commanded'
    BY <1>1, <2>1, <2>2 DEF Commanded, Idle, Command
  <2>4. \A i \in DOMAIN toChild' : toChild'[i].body # "Answer"
    BY <2>2 DEF Commands
  <2> QED
    BY <1>1, <2>1, <2>3, <2>4 DEF Exchange
<1>3. CASE ParentRead
  <2>1. open /\ toParent # <<>> /\ toParent' = Tail(toParent) /\ UNCHANGED open
    BY <1>3 DEF ParentRead
  <2>2. CASE Calling
    <3>1. toParent = <<Request>> /\ toChild = <<>>
      BY <2>1, <2>2 DEF Calling
    <3>2. Head(toParent) = Request /\ toParent' = <<>>
      BY <2>1, <3>1, OneFrame
    <3>3. Head(toParent).body = "Call" /\ Head(toParent).id = call[Main]
      BY <3>2 DEF Request
    <3>4. toChild' = Append(toChild, Answer) /\ UNCHANGED awaited
      BY <1>3, <3>3 DEF ParentRead, Answer
    <3>5. toChild' = <<Answer>> /\ Answer' = Answer
      BY <1>1, <3>1, <3>4, OneFrame DEF Answer
    <3>6. Calling'
      BY <1>1, <2>2, <3>2, <3>4, <3>5 DEF Calling
    <3>7. \A i \in DOMAIN toChild' : i = 1 /\ toChild'[i].id = call[Main]
      BY <3>5 DEF Answer
    <3> QED
      BY <1>1, <2>1, <2>2, <3>6, <3>7 DEF Exchange, Calling
  <2>3. CASE Responded
    <3>1. PICK r \in Response : toParent = <<r>>
      BY <2>3 DEF Responded
    <3>2. Head(toParent).body # "Call" /\ toParent' = <<>>
      BY <2>1, <3>1, OneFrame DEF Response
    <3>3. Idle'
      BY <1>1, <1>3, <2>3, <3>2 DEF ParentRead, Responded, Idle
    <3>4. UNCHANGED toChild
      BY <1>3, <3>2 DEF ParentRead
    <3> QED
      BY <1>1, <2>1, <3>3, <3>4 DEF Exchange
  <2> QED
    BY <2>1, <2>2, <2>3 DEF Exchange, Idle, Commanded, Working
<1>4. ASSUME NEW cut \in BOOLEAN, ParentCloses(cut)
      PROVE  Exchange'
  <2> DEFINE half == [id |-> 0, body |-> "Cut"]
  <2>1. ~open' /\ (toChild' = toChild \/ toChild' = Append(toChild, half))
    BY <1>4 DEF ParentCloses
  <2>2. \A i \in DOMAIN Append(toChild, half) :
            \/ Append(toChild, half)[i] = half
            \/ i \in DOMAIN toChild /\ Append(toChild, half)[i] = toChild[i]
    <3>1. toChild \in Seq(ToChildFrames) /\ half \in ToChildFrames
      BY DEF Inv, TypeOK, ToChildFrames
    <3> QED
      BY <3>1, AppendProperties
  <2>3. \A i \in DOMAIN toChild' : toChild'[i].body = "Answer" =>
            i \in DOMAIN toChild /\ toChild'[i] = toChild[i]
    BY <2>1, <2>2
  <2> QED
    BY <1>1, <2>1, <2>3 DEF Exchange
<1> QED
  BY <1>2, <1>3, <1>4

LEMMA Exchanges == ASSUME Workers = {} PROVE Spec => []Exchange
<1>1. Init => Exchange
  BY DEF Init, Exchange, Idle, Threads
<1>2. Inv /\ Exchange /\ [Next]_vars => Exchange'
  <2> SUFFICES ASSUME Inv, Exchange, [Next]_vars PROVE Exchange'
    OBVIOUS
  <2>1. CASE UNCHANGED vars \/ ServeLock
    BY <2>1 DEF vars, ServeLock, child, parent, Exchange, Idle, Commanded, Working, Calling, Responded,
        Command, Response, Request, Answer
  <2>2. Threads = {Main}
    BY DEF Threads
  <2> QED
    BY <2>1, <2>2, ServeExchanges, ReturnExchanges, ResponseExchanges, BridgeExchanges,
       ParentExchanges DEF Next
<1> QED
  BY <1>1, <1>2, Invariant, PTL DEF Spec

\* If the payload has no threads of its own and the parent keeps to the
\* protocol, serve() fails only on closed pipes or a result too large, and the
\* parent reads no response but the one it waits for (Server::serve).
THEOREM ProtocolHolds == ASSUME Workers = {} PROVE Spec => []ProtocolIsKept
<1>1. Exchange => ProtocolIsKept
  <2> SUFFICES ASSUME Exchange, open, toParent # <<>>, Head(toParent).body # "Call"
               PROVE  Head(toParent).id = awaited
    BY DEF Exchange, ProtocolIsKept
  <2>1. CASE Calling
    BY <2>1, OneFrame DEF Calling, Request
  <2>2. CASE Responded
    BY <2>2, OneFrame DEF Responded, Response
  <2> QED
    BY <2>1, <2>2 DEF Exchange, Idle, Commanded, Working
<1> QED
  BY <1>1, Exchanges, PTL

\* Under the same condition every answer is read by the call it answers
\* (ProcessBridge::call); with threads of the payload's own it need not be.
THEOREM AnswersArrive == ASSUME Workers = {} PROVE Spec => AnswersReachTheirCalls
<1> DEFINE Taken ==
      toChild # <<>> /\ toChild' = Tail(toChild) /\ Head(toChild).body = "Answer"
        => \E t \in Threads : call[t] = Head(toChild).id /\ call'[t] = 0
<1>1. Inv /\ Exchange /\ [Next]_vars => [Taken]_vars
  <2> SUFFICES ASSUME Inv, Exchange, Next, toChild # <<>>, toChild' = Tail(toChild),
                      Head(toChild).body = "Answer"
               PROVE  \E t \in Threads : call[t] = Head(toChild).id /\ call'[t] = 0
    OBVIOUS
  <2>1. call[Main] # 0 /\ Head(toChild).id = call[Main] /\ at \in PluginCode
    BY AnswerFirst DEF Exchange
  <2>2. toChild' # toChild /\ \A f : toChild' # Append(toChild, f)
    BY Shorter DEF Inv, TypeOK
  <2>3. ~Serve /\ ~WriteResponse /\ ~PluginReturn
    BY <2>1 DEF Serve, Hello, Load, Enable, Invoke, Disable, Shutdown, Receive, ServeFails, ServeEof,
        Serving, PluginCode, WriteResponse, PluginReturn, InitializeReturn, ShutdownReturn,
        ForcedReturn, InvokeReturn, Returning
  <2>4. ~ServeLock /\ ~BridgeLock(Main) /\ \A fits \in BOOLEAN : ~BridgeWrite(Main, fits)
    BY <2>2 DEF ServeLock, BridgeWrite, BridgeLock
  <2>5. ASSUME ParentRead \/ (\E c \in Commands : ParentSend(c)) \/ (\E cut \in BOOLEAN : ParentCloses(cut))
        PROVE  FALSE
    <3>1. toChild' = toChild \/ \E f : toChild' = Append(toChild, f)
      BY <2>5 DEF ParentRead, ParentSend, ParentCloses
    <3> QED
      BY <2>2, <3>1
  <2>6. BridgeRead(Main)
    BY <2>3, <2>4, <2>5 DEF Next, Threads
  <2> QED
    BY <2>1, <2>6 DEF BridgeRead, Inv, TypeOK, Threads
<1> QED
  BY <1>1, Invariant, Exchanges, PTL DEF Spec, AnswersReachTheirCalls
=============================================================================
