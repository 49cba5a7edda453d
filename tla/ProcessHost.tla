----------------------------- MODULE ProcessHost -----------------------------
(***************************************************************************)
(* The isolated process (hmcl-rust-host-process): a serve loop that reads  *)
(* one command frame at a time from the launcher and answers it, and the   *)
(* ProcessBridge through which the payload calls the launcher over the     *)
(* same two pipes, from inside a command.  The parent is the launcher's    *)
(* session as tests/stdio.rs plays it: it sends one command at a time and  *)
(* answers the callbacks that arrive while it waits for the response.      *)
(*                                                                         *)
(* The mutex of the writer is held for the write of one frame only, so a   *)
(* frame written is one action.  The mutex of the reader is held by a      *)
(* thread that blocks in read_frame().                                     *)
(***************************************************************************)
EXTENDS Naturals, Sequences

CONSTANTS
    Main,          \* the thread of the serve loop
    Workers,       \* threads the payload started
    MaxCallId,     \* i64::MAX of the callback request ids; u64::MAX is 2 * MaxCallId + 1
    MaxRequestId,  \* bound: the last command the parent sends
    Loop,          \* serve() as the holder of the reader's mutex
    None

Threads == {Main} \cup Workers

ASSUME ProcessAssumption ==
    /\ Main \notin Workers /\ Loop # None /\ {Loop, None} \cap Threads = {}
    /\ MaxCallId \in Nat /\ MaxCallId % 2 = 1 /\ MaxRequestId \in Nat

VARIABLES
    server,         \* Server.state
    payload,        \* EmbeddedPayload.state, "Absent" before it is loaded
    at,             \* where Main is; in PluginCode it is inside the payload
    request,        \* the id of the command being handled
    response,       \* the body of its response
    exit,           \* how serve() returns
    call,           \* the id of the bridge call each thread is in, 0 if none
    reader,         \* who holds the reader's mutex: serve(), or a thread's call
    nextCallbackId, \* ProcessBridge.next_callback_id
    toChild,        \* frames written to the child and not yet read
    toParent,       \* frames written by the child and not yet read
    open,           \* the parent has not closed the pipes
    awaited,        \* the command id the parent waits for, 0 if none
    nextRequestId   \* the parent's next command id

child == <<server, payload, at, request, response, exit>>
bridge == <<call, reader, nextCallbackId>>
parent == <<open, awaited, nextRequestId>>
vars == <<server, payload, at, request, response, exit, call, reader,
          nextCallbackId, toChild, toParent, open, awaited, nextRequestId>>

Commands == {"Hello", "Load", "Enable", "Invoke", "Disable", "Shutdown"}
Responses == {"Ok", "Error", "TooLarge"}
PluginCode == {"initialize", "invoke", "shutdown", "forced"}
Initialized == {"Enabled", "Disabled"}

\* The ids of commands and their responses, and those of calls and answers.
CommandIds == {n \in Nat : n % 2 = 1}
CallIds == {n \in 1..MaxCallId : n % 2 = 0}
\* The values of the counter, a u64 that goes up by two.
Counts == {n \in 0..(2 * MaxCallId + 1) : n % 2 = 0}

\* "Cut" is a frame the parent did not finish before it closed the pipe.
ToChildFrames ==
    [id : CommandIds, body : Commands] \cup [id : CallIds, body : {"Answer"}]
        \cup [id : {0}, body : {"Cut"}]
ToParentFrames == [id : CommandIds, body : {"Ok", "Error"}] \cup [id : CallIds, body : {"Call"}]

TypeOK ==
    /\ server \in {"AwaitHello", "AwaitLoad", "Loaded", "Closed"}
    /\ payload \in {"Absent", "Loaded", "ShutdownFailed", "Shutdown"} \cup Initialized
    /\ server \in {"Loaded", "Closed"} <=> payload # "Absent"
    /\ at \in PluginCode \cup {"serve", "respond", "exited"}
    /\ request \in CommandIds \cup {0}
    /\ response \in Responses
    /\ exit \in {"running", "clean", "failed"}
    /\ call \in [Threads -> CallIds \cup {0}]
    /\ reader \in Threads \cup {Loop, None}
    /\ nextCallbackId \in Counts
    /\ toChild \in Seq(ToChildFrames)
    /\ toParent \in Seq(ToParentFrames)
    /\ open \in BOOLEAN
    /\ awaited \in 0..MaxRequestId
    /\ nextRequestId \in CommandIds /\ nextRequestId <= MaxRequestId + 2

Init ==
    /\ server = "AwaitHello"
    /\ payload = "Absent"
    /\ at = "serve"
    /\ request = 0
    /\ response = "Ok"
    /\ exit = "running"
    /\ call = [t \in Threads |-> 0]
    /\ reader = None
    /\ nextCallbackId = 2
    /\ toChild = <<>>
    /\ toParent = <<>>
    /\ open = TRUE
    /\ awaited = 0
    /\ nextRequestId = 1

-----------------------------------------------------------------------------
(* How serve() ends.                                                       *)

\* Mutant: the engine is not dropped when serve() returns.
EndWithoutClose(how) ==
    /\ exit' = how
    /\ at' = "exited"
    /\ UNCHANGED payload

\* Mutant: close() shuts the payload down whatever its state.
EndByShutdown(how) ==
    /\ exit' = how
    /\ IF payload # "Absent"
         THEN at' = "forced" /\ UNCHANGED payload
         ELSE at' = "exited" /\ UNCHANGED payload

\* Server::close_on_eof, or the drop of the Server after an error: both close
\* the engine (EmbeddedPayload::force_shutdown), if there is one.
End(how) ==
    /\ exit' = how
    /\ IF payload \in Initialized
         THEN at' = "forced" /\ UNCHANGED payload
         ELSE /\ at' = "exited"
              /\ payload' = IF payload = "Absent" THEN "Absent" ELSE "Shutdown"

ForcedReturn(ok) ==
    /\ at = "forced" /\ call[Main] = 0
    /\ at' = "exited"
    /\ payload' = IF ok THEN "Shutdown" ELSE "ShutdownFailed"
    /\ UNCHANGED <<server, request, response, exit, bridge, toChild, toParent, parent>>

-----------------------------------------------------------------------------
(* The serve loop.                                                         *)

\* serve() takes the reader's mutex and keeps it until a frame has arrived.
ServeLock ==
    /\ at = "serve" /\ reader = None
    /\ reader' = Loop
    /\ UNCHANGED <<child, call, nextCallbackId, toChild, toParent, parent>>

Serving == at = "serve" /\ reader = Loop

\* Mutant: the guard of the reader outlives the read.
ConsumeLocked == toChild' = Tail(toChild) /\ UNCHANGED reader

\* A frame has been read and the reader's mutex is released.
Consume == toChild' = Tail(toChild) /\ reader' = None

\* A command is read, and `request_id` kept for its response.
Receive(command) ==
    /\ Serving
    /\ toChild # <<>> /\ Head(toChild).body = command
    /\ Consume
    /\ request' = Head(toChild).id
    /\ UNCHANGED <<exit, call, nextCallbackId, toParent, parent>>

Respond(body) == at' = "respond" /\ response' = body
Enter(code) == at' = code /\ UNCHANGED <<server, payload, response>>

Hello ==
    /\ Receive("Hello")
    /\ IF server = "AwaitHello"
         THEN server' = "AwaitLoad" /\ Respond("Ok")
         ELSE UNCHANGED server /\ Respond("Error")
    /\ UNCHANGED payload

\* The library may be missing or incompatible; then load may be tried again.
Load(ok) ==
    /\ Receive("Load")
    /\ IF server = "AwaitLoad" /\ ok
         THEN server' = "Loaded" /\ payload' = "Loaded" /\ Respond("Ok")
         ELSE UNCHANGED <<server, payload>> /\ Respond("Error")

\* Engine::enable_payload.  Without a payload Server::loaded is an error.
Enable ==
    /\ Receive("Enable")
    /\ CASE payload = "Loaded" -> Enter("initialize")
         [] payload \in Initialized ->
              payload' = "Enabled" /\ Respond("Ok") /\ UNCHANGED server
         [] OTHER -> Respond("Error") /\ UNCHANGED <<server, payload>>

\* Engine::invoke_payload.
Invoke ==
    /\ Receive("Invoke")
    /\ IF payload = "Enabled"
         THEN Enter("invoke")
         ELSE Respond("Error") /\ UNCHANGED <<server, payload>>

\* Engine::disable_payload.
Disable ==
    /\ Receive("Disable")
    /\ IF payload \in Initialized
         THEN payload' = "Disabled" /\ Respond("Ok")
         ELSE UNCHANGED payload /\ Respond("Error")
    /\ UNCHANGED server

\* Engine::unload_payload: refused while enabled; after a failed shutdown the
\* plugin is not called again.
Shutdown ==
    /\ Receive("Shutdown")
    /\ CASE payload = "Disabled" -> Enter("shutdown")
         [] payload \in {"Loaded", "ShutdownFailed"} ->
              server' = "Closed" /\ payload' = "Shutdown" /\ Respond("Ok")
         [] OTHER -> Respond("Error") /\ UNCHANGED <<server, payload>>

\* An answer with no bridge call to take it, or half a frame, is fatal.
ServeFails ==
    /\ Serving
    /\ toChild # <<>> /\ Head(toChild).body \in {"Answer", "Cut"}
    /\ Consume
    /\ End("failed")
    /\ UNCHANGED <<server, request, response, call, nextCallbackId, toParent, parent>>

ServeEof ==
    /\ Serving
    /\ toChild = <<>> /\ ~open
    /\ reader' = None
    /\ End("clean")
    /\ UNCHANGED <<server, request, response, call, nextCallbackId, toChild, toParent, parent>>

\* Plugin code returns; it holds no bridge call then.  The output of an
\* invocation may not fit into a frame.
Returning(code) ==
    /\ at = code /\ call[Main] = 0
    /\ UNCHANGED <<request, exit, bridge, toChild, toParent, parent>>

InitializeReturn(ok) ==
    /\ Returning("initialize")
    /\ payload' = IF ok THEN "Enabled" ELSE payload
    /\ Respond(IF ok THEN "Ok" ELSE "Error")
    /\ UNCHANGED server

InvokeReturn(body) ==
    /\ Returning("invoke")
    /\ Respond(body)
    /\ UNCHANGED <<server, payload>>

ShutdownReturn(ok) ==
    /\ Returning("shutdown")
    /\ payload' = IF ok THEN "Shutdown" ELSE "ShutdownFailed"
    /\ server' = IF ok THEN "Closed" ELSE server
    /\ Respond(IF ok THEN "Ok" ELSE "Error")

\* The response is written.  Only a successful shutdown has left the server
\* closed; then serve() returns, as it does when the write fails.
WriteResponse ==
    /\ at = "respond"
    /\ IF open /\ response # "TooLarge"
         THEN /\ toParent' = Append(toParent, [id |-> request, body |-> response])
              /\ IF server = "Closed"
                   THEN End("clean")
                   ELSE at' = "serve" /\ UNCHANGED <<payload, exit>>
         ELSE End("failed") /\ UNCHANGED toParent
    /\ UNCHANGED <<server, request, response, bridge, toChild, parent>>

-----------------------------------------------------------------------------
(* ProcessBridge::call.                                                    *)

\* Plugin code runs on the serve thread during a command, and on threads of
\* its own while it is initialized.
InPlugin(t) ==
    /\ call[t] = 0
    /\ IF t = Main THEN at \in PluginCode ELSE payload \in Initialized

\* fetch_add(2), whether the call is refused or not; a u64 wraps around.
SpendId == nextCallbackId' = (nextCallbackId + 2) % (2 * (MaxCallId + 1))

\* Mutant: neither call() nor Message::new checks that there are identifiers left.
BridgeWriteUnchecked(t, fits) ==
    /\ InPlugin(t)
    /\ SpendId
    /\ IF fits /\ open
         THEN /\ toParent' = Append(toParent, [id |-> nextCallbackId, body |-> "Call"])
              /\ call' = [call EXCEPT ![t] = nextCallbackId]
         ELSE UNCHANGED <<toParent, call>>
    /\ UNCHANGED <<child, reader, toChild, parent>>

\* The request is written.  The call fails at once if the identifiers have run
\* out, if its message is refused (Message::new) or does not fit a frame, or if
\* the pipe is closed; its identifier is spent all the same.
BridgeWrite(t, fits) ==
    /\ InPlugin(t)
    /\ SpendId
    /\ IF nextCallbackId \in 1..MaxCallId /\ fits /\ open
         THEN /\ toParent' = Append(toParent, [id |-> nextCallbackId, body |-> "Call"])
              /\ call' = [call EXCEPT ![t] = nextCallbackId]
         ELSE UNCHANGED <<toParent, call>>
    /\ UNCHANGED <<child, reader, toChild, parent>>

BridgeLock(t) ==
    /\ call[t] # 0 /\ reader = None
    /\ reader' = t
    /\ UNCHANGED <<child, call, nextCallbackId, toChild, toParent, parent>>

\* Mutant: the caller does not wait for its answer.
BridgeReadGivesUp(t) ==
    /\ call[t] # 0 /\ reader = t
    /\ reader' = None
    /\ call' = [call EXCEPT ![t] = 0]
    /\ UNCHANGED <<child, nextCallbackId, toChild, toParent, parent>>

\* The call takes the next frame, whatever it is, and fails unless it carries
\* the call's own id; at the end of the stream it fails without one.
BridgeRead(t) ==
    /\ call[t] # 0 /\ reader = t
    /\ IF toChild = <<>>
         THEN ~open /\ reader' = None /\ UNCHANGED toChild
         ELSE Consume
    /\ call' = [call EXCEPT ![t] = 0]
    /\ UNCHANGED <<child, nextCallbackId, toParent, parent>>

-----------------------------------------------------------------------------
(* The parent.                                                             *)

ParentSend(command) ==
    /\ open /\ awaited = 0
    /\ nextRequestId <= MaxRequestId
    /\ toChild' = Append(toChild, [id |-> nextRequestId, body |-> command])
    /\ awaited' = nextRequestId
    /\ nextRequestId' = nextRequestId + 2
    /\ UNCHANGED <<child, bridge, toParent, open>>

\* While it waits the parent serves callbacks and accepts its response.
ParentRead ==
    /\ open /\ awaited # 0 /\ toParent # <<>>
    /\ toParent' = Tail(toParent)
    /\ LET frame == Head(toParent) IN
        IF frame.body = "Call"
          THEN /\ toChild' = Append(toChild, [id |-> frame.id, body |-> "Answer"])
               /\ UNCHANGED awaited
          ELSE /\ frame.id = awaited
               /\ awaited' = 0
               /\ UNCHANGED toChild
    /\ UNCHANGED <<child, bridge, open, nextRequestId>>

\* At any moment the parent may close the pipes: its user quits, a deadline
\* passes, it crashes, perhaps in the middle of a frame; or it finds the child
\* gone.
ParentCloses(cut) ==
    /\ open
    /\ open' = FALSE
    /\ awaited' = 0
    /\ toChild' = IF cut THEN Append(toChild, [id |-> 0, body |-> "Cut"]) ELSE toChild
    /\ UNCHANGED <<child, bridge, toParent, nextRequestId>>

-----------------------------------------------------------------------------

\* The commands and the end of the stream, as the serve loop finds them.
Serve ==
    \/ Hello \/ Enable \/ Invoke \/ Disable \/ Shutdown
    \/ \E ok \in BOOLEAN : Load(ok)
    \/ ServeFails \/ ServeEof

PluginReturn ==
    \/ \E ok \in BOOLEAN :
        InitializeReturn(ok) \/ ShutdownReturn(ok) \/ ForcedReturn(ok)
    \/ \E body \in Responses : InvokeReturn(body)

Next ==
    \/ ServeLock \/ Serve \/ WriteResponse \/ PluginReturn
    \/ \E t \in Threads :
        /\ at # "exited"
        /\ BridgeLock(t) \/ BridgeRead(t) \/ \E fits \in BOOLEAN : BridgeWrite(t, fits)
    \/ \E command \in Commands : ParentSend(command)
    \/ ParentRead
    \/ \E cut \in BOOLEAN : ParentCloses(cut)

Spec == Init /\ [][Next]_vars

\* The child's threads are scheduled, plugin code does not call the launcher
\* for ever, and a parent that waits reads what arrives, or learns that the
\* child is gone.  Nothing obliges it to send a command or to close.
Fairness ==
    /\ WF_vars(ServeLock) /\ WF_vars(Serve) /\ WF_vars(WriteResponse)
    /\ SF_vars(PluginReturn)
    /\ \A t \in Threads : WF_vars(BridgeLock(t)) /\ WF_vars(BridgeRead(t))
    /\ WF_vars(ParentRead)
    /\ WF_vars(at = "exited" /\ toParent = <<>> /\ awaited # 0 /\ ParentCloses(FALSE))

FairSpec == Spec /\ Fairness

-----------------------------------------------------------------------------
(* Properties.                                                             *)

\* Every answer the parent writes is read by the bridge call it answers, and
\* by nobody else: not by another thread's call, not by the serve loop.
AnswersReachTheirCalls ==
    [][toChild # <<>> /\ toChild' = Tail(toChild) /\ Head(toChild).body = "Answer"
        => \E t \in Threads : call[t] = Head(toChild).id /\ call'[t] = 0]_vars

\* With a parent that keeps to the protocol the serve loop fails only when the
\* pipes were closed under it or a result did not fit a frame, and the parent
\* never reads a response to anything but the command it waits for.
ProtocolIsKept ==
    /\ exit = "failed" => ~open \/ response = "TooLarge"
    /\ open /\ toParent # <<>> /\ Head(toParent).body # "Call" => Head(toParent).id = awaited

\* The two directions never share an identifier ("simultaneous directions cannot
\* collide", the design of the isolated runtime): calls and their answers carry
\* an even one within i64, and nothing else does, also after the counter ran
\* past i64::MAX and came round to zero.
DirectionsNeverCollide ==
    /\ \A i \in DOMAIN toParent : toParent[i].body = "Call" <=> toParent[i].id \in CallIds
    /\ \A i \in DOMAIN toChild : toChild[i].body = "Answer" <=> toChild[i].id \in CallIds

\* "Each side increments its own ID by two and treats exhaustion as a terminal
\* protocol error" (the design): once a call was refused because the identifiers
\* ran out, the loop takes no other command.
OutOfIds == nextCallbackId > MaxCallId + 1 \/ nextCallbackId = 0
ExhaustionIsTerminal == [][OutOfIds => request' = request]_vars

Rest ==
    CASE payload = "Absent" -> "absent"
      [] payload = "Loaded" -> "loaded"
      [] payload = "Enabled" -> "enabled"
      [] payload = "Disabled" -> "disabled"
      [] OTHER -> "ended"
Life ==
    IF at = "initialize" THEN "initializing"
    ELSE IF at = "invoke" THEN "invoking"
    ELSE IF at \in {"shutdown", "forced"} THEN "ending"
    ELSE Rest

Lifecycle == INSTANCE PayloadLifecycle WITH life <- Life

\* Whatever commands arrive, and however serve() ends, the payload sees the life
\* PayloadLifecycle promises.
KeepsLifecycle == Lifecycle!Spec

\* serve() never ends with a payload that was initialized and not shut down: not
\* on an error, not at the end of the stream.  (A kill by the launcher runs no
\* code of the process.)
ShutDownAtExit == at = "exited" => payload \notin Initialized

\* Every command is answered, or the parent has closed the pipes.
CommandsAnswered == awaited # 0 ~> awaited = 0

\* When the parent goes away the process ends, whatever it was doing.
ExitsWithParent == ~open ~> at = "exited"
=============================================================================
