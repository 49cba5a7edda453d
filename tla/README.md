# Aura Rust Runtime Host: a TLA+ verification

The Aura Rust Runtime Host lets the HMCL launcher run plugins written in Rust.
A plugin is a `cdylib` built with the Rust SDK. The launcher's Java process loads
it through JNI (*embedded*), or starts a child process that loads it and talks to
the launcher over two pipes (*isolated*). This directory holds TLA+ models of the
parts of that system in which order, sharing and failure matter, the TLC
configurations that check them, and proofs checked by TLAPS.

Contents

1. [The system](#1-the-system): inventory of components, state and hazards
2. [Modules](#2-modules): which module models what, and how
3. [Runs](#3-runs): what is checked, on which bounds, and what it shows
4. [Fairness](#4-fairness)
5. [Proofs](#5-proofs)
6. [Findings](#6-findings): where the code and its documents disagree
7. [What is not modelled](#7-what-is-not-modelled)
8. [Plan](#8-plan)

Source paths are abbreviated: *SDK* is `crates/hmcl-plugin-sdk/src`, *native* is
`crates/hmcl-rust-host-native/src`, *process* is `crates/hmcl-rust-host-process/src`,
*Java* is `host-plugin/src/main/java/dev/hmclce/runtime/rust`.

## 1. The system

```
 launcher (external: Supervisor, Bridge, sessions of isolated processes)
     |  RuntimeProvider operations                       ^ Bridge calls
     v                                                   |
 Java: RustRuntimeHostPlugin -> RustRuntimeProvider -> RustRuntimeEngine
           embedded |                                 isolated |
     RustNativeEngine + JNI (jni_api.rs, bridge.rs)     child process
                    v                                          v
     native Engine (embedded.rs)  <---- same crate ----  Server (server.rs)
                    |  C ABI (hmcl-runtime-abi)                |
                    v                                          v
     plugin library: SDK entry points, PluginContext, callbacks, handles
```

| Component | State it keeps | Operations |
|---|---|---|
| **Host admission** (SDK `HostState`, `HostLease`) | `active`, `in_flight`, and for each thread a nesting depth per host table | `lease`, drop of a lease, `deactivate` |
| **Plugin session** (SDK `__private`: `PluginRuntime`, `Session`, `InvocationGate`, entry points) | the static session slot, reference count of a session, `accepting` and `in_flight` of its gate | `initialize_inner`, `invoke_inner`, `shutdown_inner` |
| **Callback registry** (SDK `future.rs`) | pending entries by identifier, the next identifier, `closed`; each entry's own state | `pair`, `complete`, `cancel`, drop of a future, `wait`, `close` |
| **Host memory and handles** (SDK `HostBuffer`, `handle.rs`; native `HostCallbacks`) | the host's table of allocations; buffers and object references owned by the plugin; `cleanup_failures` | allocate, release, take output; adopt, retain, drop a handle |
| **Native engine** (native `embedded.rs`: `Engine`, `EmbeddedPayload`) | payloads by id, load order, `closed`; each payload's state behind its own mutex | load, enable, disable, invoke, unload, close |
| **Isolated process** (process `server.rs`: `Server`, `ProcessBridge`) | one payload, a reader and a writer mutex, the next callback id | the serve loop with its six commands, bridge calls |
| **Java engine** (Java `RustRuntimeEngine`, `RustNativeEngine`) | payload routes, payload contexts, session contexts, the native handle, `closed`; two monitors | load, enable, disable, invoke, unload, close, `requireSession` |
| **Provider and Host plugin** (Java `RustRuntimeProvider`, `RustRuntimeHostPlugin`) | registration, engine, `closed` | load with roll-back, close, unload |
| **JNI entry points and Java bridge** (native `jni_api.rs`, `bridge.rs`) | none beyond a handle | conversions between the two engines |
| **ABI** (`hmcl-runtime-abi`, the SDK's entry points, native `load`) | none; two tables filled in once | the query, the checks of either table |
| **Protocol codec** (`hmcl-runtime-protocol`), **value codec** (SDK `value.rs`) | none; a decoder's offset and counters | `to_wire`, `from_wire`, `write_frame`, `read_frame` |
| **Error mapping** (`error.rs` of both crates) | none | conversion of statuses and codes |

### How they interact

* *Calls down.* The launcher calls the Provider, which delegates to the Java
  engine. That engine holds its monitor for the whole operation, takes the
  monitor of the native engine inside it for embedded payloads, and calls through
  JNI. The Rust engine finds the payload under its own mutex, clones its `Arc`,
  releases the engine and locks the payload for the whole plugin callback.
* *Calls up.* Plugin code, on the thread of a callback or on one of its own, calls
  the host through a `PluginContext`. Every such call takes a lease of the
  context. Embedded, it crosses JNI and needs `requireSession`, which takes the
  monitor of the native engine. Isolated, it writes a frame and reads the answer
  from the pipe from which the serve loop also reads its commands.
* *Shutdown.* `shutdown_inner` takes the session out of its slot, waits until no
  invocation is in it, runs the plugin's shutdown, drops the plugin, closes host
  admission, waits until no host call is in progress and closes the callback
  registry. Only then may the host free what the plugin's copied function
  pointers refer to.

### What is hard, and what makes each part correct

* **Host admission.** Many threads take leases, reentrantly, while another closes
  admission and sleeps on a condition variable. Correct if the count is exact, no
  wake-up is lost, nobody new gets in after the close, and after `deactivate()`
  returned no host call runs, ever.
* **Plugin session.** Initialization and shutdown run plugin code without the
  slot's lock, invocations are admitted beside them, and the host may reenter the
  plugin from a host call. Correct if every context lives the life the ABI
  promises, if `Arc::try_unwrap` cannot fail, and if plugin code always finds its
  context active.
* **Callback registry.** Four kinds of calls race to end an entry; there are two
  levels of locks, taken in both directions; identifiers wrap around. Correct if
  an entry ends once and for all, a pending entry can be found by its identifier,
  close leaves none pending, and no call waits for ever.
* **Host memory.** Addresses come back after a release, buffers change their owner
  across the ABI, and handles may be dropped at any time, on any thread, also
  after the shutdown. Correct if each allocation and each reference has exactly
  one owner, and nothing is outstanding once the context is deactivated.
* **Native engine.** Between lookup and lock a payload may be unloaded, or the
  engine closed. Correct if every plugin sees a sequential life with one shutdown
  at most and no two callbacks at a time, in reverse load order when the engine
  closes, and a payload which has left the engine is over.
* **Isolated process.** The parent may vanish in the middle of a frame or of a
  callback; a result may not fit a frame; identifiers run out, and the counter goes on
  to wrap around; plugin threads call
  the launcher while the serve loop waits for a command. Correct if answers reach
  the call they answer, every command is answered, and the process never exits
  with a payload that was initialized and not shut down.
* **Java engine, Provider, Host plugin.** Each step of a load, of an unload or of
  the Host's removal may fail; three Java maps and one Rust map have to agree; two
  threads may close at once. Correct if the routes agree between operations, a
  Bridge call finds its session, unload means that everything was closed, and
  every operation ends.

* **ABI and codecs.** What arrives was made by another program, and may be cut,
  damaged or ordered another way. The limits are kept by the encoder and by the
  decoder, each for itself, and the host's table is checked by three pieces of
  code. Correct if the two directions accept the same values and bytes, nothing is
  read past an end or passed over, a refused frame leaves nothing in the stream,
  and the checks agree.

`PROJECT.json` lists the hazards one by one, each at its line, with the properties
that would catch it.

## 2. Modules

```
              PluginSessionProofs
                            v
SessionContract <---- PluginSession ----> HostAdmission <---- HostAdmissionProofs
                            :                  :
                            :           HostResources (uses leases)
                            :                  ^---- HostResourcesProofs
                      CallbackRegistry (closed by the shutdown)
                            ^---- CallbackRegistryProofs

PayloadLifecycle <--- EmbeddedEngine <---- EmbeddedEngineProofs
                <--- ProcessHost <---- ProcessHostProofs
                          :
                          :        RuntimeEngine (Java over Rust) <---- RuntimeEngineProofs
                          :
BridgeValue .... RuntimeProtocol .... ForeignInput .... AbiNegotiation
                                           ^---- ForeignInputProofs
```

An arrow points from a detailed module to what it implements, or from proofs to
what they are about; dots mark use without a formal link. `MC*.tla` with its `.cfg` instantiates a module for TLC.

| Module | Models | State and actions |
|---|---|---|
| `HostAdmission` | `HostState` | `active`, `inFlight` and `depth` are `HostAdmission.active`, `.in_flight` and `HOST_LEASE_DEPTHS`; `drain` is where a thread is in `deactivate()`. `Lease`, `DropLease`, `Deactivate`, `Recheck` are the critical sections of the `admission` mutex; `SpuriousWake` is the condition variable's right |
| `SessionContract` | *abstract*: the life of a context as the ABI states it | `phase`, `busy`, `calls`: invocations in an open session only, shutdown after the last of them and alone, no host call after the end |
| `PluginSession` | the entry points, the slot and the gate | each thread has a stack of frames (step, context). `InitializeBegin/Ok/Fails/Install`, `InvokeBegin/Return/Leave`, `ShutdownBegin/AwaitInvocations/Unwrap/Return/DropReturn/Deactivate/Recheck/CloseCallbacks` are the critical sections and the returns of plugin code; `HostCall/HostReturn` are host calls, from which the host may reenter |
| `CallbackRegistry` | `future.rs` | one action per critical section of the registry's lock; a thread at "completing" holds an entry's lock. `wins` counts the calls that were told they ended an entry |
| `HostResources` | `HostBuffer`, `ObjectHandle`, `HostCallbacks` | `table` and `held` are the host's allocations and the descriptors plugin threads own; `wrappers`, `loose`, `refs` are live handles, references not adopted yet and what the launcher counts. A thread moves through the steps of a host call, under a lease |
| `PayloadLifecycle` | *abstract*: what a payload library may count on | one variable `life`: callbacks one after another, initialized at most once, shut down at most once, nothing afterwards |
| `EmbeddedEngine` | `Engine` and `EmbeddedPayload` | `registered`, `loadOrder`, `closed`, `state`; `Lookup` takes the `Arc`, later steps lock the payload and call the plugin; `CloseBegin` takes the list of payloads and `ForceShutdown` works through it. `HostCall` leaves the plugin for the host with the payload's mutex still held (`outer`), and the thread may begin another operation there |
| `ProcessHost` | `Server`, `ProcessBridge`, and the parent as the tests play it | `toChild`, `toParent` are the pipes, `reader` the holder of the reader mutex; `ServeLock/Serve/WriteResponse/PluginReturn` are the loop, `BridgeWrite/BridgeLock/BridgeRead` a bridge call (`BridgeWrite` spends an identifier also when it is refused), `ParentSend/Read/Closes` the launcher |
| `BridgeValue` | `value.rs` | operators without state: `PutAt` is `Encoder::value`, `GetAt` is `Decoder::value`, by the number of levels that may still be entered, with a record for the encoder or the decoder that every helper passes on |
| `RuntimeProtocol` | `hmcl-runtime-protocol` | `Schema` has the fields of the fourteen kinds of message and the constraint on each; `ToValue`, `FromValue`, `WriteFrame`, `ReadFrame` translate them, and `ReadAll` is a loop over `read_frame` |
| `AbiNegotiation` | the query, `query_inner`, `initialize_inner` up to its copy of the table, `from_raw`, `EmbeddedPayload::load` | operators on tables: where the pointer leads, size, version, slots |
| `ForeignInput` | what the other side may hand over | a value, a stream of frames or a pair of tables, as this repository makes it; `Cut`, `Damage` and `OtherTables` are what becomes of it |
| `RuntimeEngine` | Host plugin, Provider, both Java engines, the JNI steps | one thread at a time is in an operation (the outer monitor); each operation is split where plugin code runs, and `Bridge` steps of plugin threads interleave there. `HostLoad` after an unload begins with a new engine and a new Provider. Payload ids ascend in load order, so a set of ids is a list in that order |

Conventions. A definition that models code is named after it where TLA+ allows
and is mapped to its lines in `PROJECT.json`. Definitions commented `Mutant:` are
altered forms of an action, the way a plausible bug would alter it; they take part
in no specification and exist to show that a property can be violated: for each
property of each passing run one of them, put in the place of its original, makes
TLC report that property.

### Abstractions a reader should know

* `HostAdmission.Deactivate`: the caller holds no lease. The ABI obliges the host
  to have left its reentrant calls before it calls shutdown.
* `PluginSession`: a panic is caught at the ABI boundary and unwinds through the
  same `Drop` implementations, so it takes the path of an error.
* `CallbackRegistry`: the branch of `complete()` in which its weak reference to the
  registry cannot be upgraded has no reachable state (a pending entry has a living
  future, which owns the registry) and is left out.
* `HostResources`: a lease is only "this thread is between these steps", because
  `HostAdmission` models the rest. The host here writes valid descriptors only, so
  the SDK's paths for a malformed descriptor are not reached. What the Bridge
  answers is its own choice.
* `EmbeddedEngine`: `dlopen` and the query are one step of `LoadPayload`, which
  succeeds or leaves everything as it was. Host calls that lead to other operations
  are made from inside `invoke`, one level deep, and `Reenters` says which payload's
  calls may lead to which. They do not lead to `load_payload` or `close`.
* `BridgeValue`, `RuntimeProtocol`: bytes are bytes, but every length, integer and
  double takes one byte instead of four or eight, a frame's header two instead of
  four (it can still be cut in the middle), and the names of kinds and fields one
  each. Text is ASCII; a byte from 128 on stands for what is not UTF-8. The limits
  are constants, small enough for values on both sides of each.
* `AbiNegotiation`: a callback slot is null or not, a pointer null, misaligned or
  good. What a slot leads to is `PluginSession`'s subject.
* `ProcessHost`: frames are records. A frame cut short by a vanishing parent and a
  result that is too large for a frame are the two codec failures that matter to
  the loop. The parent sends one command at a time. `fits` of `BridgeWrite` stands for
  whatever else can refuse a call before it is written (`Message::new`, a frame too
  long); identifiers are issued as `fetch_add` issues them, with `MaxCallId` for
  `i64::MAX` and a wrap-around at `2 * (MaxCallId + 1)` for that of a `u64`. That the
  launcher kills the process is outside the model: none of its code runs then.
* `RuntimeEngine`: a thread in a Bridge call starts no other operation; bridge
  calls on the thread that runs the plugin are reentrant in its monitor and change
  nothing here.

## 3. Runs

Each run finishes within a minute on two cores. State counts are distinct states,
after symmetry reduction where the configuration declares it (threads, addresses,
objects and callers are interchangeable; no liveness run uses symmetry).
Deadlock is not an error in any of them: every component may come to rest, when
the plugin, the host or the parent asks for nothing more. That nobody rests while
somebody waits is what the liveness properties say. Where the type invariant of a
module is proved (section 5) the runs leave it out, unless it also bounds counters
(`plugin_session`).

| Run | Bounds | States | Shows |
|---|---|---|---|
| `host_admission` | 3 threads, nesting 3, counter limit 6 | 193 | `CountIsExact`, `QuiescentForever`, `NoLostWakeup`, `OnlyReentryAfterClose`; `DeactivateReturns` under fairness |
| `plugin_session` | 2 host threads with stacks of 3, 2 plugin threads with one host call each, 2 contexts | 8,196 | `UnwrapSucceeds`, `PluginCodeFindsHostOpen`; every context implements `SessionContract` (`KeepsContract`) and its host side implements `HostAdmission` (`RefinesAdmission`); `EndsOnceClosing` under fairness |
| `callback_registry` | 3 threads, 3 entries, 2 pending at most, 2 identifiers | 254,714 | `OneWinner`, `ResultIsFinal`, `PendingIsRegistered`, `NothingPendingAfterClose`; `WaitsEnd`, `CallsReturn` under fairness |
| `host_resources` | 3 threads, 2 addresses, 2 objects, 2 references each, 1 counted failure | 34,475 | `BuffersHaveOneOwner`, `NothingOutstanding`, `ReferencesBalance` |
| `embedded_engine` | 3 threads, 2 payloads, host calls of the first lead to the second | 127,886 | `ReverseLoadOrder`, `OverOnceRemoved`, `OneCallAtATime`; every payload lives a `PayloadLifecycle` (`LivesAreSequential`); `QuietAfterClose` under fairness |
| `embedded_reentry` | 1 thread, 1 payload whose host calls lead back to it | violated | `ReentryReturns`: finding 3 |
| `process_host` | plugin without threads of its own, 9 commands (odd ids up to 17), any number of bridge calls (even ids up to 4, and a counter that wraps at 12) | 17,530 | `DirectionsNeverCollide`, `ProtocolIsKept`, `ShutDownAtExit`, `AnswersReachTheirCalls`, `KeepsLifecycle`, `CommandsAnswered`, `ExitsWithParent` |
| `process_host_threads` | one plugin thread | violated | `AnswersReachTheirCalls`: finding 1 |
| `process_host_exhaustion` | plugin without threads of its own, ids up to 3 | violated | `ExhaustionIsTerminal`: finding 4 |
| `runtime_engine` | 2 launcher threads, 1 plugin thread, 2 payloads | 52,640 | `BridgeFindsItsSession`, `RoutesAgree`, `UnloadMeansClosed`; `OnlyDrainsBlock` under fairness |
| `runtime_engine_threads` | 1 launcher thread, 1 plugin thread, 1 payload | violated | `OperationsEnd`: finding 2 |
| `foreign_input` | 28 values at and beyond the limits, 20 streams with a message of every kind, each cut at every byte or with up to 2 bytes replaced by one of 25 patches; tables of 7 sizes and 3 versions | 143,026 | `ValuesAreCanonical`, `StreamKeepsMessages`, `FramesAreExact`, `TableChecksAgree` |

Why these bounds are enough to meet the interesting cases:

* *Three threads* are one that waits (a shutdown, a `wait()`, a close), one that it
  waits for, and a third that arrives in between. With two, a lease that another
  thread's lease lets in could not be told from reentry.
* *A counter limit below threads times nesting* (6 against 9) makes the overflow of
  `in_flight` happen, and a registry with room for 2 of 3 entries and 2 identifiers
  makes it fill up and wrap around into live entries.
* *Two contexts* are a session that drains while its successor is initialized, the
  only overlap the single slot allows. *A stack of 3* is an invocation, a host call
  of it, and an invocation the host makes from there. A plugin thread makes one
  host call (`MaxWorkerStack`), which is all it takes for a shutdown to wait for.
* *Two payloads* give the close of either engine an order. In the Java engine each is
  embedded or isolated, and one can be over while the other is closed; what is proved
  (section 5) holds for any number.
* *Two addresses for three threads* make an address come back to another owner at
  once. Sizes are 0 and 1: nothing tells positive sizes apart, and zero is the
  size for which nothing is allocated.
* *Values at the limits*: each limit of `value.rs` has a value that just keeps it and
  one that just does not, and two messages are too long, one for a frame and one
  for the content of a value. *A patch* is a marker, a tag, a length, another
  field's or kind's name, or a whole field nobody asked for; two bytes replaced by a
  patch turn one value into another, cut an entry off or add one. *Sizes* of tables
  are those around each of 4, 8, 40 and 64 bytes.
* *Nine commands* let the parent run through the life of the payload (hello, load,
  enable, invoke, disable, shutdown) and repeat commands in the wrong states. *Two
  callback ids* run out during that, and since a refused call still moves the counter,
  it comes round and they are issued again.

## 4. Fairness

Each liveness run assumes that threads are scheduled and that the code on either
side of the ABI returns; none assumes that anybody asks for anything.

* `HostAdmission`: a woken thread runs (weak), and host calls return at each depth
  (strong: a thread may make other nested calls in between, but not for ever).
* `PluginSession`: every frame's step is taken (strong per depth, for the same
  reason). The host need not call, nor the plugin.
* `CallbackRegistry`: steps inside a call are taken and mutexes granted. Nobody is
  obliged to complete, cancel or close: `WaitsEnd` is about what close does.
* `EmbeddedEngine`: steps inside an operation; a plugin's `invoke` returns (strong, as
  it may call the host in between). `std::sync::Mutex` is not fair; no fairness is
  needed, since a closed engine admits nothing new. `ReentryReturns` is refuted under
  the same fairness: no step of anybody frees the mutex.
* `ProcessHost`: the loop and the bridge calls run, plugin code returns (strong,
  as it may call the launcher in between). A parent that waits for a response
  reads, and learns when the child is gone; it need not send nor close.
* `RuntimeEngine`: an operation under way proceeds and Bridge calls return. Java
  monitors are not fair, so nothing is assumed of a caller that waits to begin, and
  `OperationsEnd` and `OnlyDrainsBlock` speak of operations that have begun. A plugin
  thread that wants the monitor gets it (strong) if it is free again and again. A drain
  that waits for a plugin thread which waits for the monitor has no such step;
  `OnlyDrainsBlock` says that it is the only way for an operation not to end.

## 5. Proofs

`HostAdmissionProofs` proves for every finite set of threads, every nesting bound
and every width of the counter (`ThreadsAssumption`, `MaxDepthAssumption`,
`MaxInFlightAssumption` are all it assumes):

| Theorem | Establishes |
|---|---|
| `TypeCorrect` | `TypeOK`: above all, `in_flight` neither overflows nor falls below zero |
| `CountExact` | `CountIsExact`: the counter is the number of live leases |
| `Quiescence` | `QuiescentForever`: after `deactivate()` no thread is in a host call, for good |
| `WakeupNotLost` | `NoLostWakeup`: whoever sleeps in `deactivate()` has a lease to wake it |
| `ReentryOnly` | `OnlyReentryAfterClose`, an action property |

`TypeOK` is not inductive: that `DropLease` does not take the counter below zero
holds because the counter equals the number of leases, a set whose cardinality
the proof tracks through one more and one less level of nesting
(`DeeperAddsOne`, `ShallowerRemovesOne`). That count is what makes the test for zero
mean "no lease is left", which gives quiescence; that admission was closed before
(`DrainersClosed`) is what keeps it so, because only a thread inside a host call
can then enter another. `IInv` is the conjunction, and the proof that a step
preserves it has one step per action.

`PluginSessionProofs` proves for any finite sets of threads, any contexts and any
depth of the call stacks (`PluginSessionAssumption`):

| Theorem | Establishes |
|---|---|
| `TypeCorrect` | `TypeOK` |
| `ShutdownUnwraps` | `UnwrapSucceeds`: once the gate has drained no clone of the session is left |
| `HostOpen` | `PluginCodeFindsHostOpen`: no context is deactivated under the plugin's code |
| `Refines` | `KeepsContract`: every context lives by `SessionContract` |
| `Admits` | `RefinesAdmission`: the host side of every context implements `HostAdmission` |

`Admits` carries what is proved of `HostAdmission` over to the entry points, for any
number of them at once. The three counters of a context (clones of the session,
invocations in the gate, leases of the host) are the cardinalities of sets of
frames of the call stacks (`Counts`), and the first part of the module says once
what each operation on the stacks does to such a set. Then a context has one owner,
the slot or one thread (`Owned`), which is what makes a shutdown the only one;
invocations are under way only in an open session or in one whose shutdown waits
for them (`Entered`); and after the deactivation only host calls are left (`Shut`,
`Drains`, `Over`). `Inv` is the conjunction of these for every context. `Admits`
needs besides that an owner's frame is at the bottom of its stack and that above it
there are only plugin code and host calls (`Nesting`): that is why a thread that
deactivates a context has no lease of it.

`CallbackRegistryProofs` proves for any threads, entries, capacity and range of
identifiers (`RegistryAssumption`: the capacity is at most the range, `None` is no
entry):

| Theorem | Establishes |
|---|---|
| `TypeCorrect` | `TypeOK`: identifiers stay in `1..MaxId`, zero is never handed out |
| `AtMostOneWinner` | `OneWinner`: at most one call is told that it ended an entry |
| `PendingFound` | `PendingIsRegistered`: a live entry is never displaced by a later one |
| `CloseEndsAll` | `NothingPendingAfterClose` |
| `ResultsAreFinal` | `ResultIsFinal`, an action property |

None of these is inductive. `CallsHoldEntries` says who may still end an entry: a
thread in `complete()` has it pending and locked for itself, a thread in
`remove()` has one that is over, so that what it takes out of the registry is never
a live entry. `Indexed` and `Numbered` tie the map to the identifiers entries
carry; with them `close()` finds every pending entry, `PendingIsDrained` carries
that through the loop that cancels them, and `DrainedByCloser` keeps the closing
thread there until it is done.

`HostResourcesProofs` proves for any finite set of threads and any addresses, sizes,
objects and reference counts (`HostResourcesAssumption`):

| Theorem | Establishes |
|---|---|
| `OneOwner` | `BuffersHaveOneOwner` |
| `NothingLeft` | `NothingOutstanding`: nothing is on its way to the host once `deactivate()` returned |
| `HandlesBalance` | `ReferencesBalance` |
| `TypeCorrect` | `TypeOK` |

Buffers and references have an invariant each, and a step of the one kind is for the
other at most a move. `BufferInv` says at which steps a thread may own a buffer and
that an owner without a lease is the invoker, which is gone before the context is
deactivated. `HandleInv` counts the releases under way with the cardinality of a
set, as the counter of `HostAdmission` is counted.

`EmbeddedEngineProofs` proves for any threads, any number of payloads and any
`Reenters`:

| Theorem | Establishes |
|---|---|
| `TypeCorrect` | `TypeOK` |
| `OverForGood` | `OverOnceRemoved` |
| `LastLoadedFirst` | `ReverseLoadOrder` |
| `OneAtATime` | `OneCallAtATime`: callbacks of a payload exclude each other, reentry included |
| `SequentialLife` | `LivesAreSequential`: each payload implements `PayloadLifecycle` |

The invariant has seven parts. `Exclusive` is the mutex of a payload, kept through
host calls; `Knows` says that a thread between the two halves of a first enable still
finds what it has read; `Ordered` says that the load order ascends and holds all
that is not over; `OneCloser` that one thread's list of payloads still to be shut
down descends and holds what the load order held. That removing from an ascending
sequence and reversing it do what they should (`WithoutRemoves`, `ReverseDescends`)
is proved once. The step from the invariant to `PayloadLifecycle` maps every action
to a step of the life of one payload and to a stutter of the others. A life in
which callbacks overlap is none of `PayloadLifecycle`'s (`Life`), so that the mapping
rests on `OneCallAtATime`, which follows from `Exclusive`.

`ForeignInputProofs` proves for limits of any size that a length can express
(`CodecAssumption`, `ProtocolAssumption`), any values, any sequences of messages, any
damage and tables of every size and version (`ForeignInputAssumption`):

| Theorem | Establishes |
|---|---|
| `EncodedIsDecoded` | what the encoder makes of a value, the decoder takes whole and for that value |
| `DecodedIsEncoded` | bytes the decoder takes are what the encoder makes of the value it takes them for, within the same limits |
| `NoEncodingStartsAnother` | no encoding is a proper beginning of another one |
| `ValuesAlwaysCanonical` | `ValuesAreCanonical`, in every behaviour |
| `FramesReadExactly`, `FramesAlwaysExact` | `FramesAreExact`: whatever bytes are read as a message, its own frame is as long and is read as the same message |
| `StreamKept`, `StreamsAlwaysKept` | `StreamKeepsMessages`: intact frames are read in order, and a cut stream ends cleanly only between two frames |
| `NothingReadPastTheEnd` | no byte beyond an advertised size is read or written, and a refused query leaves the output alone |
| `ChecksAlwaysAgree`, `TableChecksAlwaysAgree` | `TableChecksAgree`: the three checks of a host table and the engine's load agree |

The two directions of the codec are proved together, along their common structure.
`ContentsRoundTrip`, `RoundTrip` and `ListAgrees` say of a tag, of a value and of a
list that there are bytes which the encoder appends to whatever it has written and
which the decoder reads back whatever follows them, both with the same counters
afterwards; or that both refuse. Each field has two lemmas, one for bytes that were
written (`...All`) and one for bytes that were read (`...Some`). A list is an
induction over its length, and `CodecRoundTrip` an induction over the depth, both
with `SetInduction`, which states induction for a set of numbers; that is why the
recursion of the model is written as recursive functions, whose existence is proved
with the same lemma.

Frames rest on one fact that a test hardly reaches: two values that are read as the
same message take the same room, though the maps in them may list their fields in
different orders, so that `write_frame` refuses a message exactly when a reader would
refuse its frame in every other order (`SameSize`). It is proved from what a value costs in bytes, in
content and in values (`Costs`), which for a map is a sum that does not depend on the
order (`SumInAnyOrder`) as long as the limits are only compared with the totals. The
invariant `StreamIs` is about three parts of a stream: the frames of the accepted
messages are `a` followed by `b`, and what arrives is `a` followed by `c`; a cut leaves
`c` empty, and damage makes it anything. By `FirstFrames` a reader takes the frames
that lie in `a` and then whatever it makes of the rest, and by `FrameCut` it makes no
message of the beginning of a frame. The premises are those of the code: a message
nests two levels deep and its length fits the header (`MAX_FRAME_BYTES` is below
2^32; the model's header has two bytes), and what is written is a `Message`, that is,
typed (`IsTyped`) and validated (`IsMessage`).

`ProcessHostProofs` proves for any range of identifiers (`ProcessAssumption`: the
last one is odd, as `i64::MAX` is):

| Theorem | Establishes |
|---|---|
| `DirectionsApart` | `DirectionsNeverCollide`, for any threads of the payload and however often the counter has come round |
| `ExitsShutDown` | `ShutDownAtExit`, for any threads |
| `OneLife` | `KeepsLifecycle`: the process implements `PayloadLifecycle`, for any threads |
| `ProtocolHolds` | `ProtocolIsKept`, if the payload has no threads of its own |
| `AnswersArrive` | `AnswersReachTheirCalls`, under the same condition |

The first three need only `TypeOK`, which gives each kind of frame its ids, and
`Standing`, which ties where the loop is to the state of the payload and to the id of
the command. The last two rest on `Exchange`: as long as the pipes are open the two
sides hold one thing between them (nothing, a command, the call it is in, a callback
or its answer, a response), and whatever becomes of the pipes, an answer is the first
frame to the child and belongs to the call the command's thread is in. With a second
thread `Exchange` fails, which is finding 1.

`RuntimeEngineProofs` proves for any launcher threads, any plugin threads and any
number of payloads (`RuntimeAssumption`):

| Theorem | Establishes |
|---|---|
| `TypeCorrect` | `TypeOK` |
| `SessionsFound` | `BridgeFindsItsSession` |
| `RoutesAlwaysAgree` | `RoutesAgree` |
| `UnloadCloses` | `UnloadMeansClosed` |

The invariant says what an operation leaves behind for the next (`Open`, `Closed`,
`Routes`, `Kinds`), who is in one (`Exclusive`, the outer monitor) and what that
caller still knows of its payload after plugin code has run (`Knows`). `Calls` is
about the threads beside it: a payload that a plugin thread calls from stays
initialized and registered, because each way to its end goes through `Quiesced`.

Every safety property that a passing run checks is proved. Model-checked only are
the liveness properties (`EndsOnceClosing` and its like), because reasoning about
fairness is out of the prover's reach.

## 6. Findings

Four places where a model follows the code and a property that states its documents
is violated.

1. **Answers to a plugin thread's bridge call can be read by the serve loop**
   (`process_host_threads`, *process* `server.rs:223`). The ABI says that host
   callbacks may be invoked concurrently from multiple threads and that the host
   provides the synchronization (`hmcl-runtime-abi/src/lib.rs:303`).
   `ProcessBridge::call` writes its request first and locks the reader afterwards.
   If a payload's own thread calls while the loop waits for a command, the loop
   reads the answer, finds no command in it and ends the process. Two concurrent
   calls can swap their answers. With payloads that call on the command's thread
   only, the property holds (`process_host`).
2. **Unload and a plugin thread's bridge call wait for each other**
   (`runtime_engine_threads`, *Java* `RustNativeEngine.java:299`).
   `unloadPayload` and `close` keep the monitor of the native engine while native
   shutdown waits for the plugin's host calls; such a call needs the same monitor
   in `requireSession`. The SDK's contract permits concurrent calls through
   shutdown (`hmcl-plugin-sdk/src/lib.rs:39`). Nothing else keeps an operation from
   ending (`OnlyDrainsBlock` in `runtime_engine`); so without plugin threads every
   operation ends.
3. **A host call that leads back to its own payload never returns**
   (`embedded_reentry`, *native* `embedded.rs:119`). The ABI says that plugin
   callbacks "may be reentered through host callbacks"
   (`hmcl-runtime-abi/src/lib.rs:420`). Every operation of the engine keeps the
   mutex of its payload for the whole call into the plugin, and that mutex is not
   reentrant. An operation on the same payload that is reached from a host call made
   inside `invoke` waits for its own thread. Host calls that lead to another
   payload are fine as long as its calls do not lead back (`embedded_engine`).
4. **Exhausted callback ids do not end the process** (`process_host_exhaustion`,
   *process* `server.rs:211`). The design says that each side "treats exhaustion as a
   terminal protocol error"
   (`docs/superpowers/specs/2026-08-27-rust-isolated-runtime-design.md:79`).
   `ProcessBridge::call` takes its id with `fetch_add` before it tests it, and a call
   beyond `i64::MAX` only fails with `InvalidHostResult`. The loop takes the next
   command; each later call is refused too and moves the counter, until it wraps
   around and ids are issued a second time. What the same line promises besides, that
   the directions cannot collide, holds all the same (`DirectionsNeverCollide`).

## 7. What is not modelled

* *Error mapping* (`error.rs` of both crates): stateless and total; the nine codes
  are a constant of `BridgeValue`, and no property tells a status apart from another.
* *JNI glue*: casts of handles, conversion of exceptions and copies of arrays; the
  entry points appear as steps of `RuntimeEngine`.
* *Operations of the Java engine started from inside one of its Bridge calls* (its
  monitors are reentrant). What they meet below, the payload's Rust mutex, is in
  `EmbeddedEngine`, except for loads and closes from inside a host call.
* *Malformed descriptors from a host* (a length above the capacity, a null pointer
  with a length): this repository's host never writes one.
* *Wide numbers*: lengths and integers of the codecs are one byte wide, so an overflow
  of the 32-bit length itself is outside the model.
* *Time*: deadlines of isolated calls are the launcher's.
* *Path validation, packaging, the example plugin*: no state of the running system.

## 8. Plan

Done: the SDK's concurrency (`HostAdmission`, `PluginSession`, `CallbackRegistry`,
`HostResources`), the engines on both sides of JNI, the isolated process, the ABI
query and both codecs, the two abstract contracts, and proofs about every component.

Left: Bridge calls that lead back into the Java engine on the same thread, in
`RuntimeEngine`, with the reentrant monitors.
