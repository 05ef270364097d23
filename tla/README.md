# FrancaIDL-generator-cpp in TLA+

The repository holds a code generator for Franca IDL (`src/src`, `src/include`). Two kinds of
concurrent program come out of it: the runtime of an inter-core message service that is copied
beside the generated code (`src/plugin/com.bst.os.idl/deployment/ipc_gen/ipc.c`), and the
message box clients and servers whose C code the generator holds as templates
(`src/src/msgbox-tools`). This directory models the parts of all of it in which the order of
steps matters, checks them with TLC, and proves some of
the results with TLAPS. Paths below are relative to the repository's root in `src/`.

Contents: [1 The system](#1-the-system), [2 Modules](#2-modules), [3 Runs](#3-runs),
[4 Proofs](#4-proofs), [5 What the models leave out](#5-what-the-models-leave-out),
[6 Plan](#6-plan).

## 1 The system

### 1.1 Components

| Component | Source | State | Operations | Model |
|---|---|---|---|---|
| IPC runtime: calls and receive thread | `plugin/.../ipc_gen/ipc.c`, `ipc.h`, `bstipc.h` | globals without a lock: `wait_token`, `g_recv_msg`, `sem`, callback pointers, `thread_start_flag`; two payload buffers in shared memory | `Sync_Call(_Package)`, `Async_Call(_Package)`, `recv_thread`/`IPC_recv`, `Register_Callback_(Package_)Process` | `IpcCall` |
| IPC runtime: sessions | `ipc.c` | `fd`, `memfd`, `g_session_id`, buffer addresses | `IPC_Register`, `IPC_Unregister`, `Subscribe_Signal`, `Register_Method`, `func_*` | not modelled |
| IPC driver and remote core | not in the repository | message queues, tokens | `IPC_IO_MSG_SEND`, `IPC_IO_MSG_RECV` | external, in `IpcCall` |
| FIDL loading | `src/parser/FidlParser.cpp`, `FidlParserPrivate.cpp`, `parser.y`; `src/model/FModelManager.cpp` | `m_models`, `m_pendingFidls`, `m_processedFidls` (singleton) | `FidlParser::parse`, `addPendingFidl`, `addProcessedFidl`, `clear` | `FidlLoader` |
| FDEPL loading | `src/FDParser/*`, `src/FDModel/FDModelManager.cpp` | pending and processed models (singleton), and FModelManager's pending list | `FDParser::parse`, `addPendingModel`, `addProcessedModel` | `DeplLoader` |
| References between .fidl objects | `src/validator/ReferenceManager.cpp`, lookups of `FModelManager` | eight lists of (user, candidate name, interface) | `getPossibleFQN`, `add...Ref`, `resolveAllRef` | `ReferenceManager` |
| References between .fdepl objects | `src/validator/FDReferenceManager.cpp` | twenty-five lists of (user, name) | `resolveAllRef` | `Deployment` |
| Model validation | `src/validator/ModelValidator.cpp` | none | `validateFDModels` | `Deployment`; `validateFModels` planned |
| Symbol table | `FModelManager::buildSymbolTable`, `findSymbol`, `findElement` | map from names to objects | build, look up | `ModelLookup` |
| Deployment mapper | `src/FDModel/FDMapper.cpp` | map from .fidl objects to deployment elements, per deployment; the elements themselves | `createMapper` | `Deployment` |
| Message box server (generated) | `src/msgbox-tools/MsgBoxGenerator.cpp` (`generateStubSource`), `MsgBoxInfGenerator.cpp` (stub templates) | `s_ins`, `bRunning`, pool of message nodes, two lists, a semaphore per task | `<provider>_init`, `start`, `stop`, `<provider>_destroy`, `router_func`, `dispatch_message`, `call_<method>`, `reply_<method>` | `MsgBoxServer` |
| Message box client (generated) | `MsgBoxInfGenerator.cpp` (proxy templates), `MsgBoxGenerator.cpp` (`generateProxySource`), `ProxyGenerator.cpp` | `method_registry` by token, a registry per broadcast | `call_<method>_sync`, `_async`, `subscribe_<broadcast>`, `unsubscribe_<broadcast>`, the router | `MsgBoxProxy` |
| Subscription registry map (generated) | `MsgBoxInfGenerator.cpp`, `StubGenerator.cpp` | registrations per broadcast, a buffer of the caller's | `export_registry_map`, `load_registry_map`, subscribe and unsubscribe requests | `RegistryMap`, `RegistryExport` |
| Message box runtime library | not in the repository | transport, tokens, lock-free lists | `ipc_trans_layer_*`, `send_request`, `clear_registry`, `lflist_*` | external, in the three above |
| Type cycle detection | `src/libtool/FTypeCycleDetector.cpp` | indices, lowlinks, stack | `hasCycle`, `tarjan` | not modelled: only `FTypeGenerator::sortTypes` uses it, which nothing calls |
| Model objects and expressions | `src/model/F*.cpp` | a tree | getters, setters, printing | not modelled |
| Generators | `src/libtool`, `src/capicxx-core-tools`, `src/someipTools`, `src/ipc-gen`, the rest of `src/msgbox-tools`, `src/asf-tools`, `src/generator` | none across files | text emission from a finished model | not modelled |
| Command line | `src/application/main.cpp` | options | straight-line I/O | not modelled |

### 1.2 How they interact

`main` picks `FidlParser` or `FDParser` by the file's extension. The bison parsers call
back into the singletons: an `import` statement appends a file name to a pending list, the
use of a name appends candidate names to a list of `ReferenceManager`. The loader's loop
takes files from the pending lists until they are empty; then references are resolved, the
models are validated, and the model list (emptied if the load has failed) goes to the
generators. All of this is one thread; what is hard is the order in which files and names
come up, and whether the loops end. For deployment files there is a last step: each deployment
gets a mapper from .fidl objects to the elements that deploy them, and the mappers make the
elements that are missing. Deployments `use` each other, so mappers work on elements they share.

The IPC runtime is concurrent. Application threads send a request with one `ioctl`, store
the token the driver returned in the global `wait_token`, and wait on one semaphore with a
deadline. A receive thread, created when the first callback is registered, reads messages
into the global `g_recv_msg`, compares the token with `wait_token`, and either posts the
semaphore or calls the callback. There is no lock.

A message box server has a router thread, which moves requests from the transport into a
fixed pool of message nodes, and a number of dispatch tasks, which take them from a shared
list, try the provider's interfaces in turn and put the node back. The list is lock-free and
shared, but every task sleeps on a semaphore of its own, which the router posts round robin.
The handler of a method may reply later and from any thread; a subscription, and an error,
is answered by the task. The application starts, stops and destroys all of it, more than once
if it likes.

A message box client registers what it expects in `method_registry[token]` and sends. Its
router looks at one broadcast and one reply in turn, calls what is registered and clears the
registration; a synchronous caller waits on the registration with a timeout, after which it
clears it itself. The server keeps who has subscribed to what, and can write that to a map
before it restarts and load it again afterwards.

### 1.3 What is hard, and what correct means

- **IPC calls.** A reply may overtake the assignment of `wait_token`, come after the
  deadline, or never; two threads may call at the same time; a signal carries token 0, which
  may be a request's token; `ioctl` may fail and the receive thread exit. Correct: a call
  that returns 0 has its own reply; no wake-up without a call that waits for it; every call
  returns; replies to asynchronous calls reach the callback.
- **Loading.** Files import each other in any graph, circles included, and any file may
  have a syntax error. Correct: a load that is accepted holds the main file and exactly what
  it leads to; nothing is loaded twice; one error rejects the load; loading ends.
- **References.** A name has up to five candidate meanings, found in several files; what
  one pass sets (the bases of interfaces) decides what later passes find. Correct: the
  verdict says whether every name has one meaning; users refer to that meaning; inherited
  names find the nearest declaration; resolving ends.
- **Deployments.** Names are completed from what is around them, looked up by five different
  lookups and cast to what is wanted; specifications inherit from each other, deployments use each
  other, in circles too. Correct: what is accepted has a target of its own class
  everywhere; a property finds its declaration through all extended specifications; a mapper
  knows every member of its interface and every type that is used; two mappers that share a
  deployment agree on it; parsing ends.
- **Message box server.** Requests come at any time, also during `stop`; a thread may fail to
  be created; interfaces that do not know a command are tried first or last. Correct: no
  message node and no wake-up is lost or doubled; a request is answered at most once, and is
  answered if it expects it; `stop` returns, and leaves no thread behind.
- **Message box client.** Replies come late, broken or refused; tokens are used again;
  subscriptions change while their replies are on the way; the server restarts. Correct: a
  callback is called once and with a reply to its own command; an operation keeps its registration;
  what the application was told about a subscription is so on both sides; a broadcast reaches it.
- **Registry map.** The offsets of many lists in one buffer. Correct: what is loaded is what
  was exported.

`PROJECT.json` lists the hazards one by one with the lines where they bite.

## 2 Modules

| Module | What it is |
|---|---|
| `IpcCall` | the call path of `ipc.c`, driver and remote core included |
| `CallService` | abstract: a call is issued and later returns its answer or an error |
| `MCIpcCall` | TLC instances; the refinement mapping from `IpcCall` to `CallService` |
| `IpcCallProofs` | theorems about `IpcCall`, and that it implements `CallService` for one caller |
| `FidlLoader` | `FidlParser::parse` |
| `DeplLoader` | `FDParser::parse`, with the .fidl files it loads in the end |
| `ImportClosure` | abstract: the main file and what it leads to enter the model once each |
| `MCFidlLoader`, `MCDeplLoader` | TLC instances; both loaders refine `ImportClosure` |
| `QueueLemmas` | lemmas on sequences as queues, induction by the least counterexample, finite recursion |
| `FidlLoaderProofs`, `DeplLoaderProofs` | theorems about the two loaders, and that both implement `ImportClosure` |
| `ReferenceManager` | candidate names, lookups and the eight resolving passes |
| `MCReferenceManager` | TLC instances with two packages |
| `ReferenceManagerProofs` | theorems about `ReferenceManager` |
| `ModelLookup` | the lookups of `FModelManager` in a finished .fidl model, as operators |
| `Deployment` | `FDParser::parse` after the files have been read: resolving, validation, mappers |
| `MCDeployment` | TLC instance with one package and some forty statements |
| `DeploymentProofs` | theorems about `Deployment` |
| `MsgBoxServer` | a generated message box server with several dispatch tasks |
| `MsgBoxServerProofs` | theorems about `MsgBoxServer` |
| `RegistryMap` | export and load of the subscription registry, as operators |
| `MsgBoxProxy` | a generated client and the server it talks to; uses `RegistryMap` when the server restarts |
| `MsgBoxProxyProofs` | theorems about `MsgBoxProxy` |
| `RegistryExport` | a server's registry with several clients, and its export |
| `MCMsgBoxServer`, `MCMsgBoxProxy`, `MCRegistryExport` | TLC instances |

Operators named "Mutant" in comments are plausible bugs; each one is an alternative to the
definition beside it that some property must notice.

### 2.1 IpcCall

| TLA+ | `ipc.c` |
|---|---|
| `CopyRequest`, `Send`/`SendFails`, `Arm`, `Wake`/`Expire`, `CopyHeader`, `CopyPayload` | the statements of `Sync_Call_Package` (616-684) at which another thread can come between; an asynchronous call ends with `Send` |
| `StartThread`, `RegisterCallback` | `Register_Callback_Package_Process` (272-293) and its sibling |
| `Receive`, `Match`, `ResetToken` | `IPC_recv` (121-158): the header goes into `g_recv_msg`, the token is compared, `wait_token` is reset |
| `ReleaseCaller`, `TakePackage`, `ClearPayload`, `CallBack`, `CallBackHeader`, `Drop`, `ReceiveFails` | the loop of `recv_thread` (83-118) |
| `Reply`, `Silence`, `Broadcast` | the remote core: it serves requests in order with what is then in the send buffer, or never answers, or sends a signal with token 0 |

`Match` and `ResetToken` are two actions because `wait_token` is a plain `int32_t` that the
calling thread may assign between them. `Expire` keeps `wait_token`, as lines 662-674 do. A
request may get any token that no unanswered request has, so tokens are used again, also that of a call
whose reply is missing or was given up. A
message is identified by the number of the call or signal it belongs to, and a buffer by the
message that was last copied into it, so that a mixture of two replies can be told from
either. `arms` and `wakes` are history variables: they count assignments of `wait_token` and
returns of the semaphore, and nothing reads them but the properties.

`CallService` is what the comment above `Sync_Call` promises. `MCIpcCall` maps a call that
returned 0 to "answered" only if header and payload are its own.

### 2.2 FidlLoader and DeplLoader

A file is its list of import statements, whether a syntax error follows them, and the number
of copies of its contents in the model (0, 1, or 2 for more). The initial states are all
graphs of imports within the bounds; the graph never changes. `ParseMain`, `Import` (one
statement), `EndOfFile`, `ParsePending` and `Finish` follow the loop of `parse` statement by
statement. `AddPendingFidl` looks only at what is waiting (`addListItem`), never at what has
been parsed, because `FModelManager::addPendingFidl` does not; `AddPendingModel` of
`DeplLoader` looks at both, because `FDModelManager::addPendingModel` does. In `DeplLoader`
the second loop starts when the first list is empty, and a failed file is not marked as
processed. `Finish` chooses the outcome of validation, which reads what the files contain.

`ImportClosure` says what both loaders are for; the refinement mapping counts a failed load
as rejected from the first error on, since the models are cleared in the end. `FidlLoader`
implements it when imports form a tree, `DeplLoader` when .fidl files form a tree and no
file imports the main one: `ImplementsImportClosure` has these conditions, which speak of
variables that never change, as premises.

### 2.3 ReferenceManager

A name is the sequence of its identifiers. `Parse` takes the next use of a name and records
its candidates (`PossibleFQN`, in the order of `getPossibleFQN`: as it stands, under each
import that stands before the use (`use.imports`), in the package, in the interface or type collection
around it). A user may have several names of one kind, as a method with several error clauses has:
`parser.y` tests `hasErrorSection` and never sets it. `Resolve` handles
one record of the current pass, `EndPass` is the second loop of each resolve function, which
reports users that are left with nothing. `Toggled` is what all eight functions do to what
the user refers to: set it, take it back when something was set before, and for `manages`
insert into or erase from a list. `InInterface` follows `findInterfaceElement`: the nearest
interface that declares the name decides, even if what it declares is of the wrong class.
`Loop` is `getBaseInterfaces` on a circle of bases, a step from which nothing follows.

### 2.4 MsgBoxServer

What is modelled is C code in string templates of `MsgBoxGenerator.cpp` (routers, tasks, start,
stop: lines 558-846) and `MsgBoxInfGenerator.cpp` (what a stub does with a request: 722-824 and
1295-1497), for a provider with several dispatch tasks on POSIX or an RTOS.

| TLA+ | generated code |
|---|---|
| `InitServer`, `Start`/`StartFails`, `Stop`, `JoinRouter`, `JoinTasks`, `Destroy` | the application's calls; `stop` is three steps because it waits for the router, then for the tasks |
| `Query`, `LeaveRouter`, `Receive`, `Released`, `TakeNode`, `GetMsg`, `PutBack`, `Enqueue`, `Post` | `router_func`, a step for each operation on a shared list, semaphore or flag |
| `Wake`, `Leave`, `Dequeue`, `Handle`, `Answer`, `Release` | `dispatch_message` with the stubs' `dispatch_request` and `call_<method>` |
| `ReplyMethod` | `reply_<method>`, from any thread |
| `Send` | a client's request arrives in the transport |

A request's class says which interface knows its command, whether it is a method, a one-way
method or a subscription, and whether it is accepted; `NeedReply` and `LastTried` are what the
interfaces, tried in turn, leave in `need_reply`. `starts`, `failed` and `replies` are history.
Threads are numbered with the start that made them, since after a failed start old tasks
exist beside new ones. A deliberate consequence of the code is in the premise of `StopReturns`: the
router's inner loop waits for a free node without looking at `bRunning`, so `stop` is only
sure to return while there are more nodes than requests that may need one.

### 2.5 MsgBoxProxy, RegistryMap and RegistryExport

| TLA+ | generated code |
|---|---|
| `Call`, `Expire`, `ClearExpired` | `call_<method>_sync` and `_async`; after a timeout the caller clears `method_registry[reg]`, a step of its own, whoever has the token by then |
| `Subscribe`, `SendSubscribe`, `Unsubscribe` | `subscribe_<broadcast>` sets the registry, then sends; `unsubscribe_<broadcast>` only sends |
| `TakeBroadcast`, `NoBroadcast`, `NoReplyYet` | the loop of the client's `dispatch_message` |
| `TakeCallReply`, `Undeserialised`, `CallBack`, `Notify` | `call_<method>_callback`, between whose statements a caller may time out |
| `TakeSubscriptionReply`, `ClearSubscription` | the cases for replies to subscriptions: the application's callback, then `clear_registry`, between which the application may act |
| `Serve`, `Refuse`, `SendBroadcast` | the stub's cases and `<broadcast>(...)` |
| `Restart` | the server exports its registry, loses what it had not read, and loads the registry again |

`view` is history: what the application was last told about a subscription ("changing" while
a request is under way). `Orderly` says that an application changes a subscription only when it
has been told about the last change. Even so a registration may be lost: the router tells the application
that it is out and clears the registration afterwards, so that a new subscription in between is cleared
with the old one (finding 3). The history variable `hasty` has the broadcasts to which this may have happened;
`ViewsAgree` grants them nothing but a missing callback.

A token is free when its registration has been cleared, even if the reply to a call that timed out
is still on its way with it; `Expected` is then all that protects the next operation on the token. A caller that
times out clears the registration of its token, whosever it is by then: `shared` has the operations
that were sent with the token of a synchronous call that had not returned.

`RegistryMap` has blocks with a client and a broadcast. `Offset` is what the code computes, the
size of the broadcast before, and not what it would have to be, the sum of all before; with one or two
broadcasts the two are the same. `Matches` has the missing `break` of the cases as a parameter,
since code is generated in two styles. `Restored` is what a server has after it has exported and
loaded a set of subscriptions, and `MapIsFaithful` that this is what it had before; `MCMsgBoxProxy`
assumes it of its instance, so TLC evaluates it there. `RegistryExport` reaches registries from the empty one by
subscriptions and cancellations, and exports them.

### 2.6 ModelLookup and Deployment

An object of the .fidl model is its qualified name. `ModelLookup` has one operator per lookup:
`FindSymbol` drops identifiers from the end until the symbol table has the name, as
`findSymbol` does; `FindElement` goes on from there through bases and the types of fields.

A statement of a deployment file is its position: the statement it is in and a label of its own.
`Said` has what it says, `Text` the order in which the files have the statements. What a mapper
makes is identified by the element it is put into, the deployment whose mapper has made it, and the
object it is for; `Owner` and `Target` read that back. A mapping is a function on all objects,
`None` where nothing is mapped.

| TLA+ | code |
|---|---|
| `Path`, `Candidates`, `Deployed` | `FDParser.y`: one identifier is completed from `curDeployments` or the path around it, two from `curDeployments` in parts, more stand for themselves |
| `Passes`, `Resolve`, `Find`, `Cast`, `Undefined` | `FDReferenceManager::resolveAllRef`, a step for each of its passes, in its order |
| `FindSpecification`, `FindPropertyDecl`, `FirstNamed` | `FDModelManager`: the first by the name wins; the declarations of a base come before one's own |
| `Endless` | a circle of specifications, which makes `getAllDeclarations` recurse until the stack ends: `Resolve` and `MapEndless` then lead to phase `"overflow"` |
| `Validate`, `FaultyRoot`, `SameLabel`, `Faulty`, `FaultyTypes`, `Twice` | `ModelValidator::validateFDModels` and what it calls |
| `SkipRoot`, `MapTypes`, `StartMapper`, `VisitUse`, `FinishMapper` | `createMapper`: an extension or a deployment without a target; a type collection; an interface, whose mapper first goes through what it uses, one round of the loop of `initReferenced` at a time |
| `PlaceAll`, `PlaceTypes`, `PlaceCollection`, `PlaceInterface`, `Fill` | the assignments to `m_mapping`: what is written replaces what is there, what is missing is made |
| `Decide` | everything is cleared if anything has failed, after the mappers have been built |

`PropertiesInherited` says what extending means without `ref` (`DeclaredFrom` is the least set
of specifications closed under the words after `extends`), and is compared with what the passes
find. `MembersTogether` and `MappersAgree` have `Orderly` as a premise: files may deploy an
object twice or put a field of one structure into another, which the validator accepts, and
then neither holds.

## 3 Runs

| Run | Instance | Properties | Shows |
|---|---|---|---|
| `IpcCall_threads` | 2 threads, 2 calls of either kind, 2 tokens used in any way, 1 signal, failing link; 407 000 states | `TypeOK`, `WakeupsArmed`, `CallReturns`, `AsyncReplyReachesCallback` | the semaphore is never posted without a call that armed for it; calls return although replies are lost to others; a reply to an asynchronous call is lost only to a synchronous call that waits, or has given up, with the same token |
| `IpcCall_quiet` | 1 thread, 4 synchronous calls, 2 tokens, prompt server, failing link, both callbacks; 61 000 states | `ImplementsService` | without concurrency, `ipc.c` implements `CallService`, token reuse and overtaking replies included |
| `IpcCall_late` | 1 thread, 2 synchronous calls | `OwnReply` (violated) | finding 1 |
| `IpcCall_overtaking` | 1 thread, 1 synchronous call, prompt server | `SyncReplyReleasesCaller` (violated) | finding 2 |
| `FidlLoader_graphs` | all graphs over 3 files, up to 2 imports each, errors anywhere; 376 000 states | `TypeOK`, `AcceptedIsClosure`, `NothingFromBadImports`, `OnceIfLayered`, `LoadTerminates`, `ImplementsImportClosure` | accepted loads are complete and free of bad files; loading ends on acyclic imports; a file is copied once if all chains to it are equally long; on trees the loader is `ImportClosure` |
| `DeplLoader_graphs` | all graphs over 3 .fdepl files and a .fidl file, up to 2 different imports each, at most one error; 946 000 states | `TypeOK`, `AcceptedIsClosure`, `FdeplParsedOnce`, `LoadTerminates`, `ImplementsImportClosure` | the processed list makes circles of deployment files harmless |
| `ReferenceManager_names` | 2 packages, 3 interfaces, 1 type collection, every inheritance among them, one use of a T by any of its names, two error clauses of a method, or one managed interface; an import before or after them; 197 000 states | `TypeOK`, `VerdictExact`, `InheritedNamesResolve`, `ResolutionTerminates` | the verdict of `resolveAllRef` is exact, and inherited names find the nearest declaration |
| `Deployment_all` | 2 interfaces, 2 type collections; an interface with what it uses and up to 2 further statements of some 40 with those they are in: 399 contents of files; 13 000 states | `TypeOK`, `AcceptedIsSound`, `PropertiesInherited`, `MappersComplete`, `MembersTogether`, `MappersAgree`, `ParsingEnds` | resolving, validation and mapping fit together: what passes is sound, and mappers complete it consistently |
| `MsgBoxServer_tasks` | 2 tasks, 2 nodes, 2 interfaces, 2 requests of 4 classes, 2 starts, failing creation; 159 000 states | `TypeOK`, `NodesConserved`, `WakeupsMatchRequests`, `RepliesAtMostOnce`, `StopLeavesNobody`, `RequestsAnswered`, `StopReturns` | no interleaving of application, router, tasks and handlers loses a node or a wake-up; requests are answered, once; `stop` returns and cleans up |
| `MsgBoxProxy_orderly` | 3 operations, 2 tokens used in any way, 2 broadcasts, a synchronous and an asynchronous method, 1 message, 1 restart, errors; no switch statement; 398 000 states | `TypeOK`, `ReplyFits`, `RegistrationKept`, `CallbackOnce`, `ViewsAgree`, `BroadcastHeard` | late replies, timeouts and reused tokens never hand a reply to another command or take a registration from a bystander; with one change at a time both sides agree, also across a restart, but for the callback of a hasty subscription |
| `MsgBoxProxy_resubscribe` | 3 operations on 1 broadcast, one change at a time | `SubscribedIsRegistered` (violated) | finding 3 |
| `RegistryExport_three` | 1 client, 3 broadcasts | `AllExported` (violated) | finding 4 |

### 3.1 Why the bounds are enough

Every interaction in `IpcCall` is between at most two calls, or a call and a signal, that
share `wait_token`, the semaphore or a buffer: the third party is always the receive thread.
Two calls by two threads cover two waiting at once; by one thread, a call after an abandoned
one. A token that is not under way may be given out again, so two calls may have the same one: that is
the case in which an abandoned token swallows the reply of a later asynchronous call, which
`AsyncReplyReachesCallback` grants. Four calls on two tokens in the quiet run bring each token back.
The run with threads has the callback for messages only; the one for packages, which copies the payload first,
is in the other runs and in the proofs. Two signals would do no more than one: each is handled to the end before the
next is received.

In the loaders, three files are the least in which a file is imported twice by different
files, after and before it has been parsed. (`OnceIfLayered` then speaks of chains and of files imported twice by the
same one; a file with two importers in one layer takes a fourth file, which is left to the theorem.) Four
files in `DeplLoader` add a circle of deployment files beside an interface file. Longer lists than two imports add no new kind of
graph over so few files. In `ReferenceManager`, two packages with an interface of the same
name and one import are the least in which each of the five kinds of candidate can mean
something; three interfaces form chains of two bases and circles. Two error clauses are the least that toggle
what a method refers to without any two candidates of one name.

In `MsgBoxServer`, two tasks and two nodes are the least in which a wake-up can go to one task
and the request to another, and in which the router waits for a node while a task holds one; a second
start finds what the first left behind, in both failing and clean order; two requests of four
classes put an error, a one-way request, a refused subscription and a late reply beside each
other; the interface that knows the command is the first or the last one tried. `MsgBoxProxy` has three operations on
two tokens, so a token returns, and a subscription, its cancellation and a call can be under way
together; a third operation meets what a timed-out call and its late reply left behind. One method is called
synchronously and one asynchronously, so that replies to different commands meet on a token; a method that is called
both ways is only in the proofs, as are longer behaviours (all invariants of the run are proved for any bounds). Two broadcasts and
one restart show that entries of different broadcasts do not mix; that three do is finding 4.

In `Deployment`, what goes wrong takes two statements: two that deploy the same, a name and the
thing it is confused with, a use and what is used. So files have what is always needed (an
interface, a type collection it uses, two specifications) and any two statements more: that
includes two deployments of type collections that use each other, a second interface deployment that shares one
with the first, a second deployment of the same type collection, and a specification that extends itself.
Statements that only matter inside their own deployment (wrong class, unusual names) are
combined with others of that deployment only. Every way of ending and every action occurs.

### 3.2 Fairness

- `IpcCall`: a thread that has entered a call keeps running and its deadline passes (weak
  fairness of `CallerStep` while it is not idle; `sem_timedwait` has a deadline of at most
  5 s), the receive thread is scheduled, and the remote core disposes of a request by
  answering or by dropping it. Nothing is assumed about whether it answers, whether calls are
  made, callbacks registered, signals sent, or the receive thread exits.
- Loaders, `ReferenceManager` and `Deployment`: weak fairness of `Next`; the program is one thread.
- `MsgBoxServer`: the router and every task are scheduled (weak fairness of `RouterStep` and
  of each `TaskStep(th)`), `stop` goes on when the thread it joins has ended, and a handler
  replies some day. Nothing is assumed about requests arriving or about the application
  calling anything.
- `MsgBoxProxy`: the router is scheduled. Nothing is assumed about the server or the application; that a
  synchronous call returns is what its timeout is for (`timeout_ms > 0`), and no property.

Deadlock checking is off except in `RegistryExport_three`: programs stop when the load is done,
and the runtimes rest when the bounds on calls, signals and requests are used up. A registry can
always change, so there it stays on.

### 3.3 Findings

1. **Late reply (`IpcCall_late`).** A call that times out leaves its token in `wait_token`.
   Its late reply posts the semaphore, and the next call returns 0 with the wrong reply.
2. **Overtaking reply (`IpcCall_overtaking`).** `wait_token` is assigned after the `ioctl`
   that sends. A reply handled in between goes to the callback, and the caller times out.
3. **Subscribing again (`MsgBoxProxy_resubscribe`).** The reply to an unsubscription first calls the
   application's callback and then clears the broadcast's registration, also one that a newer `subscribe` has made
   in that callback or right after it: the client is told that its subscription is complete, and its callback is
   gone. It happens to a client that always waits for the answer to its last change; one that does not wait loses
   its registration in the same way.
4. **Exported registry (`RegistryExport_three`).** Every broadcast is written behind the
   broadcast before it as if that one began the map: with three broadcasts entries overwrite each other,
   and the end of the map holds whatever was in the caller's buffer. (`MapIsFaithful` is false of three
   broadcasts for this reason, and of two with switch statements for the missing `break` below; of
   fewer it is true, `TwoAreFaithful`.)

Seen while modelling, without a run of its own: a name after `manages` that means nothing is not
reported if another one of the list was found (`ReferenceManager.cpp:158`). `I.T` used inside interface `I` has two
candidates that are found (`P.I.T` and `P.I.I.T`, since `contains` accepts both), so it is
reported as duplicate and left null. For the same reason the error of a method in an interface `P.Q.I`
that extends `Q.I` is looked up in the base too if `P.Q.I.T` is not an enumeration, since `P.Q.I.T` contains `Q.I.`
(a premise of `InheritedNamesResolve`). Interfaces that inherit from each other in a circle
make `getBaseInterfaces` run for ever before validation could report them
(`ResolutionTerminates` has acyclic bases as its premise). Two .fidl files that import each other
are parsed for ever, and a .fidl file imported again after it has been parsed is parsed again
and its contents appended twice, since `m_processedFidls` is written and never read (the
premises of `LoadTerminates` and `ImplementsImportClosure`). In a server generated with
switch statements the cases of `load_registry_map` have no `break`, so that after a restart a client of one
broadcast is subscribed to all later ones (`ViewsAgree` is violated with `SwitchCase = TRUE`). `stop`
of a message box server may spin for ever when more requests have come than there are
nodes (the premise of `StopReturns`). If an interface that is not the last one of a provider fails
to handle a request, the next one clears `need_reply` and the client gets no answer. A late reply to a call that
has timed out is given to a later call of the same method that was given its token, since token and
command are all that is compared; and a caller that times out clears a token that may be another
call's by then (`shared`). In `ipc.c` the reply to an asynchronous call is lost if it carries the token that a
timed-out call has left in `wait_token`. In
`MsgBoxGenerator.cpp:1039`, `$POSIX_SCHED_SET` is replaced before `$POSIX_SCHED_SET1` and `2` of
which it is a prefix, which leaves a digit in the generated code.

In deployments: specifications that extend each other in a circle make `getAllDeclarations`
recurse for ever (the premise of `ParsingEnds`). An enumerator written with two
identifiers is always rejected, since `FDParser.y:1705` records the name also as it stands. A method, argument
or broadcast may be followed by identifiers that mean nothing, which `findSymbol` drops. A type that
is deployed twice in one deployment is only reported if the deployment's own full name is that of
the type (`ModelValidator.cpp:591`). A declaration of a base specification hides one by the same
name in the specification that extends it. Keys and values of maps are made anew by every mapper,
and the value is stored as a second key (`FDMapper.cpp:311`); those that files write are never mapped.
Structures, unions and enumerations that files write get no properties from their
specification, unlike arrays, maps and typedefs (`FDMapper.cpp:157`).

## 4 Proofs

`IpcCallProofs`, for any threads, calls, tokens and signals:

- `TypeCorrect`: `Spec => []TypeOK`.
- `WakeupsBalance`: `WakeupsArmed` is not inductive, since a post may be on its way without
  showing in `sem`. `WakeupInvariant` counts it: semaphore value, wake-ups consumed, one if
  `wait_token` is armed and one if the receive thread has taken the token but not yet posted
  together never exceed `arms`. `Arm` adds one on each side; `Match`, `ResetToken` and
  `ReleaseCaller` move the unit along; `Wake` moves it from `sem` to `wakes`.
- `NoSpuriousWakeup`: `Spec => []WakeupsArmed`, from the invariant.
- `NothingForeign` and `ImplementsCallService`: `ASSUME Quiet(c) PROVE Spec => ImplementsService`, the
  refinement of `CallService` for one thread that makes synchronous calls to a prompt server without
  broadcasts, whatever fails, however few tokens there are and whichever callbacks are registered. The invariant
  `Alone` counts what is under way: requests, replies, the reply being handled, posted
  wake-ups and a caller about to read are one at most, and none between two calls (`OneReply`); what
  there is belongs to the call being made, and so do header and buffer from the moment they will be read
  (`ItsOwn`); all earlier calls have returned (`InOrder`). `Expire` needs the prompt server: only then does an abandoned
  call leave nothing behind but its token, which does no harm. Then `CopyRequest`
  is a step `Issue`, `SendFails` and `Expire` are `Fail`, `CopyPayload` is `Answer`, and all others stutter.

`FidlLoaderProofs`, for any set of files and any graph of imports:

- `TypeCorrect`: `Spec => []TypeOK`.
- `LoadIsClosure`: `Spec => []AcceptedIsClosure`. The inductive invariant is the type
  invariant and three facts: `NoneForgotten` (while nothing has failed, what a parsed file imports has been
  parsed, is being parsed or waits), `NoneInvented` (whatever is parsed, being parsed or waiting lies in
  every closed set that holds the main file) and `AcceptedClean` (an accepted load is not
  failed and has nothing pending, and no file with an error is counted). At `Finish` nothing waits, so the copied files are closed
  and the least closed set.
- `ErrorsRejectLoad`: `Spec => []NothingFromBadImports`, from the same invariant.
- `LayeredOnce`: `Spec => []OnceIfLayered`. `addPendingFidl` never asks what has been parsed, so it is the order of the list that
  keeps files from being read twice. The invariant (`LayerByLayer`, for any depths that fit the imports): what waits is
  in the layer of the current file or in the next, in this order, behind all that has been copied; so an import is of a file
  that waits already or has not been seen.
- `Implements`: `Spec => ImplementsImportClosure`. On a tree of imports every file is in one place, parsed,
  being parsed or waiting, and there once (`EachOnce`), because its one parent is parsed once
  and before it (`FromParents`). The step that ends a file is the abstract `Load`, that of a bad file `Reject`.

`DeplLoaderProofs`, for any .fdepl and .fidl files and any graph of imports:

- `TypeCorrect`: `Spec => []TypeOK`. The type invariant needs `SecondLoop`: once the loop over .fidl
  files runs, no .fdepl file waits, and none can be added since .fidl files import only .fidl files.
- `LoadIsClosure`: `Spec => []AcceptedIsClosure`. As for `FidlLoader`, with one more part,
  `ProcessedLoaded`: what `addPendingModel` skips because it is marked as processed has indeed been
  parsed, so skipping it forgets nothing.
- `ParsedOnce`: `Spec => []FdeplParsedOnce`. `Sparing` gives each .fdepl file without errors a
  budget: once for the list, once more if it is the main file, which is parsed unmarked, and
  once more if it imports itself, which it does before it is marked. Parses so far, the parse
  under way and a place on the list never exceed it.
- `Implements`: `Spec => ImplementsImportClosure`, as for `FidlLoader`; for .fdepl files the list of what has been
  processed takes the place of the premise that imports are a tree.

`ReferenceManagerProofs`, for any interfaces, declarations, imports, uses of names and
inheritance, circles included:

- `TypeCorrect`: `Spec => []TypeOK`. That a user refers to at most one object needs that `Find` has at most one
  result, whichever lookup its kind uses.
- `VerdictIsExact`: `Spec => []VerdictExact`. The invariant says at each moment of each pass what the user
  refers to (`Answered`): an error has been reported exactly if two records worked off so far contradict each other;
  without one the user refers to what these records mean; the end of its pass reports
  who refers to nothing. The hard part is that what a record means does not change any more once it has been worked off: it
  depends on the bases of interfaces only after the pass that sets them (`MeansUnchanged`, `BaseMeansUnchanged`).
- `NearestIsMeant`: `Spec => []InheritedNamesResolve`. Records keep all candidates that their use has (`Remembered`), so among
  those of a simple name is the name in the interface itself; for it, `InInterface` climbs to the
  nearest declaration, and all the others find nothing. A user may have several names of one kind, and other imports
  before each: what one user says is only taken to stand in one place.
- `ResolvingReturns`: `Spec => [](BasesAcyclic => ~looping)`, the other half: `getBaseInterfaces` recurses for ever only if
  the names that interfaces give for their bases form a circle. After the first pass an interface has
  the base that its names alone give it (`BasesByName`), in spite of the toggling, and no later pass
  changes it; the climb then only meets a circle that is in the files (`CircleOnly`).
- `ResolvingDescends`: `Spec => []Bounded /\ [][Descends \/ (looping' /\ ~BasesAcyclic')]_vars`. Every step lowers the
  number of passes that are left or, within a pass, that of the names or records left, but for the step into the endless
  `getBaseInterfaces`, which takes a circle of bases. Both together are the half of `ResolutionTerminates` that needs no
  fairness: without a circle `resolveAllRef` makes finitely many steps, each of which returns.

`DeploymentProofs`, for any .fidl model, any statements and any order of them:

- `TypeCorrect`: `Spec => []TypeOK`. References refer to objects and statements of their kind (`RefsFit`), and
  a mapping maps an object to an element that deploys this object (`Mappings`), also after four
  kinds of placing and through elements that other mappers have made.
- `AcceptedSound`: `Spec => []AcceptedIsSound`. As long as nothing has failed, each pass that is over has resolved
  all it is about (`ResolvedSoFar`); what the validator lets pass, it has compared pair by
  pair (`Validated`). What neither says is looked up with the class that is wanted (`FindFits`).
- `MappersAreComplete`: `Spec => []MappersComplete`. While a mapper goes through what its interface uses, what
  has been visited is in the mapping, and what that uses is visited or waits (`UnderWay`); when nothing waits, what has been visited is closed
  under use (`Finished`). Mappings only grow (`PlaceGrows`, `FillGrows`).
- `DeclarationsInherited`: `Spec => [](SpecificationsApart => PropertiesInherited)`. After the first pass every
  specification refers to the one that it extends (`BasesKnown`), so the last pass climbs along these. The names on a chain that ends are the
  least set that is closed under extending (`ChainIsClosure`), for a chain of any length. The premise is needed: of two specifications by one name
  only the first is ever found, and what the second one declares is lost.
- `MembersStayTogether`: `Spec => []MembersTogether`, and `MappersDoAgree`: `Spec => []MappersAgree`. Neither is inductive:
  elements that a mapper makes change what the next one finds in the same deployments. The invariant (`Tidy`) has three parts.
  What is made is in the element for what contains its object (`MadeInPlace`), and a deployment in order has one element per object
  (`Singles`): whoever makes one has looked there first, and could only have missed an element whose container it has from another
  deployment of the same collection (`Sources`), which order excludes. A mapping that is in order has every element in the one deployment, of those it
  uses, of what the object is in (`AtHome`); a collection that is visited is new to the mapping, so nothing is taken from
  elsewhere. What has been visited is used by the interface (`Reached`), so that it is in order if the interface is (`Orderly`). Then an element
  and the one for what contains its object are in the same deployment, and both properties follow from `Singles`.
- `ParsingDescends`: `Spec => []Bounded /\ [][Descends]_vars`, the half of `ParsingEnds` that needs no fairness. Every step lowers the
  first that it changes of four counts: stages, passes or roots left, deployments of type collections that the mapper has not
  visited, and those it has in view. The third is what makes the loop of `initReferenced` end on
  circular uses: a round visits a deployment that it has not visited yet, or only takes one out of view.
- `ParsingReturns`: `Spec => [](ExtendsEnds => phase # "overflow")`, the other half: `getAllDeclarations` recurses for ever
  only if specifications extend each other in a circle (`BasesKnown`).

`MsgBoxServerProofs`, for any number of tasks, nodes, interfaces, requests and starts:

- `TypeCorrect`: `Spec => []TypeOK`.
- `Conservation`: `Spec => []NodesConserved`, and `StopIsClean`: `Spec => []StopLeavesNobody`.
  Both are about states without a failed start, and neither is inductive: where a node is
  depends on where the threads are. The invariant ties them together: the router has a node
  exactly between `TakeNode` and `Enqueue` or `PutBack`; a thread has one exactly while it
  dispatches; threads of earlier starts are gone; the router runs or waits to be joined
  exactly while the application is not through `stop`; a task that has left has seen
  `bRunning` cleared. `JoinTasks` then finds every thread gone and empties both lists.
- `WakeupsMatch`: `Spec => []WakeupsMatchRequests`, from the same invariant. The sum over all semaphores is a
  fold over a set; that it changes by one when one semaphore does, whatever order `CHOOSE`
  takes (`SumChanges`), is proved by comparing both folds step by step.
- `AnswersOnce`: `Spec => []RepliesAtMostOnce`. The invariant follows a request on its way: it
  is in one place only (transport, a node, a handler's context), what is in the transport or
  not sent yet has no reply, a request with a context has none and expects none from its task, and
  a task that is about to answer has not been overtaken by its handler (`NeedReply` and
  an accepted method exclude each other: lemma `Exclusive`).

`MsgBoxProxyProofs`, for any number of operations, tokens, broadcasts and restarts:

- `TypeCorrect`: `Spec => []TypeOK`.
- `CallbacksOnce`: `Spec => []CallbackOnce`. An operation is registered for one token at most (`RegisteredOnce`), and its
  callback has been called exactly if the router is about to notify for that token (`CalledWhen`); then the token is
  cleared. No other operation is given the token in between, so a caller that is notified has had its callback called.
- `RepliesFit`: `Spec => []ReplyFits`. The command is compared when the reply is taken, the callback read later. In
  between the registration may be cleared by a caller that times out, but no other operation can be given the token,
  so what is registered by then has the command compared, or is nothing (`Fits`).
- `RegistrationsKept`: `Spec => []RegistrationKept`. A caller that gives up clears what is registered for
  its token. That is its own registration, or none, or that of an operation sent while it held the token, which is in `shared`
  (`Kept`).
- `AgreeOnSubscriptions`: `ASSUME Orderly, MaxRestarts = 0 \/ MapIsFaithful PROVE Spec => []ViewsAgree`. If
  changes to a broadcast are made one at a time, at most one operation, request or reply in transit is about it (`Alone`), and
  it tells how far the change has come (`Progress`): the server has made it exactly if the
  reply on its way says so. A registration is only cleared by `ClearSubscription`, after its owner was told that it is
  out, or when a subscription cannot be sent; a new one made before that is in `hasty`. Tokens may be reused at will. That the map is faithful is what a restart
  needs; finding 4 is that it is not for three broadcasts.
- `RegistryComesBack`, for any number of clients and broadcasts: after export and load every broadcast has the clients it had, if
  every broadcast that has clients is written right after those before it (`Aligned`) and an entry
  matches one case only (`OneCase`). The blocks that the code writes are then disjoint and without gaps
  (`BlocksInOrder`), the map holds the registry and nothing else (`ExportIs`), and loading is a fold
  over the map that adds one client at a time (`LoadIs`).
- `TwoAreFaithful`: `ASSUME BroadcastNum <= 1 \/ (BroadcastNum = 2 /\ ~SwitchCase) PROVE MapIsFaithful`, because the registries of one
  or two broadcasts are aligned, and `AgreeAfterRestarts`: `Spec => []ViewsAgree` under this assumption
  and `Orderly`, however often the server restarts. So finding 4 begins exactly with the third broadcast, or with
  the second in the style with a switch.

`QueueLemmas` has what the proofs need of `Append`, `Head`, `Tail` and `\o`: which elements a queue
holds after each. The prover cannot use induction over an operator's values, so where data of any size are
involved (semaphores summed, chains of bases, lists of candidates, blocks of a map) proofs take the least
counterexample (`LeastNumber`), the largest member of a set (`LargestNumber`) or the function that a
recursion defines (`FiniteRecursion`).

Only model-checked: all liveness properties (`CallReturns`, `AsyncReplyReachesCallback`,
`LoadTerminates`, `ResolutionTerminates`, `ParsingEnds`, `RequestsAnswered`, `StopReturns`, `BroadcastHeard`),
since fairness and `ENABLED` are out of the proof system's reach. For `ResolutionTerminates` and `ParsingEnds` what is left to TLC is that the program never gets stuck
before its end: that it makes finitely many steps, and does not recurse for ever unless files have a circle, is proved. The loaders have
no such count, since a file may be parsed again and again (3.3), so `LoadTerminates` is TLC's as a whole. The
invariants of all passing runs are proved, under the premises given above. No module that is
proved about has a recursive operator.

Assumptions on constants are `ParameterAssumption` (`IpcCall`, `MsgBoxServer`, `MsgBoxProxy`),
`FileAssumption` and
`NoFileAssumption` (loaders), `NamesAssumption` (`ReferenceManager`), `ModelAssumption` and `ContainerAssumption` (`ModelLookup`)
and `DeploymentAssumption` and `PropertyAssumption` (`Deployment`); TLC evaluates them in
every run. A set of .fidl files is finite. The last five say what the parsers guarantee: names are finite sequences, all
that one user says by names of one kind stands in one place (the same interface or type collection), bases belong to
interfaces, an argument is in a method, a field in a structure or a union and an
enumerator in an enumeration, an interface or a type collection in a model (no package has the name of either), an interface
deployment has a target, what a statement is in belongs to the same files, and the label `"+"`, which marks what mappers make, is no
identifier; a property's name is one identifier, and a specification's is not empty.

## 5 What the models leave out

- `IpcCall`: the early returns for arguments out of range, which touch no shared state; two
  receive threads (two registrations at once); calls made inside a callback; the session's
  opening and closing; the bytes of a payload.
- Loaders: path names (a file has one name), what a file contains besides imports,
  `parseString`. `m_processedFidls` is written and never read, so it is no variable.
- `ReferenceManager`: identifiers are compared as wholes, so `contains` never matches half
  an identifier; a container declares one object by a name; imports without `.*`, whose
  candidates are names that no object has. An object is known by its qualified name, so two interfaces by one
  name in two files are one.
- `ModelLookup`, `Deployment`: the values of properties and their defaults; `#{...}` blocks of arrays;
  overloaded operations and their selectors; the null object that a mapper maps when an element has no
  target, which nothing looks up. Models start as `validateFModels` accepts them, with their
  references resolved and acyclic bases. No statement occurs twice in the same place. If arguments of a method and of a broadcast
  deploy the same target, `PlaceInterface` lets the one that is later in the text win, the code always the
  broadcast's (`FDMapper.cpp:46-58`); no property asks which.
- `MsgBoxServer`: what requests carry, uuid and timestamp of a request (which tasks share), the
  single-threaded dispatcher and the kernel and bare-metal variants, thread priorities. Two
  interfaces of a provider do not share a command number.
- `MsgBoxProxy`: what calls and broadcasts carry (a broadcast can always be deserialised), one-way
  calls, availability callbacks, starting and stopping the client. A caller whose reply has been handled
  before it waits does not wait, which is up to the runtime library, and so sending and the start of the wait are one step (`Call`). So are
  notifying the caller and clearing the registration (`Notify`), and the two looks at a broadcast's registration, before
  and after the message is deserialised (`TakeBroadcast`): a registration cleared in between (`MsgBoxInfGenerator.cpp:2408`,
  `2416`) is not modelled.
- `RegistryMap`: single bytes of a block; a map whose size is no multiple of a block.
- Sessions of the IPC runtime: argument checks and assignments before the receive
  thread exists; `recv_payload_addr` is unmapped but not reset
  while that thread may still copy from it (`ipc.c:375`).
- Everything else that 1.1 calls not modelled or planned.

## 6 Plan

1. `validateFModels` as operators checked against reference definitions, and its composition with
   `Deployment`.
2. The single-threaded server as a second specification, and `MsgBoxServer` shown to implement
   it with one task; one-way calls and availability in `MsgBoxProxy`.
