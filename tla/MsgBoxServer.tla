---------------------------- MODULE MsgBoxServer ----------------------------
(***************************************************************************)
(* The server that msgboxGen generates for a provider with                 *)
(* EnableMultiThreadDispatcher (templates of                               *)
(* MsgBoxGenerator::generateStubSource in                                  *)
(* src/src/msgbox-tools/MsgBoxGenerator.cpp, and of the stub's             *)
(* dispatch_request, call_<method> and reply_<method> in                   *)
(* MsgBoxInfGenerator.cpp): a router thread moves requests from the        *)
(* transport into a fixed pool of message nodes, METHOD_DISPATCH_TASK_NUM  *)
(* dispatch tasks take them from one shared list and call the interfaces'  *)
(* stubs, and the application starts and stops it all.                     *)
(*                                                                         *)
(* A request is a number; class[r] says what becomes of it in the stubs:   *)
(* the interface that knows its command (0: none), its kind and whether    *)
(* it is accepted (deserialised and its handler registered; a              *)
(* subscription not refused).  Two interfaces of a provider do not share a *)
(* command number.                                                         *)
(*                                                                         *)
(* Not modelled: what the requests carry, the timestamp and uuid that are  *)
(* handed to the handlers, and the thread priorities.                      *)
(*                                                                         *)
(* The ipc_trans_layer and the lock-free lists are not in the repository:  *)
(* the transport is a queue of requests, a list operation is atomic.       *)
(***************************************************************************)
EXTENDS Integers, Sequences, FiniteSets, Functions

CONSTANTS TaskNum,      \* METHOD_DISPATCH_TASK_NUM
          MsgNum,       \* METHOD_MSG_NUM
          InsNum,       \* interfaces of the provider, in dispatch order
          Classes,      \* the classes of request the clients send
          MaxRequests,  \* bound: requests sent in a behaviour
          MaxStarts,    \* bound: calls of start() that create threads
          CreateFails   \* TRUE: creating the handle or the router may fail

Task   == 0..(TaskNum - 1)
Node   == 1..MsgNum
Thread == Task \X (1..MaxStarts)     \* the task's index, the start() that made it
Class  == [ins : 0..InsNum, kind : {"method", "oneway", "subscribe"}, ok : BOOLEAN]

ASSUME ParameterAssumption ==
    /\ TaskNum \in Nat \ {0} /\ MsgNum \in Nat \ {0} /\ InsNum \in Nat \ {0}
    /\ Classes \subseteq Class
    /\ MaxRequests \in Nat /\ MaxStarts \in Nat
    /\ CreateFails \in BOOLEAN

Request == 1..MaxRequests

VARIABLES
    s_ins,      \* "null", "set" (init has failed) or "initialized"
    bRunning,
    app,        \* where the application is in start() or stop(); "idle" outside
    starts,     \* history: calls of start() that created tasks
    failed,     \* history: one of them could not create the router
    inbox,      \* transport: requests not fetched yet
    sent, class,
    free, used, \* s_free_method_msg_list, s_used_method_msg_list
    msg,        \* s_method_msgs: the request each node holds
    router, rnode, index,   \* router_func: where it is, its node, its index
    sem,        \* s_sem_method_msg
    task, tnode,            \* dispatch_message: where each thread is, its node
    contexts,   \* contexts handlers were given and have not replied to
    replies     \* history: replies sent to each request

lifeVars    == <<s_ins, bRunning, app, starts, failed>>
clientVars  == <<sent, class>>
poolVars    == <<free, used, msg>>
routerVars  == <<router, rnode, index>>
taskVars    == <<task, tnode>>
handlerVars == <<contexts, replies>>
vars == <<lifeVars, clientVars, inbox, poolVars, routerVars, sem, taskVars, handlerVars>>

NoNode == 0
NoReq  == 0

Init ==
    /\ s_ins = "null" /\ bRunning = FALSE /\ app = "idle"
    /\ starts = 0 /\ failed = FALSE
    /\ inbox = <<>> /\ sent = 0
    /\ class \in [Request -> Classes]
    /\ free = {} /\ used = <<>>
    /\ msg = [n \in Node |-> NoReq]
    /\ router = "off" /\ rnode = NoNode /\ index = 0
    /\ sem = [t \in Task |-> 0]
    /\ task = [th \in Thread |-> "off"]
    /\ tnode = [th \in Thread |-> NoNode]
    /\ contexts = {}
    /\ replies = [r \in Request |-> 0]

-----------------------------------------------------------------------------
(* The application: <provider>_init, start, stop, <provider>_destroy, in   *)
(* this order, and again.                                                  *)

\* Creating the handle, or initialising one of the servers (which destroys the
\* handle again), may fail after s_ins has been set.
InitServer ==
    /\ app = "idle" /\ s_ins # "initialized" /\ starts < MaxStarts
    /\ \/ s_ins' = "initialized"
       \/ CreateFails /\ s_ins' = "set"
    /\ UNCHANGED <<bRunning, app, starts, failed, clientVars, inbox, poolVars,
                   routerVars, sem, taskVars, handlerVars>>

\* Mutant of CreateTasks.
CreateTasksKeepsSem ==
    /\ free' = Node /\ used' = <<>>
    /\ UNCHANGED sem
    /\ task' = [th \in Thread |-> IF th[2] = starts + 1 THEN "wait" ELSE task[th]]
    /\ starts' = starts + 1

\* Everything start() does before the router: lists and nodes, a semaphore and a
\* task each.  Re-initialising a semaphore that a thread still waits for (after a
\* start that failed) leaves that thread waiting for it.
CreateTasks ==
    /\ free' = Node /\ used' = <<>>
    /\ sem' = [t \in Task |-> 0]
    /\ task' = [th \in Thread |-> IF th[2] = starts + 1 THEN "wait" ELSE task[th]]
    /\ starts' = starts + 1

CanStart == app = "idle" /\ s_ins = "initialized" /\ ~bRunning /\ starts < MaxStarts

Start ==
    /\ CanStart
    /\ CreateTasks
    /\ bRunning' = TRUE
    /\ router' = "query" /\ index' = 0
    /\ UNCHANGED <<s_ins, app, failed, clientVars, inbox, msg, rnode, tnode, handlerVars>>

\* pthread_create of the router fails: the tasks stay.
StartFails ==
    /\ CanStart /\ CreateFails
    /\ CreateTasks
    /\ failed' = TRUE
    /\ UNCHANGED <<s_ins, bRunning, app, clientVars, inbox, msg, routerVars, tnode,
                   handlerVars>>

\* stop() after its sleep(1): clear bRunning, release the router's wait.
Stop ==
    /\ app = "idle" /\ bRunning
    /\ bRunning' = FALSE
    /\ app' = "join router"
    /\ UNCHANGED <<s_ins, starts, failed, clientVars, inbox, poolVars, routerVars, sem,
                   taskVars, handlerVars>>

\* Mutant of JoinRouter. One post for all tasks.
JoinRouterPostsOnce ==
    /\ app = "join router" /\ router = "done"
    /\ router' = "off"
    /\ sem' = [sem EXCEPT ![0] = @ + 1]
    /\ app' = "join tasks"
    /\ UNCHANGED <<s_ins, bRunning, starts, failed, clientVars, inbox, poolVars, rnode,
                   index, taskVars, handlerVars>>

JoinRouter ==
    /\ app = "join router" /\ router = "done"
    /\ router' = "off"
    /\ sem' = [t \in Task |-> sem[t] + 1]
    /\ app' = "join tasks"
    /\ UNCHANGED <<s_ins, bRunning, starts, failed, clientVars, inbox, poolVars, rnode,
                   index, taskVars, handlerVars>>

\* Mutant of JoinTasks. Does not wait for the dispatch tasks.
JoinTasksNoWait ==
    /\ app = "join tasks"
    /\ free' = {} /\ used' = <<>>
    /\ app' = "idle"
    /\ UNCHANGED <<s_ins, bRunning, starts, failed, clientVars, inbox, msg, routerVars,
                   sem, taskVars, tnode, handlerVars>>

\* Only the threads of the latest start() are known to be joined.
JoinTasks ==
    /\ app = "join tasks"
    /\ \A t \in Task : task[<<t, starts>>] = "done"
    /\ task' = [th \in Thread |-> IF th[2] = starts THEN "off" ELSE task[th]]
    /\ free' = {} /\ used' = <<>>
    /\ app' = "idle"
    /\ UNCHANGED <<s_ins, bRunning, starts, failed, clientVars, inbox, msg, routerVars,
                   sem, tnode, handlerVars>>

\* Destroying the handle takes what is still in the transport with it.
Destroy ==
    /\ app = "idle" /\ s_ins # "null" /\ ~bRunning
    /\ s_ins' = "null"
    /\ inbox' = <<>>
    /\ UNCHANGED <<bRunning, app, starts, failed, clientVars, poolVars, routerVars, sem,
                   taskVars, handlerVars>>

AppStep == InitServer \/ Start \/ StartFails \/ Stop \/ JoinRouter \/ JoinTasks \/ Destroy

\* A request reaches the transport while the handle is registered.
Send ==
    /\ s_ins = "initialized" /\ sent < MaxRequests
    /\ sent' = sent + 1
    /\ inbox' = Append(inbox, sent + 1)
    /\ UNCHANGED <<lifeVars, class, poolVars, routerVars, sem, taskVars, handlerVars>>

-----------------------------------------------------------------------------
(* router_func.                                                            *)

\* while (... bRunning)
Query ==
    /\ router = "query" /\ bRunning
    /\ router' = "receive"
    /\ UNCHANGED <<lifeVars, clientVars, inbox, poolVars, rnode, index, sem, taskVars,
                   handlerVars>>

LeaveRouter ==
    /\ router = "query" /\ ~bRunning
    /\ router' = "done"
    /\ UNCHANGED <<lifeVars, clientVars, inbox, poolVars, rnode, index, sem, taskVars,
                   handlerVars>>

\* receive_message() reports a message, which may be after stop() has begun ...
Receive ==
    /\ router = "receive" /\ inbox # <<>>
    /\ router' = "node"
    /\ UNCHANGED <<lifeVars, clientVars, inbox, poolVars, rnode, index, sem, taskVars,
                   handlerVars>>

\* ... or has been released by stop().
Released ==
    /\ router = "receive" /\ ~bRunning
    /\ router' = "query"
    /\ UNCHANGED <<lifeVars, clientVars, inbox, poolVars, rnode, index, sem, taskVars,
                   handlerVars>>

\* The inner loop does not look at bRunning: without a free node it yields for ever.
TakeNode == \E n \in free :
    /\ router = "node"
    /\ rnode' = n
    /\ free' = free \ {n}
    /\ router' = "get"
    /\ UNCHANGED <<lifeVars, clientVars, inbox, used, msg, index, sem, taskVars, handlerVars>>

GetMsg ==
    /\ router = "get" /\ inbox # <<>>
    /\ msg' = [msg EXCEPT ![rnode] = Head(inbox)]
    /\ inbox' = Tail(inbox)
    /\ router' = "enqueue"
    /\ UNCHANGED <<lifeVars, clientVars, free, used, rnode, index, sem, taskVars, handlerVars>>

\* Mutant of PutBack.
PutBackForgotten ==
    /\ router = "get" /\ inbox = <<>>
    /\ rnode' = NoNode
    /\ router' = "query"
    /\ UNCHANGED <<lifeVars, clientVars, inbox, poolVars, index, sem, taskVars, handlerVars>>

PutBack ==
    /\ router = "get" /\ inbox = <<>>
    /\ free' = free \cup {rnode}
    /\ rnode' = NoNode
    /\ router' = "query"
    /\ UNCHANGED <<lifeVars, clientVars, inbox, used, msg, index, sem, taskVars, handlerVars>>

\* Mutant of Enqueue. The node is listed, but no task is told.
EnqueueWithoutPost ==
    /\ router = "enqueue"
    /\ used' = Append(used, rnode)
    /\ rnode' = NoNode
    /\ router' = "node"
    /\ UNCHANGED <<lifeVars, clientVars, inbox, free, msg, index, sem, taskVars, handlerVars>>

Enqueue ==
    /\ router = "enqueue"
    /\ used' = Append(used, rnode)
    /\ rnode' = NoNode
    /\ router' = "post"
    /\ UNCHANGED <<lifeVars, clientVars, inbox, free, msg, index, sem, taskVars, handlerVars>>

\* Mutant of Post.
PostWithoutWrap ==
    /\ router = "post"
    /\ sem' = [sem EXCEPT ![index] = @ + 1]
    /\ index' = index + 1
    /\ router' = "node"
    /\ UNCHANGED <<lifeVars, clientVars, inbox, poolVars, rnode, taskVars, handlerVars>>

Post ==
    /\ router = "post"
    /\ sem' = [sem EXCEPT ![index] = @ + 1]
    /\ index' = (index + 1) % TaskNum
    /\ router' = "node"
    /\ UNCHANGED <<lifeVars, clientVars, inbox, poolVars, rnode, taskVars, handlerVars>>

RouterStep ==
    Query \/ LeaveRouter \/ Receive \/ Released \/ TakeNode \/ GetMsg \/ PutBack \/ Enqueue \/ Post

-----------------------------------------------------------------------------
(* dispatch_message, one thread per task, and the stubs it calls.          *)

Wake(th) ==
    /\ task[th] = "wait" /\ sem[th[1]] > 0
    /\ sem' = [sem EXCEPT ![th[1]] = @ - 1]
    /\ task' = [task EXCEPT ![th] = "woken"]
    /\ UNCHANGED <<lifeVars, clientVars, inbox, poolVars, routerVars, tnode, handlerVars>>

Leave(th) ==
    /\ task[th] = "woken" /\ ~bRunning
    /\ task' = [task EXCEPT ![th] = "done"]
    /\ UNCHANGED <<lifeVars, clientVars, inbox, poolVars, routerVars, sem, tnode, handlerVars>>

\* An empty list sends the thread back to its semaphore.
Dequeue(th) ==
    /\ task[th] = "woken" /\ bRunning
    /\ IF used = <<>>
       THEN /\ task' = [task EXCEPT ![th] = "wait"]
            /\ UNCHANGED <<used, tnode>>
       ELSE /\ task' = [task EXCEPT ![th] = "dispatch"]
            /\ tnode' = [tnode EXCEPT ![th] = Head(used)]
            /\ used' = Tail(used)
    /\ UNCHANGED <<lifeVars, clientVars, inbox, free, msg, routerVars, sem, handlerVars>>

\* The interfaces are tried in order for as long as they return less than 0: also
\* after the one that knows the command has failed.
LastTried(r) == IF class[r].ok /\ class[r].ins # 0 THEN class[r].ins ELSE InsNum

\* Mutant of NeedReply. need_reply is not cleared once the handler has the request.
NeedReplyAlways(r) == LastTried(r) = class[r].ins /\ class[r].kind # "oneway"

\* need_reply as the interface tried last has left it: one that does not know the
\* command clears it.
NeedReply(r) ==
    /\ LastTried(r) = class[r].ins
    /\ \/ class[r].kind = "subscribe"
       \/ class[r].kind = "method" /\ ~class[r].ok

Accepted(r) == class[r].ins # 0 /\ class[r].ok

\* call_<method> calls the handler, which keeps its context, a copy of the header.
Context(th) == [request |-> msg[tnode[th]], node |-> tnode[th]]

Handle(th) == LET r == msg[tnode[th]] IN
    /\ task[th] = "dispatch" /\ Accepted(r) /\ class[r].kind # "subscribe"
    /\ contexts' = IF class[r].kind = "method" THEN contexts \cup {Context(th)}
                                               ELSE contexts
    /\ task' = [task EXCEPT ![th] = "reply"]
    /\ UNCHANGED <<lifeVars, clientVars, inbox, poolVars, routerVars, sem, tnode, replies>>

\* The dispatcher replies if need_reply is still set: after the handler, or without
\* one for a subscription and for what nobody accepts.
Answer(th) == LET r == msg[tnode[th]] IN
    /\ \/ task[th] = "reply"
       \/ task[th] = "dispatch" /\ ~(Accepted(r) /\ class[r].kind # "subscribe")
    /\ replies' = IF NeedReply(r) THEN [replies EXCEPT ![r] = @ + 1] ELSE replies
    /\ task' = [task EXCEPT ![th] = "release"]
    /\ UNCHANGED <<lifeVars, clientVars, inbox, poolVars, routerVars, sem, tnode,
                   contexts>>

Release(th) ==
    /\ task[th] = "release"
    /\ free' = free \cup {tnode[th]}
    /\ tnode' = [tnode EXCEPT ![th] = NoNode]
    /\ task' = [task EXCEPT ![th] = "wait"]
    /\ UNCHANGED <<lifeVars, clientVars, inbox, used, msg, routerVars, sem, handlerVars>>

TaskStep(th) == \/ Wake(th) \/ Leave(th) \/ Dequeue(th)
                \/ Handle(th) \/ Answer(th) \/ Release(th)

\* Mutant of Addressee. Replies to the header that is in the node by now.
AddresseeInNode(context) == msg[context.node]

\* reply_<method>, called once for every context, from any thread at any time; it
\* sends nothing when the server has been destroyed.
Addressee(context) == context.request

ReplyMethod == \E context \in contexts :
    /\ contexts' = contexts \ {context}
    /\ replies' = IF s_ins = "initialized"
                  THEN [replies EXCEPT ![Addressee(context)] = @ + 1]
                  ELSE replies
    /\ UNCHANGED <<lifeVars, clientVars, inbox, poolVars, routerVars, sem, taskVars>>

-----------------------------------------------------------------------------
Next ==
    \/ AppStep
    \/ Send
    \/ RouterStep
    \/ \E th \in Thread : TaskStep(th)
    \/ ReplyMethod

\* Every thread runs; stop() goes on; a handler replies some day.
Fairness ==
    /\ WF_vars(RouterStep)
    /\ \A th \in Thread : WF_vars(TaskStep(th))
    /\ WF_vars(JoinRouter \/ JoinTasks)
    /\ WF_vars(ReplyMethod)

Spec == Init /\ [][Next]_vars /\ Fairness

-----------------------------------------------------------------------------
LifeType ==
    /\ s_ins \in {"null", "set", "initialized"} /\ bRunning \in BOOLEAN
    /\ app \in {"idle", "join router", "join tasks"}
    /\ starts \in 0..MaxStarts /\ failed \in BOOLEAN

ClientType == inbox \in Seq(Request) /\ sent \in 0..MaxRequests /\ class \in [Request -> Class]

PoolType == free \subseteq Node /\ used \in Seq(Node) /\ msg \in [Node -> {NoReq} \cup Request]

RouterType ==
    /\ router \in {"off", "query", "receive", "node", "get", "enqueue", "post", "done"}
    /\ rnode \in {NoNode} \cup Node /\ index \in Task

TaskType ==
    /\ sem \in [Task -> Nat]
    /\ task \in [Thread -> {"off", "wait", "woken", "dispatch", "reply", "release", "done"}]
    /\ tnode \in [Thread -> {NoNode} \cup Node]

HandlerType ==
    /\ contexts \subseteq [request : Request, node : Node]
    /\ replies \in [Request -> Nat]

\* Every variable has its type.
TypeOK == LifeType /\ ClientType /\ PoolType /\ RouterType /\ TaskType /\ HandlerType

Active == bRunning \/ app # "idle"

\* While the server runs, every message node is in exactly one place: the free
\* list, the used list, or the hands of the router or of one dispatch thread (a
\* node lost or listed twice would starve the router or mix two requests up).
InUsed(n) == \E i \in DOMAIN used : used[i] = n
Taken(n)  == \E th \in Thread : tnode[th] = n

NodesConserved == Active /\ ~failed =>
    /\ \A n \in Node : n \in free \/ InUsed(n) \/ n = rnode \/ Taken(n)
    /\ \A n \in free : ~InUsed(n) /\ n # rnode /\ ~Taken(n)
    /\ \A i, j \in DOMAIN used : used[i] = used[j] => i = j
    /\ \A i \in DOMAIN used : used[i] # rnode /\ ~Taken(used[i])
    /\ \A th \in Thread : tnode[th] # NoNode =>
          tnode[th] # rnode /\ \A th2 \in Thread : tnode[th2] = tnode[th] => th2 = th

\* The used list is shared but each task has a semaphore of its own: together the
\* semaphores and the threads just woken count the requests in the list, so no
\* request waits without a wake-up and no wake-up finds the list empty.
Posted == FoldFunction(LAMBDA x, y : x + y, 0, sem) + Cardinality({th \in Thread : task[th] = "woken"})

WakeupsMatchRequests == bRunning /\ ~failed =>
    Len(used) = Posted + (IF router = "post" THEN 1 ELSE 0)

\* No request is answered twice, and one-way requests are never answered: need_reply
\* is left to several interfaces in turn, and the handler replies on its own.
RepliesAtMostOnce == ~failed => \A r \in Request :
    replies[r] <= (IF class[r].kind = "oneway" THEN 0 ELSE 1)

\* When stop() has returned and no start() has failed, no thread is left behind.
StopLeavesNobody == app = "idle" /\ ~bRunning /\ ~failed =>
    router = "off" /\ \A th \in Thread : task[th] = "off"

\* A request that expects an answer and is in the server gets one as long as the
\* server runs, unless it fails in an interface that is not the last one.
InServer(r) == \/ \E i \in DOMAIN inbox : inbox[i] = r
               \/ router = "enqueue" /\ msg[rnode] = r
               \/ \E i \in DOMAIN used : msg[used[i]] = r
               \/ \E th \in Thread : tnode[th] # NoNode /\ msg[tnode[th]] = r
               \/ \E context \in contexts : context.request = r

Answered(r) == (Accepted(r) /\ class[r].kind = "method") \/ NeedReply(r)

RequestsAnswered == \A r \in Request :
    (Answered(r) /\ bRunning /\ InServer(r)) ~> (replies[r] = 1 \/ ~bRunning)

\* stop() returns if no start() has failed and there are more nodes than requests
\* that can still come or are on their way to a task.
Backlog == Len(used) + Len(inbox) + (MaxRequests - sent)
           + (IF router = "enqueue" THEN 1 ELSE 0)

StopReturns ==
    (app = "join router" /\ ~failed /\ Backlog < MsgNum) ~> (app = "idle")
=============================================================================
