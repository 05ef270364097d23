-------------------------- MODULE MsgBoxServerProofs --------------------------
(* Proofs about MsgBoxServer that hold for every number of dispatch tasks,     *)
(* message nodes, interfaces, requests and restarts.                           *)
EXTENDS MsgBoxServer, QueueLemmas, FiniteSetTheorems, TLAPS

\* A thread has a node exactly between taking it from a list and giving it back, and a
\* node that is listed or dispatched holds a request.
Hands ==
    /\ rnode # NoNode <=> router \in {"get", "enqueue"}
    /\ \A th \in Thread : tnode[th] # NoNode <=> task[th] \in {"dispatch", "reply", "release"}

Filled ==
    /\ router = "enqueue" => msg[rnode] # NoReq
    /\ \A i \in DOMAIN used : msg[used[i]] # NoReq
    /\ \A th \in Thread : tnode[th] # NoNode => msg[tnode[th]] # NoReq

\* Where the router can be in which phase of start() and stop(), and which threads.
Lifecycle ==
    /\ bRunning => app = "idle" /\ router \notin {"off", "done"}
    /\ app = "join router" => router # "off"
    /\ app = "join tasks" \/ (app = "idle" /\ ~bRunning) => router = "off"
    /\ \A th \in Thread : th[2] > starts => task[th] = "off"

OnlyLatest == ~failed => \A th \in Thread : th[2] # starts => task[th] = "off"

Inductive == /\ TypeOK /\ Hands /\ Filled /\ Lifecycle
             /\ OnlyLatest /\ StopLeavesNobody /\ NodesConserved

-----------------------------------------------------------------------------
(* Type correctness, one lemma per actor.                                  *)

LEMMA InitType == Init => TypeOK
<1> SUFFICES ASSUME Init PROVE TypeOK
  OBVIOUS
<1>1. LifeType /\ RouterType
  <2>1. 0 \in 0..(TaskNum - 1) /\ 0 \in 0..MaxStarts
    BY ParameterAssumption
  <2> QED
    BY <2>1 DEF Init, LifeType, RouterType, Task
<1>2. ClientType
  BY ParameterAssumption DEF Init, ClientType
<1>3. PoolType
  BY DEF Init, PoolType
<1>4. TaskType /\ HandlerType
  BY DEF Init, TaskType, HandlerType
<1> QED
  BY <1>1, <1>2, <1>3, <1>4 DEF TypeOK

LEMMA AppType ==
    ASSUME TypeOK, AppStep
    PROVE  TypeOK'
<1>1. LifeType'
  <2>1. starts' = starts \/ (starts < MaxStarts /\ starts' = starts + 1)
    BY DEF AppStep, InitServer, Start, StartFails, Stop, JoinRouter, JoinTasks, Destroy,
       CanStart, CreateTasks
  <2>2. starts' \in 0..MaxStarts
    <3>1. starts \in 0..MaxStarts /\ MaxStarts \in Nat
      BY ParameterAssumption DEF TypeOK, LifeType
    <3> QED
      BY <2>1, <3>1
  <2>3. /\ s_ins' \in {"null", "set", "initialized"} /\ bRunning' \in BOOLEAN
        /\ app' \in {"idle", "join router", "join tasks"} /\ failed' \in BOOLEAN
    BY DEF AppStep, InitServer, Start, StartFails, Stop, JoinRouter, JoinTasks, Destroy,
       TypeOK, LifeType
  <2> QED
    BY <2>2, <2>3 DEF LifeType
<1>2. ClientType'
  <2>1. (inbox' = inbox \/ inbox' = <<>>) /\ UNCHANGED clientVars
    BY DEF AppStep, InitServer, Start, StartFails, Stop, JoinRouter, JoinTasks, Destroy, clientVars
  <2> QED
    <3>1. inbox' \in Seq(Request)
      <4>1. inbox \in Seq(Request) /\ <<>> \in Seq(Request)
        BY DEF TypeOK, ClientType
      <4> QED
        BY <2>1, <4>1
    <3> QED
      BY <2>1, <3>1 DEF TypeOK, ClientType, clientVars
<1>3. PoolType'
  <2>1. /\ free' = free \/ free' = Node \/ free' = {}
        /\ used' = used \/ used' = <<>>
        /\ msg' = msg
    BY DEF AppStep, InitServer, Start, StartFails, Stop, JoinRouter, JoinTasks, Destroy,
       CreateTasks, poolVars
  <2> QED
    <3>1. used' \in Seq(Node)
      <4>1. used \in Seq(Node) /\ <<>> \in Seq(Node)
        BY DEF TypeOK, PoolType
      <4> QED
        BY <2>1, <4>1
    <3> QED
      BY <2>1, <3>1 DEF TypeOK, PoolType
<1>4. RouterType'
  <2>1. /\ router' \in {router, "query", "off"} /\ rnode' = rnode
        /\ index' \in {index, 0}
    BY DEF AppStep, InitServer, Start, StartFails, Stop, JoinRouter, JoinTasks, Destroy,
       routerVars
  <2> QED
    BY <2>1, ParameterAssumption DEF TypeOK, RouterType, Task
<1>5. TaskType'
  <2>1. sem' = sem \/ sem' = [t \in Task |-> 0] \/ sem' = [t \in Task |-> sem[t] + 1]
    BY DEF AppStep, InitServer, Start, StartFails, Stop, JoinRouter, JoinTasks, Destroy,
       CreateTasks
  <2>2. sem' \in [Task -> Nat]
    BY <2>1 DEF TypeOK, TaskType
  <2>3. \/ task' = task
        \/ task' = [th \in Thread |-> IF th[2] = starts + 1 THEN "wait" ELSE task[th]]
        \/ task' = [th \in Thread |-> IF th[2] = starts THEN "off" ELSE task[th]]
    BY DEF AppStep, InitServer, Start, StartFails, Stop, JoinRouter, JoinTasks, Destroy,
       CreateTasks, taskVars
  <2>4. tnode' = tnode
    BY DEF AppStep, InitServer, Start, StartFails, Stop, JoinRouter, JoinTasks, Destroy, taskVars
  <2> QED
    BY <2>2, <2>3, <2>4 DEF TypeOK, TaskType
<1>6. HandlerType'
  <2>1. UNCHANGED handlerVars
    BY DEF AppStep, InitServer, Start, StartFails, Stop, JoinRouter, JoinTasks, Destroy
  <2> QED
    BY <2>1 DEF TypeOK, HandlerType, handlerVars
<1> QED
  BY <1>1, <1>2, <1>3, <1>4, <1>5, <1>6 DEF TypeOK

LEMMA SendType ==
    ASSUME TypeOK, Send
    PROVE  TypeOK'
<1>1. ClientType'
  <2>1. sent + 1 \in Request /\ sent + 1 \in 0..MaxRequests
    BY ParameterAssumption DEF Send, TypeOK, ClientType, Request
  <2> QED
    BY <2>1 DEF Send, TypeOK, ClientType
<1>2. UNCHANGED <<lifeVars, poolVars, routerVars, sem, taskVars, handlerVars>>
  BY DEF Send
<1> QED
  BY <1>1, <1>2 DEF TypeOK, LifeType, PoolType, RouterType, TaskType, HandlerType, lifeVars,
     poolVars, routerVars, taskVars, handlerVars

LEMMA RouterKeepsType ==
    ASSUME TypeOK, Hands, RouterStep
    PROVE  TypeOK'
<1>1. UNCHANGED <<lifeVars, clientVars, taskVars, handlerVars>>
  BY DEF RouterStep, Query, LeaveRouter, Receive, Released, TakeNode, GetMsg, PutBack, Enqueue, Post
<1>2. LifeType' /\ HandlerType'
  BY <1>1 DEF TypeOK, LifeType, HandlerType, lifeVars, handlerVars
<1>3. ClientType'
  <2>1. inbox' = inbox \/ (inbox # <<>> /\ inbox' = Tail(inbox))
    BY DEF RouterStep, Query, LeaveRouter, Receive, Released, TakeNode, GetMsg, PutBack, Enqueue, Post
  <2> QED
    BY <1>1, <2>1 DEF TypeOK, ClientType, clientVars
<1>4. PoolType' /\ RouterType' /\ TaskType'
  <2>1. CASE Query \/ LeaveRouter \/ Receive \/ Released
    BY <1>1, <2>1 DEF Query, LeaveRouter, Receive, Released,
           TypeOK, PoolType, RouterType, TaskType, poolVars,
       taskVars
  <2>2. CASE TakeNode
    BY <1>1, <2>2 DEF TakeNode, TypeOK, PoolType, RouterType, TaskType, taskVars
  <2>3. CASE GetMsg
    <3>1. Head(inbox) \in Request
      BY <2>3 DEF GetMsg, TypeOK, ClientType
    <3> QED
      BY <1>1, <2>3, <3>1 DEF GetMsg, TypeOK, PoolType, RouterType, TaskType, taskVars
  <2>4. CASE PutBack
    <3>1. rnode \in Node
      BY <2>4 DEF PutBack, Hands, TypeOK, RouterType
    <3> QED
      BY <1>1, <2>4, <3>1 DEF PutBack, TypeOK, PoolType, RouterType, TaskType, taskVars
  <2>5. CASE Enqueue
    <3>1. rnode \in Node
      BY <2>5 DEF Enqueue, Hands, TypeOK, RouterType
    <3> QED
      BY <1>1, <2>5, <3>1 DEF Enqueue, TypeOK, PoolType, RouterType, TaskType, taskVars
  <2>6. CASE Post
    <3>1. (index + 1) % TaskNum \in Task
      BY ParameterAssumption DEF TypeOK, RouterType, Task
    <3> QED
      BY <1>1, <2>6, <3>1 DEF Post, TypeOK, PoolType, RouterType, TaskType, poolVars, taskVars
  <2> QED
    BY <2>1, <2>2, <2>3, <2>4, <2>5, <2>6 DEF RouterStep
<1> QED
  BY <1>2, <1>3, <1>4 DEF TypeOK

LEMMA TaskKeepsType ==
    ASSUME TypeOK, Hands, Filled, NEW th \in Thread, TaskStep(th)
    PROVE  TypeOK'
<1>1. UNCHANGED <<lifeVars, clientVars, inbox, routerVars, msg>>
  BY DEF TaskStep, Wake, Leave, Dequeue, Handle, Answer, Release, poolVars
<1>2. LifeType' /\ ClientType' /\ RouterType'
  BY <1>1 DEF TypeOK, LifeType, ClientType, RouterType, lifeVars, clientVars, routerVars
<1>3. PoolType' /\ TaskType'
  <2>1. CASE Wake(th)
    <3>1. th[1] \in Task
      BY DEF Thread
    <3>2. sem' \in [Task -> Nat]
      BY <2>1, <3>1 DEF Wake, TypeOK, TaskType
    <3> QED
      BY <2>1, <3>2 DEF Wake, TypeOK, PoolType, TaskType, poolVars
  <2>2. CASE Leave(th)
    BY <2>2 DEF Leave, TypeOK, PoolType, TaskType, poolVars
  <2>3. CASE Dequeue(th)
    <3>1. used \in Seq(Node)
      BY DEF TypeOK, PoolType
    <3>2. CASE used = <<>>
      BY <1>1, <2>3, <3>2 DEF Dequeue, TypeOK, PoolType, TaskType
    <3>3. CASE used # <<>>
      <4>1. Head(used) \in Node /\ Tail(used) \in Seq(Node)
        BY <3>1, <3>3, TailContents
      <4> QED
        BY <1>1, <2>3, <3>3, <4>1 DEF Dequeue, TypeOK, PoolType, TaskType
    <3> QED
      BY <3>2, <3>3
  <2>4. CASE Handle(th) \/ Answer(th)
    BY <2>4 DEF Handle, Answer, TypeOK, PoolType, TaskType, poolVars
  <2>5. CASE Release(th)
    <3>1. tnode[th] \in Node
      BY <2>5 DEF Release, Hands, TypeOK, TaskType
    <3> QED
      BY <1>1, <2>5, <3>1 DEF Release, TypeOK, PoolType, TaskType
  <2> QED
    BY <2>1, <2>2, <2>3, <2>4, <2>5 DEF TaskStep
<1>4. HandlerType'
  <2>1. CASE Handle(th)
    <3>1. tnode[th] \in Node /\ msg[tnode[th]] \in Request
      BY <2>1 DEF Handle, Hands, Filled, TypeOK, TaskType, PoolType
    <3> QED
      BY <2>1, <3>1 DEF Handle, Context, TypeOK, HandlerType
  <2>2. CASE Answer(th)
    <3>1. replies' = replies \/ \E r \in {msg[tnode[th]]} : replies' = [replies EXCEPT ![r] = @ + 1]
      BY <2>2 DEF Answer
    <3>2. replies' \in [Request -> Nat]
      BY <3>1 DEF TypeOK, HandlerType
    <3> QED
      BY <2>2, <3>2 DEF Answer, TypeOK, HandlerType
  <2>3. CASE ~(Handle(th) \/ Answer(th))
    BY <2>3 DEF TaskStep, Wake, Leave, Dequeue, Release, handlerVars, TypeOK, HandlerType
  <2> QED
    BY <2>1, <2>2, <2>3
<1> QED
  BY <1>2, <1>3, <1>4 DEF TypeOK

LEMMA ReplyKeepsType ==
    ASSUME TypeOK, ReplyMethod
    PROVE  TypeOK'
<1>1. UNCHANGED <<lifeVars, clientVars, inbox, poolVars, routerVars, sem, taskVars>>
  BY DEF ReplyMethod
<1>2. HandlerType'
  BY DEF ReplyMethod, Addressee, TypeOK, HandlerType
<1> QED
  BY <1>1, <1>2 DEF TypeOK, LifeType, ClientType, PoolType, RouterType, TaskType, lifeVars,
     clientVars, poolVars, routerVars, taskVars

-----------------------------------------------------------------------------
(* Who holds what.                                                         *)

\* What an application step leaves alone.
LEMMA AppKeeps ==
    ASSUME AppStep
    PROVE  /\ rnode' = rnode /\ tnode' = tnode /\ msg' = msg
           /\ used' = used \/ used' = <<>>
  BY DEF AppStep, InitServer, Start, StartFails, Stop, JoinRouter, JoinTasks, Destroy,
     CreateTasks, poolVars, routerVars, taskVars

LEMMA HandsStep ==
    ASSUME TypeOK, Hands, Lifecycle, [Next]_vars
    PROVE  Hands'
<1>0. /\ rnode \in {NoNode} \cup Node /\ NoNode \notin Node
      /\ tnode \in [Thread -> {NoNode} \cup Node]
      /\ task \in [Thread -> {"off", "wait", "woken", "dispatch", "reply", "release", "done"}]
  BY DEF TypeOK, RouterType, TaskType, NoNode, Node
<1>1. CASE AppStep
  <2>1. rnode' = rnode /\ tnode' = tnode
    BY <1>1, AppKeeps
  <2>2. \/ router' = router
        \/ router \in {"off", "done"} /\ router' \in {"query", "off"}
    BY <1>1 DEF AppStep, InitServer, Start, StartFails, Stop, JoinRouter, JoinTasks, Destroy,
       CanStart, Lifecycle, routerVars
  <2>3. \A th \in Thread : \/ task'[th] = task[th]
                           \/ task[th] \in {"off", "done"} /\ task'[th] \in {"wait", "off"}
    <3>1. CASE Start \/ StartFails
      <4>1. task' = [th \in Thread |-> IF th[2] = starts + 1 THEN "wait" ELSE task[th]]
        BY <3>1 DEF Start, StartFails, CreateTasks
      <4>2. \A th \in Thread : th[2] = starts + 1 => task[th] = "off"
        <5>1. starts \in 0..MaxStarts /\ MaxStarts \in Nat
          BY ParameterAssumption DEF TypeOK, LifeType
        <5>2. starts + 1 > starts
          BY <5>1
        <5> QED
          BY <5>2 DEF Lifecycle
      <4> QED
        BY <4>1, <4>2
    <3>2. CASE JoinTasks
      <4>1. task' = [th \in Thread |-> IF th[2] = starts THEN "off" ELSE task[th]]
        BY <3>2 DEF JoinTasks
      <4>2. ASSUME NEW th \in Thread, th[2] = starts PROVE task[th] = "done"
        <5>1. th = <<th[1], starts>> /\ th[1] \in Task
          BY <4>2 DEF Thread
        <5> QED
          BY <3>2, <5>1 DEF JoinTasks
      <4> QED
        BY <4>1, <4>2
    <3>3. CASE task' = task
      BY <3>3
    <3> QED
      BY <1>1, <3>1, <3>2, <3>3 DEF AppStep, InitServer, Stop, JoinRouter, Destroy, taskVars
  <2> QED
    BY <2>1, <2>2, <2>3 DEF Hands
<1>2. CASE RouterStep
  <2>1. task' = task /\ tnode' = tnode
    BY <1>2 DEF RouterStep, Query, LeaveRouter, Receive, Released,
           TakeNode, GetMsg, PutBack, Enqueue, Post,
       taskVars
  <2>2. rnode' # NoNode <=> router' \in {"get", "enqueue"}
    <3>1. CASE TakeNode
      BY <1>0, <3>1 DEF TakeNode, Hands, TypeOK, PoolType
    <3>2. CASE GetMsg
      BY <3>2 DEF GetMsg, Hands
    <3>3. CASE ~(TakeNode \/ GetMsg)
      BY <1>2, <3>3 DEF RouterStep, Query, LeaveRouter, Receive, Released,
             PutBack, Enqueue, Post, Hands
    <3> QED
      BY <3>1, <3>2, <3>3
  <2> QED
    BY <2>1, <2>2 DEF Hands
<1>3. ASSUME NEW th \in Thread, TaskStep(th) PROVE Hands'
  <2>1. UNCHANGED routerVars
    BY <1>3 DEF TaskStep, Wake, Leave, Dequeue, Handle, Answer, Release
  <2>2. \A t \in Thread \ {th} : task'[t] = task[t] /\ tnode'[t] = tnode[t]
    BY <1>0, <1>3 DEF TaskStep, Wake, Leave, Dequeue, Handle, Answer, Release
  <2>3. tnode'[th] # NoNode <=> task'[th] \in {"dispatch", "reply", "release"}
    <3>1. CASE Dequeue(th)
      <4>1. used # <<>> => Head(used) \in Node
        BY TailContents DEF TypeOK, PoolType
      <4> QED
        BY <1>0, <3>1, <4>1 DEF Dequeue, Hands
    <3>2. CASE ~Dequeue(th)
      BY <1>0, <1>3, <3>2 DEF TaskStep, Wake, Leave, Handle, Answer, Release, Hands
    <3> QED
      BY <3>1, <3>2
  <2> QED
    BY <2>1, <2>2, <2>3 DEF Hands, routerVars
<1>4. CASE Send \/ ReplyMethod \/ UNCHANGED vars
  BY <1>4 DEF Send, ReplyMethod, vars, Hands, routerVars, taskVars
<1> QED
  BY <1>1, <1>2, <1>3, <1>4 DEF Next

LEMMA FilledStep ==
    ASSUME TypeOK, Hands, Filled, [Next]_vars
    PROVE  Filled'
<1>0. /\ used \in Seq(Node) /\ inbox \in Seq(Request) /\ NoReq \notin Request
      /\ msg \in [Node -> {NoReq} \cup Request]
      /\ \A th \in Thread : tnode[th] \in {NoNode} \cup Node
      /\ tnode \in [Thread -> {NoNode} \cup Node] /\ NoNode \notin Node
      /\ rnode \in {NoNode} \cup Node
  BY DEF TypeOK, PoolType, ClientType, TaskType, RouterType, NoReq, Request, NoNode, Node
<1>1. CASE AppStep
  <2>1. /\ rnode' = rnode /\ tnode' = tnode /\ msg' = msg
        /\ used' = used \/ used' = <<>>
    BY <1>1, AppKeeps
  <2>2. router' = "enqueue" => router = "enqueue"
    BY <1>1 DEF AppStep, InitServer, Start, StartFails, Stop, JoinRouter, JoinTasks, Destroy,
       routerVars
  <2> QED
    BY <2>1, <2>2 DEF Filled
<1>2. CASE RouterStep
  <2>1. tnode' = tnode
    BY <1>2 DEF RouterStep, Query, LeaveRouter, Receive, Released,
           TakeNode, GetMsg, PutBack, Enqueue, Post,
       taskVars
  <2>2. CASE GetMsg
    <3>1. Head(inbox) \in Request /\ rnode \in Node
      BY <1>0, <2>2 DEF GetMsg, Hands
    <3>2. msg'[rnode] # NoReq /\ \A n \in Node : msg[n] # NoReq => msg'[n] # NoReq
      BY <1>0, <2>2, <3>1 DEF GetMsg
    <3>3. \A i \in DOMAIN used : used[i] \in Node
      BY <1>0
    <3> QED
      BY <1>0, <2>1, <2>2, <3>2, <3>3 DEF GetMsg, Filled
  <2>3. CASE Enqueue
    <3>1. rnode \in Node
      BY <1>0, <2>3 DEF Enqueue, Hands
    <3>2. \A i \in DOMAIN used' : used'[i] = rnode \/ \E j \in DOMAIN used : used'[i] = used[j]
      BY <1>0, <2>3, <3>1 DEF Enqueue
    <3> QED
      BY <2>1, <2>3, <3>2 DEF Enqueue, Filled
  <2>4. CASE ~(GetMsg \/ Enqueue)
    BY <1>2, <2>1, <2>4 DEF RouterStep, Query, LeaveRouter, Receive, Released,
           TakeNode, PutBack, Post, Filled,
       poolVars
  <2> QED
    BY <2>2, <2>3, <2>4
<1>3. ASSUME NEW th \in Thread, TaskStep(th) PROVE Filled'
  <2>1. UNCHANGED <<routerVars, msg>>
    BY <1>3 DEF TaskStep, Wake, Leave, Dequeue, Handle, Answer, Release, poolVars
  <2>2. CASE Dequeue(th) /\ used # <<>>
    <3>1. /\ \A i \in DOMAIN Tail(used) : \E j \in DOMAIN used : Tail(used)[i] = used[j]
          /\ \E j \in DOMAIN used : Head(used) = used[j]
      BY <1>0, <2>2
    <3>2. /\ used' = Tail(used)
          /\ \A t \in Thread : tnode'[t] = Head(used) \/ tnode'[t] = tnode[t]
      BY <1>0, <2>2 DEF Dequeue
    <3> QED
      BY <2>1, <3>1, <3>2 DEF Filled, routerVars
  <2>3. CASE ~(Dequeue(th) /\ used # <<>>)
    <3>1. used' = used /\ \A t \in Thread : tnode'[t] \in {NoNode, tnode[t]}
      BY <1>0, <1>3, <2>3 DEF TaskStep, Wake, Leave, Dequeue, Handle, Answer, Release, poolVars
    <3> QED
      BY <2>1, <3>1 DEF Filled, routerVars
  <2> QED
    BY <2>2, <2>3
<1>4. CASE Send \/ ReplyMethod \/ UNCHANGED vars
  BY <1>4 DEF Send, ReplyMethod, vars, Filled, routerVars, taskVars, poolVars
<1> QED
  BY <1>1, <1>2, <1>3, <1>4 DEF Next

-----------------------------------------------------------------------------
(* start() and stop().                                                     *)

LEMMA LifecycleStep ==
    ASSUME TypeOK, Lifecycle, OnlyLatest, StopLeavesNobody, [Next]_vars
    PROVE  Lifecycle' /\ OnlyLatest' /\ StopLeavesNobody'
<1>0. /\ starts \in 0..MaxStarts /\ MaxStarts \in Nat
      /\ task \in [Thread -> {"off", "wait", "woken", "dispatch", "reply", "release", "done"}]
      /\ \A th \in Thread : th[2] \in 1..MaxStarts
  BY ParameterAssumption DEF TypeOK, LifeType, TaskType, Thread
<1>1. CASE Start \/ StartFails
  <2>1. /\ app = "idle" /\ ~bRunning /\ app' = app /\ starts' = starts + 1
        /\ \A th \in Thread : task'[th] = IF th[2] = starts + 1 THEN "wait" ELSE task[th]
    BY <1>1 DEF Start, StartFails, CanStart, CreateTasks
  <2>2. router = "off"
    BY <2>1 DEF Lifecycle
  <2>3. Lifecycle'
    <3>1. /\ bRunning' => router' = "query"
          /\ ~bRunning' => router' = "off"
      BY <1>1, <2>1, <2>2 DEF Start, StartFails, routerVars
    <3>2. \A th \in Thread : th[2] > starts + 1 => task'[th] = "off"
      BY <1>0, <2>1 DEF Lifecycle
    <3> QED
      BY <2>1, <3>1, <3>2 DEF Lifecycle
  <2>4. CASE Start
    <3>1. ~failed => \A th \in Thread : task[th] = "off"
      BY <2>1 DEF StopLeavesNobody
    <3> QED
      BY <2>1, <2>3, <2>4, <3>1 DEF Start, OnlyLatest, StopLeavesNobody
  <2>5. CASE StartFails
    BY <2>3, <2>5 DEF StartFails, OnlyLatest, StopLeavesNobody
  <2> QED
    BY <1>1, <2>4, <2>5
<1>2. CASE JoinTasks
  <2>1. \A th \in Thread : task'[th] = IF th[2] = starts THEN "off" ELSE task[th]
    BY <1>2 DEF JoinTasks
  <2> QED
    BY <1>2, <2>1 DEF JoinTasks, Lifecycle, OnlyLatest, StopLeavesNobody, routerVars
<1>3. CASE InitServer \/ Stop \/ JoinRouter \/ Destroy
  <2>1. task' = task /\ starts' = starts /\ failed' = failed
    BY <1>3 DEF InitServer, Stop, JoinRouter, Destroy, taskVars
  <2>2. Lifecycle' /\ OnlyLatest'
    <3>1. /\ OnlyLatest'
          /\ \A th \in Thread : th[2] > starts' => task'[th] = "off"
      BY <2>1 DEF Lifecycle, OnlyLatest
    <3>2. /\ bRunning' => app' = "idle" /\ router' \notin {"off", "done"}
          /\ app' = "join router" => router' # "off"
          /\ app' = "join tasks" \/ (app' = "idle" /\ ~bRunning') => router' = "off"
      <4>1. CASE InitServer \/ Destroy
        <5>1. bRunning' = bRunning /\ app' = app /\ router' = router
          BY <4>1 DEF InitServer, Destroy, routerVars
        <5> QED
          BY <5>1 DEF Lifecycle
      <4>2. CASE Stop
        BY <4>2 DEF Stop, Lifecycle, routerVars
      <4>3. CASE JoinRouter
        BY <4>3 DEF JoinRouter, Lifecycle
      <4> QED
        BY <1>3, <4>1, <4>2, <4>3
    <3> QED
      BY <3>1, <3>2 DEF Lifecycle
  <2>3. StopLeavesNobody'
    <3>1. CASE InitServer \/ Destroy
      BY <2>1, <3>1 DEF InitServer, Destroy, StopLeavesNobody, routerVars
    <3>2. CASE Stop \/ JoinRouter
      BY <3>2 DEF Stop, JoinRouter, StopLeavesNobody
    <3> QED
      BY <1>3, <3>1, <3>2
  <2> QED
    BY <2>2, <2>3
<1>4. CASE RouterStep
  <2>1. UNCHANGED <<lifeVars, task>>
    BY <1>4 DEF RouterStep, Query, LeaveRouter, Receive, Released,
           TakeNode, GetMsg, PutBack, Enqueue, Post,
       taskVars
  <2>2. router # "off" /\ router' # "off" /\ (router' = "done" => ~bRunning)
    BY <1>4 DEF RouterStep, Query, LeaveRouter, Receive, Released,
           TakeNode, GetMsg, PutBack, Enqueue, Post
  <2> QED
    BY <2>1, <2>2 DEF lifeVars, Lifecycle, OnlyLatest, StopLeavesNobody
<1>5. ASSUME NEW th \in Thread, TaskStep(th)
      PROVE  Lifecycle' /\ OnlyLatest' /\ StopLeavesNobody'
  <2>1. UNCHANGED <<lifeVars, routerVars>>
    BY <1>5 DEF TaskStep, Wake, Leave, Dequeue, Handle, Answer, Release
  <2>2. task[th] # "off" /\ \A t \in Thread : t # th => task'[t] = task[t]
    BY <1>0, <1>5 DEF TaskStep, Wake, Leave, Dequeue, Handle, Answer, Release
  <2> QED
    BY <2>1, <2>2 DEF lifeVars, routerVars, Lifecycle, OnlyLatest, StopLeavesNobody
<1>6. CASE Send \/ ReplyMethod \/ UNCHANGED vars
  <2>1. UNCHANGED <<lifeVars, routerVars, task>>
    BY <1>6 DEF Send, ReplyMethod, vars, taskVars
  <2> QED
    BY <2>1 DEF lifeVars, routerVars, Lifecycle, OnlyLatest, StopLeavesNobody
<1> QED
  BY <1>1, <1>2, <1>3, <1>4, <1>5, <1>6 DEF Next, AppStep
-----------------------------------------------------------------------------
(* The nodes.                                                              *)

\* Conservation as a statement about where the nodes are now and nothing else.
Conserved ==
    /\ \A n \in Node : n \in free \/ InUsed(n) \/ n = rnode \/ Taken(n)
    /\ \A n \in free : ~InUsed(n) /\ n # rnode /\ ~Taken(n)
    /\ \A i, j \in DOMAIN used : used[i] = used[j] => i = j
    /\ \A i \in DOMAIN used : used[i] # rnode /\ ~Taken(used[i])
    /\ \A th \in Thread : tnode[th] # NoNode =>
          tnode[th] # rnode /\ \A th2 \in Thread : tnode[th2] = tnode[th] => th2 = th

LEMMA RouterConserves ==
    ASSUME TypeOK, Hands, Conserved, RouterStep
    PROVE  Conserved'
<1>0. /\ used \in Seq(Node) /\ free \subseteq Node
      /\ NoNode \notin Node /\ rnode \in {NoNode} \cup Node
      /\ tnode \in [Thread -> {NoNode} \cup Node]
  BY DEF TypeOK, PoolType, TaskType, RouterType, NoNode, Node
<1>1. tnode' = tnode
  BY DEF RouterStep, Query, LeaveRouter, Receive, Released,
         TakeNode, GetMsg, PutBack, Enqueue, Post, taskVars
<1>2. CASE TakeNode
  <2>1. rnode = NoNode /\ used' = used
    BY <1>2 DEF TakeNode, Hands
  <2>2. PICK n \in free : rnode' = n /\ free' = free \ {n}
    BY <1>2 DEF TakeNode
  <2> QED
    BY <1>0, <1>1, <2>1, <2>2 DEF Conserved, InUsed, Taken
<1>3. CASE PutBack
  <2>1. /\ rnode \in Node /\ used' = used /\ rnode' = NoNode /\ free' = free \cup {rnode}
    BY <1>0, <1>3 DEF PutBack, Hands
  <2> QED
    BY <1>0, <1>1, <2>1 DEF Conserved, InUsed, Taken
<1>4. CASE Enqueue
  <2>1. /\ rnode \in Node /\ used' = Append(used, rnode) /\ rnode' = NoNode /\ free' = free
    BY <1>0, <1>4 DEF Enqueue, Hands
  <2>2. /\ DOMAIN used' = DOMAIN used \cup {Len(used) + 1} /\ Len(used) + 1 \notin DOMAIN used
        /\ used'[Len(used) + 1] = rnode /\ \A i \in DOMAIN used : used'[i] = used[i]
        /\ \A i \in DOMAIN used : used[i] \in Node
    BY <1>0, <2>1
  <2>3. \A n : InUsed(n)' <=> (InUsed(n) \/ n = rnode)
    BY <2>2 DEF InUsed
  <2>4. \A n : Taken(n)' <=> Taken(n)
    BY <1>1 DEF Taken
  <2>5. \A i, j \in DOMAIN used' : used'[i] = used'[j] => i = j
    BY <2>2 DEF Conserved
  <2>6. ~Taken(rnode) /\ ~InUsed(rnode) /\ rnode \notin free
    BY <1>0, <2>1 DEF Conserved, Taken, InUsed
  <2>7. \A i \in DOMAIN used' : used'[i] # rnode' /\ ~Taken(used[i])'
    BY <1>0, <2>1, <2>2, <2>4, <2>6 DEF Conserved
  <2>8. /\ \A n \in Node : (n \in free \/ InUsed(n) \/ n = rnode \/ Taken(n))'
        /\ \A n \in free' : (~InUsed(n) /\ n # rnode /\ ~Taken(n))'
    BY <1>0, <2>1, <2>3, <2>4, <2>6 DEF Conserved
  <2>9. \A th \in Thread : tnode'[th] # NoNode =>
          tnode'[th] # rnode' /\ \A th2 \in Thread : tnode'[th2] = tnode'[th] => th2 = th
    BY <1>1, <2>1 DEF Conserved
  <2> QED
    BY <2>5, <2>7, <2>8, <2>9 DEF Conserved, InUsed, Taken
<1>5. CASE ~(TakeNode \/ PutBack \/ Enqueue)
  <2>1. free' = free /\ used' = used /\ rnode' = rnode
    BY <1>5 DEF RouterStep, Query, LeaveRouter, Receive, Released, GetMsg, Post, poolVars
  <2> QED
    BY <1>1, <2>1 DEF Conserved, InUsed, Taken
<1> QED
  BY <1>2, <1>3, <1>4, <1>5

LEMMA TaskConserves ==
    ASSUME TypeOK, Hands, Conserved, NEW th \in Thread, TaskStep(th)
    PROVE  Conserved'
<1>0. /\ used \in Seq(Node) /\ free \subseteq Node
      /\ NoNode \notin Node /\ rnode \in {NoNode} \cup Node
      /\ tnode \in [Thread -> {NoNode} \cup Node]
  BY DEF TypeOK, PoolType, TaskType, RouterType, NoNode, Node
<1>1. rnode' = rnode
  BY DEF TaskStep, Wake, Leave, Dequeue, Handle, Answer, Release, routerVars
<1>2. CASE Dequeue(th) /\ used # <<>>
  <2>1. /\ used' = Tail(used) /\ free' = free /\ tnode' = [tnode EXCEPT ![th] = Head(used)]
        /\ tnode[th] = NoNode
    BY <1>0, <1>2 DEF Dequeue, Hands
  <2>2. /\ Len(used) \in Nat \ {0} /\ DOMAIN used = 1..Len(used)
        /\ DOMAIN used' = 1..(Len(used) - 1)
        /\ \A i \in DOMAIN used' : used'[i] = used[i + 1]
        /\ Head(used) = used[1] /\ 1 \in DOMAIN used
        /\ \A i \in DOMAIN used : used[i] \in Node
    BY <1>0, <1>2, <2>1
  <2>3. \A i \in DOMAIN used' : i + 1 \in DOMAIN used /\ i + 1 # 1
    BY <2>2
  <2>4. \A i \in DOMAIN used : i # 1 => i - 1 \in DOMAIN used' /\ used'[i - 1] = used[i]
    <3>1. ASSUME NEW i \in DOMAIN used, i # 1
          PROVE  i - 1 \in DOMAIN used' /\ used'[i - 1] = used[i]
      <4>1. i - 1 \in 1..(Len(used) - 1) /\ (i - 1) + 1 = i
        BY <2>2, <3>1
      <4> QED
        BY <2>2, <4>1
    <3> QED
      BY <3>1
  <2>5. ~Taken(used[1]) /\ used[1] # rnode /\ used[1] \notin free
    BY <2>2 DEF Conserved, InUsed
  <2>6. \A i \in DOMAIN used' : used'[i] # used[1]
    BY <2>2, <2>3 DEF Conserved
  <2>7. \A n : InUsed(n)' <=> (InUsed(n) /\ n # used[1])
    <3>1. ASSUME NEW n, InUsed(n)' PROVE InUsed(n) /\ n # used[1]
      BY <2>2, <2>3, <2>6, <3>1 DEF InUsed
    <3>2. ASSUME NEW n, InUsed(n), n # used[1] PROVE InUsed(n)'
      BY <2>4, <3>2 DEF InUsed
    <3> QED
      BY <3>1, <3>2
  <2>8. \A n \in Node : Taken(n)' <=> (Taken(n) \/ n = used[1])
    BY <1>0, <2>1, <2>2 DEF Taken
  <2>9. \A i, j \in DOMAIN used' : used'[i] = used'[j] => i = j
    <3>1. ASSUME NEW i \in DOMAIN used', NEW j \in DOMAIN used', used'[i] = used'[j]
          PROVE  i = j
      <4>1. i + 1 = j + 1
        BY <2>2, <2>3, <3>1 DEF Conserved
      <4> QED
        BY <2>2, <4>1
    <3> QED
      BY <3>1
  <2>10. \A i \in DOMAIN used' : used'[i] # rnode' /\ ~Taken(used[i])'
    <3>1. ASSUME NEW i \in DOMAIN used' PROVE used'[i] # rnode' /\ ~Taken(used[i])'
      <4>1. /\ used'[i] \in Node /\ used'[i] # rnode /\ ~Taken(used'[i])
        BY <2>2, <2>3 DEF Conserved
      <4> QED
        BY <1>1, <2>6, <2>8, <4>1
    <3> QED
      BY <3>1
  <2>11. /\ \A n \in Node : (n \in free \/ InUsed(n) \/ n = rnode \/ Taken(n))'
         /\ \A n \in free' : (~InUsed(n) /\ n # rnode /\ ~Taken(n))'
    BY <1>0, <1>1, <2>1, <2>5, <2>7, <2>8 DEF Conserved
  <2>12. ASSUME NEW t \in Thread, tnode'[t] # NoNode
         PROVE  tnode'[t] # rnode' /\ \A t2 \in Thread : tnode'[t2] = tnode'[t] => t2 = t
    <3>1. \A u \in Thread : tnode'[u] = IF u = th THEN used[1] ELSE tnode[u]
      BY <1>0, <2>1, <2>2
    <3>2. \A u \in Thread : tnode[u] # used[1]
      BY <2>5 DEF Taken
    <3> QED
      BY <1>1, <2>5, <2>12, <3>1, <3>2 DEF Conserved
  <2> QED
    BY <2>9, <2>10, <2>11, <2>12 DEF Conserved, InUsed, Taken
<1>3. CASE Release(th)
  <2>1. /\ used' = used /\ free' = free \cup {tnode[th]}
        /\ tnode' = [tnode EXCEPT ![th] = NoNode] /\ tnode[th] \in Node
    BY <1>0, <1>3 DEF Release, Hands
  <2>2. \A n \in Node : Taken(n)' <=> (Taken(n) /\ n # tnode[th])
    BY <1>0, <2>1 DEF Taken, Conserved
  <2>3. \A n : InUsed(n)' <=> InUsed(n)
    BY <2>1 DEF InUsed
  <2>4. ~InUsed(tnode[th]) /\ tnode[th] # rnode /\ Taken(tnode[th])
    <3>1. Taken(tnode[th])
      BY DEF Taken
    <3> QED
      BY <1>0, <2>1, <3>1 DEF Conserved, InUsed
  <2>5. \A i \in DOMAIN used : used[i] \in Node
    BY <1>0
  <2>6. /\ \A n \in Node : (n \in free \/ InUsed(n) \/ n = rnode \/ Taken(n))'
        /\ \A n \in free' : (~InUsed(n) /\ n # rnode /\ ~Taken(n))'
    BY <1>0, <1>1, <2>1, <2>2, <2>3, <2>4 DEF Conserved
  <2>7. \A i \in DOMAIN used' : used'[i] # rnode' /\ ~Taken(used[i])'
    BY <1>1, <2>1, <2>2, <2>5 DEF Conserved
  <2>8. \A t \in Thread : tnode'[t] # NoNode =>
          tnode'[t] # rnode' /\ \A t2 \in Thread : tnode'[t2] = tnode'[t] => t2 = t
    BY <1>0, <1>1, <2>1 DEF Conserved
  <2> QED
    BY <2>1, <2>6, <2>7, <2>8 DEF Conserved, InUsed, Taken
<1>4. CASE ~(Dequeue(th) /\ used # <<>>) /\ ~Release(th)
  <2>1. free' = free /\ used' = used /\ tnode' = tnode
    BY <1>4 DEF TaskStep, Wake, Leave, Dequeue, Handle, Answer, poolVars
  <2> QED
    BY <1>1, <2>1 DEF Conserved, InUsed, Taken
<1> QED
  BY <1>2, <1>3, <1>4

LEMMA NodesStep ==
    ASSUME TypeOK, Hands, Lifecycle, StopLeavesNobody, NodesConserved, [Next]_vars
    PROVE  NodesConserved'
<1> SUFFICES ASSUME Active', ~failed' PROVE Conserved'
  BY DEF NodesConserved, Conserved
<1>1. CASE Start
  <2>1. /\ ~failed /\ app = "idle" /\ ~bRunning
        /\ free' = Node /\ used' = <<>> /\ rnode' = rnode /\ tnode' = tnode
    BY <1>1 DEF Start, CanStart, CreateTasks
  <2>2. router = "off" /\ \A th \in Thread : task[th] = "off"
    BY <2>1 DEF StopLeavesNobody
  <2>3. rnode = NoNode /\ \A th \in Thread : tnode[th] = NoNode
    BY <2>2 DEF Hands
  <2>4. NoNode \notin Node
    BY DEF NoNode, Node
  <2> QED
    BY <2>1, <2>3, <2>4 DEF Conserved, InUsed, Taken
<1>2. CASE AppStep /\ ~Start
  <2>1. Active /\ ~failed /\ UNCHANGED <<poolVars, rnode, tnode>>
    <3>1. CASE InitServer \/ Destroy
      <4>1. UNCHANGED <<bRunning, app, failed, poolVars, routerVars, tnode>>
        BY <3>1 DEF InitServer, Destroy, taskVars
      <4> QED
        BY <4>1 DEF Active, routerVars
    <3>4. CASE Stop
      BY <3>4 DEF Stop, Active, routerVars, taskVars
    <3>5. CASE JoinRouter
      BY <3>5 DEF JoinRouter, Active, taskVars
    <3>2. CASE StartFails
      BY <3>2 DEF StartFails
    <3>3. CASE JoinTasks
      BY <3>3 DEF JoinTasks, Active, Lifecycle
    <3> QED
      BY <1>2, <3>1, <3>2, <3>3, <3>4, <3>5 DEF AppStep
  <2> QED
    BY <2>1 DEF NodesConserved, Conserved, InUsed, Taken, poolVars
<1>3. CASE RouterStep
  <2>1. UNCHANGED lifeVars
    BY <1>3 DEF RouterStep, Query, LeaveRouter, Receive, Released,
           TakeNode, GetMsg, PutBack, Enqueue, Post
  <2>2. Conserved
    BY <2>1 DEF lifeVars, Active, NodesConserved, Conserved
  <2> QED
    BY <1>3, <2>2, RouterConserves
<1>4. ASSUME NEW th \in Thread, TaskStep(th) PROVE Conserved'
  <2>1. UNCHANGED lifeVars
    BY <1>4 DEF TaskStep, Wake, Leave, Dequeue, Handle, Answer, Release
  <2>2. Conserved
    BY <2>1 DEF lifeVars, Active, NodesConserved, Conserved
  <2> QED
    BY <1>4, <2>2, TaskConserves
<1>5. CASE Send \/ ReplyMethod \/ UNCHANGED vars
  <2>1. UNCHANGED <<lifeVars, poolVars, rnode, tnode>>
    BY <1>5 DEF Send, ReplyMethod, vars, routerVars, taskVars
  <2> QED
    BY <2>1 DEF lifeVars, Active, poolVars, NodesConserved, Conserved, InUsed, Taken
<1> QED
  BY <1>1, <1>2, <1>3, <1>4, <1>5 DEF Next

-----------------------------------------------------------------------------
(* Requests and their answers.                                             *)

\* Nodes that hold a request, and those whose request no handler has seen yet.
Holding(n) == (router = "enqueue" /\ rnode = n) \/ InUsed(n) \/ Taken(n)

Waiting(n) == \/ router = "enqueue" /\ rnode = n
              \/ InUsed(n)
              \/ \E th \in Thread : tnode[th] = n /\ task[th] = "dispatch"

\* Nothing has been replied to r, and no handler can.
Fresh(r) == replies[r] = 0 /\ \A context \in contexts : context.request # r

Distinct ==
    /\ \A i, j \in DOMAIN inbox : inbox[i] = inbox[j] => i = j
    /\ \A m, n \in Node : Holding(m) /\ Holding(n) /\ msg[m] = msg[n] => m = n
    /\ \A n \in Node : Holding(n) => \A i \in DOMAIN inbox : inbox[i] # msg[n]

Numbered ==
    /\ \A i \in DOMAIN inbox : inbox[i] <= sent
    /\ \A n \in Node : Holding(n) => msg[n] <= sent
    /\ \A r \in Request : r > sent => Fresh(r)

Unanswered ==
    /\ \A i \in DOMAIN inbox : Fresh(inbox[i])
    /\ \A n \in Node : Waiting(n) => Fresh(msg[n])

Handled == \A th \in Thread : task[th] = "reply" =>
    Accepted(msg[tnode[th]]) /\ class[msg[tnode[th]]].kind # "subscribe"

Contexts == \A context \in contexts :
    /\ class[context.request].kind = "method" /\ replies[context.request] = 0
    /\ \A other \in contexts : other.request = context.request => other = context

AtMostOnce == \A r \in Request : replies[r] <= (IF class[r].kind = "oneway" THEN 0 ELSE 1)

Once == Distinct /\ Numbered /\ Unanswered /\ Handled /\ Contexts /\ AtMostOnce

\* A step that sends and answers nothing, and only takes requests away or moves them on.
LEMMA OnceShrinks ==
    ASSUME TypeOK, Once,
           UNCHANGED <<sent, class, contexts, replies>>,
           inbox' = inbox \/ inbox' = <<>>,
           \A n \in Node : Holding(n)' => Holding(n) /\ msg'[n] = msg[n],
           \A n \in Node : Waiting(n)' => Waiting(n) /\ Holding(n)',
           \A th \in Thread : task'[th] = "reply" =>
                task[th] = "reply" /\ tnode'[th] = tnode[th]
                /\ msg'[tnode[th]] = msg[tnode[th]]
    PROVE  Once'
<1>1. \A r : Fresh(r)' <=> Fresh(r)
  BY DEF Fresh
<1>2. \A i \in DOMAIN inbox' : i \in DOMAIN inbox /\ inbox'[i] = inbox[i]
  OBVIOUS
<1>3. Distinct'
  BY <1>2 DEF Once, Distinct
<1>4. Numbered'
  BY <1>1, <1>2 DEF Once, Numbered
<1>5. Unanswered'
  <2>1. \A i \in DOMAIN inbox' : Fresh(inbox[i])'
    BY <1>1, <1>2 DEF Once, Unanswered, Fresh
  <2>2. ASSUME NEW n \in Node, Waiting(n)' PROVE Fresh(msg[n])'
    BY <1>1, <2>2 DEF Once, Unanswered, Fresh
  <2> QED
    BY <2>1, <2>2 DEF Unanswered
<1>6. Handled' /\ Contexts' /\ AtMostOnce'
  BY DEF Once, Handled, Contexts, AtMostOnce, Accepted
<1> QED
  BY <1>3, <1>4, <1>5, <1>6 DEF Once

LEMMA AppOnce ==
    ASSUME TypeOK, Once, AppStep
    PROVE  Once'
<1>1. /\ UNCHANGED <<sent, class, contexts, replies, rnode, tnode, msg>>
      /\ inbox' = inbox \/ inbox' = <<>>
      /\ used' = used \/ used' = <<>>
      /\ router' = "enqueue" => router = "enqueue"
  BY DEF AppStep, InitServer, Start, StartFails, Stop, JoinRouter, JoinTasks, Destroy,
     CreateTasks, clientVars, poolVars, routerVars, taskVars, handlerVars
<1>2. \A th \in Thread : task'[th] \in {"dispatch", "reply"} => task'[th] = task[th]
  <2>1. \/ task' = task
        \/ task' = [th \in Thread |-> IF th[2] = starts + 1 THEN "wait" ELSE task[th]]
        \/ task' = [th \in Thread |-> IF th[2] = starts THEN "off" ELSE task[th]]
    BY DEF AppStep, InitServer, Start, StartFails, Stop, JoinRouter, JoinTasks, Destroy,
       CreateTasks, taskVars
  <2> QED
    BY <2>1
<1>3. \A n \in Node : Holding(n)' => Holding(n) /\ msg'[n] = msg[n]
  BY <1>1 DEF Holding, InUsed, Taken
<1>4. \A n \in Node : Waiting(n)' => Waiting(n) /\ Holding(n)'
  <2>1. \A n \in Node : Waiting(n)' => Waiting(n)
    BY <1>1, <1>2 DEF Waiting, InUsed
  <2>2. \A n \in Node : Waiting(n)' => Holding(n)'
    BY DEF Waiting, Holding, Taken
  <2> QED
    BY <2>1, <2>2
<1>5. \A th \in Thread : task'[th] = "reply" =>
          task[th] = "reply" /\ tnode'[th] = tnode[th] /\ msg'[tnode[th]] = msg[tnode[th]]
  BY <1>1, <1>2
<1> QED
  BY <1>1, <1>3, <1>4, <1>5, OnceShrinks

\* A node that the router or a thread has is in nobody else's hands.
LEMMA Exclusive ==
    ASSUME TypeOK, Lifecycle, StopLeavesNobody, NodesConserved, ~failed,
           router # "off" \/ \E th \in Thread : task[th] # "off"
    PROVE  Conserved
<1>1. Active
  BY DEF StopLeavesNobody, Active, TypeOK, LifeType
<1> QED
  BY <1>1 DEF NodesConserved, Conserved

\* Every request that is somewhere in the server is a number.
LEMMA Numbers ==
    ASSUME TypeOK
    PROVE  /\ \A i \in DOMAIN inbox : inbox[i] \in Int
           /\ \A n \in Node : msg[n] \in Int
           /\ sent \in Int /\ \A r \in Request : r \in Int
<1>1. inbox \in Seq(Request) /\ Request \subseteq Int
  BY DEF TypeOK, ClientType, Request
<1>2. msg \in [Node -> {NoReq} \cup Request] /\ NoReq \in Int
  BY DEF TypeOK, PoolType, NoReq
<1>3. sent \in Int
  BY ParameterAssumption DEF TypeOK, ClientType
<1>4. \A i \in DOMAIN inbox : inbox[i] \in Int
  <2>1. \A i \in DOMAIN inbox : inbox[i] \in Request
    BY DEF TypeOK, ClientType
  <2> QED
    BY <1>1, <2>1
<1>5. \A n \in Node : msg[n] \in Int
  <2>1. \A n \in Node : msg[n] \in {NoReq} \cup Request
    BY <1>2
  <2> QED
    BY <1>1, <1>2, <2>1
<1> QED
  BY <1>1, <1>3, <1>4, <1>5

LEMMA RouterOnce ==
    ASSUME Inductive, Once, ~failed, RouterStep
    PROVE  Once'
<1>0. /\ inbox \in Seq(Request) /\ used \in Seq(Node)
      /\ NoNode \notin Node /\ rnode \in {NoNode} \cup Node
      /\ msg \in [Node -> {NoReq} \cup Request]
  BY DEF Inductive, TypeOK, ClientType, PoolType, RouterType, NoNode, Node
<1>1. UNCHANGED <<sent, class, contexts, replies, task, tnode>>
  BY DEF RouterStep, Query, LeaveRouter, Receive, Released,
         TakeNode, GetMsg, PutBack, Enqueue, Post, clientVars,
     taskVars, handlerVars
<1>2. \A r : Fresh(r)' <=> Fresh(r)
  BY <1>1 DEF Fresh
<1>3. CASE GetMsg
  <2>1. /\ router' = "enqueue" /\ rnode' = rnode /\ rnode \in Node /\ used' = used
        /\ msg'[rnode] = inbox[1]
        /\ \A n \in Node : n # rnode => msg'[n] = msg[n]
        /\ inbox # <<>> /\ inbox' = Tail(inbox) /\ router = "get"
    <3>1. rnode \in Node
      BY <1>0, <1>3 DEF GetMsg, Inductive, Hands
    <3> QED
      BY <1>0, <1>3, <3>1 DEF GetMsg
  <2>2. Conserved
    BY <2>1, Exclusive DEF Inductive
  <2>3. ~Holding(rnode) /\ ~Waiting(rnode)
    BY <1>0, <2>1, <2>2 DEF Conserved, Holding, Waiting, InUsed, Taken
  <2>4. \A n \in Node : /\ Holding(n)' <=> Holding(n) \/ n = rnode
                        /\ Waiting(n)' <=> Waiting(n) \/ n = rnode
    BY <1>1, <2>1 DEF Holding, Waiting, InUsed, Taken
  <2>5. /\ 1 \in DOMAIN inbox
        /\ \A i \in DOMAIN inbox' : i + 1 \in DOMAIN inbox /\ inbox'[i] = inbox[i + 1] /\ i \in Nat
    BY <1>0, <2>1
  <2>6. \A i \in DOMAIN inbox' : inbox'[i] # inbox[1]
    <3>1. ASSUME NEW i \in DOMAIN inbox', inbox'[i] = inbox[1] PROVE FALSE
      <4>1. i + 1 = 1
        BY <2>5, <3>1 DEF Once, Distinct
      <4> QED
        BY <2>5, <4>1, <1>0, <2>1
    <3> QED
      BY <3>1
  <2>7. Distinct'
    <3>1. ASSUME NEW i \in DOMAIN inbox', NEW j \in DOMAIN inbox', inbox'[i] = inbox'[j]
          PROVE  i = j
      <4>1. i + 1 = j + 1
        BY <2>5, <3>1 DEF Once, Distinct
      <4> QED
        BY <2>5, <4>1
    <3>2. ASSUME NEW m \in Node, NEW n \in Node, Holding(m)', Holding(n)', msg'[m] = msg'[n]
          PROVE  m = n
      BY <2>1, <2>3, <2>4, <2>5, <3>2 DEF Once, Distinct
    <3>3. ASSUME NEW n \in Node, Holding(n)', NEW i \in DOMAIN inbox' PROVE inbox'[i] # msg'[n]
      BY <2>1, <2>4, <2>5, <2>6, <3>3 DEF Once, Distinct
    <3> QED
      BY <3>1, <3>2, <3>3 DEF Distinct
  <2>8. Numbered'
    BY <1>1, <1>2, <2>1, <2>4, <2>5 DEF Once, Numbered
  <2>9. Unanswered'
    <3>1. \A i \in DOMAIN inbox : Fresh(inbox[i])
      BY DEF Once, Unanswered
    <3>2. \A i \in DOMAIN inbox' : Fresh(inbox[i])'
      BY <2>5, <3>1, <1>1 DEF Fresh
    <3>3. ASSUME NEW n \in Node, Waiting(n)' PROVE Fresh(msg[n])'
      BY <1>1, <2>1, <2>3, <2>4, <2>5, <3>1, <3>3 DEF Once, Unanswered, Fresh
    <3> QED
      BY <3>2, <3>3 DEF Unanswered
  <2>10. Handled' /\ Contexts' /\ AtMostOnce'
    <3>1. ASSUME NEW th \in Thread, task[th] = "reply"
          PROVE  tnode[th] \in Node /\ tnode[th] # rnode
      <4>1. tnode[th] # NoNode /\ tnode[th] \in {NoNode} \cup Node
        BY <3>1 DEF Inductive, Hands, TypeOK, TaskType
      <4> QED
        BY <2>2, <4>1 DEF Conserved
    <3> QED
      BY <1>1, <2>1, <3>1 DEF Once, Handled, Contexts, AtMostOnce, Accepted
  <2> QED
    BY <2>7, <2>8, <2>9, <2>10 DEF Once
<1>4. CASE ~GetMsg
  <2>1. inbox' = inbox /\ msg' = msg
    BY <1>4 DEF RouterStep, Query, LeaveRouter, Receive, Released,
           TakeNode, PutBack, Enqueue, Post, poolVars
  <2>2. \A n \in Node : (Holding(n)' => Holding(n)) /\ (Waiting(n)' => Waiting(n))
    <3>1. CASE Enqueue
      <4>1. /\ rnode \in Node /\ used' = Append(used, rnode) /\ router = "enqueue"
            /\ router' = "post"
        BY <1>0, <3>1 DEF Enqueue, Inductive, Hands
      <4>2. \A i \in DOMAIN used' : used'[i] = rnode \/ \E j \in DOMAIN used : used'[i] = used[j]
        BY <1>0, <4>1
      <4> QED
        BY <1>1, <4>1, <4>2 DEF Holding, Waiting, InUsed, Taken
    <3>2. CASE ~Enqueue
      <4>1. used' = used /\ router' # "enqueue"
        BY <1>4, <3>2 DEF RouterStep, Query, LeaveRouter, Receive, Released,
               TakeNode, PutBack, Post, poolVars
      <4> QED
        BY <1>1, <4>1 DEF Holding, Waiting, InUsed, Taken
    <3> QED
      BY <3>1, <3>2
  <2>3. \A n \in Node : Waiting(n)' => Holding(n)'
    BY DEF Waiting, Holding, Taken
  <2> QED
    BY <1>1, <2>1, <2>2, <2>3, OnceShrinks DEF Inductive
<1> QED
  BY <1>3, <1>4

\* The handler has been given the request, and may answer it from now on.
LEMMA HandleOnce ==
    ASSUME Inductive, Once, ~failed, NEW th \in Thread, Handle(th)
    PROVE  Once'
<1> DEFINE r == msg[tnode[th]]
<1>1. /\ task[th] = "dispatch" /\ Accepted(r) /\ class[r].kind # "subscribe"
      /\ UNCHANGED <<sent, class, inbox, used, msg, router, rnode, tnode, replies>>
      /\ task' = [task EXCEPT ![th] = "reply"]
      /\ contexts' = contexts \/ (class[r].kind = "method" /\ contexts' = contexts \cup {Context(th)})
  BY DEF Handle, clientVars, poolVars, routerVars
<1>2. /\ tnode[th] \in Node /\ task \in [Thread -> {"off", "wait", "woken", "dispatch",
                                                    "reply", "release", "done"}]
      /\ r \in Request
  BY <1>1 DEF Inductive, Hands, Filled, TypeOK, TaskType, PoolType
<1>3. Waiting(tnode[th]) /\ Holding(tnode[th]) /\ Fresh(r)
  BY <1>1, <1>2 DEF Waiting, Holding, Taken, Once, Unanswered
<1>4. Conserved
  BY <1>1, Exclusive DEF Inductive
<1>5. \A n \in Node : /\ Holding(n)' <=> Holding(n)
                      /\ Waiting(n)' => Waiting(n) /\ n # tnode[th]
  <2>1. \A n \in Node : Holding(n)' <=> Holding(n)
    BY <1>1 DEF Holding, InUsed, Taken
  <2>2. \A t \in Thread : task'[t] = "dispatch" => task[t] = "dispatch" /\ t # th
    BY <1>1, <1>2
  <2>3. \A n \in Node : Waiting(n)' => Waiting(n)
    BY <1>1, <2>2 DEF Waiting, InUsed
  <2>4. ~InUsed(tnode[th]) /\ tnode[th] # rnode
        /\ \A t \in Thread : tnode[t] = tnode[th] => t = th
    BY <1>2, <1>4 DEF Conserved, InUsed, Taken, Node, NoNode
  <2>5. \A n \in Node : Waiting(n)' => n # tnode[th]
    BY <1>1, <2>2, <2>4 DEF Waiting, InUsed
  <2> QED
    BY <2>1, <2>3, <2>5
<1>6. \A q : q # r /\ Fresh(q) => Fresh(q)'
  BY <1>1 DEF Fresh, Context
<1>7. Distinct'
  BY <1>1, <1>5 DEF Once, Distinct
<1>8. Numbered'
  <2>1. r <= sent
    BY <1>2, <1>3 DEF Once, Numbered
  <2>2. \A q \in Request : q > sent => q # r
    BY <2>1, Numbers DEF Inductive
  <2> QED
    BY <1>1, <1>5, <1>6, <2>2 DEF Once, Numbered
<1>9. Unanswered'
  <2>1. \A i \in DOMAIN inbox : inbox[i] # r
    BY <1>2, <1>3 DEF Once, Distinct
  <2>2. \A n \in Node : Waiting(n)' => msg[n] # r /\ Fresh(msg[n])
    <3>1. \A n \in Node : Waiting(n) => Holding(n)
      BY DEF Waiting, Holding, Taken
    <3> QED
      BY <1>2, <1>3, <1>5, <3>1 DEF Once, Distinct, Unanswered
  <2>3. \A i \in DOMAIN inbox' : Fresh(inbox[i])'
    <3>1. \A i \in DOMAIN inbox : Fresh(inbox[i])
      BY DEF Once, Unanswered
    <3> QED
      BY <1>1, <1>6, <2>1, <3>1 DEF Fresh, Context
  <2>4. ASSUME NEW n \in Node, Waiting(n)' PROVE Fresh(msg[n])'
    BY <1>1, <1>6, <2>2, <2>4 DEF Fresh, Context
  <2> QED
    BY <2>3, <2>4 DEF Unanswered
<1>10. Handled'
  BY <1>1, <1>2 DEF Once, Handled, Accepted
<1>11. Contexts'
  BY <1>1, <1>3 DEF Once, Contexts, Fresh, Context
<1>12. AtMostOnce'
  BY <1>1 DEF Once, AtMostOnce
<1> QED
  BY <1>7, <1>8, <1>9, <1>10, <1>11, <1>12 DEF Once

\* The dispatcher only answers what no handler has been given.
LEMMA AnswerOnce ==
    ASSUME Inductive, Once, ~failed, NEW th \in Thread, Answer(th)
    PROVE  Once'
<1> DEFINE r == msg[tnode[th]]
<1>1. /\ task[th] \in {"dispatch", "reply"}
      /\ UNCHANGED <<sent, class, inbox, used, msg, router, rnode, tnode, contexts>>
      /\ task' = [task EXCEPT ![th] = "release"]
      /\ replies' = IF NeedReply(r) THEN [replies EXCEPT ![r] = @ + 1] ELSE replies
  BY DEF Answer, clientVars, poolVars, routerVars
<1>2. /\ tnode[th] \in Node /\ task \in [Thread -> {"off", "wait", "woken", "dispatch",
                                                    "reply", "release", "done"}]
      /\ r \in Request /\ replies \in [Request -> Nat]
  BY <1>1 DEF Inductive, Hands, Filled, TypeOK, TaskType, PoolType, HandlerType
<1>3. Conserved
  BY <1>1, Exclusive DEF Inductive
<1>4. \A n \in Node : /\ Holding(n)' <=> Holding(n)
                      /\ Waiting(n)' => Waiting(n) /\ n # tnode[th]
  <2>1. \A n \in Node : Holding(n)' <=> Holding(n)
    BY <1>1 DEF Holding, InUsed, Taken
  <2>2. \A t \in Thread : task'[t] = "dispatch" => task[t] = "dispatch" /\ t # th
    BY <1>1, <1>2
  <2>3. \A n \in Node : Waiting(n)' => Waiting(n)
    BY <1>1, <2>2 DEF Waiting, InUsed
  <2>4. ~InUsed(tnode[th]) /\ tnode[th] # rnode
        /\ \A t \in Thread : tnode[t] = tnode[th] => t = th
    BY <1>2, <1>3 DEF Conserved, InUsed, Taken, Node, NoNode
  <2>5. \A n \in Node : Waiting(n)' => n # tnode[th]
    BY <1>1, <2>2, <2>4 DEF Waiting, InUsed
  <2> QED
    BY <2>1, <2>3, <2>5
<1>5. \A n \in Node : Waiting(n) => Holding(n)
  BY DEF Waiting, Holding, Taken
<1>6. \A t \in Thread : task'[t] = "reply" => task[t] = "reply"
  BY <1>1, <1>2
<1>7. CASE ~NeedReply(r)
  BY <1>1, <1>4, <1>5, <1>6, <1>7, OnceShrinks DEF Inductive
<1>8. CASE NeedReply(r)
  <2>1. task[th] = "dispatch"
    <3>1. task[th] = "reply" => Accepted(r) /\ class[r].kind # "subscribe"
      BY DEF Once, Handled
    <3> QED
      BY <1>1, <1>8, <3>1 DEF NeedReply, Accepted
  <2>2. Holding(tnode[th]) /\ Fresh(r) /\ class[r].kind # "oneway"
    BY <1>2, <1>8, <2>1 DEF Waiting, Holding, Taken, Once, Unanswered, NeedReply
  <2>3. /\ replies'[r] = 1
        /\ \A q \in Request : q # r => replies'[q] = replies[q]
        /\ \A q : q # r /\ Fresh(q) /\ q \in Request => Fresh(q)'
    BY <1>1, <1>2, <1>8, <2>2 DEF Fresh
  <2>4. Distinct'
    BY <1>1, <1>4 DEF Once, Distinct
  <2>5. Numbered'
    <3>1. r <= sent
      BY <1>2, <2>2 DEF Once, Numbered
    <3>2. \A q \in Request : q > sent => q # r
      BY <3>1, Numbers DEF Inductive
    <3> QED
      BY <1>1, <1>4, <2>3, <3>2 DEF Once, Numbered
  <2>6. Unanswered'
    <3>1. \A i \in DOMAIN inbox : inbox[i] # r /\ Fresh(inbox[i]) /\ inbox[i] \in Request
      BY <1>2, <2>2 DEF Once, Distinct, Unanswered, Inductive, TypeOK, ClientType
    <3>2. \A n \in Node : Waiting(n)' => msg[n] # r /\ Fresh(msg[n]) /\ msg[n] \in Request
      <4>1. \A n \in Node : Waiting(n) => msg[n] \in Request
        BY DEF Waiting, InUsed, Inductive, Filled, TypeOK, PoolType, TaskType, Node, NoNode
      <4> QED
        BY <1>2, <1>4, <1>5, <2>2, <4>1 DEF Once, Distinct, Unanswered
    <3>3. \A i \in DOMAIN inbox' : Fresh(inbox[i])'
      BY <1>1, <2>3, <3>1 DEF Fresh
    <3>4. ASSUME NEW n \in Node, Waiting(n)' PROVE Fresh(msg[n])'
      BY <1>1, <2>3, <3>2, <3>4 DEF Fresh
    <3> QED
      BY <3>3, <3>4 DEF Unanswered
  <2>7. Handled'
    BY <1>1, <1>6 DEF Once, Handled, Accepted
  <2>8. Contexts'
    <3>1. \A context \in contexts : context.request # r /\ context.request \in Request
      BY <2>2 DEF Fresh, Inductive, TypeOK, HandlerType
    <3> QED
      BY <1>1, <2>3, <3>1 DEF Once, Contexts
  <2>9. AtMostOnce'
    BY <1>1, <2>2, <2>3 DEF Once, AtMostOnce
  <2> QED
    BY <2>4, <2>5, <2>6, <2>7, <2>8, <2>9 DEF Once
<1> QED
  BY <1>7, <1>8

LEMMA TaskOnce ==
    ASSUME Inductive, Once, ~failed, NEW th \in Thread, TaskStep(th)
    PROVE  Once'
<1>0. /\ used \in Seq(Node) /\ NoNode \notin Node
      /\ tnode \in [Thread -> {NoNode} \cup Node]
      /\ task \in [Thread -> {"off", "wait", "woken", "dispatch", "reply", "release", "done"}]
  BY DEF Inductive, TypeOK, PoolType, TaskType, NoNode, Node
<1>1. CASE Handle(th) \/ Answer(th)
  BY <1>1, HandleOnce, AnswerOnce
<1>2. CASE ~(Handle(th) \/ Answer(th))
  <2>1. /\ UNCHANGED <<sent, class, inbox, msg, router, rnode, contexts, replies>>
        /\ \A t \in Thread : task'[t] = "reply" => task[t] = "reply" /\ tnode'[t] = tnode[t]
    BY <1>0, <1>2 DEF TaskStep, Wake, Leave, Dequeue, Release, clientVars, poolVars, routerVars,
       handlerVars
  <2>2. \A n \in Node : (Holding(n)' => Holding(n)) /\ (Waiting(n)' => Waiting(n))
    <3>1. CASE Dequeue(th) /\ used # <<>>
      <4>1. /\ \A i \in DOMAIN used' : \E j \in DOMAIN used : used'[i] = used[j]
            /\ \E j \in DOMAIN used : Head(used) = used[j]
        BY <1>0, <3>1 DEF Dequeue
      <4>2. \A t \in Thread : /\ tnode'[t] = Head(used) \/ tnode'[t] = tnode[t]
                              /\ task'[t] = "dispatch" =>
                                    tnode'[t] = Head(used) \/ (task[t] = "dispatch" /\ tnode'[t] = tnode[t])
        BY <1>0, <3>1 DEF Dequeue
      <4> QED
        BY <2>1, <4>1, <4>2 DEF Holding, Waiting, InUsed, Taken
    <3>2. CASE ~(Dequeue(th) /\ used # <<>>)
      <4>1. /\ used' = used /\ \A t \in Thread : tnode'[t] \in {NoNode, tnode[t]}
            /\ \A t \in Thread : task'[t] = "dispatch" => task[t] = "dispatch"
        BY <1>0, <1>2, <3>2 DEF TaskStep, Wake, Leave, Dequeue, Release, poolVars
      <4> QED
        BY <1>0, <2>1, <4>1 DEF Holding, Waiting, InUsed, Taken
    <3> QED
      BY <3>1, <3>2
  <2>3. \A n \in Node : Waiting(n)' => Holding(n)'
    BY DEF Waiting, Holding, Taken
  <2> QED
    BY <2>1, <2>2, <2>3, OnceShrinks DEF Inductive
<1> QED
  BY <1>1, <1>2

LEMMA SendOnce ==
    ASSUME Inductive, Once, Send
    PROVE  Once'
<1>1. /\ inbox \in Seq(Request) /\ sent + 1 \in Request /\ sent \in Nat
      /\ inbox' = Append(inbox, sent + 1) /\ sent' = sent + 1
      /\ UNCHANGED <<class, msg, used, router, rnode, task, tnode, contexts, replies>>
  BY ParameterAssumption DEF Send, Inductive, TypeOK, ClientType, Request, poolVars, routerVars,
     taskVars, handlerVars
<1>2. \A n \in Node : (Holding(n)' <=> Holding(n)) /\ (Waiting(n)' <=> Waiting(n))
  BY <1>1 DEF Holding, Waiting, InUsed, Taken
<1>3. \A i \in DOMAIN inbox' : \/ i \in DOMAIN inbox /\ inbox'[i] = inbox[i]
                               \/ i = Len(inbox) + 1 /\ inbox'[i] = sent + 1
  BY <1>1
<1>4. /\ \A i \in DOMAIN inbox : inbox[i] # sent + 1 /\ inbox[i] <= sent + 1
      /\ \A n \in Node : Holding(n) => msg[n] # sent + 1 /\ msg[n] <= sent + 1
      /\ \A r \in Request : r > sent + 1 => r > sent
  BY <1>1, Numbers DEF Once, Numbered, Inductive
<1>5. Fresh(sent + 1)
  BY <1>1 DEF Once, Numbered
<1>6. Distinct'
  BY <1>1, <1>2, <1>3, <1>4 DEF Once, Distinct
<1>7. Numbered'
  BY <1>1, <1>2, <1>3, <1>4 DEF Once, Numbered, Fresh
<1>8. Unanswered' /\ Handled' /\ Contexts' /\ AtMostOnce'
  <2>1. \A i \in DOMAIN inbox' : Fresh(inbox[i])'
    BY <1>1, <1>3, <1>5 DEF Once, Unanswered, Fresh
  <2>2. ASSUME NEW n \in Node, Waiting(n)' PROVE Fresh(msg[n])'
    BY <1>1, <1>2, <2>2 DEF Once, Unanswered, Fresh
  <2> QED
    BY <1>1, <2>1, <2>2 DEF Once, Unanswered, Handled, Contexts, AtMostOnce, Accepted
<1> QED
  BY <1>6, <1>7, <1>8 DEF Once

\* A handler uses its context up.
LEMMA ReplyOnce ==
    ASSUME Inductive, Once, ReplyMethod
    PROVE  Once'
<1>1. PICK context \in contexts :
         /\ contexts' = contexts \ {context}
         /\ replies' = IF s_ins = "initialized"
                       THEN [replies EXCEPT ![context.request] = @ + 1] ELSE replies
  BY DEF ReplyMethod, Addressee
<1> DEFINE r == context.request
<1>2. /\ UNCHANGED <<sent, class, inbox, used, msg, router, rnode, task, tnode>>
      /\ r \in Request /\ replies \in [Request -> Nat]
      /\ \A c \in contexts : c.request \in Request
  BY DEF ReplyMethod, Inductive, TypeOK, HandlerType, clientVars, poolVars, routerVars, taskVars
<1>3. \A n \in Node : (Holding(n)' <=> Holding(n)) /\ (Waiting(n)' <=> Waiting(n))
  BY <1>2 DEF Holding, Waiting, InUsed, Taken
<1>4. \A q \in Request : q # r => replies'[q] = replies[q]
  BY <1>1, <1>2
<1>5. \A q \in Request : Fresh(q) => q # r /\ replies'[q] = 0
                                     /\ \A c \in contexts' : c.request # q
  BY <1>1, <1>4 DEF Fresh
<1>6. Distinct'
  BY <1>2, <1>3 DEF Once, Distinct
<1>7. Numbered'
  BY <1>2, <1>3, <1>5 DEF Once, Numbered, Fresh
<1>8. Unanswered'
  <2>1. \A i \in DOMAIN inbox : Fresh(inbox[i]) /\ inbox[i] \in Request
    BY DEF Once, Unanswered, Inductive, TypeOK, ClientType
  <2>2. \A n \in Node : Waiting(n) => Fresh(msg[n]) /\ msg[n] \in Request
    <3>1. \A n \in Node : Waiting(n) => msg[n] \in Request
      BY DEF Waiting, InUsed, Inductive, Filled, TypeOK, PoolType, TaskType, Node, NoNode
    <3> QED
      BY <3>1 DEF Once, Unanswered
  <2>3. \A i \in DOMAIN inbox' : Fresh(inbox[i])'
    BY <1>2, <1>5, <2>1 DEF Fresh
  <2>4. ASSUME NEW n \in Node, Waiting(n)' PROVE Fresh(msg[n])'
    BY <1>2, <1>3, <1>5, <2>2, <2>4 DEF Fresh
  <2> QED
    BY <2>3, <2>4 DEF Unanswered
<1>9. Handled'
  BY <1>2 DEF Once, Handled, Accepted
<1>10. Contexts'
  <2>1. \A c \in contexts' : c \in contexts /\ c.request # r
    BY <1>1 DEF Once, Contexts
  <2> QED
    BY <1>2, <1>4, <2>1 DEF Once, Contexts
<1>11. AtMostOnce'
  <2>1. replies[r] = 0 /\ class[r].kind = "method"
    BY DEF Once, Contexts
  <2>2. replies'[r] <= 1
    BY <1>1, <1>2, <2>1
  <2> QED
    BY <1>2, <1>4, <2>1, <2>2 DEF Once, AtMostOnce
<1> QED
  BY <1>6, <1>7, <1>8, <1>9, <1>10, <1>11 DEF Once

LEMMA OnceStep ==
    ASSUME Inductive, ~failed => Once, [Next]_vars
    PROVE  ~failed' => Once'
<1> SUFFICES ASSUME ~failed' PROVE Once'
  OBVIOUS
<1>1. ~failed
  BY DEF Next, AppStep, InitServer, Start, StartFails, Stop, JoinRouter, JoinTasks, Destroy, Send,
     RouterStep, Query, LeaveRouter, Receive, Released,
            TakeNode, GetMsg, PutBack, Enqueue, Post, TaskStep, Wake,
     Leave, Dequeue, Handle, Answer, Release, ReplyMethod, vars, lifeVars
<1>2. CASE UNCHANGED vars
  BY <1>1, <1>2 DEF vars, clientVars, poolVars, routerVars, taskVars, handlerVars, Once, Distinct,
     Numbered, Unanswered, Handled, Contexts, AtMostOnce, Holding, Waiting, Fresh, InUsed, Taken,
     Accepted
<1> QED
  BY <1>1, <1>2, AppOnce, SendOnce, RouterOnce, TaskOnce, ReplyOnce DEF Next, Inductive

-----------------------------------------------------------------------------
LEMMA InitInductive == Init => Inductive
<1> SUFFICES ASSUME Init PROVE Inductive
  OBVIOUS
<1>1. TypeOK
  BY InitType
<1>2. Hands /\ Filled
  BY DEF Init, Hands, Filled
<1>3. Lifecycle /\ OnlyLatest /\ StopLeavesNobody
  BY DEF Init, Lifecycle, OnlyLatest, StopLeavesNobody
<1>4. NodesConserved
  BY DEF Init, NodesConserved, Active
<1> QED
  BY <1>1, <1>2, <1>3, <1>4 DEF Inductive

LEMMA TypeStep ==
    ASSUME TypeOK, Hands, Filled, [Next]_vars
    PROVE  TypeOK'
<1>1. CASE UNCHANGED vars
  BY <1>1 DEF vars, TypeOK, LifeType, ClientType, PoolType, RouterType, TaskType, HandlerType,
     lifeVars, clientVars, poolVars, routerVars, taskVars, handlerVars
<1> QED
  BY <1>1, AppType, SendType, RouterKeepsType, TaskKeepsType, ReplyKeepsType DEF Next

LEMMA StepInductive == Inductive /\ [Next]_vars => Inductive'
  BY TypeStep, HandsStep, FilledStep, LifecycleStep, NodesStep DEF Inductive

THEOREM InductiveHolds == Spec => []Inductive
  BY InitInductive, StepInductive, PTL DEF Spec

\* Every variable keeps its type, whatever the numbers of tasks, nodes and requests: the
\* router's index stays an index of s_sem_method_msg, and what is read from a list or
\* a node is a node or a request.
THEOREM TypeCorrect == Spec => []TypeOK
<1>1. Inductive => TypeOK
  BY DEF Inductive
<1> QED
  BY <1>1, InductiveHolds, PTL

\* No message node is lost or in two places while the server runs.
THEOREM Conservation == Spec => []NodesConserved
<1>1. Inductive => NodesConserved
  BY DEF Inductive
<1> QED
  BY <1>1, InductiveHolds, PTL

\* stop() leaves no thread behind unless a start() has failed before.
THEOREM StopIsClean == Spec => []StopLeavesNobody
<1>1. Inductive => StopLeavesNobody
  BY DEF Inductive
<1> QED
  BY <1>1, InductiveHolds, PTL
\* No request is ever answered twice, and a one-way request is never answered, as long as
\* no start() has failed: by the dispatcher, by the handler, or by both.
THEOREM AnswersOnce == Spec => []RepliesAtMostOnce
<1>1. Init => Once
  <2> SUFFICES ASSUME Init PROVE Once
    OBVIOUS
  <2>1. inbox = <<>> /\ contexts = {} /\ \A r \in Request : replies[r] = 0
    BY DEF Init
  <2>2. \A n \in Node : ~Holding(n) /\ ~Waiting(n)
    BY DEF Init, Holding, Waiting, InUsed, Taken, Node, NoNode
  <2>3. \A th \in Thread : task[th] # "reply"
    BY DEF Init
  <2> QED
    BY <2>1, <2>2, <2>3 DEF Once, Distinct, Numbered, Unanswered, Handled, Contexts, AtMostOnce,
       Fresh
<1>2. Inductive /\ (~failed => Once) /\ [Next]_vars => (~failed => Once)'
  BY OnceStep
<1>3. (~failed => Once) => RepliesAtMostOnce
  BY DEF Once, AtMostOnce, RepliesAtMostOnce
<1> QED
  BY <1>1, <1>2, <1>3, InductiveHolds, PTL DEF Spec

-----------------------------------------------------------------------------
(* Wake-ups.  The sum over all semaphores is a fold over the tasks in an order *)
(* that a CHOOSE makes: the lemmas show that it does not matter which.         *)

Added(f, S, i) == [s \in SUBSET S |->
    IF s = {} THEN 0 ELSE f[CHOOSE x \in s : TRUE] + i[s \ {CHOOSE x \in s : TRUE}]]
Sums(f, S) == CHOOSE i : i = Added(f, S, i)
Total(f) == Sums(f, DOMAIN f)[DOMAIN f]

\* Of the subsets of a finite set, one of the smallest.
LEMMA SmallestSet ==
    ASSUME NEW S, IsFiniteSet(S), NEW Z \in SUBSET SUBSET S, Z # {}
    PROVE  \E s \in Z : \A t \in Z : Cardinality(s) <= Cardinality(t)
<1> DEFINE sizes == {Cardinality(s) : s \in Z}
<1>1. sizes \in SUBSET Nat /\ sizes # {}
  BY FS_Subset, FS_CardinalityType
<1>2. PICK m \in sizes : \A n \in sizes : m <= n
  <2> HIDE DEF sizes
  <2> QED
    BY <1>1, LeastNumber
<1> QED
  BY <1>2

\* What is left of a set without the element that is chosen.
LEMMA Without ==
    ASSUME NEW S, IsFiniteSet(S), NEW s \in SUBSET S, s # {}
    PROVE  LET x == CHOOSE y \in s : TRUE
           IN  /\ x \in s /\ s \ {x} \in SUBSET S
               /\ Cardinality(s) \in Nat /\ Cardinality(s \ {x}) \in Nat
               /\ Cardinality(s \ {x}) = Cardinality(s) - 1
<1> DEFINE x == CHOOSE y \in s : TRUE
<1>1. x \in s /\ s \ {x} \in SUBSET S
  OBVIOUS
<1>2. IsFiniteSet(s) /\ IsFiniteSet(s \ {x})
  BY <1>1, FS_Subset
<1>3. Cardinality(s \ {x}) = Cardinality(s) - 1
  BY <1>1, <1>2, FS_RemoveElement
<1> QED
  BY <1>1, <1>2, <1>3, FS_CardinalityType

\* The sums are there: what is added level by level does not change any more.
LEMMA SumsAre ==
    ASSUME NEW S, IsFiniteSet(S), NEW f \in [S -> Int]
    PROVE  Sums(f, S) = Added(f, S, Sums(f, S))
<1> DEFINE N     == Cardinality(S)
           X     == [SUBSET S -> Int]
           none  == [s \in SUBSET S |-> 0]
           step  == [n \in 1..(N + 1) |-> [i \in X |-> Added(f, S, i)]]
<1>1. N \in Nat /\ \A s \in SUBSET S : Cardinality(s) \in 0..N
  BY FS_CardinalityType, FS_Subset
<1>2. ASSUME NEW i \in X PROVE Added(f, S, i) \in X
  <2>1. ASSUME NEW s \in SUBSET S, s # {}
        PROVE  f[CHOOSE x \in s : TRUE] + i[s \ {CHOOSE x \in s : TRUE}] \in Int
    <3>1. (CHOOSE x \in s : TRUE) \in S /\ s \ {CHOOSE x \in s : TRUE} \in SUBSET S
      BY <2>1, Without
    <3> QED
      BY <3>1
  <2> QED
    BY <2>1 DEF Added
<1>3. PICK g \in [0..(N + 1) -> X] : g[0] = none /\ \A n \in 1..(N + 1) : g[n] = Added(f, S, g[n - 1])
  <2>1. step \in [1..(N + 1) -> [X -> X]] /\ none \in X /\ N + 1 \in Nat
    <3>1. none \in X
      OBVIOUS
    <3>2. step \in [1..(N + 1) -> [X -> X]]
      <4> HIDE DEF X
      <4> QED
        BY <1>2
    <3>3. N + 1 \in Nat
      BY <1>1
    <3> HIDE DEF N, X, step, none
    <3> QED
      BY <3>1, <3>2, <3>3
  <2> HIDE DEF N, X, step
  <2>2. \A a \in X : \A k \in Nat : \A st \in [1..k -> [X -> X]] :
            \E g \in [0..k -> X] : g[0] = a /\ \A n \in 1..k : g[n] = st[n][g[n - 1]]
    BY FiniteRecursion
  <2>3. PICK g \in [0..(N + 1) -> X] : g[0] = none /\ \A n \in 1..(N + 1) : g[n] = step[n][g[n - 1]]
    BY <2>1, <2>2
  <2>4. ASSUME NEW n \in 1..(N + 1) PROVE g[n] = Added(f, S, g[n - 1])
    <3>1. n - 1 \in 0..(N + 1)
      BY <1>1
    <3> QED
      BY <2>3, <3>1 DEF step
  <2> QED
    BY <2>3, <2>4
<1>4. \A n \in 0..N : n + 1 \in 1..(N + 1) /\ (n + 1) - 1 = n /\ n \in 0..(N + 1)
  BY <1>1
<1>5. \A n \in 1..(N + 1) : \A s \in SUBSET S :
          g[n][s] = IF s = {} THEN 0
                    ELSE f[CHOOSE x \in s : TRUE] + g[n - 1][s \ {CHOOSE x \in s : TRUE}]
  BY <1>3 DEF Added
<1> DEFINE Still(n) == \A s \in SUBSET S : Cardinality(s) <= n => g[n + 1][s] = g[n][s]
           Bad      == {n \in 0..N : ~Still(n)}
<1>6. Still(N)
  <2> SUFFICES ASSUME Bad # {} PROVE FALSE
    BY <1>1
  <2>1. PICK m \in Bad : \A n \in Bad : m <= n
    <3>1. Bad \in SUBSET Nat
      BY <1>1
    <3> HIDE DEF Bad
    <3> QED
      BY <3>1, LeastNumber
  <2>2. PICK s \in SUBSET S : Cardinality(s) <= m /\ g[m + 1][s] # g[m][s]
    BY <2>1
  <2>3. m \in 0..N
    OBVIOUS
  <2> HIDE DEF Bad, Still
  <2>4. CASE s = {}
    <3>1. g[m + 1][s] = 0
      BY <1>4, <1>5, <2>3, <2>4
    <3>2. CASE m = 0
      BY <1>3, <2>2, <2>4, <3>1, <3>2
    <3>3. CASE m # 0
      <4>1. m \in 1..(N + 1)
        BY <1>1, <2>3, <3>3
      <4> QED
        BY <1>5, <2>2, <2>4, <3>1, <4>1
    <3> QED
      BY <3>2, <3>3
  <2>5. CASE s # {}
    <3> DEFINE x == CHOOSE y \in s : TRUE
               t == s \ {x}
    <3>1. t \in SUBSET S /\ Cardinality(t) = Cardinality(s) - 1 /\ Cardinality(t) \in Nat
          /\ Cardinality(s) \in Nat
      BY <2>5, Without
    <3>2. m - 1 \in 0..N /\ m \in 1..(N + 1) /\ Cardinality(t) <= m - 1 /\ (m - 1) + 1 = m
      <4> HIDE DEF t
      <4> QED
        BY <1>1, <2>2, <2>3, <3>1
    <3>3. m - 1 \notin Bad
      BY <2>1, <2>3, <3>2
    <3>4. g[m][t] = g[m - 1][t]
      <4>1. Still(m - 1)
        BY <3>2, <3>3 DEF Bad
      <4> HIDE DEF t
      <4> QED
        BY <3>1, <3>2, <4>1 DEF Still
    <3>5. g[m + 1][s] = f[x] + g[m][t] /\ g[m][s] = f[x] + g[m - 1][t]
      BY <1>4, <1>5, <2>3, <2>5, <3>2
    <3> QED
      BY <2>2, <3>4, <3>5
  <2> QED
    BY <2>4, <2>5
<1>7. g[N] = Added(f, S, g[N])
  <2>1. g[N + 1] = Added(f, S, g[N]) /\ g[N] \in X /\ g[N + 1] \in X
    <3>1. N + 1 \in 1..(N + 1) /\ N + 1 \in 0..(N + 1) /\ N \in 0..(N + 1) /\ (N + 1) - 1 = N
      BY <1>1
    <3> HIDE DEF N, X
    <3> QED
      BY <1>3, <3>1
  <2>2. \A s \in SUBSET S : g[N + 1][s] = g[N][s]
    BY <1>1, <1>6
  <2>3. g[N + 1] = g[N]
    BY <2>1, <2>2
  <2> QED
    BY <2>1, <2>3
<1> QED
  BY <1>7 DEF Sums

\* Changing one value changes the sum by as much.
LEMMA SumChanges ==
    ASSUME NEW S, IsFiniteSet(S), NEW f \in [S -> Int], NEW k \in S, NEW d \in Int,
           NEW g \in [S -> Int], g[k] = f[k] + d, \A x \in S \ {k} : g[x] = f[x]
    PROVE  Total(f) \in Int /\ Total(g) = Total(f) + d
<1> DEFINE F == Sums(f, S)
           G == Sums(g, S)
           Right(s) == F[s] \in Int /\ G[s] = F[s] + (IF k \in s THEN d ELSE 0)
           Bad == {s \in SUBSET S : ~Right(s)}
<1>1. g \in [S -> Int] /\ g[k] = f[k] + d /\ \A x \in S \ {k} : g[x] = f[x]
  OBVIOUS
<1>2. /\ \A s \in SUBSET S : F[s] = IF s = {} THEN 0
              ELSE f[CHOOSE x \in s : TRUE] + F[s \ {CHOOSE x \in s : TRUE}]
      /\ \A s \in SUBSET S : G[s] = IF s = {} THEN 0
              ELSE g[CHOOSE x \in s : TRUE] + G[s \ {CHOOSE x \in s : TRUE}]
  <2>1. F = Added(f, S, F) /\ G = Added(g, S, G)
    BY <1>1, SumsAre
  <2> HIDE DEF F, G
  <2>2. /\ \A s \in SUBSET S : Added(f, S, F)[s] = IF s = {} THEN 0
                ELSE f[CHOOSE x \in s : TRUE] + F[s \ {CHOOSE x \in s : TRUE}]
        /\ \A s \in SUBSET S : Added(g, S, G)[s] = IF s = {} THEN 0
                ELSE g[CHOOSE x \in s : TRUE] + G[s \ {CHOOSE x \in s : TRUE}]
    BY DEF Added
  <2> QED
    BY <2>1, <2>2
<1> HIDE DEF F, G
<1>3. Right(S)
  <2> SUFFICES ASSUME Bad # {} PROVE FALSE
    OBVIOUS
  <2>1. PICK s \in Bad : \A t \in Bad : Cardinality(s) <= Cardinality(t)
    <3>1. Bad \in SUBSET SUBSET S
      OBVIOUS
    <3> HIDE DEF Bad
    <3> QED
      BY <3>1, SmallestSet
  <2>2. s \in SUBSET S /\ ~Right(s)
    OBVIOUS
  <2>3. CASE s = {}
    <3>1. F[s] = 0 /\ G[s] = 0 /\ k \notin s
      BY <1>2, <2>2, <2>3
    <3> QED
      BY <2>2, <3>1
  <2>4. CASE s # {}
    <3> DEFINE x == CHOOSE y \in s : TRUE
               t == s \ {x}
    <3>1. /\ x \in s /\ t \in SUBSET S /\ Cardinality(t) = Cardinality(s) - 1
          /\ Cardinality(t) \in Nat /\ Cardinality(s) \in Nat
      BY <2>2, <2>4, Without
    <3>2. t \notin Bad
      <4> HIDE DEF t, Bad
      <4> QED
        BY <2>1, <3>1
    <3>3. Right(t)
      BY <3>1, <3>2
    <3>4. F[s] = f[x] + F[t] /\ G[s] = g[x] + G[t]
      BY <1>2, <2>2, <2>4
    <3>5. x \in S /\ f[x] \in Int /\ (x = k => g[x] = f[x] + d /\ k \notin t /\ k \in s)
          /\ (x # k => g[x] = f[x] /\ (k \in t <=> k \in s))
      BY <1>1, <2>2, <3>1
    <3> HIDE DEF x, t
    <3> QED
      BY <2>2, <3>3, <3>4, <3>5
  <2> QED
    BY <2>3, <2>4
<1>4. Total(f) = F[S] /\ Total(g) = G[S]
  BY <1>1 DEF Total, F, G
<1> QED
  BY <1>3, <1>4

LEMMA SumOfNothing ==
    ASSUME NEW S, IsFiniteSet(S)
    PROVE  /\ Total([x \in S |-> 0]) = 0
           /\ \A f \in [S -> Nat] : Total(f) \in Nat
<1>1. ASSUME NEW f \in [S -> Nat]
      PROVE  Total(f) \in Nat /\ ((\A x \in S : f[x] = 0) => Total(f) = 0)
  <2> DEFINE F        == Sums(f, S)
             zero     == \A x \in S : f[x] = 0
             Right(s) == F[s] \in Nat /\ (zero => F[s] = 0)
             Bad      == {s \in SUBSET S : ~Right(s)}
  <2>1. \A s \in SUBSET S : F[s] = IF s = {} THEN 0
            ELSE f[CHOOSE x \in s : TRUE] + F[s \ {CHOOSE x \in s : TRUE}]
    <3>1. F = Added(f, S, F)
      <4>1. f \in [S -> Int]
        OBVIOUS
      <4> QED
        BY <4>1, SumsAre
    <3> HIDE DEF F
    <3>2. \A s \in SUBSET S : Added(f, S, F)[s] = IF s = {} THEN 0
            ELSE f[CHOOSE x \in s : TRUE] + F[s \ {CHOOSE x \in s : TRUE}]
      BY DEF Added
    <3> QED
      BY <3>1, <3>2
  <2> HIDE DEF F
  <2>2. Right(S)
    <3> SUFFICES ASSUME Bad # {} PROVE FALSE
      OBVIOUS
    <3>1. PICK s \in Bad : \A t \in Bad : Cardinality(s) <= Cardinality(t)
      <4>1. Bad \in SUBSET SUBSET S
        OBVIOUS
      <4> HIDE DEF Bad
      <4> QED
        BY <4>1, SmallestSet
    <3>2. s \in SUBSET S /\ ~Right(s)
      OBVIOUS
    <3>3. CASE s = {}
      BY <2>1, <3>2, <3>3
    <3>4. CASE s # {}
      <4> DEFINE x == CHOOSE y \in s : TRUE
                 t == s \ {x}
      <4>1. /\ x \in s /\ t \in SUBSET S /\ Cardinality(t) = Cardinality(s) - 1
            /\ Cardinality(t) \in Nat /\ Cardinality(s) \in Nat
        BY <3>2, <3>4, Without
      <4>2. t \notin Bad
        <5> HIDE DEF t, Bad
        <5> QED
          BY <3>1, <4>1
      <4>3. Right(t)
        BY <4>1, <4>2
      <4>4. F[s] = f[x] + F[t]
        BY <2>1, <3>2, <3>4
      <4>5. x \in S /\ f[x] \in Nat /\ (zero => f[x] = 0)
        BY <3>2, <4>1
      <4> HIDE DEF x, t, zero
      <4> QED
        BY <3>2, <4>3, <4>4, <4>5
    <3> QED
      BY <3>3, <3>4
  <2>3. Total(f) = F[S]
    BY DEF Total, F
  <2> QED
    BY <2>2, <2>3
<1>2. [x \in S |-> 0] \in [S -> Nat] /\ \A y \in S : [x \in S |-> 0][y] = 0
  OBVIOUS
<1> DEFINE z == [x \in S |-> 0]
<1> HIDE DEF z
<1>3. z \in [S -> Nat] /\ \A y \in S : z[y] = 0
  BY <1>2 DEF z
<1>4. Total(z) = 0
  BY <1>1, <1>3
<1> QED
  BY <1>1, <1>4 DEF z

Woken == {th \in Thread : task[th] = "woken"}

LEMMA PostedIs ==
    /\ Posted = Total(sem) + Cardinality(Woken)
    /\ Posted' = Total(sem') + Cardinality(Woken')
BY DEF Posted, FoldFunction, FoldFunctionOnSet, MapThenFoldSet, Total, Sums, Added, Woken

LEMMA PostedTypes ==
    ASSUME TypeOK
    PROVE  /\ IsFiniteSet(Task) /\ IsFiniteSet(Thread) /\ IsFiniteSet(Woken)
           /\ Cardinality(Woken) \in Nat /\ Total(sem) \in Nat /\ Len(used) \in Nat
<1>1. IsFiniteSet(Task) /\ IsFiniteSet(1..MaxStarts)
  BY ParameterAssumption, FS_Interval DEF Task
<1>2. IsFiniteSet(Thread)
  BY <1>1, FS_Product DEF Thread
<1>3. IsFiniteSet(Woken) /\ Cardinality(Woken) \in Nat
  BY <1>2, FS_Subset, FS_CardinalityType DEF Woken
<1>4. Total(sem) \in Nat
  BY <1>1, SumOfNothing DEF TypeOK, TaskType
<1>5. Len(used) \in Nat
  BY DEF TypeOK, PoolType
<1> QED
  BY <1>1, <1>2, <1>3, <1>4, <1>5

\* A thread that is woken or is not any more.
LEMMA WokenChanges ==
    ASSUME TypeOK, NEW th \in Thread, NEW v, task' = [task EXCEPT ![th] = v]
    PROVE  /\ (task[th] # "woken" /\ v = "woken" => Cardinality(Woken') = Cardinality(Woken) + 1)
           /\ (task[th] = "woken" /\ v # "woken" => Cardinality(Woken') = Cardinality(Woken) - 1)
           /\ (task[th] # "woken" /\ v # "woken" => Woken' = Woken)
<1>1. \A t \in Thread : task'[t] = IF t = th THEN v ELSE task[t]
  BY DEF TypeOK, TaskType
<1>2. CASE v = "woken"
  <2>1. Woken' = Woken \cup {th}
    BY <1>1, <1>2 DEF Woken
  <2>2. task[th] # "woken" => th \notin Woken
    BY DEF Woken
  <2> QED
    BY <1>2, <2>1, <2>2, PostedTypes, FS_AddElement
<1>3. CASE v # "woken"
  <2>1. Woken' = Woken \ {th}
    BY <1>1, <1>3 DEF Woken
  <2>2. task[th] = "woken" <=> th \in Woken
    BY DEF Woken
  <2>3. th \notin Woken => Woken' = Woken
    BY <2>1
  <2>4. ASSUME th \in Woken PROVE Cardinality(Woken') = Cardinality(Woken) - 1
    <3>1. IsFiniteSet(Woken)
      BY PostedTypes
    <3> HIDE DEF Woken
    <3>2. Cardinality(Woken \ {th}) = Cardinality(Woken) - 1
      BY <2>4, <3>1, FS_RemoveElement
    <3> QED
      BY <2>1, <3>2
  <2> QED
    BY <1>3, <2>2, <2>3, <2>4
<1> QED
  BY <1>2, <1>3

Post1 == IF router = "post" THEN 1 ELSE 0

LEMMA WakeupsStep ==
    ASSUME Inductive, WakeupsMatchRequests, [Next]_vars
    PROVE  WakeupsMatchRequests'
<1>1. TypeOK /\ Lifecycle /\ StopLeavesNobody
  BY DEF Inductive
<1>2. /\ Cardinality(Woken) \in Nat /\ Total(sem) \in Nat /\ Len(used) \in Nat /\ IsFiniteSet(Task)
      /\ sem \in [Task -> Int] /\ used \in Seq(Node) /\ index \in Task
  BY <1>1, PostedTypes DEF TypeOK, TaskType, PoolType, RouterType
<1>3. WakeupsMatchRequests <=>
          (bRunning /\ ~failed => Len(used) = Total(sem) + Cardinality(Woken) + Post1)
  BY PostedIs DEF WakeupsMatchRequests, Post1
<1>4. WakeupsMatchRequests' <=>
          (bRunning' /\ ~failed' => Len(used') = Total(sem') + Cardinality(Woken') + Post1')
  BY PostedIs DEF WakeupsMatchRequests, Post1
<1>5. ASSUME NEW k \in Task, NEW d \in Int, sem' = [sem EXCEPT ![k] = @ + d]
      PROVE  Total(sem') = Total(sem) + d
  <2>1. /\ IsFiniteSet(Task) /\ sem \in [Task -> Int]
        /\ sem' \in [Task -> Int] /\ sem'[k] = sem[k] + d
        /\ \A x \in Task \ {k} : sem'[x] = sem[x]
    BY <1>2, <1>5
  <2> QED
    BY <2>1, SumChanges
<1>6. CASE Start
  <2>1. /\ app = "idle" /\ ~bRunning /\ used' = <<>> /\ sem' = [t \in Task |-> 0] /\ router' = "query"
        /\ task' = [th \in Thread |-> IF th[2] = starts + 1 THEN "wait" ELSE task[th]] /\ failed' = failed
    BY <1>6 DEF Start, CanStart, CreateTasks
  <2>2. Total(sem') = 0
    BY <1>2, <2>1, SumOfNothing
  <2>3. ~failed => Woken' = {}
    BY <1>1, <2>1 DEF StopLeavesNobody, Woken
  <2>4. Cardinality({}) = 0 /\ Len(<<>>) = 0
    BY FS_EmptySet
  <2>5. Post1' = 0
    BY <2>1 DEF Post1
  <2>6. CASE failed
    BY <1>4, <2>1, <2>6
  <2>7. CASE ~failed
    <3>1. Cardinality(Woken') = 0 /\ Len(used') = 0
      BY <2>1, <2>3, <2>4, <2>7
    <3> QED
      BY <1>4, <2>2, <2>5, <3>1
  <2> QED
    BY <2>6, <2>7
<1>7. CASE AppStep /\ ~Start
  <2>1. \/ ~bRunning'
        \/ failed'
        \/ UNCHANGED <<bRunning, failed, used, sem, task, router>>
    BY <1>1, <1>7 DEF AppStep, InitServer, StartFails, Stop, JoinRouter, JoinTasks, Destroy, CanStart,
       Lifecycle, poolVars, taskVars, routerVars
  <2> QED
    BY <1>3, <1>4, <2>1 DEF Post1, Woken
<1>8. CASE RouterStep
  <2>1. UNCHANGED <<bRunning, failed, task>>
    BY <1>8 DEF RouterStep, Query, LeaveRouter, Receive, Released,
           TakeNode, GetMsg, PutBack, Enqueue, Post, lifeVars, taskVars
  <2>2. Woken' = Woken
    BY <2>1 DEF Woken
  <2>3. CASE Enqueue
    <3>1. Len(used') = Len(used) + 1 /\ sem' = sem /\ router = "enqueue" /\ router' = "post"
      BY <1>2, <2>3 DEF Enqueue
    <3> QED
      BY <1>2, <1>3, <1>4, <2>1, <2>2, <3>1 DEF Post1
  <2>4. CASE Post
    <3>1. used' = used /\ sem' = [sem EXCEPT ![index] = @ + 1] /\ router = "post" /\ router' = "node"
      BY <2>4 DEF Post, poolVars
    <3>2. Total(sem') = Total(sem) + 1
      <4>1. index \in Task /\ 1 \in Int
        BY <1>2
      <4> QED
        BY <1>5, <3>1, <4>1
    <3> QED
      BY <1>2, <1>3, <1>4, <2>1, <2>2, <3>1, <3>2 DEF Post1
  <2>5. CASE Query \/ LeaveRouter \/ Receive \/ Released \/ TakeNode \/ GetMsg \/ PutBack
    <3>1. used' = used /\ sem' = sem /\ Post1' = Post1
      BY <2>5 DEF Query, LeaveRouter, Receive, Released, TakeNode, GetMsg, PutBack, poolVars, Post1
    <3> QED
      BY <1>3, <1>4, <2>1, <2>2, <3>1
  <2> QED
    BY <1>8, <2>3, <2>4, <2>5 DEF RouterStep
<1>9. ASSUME NEW th \in Thread, TaskStep(th) PROVE WakeupsMatchRequests'
  <2>1. bRunning' = bRunning /\ failed' = failed /\ Post1' = Post1
    BY <1>9 DEF TaskStep, Wake, Leave, Dequeue, Handle, Answer, Release, lifeVars, routerVars, Post1
  <2>2. th[1] \in Task
    BY DEF Thread
  <2>3. CASE Wake(th)
    <3>1. /\ used' = used /\ task[th] = "wait" /\ task' = [task EXCEPT ![th] = "woken"]
          /\ sem' = [sem EXCEPT ![th[1]] = @ + (-1)]
      BY <1>2, <2>2, <2>3 DEF Wake, poolVars
    <3>2. -1 \in Int
      OBVIOUS
    <3>3. Total(sem') = Total(sem) + (-1)
      BY <1>5, <2>2, <3>1, <3>2
    <3>4. Post1 \in Nat
      BY DEF Post1
    <3>5. Cardinality(Woken') = Cardinality(Woken) + 1
      BY <1>1, <3>1, WokenChanges
    <3> QED
      BY <1>2, <1>3, <1>4, <2>1, <3>1, <3>3, <3>4, <3>5
  <2>4. CASE Leave(th)
    BY <1>4, <2>1, <2>4 DEF Leave
  <2>5. CASE Dequeue(th)
    <3>1. bRunning /\ sem' = sem /\ task[th] = "woken"
      BY <2>5 DEF Dequeue
    <3>2. ~failed => used # <<>>
      <4>1. th \in Woken
        BY <3>1 DEF Woken
      <4>2. Cardinality(Woken) # 0
        BY <1>1, <4>1, PostedTypes, FS_EmptySet
      <4>3. Post1 \in Nat
        BY DEF Post1
      <4> QED
        BY <1>2, <1>3, <3>1, <4>2, <4>3
    <3>3. CASE used # <<>>
      <4>1. Len(used') = Len(used) - 1 /\ task' = [task EXCEPT ![th] = "dispatch"]
        BY <1>2, <2>5, <3>3 DEF Dequeue
      <4> DEFINE v == "dispatch"
      <4>2. v # "woken" /\ task' = [task EXCEPT ![th] = v]
        BY <4>1
      <4> HIDE DEF v
      <4>3. Cardinality(Woken') = Cardinality(Woken) - 1
        BY <1>1, <3>1, <4>2, WokenChanges
      <4>4. Post1 \in Nat
        BY DEF Post1
      <4> QED
        BY <1>2, <1>3, <1>4, <2>1, <3>1, <4>1, <4>3, <4>4
    <3> QED
      BY <1>4, <2>1, <3>2, <3>3
  <2>6. CASE Handle(th) \/ Answer(th) \/ Release(th)
    <3>1. \E v \in {"reply", "release", "wait"} : task' = [task EXCEPT ![th] = v]
      BY <2>6 DEF Handle, Answer, Release
    <3>2. used' = used /\ sem' = sem /\ task[th] # "woken"
      BY <2>6 DEF Handle, Answer, Release, poolVars
    <3>3. Woken' = Woken
      BY <1>1, <3>1, <3>2, WokenChanges
    <3> QED
      BY <1>3, <1>4, <2>1, <3>2, <3>3
  <2> QED
    BY <1>9, <2>3, <2>4, <2>5, <2>6 DEF TaskStep
<1>10. CASE Send \/ ReplyMethod \/ UNCHANGED vars
  <2>1. UNCHANGED <<bRunning, failed, used, sem, task, router>>
    BY <1>10 DEF Send, ReplyMethod, vars, lifeVars, poolVars, taskVars, routerVars
  <2> QED
    BY <1>3, <1>4, <2>1 DEF Post1, Woken
<1> QED
  BY <1>6, <1>7, <1>8, <1>9, <1>10 DEF Next

\* WakeupsMatchRequests of MsgBoxServer: while the server runs, the semaphores of all tasks and
\* the threads just woken together count the requests in the list that the tasks share.
THEOREM WakeupsMatch == Spec => []WakeupsMatchRequests
<1>1. Init => WakeupsMatchRequests
  BY DEF Init, WakeupsMatchRequests
<1> QED
  BY InitInductive, StepInductive, WakeupsStep, <1>1, PTL DEF Spec
===============================================================================
