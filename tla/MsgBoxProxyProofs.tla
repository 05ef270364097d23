-------------------------- MODULE MsgBoxProxyProofs ---------------------------
(* Proofs about MsgBoxProxy that hold for every number of tokens, operations,  *)
(* broadcasts and restarts: its types; which replies a callback is given, and  *)
(* how often; that no operation loses its registration to another one; that    *)
(* client and server agree on subscriptions that are changed one at a time;    *)
(* and which registries come back from the map that a restarting server reads. *)
EXTENDS MsgBoxProxy, QueueLemmas, FiniteSetTheorems, TLAPS

\* A reply is in hand from the moment it is taken until what it is about is cleared.
InHand == phase \in {"callback", "notify", "clear"} => inhand \in ReplyMsg

\* An operation is registered for one token at most, after it was issued and until its
\* callback has been called and the token cleared.
RegisteredOnce ==
    \A t1, t2 \in Token : method_registry[t1] = method_registry[t2] /\ method_registry[t1] # None
                            => t1 = t2

NotYetSent == \A n \in Op :
    /\ n > issued => status[n] = "unused"
    /\ n > issued \/ status[n] = "registered"
          => calls[n] = 0 /\ \A t \in Token : method_registry[t] # n

CalledWhen ==
    /\ \A t \in Token : method_registry[t] # None =>
          calls[method_registry[t]] = IF phase = "notify" /\ inhand.token = t THEN 1 ELSE 0
    /\ \A n \in Op : calls[n] \in {0, 1} /\ (status[n] = "ok" => calls[n] = 1)

Inductive == TypeOK /\ InHand /\ RegisteredOnce /\ NotYetSent /\ CalledWhen

-----------------------------------------------------------------------------
(* Types.                                                                  *)

LEMMA InitType == Init => TypeOK
<1> SUFFICES ASSUME Init PROVE TypeOK
  OBVIOUS
<1>1. ClientType
  BY ParameterAssumption DEF Init, ClientType, Command, Status, None
<1>2. ResultType
  BY DEF Init, ResultType
<1>3. TransportType
  BY DEF Init, TransportType
<1>4. ServerType
  BY ParameterAssumption DEF Init, ServerType
<1> QED
  BY <1>1, <1>2, <1>3, <1>4 DEF TypeOK

\* The steps in which operations are issued, sent and given up.
ClientStep ==
    \E n \in Op :
        \/ \E c \in Calls : Call(n, c)
        \/ \E b \in Broadcast : Subscribe(n, b) \/ Unsubscribe(n, b)
        \/ SendSubscribe(n)
        \/ Timeout(n)

ServerStep == Serve \/ Refuse \/ Restart \/ \E b \in Broadcast : SendBroadcast(b)

LEMMA Steps == Next <=> ClientStep \/ ServerStep \/ RouterStep
  BY DEF Next, ClientStep, ServerStep

\* Commands are numbered: broadcasts first, then methods.
LEMMA Numbers ==
    /\ Calls \subseteq Command /\ \A c \in Calls : IsCall(c) /\ c.on \notin Broadcast
    /\ \A k \in {"sub", "unsub"}, b \in Broadcast : [kind |-> k, on |-> b] \in Command
    /\ \A c \in Command : IsCall(c) <=> c.on \notin Broadcast
<1>1. Method \cap Broadcast = {} /\ None \notin Broadcast
  BY ParameterAssumption DEF Method, Broadcast, None
<1>2. Calls \subseteq [kind : {"sync", "async"}, on : Method]
  BY ParameterAssumption DEF Method
<1> QED
  BY <1>1, <1>2 DEF Command, IsCall

\* What a send does to the registry and the requests.
LEMMA SendType ==
    ASSUME TypeOK, NEW n \in Op, NEW t \in Token, SendRequest(n, t)
    PROVE  /\ method_registry' \in [Token -> {None} \cup Op]
           /\ requests' \in Seq(RequestMsg)
<1>1. requests \in Seq(RequestMsg) /\ [token |-> t, op |-> n] \in RequestMsg
  BY DEF TypeOK, TransportType, RequestMsg
<1>2. requests' = Append(requests, [token |-> t, op |-> n])
  BY DEF SendRequest
<1>3. requests' \in Seq(RequestMsg)
  BY <1>1, <1>2
<1> QED
  BY <1>3 DEF SendRequest, TypeOK, ClientType

LEMMA ClientKeepsType ==
    ASSUME TypeOK, ClientStep
    PROVE  TypeOK'
<1>1. PICK n \in Op :
        \/ \E c \in Calls : Call(n, c)
        \/ \E b \in Broadcast : Subscribe(n, b) \/ Unsubscribe(n, b)
        \/ SendSubscribe(n)
        \/ Timeout(n)
  BY DEF ClientStep
<1>2. UNCHANGED <<resultVars, replies, broadcasts, routerVars, serverVars, sent, heard>>
  BY <1>1 DEF Call, Subscribe, Unsubscribe, SendSubscribe, Timeout, Expire, ClearExpired
<1>3. ResultType'
  BY <1>2 DEF TypeOK, ResultType, resultVars
<1>4. /\ method_registry' \in [Token -> {None} \cup Op]
      /\ requests' \in Seq(RequestMsg)
  <2>1. CASE \E t \in Token : SendRequest(n, t)
    BY <2>1, SendType
  <2>2. CASE UNCHANGED <<method_registry, requests>>
    BY <2>2 DEF TypeOK, ClientType, TransportType
  <2>3. CASE Timeout(n)
    BY <2>3 DEF Timeout, Expire, ClearExpired, TypeOK, ClientType, TransportType
  <2> QED
    BY <1>1, <2>1, <2>2, <2>3 DEF Call, Subscribe, Unsubscribe, SendSubscribe
<1>5. TransportType'
  BY <1>2, <1>4 DEF TypeOK, TransportType, routerVars
<1>6. ClientType'
  <2>1. issued' \in 0..MaxOps /\ command' \in [Op -> Command]
    <3>1. CASE \E c \in Command : Issue(n, c)
      BY <3>1, ParameterAssumption DEF Issue, TypeOK, ClientType, Op
    <3>2. CASE UNCHANGED <<issued, command>>
      BY <3>2 DEF TypeOK, ClientType
    <3> QED
      BY <1>1, <3>1, <3>2, Numbers DEF Call, Subscribe, Unsubscribe, SendSubscribe, Timeout,
         Expire, ClearExpired
  <2>3. reg' \in [Op -> Token \cup {0}]
    <3>1. CASE UNCHANGED reg
      BY <3>1 DEF TypeOK, ClientType
    <3>2. CASE \E v \in Token \cup {0} : reg' = [reg EXCEPT ![n] = v]
      BY <3>2 DEF TypeOK, ClientType
    <3> QED
      BY <1>1, <3>1, <3>2 DEF Call, Subscribe, Unsubscribe, SendSubscribe, Timeout, Expire,
         ClearExpired
  <2>2. status' \in [Op -> Status]
    BY <1>1 DEF Call, Subscribe, Unsubscribe, SendSubscribe, Timeout, Expire, ClearExpired,
       TypeOK, ClientType, Status
  <2> QED
    BY <1>4, <2>1, <2>2, <2>3 DEF ClientType
<1>7. ServerType'
  <2>1. registry' \in [Broadcast -> {None} \cup Op] /\ view' \in [Broadcast -> {"out", "in", "changing"}]
    <3>1. CASE \E b \in Broadcast : Subscribe(n, b) \/ Unsubscribe(n, b)
      BY <3>1 DEF Subscribe, Unsubscribe, TypeOK, ServerType
    <3>2. CASE SendSubscribe(n)
      BY <3>2 DEF SendSubscribe, TypeOK, ServerType
    <3>3. CASE UNCHANGED <<registry, view>>
      BY <3>3 DEF TypeOK, ServerType
    <3> QED
      BY <1>1, <3>1, <3>2, <3>3 DEF Call, Timeout, Expire, ClearExpired
  <2>2. shared' \subseteq Op /\ hasty' \subseteq Broadcast
    <3>1. shared' \in {shared, shared \cup {n}}
      BY <1>1 DEF Call, Subscribe, Unsubscribe, SendSubscribe, Timeout, Expire, ClearExpired, SendRequest,
         traceVars
    <3>2. hasty' = hasty \/ \E b \in Broadcast : hasty' \in {hasty \cup {b}, hasty \ {b}}
      BY <1>1 DEF Call, Subscribe, Unsubscribe, SendSubscribe, Timeout, Expire, ClearExpired, traceVars
    <3> QED
      BY <3>1, <3>2 DEF TypeOK, ServerType
  <2> QED
    BY <1>2, <2>1, <2>2 DEF TypeOK, ServerType, serverVars
<1> QED
  BY <1>3, <1>5, <1>6, <1>7 DEF TypeOK

LEMMA ServerKeepsType ==
    ASSUME TypeOK, ServerStep
    PROVE  TypeOK'
<1>1. /\ UNCHANGED <<clientVars, resultVars, method_registry, registry, routerVars, heard, view>>
      /\ UNCHANGED <<shared, hasty>>
  BY DEF ServerStep, Serve, Refuse, Restart, SendBroadcast, traceVars
<1>2. ClientType' /\ ResultType'
  BY <1>1 DEF TypeOK, ClientType, ResultType, clientVars, resultVars
<1>3. CASE Serve \/ Refuse
  <2>1. PICK ret \in {0, -1} : /\ requests # <<>> /\ requests' = Tail(requests)
                               /\ replies' = Append(replies, Reply(ret))
    BY <1>3 DEF Serve, Refuse
  <2>2. Head(requests) \in RequestMsg /\ Tail(requests) \in Seq(RequestMsg)
    BY <2>1, TailContents DEF TypeOK, TransportType
  <2>3. Reply(ret) \in ReplyMsg
    BY <2>2 DEF Reply, RequestMsg, ReplyMsg
  <2>4. replies' \in Seq(ReplyMsg)
    BY <2>1, <2>3 DEF TypeOK, TransportType
  <2>5. UNCHANGED <<broadcasts, sent, restarts>>
    BY <1>3 DEF Serve, Refuse, serverVars
  <2>6. TransportType'
    BY <1>1, <2>1, <2>2, <2>4, <2>5 DEF TypeOK, TransportType, routerVars
  <2>7. subscribers' \subseteq Broadcast
    <3>1. command[Head(requests).op].kind = "sub" => command[Head(requests).op].on \in Broadcast
      BY <2>2 DEF RequestMsg, TypeOK, ClientType, Command
    <3>2. CASE Serve
      BY <3>1, <3>2 DEF Serve, TypeOK, ServerType
    <3>3. CASE Refuse
      BY <3>3 DEF Refuse, serverVars, TypeOK, ServerType
    <3> QED
      BY <1>3, <3>2, <3>3
  <2> QED
    BY <1>1, <1>2, <2>5, <2>6, <2>7 DEF TypeOK, ServerType
<1>4. CASE Restart
  <2>1. Restored(subscribers) \subseteq Broadcast
    BY DEF Restored
  <2>2. restarts' \in 0..MaxRestarts
    BY <1>4, ParameterAssumption DEF Restart, TypeOK, ServerType
  <2>3. <<>> \in Seq(RequestMsg)
    OBVIOUS
  <2> QED
    BY <1>1, <1>2, <1>4, <2>1, <2>2, <2>3 DEF Restart, TypeOK, TransportType, ServerType,
       routerVars
<1>5. ASSUME NEW b \in Broadcast, SendBroadcast(b) PROVE TypeOK'
  <2>1. sent + 1 \in 0..MaxMessages /\ sent + 1 \in 1..MaxMessages
    BY <1>5, ParameterAssumption DEF SendBroadcast, TypeOK, ServerType
  <2>2. broadcasts' \in Seq([on : Broadcast, number : 1..MaxMessages])
    BY <1>5, <2>1 DEF SendBroadcast, TypeOK, TransportType
  <2> QED
    BY <1>1, <1>2, <1>5, <2>1, <2>2 DEF SendBroadcast, TypeOK, TransportType, ServerType,
       routerVars, serverVars
<1> QED
  BY <1>3, <1>4, <1>5 DEF ServerStep

LEMMA HeadOfReplies ==
    ASSUME TypeOK, replies # <<>>
    PROVE  /\ Head(replies) \in ReplyMsg /\ Tail(replies) \in Seq(ReplyMsg)
           /\ Head(replies).token \in Token /\ Head(replies).op \in Op
           /\ ~IsCall(command[Head(replies).op]) => command[Head(replies).op].on \in Broadcast
<1>1. Head(replies) \in ReplyMsg /\ Tail(replies) \in Seq(ReplyMsg)
  BY TailContents DEF TypeOK, TransportType
<1>2. Head(replies).token \in Token /\ Head(replies).op \in Op
  BY <1>1 DEF ReplyMsg
<1> QED
  BY <1>1, <1>2 DEF IsCall, TypeOK, ClientType, Command

LEMMA RouterKeepsType ==
    ASSUME TypeOK, InHand, RouterStep
    PROVE  TypeOK'
<1>1. UNCHANGED <<issued, command, requests, serverVars, sent, shared, hasty>>
  BY DEF RouterStep, TakeBroadcast, NoBroadcast, NoReplyYet, TakeCallReply, Undeserialised,
     CallBack, Notify, TakeSubscriptionReply, ClearSubscription, clientVars, traceVars
<1>2. CASE TakeBroadcast
  <2>1. /\ Head(broadcasts) \in [on : Broadcast, number : 1..MaxMessages]
        /\ Tail(broadcasts) \in Seq([on : Broadcast, number : 1..MaxMessages])
    BY <1>2, TailContents DEF TakeBroadcast, TypeOK, TransportType
  <2>2. TransportType' /\ ServerType'
    BY <1>1, <1>2, <2>1 DEF TakeBroadcast, TypeOK, TransportType, ServerType, serverVars
  <2> QED
    BY <1>2, <2>2 DEF TakeBroadcast, TypeOK, ClientType, ResultType, clientVars, resultVars
<1>3. CASE NoBroadcast \/ NoReplyYet \/ Undeserialised
  BY <1>1, <1>3 DEF NoBroadcast, NoReplyYet, Undeserialised, TypeOK, ClientType, ResultType,
     TransportType,
     ServerType, clientVars, resultVars, serverVars
<1>4. CASE TakeCallReply
  <2>1. Head(replies) \in ReplyMsg /\ Tail(replies) \in Seq(ReplyMsg)
    BY <1>4, HeadOfReplies DEF TakeCallReply
  <2>2. TransportType'
    BY <1>1, <1>4, <2>1 DEF TakeCallReply, TypeOK, TransportType
  <2> QED
    BY <1>1, <1>4, <2>2 DEF TakeCallReply, TypeOK, ClientType, ResultType, ServerType, clientVars,
       resultVars, serverVars
<1>5. CASE CallBack
  <2>1. inhand.token \in Token /\ inhand.op \in Op
    BY <1>5 DEF CallBack, InHand, ReplyMsg
  <2>2. method_registry[inhand.token] \in {None} \cup Op
    BY <2>1 DEF TypeOK, ClientType
  <2>3. ResultType'
    BY <1>5, <2>1, <2>2 DEF CallBack, TypeOK, ResultType, resultVars
  <2> QED
    BY <1>1, <1>5, <2>3 DEF CallBack, TypeOK, ClientType, TransportType, ServerType, clientVars,
       serverVars
<1>6. CASE Notify
  <2>1. TransportType' /\ ResultType' /\ ServerType'
    BY <1>1, <1>6 DEF Notify, TypeOK, ResultType, TransportType, ServerType, resultVars,
       serverVars
  <2>2. ClientType'
    BY <1>6 DEF Notify, TypeOK, ClientType, Status
  <2> QED
    BY <2>1, <2>2 DEF TypeOK
<1>7. CASE TakeSubscriptionReply
  <2> DEFINE r == Head(replies)
             n == method_registry[r.token]
             c == command[r.op]
  <2>1. /\ r \in ReplyMsg /\ Tail(replies) \in Seq(ReplyMsg)
        /\ r.token \in Token /\ r.op \in Op /\ c.on \in Broadcast
    BY <1>7, HeadOfReplies DEF TakeSubscriptionReply
  <2>2. n \in {None} \cup Op
    BY <2>1 DEF TypeOK, ClientType
  <2>5. TransportType'
    BY <1>1, <1>7, <2>1 DEF TakeSubscriptionReply, TypeOK, TransportType, NoReply
  <2>3. CASE Expected(r)
    <3>1. /\ result' = [result EXCEPT ![n] = r.op] /\ calls' = [calls EXCEPT ![n] = @ + 1]
          /\ method_registry' = [method_registry EXCEPT ![r.token] = None]
          /\ view' = [view EXCEPT ![c.on] = Told(c, r.ret)]
          /\ UNCHANGED <<clientVars, registry, heard>>
      BY <1>7, <2>3 DEF TakeSubscriptionReply
    <3>4. n \in Op
      BY <2>2, <2>3 DEF Expected
    <3> HIDE DEF r, n, c
    <3>5. ClientType'
      BY <2>1, <3>1 DEF TypeOK, ClientType, clientVars
    <3>2. ResultType'
      BY <2>1, <3>4, <3>1 DEF TypeOK, ResultType
    <3>3. ServerType'
      BY <1>1, <2>1, <3>1 DEF Told, TypeOK, ServerType, serverVars
    <3> QED
      BY <2>5, <3>2, <3>3, <3>5 DEF TypeOK
  <2>4. CASE ~Expected(r)
    <3>1. UNCHANGED <<clientVars, resultVars, method_registry, registry, view, heard>>
      BY <1>7, <2>4 DEF TakeSubscriptionReply
    <3> QED
      BY <1>1, <2>5, <3>1 DEF TypeOK, ClientType, ResultType, ServerType, clientVars, resultVars, serverVars
  <2> QED
    BY <2>3, <2>4
<1>8. CASE ClearSubscription
  <2>1. /\ registry' = [registry EXCEPT ![command[inhand.op].on] = None]
        /\ phase' = "broadcast" /\ inhand' = NoReply
        /\ UNCHANGED <<clientVars, resultVars, method_registry, replies, broadcasts, heard, view>>
    BY <1>8 DEF ClearSubscription
  <2>2. registry' \in [Broadcast -> {None} \cup Op]
    BY <2>1 DEF TypeOK, ServerType
  <2>3. TransportType' /\ ClientType' /\ ResultType'
    BY <1>1, <2>1 DEF TypeOK, TransportType, ClientType, ResultType, clientVars, resultVars
  <2>4. ServerType'
    BY <1>1, <2>1, <2>2 DEF TypeOK, ServerType, serverVars
  <2> QED
    BY <2>3, <2>4 DEF TypeOK
<1> QED
  BY <1>2, <1>3, <1>4, <1>5, <1>6, <1>7, <1>8 DEF RouterStep
-----------------------------------------------------------------------------
(* How often a callback is called.                                         *)

\* A client step registers an operation that was not registered before, with a free
\* token that the router is not handling, or it registers nobody.
LEMMA ClientRegisters ==
    ASSUME TypeOK, InHand, NotYetSent, ClientStep
    PROVE  /\ UNCHANGED <<resultVars, replies, routerVars>>
           /\ \A n \in Op : status'[n] = "ok" => status[n] = "ok"
           /\ \/ /\ \A t \in Token : method_registry'[t] \in {None, method_registry[t]}
                 /\ requests' = requests
              \/ \E n \in Op, t \in Token :
                    /\ method_registry' = [method_registry EXCEPT ![t] = n]
                    /\ requests' = Append(requests, [token |-> t, op |-> n])
                    /\ calls[n] = 0 /\ \A u \in Token : method_registry[u] # n
                    /\ method_registry[t] = None /\ ~Handled(t)
                    /\ n <= issued' /\ status'[n] # "registered"
           /\ \A n \in Op : n > issued' => status'[n] = "unused"
           /\ \A n \in Op : n > issued' \/ status'[n] = "registered"
                              => n > issued \/ status[n] = "registered"
<1>1. PICK n \in Op :
        \/ \E c \in Calls : Call(n, c)
        \/ \E b \in Broadcast : Subscribe(n, b) \/ Unsubscribe(n, b)
        \/ SendSubscribe(n)
        \/ Timeout(n)
  BY DEF ClientStep
<1>2. UNCHANGED <<resultVars, replies, routerVars>>
  BY <1>1 DEF Call, Subscribe, Unsubscribe, SendSubscribe, Timeout, Expire, ClearExpired
<1>0. /\ issued \in Nat /\ Op \subseteq Nat
      /\ status \in [Op -> Status]
  <2>1. issued \in 0..MaxOps /\ MaxOps \in Nat
    BY ParameterAssumption DEF TypeOK, ClientType
  <2> QED
    BY <2>1 DEF TypeOK, ClientType, Op
<1>3. /\ \E v \in {"registered", "waiting", "expired", "sent", "timeout", "failed"} :
            status' = [status EXCEPT ![n] = v]
      /\ \/ issued' = issued
         \/ n = issued + 1 /\ issued' = issued + 1
  BY <1>1, <1>0 DEF Call, Subscribe, Unsubscribe, SendSubscribe, Timeout, Expire,
     ClearExpired, Issue
<1>4. \A m \in Op : status'[m] = "ok" => status[m] = "ok"
  BY <1>0, <1>3
<1>5. \A m \in Op : m > issued' \/ status'[m] = "registered"
                      => m > issued \/ status[m] = "registered"
  <2>1. ASSUME NEW m \in Op, m > issued' PROVE m > issued
    BY <1>0, <1>3, <2>1
  <2>2. ASSUME NEW m \in Op, m # n, status'[m] = "registered" PROVE status[m] = "registered"
    BY <1>0, <1>3, <2>2
  <2>3. ASSUME status'[n] = "registered" PROVE n > issued \/ status[n] = "registered"
    <3>1. CASE n = issued + 1
      BY <1>0, <3>1
    <3>2. CASE ~(n = issued + 1)
      BY <1>0, <1>1, <2>3, <3>2 DEF Call, Subscribe, Unsubscribe, SendSubscribe, Timeout,
         Expire, ClearExpired, Issue
    <3> QED
      BY <3>1, <3>2
  <2> QED
    BY <2>1, <2>2, <2>3
<1>10. n <= issued'
  <2>1. n = issued' \/ status[n] \in {"registered", "waiting", "expired"}
    BY <1>0, <1>1 DEF Call, Subscribe, Unsubscribe, SendSubscribe, Timeout, Expire, ClearExpired, Issue
  <2>2. status[n] \in {"registered", "waiting", "expired"} => n <= issued
    BY <1>0 DEF NotYetSent
  <2> QED
    BY <1>0, <1>3, <2>1, <2>2
<1>9. \A m \in Op : m > issued' => status'[m] = "unused"
  BY <1>0, <1>3, <1>10 DEF NotYetSent
<1>6. CASE Timeout(n)
  <2>1. /\ method_registry' = method_registry
           \/ \E u \in {reg[n]} : method_registry' = [method_registry EXCEPT ![u] = None]
        /\ requests' = requests
    BY <1>6 DEF Timeout, Expire, ClearExpired
  <2>2. \A t \in Token : method_registry'[t] \in {None, method_registry[t]}
    BY <2>1 DEF TypeOK, ClientType
  <2> QED
    BY <1>2, <1>4, <1>5, <1>9, <2>1, <2>2
<1>7. CASE \E t \in Token : SendRequest(n, t)
  <2>1. PICK t \in Token : SendRequest(n, t)
    BY <1>7
  <2>2. n > issued \/ status[n] = "registered"
    BY <1>0, <1>1, <2>1 DEF Call, Subscribe, Unsubscribe, SendSubscribe, Timeout, Expire,
       ClearExpired, Issue,
       SendRequest
  <2>3. method_registry[t] = None /\ ~Handled(t)
    BY <2>1 DEF SendRequest, FreeToken
  <2>4. calls[n] = 0 /\ \A u \in Token : method_registry[u] # n
    BY <2>2 DEF NotYetSent
  <2>6. status'[n] # "registered"
    <3>1. method_registry'[t] = n /\ n # None
      BY <2>1 DEF SendRequest, TypeOK, ClientType, Op, None
    <3>2. method_registry' # method_registry
      BY <2>3, <3>1
    <3> QED
      BY <1>0, <1>1, <3>2 DEF Call, Subscribe, Unsubscribe, SendSubscribe, Timeout, Expire,
         ClearExpired
  <2>7. /\ method_registry' = [method_registry EXCEPT ![t] = n]
        /\ requests' = Append(requests, [token |-> t, op |-> n])
    BY <2>1 DEF SendRequest
  <2> QED
    BY <1>2, <1>4, <1>5, <1>9, <1>10, <2>3, <2>4, <2>6, <2>7
<1>8. CASE UNCHANGED <<method_registry, requests>>
  <2>1. /\ \A t \in Token : method_registry'[t] \in {None, method_registry[t]}
        /\ requests' = requests
    BY <1>8
  <2> QED
    BY <1>2, <1>4, <1>5, <1>9, <2>1
<1> QED
  BY <1>1, <1>6, <1>7, <1>8 DEF Call, Subscribe, Unsubscribe, SendSubscribe

LEMMA MessageTokens ==
    ASSUME TypeOK, InHand
    PROVE  /\ \A i \in DOMAIN requests : requests[i].token \in Token /\ requests[i].op \in Op
           /\ \A i \in DOMAIN replies : replies[i].token \in Token /\ replies[i].op \in Op
           /\ phase \in {"callback", "notify", "clear"} => inhand.token \in Token /\ inhand.op \in Op
<1>1. requests \in Seq(RequestMsg) /\ replies \in Seq(ReplyMsg)
  BY DEF TypeOK, TransportType
<1>2. /\ \A i \in DOMAIN requests : requests[i] \in RequestMsg
      /\ \A i \in DOMAIN replies : replies[i] \in ReplyMsg
  BY <1>1
<1>3. /\ \A m \in RequestMsg : m.token \in Token /\ m.op \in Op
      /\ \A m \in ReplyMsg : m.token \in Token /\ m.op \in Op
  BY DEF RequestMsg, ReplyMsg
<1> QED
  BY <1>2, <1>3 DEF InHand

LEMMA ClientKeepsRegistry ==
    ASSUME TypeOK, InHand, RegisteredOnce, NotYetSent, CalledWhen, ClientStep
    PROVE  InHand' /\ RegisteredOnce' /\ NotYetSent' /\ CalledWhen'
<1>0. /\ UNCHANGED <<resultVars, replies, routerVars>>
      /\ \A n \in Op : status'[n] = "ok" => status[n] = "ok"
      /\ \A n \in Op : n > issued' => status'[n] = "unused"
      /\ \A n \in Op : n > issued' \/ status'[n] = "registered"
                         => n > issued \/ status[n] = "registered"
  BY ClientRegisters
<1>1. InHand'
  BY <1>0 DEF InHand, routerVars
<1>2. \A n \in Op : calls'[n] \in {0, 1} /\ (status'[n] = "ok" => calls'[n] = 1)
  BY <1>0 DEF CalledWhen, resultVars
<1>3. CASE /\ \A t \in Token : method_registry'[t] \in {None, method_registry[t]}
           /\ requests' = requests
  <2>2. RegisteredOnce'
    BY <1>3 DEF RegisteredOnce
  <2>3. NotYetSent'
    <3>1. ASSUME NEW n \in Op, n > issued' \/ status'[n] = "registered"
          PROVE  calls'[n] = 0 /\ \A t \in Token : method_registry'[t] # n
      <4>1. calls[n] = 0 /\ \A t \in Token : method_registry[t] # n
        BY <1>0, <3>1 DEF NotYetSent
      <4>2. n # None
        BY DEF Op, None
      <4> QED
        BY <1>0, <1>3, <4>1, <4>2 DEF resultVars
    <3> QED
      BY <1>0, <3>1 DEF NotYetSent
  <2>4. CalledWhen'
    BY <1>0, <1>2, <1>3 DEF CalledWhen, resultVars, routerVars
  <2> QED
    BY <1>1, <2>2, <2>3, <2>4
<1>4. ASSUME NEW n \in Op, NEW t \in Token,
             method_registry' = [method_registry EXCEPT ![t] = n],
             requests' = Append(requests, [token |-> t, op |-> n]),
             calls[n] = 0, \A u \in Token : method_registry[u] # n,
             method_registry[t] = None, ~Handled(t),
             n <= issued', status'[n] # "registered"
      PROVE  RegisteredOnce' /\ NotYetSent' /\ CalledWhen'
  <2>0. method_registry \in [Token -> {None} \cup Op] /\ None \notin Op
    BY DEF TypeOK, ClientType, None, Op
  <2>1. phase \in {"callback", "notify"} => inhand.token \in Token \ {t}
    BY <1>4, MessageTokens DEF Handled
  <2>2. /\ method_registry'[t] = n
        /\ \A u \in Token \ {t} : method_registry'[u] = method_registry[u]
    BY <1>4, <2>0
  <2>4. RegisteredOnce'
    BY <1>4, <2>2 DEF RegisteredOnce
  <2>5. NotYetSent'
    <3>1. ASSUME NEW m \in Op, m > issued' \/ status'[m] = "registered"
          PROVE  calls'[m] = 0 /\ \A u \in Token : method_registry'[u] # m
      <4>1. calls[m] = 0 /\ \A u \in Token : method_registry[u] # m
        BY <1>0, <3>1 DEF NotYetSent
      <4>2. m # n
        <5>1. issued \in Nat /\ issued' \in Nat /\ n \in Nat
          <6>1. issued \in 0..MaxOps /\ issued' \in 0..MaxOps /\ MaxOps \in Nat
            BY ClientKeepsType, ParameterAssumption DEF TypeOK, ClientType
          <6> QED
            BY <6>1 DEF Op
        <5> QED
          BY <1>4, <3>1, <5>1
      <4> QED
        BY <1>0, <2>2, <4>1, <4>2 DEF resultVars
    <3> QED
      BY <1>0, <3>1 DEF NotYetSent
  <2>6. CalledWhen'
    <3>1. ASSUME NEW u \in Token, method_registry'[u] # None
          PROVE  calls'[method_registry'[u]] =
                    IF phase' = "notify" /\ inhand'.token = u THEN 1 ELSE 0
      <4>1. CASE u = t
        BY <1>0, <1>4, <2>1, <2>2, <4>1 DEF resultVars, routerVars
      <4>2. CASE u # t
        BY <1>0, <2>2, <3>1, <4>2 DEF CalledWhen, resultVars, routerVars
      <4> QED
        BY <4>1, <4>2
    <3> QED
      BY <1>2, <3>1 DEF CalledWhen
  <2> QED
    BY <2>4, <2>5, <2>6
<1> QED
  BY <1>1, <1>3, <1>4, ClientRegisters

LEMMA ServerKeepsRegistry ==
    ASSUME InHand, RegisteredOnce, NotYetSent, CalledWhen, ServerStep
    PROVE  InHand' /\ RegisteredOnce' /\ NotYetSent' /\ CalledWhen'
<1>1. UNCHANGED <<clientVars, resultVars, method_registry, routerVars>>
  BY DEF ServerStep, Serve, Refuse, Restart, SendBroadcast
<1> QED
  BY <1>1 DEF clientVars, resultVars, routerVars, InHand, RegisteredOnce, NotYetSent, CalledWhen

LEMMA RouterKeepsRegistry ==
    ASSUME TypeOK, InHand, RegisteredOnce, NotYetSent, CalledWhen, RouterStep
    PROVE  InHand' /\ RegisteredOnce' /\ NotYetSent' /\ CalledWhen'
<1>0. /\ method_registry \in [Token -> {None} \cup Op] /\ None \notin Op
      /\ calls \in [Op -> Nat] /\ issued' = issued
  BY DEF RouterStep, TakeBroadcast, NoBroadcast, NoReplyYet, TakeCallReply, Undeserialised,
     CallBack, Notify, TakeSubscriptionReply, ClearSubscription, clientVars, TypeOK, ClientType,
     ResultType, None, Op
<1>1. CASE TakeBroadcast \/ NoBroadcast \/ NoReplyYet \/ Undeserialised \/ ClearSubscription
  <2>1. /\ UNCHANGED <<clientVars, resultVars, method_registry>>
        /\ phase # "notify" /\ phase' \in {"broadcast", "reply"}
    BY <1>1 DEF TakeBroadcast, NoBroadcast, NoReplyYet, Undeserialised, ClearSubscription
  <2> QED
    BY <2>1 DEF clientVars, resultVars, InHand, RegisteredOnce, NotYetSent, CalledWhen
<1>3. CASE TakeCallReply
  <2>1. /\ UNCHANGED <<clientVars, resultVars, method_registry>>
        /\ phase = "reply" /\ phase' \in {"broadcast", "callback"}
        /\ phase' = "callback" => inhand' = Head(replies)
        /\ replies # <<>>
    BY <1>3 DEF TakeCallReply
  <2>2. InHand'
    BY <2>1, HeadOfReplies DEF InHand
  <2>3. RegisteredOnce' /\ NotYetSent' /\ CalledWhen'
    BY <2>1 DEF clientVars, resultVars, RegisteredOnce, NotYetSent, CalledWhen
  <2> QED
    BY <2>2, <2>3
<1>4. CASE CallBack
  <2> DEFINE n == method_registry[inhand.token]
  <2>1. /\ UNCHANGED <<clientVars, method_registry, inhand>>
        /\ phase = "callback" /\ phase' = "notify"
    BY <1>4 DEF CallBack
  <2>2. inhand.token \in Token /\ n \in {None} \cup Op
    BY <1>0, <2>1, MessageTokens
  <2>3. InHand' /\ RegisteredOnce'
    BY <2>1 DEF InHand, RegisteredOnce
  <2>4. CASE n = None
    <3>1. UNCHANGED resultVars
      BY <1>4, <2>4 DEF CallBack
    <3>2. NotYetSent'
      BY <2>1, <3>1 DEF clientVars, resultVars, NotYetSent
    <3>3. CalledWhen'
      BY <2>1, <2>4, <3>1 DEF clientVars, resultVars, CalledWhen
    <3> QED
      BY <2>3, <3>2, <3>3
  <2>5. CASE n # None
    <3>1. n \in Op /\ calls' = [calls EXCEPT ![n] = calls[n] + 1]
      BY <1>0, <1>4, <2>2, <2>5 DEF CallBack
    <3>2. calls[n] = 0
      BY <2>1, <2>2, <2>5 DEF CalledWhen
    <3>3. calls'[n] = 1 /\ \A m \in Op \ {n} : calls'[m] = calls[m]
      BY <1>0, <3>1, <3>2
    <3>5. NotYetSent'
      <4>1. ~(n > issued \/ status[n] = "registered")
        BY <2>2, <2>5, <3>1 DEF NotYetSent
      <4> QED
        BY <2>1, <3>1, <3>3, <4>1 DEF clientVars, NotYetSent
    <3>6. CalledWhen'
      <4>1. ASSUME NEW t \in Token, method_registry[t] # None
            PROVE  calls'[method_registry[t]] = IF inhand.token = t THEN 1 ELSE 0
        <5>1. CASE t = inhand.token
          BY <3>3, <5>1
        <5>2. CASE t # inhand.token
          <6>1. method_registry[t] \in Op \ {n}
            BY <1>0, <2>2, <2>5, <4>1, <5>2 DEF RegisteredOnce
          <6> QED
            BY <2>1, <3>3, <4>1, <5>2, <6>1 DEF CalledWhen
        <5> QED
          BY <5>1, <5>2
      <4>2. \A m \in Op : calls'[m] \in {0, 1} /\ (status[m] = "ok" => calls'[m] = 1)
        BY <3>3 DEF CalledWhen
      <4> QED
        BY <2>1, <4>1, <4>2 DEF clientVars, CalledWhen
    <3> QED
      BY <2>3, <3>5, <3>6
  <2> QED
    BY <2>4, <2>5
<1>5. CASE Notify
  <2> DEFINE n == method_registry[inhand.token]
  <2>1. /\ UNCHANGED resultVars
        /\ phase = "notify" /\ phase' = "broadcast"
        /\ method_registry' = [method_registry EXCEPT ![inhand.token] = None]
        /\ status' = status \/ (n # None /\ status' = [status EXCEPT ![n] = "ok"])
    BY <1>5 DEF Notify
  <2>2. /\ inhand.token \in Token /\ method_registry'[inhand.token] = None
        /\ \A t \in Token \ {inhand.token} : method_registry'[t] = method_registry[t]
        /\ n # None => n \in Op /\ calls[n] = 1
    BY <1>0, <2>1, MessageTokens DEF CalledWhen
  <2>3. InHand' /\ RegisteredOnce'
    BY <2>1, <2>2 DEF InHand, RegisteredOnce
  <2>4. \A m \in Op : status'[m] = status[m] \/ (m = n /\ n # None /\ status'[m] = "ok")
    BY <2>1 DEF TypeOK, ClientType
  <2>5. NotYetSent'
    <3>1. n \in Op => ~(n > issued)
      BY <2>2 DEF NotYetSent
    <3> QED
      BY <1>0, <2>1, <2>2, <2>4, <3>1 DEF NotYetSent, resultVars
  <2>6. CalledWhen'
    BY <2>1, <2>2, <2>4 DEF CalledWhen, resultVars
  <2> QED
    BY <2>3, <2>5, <2>6
<1>6. CASE TakeSubscriptionReply
  <2> DEFINE r == Head(replies)
             n == method_registry[r.token]
  <2>1. /\ phase = "reply" /\ phase' \in {"broadcast", "clear"}
        /\ replies # <<>> /\ UNCHANGED clientVars
    BY <1>6 DEF TakeSubscriptionReply
  <2>2. r.token \in Token /\ n \in {None} \cup Op
    BY <1>0, <2>1, HeadOfReplies
  <2>3. InHand'
    BY <1>6, HeadOfReplies DEF TakeSubscriptionReply, InHand
  <2>4. CASE ~Expected(r)
    <3>1. UNCHANGED <<resultVars, method_registry>>
      BY <1>6, <2>4 DEF TakeSubscriptionReply
    <3>2. RegisteredOnce' /\ NotYetSent' /\ CalledWhen'
      BY <2>1, <3>1 DEF clientVars, resultVars, RegisteredOnce, NotYetSent, CalledWhen
    <3> QED
      BY <2>3, <3>2
  <2>5. CASE Expected(r)
    <3>1. /\ n # None /\ calls' = [calls EXCEPT ![n] = calls[n] + 1]
          /\ method_registry' = [method_registry EXCEPT ![r.token] = None]
      BY <1>6, <2>5 DEF TakeSubscriptionReply, Expected
    <3>2. n \in Op /\ calls[n] = 0
      BY <2>1, <2>2, <3>1 DEF CalledWhen
    <3>3. calls'[n] = 1 /\ \A m \in Op \ {n} : calls'[m] = calls[m]
      BY <1>0, <3>1, <3>2
    <3>4. /\ method_registry'[r.token] = None
          /\ \A t \in Token \ {r.token} : method_registry'[t] = method_registry[t]
      BY <1>0, <2>2, <3>1
    <3>7. RegisteredOnce'
      BY <3>4 DEF RegisteredOnce
    <3>8. NotYetSent'
      <4>1. ~(n > issued \/ status[n] = "registered")
        BY <2>2, <3>1, <3>2 DEF NotYetSent
      <4>2. \A m \in Op : (\A t \in Token : method_registry[t] # m)
                            => \A t \in Token : method_registry'[t] # m
        BY <1>0, <3>4
      <4> QED
        BY <2>1, <3>2, <3>3, <4>1, <4>2 DEF clientVars, NotYetSent
    <3>9. CalledWhen'
      <4>1. ASSUME NEW t \in Token, method_registry'[t] # None
            PROVE  calls'[method_registry'[t]] = 0
        <5>1. t # r.token /\ method_registry'[t] = method_registry[t]
          BY <3>4, <4>1
        <5>2. method_registry[t] \in Op \ {n}
          BY <1>0, <2>2, <3>1, <4>1, <5>1 DEF RegisteredOnce
        <5>3. calls[method_registry[t]] = 0
          BY <2>1, <4>1, <5>1 DEF CalledWhen
        <5> QED
          BY <3>3, <5>1, <5>2, <5>3
      <4>2. \A m \in Op : calls'[m] \in {0, 1} /\ (status[m] = "ok" => calls'[m] = 1)
        BY <3>3 DEF CalledWhen
      <4> QED
        BY <2>1, <4>1, <4>2 DEF clientVars, CalledWhen
    <3> QED
      BY <2>3, <3>7, <3>8, <3>9
  <2> QED
    BY <2>4, <2>5
<1> QED
  BY <1>1, <1>3, <1>4, <1>5, <1>6 DEF RouterStep

-----------------------------------------------------------------------------
LEMMA InitInductive == Init => Inductive
<1> SUFFICES ASSUME Init PROVE Inductive
  OBVIOUS
<1>1. TypeOK
  BY InitType
<1>2. InHand /\ RegisteredOnce
  BY DEF Init, InHand, RegisteredOnce
<1>3. NotYetSent /\ CalledWhen
  BY DEF Init, NotYetSent, CalledWhen, None, Op
<1> QED
  BY <1>1, <1>2, <1>3 DEF Inductive

LEMMA StepInductive ==
    ASSUME Inductive, [Next]_vars
    PROVE  Inductive'
<1>1. CASE ClientStep
  BY <1>1, ClientKeepsType, ClientKeepsRegistry DEF Inductive
<1>2. CASE ServerStep
  BY <1>2, ServerKeepsType, ServerKeepsRegistry DEF Inductive
<1>3. CASE RouterStep
  BY <1>3, RouterKeepsType, RouterKeepsRegistry DEF Inductive
<1>4. CASE UNCHANGED vars
  <2>1. TypeOK'
    BY <1>4 DEF Inductive, vars, clientVars, resultVars, routerVars, serverVars, traceVars, TypeOK,
       ClientType, ResultType, TransportType, ServerType
  <2>2. InHand' /\ RegisteredOnce' /\ NotYetSent' /\ CalledWhen'
    BY <1>4 DEF Inductive, vars, clientVars, resultVars, routerVars, InHand, RegisteredOnce,
       NotYetSent, CalledWhen
  <2> QED
    BY <2>1, <2>2 DEF Inductive
<1> QED
  BY <1>1, <1>2, <1>3, <1>4, Steps

\* Every variable keeps its type, for any number of tokens: what the registry holds is an
\* operation, what is in hand a reply.
THEOREM TypeCorrect == Spec => []TypeOK
<1>1. Inductive /\ [Next]_vars => Inductive'
  BY StepInductive
<1>2. Inductive => TypeOK
  BY DEF Inductive
<1> QED
  BY <1>1, <1>2, InitInductive, PTL DEF Spec

\* No callback is called twice, and a synchronous call that returns success has had its
\* callback called, however calls time out and whatever tokens are used again.
THEOREM CallbacksOnce == Spec => []CallbackOnce
<1>1. Inductive /\ [Next]_vars => Inductive'
  BY StepInductive
<1>2. Inductive => CallbackOnce
  BY DEF Inductive, CalledWhen, CallbackOnce
<1> QED
  BY <1>1, <1>2, InitInductive, PTL DEF Spec

-----------------------------------------------------------------------------
(* Which replies a callback is given, and which operations stay registered.    *)

\* What is in transit or in hand has been issued, and only subscriptions are registered before they are sent.
Issued ==
    /\ \A i \in DOMAIN requests : requests[i].op <= issued
    /\ \A i \in DOMAIN replies : replies[i].op <= issued
    /\ phase \in {"callback", "notify", "clear"} => inhand.op <= issued
    /\ \A n \in Op : n > issued => status[n] = "unused"
    /\ \A n \in Op : status[n] = "registered" => command[n].kind = "sub" /\ command[n].on \in Broadcast

LEMMA MessageTypes ==
    ASSUME TypeOK
    PROVE  /\ requests \in Seq(RequestMsg) /\ replies \in Seq(ReplyMsg)
           /\ \A i \in DOMAIN requests : i \in Nat /\ requests[i].op \in Op
           /\ \A i \in DOMAIN replies : i \in Nat /\ replies[i].op \in Op /\ replies[i].ret \in {0, -1}
           /\ \A n \in Op : command[n] \in Command /\ n \in Nat /\ n # None
           /\ \A b \in Broadcast : b \in Nat /\ b # None
           /\ issued \in Nat
<1>1. requests \in Seq(RequestMsg) /\ replies \in Seq(ReplyMsg) /\ command \in [Op -> Command]
      /\ issued \in Nat
  BY DEF TypeOK, TransportType, ClientType
<1>2. /\ \A i \in DOMAIN requests : i \in Nat /\ requests[i] \in RequestMsg
      /\ \A i \in DOMAIN replies : i \in Nat /\ replies[i] \in ReplyMsg
  BY <1>1
<1>3. /\ \A m \in RequestMsg : m.op \in Op
      /\ \A m \in ReplyMsg : m.op \in Op /\ m.ret \in {0, -1}
  BY DEF RequestMsg, ReplyMsg
<1>4. /\ \A n \in Op : n \in Nat /\ n # None
      /\ \A b \in Broadcast : b \in Nat /\ b # None
  BY ParameterAssumption DEF Op, Broadcast, None
<1> QED
  BY <1>1, <1>2, <1>3, <1>4

\* What is appended to a queue, and what taking its head leaves.
LEMMA QueueShape ==
    ASSUME NEW T, NEW s \in Seq(T)
    PROVE  /\ \A x \in T : /\ DOMAIN Append(s, x) = DOMAIN s \cup {Len(s) + 1}
                           /\ Append(s, x)[Len(s) + 1] = x
                           /\ \A i \in DOMAIN s : Append(s, x)[i] = s[i]
           /\ Len(s) \in Nat /\ Len(s) + 1 \notin DOMAIN s
           /\ s # <<>> => /\ 1 \in DOMAIN s /\ Head(s) = s[1] /\ Head(s) \in T
                          /\ \A i \in DOMAIN Tail(s) : /\ i \in Nat /\ i + 1 \in DOMAIN s /\ i # 0
                                                       /\ Tail(s)[i] = s[i + 1]
<1>1. ASSUME NEW x \in T
      PROVE  /\ DOMAIN Append(s, x) = DOMAIN s \cup {Len(s) + 1}
             /\ Append(s, x)[Len(s) + 1] = x
             /\ \A i \in DOMAIN s : Append(s, x)[i] = s[i]
  OBVIOUS
<1>2. Len(s) \in Nat /\ Len(s) + 1 \notin DOMAIN s
  OBVIOUS
<1>3. ASSUME s # <<>>
      PROVE  /\ 1 \in DOMAIN s /\ Head(s) = s[1] /\ Head(s) \in T
             /\ \A i \in DOMAIN Tail(s) : /\ i \in Nat /\ i + 1 \in DOMAIN s /\ i # 0
                                          /\ Tail(s)[i] = s[i + 1]
  BY <1>3
<1> QED
  BY <1>1, <1>2, <1>3

\* The command of an operation is set when it is issued and stays.
LEMMA ClientIssues ==
    ASSUME TypeOK, InHand, Issued, ClientStep
    PROVE  /\ Issued' /\ issued' \in Nat /\ issued <= issued'
           /\ \A m \in Op : m <= issued => command'[m] = command[m]
<1>1. PICK n \in Op :
        \/ \E c \in Calls : Call(n, c)
        \/ \E b \in Broadcast : Subscribe(n, b) \/ Unsubscribe(n, b)
        \/ SendSubscribe(n)
        \/ Timeout(n)
  BY DEF ClientStep
<1>2. /\ replies' = replies /\ phase' = phase /\ inhand' = inhand
      /\ \/ requests' = requests
         \/ \E t \in Token : requests' = Append(requests, [token |-> t, op |-> n])
  BY <1>1 DEF Call, Subscribe, Unsubscribe, SendSubscribe, Timeout, Expire, ClearExpired,
     SendRequest, routerVars
<1>3. /\ issued \in Nat /\ Op \subseteq Nat /\ status \in [Op -> Status] /\ command \in [Op -> Command]
      /\ phase \in {"callback", "notify", "clear"} => inhand.op \in Op
  BY MessageTypes, MessageTokens DEF TypeOK, ClientType
<1>4. /\ \/ issued' = issued /\ command' = command
         \/ /\ n = issued + 1 /\ issued' = n
            /\ \E c \in Command : command' = [command EXCEPT ![n] = c]
      /\ \A m \in Op : m # n => status'[m] = status[m]
      /\ status'[n] # "unused"
      /\ n = issued' \/ status[n] # "unused"
  BY <1>1, <1>3, Numbers DEF Call, Subscribe, Unsubscribe, SendSubscribe, Timeout, Expire,
     ClearExpired, Issue
<1>5. status'[n] = "registered" => command'[n].kind = "sub" /\ command'[n].on \in Broadcast
  <2>1. status'[n] = "registered" =>
            \E b \in Broadcast : command' = [command EXCEPT ![n] = [kind |-> "sub", on |-> b]]
    BY <1>1, <1>3 DEF Call, Subscribe, Unsubscribe, SendSubscribe, Timeout, Expire, ClearExpired, Issue
  <2> QED
    BY <1>3, <2>1
<1>6. n <= issued' /\ issued' \in Nat /\ issued <= issued'
  BY <1>3, <1>4 DEF Issued
<1>7. \A m \in Op : m <= issued => command'[m] = command[m]
  BY <1>3, <1>4
<1>8. \A i \in DOMAIN requests' : requests'[i].op <= issued'
  <2>1. CASE requests' = requests
    BY <1>3, <1>6, <2>1, MessageTypes DEF Issued
  <2>2. ASSUME NEW t \in Token, requests' = Append(requests, [token |-> t, op |-> n])
        PROVE  \A i \in DOMAIN requests' : requests'[i].op <= issued'
    <3>1. requests \in Seq(RequestMsg) /\ [token |-> t, op |-> n] \in RequestMsg
      BY MessageTypes DEF RequestMsg
    <3>2. \A i \in DOMAIN requests' : \/ i \in DOMAIN requests /\ requests'[i] = requests[i]
                                      \/ requests'[i] = [token |-> t, op |-> n]
      BY <2>2, <3>1, QueueShape
    <3>3. \A i \in DOMAIN requests : requests[i].op \in Nat /\ requests[i].op <= issued'
      BY <1>3, <1>6, MessageTypes DEF Issued
    <3> QED
      BY <1>6, <3>2, <3>3
  <2> QED
    BY <1>2, <2>1, <2>2
<1>9. /\ \A i \in DOMAIN replies' : replies'[i].op <= issued'
      /\ phase' \in {"callback", "notify", "clear"} => inhand'.op <= issued'
  <2>1. \A i \in DOMAIN replies : replies[i].op \in Nat /\ replies[i].op <= issued
    BY <1>3, MessageTypes DEF Issued
  <2>2. phase \in {"callback", "notify", "clear"} => inhand.op \in Nat /\ inhand.op <= issued
    BY <1>3 DEF Issued
  <2>3. \A x \in Nat : x <= issued => x <= issued'
    BY <1>3, <1>6
  <2>4. \A i \in DOMAIN replies' : replies'[i].op <= issued'
    BY <1>2, <2>1, <2>3
  <2>5. phase' \in {"callback", "notify", "clear"} => inhand'.op <= issued'
    BY <1>2, <2>2, <2>3
  <2> QED
    BY <2>4, <2>5
<1>10. /\ \A m \in Op : m > issued' => status'[m] = "unused"
       /\ \A m \in Op : status'[m] = "registered" => command'[m].kind = "sub" /\ command'[m].on \in Broadcast
  <2>1. ASSUME NEW m \in Op, m # n
        PROVE  /\ m > issued' => status'[m] = "unused"
               /\ status'[m] = "registered" => command'[m].kind = "sub" /\ command'[m].on \in Broadcast
    <3>1. status'[m] = status[m] /\ command'[m] = command[m] /\ (m > issued' => m > issued)
      BY <1>3, <1>4, <1>6, <2>1
    <3> QED
      BY <3>1 DEF Issued
  <2> QED
    BY <1>3, <1>5, <1>6, <2>1
<1> QED
  BY <1>6, <1>7, <1>8, <1>9, <1>10 DEF Issued

LEMMA InitIssued == Init => Issued
<1> SUFFICES ASSUME Init PROVE Issued
  OBVIOUS
<1>1. /\ requests = <<>> /\ replies = <<>> /\ phase = "broadcast"
      /\ \A n \in Op : status[n] = "unused"
  BY DEF Init
<1>2. DOMAIN requests = {} /\ DOMAIN replies = {}
  BY <1>1
<1> QED
  BY <1>1, <1>2 DEF Issued

LEMMA IssuedStep ==
    ASSUME Inductive, Issued, [Next]_vars
    PROVE  Issued'
<1>0. TypeOK /\ InHand
  BY DEF Inductive
<1>1. CASE ClientStep
  BY <1>0, <1>1, ClientIssues
<1>2. CASE ServerStep
  <2>1. UNCHANGED <<issued, command, status, phase, inhand>>
    BY <1>2 DEF ServerStep, Serve, Refuse, Restart, SendBroadcast, clientVars, routerVars
  <2>2. CASE Serve \/ Refuse
    <3>1. PICK ret \in {0, -1} : /\ requests # <<>> /\ requests' = Tail(requests)
                                 /\ replies' = Append(replies, Reply(ret))
      BY <2>2 DEF Serve, Refuse
    <3>2. /\ requests \in Seq(RequestMsg) /\ replies \in Seq(ReplyMsg) /\ Reply(ret) \in ReplyMsg
          /\ Reply(ret).op <= issued
      <4>1. requests \in Seq(RequestMsg) /\ replies \in Seq(ReplyMsg)
        BY <1>0, MessageTypes
      <4>2. Head(requests) \in RequestMsg /\ Head(requests).op <= issued
        BY <3>1, <4>1, QueueShape DEF Issued
      <4> QED
        BY <4>1, <4>2 DEF Reply, RequestMsg, ReplyMsg
    <3>3. \A i \in DOMAIN requests' : i + 1 \in DOMAIN requests /\ requests'[i] = requests[i + 1]
      BY <3>1, <3>2, QueueShape
    <3>4. \A i \in DOMAIN replies' : \/ i \in DOMAIN replies /\ replies'[i] = replies[i]
                                     \/ replies'[i] = Reply(ret)
      BY <3>1, <3>2, QueueShape
    <3> QED
      BY <2>1, <3>2, <3>3, <3>4 DEF Issued
  <2>3. CASE Restart \/ \E b \in Broadcast : SendBroadcast(b)
    <3>1. replies' = replies /\ (requests' = requests \/ requests' = <<>>)
      BY <2>3 DEF Restart, SendBroadcast
    <3> QED
      BY <2>1, <3>1 DEF Issued
  <2> QED
    BY <1>2, <2>2, <2>3 DEF ServerStep
<1>3. CASE RouterStep
  <2>1. /\ UNCHANGED <<issued, command, requests>>
        /\ \A n \in Op : status'[n] = status[n] \/ (status[n] = "waiting" /\ status'[n] = "ok")
        /\ replies' = replies \/ (replies # <<>> /\ replies' = Tail(replies))
        /\ phase' \in {"callback", "notify", "clear"} =>
             \/ phase \in {"callback", "notify"} /\ inhand' = inhand
             \/ replies # <<>> /\ inhand' = Head(replies)
    BY <1>0, <1>3 DEF RouterStep, TakeBroadcast, NoBroadcast, NoReplyYet, TakeCallReply, Undeserialised,
       CallBack, Notify, TakeSubscriptionReply, ClearSubscription, clientVars, TypeOK, ClientType
  <2>2. replies \in Seq(ReplyMsg) /\ issued \in Nat
    BY <1>0, MessageTypes
  <2>3. replies # <<>> => Head(replies).op <= issued
    BY <2>2, QueueShape DEF Issued
  <2>4. \A i \in DOMAIN replies' : \/ i \in DOMAIN replies /\ replies'[i] = replies[i]
                                   \/ i + 1 \in DOMAIN replies /\ replies'[i] = replies[i + 1]
    BY <2>1, <2>2, QueueShape
  <2>5. \A n \in Op : n > issued => status'[n] = "unused"
    BY <2>1 DEF Issued
  <2> QED
    BY <2>1, <2>3, <2>4, <2>5 DEF Issued
<1>4. CASE UNCHANGED vars
  BY <1>4 DEF vars, clientVars, routerVars, Issued
<1> QED
  BY <1>1, <1>2, <1>3, <1>4, Steps

\* A reply whose command fitted when it was taken still fits when the callback is read: the
\* token is not given to anybody else in between.
Fits ==
    /\ \A n \in Op : result[n] # None => /\ n <= issued /\ result[n] <= issued
                                         /\ SameCommand(command[n], command[result[n]])
    /\ phase = "callback" => \/ method_registry[inhand.token] = None
                             \/ SameCommand(command[method_registry[inhand.token]], command[inhand.op])

\* What is registered has been issued.
LEMMA RegisteredIssued ==
    ASSUME Inductive
    PROVE  \A t \in Token : method_registry[t] # None =>
               method_registry[t] \in Op /\ method_registry[t] <= issued
<1>1. method_registry \in [Token -> {None} \cup Op] /\ issued \in Nat /\ Op \subseteq Nat
  BY MessageTypes DEF Inductive, TypeOK, ClientType
<1>2. ASSUME NEW t \in Token, method_registry[t] # None
      PROVE  method_registry[t] \in Op /\ method_registry[t] <= issued
  <2>1. PICK n \in Op : n = method_registry[t]
    BY <1>1, <1>2
  <2>2. ~(n > issued)
    BY <2>1 DEF Inductive, NotYetSent
  <2> QED
    BY <1>1, <2>1, <2>2
<1> QED
  BY <1>2

LEMMA FitsStep ==
    ASSUME Inductive, Issued, Fits, [Next]_vars
    PROVE  Fits'
<1>0. /\ TypeOK /\ InHand /\ NotYetSent
      /\ result \in [Op -> {None} \cup Op] /\ issued \in Nat /\ Op \subseteq Nat /\ None \notin Op
      /\ method_registry \in [Token -> {None} \cup Op]
  BY MessageTypes DEF Inductive, TypeOK, ClientType, ResultType
<1>1. CASE ClientStep
  <2>1. /\ result' = result /\ phase' = phase /\ inhand' = inhand
        /\ issued' \in Nat /\ issued <= issued'
        /\ \A m \in Op : m <= issued => command'[m] = command[m]
    BY <1>0, <1>1, ClientIssues, ClientRegisters DEF resultVars, routerVars
  <2>2. ASSUME NEW n \in Op, result[n] # None
        PROVE  /\ n <= issued' /\ result[n] <= issued'
               /\ SameCommand(command'[n], command'[result[n]])
    <3>1. result[n] \in Op /\ n <= issued /\ result[n] <= issued
      BY <1>0, <2>2 DEF Fits
    <3>2. n <= issued' /\ result[n] <= issued'
      <4>1. \A x \in Op : x <= issued => x <= issued'
        BY <1>0, <2>1
      <4> QED
        BY <3>1, <4>1
    <3>3. SameCommand(command[n], command[result[n]])
      BY <2>2 DEF Fits
    <3> QED
      BY <2>1, <3>1, <3>2, <3>3
  <2>3. ASSUME phase = "callback", method_registry'[inhand.token] # None
        PROVE  SameCommand(command'[method_registry'[inhand.token]], command'[inhand.op])
    <3>1. inhand.token \in Token /\ inhand.op \in Op /\ inhand.op <= issued
      BY <1>0, <2>3, MessageTokens DEF Issued
    <3>2. method_registry'[inhand.token] = method_registry[inhand.token]
      <4>1. CASE \A t \in Token : method_registry'[t] \in {None, method_registry[t]}
        BY <2>3, <3>1, <4>1
      <4>2. CASE \E n \in Op, t \in Token : /\ method_registry' = [method_registry EXCEPT ![t] = n]
                                            /\ ~Handled(t)
        <5>1. PICK n \in Op, t \in Token : /\ method_registry' = [method_registry EXCEPT ![t] = n]
                                           /\ ~Handled(t)
          BY <4>2
        <5>2. t # inhand.token
          BY <2>3, <5>1 DEF Handled
        <5> QED
          BY <1>0, <3>1, <5>1, <5>2
      <4> QED
        BY <1>0, <1>1, <4>1, <4>2, ClientRegisters
    <3>3. method_registry[inhand.token] \in Op /\ method_registry[inhand.token] <= issued
      BY <2>3, <3>1, <3>2, RegisteredIssued
    <3>4. SameCommand(command[method_registry[inhand.token]], command[inhand.op])
      BY <2>3, <3>2 DEF Fits
    <3> QED
      BY <2>1, <3>1, <3>2, <3>3, <3>4
  <2> QED
    BY <2>1, <2>2, <2>3 DEF Fits
<1>2. CASE ServerStep
  <2>1. UNCHANGED <<issued, command, result, method_registry, phase, inhand>>
    BY <1>2 DEF ServerStep, Serve, Refuse, Restart, SendBroadcast, clientVars, resultVars, routerVars
  <2> QED
    BY <2>1 DEF Fits
<1>3. CASE RouterStep
  <2>1. issued' = issued /\ command' = command
    BY <1>3 DEF RouterStep, TakeBroadcast, NoBroadcast, NoReplyYet, TakeCallReply, Undeserialised,
       CallBack, Notify, TakeSubscriptionReply, ClearSubscription, clientVars
  <2>2. CASE TakeBroadcast \/ NoBroadcast \/ NoReplyYet \/ Undeserialised \/ Notify \/ ClearSubscription
    <3>1. result' = result /\ phase' # "callback"
      BY <2>2 DEF TakeBroadcast, NoBroadcast, NoReplyYet, Undeserialised, Notify, ClearSubscription,
         resultVars
    <3> QED
      BY <2>1, <3>1 DEF Fits
  <2>3. CASE TakeCallReply
    <3>1. /\ result' = result /\ method_registry' = method_registry
          /\ phase' = "callback" => Expected(Head(replies)) /\ inhand' = Head(replies)
      BY <2>3 DEF TakeCallReply, resultVars
    <3> QED
      BY <2>1, <3>1 DEF Fits, Expected
  <2>4. CASE CallBack
    <3>1. PICK n : n = method_registry[inhand.token]
      OBVIOUS
    <3>2. /\ phase = "callback" /\ phase' = "notify"
          /\ \/ result' = result
             \/ n # None /\ result' = [result EXCEPT ![n] = inhand.op]
      BY <2>4, <3>1 DEF CallBack, resultVars
    <3>3. inhand.token \in Token /\ inhand.op <= issued
      BY <1>0, <3>2, MessageTokens DEF Issued
    <3>4. n # None => n <= issued /\ SameCommand(command[n], command[inhand.op])
      BY <3>1, <3>2, <3>3, RegisteredIssued DEF Fits
    <3> QED
      BY <1>0, <2>1, <3>2, <3>3, <3>4 DEF Fits
  <2>5. CASE TakeSubscriptionReply
    <3>1. PICK r : r = Head(replies)
      OBVIOUS
    <3>2. PICK n : n = method_registry[r.token]
      OBVIOUS
    <3>3. /\ replies # <<>> /\ phase' # "callback"
          /\ \/ result' = result
             \/ Expected(r) /\ result' = [result EXCEPT ![n] = r.op]
      BY <2>5, <3>1, <3>2 DEF TakeSubscriptionReply, resultVars
    <3>4. r.token \in Token /\ r.op <= issued
      <4>1. replies \in Seq(ReplyMsg)
        BY <1>0, MessageTypes
      <4> QED
        BY <1>0, <3>1, <3>3, <4>1, HeadOfReplies, QueueShape DEF Issued
    <3>5. Expected(r) => n <= issued /\ SameCommand(command[n], command[r.op])
      BY <3>2, <3>4, RegisteredIssued DEF Expected
    <3> QED
      BY <1>0, <2>1, <3>3, <3>4, <3>5 DEF Fits
  <2> QED
    BY <1>3, <2>2, <2>3, <2>4, <2>5 DEF RouterStep
<1>4. CASE UNCHANGED vars
  BY <1>4 DEF vars, clientVars, resultVars, routerVars, Fits
<1> QED
  BY <1>1, <1>2, <1>3, <1>4, Steps

\* A callback is only given replies to its own command, for any number of tokens and
\* operations, however tokens are reused and whatever replies come late.
THEOREM RepliesFit == Spec => []ReplyFits
<1>1. Init => Inductive /\ Issued /\ Fits
  BY InitInductive, InitIssued DEF Init, Fits
<1>2. Inductive /\ Issued /\ Fits /\ [Next]_vars => Inductive' /\ Issued' /\ Fits'
  BY StepInductive, IssuedStep, FitsStep
<1>3. Fits => ReplyFits
  BY DEF Fits, ReplyFits
<1> QED
  BY <1>1, <1>2, <1>3, PTL DEF Spec

-----------------------------------------------------------------------------
(* No operation loses its registration.  What a synchronous call clears when   *)
(* it gives up is its own registration, or that of an operation that was sent  *)
(* with its token while it held it.                                            *)

\* A synchronous call in progress, whose token is reg[n].
Holds(n) == status[n] \in {"waiting", "expired"}

Kept ==
    /\ \A n \in Op \ shared :
           /\ status[n] = "waiting" => method_registry[reg[n]] = n
           /\ status[n] = "sent"    => Registered(n) \/ calls[n] = 1
    /\ \A n \in Op : Holds(n) => reg[n] \in Token /\ n <= issued /\ command[n].kind = "sync"
    /\ \A n \in Op : Holds(n) => method_registry[reg[n]] \in {None, n} \cup shared

\* An operation is sent.
LEMMA SendKeeps ==
    ASSUME Inductive, Kept, NEW n \in Op, NEW t \in Token, SendRequest(n, t),
           status[n] \in {"unused", "registered"}, calls' = calls,
           \A m \in Op \ {n} : /\ status'[m] = status[m] /\ reg'[m] = reg[m]
                               /\ m <= issued => command'[m] = command[m] /\ m <= issued',
           \/ status'[n] = "sent"
           \/ status'[n] = "waiting" /\ reg'[n] = t /\ n <= issued' /\ command'[n].kind = "sync"
    PROVE  Kept'
<1>1. /\ method_registry \in [Token -> {None} \cup Op] /\ None \notin Op
      /\ method_registry[t] = None /\ method_registry' = [method_registry EXCEPT ![t] = n]
      /\ shared' = IF Held(t) THEN shared \cup {n} ELSE shared
  BY DEF SendRequest, FreeToken, Inductive, TypeOK, ClientType, None, Op
<1>2. method_registry'[t] = n /\ \A u \in Token \ {t} : method_registry'[u] = method_registry[u]
  BY <1>1
<1>3. ASSUME NEW m \in Op \ shared', m # n
      PROVE  /\ status'[m] = "waiting" => method_registry'[reg'[m]] = m
             /\ status'[m] = "sent"    => Registered(m)' \/ calls'[m] = 1
  <2>1. m \notin shared
    BY <1>1, <1>3
  <2>2. \A u \in Token : method_registry[u] = m => method_registry'[u] = m
    BY <1>1, <1>2
  <2>3. status[m] = "waiting" => method_registry[reg[m]] = m /\ reg[m] \in Token
    BY <2>1 DEF Kept, Holds
  <2>4. status[m] = "sent" => Registered(m) \/ calls[m] = 1
    BY <2>1 DEF Kept
  <2> QED
    BY <1>3, <2>2, <2>3, <2>4 DEF Registered
<1>4. /\ status'[n] = "waiting" => method_registry'[reg'[n]] = n
      /\ status'[n] = "sent"    => Registered(n)'
  BY <1>2 DEF Registered
<1>5. ASSUME NEW m \in Op, Holds(m)'
      PROVE  /\ reg'[m] \in Token /\ m <= issued' /\ command'[m].kind = "sync"
             /\ method_registry'[reg'[m]] \in {None, m} \cup shared'
  <2>1. CASE m = n
    BY <1>2, <1>5, <2>1 DEF Holds
  <2>2. CASE m # n
    <3>1. Holds(m) /\ reg'[m] = reg[m]
      BY <1>5, <2>2 DEF Holds
    <3>2. reg[m] \in Token /\ m <= issued /\ command[m].kind = "sync"
      BY <3>1 DEF Kept
    <3>3. method_registry[reg[m]] \in {None, m} \cup shared
      BY <3>1 DEF Kept
    <3>4. reg[m] = t => n \in shared'
      BY <1>1, <3>1 DEF Held, Holds
    <3> QED
      BY <1>1, <1>2, <2>2, <3>1, <3>2, <3>3, <3>4
  <2> QED
    BY <2>1, <2>2
<1> QED
  BY <1>3, <1>4, <1>5 DEF Kept

\* A step that registers nobody, and clears only what it may.
LEMMA OthersKeep ==
    ASSUME Inductive, Kept, UNCHANGED <<issued, command, shared>>,
           \A n \in Op : /\ Holds(n)' => Holds(n) /\ reg'[n] = reg[n]
                         /\ status'[n] = "waiting" => status[n] = "waiting"
                         /\ status'[n] = "sent"    => status[n] = "sent"
                         /\ calls[n] = 1           => calls'[n] = 1,
           \A t \in Token : method_registry'[t] \in {None, method_registry[t]},
           \A t \in Token : method_registry'[t] # method_registry[t]
                              => \/ method_registry[t] \in shared
                                 \/ /\ status'[method_registry[t]] # "waiting"
                                    /\ status'[method_registry[t]] = "sent"
                                         => calls'[method_registry[t]] = 1
    PROVE  Kept'
<1>1. ASSUME NEW n \in Op \ shared
      PROVE  /\ status'[n] = "waiting" => method_registry'[reg'[n]] = n
             /\ status'[n] = "sent"    => Registered(n)' \/ calls'[n] = 1
  <2>1. ASSUME status'[n] = "waiting" PROVE method_registry'[reg'[n]] = n
    <3>1. status[n] = "waiting" /\ Holds(n)'
      BY <2>1 DEF Holds
    <3>2. reg'[n] = reg[n] /\ reg[n] \in Token /\ method_registry[reg[n]] = n
      BY <3>1 DEF Kept, Holds
    <3> QED
      BY <2>1, <3>2
  <2>2. ASSUME status'[n] = "sent" PROVE Registered(n)' \/ calls'[n] = 1
    <3>1. Registered(n) \/ calls[n] = 1
      BY <2>2 DEF Kept
    <3>2. CASE calls[n] = 1
      BY <3>2
    <3>3. ASSUME NEW t \in Token, method_registry[t] = n PROVE Registered(n)' \/ calls'[n] = 1
      BY <2>2, <3>3 DEF Registered
    <3> QED
      BY <3>1, <3>2, <3>3 DEF Registered
  <2> QED
    BY <2>1, <2>2
<1>2. ASSUME NEW n \in Op, Holds(n)'
      PROVE  /\ reg'[n] \in Token /\ n <= issued' /\ command'[n].kind = "sync"
             /\ method_registry'[reg'[n]] \in {None, n} \cup shared'
  <2>1. Holds(n) /\ reg'[n] = reg[n]
    BY <1>2
  <2>2. /\ reg[n] \in Token /\ n <= issued /\ command[n].kind = "sync"
        /\ method_registry[reg[n]] \in {None, n} \cup shared
    BY <2>1 DEF Kept
  <2> QED
    BY <2>1, <2>2
<1> QED
  BY <1>1, <1>2 DEF Kept

LEMMA ClientKeeps ==
    ASSUME Inductive, Issued, Kept, ClientStep
    PROVE  Kept'
<1>1. PICK n \in Op :
        \/ \E c \in Calls : Call(n, c)
        \/ \E b \in Broadcast : Subscribe(n, b) \/ Unsubscribe(n, b)
        \/ SendSubscribe(n)
        \/ Timeout(n)
  BY DEF ClientStep
<1>2. /\ status \in [Op -> Status] /\ reg \in [Op -> Token \cup {0}] /\ command \in [Op -> Command]
      /\ method_registry \in [Token -> {None} \cup Op]
      /\ issued \in Nat /\ Op \subseteq Nat /\ None \notin Op
      /\ TypeOK /\ InHand
  BY MessageTypes DEF Inductive, TypeOK, ClientType
<1>3. /\ calls' = calls /\ issued' \in Nat /\ issued <= issued'
      /\ \A m \in Op : m <= issued => command'[m] = command[m]
  BY <1>1, <1>2, ClientIssues DEF Call, Subscribe, Unsubscribe, SendSubscribe, Timeout, Expire, ClearExpired,
     resultVars
<1>4. \A m \in Op \ {n} : /\ status'[m] = status[m] /\ reg'[m] = reg[m]
                          /\ m <= issued => command'[m] = command[m] /\ m <= issued'
  <2>1. \A m \in Op \ {n} : status'[m] = status[m] /\ reg'[m] = reg[m]
    BY <1>1, <1>2 DEF Call, Subscribe, Unsubscribe, SendSubscribe, Timeout, Expire, ClearExpired
  <2>2. \A m \in Op : m <= issued => m <= issued'
    BY <1>2, <1>3
  <2> QED
    BY <1>3, <2>1, <2>2
\* nothing is sent and nothing cleared
<1>5. ASSUME UNCHANGED <<method_registry, shared>>, status'[n] \in {"registered", "failed", "expired"},
             reg'[n] = reg[n], status'[n] = "expired" => Holds(n)
      PROVE  Kept'
  <2>1. \A m \in Op : m # n => (Holds(m)' <=> Holds(m)) /\ reg'[m] = reg[m]
    BY <1>4 DEF Holds
  <2>2. Holds(n)' => Holds(n) /\ reg'[n] = reg[n]
    BY <1>5 DEF Holds
  <2>3. ASSUME NEW m \in Op \ shared
        PROVE  /\ status'[m] = "waiting" => method_registry[reg'[m]] = m
               /\ status'[m] = "sent"    => Registered(m) \/ calls[m] = 1
    BY <1>4, <1>5 DEF Kept
  <2>4. ASSUME NEW m \in Op, Holds(m)'
        PROVE  /\ reg'[m] \in Token /\ m <= issued' /\ command'[m].kind = "sync"
               /\ method_registry[reg'[m]] \in {None, m} \cup shared
    <3>1. Holds(m) /\ reg'[m] = reg[m]
      BY <2>1, <2>2, <2>4
    <3>2. /\ reg[m] \in Token /\ m <= issued /\ command[m].kind = "sync"
          /\ method_registry[reg[m]] \in {None, m} \cup shared
      BY <3>1 DEF Kept
    <3>3. m <= issued'
      <4>1. m \in Nat /\ m <= issued /\ issued \in Nat /\ issued' \in Nat /\ issued <= issued'
        BY <1>2, <1>3, <3>2
      <4> QED
        BY <4>1
    <3> QED
      BY <1>3, <3>1, <3>2, <3>3
  <2> QED
    BY <1>3, <1>5, <2>3, <2>4 DEF Kept, Registered
<1>6. ASSUME NEW c \in Calls, Call(n, c) PROVE Kept'
  <2>1. /\ Issue(n, c) /\ c \in Command /\ IsCall(c)
        /\ command'[n] = c /\ n <= issued' /\ status[n] = "unused"
    BY <1>2, <1>6, Numbers DEF Call, Issue, Issued
  <2>2. ASSUME NEW t \in Token, SendRequest(n, t),
               reg' = IF c.kind = "sync" THEN [reg EXCEPT ![n] = t] ELSE reg,
               status' = [status EXCEPT ![n] = IF c.kind = "sync" THEN "waiting" ELSE "sent"]
        PROVE  Kept'
    <3>1. \/ status'[n] = "sent"
          \/ status'[n] = "waiting" /\ reg'[n] = t /\ c.kind = "sync"
      BY <1>2, <2>2
    <3> QED
      BY <1>3, <1>4, <2>1, <2>2, <3>1, SendKeeps
  <2>3. CASE /\ status' = [status EXCEPT ![n] = "failed"]
             /\ UNCHANGED <<reg, method_registry, shared>>
    BY <1>2, <1>5, <2>3
  <2> QED
    BY <1>6, <2>2, <2>3 DEF Call
<1>7. ASSUME NEW t \in Token, SendRequest(n, t), status[n] \in {"unused", "registered"}, status'[n] = "sent"
      PROVE  Kept'
  BY <1>3, <1>4, <1>7, SendKeeps
<1>8. ASSUME NEW b \in Broadcast, Subscribe(n, b) \/ Unsubscribe(n, b) PROVE Kept'
  <2>1. status[n] = "unused" /\ reg' = reg
    BY <1>2, <1>8 DEF Subscribe, Unsubscribe, Issue, Issued
  <2>2. CASE \E t \in Token : SendRequest(n, t) /\ status' = [status EXCEPT ![n] = "sent"]
    BY <1>2, <1>7, <2>1, <2>2
  <2>3. CASE UNCHANGED <<method_registry, shared>> /\ \E v \in {"registered", "failed"} : status' = [status EXCEPT ![n] = v]
    BY <1>2, <1>5, <2>1, <2>3
  <2> QED
    BY <1>8, <2>2, <2>3 DEF Subscribe, Unsubscribe
<1>9. CASE SendSubscribe(n)
  <2>1. status[n] = "registered" /\ reg' = reg
    BY <1>9 DEF SendSubscribe
  <2>2. CASE \E t \in Token : SendRequest(n, t) /\ status' = [status EXCEPT ![n] = "sent"]
    BY <1>2, <1>7, <2>1, <2>2
  <2>3. CASE UNCHANGED <<method_registry, shared>> /\ status' = [status EXCEPT ![n] = "failed"]
    BY <1>2, <1>5, <2>1, <2>3
  <2> QED
    BY <1>9, <2>2, <2>3 DEF SendSubscribe
<1>10. CASE Expire(n)
  BY <1>2, <1>5, <1>10 DEF Expire, Holds, traceVars
<1>11. CASE ClearExpired(n)
  <2>1. PICK t : t = reg[n]
    OBVIOUS
  <2>2. /\ status[n] = "expired" /\ status'[n] = "timeout" /\ UNCHANGED <<issued, command, shared>>
        /\ method_registry' = [method_registry EXCEPT ![t] = None]
    BY <1>2, <1>11, <2>1 DEF ClearExpired, traceVars
  <2>3. t \in Token /\ method_registry[t] \in {None, n} \cup shared
    BY <2>1, <2>2 DEF Kept, Holds
  <2>4. /\ method_registry'[t] = None
        /\ \A u \in Token \ {t} : method_registry'[u] = method_registry[u]
    BY <1>2, <2>2, <2>3
  <2>5. \A m \in Op : /\ Holds(m)' => Holds(m) /\ reg'[m] = reg[m]
                      /\ status'[m] = "waiting" => status[m] = "waiting"
                      /\ status'[m] = "sent"    => status[m] = "sent"
                      /\ calls[m] = 1           => calls'[m] = 1
    BY <1>3, <1>4, <2>2 DEF Holds
  <2>6. \A u \in Token : method_registry'[u] \in {None, method_registry[u]}
    BY <2>4
  <2>7. \A u \in Token : method_registry'[u] # method_registry[u]
                           => \/ method_registry[u] \in shared
                              \/ /\ status'[method_registry[u]] # "waiting"
                                 /\ status'[method_registry[u]] = "sent"
                                      => calls'[method_registry[u]] = 1
    BY <2>2, <2>3, <2>4
  <2> QED
    BY <2>2, <2>5, <2>6, <2>7, OthersKeep
<1> QED
  BY <1>1, <1>6, <1>8, <1>9, <1>10, <1>11 DEF Timeout

LEMMA KeptStep ==
    ASSUME Inductive, Issued, Kept, [Next]_vars
    PROVE  Kept'
<1>0. /\ TypeOK /\ InHand /\ CalledWhen
      /\ calls \in [Op -> Nat] /\ status \in [Op -> Status]
      /\ method_registry \in [Token -> {None} \cup Op] /\ None \notin Op
  BY MessageTypes DEF Inductive, TypeOK, ClientType, ResultType, None, Op
<1>1. CASE ClientStep
  BY <1>1, ClientKeeps
<1>2. CASE ServerStep \/ UNCHANGED vars
  <2>1. UNCHANGED <<issued, command, status, reg, calls, method_registry, shared>>
    BY <1>2 DEF ServerStep, Serve, Refuse, Restart, SendBroadcast, clientVars, resultVars, traceVars, vars
  <2> QED
    BY <2>1, OthersKeep DEF Holds
<1>3. CASE RouterStep
  <2>1. UNCHANGED <<issued, command, reg, shared>>
    BY <1>3 DEF RouterStep, TakeBroadcast, NoBroadcast, NoReplyYet, TakeCallReply, Undeserialised,
       CallBack, Notify, TakeSubscriptionReply, ClearSubscription, clientVars, traceVars
  <2>2. \A n \in Op : calls[n] = 1 => calls'[n] = 1
    <3>1. \A n \in Op : calls'[n] \in {0, 1}
      BY StepInductive DEF Inductive, CalledWhen
    <3>2. calls' = calls \/ \E n \in {None} \cup Op : calls' = [calls EXCEPT ![n] = calls[n] + 1]
      <4>1. CASE CallBack
        <5>1. phase = "callback"
          BY <4>1 DEF CallBack
        <5>2. method_registry[inhand.token] \in {None} \cup Op
          BY <1>0, <5>1, MessageTokens
        <5> QED
          BY <4>1, <5>2 DEF CallBack, resultVars
      <4>2. CASE TakeSubscriptionReply
        <5>1. method_registry[Head(replies).token] \in {None} \cup Op
          BY <1>0, <4>2, HeadOfReplies DEF TakeSubscriptionReply
        <5> QED
          BY <4>2, <5>1 DEF TakeSubscriptionReply, resultVars
      <4> QED
        BY <1>3, <4>1, <4>2 DEF RouterStep, TakeBroadcast, NoBroadcast, NoReplyYet, TakeCallReply,
           Undeserialised, Notify, ClearSubscription, resultVars
    <3>3. \A n \in Op : calls'[n] = calls[n] \/ calls'[n] = calls[n] + 1
      BY <1>0, <3>2
    <3> QED
      BY <3>1, <3>3
  \* only notifying and the reply to a subscription clear a registration
  <2>3. ASSUME UNCHANGED <<method_registry, status>> PROVE Kept'
    BY <2>1, <2>2, <2>3, OthersKeep DEF Holds
  <2>4. ASSUME NEW t \in Token, method_registry' = [method_registry EXCEPT ![t] = None],
               \A n \in Op : status'[n] = status[n] \/ status'[n] = "ok",
               method_registry[t] # None =>
                   status'[method_registry[t]] # "waiting" /\ calls'[method_registry[t]] = 1
        PROVE  Kept'
    <3>1. /\ method_registry'[t] = None
          /\ \A u \in Token \ {t} : method_registry'[u] = method_registry[u]
      BY <1>0, <2>4
    <3>2. \A u \in Token : method_registry'[u] \in {None, method_registry[u]}
      BY <3>1
    <3>3. \A u \in Token : method_registry'[u] # method_registry[u]
                             => \/ method_registry[u] \in shared
                                \/ /\ status'[method_registry[u]] # "waiting"
                                   /\ status'[method_registry[u]] = "sent"
                                        => calls'[method_registry[u]] = 1
      BY <2>4, <3>1
    <3>4. \A n \in Op : /\ Holds(n)' => Holds(n) /\ reg'[n] = reg[n]
                        /\ status'[n] = "waiting" => status[n] = "waiting"
                        /\ status'[n] = "sent"    => status[n] = "sent"
      BY <2>1, <2>4 DEF Holds
    <3> QED
      BY <2>1, <2>2, <3>2, <3>3, <3>4, OthersKeep
  <2>5. CASE Notify
    <3>1. PICK n : n = method_registry[inhand.token]
      OBVIOUS
    <3>2. /\ phase = "notify" /\ calls' = calls
          /\ method_registry' = [method_registry EXCEPT ![inhand.token] = None]
          /\ IF n # None /\ status[n] = "waiting" THEN status' = [status EXCEPT ![n] = "ok"]
                                                  ELSE status' = status
      BY <2>5, <3>1 DEF Notify, resultVars
    <3>3. inhand.token \in Token
      BY <1>0, <3>2, MessageTokens
    <3>4. n # None => n \in Op /\ calls'[n] = 1
      BY <1>0, <3>1, <3>2, <3>3 DEF CalledWhen
    <3>5. n # None => status'[n] # "waiting"
      BY <1>0, <3>2, <3>4
    <3>6. \A m \in Op : status'[m] = status[m] \/ status'[m] = "ok"
      BY <1>0, <3>2
    <3> QED
      BY <2>4, <3>1, <3>2, <3>3, <3>4, <3>5, <3>6
  <2>6. CASE TakeSubscriptionReply
    <3>1. PICK r : r = Head(replies)
      OBVIOUS
    <3>2. PICK n : n = method_registry[r.token]
      OBVIOUS
    <3>3. /\ status' = status /\ replies # <<>> /\ ~IsCall(command[r.op]) /\ phase = "reply"
          /\ ~Expected(r) => method_registry' = method_registry
          /\ Expected(r)  => /\ calls' = [calls EXCEPT ![n] = calls[n] + 1]
                             /\ method_registry' = [method_registry EXCEPT ![r.token] = None]
      BY <2>6, <3>1, <3>2 DEF TakeSubscriptionReply, clientVars
    <3>4. r.token \in Token
      BY <1>0, <3>1, <3>3, HeadOfReplies
    <3>5. ASSUME Expected(r)
          PROVE  n \in Op /\ status[n] # "waiting" /\ calls'[n] = 1
      <4>1. n \in Op /\ SameCommand(command[n], command[r.op])
        BY <1>0, <3>2, <3>4, <3>5 DEF Expected
      <4>2. command[n].kind # "sync"
        BY <3>3, <4>1 DEF SameCommand, IsCall
      <4>3. status[n] # "waiting"
        BY <4>1, <4>2 DEF Kept, Holds
      <4>4. calls[n] = 0
        BY <1>0, <3>2, <3>3, <3>4, <4>1 DEF CalledWhen
      <4> QED
        BY <1>0, <3>3, <3>5, <4>1, <4>3, <4>4
    <3> QED
      BY <2>3, <2>4, <3>2, <3>3, <3>4, <3>5
  <2> QED
    BY <1>3, <2>3, <2>5, <2>6 DEF RouterStep, TakeBroadcast, NoBroadcast, NoReplyYet, TakeCallReply,
       Undeserialised, CallBack, ClearSubscription, clientVars
<1> QED
  BY <1>1, <1>2, <1>3, Steps

\* No operation loses its registration to another one, unless it was sent with a token that
\* a synchronous call still held: for any number of tokens, threads and late replies.
THEOREM RegistrationsKept == Spec => []RegistrationKept
<1>1. Init => Inductive /\ Issued /\ Kept
  BY InitInductive, InitIssued DEF Init, Kept, Holds
<1>2. Inductive /\ Issued /\ Kept /\ [Next]_vars => Inductive' /\ Issued' /\ Kept'
  BY StepInductive, IssuedStep, KeptStep
<1>3. Kept => RegistrationKept
  BY DEF Kept, Holds, Registered, RegistrationKept
<1> QED
  BY <1>1, <1>2, <1>3, PTL DEF Spec

-----------------------------------------------------------------------------
(* Subscriptions.  While changes to a broadcast are made one at a time, at     *)
(* most one operation, request or reply in transit is about the broadcast, and *)
(* it tells how far the change has come.                                       *)

Registering(b) == {n \in Op : status[n] = "registered" /\ command[n].on = b}
Requested(b)   == {i \in DOMAIN requests : command[requests[i].op].on = b}
Replied(b)     == {i \in DOMAIN replies : command[replies[i].op].on = b}

Alone(b) ==
    /\ \A n, m \in Registering(b) : n = m
    /\ \A i, j \in Requested(b) : i = j
    /\ \A i, j \in Replied(b) : i = j
    /\ Registering(b) # {} => Requested(b) = {}
    /\ Registering(b) # {} => Replied(b) = {}
    /\ Requested(b) # {} => Replied(b) = {}

\* The server has made the change exactly if the reply that comes says so.
Progress(b) ==
    /\ Registering(b) # {} => b \notin subscribers
    /\ \A i \in Requested(b) : b \in subscribers <=> command[requests[i].op].kind = "unsub"
    /\ \A i \in Replied(b) :
           b \in subscribers <=> Told(command[replies[i].op], replies[i].ret) = "in"

\* There is a callback for b, unless it was given so early that the router clears it.
HasCallback(b) == registry[b] # None \/ b \in hasty

Changing(b) ==
    Registering(b) # {} \/ Requested(b) # {} \/ Replied(b) # {}
        => view[b] = "changing" /\ HasCallback(b)

Agrees(b) ==
    /\ view[b] = "in"  => b \in subscribers /\ HasCallback(b)
    /\ view[b] = "out" => b \notin subscribers

\* The registration that the router is about to clear is the one given up, or was made in haste.
Clearing(b) == phase = "clear" /\ command[inhand.op].on = b
Clears(b)   == Clearing(b) => view[b] = "out" \/ b \in hasty

Dialogue(b) == Alone(b) /\ Progress(b) /\ Changing(b) /\ Agrees(b) /\ Clears(b)
Dialogues == \A b \in Broadcast : Dialogue(b)

\* A step that does nothing about b but take messages about others from the queues.
LEMMA Undisturbed ==
    ASSUME NEW b \in Broadcast, Dialogue(b), NEW d \in Nat, NEW e \in Nat,
           registry'[b] = registry[b], view'[b] = view[b], b \in subscribers' <=> b \in subscribers,
           b \in hasty' <=> b \in hasty, Clearing(b)' => Clearing(b),
           Registering(b)' \subseteq Registering(b),
           \A i \in Requested(b)' :
               /\ i \in Nat /\ i + d \in Requested(b)
               /\ command'[requests'[i].op] = command[requests[i + d].op],
           \A i \in Replied(b)' :
               /\ i \in Nat /\ i + e \in Replied(b) /\ replies'[i].ret = replies[i + e].ret
               /\ command'[replies'[i].op] = command[replies[i + e].op]
    PROVE  Dialogue(b)'
<1>1. Alone(b)'
  BY DEF Dialogue, Alone
<1>2. Progress(b)'
  BY DEF Dialogue, Progress, Told
<1>3. Changing(b)'
  BY DEF Dialogue, Changing, HasCallback
<1>4. Agrees(b)'
  BY DEF Dialogue, Agrees, HasCallback
<1>5. Clears(b)'
  BY DEF Dialogue, Clears
<1> QED
  BY <1>1, <1>2, <1>3, <1>4, <1>5 DEF Dialogue

\* Nothing is in transit about a broadcast about which the application has been told.
LEMMA Settled ==
    ASSUME NEW b \in Broadcast, Dialogue(b), view[b] # "changing"
    PROVE  Registering(b) = {} /\ Requested(b) = {} /\ Replied(b) = {}
BY DEF Dialogue, Changing

LEMMA ClientDialogue ==
    ASSUME TypeOK, InHand, Issued, Dialogues, Orderly, ClientStep
    PROVE  Dialogues'
<1>1. PICK n \in Op :
        \/ \E c \in Calls : Call(n, c)
        \/ \E b \in Broadcast : Subscribe(n, b) \/ Unsubscribe(n, b)
        \/ SendSubscribe(n)
        \/ Timeout(n)
  BY DEF ClientStep
<1>2. /\ replies' = replies /\ subscribers' = subscribers /\ phase' = phase /\ inhand' = inhand
      /\ phase \in {"callback", "notify", "clear"} => inhand.op \in Op
  BY <1>1, MessageTokens DEF Call, Subscribe, Unsubscribe, SendSubscribe, Timeout, Expire, ClearExpired,
     serverVars, routerVars
<1> DEFINE message(t) == [token |-> t, op |-> n]
<1>3. \/ requests' = requests
      \/ \E t \in Token : requests' = Append(requests, message(t))
  BY <1>1 DEF Call, Subscribe, Unsubscribe, SendSubscribe, Timeout, Expire, ClearExpired, SendRequest
<1>4. /\ requests \in Seq(RequestMsg) /\ \A t \in Token : message(t) \in RequestMsg /\ message(t).op = n
      /\ \A i \in DOMAIN requests : i \in Nat /\ requests[i].op \in Op
      /\ \A i \in DOMAIN replies : i \in Nat /\ replies[i].op \in Op /\ replies[i].ret \in {0, -1}
      /\ \A b \in Broadcast : b \in Nat /\ b # None
      /\ \A m \in Op : m \in Nat
      /\ issued \in Nat /\ Len(requests) + 1 \in Nat
  BY MessageTypes DEF RequestMsg
<1> HIDE DEF message
\* the requests are those there were and perhaps one of n
<1>5. /\ \A i \in DOMAIN requests : i \in DOMAIN requests' /\ requests'[i] = requests[i]
      /\ \A i \in DOMAIN requests' : i \in DOMAIN requests \/ (i = Len(requests) + 1 /\ requests'[i].op = n)
  BY <1>3, <1>4, QueueShape
<1>6. ASSUME NEW c \in Command, Issue(n, c)
      PROVE  /\ status[n] = "unused" /\ n > issued /\ n = issued' /\ issued' >= issued
             /\ command'[n] = c /\ \A m \in Op : m # n => command'[m] = command[m]
             /\ \A i \in DOMAIN requests : requests[i].op # n
             /\ \A i \in DOMAIN replies : replies[i].op # n
             /\ phase \in {"callback", "notify", "clear"} => inhand.op # n
  BY <1>4, <1>6 DEF Issue, Issued, TypeOK, ClientType
<1>7. \A m \in Op : m # n => command'[m] = command[m] /\ status'[m] = status[m]
  <2>1. CASE UNCHANGED command
    BY <1>1, <2>1 DEF Call, Subscribe, Unsubscribe, SendSubscribe, Timeout, Expire, ClearExpired,
       TypeOK, ClientType
  <2>2. CASE \E c \in Command : Issue(n, c)
    BY <1>1, <1>6, <2>2 DEF Call, Subscribe, Unsubscribe, SendSubscribe, Timeout, Expire, ClearExpired,
       TypeOK, ClientType
  <2>3. /\ \A c \in Calls : c \in Command
        /\ \A k \in {"sub", "unsub"}, b \in Broadcast : [kind |-> k, on |-> b] \in Command
    BY Numbers
  <2> QED
    BY <1>1, <2>1, <2>2, <2>3 DEF Call, Subscribe, Unsubscribe, SendSubscribe, Timeout, Expire, ClearExpired
<1>8. /\ \A i \in DOMAIN requests : command'[requests[i].op] = command[requests[i].op]
      /\ \A i \in DOMAIN replies : command'[replies[i].op] = command[replies[i].op]
      /\ phase \in {"callback", "notify", "clear"} => command'[inhand.op] = command[inhand.op]
  <2>1. CASE UNCHANGED command
    BY <2>1
  <2>2. CASE \E c \in Command : Issue(n, c)
    BY <1>2, <1>4, <1>6, <2>2
  <2>3. /\ \A c \in Calls : c \in Command
        /\ \A k \in {"sub", "unsub"}, b \in Broadcast : [kind |-> k, on |-> b] \in Command
    BY Numbers
  <2> QED
    BY <1>1, <2>1, <2>2, <2>3 DEF Call, Subscribe, Unsubscribe, SendSubscribe, Timeout, Expire, ClearExpired
\* a broadcast that the step is not about
<1>14. \A b \in Broadcast : Clearing(b)' <=> Clearing(b)
  BY <1>2, <1>8 DEF Clearing
<1>15. ~(\E b \in Broadcast : Subscribe(n, b)) => hasty' = hasty
  BY <1>1 DEF Call, Unsubscribe, SendSubscribe, Timeout, Expire, ClearExpired, traceVars
<1>9. ASSUME NEW b \in Broadcast, registry'[b] = registry[b], view'[b] = view[b],
             b \in hasty' <=> b \in hasty,
             \/ command'[n].on # b
             \/ requests' = requests /\ status'[n] # "registered"
      PROVE  Dialogue(b)'
  <2>1. Registering(b)' \subseteq Registering(b)
    BY <1>7, <1>9 DEF Registering
  <2>2. \A i \in Requested(b)' : /\ i \in Nat /\ i + 0 \in Requested(b)
                                 /\ command'[requests'[i].op] = command[requests[i + 0].op]
    BY <1>4, <1>5, <1>8, <1>9 DEF Requested
  <2>3. \A i \in Replied(b)' : /\ i \in Nat /\ i + 0 \in Replied(b) /\ replies'[i].ret = replies[i + 0].ret
                               /\ command'[replies'[i].op] = command[replies[i + 0].op]
    BY <1>2, <1>4, <1>8 DEF Replied
  <2>4. Dialogue(b) /\ 0 \in Nat
    BY DEF Dialogues
  <2> QED
    BY <1>2, <1>9, <1>14, <2>1, <2>2, <2>3, <2>4, Undisturbed
<1>10. ASSUME NEW c \in Calls, Call(n, c)
       PROVE  Dialogues'
  <2>1. c \in Command /\ Issue(n, c) /\ c.on \notin Broadcast
    BY <1>10, Numbers DEF Call
  <2>2. UNCHANGED <<registry, view, hasty>> /\ status'[n] \in {"waiting", "sent", "failed"}
    BY <1>10 DEF Call, TypeOK, ClientType
  <2>3. command'[n] = c /\ n = issued' /\ issued' >= issued
    BY <1>6, <2>1
  <2> QED
    BY <1>9, <2>1, <2>2, <2>3 DEF Dialogues
<1>11. ASSUME NEW b \in Broadcast, Subscribe(n, b) \/ Unsubscribe(n, b)
       PROVE  Dialogues'
  <2>1. PICK c \in Command : /\ Issue(n, c) /\ c.on = b
                             /\ Subscribe(n, b) => c.kind = "sub"
                             /\ Unsubscribe(n, b) => c.kind = "unsub"
    <3>1. CASE Subscribe(n, b)
      <4>1. [kind |-> "sub", on |-> b] \in Command
        BY DEF Command
      <4>2. Issue(n, [kind |-> "sub", on |-> b])
        BY <3>1 DEF Subscribe
      <4>3. ~Unsubscribe(n, b)
        <5> SUFFICES ASSUME Unsubscribe(n, b) PROVE FALSE
          OBVIOUS
        <5>1. Issue(n, [kind |-> "unsub", on |-> b])
          BY DEF Unsubscribe
        <5>2. [kind |-> "unsub", on |-> b] \in Command
          BY DEF Command
        <5>3. command'[n] = [kind |-> "unsub", on |-> b] /\ command'[n] = [kind |-> "sub", on |-> b]
          BY <1>6, <4>1, <4>2, <5>1, <5>2
        <5>4. command'[n].kind = "unsub" /\ command'[n].kind = "sub"
          BY <5>3
        <5> QED
          BY <5>4
      <4> QED
        BY <4>1, <4>2, <4>3
    <3>2. CASE Unsubscribe(n, b) /\ ~Subscribe(n, b)
      <4>1. [kind |-> "unsub", on |-> b] \in Command
        BY DEF Command
      <4> QED
        BY <3>2, <4>1 DEF Unsubscribe
    <3> QED
      BY <1>11, <3>1, <3>2
  <2>2. command'[n] = c /\ n = issued' /\ issued' >= issued
    BY <1>6, <2>1
  <2>13. \A o \in Broadcast \ {b} : /\ registry'[o] = registry[o] /\ view'[o] = view[o]
                                    /\ o \in hasty' <=> o \in hasty
    BY <1>11, <2>1 DEF Subscribe, Unsubscribe, TypeOK, ServerType
  <2>3. /\ status'[n] \in {"registered", "sent", "failed"}
        /\ status'[n] = "registered" => c.kind = "sub"
    BY <1>11, <2>1 DEF Subscribe, Unsubscribe, TypeOK, ClientType, ServerType
  <2>5. ASSUME NEW o \in Broadcast, o # b PROVE Dialogue(o)'
    <3>1. registry'[o] = registry[o] /\ view'[o] = view[o] /\ (o \in hasty' <=> o \in hasty)
      BY <2>5, <2>13
    <3>2. command'[n].on # o
      BY <2>1, <2>2, <2>5
    <3> QED
      BY <1>9, <3>1, <3>2
  <2>6. Dialogue(b) /\ view[b] # "changing"
    BY <1>11 DEF Subscribe, Unsubscribe, Dialogues
  <2>7. Registering(b) = {} /\ Requested(b) = {} /\ Replied(b) = {}
    BY <2>6, Settled
  <2>8. Replied(b)' = {}
    BY <1>2, <1>4, <1>8, <2>7 DEF Replied
  <2>9. Requested(b)' \subseteq {Len(requests) + 1} /\ (requests' = requests => Requested(b)' = {})
    <3>1. \A i \in Requested(b)' : i \notin DOMAIN requests
      BY <1>5, <1>8, <2>7 DEF Requested
    <3> QED
      BY <1>5, <3>1 DEF Requested
  <2>10. Registering(b)' \subseteq {n} /\ (status'[n] # "registered" => Registering(b)' = {})
    BY <1>7, <2>7 DEF Registering
  <2>11. CASE Subscribe(n, b)
    <3>1. /\ requests' = requests /\ registry'[b] = n /\ n # None /\ view'[b] = "changing"
          /\ view[b] = "out"
      BY <2>11, MessageTypes DEF Subscribe, TypeOK, ServerType
    <3>2. b \notin subscribers'
      BY <1>2, <2>6, <3>1 DEF Dialogue, Agrees
    <3>4. Clears(b)'
      <4>1. Clearing(b) => b \in hasty'
        BY <2>11 DEF Subscribe, Clearing
      <4> QED
        BY <1>14, <4>1 DEF Clears
    <3>3. Dialogue(b)'
      BY <2>8, <2>9, <2>10, <3>1, <3>2, <3>4 DEF Dialogue, Alone, Progress, Changing, Agrees, HasCallback
    <3> QED
      BY <2>5, <3>3 DEF Dialogues
  <2>12. CASE Unsubscribe(n, b)
    <3>1. /\ view[b] = "in" /\ status'[n] # "registered" /\ registry'[b] = registry[b]
          /\ view'[b] = "changing" \/ (requests' = requests /\ view'[b] = view[b])
          /\ hasty' = hasty
      BY <2>12 DEF Unsubscribe, TypeOK, ServerType, ClientType
    <3>2. b \in subscribers' /\ HasCallback(b)' /\ Registering(b)' = {} /\ Clears(b)'
      BY <1>2, <1>14, <2>6, <2>10, <3>1 DEF Dialogue, Agrees, HasCallback, Clears
    <3>3. \A i \in Requested(b)' : command'[requests'[i].op].kind = "unsub"
      <4>1. \A i \in Requested(b)' : requests'[i].op = n
        <5>1. \A i \in Requested(b)' : i \in DOMAIN requests'
          BY DEF Requested
        <5>2. Len(requests) + 1 \notin DOMAIN requests
          BY <1>4, QueueShape
        <5> QED
          BY <1>5, <2>9, <5>1, <5>2
      <4> QED
        BY <2>1, <2>2, <2>12, <4>1
    <3>4. Dialogue(b)'
      BY <2>8, <2>9, <3>1, <3>2, <3>3 DEF Dialogue, Alone, Progress, Changing, Agrees
    <3> QED
      BY <2>5, <3>4 DEF Dialogues
  <2> QED
    BY <1>11, <2>11, <2>12
<1>12. CASE SendSubscribe(n)
  <2>0. PICK b : b = command[n].on
    OBVIOUS
  <2>1. /\ status[n] = "registered" /\ command' = command /\ issued' = issued
        /\ status'[n] \in {"sent", "failed"}
    BY <1>12 DEF SendSubscribe, TypeOK, ClientType
  <2>2. b \in Broadcast /\ command[n].kind = "sub" /\ n <= issued
    BY <1>4, <2>0, <2>1 DEF Issued
  <2>4. /\ \A o \in Broadcast : o # b => registry'[o] = registry[o] /\ view'[o] = view[o]
        /\ hasty' = hasty
    BY <1>12, <2>0, <2>2 DEF SendSubscribe, TypeOK, ServerType
  <2>5. n \in Registering(b)
    BY <2>0, <2>1 DEF Registering
  <2>6. ASSUME NEW o \in Broadcast, o # b PROVE Dialogue(o)'
    BY <1>9, <2>0, <2>1, <2>4, <2>6
  <2>7. Dialogue(b)
    BY <2>2 DEF Dialogues
  <2>8. /\ Registering(b) = {n} /\ Requested(b) = {} /\ Replied(b) = {}
        /\ b \notin subscribers /\ HasCallback(b) /\ view[b] = "changing"
    BY <2>5, <2>7 DEF Dialogue, Alone, Progress, Changing
  <2>9. Registering(b)' = {} /\ Replied(b)' = {} /\ b \notin subscribers'
    <3>1. Registering(b)' = {}
      <4>1. Registering(b)' \subseteq Registering(b) /\ n \notin Registering(b)'
        BY <1>7, <2>0, <2>1 DEF Registering
      <4> QED
        BY <2>8, <4>1
    <3>2. Replied(b)' = {}
      <4>1. Replied(b)' = Replied(b)
        BY <1>2, <2>1 DEF Replied
      <4> QED
        BY <2>8, <4>1
    <3> QED
      BY <1>2, <2>8, <3>1, <3>2
  <2>10. /\ Requested(b)' \subseteq {Len(requests) + 1} /\ (requests' = requests => Requested(b)' = {})
         /\ \A i \in Requested(b)' : command'[requests'[i].op].kind = "sub"
    <3>1. \A i \in Requested(b)' : i = Len(requests) + 1 /\ requests'[i].op = n
      <4>1. \A i \in DOMAIN requests : i \notin Requested(b)'
        <5>1. \A i \in DOMAIN requests : i \in Requested(b)' => i \in Requested(b)
          BY <1>5, <2>1 DEF Requested
        <5> QED
          BY <2>8, <5>1
      <4> QED
        BY <1>5, <4>1 DEF Requested
    <3>2. requests' = requests => Requested(b)' = {}
      <4>1. requests' = requests => Requested(b)' = Requested(b)
        BY <2>1 DEF Requested
      <4> QED
        BY <2>8, <4>1
    <3> QED
      BY <2>0, <2>1, <2>2, <3>1, <3>2
  <2>11. \/ UNCHANGED <<registry, view>>
         \/ requests' = requests /\ view'[b] = "out"
    BY <1>12, <2>0, <2>2 DEF SendSubscribe, TypeOK, ServerType
  <2>13. Clears(b)'
    BY <1>14, <2>2, <2>4, <2>7, <2>11 DEF Dialogue, Clears
  <2>12. Dialogue(b)'
    BY <2>4, <2>8, <2>9, <2>10, <2>11, <2>13 DEF Dialogue, Alone, Progress, Changing, Agrees, HasCallback
  <2> QED
    BY <2>6, <2>12 DEF Dialogues
<1>13. CASE Timeout(n)
  <2>1. /\ UNCHANGED <<issued, command, requests, registry, view, hasty>> /\ status'[n] # "registered"
        /\ status[n] # "unused"
    BY <1>13 DEF Timeout, Expire, ClearExpired, TypeOK, ClientType, traceVars
  <2> QED
    BY <1>9, <2>1 DEF Dialogues
<1> QED
  BY <1>1, <1>10, <1>11, <1>12, <1>13

LEMMA ServerDialogue ==
    ASSUME TypeOK, Dialogues, Restart => Restored(subscribers) = subscribers, ServerStep
    PROVE  Dialogues'
<1>1. UNCHANGED <<issued, command, status, registry, view, hasty, phase, inhand>>
  BY DEF ServerStep, Serve, Refuse, Restart, SendBroadcast, clientVars, routerVars, traceVars
<1>2. /\ requests \in Seq(RequestMsg) /\ replies \in Seq(ReplyMsg)
      /\ \A i \in DOMAIN requests : i \in Nat /\ requests[i].op \in Op
      /\ \A i \in DOMAIN replies : i \in Nat /\ replies[i].op \in Op
      /\ \A n \in Op : command[n] \in Command
      /\ \A b \in Broadcast : b # None
      /\ issued \in Nat
  BY MessageTypes
<1>3. \A b \in Broadcast : Registering(b)' = Registering(b)
  BY <1>1 DEF Registering
<1>10. \A b \in Broadcast : /\ Clearing(b)' <=> Clearing(b)
                            /\ HasCallback(b)' <=> HasCallback(b)
                            /\ Clears(b)'
  BY <1>1 DEF Clearing, HasCallback, Clears, Dialogues, Dialogue
\* the first request is answered
<1>4. ASSUME NEW ret \in {0, -1}, requests # <<>>, requests' = Tail(requests),
             replies' = Append(replies, Reply(ret)),
             \A b \in Broadcast : command[Head(requests).op].on # b =>
                 (b \in subscribers' <=> b \in subscribers),
             \A b \in Broadcast : command[Head(requests).op].on = b =>
                 (b \in subscribers' <=> Told(command[Head(requests).op], ret) = "in")
      PROVE  Dialogues'
  <2>1. PICK m : m = Head(requests)
    OBVIOUS
  <2>2. PICK l \in Nat : l = Len(replies)
    BY <1>2
  <2>3. Reply(ret) \in ReplyMsg /\ Reply(ret).op = m.op /\ Reply(ret).ret = ret
    <3>1. m \in RequestMsg
      BY <1>2, <1>4, <2>1, QueueShape
    <3>2. Reply(ret) = [token |-> m.token, op |-> m.op, ret |-> ret]
      BY <2>1 DEF Reply
    <3> QED
      BY <3>1, <3>2 DEF ReplyMsg, RequestMsg
  <2>4. /\ 1 \in DOMAIN requests /\ requests[1] = m
        /\ \A i \in DOMAIN requests' : i \in Nat /\ i + 1 \in DOMAIN requests /\ i # 0
                                       /\ requests'[i] = requests[i + 1]
    BY <1>2, <1>4, <2>1, QueueShape
  <2>5. /\ DOMAIN replies' = DOMAIN replies \cup {l + 1} /\ l + 1 \notin DOMAIN replies
        /\ replies'[l + 1].op = m.op /\ replies'[l + 1].ret = ret
        /\ \A i \in DOMAIN replies : replies'[i] = replies[i]
    BY <1>2, <1>4, <2>2, <2>3, QueueShape
  <2>7. ASSUME NEW b \in Broadcast, command[m.op].on # b PROVE Dialogue(b)'
    <3>1. \A i \in Requested(b)' : /\ i \in Nat /\ i + 1 \in Requested(b)
                                   /\ command'[requests'[i].op] = command[requests[i + 1].op]
      BY <1>1, <2>4 DEF Requested
    <3>2. \A i \in Replied(b)' : i \in DOMAIN replies
      BY <1>1, <2>5, <2>7 DEF Replied
    <3>3. \A i \in Replied(b)' : /\ i \in Nat /\ i + 0 \in Replied(b)
                                 /\ replies'[i].ret = replies[i + 0].ret
                                 /\ command'[replies'[i].op] = command[replies[i + 0].op]
      BY <1>1, <1>2, <2>5, <3>2 DEF Replied
    <3>4. Dialogue(b) /\ (b \in subscribers' <=> b \in subscribers) /\ 0 \in Nat /\ 1 \in Nat
          /\ Registering(b)' \subseteq Registering(b)
          /\ registry'[b] = registry[b] /\ view'[b] = view[b]
      BY <1>1, <1>3, <1>4, <2>1, <2>7 DEF Dialogues
    <3> QED
      BY <1>1, <1>10, <3>1, <3>3, <3>4, Undisturbed
  <2>8. ASSUME NEW b \in Broadcast, command[m.op].on = b PROVE Dialogue(b)'
    <3>1. 1 \in Requested(b)
      BY <2>4, <2>8 DEF Requested
    <3>2. Dialogue(b)
      BY DEF Dialogues
    <3>3. /\ Requested(b) = {1} /\ Replied(b) = {} /\ Registering(b) = {}
          /\ view[b] = "changing" /\ HasCallback(b)
      BY <3>1, <3>2 DEF Dialogue, Alone, Changing
    <3>4. Requested(b)' = {} /\ Registering(b)' = {}
      <4>1. \A i \in Requested(b)' : i + 1 \in Requested(b) /\ i \in Nat /\ i # 0
        BY <1>1, <2>4 DEF Requested
      <4> QED
        BY <1>3, <3>3, <4>1
    <3>5. \A i \in Replied(b)' : i = l + 1
      <4>1. \A i \in Replied(b)' : i \in DOMAIN replies => i \in Replied(b)
        BY <1>1, <2>5 DEF Replied
      <4> QED
        BY <2>5, <3>3, <4>1 DEF Replied
    <3>6. b \in subscribers' <=> Told(command[m.op], ret) = "in"
      BY <1>4, <2>1, <2>8
    <3>7. view'[b] = "changing" /\ HasCallback(b)'
      BY <1>1, <1>10, <3>3
    <3>8. \A i \in Replied(b)' :
              b \in subscribers' <=> Told(command'[replies'[i].op], replies'[i].ret) = "in"
      BY <1>1, <2>5, <3>5, <3>6
    <3> QED
      BY <1>10, <3>4, <3>5, <3>7, <3>8 DEF Dialogue, Alone, Progress, Changing, Agrees
  <2> QED
    BY <2>1, <2>7, <2>8 DEF Dialogues
\* how far the change was that the first request is about
<1>5. ASSUME requests # <<>>, NEW b \in Broadcast, command[Head(requests).op].on = b
      PROVE  /\ command[Head(requests).op].kind \in {"sub", "unsub"}
             /\ b \in subscribers <=> command[Head(requests).op].kind = "unsub"
  <2>1. 1 \in DOMAIN requests /\ Head(requests) = requests[1] /\ requests[1].op \in Op
    BY <1>2, <1>5, QueueShape
  <2>2. 1 \in Requested(b)
    BY <1>5, <2>1 DEF Requested
  <2>3. b \in subscribers <=> command[requests[1].op].kind = "unsub"
    BY <2>2 DEF Dialogues, Dialogue, Progress
  <2>4. command[requests[1].op] \in Command
    BY <1>2, <2>1
  <2>5. ~IsCall(command[requests[1].op])
    BY <1>5, <2>1, <2>4, Numbers
  <2> QED
    BY <2>1, <2>3, <2>4, <2>5 DEF Command, IsCall
<1>6. CASE Serve
  <2>1. /\ requests # <<>> /\ requests' = Tail(requests) /\ replies' = Append(replies, Reply(0))
        /\ subscribers' = LET c == command[Head(requests).op] IN
                          CASE c.kind = "sub"   -> subscribers \cup {c.on}
                            [] c.kind = "unsub" -> subscribers \ {c.on}
                            [] OTHER            -> subscribers
    BY <1>6 DEF Serve
  <2>2. PICK c : c = command[Head(requests).op]
    OBVIOUS
  <2>3. \A b \in Broadcast : c.on # b => (b \in subscribers' <=> b \in subscribers)
    BY <2>1, <2>2
  <2>4. \A b \in Broadcast : c.on = b => (b \in subscribers' <=> Told(c, 0) = "in")
    <3>1. SUFFICES ASSUME NEW b \in Broadcast, c.on = b
                   PROVE  b \in subscribers' <=> Told(c, 0) = "in"
      OBVIOUS
    <3>2. c.kind \in {"sub", "unsub"}
      BY <1>5, <2>1, <2>2, <3>1
    <3> QED
      BY <2>1, <2>2, <3>1, <3>2 DEF Told
  <2>5. 0 \in {0, -1}
    OBVIOUS
  <2> QED
    BY <1>4, <2>1, <2>2, <2>3, <2>4, <2>5
<1>7. CASE Refuse
  <2>1. /\ requests # <<>> /\ requests' = Tail(requests) /\ replies' = Append(replies, Reply(-1))
        /\ subscribers' = subscribers
    BY <1>7 DEF Refuse, serverVars
  <2>2. PICK c : c = command[Head(requests).op]
    OBVIOUS
  <2>3. \A b \in Broadcast : c.on = b => (b \in subscribers' <=> Told(c, -1) = "in")
    <3>1. SUFFICES ASSUME NEW b \in Broadcast, c.on = b
                   PROVE  b \in subscribers' <=> Told(c, -1) = "in"
      OBVIOUS
    <3>2. c.kind \in {"sub", "unsub"} /\ (b \in subscribers <=> c.kind = "unsub")
      BY <1>5, <2>1, <2>2, <3>1
    <3> QED
      BY <2>1, <3>2 DEF Told
  <2>4. -1 \in {0, -1}
    OBVIOUS
  <2> QED
    BY <1>4, <2>1, <2>2, <2>3, <2>4
\* requests that have not been read are lost, what is in the registry is not
<1>8. CASE Restart
  <2>1. requests' = <<>> /\ replies' = replies /\ subscribers' = subscribers
    BY <1>8 DEF Restart
  <2>3. ASSUME NEW b \in Broadcast PROVE Dialogue(b)'
    <3>1. Requested(b)' = {} /\ Replied(b)' = Replied(b)
      BY <1>1, <2>1 DEF Requested, Replied
    <3> QED
      BY <1>1, <1>3, <1>10, <2>1, <3>1 DEF Dialogues, Dialogue, Alone, Progress, Changing, Agrees
  <2> QED
    BY <2>3 DEF Dialogues
<1>9. CASE \E b \in Broadcast : SendBroadcast(b)
  <2>1. UNCHANGED <<requests, replies, subscribers>>
    BY <1>9 DEF SendBroadcast, serverVars
  <2> QED
    BY <1>1, <1>3, <1>10, <2>1 DEF Dialogues, Dialogue, Alone, Progress, Changing, Agrees,
       Requested, Replied
<1> QED
  BY <1>6, <1>7, <1>8, <1>9 DEF ServerStep

LEMMA RouterDialogue ==
    ASSUME TypeOK, Dialogues, RouterStep
    PROVE  Dialogues'
<1>1. UNCHANGED <<issued, command, requests, subscribers, hasty>>
  BY DEF RouterStep, TakeBroadcast, NoBroadcast, NoReplyYet, TakeCallReply, Undeserialised, CallBack,
     Notify, TakeSubscriptionReply, ClearSubscription, clientVars, serverVars, traceVars
<1>2. /\ replies \in Seq(ReplyMsg)
      /\ \A i \in DOMAIN requests : i \in Nat
      /\ \A i \in DOMAIN replies : i \in Nat /\ replies[i].op \in Op /\ replies[i].ret \in {0, -1}
      /\ \A n \in Op : command[n] \in Command
      /\ \A b \in Broadcast : b # None
      /\ issued \in Nat
  BY MessageTypes
<1>3. \A n \in Op : status'[n] = status[n] \/ (status[n] = "waiting" /\ status'[n] = "ok")
  BY DEF RouterStep, TakeBroadcast, NoBroadcast, NoReplyYet, TakeCallReply, Undeserialised, CallBack,
     Notify, TakeSubscriptionReply, ClearSubscription, clientVars, TypeOK, ClientType
<1>4. \A b \in Broadcast : Registering(b)' \subseteq Registering(b)
  BY <1>1, <1>3 DEF Registering
<1>5. \/ replies' = replies
      \/ replies # <<>> /\ replies' = Tail(replies)
  BY DEF RouterStep, TakeBroadcast, NoBroadcast, NoReplyYet, TakeCallReply, Undeserialised, CallBack,
     Notify, TakeSubscriptionReply, ClearSubscription
<1>6. PICK d \in {0, 1} : \A i \in DOMAIN replies' :
          i \in Nat /\ i + d \in DOMAIN replies /\ replies'[i] = replies[i + d]
  <2>1. CASE replies' = replies
    <3>1. \A i \in DOMAIN replies' :
              i \in Nat /\ i + 0 \in DOMAIN replies /\ replies'[i] = replies[i + 0]
      BY <1>2, <2>1
    <3> QED
      BY <3>1
  <2>2. CASE replies # <<>> /\ replies' = Tail(replies)
    BY <1>2, <2>2, QueueShape
  <2> QED
    BY <1>5, <2>1, <2>2
\* a broadcast that the step is not about
<1>8. ASSUME NEW b \in Broadcast, registry'[b] = registry[b], view'[b] = view[b], ~Clearing(b)'
      PROVE  Dialogue(b)'
  <2>1. \A i \in Requested(b)' : /\ i \in Nat /\ i + 0 \in Requested(b)
                                 /\ command'[requests'[i].op] = command[requests[i + 0].op]
    BY <1>1, <1>2 DEF Requested
  <2>2. \A i \in Replied(b)' : /\ i \in Nat /\ i + d \in Replied(b) /\ replies'[i].ret = replies[i + d].ret
                               /\ command'[replies'[i].op] = command[replies[i + d].op]
    BY <1>1, <1>6 DEF Replied
  <2>3. Dialogue(b) /\ 0 \in Nat /\ d \in Nat /\ (b \in subscribers' <=> b \in subscribers)
        /\ Registering(b)' \subseteq Registering(b)
    BY <1>1, <1>4, <1>6 DEF Dialogues
  <2>4. (b \in hasty' <=> b \in hasty) /\ (Clearing(b)' => Clearing(b))
    BY <1>1, <1>8
  <2> QED
    BY <1>8, <2>1, <2>2, <2>3, <2>4, Undisturbed
<1>9. CASE UNCHANGED <<registry, view>> /\ phase' # "clear"
  BY <1>8, <1>9 DEF Dialogues, Clearing
<1>10. CASE TakeSubscriptionReply /\ Expected(Head(replies))
  <2>1. PICK r : r = Head(replies)
    OBVIOUS
  <2>2. PICK c : c = command[r.op]
    OBVIOUS
  <2>3. /\ replies # <<>> /\ ~IsCall(c) /\ replies' = Tail(replies)
        /\ registry' = registry
        /\ view' = [view EXCEPT ![c.on] = Told(c, r.ret)]
        /\ phase' = "clear" => inhand' = r /\ Unsubscribed(r)
    BY <1>10, <2>1, <2>2 DEF TakeSubscriptionReply
  <2>4. /\ 1 \in DOMAIN replies /\ r = replies[1] /\ r.op \in Op /\ r.ret \in {0, -1}
        /\ \A i \in DOMAIN replies' : i \in Nat /\ i + 1 \in DOMAIN replies /\ i # 0
                                      /\ replies'[i] = replies[i + 1]
    BY <1>2, <2>1, <2>3, QueueShape
  <2>5. c \in Command /\ c.kind \in {"sub", "unsub"} /\ c.on \in Broadcast
    <3>1. c \in Command
      BY <1>2, <2>2, <2>4
    <3> QED
      BY <2>3, <3>1 DEF Command, IsCall
  <2>6. PICK b \in Broadcast : b = c.on
    BY <2>5
  <2>7. /\ registry \in [Broadcast -> {None} \cup Op] /\ view \in [Broadcast -> {"out", "in", "changing"}]
    BY DEF TypeOK, ServerType
  <2>8. ASSUME NEW o \in Broadcast, o # b PROVE Dialogue(o)'
    <3>1. registry'[o] = registry[o] /\ view'[o] = view[o]
      BY <2>3, <2>6, <2>7, <2>8
    <3>2. ~Clearing(o)'
      BY <1>1, <2>2, <2>3, <2>6, <2>8 DEF Clearing
    <3> QED
      BY <1>8, <3>1, <3>2
  <2>9. 1 \in Replied(b)
    BY <2>2, <2>4, <2>6 DEF Replied
  <2>10. Dialogue(b)
    BY DEF Dialogues
  <2>11. /\ Registering(b) = {} /\ Requested(b) = {} /\ Replied(b) = {1} /\ HasCallback(b)
         /\ b \in subscribers <=> Told(c, r.ret) = "in"
    BY <2>2, <2>4, <2>9, <2>10 DEF Dialogue, Alone, Progress, Changing
  <2>12. Registering(b)' = {} /\ Requested(b)' = {} /\ Replied(b)' = {}
    <3>1. Requested(b)' = Requested(b)
      BY <1>1 DEF Requested
    <3>2. \A i \in Replied(b)' : i + 1 \in Replied(b) /\ i \in Nat /\ i # 0
      BY <1>1, <2>4 DEF Replied
    <3> QED
      BY <1>4, <2>11, <3>1, <3>2
  <2>13. view'[b] = Told(c, r.ret)
    BY <2>3, <2>6, <2>7
  <2>14. HasCallback(b)' /\ Clears(b)'
    <3>1. HasCallback(b)'
      BY <1>1, <2>3, <2>11 DEF HasCallback
    <3>2. Clearing(b)' => view'[b] = "out"
      BY <2>2, <2>3, <2>13 DEF Clearing, Unsubscribed, Told
    <3> QED
      BY <3>1, <3>2 DEF Clears
  <2>15. Dialogue(b)'
    BY <1>1, <2>11, <2>12, <2>13, <2>14 DEF Dialogue, Alone, Progress, Changing, Agrees, Told
  <2> QED
    BY <2>8, <2>15 DEF Dialogues
<1>12. CASE ClearSubscription
  <2>1. /\ registry' = [registry EXCEPT ![command[inhand.op].on] = None]
        /\ view' = view /\ phase = "clear" /\ phase' = "broadcast" /\ replies' = replies
    BY <1>12 DEF ClearSubscription
  <2>2. ASSUME NEW b \in Broadcast, b # command[inhand.op].on PROVE Dialogue(b)'
    <3>1. registry'[b] = registry[b] /\ view'[b] = view[b] /\ ~Clearing(b)'
      BY <2>1, <2>2 DEF Clearing, TypeOK, ServerType
    <3> QED
      BY <1>8, <3>1
  <2>3. ASSUME NEW b \in Broadcast, b = command[inhand.op].on PROVE Dialogue(b)'
    <3>1. Dialogue(b) /\ Clearing(b)
      BY <2>1, <2>3 DEF Clearing, Dialogues
    <3>2. view[b] # "out" => b \in hasty
      BY <3>1 DEF Dialogue, Clears
    <3>3. /\ Requested(b)' = Requested(b) /\ Replied(b)' = Replied(b)
          /\ Registering(b)' \subseteq Registering(b) /\ ~Clearing(b)'
      BY <1>1, <1>4, <2>1 DEF Requested, Replied, Clearing
    <3>4. Alone(b)' /\ Progress(b)'
      BY <1>1, <2>1, <3>1, <3>3 DEF Dialogue, Alone, Progress, Told
    <3>5. Changing(b)' /\ Agrees(b)' /\ Clears(b)'
      BY <1>1, <2>1, <3>1, <3>2, <3>3 DEF Dialogue, Changing, Agrees, Clears, HasCallback
    <3> QED
      BY <3>4, <3>5 DEF Dialogue
  <2> QED
    BY <2>2, <2>3 DEF Dialogues
<1> QED
  BY <1>9, <1>10, <1>12 DEF RouterStep, TakeBroadcast, NoBroadcast, NoReplyYet, TakeCallReply,
     Undeserialised, CallBack, Notify, TakeSubscriptionReply

\* ViewsAgree of MsgBoxProxy: if subscriptions to a broadcast are changed one at a time and the
\* server restarts with the registry that it had, then client and server agree on every change
\* that is complete, for any number of broadcasts and whatever is refused, lost or not sent; only
\* a callback that was registered too early may be missing.
THEOREM AgreeOnSubscriptions ==
    ASSUME Orderly, MaxRestarts = 0 \/ MapIsFaithful
    PROVE  Spec => []ViewsAgree
<1>1. Init => Inductive /\ Issued /\ Dialogues
  <2> SUFFICES ASSUME Init PROVE Inductive /\ Issued /\ Dialogues
    OBVIOUS
  <2>1. requests = <<>> /\ replies = <<>> /\ subscribers = {} /\ \A n \in Op : status[n] = "unused"
    BY DEF Init
  <2>5. phase = "broadcast"
    BY DEF Init
  <2>2. \A b \in Broadcast : view[b] = "out"
    BY DEF Init
  <2>4. Dialogues
    BY <2>1, <2>2, <2>5 DEF Dialogues, Dialogue, Alone, Progress, Changing, Agrees, Clears, Clearing,
       Registering, Requested, Replied
  <2> QED
    BY <2>4, InitInductive, InitIssued
<1>2. Inductive /\ Issued /\ Dialogues /\ [Next]_vars => (Inductive /\ Issued /\ Dialogues)'
  <2> SUFFICES ASSUME Inductive, Issued, Dialogues, [Next]_vars
               PROVE  Inductive' /\ Issued' /\ Dialogues'
    OBVIOUS
  <2>1. Inductive' /\ Issued'
    BY StepInductive, IssuedStep
  <2>2. Dialogues'
    <3>1. CASE ClientStep
      BY <3>1, ClientDialogue DEF Inductive
    <3>2. Restart => Restored(subscribers) = subscribers
      BY DEF Restart, MapIsFaithful, Inductive, TypeOK, ServerType
    <3>3. CASE ServerStep
      BY <3>2, <3>3, ServerDialogue DEF Inductive
    <3>4. CASE RouterStep
      BY <3>4, RouterDialogue DEF Inductive
    <3>5. CASE UNCHANGED vars
      BY <3>5 DEF vars, clientVars, serverVars, routerVars, traceVars, Dialogues, Dialogue, Alone,
         Progress, Changing, Agrees, Clears, Clearing, HasCallback, Registering, Requested, Replied
    <3> QED
      BY <3>1, <3>3, <3>4, <3>5, Steps
  <2> QED
    BY <2>1, <2>2
<1>3. Dialogues => ViewsAgree
  BY DEF Dialogues, Dialogue, Agrees, HasCallback, ViewsAgree
<1> QED
  BY <1>1, <1>2, <1>3, PTL DEF Spec

-----------------------------------------------------------------------------
(* The registry in the map: what Export writes, and what Load makes of it.     *)

\* A first value and the steps to N more, and the values they lead to.
Chain(N, Z, first, steps)       == N \in Nat /\ first \in Z /\ steps \in [1..N -> [Z -> Z]]
Follows(f, N, Z, first, steps) == f \in [0..N -> Z] /\ f[0] = first /\ \A k \in 1..N : f[k] = steps[k][f[k - 1]]

\* An order to take the members of a set of numbers in, and what is made of a member and a value.
Fold(N, V, base, step, pick)    ==
    /\ N \in Nat /\ base \in V /\ step \in [(1..N) \X V -> V]
    /\ \A t \in SUBSET (1..N) : t # {} => pick[t] \in t
Folds(g, N, V, base, step, pick) ==
    /\ g \in [SUBSET (1..N) -> V]
    /\ \A t \in SUBSET (1..N) : g[t] = IF t = {} THEN base ELSE step[<<pick[t], g[t \ {pick[t]}]>>]

\* The recursion theorem, said of the two definitions.
LEMMA ChainFollows ==
    ASSUME NEW N, NEW Z, NEW first, NEW steps, Chain(N, Z, first, steps)
    PROVE  \E f : Follows(f, N, Z, first, steps)
<1>1. N \in Nat /\ first \in Z /\ steps \in [1..N -> [Z -> Z]]
  BY DEF Chain
<1>2. \E f \in [0..N -> Z] : f[0] = first /\ \A k \in 1..N : f[k] = steps[k][f[k - 1]]
  BY <1>1, FiniteRecursion
<1> QED
  BY <1>2 DEF Follows

\* What a fold over the numbers up to N promises exists.
LEMMA SetRecursion ==
    ASSUME NEW N, NEW V, NEW base, NEW step, NEW pick, Fold(N, V, base, step, pick)
    PROVE  \E g : Folds(g, N, V, base, step, pick)
<1>N. N \in Nat
  BY DEF Fold
<1> DEFINE D       == SUBSET (1..N)
           Z       == [D -> V]
           next(h) == [t \in D |-> IF t = {} THEN base ELSE step[<<pick[t], h[t \ {pick[t]}]>>]]
           steps   == [k \in 1..N |-> [h \in Z |-> next(h)]]
           first   == [t \in D |-> base]
<1>1. \A h \in Z : next(h) \in Z
  BY DEF Fold
<1>2. Chain(N, Z, first, steps)
  <2>1. first \in Z
    BY DEF Fold
  <2> HIDE DEF Z, next, first
  <2> QED
    BY <1>N, <1>1, <2>1 DEF Chain
<1>3. PICK f : Follows(f, N, Z, first, steps)
  <2> HIDE DEF Z, steps, first
  <2> QED
    BY <1>2, ChainFollows
<1>F. f \in [0..N -> Z] /\ f[0] = first /\ \A k \in 1..N : f[k] = steps[k][f[k - 1]]
  <2> HIDE DEF Z, steps, first
  <2> QED
    BY <1>3 DEF Follows
<1>4. ASSUME NEW k \in 1..N PROVE k - 1 \in 0..N /\ f[k - 1] \in Z /\ f[k] = next(f[k - 1])
  <2>1. k - 1 \in 0..N
    BY <1>N
  <2> HIDE DEF Z, next
  <2> QED
    BY <1>F, <2>1
<1>5. ASSUME NEW t \in D
      PROVE  /\ IsFiniteSet(t) /\ Cardinality(t) \in 0..N
             /\ t = {} => Cardinality(t) = 0
             /\ \A x \in t : Cardinality(t \ {x}) = Cardinality(t) - 1 /\ Cardinality(t) \in 1..N
  <2>1. IsFiniteSet(1..N) /\ Cardinality(1..N) = N
    BY <1>N, FS_Interval
  <2>2. IsFiniteSet(t) /\ Cardinality(t) <= Cardinality(1..N)
    BY <2>1, FS_Subset
  <2>3. Cardinality(t) \in Nat /\ (t = {} <=> Cardinality(t) = 0)
    BY <2>2, FS_CardinalityType, FS_EmptySet
  <2>4. \A x \in t : Cardinality(t \ {x}) = Cardinality(t) - 1
    BY <2>2, FS_RemoveElement
  <2> QED
    BY <1>N, <2>1, <2>2, <2>3, <2>4
<1> DEFINE g == [t \in D |-> f[Cardinality(t)][t]]
<1>6. g \in [D -> V]
  <2> SUFFICES ASSUME NEW t \in D PROVE f[Cardinality(t)][t] \in V
    OBVIOUS
  <2>1. f[Cardinality(t)] \in Z
    BY <1>F, <1>5
  <2> QED
    BY <2>1
<1>7. ASSUME NEW t \in D PROVE g[t] = IF t = {} THEN base ELSE step[<<pick[t], g[t \ {pick[t]}]>>]
  <2>1. CASE t = {}
    <3>1. g[t] = f[0][t] /\ f[0] = first /\ first[t] = base
      BY <1>F, <1>5, <2>1
    <3> QED
      BY <2>1, <3>1
  <2>2. CASE t # {}
    <3> DEFINE x == pick[t]
               c == Cardinality(t)
    <3>1. x \in t /\ t \ {x} \in D
      BY <2>2 DEF Fold
    <3>2. c \in 1..N /\ Cardinality(t \ {x}) = c - 1
      BY <1>5, <3>1
    <3>3. f[c] = next(f[c - 1])
      BY <1>4, <3>2
    <3>4. f[c][t] = step[<<x, f[c - 1][t \ {x}]>>]
      <4> HIDE DEF x, c
      <4> QED
        BY <2>2, <3>3 DEF x
    <3>5. g[t] = f[c][t] /\ g[t \ {x}] = f[c - 1][t \ {x}]
      <4> HIDE DEF D
      <4> QED
        BY <3>1, <3>2
    <3> QED
      BY <2>2, <3>4, <3>5
  <2> QED
    BY <2>1, <2>2
<1> HIDE DEF g
<1> QED
  BY <1>6, <1>7 DEF Folds

LEMMA RegisteredIs ==
    ASSUME NEW C, NEW l \in Seq(C), NEW c \in C
    PROVE  /\ Append(l, c) \in Seq(C) /\ ToSet(Append(l, c)) = ToSet(l) \cup {c}
           /\ c \in ToSet(l) => ToSet(l) = ToSet(l) \cup {c}
<1>1. {Append(l, c)[i] : i \in DOMAIN Append(l, c)} = {l[i] : i \in DOMAIN l} \cup {c}
  BY AppendContents
<1> QED
  BY <1>1 DEF ToSet

\* What is loaded for a broadcast: the clients of the blocks that match it.
Blocks(map, N, C) == N \in Nat /\ map \in [1..N -> [client : C, cmd : Nat]]

Addressed(map, N, switch, b) == {map[p].client : p \in {q \in 1..N : Matches(switch, map[q].cmd, b)}}

LEMMA LoadIs ==
    ASSUME NEW C, NEW N, NEW map, Blocks(map, N, C), NEW n \in Nat, NEW b \in 1..n, NEW switch
    PROVE  /\ Load(map, n, switch)[b] \in Seq(C)
           /\ ToSet(Load(map, n, switch)[b]) = Addressed(map, N, switch, b)
<1> SUFFICES ASSUME N \in Nat, map \in [1..N -> [client : C, cmd : Nat]]
             PROVE  /\ Load(map, n, switch)[b] \in Seq(C)
                    /\ ToSet(Load(map, n, switch)[b])
                           = {map[p].client : p \in {q \in 1..N : Matches(switch, map[q].cmd, b)}}
  BY DEF Blocks, Addressed
<1> DEFINE D            == SUBSET (1..N)
           V            == Seq(C)
           add(l, e)    == IF Matches(switch, e.cmd, b) /\ e.client \notin ToSet(l)
                              THEN Append(l, e.client) ELSE l
           step         == [z \in (1..N) \X V |-> add(z[2], map[z[1]])]
           pick         == [t \in D |-> Max(t)]
           Body(f)      == [t \in D |-> IF t = {} THEN <<>> ELSE LET x == Max(t) IN add(f[t \ {x}], map[x])]
           fold         == CHOOSE f : f = Body(f)
           Loaded(k)    == {map[p].client : p \in {q \in 1..k : Matches(switch, map[q].cmd, b)}}
<1>1. Load(map, n, switch)[b] = fold[1..N]
  <2>1. DOMAIN map = 1..N
    OBVIOUS
  <2>2. Load(map, n, switch)[b] = FoldLeft(add, <<>>, map)
    BY Zenon DEF Load
  <2>3. FoldLeft(add, <<>>, map) = fold[1..N]
    <3> HIDE DEF add
    <3> QED
      BY <2>1, Zenon DEF FoldLeft, MapThenFoldSet
  <2> HIDE DEF add, fold
  <2> QED
    BY <2>2, <2>3
<1>2. ASSUME NEW l \in V, NEW e \in [client : C, cmd : Nat]
      PROVE  /\ add(l, e) \in V
             /\ ToSet(add(l, e)) = ToSet(l) \cup (IF Matches(switch, e.cmd, b) THEN {e.client} ELSE {})
  <2>1. e.client \in C
    OBVIOUS
  <2> QED
    BY <2>1, RegisteredIs
<1>3. step \in [(1..N) \X V -> V]
  <2> SUFFICES ASSUME NEW z \in (1..N) \X V PROVE add(z[2], map[z[1]]) \in V
    OBVIOUS
  <2>1. z[2] \in V /\ map[z[1]] \in [client : C, cmd : Nat]
    OBVIOUS
  <2> HIDE DEF add, V
  <2> QED
    BY <1>2, <2>1
<1>4. ASSUME NEW t \in D, t # {} PROVE Max(t) \in t /\ \A y \in t : Max(t) >= y
  <2>1. \E x \in t : \A y \in t : x >= y
    <3>1. t \in SUBSET (0..N)
      OBVIOUS
    <3> QED
      BY <1>4, <3>1, LargestNumber
  <2> QED
    BY <2>1 DEF Max
<1>5. fold = Body(fold)
  <2>1. \A t \in SUBSET (1..N) : t # {} => pick[t] \in t
    BY <1>4
  <2>2. N \in Nat /\ <<>> \in V
    OBVIOUS
  <2>3. Fold(N, V, <<>>, step, pick)
    <3> HIDE DEF V, step, pick
    <3> QED
      BY <1>3, <2>1, <2>2 DEF Fold
  <2>g. PICK g : Folds(g, N, V, <<>>, step, pick)
    <3> HIDE DEF V, step, pick
    <3> QED
      BY <2>3, SetRecursion
  <2>f. /\ g \in [D -> V]
        /\ \A t \in D : g[t] = IF t = {} THEN <<>> ELSE step[<<pick[t], g[t \ {pick[t]}]>>]
    <3> HIDE DEF V, step, pick
    <3> QED
      BY <2>g DEF Folds
  <2>4. ASSUME NEW t \in D, t # {}
        PROVE  step[<<pick[t], g[t \ {pick[t]}]>>] = add(g[t \ {Max(t)}], map[Max(t)])
    <3>1. Max(t) \in 1..N /\ g[t \ {Max(t)}] \in V
      BY <1>4, <2>4, <2>f
    <3> HIDE DEF add, V
    <3> QED
      BY <3>1
  <2>5. g = Body(g)
    <3> HIDE DEF add, step, pick, V, D
    <3> QED
      BY <2>f, <2>4
  <2> HIDE DEF Body
  <2> QED
    BY <2>5
<1> HIDE DEF fold
<1>6. fold[{}] = <<>>
  <2>1. {} \in D
    OBVIOUS
  <2> HIDE DEF add, D
  <2> QED
    BY <1>5, <2>1
<1>7. ASSUME NEW k \in 1..N PROVE fold[1..k] = add(fold[1..(k - 1)], map[k])
  <2>1. 1..k \in D /\ 1..k # {} /\ (1..k) \ {k} = 1..(k - 1)
    <3>1. k \in 1..k /\ \A q \in 1..k : q \in 1..N /\ (q # k => q \in 1..(k - 1))
      OBVIOUS
    <3>2. \A q \in 1..(k - 1) : q \in 1..k /\ q # k
      OBVIOUS
    <3> QED
      BY <3>1, <3>2
  <2>2. Max(1..k) = k
    <3>1. Max(1..k) \in 1..k /\ \A y \in 1..k : Max(1..k) >= y
      BY <1>4, <2>1
    <3> QED
      BY <3>1
  <2>3. fold[1..k] = add(fold[(1..k) \ {Max(1..k)}], map[Max(1..k)])
    <3> HIDE DEF add, D
    <3> QED
      BY <1>5, <2>1
  <2> QED
    BY <2>1, <2>2, <2>3
<1> DEFINE Good(k) == fold[1..k] \in V /\ ToSet(fold[1..k]) = Loaded(k)
<1>8. Good(0)
  <2>1. 1..0 = {} /\ ToSet(<<>>) = {} /\ Loaded(0) = {} /\ <<>> \in V
    BY DEF ToSet
  <2> HIDE DEF Loaded, V
  <2> QED
    BY <1>6, <2>1
<1>9. ASSUME NEW k \in 1..N, Good(k - 1) PROVE Good(k)
  <2>1. map[k] \in [client : C, cmd : Nat]
    OBVIOUS
  <2>2. /\ fold[1..k] \in V
        /\ ToSet(fold[1..k]) = Loaded(k - 1) \cup (IF Matches(switch, map[k].cmd, b) THEN {map[k].client} ELSE {})
    <3> HIDE DEF add, V, Loaded
    <3> QED
      BY <1>2, <1>7, <1>9, <2>1
  <2>3. Loaded(k) = Loaded(k - 1) \cup (IF Matches(switch, map[k].cmd, b) THEN {map[k].client} ELSE {})
    <3>1. \A q : q \in 1..k <=> q \in 1..(k - 1) \/ q = k
      OBVIOUS
    <3> HIDE DEF Good
    <3> QED
      BY <3>1
  <2> QED
    BY <2>2, <2>3
<1> HIDE DEF Good
<1>10. Good(N)
  <2> DEFINE Bad == {k \in 0..N : ~Good(k)}
  <2> SUFFICES ASSUME Bad # {} PROVE FALSE
    OBVIOUS
  <2>1. PICK m \in Bad : \A k \in Bad : m <= k
    <3>1. Bad \in SUBSET Nat
      OBVIOUS
    <3> HIDE DEF Bad
    <3> QED
      BY <3>1, LeastNumber
  <2>2. m \in 1..N
    BY <1>8, <2>1
  <2>3. m - 1 \in 0..N /\ m - 1 < m
    BY <2>2
  <2>4. Good(m - 1)
    BY <2>1, <2>3
  <2> QED
    BY <1>9, <2>1, <2>2, <2>4
<1> QED
  BY <1>1, <1>10 DEF Good

\* The blocks before a broadcast are counted one broadcast after the other.
LEMMA BlocksBefore ==
    ASSUME NEW C, NEW n \in Nat, NEW r \in [1..n -> Seq(C)]
    PROVE  /\ \A b \in 1..(n + 1) : Before(r, b) \in Nat
           /\ Before(r, 1) = 0
           /\ \A b \in 1..n : Before(r, b + 1) = Before(r, b) + Len(r[b])
<1> DEFINE Body(h) == [c \in 0..n |-> IF c = 0 THEN 0 ELSE h[c - 1] + Len(r[c])]
           size    == CHOOSE h : h = Body(h)
           add     == [k \in 1..n |-> [m \in Nat |-> m + Len(r[k])]]
<1>1. \A k \in 1..n : Len(r[k]) \in Nat
  BY LenProperties
<1>2. Chain(n, Nat, 0, add)
  BY <1>1 DEF Chain
<1>3. PICK g : Follows(g, n, Nat, 0, add)
  <2> HIDE DEF add
  <2> QED
    BY <1>2, ChainFollows
<1>4. g \in [0..n -> Nat] /\ g[0] = 0 /\ \A k \in 1..n : g[k] = g[k - 1] + Len(r[k])
  <2>1. g \in [0..n -> Nat] /\ g[0] = 0 /\ \A k \in 1..n : g[k] = add[k][g[k - 1]]
    <3> HIDE DEF add
    <3> QED
      BY <1>3 DEF Follows
  <2>2. \A k \in 1..n : g[k - 1] \in Nat
    BY <2>1
  <2> QED
    BY <2>1, <2>2
<1>5. g = Body(g)
  BY <1>4
<1>6. size = Body(size)
  <2> HIDE DEF Body
  <2> QED
    BY <1>5
<1>7. Len(r) = n
  BY LenProperties
<1>8. \A b : Before(r, b) = size[b - 1]
  BY <1>7 DEF Before
<1> HIDE DEF size
<1>9. size[0] = 0 /\ \A k \in 1..n : size[k] = size[k - 1] + Len(r[k])
  BY <1>6
<1> DEFINE Bad == {k \in 0..n : size[k] \notin Nat}
<1>10. Bad = {}
  <2> SUFFICES ASSUME Bad # {} PROVE FALSE
    OBVIOUS
  <2>1. PICK m \in Bad : \A k \in Bad : m <= k
    <3>1. Bad \in SUBSET Nat
      OBVIOUS
    <3> HIDE DEF Bad
    <3> QED
      BY <3>1, LeastNumber
  <2>2. m \in 1..n /\ m - 1 \in 0..n /\ m - 1 < m
    BY <1>9, <2>1
  <2>3. size[m - 1] \in Nat
    BY <2>1, <2>2
  <2> QED
    BY <1>1, <1>9, <2>1, <2>2, <2>3
<1>11. \A b \in 1..(n + 1) : Before(r, b) \in Nat
  <2>1. \A b \in 1..(n + 1) : b - 1 \in 0..n
    OBVIOUS
  <2> QED
    BY <1>8, <1>10, <2>1
<1>12. Before(r, 1) = 0
  BY <1>8, <1>9
<1>13. \A b \in 1..n : Before(r, b + 1) = Before(r, b) + Len(r[b])
  <2>1. \A b \in 1..n : (b + 1) - 1 = b
    OBVIOUS
  <2> QED
    BY <1>8, <1>9, <2>1
<1> QED
  BY <1>11, <1>12, <1>13

\* Later broadcasts have later blocks, and every block is some broadcast's.
LEMMA BlocksInOrder ==
    ASSUME NEW C, NEW n \in Nat, NEW r \in [1..n -> Seq(C)]
    PROVE  /\ \A b \in 1..n : Before(r, b) + Len(r[b]) <= Before(r, n + 1)
           /\ \A a \in 1..n, b \in 1..n : a < b => Before(r, a) + Len(r[a]) <= Before(r, b)
           /\ \A p \in 1..Before(r, n + 1) :
                 \E b \in 1..n : Before(r, b) < p /\ p <= Before(r, b) + Len(r[b])
<1>1. /\ \A b \in 1..(n + 1) : Before(r, b) \in Nat
      /\ Before(r, 1) = 0
      /\ \A b \in 1..n : Before(r, b + 1) = Before(r, b) + Len(r[b])
  BY BlocksBefore
<1>2. \A b \in 1..n : Len(r[b]) \in Nat
  BY LenProperties
<1>3. ASSUME NEW a \in 1..n, NEW b \in 1..(n + 1), a < b PROVE Before(r, a) + Len(r[a]) <= Before(r, b)
  <2> DEFINE Bad == {k \in 1..(n + 1) : a < k /\ ~(Before(r, a) + Len(r[a]) <= Before(r, k))}
  <2> SUFFICES ASSUME Bad # {} PROVE FALSE
    BY <1>3
  <2>1. PICK m \in Bad : \A k \in Bad : m <= k
    <3>1. Bad \in SUBSET Nat
      OBVIOUS
    <3> HIDE DEF Bad
    <3> QED
      BY <3>1, LeastNumber
  <2>2. m \in 1..(n + 1) /\ a < m /\ ~(Before(r, a) + Len(r[a]) <= Before(r, m))
    BY <2>1
  <2>3. m # a + 1
    BY <1>1, <1>2, <2>2
  <2>4. m - 1 \in 1..n /\ a < m - 1 /\ m - 1 < m /\ (m - 1) + 1 = m
    BY <2>2, <2>3
  <2>5. Before(r, a) + Len(r[a]) <= Before(r, m - 1)
    BY <2>1, <2>4
  <2>6. Before(r, m) = Before(r, m - 1) + Len(r[m - 1])
    BY <1>1, <2>4
  <2>7. Before(r, a) \in Nat /\ Before(r, m - 1) \in Nat /\ Len(r[a]) \in Nat /\ Len(r[m - 1]) \in Nat
    <3>1. a \in 1..(n + 1) /\ m - 1 \in 1..(n + 1)
      BY <2>4
    <3>2. Before(r, a) \in Nat /\ Before(r, m - 1) \in Nat
      BY <1>1, <3>1
    <3>3. Len(r[a]) \in Nat /\ Len(r[m - 1]) \in Nat
      BY <1>2, <2>4
    <3> QED
      BY <3>2, <3>3
  <2> QED
    BY <2>2, <2>5, <2>6, <2>7
<1>4. ASSUME NEW p \in 1..Before(r, n + 1)
      PROVE  \E b \in 1..n : Before(r, b) < p /\ p <= Before(r, b) + Len(r[b])
  <2> DEFINE Reached == {k \in 1..(n + 1) : p <= Before(r, k)}
  <2>1. PICK m \in Reached : \A k \in Reached : m <= k
    <3>1. Reached \in SUBSET Nat
      OBVIOUS
    <3>2. n + 1 \in Reached
      BY <1>1
    <3> HIDE DEF Reached
    <3> QED
      BY <3>1, <3>2, LeastNumber
  <2>2. m # 1
    BY <1>1, <2>1
  <2>3. m - 1 \in 1..n /\ m - 1 < m /\ (m - 1) + 1 = m
    BY <2>1, <2>2
  <2>4. Before(r, m) = Before(r, m - 1) + Len(r[m - 1])
    BY <1>1, <2>3
  <2>5. ~(p <= Before(r, m - 1))
    BY <2>1, <2>3
  <2>6. Before(r, m - 1) < p /\ p <= Before(r, m - 1) + Len(r[m - 1])
    BY <1>1, <2>1, <2>3, <2>4, <2>5
  <2> QED
    BY <2>3, <2>6
<1> QED
  BY <1>3, <1>4

\* Every broadcast that has clients is written right after the broadcasts before it.
Aligned(r) == \A b \in DOMAIN r : r[b] # <<>> => Offset(r, b) = Before(r, b)

\* An entry is registered to its own broadcast only.
OneCase(n, switch) == \A a, b \in 1..n : Matches(switch, a, b) <=> a = b

\* If a registry is aligned, the map holds exactly the clients of every broadcast.
LEMMA ExportIs ==
    ASSUME NEW C, NEW n \in Nat, NEW r \in [1..n -> Seq(C)], Aligned(r)
    PROVE  /\ Before(r, n + 1) \in Nat
           /\ Export(r) \in [1..Before(r, n + 1) -> [client : C, cmd : 1..n]]
           /\ \A b \in 1..n : {Export(r)[p].client : p \in {q \in 1..Before(r, n + 1) : Export(r)[q].cmd = b}}
                                = ToSet(r[b])
<1> DEFINE N          == Before(r, n + 1)
           writers(p) == {b \in 1..n : Offset(r, b) < p /\ p <= Offset(r, b) + Len(r[b])}
           w(p)       == Max(writers(p))
<1>1. Len(r) = n /\ DOMAIN r = 1..n /\ \A b \in 1..n : Len(r[b]) \in Nat /\ DOMAIN r[b] = 1..Len(r[b])
  BY LenProperties
<1>2. N \in Nat /\ \A b \in 1..n : Before(r, b) \in Nat
  <2>1. \A b \in 1..(n + 1) : Before(r, b) \in Nat
    <3> HIDE DEF N, writers, w
    <3> QED
      BY BlocksBefore
  <2>2. n + 1 \in 1..(n + 1) /\ \A b \in 1..n : b \in 1..(n + 1)
    OBVIOUS
  <2> HIDE DEF writers, w
  <2> QED
    BY <2>1, <2>2
<1>3. \A b \in 1..n : Offset(r, b) \in Nat
  BY <1>1 DEF Offset
<1>4. ASSUME NEW p \in 1..N, NEW b \in 1..n
      PROVE  b \in writers(p) <=> Before(r, b) < p /\ p <= Before(r, b) + Len(r[b])
  <2>1. CASE r[b] = <<>>
    <3>1. Len(r[b]) = 0
      BY <2>1
    <3>2. Before(r, b) \in Nat /\ Offset(r, b) \in Nat
      BY <1>2, <1>3
    <3>3. p \in Int
      BY <1>2
    <3>4. ~(Offset(r, b) < p /\ p <= Offset(r, b) + Len(r[b])) /\ ~(Before(r, b) < p /\ p <= Before(r, b) + Len(r[b]))
      <4> DEFINE o == Offset(r, b)
                 f == Before(r, b)
                 l == Len(r[b])
      <4>1. l = 0 /\ f \in Nat /\ o \in Nat /\ p \in Int
        BY <3>1, <3>2, <3>3
      <4> HIDE DEF N, writers, w, o, f, l
      <4>2. ~(o < p /\ p <= o + l) /\ ~(f < p /\ p <= f + l)
        BY <4>1
      <4> QED
        BY <4>2 DEF o, f, l
    <3> QED
      BY <3>4
  <2>2. CASE r[b] # <<>>
    <3>1. Offset(r, b) = Before(r, b)
      BY <1>1, <2>2 DEF Aligned
    <3> QED
      BY <3>1
  <2> QED
    BY <2>1, <2>2
<1>5. ASSUME NEW p \in 1..N, NEW b \in 1..n, Before(r, b) < p, p <= Before(r, b) + Len(r[b])
      PROVE  writers(p) = {b}
  <2>1. b \in writers(p)
    BY <1>4, <1>5
  <2>2. ASSUME NEW a \in writers(p) PROVE a = b
    <3>1. a \in 1..n /\ Before(r, a) < p /\ p <= Before(r, a) + Len(r[a])
      BY <1>4, <2>2
    <3>2. ~(a < b) /\ ~(b < a)
      <4>1. \A x \in 1..n, y \in 1..n : x < y => Before(r, x) + Len(r[x]) <= Before(r, y)
        BY BlocksInOrder
      <4>2. /\ Before(r, a) \in Nat /\ Len(r[a]) \in Nat /\ a \in Nat /\ p \in Int
            /\ Before(r, b) \in Nat /\ Len(r[b]) \in Nat /\ b \in Nat
        <5> HIDE DEF writers, N
        <5> QED
          BY <1>1, <1>2, <3>1
      <4>3. /\ a < b => Before(r, a) + Len(r[a]) <= Before(r, b)
            /\ b < a => Before(r, b) + Len(r[b]) <= Before(r, a)
        BY <3>1, <4>1
      <4> HIDE DEF N, writers, w
      <4> DEFINE A == Before(r, a)
                 B == Before(r, b)
                 k == Len(r[a])
                 l == Len(r[b])
      <4>4. A \in Nat /\ B \in Nat /\ k \in Nat /\ l \in Nat /\ A < p /\ p <= A + k /\ B < p /\ p <= B + l
        BY <1>5, <3>1, <4>2
      <4>5. (a < b => A + k <= B) /\ (b < a => B + l <= A)
        BY <4>3
      <4> HIDE DEF A, B, k, l
      <4> QED
        BY <4>2, <4>4, <4>5
    <3> QED
      BY <3>1, <3>2
  <2> HIDE DEF writers
  <2> QED
    BY <2>1, <2>2
<1>6. ASSUME NEW p \in 1..N, NEW b \in 1..n, Before(r, b) < p, p <= Before(r, b) + Len(r[b])
      PROVE  /\ p - Before(r, b) \in DOMAIN r[b]
             /\ Export(r)[p] = [client |-> r[b][p - Before(r, b)], cmd |-> b]
  <2>1. writers(p) = {b}
    BY <1>5, <1>6
  <2>2. w(p) = b
    <3>1. \A x, y \in {b} : x >= y
      OBVIOUS
    <3> HIDE DEF writers
    <3> QED
      BY <2>1, <3>1 DEF Max
  <2>3. Offset(r, b) = Before(r, b)
    <3>1. r[b] # <<>>
      BY <1>2, <1>6
    <3> QED
      BY <1>1, <3>1 DEF Aligned
  <2>4. Export(r)[p] = IF writers(p) = {} THEN Garbage
                       ELSE [client |-> r[w(p)][p - Offset(r, w(p))], cmd |-> w(p)]
    BY <1>1 DEF Export
  <2>5. p - Before(r, b) \in DOMAIN r[b]
    <3> HIDE DEF N
    <3> QED
      BY <1>1, <1>2, <1>6
  <2> HIDE DEF writers, w
  <2> QED
    BY <2>1, <2>2, <2>3, <2>4, <2>5
<1>7. ASSUME NEW p \in 1..N
      PROVE  \E b \in 1..n : Before(r, b) < p /\ p <= Before(r, b) + Len(r[b])
  BY BlocksInOrder
<1>8. ASSUME NEW p \in 1..N
      PROVE  \E b \in 1..n : \E i \in DOMAIN r[b] : Export(r)[p] = [client |-> r[b][i], cmd |-> b]
  <2>1. PICK b \in 1..n : Before(r, b) < p /\ p <= Before(r, b) + Len(r[b])
    BY <1>7
  <2>2. p - Before(r, b) \in DOMAIN r[b] /\ Export(r)[p] = [client |-> r[b][p - Before(r, b)], cmd |-> b]
    BY <1>6, <2>1
  <2> HIDE DEF N
  <2> QED
    BY <2>2, Zenon
<1>9. ASSUME NEW b \in 1..n, NEW i \in DOMAIN r[b]
      PROVE  \E p \in 1..N : Export(r)[p] = [client |-> r[b][i], cmd |-> b]
  <2> DEFINE p == Before(r, b) + i
  <2>1. i \in 1..Len(r[b])
    BY <1>1
  <2>2. Before(r, b) + Len(r[b]) <= N
    BY BlocksInOrder
  <2>3. p \in 1..N /\ Before(r, b) < p /\ p <= Before(r, b) + Len(r[b]) /\ p - Before(r, b) = i
    <3> HIDE DEF N
    <3> QED
      BY <1>1, <1>2, <2>1, <2>2
  <2>4. Export(r)[p] = [client |-> r[b][i], cmd |-> b]
    <3> HIDE DEF N
    <3> QED
      BY <1>6, <2>3
  <2> QED
    BY <2>3, <2>4
<1>10. DOMAIN Export(r) = 1..N /\ Export(r) = [p \in 1..N |-> Export(r)[p]]
  BY <1>1 DEF Export
<1> HIDE DEF N, writers, w
<1>11. \A b \in 1..n : \A i \in DOMAIN r[b] : r[b][i] \in C
  BY <1>1
<1>12. \A p \in 1..N : Export(r)[p] \in [client : C, cmd : 1..n]
  <2> SUFFICES ASSUME NEW p \in 1..N PROVE Export(r)[p] \in [client : C, cmd : 1..n]
    OBVIOUS
  <2>1. PICK b \in 1..n : \E i \in DOMAIN r[b] : Export(r)[p] = [client |-> r[b][i], cmd |-> b]
    BY <1>8
  <2> QED
    BY <1>11, <2>1
<1>13. ASSUME NEW b \in 1..n
       PROVE  {Export(r)[p].client : p \in {q \in 1..N : Export(r)[q].cmd = b}} = ToSet(r[b])
  <2>1. ASSUME NEW p \in 1..N, Export(r)[p].cmd = b PROVE \E i \in DOMAIN r[b] : Export(r)[p].client = r[b][i]
    <3>1. PICK a \in 1..n : \E i \in DOMAIN r[a] : Export(r)[p] = [client |-> r[a][i], cmd |-> a]
      BY <1>8
    <3>2. PICK j \in DOMAIN r[a] : Export(r)[p] = [client |-> r[a][j], cmd |-> a]
      BY <3>1
    <3>3. a = b /\ Export(r)[p].client = r[a][j]
      BY <2>1, <3>2, SMT
    <3> QED
      BY <3>2, <3>3
  <2>2. ASSUME NEW i \in DOMAIN r[b] PROVE \E p \in 1..N : Export(r)[p].cmd = b /\ Export(r)[p].client = r[b][i]
    <3>1. PICK p \in 1..N : Export(r)[p] = [client |-> r[b][i], cmd |-> b]
      BY <1>9
    <3>2. Export(r)[p].cmd = b /\ Export(r)[p].client = r[b][i]
      BY <3>1, SMT
    <3> QED
      BY <3>2, Zenon
  <2>3. ToSet(r[b]) = {r[b][i] : i \in DOMAIN r[b]}
    BY DEF ToSet
  <2> DEFINE told == {Export(r)[p].client : p \in {q \in 1..N : Export(r)[q].cmd = b}}
  <2>4. ASSUME NEW c \in told PROVE c \in ToSet(r[b])
    <3>1. PICK p \in 1..N : Export(r)[p].cmd = b /\ c = Export(r)[p].client
      BY <2>4
    <3> QED
      BY <2>1, <2>3, <3>1
  <2>5. ASSUME NEW c \in ToSet(r[b]) PROVE c \in told
    <3>1. PICK i \in DOMAIN r[b] : c = r[b][i]
      BY <2>3, <2>5
    <3>2. PICK p \in 1..N : Export(r)[p].cmd = b /\ Export(r)[p].client = r[b][i]
      BY <2>2
    <3> QED
      BY <3>1, <3>2
  <2> HIDE DEF told
  <2>6. told = ToSet(r[b])
    BY <2>4, <2>5
  <2> QED
    BY <2>6 DEF told
<1> QED
  BY <1>2, <1>10, <1>12, <1>13 DEF N

\* A registry whose broadcasts are written one after the other comes back from the map: after
\* export_registry_map and load_registry_map every broadcast has the clients that it had.
THEOREM RegistryComesBack ==
    ASSUME NEW C, NEW n \in Nat, NEW r \in [1..n -> Seq(C)], Aligned(r),
           NEW switch, OneCase(n, switch)
    PROVE  \A b \in 1..n : /\ Load(Export(r), n, switch)[b] \in Seq(C)
                           /\ ToSet(Load(Export(r), n, switch)[b]) = ToSet(r[b])
<1> DEFINE N == Before(r, n + 1)
           map == Export(r)
<1>1. N \in Nat /\ map \in [1..N -> [client : C, cmd : 1..n]]
  BY ExportIs
<1>2. \A b \in 1..n : {map[p].client : p \in {q \in 1..N : map[q].cmd = b}} = ToSet(r[b])
  BY ExportIs
<1> HIDE DEF N, map
<1> SUFFICES ASSUME NEW b \in 1..n PROVE Load(map, n, switch)[b] \in Seq(C)
                                                  /\ ToSet(Load(map, n, switch)[b]) = ToSet(r[b])
  BY DEF map
<1>3. /\ Load(map, n, switch)[b] \in Seq(C)
      /\ ToSet(Load(map, n, switch)[b]) = Addressed(map, N, switch, b)
  <2>1. Blocks(map, N, C)
    BY <1>1 DEF Blocks
  <2> QED
    BY <2>1, LoadIs
<1>4. \A p \in 1..N : Matches(switch, map[p].cmd, b) <=> map[p].cmd = b
  <2>1. \A p \in 1..N : map[p].cmd \in 1..n
    BY <1>1
  <2> QED
    BY <2>1 DEF OneCase
<1>5. Addressed(map, N, switch, b) = {map[p].client : p \in {q \in 1..N : map[q].cmd = b}}
  BY <1>4 DEF Addressed
<1> QED
  BY <1>2, <1>3, <1>5

\* Restarts keep the subscriptions of an interface with one broadcast, and of one with two if
\* load_registry_map compares commands with ifs.
THEOREM TwoAreFaithful ==
    ASSUME BroadcastNum <= 1 \/ (BroadcastNum = 2 /\ ~SwitchCase)
    PROVE  MapIsFaithful
<1> SUFFICES ASSUME NEW S \in SUBSET Broadcast PROVE Restored(S) = S
  BY DEF MapIsFaithful
<1> DEFINE r == Entries(S)
           C == {"client"}
<1>1. BroadcastNum \in Nat /\ SwitchCase \in BOOLEAN /\ Broadcast = 1..BroadcastNum
  BY ParameterAssumption DEF Broadcast
<1>2. r \in [1..BroadcastNum -> Seq(C)]
  <2>1. <<"client">> \in Seq(C) /\ <<>> \in Seq(C)
    OBVIOUS
  <2> HIDE DEF C
  <2> QED
    BY <1>1, <2>1 DEF Entries
<1>3. Aligned(r)
  <2> SUFFICES ASSUME NEW b \in 1..BroadcastNum PROVE Offset(r, b) = Before(r, b)
    BY <1>2 DEF Aligned
  <2>1. b = 1 \/ (b = 2 /\ 1 \in 1..BroadcastNum)
    BY <1>1
  <2>2. Before(r, 1) = 0 /\ (1 \in 1..BroadcastNum => Before(r, 1 + 1) = Before(r, 1) + Len(r[1]))
    <3> HIDE DEF r, C
    <3> QED
      BY <1>1, <1>2, BlocksBefore
  <2>3. 1 \in 1..BroadcastNum => Len(r[1]) \in Nat
    BY <1>2, LenProperties
  <2> HIDE DEF r
  <2> QED
    BY <2>1, <2>2, <2>3 DEF Offset
<1>4. \A b \in 1..BroadcastNum : /\ Load(Export(r), BroadcastNum, SwitchCase)[b] \in Seq(C)
                                  /\ ToSet(Load(Export(r), BroadcastNum, SwitchCase)[b]) = ToSet(r[b])
  <2>1. OneCase(BroadcastNum, SwitchCase)
    BY <1>1 DEF OneCase, Matches
  <2>2. BroadcastNum \in Nat
    BY <1>1
  <2> HIDE DEF r, C
  <2> QED
    BY <1>2, <1>3, <2>1, <2>2, RegistryComesBack, SMTT(30)
<1>5. \A b \in 1..BroadcastNum : Load(Export(r), BroadcastNum, SwitchCase)[b] = <<>> <=> r[b] = <<>>
  <2>1. \A l \in Seq(C) : l = <<>> <=> ToSet(l) = {}
    BY EmptySeq, LenProperties DEF ToSet
  <2> HIDE DEF C, r
  <2> QED
    BY <1>2, <1>4, <2>1
<1>6. \A b \in 1..BroadcastNum : r[b] # <<>> <=> b \in S
  BY <1>1 DEF Entries
<1> QED
  BY <1>1, <1>5, <1>6 DEF Restored

\* ViewsAgree of MsgBoxProxy, without any assumption on the map for the interfaces it is kept for:
\* with one broadcast, or with two and a load_registry_map that compares commands with ifs, client and
\* server agree on every completed change of a subscription, however often the server restarts.
THEOREM AgreeAfterRestarts ==
    ASSUME Orderly, BroadcastNum <= 1 \/ (BroadcastNum = 2 /\ ~SwitchCase)
    PROVE  Spec => []ViewsAgree
<1>1. MapIsFaithful
  BY TwoAreFaithful
<1> QED
  BY <1>1, AgreeOnSubscriptions
=============================================================================
