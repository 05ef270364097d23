----------------------------- MODULE MsgBoxProxy -----------------------------
(***************************************************************************)
(* A client that msgboxGen generates, talking to a generated server: the   *)
(* proxy's synchronous and asynchronous calls and subscriptions, its       *)
(* router, and the server's registry of subscribers (templates in          *)
(* MsgBoxInfGenerator.cpp and MsgBoxGenerator::generateProxySource).       *)
(*                                                                         *)
(* Operations are numbered as the application issues them; each of them    *)
(* sends one request.  Broadcast messages are numbered as they are sent.   *)
(* Any number of application threads issue operations: a synchronous call  *)
(* in progress is a thread that waits.                                     *)
(*                                                                         *)
(* The runtime library (send_request, the method registry, the transport)  *)
(* is not in the repository.  It is modelled from how the templates use    *)
(* it: send_request finds a free token, sets up method_registry[token] and *)
(* sends; messages of one kind arrive in order; the callback of a          *)
(* subscription reply returns what the server returned; a caller whose     *)
(* reply was handled before it waits does not wait.  A token is free again *)
(* when its registration has been cleared, and may be given out while a    *)
(* reply to a call that was given up is still on its way; not while the    *)
(* router is handling a reply with that token: the template compares the   *)
(* registration's command first and reads its callback later.              *)
(*                                                                         *)
(* Not modelled: what calls and broadcasts carry (a broadcast can always   *)
(* be deserialised), one-way calls, which leave no trace in the client,    *)
(* and the availability callbacks.                                         *)
(***************************************************************************)
EXTENDS Integers, Sequences, RegistryMap

CONSTANTS BroadcastNum,   \* broadcasts of the interface
          MethodNum,      \* methods of the interface
          Calls,          \* the calls the application makes: how, and of which method
          TokenNum,       \* IPC_TOKEN_NUM
          MaxOps,         \* bound: operations issued in a behaviour
          MaxMessages,    \* bound: broadcast messages sent
          MaxRestarts,    \* bound: restarts of the server
          Errors,         \* TRUE: sending, and deserialising a reply, may fail
          Orderly,        \* TRUE: one subscription change at a time per broadcast
          SwitchCase      \* ~m_bNotUseSwitchCase: how the server's code is generated

ASSUME ParameterAssumption ==
    /\ BroadcastNum \in Nat /\ MethodNum \in Nat /\ TokenNum \in Nat
    /\ Calls \subseteq [kind : {"sync", "async"}, on : (BroadcastNum + 1)..(BroadcastNum + MethodNum)]
    /\ MaxOps \in Nat /\ MaxMessages \in Nat /\ MaxRestarts \in Nat
    /\ Errors \in BOOLEAN /\ Orderly \in BOOLEAN /\ SwitchCase \in BOOLEAN

Broadcast == 1..BroadcastNum
Method    == (BroadcastNum + 1)..(BroadcastNum + MethodNum)   \* numbered after the broadcasts
Token     == 0..(TokenNum - 1)
Op        == 1..MaxOps
None      == 0

\* What an operation is: a call of a method, or a change of the subscription to a broadcast.
Command  == [kind : {"sync", "async"}, on : Method \cup {None}]
            \cup [kind : {"sub", "unsub"}, on : Broadcast]
IsCall(c) == c.kind \in {"sync", "async"}

\* header.cmd and reg->cmd: a method has one, however it is called.
SameCommand(c, d) == c.on = d.on /\ (c.kind = d.kind \/ (IsCall(c) /\ IsCall(d)))

VARIABLES
    issued,
    command,          \* Op -> its command
    status,           \* Op -> how far its function has come in the caller
    reg,              \* Op -> the token of a synchronous call in progress
    result,           \* Op -> the operation whose reply its callback was given
    calls,            \* Op -> how often its callback has been called
    method_registry,  \* Token -> the operation registered for it, or None
    registry,         \* Broadcast -> the subscription registered for it, or None
    requests, replies, broadcasts,   \* the transport
    phase, inhand,    \* router: where it is, the reply it is handling
    subscribers,      \* server: the broadcasts this client is registered for
    sent, heard,      \* history: broadcast messages sent, passed to a callback
    restarts,
    view,             \* history: Broadcast -> what the application was last told
    shared,           \* history: operations sent with the token of a caller not yet gone
    hasty             \* history: broadcasts subscribed to again before the registration of the
                      \* last subscription was cleared

clientVars == <<issued, command, status, reg>>
resultVars == <<result, calls>>
routerVars == <<phase, inhand>>
serverVars == <<subscribers, restarts>>
traceVars  == <<shared, hasty>>
vars == <<clientVars, resultVars, method_registry, registry, requests, replies, broadcasts,
          routerVars, serverVars, sent, heard, view, traceVars>>

NoReply == [token |-> 0, op |-> None, ret |-> 0]

Init ==
    /\ issued = 0
    /\ command = [n \in Op |-> [kind |-> "async", on |-> None]]
    /\ status = [n \in Op |-> "unused"] /\ reg = [n \in Op |-> 0]
    /\ result = [n \in Op |-> None] /\ calls = [n \in Op |-> 0]
    /\ method_registry = [t \in Token |-> None]
    /\ registry = [b \in Broadcast |-> None]
    /\ requests = <<>> /\ replies = <<>> /\ broadcasts = <<>>
    /\ phase = "broadcast" /\ inhand = NoReply
    /\ subscribers = {} /\ restarts = 0
    /\ sent = 0 /\ heard = {}
    /\ view = [b \in Broadcast |-> "out"]
    /\ shared = {} /\ hasty = {}

-----------------------------------------------------------------------------
(* send_request: the tokens it may choose from, and what it does with one. *)

\* The router is handling a reply with token t.
Handled(t) == phase \in {"callback", "notify"} /\ inhand.token = t

FreeToken == {t \in Token : method_registry[t] = None /\ ~Handled(t)}

\* A synchronous call has token t and has not returned.
Held(t) == \E n \in Op : status[n] \in {"waiting", "expired"} /\ reg[n] = t

SendRequest(n, t) ==
    /\ t \in FreeToken
    /\ method_registry' = [method_registry EXCEPT ![t] = n]
    /\ requests' = Append(requests, [token |-> t, op |-> n])
    /\ shared' = IF Held(t) THEN shared \cup {n} ELSE shared

SendFails == Errors \/ FreeToken = {}

Issue(n, c) ==
    /\ n = issued + 1 /\ n <= MaxOps
    /\ issued' = n
    /\ command' = [command EXCEPT ![n] = c]

\* call_<method>_sync up to its wait, call_<method>_async.
Call(n, c) ==
    /\ IsCall(c)
    /\ Issue(n, c)
    /\ \/ /\ \E t \in Token : /\ SendRequest(n, t)
                             /\ reg' = IF c.kind = "sync" THEN [reg EXCEPT ![n] = t] ELSE reg
          /\ status' = [status EXCEPT ![n] = IF c.kind = "sync" THEN "waiting" ELSE "sent"]
       \/ /\ SendFails
          /\ status' = [status EXCEPT ![n] = "failed"]
          /\ UNCHANGED <<reg, method_registry, requests, shared>>
    /\ UNCHANGED <<resultVars, registry, replies, broadcasts, routerVars, serverVars, sent,
                   heard, view, hasty>>

\* subscribe_<broadcast>: its registry is set before the request is sent.
Subscribe(n, b) ==
    /\ Issue(n, [kind |-> "sub", on |-> b])
    /\ Orderly => view[b] = "out"
    /\ registry' = [registry EXCEPT ![b] = n]
    /\ status' = [status EXCEPT ![n] = "registered"]
    /\ view' = [view EXCEPT ![b] = "changing"]
    /\ hasty' = IF phase = "clear" /\ command[inhand.op].on = b THEN hasty \cup {b}
                                                                ELSE hasty \ {b}
    /\ UNCHANGED <<reg, resultVars, method_registry, requests, replies, broadcasts, routerVars,
                   serverVars, sent, heard, shared>>

SendSubscribe(n) == LET b == command[n].on IN
    /\ status[n] = "registered"
    /\ \/ /\ \E t \in Token : SendRequest(n, t)
          /\ status' = [status EXCEPT ![n] = "sent"]
          /\ UNCHANGED <<registry, view>>
       \/ /\ SendFails
          /\ registry' = [registry EXCEPT ![b] = None]
          /\ status' = [status EXCEPT ![n] = "failed"]
          /\ view' = [view EXCEPT ![b] = "out"]
          /\ UNCHANGED <<method_registry, requests, shared>>
    /\ UNCHANGED <<issued, command, reg, resultVars, replies, broadcasts, routerVars,
                   serverVars, sent, heard, hasty>>

\* unsubscribe_<broadcast>: only sends.
Unsubscribe(n, b) ==
    /\ Issue(n, [kind |-> "unsub", on |-> b])
    /\ Orderly => view[b] = "in"
    /\ \/ /\ \E t \in Token : SendRequest(n, t)
          /\ status' = [status EXCEPT ![n] = "sent"]
          /\ view' = [view EXCEPT ![b] = "changing"]
       \/ /\ SendFails
          /\ status' = [status EXCEPT ![n] = "failed"]
          /\ UNCHANGED <<method_registry, requests, view, shared>>
    /\ UNCHANGED <<reg, resultVars, registry, replies, broadcasts, routerVars, serverVars,
                   sent, heard, hasty>>

\* timedwait_on_registry fails ...
Expire(n) ==
    /\ status[n] = "waiting"
    /\ status' = [status EXCEPT ![n] = "expired"]
    /\ UNCHANGED <<issued, command, reg, resultVars, method_registry, registry, requests,
                   replies, broadcasts, routerVars, serverVars, sent, heard, view, traceVars>>

\* ... and then the registration is cleared, whoever holds the token by now.
ClearExpired(n) ==
    /\ status[n] = "expired"
    /\ status' = [status EXCEPT ![n] = "timeout"]
    /\ method_registry' = [method_registry EXCEPT ![reg[n]] = None]
    /\ reg' = [reg EXCEPT ![n] = 0]
    /\ UNCHANGED <<issued, command, resultVars, registry, requests, replies, broadcasts,
                   routerVars, serverVars, sent, heard, view, traceVars>>

Timeout(n) == Expire(n) \/ ClearExpired(n)

-----------------------------------------------------------------------------
(* The server: its dispatcher takes requests in order; a call is answered, *)
(* a subscription changes the registry unless a callback refuses it.       *)

\* Mutant of Reply. What a callback returns is passed on as it is.
ReplyAnyReturn(ret) == [token |-> Head(requests).token, op |-> Head(requests).op,
                        ret |-> ret + ret]

Reply(ret) == [token |-> Head(requests).token, op |-> Head(requests).op, ret |-> ret]

Serve == LET c == command[Head(requests).op] IN
    /\ requests # <<>>
    /\ requests' = Tail(requests)
    /\ subscribers' = CASE c.kind = "sub"   -> subscribers \cup {c.on}
                        [] c.kind = "unsub" -> subscribers \ {c.on}
                        [] OTHER            -> subscribers
    /\ replies' = Append(replies, Reply(0))
    /\ UNCHANGED <<clientVars, resultVars, method_registry, registry, broadcasts, routerVars,
                   restarts, sent, heard, view, traceVars>>

Refuse ==
    /\ requests # <<>> /\ ~IsCall(command[Head(requests).op])
    /\ requests' = Tail(requests)
    /\ replies' = Append(replies, Reply(-1))
    /\ UNCHANGED <<clientVars, resultVars, method_registry, registry, broadcasts, routerVars,
                   serverVars, sent, heard, view, traceVars>>

\* <broadcast>(args) with this client among the subscribers.
SendBroadcast(b) ==
    /\ b \in subscribers /\ sent < MaxMessages
    /\ sent' = sent + 1
    /\ broadcasts' = Append(broadcasts, [on |-> b, number |-> sent + 1])
    /\ UNCHANGED <<clientVars, resultVars, method_registry, registry, requests, replies,
                   routerVars, serverVars, heard, view, traceVars>>

\* The server exports its registry, restarts and loads it again; requests it has not
\* read are lost.
Entries(S) == [b \in Broadcast |-> IF b \in S THEN <<"client">> ELSE <<>>]

Restored(S) == LET loaded == Load(Export(Entries(S)), BroadcastNum, SwitchCase)
               IN  {b \in Broadcast : loaded[b] # <<>>}

Restart ==
    /\ restarts < MaxRestarts
    /\ restarts' = restarts + 1
    /\ requests' = <<>>
    /\ subscribers' = Restored(subscribers)
    /\ UNCHANGED <<clientVars, resultVars, method_registry, registry, replies, broadcasts,
                   routerVars, sent, heard, view, traceVars>>

-----------------------------------------------------------------------------
(* The client's router in dispatch_message: a broadcast, if there is one,  *)
(* then a reply, if there is one, and again.                               *)

\* Mutant of TakeBroadcast. Broadcasts are looked at only when there is a reply as well.
TakeBroadcastWithReply == LET m == Head(broadcasts) IN
    /\ phase = "broadcast" /\ broadcasts # <<>> /\ replies # <<>>
    /\ broadcasts' = Tail(broadcasts)
    /\ heard' = IF registry[m.on] # None THEN heard \cup {m.number} ELSE heard
    /\ phase' = "reply"
    /\ UNCHANGED <<clientVars, resultVars, method_registry, registry, requests, replies,
                   inhand, serverVars, sent, view, traceVars>>

TakeBroadcast == LET m == Head(broadcasts) IN
    /\ phase = "broadcast" /\ broadcasts # <<>>
    /\ broadcasts' = Tail(broadcasts)
    /\ heard' = IF registry[m.on] # None THEN heard \cup {m.number} ELSE heard
    /\ phase' = "reply"
    /\ UNCHANGED <<clientVars, resultVars, method_registry, registry, requests, replies,
                   inhand, serverVars, sent, view, traceVars>>

NoBroadcast ==
    /\ phase = "broadcast" /\ broadcasts = <<>> /\ replies # <<>>
    /\ phase' = "reply"
    /\ UNCHANGED <<clientVars, resultVars, method_registry, registry, requests, replies,
                   broadcasts, inhand, serverVars, sent, heard, view, traceVars>>

NoReplyYet ==
    /\ phase = "reply" /\ replies = <<>>
    /\ phase' = "broadcast"
    /\ UNCHANGED <<clientVars, resultVars, method_registry, registry, requests, replies,
                   broadcasts, inhand, serverVars, sent, heard, view, traceVars>>

\* Mutant of Expected. The command is not compared.
ExpectedIfBusy(r) == method_registry[r.token] # None

\* Does the registration for a reply's token belong to the reply?  Only the command
\* is compared.
Expected(r) == LET n == method_registry[r.token] IN
    /\ n # None
    /\ SameCommand(command[n], command[r.op])

\* Mutant of TakeCallReply. The caller is notified before its callback is called.
TakeCallReplyNotifies == LET r == Head(replies) IN
    /\ phase = "reply" /\ replies # <<>> /\ IsCall(command[r.op])
    /\ replies' = Tail(replies)
    /\ phase' = (IF Expected(r) THEN "notify" ELSE "broadcast")
    /\ inhand' = (IF Expected(r) THEN r ELSE NoReply)
    /\ UNCHANGED <<clientVars, resultVars, method_registry, registry, requests, broadcasts,
                   serverVars, sent, heard, view, traceVars>>

\* Mutant of TakeCallReply. A reply that is dropped clears the registration it has found.
TakeCallReplyClears == LET r == Head(replies) IN
    /\ phase = "reply" /\ replies # <<>> /\ IsCall(command[r.op])
    /\ replies' = Tail(replies)
    /\ IF Expected(r)
       THEN phase' = "callback" /\ inhand' = r /\ UNCHANGED method_registry
       ELSE phase' = "broadcast" /\ inhand' = NoReply
            /\ method_registry' = [method_registry EXCEPT ![r.token] = None]
    /\ UNCHANGED <<clientVars, resultVars, registry, requests, broadcasts, serverVars, sent,
                   heard, view, traceVars>>

\* call_<method>_callback: the reply is dropped, or deserialised for the callback.
TakeCallReply == LET r == Head(replies) IN
    /\ phase = "reply" /\ replies # <<>> /\ IsCall(command[r.op])
    /\ replies' = Tail(replies)
    /\ IF Expected(r)
       THEN phase' = "callback" /\ inhand' = r
       ELSE phase' = "broadcast" /\ inhand' = NoReply
    /\ UNCHANGED <<clientVars, resultVars, method_registry, registry, requests, broadcasts,
                   serverVars, sent, heard, view, traceVars>>

\* A reply that cannot be deserialised: nobody is told, and its token stays taken.
Undeserialised ==
    /\ phase = "callback" /\ Errors
    /\ phase' = "broadcast" /\ inhand' = NoReply
    /\ UNCHANGED <<clientVars, resultVars, method_registry, registry, requests, replies,
                   broadcasts, serverVars, sent, heard, view, traceVars>>

\* The callback that is registered by now, if there is one.
CallBack == LET n == method_registry[inhand.token] IN
    /\ phase = "callback"
    /\ IF n = None THEN UNCHANGED resultVars
       ELSE /\ result' = [result EXCEPT ![n] = inhand.op]
            /\ calls' = [calls EXCEPT ![n] = @ + 1]
    /\ phase' = "notify"
    /\ UNCHANGED <<clientVars, method_registry, registry, requests, replies, broadcasts,
                   inhand, serverVars, sent, heard, view, traceVars>>

\* notify_callback_registry wakes the caller that waits; clear_registry.
Notify == LET n == method_registry[inhand.token] IN
    /\ phase = "notify"
    /\ IF n # None /\ status[n] = "waiting"
       THEN status' = [status EXCEPT ![n] = "ok"]
       ELSE UNCHANGED status
    /\ method_registry' = [method_registry EXCEPT ![inhand.token] = None]
    /\ phase' = "broadcast" /\ inhand' = NoReply
    /\ UNCHANGED <<issued, command, reg, resultVars, registry, requests, replies, broadcasts,
                   serverVars, sent, heard, view, traceVars>>

Told(c, ret) == IF (c.kind = "sub") = (ret >= 0) THEN "in" ELSE "out"

\* Mutant of Unsubscribed. A refused unsubscription counts as one.
UnsubscribedOrNot(r) == command[r.op].kind = "unsub"

Unsubscribed(r) == command[r.op].kind = "unsub" /\ r.ret >= 0

\* call_broadcast_sub_unsub_callback: the application is told how its change went.
TakeSubscriptionReply ==
    LET r == Head(replies)
        n == method_registry[r.token]
        c == command[r.op]
    IN
    /\ phase = "reply" /\ replies # <<>> /\ ~IsCall(c)
    /\ replies' = Tail(replies)
    /\ IF Expected(r)
       THEN /\ result' = [result EXCEPT ![n] = r.op]
            /\ calls' = [calls EXCEPT ![n] = @ + 1]
            /\ method_registry' = [method_registry EXCEPT ![r.token] = None]
            /\ view' = [view EXCEPT ![c.on] = Told(c, r.ret)]
       ELSE UNCHANGED <<resultVars, method_registry, view>>
    /\ IF Expected(r) /\ Unsubscribed(r)
       THEN phase' = "clear" /\ inhand' = r
       ELSE phase' = "broadcast" /\ inhand' = NoReply
    /\ UNCHANGED <<clientVars, registry, requests, broadcasts, serverVars, sent, heard,
                   traceVars>>

\* clear_registry after that callback has returned: it removes whatever is registered for
\* the broadcast by now.
ClearSubscription ==
    /\ phase = "clear"
    /\ registry' = [registry EXCEPT ![command[inhand.op].on] = None]
    /\ phase' = "broadcast" /\ inhand' = NoReply
    /\ UNCHANGED <<clientVars, resultVars, method_registry, requests, replies, broadcasts,
                   serverVars, sent, heard, view, traceVars>>

RouterStep == \/ TakeBroadcast \/ NoBroadcast \/ NoReplyYet
              \/ TakeCallReply \/ Undeserialised \/ CallBack \/ Notify
              \/ TakeSubscriptionReply \/ ClearSubscription

-----------------------------------------------------------------------------
Next ==
    \/ \E n \in Op :
        \/ \E c \in Calls : Call(n, c)
        \/ \E b \in Broadcast : Subscribe(n, b) \/ Unsubscribe(n, b)
        \/ SendSubscribe(n)
        \/ Timeout(n)
    \/ Serve \/ Refuse \/ Restart
    \/ \E b \in Broadcast : SendBroadcast(b)
    \/ RouterStep

\* The router runs.
Fairness == WF_vars(RouterStep)

Spec == Init /\ [][Next]_vars /\ Fairness

-----------------------------------------------------------------------------
RequestMsg == [token : Token, op : Op]
ReplyMsg   == [token : Token, op : Op, ret : {0, -1}]
Status     == {"unused", "registered", "waiting", "expired", "sent", "ok", "timeout", "failed"}

ClientType ==
    /\ issued \in 0..MaxOps /\ command \in [Op -> Command]
    /\ status \in [Op -> Status]
    /\ reg \in [Op -> Token \cup {0}]
    /\ method_registry \in [Token -> {None} \cup Op]

ResultType == result \in [Op -> {None} \cup Op] /\ calls \in [Op -> Nat]

TransportType ==
    /\ requests \in Seq(RequestMsg) /\ replies \in Seq(ReplyMsg)
    /\ broadcasts \in Seq([on : Broadcast, number : 1..MaxMessages])
    /\ phase \in {"broadcast", "reply", "callback", "notify", "clear"}
    /\ inhand \in ReplyMsg \cup {NoReply}

ServerType ==
    /\ subscribers \subseteq Broadcast /\ restarts \in 0..MaxRestarts
    /\ sent \in 0..MaxMessages /\ heard \subseteq 1..MaxMessages
    /\ registry \in [Broadcast -> {None} \cup Op]
    /\ view \in [Broadcast -> {"out", "in", "changing"}]
    /\ shared \subseteq Op /\ hasty \subseteq Broadcast

\* Every variable has its type.
TypeOK == ClientType /\ ResultType /\ TransportType /\ ServerType

\* A callback is only ever given a reply to its own command, however tokens are reused
\* and however late the replies to calls come that were given up: what the callback of one
\* method deserialises and writes is never what the server answered to another.
ReplyFits == \A n \in Op : result[n] # None => SameCommand(command[n], command[result[n]])

\* No operation loses its registration to another one.  A call that waits is registered,
\* an asynchronous call or a subscription until its callback has been called: unless it was
\* sent with a token that a synchronous call still held, which that call clears when it
\* returns.
Registered(n) == \E t \in Token : method_registry[t] = n

RegistrationKept == \A n \in Op \ shared :
    /\ status[n] = "waiting" => Registered(n)
    /\ status[n] = "sent"    => Registered(n) \/ calls[n] = 1

\* No callback is called twice, and a synchronous call that returns success has had
\* its callback called: what it returns has been filled in.
CallbackOnce == \A n \in Op :
    /\ calls[n] <= 1
    /\ status[n] = "ok" => calls[n] = 1

\* What the application was told about a subscription is so on both sides: "in" means
\* that the server sends and the proxy has a callback, "out" that the server does not.
\* Only a client that subscribes again after it was told that it is out, and before the
\* router has cleared the registration of the subscription it gave up, has no callback.
ViewsAgree == \A b \in Broadcast :
    /\ view[b] = "in"  => b \in subscribers /\ (registry[b] # None \/ b \in hasty)
    /\ view[b] = "out" => b \notin subscribers

\* What a restart needs for that: the server gets back from the map what it had written into
\* it.  (Not so for more than two broadcasts, or with a switch statement.)
MapIsFaithful == \A S \in SUBSET Broadcast : Restored(S) = S

\* Once the application has been told that its subscription is complete, the callback it
\* gave to <broadcast>_sub is registered until it calls <broadcast>_unsub again.
LastOn(b) == {n \in 1..issued : /\ command[n].on = b
                                /\ \A m \in (n + 1)..issued : command[m].on # b}

SubscribedIsRegistered == \A b \in Broadcast : \A n \in LastOn(b) :
    command[n].kind = "sub" /\ result[n] = n /\ view[b] = "in" => registry[b] # None

\* A broadcast message on its way to a client that was told it is subscribed is passed
\* to its callback, if it does not unsubscribe in the meantime and has not subscribed as
\* hastily as ViewsAgree describes.
OnItsWay(m, b) == \E i \in DOMAIN broadcasts : broadcasts[i] = [on |-> b, number |-> m]

BroadcastHeard == \A m \in 1..MaxMessages, b \in Broadcast :
    (OnItsWay(m, b) /\ view[b] = "in" /\ b \notin hasty) ~> (m \in heard \/ view[b] # "in")
=============================================================================
