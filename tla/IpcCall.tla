------------------------------- MODULE IpcCall -------------------------------
(***************************************************************************)
(* The call path of the IPC runtime that ipcGen copies beside every        *)
(* generated client and server                                             *)
(* (plugin/com.bst.os.idl/deployment/ipc_gen/ipc.c): application threads   *)
(* in Sync_Call_Package and Async_Call_Package, the one receive thread in  *)
(* recv_thread/IPC_recv, and what they share without a lock: wait_token,   *)
(* g_recv_msg, the semaphore and the two payload buffers in shared memory. *)
(*                                                                         *)
(* A message is identified by the call (1..MaxCalls) or the signal         *)
(* (MaxCalls+1 ..) it belongs to; that number stands for cmd, long_param   *)
(* and the arguments.  A payload buffer holds the number of the message    *)
(* whose payload was last copied into it, 0 when it has been zeroed.       *)
(*                                                                         *)
(* The kernel driver and the remote core are not in the repository; they   *)
(* are modelled from how ipc.c uses them: IPC_IO_MSG_SEND queues the       *)
(* request and hands back a token, IPC_IO_MSG_RECV blocks for the next     *)
(* message, the remote core reads our send buffer when it serves a request *)
(* and writes our receive buffer when it answers or signals.               *)
(***************************************************************************)
EXTENDS Integers, Sequences

CONSTANTS Caller,        \* application threads using the session
          Kinds,         \* subset of {"sync", "async"}: the calls they make
          MaxCalls,      \* bound: calls issued in a behaviour
          TokenCount,    \* tokens the driver hands out
          MaxSignals,    \* bound: broadcasts the server sends
          CallbackKinds, \* subset of {"package", "msg"} the application registers
          PromptServer,  \* TRUE: no deadline passes while the reply is on its way
          LinkErrors     \* TRUE: the ioctl calls may fail

ASSUME ParameterAssumption ==
    /\ Kinds \subseteq {"sync", "async"}
    /\ MaxCalls \in Nat /\ MaxSignals \in Nat
    /\ TokenCount \in Nat \ {0}
    /\ CallbackKinds \subseteq {"package", "msg"}
    /\ PromptServer \in BOOLEAN /\ LinkErrors \in BOOLEAN

Call    == 1..MaxCalls
Signal  == (MaxCalls + 1)..(MaxCalls + MaxSignals)
Body    == 0..(MaxCalls + MaxSignals)   \* contents of g_recv_msg and of a buffer
Token   == 0..(TokenCount - 1)
NoToken == -1

Request == [call : Call, token : Token]
Message == [type : {"reply", "signal"}, token : Token, body : Call \cup Signal]
Package == [type : {"reply", "signal"}, cmd : Body, payload : Body]
Outcome == [kind : {"sync", "async"}, cmd : Body, payload : Body,
            status : {"unused", "pending", "ok", "timeout", "send_failed"}]

VARIABLES
    pc,             \* Caller -> where in Sync_/Async_Call_Package the thread is
    cur,            \* Caller -> the call it is making
    token,          \* Caller -> msg.msg.token as the driver returned it
    issued,         \* calls issued so far
    outcome,        \* Call -> what the call has returned
    wait_token, g_recv_msg, sem,
    send_payload,   \* *send_payload_addr
    recv_payload,   \* *recv_payload_addr
    rpc,            \* where the receive thread is; "off" before it is created
    msg,            \* receive thread: the message IPC_recv got
    need_reply,     \* receive thread: IPC_recv's *need_reply
    pack,           \* receive thread: recv_pack_msg on its stack
    callbacks,      \* the callbacks registered so far
    delivered,      \* what the callbacks have been called with
    requests, rxq, signals,              \* driver and remote core
    arms, wakes     \* history: assignments of wait_token, returns of sem_timedwait

callerVars == <<pc, cur, token, issued, outcome>>
recvVars   == <<rpc, msg, need_reply, pack, callbacks, delivered>>
remoteVars == <<requests, rxq, signals>>
vars == <<callerVars, wait_token, g_recv_msg, sem, send_payload, recv_payload,
          recvVars, remoteVars, arms, wakes>>

NoMessage == [type |-> "signal", token |-> 0, body |-> 0]
NoPackage == [type |-> "signal", cmd |-> 0, payload |-> 0]

Init ==
    /\ pc = [c \in Caller |-> "idle"]
    /\ cur = [c \in Caller |-> 0]
    /\ token = [c \in Caller |-> 0]
    /\ issued = 0
    /\ outcome = [n \in Call |-> [kind |-> "sync", cmd |-> 0, payload |-> 0,
                                  status |-> "unused"]]
    /\ wait_token = NoToken
    /\ g_recv_msg = 0
    /\ sem = 0
    /\ send_payload = 0 /\ recv_payload = 0
    /\ rpc = "off"
    /\ msg = NoMessage
    /\ need_reply = FALSE
    /\ pack = NoPackage
    /\ callbacks = {} /\ delivered = {}
    /\ requests = <<>> /\ rxq = <<>>
    /\ signals = 0
    /\ arms = 0 /\ wakes = 0

-----------------------------------------------------------------------------
(* The calling threads.                                                    *)

Finish(c, status) ==
    /\ pc' = [pc EXCEPT ![c] = "idle"]
    /\ outcome' = [outcome EXCEPT ![cur[c]].status = status]

\* Entry of either call up to and including the copy of the arguments into the
\* shared send buffer.  (The early returns before it, a session or timeout out
\* of range or an oversized payload, touch no shared state.)
CopyRequest(c) == \E k \in Kinds :
    /\ pc[c] = "idle" /\ issued < MaxCalls
    /\ issued' = issued + 1
    /\ cur' = [cur EXCEPT ![c] = issued + 1]
    /\ outcome' = [outcome EXCEPT ![issued + 1].kind = k,
                                  ![issued + 1].status = "pending"]
    /\ send_payload' = issued + 1
    /\ pc' = [pc EXCEPT ![c] = "send"]
    /\ UNCHANGED <<token, wait_token, g_recv_msg, sem, recv_payload, recvVars,
                   remoteVars, arms, wakes>>

\* Tokens the driver has not got back yet.
TokensInFlight ==
    {requests[i].token : i \in DOMAIN requests} \cup {rxq[i].token : i \in DOMAIN rxq}

FreeToken == Token \ TokensInFlight

\* Mutant of Send: the driver has one token more than there are.
SendOneTooMany(c) ==
    /\ pc[c] = "send"
    /\ \E t \in (0..TokenCount) \ TokensInFlight :
          /\ token' = [token EXCEPT ![c] = t]
          /\ requests' = Append(requests, [call |-> cur[c], token |-> t])
    /\ IF outcome[cur[c]].kind = "sync"
          THEN pc' = [pc EXCEPT ![c] = "arm"] /\ UNCHANGED outcome
          ELSE Finish(c, "ok")
    /\ UNCHANGED <<cur, issued, wait_token, g_recv_msg, sem, send_payload,
                   recv_payload, recvVars, rxq, signals, arms, wakes>>

\* ioctl(IPC_IO_MSG_SEND) succeeds: the driver, which other sessions use as well, gives any
\* token that is not in flight.  An asynchronous call returns 0 here.
Send(c) ==
    /\ pc[c] = "send"
    /\ \E t \in FreeToken :
          /\ token' = [token EXCEPT ![c] = t]
          /\ requests' = Append(requests, [call |-> cur[c], token |-> t])
    /\ IF outcome[cur[c]].kind = "sync"
          THEN pc' = [pc EXCEPT ![c] = "arm"] /\ UNCHANGED outcome
          ELSE Finish(c, "ok")
    /\ UNCHANGED <<cur, issued, wait_token, g_recv_msg, sem, send_payload,
                   recv_payload, recvVars, rxq, signals, arms, wakes>>

\* ioctl(IPC_IO_MSG_SEND) fails: -SYNC_CALL_SEND_FAILED / -ASYNC_CALL_SEND_FAILED.
SendFails(c) ==
    /\ pc[c] = "send" /\ (LinkErrors \/ FreeToken = {})
    /\ Finish(c, "send_failed")
    /\ UNCHANGED <<cur, token, issued, wait_token, g_recv_msg, sem, send_payload,
                   recv_payload, recvVars, remoteVars, arms, wakes>>

\* wait_token = msg.msg.token, after the ioctl has returned.
Arm(c) ==
    /\ pc[c] = "arm"
    /\ wait_token' = token[c]
    /\ arms' = arms + 1
    /\ pc' = [pc EXCEPT ![c] = "wait"]
    /\ UNCHANGED <<cur, token, issued, outcome, g_recv_msg, sem, send_payload,
                   recv_payload, recvVars, remoteVars, wakes>>

\* sem_timedwait returns 0.
Wake(c) ==
    /\ pc[c] = "wait" /\ sem > 0
    /\ sem' = sem - 1
    /\ wakes' = wakes + 1
    /\ pc' = [pc EXCEPT ![c] = "header"]
    /\ UNCHANGED <<cur, token, issued, outcome, wait_token, g_recv_msg, send_payload,
                   recv_payload, recvVars, remoteVars, arms>>

Handling == {"match", "reset", "dispatch", "copy", "clear", "callback"}

\* The reply to call n is still at the server, in the driver or being handled.
OnItsWay(n) ==
    \/ \E i \in DOMAIN requests : requests[i].call = n
    \/ \E i \in DOMAIN rxq : rxq[i].body = n
    \/ rpc \in Handling /\ msg.body = n

\* Mutant of Expire: the wait has no deadline of its own and ends only when the link is idle.
ExpireOnlyWhenLost(c) ==
    /\ pc[c] = "wait" /\ sem = 0 /\ rpc # "exited" /\ ~OnItsWay(cur[c])
    /\ Finish(c, "timeout")
    /\ UNCHANGED <<cur, token, issued, wait_token, g_recv_msg, sem, send_payload,
                   recv_payload, recvVars, remoteVars, arms, wakes>>

\* sem_timedwait fails, which it does only while it would block: -SYNC_CALL_TIMEOUT.
\* wait_token keeps the token of the abandoned call.
Expire(c) ==
    /\ pc[c] = "wait" /\ sem = 0
    /\ PromptServer => ~OnItsWay(cur[c])
    /\ Finish(c, "timeout")
    /\ UNCHANGED <<cur, token, issued, wait_token, g_recv_msg, sem, send_payload,
                   recv_payload, recvVars, remoteVars, arms, wakes>>

\* recv_msg->cmd and long_param from g_recv_msg, then the payload from shared memory.
CopyHeader(c) ==
    /\ pc[c] = "header"
    /\ outcome' = [outcome EXCEPT ![cur[c]].cmd = g_recv_msg]
    /\ pc' = [pc EXCEPT ![c] = "payload"]
    /\ UNCHANGED <<cur, token, issued, wait_token, g_recv_msg, sem, send_payload,
                   recv_payload, recvVars, remoteVars, arms, wakes>>

CopyPayload(c) ==
    /\ pc[c] = "payload"
    /\ pc' = [pc EXCEPT ![c] = "idle"]
    /\ outcome' = [outcome EXCEPT ![cur[c]].payload = recv_payload,
                                  ![cur[c]].status = "ok"]
    /\ UNCHANGED <<cur, token, issued, wait_token, g_recv_msg, sem, send_payload,
                   recv_payload, recvVars, remoteVars, arms, wakes>>

CallerStep(c) ==
    \/ CopyRequest(c) \/ Send(c) \/ SendFails(c) \/ Arm(c)
    \/ Wake(c) \/ Expire(c) \/ CopyHeader(c) \/ CopyPayload(c)

-----------------------------------------------------------------------------
(* The receive thread.                                                     *)

\* Register_Callback_[Package_]Process: the first registration creates the thread
\* (thread_start_flag), and only then is the callback pointer assigned.
StartThread ==
    /\ rpc = "off" /\ CallbackKinds # {}
    /\ rpc' = "recv"
    /\ UNCHANGED <<callerVars, wait_token, g_recv_msg, sem, send_payload, recv_payload,
                   msg, need_reply, pack, callbacks, delivered, remoteVars, arms, wakes>>

RegisterCallback == \E k \in CallbackKinds \ callbacks :
    /\ rpc # "off"
    /\ callbacks' = callbacks \cup {k}
    /\ UNCHANGED <<callerVars, wait_token, g_recv_msg, sem, send_payload, recv_payload,
                   rpc, msg, need_reply, pack, delivered, remoteVars, arms, wakes>>

\* Mutant of Receive: the header is not stored before the token is examined.
ReceivePostsFirst ==
    /\ rpc = "recv" /\ rxq # <<>>
    /\ msg' = Head(rxq)
    /\ rxq' = Tail(rxq)
    /\ g_recv_msg' = msg.body
    /\ rpc' = "match"
    /\ UNCHANGED <<callerVars, wait_token, sem, send_payload, recv_payload, need_reply,
                   pack, callbacks, delivered, requests, signals, arms, wakes>>

\* IPC_recv: ioctl(IPC_IO_MSG_RECV) returns a message, whose header goes straight
\* into the global g_recv_msg.
Receive ==
    /\ rpc = "recv" /\ rxq # <<>>
    /\ msg' = Head(rxq)
    /\ rxq' = Tail(rxq)
    /\ g_recv_msg' = Head(rxq).body
    /\ rpc' = "match"
    /\ UNCHANGED <<callerVars, wait_token, sem, send_payload, recv_payload, need_reply,
                   pack, callbacks, delivered, requests, signals, arms, wakes>>

\* IPC_recv fails: the thread exits, and thread_start_flag keeps another from starting.
ReceiveFails ==
    /\ LinkErrors /\ rpc = "recv"
    /\ rpc' = "exited"
    /\ UNCHANGED <<callerVars, wait_token, g_recv_msg, sem, send_payload, recv_payload,
                   msg, need_reply, pack, callbacks, delivered, remoteVars, arms, wakes>>

\* The comparison of wait_token with the token of whatever message arrived ...
Match ==
    /\ rpc = "match"
    /\ need_reply' = (wait_token = msg.token)
    /\ rpc' = IF wait_token = msg.token THEN "reset" ELSE "dispatch"
    /\ UNCHANGED <<callerVars, wait_token, g_recv_msg, sem, send_payload, recv_payload,
                   msg, pack, callbacks, delivered, remoteVars, arms, wakes>>

\* Mutant of ResetToken: wait_token keeps the token of the call that was answered.
ResetTokenForgotten ==
    /\ rpc = "reset"
    /\ rpc' = "dispatch"
    /\ UNCHANGED <<callerVars, wait_token, g_recv_msg, sem, send_payload, recv_payload, msg,
                   need_reply, pack, callbacks, delivered, remoteVars, arms, wakes>>

\* ... and wait_token = -1: two accesses of a plain int that Arm may fall between.
ResetToken ==
    /\ rpc = "reset"
    /\ wait_token' = NoToken
    /\ rpc' = "dispatch"
    /\ UNCHANGED <<callerVars, g_recv_msg, sem, send_payload, recv_payload, msg,
                   need_reply, pack, callbacks, delivered, remoteVars, arms, wakes>>

\* Mutant of ReleaseCaller: every reply posts the semaphore.
ReleaseOnAnyReply ==
    /\ rpc = "dispatch" /\ msg.type = "reply"
    /\ sem' = sem + 1
    /\ rpc' = "recv"
    /\ UNCHANGED <<callerVars, wait_token, g_recv_msg, send_payload, recv_payload, msg,
                   need_reply, pack, callbacks, delivered, remoteVars, arms, wakes>>

\* sem_post for the reply the caller is taken to wait for.
ReleaseCaller ==
    /\ rpc = "dispatch" /\ need_reply /\ msg.type = "reply"
    /\ sem' = sem + 1
    /\ rpc' = "recv"
    /\ UNCHANGED <<callerVars, wait_token, g_recv_msg, send_payload, recv_payload, msg,
                   need_reply, pack, callbacks, delivered, remoteVars, arms, wakes>>

\* recv_msg_package_cb is set: take header and payload ...
TakePackage ==
    /\ rpc = "dispatch" /\ ~(need_reply /\ msg.type = "reply") /\ "package" \in callbacks
    /\ pack' = [type |-> msg.type, cmd |-> g_recv_msg, payload |-> recv_payload]
    /\ rpc' = "clear"
    /\ UNCHANGED <<callerVars, wait_token, g_recv_msg, sem, send_payload, recv_payload,
                   msg, need_reply, callbacks, delivered, remoteVars, arms, wakes>>

\* ... zero the shared buffer, and call back.
ClearPayload ==
    /\ rpc = "clear"
    /\ recv_payload' = 0
    /\ rpc' = "callback"
    /\ UNCHANGED <<callerVars, wait_token, g_recv_msg, sem, send_payload, msg, need_reply,
                   pack, callbacks, delivered, remoteVars, arms, wakes>>

CallBack ==
    /\ rpc = "callback"
    /\ delivered' = delivered \cup {pack}
    /\ rpc' = "recv"
    /\ UNCHANGED <<callerVars, wait_token, g_recv_msg, sem, send_payload, recv_payload,
                   msg, need_reply, pack, callbacks, remoteVars, arms, wakes>>

\* Only recv_msg_cb is set: it gets the header.
CallBackHeader ==
    /\ rpc = "dispatch" /\ ~(need_reply /\ msg.type = "reply") /\ callbacks = {"msg"}
    /\ delivered' = delivered \cup {[type |-> msg.type, cmd |-> g_recv_msg, payload |-> 0]}
    /\ rpc' = "recv"
    /\ UNCHANGED <<callerVars, wait_token, g_recv_msg, sem, send_payload, recv_payload,
                   msg, need_reply, pack, callbacks, remoteVars, arms, wakes>>

\* No callback yet: the message is dropped.
Drop ==
    /\ rpc = "dispatch" /\ ~(need_reply /\ msg.type = "reply") /\ callbacks = {}
    /\ rpc' = "recv"
    /\ UNCHANGED <<callerVars, wait_token, g_recv_msg, sem, send_payload, recv_payload,
                   msg, need_reply, pack, callbacks, delivered, remoteVars, arms, wakes>>

RecvStep ==
    \/ Receive \/ Match \/ ResetToken \/ ReleaseCaller
    \/ TakePackage \/ ClearPayload \/ CallBack \/ CallBackHeader \/ Drop

-----------------------------------------------------------------------------
(* The remote core.                                                        *)

\* It serves the oldest request with the arguments then in our send buffer and
\* answers: the payload of the reply is written before the reply is queued.
Reply ==
    /\ requests # <<>>
    /\ requests' = Tail(requests)
    /\ recv_payload' = send_payload
    /\ rxq' = Append(rxq, [type |-> "reply", token |-> Head(requests).token,
                           body |-> Head(requests).call])
    /\ UNCHANGED <<callerVars, wait_token, g_recv_msg, sem, send_payload, recvVars,
                   signals, arms, wakes>>

\* It never answers (an unknown cmd, a method that has crashed, a lost message).
Silence ==
    /\ requests # <<>>
    /\ requests' = Tail(requests)
    /\ UNCHANGED <<callerVars, wait_token, g_recv_msg, sem, send_payload, recv_payload,
                   recvVars, rxq, signals, arms, wakes>>

\* A broadcast: generated servers send it with token 0.
Broadcast ==
    /\ signals < MaxSignals
    /\ signals' = signals + 1
    /\ recv_payload' = MaxCalls + signals + 1
    /\ rxq' = Append(rxq, [type |-> "signal", token |-> 0, body |-> MaxCalls + signals + 1])
    /\ UNCHANGED <<callerVars, wait_token, g_recv_msg, sem, send_payload, recvVars,
                   requests, arms, wakes>>

RemoteStep == Reply \/ Silence \/ Broadcast

Next ==
    \/ \E c \in Caller : CallerStep(c)
    \/ StartThread \/ RegisterCallback \/ RecvStep \/ ReceiveFails
    \/ RemoteStep

Spec == Init /\ [][Next]_vars

\* A thread that has entered a call keeps running, the deadline of sem_timedwait
\* passes, the receive thread is scheduled, and the remote core disposes of its
\* requests one way or another.  Nothing makes an application issue a call,
\* register a callback, or the server broadcast.
Fairness ==
    /\ \A c \in Caller : WF_vars(CallerStep(c) /\ pc[c] # "idle")
    /\ WF_vars(RecvStep)
    /\ WF_vars(Reply \/ Silence)

FairSpec == Spec /\ Fairness

-----------------------------------------------------------------------------
(* Properties.                                                             *)

\* Every variable holds what its C counterpart can hold.
TypeOK ==
    /\ pc \in [Caller -> {"idle", "send", "arm", "wait", "header", "payload"}]
    /\ cur \in [Caller -> 0..MaxCalls]
    /\ \A c \in Caller : pc[c] # "idle" => cur[c] \in Call
    /\ token \in [Caller -> Token]
    /\ issued \in 0..MaxCalls
    /\ outcome \in [Call -> Outcome]
    /\ wait_token \in Token \cup {NoToken}
    /\ {g_recv_msg, send_payload, recv_payload} \subseteq Body
    /\ {sem, arms, wakes} \subseteq Nat
    /\ rpc \in {"off", "recv", "exited"} \cup Handling
    /\ msg \in [type : {"reply", "signal"}, token : Token, body : Body]
    /\ need_reply \in BOOLEAN
    /\ pack \in Package /\ delivered \subseteq Package
    /\ callbacks \subseteq CallbackKinds
    /\ requests \in Seq(Request) /\ rxq \in Seq(Message)
    /\ signals \in 0..MaxSignals

\* The semaphore never holds a wake-up that no call has armed for: whatever the
\* interleaving of callers, receive thread and token reuse, a value assigned to
\* wait_token is consumed by at most one reply, so sem_post runs at most once per
\* Sync_Call_Package that got as far as waiting.
WakeupsArmed == sem + wakes <= arms

\* A thread that enters a call leaves it, though its reply may have been lost to
\* another thread, to a callback or to a dead link: the deadline is what guarantees it.
CallReturns == \A c \in Caller : pc[c] # "idle" ~> pc[c] = "idle"

\* The reply to call n carries the token in wait_token, while a synchronous call waits or
\* after one has given up.
TakenForAnother(n) ==
    /\ \/ \E i \in DOMAIN rxq : rxq[i].body = n /\ rxq[i].token = wait_token
       \/ rpc = "match" /\ msg.body = n /\ msg.token = wait_token
    /\ \E m \in Call : outcome[m].kind = "sync" /\ outcome[m].status \in {"pending", "timeout"}

\* The reply to an asynchronous call that arrives once a callback is registered is handed
\* to that callback, unless the receive thread exits.  Tokens are used again, and a reply
\* whose token is in wait_token is lost; but only a synchronous call that is waiting, or
\* that has timed out, can have left it there: synchronous calls that were answered never
\* cost the reply to an asynchronous one.
AsyncReplyReachesCallback ==
    \A n \in Call :
        (/\ outcome[n].kind = "async" /\ callbacks # {}
         /\ \E i \in DOMAIN rxq : rxq[i].body = n)
        ~> \/ \E p \in delivered : p.type = "reply" /\ p.cmd = n
           \/ TakenForAnother(n)
           \/ rpc = "exited"

\* Sync_Call_Package waits for the server's reply: when it returns 0, header and
\* payload are those of the reply to its own request.
OwnReply ==
    \A n \in Call : outcome[n].kind = "sync" /\ outcome[n].status = "ok"
        => outcome[n].cmd = n /\ outcome[n].payload = n

\* The reply to a synchronous call releases its caller; only asynchronous replies,
\* signals and methods go to the callback.
SyncReplyReleasesCaller ==
    \A p \in delivered : p.type = "reply" => outcome[p.cmd].kind # "sync"
=============================================================================
