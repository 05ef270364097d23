---------------------------- MODULE IpcCallProofs ----------------------------
(* Proofs about IpcCall that hold for every number of threads, calls, tokens *)
(* and signals, with or without link errors and late replies.                *)
EXTENDS MCIpcCall, TLAPS

\* A wake-up the receive thread may still produce: the token that is armed, unless
\* it is about to be reset, ...
ArmedToken == IF wait_token # NoToken /\ rpc # "reset" THEN 1 ELSE 0

\* ... and the token it has taken but not yet posted for.
TakenToken == IF rpc = "reset" \/ (rpc = "dispatch" /\ need_reply) THEN 1 ELSE 0

\* Every wake-up, past, present and possible, has an assignment of wait_token of its
\* own.  WakeupsArmed alone is not inductive: it does not say that matching a token
\* uses it up before the semaphore is posted.
WakeupInvariant == sem + wakes + ArmedToken + TakenToken <= arms

Inductive == TypeOK /\ WakeupInvariant

-----------------------------------------------------------------------------
(* Type correctness, one lemma per actor.                                  *)

\* What a caller that has entered a call assigns stays in range.
LEMMA CallerType ==
    ASSUME TypeOK, NEW c \in Caller, CallerStep(c)
    PROVE  TypeOK'
<1>0. cur[c] \in 0..MaxCalls /\ MaxCalls \in Nat /\ issued \in Nat
  BY ParameterAssumption DEF TypeOK, Token
<1>1. CASE CopyRequest(c)
  <2>1. PICK k \in Kinds :
            /\ pc[c] = "idle" /\ issued < MaxCalls
            /\ issued' = issued + 1
            /\ cur' = [cur EXCEPT ![c] = issued + 1]
            /\ outcome' = [outcome EXCEPT ![issued + 1].kind = k,
                                          ![issued + 1].status = "pending"]
            /\ send_payload' = issued + 1
            /\ pc' = [pc EXCEPT ![c] = "send"]
            /\ UNCHANGED <<token, wait_token, g_recv_msg, sem, recv_payload, recvVars,
                           remoteVars, arms, wakes>>
    BY <1>1 DEF CopyRequest
  <2>2. issued + 1 \in Call /\ issued + 1 \in Body /\ k \in {"sync", "async"}
    <3>1. issued < MaxCalls
      BY <2>1
    <3>2. issued + 1 \in Call /\ issued + 1 \in Body
      BY <1>0, <3>1, ParameterAssumption DEF Call, Body
    <3> QED
      BY <3>2, ParameterAssumption
  <2>3. outcome' \in [Call -> Outcome]
    BY <2>1, <2>2 DEF TypeOK, Outcome
  <2> QED
    BY <1>0, <2>1, <2>2, <2>3 DEF TypeOK, Call, recvVars, remoteVars
<1>2. CASE Send(c)
  <2>1. cur[c] \in Call
    BY <1>2 DEF TypeOK, Send
  <2>2. \A t \in FreeToken : t \in Token
    BY DEF FreeToken
  <2>3. requests' \in Seq(Request) /\ token' \in [Caller -> Token]
    <3>1. PICK t \in FreeToken : /\ requests' = Append(requests, [call |-> cur[c], token |-> t])
                                 /\ token' = [token EXCEPT ![c] = t]
      BY <1>2 DEF Send
    <3>2. requests \in Seq(Request) /\ [call |-> cur[c], token |-> t] \in Request
      BY <2>1, <2>2 DEF TypeOK, Request
    <3> QED
      BY <2>2, <3>1, <3>2 DEF TypeOK
  <2>4. outcome' \in [Call -> Outcome]
    <3>1. CASE outcome' = outcome
      BY <3>1 DEF TypeOK
    <3>2. CASE Finish(c, "ok")
      BY <3>2, <2>1 DEF TypeOK, Finish, Outcome
    <3> QED
      BY <1>2, <3>1, <3>2 DEF Send
  <2>5. pc' \in [Caller -> {"idle", "send", "arm", "wait", "header", "payload"}]
    BY <1>2 DEF TypeOK, Send, Finish
  <2>6. \A d \in Caller : pc'[d] # "idle" => cur'[d] \in Call
    BY <1>2, <2>1 DEF TypeOK, Send, Finish
  <2> QED
    BY <1>2, <2>2, <2>3, <2>4, <2>5, <2>6 DEF TypeOK, Send, recvVars
<1>3. CASE SendFails(c)
  BY <1>3 DEF TypeOK, SendFails, Finish, Outcome, recvVars, remoteVars
<1>4. CASE Arm(c)
  BY <1>4 DEF TypeOK, Arm, recvVars, remoteVars
<1>5. CASE Wake(c)
  BY <1>5 DEF TypeOK, Wake, recvVars, remoteVars
<1>6. CASE Expire(c)
  BY <1>6 DEF TypeOK, Expire, Finish, Outcome, recvVars, remoteVars
<1>7. CASE CopyHeader(c)
  BY <1>7 DEF TypeOK, CopyHeader, Outcome, recvVars, remoteVars
<1>8. CASE CopyPayload(c)
  BY <1>8 DEF TypeOK, CopyPayload, Outcome, recvVars, remoteVars
<1> QED
  BY <1>1, <1>2, <1>3, <1>4, <1>5, <1>6, <1>7, <1>8 DEF CallerStep

\* So does what the receive thread assigns.
LEMMA RecvType ==
    ASSUME TypeOK, StartThread \/ RegisterCallback \/ RecvStep \/ ReceiveFails
    PROVE  TypeOK'
<1>1. CASE StartThread
  BY <1>1 DEF TypeOK, StartThread, callerVars, remoteVars, Handling
<1>2. CASE RegisterCallback
  BY <1>2 DEF TypeOK, RegisterCallback, callerVars, remoteVars
<1>3. CASE Receive
  <2>1. Head(rxq) \in Message /\ Tail(rxq) \in Seq(Message)
    BY <1>3 DEF TypeOK, Receive
  <2>2. Head(rxq).body \in Body
    BY <2>1, ParameterAssumption DEF Message, Body, Call, Signal
  <2>3. Head(rxq) \in [type : {"reply", "signal"}, token : Token, body : Body]
    BY <2>1, <2>2 DEF Message
  <2> QED
    BY <1>3, <2>1, <2>2, <2>3 DEF TypeOK, Receive, callerVars, Handling
<1>4. CASE ReceiveFails
  BY <1>4 DEF TypeOK, ReceiveFails, callerVars, remoteVars
<1>5. CASE Match
  BY <1>5 DEF TypeOK, Match, callerVars, remoteVars, Handling
<1>6. CASE ResetToken
  BY <1>6 DEF TypeOK, ResetToken, callerVars, remoteVars, Handling
<1>7. CASE ReleaseCaller
  BY <1>7 DEF TypeOK, ReleaseCaller, callerVars, remoteVars
<1>8. CASE TakePackage
  BY <1>8 DEF TypeOK, TakePackage, Package, callerVars, remoteVars, Handling
<1>9. CASE ClearPayload
  BY <1>9, ParameterAssumption DEF TypeOK, ClearPayload, Body, callerVars, remoteVars, Handling
<1>10. CASE CallBack
  BY <1>10 DEF TypeOK, CallBack, callerVars, remoteVars
<1>11. CASE CallBackHeader
  <2>1. [type |-> msg.type, cmd |-> g_recv_msg, payload |-> 0] \in Package
    BY ParameterAssumption DEF TypeOK, Package, Body
  <2> QED
    BY <1>11, <2>1 DEF TypeOK, CallBackHeader, callerVars, remoteVars
<1>12. CASE Drop
  BY <1>12 DEF TypeOK, Drop, callerVars, remoteVars
<1> QED
  BY <1>1, <1>2, <1>3, <1>4, <1>5, <1>6, <1>7, <1>8, <1>9, <1>10, <1>11, <1>12 DEF RecvStep

\* And what the driver and the remote core send.
LEMMA RemoteType ==
    ASSUME TypeOK, RemoteStep
    PROVE  TypeOK'
<1>1. CASE Reply
  <2>1. Head(requests) \in Request /\ Tail(requests) \in Seq(Request)
    BY <1>1 DEF TypeOK, Reply
  <2>2. rxq' \in Seq(Message)
    BY <1>1, <2>1 DEF TypeOK, Reply, Request, Message
  <2> QED
    BY <1>1, <2>1, <2>2 DEF TypeOK, Reply, callerVars, recvVars
<1>2. CASE Silence
  BY <1>2 DEF TypeOK, Silence, callerVars, recvVars
<1>3. CASE Broadcast
  <2>1. MaxCalls + signals + 1 \in Signal /\ MaxCalls + signals + 1 \in Body /\ 0 \in Token
    BY <1>3, ParameterAssumption DEF TypeOK, Broadcast, Signal, Body, Token
  <2>2. rxq' \in Seq(Message)
    BY <1>3, <2>1 DEF TypeOK, Broadcast, Message
  <2>3. signals' \in 0..MaxSignals
    BY <1>3, ParameterAssumption DEF TypeOK, Broadcast
  <2> QED
    BY <1>3, <2>1, <2>2, <2>3 DEF TypeOK, Broadcast, callerVars, recvVars
<1> QED
  BY <1>1, <1>2, <1>3 DEF RemoteStep

LEMMA InitType == Init => TypeOK
<1> SUFFICES ASSUME Init PROVE TypeOK
  OBVIOUS
<1>1. 0 \in Token /\ 0 \in Body
  BY ParameterAssumption DEF Token, Body
<1>2. outcome \in [Call -> Outcome]
  BY <1>1 DEF Init, Outcome
<1>3. msg \in [type : {"reply", "signal"}, token : Token, body : Body] /\ pack \in Package
  BY <1>1 DEF Init, NoMessage, NoPackage, Package
<1>4. requests \in Seq(Request) /\ rxq \in Seq(Message)
  BY DEF Init
<1>5. /\ pc \in [Caller -> {"idle", "send", "arm", "wait", "header", "payload"}]
      /\ cur \in [Caller -> 0..MaxCalls] /\ token \in [Caller -> Token]
      /\ \A c \in Caller : pc[c] # "idle" => cur[c] \in Call
      /\ issued \in 0..MaxCalls /\ signals \in 0..MaxSignals
  BY <1>1, ParameterAssumption DEF Init
<1>6. /\ wait_token \in Token \cup {NoToken}
      /\ {g_recv_msg, send_payload, recv_payload} \subseteq Body
      /\ {sem, arms, wakes} \subseteq Nat
  BY <1>1 DEF Init
<1>7. /\ need_reply \in BOOLEAN /\ rpc \in {"off", "recv", "exited"} \cup Handling
      /\ callbacks \subseteq CallbackKinds /\ delivered \subseteq Package
  BY DEF Init
<1> QED
  BY <1>2, <1>3, <1>4, <1>5, <1>6, <1>7 DEF TypeOK

\* Every variable keeps its type, whatever the interleaving.
THEOREM TypeCorrect == Spec => []TypeOK
<1>1. TypeOK /\ [Next]_vars => TypeOK'
  <2> SUFFICES ASSUME TypeOK, [Next]_vars PROVE TypeOK'
    OBVIOUS
  <2>1. CASE \E c \in Caller : CallerStep(c)
    BY <2>1, CallerType
  <2>2. CASE StartThread \/ RegisterCallback \/ RecvStep \/ ReceiveFails
    BY <2>2, RecvType
  <2>3. CASE RemoteStep
    BY <2>3, RemoteType
  <2>4. CASE UNCHANGED vars
    BY <2>4 DEF TypeOK, vars, callerVars, recvVars, remoteVars
  <2> QED
    BY <2>1, <2>2, <2>3, <2>4 DEF Next
<1> QED
  BY InitType, <1>1, PTL DEF Spec

-----------------------------------------------------------------------------
(* No wake-up without a call that armed for it.                            *)

\* Only Arm and Wake touch the balance on the callers' side: arming pays for the
\* armed token, waking moves one unit from the semaphore to the history.
LEMMA CallerWakeups ==
    ASSUME Inductive, NEW c \in Caller, CallerStep(c)
    PROVE  WakeupInvariant'
<1>0. {sem, arms, wakes} \subseteq Nat
  BY DEF Inductive, TypeOK
<1>1. CASE Arm(c)
  BY <1>0, <1>1 DEF Arm, Inductive, WakeupInvariant, ArmedToken, TakenToken, recvVars
<1>2. CASE Wake(c)
  BY <1>0, <1>2 DEF Wake, Inductive, WakeupInvariant, ArmedToken, TakenToken, recvVars
<1>3. CASE CopyRequest(c) \/ Send(c) \/ SendFails(c) \/ Expire(c) \/ CopyHeader(c) \/ CopyPayload(c)
  <2>1. UNCHANGED <<sem, wakes, arms, wait_token, rpc, need_reply>>
    BY <1>3 DEF CopyRequest, Send, SendFails, Expire, CopyHeader, CopyPayload, recvVars
  <2> QED
    BY <2>1 DEF Inductive, WakeupInvariant, ArmedToken, TakenToken
<1> QED
  BY <1>1, <1>2, <1>3 DEF CallerStep

\* The receive thread only moves units: Match from the armed to the taken token,
\* ReleaseCaller from the taken token to the semaphore; the other paths drop them.
LEMMA RecvWakeups ==
    ASSUME Inductive, StartThread \/ RegisterCallback \/ RecvStep \/ ReceiveFails
    PROVE  WakeupInvariant'
<1>0. {sem, arms, wakes} \subseteq Nat /\ sem + wakes + ArmedToken + TakenToken <= arms
  BY DEF Inductive, TypeOK, WakeupInvariant
<1>1. CASE Match
  <2>1. NoToken \notin Token /\ msg.token \in Token
    BY ParameterAssumption DEF Inductive, TypeOK, Token, NoToken
  <2>2. CASE wait_token = msg.token
    <3>1. ArmedToken = 1 /\ TakenToken = 0
      BY <1>1, <2>1, <2>2 DEF Match, ArmedToken, TakenToken
    <3>2. rpc' = "reset"
      BY <1>1, <2>2 DEF Match
    <3>3. ArmedToken' = 0 /\ TakenToken' = 1
      BY <3>2 DEF ArmedToken, TakenToken
    <3> QED
      BY <1>0, <1>1, <3>1, <3>3 DEF Match, WakeupInvariant
  <2>3. CASE wait_token # msg.token
    <3>1. rpc = "match" /\ rpc' = "dispatch" /\ ~need_reply' /\ wait_token' = wait_token
      BY <1>1, <2>3 DEF Match
    <3>2. ArmedToken' = ArmedToken /\ TakenToken' = TakenToken
      BY <3>1 DEF ArmedToken, TakenToken
    <3> QED
      BY <1>0, <1>1, <3>2 DEF Match, WakeupInvariant
  <2> QED
    BY <2>2, <2>3
<1>2. CASE ResetToken
  BY <1>0, <1>2 DEF ResetToken, WakeupInvariant, ArmedToken, TakenToken
<1>3. CASE ReleaseCaller
  BY <1>0, <1>3 DEF ReleaseCaller, WakeupInvariant, ArmedToken, TakenToken
<1>4. CASE \/ StartThread \/ RegisterCallback \/ ReceiveFails \/ Receive \/ TakePackage
           \/ ClearPayload \/ CallBack \/ CallBackHeader \/ Drop
  <2>1. /\ UNCHANGED <<sem, wakes, arms, wait_token>>
        /\ \/ rpc # "reset" /\ rpc' \notin {"reset", "dispatch"}
           \/ UNCHANGED <<rpc, need_reply>>
    BY <1>4 DEF StartThread, RegisterCallback, ReceiveFails, Receive, TakePackage,
                ClearPayload, CallBack, CallBackHeader, Drop
  <2> QED
    BY <1>0, <2>1 DEF WakeupInvariant, ArmedToken, TakenToken
<1> QED
  BY <1>1, <1>2, <1>3, <1>4 DEF RecvStep

\* The balance holds in every reachable state ...
THEOREM WakeupsBalance == Spec => []WakeupInvariant
<1>1. Init => WakeupInvariant
  BY DEF Init, WakeupInvariant, ArmedToken, TakenToken
<1>2. TypeOK /\ WakeupInvariant /\ [Next]_vars => WakeupInvariant'
  <2> SUFFICES ASSUME TypeOK, WakeupInvariant, [Next]_vars PROVE WakeupInvariant'
    OBVIOUS
  <2>1. Inductive
    BY DEF Inductive
  <2>2. CASE \E c \in Caller : CallerStep(c)
    BY <2>1, <2>2, CallerWakeups
  <2>3. CASE StartThread \/ RegisterCallback \/ RecvStep \/ ReceiveFails
    BY <2>1, <2>3, RecvWakeups
  <2>4. CASE RemoteStep \/ UNCHANGED vars
    <3>1. UNCHANGED <<sem, wakes, arms, wait_token, rpc, need_reply>>
      BY <2>4 DEF RemoteStep, Reply, Silence, Broadcast, vars, recvVars
    <3> QED
      BY <3>1 DEF WakeupInvariant, ArmedToken, TakenToken
  <2> QED
    BY <2>2, <2>3, <2>4 DEF Next
<1> QED
  BY TypeCorrect, <1>1, <1>2, PTL DEF Spec

\* ... so a value assigned to wait_token wakes at most one caller, for every number
\* of threads and calls, however tokens are reused.
THEOREM NoSpuriousWakeup == Spec => []WakeupsArmed
<1>1. TypeOK /\ WakeupInvariant => WakeupsArmed
  BY DEF TypeOK, WakeupInvariant, WakeupsArmed, ArmedToken, TakenToken
<1> QED
  BY TypeCorrect, WakeupsBalance, <1>1, PTL
-----------------------------------------------------------------------------
(* One thread that makes synchronous calls to a prompt server without          *)
(* broadcasts.  At most one message or wake-up is under way, none between two  *)
(* calls, and it belongs to the call that the thread is making: this is what   *)
(* lets ipc.c share one semaphore, one header and one buffer.                  *)

\* The programs and servers this part is about.
Quiet(c) == Caller = {c} /\ Kinds = {"sync"} /\ MaxSignals = 0 /\ PromptServer

Busy == IF rpc \in Handling THEN 1 ELSE 0
Reading(c) == IF pc[c] \in {"header", "payload"} THEN 1 ELSE 0
UnderWay(c) == Len(requests) + Len(rxq) + Busy + sem + Reading(c)

\* Request, reply, reply being handled, posted wake-up and caller about to read follow
\* each other; a thread that enters a call finds none of them.
OneReply(c) ==
    /\ UnderWay(c) <= 1
    /\ pc[c] \in {"idle", "send"} => UnderWay(c) = 0

Examined == {"match", "reset", "dispatch"}

\* The header and payload that the thread will read are in place from the moment
\* the reply is sent, or examined, until they are read.
ItsOwn(c) ==
    /\ \A i \in DOMAIN requests : requests[i].call = cur[c]
    /\ \A i \in DOMAIN rxq : rxq[i].body = cur[c]
    /\ rpc \in Handling => msg.body = cur[c]
    /\ pc[c] # "idle" => send_payload = cur[c]
    /\ rpc \in Examined \/ sem > 0 \/ Reading(c) = 1 => g_recv_msg = cur[c]
    /\ rxq # <<>> \/ rpc \in Examined \/ sem > 0 \/ Reading(c) = 1 => recv_payload = cur[c]
    /\ pc[c] = "payload" => outcome[cur[c]].cmd = cur[c]

\* Calls are entered one after the other, and those before the last have returned.
InOrder(c) ==
    /\ cur[c] = issued
    /\ \A n \in Call : n > issued => outcome[n].status = "unused"
    /\ pc[c] # "idle" => outcome[issued].status = "pending" /\ outcome[issued].kind = "sync"
    /\ \A n \in Call : n < issued \/ (n = issued /\ pc[c] = "idle")
                        => ResultOf(n) \in {"error", "answered"}

\* The inductive invariant of the refinement.
Alone(c) == OneReply(c) /\ ItsOwn(c) /\ InOrder(c)

\* When one of the places holds something, the others are empty.
LEMMA Exclusive ==
    ASSUME NEW c, TypeOK, OneReply(c)
    PROVE  /\ requests # <<>> => rxq = <<>> /\ rpc \notin Handling /\ sem = 0 /\ Reading(c) = 0 /\ Len(requests) = 1
           /\ rxq # <<>> => requests = <<>> /\ rpc \notin Handling /\ sem = 0 /\ Reading(c) = 0 /\ Len(rxq) = 1
           /\ rpc \in Handling => requests = <<>> /\ rxq = <<>> /\ sem = 0 /\ Reading(c) = 0
           /\ sem > 0 => requests = <<>> /\ rxq = <<>> /\ rpc \notin Handling /\ sem = 1 /\ Reading(c) = 0
           /\ Reading(c) = 1 => requests = <<>> /\ rxq = <<>> /\ rpc \notin Handling /\ sem = 0
           /\ pc[c] \in {"idle", "send"} => requests = <<>> /\ rxq = <<>> /\ rpc \notin Handling /\ sem = 0
<1> DEFINE a == Len(requests)
           b == Len(rxq)
<1>1. /\ a \in Nat /\ b \in Nat /\ sem \in Nat
      /\ requests # <<>> <=> a > 0
      /\ rxq # <<>> <=> b > 0
  BY DEF TypeOK
<1>2. Busy = (IF rpc \in Handling THEN 1 ELSE 0) /\ Reading(c) \in {0, 1}
  BY DEF Busy, Reading
<1>3. /\ a + b + Busy + sem + Reading(c) <= 1
      /\ pc[c] \in {"idle", "send"} => a + b + Busy + sem + Reading(c) = 0
  BY DEF OneReply, UnderWay
<1> HIDE DEF a, b
<1>4. Busy \in {0, 1} /\ (rpc \in Handling <=> Busy = 1)
  BY <1>2
<1> DEFINE e == Busy
           f == Reading(c)
<1>5. /\ e \in {0, 1} /\ f \in {0, 1} /\ a + b + e + sem + f <= 1 /\ (rpc \in Handling <=> e = 1)
      /\ pc[c] \in {"idle", "send"} => a + b + e + sem + f = 0
  BY <1>2, <1>3, <1>4
<1> HIDE DEF e, f
<1>6. /\ a > 0 => b = 0 /\ e = 0 /\ sem = 0 /\ f = 0 /\ a = 1
      /\ b > 0 => a = 0 /\ e = 0 /\ sem = 0 /\ f = 0 /\ b = 1
      /\ e = 1 => a = 0 /\ b = 0 /\ sem = 0 /\ f = 0
      /\ sem > 0 => a = 0 /\ b = 0 /\ e = 0 /\ f = 0 /\ sem = 1
      /\ f = 1 => a = 0 /\ b = 0 /\ e = 0 /\ sem = 0
  BY <1>1, <1>5
<1>7. pc[c] \in {"idle", "send"} => a = 0 /\ b = 0 /\ e = 0 /\ sem = 0
  BY <1>1, <1>5
<1> QED
  BY <1>1, <1>5, <1>6, <1>7 DEF a, b, e, f


\* The calling thread: it finds nothing under way when it sends, and what it reads is
\* the reply to its call.
LEMMA CallerAlone ==
    ASSUME NEW c \in Caller, Quiet(c), TypeOK, Alone(c), CallerStep(c)
    PROVE  Alone(c)'
<1>0. OneReply(c) /\ ItsOwn(c) /\ InOrder(c)
  BY DEF Alone
<1>1. /\ pc[c] \in {"idle", "send"} => requests = <<>> /\ rxq = <<>> /\ rpc \notin Handling /\ sem = 0
      /\ Reading(c) = 1 => requests = <<>> /\ rxq = <<>> /\ rpc \notin Handling /\ sem = 0
      /\ sem > 0 => requests = <<>> /\ rxq = <<>> /\ rpc \notin Handling /\ sem = 1 /\ Reading(c) = 0
  BY <1>0, Exclusive
<1>2. /\ pc \in [Caller -> {"idle", "send", "arm", "wait", "header", "payload"}]
      /\ cur \in [Caller -> 0..MaxCalls] /\ cur[c] = issued /\ issued \in Nat /\ MaxCalls \in Nat
      /\ outcome \in [Call -> Outcome] /\ sem \in Nat
      /\ pc[c] # "idle" => cur[c] \in Call
      /\ Examined \subseteq Handling
  BY <1>0, ParameterAssumption DEF TypeOK, InOrder, Handling, Examined
<1>3. CASE CopyRequest(c)
  <2>1. /\ pc[c] = "idle" /\ issued < MaxCalls /\ issued' = issued + 1
        /\ cur' = [cur EXCEPT ![c] = issued + 1]
        /\ outcome' = [outcome EXCEPT ![issued + 1].kind = "sync",
                                      ![issued + 1].status = "pending"]
        /\ send_payload' = issued + 1
        /\ pc' = [pc EXCEPT ![c] = "send"]
        /\ UNCHANGED <<requests, rxq, rpc, msg, sem, g_recv_msg, recv_payload>>
    BY <1>3 DEF CopyRequest, Quiet, recvVars, remoteVars
  <2>2. cur'[c] = issued' /\ pc'[c] = "send" /\ issued + 1 \in Call
    BY <1>2, <2>1 DEF Call
  <2>3. requests' = <<>> /\ rxq' = <<>> /\ rpc' \notin Handling /\ sem' = 0 /\ Reading(c)' = 0
    BY <1>1, <2>1, <2>2 DEF Reading
  <2>4. OneReply(c)'
    <3>1. Busy' = 0
      BY <2>3 DEF Busy
    <3> QED
      BY <2>3, <3>1 DEF OneReply, UnderWay
  <2>5. ItsOwn(c)'
    BY <1>2, <2>1, <2>2, <2>3 DEF ItsOwn
  <2>6. /\ outcome'[issued + 1].status = "pending" /\ outcome'[issued + 1].kind = "sync"
        /\ \A n \in Call \ {issued + 1} : outcome'[n] = outcome[n]
    BY <1>2, <2>1, <2>2 DEF Outcome
  <2>7. \A n \in Call : n # issued + 1 => ResultOf(n)' = ResultOf(n)
    BY <2>6 DEF ResultOf
  <2>8. \A n \in Call : (n > issued + 1 => n > issued) /\ (n < issued + 1 => n < issued \/ n = issued)
    BY <1>2 DEF Call
  <2>9. InOrder(c)'
    <3>1. \A n \in Call : n > issued' => outcome'[n].status = "unused"
      BY <1>0, <1>2, <2>1, <2>6, <2>8 DEF InOrder, Call
    <3>2. ASSUME NEW n \in Call, n < issued' \/ (n = issued' /\ pc'[c] = "idle")
          PROVE  ResultOf(n)' \in {"error", "answered"}
      <4>1. n # issued + 1 /\ (n < issued \/ n = issued)
        BY <1>2, <2>1, <2>2, <2>8, <3>2 DEF Call
      <4> QED
        BY <1>0, <2>1, <2>7, <4>1 DEF InOrder
    <3> QED
      BY <2>1, <2>2, <2>6, <3>1, <3>2 DEF InOrder
  <2> QED
    BY <2>4, <2>5, <2>9 DEF Alone
<1>4. CASE Send(c)
  <2>0. PICK t \in FreeToken : requests' = Append(requests, [call |-> cur[c], token |-> t])
    BY <1>4 DEF Send
  <2>1. /\ pc[c] = "send" /\ outcome[cur[c]].kind = "sync" /\ pc' = [pc EXCEPT ![c] = "arm"]
        /\ UNCHANGED <<outcome, cur, issued, send_payload, rxq, rpc, msg, sem, g_recv_msg, recv_payload>>
    BY <1>0, <1>2, <1>4 DEF Send, InOrder, recvVars
  <2>2. pc'[c] = "arm" /\ requests' = <<[call |-> cur[c], token |-> t]>>
        /\ rxq' = <<>> /\ rpc' \notin Handling /\ sem' = 0 /\ Reading(c)' = 0
    BY <1>1, <1>2, <2>0, <2>1 DEF Reading
  <2>3. OneReply(c)'
    <3>1. Busy' = 0 /\ Len(requests') = 1 /\ Len(rxq') = 0
      BY <2>2 DEF Busy
    <3> QED
      BY <2>2, <3>1 DEF OneReply, UnderWay
  <2>4. ItsOwn(c)'
    <3>1. \A i \in DOMAIN requests' : requests'[i] = [call |-> cur[c], token |-> t]
      BY <2>2
    <3> QED
      BY <1>0, <1>2, <2>1, <2>2, <3>1 DEF ItsOwn
  <2>5. InOrder(c)'
    BY <1>0, <2>1, <2>2 DEF InOrder, ResultOf
  <2> QED
    BY <2>3, <2>4, <2>5 DEF Alone
<1>5. CASE SendFails(c) \/ Expire(c)
  <2>1. /\ pc[c] # "idle" /\ UNCHANGED <<cur, issued, send_payload, requests, rxq, rpc, msg, sem, g_recv_msg, recv_payload>>
        /\ pc' = [pc EXCEPT ![c] = "idle"]
        /\ \E s \in {"timeout", "send_failed"} : outcome' = [outcome EXCEPT ![cur[c]].status = s]
    BY <1>5 DEF SendFails, Expire, Finish, recvVars, remoteVars
  <2>2. requests = <<>> /\ rxq = <<>> /\ rpc \notin Handling /\ sem = 0
    <3>1. CASE SendFails(c)
      BY <1>1, <3>1 DEF SendFails
    <3>2. CASE Expire(c)
      <4>1. sem = 0 /\ ~OnItsWay(cur[c])
        BY <3>2 DEF Expire, Quiet
      <4>2. (requests # <<>> => 1 \in DOMAIN requests) /\ (rxq # <<>> => 1 \in DOMAIN rxq)
        BY DEF TypeOK
      <4> QED
        BY <1>0, <4>1, <4>2 DEF OnItsWay, ItsOwn
    <3> QED
      BY <1>5, <3>1, <3>2
  <2>3. pc'[c] = "idle" /\ Reading(c)' = 0 /\ Busy' = 0
    BY <1>2, <2>1, <2>2 DEF Reading, Busy
  <2>4. OneReply(c)'
    BY <2>1, <2>2, <2>3 DEF OneReply, UnderWay
  <2>5. ItsOwn(c)'
    BY <1>2, <2>1, <2>2, <2>3 DEF ItsOwn
  <2>6. /\ outcome'[issued].status \in {"timeout", "send_failed"}
        /\ \A n \in Call \ {issued} : outcome'[n] = outcome[n]
    BY <1>2, <2>1 DEF Outcome
  <2>7. ResultOf(issued)' = "error" /\ \A n \in Call \ {issued} : ResultOf(n)' = ResultOf(n)
    BY <2>1, <2>6 DEF ResultOf
  <2>8. InOrder(c)'
    <3>1. \A n \in Call : n > issued => n # issued /\ outcome'[n].status = "unused"
      BY <1>0, <1>2, <2>6 DEF InOrder
    <3>2. \A n \in Call : n < issued => ResultOf(n)' \in {"error", "answered"}
      BY <1>0, <1>2, <2>7 DEF InOrder, Call
    <3> QED
      BY <1>2, <2>1, <2>3, <2>7, <3>1, <3>2 DEF InOrder
  <2> QED
    BY <2>4, <2>5, <2>8 DEF Alone
<1>6. CASE Arm(c)
  <2>1. /\ pc[c] = "arm" /\ pc' = [pc EXCEPT ![c] = "wait"]
        /\ UNCHANGED <<outcome, cur, issued, send_payload, requests, rxq, rpc, msg, sem, g_recv_msg, recv_payload>>
    BY <1>6 DEF Arm, recvVars, remoteVars
  <2>2. pc'[c] = "wait" /\ Reading(c)' = Reading(c) /\ Busy' = Busy
    BY <1>2, <2>1 DEF Reading, Busy
  <2>3. OneReply(c)'
    BY <1>0, <2>1, <2>2 DEF OneReply, UnderWay
  <2>4. ItsOwn(c)'
    BY <1>0, <2>1, <2>2 DEF ItsOwn
  <2>5. InOrder(c)'
    BY <1>0, <2>1, <2>2 DEF InOrder, ResultOf
  <2> QED
    BY <2>3, <2>4, <2>5 DEF Alone
<1>7. CASE Wake(c)
  <2>1. /\ pc[c] = "wait" /\ sem > 0 /\ sem' = sem - 1 /\ pc' = [pc EXCEPT ![c] = "header"]
        /\ UNCHANGED <<outcome, cur, issued, send_payload, requests, rxq, rpc, msg, g_recv_msg, recv_payload>>
    BY <1>7 DEF Wake, recvVars, remoteVars
  <2>2. pc'[c] = "header" /\ Reading(c)' = 1 /\ Busy' = 0 /\ sem' = 0
        /\ requests' = <<>> /\ rxq' = <<>> /\ rpc' \notin Handling
    BY <1>1, <1>2, <2>1 DEF Reading, Busy
  <2>3. OneReply(c)'
    BY <2>2 DEF OneReply, UnderWay
  <2>4. ItsOwn(c)'
    BY <1>0, <1>2, <2>1, <2>2 DEF ItsOwn
  <2>5. InOrder(c)'
    BY <1>0, <2>1, <2>2 DEF InOrder, ResultOf
  <2> QED
    BY <2>3, <2>4, <2>5 DEF Alone
<1>8. CASE CopyHeader(c)
  <2>1. /\ pc[c] = "header" /\ pc' = [pc EXCEPT ![c] = "payload"]
        /\ outcome' = [outcome EXCEPT ![cur[c]].cmd = g_recv_msg]
        /\ UNCHANGED <<cur, issued, send_payload, requests, rxq, rpc, msg, sem, g_recv_msg, recv_payload>>
    BY <1>8 DEF CopyHeader, recvVars, remoteVars
  <2>2. Reading(c) = 1 /\ pc'[c] = "payload" /\ Reading(c)' = 1 /\ Busy' = 0 /\ sem' = 0
        /\ requests' = <<>> /\ rxq' = <<>> /\ rpc' \notin Handling
    BY <1>1, <1>2, <2>1 DEF Reading, Busy
  <2>3. OneReply(c)'
    BY <2>2 DEF OneReply, UnderWay
  <2>4. /\ outcome'[issued].cmd = issued /\ outcome'[issued].status = outcome[issued].status
        /\ outcome'[issued].kind = outcome[issued].kind
        /\ \A n \in Call \ {issued} : outcome'[n] = outcome[n]
    BY <1>0, <1>2, <2>1, <2>2 DEF Outcome, ItsOwn
  <2>5. ItsOwn(c)'
    BY <1>0, <1>2, <2>1, <2>2, <2>4 DEF ItsOwn
  <2>6. \A n \in Call : n < issued => n # issued /\ ResultOf(n)' = ResultOf(n)
    <3>1. \A n \in Call \ {issued} : ResultOf(n)' = ResultOf(n)
      BY <2>4 DEF ResultOf
    <3> QED
      BY <1>2, <3>1 DEF Call
  <2>7. InOrder(c)'
    <3>1. \A n \in Call : n > issued => n # issued /\ outcome'[n].status = "unused"
      BY <1>0, <1>2, <2>4 DEF InOrder
    <3> QED
      BY <1>0, <2>1, <2>2, <2>4, <2>6, <3>1 DEF InOrder
  <2> QED
    BY <2>3, <2>5, <2>7 DEF Alone
<1>9. CASE CopyPayload(c)
  <2>1. /\ pc[c] = "payload" /\ pc' = [pc EXCEPT ![c] = "idle"]
        /\ outcome' = [outcome EXCEPT ![cur[c]].payload = recv_payload, ![cur[c]].status = "ok"]
        /\ UNCHANGED <<cur, issued, send_payload, requests, rxq, rpc, msg, sem, g_recv_msg, recv_payload>>
    BY <1>9 DEF CopyPayload, recvVars, remoteVars
  <2>2. Reading(c) = 1 /\ pc'[c] = "idle" /\ Reading(c)' = 0 /\ Busy' = 0 /\ sem' = 0
        /\ requests' = <<>> /\ rxq' = <<>> /\ rpc' \notin Handling
    BY <1>1, <1>2, <2>1 DEF Reading, Busy
  <2>3. OneReply(c)'
    BY <2>2 DEF OneReply, UnderWay
  <2>4. ItsOwn(c)'
    BY <1>2, <2>1, <2>2 DEF ItsOwn
  <2>5. /\ outcome'[issued].cmd = issued /\ outcome'[issued].payload = issued
        /\ outcome'[issued].status = "ok"
        /\ \A n \in Call \ {issued} : outcome'[n] = outcome[n]
    <3>1. outcome[issued].cmd = issued /\ recv_payload = issued
      BY <1>0, <1>2, <2>1, <2>2 DEF ItsOwn
    <3> QED
      BY <1>2, <2>1, <3>1 DEF Outcome
  <2>6. ResultOf(issued)' = "answered" /\ \A n \in Call \ {issued} : ResultOf(n)' = ResultOf(n)
    BY <2>1, <2>5 DEF ResultOf
  <2>7. InOrder(c)'
    <3>1. \A n \in Call : n > issued => n # issued /\ outcome'[n].status = "unused"
      BY <1>0, <1>2, <2>5 DEF InOrder
    <3>2. \A n \in Call : n < issued => ResultOf(n)' \in {"error", "answered"}
      BY <1>0, <1>2, <2>6 DEF InOrder, Call
    <3> QED
      BY <1>2, <2>1, <2>2, <2>6, <3>1, <3>2 DEF InOrder
  <2> QED
    BY <2>3, <2>4, <2>7 DEF Alone
<1> QED
  BY <1>3, <1>4, <1>5, <1>6, <1>7, <1>8, <1>9 DEF CallerStep

\* The receive thread handles the one reply there is; until it has examined it, the
\* header and the buffer stay as they are.
LEMMA RecvAlone ==
    ASSUME NEW c \in Caller, TypeOK, Alone(c),
           StartThread \/ RegisterCallback \/ RecvStep \/ ReceiveFails
    PROVE  Alone(c)'
<1>0. OneReply(c) /\ ItsOwn(c) /\ InOrder(c)
  BY DEF Alone
<1>1. /\ rxq # <<>> => requests = <<>> /\ rpc \notin Handling /\ sem = 0 /\ Reading(c) = 0 /\ Len(rxq) = 1
      /\ rpc \in Handling => requests = <<>> /\ rxq = <<>> /\ sem = 0 /\ Reading(c) = 0
      /\ pc[c] \in {"idle", "send"} => requests = <<>> /\ rxq = <<>> /\ rpc \notin Handling /\ sem = 0
  BY <1>0, Exclusive
<1>2. UNCHANGED <<pc, cur, outcome, issued, send_payload, requests>>
  BY DEF StartThread, RegisterCallback, RecvStep, ReceiveFails, Receive, Match, ResetToken, ReleaseCaller,
         TakePackage, ClearPayload, CallBack, CallBackHeader, Drop, callerVars, remoteVars
<1>3. InOrder(c)' /\ Reading(c)' = Reading(c)
  BY <1>0, <1>2 DEF InOrder, ResultOf, Reading
<1>4. CASE RegisterCallback
  <2>1. UNCHANGED <<rxq, rpc, msg, sem, g_recv_msg, recv_payload>>
    BY <1>4 DEF RegisterCallback, remoteVars
  <2> QED
    BY <1>0, <1>2, <1>3, <2>1 DEF Alone, OneReply, UnderWay, Busy, ItsOwn
<1>5. CASE StartThread \/ ReceiveFails
  <2>1. rpc \notin Handling /\ rpc' \notin Handling /\ UNCHANGED <<rxq, msg, sem, g_recv_msg, recv_payload>>
    BY <1>5 DEF StartThread, ReceiveFails, Handling, remoteVars
  <2>2. Busy' = Busy /\ rpc' \notin Examined
    BY <2>1 DEF Busy, Handling, Examined
  <2> QED
    BY <1>0, <1>2, <1>3, <2>1, <2>2 DEF Alone, OneReply, UnderWay, ItsOwn
<1>6. CASE Receive
  <2>1. /\ rxq # <<>> /\ msg' = Head(rxq) /\ rxq' = Tail(rxq) /\ g_recv_msg' = Head(rxq).body
        /\ rpc' = "match" /\ UNCHANGED <<sem, recv_payload>>
    BY <1>6 DEF Receive
  <2>2. rxq' = <<>> /\ requests' = <<>> /\ sem' = 0 /\ Reading(c)' = 0 /\ rpc' \in Handling
    <3>1. Len(rxq) = 1 /\ rxq \in Seq(Message)
      BY <1>1, <2>1 DEF TypeOK
    <3>2. rxq' = <<>>
      BY <2>1, <3>1
    <3> QED
      BY <1>1, <1>2, <1>3, <2>1, <3>2 DEF Handling
  <2>3. pc[c] \notin {"idle", "send"} /\ Busy' = 1
    BY <1>1, <2>1, <2>2 DEF Busy
  <2>4. OneReply(c)'
    BY <1>2, <2>2, <2>3 DEF OneReply, UnderWay
  <2>5. Head(rxq).body = cur[c]
    <3>1. 1 \in DOMAIN rxq /\ Head(rxq) = rxq[1]
      BY <2>1 DEF TypeOK
    <3> QED
      BY <1>0, <3>1 DEF ItsOwn
  <2>6. ItsOwn(c)'
    BY <1>0, <1>2, <2>1, <2>2, <2>5 DEF ItsOwn, Reading
  <2> QED
    BY <1>3, <2>4, <2>6 DEF Alone
<1>7. CASE Match \/ ResetToken
  <2>1. rpc \in Handling /\ rpc' \in Handling /\ rpc \in Examined /\ UNCHANGED <<rxq, msg, sem, g_recv_msg, recv_payload>>
    BY <1>7 DEF Match, ResetToken, Handling, Examined, remoteVars
  <2>2. Busy' = Busy
    BY <2>1 DEF Busy
  <2> QED
    BY <1>0, <1>2, <1>3, <2>1, <2>2 DEF Alone, OneReply, UnderWay, ItsOwn
<1>8. CASE ReleaseCaller
  <2>1. rpc = "dispatch" /\ rpc' = "recv" /\ sem' = sem + 1 /\ UNCHANGED <<rxq, msg, g_recv_msg, recv_payload>>
    BY <1>8 DEF ReleaseCaller, remoteVars
  <2>2. /\ rpc \in Handling /\ rpc \in Examined /\ rpc' \notin Handling /\ rpc' \notin Examined
        /\ requests' = <<>> /\ rxq' = <<>> /\ sem' = 1 /\ Reading(c)' = 0
    BY <1>1, <1>2, <1>3, <2>1 DEF Handling, Examined
  <2>3. pc[c] \notin {"idle", "send"} /\ Busy' = 0
    BY <1>1, <2>2 DEF Busy
  <2>4. OneReply(c)'
    BY <1>2, <2>2, <2>3 DEF OneReply, UnderWay
  <2>5. ItsOwn(c)'
    BY <1>0, <1>2, <1>3, <2>1, <2>2, <2>3 DEF ItsOwn
  <2> QED
    BY <1>3, <2>4, <2>5 DEF Alone
<1>9. CASE TakePackage \/ ClearPayload
  <2>1. /\ rpc \in Handling /\ rpc' \in Handling /\ rpc' \notin Examined
        /\ UNCHANGED <<rxq, msg, sem, g_recv_msg>>
    BY <1>9 DEF TakePackage, ClearPayload, Handling, Examined, remoteVars
  <2>2. /\ requests = <<>> /\ rxq = <<>> /\ sem = 0 /\ Reading(c) = 0 /\ pc[c] # "payload" /\ Busy' = Busy
    BY <1>1, <2>1 DEF Busy, Reading
  <2>3. OneReply(c)'
    BY <1>0, <1>2, <1>3, <2>1, <2>2 DEF OneReply, UnderWay
  <2>4. ItsOwn(c)'
    BY <1>0, <1>2, <1>3, <2>1, <2>2 DEF ItsOwn
  <2> QED
    BY <1>3, <2>3, <2>4 DEF Alone
<1>10. CASE CallBack \/ CallBackHeader \/ Drop
  <2>1. /\ rpc \in Handling /\ rpc' \notin Handling /\ rpc' \notin Examined
        /\ UNCHANGED <<rxq, msg, sem, g_recv_msg, recv_payload>>
    BY <1>10 DEF CallBack, CallBackHeader, Drop, Handling, Examined, remoteVars
  <2>2. /\ requests = <<>> /\ rxq = <<>> /\ sem = 0 /\ Reading(c) = 0 /\ pc[c] # "payload" /\ Busy' = 0
    BY <1>1, <2>1 DEF Busy, Reading
  <2>3. OneReply(c)'
    BY <1>2, <1>3, <2>1, <2>2 DEF OneReply, UnderWay
  <2>4. ItsOwn(c)'
    BY <1>0, <1>2, <1>3, <2>1, <2>2 DEF ItsOwn
  <2> QED
    BY <1>3, <2>3, <2>4 DEF Alone
<1> QED
  BY <1>4, <1>5, <1>6, <1>7, <1>8, <1>9, <1>10 DEF RecvStep

\* The remote core serves the request with the arguments of the call that waits.
LEMMA RemoteAlone ==
    ASSUME NEW c \in Caller, Quiet(c), TypeOK, Alone(c), RemoteStep
    PROVE  Alone(c)'
<1>0. OneReply(c) /\ ItsOwn(c) /\ InOrder(c)
  BY DEF Alone
<1>1. ~Broadcast
  BY DEF Broadcast, Quiet, TypeOK
<1>2. /\ requests # <<>> /\ requests' = Tail(requests)
      /\ UNCHANGED <<pc, cur, outcome, issued, send_payload, rpc, msg, sem, g_recv_msg>>
  BY <1>1 DEF RemoteStep, Reply, Silence, callerVars, recvVars
<1>3. /\ rxq = <<>> /\ rpc \notin Handling /\ sem = 0 /\ Reading(c) = 0 /\ Len(requests) = 1
      /\ pc[c] \notin {"idle", "send"}
  BY <1>0, <1>2, Exclusive
<1>4. InOrder(c)' /\ Reading(c)' = 0 /\ Busy' = 0 /\ requests' = <<>> /\ rpc \notin Examined
  <2>1. requests' = <<>>
    BY <1>2, <1>3 DEF TypeOK
  <2> QED
    BY <1>0, <1>2, <1>3, <2>1 DEF InOrder, ResultOf, Reading, Busy, Handling, Examined
<1>5. sem' = 0 /\ Busy' = 0 /\ Reading(c)' = 0 /\ pc'[c] \notin {"idle", "send"}
  BY <1>2, <1>3, <1>4
<1>6. 1 \in DOMAIN requests /\ Head(requests) = requests[1]
  BY <1>2 DEF TypeOK
<1>7. CASE Reply
  <2>1. recv_payload' = send_payload
        /\ rxq' = <<[type |-> "reply", token |-> Head(requests).token, body |-> Head(requests).call]>>
    BY <1>3, <1>7 DEF Reply
  <2>2. Head(requests).call = cur[c] /\ send_payload = cur[c]
    BY <1>0, <1>3, <1>6 DEF ItsOwn
  <2>3. Len(rxq') = 1 /\ Len(requests') = 0 /\ \A i \in DOMAIN rxq' : rxq'[i].body = cur[c]
    BY <1>4, <2>1, <2>2
  <2>4. OneReply(c)'
    BY <1>5, <2>3 DEF OneReply, UnderWay
  <2>5. ItsOwn(c)'
    BY <1>0, <1>2, <1>3, <1>4, <2>1, <2>2, <2>3 DEF ItsOwn
  <2> QED
    BY <1>4, <2>4, <2>5 DEF Alone
<1>8. CASE Silence
  <2>1. UNCHANGED <<rxq, recv_payload>> /\ Len(requests') = 0 /\ Len(rxq') = 0
    BY <1>3, <1>4, <1>8 DEF Silence
  <2>2. OneReply(c)'
    BY <1>5, <2>1 DEF OneReply, UnderWay
  <2>3. ItsOwn(c)'
    BY <1>0, <1>2, <1>3, <1>4, <2>1 DEF ItsOwn
  <2> QED
    BY <1>4, <2>2, <2>3 DEF Alone
<1> QED
  BY <1>1, <1>7, <1>8 DEF RemoteStep

\* So nothing of another call is ever under way, for any number of calls and tokens,
\* with or without link errors and registered callbacks.
THEOREM NothingForeign ==
    ASSUME NEW c, Quiet(c)
    PROVE  Spec => []Alone(c)
<1>0. c \in Caller
  BY DEF Quiet
<1>1. Init => Alone(c)
  <2> SUFFICES ASSUME Init PROVE Alone(c)
    OBVIOUS
  <2>1. pc[c] = "idle" /\ requests = <<>> /\ rxq = <<>> /\ rpc \notin Handling /\ sem = 0
    BY <1>0 DEF Init, Handling
  <2>2. Reading(c) = 0 /\ Busy = 0 /\ rpc \notin Examined
    BY <2>1 DEF Reading, Busy, Handling, Examined
  <2>3. OneReply(c)
    BY <2>1, <2>2 DEF OneReply, UnderWay
  <2>4. ItsOwn(c)
    BY <2>1, <2>2 DEF ItsOwn
  <2>5. InOrder(c)
    BY <1>0 DEF InOrder, Init, Call
  <2> QED
    BY <2>3, <2>4, <2>5 DEF Alone
<1>2. TypeOK /\ Alone(c) /\ [Next]_vars => Alone(c)'
  <2> SUFFICES ASSUME TypeOK, Alone(c), [Next]_vars PROVE Alone(c)'
    OBVIOUS
  <2>1. CASE \E d \in Caller : CallerStep(d)
    <3>1. CallerStep(c)
      BY <2>1 DEF Quiet
    <3> QED
      BY <1>0, <3>1, CallerAlone
  <2>2. CASE StartThread \/ RegisterCallback \/ RecvStep \/ ReceiveFails
    BY <1>0, <2>2, RecvAlone
  <2>3. CASE RemoteStep
    BY <1>0, <2>3, RemoteAlone
  <2>4. CASE UNCHANGED vars
    BY <2>4 DEF Alone, OneReply, UnderWay, Busy, Reading, ItsOwn, InOrder, ResultOf,
                vars, callerVars, recvVars, remoteVars
  <2> QED
    BY <2>1, <2>2, <2>3, <2>4 DEF Next
<1> QED
  BY TypeCorrect, <1>1, <1>2, PTL DEF Spec

-----------------------------------------------------------------------------
(* The call service that such a thread gets.                                   *)

Results == [n \in Call |-> ResultOf(n)]

\* A step of the thread that returns or enters a call is a step of the service; every
\* other step leaves all results as they are.
LEMMA ServiceStep ==
    ASSUME NEW c, Quiet(c), TypeOK, Alone(c), [Next]_vars
    PROVE  [Service!Next]_(Results)
<1>0. /\ c \in Caller /\ OneReply(c) /\ ItsOwn(c) /\ InOrder(c)
      /\ outcome \in [Call -> Outcome] /\ cur[c] = issued /\ issued \in Nat /\ MaxCalls \in Nat
      /\ pc[c] # "idle" => issued \in Call
  BY ParameterAssumption DEF Alone, Quiet, TypeOK, InOrder
<1>a. PICK k \in Nat : k = issued
  BY <1>0
<1>1. ASSUME outcome' = outcome PROVE UNCHANGED Results
  BY <1>1 DEF Results, ResultOf
<1>2. ASSUME pc[c] # "idle" PROVE k \in Call /\ ResultOf(k) = "pending"
  BY <1>0, <1>a, <1>2 DEF InOrder, ResultOf
<1>3. CASE CopyRequest(c)
  <2>1. /\ pc[c] = "idle" /\ k < MaxCalls
        /\ outcome' = [outcome EXCEPT ![k + 1].kind = "sync",
                                      ![k + 1].status = "pending"]
    BY <1>a, <1>3 DEF CopyRequest, Quiet
  <2>2. k + 1 \in Call /\ k + 1 > k
    BY <1>0, <1>a, <2>1 DEF Call
  <2>3. ResultOf(k + 1)' = "pending" /\ \A n \in Call \ {k + 1} : ResultOf(n)' = ResultOf(n)
    BY <1>0, <1>a, <2>1, <2>2 DEF Outcome, ResultOf
  <2>4. Results' = [Results EXCEPT ![k + 1] = "pending"]
    BY <2>2, <2>3 DEF Results
  <2>5. ResultOf(k + 1) = "unused"
    BY <1>0, <1>a, <2>2 DEF InOrder, ResultOf
  <2>6. \A m \in 1..(k + 1 - 1) : m \in Call /\ ResultOf(m) \in {"error", "answered"}
    BY <1>0, <1>a, <2>1, <2>2 DEF InOrder, Call
  <2>7. Service!Issue(k + 1)
    BY <2>2, <2>4, <2>5, <2>6 DEF Service!Issue, Results
  <2> QED
    BY <2>2, <2>7 DEF Service!Next, Service!Call, Call
<1>4. CASE SendFails(c) \/ Expire(c)
  <2>1. pc[c] # "idle" /\ \E s \in {"timeout", "send_failed"} : outcome' = [outcome EXCEPT ![k].status = s]
    BY <1>0, <1>a, <1>4 DEF SendFails, Expire, Finish
  <2>2. ResultOf(k)' = "error" /\ \A n \in Call \ {k} : ResultOf(n)' = ResultOf(n)
    BY <1>0, <1>a, <2>1 DEF Outcome, ResultOf
  <2>3. Results' = [Results EXCEPT ![k] = "error"]
    BY <1>2, <2>1, <2>2 DEF Results
  <2>4. Service!Fail(k)
    BY <1>2, <2>1, <2>3 DEF Service!Fail, Results
  <2> QED
    BY <1>2, <2>1, <2>4 DEF Service!Next, Service!Call, Call
<1>5. CASE CopyPayload(c)
  <2>1. /\ pc[c] = "payload"
        /\ outcome' = [outcome EXCEPT ![k].payload = recv_payload, ![k].status = "ok"]
    BY <1>0, <1>a, <1>5 DEF CopyPayload
  <2>2. outcome[k].cmd = k /\ recv_payload = k
    BY <1>0, <1>a, <2>1 DEF ItsOwn, Reading
  <2>3. ResultOf(k)' = "answered" /\ \A n \in Call \ {k} : ResultOf(n)' = ResultOf(n)
    <3>1. /\ outcome'[k].status = "ok" /\ outcome'[k].cmd = k /\ outcome'[k].payload = k
          /\ \A n \in Call \ {k} : outcome'[n] = outcome[n]
      BY <1>0, <1>2, <2>1, <2>2 DEF Outcome
    <3> QED
      BY <3>1 DEF ResultOf
  <2>4. Results' = [Results EXCEPT ![k] = "answered"]
    BY <1>2, <2>1, <2>3 DEF Results
  <2>5. Service!Answer(k)
    BY <1>2, <2>1, <2>4 DEF Service!Answer, Results
  <2> QED
    BY <1>2, <2>1, <2>5 DEF Service!Next, Service!Call, Call
<1>6. CASE CopyHeader(c)
  <2>1. pc[c] # "idle" /\ outcome' = [outcome EXCEPT ![k].cmd = g_recv_msg]
    BY <1>0, <1>a, <1>6 DEF CopyHeader
  <2>2. ResultOf(k)' = ResultOf(k) /\ \A n \in Call \ {k} : ResultOf(n)' = ResultOf(n)
    <3>1. outcome[k].status = "pending" /\ outcome'[k].status = "pending"
      BY <1>0, <1>a, <2>1 DEF Outcome, InOrder
    <3> QED
      BY <1>0, <1>a, <2>1, <3>1 DEF ResultOf
  <2> QED
    BY <2>2 DEF Results
<1>7. CASE Send(c)
  <2>1. pc[c] = "send" /\ outcome[cur[c]].kind = "sync"
    BY <1>0, <1>a, <1>7 DEF Send, InOrder
  <2> QED
    BY <1>1, <1>7, <2>1 DEF Send
<1>8. CASE Arm(c) \/ Wake(c)
  BY <1>1, <1>8 DEF Arm, Wake
<1>9. CASE RecvStep
  BY <1>1, <1>9 DEF RecvStep, Receive, Match, ResetToken, ReleaseCaller, TakePackage,
                    ClearPayload, CallBack, CallBackHeader, Drop, callerVars
<1>10. CASE StartThread \/ RegisterCallback \/ ReceiveFails \/ RemoteStep \/ UNCHANGED vars
  BY <1>1, <1>10 DEF StartThread, RegisterCallback, ReceiveFails, RemoteStep, Reply, Silence,
                     Broadcast, vars, callerVars
<1>11. CASE \E d \in Caller : CallerStep(d)
  <2>1. CallerStep(c)
    BY <1>11 DEF Quiet
  <2> QED
    BY <2>1, <1>3, <1>4, <1>5, <1>6, <1>7, <1>8 DEF CallerStep
<1> QED
  BY <1>9, <1>10, <1>11 DEF Next

\* A single thread that makes synchronous calls to a prompt server without broadcasts
\* gets from ipc.c what the comment above Sync_Call promises, however many calls it
\* makes and however few tokens they share: each returns its own reply or an error.
THEOREM ImplementsCallService ==
    ASSUME NEW c, Quiet(c)
    PROVE  Spec => ImplementsService
<1>1. Init => Service!Init
  BY DEF Init, Service!Init, Service!Call, ResultOf, Call
<1>2. TypeOK /\ Alone(c) /\ [Next]_vars => [Service!Next]_(Results)
  BY ServiceStep
<1> QED
  BY TypeCorrect, NothingForeign, <1>1, <1>2, PTL DEF Spec, ImplementsService, Service!Spec, Results
=============================================================================
