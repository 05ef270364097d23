----------------------------- MODULE CallService -----------------------------
(***************************************************************************)
(* What the comment above Sync_Call in ipc.c promises, without threads,    *)
(* tokens or buffers: a call is issued, and later returns either the reply *)
(* to that very call or an error; what it has returned never changes.      *)
(***************************************************************************)
EXTENDS Naturals

CONSTANT MaxCalls

VARIABLE result   \* call -> "unused", "pending", "error" or "answered"

Call == 1..MaxCalls

Init == result = [n \in Call |-> "unused"]

\* Calls are numbered in the order in which they are issued.
Issue(n) ==
    /\ result[n] = "unused"
    /\ \A m \in 1..(n - 1) : result[m] # "unused"
    /\ result' = [result EXCEPT ![n] = "pending"]

\* -SYNC_CALL_TIMEOUT, -SYNC_CALL_SEND_FAILED.
Fail(n) ==
    /\ result[n] = "pending"
    /\ result' = [result EXCEPT ![n] = "error"]

\* 0, with the reply in *recv_msg.
Answer(n) ==
    /\ result[n] = "pending"
    /\ result' = [result EXCEPT ![n] = "answered"]

Next == \E n \in Call : Issue(n) \/ Fail(n) \/ Answer(n)

Spec == Init /\ [][Next]_result
=============================================================================
