------------------------------ MODULE MCIpcCall ------------------------------
(* TLC instances of IpcCall, and the service it implements when calls do    *)
(* not overlap.                                                             *)
EXTENDS IpcCall

\* A call that has returned 0 counts as answered only if header and payload are
\* those of its own reply; a mixture is no result of the service.
ResultOf(n) ==
    CASE outcome[n].status \in {"unused", "pending"} -> outcome[n].status
      [] outcome[n].status \in {"timeout", "send_failed"} -> "error"
      [] outcome[n].status = "ok" /\ outcome[n].cmd = n /\ outcome[n].payload = n -> "answered"
      [] OTHER -> "foreign reply"

Service == INSTANCE CallService WITH result <- [n \in Call |-> ResultOf(n)]

\* One thread making synchronous calls to a prompt server that does not broadcast
\* gets the promised service from ipc.c: each call returns its own reply or an error.
ImplementsService == Service!Spec
=============================================================================
