---------------------------- MODULE MCMsgBoxProxy ----------------------------
(* TLC instances of MsgBoxProxy, with a registry that survives restarts.    *)
EXTENDS MsgBoxProxy

ASSUME RestartsKeepTheRegistry == MapIsFaithful

\* One method is called synchronously, the other one asynchronously.
OneWayEach == {[kind |-> "sync", on |-> BroadcastNum + 1],
               [kind |-> "async", on |-> BroadcastNum + 2]}

NoCalls == {}
=============================================================================
