--------------------------- MODULE MCMsgBoxServer ---------------------------
(* TLC instances of MsgBoxServer.                                           *)
EXTENDS MsgBoxServer

C(i, k, o) == [ins |-> i, kind |-> k, ok |-> o]

\* Requests for both interfaces, accepted and failing.
MixedClasses == {C(1, "method", TRUE), C(1, "method", FALSE), C(2, "oneway", TRUE),
                 C(2, "subscribe", FALSE)}
=============================================================================
