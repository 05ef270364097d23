---------------------------- MODULE ImportClosure ----------------------------
(***************************************************************************)
(* What loading a file means, without queues: the file and everything it   *)
(* imports, directly or not, enters the model exactly once, in any order   *)
(* that follows the imports; the load is accepted only when nothing is     *)
(* missing, and a rejected load leaves no model behind.                    *)
(***************************************************************************)
EXTENDS Naturals

CONSTANTS File, Main

VARIABLES imported,   \* File -> the files it imports; never changes
          copies,     \* File -> how often its contents are in the model
          result      \* "loading", "accepted" or "rejected"

vars == <<imported, copies, result>>

Init ==
    /\ imported \in [File -> SUBSET File]
    /\ copies = [f \in File |-> 0]
    /\ result = "loading"

Loaded == {f \in File : copies[f] > 0}

Load(f) ==
    /\ result = "loading" /\ f \notin Loaded
    /\ f = Main \/ \E g \in Loaded : f \in imported[g]
    /\ copies' = [copies EXCEPT ![f] = 1]
    /\ UNCHANGED <<imported, result>>

Accept ==
    /\ result = "loading" /\ Main \in Loaded
    /\ \A g \in Loaded : imported[g] \subseteq Loaded
    /\ result' = "accepted"
    /\ UNCHANGED <<imported, copies>>

Reject ==
    /\ result = "loading"
    /\ result' = "rejected"
    /\ copies' = [f \in File |-> 0]
    /\ UNCHANGED imported

Next == Accept \/ Reject \/ \E f \in File : Load(f)

Spec == Init /\ [][Next]_vars
=============================================================================
