----------------------------- MODULE MCDeplLoader ----------------------------
(* TLC instances of DeplLoader, and the abstract loader it implements when each *)
(* .fidl file is imported once and no .fdepl file leads back to the main one.   *)
EXTENDS DeplLoader

\* A failed load counts as rejected, and its models as cleared, from the first error on.
Result == CASE phase = "accepted" -> "accepted"
            [] phase = "rejected" \/ failed -> "rejected"
            [] OTHER -> "loading"

KeptCopies == [f \in File |-> IF failed THEN 0 ELSE copies[f]]

Abstract == INSTANCE ImportClosure WITH
    imported <- [f \in File |-> Imported(f)], copies <- KeptCopies, result <- Result

\* No file imports another one twice running (FidlLoader's instances do).
NoRepeats == \A f \in File : \A i, j \in DOMAIN imports[f] : imports[f][i] = imports[f][j] => i = j
MCInit == Init /\ NoRepeats
MCSpec == MCInit /\ [][Next]_vars /\ WF_vars(Next)

\* Deployment files may form any graph that never names the main file or the
\* importing file itself; among .fidl files the imports form a tree.
Orderly ==
    /\ Acyclic(Fidl)
    /\ \A f \in File : Main \notin Imported(f) /\ f \notin Imported(f)
    /\ \A f, g \in Fidl : f # g => Imported(f) \cap Imported(g) = {}
    /\ \A f \in Fdepl, g \in Fidl : Imported(f) \cap Imported(g) = {}

\* On such imports, FDParser::parse implements the abstract loader: every file is loaded
\* exactly once, whatever circles the deployment files form.
ImplementsImportClosure ==
    (Orderly => Abstract!Init) /\ [][Orderly => Abstract!Next]_(Abstract!vars)
=============================================================================
