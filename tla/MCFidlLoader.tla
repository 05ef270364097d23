----------------------------- MODULE MCFidlLoader ----------------------------
(* TLC instances of FidlLoader, and the abstract loader it implements when the *)
(* order of the imports never brings a file back.                              *)
EXTENDS FidlLoader

\* A failed load counts as rejected, and its models as cleared, from the first error on.
Result == CASE phase = "accepted" -> "accepted"
            [] phase = "rejected" \/ failed -> "rejected"
            [] OTHER -> "loading"

KeptCopies == [f \in File |-> IF failed THEN 0 ELSE copies[f]]

Abstract == INSTANCE ImportClosure WITH
    imported <- [f \in File |-> Imported(f)], copies <- KeptCopies, result <- Result

\* Nobody imports the main file, every other file is imported by one file at most, and
\* none by itself: the imports form a tree.
Tree ==
    /\ Acyclic
    /\ \A f \in File : Main \notin Imported(f)
    /\ \A f, g \in File : f # g => Imported(f) \cap Imported(g) = {}

\* On a tree of imports, FidlParser::parse implements the abstract loader: it loads every
\* file exactly once, accepts only when none is missing, and leaves nothing behind when it
\* rejects.
ImplementsImportClosure ==
    (Tree => Abstract!Init) /\ [][Tree => Abstract!Next]_(Abstract!vars)
=============================================================================
