----------------------------- MODULE FidlLoader ------------------------------
(***************************************************************************)
(* FidlParser::parse: the main .fidl file is parsed, its import statements *)
(* fill the list of pending files in FModelManager, and the list is worked *)
(* off until it is empty.  Then references are resolved, the models are    *)
(* validated, and FModelManager's models are returned, or cleared.         *)
(*                                                                         *)
(* What a file contains besides imports is abstracted to how many copies   *)
(* of it have been appended to its FModel (addModel returns the model of a *)
(* package that exists already); two stands for two or more.               *)
(***************************************************************************)
EXTENDS Naturals, Sequences, FiniteSets

CONSTANTS File,        \* the .fidl files there are
          Main,        \* the one named on the command line
          MaxImports,  \* bound: import statements in a file
          SyntaxErrors \* TRUE: files may have syntax errors

ASSUME FileAssumption ==
    IsFiniteSet(File) /\ Main \in File /\ MaxImports \in Nat /\ SyntaxErrors \in BOOLEAN

ImportList == UNION {[1..n -> File] : n \in 0..MaxImports}
NoFile     == "none"   \* no file is being parsed

ASSUME NoFileAssumption == NoFile \notin File

VARIABLES
    imports,    \* File -> its import statements, as far as the parser gets; never changes
    bad,        \* files with a syntax error after those imports; never changes
    phase,      \* "start", "parsing" a file, "between" two files, "accepted", "rejected"
    cur, pos,   \* the file being parsed and the import statement that comes next
    pending,    \* m_pendingFidls
    copies,     \* File -> copies of its contents in m_models
    failed      \* failed

inputs == <<imports, bad>>
vars   == <<inputs, phase, cur, pos, pending, copies, failed>>

InQueue == {pending[i] : i \in DOMAIN pending}
Copied  == {f \in File : copies[f] > 0}
Imported(f) == {imports[f][i] : i \in DOMAIN imports[f]}

Init ==
    /\ imports \in [File -> ImportList]
    /\ bad \in SUBSET File /\ (SyntaxErrors \/ bad = {})
    /\ phase = "start" /\ cur = NoFile /\ pos = 1
    /\ pending = <<>>
    /\ copies = [f \in File |-> 0]
    /\ failed = FALSE

\* Mutant: import statements are counted from zero.
OpenAtZero(f) == phase' = "parsing" /\ cur' = f /\ pos' = 0

\* FidlParserPrivate::parse, up to the first import statement.
Open(f) == phase' = "parsing" /\ cur' = f /\ pos' = 1

ParseMain ==
    /\ phase = "start"
    /\ Open(Main)
    /\ UNCHANGED <<inputs, pending, copies, failed>>

\* Mutant: the check is inverted.
AddOnlyWaiting(f) == pending' = IF f \in InQueue THEN Append(pending, f) ELSE pending

\* Mutant: a file is added whether it waits already or not.
AddAlways(f) == pending' = Append(pending, f)

\* FModelManager::addPendingFidl: a file already waiting is not added again; whether it
\* has been parsed is not asked (m_processedFidls is written and never read).
AddPendingFidl(f) == pending' = IF f \in InQueue THEN pending ELSE Append(pending, f)

\* The next import statement of the current file.
Import ==
    /\ phase = "parsing" /\ pos \in DOMAIN imports[cur]
    /\ AddPendingFidl(imports[cur][pos])
    /\ pos' = pos + 1
    /\ UNCHANGED <<inputs, phase, cur, copies, failed>>

\* Mutant: failed tells of the last file only.
EndOfFileForgetsFailure ==
    /\ phase = "parsing" /\ pos \notin DOMAIN imports[cur]
    /\ phase' = "between" /\ cur' = NoFile /\ pos' = 1
    /\ failed' = (cur \in bad)
    /\ copies' = IF cur \in bad THEN copies
                                ELSE [copies EXCEPT ![cur] = IF @ = 0 THEN 1 ELSE 2]
    /\ UNCHANGED <<inputs, pending>>

\* The parser returns.  (After a failure the models are cleared in the end, so what the
\* failed file left behind is not counted.)
EndOfFile ==
    /\ phase = "parsing" /\ pos \notin DOMAIN imports[cur]
    /\ phase' = "between" /\ cur' = NoFile /\ pos' = 1
    /\ IF cur \in bad
          THEN failed' = TRUE /\ UNCHANGED copies
          ELSE copies' = [copies EXCEPT ![cur] = IF @ = 0 THEN 1 ELSE 2] /\ UNCHANGED failed
    /\ UNCHANGED <<inputs, pending>>

\* Mutant: pop_front is missing.
ParsePendingKeepsFront ==
    /\ phase = "between" /\ pending # <<>>
    /\ Open(Head(pending))
    /\ UNCHANGED <<inputs, pending, copies, failed>>

\* The next pending file.
ParsePending ==
    /\ phase = "between" /\ pending # <<>>
    /\ Open(Head(pending))
    /\ pending' = Tail(pending)
    /\ UNCHANGED <<inputs, copies, failed>>

\* mgr.clear()
Clear ==
    /\ pending' = <<>>
    /\ copies' = [f \in File |-> 0]

\* Mutant: the models of a failed load are kept.
FinishWithoutClear == \E thrown \in BOOLEAN :
    /\ phase = "between" /\ pending = <<>>
    /\ phase' = IF failed \/ thrown THEN "rejected" ELSE "accepted"
    /\ UNCHANGED <<inputs, cur, pos, pending, copies, failed>>

\* The pending list is empty.  A parse error clears the models; else references are
\* resolved and models validated, whose results are ignored, unless one throws.
Finish == \E thrown \in BOOLEAN :
    /\ phase = "between" /\ pending = <<>>
    /\ IF failed \/ thrown
          THEN phase' = "rejected" /\ Clear
          ELSE phase' = "accepted" /\ UNCHANGED <<pending, copies>>
    /\ UNCHANGED <<inputs, cur, pos, failed>>

Next == ParseMain \/ Import \/ EndOfFile \/ ParsePending \/ Finish

Spec == Init /\ [][Next]_vars

\* The program is one thread that does nothing else.
FairSpec == Spec /\ WF_vars(Next)

-----------------------------------------------------------------------------
(* Properties.                                                             *)

TypeOK ==
    /\ imports \in [File -> ImportList] /\ bad \subseteq File
    /\ phase \in {"start", "parsing", "between", "accepted", "rejected"}
    /\ IF phase = "parsing" THEN cur \in File /\ pos \in 1..(Len(imports[cur]) + 1)
                            ELSE cur = NoFile /\ pos = 1
    /\ pending \in Seq(File)
    /\ copies \in [File -> 0..2]
    /\ failed \in BOOLEAN

\* A set of files that holds everything its members import.
Closed(S) == \A f \in S : Imported(f) \subseteq S

\* A model that is returned is complete: the main file and everything it imports,
\* directly or through other files, has been parsed, and nothing else has.
AcceptedIsClosure == phase = "accepted" =>
    /\ Main \in Copied /\ Closed(Copied)
    /\ \A S \in SUBSET File : Main \in S /\ Closed(S) => Copied \subseteq S

\* One file with a syntax error anywhere among the imports is enough for no model to be
\* returned, whatever is parsed after it.
NothingFromBadImports == phase = "accepted" => \A f \in bad : f \notin Copied /\
    (\A g \in Copied : f \notin Imported(g))

\* The main file is at depth 0, and every import one deeper than each file that imports it:
\* all chains of imports that lead to a file are equally long.
Layered(depth) == depth[Main] = 0 /\ \A f \in File : \A g \in Imported(f) : depth[g] = depth[f] + 1

\* A file that is imported several times, all along equally long chains, is copied into the
\* model once, although nothing asks whether it has been parsed: the list is first in, first
\* out, so that all who import a file are parsed while it still waits.
OnceIfLayered == (\E depth \in [File -> 0..Cardinality(File)] : Layered(depth)) =>
    \A f \in File : copies[f] <= 1

\* No file imports itself, directly or through others.
Acyclic == \A S \in SUBSET File : S # {} => \E f \in S : Imported(f) \cap S = {}

Stopped == phase \in {"accepted", "rejected"}

\* Loading comes to an end when no file imports itself, with syntax errors or without.
LoadTerminates == Acyclic ~> Stopped
=============================================================================
