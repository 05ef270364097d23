----------------------------- MODULE DeplLoader ------------------------------
(***************************************************************************)
(* FDParser::parse: a deployment file (.fdepl) is parsed, the deployment   *)
(* files it imports are worked off from FDModelManager's pending list, and *)
(* then the interface files (.fidl) all of them import, from               *)
(* FModelManager's, which the .fidl files extend in turn.  Whatever fails  *)
(* is remembered in `failed', the rest is still parsed, resolved and       *)
(* validated, and in the end a failed load clears both managers.           *)
(*                                                                         *)
(* As in FidlLoader a file is abstracted to its import statements and to   *)
(* the number of copies of its contents; parsed, a history variable,       *)
(* counts how often a file has been parsed at all.  Two stands for two or  *)
(* more copies, three for three or more parses.                            *)
(***************************************************************************)
EXTENDS Naturals, Sequences, FiniteSets

CONSTANTS Fdepl, Fidl,  \* the deployment files and the interface files
          Main,         \* the deployment file named on the command line
          MaxImports,   \* bound: import statements in a file
          MaxBad        \* bound: files with a syntax error

File == Fdepl \cup Fidl

ASSUME FileAssumption ==
    Main \in Fdepl /\ Fdepl \cap Fidl = {} /\ MaxImports \in Nat /\ MaxBad \in Nat

Lists(S) == UNION {[1..n -> S] : n \in 0..MaxImports}
NoFile   == "none"

ASSUME NoFileAssumption == NoFile \notin File

VARIABLES
    imports,        \* File -> its import statements, as far as the parser gets; never changes
    bad,            \* files with a syntax error after those imports; never changes
    phase,          \* "start", "main", "fdepl", "fidl", "accepted", "rejected"
    cur, pos,       \* the file being parsed and the import statement that comes next
    pendingModels, processedModels,  \* of FDModelManager
    pendingFidls,                    \* m_pendingFidls of FModelManager
    copies,         \* File -> copies of its contents in the two managers
    failed,
    parsed          \* history: File -> how often it has been parsed

inputs == <<imports, bad>>
vars == <<inputs, phase, cur, pos, pendingModels, processedModels, pendingFidls,
          copies, failed, parsed>>

Contents(queue) == {queue[i] : i \in DOMAIN queue}
Copied      == {f \in File : copies[f] > 0}
Imported(f) == Contents(imports[f])
UpTo(n, bound) == IF n < bound THEN n + 1 ELSE bound

Init ==
    /\ imports \in [File -> Lists(File)]
    /\ \A f \in Fidl : Imported(f) \subseteq Fidl
    /\ bad \in SUBSET File /\ Cardinality(bad) <= MaxBad
    /\ phase = "start" /\ cur = NoFile /\ pos = 1
    /\ pendingModels = <<>> /\ processedModels = {} /\ pendingFidls = <<>>
    /\ copies = [f \in File |-> 0] /\ parsed = [f \in File |-> 0]
    /\ failed = FALSE

Open(f) ==
    /\ cur' = f /\ pos' = 1
    /\ parsed' = [parsed EXCEPT ![f] = UpTo(@, 3)]

\* depl_parser.parse(filename), the file the user named.
ParseMain ==
    /\ phase = "start"
    /\ phase' = "main" /\ Open(Main)
    /\ UNCHANGED <<inputs, pendingModels, processedModels, pendingFidls, copies, failed>>

\* addListItem
AddListItem(queue, f) == IF f \in Contents(queue) THEN queue ELSE Append(queue, f)

\* Mutant: whether a file has been processed is not asked.
AddPendingModelAlways(f) == pendingModels' = AddListItem(pendingModels, f)

\* FDModelManager::addPendingModel
AddPendingModel(f) ==
    pendingModels' = IF f \in processedModels THEN pendingModels
                                              ELSE AddListItem(pendingModels, f)

\* The next import statement of the current file, by the extension of what it names.
Import ==
    /\ cur # NoFile /\ pos \in DOMAIN imports[cur]
    /\ LET f == imports[cur][pos] IN
         IF f \in Fidl
            THEN pendingFidls' = AddListItem(pendingFidls, f) /\ UNCHANGED pendingModels
            ELSE AddPendingModel(f) /\ UNCHANGED pendingFidls
    /\ pos' = pos + 1
    /\ UNCHANGED <<inputs, phase, cur, processedModels, copies, failed, parsed>>

\* Mutant: no file is marked processed.
EndOfFileUnmarked ==
    /\ cur # NoFile /\ pos \notin DOMAIN imports[cur]
    /\ cur' = NoFile /\ pos' = 1
    /\ phase' = IF phase = "main" THEN "fdepl" ELSE phase
    /\ IF cur \in bad
          THEN failed' = TRUE /\ UNCHANGED copies
          ELSE copies' = [copies EXCEPT ![cur] = UpTo(@, 2)] /\ UNCHANGED failed
    /\ UNCHANGED <<inputs, pendingModels, processedModels, pendingFidls, parsed>>

\* The parser returns.  Files from a pending list are marked processed once they have
\* been parsed without error, .fidl files too, and in FDModelManager; the main file is not.
EndOfFile ==
    /\ cur # NoFile /\ pos \notin DOMAIN imports[cur]
    /\ cur' = NoFile /\ pos' = 1
    /\ phase' = IF phase = "main" THEN "fdepl" ELSE phase
    /\ IF cur \in bad
          THEN failed' = TRUE /\ UNCHANGED <<processedModels, copies>>
          ELSE /\ copies' = [copies EXCEPT ![cur] = UpTo(@, 2)]
               /\ processedModels' = IF phase = "main" THEN processedModels
                                                       ELSE processedModels \cup {cur}
               /\ UNCHANGED failed
    /\ UNCHANGED <<inputs, pendingModels, pendingFidls, parsed>>

\* The first loop ...
ParsePendingModel ==
    /\ phase = "fdepl" /\ cur = NoFile /\ pendingModels # <<>>
    /\ Open(Head(pendingModels))
    /\ pendingModels' = Tail(pendingModels)
    /\ UNCHANGED <<inputs, phase, processedModels, pendingFidls, copies, failed>>

\* Mutant: the two loops are one, which takes interface files first.
ParsePendingFidlFirst ==
    /\ cur = NoFile /\ pendingFidls # <<>>
    /\ phase \in {"fdepl", "fidl"}
    /\ phase' = "fidl"
    /\ Open(Head(pendingFidls))
    /\ pendingFidls' = Tail(pendingFidls)
    /\ UNCHANGED <<inputs, pendingModels, processedModels, copies, failed>>

\* ... and the second, which starts when the first has nothing left.
ParsePendingFidl ==
    /\ cur = NoFile /\ pendingFidls # <<>>
    /\ phase \in {"fdepl", "fidl"} /\ pendingModels = <<>>
    /\ phase' = "fidl"
    /\ Open(Head(pendingFidls))
    /\ pendingFidls' = Tail(pendingFidls)
    /\ UNCHANGED <<inputs, pendingModels, processedModels, copies, failed>>

\* Mutant: the second loop is left to nobody.
FinishEarly == \E valid \in BOOLEAN :
    /\ phase \in {"fdepl", "fidl"} /\ cur = NoFile
    /\ pendingModels = <<>>
    /\ IF valid /\ ~failed
          THEN phase' = "accepted" /\ UNCHANGED <<processedModels, copies>>
          ELSE /\ phase' = "rejected"
               /\ processedModels' = {} /\ copies' = [f \in File |-> 0]
    /\ UNCHANGED <<inputs, cur, pos, pendingModels, pendingFidls, failed, parsed>>

\* Models are resolved and validated (the result for .fidl references is ignored, the
\* three others count); a failed load clears both managers.
Finish == \E valid \in BOOLEAN :
    /\ phase \in {"fdepl", "fidl"} /\ cur = NoFile
    /\ pendingModels = <<>> /\ pendingFidls = <<>>
    /\ IF valid /\ ~failed
          THEN phase' = "accepted" /\ UNCHANGED <<processedModels, copies>>
          ELSE phase' = "rejected" /\ processedModels' = {} /\ copies' = [f \in File |-> 0]
    /\ UNCHANGED <<inputs, cur, pos, pendingModels, pendingFidls, failed, parsed>>

Next == ParseMain \/ Import \/ EndOfFile \/ ParsePendingModel \/ ParsePendingFidl \/ Finish

Spec == Init /\ [][Next]_vars

\* The program is one thread that does nothing else.
FairSpec == Spec /\ WF_vars(Next)

-----------------------------------------------------------------------------
(* Properties.                                                             *)

TypeOK ==
    /\ imports \in [File -> Lists(File)] /\ bad \subseteq File
    /\ phase \in {"start", "main", "fdepl", "fidl", "accepted", "rejected"}
    /\ IF cur = NoFile THEN pos = 1 ELSE cur \in File /\ pos \in 1..(Len(imports[cur]) + 1)
    /\ phase = "main" => cur = Main
    /\ phase = "fidl" => pendingModels = <<>>
    /\ pendingModels \in Seq(Fdepl) /\ pendingFidls \in Seq(Fidl)
    /\ processedModels \subseteq File
    /\ copies \in [File -> 0..2] /\ parsed \in [File -> 0..3]
    /\ failed \in BOOLEAN

\* A set of files that holds everything its members import.
Closed(S) == \A f \in S : Imported(f) \subseteq S

\* The managers that are handed on hold the main file and everything it imports, .fdepl
\* or .fidl, and nothing else.
AcceptedIsClosure == phase = "accepted" =>
    /\ Main \in Copied /\ Closed(Copied)
    /\ \A S \in SUBSET File : Main \in S /\ Closed(S) => Copied \subseteq S

\* addPendingModel keeps a deployment file that has been processed from being parsed
\* again, in every graph of imports: two parses are for the main file, which is not
\* marked, and for a file that imports itself, which is not marked yet.
FdeplParsedOnce == \A f \in Fdepl \ bad :
    parsed[f] <= 1 + (IF f = Main THEN 1 ELSE 0) + (IF f \in Imported(f) THEN 1 ELSE 0)

\* Deployment files that are free of syntax errors may import each other in circles:
\* loading ends as long as the interface files do not.
Acyclic(S) == \A T \in SUBSET S : T # {} => \E f \in T : Imported(f) \cap T = {}
Stopped == phase \in {"accepted", "rejected"}
LoadTerminates == Acyclic(Fidl) /\ Acyclic(Fdepl \cap bad) ~> Stopped
=============================================================================
