-------------------------- MODULE DeplLoaderProofs ---------------------------
(* Proofs about DeplLoader that hold for every set of deployment and interface *)
(* files and every graph of imports among them, circles included.              *)
EXTENDS MCDeplLoader, QueueLemmas, TLAPS

\* Interface files import only interface files, and only they are parsed in the second
\* loop, so that it adds nothing to the list of the first.
SecondLoop ==
    /\ \A f \in Fidl : Imported(f) \subseteq Fidl
    /\ phase = "fidl" => cur \in Fidl \cup {NoFile}
    /\ phase = "start" => cur = NoFile /\ pendingModels = <<>> /\ processedModels = {}
    /\ phase \in {"accepted", "rejected"} => cur = NoFile

Typed == TypeOK /\ SecondLoop

\* Files that have been parsed, are being parsed, or wait to be.
Seen == Copied \cup Contents(pendingModels) \cup Contents(pendingFidls) \cup {cur}

\* While nothing has failed, no import that has been read is forgotten.
NoneForgotten == ~failed /\ phase # "rejected" =>
    /\ phase # "start" => Main \in Seen
    /\ \A f \in Copied : Imported(f) \subseteq Seen
    /\ cur # NoFile => \A i \in 1..(pos - 1) : imports[cur][i] \in Seen

\* Nothing is read that the main file does not lead to.
NoneInvented ==
    \A S \in SUBSET File : Main \in S /\ Closed(S) => Seen \subseteq S \cup {NoFile}

\* What addPendingModel takes for processed has been loaded, and a load that is accepted
\* has emptied both lists without an error.
ProcessedLoaded ==
    /\ processedModels \subseteq Copied
    /\ phase = "accepted" => ~failed /\ pendingModels = <<>> /\ pendingFidls = <<>>

Inductive == Typed /\ NoneForgotten /\ NoneInvented /\ ProcessedLoaded

-----------------------------------------------------------------------------
(* Type correctness.                                                       *)

LEMMA ImportsAreSequences ==
    ASSUME TypeOK
    PROVE  \A f \in File : /\ imports[f] \in Seq(File) /\ Len(imports[f]) \in Nat
                          /\ \A i \in DOMAIN imports[f] : imports[f][i] \in File
<1>1. \A f \in File : imports[f] \in Lists(File)
  BY DEF TypeOK
<1>2. \A f \in File : imports[f] \in Seq(File)
  BY <1>1, FileAssumption, BoundedIsSequence DEF Lists
<1>3. \A f \in File : \A i \in DOMAIN imports[f] : imports[f][i] \in File
  BY <1>2, LenProperties, ElementOfSeq
<1> QED
  BY <1>2, <1>3, LenProperties

LEMMA ImportedAreFiles ==
    ASSUME TypeOK
    PROVE  \A f \in File : Imported(f) \subseteq File /\ NoFile \notin Imported(f)
BY ImportsAreSequences, NoFileAssumption DEF Imported, Contents

LEMMA InitType == Init => Typed
<1> SUFFICES ASSUME Init PROVE Typed
  OBVIOUS
<1>1. copies \in [File -> 0..2] /\ parsed \in [File -> 0..3]
  BY DEF Init
<1>2. pendingModels \in Seq(Fdepl) /\ pendingFidls \in Seq(Fidl)
  BY DEF Init
<1>3. TypeOK
  BY <1>1, <1>2 DEF Init, TypeOK
<1>4. SecondLoop
  BY DEF Init, SecondLoop
<1> QED
  BY <1>3, <1>4 DEF Typed

\* Opening a file is right for its position and for the count of its parses.
LEMMA OpenType ==
    ASSUME TypeOK, NEW f \in File, Open(f), UNCHANGED inputs
    PROVE  cur' = f /\ pos' \in 1..(Len(imports'[f]) + 1) /\ parsed' \in [File -> 0..3]
<1>1. Len(imports[f]) \in Nat
  BY ImportsAreSequences
<1>2. UpTo(parsed[f], 3) \in 0..3
  BY DEF UpTo, TypeOK
<1>3. parsed' = [parsed EXCEPT ![f] = UpTo(parsed[f], 3)] /\ parsed \in [File -> 0..3]
  BY DEF Open, TypeOK
<1> QED
  BY <1>1, <1>2, <1>3 DEF Open, inputs

LEMMA ImportType ==
    ASSUME Typed, Import
    PROVE  Typed'
<1>1. /\ cur \in File /\ pos \in DOMAIN imports[cur] /\ imports[cur][pos] \in File
      /\ imports[cur] \in Seq(File) /\ imports[cur][pos] \in Imported(cur)
  BY ImportsAreSequences, NoFileAssumption DEF Import, Typed, TypeOK, Imported, Contents
<1>2. pendingFidls' \in Seq(Fidl)
  <2>1. ASSUME NEW f \in Fidl PROVE AddListItem(pendingFidls, f) \in Seq(Fidl)
    BY DEF AddListItem, Typed, TypeOK
  <2> QED
    BY <2>1 DEF Import, Typed, TypeOK
<1>3. pendingModels' \in Seq(Fdepl)
  <2>1. ASSUME NEW f \in Fdepl PROVE AddListItem(pendingModels, f) \in Seq(Fdepl)
    BY DEF AddListItem, Typed, TypeOK
  <2>2. imports[cur][pos] \in Fdepl \/ imports[cur][pos] \in Fidl
    BY <1>1 DEF File
  <2> QED
    BY <2>1, <2>2 DEF Import, AddPendingModel, Typed, TypeOK
<1>4. phase = "fidl" => pendingModels' = <<>>
  <2> SUFFICES ASSUME phase = "fidl" PROVE pendingModels' = pendingModels
    BY DEF Typed, TypeOK
  <2>1. imports[cur][pos] \in Fidl
    BY <1>1, NoFileAssumption DEF Typed, SecondLoop
  <2> QED
    BY <2>1 DEF Import
<1>5. pos' \in 1..(Len(imports[cur]) + 1)
  BY <1>1 DEF Import
<1>6. TypeOK'
  BY <1>1, <1>2, <1>3, <1>4, <1>5, NoFileAssumption DEF Import, Typed, TypeOK, inputs
<1>7. SecondLoop'
  BY <1>1, NoFileAssumption DEF Import, Typed, SecondLoop, inputs, Imported, Contents
<1> QED
  BY <1>6, <1>7 DEF Typed

LEMMA EndOfFileType ==
    ASSUME Typed, EndOfFile
    PROVE  Typed'
<1>1. cur \in File /\ cur # NoFile
  BY DEF EndOfFile, Typed, TypeOK
<1>2. copies' \in [File -> 0..2]
  <2>1. UpTo(copies[cur], 2) \in 0..2
    BY <1>1 DEF UpTo, Typed, TypeOK
  <2> QED
    BY <2>1 DEF EndOfFile, Typed, TypeOK
<1>3. processedModels' \subseteq File /\ failed' \in BOOLEAN
  BY <1>1 DEF EndOfFile, Typed, TypeOK
<1>4. phase' \in {"fdepl", "fidl", "start", "accepted", "rejected"}
  BY DEF EndOfFile, Typed, TypeOK
<1>5. phase' = "fidl" => pendingModels = <<>>
  BY DEF EndOfFile, Typed, TypeOK
<1>6. phase \notin {"start", "accepted", "rejected"}
  BY <1>1 DEF Typed, SecondLoop
<1>7. TypeOK'
  BY <1>2, <1>3, <1>4, <1>5 DEF EndOfFile, Typed, TypeOK, inputs
<1>8. SecondLoop'
  BY <1>6 DEF EndOfFile, Typed, SecondLoop, inputs, Imported, Contents
<1> QED
  BY <1>7, <1>8 DEF Typed

LEMMA FinishType ==
    ASSUME Typed, Finish
    PROVE  Typed'
<1>1. copies' \in [File -> 0..2] /\ processedModels' \subseteq File
  BY DEF Finish, Typed, TypeOK
<1>2. phase' \in {"accepted", "rejected"}
  BY DEF Finish
<1>3. TypeOK'
  BY <1>1, <1>2 DEF Finish, Typed, TypeOK, inputs
<1>4. SecondLoop'
  BY <1>2 DEF Finish, Typed, SecondLoop, inputs, Imported, Contents
<1> QED
  BY <1>3, <1>4 DEF Typed

LEMMA StepType ==
    ASSUME Typed, [Next]_vars
    PROVE  Typed'
<1>1. CASE ParseMain
  <2>1. cur' = Main /\ pos' \in 1..(Len(imports'[Main]) + 1) /\ parsed' \in [File -> 0..3]
    BY <1>1, OpenType, FileAssumption DEF ParseMain, Typed, File
  <2> QED
    BY <1>1, <2>1, FileAssumption, NoFileAssumption
    DEF ParseMain, Typed, TypeOK, SecondLoop, inputs, Imported, Contents, File
<1>2. CASE Import
  BY <1>2, ImportType
<1>3. CASE EndOfFile
  BY <1>3, EndOfFileType
<1>4. CASE ParsePendingModel
  <2>1. Head(pendingModels) \in Fdepl /\ Tail(pendingModels) \in Seq(Fdepl)
    BY <1>4, TailContents DEF ParsePendingModel, Typed, TypeOK
  <2>2. /\ cur' = Head(pendingModels) /\ parsed' \in [File -> 0..3]
        /\ pos' \in 1..(Len(imports'[Head(pendingModels)]) + 1)
    BY <1>4, <2>1, OpenType DEF ParsePendingModel, Typed, File
  <2> QED
    BY <1>4, <2>1, <2>2, NoFileAssumption
    DEF ParsePendingModel, Typed, TypeOK, SecondLoop, inputs, Imported, Contents, File
<1>5. CASE ParsePendingFidl
  <2>1. Head(pendingFidls) \in Fidl /\ Tail(pendingFidls) \in Seq(Fidl)
    BY <1>5, TailContents DEF ParsePendingFidl, Typed, TypeOK
  <2>2. /\ cur' = Head(pendingFidls) /\ parsed' \in [File -> 0..3]
        /\ pos' \in 1..(Len(imports'[Head(pendingFidls)]) + 1)
    BY <1>5, <2>1, OpenType DEF ParsePendingFidl, Typed, File
  <2> QED
    BY <1>5, <2>1, <2>2, NoFileAssumption
    DEF ParsePendingFidl, Typed, TypeOK, SecondLoop, inputs, Imported, Contents, File
<1>6. CASE Finish
  BY <1>6, FinishType
<1>7. CASE UNCHANGED vars
  BY <1>7 DEF vars, inputs, Typed, TypeOK, SecondLoop, Imported, Contents
<1> QED
  BY <1>1, <1>2, <1>3, <1>4, <1>5, <1>6, <1>7 DEF Next

LEMMA AlwaysTyped == Spec => []Typed
BY InitType, StepType, PTL DEF Spec

\* Every variable keeps its type, in every graph of imports.
THEOREM TypeCorrect == Spec => []TypeOK
<1>1. Typed => TypeOK
  BY DEF Typed
<1> QED
  BY AlwaysTyped, <1>1, PTL
-----------------------------------------------------------------------------
(* What is handed on is the closure of the main file's imports.            *)

LEMMA CopiedAreFiles ==
    ASSUME TypeOK
    PROVE  Main # NoFile /\ \A f \in Copied : NoFile \notin Imported(f) /\ NoFile \notin Copied
<1>1. \A f \in File : NoFile \notin Imported(f)
  BY ImportedAreFiles
<1>2. Copied \subseteq File
  BY DEF Copied
<1> QED
  BY <1>1, <1>2, FileAssumption, NoFileAssumption DEF File

LEMMA AddContents ==
    ASSUME NEW T, NEW queue \in Seq(T), NEW f \in T
    PROVE  Contents(AddListItem(queue, f)) = Contents(queue) \cup {f}
<1>1. CASE f \in Contents(queue)
  BY <1>1 DEF AddListItem
<1>2. CASE f \notin Contents(queue)
  BY <1>2, AppendContents DEF AddListItem, Contents
<1> QED
  BY <1>1, <1>2

LEMMA TakenContents ==
    ASSUME NEW T, NEW queue \in Seq(T), queue # <<>>
    PROVE  Head(queue) \in T /\ Contents(queue) = Contents(Tail(queue)) \cup {Head(queue)}
<1>1. /\ Head(queue) \in T
      /\ {queue[i] : i \in DOMAIN queue} = {Head(queue)} \cup {Tail(queue)[i] : i \in DOMAIN Tail(queue)}
  BY TailContents
<1> QED
  BY <1>1 DEF Contents

LEMMA InitInductive == Init => Inductive
<1> SUFFICES ASSUME Init PROVE Inductive
  OBVIOUS
<1>1. Copied = {} /\ Contents(pendingModels) = {} /\ Contents(pendingFidls) = {} /\ cur = NoFile
  BY DEF Init, Copied, Contents
<1> QED
  BY <1>1, InitType DEF Init, Inductive, NoneForgotten, NoneInvented, ProcessedLoaded, Seen

\* An import statement makes its file one of those that are seen: a deployment file that
\* is not added has been loaded.
LEMMA ImportInductive ==
    ASSUME Inductive, Import
    PROVE  Inductive'
<1> DEFINE f == imports[cur][pos]
<1>0. TypeOK
  BY DEF Inductive, Typed
<1>1. /\ cur \in File /\ pos \in DOMAIN imports[cur] /\ f \in File
      /\ imports[cur] \in Seq(File) /\ f \in Imported(cur)
  BY <1>0, ImportsAreSequences, NoFileAssumption DEF Import, TypeOK, Imported, Contents
<1>2. /\ Copied' = Copied /\ cur' = cur /\ pos' = pos + 1 /\ phase' = phase
      /\ failed' = failed /\ processedModels' = processedModels /\ UNCHANGED inputs
  BY DEF Import, Copied
<1>3. Seen' = Seen \cup {f}
  <2>1. CASE f \in Fidl
    <3>1. pendingFidls' = AddListItem(pendingFidls, f) /\ pendingModels' = pendingModels
      BY <2>1 DEF Import
    <3>2. Contents(pendingFidls') = Contents(pendingFidls) \cup {f}
      BY <1>0, <2>1, <3>1, AddContents DEF TypeOK
    <3> QED
      BY <1>2, <3>1, <3>2 DEF Seen
  <2>2. CASE f \notin Fidl
    <3>1. AddPendingModel(f) /\ pendingFidls' = pendingFidls
      BY <2>2 DEF Import
    <3>2. CASE f \in processedModels
      <4>1. f \in Seen /\ pendingModels' = pendingModels
        BY <3>1, <3>2 DEF AddPendingModel, Inductive, ProcessedLoaded, Seen
      <4> QED
        BY <1>2, <3>1, <4>1 DEF Seen
    <3>3. CASE f \notin processedModels
      <4>1. f \in Fdepl /\ pendingModels' = AddListItem(pendingModels, f)
        BY <1>1, <2>2, <3>1, <3>3 DEF AddPendingModel, File
      <4>2. Contents(pendingModels') = Contents(pendingModels) \cup {f}
        BY <1>0, <4>1, AddContents DEF TypeOK
      <4> QED
        BY <1>2, <3>1, <4>2 DEF Seen
    <3> QED
      BY <3>2, <3>3
  <2> QED
    BY <2>1, <2>2
<1>4. NoneForgotten'
  <2>1. \A i \in 1..(pos' - 1) : i \in 1..(pos - 1) \/ i = pos
    BY <1>1, <1>2
  <2> QED
    BY <1>2, <1>3, <2>1 DEF Inductive, NoneForgotten, Imported, Contents, inputs
<1>5. NoneInvented'
  <2> SUFFICES ASSUME NEW S \in SUBSET File, Main \in S, Closed(S)
               PROVE  Seen' \subseteq S \cup {NoFile}
    BY <1>2 DEF NoneInvented, Closed, Imported, Contents, inputs
  <2>1. Seen \subseteq S \cup {NoFile}
    BY DEF Inductive, NoneInvented
  <2>2. cur \in S
    BY <1>1, <2>1, NoFileAssumption DEF Seen
  <2> QED
    BY <1>1, <1>3, <2>1, <2>2 DEF Closed
<1>6. ProcessedLoaded'
  <2>1. phase \notin {"accepted", "rejected"}
    BY <1>1, NoFileAssumption DEF Inductive, Typed, SecondLoop
  <2> QED
    BY <1>2, <2>1 DEF Inductive, ProcessedLoaded
<1> QED
  BY <1>4, <1>5, <1>6, ImportType DEF Inductive

LEMMA EndOfFileInductive ==
    ASSUME Inductive, EndOfFile
    PROVE  Inductive'
<1>0. TypeOK
  BY DEF Inductive, Typed
<1>1. /\ cur \in File /\ imports[cur] \in Seq(File) /\ pos \in 1..(Len(imports[cur]) + 1)
      /\ pos \notin DOMAIN imports[cur] /\ copies \in [File -> 0..2]
  BY <1>0, ImportsAreSequences DEF EndOfFile, TypeOK
<1>2. /\ pendingModels' = pendingModels /\ pendingFidls' = pendingFidls /\ cur' = NoFile
      /\ phase \notin {"start", "accepted", "rejected"}
      /\ phase' \notin {"start", "accepted", "rejected"} /\ UNCHANGED inputs
  BY DEF EndOfFile, Inductive, Typed, SecondLoop
<1>3. pos = Len(imports[cur]) + 1
  BY <1>1
<1>4. CASE cur \in bad
  <2>1. failed' /\ Copied' = Copied /\ processedModels' = processedModels
    BY <1>4 DEF EndOfFile, Copied
  <2>2. Seen' \subseteq Seen \cup {NoFile}
    BY <1>2, <2>1 DEF Seen
  <2>3. NoneInvented'
    BY <1>2, <2>2 DEF Inductive, NoneInvented, Closed, Imported, Contents, inputs
  <2>4. NoneForgotten' /\ ProcessedLoaded'
    BY <1>2, <2>1 DEF Inductive, NoneForgotten, ProcessedLoaded
  <2> QED
    BY <2>3, <2>4, EndOfFileType DEF Inductive
<1>5. CASE cur \notin bad
  <2>1. Copied' = Copied \cup {cur}
    <3>1. copies' = [copies EXCEPT ![cur] = UpTo(copies[cur], 2)]
      BY <1>5 DEF EndOfFile
    <3>2. UpTo(copies[cur], 2) > 0
      BY <1>1 DEF UpTo
    <3> QED
      BY <1>1, <3>1, <3>2 DEF Copied
  <2>2. failed' = failed /\ processedModels' \subseteq processedModels \cup {cur}
    BY <1>5 DEF EndOfFile
  <2>3. Seen' = Seen \cup {NoFile}
    BY <1>2, <2>1 DEF Seen
  <2>4. ~failed => Imported(cur) \subseteq Seen
    BY <1>1, <1>2, <1>3, NoFileAssumption DEF Inductive, NoneForgotten, Imported, Contents
  <2>5. NoneForgotten'
    BY <1>2, <2>1, <2>2, <2>3, <2>4 DEF Inductive, NoneForgotten, Imported, Contents, inputs
  <2>6. NoneInvented'
    BY <1>2, <2>3 DEF Inductive, NoneInvented, Closed, Imported, Contents, inputs
  <2>7. ProcessedLoaded'
    BY <1>2, <2>1, <2>2 DEF Inductive, ProcessedLoaded
  <2> QED
    BY <2>5, <2>6, <2>7, EndOfFileType DEF Inductive
<1> QED
  BY <1>4, <1>5

\* Taking a file from a list keeps what is seen.
LEMMA TakenIsSeen ==
    ASSUME TypeOK, ParsePendingModel \/ ParsePendingFidl
    PROVE  /\ Seen = Seen' \cup {NoFile}
           /\ cur = NoFile /\ pos' = 1 /\ phase \in {"fdepl", "fidl"} /\ phase' \in {"fdepl", "fidl"}
           /\ UNCHANGED <<inputs, processedModels, copies, failed>>
<1>1. CASE ParsePendingModel
  <2>1. /\ pendingModels \in Seq(Fdepl) /\ pendingModels # <<>> /\ cur' = Head(pendingModels)
        /\ pendingModels' = Tail(pendingModels) /\ pendingFidls' = pendingFidls /\ cur = NoFile
        /\ Copied' = Copied
    BY <1>1 DEF ParsePendingModel, Open, TypeOK, Copied
  <2>2. Contents(pendingModels) = Contents(pendingModels') \cup {cur'}
    BY <2>1, TakenContents
  <2> QED
    BY <1>1, <2>1, <2>2 DEF Seen, ParsePendingModel, Open
<1>2. CASE ParsePendingFidl
  <2>1. /\ pendingFidls \in Seq(Fidl) /\ pendingFidls # <<>> /\ cur' = Head(pendingFidls)
        /\ pendingFidls' = Tail(pendingFidls) /\ pendingModels' = pendingModels /\ cur = NoFile
        /\ Copied' = Copied
    BY <1>2 DEF ParsePendingFidl, Open, TypeOK, Copied
  <2>2. Contents(pendingFidls) = Contents(pendingFidls') \cup {cur'}
    BY <2>1, TakenContents
  <2> QED
    BY <1>2, <2>1, <2>2 DEF Seen, ParsePendingFidl, Open
<1> QED
  BY <1>1, <1>2

LEMMA StepInductive ==
    ASSUME Inductive, [Next]_vars
    PROVE  Inductive'
<1>0. TypeOK /\ Typed'
  BY StepType DEF Inductive, Typed
<1>1. CASE ParseMain
  <2>1. /\ Copied' = Copied /\ cur' = Main /\ cur = NoFile /\ pos' = 1 /\ phase = "start"
        /\ phase' = "main" /\ failed' = failed /\ processedModels' = processedModels
        /\ pendingModels' = pendingModels /\ pendingFidls' = pendingFidls /\ UNCHANGED inputs
    BY <1>1 DEF ParseMain, Open, Copied, Inductive, Typed, SecondLoop
  <2>2. Main \in Seen' /\ Seen \subseteq Seen' \cup {NoFile} /\ Seen' \subseteq Seen \cup {Main}
    BY <2>1 DEF Seen
  <2>3. \A f \in Copied : NoFile \notin Imported(f)
    BY <1>0, CopiedAreFiles
  <2>4. NoneForgotten'
    BY <2>1, <2>2, <2>3 DEF Inductive, NoneForgotten, Imported, Contents, inputs
  <2>5. NoneInvented'
    BY <2>1, <2>2 DEF Inductive, NoneInvented, Closed, Imported, Contents, inputs
  <2>6. ProcessedLoaded'
    BY <2>1 DEF Inductive, ProcessedLoaded
  <2> QED
    BY <1>0, <2>4, <2>5, <2>6 DEF Inductive
<1>2. CASE Import
  BY <1>2, ImportInductive
<1>3. CASE EndOfFile
  BY <1>3, EndOfFileInductive
<1>4. CASE ParsePendingModel \/ ParsePendingFidl
  <2>1. Copied' = Copied
    BY <1>0, <1>4, TakenIsSeen DEF Copied
  <2>2. Main # NoFile /\ \A f \in Copied : NoFile \notin Imported(f)
    BY <1>0, CopiedAreFiles
  <2>3. NoneForgotten'
    BY <1>0, <1>4, <2>1, <2>2, TakenIsSeen DEF Inductive, NoneForgotten, Imported, Contents, inputs
  <2>4. NoneInvented'
    BY <1>0, <1>4, TakenIsSeen DEF Inductive, NoneInvented, Closed, Imported, Contents, inputs
  <2>5. ProcessedLoaded'
    BY <1>0, <1>4, <2>1, TakenIsSeen DEF Inductive, ProcessedLoaded
  <2> QED
    BY <1>0, <2>3, <2>4, <2>5 DEF Inductive
<1>5. CASE Finish
  <2>0. /\ cur = NoFile /\ cur' = NoFile /\ failed' = failed /\ pendingModels' = <<>> /\ pendingFidls' = <<>>
        /\ pendingModels = <<>> /\ pendingFidls = <<>> /\ phase # "rejected" /\ phase # "start"
        /\ UNCHANGED inputs
    BY <1>5 DEF Finish
  <2>1. CASE phase' = "accepted"
    <3>1. ~failed /\ processedModels' = processedModels /\ Copied' = Copied
      BY <1>5, <2>1 DEF Finish, Copied
    <3>2. Seen' = Seen
      BY <2>0, <3>1 DEF Seen
    <3> QED
      BY <1>0, <2>0, <2>1, <3>1, <3>2 DEF Inductive, NoneForgotten, NoneInvented, ProcessedLoaded,
                                          Closed, Imported, Contents, inputs
  <2>2. CASE phase' = "rejected"
    <3>1. Copied' = {} /\ processedModels' = {}
      BY <1>5, <2>2 DEF Finish, Copied
    <3>2. Seen' = {NoFile}
      BY <2>0, <3>1 DEF Seen, Contents
    <3> QED
      BY <1>0, <2>2, <3>1, <3>2 DEF Inductive, NoneForgotten, NoneInvented, ProcessedLoaded
  <2> QED
    BY <1>5, <2>1, <2>2 DEF Finish
<1>6. CASE UNCHANGED vars
  <2>1. Copied' = Copied /\ Seen' = Seen
    BY <1>6 DEF vars, Copied, Seen, Contents
  <2> QED
    BY <1>0, <1>6, <2>1 DEF vars, inputs, Inductive, NoneForgotten, NoneInvented,
                            ProcessedLoaded, Closed, Imported, Contents
<1> QED
  BY <1>1, <1>2, <1>3, <1>4, <1>5, <1>6 DEF Next

LEMMA AlwaysInductive == Spec => []Inductive
BY InitInductive, StepInductive, PTL DEF Spec

LEMMA InductiveClosure == Inductive => AcceptedIsClosure
<1> SUFFICES ASSUME Inductive, phase = "accepted"
             PROVE  /\ Main \in Copied /\ Closed(Copied)
                    /\ \A S \in SUBSET File : Main \in S /\ Closed(S) => Copied \subseteq S
  BY DEF AcceptedIsClosure
<1>1. ~failed /\ Seen = Copied \cup {NoFile}
  BY DEF Inductive, ProcessedLoaded, Typed, SecondLoop, Seen, Contents
<1>2. Main # NoFile /\ \A f \in Copied : NoFile \notin Imported(f) /\ NoFile \notin Copied
  BY CopiedAreFiles DEF Inductive, Typed
<1>3. Main \in Copied /\ Closed(Copied)
  BY <1>1, <1>2 DEF Inductive, NoneForgotten, Closed
<1>4. ASSUME NEW S \in SUBSET File, Main \in S, Closed(S) PROVE Copied \subseteq S
  BY <1>1, <1>4, NoFileAssumption DEF Inductive, NoneInvented, Copied
<1> QED
  BY <1>3, <1>4

\* What is handed on is the main file and everything it leads to, deployment files and
\* interface files, for every graph of imports, circles included.
THEOREM LoadIsClosure == Spec => []AcceptedIsClosure
BY AlwaysInductive, InductiveClosure, PTL
-----------------------------------------------------------------------------
(* No deployment file is parsed again once it has been processed.          *)

Waits(f) == IF f \in Contents(pendingModels) THEN 1 ELSE 0
Parsing(f) == IF f = cur /\ phase # "main" THEN 1 ELSE 0
AsMain(f) == IF f = Main /\ phase # "start" THEN 1 ELSE 0
Allowed(f) == 1 + (IF f = Main THEN 1 ELSE 0) + (IF f \in Imported(f) THEN 1 ELSE 0)

WaitsOnce == \A i, j \in DOMAIN pendingModels : pendingModels[i] = pendingModels[j] => i = j

\* What is not processed has been parsed as the main file or is being parsed, and waits at
\* the same time only if it imports itself; what is processed may still have to be parsed
\* again, but is not added any more.
Budget(f) ==
    /\ f \notin processedModels => /\ parsed[f] <= AsMain(f) + Parsing(f)
                                   /\ Parsing(f) = 1 /\ Waits(f) = 1 => f \in Imported(f)
    /\ f \in processedModels => parsed[f] + Waits(f) <= Allowed(f)

Sparing ==
    /\ Typed /\ WaitsOnce
    /\ IF phase \in {"accepted", "rejected"} THEN FdeplParsedOnce
                                            ELSE \A f \in Fdepl \ bad : Budget(f)

LEMMA InitSparing == Init => Sparing
<1> SUFFICES ASSUME Init PROVE Sparing
  OBVIOUS
<1>1. \A f \in Fdepl : parsed[f] = 0 /\ Allowed(f) >= 1 /\ f # NoFile
  BY NoFileAssumption DEF Init, File, Allowed
<1>2. WaitsOnce /\ phase = "start"
  BY DEF Init, WaitsOnce
<1>3. ASSUME NEW f \in Fdepl \ bad PROVE Budget(f)
  BY <1>1, <1>3 DEF Init, Budget, AsMain, Parsing
<1> QED
  BY <1>2, <1>3, InitType DEF Sparing

LEMMA Amounts ==
    ASSUME NEW f \in Fdepl
    PROVE  /\ Waits(f) \in {0, 1} /\ Parsing(f) \in {0, 1} /\ AsMain(f) \in {0, 1}
           /\ Allowed(f) \in Nat /\ AsMain(f) + 1 <= Allowed(f)
           /\ f \in Imported(f) => AsMain(f) + 2 <= Allowed(f)
<1>1. Waits(f) \in {0, 1} /\ Parsing(f) \in {0, 1} /\ AsMain(f) \in {0, 1}
  BY DEF Waits, Parsing, AsMain
<1>2. CASE f \in Imported(f)
  BY <1>1, <1>2 DEF AsMain, Allowed
<1>3. CASE f \notin Imported(f)
  BY <1>1, <1>3 DEF AsMain, Allowed
<1> QED
  BY <1>1, <1>2, <1>3

\* As long as a load goes on, the budget bounds how often a file is parsed.
LEMMA WithinBudget ==
    ASSUME Typed, NEW f \in Fdepl, Budget(f)
    PROVE  parsed[f] <= Allowed(f)
<1>1. parsed[f] \in Nat
  BY DEF Typed, TypeOK, File
<1> QED
  <2>1. CASE f \in processedModels
    BY <1>1, <2>1, Amounts DEF Budget
  <2>2. CASE f \notin processedModels
    BY <1>1, <2>2, Amounts DEF Budget
  <2> QED
    BY <2>1, <2>2

LEMMA SparingBounds == Sparing => FdeplParsedOnce
<1> SUFFICES ASSUME Sparing, phase \notin {"accepted", "rejected"}, NEW f \in Fdepl \ bad
             PROVE  parsed[f] <= Allowed(f)
  BY DEF Sparing, FdeplParsedOnce, Allowed
<1> QED
  BY WithinBudget DEF Sparing

LEMMA ImportSparing ==
    ASSUME Sparing, Import
    PROVE  WaitsOnce' /\ \A f \in Fdepl \ bad : Budget(f)'
<1> DEFINE g == imports[cur][pos]
<1>0. pendingModels \in Seq(Fdepl) /\ phase \notin {"accepted", "rejected"} /\ TypeOK
  BY DEF Sparing, Typed, TypeOK, SecondLoop, Import
<1>1. cur \in File /\ g \in File /\ g \in Imported(cur)
  BY <1>0, ImportsAreSequences DEF Import, TypeOK, Imported, Contents
<1>2. /\ processedModels' = processedModels /\ parsed' = parsed /\ cur' = cur /\ phase' = phase
      /\ imports' = imports
  BY DEF Import, inputs
<1>3. CASE g \in Fidl \/ g \in processedModels \/ g \in Contents(pendingModels)
  <2>1. pendingModels' = pendingModels
    BY <1>3 DEF Import, AddPendingModel, AddListItem
  <2> QED
    BY <1>0, <1>2, <2>1
    DEF Sparing, WaitsOnce, Budget, AsMain, Parsing, Waits, Allowed, Imported, Contents
<1>4. CASE ~(g \in Fidl \/ g \in processedModels \/ g \in Contents(pendingModels))
  <2>1. g \in Fdepl /\ pendingModels' = Append(pendingModels, g)
    BY <1>1, <1>4 DEF Import, AddPendingModel, AddListItem, File
  <2>2. WaitsOnce'
    BY <1>0, <1>4, <2>1, AppendDistinct DEF WaitsOnce, Sparing, Contents
  <2>3. Contents(pendingModels') = Contents(pendingModels) \cup {g}
    BY <1>0, <2>1, AppendContents DEF Contents
  <2>4. ASSUME NEW f \in Fdepl \ bad PROVE Budget(f)'
    <3>1. Budget(f) /\ AsMain(f)' = AsMain(f) /\ Parsing(f)' = Parsing(f) /\ Allowed(f)' = Allowed(f)
          /\ parsed'[f] = parsed[f] /\ (f \in Imported(f))' = (f \in Imported(f))
      BY <1>0, <1>2 DEF Sparing, AsMain, Parsing, Allowed, Imported, Contents
    <3>2. CASE f = g
      <4>1. Parsing(f) = 1 => f \in Imported(f)
        BY <1>1, <3>2 DEF Parsing
      <4> QED
        BY <1>2, <1>4, <3>1, <3>2, <4>1 DEF Budget
    <3>3. CASE f # g
      <4>1. Waits(f)' = Waits(f)
        BY <2>3, <3>3 DEF Waits
      <4> QED
        BY <1>2, <3>1, <4>1 DEF Budget
    <3> QED
      BY <3>2, <3>3
  <2> QED
    BY <2>2, <2>4
<1> QED
  BY <1>3, <1>4

LEMMA EndOfFileSparing ==
    ASSUME Sparing, EndOfFile
    PROVE  WaitsOnce' /\ \A f \in Fdepl \ bad : Budget(f)'
<1>0. /\ TypeOK /\ phase \notin {"accepted", "rejected", "start"}
      /\ cur \in File /\ cur # NoFile /\ cur' = NoFile
  BY DEF Sparing, Typed, TypeOK, SecondLoop, EndOfFile
<1>1. /\ pendingModels' = pendingModels /\ parsed' = parsed /\ imports' = imports
      /\ phase' \notin {"main", "start"} /\ (phase = "main" => cur = Main)
  BY <1>0 DEF EndOfFile, inputs, TypeOK
<1>2. WaitsOnce'
  BY <1>1 DEF Sparing, WaitsOnce
<1>3. ASSUME NEW f \in Fdepl \ bad PROVE Budget(f)'
  <2>1. /\ Budget(f) /\ parsed[f] \in Nat /\ f # NoFile /\ parsed'[f] = parsed[f]
        /\ Waits(f)' = Waits(f) /\ Allowed(f)' = Allowed(f)
        /\ AsMain(f)' = AsMain(f) /\ Parsing(f)' = 0
    BY <1>0, <1>1, <1>3, NoFileAssumption
    DEF Sparing, TypeOK, File, Waits, Allowed, AsMain, Parsing, Imported, Contents
  <2>2. CASE f # cur \/ phase = "main"
    <3>1. (f \in processedModels' <=> f \in processedModels) /\ Parsing(f) = 0
      BY <2>2 DEF EndOfFile, Parsing
    <3> QED
      BY <2>1, <3>1 DEF Budget, AsMain
  <2>3. CASE f = cur /\ phase # "main"
    <3>1. f \in processedModels'
      BY <1>3, <2>3 DEF EndOfFile
    <3>2. CASE f \in processedModels
      BY <2>1, <3>1, <3>2 DEF Budget
    <3>3. CASE f \notin processedModels
      <4>1. Parsing(f) = 1
        BY <2>3 DEF Parsing
      <4>2. parsed[f] <= AsMain(f) + 1 /\ (Waits(f) = 1 => f \in Imported(f))
        BY <2>1, <3>3, <4>1 DEF Budget
      <4>3. parsed[f] + Waits(f) <= Allowed(f)
        BY <2>1, <4>2, Amounts
      <4> QED
        BY <2>1, <3>1, <4>3 DEF Budget
    <3> QED
      BY <3>2, <3>3
  <2> QED
    BY <2>2, <2>3
<1> QED
  BY <1>2, <1>3

LEMMA ParseModelSparing ==
    ASSUME Sparing, ParsePendingModel
    PROVE  WaitsOnce' /\ \A f \in Fdepl \ bad : Budget(f)'
<1> DEFINE g == Head(pendingModels)
<1>0. /\ TypeOK /\ phase = "fdepl" /\ phase' = "fdepl" /\ cur = NoFile /\ cur' = g
      /\ pendingModels \in Seq(Fdepl) /\ pendingModels # <<>>
      /\ pendingModels' = Tail(pendingModels) /\ imports' = imports
      /\ processedModels' = processedModels /\ parsed' = [parsed EXCEPT ![g] = UpTo(parsed[g], 3)]
  BY DEF Sparing, Typed, TypeOK, ParsePendingModel, Open, inputs
<1>1. WaitsOnce' /\ g \notin Contents(pendingModels')
  BY <1>0, TailDistinct DEF Sparing, WaitsOnce, Contents
<1>2. Contents(pendingModels) = Contents(pendingModels') \cup {g} /\ g \in Fdepl
  BY <1>0, TakenContents
<1>3. ASSUME NEW f \in Fdepl \ bad PROVE Budget(f)'
  <2>1. /\ Budget(f) /\ parsed[f] \in Nat /\ f # NoFile /\ Parsing(f) = 0
        /\ Allowed(f)' = Allowed(f) /\ AsMain(f)' = AsMain(f) /\ AsMain(f) \in Nat
    BY <1>0, <1>3, NoFileAssumption
    DEF Sparing, TypeOK, File, Allowed, AsMain, Parsing, Imported, Contents
  <2>2. CASE f = g
    <3>1. Waits(f)' = 0 /\ Waits(f) = 1 /\ Parsing(f)' = 1
      BY <1>0, <1>1, <1>2, <2>2 DEF Waits, Parsing
    <3>2. parsed'[f] <= parsed[f] + 1 /\ parsed'[f] \in Nat
      <4>1. parsed'[f] = UpTo(parsed[f], 3) /\ parsed[f] <= 3
        BY <1>0, <1>2, <2>2 DEF TypeOK, File
      <4> QED
        BY <2>1, <4>1 DEF UpTo
    <3>3. f \notin processedModels => parsed'[f] <= AsMain(f) + 1
      <4> SUFFICES ASSUME f \notin processedModels PROVE parsed[f] <= AsMain(f) + 0
        BY <2>1, <3>2
      <4> QED
        BY <2>1 DEF Budget
    <3>4. f \in processedModels => parsed'[f] + 0 <= Allowed(f)
      <4> SUFFICES ASSUME f \in processedModels PROVE parsed[f] + 1 <= Allowed(f)
        BY <2>1, <3>2, Amounts
      <4> QED
        BY <2>1, <3>1 DEF Budget
    <3> QED
      BY <1>0, <2>1, <3>1, <3>3, <3>4 DEF Budget
  <2>3. CASE f # g
    <3>1. Waits(f)' = Waits(f) /\ Parsing(f)' = 0 /\ parsed'[f] = parsed[f]
      BY <1>0, <1>2, <2>3 DEF Waits, Parsing, TypeOK, File
    <3> QED
      BY <1>0, <2>1, <3>1 DEF Budget
  <2> QED
    BY <2>2, <2>3
<1> QED
  BY <1>1, <1>3

\* The main file's first parse, and the parse of an interface file.
LEMMA OtherParsesSparing ==
    ASSUME Sparing, ParseMain \/ ParsePendingFidl
    PROVE  WaitsOnce' /\ \A f \in Fdepl \ bad : Budget(f)'
<1>1. CASE ParseMain
  <2>0. /\ TypeOK /\ phase = "start" /\ phase' = "main" /\ cur = NoFile /\ cur' = Main
        /\ pendingModels' = pendingModels /\ processedModels' = {} /\ processedModels = {}
        /\ parsed' = [parsed EXCEPT ![Main] = UpTo(parsed[Main], 3)]
    BY <1>1 DEF Sparing, Typed, SecondLoop, ParseMain, Open
  <2>1. ASSUME NEW f \in Fdepl \ bad PROVE Budget(f)'
    <3>1. /\ Parsing(f)' = 0 /\ AsMain(f)' = (IF f = Main THEN 1 ELSE 0) /\ parsed[f] = 0
      <4>1. Budget(f) /\ Parsing(f) = 0 /\ AsMain(f) = 0 /\ parsed[f] \in Nat
        BY <2>0, NoFileAssumption DEF Sparing, Parsing, AsMain, TypeOK, File
      <4>2. parsed[f] <= 0 + 0
        BY <2>0, <4>1 DEF Budget
      <4> QED
        BY <2>0, <4>1, <4>2 DEF Parsing, AsMain
    <3>2. parsed'[f] = IF f = Main THEN 1 ELSE 0
      BY <2>0, <3>1 DEF UpTo, TypeOK, File
    <3> QED
      BY <2>0, <3>1, <3>2 DEF Budget
  <2> QED
    BY <2>0, <2>1 DEF Sparing, WaitsOnce
<1>2. CASE ParsePendingFidl
  <2>0. /\ TypeOK /\ phase \in {"fdepl", "fidl"} /\ phase' = "fidl" /\ cur = NoFile
        /\ cur' \in Fidl /\ pendingModels' = pendingModels /\ processedModels' = processedModels
        /\ parsed' = [parsed EXCEPT ![cur'] = UpTo(parsed[cur'], 3)] /\ imports' = imports
    BY <1>2, TailContents DEF Sparing, Typed, TypeOK, ParsePendingFidl, Open, inputs
  <2>1. ASSUME NEW f \in Fdepl \ bad PROVE Budget(f)'
    <3>1. f # cur' /\ parsed'[f] = parsed[f] /\ f # NoFile
      BY <2>0, FileAssumption, NoFileAssumption DEF TypeOK, File
    <3>2. Parsing(f)' = Parsing(f) /\ AsMain(f)' = AsMain(f) /\ Waits(f)' = Waits(f)
      BY <2>0, <3>1 DEF Parsing, AsMain, Waits
    <3> QED
      BY <2>0, <3>1, <3>2 DEF Sparing, Budget, Allowed, Imported, Contents
  <2> QED
    BY <2>0, <2>1 DEF Sparing, WaitsOnce
<1> QED
  BY <1>1, <1>2

LEMMA StepSparing ==
    ASSUME Sparing, [Next]_vars
    PROVE  Sparing'
<1>0. Typed /\ Typed' /\ bad' = bad
  BY StepType DEF Sparing, vars, inputs, Next, ParseMain, Import, EndOfFile, ParsePendingModel,
     ParsePendingFidl, Finish
<1>1. CASE ParseMain \/ Import \/ EndOfFile \/ ParsePendingModel \/ ParsePendingFidl
  <2>1. WaitsOnce' /\ \A f \in Fdepl \ bad : Budget(f)'
    BY <1>1, ImportSparing, EndOfFileSparing, ParseModelSparing, OtherParsesSparing
  <2>2. phase' \notin {"accepted", "rejected"}
    BY <1>0, <1>1 DEF ParseMain, Import, EndOfFile, ParsePendingModel, ParsePendingFidl, Typed,
       TypeOK, SecondLoop
  <2> QED
    BY <1>0, <2>1, <2>2 DEF Sparing
<1>2. CASE Finish
  <2>1. /\ phase \notin {"accepted", "rejected"} /\ phase' \in {"accepted", "rejected"}
        /\ pendingModels' = pendingModels /\ parsed' = parsed /\ imports' = imports
    BY <1>2 DEF Finish, inputs
  <2>2. FdeplParsedOnce
    BY <2>1, SparingBounds
  <2> QED
    BY <1>0, <2>1, <2>2 DEF Sparing, WaitsOnce, FdeplParsedOnce, Imported, Contents
<1>3. CASE UNCHANGED vars
  BY <1>0, <1>3 DEF vars, inputs, Sparing, WaitsOnce, FdeplParsedOnce, Budget, AsMain, Parsing,
     Waits, Allowed, Imported, Contents
<1> QED
  BY <1>1, <1>2, <1>3 DEF Next

\* A deployment file without errors is parsed once, for every graph of imports; only the
\* main file and a file that imports itself are parsed once more.
THEOREM ParsedOnce == Spec => []FdeplParsedOnce
BY InitSparing, StepSparing, SparingBounds, PTL DEF Spec
-----------------------------------------------------------------------------
(* On orderly imports DeplLoader implements ImportClosure.                 *)

Waiting == Contents(pendingModels) \cup Contents(pendingFidls)

FidlsWaitOnce == \A i, j \in DOMAIN pendingFidls : pendingFidls[i] = pendingFidls[j] => i = j

\* Every file is in one place; what has been loaded is marked as processed, except the main
\* file; and no interface file is touched before the first loop has ended.
EachOnce == ~failed /\ phase # "rejected" =>
    /\ \A f \in File : copies[f] <= 1
    /\ cur \notin Copied /\ cur \notin Waiting /\ Waiting \cap Copied = {}
    /\ phase = "start" => Copied = {} /\ Waiting = {}
    /\ Copied \subseteq processedModels \cup {Main}
    /\ phase \in {"main", "fdepl"} => (Copied \cup {cur}) \cap Fidl = {}

\* What has been loaded, is being parsed or waits has been imported by a file that was
\* parsed before it.
FromParents == ~failed /\ phase # "rejected" =>
    /\ \A f \in Copied \cup {cur} : f \in {Main, NoFile} \/ \E g \in Copied : f \in Imported(g)
    /\ \A f \in Waiting : \E g \in (Copied \cup {cur}) \ {NoFile} : f \in Imported(g)

OrderlyInvariant ==
    /\ Inductive /\ AcceptedIsClosure /\ Sparing /\ FidlsWaitOnce
    /\ Orderly => EachOnce /\ FromParents

LEMMA InitOrderly == Init => OrderlyInvariant
<1> SUFFICES ASSUME Init PROVE OrderlyInvariant
  OBVIOUS
<1>1. /\ Copied = {} /\ Waiting = {} /\ cur = NoFile /\ phase = "start" /\ processedModels = {}
      /\ \A f \in File : copies[f] <= 1
  BY DEF Init, Copied, Waiting, Contents
<1>2. Inductive /\ AcceptedIsClosure /\ Sparing /\ FidlsWaitOnce
  BY InitInductive, InductiveClosure, InitSparing DEF Init, FidlsWaitOnce
<1> QED
  BY <1>1, <1>2, NoFileAssumption DEF OrderlyInvariant, EachOnce, FromParents

LEMMA FidlsWaitOnceStep ==
    ASSUME TypeOK, FidlsWaitOnce, [Next]_vars
    PROVE  FidlsWaitOnce'
<1>0. pendingFidls \in Seq(Fidl)
  BY DEF TypeOK
<1>1. CASE Import
  <2> DEFINE f == imports[cur][pos]
  <2>1. CASE f \in Fidl /\ f \notin Contents(pendingFidls)
    <3>1. pendingFidls' = Append(pendingFidls, f)
      BY <1>1, <2>1 DEF Import, AddListItem
    <3> QED
      BY <1>0, <2>1, <3>1, AppendDistinct DEF FidlsWaitOnce, Contents
  <2>2. CASE f \notin Fidl \/ f \in Contents(pendingFidls)
    <3>1. pendingFidls' = pendingFidls
      BY <1>1, <2>2 DEF Import, AddListItem
    <3> QED
      BY <3>1 DEF FidlsWaitOnce
  <2> QED
    BY <2>1, <2>2
<1>2. CASE ParsePendingFidl
  BY <1>0, <1>2, TailDistinct DEF ParsePendingFidl, FidlsWaitOnce
<1>3. CASE ParseMain \/ EndOfFile \/ ParsePendingModel \/ Finish \/ UNCHANGED vars
  BY <1>3 DEF ParseMain, EndOfFile, ParsePendingModel, Finish, vars, FidlsWaitOnce
<1> QED
  BY <1>1, <1>2, <1>3 DEF Next

\* What Orderly promises about a file that is imported.
LEMMA OrderlyImport ==
    ASSUME Orderly, NEW f \in File, NEW g \in Imported(f), NEW h \in File, h # f, g \in Imported(h)
    PROVE  f \in Fdepl /\ h \in Fdepl
BY DEF Orderly, File

\* An import statement either names a deployment file that has been loaded, and changes
\* nothing, or adds one that is neither loaded nor being parsed.
LEMMA ImportWaits ==
    ASSUME OrderlyInvariant, Orderly, Import, ~failed, phase # "rejected"
    PROVE  \E f \in Imported(cur) : /\ Waiting' \in {Waiting, Waiting \cup {f}}
                                    /\ Waiting' # Waiting => f \notin Copied \cup {cur}
<1> DEFINE f == imports[cur][pos]
<1>0. TypeOK /\ EachOnce /\ FromParents
  BY DEF OrderlyInvariant, Inductive, Typed
<1>1. cur \in File /\ f \in Imported(cur) /\ f \in File
  BY <1>0, ImportsAreSequences DEF Import, TypeOK, Imported, Contents
<1>2. f # Main /\ f # cur /\ f # NoFile
  BY <1>1, NoFileAssumption DEF Orderly
<1>3. CASE f \in Fidl
  <2>1. Contents(pendingFidls') = Contents(pendingFidls) \cup {f} /\ pendingModels' = pendingModels
    BY <1>0, <1>3, AddContents DEF Import, TypeOK
  <2>2. f \notin Copied
    <3> SUFFICES ASSUME f \in Copied PROVE FALSE
      OBVIOUS
    <3>1. PICK g \in Copied : f \in Imported(g)
      BY <1>0, <1>2 DEF FromParents
    <3>2. g # cur /\ g \in File
      BY <1>0 DEF EachOnce, Copied
    <3>3. cur \in Fdepl
      BY <1>1, <3>1, <3>2, OrderlyImport
    <3>4. phase \in {"main", "fdepl"}
      BY <1>1, <3>3, FileAssumption, NoFileAssumption
      DEF OrderlyInvariant, Inductive, Typed, SecondLoop, TypeOK
    <3> QED
      BY <1>0, <1>3, <3>4 DEF EachOnce
  <2> QED
    BY <1>1, <1>2, <2>1, <2>2 DEF Waiting
<1>4. CASE f \notin Fidl
  <2>1. AddPendingModel(f) /\ pendingFidls' = pendingFidls /\ f \in Fdepl
    BY <1>1, <1>4 DEF Import, File
  <2>2. CASE f \in processedModels
    <3>1. Waiting' = Waiting
      BY <2>1, <2>2 DEF AddPendingModel, Waiting
    <3> QED
      BY <1>1, <3>1
  <2>3. CASE f \notin processedModels
    <3>1. Contents(pendingModels') = Contents(pendingModels) \cup {f}
      BY <1>0, <2>1, <2>3, AddContents DEF AddPendingModel, TypeOK
    <3>2. f \notin Copied
      BY <1>0, <1>2, <2>3 DEF EachOnce
    <3> QED
      BY <1>1, <1>2, <2>1, <3>1, <3>2 DEF Waiting
  <2> QED
    BY <2>2, <2>3
<1> QED
  BY <1>3, <1>4

\* A file that is taken from a list waits no more.
LEMMA TakenWaits ==
    ASSUME OrderlyInvariant, ParsePendingModel \/ ParsePendingFidl
    PROVE  /\ Waiting = Waiting' \cup {cur'}
           /\ Orderly /\ ~failed => cur' \notin Waiting'
           /\ phase' = "fdepl" => cur' \notin Fidl
<1>0. /\ TypeOK /\ WaitsOnce /\ FidlsWaitOnce /\ Fdepl \cap Fidl = {}
      /\ pendingModels \in Seq(Fdepl) /\ pendingFidls \in Seq(Fidl)
  BY FileAssumption DEF OrderlyInvariant, Inductive, Typed, Sparing, TypeOK
<1>1. Contents(pendingModels) \subseteq Fdepl /\ Contents(pendingFidls) \subseteq Fidl
  BY <1>0, ElementOfSeq DEF Contents
<1>2. CASE ParsePendingModel
  <2>1. /\ pendingModels # <<>> /\ cur' = Head(pendingModels) /\ pendingModels' = Tail(pendingModels)
        /\ pendingFidls' = pendingFidls /\ phase' = "fdepl"
    BY <1>2 DEF ParsePendingModel, Open
  <2>2. cur' \in Fdepl /\ Contents(pendingModels) = Contents(pendingModels') \cup {cur'}
    BY <1>0, <2>1, TakenContents
  <2>3. cur' \notin Contents(pendingModels')
    BY <1>0, <2>1, TailDistinct DEF WaitsOnce, Contents
  <2> QED
    BY <1>0, <1>1, <2>1, <2>2, <2>3 DEF Waiting
<1>3. CASE ParsePendingFidl
  <2>1. /\ pendingFidls # <<>> /\ cur' = Head(pendingFidls) /\ pendingFidls' = Tail(pendingFidls)
        /\ pendingModels' = pendingModels /\ pendingModels = <<>> /\ phase' = "fidl"
    BY <1>3 DEF ParsePendingFidl, Open
  <2>2. cur' \in Fidl /\ Contents(pendingFidls) = Contents(pendingFidls') \cup {cur'}
    BY <1>0, <2>1, TakenContents
  <2>3. cur' \notin Contents(pendingFidls')
    BY <1>0, <2>1, TailDistinct DEF FidlsWaitOnce, Contents
  <2> QED
    BY <1>0, <1>1, <2>1, <2>2, <2>3 DEF Waiting
<1> QED
  BY <1>2, <1>3

LEMMA EndOfFileOrderly ==
    ASSUME OrderlyInvariant, Orderly, EndOfFile, ~failed', phase' # "rejected"
    PROVE  /\ EachOnce' /\ FromParents'
           /\ copies' = [copies EXCEPT ![cur] = 1] /\ cur \in File /\ cur \notin Copied
<1>0. /\ TypeOK /\ cur \in File /\ cur # NoFile /\ cur' = NoFile /\ copies \in [File -> 0..2]
      /\ phase \notin {"start", "accepted", "rejected"} /\ phase' \notin {"start", "accepted", "rejected"}
  BY DEF OrderlyInvariant, Inductive, Typed, SecondLoop, TypeOK, EndOfFile
<1>1. ~failed /\ cur \notin bad
  BY DEF EndOfFile
<1>2. EachOnce /\ FromParents /\ cur \notin Copied
  BY <1>0, <1>1 DEF OrderlyInvariant, EachOnce
<1>3. copies' = [copies EXCEPT ![cur] = 1]
  <2>1. copies[cur] = 0
    BY <1>0, <1>2 DEF Copied
  <2>2. copies' = [copies EXCEPT ![cur] = UpTo(copies[cur], 2)]
    BY <1>1 DEF EndOfFile
  <2> QED
    BY <2>1, <2>2 DEF UpTo
<1>4. Copied' = Copied \cup {cur} /\ Waiting' = Waiting /\ UNCHANGED inputs
  <2>1. Copied' = Copied \cup {cur}
    BY <1>0, <1>3 DEF Copied
  <2> QED
    BY <2>1 DEF EndOfFile, Waiting
<1>5. NoFile \notin Copied /\ NoFile \notin Waiting
  <2>1. Waiting \subseteq File
    <3>1. pendingModels \in Seq(Fdepl) /\ pendingFidls \in Seq(Fidl)
      BY <1>0 DEF TypeOK
    <3> QED
      BY <3>1, ElementOfSeq DEF Waiting, Contents, File
  <2> QED
    BY <2>1, NoFileAssumption DEF Copied
<1>6. \/ processedModels' = processedModels \cup {cur}
      \/ processedModels' = processedModels /\ cur = Main
  <2>1. phase = "main" => cur = Main
    BY <1>0 DEF TypeOK
  <2>2. processedModels' = IF phase = "main" THEN processedModels ELSE processedModels \cup {cur}
    BY <1>1 DEF EndOfFile
  <2> QED
    BY <2>1, <2>2
<1>7. phase' \in {"main", "fdepl"} => phase \in {"main", "fdepl"}
  BY DEF EndOfFile
<1>8. \A f \in File : copies'[f] <= 1
  BY <1>0, <1>1, <1>2, <1>3 DEF EachOnce
<1>9. EachOnce'
  BY <1>0, <1>1, <1>2, <1>4, <1>5, <1>6, <1>7, <1>8, NoFileAssumption DEF EachOnce, File
<1>10. FromParents'
  <2>1. \A f : Imported(f)' = Imported(f)
    BY <1>4 DEF Imported, Contents, inputs
  <2> QED
    BY <1>0, <1>1, <1>2, <1>4, <1>5, <2>1 DEF FromParents
<1> QED
  BY <1>0, <1>2, <1>3, <1>9, <1>10

LEMMA StepOrderly ==
    ASSUME OrderlyInvariant, [Next]_vars
    PROVE  OrderlyInvariant'
<1>0. TypeOK /\ Inductive' /\ Sparing' /\ FidlsWaitOnce'
  BY StepInductive, StepSparing, FidlsWaitOnceStep DEF OrderlyInvariant, Inductive, Typed
<1>9. Inductive' => AcceptedIsClosure'
  BY InductiveClosure, PTL
<1> SUFFICES ASSUME Orderly' PROVE EachOnce' /\ FromParents'
  BY <1>0, <1>9 DEF OrderlyInvariant
<1>a. UNCHANGED inputs
  BY DEF Next, vars, ParseMain, Import, EndOfFile, ParsePendingModel, ParsePendingFidl, Finish
<1>c. \A f : Imported(f)' = Imported(f)
  BY <1>a DEF Imported, Contents, inputs
<1>b. Orderly /\ EachOnce /\ FromParents
  <2>1. Orderly
    BY <1>c DEF Orderly, Acyclic
  <2> QED
    BY <2>1 DEF OrderlyInvariant
<1>d. CASE failed' \/ phase' = "rejected"
  BY <1>d DEF EachOnce, FromParents
<1> SUFFICES ASSUME ~failed', phase' # "rejected" PROVE EachOnce' /\ FromParents'
  BY <1>d
<1>1. CASE ParseMain
  <2>1. /\ Copied' = Copied /\ Waiting' = Waiting /\ cur' = Main /\ phase = "start"
        /\ phase' = "main" /\ copies' = copies /\ failed' = failed
        /\ processedModels' = processedModels
    BY <1>1 DEF ParseMain, Open, Copied, Waiting
  <2>2. Main \notin Fidl
    BY FileAssumption
  <2> QED
    BY <1>b, <2>1, <2>2 DEF EachOnce, FromParents
<1>2. CASE Import
  <2>1. /\ phase' = phase /\ cur' = cur /\ copies' = copies /\ failed' = failed
        /\ Copied' = Copied /\ processedModels' = processedModels /\ cur \in File /\ phase # "start"
    BY <1>0, <1>2 DEF Import, Copied, TypeOK, OrderlyInvariant, Inductive, Typed, SecondLoop
  <2>2. PICK f \in Imported(cur) : /\ Waiting' \in {Waiting, Waiting \cup {f}}
                                   /\ Waiting' # Waiting => f \notin Copied \cup {cur}
    BY <1>2, <1>b, <2>1, ImportWaits
  <2>3. EachOnce'
    BY <1>b, <2>1, <2>2 DEF EachOnce
  <2>4. FromParents'
    BY <1>b, <1>c, <2>1, <2>2, NoFileAssumption DEF FromParents
  <2> QED
    BY <2>3, <2>4
<1>3. CASE EndOfFile
  BY <1>3, <1>b, EndOfFileOrderly
<1>4. CASE ParsePendingModel \/ ParsePendingFidl
  <2>1. /\ cur = NoFile /\ UNCHANGED <<processedModels, copies, failed>> /\ Copied' = Copied
        /\ phase \in {"fdepl", "fidl"} /\ phase' \in {"fdepl", "fidl"}
        /\ phase' = "fdepl" => phase = "fdepl"
    BY <1>4 DEF ParsePendingModel, ParsePendingFidl, Copied
  <2>2. /\ Waiting = Waiting' \cup {cur'} /\ cur' \notin Waiting'
        /\ phase' = "fdepl" => cur' \notin Fidl
    BY <1>4, <1>b, <2>1, TakenWaits
  <2>3. EachOnce'
    BY <1>b, <2>1, <2>2 DEF EachOnce
  <2>4. FromParents'
    BY <1>b, <1>c, <2>1, <2>2 DEF FromParents
  <2> QED
    BY <2>3, <2>4
<1>5. CASE Finish
  <2>1. /\ cur' = cur /\ phase' = "accepted" /\ phase # "rejected" /\ failed' = failed
        /\ UNCHANGED <<pendingModels, pendingFidls, copies, processedModels>>
    BY <1>5 DEF Finish
  <2>2. Copied' = Copied /\ Waiting' = Waiting
    BY <2>1 DEF Copied, Waiting
  <2> QED
    BY <1>b, <1>c, <2>1, <2>2 DEF EachOnce, FromParents
<1>6. CASE UNCHANGED vars
  <2>1. /\ Copied' = Copied /\ Waiting' = Waiting
        /\ UNCHANGED <<cur, phase, failed, copies, processedModels>>
    BY <1>6 DEF vars, Copied, Waiting
  <2> QED
    BY <1>b, <1>c, <2>1 DEF EachOnce, FromParents
<1> QED
  BY <1>1, <1>2, <1>3, <1>4, <1>5, <1>6 DEF Next

LEMMA AlwaysOrderly == Spec => []OrderlyInvariant
BY InitOrderly, StepOrderly, PTL DEF Spec

LEMMA InitImplements == Init => Abstract!Init
<1> SUFFICES ASSUME Init PROVE Abstract!Init
  OBVIOUS
<1>1. TypeOK
  BY InitType DEF Typed
<1>2. [f \in File |-> Imported(f)] \in [File -> SUBSET File]
  BY <1>1, ImportedAreFiles
<1>3. KeptCopies = [f \in File |-> 0] /\ Result = "loading"
  BY DEF Init, KeptCopies, Result
<1> QED
  BY <1>2, <1>3 DEF Abstract!Init

\* Parsing a file without errors loads it, the first error rejects, Finish accepts or
\* rejects, and every other step is invisible.
LEMMA StepImplements ==
    ASSUME OrderlyInvariant, OrderlyInvariant', [Next]_vars
    PROVE  [Orderly => Abstract!Next]_(Abstract!vars)
<1>0. TypeOK /\ Inductive /\ Typed
  BY DEF OrderlyInvariant, Inductive, Typed
<1>a. UNCHANGED inputs
  BY DEF Next, vars, ParseMain, Import, EndOfFile, ParsePendingModel, ParsePendingFidl, Finish
<1>b. [f \in File |-> Imported(f)]' = [f \in File |-> Imported(f)]
  BY <1>a DEF Imported, Contents, inputs
<1>c. ASSUME KeptCopies' = KeptCopies, Result' = Result
      PROVE  UNCHANGED Abstract!vars
  BY <1>b, <1>c DEF Abstract!vars
<1> SUFFICES ASSUME Orderly PROVE [Abstract!Next]_(Abstract!vars)
  OBVIOUS
<1>1. CASE EndOfFile /\ ~failed /\ cur \notin bad
  <2>1. phase \notin {"accepted", "rejected"} /\ phase' \notin {"accepted", "rejected"} /\ ~failed'
    BY <1>0, <1>1 DEF EndOfFile, Typed, SecondLoop
  <2>2. copies' = [copies EXCEPT ![cur] = 1] /\ cur \in File /\ cur \notin Copied /\ FromParents
    BY <1>1, <2>1, EndOfFileOrderly DEF OrderlyInvariant
  <2>3. Result = "loading" /\ Result' = "loading"
    BY <1>1, <2>1 DEF Result
  <2>4. KeptCopies = copies /\ KeptCopies' = copies'
    BY <1>0, <1>1, <2>1, <2>2 DEF KeptCopies, TypeOK
  <2>5. Abstract!Loaded = Copied
    BY <2>4 DEF Abstract!Loaded, Copied
  <2>6. cur = Main \/ \E g \in Copied : cur \in [f \in File |-> Imported(f)][g]
    BY <1>1, <2>1, <2>2, NoFileAssumption DEF FromParents, Copied
  <2>7. Abstract!Load(cur)
    BY <1>b, <2>2, <2>3, <2>4, <2>5, <2>6 DEF Abstract!Load
  <2> QED
    BY <2>2, <2>7 DEF Abstract!Next
<1>2. CASE EndOfFile /\ ~failed /\ cur \in bad
  <2>1. phase \notin {"accepted", "rejected"} /\ phase' \notin {"accepted", "rejected"} /\ failed'
    BY <1>0, <1>2 DEF EndOfFile, Typed, SecondLoop
  <2>2. Result = "loading" /\ Result' = "rejected" /\ KeptCopies' = [f \in File |-> 0]
    BY <1>2, <2>1 DEF Result, KeptCopies
  <2> QED
    BY <1>b, <2>2 DEF Abstract!Next, Abstract!Reject
<1>3. CASE Finish /\ ~failed /\ phase' = "accepted"
  <2>1. phase \notin {"accepted", "rejected"} /\ ~failed' /\ UNCHANGED copies
    BY <1>3 DEF Finish
  <2>2. Result = "loading" /\ Result' = "accepted" /\ KeptCopies' = KeptCopies
    BY <1>3, <2>1 DEF Result, KeptCopies
  <2>3. Main \in Copied' /\ Closed(Copied)'
    BY <1>3 DEF OrderlyInvariant, AcceptedIsClosure
  <2>4. Copied' = Copied /\ \A f : Imported(f)' = Imported(f)
    BY <1>a, <2>1 DEF Copied, Imported, Contents, inputs
  <2>5. Main \in Copied /\ \A g \in Copied : Imported(g) \subseteq Copied
    BY <2>3, <2>4 DEF Closed
  <2>6. Abstract!Loaded = Copied
    BY <1>3 DEF Abstract!Loaded, Copied, KeptCopies
  <2>7. Abstract!Accept
    BY <1>b, <2>2, <2>5, <2>6 DEF Abstract!Accept, Copied
  <2> QED
    BY <2>7 DEF Abstract!Next
<1>4. CASE Finish /\ ~failed /\ phase' # "accepted"
  <2>1. phase \notin {"accepted", "rejected"} /\ phase' = "rejected" /\ copies' = [f \in File |-> 0]
    BY <1>4 DEF Finish
  <2>2. Result = "loading" /\ Result' = "rejected" /\ KeptCopies' = [f \in File |-> 0]
    BY <1>4, <2>1 DEF Result, KeptCopies
  <2> QED
    BY <1>b, <2>2 DEF Abstract!Next, Abstract!Reject
<1>5. CASE failed /\ (EndOfFile \/ Finish)
  <2>1. failed' /\ phase # "accepted" /\ phase' # "accepted"
    BY <1>0, <1>5 DEF EndOfFile, Finish, Typed, SecondLoop
  <2> QED
    BY <1>5, <1>c, <2>1 DEF Result, KeptCopies
<1>6. CASE ParseMain \/ Import \/ ParsePendingModel \/ ParsePendingFidl \/ UNCHANGED vars
  <2>1. /\ UNCHANGED <<copies, failed>>
        /\ phase' = phase \/ {phase, phase'} \cap {"accepted", "rejected"} = {}
    BY <1>6 DEF ParseMain, Import, ParsePendingModel, ParsePendingFidl, Open, vars
  <2> QED
    BY <1>c, <2>1 DEF Result, KeptCopies
<1> QED
  BY <1>1, <1>2, <1>3, <1>4, <1>5, <1>6 DEF Next

\* On orderly imports FDParser::parse implements the abstract loader, whatever the number
\* of files and whatever circles the deployment files form: every file is loaded exactly
\* once, nothing is accepted that is not complete, and a rejected load leaves nothing behind.
THEOREM Implements == Spec => ImplementsImportClosure
<1>1. Init => (Orderly => Abstract!Init)
  BY InitImplements
<1> QED
  BY <1>1, AlwaysOrderly, StepImplements, PTL DEF Spec, ImplementsImportClosure
=============================================================================
