-------------------------- MODULE FidlLoaderProofs ---------------------------
(* Proofs about FidlLoader that hold for every set of files and every graph of *)
(* imports, cyclic ones included.                                              *)
EXTENDS MCFidlLoader, QueueLemmas, FiniteSetTheorems, TLAPS

\* Files that have been parsed, are being parsed, or wait to be.
Seen == Copied \cup InQueue \cup {cur}

\* While nothing has failed, no import that has been read is forgotten.
NoneForgotten == ~failed /\ phase # "rejected" =>
    /\ phase # "start" => Main \in Seen
    /\ \A f \in Copied : Imported(f) \subseteq Seen
    /\ phase = "parsing" => \A i \in 1..(pos - 1) : imports[cur][i] \in Seen

\* Nothing is read that the main file does not lead to.
NoneInvented ==
    \A S \in SUBSET File : Main \in S /\ Closed(S) => Seen \subseteq S \cup {NoFile}

\* A load that is accepted has emptied its queue without an error, and no file with an
\* error has been counted.
AcceptedClean ==
    /\ phase = "accepted" => ~failed /\ pending = <<>>
    /\ bad \cap Copied = {}

Inductive == TypeOK /\ NoneForgotten /\ NoneInvented /\ AcceptedClean

-----------------------------------------------------------------------------
(* Type correctness.                                                       *)

LEMMA ImportsAreSequences ==
    ASSUME TypeOK
    PROVE  \A f \in File : /\ imports[f] \in Seq(File)
                          /\ Imported(f) \subseteq File /\ NoFile \notin Imported(f)
<1>1. \A f \in File : imports[f] \in ImportList
  BY DEF TypeOK
<1>2. \A f \in File : imports[f] \in Seq(File)
  BY <1>1, FileAssumption, BoundedIsSequence DEF ImportList
<1> QED
  <2>1. \A f \in File : \A i \in DOMAIN imports[f] : imports[f][i] \in File
    BY <1>2, LenProperties, ElementOfSeq
  <2> QED
    BY <1>2, <2>1, NoFileAssumption DEF Imported

LEMMA InitType == Init => TypeOK
<1> SUFFICES ASSUME Init PROVE TypeOK
  OBVIOUS
<1>1. pending \in Seq(File) /\ copies \in [File -> 0..2]
  BY DEF Init
<1> QED
  BY <1>1 DEF Init, TypeOK

LEMMA StepType ==
    ASSUME TypeOK, [Next]_vars
    PROVE  TypeOK'
<1>0. \A f \in File : imports[f] \in Seq(File) /\ Len(imports[f]) \in Nat
  BY ImportsAreSequences, LenProperties
<1>1. CASE ParseMain
  BY <1>0, <1>1, FileAssumption DEF ParseMain, Open, TypeOK, inputs
<1>2. CASE Import
  <2>1. cur \in File /\ pos \in DOMAIN imports[cur] /\ imports[cur][pos] \in File
    BY <1>0, <1>2, NoFileAssumption DEF Import, TypeOK
  <2>2. pending' \in Seq(File)
    BY <1>2, <2>1 DEF Import, AddPendingFidl, TypeOK
  <2>3. pos' \in 1..(Len(imports[cur]) + 1)
    BY <1>0, <1>2, <2>1 DEF Import
  <2> QED
    BY <1>2, <2>1, <2>2, <2>3 DEF Import, TypeOK, inputs
<1>3. CASE EndOfFile
  <2>1. failed' \in BOOLEAN
    BY <1>3 DEF EndOfFile, TypeOK
  <2>2. copies' \in [File -> 0..2]
    <3>1. CASE cur \in bad
      BY <1>3, <3>1 DEF EndOfFile, TypeOK
    <3>2. CASE cur \notin bad
      <4>1. copies' = [copies EXCEPT ![cur] = IF copies[cur] = 0 THEN 1 ELSE 2]
        BY <1>3, <3>2 DEF EndOfFile
      <4>2. copies \in [File -> 0..2] /\ (IF copies[cur] = 0 THEN 1 ELSE 2) \in 0..2
        BY DEF TypeOK
      <4> QED
        BY <4>1, <4>2
    <3> QED
      BY <3>1, <3>2
  <2> QED
    BY <1>3, <2>1, <2>2 DEF EndOfFile, TypeOK, inputs
<1>4. CASE ParsePending
  <2>1. Head(pending) \in File /\ Tail(pending) \in Seq(File)
    BY <1>4, TailContents DEF ParsePending, TypeOK
  <2> QED
    BY <1>0, <1>4, <2>1 DEF ParsePending, Open, TypeOK, inputs
<1>5. CASE Finish
  <2>1. pending' \in Seq(File) /\ copies' \in [File -> 0..2]
    <3>1. CASE UNCHANGED <<pending, copies>>
      BY <3>1 DEF TypeOK
    <3>2. CASE Clear
      BY <3>2 DEF Clear
    <3> QED
      BY <1>5, <3>1, <3>2 DEF Finish
  <2> QED
    BY <1>5, <2>1 DEF Finish, TypeOK, inputs
<1>6. CASE UNCHANGED vars
  BY <1>6 DEF vars, inputs, TypeOK
<1> QED
  BY <1>1, <1>2, <1>3, <1>4, <1>5, <1>6 DEF Next

\* Every variable keeps its type, in every graph of imports.
THEOREM TypeCorrect == Spec => []TypeOK
BY InitType, StepType, PTL DEF Spec

-----------------------------------------------------------------------------
(* A returned model is the closure of the main file's imports.             *)

LEMMA InitInductive == Init => Inductive
<1> SUFFICES ASSUME Init PROVE Inductive
  OBVIOUS
<1>1. Copied = {} /\ InQueue = {} /\ cur = NoFile
  BY DEF Init, Copied, InQueue
<1> QED
  BY <1>1, InitType DEF Init, Inductive, NoneForgotten, NoneInvented, AcceptedClean, Seen

\* Taking the first file from the pending list.
LEMMA TakenContents ==
    ASSUME pending \in Seq(File), pending # <<>>, pending' = Tail(pending), cur' = Head(pending)
    PROVE  InQueue = InQueue' \cup {cur'}
<1>1. {pending[i] : i \in DOMAIN pending}
        = {Head(pending)} \cup {Tail(pending)[i] : i \in DOMAIN Tail(pending)}
  BY TailContents
<1> QED
  BY <1>1 DEF InQueue

\* What is seen changes only with the pending list, the current file and the copies.
LEMMA StepInductive ==
    ASSUME Inductive, [Next]_vars
    PROVE  Inductive'
<1>0. TypeOK /\ TypeOK'
  BY StepType DEF Inductive
<1>1. CASE ParseMain
  <2>1. Copied' = Copied /\ InQueue' = InQueue /\ cur' = Main /\ pos' = 1 /\ cur = NoFile
    BY <1>0, <1>1 DEF ParseMain, Open, Copied, InQueue, TypeOK
  <2>2. phase = "start" /\ phase' = "parsing" /\ failed' = failed /\ UNCHANGED inputs
    BY <1>1 DEF ParseMain, Open
  <2>3. \A f \in Copied : NoFile \notin Imported(f)
    BY <1>0, ImportsAreSequences DEF Copied
  <2>4. NoneForgotten'
    BY <2>1, <2>2, <2>3 DEF Inductive, NoneForgotten, Seen, Imported, inputs
  <2>5. NoneInvented'
    BY <2>1, <2>2 DEF Inductive, NoneInvented, Seen, Closed, Imported, inputs
  <2>6. AcceptedClean'
    BY <2>1, <2>2 DEF Inductive, AcceptedClean, inputs
  <2> QED
    BY <1>0, <2>4, <2>5, <2>6 DEF Inductive
<1>2. CASE Import
  <2>1. /\ cur \in File /\ pos \in DOMAIN imports[cur] /\ imports[cur] \in Seq(File)
        /\ imports[cur][pos] \in Imported(cur) /\ imports[cur][pos] \in File
    BY <1>0, <1>2, NoFileAssumption, ImportsAreSequences DEF Import, TypeOK, Imported
  <2>2. InQueue' = InQueue \cup {imports[cur][pos]}
    <3>1. CASE imports[cur][pos] \in InQueue
      BY <1>2, <3>1 DEF Import, AddPendingFidl, InQueue
    <3>2. CASE imports[cur][pos] \notin InQueue
      <4>1. pending' = Append(pending, imports[cur][pos]) /\ pending \in Seq(File)
        BY <1>0, <1>2, <3>2 DEF Import, AddPendingFidl, TypeOK
      <4> QED
        BY <2>1, <4>1, AppendContents DEF InQueue
    <3> QED
      BY <3>1, <3>2
  <2>3. /\ Copied' = Copied /\ cur' = cur /\ pos' = pos + 1 /\ phase' = phase
        /\ failed' = failed /\ phase = "parsing" /\ UNCHANGED inputs
    BY <1>2 DEF Import, Copied
  <2>4. Seen' = Seen \cup {imports[cur][pos]}
    BY <2>2, <2>3 DEF Seen
  <2>5. NoneForgotten'
    <3>1. \A i \in 1..(pos' - 1) : i \in 1..(pos - 1) \/ i = pos
      BY <2>1, <2>3
    <3> QED
      BY <2>3, <2>4, <3>1 DEF Inductive, NoneForgotten, Imported, inputs
  <2>6. NoneInvented'
    <3> SUFFICES ASSUME NEW S \in SUBSET File, Main \in S, Closed(S)
                 PROVE  Seen' \subseteq S \cup {NoFile}
      BY <2>3 DEF NoneInvented, Closed, Imported, inputs
    <3>1. Seen \subseteq S \cup {NoFile}
      BY DEF Inductive, NoneInvented
    <3>2. cur \in S
      BY <2>1, <3>1, NoFileAssumption DEF Seen
    <3> QED
      BY <2>1, <2>4, <3>1, <3>2 DEF Closed
  <2>7. AcceptedClean'
    BY <2>3 DEF Inductive, AcceptedClean, inputs
  <2> QED
    BY <1>0, <2>5, <2>6, <2>7 DEF Inductive
<1>3. CASE EndOfFile
  <2>1. /\ cur \in File /\ imports[cur] \in Seq(File) /\ pos \in 1..(Len(imports[cur]) + 1)
        /\ pos \notin DOMAIN imports[cur] /\ copies \in [File -> 0..2]
    BY <1>0, <1>3, ImportsAreSequences DEF EndOfFile, TypeOK
  <2>2. /\ InQueue' = InQueue /\ cur' = NoFile /\ phase' = "between" /\ phase = "parsing"
        /\ UNCHANGED inputs
    BY <1>3 DEF EndOfFile, InQueue
  <2>3. pos = Len(imports[cur]) + 1
    BY <2>1
  <2>4. CASE cur \in bad
    <3>1. failed' /\ Copied' = Copied
      BY <1>3, <2>4 DEF EndOfFile, Copied
    <3>2. Seen' \subseteq Seen \cup {NoFile}
      BY <2>2, <3>1 DEF Seen
    <3> QED
      BY <1>0, <2>2, <3>1, <3>2 DEF Inductive, NoneForgotten, NoneInvented, AcceptedClean,
                                    Closed, Imported, inputs
  <2>5. CASE cur \notin bad
    <3>1. Copied' = Copied \cup {cur} /\ failed' = failed
      BY <1>3, <2>1, <2>5 DEF EndOfFile, Copied
    <3>2. Seen' = Seen \cup {NoFile}
      BY <2>2, <3>1 DEF Seen
    <3>3. ~failed => Imported(cur) \subseteq Seen
      BY <2>1, <2>2, <2>3 DEF Inductive, NoneForgotten, Imported
    <3>4. NoneForgotten'
      BY <2>2, <3>1, <3>2, <3>3 DEF Inductive, NoneForgotten, Imported, inputs
    <3>5. NoneInvented'
      BY <2>2, <3>2 DEF Inductive, NoneInvented, Closed, Imported, inputs
    <3>6. AcceptedClean'
      BY <2>2, <2>5, <3>1 DEF Inductive, AcceptedClean, inputs
    <3> QED
      BY <1>0, <3>4, <3>5, <3>6 DEF Inductive
  <2> QED
    BY <2>4, <2>5
<1>4. CASE ParsePending
  <2>1. InQueue = InQueue' \cup {cur'}
    BY <1>0, <1>4, TakenContents DEF ParsePending, Open, TypeOK
  <2>2. /\ Copied' = Copied /\ cur = NoFile /\ pos' = 1 /\ phase = "between"
        /\ phase' = "parsing" /\ failed' = failed /\ UNCHANGED inputs
    BY <1>0, <1>4 DEF ParsePending, Open, Copied, TypeOK
  <2>3. Seen = Seen' \cup {NoFile}
    BY <2>1, <2>2 DEF Seen
  <2>4. Main # NoFile /\ \A f \in Copied : NoFile \notin Imported(f)
    BY <1>0, FileAssumption, NoFileAssumption, ImportsAreSequences DEF Copied
  <2>5. NoneForgotten'
    BY <2>2, <2>3, <2>4 DEF Inductive, NoneForgotten, Imported, inputs
  <2>6. NoneInvented'
    BY <2>2, <2>3 DEF Inductive, NoneInvented, Closed, Imported, inputs
  <2>7. AcceptedClean'
    BY <2>2 DEF Inductive, AcceptedClean, inputs
  <2> QED
    BY <1>0, <2>5, <2>6, <2>7 DEF Inductive
<1>5. CASE Finish
  <2>0. cur' = cur /\ failed' = failed /\ pending = <<>> /\ phase = "between" /\ UNCHANGED inputs
    BY <1>5 DEF Finish
  <2>1. CASE phase' = "accepted"
    <3>1. ~failed /\ UNCHANGED <<pending, copies>>
      BY <1>5, <2>1 DEF Finish
    <3>2. Copied' = Copied /\ InQueue' = InQueue /\ Seen' = Seen
      BY <2>0, <3>1 DEF Copied, InQueue, Seen
    <3> QED
      BY <1>0, <2>0, <2>1, <3>1, <3>2 DEF Inductive, NoneForgotten, NoneInvented,
                                          AcceptedClean, Closed, Imported, inputs
  <2>2. CASE phase' = "rejected"
    <3>1. Copied' = {} /\ InQueue' = {} /\ cur = NoFile
      BY <1>0, <1>5, <2>0, <2>2 DEF Finish, Clear, Copied, InQueue, TypeOK
    <3> QED
      BY <1>0, <2>0, <2>2, <3>1 DEF Inductive, NoneForgotten, NoneInvented, AcceptedClean, Seen
  <2> QED
    BY <1>5, <2>1, <2>2 DEF Finish
<1>6. CASE UNCHANGED vars
  <2>1. Copied' = Copied /\ InQueue' = InQueue /\ cur' = cur
    BY <1>6 DEF vars, Copied, InQueue
  <2> QED
    BY <1>0, <1>6, <2>1 DEF vars, inputs, Inductive, NoneForgotten, NoneInvented,
                            AcceptedClean, Closed, Imported, Seen
<1> QED
  BY <1>1, <1>2, <1>3, <1>4, <1>5, <1>6 DEF Next

LEMMA AlwaysInductive == Spec => []Inductive
BY InitInductive, StepInductive, PTL DEF Spec

LEMMA InductiveClosure == Inductive => AcceptedIsClosure
<1> SUFFICES ASSUME Inductive, phase = "accepted"
             PROVE  /\ Main \in Copied /\ Closed(Copied)
                    /\ \A S \in SUBSET File : Main \in S /\ Closed(S) => Copied \subseteq S
  BY DEF AcceptedIsClosure
<1>1. ~failed /\ InQueue = {} /\ cur = NoFile
  BY DEF Inductive, AcceptedClean, InQueue, TypeOK
<1>2. Seen = Copied \cup {NoFile}
  BY <1>1 DEF Seen
<1>3. Main # NoFile /\ \A f \in Copied : NoFile \notin Imported(f) /\ NoFile \notin Copied
  BY FileAssumption, NoFileAssumption, ImportsAreSequences DEF Inductive, Copied
<1>4. Main \in Copied /\ Closed(Copied)
  BY <1>1, <1>2, <1>3 DEF Inductive, NoneForgotten, Closed
<1>5. ASSUME NEW S \in SUBSET File, Main \in S, Closed(S) PROVE Copied \subseteq S
  BY <1>2, <1>5, NoFileAssumption DEF Inductive, NoneInvented, Copied
<1> QED
  BY <1>4, <1>5

\* A model that is returned holds the main file and everything it leads to, and nothing
\* else, for every graph of imports and however files are parsed again.
THEOREM LoadIsClosure == Spec => []AcceptedIsClosure
BY AlwaysInductive, InductiveClosure, PTL

\* One file with a syntax error among the imports is enough for no model to be returned.
THEOREM ErrorsRejectLoad == Spec => []NothingFromBadImports
<1>1. Inductive => NothingFromBadImports
  BY InductiveClosure DEF Inductive, AcceptedClean, AcceptedIsClosure, NothingFromBadImports, Closed
<1> QED
  BY AlwaysInductive, <1>1, PTL

-----------------------------------------------------------------------------
(* The pending list: no file is in it twice, and on layered imports it is in    *)
(* the order of the layers.                                                    *)

\* A file waits in the pending list at most once.
PendingOnce == \A i, j \in DOMAIN pending : pending[i] = pending[j] => i = j

LEMMA OnceStep ==
    ASSUME TypeOK, PendingOnce, [Next]_vars
    PROVE  PendingOnce'
<1>0. pending \in Seq(File)
  BY DEF TypeOK
<1>1. CASE Import
  <2>1. imports[cur][pos] \in File
    BY <1>1, ImportsAreSequences, LenProperties, NoFileAssumption, ElementOfSeq DEF Import, TypeOK
  <2>2. CASE imports[cur][pos] \in InQueue
    BY <1>1, <2>2 DEF Import, AddPendingFidl, PendingOnce
  <2>3. CASE imports[cur][pos] \notin InQueue
    <3>1. pending' = Append(pending, imports[cur][pos])
      BY <1>1, <2>3 DEF Import, AddPendingFidl
    <3> QED
      BY <1>0, <2>1, <2>3, <3>1, AppendDistinct DEF PendingOnce, InQueue
  <2> QED
    BY <2>2, <2>3
<1>2. CASE ParsePending
  BY <1>0, <1>2, TailDistinct DEF ParsePending, PendingOnce
<1>3. CASE Finish
  BY <1>3 DEF Finish, Clear, PendingOnce
<1>4. CASE ParseMain \/ EndOfFile \/ UNCHANGED vars
  BY <1>4 DEF ParseMain, EndOfFile, vars, PendingOnce
<1> QED
  BY <1>1, <1>2, <1>3, <1>4 DEF Next

\* With files in layers, the list is worked off layer by layer: what waits lies in the layer
\* of the current file or the next, behind everything that has been copied.
LayerByLayer(d) ==
    /\ \A f \in File : copies[f] <= 1
    /\ InQueue \cap Copied = {}
    /\ \A i, j \in DOMAIN pending : i <= j => d[pending[i]] <= d[pending[j]]
    /\ phase = "start" => Copied = {} /\ pending = <<>>
    /\ phase = "parsing" =>
          /\ cur \notin Copied \cup InQueue
          /\ \A f \in Copied : d[f] <= d[cur]
          /\ \A f \in InQueue : d[cur] <= d[f] /\ d[f] <= d[cur] + 1
    /\ phase = "between" =>
          /\ \A f \in Copied, g \in InQueue : d[f] <= d[g]
          /\ \A f, g \in InQueue : d[g] <= d[f] + 1

Layers == [File -> 0..Cardinality(File)]

InLayers == TypeOK /\ PendingOnce /\ \A d \in Layers : Layered(d) => LayerByLayer(d)

LEMMA DepthsAreNumbers == \A d \in Layers : \A f \in File : d[f] \in Nat
<1>1. Cardinality(File) \in Nat
  BY FileAssumption, FS_CardinalityType
<1> QED
  BY <1>1 DEF Layers

LEMMA InitLayers == Init => InLayers
<1> SUFFICES ASSUME Init PROVE InLayers
  OBVIOUS
<1>1. Copied = {} /\ InQueue = {}
  BY DEF Init, Copied, InQueue
<1>2. PendingOnce /\ \A f \in File : copies[f] <= 1
  BY DEF Init, PendingOnce
<1> QED
  BY <1>1, <1>2, InitType DEF Init, InLayers, LayerByLayer

LEMMA LayersStep ==
    ASSUME InLayers, [Next]_vars
    PROVE  InLayers'
<1>0. TypeOK /\ TypeOK' /\ PendingOnce /\ PendingOnce'
  BY StepType, OnceStep DEF InLayers
<1>a. UNCHANGED inputs
  BY DEF Next, vars, ParseMain, Import, EndOfFile, ParsePending, Finish
<1> SUFFICES ASSUME NEW d \in Layers, Layered(d) PROVE LayerByLayer(d)'
  BY <1>0, <1>a DEF InLayers, Layered, Imported, inputs
<1>b. LayerByLayer(d) /\ \A f \in File : d[f] \in Nat
  BY DepthsAreNumbers DEF InLayers
<1>c. pending \in Seq(File) /\ InQueue \subseteq File /\ Copied \subseteq File
  <2>1. pending \in Seq(File)
    BY <1>0 DEF TypeOK
  <2> QED
    BY <2>1, ElementOfSeq, LenProperties DEF InQueue, Copied
<1>1. CASE ParseMain
  <2>1. /\ Copied' = Copied /\ InQueue' = InQueue /\ UNCHANGED <<pending, copies>>
        /\ phase = "start" /\ phase' = "parsing"
    BY <1>1 DEF ParseMain, Open, Copied, InQueue
  <2>2. Copied = {} /\ InQueue = {}
    BY <1>b, <2>1 DEF LayerByLayer, InQueue
  <2> QED
    BY <1>b, <2>1, <2>2 DEF LayerByLayer
<1>2. CASE Import
  <2> DEFINE g == imports[cur][pos]
  <2>1. cur \in File /\ g \in Imported(cur) /\ g \in File
    BY <1>0, <1>2, NoFileAssumption, ImportsAreSequences DEF Import, TypeOK, Imported
  <2>2. d[g] = d[cur] + 1 /\ d[cur] \in Nat
    BY <1>b, <2>1 DEF Layered
  <2>3. /\ Copied' = Copied /\ copies' = copies /\ cur' = cur
        /\ phase = "parsing" /\ phase' = "parsing"
    BY <1>2 DEF Import, Copied
  <2>4. CASE g \in InQueue
    <3>1. pending' = pending /\ InQueue' = InQueue
      BY <1>2, <2>4 DEF Import, AddPendingFidl, InQueue
    <3> QED
      BY <1>b, <2>3, <3>1 DEF LayerByLayer
  <2>5. CASE g \notin InQueue
    <3>1. pending' = Append(pending, g)
      BY <1>2, <2>5 DEF Import, AddPendingFidl
    <3>2. InQueue' = InQueue \cup {g}
      BY <1>c, <2>1, <3>1, AppendContents DEF InQueue
    <3>3. g \notin Copied /\ g # cur
      <4>1. \A f \in Copied : d[f] <= d[cur] /\ d[f] \in Nat
        BY <1>b, <1>c, <2>3 DEF LayerByLayer
      <4> QED
        BY <2>2, <4>1
    <3>4. \A i, j \in DOMAIN pending' : i <= j => d[pending'[i]] <= d[pending'[j]]
      <4>1. /\ DOMAIN pending' = 1..(Len(pending) + 1) /\ pending'[Len(pending) + 1] = g
            /\ DOMAIN pending = 1..Len(pending) /\ Len(pending) \in Nat
            /\ \A i \in 1..Len(pending) : pending'[i] = pending[i]
        BY <1>c, <2>1, <3>1
      <4>2. \A i \in 1..Len(pending) : pending[i] \in InQueue
        BY <4>1 DEF InQueue
      <4>3. \A f \in InQueue : d[f] <= d[g]
        BY <1>b, <2>2, <2>3 DEF LayerByLayer
      <4>4. d[g] <= d[g]
        BY <1>b, <2>1
      <4>5. \A i, j \in 1..Len(pending) : i <= j => d[pending[i]] <= d[pending[j]]
        BY <1>b, <4>1 DEF LayerByLayer
      <4>6. ASSUME NEW i \in 1..(Len(pending) + 1), NEW j \in 1..(Len(pending) + 1), i <= j
            PROVE  d[pending'[i]] <= d[pending'[j]]
        <5>1. CASE j = Len(pending) + 1
          <6>1. CASE i = j
            BY <4>1, <4>4, <5>1, <6>1
          <6>2. CASE i # j
            <7>1. i \in 1..Len(pending)
              BY <4>1, <5>1, <6>2
            <7> QED
              BY <4>1, <4>2, <4>3, <5>1, <7>1
          <6> QED
            BY <6>1, <6>2
        <5>2. CASE j # Len(pending) + 1
          <6>1. i \in 1..Len(pending) /\ j \in 1..Len(pending)
            BY <4>1, <4>6, <5>2
          <6> QED
            BY <4>1, <4>5, <4>6, <6>1
        <5> QED
          BY <5>1, <5>2
      <4> QED
        BY <4>1, <4>6
    <3>5. d[cur] <= d[g] /\ d[g] <= d[cur] + 1
      BY <2>2
    <3> QED
      BY <1>b, <2>3, <2>5, <3>2, <3>3, <3>4, <3>5 DEF LayerByLayer
  <2> QED
    BY <2>4, <2>5
<1>3. CASE EndOfFile
  <2>1. /\ cur \in File /\ copies \in [File -> 0..2] /\ phase = "parsing" /\ phase' = "between"
        /\ pending' = pending /\ InQueue' = InQueue
    BY <1>0, <1>3 DEF EndOfFile, TypeOK, InQueue
  <2>2. /\ cur \notin Copied /\ cur \notin InQueue
        /\ \A f \in Copied : d[f] <= d[cur]
        /\ \A f \in InQueue : d[cur] <= d[f] /\ d[f] <= d[cur] + 1
    BY <1>b, <2>1 DEF LayerByLayer
  <2>3. Copied' \subseteq Copied \cup {cur} /\ \A f \in File : copies'[f] <= 1
    <3>1. CASE cur \in bad
      BY <1>3, <1>b, <3>1 DEF EndOfFile, Copied, LayerByLayer
    <3>2. CASE cur \notin bad
      <4>1. copies' = [copies EXCEPT ![cur] = 1]
        BY <1>3, <2>1, <2>2, <3>2 DEF EndOfFile, Copied
      <4>2. \A f \in File : copies[f] <= 1
        BY <1>b DEF LayerByLayer
      <4> QED
        BY <2>1, <4>1, <4>2 DEF Copied
    <3> QED
      BY <3>1, <3>2
  <2>4. \A f \in Copied \cup {cur}, g \in InQueue : d[f] <= d[g]
    BY <1>b, <1>c, <2>1, <2>2
  <2>5. \A f, g \in InQueue : d[g] <= d[f] + 1
    BY <1>b, <1>c, <2>1, <2>2
  <2> QED
    BY <1>b, <2>1, <2>2, <2>3, <2>4, <2>5 DEF LayerByLayer
<1>4. CASE ParsePending
  <2>1. /\ pending # <<>> /\ pending' = Tail(pending) /\ cur' = Head(pending)
        /\ phase = "between" /\ phase' = "parsing" /\ copies' = copies /\ Copied' = Copied
    BY <1>4 DEF ParsePending, Open, Copied
  <2>2. InQueue = InQueue' \cup {cur'}
    BY <1>c, <2>1, TakenContents
  <2>3. cur' \notin InQueue'
    BY <1>0, <1>c, <2>1, TailDistinct DEF PendingOnce, InQueue
  <2>4. /\ DOMAIN pending' = 1..(Len(pending) - 1) /\ cur' = pending[1]
        /\ DOMAIN pending = 1..Len(pending) /\ Len(pending) \in Nat /\ Len(pending) > 0
        /\ \A i \in 1..(Len(pending) - 1) : pending'[i] = pending[i + 1]
    BY <1>c, <2>1
  <2>5. \A i, j \in 1..Len(pending) : i <= j => d[pending[i]] <= d[pending[j]]
    BY <1>b, <2>4 DEF LayerByLayer
  <2>6. \A i \in 1..(Len(pending) - 1) : i + 1 \in 1..Len(pending) /\ 1 <= i + 1
    BY <2>4
  <2>7. \A i, j \in DOMAIN pending' : i <= j => d[pending'[i]] <= d[pending'[j]]
    <3>1. ASSUME NEW i \in 1..(Len(pending) - 1), NEW j \in 1..(Len(pending) - 1), i <= j
          PROVE  d[pending'[i]] <= d[pending'[j]]
      <4>1. i + 1 <= j + 1
        BY <2>4, <3>1
      <4>2. d[pending[i + 1]] <= d[pending[j + 1]]
        BY <2>5, <2>6, <4>1
      <4> QED
        BY <2>4, <4>2
    <3>2. DOMAIN pending' = 1..(Len(pending) - 1)
      BY <2>4
    <3> QED
      BY <3>1, <3>2
  <2>8. \A f \in InQueue' : d[cur'] <= d[f] /\ d[f] <= d[cur'] + 1
    <3>1. \A f \in InQueue' : d[cur'] <= d[f]
      <4>1. 1 \in 1..Len(pending)
        BY <2>4
      <4>2. \A i \in 1..(Len(pending) - 1) : d[pending[1]] <= d[pending[i + 1]]
        BY <2>5, <2>6, <4>1
      <4> QED
        BY <2>4, <4>2 DEF InQueue
    <3> QED
      BY <1>b, <2>1, <2>2, <3>1 DEF LayerByLayer
  <2>9. \A f \in Copied : d[f] <= d[cur']
    BY <1>b, <2>1, <2>2 DEF LayerByLayer
  <2> QED
    BY <1>b, <2>1, <2>2, <2>3, <2>7, <2>8, <2>9 DEF LayerByLayer
<1>5. CASE Finish
  <2>1. phase' \in {"accepted", "rejected"}
    BY <1>5 DEF Finish
  <2>2. CASE UNCHANGED <<pending, copies>>
    <3>1. InQueue' = InQueue /\ Copied' = Copied
      BY <2>2 DEF InQueue, Copied
    <3> QED
      BY <1>b, <2>1, <2>2, <3>1 DEF LayerByLayer
  <2>3. CASE Clear
    <3>1. InQueue' = {} /\ pending' = <<>> /\ \A f \in File : copies'[f] <= 1
      BY <2>3 DEF InQueue, Clear
    <3> QED
      BY <2>1, <3>1 DEF LayerByLayer
  <2> QED
    BY <1>5, <2>2, <2>3 DEF Finish
<1>6. CASE UNCHANGED vars
  <2>1. InQueue' = InQueue /\ Copied' = Copied
    BY <1>6 DEF InQueue, Copied, vars
  <2> QED
    BY <1>6, <1>b, <2>1 DEF LayerByLayer, vars
<1> QED
  BY <1>1, <1>2, <1>3, <1>4, <1>5, <1>6 DEF Next

\* A file imported several times, along chains of equal length, is in the model once, for any
\* number of files and whatever syntax errors they have.
THEOREM LayeredOnce == Spec => []OnceIfLayered
<1>1. InLayers => OnceIfLayered
  BY DEF InLayers, Layers, LayerByLayer, OnceIfLayered
<1> QED
  BY InitLayers, LayersStep, <1>1, PTL DEF Spec

-----------------------------------------------------------------------------
(* On a tree of imports FidlLoader implements ImportClosure.               *)

\* Every file is in one place, and what has been parsed, is being parsed or waits has been
\* imported by a file that was parsed before it.
EachOnce == ~failed /\ phase # "rejected" =>
    /\ \A f \in File : copies[f] <= 1
    /\ cur \notin Copied /\ cur \notin InQueue /\ InQueue \cap Copied = {}
    /\ phase = "start" => Copied = {} /\ InQueue = {}

FromParents == ~failed /\ phase # "rejected" =>
    /\ \A f \in Copied \cup {cur} : f \in {Main, NoFile} \/ \E g \in Copied : f \in Imported(g)
    /\ \A f \in InQueue : \E g \in (Copied \cup {cur}) \ {NoFile} : f \in Imported(g)

TreeInvariant ==
    Inductive /\ AcceptedIsClosure /\ PendingOnce /\ (Tree => EachOnce /\ FromParents)

LEMMA InitTree == Init => TreeInvariant
<1> SUFFICES ASSUME Init PROVE TreeInvariant
  OBVIOUS
<1>1. Copied = {} /\ InQueue = {} /\ cur = NoFile /\ phase = "start" /\ \A f \in File : copies[f] <= 1
  BY DEF Init, Copied, InQueue
<1>2. Inductive /\ PendingOnce /\ AcceptedIsClosure
  BY InitInductive, InductiveClosure DEF Init, PendingOnce
<1> QED
  BY <1>1, <1>2, NoFileAssumption DEF TreeInvariant, EachOnce, FromParents

\* What the main file leads to on a tree comes up once: an import that has been parsed
\* would have a second parent.
LEMMA ImportIsFresh ==
    ASSUME TreeInvariant, Tree, Import, ~failed
    PROVE  /\ cur \in File /\ imports[cur][pos] \in Imported(cur) \cap File
           /\ imports[cur][pos] \notin Copied \cup {cur}
<1> DEFINE f == imports[cur][pos]
<1>1. /\ TypeOK /\ phase = "parsing" /\ cur \in File /\ f \in Imported(cur) /\ f \in File
  BY ImportsAreSequences DEF TreeInvariant, Inductive, Import, TypeOK, Imported
<1>2. f # Main /\ f # NoFile
  BY <1>1, NoFileAssumption DEF Tree
<1>3. f # cur
  <2>1. {cur} # {} /\ {cur} \in SUBSET File
    BY <1>1
  <2>2. \E g \in {cur} : Imported(g) \cap {cur} = {}
    BY <2>1 DEF Tree, Acyclic
  <2>3. Imported(cur) \cap {cur} = {}
    BY <2>2
  <2> QED
    BY <1>1, <2>3
<1>4. f \notin Copied
  <2> SUFFICES ASSUME f \in Copied PROVE FALSE
    OBVIOUS
  <2>1. PICK g \in Copied : f \in Imported(g)
    BY <1>1, <1>2 DEF TreeInvariant, FromParents
  <2>2. g \in File /\ g # cur
    BY <1>1 DEF TreeInvariant, EachOnce, Copied
  <2> QED
    BY <1>1, <2>1, <2>2 DEF Tree
<1> QED
  BY <1>1, <1>3, <1>4

LEMMA StepTree ==
    ASSUME TreeInvariant, [Next]_vars
    PROVE  TreeInvariant'
<1>0. TypeOK /\ TypeOK' /\ Inductive /\ Inductive' /\ PendingOnce'
  BY StepInductive, OnceStep DEF TreeInvariant, Inductive
<1>9. Inductive' => AcceptedIsClosure'
  BY InductiveClosure, PTL
<1> SUFFICES ASSUME Tree' PROVE EachOnce' /\ FromParents'
  BY <1>0, <1>9 DEF TreeInvariant
<1>a. UNCHANGED inputs
  BY DEF Next, vars, ParseMain, Import, EndOfFile, ParsePending, Finish
<1>c. \A f : Imported(f)' = Imported(f)
  BY <1>a DEF Imported, inputs
<1>b. Tree /\ EachOnce /\ FromParents
  <2>1. Tree
    BY <1>c DEF Tree, Acyclic
  <2> QED
    BY <2>1 DEF TreeInvariant
<1>d. CASE failed' \/ phase' = "rejected"
  BY <1>d DEF EachOnce, FromParents
<1> SUFFICES ASSUME ~failed', phase' # "rejected" PROVE EachOnce' /\ FromParents'
  BY <1>d
<1>1. CASE ParseMain
  <2>1. /\ Copied' = Copied /\ InQueue' = InQueue /\ cur' = Main /\ phase = "start"
        /\ phase' = "parsing" /\ copies' = copies /\ failed' = failed
    BY <1>1 DEF ParseMain, Open, Copied, InQueue
  <2> QED
    BY <1>b, <2>1 DEF EachOnce, FromParents
<1>2. CASE Import
  <2>1. /\ phase = "parsing" /\ phase' = phase /\ cur' = cur /\ copies' = copies
        /\ failed' = failed /\ Copied' = Copied
    BY <1>2 DEF Import, Copied
  <2>2. /\ cur \in File /\ imports[cur][pos] \in Imported(cur) /\ imports[cur][pos] \in File
        /\ imports[cur][pos] \notin Copied \cup {cur}
    BY <1>2, <1>b, <2>1, ImportIsFresh
  <2>3. InQueue' = InQueue \cup {imports[cur][pos]}
    <3>1. CASE imports[cur][pos] \in InQueue
      BY <1>2, <3>1 DEF Import, AddPendingFidl, InQueue
    <3>2. CASE imports[cur][pos] \notin InQueue
      <4>1. pending' = Append(pending, imports[cur][pos]) /\ pending \in Seq(File)
        BY <1>0, <1>2, <3>2 DEF Import, AddPendingFidl, TypeOK
      <4> QED
        BY <2>2, <4>1, AppendContents DEF InQueue
    <3> QED
      BY <3>1, <3>2
  <2>4. EachOnce'
    BY <1>b, <2>1, <2>2, <2>3 DEF EachOnce
  <2>5. FromParents'
    BY <1>b, <1>c, <2>1, <2>2, <2>3, NoFileAssumption DEF FromParents
  <2> QED
    BY <2>4, <2>5
<1>3. CASE EndOfFile
  <2>1. /\ cur \in File /\ copies \in [File -> 0..2] /\ cur' = NoFile /\ phase = "parsing"
        /\ InQueue' = InQueue /\ phase' = "between" /\ pending \in Seq(File)
    BY <1>0, <1>3 DEF EndOfFile, TypeOK, InQueue
  <2>2. cur \notin bad /\ ~failed /\ cur \notin Copied
    BY <1>3, <1>b, <2>1 DEF EndOfFile, EachOnce
  <2>3. copies' = [copies EXCEPT ![cur] = 1]
    BY <1>3, <2>1, <2>2 DEF EndOfFile, Copied
  <2>4. Copied' = Copied \cup {cur}
    BY <2>1, <2>3 DEF Copied
  <2>5. NoFile \notin Copied /\ NoFile \notin InQueue
    BY <2>1, NoFileAssumption, ElementOfSeq DEF Copied, InQueue
  <2>6. EachOnce'
    <3>1. \A f \in File : copies'[f] <= 1
      BY <1>b, <2>1, <2>2, <2>3 DEF EachOnce
    <3> QED
      BY <1>b, <2>1, <2>2, <2>4, <2>5, <3>1, NoFileAssumption DEF EachOnce
  <2>7. FromParents'
    BY <1>b, <1>c, <2>1, <2>2, <2>4, <2>5 DEF FromParents
  <2> QED
    BY <2>6, <2>7
<1>4. CASE ParsePending
  <2>1. /\ pending \in Seq(File) /\ pending # <<>> /\ pending' = Tail(pending) /\ cur' = Head(pending)
        /\ cur = NoFile /\ phase = "between" /\ phase' = "parsing" /\ copies' = copies
        /\ failed' = failed /\ Copied' = Copied
    BY <1>0, <1>4 DEF ParsePending, Open, TypeOK, Copied
  <2>2. InQueue = InQueue' \cup {cur'}
    BY <2>1, TakenContents
  <2>3. cur' \notin InQueue'
    BY <2>1, TailDistinct DEF TreeInvariant, PendingOnce, InQueue
  <2>4. EachOnce'
    BY <1>b, <2>1, <2>2, <2>3 DEF EachOnce
  <2>5. FromParents'
    BY <1>b, <1>c, <2>1, <2>2 DEF FromParents
  <2> QED
    BY <2>4, <2>5
<1>5. CASE Finish
  <2>1. /\ cur' = cur /\ phase' = "accepted" /\ phase = "between" /\ failed' = failed
        /\ UNCHANGED <<pending, copies>>
    BY <1>5 DEF Finish
  <2>2. Copied' = Copied /\ InQueue' = InQueue
    BY <2>1 DEF Copied, InQueue
  <2> QED
    BY <1>b, <1>c, <2>1, <2>2 DEF EachOnce, FromParents
<1>6. CASE UNCHANGED vars
  <2>1. /\ Copied' = Copied /\ InQueue' = InQueue
        /\ UNCHANGED <<cur, phase, failed, copies>>
    BY <1>6 DEF vars, Copied, InQueue
  <2> QED
    BY <1>b, <1>c, <2>1 DEF EachOnce, FromParents
<1> QED
  BY <1>1, <1>2, <1>3, <1>4, <1>5, <1>6 DEF Next

LEMMA AlwaysTree == Spec => []TreeInvariant
BY InitTree, StepTree, PTL DEF Spec

LEMMA InitImplements == Init => Abstract!Init
<1> SUFFICES ASSUME Init PROVE Abstract!Init
  OBVIOUS
<1>1. TypeOK
  BY InitType
<1>2. [f \in File |-> Imported(f)] \in [File -> SUBSET File]
  BY <1>1, ImportsAreSequences
<1>3. KeptCopies = [f \in File |-> 0] /\ Result = "loading"
  BY DEF Init, KeptCopies, Result
<1> QED
  BY <1>2, <1>3 DEF Abstract!Init

\* Parsing a file without errors loads it, the first error rejects, Finish accepts or
\* rejects, and every other step is invisible.
LEMMA StepImplements ==
    ASSUME TreeInvariant, TreeInvariant', [Next]_vars
    PROVE  [Tree => Abstract!Next]_(Abstract!vars)
<1>0. TypeOK /\ Inductive
  BY DEF TreeInvariant, Inductive
<1>a. UNCHANGED inputs
  BY DEF Next, vars, ParseMain, Import, EndOfFile, ParsePending, Finish
<1>b. [f \in File |-> Imported(f)]' = [f \in File |-> Imported(f)]
  BY <1>a DEF Imported, inputs
<1>c. ASSUME KeptCopies' = KeptCopies, Result' = Result
      PROVE  UNCHANGED Abstract!vars
  BY <1>b, <1>c DEF Abstract!vars
<1> SUFFICES ASSUME Tree PROVE [Abstract!Next]_(Abstract!vars)
  OBVIOUS
<1>1. CASE EndOfFile /\ ~failed /\ cur \notin bad
  <2>1. /\ cur \in File /\ copies \in [File -> 0..2] /\ phase = "parsing" /\ phase' = "between"
        /\ ~failed' /\ cur \notin Copied
    BY <1>0, <1>1 DEF EndOfFile, TypeOK, TreeInvariant, EachOnce
  <2>2. copies' = [copies EXCEPT ![cur] = 1]
    BY <1>1, <2>1 DEF EndOfFile, Copied
  <2>3. Result = "loading" /\ Result' = "loading"
    BY <1>1, <2>1 DEF Result
  <2>4. KeptCopies = copies /\ KeptCopies' = copies'
    BY <1>1, <2>1, <2>2 DEF KeptCopies
  <2>5. Abstract!Loaded = Copied
    BY <2>4 DEF Abstract!Loaded, Copied
  <2>6. cur = Main \/ \E g \in Copied : cur \in [f \in File |-> Imported(f)][g]
    BY <1>1, <2>1, NoFileAssumption DEF TreeInvariant, FromParents, Copied
  <2>7. Abstract!Load(cur)
    BY <1>b, <2>1, <2>2, <2>3, <2>4, <2>5, <2>6 DEF Abstract!Load
  <2> QED
    BY <2>1, <2>7 DEF Abstract!Next
<1>2. CASE EndOfFile /\ ~failed /\ cur \in bad
  <2>1. phase = "parsing" /\ phase' = "between" /\ failed'
    BY <1>2 DEF EndOfFile
  <2>2. Result = "loading" /\ Result' = "rejected" /\ KeptCopies' = [f \in File |-> 0]
    BY <1>2, <2>1 DEF Result, KeptCopies
  <2> QED
    BY <1>b, <2>2 DEF Abstract!Next, Abstract!Reject
<1>3. CASE Finish /\ ~failed /\ phase' = "accepted"
  <2>1. phase = "between" /\ ~failed' /\ UNCHANGED copies
    BY <1>3 DEF Finish
  <2>2. Result = "loading" /\ Result' = "accepted" /\ KeptCopies' = KeptCopies
    BY <1>3, <2>1 DEF Result, KeptCopies
  <2>3. Main \in Copied' /\ Closed(Copied)'
    BY <1>3 DEF TreeInvariant, AcceptedIsClosure
  <2>4. Copied' = Copied /\ \A f : Imported(f)' = Imported(f)
    BY <1>a, <2>1 DEF Copied, Imported, inputs
  <2>5. Main \in Copied /\ \A g \in Copied : Imported(g) \subseteq Copied
    BY <2>3, <2>4 DEF Closed
  <2>6. Abstract!Loaded = Copied
    BY <1>3 DEF Abstract!Loaded, Copied, KeptCopies
  <2>7. Abstract!Accept
    BY <1>b, <2>2, <2>5, <2>6 DEF Abstract!Accept, Copied
  <2> QED
    BY <2>7 DEF Abstract!Next
<1>4. CASE Finish /\ ~failed /\ phase' # "accepted"
  <2>1. phase = "between" /\ phase' = "rejected" /\ copies' = [f \in File |-> 0]
    BY <1>4 DEF Finish, Clear
  <2>2. Result = "loading" /\ Result' = "rejected" /\ KeptCopies' = [f \in File |-> 0]
    BY <1>4, <2>1 DEF Result, KeptCopies
  <2> QED
    BY <1>b, <2>2 DEF Abstract!Next, Abstract!Reject
<1>5. CASE failed /\ (EndOfFile \/ Finish)
  <2>1. failed' /\ phase # "accepted" /\ phase' # "accepted"
    BY <1>5 DEF EndOfFile, Finish
  <2> QED
    BY <1>5, <1>c, <2>1 DEF Result, KeptCopies
<1>6. CASE ParseMain \/ Import \/ ParsePending \/ UNCHANGED vars
  <2>1. /\ UNCHANGED <<copies, failed>>
        /\ phase' = phase \/ {phase, phase'} \subseteq {"start", "parsing", "between"}
    BY <1>6 DEF ParseMain, Import, ParsePending, Open, vars
  <2> QED
    BY <1>c, <2>1 DEF Result, KeptCopies
<1> QED
  BY <1>1, <1>2, <1>3, <1>4, <1>5, <1>6 DEF Next

\* On a tree of imports FidlParser::parse implements the abstract loader, whatever the
\* number of files: every file is loaded exactly once, nothing is accepted that is not
\* complete, and a rejected load leaves nothing behind.
THEOREM Implements == Spec => ImplementsImportClosure
<1>1. Init => (Tree => Abstract!Init)
  BY InitImplements
<1> QED
  BY <1>1, AlwaysTree, StepImplements, PTL DEF Spec, ImplementsImportClosure
=============================================================================
