--------------------------- MODULE DocumentsProofs ---------------------------
(***************************************************************************)
(* Proofs about what is kept of documents, for every set of documents,     *)
(* threads and processes: the two lists of the vector store (VectorStore), *)
(* the rows of a hydration (EntityRows), the Drive service (DriveService), *)
(* the files of reports (ReportFiles), what a search answers               *)
(* (SearchEngine) and what is linked (LinkReader).                         *)
(***************************************************************************)
EXTENDS VectorStore, EntityRows, DriveService, ReportFiles, SearchEngine, LinkReader,
        SequenceTheorems, FiniteSetTheorems, TLAPS

-----------------------------------------------------------------------------
(* VectorStore: a vector and its text belong together, and what was         *)
(* acknowledged stays                                                       *)

AddStages == {"idle", "append", "write index", "open", "dump"}
AddingTyped == adding \in [Adders -> [at : AddStages, doc : 0 .. MaxDocs]]

\* The type invariant without the threads.
StoreTyped ==
    /\ vectors \in [Processes -> Saved] /\ texts \in [Processes -> Saved]
    /\ indexFile \in Saved \cup {NoFile} /\ metaFile \in Saved \cup {NoFile, Torn}
    /\ running \subseteq Processes
    /\ added \in 0 .. MaxDocs /\ stops \in 0 .. MaxStops
    /\ acknowledged \subseteq 1 .. MaxDocs /\ dropped \subseteq acknowledged
    /\ missed \in [Processes -> SUBSET acknowledged]
    /\ apart \subseteq Processes /\ mixed \in BOOLEAN

AtWork(a) == adding[a].at # "idle"
Between(a) == adding[a].at = "append"
WithFiles(a) == adding[a].at \in {"open", "dump"}

\* A thread that adds a document adds one, in a process that runs.
AddersRun ==
    \A a \in Adders : AtWork(a) => ProcessOf[a] \in running /\ adding[a].doc \in 1 .. MaxDocs

\* The lists of a process are one document apart while one thread is between the appends,
\* and equal otherwise.
ListsMeet ==
    ~mixed => \A p \in running \ apart :
        /\ \A a, b \in Threads(p) : Between(a) /\ Between(b) => a = b
        /\ \A a \in Threads(p) : Between(a) => vectors[p] = Append(texts[p], adding[a].doc)
        /\ (\A a \in Threads(p) : ~Between(a)) => vectors[p] = texts[p]

\* Files that nobody is writing agree.
FilesMeet == ~mixed /\ (\A a \in Adders : ~WithFiles(a)) => indexFile = metaFile

\* The index that a thread has saved is still the one of its process, and so are the texts,
\* or another thread of the process has come.
SaveIsOwn ==
    ~mixed => \A a \in Adders : WithFiles(a) =>
        \/ \E b \in Threads(ProcessOf[a]) : b # a /\ AtWork(b)
        \/ indexFile = vectors[ProcessOf[a]] /\ vectors[ProcessOf[a]] = texts[ProcessOf[a]]

\* One thread at most writes, as long as no saves have crossed.
OneWriter == ~mixed => \A a, b \in Adders : WithFiles(a) /\ WithFiles(b) => a = b

\* A process holds the text of what was acknowledged, but for what it has missed and what was
\* saved over, and of what its threads are saving.
TextsHold ==
    /\ \A p \in running : \A d \in acknowledged :
          d \in ToSet(texts[p]) \/ d \in dropped \/ d \in missed[p]
    /\ \A a \in Adders : Saving(a) => adding[a].doc \in ToSet(texts[ProcessOf[a]])

\* The index comes before the texts, and the texts before the first answer.
FirstFiles ==
    /\ metaFile # NoFile \/ (\E a \in Adders : WithFiles(a)) => indexFile # NoFile
    /\ metaFile = NoFile => acknowledged = {}

VectorInv ==
    /\ StoreTyped /\ AddingTyped /\ AddersRun
    /\ ListsMeet /\ FilesMeet /\ SaveIsOwn /\ OneWriter
    /\ TextsHold /\ FirstFiles /\ AcknowledgedIsKept

\* The type invariant in parts.
LEMMA VectorTypeParts == VectorTypeOK <=> StoreTyped /\ AddingTyped
BY DEF VectorTypeOK, StoreTyped, AddingTyped, AddStages

LEMMA VectorInitInv == VectorInit => VectorInv
<1> SUFFICES ASSUME VectorInit PROVE VectorInv
  OBVIOUS
<1> USE VectorAssumption DEF VectorInit
<1>1. <<>> \in Saved /\ NotAdding \in [at : AddStages, doc : 0 .. MaxDocs] /\ NotAdding.at = "idle"
  BY DEF Saved, NotAdding, AddStages
<1>2. StoreTyped
  <2>1. vectors \in [Processes -> Saved] /\ texts \in [Processes -> Saved]
    BY <1>1
  <2>2. missed \in [Processes -> SUBSET acknowledged]
    OBVIOUS
  <2>3. 0 \in 0 .. MaxDocs /\ 0 \in 0 .. MaxStops
    OBVIOUS
  <2> QED
    BY <2>1, <2>2, <2>3 DEF StoreTyped
<1>3. AddingTyped /\ AddersRun /\ \A a \in Adders : adding[a].at = "idle"
  BY <1>1 DEF AddingTyped, AddersRun, AtWork
<1>4. ListsMeet /\ FilesMeet /\ SaveIsOwn /\ OneWriter
  BY <1>3 DEF ListsMeet, FilesMeet, SaveIsOwn, OneWriter, WithFiles
<1>5. TextsHold /\ FirstFiles /\ AcknowledgedIsKept
  BY <1>3 DEF TextsHold, FirstFiles, AcknowledgedIsKept, Saving, WithFiles
<1> QED
  BY <1>2, <1>3, <1>4, <1>5 DEF VectorInv

\* What a thread that takes its next step does to the threads.
LEMMA OneThread ==
    ASSUME AddingTyped, NEW a \in Adders, NEW at, NEW next \in AddStages, AddStep(a, at, next)
    PROVE  /\ AddingTyped' /\ adding[a].at = at /\ ProcessOf[a] \in running
           /\ adding'[a].at = next /\ adding'[a].doc = adding[a].doc
           /\ \A b \in Adders : b # a => adding'[b] = adding[b]
BY DEF AddingTyped, AddStep

\* Lists are made longer by documents.
LEMMA ListsGrow ==
    ASSUME NEW list \in Saved, NEW d \in 1 .. MaxDocs
    PROVE  Append(list, d) \in Saved /\ d \in ToSet(Append(list, d)) /\ ToSet(list) \subseteq ToSet(Append(list, d))
<1>1. /\ Append(list, d) \in Saved /\ Len(Append(list, d)) = Len(list) + 1
      /\ Append(list, d)[Len(list) + 1] = d
      /\ \A i \in 1 .. Len(list) : Append(list, d)[i] = list[i]
      /\ Len(list) \in Nat
  BY DEF Saved
<1>2. DOMAIN list = 1 .. Len(list) /\ DOMAIN Append(list, d) = 1 .. Len(list) + 1
  BY <1>1 DEF Saved
<1> QED
  BY <1>1, <1>2 DEF ToSet

LEMMA StartStep == ASSUME VectorInv, NEW p \in Processes, Start(p) PROVE VectorInv'
<1> USE VectorAssumption DEF VectorInv
<1>1. /\ UNCHANGED <<indexFile, metaFile, adding, added, stops, acknowledged, dropped, mixed>>
      /\ p \notin running /\ metaFile # Torn /\ running' = running \cup {p}
  BY DEF Start
<1>2. /\ vectors' = [vectors EXCEPT ![p] = Loaded(indexFile)]
      /\ texts' = [texts EXCEPT ![p] = Loaded(metaFile)]
      /\ missed' = [missed EXCEPT ![p] = {}]
      /\ apart' = IF \E a \in Adders : Saving(a) THEN apart \cup {p} ELSE apart \ {p}
  BY DEF Start
<1>3. Loaded(indexFile) \in Saved /\ Loaded(metaFile) \in Saved
  <2>1. <<>> \in Saved
    BY DEF Saved
  <2> QED
    BY <1>1, <2>1 DEF Loaded, StoreTyped
<1>4. StoreTyped'
  BY <1>1, <1>2, <1>3 DEF StoreTyped
<1>5. AddingTyped' /\ AddersRun' /\ FilesMeet' /\ OneWriter' /\ FirstFiles' /\ AcknowledgedIsKept'
  BY <1>1 DEF AddingTyped, AddersRun, AtWork, FilesMeet, OneWriter, WithFiles, FirstFiles, AcknowledgedIsKept
<1>6. \A a \in Threads(p) : adding[a].at = "idle"
  BY <1>1 DEF AddersRun, AtWork, Threads
<1>7. \A q \in Processes \ {p} : vectors'[q] = vectors[q] /\ texts'[q] = texts[q] /\ missed'[q] = missed[q]
  BY <1>2 DEF StoreTyped
<1>8. vectors'[p] = Loaded(indexFile) /\ texts'[p] = Loaded(metaFile) /\ missed'[p] = {}
  BY <1>2 DEF StoreTyped
<1>9. ListsMeet'
  <2> SUFFICES ASSUME ~mixed, NEW q \in running', q \notin apart'
               PROVE  /\ \A a, b \in Threads(q) : Between(a) /\ Between(b) => a = b
                      /\ \A a \in Threads(q) : Between(a) => vectors'[q] = Append(texts'[q], adding[a].doc)
                      /\ (\A a \in Threads(q) : ~Between(a)) => vectors'[q] = texts'[q]
    BY <1>1 DEF ListsMeet, Threads, Between
  <2>1. CASE q = p
    <3>1. \A a \in Adders : ~Saving(a)
      BY <1>2, <2>1
    <3>2. indexFile = metaFile
      BY <3>1 DEF FilesMeet, WithFiles, Saving
    <3> QED
      BY <1>6, <1>8, <2>1, <3>2 DEF Between, Loaded
  <2>2. CASE q # p
    <3>1. q \in running \ apart /\ q \in Processes
      BY <1>1, <1>2, <2>2 DEF StoreTyped
    <3> QED
      BY <1>7, <2>2, <3>1 DEF ListsMeet
  <2> QED
    BY <2>1, <2>2
<1>10. \A a \in Adders : AtWork(a) => ProcessOf[a] \in Processes \ {p}
  BY <1>1 DEF AddersRun
<1>11. SaveIsOwn'
  BY <1>1, <1>7, <1>10 DEF SaveIsOwn, WithFiles, AtWork, Threads
<1>12. TextsHold'
  <2>1. ASSUME NEW q \in running', NEW d \in acknowledged
        PROVE  d \in ToSet(texts'[q]) \/ d \in dropped \/ d \in missed'[q]
    <3>1. CASE q = p
      <4>1. indexFile # NoFile /\ metaFile # NoFile
        BY DEF FirstFiles
      <4>2. d \in dropped \/ d \in ToSet(metaFile)
        BY <1>1 DEF AcknowledgedIsKept
      <4> QED
        BY <1>8, <3>1, <4>1, <4>2 DEF Loaded
    <3>2. CASE q # p
      BY <1>1, <1>7, <3>2, q \in Processes \ {p} DEF TextsHold, StoreTyped
    <3> QED
      BY <3>1, <3>2
  <2>2. \A a \in Adders : Saving(a) => adding[a].doc \in ToSet(texts'[ProcessOf[a]])
    BY <1>7, <1>10 DEF TextsHold, Saving, AtWork
  <2> QED
    BY <1>1, <2>1, <2>2 DEF TextsHold, Saving
<1> QED
  BY <1>4, <1>5, <1>9, <1>11, <1>12

LEMMA StopStep == ASSUME VectorInv, NEW p \in Processes, Stop(p) PROVE VectorInv'
<1> USE VectorAssumption DEF VectorInv
<1>1. /\ UNCHANGED <<indexFile, metaFile, added, acknowledged, missed, dropped, apart>>
      /\ running' = running \ {p} /\ stops' \in 0 .. MaxStops
      /\ mixed' = (mixed \/ \E a \in Threads(p) : Saving(a))
  BY DEF Stop, StoreTyped
<1>2. \A q \in Processes \ {p} : vectors'[q] = vectors[q] /\ texts'[q] = texts[q]
  BY DEF Stop, StoreTyped
<1>3. /\ adding' = [a \in Adders |-> IF a \in Threads(p) THEN NotAdding ELSE adding[a]]
      /\ NotAdding \in [at : AddStages, doc : 0 .. MaxDocs] /\ NotAdding.at = "idle"
  BY DEF Stop, NotAdding, AddStages
<1>4. \A a \in Adders : IF ProcessOf[a] = p THEN adding'[a].at = "idle" ELSE adding'[a] = adding[a]
  BY <1>3 DEF Threads
<1>5. StoreTyped'
  <2>1. <<>> \in Saved
    BY DEF Saved
  <2>2. vectors' \in [Processes -> Saved] /\ texts' \in [Processes -> Saved]
    BY <2>1 DEF Stop, StoreTyped
  <2> QED
    BY <1>1, <2>2 DEF StoreTyped
<1>6. AddingTyped' /\ AddersRun'
  BY <1>1, <1>3, <1>4 DEF AddingTyped, AddersRun, AtWork
<1>7. FirstFiles' /\ AcknowledgedIsKept'
  BY <1>1, <1>4 DEF FirstFiles, WithFiles, AcknowledgedIsKept
<1>8. ~mixed' => ~mixed /\ \A a \in Adders : ProcessOf[a] = p => ~Saving(a)
  BY <1>1 DEF Threads
<1>9. FilesMeet' /\ OneWriter'
  BY <1>1, <1>4, <1>8 DEF FilesMeet, OneWriter, WithFiles, Saving
<1>10. SaveIsOwn'
  <2> SUFFICES ASSUME ~mixed', NEW a \in Adders, WithFiles(a)'
               PROVE  (\/ \E b \in Threads(ProcessOf[a]) : b # a /\ AtWork(b)
                       \/ indexFile = vectors[ProcessOf[a]] /\ vectors[ProcessOf[a]] = texts[ProcessOf[a]])'
    BY DEF SaveIsOwn
  <2>1. ProcessOf[a] \in Processes \ {p} /\ WithFiles(a)
    BY <1>4 DEF WithFiles
  <2>2. \A b \in Threads(ProcessOf[a]) : adding'[b] = adding[b]
    BY <1>4, <2>1 DEF Threads
  <2> QED
    BY <1>1, <1>2, <1>8, <2>1, <2>2 DEF SaveIsOwn, AtWork, Threads
<1>11. ListsMeet'
  <2>1. ASSUME ~mixed', NEW q \in running' \ apart'
        PROVE  /\ q \in running \ apart /\ vectors'[q] = vectors[q] /\ texts'[q] = texts[q]
               /\ \A a \in Threads(q) : adding'[a] = adding[a]
    BY <1>1, <1>2, <1>4 DEF Threads, StoreTyped
  <2> SUFFICES ASSUME ~mixed', NEW q \in running' \ apart'
               PROVE  /\ \A a, b \in Threads(q) : Between(a)' /\ Between(b)' => a = b
                      /\ \A a \in Threads(q) : Between(a)' => vectors'[q] = Append(texts'[q], adding'[a].doc)
                      /\ (\A a \in Threads(q) : ~Between(a)') => vectors'[q] = texts'[q]
    BY DEF ListsMeet, Threads
  <2>2. ~mixed /\ q \in running \ apart
    BY <1>8, <2>1
  <2>3. \A a \in Threads(q) : Between(a)' = Between(a)
    BY <2>1 DEF Between
  <2>4. \A a, b \in Threads(q) : Between(a) /\ Between(b) => a = b
    BY <2>2 DEF ListsMeet
  <2>5. \A a \in Threads(q) : Between(a) => vectors[q] = Append(texts[q], adding[a].doc)
    BY <2>2 DEF ListsMeet
  <2>6. (\A a \in Threads(q) : ~Between(a)) => vectors[q] = texts[q]
    BY <2>2 DEF ListsMeet
  <2> QED
    BY <2>1, <2>3, <2>4, <2>5, <2>6
<1>12. TextsHold'
  <2>1. \A q \in running' : q \in running /\ q \in Processes \ {p}
    BY <1>1 DEF StoreTyped
  <2>2. \A a \in Adders : Saving(a)' => Saving(a) /\ ProcessOf[a] \in Processes \ {p} /\ adding'[a] = adding[a]
    BY <1>4 DEF Saving
  <2> QED
    BY <1>1, <1>2, <2>1, <2>2 DEF TextsHold
<1> QED
  BY <1>5, <1>6, <1>7, <1>9, <1>10, <1>11, <1>12

LEMMA AddVectorStep == ASSUME VectorInv, NEW a \in Adders, AddVector(a) PROVE VectorInv'
<1> USE VectorAssumption DEF VectorInv
<1>1. PICK p \in Processes : p = ProcessOf[a]
  OBVIOUS
<1>2. /\ UNCHANGED <<texts, indexFile, metaFile, running, stops, acknowledged, missed, dropped, mixed>>
      /\ adding[a].at = "idle" /\ p \in running
      /\ added' \in 0 .. MaxDocs /\ added + 1 \in 1 .. MaxDocs
      /\ apart' = IF \E b \in Threads(p) : adding[b].at = "append" THEN apart \cup {p} ELSE apart
  BY <1>1 DEF AddVector, StoreTyped
<1>3. /\ vectors' = [vectors EXCEPT ![p] = Append(@, added + 1)]
      /\ adding' = [adding EXCEPT ![a] = [at |-> "append", doc |-> added + 1]]
  BY <1>1 DEF AddVector
<1>4. /\ vectors'[p] = Append(vectors[p], added + 1) /\ vectors' \in [Processes -> Saved]
      /\ \A q \in Processes \ {p} : vectors'[q] = vectors[q]
  BY <1>2, <1>3, ListsGrow DEF StoreTyped
<1>5. /\ AddingTyped' /\ adding'[a].at = "append" /\ adding'[a].doc = added + 1
      /\ \A b \in Adders \ {a} : adding'[b] = adding[b]
  <2>1. [at |-> "append", doc |-> added + 1] \in [at : AddStages, doc : 0 .. MaxDocs]
    BY <1>2 DEF AddStages
  <2> QED
    BY <1>3, <2>1 DEF AddingTyped
<1>6. StoreTyped'
  BY <1>2, <1>4 DEF StoreTyped
<1>7. AddersRun'
  BY <1>1, <1>2, <1>5 DEF AddersRun, AtWork
<1>8. FilesMeet' /\ OneWriter' /\ FirstFiles' /\ AcknowledgedIsKept'
  BY <1>2, <1>5 DEF FilesMeet, OneWriter, WithFiles, FirstFiles, AcknowledgedIsKept
<1>9. SaveIsOwn'
  <2> SUFFICES ASSUME ~mixed', NEW c \in Adders, WithFiles(c)'
               PROVE  (\/ \E b \in Threads(ProcessOf[c]) : b # c /\ AtWork(b)
                       \/ indexFile = vectors[ProcessOf[c]] /\ vectors[ProcessOf[c]] = texts[ProcessOf[c]])'
    BY DEF SaveIsOwn
  <2>1. c # a /\ WithFiles(c)
    BY <1>5 DEF WithFiles
  <2>2. CASE ProcessOf[c] = p
    BY <1>1, <1>5, <2>1, <2>2 DEF Threads, AtWork
  <2>3. CASE ProcessOf[c] # p
    <3>1. \A b \in Threads(ProcessOf[c]) : adding'[b] = adding[b]
      BY <1>1, <1>5, <2>3 DEF Threads
    <3> QED
      BY <1>2, <1>4, <2>1, <2>3, <3>1 DEF SaveIsOwn, Threads, AtWork
  <2> QED
    BY <2>2, <2>3
<1>10. ListsMeet'
  <2> SUFFICES ASSUME ~mixed, NEW q \in running, q \notin apart'
               PROVE  (/\ \A b, c \in Threads(q) : Between(b) /\ Between(c) => b = c
                       /\ \A b \in Threads(q) : Between(b) => vectors[q] = Append(texts[q], adding[b].doc)
                       /\ (\A b \in Threads(q) : ~Between(b)) => vectors[q] = texts[q])'
    BY <1>2 DEF ListsMeet
  <2>1. q \notin apart /\ q \in Processes
    BY <1>2 DEF StoreTyped
  <2>2. CASE q = p
    <3>1. \A b \in Threads(p) : ~Between(b)
      BY <1>2, <2>2 DEF Between
    <3>2. vectors[p] = texts[p]
      BY <2>1, <2>2, <3>1 DEF ListsMeet
    <3>3. \A b \in Threads(p) : Between(b)' <=> b = a
      BY <1>5, <3>1 DEF Between, Threads
    <3>4. a \in Threads(p)
      BY <1>1 DEF Threads
    <3> QED
      BY <1>2, <1>4, <1>5, <2>2, <3>2, <3>3, <3>4 DEF Threads
  <2>3. CASE q # p
    <3>1. \A b \in Threads(q) : adding'[b] = adding[b] /\ (Between(b)' <=> Between(b))
      BY <1>1, <1>5, <2>3 DEF Threads, Between
    <3>2. vectors'[q] = vectors[q] /\ texts'[q] = texts[q]
      BY <1>2, <1>4, <2>1, <2>3
    <3>3. /\ \A b, c \in Threads(q) : Between(b) /\ Between(c) => b = c
          /\ \A b \in Threads(q) : Between(b) => vectors[q] = Append(texts[q], adding[b].doc)
          /\ (\A b \in Threads(q) : ~Between(b)) => vectors[q] = texts[q]
      BY <1>2, <2>1 DEF ListsMeet
    <3> QED
      BY <3>1, <3>2, <3>3 DEF Threads
  <2> QED
    BY <2>2, <2>3
<1>11. TextsHold'
  BY <1>2, <1>5 DEF TextsHold, Saving
<1> QED
  BY <1>5, <1>6, <1>7, <1>8, <1>9, <1>10, <1>11

LEMMA AddTextStep == ASSUME VectorInv, NEW a \in Adders, AddText(a) PROVE VectorInv'
<1> USE VectorAssumption DEF VectorInv
<1>1. PICK p \in Processes : p = ProcessOf[a]
  OBVIOUS
<1>2. /\ UNCHANGED <<vectors, indexFile, metaFile, running, added, stops, acknowledged, missed, dropped,
                     apart, mixed>>
      /\ texts' = [texts EXCEPT ![p] = Append(@, adding[a].doc)]
  BY <1>1 DEF AddText, Listed
<1>3. /\ AddingTyped' /\ adding[a].at = "append" /\ p \in running
      /\ adding'[a].at = "write index" /\ adding'[a].doc = adding[a].doc
      /\ \A b \in Adders : b # a => adding'[b] = adding[b]
  BY <1>1, OneThread DEF AddText, AddStages
<1>4. adding[a].doc \in 1 .. MaxDocs
  BY <1>3 DEF AddersRun, AtWork
<1>5. /\ texts'[p] = Append(texts[p], adding[a].doc) /\ texts' \in [Processes -> Saved]
      /\ \A q \in Processes \ {p} : texts'[q] = texts[q]
  BY <1>2, <1>4, ListsGrow DEF StoreTyped
<1>6. StoreTyped' /\ AddersRun'
  BY <1>2, <1>3, <1>5 DEF StoreTyped, AddersRun, AtWork
<1>7. FilesMeet' /\ OneWriter' /\ FirstFiles' /\ AcknowledgedIsKept'
  BY <1>2, <1>3 DEF FilesMeet, OneWriter, WithFiles, FirstFiles, AcknowledgedIsKept
<1>8. SaveIsOwn'
  <2> SUFFICES ASSUME ~mixed', NEW c \in Adders, WithFiles(c)'
               PROVE  (\/ \E b \in Threads(ProcessOf[c]) : b # c /\ AtWork(b)
                       \/ indexFile = vectors[ProcessOf[c]] /\ vectors[ProcessOf[c]] = texts[ProcessOf[c]])'
    BY DEF SaveIsOwn
  <2>1. c # a /\ WithFiles(c)
    BY <1>3 DEF WithFiles
  <2>2. CASE ProcessOf[c] = p
    BY <1>1, <1>3, <2>1, <2>2 DEF Threads, AtWork
  <2>3. CASE ProcessOf[c] # p
    <3>1. \A b \in Threads(ProcessOf[c]) : adding'[b] = adding[b]
      BY <1>1, <1>3, <2>3 DEF Threads
    <3> QED
      BY <1>2, <1>5, <2>1, <2>3, <3>1 DEF SaveIsOwn, Threads, AtWork
  <2> QED
    BY <2>2, <2>3
<1>9. ListsMeet'
  <2> SUFFICES ASSUME ~mixed, NEW q \in running, q \notin apart
               PROVE  (/\ \A b, c \in Threads(q) : Between(b) /\ Between(c) => b = c
                       /\ \A b \in Threads(q) : Between(b) => vectors[q] = Append(texts[q], adding[b].doc)
                       /\ (\A b \in Threads(q) : ~Between(b)) => vectors[q] = texts[q])'
    BY <1>2 DEF ListsMeet
  <2>1. q \in Processes
    BY DEF StoreTyped
  <2>2. CASE q = p
    <3>1. a \in Threads(p) /\ Between(a)
      BY <1>1, <1>3 DEF Threads, Between
    <3>2. vectors[p] = Append(texts[p], adding[a].doc) /\ \A b \in Threads(p) : Between(b) => b = a
      BY <2>2, <3>1 DEF ListsMeet
    <3>3. \A b \in Threads(p) : ~Between(b)'
      BY <1>3, <3>2 DEF Between, Threads
    <3> QED
      BY <1>2, <1>5, <2>2, <3>2, <3>3 DEF Threads
  <2>3. CASE q # p
    <3>1. \A b \in Threads(q) : adding'[b] = adding[b]
      BY <1>1, <1>3, <2>3 DEF Threads
    <3> QED
      BY <1>2, <1>5, <2>1, <2>3, <3>1 DEF ListsMeet, Between, Threads
  <2> QED
    BY <2>2, <2>3
<1>10. \A q \in Processes : ToSet(texts[q]) \subseteq ToSet(texts'[q])
  BY <1>4, <1>5, ListsGrow DEF StoreTyped
<1>11. TextsHold'
  <2>1. adding[a].doc \in ToSet(texts'[p])
    BY <1>4, <1>5, ListsGrow DEF StoreTyped
  <2>2. \A b \in Adders : Saving(b)' => adding'[b].doc \in ToSet(texts'[ProcessOf[b]])
    BY <1>1, <1>3, <1>10, <2>1 DEF TextsHold, Saving
  <2> QED
    BY <1>2, <1>10, <2>2 DEF TextsHold, StoreTyped
<1> QED
  BY <1>3, <1>6, <1>7, <1>8, <1>9, <1>11

\* A thread that saves leaves the lists; if no saves cross, nobody else is adding.
LEMMA SavingStep ==
    ASSUME VectorInv, NEW a \in Adders, WriteIndex(a) \/ OpenMeta(a) \/ DumpMeta(a)
    PROVE  /\ UNCHANGED <<vectors, texts, running, added, stops, apart>>
           /\ mixed' = (mixed \/ Crossed(a))
           /\ ~mixed' => ~mixed /\ ProcessOf[a] \notin apart /\ \A b \in Adders : b # a => ~AtWork(b)
           /\ \A b \in Adders : b # a => adding'[b] = adding[b]
           /\ Saving(a) /\ ProcessOf[a] \in running
           /\ AddingTyped' /\ AddersRun' /\ ListsMeet' /\ ~Between(a)'
<1> USE VectorAssumption DEF VectorInv
<1>1. UNCHANGED <<vectors, texts, running, added, stops, apart>> /\ mixed' = (mixed \/ Crossed(a))
  BY DEF WriteIndex, OpenMeta, DumpMeta
<1>2. ~mixed' => ~mixed /\ ProcessOf[a] \notin apart /\ \A b \in Adders : b # a => ~AtWork(b)
  BY <1>1 DEF Crossed, AtWork
<1>3. /\ AddingTyped' /\ \A b \in Adders : b # a => adding'[b] = adding[b]
      /\ adding'[a].at \in {"open", "dump", "idle"}
      /\ adding'[a].at # "idle" => adding'[a].doc = adding[a].doc
      /\ Saving(a)
  <2>1. CASE WriteIndex(a) \/ OpenMeta(a)
    BY <2>1, OneThread DEF WriteIndex, OpenMeta, AddStages, Saving
  <2>2. CASE DumpMeta(a)
    <3>1. NotAdding \in [at : AddStages, doc : 0 .. MaxDocs] /\ NotAdding.at = "idle"
      BY DEF NotAdding, AddStages
    <3> QED
      BY <2>2, <3>1 DEF DumpMeta, Saving, AddingTyped
  <2> QED
    BY <2>1, <2>2
<1>4. AtWork(a) /\ ProcessOf[a] \in running /\ adding[a].doc \in 1 .. MaxDocs
  BY <1>3 DEF AtWork, Saving, AddersRun
<1>5. AddersRun'
  BY <1>1, <1>3, <1>4 DEF AddersRun, AtWork
<1>6. \A b \in Adders : /\ Between(b)' <=> Between(b)
                        /\ Between(b) => adding'[b] = adding[b]
  BY <1>3 DEF Between, Saving
<1>7. ListsMeet'
  BY <1>1, <1>2, <1>6 DEF ListsMeet, Threads
<1>8. ~Between(a)'
  BY <1>3 DEF Between
<1> QED
  BY <1>1, <1>2, <1>3, <1>4, <1>5, <1>7, <1>8

LEMMA WriteIndexStep == ASSUME VectorInv, NEW a \in Adders, WriteIndex(a) PROVE VectorInv'
<1> USE VectorAssumption DEF VectorInv
<1>1. /\ UNCHANGED <<vectors, texts, running, added, stops, apart>>
      /\ ~mixed' => ~mixed /\ ProcessOf[a] \notin apart /\ \A b \in Adders : b # a => ~AtWork(b)
      /\ \A b \in Adders : b # a => adding'[b] = adding[b]
      /\ ProcessOf[a] \in running
      /\ AddingTyped' /\ AddersRun' /\ ListsMeet'
  BY SavingStep
<1>2. /\ UNCHANGED <<metaFile, acknowledged, missed, dropped>> /\ indexFile' = vectors[ProcessOf[a]]
      /\ adding[a].at = "write index" /\ adding'[a].at = "open" /\ adding'[a].doc = adding[a].doc
      /\ mixed' \in BOOLEAN
  BY OneThread DEF WriteIndex, AddStages
<1>3. StoreTyped'
  BY <1>1, <1>2 DEF StoreTyped
<1>4. indexFile' # NoFile
  BY <1>2 DEF StoreTyped, Saved
<1>5. FirstFiles' /\ AcknowledgedIsKept'
  BY <1>2, <1>4 DEF FirstFiles, AcknowledgedIsKept
<1>6. ~mixed' => \A b \in Adders : WithFiles(b)' => b = a
  BY <1>1 DEF WithFiles, AtWork
<1>7. OneWriter' /\ FilesMeet'
  BY <1>2, <1>6 DEF OneWriter, FilesMeet, WithFiles
<1>8. SaveIsOwn'
  <2> SUFFICES ASSUME ~mixed' PROVE vectors[ProcessOf[a]] = texts[ProcessOf[a]]
    BY <1>1, <1>2, <1>6 DEF SaveIsOwn
  <2>1. \A b \in Threads(ProcessOf[a]) : ~Between(b)
    BY <1>1, <1>2 DEF Threads, Between, AtWork
  <2> QED
    BY <1>1, <2>1 DEF ListsMeet
<1>9. TextsHold'
  BY <1>1, <1>2 DEF TextsHold, Saving
<1> QED
  BY <1>1, <1>3, <1>5, <1>7, <1>8, <1>9

LEMMA OpenMetaStep == ASSUME VectorInv, NEW a \in Adders, OpenMeta(a) PROVE VectorInv'
<1> USE VectorAssumption DEF VectorInv
<1>1. /\ UNCHANGED <<vectors, texts, running, added, stops, apart>>
      /\ ~mixed' => ~mixed /\ ProcessOf[a] \notin apart /\ \A b \in Adders : b # a => ~AtWork(b)
      /\ \A b \in Adders : b # a => adding'[b] = adding[b]
      /\ AddingTyped' /\ AddersRun' /\ ListsMeet'
  BY SavingStep
<1>2. /\ UNCHANGED <<indexFile, acknowledged, missed, dropped>> /\ metaFile' = Torn
      /\ adding[a].at = "open" /\ adding'[a].at = "dump" /\ adding'[a].doc = adding[a].doc
      /\ mixed' \in BOOLEAN
  BY OneThread DEF OpenMeta, AddStages
<1>3. StoreTyped'
  BY <1>1, <1>2 DEF StoreTyped
<1>4. indexFile # NoFile
  BY <1>2 DEF FirstFiles, WithFiles
<1>5. FirstFiles' /\ AcknowledgedIsKept'
  BY <1>2, <1>4, VectorAssumption DEF FirstFiles, AcknowledgedIsKept
<1>6. ~mixed' => \A b \in Adders : WithFiles(b)' => b = a
  BY <1>1 DEF WithFiles, AtWork
<1>7. OneWriter' /\ FilesMeet'
  BY <1>2, <1>6 DEF OneWriter, FilesMeet, WithFiles
<1>8. SaveIsOwn'
  <2> SUFFICES ASSUME ~mixed'
               PROVE indexFile = vectors[ProcessOf[a]] /\ vectors[ProcessOf[a]] = texts[ProcessOf[a]]
    BY <1>1, <1>2, <1>6 DEF SaveIsOwn
  <2> QED
    BY <1>1, <1>2 DEF SaveIsOwn, WithFiles, Threads
<1>9. TextsHold'
  BY <1>1, <1>2 DEF TextsHold, Saving
<1> QED
  BY <1>1, <1>3, <1>5, <1>7, <1>8, <1>9

LEMMA DumpMetaStep == ASSUME VectorInv, NEW a \in Adders, DumpMeta(a) PROVE VectorInv'
<1> USE VectorAssumption DEF VectorInv
<1>1. /\ UNCHANGED <<vectors, texts, running, added, stops, apart>>
      /\ ~mixed' => ~mixed /\ ProcessOf[a] \notin apart /\ \A b \in Adders : b # a => ~AtWork(b)
      /\ \A b \in Adders : b # a => adding'[b] = adding[b]
      /\ Saving(a) /\ ProcessOf[a] \in running
      /\ AddingTyped' /\ AddersRun' /\ ListsMeet'
  BY SavingStep
<1>2. PICK p \in Processes : p = ProcessOf[a]
  OBVIOUS
<1>3. /\ UNCHANGED indexFile /\ metaFile' = texts[p]
      /\ adding[a].at = "dump" /\ adding'[a].at = "idle" /\ mixed' \in BOOLEAN
      /\ acknowledged' = acknowledged \cup {adding[a].doc}
      /\ missed' = [q \in Processes |-> IF q = p THEN missed[q] ELSE missed[q] \cup {adding[a].doc}]
      /\ dropped' = dropped \cup missed[p]
  BY <1>2 DEF DumpMeta, NotAdding, AddingTyped
<1>4. adding[a].doc \in 1 .. MaxDocs /\ adding[a].doc \in ToSet(texts[p])
  BY <1>1, <1>2 DEF AddersRun, AtWork, Saving, TextsHold
<1>5. StoreTyped'
  <2>1. acknowledged' \subseteq 1 .. MaxDocs /\ dropped' \subseteq acknowledged'
    BY <1>3, <1>4 DEF StoreTyped
  <2>2. missed' \in [Processes -> SUBSET acknowledged']
    BY <1>3 DEF StoreTyped
  <2>3. metaFile' \in Saved
    BY <1>3 DEF StoreTyped
  <2> QED
    BY <1>1, <1>3, <2>1, <2>2, <2>3 DEF StoreTyped
<1>6. FirstFiles'
  <2>1. indexFile # NoFile
    BY <1>3 DEF FirstFiles, WithFiles
  <2>2. metaFile' # NoFile
    BY <1>3 DEF StoreTyped, Saved
  <2> QED
    BY <1>3, <2>1, <2>2 DEF FirstFiles
<1>7. \A d \in acknowledged' : d \in ToSet(texts[p]) \/ d \in dropped \/ d \in missed[p]
  BY <1>1, <1>2, <1>3, <1>4 DEF TextsHold
<1>8. AcknowledgedIsKept'
  BY <1>3, <1>7 DEF AcknowledgedIsKept
<1>9. ~mixed' => \A b \in Adders : ~WithFiles(b)'
  BY <1>1, <1>3 DEF WithFiles, AtWork
<1>10. OneWriter' /\ SaveIsOwn'
  BY <1>9 DEF OneWriter, SaveIsOwn
<1>11. FilesMeet'
  <2> SUFFICES ASSUME ~mixed' PROVE indexFile = texts[p]
    BY <1>3 DEF FilesMeet
  <2> QED
    BY <1>1, <1>2, <1>3 DEF SaveIsOwn, WithFiles, Threads
<1>12. TextsHold'
  <2>1. ASSUME NEW q \in running, NEW d \in acknowledged'
        PROVE  d \in ToSet(texts[q]) \/ d \in dropped' \/ d \in missed'[q]
    <3>1. CASE q = p
      BY <1>3, <1>7, <3>1
    <3>2. CASE q # p
      BY <1>3, <3>2, q \in Processes DEF TextsHold, StoreTyped
    <3> QED
      BY <3>1, <3>2
  <2>2. \A b \in Adders : Saving(b)' => Saving(b) /\ adding'[b] = adding[b]
    BY <1>1, <1>3 DEF Saving
  <2> QED
    BY <1>1, <2>1, <2>2 DEF TextsHold
<1> QED
  BY <1>1, <1>5, <1>6, <1>8, <1>10, <1>11, <1>12

LEMMA VectorStep == VectorInv /\ [VectorNext]_vectorVars => VectorInv'
<1> SUFFICES ASSUME VectorInv, [VectorNext]_vectorVars PROVE VectorInv'
  OBVIOUS
<1>1. ASSUME NEW p \in Processes, Start(p) \/ Stop(p) PROVE VectorInv'
  BY <1>1, StartStep, StopStep
<1>2. ASSUME NEW a \in Adders,
             AddVector(a) \/ AddText(a) \/ WriteIndex(a) \/ OpenMeta(a) \/ DumpMeta(a)
      PROVE  VectorInv'
  BY <1>2, AddVectorStep, AddTextStep, WriteIndexStep, OpenMetaStep, DumpMetaStep
<1>3. CASE UNCHANGED vectorVars
  <2>1. StoreTyped' /\ AddingTyped' /\ AddersRun'
    BY <1>3 DEF vectorVars, VectorInv, StoreTyped, AddingTyped, AddersRun, AtWork
  <2>2. ListsMeet' /\ FilesMeet' /\ OneWriter'
    BY <1>3 DEF vectorVars, VectorInv, ListsMeet, FilesMeet, OneWriter, Between, WithFiles
  <2>3. SaveIsOwn'
    BY <1>3 DEF vectorVars, VectorInv, SaveIsOwn, AtWork, WithFiles
  <2>4. TextsHold' /\ FirstFiles' /\ AcknowledgedIsKept'
    BY <1>3 DEF vectorVars, VectorInv, TextsHold, Saving, FirstFiles, WithFiles, AcknowledgedIsKept
  <2> QED
    BY <2>1, <2>2, <2>3, <2>4 DEF VectorInv
<1> QED
  BY <1>1, <1>2, <1>3 DEF VectorNext

LEMMA VectorAlways == VectorSpec => []VectorInv
BY VectorInitInv, VectorStep, PTL DEF VectorSpec

\* The vector store keeps its types, its histories included: only what was acknowledged is
\* missed or saved over (rag_service.py:70).
THEOREM VectorTyped == VectorSpec => []VectorTypeOK
<1>1. VectorInv => VectorTypeOK
  BY VectorTypeParts DEF VectorInv
<1> QED
  BY <1>1, VectorAlways, PTL

\* The vector that a query hits and the text looked up by its position are of one document, and
\* acknowledged documents stay in the saved texts, outside the windows that VectorsHold names,
\* for every number of threads, processes, documents and stops (rag_service.py:70-160).
THEOREM VectorStoreHolds == VectorSpec => []VectorsHold
<1>1. VectorInv => VectorsHold
  <2> SUFFICES ASSUME VectorInv PROVE VectorsMeetText
    BY DEF VectorInv, VectorsHold
  <2>1. \A p : \A a \in Threads(p) : a \in Adders
    BY DEF Threads
  <2> QED
    BY <2>1 DEF VectorInv, ListsMeet, VectorsMeetText, Between
<1> QED
  BY <1>1, VectorAlways, PTL

-----------------------------------------------------------------------------
(* EntityRows: every row is a line of a committed text                      *)

Hooks == [document : Filed \cup {"none"}, lines : Seq(Lines), read : Seq(Lines \cup {NoRow})]
AtHook == {h \in Hydrators : Hooking(h)}
At(h, d) == Hooking(h) /\ hooked[h].document = d

RowsTyped ==
    /\ entityRows \in [Filed -> [Indexes -> Lines \cup {NoRow}]]
    /\ linkRows \in [Filed -> Seq(Lines \X Lines)]
    /\ kept \in [Filed -> Seq(Seq(Lines))]
    /\ hookedCount \in 0 .. MaxHooked /\ rowRefusals \in 0 .. MaxRefusals
    /\ mingled \subseteq Filed

HooksTyped ==
    /\ hooked \in [Hydrators -> Hooks]
    /\ \A h \in Hydrators :
          /\ Len(hooked[h].lines) <= 2 /\ Len(hooked[h].read) <= Len(hooked[h].lines)
          /\ Hooking(h) => hooked[h].document \in Filed

\* One process is at a document that was never mingled.
OneAtDocument ==
    \A d \in Filed \ mingled : \A g, h \in Hydrators : At(g, d) /\ At(h, d) => g = h

\* A row that was read is there, and is as it was read unless another process came.
ReadIsThere ==
    \A d \in Filed : \A h \in Hydrators : At(h, d) =>
        \A i \in DOMAIN hooked[h].read :
            /\ hooked[h].read[i] # NoRow => entityRows[d][i] # NoRow
            /\ d \notin mingled => hooked[h].read[i] = entityRows[d][i]

\* A document has a row if and only if a text gave it.
RowsAreGiven == \A d \in Filed : \A i \in Indexes : Givers(d, i) = {} <=> entityRows[d][i] = NoRow

RowsAreKept ==
    \A d \in Filed : \A i \in Indexes :
        entityRows[d][i] # NoRow => entityRows[d][i] \in LinesKept(d, i)

\* The newest of the texts that had the line, named: with it the newest exists.
RowsAreNewest ==
    \A d \in Filed \ mingled : \A i \in Indexes : Givers(d, i) # {} =>
        \E n \in Givers(d, i) :
            (\A k \in Givers(d, i) : k <= n) /\ entityRows[d][i] = kept[d][n][i]

LinksAreGiven == \A d \in Filed : Len(linkRows[d]) = Cardinality(Givers(d, 2))

\* A version is counted before it is committed.
HooksAreCounted ==
    /\ IsFiniteSet(AtHook)
    /\ \A d \in Filed : Len(kept[d]) + Cardinality(AtHook) <= hookedCount

RowsInv ==
    /\ RowsTyped /\ HooksTyped /\ OneAtDocument /\ ReadIsThere
    /\ RowsAreGiven /\ RowsAreKept /\ RowsAreNewest /\ LinksAreGiven /\ HooksAreCounted

LEMMA AtRestIs == AtRest \in Hooks /\ AtRest.document = "none" /\ AtRest.lines = <<>> /\ AtRest.read = <<>>
BY DEF AtRest, Hooks

LEMMA EntitiesAre ==
    ASSUME NEW page \in Seq(Lines), Len(page) # 0
    PROVE  EntitiesOf(page) \in Seq(Lines) /\ Len(EntitiesOf(page)) \in 1 .. 2
<1>1. PICK n \in Nat : n = Len(page)
  OBVIOUS
<1>2. CASE n > 2
  <2>1. EntitiesOf(page) = SubSeq(page, 1, 2)
    BY <1>1, <1>2 DEF EntitiesOf
  <2>2. 2 \in 0 .. Len(page)
    BY <1>1, <1>2
  <2>3. SubSeq(page, 1, 2) \in Seq(Lines) /\ Len(SubSeq(page, 1, 2)) = 2
    BY <2>2, SubSeqProperties
  <2> QED
    BY <2>1, <2>3
<1>3. CASE n <= 2
  <2>1. EntitiesOf(page) = page
    BY <1>1, <1>3 DEF EntitiesOf
  <2>2. n \in 1 .. 2
    BY <1>1, <1>3
  <2> QED
    BY <1>1, <2>1, <2>2
<1> QED
  BY <1>1, <1>2, <1>3

LEMMA RowsInitInv == RowsInit => RowsInv
<1> SUFFICES ASSUME RowsInit PROVE RowsInv
  OBVIOUS
<1> USE RowsAssumption DEF RowsInit
<1>1. RowsTyped
  <2>1. <<>> \in Seq(Lines \X Lines) /\ <<>> \in Seq(Seq(Lines))
    OBVIOUS
  <2>2. 0 \in 0 .. MaxHooked /\ 0 \in 0 .. MaxRefusals
    OBVIOUS
  <2> QED
    BY <2>1, <2>2 DEF RowsTyped
<1>2. \A h \in Hydrators : ~Hooking(h)
  BY DEF Hooking
<1>3. HooksTyped /\ OneAtDocument /\ ReadIsThere
  BY <1>2, AtRestIs DEF HooksTyped, OneAtDocument, ReadIsThere, At
<1>4. \A d \in Filed : \A i \in Indexes : Givers(d, i) = {} /\ entityRows[d][i] = NoRow
  BY DEF Givers
<1>5. RowsAreGiven /\ RowsAreKept /\ RowsAreNewest
  BY <1>4 DEF RowsAreGiven, RowsAreKept, RowsAreNewest
<1>6. LinksAreGiven
  BY <1>4, FS_EmptySet DEF LinksAreGiven, Indexes
<1>7. HooksAreCounted
  <2>1. AtHook = {}
    BY <1>2 DEF AtHook
  <2> QED
    BY <2>1, FS_EmptySet DEF HooksAreCounted
<1> QED
  BY <1>1, <1>3, <1>5, <1>6, <1>7 DEF RowsInv

\* A step that leaves the rows and the texts leaves what is said of both.
LEMMA RowsFrame ==
    ASSUME RowsInv, UNCHANGED <<entityRows, linkRows, kept>>, mingled \subseteq mingled'
    PROVE  RowsAreGiven' /\ RowsAreKept' /\ RowsAreNewest' /\ LinksAreGiven'
<1>1. RowsAreGiven' /\ RowsAreKept' /\ LinksAreGiven'
  BY DEF RowsInv, RowsAreGiven, RowsAreKept, LinksAreGiven, Givers, LinesKept
<1>2. RowsAreNewest'
  BY DEF RowsInv, RowsAreNewest, Givers
<1> QED
  BY <1>1, <1>2

LEMMA HookBeginsStep ==
    ASSUME RowsInv, NEW h \in Hydrators, NEW d \in Filed, NEW page \in Pages, HookBegins(h, d, page)
    PROVE  RowsInv'
<1> USE RowsAssumption DEF RowsInv
<1>1. /\ UNCHANGED <<entityRows, linkRows, rowRefusals, kept>>
      /\ ~Hooking(h) /\ hookedCount' = hookedCount + 1 /\ hookedCount < MaxHooked
      /\ mingled' = IF \E g \in Hydrators : hooked[g].document = d THEN mingled \cup {d} ELSE mingled
  BY DEF HookBegins
<1>2. PICK lines \in Seq(Lines), n \in 1 .. 2 : lines = EntitiesOf(page) /\ n = Len(lines)
  <2>1. page \in Seq(Lines) /\ Len(page) # 0
    BY DEF HookBegins
  <2> QED
    BY <2>1, EntitiesAre
<1>3. PICK new \in Hooks : /\ new = [document |-> d, lines |-> lines, read |-> <<>>] /\ new # AtRest
                           /\ new.document = d /\ new.lines = lines /\ Len(new.read) = 0
  <2>1. <<>> \in Seq(Lines \cup {NoRow})
    OBVIOUS
  <2>2. [document |-> d, lines |-> lines, read |-> <<>>] \in Hooks
    BY <2>1 DEF Hooks
  <2>3. PICK new \in Hooks : new = [document |-> d, lines |-> lines, read |-> <<>>]
    BY <2>2
  <2>4. new.document = d /\ new.lines = lines /\ new.read = <<>>
    BY <2>3
  <2>5. n # 0 /\ Len(<<>>) = 0
    OBVIOUS
  <2>6. new # AtRest
    BY <1>2, <2>4, <2>5, AtRestIs
  <2> QED
    BY <2>3, <2>4, <2>5, <2>6
<1>4. hooked' \in [Hydrators -> Hooks] /\ hooked'[h] = new /\ \A g \in Hydrators : g # h => hooked'[g] = hooked[g]
  BY <1>2, <1>3 DEF HookBegins, HooksTyped
<1>5. \A g \in Hydrators : Hooking(g)' <=> Hooking(g) \/ g = h
  BY <1>3, <1>4 DEF Hooking
<1>6. RowsTyped'
  BY <1>1 DEF RowsTyped
<1>7. HooksTyped'
  <2>1. Len(new.lines) <= 2 /\ Len(new.read) <= Len(new.lines) /\ new.document \in Filed
    <3>1. 0 <= n /\ n <= 2
      OBVIOUS
    <3> QED
      BY <1>2, <1>3, <3>1
  <2>2. ASSUME NEW g \in Hydrators
        PROVE  /\ Len(hooked'[g].lines) <= 2 /\ Len(hooked'[g].read) <= Len(hooked'[g].lines)
               /\ Hooking(g)' => hooked'[g].document \in Filed
    BY <1>4, <1>5, <2>1 DEF HooksTyped
  <2> QED
    BY <1>4, <2>2 DEF HooksTyped
<1>8. OneAtDocument'
  <2>1. \A e \in Filed : \A g \in Hydrators : At(g, e)' <=> At(g, e) \/ (g = h /\ e = d)
    BY <1>1, <1>3, <1>4, <1>5 DEF At
  <2>2. d \notin mingled' => \A g \in Hydrators : ~At(g, d)
    BY <1>1 DEF At
  <2>3. mingled \subseteq mingled'
    BY <1>1
  <2> QED
    BY <2>1, <2>2, <2>3 DEF OneAtDocument
<1>9. ReadIsThere'
  <2>1. DOMAIN new.read = {}
    BY <1>3
  <2>2. \A g \in Hydrators : \A e \in Filed : At(g, e)' /\ g # h => At(g, e) /\ hooked'[g] = hooked[g]
    BY <1>1, <1>4, <1>5 DEF At
  <2>3. mingled \subseteq mingled'
    BY <1>1
  <2> QED
    BY <1>1, <1>4, <2>1, <2>2, <2>3 DEF ReadIsThere
<1>10. RowsAreGiven' /\ RowsAreKept' /\ RowsAreNewest' /\ LinksAreGiven'
  BY <1>1, RowsFrame
<1>11. HooksAreCounted'
  <2>1. AtHook' = AtHook \cup {h} /\ h \notin AtHook
    BY <1>1, <1>5 DEF AtHook
  <2>2. IsFiniteSet(AtHook') /\ Cardinality(AtHook') = Cardinality(AtHook) + 1 /\ Cardinality(AtHook) \in Nat
    BY <2>1, FS_AddElement, FS_CardinalityType DEF HooksAreCounted
  <2>3. \A e \in Filed : Len(kept[e]) \in Nat
    BY DEF RowsTyped
  <2> QED
    BY <1>1, <2>2, <2>3 DEF HooksAreCounted, RowsTyped
<1> QED
  BY <1>6, <1>7, <1>8, <1>9, <1>10, <1>11

LEMMA ReadRowStep == ASSUME RowsInv, NEW h \in Hydrators, ReadRow(h) PROVE RowsInv'
<1> USE RowsAssumption DEF RowsInv
<1>1. /\ UNCHANGED <<entityRows, linkRows, hookedCount, rowRefusals, kept, mingled>>
      /\ Hooking(h) /\ Len(hooked[h].read) + 1 <= Len(hooked[h].lines)
  BY DEF ReadRow
<1>2. PICK d \in Filed, at \in Nat, read \in Seq(Lines \cup {NoRow}), lines \in Seq(Lines) :
          /\ d = hooked[h].document /\ at = Len(read) + 1
          /\ read = hooked[h].read /\ lines = hooked[h].lines
  BY <1>1 DEF HooksTyped, Hooks
<1>3. at \in Indexes
  BY <1>1, <1>2 DEF HooksTyped, Indexes
<1>4. PICK more : more = Append(read, entityRows[d][at])
  OBVIOUS
<1>5. /\ more \in Seq(Lines \cup {NoRow}) /\ Len(more) = at /\ more[at] = entityRows[d][at]
      /\ \A i \in DOMAIN more : i = at \/ (i \in DOMAIN read /\ more[i] = read[i])
  <2>1. entityRows[d][at] \in Lines \cup {NoRow}
    BY <1>3 DEF RowsTyped
  <2>2. more \in Seq(Lines \cup {NoRow}) /\ Len(more) = at /\ more[at] = entityRows[d][at]
    BY <1>2, <1>4, <2>1, SMTT(30)
  <2>3. \A i \in 1 .. Len(read) : more[i] = read[i]
    BY <1>2, <1>4, <2>1
  <2>4. DOMAIN more = 1 .. at /\ DOMAIN read = 1 .. Len(read) /\ Len(read) \in Nat
    BY <2>2
  <2> QED
    BY <1>2, <2>2, <2>3, <2>4
<1>6. hooked' = [hooked EXCEPT ![h] = [@ EXCEPT !.read = more]]
  BY <1>2, <1>4 DEF ReadRow, HooksTyped
<1>7. PICK next \in Hooks : next = [document |-> d, lines |-> lines, read |-> more]
  BY <1>2, <1>5 DEF Hooks
<1>8. /\ hooked' \in [Hydrators -> Hooks] /\ hooked'[h] = next
      /\ \A g \in Hydrators : g # h => hooked'[g] = hooked[g]
  <2>1. [hooked[h] EXCEPT !.read = more] = next
    BY <1>2, <1>7, SMTT(30) DEF HooksTyped, Hooks
  <2> QED
    BY <1>6, <2>1 DEF HooksTyped
<1>9. next # AtRest
  BY <1>2, <1>5, <1>7, AtRestIs
<1>10. \A g \in Hydrators : (Hooking(g)' <=> Hooking(g)) /\ hooked'[g].document = hooked[g].document
  BY <1>1, <1>2, <1>7, <1>8, <1>9 DEF Hooking
<1>11. RowsTyped'
  BY <1>1 DEF RowsTyped
<1>12. HooksTyped'
  BY <1>1, <1>2, <1>5, <1>7, <1>8, <1>10 DEF HooksTyped
<1>13. OneAtDocument'
  BY <1>1, <1>10 DEF OneAtDocument, At
<1>14. ReadIsThere'
  <2>1. At(h, d)
    BY <1>1, <1>2 DEF At
  <2>2. ASSUME NEW i \in DOMAIN more
        PROVE  /\ more[i] # NoRow => entityRows[d][i] # NoRow
               /\ d \notin mingled => more[i] = entityRows[d][i]
    BY <1>2, <1>5, <2>1 DEF ReadIsThere
  <2>3. hooked'[h].read = more /\ hooked'[h].document = d
    BY <1>7, <1>8
  <2> QED
    BY <1>1, <1>8, <1>10, <2>2, <2>3 DEF ReadIsThere, At
<1>15. RowsAreGiven' /\ RowsAreKept' /\ RowsAreNewest' /\ LinksAreGiven'
  BY <1>1, RowsFrame
<1>16. HooksAreCounted'
  <2>1. AtHook' = AtHook
    BY <1>10 DEF AtHook
  <2> QED
    BY <1>1, <2>1 DEF HooksAreCounted
<1> QED
  BY <1>11, <1>12, <1>13, <1>14, <1>15, <1>16

\* A process that goes back to rest.
LEMMA Rests ==
    ASSUME RowsInv, NEW h \in Hydrators, Hooking(h), hooked' = [hooked EXCEPT ![h] = AtRest],
           UNCHANGED <<hookedCount, mingled>>
    PROVE  /\ HooksTyped' /\ OneAtDocument'
           /\ IsFiniteSet(AtHook') /\ Cardinality(AtHook) = Cardinality(AtHook') + 1 /\ Cardinality(AtHook') \in Nat
           /\ \A g \in Hydrators : \A d \in Filed : At(g, d)' => g # h /\ At(g, d) /\ hooked'[g] = hooked[g]
<1> USE DEF RowsInv
<1>1. /\ hooked' \in [Hydrators -> Hooks] /\ hooked'[h] = AtRest
      /\ \A g \in Hydrators : g # h => hooked'[g] = hooked[g]
  BY AtRestIs DEF HooksTyped
<1>2. \A g \in Hydrators : Hooking(g)' <=> Hooking(g) /\ g # h
  BY <1>1 DEF Hooking
<1>3. HooksTyped'
  BY <1>1, <1>2, AtRestIs DEF HooksTyped
<1>4. \A g \in Hydrators : \A d \in Filed : At(g, d)' => g # h /\ At(g, d) /\ hooked'[g] = hooked[g]
  BY <1>1, <1>2 DEF At
<1>5. OneAtDocument'
  BY <1>4 DEF OneAtDocument
<1>6. AtHook' = AtHook \ {h} /\ h \in AtHook
  BY <1>2 DEF AtHook
<1>7. /\ IsFiniteSet(AtHook') /\ Cardinality(AtHook) = Cardinality(AtHook') + 1
      /\ Cardinality(AtHook') \in Nat
  <2>1. IsFiniteSet(AtHook \ {h}) /\ Cardinality(AtHook \ {h}) = Cardinality(AtHook) - 1
    BY <1>6, FS_RemoveElement DEF HooksAreCounted
  <2>2. Cardinality(AtHook) \in Nat /\ Cardinality(AtHook \ {h}) \in Nat
    BY <2>1, FS_CardinalityType DEF HooksAreCounted
  <2> QED
    BY <1>6, <2>1, <2>2
<1> QED
  BY <1>3, <1>4, <1>5, <1>7

LEMMA FlushRefusedStep == ASSUME RowsInv, NEW h \in Hydrators, FlushRefused(h) PROVE RowsInv'
<1> USE RowsAssumption DEF RowsInv
<1>1. /\ UNCHANGED <<entityRows, linkRows, hookedCount, kept, mingled>>
      /\ hooked' = [hooked EXCEPT ![h] = AtRest] /\ Hooking(h)
      /\ rowRefusals' \in 0 .. MaxRefusals
  BY DEF FlushRefused, AllRead, RowsTyped
<1>2. /\ HooksTyped' /\ OneAtDocument'
      /\ IsFiniteSet(AtHook') /\ Cardinality(AtHook) = Cardinality(AtHook') + 1 /\ Cardinality(AtHook') \in Nat
      /\ \A g \in Hydrators : \A d \in Filed : At(g, d)' => g # h /\ At(g, d) /\ hooked'[g] = hooked[g]
  BY <1>1, Rests
<1>3. RowsTyped'
  BY <1>1 DEF RowsTyped
<1>4. ReadIsThere'
  BY <1>1, <1>2 DEF ReadIsThere
<1>5. RowsAreGiven' /\ RowsAreKept' /\ RowsAreNewest' /\ LinksAreGiven'
  BY <1>1, RowsFrame
<1>6. HooksAreCounted'
  <2>1. \A e \in Filed : Len(kept[e]) \in Nat
    BY DEF RowsTyped
  <2> QED
    BY <1>1, <1>2, <2>1 DEF HooksAreCounted, RowsTyped
<1> QED
  BY <1>2, <1>3, <1>4, <1>5, <1>6

LEMMA CommitRowsStep == ASSUME RowsInv, NEW h \in Hydrators, CommitRows(h) PROVE RowsInv'
<1> USE RowsAssumption DEF RowsInv
<1>1. Hooking(h) /\ Len(hooked[h].read) = Len(hooked[h].lines) /\ ~Clashes(h)
  BY DEF CommitRows, AllRead
<1>2. PICK d \in Filed, read \in Seq(Lines \cup {NoRow}), lines \in Seq(Lines) :
          /\ d = hooked[h].document /\ read = hooked[h].read /\ lines = hooked[h].lines
  BY <1>1 DEF HooksTyped, Hooks
<1>3. /\ UNCHANGED <<hookedCount, rowRefusals, mingled>>
      /\ hooked' = [hooked EXCEPT ![h] = AtRest]
      /\ kept' = [kept EXCEPT ![d] = Append(@, lines)]
      /\ linkRows' = [linkRows EXCEPT ![d] = @ \o LinksOf(lines)]
      /\ entityRows' = [entityRows EXCEPT ![d] =
              [i \in Indexes |-> IF i \in DOMAIN lines THEN Written(@[i], read[i], lines[i]) ELSE @[i]]]
  BY <1>2 DEF CommitRows
<1>4. /\ HooksTyped' /\ OneAtDocument'
      /\ IsFiniteSet(AtHook') /\ Cardinality(AtHook) = Cardinality(AtHook') + 1 /\ Cardinality(AtHook') \in Nat
      /\ \A g \in Hydrators : \A e \in Filed : At(g, e)' => g # h /\ At(g, e) /\ hooked'[g] = hooked[g]
  BY <1>1, <1>3, Rests
<1>5. /\ Len(read) = Len(lines) /\ DOMAIN read = DOMAIN lines /\ DOMAIN lines = 1 .. Len(lines)
      /\ Len(lines) \in Nat /\ Len(lines) <= 2
  BY <1>1, <1>2 DEF HooksTyped
<1>6. PICK N \in Nat : N = Len(kept[d]) + 1
  BY DEF RowsTyped
<1>7. /\ kept' \in [Filed -> Seq(Seq(Lines))] /\ kept'[d][N] = lines /\ Len(kept'[d]) = N
      /\ \A e \in Filed \ {d} : kept'[e] = kept[e] /\ \A i \in Indexes : Givers(e, i)' = Givers(e, i)
      /\ \A n \in DOMAIN kept[d] : n < N /\ kept'[d][n] = kept[d][n]
      /\ \A i \in Indexes :
            /\ Givers(d, i)' = IF i \in DOMAIN lines THEN Givers(d, i) \cup {N} ELSE Givers(d, i)
            /\ N \notin Givers(d, i) /\ IsFiniteSet(Givers(d, i))
  <2>1. kept[d] \in Seq(Seq(Lines)) /\ kept'[d] = Append(kept[d], lines)
    BY <1>3 DEF RowsTyped
  <2>2. /\ Len(kept'[d]) = N /\ kept'[d][N] = lines /\ DOMAIN kept'[d] = 1 .. N /\ DOMAIN kept[d] = 1 .. N - 1
        /\ \A n \in 1 .. N - 1 : kept'[d][n] = kept[d][n]
    BY <1>6, <2>1
  <2>3. kept' \in [Filed -> Seq(Seq(Lines))] /\ \A e \in Filed \ {d} : kept'[e] = kept[e]
    BY <1>3, <2>1 DEF RowsTyped
  <2>4. \A e \in Filed \ {d} : \A i \in Indexes : Givers(e, i)' = Givers(e, i)
    BY <2>3 DEF Givers
  <2>5. ASSUME NEW i \in Indexes
        PROVE  /\ Givers(d, i)' = IF i \in DOMAIN lines THEN Givers(d, i) \cup {N} ELSE Givers(d, i)
               /\ N \notin Givers(d, i) /\ IsFiniteSet(Givers(d, i))
    <3>1. Givers(d, i)' = {n \in 1 .. N : Len(kept'[d][n]) >= i}
      BY <2>2 DEF Givers
    <3>2. Givers(d, i) = {n \in 1 .. N - 1 : Len(kept[d][n]) >= i}
      BY <2>2 DEF Givers
    <3>3. i \in DOMAIN lines <=> Len(lines) >= i
      BY DEF Indexes
    <3>4. Givers(d, i) \subseteq 1 .. N - 1 /\ IsFiniteSet(1 .. N - 1)
      <4>1. N - 1 \in Int
        OBVIOUS
      <4>2. IsFiniteSet(1 .. N - 1)
        BY <4>1, FS_Interval
      <4> QED
        BY <3>2, <4>2
    <3>5. Givers(d, i)' = IF Len(lines) >= i THEN Givers(d, i) \cup {N} ELSE Givers(d, i)
      <4>1. 1 .. N = (1 .. N - 1) \cup {N}
        BY <1>6 DEF RowsTyped
      <4>2. \A n \in 1 .. N - 1 : kept'[d][n] = kept[d][n]
        BY <2>2
      <4>3. kept'[d][N] = lines
        BY <2>2
      <4> QED
        BY <3>1, <3>2, <4>1, <4>2, <4>3
    <3> QED
      BY <3>3, <3>4, <3>5, FS_Subset
  <2>6. \A n \in DOMAIN kept[d] : n < N /\ kept'[d][n] = kept[d][n]
    BY <2>2
  <2> QED
    BY <2>2, <2>3, <2>4, <2>5, <2>6
<1>8. /\ \A e \in Filed \ {d} : entityRows'[e] = entityRows[e] /\ linkRows'[e] = linkRows[e]
      /\ linkRows'[d] = linkRows[d] \o LinksOf(lines)
  BY <1>3 DEF RowsTyped
<1>9. \A i \in Indexes : entityRows'[d][i] = IF i \in DOMAIN lines /\ read[i] # lines[i] THEN lines[i]
                                              ELSE entityRows[d][i]
  BY <1>3 DEF RowsTyped, Written
<1>10. \A i \in Indexes \cap DOMAIN lines :
           /\ lines[i] \in Lines /\ lines[i] # NoRow
           /\ read[i] = lines[i] => entityRows[d][i] # NoRow
           /\ d \notin mingled => read[i] = entityRows[d][i]
  <2>1. At(h, d)
    BY <1>1, <1>2 DEF At
  <2>2. \A i \in DOMAIN read : /\ read[i] # NoRow => entityRows[d][i] # NoRow
                               /\ d \notin mingled => read[i] = entityRows[d][i]
    BY <1>2, <2>1 DEF ReadIsThere
  <2>3. \A i \in DOMAIN lines : lines[i] \in Lines
    OBVIOUS
  <2> QED
    BY <1>5, <2>2, <2>3
<1>11. LinksOf(lines) \in Seq(Lines \X Lines) /\ Len(LinksOf(lines)) = IF 2 \in DOMAIN lines THEN 1 ELSE 0
  <2>1. CASE Len(lines) >= 2
    <3>1. LinksOf(lines) = <<<<lines[1], lines[2]>>>> /\ 2 \in DOMAIN lines
      BY <1>5, <2>1 DEF LinksOf
    <3>2. <<lines[1], lines[2]>> \in Lines \X Lines
      BY <1>5, <2>1
    <3> QED
      BY <3>1, <3>2
  <2>2. CASE ~(Len(lines) >= 2)
    <3>1. LinksOf(lines) = <<>> /\ 2 \notin DOMAIN lines
      BY <1>5, <2>2 DEF LinksOf
    <3> QED
      BY <3>1
  <2> QED
    BY <2>1, <2>2
<1>12. RowsTyped'
  <2>1. \A i \in Indexes : entityRows'[d][i] \in Lines \cup {NoRow}
    BY <1>9, <1>10 DEF RowsTyped
  <2>2. entityRows' \in [Filed -> [Indexes -> Lines \cup {NoRow}]]
    BY <1>3, <2>1 DEF RowsTyped
  <2>3. linkRows' \in [Filed -> Seq(Lines \X Lines)]
    BY <1>3, <1>11 DEF RowsTyped
  <2> QED
    BY <1>3, <1>7, <2>2, <2>3 DEF RowsTyped
<1>13. ReadIsThere'
  <2>1. \A i \in Indexes : entityRows[d][i] # NoRow => entityRows'[d][i] # NoRow
    BY <1>9, <1>10
  <2>2. ASSUME NEW e \in Filed, NEW g \in Hydrators, At(g, e)', NEW i \in DOMAIN hooked'[g].read
        PROVE  /\ hooked'[g].read[i] # NoRow => entityRows'[e][i] # NoRow
               /\ e \notin mingled' => hooked'[g].read[i] = entityRows'[e][i]
    <3>1. g # h /\ At(g, e) /\ hooked'[g] = hooked[g]
      BY <1>4, <2>2
    <3>2. i \in Indexes
      BY <2>2, <3>1 DEF HooksTyped, Hooks, Indexes
    <3>3. e = d => d \in mingled
      BY <1>1, <1>2, <3>1 DEF OneAtDocument, At
    <3> QED
      BY <1>3, <1>8, <2>1, <2>2, <3>1, <3>2, <3>3 DEF ReadIsThere
  <2> QED
    BY <2>2 DEF ReadIsThere
<1>14. RowsAreGiven'
  <2>1. ASSUME NEW i \in Indexes PROVE Givers(d, i)' = {} <=> entityRows'[d][i] = NoRow
    <3>1. CASE i \in DOMAIN lines
      BY <1>7, <1>9, <1>10, <3>1
    <3>2. CASE i \notin DOMAIN lines
      BY <1>7, <1>9, <3>2, SMTT(30) DEF RowsAreGiven
    <3> QED
      BY <3>1, <3>2
  <2>2. ASSUME NEW e \in Filed, e # d, NEW i \in Indexes PROVE Givers(e, i)' = {} <=> entityRows'[e][i] = NoRow
    <3>1. Givers(e, i)' = Givers(e, i) /\ entityRows'[e] = entityRows[e]
      BY <1>7, <1>8, <2>2
    <3> QED
      BY <3>1 DEF RowsAreGiven
  <2> QED
    BY <2>1, <2>2 DEF RowsAreGiven
<1>15. RowsAreKept'
  <2>1. ASSUME NEW i \in Indexes, entityRows'[d][i] # NoRow PROVE entityRows'[d][i] \in LinesKept(d, i)'
    <3>1. CASE i \in DOMAIN lines /\ read[i] # lines[i]
      BY <1>7, <1>9, <3>1 DEF LinesKept
    <3>2. CASE ~(i \in DOMAIN lines /\ read[i] # lines[i])
      <4>1. entityRows[d][i] \in LinesKept(d, i) /\ entityRows'[d][i] = entityRows[d][i]
        BY <1>9, <2>1, <3>2 DEF RowsAreKept
      <4>2. PICK n \in Givers(d, i) : entityRows[d][i] = kept[d][n][i]
        BY <4>1 DEF LinesKept
      <4>3. n \in Givers(d, i)' /\ kept'[d][n] = kept[d][n]
        BY <1>7 DEF Givers
      <4> QED
        BY <4>1, <4>2, <4>3 DEF LinesKept
    <3> QED
      BY <3>1, <3>2
  <2>2. \A e \in Filed \ {d} : \A i \in Indexes : LinesKept(e, i)' = LinesKept(e, i)
    BY <1>7 DEF LinesKept
  <2> QED
    BY <1>8, <2>1, <2>2 DEF RowsAreKept
<1>16. RowsAreNewest'
  <2>1. ASSUME d \notin mingled, NEW i \in Indexes, Givers(d, i)' # {}
        PROVE  \E n \in Givers(d, i)' : (\A k \in Givers(d, i)' : k <= n) /\ entityRows'[d][i] = kept'[d][n][i]
    <3>1. CASE i \in DOMAIN lines
      <4>1. N \in Givers(d, i)' /\ entityRows'[d][i] = kept'[d][N][i]
        BY <1>7, <1>9, <1>10, <2>1, <3>1
      <4>2. \A k \in Givers(d, i)' : k <= N
        BY <1>7, <3>1 DEF Givers
      <4> QED
        BY <4>1, <4>2
    <3>2. CASE i \notin DOMAIN lines
      <4>1. Givers(d, i)' = Givers(d, i) /\ entityRows'[d][i] = entityRows[d][i]
        BY <1>7, <1>9, <3>2
      <4>2. PICK n \in Givers(d, i) : (\A k \in Givers(d, i) : k <= n) /\ entityRows[d][i] = kept[d][n][i]
        BY <2>1, <4>1 DEF RowsAreNewest
      <4>3. kept'[d][n] = kept[d][n]
        BY <1>7 DEF Givers
      <4> QED
        BY <4>1, <4>2, <4>3
    <3> QED
      BY <3>1, <3>2
  <2>2. ASSUME NEW e \in Filed \ {d}, e \notin mingled, NEW i \in Indexes, Givers(e, i)' # {}
        PROVE  \E n \in Givers(e, i)' : (\A k \in Givers(e, i)' : k <= n) /\ entityRows'[e][i] = kept'[e][n][i]
    <3>1. PICK n \in Givers(e, i) : (\A k \in Givers(e, i) : k <= n) /\ entityRows[e][i] = kept[e][n][i]
      BY <1>7, <2>2, SMTT(30) DEF RowsAreNewest
    <3> QED
      BY <1>7, <1>8, <3>1
  <2>3. ASSUME NEW e \in Filed \ mingled', NEW i \in Indexes, Givers(e, i)' # {}
        PROVE  \E n \in Givers(e, i)' : (\A k \in Givers(e, i)' : k <= n) /\ entityRows'[e][i] = kept'[e][n][i]
    <3>1. e \notin mingled
      BY <1>3
    <3>2. CASE e = d
      BY <2>1, <2>3, <3>1, <3>2
    <3>3. CASE e # d
      BY <2>2, <2>3, <3>1, <3>3
    <3> QED
      BY <3>2, <3>3
  <2> QED
    BY <2>3 DEF RowsAreNewest
<1>17. LinksAreGiven'
  <2>1. Len(linkRows'[d]) = Cardinality(Givers(d, 2)')
    <3>1. linkRows[d] \in Seq(Lines \X Lines) /\ Len(linkRows[d]) = Cardinality(Givers(d, 2))
      BY DEF RowsTyped, LinksAreGiven
    <3>2. Len(linkRows'[d]) = Len(linkRows[d]) + Len(LinksOf(lines))
      <4>1. LinksOf(lines) \in Seq(Lines \X Lines) /\ linkRows'[d] = linkRows[d] \o LinksOf(lines)
        BY <1>8, <1>11
      <4>2. PICK s \in Seq(Lines \X Lines), t \in Seq(Lines \X Lines) : s = linkRows[d] /\ t = LinksOf(lines)
        BY <3>1, <4>1
      <4>3. Len(s \o t) = Len(s) + Len(t)
        OBVIOUS
      <4> QED
        BY <4>1, <4>2, <4>3
    <3>3. 2 \in Indexes
      BY DEF Indexes
    <3>4. N \notin Givers(d, 2) /\ IsFiniteSet(Givers(d, 2))
      BY <1>7, <3>3
    <3>5. Cardinality(Givers(d, 2) \cup {N}) = Cardinality(Givers(d, 2)) + 1 /\ Cardinality(Givers(d, 2)) \in Nat
      BY <3>4, FS_AddElement, FS_CardinalityType
    <3>6. Givers(d, 2)' = IF 2 \in DOMAIN lines THEN Givers(d, 2) \cup {N} ELSE Givers(d, 2)
      BY <1>7, <3>3
    <3>7. CASE 2 \in DOMAIN lines
      BY <1>11, <3>1, <3>2, <3>5, <3>6, <3>7
    <3>8. CASE 2 \notin DOMAIN lines
      BY <1>11, <3>1, <3>2, <3>5, <3>6, <3>8
    <3> QED
      BY <3>7, <3>8
  <2> QED
    BY <1>7, <1>8, <2>1 DEF LinksAreGiven, Indexes
<1>18. HooksAreCounted'
  <2>1. \A e \in Filed : Len(kept'[e]) <= Len(kept[e]) + 1 /\ Len(kept[e]) \in Nat /\ Len(kept'[e]) \in Nat
    <3>1. \A e \in Filed : Len(kept[e]) \in Nat /\ Len(kept'[e]) \in Nat
      BY <1>7 DEF RowsTyped
    <3>2. \A e \in Filed : IF e = d THEN Len(kept'[e]) = Len(kept[e]) + 1 ELSE Len(kept'[e]) = Len(kept[e])
      BY <1>6, <1>7
    <3> QED
      BY <3>1, <3>2
  <2> QED
    BY <1>3, <1>4, <2>1, SMTT(30) DEF HooksAreCounted, RowsTyped
<1> QED
  BY <1>4, <1>12, <1>13, <1>14, <1>15, <1>16, <1>17, <1>18

LEMMA RowsStep == RowsInv /\ [RowsNext]_rowsVars => RowsInv'
<1> SUFFICES ASSUME RowsInv, [RowsNext]_rowsVars PROVE RowsInv'
  OBVIOUS
<1>1. ASSUME NEW h \in Hydrators, NEW d \in Filed, NEW page \in Pages, HookBegins(h, d, page) PROVE RowsInv'
  BY <1>1, HookBeginsStep
<1>2. ASSUME NEW h \in Hydrators, ReadRow(h) \/ CommitRows(h) \/ FlushRefused(h) PROVE RowsInv'
  BY <1>2, ReadRowStep, CommitRowsStep, FlushRefusedStep
<1>3. CASE UNCHANGED rowsVars
  <2> USE <1>3 DEF rowsVars, RowsInv
  <2>1. RowsAreGiven' /\ RowsAreKept' /\ RowsAreNewest' /\ LinksAreGiven'
    BY RowsFrame
  <2>2. RowsTyped' /\ HooksTyped'
    BY DEF RowsTyped, HooksTyped, Hooking
  <2>3. OneAtDocument' /\ ReadIsThere'
    BY DEF OneAtDocument, ReadIsThere, At, Hooking
  <2>4. HooksAreCounted'
    BY DEF HooksAreCounted, AtHook, Hooking
  <2> QED
    BY <2>1, <2>2, <2>3, <2>4
<1> QED
  BY <1>1, <1>2, <1>3 DEF RowsNext

LEMMA RowsAlways == RowsSpec => []RowsInv
BY RowsInitInv, RowsStep, PTL DEF RowsSpec

\* The rows of a document keep their types, and there are never more links than versions that
\* reached the hook (ule_hook.py:100-160).
THEOREM RowsTypes == RowsSpec => []RowsTypeOK
<1>1. RowsInv => RowsTypeOK
  <2> SUFFICES ASSUME RowsInv PROVE RowsTypeOK
    OBVIOUS
  <2> USE DEF RowsInv
  <2>1. ASSUME NEW d \in Filed PROVE DOMAIN entityRows[d] = Indexes /\ Len(linkRows[d]) \in 0 .. MaxHooked
    <3>1. Len(linkRows[d]) = Cardinality(Givers(d, 2)) /\ Len(linkRows[d]) \in Nat
      BY DEF LinksAreGiven, RowsTyped
    <3>2. Len(kept[d]) \in Nat /\ Givers(d, 2) \subseteq 1 .. Len(kept[d])
      BY DEF RowsTyped, Givers
    <3>3. Cardinality(Givers(d, 2)) <= Len(kept[d])
      <4>1. IsFiniteSet(1 .. Len(kept[d])) /\ Cardinality(1 .. Len(kept[d])) = Len(kept[d])
        BY <3>2, FS_Interval
      <4> QED
        BY <3>2, <4>1, FS_Subset
    <3>4. Len(kept[d]) <= hookedCount /\ hookedCount \in 0 .. MaxHooked
      <4>1. Cardinality(AtHook) \in Nat
        BY FS_CardinalityType DEF HooksAreCounted
      <4> QED
        BY <3>2, <4>1 DEF HooksAreCounted, RowsTyped
    <3> QED
      BY <3>1, <3>2, <3>3, <3>4, RowsAssumption DEF RowsTyped
  <2> QED
    BY <2>1 DEF RowsTypeOK, RowsTyped, HooksTyped
<1> QED
  BY <1>1, RowsAlways, PTL

\* Every row of a document is a line of a text that was committed, of the newest one that had
\* the line unless two hydrations were at the document at once, and there are as many links as
\* texts of two lines, both ends of each with a row: for every set of documents, pages and
\* processes (ule_hook.py:100-160).
THEOREM RowsComeFromTexts == RowsSpec => []RowsHaveCauses
<1>1. RowsInv => RowsHaveCauses
  <2> SUFFICES ASSUME RowsInv, NEW d \in Filed
               PROVE  /\ \A i \in Indexes :
                            /\ Givers(d, i) = {} <=> entityRows[d][i] = NoRow
                            /\ Givers(d, i) # {} =>
                                  entityRows[d][i] \in (IF d \in mingled THEN LinesKept(d, i)
                                                        ELSE {kept[d][NewestOf(Givers(d, i))][i]})
                      /\ Len(linkRows[d]) = Cardinality(Givers(d, 2))
                      /\ linkRows[d] # <<>> => \A i \in Indexes : entityRows[d][i] # NoRow
    BY DEF RowsHaveCauses
  <2> USE DEF RowsInv
  <2>1. \A i \in Indexes : Givers(d, i) = {} <=> entityRows[d][i] = NoRow
    BY DEF RowsAreGiven
  <2>2. ASSUME NEW i \in Indexes, Givers(d, i) # {}
        PROVE  entityRows[d][i] \in (IF d \in mingled THEN LinesKept(d, i)
                                     ELSE {kept[d][NewestOf(Givers(d, i))][i]})
    <3>1. CASE d \in mingled
      BY <2>1, <2>2, <3>1 DEF RowsAreKept
    <3>2. CASE d \notin mingled
      <4>1. PICK n \in Givers(d, i) : (\A k \in Givers(d, i) : k <= n) /\ entityRows[d][i] = kept[d][n][i]
        BY <2>2, <3>2 DEF RowsAreNewest
      <4>2. \A k \in Givers(d, i) : k \in Nat
        BY DEF Givers, RowsTyped
      <4>3. NewestOf(Givers(d, i)) = n
        BY <4>1, <4>2 DEF NewestOf
      <4> QED
        BY <3>2, <4>1, <4>3
    <3> QED
      BY <3>1, <3>2
  <2>3. Len(linkRows[d]) = Cardinality(Givers(d, 2))
    BY DEF LinksAreGiven
  <2>4. ASSUME linkRows[d] # <<>> PROVE \A i \in Indexes : entityRows[d][i] # NoRow
    <3>1. Len(linkRows[d]) # 0
      BY <2>4 DEF RowsTyped
    <3>2. Givers(d, 2) # {}
      BY <2>3, <3>1, FS_EmptySet
    <3>3. Givers(d, 2) \subseteq Givers(d, 1)
      BY DEF Givers, RowsTyped
    <3> QED
      BY <2>1, <3>2, <3>3 DEF Indexes
  <2> QED
    BY <2>1, <2>2, <2>3, <2>4
<1> QED
  BY <1>1, RowsAlways, PTL
-----------------------------------------------------------------------------
(* DriveService: an answer of connectors/list is built from three reads,   *)
(* each of which leaves a trace in what the request has seen of Drive      *)

Looks == {"find", "note", "available", "stubbed", "error"}
BegunStages == {"get", "find", "note", "check", "build", "keep", "use", "fail"}

Placed(w) ==
    \/ w = Away
    \/ w.op = "status" /\ w.at \in Looks
    \/ w.op \in WebCalls \cup WorkerCalls /\ w.at \in BegunStages

\* What a request for the status has read is of a state it has seen, of which it sees them all.
ReadsWereSeen(w) ==
    /\ w.at \in {"stubbed", "error"} /\ ~w.available => w.during \cap {"stubbed", "error"} # {}
    /\ w.at = "error" =>
           IF w.stubbed THEN w.during \cap {"stubbed", "error"} # {} ELSE "connected" \in w.during
Saw(w, d) == w.op = "status" => StatusOf(d) \in w.during /\ ReadsWereSeen(w)

WorkTyped == inDrive \in [Callers -> DriveWork]
WorkIsPlaced == \A t \in Callers : Placed(inDrive[t])
NobodyAsked == ~asked => \A t \in Callers : inDrive[t].op \in {"none", "status"}
LooksSaw == \A t \in Callers : Saw(inDrive[t], drive)
KeptIsGood == drive.ready => drive.error \in {"none", "credentials"}

DriveTyped ==
    /\ process \in {"web", "worker"} /\ importable \in BOOLEAN /\ keyFile \in BOOLEAN
    /\ drive \in DriveStates
    /\ token \in {"none", "stub", "good"}
    /\ asked \in BOOLEAN /\ failed \in BOOLEAN /\ fileMissed \in BOOLEAN
    /\ told \in [status : DriveStatuses \cup {"none"}, during : SUBSET DriveStatuses]

WorkInv == WorkTyped /\ WorkIsPlaced /\ NobodyAsked /\ LooksSaw
KeepInv == DriveTyped /\ DriveAgrees /\ KeptIsGood /\ OnlyAskingConnects /\ ErrorsStay /\ AnswersWereTrue
DriveInv == WorkInv /\ KeepInv

LEMMA DriveInitInv == DriveInit => DriveInv
<1> SUFFICES ASSUME DriveInit PROVE DriveInv
  OBVIOUS
<1> USE DEF DriveInit, Away, Fresh, Untold
<1>1. WorkTyped /\ WorkIsPlaced /\ NobodyAsked
  BY DEF WorkTyped, WorkIsPlaced, Placed, NobodyAsked, DriveWork, DrivePlaces, DriveStatuses, WebCalls, WorkerCalls
<1>2. LooksSaw
  BY DEF LooksSaw, Saw
<1>3. DriveTyped
  BY DEF DriveTyped, DriveStates, DriveStatuses
<1>4. DriveAgrees /\ KeptIsGood /\ OnlyAskingConnects /\ ErrorsStay /\ AnswersWereTrue
  BY DEF DriveAgrees, KeptIsGood, OnlyAskingConnects, ErrorsStay, AnswersWereTrue, Stubbed
<1> QED
  BY <1>1, <1>2, <1>3, <1>4 DEF DriveInv, WorkInv, KeepInv

LEMMA StatusIsOne == \A d \in DriveStates : StatusOf(d) \in DriveStatuses
  BY DEF StatusOf, DriveStatuses

\* What one thread does with what it has, while Drive stays as it is.
LEMMA OneMoves ==
  ASSUME WorkInv, drive' = drive, asked \in BOOLEAN, asked' \in BOOLEAN, asked => asked',
         NEW t \in Callers, NEW w \in DriveWork, inDrive' = [inDrive EXCEPT ![t] = w],
         Placed(w), Saw(w, drive), ~asked' => w.op \in {"none", "status"}
  PROVE  WorkInv'
<1>1. \A u \in Callers : inDrive'[u] = IF u = t THEN w ELSE inDrive[u]
  BY DEF WorkInv, WorkTyped
<1>2. WorkTyped'
  BY DEF WorkInv, WorkTyped
<1>3. WorkIsPlaced'
  <2>1. ASSUME NEW u \in Callers PROVE Placed(inDrive'[u])
    BY <1>1 DEF WorkInv, WorkIsPlaced
  <2>2. \A u \in Callers : Placed(inDrive[u])'
    BY <2>1 DEF Placed
  <2> QED
    BY <2>2 DEF WorkIsPlaced
<1>4. NobodyAsked'
  BY <1>1 DEF WorkInv, NobodyAsked
<1>5. LooksSaw'
  <2>1. ASSUME NEW u \in Callers PROVE Saw(inDrive'[u], drive')
    BY <1>1 DEF WorkInv, LooksSaw
  <2>2. \A u \in Callers : Saw(inDrive[u], drive)'
    BY <2>1 DEF Saw, StatusOf, Stubbed, ReadsWereSeen
  <2> QED
    BY <2>2 DEF LooksSaw
<1> QED
  BY <1>2, <1>3, <1>4, <1>5 DEF WorkInv

\* What a thread does to Drive is seen by the requests for the status, whose reads it leaves.
LEMMA AllAreShown ==
  ASSUME WorkInv, NEW d \in DriveStates, drive' = d, asked' = asked, asked \in BOOLEAN,
         NEW t \in Callers, NEW w \in DriveWork,
         inDrive' = [u \in Callers |-> IF u = t THEN w ELSE Watched(d)[u]],
         Placed(w), Saw(w, d), ~asked => w.op \in {"none", "status"}
  PROVE  WorkInv'
<1> DEFINE seen(u) == [inDrive[u] EXCEPT !.during = @ \cup {StatusOf(d)}]
<1>0. \A u \in Callers : inDrive[u] \in DriveWork /\ Placed(inDrive[u]) /\ Saw(inDrive[u], drive)
  BY DEF WorkInv, WorkTyped, WorkIsPlaced, LooksSaw
<1>1. \A u \in Callers \ {t} : inDrive'[u] = IF inDrive[u].op = "status" THEN seen(u) ELSE inDrive[u]
  BY DEF Watched
<1>2. inDrive'[t] = w
  OBVIOUS
<1>3. ASSUME NEW u \in Callers
      PROVE  /\ inDrive'[u] \in DriveWork /\ Placed(inDrive'[u]) /\ Saw(inDrive'[u], d)
             /\ ~asked => inDrive'[u].op \in {"none", "status"}
  <2>1. CASE u = t
    BY <1>2, <2>1
  <2>2. CASE u # t /\ inDrive[u].op # "status"
    <3>1. inDrive'[u] = inDrive[u]
      BY <1>1, <2>2
    <3> QED
      BY <1>0, <2>2, <3>1 DEF Saw, WorkInv, NobodyAsked
  <2>3. CASE u # t /\ inDrive[u].op = "status"
    <3>1. PICK v : v = [inDrive[u] EXCEPT !.during = @ \cup {StatusOf(d)}]
      OBVIOUS
    <3>2. inDrive'[u] = v
      BY <1>1, <2>3, <3>1
    <3>3. StatusOf(d) \in DriveStatuses /\ inDrive[u] \in DriveWork
      BY StatusIsOne, <1>0
    <3>4. v \in DriveWork
      BY <3>1, <3>3 DEF DriveWork
    <3>5. /\ v.op = "status" /\ v.at = inDrive[u].at /\ v.available = inDrive[u].available
          /\ v.stubbed = inDrive[u].stubbed /\ v.during = inDrive[u].during \cup {StatusOf(d)}
      BY <2>3, <3>1, <3>3 DEF DriveWork
    <3>6. inDrive[u].at \in Looks
      BY <1>0, <2>3 DEF Placed, Away, WebCalls, WorkerCalls
    <3>7. Placed(v)
      BY <3>5, <3>6 DEF Placed
    <3>8. ReadsWereSeen(inDrive[u])
      BY <1>0, <2>3 DEF Saw
    <3>9. ReadsWereSeen(v)
      BY <3>5, <3>8 DEF ReadsWereSeen
    <3>10. Saw(v, d)
      BY <3>5, <3>9 DEF Saw
    <3> QED
      BY <3>2, <3>4, <3>5, <3>7, <3>10
  <2> QED
    BY <2>1, <2>2, <2>3
<1>4. WorkTyped'
  BY <1>3 DEF WorkTyped
<1>5. WorkIsPlaced'
  BY <1>3 DEF WorkIsPlaced, Placed
<1>6. NobodyAsked'
  BY <1>3 DEF NobodyAsked
<1>7. LooksSaw'
  BY <1>3 DEF LooksSaw, Saw, StatusOf, Stubbed, ReadsWereSeen
<1> QED
  BY <1>4, <1>5, <1>6, <1>7 DEF WorkInv

\* A thread goes on with what it has, or is done.
LEMMA ThreadGoesOn ==
  ASSUME WorkInv, asked \in BOOLEAN, NEW t \in Callers, NEW at \in BegunStages \cup Looks,
         inDrive[t].op \in WebCalls \cup WorkerCalls => at \in BegunStages,
         inDrive[t].op = "status" => at \in Looks \ {"stubbed", "error"},
         inDrive[t] # Away
  PROVE  LET w == [inDrive[t] EXCEPT !.at = at]
         IN w \in DriveWork /\ Placed(w) /\ Saw(w, drive) /\ (~asked => w.op \in {"none", "status"})
<1>1. PICK w : w = [inDrive[t] EXCEPT !.at = at]
  OBVIOUS
<1>2. inDrive[t] \in DriveWork /\ at \in DrivePlaces /\ Placed(inDrive[t]) /\ Saw(inDrive[t], drive)
  BY DEF WorkInv, WorkTyped, WorkIsPlaced, LooksSaw, BegunStages, Looks, DrivePlaces
<1>3. w \in DriveWork
  BY <1>1, <1>2 DEF DriveWork
<1>4. w.at = at /\ w.op = inDrive[t].op /\ w.during = inDrive[t].during
  BY <1>1, <1>2 DEF DriveWork
<1>5. Placed(w)
  BY <1>2, <1>4 DEF Placed, Looks
<1>6. Saw(w, drive)
  BY <1>2, <1>4 DEF Saw, ReadsWereSeen, Looks
<1>7. ~asked => w.op \in {"none", "status"}
  BY <1>4 DEF WorkInv, NobodyAsked
<1> QED
  BY <1>1, <1>3, <1>5, <1>6, <1>7

LEMMA BegunIsNoLook ==
  ASSUME NEW w, Placed(w), w.at \in {"get", "check", "build", "keep", "use"}
  PROVE  w # Away /\ w.op # "status"
<1>1. w # Away
  BY DEF Away
<1>2. w.at \notin Looks
  BY DEF Looks
<1>3. \A op \in WebCalls \cup WorkerCalls : op # "status"
  BY DEF WebCalls, WorkerCalls
<1> QED
  BY <1>1, <1>2, <1>3 DEF Placed

LEMMA AwayIsFine == Away \in DriveWork /\ Placed(Away) /\ Away.op = "none" /\ \A d : Saw(Away, d)
  BY DEF Away, DriveWork, Placed, Saw, DrivePlaces, DriveStatuses

\* Steps that leave what is kept of Drive alone.
LEMMA ThreadSteps ==
  ASSUME DriveInv, NEW t \in Callers,
         \/ Call(t) \/ AskStatus(t) \/ (\E full \in BOOLEAN : Hydrate(t, full)) \/ Get(t) \/ Find(t)
         \/ Check(t) \/ Build(t) \/ Use(t) \/ ReadAvailable(t) \/ ReadStubbed(t) \/ Answer(t)
  PROVE  WorkInv'
<1>1. WorkInv /\ DriveTyped /\ DriveAgrees /\ drive \in DriveStates /\ asked \in BOOLEAN
  BY DEF DriveInv, KeepInv, DriveTyped
<1>2. drive' = drive /\ asked' \in BOOLEAN /\ (asked => asked')
  BY <1>1 DEF Call, AskStatus, Hydrate, Get, Find, Check, Build, Use, ReadAvailable, ReadStubbed, Answer
<1>3. inDrive[t] \in DriveWork /\ Placed(inDrive[t]) /\ Saw(inDrive[t], drive)
  BY <1>1 DEF WorkInv, WorkTyped, WorkIsPlaced, LooksSaw
<1>4. ASSUME inDrive' = [inDrive EXCEPT ![t] = Away] PROVE WorkInv'
  BY <1>1, <1>2, <1>4, AwayIsFine, OneMoves
<1>5. ASSUME NEW at \in BegunStages \cup Looks, Goes(t, at), asked' = asked, inDrive[t] # Away,
             inDrive[t].op \in WebCalls \cup WorkerCalls => at \in BegunStages,
             inDrive[t].op = "status" => at \in Looks \ {"stubbed", "error"}
      PROVE  WorkInv'
  <2>1. PICK w : w = [inDrive[t] EXCEPT !.at = at]
    OBVIOUS
  <2>2. w \in DriveWork /\ Placed(w) /\ Saw(w, drive) /\ (~asked => w.op \in {"none", "status"})
    BY <1>1, <1>5, <2>1, ThreadGoesOn
  <2>3. inDrive' = [inDrive EXCEPT ![t] = w]
    BY <1>5, <2>1 DEF Goes
  <2> QED
    BY <1>1, <1>2, <1>5, <2>2, <2>3, OneMoves
<1>6. ASSUME Call(t) PROVE WorkInv'
  <2>1. PICK op \in WebCalls \cup {"public"} :
            inDrive' = [inDrive EXCEPT ![t] = [Away EXCEPT !.at = "get", !.op = op]]
    BY <1>6 DEF Call
  <2>2. PICK w : w = [Away EXCEPT !.at = "get", !.op = op]
    OBVIOUS
  <2>3. w \in DriveWork /\ w.op = op /\ w.at = "get"
    BY <2>2 DEF Away, DriveWork, DrivePlaces, WebCalls, WorkerCalls
  <2>4. Placed(w) /\ Saw(w, drive)
    BY <2>3 DEF Placed, Saw, BegunStages, WebCalls, WorkerCalls
  <2>5. asked'
    BY <1>6 DEF Call
  <2> QED
    BY <1>1, <1>2, <2>1, <2>2, <2>3, <2>4, <2>5, OneMoves
<1>7. ASSUME NEW full \in BOOLEAN, Hydrate(t, full) PROVE WorkInv'
  <2>1. CASE Stubbed(drive)
    <3>1. UNCHANGED <<inDrive, drive, asked>>
      BY <1>7, <2>1 DEF Hydrate
    <3> QED
      BY <1>1, <3>1 DEF WorkInv, WorkTyped, WorkIsPlaced, Placed, NobodyAsked, LooksSaw, Saw, StatusOf, Stubbed,
                        ReadsWereSeen
  <2>2. CASE ~Stubbed(drive)
    <3>1. PICK op \in {"rescan", "hydrate"} :
              inDrive' = [inDrive EXCEPT ![t] = [Away EXCEPT !.at = "get", !.op = op]]
      BY <1>7, <2>2 DEF Hydrate
    <3>2. PICK w : w = [Away EXCEPT !.at = "get", !.op = op]
      OBVIOUS
    <3>3. w \in DriveWork /\ w.op = op /\ w.at = "get"
      BY <3>2 DEF Away, DriveWork, DrivePlaces, WebCalls, WorkerCalls
    <3>4. Placed(w) /\ Saw(w, drive)
      BY <3>3 DEF Placed, Saw, BegunStages, WebCalls, WorkerCalls
    <3>5. asked /\ asked'
      BY <1>2, <2>2 DEF DriveInv, KeepInv, OnlyAskingConnects, Stubbed
    <3> QED
      BY <1>1, <1>2, <3>1, <3>2, <3>3, <3>4, <3>5, OneMoves
  <2> QED
    BY <2>1, <2>2
<1>8. ASSUME AskStatus(t) PROVE WorkInv'
  <2>1. PICK w : w = [Away EXCEPT !.at = "find", !.op = "status", !.during = {StatusOf(drive)}]
    OBVIOUS
  <2>2. inDrive' = [inDrive EXCEPT ![t] = w] /\ asked' = asked
    BY <1>8, <2>1 DEF AskStatus
  <2>3. StatusOf(drive) \in DriveStatuses
    BY <1>1, StatusIsOne
  <2>4. w \in DriveWork /\ w.op = "status" /\ w.at = "find" /\ w.during = {StatusOf(drive)}
    BY <2>1, <2>3 DEF Away, DriveWork, DrivePlaces, WebCalls, WorkerCalls
  <2>5. Placed(w) /\ Saw(w, drive)
    BY <2>4 DEF Placed, Saw, ReadsWereSeen, Looks
  <2> QED
    BY <1>1, <1>2, <2>2, <2>4, <2>5, OneMoves
<1>9. ASSUME Get(t) PROVE WorkInv'
  <2>1. inDrive[t].at = "get" /\ asked' = asked
    BY <1>9 DEF Get
  <2>2. inDrive[t] # Away /\ inDrive[t].op # "status"
    BY <1>3, <2>1, BegunIsNoLook
  <2>3. \E at \in {"use", "find", "fail"} : Goes(t, at)
    BY <1>9 DEF Get
  <2>4. PICK at \in {"use", "find", "fail"} : Goes(t, at)
    BY <2>3
  <2> QED
    BY <1>5, <2>1, <2>2, <2>4 DEF BegunStages, Looks
<1>10. ASSUME Find(t) PROVE WorkInv'
  <2>1. inDrive[t].at = "find" /\ asked' = asked /\ keyFile \in BOOLEAN
    BY <1>1, <1>10 DEF Find, DriveTyped
  <2>2. PICK w : w = [inDrive[t] EXCEPT !.at = "note", !.seen = keyFile]
    OBVIOUS
  <2>3. inDrive' = [inDrive EXCEPT ![t] = w]
    BY <1>10, <2>2 DEF Find
  <2>4. /\ w \in DriveWork /\ w.at = "note" /\ w.op = inDrive[t].op /\ w.during = inDrive[t].during
    BY <1>3, <2>1, <2>2 DEF DriveWork, DrivePlaces
  <2>5. inDrive[t] # Away
    BY <2>1 DEF Away
  <2>6. Placed(w)
    BY <1>3, <2>4, <2>5 DEF Placed, Looks, BegunStages
  <2>7. Saw(w, drive)
    BY <1>3, <2>4 DEF Saw, ReadsWereSeen
  <2>8. ~asked => w.op \in {"none", "status"}
    BY <1>1, <2>4 DEF WorkInv, NobodyAsked
  <2> QED
    BY <1>1, <1>2, <2>1, <2>3, <2>4, <2>6, <2>7, <2>8, OneMoves
<1>11. ASSUME Check(t) PROVE WorkInv'
  <2>1. inDrive[t].at = "check" /\ asked' = asked /\ (Goes(t, "build") \/ Leaves(t))
    BY <1>11 DEF Check
  <2>2. inDrive[t] # Away /\ inDrive[t].op # "status"
    BY <1>3, <2>1, BegunIsNoLook
  <2> QED
    BY <1>4, <1>5, <2>1, <2>2 DEF BegunStages, Looks, Leaves
<1>12. ASSUME Build(t) PROVE WorkInv'
  <2>1. inDrive[t].at = "build" /\ asked' = asked /\ (Goes(t, "fail") \/ Goes(t, "keep"))
    BY <1>12 DEF Build
  <2>2. inDrive[t] # Away /\ inDrive[t].op # "status"
    BY <1>3, <2>1, BegunIsNoLook
  <2> QED
    BY <1>5, <2>1, <2>2 DEF BegunStages, Looks
<1>13. ASSUME Use(t) PROVE WorkInv'
  <2>1. inDrive[t].at = "use" /\ asked' = asked /\ (Goes(t, "fail") \/ Leaves(t))
    BY <1>13 DEF Use
  <2>2. inDrive[t] # Away /\ inDrive[t].op # "status"
    BY <1>3, <2>1, BegunIsNoLook
  <2> QED
    BY <1>4, <1>5, <2>1, <2>2 DEF BegunStages, Looks, Leaves
<1>14. ASSUME ReadAvailable(t) PROVE WorkInv'
  <2>1. inDrive[t].at = "available" /\ asked' = asked /\ drive.available \in BOOLEAN
    BY <1>1, <1>14 DEF ReadAvailable, DriveStates
  <2>2. PICK w : w = [inDrive[t] EXCEPT !.at = "stubbed", !.available = drive.available]
    OBVIOUS
  <2>3. inDrive' = [inDrive EXCEPT ![t] = w]
    BY <1>14, <2>2 DEF ReadAvailable
  <2>4. /\ w \in DriveWork /\ w.at = "stubbed" /\ w.op = inDrive[t].op /\ w.during = inDrive[t].during
        /\ w.available = drive.available
    BY <1>3, <2>1, <2>2 DEF DriveWork, DrivePlaces
  <2>5. inDrive[t].op = "status"
    BY <1>3, <2>1 DEF Placed, BegunStages, Away
  <2>6. ~drive.available => StatusOf(drive) \in {"stubbed", "error"}
    BY DEF StatusOf, Stubbed
  <2>7. Placed(w) /\ Saw(w, drive)
    BY <1>3, <2>4, <2>5, <2>6 DEF Placed, Saw, ReadsWereSeen, Looks
  <2> QED
    BY <1>1, <1>2, <2>1, <2>3, <2>4, <2>5, <2>7, OneMoves
<1>15. ASSUME ReadStubbed(t) PROVE WorkInv'
  <2>1. inDrive[t].at = "stubbed" /\ asked' = asked /\ Stubbed(drive) \in BOOLEAN
    BY <1>1, <1>15 DEF ReadStubbed, DriveStates, Stubbed
  <2>2. PICK w : w = [inDrive[t] EXCEPT !.at = "error", !.stubbed = Stubbed(drive)]
    OBVIOUS
  <2>3. inDrive' = [inDrive EXCEPT ![t] = w]
    BY <1>15, <2>2 DEF ReadStubbed
  <2>4. /\ w \in DriveWork /\ w.at = "error" /\ w.op = inDrive[t].op /\ w.during = inDrive[t].during
        /\ w.available = inDrive[t].available /\ w.stubbed = Stubbed(drive)
    BY <1>3, <2>1, <2>2 DEF DriveWork, DrivePlaces
  <2>5. inDrive[t].op = "status"
    BY <1>3, <2>1 DEF Placed, BegunStages, Away
  <2>6. IF Stubbed(drive) THEN StatusOf(drive) \in {"stubbed", "error"} ELSE StatusOf(drive) = "connected"
    BY <1>1 DEF StatusOf, DriveAgrees
  <2>7. Placed(w)
    BY <2>4, <2>5 DEF Placed, Looks
  <2>8. StatusOf(drive) \in inDrive[t].during /\ ReadsWereSeen(inDrive[t])
    BY <1>3, <2>5 DEF Saw
  <2>9. ReadsWereSeen(w)
    BY <2>1, <2>4, <2>6, <2>8 DEF ReadsWereSeen
  <2>10. Saw(w, drive)
    BY <2>4, <2>8, <2>9 DEF Saw
  <2> QED
    BY <1>1, <1>2, <2>1, <2>3, <2>4, <2>5, <2>7, <2>10, OneMoves
<1>16. ASSUME Answer(t) PROVE WorkInv'
  BY <1>4, <1>16 DEF Answer, Leaves
<1> QED
  BY <1>6, <1>7, <1>8, <1>9, <1>10, <1>11, <1>12, <1>13, <1>14, <1>15, <1>16

\* Steps that change what is kept of Drive.
LEMMA KeptStates ==
  /\ \A d \in DriveStates, seen \in BOOLEAN : Noted(d, seen) \in DriveStates
  /\ \A d \in DriveStates : Kept(d) \in DriveStates
  /\ \A d \in DriveStates : [d EXCEPT !.ready = FALSE, !.error = "service"] \in DriveStates
<1>1. ASSUME NEW d \in DriveStates, NEW seen \in BOOLEAN PROVE Noted(d, seen) \in DriveStates
  BY DEF DriveStates, Noted
<1>2. ASSUME NEW d \in DriveStates PROVE Kept(d) \in DriveStates
  BY DEF DriveStates, Kept
<1>3. ASSUME NEW d \in DriveStates PROVE [d EXCEPT !.ready = FALSE, !.error = "service"] \in DriveStates
  BY DEF DriveStates
<1> QED
  BY <1>1, <1>2, <1>3

\* The thread that changes Drive is seen with the others.
LEMMA ChangerGoesOn ==
  ASSUME WorkInv, asked \in BOOLEAN, NEW t \in Callers, NEW d \in DriveStates, NEW at \in BegunStages \cup Looks,
         inDrive[t] # Away, asked' = asked, drive' = d,
         inDrive[t].op \in WebCalls \cup WorkerCalls => at \in BegunStages,
         inDrive[t].op = "status" => at \in Looks \ {"stubbed", "error"},
         inDrive' = [Watched(d) EXCEPT ![t].at = at]
  PROVE  WorkInv'
<1>1. inDrive[t] \in DriveWork /\ at \in DrivePlaces /\ Placed(inDrive[t]) /\ StatusOf(d) \in DriveStatuses
  BY StatusIsOne DEF WorkInv, WorkTyped, WorkIsPlaced, BegunStages, Looks, DrivePlaces
<1>2. PICK v : v = Watched(d)[t]
  OBVIOUS
<1>3. /\ v \in DriveWork /\ v.op = inDrive[t].op
      /\ v.op = "status" => StatusOf(d) \in v.during
  <2>1. v = IF inDrive[t].op = "status" THEN [inDrive[t] EXCEPT !.during = @ \cup {StatusOf(d)}] ELSE inDrive[t]
    BY <1>2 DEF Watched
  <2> QED
    BY <1>1, <2>1 DEF DriveWork
<1>4. PICK w : w = [v EXCEPT !.at = at]
  OBVIOUS
<1>5. w \in DriveWork /\ w.at = at /\ w.op = v.op /\ w.during = v.during
  BY <1>1, <1>3, <1>4 DEF DriveWork
<1>6. inDrive' = [u \in Callers |-> IF u = t THEN w ELSE Watched(d)[u]]
  BY <1>2, <1>4 DEF Watched
<1>7. Placed(w) /\ Saw(w, d)
  BY <1>1, <1>3, <1>5 DEF Placed, Saw, ReadsWereSeen, Looks
<1>8. ~asked => w.op \in {"none", "status"}
  BY <1>3, <1>5 DEF WorkInv, NobodyAsked
<1> QED
  BY <1>5, <1>6, <1>7, <1>8, AllAreShown

LEMMA ChangeSteps ==
  ASSUME DriveInv, NEW t \in Callers, Note(t) \/ Keep(t) \/ RecordError(t)
  PROVE  WorkInv'
<1>1. WorkInv /\ drive \in DriveStates /\ asked \in BOOLEAN /\ asked' = asked
  BY DEF DriveInv, KeepInv, DriveTyped, Note, Keep, RecordError
<1>2. inDrive[t] \in DriveWork /\ Placed(inDrive[t])
  BY <1>1 DEF WorkInv, WorkTyped, WorkIsPlaced
<1>3. ASSUME Note(t) PROVE WorkInv'
  <2>1. inDrive[t].at = "note" /\ inDrive[t].seen \in BOOLEAN
    BY <1>2, <1>3 DEF Note, DriveWork
  <2>2. PICK d \in DriveStates : drive' = d
    BY <1>1, <1>3, <2>1, KeptStates DEF Note
  <2>3. PICK at : at = IF inDrive[t].op = "status" THEN "available" ELSE "check"
    OBVIOUS
  <2>4. inDrive' = [Watched(d) EXCEPT ![t].at = at]
    BY <1>3, <2>2, <2>3 DEF Note
  <2>5. inDrive[t] # Away
    BY <2>1 DEF Away
  <2> QED
    BY <1>1, <2>2, <2>3, <2>4, <2>5, ChangerGoesOn DEF BegunStages, Looks, WebCalls, WorkerCalls
<1>4. ASSUME Keep(t) PROVE WorkInv'
  <2>1. inDrive[t].at = "keep"
    BY <1>4 DEF Keep
  <2>2. PICK d \in DriveStates : drive' = d
    BY <1>1, <1>4, KeptStates DEF Keep
  <2>3. inDrive' = [Watched(d) EXCEPT ![t].at = "use"]
    BY <1>4, <2>2 DEF Keep
  <2>4. inDrive[t] # Away /\ inDrive[t].op # "status"
    BY <1>2, <2>1, BegunIsNoLook
  <2> QED
    BY <1>1, <2>2, <2>3, <2>4, ChangerGoesOn DEF BegunStages
<1>5. ASSUME RecordError(t) PROVE WorkInv'
  <2>1. PICK d \in DriveStates : drive' = d
    BY <1>1, <1>5, KeptStates DEF RecordError
  <2>2. inDrive' = [u \in Callers |-> IF u = t THEN Away ELSE Watched(d)[u]]
    BY <1>5, <2>1 DEF RecordError, Watched
  <2> QED
    BY <1>1, <2>1, <2>2, AwayIsFine, AllAreShown
<1> QED
  BY <1>3, <1>4, <1>5

\* What is kept of Drive, whatever the threads do.
LEMMA KeepStep == DriveInv /\ [DriveNext]_driveVars => KeepInv'
<1> SUFFICES ASSUME DriveInv, [DriveNext]_driveVars PROVE KeepInv'
  OBVIOUS
<1>1. /\ WorkTyped /\ WorkIsPlaced /\ NobodyAsked /\ LooksSaw /\ DriveTyped /\ DriveAgrees
      /\ KeptIsGood /\ OnlyAskingConnects /\ ErrorsStay /\ AnswersWereTrue
  BY DEF DriveInv, WorkInv, KeepInv
<1>2. \A t \in Callers : inDrive[t] \in DriveWork /\ Placed(inDrive[t]) /\ Saw(inDrive[t], drive)
  BY <1>1 DEF WorkTyped, WorkIsPlaced, LooksSaw
<1> USE DEF KeepInv
<1>3. ASSUME UNCHANGED <<drive, asked, failed, fileMissed, told>>,
             process' = process, importable' = importable, keyFile' \in BOOLEAN,
             token' \in {"none", "stub", "good"}, ~asked => token' # "good"
      PROVE  KeepInv'
  <2>1. DriveTyped'
    BY <1>1, <1>3 DEF DriveTyped
  <2> QED
    BY <1>1, <1>3, <2>1 DEF DriveAgrees, Stubbed, KeptIsGood, OnlyAskingConnects, ErrorsStay, AnswersWereTrue
<1>4. CASE UNCHANGED driveVars
  BY <1>1, <1>3, <1>4 DEF driveVars, DriveTyped, OnlyAskingConnects
<1>5. CASE FileChanges
  BY <1>1, <1>3, <1>5 DEF FileChanges, DriveTyped, OnlyAskingConnects
<1>6. ASSUME NEW t \in Callers, Call(t) PROVE KeepInv'
  <2>1. DriveTyped'
    BY <1>1, <1>6 DEF Call, DriveTyped
  <2> QED
    BY <1>1, <1>6, <2>1 DEF Call, DriveAgrees, Stubbed, KeptIsGood, OnlyAskingConnects, ErrorsStay, AnswersWereTrue
<1>7. ASSUME NEW t \in Callers, NEW full \in BOOLEAN, Hydrate(t, full) PROVE KeepInv'
  BY <1>1, <1>3, <1>7 DEF Hydrate, DriveTyped, OnlyAskingConnects
<1>8. ASSUME NEW t \in Callers,
             \/ AskStatus(t) \/ Get(t) \/ Find(t) \/ Check(t) \/ Build(t) \/ ReadAvailable(t) \/ ReadStubbed(t)
      PROVE  KeepInv'
  BY <1>1, <1>3, <1>8 DEF AskStatus, Get, Find, Check, Build, ReadAvailable, ReadStubbed, DriveTyped, OnlyAskingConnects
<1>9. ASSUME NEW t \in Callers, Note(t) PROVE KeepInv'
  <2>1. /\ inDrive[t].seen \in BOOLEAN /\ drive \in DriveStates /\ drive' = Noted(drive, inDrive[t].seen)
        /\ fileMissed' = (fileMissed \/ ~inDrive[t].seen)
        /\ UNCHANGED <<process, importable, keyFile, token, asked, failed, told>>
    BY <1>1, <1>2, <1>9 DEF Note, DriveWork, DriveTyped
  <2>2. DriveTyped'
    BY <1>1, <2>1, KeptStates DEF DriveTyped
  <2>3. CASE inDrive[t].seen
    <3>1. /\ drive'.ready = drive.ready /\ drive'.available
          /\ drive'.error = IF drive.error = "credentials" THEN "none" ELSE drive.error
      BY <2>1, <2>3 DEF Noted, DriveStates
    <3>2. fileMissed' = fileMissed
      BY <1>1, <2>1, <2>3 DEF DriveTyped
    <3> QED
      BY <1>1, <2>1, <2>2, <3>1, <3>2
      DEF DriveAgrees, Stubbed, KeptIsGood, OnlyAskingConnects, ErrorsStay, AnswersWereTrue
  <2>4. CASE ~inDrive[t].seen
    <3>1. ~drive'.ready /\ ~drive'.available /\ fileMissed'
      BY <2>1, <2>4 DEF Noted
    <3> QED
      BY <1>1, <2>1, <2>2, <3>1
      DEF DriveAgrees, Stubbed, KeptIsGood, OnlyAskingConnects, ErrorsStay, AnswersWereTrue
  <2> QED
    BY <2>1, <2>3, <2>4
<1>10. ASSUME NEW t \in Callers, Keep(t) PROVE KeepInv'
  <2>1. /\ inDrive[t].at = "keep" /\ drive \in DriveStates /\ drive' = Kept(drive) /\ failed' = FALSE
        /\ fileMissed' = FALSE /\ UNCHANGED <<process, importable, keyFile, token, asked, told>>
    BY <1>1, <1>10 DEF Keep, DriveTyped
  <2>2. DriveTyped'
    BY <1>1, <2>1, KeptStates DEF DriveTyped
  <2>3. /\ drive'.ready /\ drive'.available = drive.available
        /\ drive'.error = IF drive.error = "credentials" THEN "credentials" ELSE "none"
    BY <2>1 DEF Kept, DriveStates
  <2>4. asked
    <3>1. inDrive[t].op # "status" /\ inDrive[t] # Away
      BY <1>2, <2>1, BegunIsNoLook
    <3>2. inDrive[t].op \in WebCalls \cup WorkerCalls
      BY <1>2, <3>1 DEF Placed
    <3> QED
      BY <1>1, <3>2 DEF NobodyAsked, WebCalls, WorkerCalls
  <2> QED
    BY <1>1, <2>1, <2>2, <2>3, <2>4
    DEF DriveAgrees, Stubbed, KeptIsGood, OnlyAskingConnects, ErrorsStay, AnswersWereTrue
<1>11. ASSUME NEW t \in Callers, Use(t) PROVE KeepInv'
  <2>1. inDrive[t].at = "use" /\ token' \in {"none", "stub", "good"} /\ keyFile' \in BOOLEAN
        /\ UNCHANGED <<drive, asked, failed, fileMissed, told, process, importable>>
    BY <1>1, <1>11 DEF Use, DriveTyped
  <2>2. asked
    <3>1. inDrive[t].op # "status" /\ inDrive[t] # Away
      BY <1>2, <2>1, BegunIsNoLook
    <3>2. inDrive[t].op \in WebCalls \cup WorkerCalls
      BY <1>2, <3>1 DEF Placed
    <3> QED
      BY <1>1, <3>2 DEF NobodyAsked, WebCalls, WorkerCalls
  <2> QED
    BY <1>3, <2>1, <2>2
<1>12. ASSUME NEW t \in Callers, RecordError(t) PROVE KeepInv'
  <2>1. /\ drive \in DriveStates /\ drive' = [drive EXCEPT !.ready = FALSE, !.error = "service"]
        /\ failed' = TRUE /\ fileMissed' = FALSE /\ UNCHANGED <<process, importable, keyFile, token, asked, told>>
    BY <1>1, <1>12 DEF RecordError, DriveTyped
  <2>2. DriveTyped'
    BY <1>1, <2>1, KeptStates DEF DriveTyped
  <2>3. ~drive'.ready /\ drive'.error = "service"
    BY <2>1 DEF DriveStates
  <2> QED
    BY <1>1, <2>1, <2>2, <2>3
    DEF DriveAgrees, Stubbed, KeptIsGood, OnlyAskingConnects, ErrorsStay, AnswersWereTrue
<1>13. ASSUME NEW t \in Callers, Answer(t) PROVE KeepInv'
  <2>1. /\ inDrive[t].at = "error" /\ drive \in DriveStates
        /\ UNCHANGED <<process, importable, keyFile, drive, token, asked, failed, fileMissed>>
    BY <1>1, <1>13 DEF Answer, DriveTyped
  <2>2. PICK s : s = IF drive.error # "none" THEN "error"
                     ELSE IF inDrive[t].stubbed \/ ~inDrive[t].available THEN "stubbed" ELSE "connected"
    OBVIOUS
  <2>3. told' = [status |-> s, during |-> inDrive[t].during]
    BY <1>13, <2>2 DEF Answer
  <2>4. inDrive[t] \in DriveWork /\ inDrive[t].op = "status"
    BY <1>2, <2>1 DEF Placed, Away, BegunStages
  <2>5. StatusOf(drive) \in inDrive[t].during /\ ReadsWereSeen(inDrive[t])
    BY <1>2, <2>4 DEF Saw
  <2>6. DriveTyped'
    BY <1>1, <2>1, <2>2, <2>3, <2>4 DEF DriveTyped, DriveWork, DriveStatuses
  <2>7. s \in inDrive[t].during \/ (s = "stubbed" /\ {"error", "connected"} \subseteq inDrive[t].during)
    <3>1. CASE drive.error # "none"
      BY <2>2, <2>5, <3>1 DEF StatusOf
    <3>2. CASE drive.error = "none" /\ (inDrive[t].stubbed \/ ~inDrive[t].available)
      <4>1. s = "stubbed" /\ inDrive[t].during \cap {"stubbed", "error"} # {}
        BY <2>1, <2>2, <2>5, <3>2 DEF ReadsWereSeen
      <4>2. StatusOf(drive) \in {"stubbed", "connected"}
        BY <3>2 DEF StatusOf
      <4> QED
        BY <2>5, <4>1, <4>2
    <3>3. CASE drive.error = "none" /\ ~inDrive[t].stubbed /\ inDrive[t].available
      BY <2>1, <2>2, <2>5, <3>3 DEF ReadsWereSeen
    <3> QED
      BY <3>1, <3>2, <3>3
  <2>8. AnswersWereTrue'
    BY <2>3, <2>7 DEF AnswersWereTrue
  <2> QED
    BY <1>1, <2>1, <2>6, <2>8 DEF DriveAgrees, Stubbed, KeptIsGood, OnlyAskingConnects, ErrorsStay
<1> QED
  BY <1>4, <1>5, <1>6, <1>7, <1>8, <1>9, <1>10, <1>11, <1>12, <1>13 DEF DriveNext

LEMMA DriveStep == DriveInv /\ [DriveNext]_driveVars => DriveInv'
<1> SUFFICES ASSUME DriveInv, [DriveNext]_driveVars PROVE WorkInv'
  BY KeepStep DEF DriveInv
<1>1. ASSUME UNCHANGED <<inDrive, drive, asked>> PROVE WorkInv'
  BY <1>1 DEF DriveInv, WorkInv, WorkTyped, WorkIsPlaced, Placed, NobodyAsked, LooksSaw, Saw, StatusOf, Stubbed,
              ReadsWereSeen
<1>2. CASE UNCHANGED driveVars
  BY <1>1, <1>2 DEF driveVars
<1>3. CASE FileChanges
  BY <1>1, <1>3 DEF FileChanges
<1>4. ASSUME NEW t \in Callers,
             \/ Call(t) \/ AskStatus(t) \/ (\E full \in BOOLEAN : Hydrate(t, full)) \/ Get(t) \/ Find(t)
             \/ Check(t) \/ Build(t) \/ Use(t) \/ ReadAvailable(t) \/ ReadStubbed(t) \/ Answer(t)
      PROVE  WorkInv'
  BY <1>4, ThreadSteps
<1>5. ASSUME NEW t \in Callers, Note(t) \/ Keep(t) \/ RecordError(t) PROVE WorkInv'
  BY <1>5, ChangeSteps
<1> QED
  BY <1>2, <1>3, <1>4, <1>5 DEF DriveNext

LEMMA DriveAlways == DriveSpec => []DriveInv
  BY DriveInitInv, DriveStep, PTL DEF DriveSpec

\* What a process keeps of Drive, its threads and the token of a source have their types.
THEOREM DriveTypes == DriveSpec => []DriveTypeOK
<1>1. DriveInv => DriveTypeOK
  BY DEF DriveInv, WorkInv, WorkTyped, KeepInv, DriveTyped, DriveTypeOK
<1> QED
  BY <1>1, DriveAlways, PTL

\* google_drive.py under its lock and connectors/list outside of it, with any number of
\* threads: state and error agree, errors stay until they are overcome, a worker that was
\* asked for nothing but Drive sources never connects, and what a caller is told of Drive
\* was true while it asked, but for "stubbed" in the middle of a recovery.
THEOREM DriveAlwaysHolds == DriveSpec => []DriveHolds
<1>1. DriveInv => DriveHolds
  BY DEF DriveInv, KeepInv, DriveHolds
<1> QED
  BY <1>1, DriveAlways, PTL
-----------------------------------------------------------------------------
(* ReportFiles: a name that was opened once has one writer, and templates  *)
(* that a request finds settled stay as they are                           *)

AtFile(p) == making[p].at \in {"write", "print"}
Fits(text, a) == text = a.about \/ (text = NoText /\ a.early)
KeyOf(r) == <<r.type, r.ext, r.second>>

MakingTyped == making \in [Makers -> ReportRequests \cup Deletions \cup {NotMaking}]
FilesTyped ==
    /\ DOMAIN reports \subseteq Keys
    /\ \A n \in DOMAIN reports : reports[n] \in [text : ReportTexts, open : SUBSET Makers]
CountsTyped ==
    /\ tools \in [templates : BOOLEAN, pdf : BOOLEAN, sheets : BOOLEAN]
    /\ template \in [Templates -> {"missing", "open", "whole"}]
    /\ clock \in ReportSeconds /\ requested \in 0 .. MaxReports /\ kills \in 0 .. MaxKills
    /\ opened \subseteq Keys /\ crowded \subseteq opened /\ removed \subseteq Keys

\* The templates are whole, and nobody writes them: it stays so.
WholeForGood ==
    /\ template[0] = "whole"
    /\ \A k \in Templates : template[k] # "open"
    /\ \A q \in Makers : ~WritesTemplates(q)

OnlyWriter(p) ==
    /\ \A q \in Makers \ {p} : ~WritesTemplates(q)
    /\ \A k \in Templates :
          /\ k < making[p].next => template[k] = "whole"
          /\ template[k] = "open" => k = making[p].next /\ making[p].at = "fill"

WritersHaveTools == \A p \in Makers : WritesTemplates(p) => tools.templates
TemplatesReady ==
    \A p \in Makers :
        making[p].at \in {"template", "fill", "render"} /\ ~making[p].early /\ tools.templates =>
            IF making[p].at = "render" THEN WholeForGood ELSE OnlyWriter(p)

\* A file is there from its opening to its removal, and one that is there again was opened twice.
FilesWereOpened ==
    /\ DOMAIN reports \subseteq opened /\ removed \subseteq opened
    /\ opened \ removed \subseteq DOMAIN reports
    /\ removed \cap DOMAIN reports \subseteq crowded
UsersOpened ==
    /\ \A p \in Makers : AtFile(p) => KeyOf(making[p]) \in opened
    /\ \A a \in promised : a.key \in opened /\ a.name = a.key

\* Two that work on a file, at once or one after the other's answer, have crowded it.
OneUser ==
    \A p, q \in Makers :
        p # q /\ AtFile(p) /\ AtFile(q) /\ KeyOf(making[p]) = KeyOf(making[q]) => KeyOf(making[p]) \in crowded
NoLateWriter ==
    \A a \in promised, p \in Makers : AtFile(p) /\ KeyOf(making[p]) = a.key => a.key \in crowded

WriterHolds ==
    \A p \in Makers : making[p].at = "write" =>
        \/ KeyOf(making[p]) \in crowded \cup removed
        \/ KeyOf(making[p]) \in DOMAIN reports /\ p \in reports[KeyOf(making[p])].open
PrintedIsThere ==
    \A p \in Makers : making[p].at = "print" =>
        \/ KeyOf(making[p]) \in crowded \cup removed
        \/ KeyOf(making[p]) \in DOMAIN reports /\ reports[KeyOf(making[p])].text = making[p].text
TextsFit ==
    \A p \in Makers : making[p].at \in {"open", "write", "print"} =>
        making[p].source \in crowded \/ Fits(making[p].text, making[p])
PromisesHold ==
    \A a \in promised :
        \/ a.name \in removed \/ a.key \in crowded \/ a.source \in crowded
        \/ a.name \in DOMAIN reports /\ Fits(reports[a.name].text, a)

\* What a request says before it has come to a file; a PDF is printed after its HTML file.
Prepared(r) ==
    /\ r.at \in {"template", "fill", "render"} => r.text = r.about
    /\ r.at # "idle" /\ r.at # "unlink" /\ r.ext = "html" => r.source = <<>>
    /\ r.at = "print" => r.ext = "html"
AllPrepared == \A p \in Makers : Prepared(making[p])

ReportTyped == MakingTyped /\ FilesTyped /\ CountsTyped
TemplatesInv == WritersHaveTools /\ TemplatesReady
FilesInv ==
    /\ FilesWereOpened /\ UsersOpened /\ OneUser /\ NoLateWriter
    /\ WriterHolds /\ PrintedIsThere /\ TextsFit /\ PromisesHold
ReportInv == ReportTyped /\ AllPrepared /\ TemplatesInv /\ FilesInv

LEMMA ReportInitInv == ReportInit => ReportInv
<1> SUFFICES ASSUME ReportInit PROVE ReportInv
  OBVIOUS
<1> USE DEF ReportInit, NotMaking
<1>1. MakingTyped
  BY DEF MakingTyped
<1>2. FilesTyped
  BY DEF FilesTyped
<1>3. CountsTyped
  BY ReportAssumption DEF CountsTyped, Templates, ReportSeconds, Keys
<1>4. TemplatesInv
  BY DEF TemplatesInv, WritersHaveTools, TemplatesReady, WritesTemplates
<1>5. FilesInv
  BY DEF FilesInv, FilesWereOpened, UsersOpened, OneUser, NoLateWriter, WriterHolds, PrintedIsThere, TextsFit,
         PromisesHold, AtFile
<1>6. AllPrepared
  BY DEF AllPrepared, Prepared
<1> QED
  BY <1>1, <1>2, <1>3, <1>4, <1>5, <1>6 DEF ReportInv, ReportTyped

RequestSteps == {"template", "fill", "render", "open", "write", "print"}

LEMMA RequestIs ==
  ASSUME MakingTyped, NEW p \in Makers
  PROVE  /\ making[p].at \in RequestSteps => making[p] \in ReportRequests
         /\ making[p].at = "unlink" => making[p] \in Deletions
         /\ making[p].at \in RequestSteps \cup {"unlink", "idle"}
<1>1. making[p] \in ReportRequests \cup Deletions \cup {NotMaking}
  BY DEF MakingTyped
<1>2. CASE making[p] \in ReportRequests
  BY <1>2 DEF ReportRequests, RequestSteps
<1>3. CASE making[p] \in Deletions
  BY <1>3 DEF Deletions, RequestSteps
<1>4. CASE making[p] = NotMaking
  BY <1>4 DEF NotMaking, RequestSteps
<1> QED
  BY <1>1, <1>2, <1>3, <1>4

LEMMA RequestFields ==
  ASSUME NEW r \in ReportRequests
  PROVE  /\ r.at \in RequestSteps /\ r.type \in TypeIds /\ r.format \in Formats /\ r.about \in Matters
         /\ r.next \in Templates /\ r.ext \in Extensions /\ r.second \in ReportSeconds
         /\ r.text \in ReportTexts /\ r.source \in Keys \cup {<<>>} /\ r.early \in BOOLEAN
         /\ KeyOf(r) \in Keys
<1>1. /\ r.at \in RequestSteps /\ r.type \in TypeIds /\ r.format \in Formats /\ r.about \in Matters
      /\ r.next \in Templates /\ r.ext \in Extensions /\ r.second \in ReportSeconds
      /\ r.text \in ReportTexts /\ r.source \in Keys \cup {<<>>} /\ r.early \in BOOLEAN
  BY DEF ReportRequests, RequestSteps
<1> QED
  BY <1>1 DEF KeyOf, Keys

\* What the requests of other processes keep in every step: all but that they may turn early.
Alike(r, s) ==
    /\ s.at = r.at /\ s.type = r.type /\ s.format = r.format /\ s.about = r.about /\ s.next = r.next
    /\ s.ext = r.ext /\ s.second = r.second /\ s.text = r.text /\ s.source = r.source
    /\ r.early => s.early

LEMMA NewRequest ==
  ASSUME ReportTyped, NEW p \in Makers, NEW type \in TypeIds, NEW format \in Formats, NEW about \in Matters,
         Generate(p, type, format, about)
  PROVE  /\ \E w \in ReportRequests :
               /\ making'[p] = w
               /\ w.at = IF MustWriteTemplates THEN "template" ELSE FirstStep(format)
               /\ w.next = 0 /\ w.text = w.about /\ w.source = <<>> /\ w.early = Unsettled
         /\ \A q \in Makers \ {p} :
               /\ making'[q] = making[q] \/ (WritesTemplates(q) /\ making'[q] = [making[q] EXCEPT !.early = TRUE])
               /\ WritesTemplates(q) /\ MustWriteTemplates => making'[q] = [making[q] EXCEPT !.early = TRUE]
         /\ MakingTyped'
<1>0. MakingTyped /\ CountsTyped /\ Unsettled \in BOOLEAN
  BY DEF ReportTyped, Unsettled
<1>1. PICK w : w = [at |-> IF MustWriteTemplates THEN "template" ELSE FirstStep(format),
                    type |-> type, format |-> format, about |-> about, next |-> 0,
                    ext |-> FirstExtension(format), second |-> 0, text |-> about, source |-> <<>>,
                    early |-> Unsettled]
  OBVIOUS
<1>2. FirstStep(format) \in {"render", "open"} /\ FirstExtension(format) \in Extensions
  BY DEF FirstStep, FirstExtension, Extensions
<1>3. 0 \in Templates /\ 0 \in ReportSeconds
  BY ReportAssumption DEF Templates, ReportSeconds
<1>4. w \in ReportRequests
  BY <1>0, <1>1, <1>2, <1>3 DEF ReportRequests, ReportTexts
<1>5. making' = [q \in Makers |->
                    IF q = p THEN w
                    ELSE IF WritesTemplates(q) /\ MustWriteTemplates THEN [making[q] EXCEPT !.early = TRUE]
                    ELSE making[q]]
  BY <1>1 DEF Generate
<1>6. ASSUME NEW q \in Makers, WritesTemplates(q) PROVE [making[q] EXCEPT !.early = TRUE] \in ReportRequests
  <2>1. making[q] \in ReportRequests
    BY <1>0, <1>6, RequestIs DEF WritesTemplates, RequestSteps
  <2> QED
    BY <2>1 DEF ReportRequests
<1>7. MakingTyped'
  <2>1. \A q \in Makers : making'[q] \in ReportRequests \cup Deletions \cup {NotMaking}
    BY <1>0, <1>4, <1>5, <1>6 DEF MakingTyped
  <2> QED
    BY <1>5, <2>1 DEF MakingTyped
<1>8. \A q \in Makers \ {p} :
         /\ making'[q] = making[q] \/ (WritesTemplates(q) /\ making'[q] = [making[q] EXCEPT !.early = TRUE])
         /\ WritesTemplates(q) /\ MustWriteTemplates => making'[q] = [making[q] EXCEPT !.early = TRUE]
  BY <1>5
<1>9. making'[p] = w
  BY <1>5
<1>10. /\ w.at = IF MustWriteTemplates THEN "template" ELSE FirstStep(format)
       /\ w.next = 0 /\ w.text = w.about /\ w.source = <<>> /\ w.early = Unsettled
  BY <1>1
<1> QED
  BY <1>4, <1>7, <1>8, <1>9, <1>10

LEMMA EarlierIsAlike ==
  ASSUME NEW r \in ReportRequests
  PROVE  Alike(r, [r EXCEPT !.early = TRUE])
  BY DEF Alike, ReportRequests

\* Every other step is one process's.
LEMMA OneProcess ==
  ASSUME ReportTyped, NEW p \in Makers,
         \/ OpenTemplate(p) \/ FillTemplate(p) \/ RenderHtml(p) \/ OpenReport(p) \/ WriteReport(p)
         \/ PrintPdf(p) \/ PrintFails(p) \/ Unlink(p) \/ Dies(p)
         \/ \E name \in DOMAIN reports : FindForDelete(p, name)
  PROVE  /\ MakingTyped'
         /\ making'[p] \in ReportRequests \cup Deletions \cup {NotMaking}
         /\ \A q \in Makers \ {p} : making'[q] = making[q]
<1>0. MakingTyped /\ FilesTyped /\ CountsTyped
  BY DEF ReportTyped
<1>1. ASSUME NEW w \in ReportRequests \cup Deletions \cup {NotMaking}, making' = [making EXCEPT ![p] = w]
      PROVE  /\ MakingTyped'
             /\ making'[p] \in ReportRequests \cup Deletions \cup {NotMaking}
             /\ \A q \in Makers \ {p} : making'[q] = making[q]
  BY <1>0, <1>1 DEF MakingTyped
<1>2. CASE PrintFails(p) \/ Unlink(p) \/ Dies(p)
  BY <1>1, <1>2 DEF PrintFails, Unlink, Dies
<1>3. ASSUME NEW name \in DOMAIN reports, FindForDelete(p, name)
      PROVE  \E w \in ReportRequests \cup Deletions \cup {NotMaking} : making' = [making EXCEPT ![p] = w]
  <2>1. [at |-> "unlink", name |-> name] \in Deletions
    BY <1>0 DEF FilesTyped, Deletions
  <2> QED
    BY <1>3, <2>1 DEF FindForDelete
<1>4. ASSUME making[p].at \in RequestSteps,
             \/ OpenTemplate(p) \/ FillTemplate(p) \/ RenderHtml(p) \/ OpenReport(p) \/ WriteReport(p) \/ PrintPdf(p)
      PROVE  \E w \in ReportRequests \cup Deletions \cup {NotMaking} : making' = [making EXCEPT ![p] = w]
  <2>0. PICK r \in ReportRequests : r = making[p]
    BY <1>0, <1>4, RequestIs
  <2>1. CASE OpenTemplate(p)
    <3>1. [r EXCEPT !.at = "fill"] \in ReportRequests
      BY DEF ReportRequests
    <3> QED
      BY <2>0, <2>1, <3>1 DEF OpenTemplate
  <2>2. CASE FillTemplate(p)
    <3>1. FirstStep(r.format) \in {"render", "open"}
      BY DEF FirstStep
    <3>2. [r EXCEPT !.at = FirstStep(r.format)] \in ReportRequests
      BY <3>1 DEF ReportRequests
    <3>3. r.next # ReportTypes => r.next + 1 \in Templates
      BY RequestFields, ReportAssumption DEF Templates
    <3>4. r.next # ReportTypes => [r EXCEPT !.at = "template", !.next = r.next + 1] \in ReportRequests
      BY <3>3 DEF ReportRequests
    <3> QED
      BY <2>0, <2>2, <3>2, <3>4 DEF FillTemplate
  <2>3. CASE RenderHtml(p)
    <3>1. FromTemplate(p) \in ReportTexts
      BY <2>0, RequestFields DEF FromTemplate, ReportTexts
    <3>2. [r EXCEPT !.at = "open", !.text = FromTemplate(p)] \in ReportRequests
      BY <3>1 DEF ReportRequests
    <3> QED
      BY <2>0, <2>3, <3>2 DEF RenderHtml
  <2>4. CASE OpenReport(p)
    <3>1. [r EXCEPT !.at = "write", !.second = clock] \in ReportRequests
      BY <1>0 DEF ReportRequests, CountsTyped
    <3> QED
      BY <2>0, <2>4, <3>1 DEF OpenReport
  <2>5. CASE WriteReport(p)
    <3>1. [r EXCEPT !.at = "print"] \in ReportRequests
      BY DEF ReportRequests
    <3> QED
      BY <2>0, <2>5, <3>1 DEF WriteReport
  <2>6. CASE PrintPdf(p)
    <3>1. reports[NameOf(p)].text \in ReportTexts
      BY <1>0, <2>6 DEF PrintPdf, FilesTyped
    <3>2. <<r.type, "html", r.second>> \in Keys
      BY RequestFields DEF Keys, Extensions
    <3>3. [r EXCEPT !.at = "open", !.ext = "pdf", !.text = reports[NameOf(p)].text,
                    !.source = <<r.type, "html", r.second>>] \in ReportRequests
      BY <3>1, <3>2 DEF ReportRequests, Extensions
    <3> QED
      BY <2>0, <2>6, <3>3 DEF PrintPdf
  <2> QED
    BY <1>4, <2>1, <2>2, <2>3, <2>4, <2>5, <2>6
<1>5. \/ OpenTemplate(p) \/ FillTemplate(p) \/ RenderHtml(p) \/ OpenReport(p) \/ WriteReport(p) \/ PrintPdf(p)
      => making[p].at \in RequestSteps
  BY DEF OpenTemplate, FillTemplate, RenderHtml, OpenReport, WriteReport, PrintPdf, RequestSteps
<1> QED
  BY <1>1, <1>2, <1>3, <1>4, <1>5

LEMMA ReportTypesStep == ReportTyped /\ [ReportNext]_reportVars => ReportTyped'
<1> SUFFICES ASSUME ReportTyped, [ReportNext]_reportVars PROVE ReportTyped'
  OBVIOUS
<1>0. MakingTyped /\ FilesTyped /\ CountsTyped
  BY DEF ReportTyped
<1>1. MakingTyped'
  <2>1. CASE UNCHANGED reportVars
    BY <1>0, <2>1 DEF MakingTyped, reportVars
  <2>2. CASE SecondPasses
    BY <1>0, <2>2 DEF MakingTyped, SecondPasses
  <2> QED
    BY <2>1, <2>2, NewRequest, OneProcess DEF ReportNext
<1>2. ASSUME NEW p \in Makers, OpenReport(p) PROVE FilesTyped' /\ CountsTyped'
  <2>1. making[p] \in ReportRequests
    BY <1>0, <1>2, RequestIs DEF OpenReport, RequestSteps
  <2>2. PICK name \in Keys : name = <<making[p].type, making[p].ext, clock>>
    BY <1>0, <2>1, RequestFields DEF Keys, CountsTyped
  <2>3. Holders(name) \cup {p} \in SUBSET Makers
    BY <1>0 DEF Holders, FilesTyped
  <2>4. reports' = [n \in DOMAIN reports \cup {name} |->
                      IF n = name THEN [text |-> NoText, open |-> Holders(name) \cup {p}] ELSE reports[n]]
    BY <1>2, <2>2 DEF OpenReport, FileName
  <2>5. FilesTyped'
    BY <1>0, <2>3, <2>4 DEF FilesTyped, ReportTexts
  <2>6. opened' = opened \cup {name} /\ (crowded' = crowded \/ crowded' = crowded \cup {name})
    BY <1>2, <2>2 DEF OpenReport
  <2>7. CountsTyped'
    BY <1>0, <1>2, <2>2, <2>6 DEF OpenReport, CountsTyped
  <2> QED
    BY <2>5, <2>7
<1>3. ASSUME NEW p \in Makers, WriteReport(p) PROVE FilesTyped' /\ CountsTyped'
  <2>1. making[p] \in ReportRequests
    BY <1>0, <1>3, RequestIs DEF WriteReport, RequestSteps
  <2>2. making[p].text \in ReportTexts
    BY <2>1, RequestFields
  <2>3. FilesTyped'
    <3>1. CASE p \in Holders(NameOf(p))
      <4>1. NameOf(p) \in DOMAIN reports /\ reports[NameOf(p)].open \ {p} \in SUBSET Makers
        BY <1>0, <3>1 DEF Holders, FilesTyped
      <4>2. reports' = [reports EXCEPT ![NameOf(p)] =
                           [text |-> making[p].text, open |-> reports[NameOf(p)].open \ {p}]]
        BY <1>3, <3>1 DEF WriteReport, Landed
      <4> QED
        BY <1>0, <2>2, <4>1, <4>2 DEF FilesTyped
    <3>2. CASE p \notin Holders(NameOf(p))
      BY <1>0, <1>3, <3>2 DEF WriteReport, Landed, FilesTyped
    <3> QED
      BY <3>1, <3>2
  <2> QED
    BY <1>0, <1>3, <2>3 DEF WriteReport, CountsTyped
<1>4. ASSUME NEW p \in Makers, Unlink(p) PROVE FilesTyped' /\ CountsTyped'
  <2>1. making[p] \in Deletions
    BY <1>0, <1>4, RequestIs DEF Unlink
  <2>2. making[p].name \in Keys
    BY <2>1 DEF Deletions
  <2> QED
    BY <1>0, <1>4, <2>2 DEF Unlink, FilesTyped, CountsTyped
<1>5. ASSUME NEW p \in Makers, Dies(p) PROVE FilesTyped' /\ CountsTyped'
  <2>1. reports' = [n \in DOMAIN reports |-> [reports[n] EXCEPT !.open = @ \ {p}]]
    BY <1>5 DEF Dies
  <2>2. FilesTyped'
    BY <1>0, <2>1 DEF FilesTyped
  <2> QED
    BY <1>0, <1>5, <2>2, ReportAssumption DEF Dies, CountsTyped
<1>6. ASSUME NEW p \in Makers, OpenTemplate(p) \/ FillTemplate(p) PROVE FilesTyped' /\ CountsTyped'
  BY <1>0, <1>6 DEF OpenTemplate, FillTemplate, FilesTyped, CountsTyped
<1>7. ASSUME UNCHANGED <<tools, template, reports, opened, crowded, removed>>,
             clock' \in ReportSeconds, requested' \in 0 .. MaxReports, kills' \in 0 .. MaxKills
      PROVE  FilesTyped' /\ CountsTyped'
  BY <1>0, <1>7 DEF FilesTyped, CountsTyped
<1>8. ASSUME SecondPasses PROVE FilesTyped' /\ CountsTyped'
  <2>1. UNCHANGED <<tools, template, reports, opened, crowded, removed>>
    BY <1>8 DEF SecondPasses
  <2>2. clock' \in ReportSeconds /\ requested' \in 0 .. MaxReports /\ kills' \in 0 .. MaxKills
    BY <1>0, <1>8, ReportAssumption DEF SecondPasses, CountsTyped, ReportSeconds
  <2> QED
    BY <1>7, <2>1, <2>2
<1>9. ASSUME NEW p \in Makers, NEW type \in TypeIds, NEW format \in Formats, NEW about \in Matters,
             Generate(p, type, format, about)
      PROVE  FilesTyped' /\ CountsTyped'
  BY <1>0, <1>7, <1>9, ReportAssumption DEF Generate, CountsTyped
<1>10. ASSUME NEW p \in Makers,
              \/ RenderHtml(p) \/ PrintPdf(p) \/ PrintFails(p)
              \/ \E name \in DOMAIN reports : FindForDelete(p, name)
       PROVE  FilesTyped' /\ CountsTyped'
  BY <1>0, <1>7, <1>10 DEF RenderHtml, PrintPdf, PrintFails, FindForDelete, CountsTyped
<1>11. ASSUME UNCHANGED reportVars PROVE FilesTyped' /\ CountsTyped'
  <2>1. UNCHANGED <<tools, template, reports, opened, crowded, removed>>
    BY <1>11 DEF reportVars
  <2>2. clock' \in ReportSeconds /\ requested' \in 0 .. MaxReports /\ kills' \in 0 .. MaxKills
    BY <1>0, <1>11 DEF CountsTyped, reportVars
  <2> QED
    BY <1>7, <2>1, <2>2
<1>12. FilesTyped' /\ CountsTyped'
  <2>1. ASSUME NEW p \in Makers,
               \/ OpenTemplate(p) \/ FillTemplate(p) \/ RenderHtml(p) \/ OpenReport(p) \/ WriteReport(p)
               \/ PrintPdf(p) \/ PrintFails(p) \/ Unlink(p) \/ Dies(p)
               \/ \E name \in DOMAIN reports : FindForDelete(p, name)
        PROVE  FilesTyped' /\ CountsTyped'
    BY <1>2, <1>3, <1>4, <1>5, <1>6, <1>10, <2>1
  <2> QED
    BY <1>8, <1>9, <1>11, <2>1 DEF ReportNext
<1> QED
  BY <1>1, <1>12 DEF ReportTyped

-----------------------------------------------------------------------------
\* Nobody takes up the templates, and those that are there keep their state.
LEMMA TemplatesRest ==
  ASSUME ReportTyped, TemplatesInv, UNCHANGED <<template, tools>>,
         \A q \in Makers :
             \/ making'[q] = making[q]
             \/ making'[q].at \notin {"template", "fill", "render"}
  PROVE  TemplatesInv'
<1>1. \A q \in Makers : WritesTemplates(q)' => WritesTemplates(q) /\ making'[q] = making[q]
  BY DEF WritesTemplates
<1>2. WritersHaveTools'
  BY <1>1 DEF TemplatesInv, WritersHaveTools
<1>3. ASSUME NEW p \in Makers, making'[p].at \in {"template", "fill", "render"}, ~making'[p].early, tools.templates
      PROVE  (IF making[p].at = "render" THEN WholeForGood ELSE OnlyWriter(p))'
  <2>1. making'[p] = making[p]
    BY <1>3
  <2>2. IF making[p].at = "render" THEN WholeForGood ELSE OnlyWriter(p)
    BY <1>3, <2>1 DEF TemplatesInv, TemplatesReady
  <2> QED
    BY <1>1, <2>1, <2>2 DEF WholeForGood, OnlyWriter
<1>4. TemplatesReady'
  BY <1>3 DEF TemplatesReady
<1> QED
  BY <1>2, <1>4 DEF TemplatesInv

LEMMA TemplatesStep == ReportTyped /\ TemplatesInv /\ [ReportNext]_reportVars => TemplatesInv'
<1> SUFFICES ASSUME ReportTyped, TemplatesInv, [ReportNext]_reportVars PROVE TemplatesInv'
  OBVIOUS
<1>0. /\ MakingTyped /\ CountsTyped /\ WritersHaveTools /\ TemplatesReady
      /\ tools.templates \in BOOLEAN /\ ReportTypes \in Nat
      /\ \A k \in Templates : template[k] \in {"missing", "open", "whole"}
  BY ReportAssumption DEF ReportTyped, TemplatesInv, CountsTyped
<1>1. CASE UNCHANGED reportVars
  BY <1>1, TemplatesRest DEF reportVars
<1>2. CASE SecondPasses
  BY <1>2, TemplatesRest DEF SecondPasses
<1>3. ASSUME NEW p \in Makers,
             \/ OpenReport(p) \/ WriteReport(p) \/ PrintPdf(p) \/ PrintFails(p) \/ Unlink(p) \/ Dies(p)
             \/ RenderHtml(p) \/ \E name \in DOMAIN reports : FindForDelete(p, name)
      PROVE  TemplatesInv'
  <2>1. UNCHANGED <<template, tools>>
    BY <1>3 DEF OpenReport, WriteReport, PrintPdf, PrintFails, Unlink, Dies, RenderHtml, FindForDelete
  <2>2. \A q \in Makers \ {p} : making'[q] = making[q]
    BY <1>3, OneProcess
  <2>3. making'[p].at \notin {"template", "fill", "render"}
    <3>1. CASE PrintFails(p) \/ Unlink(p) \/ Dies(p)
      BY <1>0, <3>1 DEF PrintFails, Unlink, Dies, NotMaking, MakingTyped
    <3>2. CASE \E name \in DOMAIN reports : FindForDelete(p, name)
      BY <1>0, <3>2 DEF FindForDelete, MakingTyped
    <3>3. CASE OpenReport(p) \/ WriteReport(p) \/ PrintPdf(p) \/ RenderHtml(p)
      <4>1. making[p] \in ReportRequests
        BY <1>0, <3>3, RequestIs DEF OpenReport, WriteReport, PrintPdf, RenderHtml, RequestSteps
      <4> QED
        BY <1>0, <3>3, <4>1
        DEF OpenReport, WriteReport, PrintPdf, RenderHtml, MakingTyped, ReportRequests, NotMaking
    <3> QED
      BY <1>3, <3>1, <3>2, <3>3
  <2> QED
    BY <2>1, <2>2, <2>3, TemplatesRest
<1>4. ASSUME NEW p \in Makers, NEW type \in TypeIds, NEW format \in Formats, NEW about \in Matters,
             Generate(p, type, format, about)
      PROVE  TemplatesInv'
  <2>1. PICK w \in ReportRequests :
            /\ making'[p] = w
            /\ w.at = IF MustWriteTemplates THEN "template" ELSE FirstStep(format)
            /\ w.next = 0 /\ w.early = Unsettled
    BY <1>4, NewRequest
  <2>2. \A q \in Makers \ {p} :
            /\ making'[q] = making[q] \/ (WritesTemplates(q) /\ making'[q] = [making[q] EXCEPT !.early = TRUE])
            /\ WritesTemplates(q) /\ MustWriteTemplates => making'[q] = [making[q] EXCEPT !.early = TRUE]
    BY <1>4, NewRequest
  <2>3. UNCHANGED <<template, tools>> /\ making[p] = NotMaking
    BY <1>4 DEF Generate
  <2>4. ASSUME NEW q \in Makers \ {p}
        PROVE  making'[q].at = making[q].at /\ (making'[q] = making[q] \/ making'[q].early)
    <3>1. WritesTemplates(q) => making[q] \in ReportRequests
      BY <1>0, RequestIs DEF WritesTemplates, RequestSteps
    <3>2. CASE making'[q] = making[q]
      BY <3>2
    <3>3. CASE WritesTemplates(q) /\ making'[q] = [making[q] EXCEPT !.early = TRUE]
      BY <3>1, <3>3 DEF ReportRequests
    <3> QED
      BY <2>2, <3>2, <3>3
  <2>5. FirstStep(format) \in {"render", "open"}
    BY DEF FirstStep
  <2>6. \A q \in Makers : WritesTemplates(q)' => (q = p /\ MustWriteTemplates) \/ (q # p /\ WritesTemplates(q))
    BY <2>1, <2>4, <2>5 DEF WritesTemplates
  <2>7. WritersHaveTools'
    BY <1>0, <2>3, <2>6 DEF WritersHaveTools, MustWriteTemplates
  <2>8. ASSUME making'[p].at \in {"template", "fill", "render"}, ~making'[p].early, tools.templates
        PROVE  (IF making[p].at = "render" THEN WholeForGood ELSE OnlyWriter(p))'
    <3>1. (\A q \in Makers : ~WritesTemplates(q)) /\ (\A k \in Templates : template[k] # "open")
      BY <2>1, <2>8 DEF Unsettled
    <3>2. CASE MustWriteTemplates
      <4>1. making'[p].at = "template" /\ making'[p].next = 0
        BY <2>1, <3>2
      <4>2. \A q \in Makers \ {p} : ~WritesTemplates(q)'
        BY <2>6, <3>1
      <4>3. \A k \in Templates : ~(k < 0)
        BY DEF Templates
      <4>4. OnlyWriter(p)'
        BY <2>3, <3>1, <4>1, <4>2, <4>3 DEF OnlyWriter
      <4> QED
        BY <4>1, <4>4
    <3>3. CASE ~MustWriteTemplates
      <4>1. template[0] # "missing" /\ 0 \in Templates
        BY <1>0, <2>8, <3>3 DEF MustWriteTemplates, Templates
      <4>2. template[0] = "whole"
        BY <1>0, <3>1, <4>1
      <4>3. making'[p].at = "render"
        BY <2>1, <2>5, <2>8, <3>3
      <4>4. \A q \in Makers : ~WritesTemplates(q)'
        BY <2>6, <3>1, <3>3
      <4>5. WholeForGood'
        BY <2>3, <3>1, <4>2, <4>4 DEF WholeForGood
      <4> QED
        BY <4>3, <4>5
    <3> QED
      BY <3>2, <3>3
  <2>9. ASSUME NEW q \in Makers \ {p}, making'[q].at \in {"template", "fill", "render"}, ~making'[q].early,
               tools.templates
        PROVE  (IF making[q].at = "render" THEN WholeForGood ELSE OnlyWriter(q))'
    <3>1. making'[q] = making[q]
      BY <2>4, <2>9
    <3>2. IF making[q].at = "render" THEN WholeForGood ELSE OnlyWriter(q)
      BY <1>0, <2>9, <3>1 DEF TemplatesReady
    <3>3. ~MustWriteTemplates
      <4>1. CASE making[q].at = "render"
        BY <3>2, <4>1 DEF WholeForGood, MustWriteTemplates
      <4>2. CASE making[q].at # "render"
        <5>1. WritesTemplates(q) /\ making[q] \in ReportRequests
          BY <1>0, <2>9, <3>1, <4>2, RequestIs DEF WritesTemplates, RequestSteps
        <5>2. ~[making[q] EXCEPT !.early = TRUE].early => FALSE
          BY <5>1 DEF ReportRequests
        <5> QED
          BY <2>2, <2>9, <5>1, <5>2
      <4> QED
        BY <4>1, <4>2
    <3>4. \A u \in Makers : WritesTemplates(u)' => WritesTemplates(u)
      BY <2>6, <3>3
    <3> QED
      BY <2>3, <3>1, <3>2, <3>4 DEF WholeForGood, OnlyWriter
  <2>10. TemplatesReady'
    BY <2>3, <2>8, <2>9 DEF TemplatesReady
  <2> QED
    BY <2>7, <2>10 DEF TemplatesInv
<1>5. ASSUME NEW p \in Makers, OpenTemplate(p) PROVE TemplatesInv'
  <2>1. making[p] \in ReportRequests /\ WritesTemplates(p) /\ making[p].at = "template"
    BY <1>0, <1>5, RequestIs DEF OpenTemplate, WritesTemplates, RequestSteps
  <2>2. /\ making'[p].at = "fill" /\ making'[p].next = making[p].next /\ making'[p].early = making[p].early
        /\ \A q \in Makers \ {p} : making'[q] = making[q]
        /\ template' = [template EXCEPT ![making[p].next] = "open"] /\ tools' = tools
    BY <1>0, <1>5, <2>1 DEF OpenTemplate, MakingTyped, ReportRequests
  <2>3. \A q \in Makers : WritesTemplates(q)' <=> WritesTemplates(q)
    BY <2>1, <2>2 DEF WritesTemplates
  <2>4. WritersHaveTools'
    BY <1>0, <2>2, <2>3 DEF WritersHaveTools
  <2>5. ASSUME NEW q \in Makers, making'[q].at \in {"template", "fill", "render"}, ~making'[q].early, tools.templates
        PROVE  (IF making[q].at = "render" THEN WholeForGood ELSE OnlyWriter(q))'
    <3>1. q = p
      <4>1. SUFFICES ASSUME q # p PROVE FALSE
        OBVIOUS
      <4>2. IF making[q].at = "render" THEN WholeForGood ELSE OnlyWriter(q)
        BY <1>0, <2>2, <2>5, <4>1 DEF TemplatesReady
      <4> QED
        BY <2>1, <4>1, <4>2 DEF WholeForGood, OnlyWriter
    <3>2. OnlyWriter(p)
      BY <1>0, <2>1, <2>2, <2>5, <3>1 DEF TemplatesReady
    <3>3. making[p].next \in Templates /\ making[p].next \in Int
      BY <2>1, RequestFields DEF Templates
    <3>4. \A k \in Templates : template'[k] = IF k = making[p].next THEN "open" ELSE template[k]
      BY <1>0, <2>2, <3>3 DEF CountsTyped
    <3>5. OnlyWriter(p)'
      <4>1. \A u \in Makers \ {p} : ~WritesTemplates(u)'
        BY <2>3, <3>2 DEF OnlyWriter
      <4>2. ASSUME NEW k \in Templates
            PROVE  /\ k < making'[p].next => template'[k] = "whole"
                   /\ template'[k] = "open" => k = making'[p].next /\ making'[p].at = "fill"
        <5>1. k \in Int /\ (k < making[p].next => k # making[p].next)
          BY <3>3 DEF Templates
        <5> QED
          BY <2>1, <2>2, <3>2, <3>4, <5>1 DEF OnlyWriter
      <4> QED
        BY <4>1, <4>2 DEF OnlyWriter
    <3> QED
      BY <2>2, <3>1, <3>5
  <2>6. TemplatesReady'
    BY <2>2, <2>5 DEF TemplatesReady
  <2> QED
    BY <2>4, <2>6 DEF TemplatesInv
<1>6. ASSUME NEW p \in Makers, FillTemplate(p) PROVE TemplatesInv'
  <2>1. making[p] \in ReportRequests /\ WritesTemplates(p) /\ making[p].at = "fill"
    BY <1>0, <1>6, RequestIs DEF FillTemplate, WritesTemplates, RequestSteps
  <2>2. making[p].next \in 0 .. ReportTypes /\ making[p].next \in Templates
    BY <2>1, RequestFields DEF Templates
  <2>3. /\ \A q \in Makers \ {p} : making'[q] = making[q]
        /\ template' = [template EXCEPT ![making[p].next] = "whole"] /\ tools' = tools
    BY <1>0, <1>6, OneProcess DEF FillTemplate
  <2>4. \A k \in Templates : template'[k] = IF k = making[p].next THEN "whole" ELSE template[k]
    BY <1>0, <2>2, <2>3 DEF CountsTyped
  <2>5. /\ making'[p].early = making[p].early
        /\ IF making[p].next = ReportTypes
           THEN making'[p].at \in {"render", "open"}
           ELSE making'[p].at = "template" /\ making'[p].next = making[p].next + 1
    BY <1>0, <1>6, <2>1 DEF FillTemplate, MakingTyped, ReportRequests, FirstStep
  <2>6. \A q \in Makers : WritesTemplates(q)' => WritesTemplates(q)
    BY <2>1, <2>3 DEF WritesTemplates
  <2>7. WritersHaveTools'
    BY <1>0, <2>3, <2>6 DEF WritersHaveTools
  <2>8. ASSUME NEW q \in Makers, making'[q].at \in {"template", "fill", "render"}, ~making'[q].early, tools.templates
        PROVE  (IF making[q].at = "render" THEN WholeForGood ELSE OnlyWriter(q))'
    <3>1. q = p
      <4>1. SUFFICES ASSUME q # p PROVE FALSE
        OBVIOUS
      <4>2. IF making[q].at = "render" THEN WholeForGood ELSE OnlyWriter(q)
        BY <1>0, <2>3, <2>8, <4>1 DEF TemplatesReady
      <4> QED
        BY <2>1, <4>1, <4>2 DEF WholeForGood, OnlyWriter
    <3>2. OnlyWriter(p)
      BY <1>0, <2>1, <2>5, <2>8, <3>1 DEF TemplatesReady
    <3>3. CASE making[p].next = ReportTypes
      <4>1. making'[p].at = "render"
        BY <2>5, <2>8, <3>1, <3>3
      <4>2. \A u \in Makers : ~WritesTemplates(u)'
        BY <2>6, <3>2, <4>1 DEF OnlyWriter, WritesTemplates
      <4>3. ASSUME NEW k \in Templates PROVE template'[k] = "whole"
        <5>1. k = ReportTypes \/ k < ReportTypes
          BY <1>0 DEF Templates
        <5> QED
          BY <2>4, <3>2, <3>3, <5>1 DEF OnlyWriter
      <4>4. 0 \in Templates
        BY <1>0 DEF Templates
      <4>5. WholeForGood'
        BY <4>2, <4>3, <4>4 DEF WholeForGood
      <4> QED
        BY <3>1, <4>1, <4>5
    <3>4. CASE making[p].next # ReportTypes
      <4>1. making'[p].at = "template" /\ making'[p].next = making[p].next + 1
        BY <2>5, <3>4
      <4>2. \A u \in Makers \ {p} : ~WritesTemplates(u)'
        BY <2>6, <3>2 DEF OnlyWriter
      <4>3. ASSUME NEW k \in Templates
            PROVE  /\ k < making'[p].next => template'[k] = "whole"
                   /\ template'[k] # "open"
        <5>1. k < making[p].next + 1 => k = making[p].next \/ k < making[p].next
          BY <2>2 DEF Templates
        <5> QED
          BY <2>4, <3>2, <4>1, <5>1 DEF OnlyWriter
      <4>4. OnlyWriter(p)'
        BY <4>2, <4>3 DEF OnlyWriter
      <4> QED
        BY <3>1, <4>1, <4>4
    <3> QED
      BY <3>3, <3>4
  <2>9. TemplatesReady'
    BY <2>3, <2>8 DEF TemplatesReady
  <2> QED
    BY <2>7, <2>9 DEF TemplatesInv
<1>7. ASSUME NEW p \in Makers,
             \/ OpenTemplate(p) \/ FillTemplate(p) \/ RenderHtml(p) \/ OpenReport(p) \/ WriteReport(p)
             \/ PrintPdf(p) \/ PrintFails(p) \/ Unlink(p) \/ Dies(p)
             \/ \E name \in DOMAIN reports : FindForDelete(p, name)
      PROVE  TemplatesInv'
  BY <1>3, <1>5, <1>6, <1>7
<1> QED
  BY <1>1, <1>2, <1>4, <1>7 DEF ReportNext

-----------------------------------------------------------------------------
LEMMA SameIsAlike == \A r : Alike(r, r)
  BY DEF Alike

LEMMA PreparedStep == ReportTyped /\ AllPrepared /\ [ReportNext]_reportVars => AllPrepared'
<1> SUFFICES ASSUME ReportTyped, AllPrepared, [ReportNext]_reportVars PROVE AllPrepared'
  OBVIOUS
<1>0. MakingTyped
  BY DEF ReportTyped
<1>1. CASE UNCHANGED making
  BY <1>1 DEF AllPrepared
<1>2. ASSUME NEW p \in Makers, NEW type \in TypeIds, NEW format \in Formats, NEW about \in Matters,
             Generate(p, type, format, about)
      PROVE  AllPrepared'
  <2>1. PICK w \in ReportRequests :
            /\ making'[p] = w
            /\ w.at = IF MustWriteTemplates THEN "template" ELSE FirstStep(format)
            /\ w.text = w.about /\ w.source = <<>>
    BY <1>2, NewRequest
  <2>2. Prepared(making'[p])
    BY <2>1 DEF Prepared, FirstStep
  <2>3. ASSUME NEW q \in Makers \ {p} PROVE Prepared(making'[q])
    <3>1. \/ making'[q] = making[q]
          \/ WritesTemplates(q) /\ making'[q] = [making[q] EXCEPT !.early = TRUE]
      BY <1>2, NewRequest
    <3>2. WritesTemplates(q) => making[q] \in ReportRequests
      BY <1>0, RequestIs DEF WritesTemplates, RequestSteps
    <3>3. Alike(making[q], making'[q])
      BY <3>1, <3>2, SameIsAlike, EarlierIsAlike
    <3> QED
      BY <3>3 DEF AllPrepared, Prepared, Alike
  <2> QED
    BY <2>2, <2>3 DEF AllPrepared
<1>3. ASSUME NEW p \in Makers, Prepared(making'[p]), \A q \in Makers \ {p} : making'[q] = making[q]
      PROVE  AllPrepared'
  BY <1>3 DEF AllPrepared
<1>4. ASSUME NEW p \in Makers,
             \/ OpenTemplate(p) \/ FillTemplate(p) \/ RenderHtml(p) \/ OpenReport(p) \/ WriteReport(p)
             \/ PrintPdf(p) \/ PrintFails(p) \/ Unlink(p) \/ Dies(p)
             \/ \E name \in DOMAIN reports : FindForDelete(p, name)
      PROVE  AllPrepared'
  <2>1. \A q \in Makers \ {p} : making'[q] = making[q]
    BY <1>4, OneProcess
  <2>2. CASE making'[p] = NotMaking \/ making'[p].at = "unlink"
    BY <1>3, <2>1, <2>2 DEF Prepared, NotMaking
  <2>3. CASE PrintFails(p) \/ Unlink(p) \/ Dies(p) \/ \E name \in DOMAIN reports : FindForDelete(p, name)
    BY <1>0, <2>2, <2>3 DEF PrintFails, Unlink, Dies, FindForDelete, MakingTyped
  <2>4. CASE OpenTemplate(p) \/ FillTemplate(p) \/ RenderHtml(p) \/ OpenReport(p) \/ WriteReport(p) \/ PrintPdf(p)
    <3>1. making[p].at \in RequestSteps
      BY <2>4 DEF OpenTemplate, FillTemplate, RenderHtml, OpenReport, WriteReport, PrintPdf, RequestSteps
    <3>2. PICK r \in ReportRequests : r = making[p]
      BY <1>0, <3>1, RequestIs
    <3>3. Prepared(r)
      BY <3>2 DEF AllPrepared
    <3>4. r.at \in RequestSteps /\ FirstStep(r.format) \in {"render", "open"}
      BY <3>1, <3>2 DEF FirstStep
    <3>5. CASE OpenTemplate(p)
      <4>1. r.at = "template" /\ making'[p] = [r EXCEPT !.at = "fill"]
        BY <1>0, <3>2, <3>5 DEF OpenTemplate, MakingTyped
      <4>2. Prepared(making'[p])
        BY <3>3, <4>1 DEF Prepared, ReportRequests
      <4> QED
        BY <1>3, <2>1, <4>2
    <3>6. CASE FillTemplate(p)
      <4>1. /\ r.at = "fill"
            /\ \/ making'[p] = [r EXCEPT !.at = FirstStep(r.format)]
               \/ making'[p] = [r EXCEPT !.at = "template", !.next = r.next + 1]
        BY <1>0, <3>2, <3>6 DEF FillTemplate, MakingTyped
      <4>2. Prepared(making'[p])
        BY <3>3, <3>4, <4>1 DEF Prepared, ReportRequests
      <4> QED
        BY <1>3, <2>1, <4>2
    <3>7. CASE RenderHtml(p)
      <4>1. r.at = "render" /\ making'[p] = [r EXCEPT !.at = "open", !.text = FromTemplate(p)]
        BY <1>0, <3>2, <3>7 DEF RenderHtml, MakingTyped
      <4>2. Prepared(making'[p])
        BY <3>3, <4>1 DEF Prepared, ReportRequests
      <4> QED
        BY <1>3, <2>1, <4>2
    <3>8. CASE OpenReport(p)
      <4>1. r.at = "open" /\ making'[p] = [r EXCEPT !.at = "write", !.second = clock]
        BY <1>0, <3>2, <3>8 DEF OpenReport, MakingTyped
      <4>2. Prepared(making'[p])
        BY <3>3, <4>1 DEF Prepared, ReportRequests
      <4> QED
        BY <1>3, <2>1, <4>2
    <3>9. CASE WriteReport(p)
      <4>1. /\ r.at = "write"
            /\ making'[p] = NotMaking \/ (r.ext = "html" /\ making'[p] = [r EXCEPT !.at = "print"])
        BY <1>0, <3>2, <3>9 DEF WriteReport, MakingTyped, PrintsNext
      <4>2. CASE making'[p] # NotMaking
        <5>1. Prepared(making'[p])
          BY <3>3, <4>1, <4>2 DEF Prepared, ReportRequests
        <5> QED
          BY <1>3, <2>1, <5>1
      <4> QED
        BY <2>2, <4>2
    <3>10. CASE PrintPdf(p)
      <4>1. making'[p] = [r EXCEPT !.at = "open", !.ext = "pdf", !.text = reports[NameOf(p)].text,
                                   !.source = <<r.type, "html", r.second>>]
        BY <1>0, <3>2, <3>10 DEF PrintPdf, MakingTyped
      <4>2. Prepared(making'[p])
        BY <4>1 DEF Prepared, ReportRequests
      <4> QED
        BY <1>3, <2>1, <4>2
    <3> QED
      BY <2>4, <3>5, <3>6, <3>7, <3>8, <3>9, <3>10
  <2> QED
    BY <1>4, <2>3, <2>4
<1>5. CASE SecondPasses
  BY <1>1, <1>5 DEF SecondPasses
<1> QED
  BY <1>1, <1>2, <1>4, <1>5 DEF ReportNext, reportVars

\* A step of a process that comes to no file, and leaves the files and answers.
LEMMA FilesRest ==
  ASSUME FilesInv, NEW p \in Makers, UNCHANGED <<reports, promised, opened, crowded, removed>>,
         \A q \in Makers \ {p} : Alike(making[q], making'[q]),
         making'[p].at \notin {"write", "print"},
         making'[p].at = "open" => making'[p].source \in crowded \/ Fits(making'[p].text, making'[p])
  PROVE  FilesInv'
<1>0. /\ FilesWereOpened /\ UsersOpened /\ OneUser /\ NoLateWriter
      /\ WriterHolds /\ PrintedIsThere /\ TextsFit /\ PromisesHold
  BY DEF FilesInv
<1>1. \A q \in Makers : AtFile(q)' =>
          /\ q # p /\ AtFile(q) /\ making'[q].at = making[q].at
          /\ KeyOf(making'[q]) = KeyOf(making[q]) /\ making'[q].text = making[q].text
  BY DEF AtFile, Alike, KeyOf
<1>2. FilesWereOpened'
  BY <1>0 DEF FilesWereOpened
<1>3. UsersOpened'
  BY <1>0, <1>1 DEF UsersOpened, KeyOf
<1>4. OneUser'
  BY <1>0, <1>1 DEF OneUser, KeyOf
<1>5. NoLateWriter'
  BY <1>0, <1>1 DEF NoLateWriter, KeyOf
<1>6. WriterHolds'
  <2>1. ASSUME NEW q \in Makers, making'[q].at = "write"
        PROVE  \/ KeyOf(making'[q]) \in crowded \cup removed
               \/ KeyOf(making'[q]) \in DOMAIN reports /\ q \in reports[KeyOf(making'[q])].open
    BY <1>0, <1>1, <2>1 DEF WriterHolds, AtFile
  <2> QED
    BY <2>1 DEF WriterHolds, KeyOf
<1>7. PrintedIsThere'
  <2>1. ASSUME NEW q \in Makers, making'[q].at = "print"
        PROVE  \/ KeyOf(making'[q]) \in crowded \cup removed
               \/ KeyOf(making'[q]) \in DOMAIN reports /\ reports[KeyOf(making'[q])].text = making'[q].text
    BY <1>0, <1>1, <2>1 DEF PrintedIsThere, AtFile
  <2> QED
    BY <2>1 DEF PrintedIsThere, KeyOf
<1>8. TextsFit'
  <2>1. ASSUME NEW q \in Makers, making'[q].at \in {"open", "write", "print"}
        PROVE  making'[q].source \in crowded \/ Fits(making'[q].text, making'[q])
    BY <1>0, <2>1 DEF TextsFit, Fits, Alike
  <2> QED
    BY <2>1 DEF TextsFit, Fits
<1>9. PromisesHold'
  BY <1>0 DEF PromisesHold, Fits
<1> QED
  BY <1>2, <1>3, <1>4, <1>5, <1>6, <1>7, <1>8, <1>9 DEF FilesInv

LEMMA RestingSteps ==
  ASSUME ReportInv, NEW p \in Makers,
         \/ \E type \in TypeIds, format \in Formats, about \in Matters : Generate(p, type, format, about)
         \/ OpenTemplate(p) \/ FillTemplate(p) \/ RenderHtml(p) \/ PrintPdf(p)
         \/ \E name \in DOMAIN reports : FindForDelete(p, name)
  PROVE  FilesInv'
<1>0. ReportTyped /\ MakingTyped /\ TemplatesInv /\ FilesInv /\ FilesTyped /\ AllPrepared
  BY DEF ReportInv, ReportTyped
<1>1. UNCHANGED <<reports, promised, opened, crowded, removed>>
  BY DEF Generate, OpenTemplate, FillTemplate, RenderHtml, PrintPdf, FindForDelete
<1>2. ASSUME NEW type \in TypeIds, NEW format \in Formats, NEW about \in Matters, Generate(p, type, format, about)
      PROVE  FilesInv'
  <2>1. PICK w \in ReportRequests :
            /\ making'[p] = w
            /\ w.at = IF MustWriteTemplates THEN "template" ELSE FirstStep(format)
            /\ w.text = w.about
    BY <1>0, <1>2, NewRequest
  <2>2. FirstStep(format) \in {"render", "open"}
    BY DEF FirstStep
  <2>3. ASSUME NEW q \in Makers \ {p} PROVE Alike(making[q], making'[q])
    <3>1. \/ making'[q] = making[q]
          \/ WritesTemplates(q) /\ making'[q] = [making[q] EXCEPT !.early = TRUE]
      BY <1>0, <1>2, NewRequest
    <3>2. WritesTemplates(q) => making[q] \in ReportRequests
      BY <1>0, RequestIs DEF WritesTemplates, RequestSteps
    <3> QED
      BY <3>1, <3>2, SameIsAlike, EarlierIsAlike
  <2> QED
    BY <1>0, <1>1, <2>1, <2>2, <2>3, FilesRest DEF Fits
<1>3. ASSUME NEW w, making'[p] = w, \A q \in Makers \ {p} : making'[q] = making[q],
             w.at \notin {"write", "print"}, w.at = "open" => w.source \in crowded \/ Fits(w.text, w)
      PROVE  FilesInv'
  <2>1. \A q \in Makers \ {p} : Alike(making[q], making'[q])
    BY <1>3, SameIsAlike
  <2> QED
    BY <1>0, <1>1, <1>3, <2>1, FilesRest
<1>4. CASE OpenTemplate(p)
  <2>1. making[p] \in ReportRequests
    BY <1>0, <1>4, RequestIs DEF OpenTemplate, RequestSteps
  <2>2. making'[p].at = "fill" /\ \A q \in Makers \ {p} : making'[q] = making[q]
    BY <1>0, <1>4, <2>1 DEF OpenTemplate, MakingTyped, ReportRequests
  <2> QED
    BY <1>3, <2>2
<1>5. CASE RenderHtml(p)
  <2>1. making[p] \in ReportRequests /\ making[p].at = "render"
    BY <1>0, <1>5, RequestIs DEF RenderHtml, RequestSteps
  <2>2. /\ making'[p].at = "open" /\ making'[p].text = FromTemplate(p)
        /\ making'[p].about = making[p].about /\ making'[p].early = making[p].early
        /\ \A q \in Makers \ {p} : making'[q] = making[q]
    BY <1>0, <1>5, <2>1 DEF RenderHtml, MakingTyped, ReportRequests
  <2>3. Fits(FromTemplate(p), making[p])
    <3>1. CASE FromTemplate(p) = making[p].about
      BY <3>1 DEF Fits
    <3>2. CASE FromTemplate(p) # making[p].about
      <4>1. tools.templates /\ TemplateOf(making[p].type) # "whole" /\ FromTemplate(p) = NoText
        BY <3>2 DEF FromTemplate
      <4>2. making[p].early
        <5>1. SUFFICES ASSUME ~making[p].early PROVE FALSE
          OBVIOUS
        <5>2. WholeForGood
          BY <1>0, <2>1, <4>1, <5>1 DEF TemplatesInv, TemplatesReady
        <5>3. making[p].type \in Templates /\ template[making[p].type] \in {"missing", "open", "whole"}
          BY <1>0, <2>1, RequestFields, ReportAssumption DEF Templates, TypeIds, ReportTyped, CountsTyped
        <5> QED
          BY <4>1, <5>2, <5>3 DEF WholeForGood, TemplateOf
      <4> QED
        BY <4>1, <4>2 DEF Fits
    <3> QED
      BY <3>1, <3>2
  <2> QED
    BY <1>3, <2>2, <2>3 DEF Fits
<1>6. CASE FillTemplate(p)
  <2>1. making[p] \in ReportRequests /\ making[p].at = "fill"
    BY <1>0, <1>6, RequestIs DEF FillTemplate, RequestSteps
  <2>2. /\ making'[p].at \in {"render", "open", "template"} /\ making'[p].text = making[p].text
        /\ making'[p].about = making[p].about
        /\ \A q \in Makers \ {p} : making'[q] = making[q]
    BY <1>0, <1>6, <2>1 DEF FillTemplate, MakingTyped, ReportRequests, FirstStep
  <2>3. making[p].text = making[p].about
    BY <1>0, <2>1 DEF AllPrepared, Prepared
  <2> QED
    BY <1>3, <2>2, <2>3 DEF Fits
<1>7. CASE PrintPdf(p)
  <2>1. making[p] \in ReportRequests /\ making[p].at = "print" /\ NameOf(p) \in DOMAIN reports
    BY <1>0, <1>7, RequestIs DEF PrintPdf, RequestSteps
  <2>2. making[p].ext = "html" /\ making[p].source = <<>>
    BY <1>0, <2>1 DEF AllPrepared, Prepared
  <2>3. /\ making'[p].at = "open" /\ making'[p].text = reports[NameOf(p)].text
        /\ making'[p].source = <<making[p].type, "html", making[p].second>>
        /\ making'[p].about = making[p].about /\ making'[p].early = making[p].early
        /\ \A q \in Makers \ {p} : making'[q] = making[q]
    BY <1>0, <1>7, <2>1 DEF PrintPdf, MakingTyped, ReportRequests
  <2>4. making'[p].source = NameOf(p) /\ NameOf(p) = KeyOf(making[p])
    BY <2>2, <2>3 DEF NameOf, FileName, KeyOf
  <2>5. making[p].source \notin crowded
    <3>1. crowded \subseteq Keys
      BY <1>0 DEF ReportTyped, CountsTyped
    <3>2. <<>> \notin Keys
      BY DEF Keys
    <3> QED
      BY <2>2, <3>1, <3>2
  <2>6. Fits(making[p].text, making[p])
    BY <1>0, <2>1, <2>5 DEF FilesInv, TextsFit
  <2>7. NameOf(p) \in crowded \/ reports[NameOf(p)].text = making[p].text
    BY <1>0, <2>1, <2>4 DEF FilesInv, PrintedIsThere, FilesWereOpened
  <2>8. making'[p].source \in crowded \/ Fits(making'[p].text, making'[p])
    BY <2>3, <2>4, <2>6, <2>7 DEF Fits
  <2> QED
    BY <1>3, <2>3, <2>8
<1>8. ASSUME NEW name \in DOMAIN reports, FindForDelete(p, name) PROVE FilesInv'
  <2>1. making'[p].at = "unlink" /\ \A q \in Makers \ {p} : making'[q] = making[q]
    BY <1>0, <1>8 DEF FindForDelete, MakingTyped
  <2> QED
    BY <1>3, <2>1
<1> QED
  BY <1>2, <1>4, <1>5, <1>6, <1>7, <1>8
\* Promises outlive a step that leaves the texts of their files alone.
LEMMA StoredStep ==
  ASSUME ReportInv, NEW p \in Makers,
         OpenReport(p) \/ WriteReport(p) \/ PrintFails(p) \/ Unlink(p) \/ Dies(p)
  PROVE  /\ \A q \in Makers \ {p} : making'[q] = making[q]
         /\ \A q \in Makers : q # p /\ AtFile(q)' => AtFile(q) /\ KeyOf(making'[q]) = KeyOf(making[q])
BY OneProcess DEF ReportInv, AtFile

LEMMA OpenStep == ASSUME ReportInv, NEW p \in Makers, OpenReport(p) PROVE FilesInv'
<1>0. /\ ReportTyped /\ MakingTyped /\ FilesTyped /\ CountsTyped
      /\ FilesWereOpened /\ UsersOpened /\ OneUser /\ NoLateWriter
      /\ WriterHolds /\ PrintedIsThere /\ TextsFit /\ PromisesHold
  BY DEF ReportInv, ReportTyped, FilesInv
<1>1. making[p] \in ReportRequests /\ making[p].at = "open"
  BY <1>0, RequestIs DEF OpenReport, RequestSteps
<1>2. \A q \in Makers \ {p} : making'[q] = making[q]
  BY StoredStep
<1>3. PICK k : k = <<making[p].type, making[p].ext, clock>>
  OBVIOUS
<1>4. /\ making'[p].at = "write" /\ KeyOf(making'[p]) = k
      /\ making'[p].text = making[p].text /\ making'[p].source = making[p].source
      /\ making'[p].about = making[p].about /\ making'[p].early = making[p].early
  BY <1>0, <1>1, <1>3 DEF OpenReport, MakingTyped, ReportRequests, KeyOf
<1>5. /\ reports' = [n \in DOMAIN reports \cup {k} |->
                       IF n = k THEN [text |-> NoText, open |-> Holders(k) \cup {p}] ELSE reports[n]]
      /\ opened' = opened \cup {k}
      /\ crowded' = IF k \in opened THEN crowded \cup {k} ELSE crowded
      /\ UNCHANGED <<promised, removed>>
  BY <1>3 DEF OpenReport, FileName
<1>6. /\ DOMAIN reports' = DOMAIN reports \cup {k} /\ p \in reports'[k].open
      /\ \A n \in DOMAIN reports \ {k} : reports'[n] = reports[n]
  BY <1>5
<1>7. crowded \subseteq crowded' /\ (k \in opened => k \in crowded')
  BY <1>5
<1>8. FilesWereOpened'
  BY <1>0, <1>5, <1>6, <1>7 DEF FilesWereOpened
<1>9. \A q \in Makers : AtFile(q)' => q = p \/ (AtFile(q) /\ KeyOf(making'[q]) = KeyOf(making[q]))
  BY <1>2 DEF AtFile
<1>10. UsersOpened'
  <2>1. \A q \in Makers : AtFile(q)' => KeyOf(making'[q]) \in opened'
    BY <1>0, <1>4, <1>5, <1>9 DEF UsersOpened
  <2>2. \A a \in promised' : a.key \in opened' /\ a.name = a.key
    BY <1>0, <1>5 DEF UsersOpened
  <2> QED
    BY <2>1, <2>2 DEF UsersOpened, KeyOf
<1>11. \A q \in Makers \ {p} : AtFile(q) /\ KeyOf(making[q]) = k => k \in crowded'
  BY <1>0, <1>7 DEF UsersOpened
<1>12. OneUser'
  <2>1. ASSUME NEW q \in Makers, NEW u \in Makers, q # u, AtFile(q)', AtFile(u)', KeyOf(making'[q]) = KeyOf(making'[u])
        PROVE  KeyOf(making'[q]) \in crowded'
    <3>1. CASE q # p /\ u # p
      BY <1>0, <1>7, <1>9, <2>1, <3>1 DEF OneUser
    <3>2. CASE q = p \/ u = p
      BY <1>4, <1>9, <1>11, <2>1, <3>2
    <3> QED
      BY <3>1, <3>2
  <2> QED
    BY <2>1 DEF OneUser, KeyOf
<1>13. NoLateWriter'
  <2>1. ASSUME NEW a \in promised, NEW q \in Makers, AtFile(q)', KeyOf(making'[q]) = a.key
        PROVE  a.key \in crowded'
    <3>1. CASE q # p
      BY <1>0, <1>7, <1>9, <2>1, <3>1 DEF NoLateWriter
    <3>2. CASE q = p
      BY <1>0, <1>4, <1>7, <2>1, <3>2 DEF UsersOpened
    <3> QED
      BY <3>1, <3>2
  <2> QED
    BY <1>5, <2>1 DEF NoLateWriter, KeyOf
<1>14. WriterHolds'
  <2>1. ASSUME NEW q \in Makers, making'[q].at = "write"
        PROVE  \/ KeyOf(making'[q]) \in crowded' \cup removed
               \/ KeyOf(making'[q]) \in DOMAIN reports' /\ q \in reports'[KeyOf(making'[q])].open
    <3>1. CASE q = p
      BY <1>4, <1>6, <3>1
    <3>2. CASE q # p
      <4>1. making'[q] = making[q] /\ AtFile(q)
        BY <1>2, <2>1, <3>2 DEF AtFile
      <4>2. CASE KeyOf(making[q]) = k
        BY <1>11, <3>2, <4>1, <4>2
      <4>3. CASE KeyOf(making[q]) # k
        BY <1>0, <1>6, <1>7, <2>1, <4>1, <4>3 DEF WriterHolds
      <4> QED
        BY <4>2, <4>3
    <3> QED
      BY <3>1, <3>2
  <2> QED
    BY <1>5, <2>1 DEF WriterHolds, KeyOf
<1>15. PrintedIsThere'
  <2>1. ASSUME NEW q \in Makers, making'[q].at = "print"
        PROVE  \/ KeyOf(making'[q]) \in crowded' \cup removed
               \/ KeyOf(making'[q]) \in DOMAIN reports' /\ reports'[KeyOf(making'[q])].text = making'[q].text
    <3>1. q # p /\ making'[q] = making[q] /\ AtFile(q)
      BY <1>2, <1>4, <2>1 DEF AtFile
    <3>2. CASE KeyOf(making[q]) = k
      BY <1>11, <3>1, <3>2
    <3>3. CASE KeyOf(making[q]) # k
      BY <1>0, <1>6, <1>7, <2>1, <3>1, <3>3 DEF PrintedIsThere
    <3> QED
      BY <3>2, <3>3
  <2> QED
    BY <1>5, <2>1 DEF PrintedIsThere, KeyOf
<1>16. TextsFit'
  <2>1. ASSUME NEW q \in Makers, making'[q].at \in {"open", "write", "print"}
        PROVE  making'[q].source \in crowded' \/ Fits(making'[q].text, making'[q])
    BY <1>0, <1>1, <1>2, <1>4, <1>7, <2>1 DEF TextsFit, Fits
  <2> QED
    BY <2>1 DEF TextsFit, Fits
<1>17. PromisesHold'
  <2>1. ASSUME NEW a \in promised
        PROVE  \/ a.name \in removed \/ a.key \in crowded' \/ a.source \in crowded'
               \/ a.name \in DOMAIN reports' /\ Fits(reports'[a.name].text, a)
    <3>1. a.name = a.key /\ a.key \in opened
      BY <1>0 DEF UsersOpened
    <3> QED
      BY <1>0, <1>6, <1>7, <3>1 DEF PromisesHold
  <2> QED
    BY <1>5, <2>1 DEF PromisesHold, Fits
<1> QED
  BY <1>8, <1>10, <1>12, <1>13, <1>14, <1>15, <1>16, <1>17 DEF FilesInv

LEMMA WriteStep == ASSUME ReportInv, NEW p \in Makers, WriteReport(p) PROVE FilesInv'
<1>0. /\ ReportTyped /\ MakingTyped /\ FilesTyped /\ CountsTyped
      /\ FilesWereOpened /\ UsersOpened /\ OneUser /\ NoLateWriter
      /\ WriterHolds /\ PrintedIsThere /\ TextsFit /\ PromisesHold
  BY DEF ReportInv, ReportTyped, FilesInv
<1>1. making[p] \in ReportRequests /\ making[p].at = "write" /\ AtFile(p)
  BY <1>0, RequestIs DEF WriteReport, RequestSteps, AtFile
<1>2. \A q \in Makers \ {p} : making'[q] = making[q]
  BY StoredStep
<1>3. PICK k : k = KeyOf(making[p]) /\ k = NameOf(p)
  BY DEF KeyOf, NameOf, FileName
<1>4. PICK a : a = ReportAnswer(p)
  OBVIOUS
<1>5. /\ a.name = k /\ a.key = k /\ a.about = making[p].about /\ a.source = making[p].source
      /\ a.early = making[p].early
  BY <1>3, <1>4 DEF ReportAnswer, KeyOf
<1>6. \/ /\ making'[p].at = "print" /\ KeyOf(making'[p]) = k /\ making'[p].text = making[p].text
         /\ making'[p].source = making[p].source /\ making'[p].about = making[p].about
         /\ making'[p].early = making[p].early
         /\ promised' = promised
      \/ making'[p].at = "idle" /\ promised' = promised \cup {a}
  BY <1>0, <1>1, <1>3, <1>4 DEF WriteReport, MakingTyped, ReportRequests, KeyOf, NotMaking
<1>7. UNCHANGED <<opened, crowded, removed>>
  BY DEF WriteReport
<1>8. /\ DOMAIN reports' = DOMAIN reports
      /\ \A n \in DOMAIN reports \ {k} : reports'[n] = reports[n]
      /\ k \in DOMAIN reports /\ p \in reports[k].open => reports'[k].text = making[p].text
  <2>1. CASE k \in DOMAIN reports /\ p \in reports[k].open
    <3>1. reports' = [reports EXCEPT ![k] = [text |-> making[p].text, open |-> reports[k].open \ {p}]]
      BY <1>3, <2>1 DEF WriteReport, Landed, Holders
    <3> QED
      BY <2>1, <3>1
  <2>2. CASE ~(k \in DOMAIN reports /\ p \in reports[k].open)
    <3>1. reports' = reports
      BY <1>3, <2>2 DEF WriteReport, Landed, Holders
    <3> QED
      BY <2>2, <3>1
  <2> QED
    BY <2>1, <2>2
<1>9. k \in crowded \cup removed \/ (k \in DOMAIN reports' /\ reports'[k].text = making[p].text)
  BY <1>0, <1>1, <1>3, <1>8 DEF WriterHolds
<1>10. FilesWereOpened'
  BY <1>0, <1>7, <1>8 DEF FilesWereOpened
<1>11. /\ \A q \in Makers : AtFile(q)' => AtFile(q) /\ KeyOf(making'[q]) = KeyOf(making[q])
       /\ \A q \in Makers \ {p} : AtFile(q) /\ KeyOf(making[q]) = k => k \in crowded
  BY <1>0, <1>1, <1>2, <1>3, <1>6 DEF AtFile, OneUser
<1>12. UsersOpened'
  <2>1. k \in opened
    BY <1>0, <1>1, <1>3 DEF UsersOpened
  <2>2. \A q \in Makers : AtFile(q)' => KeyOf(making'[q]) \in opened
    BY <1>0, <1>11 DEF UsersOpened
  <2>3. \A b \in promised' : b.key \in opened /\ b.name = b.key
    BY <1>0, <1>5, <1>6, <2>1 DEF UsersOpened
  <2> QED
    BY <1>7, <2>2, <2>3 DEF UsersOpened, KeyOf
<1>13. OneUser'
  <2>1. \A q, u \in Makers :
          q # u /\ AtFile(q)' /\ AtFile(u)' /\ KeyOf(making'[q]) = KeyOf(making'[u]) => KeyOf(making'[q]) \in crowded
    BY <1>0, <1>11 DEF OneUser
  <2> QED
    BY <1>7, <2>1 DEF OneUser, KeyOf
<1>14. NoLateWriter'
  <2>1. ASSUME NEW b \in promised', NEW q \in Makers, AtFile(q)', KeyOf(making'[q]) = b.key
        PROVE  b.key \in crowded
    <3>1. CASE b \in promised
      BY <1>0, <1>11, <2>1, <3>1 DEF NoLateWriter
    <3>2. CASE b \notin promised
      <4>1. b = a /\ making'[p].at = "idle"
        BY <1>6, <3>2
      <4>2. q # p
        BY <2>1, <4>1 DEF AtFile
      <4> QED
        BY <1>5, <1>11, <2>1, <4>1, <4>2
    <3> QED
      BY <3>1, <3>2
  <2> QED
    BY <1>7, <2>1 DEF NoLateWriter, KeyOf
<1>15. WriterHolds'
  <2>1. ASSUME NEW q \in Makers, making'[q].at = "write"
        PROVE  \/ KeyOf(making'[q]) \in crowded \cup removed
               \/ KeyOf(making'[q]) \in DOMAIN reports' /\ q \in reports'[KeyOf(making'[q])].open
    <3>1. q # p /\ making'[q] = making[q] /\ AtFile(q)
      BY <1>2, <1>6, <2>1 DEF AtFile
    <3>2. CASE KeyOf(making[q]) = k
      BY <1>11, <3>1, <3>2
    <3>3. CASE KeyOf(making[q]) # k
      BY <1>0, <1>8, <2>1, <3>1, <3>3 DEF WriterHolds
    <3> QED
      BY <3>2, <3>3
  <2> QED
    BY <1>7, <2>1 DEF WriterHolds, KeyOf
<1>16. PrintedIsThere'
  <2>1. ASSUME NEW q \in Makers, making'[q].at = "print"
        PROVE  \/ KeyOf(making'[q]) \in crowded \cup removed
               \/ KeyOf(making'[q]) \in DOMAIN reports' /\ reports'[KeyOf(making'[q])].text = making'[q].text
    <3>1. CASE q = p
      BY <1>6, <1>9, <2>1, <3>1
    <3>2. CASE q # p
      <4>1. making'[q] = making[q] /\ AtFile(q)
        BY <1>2, <2>1, <3>2 DEF AtFile
      <4>2. CASE KeyOf(making[q]) = k
        BY <1>11, <3>2, <4>1, <4>2
      <4>3. CASE KeyOf(making[q]) # k
        BY <1>0, <1>8, <2>1, <4>1, <4>3 DEF PrintedIsThere
      <4> QED
        BY <4>2, <4>3
    <3> QED
      BY <3>1, <3>2
  <2> QED
    BY <1>7, <2>1 DEF PrintedIsThere, KeyOf
<1>17. making[p].source \in crowded \/ Fits(making[p].text, making[p])
  BY <1>0, <1>1 DEF TextsFit
<1>18. TextsFit'
  <2>1. ASSUME NEW q \in Makers, making'[q].at \in {"open", "write", "print"}
        PROVE  making'[q].source \in crowded \/ Fits(making'[q].text, making'[q])
    <3>1. CASE q = p
      BY <1>6, <1>17, <2>1, <3>1 DEF Fits
    <3>2. CASE q # p
      BY <1>0, <1>2, <2>1, <3>2 DEF TextsFit
    <3> QED
      BY <3>1, <3>2
  <2> QED
    BY <1>7, <2>1 DEF TextsFit, Fits
<1>19. PromisesHold'
  <2>1. ASSUME NEW b \in promised'
        PROVE  \/ b.name \in removed \/ b.key \in crowded \/ b.source \in crowded
               \/ b.name \in DOMAIN reports' /\ Fits(reports'[b.name].text, b)
    <3>1. CASE b \in promised
      <4>1. b.name = b.key /\ (b.key = k => b.key \in crowded)
        BY <1>0, <1>1, <1>3, <3>1 DEF UsersOpened, NoLateWriter
      <4> QED
        BY <1>0, <1>8, <3>1, <4>1 DEF PromisesHold
    <3>2. CASE b \notin promised
      <4>1. b = a
        BY <1>6, <3>2
      <4> QED
        BY <1>5, <1>9, <1>17, <4>1 DEF Fits
    <3> QED
      BY <3>1, <3>2
  <2> QED
    BY <1>7, <2>1 DEF PromisesHold, Fits
<1> QED
  BY <1>10, <1>12, <1>13, <1>14, <1>15, <1>16, <1>18, <1>19 DEF FilesInv

LEMMA PrintFailsStep == ASSUME ReportInv, NEW p \in Makers, PrintFails(p) PROVE FilesInv'
<1>0. /\ ReportTyped /\ MakingTyped /\ FilesTyped /\ CountsTyped
      /\ FilesWereOpened /\ UsersOpened /\ OneUser /\ NoLateWriter
      /\ WriterHolds /\ PrintedIsThere /\ TextsFit /\ PromisesHold
  BY DEF ReportInv, ReportTyped, FilesInv
<1>1. making[p].at = "print" /\ AtFile(p)
  BY DEF PrintFails, AtFile
<1>2. PICK k : k = KeyOf(making[p]) /\ k = NameOf(p)
  BY DEF KeyOf, NameOf, FileName
<1>3. PICK a : a = ReportAnswer(p)
  OBVIOUS
<1>4. /\ a.name = k /\ a.key = k /\ a.about = making[p].about /\ a.source = making[p].source
      /\ a.early = making[p].early
  BY <1>2, <1>3 DEF ReportAnswer, KeyOf
<1>5. making'[p].at = "idle" /\ promised' = promised \cup {a}
  BY <1>0, <1>3 DEF PrintFails, MakingTyped, NotMaking
<1>6. UNCHANGED <<reports, opened, crowded, removed>>
  BY DEF PrintFails
<1>7. \A q \in Makers : making'[q].at \in {"open", "write", "print"} => q # p /\ making'[q] = making[q]
  BY <1>5, StoredStep
<1>8. FilesWereOpened'
  BY <1>0, <1>6 DEF FilesWereOpened
<1>9. UsersOpened'
  <2>1. \A q \in Makers : AtFile(q)' => KeyOf(making'[q]) \in opened
    BY <1>0, <1>7 DEF UsersOpened, AtFile
  <2>2. \A b \in promised' : b.key \in opened /\ b.name = b.key
    BY <1>0, <1>1, <1>2, <1>4, <1>5 DEF UsersOpened
  <2> QED
    BY <1>6, <2>1, <2>2 DEF UsersOpened, KeyOf
<1>10. OneUser'
  <2>1. \A q, u \in Makers :
          q # u /\ AtFile(q)' /\ AtFile(u)' /\ KeyOf(making'[q]) = KeyOf(making'[u]) => KeyOf(making'[q]) \in crowded
    BY <1>0, <1>7 DEF OneUser, AtFile
  <2> QED
    BY <1>6, <2>1 DEF OneUser, KeyOf
<1>11. NoLateWriter'
  <2>1. ASSUME NEW b \in promised', NEW q \in Makers, AtFile(q)', KeyOf(making'[q]) = b.key
        PROVE  b.key \in crowded
    <3>1. q # p /\ making'[q] = making[q] /\ AtFile(q)
      BY <1>7, <2>1 DEF AtFile
    <3>2. CASE b \in promised
      BY <1>0, <2>1, <3>1, <3>2 DEF NoLateWriter
    <3>3. CASE b = a
      BY <1>0, <1>1, <1>2, <1>4, <2>1, <3>1, <3>3 DEF OneUser
    <3> QED
      BY <1>5, <3>2, <3>3
  <2> QED
    BY <1>6, <2>1 DEF NoLateWriter, KeyOf
<1>12. WriterHolds'
  <2>1. ASSUME NEW q \in Makers, making'[q].at = "write"
        PROVE  \/ KeyOf(making'[q]) \in crowded \cup removed
               \/ KeyOf(making'[q]) \in DOMAIN reports /\ q \in reports[KeyOf(making'[q])].open
    BY <1>0, <1>7, <2>1 DEF WriterHolds
  <2> QED
    BY <1>6, <2>1 DEF WriterHolds, KeyOf
<1>13. PrintedIsThere'
  <2>1. ASSUME NEW q \in Makers, making'[q].at = "print"
        PROVE  \/ KeyOf(making'[q]) \in crowded \cup removed
               \/ KeyOf(making'[q]) \in DOMAIN reports /\ reports[KeyOf(making'[q])].text = making'[q].text
    BY <1>0, <1>7, <2>1 DEF PrintedIsThere
  <2> QED
    BY <1>6, <2>1 DEF PrintedIsThere, KeyOf
<1>14. TextsFit'
  <2>1. ASSUME NEW q \in Makers, making'[q].at \in {"open", "write", "print"}
        PROVE  making'[q].source \in crowded \/ Fits(making'[q].text, making'[q])
    BY <1>0, <1>7, <2>1 DEF TextsFit
  <2> QED
    BY <1>6, <2>1 DEF TextsFit, Fits
<1>15. PromisesHold'
  <2>1. making[p].source \in crowded \/ Fits(making[p].text, making[p])
    BY <1>0, <1>1 DEF TextsFit
  <2>2. k \in crowded \cup removed \/ (k \in DOMAIN reports /\ reports[k].text = making[p].text)
    BY <1>0, <1>1, <1>2 DEF PrintedIsThere
  <2>3. \A b \in promised' :
           \/ b.name \in removed \/ b.key \in crowded \/ b.source \in crowded
           \/ b.name \in DOMAIN reports /\ Fits(reports[b.name].text, b)
    BY <1>0, <1>4, <1>5, <2>1, <2>2 DEF PromisesHold, Fits
  <2> QED
    BY <1>6, <2>3 DEF PromisesHold, Fits
<1> QED
  BY <1>8, <1>9, <1>10, <1>11, <1>12, <1>13, <1>14, <1>15 DEF FilesInv

\* A process that deletes or dies leaves the texts of the files that stay.
LEMMA LeavingSteps == ASSUME ReportInv, NEW p \in Makers, Unlink(p) \/ Dies(p) PROVE FilesInv'
<1>0. /\ ReportTyped /\ MakingTyped /\ FilesTyped /\ CountsTyped
      /\ FilesWereOpened /\ UsersOpened /\ OneUser /\ NoLateWriter
      /\ WriterHolds /\ PrintedIsThere /\ TextsFit /\ PromisesHold
  BY DEF ReportInv, ReportTyped, FilesInv
<1>1. making'[p].at = "idle" /\ UNCHANGED <<promised, opened, crowded>>
  BY <1>0 DEF Unlink, Dies, MakingTyped, NotMaking
<1>2. \A q \in Makers : making'[q].at \in {"open", "write", "print"} => q # p /\ making'[q] = making[q]
  BY <1>1, StoredStep
<1>3. /\ removed \subseteq removed' /\ removed' \subseteq removed \cup DOMAIN reports
      /\ DOMAIN reports' \subseteq DOMAIN reports /\ DOMAIN reports \ DOMAIN reports' \subseteq removed'
      /\ removed' \cap DOMAIN reports' \subseteq removed
      /\ \A n \in DOMAIN reports' :
            /\ reports'[n].text = reports[n].text
            /\ \A q \in Makers \ {p} : q \in reports[n].open => q \in reports'[n].open
  <2>1. CASE Dies(p)
    <3>1. UNCHANGED removed /\ DOMAIN reports' = DOMAIN reports
      BY <2>1 DEF Dies
    <3>2. ASSUME NEW n \in DOMAIN reports
          PROVE  /\ reports'[n].text = reports[n].text
                 /\ \A q \in Makers \ {p} : q \in reports[n].open => q \in reports'[n].open
      <4>1. PICK r \in [text : ReportTexts, open : SUBSET Makers] : r = reports[n]
        BY <1>0 DEF FilesTyped
      <4>2. reports'[n] = [r EXCEPT !.open = r.open \ {p}]
        BY <2>1, <4>1 DEF Dies
      <4> QED
        BY <4>1, <4>2
    <3> QED
      BY <3>1, <3>2
  <2>2. CASE Unlink(p) /\ making[p].name \in DOMAIN reports
    <3>1. PICK name : name = making[p].name
      OBVIOUS
    <3>2. /\ reports' = [n \in DOMAIN reports \ {name} |-> reports[n]]
          /\ removed' = removed \cup {name} /\ name \in DOMAIN reports
      BY <2>2, <3>1 DEF Unlink
    <3> QED
      BY <3>2
  <2>3. CASE Unlink(p) /\ making[p].name \notin DOMAIN reports
    BY <2>3 DEF Unlink
  <2> QED
    BY <2>1, <2>2, <2>3
<1>4. FilesWereOpened'
  BY <1>0, <1>1, <1>3 DEF FilesWereOpened
<1>5. UsersOpened'
  <2>1. \A q \in Makers : AtFile(q)' => KeyOf(making'[q]) \in opened
    BY <1>0, <1>2 DEF UsersOpened, AtFile
  <2> QED
    BY <1>0, <1>1, <2>1 DEF UsersOpened, KeyOf
<1>6. OneUser'
  <2>1. \A q, u \in Makers :
          q # u /\ AtFile(q)' /\ AtFile(u)' /\ KeyOf(making'[q]) = KeyOf(making'[u]) => KeyOf(making'[q]) \in crowded
    BY <1>0, <1>2 DEF OneUser, AtFile
  <2> QED
    BY <1>1, <2>1 DEF OneUser, KeyOf
<1>7. NoLateWriter'
  <2>1. \A b \in promised, q \in Makers : AtFile(q)' /\ KeyOf(making'[q]) = b.key => b.key \in crowded
    BY <1>0, <1>2 DEF NoLateWriter, AtFile
  <2> QED
    BY <1>1, <2>1 DEF NoLateWriter, KeyOf
<1>8. WriterHolds'
  <2>1. ASSUME NEW q \in Makers, making'[q].at = "write"
        PROVE  \/ KeyOf(making'[q]) \in crowded \cup removed'
               \/ KeyOf(making'[q]) \in DOMAIN reports' /\ q \in reports'[KeyOf(making'[q])].open
    BY <1>0, <1>2, <1>3, <2>1 DEF WriterHolds
  <2> QED
    BY <1>1, <2>1 DEF WriterHolds, KeyOf
<1>9. PrintedIsThere'
  <2>1. ASSUME NEW q \in Makers, making'[q].at = "print"
        PROVE  \/ KeyOf(making'[q]) \in crowded \cup removed'
               \/ KeyOf(making'[q]) \in DOMAIN reports' /\ reports'[KeyOf(making'[q])].text = making'[q].text
    BY <1>0, <1>2, <1>3, <2>1 DEF PrintedIsThere
  <2> QED
    BY <1>1, <2>1 DEF PrintedIsThere, KeyOf
<1>10. TextsFit'
  <2>1. ASSUME NEW q \in Makers, making'[q].at \in {"open", "write", "print"}
        PROVE  making'[q].source \in crowded \/ Fits(making'[q].text, making'[q])
    BY <1>0, <1>2, <2>1 DEF TextsFit
  <2> QED
    BY <1>1, <2>1 DEF TextsFit, Fits
<1>11. PromisesHold'
  <2>1. \A b \in promised :
           \/ b.name \in removed' \/ b.key \in crowded \/ b.source \in crowded
           \/ b.name \in DOMAIN reports' /\ Fits(reports'[b.name].text, b)
    BY <1>0, <1>3 DEF PromisesHold, Fits
  <2> QED
    BY <1>1, <2>1 DEF PromisesHold, Fits
<1> QED
  BY <1>4, <1>5, <1>6, <1>7, <1>8, <1>9, <1>10, <1>11 DEF FilesInv

LEMMA FilesStep == ReportInv /\ [ReportNext]_reportVars => FilesInv'
<1> SUFFICES ASSUME ReportInv, [ReportNext]_reportVars PROVE FilesInv'
  OBVIOUS
<1>1. CASE SecondPasses \/ UNCHANGED reportVars
  <2>1. UNCHANGED <<reports, making, promised, opened, crowded, removed>>
    BY <1>1 DEF SecondPasses, reportVars
  <2> QED
    BY <2>1 DEF ReportInv, FilesInv, FilesWereOpened, UsersOpened, OneUser, NoLateWriter, WriterHolds,
                PrintedIsThere, TextsFit, PromisesHold, AtFile, Fits
<1> QED
  BY <1>1, RestingSteps, OpenStep, WriteStep, PrintFailsStep, LeavingSteps DEF ReportNext

LEMMA ReportAlways == ReportSpec => []ReportInv
<1>1. ReportInv /\ [ReportNext]_reportVars => ReportInv'
  BY ReportTypesStep, PreparedStep, TemplatesStep, FilesStep DEF ReportInv
<1> QED
  BY ReportInitInv, <1>1, PTL DEF ReportSpec

\* The types of the reports of analytics_reports_system.py:377-1245.
THEOREM ReportsTyped == ReportSpec => []ReportTypeOK
<1>1. ReportInv => ReportTypeOK
  BY DEF ReportInv, ReportTyped, MakingTyped, FilesTyped, CountsTyped, ReportTypeOK
<1> QED
  BY ReportAlways, <1>1, PTL

\* However many processes make, print, delete and download reports, and wherever they die, the
\* file an answer names is about what was asked, but for the cases ReportsHold names
\* (analytics_reports_system.py:377-524, :682-775, :1208-1245).
THEOREM ReportsAlwaysHold == ReportSpec => []ReportsHold
<1>1. ReportInv => ReportsHold
  BY DEF ReportInv, FilesInv, PromisesHold, ReportsHold, Downloaded, Fits
<1> QED
  BY ReportAlways, <1>1, PTL

-----------------------------------------------------------------------------
(* SearchEngine: what is wrong with an answer has a cause                   *)

\* A hit, and hits that come of others: the same documents with the same papers.
HitShape == [id : DocIds, paper : Papers, score : Nat]
ComesOf(more, hits) ==
    /\ \A h \in more : \E g \in hits : g.id = h.id /\ g.paper = h.paper
    /\ \A g \in hits : \E h \in more : h.id = g.id

\* What a function gives of a finite set is finite, and no more.
LEMMA ImageIsFinite ==
    ASSUME NEW S, IsFiniteSet(S), NEW T, NEW g \in [S -> T], \A t \in T : \E s \in S : g[s] = t
    PROVE  IsFiniteSet(T) /\ Cardinality(T) <= Cardinality(S)
<1>1. g \in Surjection(S, T)
    BY DEF Surjection
<1> QED BY <1>1, FS_Surjection

\* The best n of some hits are n of them, or all.
LEMMA BestAre ==
    ASSUME NEW S, IsFiniteSet(S), NEW n \in Nat, NEW best \in BestOf(S, n)
    PROVE  /\ best \subseteq S /\ IsFiniteSet(best)
           /\ Cardinality(best) \in Nat /\ Cardinality(best) <= n
           /\ best = S \/ Cardinality(best) = n
           /\ Cardinality(S) <= n => best = S
<1>1. best \in SUBSET S /\ Cardinality(best) = (IF n < Cardinality(S) THEN n ELSE Cardinality(S))
    BY DEF BestOf
<1>2. Cardinality(S) \in Nat
    BY FS_CardinalityType
<1>3. IsFiniteSet(best) /\ (Cardinality(S) = Cardinality(best) => S = best)
    BY <1>1, FS_Subset
<1> QED BY <1>1, <1>2, <1>3

\* A place in the ranking changes the score only.
LEMMA RescoredIs ==
    ASSUME NEW h \in HitShape, NEW k \in Nat \ {0}
    PROVE  Rescored(h, k) \in HitShape /\ Rescored(h, k).id = h.id /\ Rescored(h, k).paper = h.paper
<1> DEFINE points == IF k < 21 THEN 1050 - 50 * k ELSE 0
<1>1. points \in Nat
    OBVIOUS
<1>2. Rescored(h, k) = [h EXCEPT !.score = points]
    BY DEF Rescored
<1> HIDE DEF points
<1> QED BY <1>1, <1>2 DEF HitShape

LEMMA RankedAre ==
    ASSUME NEW hits \in SUBSET HitShape, IsFiniteSet(hits), NEW r \in Ranking(hits)
    PROVE  /\ r.first \in SUBSET HitShape /\ IsFiniteSet(r.first)
           /\ r.rest \in SUBSET HitShape /\ IsFiniteSet(r.rest)
           /\ ComesOf(r.first \cup r.rest, hits)
<1>0. PICK some \in SUBSET hits : \E order \in SetToSeqs(some) :
         r = [first |-> {Rescored(order[k], k) : k \in DOMAIN order}, rest |-> hits \ {order[k] : k \in DOMAIN order}]
    BY DEF Ranking
<1>1. PICK order \in SetToSeqs(some) :
         r = [first |-> {Rescored(order[k], k) : k \in DOMAIN order}, rest |-> hits \ {order[k] : k \in DOMAIN order}]
    BY <1>0
<1> DEFINE places == 1 .. Cardinality(some)
<1>2. order \in [places -> some]
    BY DEF SetToSeqs
<1>3. IsFiniteSet(some) /\ Cardinality(some) \in Nat
    BY FS_Subset, FS_CardinalityType
<1>4. IsFiniteSet(places)
    BY <1>3, 1 \in Int, Cardinality(some) \in Int, FS_Interval, Zenon
<1>5. \A k \in places : k \in Nat \ {0} /\ order[k] \in HitShape
    BY <1>2, <1>3
<1> HIDE DEF places
<1>6. DOMAIN order = places
    BY <1>2
<1>7. r.first = {Rescored(order[k], k) : k \in places} /\ r.rest = hits \ {order[k] : k \in places}
    BY <1>1, <1>6
<1>8. \A k \in places : /\ Rescored(order[k], k) \in HitShape
                        /\ Rescored(order[k], k).id = order[k].id /\ Rescored(order[k], k).paper = order[k].paper
    BY <1>5, RescoredIs
<1>9. r.first \in SUBSET HitShape
    BY <1>7, <1>8
<1>10. IsFiniteSet(r.first)
  <2> DEFINE g == [k \in places |-> Rescored(order[k], k)]
  <2>1. g \in [places -> r.first]
      BY <1>7
  <2>2. \A t \in r.first : \E s \in places : g[s] = t
      BY <1>7
  <2> HIDE DEF g
  <2> QED BY <2>1, <2>2, <1>4, ImageIsFinite
<1>11. r.rest \in SUBSET HitShape /\ IsFiniteSet(r.rest)
    BY <1>7, FS_Subset
<1>12. ASSUME NEW h \in r.first \cup r.rest
       PROVE  \E g \in hits : g.id = h.id /\ g.paper = h.paper
  <2>1. CASE h \in r.rest
      BY <2>1, <1>7
  <2>2. CASE h \in r.first
    <3>1. PICK k \in places : h = Rescored(order[k], k)
        BY <2>2, <1>7
    <3> QED BY <3>1, <1>8, <1>2
  <2> QED BY <2>1, <2>2
<1>13. ASSUME NEW g \in hits
       PROVE  \E h \in r.first \cup r.rest : h.id = g.id
  <2>1. CASE g \in r.rest
      BY <2>1
  <2>2. CASE g \notin r.rest
    <3>1. PICK k \in places : g = order[k]
        BY <2>2, <1>7
    <3>2. Rescored(order[k], k) \in r.first
        BY <1>7
    <3> QED BY <3>1, <3>2, <1>8
  <2> QED BY <2>1, <2>2
<1> QED BY <1>9, <1>10, <1>11, <1>12, <1>13 DEF ComesOf

LEMMA RankingsAre ==
    ASSUME NEW q, NEW hits \in SUBSET HitShape, IsFiniteSet(hits), NEW r \in Rankings(q, hits)
    PROVE  /\ r.first \in SUBSET HitShape /\ IsFiniteSet(r.first)
           /\ r.rest \in SUBSET HitShape /\ IsFiniteSet(r.rest)
           /\ ComesOf(r.first \cup r.rest, hits)
<1>1. CASE r \in Ranking(hits)
    BY <1>1, RankedAre
<1>2. CASE r = [first |-> {}, rest |-> hits]
  <2>1. r.first = {} /\ r.rest = hits
      BY <1>2
  <2> QED BY <2>1, FS_EmptySet DEF ComesOf
<1>3. ASSUME NEW s \in Ranking(hits), r \in Ranking(s.first \cup s.rest)
      PROVE  /\ r.first \in SUBSET HitShape /\ IsFiniteSet(r.first)
             /\ r.rest \in SUBSET HitShape /\ IsFiniteSet(r.rest)
             /\ ComesOf(r.first \cup r.rest, hits)
  <2> DEFINE once == s.first \cup s.rest
  <2>1. s.first \in SUBSET HitShape /\ IsFiniteSet(s.first) /\ s.rest \in SUBSET HitShape /\ IsFiniteSet(s.rest)
      BY RankedAre
  <2>2. ComesOf(once, hits)
      BY RankedAre
  <2>3. once \in SUBSET HitShape /\ IsFiniteSet(once)
      BY <2>1, FS_Union
  <2>4. r \in Ranking(once)
      BY <1>3
  <2> HIDE DEF once
  <2>5. /\ r.first \in SUBSET HitShape /\ IsFiniteSet(r.first) /\ r.rest \in SUBSET HitShape /\ IsFiniteSet(r.rest)
        /\ ComesOf(r.first \cup r.rest, once)
      BY <2>3, <2>4, RankedAre
  <2>6. ComesOf(r.first \cup r.rest, hits)
      BY <2>2, <2>5 DEF ComesOf
  <2> QED BY <2>5, <2>6
<1>4. r \in Ranking(hits) \/ r = [first |-> {}, rest |-> hits] \/ \E s \in Ranking(hits) : r \in Ranking(s.first \cup s.rest)
  <2>1. CASE libraries.client /\ q.mode = "neural" /\ q.rerank
    <3>1. r \in UNION {Ranking(s.first \cup s.rest) : s \in Ranking(hits)}
        BY <2>1 DEF Rankings
    <3> QED BY <3>1
  <2>2. CASE ~(libraries.client /\ q.mode = "neural" /\ q.rerank) /\ libraries.client /\ (q.mode = "neural" <=> ~q.rerank)
      BY <2>2 DEF Rankings
  <2>3. CASE /\ ~(libraries.client /\ q.mode = "neural" /\ q.rerank)
             /\ ~(libraries.client /\ (q.mode = "neural" <=> ~q.rerank))
      BY <2>3 DEF Rankings
  <2> QED BY <2>1, <2>2, <2>3
<1> QED BY <1>1, <1>2, <1>3, <1>4

\* An answer has hits of the score asked for, and lacks one of those only when it is full.
LEMMA CutIs ==
    ASSUME NEW q \in Queries, q.most \in Nat,
           NEW r, r.first \in SUBSET HitShape, IsFiniteSet(r.first), r.rest \in SUBSET HitShape, IsFiniteSet(r.rest),
           NEW answer \in Cut(q, r)
    PROVE  /\ answer \subseteq Above(q, r.first) \cup Above(q, r.rest)
           /\ \A h \in (Above(q, r.first) \cup Above(q, r.rest)) \ answer : Cardinality(answer) = q.most
<1> DEFINE A == Above(q, r.first)
           B == Above(q, r.rest)
<1>1. A \subseteq r.first /\ B \subseteq r.rest
    BY DEF Above
<1>2. IsFiniteSet(A) /\ IsFiniteSet(B)
    BY <1>1, FS_Subset
<1>3. PICK first \in BestOf(A, q.most) : answer \in {first \cup rest : rest \in BestOf(B \ first, q.most - Cardinality(first))}
    BY DEF Cut
<1>4. PICK rest \in BestOf(B \ first, q.most - Cardinality(first)) : answer = first \cup rest
    BY <1>3
<1> HIDE DEF A, B
<1>5. /\ first \subseteq A /\ IsFiniteSet(first) /\ Cardinality(first) \in Nat /\ Cardinality(first) <= q.most
      /\ first = A \/ Cardinality(first) = q.most
    BY <1>2, BestAre
<1>6. IsFiniteSet(B \ first) /\ q.most - Cardinality(first) \in Nat
    BY <1>2, <1>5, FS_Subset
<1>7. /\ rest \subseteq B \ first /\ IsFiniteSet(rest) /\ Cardinality(rest) \in Nat
      /\ Cardinality(rest) <= q.most - Cardinality(first)
      /\ rest = B \ first \/ Cardinality(rest) = q.most - Cardinality(first)
    BY <1>6, BestAre
<1>8. Cardinality(answer) = Cardinality(first) + Cardinality(rest)
  <2>1. first \cap rest = {}
      BY <1>7
  <2>2. Cardinality(first \cup rest) = Cardinality(first) + Cardinality(rest) - Cardinality(first \cap rest)
      BY <1>5, <1>7, FS_Union
  <2>3. Cardinality(first \cap rest) = 0
      BY <2>1, FS_EmptySet
  <2> QED BY <2>2, <2>3, <1>4, <1>5, <1>7
<1>9. ASSUME NEW h \in (A \cup B) \ answer
      PROVE  Cardinality(answer) = q.most
  <2>1. CASE Cardinality(first) = q.most
      BY <2>1, <1>5, <1>7, <1>8
  <2>2. CASE first = A
    <3>1. h \in (B \ first) \ rest
        BY <2>2, <1>4, <1>9
    <3>2. Cardinality(rest) = q.most - Cardinality(first)
        BY <3>1, <1>7
    <3> QED BY <3>2, <1>5, <1>8
  <2> QED BY <2>1, <2>2, <1>5
<1>10. answer \subseteq A \cup B
    BY <1>4, <1>5, <1>7
<1> QED BY <1>9, <1>10 DEF A, B

\* An answer comes of the hits: no score is below the minimum, and a hit that had the score
\* is there, was pushed down, or the answer is full.
LEMMA AnswerIs ==
    ASSUME NEW q \in Queries, q.most \in Nat, NEW hits \in SUBSET HitShape, IsFiniteSet(hits),
           NEW ranking \in Rankings(q, hits), NEW answer \in Cut(q, ranking)
    PROVE  /\ \A h \in answer : h.score >= q.min /\ \E g \in hits : g.id = h.id /\ g.paper = h.paper
           /\ \A g \in hits : g.score >= q.min =>
                 \/ \E h \in answer : h.id = g.id
                 \/ g.id \in PushedDown(q, hits, ranking)
                 \/ Cardinality(answer) = q.most
<1> DEFINE all == ranking.first \cup ranking.rest
<1>1. /\ ranking.first \in SUBSET HitShape /\ IsFiniteSet(ranking.first)
      /\ ranking.rest \in SUBSET HitShape /\ IsFiniteSet(ranking.rest)
      /\ ComesOf(all, hits)
    BY RankingsAre
<1>2. /\ answer \subseteq Above(q, ranking.first) \cup Above(q, ranking.rest)
      /\ \A h \in (Above(q, ranking.first) \cup Above(q, ranking.rest)) \ answer : Cardinality(answer) = q.most
    BY <1>1, CutIs
<1>3. Above(q, ranking.first) \cup Above(q, ranking.rest) = Above(q, all)
    BY DEF Above
<1>4. PushedDown(q, hits, ranking) = {h.id : h \in Above(q, hits)} \cap {h.id : h \in all \ Above(q, all)}
    BY DEF PushedDown
<1> HIDE DEF all
<1>5. ASSUME NEW h \in answer
      PROVE  h.score >= q.min /\ \E g \in hits : g.id = h.id /\ g.paper = h.paper
    BY <1>1, <1>2, <1>3 DEF Above, ComesOf
<1>6. ASSUME NEW g \in hits, g.score >= q.min
      PROVE  \/ \E h \in answer : h.id = g.id
             \/ g.id \in PushedDown(q, hits, ranking)
             \/ Cardinality(answer) = q.most
  <2>1. PICK h \in all : h.id = g.id
      BY <1>1 DEF ComesOf
  <2>2. CASE h \notin Above(q, all)
    <3>1. g \in Above(q, hits)
        BY <1>6 DEF Above
    <3> QED BY <3>1, <2>1, <2>2, <1>4
  <2>3. CASE h \in Above(q, all)
      BY <2>1, <2>3, <1>2, <1>3
  <2> QED BY <2>2, <2>3
<1> QED BY <1>5, <1>6

-----------------------------------------------------------------------------
\* What the variables are made of.
IndexWait == [for : {"index"}, id : DocIds, paper : Papers]
SearchWait == [for : {"search"}, query : Queries]
KeptByMeaning ==
    /\ collections = [t \in Types |-> collections[t]]
    /\ \A t \in Types : /\ DOMAIN collections[t] \subseteq DocIds /\ IsFiniteSet(DOMAIN collections[t])
                        /\ \A i \in DOMAIN collections[t] : collections[t][i] \in Papers /\ collections[t][i].type = t
SearchTypes ==
    /\ libraries \in [semantic : BOOLEAN, client : BOOLEAN]
    /\ DOMAIN library \subseteq DocIds /\ IsFiniteSet(DOMAIN library)
    /\ \A i \in DOMAIN library : library[i] \in Papers
    /\ KeptByMeaning
    /\ waiting \in [Coroutines -> {NotWaiting} \cup IndexWait \cup SearchWait]
    /\ DOMAIN indexedAs \subseteq DOMAIN library
    /\ \A i \in DOMAIN indexedAs : indexedAs[i] \in Papers
    /\ crossedIds \subseteq DocIds
    /\ indexCalls \in 0 .. MaxIndexed /\ searches \in 0 .. MaxSearches /\ hitches \in 0 .. MaxHitches

\* Who waits has a model, and a text that waits to be indexed is in the library.
Indexing(c, i) == waiting[c].for = "index" /\ waiting[c].id = i
WaitsAreKept ==
    \A c \in Coroutines :
        /\ waiting[c].for = "index" => libraries.semantic /\ waiting[c].id \in DOMAIN library
        /\ waiting[c].for = "search" => libraries.semantic /\ waiting[c].query.mode # "keyword"

\* Of an id whose calls have not overlapped, the library has the paper that is being indexed,
\* and otherwise the one that was reported.
LibraryIsNewest ==
    \A i \in DocIds \ crossedIds :
        /\ \A c, d \in Coroutines : Indexing(c, i) /\ Indexing(d, i) => c = d
        /\ \A c \in Coroutines : Indexing(c, i) => library[i] = waiting[c].paper
        /\ i \in DOMAIN indexedAs /\ (\A c \in Coroutines : ~Indexing(c, i)) => library[i] = indexedAs[i]

SearchInv == SearchTypes /\ WaitsAreKept /\ LibraryIsNewest /\ AnswersHaveCauses

LEMMA WaitsAre ==
    ASSUME NEW w \in {NotWaiting} \cup IndexWait \cup SearchWait
    PROVE  /\ w.for = "nothing" \/ w.for = "index" \/ w.for = "search"
           /\ w.for = "index" => w.id \in DocIds /\ w.paper \in Papers
           /\ w.for = "search" => w.query \in Queries
           /\ w.for = "nothing" => w = NotWaiting
BY DEF NotWaiting, IndexWait, SearchWait

LEMMA SettledIsNewest ==
    ASSUME SearchTypes, LibraryIsNewest, NEW j \in Settled
    PROVE  /\ j \in DOMAIN library /\ library[j] = indexedAs[j]
           /\ j \in DOMAIN indexedAs /\ indexedAs[j] \in Papers /\ j \in DocIds
<1>1. j \in DOMAIN indexedAs /\ j \notin crossedIds
      /\ \A c \in Coroutines : ~Indexing(c, j)
    BY DEF Settled, Indexing
<1>2. j \in DocIds /\ j \in DOMAIN library /\ indexedAs[j] \in Papers
    BY <1>1 DEF SearchTypes
<1> QED BY <1>1, <1>2 DEF LibraryIsNewest

\* What an objection says.
Wanted(q, i) ==
    /\ q.words \subseteq indexedAs[i].words /\ OfType(q, indexedAs[i])
    /\ q.project \in {"any", indexedAs[i].project}
TooUnlike(q, i) == Likeness(q.words, indexedAs[i].words) < q.min
CrowdedOut(q, i, failing) ==
    indexedAs[i].type \in failing \/ Cardinality(DOMAIN collections[indexedAs[i].type]) > q.most

LEMMA ObjectionsAre ==
    ASSUME NEW q \in Queries, NEW hits, NEW cached \in BOOLEAN, NEW pushed, NEW failing,
           NEW f \in Objections(q, hits, cached, pushed, failing)
    PROVE  /\ f.mode = q.mode /\ (f.cached <=> cached)
           /\ \/ /\ f.what = "stale"
                 /\ \E i \in Settled : f.copy = Copy(i) /\ \E h \in hits : h.id = i /\ h.paper # indexedAs[i]
              \/ /\ f.what = "missing" /\ (f.full <=> Cardinality(hits) = q.most)
                 /\ \E i \in Settled : /\ Wanted(q, i) /\ \A h \in hits : h.id # i
                                       /\ f.copy = Copy(i) /\ (f.pushed <=> i \in pushed)
                                       /\ (f.unlike <=> TooUnlike(q, i)) /\ (f.crowded <=> CrowdedOut(q, i, failing))
              \/ f.what = "foreign" /\ \E h \in hits : q.project \notin {"any", h.paper.project}
              \/ f.what = "low" /\ \E h \in hits : h.score < q.min
<1> DEFINE object(what, copy) ==
               [what |-> what, mode |-> q.mode, cached |-> cached, copy |-> copy,
                full |-> Cardinality(hits) = q.most, pushed |-> FALSE, unlike |-> FALSE, crowded |-> FALSE]
           miss(i) == [object("missing", Copy(i)) EXCEPT !.pushed = i \in pushed,
                          !.unlike = Likeness(q.words, indexedAs[i].words) < q.min,
                          !.crowded = \/ indexedAs[i].type \in failing
                                      \/ Cardinality(DOMAIN collections[indexedAs[i].type]) > q.most]
<1>1. \A what, copy : /\ object(what, copy).what = what /\ object(what, copy).mode = q.mode
                      /\ object(what, copy).cached = cached /\ object(what, copy).copy = copy
    OBVIOUS
<1>2. \A i : /\ miss(i).what = "missing" /\ miss(i).mode = q.mode /\ miss(i).cached = cached
             /\ miss(i).copy = Copy(i) /\ miss(i).full = (Cardinality(hits) = q.most)
             /\ miss(i).pushed = (i \in pushed) /\ miss(i).unlike = TooUnlike(q, i)
             /\ miss(i).crowded = CrowdedOut(q, i, failing)
    BY Zenon DEF TooUnlike, CrowdedOut
<1>3. \/ \E i \in Settled : f = object("stale", Copy(i)) /\ \E h \in hits : h.id = i /\ h.paper # indexedAs[i]
      \/ \E i \in Settled : f = miss(i) /\ Wanted(q, i) /\ \A h \in hits : h.id # i
      \/ \E h \in hits : f = object("foreign", "any") /\ q.project \notin {"any", h.paper.project}
      \/ \E h \in hits : f = object("low", "any") /\ h.score < q.min
    BY DEF Objections, Wanted
<1> HIDE DEF object, miss
<1>4. ASSUME NEW i \in Settled, f = object("stale", Copy(i)), \E h \in hits : h.id = i /\ h.paper # indexedAs[i]
      PROVE  /\ f.mode = q.mode /\ (f.cached <=> cached) /\ f.what = "stale"
             /\ \E j \in Settled : f.copy = Copy(j) /\ \E h \in hits : h.id = j /\ h.paper # indexedAs[j]
  <2>1. f.what = "stale" /\ f.mode = q.mode /\ (f.cached <=> cached) /\ f.copy = Copy(i)
      BY <1>1, <1>4, Zenon
  <2> QED BY <2>1, <1>4, Zenon
<1>5. ASSUME NEW i \in Settled, f = miss(i), Wanted(q, i), \A h \in hits : h.id # i
      PROVE  /\ f.mode = q.mode /\ (f.cached <=> cached) /\ f.what = "missing"
             /\ (f.full <=> Cardinality(hits) = q.most)
             /\ \E j \in Settled : /\ Wanted(q, j) /\ \A h \in hits : h.id # j
                                   /\ f.copy = Copy(j) /\ (f.pushed <=> j \in pushed)
                                   /\ (f.unlike <=> TooUnlike(q, j)) /\ (f.crowded <=> CrowdedOut(q, j, failing))
  <2>1. /\ f.what = "missing" /\ f.mode = q.mode /\ f.copy = Copy(i)
        /\ (f.cached <=> cached) /\ (f.full <=> Cardinality(hits) = q.most)
      BY <1>2, <1>5, Zenon
  <2>2. /\ (f.pushed <=> i \in pushed) /\ (f.unlike <=> TooUnlike(q, i))
        /\ (f.crowded <=> CrowdedOut(q, i, failing))
      BY <1>2, <1>5, Zenon
  <2> QED BY <2>1, <2>2, <1>5, Zenon
<1>6. ASSUME NEW h \in hits, f = object("foreign", "any")
      PROVE  f.mode = q.mode /\ (f.cached <=> cached) /\ f.what = "foreign"
    BY <1>1, <1>6, Zenon
<1>7. ASSUME NEW h \in hits, f = object("low", "any")
      PROVE  f.mode = q.mode /\ (f.cached <=> cached) /\ f.what = "low"
    BY <1>1, <1>7, Zenon
<1> QED BY <1>3, <1>4, <1>5, <1>6, <1>7, Zenon

\* The hits of a search: what it has to bring so that the objections have causes.  A paper that
\* is not the newest is by meaning and of an old copy, a document that is wanted is there with the
\* score asked for or is hard to find by meaning, and the project is the one sought for but for words.
HitsAreFair(q, hits, failing) ==
    /\ hits \in SUBSET HitShape /\ IsFiniteSet(hits)
    /\ \A h \in hits : h.id \in Settled /\ h.paper # indexedAs[h.id] => q.mode # "keyword" /\ Copy(h.id) = "old"
    /\ \A i \in Settled : Wanted(q, i) =>
          \/ \E h \in hits : h.id = i /\ h.score >= q.min
          \/ /\ q.mode # "keyword" /\ libraries.semantic
             /\ Copy(i) # "newest" \/ TooUnlike(q, i) \/ CrowdedOut(q, i, failing)
OfTheProject(q, hits) == \A h \in hits : q.project \in {"any", h.paper.project}

LEMMA QueriesAre ==
    ASSUME NEW q \in Queries
    PROVE  /\ q.words # {} /\ IsFiniteSet(q.words) /\ q.min \in 0 .. 1000 /\ q.most \in Nat
           /\ q.mode \in {"semantic", "keyword", "neural", "hybrid"}
           /\ \A p \in Papers : Likeness(q.words, p.words) \in 0 .. 1000
BY SearchAssumption, SMTT(30)

LEMMA LikenessIs ==
    ASSUME NEW q \in Queries, NEW p \in Papers
    PROVE  Likeness(q.words, p.words) \in 0 .. 1000
BY SearchAssumption, SMTT(30)

LEMMA MostAre ==
    ASSUME NEW q \in Queries
    PROVE  q.most \in Nat
BY SearchAssumption

LEMMA HitchesAre == {MaxIndexed, MaxSearches, MaxHitches} \subseteq Nat
BY SearchAssumption, Zenon

\* What GiveBack adds to the findings has a cause.
LEMMA GivenHasCauses ==
    ASSUME SearchInv, NEW q \in Queries, NEW hits, NEW failing, NEW c \in Coroutines,
           GiveBack(c, q, hits, failing), HitsAreFair(q, hits, failing), UNCHANGED libraries,
           hitches' \in Nat, hitches' >= hitches,
           \/ OfTheProject(q, hits)
           \/ q.mode \in {"keyword", "hybrid"} \/ ~libraries.semantic \/ hitches' > 0
    PROVE  AnswersHaveCauses'
<1>1. PICK ranking \in Rankings(q, hits) : \E answer \in Cut(q, ranking) :
          findings' = findings \cup Objections(q, answer, FALSE, PushedDown(q, hits, ranking), failing)
    BY DEF GiveBack
<1>2. PICK answer \in Cut(q, ranking) :
          findings' = findings \cup Objections(q, answer, FALSE, PushedDown(q, hits, ranking), failing)
    BY <1>1
<1>3. /\ \A h \in answer : h.score >= q.min /\ \E g \in hits : g.id = h.id /\ g.paper = h.paper
      /\ \A g \in hits : g.score >= q.min =>
            \/ \E h \in answer : h.id = g.id
            \/ g.id \in PushedDown(q, hits, ranking)
            \/ Cardinality(answer) = q.most
    BY QueriesAre, AnswerIs DEF HitsAreFair
<1>4. ASSUME NEW f \in findings
      PROVE  HasCause(f)'
  <2>1. HasCause(f)
      BY DEF SearchInv, AnswersHaveCauses
  <2>2. hitches \in Nat
      BY HitchesAre DEF SearchInv, SearchTypes
  <2> QED BY <2>1, <2>2 DEF HasCause
<1>5. ASSUME NEW f \in Objections(q, answer, FALSE, PushedDown(q, hits, ranking), failing)
      PROVE  HasCause(f)'
  <2> DEFINE pushed == PushedDown(q, hits, ranking)
  <2> HIDE DEF pushed
  <2>1. f \in Objections(q, answer, FALSE, pushed, failing)
      BY DEF pushed
  <2>2. /\ f.mode = q.mode
        /\ \/ /\ f.what = "stale"
              /\ \E i \in Settled : f.copy = Copy(i) /\ \E h \in answer : h.id = i /\ h.paper # indexedAs[i]
           \/ /\ f.what = "missing" /\ (f.full <=> Cardinality(answer) = q.most)
              /\ \E i \in Settled : /\ Wanted(q, i) /\ \A h \in answer : h.id # i
                                    /\ f.copy = Copy(i) /\ (f.pushed <=> i \in pushed)
                                    /\ (f.unlike <=> TooUnlike(q, i)) /\ (f.crowded <=> CrowdedOut(q, i, failing))
           \/ f.what = "foreign" /\ \E h \in answer : q.project \notin {"any", h.paper.project}
           \/ f.what = "low" /\ \E h \in answer : h.score < q.min
      BY <2>1, ObjectionsAre
  <2>3. ASSUME f.what = "stale", NEW i \in Settled, f.copy = Copy(i), NEW h \in answer, h.id = i, h.paper # indexedAs[i]
        PROVE  HasCause(f)'
    <3>1. PICK g \in hits : g.id = i /\ g.paper # indexedAs[i]
        BY <2>3, <1>3
    <3>2. q.mode # "keyword" /\ f.copy = "old"
        BY <3>1, <2>3 DEF HitsAreFair
    <3> QED BY <3>2, <2>2, <2>3 DEF HasCause
  <2>4. ASSUME f.what = "missing", f.full <=> Cardinality(answer) = q.most,
               NEW i \in Settled, Wanted(q, i), \A h \in answer : h.id # i, f.copy = Copy(i), f.pushed <=> i \in pushed,
               f.unlike <=> TooUnlike(q, i), f.crowded <=> CrowdedOut(q, i, failing)
        PROVE  HasCause(f)'
    <3>1. \/ \E h \in hits : h.id = i /\ h.score >= q.min
          \/ /\ q.mode # "keyword" /\ libraries.semantic
             /\ Copy(i) # "newest" \/ TooUnlike(q, i) \/ CrowdedOut(q, i, failing)
        BY <2>4 DEF HitsAreFair
    <3>2. ASSUME NEW h \in hits, h.id = i, h.score >= q.min
          PROVE  f.full \/ f.pushed
        BY <3>2, <2>4, <1>3 DEF pushed
    <3> QED BY <3>1, <3>2, <2>2, <2>4 DEF HasCause
  <2>5. ASSUME f.what = "foreign", NEW h \in answer, q.project \notin {"any", h.paper.project}
        PROVE  HasCause(f)'
    <3>1. ~OfTheProject(q, hits)
        BY <2>5, <1>3 DEF OfTheProject
    <3> QED BY <3>1, <2>2, <2>5 DEF HasCause
  <2>6. ~\E h \in answer : h.score < q.min
    <3>1. \A h \in answer : h.score \in Nat
      <4>1. /\ ranking.first \in SUBSET HitShape /\ IsFiniteSet(ranking.first)
            /\ ranking.rest \in SUBSET HitShape /\ IsFiniteSet(ranking.rest)
          BY RankingsAre DEF HitsAreFair
      <4>2. answer \subseteq Above(q, ranking.first) \cup Above(q, ranking.rest)
          BY <4>1, CutIs, QueriesAre
      <4> QED BY <4>1, <4>2 DEF Above, HitShape
    <3>2. q.min \in Int
      <4>1. q.min \in 0 .. 1000 BY QueriesAre
      <4> QED BY <4>1
    <3>3. \A h \in answer : h.score >= q.min
        BY <1>3
    <3> QED BY <3>1, <3>2, <3>3
  <2> QED BY <2>2, <2>3, <2>4, <2>5, <2>6
<1> QED BY <1>2, <1>4, <1>5 DEF AnswersHaveCauses

-----------------------------------------------------------------------------
\* The words of a text that are all in the query give it the score 1.
LEMMA AllWords ==
    ASSUME NEW n \in Nat \ {0}
    PROVE  (1000 * n) \div n = 1000
OBVIOUS

LEMMA FewerWords ==
    ASSUME NEW n \in Nat \ {0}, NEW k \in Nat
    PROVE  (1000 * k) \div n \in Nat
OBVIOUS

LEMMA WordsAre ==
    ASSUME SearchTypes, NEW q \in Queries
    PROVE  /\ ByWord(q) \in SUBSET HitShape /\ IsFiniteSet(ByWord(q))
           /\ \A h \in ByWord(q) : h.id \in DOMAIN library /\ h.paper = library[h.id]
           /\ \A g, h \in ByWord(q) : g.id = h.id => g = h
           /\ \A i \in DOMAIN library : q.words \subseteq library[i].words /\ OfType(q, library[i]) =>
                 \E h \in ByWord(q) : h.id = i /\ h.score = 1000
<1> DEFINE found == {j \in DOMAIN library : OfType(q, library[j]) /\ q.words \cap library[j].words # {}}
           points(i) == (1000 * Cardinality(q.words \cap library[i].words)) \div Cardinality(q.words)
           hit(i) == [id |-> i, paper |-> library[i], score |-> points(i)]
<1>1. ByWord(q) = {hit(i) : i \in found}
    BY DEF ByWord
<1>2. /\ found \subseteq DOMAIN library /\ found \subseteq DocIds
      /\ \A i \in found : library[i] \in Papers
    BY DEF SearchTypes
<1>3. IsFiniteSet(found)
    BY <1>2, FS_Subset DEF SearchTypes
<1>4. q.words # {} /\ IsFiniteSet(q.words)
    BY QueriesAre
<1>5. Cardinality(q.words) \in Nat \ {0}
    BY <1>4, FS_CardinalityType, FS_EmptySet
<1>6. \A i : points(i) \in Nat
  <2> TAKE i
  <2>1. q.words \cap library[i].words \in SUBSET q.words
      OBVIOUS
  <2>2. IsFiniteSet(q.words \cap library[i].words)
      BY <2>1, <1>4, FS_Subset
  <2>3. Cardinality(q.words \cap library[i].words) \in Nat
      BY <2>2, FS_CardinalityType
  <2> QED BY <2>3, <1>5, FewerWords
<1>7. \A i : q.words \subseteq library[i].words => points(i) = 1000
  <2> SUFFICES ASSUME NEW i, q.words \subseteq library[i].words
               PROVE  points(i) = 1000
      OBVIOUS
  <2>1. q.words \cap library[i].words = q.words
      OBVIOUS
  <2>2. points(i) = (1000 * Cardinality(q.words)) \div Cardinality(q.words)
      BY <2>1, ZenonT(40)
  <2> QED BY <2>2, <1>5, AllWords
<1>8. \A i : q.words \subseteq library[i].words /\ OfType(q, library[i]) /\ i \in DOMAIN library => i \in found
    BY <1>4
<1> HIDE DEF found, points
<1>9. ByWord(q) \in SUBSET HitShape
    BY <1>1, <1>2, <1>6 DEF HitShape
<1>10. IsFiniteSet(ByWord(q))
  <2> DEFINE g == [i \in found |-> hit(i)]
  <2>1. g \in [found -> ByWord(q)] /\ \A t \in ByWord(q) : \E s \in found : g[s] = t
      BY <1>1
  <2> HIDE DEF g
  <2> QED BY <2>1, <1>3, ImageIsFinite
<1>11. \A h \in ByWord(q) : h.id \in DOMAIN library /\ h.paper = library[h.id]
    BY <1>1, <1>2
<1>12. \A g, h \in ByWord(q) : g.id = h.id => g = h
    BY <1>1
<1>13. ASSUME NEW i \in DOMAIN library, q.words \subseteq library[i].words, OfType(q, library[i])
       PROVE  \E h \in ByWord(q) : h.id = i /\ h.score = 1000
  <2>1. hit(i) \in ByWord(q)
      BY <1>1, <1>8, <1>13
  <2> QED BY <2>1, <1>7, <1>13
<1> QED BY <1>9, <1>10, <1>11, <1>12, <1>13

\* What the search by word finds is the newest.
LEMMA WordsAreFair ==
    ASSUME SearchTypes, LibraryIsNewest, NEW q \in Queries, NEW failing
    PROVE  HitsAreFair(q, ByWord(q), failing)
<1>1. /\ ByWord(q) \in SUBSET HitShape /\ IsFiniteSet(ByWord(q))
      /\ \A h \in ByWord(q) : h.id \in DOMAIN library /\ h.paper = library[h.id]
      /\ \A i \in DOMAIN library : q.words \subseteq library[i].words /\ OfType(q, library[i]) =>
            \E h \in ByWord(q) : h.id = i /\ h.score = 1000
    BY WordsAre
<1>2. q.min \in 0 .. 1000
    BY QueriesAre
<1>3. \A h \in ByWord(q) : h.id \in Settled => h.paper = indexedAs[h.id]
    BY <1>1, SettledIsNewest
<1>4. ASSUME NEW i \in Settled, Wanted(q, i)
      PROVE  \E h \in ByWord(q) : h.id = i /\ h.score >= q.min
  <2>1. i \in DOMAIN library /\ library[i] = indexedAs[i]
      BY SettledIsNewest
  <2>2. PICK h \in ByWord(q) : h.id = i /\ h.score = 1000
      BY <2>1, <1>1, <1>4 DEF Wanted
  <2> QED BY <2>2, <1>2, SMTT(30)
<1> QED BY <1>1, <1>3, <1>4 DEF HitsAreFair

-----------------------------------------------------------------------------
LEMMA CollectionsAre ==
    ASSUME SearchTypes, NEW q \in Queries, NEW t \in Types
    PROVE  /\ InCollection(q, t) \in SUBSET HitShape /\ IsFiniteSet(InCollection(q, t))
           /\ Cardinality(InCollection(q, t)) <= Cardinality(DOMAIN collections[t])
           /\ \A h \in InCollection(q, t) :
                 /\ h.id \in DOMAIN collections[t] /\ h.paper = collections[t][h.id]
                 /\ h.score = Likeness(q.words, h.paper.words) /\ h.score \in 0 .. 1000
                 /\ q.project \in {"any", h.paper.project}
           /\ \A i \in DOMAIN collections[t] : q.project \in {"any", collections[t][i].project} =>
                 \E h \in InCollection(q, t) : h.id = i
<1> DEFINE found == {j \in DOMAIN collections[t] : q.project \in {"any", collections[t][j].project}}
           hit(i) == [id |-> i, paper |-> collections[t][i], score |-> Likeness(q.words, collections[t][i].words)]
<1>1. InCollection(q, t) = {hit(i) : i \in found}
    BY DEF InCollection
<1>2. IsFiniteSet(DOMAIN collections[t]) /\ DOMAIN collections[t] \subseteq DocIds
      /\ \A i \in DOMAIN collections[t] : collections[t][i] \in Papers
    BY DEF SearchTypes, KeptByMeaning
<1>3. /\ found \in SUBSET DOMAIN collections[t]
      /\ \A i \in found : q.project \in {"any", collections[t][i].project}
      /\ \A i \in DOMAIN collections[t] : q.project \in {"any", collections[t][i].project} => i \in found
    OBVIOUS
<1> HIDE DEF found
<1>4. IsFiniteSet(found) /\ Cardinality(found) <= Cardinality(DOMAIN collections[t])
    BY <1>2, <1>3, FS_Subset
<1>5. \A i \in found : Likeness(q.words, collections[t][i].words) \in 0 .. 1000
  <2> SUFFICES ASSUME NEW i \in found PROVE Likeness(q.words, collections[t][i].words) \in 0 .. 1000
      OBVIOUS
  <2>1. PICK p \in Papers : p = collections[t][i]
      BY <1>2, <1>3
  <2> QED BY <2>1, LikenessIs
<1>6. InCollection(q, t) \in SUBSET HitShape
  <2> SUFFICES ASSUME NEW i \in found PROVE hit(i) \in HitShape
      BY <1>1
  <2>1. PICK p \in Papers : p = collections[t][i]
      BY <1>2, <1>3
  <2>2. PICK n : n = Likeness(q.words, p.words)
      OBVIOUS
  <2>3. n \in 0 .. 1000
      BY <2>2, LikenessIs
  <2>4. i \in DocIds /\ n \in Nat
      BY <1>2, <1>3, <2>3
  <2> QED BY <2>1, <2>2, <2>4 DEF HitShape
<1>7. IsFiniteSet(InCollection(q, t)) /\ Cardinality(InCollection(q, t)) <= Cardinality(found)
  <2> DEFINE g == [i \in found |-> hit(i)]
  <2>1. g \in [found -> InCollection(q, t)] /\ \A u \in InCollection(q, t) : \E s \in found : g[s] = u
      BY <1>1
  <2> HIDE DEF g
  <2> QED BY <2>1, <1>4, ImageIsFinite
<1>8. Cardinality(InCollection(q, t)) <= Cardinality(DOMAIN collections[t])
  <2>1. /\ Cardinality(InCollection(q, t)) \in Nat /\ Cardinality(found) \in Nat
        /\ Cardinality(DOMAIN collections[t]) \in Nat
      BY <1>2, <1>4, <1>7, FS_CardinalityType
  <2> QED BY <2>1, <1>4, <1>7
<1>9. \A h \in InCollection(q, t) :
          /\ h.id \in found /\ h.paper = collections[t][h.id] /\ h.score = Likeness(q.words, h.paper.words)
    BY <1>1
<1>10. \A i \in found : \E h \in InCollection(q, t) : h.id = i
  <2>1. \A i \in found : hit(i) \in InCollection(q, t) /\ hit(i).id = i
      BY <1>1
  <2> QED BY <2>1
<1>11. \A h \in InCollection(q, t) :
          /\ h.id \in DOMAIN collections[t] /\ h.paper = collections[t][h.id]
          /\ h.score = Likeness(q.words, h.paper.words) /\ h.score \in 0 .. 1000
          /\ q.project \in {"any", h.paper.project}
    BY <1>3, <1>5, <1>9, SMTT(30)
<1> QED BY <1>3, <1>6, <1>7, <1>8, <1>10, <1>11

\* What the search by meaning brings: of the collections, with the project that was asked for;
\* and a newest copy unless it is too unlike or crowded out.
LEMMA MeaningIs ==
    ASSUME SearchTypes, NEW q \in Queries, NEW failing, NEW sense \in ByMeaning(q, failing)
    PROVE  /\ sense \in SUBSET HitShape /\ IsFiniteSet(sense)
           /\ \A h \in sense : \E t \in Types :
                 /\ h.id \in DOMAIN collections[t] /\ h.paper = collections[t][h.id]
                 /\ h.score = Likeness(q.words, h.paper.words) /\ h.score \in 0 .. 1000
                 /\ q.project \in {"any", h.paper.project}
           /\ \A t \in Types : \A i \in DOMAIN collections[t] :
                 /\ t \notin failing /\ (q.types = {} \/ t \in q.types)
                 /\ q.project \in {"any", collections[t][i].project}
                 /\ Cardinality(DOMAIN collections[t]) <= q.most
                 => \E h \in sense : h.id = i
<1> DEFINE sought == (IF q.types = {} THEN Types ELSE q.types) \ failing
           every == UNION {InCollection(q, t) : t \in Types}
<1>1. PICK best \in [Types -> SUBSET every] :
         /\ sense = UNION {best[t] : t \in Types}
         /\ \A t \in Types : best[t] \in IF t \in sought THEN BestOf(InCollection(q, t), q.most) ELSE {{}}
    BY DEF ByMeaning
<1>2. \A t \in Types : t \notin failing /\ (q.types = {} \/ t \in q.types) => t \in sought
    OBVIOUS
<1> HIDE DEF sought, every
<1>3. \A t \in Types : best[t] \subseteq InCollection(q, t) /\ IsFiniteSet(best[t])
  <2> SUFFICES ASSUME NEW t \in Types
               PROVE  best[t] \subseteq InCollection(q, t) /\ IsFiniteSet(best[t])
      OBVIOUS
  <2>1. CASE t \in sought
    <3>1. best[t] \in BestOf(InCollection(q, t), q.most)
        BY <2>1, <1>1
    <3>2. IsFiniteSet(InCollection(q, t)) /\ q.most \in Nat
        BY CollectionsAre, QueriesAre
    <3> QED BY <3>1, <3>2, BestAre
  <2>2. CASE t \notin sought
    <3>1. best[t] = {}
        BY <2>2, <1>1
    <3> QED BY <3>1, FS_EmptySet
  <2> QED BY <2>1, <2>2
<1>4. ASSUME NEW h \in sense
      PROVE  \E t \in Types : h \in InCollection(q, t)
    BY <1>1, <1>3
<1>5. sense \in SUBSET HitShape
    BY <1>4, CollectionsAre
<1>6. IsFiniteSet(sense)
  <2>1. IsFiniteSet(Types)
      BY SearchAssumption DEF SearchAssumption, Types
  <2> DEFINE some == {best[t] : t \in Types}
  <2>2. best \in [Types -> some] /\ \A u \in some : \E t \in Types : best[t] = u
      BY <1>1
  <2>3. \A u \in some : IsFiniteSet(u)
      BY <1>3
  <2>4. sense = UNION some
      BY <1>1
  <2> HIDE DEF some
  <2>5. IsFiniteSet(some)
      BY <2>1, <2>2, ImageIsFinite
  <2> QED BY <2>3, <2>4, <2>5, FS_UNION
<1>7. ASSUME NEW h \in sense
      PROVE  \E t \in Types :
                 /\ h.id \in DOMAIN collections[t] /\ h.paper = collections[t][h.id]
                 /\ h.score = Likeness(q.words, h.paper.words) /\ h.score \in 0 .. 1000
                 /\ q.project \in {"any", h.paper.project}
  <2>1. PICK t \in Types : h \in InCollection(q, t)
      BY <1>4
  <2> QED BY <2>1, CollectionsAre
<1>8. ASSUME NEW t \in Types, NEW i \in DOMAIN collections[t],
             t \notin failing, q.types = {} \/ t \in q.types, q.project \in {"any", collections[t][i].project},
             Cardinality(DOMAIN collections[t]) <= q.most
      PROVE  \E h \in sense : h.id = i
  <2>1. best[t] \in BestOf(InCollection(q, t), q.most)
      BY <1>1, <1>2, <1>8
  <2>2. /\ IsFiniteSet(InCollection(q, t)) /\ Cardinality(InCollection(q, t)) <= Cardinality(DOMAIN collections[t])
        /\ \E h \in InCollection(q, t) : h.id = i
      BY <1>8, CollectionsAre
  <2>3. q.most \in Nat /\ Cardinality(InCollection(q, t)) \in Nat /\ Cardinality(DOMAIN collections[t]) \in Nat
      BY <2>2, MostAre, FS_CardinalityType DEF SearchTypes, KeptByMeaning
  <2>4. Cardinality(InCollection(q, t)) <= q.most
      BY <2>2, <2>3, <1>8
  <2>5. best[t] = InCollection(q, t)
      BY <2>1, <2>2, <2>3, <2>4, BestAre
  <2> QED BY <2>2, <2>5, <1>1
<1> QED BY <1>5, <1>6, <1>7, <1>8

\* A copy by meaning: an old one differs, and the newest is in the collection of its type only.
LEMMA OldCopyIs ==
    ASSUME NEW i, NEW t \in Types, i \in DOMAIN collections[t], collections[t][i] # indexedAs[i]
    PROVE  Copy(i) = "old"
<1> DEFINE held == {collections[u][i] : u \in {v \in Types : i \in DOMAIN collections[v]}}
<1>1. collections[t][i] \in held
    OBVIOUS
<1>2. Copy(i) = IF held = {} THEN "none" ELSE IF held = {indexedAs[i]} THEN "newest" ELSE "old"
    BY DEF Copy
<1> HIDE DEF held
<1> QED BY <1>1, <1>2

LEMMA NewestCopyIs ==
    ASSUME SearchTypes, NEW i, Copy(i) = "newest"
    PROVE  /\ indexedAs[i].type \in Types /\ i \in DOMAIN collections[indexedAs[i].type]
           /\ \A t \in Types : i \in DOMAIN collections[t] => collections[t][i] = indexedAs[i]
<1> DEFINE held == {collections[u][i] : u \in {v \in Types : i \in DOMAIN collections[v]}}
<1>1. Copy(i) = IF held = {} THEN "none" ELSE IF held = {indexedAs[i]} THEN "newest" ELSE "old"
    BY DEF Copy
<1>2. \A t \in Types : i \in DOMAIN collections[t] => collections[t][i] \in held
    OBVIOUS
<1>3. \A p \in held : \E t \in Types : i \in DOMAIN collections[t] /\ p = collections[t][i]
    OBVIOUS
<1> HIDE DEF held
<1>4. held # {} /\ held = {indexedAs[i]}
    BY <1>1
<1>5. PICK t \in Types : i \in DOMAIN collections[t] /\ indexedAs[i] = collections[t][i]
    BY <1>3, <1>4
<1>6. indexedAs[i].type = t
    BY <1>5 DEF SearchTypes, KeptByMeaning
<1> QED BY <1>2, <1>4, <1>5, <1>6

\* The hits of a search by meaning that has a model are fair.
LEMMA MeaningIsFair ==
    ASSUME SearchTypes, LibraryIsNewest, NEW q \in Queries, NEW failing, NEW sense \in ByMeaning(q, failing),
           q.mode # "keyword", libraries.semantic
    PROVE  HitsAreFair(q, sense, failing) /\ OfTheProject(q, sense)
<1>1. /\ sense \in SUBSET HitShape /\ IsFiniteSet(sense)
      /\ \A h \in sense : \E t \in Types :
            /\ h.id \in DOMAIN collections[t] /\ h.paper = collections[t][h.id]
            /\ h.score = Likeness(q.words, h.paper.words) /\ h.score \in 0 .. 1000
            /\ q.project \in {"any", h.paper.project}
    BY MeaningIs
<1>2. ASSUME NEW h \in sense, h.paper # indexedAs[h.id]
      PROVE  Copy(h.id) = "old"
  <2>1. PICK t \in Types : h.id \in DOMAIN collections[t] /\ h.paper = collections[t][h.id]
      BY <1>1
  <2> QED BY <2>1, <1>2, OldCopyIs
<1>3. ASSUME NEW i \in Settled, Wanted(q, i), Copy(i) = "newest", ~TooUnlike(q, i), ~CrowdedOut(q, i, failing)
      PROVE  \E h \in sense : h.id = i /\ h.score >= q.min
  <2> DEFINE t == indexedAs[i].type
  <2>1. /\ t \in Types /\ i \in DOMAIN collections[t]
        /\ \A u \in Types : i \in DOMAIN collections[u] => collections[u][i] = indexedAs[i]
      BY <1>3, NewestCopyIs
  <2>2. t \notin failing /\ (q.types = {} \/ t \in q.types) /\ q.project \in {"any", collections[t][i].project}
      BY <2>1, <1>3 DEF Wanted, OfType, CrowdedOut
  <2>3. Cardinality(DOMAIN collections[t]) <= q.most
    <3>1. Cardinality(DOMAIN collections[t]) \in Nat /\ q.most \in Nat
        BY <2>1, MostAre, FS_CardinalityType DEF SearchTypes, KeptByMeaning
    <3>2. ~(Cardinality(DOMAIN collections[t]) > q.most)
        BY <1>3 DEF CrowdedOut
    <3> QED BY <3>1, <3>2
  <2>4. PICK h \in sense : h.id = i
      BY <2>1, <2>2, <2>3, MeaningIs
  <2>5. h.paper = indexedAs[i] /\ h.score = Likeness(q.words, h.paper.words) /\ h.score \in 0 .. 1000
      BY <2>1, <2>4, <1>1
  <2>6. q.min \in 0 .. 1000
      BY QueriesAre
  <2>7. h.score >= q.min
    <3>1. h.score = Likeness(q.words, indexedAs[i].words)
        BY <2>5
    <3>2. ~(Likeness(q.words, indexedAs[i].words) < q.min)
        BY <1>3 DEF TooUnlike
    <3>3. ~(h.score < q.min)
        BY <3>1, <3>2
    <3>4. h.score \in Int /\ q.min \in Int
        BY <2>5, <2>6, SMTT(30)
    <3> QED BY <3>3, <3>4
  <2> QED BY <2>4, <2>7
<1>4. HitsAreFair(q, sense, failing)
    BY <1>1, <1>2, <1>3 DEF HitsAreFair
<1>5. OfTheProject(q, sense)
    BY <1>1 DEF OfTheProject
<1> QED BY <1>4, <1>5

-----------------------------------------------------------------------------
LEMMA Tenths ==
    ASSUME NEW s \in Nat
    PROVE  (s * 3) \div 10 \in Nat /\ (s * 7) \div 10 \in Nat
OBVIOUS

\* Seven tenths of a score and three of the whole are no less than the score.
LEMMA BlendKeeps ==
    ASSUME NEW s \in 0 .. 1000
    PROVE  (s * 7) \div 10 + 300 >= s
OBVIOUS

\* What both found, once by word with every word, and by meaning with the score asked for.
BothFound(sense, words, i, q) ==
    /\ \E m \in sense : m.id = i
    /\ \E w \in words : w.id = i /\ w.score = 1000
    /\ \A v, w \in words : v.id = i /\ w.id = i => v = w
    /\ \A n \in sense : n.id = i => n.score \in q.min .. 1000

\* The blend has a hit for every document of both; one that both found, with every word, has
\* the score asked for if its meaning has.
LEMMA BlendIs ==
    ASSUME NEW sense \in SUBSET HitShape, IsFiniteSet(sense), NEW words \in SUBSET HitShape, IsFiniteSet(words),
           NEW q \in Queries
    PROVE  /\ Blend(sense, words) \in SUBSET HitShape /\ IsFiniteSet(Blend(sense, words))
           /\ \A h \in Blend(sense, words) : \E g \in sense \cup words : g.id = h.id /\ g.paper = h.paper
           /\ \A i \in DocIds : BothFound(sense, words, i, q) =>
                 \E h \in Blend(sense, words) : h.id = i /\ h.score >= q.min
<1> DEFINE both == sense \cup words
           ids == {h.id : h \in both}
           Right(f) == \A i \in ids : f[i].id = i /\ \A h \in sense : h.id = i => f[i] \in sense
           one == CHOOSE f \in [ids -> both] : Right(f)
           part(i) == IF \E h \in words : h.id = i THEN ((CHOOSE h \in words : h.id = i).score * 3) \div 10 ELSE 0
           points(i) == IF one[i] \in sense THEN (one[i].score * 7) \div 10 + part(i) ELSE part(i)
<1>1. Blend(sense, words) = {[one[i] EXCEPT !.score = points(i)] : i \in ids}
    BY Zenon DEF Blend
<1>2. one \in [ids -> both] /\ Right(one)
  <2> DEFINE pick == [i \in ids |-> IF \E h \in sense : h.id = i THEN CHOOSE h \in sense : h.id = i
                                                               ELSE CHOOSE h \in words : h.id = i]
  <2>1. ASSUME NEW i \in ids
        PROVE  pick[i] \in both /\ pick[i].id = i /\ \A h \in sense : h.id = i => pick[i] \in sense
    <3>1. CASE \E h \in sense : h.id = i
        BY <3>1
    <3>2. CASE ~\E h \in sense : h.id = i
      <4>1. \E h \in words : h.id = i
          BY <3>2
      <4> QED BY <3>2, <4>1
    <3> QED BY <3>1, <3>2
  <2>2. pick \in [ids -> both]
      BY <2>1
  <2>3. Right(pick)
      BY <2>1
  <2> HIDE DEF pick, Right
  <2> QED BY <2>2, <2>3
<1> HIDE DEF one
<1>3. \A i \in ids : one[i] \in HitShape /\ one[i] \in both /\ one[i].id = i
    BY <1>2
<1>4. \A i \in ids : part(i) \in Nat
  <2> SUFFICES ASSUME NEW i \in ids, \E h \in words : h.id = i
               PROVE  ((CHOOSE h \in words : h.id = i).score * 3) \div 10 \in Nat
      OBVIOUS
  <2> DEFINE w == CHOOSE h \in words : h.id = i
  <2>1. w \in words
      OBVIOUS
  <2>2. w.score \in Nat
      BY <2>1 DEF HitShape
  <2> HIDE DEF w
  <2>3. (w.score * 3) \div 10 \in Nat
      BY <2>2, Tenths
  <2> QED BY <2>3 DEF w
<1>5. \A i \in ids : points(i) \in Nat
  <2> SUFFICES ASSUME NEW i \in ids
               PROVE  points(i) \in Nat
      OBVIOUS
  <2>1. one[i].score \in Nat
      BY <1>3 DEF HitShape
  <2>2. (one[i].score * 7) \div 10 \in Nat
      BY <2>1, Tenths
  <2>3. part(i) \in Nat
      BY <1>4
  <2> HIDE DEF part
  <2> QED BY <2>2, <2>3
<1> HIDE DEF points
<1> DEFINE blended(i) == [one[i] EXCEPT !.score = points(i)]
<1>6. \A i \in ids : /\ blended(i) \in HitShape /\ blended(i).id = i
                     /\ blended(i).paper = one[i].paper /\ blended(i).score = points(i)
    BY <1>3, <1>5 DEF HitShape
<1>7. Blend(sense, words) = {blended(i) : i \in ids}
    BY <1>1
<1> HIDE DEF blended
<1>8. Blend(sense, words) \in SUBSET HitShape
    BY <1>6, <1>7
<1>9. IsFiniteSet(Blend(sense, words))
  <2>1. IsFiniteSet(both)
      BY FS_Union
  <2> DEFINE g == [h \in both |-> h.id]
             k == [i \in ids |-> blended(i)]
  <2>2. g \in [both -> ids] /\ \A i \in ids : \E h \in both : g[h] = i
      OBVIOUS
  <2>3. k \in [ids -> Blend(sense, words)] /\ \A h \in Blend(sense, words) : \E i \in ids : k[i] = h
      BY <1>7
  <2> HIDE DEF g, k, both, ids
  <2>4. IsFiniteSet(ids)
      BY <2>1, <2>2, ImageIsFinite
  <2> QED BY <2>3, <2>4, ImageIsFinite
<1>10. ASSUME NEW h \in Blend(sense, words)
       PROVE  \E g \in both : g.id = h.id /\ g.paper = h.paper
  <2>1. PICK i \in ids : h = blended(i)
      BY <1>7
  <2> QED BY <2>1, <1>3, <1>6
<1>11. ASSUME NEW i \in DocIds, BothFound(sense, words, i, q)
       PROVE  \E h \in Blend(sense, words) : h.id = i /\ h.score >= q.min
  <2>0. PICK m \in sense, w \in words : m.id = i /\ w.id = i /\ w.score = 1000 /\ \A v \in words : v.id = i => v = w
      BY <1>11 DEF BothFound
  <2>1. i \in ids
      BY <2>0
  <2>2. one[i] \in sense /\ one[i].id = i
      BY <1>2, <2>0, <2>1
  <2>3. one[i].score \in q.min .. 1000
      BY <2>2, <1>11 DEF BothFound
  <2>4. part(i) = 300
    <3>1. (CHOOSE h \in words : h.id = i) = w
        BY <2>0
    <3>2. (w.score * 3) \div 10 = 300
        BY <2>0
    <3>3. part(i) = ((CHOOSE h \in words : h.id = i).score * 3) \div 10
      <4>1. \E h \in words : h.id = i
          BY <2>0
      <4> QED BY <4>1, Zenon
    <3> HIDE DEF part
    <3> QED BY <3>1, <3>2, <3>3
  <2> HIDE DEF part
  <2>5. points(i) = (one[i].score * 7) \div 10 + 300
      BY <2>2, <2>4 DEF points
  <2> DEFINE s == one[i].score
  <2>10. points(i) = (s * 7) \div 10 + 300
      BY <2>5
  <2>11. s \in q.min .. 1000 /\ q.min \in 0 .. 1000
      BY <2>3, QueriesAre
  <2> HIDE DEF s
  <2>6. s \in 0 .. 1000 /\ s >= q.min
      BY <2>11
  <2>7. (s * 7) \div 10 + 300 >= s
      BY <2>6, BlendKeeps
  <2>8. (s * 7) \div 10 \in Nat
      BY <2>6, Tenths
  <2>9. points(i) >= q.min
      BY <2>6, <2>7, <2>8, <2>10, <2>11
  <2> QED BY <2>1, <2>9, <1>6, <1>7
<1> QED BY <1>8, <1>9, <1>10, <1>11

LEMMA BlendIsFair ==
    ASSUME SearchTypes, LibraryIsNewest, NEW q \in Queries, NEW failing, q.mode = "hybrid",
           NEW sense, HitsAreFair(q, sense, failing),
           \A i \in Settled : Wanted(q, i) /\ Copy(i) = "newest" /\ ~TooUnlike(q, i) =>
              \A m \in sense : m.id = i => m.score \in q.min .. 1000,
           libraries.semantic \/ sense = ByWord(q)
    PROVE  HitsAreFair(q, Blend(sense, ByWord(q)), failing)
<1>1. /\ ByWord(q) \in SUBSET HitShape /\ IsFiniteSet(ByWord(q))
      /\ \A g, h \in ByWord(q) : g.id = h.id => g = h
      /\ \A i \in DOMAIN library : q.words \subseteq library[i].words /\ OfType(q, library[i]) =>
            \E h \in ByWord(q) : h.id = i /\ h.score = 1000
    BY WordsAre
<1>2. /\ sense \in SUBSET HitShape /\ IsFiniteSet(sense)
      /\ \A h \in sense : h.id \in Settled /\ h.paper # indexedAs[h.id] => Copy(h.id) = "old"
      /\ \A i \in Settled : Wanted(q, i) =>
            \/ \E h \in sense : h.id = i /\ h.score >= q.min
            \/ Copy(i) # "newest" \/ TooUnlike(q, i) \/ CrowdedOut(q, i, failing)
    BY DEF HitsAreFair
<1>3. \A h \in ByWord(q) : h.id \in Settled /\ h.paper # indexedAs[h.id] => Copy(h.id) = "old"
    BY WordsAreFair DEF HitsAreFair
<1>4. q.min \in 0 .. 1000
    BY QueriesAre
<1> DEFINE hits == Blend(sense, ByWord(q))
<1>5. /\ hits \in SUBSET HitShape /\ IsFiniteSet(hits)
      /\ \A h \in hits : \E g \in sense \cup ByWord(q) : g.id = h.id /\ g.paper = h.paper
    BY <1>1, <1>2, <1>4, BlendIs
<1>10. \A i \in DocIds : BothFound(sense, ByWord(q), i, q) =>
          \E h \in hits : h.id = i /\ h.score >= q.min
  <2>1. ByWord(q) \in SUBSET HitShape /\ IsFiniteSet(ByWord(q)) /\ sense \in SUBSET HitShape /\ IsFiniteSet(sense)
      BY <1>1, <1>2
  <2> QED BY <2>1, BlendIs
<1> HIDE DEF hits
<1>6. ASSUME NEW h \in hits, h.id \in Settled, h.paper # indexedAs[h.id]
      PROVE  Copy(h.id) = "old"
    BY <1>6, <1>5, <1>2, <1>3
<1>7. ASSUME NEW i \in Settled, Wanted(q, i), NEW m \in sense, m.id = i,
             \A n \in sense : n.id = i => n.score \in q.min .. 1000
      PROVE  \E h \in hits : h.id = i /\ h.score >= q.min
  <2>1. i \in DOMAIN library /\ library[i] = indexedAs[i] /\ i \in DocIds
      BY SettledIsNewest
  <2>2. \E w \in ByWord(q) : w.id = i /\ w.score = 1000
      BY <2>1, <1>1, <1>7 DEF Wanted
  <2>3. BothFound(sense, ByWord(q), i, q)
      BY <2>2, <1>1, <1>7 DEF BothFound
  <2> QED BY <2>1, <2>3, <1>4, <1>10
<1>8. ASSUME NEW i \in Settled, Wanted(q, i)
      PROVE  \/ \E h \in hits : h.id = i /\ h.score >= q.min
             \/ /\ libraries.semantic
                /\ Copy(i) # "newest" \/ TooUnlike(q, i) \/ CrowdedOut(q, i, failing)
  <2>1. CASE sense = ByWord(q)
    <3>1. i \in DOMAIN library /\ library[i] = indexedAs[i]
        BY SettledIsNewest
    <3>2. PICK w \in ByWord(q) : w.id = i /\ w.score = 1000
        BY <3>1, <1>1, <1>8 DEF Wanted
    <3>3. \A n \in sense : n.id = i => n.score \in q.min .. 1000
        BY <3>2, <2>1, <1>1, <1>4
    <3> QED BY <3>2, <3>3, <2>1, <1>7, <1>8
  <2>2. CASE libraries.semantic
    <3> SUFFICES ASSUME Copy(i) = "newest", ~TooUnlike(q, i), ~CrowdedOut(q, i, failing)
                 PROVE  \E h \in hits : h.id = i /\ h.score >= q.min
        BY <2>2
    <3>1. PICK m \in sense : m.id = i
        BY <1>2, <1>8
    <3> QED BY <3>1, <1>7, <1>8
  <2> QED BY <2>1, <2>2
<1>9. HitsAreFair(q, hits, failing)
    BY <1>5, <1>6, <1>8 DEF HitsAreFair
<1> QED BY <1>9 DEF hits

-----------------------------------------------------------------------------
\* What a search by word, and one whose embedding arrives, brings.
LEMMA WithoutModelIsFair ==
    ASSUME SearchTypes, LibraryIsNewest, NEW q \in Queries, NEW failing
    PROVE  HitsAreFair(q, WithoutModel(q), failing)
<1>1. HitsAreFair(q, ByWord(q), failing)
    BY WordsAreFair
<1>2. CASE q.mode # "hybrid"
    BY <1>1, <1>2 DEF WithoutModel
<1>3. CASE q.mode = "hybrid"
  <2>1. ASSUME NEW i \in Settled, Wanted(q, i), NEW m \in ByWord(q), m.id = i
        PROVE  m.score \in q.min .. 1000
    <3>1. i \in DOMAIN library /\ library[i] = indexedAs[i]
        BY SettledIsNewest
    <3>2. \E w \in ByWord(q) : w.id = i /\ w.score = 1000
        BY <3>1, <2>1, WordsAre DEF Wanted
    <3>3. \A g, h \in ByWord(q) : g.id = h.id => g = h
        BY WordsAre
    <3>4. m.score = 1000 /\ q.min \in 0 .. 1000
        BY <3>2, <3>3, <2>1, QueriesAre
    <3> QED BY <3>4
  <2>2. HitsAreFair(q, Blend(ByWord(q), ByWord(q)), failing)
      BY <2>1, <1>1, <1>3, BlendIsFair
  <2> QED BY <2>2, <1>3 DEF WithoutModel
<1> QED BY <1>2, <1>3

LEMMA EmbeddedIsFair ==
    ASSUME SearchTypes, LibraryIsNewest, NEW q \in Queries, NEW failing, NEW sense \in ByMeaning(q, failing),
           q.mode # "keyword", libraries.semantic
    PROVE  /\ HitsAreFair(q, IF q.mode = "hybrid" THEN Blend(sense, ByWord(q)) ELSE sense, failing)
           /\ q.mode = "hybrid" \/ OfTheProject(q, IF q.mode = "hybrid" THEN Blend(sense, ByWord(q)) ELSE sense)
<1>1. HitsAreFair(q, sense, failing) /\ OfTheProject(q, sense)
    BY MeaningIsFair
<1>2. CASE q.mode # "hybrid"
    BY <1>1, <1>2
<1>3. CASE q.mode = "hybrid"
  <2>1. ASSUME NEW i \in Settled, Copy(i) = "newest", ~TooUnlike(q, i), NEW m \in sense, m.id = i
        PROVE  m.score \in q.min .. 1000
    <3>1. PICK t \in Types : /\ m.id \in DOMAIN collections[t] /\ m.paper = collections[t][m.id]
                             /\ m.score = Likeness(q.words, m.paper.words) /\ m.score \in 0 .. 1000
        BY MeaningIs
    <3>2. m.paper = indexedAs[i]
        BY <3>1, <2>1, NewestCopyIs
    <3>3. m.score = Likeness(q.words, indexedAs[i].words)
        BY <3>1, <3>2
    <3>4. ~(m.score < q.min)
        BY <3>3, <2>1 DEF TooUnlike
    <3>5. q.min \in 0 .. 1000
        BY QueriesAre
    <3>6. m.score \in 0 .. 1000
        BY <3>1
    <3>9. q.min \in Int
        BY <3>5
    <3>7. m.score \in Int /\ q.min \in Int
        BY <3>6, <3>9
    <3>8. m.score >= q.min
        BY <3>4, <3>7
    <3> QED BY <3>5, <3>6, <3>8
  <2>2. HitsAreFair(q, Blend(sense, ByWord(q)), failing)
      BY <2>1, <1>1, <1>3, BlendIsFair
  <2> QED BY <2>2, <1>3
<1> QED BY <1>2, <1>3

-----------------------------------------------------------------------------
LEMMA SearchInitInv == SearchInit => SearchInv
<1> SUFFICES ASSUME SearchInit PROVE SearchInv
    OBVIOUS
<1>1. /\ libraries \in [semantic : BOOLEAN, client : BOOLEAN] /\ library = <<>>
      /\ collections = [t \in Types |-> <<>>] /\ waiting = [c \in Coroutines |-> NotWaiting]
      /\ indexedAs = <<>> /\ crossedIds = {} /\ findings = {} /\ indexCalls = 0 /\ searches = 0 /\ hitches = 0
    BY DEF SearchInit
<1>2. DOMAIN library = {} /\ DOMAIN indexedAs = {}
    BY <1>1
<1>3. \A t \in Types : DOMAIN collections[t] = {}
    BY <1>1
<1>4. IsFiniteSet({})
    BY FS_EmptySet
<1>5. KeptByMeaning
    BY <1>1, <1>3, <1>4 DEF KeptByMeaning
<1>6. waiting \in [Coroutines -> {NotWaiting} \cup IndexWait \cup SearchWait]
    BY <1>1
<1>7. 0 \in 0 .. MaxIndexed /\ 0 \in 0 .. MaxSearches /\ 0 \in 0 .. MaxHitches
    BY SearchAssumption DEF SearchAssumption
<1>8. SearchTypes
    BY <1>1, <1>2, <1>4, <1>5, <1>6, <1>7 DEF SearchTypes
<1>9. \A c \in Coroutines : waiting[c].for = "nothing"
    BY <1>1 DEF NotWaiting
<1>10. WaitsAreKept
    BY <1>9 DEF WaitsAreKept
<1>11. LibraryIsNewest
    BY <1>2, <1>9 DEF LibraryIsNewest, Indexing
<1>12. AnswersHaveCauses
    BY <1>1 DEF AnswersHaveCauses
<1> QED BY <1>8, <1>10, <1>11, <1>12 DEF SearchInv

\* A coroutine of those that wait.
LEMMA WaitIs ==
    ASSUME SearchInv, NEW c \in Coroutines
    PROVE  /\ waiting[c] \in {NotWaiting} \cup IndexWait \cup SearchWait
           /\ waiting[c].for = "nothing" \/ waiting[c].for = "index" \/ waiting[c].for = "search"
           /\ waiting[c].for = "index" =>
                 waiting[c].id \in DocIds /\ waiting[c].paper \in Papers /\ libraries.semantic /\ waiting[c].id \in DOMAIN library
           /\ waiting[c].for = "search" => waiting[c].query \in Queries /\ libraries.semantic /\ waiting[c].query.mode # "keyword"
           /\ waiting[c].for = "nothing" => waiting[c] = NotWaiting
<1>1. waiting[c] \in {NotWaiting} \cup IndexWait \cup SearchWait
    BY DEF SearchInv, SearchTypes
<1> QED BY <1>1, WaitsAre DEF SearchInv, WaitsAreKept

\* What is kept when an answer is given: the coroutine c waits for nothing, or begins a search.
LEMMA SearchFrame ==
    ASSUME SearchInv, NEW c \in Coroutines, NEW w,
           w = NotWaiting \/ (w \in SearchWait /\ libraries.semantic /\ w.query.mode # "keyword"),
           waiting[c].for # "index", waiting' = [waiting EXCEPT ![c] = w] \/ waiting' = waiting,
           UNCHANGED <<libraries, library, collections, indexedAs, crossedIds, indexCalls>>,
           searches' \in 0 .. MaxSearches, hitches' \in 0 .. MaxHitches
    PROVE  SearchTypes' /\ WaitsAreKept' /\ LibraryIsNewest'
<1>1. waiting \in [Coroutines -> {NotWaiting} \cup IndexWait \cup SearchWait]
    BY DEF SearchInv, SearchTypes
<1>2. waiting' \in [Coroutines -> {NotWaiting} \cup IndexWait \cup SearchWait]
    BY <1>1
<1>3. KeptByMeaning'
    BY DEF SearchInv, SearchTypes, KeptByMeaning
<1>4. SearchTypes'
    BY <1>2, <1>3 DEF SearchInv, SearchTypes
<1>5. w.for # "index" /\ (w.for = "search" => libraries.semantic /\ w.query.mode # "keyword")
    BY DEF NotWaiting, SearchWait
<1>6. \A d \in Coroutines : waiting'[d] = waiting[d] \/ (d = c /\ waiting'[d] = w)
    BY <1>1
<1>7. \A d \in Coroutines : waiting'[d].for = "index" <=> waiting[d].for = "index"
    BY <1>5, <1>6
<1>8. \A d \in Coroutines : waiting[d].for = "index" => waiting'[d] = waiting[d]
    BY <1>6
<1>9. WaitsAreKept'
    BY <1>5, <1>6 DEF SearchInv, WaitsAreKept
<1>10. \A d \in Coroutines, i \in DocIds : Indexing(d, i)' <=> Indexing(d, i)
    BY <1>7, <1>8 DEF Indexing
<1>11. LibraryIsNewest'
  <2> SUFFICES ASSUME NEW i \in DocIds, i \notin crossedIds
               PROVE  /\ \A a, d \in Coroutines : Indexing(a, i)' /\ Indexing(d, i)' => a = d
                      /\ \A d \in Coroutines : Indexing(d, i)' => library[i] = waiting'[d].paper
                      /\ i \in DOMAIN indexedAs /\ (\A d \in Coroutines : ~Indexing(d, i)') => library[i] = indexedAs[i]
      BY DEF LibraryIsNewest
  <2>1. /\ \A a, d \in Coroutines : Indexing(a, i) /\ Indexing(d, i) => a = d
        /\ \A d \in Coroutines : Indexing(d, i) => library[i] = waiting[d].paper
        /\ i \in DOMAIN indexedAs /\ (\A d \in Coroutines : ~Indexing(d, i)) => library[i] = indexedAs[i]
      BY DEF SearchInv, LibraryIsNewest
  <2>2. \A d \in Coroutines : Indexing(d, i) => waiting'[d] = waiting[d]
      BY <1>8 DEF Indexing
  <2> QED BY <2>1, <2>2, <1>10
<1> QED BY <1>4, <1>9, <1>11

LEMMA OthersDoNotMove ==
    ASSUME SearchInv, UNCHANGED <<libraries, findings>>, hitches' \in Nat, hitches' >= hitches
    PROVE  AnswersHaveCauses'
<1>1. hitches \in Nat
    BY HitchesAre DEF SearchInv, SearchTypes
<1> QED BY <1>1 DEF SearchInv, AnswersHaveCauses, HasCause

LEMMA CountsOfSearch ==
    ASSUME SearchInv
    PROVE  /\ hitches \in Nat /\ hitches \in 0 .. MaxHitches /\ MaxHitches \in Nat
           /\ searches \in 0 .. MaxSearches /\ MaxSearches \in Nat
           /\ indexCalls \in 0 .. MaxIndexed /\ MaxIndexed \in Nat
BY SearchAssumption DEF SearchInv, SearchTypes, SearchAssumption

LEMMA FromCacheStep ==
    ASSUME SearchInv, NEW c \in Coroutines, NEW q \in Queries, FromCache(c, q)
    PROVE  SearchInv'
<1>1. /\ waiting[c] = NotWaiting /\ searches < MaxSearches /\ searches' = searches + 1
      /\ findings' = findings \cup Objections(q, queryCache[CacheKey(q)], TRUE, {}, {})
      /\ UNCHANGED <<libraries, library, collections, queryCache, waiting, indexedAs, crossedIds, indexCalls, hitches>>
    BY DEF FromCache, BeginSearch
<1>2. searches' \in 0 .. MaxSearches /\ hitches' \in 0 .. MaxHitches
    BY <1>1, CountsOfSearch
<1>3. waiting[c].for # "index"
    BY <1>1 DEF NotWaiting
<1>4. SearchTypes' /\ WaitsAreKept' /\ LibraryIsNewest'
    BY <1>1, <1>2, <1>3, SearchFrame
<1>5. \A f \in Objections(q, queryCache[CacheKey(q)], TRUE, {}, {}) : f.cached
    BY ObjectionsAre
<1>6. \A f \in findings : HasCause(f)'
    BY <1>1 DEF SearchInv, AnswersHaveCauses, HasCause
<1>7. AnswersHaveCauses'
    BY <1>1, <1>5, <1>6 DEF AnswersHaveCauses, HasCause
<1> QED BY <1>4, <1>7 DEF SearchInv

LEMMA SearchByWordStep ==
    ASSUME SearchInv, NEW c \in Coroutines, NEW q \in Queries, SearchByWord(c, q)
    PROVE  SearchInv'
<1>1. /\ waiting[c] = NotWaiting /\ searches < MaxSearches /\ searches' = searches + 1
      /\ q.mode = "keyword" \/ ~libraries.semantic
      /\ GiveBack(c, q, WithoutModel(q), {})
      /\ UNCHANGED <<libraries, library, collections, indexedAs, crossedIds, indexCalls, hitches>>
    BY DEF SearchByWord, BeginSearch
<1>2. searches' \in 0 .. MaxSearches /\ hitches' \in 0 .. MaxHitches /\ hitches' \in Nat /\ hitches' >= hitches
    BY <1>1, CountsOfSearch
<1>3. waiting[c].for # "index" /\ waiting' = [waiting EXCEPT ![c] = NotWaiting]
    BY <1>1 DEF NotWaiting, GiveBack
<1>4. SearchTypes' /\ WaitsAreKept' /\ LibraryIsNewest'
    BY <1>1, <1>2, <1>3, SearchFrame
<1>5. HitsAreFair(q, WithoutModel(q), {})
    BY WithoutModelIsFair DEF SearchInv
<1>6. AnswersHaveCauses'
    BY <1>1, <1>2, <1>5, GivenHasCauses
<1> QED BY <1>4, <1>6 DEF SearchInv

LEMMA SearchByMeaningStep ==
    ASSUME SearchInv, NEW c \in Coroutines, NEW q \in Queries, SearchByMeaning(c, q)
    PROVE  SearchInv'
<1> DEFINE w == [for |-> "search", query |-> q]
<1>1. /\ waiting[c] = NotWaiting /\ searches < MaxSearches /\ searches' = searches + 1
      /\ q.mode # "keyword" /\ libraries.semantic
      /\ waiting' = [waiting EXCEPT ![c] = w]
      /\ UNCHANGED <<libraries, library, collections, queryCache, indexedAs, crossedIds, findings, indexCalls, hitches>>
    BY DEF SearchByMeaning, BeginSearch
<1>2. searches' \in 0 .. MaxSearches /\ hitches' \in 0 .. MaxHitches /\ hitches' \in Nat /\ hitches' >= hitches
    BY <1>1, CountsOfSearch
<1>3. waiting[c].for # "index"
    BY <1>1 DEF NotWaiting
<1>4. w \in SearchWait /\ w.query = q
    BY DEF SearchWait
<1> HIDE DEF w
<1>5. SearchTypes' /\ WaitsAreKept' /\ LibraryIsNewest'
    BY <1>1, <1>2, <1>3, <1>4, SearchFrame
<1>6. AnswersHaveCauses'
    BY <1>1, <1>2, OthersDoNotMove
<1> QED BY <1>5, <1>6 DEF SearchInv

LEMMA QueryEmbeddedStep ==
    ASSUME SearchInv, NEW c \in Coroutines, QueryEmbedded(c)
    PROVE  SearchInv'
<1> DEFINE q == waiting[c].query
<1>1. /\ waiting[c].for = "search"
      /\ UNCHANGED <<libraries, library, collections, indexedAs, crossedIds, indexCalls, searches>>
    BY DEF QueryEmbedded
<1>2. q \in Queries /\ libraries.semantic /\ q.mode # "keyword"
    BY <1>1, WaitIs
<1>3. PICK failing \in SUBSET Types :
         /\ hitches' = IF failing = {} THEN hitches ELSE hitches + 1
         /\ hitches' <= MaxHitches
         /\ \E sense \in ByMeaning(q, failing) :
               GiveBack(c, q, IF q.mode = "hybrid" THEN Blend(sense, ByWord(q)) ELSE sense, failing)
    BY DEF QueryEmbedded
<1>4. PICK sense \in ByMeaning(q, failing) :
               GiveBack(c, q, IF q.mode = "hybrid" THEN Blend(sense, ByWord(q)) ELSE sense, failing)
    BY <1>3
<1> DEFINE hits == IF q.mode = "hybrid" THEN Blend(sense, ByWord(q)) ELSE sense
<1>5. GiveBack(c, q, hits, failing)
    BY <1>4
<1>6. searches' \in 0 .. MaxSearches /\ hitches' \in 0 .. MaxHitches /\ hitches' \in Nat /\ hitches' >= hitches
    BY <1>1, <1>3, CountsOfSearch
<1> HIDE DEF q
<1>7. HitsAreFair(q, hits, failing) /\ (q.mode = "hybrid" \/ OfTheProject(q, hits))
    BY <1>2, EmbeddedIsFair DEF SearchInv
<1> HIDE DEF hits
<1>8. waiting[c].for # "index" /\ waiting' = [waiting EXCEPT ![c] = NotWaiting]
    BY <1>1, <1>5 DEF GiveBack
<1>9. SearchTypes' /\ WaitsAreKept' /\ LibraryIsNewest'
    BY <1>1, <1>6, <1>8, SearchFrame
<1>10. AnswersHaveCauses'
    BY <1>1, <1>2, <1>5, <1>6, <1>7, GivenHasCauses
<1> QED BY <1>9, <1>10 DEF SearchInv

LEMMA QueryFailsStep ==
    ASSUME SearchInv, NEW c \in Coroutines, QueryFails(c)
    PROVE  SearchInv'
<1> DEFINE q == waiting[c].query
<1>1. /\ waiting[c].for = "search" /\ hitches < MaxHitches /\ hitches' = hitches + 1
      /\ GiveBack(c, q, WithoutModel(q), {})
      /\ UNCHANGED <<libraries, library, collections, indexedAs, crossedIds, indexCalls, searches>>
    BY DEF QueryFails
<1>2. q \in Queries
    BY <1>1, WaitIs
<1>3. searches' \in 0 .. MaxSearches /\ hitches' \in 0 .. MaxHitches /\ hitches' \in Nat /\ hitches' >= hitches /\ hitches' > 0
    BY <1>1, CountsOfSearch
<1> HIDE DEF q
<1>4. waiting[c].for # "index" /\ waiting' = [waiting EXCEPT ![c] = NotWaiting]
    BY <1>1 DEF GiveBack
<1>5. SearchTypes' /\ WaitsAreKept' /\ LibraryIsNewest'
    BY <1>1, <1>3, <1>4, SearchFrame
<1>6. HitsAreFair(q, WithoutModel(q), {})
    BY <1>2, WithoutModelIsFair DEF SearchInv
<1>7. AnswersHaveCauses'
    BY <1>1, <1>2, <1>3, <1>6, GivenHasCauses
<1> QED BY <1>5, <1>7 DEF SearchInv

LEMMA IndexDocumentStep ==
    ASSUME SearchInv, NEW c \in Coroutines, NEW id \in DocIds, NEW paper \in Papers, IndexDocument(c, id, paper)
    PROVE  SearchInv'
<1> DEFINE w == [for |-> "index", id |-> id, paper |-> paper]
<1>1. /\ waiting[c] = NotWaiting /\ indexCalls < MaxIndexed /\ indexCalls' = indexCalls + 1
      /\ library' = With(library, id, paper)
      /\ crossedIds' = crossedIds \cup {i \in {id} : \E d \in Coroutines : waiting[d].for = "index" /\ waiting[d].id = id}
      /\ UNCHANGED <<libraries, collections, queryCache, findings, searches, hitches>>
    BY DEF IndexDocument, KeepText
<1>2. IF libraries.semantic THEN waiting' = [waiting EXCEPT ![c] = w] /\ UNCHANGED indexedAs
      ELSE indexedAs' = With(indexedAs, id, paper) /\ UNCHANGED waiting
    BY DEF IndexDocument
<1>3. w \in IndexWait /\ w.for = "index" /\ w.id = id /\ w.paper = paper
    BY DEF IndexWait
<1> HIDE DEF w
<1>4. /\ indexCalls' \in 0 .. MaxIndexed /\ searches' \in 0 .. MaxSearches /\ hitches' \in 0 .. MaxHitches
      /\ hitches' \in Nat /\ hitches' >= hitches
    BY <1>1, CountsOfSearch
<1>5. /\ waiting \in [Coroutines -> {NotWaiting} \cup IndexWait \cup SearchWait]
      /\ DOMAIN library \subseteq DocIds /\ IsFiniteSet(DOMAIN library)
      /\ \A i \in DOMAIN library : library[i] \in Papers
      /\ DOMAIN indexedAs \subseteq DOMAIN library /\ \A i \in DOMAIN indexedAs : indexedAs[i] \in Papers
      /\ crossedIds \subseteq DocIds
    BY DEF SearchInv, SearchTypes
<1>6. /\ DOMAIN library' = DOMAIN library \cup {id} /\ library'[id] = paper
      /\ \A i \in DOMAIN library : i # id => library'[i] = library[i]
    BY <1>1 DEF With
<1>7. IsFiniteSet(DOMAIN library')
    BY <1>5, <1>6, FS_AddElement
<1>8. \A i \in DOMAIN library' : library'[i] \in Papers
    BY <1>5, <1>6
<1>9. waiting' \in [Coroutines -> {NotWaiting} \cup IndexWait \cup SearchWait]
    BY <1>2, <1>3, <1>5
<1>10. KeptByMeaning'
    BY <1>1 DEF SearchInv, SearchTypes, KeptByMeaning
<1>11. /\ DOMAIN indexedAs \subseteq DOMAIN indexedAs' /\ DOMAIN indexedAs' \subseteq DOMAIN indexedAs \cup {id}
       /\ \A i \in DOMAIN indexedAs : i # id => indexedAs'[i] = indexedAs[i]
       /\ \A i \in DOMAIN indexedAs' : indexedAs'[i] \in Papers
       /\ ~libraries.semantic => indexedAs'[id] = paper
  <2>1. CASE libraries.semantic
      BY <2>1, <1>2, <1>5
  <2>2. CASE ~libraries.semantic
    <3>1. indexedAs' = With(indexedAs, id, paper)
        BY <2>2, <1>2
    <3>2. /\ DOMAIN indexedAs' = DOMAIN indexedAs \cup {id} /\ indexedAs'[id] = paper
          /\ \A i \in DOMAIN indexedAs : i # id => indexedAs'[i] = indexedAs[i]
        BY <3>1 DEF With
    <3> QED BY <3>2, <1>5
  <2> QED BY <2>1, <2>2
<1>12. libraries' \in [semantic : BOOLEAN, client : BOOLEAN]
    BY <1>1 DEF SearchInv, SearchTypes
<1>13. crossedIds' \subseteq DocIds
    BY <1>1, <1>5
<1>14. DOMAIN library' \subseteq DocIds /\ DOMAIN indexedAs' \subseteq DOMAIN library'
    BY <1>5, <1>6, <1>11
<1>15. SearchTypes'
    BY <1>4, <1>7, <1>8, <1>9, <1>10, <1>11, <1>12, <1>13, <1>14 DEF SearchTypes
<1>16. \A d \in Coroutines : waiting'[d] = waiting[d] \/ (d = c /\ waiting'[d] = w /\ libraries.semantic)
    BY <1>2, <1>5
<1>17. WaitsAreKept'
  <2> SUFFICES ASSUME NEW d \in Coroutines
               PROVE  /\ waiting'[d].for = "index" => libraries.semantic /\ waiting'[d].id \in DOMAIN library'
                      /\ waiting'[d].for = "search" => libraries.semantic /\ waiting'[d].query.mode # "keyword"
      BY <1>1 DEF WaitsAreKept
  <2>1. CASE waiting'[d] = waiting[d]
      BY <2>1, <1>6, WaitIs
  <2>2. CASE waiting'[d] = w /\ libraries.semantic
      BY <2>2, <1>3, <1>6
  <2> QED BY <2>1, <2>2, <1>16
<1>18. LibraryIsNewest'
  <2> SUFFICES ASSUME NEW i \in DocIds, i \notin crossedIds'
               PROVE  /\ \A a, d \in Coroutines : Indexing(a, i)' /\ Indexing(d, i)' => a = d
                      /\ \A d \in Coroutines : Indexing(d, i)' => library'[i] = waiting'[d].paper
                      /\ i \in DOMAIN indexedAs' /\ (\A d \in Coroutines : ~Indexing(d, i)') => library'[i] = indexedAs'[i]
      BY DEF LibraryIsNewest
  <2>1. i \notin crossedIds
      BY <1>1
  <2>2. /\ \A a, d \in Coroutines : Indexing(a, i) /\ Indexing(d, i) => a = d
        /\ \A d \in Coroutines : Indexing(d, i) => library[i] = waiting[d].paper /\ i \in DOMAIN library
        /\ i \in DOMAIN indexedAs /\ (\A d \in Coroutines : ~Indexing(d, i)) => library[i] = indexedAs[i]
      BY <2>1 DEF SearchInv, LibraryIsNewest, WaitsAreKept, Indexing
  <2>3. ~Indexing(c, i)
      BY <1>1 DEF Indexing, NotWaiting
  <2>4. CASE i # id
    <3>1. \A d \in Coroutines : Indexing(d, i)' <=> Indexing(d, i)
        BY <2>3, <2>4, <1>3, <1>16 DEF Indexing
    <3>2. \A d \in Coroutines : Indexing(d, i) => waiting'[d] = waiting[d]
        BY <2>3, <1>16
    <3>3. i \in DOMAIN indexedAs' => i \in DOMAIN indexedAs /\ i \in DOMAIN library
        BY <2>4, <1>11, <1>5
    <3> QED BY <3>1, <3>2, <3>3, <2>2, <2>4, <1>6, <1>11
  <2>5. CASE i = id
    <3>1. \A d \in Coroutines : ~Indexing(d, i)
        BY <2>5, <1>1 DEF Indexing
    <3>2. \A d \in Coroutines : Indexing(d, i)' => d = c /\ waiting'[d] = w
        BY <3>1, <1>16 DEF Indexing
    <3>3. ASSUME \A d \in Coroutines : ~Indexing(d, i)'
          PROVE  library'[i] = indexedAs'[i]
      <4>1. ~libraries.semantic
        <5> SUFFICES ASSUME libraries.semantic PROVE FALSE
            OBVIOUS
        <5>1. waiting'[c] = w
            BY <1>2, <1>5
        <5>2. Indexing(c, i)'
            BY <5>1, <1>3, <2>5 DEF Indexing
        <5> QED BY <5>2, <3>3
      <4> QED BY <4>1, <2>5, <1>6, <1>11
    <3> QED BY <3>2, <3>3, <2>5, <1>3, <1>6
  <2> QED BY <2>4, <2>5
<1>19. AnswersHaveCauses'
    BY <1>1, <1>4, OthersDoNotMove
<1> QED BY <1>15, <1>17, <1>18, <1>19 DEF SearchInv

\* An exchange with the model that ends, well or not.
LEMMA ReportedStep ==
    ASSUME SearchInv, NEW c \in Coroutines, waiting[c].for = "index", Reported(c), KeptByMeaning',
           UNCHANGED <<libraries, library, crossedIds, findings, indexCalls, searches>>,
           hitches' \in 0 .. MaxHitches, hitches' >= hitches
    PROVE  SearchInv'
<1> DEFINE id == waiting[c].id
           paper == waiting[c].paper
<1>1. /\ indexedAs' = With(indexedAs, id, paper) /\ waiting' = [waiting EXCEPT ![c] = NotWaiting]
      /\ id \in DOMAIN library /\ paper \in Papers
    BY WaitIs DEF Reported
<1>2. hitches' \in Nat
    BY CountsOfSearch
<1>3. /\ waiting \in [Coroutines -> {NotWaiting} \cup IndexWait \cup SearchWait]
      /\ DOMAIN library \subseteq DocIds /\ DOMAIN indexedAs \subseteq DOMAIN library
      /\ \A i \in DOMAIN indexedAs : indexedAs[i] \in Papers
    BY DEF SearchInv, SearchTypes
<1>4. Indexing(c, id)
    BY DEF Indexing
<1> HIDE DEF id, paper
<1>5. /\ DOMAIN indexedAs' = DOMAIN indexedAs \cup {id} /\ indexedAs'[id] = paper
      /\ \A i \in DOMAIN indexedAs : i # id => indexedAs'[i] = indexedAs[i]
    BY <1>1 DEF With
<1>6. waiting' \in [Coroutines -> {NotWaiting} \cup IndexWait \cup SearchWait]
    BY <1>1, <1>3
<1>7. DOMAIN indexedAs' \subseteq DOMAIN library /\ \A i \in DOMAIN indexedAs' : indexedAs'[i] \in Papers
    BY <1>1, <1>3, <1>5
<1>8. SearchTypes'
    BY <1>6, <1>7 DEF SearchInv, SearchTypes
<1>9. \A d \in Coroutines : d # c => waiting'[d] = waiting[d]
    BY <1>1, <1>3
<1>10. waiting'[c] = NotWaiting /\ NotWaiting.for = "nothing"
    BY <1>1, <1>3 DEF NotWaiting
<1>11. WaitsAreKept'
    BY <1>9, <1>10 DEF SearchInv, WaitsAreKept
<1>12. LibraryIsNewest'
  <2> SUFFICES ASSUME NEW i \in DocIds, i \notin crossedIds
               PROVE  /\ \A a, d \in Coroutines : Indexing(a, i)' /\ Indexing(d, i)' => a = d
                      /\ \A d \in Coroutines : Indexing(d, i)' => library[i] = waiting'[d].paper
                      /\ i \in DOMAIN indexedAs' /\ (\A d \in Coroutines : ~Indexing(d, i)') => library[i] = indexedAs'[i]
      BY DEF LibraryIsNewest
  <2>1. /\ \A a, d \in Coroutines : Indexing(a, i) /\ Indexing(d, i) => a = d
        /\ \A d \in Coroutines : Indexing(d, i) => library[i] = waiting[d].paper
        /\ i \in DOMAIN indexedAs /\ (\A d \in Coroutines : ~Indexing(d, i)) => library[i] = indexedAs[i]
      BY DEF SearchInv, LibraryIsNewest
  <2>2. \A d \in Coroutines : Indexing(d, i)' => d # c /\ Indexing(d, i) /\ waiting'[d] = waiting[d]
      BY <1>9, <1>10 DEF Indexing
  <2>3. CASE i = id
    <3>1. library[i] = paper
        BY <2>1, <2>3, <1>4 DEF paper
    <3> QED BY <3>1, <2>1, <2>2, <2>3, <1>5
  <2>4. CASE i # id
    <3>1. \A d \in Coroutines : Indexing(d, i) => Indexing(d, i)'
        BY <2>4, <1>4, <1>9 DEF Indexing
    <3> QED BY <3>1, <2>1, <2>2, <2>4, <1>5
  <2> QED BY <2>3, <2>4
<1>13. AnswersHaveCauses'
    BY <1>2, OthersDoNotMove
<1> QED BY <1>8, <1>11, <1>12, <1>13 DEF SearchInv

LEMMA EmbeddingArrivesStep ==
    ASSUME SearchInv, NEW c \in Coroutines, EmbeddingArrives(c)
    PROVE  SearchInv'
<1> DEFINE id == waiting[c].id
           paper == waiting[c].paper
<1>1. /\ waiting[c].for = "index" /\ Reported(c) /\ AddToCollection(id, paper)
      /\ UNCHANGED <<libraries, library, queryCache, crossedIds, findings, indexCalls, searches, hitches>>
    BY DEF EmbeddingArrives
<1>2. id \in DocIds /\ paper \in Papers
    BY <1>1, WaitIs
<1>3. hitches' \in 0 .. MaxHitches /\ hitches' >= hitches
    BY <1>1, CountsOfSearch
<1> HIDE DEF id, paper
<1>4. KeptByMeaning
    BY DEF SearchInv, SearchTypes
<1>5. KeptByMeaning'
  <2>1. CASE collections' = collections
      BY <2>1, <1>4 DEF KeptByMeaning
  <2>2. CASE id \notin DOMAIN collections[paper.type] /\ collections' = [collections EXCEPT ![paper.type] = With(@, id, paper)]
    <3> DEFINE t == paper.type
               more == With(collections[t], id, paper)
    <3>1. t \in Types
        BY <1>2 DEF Types
    <3>2. /\ DOMAIN more = DOMAIN collections[t] \cup {id} /\ more[id] = paper
          /\ \A i \in DOMAIN collections[t] : i # id => more[i] = collections[t][i]
        BY DEF With
    <3>3. collections' = [collections EXCEPT ![t] = more]
        BY <2>2
    <3>4. paper.type = t
        OBVIOUS
    <3> HIDE DEF more, t
    <3>5. DOMAIN collections = Types
        BY <1>4 DEF KeptByMeaning
    <3>6. collections' = [u \in Types |-> IF u = t THEN more ELSE collections[u]]
        BY <3>3, <3>5
    <3>7. collections'[t] = more /\ \A u \in Types : u # t => collections'[u] = collections[u]
        BY <3>1, <3>6
    <3>8. collections' = [u \in Types |-> collections'[u]]
        BY <3>6
    <3>9. DOMAIN more \subseteq DocIds /\ IsFiniteSet(DOMAIN more)
        BY <3>1, <3>2, <1>2, <1>4, FS_AddElement DEF KeptByMeaning
    <3>10. \A i \in DOMAIN more : more[i] \in Papers /\ more[i].type = t
        BY <3>1, <3>2, <3>4, <1>2, <1>4 DEF KeptByMeaning
    <3>11. ASSUME NEW u \in Types
           PROVE  /\ DOMAIN collections'[u] \subseteq DocIds /\ IsFiniteSet(DOMAIN collections'[u])
                  /\ \A i \in DOMAIN collections'[u] : collections'[u][i] \in Papers /\ collections'[u][i].type = u
      <4>1. CASE u = t
          BY <4>1, <3>7, <3>9, <3>10
      <4>2. CASE u # t
          BY <4>2, <3>7, <1>4 DEF KeptByMeaning
      <4> QED BY <4>1, <4>2
    <3>12. Types' = Types
        BY DEF Types
    <3> QED BY <3>8, <3>11, <3>12 DEF KeptByMeaning
  <2> QED BY <2>1, <2>2, <1>1 DEF AddToCollection
<1> QED BY <1>1, <1>3, <1>5, ReportedStep

LEMMA EmbeddingFailsStep ==
    ASSUME SearchInv, NEW c \in Coroutines, EmbeddingFails(c)
    PROVE  SearchInv'
<1>1. /\ waiting[c].for = "index" /\ Reported(c) /\ hitches < MaxHitches /\ hitches' = hitches + 1
      /\ UNCHANGED <<libraries, library, collections, queryCache, crossedIds, findings, indexCalls, searches>>
    BY DEF EmbeddingFails
<1>2. hitches' \in 0 .. MaxHitches /\ hitches' >= hitches
    BY <1>1, CountsOfSearch
<1>3. KeptByMeaning'
    BY <1>1 DEF SearchInv, SearchTypes, KeptByMeaning
<1> QED BY <1>1, <1>2, <1>3, ReportedStep

LEMMA RestartEngineStep == ASSUME SearchInv, RestartEngine PROVE SearchInv'
<1>1. /\ hitches < MaxHitches /\ hitches' = hitches + 1
      /\ library' = <<>> /\ indexedAs' = <<>> /\ waiting' = [c \in Coroutines |-> NotWaiting] /\ crossedIds' = {}
      /\ UNCHANGED <<libraries, collections, findings, indexCalls, searches>>
    BY DEF RestartEngine
<1>2. DOMAIN library' = {} /\ DOMAIN indexedAs' = {} /\ IsFiniteSet({})
    BY <1>1, FS_EmptySet
<1>3. hitches' \in 0 .. MaxHitches /\ hitches' \in Nat /\ hitches' >= hitches
    BY <1>1, CountsOfSearch
<1>4. KeptByMeaning'
    BY <1>1 DEF SearchInv, SearchTypes, KeptByMeaning
<1>5. waiting' \in [Coroutines -> {NotWaiting} \cup IndexWait \cup SearchWait]
    BY <1>1
<1>6. SearchTypes'
    BY <1>1, <1>2, <1>3, <1>4, <1>5 DEF SearchInv, SearchTypes
<1>7. \A c \in Coroutines : waiting'[c].for = "nothing"
    BY <1>1 DEF NotWaiting
<1>8. WaitsAreKept' /\ LibraryIsNewest'
    BY <1>2, <1>7 DEF WaitsAreKept, LibraryIsNewest, Indexing
<1>9. AnswersHaveCauses'
    BY <1>1, <1>3, OthersDoNotMove
<1> QED BY <1>6, <1>8, <1>9 DEF SearchInv

LEMMA SearchStep == SearchInv /\ [SearchNext]_searchVars => SearchInv'
<1> SUFFICES ASSUME SearchInv, [SearchNext]_searchVars
             PROVE  SearchInv'
    OBVIOUS
<1>1. ASSUME NEW c \in Coroutines, NEW id \in DocIds, NEW paper \in Papers, IndexDocument(c, id, paper)
      PROVE  SearchInv'
    BY <1>1, IndexDocumentStep
<1>2. ASSUME NEW c \in Coroutines, EmbeddingArrives(c) \/ EmbeddingFails(c) \/ QueryEmbedded(c) \/ QueryFails(c)
      PROVE  SearchInv'
    BY <1>2, EmbeddingArrivesStep, EmbeddingFailsStep, QueryEmbeddedStep, QueryFailsStep
<1>3. ASSUME NEW c \in Coroutines, NEW q \in Queries, FromCache(c, q) \/ SearchByWord(c, q) \/ SearchByMeaning(c, q)
      PROVE  SearchInv'
    BY <1>3, FromCacheStep, SearchByWordStep, SearchByMeaningStep
<1>4. CASE UNCHANGED searchVars
  <2>1. UNCHANGED <<libraries, library, collections, queryCache, waiting, indexedAs, crossedIds, findings,
                    indexCalls, searches, hitches>>
      BY <1>4 DEF searchVars
  <2>2. KeptByMeaning' /\ WaitsAreKept' /\ LibraryIsNewest'
      BY <2>1 DEF SearchInv, SearchTypes, KeptByMeaning, WaitsAreKept, LibraryIsNewest, Indexing
  <2>3. SearchTypes'
      BY <2>1, <2>2 DEF SearchInv, SearchTypes
  <2>4. AnswersHaveCauses'
      BY <2>1 DEF SearchInv, AnswersHaveCauses, HasCause
  <2> QED BY <2>2, <2>3, <2>4 DEF SearchInv
<1> QED BY <1>1, <1>2, <1>3, <1>4, RestartEngineStep DEF SearchNext

LEMMA SearchAlways == SearchSpec => []SearchInv
<1> QED BY SearchInitInv, SearchStep, PTL DEF SearchSpec

\* For every set of coroutines, documents and queries, and however alike texts are: what the
\* engine keeps is well formed (SearchEngine.SearchTypeOK).
THEOREM SearchTyped == SearchSpec => []SearchTypeOK
<1>1. SearchInv => SearchTypeOK
  <2> SUFFICES ASSUME SearchInv PROVE SearchTypeOK
      OBVIOUS
  <2>1. \A t \in Types : \A i \in DOMAIN collections[t] : i \in DocIds /\ collections[t][i].type = t
      BY DEF SearchInv, SearchTypes, KeptByMeaning
  <2>2. \A c \in Coroutines : waiting[c].for \in {"nothing", "index", "search"}
      BY WaitIs
  <2> QED BY <2>1, <2>2 DEF SearchInv, SearchTypes, SearchTypeOK
<1> QED BY <1>1, SearchAlways, PTL

\* Whatever is out of date, missing, of another project or below the minimum in an answer has
\* one of the causes that the property names (SearchEngine.AnswersHaveCauses): in particular
\* nothing that was reported as indexed is lost by word, whatever the coroutines interleave.
THEOREM AnswersAlwaysHaveCauses == SearchSpec => []AnswersHaveCauses
<1>1. SearchInv => AnswersHaveCauses
    BY DEF SearchInv
<1> QED BY <1>1, SearchAlways, PTL

-----------------------------------------------------------------------------
(* LinkEngine and LinkReader: what is found of documents that no two        *)
(* coroutines processed at once                                             *)

KnownKinds == CommercialKinds \cup ConstructionKinds

\* The calls that have looked for links; each is later than those before it.
Waiters == {a \in Askers : Waits(a)}

EngineTyped ==
    /\ withModel \in BOOLEAN
    /\ DOMAIN meaning = DOMAIN entities /\ DOMAIN searched = DOMAIN entities
    /\ \A i \in DOMAIN entities : entities[i].id = i /\ entities[i].document = i[1]
    /\ \A d \in Documents : listed[d] \subseteq {i \in DOMAIN entities : i[1] = d}
    /\ listed = [d \in Documents |-> listed[d]]
    /\ \A l \in links : l.source.id \in DOMAIN entities /\ l.target.id \in DOMAIN entities
    /\ \A l \in links : l.source.document = l.source.id[1] /\ l.target.document = l.target.id[1]
    /\ processed \in 0 .. MaxProcessed /\ embedFaults \in 0 .. MaxEmbedFaults
    /\ atOnce \subseteq Documents
    /\ ~withModel => \A i \in DOMAIN entities : meaning[i] = NoCode

\* Who waits has extracted entities of a document.
AskersTyped ==
    /\ asking = [a \in Askers |-> asking[a]]
    /\ \A a \in Askers : Waits(a) =>
        /\ withModel /\ asking[a].document \in Documents
        /\ \A e \in asking[a].found : e.id \in DOMAIN entities /\ e.id[1] = asking[a].document
                                      /\ e.document = asking[a].document

\* Each call comes after those that have ended.
CallsCounted ==
    /\ IsFiniteSet(Waiters) /\ Searches \in Nat
    /\ \A i \in DOMAIN entities : searched[i] \in 0 .. Searches
    /\ \A l \in links : l.call \in 1 .. Searches

\* Two coroutines at one document are noted, and one that is alone finds what it has stored.
OneAsker ==
    \A a, b \in Askers : Waits(a) /\ Waits(b) /\ a # b /\ asking[a].document = asking[b].document
        => asking[a].document \in atOnce
StoredIsOwn ==
    \A a \in Askers : Waits(a) /\ asking[a].document \notin atOnce =>
        \A i \in Ids(asking[a].found) : entities[i] = ById(asking[a].found)[i]

\* An entity was looked for, or a coroutine waits with it.
LookedForOrAwaited ==
    \A i \in DOMAIN entities :
        searched[i] # 0 \/ \E a \in Askers : Waits(a) /\ i \in Ids(asking[a].found)

\* What was looked for has the embedding of its text.
LookedFor(i) == i[1] \notin atOnce /\ searched[i] # 0
MeaningIsFresh ==
    embedFaults = 0 => \A i \in DOMAIN entities : LookedFor(i) => meaning[i] = FreshMeaning[i]

\* LinksAreFound, of what was looked for.
LookedForAreLinked ==
    embedFaults = 0 => \A i, j \in DOMAIN entities :
        /\ LookedFor(i) /\ LookedFor(j)
        /\ Matches(entities[i], entities[j], FreshMeaning)
        /\ searched[i] >= searched[j] \/ entities[i].kind \in ConstructionKinds
        => \E l \in links : {l.source, l.target} = {entities[i], entities[j]}

\* A link of two entities that are as they were when it was found is true.
LinksAreTrue ==
    embedFaults = 0 => \A l \in links :
        /\ \A e \in {l.source, l.target} : LookedFor(e.id) /\ e = entities[e.id] /\ searched[e.id] <= l.call
        => Matches(l.source, l.target, FreshMeaning)

EngineInv ==
    /\ EngineTyped /\ AskersTyped /\ CallsCounted /\ OneAsker /\ StoredIsOwn
    /\ LookedForOrAwaited /\ MeaningIsFresh /\ LookedForAreLinked /\ LinksAreTrue

\* What an entity made of a text is called.
LEMMA EntityIs ==
    ASSUME NEW d, NEW kind \in KnownKinds, NEW says
    PROVE  /\ EntityOf(d, kind, says).id = <<d, kind, says.num>>
           /\ EntityOf(d, kind, says).document = d
<1>1. kind \in {"cost_item", "payment_cert", "variation_order", "invoice",
                "boq_item", "spec_section", "contract_clause", "drawing_ref"}
  BY DEF KnownKinds, CommercialKinds, ConstructionKinds
<1>2. CASE kind = "cost_item"
  BY <1>2 DEF EntityOf, CostItem, Found
<1>3. CASE kind = "payment_cert"
  BY <1>3 DEF EntityOf, PaymentCert, Found
<1>4. CASE kind = "variation_order"
  BY <1>4 DEF EntityOf, VariationOrder, Found
<1>5. CASE kind = "invoice"
  BY <1>5 DEF EntityOf, Invoice, Found
<1>6. CASE kind = "boq_item"
  BY <1>6 DEF EntityOf, BoqItem, Found
<1>7. CASE kind = "spec_section"
  BY <1>7 DEF EntityOf, SpecSection, Found
<1>8. CASE kind = "contract_clause"
  BY <1>8 DEF EntityOf, ContractClause, Found
<1>9. CASE kind = "drawing_ref"
  BY <1>9 DEF EntityOf, DrawingRef, Found
<1> QED
  BY <1>1, <1>2, <1>3, <1>4, <1>5, <1>6, <1>7, <1>8, <1>9

\* What is extracted from a document is of this document.
LEMMA ExtractedAre ==
    ASSUME NEW d, NEW content \in Texts, NEW e \in Extracted(d, content)
    PROVE  e.id[1] = d /\ e.document = d
<1>1. PICK item \in content : e = EntityOf(d, item[1], item[2])
  BY DEF Extracted
<1>2. item[1] \in KnownKinds
  BY EngineAssumption DEF KnownKinds
<1> QED
  BY <1>1, <1>2, EntityIs

\* The entity that is stored of those with one id is one of them.
LEMMA ByIdIs ==
    ASSUME NEW found, NEW i \in Ids(found)
    PROVE  ById(found)[i] \in found /\ ById(found)[i].id = i
<1>1. \E e \in found : e.id = i
  BY DEF Ids
<1> QED
  BY <1>1 DEF ById

\* A table into which the entities found have been put.
LEMMA StoredIs ==
    ASSUME NEW found
    PROVE  /\ DOMAIN Stored(found) = DOMAIN entities \cup Ids(found)
           /\ \A i \in Ids(found) : Stored(found)[i] = ById(found)[i]
           /\ \A i \in DOMAIN entities \ Ids(found) : Stored(found)[i] = entities[i]
<1>1. DOMAIN ById(found) = Ids(found)
  BY DEF ById
<1> QED
  BY <1>1 DEF Stored, Over

\* Whether two entities match depends on their own embeddings only.
LEMMA MatchesIsLocal ==
    ASSUME NEW s, NEW t, NEW m, NEW n, m[s.id] = n[s.id], m[t.id] = n[t.id]
    PROVE  /\ Confidence(s, t, m) = Confidence(s, t, n)
           /\ Matches(s, t, m) <=> Matches(s, t, n)
<1>1. \A least, weight : Meaning(s, t, m, least, weight) = Meaning(s, t, n, least, weight)
  BY DEF Meaning
<1>2. CommercialEvidence(s, t, m) = CommercialEvidence(s, t, n)
  BY <1>1 DEF CommercialEvidence
<1>3. ConstructionEvidence(s, t, m) = ConstructionEvidence(s, t, n)
  BY <1>1 DEF ConstructionEvidence
<1>4. Confidence(s, t, m) = Confidence(s, t, n)
  BY <1>2, <1>3 DEF Confidence
<1> QED
  BY <1>4 DEF Matches

\* The construction pack finds a link in both directions.
LEMMA ConstructionIsSymmetric ==
    ASSUME NEW s, NEW t, NEW m, s.kind \in ConstructionKinds, Matches(s, t, m)
    PROVE  Matches(t, s, m)
<1>1. PICK l \in CommercialLinks \cup ConstructionLinks : l[1] = s.kind /\ l[2] = t.kind
  BY DEF Matches, ShouldLink, LinkTypes
<1>2. \A k \in CommercialLinks : k[1] \in CommercialKinds
  BY DEF CommercialLinks, CommercialKinds
<1>3. CommercialKinds \cap ConstructionKinds = {}
  BY DEF CommercialKinds, ConstructionKinds
<1>4. l \in ConstructionLinks
  BY <1>1, <1>2, <1>3
<1>5. \A k \in ConstructionLinks : k[2] \in ConstructionKinds
  BY DEF ConstructionLinks, ConstructionKinds
<1>6. \A k \in ConstructionLinks : \E r \in ConstructionLinks : r[1] = k[2] /\ r[2] = k[1]
  BY DEF ConstructionLinks
<1>7. t.kind \in ConstructionKinds /\ LinkTypes(t, s) # {}
  BY <1>1, <1>4, <1>5, <1>6 DEF LinkTypes
<1>8. ShouldLink(t, s)
  BY <1>7 DEF Matches, ShouldLink
<1>9. ConstructionEvidence(s, t, m) = ConstructionEvidence(t, s, m)
  <2>1. \A A, B : CodeScore(A, B) = CodeScore(B, A)
    <3>1. \A A, B : A \cap B = B \cap A
      OBVIOUS
    <3>2. \A A, B : SameStart(A, B) <=> SameStart(B, A)
      BY DEF SameStart
    <3> QED
      BY <3>1, <3>2 DEF CodeScore
  <2>2. CsiMatch(s, t) = CsiMatch(t, s)
    BY <2>1 DEF CsiMatch, CodeEvidence
  <2>3. MaterialMatch(s, t) = MaterialMatch(t, s)
    <3>1. s.materials \cap t.materials = t.materials \cap s.materials
      OBVIOUS
    <3>2. s.materials \cup t.materials = t.materials \cup s.materials
      OBVIOUS
    <3> DEFINE score(c, a) == (1000 * Cardinality(c)) \div Cardinality(a)
    <3>3. \A x, y : MaterialMatch(x, y) =
              IF x.materials \cap y.materials = {} THEN NoEvidence
              ELSE Evidence("material", score(x.materials \cap y.materials, x.materials \cup y.materials), 25)
      BY Zenon DEF MaterialMatch
    <3> HIDE DEF score
    <3> QED
      BY <3>1, <3>2, <3>3
  <2>4. DrawingReference(s, t) = DrawingReference(t, s)
    <3>1. Drawings(s) \cap Drawings(t) = Drawings(t) \cap Drawings(s)
      OBVIOUS
    <3> QED
      BY <3>1 DEF DrawingReference
  <2>5. \A least, weight : Words(s, t, least, weight) = Words(t, s, least, weight)
    BY DEF Words
  <2>6. \A least, weight : Meaning(s, t, m, least, weight) = Meaning(t, s, m, least, weight)
    BY DEF Meaning
  <2> QED
    BY <2>2, <2>3, <2>4, <2>5, <2>6 DEF ConstructionEvidence
<1>10. Confidence(t, s, m) = Confidence(s, t, m)
  BY <1>3, <1>7, <1>9 DEF Confidence
<1> QED
  BY <1>8, <1>10 DEF Matches

LEMMA EngineInitInv == EngineInit => EngineInv
<1> SUFFICES ASSUME EngineInit PROVE EngineInv
  OBVIOUS
<1> USE DEF EngineInit
<1>1. DOMAIN entities = {} /\ DOMAIN meaning = {} /\ DOMAIN searched = {}
  OBVIOUS
<1>2. Waiters = {}
  BY DEF Waiters, Waits
<1>3. EngineTyped
  BY <1>1, EngineAssumption DEF EngineTyped
<1>4. AskersTyped /\ OneAsker /\ StoredIsOwn
  BY DEF AskersTyped, OneAsker, StoredIsOwn, Waits
<1>5. CallsCounted
  <2>1. IsFiniteSet(Waiters) /\ Cardinality(Waiters) = 0
    BY <1>2, FS_EmptySet
  <2>2. Searches = 0
    BY <2>1 DEF Searches, Waiters
  <2> QED
    BY <1>1, <2>1, <2>2 DEF CallsCounted
<1>6. LookedForOrAwaited /\ MeaningIsFresh /\ LookedForAreLinked /\ LinksAreTrue
  BY <1>1 DEF LookedForOrAwaited, MeaningIsFresh, LookedForAreLinked, LinksAreTrue
<1> QED
  BY <1>3, <1>4, <1>5, <1>6 DEF EngineInv

-----------------------------------------------------------------------------
\* What a document's processing stores before it awaits anything.
StoresFound(d, found, order) ==
    /\ entities' = Stored(found) /\ meaning' = Unread(found)
    /\ listed' = [listed EXCEPT ![d] = Ids(found)]
    /\ searched' = Over([i \in Ids(found) |-> order], searched)
    /\ processed < MaxProcessed /\ processed' = processed + 1
    /\ UNCHANGED <<withModel, embedFaults>>

\* The tables after that, of a document that has entities of its own ids only.
Grown(d, found, order) ==
    /\ DOMAIN entities' = DOMAIN entities \cup Ids(found)
    /\ DOMAIN meaning' = DOMAIN entities' /\ DOMAIN searched' = DOMAIN entities'
    /\ \A i \in Ids(found) : entities'[i] = ById(found)[i] /\ entities'[i] \in found
                             /\ searched'[i] = order /\ i[1] = d
                             /\ (i \notin DOMAIN entities => meaning'[i] = NoCode)
    /\ \A i \in DOMAIN entities : meaning'[i] = meaning[i]
    /\ \A i \in DOMAIN entities \ Ids(found) : entities'[i] = entities[i] /\ searched'[i] = searched[i]
    /\ \A i \in DOMAIN entities' : entities'[i].id = i /\ entities'[i].document = i[1]
    /\ \A k \in Documents : listed'[k] \subseteq {i \in DOMAIN entities' : i[1] = k}
    /\ listed' = [k \in Documents |-> listed'[k]]

LEMMA TablesGrow ==
    ASSUME EngineTyped, NEW d \in Documents, NEW found, NEW order, StoresFound(d, found, order),
           \A e \in found : e.id[1] = d /\ e.document = d
    PROVE  Grown(d, found, order)
<1> USE DEF EngineTyped, StoresFound
<1>1. /\ DOMAIN entities' = DOMAIN entities \cup Ids(found)
      /\ \A i \in Ids(found) : entities'[i] = ById(found)[i]
      /\ \A i \in DOMAIN entities \ Ids(found) : entities'[i] = entities[i]
  BY StoredIs, ZenonT(40)
<1>2. DOMAIN meaning' = DOMAIN meaning \cup Ids(found)
  BY DEF Unread, Over
<1>3. DOMAIN searched' = DOMAIN searched \cup Ids(found)
  BY DEF Over
<1>4. \A i \in Ids(found) : ById(found)[i] \in found /\ ById(found)[i].id = i
  BY ByIdIs
<1>5. \A i \in Ids(found) : searched'[i] = order
  BY <1>3 DEF Over
<1>6. \A i \in DOMAIN entities \ Ids(found) : searched'[i] = searched[i]
  BY <1>3 DEF Over
<1>7. \A i \in DOMAIN entities : meaning'[i] = meaning[i]
  BY <1>2 DEF Unread, Over
<1>8. \A i \in Ids(found) : i \notin DOMAIN entities => meaning'[i] = NoCode
  BY <1>2 DEF Unread, Over
<1>9. \A i \in Ids(found) : i[1] = d /\ entities'[i].document = d /\ entities'[i].id = i
  BY <1>1, <1>4
<1>10. \A i \in DOMAIN entities' : entities'[i].id = i /\ entities'[i].document = i[1]
  BY <1>1, <1>9
<1>11. \A k \in Documents : listed'[k] \subseteq {i \in DOMAIN entities' : i[1] = k}
  BY <1>1, <1>9
<1> QED
  BY <1>1, <1>2, <1>3, <1>4, <1>5, <1>6, <1>7, <1>8, <1>9, <1>10, <1>11 DEF Grown

\* Of an entity that was not stored anew, and is settled after a step, all is as it was.
LEMMA FreshStays ==
    ASSUME EngineTyped, UNCHANGED withModel, NEW i \in DOMAIN entities, DOMAIN entities \subseteq DOMAIN entities',
           entities'[i] = entities[i]
    PROVE  FreshMeaning'[i] = FreshMeaning[i]
BY DEF FreshMeaning

LEMMA MatchesStays ==
    ASSUME EngineTyped, UNCHANGED withModel, DOMAIN entities \subseteq DOMAIN entities',
           NEW i \in DOMAIN entities, NEW j \in DOMAIN entities,
           entities'[i] = entities[i], entities'[j] = entities[j]
    PROVE  Matches(entities[i], entities[j], FreshMeaning') <=> Matches(entities[i], entities[j], FreshMeaning)
<1>1. FreshMeaning'[i] = FreshMeaning[i] /\ FreshMeaning'[j] = FreshMeaning[j]
  BY FreshStays
<1>2. entities[i].id = i /\ entities[j].id = j
  BY DEF EngineTyped
<1> HIDE DEF FreshMeaning
<1> DEFINE m == FreshMeaning'
           n == FreshMeaning
<1>3. m[entities[i].id] = n[entities[i].id] /\ m[entities[j].id] = n[entities[j].id]
  BY <1>1, <1>2
<1> HIDE DEF m, n
<1>4. Matches(entities[i], entities[j], m) <=> Matches(entities[i], entities[j], n)
  BY <1>3, MatchesIsLocal
<1> QED
  BY <1>4 DEF m, n

\* A step after which everything settled was so before, and no link is new, keeps what is known
\* of it.
LEMMA LookedForStay ==
    ASSUME EngineTyped, EngineTyped', MeaningIsFresh, LookedForAreLinked, LinksAreTrue,
           UNCHANGED <<withModel, links, embedFaults>>, DOMAIN entities \subseteq DOMAIN entities',
           \A i \in DOMAIN entities' : LookedFor(i)' =>
               i \in DOMAIN entities /\ LookedFor(i) /\ entities'[i] = entities[i]
               /\ searched'[i] = searched[i] /\ meaning'[i] = meaning[i]
    PROVE  MeaningIsFresh' /\ LookedForAreLinked' /\ LinksAreTrue'
<1>1. MeaningIsFresh'
  <2> SUFFICES ASSUME embedFaults' = 0, NEW i \in DOMAIN entities', LookedFor(i)'
               PROVE  meaning'[i] = FreshMeaning'[i]
    BY DEF MeaningIsFresh
  <2>1. i \in DOMAIN entities /\ LookedFor(i) /\ entities'[i] = entities[i] /\ meaning'[i] = meaning[i]
    OBVIOUS
  <2>2. FreshMeaning'[i] = FreshMeaning[i]
    BY <2>1, FreshStays
  <2> QED
    BY <2>1, <2>2 DEF MeaningIsFresh
<1>2. LookedForAreLinked'
  <2> SUFFICES ASSUME embedFaults' = 0, NEW i \in DOMAIN entities', NEW j \in DOMAIN entities',
                      LookedFor(i)', LookedFor(j)', Matches(entities'[i], entities'[j], FreshMeaning'),
                      searched'[i] >= searched'[j] \/ entities'[i].kind \in ConstructionKinds
               PROVE  \E l \in links' : {l.source, l.target} = {entities'[i], entities'[j]}
    BY DEF LookedForAreLinked
  <2>1. /\ i \in DOMAIN entities /\ LookedFor(i) /\ entities'[i] = entities[i] /\ searched'[i] = searched[i]
        /\ j \in DOMAIN entities /\ LookedFor(j) /\ entities'[j] = entities[j] /\ searched'[j] = searched[j]
    OBVIOUS
  <2>2. Matches(entities[i], entities[j], FreshMeaning)
    BY <2>1, MatchesStays
  <2>3. searched[i] >= searched[j] \/ entities[i].kind \in ConstructionKinds
    BY <2>1
  <2> QED
    BY <2>1, <2>2, <2>3 DEF LookedForAreLinked
<1>3. LinksAreTrue'
  <2> SUFFICES ASSUME embedFaults' = 0, NEW l \in links',
                      \A e \in {l.source, l.target} :
                          LookedFor(e.id)' /\ e = entities'[e.id] /\ searched'[e.id] <= l.call
               PROVE  Matches(l.source, l.target, FreshMeaning')
    BY DEF LinksAreTrue
  <2>1. l \in links /\ l.source.id \in DOMAIN entities /\ l.target.id \in DOMAIN entities
    BY DEF EngineTyped
  <2>2. \A e \in {l.source, l.target} :
            /\ e.id \in DOMAIN entities /\ LookedFor(e.id) /\ e = entities[e.id] /\ searched[e.id] <= l.call
            /\ entities'[e.id] = entities[e.id]
    BY <2>1
  <2>3. Matches(l.source, l.target, FreshMeaning)
    BY <2>1, <2>2 DEF LinksAreTrue
  <2>4. Matches(entities[l.source.id], entities[l.target.id], FreshMeaning')
        <=> Matches(entities[l.source.id], entities[l.target.id], FreshMeaning)
    BY <2>2, MatchesStays
  <2> QED
    BY <2>2, <2>3, <2>4
<1> QED
  BY <1>1, <1>2, <1>3

-----------------------------------------------------------------------------
\* A coroutine stores what it found and waits.
LEMMA BeginProcessStep ==
    ASSUME EngineInv, NEW a \in Askers, NEW d \in Documents, NEW content \in Texts, BeginProcess(a, d, content)
    PROVE  EngineInv'
<1> DEFINE found == Extracted(d, content)
<1>1. /\ ~Waits(a) /\ withModel /\ found # {}
      /\ StoresFound(d, found, 0)
      /\ asking' = [asking EXCEPT ![a] = [document |-> d, found |-> found]]
      /\ atOnce' = IF \E b \in Askers : asking[b].document = d THEN atOnce \cup {d} ELSE atOnce
      /\ UNCHANGED links
  BY DEF BeginProcess, StoresFound
<1>2. \A e \in found : e.id[1] = d /\ e.document = d
  BY ExtractedAre
<1> HIDE DEF found
<1>3. EngineTyped /\ AskersTyped /\ CallsCounted
  BY DEF EngineInv
<1>4. /\ DOMAIN entities' = DOMAIN entities \cup Ids(found)
      /\ DOMAIN meaning' = DOMAIN entities' /\ DOMAIN searched' = DOMAIN entities'
      /\ \A i \in Ids(found) : entities'[i] = ById(found)[i] /\ entities'[i] \in found
                               /\ searched'[i] = 0 /\ i[1] = d
      /\ \A i \in DOMAIN entities : meaning'[i] = meaning[i]
      /\ \A i \in DOMAIN entities \ Ids(found) : entities'[i] = entities[i] /\ searched'[i] = searched[i]
      /\ \A i \in DOMAIN entities' : entities'[i].id = i /\ entities'[i].document = i[1]
      /\ \A k \in Documents : listed'[k] \subseteq {i \in DOMAIN entities' : i[1] = k}
      /\ listed' = [k \in Documents |-> listed'[k]]
  <2>1. StoresFound(d, found, 0) /\ EngineTyped
    BY <1>1, <1>3
  <2>2. Grown(d, found, 0)
    BY <2>1, <1>2, TablesGrow
  <2> QED
    BY <2>2 DEF Grown
<1>5. /\ processed < MaxProcessed /\ processed' = processed + 1
      /\ UNCHANGED <<withModel, embedFaults>> /\ atOnce \subseteq atOnce'
  BY <1>1 DEF StoresFound
<1>6. /\ asking'[a] = [document |-> d, found |-> found]
      /\ \A b \in Askers \ {a} : asking'[b] = asking[b]
      /\ asking' = [b \in Askers |-> asking'[b]]
  BY <1>1, <1>3 DEF AskersTyped
<1>7. Waits(a)' /\ \A b \in Askers \ {a} : Waits(b)' <=> Waits(b)
  <2>1. asking'[a].found = found /\ NotAsking.found = {}
    BY <1>6 DEF NotAsking
  <2>2. asking'[a] # NotAsking
    BY <2>1, <1>1
  <2> QED
    BY <2>2, <1>6 DEF Waits
<1>8. EngineTyped'
  <2>1. processed' \in 0 .. MaxProcessed
    BY <1>3, <1>5, EngineAssumption DEF EngineTyped
  <2>2. atOnce' \subseteq Documents
    BY <1>1, <1>3 DEF EngineTyped
  <2> QED
    BY <1>1, <1>3, <1>4, <1>5, <2>1, <2>2 DEF EngineTyped
<1>9. AskersTyped'
  <2> SUFFICES ASSUME NEW b \in Askers, Waits(b)'
               PROVE  /\ withModel' /\ asking'[b].document \in Documents
                      /\ \A e \in asking'[b].found : e.id \in DOMAIN entities' /\ e.id[1] = asking'[b].document
                                                    /\ e.document = asking'[b].document
    BY <1>6 DEF AskersTyped
  <2>1. CASE b = a
    BY <2>1, <1>1, <1>2, <1>4, <1>5, <1>6 DEF Ids
  <2>2. CASE b # a
    BY <2>2, <1>3, <1>4, <1>5, <1>6, <1>7 DEF AskersTyped
  <2> QED
    BY <2>1, <2>2
<1>10. IsFiniteSet(Waiters') /\ Searches' = Searches /\ Searches \in Nat
  <2>1. Waiters' = Waiters \cup {a} /\ a \notin Waiters
    BY <1>1, <1>7 DEF Waiters
  <2>2. IsFiniteSet(Waiters) /\ Searches \in Nat
    BY <1>3 DEF CallsCounted
  <2>3. IsFiniteSet(Waiters') /\ Cardinality(Waiters') = Cardinality(Waiters) + 1 /\ Cardinality(Waiters) \in Nat
    BY <2>1, <2>2, FS_AddElement, FS_CardinalityType
  <2>4. Searches = processed - Cardinality(Waiters) /\ Searches' = processed' - Cardinality(Waiters')
    BY DEF Searches, Waiters
  <2> QED
    BY <2>2, <2>3, <2>4, <1>3, <1>5 DEF EngineTyped
<1>11. CallsCounted'
  <2>1. \A i \in DOMAIN entities' : searched'[i] \in 0 .. Searches'
    BY <1>3, <1>4, <1>10 DEF CallsCounted
  <2>2. \A l \in links' : l.call \in 1 .. Searches'
    BY <1>1, <1>3, <1>10 DEF CallsCounted
  <2> QED
    BY <1>10, <2>1, <2>2 DEF CallsCounted
<1>12. OneAsker'
  BY <1>1, <1>5, <1>6, <1>7 DEF EngineInv, OneAsker
<1>13. StoredIsOwn'
  <2> SUFFICES ASSUME NEW b \in Askers, Waits(b)', asking'[b].document \notin atOnce',
                      NEW i \in Ids(asking'[b].found)
               PROVE  entities'[i] = ById(asking'[b].found)[i]
    BY DEF StoredIsOwn
  <2>1. CASE b = a
    BY <2>1, <1>4, <1>6
  <2>2. CASE b # a
    <3>1. Waits(b) /\ asking'[b] = asking[b]
      BY <2>2, <1>6, <1>7
    <3>2. asking[b].document # d
      BY <3>1, <1>1
    <3>3. i \in DOMAIN entities /\ i[1] = asking[b].document
      BY <3>1, <1>3 DEF AskersTyped, Ids
    <3>4. i \notin Ids(found)
      BY <3>2, <3>3, <1>4
    <3>5. entities[i] = ById(asking[b].found)[i]
      BY <3>1, <1>5 DEF EngineInv, StoredIsOwn
    <3> QED
      BY <3>1, <3>3, <3>4, <3>5, <1>4
  <2> QED
    BY <2>1, <2>2
<1>14. LookedForOrAwaited'
  <2> SUFFICES ASSUME NEW i \in DOMAIN entities'
               PROVE  searched'[i] # 0 \/ \E b \in Askers : Waits(b)' /\ i \in Ids(asking'[b].found)
    BY DEF LookedForOrAwaited
  <2>1. CASE i \in Ids(found)
    BY <2>1, <1>6, <1>7
  <2>2. CASE i \notin Ids(found)
    <3>1. i \in DOMAIN entities /\ searched'[i] = searched[i]
      BY <2>2, <1>4
    <3>2. searched[i] # 0 \/ \E b \in Askers : Waits(b) /\ i \in Ids(asking[b].found)
      BY <3>1 DEF EngineInv, LookedForOrAwaited
    <3> QED
      BY <3>1, <3>2, <1>1, <1>6, <1>7
  <2> QED
    BY <2>1, <2>2
<1>15. \A i \in DOMAIN entities' : LookedFor(i)' =>
           i \in DOMAIN entities /\ LookedFor(i) /\ entities'[i] = entities[i]
           /\ searched'[i] = searched[i] /\ meaning'[i] = meaning[i]
  BY <1>4, <1>5 DEF LookedFor
<1>16. MeaningIsFresh' /\ LookedForAreLinked' /\ LinksAreTrue'
  <2>1. MeaningIsFresh /\ LookedForAreLinked /\ LinksAreTrue
    BY DEF EngineInv
  <2>2. UNCHANGED <<withModel, links, embedFaults>> /\ DOMAIN entities \subseteq DOMAIN entities'
    BY <1>1, <1>4, <1>5
  <2> QED
    BY <1>3, <1>8, <1>15, <2>1, <2>2, LookedForStay
<1> QED
  BY <1>8, <1>9, <1>11, <1>12, <1>13, <1>14, <1>16 DEF EngineInv

-----------------------------------------------------------------------------
\* A search for links is the last of what it found, and finds what its entities match.
LEMMA SearchLinks ==
    ASSUME EngineTyped, EngineTyped', CallsCounted, LookedForAreLinked, LinksAreTrue, MeaningIsFresh',
           UNCHANGED withModel, embedFaults' = 0 => embedFaults = 0, atOnce \subseteq atOnce',
           NEW found,
           DOMAIN entities' = DOMAIN entities \cup Ids(found),
           links' = links \cup LinksFrom(found, entities', meaning'),
           \A i \in Ids(found) : searched'[i] = Searches + 1 /\ (i[1] \notin atOnce' => entities'[i] \in found),
           \A i \in DOMAIN entities \ Ids(found) : entities'[i] = entities[i] /\ searched'[i] = searched[i],
           Searches' = Searches + 1
    PROVE  /\ LookedForAreLinked' /\ LinksAreTrue' /\ \A l \in links' : l.call \in 1 .. Searches'
           /\ \A l \in links' \ links : l.source \in found /\ \E i \in DOMAIN entities' : l.target = entities'[i]
<1> DEFINE now == Searches + 1
<1>1. now \in Nat \ {0} /\ Searches \in Nat /\ \A i \in DOMAIN entities : searched[i] \in 0 .. Searches
  BY DEF CallsCounted
<1>2. \A i, j \in DOMAIN entities' :
          LookedFor(i)' /\ LookedFor(j)' /\ embedFaults' = 0
          => (Matches(entities'[i], entities'[j], meaning') <=> Matches(entities'[i], entities'[j], FreshMeaning'))
  <2> SUFFICES ASSUME NEW i \in DOMAIN entities', NEW j \in DOMAIN entities', LookedFor(i)', LookedFor(j)', embedFaults' = 0
               PROVE  Matches(entities'[i], entities'[j], meaning') <=> Matches(entities'[i], entities'[j], FreshMeaning')
    OBVIOUS
  <2>1. meaning'[i] = FreshMeaning'[i] /\ meaning'[j] = FreshMeaning'[j]
    BY DEF MeaningIsFresh
  <2>2. entities'[i].id = i /\ entities'[j].id = j
    BY DEF EngineTyped
  <2> DEFINE n == FreshMeaning'
             m == meaning'
  <2>3. m[entities'[i].id] = n[entities'[i].id] /\ m[entities'[j].id] = n[entities'[j].id]
    BY <2>1, <2>2
  <2> HIDE DEF m, n
  <2>4. Matches(entities'[i], entities'[j], m) <=> Matches(entities'[i], entities'[j], n)
    BY <2>3, MatchesIsLocal
  <2> QED
    BY <2>4 DEF m, n
<1>3. \A s \in found, j \in DOMAIN entities' : Matches(s, entities'[j], meaning') =>
          \E l \in links' : l.source = s /\ l.target = entities'[j]
  <2> SUFFICES ASSUME NEW s \in found, NEW j \in DOMAIN entities', Matches(s, entities'[j], meaning')
               PROVE  \E l \in links' : l.source = s /\ l.target = entities'[j]
    OBVIOUS
  <2>1. [source |-> s, target |-> entities'[j], call |-> Searches + 1] \in LinksFrom(found, entities', meaning')
    <3>1. entities'[j] \in Targets(found, entities')
      BY DEF Targets
    <3>2. <<s, entities'[j]>> \in {q \in found \X Targets(found, entities') : Matches(q[1], q[2], meaning')}
      BY <3>1
    <3> QED
      BY <3>2 DEF LinksFrom
  <2> QED
    BY <2>1
<1>4. \A l \in links' \ links :
          /\ l.source \in found /\ l.call = now /\ Matches(l.source, l.target, meaning')
          /\ \E j \in DOMAIN entities' : l.target = entities'[j]
  BY DEF LinksFrom, Targets
<1>5. \A l \in links' : l.call \in 1 .. Searches'
  <2> SUFFICES ASSUME NEW l \in links' PROVE l.call \in 1 .. Searches'
    OBVIOUS
  <2>1. CASE l \in links
    BY <2>1, <1>1 DEF CallsCounted
  <2>2. CASE l \notin links
    BY <2>2, <1>1, <1>4
  <2> QED
    BY <2>1, <2>2
<1>6. LookedForAreLinked'
  <2> SUFFICES ASSUME embedFaults' = 0, NEW i \in DOMAIN entities', NEW j \in DOMAIN entities',
                      LookedFor(i)', LookedFor(j)', Matches(entities'[i], entities'[j], FreshMeaning'),
                      searched'[i] >= searched'[j] \/ entities'[i].kind \in ConstructionKinds
               PROVE  \E l \in links' : {l.source, l.target} = {entities'[i], entities'[j]}
    BY DEF LookedForAreLinked
  <2>1. Matches(entities'[i], entities'[j], meaning')
    BY <1>2
  <2>2. CASE i \in Ids(found)
    <3>1. entities'[i] \in found
      BY <2>2 DEF LookedFor
    <3> QED
      BY <3>1, <2>1, <1>3
  <2>3. CASE i \notin Ids(found) /\ j \in Ids(found)
    <3>1. entities'[j] \in found /\ searched'[j] = now
      BY <2>3 DEF LookedFor
    <3>2. i \in DOMAIN entities /\ searched'[i] = searched[i]
      BY <2>3
    <3>3. ~(searched'[i] >= searched'[j])
      BY <3>1, <3>2, <1>1
    <3>4. Matches(entities'[j], entities'[i], meaning')
      BY <3>3, <2>1, ConstructionIsSymmetric
    <3>5. PICK l \in links' : l.source = entities'[j] /\ l.target = entities'[i]
      BY <3>1, <3>4, <1>3
    <3> QED
      BY <3>5
  <2>4. CASE i \notin Ids(found) /\ j \notin Ids(found)
    <3>1. /\ i \in DOMAIN entities /\ entities'[i] = entities[i] /\ searched'[i] = searched[i]
          /\ j \in DOMAIN entities /\ entities'[j] = entities[j] /\ searched'[j] = searched[j]
      BY <2>4
    <3>2. LookedFor(i) /\ LookedFor(j)
      BY <3>1 DEF LookedFor
    <3>3. Matches(entities[i], entities[j], FreshMeaning)
      BY <3>1, MatchesStays
    <3>4. \E l \in links : {l.source, l.target} = {entities[i], entities[j]}
      BY <3>1, <3>2, <3>3 DEF LookedForAreLinked
    <3> QED
      BY <3>1, <3>4
  <2> QED
    BY <2>2, <2>3, <2>4
<1>7. LinksAreTrue'
  <2> SUFFICES ASSUME embedFaults' = 0, NEW l \in links',
                      \A e \in {l.source, l.target} :
                          LookedFor(e.id)' /\ e = entities'[e.id] /\ searched'[e.id] <= l.call
               PROVE  Matches(l.source, l.target, FreshMeaning')
    BY DEF LinksAreTrue
  <2>1. l.source.id \in DOMAIN entities' /\ l.target.id \in DOMAIN entities'
    BY DEF EngineTyped
  <2>2. CASE l \in links
    <3>1. l.call \in 1 .. Searches /\ l.source.id \in DOMAIN entities /\ l.target.id \in DOMAIN entities
      BY <2>2 DEF CallsCounted, EngineTyped
    <3>2. l.source.id \notin Ids(found) /\ l.target.id \notin Ids(found)
      BY <3>1, <1>1
    <3>3. \A e \in {l.source, l.target} :
              /\ e.id \in DOMAIN entities /\ LookedFor(e.id) /\ e = entities[e.id] /\ searched[e.id] <= l.call
              /\ entities'[e.id] = entities[e.id]
      BY <3>1, <3>2 DEF LookedFor
    <3>4. Matches(l.source, l.target, FreshMeaning)
      BY <2>2, <3>3 DEF LinksAreTrue
    <3>5. Matches(entities[l.source.id], entities[l.target.id], FreshMeaning')
          <=> Matches(entities[l.source.id], entities[l.target.id], FreshMeaning)
      BY <3>3, MatchesStays
    <3> QED
      BY <3>3, <3>4, <3>5
  <2>3. CASE l \notin links
    <3>1. Matches(l.source, l.target, meaning')
      BY <2>3, <1>4
    <3>2. Matches(entities'[l.source.id], entities'[l.target.id], meaning')
          <=> Matches(entities'[l.source.id], entities'[l.target.id], FreshMeaning')
      BY <2>1, <1>2
    <3> QED
      BY <3>1, <3>2
  <2> QED
    BY <2>2, <2>3
<1> QED
  BY <1>4, <1>5, <1>6, <1>7

\* A coroutine that has nothing to wait for looks for links at once.
LEMMA ProcessDirectStep ==
    ASSUME EngineInv, NEW a \in Askers, NEW d \in Documents, NEW content \in Texts, ProcessDirect(a, d, content)
    PROVE  EngineInv'
<1> DEFINE found == Extracted(d, content)
<1>1. /\ ~withModel \/ found = {}
      /\ StoresFound(d, found, Searches + 1)
      /\ links' = links \cup LinksFrom(found, entities', meaning')
      /\ UNCHANGED <<asking, atOnce>>
  BY DEF ProcessDirect, StoresFound
<1>2. \A e \in found : e.id[1] = d /\ e.document = d
  BY ExtractedAre
<1> HIDE DEF found
<1>3. EngineTyped /\ AskersTyped /\ CallsCounted
  BY DEF EngineInv
<1>4. Grown(d, found, Searches + 1)
  BY <1>1, <1>2, <1>3, TablesGrow
<1>5. processed < MaxProcessed /\ processed' = processed + 1 /\ UNCHANGED <<withModel, embedFaults>>
  BY <1>1 DEF StoresFound
<1>6. \A b \in Askers : Waits(b)' <=> Waits(b)
  BY <1>1 DEF Waits
<1>7. \A b \in Askers : Waits(b) => withModel /\ Ids(found) = {}
  BY <1>1, <1>3 DEF AskersTyped, Ids
<1>8. Searches' = Searches + 1 /\ IsFiniteSet(Waiters')
  <2>1. Waiters' = Waiters
    BY <1>6 DEF Waiters
  <2>2. Searches = processed - Cardinality(Waiters) /\ Searches' = processed' - Cardinality(Waiters')
    BY DEF Searches, Waiters
  <2>3. Cardinality(Waiters) \in Nat /\ IsFiniteSet(Waiters)
    BY <1>3, FS_CardinalityType DEF CallsCounted
  <2> QED
    BY <2>1, <2>2, <2>3, <1>3, <1>5 DEF EngineTyped
<1>9. \A l \in links' \ links :
          l.source.id \in Ids(found) /\ l.source.document = d /\ \E i \in DOMAIN entities' : l.target = entities'[i]
  <2>1. \A l \in links' \ links : l.source \in found /\ \E i \in DOMAIN entities' : l.target = entities'[i]
    BY <1>1 DEF LinksFrom, Targets
  <2> QED
    BY <2>1, <1>2 DEF Ids
<1>10. EngineTyped'
  <2>1. processed' \in 0 .. MaxProcessed
    BY <1>3, <1>5, EngineAssumption DEF EngineTyped
  <2>2. \A l \in links' : /\ l.source.id \in DOMAIN entities' /\ l.target.id \in DOMAIN entities'
                          /\ l.source.document = l.source.id[1] /\ l.target.document = l.target.id[1]
    <3> SUFFICES ASSUME NEW l \in links'
                 PROVE  /\ l.source.id \in DOMAIN entities' /\ l.target.id \in DOMAIN entities'
                        /\ l.source.document = l.source.id[1] /\ l.target.document = l.target.id[1]
      OBVIOUS
    <3>1. CASE l \in links
      BY <3>1, <1>3, <1>4 DEF EngineTyped, Grown
    <3>2. CASE l \notin links
      BY <3>2, <1>4, <1>9 DEF Grown
    <3> QED
      BY <3>1, <3>2
  <2>3. ~withModel' => \A i \in DOMAIN entities' : meaning'[i] = NoCode
    BY <1>3, <1>4, <1>5 DEF EngineTyped, Grown
  <2> QED
    BY <1>1, <1>3, <1>4, <1>5, <2>1, <2>2, <2>3 DEF EngineTyped, Grown
<1>11. AskersTyped'
  BY <1>1, <1>3, <1>4, <1>5, <1>6 DEF AskersTyped, Grown
<1>12. OneAsker'
  BY <1>1, <1>6 DEF EngineInv, OneAsker
<1>13. StoredIsOwn'
  <2> SUFFICES ASSUME NEW b \in Askers, Waits(b), asking[b].document \notin atOnce, NEW i \in Ids(asking[b].found)
               PROVE  entities'[i] = ById(asking[b].found)[i]
    BY <1>1, <1>6 DEF StoredIsOwn
  <2>1. i \in DOMAIN entities
    BY <1>3 DEF AskersTyped, Ids
  <2>2. entities'[i] = entities[i]
    BY <2>1, <1>4, <1>7 DEF Grown
  <2> QED
    BY <2>2 DEF EngineInv, StoredIsOwn
<1>14. LookedForOrAwaited'
  <2>1. Searches + 1 # 0
    BY <1>3 DEF CallsCounted
  <2> QED
    BY <2>1, <1>1, <1>4, <1>6 DEF EngineInv, LookedForOrAwaited, Grown
<1>15. MeaningIsFresh'
  <2> SUFFICES ASSUME embedFaults' = 0, NEW i \in DOMAIN entities', LookedFor(i)'
               PROVE  meaning'[i] = FreshMeaning'[i]
    BY DEF MeaningIsFresh
  <2>1. CASE i \in Ids(found)
    <3>1. ~withModel'
      BY <2>1, <1>1, <1>5 DEF Ids
    <3>2. meaning'[i] = NoCode
      BY <3>1, <1>10 DEF EngineTyped
    <3> QED
      BY <3>1, <3>2 DEF FreshMeaning
  <2>2. CASE i \notin Ids(found)
    <3>1. i \in DOMAIN entities /\ entities'[i] = entities[i] /\ searched'[i] = searched[i] /\ meaning'[i] = meaning[i]
      BY <2>2, <1>4 DEF Grown
    <3>2. LookedFor(i)
      BY <3>1, <1>1 DEF LookedFor
    <3>3. FreshMeaning'[i] = FreshMeaning[i]
      BY <3>1, <1>3, <1>4, <1>5, FreshStays DEF Grown
    <3> QED
      BY <3>1, <3>2, <3>3, <1>5 DEF EngineInv, MeaningIsFresh
  <2> QED
    BY <2>1, <2>2
<1>16. LookedForAreLinked' /\ LinksAreTrue' /\ \A l \in links' : l.call \in 1 .. Searches'
  <2>1. /\ \A i \in Ids(found) : searched'[i] = Searches + 1 /\ (i[1] \notin atOnce' => entities'[i] \in found)
        /\ \A i \in DOMAIN entities \ Ids(found) : entities'[i] = entities[i] /\ searched'[i] = searched[i]
        /\ DOMAIN entities' = DOMAIN entities \cup Ids(found)
    BY <1>4 DEF Grown
  <2>2. LookedForAreLinked /\ LinksAreTrue /\ atOnce \subseteq atOnce' /\ UNCHANGED <<withModel, embedFaults>>
    BY <1>1, <1>5 DEF EngineInv
  <2> QED
    BY <1>1, <1>3, <1>8, <1>10, <1>15, <2>1, <2>2, SearchLinks
<1>17. CallsCounted'
  <2>1. Searches \in Nat
    BY <1>3 DEF CallsCounted
  <2>2. \A i \in DOMAIN entities' : searched'[i] \in 0 .. Searches'
    <3> SUFFICES ASSUME NEW i \in DOMAIN entities' PROVE searched'[i] \in 0 .. Searches'
      OBVIOUS
    <3>1. CASE i \in Ids(found)
      BY <3>1, <2>1, <1>4, <1>8 DEF Grown
    <3>2. CASE i \notin Ids(found)
      BY <3>2, <2>1, <1>3, <1>4, <1>8 DEF Grown, CallsCounted
    <3> QED
      BY <3>1, <3>2
  <2> QED
    BY <2>1, <2>2, <1>8, <1>16 DEF CallsCounted
<1> QED
  BY <1>10, <1>11, <1>12, <1>13, <1>14, <1>15, <1>16, <1>17 DEF EngineInv

\* A coroutine goes on with what it found, whether or not it has its embeddings.
LEMMA ResumeStep ==
    ASSUME EngineInv, NEW a \in Askers, EmbeddingsReturn(a) \/ EmbeddingRaises(a)
    PROVE  EngineInv'
<1> DEFINE found == asking[a].found
<1>1. /\ Waits(a)
      /\ links' = links \cup LinksFrom(found, entities, meaning')
      /\ searched' = Over([i \in Ids(found) |-> Searches + 1], searched)
      /\ asking' = [asking EXCEPT ![a] = NotAsking]
      /\ UNCHANGED <<withModel, entities, listed, processed, atOnce>>
  BY DEF EmbeddingsReturn, EmbeddingRaises, Resume
<1>2. embedFaults' \in 0 .. MaxEmbedFaults /\ (embedFaults' = 0 => embedFaults = 0 /\ meaning' = Read(found))
      /\ (meaning' = meaning \/ meaning' = Read(found))
  BY EngineAssumption DEF EmbeddingsReturn, EmbeddingRaises, Resume, EngineInv, EngineTyped
<1>3. EngineTyped /\ AskersTyped /\ CallsCounted
  BY DEF EngineInv
<1>4. withModel /\ \A e \in found : e.id \in DOMAIN entities /\ e.id[1] = asking[a].document
                                    /\ e.document = asking[a].document
  BY <1>1, <1>3 DEF AskersTyped
<1>5. Ids(found) \subseteq DOMAIN entities
  BY <1>4 DEF Ids
<1>6. /\ DOMAIN searched' = DOMAIN entities /\ \A i \in Ids(found) : searched'[i] = Searches + 1
      /\ \A i \in DOMAIN entities \ Ids(found) : searched'[i] = searched[i]
  BY <1>1, <1>3, <1>5 DEF Over, EngineTyped
<1>7. /\ DOMAIN Read(found) = DOMAIN entities
      /\ \A i \in Ids(found) : Read(found)[i] = ById(found)[i].says.topic
      /\ \A i \in DOMAIN entities \ Ids(found) : Read(found)[i] = meaning[i]
  BY <1>3, <1>5 DEF Read, Over, EngineTyped
<1>8. /\ asking'[a] = NotAsking /\ \A b \in Askers \ {a} : asking'[b] = asking[b]
      /\ asking' = [b \in Askers |-> asking'[b]]
  BY <1>1, <1>3 DEF AskersTyped
<1>9. ~Waits(a)' /\ \A b \in Askers \ {a} : Waits(b)' <=> Waits(b)
  BY <1>8 DEF Waits
<1>10. Searches' = Searches + 1 /\ IsFiniteSet(Waiters') /\ Searches \in Nat
  <2>1. Waiters' = Waiters \ {a} /\ a \in Waiters
    BY <1>1, <1>9 DEF Waiters
  <2>2. IsFiniteSet(Waiters) /\ Searches \in Nat
    BY <1>3 DEF CallsCounted
  <2>3. IsFiniteSet(Waiters') /\ Cardinality(Waiters') = Cardinality(Waiters) - 1 /\ Cardinality(Waiters) \in Nat
    BY <2>1, <2>2, FS_RemoveElement, FS_CardinalityType
  <2>4. Searches = processed - Cardinality(Waiters) /\ Searches' = processed' - Cardinality(Waiters')
    BY DEF Searches, Waiters
  <2> QED
    BY <2>2, <2>3, <2>4, <1>1, <1>3 DEF EngineTyped
<1>11. \A l \in links' \ links : l.source \in found /\ \E i \in DOMAIN entities : l.target = entities[i]
  BY <1>1 DEF LinksFrom, Targets
<1>12. EngineTyped'
  <2>1. \A l \in links' : /\ l.source.id \in DOMAIN entities /\ l.target.id \in DOMAIN entities
                          /\ l.source.document = l.source.id[1] /\ l.target.document = l.target.id[1]
    <3> SUFFICES ASSUME NEW l \in links'
                 PROVE  /\ l.source.id \in DOMAIN entities /\ l.target.id \in DOMAIN entities
                        /\ l.source.document = l.source.id[1] /\ l.target.document = l.target.id[1]
      OBVIOUS
    <3>1. CASE l \in links
      BY <3>1, <1>3 DEF EngineTyped
    <3>2. CASE l \notin links
      BY <3>2, <1>3, <1>4, <1>11 DEF EngineTyped
    <3> QED
      BY <3>1, <3>2
  <2>2. DOMAIN meaning' = DOMAIN entities'
    BY <1>1, <1>2, <1>3, <1>7 DEF EngineTyped
  <2> QED
    BY <1>1, <1>2, <1>3, <1>4, <1>6, <2>1, <2>2 DEF EngineTyped
<1>13. AskersTyped'
  BY <1>1, <1>3, <1>8, <1>9 DEF AskersTyped
<1>14. OneAsker' /\ StoredIsOwn'
  BY <1>1, <1>8, <1>9 DEF EngineInv, OneAsker, StoredIsOwn
<1>15. LookedForOrAwaited'
  <2> SUFFICES ASSUME NEW i \in DOMAIN entities
               PROVE  searched'[i] # 0 \/ \E b \in Askers : Waits(b)' /\ i \in Ids(asking'[b].found)
    BY <1>1 DEF LookedForOrAwaited
  <2>1. CASE i \in Ids(found)
    BY <2>1, <1>6, <1>10
  <2>2. CASE i \notin Ids(found)
    BY <2>2, <1>6, <1>8, <1>9 DEF EngineInv, LookedForOrAwaited
  <2> QED
    BY <2>1, <2>2
<1>16. \A i \in Ids(found) : i[1] = asking[a].document /\ (i[1] \notin atOnce => entities[i] = ById(found)[i])
  BY <1>1, <1>4 DEF Ids, EngineInv, StoredIsOwn
<1>17. MeaningIsFresh'
  <2> SUFFICES ASSUME embedFaults' = 0, NEW i \in DOMAIN entities', LookedFor(i)'
               PROVE  meaning'[i] = FreshMeaning'[i]
    BY DEF MeaningIsFresh
  <2>1. FreshMeaning'[i] = FreshMeaning[i] /\ meaning' = Read(found) /\ i[1] \notin atOnce /\ i \in DOMAIN entities
    BY <1>1, <1>2 DEF FreshMeaning, LookedFor
  <2>2. CASE i \in Ids(found)
    <3>1. meaning'[i] = entities[i].says.topic
      BY <2>1, <2>2, <1>7, <1>16
    <3> QED
      BY <3>1, <2>1, <1>4 DEF FreshMeaning
  <2>3. CASE i \notin Ids(found)
    <3>1. meaning'[i] = meaning[i] /\ LookedFor(i)
      BY <2>1, <2>3, <1>6, <1>7 DEF LookedFor
    <3> QED
      BY <3>1, <2>1, <1>2 DEF EngineInv, MeaningIsFresh
  <2> QED
    BY <2>2, <2>3
<1>18. LookedForAreLinked' /\ LinksAreTrue' /\ \A l \in links' : l.call \in 1 .. Searches'
  <2>1. \A i \in Ids(found) : searched'[i] = Searches + 1 /\ (i[1] \notin atOnce' => entities'[i] \in found)
    BY <1>1, <1>6, <1>16, ByIdIs
  <2>2. \A i \in DOMAIN entities \ Ids(found) : entities'[i] = entities[i] /\ searched'[i] = searched[i]
    BY <1>1, <1>6
  <2>3. LookedForAreLinked /\ LinksAreTrue
    BY DEF EngineInv
  <2>4. links' = links \cup LinksFrom(found, entities', meaning') /\ DOMAIN entities' = DOMAIN entities \cup Ids(found)
    BY <1>1, <1>5
  <2>5. UNCHANGED withModel /\ (embedFaults' = 0 => embedFaults = 0) /\ atOnce \subseteq atOnce'
    BY <1>1, <1>2
  <2> HIDE DEF found
  <2> QED
    BY <1>3, <1>10, <1>12, <1>17, <2>1, <2>2, <2>3, <2>4, <2>5, SearchLinks
<1>19. CallsCounted'
  <2>1. \A i \in DOMAIN entities' : searched'[i] \in 0 .. Searches'
    <3> SUFFICES ASSUME NEW i \in DOMAIN entities PROVE searched'[i] \in 0 .. Searches'
      BY <1>1
    <3>1. CASE i \in Ids(found)
      BY <3>1, <1>6, <1>10
    <3>2. CASE i \notin Ids(found)
      BY <3>2, <1>3, <1>6, <1>10 DEF CallsCounted
    <3> QED
      BY <3>1, <3>2
  <2> QED
    BY <2>1, <1>10, <1>18 DEF CallsCounted
<1> QED
  BY <1>12, <1>13, <1>14, <1>15, <1>17, <1>18, <1>19 DEF EngineInv

LEMMA EngineStep == EngineInv /\ [EngineNext]_engineVars => EngineInv'
<1> SUFFICES ASSUME EngineInv, [EngineNext]_engineVars PROVE EngineInv'
  OBVIOUS
<1>1. ASSUME NEW a \in Askers, NEW d \in Documents, NEW content \in Texts, BeginProcess(a, d, content)
      PROVE  EngineInv'
  BY <1>1, BeginProcessStep
<1>2. ASSUME NEW a \in Askers, NEW d \in Documents, NEW content \in Texts, ProcessDirect(a, d, content)
      PROVE  EngineInv'
  BY <1>2, ProcessDirectStep
<1>3. ASSUME NEW a \in Askers, EmbeddingsReturn(a) \/ EmbeddingRaises(a) PROVE EngineInv'
  BY <1>3, ResumeStep
<1>4. CASE UNCHANGED engineVars
  <2> USE <1>4 DEF EngineInv, engineVars
  <2>1. EngineTyped' /\ AskersTyped' /\ OneAsker' /\ StoredIsOwn' /\ LookedForOrAwaited'
    BY DEF EngineTyped, AskersTyped, OneAsker, StoredIsOwn, LookedForOrAwaited, Waits
  <2>2. CallsCounted'
    <3>1. Waiters' = Waiters
      BY DEF Waiters, Waits
    <3>2. Searches' = Searches
      BY <3>1 DEF Searches, Waiters
    <3> QED
      BY <3>1, <3>2 DEF CallsCounted
  <2>3. MeaningIsFresh' /\ LookedForAreLinked' /\ LinksAreTrue'
    <3>1. FreshMeaning' = FreshMeaning
      BY DEF FreshMeaning
    <3>2. \A i \in DOMAIN entities : LookedFor(i)' <=> LookedFor(i)
      BY DEF LookedFor
    <3>3. MeaningIsFresh'
      BY <3>1, <3>2 DEF MeaningIsFresh
    <3>4. LookedForAreLinked'
      BY <3>1, <3>2 DEF LookedForAreLinked
    <3>5. LinksAreTrue'
      <4> SUFFICES ASSUME embedFaults' = 0, NEW l \in links',
                          \A e \in {l.source, l.target} :
                              LookedFor(e.id)' /\ e = entities'[e.id] /\ searched'[e.id] <= l.call
                   PROVE  Matches(l.source, l.target, FreshMeaning')
        BY DEF LinksAreTrue
      <4>1. l \in links /\ l.source.id \in DOMAIN entities /\ l.target.id \in DOMAIN entities
        BY DEF EngineTyped
      <4>2. \A e \in {l.source, l.target} :
                LookedFor(e.id) /\ e = entities[e.id] /\ searched[e.id] <= l.call
        BY <4>1, <3>2
      <4> QED
        BY <3>1, <4>1, <4>2 DEF LinksAreTrue
    <3> QED
      BY <3>3, <3>4, <3>5
  <2> QED
    BY <2>1, <2>2, <2>3
<1> QED
  BY <1>1, <1>2, <1>3, <1>4 DEF EngineNext

LEMMA EngineAlways == EngineSpec => []EngineInv
BY EngineInitInv, EngineStep, PTL DEF EngineSpec

-----------------------------------------------------------------------------
\* The tables of the engine have their types (ule_engine.py:150-260).
THEOREM EngineTypes == EngineSpec => []EngineTypeOK
<1>1. EngineInv => EngineTypeOK
  <2> SUFFICES ASSUME EngineInv PROVE EngineTypeOK
    OBVIOUS
  <2>1. EngineTyped /\ CallsCounted
    BY DEF EngineInv
  <2>2. Searches \in 0 .. MaxProcessed
    <3>1. Cardinality(Waiters) \in Nat /\ Searches = processed - Cardinality(Waiters)
      BY <2>1, FS_CardinalityType DEF CallsCounted, Searches, Waiters
    <3> QED
      BY <2>1, <3>1, EngineAssumption DEF EngineTyped, CallsCounted
  <2>3. \A i \in DOMAIN entities : searched[i] \in 0 .. MaxProcessed
    BY <2>1, <2>2, EngineAssumption DEF CallsCounted
  <2>4. \A l \in links : l.call \in 1 .. MaxProcessed
    BY <2>1, <2>2, EngineAssumption DEF CallsCounted
  <2> QED
    BY <2>1, <2>3, <2>4 DEF EngineTyped, EngineTypeOK
<1> QED
  BY <1>1, EngineAlways, PTL

\* When nothing is under way, everything stored was looked for.
LEMMA AtRestAllLookedFor ==
    ASSUME EngineInv, \A a \in Askers : ~Waits(a), NEW i \in DOMAIN entities, i[1] \notin atOnce
    PROVE  LookedFor(i)
BY DEF EngineInv, LookedForOrAwaited, LookedFor

\* Of two documents processed at once, or one after the other, one sees the other
\* (ule_engine.py:230, :239).
LEMMA InvLinks == EngineInv => LinksAreFound
<1> SUFFICES ASSUME EngineInv, \A a \in Askers : ~Waits(a), embedFaults = 0,
                    NEW i \in DOMAIN entities, NEW j \in DOMAIN entities,
                    {entities[i].document, entities[j].document} \cap atOnce = {},
                    Matches(entities[i], entities[j], FreshMeaning),
                    searched[i] >= searched[j] \/ entities[i].kind \in ConstructionKinds
             PROVE  \E l \in links : {l.source, l.target} = {entities[i], entities[j]}
  BY Zenon DEF LinksAreFound
<1>1. entities[i].document = i[1] /\ entities[j].document = j[1]
  BY DEF EngineInv, EngineTyped
<1>2. LookedFor(i) /\ LookedFor(j)
  BY <1>1, AtRestAllLookedFor
<1> QED
  BY <1>2 DEF EngineInv, LookedForAreLinked

\* At rest, the embeddings match as those of the texts.
LEMMA AtRestMatches ==
    ASSUME EngineInv, \A a \in Askers : ~Waits(a), embedFaults = 0,
           NEW i \in DOMAIN entities, NEW j \in DOMAIN entities, i[1] \notin atOnce, j[1] \notin atOnce
    PROVE  Matches(entities[i], entities[j], meaning) <=> Matches(entities[i], entities[j], FreshMeaning)
<1>1. LookedFor(i) /\ LookedFor(j)
  BY AtRestAllLookedFor
<1>2. meaning[i] = FreshMeaning[i] /\ meaning[j] = FreshMeaning[j]
  BY <1>1 DEF EngineInv, MeaningIsFresh
<1>3. entities[i].id = i /\ entities[j].id = j
  BY DEF EngineInv, EngineTyped
<1> DEFINE n == FreshMeaning
<1>4. meaning[entities[i].id] = n[entities[i].id] /\ meaning[entities[j].id] = n[entities[j].id]
  BY <1>2, <1>3
<1> HIDE DEF n
<1>5. Matches(entities[i], entities[j], meaning) <=> Matches(entities[i], entities[j], n)
  BY <1>4, MatchesIsLocal
<1> QED
  BY <1>5 DEF n

\* The two ways to see the links of a document show the same (ule_engine.py:247, :297).
LEMMA InvViews == EngineInv => LinkViewsMeet
<1> SUFFICES ASSUME EngineInv, \A a \in Askers : ~Waits(a), embedFaults = 0, NEW d \in Documents, d \notin atOnce
             PROVE  /\ \A l \in DocumentLinks(d) :
                          \/ l.target.document \in atOnce
                          \/ /\ l.source.kind \notin ConstructionKinds
                             /\ searched[l.source.id] < searched[l.target.id]
                          \/ {<<l.source.id, l.target.id>>, <<l.target.id, l.source.id>>} \cap GraphEdges # {}
                    /\ \A l \in links :
                          /\ l.source.id \in listed[d] /\ l.target.document \notin atOnce \cup {d}
                          /\ \A e \in {l.source, l.target} : e = entities[e.id] /\ searched[e.id] <= l.call
                          => \E k \in FoundNow(d, 0) : <<k.source, k.target>> = <<l.source, l.target>>
  BY Zenon DEF LinkViewsMeet
<1>1. EngineTyped /\ CallsCounted
  BY DEF EngineInv
<1>2. Threshold(750) = 750 /\ Threshold(0) = 750
  BY DEF Threshold, DefaultThreshold
<1>3. ASSUME NEW l \in DocumentLinks(d)
      PROVE  \/ l.target.document \in atOnce
             \/ l.source.kind \notin ConstructionKinds /\ searched[l.source.id] < searched[l.target.id]
             \/ {<<l.source.id, l.target.id>>, <<l.target.id, l.source.id>>} \cap GraphEdges # {}
  <2> SUFFICES ASSUME l.target.document \notin atOnce,
                      ~(l.source.kind \notin ConstructionKinds /\ searched[l.source.id] < searched[l.target.id])
               PROVE  {<<l.source.id, l.target.id>>, <<l.target.id, l.source.id>>} \cap GraphEdges # {}
    OBVIOUS
  <2>1. PICK p \in ListedEntities(d) \X OthersThan(ListedEntities(d)) :
            /\ l = [source |-> p[1], target |-> p[2], confidence |-> Confidence(p[1], p[2], meaning)]
            /\ Matches(p[1], p[2], meaning)
    BY <1>3, <1>2 DEF DocumentLinks, FoundNow
  <2>2. PICK i \in listed[d] : p[1] = entities[i]
    BY <2>1 DEF ListedEntities
  <2>3. PICK j \in DOMAIN entities : p[2] = entities[j]
    BY <2>1 DEF OthersThan
  <2>4. /\ i \in DOMAIN entities /\ i[1] = d /\ entities[i].id = i /\ entities[i].document = d
        /\ entities[j].id = j /\ entities[j].document = j[1]
    BY <1>1, <2>2 DEF EngineTyped
  <2>5. l.source = entities[i] /\ l.target = entities[j]
    BY <2>1, <2>2, <2>3
  <2>6. j[1] \notin atOnce
    BY <2>4, <2>5
  <2>7. Matches(entities[i], entities[j], FreshMeaning)
    BY <2>1, <2>2, <2>3, <2>4, <2>6, AtRestMatches
  <2>8. searched[i] \in Nat /\ searched[j] \in Nat
    BY <1>1, <2>4 DEF CallsCounted
  <2>9. searched[i] >= searched[j] \/ entities[i].kind \in ConstructionKinds
    BY <2>4, <2>5, <2>8
  <2>10. LookedFor(i) /\ LookedFor(j)
    BY <2>4, <2>6, AtRestAllLookedFor
  <2>11. PICK k \in links : {k.source, k.target} = {entities[i], entities[j]}
    BY <2>4, <2>7, <2>9, <2>10 DEF EngineInv, LookedForAreLinked
  <2>12. <<k.source.id, k.target.id>> \in GraphEdges
    BY DEF GraphEdges
  <2>13. \/ k.source = entities[i] /\ k.target = entities[j]
         \/ k.source = entities[j] /\ k.target = entities[i]
    BY <2>11
  <2> QED
    BY <2>4, <2>5, <2>12, <2>13
<1>4. ASSUME NEW l \in links, l.source.id \in listed[d], l.target.document \notin atOnce \cup {d},
             \A e \in {l.source, l.target} : e = entities[e.id] /\ searched[e.id] <= l.call
      PROVE  \E k \in FoundNow(d, 0) : <<k.source, k.target>> = <<l.source, l.target>>
  <2> DEFINE s == l.source
             t == l.target
  <2>1. /\ s.id \in DOMAIN entities /\ t.id \in DOMAIN entities /\ s.id[1] = d
        /\ t.document = t.id[1] /\ s = entities[s.id] /\ t = entities[t.id]
    BY <1>1, <1>4 DEF EngineTyped
  <2>2. LookedFor(s.id) /\ LookedFor(t.id)
    BY <1>4, <2>1, AtRestAllLookedFor
  <2>3. Matches(s, t, FreshMeaning)
    BY <1>4, <2>1, <2>2 DEF EngineInv, LinksAreTrue
  <2>4. Matches(entities[s.id], entities[t.id], meaning)
    BY <1>4, <2>1, <2>3, AtRestMatches
  <2>5. Matches(s, t, meaning) /\ Confidence(s, t, meaning) >= Threshold(0)
    BY <2>1, <2>4, <1>2 DEF Matches
  <2>6. s \in ListedEntities(d)
    BY <1>4, <2>1 DEF ListedEntities
  <2>7. t \in OthersThan(ListedEntities(d))
    <3>1. \A i \in Ids(ListedEntities(d)) : i[1] = d
      BY <1>1 DEF Ids, ListedEntities, EngineTyped
    <3>2. t.id \notin Ids(ListedEntities(d))
      BY <3>1, <2>1, <1>4
    <3> QED
      BY <3>2, <2>1 DEF OthersThan
  <2> DEFINE k == [source |-> s, target |-> t, confidence |-> Confidence(s, t, meaning)]
  <2>8. k \in FoundNow(d, 0)
    <3>1. <<s, t>> \in {q \in ListedEntities(d) \X OthersThan(ListedEntities(d)) :
                          Matches(q[1], q[2], meaning) /\ Confidence(q[1], q[2], meaning) >= Threshold(0)}
      BY <2>5, <2>6, <2>7
    <3> QED
      BY <3>1 DEF FoundNow
  <2>9. k.source = s /\ k.target = t
    OBVIOUS
  <2> QED
    BY <2>8, <2>9
<1> QED
  BY <1>3, <1>4

\* Nothing that matches is missed by both sides, and what is found on asking is what the graph
\* shows, but for documents two coroutines processed at once (ule_engine.py:230-297).
THEOREM LinksAlwaysHold == EngineSpec => []LinksHold
<1>1. EngineInv => LinksHold
  BY InvLinks, InvViews DEF LinksHold
<1> QED
  BY <1>1, EngineAlways, PTL
==============================================================================
