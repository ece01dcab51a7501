----------------------------- MODULE VectorStore -----------------------------
(***************************************************************************)
(* backend/backend/services/rag_service.py: a FAISS index and a list of    *)
(* texts that belong together by position, global in each process, saved   *)
(* to two files after every document.  The web process adds documents from *)
(* its threads (api/ai.py, api/upload.py), the workers through             *)
(* hydration/indexing.py; docker-compose.yml mounts one storage directory  *)
(* in all of them.                                                         *)
(***************************************************************************)
EXTENDS Integers, Sequences, SequencesExt

CONSTANTS
    Adders,         \* threads that add documents
    Processes,
    ProcessOf,      \* the process of each thread
    MaxDocs,        \* bound: documents
    MaxStops,       \* bound: processes that stop
    NoFile,
    Torn            \* a file opened for writing, nothing in it yet

ASSUME VectorAssumption ==
    /\ ProcessOf \in [Adders -> Processes]
    /\ MaxDocs \in Nat /\ MaxStops \in Nat
    /\ NoFile # Torn /\ {NoFile, Torn} \cap Seq(1 .. MaxDocs) = {}

VARIABLES
    vectors, texts,         \* index and metadata of each process
    indexFile, metaFile,
    running,                \* processes that have imported rag_service
    adding,                 \* per thread: the next call of add_document and its document
    added, stops,
    acknowledged,           \* history: documents whose add_document returned
    missed,                 \* history: documents others saved since each process started
    dropped,                \* history: documents saved over by a process that had missed them
    apart,                  \* history: processes where two threads were between the two lists,
                            \* or that started in the middle of a save
    mixed                   \* history: a save was cut short, crossed another one
                            \* or wrote lists that had come apart

vectorVars == <<vectors, texts, indexFile, metaFile, running, adding, added, stops, acknowledged,
                missed, dropped, apart, mixed>>

NotAdding == [at |-> "idle", doc |-> 0]

VectorInit ==
    /\ vectors = [p \in Processes |-> <<>>] /\ texts = [p \in Processes |-> <<>>]
    /\ indexFile = NoFile /\ metaFile = NoFile
    /\ running = {} /\ adding = [a \in Adders |-> NotAdding]
    /\ added = 0 /\ stops = 0
    /\ acknowledged = {} /\ missed = [p \in Processes |-> {}] /\ dropped = {}
    /\ apart = {} /\ mixed = FALSE

-----------------------------------------------------------------------------
\* both files are there, or both lists start empty
Loaded(file) == IF indexFile # NoFile /\ metaFile # NoFile THEN file ELSE <<>>

Threads(p) == {a \in Adders : ProcessOf[a] = p}
Saving(a) == adding[a].at \in {"write index", "open", "dump"}

\* the import; an empty pickle raises, and the process does without the store
Start(p) ==
    /\ p \notin running /\ metaFile # Torn
    /\ running' = running \cup {p}
    /\ vectors' = [vectors EXCEPT ![p] = Loaded(indexFile)]
    /\ texts' = [texts EXCEPT ![p] = Loaded(metaFile)]
    /\ missed' = [missed EXCEPT ![p] = {}]
    /\ apart' = IF \E a \in Adders : Saving(a) THEN apart \cup {p} ELSE apart \ {p}
    /\ UNCHANGED <<indexFile, metaFile, adding, added, stops, acknowledged, dropped, mixed>>

\* the process stops, whatever its threads are doing
Stop(p) ==
    /\ p \in running /\ stops < MaxStops
    /\ stops' = stops + 1
    /\ running' = running \ {p}
    /\ vectors' = [vectors EXCEPT ![p] = <<>>] /\ texts' = [texts EXCEPT ![p] = <<>>]
    /\ adding' = [a \in Adders |-> IF a \in Threads(p) THEN NotAdding ELSE adding[a]]
    /\ mixed' = (mixed \/ \E a \in Threads(p) : Saving(a))
    /\ UNCHANGED <<indexFile, metaFile, added, acknowledged, missed, dropped, apart>>

AddStep(a, at, next) ==
    /\ adding[a].at = at /\ ProcessOf[a] \in running
    /\ adding' = [adding EXCEPT ![a].at = next]

\* index.add
AddVector(a) ==
    LET p == ProcessOf[a] IN
    /\ adding[a].at = "idle" /\ p \in running /\ added < MaxDocs
    /\ added' = added + 1
    /\ adding' = [adding EXCEPT ![a] = [at |-> "append", doc |-> added + 1]]
    /\ vectors' = [vectors EXCEPT ![p] = Append(@, added + 1)]
    /\ apart' = IF \E b \in Threads(p) : adding[b].at = "append"
                     THEN apart \cup {p} ELSE apart
    /\ UNCHANGED <<texts, indexFile, metaFile, running, stops, acknowledged, missed, dropped, mixed>>

\* Faulty variant of Listed: the newest text comes first.
ListedFirst(list, d) == <<d>> \o list

Listed(list, d) == Append(list, d)

\* metadata.append
AddText(a) ==
    /\ AddStep(a, "append", "write index")
    /\ texts' = [texts EXCEPT ![ProcessOf[a]] = Listed(@, adding[a].doc)]
    /\ UNCHANGED <<vectors, indexFile, metaFile, running, added, stops, acknowledged, missed, dropped,
                   apart, mixed>>

\* another thread is adding too, or what is saved has come apart
Crossed(a) == ProcessOf[a] \in apart \/ \E b \in Adders \ {a} : adding[b].at # "idle"

WriteIndex(a) ==
    /\ AddStep(a, "write index", "open")
    /\ indexFile' = vectors[ProcessOf[a]]
    /\ mixed' = (mixed \/ Crossed(a))
    /\ UNCHANGED <<vectors, texts, metaFile, running, added, stops, acknowledged, missed, dropped, apart>>

\* open(META_PATH, "wb") truncates
OpenMeta(a) ==
    /\ AddStep(a, "open", "dump")
    /\ metaFile' = Torn
    /\ mixed' = (mixed \/ Crossed(a))
    /\ UNCHANGED <<vectors, texts, indexFile, running, added, stops, acknowledged, missed, dropped, apart>>

\* pickle.dump, and add_document returns
DumpMeta(a) ==
    LET list == texts[ProcessOf[a]] IN
    /\ adding[a].at = "dump"
    /\ metaFile' = list
    /\ adding' = [adding EXCEPT ![a] = NotAdding]
    /\ acknowledged' = acknowledged \cup {adding[a].doc}
    /\ missed' = [q \in Processes |-> IF q = ProcessOf[a] THEN missed[q]
                                     ELSE missed[q] \cup {adding[a].doc}]
    /\ dropped' = dropped \cup missed[ProcessOf[a]]
    /\ mixed' = (mixed \/ Crossed(a))
    /\ UNCHANGED <<vectors, texts, indexFile, running, added, stops, apart>>

VectorNext ==
    \/ \E p \in Processes : Start(p) \/ Stop(p)
    \/ \E a \in Adders : AddVector(a) \/ AddText(a) \/ WriteIndex(a) \/ OpenMeta(a) \/ DumpMeta(a)

VectorSpec == VectorInit /\ [][VectorNext]_vectorVars

-----------------------------------------------------------------------------
Saved == Seq(1 .. MaxDocs)

VectorTypeOK ==
    /\ vectors \in [Processes -> Saved] /\ texts \in [Processes -> Saved]
    /\ indexFile \in Saved \cup {NoFile} /\ metaFile \in Saved \cup {NoFile, Torn}
    /\ running \subseteq Processes
    /\ adding \in [Adders -> [at : {"idle", "append", "write index", "open", "dump"}, doc : 0 .. MaxDocs]]
    /\ added \in 0 .. MaxDocs /\ stops \in 0 .. MaxStops
    /\ acknowledged \subseteq 1 .. MaxDocs /\ dropped \subseteq acknowledged
    /\ missed \in [Processes -> SUBSET acknowledged]
    /\ apart \subseteq Processes /\ mixed \in BOOLEAN

\* query_rag looks up the text of a hit by the position of its vector (rag_service.py:131): the
\* two lists agree in every process that is not between the two appends, restarts included,
\* unless two of its threads were there at once, it loaded the files in the middle of a save,
\* or a save was cut short or crossed another.
VectorsMeetText ==
    \A p \in running \ apart :
        \/ mixed
        \/ \E a \in Threads(p) : adding[a].at = "append"
        \/ vectors[p] = texts[p]

\* A document the caller was told is indexed stays in the saved texts through restarts, except
\* while the file is being written over, unless it was saved over by a process that was already
\* running when the document came into the file and has not read it again.
AcknowledgedIsKept ==
    metaFile # Torn => \A d \in acknowledged \ dropped : d \in ToSet(metaFile)

\* A vector and the text looked up for it belong together, and acknowledged documents stay,
\* outside the windows and overlaps named above (rag_service.py:70-160).
VectorsHold == VectorsMeetText /\ AcknowledgedIsKept
==============================================================================
