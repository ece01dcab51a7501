------------------------------ MODULE LinkEngine ------------------------------
(***************************************************************************)
(* backend/reasoning/ule_engine.py behind backend/api/reasoning.py: one    *)
(* engine per process, whose tables are read and written by the            *)
(* coroutines of its event loop. A coroutine stores the entities of a      *)
(* document, waits for their embeddings in a thread, and only then looks   *)
(* for links; others run meanwhile. Nothing is ever removed.               *)
(***************************************************************************)
EXTENDS LinkPacks

CONSTANTS
    Askers,         \* coroutines that process a document
    Documents,      \* documents, and the ids of queries: /reasoning/link stores its text as one
    Texts,       \* what a document may say: sets of <<kind, text>>
    MaxProcessed,   \* bound: documents processed
    MaxEmbedFaults  \* bound: embeddings that raise

ASSUME EngineAssumption ==
    /\ MaxProcessed \in Nat /\ MaxEmbedFaults \in Nat
    /\ \A content \in Texts : \A item \in content : item[1] \in CommercialKinds \cup ConstructionKinds

VARIABLES
    withModel,      \* a sentence transformer could be loaded
    entities,       \* _entities: the last one of every id
    listed,         \* _document_entities
    meaning,        \* _embeddings: the topic an entity had when it was embedded
    links,          \* _links, whose ids are fresh: the call that found each is part of it
    asking,         \* what each coroutine waits with
    processed, embedFaults,
    searched,       \* history: the search of the last one of every id, in order
    atOnce      \* history: documents two coroutines processed at once

engineVars == <<withModel, entities, listed, meaning, links, asking, processed, embedFaults,
                searched, atOnce>>

NotAsking == [document |-> NoCode, found |-> {}]

EngineInit ==
    /\ withModel \in BOOLEAN
    /\ entities = <<>> /\ meaning = <<>> /\ searched = <<>>
    /\ listed = [d \in Documents |-> {}]
    /\ links = {}
    /\ asking = [a \in Askers |-> NotAsking]
    /\ processed = 0 /\ embedFaults = 0
    /\ atOnce = {}

Waits(a) == asking[a] # NotAsking
Ids(found) == {e.id : e \in found}

\* extract_entities of both packs, whose caches hold what the engine ever stored
Extracted(d, content) ==
    {EntityOf(d, item[1], item[2]) :
        item \in {i \in content : ~(SkipsKnown(i[1], i[2])
                                    /\ <<d, i[1], i[2].num>> \in DOMAIN entities)}}

ById(found) == [i \in Ids(found) |-> CHOOSE e \in found : e.id = i]

\* f, and g where f has nothing
Over(f, g) == [x \in DOMAIN f \cup DOMAIN g |-> IF x \in DOMAIN f THEN f[x] ELSE g[x]]

Stored(found) == Over(ById(found), entities)
Unread(found) == Over(meaning, [i \in Ids(found) |-> NoCode])
Read(found) == Over([i \in Ids(found) |-> ById(found)[i].says.topic], meaning)
Searches == processed - Cardinality({a \in Askers : Waits(a)})

\* Faulty variant of Targets: without the sources, as find_links has it.
TargetsOfOthers(found, table) == {table[i] : i \in DOMAIN table \ Ids(found)}

Targets(found, table) == {table[i] : i \in DOMAIN table}

\* _find_links_between: the links keep the entities as they are now
LinksFrom(found, table, known) ==
    {[source |-> p[1], target |-> p[2], call |-> Searches + 1] :
        p \in {q \in found \X Targets(found, table) : Matches(q[1], q[2], known)}}

\* the entities are stored, and their embeddings awaited
BeginProcess(a, d, content) ==
    LET found == Extracted(d, content) IN
    /\ ~Waits(a) /\ processed < MaxProcessed
    /\ withModel /\ found # {}
    /\ processed' = processed + 1
    /\ entities' = Stored(found) /\ meaning' = Unread(found)
    /\ listed' = [listed EXCEPT ![d] = Ids(found)]
    /\ searched' = Over([i \in Ids(found) |-> 0], searched)
    /\ asking' = [asking EXCEPT ![a] = [document |-> d, found |-> found]]
    /\ atOnce' = IF \E b \in Askers : asking[b].document = d THEN atOnce \cup {d} ELSE atOnce
    /\ UNCHANGED <<withModel, links, embedFaults>>

\* nothing to await: the links are found at once
ProcessDirect(a, d, content) ==
    LET found == Extracted(d, content) IN
    /\ ~Waits(a) /\ processed < MaxProcessed
    /\ ~withModel \/ found = {}
    /\ processed' = processed + 1
    /\ entities' = Stored(found) /\ meaning' = Unread(found)
    /\ listed' = [listed EXCEPT ![d] = Ids(found)]
    /\ links' = links \cup LinksFrom(found, entities', meaning')
    /\ searched' = Over([i \in Ids(found) |-> Searches + 1], searched)
    /\ UNCHANGED <<withModel, asking, embedFaults, atOnce>>

\* the coroutine goes on with the entities it extracted and the tables as they are now
Resume(a, known) ==
    LET found == asking[a].found IN
    /\ Waits(a)
    /\ meaning' = known
    /\ links' = links \cup LinksFrom(found, entities, known)
    /\ searched' = Over([i \in Ids(found) |-> Searches + 1], searched)
    /\ asking' = [asking EXCEPT ![a] = NotAsking]
    /\ UNCHANGED <<withModel, entities, listed, processed, atOnce>>

EmbeddingsReturn(a) == Resume(a, Read(asking[a].found)) /\ UNCHANGED embedFaults

EmbeddingRaises(a) ==
    /\ embedFaults < MaxEmbedFaults
    /\ Resume(a, meaning)
    /\ embedFaults' = embedFaults + 1

EngineNext ==
    \E a \in Askers :
        \/ \E d \in Documents, content \in Texts : BeginProcess(a, d, content) \/ ProcessDirect(a, d, content)
        \/ EmbeddingsReturn(a) \/ EmbeddingRaises(a)

EngineSpec == EngineInit /\ [][EngineNext]_engineVars

-----------------------------------------------------------------------------
EngineTypeOK ==
    /\ DOMAIN meaning = DOMAIN entities /\ DOMAIN searched = DOMAIN entities
    /\ \A i \in DOMAIN entities : entities[i].id = i /\ searched[i] \in 0 .. MaxProcessed
    /\ \A d \in Documents : listed[d] \subseteq DOMAIN entities
    /\ \A l \in links : l.source.id \in DOMAIN entities /\ l.target.id \in DOMAIN entities
                        /\ l.call \in 1 .. MaxProcessed
    /\ processed \in 0 .. MaxProcessed /\ embedFaults \in 0 .. MaxEmbedFaults
    /\ atOnce \subseteq Documents

\* the embeddings as they should be
FreshMeaning == [i \in DOMAIN entities |-> IF withModel THEN entities[i].says.topic ELSE NoCode]

\* Coroutines store entities before they wait for embeddings (ule_engine.py:230, :239), so
\* that of two documents processed at once, or one after the other, at least one sees the
\* other: when none is under way, every two entities that match as they are now, in the
\* direction from the one searched later, are linked. Exempt are documents two coroutines
\* processed at once, which may link their old text, and embeddings that failed.
LinksAreFound ==
    (\A a \in Askers : ~Waits(a)) /\ embedFaults = 0 =>
        \A i, j \in DOMAIN entities :
            LET s == entities[i]
                t == entities[j]
            IN /\ {s.document, t.document} \cap atOnce = {}
               /\ Matches(s, t, FreshMeaning)
               /\ searched[i] >= searched[j] \/ s.kind \in ConstructionKinds
               => \E l \in links : {l.source, l.target} = {s, t}
==============================================================================
