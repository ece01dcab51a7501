----------------------------- MODULE SearchEngine -----------------------------
(***************************************************************************)
(* backend/services/semantic_search_engine.py: documents are kept by word  *)
(* in memory and by meaning in collections, and the results of a query are *)
(* cached for ever.  Coroutines of one process interleave where they wait  *)
(* for an embedding.  The FAISS index is filled and never read.            *)
(***************************************************************************)
EXTENDS Integers, Sequences, SequencesExt, FiniteSets, FiniteSetsExt

CONSTANTS
    Coroutines,     \* callers of the engine
    DocIds,         \* ids of documents
    Papers,         \* what can be indexed: the words, the type and the project
    Queries,        \* [words, mode, types, project, min, most]
    Likeness(_, _), \* external: 1 - distance / 2 of two texts, in thousandths
    MaxIndexed,     \* bound: calls that index
    MaxSearches,    \* bound: searches
    MaxHitches      \* bound: embeddings that fail, and restarts

\* a query has a word, and a score is at most 1; the types of documents are an enumeration
ASSUME SearchAssumption ==
    /\ {MaxIndexed, MaxSearches, MaxHitches} \subseteq Nat
    /\ IsFiniteSet({p.type : p \in Papers})
    /\ \A q \in Queries : /\ q.words # {} /\ IsFiniteSet(q.words) /\ q.min \in 0 .. 1000 /\ q.most \in Nat
                          /\ q.mode \in {"semantic", "keyword", "neural", "hybrid"}
                          /\ \A p \in Papers : Likeness(q.words, p.words) \in 0 .. 1000

VARIABLES
    libraries,      \* whether there are a model with Chroma, and a client of OpenAI
    library,        \* _documents
    collections,    \* Chroma, by type and id
    queryCache,     \* _query_cache
    waiting,        \* what each coroutine is waiting for
    indexedAs,      \* history: the newest text index_document reported as indexed, by id
    crossedIds,     \* history: ids for which two calls overlapped
    findings,       \* history: what was wrong with the answers, and whether they were cached
    indexCalls, searches, hitches

searchVars == <<libraries, library, collections, queryCache, waiting, indexedAs, crossedIds,
                findings, indexCalls, searches, hitches>>

Types == {p.type : p \in Papers}
NotWaiting == [for |-> "nothing"]

SearchInit ==
    /\ libraries \in [semantic : BOOLEAN, client : BOOLEAN]
    /\ library = <<>> /\ queryCache = <<>>
    /\ collections = [t \in Types |-> <<>>]
    /\ waiting = [c \in Coroutines |-> NotWaiting]
    /\ indexedAs = <<>> /\ crossedIds = {} /\ findings = {}
    /\ indexCalls = 0 /\ searches = 0 /\ hitches = 0

With(f, k, v) == [x \in DOMAIN f \cup {k} |-> IF x = k THEN v ELSE f[x]]

-----------------------------------------------------------------------------
\* Faulty variant of KeepText: with a model, the text is kept when its embedding is there.
KeepTextLater(id, paper) == library' = IF libraries.semantic THEN library ELSE With(library, id, paper)

\* the text is searchable by word before the embedding is awaited
KeepText(id, paper) == library' = With(library, id, paper)

IndexDocument(c, id, paper) ==
    /\ waiting[c] = NotWaiting /\ indexCalls < MaxIndexed
    /\ indexCalls' = indexCalls + 1
    /\ KeepText(id, paper)
    /\ crossedIds' = crossedIds
                      \cup {i \in {id} : \E d \in Coroutines : waiting[d].for = "index" /\ waiting[d].id = id}
    /\ IF libraries.semantic
       THEN waiting' = [waiting EXCEPT ![c] = [for |-> "index", id |-> id, paper |-> paper]] /\ UNCHANGED indexedAs
       ELSE indexedAs' = With(indexedAs, id, paper) /\ UNCHANGED waiting
    /\ UNCHANGED <<libraries, collections, queryCache, findings, searches, hitches>>

\* collection.add does nothing for an id it has
AddToCollection(id, paper) ==
    collections' = IF id \in DOMAIN collections[paper.type] THEN collections
                   ELSE [collections EXCEPT ![paper.type] = With(@, id, paper)]

Reported(c) ==
    /\ indexedAs' = With(indexedAs, waiting[c].id, waiting[c].paper)
    /\ waiting' = [waiting EXCEPT ![c] = NotWaiting]

EmbeddingArrives(c) ==
    /\ waiting[c].for = "index" /\ Reported(c)
    /\ AddToCollection(waiting[c].id, waiting[c].paper)
    /\ UNCHANGED <<libraries, library, queryCache, crossedIds, findings, indexCalls, searches, hitches>>

\* encode, the collection or add raises, or the norm is zero: True, and by word only
EmbeddingFails(c) ==
    /\ waiting[c].for = "index" /\ Reported(c)
    /\ hitches < MaxHitches /\ hitches' = hitches + 1
    /\ UNCHANGED <<libraries, library, collections, queryCache, crossedIds, findings, indexCalls, searches>>

-----------------------------------------------------------------------------
\* the minimum, the project, the dates and the re-ranking are not part of the key
CacheKey(q) == <<q.words, q.mode, q.most, q.types>>

OfType(q, paper) == q.types = {} \/ paper.type \in q.types

\* _keyword_search looks at the type, and not at the project or the filters
ByWord(q) ==
    {[id |-> i, paper |-> library[i], score |-> (1000 * Cardinality(q.words \cap library[i].words)) \div Cardinality(q.words)] :
        i \in {j \in DOMAIN library : OfType(q, library[j]) /\ q.words \cap library[j].words # {}}}

\* the collection of a type applies the project and gives its best matches
BestOf(hits, n) ==
    {best \in SUBSET hits : /\ Cardinality(best) = (IF n < Cardinality(hits) THEN n ELSE Cardinality(hits))
                            /\ \A h \in best, o \in hits \ best : h.score >= o.score}

InCollection(q, t) ==
    {[id |-> i, paper |-> collections[t][i], score |-> Likeness(q.words, collections[t][i].words)] :
        i \in {j \in DOMAIN collections[t] : q.project \in {"any", collections[t][j].project}}}

\* of every type in turn, as many as are asked for; the types whose query raises are left out,
\* all of them when the embedding is zero
ByMeaning(q, failing) ==
    LET asked == (IF q.types = {} THEN Types ELSE q.types) \ failing
    IN  {UNION {best[t] : t \in Types} :
            best \in {b \in [Types -> SUBSET UNION {InCollection(q, t) : t \in Types}] :
                        \A t \in Types : b[t] \in IF t \in asked THEN BestOf(InCollection(q, t), q.most) ELSE {{}}}}

\* seven tenths of the meaning and three of the words; one hit for an id, the last one by meaning
Blend(meaning, words) ==
    LET ids == {h.id : h \in meaning \cup words}
        one == CHOOSE f \in [ids -> meaning \cup words] :
                  \A i \in ids : /\ f[i].id = i
                                 /\ \A h \in meaning : h.id = i => f[i] \in meaning
        part(i, hits, tenths) == IF \E h \in hits : h.id = i
                                 THEN ((CHOOSE h \in hits : h.id = i).score * tenths) \div 10 ELSE 0
    IN  {[one[i] EXCEPT !.score = IF one[i] \in meaning THEN (one[i].score * 7) \div 10 + part(i, words, 3)
                                  ELSE part(i, words, 3)] : i \in ids}

Rescored(h, k) == [h EXCEPT !.score = IF k < 21 THEN 1050 - 50 * k ELSE 0]

\* the client ranks some of the hits: they come first, with the scores 1, 0.95, ...
Ranking(hits) ==
    {[first |-> {Rescored(order[k], k) : k \in DOMAIN order}, rest |-> hits \ {order[k] : k \in DOMAIN order}] :
        order \in UNION {SetToSeqs(some) : some \in SUBSET hits}}

\* the neural search ranks, and so does every search that is asked to
Rankings(q, hits) ==
    CASE libraries.client /\ q.mode = "neural" /\ q.rerank -> UNION {Ranking(r.first \cup r.rest) : r \in Ranking(hits)}
      [] libraries.client /\ (q.mode = "neural" <=> ~q.rerank) -> Ranking(hits)
      [] OTHER -> {[first |-> {}, rest |-> hits]}

Above(q, hits) == {h \in hits : h.score >= q.min}

\* of those with the score that was asked for, as many as asked for, the ranked ones first
Cut(q, ranking) ==
    UNION {{first \cup rest : rest \in BestOf(Above(q, ranking.rest) \ first, q.most - Cardinality(first))} :
            first \in BestOf(Above(q, ranking.first), q.most)}

\* hits the client ranked so low that they fall below the minimum
PushedDown(q, hits, ranking) ==
    {h.id : h \in Above(q, hits)} \cap {h.id : h \in (ranking.first \cup ranking.rest) \ Above(q, ranking.first \cup ranking.rest)}

-----------------------------------------------------------------------------
\* documents whose newest text is not being exchanged
Settled == DOMAIN indexedAs \ (crossedIds \cup {waiting[c].id : c \in {d \in Coroutines : waiting[d].for = "index"}})

\* what the collections have of a document
Copy(i) ==
    LET held == {collections[t][i] : t \in {u \in Types : i \in DOMAIN collections[u]}}
    IN  IF held = {} THEN "none" ELSE IF held = {indexedAs[i]} THEN "newest" ELSE "old"

\* what a caller would object to in an answer; pushed were ranked down, and failing types left out
Objections(q, hits, cached, pushed, failing) ==
    LET wanted(i) == /\ q.words \subseteq indexedAs[i].words /\ OfType(q, indexedAs[i])
                     /\ q.project \in {"any", indexedAs[i].project}
        object(what, copy) == [what |-> what, mode |-> q.mode, cached |-> cached, copy |-> copy,
                               full |-> Cardinality(hits) = q.most, pushed |-> FALSE, unlike |-> FALSE, crowded |-> FALSE]
        miss(i) == [object("missing", Copy(i)) EXCEPT
                       !.pushed = i \in pushed,
                       !.unlike = Likeness(q.words, indexedAs[i].words) < q.min,
                       !.crowded = \/ indexedAs[i].type \in failing
                                   \/ Cardinality(DOMAIN collections[indexedAs[i].type]) > q.most]
    IN  {object("stale", Copy(i)) : i \in {j \in Settled : \E h \in hits : h.id = j /\ h.paper # indexedAs[j]}}
        \cup {miss(i) : i \in {j \in Settled : wanted(j) /\ \A h \in hits : h.id # j}}
        \cup {object("foreign", "any") : h \in {g \in hits : q.project \notin {"any", g.paper.project}}}
        \cup {object("low", "any") : h \in {g \in hits : g.score < q.min}}

GiveBack(c, q, hits, failing) ==
    /\ \E ranking \in Rankings(q, hits) : \E answer \in Cut(q, ranking) :
          /\ queryCache' = With(queryCache, CacheKey(q), answer)
          /\ findings' = findings \cup Objections(q, answer, FALSE, PushedDown(q, hits, ranking), failing)
    /\ waiting' = [waiting EXCEPT ![c] = NotWaiting]

BeginSearch(c) == waiting[c] = NotWaiting /\ searches < MaxSearches /\ searches' = searches + 1

FromCache(c, q) ==
    /\ BeginSearch(c) /\ CacheKey(q) \in DOMAIN queryCache
    /\ findings' = findings \cup Objections(q, queryCache[CacheKey(q)], TRUE, {}, {})
    /\ UNCHANGED <<libraries, library, collections, queryCache, waiting, indexedAs, crossedIds, indexCalls, hitches>>

\* without a model the semantic search is the keyword search, and the blend has both
WithoutModel(q) == IF q.mode = "hybrid" THEN Blend(ByWord(q), ByWord(q)) ELSE ByWord(q)

SearchByWord(c, q) ==
    /\ BeginSearch(c) /\ CacheKey(q) \notin DOMAIN queryCache
    /\ q.mode = "keyword" \/ ~libraries.semantic
    /\ GiveBack(c, q, WithoutModel(q), {})
    /\ UNCHANGED <<libraries, library, collections, indexedAs, crossedIds, indexCalls, hitches>>

\* the embedding of the query is awaited
SearchByMeaning(c, q) ==
    /\ BeginSearch(c) /\ CacheKey(q) \notin DOMAIN queryCache
    /\ q.mode # "keyword" /\ libraries.semantic
    /\ waiting' = [waiting EXCEPT ![c] = [for |-> "search", query |-> q]]
    /\ UNCHANGED <<libraries, library, collections, queryCache, indexedAs, crossedIds, findings, indexCalls, hitches>>

\* with the collections that can be asked
QueryEmbedded(c) ==
    /\ waiting[c].for = "search"
    /\ \E failing \in SUBSET Types :
          /\ hitches' = IF failing = {} THEN hitches ELSE hitches + 1
          /\ hitches' <= MaxHitches
          /\ LET q == waiting[c].query
             IN  \E meaning \in ByMeaning(q, failing) :
                    GiveBack(c, q, IF q.mode = "hybrid" THEN Blend(meaning, ByWord(q)) ELSE meaning, failing)
    /\ UNCHANGED <<libraries, library, collections, indexedAs, crossedIds, indexCalls, searches>>

QueryFails(c) ==
    /\ waiting[c].for = "search" /\ hitches < MaxHitches /\ hitches' = hitches + 1
    /\ GiveBack(c, waiting[c].query, WithoutModel(waiting[c].query), {})
    /\ UNCHANGED <<libraries, library, collections, indexedAs, crossedIds, indexCalls, searches>>

\* a new process has the collections and nothing else
RestartEngine ==
    /\ hitches < MaxHitches /\ hitches' = hitches + 1
    /\ library' = <<>> /\ queryCache' = <<>> /\ indexedAs' = <<>>
    /\ waiting' = [c \in Coroutines |-> NotWaiting]
    /\ crossedIds' = {}
    /\ UNCHANGED <<libraries, collections, findings, indexCalls, searches>>

SearchNext ==
    \/ \E c \in Coroutines :
          \/ \E id \in DocIds, paper \in Papers : IndexDocument(c, id, paper)
          \/ EmbeddingArrives(c) \/ EmbeddingFails(c) \/ QueryEmbedded(c) \/ QueryFails(c)
          \/ \E q \in Queries : FromCache(c, q) \/ SearchByWord(c, q) \/ SearchByMeaning(c, q)
    \/ RestartEngine

SearchSpec == SearchInit /\ [][SearchNext]_searchVars
-----------------------------------------------------------------------------
SearchTypeOK ==
    /\ libraries \in [semantic : BOOLEAN, client : BOOLEAN]
    /\ \A i \in DOMAIN library : i \in DocIds /\ library[i] \in Papers
    /\ \A t \in Types : \A i \in DOMAIN collections[t] : i \in DocIds /\ collections[t][i].type = t
    /\ \A c \in Coroutines : waiting[c].for \in {"nothing", "index", "search"}
    /\ DOMAIN indexedAs \subseteq DOMAIN library /\ crossedIds \subseteq DocIds
    /\ indexCalls \in 0 .. MaxIndexed /\ searches \in 0 .. MaxSearches /\ hitches \in 0 .. MaxHitches

\* What an answer with something wrong, just found or taken from the cache, can be put down to.
HasCause(f) ==
    \/ f.cached
    \/ f.what = "stale" /\ f.mode # "keyword" /\ f.copy = "old"
    \/ f.what = "missing" /\ (f.full \/ f.pushed)
    \/ f.what = "missing" /\ f.mode # "keyword" /\ libraries.semantic
                           /\ (f.copy # "newest" \/ f.unlike \/ f.crowded)
    \/ f.what = "foreign" /\ (f.mode \in {"keyword", "hybrid"} \/ ~libraries.semantic \/ hitches > 0)

\* What is wrong with an answer has a cause, or it was given before: the cache keeps answers
\* for ever and for whatever minimum and project.  A text is out of date only where a collection
\* has an old copy; a document that was reported as indexed and has every word of the query is
\* missing only if others took the places or the client ranked it below the minimum, or by
\* meaning without its newest copy, too unlike, or crowded out of the collection of its type;
\* the project restricts the collections only; and no hit is below the minimum.
AnswersHaveCauses == \A f \in findings : HasCause(f)
==============================================================================
