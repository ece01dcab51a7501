------------------------------ MODULE LinkReader ------------------------------
(***************************************************************************)
(* What backend/api/reasoning.py answers from the tables of the engine.    *)
(* The endpoints that read await nothing, so an answer is a function of    *)
(* the state.  The links of a document are looked for again whenever they  *)
(* are asked for; the graph shows those that were stored.                  *)
(***************************************************************************)
EXTENDS LinkEngine

DefaultThreshold == 750

\* `confidence_threshold or self._default_threshold`: zero is no threshold
Threshold(asked) == IF asked = 0 THEN DefaultThreshold ELSE asked

ListedEntities(d) == {entities[i] : i \in listed[d]}

\* the targets are everything but the sources
OthersThan(found) == {entities[i] : i \in DOMAIN entities \ Ids(found)}

\* find_links, before it is cut; the packs give nothing below their own threshold
FoundNow(d, asked) ==
    {[source |-> p[1], target |-> p[2], confidence |-> Confidence(p[1], p[2], meaning)] :
        p \in {q \in ListedEntities(d) \X OthersThan(ListedEntities(d)) :
                  Matches(q[1], q[2], meaning) /\ Confidence(q[1], q[2], meaning) >= Threshold(asked)}}

\* GET /reasoning/links/{document_id}, which asks for three quarters when the reader asks for nothing
DocumentLinks(d) == FoundNow(d, 750)

\* GET /reasoning/graph/{project_id}: every link of the engine, whatever the project
GraphEdges == {<<l.source.id, l.target.id>> : l \in links}

-----------------------------------------------------------------------------
\* The links of a document are stored when it is processed (ule_engine.py:247) and looked for
\* anew when it is asked for (:297), the two ways of the API to see them. When nothing is
\* under way both show the same: a link found now between two entities of other documents
\* is an edge of the graph, and an edge of the graph whose ends are as they were, of two
\* documents, is found now. Exempt are documents processed by two coroutines at once, failed
\* embeddings, commercial sources searched before their targets, and edges found while an
\* end waited for its embedding: those rest on the embedding of its earlier text.
LinkViewsMeet ==
    (\A a \in Askers : ~Waits(a)) /\ embedFaults = 0 =>
        \A d \in Documents \ atOnce :
            /\ \A l \in DocumentLinks(d) :
                  \/ l.target.document \in atOnce
                  \/ /\ l.source.kind \notin ConstructionKinds
                     /\ searched[l.source.id] < searched[l.target.id]
                  \/ {<<l.source.id, l.target.id>>, <<l.target.id, l.source.id>>} \cap GraphEdges # {}
            /\ \A l \in links :
                  /\ l.source.id \in listed[d] /\ l.target.document \notin atOnce \cup {d}
                  /\ \A e \in {l.source, l.target} : e = entities[e.id] /\ searched[e.id] <= l.call
                  => \E k \in FoundNow(d, 0) : <<k.source, k.target>> = <<l.source, l.target>>

\* What the tables hold and what is shown of them.
LinksHold == LinksAreFound /\ LinkViewsMeet
=============================================================================
