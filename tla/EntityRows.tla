------------------------------ MODULE EntityRows ------------------------------
(***************************************************************************)
(* hydration/ule_hook.py: the rows of document_entities and document_links *)
(* that a hydration keeps for a document. Two hydrations of a workspace    *)
(* overlap when the lease of the first runs out (module DistributedLock).  *)
(* Each works in a transaction: it reads the rows of the entities it found *)
(* one by one, without a lock, and writes the columns that differ from     *)
(* what it read; the links have fresh ids. The rows of a text that has     *)
(* become shorter are left.                                                *)
(***************************************************************************)
EXTENDS Integers, Sequences, FiniteSets

CONSTANTS
    Hydrators,      \* processes that hydrate
    Filed,          \* documents
    Pages,          \* what a document may say: the sequence of its lines that are not blank
    NoRow,          \* a row that is not there
    MaxHooked,      \* bound: versions that reach the hook
    MaxRefusals     \* bound: flushes that the database refuses

\* everything that stands on some page
Lines == UNION {{page[i] : i \in DOMAIN page} : page \in Pages}

ASSUME RowsAssumption ==
    /\ MaxHooked \in Nat /\ MaxRefusals \in Nat
    /\ Pages \subseteq Seq(Lines) /\ NoRow \notin Lines

VARIABLES
    entityRows,     \* text of the row "{document}-{index}", for the two indexes there can be
    linkRows,       \* of each document: the texts its links join, in the order they came
    hooked,         \* what each process does: the document, its lines, the rows it has read
    hookedCount, rowRefusals,
    kept,           \* history: of each document, the texts that were committed, in order
    mingled         \* history: documents two processes were at

rowsVars == <<entityRows, linkRows, hooked, hookedCount, rowRefusals, kept, mingled>>

Indexes == {1, 2}
AtRest == [document |-> "none", lines |-> <<>>, read |-> <<>>]

\* SimpleHydrationPack.extract_entities: the first two lines
EntitiesOf(page) == IF Len(page) > 2 THEN SubSeq(page, 1, 2) ELSE page

\* Faulty variant of LinksOf: a link from the first to the last, be it the same.
LinksOfAny(lines) == IF Len(lines) >= 1 THEN <<<<lines[1], lines[Len(lines)]>>>> ELSE <<>>

\* SimpleHydrationPack.match_entities: one link, from the first to the second
LinksOf(lines) == IF Len(lines) >= 2 THEN <<<<lines[1], lines[2]>>>> ELSE <<>>

RowsInit ==
    /\ entityRows = [d \in Filed |-> [i \in Indexes |-> NoRow]]
    /\ linkRows = [d \in Filed |-> <<>>]
    /\ hooked = [h \in Hydrators |-> AtRest]
    /\ hookedCount = 0 /\ rowRefusals = 0
    /\ kept = [d \in Filed |-> <<>>]
    /\ mingled = {}

Hooking(h) == hooked[h] # AtRest

\* The engine has run, in memory. A version without text reads and writes nothing.
HookBegins(h, d, page) ==
    /\ ~Hooking(h) /\ hookedCount < MaxHooked
    /\ page # <<>>
    /\ hooked' = [hooked EXCEPT ![h] = [document |-> d, lines |-> EntitiesOf(page), read |-> <<>>]]
    /\ hookedCount' = hookedCount + 1
    /\ mingled' = IF \E g \in Hydrators : hooked[g].document = d THEN mingled \cup {d} ELSE mingled
    /\ UNCHANGED <<entityRows, linkRows, rowRefusals, kept>>

\* the row of the next entity, as it is committed
ReadRow(h) ==
    LET at == Len(hooked[h].read) + 1 IN
    /\ Hooking(h) /\ at <= Len(hooked[h].lines)
    /\ hooked' = [hooked EXCEPT ![h].read = Append(@, entityRows[hooked[h].document][at])]
    /\ UNCHANGED <<entityRows, linkRows, hookedCount, rowRefusals, kept, mingled>>

AllRead(h) == Hooking(h) /\ Len(hooked[h].read) = Len(hooked[h].lines)

\* a row that was not there when it was read is inserted, and its id is a key
Clashes(h) ==
    \E i \in DOMAIN hooked[h].read :
        hooked[h].read[i] = NoRow /\ entityRows[hooked[h].document][i] # NoRow

\* An attribute set to the value it was read with is not written.
Written(old, read, new) == IF read = new THEN old ELSE new

\* both flushes and the commit of the item, which row locks make one
CommitRows(h) ==
    LET d == hooked[h].document
        lines == hooked[h].lines
    IN /\ AllRead(h) /\ ~Clashes(h)
       /\ entityRows' = [entityRows EXCEPT ![d] =
              [i \in Indexes |-> IF i \in DOMAIN lines THEN Written(@[i], hooked[h].read[i], lines[i]) ELSE @[i]]]
       /\ linkRows' = [linkRows EXCEPT ![d] = @ \o LinksOf(lines)]
       /\ kept' = [kept EXCEPT ![d] = Append(@, lines)]
       /\ hooked' = [hooked EXCEPT ![h] = AtRest]
       /\ UNCHANGED <<hookedCount, rowRefusals, mingled>>

\* The transaction is rolled back and the run fails, but the version was committed before.
FlushRefused(h) ==
    /\ AllRead(h)
    /\ IF Clashes(h) THEN UNCHANGED rowRefusals
                     ELSE rowRefusals < MaxRefusals /\ rowRefusals' = rowRefusals + 1
    /\ hooked' = [hooked EXCEPT ![h] = AtRest]
    /\ UNCHANGED <<entityRows, linkRows, hookedCount, kept, mingled>>

RowsNext ==
    \E h \in Hydrators :
        \/ \E d \in Filed, page \in Pages : HookBegins(h, d, page)
        \/ ReadRow(h) \/ CommitRows(h) \/ FlushRefused(h)

RowsSpec == RowsInit /\ [][RowsNext]_rowsVars

-----------------------------------------------------------------------------
RowsTypeOK ==
    /\ \A d \in Filed : DOMAIN entityRows[d] = Indexes /\ Len(linkRows[d]) \in 0 .. MaxHooked
    /\ \A h \in Hydrators : Len(hooked[h].read) <= Len(hooked[h].lines)
    /\ hookedCount \in 0 .. MaxHooked /\ rowRefusals \in 0 .. MaxRefusals
    /\ mingled \subseteq Filed

\* the texts that gave a document its i-th row
Givers(d, i) == {n \in DOMAIN kept[d] : Len(kept[d][n]) >= i}
LinesKept(d, i) == {kept[d][n][i] : n \in Givers(d, i)}
NewestOf(S) == CHOOSE n \in S : \A k \in S : k <= n

\* A hydration updates the rows of a document in place (ule_hook.py:127) and adds links
\* (:146). Every row is a line of a committed text, the i-th of it, and there is one as soon
\* as a text had that line; there are as many links as committed texts of two lines, in
\* whatever order, and both ends of each have a row. Unless two hydrations were at the
\* document at once, which may leave the first line of one text beside the second of
\* another, the row is from the newest text that had the line.
RowsHaveCauses ==
    \A d \in Filed :
        /\ \A i \in Indexes :
              /\ Givers(d, i) = {} <=> entityRows[d][i] = NoRow
              /\ Givers(d, i) # {} =>
                    entityRows[d][i] \in (IF d \in mingled THEN LinesKept(d, i)
                                          ELSE {kept[d][NewestOf(Givers(d, i))][i]})
        /\ Len(linkRows[d]) = Cardinality(Givers(d, 2))
        /\ linkRows[d] # <<>> => \A i \in Indexes : entityRows[d][i] # NoRow
=============================================================================
