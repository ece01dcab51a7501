---------------------------- MODULE HydrationProofs ----------------------------
(***************************************************************************)
(* Proofs about Hydration, for every number of sources, files, contents,   *)
(* options, edits and faults.                                              *)
(***************************************************************************)
EXTENDS Hydration, FiniteSetTheorems, WellFoundedInduction, TLAPS

InItem == {"upsert"} \cup Writing

\* What is listed belongs to the source the pipeline is at, and the document of the
\* item in hand is a key of the database.
PlaceInv ==
    /\ pc \in {"list", "stamp", "items"} \cup InItem => src \in Sources
    /\ pc \in {"idle", "next", "list"} => items = {}
    /\ pc = "stamp" => Connector[src] = "fs"
    /\ \A i \in items : SourceOf[i.file] = src
    /\ pc \in InItem => HandKey \in Keys

\* A document whose first version is about to be committed has none.
VersionInv ==
    /\ pc = "version" => /\ docs[HandKey].row
                         /\ docs[HandKey].checksum = hand.digest
                         /\ docs[HandKey].versions = <<>>
    /\ \A k \in Keys : ~docs[k].row => docs[k].versions = <<>>

\* The version that is downloaded and indexed is new.
FreshInv ==
    /\ pc \in {"download", "index", "ule"} => docs[HandKey].versions # <<>>
    /\ pc \in {"download", "index"} =>
            docs[HandKey].versions[Newest(HandKey)].copies = 0

\* What is recorded is what was downloaded.
BodyInv == pc \in {"index", "ule"} => body \in Contents

-----------------------------------------------------------------------------
\* A set of numbers has a least one, and a greatest one if it is bounded.
LEMMA Least ==
    ASSUME NEW T \in SUBSET Nat, T # {}
    PROVE  \E x \in T : \A y \in T : x <= y
<1>1. PICK x \in T : \A y \in T : ~ (<<y, x>> \in OpToRel(<, Nat))
  BY NatLessThanWellFounded, WFMin
<1>2. ASSUME NEW y \in T, y < x PROVE FALSE
  <2> DEFINE p == <<y, x>>
  <2>1. p \in Nat \X Nat /\ p[1] = y /\ p[2] = x
    OBVIOUS
  <2>2. p \in OpToRel(<, Nat)
    <3> HIDE DEF p
    <3> QED
      BY <1>2, <2>1 DEF OpToRel
  <2> QED
    BY <1>1, <2>2
<1> QED
  BY <1>2

LEMMA Greatest ==
    ASSUME NEW n \in Nat, NEW T \in SUBSET (0 .. n), T # {}
    PROVE  \E x \in T : \A y \in T : y <= x
<1> DEFINE Down == {n - x : x \in T}
<1>1. Down \in SUBSET Nat /\ Down # {}
  <2>1. \A x \in T : n - x \in Nat
    OBVIOUS
  <2> QED
    BY <2>1
<1>2. PICK d \in Down : \A y \in Down : d <= y
  <2> HIDE DEF Down
  <2> QED
    BY <1>1, Least
<1>3. PICK x \in T : d = n - x
  OBVIOUS
<1>4. ASSUME NEW y \in T PROVE y <= x
  <2>1. d <= n - y
    BY <1>2
  <2> QED
    BY <1>3, <2>1
<1> QED
  BY <1>4

\* A page that is not the last one has a newest change.
LEMMA PageEndReached ==
    ASSUME FilesTyped, NEW s \in Sources, NEW t \in {NoCursor} \cup 0 .. clock,
           Page(s, t) # ChangedAfter(s, t)
    PROVE  \E n \in 0 .. clock : /\ \E g \in Page(s, t) : changed[g] = n
                                 /\ \A g \in Page(s, t) : changed[g] <= n
<1> USE HydrationAssumption DEF FilesTyped
<1> DEFINE C == ChangedAfter(s, t)
<1>1. clock \in Nat /\ C \subseteq Files
  BY DEF ChangedAfter, FilesOf
<1>2. C # {} /\ Page(s, t) \subseteq C
  BY DEF Page
<1>3. PICK f \in C : \A g \in C : changed[f] <= changed[g]
  <2> DEFINE T == {changed[g] : g \in C}
  <2>1. T \in SUBSET Nat /\ T # {}
    BY <1>1, <1>2
  <2>2. PICK x \in T : \A y \in T : x <= y
    BY <2>1, Least
  <2> QED
    BY <2>2
<1>4. f \in Page(s, t)
  <2>1. {g \in C : changed[g] < changed[f]} = {}
    BY <1>1, <1>3
  <2> QED
    BY <2>1, FS_EmptySet DEF Page
<1> DEFINE T == {changed[g] : g \in Page(s, t)}
<1>5. T \in SUBSET (0 .. clock) /\ T # {}
  BY <1>1, <1>2, <1>4
<1>6. PICK x \in T : \A y \in T : y <= x
  BY <1>1, <1>5, Greatest
<1> QED
  BY <1>5, <1>6

\* The token at the end of a page is a time that has been.
LEMMA PageEndTyped ==
    ASSUME FilesTyped, NEW s \in Sources, NEW t \in {NoCursor} \cup 0 .. clock
    PROVE  PageEnd(s, t) \in 0 .. clock
BY PageEndReached DEF PageEnd, FilesTyped

-----------------------------------------------------------------------------
(* Types.                                                                       *)

\* A digest is a checksum or the stand-in for one.
LEMMA DigestTyped ==
    ASSUME FilesTyped, NEW f \in Files
    PROVE  /\ Digest(f) \in Digests
           /\ Connector[SourceOf[f]] = "fs" /\ content[f] # Nothing => Digest(f) = content[f]
BY DEF FilesTyped, Digest, Digests

\* What Keep makes of a listing of the source.
LEMMA KeepTyped ==
    ASSUME FilesTyped, HistoryTyped, NEW s \in Sources,
           NEW listed \in SUBSET FilesOf(s), NEW skipped \in SUBSET Files,
           Keep(listed, skipped)
    PROVE  /\ items' \subseteq [file : Files, digest : Digests, gone : BOOLEAN]
           /\ \A i \in items' : SourceOf[i.file] = s
           /\ cut' \subseteq Files
<1>1. PICK K \in SUBSET listed :
        /\ items' = {[file |-> f, digest |-> Digest(f), gone |-> content[f] = Nothing]
                        : f \in K}
        /\ cut' = (cut \ K) \cup (listed \ K) \cup skipped
  BY DEF Keep, Kept
<1>2. K \subseteq Files /\ listed \subseteq Files /\ \A f \in K : SourceOf[f] = s
  BY DEF FilesOf
<1>3. cut' \subseteq Files
  BY <1>1, <1>2 DEF HistoryTyped
<1>4. \A f \in K : Digest(f) \in Digests
  BY <1>2, DigestTyped
<1>5. ASSUME NEW i \in items'
      PROVE  /\ i \in [file : Files, digest : Digests, gone : BOOLEAN]
             /\ SourceOf[i.file] = s
  <2>1. PICK f \in K : i = [file |-> f, digest |-> Digest(f), gone |-> content[f] = Nothing]
    BY <1>1
  <2>2. f \in Files /\ SourceOf[f] = s /\ Digest(f) \in Digests
    BY <1>2, <1>4
  <2> QED
    BY <2>1, <2>2
<1> QED
  BY <1>3, <1>5

\* The first state is typed.
LEMMA HydrationInitTyped == Init => TypeOK /\ PlaceInv
<1> SUFFICES ASSUME Init PROVE TypeOK /\ PlaceInv
  OBVIOUS
<1> USE HydrationAssumption DEF Init
<1>1. FilesTyped /\ HandTyped /\ PlaceTyped /\ HistoryTyped
  BY DEF FilesTyped, HandTyped, PlaceTyped, HistoryTyped, InItem, Writing
<1>2. DocsTyped
  BY DEF DocsTyped, NoDoc
<1>3. PlaceInv
  BY DEF PlaceInv, InItem, Writing
<1> QED
  BY <1>1, <1>2, <1>3 DEF TypeOK

\* Edits, the beginning and the end of runs and sources, and failures between items.
LEMMA SourceTyped ==
    ASSUME TypeOK, PlaceInv,
           \/ \E f \in Files, c \in Contents \cup {Nothing} : Edit(f, c)
           \/ \E S \in SUBSET Sources, o \in Options : Begin(S, o)
           \/ \E s \in Sources : StartSource(s)
           \/ EndSource \/ EndRun \/ SourceRaises \/ Crash
           \/ UNCHANGED vars
    PROVE  TypeOK' /\ PlaceInv'
<1> USE HydrationAssumption DEF TypeOK, FilesTyped, DocsTyped, HandTyped, PlaceTyped,
        HistoryTyped, PlaceInv, InItem, Writing, fileVars, stateVars, placeVars,
        listVars, itemVars, HandKey, Key
<1>1. ASSUME NEW f \in Files, NEW c \in Contents \cup {Nothing}, Edit(f, c)
      PROVE  TypeOK' /\ PlaceInv'
  BY <1>1 DEF Edit
<1>2. ASSUME NEW S \in SUBSET Sources, NEW o \in Options, Begin(S, o)
      PROVE  TypeOK' /\ PlaceInv'
  BY <1>2 DEF Begin
<1>3. ASSUME NEW s \in Sources, StartSource(s) PROVE TypeOK' /\ PlaceInv'
  BY <1>3 DEF StartSource
<1>4. CASE EndSource
  BY <1>4 DEF EndSource
<1>5. CASE EndRun
  BY <1>5 DEF EndRun
<1>6. CASE SourceRaises
  BY <1>6 DEF SourceRaises
<1>7. CASE Crash
  BY <1>7 DEF Crash
<1>8. CASE UNCHANGED vars
  BY <1>8 DEF vars
<1> QED
  BY <1>1, <1>2, <1>3, <1>4, <1>5, <1>6, <1>7, <1>8

\* Listing a source.
LEMMA ListTyped ==
    ASSUME TypeOK, PlaceInv, ListDrive \/ ListPublic \/ Scan \/ Stamp
    PROVE  TypeOK' /\ PlaceInv'
<1> USE HydrationAssumption DEF TypeOK, HandTyped, PlaceTyped,
        PlaceInv, InItem, Writing, stateVars, placeVars, listVars, itemVars
<1>1. src \in Sources
  BY DEF ListDrive, ListPublic, Scan, Stamp
<1>2. clock \in Nat
  BY DEF FilesTyped
<1>3. FilesTyped' /\ DocsTyped'
  BY DEF ListDrive, ListPublic, Scan, Stamp, FilesTyped, DocsTyped, fileVars
<1>4. CASE ListDrive
  <2>1. Token(src) \in {NoCursor} \cup 0 .. clock
    BY <1>1, <1>2 DEF Token, From
  <2>2. PageEnd(src, Token(src)) \in 0 .. clock
    BY <1>1, <1>2, <2>1, PageEndTyped
  <2>3. Page(src, Token(src)) \in SUBSET FilesOf(src)
    BY DEF Page, ChangedAfter
  <2>4. JumpedOver(src) \in SUBSET Files
    BY DEF JumpedOver, ChangedAfter, FilesOf
  <2>5. Keep(Page(src, Token(src)), JumpedOver(src))
    BY <1>4 DEF ListDrive
  <2>6. /\ items' \subseteq [file : Files, digest : Digests, gone : BOOLEAN]
        /\ \A i \in items' : SourceOf[i.file] = src
        /\ cut' \subseteq Files
    BY <1>1, <2>3, <2>4, <2>5, KeepTyped
  <2>7. HistoryTyped'
    BY <1>1, <1>2, <1>4, <2>6 DEF ListDrive, HistoryTyped, fileVars
  <2> QED
    BY <1>1, <1>2, <1>3, <1>4, <2>2, <2>6, <2>7 DEF ListDrive, fileVars
<1>5. CASE ListPublic
  <2>1. Keep(Present(src), {}) /\ Present(src) \in SUBSET FilesOf(src)
    BY <1>5 DEF ListPublic, Present
  <2>2. /\ items' \subseteq [file : Files, digest : Digests, gone : BOOLEAN]
        /\ \A i \in items' : SourceOf[i.file] = src
        /\ cut' \subseteq Files
    BY <1>1, <2>1, KeepTyped
  <2>3. HistoryTyped'
    BY <1>5, <2>2 DEF ListPublic, HistoryTyped, fileVars
  <2> QED
    BY <1>1, <1>3, <1>5, <2>2, <2>3 DEF ListPublic, fileVars
<1>6. CASE Scan
  <2> DEFINE newer == {f \in Present(src) : changed[f] > From(src)}
  <2>1. Keep(newer, {}) /\ newer \in SUBSET FilesOf(src)
    BY <1>6 DEF Scan, Present
  <2>2. /\ items' \subseteq [file : Files, digest : Digests, gone : BOOLEAN]
        /\ \A i \in items' : SourceOf[i.file] = src
        /\ cut' \subseteq Files
    BY <1>1, <2>1, KeepTyped
  <2>3. HistoryTyped'
    BY <1>6, <2>2 DEF Scan, HistoryTyped, fileVars
  <2> QED
    BY <1>1, <1>3, <1>6, <2>2, <2>3 DEF Scan, fileVars
<1>7. CASE Stamp
  BY <1>1, <1>2, <1>3, <1>7 DEF Stamp, HistoryTyped, fileVars
<1> QED
  BY <1>4, <1>5, <1>6, <1>7

\* A version whose copies are counted stays one.
LEMMA CopyCounted ==
    ASSUME NEW o \in VersionType
    PROVE  [o EXCEPT !.copies = o.copies + 1] \in VersionType
<1>1. o.copies \in Nat
  BY DEF VersionType
<1>2. o.copies + 1 \in Nat
  BY <1>1
<1> QED
  BY <1>2 DEF VersionType

\* A document that is written to stays typed.
LEMMA DocsWritten ==
    ASSUME DocsTyped, NEW k \in Keys,
           \/ \E v \in Seq(VersionType) : docs' = [docs EXCEPT ![k].versions = v]
           \/ \E v \in Seq(VersionType), d \in Digests :
                docs' = [docs EXCEPT ![k].versions = v, ![k].checksum = d]
           \/ \E n \in 1 .. Len(docs[k].versions) :
                docs' = [docs EXCEPT ![k].versions[n].copies = @ + 1]
           \/ \E n \in 1 .. Len(docs[k].versions), t \in Contents \cup {Nothing} :
                docs' = [docs EXCEPT ![k].versions[n].text = t]
    PROVE  DocsTyped'
<1> USE DEF DocsTyped
<1>1. ASSUME NEW v \in Seq(VersionType), docs' = [docs EXCEPT ![k].versions = v]
      PROVE  DocsTyped'
  BY <1>1
<1>2. ASSUME NEW v \in Seq(VersionType), NEW d \in Digests,
             docs' = [docs EXCEPT ![k].versions = v, ![k].checksum = d]
      PROVE  DocsTyped'
  BY <1>2
<1>3. ASSUME NEW n \in 1 .. Len(docs[k].versions),
             docs' = [docs EXCEPT ![k].versions[n].copies = @ + 1]
      PROVE  DocsTyped'
  <2> DEFINE new == [docs[k].versions[n] EXCEPT !.copies = docs[k].versions[n].copies + 1]
             v   == [docs[k].versions EXCEPT ![n] = new]
  <2>1. docs[k].versions \in Seq(VersionType) /\ docs[k].versions[n] \in VersionType
    OBVIOUS
  <2>2. new \in VersionType
    BY <2>1, CopyCounted
  <2>3. v \in Seq(VersionType)
    BY <2>1, <2>2
  <2>4. docs' = [docs EXCEPT ![k].versions = v]
    BY <1>3
  <2> QED
    BY <1>1, <2>3, <2>4
<1>4. ASSUME NEW n \in 1 .. Len(docs[k].versions), NEW t \in Contents \cup {Nothing},
             docs' = [docs EXCEPT ![k].versions[n].text = t]
      PROVE  DocsTyped'
  <2> DEFINE new == [docs[k].versions[n] EXCEPT !.text = t]
             v   == [docs[k].versions EXCEPT ![n] = new]
  <2>1. docs[k].versions \in Seq(VersionType) /\ docs[k].versions[n] \in VersionType
    OBVIOUS
  <2>2. new \in VersionType
    BY <2>1 DEF VersionType
  <2>3. v \in Seq(VersionType)
    BY <2>1, <2>2
  <2>4. docs' = [docs EXCEPT ![k].versions = v]
    BY <1>4
  <2> QED
    BY <1>1, <2>3, <2>4
<1> QED
  BY <1>1, <1>2, <1>3, <1>4

\* An item taken up.
LEMMA TakeTyped == TypeOK /\ PlaceInv /\ Take => TypeOK' /\ PlaceInv'
<1> SUFFICES ASSUME TypeOK, PlaceInv, Take PROVE TypeOK' /\ PlaceInv'
  OBVIOUS
<1> USE HydrationAssumption DEF TypeOK, PlaceTyped, PlaceInv, InItem, Writing, stateVars,
        placeVars
<1>1. PICK i \in items :
        /\ items' = items \ {i}
        /\ IF Connector[src] = "fs"
             THEN /\ content[i.file] # Nothing
                  /\ hand' = [i EXCEPT !.digest = content[i.file]]
             ELSE hand' = i
  BY DEF Take
<1>2. /\ i \in [file : Files, digest : Digests, gone : BOOLEAN]
      /\ SourceOf[i.file] = src
  BY DEF HandTyped
<1>3. content[i.file] \in Contents \cup {Nothing}
  BY <1>2 DEF FilesTyped
<1>4. hand' \in [file : Files, digest : Digests, gone : BOOLEAN]
  BY <1>1, <1>2, <1>3 DEF Digests
<1>5. HandTyped'
  BY <1>1, <1>4 DEF Take, HandTyped
<1>6. HandKey' \in Keys
  BY <1>1, <1>2, <1>3 DEF HandKey, Key, Keys
<1>7. FilesTyped' /\ DocsTyped' /\ HistoryTyped'
  BY DEF Take, FilesTyped, DocsTyped, HistoryTyped, fileVars
<1>8. PlaceTyped'
  BY DEF Take, fileVars
<1>9. PlaceInv'
  BY <1>1, <1>6 DEF Take
<1> QED
  BY <1>5, <1>7, <1>8, <1>9

\* Returning from process_item, or going on with the item in hand.
LEMMA ReturnTyped ==
    ASSUME TypeOK, PlaceInv, pc \in InItem, Return,
           UNCHANGED <<fileVars, stateVars, placeVars, listVars, since, cut>>,
           DocsTyped', hurt' \subseteq Keys, faults' \in 0 .. MaxFaults,
           run' \in {run, "partial"}
    PROVE  TypeOK' /\ PlaceInv'
<1> USE DEF TypeOK, Return, PlaceInv, InItem, Writing, fileVars, stateVars, placeVars,
        listVars
<1>1. FilesTyped' /\ HistoryTyped'
  BY DEF FilesTyped, HistoryTyped
<1>2. HandTyped' /\ PlaceTyped'
  BY DEF HandTyped, PlaceTyped
<1> QED
  BY <1>1, <1>2

LEMMA OnwardTyped ==
    ASSUME TypeOK, PlaceInv, pc \in InItem, pc' \in Writing,
           UNCHANGED <<fileVars, stateVars, run, placeVars, listVars, hand, since, cut,
                       faults>>,
           DocsTyped', hurt' \subseteq Keys, body' \in Contents \cup {Nothing}
    PROVE  TypeOK' /\ PlaceInv'
<1> USE DEF TypeOK, PlaceInv, InItem, Writing, fileVars, stateVars, placeVars,
        listVars
<1>1. FilesTyped' /\ HistoryTyped'
  BY DEF FilesTyped, HistoryTyped
<1>2. HandTyped' /\ PlaceTyped'
  BY DEF HandTyped, PlaceTyped
<1> QED
  BY <1>1, <1>2 DEF HandKey

\* A new version is typed, and goes to the end.
LEMMA VersionAdded ==
    ASSUME DocsTyped, NEW k \in Keys, NEW d \in Digests
    PROVE  Append(docs[k].versions, Version(d)) \in Seq(VersionType)
<1>1. docs[k].versions \in Seq(VersionType) /\ Version(d) \in VersionType
  BY DEF DocsTyped, Version, VersionType
<1> QED
  BY <1>1

\* The steps of process_item.
LEMMA ItemTyped ==
    ASSUME TypeOK, PlaceInv, FreshInv,
           \/ InsertDocument \/ InsertVersion \/ Update \/ Unchanged \/ NoVersions
           \/ Download \/ Index \/ Commit \/ ItemRaises
    PROVE  TypeOK' /\ PlaceInv'
<1> USE HydrationAssumption DEF InItem, Writing
<1>1. /\ hand \in [file : Files, digest : Digests, gone : BOOLEAN]
      /\ HandKey \in Keys /\ pc \in InItem
      /\ body \in Contents \cup {Nothing} /\ faults \in 0 .. MaxFaults
      /\ hurt \subseteq Keys /\ hurt \cup {HandKey} \subseteq Keys
      /\ docs[HandKey] \in [row : BOOLEAN, checksum : Digests \cup {Nothing},
                            versions : Seq(VersionType)]
      /\ docs \in [Keys -> [row : BOOLEAN, checksum : Digests \cup {Nothing},
                            versions : Seq(VersionType)]]
  <2>1. pc \in InItem
    BY DEF InsertDocument, InsertVersion, Update, Unchanged, NoVersions, Known, Download,
       Index, Commit, ItemRaises
  <2> QED
    BY <2>1 DEF TypeOK, PlaceInv, HandTyped, HistoryTyped, DocsTyped
<1>2. CASE InsertDocument
  <2>1. DocsTyped'
    BY <1>1, <1>2 DEF InsertDocument, DocsTyped
  <2> QED
    BY <1>1, <1>2, <2>1, OnwardTyped DEF InsertDocument, itemVars
<1>3. ASSUME DocsTyped', Proceed,
             UNCHANGED <<fileVars, stateVars, run, placeVars, listVars, since, cut, faults>>
      PROVE  TypeOK' /\ PlaceInv'
  <2>1. CASE hand.gone \/ opts.dry
    BY <1>1, <1>3, <2>1, ReturnTyped DEF Proceed
  <2>2. CASE ~(hand.gone \/ opts.dry)
    BY <1>1, <1>3, <2>2, OnwardTyped DEF Proceed, itemVars
  <2> QED
    BY <2>1, <2>2
<1>4. CASE InsertVersion \/ Update
  <2> DEFINE v == Append(docs[HandKey].versions, Version(hand.digest))
  <2>1. v \in Seq(VersionType)
    BY <1>1, VersionAdded DEF TypeOK
  <2>2. \/ docs' = [docs EXCEPT ![HandKey].versions = v]
        \/ docs' = [docs EXCEPT ![HandKey].versions = v, ![HandKey].checksum = hand.digest]
    BY <1>4 DEF InsertVersion, Update, NewChecksum
  <2>3. DocsTyped'
    <3> HIDE DEF v
    <3> QED
      BY <1>1, <2>1, <2>2, DocsWritten DEF TypeOK
  <2> QED
    BY <1>3, <1>4, <2>3 DEF InsertVersion, Update
<1>6. CASE Unchanged \/ NoVersions
  <2>1. DocsTyped'
    BY <1>6 DEF Unchanged, NoVersions, TypeOK, DocsTyped
  <2> QED
    BY <1>1, <1>6, <2>1, ReturnTyped DEF Unchanged, NoVersions, Fails
<1>7. CASE Download
  <2>1. DocsTyped' /\ body' \in Contents
    BY <1>1, <1>7 DEF Download, TypeOK, DocsTyped, FilesTyped
  <2> QED
    BY <1>1, <1>7, <2>1, OnwardTyped DEF Download
<1>8. CASE Index
  <2>1. Newest(HandKey) \in 1 .. Len(docs[HandKey].versions)
    BY <1>1, <1>8 DEF Index, FreshInv, Newest
  <2>2. DocsTyped'
    BY <1>1, <1>8, <2>1, DocsWritten DEF Index, TypeOK
  <2> QED
    BY <1>1, <1>8, <2>2, OnwardTyped DEF Index, itemVars
<1>9. ASSUME pc = "ule", Record PROVE DocsTyped'
  <2>1. Newest(HandKey) \in 1 .. Len(docs[HandKey].versions)
    BY <1>1, <1>9 DEF FreshInv, Newest
  <2> QED
    BY <1>1, <1>9, <2>1, DocsWritten DEF Record, TypeOK
<1>10. CASE Commit
  BY <1>1, <1>9, <1>10, ReturnTyped DEF Commit
<1>11. CASE ItemRaises
  <2>1. DocsTyped'
    BY <1>9, <1>11 DEF ItemRaises, TypeOK, DocsTyped
  <2>2. faults' \in 0 .. MaxFaults /\ hurt' \subseteq Keys
    BY <1>1, <1>11 DEF ItemRaises
  <2> QED
    BY <1>1, <1>11, <2>1, <2>2, ReturnTyped DEF ItemRaises, Fails
<1> QED
  BY <1>2, <1>4, <1>6, <1>7, <1>8, <1>10, <1>11

-----------------------------------------------------------------------------
(* Documents and versions.                                                      *)

DocInv ==
    VersionInv /\ VersionsDiffer /\ FreshInv /\ IndexedOnce /\ BodyInv /\ GapsHaveCauses

\* Steps that leave the documents alone and stop writing one, or go on as before.
LEMMA DocFrame ==
    ASSUME DocInv, UNCHANGED docs, pc' \notin Writing, hurt \subseteq hurt',
           pc \notin Writing \/ HandKey \in hurt'
    PROVE  DocInv'
<1> USE DEF DocInv, Writing
<1>1. VersionInv' /\ VersionsDiffer' /\ FreshInv' /\ IndexedOnce' /\ BodyInv'
  BY DEF VersionInv, VersionsDiffer, FreshInv, IndexedOnce, BodyInv
<1>2. GapsHaveCauses'
  BY DEF GapsHaveCauses
<1> QED
  BY <1>1, <1>2

LEMMA DocStill ==
    ASSUME DocInv, UNCHANGED <<docs, pc, hand, body, hurt>>
    PROVE  DocInv'
BY DEF DocInv, VersionInv, VersionsDiffer, FreshInv, IndexedOnce, BodyInv,
   GapsHaveCauses, HandKey, Newest

\* A new document has no version yet.
LEMMA InsertDocumentKeeps ==
    ASSUME TypeOK, PlaceInv, DocInv, InsertDocument PROVE DocInv'
<1> USE DEF InsertDocument, DocInv, itemVars
<1>1. /\ HandKey \in Keys /\ HandKey' = HandKey
      /\ docs'[HandKey].row /\ docs'[HandKey].checksum = hand.digest
      /\ docs'[HandKey].versions = <<>>
      /\ \A k \in Keys \ {HandKey} : docs'[k] = docs[k]
  BY DEF TypeOK, DocsTyped, PlaceInv, InItem, VersionInv, HandKey
<1>2. VersionInv'
  BY <1>1 DEF VersionInv
<1>3. \A k \in Keys : docs'[k].versions = docs[k].versions
  BY <1>1 DEF VersionInv
<1>4. VersionsDiffer'
  <2>1. ASSUME NEW k \in Keys
        PROVE  LET v == docs'[k].versions IN
               /\ v # <<>> => v[Len(v)].of = docs'[k].checksum
               /\ \A i \in 1 .. Len(v) - 1 : v[i].of # v[i + 1].of
    <3>1. CASE k = HandKey
      <4>1. docs'[k].versions = <<>> /\ Len(<<>>) = 0
        BY <1>1, <3>1
      <4>2. 1 .. Len(docs'[k].versions) - 1 = {}
        BY <4>1
      <4> QED
        BY <4>1, <4>2
    <3>2. CASE k # HandKey
      <4>1. docs'[k] = docs[k]
        BY <1>1, <3>2
      <4> QED
        BY <4>1 DEF VersionsDiffer
    <3> QED
      BY <3>1, <3>2
  <2> QED
    BY <2>1 DEF VersionsDiffer
<1>5. IndexedOnce' /\ FreshInv' /\ BodyInv'
  BY <1>3 DEF IndexedOnce, FreshInv, BodyInv
<1>6. GapsHaveCauses'
  BY <1>1 DEF GapsHaveCauses, Writing
<1> QED
  BY <1>2, <1>4, <1>5, <1>6

\* A new version, of a new document or of another checksum.
LEMMA NewVersionKeeps ==
    ASSUME TypeOK, PlaceInv, DocInv, InsertVersion \/ Update PROVE DocInv'
<1> DEFINE old == docs[HandKey].versions
           v   == Append(old, Version(hand.digest))
           n   == Len(old) + 1
<1>1. /\ HandKey \in Keys
      /\ docs \in [Keys -> [row : BOOLEAN, checksum : Digests \cup {Nothing},
                            versions : Seq(VersionType)]]
  BY DEF TypeOK, DocsTyped, PlaceInv, InItem, Writing, InsertVersion, Update
<1>2. /\ docs'[HandKey].row /\ docs'[HandKey].checksum = hand.digest
      /\ docs'[HandKey].versions = v
      /\ \A k \in Keys \ {HandKey} : docs'[k] = docs[k]
  <2>1. CASE InsertVersion
    BY <1>1, <2>1 DEF InsertVersion, DocInv, VersionInv
  <2>2. CASE Update
    BY <1>1, <2>2 DEF Update, NewChecksum
  <2> QED
    BY <2>1, <2>2
<1>3. old \in Seq(VersionType) /\ n \in Nat /\ Len(v) = n /\ v # <<>>
  <2>1. old \in Seq(VersionType)
    BY <1>1
  <2> HIDE DEF old
  <2> QED
    BY <2>1
<1>4. v[n] = Version(hand.digest) /\ \A i \in 1 .. n - 1 : v[i] = old[i]
  BY <1>3
<1>5. old # <<>> => old[Len(old)].of # hand.digest
  BY <1>1 DEF InsertVersion, Update, DocInv, VersionInv, VersionsDiffer
<1> HIDE DEF v, n
<1>6. VersionsDiffer'
  <2>1. v[Len(v)].of = hand.digest
    BY <1>3, <1>4 DEF Version
  <2>2. ASSUME NEW i \in 1 .. Len(v) - 1 PROVE v[i].of # v[i + 1].of
    <3>1. CASE i = Len(old)
      BY <1>3, <1>4, <1>5, <2>2, <3>1 DEF Version, n
    <3>2. CASE i # Len(old)
      <4>1. i \in 1 .. Len(old) - 1 /\ i \in 1 .. n - 1 /\ i + 1 \in 1 .. n - 1
        BY <1>3, <2>2, <3>2 DEF n
      <4>2. old[i].of # old[i + 1].of
        BY <1>1, <4>1 DEF DocInv, VersionsDiffer
      <4> QED
        BY <1>4, <4>1, <4>2
    <3> QED
      BY <3>1, <3>2
  <2>3. ASSUME NEW k \in Keys
        PROVE  LET u == docs'[k].versions IN
               /\ u # <<>> => u[Len(u)].of = docs'[k].checksum
               /\ \A i \in 1 .. Len(u) - 1 : u[i].of # u[i + 1].of
    <3>1. CASE k = HandKey
      BY <1>2, <2>1, <2>2, <3>1
    <3>2. CASE k # HandKey
      BY <1>2, <3>2 DEF DocInv, VersionsDiffer
    <3> QED
      BY <3>1, <3>2
  <2> QED
    BY <2>3 DEF VersionsDiffer
<1>7. IndexedOnce'
  <2>1. ASSUME NEW i \in 1 .. Len(v) PROVE v[i].copies <= 1
    BY <1>1, <1>3, <1>4, <2>1 DEF Version, DocInv, IndexedOnce, n
  <2> QED
    BY <1>2, <2>1 DEF DocInv, IndexedOnce
<1>8. VersionInv'
  BY <1>2 DEF VersionInv, DocInv, InsertVersion, Update, Proceed, Return
<1>9. FreshInv' /\ BodyInv' /\ GapsHaveCauses'
  <2>1. CASE hand.gone \/ opts.dry
    <3>1. pc' = "items" /\ hurt' = hurt \cup {HandKey}
      BY <2>1 DEF InsertVersion, Update, Proceed, Return
    <3>2. GapsHaveCauses'
      BY <1>2, <3>1 DEF DocInv, GapsHaveCauses, Writing
    <3> QED
      BY <3>1, <3>2 DEF FreshInv, BodyInv
  <2>2. CASE ~(hand.gone \/ opts.dry)
    <3>1. pc' = "download" /\ hurt' = hurt \ {HandKey} /\ HandKey' = HandKey
      BY <2>2 DEF InsertVersion, Update, Proceed, itemVars, HandKey
    <3>2. GapsHaveCauses'
      BY <1>2, <3>1 DEF DocInv, GapsHaveCauses, Writing
    <3>3. FreshInv'
      BY <1>2, <1>3, <1>4, <3>1 DEF FreshInv, Newest, Version
    <3> QED
      BY <3>1, <3>2, <3>3 DEF BodyInv
  <2> QED
    BY <2>1, <2>2
<1> QED
  BY <1>6, <1>7, <1>8, <1>9 DEF DocInv

\* The version that is new when it is downloaded is indexed, and then recorded.
LEMMA DownloadKeeps ==
    ASSUME TypeOK, PlaceInv, DocInv, Download PROVE DocInv'
<1> USE DEF Download, DocInv
<1>1. UNCHANGED <<docs, hurt>> /\ HandKey' = HandKey
  BY DEF HandKey
<1>2. BodyInv'
  BY DEF TypeOK, HandTyped, FilesTyped, BodyInv, Writing
<1>3. VersionInv' /\ VersionsDiffer' /\ FreshInv' /\ IndexedOnce' /\ GapsHaveCauses'
  BY <1>1 DEF VersionInv, VersionsDiffer, FreshInv, IndexedOnce, GapsHaveCauses,
     Newest, Writing
<1> QED
  BY <1>2, <1>3

\* What a write to one field of the newest version leaves as it was.
LEMMA NewestWritten ==
    ASSUME DocsTyped, NEW k \in Keys, docs[k].versions # <<>>,
           NEW u \in VersionType,
           u.of = docs[k].versions[Newest(k)].of,
           NEW w, w = [docs[k].versions EXCEPT ![Newest(k)] = u],
           docs' = [docs EXCEPT ![k].versions = w]
    PROVE  /\ docs'[k].row = docs[k].row /\ docs'[k].checksum = docs[k].checksum
           /\ docs'[k].versions # <<>>
           /\ Len(docs'[k].versions) = Len(docs[k].versions)
           /\ \A i \in 1 .. Len(docs[k].versions) :
                docs'[k].versions[i].of = docs[k].versions[i].of
           /\ \A i \in 1 .. Len(docs[k].versions) :
                i # Newest(k) => docs'[k].versions[i] = docs[k].versions[i]
           /\ docs'[k].versions[Newest(k)] = u
           /\ \A j \in Keys \ {k} : docs'[j] = docs[j]
<1> DEFINE v == docs[k].versions
<1>1. v \in Seq(VersionType) /\ Newest(k) \in 1 .. Len(v)
  BY DEF DocsTyped, Newest
<1>2. /\ Len(w) = Len(v) /\ w # <<>> /\ w[Newest(k)] = u
      /\ \A i \in 1 .. Len(v) : i # Newest(k) => w[i] = v[i]
  BY <1>1
<1>3. /\ docs'[k].row = docs[k].row /\ docs'[k].checksum = docs[k].checksum
      /\ docs'[k].versions = w
      /\ \A j \in Keys \ {k} : docs'[j] = docs[j]
  BY DEF DocsTyped
<1> QED
  BY <1>1, <1>2, <1>3 DEF Newest

LEMMA IndexKeeps ==
    ASSUME TypeOK, PlaceInv, DocInv, Index PROVE DocInv'
<1> DEFINE k == HandKey
           n == Newest(k)
           u == [docs[k].versions[n] EXCEPT !.copies = @ + 1]
           w == [docs[k].versions EXCEPT ![n] = u]
<1>1. /\ k \in Keys /\ DocsTyped /\ docs[k].versions # <<>>
      /\ docs[k].versions[n] \in VersionType /\ n \in 1 .. Len(docs[k].versions)
      /\ docs[k].versions[n].copies = 0
  BY DEF TypeOK, DocsTyped, PlaceInv, InItem, Writing, DocInv, FreshInv, Index, Newest
<1>2. u \in VersionType /\ u.of = docs[k].versions[n].of /\ u.copies = 1
      /\ u.text = docs[k].versions[n].text
  BY <1>1, CopyCounted DEF VersionType
<1>3. docs' = [docs EXCEPT ![k].versions = w]
  BY DEF Index
<1>4. /\ docs'[k].row = docs[k].row /\ docs'[k].checksum = docs[k].checksum
      /\ docs'[k].versions # <<>>
      /\ Len(docs'[k].versions) = Len(docs[k].versions)
      /\ \A i \in 1 .. Len(docs[k].versions) :
           docs'[k].versions[i].of = docs[k].versions[i].of
      /\ \A i \in 1 .. Len(docs[k].versions) :
           i # n => docs'[k].versions[i] = docs[k].versions[i]
      /\ docs'[k].versions[n] = u
      /\ \A j \in Keys \ {k} : docs'[j] = docs[j]
  <2>1. w = [docs[k].versions EXCEPT ![n] = u]
    OBVIOUS
  <2> HIDE DEF u, k, w
  <2> QED
    BY <1>1, <1>2, <1>3, <2>1, NewestWritten
<1>5. UNCHANGED <<hand, body, hurt>> /\ HandKey' = HandKey /\ pc = "index" /\ pc' = "ule"
  BY DEF Index, itemVars, HandKey
<1> HIDE DEF u
<1>6. VersionsDiffer'
  <2>1. ASSUME NEW j \in Keys
        PROVE  LET v == docs'[j].versions IN
               /\ v # <<>> => v[Len(v)].of = docs'[j].checksum
               /\ \A i \in 1 .. Len(v) - 1 : v[i].of # v[i + 1].of
    <3>1. /\ Len(docs[j].versions) \in Nat
          /\ docs[j].versions # <<>> =>
               docs[j].versions[Len(docs[j].versions)].of = docs[j].checksum
          /\ \A i \in 1 .. Len(docs[j].versions) - 1 :
               docs[j].versions[i].of # docs[j].versions[i + 1].of
      BY <1>1 DEF DocInv, VersionsDiffer, DocsTyped
    <3>2. CASE j = k
      <4> HIDE DEF k
      <4>1. n = Len(docs[k].versions)
        BY DEF Newest
      <4>2. docs'[k].versions[Len(docs'[k].versions)].of = docs'[k].checksum
        BY <1>1, <1>4, <3>1, <3>2, <4>1
      <4>3. ASSUME NEW i \in 1 .. Len(docs'[k].versions) - 1
            PROVE  docs'[k].versions[i].of # docs'[k].versions[i + 1].of
        <5>1. i \in 1 .. Len(docs[k].versions) /\ i + 1 \in 1 .. Len(docs[k].versions)
          BY <1>4, <3>1, <3>2
        <5> QED
          BY <1>4, <3>1, <3>2, <5>1
      <4> QED
        BY <3>2, <4>2, <4>3
    <3>3. CASE j # k
      BY <1>4, <3>1, <3>3
    <3> QED
      BY <3>2, <3>3
  <2> QED
    BY <2>1 DEF VersionsDiffer
<1>7. IndexedOnce'
  BY <1>2, <1>4 DEF DocInv, IndexedOnce
<1>8. VersionInv' /\ FreshInv' /\ BodyInv'
  BY <1>1, <1>4, <1>5 DEF DocInv, VersionInv, FreshInv, BodyInv
<1>9. GapsHaveCauses'
  BY <1>1, <1>4, <1>5 DEF DocInv, GapsHaveCauses, Writing
<1> QED
  BY <1>6, <1>7, <1>8, <1>9 DEF DocInv

LEMMA RecordKeeps ==
    ASSUME TypeOK, PlaceInv, DocInv, pc = "ule", Record, Return, UNCHANGED hurt
    PROVE  DocInv'
<1> DEFINE k == HandKey
           n == Newest(k)
           u == [docs[k].versions[n] EXCEPT !.text = body]
           w == [docs[k].versions EXCEPT ![n] = u]
<1>1. /\ k \in Keys /\ DocsTyped /\ docs[k].versions # <<>>
      /\ docs[k].versions[n] \in VersionType /\ n \in 1 .. Len(docs[k].versions)
      /\ body \in Contents /\ Nothing \notin Contents
  BY HydrationAssumption DEF TypeOK, DocsTyped, PlaceInv, InItem, Writing, DocInv, FreshInv,
     BodyInv, Newest
<1>2. u \in VersionType /\ u.of = docs[k].versions[n].of /\ u.text = body
      /\ u.copies = docs[k].versions[n].copies
  BY <1>1 DEF VersionType
<1>3. docs' = [docs EXCEPT ![k].versions = w]
  BY DEF Record
<1>4. /\ docs'[k].row = docs[k].row /\ docs'[k].checksum = docs[k].checksum
      /\ docs'[k].versions # <<>>
      /\ Len(docs'[k].versions) = Len(docs[k].versions)
      /\ \A i \in 1 .. Len(docs[k].versions) :
           docs'[k].versions[i].of = docs[k].versions[i].of
      /\ \A i \in 1 .. Len(docs[k].versions) :
           i # n => docs'[k].versions[i] = docs[k].versions[i]
      /\ docs'[k].versions[n] = u
      /\ \A j \in Keys \ {k} : docs'[j] = docs[j]
  <2>1. w = [docs[k].versions EXCEPT ![n] = u]
    OBVIOUS
  <2> HIDE DEF u, k, w
  <2> QED
    BY <1>1, <1>2, <1>3, <2>1, NewestWritten
<1>5. UNCHANGED hurt /\ pc' = "items"
  BY DEF Return
<1> HIDE DEF u
<1>6. VersionsDiffer'
  <2>1. ASSUME NEW j \in Keys
        PROVE  LET v == docs'[j].versions IN
               /\ v # <<>> => v[Len(v)].of = docs'[j].checksum
               /\ \A i \in 1 .. Len(v) - 1 : v[i].of # v[i + 1].of
    <3>1. /\ Len(docs[j].versions) \in Nat
          /\ docs[j].versions # <<>> =>
               docs[j].versions[Len(docs[j].versions)].of = docs[j].checksum
          /\ \A i \in 1 .. Len(docs[j].versions) - 1 :
               docs[j].versions[i].of # docs[j].versions[i + 1].of
      BY <1>1 DEF DocInv, VersionsDiffer, DocsTyped
    <3>2. CASE j = k
      <4> HIDE DEF k
      <4>1. n = Len(docs[k].versions)
        BY DEF Newest
      <4>2. docs'[k].versions[Len(docs'[k].versions)].of = docs'[k].checksum
        BY <1>1, <1>4, <3>1, <3>2, <4>1
      <4>3. ASSUME NEW i \in 1 .. Len(docs'[k].versions) - 1
            PROVE  docs'[k].versions[i].of # docs'[k].versions[i + 1].of
        <5>1. i \in 1 .. Len(docs[k].versions) /\ i + 1 \in 1 .. Len(docs[k].versions)
          BY <1>4, <3>1, <3>2
        <5> QED
          BY <1>4, <3>1, <3>2, <5>1
      <4> QED
        BY <3>2, <4>2, <4>3
    <3>3. CASE j # k
      BY <1>4, <3>1, <3>3
    <3> QED
      BY <3>2, <3>3
  <2> QED
    BY <2>1 DEF VersionsDiffer
<1>7. IndexedOnce'
  BY <1>2, <1>4 DEF DocInv, IndexedOnce
<1>8. VersionInv' /\ FreshInv' /\ BodyInv'
  BY <1>1, <1>4, <1>5 DEF DocInv, VersionInv, FreshInv, BodyInv
<1>9. GapsHaveCauses'
  <2>1. docs'[k].versions[Len(docs'[k].versions)].text # Nothing
    BY <1>1, <1>2, <1>4 DEF Newest
  <2> QED
    BY <1>1, <1>4, <1>5, <2>1 DEF DocInv, GapsHaveCauses
<1> QED
  BY <1>6, <1>7, <1>8, <1>9 DEF DocInv

-----------------------------------------------------------------------------
IInv == TypeOK /\ PlaceInv /\ DocInv

LEMMA IInvKept == IInv /\ [Next]_vars => IInv'
<1> SUFFICES ASSUME IInv, [Next]_vars PROVE IInv'
  OBVIOUS
<1> USE DEF IInv
<1>1. TypeOK' /\ PlaceInv'
  BY SourceTyped, ListTyped, TakeTyped, ItemTyped DEF Next, Work, DocInv
<1>2. CASE \/ \E f \in Files, c \in Contents \cup {Nothing} : Edit(f, c)
           \/ UNCHANGED vars
  BY <1>1, <1>2, DocStill DEF Edit, vars, itemVars
<1>3. CASE \/ \E S \in SUBSET Sources, o \in Options : Begin(S, o)
           \/ \E s \in Sources : StartSource(s)
           \/ ListDrive \/ ListPublic \/ Scan \/ Stamp \/ Take \/ EndSource \/ EndRun
           \/ SourceRaises
  <2>1. UNCHANGED <<docs, hurt>> /\ pc \notin Writing /\ pc' \notin Writing
    BY <1>3 DEF Begin, StartSource, ListDrive, ListPublic, Scan, Stamp, Take, EndSource,
       EndRun, SourceRaises, Writing
  <2> QED
    BY <1>1, <2>1, DocFrame
<1>4. CASE Crash
  BY <1>1, <1>4, DocFrame DEF Crash, Writing
<1>5. CASE Unchanged \/ NoVersions
  BY <1>1, <1>5, DocFrame DEF Unchanged, NoVersions, Known, Fails, Return, Writing
<1>6. CASE ItemRaises /\ pc # "ule"
  BY <1>1, <1>6, DocFrame DEF ItemRaises, Fails, Return, Writing
<1>7. CASE Commit \/ (ItemRaises /\ pc = "ule")
  BY <1>1, <1>7, RecordKeeps DEF Commit, ItemRaises, Fails
<1> QED
  BY <1>1, <1>2, <1>3, <1>4, <1>5, <1>6, <1>7, InsertDocumentKeeps, NewVersionKeeps,
     DownloadKeeps, IndexKeeps DEF Next, Work

LEMMA IInvInit == Init => IInv
<1> SUFFICES ASSUME Init PROVE IInv
  OBVIOUS
<1>1. \A k \in Keys : docs[k] = NoDoc
  BY DEF Init
<1>2. DocInv
  BY <1>1 DEF Init, DocInv, VersionInv, VersionsDiffer, FreshInv, IndexedOnce, BodyInv,
     GapsHaveCauses, NoDoc
<1> QED
  BY <1>2, HydrationInitTyped DEF IInv

LEMMA HydrationInvariant == Spec => []IInv
  BY IInvInit, IInvKept, PTL DEF Spec

\* The types of the model, for any sources, files, options and bounds.
THEOREM HydrationTypeCorrect == Spec => []TypeOK
<1>1. IInv => TypeOK
  BY DEF IInv
<1> QED
  BY <1>1, HydrationInvariant, PTL

\* The chunks of a version are added to the vector store at most once, whatever
\* crashes, raises or is repeated.
THEOREM HydrationIndexedOnce == Spec => []IndexedOnce
<1>1. IInv => IndexedOnce
  BY DEF IInv, DocInv
<1> QED
  BY <1>1, HydrationInvariant, PTL

\* A new version has another checksum than the one before it, and the last one has
\* the checksum of its document.
THEOREM HydrationVersionsDiffer == Spec => []VersionsDiffer
<1>1. IInv => VersionsDiffer
  BY DEF IInv, DocInv
<1> QED
  BY <1>1, HydrationInvariant, PTL

\* A newest version without text has been stopped by a crash, a failed step, a dry
\* run or a removal, or is being indexed.
THEOREM HydrationGapsHaveCauses == Spec => []GapsHaveCauses
<1>1. IInv => GapsHaveCauses
  BY DEF IInv, DocInv
<1> QED
  BY <1>1, HydrationInvariant, PTL

-----------------------------------------------------------------------------
(* CursorCovers.  While the items of a Drive source are processed, the cursor   *)
(* that will be stored covers what is in the documents, still listed, or in     *)
(* hand; and only files changed after the stored cursor are written to.         *)

DriveFile(f) == Connector[SourceOf[f]] = "drive"

Covered(f) == f \in cut \/ (docs[f].row /\ docs[f].checksum = Digest(f))

Processing == pc \in {"items"} \cup InItem

\* An item is newer than the stored cursor, and true unless the file was edited after
\* its listing.
TrueItem(i) ==
    /\ cursor[src] < changed[i.file]
    /\ changed[i.file] <= next => i.digest = Digest(i.file)

ItemsInv ==
    /\ pc \in InItem => SourceOf[hand.file] = src
    /\ Processing /\ Connector[src] = "drive" =>
         /\ next \in 0 .. clock
         /\ cursor[src] = NoCursor => next <= since[src]
         /\ \A i \in items : TrueItem(i)
         /\ pc \in InItem => TrueItem(hand)

NextCovers ==
    Processing /\ Connector[src] = "drive" =>
        \A f \in FilesOf(src) : since[src] < changed[f] /\ changed[f] <= next =>
            \/ Covered(f)
            \/ \E i \in items : i.file = f
            \/ pc = "upsert" /\ hand.file = f

CursorInv == ItemsInv /\ NextCovers /\ CursorCovers

\* A page holds everything that changed after the token up to the time it ends, and
\* it does not end before the token.
LEMMA PageCovers ==
    ASSUME FilesTyped, NEW s \in Sources, NEW t \in {NoCursor} \cup 0 .. clock,
           NEW f \in FilesOf(s), t < changed[f], changed[f] <= PageEnd(s, t)
    PROVE  f \in Page(s, t)
<1> USE HydrationAssumption DEF FilesTyped
<1> DEFINE C == ChangedAfter(s, t)
           Earlier(g) == {h \in C : changed[h] < changed[g]}
<1>1. f \in C /\ C \subseteq Files /\ IsFiniteSet(C) /\ clock \in Nat
  BY FS_Subset DEF ChangedAfter, FilesOf
<1>2. CASE Page(s, t) = C
  BY <1>1, <1>2
<1>3. CASE Page(s, t) # C
  <2>1. PageEnd(s, t) = CHOOSE n \in 0 .. clock :
            /\ \E g \in Page(s, t) : changed[g] = n
            /\ \A g \in Page(s, t) : changed[g] <= n
    BY <1>3 DEF PageEnd
  <2>2. \E n \in 0 .. clock : /\ \E g \in Page(s, t) : changed[g] = n
                              /\ \A g \in Page(s, t) : changed[g] <= n
    BY <1>3, PageEndReached
  <2>3. PICK g \in Page(s, t) : changed[g] = PageEnd(s, t)
    BY <2>1, <2>2
  <2>4. g \in C /\ Cardinality(Earlier(g)) < PageSize
    BY <2>3 DEF Page
  <2>5. Earlier(f) \subseteq Earlier(g)
    BY <1>1, <2>3, <2>4
  <2>6. /\ Earlier(f) \in SUBSET Earlier(g) /\ IsFiniteSet(Earlier(g))
        /\ IsFiniteSet(Earlier(f))
    BY <1>1, <2>5, FS_Subset
  <2>7. /\ Cardinality(Earlier(f)) <= Cardinality(Earlier(g))
        /\ Cardinality(Earlier(f)) \in Nat /\ Cardinality(Earlier(g)) \in Nat
    BY <2>6, FS_Subset, FS_CardinalityType
  <2>8. Cardinality(Earlier(f)) < PageSize
    BY <2>4, <2>7
  <2> QED
    BY <1>1, <2>8 DEF Page
<1> QED
  BY <1>2, <1>3

\* Steps that leave the documents, the files and the stored cursors alone and stop
\* processing the source.
LEMMA CursorStops ==
    ASSUME CursorInv, UNCHANGED <<fileVars, cursor, since, cut>>,
           pc' \notin {"items"} \cup InItem,
           \A f \in Files : docs'[f] = docs[f]
    PROVE  CursorInv'
<1> USE DEF CursorInv, fileVars
<1>1. ItemsInv' /\ NextCovers'
  BY DEF ItemsInv, NextCovers, Processing
<1>2. CursorCovers'
  BY DEF CursorCovers, Digest
<1> QED
  BY <1>1, <1>2

\* An edit is later than every cursor.
LEMMA CursorEdit ==
    ASSUME TypeOK, PlaceInv, CursorInv, NEW f \in Files,
           NEW c \in Contents \cup {Nothing}, Edit(f, c)
    PROVE  CursorInv'
<1> USE HydrationAssumption DEF NoCursor, CursorInv, TypeOK, Edit, stateVars, placeVars, listVars,
        itemVars
<1>1. /\ clock \in Nat /\ clock' = clock + 1 /\ changed'[f] = clock + 1
      /\ \A g \in Files : changed[g] \in 0 .. clock
      /\ \A g \in Files : g # f => changed'[g] = changed[g] /\ Digest(g)' = Digest(g)
  BY DEF FilesTyped, Digest
<1>2. \A s \in Sources : cursor[s] <= clock /\ cursor[s] \in {NoCursor} \cup Nat
  BY <1>1 DEF PlaceTyped
<1>3. CursorCovers'
  <2>1. ASSUME NEW g \in Files, Connector[SourceOf[g]] = "drive",
               changed'[g] > since[SourceOf[g]], changed'[g] <= cursor[SourceOf[g]]
        PROVE  g # f
    BY <1>1, <1>2, <2>1
  <2> QED
    BY <1>1, <2>1 DEF CursorCovers
<1>4. /\ Processing' <=> Processing
      /\ Processing => src \in Sources
      /\ Processing /\ Connector[src] = "drive" => next \in 0 .. clock
  BY DEF Processing, PlaceInv, ItemsInv
<1>5. ASSUME NEW i, i.file \in Files, TrueItem(i), src \in Sources, next \in 0 .. clock
      PROVE  TrueItem(i)'
  <2>1. CASE i.file = f
    BY <1>1, <1>2, <1>5, <2>1 DEF TrueItem
  <2>2. CASE i.file # f
    BY <1>1, <1>5, <2>2 DEF TrueItem
  <2> QED
    BY <2>1, <2>2
<1>6. ItemsInv'
  <2>1. \A i \in items : i.file \in Files
    BY DEF HandTyped
  <2>2. pc \in InItem => hand.file \in Files
    BY DEF HandTyped, InItem
  <2>3. pc \in InItem => SourceOf[hand.file] = src
    BY DEF ItemsInv
  <2>4. ASSUME Processing, Connector[src] = "drive"
        PROVE  /\ next \in 0 .. clock'
               /\ cursor[src] = NoCursor => next <= since[src]
               /\ \A i \in items : TrueItem(i)'
               /\ pc \in InItem => TrueItem(hand)'
    <3>1. /\ next \in 0 .. clock /\ src \in Sources
          /\ cursor[src] = NoCursor => next <= since[src]
          /\ \A i \in items : TrueItem(i)
          /\ pc \in InItem => TrueItem(hand)
      BY <1>4, <2>4 DEF ItemsInv
    <3>2. \A i \in items : TrueItem(i)'
      BY <1>5, <2>1, <3>1
    <3>3. pc \in InItem => TrueItem(hand)'
      BY <1>5, <2>2, <3>1 DEF TrueItem
    <3> QED
      BY <1>1, <3>1, <3>2, <3>3
  <2> QED
    BY <1>4, <2>3, <2>4 DEF ItemsInv
<1>7. NextCovers'
  <2>1. ASSUME NEW g \in FilesOf(src), Processing, Connector[src] = "drive",
               since[src] < changed'[g], changed'[g] <= next
        PROVE  \/ Covered(g)'
               \/ \E i \in items : i.file = g
               \/ pc = "upsert" /\ hand.file = g
    <3>1. g \in Files /\ g # f
      BY <1>1, <1>4, <2>1 DEF FilesOf
    <3> QED
      BY <1>1, <2>1, <3>1 DEF NextCovers, Covered
  <2> QED
    BY <1>4, <2>1 DEF NextCovers, FilesOf
<1> QED
  BY <1>3, <1>6, <1>7

\* What was listed is newer than the stored cursor, and a listing up to its new cursor
\* is complete but for what was cut.
LEMMA CursorListDrive ==
    ASSUME TypeOK, PlaceInv, CursorInv, ListDrive
    PROVE  CursorInv'
<1> USE HydrationAssumption DEF NoCursor, CursorInv, TypeOK, ListDrive, stateVars, placeVars,
        itemVars, fileVars
<1> DEFINE t == Token(src)
           P == Page(src, t)
<1>1. /\ clock \in Nat /\ src \in Sources
      /\ \A f \in Files : changed[f] \in 0 .. clock /\ Digest(f)' = Digest(f)
  BY DEF FilesTyped, PlaceInv, Digest
<1>2. cursor[src] \in {NoCursor} \cup 0 .. clock
  BY <1>1 DEF PlaceTyped
<1>3. /\ t \in 0 .. clock /\ cursor[src] <= t
      /\ \A f \in Files : changed[f] > t => cursor[src] < changed[f]
  BY <1>1, <1>2 DEF Token, From
<1>4. next' = PageEnd(src, t) /\ PageEnd(src, t) \in 0 .. clock
  BY <1>1, <1>3, PageEndTyped
<1>5. P \subseteq FilesOf(src) /\ FilesOf(src) \subseteq Files
      /\ \A f \in P : changed[f] > t
  BY DEF Page, ChangedAfter, FilesOf
<1>6. PICK K \in SUBSET P :
        /\ items' = {[file |-> f, digest |-> Digest(f), gone |-> content[f] = Nothing]
                        : f \in K}
        /\ cut' = (cut \ K) \cup (P \ K) \cup JumpedOver(src)
  BY DEF Keep, Kept
<1> HIDE DEF t, P
<1>7. ItemsInv'
  <2>1. \A i \in items' : TrueItem(i)'
    <3>1. ASSUME NEW f \in K
          PROVE  /\ cursor[src] < changed[f]
                 /\ Digest(f)' = Digest(f)
      BY <1>1, <1>3, <1>5
    <3> QED
      BY <1>6, <3>1 DEF TrueItem
  <2>2. cursor[src] = NoCursor => next' <= since'[src]
    BY <1>1, <1>4 DEF HistoryTyped
  <2> QED
    BY <1>1, <1>4, <2>1, <2>2 DEF ItemsInv, InItem, Writing
<1>8. CursorCovers'
  <2>1. ASSUME NEW f \in Files, Connector[SourceOf[f]] = "drive",
               changed[f] > since'[SourceOf[f]], changed[f] <= cursor[SourceOf[f]]
        PROVE  Covered(f)'
    <3>1. cursor[SourceOf[f]] # NoCursor
      BY <1>1, <2>1
    <3>2. since'[SourceOf[f]] = since[SourceOf[f]]
      BY <3>1 DEF HistoryTyped
    <3>3. Covered(f)
      BY <2>1, <3>2 DEF CursorCovers, Covered
    <3>4. f \notin K
      <4>1. ASSUME f \in K PROVE FALSE
        <5>1. SourceOf[f] = src /\ changed[f] > t
          BY <1>5, <4>1 DEF FilesOf
        <5> QED
          BY <1>1, <1>2, <1>3, <2>1, <5>1
      <4> QED
        BY <4>1
    <3> QED
      BY <1>1, <1>6, <3>3, <3>4 DEF Covered
  <2> QED
    BY <2>1 DEF CursorCovers, Covered
<1>9. NextCovers'
  <2>1. ASSUME NEW f \in FilesOf(src), since'[src] < changed[f], changed[f] <= next'
        PROVE  Covered(f)' \/ \E i \in items' : i.file = f
    <3>1. f \in Files /\ SourceOf[f] = src /\ Connector[src] = "drive"
      BY DEF FilesOf
    <3>2. CASE f \in P
      <4>1. CASE f \in K
        <5> DEFINE i == [file |-> f, digest |-> Digest(f), gone |-> content[f] = Nothing]
        <5>1. i \in items' /\ i.file = f
          BY <1>6, <4>1
        <5> QED
          BY <5>1
      <4>2. CASE f \notin K
        BY <1>6, <3>2, <4>2 DEF Covered
      <4> QED
        BY <4>1, <4>2
    <3>3. CASE f \notin P
      <4>1. changed[f] <= t
        BY <1>1, <1>3, <1>4, <2>1, <3>1, <3>3, PageCovers DEF P
      <4>2. CASE cursor[src] = NoCursor
        BY <1>1, <1>4, <2>1, <3>1, <4>2 DEF HistoryTyped
      <4>3. CASE cursor[src] # NoCursor /\ changed[f] <= cursor[src]
        <5>1. Covered(f)
          BY <2>1, <3>1, <4>3 DEF CursorCovers, Covered, HistoryTyped
        <5> QED
          BY <1>1, <1>6, <3>1, <3>3, <5>1 DEF Covered
      <4>4. CASE cursor[src] # NoCursor /\ changed[f] > cursor[src]
        <5>1. f \in JumpedOver(src)
          BY <1>1, <1>3, <3>1, <4>1, <4>4 DEF JumpedOver, ChangedAfter, t
        <5> QED
          BY <1>6, <5>1 DEF Covered
      <4> QED
        BY <1>1, <1>2, <3>1, <4>2, <4>3, <4>4
    <3> QED
      BY <3>2, <3>3
  <2> QED
    BY <2>1 DEF NextCovers, FilesOf
<1> QED
  BY <1>7, <1>8, <1>9

\* The other connectors leave the files of Drive alone.
LEMMA CursorListOther ==
    ASSUME TypeOK, PlaceInv, CursorInv, ListPublic \/ Scan \/ Stamp
    PROVE  CursorInv'
<1> USE DEF CursorInv, stateVars, placeVars, itemVars, fileVars
<1>1. src \in Sources
  BY DEF PlaceInv, ListPublic, Scan, Stamp
<1>2. UNCHANGED <<fileVars, cursor, since, docs, src>> /\ pc' \in {"items", "stamp"}
  BY DEF ListPublic, Scan, Stamp
<1>3. \A f \in Files : DriveFile(f) /\ f \in cut => f \in cut'
  <2>1. ASSUME NEW listed \in SUBSET FilesOf(src), Connector[src] # "drive",
               Keep(listed, {})
        PROVE  \A f \in Files : DriveFile(f) /\ f \in cut => f \in cut'
    <3>1. PICK K \in SUBSET listed : cut' = (cut \ K) \cup (listed \ K) \cup {}
      BY <2>1 DEF Keep, Kept
    <3>2. \A f \in K : ~DriveFile(f)
      BY <2>1, <3>1 DEF FilesOf, DriveFile
    <3> QED
      BY <3>1, <3>2
  <2>2. CASE ListPublic
    BY <2>1, <2>2 DEF ListPublic, Present
  <2>3. CASE Scan
    <3> DEFINE newer == {f \in Present(src) : changed[f] > From(src)}
    <3>1. newer \in SUBSET FilesOf(src) /\ Keep(newer, {}) /\ Connector[src] # "drive"
      BY <2>3 DEF Scan, Present
    <3> HIDE DEF newer
    <3> QED
      BY <2>1, <3>1
  <2>4. CASE Stamp
    BY <2>4 DEF Stamp
  <2> QED
    BY <2>2, <2>3, <2>4
<1>4. CursorCovers'
  BY <1>2, <1>3 DEF CursorCovers, DriveFile, Digest
<1>5. pc' = "items" => Connector[src] # "drive"
  BY DEF ListPublic, Scan, Stamp, PlaceInv
<1>6. ItemsInv' /\ NextCovers'
  BY <1>2, <1>5 DEF ItemsInv, NextCovers, Processing, InItem, Writing
<1> QED
  BY <1>4, <1>6

\* The item that is taken is the one in hand.
LEMMA CursorTake ==
    ASSUME TypeOK, PlaceInv, CursorInv, Take PROVE CursorInv'
<1> USE DEF CursorInv, Take, stateVars, placeVars, fileVars
<1>1. PICK i \in items :
        /\ items' = items \ {i}
        /\ hand'.file = i.file
        /\ Connector[src] = "drive" => hand' = i
  BY DEF TypeOK, HandTyped
<1>2. SourceOf[i.file] = src /\ UNCHANGED <<fileVars, stateVars, docs, src, next, since, cut>>
  BY DEF PlaceInv
<1>3. CursorCovers'
  BY <1>2 DEF CursorCovers, Digest
<1>4. ItemsInv'
  BY <1>1, <1>2 DEF ItemsInv, Processing, TrueItem, Digest
<1>5. NextCovers'
  BY <1>1, <1>2 DEF NextCovers, Processing, Covered, Digest, FilesOf
<1> QED
  BY <1>3, <1>4, <1>5

\* What the steps of process_item leave of the documents: from "upsert" on the
\* document of a Drive file in hand has the checksum of the item, and no other
\* document of a Drive file is written to.
LEMMA DriveDocs ==
    ASSUME TypeOK, PlaceInv, ItemsInv, FreshInv,
           \/ InsertDocument \/ InsertVersion \/ Update \/ Unchanged \/ NoVersions
           \/ Download \/ Index \/ Commit \/ ItemRaises,
           NEW f \in Files, DriveFile(f)
    PROVE  \/ f # hand.file /\ docs'[f] = docs[f]
           \/ /\ f = hand.file /\ pc # "upsert"
              /\ docs'[f].row = docs[f].row /\ docs'[f].checksum = docs[f].checksum
           \/ /\ f = hand.file /\ pc = "upsert"
              /\ docs'[f].row /\ docs'[f].checksum = hand.digest
<1>1. /\ hand \in [file : Files, digest : Digests, gone : BOOLEAN]
      /\ HandKey \in Keys /\ pc \in InItem /\ SourceOf[hand.file] = src
      /\ docs \in [Keys -> [row : BOOLEAN, checksum : Digests \cup {Nothing},
                            versions : Seq(VersionType)]]
  <2>1. pc \in InItem
    BY DEF InItem, Writing, InsertDocument, InsertVersion, Update, Unchanged, NoVersions,
       Known, Download, Index, Commit, ItemRaises
  <2> QED
    BY <2>1 DEF TypeOK, PlaceInv, ItemsInv, HandTyped, DocsTyped, InItem
<1>2. f \in Keys /\ (HandKey = f <=> hand.file = f)
  BY <1>1, HydrationAssumption DEF HandKey, Key, Keys, Digests, DriveFile
<1>3. CASE InsertDocument
  BY <1>1, <1>2, <1>3 DEF InsertDocument
<1>4. CASE InsertVersion
  BY <1>1, <1>2, <1>4 DEF InsertVersion
<1>5. CASE Update
  BY <1>1, <1>2, <1>5 DEF Update, NewChecksum
<1>6. CASE Unchanged \/ NoVersions
  BY <1>1, <1>2, <1>6 DEF Unchanged, NoVersions, Known
<1>7. CASE Download
  BY <1>1, <1>2, <1>7 DEF Download
<1>8. CASE Index
  BY <1>1, <1>2, <1>8 DEF Index
<1>9. CASE Commit \/ ItemRaises
  BY <1>1, <1>2, <1>9 DEF Commit, ItemRaises, Record
<1> QED
  BY <1>3, <1>4, <1>5, <1>6, <1>7, <1>8, <1>9

LEMMA CursorItem ==
    ASSUME TypeOK, PlaceInv, FreshInv, CursorInv,
           \/ InsertDocument \/ InsertVersion \/ Update \/ Unchanged \/ NoVersions
           \/ Download \/ Index \/ Commit \/ ItemRaises
    PROVE  CursorInv'
<1> USE DEF CursorInv, stateVars, placeVars, fileVars, listVars, itemVars
<1>1. /\ UNCHANGED <<content, changed, clock, cursor, src, next, items, since, cut>>
      /\ pc \in InItem /\ pc' \in {"items"} \cup Writing
      /\ pc' \in Writing => hand' = hand
  BY DEF InsertDocument, InsertVersion, Update, Unchanged, NoVersions, Known, Download,
     Index, Commit, ItemRaises, Proceed, Return, Fails, InItem, Writing
<1>2. /\ src \in Sources /\ SourceOf[hand.file] = src /\ hand.file \in Files
      /\ \A f \in Files : Digest(f)' = Digest(f) /\ changed[f] \in Nat
      /\ \A s \in Sources : cursor[s] \in {NoCursor} \cup Nat
      /\ clock \in Nat
  BY <1>1 DEF PlaceInv, ItemsInv, Digest, TypeOK, HandTyped, FilesTyped, PlaceTyped,
     InItem
<1>3. ItemsInv'
  <2>1. ASSUME NEW i, i.file \in Files, TrueItem(i) PROVE TrueItem(i)'
    BY <1>1, <1>2, <2>1 DEF TrueItem
  <2>2. \A i \in items : i.file \in Files
    BY DEF TypeOK, HandTyped
  <2>3. pc' \in InItem => pc' \in Writing /\ hand' = hand
    BY <1>1 DEF InItem, Writing
  <2>4. ASSUME Connector[src] = "drive"
        PROVE  /\ next \in 0 .. clock
               /\ cursor[src] = NoCursor => next <= since[src]
               /\ \A i \in items : TrueItem(i)
               /\ TrueItem(hand)
    BY <1>1, <2>4 DEF ItemsInv, Processing
  <2>5. TrueItem(hand) => (pc' \in InItem => TrueItem(hand)')
    BY <1>1, <1>2, <2>3 DEF TrueItem
  <2>6. Connector[src] = "drive" => \A i \in items : TrueItem(i)'
    BY <2>1, <2>2, <2>4
  <2> QED
    BY <1>1, <1>2, <2>3, <2>4, <2>5, <2>6 DEF ItemsInv
<1>4. CursorCovers'
  <2>1. ASSUME NEW f \in Files, DriveFile(f), changed[f] > since[SourceOf[f]],
               changed[f] <= cursor[SourceOf[f]]
        PROVE  Covered(f)'
    <3>1. Covered(f)
      BY <2>1 DEF CursorCovers, Covered, DriveFile
    <3>2. ~ (f = hand.file /\ pc = "upsert")
      <4>1. ASSUME f = hand.file PROVE FALSE
        <5>1. cursor[src] < changed[f] /\ SourceOf[f] = src
          BY <1>1, <1>2, <2>1, <4>1 DEF ItemsInv, Processing, TrueItem, DriveFile
        <5> QED
          BY <1>2, <2>1, <5>1 DEF NoCursor
      <4> QED
        BY <4>1
    <3> QED
      BY <1>1, <1>2, <2>1, <3>1, <3>2, DriveDocs DEF Covered
  <2> QED
    BY <1>1, <1>2, <2>1 DEF CursorCovers, Covered, DriveFile
<1>5. NextCovers'
  <2>1. ASSUME NEW f \in FilesOf(src), Connector[src] = "drive",
               since[src] < changed[f], changed[f] <= next
        PROVE  Covered(f)' \/ \E i \in items : i.file = f
    <3>1. f \in Files /\ DriveFile(f) /\ SourceOf[f] = src
      BY <2>1 DEF FilesOf, DriveFile
    <3>2. CASE f = hand.file /\ pc = "upsert"
      <4>1. hand.digest = Digest(f)
        BY <1>1, <2>1, <3>2 DEF ItemsInv, Processing, TrueItem
      <4> QED
        BY <1>2, <3>1, <3>2, <4>1, DriveDocs DEF Covered
    <3>3. CASE ~ (f = hand.file /\ pc = "upsert")
      <4>1. Covered(f) \/ \E i \in items : i.file = f
        BY <1>1, <2>1, <3>3 DEF NextCovers, Processing
      <4> QED
        BY <1>1, <1>2, <3>1, <3>3, <4>1, DriveDocs DEF Covered
    <3> QED
      BY <3>2, <3>3
  <2> QED
    BY <1>1, <2>1 DEF NextCovers, FilesOf
<1> QED
  BY <1>3, <1>4, <1>5

\* The cursor is stored when nothing is listed any more.
LEMMA CursorStored ==
    ASSUME TypeOK, PlaceInv, CursorInv, EndSource PROVE CursorInv'
<1> USE DEF CursorInv, EndSource, fileVars
<1>1. ItemsInv' /\ NextCovers'
  BY DEF ItemsInv, NextCovers, Processing, InItem, Writing
<1>2. ASSUME NEW f \in Files, DriveFile(f), changed[f] > since[SourceOf[f]],
             changed[f] <= cursor'[SourceOf[f]]
      PROVE  Covered(f)
  <2>1. SourceOf[f] \in Sources /\ src \in Sources
    BY HydrationAssumption DEF PlaceInv
  <2>2. CASE SourceOf[f] = src
    <3>1. cursor'[src] = next
      BY <2>1 DEF TypeOK, PlaceTyped
    <3>2. f \in FilesOf(src) /\ Connector[src] = "drive" /\ Processing
      BY <1>2, <2>2 DEF FilesOf, DriveFile, Processing
    <3>3. since[src] < changed[f]
      BY <1>2, <2>1, <2>2 DEF TypeOK, HistoryTyped, FilesTyped, NoCursor
    <3> QED
      BY <1>2, <2>2, <3>1, <3>2, <3>3 DEF NextCovers
  <2>3. CASE SourceOf[f] # src
    BY <1>2, <2>1, <2>3 DEF CursorCovers, Covered, DriveFile, TypeOK, PlaceTyped
  <2> QED
    BY <2>2, <2>3
<1>3. CursorCovers'
  BY <1>2 DEF CursorCovers, Covered, DriveFile, Digest
<1> QED
  BY <1>1, <1>3

LEMMA CursorInvKept == IInv /\ CursorInv /\ [Next]_vars => CursorInv'
<1> SUFFICES ASSUME IInv, CursorInv, [Next]_vars PROVE CursorInv'
  OBVIOUS
<1> USE DEF IInv
<1>1. FreshInv
  BY DEF DocInv
<1>2. CASE UNCHANGED vars
  BY <1>2 DEF vars, fileVars, stateVars, placeVars, listVars, itemVars, CursorInv, ItemsInv,
     NextCovers, CursorCovers, Processing, TrueItem, Covered, Digest, FilesOf
<1>3. CASE \/ \E S \in SUBSET Sources, o \in Options : Begin(S, o)
           \/ \E s \in Sources : StartSource(s)
           \/ EndRun \/ SourceRaises \/ Crash
  <2>1. /\ UNCHANGED <<fileVars, cursor, since, cut, docs>>
        /\ pc' \notin {"items"} \cup InItem
    BY <1>3 DEF Begin, StartSource, EndRun, SourceRaises, Crash, stateVars, InItem,
       Writing
  <2> QED
    BY <2>1, CursorStops
<1> QED
  BY <1>1, <1>2, <1>3, CursorEdit, CursorListDrive, CursorListOther, CursorTake,
     CursorItem, CursorStored DEF Next, Work

\* A stored cursor of Drive leaves nothing behind but what max_files cut and a full
\* scan jumped over, whatever crashes, raises or is edited meanwhile, for any page
\* size and any number of files.
THEOREM HydrationCursorCovers == Spec => []CursorCovers
<1>1. Init => CursorInv
  BY HydrationAssumption DEF Init, CursorInv, ItemsInv, NextCovers, CursorCovers, Processing,
     InItem, Writing, NoCursor
<1>2. CursorInv => CursorCovers
  BY DEF CursorInv
<1> QED
  BY <1>1, <1>2, HydrationInvariant, CursorInvKept, PTL DEF Spec
===============================================================================
