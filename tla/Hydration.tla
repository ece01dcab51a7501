------------------------------- MODULE Hydration -------------------------------
(***************************************************************************)
(* Hydration of a workspace: backend/hydration/pipeline.py over the        *)
(* connectors google_drive.py, google_drive_public.py and server_fs.py,    *)
(* indexing.py and ule_hook.py.                                            *)
(*                                                                         *)
(* The files of the sources are edited while the pipeline runs.  The       *)
(* pipeline is cut where it commits and where it asks the source           *)
(* something; one runs at a time in a workspace (module JobQueue).         *)
(* Contents stand for their checksums.                                     *)
(***************************************************************************)
EXTENDS Integers, Sequences, FiniteSets

CONSTANTS
    Sources, Files, Contents,
    SourceOf,       \* the source of each file
    Connector,      \* "drive", "public" or "fs", for each source
    Native,         \* Google documents: Drive has no md5Checksum for them
    IdDigest,       \* _checksum_fallback: the md5 of the source's file id
    Nothing,        \* no content, no text, no item
    Options,        \* HydrationOptions: [dry, full : BOOLEAN, max : Nat]
    Nightly,        \* those of the scheduler
    PageSize,       \* entries in a page of Drive's changes.list
    MaxEdits,       \* bound: edits of files
    MaxFaults       \* bound: crashes and steps that raise

ASSUME HydrationAssumption ==
    /\ IsFiniteSet(Files) /\ SourceOf \in [Files -> Sources]
    /\ Connector \in [Sources -> {"drive", "public", "fs"}]
    /\ Native \subseteq Files
    /\ Contents \cap {IdDigest, Nothing} = {} /\ IdDigest # Nothing
    /\ Files \cap Contents = {} /\ Files \cap {IdDigest, Nothing} = {}
    /\ Options \subseteq [dry : BOOLEAN, full : BOOLEAN, max : Nat]
    /\ Nightly \in Options
    /\ PageSize \in Nat \ {0}
    /\ MaxEdits \in Nat /\ MaxFaults \in Nat

VARIABLES
    content,    \* what is in each file, Nothing if it does not exist
    changed,    \* when it was changed last
    clock,
    cursor,     \* hydration_state.cursor_json: a time, NoCursor if it is empty
    state,      \* hydration_state.status
    run,        \* hydration_runs.status of the last run
    docs,       \* documents and their document_versions
    pc,         \* where the pipeline is
    opts,       \* its options
    todo,       \* sources it has not begun
    src,        \* the source it is at
    items,      \* listed and not yet processed
    next,       \* new_cursor
    hand,       \* the item in process_item
    body,       \* what it has downloaded
    since,      \* history: the start page token of a source's first listing
    cut,        \* history: files max_files, or a full scan of Drive, left out
    hurt,       \* history: documents a fault, a dry run or a removal left unindexed
    faults

fileVars == <<content, changed, clock>>
stateVars == <<cursor, state>>
placeVars == <<opts, todo, src>>
listVars == <<items, next>>
itemVars == <<hand, body>>
vars == <<fileVars, stateVars, run, docs, pc, placeVars, listVars, itemVars,
          since, cut, hurt, faults>>

NoCursor == -1
NoDoc == [row |-> FALSE, checksum |-> Nothing, versions |-> <<>>]
NoHand == [file |-> Nothing, digest |-> Nothing, gone |-> FALSE]

\* Documents are found by the id the connector gives: the file's in Drive, the
\* checksum in the file system.
Keys == Files \cup Contents

Init ==
    /\ content \in [Files -> Contents \cup {Nothing}]
    /\ changed = [f \in Files |-> 0] /\ clock = 0
    /\ cursor = [s \in Sources |-> NoCursor] /\ state = [s \in Sources |-> "idle"]
    /\ run = "none" /\ docs = [k \in Keys |-> NoDoc]
    /\ pc = "idle" /\ opts = Nightly /\ todo = {} /\ src = Nothing
    /\ items = {} /\ next = NoCursor
    /\ hand = NoHand /\ body = Nothing
    /\ since = [s \in Sources |-> NoCursor]
    /\ cut = {} /\ hurt = {} /\ faults = 0

-----------------------------------------------------------------------------
\* The sources

\* Somebody writes, creates or removes a file.
Edit(f, c) ==
    /\ clock < MaxEdits
    /\ c # content[f]
    /\ content' = [content EXCEPT ![f] = c]
    /\ clock' = clock + 1
    /\ changed' = [changed EXCEPT ![f] = clock + 1]
    /\ UNCHANGED <<stateVars, run, docs, pc, placeVars, listVars, itemVars, since,
                   cut, hurt, faults>>

FilesOf(s) == {f \in Files : SourceOf[f] = s}
Present(s) == {f \in FilesOf(s) : content[f] # Nothing}

\* Drive's changes.list: the files changed after the token, oldest change first;
\* a page ends with nextPageToken, the last one with newStartPageToken.
ChangedAfter(s, t) == {f \in FilesOf(s) : changed[f] > t}

Page(s, t) ==
    {f \in ChangedAfter(s, t) :
        Cardinality({g \in ChangedAfter(s, t) : changed[g] < changed[f]}) < PageSize}

\* Faulty variant of PageEnd: nextPageToken is ignored.
PageEndNewest(s, t) == clock

PageEnd(s, t) ==
    IF Page(s, t) = ChangedAfter(s, t) THEN clock
    ELSE CHOOSE n \in 0 .. clock :
            /\ \E f \in Page(s, t) : changed[f] = n
            /\ \A f \in Page(s, t) : changed[f] <= n

\* The checksum of get_metadata, or its fallback.
Digest(f) ==
    CASE content[f] = Nothing -> IdDigest
      [] Connector[SourceOf[f]] = "drive" /\ f \in Native -> IdDigest
      [] OTHER -> content[f]

Key(f, digest) == IF Connector[SourceOf[f]] = "fs" THEN digest ELSE f

-----------------------------------------------------------------------------
\* hydrate_workspace

Begin(S, o) ==
    /\ pc = "idle" /\ pc' = "next"
    /\ todo' = S /\ opts' = o /\ src' = Nothing
    /\ run' = "running"
    /\ UNCHANGED <<fileVars, stateVars, docs, listVars, itemVars, since, cut, hurt,
                   faults>>

\* hydrate_source begins.
StartSource(s) ==
    /\ pc = "next" /\ pc' = "list"
    /\ s \in todo /\ todo' = todo \ {s} /\ src' = s
    /\ state' = [state EXCEPT ![s] = "running"]
    /\ UNCHANGED <<fileVars, cursor, run, docs, opts, listVars, itemVars, since,
                   cut, hurt, faults>>

\* cursor = None if options.force_full_scan else the stored one
From(s) == IF opts.full THEN NoCursor ELSE cursor[s]

\* items[: options.max_files or len(items)], of a listing in any order
Kept(listed) ==
    {K \in SUBSET listed :
        IF opts.max \in 1 .. Cardinality(listed)
          THEN Cardinality(K) = opts.max ELSE K = listed}

Keep(listed, skipped) ==
    \E K \in Kept(listed) :
        /\ items' = {[file |-> f, digest |-> Digest(f), gone |-> content[f] = Nothing]
                        : f \in K}
        /\ cut' = (cut \ K) \cup (listed \ K) \cup skipped

\* The token to list from: without a cursor Drive is asked for a fresh one, and the
\* changes since the stored cursor are not listed any more.
Token(s) == IF From(s) = NoCursor THEN clock ELSE From(s)

JumpedOver(s) ==
    IF cursor[s] = NoCursor THEN {}
    ELSE ChangedAfter(s, cursor[s]) \ ChangedAfter(s, Token(s))

ListDrive ==
    /\ pc = "list" /\ Connector[src] = "drive" /\ pc' = "items"
    /\ Keep(Page(src, Token(src)), JumpedOver(src))
    /\ next' = PageEnd(src, Token(src))
    /\ since' = [since EXCEPT ![src] = IF cursor[src] = NoCursor THEN clock ELSE @]
    /\ UNCHANGED <<fileVars, stateVars, run, docs, placeVars, itemVars, hurt, faults>>

\* The whole folder, page after page; the cursor stays {}.
ListPublic ==
    /\ pc = "list" /\ Connector[src] = "public" /\ pc' = "items"
    /\ Keep(Present(src), {})
    /\ next' = NoCursor
    /\ UNCHANGED <<fileVars, stateVars, run, docs, placeVars, itemVars, since, hurt,
                   faults>>

\* os.walk, with the mtime of each file ...
Scan ==
    /\ pc = "list" /\ Connector[src] = "fs" /\ pc' = "stamp"
    /\ Keep({f \in Present(src) : changed[f] > From(src)}, {})
    /\ UNCHANGED <<fileVars, stateVars, run, docs, placeVars, next, itemVars, since,
                   hurt, faults>>

\* ... and the time after it.
Stamp ==
    /\ pc = "stamp" /\ pc' = "items"
    /\ next' = clock
    /\ UNCHANGED <<fileVars, stateVars, run, docs, placeVars, items, itemVars, since,
                   cut, hurt, faults>>

\* The cursor is stored once the items have been processed.
EndSource ==
    /\ pc = "items" /\ pc' = "next" /\ items = {}
    /\ cursor' = [cursor EXCEPT ![src] = next]
    /\ state' = [state EXCEPT ![src] = "success"]
    /\ src' = Nothing /\ next' = NoCursor
    /\ UNCHANGED <<fileVars, run, docs, opts, todo, items, itemVars, since, cut, hurt,
                   faults>>

\* The listing, or the metadata of an item, cannot be had: on to the next source.
\* The cursor stays, and so does the state "running".
MetadataFails ==
    Connector[src] = "fs" /\ \E i \in items : content[i.file] = Nothing

SourceRaises ==
    /\ pc \in {"list", "items"} /\ pc' = "next"
    /\ \/ pc = "items" /\ MetadataFails /\ UNCHANGED faults
       \/ faults < MaxFaults /\ faults' = faults + 1
    /\ run' = "partial"
    /\ src' = Nothing /\ items' = {} /\ next' = NoCursor
    /\ UNCHANGED <<fileVars, stateVars, docs, opts, todo, itemVars, since, cut, hurt>>

EndRun ==
    /\ pc = "next" /\ pc' = "idle" /\ todo = {}
    /\ run' = IF run = "running" THEN "success" ELSE run
    /\ UNCHANGED <<fileVars, stateVars, docs, placeVars, listVars, itemVars, since, cut,
                   hurt, faults>>

\* The process dies, or the database fails and the exception leaves
\* hydrate_workspace.
Writing == {"version", "download", "index", "ule"}

HandKey == Key(hand.file, hand.digest)

Crash ==
    /\ pc # "idle" /\ pc' = "idle"
    /\ faults < MaxFaults /\ faults' = faults + 1
    /\ todo' = {} /\ src' = Nothing /\ items' = {} /\ next' = NoCursor
    /\ hand' = NoHand /\ body' = Nothing
    /\ hurt' = IF pc \in Writing THEN hurt \cup {HandKey} ELSE hurt
    /\ UNCHANGED <<fileVars, stateVars, run, docs, opts, since, cut>>

-----------------------------------------------------------------------------
\* process_item and upsert_document

\* get_metadata, and the run item.  A file of the file system is read now.
Take ==
    /\ pc = "items" /\ pc' = "upsert"
    /\ \E i \in items :
        /\ items' = items \ {i}
        /\ IF Connector[src] = "fs"
             THEN /\ content[i.file] # Nothing
                  /\ hand' = [i EXCEPT !.digest = content[i.file]]
             ELSE hand' = i
    /\ UNCHANGED <<fileVars, stateVars, run, docs, placeVars, next, body, since, cut,
                   hurt, faults>>

\* process_item returns.
Return == pc' = "items" /\ hand' = NoHand /\ body' = Nothing

\* Faulty variant of Proceed: is_new and is_update are mixed up with "unchanged".
ProceedUnflagged == Return /\ UNCHANGED hurt

\* The new version goes on to be indexed, unless the file is gone or this is a
\* dry run.
Proceed ==
    IF hand.gone \/ opts.dry
      THEN Return /\ hurt' = hurt \cup {HandKey}
      ELSE pc' = "download" /\ hurt' = hurt \ {HandKey} /\ UNCHANGED itemVars

Version(digest) == [of |-> digest, text |-> Nothing, copies |-> 0]

\* An unknown document is committed, and then its first version.
InsertDocument ==
    /\ pc = "upsert" /\ pc' = "version"
    /\ ~docs[HandKey].row
    /\ docs' = [docs EXCEPT ![HandKey].row = TRUE, ![HandKey].checksum = hand.digest]
    /\ UNCHANGED <<fileVars, stateVars, run, placeVars, listVars, itemVars, since, cut,
                   hurt, faults>>

InsertVersion ==
    /\ pc = "version"
    /\ docs' = [docs EXCEPT ![HandKey].versions = Append(@, Version(hand.digest))]
    /\ Proceed
    /\ UNCHANGED <<fileVars, stateVars, run, placeVars, listVars, since, cut, faults>>

\* Faulty variant of NewChecksum: the checksum of the document is left.
OldChecksum == docs[HandKey].checksum

NewChecksum == hand.digest

\* A known document with another checksum: both are written in one commit.
Update ==
    /\ pc = "upsert" /\ docs[HandKey].row
    /\ docs[HandKey].checksum # hand.digest
    /\ docs' = [docs EXCEPT ![HandKey].versions = Append(@, Version(hand.digest)),
                            ![HandKey].checksum = NewChecksum]
    /\ Proceed
    /\ UNCHANGED <<fileVars, stateVars, run, placeVars, listVars, since, cut, faults>>

Known ==
    /\ pc = "upsert" /\ docs[HandKey].row
    /\ docs[HandKey].checksum = hand.digest

\* Faulty variant of Unchanged: the return is missing.
UnchangedFallsThrough ==
    /\ Known /\ docs[HandKey].versions # <<>>
    /\ pc' = "download"
    /\ UNCHANGED <<fileVars, stateVars, run, docs, placeVars, listVars, itemVars, since,
                   cut, hurt, faults>>

\* {"reason": "unchanged"}, or a removal that finds the same checksum
Unchanged ==
    /\ Known /\ docs[HandKey].versions # <<>>
    /\ Return
    /\ UNCHANGED <<fileVars, stateVars, run, docs, placeVars, listVars, since, cut, hurt,
                   faults>>

\* The item is FAILED and the run PARTIAL.
Fails == Return /\ run' = "partial"

\* document.versions[-1] of a document whose first version was never committed
NoVersions ==
    /\ Known /\ docs[HandKey].versions = <<>>
    /\ Fails
    /\ UNCHANGED <<fileVars, stateVars, docs, placeVars, listVars, since, cut, hurt,
                   faults>>

Download ==
    /\ pc = "download" /\ pc' = "index"
    /\ content[hand.file] # Nothing
    /\ body' = content[hand.file]
    /\ UNCHANGED <<fileVars, stateVars, run, docs, placeVars, listVars, hand, since, cut,
                   hurt, faults>>

Newest(k) == Len(docs[k].versions)

\* The chunks go to the vector store, whatever becomes of the transaction.
Index ==
    /\ pc = "index" /\ pc' = "ule"
    /\ docs' = [docs EXCEPT ![HandKey].versions[Newest(HandKey)].copies = @ + 1]
    /\ UNCHANGED <<fileVars, stateVars, run, placeVars, listVars, itemVars, since, cut,
                   hurt, faults>>

\* version.extracted_text, and index_status DONE
Record ==
    docs' = [docs EXCEPT ![HandKey].versions[Newest(HandKey)].text = body]

Commit ==
    /\ pc = "ule"
    /\ Record /\ Return
    /\ UNCHANGED <<fileVars, stateVars, run, placeVars, listVars, since, cut, hurt,
                   faults>>

\* The download, the extraction, the index or the linking raises.  What was set
\* on the version before that is committed with the failure.
ItemRaises ==
    /\ \/ pc = "download" /\ content[hand.file] = Nothing /\ UNCHANGED faults
       \/ pc \in {"download", "index", "ule"} /\ faults < MaxFaults /\ faults' = faults + 1
    /\ Fails
    /\ IF pc = "ule" THEN Record /\ UNCHANGED hurt
                     ELSE hurt' = hurt \cup {HandKey} /\ UNCHANGED docs
    /\ UNCHANGED <<fileVars, stateVars, placeVars, listVars, since, cut>>

-----------------------------------------------------------------------------
Work ==
    \/ \E s \in Sources : StartSource(s)
    \/ ListDrive \/ ListPublic \/ Scan \/ Stamp \/ Take
    \/ InsertDocument \/ InsertVersion \/ Update \/ Unchanged \/ NoVersions
    \/ Download \/ Index \/ Commit
    \/ EndSource \/ EndRun

Next ==
    \/ \E f \in Files, c \in Contents \cup {Nothing} : Edit(f, c)
    \/ \E S \in SUBSET Sources, o \in Options : S # {} /\ Begin(S, o)
    \/ Work \/ ItemRaises \/ SourceRaises \/ Crash

Spec == Init /\ [][Next]_vars

\* The pipeline goes on (what raises leaves it), and the scheduler gets its turn at
\* every source: an enqueued job does not always hold the lock when it polls.
FairSpec ==
    /\ Spec
    /\ WF_vars(Work \/ ItemRaises \/ SourceRaises)
    /\ \A s \in Sources : SF_vars(Begin({s}, Nightly))

-----------------------------------------------------------------------------
Digests == Contents \cup {IdDigest}
VersionType ==
    [of : Digests, text : Contents \cup {Nothing}, copies : Nat]

FilesTyped ==
    /\ content \in [Files -> Contents \cup {Nothing}]
    /\ changed \in [Files -> 0 .. clock] /\ clock \in 0 .. MaxEdits

DocsTyped ==
    docs \in [Keys -> [row : BOOLEAN, checksum : Digests \cup {Nothing},
                       versions : Seq(VersionType)]]

HandTyped ==
    /\ items \subseteq [file : Files, digest : Digests, gone : BOOLEAN]
    /\ IF pc \in {"upsert"} \cup Writing
         THEN hand \in [file : Files, digest : Digests, gone : BOOLEAN]
         ELSE hand = NoHand
    /\ body \in Contents \cup {Nothing}

PlaceTyped ==
    /\ pc \in {"idle", "next", "list", "stamp", "items", "upsert"} \cup Writing
    /\ src \in Sources \cup {Nothing} /\ todo \subseteq Sources /\ opts \in Options
    /\ run \in {"none", "running", "partial", "success"}
    /\ cursor \in [Sources -> {NoCursor} \cup 0 .. clock]
    /\ next \in {NoCursor} \cup 0 .. clock
    /\ state \in [Sources -> {"idle", "running", "success"}]

HistoryTyped ==
    /\ since \in [Sources -> {NoCursor} \cup 0 .. clock]
    /\ cut \subseteq Files /\ hurt \subseteq Keys
    /\ faults \in 0 .. MaxFaults

\* The types; an item is in process_item exactly while the pipeline is there.
TypeOK == FilesTyped /\ DocsTyped /\ HandTyped /\ PlaceTyped /\ HistoryTyped

\* A committed cursor of Drive leaves nothing behind: a file that changed after the
\* first listing of its source, and not after the cursor, has its present checksum
\* in the documents, unless max_files cut it or a "full scan" jumped over it.
\* Crashes, failures, dry runs and edits at any point do not change that.
CursorCovers ==
    \A f \in Files :
        LET s == SourceOf[f] IN
        Connector[s] = "drive" /\ changed[f] > since[s] /\ changed[f] <= cursor[s] =>
            f \in cut \/ (docs[f].row /\ docs[f].checksum = Digest(f))

\* base.py:22, "Return list of changed items and updated cursor", for the file
\* system: a file older than the cursor is in the documents, unless max_files cut it.
ScanCovers ==
    \A f \in Files :
        LET s == SourceOf[f] IN
        /\ Connector[s] = "fs" /\ content[f] # Nothing /\ changed[f] <= cursor[s]
        => f \in cut \/ docs[content[f]].row

\* The chunks of a version are added to the vector store at most once, although
\* the store cannot remove any and runs are repeated after crashes.
IndexedOnce ==
    \A k \in Keys : \A i \in 1 .. Len(docs[k].versions) : docs[k].versions[i].copies <= 1

\* test_pipeline_idempotency, for every history: a version is made only for
\* another checksum, and the last one has the checksum of the document.
VersionsDiffer ==
    \A k \in Keys :
        LET v == docs[k].versions IN
        /\ v # <<>> => v[Len(v)].of = docs[k].checksum
        /\ \A i \in 1 .. Len(v) - 1 : v[i].of # v[i + 1].of

\* The newest version of a document is indexed, or about to be, unless a crash, a
\* failed step, a dry run or a removal stopped it.
GapsHaveCauses ==
    \A k \in Keys :
        LET v == docs[k].versions IN
        docs[k].row /\ (v = <<>> \/ v[Len(v)].text = Nothing)
        => k \in hurt \/ (pc \in Writing /\ HandKey = k)

\* Every file of a Drive or public source that changed after the first listing is
\* indexed in its present version in the end, unless one of those four causes,
\* max_files, a full scan, or the missing checksum of a Google document stopped it: listings
\* that fail, pages, and edits during a run delay it only.
Indexed(f) ==
    LET v == docs[f].versions IN
    v # <<>> /\ v[Len(v)].of = content[f] /\ v[Len(v)].text # Nothing

FilesIndexed ==
    \A f \in Files :
        Connector[SourceOf[f]] # "fs" =>
            <>[](\/ content[f] = Nothing \/ Digest(f) = IdDigest
                 \/ Connector[SourceOf[f]] = "drive" /\ changed[f] <= since[SourceOf[f]]
                 \/ f \in cut \/ f \in hurt
                 \/ Indexed(f))
===============================================================================
