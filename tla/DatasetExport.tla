---------------------------- MODULE DatasetExport ----------------------------
(***************************************************************************)
(* backend/learning: feedback is labelled and reviewed, and what is        *)
(* approved is exported to a file, a manifest and rows of the database.    *)
(* Every step of an export may be the last one, and exports of the same    *)
(* dataset in the same second share their files.                           *)
(***************************************************************************)
EXTENDS Integers, FiniteSets, FiniteSetsExt

CONSTANTS
    Exporters,      \* processes that serve /learning/export-dataset
    Workspaces,
    Feedback,       \* feedback_events, in the order of their ids
    Maxima,         \* max_records of a request; 0: none
    MaxSeconds,     \* bound: seconds that pass
    MaxReviews,     \* bound: labels and reviews
    MaxExports      \* bound: exports begun

ASSUME ExportAssumption ==
    /\ Feedback \subseteq Nat /\ IsFiniteSet(Feedback) /\ Maxima \subseteq Nat
    /\ MaxSeconds \in Nat /\ MaxReviews \in Nat /\ MaxExports \in Nat

VARIABLES
    second,     \* version_tag: the time in seconds
    owner,      \* feedback_events.workspace_id
    review,     \* status of the latest review, or "none"
    label,      \* the latest label: "none", "blank" (nothing expected) or an intent
    exporter,   \* each process: its step, workspace, limit, tag and what it collected
    file,       \* <dataset>/<tag>/<dataset>.jsonl
    manifest,   \* <dataset>/<tag>/manifest.json: workspace and record_count
    datasets,   \* training_datasets with their records
    edits, exports,
    begunAt     \* history: exports that began in each second

exportVars == <<second, owner, review, label, exporter, file, manifest, datasets, edits, exports,
                begunAt>>

Labels == {"none", "blank", "intent"}
\* needs_changes counts as rejected
Reviews == {"none", "approved", "rejected"}
NotExporting == [step |-> "idle", ws |-> "-", most |-> 0, tag |-> 0, approved |-> {}, records |-> {}]
NoManifest == [ws |-> "-", count |-> 0]

ExportInit ==
    /\ second = 0
    /\ owner \in [Feedback -> Workspaces]
    /\ review \in [Feedback -> Reviews]
    /\ label \in [Feedback -> Labels]
    /\ exporter = [e \in Exporters |-> NotExporting]
    /\ file = [t \in 0 .. MaxSeconds |-> {}]
    /\ manifest = [t \in 0 .. MaxSeconds |-> NoManifest]
    /\ datasets = {}
    /\ edits = 0 /\ exports = 0
    /\ begunAt = [t \in 0 .. MaxSeconds |-> 0]

Edit == edits < MaxReviews /\ edits' = edits + 1

\* review_feedback, allowed by the policy
ReviewFeedback(f, s) ==
    /\ Edit /\ review' = [review EXCEPT ![f] = s]
    /\ UNCHANGED <<second, owner, label, exporter, file, manifest, datasets, exports, begunAt>>

\* add_feedback_label
LabelFeedback(f, l) ==
    /\ Edit /\ label' = [label EXCEPT ![f] = l]
    /\ UNCHANGED <<second, owner, review, exporter, file, manifest, datasets, exports, begunAt>>

At(e, step) == exporter[e].step = step
To(e, step) == exporter' = [exporter EXCEPT ![e].step = step]

\* the tag is taken, the directory made (exist_ok), the latest reviews are read
BeginExport(e, ws, most) ==
    /\ At(e, "idle") /\ exports < MaxExports
    /\ exports' = exports + 1
    /\ begunAt' = [begunAt EXCEPT ![second] = @ + 1]
    /\ exporter' = [exporter EXCEPT ![e] =
            [step |-> "labels", ws |-> ws, most |-> most, tag |-> second,
             approved |-> {f \in Feedback : owner[f] = ws /\ review[f] = "approved"},
             records |-> {}]]
    /\ UNCHANGED <<second, owner, review, label, file, manifest, datasets, edits>>

Usable(f) == label[f] \notin {"none", "blank"}

\* the first records by id, at most max_records
Kept(S, most) ==
    {f \in S : most = 0 \/ Cardinality({g \in S : g < f}) < most}

\* the latest labels are read by a query of their own
ReadLabels(e) ==
    /\ At(e, "labels")
    /\ exporter' = [exporter EXCEPT ![e].step = "open",
            ![e].records = {<<f, label[f]>> : f \in
                Kept({f \in exporter[e].approved : Usable(f)}, exporter[e].most)}]
    /\ UNCHANGED <<second, owner, review, label, file, manifest, datasets, edits, exports, begunAt>>

\* open("w") truncates
OpenFile(e) ==
    /\ At(e, "open")
    /\ file' = [file EXCEPT ![exporter[e].tag] = {}]
    /\ To(e, "write")
    /\ UNCHANGED <<second, owner, review, label, manifest, datasets, edits, exports, begunAt>>

\* what another export wrote into the open file shows behind a shorter text
Overlaid(new, old) == IF Cardinality(old) > Cardinality(new) THEN new \cup old ELSE new

WriteFile(e) ==
    LET t == exporter[e].tag IN
    /\ At(e, "write")
    /\ file' = [file EXCEPT ![t] = Overlaid(exporter[e].records, @)]
    /\ To(e, "manifest")
    /\ UNCHANGED <<second, owner, review, label, manifest, datasets, edits, exports, begunAt>>

\* Faulty variant of Counted: the manifest counts what was approved.
CountedApproved(x) == Cardinality(x.approved)

Counted(x) == Cardinality(x.records)

WriteManifest(e) ==
    LET x == exporter[e] IN
    /\ At(e, "manifest")
    /\ manifest' = [manifest EXCEPT ![x.tag] = [ws |-> x.ws, count |-> Counted(x)]]
    /\ To(e, "commit")
    /\ UNCHANGED <<second, owner, review, label, file, datasets, edits, exports, begunAt>>

CommitDataset(e) ==
    LET x == exporter[e] IN
    /\ At(e, "commit")
    /\ datasets' = datasets \cup {[ws |-> x.ws, tag |-> x.tag, records |-> x.records]}
    /\ exporter' = [exporter EXCEPT ![e] = NotExporting]
    /\ UNCHANGED <<second, owner, review, label, file, manifest, edits, exports, begunAt>>

\* the disk or the database raises, or the process dies
ExportStops(e) ==
    /\ ~At(e, "idle")
    /\ exporter' = [exporter EXCEPT ![e] = NotExporting]
    /\ UNCHANGED <<second, owner, review, label, file, manifest, datasets, edits, exports, begunAt>>

SecondPasses ==
    /\ second < MaxSeconds /\ second' = second + 1
    /\ UNCHANGED <<owner, review, label, exporter, file, manifest, datasets, edits, exports, begunAt>>

ExportNext ==
    \/ \E f \in Feedback :
        \/ \E s \in Reviews \ {"none"} : ReviewFeedback(f, s)
        \/ \E l \in Labels \ {"none"} : LabelFeedback(f, l)
    \/ \E e \in Exporters :
        \/ \E ws \in Workspaces, most \in Maxima : BeginExport(e, ws, most)
        \/ ReadLabels(e) \/ OpenFile(e) \/ WriteFile(e) \/ WriteManifest(e)
        \/ CommitDataset(e) \/ ExportStops(e)
    \/ SecondPasses

ExportSpec == ExportInit /\ [][ExportNext]_exportVars

-----------------------------------------------------------------------------
ExportTypeOK ==
    /\ second \in 0 .. MaxSeconds
    /\ owner \in [Feedback -> Workspaces]
    /\ review \in [Feedback -> Reviews]
    /\ label \in [Feedback -> Labels]
    /\ exporter \in [Exporters -> [step : {"idle", "labels", "open", "write", "manifest", "commit"},
            ws : Workspaces \cup {"-"}, most : Maxima \cup {0}, tag : 0 .. MaxSeconds,
            approved : SUBSET Feedback, records : SUBSET (Feedback \X Labels)]]
    /\ file \in [0 .. MaxSeconds -> SUBSET (Feedback \X Labels)]
    /\ manifest \in [0 .. MaxSeconds -> [ws : Workspaces \cup {"-"}, count : 0 .. Cardinality(Feedback)]]
    /\ edits \in 0 .. MaxReviews /\ exports \in 0 .. MaxExports

\* The files are written before the rows and a tag lasts a second (datasets.py:152, :201):
\* a dataset in the database has complete files with its own records, in whatever order
\* exports stop, unless another export of the dataset began in the same second.
DatasetsHaveFiles ==
    \A d \in datasets :
        \/ file[d.tag] = d.records /\ manifest[d.tag] = [ws |-> d.ws, count |-> Cardinality(d.records)]
        \/ begunAt[d.tag] > 1
==============================================================================
