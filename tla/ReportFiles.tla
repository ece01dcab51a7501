------------------------------ MODULE ReportFiles ------------------------------
(***************************************************************************)
(* The reports of backend/api/analytics_reports_system.py: files in        *)
(* ./reports, named by type and second, which every server process writes  *)
(* and deletes, and the templates of ./templates, which the first request  *)
(* of all writes. A process serves one request at a time, as nothing in a  *)
(* handler is awaited that waits; the processes share the directories.     *)
(***************************************************************************)
EXTENDS Integers

CONSTANTS
    Makers,         \* server processes
    ReportTypes,    \* how many values ReportType has; template 0 is the default
    Matters,        \* what a report may be about: a project and a period
    NoText,         \* what a file says between its opening and its writing
    MaxSeconds, MaxReports, MaxKills    \* bounds: the clock, requests, processes that die

ASSUME ReportAssumption ==
    /\ ReportTypes \in Nat /\ NoText \notin Matters
    /\ MaxSeconds \in Nat /\ MaxReports \in Nat /\ MaxKills \in Nat

Formats == {"pdf", "html", "excel", "json"}
Extensions == {"pdf", "html", "xlsx", "json"}
Templates == 0 .. ReportTypes
TypeIds == 1 .. ReportTypes

VARIABLES
    tools,          \* the optional libraries: Jinja2, WeasyPrint, openpyxl
    template,       \* ./templates: "missing", "open" (truncated) or "whole"
    reports,        \* ./reports: by name, the text and the processes that have the file open
    making,         \* the request of each process
    clock, requested, kills,
    promised,       \* history: what was answered
    opened, crowded,    \* history: <<type, extension, second>> of files opened once, and more often
    removed         \* history: names deleted

reportVars == <<tools, template, reports, making, clock, requested, kills, promised, opened, crowded, removed>>

NotMaking == [at |-> "idle"]

ReportInit ==
    /\ tools \in [templates : BOOLEAN, pdf : BOOLEAN, sheets : BOOLEAN]
    /\ template = [k \in Templates |-> "missing"]
    /\ reports = <<>>
    /\ making = [p \in Makers |-> NotMaking]
    /\ clock = 0 /\ requested = 0 /\ kills = 0
    /\ promised = {} /\ opened = {} /\ crowded = {} /\ removed = {}

\* Faulty variant of FileName: the date without the time.
FileNameOfDay(type, ext, second) == <<type, ext, 0>>

\* report_<type>_<date and time in seconds>.<extension>
FileName(type, ext, second) == <<type, ext, second>>

FirstExtension(format) ==
    CASE format \in {"pdf", "html"} -> "html"
      [] format = "excel" /\ tools.sheets -> "xlsx"
      [] OTHER -> "json"

WritesTemplates(p) == making[p].at \in {"template", "fill"}
Unsettled == (\E q \in Makers : WritesTemplates(q)) \/ (\E k \in Templates : template[k] = "open")

\* The templates are written by a request that does not find the default.
MustWriteTemplates == tools.templates /\ template[0] = "missing"
FirstStep(format) == IF format \in {"pdf", "html"} THEN "render" ELSE "open"

\* generate_report, up to the check for the templates; the data are collected from constants
Generate(p, type, format, about) ==
    /\ making[p] = NotMaking /\ requested < MaxReports
    /\ requested' = requested + 1
    /\ making' =
           [q \in Makers |->
               IF q = p
               THEN [at |-> IF MustWriteTemplates THEN "template" ELSE FirstStep(format),
                     type |-> type, format |-> format, about |-> about, next |-> 0,
                     ext |-> FirstExtension(format), second |-> 0, text |-> about, source |-> <<>>,
                     early |-> Unsettled]
               ELSE IF WritesTemplates(q) /\ MustWriteTemplates THEN [making[q] EXCEPT !.early = TRUE]
               ELSE making[q]]
    /\ UNCHANGED <<tools, template, reports, clock, kills, promised, opened, crowded, removed>>

\* _create_default_templates: write_text truncates the file and then writes it, the default
\* first and one variant per type after it
OpenTemplate(p) ==
    /\ making[p].at = "template"
    /\ template' = [template EXCEPT ![making[p].next] = "open"]
    /\ making' = [making EXCEPT ![p].at = "fill"]
    /\ UNCHANGED <<tools, reports, clock, requested, kills, promised, opened, crowded, removed>>

FillTemplate(p) ==
    /\ making[p].at = "fill"
    /\ template' = [template EXCEPT ![making[p].next] = "whole"]
    /\ making' = IF making[p].next = ReportTypes
                 THEN [making EXCEPT ![p].at = FirstStep(making[p].format)]
                 ELSE [making EXCEPT ![p].at = "template", ![p].next = making[p].next + 1]
    /\ UNCHANGED <<tools, reports, clock, requested, kills, promised, opened, crowded, removed>>

\* an empty template renders to nothing; a missing variant is replaced by the default
TemplateOf(type) == template[IF template[type] = "missing" THEN 0 ELSE type]
FromTemplate(p) == IF tools.templates /\ TemplateOf(making[p].type) # "whole" THEN NoText ELSE making[p].about

RenderHtml(p) ==
    /\ making[p].at = "render"
    /\ making' = [making EXCEPT ![p].at = "open", ![p].text = FromTemplate(p)]
    /\ UNCHANGED <<tools, template, reports, clock, requested, kills, promised, opened, crowded, removed>>

NameOf(p) == FileName(making[p].type, making[p].ext, making[p].second)
Holders(name) == IF name \in DOMAIN reports THEN reports[name].open ELSE {}

\* write_text, write_pdf or save: the file is truncated or made
OpenReport(p) ==
    LET name == FileName(making[p].type, making[p].ext, clock)
        key == <<making[p].type, making[p].ext, clock>>
    IN /\ making[p].at = "open"
       /\ reports' = [n \in DOMAIN reports \cup {name} |->
                          IF n = name THEN [text |-> NoText, open |-> Holders(name) \cup {p}] ELSE reports[n]]
       /\ making' = [making EXCEPT ![p].at = "write", ![p].second = clock]
       /\ opened' = opened \cup {key}
       /\ crowded' = IF key \in opened THEN crowded \cup {key} ELSE crowded
       /\ UNCHANGED <<tools, template, clock, requested, kills, promised, removed>>

\* what is written to a file that was deleted in between is lost
Landed(p) ==
    IF p \in Holders(NameOf(p))
    THEN [reports EXCEPT ![NameOf(p)] = [text |-> making[p].text, open |-> @.open \ {p}]]
    ELSE reports

PrintsNext(p) == making[p].format = "pdf" /\ making[p].ext = "html" /\ tools.pdf

ReportAnswer(p) ==
    [name |-> NameOf(p), key |-> <<making[p].type, making[p].ext, making[p].second>>,
     about |-> making[p].about, source |-> making[p].source, early |-> making[p].early]

\* the HTML file of a PDF stays where it is
WriteReport(p) ==
    /\ making[p].at = "write"
    /\ reports' = Landed(p)
    /\ IF PrintsNext(p)
       THEN making' = [making EXCEPT ![p].at = "print"] /\ UNCHANGED promised
       ELSE making' = [making EXCEPT ![p] = NotMaking] /\ promised' = promised \cup {ReportAnswer(p)}
    /\ UNCHANGED <<tools, template, clock, requested, kills, opened, crowded, removed>>

\* HTML(html_path) reads the file back
PrintPdf(p) ==
    /\ making[p].at = "print"
    /\ NameOf(p) \in DOMAIN reports
    /\ making' = [making EXCEPT ![p].at = "open", ![p].ext = "pdf",
                                ![p].text = reports[NameOf(p)].text,
                                ![p].source = <<making[p].type, "html", making[p].second>>]
    /\ UNCHANGED <<tools, template, reports, clock, requested, kills, promised, opened, crowded, removed>>

\* whatever raises while it prints, the HTML file is the answer
PrintFails(p) ==
    /\ making[p].at = "print"
    /\ making' = [making EXCEPT ![p] = NotMaking]
    /\ promised' = promised \cup {ReportAnswer(p)}
    /\ UNCHANGED <<tools, template, reports, clock, requested, kills, opened, crowded, removed>>

\* delete_report: exists, then unlink, which raises if another process was faster
FindForDelete(p, name) ==
    /\ making[p] = NotMaking
    /\ name \in DOMAIN reports
    /\ making' = [making EXCEPT ![p] = [at |-> "unlink", name |-> name]]
    /\ UNCHANGED <<tools, template, reports, clock, requested, kills, promised, opened, crowded, removed>>

Unlink(p) ==
    LET name == making[p].name IN
    /\ making[p].at = "unlink"
    /\ making' = [making EXCEPT ![p] = NotMaking]
    /\ IF name \in DOMAIN reports
       THEN /\ reports' = [n \in DOMAIN reports \ {name} |-> reports[n]]
            /\ removed' = removed \cup {name}
       ELSE UNCHANGED <<reports, removed>>
    /\ UNCHANGED <<tools, template, clock, requested, kills, promised, opened, crowded>>

\* the process dies, or a write raises: what it has written so far stays
Dies(p) ==
    /\ making[p] # NotMaking /\ kills < MaxKills
    /\ kills' = kills + 1
    /\ making' = [making EXCEPT ![p] = NotMaking]
    /\ reports' = [n \in DOMAIN reports |-> [reports[n] EXCEPT !.open = @ \ {p}]]
    /\ UNCHANGED <<tools, template, clock, requested, promised, opened, crowded, removed>>

SecondPasses ==
    /\ clock < MaxSeconds
    /\ clock' = clock + 1
    /\ UNCHANGED <<tools, template, reports, making, requested, kills, promised, opened, crowded, removed>>

ReportNext ==
    \/ SecondPasses
    \/ \E p \in Makers :
          \/ \E type \in TypeIds, format \in Formats, about \in Matters : Generate(p, type, format, about)
          \/ OpenTemplate(p) \/ FillTemplate(p) \/ RenderHtml(p) \/ OpenReport(p) \/ WriteReport(p)
          \/ PrintPdf(p) \/ PrintFails(p) \/ Unlink(p) \/ Dies(p)
          \/ \E name \in DOMAIN reports : FindForDelete(p, name)

ReportSpec == ReportInit /\ [][ReportNext]_reportVars

-----------------------------------------------------------------------------
ReportSeconds == 0 .. MaxSeconds
Keys == TypeIds \X Extensions \X ReportSeconds
ReportTexts == Matters \cup {NoText}

ReportRequests ==
    [at : {"template", "fill", "render", "open", "write", "print"}, type : TypeIds, format : Formats,
     about : Matters, next : Templates, ext : Extensions, second : ReportSeconds, text : ReportTexts,
     source : Keys \cup {<<>>}, early : BOOLEAN]
Deletions == [at : {"unlink"}, name : Keys]

ReportTypeOK ==
    /\ tools \in [templates : BOOLEAN, pdf : BOOLEAN, sheets : BOOLEAN]
    /\ template \in [Templates -> {"missing", "open", "whole"}]
    /\ DOMAIN reports \subseteq Keys
    /\ \A n \in DOMAIN reports : reports[n] \in [text : ReportTexts, open : SUBSET Makers]
    /\ making \in [Makers -> ReportRequests \cup Deletions \cup {NotMaking}]
    /\ clock \in ReportSeconds /\ requested \in 0 .. MaxReports /\ kills \in 0 .. MaxKills
    /\ opened \subseteq Keys /\ crowded \subseteq opened /\ removed \subseteq Keys

\* download_report
Downloaded(name) == IF name \in DOMAIN reports THEN reports[name].text ELSE "not found"

\* A report is named by type and second only (analytics_reports_system.py:711), its PDF is
\* printed from the HTML file on disk (:688), and the templates are written in place by
\* whoever does not find the default (:828). The file an answer names can be downloaded and
\* is about what was asked, unless it was deleted, or another request opened a file of its
\* type and kind in the same second, be it only the HTML file a PDF was printed from; it is
\* empty only if the templates were being written when it was asked for, or a process
\* died while it wrote them.
ReportsHold ==
    \A a \in promised :
        \/ a.name \in removed
        \/ a.key \in crowded \/ a.source \in crowded
        \/ Downloaded(a.name) = a.about
        \/ Downloaded(a.name) = NoText /\ a.early
================================================================================
