---------------------------- MODULE MCDocuments ----------------------------
(***************************************************************************)
(* What is kept and shown of documents, in components that share no        *)
(* variable: a behaviour is one of one of them, while the others rest.     *)
(***************************************************************************)
EXTENDS VectorStore, LinkReader, HydrationConsole, SearchEngine, WebPanels,
        EntityRows, WorkspaceShell, ReportFiles, ReportFigures, ApprovedFunctions,
        DriveService, TLC

VARIABLE part

indexVars == <<vectorVars, engineVars, searchVars>>
viewVars == <<consoleVars, panelVars, rowsVars, shellVars>>
numberVars == <<reportVars, figureVars, call, driveVars>>

\* two threads of the web process and one of a worker
MCProcessOf == [a \in Adders |-> IF a = "t3" THEN "worker" ELSE "web"]

\* what documents say, by the place where a text differs from an empty one
MCSays(num) ==
    [num |-> num, codes |-> {}, csi |-> <<>>, amounts |-> <<>>, day |-> 0, vos |-> {},
     invoices |-> {}, materials |-> {}, drawings |-> {}, topic |-> <<"other", 0>>, loose |-> FALSE]
MCSlab == <<"03", 300>>
MCWbs == <<"01.02", 3>>
MCTexts ==
    {{<<"boq_item", [MCSays(<<"1", 1>>) EXCEPT !.csi = <<MCSlab>>, !.materials = {"concrete"}, !.topic = MCSlab]>>},
     {<<"boq_item", [MCSays(<<"1", 1>>) EXCEPT !.csi = <<<<"05", 1>>>>]>>},
     {<<"spec_section", [MCSays(MCSlab) EXCEPT !.materials = {"concrete", "steel"}, !.topic = MCSlab]>>,
      <<"contract_clause", [MCSays(<<"4", 1>>) EXCEPT !.topic = MCSlab]>>},
     {<<"cost_item", [MCSays(MCWbs) EXCEPT !.amounts = <<100>>]>>},
     {<<"variation_order", [MCSays(<<"VO", 7>>) EXCEPT !.codes = {MCWbs}, !.amounts = <<500, 98>>, !.day = 40]>>},
     {<<"payment_cert", [MCSays(<<"5", 5>>) EXCEPT !.codes = {MCWbs}, !.amounts = <<104>>, !.day = 20,
                                                    !.vos = {<<"VO", 7>>}]>>}}

\* documents and queries of the search engine, and how alike texts are
MCLikeness(a, b) == IF a \cap b # {} THEN 900 ELSE 500
MCPapers == {[words |-> {"slab", "pump"}, type |-> "boq", project |-> "p1"],
             [words |-> {"slab"}, type |-> "boq", project |-> "p2"],
             [words |-> {"pump"}, type |-> "report", project |-> "p1"]}
MCQuery(w, m, p, s, n) == [words |-> w, mode |-> m, types |-> {}, project |-> p, min |-> s, most |-> n, rerank |-> TRUE]
MCQueries == {MCQuery({"slab"}, "keyword", "any", 500, 2), MCQuery({"slab"}, "hybrid", "p1", 500, 2),
              MCQuery({"slab", "pump"}, "keyword", "any", 960, 2), MCQuery({"slab", "pump"}, "keyword", "any", 0, 2),
              MCQuery({"slab"}, "neural", "p1", 920, 1)}

MCPages == {<<>>, <<"a">>, <<"a", "b">>, <<"c", "b">>, <<"c", "a", "b">>}

MCWork == [planned : 0 .. 2, earned : 0 .. 2, duration : {1, 4}, actual : {1, 5}]
MCAmounts == {-2, 0, 1, 3}

\* the values that may differ at the start, of the part that runs
DocumentsInit ==
    /\ VectorInit /\ EngineInit /\ ConsoleInit /\ SearchInit /\ PanelInit /\ RowsInit
    /\ ReportInit /\ FiguresInit /\ FunctionsInit /\ DriveInit
    /\ part \in {"vectors", "engine", "console", "search", "panels", "rows", "shell",
                 "reports", "figures", "functions", "drive"}
    /\ part # "engine" => withModel = FALSE
    /\ part # "console" => sources = <<>>
    /\ libraries.semantic = libraries.client /\ (part # "search" => ~libraries.client)
    /\ part # "panels" => panel = "Settings"
    /\ tools.templates = tools.pdf /\ tools.pdf # tools.sheets /\ (part # "reports" => tools.sheets)
    /\ part # "figures" => startHour = 0
    /\ part # "drive" => process = "web" /\ importable /\ keyFile
    /\ IF part = "shell"
       THEN /\ ShellInit /\ fetches[1].tab = 1
            /\ events = (Cardinality(Up) - 1) + 2 * (Len(fetches) - 1)
       ELSE /\ workspace = <<>> /\ fetches = <<>> /\ events = 0 /\ disturbed = {}
            /\ tab = [t \in Tabs |-> NotLoaded]

DocumentsNext ==
    /\ UNCHANGED part
    /\ \/ part = "vectors" /\ VectorNext /\ UNCHANGED <<engineVars, searchVars, viewVars, numberVars>>
       \/ part = "engine" /\ EngineNext /\ UNCHANGED <<vectorVars, searchVars, viewVars, numberVars>>
       \/ part = "search" /\ SearchNext /\ UNCHANGED <<vectorVars, engineVars, viewVars, numberVars>>
       \/ part = "console" /\ ConsoleNext /\ UNCHANGED <<indexVars, panelVars, rowsVars, shellVars, numberVars>>
       \/ part = "panels" /\ PanelNext /\ UNCHANGED <<indexVars, consoleVars, rowsVars, shellVars, numberVars>>
       \/ part = "rows" /\ RowsNext /\ UNCHANGED <<indexVars, consoleVars, panelVars, shellVars, numberVars>>
       \/ part = "shell" /\ ShellNext /\ UNCHANGED <<indexVars, consoleVars, panelVars, rowsVars, numberVars>>
       \/ part = "reports" /\ ReportNext /\ UNCHANGED <<indexVars, viewVars, figureVars, call, driveVars>>
       \/ part = "figures" /\ HourPasses /\ UNCHANGED <<indexVars, viewVars, reportVars, call, driveVars>>
       \/ part = "functions" /\ FunctionsNext /\ UNCHANGED <<indexVars, viewVars, reportVars, figureVars, driveVars>>
       \/ part = "drive" /\ DriveNext /\ UNCHANGED <<indexVars, viewVars, reportVars, figureVars, call>>

DocumentsSpec == DocumentsInit /\ [][DocumentsNext]_<<part, indexVars, viewVars, numberVars>>

\* the processes of every part are the same two
MCSymmetry == Permutations(Askers) \cup Permutations(Matters)

\* Every variable of the components has its type, those at rest the value they start with.
DocumentsTypeOK ==
    /\ part = "vectors" => VectorTypeOK
    /\ part = "engine" => EngineTypeOK
    /\ part = "console" => ConsoleTypeOK
    /\ part = "search" => SearchTypeOK
    /\ part = "panels" => PanelTypeOK
    /\ part = "rows" => RowsTypeOK
    /\ part = "shell" => ShellTypeOK
    /\ part = "reports" => ReportTypeOK
    /\ part = "drive" => DriveTypeOK

\* The two modules of numbers: what is counted of the sample records, and what the approved
\* functions answer.
FiguresHold == (part = "figures" => FiguresAgree) /\ FunctionsHold
==============================================================================
