------------------------------ MODULE WebPanels ------------------------------
(***************************************************************************)
(* The fetching hooks and panels of frontend/src.  They are one machine:   *)
(* a request is started by an effect, a timer or a button, an answer       *)
(* writes what is shown, and nothing ties an answer to the request that    *)
(* was started last.  What a panel starts, clears, writes and waits for is *)
(* its profile; a behaviour is one of one panel, mounted once.             *)
(***************************************************************************)
EXTENDS Integers, FiniteSets

CONSTANTS
    Subjects,           \* what a panel may be about: a project, a document, a user
    Absent,         \* no such prop
    MaxAsks,        \* bound: times something is started
    MaxFlights,     \* bound: requests under way
    MaxFailures     \* bound: requests that fail

ASSUME PanelAssumption ==
    /\ Absent \notin Subjects /\ "unmounted" \notin Subjects \cup {Absent}
    /\ {MaxAsks, MaxFlights, MaxFailures} \subseteq Nat

VARIABLES
    panel,          \* the name of the panel
    key,            \* its prop, "unmounted" before the first render
    shown,          \* by field, the request whose answer is shown
    busy,           \* the flags that say loading
    error,          \* whether it shows an error
    flights,        \* requests under way
    newest,         \* history: by field, the request started last
    crossing,        \* history: fields for which requests overlapped, or the last one was of an earlier render
    fallen,         \* history: fields whose newest request failed
    asks, failures

panelVars == <<panel, key, shown, busy, error, flights, newest, crossing, fallen, asks, failures>>

-----------------------------------------------------------------------------
\* A fetch in the usual form: it sets the flag and clears the error, then writes its fields or
\* keeps them and tells the error, and resets the flag at last.
Fetch(fields) ==
    [writes |-> fields,     \* the fields it writes
     flag |-> "loading",    \* the flag it resets
     spins |-> TRUE,        \* it sets that flag
     hold |-> "none",       \* a flag that is set until what follows it has ended too
     forgives |-> TRUE,     \* it clears the error when it starts
     empties |-> {},        \* fields it clears when it starts
     voids |-> {},          \* fields it clears when it fails
     marks |-> FALSE,       \* a failure is written into its fields
     tells |-> TRUE,        \* a failure is told as an error
     heals |-> FALSE,       \* a success clears the error
     followed |-> TRUE,     \* it is about the prop, not about an argument
     effect |-> TRUE,       \* started when the panel is mounted and when the prop changes
     again |-> "any",       \* started again: any time, while its button is enabled, while shown, or never
     checks |-> FALSE,      \* it may refuse what was typed, without a request
     next |-> {"none"},     \* what follows it
     always |-> FALSE]      \* also after a failure

Called(fields) == [Fetch(fields) EXCEPT !.followed = FALSE, !.effect = FALSE]

Panel(name, operations) ==
    [name |-> name, ops |-> operations, absent |-> "rests", keyless |-> FALSE, starts |-> {}, copies |-> {}]
\* without the prop it starts nothing; others ask for everything, or clear what is shown
Keyless(name, operations) == [Panel(name, operations) EXCEPT !.keyless = TRUE, !.absent = "asks"]
Busy(profile) == [profile EXCEPT !.starts = {"loading"}]

\* the hooks of the reasoning engine clear what is shown when they fail
Voiding(fields) == [Fetch(fields) EXCEPT !.voids = fields]
UseDocumentLinks == Panel("useDocumentLinks", [links |-> Voiding({"links"})])
UseFindLinks == Panel("useFindLinks", [find |-> [Called({"links"}) EXCEPT !.voids = {"links"}]])
UseKnowledgeGraph == Panel("useKnowledgeGraph", [graph |-> Voiding({"graph"})])
UseLinkEvidence == Panel("useLinkEvidence", [evidence |-> Voiding({"evidence"})])

UseUncertainty == Panel("useUncertainty", [quantify |-> Fetch({"uncertainty"})])
UseCausalAnalysis == Panel("useCausalAnalysis", [analyse |-> Fetch({"insights"})])

\* the status, then the sources; both start together when the workspace changes
LoadStatus == [Fetch({"status"}) EXCEPT !.again = "never"]
LoadSources == [Fetch({"sources"}) EXCEPT !.flag = "none", !.spins = FALSE, !.forgives = FALSE, !.again = "never"]
Reload == [LoadStatus EXCEPT !.effect = FALSE, !.next = {"sources"}, !.always = TRUE]
HandleRunNow == [Called({}) EXCEPT !.flag = "none", !.spins = FALSE, !.forgives = FALSE, !.tells = FALSE,
                                   !.followed = TRUE, !.hold = "runningNow", !.again = "enabled", !.next = {"reload"}]
UseHydration == Panel("HydrationDashboard", [status |-> LoadStatus, sources |-> LoadSources, reload |-> Reload,
                                             run |-> HandleRunNow])

\* the caller of the hook may use all of it; the panel executes only
Execute == [Called({"result", "code"}) EXCEPT !.empties = {"result"}]
GenerateOnly == Called({"code"})
Aside == [Called({}) EXCEPT !.flag = "none", !.spins = FALSE, !.forgives = FALSE]
UseCodeExecution == Panel("useCodeExecution", [execute |-> Execute, generate |-> GenerateOnly, aside |-> Aside])
SelectHistory == [Called({"query"}) EXCEPT !.flag = "none", !.spins = FALSE, !.forgives = FALSE, !.tells = FALSE]
CodeExecutionPanel ==
    Panel("CodeExecutionPanel", [execute |-> [Execute EXCEPT !.again = "enabled"], select |-> SelectHistory])
\* clears without a project
ExecutionHistory ==
    [Busy(Panel("ExecutionHistory", [history |-> [Fetch({"history"}) EXCEPT !.again = "never"]])) EXCEPT !.absent = "clears"]
FunctionLibrary ==
    Busy(Keyless("FunctionLibrary", [functions |-> [Fetch({"functions"}) EXCEPT !.again = "never", !.spins = FALSE]]))

\* five calls that write nothing but share the flag and the error
CheckPermission == Called({})
GrantAccess == Called({})
RevokeAccess == Called({})
GetRateLimit == Called({})
GetAuditTrail == Called({})
UsePDP == Panel("usePDP", [check |-> CheckPermission, grant |-> GrantAccess, revoke |-> RevokeAccess,
                           limit |-> GetRateLimit, trail |-> GetAuditTrail])
RefreshPermissions == Fetch({"permissions"})
GetRateLimitStatus == [Fetch({"limits"}) EXCEPT !.flag = "none", !.spins = FALSE, !.forgives = FALSE, !.tells = FALSE,
                                                !.effect = FALSE]
PDPProvider == Panel("PDPProvider", [refresh |-> RefreshPermissions, limit |-> GetRateLimitStatus])

\* while it loads, or after an error, the spinner or the error stands in place of the buttons
FetchPolicies == [Fetch({"policies"}) EXCEPT !.again = "shown"]
HandleToggleEnabled == [Called({}) EXCEPT !.flag = "none", !.spins = FALSE, !.forgives = FALSE, !.tells = FALSE,
                                          !.followed = TRUE, !.again = "shown", !.next = {"list"}]
PolicyList == Busy(Keyless("PolicyList", [list |-> FetchPolicies, toggle |-> HandleToggleEnabled]))
\* without a user it asks for all of them
AuditTrail == [Busy(Panel("AuditTrail", [logs |-> [Fetch({"logs"}) EXCEPT !.again = "shown"]])) EXCEPT !.absent = "asks"]
FetchUserPermissions == [Called({"permissions"}) EXCEPT !.flag = "none", !.spins = FALSE, !.forgives = FALSE,
                                                        !.tells = FALSE, !.again = "shown"]
HandleGrantAccess == [FetchUserPermissions EXCEPT !.writes = {}, !.next = {"user"}]
PermissionsPanel ==
    [Busy(Panel("PermissionsPanel", [users |-> [Fetch({"users"}) EXCEPT !.again = "shown"],
                                     user |-> FetchUserPermissions, grant |-> HandleGrantAccess]))
        EXCEPT !.absent = "asks"]
\* a timer asks every 30 seconds
FetchRateLimit == [Fetch({"limit"}) EXCEPT !.spins = FALSE, !.forgives = FALSE, !.heals = TRUE]
RateLimitIndicator == [Busy(Panel("RateLimitIndicator", [limit |-> FetchRateLimit])) EXCEPT !.absent = "resets"]
\* the form copies the policy it is given, and keeps it when there is none any more
HandleSubmit == [Called({"saved"}) EXCEPT !.flag = "saving", !.again = "enabled", !.followed = TRUE, !.checks = TRUE]
PolicyForm == [Panel("PolicyForm", [submit |-> HandleSubmit]) EXCEPT !.copies = {"form"}, !.absent = "asks"]

ScanDrive == [Fetch({"options"}) EXCEPT !.flag = "none", !.spins = FALSE, !.forgives = FALSE, !.again = "never"]
ProjectDropdown == Keyless("ProjectDropdown", [scan |-> ScanDrive])
\* three requests one after the other, under one flag; the picker stays enabled
Uploading == [Called({"uploaded"}) EXCEPT !.flag = "none", !.spins = FALSE, !.hold = "isProcessing", !.followed = TRUE,
                                          !.empties = {"uploaded", "type", "items"}, !.next = {"classify"}]
Classifying == [Called({"type"}) EXCEPT !.flag = "none", !.spins = FALSE, !.forgives = FALSE, !.again = "never",
                                        !.next = {"extract", "none"}]
UploadButton == Panel("UploadButton", [upload |-> Uploading, classify |-> Classifying,
                                       extract |-> [Classifying EXCEPT !.writes = {"items"}, !.next = {"none"}]])
\* a failure is what the card shows
Simulate == [Called({"simulation"}) EXCEPT !.flag = "none", !.spins = FALSE, !.forgives = FALSE, !.tells = FALSE,
                                           !.marks = TRUE]
CausalAnalysisCard == Panel("CausalAnalysisCard", [simulate |-> Simulate])
\* the button waits for the answer, the Enter key does not
EnhancedChat == Keyless("EnhancedChat", [send |-> [Called({"answer"}) EXCEPT !.forgives = FALSE, !.tells = FALSE,
                                                                             !.marks = TRUE]])
\* two buttons that wait each for its own request, with one error and one status line
SubmitSnapshot == [Called({"line"}) EXCEPT !.flag = "submitting", !.empties = {"line"}, !.again = "enabled", !.checks = TRUE]
ShowDelays == [SubmitSnapshot EXCEPT !.writes = {"delays", "line"}, !.flag = "loadingDelays"]
Progress == Panel("Progress", [submit |-> SubmitSnapshot, delays |-> ShowDelays])
CheckBackend == [Fetch({"backend"}) EXCEPT !.marks = TRUE, !.heals = TRUE]
Settings == Busy(Keyless("Settings", [check |-> CheckBackend]))
RunAnalysis == [Fetch({"report"}) EXCEPT !.voids = {"report"}, !.again = "enabled"]
AdvancedIntelligence == Keyless("AdvancedIntelligence", [analyse |-> RunAnalysis])

Panels ==
    {UseDocumentLinks, UseFindLinks, UseKnowledgeGraph, UseLinkEvidence, UseUncertainty, UseCausalAnalysis, UseHydration,
     UseCodeExecution, CodeExecutionPanel, ExecutionHistory, FunctionLibrary, UsePDP, PDPProvider, PolicyList, AuditTrail,
     PermissionsPanel, RateLimitIndicator, PolicyForm, ProjectDropdown, UploadButton, CausalAnalysisCard, EnhancedChat,
     Progress, Settings, AdvancedIntelligence}

-----------------------------------------------------------------------------
ByName == [name \in {p.name : p \in Panels} |-> CHOOSE p \in Panels : p.name = name]
It == ByName[panel]
Ops(p) == {p.ops[o] : o \in DOMAIN p.ops}
FieldsOf(p) == p.copies \cup UNION {op.writes \cup op.empties : op \in Ops(p)}
Blank == [key |-> "none", n |-> 0]
OpOf(flight) == It.ops[flight.op]
WrittenBy(f, requests) == \E r \in requests : f \in OpOf(r).writes

\* with another panel in place nothing of the one before is left
PanelInit ==
    /\ panel \in {p.name : p \in Panels}
    /\ key = "unmounted" /\ busy = It.starts /\ error = FALSE /\ flights = {}
    /\ shown = [f \in FieldsOf(It) |-> Blank] /\ newest = shown
    /\ crossing = {} /\ fallen = {} /\ asks = 0 /\ failures = 0

\* Faulty variant of Spinning: the flag of a request that is started again is left as it is.
SpinningFirst(ops) == {op.flag : op \in {op \in ops : op.spins /\ op.effect}} \cup {op.hold : op \in ops}

\* the flags that are set when these start
Spinning(ops) == {op.flag : op \in {op \in ops : op.spins}} \cup {op.hold : op \in ops}

\* the operations named start, about k; others are still under way
StartAll(names, k, hold, others, shows, flags, fails, lost) ==
    LET ops == {It.ops[o] : o \in names}
        Written == UNION {op.writes : op \in ops}
        Emptied == UNION {op.empties : op \in ops}
        \* what follows a request of an earlier render is still about the prop of that render
        Late == UNION {op.writes : op \in {op \in ops : op.followed /\ k # key'}}
    IN  /\ asks' = asks + 1
        /\ flights' = others \cup {[op |-> o, key |-> k, n |-> asks + 1,
                                    hold |-> IF hold # "none" THEN hold ELSE It.ops[o].hold] : o \in names}
        /\ busy' = (flags \cup Spinning(ops)) \ {"none"}
        /\ error' = (fails /\ \A op \in ops : ~op.forgives)
        /\ shown' = [f \in DOMAIN shown |-> IF f \in Emptied THEN Blank ELSE shows[f]]
        /\ newest' = [f \in DOMAIN shown |-> IF f \in Written THEN [key |-> k, n |-> asks + 1]
                                             ELSE IF f \in Emptied THEN Blank ELSE newest[f]]
        /\ crossing' = {f \in DOMAIN shown : IF f \in Written \cup Emptied THEN WrittenBy(f, others) \/ f \in Late
                                            ELSE f \in crossing}
        /\ fallen' = lost \ (Written \cup Emptied)

\* mounted, or rendered with another value of the prop: the effects run
Render(k) ==
    LET effects == {o \in DOMAIN It.ops : It.ops[o].effect}
        asked == [key |-> k, n |-> asks + 1]
    IN  /\ key # k /\ asks < MaxAsks /\ Cardinality(flights) < MaxFlights
        /\ It.keyless => k = Absent
        /\ key' = k
        /\ IF k # Absent \/ It.absent = "asks"
           THEN /\ IF k \in Subjects /\ It.copies # {}
                   THEN /\ shown' = [f \in DOMAIN shown |-> IF f \in It.copies THEN asked ELSE shown[f]]
                        /\ newest' = [f \in DOMAIN shown |-> IF f \in It.copies THEN asked ELSE newest[f]]
                        /\ asks' = asks + 1
                        /\ UNCHANGED <<busy, error, flights, crossing, fallen>>
                   ELSE StartAll(effects, k, "none", flights, shown, busy, error, fallen)
           ELSE /\ asks' = asks + 1
                /\ busy' = IF It.absent = "rests" THEN busy ELSE busy \ {"loading"}
                /\ IF It.absent = "clears"
                   THEN /\ shown' = [f \in DOMAIN shown |-> Blank] /\ newest' = shown'
                        /\ crossing' = {f \in DOMAIN shown : WrittenBy(f, flights)} /\ fallen' = {}
                   ELSE UNCHANGED <<shown, newest, crossing, fallen>>
                /\ UNCHANGED <<error, flights>>
        /\ UNCHANGED <<panel, failures>>

\* whether the control that starts the operation is there and enabled
Offered(op) ==
    CASE op.again = "any" -> TRUE
      [] op.again = "enabled" -> {op.flag, op.hold} \cap busy = {}
      [] op.again = "shown" -> "loading" \notin busy /\ ~error
      [] op.again = "never" -> FALSE

Ready(o, k) ==
    LET op == It.ops[o]
    IN  /\ key # "unmounted" /\ asks < MaxAsks /\ Offered(op)
        /\ IF op.followed THEN k = key /\ (k # Absent \/ It.absent = "asks") ELSE k \in Subjects

\* a button, a timer, or the caller of the hook
Ask(o, k) ==
    /\ Ready(o, k) /\ Cardinality(flights) < MaxFlights
    /\ UNCHANGED <<panel, key, failures>>
    /\ StartAll({o}, k, "none", flights, shown, busy, error, fallen)

\* what was typed is refused: the error is another one, and what it clears at the start is cleared
Refused(o, k) ==
    LET op == It.ops[o]
    IN  /\ Ready(o, k) /\ op.checks
        /\ error' = TRUE /\ asks' = asks + 1
        /\ shown' = [f \in DOMAIN shown |-> IF f \in op.empties THEN Blank ELSE shown[f]]
        /\ newest' = [f \in DOMAIN shown |-> IF f \in op.empties THEN Blank ELSE newest[f]]
        /\ crossing' = {f \in DOMAIN shown : IF f \in op.empties THEN WrittenBy(f, flights) ELSE f \in crossing}
        /\ fallen' = fallen \ op.empties
        /\ UNCHANGED <<panel, key, busy, flights, failures>>

\* the caller of useCodeExecution clears what it shows, and nothing that is under way
Clear ==
    /\ It = UseCodeExecution /\ key # "unmounted" /\ asks < MaxAsks /\ asks' = asks + 1
    /\ shown' = [f \in DOMAIN shown |-> Blank] /\ newest' = shown' /\ fallen' = {} /\ error' = FALSE
    /\ crossing' = {f \in DOMAIN shown : WrittenBy(f, flights)}
    /\ UNCHANGED <<panel, key, busy, flights, failures>>

\* the answer of a request, or its failure, in whatever order they come; then what follows it
Land(r, ok) ==
    LET op == OpOf(r)
        this == [key |-> r.key, n |-> r.n]
        newestOnes == {f \in op.writes : newest[f] = this}
        shows == [f \in DOMAIN shown |-> IF f \in op.writes /\ (ok \/ op.marks) THEN this
                                         ELSE IF f \in op.voids /\ ~ok THEN Blank ELSE shown[f]]
        fails == IF ok THEN error /\ ~op.heals ELSE error \/ op.tells
        lost == IF ok \/ op.marks THEN fallen \ newestOnes ELSE fallen \cup newestOnes
    IN  /\ ok \/ failures < MaxFailures
        /\ UNCHANGED <<panel, key>>
        /\ failures' = IF ok THEN failures ELSE failures + 1
        /\ \E next \in IF ok \/ op.always THEN op.next ELSE {"none"} :
             IF next = "none"
             THEN /\ flights' = flights \ {r} /\ shown' = shows /\ error' = fails /\ fallen' = lost
                  /\ busy' = busy \ {op.flag, r.hold}
                  /\ UNCHANGED <<newest, crossing, asks>>
             ELSE StartAll({next}, r.key, r.hold, flights \ {r}, shows, busy \ {op.flag}, fails, lost)

PanelNext ==
    \/ \E k \in Subjects \cup {Absent} : Render(k) \/ \E o \in DOMAIN It.ops : Ask(o, k) \/ Refused(o, k)
    \/ Clear
    \/ \E r \in flights, ok \in BOOLEAN : Land(r, ok)

PanelSpec == PanelInit /\ [][PanelNext]_panelVars
-----------------------------------------------------------------------------
PanelTypeOK ==
    /\ panel \in {p.name : p \in Panels} /\ key \in Subjects \cup {Absent, "unmounted"}
    /\ busy \subseteq (UNION {{op.flag, op.hold} : op \in Ops(It)}) \ {"none"}
    /\ \A r \in flights : r.op \in DOMAIN It.ops /\ r.key \in Subjects \cup {Absent}
    /\ DOMAIN shown = FieldsOf(It) /\ DOMAIN newest = FieldsOf(It)
    /\ crossing \cup fallen \subseteq FieldsOf(It) /\ error \in BOOLEAN /\ failures \in 0 .. MaxFailures

\* a request of the field that nothing has overlapped has been answered
Quiet(f) == f \notin crossing /\ ~WrittenBy(f, flights)

\* When requests did not overlap, a field shows the answer of the one started last, also after
\* the prop has changed; after a failure it shows an earlier answer or nothing.
ShowsNewest ==
    \A f \in FieldsOf(It) :
        Quiet(f) => /\ f \notin fallen => shown[f] = newest[f]
                    /\ f \in fallen => shown[f].n < newest[f].n

\* the operations that fetch the field when the prop changes
Following(f) == {op \in Ops(It) : op.effect /\ f \in op.writes}

\* A field that follows the prop shows something of another project, document or user only while
\* a request for it is out, after requests overlapped or followed one of an earlier render, or after a failure that the panel tells
\* (until another operation clears the error).
OthersHaveCause ==
    \A f \in FieldsOf(It) :
        (Following(f) # {} /\ key \in Subjects /\ shown[f] # Blank /\ shown[f].key # key /\ Quiet(f))
            => f \in fallen /\ (error \/ \E op \in Ops(It) \ Following(f) : op.forgives)

\* the operations that write the field wait for their flag, and only the mounting starts one besides
Waiting(f) ==
    LET ops == {op \in Ops(It) : f \in op.writes}
    IN  /\ Cardinality({op.flag : op \in ops}) = 1
        /\ \A op \in ops : op.spins /\ op.again \in {"enabled", "never"} /\ (op.effect => It.keyless)
        /\ \A op \in Ops(It) : op.next = {"none"}

\* A button that waits for its flag keeps the requests of its fields from overlapping.
WaitingIsEnough == \A f \in FieldsOf(It) : Waiting(f) => f \notin crossing

\* A panel that says it is loading is: a request that will reset the flag is under way.
SpinnersEnd ==
    key # "unmounted" => \A flag \in busy : \E r \in flights : flag \in {OpOf(r).flag, r.hold}

\* What panels show is what was asked for last, or there is a cause that shows.
PanelsHold == ShowsNewest /\ OthersHaveCause /\ WaitingIsEnough /\ SpinnersEnd
==============================================================================
