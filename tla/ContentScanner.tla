----------------------------- MODULE ContentScanner -----------------------------
(***************************************************************************)
(* backend/pdp/content_scanner.py and its callers.  The table of built-in  *)
(* patterns is copied one level deep, so a scanner made with a session     *)
(* loads the rows of the database into what every scanner of the process   *)
(* uses, also the one of the policy engine, which loads nothing itself.    *)
(* Handlers are threads: one may load while another goes over a table.     *)
(***************************************************************************)
EXTENDS Integers, Sequences, FiniteSets

CONSTANTS
    Scanners,       \* threads that serve requests
    WebProcesses,   \* processes of the web service
    ProcessFor,     \* the process of each thread
    Contents,       \* texts that are not empty
    OddContents,    \* those check_malicious reports, by their characters alone
    PatternTypes,   \* the types in the order they are checked
    Builtin,        \* PROHIBITED_PATTERNS: a name and what it matches, by type
    PatternRows,    \* what a row can be: [type, name, regex]; the type may be one that is not checked
    MaxRows,        \* bound: rows
    MaxTableEdits,  \* bound: changes of the table
    MaxScans,       \* bound: requests
    MaxReboots      \* bound: restarts of a process

Checked == {PatternTypes[i] : i \in DOMAIN PatternTypes}

\* what is built in compiles
ASSUME ScannerAssumption ==
    /\ {MaxRows, MaxTableEdits, MaxScans, MaxReboots} \subseteq Nat
    /\ IsFiniteSet(Scanners) /\ ProcessFor \in [Scanners -> WebProcesses]
    /\ PatternTypes \in Seq(Checked) /\ OddContents \subseteq Contents
    /\ \A r \in PatternRows : r = [type |-> r.type, name |-> r.name, regex |-> r.regex]
    /\ \A t \in Checked : Builtin[t].regex.good

VARIABLES
    table,          \* prohibited_patterns, by id: the row and enabled
    inForce,        \* the nested dictionaries of each process: by type, what each name matches
    scan,           \* what each thread is doing
    inserted,       \* history: by process, what its table has held since it started
    learned,        \* history: by process, what completed loads have put there
    wasEnabled,     \* history: rows that have been enabled
    verdicts,       \* history: outcomes of evaluations and scans
    tableEdits, scans, reboots

scannerVars == <<table, inForce, scan, inserted, learned, wasEnabled, verdicts, tableEdits, scans, reboots>>

BuiltinRules == {[type |-> t, name |-> Builtin[t].name, regex |-> Builtin[t].regex] : t \in Checked}
NotScanning == [at |-> "idle"]
Fresh == [t \in Checked |-> [n \in {Builtin[t].name} |-> Builtin[t].regex]]

ScannerInit ==
    /\ table = <<>>
    /\ inForce = [p \in WebProcesses |-> Fresh]
    /\ scan = [s \in Scanners |-> NotScanning]
    /\ inserted = [p \in WebProcesses |-> BuiltinRules] /\ learned = inserted
    /\ wasEnabled = {} /\ verdicts = {}
    /\ tableEdits = 0 /\ scans = 0 /\ reboots = 0

-----------------------------------------------------------------------------
\* external: nothing in the code adds a row or changes one but add_pattern, which nothing calls
AddRow(row, on) ==
    /\ tableEdits < MaxTableEdits /\ Len(table) < MaxRows /\ tableEdits' = tableEdits + 1
    /\ table' = Append(table, [rule |-> row, on |-> on])
    /\ wasEnabled' = wasEnabled \cup IF on THEN {row} ELSE {}
    /\ UNCHANGED <<inForce, scan, inserted, learned, verdicts, scans, reboots>>

SwitchRow(i) ==
    /\ tableEdits < MaxTableEdits /\ tableEdits' = tableEdits + 1
    /\ table' = [table EXCEPT ![i].on = ~@]
    /\ wasEnabled' = wasEnabled \cup {table[i].rule}
    /\ UNCHANGED <<inForce, scan, inserted, learned, verdicts, scans, reboots>>

EnabledRows == {i \in DOMAIN table : table[i].on}

\* what a process owes a content: the rules of completed loads and the built-in ones, but those
\* whose name another rule it has held has had
Owed(known, held) == {x \in known : \A y \in held : y.type = x.type /\ y.name = x.name => y = x}

\* POST /pdp/scan makes a scanner with the session: the rows are read, then put in one by one
ScanRequest(s, content) ==
    /\ scan[s] = NotScanning /\ scans < MaxScans /\ scans' = scans + 1
    /\ scan' = [scan EXCEPT ![s] = [at |-> "load", op |-> "scan", content |-> content, found |-> FALSE,
                                    rows |-> [i \in EnabledRows |-> table[i].rule], left |-> EnabledRows]]
    /\ UNCHANGED <<table, inForce, inserted, learned, wasEnabled, verdicts, tableEdits, reboots>>

\* Faulty variant of PutInForce: the nested dictionaries are copied too.
PutInCopy(p, rule) == UNCHANGED inForce

\* the name is the description of the row; what it named before is displaced
PutInForce(p, rule) ==
    inForce' = IF rule.type \notin Checked THEN inForce
               ELSE [inForce EXCEPT ![p][rule.type] =
                        [n \in DOMAIN @ \cup {rule.name} |-> IF n = rule.name THEN rule.regex ELSE @[n]]]

\* the query names no order
LoadRow(s, i) ==
    LET p == ProcessFor[s]
        rule == scan[s].rows[i]
    IN  /\ PutInForce(p, rule)
        /\ inserted' = [inserted EXCEPT ![p] = @ \cup {rule}]
        /\ scan' = [scan EXCEPT ![s].left = @ \ {i}]
        /\ UNCHANGED <<table, learned, wasEnabled, verdicts, tableEdits, scans, reboots>>

Going(d, known) == [at |-> "between", op |-> d.op, content |-> d.content, found |-> FALSE, type |-> 1,
                    owed |-> known, size |-> 0, seen |-> {}]

LoadEnds(s) ==
    LET p == ProcessFor[s]
        known == learned[p] \cup {scan[s].rows[i] : i \in DOMAIN scan[s].rows}
    IN  /\ scan[s].at = "load" /\ scan[s].left = {}
        /\ learned' = [learned EXCEPT ![p] = known]
        /\ scan' = [scan EXCEPT ![s] = Going(scan[s], known)]
        /\ UNCHANGED <<table, inForce, inserted, wasEnabled, verdicts, tableEdits, scans, reboots>>

\* the policy engine makes a scanner without a session
EvaluateText(s, content) ==
    /\ scan[s] = NotScanning /\ scans < MaxScans /\ scans' = scans + 1
    /\ scan' = [scan EXCEPT ![s] = Going([op |-> "evaluate", content |-> content], learned[ProcessFor[s]])]
    /\ UNCHANGED <<table, inForce, inserted, learned, wasEnabled, verdicts, tableEdits, reboots>>

-----------------------------------------------------------------------------
Rules(p, type) == {[type |-> type, name |-> n, regex |-> inForce[p][type][n]] : n \in DOMAIN inForce[p][type]}

Verdict(s, outcome, why) ==
    LET d == scan[s]
    IN  /\ verdicts' = verdicts \cup {[op |-> d.op, outcome |-> outcome, why |-> why,
                                       owed |-> \E x \in Owed(d.owed, inserted[ProcessFor[s]]) :
                                                    x.type \in Checked /\ d.content \in x.regex.hits,
                                       foreign |-> {x \in d.seen : d.content \in x.regex.hits}
                                                       \ (BuiltinRules \cup wasEnabled)]}
        /\ scan' = [scan EXCEPT ![s] = NotScanning]

\* an exception of a scan is a denial of the policy engine, and 500 of the endpoint
Raised(s, why) == Verdict(s, IF scan[s].op = "scan" THEN "500" ELSE "denied", why)

\* check_pii and check_injection go over the dictionary of the type
BeginType(s) ==
    LET p == ProcessFor[s]
        type == PatternTypes[scan[s].type]
    IN  /\ scan[s].at = "between" /\ scan[s].type <= Len(PatternTypes)
        /\ scan' = [scan EXCEPT ![s].at = "inside", ![s].size = Cardinality(DOMAIN inForce[p][type]),
                                ![s].seen = @ \cup Rules(p, type)]
        /\ UNCHANGED <<table, inForce, inserted, learned, wasEnabled, verdicts, tableEdits, scans, reboots>>

\* A name another thread has added in between ends the iteration with an exception, and so does a
\* regular expression that cannot be compiled.  Of a rule replaced in between either one counts.
EndType(s) ==
    LET p == ProcessFor[s]
        d == scan[s]
        type == PatternTypes[d.type]
        before == {x \in d.seen : x.type = type}
    IN  /\ d.at = "inside"
        /\ \/ /\ Cardinality(DOMAIN inForce[p][type]) # d.size /\ Raised(s, "resized")
           \/ /\ Cardinality(DOMAIN inForce[p][type]) = d.size
              /\ \E used \in SUBSET (before \cup Rules(p, type)) :
                    /\ \A n \in DOMAIN inForce[p][type] : \E x \in used : x.name = n
                    /\ \A x, y \in used : x.name = y.name => x = y
                    /\ IF \E x \in used : ~x.regex.good THEN Raised(s, "broken")
                       ELSE /\ scan' = [scan EXCEPT ![s].at = "between", ![s].type = @ + 1,
                                                    ![s].seen = (@ \ before) \cup used,
                                                    ![s].found = @ \/ \E x \in used : d.content \in x.regex.hits]
                            /\ UNCHANGED verdicts
        /\ UNCHANGED <<table, inForce, inserted, learned, wasEnabled, tableEdits, scans, reboots>>

\* check_malicious
Odd(content) == content \in OddContents

\* after the types the characters are looked at; then the scan is safe or not
EndScan(s) ==
    /\ scan[s].at = "between" /\ scan[s].type > Len(PatternTypes)
    /\ IF scan[s].found \/ Odd(scan[s].content)
       THEN Verdict(s, "denied", IF scan[s].found THEN "pattern" ELSE "odd")
       ELSE Verdict(s, "passed", "none")
    /\ UNCHANGED <<table, inForce, inserted, learned, wasEnabled, tableEdits, scans, reboots>>

\* a process starts again with the built-in patterns
Reboot(p) ==
    /\ reboots < MaxReboots /\ reboots' = reboots + 1
    /\ inForce' = [inForce EXCEPT ![p] = Fresh]
    /\ scan' = [s \in Scanners |-> IF ProcessFor[s] = p THEN NotScanning ELSE scan[s]]
    /\ inserted' = [inserted EXCEPT ![p] = BuiltinRules] /\ learned' = [learned EXCEPT ![p] = BuiltinRules]
    /\ UNCHANGED <<table, wasEnabled, verdicts, tableEdits, scans>>

ScannerNext ==
    \/ \E row \in PatternRows, on \in BOOLEAN : AddRow(row, on)
    \/ \E i \in DOMAIN table : SwitchRow(i)
    \/ \E s \in Scanners :
          \/ \E content \in Contents : ScanRequest(s, content) \/ EvaluateText(s, content)
          \/ scan[s].at = "load" /\ \E i \in scan[s].left : LoadRow(s, i)
          \/ LoadEnds(s) \/ BeginType(s) \/ EndType(s) \/ EndScan(s)
    \/ \E p \in WebProcesses : Reboot(p)

ScannerSpec == ScannerInit /\ [][ScannerNext]_scannerVars
-----------------------------------------------------------------------------
ScannerTypeOK ==
    /\ Len(table) <= MaxRows /\ \A i \in DOMAIN table : table[i].rule \in PatternRows /\ table[i].on \in BOOLEAN
    /\ \A p \in WebProcesses : DOMAIN inForce[p] = Checked /\ learned[p] \subseteq inserted[p]
    /\ inserted \in [WebProcesses -> SUBSET (BuiltinRules \cup PatternRows)]
    /\ \A s \in Scanners : scan[s].at \in {"idle", "load", "between", "inside"}
    /\ \A v \in verdicts : v.outcome \in {"passed", "denied", "500"} /\ v.why \in {"none", "pattern", "odd", "resized", "broken"}
    /\ tableEdits \in 0 .. MaxTableEdits /\ scans \in 0 .. MaxScans /\ reboots \in 0 .. MaxReboots

\* A content that passes is matched by no built-in pattern, and by no row that a scan of the
\* process had loaded before, unless a row has taken the name of that pattern in the process.
NothingOwedPasses == \A v \in verdicts : v.outcome = "passed" => ~v.owed

\* Whatever a content is denied for was built in or has been an enabled row, and a scan raises only
\* if a row that cannot be compiled has been enabled, or a row was loaded while it ran.
DenialsHaveCauses ==
    \A v \in verdicts :
        /\ v.foreign = {}
        /\ v.why = "broken" => \E r \in wasEnabled : ~r.regex.good
        /\ v.why = "resized" => wasEnabled # {} /\ Cardinality(Scanners) > 1

\* What a process holds against a content, it has reasons for, and it holds all it should.
ScansHaveCauses == NothingOwedPasses /\ DenialsHaveCauses
==============================================================================
