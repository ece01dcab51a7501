----------------------------- MODULE ReportFigures -----------------------------
(***************************************************************************)
(* backend/api/analytics_reports_system.py counts the same sample records  *)
(* four times: for the dashboard, for a project, for the performance and   *)
(* for a report. Their instants are fixed when a process starts (_NOW), so *)
(* what is counted depends on how long it has run. Percentages and         *)
(* progress are in hundredths of a percent, ages in hours.                 *)
(***************************************************************************)
EXTENDS Integers, FiniteSetsExt

CONSTANTS
    Windows,        \* days a caller may ask for
    StartHours,     \* hours of the day at which a process may start
    MaxHours        \* bound: hours a process runs

ASSUME FiguresAssumption ==
    Windows \subseteq Nat \ {0} /\ StartHours \subseteq 0 .. 23 /\ MaxHours \in Nat

VARIABLES startHour, uptime

figureVars == <<startHour, uptime>>

FiguresInit == startHour \in StartHours /\ uptime = 0

HourPasses ==
    /\ uptime < MaxHours
    /\ uptime' = uptime + 1
    /\ UNCHANGED startHour

FiguresSpec == FiguresInit /\ [][HourPasses]_figureVars

-----------------------------------------------------------------------------
SampleProjects ==
    {[id |-> 1, mine |-> TRUE, status |-> "active", progress |-> 7250],
     [id |-> 2, mine |-> TRUE, status |-> "planning", progress |-> 1800],
     [id |-> 3, mine |-> FALSE, status |-> "active", progress |-> 5400]}

SampleTask(id, project, mine, priority, days, due, done) ==
    [id |-> id, project |-> project, mine |-> mine, priority |-> priority, age |-> 24 * days,
     due |-> 24 * due, done |-> done]

\* `due` counts from now, as `age` does backwards
SampleTasks ==
    {SampleTask(1, 1, TRUE, "high", 6, -3, TRUE), SampleTask(2, 1, TRUE, "medium", 4, 5, FALSE),
     SampleTask(3, 2, TRUE, "high", 10, -2, TRUE), SampleTask(4, 2, TRUE, "low", 1, 14, FALSE),
     SampleTask(5, 3, FALSE, "medium", 2, 7, FALSE)}

SampleAlerts ==
    {[id |-> 1, project |-> 1, mine |-> TRUE, severity |-> "critical", age |-> 53],
     [id |-> 2, project |-> 1, mine |-> TRUE, severity |-> "medium", age |-> 72],
     [id |-> 3, project |-> 2, mine |-> TRUE, severity |-> "high", age |-> 27],
     [id |-> 4, project |-> 3, mine |-> FALSE, severity |-> "medium", age |-> 24]}

\* an instant is a little more than `age + uptime` hours ago
Since(records, hours) == {r \in records : r.mine /\ r.age + uptime < hours}

Mine(records) == {r \in records : r.mine}
Completed(tasks) == {t \in tasks : t.done}
Of(severity, alerts) == {a \in alerts : a.severity = severity}

\* round(part / whole * 100, 2), which is 0 when there is no whole
Percent(part, whole) == IF whole = 0 THEN 0 ELSE (20000 * part + whole) \div (2 * whole)
Average(projects) ==
    IF projects = {} THEN 0
    ELSE LET sum == MapThenSumSet(LAMBDA p : p.progress, projects)
         IN (2 * sum + Cardinality(projects)) \div (2 * Cardinality(projects))

\* the date of an instant, counted in days back from today
DaysBack(age) == (startHour + uptime) \div 24 - (startHour - age) \div 24

Dashboard(days) ==
    LET projects == Mine(SampleProjects)
        tasks == Since(SampleTasks, 24 * days)
        alerts == Since(SampleAlerts, 24 * days)
        OnDay(back) == {t \in tasks : DaysBack(t.age) = back}
    IN [total_projects |-> Cardinality(projects),
        active_projects |-> Cardinality({p \in projects : p.status = "active"}),
        avg_progress |-> Average(projects),
        total_tasks |-> Cardinality(tasks), completed_tasks |-> Cardinality(Completed(tasks)),
        completion_rate |-> Percent(Cardinality(Completed(tasks)), Cardinality(tasks)),
        total_alerts |-> Cardinality(alerts),
        trend |-> [back \in 0 .. 6 |-> [completed |-> Cardinality(Completed(OnDay(back))),
                                        total |-> Cardinality(OnDay(back))]],
        alerts |-> [critical |-> Cardinality(Of("critical", alerts)), high |-> Cardinality(Of("high", alerts)),
                    medium |-> Cardinality(Of("medium", alerts)),
                    low |-> Cardinality({a \in alerts : a.severity \notin {"critical", "high", "medium"}})],
        status |-> [s \in {p.status : p \in projects} |-> Cardinality({p \in projects : p.status = s})]]

\* _collect_report_data, of one project or of all (0), for the last hours
ReportMetrics(project, hours) ==
    LET Asked(records) == {r \in Since(records, hours) : project \in {0, r.project}}
        projects == {p \in SampleProjects : p.mine /\ project \in {0, p.id}}
        tasks == Asked(SampleTasks)
        alerts == Asked(SampleAlerts)
    IN [total_projects |-> Cardinality(projects),
        active_projects |-> Cardinality({p \in projects : p.status = "active"}),
        avg_progress |-> Average(projects),
        total_tasks |-> Cardinality(tasks), completed_tasks |-> Cardinality(Completed(tasks)),
        pending_tasks |-> Cardinality(tasks) - Cardinality(Completed(tasks)),
        completion_rate |-> Percent(Cardinality(Completed(tasks)), Cardinality(tasks)),
        total_alerts |-> Cardinality(alerts), critical_alerts |-> Cardinality(Of("critical", alerts)),
        high_alerts |-> Cardinality(Of("high", alerts)), medium_alerts |-> Cardinality(Of("medium", alerts))]

\* get_project_analytics counts what belongs to the project, of whomever and whenever
ProjectView(project) ==
    LET tasks == {t \in SampleTasks : t.project = project}
    IN IF \E p \in SampleProjects : p.id = project /\ p.mine
       THEN [total_tasks |-> Cardinality(tasks), completed_tasks |-> Cardinality(Completed(tasks)),
             completion_rate |-> Percent(Cardinality(Completed(tasks)), Cardinality(tasks)),
             total_alerts |-> Cardinality({a \in SampleAlerts : a.project = project}),
             high |-> Cardinality({t \in tasks : t.priority = "high"}),
             medium |-> Cardinality({t \in tasks : t.priority = "medium"}),
             low |-> Cardinality({t \in tasks : t.priority \notin {"high", "medium"}})]
       ELSE [error |-> 404]

\* a task counts as on time when it was due after it was created
Performance(days) ==
    LET tasks == Since(SampleTasks, 24 * days)
        done == Cardinality(Completed(tasks))
        onTime == Cardinality({t \in Completed(tasks) : -t.age <= t.due})
        penalty == 5 * Cardinality(Of("critical", Since(SampleAlerts, 24 * days)))
        total == Cardinality(tasks)
        AlertFactor == 100 * (IF penalty > 30 THEN 0 ELSE 30 - penalty)
        \* completion and punctuality, over their common denominator
        both == 4000 * done * done + 3000 * onTime * total
        whole == total * done
    IN [completion |-> Percent(done, total), onTime |-> Percent(onTime, done),
        productivity |-> IF total = 0 THEN 0
                         ELSE AlertFactor + (IF done = 0 THEN 0 ELSE (2 * both + whole) \div (2 * whole))]

-----------------------------------------------------------------------------
MineIds == {p.id : p \in Mine(SampleProjects)}

\* The dashboard, the performance, the projects and the reports are counted by four pieces
\* of code (analytics_reports_system.py:434, :987, :1077, :1131) and must tell the same of a
\* window: equal totals and rates; counts by severity, status or project that add up to the
\* total; a trend whose seven days add up to it too, but for a window of seven days or more;
\* and a view of a project, which has no window, that counts no less.
FiguresAgree ==
    \A days \in Windows :
        LET shown == Dashboard(days)
            report == ReportMetrics(0, 24 * days)
            one == [p \in MineIds |-> ReportMetrics(p, 24 * days)]
        IN /\ \A k \in DOMAIN shown \ {"trend", "alerts", "status"} : shown[k] = report[k]
           /\ Performance(days).completion = shown.completion_rate
           /\ Performance(days).productivity \in 0 .. 10000
           /\ shown.alerts.critical + shown.alerts.high + shown.alerts.medium + shown.alerts.low
                  = shown.total_alerts
           /\ MapThenSumSet(LAMBDA s : shown.status[s], DOMAIN shown.status) = shown.total_projects
           /\ LET recent == MapThenSumSet(LAMBDA back : shown.trend[back].total, 0 .. 6)
              IN recent <= shown.total_tasks /\ (days < 7 => recent = shown.total_tasks)
           /\ \A k \in {"total_projects", "total_tasks", "completed_tasks", "pending_tasks", "total_alerts"} :
                  MapThenSumSet(LAMBDA p : one[p][k], MineIds) = report[k]
           /\ \A p \in MineIds, k \in {"total_tasks", "completed_tasks", "total_alerts"} :
                  ProjectView(p)[k] >= one[p][k]
================================================================================
