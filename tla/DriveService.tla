------------------------------ MODULE DriveService ------------------------------
(***************************************************************************)
(* backend/services/google_drive.py: the Drive service a process builds    *)
(* once and keeps, whether its credentials were found, and the last error, *)
(* which its threads read and write under one lock while they look at the  *)
(* file, build and use the service outside of it; api/connectors.py, which *)
(* tells how Drive is; and the Drive connector of the hydration, which a   *)
(* worker process runs in one thread.                                      *)
(***************************************************************************)
EXTENDS FiniteSets

CONSTANTS Callers           \* threads of the process

VARIABLES
    process,        \* "web" or "worker"
    importable,        \* whether Google's client library can be imported
    keyFile,        \* whether the service account file is there
    drive,          \* what the process keeps of Drive, under _STATE_LOCK
    inDrive,        \* what each thread is doing
    token,          \* cursor_json of a Drive source: "none", "stub" or "good"
    asked,          \* history: somebody called get_drive_service
    failed, fileMissed, \* history: an error was recorded, the file was missing, since a service was kept
    told            \* history: the last answer of connectors/list, and how Drive was meanwhile

driveVars == <<process, importable, keyFile, drive, inDrive, token, asked, failed, fileMissed, told>>

\* upload_to_drive and list_project_folders record the error of a call; download_file and
\* the public connector do not
WebCalls == {"upload", "download"}
WorkerCalls == {"public", "hydrate", "rescan"}

Away == [at |-> "away", op |-> "none", seen |-> FALSE, available |-> FALSE, stubbed |-> TRUE, during |-> {}]
Fresh == [ready |-> FALSE, available |-> FALSE, error |-> "none"]
Untold == [status |-> "none", during |-> {}]

DriveInit ==
    /\ process \in {"web", "worker"} /\ importable \in BOOLEAN /\ keyFile \in BOOLEAN
    /\ drive = Fresh
    /\ inDrive = [t \in Callers |-> Away]
    /\ token = "none"
    /\ asked = FALSE /\ failed = FALSE /\ fileMissed = FALSE
    /\ told = Untold

Stubbed(d) == ~(d.ready /\ d.available)

\* the status connectors/list would tell of one state
StatusOf(d) ==
    IF d.error # "none" THEN "error" ELSE IF Stubbed(d) THEN "stubbed" ELSE "connected"

\* a request for the status that is under way sees every state
Watched(d) ==
    [t \in Callers |->
        IF inDrive[t].op = "status" THEN [inDrive[t] EXCEPT !.during = @ \cup {StatusOf(d)}] ELSE inDrive[t]]

Goes(t, at) == inDrive' = [inDrive EXCEPT ![t].at = at]
Leaves(t) == inDrive' = [inDrive EXCEPT ![t] = Away]

\* a worker has one thread
MayBegin(t) ==
    /\ inDrive[t] = Away
    /\ process = "worker" => \A u \in Callers : inDrive[u] = Away

-----------------------------------------------------------------------------
Call(t) ==
    /\ MayBegin(t)
    /\ \E op \in IF process = "web" THEN WebCalls ELSE {"public"} :
          inDrive' = [inDrive EXCEPT ![t] = [Away EXCEPT !.at = "get", !.op = op]]
    /\ asked' = TRUE
    /\ UNCHANGED <<process, importable, keyFile, drive, token, failed, fileMissed, told>>

\* GoogleDriveConnector.list_changes: a stubbed Drive has no changes, and a source without a
\* cursor, or whose cursor a full scan leaves aside, gets the token "stub"
Hydrate(t, full) ==
    /\ MayBegin(t) /\ process = "worker"
    /\ IF Stubbed(drive)
       THEN /\ token' = IF full \/ token = "none" THEN "stub" ELSE token
            /\ UNCHANGED inDrive
       ELSE /\ inDrive' = [inDrive EXCEPT ![t] =
                              [Away EXCEPT !.at = "get", !.op = IF full THEN "rescan" ELSE "hydrate"]]
            /\ UNCHANGED token
    /\ UNCHANGED <<process, importable, keyFile, drive, asked, failed, fileMissed, told>>

\* _google_drive_status
AskStatus(t) ==
    /\ MayBegin(t) /\ process = "web"
    /\ inDrive' = [inDrive EXCEPT ![t] = [Away EXCEPT !.at = "find", !.op = "status", !.during = {StatusOf(drive)}]]
    /\ UNCHANGED <<process, importable, keyFile, drive, token, asked, failed, fileMissed, told>>

-----------------------------------------------------------------------------
\* get_drive_service: the service that is kept, or _initialise_service
Get(t) ==
    /\ inDrive[t].at = "get"
    /\ Goes(t, IF drive.ready THEN "use" ELSE IF importable THEN "find" ELSE "fail")
    /\ UNCHANGED <<process, importable, keyFile, drive, token, asked, failed, fileMissed, told>>

\* _update_credentials_state: path.exists, outside the lock
Find(t) ==
    /\ inDrive[t].at = "find"
    /\ inDrive' = [inDrive EXCEPT ![t].at = "note", ![t].seen = keyFile]
    /\ UNCHANGED <<process, importable, keyFile, drive, token, asked, failed, fileMissed, told>>

\* Faulty variant of Noted: a file that is found clears any error.
NotedAny(d, seen) ==
    IF seen THEN [d EXCEPT !.available = TRUE, !.error = "none"]
    ELSE [ready |-> FALSE, available |-> FALSE, error |-> "credentials"]

Noted(d, seen) ==
    IF seen THEN [d EXCEPT !.available = TRUE, !.error = IF @ = "credentials" THEN "none" ELSE @]
    ELSE [ready |-> FALSE, available |-> FALSE, error |-> "credentials"]

Note(t) ==
    /\ inDrive[t].at = "note"
    /\ drive' = Noted(drive, inDrive[t].seen)
    /\ fileMissed' = (fileMissed \/ ~inDrive[t].seen)
    /\ inDrive' = [Watched(drive') EXCEPT ![t].at = IF inDrive[t].op = "status" THEN "available" ELSE "check"]
    /\ UNCHANGED <<process, importable, keyFile, token, asked, failed, told>>

\* credentials that are missing, be it by another thread's look, are a RuntimeError, which
\* is answered with a stub and recorded no further
Check(t) ==
    /\ inDrive[t].at = "check"
    /\ IF drive.available THEN Goes(t, "build") ELSE Leaves(t)
    /\ UNCHANGED <<process, importable, keyFile, drive, token, asked, failed, fileMissed, told>>

\* a file that is gone cannot be read, and one that is there need not be good
Build(t) ==
    /\ inDrive[t].at = "build"
    /\ Goes(t, "fail") \/ (keyFile /\ Goes(t, "keep"))
    /\ UNCHANGED <<process, importable, keyFile, drive, token, asked, failed, fileMissed, told>>

Kept(d) == [d EXCEPT !.ready = TRUE, !.error = IF @ = "credentials" THEN @ ELSE "none"]

Keep(t) ==
    /\ inDrive[t].at = "keep"
    /\ drive' = Kept(drive)
    /\ failed' = FALSE /\ fileMissed' = FALSE
    /\ inDrive' = [Watched(drive') EXCEPT ![t].at = "use"]
    /\ UNCHANGED <<process, importable, keyFile, token, asked, told>>

\* the call to Drive, which may raise and does for the token "stub"; after it a source that
\* was listed has a token of Drive's
Use(t) ==
    /\ inDrive[t].at = "use"
    /\ \/ /\ inDrive[t].op = "hydrate" => token # "stub"
          /\ token' = IF inDrive[t].op \in {"hydrate", "rescan"} THEN "good" ELSE token
          /\ Leaves(t)
       \/ /\ IF inDrive[t].op = "upload" THEN Goes(t, "fail") ELSE Leaves(t)
          /\ UNCHANGED token
    /\ UNCHANGED <<process, importable, keyFile, drive, asked, failed, fileMissed, told>>

\* _record_error, of an import, an initialisation or a call
RecordError(t) ==
    /\ inDrive[t].at = "fail"
    /\ drive' = [drive EXCEPT !.ready = FALSE, !.error = "service"]
    /\ failed' = TRUE /\ fileMissed' = FALSE
    /\ inDrive' = [Watched(drive') EXCEPT ![t] = Away]
    /\ UNCHANGED <<process, importable, keyFile, token, asked, told>>

-----------------------------------------------------------------------------
\* the three reads of _google_drive_status
ReadAvailable(t) ==
    /\ inDrive[t].at = "available"
    /\ inDrive' = [inDrive EXCEPT ![t].at = "stubbed", ![t].available = drive.available]
    /\ UNCHANGED <<process, importable, keyFile, drive, token, asked, failed, fileMissed, told>>

ReadStubbed(t) ==
    /\ inDrive[t].at = "stubbed"
    /\ inDrive' = [inDrive EXCEPT ![t].at = "error", ![t].stubbed = Stubbed(drive)]
    /\ UNCHANGED <<process, importable, keyFile, drive, token, asked, failed, fileMissed, told>>

Answer(t) ==
    /\ inDrive[t].at = "error"
    /\ told' = [status |-> IF drive.error # "none" THEN "error"
                           ELSE IF inDrive[t].stubbed \/ ~inDrive[t].available THEN "stubbed"
                           ELSE "connected",
                during |-> inDrive[t].during]
    /\ Leaves(t)
    /\ UNCHANGED <<process, importable, keyFile, drive, token, asked, failed, fileMissed>>

\* somebody removes the service account file or puts it back
FileChanges ==
    /\ keyFile' = ~keyFile
    /\ UNCHANGED <<process, importable, drive, inDrive, token, asked, failed, fileMissed, told>>

DriveNext ==
    \/ FileChanges
    \/ \E t \in Callers :
          \/ Call(t) \/ AskStatus(t) \/ (\E full \in BOOLEAN : Hydrate(t, full))
          \/ Get(t) \/ Find(t) \/ Note(t) \/ Check(t) \/ Build(t) \/ Keep(t) \/ Use(t) \/ RecordError(t)
          \/ ReadAvailable(t) \/ ReadStubbed(t) \/ Answer(t)

DriveSpec == DriveInit /\ [][DriveNext]_driveVars

-----------------------------------------------------------------------------
DriveStatuses == {"error", "stubbed", "connected"}
DriveStates == [ready : BOOLEAN, available : BOOLEAN, error : {"none", "credentials", "service"}]
DrivePlaces == {"away", "get", "find", "note", "check", "build", "keep", "use", "fail",
                "available", "stubbed", "error"}
DriveWork ==
    [at : DrivePlaces, op : WebCalls \cup WorkerCalls \cup {"status", "none"}, seen : BOOLEAN,
     available : BOOLEAN, stubbed : BOOLEAN, during : SUBSET DriveStatuses]

DriveTypeOK ==
    /\ process \in {"web", "worker"} /\ importable \in BOOLEAN /\ keyFile \in BOOLEAN
    /\ drive \in DriveStates
    /\ inDrive \in [Callers -> DriveWork]
    /\ token \in {"none", "stub", "good"}
    /\ asked \in BOOLEAN /\ failed \in BOOLEAN /\ fileMissed \in BOOLEAN
    /\ told \in [status : DriveStatuses \cup {"none"}, during : SUBSET DriveStatuses]

\* A service that is kept and has credentials has no error, and an error of the credentials
\* means that they were not there at the last look.
DriveAgrees ==
    /\ ~Stubbed(drive) => drive.error = "none"
    /\ drive.error = "credentials" => ~drive.available

\* A worker asks drive_stubbed before it asks for the service (google_drive.py:25 of the
\* connectors), and only asking builds it: as long as it hydrates no public folder, it is
\* never ready, and no Drive source is listed.
OnlyAskingConnects == ~asked => ~drive.ready /\ token # "good"

\* A look at the credentials must not wipe the recorded error of anything else
\* (tests/test_drive_health_errors.py:248): the error stays until a service is kept, unless a
\* look in between missed the file.
ErrorsStay == failed /\ ~fileMissed => drive.error = "service"

\* connectors/list looks at the file and reads availability, stub mode and error one by one:
\* its answer was true at some moment of the request, but for "stubbed", which it may also
\* tell when an error was overcome between two of the reads.
AnswersWereTrue ==
    told.status \in told.during \cup {"none"}
    \/ (told.status = "stubbed" /\ {"error", "connected"} \subseteq told.during)

\* What google_drive.py and its callers keep of and tell about Drive, whatever their threads do.
DriveHolds == DriveAgrees /\ OnlyAskingConnects /\ ErrorsStay /\ AnswersWereTrue
================================================================================
