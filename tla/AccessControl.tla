---------------------------- MODULE AccessControl ----------------------------
(***************************************************************************)
(* backend/backend/pdp/acl_manager.py and rules.py: the access control     *)
(* list of users and projects, changed by administrators who read a row    *)
(* and commit later, and what the rules of the policy engine conclude from *)
(* it.  The table has no unique key: a query for the row of a user and a   *)
(* project takes the first of what it finds, in no particular order.       *)
(***************************************************************************)
EXTENDS Integers, FiniteSets

CONSTANTS
    Users, Projects,
    Admins,         \* processes that serve /pdp/access requests
    GrantRoles,     \* roles that are granted
    Lifetimes,      \* expires_at of a grant, in days; Forever for none
    Forever,
    CustomSets,     \* the permission sets update_permissions is called with
    MaxChanges      \* bound: calls of administrators

Roles == {"admin", "director", "engineer", "commercial", "safety_officer", "viewer"}

ASSUME AccessAssumption ==
    /\ GrantRoles \subseteq Roles
    /\ Lifetimes \subseteq Nat /\ Forever \in Nat
    /\ MaxChanges \in Nat

VARIABLES
    roleOf,     \* users.role
    acl,        \* access_control_lists: a set of rows
    lastId,     \* ids of rows given out
    doing,      \* the call each administrator is in, and the row it loaded
    changes,    \* calls begun
    overlapped, \* history: two administrators were busy at the same time
    promised    \* history: what the last completed call left for a user and a project

aclVars == <<roleOf, acl, lastId, doing, changes, overlapped, promised>>

Permissions == {"read", "write", "execute", "export", "delete", "admin"}

RolePermissions(role) ==
    CASE role = "admin" -> Permissions
      [] role = "director" -> {"read", "write", "execute", "export"}
      [] role = "engineer" -> {"read", "write", "execute"}
      [] role = "commercial" -> {"read", "write", "export"}
      [] role = "safety_officer" -> {"read", "write"}
      [] role = "viewer" -> {"read"}

None == [role |-> "none", perms |-> {}, left |-> 0]
Entry(role, perms, left) == [role |-> role, perms |-> perms, left |-> left]

\* a row: its id, whose it is, and its entry
RowsFor(u, p) == {r \in acl : r.user = u /\ r.project = p}
Missing == [id |-> 0, entry |-> None]
\* query(...).first()
First(u, p) == IF RowsFor(u, p) = {} THEN {Missing} ELSE RowsFor(u, p)

AclCall(op, u, p, entry) ==
    [op |-> op, user |-> u, project |-> p, entry |-> entry, id |-> 0, seen |-> None]
NoCall == AclCall("idle", "-", "-", None)

AclInit ==
    /\ roleOf \in [Users -> {"admin", "director", "engineer", "viewer"}]
    /\ acl = {}
    /\ lastId = 0
    /\ doing = [a \in Admins |-> NoCall]
    /\ changes = 0
    /\ overlapped = FALSE
    /\ promised = [u \in Users |-> [p \in Projects |-> None]]

-----------------------------------------------------------------------------
(* The three calls: load the row, then commit                              *)

Busy(a) == doing[a].op # "idle"

Load(a, call) ==
    /\ ~Busy(a) /\ changes < MaxChanges
    /\ \E r \in First(call.user, call.project) :
        doing' = [doing EXCEPT ![a] = [call EXCEPT !.id = r.id, !.seen = r.entry]]
    /\ changes' = changes + 1
    /\ overlapped' = (overlapped \/ \E b \in Admins : Busy(b))
    /\ UNCHANGED <<roleOf, acl, lastId, promised>>

LoadGrant(a, u, p) ==
    \E role \in GrantRoles, left \in Lifetimes :
        Load(a, AclCall("grant", u, p, Entry(role, RolePermissions(role), left)))

LoadRevoke(a, u, p) == Load(a, AclCall("revoke", u, p, None))

\* what is not a permission is dropped
LoadUpdate(a, u, p) ==
    \E perms \in CustomSets :
        Load(a, AclCall("update", u, p, [None EXCEPT !.perms = perms \cap Permissions]))

Free(a) == doing' = [doing EXCEPT ![a] = NoCall]
Promise(u, p, e) == promised' = [promised EXCEPT ![u][p] = e]

\* Faulty variant of Insert: a grant always adds a row.
InsertAlways(d) == d.op = "grant"

Insert(d) == d.op = "grant" /\ d.id = 0

\* Faulty variant of FreshId: the newest id is given again.
FreshIdLast == lastId

\* a sequence of the database: an id is not used twice
FreshId == lastId + 1

CommitInsert(a) ==
    LET d == doing[a] IN
    /\ Busy(a) /\ Insert(d)
    /\ acl' = acl \cup {[id |-> FreshId, user |-> d.user, project |-> d.project, entry |-> d.entry]}
    /\ lastId' = FreshId
    /\ Promise(d.user, d.project, d.entry)
    /\ Free(a)
    /\ UNCHANGED <<roleOf, changes, overlapped>>

\* The UPDATE carries the attributes that differ from the loaded ones; a grant sets
\* role, permissions and expiry, update_permissions the permissions.
Written(d, e) ==
    [role  |-> IF d.op = "grant" /\ d.entry.role # d.seen.role THEN d.entry.role ELSE e.role,
     perms |-> IF d.entry.perms # d.seen.perms THEN d.entry.perms ELSE e.perms,
     left  |-> IF d.op = "grant" /\ d.entry.left # d.seen.left THEN d.entry.left ELSE e.left]

CommitUpdate(a) ==
    LET d == doing[a] IN
    /\ Busy(a) /\ d.op \in {"grant", "update"} /\ ~Insert(d)
    /\ \E r \in acl :
        /\ r.id = d.id
        /\ acl' = (acl \ {r}) \cup {[r EXCEPT !.entry = Written(d, @)]}
        /\ Promise(d.user, d.project,
                   IF d.op = "grant" THEN d.entry
                   ELSE [promised[d.user][d.project] EXCEPT !.perms = d.entry.perms])
    /\ Free(a)
    /\ UNCHANGED <<roleOf, lastId, changes, overlapped>>

CommitRevoke(a) ==
    LET d == doing[a] IN
    /\ Busy(a) /\ d.op = "revoke"
    /\ \E r \in acl : r.id = d.id /\ acl' = acl \ {r}
    /\ Promise(d.user, d.project, None)
    /\ Free(a)
    /\ UNCHANGED <<roleOf, lastId, changes, overlapped>>

\* no row to revoke or update (404), or the loaded row is gone (an error, rolled back)
CommitNothing(a) ==
    LET d == doing[a] IN
    /\ Busy(a) /\ ~Insert(d)
    /\ \A r \in acl : r.id # d.id
    /\ Free(a)
    /\ UNCHANGED <<roleOf, acl, lastId, changes, overlapped, promised>>

Aged(e) == [e EXCEPT !.left = IF @ \in {0, Forever} THEN @ ELSE @ - 1]

\* a day passes; a call is over within the day
Day ==
    /\ \A a \in Admins : ~Busy(a)
    /\ \E r \in acl : Aged(r.entry) # r.entry
    /\ acl' = {[r EXCEPT !.entry = Aged(@)] : r \in acl}
    /\ promised' = [u \in Users |-> [p \in Projects |-> Aged(promised[u][p])]]
    /\ UNCHANGED <<roleOf, lastId, doing, changes, overlapped>>

AclNext ==
    \/ \E a \in Admins :
        \/ \E u \in Users, p \in Projects :
            LoadGrant(a, u, p) \/ LoadRevoke(a, u, p) \/ LoadUpdate(a, u, p)
        \/ CommitInsert(a) \/ CommitUpdate(a) \/ CommitRevoke(a) \/ CommitNothing(a)
    \/ Day

AclSpec == AclInit /\ [][AclNext]_aclVars

-----------------------------------------------------------------------------
(* What the rules and the manager conclude.  r is the row the query found  *)

IsGlobal(u) == roleOf[u] \in {"admin", "director"}
Expired(r) == r.entry.left = 0

\* ProjectAccessRule
ProjectRule(u, r) == IF r.id # 0 THEN ~Expired(r) ELSE IsGlobal(u)

\* get_user_permissions
UserPermissions(u, r) ==
    IF r.id # 0 THEN IF Expired(r) THEN {} ELSE r.entry.perms
    ELSE IF IsGlobal(u) THEN RolePermissions(roleOf[u]) ELSE {}

\* check_permission
HasPermission(u, r, action) == {"admin", action} \cap UserPermissions(u, r) # {}

\* list_user_projects: rows in force, and for a global role every project not yet listed
ListedProjects(u) ==
    LET current == {r.project : r \in {r \in acl : r.user = u /\ ~Expired(r)}} IN
    IF IsGlobal(u) THEN Projects ELSE current

\* list_project_users
ListedUsers(p) ==
    {r.user : r \in {r \in acl : r.project = p /\ ~Expired(r)}} \cup {u \in Users : IsGlobal(u)}

\* RoleBasedRule: the role in users, not the one granted on the project
RoleRule(u, r, action) == roleOf[u] = "admin" \/ action \in RolePermissions(roleOf[u])

Levels == [public |-> 0, internal |-> 1, confidential |-> 2, restricted |-> 3]

\* DataClassificationRule
RoleLevel(role) ==
    CASE role = "admin" -> Levels.restricted
      [] role = "director" -> Levels.confidential
      [] role = "viewer" -> Levels.public
      [] OTHER -> Levels.internal
Cleared(u, classification) == RoleLevel(roleOf[u]) >= Levels[classification]

\* PolicyEngine.check_access and apply_policy_chain for a request about a project;
\* hours, days and addresses are unrestricted by default
EvaluateRules(u, r, action, classification) ==
    RoleRule(u, r, action) /\ ProjectRule(u, r) /\ Cleared(u, classification)

\* PDPService.check_project_access
MayAct(u, r, action) == HasPermission(u, r, action) /\ EvaluateRules(u, r, action, "internal")

\* CLEARANCE_LEVELS
Clearance(role) ==
    CASE role = "admin" -> 4 [] role = "director" -> 3 [] role = "viewer" -> 1 [] OTHER -> 2

\* PDPService.get_user_clearance infers the role on the project from the permissions
ClearanceFrom(perms) ==
    IF "admin" \in perms THEN Clearance("admin")
    ELSE IF {"export", "execute"} \subseteq perms THEN Clearance("director")
    ELSE IF "execute" \in perms THEN Clearance("engineer")
    ELSE IF "write" \in perms THEN Clearance("commercial")
    ELSE Clearance("viewer")

\* without permissions on the project: the highest role of all listed projects
UserClearance(u, r) ==
    IF UserPermissions(u, r) # {} THEN ClearanceFrom(UserPermissions(u, r))
    ELSE LET current == {q \in acl : q.user = u /\ ~Expired(q)}
             others == Projects \ {q.project : q \in current}
             roles == {q.entry.role : q \in current}
                      \cup (IF IsGlobal(u) /\ others # {} THEN {roleOf[u]} ELSE {})
         IN  CHOOSE n \in 1 .. 4 :
                /\ \A role \in roles : Clearance(role) <= n
                /\ n = 1 \/ \E role \in roles : Clearance(role) = n

\* PDPService.check_export_permission, after the rate limit
MayExport(u, r, classification) ==
    UserClearance(u, r) >= Levels[classification] + 1 /\ EvaluateRules(u, r, "export", classification)

-----------------------------------------------------------------------------
AclTypeOK ==
    /\ roleOf \in [Users -> Roles]
    /\ acl \subseteq [id : 1 .. MaxChanges, user : Users, project : Projects,
                     entry : [role : Roles, perms : SUBSET Permissions, left : Nat]]
    /\ lastId \in 0 .. MaxChanges /\ changes \in 0 .. MaxChanges
    /\ overlapped \in BOOLEAN

\* What grant, revoke and update promise: while administrators do not overlap, the last
\* completed call decides, there is one row for it, and a revoked user has none
\* (acl_manager.py:85, :148; with an overlap a revoke can leave a second row in force).
LastCallDecides ==
    ~overlapped => \A u \in Users, p \in Projects :
        {r.entry : r \in RowsFor(u, p)} = {promised[u][p]} \ {None}
        /\ Cardinality(RowsFor(u, p)) <= 1

\* What different pieces of code read out of the same table agrees.  Whoever has a
\* permission on a project passes the project rule, and who passes it without one was
\* given an empty set by update_permissions.  The two listings describe one relation, and a
\* listed project is open to its user except for one case: a global role whose row on the
\* project has expired is listed and denied (acl_manager.py:249, rules.py:88).  The clearance
\* inferred from the permissions of a grant is the one of its role, and an expired user
\* exports nothing of the project.  No role granted on a project adds to the role in users.
ViewsAgree ==
    /\ \A role \in Roles : ClearanceFrom(RolePermissions(role)) = Clearance(role)
    /\ \A u \in Users, p \in Projects :
        /\ p \in ListedProjects(u) <=> u \in ListedUsers(p)
        /\ \A r \in First(u, p) :
            /\ UserPermissions(u, r) # {} => ProjectRule(u, r)
            /\ ProjectRule(u, r) /\ UserPermissions(u, r) = {} => r.entry.perms = {} /\ ~Expired(r)
            /\ ProjectRule(u, r) => p \in ListedProjects(u)
            /\ p \in ListedProjects(u) /\ ~ProjectRule(u, r) =>
                overlapped \/ (IsGlobal(u) /\ Expired(r))
            /\ \A action \in Permissions :
                MayAct(u, r, action) => action \in RolePermissions(roleOf[u])
            /\ r.id # 0 /\ Expired(r) => \A c \in DOMAIN Levels : ~MayExport(u, r, c)

\* What administrators were last told decides, and every reader of the table agrees on it
\* (acl_manager.py:85-262, rules.py:60-120).
AccessHolds == LastCallDecides /\ ViewsAgree
==============================================================================
