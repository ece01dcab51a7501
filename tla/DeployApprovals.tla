--------------------------- MODULE DeployApprovals ---------------------------
(***************************************************************************)
(* backend/slack_webhook.py: clicks on the approve and reject buttons of a *)
(* deployment message.  The handler keeps the votes in a JSON file and in  *)
(* the approvals table, and dispatches the production workflow.  It awaits *)
(* nothing after it has read the file, so clicks do not interleave, but    *)
(* every call it makes may raise.                                          *)
(***************************************************************************)
EXTENDS Integers, Sequences, SequencesExt, FiniteSets

CONSTANTS
    Voters, Commits,
    RequiredApprovals,  \* REQUIRED_APPROVALS
    MaxClicks,          \* bound: clicks
    MaxLosses           \* bound: hosts replaced, with /tmp

ASSUME ApprovalAssumption == RequiredApprovals \in Nat /\ MaxClicks \in Nat /\ MaxLosses \in Nat

Buttons == {"approved", "rejected"}

VARIABLES
    votes,          \* APPROVAL_FILE: the lists of each commit
    handler,        \* the click being handled: where it is, and the votes it has loaded
    approvalRows,   \* the approvals table
    dispatched,     \* commits whose deploy-prod workflow was dispatched
    clicks, losses

approvalVars == <<votes, handler, approvalRows, dispatched, clicks, losses>>

NoVotes == [k \in Commits |-> [d \in Buttons |-> <<>>]]
Waiting == [at |-> "waiting"]

ApprovalInit ==
    /\ votes = NoVotes /\ handler = Waiting
    /\ approvalRows = {} /\ dispatched = {}
    /\ clicks = 0 /\ losses = 0

\* Faulty variant of Voted: a second click counts again.
VotedAgain(list, v) == Append(list, v)

\* append unless the user is in the list
Voted(list, v) == IF v \in ToSet(list) THEN list ELSE Append(list, v)

\* the signature holds; load_approvals, setdefault and the vote in memory
Click(v, k, d) ==
    /\ handler = Waiting /\ clicks < MaxClicks
    /\ clicks' = clicks + 1
    /\ handler' = [at |-> IF v \in ToSet(votes[k][d]) THEN "post" ELSE "log",
                   voter |-> v, commit |-> k, decision |-> d,
                   loaded |-> [votes EXCEPT ![k][d] = Voted(@, v)]]
    /\ UNCHANGED <<votes, approvalRows, dispatched, losses>>

Goto(at, next) == handler.at = at /\ handler' = [handler EXCEPT !.at = next]

\* log_approval
LogApproval ==
    /\ Goto("log", "post")
    /\ approvalRows' = approvalRows \cup {<<handler.commit, handler.voter, handler.decision>>}
    /\ UNCHANGED <<votes, dispatched, clicks, losses>>

\* post_thread_update; log_alert and the post change nothing here but may raise
PostUpdate ==
    /\ Goto("post", "save")
    /\ UNCHANGED <<votes, approvalRows, dispatched, clicks, losses>>

Approvers(lists) == Len(lists["approved"])

\* save_approvals, and which of the three posts to response_url follows
SaveApprovals ==
    /\ handler.at = "save"
    /\ votes' = handler.loaded
    /\ handler' = [handler EXCEPT !.at =
                       IF Approvers(handler.loaded[handler.commit]) >= RequiredApprovals
                       THEN "dispatch" ELSE "reply"]
    /\ UNCHANGED <<approvalRows, dispatched, clicks, losses>>

\* the post to response_url and trigger_github_workflow
Dispatch ==
    /\ handler.at = "dispatch"
    /\ dispatched' = dispatched \cup {handler.commit}
    /\ handler' = Waiting
    /\ UNCHANGED <<votes, approvalRows, clicks, losses>>

Reply ==
    /\ handler.at = "reply" /\ handler' = Waiting
    /\ UNCHANGED <<votes, approvalRows, dispatched, clicks, losses>>

\* any of the calls raises: what it had done stays done, the rest is left out
HandlerRaises ==
    /\ handler.at \in {"log", "post", "save", "dispatch", "reply"}
    /\ handler' = Waiting
    /\ UNCHANGED <<votes, approvalRows, dispatched, clicks, losses>>

\* the host is replaced: /tmp/approvals.json is gone, the table is not
LoseFile ==
    /\ losses < MaxLosses /\ losses' = losses + 1
    /\ votes' = NoVotes /\ handler' = Waiting
    /\ UNCHANGED <<approvalRows, dispatched, clicks>>

ApprovalNext ==
    \/ \E v \in Voters, k \in Commits, d \in Buttons : Click(v, k, d)
    \/ LogApproval \/ PostUpdate \/ SaveApprovals \/ Dispatch \/ Reply \/ HandlerRaises \/ LoseFile

ApprovalSpec == ApprovalInit /\ [][ApprovalNext]_approvalVars

-----------------------------------------------------------------------------
ApprovalTypeOK ==
    /\ votes \in [Commits -> [Buttons -> Seq(Voters)]]
    /\ approvalRows \subseteq Commits \X Voters \X Buttons
    /\ dispatched \subseteq Commits
    /\ clicks \in 0 .. MaxClicks /\ losses \in 0 .. MaxLosses
    /\ handler # Waiting =>
          /\ handler.at \in {"log", "post", "save", "dispatch", "reply"}
          /\ handler.loaded \in [Commits -> [Buttons -> Seq(Voters)]]

\* The workflow is dispatched for a commit only when REQUIRED_APPROVALS different people have
\* a row of approval for it, whatever raised half way and even if the file was lost between.
DispatchedIsApproved ==
    \A k \in dispatched :
        Cardinality({v \in Voters : <<k, v, "approved">> \in approvalRows}) >= RequiredApprovals
==============================================================================
