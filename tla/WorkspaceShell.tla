---------------------------- MODULE WorkspaceShell ----------------------------
(***************************************************************************)
(* The chat surface: the tabs of frontend/src/App.jsx and the in-memory    *)
(* workspace of backend/api/workspace.py, of which every server process    *)
(* has its own. A tab keeps copies of what it was last told, does not      *)
(* cancel or number its fetches, and takes answers as they come. Of a      *)
(* conversation are kept the posts, files and notes added to the seeded    *)
(* ones.                                                                   *)
(***************************************************************************)
EXTENDS Integers, Sequences, FiniteSets, TLC

CONSTANTS
    Tabs,           \* browser tabs
    Servers,        \* processes of the web server
    SeedChats,      \* conversations of _seed_state
    ProjectIds, Files,
    FirstProject, FirstChat,    \* the active ones of _seed_state
    MaxEvents,      \* bound: clicks of users, fetches lost on the way and restarts
    MaxUnderWay     \* bound: fetches of one tab that overlap

Unset == "none"

ASSUME ShellAssumption ==
    /\ FirstChat \in SeedChats /\ FirstProject \in ProjectIds
    /\ Unset \notin Servers
    /\ MaxEvents \in Nat /\ MaxUnderWay \in Nat

VARIABLES
    workspace,      \* _STATE of each process
    tab,            \* the state of MainShell and of the composer of ChatUI in each tab
    fetches,        \* the fetches of all tabs, in the order they were sent
    events,
    disturbed       \* history: tabs whose fetches overlapped, failed, were served by two
                    \* processes or by one that had served another tab or restarted

shellVars == <<workspace, tab, fetches, events, disturbed>>

Anywhere == "anywhere"      \* what is typed need not go to one chat
Draft(n) == "draft-" \o ToString(n)     \* the chat that call n creates
EmptyChat == [posts |-> <<>>, files |-> {}, notes |-> <<>>]

SeedUnread(c) == IF c = "villa-ops" THEN 2 ELSE IF c = "facade-review" THEN 1 ELSE 0
Seed ==
    [conversations |-> [c \in SeedChats |-> EmptyChat], badges |-> [c \in SeedChats |-> SeedUnread(c)],
     project |-> FirstProject, chat |-> FirstChat, microphone |-> FALSE]

NotLoaded ==
    [conversations |-> <<>>, badges |-> <<>>, project |-> Unset, chat |-> Unset,
     microphone |-> FALSE, meant |-> Unset]

FetchOf(t, op, chat, arg, meant) ==
    [tab |-> t, op |-> op, chat |-> chat, arg |-> arg, meant |-> meant,
     stage |-> "sent", at |-> Unset, caught |-> Unset, answer |-> Unset]

\* some processes run, and every open tab has asked for the shell when it was mounted
ShellInit ==
    /\ \E up \in (SUBSET Servers) \ {{}} : workspace = [p \in up |-> Seed]
    /\ tab = [t \in Tabs |-> NotLoaded]
    /\ \E order \in UNION {[1 .. n -> Tabs] : n \in 1 .. Cardinality(Tabs)} :
          /\ Cardinality({order[i] : i \in DOMAIN order}) = Len(order)
          /\ fetches = [i \in DOMAIN order |-> FetchOf(order[i], "shell", Unset, Unset, Unset)]
    /\ events \in 0 .. MaxEvents
    /\ disturbed = {}

Up == DOMAIN workspace

Put(f, key, value) == [k \in DOMAIN f \cup {key} |-> IF k = key THEN value ELSE f[k]]

-----------------------------------------------------------------------------
(* What a user does in a tab.                                              *)

UnderWay(t) == {n \in DOMAIN fetches : fetches[n].tab = t /\ fetches[n].stage \notin {"done", "failed"}}
Awaiting(t) == UnderWay(t) # {}

\* ChatUI, and with it the text of its composer, is there when it has a chat to show
Shows(view) == view.project # Unset /\ view.chat \in DOMAIN view.conversations
Rendered(view) == IF Shows(view) THEN view ELSE [view EXCEPT !.meant = Unset]

Send(t, op, chat, arg, meant, view) ==
    /\ events < MaxEvents /\ Cardinality(UnderWay(t)) < MaxUnderWay
    /\ events' = events + 1
    /\ fetches' = Append(fetches, FetchOf(t, op, chat, arg, meant))
    /\ tab' = [tab EXCEPT ![t] = Rendered(view)]
    /\ disturbed' = IF Awaiting(t) THEN disturbed \cup {t} ELSE disturbed
    /\ UNCHANGED workspace

Opening(t) == \E n \in UnderWay(t) : fetches[n].op = "create"

\* a text begun while a new chat is opening may end up there
Begun(t) == IF tab[t].meant # Unset THEN tab[t].meant ELSE IF Opening(t) THEN Anywhere ELSE tab[t].chat

Type(t) ==
    /\ Shows(tab[t]) /\ tab[t].meant = Unset
    /\ tab' = [tab EXCEPT ![t].meant = Begun(t)]
    /\ UNCHANGED <<workspace, fetches, events, disturbed>>

ChangeProject(t, p) ==
    p \in ProjectIds /\ tab[t].project # Unset /\ Send(t, "project", Unset, p, Unset, [tab[t] EXCEPT !.project = p])

\* the user sees what was typed before in the chat now selected
Selected(view, c) ==
    [view EXCEPT !.chat = c, !.meant = IF @ = Unset THEN Unset ELSE c]

SelectChat(t, c) ==
    c \in DOMAIN tab[t].badges /\ Send(t, "read", c, Unset, Unset, Selected(tab[t], c))

NewChat(t) ==
    /\ tab[t].project # Unset
    /\ Send(t, "create", Unset, tab[t].project, Unset,
            [tab[t] EXCEPT !.meant = IF @ = Unset THEN Unset ELSE Anywhere])

SubmitText(t) ==
    /\ Shows(tab[t]) /\ tab[t].meant # Unset
    /\ Send(t, "message", tab[t].chat, tab[t].project,
            IF t \in disturbed THEN Anywhere ELSE tab[t].meant, [tab[t] EXCEPT !.meant = Unset])

\* the name of the file is added to the text
AttachFile(t, f) ==
    /\ Shows(tab[t])
    /\ Send(t, "attach", tab[t].chat, f, Unset,
            [tab[t] EXCEPT !.meant = Begun(t)])

ToggleMicrophone(t) ==
    Shows(tab[t]) /\ Send(t, "microphone", Unset, ~tab[t].microphone, Unset, tab[t])

ActOnMessage(t) ==
    Shows(tab[t]) /\ Send(t, "action", tab[t].chat, Unset, Unset, tab[t])

-----------------------------------------------------------------------------
(* The handlers; each change is made under the lock of the state.          *)

Serves(n, p, op) == fetches[n].stage = "sent" /\ fetches[n].op = op /\ p \in Up

Served(t, p) == \E m \in DOMAIN fetches : fetches[m].tab = t /\ fetches[m].at = p
Stray(t, p) == IF \E q \in Up \ {p} : Served(t, q) THEN {t} ELSE {}

Change(n, p, stage, state) ==
    LET t == fetches[n].tab IN
    /\ workspace' = [workspace EXCEPT ![p] = state]
    /\ fetches' = [fetches EXCEPT ![n].stage = stage, ![n].at = p]
    /\ disturbed' = disturbed \cup Stray(t, p) \cup {u \in Tabs \ {t} : Served(u, p)}
    /\ UNCHANGED <<tab, events>>

Known(n, p) == fetches[n].chat \in DOMAIN workspace[p].conversations

SetActiveProject(n, p) ==
    Serves(n, p, "project") /\ Change(n, p, "handled", [workspace[p] EXCEPT !.project = fetches[n].arg])

Opened(state, draft) ==
    [state EXCEPT !.conversations = Put(@, draft, EmptyChat), !.badges = Put(@, draft, 0), !.chat = draft]

CreateChat(n, p) ==
    Serves(n, p, "create") /\ Change(n, p, "handled", Opened(workspace[p], Draft(n)))

\* Faulty variant of Active: the selection is not kept.
ActiveUnkept(state, chat) == [state EXCEPT !.badges[chat] = 0]

Active(state, chat) == [state EXCEPT !.chat = chat, !.badges[chat] = 0]

MarkChatRead(n, p) ==
    Serves(n, p, "read") /\ Known(n, p) /\ Change(n, p, "handled", Active(workspace[p], fetches[n].chat))

Posted(state, chat, post) == [state EXCEPT !.conversations[chat].posts = Append(@, post)]

SubmitMessage(n, p) ==
    /\ Serves(n, p, "message") /\ Known(n, p)
    /\ Change(n, p, "posted", Posted(workspace[p], fetches[n].chat, <<n, "user">>))

\* the reply is posted under the lock again
AssistantReply(n) ==
    LET p == fetches[n].at IN
    /\ fetches[n].stage = "posted"
    /\ Change(n, p, "handled", Posted(workspace[p], fetches[n].chat, <<n, "assistant">>))

RegisterAttachment(n, p) ==
    /\ Serves(n, p, "attach") /\ Known(n, p)
    /\ Change(n, p, "handled",
              [workspace[p] EXCEPT !.conversations[fetches[n].chat].files = @ \cup {fetches[n].arg}])

SetMicrophone(n, p) ==
    Serves(n, p, "microphone") /\ Change(n, p, "handled", [workspace[p] EXCEPT !.microphone = fetches[n].arg])

\* the note goes to the chat that was active, whatever the message it is about: which
\* one is looked up before the lock is taken
ChooseActive(n, p) ==
    /\ Serves(n, p, "action")
    /\ fetches' = [fetches EXCEPT ![n].stage = "chosen", ![n].at = p, ![n].caught = workspace[p].chat]
    /\ disturbed' = disturbed \cup Stray(fetches[n].tab, p) \cup {u \in Tabs \ {fetches[n].tab} : Served(u, p)}
    /\ UNCHANGED <<workspace, tab, events>>

RecordAction(n) ==
    LET p == fetches[n].at
        c == fetches[n].caught
    IN /\ fetches[n].stage = "chosen"
       /\ Change(n, p, "handled",
                 [workspace[p] EXCEPT !.conversations[c].notes = Append(@, n), !.badges[c] = @ + 1])

NotFound(n, p) ==
    /\ fetches[n].stage = "sent" /\ fetches[n].op \in {"read", "message", "attach"} /\ ~Known(n, p)
    /\ fetches' = [fetches EXCEPT ![n].stage = "failed"]
    /\ disturbed' = disturbed \cup {fetches[n].tab}
    /\ UNCHANGED <<workspace, tab, events>>

\* snapshot: the active ones, and references to the conversations there are
Snapshot(n, p) ==
    /\ \/ Serves(n, p, "shell")
       \/ fetches[n].op = "project" /\ fetches[n].stage = "handled" /\ p = fetches[n].at
    /\ fetches' = [fetches EXCEPT ![n].stage = "caught", ![n].at = p,
                              ![n].caught = [workspace[p] EXCEPT !.conversations = DOMAIN @, !.badges = {}]]
    /\ disturbed' = disturbed \cup Stray(fetches[n].tab, p)
    /\ UNCHANGED <<workspace, tab, events>>

ChatOf(n) == IF fetches[n].op = "create" THEN Draft(n) ELSE fetches[n].chat

\* what the references lead to when the answer is written
Rendering(n, state) ==
    CASE fetches[n].op \in {"shell", "project"} ->
            [fetches[n].caught EXCEPT !.badges = state.badges,
                                    !.conversations = [c \in @ |-> state.conversations[c]]]
      [] fetches[n].op \in {"create", "read", "message"} ->
            [conversation |-> state.conversations[ChatOf(n)], badges |-> state.badges]
      [] fetches[n].op = "attach" -> [conversation |-> state.conversations[ChatOf(n)]]
      [] OTHER -> Unset

Respond(n) ==
    /\ fetches[n].stage = IF fetches[n].op \in {"shell", "project"} THEN "caught" ELSE "handled"
    /\ fetches' = [fetches EXCEPT ![n].stage = "answered", ![n].caught = Unset,
                              ![n].answer = Rendering(n, workspace[fetches[n].at])]
    /\ UNCHANGED <<workspace, tab, events, disturbed>>

\* a process that starts again has the seeded workspace; its fetches get no answer
Restart(p) ==
    /\ events < MaxEvents
    /\ events' = events + 1
    /\ workspace' = [workspace EXCEPT ![p] = Seed]
    /\ fetches' = [n \in DOMAIN fetches |->
                   IF fetches[n].at = p /\ fetches[n].stage \in {"posted", "chosen", "handled", "caught"}
                   THEN [fetches[n] EXCEPT !.stage = "failed", !.caught = Unset] ELSE fetches[n]]
    /\ disturbed' = disturbed \cup {t \in Tabs : Served(t, p)}
    /\ UNCHANGED tab

\* a call or its answer is lost; a handler that has begun goes on
Lose(n) ==
    /\ events < MaxEvents
    /\ events' = events + 1
    /\ fetches[n].stage \in {"sent", "handled", "caught", "answered"}
    /\ fetches' = [fetches EXCEPT ![n].stage = "failed", ![n].caught = Unset, ![n].answer = Unset]
    /\ disturbed' = disturbed \cup {fetches[n].tab}
    /\ UNCHANGED <<workspace, tab>>

-----------------------------------------------------------------------------
(* The answers in the tab, whose meaning does not depend on what was done  *)
(* in it meanwhile.                                                        *)

SynchroniseShell(view, answer) ==
    [view EXCEPT !.conversations = answer.conversations, !.badges = answer.badges,
                 !.project = answer.project, !.chat = answer.chat, !.microphone = answer.microphone]

ApplyConversationUpdate(view, chat, answer) ==
    [view EXCEPT !.conversations = Put(@, chat, answer.conversation), !.badges = answer.badges,
                 !.chat = chat]

Applied(n, view) ==
    CASE fetches[n].op \in {"shell", "project"} -> SynchroniseShell(view, fetches[n].answer)
      [] fetches[n].op \in {"create", "read", "message"} ->
            ApplyConversationUpdate(view, ChatOf(n), fetches[n].answer)
      [] fetches[n].op = "attach" ->
            [view EXCEPT !.conversations = Put(@, ChatOf(n), fetches[n].answer.conversation)]
      [] fetches[n].op = "microphone" -> [view EXCEPT !.microphone = fetches[n].arg]
      [] OTHER -> [view EXCEPT !.chat = fetches[n].chat]

\* a recorded action is followed by opening the chat again
Receive(n) ==
    LET t == fetches[n].tab
        done == [fetches EXCEPT ![n].stage = "done", ![n].answer = Unset]
    IN /\ fetches[n].stage = "answered"
       /\ tab' = [tab EXCEPT ![t] = Rendered(Applied(n, tab[t]))]
       /\ fetches' = IF fetches[n].op = "action" THEN Append(done, FetchOf(t, "read", fetches[n].chat, Unset, Unset))
                   ELSE done
       /\ UNCHANGED <<workspace, events, disturbed>>

User(t) ==
    \/ Type(t) \/ NewChat(t) \/ SubmitText(t) \/ ToggleMicrophone(t) \/ ActOnMessage(t)
    \/ \E p \in ProjectIds : ChangeProject(t, p)
    \/ \E c \in DOMAIN tab[t].badges : SelectChat(t, c)
    \/ \E f \in Files : AttachFile(t, f)

Handle(n, p) ==
    \/ SetActiveProject(n, p) \/ CreateChat(n, p) \/ MarkChatRead(n, p) \/ SubmitMessage(n, p)
    \/ RegisterAttachment(n, p) \/ SetMicrophone(n, p) \/ ChooseActive(n, p) \/ NotFound(n, p)
    \/ Snapshot(n, p)

ShellNext ==
    \/ \E t \in Tabs : User(t)
    \/ \E n \in DOMAIN fetches : AssistantReply(n) \/ RecordAction(n) \/ Respond(n) \/ Receive(n) \/ Lose(n)
    \/ \E n \in DOMAIN fetches, p \in Up : Handle(n, p)
    \/ \E p \in Up : Restart(p)

ShellSpec == ShellInit /\ [][ShellNext]_shellVars

-----------------------------------------------------------------------------
Chats == SeedChats \cup {Draft(n) : n \in DOMAIN fetches}

ShellTypeOK ==
    /\ \A p \in Up : /\ DOMAIN workspace[p].conversations = DOMAIN workspace[p].badges
                          /\ workspace[p].chat \in DOMAIN workspace[p].conversations
                          /\ SeedChats \subseteq DOMAIN workspace[p].conversations
                          /\ workspace[p].project \in ProjectIds
    /\ \A t \in Tabs : /\ DOMAIN tab[t].conversations \subseteq Chats
                       /\ tab[t].meant \in Chats \cup {Unset, Anywhere}
                       /\ tab[t].meant # Unset => Shows(tab[t])
    /\ \A n \in DOMAIN fetches :
          fetches[n].stage \in {"sent", "posted", "chosen", "handled", "caught", "answered", "done", "failed"}
    /\ events \in 0 .. MaxEvents /\ disturbed \subseteq Tabs

\* A message goes to the chat on the screen when it is sent, and the answer to any earlier
\* call may have changed that under the user (App.jsx:53, ChatUI.jsx:172): as long as the
\* fetches of a tab did not overlap or fail and nobody else changed the workspace, a message
\* is posted in the chat it was typed for.
PostedWhereTyped ==
    \A p \in Up, c \in Chats : c \in DOMAIN workspace[p].conversations =>
        \A i \in DOMAIN workspace[p].conversations[c].posts :
            fetches[workspace[p].conversations[c].posts[i][1]].meant \in {c, Anywhere}

\* The tab puts together what it shows from partial answers (App.jsx:31, :42, :157): with
\* nothing under way, and as long as its fetches did not overlap or fail and nobody else
\* changed the workspace, it shows what the server has.
TabsAgree ==
    \A t \in {fetches[n].tab : n \in DOMAIN fetches} \ disturbed : ~Awaiting(t) =>
        \E p \in Up : [workspace[p] EXCEPT !.project = tab[t].project]
                           = [conversations |-> tab[t].conversations, badges |-> tab[t].badges,
                              project |-> tab[t].project, chat |-> tab[t].chat,
                              microphone |-> tab[t].microphone]

\* Messages reach the chat they were typed for and a tab shows what the server has, unless
\* calls of the tab overlapped or failed or somebody else changed the workspace (App.jsx:31-160).
ShellHolds == PostedWhereTyped /\ TabsAgree
==============================================================================
