------------------------------ MODULE MCHydration ------------------------------
EXTENDS Hydration

CONSTANTS f1, f2, f3, f4, drive, folder, disk

Plain == [dry |-> FALSE, full |-> FALSE, max |-> 0]
Dry == [Plain EXCEPT !.dry = TRUE]
Full == [Plain EXCEPT !.full = TRUE]
One == [Plain EXCEPT !.max = 1]

NightlyOnly == {Plain}
AnyOption == {Plain, Dry, Full, One}

AllDrive == [f \in Files |-> drive]
AllDisk == [f \in Files |-> disk]
TwoWorkspaces == [f \in Files |-> CASE f \in {f1, f2} -> drive [] f = f3 -> folder [] OTHER -> disk]
Kinds == [x \in Sources |-> CASE x = drive -> "drive" [] x = folder -> "public"
                              [] OTHER -> "fs"]

\* Two workspaces, of a Drive and of a folder with a directory.  They share nothing, so a
\* behaviour is one of the workspace whose files are there, or that is written or hydrated
\* first.  Beside the Drive files have one content, and runs are nightly, of the
\* folder or of both.
Chosen(S) ==
    /\ \A f \in Files : SourceOf[f] \notin S => content[f] = Nothing /\ changed[f] = 0
    /\ \A s \in Sources \ S : s \notin todo /\ state[s] = "idle"
Workspaces == {{drive}, {folder, disk}}
OneContent == CHOOSE c \in Contents : TRUE
ContentsIn(S) == IF drive \in S THEN Contents ELSE {OneContent}
BeginChosen(S, o) == \E w \in Workspaces : S \subseteq w /\ Chosen(w) /\ Begin(S, o)

WorkspacesInit ==
    /\ Init
    /\ \E S \in Workspaces :
        Chosen(S) /\ \A f \in Files : content[f] \in ContentsIn(S) \cup {Nothing}

WorkspacesNext ==
    \/ \E S \in Workspaces, f \in Files : \E c \in ContentsIn(S) \cup {Nothing} :
        SourceOf[f] \in S /\ Chosen(S) /\ Edit(f, c)
    \/ \E o \in Options : BeginChosen({drive}, o)
    \/ BeginChosen({folder}, Nightly) \/ BeginChosen({folder, disk}, Nightly)
    \/ Work \/ ItemRaises \/ SourceRaises \/ Crash

WorkspacesSpec ==
    /\ WorkspacesInit /\ [][WorkspacesNext]_vars
    /\ WF_vars(Work \/ ItemRaises \/ SourceRaises)
    /\ SF_vars(BeginChosen({drive}, Nightly)) /\ SF_vars(BeginChosen({folder}, Nightly))
================================================================================
