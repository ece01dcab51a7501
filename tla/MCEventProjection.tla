--------------------------- MODULE MCEventProjection ---------------------------
EXTENDS EventProjection

CONSTANTS s1, ja, jb

\* Two hydrations of one workspace by two jobs, and the promotion of a component
\* that is of no workspace.
DeployedKind == [e \in Events |-> IF e <= 2 THEN Hydrated ELSE "regression.promoted"]
DeployedWorkspace == [e \in Events |-> IF e <= 2 THEN s1 ELSE Nowhere]
DeployedJob == [e \in Events |-> CASE e = 1 -> ja [] e = 2 -> jb [] OTHER -> NoJob]

\* The export of a dataset and a hydration of the same workspace.
MixedKind == [e \in Events |-> IF e = 1 THEN "learning.dataset.exported" ELSE Hydrated]
MixedWorkspace == [e \in Events |-> s1]
MixedJob == [e \in Events |-> IF e = 1 THEN NoJob ELSE ja]
================================================================================
