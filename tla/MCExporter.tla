----------------------------- MODULE MCExporter -----------------------------
(* Instances of Exporter: scrapes over two workspaces.                      *)
EXTENDS Exporter, TLC

CONSTANTS w1, w2, w3

MCWorkspaces == {w1, w2, w3}

MCNames == {w1, w2}

Ended(n, ok, changes) ==
  [id |-> n, createdAt |-> n, hasChanges |-> changes,
   status |-> IF ok THEN "FinishedOK" ELSE "FinishedNotOK"]

\* A drift in one workspace, no drift detection in the others.
MCPlansOf == (w1 :> {Ended(1, TRUE, TRUE)}) @@ (w2 :> {}) @@ (w3 :> {})

\* A workspace alone, and another one beside an excluded one.
MCListings == { <<w1>>, <<w2, w3>> }

MCOneListing == { <<w1>> }

MCOneWorkspace == {w1}

MCOnePlan == (w1 :> {Ended(1, TRUE, TRUE)})
=============================================================================
