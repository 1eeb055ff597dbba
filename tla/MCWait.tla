------------------------------- MODULE MCWait -------------------------------
(* Instances of Wait: two workspaces.                                       *)
EXTENDS Wait, TLC

CONSTANTS w1, w2

\* Nothing to wait for, two workspaces, one listed twice.
MCListings == { << >>, <<w1, w2>>, <<w1, w1>> }
Past(status) == [createdAt |-> 1, status |-> status, hasChanges |-> FALSE]

\* w1 has no run, an old one or a new one; w2 an old and a new one.
MCHistories ==
  (w1 :> {<< >>, <<Past("errored")>>, <<Past("pending")>>}) @@
  (w2 :> {<<Past("errored"), Past("pending")>>})
=============================================================================
