----------------------------- MODULE MCHydrate ------------------------------
(* Instances of Hydrate: two calls over two workspaces and two workers.     *)
EXTENDS Hydrate, TLC

CONSTANTS w1, w2

MCWorkspaces == {w1, w2}

\* Two plans each, so that an old answer and a new one can be told apart.
MCPlansOf == (w1 :> {"w1-old", "w1-new"}) @@ (w2 :> {"w2-old"})

\* Nothing to hydrate, both orders, a workspace listed twice.
MCListings == { << >>, <<w1, w2>>, <<w2, w1>>, <<w1, w2, w1>> }
=============================================================================
