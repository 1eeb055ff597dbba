----------------------------- MODULE MCRotation -----------------------------
(* Instances of Rotation: four workspaces, the first of them broken.        *)
EXTENDS Rotation

CONSTANTS w1, w2, w3, w4

MCWorkspaces == {w1, w2, w3, w4}

MCListings == { <<w1, w2, w3, w4>> }
=============================================================================
