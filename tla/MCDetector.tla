----------------------------- MODULE MCDetector -----------------------------
(* Instances of Detector: three workspaces, one of them excluded by name.   *)
EXTENDS Detector

CONSTANTS w1, w2, w3

\* No workspace, two, and the same two in the other order among an excluded one.
MCListings == { << >>, <<w1, w2>>, <<w2, w3, w1>> }

MCOneListing == { <<w2, w3, w1>> }

MCInclude == { {w1}, {w2} }

MCExclude == { {w3} }
=============================================================================
