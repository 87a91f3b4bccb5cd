----------------------------- MODULE MCGateWalk -----------------------------
(***************************************************************************)
(* Instances of GateWalk for TLC.  Last = 2 keeps the three gates the code *)
(* treats specially: G0, the build gate and the release gate.  Last = 3    *)
(* adds an ordinary gate.                                                  *)
(***************************************************************************)
EXTENDS GateWalk, TLC

CONSTANTS t1, t2

TreeSymmetry == Permutations({t1, t2})
=============================================================================
