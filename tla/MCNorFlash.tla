----------------------------- MODULE MCNorFlash -----------------------------
(* Instances of NorFlash for TLC: where the modules' sectors lie.           *)
EXTENDS NorFlash, TLC

CONSTANTS d1, d2, erased, mixed, cp    \* model values

OneModule  == [m \in {0} |-> 0 .. NSec - 1]
TwoModules == 0 :> {0} @@ 1 :> {1}
=============================================================================
