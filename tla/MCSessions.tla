---------------------------- MODULE MCSessions ----------------------------
(* Instances of Sessions for TLC.  The slots for requests are               *)
(* interchangeable in every safety property.                                *)
EXTENDS Sessions, TLC

Symmetry == Permutations(Request)
=============================================================================
