------------------------------ MODULE MCDir211 ------------------------------
(* Dir211 for TLC: names of the lengths that matter, in chunks of a few.    *)
EXTENDS Dir211

MCNeed == [n \in {".", "a"} |-> 2] @@ [n \in {"..", "c"} |-> 3] @@ ("d" :> 4)
=============================================================================
