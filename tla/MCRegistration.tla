--------------------------- MODULE MCRegistration ---------------------------
(* Two descriptors, the first without and the second with metadata; the first
   retrieves after the second. *)
EXTENDS Registration

MCSelectedBy == [k \in Keys |-> IF k = "b1" THEN 1 ELSE 2]
MCRetrieveDependencies == [d \in {1, 2} |-> IF d = 1 THEN {2} ELSE {}]
=============================================================================
