------------------------------ MODULE MCDelivery ------------------------------
(* Instances of CourseDelivery for TLC.                                      *)
EXTENDS CourseDelivery

CONSTANTS s1, s2, s3

MCFirstModules == 1 :> 1 @@ 2 :> 2

Symmetry == Permutations(Students) \cup Permutations(Requests)
=============================================================================
