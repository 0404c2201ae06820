------------------------------ MODULE MC_TypeDir ------------------------------
(* Instantiation of TypeDir for TLC: two type directories, one with three  *)
(* devices (five tree shapes), one with two (two shapes).                 *)
EXTENDS TypeDir

CONSTANTS structure, system

MCTypes == {structure, system}

MCTreeKeys == [t \in MCTypes |-> IF t = structure THEN {1, 2, 3} ELSE {1, 2}]
=============================================================================
