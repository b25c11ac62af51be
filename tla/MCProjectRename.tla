-------------------------- MODULE MCProjectRename ---------------------------
(* Model checking of ProjectRename: two files of two places each; the     *)
(* second file has the new symbol already.                                *)
EXTENDS ProjectRename

CONSTANTS f1, f2
MCFiles == {f1, f2}
MCPlaces == {1, 2}
MCNarrowed == {1}
MCText0 == [f \in MCFiles |-> IF f = f1 THEN <<"old", "old">> ELSE <<"old", "new">>]
=============================================================================
