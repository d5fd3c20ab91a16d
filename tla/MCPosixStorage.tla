--------------------------- MODULE MCPosixStorage ---------------------------
(* Constants of the TLC run of PosixStorage. *)
EXTENDS PosixStorage, TLC

mcDirOf == [k \in Key |-> IF k = "rules/default" THEN "rules" ELSE "leaf"]
mcProcs == Permutations(Proc)
=============================================================================
