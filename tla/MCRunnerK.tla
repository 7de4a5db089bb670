----------------------------- MODULE MCRunnerK -----------------------------
(* An instance of RunnerK for TLC: two requests, alone or together. *)
EXTENDS RunnerK, TLC
CONSTANTS p, q, one

Few == 1
Many == 2
MCShapes == {p :> Many, q :> Many, (p :> Few) @@ (q :> Few)}
=============================================================================
