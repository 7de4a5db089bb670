---------------------------- MODULE MCEngineCore ----------------------------
(* Instances of EngineCore for TLC. *)
EXTENDS EngineCore, TLC
CONSTANTS a, b, c, d

\* A long prompt, one the cache supplies half of, a short one, one with a grammar.
MCPrompt == [r \in Req |-> ((a :> 5) @@ (b :> 4) @@ (c :> 1) @@ (d :> 2))[r]]
MCMaxTokens == [r \in Req |-> ((a :> 1) @@ (b :> 3) @@ (c :> 1) @@ (d :> 2))[r]]
MCHit == [r \in Req |-> IF r = b THEN 2 ELSE 0]
MCPublication == [r \in Req |-> IF r = a THEN {2} ELSE {}]
MCDrafts == <<2, 2, 1>>
MCFewDrafts == <<2, 1>>
=============================================================================
