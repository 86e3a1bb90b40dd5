---------------------------- MODULE MCGeneration ----------------------------
(* Two files that both have a static function f; one also has g. *)
EXTENDS Generation

MCFunctions == [x \in Files |-> IF x = "a.c" THEN {"f", "g"} ELSE {"f"}]
=============================================================================
