------------------------------ MODULE MCProdCon ------------------------------
(* ProdCon for TLC. *)
EXTENDS ProdCon

MCVal == [s \in Sem |-> CASE s = "mutex" -> 1 [] s = "vide" -> N [] OTHER -> 0]

\* Each core is named for the context that is created first on it; what has no core of
\* its own comes second on that of c1.
CONSTANTS c1

MCCoreOf == [x \in Ctx |-> IF x \in Core THEN x ELSE c1]
MCFirst  == [c \in Core |-> c]
=============================================================================
