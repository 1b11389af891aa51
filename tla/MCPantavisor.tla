---------------------------- MODULE MCPantavisor ----------------------------
(***************************************************************************)
(* Instances of Pantavisor for TLC: the factory revision, two revisions    *)
(* from the cloud and one local revision.                                  *)
(***************************************************************************)
EXTENDS Pantavisor

\* atoi("locals/a") is 0.
MCRevNum == [r \in Revs |-> CASE r = "1" -> 1 [] r = "2" -> 2 [] OTHER -> 0]
=============================================================================
