----------------------------- MODULE MCEnvStore -----------------------------
(* The three kinds of environment with a few revisions.                    *)
EXTENDS EnvStore
=============================================================================
