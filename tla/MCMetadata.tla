------------------------------ MODULE MCMetadata ------------------------------
(***************************************************************************)
(* User metadata: two settings, one of them of a platform and also kept    *)
(* with the credentials; a value that is too large to be loaded and one    *)
(* that is also what a write leaves that is cut short.  Device metadata:   *)
(* fragments of 1 and 2, so that a buffer of 7 holds all pairs.            *)
(***************************************************************************)
EXTENDS Metadata

MCFragLen == [v \in DevValues |-> v]
==============================================================================
