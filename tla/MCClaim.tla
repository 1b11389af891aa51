------------------------------ MODULE MCClaim --------------------------------
(* Three devices: one that registers itself and may get an owner at once,   *)
(* one with external credentials and a connection that changes at any step, *)
(* and one whose storage may be full.                                       *)
EXTENDS Claim

MCSetups ==
    {[External |-> FALSE, AutoTok |-> TRUE, HasMeta |-> TRUE, Flaky |-> FALSE, CutWrites |-> FALSE],
     [External |-> TRUE, AutoTok |-> FALSE, HasMeta |-> FALSE, Flaky |-> TRUE, CutWrites |-> FALSE],
     [External |-> FALSE, AutoTok |-> FALSE, HasMeta |-> TRUE, Flaky |-> TRUE, CutWrites |-> TRUE]}
==============================================================================
