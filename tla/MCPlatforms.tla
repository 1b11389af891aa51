----------------------------- MODULE MCPlatforms -----------------------------
(***************************************************************************)
(* Revisions of a device with three platforms: 1 without a runlevel, which *)
(* becomes root, 2 an app with two files, 3 an app, a data platform or one *)
(* without a runlevel.                                                     *)
(***************************************************************************)
EXTENDS Platforms

MCOwner == [f \in Files |-> CASE f = "bsp" -> NoPlat
                              [] f = "one" -> 1
                              [] f \in {"two", "config"} -> 2
                              [] f = "three" -> 3]

MCPlatsOf == [r \in Revs |-> IF r = "deleted" THEN {1, 2} ELSE {1, 2, 3}]

MCConf ==
  [r \in Revs |->
     [p \in Plats |->
        CASE p = 1 -> -1
          [] p = 2 -> RUNLEVEL_APP
          [] p = 3 -> IF r \in {"data", "data changed"} THEN RUNLEVEL_DATA
                      ELSE IF r = "unset" THEN -1 ELSE RUNLEVEL_APP]]

MCContent ==
  [r \in Revs |->
     [f \in Files |->
        CASE f = "three" /\ r = "deleted" -> Absent
          [] f = "config" /\ r = "fewer" -> Absent
          [] f = "two" /\ r \in {"changed", "data changed"} -> 1
          [] f = "three" /\ r = "fewer" -> 1
          [] f = "one" /\ r = "root" -> 1
          [] f = "bsp" /\ r = "bsp" -> 1
          [] OTHER -> 0]]
==============================================================================
