------------------------------ MODULE MCObjects ------------------------------
(* Instances of Objects. *)
EXTENDS Objects

MCRevs == {"0", "1", "2", "locals/a"}
MCAtoi == [r \in Revs |-> CASE r = "1" -> 1 [] r = "2" -> 2 [] OTHER -> 0]

(* objects are shared, the last one is bound *)
MCObjsOf ==
  [r \in Revs |-> CASE r = "0" -> {"o1"}
                    [] r = "1" -> {"o1", "o3"}
                    [] r = "2" -> {"o2"}
                    [] OTHER -> {"o2"}]
MCJsonsOf == [r \in Revs |-> CASE r = "1" -> 2 [] r = "2" -> 0 [] OTHER -> 1]

MCTogether ==
  {{"power", "net"}, {"power", "report"}, {"net", "report"},
   {"disk"}, {"object"}, {"step"}}
=============================================================================
