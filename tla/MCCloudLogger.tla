--------------------------- MODULE MCCloudLogger ---------------------------
(* Revision 1 has a log of Pantavisor, written in pieces, with empty lines, *)
(* lines the buffer holds and lines that fill it; revision 0 has a message *)
(* of an app, which the skip list names.                                   *)
EXTENDS CloudLogger

MCMaxLen ==
    [f \in Files |-> [g \in 0..MaxGen |->
        CASE f = <<1, "own">> -> IF g = 0 THEN 4 ELSE 1
          [] f = <<0, "app">> -> IF g = 0 THEN 3 ELSE 0
          [] OTHER -> 0]]

MCMaxSize == [n \in Names |-> IF n \in Own THEN 3 ELSE 2]
============================================================================
