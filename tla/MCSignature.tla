----------------------------- MODULE MCSignature -----------------------------
(* States of two files and up to two signatures. *)
EXTENDS Signature, TLC

MCSigKeys == {"_sigs/1", "_sigs/2"}

(* "a/*" and "b/y" are paths of filters, "a" the one of "a/**" *)
MCGlob == ("" :> {}) @@ ("a" :> {}) @@ ("a/*" :> {"a/x"}) @@ ("b/y" :> {"b/y"})
            @@ ("_sigs/1" :> {"_sigs/1"})
MCUnder == ("" :> {}) @@ ("a" :> {"a/x"}) @@ ("a/*" :> {"a/x"})
            @@ ("b/y" :> {"b/y"}) @@ ("_sigs/1" :> {"_sigs/1"})

Plain(v) == [kind |-> "plain", text |-> v]
File(k, v) == [key |-> k, value |-> Plain(v)]
Tree(p) == [path |-> p, tree |-> TRUE]
Name(p) == [path |-> p, tree |-> FALSE]

Includes == {<<Tree("a")>>, <<Name("a/*"), Name("b/y")>>, <<Name("b/y")>>, <<Tree("")>>}
Excludes == {<<>>, <<Name("b/y")>>, <<Name("a/*"), Tree("")>>}
Signed == SUBSET {File("a/x", "v"), File("b/y", "v")}

Sigs ==
  [kind : {"sig"}, include : Includes, exclude : Excludes, signed : Signed,
   alg : {"ES256"}, key : {"trusted"}]
Odd ==
  {[kind |-> k, include |-> <<Tree("a")>>, exclude |-> <<>>,
    signed |-> {File("a/x", "v")}, alg |-> a, key |-> t] :
     k \in {"sig", "nojson", "noheaders", "nopvs", "badcerts"},
     a \in {"RS256", "HS256"}, t \in {"trusted", "other"}}

MCInputs ==
  LET files == {<<File("a/x", v), File("b/y", "v")>> : v \in {"v", "w"}}
      first == {<<[key |-> "_sigs/1", value |-> s]>> : s \in Sigs \cup Odd}
      second == {<<[key |-> "_sigs/2", value |-> s]>> :
                   s \in {t \in Sigs : t.exclude = <<>>}} \cup {<<>>}
  IN  {f \o s \o t : f \in files, s \in first, t \in second}
        \cup {s \o f : f \in files, s \in first} \cup files \cup {<<>>}
=============================================================================
