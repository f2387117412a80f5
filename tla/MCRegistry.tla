----------------------------- MODULE MCRegistry -----------------------------
EXTENDS Registry

MCMaxWrites ==
  [t \in Themes |-> CASE t = "tag" -> 6
                      [] t \in {"job", "client"} -> 4
                      [] OTHER -> 3]
MCSubstr == {<<v, v>> : v \in {"n1", "n2", "s1", "s2", "o", "p"}}
MCPrefix == {}
MCButLast == ("" :> "")
MCChecks == {NoCheck, 3}
MCLimitedService == ("l1" :> <<"n1", "s1">> @@ "l2" :> <<"n1", "s1">> @@ "l3" :> <<"n1", "s2">>)
MCTargets == {[serviceNamespace |-> ns[1], service |-> ns[2]] :
                ns \in {<<"n1", "s1">>, <<"n1", "*">>, <<"*", "*">>}}

\* s1 calls s2, and everyone may call s1.
Call == [sources |-> {<<"n1", "s1">>}, destinations |-> {<<"n1", "s2">>}]
Open == [sources |-> {<<"*", "*">>}, destinations |-> {<<"n1", "s1">>}]
MCRules == ("call" :> <<Call>> @@ "open" :> <<Open>>)
MCRoutes == ("both" :> [in |-> <<[id |-> ""] @@ Open>>, out |-> <<[id |-> ""] @@ Call>>])
=============================================================================
