------------------------------ MODULE MCGovernance ------------------------------
(* A caller in a group and one without; two servers, one of whose names ends    *)
(* with an underscore, and one tool name that begins with one.  The files have   *)
(* up to two of the rules below, in either order, and some must be refused.     *)
EXTENDS Governance

A == <<"a">>
B == <<"b", "_">>
D == <<"d">>
x == <<"x">>
ux == <<"_", "x">>
axb == <<"a", "x", "b">>

SomeCallers == {[user |-> "u", groups |-> {"g"}], [user |-> "v", groups |-> {}]}

SomeTools == A :> {x, axb} @@ B :> {x, ux} @@ D :> {x}

SomeNames ==
  {NamespaceTool(s, t) : s \in {A, B, D}, t \in {x, ux, axb}} \cup {x, <<"_", "_", "x">>}

Rule(id, effect, users, groups, name, tools) ==
  [id |-> id, effect |-> effect, users |-> users, groups |-> groups,
   access |-> {[name |-> name, tools |-> tools]}]

SomeRules ==
  { Rule("r1", "allow", {}, {"g"}, A, {}),
    Rule("r2", "deny", {"u"}, {}, <<"*">>, {<<"x", "*">>}),
    Rule("r3", "allow", {}, {}, A, {<<"*", "b">>, x, <<>>}),
    Rule("r4", "allow", {"anonymous"}, {}, <<"b", "*">>, {<<"*">>}),
    Rule("r4", "deny", {}, {"*"}, A, {<<"a", "*">>}),
    Rule("r5", "allow", {}, {}, D, {}),
    Rule("r6", "allow", {}, {}, A, {<<"a", "*", "b">>}) }

Server(n, e) == [name |-> n, exchange |-> e]

SomeServers == {<<Server(A, FALSE), Server(B, FALSE)>>, <<Server(A, TRUE)>>,
                <<Server(A, FALSE), Server(A, FALSE)>>}

SomeFiles ==
  [default : {"allow", "deny"}, identity : BOOLEAN, servers : SomeServers,
   rules : {<<>>} \cup {<<r>> : r \in SomeRules} \cup (SomeRules \X SomeRules)]
=================================================================================
