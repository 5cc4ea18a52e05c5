-------------------------------- MODULE MCContent --------------------------------
(* Content with three repositories, one of them unlisted and one a name the      *)
(* masking engine takes for personal data, in every deployment main.run can start *)
(* without the filter, and with it in those that have identity and policy.       *)
EXTENDS Content, TLC

CONSTANTS a, b, p

AllDeployments ==
  {d \in [identity : BOOLEAN, governance : BOOLEAN, masking : BOOLEAN, obo : BOOLEAN] :
     d.masking => d.governance}

Absent == [repo |-> NoRepo, api |-> FALSE]
Web(r) == [repo |-> r, api |-> FALSE]
Api(r) == [repo |-> r, api |-> TRUE]
Entry(refs, personal) ==
  [object |-> TRUE, personal |-> personal,
   refs |-> [f \in {ItemFields[i] : i \in DOMAIN ItemFields} |->
               IF f \in DOMAIN refs THEN refs[f] ELSE Absent]]
Named(r) == Entry([html_url |-> Web(r)], FALSE)
Full(r, personal) == Entry([full_name |-> Web(r), url |-> Web(r)], personal)
Issue(r) == Entry([repository_url |-> Api(r), html_url |-> Web(r)], FALSE)
Words == [Entry(<<>>, TRUE) EXCEPT !.object = FALSE]

Text(shape, entries) == [type |-> "text", shape |-> shape, entries |-> entries]
Item(type) == [type |-> type, shape |-> "broken", entries |-> {Words}]

SomeResponses ==
  {<<Text("list", {Named(a), Full(b, TRUE), Full(p, FALSE)})>>,
   <<Text("list", {Words, Named(b)}), Item("image"), Text("list", {Full(a, TRUE)})>>,
   <<Text("object", {Full(b, FALSE)}), Item("other")>>,
   <<Text("object", {Named(p)})>>,
   <<Text("list", {})>>,
   <<Text("list", {Issue(a), Issue(b)}), Text("scalar", {Words})>>,
   <<Text("broken", {Words}), Item("resource")>>}

Ask(tool, refs) == [tool |-> tool, args |-> [refs |-> refs]]
FilteredCalls ==
  {Ask("list", {Web(a)}), Ask("list", {Web(b)}), Ask("single", {Web(b)}),
   Ask("single", {Web(p)}), Ask("single", {Api(a)}), Ask("other", {Web(a), Web(b)})}

(* With the filter on, the deployments of the README: identity, no exchange *)
SomeSetups ==
  [deploy : AllDeployments,
   filter : {[on |-> FALSE, mode |-> "allowlist", scoped |-> FALSE, last |-> FALSE]},
   calls : {{Ask("other", {Web(b)})}}] \cup
  [deploy : {d \in AllDeployments : d.governance /\ d.identity /\ ~d.obo},
   filter : {[on |-> TRUE, mode |-> "allowlist", scoped |-> FALSE, last |-> FALSE]} \cup
            [on : {TRUE}, mode : {"allowlist", "blocklist"}, scoped : {TRUE}, last : BOOLEAN],
   calls : {FilteredCalls}]
==================================================================================
