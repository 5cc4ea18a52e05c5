------------------------------- MODULE Governance -------------------------------
(***************************************************************************)
(* From the policy file to the decision on a call: the file is loaded and     *)
(* validated (governance/loader.py), the gateway starts or refuses to         *)
(* (main.py), and then lists tools and calls them for callers it              *)
(* authenticates, by the rules of the file (governance/engine.py, hook.py,    *)
(* proxy_server.py) and by the names that say which server owns a tool        *)
(* (proxy/tool_router.py).                                                    *)
(*                                                                          *)
(* Names and patterns are sequences of characters, because routing and        *)
(* matching take them apart.  What else may end a call is in ProxyCall.       *)
(***************************************************************************)
EXTENDS Naturals, Sequences, FiniteSets, SequencesExt

CONSTANTS
  Files,      (* parsed policy files: default, identity, servers, rules       *)
  Callers,    (* identities of valid tokens: user, groups                     *)
  Tools,      (* per server name: the names of the tools it publishes         *)
  Names,      (* the names that are called                                    *)
  Default,    (* the server of MCP_UPSTREAM_URL                               *)
  Characters, (* that names are made of                                        *)
  Star, Underscore,
  None        (* no file, no valid token, no rule                             *)

(* A server name, which ServerDefinition wants non-empty, or a tool name that   *)
(* parse_tool can give back                                                    *)
IsName(n) == n \in Seq(Characters) /\ n # <<>>

ServerNames(f) == {f.servers[i].name : i \in DOMAIN f.servers}

(* What the data classes of governance/config.py want of a rule *)
IsRule(r) ==
  /\ r # None /\ r.id # None /\ r.effect \in {"allow", "deny"}
  /\ \A a \in r.access : \A p \in a.tools : p \in Seq(Characters \cup {Star})

ASSUME GovernanceAssumption ==
  /\ Underscore \in Characters /\ None \notin Seq(Characters)
  /\ None \notin [server : Seq(Characters), tool : Seq(Characters)]
  /\ \A f \in Files : \A s \in ServerNames(f) : IsName(s) /\ \A t \in Tools[s] : IsName(t)
  /\ \A f \in Files : /\ f.default \in {"allow", "deny"}
                     /\ f.rules \in Seq({f.rules[i] : i \in DOMAIN f.rules})
                     /\ \A i \in DOMAIN f.rules : IsRule(f.rules[i])
  /\ IsName(Default) /\ \A t \in Tools[Default] : IsName(t)

VARIABLES
  env,        (* MCP_RELAX_STARTUP_CHECKS, MCP_STRICT_SECURITY, OKTA_*        *)
  file,       (* MCP_POLICY_FILE                                              *)
  phase,
  caller,     (* who sent the last request                                    *)
  listing,    (* the tools listed for that caller, None before the listing     *)
  last        (* the last call and what became of it                          *)

vars == <<env, file, phase, caller, listing, last>>
--------------------------------------------------------------------------------
(* Names and patterns *)

Separator == <<Underscore, Underscore>>

NamespaceTool(server, tool) == server \o Separator \o tool

Splits(name) == {i \in 1..(Len(name) - 1) : SubSeq(name, i, i + 1) = Separator}

(* parse_tool: at the first separator, with something on either side; None is *)
(* a RoutingError                                                             *)
ParseTool(name) ==
  LET i == CHOOSE n \in Splits(name) : \A m \in Splits(name) : n <= m
  IN IF Splits(name) = {} \/ i = 1 \/ i + 2 > Len(name) THEN None
     ELSE [server |-> SubSeq(name, 1, i - 1), tool |-> SubSeq(name, i + 2, Len(name))]

Stars(s) == {i \in DOMAIN s : s[i] = Star}

(* _VALID_WILDCARD_RE, for a pattern with a star *)
ValidWildcard(p) == p = <<Star>> \/ (Cardinality(Stars(p)) = 1 /\ Stars(p) \subseteq {1, Len(p)})

(* Mutant: the two ends are confused *)
MatchesPatternBackwards(p, v) ==
  CASE p = <<Star>> -> TRUE
    [] p # <<Star>> /\ Len(p) \in Stars(p) -> IsSuffix(Front(p), v)
    [] Len(p) \notin Stars(p) /\ 1 \in Stars(p) -> IsPrefix(Tail(p), v)
    [] {1, Len(p)} \cap Stars(p) = {} -> p = v

(* _matches_pattern *)
MatchesPattern(p, v) ==
  CASE p = <<Star>> -> TRUE
    [] p # <<Star>> /\ Len(p) \in Stars(p) -> IsPrefix(Front(p), v)
    [] Len(p) \notin Stars(p) /\ 1 \in Stars(p) -> IsSuffix(Tail(p), v)
    [] {1, Len(p)} \cap Stars(p) = {} -> p = v
--------------------------------------------------------------------------------
(* The policy engine *)

SubjectsMatch(rule, who) ==
  \/ rule.users = {} /\ rule.groups = {}
  \/ who.user \in rule.users
  \/ "*" \in rule.groups \/ who.groups \cap rule.groups # {}

ServersMatch(rule, server, tool) ==
  \E a \in rule.access :
    /\ MatchesPattern(a.name, server)
    /\ a.tools = {} \/ \E p \in a.tools : MatchesPattern(p, tool)

RuleMatches(rule, who, server, tool) ==
  SubjectsMatch(rule, who) /\ ServersMatch(rule, server, tool)

(* Mutant: the first rule that matches decides *)
ScanFirst(seen, rule) ==
  IF seen.deny # None \/ seen.allow # None THEN seen
  ELSE IF rule.effect = "deny" THEN [seen EXCEPT !.deny = rule] ELSE [seen EXCEPT !.allow = rule]

(* One matching rule of the scan *)
Scan(seen, rule) ==
  IF rule.effect = "deny" /\ seen.deny = None THEN [seen EXCEPT !.deny = rule]
  ELSE IF rule.effect = "allow" /\ seen.allow = None THEN [seen EXCEPT !.allow = rule] ELSE seen

(* The loop of _evaluate_rules: what it has seen after n rules *)
Seen(policy, who, server, tool) ==
  LET seen[n \in 0..Len(policy.rules)] ==
        IF n = 0 THEN [allow |-> None, deny |-> None]
        ELSE IF RuleMatches(policy.rules[n], who, server, tool)
             THEN Scan(seen[n - 1], policy.rules[n]) ELSE seen[n - 1]
  IN seen

(* _evaluate_rules *)
Evaluate(policy, who, server, tool) ==
  LET seen == Seen(policy, who, server, tool)[Len(policy.rules)]
  IN IF seen.deny # None THEN [effect |-> "deny", rule |-> seen.deny.id]
     ELSE IF seen.allow # None THEN [effect |-> "allow", rule |-> seen.allow.id]
     ELSE [effect |-> policy.default, rule |-> None]
--------------------------------------------------------------------------------
(* Startup *)

Distinct(seq) == \A i, j \in DOMAIN seq : seq[i] = seq[j] => i = j

(* load_policy_file accepts *)
Valid(f) ==
  /\ Distinct([i \in DOMAIN f.servers |-> f.servers[i].name])
  /\ Distinct([i \in DOMAIN f.rules |-> f.rules[i].id])
  /\ \A i \in DOMAIN f.rules : \A a \in f.rules[i].access :
       /\ Stars(a.name) # {} \/ a.name \in ServerNames(f)
       /\ \A p \in a.tools : Stars(p) # {} => ValidWildcard(p)

Governed == file # None

(* Identity comes from the file, else from both OKTA_ variables *)
IdentityEnabled == (Governed /\ file.identity) \/ env.okta = "both"

Configured == IF Governed THEN ServerNames(file) ELSE {Default}

(* The startup checks of run() and _build_obo_provider that can be relaxed *)
Unsafe ==
  \/ ~Governed /\ ~IdentityEnabled
  \/ Governed /\ ~file.identity /\ env.okta = "issuer"
  \/ Governed /\ file.default = "allow" /\ ~IdentityEnabled
  \/ Governed /\ (\E i \in DOMAIN file.servers : file.servers[i].exchange) /\ ~IdentityEnabled

(* Mutant: a policy that allows by default needs no identity *)
RefusesOpenNot ==
  \/ ~Governed /\ ~IdentityEnabled /\ ~env.relax
  \/ env.strict /\ ~(Governed /\ IdentityEnabled)

(* Mutant: relaxed startup checks relax the strict mode too *)
RefusesUnlessRelaxed ==
  ~env.relax /\ (Unsafe \/ (env.strict /\ ~(Governed /\ IdentityEnabled)))

(* run() *)
Refuses ==
  \/ Unsafe /\ ~env.relax
  \/ env.strict /\ ~(Governed /\ IdentityEnabled)
--------------------------------------------------------------------------------
NoCall == [name |-> None, out |-> "none", server |-> None, tool |-> None, rule |-> None]

Init ==
  /\ env \in [relax : BOOLEAN, strict : BOOLEAN, okta : {"none", "issuer", "both"}]
  /\ file \in Files \cup {None}
  /\ phase = "off" /\ caller = None /\ listing = None /\ last = NoCall

(* _load_policy_and_configs *)
Load ==
  /\ phase = "off"
  /\ phase' = IF Governed /\ ~Valid(file) THEN "refused" ELSE "loaded"
  /\ UNCHANGED <<env, file, caller, listing, last>>

Start ==
  /\ phase = "loaded"
  /\ phase' = IF Refuses THEN "refused" ELSE "serving"
  /\ UNCHANGED <<env, file, caller, listing, last>>

(* Another client, with a valid token or without *)
Arrive(c) ==
  /\ phase = "serving" /\ c # caller
  /\ caller' = c /\ listing' = None /\ last' = NoCall
  /\ UNCHANGED <<env, file, phase>>

Anonymous == [user |-> "anonymous", groups |-> {}]

(* Whom the rules see: a token is looked at only with an identity provider    *)
Subject == IF IdentityEnabled /\ caller # None THEN caller ELSE Anonymous

Authenticated == ~IdentityEnabled \/ caller # None

(* Mutant: tools are listed for the anonymous user *)
AnonymousLister == Anonymous

Lister == Subject

(* The tools of all servers that the caller may call *)
Listing ==
  LET Published == UNION {{NamespaceTool(s, t) : t \in Tools[s]} : s \in Configured}
      May(n) == LET p == ParseTool(n)
                IN Evaluate(file, Lister, p.server, p.tool).effect = "allow"
  IN IF ~Authenticated THEN {}
     ELSE IF ~Governed THEN Published ELSE {n \in Published : May(n)}

(* _list_tools *)
ListTools ==
  /\ phase = "serving"
  /\ listing' = Listing
  /\ UNCHANGED <<env, file, phase, caller, last>>

IsConfigured(server) == server \in Configured

(* What becomes of a call, up to where it leaves for the upstream server      *)
Outcome(n) ==
  LET p == ParseTool(n)
      d == Evaluate(file, Subject, p.server, p.tool)
  IN IF p = None THEN [NoCall EXCEPT !.name = n, !.out = "unroutable"]
     ELSE IF ~IsConfigured(p.server) THEN [NoCall EXCEPT !.name = n, !.out = "unroutable"]
     ELSE [name |-> n, server |-> p.server, tool |-> p.tool,
           out |-> IF Authenticated /\ (Governed => d.effect = "allow")
                   THEN "forwarded" ELSE "denied",
           rule |-> IF Authenticated /\ Governed THEN d.rule ELSE None]

(* _call_tool *)
CallTool(n) ==
  /\ phase = "serving"
  /\ last' = Outcome(n)
  /\ UNCHANGED <<env, file, phase, caller, listing>>

Next ==
  \/ Load \/ Start \/ ListTools
  \/ \E c \in Callers \cup {None} : Arrive(c)
  \/ \E n \in Names : CallTool(n)

Spec == Init /\ [][Next]_vars
--------------------------------------------------------------------------------
(* The rules of a policy that match, by what the documentation says of them   *)
MatchingRules(effect) ==
  {i \in DOMAIN file.rules :
     file.rules[i].effect = effect /\ RuleMatches(file.rules[i], Subject, last.server, last.tool)}

(* engine.py:97, "Deny overrides allow": no rule that denies matches a        *)
(* forwarded call, wherever it stands; the rule on record is the first of its *)
(* effect in the file, and without a rule the default decides.                *)
DenyOverrides ==
  Governed /\ last.out \in {"forwarded", "denied"} /\ Authenticated =>
    LET deny == MatchingRules("deny")
        allow == MatchingRules("allow")
        First(is) == file.rules[CHOOSE i \in is : \A j \in is : i <= j].id
    IN CASE deny # {} -> last.out = "denied" /\ last.rule = First(deny)
         [] deny = {} /\ allow # {} -> last.out = "forwarded" /\ last.rule = First(allow)
         [] deny = {} /\ allow = {} ->
              last.rule = None /\ (last.out = "forwarded" <=> file.default = "allow")

(* Unless the startup checks are relaxed, a call is forwarded only for a      *)
(* caller with a valid token, or because a rule of the policy allows it to    *)
(* everyone: never by a default, a missing file or a half-configured identity *)
(* provider (the refusals of run() with the hooks of _build_pipeline).        *)
ForwardedOnGrounds ==
  last.out = "forwarded" /\ ~env.relax =>
    (IdentityEnabled /\ caller # None) \/ (Governed /\ last.rule # None)

(* MCP_STRICT_SECURITY, "not overridable by MCP_RELAX_STARTUP_CHECKS": what   *)
(* is forwarded was sent with a valid token and allowed by the policy.        *)
StrictIsEnforced ==
  last.out = "forwarded" /\ env.strict =>
    caller # None /\ Governed /\ Evaluate(file, caller, last.server, last.tool).effect = "allow"

(* A server whose names can be told apart from others: no separator in it,    *)
(* nor across its end                                                         *)
Unambiguous(server) == Splits(server \o <<Underscore>>) = {}

(* A caller who lists the tools sees those it may call, and calling one       *)
(* reaches the server that publishes it (_filter_tools_by_policy and          *)
(* _call_tool evaluate the same rules for the same name).                     *)
ListedIffCallable ==
  \A s \in Configured : \A t \in Tools[s] :
    LET n == NamespaceTool(s, t)
    IN Unambiguous(s) /\ last.name = n /\ listing # None =>
         (n \in listing <=> last.out = "forwarded" /\ last.server = s /\ last.tool = t)

(* Of the name, the star stands for any sequence of characters *)
Glob(p, v) ==
  IF Stars(p) = {} THEN p = v
  ELSE \E i \in Stars(p) : \E j \in 0..Len(v) :
         /\ SubSeq(p, 1, i - 1) = SubSeq(v, 1, j)
         /\ \E k \in j..Len(v) : SubSeq(p, i + 1, Len(p)) = SubSeq(v, k + 1, Len(v))

(* A tool pattern the loader accepts means what it looks like: its star       *)
(* stands for any sequence of characters (_validate_tool_patterns with        *)
(* _matches_pattern).                                                         *)
PatternsAreGlobs ==
  phase = "serving" /\ Governed =>
    \A i \in DOMAIN file.rules : \A a \in file.rules[i].access : \A p \in a.tools :
      \A s \in Configured : \A t \in Tools[s] : MatchesPattern(p, t) <=> Glob(p, t)
================================================================================
