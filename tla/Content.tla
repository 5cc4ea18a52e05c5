--------------------------------- MODULE Content ---------------------------------
(***************************************************************************)
(* What a tools/call carries (ProxyCall), through the two plugins of the      *)
(* repository that read or rewrite it: the repository filter and the masking  *)
(* plugin (masking/hook.py).  Both are hooks of both pipeline runs; at        *)
(* POST_MASKING their priorities decide which of them sees the response first. *)
(*                                                                          *)
(* A payload is a function from the places where it holds text to that text,  *)
(* which is what the recursive walkers of the masking hook visit; keys and     *)
(* other values are never changed.                                            *)
(***************************************************************************)
EXTENDS ProxyCall, RepoFilter

CONSTANTS
  Setups,     (* a deployment, what its policy file says of the filter, and the
                 calls clients make: the tool's kind and the arguments        *)
  Personal,   (* repository names the masking engine takes for personal data  *)
  Masked,     (* the name that is left of one: "<PERSON>"                      *)
  Responses   (* the contents upstream servers answer with                     *)

Fields == {ItemFields[i] : i \in DOMAIN ItemFields}

(* An item of a tool's answer, with the texts in it.  Objects stand only in a   *)
(* text that is a list or an object itself.                                   *)
IsItem(item) ==
  /\ item \in [type : {"text", "image", "resource", "other"},
               shape : {"list", "object", "scalar", "broken"},
               entries : SUBSET [object : BOOLEAN, personal : BOOLEAN, refs : [Fields -> References]]]
  /\ item.type # "text" \/ item.shape = "scalar" => \A e \in item.entries : ~e.object

ASSUME ContentAssumption ==
  /\ Setups \subseteq [deploy : Deployments,
                       filter : [on : BOOLEAN, mode : {"allowlist", "blocklist"},
                                 scoped : BOOLEAN, last : BOOLEAN],
                       calls : SUBSET [tool : {"list", "single", "other"},
                                       args : [refs : SUBSET References]]]
  /\ \A s \in Setups : s.filter.on => s.deploy.governance
  /\ Personal \subseteq Repos /\ Masked \notin Repos \cup {NoRepo}
  /\ \A c \in Responses : \A i \in DOMAIN c : IsItem(c[i])

VARIABLES
  filter,    (* the plugin's configuration: mode, whether the server is in its
                scope, whether its priority puts it behind the masking plugin *)
  call,      (* per request, the tool and the arguments _call_tool was given    *)
  payload,   (* hook_ctx.request_payload                                       *)
  upstream,  (* upstream_result.content                                        *)
  content    (* the "content" of response_payload, and of the reply             *)

data == <<filter, call, payload, upstream, content>>
allVars == <<vars, data>>
--------------------------------------------------------------------------------
(* mask_text: names and other personal data are replaced by placeholders      *)
MaskRef(ref) == IF ref.repo \in Personal THEN [ref EXCEPT !.repo = Masked] ELSE ref
MaskEntry(e) == [e EXCEPT !.personal = FALSE,
                          !.refs = [f \in DOMAIN e.refs |-> MaskRef(e.refs[f])]]

Sensitive(e) == e.personal \/ \E f \in DOMAIN e.refs : e.refs[f].repo \in Personal

(* Mutant: only the items of type text are visited *)
MaskedItemsOfText(item) ==
  {IF item.type = "text" THEN [item EXCEPT !.entries = {MaskEntry(e) : e \in @}]
                         ELSE item}

(* _mask_recursive over a response: every item is visited.  A replaced span   *)
(* may take JSON punctuation with it (PASSWORD matches up to a blank), so a   *)
(* text that was changed may no longer parse.                                *)
MaskedItems(item) ==
  LET masked == [item EXCEPT !.entries = {MaskEntry(e) : e \in @}]
  IN {masked} \cup (IF masked = item THEN {} ELSE {[masked EXCEPT !.shape = "broken"]})

MaskedContents(c) == {m \in [DOMAIN c -> UNION {MaskedItems(c[i]) : i \in DOMAIN c}] :
                        \A i \in DOMAIN c : m[i] \in MaskedItems(c[i])}

(* _walk_and_mask over the arguments *)
MaskArguments(args) == [refs |-> {MaskRef(ref) : ref \in args.refs}]

FilterOn == filter.on /\ filter.scoped

FilterContent(r, c) ==
  IF FilterOn /\ call[r].tool \in {"list", "single"}
  THEN Filtered(filter.mode, call[r].tool, c) ELSE c

MaskContent(c) == IF deploy.masking THEN MaskedContents(c) ELSE {c}

(* What POST_MASKING may make of the content c: the two hooks in their order   *)
Processed(r, c) ==
  IF filter.last THEN {FilterContent(r, m) : m \in MaskContent(c)}
                 ELSE MaskContent(FilterContent(r, c))

(* _rebuild_content: what is no text, image or resource becomes a text         *)
Rebuilt(c) ==
  [i \in DOMAIN c |-> IF c[i].type = "other" THEN [c[i] EXCEPT !.type = "text"] ELSE c[i]]
--------------------------------------------------------------------------------
ContentInit ==
  /\ Init
  /\ \E s \in Setups : /\ deploy = s.deploy /\ filter = s.filter
                       /\ call \in [Requests -> s.calls]
  /\ payload = [r \in Requests |-> call[r].args]
  /\ upstream = [r \in Requests |-> <<>>]
  /\ content = [r \in Requests |-> <<>>]

(* Both runs: the filter's input side raises ShortCircuitError(deny=True) at    *)
(* POST_VALIDATION, unless a hook before it has failed already.               *)
InputFiltered(r, o) ==
  FilterOn /\ ~Admits(filter.mode, payload[r]) => ~Passed(o, "post_validation")

Walk(r, o) ==
  payload' = [payload EXCEPT ![r] = IF deploy.masking /\ Passed(o, "pre_masking")
                                    THEN MaskArguments(@) ELSE @]

(* The context's response_payload is committed when POST_MASKING is complete.  *)
(* In the pre-run there is no response yet: a filter makes a policy message of *)
(* the empty content, which the response replaces later.                      *)
ProcessResponse(r, o) ==
  \E c \in IF Passed(o, "post_masking") THEN Processed(r, content[r]) ELSE {content[r]} :
    content' = [content EXCEPT ![r] = c]

PreRunWithData(r, o) ==
  /\ PreRun(r, o)
  /\ InputFiltered(r, o)
  /\ Walk(r, o)
  /\ ProcessResponse(r, o)
  /\ UNCHANGED <<filter, call, upstream>>

(* upstream_result, which enters the context or is the reply                   *)
ReturnWithData(r) ==
  /\ Return(r)
  /\ \E c \in Responses :
       /\ upstream' = [upstream EXCEPT ![r] = c]
       /\ content' = [content EXCEPT ![r] = c]
  /\ UNCHANGED <<filter, call, payload>>

PostRunWithData(r, o) ==
  /\ PostRun(r, o)
  /\ InputFiltered(r, o)
  /\ Walk(r, o)
  /\ IF Released(o)
     THEN \E c \in Processed(r, content[r]) : content' = [content EXCEPT ![r] = Rebuilt(c)]
     ELSE ProcessResponse(r, o)
  /\ UNCHANGED <<filter, call, upstream>>

(* The steps of _call_tool that do not touch what the request carries          *)
OtherSteps(r) ==
  /\ GetToken(r) \/ TokenFails(r) \/ Send(r) \/ GiveUpAttempt(r) \/ Propagate(r) \/ Wake(r)
  /\ UNCHANGED data

HandleWithData(r) ==
  \/ \E o \in Outcomes : PreRunWithData(r, o) \/ PostRunWithData(r, o)
  \/ ReturnWithData(r)
  \/ OtherSteps(r)

ContentNext ==
  \E r \in Requests :
    \/ HandleWithData(r)
    \/ /\ Receive(r) \/ Misroute(r) \/ \E a \in sent[r] : Execute(r, a)
       /\ UNCHANGED data

ContentSpec == ContentInit /\ [][ContentNext]_allVars

(* As in ProxyCall *)
FairContent == ContentSpec /\ \A r \in Requests : WF_allVars(HandleWithData(r))
--------------------------------------------------------------------------------
EntriesOf(c) == UNION {c[i].entries : i \in DOMAIN c}
TextEntriesOf(c) == UNION {c[i].entries : i \in {j \in DOMAIN c : c[j].type = "text"}}

(* With the masking plugin, nothing the engine recognises reaches the client,  *)
(* in no item of whatever type, and whatever the filter made of the response   *)
(* before or after (MaskingHook.on_post_masking, _mask_recursive).             *)
NothingSensitiveReleased ==
  \A r \in Requests :
    deploy.masking /\ reply[r] = "content" => \A e \in EntriesOf(content[r]) : ~Sensitive(e)

(* An entry whose references all name one repository, by web address if by     *)
(* address: then the first field that is looked at says what the others say.   *)
Unequivocal(e) ==
  /\ \A f \in DOMAIN e.refs : e.refs[f].repo # NoRepo => ~e.refs[f].api
  /\ \A f, g \in DOMAIN e.refs : NoRepo \in {e.refs[f].repo, e.refs[g].repo}
                                  \/ e.refs[f].repo = e.refs[g].repo

(* What the plugin's documentation calls an item referencing a disallowed       *)
(* repository, without regard to how the code finds the reference.             *)
Disallowed(e) ==
  e.object /\ \E f \in DOMAIN e.refs : /\ e.refs[f].repo \notin {NoRepo, Masked}
                                       /\ ~Keeps(filter.mode, e.refs[f].repo)

Judged(r) == reply[r] = "content" /\ FilterOn /\ call[r].tool \in {"list", "single"}

(* The answers the hook looks into: of a single-result tool, no arrays          *)
LookedInto(r) ==
  call[r].tool = "single" => \A i \in DOMAIN upstream[r] : upstream[r][i].shape # "list"

(* What the client gets of a filtered response is exactly what the policy       *)
(* leaves of it: no text entry that references a disallowed repository, and, if *)
(* every text could be parsed, of a list every other one (docs/plugins/         *)
(* github-repo-filter.md, "Output Filtering").  When the filter runs behind the *)
(* masking plugin, a masked name no longer tells, and only the first holds.    *)
FilteredExactly ==
  \A r \in Requests :
    LET released == TextEntriesOf(content[r])
        given == TextEntriesOf(Rebuilt(upstream[r]))
        Shown(e) == IF deploy.masking THEN MaskEntry(e) ELSE e
        parsed == \A i \in DOMAIN upstream[r] :
                    upstream[r][i].type = "text" => upstream[r][i].shape # "broken"
    IN Judged(r) /\ LookedInto(r) /\ (\A e \in given : Unequivocal(e)) =>
         /\ \A e \in released : ~Disallowed(e)
         /\ ~filter.last /\ parsed /\ call[r].tool = "list"
              => released = {Shown(e) : e \in {g \in given : ~Disallowed(g)}}
================================================================================
