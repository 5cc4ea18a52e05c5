------------------------------- MODULE RepoFilter -------------------------------
(***************************************************************************)
(* GitHubRepoFilterHook (plugins/github_repo_filter.py) as operators: which  *)
(* repositories a call names, and what is left of a response.                *)
(*                                                                          *)
(* A repository stands for its name up to letter case.  Text is abstracted to *)
(* what the filter and the masker tell apart: the references to repositories  *)
(* in it, and whether it holds personal data besides them; of a list, which    *)
(* entries it has.  A content is a function from positions to items, so that   *)
(* an item that is dropped leaves a gap.                                      *)
(***************************************************************************)
EXTENDS Naturals, Sequences

CONSTANTS
  Repos,     (* repository names                                             *)
  Listed,    (* the names some pattern of the plugin's "repos" matches        *)
  ApiName,   (* "repos/<owner>", what _GITHUB_URL_RE finds in an API URL      *)
  NoRepo

ASSUME FilterAssumption == Listed \subseteq Repos /\ NoRepo \notin Repos

(* Where an item of a response can name a repository, in the order            *)
(* _extract_repo_from_item looks.                                            *)
ItemFields == <<"full_name", "repository", "owner_name", "repository_url", "html_url", "url">>

(* A field's value: the repository it names, or none, and whether it does so  *)
(* by an https://api.github.com/repos/... address.                           *)
References == [repo : Repos \cup {NoRepo}, api : BOOLEAN]

(* What the code reads from it *)
NameIn(ref) == IF ref.repo # NoRepo /\ ref.api THEN ApiName ELSE ref.repo

FirstNamed(entry, fields) ==
  LET named == {i \in fields : NameIn(entry.refs[ItemFields[i]]) # NoRepo}
      first == CHOOSE i \in named : \A j \in named : i <= j
  IN IF named = {} THEN NoRepo ELSE NameIn(entry.refs[ItemFields[first]])

(* Mutant: addresses are not looked at *)
RepoOfNoUrl(entry) == FirstNamed(entry, 1..3)

(* _extract_repo_from_item: the first field that names one *)
RepoOf(entry) == FirstNamed(entry, DOMAIN ItemFields)

(* _should_keep *)
Keeps(mode, repo) == IF mode = "allowlist" THEN repo \in Listed ELSE repo \notin Listed

(* on_post_validation: every reference in the arguments must be admitted      *)
Admits(mode, args) == \A ref \in args.refs : Keeps(mode, NameIn(ref))

(* An entry that is no object, or names no repository, is kept: the filter    *)
(* cannot judge it.                                                          *)
KeepsEntry(mode, entry) ==
  entry.object /\ RepoOf(entry) # NoRepo => Keeps(mode, RepoOf(entry))

(* _make_policy_message *)
PolicyMessage == [type |-> "text", shape |-> "broken", entries |-> {}]

(* _filter_list_response looks into a text that parses to a list or an object  *)
FilterItem(mode, item) ==
  IF item.type # "text" \/ item.shape = "scalar" THEN item
  ELSE [item EXCEPT !.entries = {e \in @ : KeepsEntry(mode, e)}]

(* and drops it if nothing is left *)
Dropped(mode, item) ==
  item.type = "text" /\ item.shape # "scalar" /\ \A e \in item.entries : ~KeepsEntry(mode, e)

(* _check_single_result_response; only an object is looked into               *)
SingleIsKept(mode, item) == item.shape = "object" => \A e \in item.entries : KeepsEntry(mode, e)

(* The items whose text makes the hook replace the whole response             *)
Refused(mode, tool, item) ==
  /\ item.type = "text"
  /\ item.shape = "broken" \/ (tool = "single" /\ ~SingleIsKept(mode, item))

(* on_post_masking for a tool that may name repositories                      *)
Filtered(mode, tool, content) ==
  LET kept == IF tool = "list"
              THEN [i \in {j \in DOMAIN content : ~Dropped(mode, content[j])} |->
                      FilterItem(mode, content[i])]
              ELSE content
  IN IF DOMAIN kept = {} \/ \E i \in DOMAIN content : Refused(mode, tool, content[i])
     THEN <<PolicyMessage>> ELSE kept
================================================================================
