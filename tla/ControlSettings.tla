---------------------------- MODULE ControlSettings ----------------------------
(***************************************************************************)
(* scripts/_github_repository_controls.py, _github_environment_controls.py *)
(* and _github_evidence_environment.py: the payloads and the verification  *)
(* of the ruleset "main" and of deployment environments.                   *)
(***************************************************************************)
EXTENDS Naturals, FiniteSets, Sequences

CONSTANTS
    Runs, Appliers,   \* sessions, and those with --apply; the others verify
    Reviewer, Other,  \* the configured reviewer and anybody else
    MaxId             \* bound on the ids of branch policies

ASSUME SettingsAssumption ==
    /\ Appliers \subseteq Runs /\ Reviewer # Other /\ MaxId \in Nat \ {0, 1}

Listed(s) == {s[i] : i \in 1 .. Len(s)}

(* Required checks: the promotion status, the rest of REQUIRED_STATUS_     *)
(* CHECKS, and one the repository added.  gates: the four flags of review. *)
Contexts == {"promotion", "baseline", "own"}
Required == {"promotion", "baseline"}
Rulesets ==
    [active : BOOLEAN, contexts : SUBSET Contexts, issuer : {"any", "app", "foreign"},
     strict : BOOLEAN, reviews : 0 .. 2, gates : BOOLEAN, more : BOOLEAN]
NoRuleset == [contexts |-> {}]

Policies == [id : 1 .. MaxId, main : BOOLEAN]
Environments ==
    [exists : BOOLEAN, own : BOOLEAN, bypass : BOOLEAN,
     reviewers : SUBSET {Reviewer, Other}, custom : BOOLEAN,
     policies : SUBSET Policies]
Absent == [exists |-> FALSE, own |-> FALSE, bypass |-> FALSE, reviewers |-> {},
           custom |-> FALSE, policies |-> {}]

-----------------------------------------------------------------------------
(* The ruleset.                                                            *)

(* Mutant: the ruleset is written as in a new repository.                  *)
BaselineRules(old) ==
    [active |-> TRUE, contexts |-> Required, issuer |-> "app", strict |-> TRUE,
     reviews |-> 1, gates |-> TRUE, more |-> FALSE]

(* Mutant: one approval is the default of a new repository.                *)
OneReview(old) == 1

Reviews(old) == IF old # NoRuleset /\ old.reviews > 1 THEN old.reviews ELSE 1

(* What is stronger or additional in an existing ruleset is kept.          *)
HardenedRules(old) ==
    [active |-> TRUE, contexts |-> Required \cup old.contexts, issuer |-> "app",
     strict |-> TRUE, reviews |-> Reviews(old), gates |-> TRUE,
     more |-> old # NoRuleset /\ old.more]

(* Another issuer of the promotion status has to be removed by hand.       *)
Conflict(old) == "promotion" \in old.contexts /\ old.issuer = "foreign"

IssuerPinned(rules) == "promotion" \in rules.contexts /\ rules.issuer = "app"
ReviewsRequired(rules) == rules.reviews >= 1 /\ rules.gates

GoodRules(rules) ==
    /\ rules # NoRuleset
    /\ Required \subseteq rules.contexts
    /\ IssuerPinned(rules) /\ rules.strict /\ ReviewsRequired(rules)

-----------------------------------------------------------------------------
(* An environment, with a reviewer or unattended.                          *)

(* Mutant: the switch for administrators is left as it is.                 *)
PutKeepingBypass(env, reviewed) ==
    [exists |-> TRUE, own |-> reviewed, bypass |-> env.bypass,
     reviewers |-> IF reviewed THEN {Reviewer} ELSE {}, custom |-> TRUE,
     policies |-> IF env.custom THEN env.policies ELSE {}]

(* Mutant: every environment gets the payload of the unattended ones.      *)
PutUnattended(env, reviewed) ==
    [exists |-> TRUE, own |-> FALSE, bypass |-> FALSE, reviewers |-> {},
     custom |-> TRUE, policies |-> IF env.custom THEN env.policies ELSE {}]

(* A PUT replaces everything but the branch policies, which exist only     *)
(* under custom_branch_policies.                                           *)
Put(env, reviewed) ==
    [exists |-> TRUE, own |-> reviewed, bypass |-> FALSE,
     reviewers |-> IF reviewed THEN {Reviewer} ELSE {}, custom |-> TRUE,
     policies |-> IF env.custom THEN env.policies ELSE {}]

(* Mutant: the reviewer may be one of several.                             *)
AlsoReviewer(env) == env.reviewers # {}

OnlyReviewer(env) == env.reviewers = {Reviewer}

GoodReviewed(env) == env.exists /\ ~env.bypass /\ env.own /\ OnlyReviewer(env)
GoodEvidence(env) == env.exists /\ ~env.bypass
GoodDrift(env) == env.exists /\ ~env.bypass /\ env.reviewers = {}

(* The two GETs of a verification: the environment, and its policies.      *)
MainOnly(custom, policies) ==
    custom /\ Cardinality(policies) = 1 /\ \A p \in policies : p.main

Mains(policies) == {p \in policies : p.main}

(* Mutant: the policies go in the order of the listing.                    *)
SurplusListed(policies) ==
    IF Mains(policies) = {} THEN {policies}
    ELSE {policies \ {p} : p \in Mains(policies)}

(* Mutant: only the duplicates of main are deleted.                        *)
SurplusMains(policies) ==
    {{p \in Mains(policies) : \E q \in Mains(policies) : q.id < p.id}}

(* The policies to delete: all but the rule for main with the smallest id. *)
Surplus(policies) ==
    {{p \in policies : p.main => \E q \in Mains(policies) : q.id < p.id}}
===============================================================================
