-------------------------- MODULE RepositoryControls --------------------------
(***************************************************************************)
(* configure() of scripts/configure_github_repository_controls.py: the     *)
(* ruleset and the environments of the repository are read, hardened,      *)
(* written and verified by some sixty API calls one after the other, any   *)
(* of which may fail.  Runs are repeated and may overlap, and              *)
(* administrators change the same controls by hand.                        *)
(***************************************************************************)
EXTENDS ControlSettings

CONSTANTS
    Protected,      \* sequence of the environments with a reviewer
    KeyEnv,         \* the environment of the promotion key
    MaxChanges      \* bound on what administrators do

Envs == Listed(Protected) \cup {KeyEnv}

ASSUME ControlsAssumption ==
    /\ MaxChanges \in Nat
    /\ Protected \in Seq(Listed(Protected)) /\ Protected # <<>>
    /\ KeyEnv \notin Listed(Protected)

VARIABLES
    changes, nextId,
    ruleset,      \* the ruleset "main", or NoRuleset
    envs,         \* [Envs -> Environments]
    at,           \* [Runs -> Stages]
    left,         \* [Runs -> Seq(Envs)] environments the step goes through
    seen,         \* [Runs -> rulesets] the ruleset the run read
    custom,       \* [Runs -> BOOLEAN] the branch setting the run read
    todo,         \* [Runs -> SUBSET Policies] policies to delete
    lacks,        \* [Runs -> BOOLEAN] was there no rule for main
    blocked,      \* [Runs -> BOOLEAN] has the verification found a blocker
    meddled,      \* history, [Runs -> BOOLEAN]: since the start of the run, or of
                  \* one it started beside, somebody changed something by hand
    overlapped    \* history, [Runs -> BOOLEAN]: another run worked meanwhile

github == <<changes, nextId, ruleset, envs>>
session == <<left, seen, custom, todo, lacks, blocked>>
history == <<meddled, overlapped>>
controlsVars == <<github, at, session, history>>

Busy == {"read", "write", "put", "list", "converge", "check rules", "check",
         "check policies"}
Stages == {"unused", "verified", "refused", "failed"} \cup Busy

(* The controls and the runs have their types.                             *)
ControlsTypeOK ==
    /\ changes \in 0 .. MaxChanges /\ nextId \in 1 .. MaxId + 1
    /\ ruleset \in Rulesets \cup {NoRuleset}
    /\ envs \in [Envs -> Environments]
    /\ at \in [Runs -> Stages]
    /\ left \in [Runs -> Seq(Envs)]
    /\ seen \in [Runs -> Rulesets \cup {NoRuleset}]
    /\ todo \in [Runs -> SUBSET Policies]
    /\ \A flag \in {custom, lacks, blocked, meddled, overlapped} :
          flag \in [Runs -> BOOLEAN]

Loose == [active |-> TRUE, contexts |-> {"own"}, issuer |-> "any", strict |-> FALSE,
          reviews |-> 2, gates |-> FALSE, more |-> TRUE]
Foreign == [Loose EXCEPT !.contexts = {"promotion"}, !.issuer = "foreign"]
Wide == [exists |-> TRUE, own |-> FALSE, bypass |-> TRUE, reviewers |-> {Other},
         custom |-> TRUE, policies |-> {[id |-> 1, main |-> FALSE]}]
Doubled == [exists |-> TRUE, own |-> TRUE, bypass |-> FALSE, reviewers |-> {Reviewer},
            custom |-> TRUE, policies |-> {[id |-> i, main |-> TRUE] : i \in {1, 2}}]

ControlsInit ==
    /\ changes \in 0 .. MaxChanges /\ nextId = 3
    /\ ruleset \in {NoRuleset, Loose, [Loose EXCEPT !.active = FALSE], Foreign}
    /\ envs \in [Envs -> {Absent, Wide, Doubled}]
    /\ at = [r \in Runs |-> "unused"] /\ left = [r \in Runs |-> <<>>]
    /\ seen = [r \in Runs |-> NoRuleset] /\ todo = [r \in Runs |-> {}]
    /\ custom = [r \in Runs |-> FALSE]
    /\ lacks = custom /\ blocked = custom /\ meddled = custom /\ overlapped = custom

-----------------------------------------------------------------------------
(* Administrators and the API.                                             *)

ByHand ==
    /\ changes < MaxChanges /\ changes' = changes + 1
    /\ meddled' = [r \in Runs |-> meddled[r] \/ at[r] # "unused"]
    /\ UNCHANGED <<at, session, overlapped>>

ChangeRules ==
    /\ ByHand
    /\ \/ ruleset' \in {NoRuleset, Loose, [Loose EXCEPT !.contexts = Contexts]}
       \/ ruleset # NoRuleset /\ ruleset' = [ruleset EXCEPT !.active = FALSE]
    /\ UNCHANGED <<nextId, envs>>

ChangeSettings ==
    /\ ByHand
    /\ \E e \in Envs : \/ envs' = [envs EXCEPT ![e] = Absent]
                       \/ envs' = [envs EXCEPT ![e] = [Wide EXCEPT !.policies = {}]]
                       \/ envs' = [envs EXCEPT ![e].reviewers = @ \cup {Other}]
    /\ UNCHANGED <<nextId, ruleset>>

ChangePolicies ==
    /\ ByHand
    /\ \E e \in Envs :
        /\ envs[e].custom
        /\ \/ /\ nextId <= MaxId /\ nextId' = nextId + 1
              /\ \E main \in BOOLEAN :
                    envs' = [envs EXCEPT ![e].policies =
                                @ \cup {[id |-> nextId, main |-> main]}]
           \/ /\ \E p \in envs[e].policies :
                    envs' = [envs EXCEPT ![e].policies = @ \ {p}]
              /\ UNCHANGED nextId
    /\ UNCHANGED ruleset

Administrator == ChangeRules \/ ChangeSettings \/ ChangePolicies

(* A second rule for main is made, or answered with the first one.         *)
PostMain(e) ==
    \/ /\ nextId <= MaxId /\ nextId' = nextId + 1
       /\ envs' = [envs EXCEPT ![e].policies = @ \cup {[id |-> nextId, main |-> TRUE]}]
    \/ Mains(envs[e].policies) # {} /\ UNCHANGED <<nextId, envs>>

-----------------------------------------------------------------------------
(* A run that applies: the ruleset, the settings, and then the policies.   *)

Goto(r, s) == at' = [at EXCEPT ![r] = s]
First(r) == Head(left[r])

(* Rights and the reviewer's id are looked up first, or the run fails.     *)
BeginSession(r) ==
    /\ at[r] = "unused"
    /\ Goto(r, IF r \in Appliers THEN "read" ELSE "check rules")
    /\ overlapped' =
          [q \in Runs |-> \/ overlapped[q]
                          \/ at[q] \in Busy
                          \/ q = r /\ \E p \in Runs : at[p] \in Busy]
    /\ meddled' = [meddled EXCEPT ![r] = \E p \in Runs : at[p] \in Busy /\ meddled[p]]
    /\ UNCHANGED <<github, session>>

ReadRules(r) ==
    /\ at[r] = "read"
    /\ seen' = [seen EXCEPT ![r] = ruleset]
    /\ Goto(r, IF Conflict(ruleset) THEN "failed" ELSE "write")
    /\ UNCHANGED <<github, left, custom, todo, lacks, blocked, history>>

(* PUT to the ruleset that was read, or POST of a name that must be new.   *)
WriteRules(r) ==
    /\ at[r] = "write"
    /\ (seen[r] = NoRuleset) = (ruleset = NoRuleset)
    /\ ruleset' = HardenedRules(seen[r])
    /\ left' = [left EXCEPT ![r] = Protected] /\ Goto(r, "put")
    /\ UNCHANGED <<changes, nextId, envs, seen, custom, todo, lacks, blocked, history>>

(* The environment of the key is put when the others have their policies.  *)
PutSettings(r) ==
    /\ at[r] = "put"
    /\ envs' = [envs EXCEPT ![First(r)] = Put(@, First(r) # KeyEnv)]
    /\ IF Len(left[r]) > 1
       THEN left' = [left EXCEPT ![r] = Tail(@)] /\ UNCHANGED at
       ELSE /\ Goto(r, "list")
            /\ left' = [left EXCEPT ![r] = IF @ = <<KeyEnv>> THEN @ ELSE Protected]
    /\ UNCHANGED <<changes, nextId, ruleset, seen, custom, todo, lacks, blocked, history>>

ListPolicies(r) ==
    /\ at[r] = "list" /\ envs[First(r)].exists
    /\ \E surplus \in Surplus(envs[First(r)].policies) : todo' = [todo EXCEPT ![r] = surplus]
    /\ lacks' = [lacks EXCEPT ![r] = Mains(envs[First(r)].policies) = {}]
    /\ Goto(r, "converge")
    /\ UNCHANGED <<github, left, seen, custom, blocked, history>>

(* In the order of the ids; a policy that is already gone is an error.     *)
DeletePolicy(r) ==
    /\ at[r] = "converge"
    /\ \E p \in todo[r] \cap envs[First(r)].policies :
        /\ \A q \in todo[r] : p.id <= q.id
        /\ envs' = [envs EXCEPT ![First(r)].policies = @ \ {p}]
        /\ todo' = [todo EXCEPT ![r] = @ \ {p}]
    /\ UNCHANGED <<changes, nextId, ruleset, at, left, seen, custom, lacks, blocked, history>>

NextTarget(r) ==
    \/ /\ Len(left[r]) > 1
       /\ left' = [left EXCEPT ![r] = Tail(@)] /\ Goto(r, "list")
    \/ /\ Len(left[r]) = 1 /\ First(r) # KeyEnv
       /\ left' = [left EXCEPT ![r] = <<KeyEnv>>] /\ Goto(r, "put")
    \/ /\ left[r] = <<KeyEnv>>
       /\ Goto(r, "check rules") /\ UNCHANGED left

Converged(r) ==
    /\ at[r] = "converge" /\ todo[r] = {}
    /\ IF lacks[r] THEN envs[First(r)].custom /\ PostMain(First(r))
                   ELSE UNCHANGED <<nextId, envs>>
    /\ NextTarget(r)
    /\ UNCHANGED <<changes, ruleset, seen, custom, todo, lacks, blocked, history>>

-----------------------------------------------------------------------------
(* Verification: the ruleset, and of each environment first the settings   *)
(* and then, in a second call, the policies.                               *)

Found(r, bad) == blocked' = [blocked EXCEPT ![r] = @ \/ bad]

(* Mutant: the environment of the key is not verified.                     *)
CheckReviewed(r) ==
    /\ at[r] = "check rules"
    /\ Found(r, ~GoodRules(ruleset))
    /\ left' = [left EXCEPT ![r] = Protected] /\ Goto(r, "check")
    /\ UNCHANGED <<github, seen, custom, todo, lacks, history>>

CheckRules(r) ==
    /\ at[r] = "check rules"
    /\ Found(r, ~GoodRules(ruleset))
    /\ left' = [left EXCEPT ![r] = Append(Protected, KeyEnv)] /\ Goto(r, "check")
    /\ UNCHANGED <<github, seen, custom, todo, lacks, history>>

CheckSettings(r) ==
    /\ at[r] = "check"
    /\ LET env == envs[First(r)] IN
        /\ Found(r, ~(IF First(r) = KeyEnv THEN GoodEvidence(env) ELSE GoodReviewed(env)))
        /\ custom' = [custom EXCEPT ![r] = env.custom]
    /\ Goto(r, "check policies")
    /\ UNCHANGED <<github, left, seen, todo, lacks, history>>

CheckPolicies(r) ==
    /\ at[r] = "check policies"
    /\ Found(r, ~MainOnly(custom[r], envs[First(r)].policies))
    /\ left' = [left EXCEPT ![r] = Tail(@)]
    /\ Goto(r, IF Len(left[r]) > 1 THEN "check"
               ELSE IF blocked'[r] THEN "refused" ELSE "verified")
    /\ UNCHANGED <<github, seen, custom, todo, lacks, history>>

(* A call fails, or the operator stops the run.                            *)
Die(r) ==
    /\ at[r] \in Busy
    /\ Goto(r, "failed")
    /\ UNCHANGED <<github, session, history>>

Proceed(r) ==
    \/ ReadRules(r) \/ WriteRules(r) \/ PutSettings(r) \/ ListPolicies(r)
    \/ DeletePolicy(r) \/ Converged(r)
    \/ CheckRules(r) \/ CheckSettings(r) \/ CheckPolicies(r)

ControlsNext == Administrator \/ \E r \in Runs : BeginSession(r) \/ Proceed(r) \/ Die(r)

ControlsSpec == ControlsInit /\ [][ControlsNext]_controlsVars

-----------------------------------------------------------------------------
(* Nothing but main can use the environment, under its settings, and the   *)
(* rules are those of the documents.                                       *)
Shut(e) ==
    /\ envs[e].exists /\ envs[e].custom /\ ~envs[e].bypass
    /\ e # KeyEnv => envs[e].own /\ envs[e].reviewers = {Reviewer}
    /\ \A p \in envs[e].policies : p.main

Demanded ==
    /\ ruleset # NoRuleset /\ {"promotion", "baseline"} \subseteq ruleset.contexts
    /\ ruleset.issuer = "app" /\ ruleset.strict /\ ruleset.reviews > 0 /\ ruleset.gates

(* What a run verified holds from then on, whatever other runs do, as long *)
(* as nobody changes a control by hand: overlapping runs pull one way.     *)
VerifiedHolds ==
    \A r \in Runs : at[r] = "verified" /\ ~meddled[r] =>
        /\ Demanded
        /\ \A e \in Envs : Shut(e) /\ Mains(envs[e].policies) # {}

(* In the middle of its writes, too, a run never opens what was shut, and  *)
(* never takes the last rule for main from an environment that others keep *)
(* their hands off, although each run acts on a listing of its own.        *)
OpensNothing ==
    \A r \in Runs : Proceed(r) =>
        \A e \in Envs :
            /\ Shut(e) => Shut(e)'
            /\ Mains(envs[e].policies) # {} /\ ~meddled[r] /\ envs[e].custom
                 => Mains(envs'[e].policies) # {}

(* A run that nobody disturbs either dies in a call or ends verified:      *)
(* whatever an earlier run left half done, the next one repairs.           *)
NextRunRepairs ==
    \A r \in Appliers :
        at[r] = "refused" => meddled[r] \/ overlapped[r]

(* "Preserve stronger review counts", contexts and additional rules: what  *)
(* was demanded stays demanded, unless it was changed after being read.    *)
KeepsStronger ==
    \A r \in Runs : WriteRules(r) /\ ~meddled[r] /\ ruleset # NoRuleset =>
        /\ ruleset.contexts \subseteq ruleset'.contexts
        /\ ruleset.reviews <= ruleset'.reviews
        /\ ruleset.more => ruleset'.more

OnlyTightens == [][OpensNothing /\ KeepsStronger]_controlsVars

(* What runs have settled, and the next one can settle.                    *)
ControlsInv == ControlsTypeOK /\ VerifiedHolds /\ NextRunRepairs
===============================================================================
