----------------------------- MODULE DriftControls -----------------------------
(***************************************************************************)
(* configure_service_drift() of configure_github_repository_controls.py:   *)
(* the environments of the scheduled drift jobs are created where they are *)
(* missing; everything that exists is only looked at, before and after.    *)
(***************************************************************************)
EXTENDS ControlSettings

CONSTANTS
    Services,       \* sequence of the environments a service deploys to
    Drift,          \* sequence of the environments of scheduled drift
    MaxTampers      \* bound on what others do by hand

DriftEnvs == Listed(Services) \cup Listed(Drift)

ASSUME DriftAssumption ==
    /\ MaxTampers \in Nat
    /\ Services \in Seq(Listed(Services)) /\ Services # <<>>
    /\ Drift \in Seq(Listed(Drift)) /\ Drift # <<>>
    /\ Listed(Services) \cap Listed(Drift) = {}
    /\ \A i, j \in 1 .. Len(Drift) : Drift[i] = Drift[j] => i = j

VARIABLES
    tampers, driftId, driftEnvs,
    driftAt,       \* [Runs -> DriftStages]
    driftLeft,     \* [Runs -> Seq(DriftEnvs)] environments the step goes through
    driftCustom,   \* [Runs -> BOOLEAN] the branch setting the run read
    missing,       \* [Runs -> SUBSET DriftEnvs] what the inventory lacks
    created,       \* [Runs -> BOOLEAN] is the run past its creations
    driftBlocked,  \* [Runs -> BOOLEAN]
    driftMeddled   \* history: somebody changed an environment by hand

driftSession == <<driftLeft, driftCustom, missing, created, driftBlocked>>
driftVars == <<tampers, driftId, driftEnvs, driftAt, driftSession, driftMeddled>>

DriftBusy == {"look", "policies", "inventory", "create", "list", "post"}
DriftStages == {"unused", "verified", "refused", "failed"} \cup DriftBusy

(* Environments and runs have their types.                                 *)
DriftTypeOK ==
    /\ tampers \in 0 .. MaxTampers /\ driftId \in 1 .. MaxId + 1
    /\ driftEnvs \in [DriftEnvs -> Environments]
    /\ driftAt \in [Runs -> DriftStages]
    /\ driftLeft \in [Runs -> Seq(DriftEnvs)]
    /\ missing \in [Runs -> SUBSET Listed(Drift)]
    /\ \A flag \in {driftCustom, created, driftBlocked} : flag \in [Runs -> BOOLEAN]
    /\ driftMeddled \in BOOLEAN

Ready(e) ==
    [exists |-> TRUE, own |-> e \in Listed(Services), bypass |-> FALSE,
     reviewers |-> IF e \in Listed(Services) THEN {Reviewer} ELSE {},
     custom |-> TRUE, policies |-> {[id |-> 1, main |-> TRUE]}]

DriftInit ==
    /\ tampers \in 0 .. MaxTampers /\ driftId = 2
    /\ \E there \in SUBSET Listed(Drift) :
          driftEnvs = [e \in DriftEnvs |-> IF e \in Listed(Drift) \ there THEN Absent ELSE Ready(e)]
    /\ driftAt = [r \in Runs |-> "unused"] /\ driftLeft = [r \in Runs |-> <<>>]
    /\ driftCustom = [r \in Runs |-> FALSE] /\ created = driftCustom /\ driftBlocked = driftCustom
    /\ missing = [r \in Runs |-> {}]
    /\ driftMeddled = FALSE

(* Somebody creates, opens, restricts or deletes an environment.           *)
Tamper ==
    /\ tampers < MaxTampers /\ tampers' = tampers + 1
    /\ driftMeddled' = TRUE
    /\ \E e \in DriftEnvs :
          \/ driftEnvs' = [driftEnvs EXCEPT ![e] = Absent]
          \/ driftEnvs' = [driftEnvs EXCEPT ![e] = [Ready(e) EXCEPT !.reviewers = {Other}]]
          \/ driftEnvs' = [driftEnvs EXCEPT ![e] = [Ready(e) EXCEPT !.custom = FALSE, !.policies = {}]]
    /\ UNCHANGED <<driftId, driftAt, driftSession>>

-----------------------------------------------------------------------------
DriftGoto(r, s) == driftAt' = [driftAt EXCEPT ![r] = s]
Visited(r) == Head(driftLeft[r])
Unseen == UNCHANGED <<tampers, driftMeddled>>
Present(r) == Listed(Drift) \ missing'[r]

(* Some of the drift environments, in the order of their names.            *)
Place(e) == CHOOSE i \in 1 .. Len(Drift) : Drift[i] = e
InOrder(some) ==
    {s \in UNION {[1 .. n -> some] : n \in 0 .. Len(Drift)} :
        /\ Listed(s) = some
        /\ \A i, j \in 1 .. Len(s) : i < j => Place(s[i]) < Place(s[j])}

(* The names are gone through one by one.                                  *)
GoThrough(r, some, stage) ==
    /\ \E s \in InOrder(some) : driftLeft' = [driftLeft EXCEPT ![r] = s]
    /\ DriftGoto(r, stage)

BeginDrift(r) ==
    /\ driftAt[r] = "unused"
    /\ DriftGoto(r, "look") /\ driftLeft' = [driftLeft EXCEPT ![r] = Services]
    /\ UNCHANGED <<driftId, driftEnvs, driftCustom, missing, created, driftBlocked>> /\ Unseen

(* Settings and policies of one environment, by two calls.                 *)
Look(r) ==
    /\ driftAt[r] = "look"
    /\ LET env == driftEnvs[Visited(r)]
           good == IF Visited(r) \in Listed(Services) THEN GoodReviewed(env) ELSE GoodDrift(env)
       IN  /\ driftBlocked' = [driftBlocked EXCEPT ![r] = @ \/ ~good]
           /\ driftCustom' = [driftCustom EXCEPT ![r] = env.custom]
    /\ DriftGoto(r, "policies")
    /\ UNCHANGED <<driftId, driftEnvs, driftLeft, missing, created>> /\ Unseen

Verdict(r) == DriftGoto(r, IF driftBlocked'[r] THEN "refused" ELSE "verified")

(* What follows the last of the services, and the last of the drift ones.  *)
AfterServices(r) ==
    IF created[r] THEN DriftGoto(r, "look") /\ driftLeft' = [driftLeft EXCEPT ![r] = Drift]
                  ELSE DriftGoto(r, "inventory") /\ UNCHANGED driftLeft

AfterDrift(r) ==
    IF r \in Appliers /\ ~created[r] /\ ~driftBlocked'[r]
    THEN /\ created' = [created EXCEPT ![r] = TRUE]
         /\ IF missing[r] # {} THEN GoThrough(r, missing[r], "create")
            ELSE DriftGoto(r, "look") /\ driftLeft' = [driftLeft EXCEPT ![r] = Services]
    ELSE Verdict(r) /\ UNCHANGED <<driftLeft, created>>

LookPolicies(r) ==
    /\ driftAt[r] = "policies"
    /\ driftBlocked' = [driftBlocked EXCEPT ![r] = @ \/ ~MainOnly(driftCustom[r], driftEnvs[Visited(r)].policies)]
    /\ CASE Len(driftLeft[r]) > 1 ->
              DriftGoto(r, "look") /\ driftLeft' = [driftLeft EXCEPT ![r] = Tail(@)] /\ UNCHANGED created
         [] Len(driftLeft[r]) = 1 /\ Visited(r) \in Listed(Services) ->
              AfterServices(r) /\ UNCHANGED created
         [] OTHER -> AfterDrift(r)
    /\ UNCHANGED <<driftId, driftEnvs, driftCustom, missing>> /\ Unseen

(* Mutant: environments that exist are created again.                      *)
InventoryOfNone(r) ==
    /\ driftAt[r] = "inventory"
    /\ missing' = [missing EXCEPT ![r] = {e \in Listed(Drift) : ~driftEnvs[e].exists}]
    /\ driftLeft' = [driftLeft EXCEPT ![r] = Drift]
    /\ created' = [created EXCEPT ![r] = TRUE]
    /\ DriftGoto(r, "create")
    /\ UNCHANGED <<driftId, driftEnvs, driftCustom, driftBlocked>> /\ Unseen

(* Mutant: a verification looks at the environments that are there.        *)
InventoryForgiving(r) ==
    /\ driftAt[r] = "inventory"
    /\ missing' = [missing EXCEPT ![r] = {e \in Listed(Drift) : ~driftEnvs[e].exists}]
    /\ IF Present(r) # {} THEN GoThrough(r, Present(r), "look")
       ELSE DriftGoto(r, "failed") /\ UNCHANGED driftLeft
    /\ UNCHANGED <<driftId, driftEnvs, driftCustom, created, driftBlocked>> /\ Unseen

(* The complete list of environments: those present are looked at, and one *)
(* that is missing blocks a verification.                                  *)
Inventory(r) ==
    /\ driftAt[r] = "inventory"
    /\ missing' = [missing EXCEPT ![r] = {e \in Listed(Drift) : ~driftEnvs[e].exists}]
    /\ driftBlocked' = [driftBlocked EXCEPT ![r] = @ \/ (r \notin Appliers /\ missing'[r] # {})]
    /\ CASE Present(r) # {} ->
              GoThrough(r, Present(r), "look") /\ UNCHANGED created
         [] Present(r) = {} /\ r \in Appliers /\ ~driftBlocked[r] ->
              /\ GoThrough(r, Listed(Drift), "create")
              /\ created' = [created EXCEPT ![r] = TRUE]
         [] OTHER -> DriftGoto(r, "refused") /\ UNCHANGED <<driftLeft, created>>
    /\ UNCHANGED <<driftId, driftEnvs, driftCustom>> /\ Unseen

(* Mutant: a new environment takes the protected branches at first.        *)
CreateOpen(r) ==
    /\ driftAt[r] = "create"
    /\ driftEnvs' = [driftEnvs EXCEPT ![Visited(r)] = [Put(@, FALSE) EXCEPT !.custom = FALSE]]
    /\ DriftGoto(r, "list")
    /\ UNCHANGED <<driftId, driftLeft, driftCustom, missing, created, driftBlocked>> /\ Unseen

Create(r) ==
    /\ driftAt[r] = "create"
    /\ driftEnvs' = [driftEnvs EXCEPT ![Visited(r)] = Put(@, FALSE)]
    /\ DriftGoto(r, "list")
    /\ UNCHANGED <<driftId, driftLeft, driftCustom, missing, created, driftBlocked>> /\ Unseen

(* "New drift environment has unexpected branch policies."                 *)
ListNew(r) ==
    /\ driftAt[r] = "list" /\ driftEnvs[Visited(r)].exists
    /\ DriftGoto(r, IF driftEnvs[Visited(r)].policies = {} THEN "post" ELSE "failed")
    /\ UNCHANGED <<driftId, driftEnvs, driftLeft, driftCustom, missing, created, driftBlocked>> /\ Unseen

Post(r) ==
    /\ driftAt[r] = "post" /\ driftEnvs[Visited(r)].custom
    /\ \/ /\ driftId <= MaxId /\ driftId' = driftId + 1
          /\ driftEnvs' = [driftEnvs EXCEPT ![Visited(r)].policies = @ \cup {[id |-> driftId, main |-> TRUE]}]
       \/ Mains(driftEnvs[Visited(r)].policies) # {} /\ UNCHANGED <<driftId, driftEnvs>>
    /\ IF Len(driftLeft[r]) > 1
       THEN driftLeft' = [driftLeft EXCEPT ![r] = Tail(@)] /\ DriftGoto(r, "create")
       ELSE driftLeft' = [driftLeft EXCEPT ![r] = Services] /\ DriftGoto(r, "look")
    /\ UNCHANGED <<driftCustom, missing, created, driftBlocked>> /\ Unseen

DieDrift(r) ==
    /\ driftAt[r] \in DriftBusy
    /\ DriftGoto(r, "failed")
    /\ UNCHANGED <<driftId, driftEnvs, driftSession>> /\ Unseen

ProceedDrift(r) ==
    \/ Look(r) \/ LookPolicies(r) \/ Inventory(r)
    \/ Create(r) \/ ListNew(r) \/ Post(r)

DriftNext == Tamper \/ \E r \in Runs : BeginDrift(r) \/ ProceedDrift(r) \/ DieDrift(r)

DriftSpec == DriftInit /\ [][DriftNext]_driftVars

-----------------------------------------------------------------------------
(* "Create only missing drift environments; never rewrite existing         *)
(* controls": a run touches nothing that its inventory named.              *)
KeepsExisting ==
    \A r \in Runs : ProceedDrift(r) =>
        \A e \in DriftEnvs : e \notin missing[r] => driftEnvs'[e] = driftEnvs[e]

(* An environment without a reviewer is never open to another branch than  *)
(* main, not even between the two calls that make it, or when one fails.   *)
BornShut ==
    ~driftMeddled =>
        \A e \in Listed(Drift) : driftEnvs[e].exists =>
            driftEnvs[e].custom /\ \A p \in driftEnvs[e].policies : p.main

(* A verified repository has all its environments, the services still      *)
(* protected, whatever another run was doing at the same time.             *)
DriftVerifiedHolds ==
    \A r \in Runs : driftAt[r] = "verified" /\ ~driftMeddled =>
        /\ \A e \in Listed(Services) : driftEnvs[e] = Ready(e)
        /\ \A e \in Listed(Drift) : driftEnvs[e].exists /\ Mains(driftEnvs[e].policies) # {}

OnlyAdds == [][KeepsExisting]_driftVars

DriftInv == DriftTypeOK /\ BornShut /\ DriftVerifiedHolds
===============================================================================
