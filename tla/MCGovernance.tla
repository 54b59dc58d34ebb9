------------------------------ MODULE MCGovernance ------------------------------
(***************************************************************************)
(* The governance of the repository: promotions, with a reporter that      *)
(* takes the group of the scope runs and with one that does not; the       *)
(* controls of the repository; and the environments of scheduled drift.    *)
(* They share no state, so a behaviour is a behaviour of one of them, with *)
(* the others at rest where they begin.                                    *)
(***************************************************************************)
EXTENDS GovernancePromotion, RepositoryControls, DriftControls, TLC

CONSTANTS
  p1, p2,                                                 \* pull requests
  a1, a2, v,                                              \* sessions
  prod, key, test, testDrift, prodDrift                   \* environments

Reviewed == <<prod, test>>
Scheduled == <<testDrift, prodDrift>>

VARIABLE part  \* "grouped", "apart", "controls", "by hand", "drift" or "more drift"

ASSUME PromotionAssumption

-----------------------------------------------------------------------------
(* Where each begins, and where it rests.                                  *)
PromotionRests ==
  /\ Init /\ setting = [service |-> TRUE, grouped |-> TRUE]
  /\ \A p \in PRs : prs[p].head \in Touching

(* One pull request of this repository, with a reporter in the group of    *)
(* the scope runs; or two of one without self-deploy.yml, with a reporter  *)
(* outside the group and fewer events.                                     *)
WithinPromotion ==
  CASE part = "grouped" ->
         /\ setting = [service |-> TRUE, grouped |-> TRUE]
         /\ ~prs[p2].open /\ prs[p2].base = 0 /\ prs[p2].head \in Touching
    [] part = "apart" ->
         setting = [service |-> FALSE, grouped |-> FALSE] /\ events <= 3
    [] OTHER -> TRUE

(* Three sessions, which nobody disturbs; or two beside an administrator.  *)
Together ==
  /\ ControlsInit /\ changes = MaxChanges
  /\ envs[test] = Doubled /\ envs[key] = envs[prod]
ByAnAdministrator ==
  ControlsInit /\ changes = 0 /\ ruleset = Loose /\ envs[key] = Absent

ControlsRest ==
  ControlsInit /\ changes = 0 /\ ruleset = NoRuleset /\ \A e \in Envs : envs[e] = Absent

DriftRests ==
  DriftInit /\ tampers = 0 /\ \A e \in Listed(Drift) : driftEnvs[e] = Absent

(* One session applies at most.                                            *)
Alone(where) == \A q, r \in Appliers : where[q] # "unused" /\ where[r] # "unused" => q = r

MCInit ==
  /\ part \in {"grouped", "apart", "controls", "by hand", "drift", "more drift"}
  /\ IF part \in {"grouped", "apart"} THEN Init ELSE PromotionRests
  /\ WithinPromotion
  /\ CASE part = "controls" -> Together
       [] part = "by hand" -> ByAnAdministrator
       [] OTHER -> ControlsRest
  /\ CASE part = "drift" -> DriftInit /\ tampers = MaxTampers
       [] part = "more drift" -> DriftInit /\ tampers = 0
       [] OTHER -> DriftRests

MCNext ==
  \/ /\ part \in {"grouped", "apart"} /\ Next
     /\ UNCHANGED <<part, controlsVars, driftVars>>
     /\ WithinPromotion'
  \/ /\ part \in {"controls", "by hand"} /\ ControlsNext
     /\ part = "by hand" => Alone(at')
     /\ UNCHANGED <<part, vars, driftVars>>
  \/ /\ part \in {"drift", "more drift"} /\ DriftNext
     /\ part = "more drift" => Alone(driftAt')
     /\ UNCHANGED <<part, vars, controlsVars>>

MCSpec == MCInit /\ [][MCNext]_<<part, vars, controlsVars, driftVars>>

Symmetry == Permutations(Scopes) \cup Permutations(Appliers)
================================================================================
