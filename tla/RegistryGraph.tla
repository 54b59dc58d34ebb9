---------------------------- MODULE RegistryGraph ----------------------------
(***************************************************************************)
(* The fixed registry graph of the TEST stack, its checkpoint and the      *)
(* resources behind it.  A command observes the checkpoint and the native  *)
(* resources, has Pulumi plan or replay a plan, and lets the plan through  *)
(* only when plan, preview and checkpoint are one coherent graph; an       *)
(* update creates what is missing, parents and the mail identity first,    *)
(* the rest in any order, and may break between the creation of a resource *)
(* and its entry in the checkpoint.  People may change the native          *)
(* resources by hand at any time.                                          *)
(***************************************************************************)
EXTENDS Naturals, FiniteSets

CONSTANTS Records,      \* the DNS records of the identity's tokens
          MaxCommands,  \* bound: commands begun
          MaxMeddles,   \* bound: changes made by hand
          MaxBreaks     \* bound: updates that break

ASSUME GraphAssumption ==
  /\ {MaxCommands, MaxMeddles, MaxBreaks} \subseteq Nat
  /\ Records \cap {"root", "provider", "environment", "service", "plane",
                    "web", "worker", "identity"} = {}

Registries == {"web", "worker"}
Base == {"root", "provider", "environment"}
Mail == {"identity"} \cup Records
Native == Registries \cup Mail
Graph == Base \cup {"service", "plane"} \cup Native

Parent(r) == CASE r \in {"environment", "service"} -> "root"
               [] r = "plane" -> "service"
               [] r \in Registries -> "plane"
               [] r \in Mail -> "service"
               [] OTHER -> "none"

(* What a resource needs before it is created.                             *)
Needs(r) == (IF Parent(r) = "none" THEN {} ELSE {Parent(r)})
            \cup (IF r \in Native THEN {"provider"} ELSE {})
            \cup (IF r \in Records THEN {"identity"} ELSE {})

(***************************************************************************)
(* The value of a resource, in the checkpoint and natively: 0 when it is   *)
(* absent.  A repository has the value 1 with the settings of the program  *)
(* and 2 with others; the identity has the number of its token set, and a  *)
(* record the number of the token set it names; the provider is 1 in the   *)
(* legacy snapshot, 2 with the account bound; a component has the value 1. *)
(***************************************************************************)
VARIABLES
  state,     \* the checkpoint: [Graph -> Nat]
  native,    \* what AWS holds: [Native -> Nat]
  sets,      \* the token sets SES has drawn
  cmd,       \* the command that runs: "none", "plan", "up-plan" or "drift"
  phase,     \* how far it is
  initial,   \* the checkpoint it captured first
  saved,     \* the plans saved by earlier commands
  plan,      \* the plan of this command
  doing,     \* what is created but not yet in the checkpoint: [Graph -> Nat]
  broken,    \* whether the update of this command has failed
  verdict,   \* how the last command ended
  begun,     \* bound: commands begun
  meddles,   \* bound: changes made by hand so far
  breaks,    \* bound: updates broken so far
  foreign,   \* history: native resources that people made, not the program
  touched,   \* history: changed by hand since the last plan was let through
             \* or, later, since the update created them
  taken,     \* history: of which that update entered what people made
  cut        \* history: whether this command, or the last, was cut short

command == <<cmd, phase, initial, plan, doing, broken, verdict>>
bounds == <<begun, meddles, breaks>>
history == <<foreign, touched, taken, cut>>
vars == <<state, native, sets, saved, command, bounds, history>>

Present(s) == {r \in Graph : s[r] # 0}
None == [r \in Graph |-> 0]
NoPlan == [on |-> None, refreshed |-> None, op |-> [r \in Graph |-> "none"]]
NoVerdict == [of |-> "none", how |-> "none"]

-----------------------------------------------------------------------------
(* The observation: the checkpoint is the baseline, whole or in part, or   *)
(* the whole graph; the records are those of the identity's tokens; and    *)
(* the native repositories, identity and records are the checkpoint's.     *)
Legacy(s) == s["provider"] = 1

validate_bindings(s) ==
  /\ s["identity"] = 0 => \A r \in Records : s[r] = 0
  /\ s["identity"] # 0 => \A r \in Records : s[r] = s["identity"]

_legacy_snapshot(s) == Legacy(s) => Present(s) = Base

_ecr_values(r, s) == s[r] \in {0, 1}

(* A mutant: of the baseline, nothing but the whole.                       *)
PriorWhole(s) ==
  /\ _legacy_snapshot(s)
  /\ Present(s) \in {{}, Base, Graph}
  /\ \A r \in Registries : _ecr_values(r, s)
  /\ validate_bindings(s)

_prior(s) ==
  /\ _legacy_snapshot(s)
  /\ Present(s) \subseteq Base \/ Present(s) = Graph
  /\ \A r \in Registries : _ecr_values(r, s)
  /\ validate_bindings(s)

_ecr_inventory(s, n) == \A r \in Registries : n[r] = s[r]

inspect_inventory(s, n) ==
  IF s["identity"] = 0 THEN n["identity"] = 0
  ELSE /\ n["identity"] = s["identity"]
       /\ \A r \in Records : n[r] = s["identity"]

Capture == /\ _prior(state)
           /\ _ecr_inventory(state, native)
           /\ inspect_inventory(state, native)

-----------------------------------------------------------------------------
(* Pulumi's preview with refresh: an entry whose resource is gone is       *)
(* dropped, one whose resource differs is read anew, and each resource of  *)
(* the program is created, updated or left.                                *)
Refreshed(s, n) == [r \in Graph |-> IF r \in Native /\ s[r] # 0 THEN n[r]
                                    ELSE s[r]]

Op(r, s) == IF s[r] = 0 THEN "create"
            ELSE IF \/ r = "provider" /\ Legacy(s)
                    \/ r \in Registries /\ s[r] = 2
                    \/ r \in Records /\ s[r] # s["identity"]
                 THEN "update"
            ELSE "same"

Preview(s, n) ==
  [on |-> s, refreshed |-> Refreshed(s, n),
   op |-> [r \in Graph |-> Op(r, Refreshed(s, n))]]

(* The gate.  Every resource of the graph has one step, the step of the    *)
(* checkpoint observed now; the refresh covered what is there and changed  *)
(* nothing.                                                                *)
(* A mutant: what is there stays as it is, the legacy provider too.        *)
CreateOrSame(r, s) == IF s[r] = 0 THEN "create" ELSE "same"

_operation(r, s) == IF s[r] = 0 THEN "create"
                    ELSE IF r = "provider" /\ Legacy(s) THEN "update"
                    ELSE "same"

_goal(p, s) == \A r \in Graph : p.op[r] = _operation(r, s)

_preview(p, s) == p.on = s /\ p.refreshed = s

validate(p, s) == _prior(s) /\ _goal(p, s) /\ _preview(p, s)

-----------------------------------------------------------------------------
(* A command is over, and what it held in memory forgotten.                *)
End(v) ==
  /\ cmd' = "none" /\ phase' = "idle" /\ doing' = None /\ broken' = FALSE
  /\ initial' = None /\ plan' = NoPlan
  /\ verdict' = [of |-> cmd, how |-> v]

Begin ==
  /\ cmd = "none"
  /\ begun < MaxCommands
  /\ begun' = begun + 1
  /\ cmd' \in {"plan", "up-plan", "drift"}
  /\ cmd' = "up-plan" => saved # {}
  /\ phase' = "capture"
  /\ verdict' = NoVerdict
  /\ cut' = FALSE
  /\ UNCHANGED <<state, native, sets, saved, initial, plan, doing, broken,
                 meddles, breaks, foreign, touched, taken>>

(* The first capture; a drift needs the whole graph.                       *)
FirstCapture ==
  /\ phase = "capture"
  /\ IF Capture /\ (cmd = "drift" => Present(state) = Graph)
     THEN /\ phase' = "program"
          /\ initial' = state
          /\ UNCHANGED <<cmd, plan, doing, broken, verdict>>
     ELSE End("refused")
  /\ UNCHANGED <<state, native, sets, saved, bounds, history>>

(* plan and drift preview the program and save the plan; up-plan is handed *)
(* the plan an earlier command saved.                                      *)
Plan ==
  /\ phase = "program"
  /\ IF cmd = "up-plan" THEN plan' \in saved
     ELSE plan' = Preview(state, native)
  /\ phase' = "gate"
  /\ UNCHANGED <<state, native, sets, saved, cmd, initial, doing, broken,
                 verdict, bounds, history>>

Let == /\ phase' = "refresh"
       /\ touched' = {} /\ taken' = {}
       /\ UNCHANGED <<saved, cmd, initial, plan, doing, broken, verdict>>
Save == /\ saved' = IF cmd = "plan" THEN {plan} ELSE saved
        /\ End("ok")
        /\ UNCHANGED <<touched, taken>>

(* A mutant: a saved plan replayed as it is.                               *)
GateOfPlansOnly ==
  /\ phase = "gate"
  /\ IF cmd = "up-plan" \/ (Capture /\ state = initial /\ validate(plan, state))
     THEN IF cmd = "up-plan" THEN Let ELSE Save
     ELSE End("refused") /\ UNCHANGED <<saved, touched, taken>>
  /\ UNCHANGED <<state, native, sets, bounds, foreign, cut>>

Gate ==
  /\ phase = "gate"
  /\ IF Capture /\ state = initial /\ validate(plan, state)
     THEN IF cmd = "up-plan" THEN Let ELSE Save
     ELSE End("refused") /\ UNCHANGED <<saved, touched, taken>>
  /\ UNCHANGED <<state, native, sets, bounds, foreign, cut>>

-----------------------------------------------------------------------------
(* The update: it refreshes the checkpoint anew, and then each step must   *)
(* be the one of the plan.  The refresh reads what is there, whoever made  *)
(* it.                                                                     *)
Refresh ==
  /\ phase = "refresh"
  /\ state' = Refreshed(state, native)
  /\ phase' = "update"
  /\ taken' = taken \cup {r \in foreign : state[r] \notin {0, native[r]}}
  /\ UNCHANGED <<native, sets, saved, cmd, initial, plan, doing, broken,
                 verdict, bounds, foreign, touched, cut>>

Doing == Present(doing)
ToDo == {r \in Graph : Op(r, state) # "same"} \ Doing
Planned(r) == Op(r, state) = plan.op[r]
Ready(r) == Needs(r) \cap (ToDo \cup Doing) = {}

(* A creation meets what is there already: AWS refuses the name of a       *)
(* repository or of an identity, and allow_overwrite=False a record.       *)
(* A mutant: records made with allow_overwrite.                            *)
RefusesExceptRecords(r) == r \notin Records /\ native[r] # 0

RefusesExisting(r) == native[r] # 0

Made(r) == CASE r = "provider" -> 2
             [] r = "identity" -> sets + 1
             [] r \in Records -> state["identity"]
             [] OTHER -> 1

Create(r) ==
  /\ phase = "update"
  /\ ~broken
  /\ r \in ToDo
  /\ Ready(r)
  /\ IF ~Planned(r) \/ (r \in Native /\ RefusesExisting(r))
     THEN /\ broken' = TRUE
          /\ UNCHANGED <<native, sets, doing, touched>>
     ELSE /\ doing' = [doing EXCEPT ![r] = Made(r)]
          /\ sets' = IF r = "identity" THEN sets + 1 ELSE sets
          /\ native' = IF r \in Native
                       THEN [native EXCEPT ![r] = Made(r)] ELSE native
          /\ touched' = touched \ {r}
          /\ UNCHANGED broken
  /\ UNCHANGED <<state, saved, cmd, phase, initial, plan, verdict, bounds,
                 foreign, taken, cut>>

Enter(r) ==
  /\ phase = "update"
  /\ r \in Doing
  /\ doing' = [doing EXCEPT ![r] = 0]
  /\ state' = [state EXCEPT ![r] = doing[r]]
  /\ taken' = taken \cup ({r} \cap foreign)
  /\ UNCHANGED <<native, sets, saved, cmd, phase, initial, plan, broken,
                 verdict, bounds, foreign, touched, cut>>

(* An API call fails.                                                      *)
CallFails ==
  /\ phase = "update"
  /\ ~broken
  /\ ToDo # {}
  /\ breaks < MaxBreaks
  /\ breaks' = breaks + 1
  /\ broken' = TRUE /\ cut' = TRUE
  /\ UNCHANGED <<state, native, sets, saved, cmd, phase, initial, plan, doing,
                 verdict, begun, meddles, foreign, touched, taken>>

(* The update ends with all its steps done, or broken off.                 *)
UpdateEnds ==
  /\ phase = "update"
  /\ Doing = {}
  /\ broken \/ ToDo = {}
  /\ IF broken THEN End("failed")
     ELSE /\ phase' = "confirm"
          /\ UNCHANGED <<cmd, initial, plan, doing, broken, verdict>>
  /\ UNCHANGED <<state, native, sets, saved, bounds, history>>

(* The process is killed; what it was creating may be there unrecorded.    *)
Crash ==
  /\ cmd # "none"
  /\ breaks < MaxBreaks
  /\ breaks' = breaks + 1
  /\ cut' = TRUE
  /\ End("failed")
  /\ UNCHANGED <<state, native, sets, saved, begun, meddles, foreign, touched,
                 taken>>

(* The last capture of an update reads the whole graph anew.               *)
Confirm ==
  /\ phase = "confirm"
  /\ End(IF Capture /\ Present(state) = Graph THEN "ok" ELSE "refused")
  /\ UNCHANGED <<state, native, sets, saved, bounds, history>>

(* Someone makes, changes or deletes a native resource by hand.            *)
Meddle ==
  /\ meddles < MaxMeddles
  /\ meddles' = meddles + 1
  /\ \E r \in Native :
       \/ native[r] # 0 /\ native' = [native EXCEPT ![r] = 0] /\ UNCHANGED sets
       \/ /\ r = "identity" /\ native[r] = 0
          /\ sets' = sets + 1
          /\ native' = [native EXCEPT ![r] = sets + 1]
       \/ /\ r \in Records /\ native[r] = 0 /\ sets # 0
          /\ native' = [native EXCEPT ![r] = sets] /\ UNCHANGED sets
       \/ /\ r \in Registries /\ native[r] # 2
          /\ native' = [native EXCEPT ![r] = 2] /\ UNCHANGED sets
  /\ touched' = touched \cup {r \in Native : native'[r] # native[r]}
  /\ foreign' = {r \in Native : /\ native'[r] # 0
                                /\ r \in foreign \/ native'[r] # native[r]}
  /\ UNCHANGED <<state, saved, command, begun, breaks, taken, cut>>

Init ==
  /\ \E provider \in {0, 1, 2} :
       state = [r \in Graph |->
                  CASE r = "provider" -> provider
                    [] r \in {"root", "environment"} ->
                         IF provider = 0 THEN 0 ELSE 1
                    [] OTHER -> 0]
  /\ native = [r \in Native |-> 0]
  /\ sets = 0
  /\ cmd = "none" /\ phase = "idle"
  /\ initial = None
  /\ saved = {} /\ plan = NoPlan
  /\ doing = None /\ broken = FALSE
  /\ verdict = NoVerdict
  /\ begun = 0 /\ meddles = 0 /\ breaks = 0
  /\ foreign = {} /\ touched = {} /\ taken = {}
  /\ cut = FALSE

Work == \/ FirstCapture \/ Plan \/ Gate \/ Refresh
        \/ (\E r \in Graph : Create(r) \/ Enter(r))
        \/ UpdateEnds \/ Confirm

Next == Begin \/ Work \/ CallFails \/ Crash \/ Meddle

Spec == Init /\ [][Next]_vars

-----------------------------------------------------------------------------
TypeOK ==
  /\ state \in [Graph -> 0 .. 2 + MaxMeddles + MaxCommands]
  /\ native \in [Native -> 0 .. 2 + MaxMeddles + MaxCommands]
  /\ cmd \in {"none", "plan", "up-plan", "drift"}
  /\ phase \in {"idle", "capture", "program", "gate", "refresh", "update",
                "confirm"}
  /\ (cmd = "none") = (phase = "idle")
  /\ doing \in [Graph -> 0 .. 2 + MaxMeddles + MaxCommands]
  /\ broken \in BOOLEAN
  /\ verdict.how \in {"none", "ok", "refused", "failed"}
  /\ {foreign, touched, taken} \subseteq SUBSET Native /\ cut \in BOOLEAN

(* What people made comes under the stack only where they laid hands on    *)
(* it while an update ran: after its gate on what the checkpoint held, or  *)
(* after its creation on what the update was about to enter.  What they    *)
(* made before is never taken over.                                        *)
OwnsWhatItHolds == taken \subseteq touched

(* An update never changes or drops what the checkpoint held when it was   *)
(* let through, unless somebody changed that very resource by hand after   *)
(* the gate; only the legacy provider is replaced by its bound form.       *)
ExistingStays ==
  cmd = "up-plan" /\ phase \in {"update", "confirm"} =>
    \A r \in Present(initial) :
      \/ state[r] = initial[r]
      \/ r = "provider" /\ initial[r] = 1 /\ state[r] = 2
      \/ r \in touched

(* An undisturbed command is never refused and never fails: the gate takes *)
(* the plans Pulumi makes of every checkpoint its own deliveries reach.    *)
(* Only a change by hand, a broken update or a drift before the delivery   *)
(* explains a refusal, or a plan that a newer update has overtaken.        *)
RefusesOnlyTheDisturbed ==
  verdict.how \in {"refused", "failed"} /\ meddles = 0 /\ breaks = 0 =>
    \/ verdict.of = "drift" /\ Present(state) # Graph
    \/ verdict.of = "up-plan" /\ \A p \in saved : p.on # state

(* A command cut short hinders later ones only by what it left beyond the  *)
(* baseline: on remains of the baseline the next delivery goes on, and an  *)
(* update that was let through fails only when it is cut short itself.     *)
OnlyRemainsHinder ==
  verdict.how \in {"refused", "failed"} /\ meddles = 0 /\ ~cut =>
    /\ verdict.how = "refused"
    /\ \/ verdict.of = "drift" /\ Present(state) # Graph
       \/ verdict.of = "up-plan" /\ \A p \in saved : p.on # state
       \/ ~(Present(state) \subseteq Base) /\ Present(state) # Graph

(* What a stack holds at any time: nothing people made unless they made it *)
(* while an update ran, and what it held as it was.                        *)
GraphInv == TypeOK /\ OwnsWhatItHolds /\ ExistingStays
=============================================================================
