-------------------------------- MODULE MCStack --------------------------------
(***************************************************************************)
(* What surrounds a Pulumi command on a stack: the stack's initialization, *)
(* the configuration of a command and the guardrails over its previews.    *)
(* The three share no state, so a behaviour is a behaviour of one of them, *)
(* with the others at rest where they begin.                               *)
(***************************************************************************)
EXTENDS StackConfiguration, StackInitialization, PreviewGuardrails

VARIABLE part   \* "configuration", "initialization" or "guardrails"

-----------------------------------------------------------------------------
(* What the previews show.                                                 *)
St(op, type, json) == [op |-> op, type |-> type, json |-> json]

(* Inline policies beside the policies of a role, a document that is not   *)
(* known before the update, and one of a policy that goes.                 *)
Documents ==
  { <<St("create", "policy", {}), St("delete", "policy", {"policy"})>>,
    <<St("create", "role", {"policy", "assumeRolePolicy", "inline"})>>,
    <<St("update", "bucket", {"policy"})>> }

(* A deletion and a replacement of each kind of resource, and resources    *)
(* that only cost.                                                         *)
Changes ==
  { << >>,
    <<St("create", "bucket", {}), St("delete", "vpc", {})>>,
    <<St("create", "bucket", {}), St("replace", "topic", {})>>,
    <<St("create", "topic", {}), St("replace", "bucket", {"policy"})>> }

Shown == <<Documents, Changes>>

-----------------------------------------------------------------------------
ConfigurationRests ==
  /\ key = "ours" /\ workload = NoWorkload /\ gated = FALSE
  /\ versions = <<[defect |-> "none", dataKey |-> CHOOSE k \in DataKeys : TRUE]>>

InitializationRests == keys = 0

MCInit ==
  /\ part \in {"configuration", "initialization", "guardrails"}
  /\ ConfigurationInit /\ (part = "configuration" \/ ConfigurationRests)
  /\ Init /\ (part = "initialization" \/ InitializationRests)
  /\ GuardrailsInit

MCNext ==
  \/ /\ part = "configuration" /\ ConfigurationNext
     /\ UNCHANGED <<part, vars, guardrailsVars>>
  \/ /\ part = "initialization" /\ Next
     /\ UNCHANGED <<part, configurationVars, guardrailsVars>>
  \/ /\ part = "guardrails" /\ GuardrailsNext
     /\ UNCHANGED <<part, configurationVars, vars>>

MCSpec == MCInit /\ [][MCNext]_<<part, configurationVars, vars, guardrailsVars>>
================================================================================
