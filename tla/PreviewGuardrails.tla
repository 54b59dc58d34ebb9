-------------------------- MODULE PreviewGuardrails --------------------------
(***************************************************************************)
(* The guardrails over Pulumi previews: the preview runner fills one       *)
(* directory of JSON artifacts, and the commands of                        *)
(* pulumi_ci_guardrails.py are run over all the JSON files found there, in *)
(* any order and any number of times.  Two of the commands write JSON      *)
(* files of their own, which the next command finds beside the previews;   *)
(* a preview run that fails leaves what it has written; and the IAM        *)
(* documents are validated by a pool of threads whose answers come in any  *)
(* order, late or not at all.                                              *)
(***************************************************************************)
EXTENDS Integers, Sequences, FiniteSets, SequencesExt

CONSTANTS Stacks,       \* the stacks PULUMI_PREVIEW_STACKS names
          Previews,     \* [1 .. MaxRuns -> step sequences previews can show]
          Pool,         \* the threads of the pool, 4 in the code
          MaxWeight,    \* --max-weighted-change
          MaxRuns       \* bound: preview runs

Helpers == {"iam-inputs", "cost-report"}
Files == Stacks \cup Helpers
Gates == {"destructive-gate", "validate-iam", "cost-proxy"}
GuardrailCommands == Gates \cup {"iam-inputs"}

Absent == [kind |-> "absent", run |-> 0, steps |-> << >>]
Partial(n) == [kind |-> "partial", run |-> n, steps |-> << >>]
Preview(n, steps) == [kind |-> "preview", run |-> n, steps |-> steps]
Helper(n) == [kind |-> "helper", run |-> n, steps |-> << >>]

VARIABLES
  dir,      \* the artifact directory: what each *.json file holds
  runs,     \* the preview runs begun
  todo,     \* the stacks the running preview has still to do
  whole,    \* whether the last preview run reached its end
  cmd,      \* the guardrail command that runs, "none" between them
  input,    \* the files that command was given
  docs,     \* the documents it validates, in order
  slot,     \* what each document's future holds
  read,     \* how many futures the main thread has read
  failed,   \* whether the main thread has met a failure
  last      \* the last verdict: the command, its exit status and its evidence

pool == <<input, docs, slot, read, failed>>
guardrailsVars == <<dir, runs, todo, whole, cmd, pool, last>>

(***************************************************************************)
(* The preview artifacts.  The state of a resource before or after a step  *)
(* is there as the operation says; its type is the type of the resource.   *)
(***************************************************************************)
NewOps == {"create", "update", "same", "replace", "create-replacement"}
OldOps == {"update", "same", "delete", "replace", "delete-replaced",
           "create-replacement"}
NewType(s) == IF s.op \in NewOps THEN s.type ELSE ""
OldType(s) == IF s.op \in OldOps THEN s.type ELSE ""

(* A mutant: a type taken from the state after the step only.              *)
NewTypeOnly(s) == NewType(s)

step_resource_type(s) ==
  IF NewType(s) # "" THEN NewType(s) ELSE OldType(s)

DESTRUCTIVE_OPS == {"delete", "replace", "delete-replaced"}
CriticalType(type) == type \in {"vpc", "role", "policy", "bucket"}

find_destructive_steps(steps) ==
  {i \in DOMAIN steps : /\ steps[i].op \in DESTRUCTIVE_OPS
                        /\ CriticalType(step_resource_type(steps[i]))}

(* The weight of the first cost driver that a type matches.                *)
Weight(type) == CASE type = "bucket" -> 4
                  [] type \in {"role", "topic"} -> 1
                  [] OTHER -> 0

cost_proxy_report(steps) ==
  FoldSeq(LAMBDA s, sum : sum + IF s.op \in {"create", "replace"}
                                THEN Weight(step_resource_type(s)) ELSE 0,
          0, steps)

(***************************************************************************)
(* The policy documents of a step: the fields its type carries, and inline *)
(* policies of any type, where they parse as a JSON object.                *)
(***************************************************************************)
iam_policy_fields(type) ==
  CASE type = "role" -> {"policy", "assumeRolePolicy"}
    [] type \in {"policy", "bucket", "topicPolicy"} -> {"policy"}
    [] OTHER -> {}

PolicyType(type, field) ==
  IF field = "inline" \/ (type \in {"role", "policy"} /\ field # "assumeRolePolicy")
  THEN "IDENTITY_POLICY" ELSE "RESOURCE_POLICY"

validate_policy_resource_type(type, field) ==
  CASE PolicyType(type, field) = "IDENTITY_POLICY" -> "none"
    [] field = "assumeRolePolicy" -> "AWS::IAM::AssumeRolePolicyDocument"
    [] type = "bucket" -> "AWS::S3::Bucket"
    [] OTHER -> "none"

(* What a preview may show: a step, the type of its resource, and those of *)
(* its policy fields that parse.                                           *)
ResourceTypes == {"vpc", "role", "policy", "bucket", "topic", "topicPolicy"}
PolicyFields(type) == iam_policy_fields(type) \cup {"inline"}
ShownSteps ==
  {s \in [op : NewOps \cup OldOps, type : ResourceTypes,
          json : SUBSET {"policy", "assumeRolePolicy", "inline"}] :
     s.json \subseteq PolicyFields(s.type)}

ASSUME GuardrailAssumption ==
  /\ Pool \in Nat \ {0} /\ MaxWeight \in Nat /\ MaxRuns \in Nat \ {0}
  /\ \A n \in 1 .. MaxRuns : \A steps \in Previews[n] : steps \in Seq(ShownSteps)
  /\ IsFiniteSet(Stacks) /\ Stacks \cap Helpers = {}

Artifacts ==
  [kind : {"absent", "partial", "preview", "helper"}, run : 0 .. MaxRuns, steps : Seq(ShownSteps)]

Document(file, i, s, field) ==
  [file |-> file, step |-> i, type |-> step_resource_type(s), field |-> field,
   policy |-> PolicyType(step_resource_type(s), field),
   validator |-> validate_policy_resource_type(step_resource_type(s), field)]

StepDocuments(file, i, s) ==
  IF s.op \notin NewOps THEN {}
  ELSE {Document(file, i, s, field) :
          field \in PolicyFields(step_resource_type(s)) \cap s.json}

extract_iam_validation_inputs(file) ==
  UNION {StepDocuments(file, i, dir[file].steps[i]) : i \in DOMAIN dir[file].steps}

(***************************************************************************)
(* The preview runner.  It removes every JSON file, then selects and       *)
(* previews one stack after the other; any of these steps may fail, before *)
(* the stack's file is opened or after.                                    *)
(***************************************************************************)
Verdict(c, status, files) ==
  last' = [cmd |-> c, status |-> status, run |-> runs, whole |-> whole,
           files |-> [f \in files |-> dir[f]], docs |-> docs, answers |-> slot]

NoVerdict == [cmd |-> "none", status |-> "none", run |-> 0, whole |-> FALSE,
              files |-> << >>, docs |-> << >>, answers |-> << >>]

Idle == cmd = "none" /\ todo = << >>

(* A mutant: nothing cleared.                                              *)
ClearNothing == dir

Cleared == [f \in Files |-> Absent]

BeginPreview ==
  /\ Idle
  /\ runs < MaxRuns
  /\ runs' = runs + 1
  /\ dir' = Cleared
  /\ todo' = SetToSeq(Stacks)
  /\ whole' = FALSE
  /\ last' = NoVerdict
  /\ UNCHANGED <<cmd, pool>>

PreviewStack ==
  /\ todo # << >>
  /\ \E steps \in Previews[runs] :
       dir' = [dir EXCEPT ![Head(todo)] = Preview(runs, steps)]
  /\ todo' = Tail(todo)
  /\ whole' = (Tail(todo) = << >>)
  /\ UNCHANGED <<runs, cmd, pool, last>>

PreviewFails ==
  /\ todo # << >>
  /\ \E opened \in BOOLEAN :
       dir' = IF opened THEN [dir EXCEPT ![Head(todo)] = Partial(runs)]
                        ELSE dir
  /\ todo' = << >>
  /\ UNCHANGED <<runs, whole, cmd, pool, last>>

(***************************************************************************)
(* The commands over dir/*.json.  With no such file the make targets run   *)
(* the preview first, and the shell's loop of the workflow refuses.        *)
(***************************************************************************)
Found == {f \in Files : dir[f].kind # "absent"}

(* A mutant: every JSON file taken for a preview.                          *)
EveryFile(found) == found

preview_input_files(found) == found \ {"iam-inputs"}

(* load_preview refuses what is no JSON object: half a file, or the list   *)
(* a helper wrote.                                                         *)
Loads(files) == \A f \in files : dir[f].kind = "preview"

ExitOf(c, files) ==
  IF /\ Loads(files)
     /\ c = "destructive-gate" =>
          \A f \in files : find_destructive_steps(dir[f].steps) = {}
     /\ c = "cost-proxy" =>
          \A f \in files : cost_proxy_report(dir[f].steps) <= MaxWeight
  THEN "pass" ELSE "fail"

(* The commands that only read: the verdict is there at once; a command    *)
(* asked to write its helper file does so before it returns its verdict.   *)
RunCommand(c, writes) ==
  /\ Idle
  /\ Found # {}
  /\ LET files == preview_input_files(Found)
     IN  /\ Verdict(c, ExitOf(c, files), files)
         /\ dir' = IF writes # "nothing" /\ Loads(files)
                   THEN [dir EXCEPT ![writes] = Helper(runs)] ELSE dir
  /\ UNCHANGED <<runs, todo, whole, cmd, pool>>

RunDestructiveGate == RunCommand("destructive-gate", "nothing")
WriteIamInputs == RunCommand("iam-inputs", "iam-inputs")
RunCostProxy == \E writes \in {"nothing", "cost-report"} :
                  RunCommand("cost-proxy", writes)

(***************************************************************************)
(* validate-iam.  executor.map hands every document to the pool in one     *)
(* order; the main thread reads the futures in that order.                 *)
(***************************************************************************)
AllDocuments(files) == UNION {extract_iam_validation_inputs(f) : f \in files}

RunValidateIam ==
  /\ Idle
  /\ Found # {}
  /\ LET files == preview_input_files(Found)
         all == IF Loads(files) THEN AllDocuments(files) ELSE {}
     IN  IF all = {}
         THEN /\ Verdict("validate-iam",
                         IF Loads(files) THEN "pass" ELSE "fail", files)
              /\ UNCHANGED <<cmd, pool>>
         ELSE /\ cmd' = "validate-iam"
              /\ input' = files
              /\ docs' = SetToSeq(all)
              /\ slot' = [i \in DOMAIN docs' |-> "pending"]
              /\ last' = NoVerdict
              /\ UNCHANGED <<read, failed>>
  /\ UNCHANGED <<dir, runs, todo, whole>>

Threads == IF Len(docs) < Pool THEN Len(docs) ELSE Pool
At(status) == {i \in DOMAIN slot : slot[i] = status}

Take ==
  /\ cmd = "validate-iam"
  /\ Cardinality(At("running")) < Threads
  /\ \E i \in At("pending") :
       /\ \A j \in At("pending") : i <= j
       /\ slot' = [slot EXCEPT ![i] = "running"]
  /\ UNCHANGED <<dir, runs, todo, whole, cmd, input, docs, read, failed, last>>

(* The answer of accessanalyzer validate-policy: clean or with a finding   *)
(* that is no failure, with a failing finding, not JSON, an exit status    *)
(* that is not 0, or none within the 120 seconds of the call.              *)
Answers == {"clean", "finding", "malformed", "refused", "late"}

Answer(i) ==
  /\ cmd = "validate-iam"
  /\ slot[i] = "running"
  /\ \E a \in Answers : slot' = [slot EXCEPT ![i] = a]
  /\ UNCHANGED <<dir, runs, todo, whole, cmd, input, docs, read, failed, last>>

Raises(a) == a \in {"refused", "late"}

(* A mutant: an answer that cannot be decoded taken for one without        *)
(* findings.                                                               *)
FindingsOnly(a) == a = "finding"

ValidationFails(a) == a \in {"finding", "malformed"}

(* The exception of a future ends the reading and cancels the futures      *)
(* that no thread has taken.                                               *)
Cancelled == [i \in DOMAIN slot |->
                IF slot[i] = "pending" THEN "cancelled" ELSE slot[i]]

Raised == \E i \in 1 .. read : Raises(slot[i])

Read ==
  /\ cmd = "validate-iam"
  /\ ~Raised
  /\ read < Len(docs)
  /\ slot[read + 1] \notin {"pending", "running"}
  /\ read' = read + 1
  /\ failed' = (failed \/ ValidationFails(slot[read']))
  /\ slot' = IF Raises(slot[read']) THEN Cancelled ELSE slot
  /\ UNCHANGED <<dir, runs, todo, whole, cmd, input, docs, last>>

Finish(status) ==
  /\ Verdict("validate-iam", status, input)
  /\ cmd' = "none"
  /\ input' = {} /\ docs' = << >> /\ slot' = << >> /\ read' = 0 /\ failed' = FALSE
  /\ UNCHANGED <<dir, runs, todo, whole>>

(* Mutants: the pool abandoned while calls run, and a verdict that looks   *)
(* at the last future only.                                                *)
ReturnAtOnce ==
  /\ cmd = "validate-iam"
  /\ Raised \/ read = Len(docs)
  /\ Finish(IF Raised \/ failed THEN "fail" ELSE "pass")

ReturnOfLast ==
  /\ cmd = "validate-iam"
  /\ Raised \/ read = Len(docs)
  /\ At("running") = {}
  /\ Finish(IF Raised \/ ValidationFails(slot[read]) THEN "fail" ELSE "pass")

(* The pool's exit waits for the threads that still run.                   *)
Return ==
  /\ cmd = "validate-iam"
  /\ Raised \/ read = Len(docs)
  /\ At("running") = {}
  /\ Finish(IF Raised \/ failed THEN "fail" ELSE "pass")

GuardrailsInit ==
  /\ dir = [f \in Files |-> Absent]
  /\ runs = 0
  /\ todo = << >>
  /\ whole = FALSE
  /\ cmd = "none"
  /\ input = {} /\ docs = << >> /\ slot = << >> /\ read = 0 /\ failed = FALSE
  /\ last = NoVerdict

Validation == Take \/ (\E i \in DOMAIN slot : Answer(i)) \/ Read \/ Return

GuardrailsNext ==
  \/ BeginPreview \/ PreviewStack \/ PreviewFails
  \/ RunDestructiveGate \/ WriteIamInputs \/ RunCostProxy
  \/ RunValidateIam
  \/ Validation

GuardrailsSpec == GuardrailsInit /\ [][GuardrailsNext]_guardrailsVars

-----------------------------------------------------------------------------
GuardrailsTypeOK ==
  /\ dir \in [Files -> Artifacts]
  /\ runs \in 0 .. MaxRuns
  /\ todo \in Seq(Stacks) /\ whole \in BOOLEAN
  /\ cmd \in {"none", "validate-iam"}
  /\ input \subseteq Files
  /\ docs \in Seq(Range(docs))
  /\ slot \in [1 .. Len(docs) -> Answers \cup {"pending", "running", "cancelled"}]
  /\ read \in 0 .. Len(docs)
  /\ failed \in BOOLEAN
  /\ last.cmd \in GuardrailCommands \cup {"none"}
  /\ last.status \in {"pass", "fail", "none"}

Passed(c) == last.cmd = c /\ last.status = "pass"

(* A verdict speaks of the last preview run begun and of no file an        *)
(* earlier one has left, it had a preview to speak of, and when that run   *)
(* reached its end it speaks of every stack.                               *)
VerdictIsOfLastRun ==
  last.status = "pass" =>
    /\ \E f \in Stacks : f \in DOMAIN last.files
    /\ \A f \in DOMAIN last.files : last.files[f].run = last.run
    /\ last.whole => Stacks \subseteq DOMAIN last.files

(* What the destructive gate lets through destroys no protected resource   *)
(* in any stack it was shown, whichever state of the step is there.        *)
PassedDestroysNothing ==
  Passed("destructive-gate") =>
    \A f \in DOMAIN last.files : \A i \in DOMAIN last.files[f].steps :
      LET s == last.files[f].steps[i]
      IN  s.op \in {"delete", "replace", "delete-replaced"} =>
            s.type \notin {"vpc", "role", "policy", "bucket"}

(* The helper files a command writes never turn the verdict of another: as *)
(* long as the cost report is written elsewhere, a gate over a whole       *)
(* preview run fails for what the previews show and for nothing else.      *)
HelpersTurnNoVerdict ==
  /\ last.cmd = "destructive-gate" /\ last.status = "fail"
  /\ last.whole /\ "cost-report" \notin DOMAIN last.files
  => \E f \in Stacks : \E i \in DOMAIN last.files[f].steps :
       /\ last.files[f].steps[i].op \in {"delete", "replace", "delete-replaced"}
       /\ last.files[f].steps[i].type \in {"vpc", "role", "policy", "bucket"}

(* Validation passes only when every document that parses, of every step   *)
(* that leaves a resource behind, was answered, and by an answer that was  *)
(* understood and held no failing finding; each with the policy type of    *)
(* its field.                                                              *)
NothingPassesUnvalidated ==
  Passed("validate-iam") =>
    \A f \in DOMAIN last.files : \A i \in DOMAIN last.files[f].steps :
      LET s == last.files[f].steps[i]
      IN  s.op \notin {"delete", "delete-replaced"} =>
            \A field \in s.json : \E k \in DOMAIN last.docs :
              /\ last.docs[k].file = f /\ last.docs[k].step = i
              /\ last.docs[k].type = s.type /\ last.docs[k].field = field
              /\ last.docs[k].policy = "RESOURCE_POLICY" <=>
                   field = "assumeRolePolicy" \/
                   (field = "policy" /\ s.type \notin {"role", "policy"})
              /\ last.answers[k] = "clean"

(* A failing answer is never outrun: whatever the order in which the       *)
(* answers came, a validation during which one failed has failed, and it   *)
(* has failed for such an answer alone.                                    *)
VerdictIsOfAnswers ==
  last.cmd = "validate-iam" /\ last.docs # << >> =>
    (last.status = "fail" <=> \E k \in DOMAIN last.answers :
                                last.answers[k] \in Answers \ {"clean"})

(* No call of a validation is left when its verdict is given.              *)
NoCallOutlives == \A k \in DOMAIN last.answers : last.answers[k] # "running"

(* All that the verdicts of the guardrails may be relied upon for.         *)
GuardrailsInv ==
  /\ GuardrailsTypeOK
  /\ VerdictIsOfLastRun /\ PassedDestroysNothing /\ HelpersTurnNoVerdict
  /\ NothingPassesUnvalidated /\ VerdictIsOfAnswers /\ NoCallOutlives
=============================================================================
