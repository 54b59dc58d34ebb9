---------------------------- MODULE ServiceWorker ----------------------------
(***************************************************************************)
(* The three jobs of a TEST delivery that run Pulumi, each on its own      *)
(* runner: the host commands of service_execution_host.py around one       *)
(* container, the worker of service_execution_worker.py in it, and the     *)
(* transport that hands programs their protected inputs and collects what  *)
(* they leave.  Between any two steps a request may lapse (a push, a merge,*)
(* a dismissed review) and be good again (the review given anew, the push  *)
(* taken back), and a step may fail half way.                              *)
(***************************************************************************)
EXTENDS Naturals, Sequences

CONSTANT MaxTries    \* bound: deliveries tried one after the other

ASSUME WorkerAssumption == MaxTries \in Nat \ {0}

Jobs == <<"test_preview", "test_apply", "test_post_apply_drift">>
Names == {"pulumi-plan", "pulumi-preview"}
Places == {"output",    \* what the program writes, in a place it may write to
           "repo",      \* .artifacts of the worker, out of the program's reach
           "input",     \* the protected copies a program is given
           "public",    \* the directory the host shares with the container
           "host"}      \* .artifacts of the runner, which the upload steps read
Contents == {"absent", "half", "whole"}

VARIABLES
  valid,     \* whether the request, its review and its base still stand
  try,       \* deliveries begun
  job,       \* the current job, an index of Jobs; 0 when none runs
  at,        \* the current step of the job
  running,   \* whether a Pulumi program runs
  tree,      \* what each place of the job's machines holds
  uploads,   \* what the delivery has uploaded
  stale      \* history: the request has stood at no moment since the job
             \* began or, later, since its last program ended

vars == <<valid, try, job, at, running, tree, uploads, stale>>

-----------------------------------------------------------------------------
(* The steps of a job.  recheck runs before the configuration, before and  *)
(* after the credentials, once more before an apply has its downloads      *)
(* used, and first of all in execute; admit, source and final are the      *)
(* worker's, inputs and before the transport's.                            *)
Program(j) == IF j = 2 THEN "up" ELSE "preview"

Before(j) ==
  <<"recheck", "recheck", "recheck">>
  \o (IF j = 2 THEN <<"download", "recheck">> ELSE << >>)
  \o <<"recheck", "admit">>
  \o (IF j = 2 THEN <<"replay">> ELSE << >>)
  \o <<"source", "login", "select", "inputs">>

After(j) ==
  IF j = 1 THEN <<"publish", "copy", "upload-preview", "upload-plan">>
  ELSE << >>

(* Mutants: no admission after the program, and none right before it.      *)
FlowUnfinished(j) == Before(j) \o <<"before", Program(j)>> \o After(j)
FlowOnceAdmitted(j) == Before(j) \o <<Program(j), "final">> \o After(j)

Flow(j) == Before(j) \o <<"before", Program(j), "final">> \o After(j)

Step == IF job = 0 THEN "none" ELSE Flow(job)[at]

Nothing == [p \in Places |-> [n \in Names |-> "absent"]]
NoUploads == [n \in Names |-> "absent"]

(* A job ends: it failed, and the delivery with it, or its last step is    *)
(* done, and the next job of the delivery may begin on a machine of its    *)
(* own.                                                                    *)
Fail ==
  /\ job' = 0 /\ at' = 1
  /\ tree' = Nothing
  /\ UNCHANGED <<valid, try, running, uploads>>

Done ==
  IF at < Len(Flow(job)) THEN job' = job /\ at' = at + 1
  ELSE job' = (IF job < Len(Jobs) THEN job + 1 ELSE 0) /\ at' = 1

Fresh == at = Len(Flow(job))

BeginDelivery ==
  /\ job = 0
  /\ try < MaxTries
  /\ try' = try + 1
  /\ job' = 1 /\ at' = 1
  /\ tree' = Nothing
  /\ uploads' = NoUploads
  /\ stale' = ~valid
  /\ UNCHANGED <<valid, running>>

-----------------------------------------------------------------------------
(* The world: the request lapses and is good again, at any time and any    *)
(* number of times.                                                        *)
Lapse ==
  /\ valid
  /\ valid' = FALSE
  /\ UNCHANGED <<try, job, at, running, tree, uploads, stale>>

Reinstate ==
  /\ ~valid
  /\ valid' = TRUE
  /\ stale' = FALSE
  /\ UNCHANGED <<try, job, at, running, tree, uploads>>

World == Lapse \/ Reinstate

(* recheck, admit, source, before and final: the requester, the review and *)
(* the base are read anew; the head must be the one admitted at first.     *)
Admissions == {"recheck", "admit", "source", "before", "final"}

Check ==
  /\ Step \in Admissions
  /\ valid
  /\ Done
  /\ tree' = IF Fresh THEN Nothing ELSE tree
  /\ stale' = IF Fresh THEN ~valid ELSE stale
  /\ UNCHANGED <<valid, try, running, uploads>>

(* A mutant: a refused request waited for.                                 *)
RefuseWaiting ==
  /\ Step \in Admissions
  /\ ~valid
  /\ UNCHANGED vars

Refuse ==
  /\ Step \in Admissions
  /\ ~valid
  /\ Fail
  /\ UNCHANGED stale

-----------------------------------------------------------------------------
(* Copies of the two directories, one after the other; a copy may fail     *)
(* with the first directory done or not, and the target must be new.       *)
Copied(from, to, names) ==
  [tree EXCEPT ![to] = [n \in Names |->
     IF n \in names THEN tree[from][n] ELSE tree[to][n]]]

Copy(step, from, to) ==
  /\ Step = step
  /\ tree[to] = NoUploads
  /\ \A n \in Names : tree[from][n] # "absent"
  /\ tree' = Copied(from, to, Names)
  /\ Done
  /\ UNCHANGED <<valid, try, running, uploads, stale>>

Download ==
  /\ Step = "download"
  /\ \A n \in Names : uploads[n] # "absent"
  /\ tree' = [tree EXCEPT !["host"] = uploads]
  /\ Done
  /\ UNCHANGED <<valid, try, running, uploads, stale>>

Replay == Copy("replay", "host", "repo")
Publish == Copy("publish", "repo", "public")
HostCopy == Copy("copy", "public", "host")

UploadOne(step, name) ==
  /\ Step = step
  /\ tree["host"][name] # "absent"
  /\ uploads' = [uploads EXCEPT ![name] = tree["host"][name]]
  /\ Done
  /\ tree' = IF Fresh THEN Nothing ELSE tree
  /\ stale' = IF Fresh THEN ~valid ELSE stale
  /\ UNCHANGED <<valid, try, running>>

Upload == UploadOne("upload-preview", "pulumi-preview")
          \/ UploadOne("upload-plan", "pulumi-plan")

(* A step breaks down: a bound of copy_tree, an API, the machine.          *)
Moves == {"download", "replay", "publish", "copy",
          "upload-preview", "upload-plan"}

Breaks ==
  /\ Step \in Moves
  /\ Fail
  /\ UNCHANGED stale

-----------------------------------------------------------------------------
(* The transport's call: the inputs of the command, its configuration and  *)
(* the plan it is to replay, are copied where the program cannot replace   *)
(* them, and then the program begins.                                      *)
Inputs ==
  /\ Step = "inputs"
  /\ tree' = Copied("repo", "input", {"pulumi-plan"})
  /\ Done
  /\ UNCHANGED <<valid, try, running, uploads, stale>>

Programs == {"login", "select", "preview", "up"}

Begin ==
  /\ Step \in Programs
  /\ ~running
  /\ running' = TRUE
  /\ UNCHANGED <<valid, try, job, at, tree, uploads, stale>>

(* While it runs, a preview writes its plan; the preview's own file is     *)
(* opened by the runner and filled with the output of a program that ended *)
(* well.                                                                   *)
Write ==
  /\ running
  /\ Step = "preview"
  /\ tree["output"]["pulumi-plan"] # "whole"
  /\ tree' = [tree EXCEPT
                !["output"]["pulumi-plan"] =
                   IF tree["output"]["pulumi-plan"] = "absent" THEN "half"
                   ELSE "whole",
                !["repo"]["pulumi-preview"] = "half"]
  /\ UNCHANGED <<valid, try, job, at, running, uploads, stale>>

(* _collect_saved_plan, and the output of a program with exit status 0.    *)
Collect ==
  IF Step = "preview"
  THEN [tree EXCEPT !["repo"]["pulumi-plan"] = tree["output"]["pulumi-plan"],
                    !["repo"]["pulumi-preview"] = "whole"]
  ELSE tree

(* What the end of a program does, well or not.                            *)
Ends ==
  /\ running
  /\ running' = FALSE
  /\ stale' = ~valid
  /\ UNCHANGED <<valid, try, uploads>>

ProgramEnds ==
  /\ Step = "preview" => tree["output"]["pulumi-plan"] = "whole"
  /\ Ends /\ Done /\ tree' = Collect

(* A mutant: whatever a failed preview left collected, and the job gone on *)
(* with.                                                                   *)
FailureIgnored ==
  /\ Step = "preview" => tree["output"]["pulumi-plan"] # "absent"
  /\ Ends /\ Done /\ tree' = Collect

ProgramFails ==
  Ends /\ job' = 0 /\ at' = 1 /\ tree' = Nothing

-----------------------------------------------------------------------------
Init ==
  /\ valid = TRUE
  /\ try = 0
  /\ job = 0 /\ at = 1
  /\ running = FALSE
  /\ tree = Nothing
  /\ uploads = NoUploads
  /\ stale = FALSE

Work ==
  \/ Check \/ Refuse
  \/ Download \/ Replay \/ Publish \/ HostCopy \/ Upload \/ Breaks
  \/ Inputs \/ Begin
  \/ ProgramEnds \/ ProgramFails

Next == BeginDelivery \/ World \/ Write \/ Work

(* A job goes on until it ends: its steps have time limits.                *)
Spec == Init /\ [][Next]_vars /\ WF_vars(Write) /\ WF_vars(Work)

-----------------------------------------------------------------------------
(* Every place and artifact has its type.                                  *)
TypeOK ==
  /\ valid \in BOOLEAN /\ running \in BOOLEAN /\ stale \in BOOLEAN
  /\ try \in 0 .. MaxTries
  /\ job \in 0 .. Len(Jobs)
  /\ job # 0 => at \in 1 .. Len(Flow(job))
  /\ tree \in [Places -> [Names -> Contents]]
  /\ uploads \in [Names -> Contents]
  /\ running => Step \in Programs

(* What is uploaded is whole, and no artifact leaves a delivery unless its *)
(* request has stood at some moment after the program that made it ended:  *)
(* what was admitted before the program, however often, does not count.    *)
PublishedIsAdmitted ==
  /\ \A n \in Names : uploads[n] \in {"absent", "whole"}
  /\ job = 1 /\ (tree["public"] # NoUploads \/ tree["host"] # NoUploads)
       => ~stale

(* No preview and no update begins unless its request has stood at some    *)
(* moment after the selection before it ended: each has an admission of    *)
(* its own, however long the programs before it took.  A lapse that was    *)
(* undone before that admission leaves no trace; the code has no memory of *)
(* it.                                                                     *)
ProgramsAreAdmitted ==
  [][~running /\ running' /\ Step \in {"preview", "up"} => ~stale]_vars

(* Every delivery ends, and no program outlives it.                        *)
DeliveryEnds == job # 0 ~> (job = 0 /\ ~running)

(* An update replays the whole plan that was uploaded for it, beside the   *)
(* preview that was uploaded with it.                                      *)
ReplaysUploaded ==
  running /\ Step = "up" =>
    /\ uploads["pulumi-plan"] = "whole"
    /\ tree["input"]["pulumi-plan"] = uploads["pulumi-plan"]
    /\ tree["repo"] = uploads

(* Everything the worker promises of its state: its type, that only what   *)
(* was admitted is published, and that updates replay what was uploaded.   *)
WorkerInv == TypeOK /\ PublishedIsAdmitted /\ ReplaysUploaded
=============================================================================
