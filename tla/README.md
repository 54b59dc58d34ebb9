# A TLA+ model of the infrastructure delivery

The repository holds a Pulumi program and the machinery that is allowed to run
it: a comment such as `/pulumi test up` on a reviewed pull request becomes a
GitHub Actions run that previews, applies, re-reads and certifies the TEST
registry stack. The program itself is declarative. What can go wrong lies in
the machinery: many short jobs, each of which reads GitHub, S3 and AWS through
separate calls, with queues, re-runs, failures and other people's commands
between them. This directory models that machinery, checks it with TLC and
proves part of it with TLAPS.

## 1. The system

| Component | Code | State it keeps | Operations |
|---|---|---|---|
| Command intake | `.github/workflows/pulumi-pr-commands.yml`, `pulumi_pr_comment.py` | the intake artifact, one concurrency group per pull request | parse a comment, record the request, dispatch it, answer |
| Command preflight | `pulumi_command_preflight.py` | commit statuses `Pulumi command claim/<comment>` | authenticate the request, check deadline and permission, consume the comment |
| TEST workflow | `.github/workflows/self-deploy.yml` | job results, artifacts, the state group `pulumi-state-...-test-test` | preflight, source, preview, diff gate, apply, drift, observation, proof, dispatch, comment |
| Reviewed source | `reviewed_source_admission.py` | none; reads GitHub | two snapshots of the pull request, the reviewer's permission and the branch rules around them |
| Phase admission, artifacts | `poc_phase_admission.py`, `poc_phase_source_adapter.py`, `poc_source_artifact.py`, `poc_contract.py` | the source artifact | bind contract, source and review |
| Isolated execution | `service_execution_host.py`, `_worker.py`, `_transport.py`, `_process.py`, `service_boundary_worker.py` | the worker's container, its outputs | admit, run a program under a time limit, admit again, hand out results |
| Registry runner | `poc_registry_runner.py`, `poc_registry_phase_entrypoint.py` | evidence of captures and inventories | review, capture, prepare, run, gate |
| Saved plans | `run_pulumi_command.py`, `_pulumi_stack_config.py`, `_pulumi_command_support.py`, ... | plan files, the plan manifest, the checkpoint | plan, apply a saved plan, drift |
| Backend observer | `poc_backend_observer.py` | none; reads S3 | capture a checkpoint through a chain of reads |
| Registry plan gate | `poc_registry_plan.py`, `poc_mail_prerequisite.py`, `poc_provider_runtime.py` | none | predicates on the preview's resource graph |
| Registry completion | `poc_registry_completion.py` | a deployment record with a success status | observe twice, prepare, publish, read back |
| Publisher dispatch | `poc_publisher_dispatch.py` | none; one POST | prepare, dispatch once, verify the native run |
| Scheduled drift | `.github/workflows/scheduled-drift.yml`, `poc_scheduled_registry_drift.py` | the same state group | read-only comparison |
| Governance promotion | `governance_promotion.py`, `governance_paths.py` | two deployments with statuses, a commit status | report scope, prepare a proof, publish it |
| Stack initialization | `initialize_service_stack.py`, `initialize-stack.yml` | the empty checkpoint, the same state group | list, create or select, verify |
| Workload phase | `poc_workload_*.py`, `poc_secret_observation.py` | none | evaluate documents; no workflow starts it |
| Guardrails | `pulumi_ci_guardrails.py`, `publish_pulumi_preview_summary.py`, `validate_ci_environment.py` | pull request comments | report one preview |
| Repository controls | `configure_github_repository_controls.py`, ... | GitHub settings | compare, set |
| Program, policies, tooling, quality workflows | `pulumi/`, `policy/`, the remaining scripts and workflows | none of the above | |

They interact through four shared things, and the models are cut along them:

- *GitHub as a database without transactions*: comments, heads, reviews,
  permissions, rules, statuses and deployments are read one call at a time while
  people change them.
- *Concurrency groups*: one for the intake runs and one for the command runs of
  a pull request, one for the state of a stack. A group runs one member, keeps
  one waiting, and cancels the waiting one when a newcomer arrives.
- *The Pulumi checkpoint and its lock in S3*, which commands, scheduled jobs and
  operators at a terminal share.
- *Artifacts of a run*, which later jobs of the same run trust because of
  `needs`, the attempt number and recorded checkpoint versions.

What is hard: the state group is released between preview and apply, so
everything may happen there; an update can fail part way or die with its lock;
jobs are re-run; a POST whose answer is lost has happened; a comment can be
dispatched more than once; a check followed by a write is not atomic; deadlines
race with queues. `PROJECT.json` lists these hazards at their lines with the
properties that answer them. What makes each component correct:

- *intake and preflight*: whatever is dispatched, one run of a comment acts on it
  at most, on what its intake recorded first, and in time; it is consumed twice only
  across a re-run of its intake; runs of one pull request take turns; nobody waits
  for ever.
- *reviewed source*: an admission names an approval that never lapsed while it
  was being checked, and everything checked was true at one moment.
- *backend observer*: an accepted capture is one version, whole, and current.
- *the delivery*: a plan is replayed only on the checkpoint it was computed on;
  no update continues another's broken one; updates follow the order of main;
  a receipt describes what the run's own update left; the publisher hears of it
  at most once; the group and the lock agree; every run ends.
- *isolated execution*: a program's result is whole or it is an error; it ends
  within its deadlines and leaves no process; what leaves a job had a request that
  stood at some moment after the program that made it ended; an update replays
  exactly what was uploaded.
- *saved plans*: the files on disk are those of one finished plan command or
  cannot be replayed; a replay is for the same stack, project, commit and
  checkpoint as the plan, and not too old.
- *stack configuration*: the key a command would save with is that of the
  checkpoint it was checked against; the provider cannot be anything but the target;
  workload settings come from one source.
- *registry graph*: what people made comes under the stack only where they laid
  hands on it while an update ran; nothing that exists is changed; a command cut
  short hinders later ones only by what it left beyond the baseline; no undisturbed
  delivery is refused.
- *promotion*: a success status has both deployments of the same head and base
  behind it; a scope run neither erases a proof that holds nor leaves one that
  does not; no head is forgotten.
- *initialization*: a stack is created once, only where there is none, for a
  request verified inside the state group; a receipt tells what happened.
- *repository controls*: whatever fails half way, settings only become stricter,
  an environment is never open in between, and the next run can finish.
- *guardrails*: the verdict is about the last preview run, all of it and nothing
  but it, and every document has been validated.

## 2. Modules

| Module | Models | Role |
|---|---|---|
| `ConcurrencyGroup` | a group with `cancel-in-progress: false` | used through `INSTANCE` by the core, the intake, the promotion and the initialization |
| `RegistryDelivery` | `self-deploy.yml` and the scripts of its jobs | the core: several runs, one checkpoint, the world around them |
| `DeliveryPromise` | nothing in the code; the abstract specification | what `RegistryDelivery` implements |
| `CommandIntake` | the intake workflow, the preflight job and the job that prepares the source | comments, requests, claims and the two groups of a pull request |
| `ReviewedSource` | `verify_reviewed_source`, read by read | justifies one atomic step of the core |
| `BackendCapture` | `_capture_backend`, read by read | justifies another atomic step of the core |
| `SavedPlan` | `run_pulumi_command.py` and the two preview scripts | the plan files, the manifest and their replay, on several stacks |
| `PlanPromise` | nothing in the code; the abstract specification | what `SavedPlan` implements |
| `StackConfiguration` | `prepared_stack_configuration` | the private configuration of one command against a moving checkpoint |
| `RegistryGraph` | the registry program, its gate and the update | the fixed graph, resource by resource |
| `ServiceWorker` | host, worker and transport of the TEST jobs | what is admitted, copied, uploaded and replayed |
| `ChildProcess` | `service_execution_process.py` | one program: pipes, deadlines, descendants |
| `ServiceExecution` | both together | every program of `ServiceWorker` is a call of `ChildProcess` |
| `GovernancePromotion` | `governance_promotion.py` and its workflow | scope runs, proofs, deployments and the commit status |
| `StackInitialization` | `initialize_service_stack.py` and its workflow | two nested groups, listing, creation, receipt |
| `ControlSettings` | payloads and verification of rules and environments | operators, and the sessions, shared by the next two |
| `RepositoryControls`, `DriftControls` | the two modes of `configure_github_repository_controls.py` | sessions of API calls that fail, overlap and are repeated |
| `PreviewGuardrails` | `run_pulumi_preview.py`, `pulumi_ci_guardrails.py` | the artifact directory, five gates, the pool of the IAM validation |
| `..._proofs` | | TLAPS proofs about the module they are named after; `Observations_proofs` is about `ReviewedSource` and `BackendCapture`, `ServiceExecution_proofs` also about its two parts, `StackPreparation_proofs` about `StackConfiguration`, `StackInitialization` and `PreviewGuardrails`, `Governance_proofs` about `GovernancePromotion`, `RepositoryControls` and `DriftControls`, `RegistryDelivery_proofs` also about the refinement |
| `MC...` | | constants of the TLC runs |

Two conventions. A module's invariants that have a run of their own are named
after what they say; where several belong together the module joins them, with its
type invariant, in one invariant named after the module (`DeliveryInv`, `PlansInv`,
`WorkerInv`, ...), and each part has a mutant of its own. And where modules
share no state and each is soon explored, one MC module holds them side
by side: a variable `part`, fixed in the initial state, says whose steps are
taken, and the variables of the others rest at a fixed initial value. Nothing
is composed by that; it is one TLC run for several instances.

### RegistryDelivery

A run has a `status` (not started, active, done), an `attempt` (1 or 2, a second
one being "re-run failed jobs" or "re-run all jobs"), a `stage`, which is the job
it has reached, and a `step` inside that job. `JobSucceeds` follows `needs`;
`JobEnds` is a failed or cancelled job, after which the rest of the run is
skipped and only `CommentResult` (`if: always()`) remains. One step of the model
is one point at which the code reads or writes what others can change:

| Step | Code |
|---|---|
| `Enqueue` | the `concurrency:` key of `test_preview`, `test_apply`, `test_drift`, `test_registry_observation`; displaces the waiting job |
| `Recheck` | the recheck steps before credentials |
| `Admit` | the worker's admission of attempt, source, contract and review |
| `Capture` | the runner's first capture of the checkpoint |
| `Prepare` | `prepared_stack_configuration`: binds the checkpoint version; an apply compares it with the manifest |
| `PreviewProgram`, `ApplyProgram` | `before_program` of the transport, then `pulumi preview` or `pulumi up` |
| `Gate` | the registry gate: review, second capture, same version; in a preview it then writes the manifest entry, in an apply it precedes the program |
| `BeginUpdate`, `UpdateWrites`, `UpdateEnds`, `UpdateAborts` | one `pulumi up`: lock, snapshots, unlock, failure or death with the lock |
| `Confirm`, `Final` | capture after the update, admission before the outputs leave the worker |
| `Recapture`, `ReviewObservation` | `observe` of the completion |
| `ProofPrepare`, `CreateReceipt`, `CompleteReceipt`, `ReadBack` | `prepare` and `publish`: a deployment, then its status, then both read back |
| `DispatchPrepare`, `DispatchPost`, `DispatchVerify` | `dispatch`: one POST, never repeated by the code |
| `JobFails`, `CancelWaiting`, `Rerun` | refusals, API errors, lost answers and time limits; cancelling a queued job; re-running a run |

`JobFails` can follow any step, also `DispatchPost` and `CreateReceipt`: that is
the lost answer. Around the runs, `Push`, `Review`, `Merge` and `MainMoves` move
pull requests and main; `Visitors` are jobs of the state group that only read
(scheduled drift); operators lock, write and unlock the stack from a terminal,
outside the group but under the same lock.

Abstractions:

- *The checkpoint* is a version and one of three graphs, as the gates tell them
  apart: the baseline, the full registry, anything else (`partial`).
- *Everything an admission asks* (the review, the requester's permission, the
  approved contract) is the flag `sanctioned`, read in one step with head and
  main. `ReviewedSource` shows what the separate reads amount to.
- *A capture* is one step. `BackendCapture` shows that an accepted capture is
  the checkpoint as it stands when no update begins between its two lock
  listings. Inside the state group no other run's update can begin; an
  operator's can, and the core therefore takes operators' writes out of what it
  promises about plans (`ciWrites`).
- *The base of a pull request* is taken to be the tip of main.
- The gates on plan contents, container set-up and inventories are among the
  reasons for which `JobFails` may happen; `RegistryGraph` and `ServiceExecution` are
  about them.

### CommandIntake

A comment has what it first said (the copy in the event), what it says now and
whether an edit shows. The intake run of a comment waits in its group, parses
the event's copy, reads the head, writes the artifact, dispatches, answers. A
command run waits in its own group and then does the reads of the preflight in
the order of the code, each one a step: intake run, artifact, comment, head, pull
request again, clock, permission, statuses; `PostClaim` is the write, which may
also lose its answer. The next job, `poc_prepare_source`, reads the intake run anew
(`RereadIntakeRun`) and then everything else (`Revalidate`), before the run is
`working` until it ends; `RegistryDelivery` is what it does then. Meanwhile `Tick`
passes time, heads are pushed, comments edited (also within the second of their
creation, which GitHub does not show), permissions revoked, pull requests closed,
intake runs re-run, and requests dispatched (`Redispatch`): any payload, recorded
or not, for any comment, pull request, head and command.

The preflight reads the intake run first and its artifact after that. A re-run of the
intake between the two makes the artifact of the second attempt pass for that of the
first; the history `torn` marks the runs to which this happens. Such a run may consume
a comment that was consumed on another head, for a claim is a status of one commit. It
goes no further: the job that prepares the source finds the intake run in its second
attempt. `Revalidate` is one step because that first read of the job decides; what the later
ones find can only refuse more.

### ReviewedSource and BackendCapture

Each is one reader whose reads are separate steps, and a world that changes
between them. `ReviewedSource` lets heads be pushed (also back to an earlier
commit), reviews be submitted and dismissed, rules be weakened and restored,
permissions come and go, main and the pull request's state change. The rules
`Strong` are those that dismiss approvals on a push, which the code requires.
`BackendCapture` lets updates lock, save, remove, end, die and be cancelled. Both
have history variables for what happened between reads; no action's guard
reads them.

### SavedPlan and StackConfiguration

`SavedPlan` is one workspace: plan and preview files of each stack, one manifest,
the commit that is checked out, and the command at work with its own list of stacks.
Its steps are those of `run_pulumi_command.py`: validate, load the manifest, clear the
artifacts, select a stack, prepare its configuration, run, write the manifest, replay.
Between any two of them the process may die or fail, time may pass, another
command may write the checkpoint, and between commands files may be altered and
commits checked out. A job has a clock of its own (`Offsets`), since plan and
replay are two jobs; the age check is in ticks. `checkpoint` is a version per
place and stack. What a preview shows is whether it destroys something
protected. `Prepare` is the subject of `StackConfiguration`, which takes the
head, export, head and key calls apart, with versions of the checkpoint that
differ in the defects the code looks for. `StackConfiguration` keeps the chain of
spellings and encodings of a provider setting as the ways a setting may be given.

### RegistryGraph

A resource has a value in the checkpoint and one natively; a value is an abstract
setting, the number of a token set, or 0. The gate's `_prior`, `_goal`, `_preview`,
`_operation` are operators named as in `poc_registry_plan.py`. `Create` and `Enter` split
one `pulumi up` step into the native creation and its entry in the checkpoint, so
that a crash may fall between them; a creation waits until all that it needs has taken
its own step, as Pulumi registers a dependent resource after what it depends on. The
refresh of an update reads what is there natively, whoever made it. Four histories tell
it apart: `foreign` is what people made, `touched` what they laid hands on since the
gate (or since the update made it), `taken` what the update entered in the
checkpoint of what people made, `cut` whether a command was cut short. A capture of checkpoint and native inventories
is one step here (`BackendCapture` is about its reads). Two DNS records stand for the
three: nothing distinguishes them but their number.

### ServiceWorker, ChildProcess and ServiceExecution

`ServiceWorker` walks through the three jobs of a delivery step by step (`Flow`):
host recheck, download, worker admission, copy, login, select, program with its
own admission, final admission, publish, host copy, upload. A file is absent, half
or whole. The request may lapse at any moment and be good again, any number of times
(`Lapse`, `Reinstate`: a push and its undoing, a review dismissed and given anew); every
admission reads it anew and has no memory of a lapse undone before. `stale` says that it
has stood at no moment since the last program ended.
`ChildProcess` is one `run`: two pipes of bounded capacity, a program that forks,
writes, closes its streams, ends or stays, a reader with a deadline, the wait, the
kill, and the scan of `/proc` that stops descendants. Scanning is one process
at a time, so that processes are born behind the scan's back; `slipped` marks the
case in which one was born of a process the scan had passed and that ended before the
listing was complete, which the code cannot see. The verdict `ok` is that of a
checked call; of an unchecked one the exit status is in the result. `ServiceExecution`
puts the second inside the first: the host goes on only with the verdict of the call,
the plan is written while the program lives, and a delivery ends because its calls do.

### GovernancePromotion and StackInitialization

`GovernancePromotion` has the two programs that write one status: scope runs, in
their group of one pull request, and the reporter, which posts its deployments,
their statuses and the commit status one by one and may die after each. The
reporter's workflow is not in the repository; whether it shares the scope runs'
group is part of `setting`, a variable that nothing changes, so that one instance explores
both: with the group, scope runs keep a proof that holds; without it, a scope run may post
after the reporter, and what remains is that a success is proven, that no head is
forgotten, and that scope runs withdraw what no longer holds. `setting` also says whether
main has `self-deploy.yml`, which decides what a run must show.
`StackInitialization` is a run of two jobs in two nested groups, with commands in
the inner one and operators who create or remove the stack by hand.

### RepositoryControls and DriftControls

A session is a list of API calls over the ruleset and the environments; each call is a
step and may fail. Sessions overlap, are repeated, and an administrator may
change anything in between (`meddled` marks whom that excuses). `DriftControls` only
creates what is missing, by an inventory of its own (`missing`); a session that dies between creating an environment and
restricting it to main leaves one that is shut to all branches, which the next
session refuses to touch: the code means that, and the model shows it.

### PreviewGuardrails

The artifact directory holds what the last preview runs and the gates have
left. The gates read every file they find; two of them write helper files, one of
which a later gate does read (`cost-report`, when it is written into the directory:
the gate then fails, it does not pass). Documents that do not parse are
skipped by the code and are not among the documents here; a document is known by its
file, step and field, which the code's `urn` and field name stand for, and its place in
the list is arbitrary, because no verdict depends on it. The pool's futures are
taken and read in that order while they are answered in any order.

## 3. Runs

| Run | Instance | What it asks |
|---|---|---|
| `delivery` | two applies of two pull requests, one push, review or merge, re-runs | `DeliveryInv` (types, a receipt follows the run's own update, one dispatch at most); bases never regress; the delivery implements `DeliveryPromise` |
| `operators` | two applies and two operator actions on the stack | plans replayed only on their checkpoint; the manifest names the planned version; no update over a broken one |
| `visit` | a plan, an apply and a scheduled job, fair | the group agrees with the lock; every run ends |
| `intake` | one comment, two command runs of it, two heads, clock to 2, three events, fair | acted on once, as first recorded; consumed in time, and twice only across a re-run; everyone ends |
| `claimed_twice` | the same, without fairness | a comment of the code on consumption that its reads contradict (section 6) |
| `observations` | `ReviewedSource` with two reviewers, two commits, three rule sets and six events; `BackendCapture` with two updates, four versions, contents with and without pending operations | the approval never lapsed; everything held together; the version held; not half written; settled |
| `plans` | `SavedPlan` in three places: a shared backend with two stacks; two jobs with clocks a tick apart, two commits and two projects; a local backend with all nine commands | what is replayed is reviewed, finished, on the prepared checkpoint, in time; the commands implement `PlanPromise` |
| `stack` | `StackConfiguration` with every committed configuration and two checkpoint versions; `StackInitialization` with three runs and two commands; `PreviewGuardrails` with two preview runs over two stacks and two threads | configuration, creation and receipts, verdicts |
| `governance` | `GovernancePromotion` with three scope runs and a reporter, in the group (one pull request) and outside (two); `RepositoryControls` with two sessions that apply and one that verifies, or one of each beside an administrator; `DriftControls` likewise | proven promotions; controls that only tighten and are repaired; drift environments never open, and nothing rewritten |
| `service` | one delivery of three jobs, programs of three processes, one chunk per stream, fair | calls end in time, whole and without survivors; what leaves was asked for after its program had ended; deliveries end |
| `registry_graph` | five commands from an empty, legacy or bound baseline, two changes by hand, one broken update | nothing people made is taken over but what they laid hands on during an update; nothing changed; no undisturbed refusal; only remains hinder |
| `docs_unconnected` | a plan and an apply | a statement of the docs that the workflow contradicts (section 6) |

Every property has at least one mutant: a changed definition of the code (a dropped
comparison, a skipped job, a group that does not exclude) under which the same
run finds the property violated. The mutated operators stand beside the ones
they replace.

Bounds, and why they are enough. `MaxEvents` bounds the changes of the world,
`MaxOutside` the operators, `MaxVersion` the checkpoint, `MaxClock` and `MaxTime` the
clocks, `MaxTries`, `MaxCommands`, `MaxMeddles`, `MaxBreaks` and `MaxRuns` what is begun
or broken, `MaxChanges` the changes of checkpoints by others, of a command's stage and, in
`RepositoryControls`, of settings by an administrator, `MaxTampers` those of drift environments by
hand, `MaxId` the ids of branch policies, `MaxChunks` the output.

- Two runs with two attempts each are four passes through the workflow; every
  property of the delivery relates at most two runs, or one run and the world.
- `delivery` spends its one event anywhere, so that main or a pull request moves
  between any two reads; one event is enough to overtake an admission.
- `MaxVersion` 3 lets one update write twice (fail half way and leave a
  remainder) or two write once. The bound stops `UpdateWrites`; an update stopped
  by it still ends or aborts.
- In `intake`, two runs of the one comment come from a repeated dispatch or a re-run;
  three events are what a torn preflight takes: a push, a re-run of the intake, and a
  payload for the new head. The deadlines are the tick of the comment itself and a job may
  take one more, so that the clock goes past their sum.
- Six events around a review in `observations` exceed the longest detour the reads could miss
  (weaken, push, push back, approve, restore and one more).
- In `plans` a shared stack sees two foreign writes, enough to change a checkpoint
  before the preparation and after it; two stacks are what a list that fails half
  way takes; clocks a tick apart put the age on either side of both boundaries.
- In `service` a third process is the one that can be forked while the scan kills the
  second; one stream has room for the chunk and the other has not; the clock goes
  past both deadlines and the pause.
- Five commands in `registry_graph` are plan, broken apply, plan, apply and a drift
  check of what that left.
- Three scope runs are one that holds, one that waits and one that displaces; three
  initializations likewise.

Deadlock is not checked where the runs may really stop: all commands have ended
and nobody is obliged to do more.

Fairness. It is weak fairness of each run's own next step in `FairSpec` of
`RegistryDelivery` and `CommandIntake`, and of the host, the call and the passing of time
in `ExecSpec`. The code justifies it: every job has `timeout-minutes`, so a job that runs
goes on or is ended, hosted runners start a job whose turn has come, the
result comment is `if: always()`, and a worker blocked in `select` or `wait` wakes at its
deadline. The program itself is never assumed to do anything. Pushing, reviewing,
operating, cancelling and re-running are never assumed.

## 4. Proofs

Proved for any set of runs, pull requests, comments, visitors, reviewers, commits,
updates, processes, reporters, stacks, places, commands, sessions and environments, and for any bounds, from the
named assumptions of each module (constants have their types, special values are apart,
there is at least one pull request where a concurrency group needs one, clocks of two
jobs differ by no more than `Spread`):

| Theorem | States | Argument |
|---|---|---|
| `TypeCorrect` | `Spec => []TypeOK` | one step per action |
| `GroupGuards` | `Spec => []GroupGuardsLock` | the property is itself inductive: a run past its first recheck holds the group; only a running job of the group is a member; holder and pending differ; a run has the lock only in its update |
| `PlansAreFollowed` | `Spec => []UpdateFollowsItsPlan` | `PlanInv`, below |
| `BasesAreOrdered` | `Spec => BasesNeverRegress` | `BaseInv`, below |
| `CommentsActOnce`, `ActionsAreRecorded`, `ConsumptionsAcrossReruns`, `ConsumptionsAreTimely`, `RunsTakeTurns` | the four safety properties of run `intake`, and that the runs of one pull request take turns | `IntakeInv`, below |
| `ApprovalsHold`, `AdmissionsHeldTogether` | the two properties of `ReviewedSource` | `ReviewInv`: review ids are new, so a lapsed approval never returns; under strong rules leaving the head makes the approval lapse; main never returns to a base |
| `ManifestsAreHonest`, `BrokenUpdatesStop`, `ReceiptsFollowUpdates`, `PublisherHearsOnce` | two invariants of run `operators` and the parts of `DeliveryInv` | `EvidenceInv`, below |
| `DeliveryInvariant` | `Spec => []DeliveryInv` | the three theorems about its parts |
| `DeliveryKeepsPromise` | `Spec => KeepsPromise` | the refinement of section 5, step by step |
| `CapturesHold`, `CapturesAreWhole`, `CapturesAreSettled` | the three of `BackendCapture` | `CaptureInv`: an update at work has its lock unless cancelled; the head has moved exactly when another version is current |
| `CallsEnd`, `ResultsAreWhole`, `JobsGoOnFromWhole`, `ProgramsBeginAdmitted`, `ResultsAreWholeAndAdmitted`, `DeliveriesAreWhole` | the four safety properties of run `service`, two of them with their parts | `CallInv` and `FlowInv`, below |
| `PlansInvariant`, `ReplayIsReviewed`, `ReplayIsOnPrepared`, `ReplayIsInTime` | the invariant and the three replay properties of run `plans` | `RunInv`, below |
| `PlansKeepPromise` | `Spec => KeepsPlans` | the refinement of section 5, with `PromiseInv`, below |
| `GraphInvariant`, `UndisturbedSucceeds`, `RemainsHinder` | the three properties of run `registry_graph` | `LetThrough`, `Hands` and `Undisturbed`, below |
| `ConfigurationInvariant` | `ConfigurationInv` of run `stack` | `Followed`: the head is read, then a checkpoint that is not older; when the head is found again they are one version |
| `InitializationInvariant`, `CreatesOnlyTheAbsent` | the two initialization properties of run `stack` | `Alone`, `Verified`, `Seen`, `Untouched`, below |
| `GuardrailsInvariant` | `GuardrailsInv` of run `stack` | `GuardrailsIInv`, below |
| `PromotionsHold`, `ProofIsKept` | the two promotion properties of run `governance`, for reporters in the group and outside | `GroupInv` and what is joined to it, below |
| `ControlsInvariant`, `ControlsTighten` | `ControlsInv` and `OnlyTightens` of run `governance` | `ControlsIInv`, below |
| `DriftInvariant`, `DriftAdds` | `DriftInv` and `OnlyAdds` of run `governance` | `DriftIInv`, below |

`UpdateFollowsItsPlan` is not inductive: nothing in it says why nobody writes
between the check of the manifest and the start of the update. `PlanStaysFresh`
does: from the check of its manifest to its first write, a run in its apply job has
seen no other run write. Only the run that owns the lock writes, a run owns the
lock only in its update, a run in its update holds the group (`GroupGuardsLock`),
and the group has one holder. `HistoryIsPast` (versions written are not in the
future) and `FirstTryOnly` (nothing past an admission belongs to a second
attempt) complete `PlanInv`.

`BasesNeverRegress` needs that a run inside the group was admitted at a main no
earlier update is ahead of. `BaseInv` says so: a later update could only be that
of another holder, and the run keeps the group. The proof uses that main only
grows.

`EvidenceInv` follows what a run has in hand from job to job. The version a manifest
names was read before the preview and again after it, and versions never go back, so
the preview read that one. An update is confirmed once, by the run that made it; the
observation comes after it, the receipt after the observation, and only a first attempt
that has issued its receipt dispatches, which its own step makes the last. The gate
of an apply refuses a half-applied graph, and from there to its first write only an
operator can make one, because a command writes only in an update and an update holds
the group.

`IntakeInv` explains why a claim that is read and then written is still exclusive.
`InsideHolds`: a run from its first read to its end holds the group of its pull request,
so no two runs of a comment are between the read and the write. `FirstRecord`: until
somebody re-runs the intake its artifact is what its first attempt recorded, so a run
past the comparison carries that record unless its reads were torn. All whose reads were
not torn therefore have the same head and the same claim, and the statuses of that one
commit decide. `TornIsLast` is about the other: once the intake is in its second attempt no
run gets past its first read, so the run that was between the two reads is the last of its
comment that gets that far; there is one such at most; and it stops at the job that prepares
the source. `ClaimsMatch` ties claims to runs: who was admitted has posted,
and nobody has posted what a run is about to post. `Provenance` is the bookkeeping
behind them: an upload belongs to an intake run and that to a comment. Nothing is asked
of what is dispatched. `JobsAreYoung` adds the job's time limit to the deadline.
Comments, edits, pushes, payloads and re-runs are unrestricted in number.

`CallInv` is about one program. `Drains`: what was read and what is still in a pipe is
what was written, and a stream whose end was seen has no writer left, so a call that
waits has read everything. `InTime` gives each step of the call its deadline.
`ScanMisses`: while a scan has found nobody, whoever lives is still to be looked at
or is a child of somebody who is; an empty scan therefore leaves nobody, but for the case
`slipped` marks. `FlowInv` is about the delivery: the output of the preview is whole
from the worker's directory to the upload and from the download to the update, and
a request that has stood at no moment since the last program ended (`stale`) does not stand
now, so that no admission since has passed: none such is where a program is about to begin, nor
past the final admission. A program's call and the flow
touch each other only where a program begins and ends, so that each invariant is
kept by the steps of the other; the flow's lemmas stand first in the module.

For promotions, `GroupInv` says who is where in the group of a pull request and
`Recorded` that a reporter's writes follow its checks in order. `Followed`
explains why no head is forgotten: a scope run whose head is no longer the last one
has another queued behind it. `SeenLast` explains why scope runs keep proof: no
success of its pull request appears while a scope run holds the group, because the
reporter must hold it too; `Bases` says that main only grows, so a base cannot return.

`RunInv` follows a saved plan through a command and the files it leaves. `Collected` and
`Saved` say of the entries gathered so far, and of the plan file not yet entered, what a
manifest entry promises: stack, place and commit are the command's own, nothing protected
is destroyed, and the plan's base lies between the identity recorded with it and the
checkpoint of now. `Binding` says the same of the manifest on disk, and that it was written
within a command's time limit of every plan it names, on either job's clock. For a replay,
`Loaded` (the manifest read is the one on disk, at this commit and place, and not too old)
and `Validated` (the plan file is still the one the entry names; on a shared backend, once the
stack is prepared, its base is not beyond the prepared version) hold from the check to the
program. The upper bound on a base and the lower bound the preparation compares with meet
in one version: that is why the plan is replayed on the checkpoint it was computed on.
For the refinement `PromiseInv` adds what `RunInv` has no need of: a planning begins with
the first stack of its list (`Begins`), from clearing the artifacts to writing the manifest
there is no manifest on disk (`Cleared`), and the entries gathered are those of exactly the
stacks the command is through with, however often the list names one (`Covered`).

For the registry graph, `LetThrough` ties the operations of a plan that passed the gate to
the checkpoint captured first, so that what an update creates was absent from it or is the
bound provider; hence what exists stays. `Hands` says where people's own work may be met: what
they made is there until somebody removes it, what is between its creation and its entry in
the checkpoint is the update's own unless somebody touched it, and what the refresh meets
of theirs, beyond what the gate had seen, they laid hands on since. That makes
`OwnsWhatItHolds`. `RefusesOnlyTheDisturbed` and `OnlyRemainsHinder` are about the opposite, that
the gate refuses no command nobody has interfered with, and need all of `Undisturbed`: the
stack is `Sound` or `Stuck`. `Sound`: native inventories agree with the checkpoint up to the
creation at work (`Agreed`), the checkpoint is one the gate takes, and an update makes each
resource of its plan once and as it should be, what it needs first (`Progress`), so that what
a completed update leaves, and what one cut short leaves inside the baseline, passes the
next gate. `Stuck`: an update was cut short beyond the baseline, and no command gets past its
first capture any more. `Drawn` counts the token sets that may still be drawn.

Initialization: `Alone` (whoever touches the backend holds the state group) makes what a
run saw (`Seen`) still true when it writes, unless an operator created or removed the stack
meanwhile (`Untouched`). Without the recheck inside the group `Verified` fails, and with it the
theorem.

`ControlsIInv` is about sessions that overlap without knowing of each other. Verified
settings last (`Checked`: what a verification has found good so far still is) because every
write of another session writes what the verification looks for. The delicate write is
the deletion of surplus branch policies, which each session decides by a listing of its own:
`Spared` says that of the policies for main on any session's list an older one stands, so
that two lists never cover all of them together; it needs that ids are told apart and grow
(`Identified`) and that nobody disturbed changes under a session (`Undisturbed`). `Reread` is
why a stronger rule survives the gap between reading the ruleset and writing it: what another
session wrote in between hardens to the same. `Mended` follows a session that is `Solitary`
through its environments and says of each it is through with that it is shut and has one
policy, for main, from whatever state it found: hence nothing is left to be refused. For the
drift setup, `DriftIInv` says that an environment others keep their hands off is absent or tight
(`Untouched`), that a session creates only what its inventory lacked (`DriftRouted`), and that
what it has looked at and found good stays so (`Surveyed`).

For the guardrails, `Filled` says that whatever the directory holds is of the last preview
run, that a helper file is no preview and stands only beside one: hence a gate that finds a
file has a preview to speak of. `Covered` says that a run that reached its end has previewed
every stack, for which what is still to do is followed while it works. `Pooled` keeps the
documents in work those of the files in the directory, which holds because no preview begins
while a gate runs; `Heard` says that of the futures read none is open, that a failure among them
is remembered, and that a future is cancelled for an exception only, so that at the end of the
reading either something has failed or every answer is clean. That every document is among
those submitted rests on the finiteness of what previews show, which is proved from that of
the stacks. The verdict of the cost gate enters only as far as the files must load: the weights
are a sum over a sequence, and no property compares it with another.

Lemmas about `ConcurrencyGroup` (what `Enter`, `Release` and `Displaced` return) are
stated once and cited.

Only model-checked: liveness (`RunsEnd`, `EveryoneEnds`, `DeliveryEnds`), which is out
of the prover's reach. Every other property of a passing run is stated by a theorem.

## 5. The refinements

`RegistryDelivery` implements `DeliveryPromise` under the mapping at its end. The
promise knows no jobs, groups, rechecks or pull requests: a command plans at a
version, starts an update only while no other command has written since, confirms,
observes a complete checkpoint, issues a receipt, tells the publisher once. The run
`delivery` checks it and `RegistryDelivery_proofs` proves it, one step of the delivery at
a time: the gate is the promise's plan, the beginning, the writes, the end and the
confirmation of an update are its own, the recapture is its observation, the completed
receipt its receipt, the dispatch its message, an operator's write the outside
write, and everything else changes nothing the promise speaks of. `seen`
is mapped to the initial capture while the observation is being reviewed, because
the second capture is where the version is known to be complete, and the job may
still lose it (`LoseObservation`). A receipt is a record *with* its success status:
the deployment alone maps to no receipt.

`SavedPlan` implements `PlanPromise`. The promise knows no files, manifests, digests,
clocks, or identities of a provider, and no commands but planning and replaying. It has the
checkpoints, the commit, the set of plans `inForce`, the planning under way and the
replay under way. A plan there is a stack, a place, a commit, the version it was computed
on and whether it destroys something protected; a planning withdraws everything that was
in force, computes and keeps one plan per stack, and puts them in force in one step when
every stack it was asked for has one; a replay takes a plan in force, reads the version,
and on a shared backend begins only if that is the plan's own. The mapping reads
`inForce` from the manifest's entries, not from the plan files: files that are lost, mixed
up or altered change nothing the promise speaks of, because the manifest has their digests.
The planning under way is the plan command from the moment it has cleared the
artifacts (before, it may fail and leave the earlier manifest in force, and that maps to no
step); the plan just saved and not yet bound is its `draft`. A replay is under way from the
preparation of its stack to the end of the update. The run `plans` checks it; `PlansKeepPromise`
proves it, step by step: `ClearArtifacts` is `Withdraw`, `SavePlan` `Compute`, `Seal` `Keep`,
`WriteManifest` `PutInForce`, `Prepare` of an up-plan `ReadVersion`, `Replay` `Begin`; a command that
ends or dies abandons its planning or leaves its replay; `Select`, `Save` and others' writes
are `Write`; everything else is a stutter.

## 6. Where documents and code differ

- `docs/ci-architecture.md` says that the completion observer and the publisher helpers
  remain unconnected. The workflow calls both; `docs_unconnected` finds a receipt.
- `docs/trusted-test-controller.md` (line 3) calls the controller disabled: preflight exits
  and the TEST jobs have false guards. The workflow has no such guards; every run of the
  delivery has commands past their preflight.
- The docstring at `configure_github_repository_controls.py:116` speaks of the "full active
  main ruleset". Neither the lookup (line 123) nor the verification looks at the enforcement,
  so `--verify-only` passes on a disabled ruleset; `ControlSettings` has `active` as a field
  no check reads.
- `scripts/pulumi_command_preflight.py` (line 271) says "Consume a comment once". A claim is a
  status of the requested head (line 275), and the intake run is read (line 172) before its
  artifact (line 179): `claimed_twice` finds a comment consumed on the head its intake recorded
  and again on a later one, by a run between whose two reads the intake was re-run. The
  consequence ends with the claim: the job that prepares the source authenticates the intake run
  again and refuses, so that one run of a comment acts at most (`ActedOnOnce`).

## 7. Not modelled, and why

- Phase admission, the artifact checks and the workload phase compare documents at one
  moment; they have no state, and no workflow starts the workload phase. Their verdicts are
  part of `sanctioned` and of the ways a job may fail.
- The historical check of a receipt (`verify_completion`) is called by the publisher's
  repository, on records that only fields unknown here tell apart.
- The container set-up, the boundary worker and the provider installation are fixed sequences
  of calls that end the job when one of them fails.
- The summary of a preview, the check of workflow variables and the developer tooling are
  sequential and share no state with the rest.
- The Pulumi program and the policies, apart from the registry graph, are declarative: the
  Pulumi engine gives them their meaning, and it is not in the repository.
- GitHub's limits on statuses per commit, and its eventual consistency, are not modelled:
  a write that was answered is read by the next read.
- More than one environment: TEST is the only one the workflow delivers to.

## 8. State of the plan

Done: the core, its promise, and the proofs of its invariants and of the refinement;
the saved plans likewise; the intake, the review and the capture with their proofs; the
isolated execution with its processes, the promotion, the configuration, the initialization,
the registry graph, the controls, the drift environments and the guardrails with theirs.
What would add most from here: promises of the other components, stated as
`DeliveryPromise` and `PlanPromise` are, and the step of `RegistryDelivery` that replays a plan
shown to be a replay of `SavedPlan`.
