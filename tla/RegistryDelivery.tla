--------------------------- MODULE RegistryDelivery ---------------------------
(***************************************************************************)
(* The TEST registry delivery: the jobs of .github/workflows/              *)
(* self-deploy.yml and the scripts they run, for several command runs, over*)
(* one Pulumi checkpoint, while pull requests, main, scheduled jobs and    *)
(* operators at a terminal move on.  A job is a sequence of steps, one per *)
(* point at which the code reads or writes something others can change.    *)
(***************************************************************************)
EXTENDS Naturals

CONSTANTS
    Runs,            \* command runs (workflow runs of self-deploy.yml)
    PRs,             \* pull requests
    PrOf,            \* [Runs -> PRs]
    CommandOf,       \* [Runs -> {"plan", "up"}]
    Visitors,        \* other jobs of the state group (scheduled drift)
    NoOne, Operator, Orphan,  \* who may own the Pulumi lock besides a run
    Nobody,          \* an empty slot of a concurrency group
    MaxEvents,       \* bound on pushes, reviews and merges
    MaxOutside,      \* bound on what operators do to the stack
    MaxVersion       \* bound on checkpoint versions

ASSUME RunsAssumption ==
    /\ PrOf \in [Runs -> PRs]
    /\ CommandOf \in [Runs -> {"plan", "up"}]
    /\ Runs \cap Visitors = {}
    /\ {NoOne, Operator, Orphan} \cap Runs = {}
    /\ NoOne # Operator /\ NoOne # Orphan /\ Operator # Orphan
    /\ Nobody \notin Runs \cup Visitors

ASSUME BoundsAssumption ==
    /\ MaxEvents \in Nat
    /\ MaxOutside \in Nat
    /\ MaxVersion \in Nat \ {0}

VARIABLES
    main,       \* number of the commit main points to
    prs,        \* [PRs -> [head, sanctioned, open]]
    events,     \* pushes, reviews and merges so far
    status,     \* [Runs -> {"waiting", "active", "done"}]
    attempt,    \* [Runs -> 1..2] GITHUB_RUN_ATTEMPT
    stage,      \* [Runs -> Jobs] the job the run has reached
    step,       \* [Runs -> Steps] the step that job has reached
    outcome,    \* [Runs -> {"none", "success", "failure", "cancelled"}]
    head, base, \* [Runs -> Nat] the pull request head and main the run names
    group,      \* the state group pulumi-state-<repository>-test-test
    visits,     \* [Visitors -> {"waiting", "queued", "done"}]
    initial,    \* [Runs -> Nat] version of the job's first capture
    prepared,   \* [Runs -> Nat] version bound by the job's configuration
    computed,   \* [Runs -> Nat] version the saved plan was computed on
    planned,    \* [Runs -> Nat] version the plan manifest names, 0 for none
    started,    \* [Runs -> Nat] version the update began on, 0 for never
    updated,    \* [Runs -> BOOLEAN] update confirmed by its final capture
    observed,   \* [Runs -> Nat] version in the observation artifact
    receipt,    \* [Runs -> {"none", "created", "success"}]
    dispatched, \* [Runs -> Nat] publisher dispatches sent
    version, graph, lock,  \* checkpoint version, what it holds, lock owner
    ciWrites,   \* versions written by runs
    lastBase,   \* base of the latest run that began an update
    outside     \* operator actions so far

world == <<main, prs, events>>
control == <<status, attempt, stage, step, outcome, head, base>>
place == <<group, visits>>
evidence == <<initial, prepared, computed, planned, started, updated,
              observed, receipt, dispatched>>
stack == <<version, graph, lock, ciWrites, lastBase, outside>>
vars == <<world, control, place, evidence, stack>>

Grp == INSTANCE ConcurrencyGroup

Jobs == {"preflight", "source", "preview", "diffgate", "apply", "drift",
         "observation", "proof", "dispatch"}

Steps == {"idle", "recheck", "admit", "capture", "prepare", "program", "gate",
          "update", "confirm", "final", "recapture", "review",
          "verify", "publish", "status", "readback", "post", "native"}

GroupJobs == {"preview", "apply", "drift", "observation"}

PRStates == [head : Nat, sanctioned : BOOLEAN, open : BOOLEAN]

WorldOK ==
    /\ main \in Nat
    /\ prs \in [PRs -> PRStates]
    /\ events \in Nat

ControlOK ==
    /\ status \in [Runs -> {"waiting", "active", "done"}]
    /\ attempt \in [Runs -> {1, 2}]
    /\ stage \in [Runs -> Jobs]
    /\ step \in [Runs -> Steps]
    /\ outcome \in [Runs -> {"none", "success", "failure", "cancelled"}]
    /\ head \in [Runs -> Nat] /\ base \in [Runs -> Nat]

PlaceOK ==
    /\ group \in Grp!GroupOf(Runs \cup Visitors)
    /\ visits \in [Visitors -> {"waiting", "queued", "done"}]

EvidenceOK ==
    /\ initial \in [Runs -> Nat] /\ prepared \in [Runs -> Nat]
    /\ computed \in [Runs -> Nat] /\ planned \in [Runs -> Nat]
    /\ started \in [Runs -> Nat] /\ updated \in [Runs -> BOOLEAN]
    /\ observed \in [Runs -> Nat]
    /\ receipt \in [Runs -> {"none", "created", "success"}]
    /\ dispatched \in [Runs -> Nat]

StackOK ==
    /\ version \in Nat \ {0}
    /\ graph \in {"baseline", "partial", "full"}
    /\ lock \in Runs \cup {NoOne, Operator, Orphan}
    /\ ciWrites \in SUBSET Nat
    /\ lastBase \in Nat
    /\ outside \in Nat

(* Every job and step is one the workflow has, every slot of the group a   *)
(* run, a visitor or nobody, every lock owner a run or an outsider.        *)
TypeOK == WorldOK /\ ControlOK /\ PlaceOK /\ EvidenceOK /\ StackOK

Init ==
    /\ main = 0
    /\ prs = [p \in PRs |-> [head |-> 0, sanctioned |-> TRUE, open |-> TRUE]]
    /\ events = 0
    /\ status = [r \in Runs |-> "waiting"]
    /\ attempt = [r \in Runs |-> 1]
    /\ stage = [r \in Runs |-> "preflight"]
    /\ step = [r \in Runs |-> "idle"]
    /\ outcome = [r \in Runs |-> "none"]
    /\ head = [r \in Runs |-> 0] /\ base = [r \in Runs |-> 0]
    /\ group = Grp!EmptyGroup
    /\ visits = [v \in Visitors |-> "waiting"]
    /\ initial = [r \in Runs |-> 0] /\ prepared = [r \in Runs |-> 0]
    /\ computed = [r \in Runs |-> 0] /\ planned = [r \in Runs |-> 0]
    /\ started = [r \in Runs |-> 0] /\ updated = [r \in Runs |-> FALSE]
    /\ observed = [r \in Runs |-> 0]
    /\ receipt = [r \in Runs |-> "none"]
    /\ dispatched = [r \in Runs |-> 0]
    /\ version = 1
    /\ graph \in {"baseline", "full"}
    /\ lock = NoOne
    /\ ciWrites = {}
    /\ lastBase = 0
    /\ outside = 0

-----------------------------------------------------------------------------
(* Pull requests and main.                                                 *)

Event == events < MaxEvents /\ events' = events + 1

(* A push dismisses the reviews; branch protection requires that.          *)
Push(p) ==
    /\ Event
    /\ prs[p].open
    /\ prs' = [prs EXCEPT ![p] = [head |-> prs[p].head + 1,
                                  sanctioned |-> FALSE, open |-> TRUE]]
    /\ UNCHANGED <<main, control, place, evidence, stack>>

(* An approval, or the requester's permission, is given or taken away.     *)
Review(p) ==
    /\ Event
    /\ prs[p].open
    /\ prs' = [prs EXCEPT ![p].sanctioned = ~@]
    /\ UNCHANGED <<main, control, place, evidence, stack>>

Merge(p) ==
    /\ Event
    /\ prs[p].open /\ prs[p].sanctioned
    /\ prs' = [prs EXCEPT ![p].open = FALSE]
    /\ main' = main + 1
    /\ UNCHANGED <<control, place, evidence, stack>>

(* A pull request no command names is merged.                              *)
MainMoves ==
    /\ Event
    /\ main' = main + 1
    /\ UNCHANGED <<prs, control, place, evidence, stack>>

World == MainMoves \/ \E p \in PRs : Push(p) \/ Review(p) \/ Merge(p)

(* Mutant: a recheck that forgets to compare main with the base.           *)
AdmittedOnAnyMain(r) ==
    LET pr == prs[PrOf[r]] IN pr.open /\ pr.sanctioned /\ pr.head = head[r]

(* What every recheck asks: open pull request, exact head, main still at   *)
(* the run's base, review and requester still good.                        *)
Admitted(r) ==
    LET pr == prs[PrOf[r]] IN
    /\ pr.open
    /\ pr.sanctioned
    /\ pr.head = head[r]
    /\ main = base[r]

(* Mutant: the evidence of a re-run job is taken too.                      *)
AnyAttempt(r) == attempt[r] \in {1, 2}

(* artifact._context: evidence is only ever taken in a first attempt.      *)
FirstAttempt(r) == attempt[r] = 1

-----------------------------------------------------------------------------
(* Run control.                                                            *)

Running(r) == status[r] = "active" /\ outcome[r] = "none"

At(r, job, s) == Running(r) /\ stage[r] = job /\ step[r] = s

(* In a job of the state group, with the group held.                       *)
In(r, s) == /\ Running(r) /\ step[r] = s
            /\ stage[r] \in GroupJobs
            /\ group.holder = r

Goto(r, s) ==
    /\ step' = [step EXCEPT ![r] = s]
    /\ UNCHANGED <<status, attempt, stage, outcome, head, base>>

(* Mutants: needs names a job nobody declared, leaves out test_apply, or   *)
(* leaves out test_registry_observation.                                   *)
NextJobUndeclared(r) ==
    CASE stage[r] = "preflight" -> "source"
      [] OTHER -> "test_preview_job"

NextJobSkippingApply(r) ==
    CASE stage[r] = "preflight" -> "source"
      [] stage[r] = "source" -> "preview"
      [] stage[r] = "preview" -> "diffgate"
      [] stage[r] = "diffgate" -> "drift"
      [] stage[r] = "drift" -> "observation"
      [] stage[r] = "observation" -> "proof"
      [] OTHER -> "dispatch"

NextJobSkippingObservation(r) ==
    CASE stage[r] = "preflight" -> "source"
      [] stage[r] = "source" -> "preview"
      [] stage[r] = "preview" -> "diffgate"
      [] stage[r] = "diffgate" -> "apply"
      [] stage[r] = "apply" -> "drift"
      [] stage[r] = "drift" -> "proof"
      [] OTHER -> "dispatch"

(* needs: the next job starts only after the success of this one.          *)
NextJob(r) ==
    CASE stage[r] = "preflight" -> "source"
      [] stage[r] = "source" -> "preview"
      [] stage[r] = "preview" -> "diffgate"
      [] stage[r] = "diffgate" -> "apply"
      [] stage[r] = "apply" -> "drift"
      [] stage[r] = "drift" -> "observation"
      [] stage[r] = "observation" -> "proof"
      [] OTHER -> "dispatch"

(* A plan command has nothing to run after the destructive diff gate.      *)
LastJob(r) == \/ stage[r] = "dispatch"
              \/ stage[r] = "diffgate" /\ CommandOf[r] = "plan"

JobSucceeds(r) ==
    /\ IF LastJob(r)
       THEN /\ outcome' = [outcome EXCEPT ![r] = "success"]
            /\ stage' = stage
       ELSE /\ outcome' = outcome
            /\ stage' = [stage EXCEPT ![r] = NextJob(r)]
    /\ step' = [step EXCEPT ![r] = "idle"]
    /\ UNCHANGED <<status, attempt, head, base>>

(* A job that fails skips every job that needs it.                         *)
JobEnds(r, how) ==
    /\ outcome' = [outcome EXCEPT ![r] = how]
    /\ step' = [step EXCEPT ![r] = "idle"]
    /\ UNCHANGED <<status, attempt, stage, head, base>>

LeaveGroup == group' = Grp!Release(group) /\ UNCHANGED visits

(* The job's process is gone, and with it what it had read.                *)
Forget(r) ==
    /\ initial' = [initial EXCEPT ![r] = 0]
    /\ prepared' = [prepared EXCEPT ![r] = 0]

results == <<computed, planned, started, updated, observed, receipt,
             dispatched>>

(* repository_dispatch starts a run once no run of its pull request is     *)
(* active (the workflow's own group, pulumi-command-<number>).             *)
NoActiveRunOf(p) == \A q \in Runs : PrOf[q] = p => status[q] # "active"

Start(r) ==
    /\ status[r] = "waiting"
    /\ NoActiveRunOf(PrOf[r])
    /\ status' = [status EXCEPT ![r] = "active"]
    /\ head' = [head EXCEPT ![r] = prs[PrOf[r]].head]
    /\ base' = [base EXCEPT ![r] = main]
    /\ UNCHANGED <<attempt, stage, step, outcome>>
    /\ UNCHANGED <<world, place, evidence, stack>>

(* pulumi_command_preflight.main: first attempt, request still exact.      *)
Preflight(r) ==
    /\ At(r, "preflight", "idle")
    /\ FirstAttempt(r)
    /\ Admitted(r)
    /\ JobSucceeds(r)
    /\ UNCHANGED <<world, place, evidence, stack>>

(* prepare_authenticated_source: the request and the review are checked    *)
(* before and after the contract is read, and the review did not change.   *)
PrepareSource(r) ==
    /\ At(r, "source", "idle")
    /\ Admitted(r)
    /\ JobSucceeds(r)
    /\ UNCHANGED <<world, place, evidence, stack>>

(* The gate on the uploaded preview only reads same-run artifacts.         *)
DiffGate(r) ==
    /\ At(r, "diffgate", "idle")
    /\ JobSucceeds(r)
    /\ UNCHANGED <<world, place, evidence, stack>>

(* A job of the state group is queued; GitHub cancels the job it displaces.*)
Enqueue(r) ==
    /\ Running(r) /\ step[r] = "idle" /\ stage[r] \in GroupJobs
    /\ LET out == Grp!Displaced(group) IN
       /\ group' = Grp!Enter(group, r)
       /\ IF out \in Runs
          THEN /\ outcome' = [outcome EXCEPT ![out] = "cancelled"]
               /\ step' = [step EXCEPT ![out] = "idle", ![r] = "recheck"]
          ELSE /\ outcome' = outcome
               /\ step' = [step EXCEPT ![r] = "recheck"]
       /\ visits' = [v \in Visitors |-> IF v = out THEN "done" ELSE visits[v]]
    /\ UNCHANGED <<status, attempt, stage, head, base>>
    /\ UNCHANGED <<world, evidence, stack>>

(* The rechecks before each credential step ask one and the same thing and *)
(* change nothing in between, so one step stands for the last of them.     *)
Recheck(r) ==
    /\ In(r, "recheck")
    /\ Admitted(r)
    /\ Goto(r, "admit")
    /\ UNCHANGED <<world, place, evidence, stack>>

(* The worker's admission, source artifact, contract and review.           *)
Admit(r) ==
    /\ In(r, "admit")
    /\ FirstAttempt(r)
    /\ Admitted(r)
    /\ Goto(r, "capture")
    /\ UNCHANGED <<world, place, evidence, stack>>

(* Mutant: the capture accepts any deployment in the checkpoint.           *)
CapturableAnyGraph == lock = NoOne

(* _capture: no lock, and the checkpoint holds the baseline or everything. *)
Capturable == lock = NoOne /\ graph # "partial"

NeedsFullGraph(job) == job \in {"drift", "observation"}

Capture(r) ==
    /\ In(r, "capture")
    /\ Capturable
    /\ NeedsFullGraph(stage[r]) => graph = "full"
    /\ initial' = [initial EXCEPT ![r] = version]
    /\ Goto(r, IF stage[r] = "observation" THEN "recapture" ELSE "prepare")
    /\ UNCHANGED <<prepared, results>>
    /\ UNCHANGED <<world, place, stack>>

(* Mutant: the plan manifest's checkpoint version is not compared.         *)
PrepareAnyCheckpoint(r) ==
    /\ In(r, "prepare")
    /\ prepared' = [prepared EXCEPT ![r] = version]
    /\ Goto(r, IF stage[r] = "apply" THEN "gate" ELSE "program")
    /\ UNCHANGED <<initial, results>>
    /\ UNCHANGED <<world, place, stack>>

(* prepared_stack_configuration binds the checkpoint version it reads; an  *)
(* apply goes on only if its plan manifest names that version.             *)
Prepare(r) ==
    /\ In(r, "prepare")
    /\ stage[r] = "apply" => planned[r] = version
    /\ prepared' = [prepared EXCEPT ![r] = version]
    /\ Goto(r, IF stage[r] = "apply" THEN "gate" ELSE "program")
    /\ UNCHANGED <<initial, results>>
    /\ UNCHANGED <<world, place, stack>>

(* ServiceTransport admits again immediately before preview or up.         *)
BeforeProgram(r) ==
    /\ In(r, "program")
    /\ FirstAttempt(r)
    /\ Admitted(r)

(* pulumi preview reads whatever checkpoint is current when it runs.       *)
PreviewProgram(r) ==
    /\ BeforeProgram(r)
    /\ stage[r] # "apply"
    /\ computed' = IF stage[r] = "preview"
                   THEN [computed EXCEPT ![r] = version] ELSE computed
    /\ Goto(r, "gate")
    /\ UNCHANGED <<initial, prepared, planned, started, updated, observed,
                   receipt, dispatched>>
    /\ UNCHANGED <<world, place, stack>>

(* Mutant: the gate compares what was read before the program only.        *)
SameCheckpointAsInitial(r) == prepared[r] = initial[r]

(* The registry gate: review, a fresh capture equal to the first one and   *)
(* to the version the configuration was bound to, requester.               *)
SameCheckpoint(r) == version = initial[r] /\ version = prepared[r]

Gate(r) ==
    /\ In(r, "gate")
    /\ Admitted(r)
    /\ Capturable
    /\ SameCheckpoint(r)
    /\ planned' = IF stage[r] = "preview"
                  THEN [planned EXCEPT ![r] = prepared[r]] ELSE planned
    /\ Goto(r, IF stage[r] = "apply" THEN "program" ELSE "final")
    /\ UNCHANGED <<initial, prepared, computed, started, updated, observed,
                   receipt, dispatched>>
    /\ UNCHANGED <<world, place, stack>>

ApplyProgram(r) ==
    /\ BeforeProgram(r)
    /\ stage[r] = "apply"
    /\ Goto(r, "update")
    /\ UNCHANGED <<world, place, evidence, stack>>

(* pulumi up takes the backend lock; it fails when somebody else has it.   *)
BeginUpdate(r) ==
    /\ In(r, "update")
    /\ lock = NoOne
    /\ lock' = r
    /\ started' = [started EXCEPT ![r] = version]
    /\ lastBase' = base[r]
    /\ UNCHANGED <<version, graph, ciWrites, outside>>
    /\ UNCHANGED <<initial, prepared, computed, planned, updated, observed,
                   receipt, dispatched>>
    /\ UNCHANGED <<world, control, place>>

(* Each snapshot pulumi up saves is a new version of the checkpoint.       *)
Snapshots == CASE graph = "baseline" -> {"partial", "full"}
               [] OTHER -> {"full"}

UpdateWrites(r) ==
    /\ In(r, "update")
    /\ lock = r
    /\ version < MaxVersion
    /\ version' = version + 1
    /\ ciWrites' = ciWrites \cup {version'}
    /\ graph' \in Snapshots
    /\ UNCHANGED <<lock, lastBase, outside>>
    /\ UNCHANGED <<world, control, place, evidence>>

UpdateEnds(r) ==
    /\ In(r, "update")
    /\ lock = r
    /\ graph = "full"
    /\ lock' = NoOne
    /\ Goto(r, "confirm")
    /\ UNCHANGED <<version, graph, ciWrites, lastBase, outside>>
    /\ UNCHANGED <<world, place, evidence>>

(* The update fails part way, and gives the lock back, or the runner dies  *)
(* with it and the lock object stays in the backend.                       *)
UpdateAborts(r) ==
    /\ In(r, "update")
    /\ lock = r
    /\ lock' \in {NoOne, Orphan}
    /\ JobEnds(r, "failure")
    /\ LeaveGroup
    /\ Forget(r)
    /\ UNCHANGED <<version, graph, ciWrites, lastBase, outside>>
    /\ UNCHANGED <<world, results>>

(* execute() captures once more after the update and wants the full graph. *)
Confirm(r) ==
    /\ In(r, "confirm")
    /\ lock = NoOne /\ graph = "full"
    /\ updated' = [updated EXCEPT ![r] = TRUE]
    /\ Goto(r, "final")
    /\ UNCHANGED <<initial, prepared, computed, planned, started, observed,
                   receipt, dispatched>>
    /\ UNCHANGED <<world, place, stack>>

(* The worker admits a last time before its outputs leave it.              *)
Final(r) ==
    /\ In(r, "final")
    /\ FirstAttempt(r)
    /\ Admitted(r)
    /\ JobSucceeds(r)
    /\ LeaveGroup
    /\ Forget(r)
    /\ UNCHANGED <<world, results, stack>>

(* observe(): a second capture equal to the first, then the review.        *)
Recapture(r) ==
    /\ In(r, "recapture")
    /\ lock = NoOne /\ graph = "full"
    /\ version = initial[r]
    /\ Goto(r, "review")
    /\ UNCHANGED <<world, place, evidence, stack>>

ReviewObservation(r) ==
    /\ In(r, "review")
    /\ FirstAttempt(r)
    /\ Admitted(r)
    /\ observed' = [observed EXCEPT ![r] = initial[r]]
    /\ JobSucceeds(r)
    /\ LeaveGroup
    /\ Forget(r)
    /\ UNCHANGED <<computed, planned, started, updated, receipt, dispatched>>
    /\ UNCHANGED <<world, stack>>

-----------------------------------------------------------------------------
(* The receipt and the publisher, outside the state group.                 *)

(* completion.prepare, before the App token is minted.                     *)
ProofPrepare(r) ==
    /\ At(r, "proof", "idle")
    /\ FirstAttempt(r)
    /\ Admitted(r)
    /\ Goto(r, "publish")
    /\ UNCHANGED <<world, place, evidence, stack>>

(* publish: prepare again, then create the deployment record.              *)
CreateReceipt(r) ==
    /\ At(r, "proof", "publish")
    /\ FirstAttempt(r)
    /\ Admitted(r)
    /\ receipt' = [receipt EXCEPT ![r] = "created"]
    /\ Goto(r, "status")
    /\ UNCHANGED <<initial, prepared, computed, planned, started, updated,
                   observed, dispatched>>
    /\ UNCHANGED <<world, place, stack>>

(* Only the success status makes the record a receipt.                     *)
CompleteReceipt(r) ==
    /\ At(r, "proof", "status")
    /\ receipt' = [receipt EXCEPT ![r] = "success"]
    /\ Goto(r, "readback")
    /\ UNCHANGED <<initial, prepared, computed, planned, started, updated,
                   observed, dispatched>>
    /\ UNCHANGED <<world, place, stack>>

ReadBack(r) ==
    /\ At(r, "proof", "readback")
    /\ JobSucceeds(r)
    /\ UNCHANGED <<world, place, evidence, stack>>

DispatchReady(r) ==
    /\ FirstAttempt(r)
    /\ Admitted(r)
    /\ receipt[r] = "success"

DispatchPrepare(r) ==
    /\ At(r, "dispatch", "idle")
    /\ DispatchReady(r)
    /\ Goto(r, "post")
    /\ UNCHANGED <<world, place, evidence, stack>>

(* dispatch: prepare again, then one POST that is never retried.           *)
DispatchPost(r) ==
    /\ At(r, "dispatch", "post")
    /\ DispatchReady(r)
    /\ dispatched' = [dispatched EXCEPT ![r] = @ + 1]
    /\ Goto(r, "native")
    /\ UNCHANGED <<initial, prepared, computed, planned, started, updated,
                   observed, receipt>>
    /\ UNCHANGED <<world, place, stack>>

DispatchVerify(r) ==
    /\ At(r, "dispatch", "native")
    /\ JobSucceeds(r)
    /\ UNCHANGED <<world, place, evidence, stack>>

-----------------------------------------------------------------------------
(* Queued in the state group behind another job.                           *)
Waiting(r) == stage[r] \in GroupJobs /\ step[r] # "idle" /\ group.holder # r

(* A refused precondition, an API error, a lost answer or a job timeout    *)
(* ends a job anywhere outside the update itself.  A queued job has no     *)
(* timeout running.                                                        *)
JobFails(r) ==
    /\ Running(r)
    /\ lock # r
    /\ ~Waiting(r)
    /\ JobEnds(r, "failure")
    /\ IF group.holder = r THEN LeaveGroup ELSE UNCHANGED place
    /\ Forget(r)
    /\ UNCHANGED <<world, results, stack>>

(* A person cancels a queued job.                                          *)
CancelWaiting(r) ==
    /\ Running(r)
    /\ Waiting(r)
    /\ group.pending = r
    /\ JobEnds(r, "cancelled")
    /\ group' = [group EXCEPT !.pending = Nobody]
    /\ UNCHANGED <<visits, world, evidence, stack>>

(* comment_result runs always() and ends the run.                          *)
CommentResult(r) ==
    /\ status[r] = "active" /\ outcome[r] # "none"
    /\ status' = [status EXCEPT ![r] = "done"]
    /\ UNCHANGED <<attempt, stage, step, outcome, head, base>>
    /\ UNCHANGED <<world, place, evidence, stack>>

(* "Re-run failed jobs" or "Re-run all jobs" on an ended run.              *)
Rerun(r) ==
    /\ status[r] = "done" /\ outcome[r] # "success" /\ attempt[r] = 1
    /\ NoActiveRunOf(PrOf[r])
    /\ status' = [status EXCEPT ![r] = "active"]
    /\ attempt' = [attempt EXCEPT ![r] = 2]
    /\ outcome' = [outcome EXCEPT ![r] = "none"]
    /\ \E s \in {stage[r], "preflight"} : stage' = [stage EXCEPT ![r] = s]
    /\ UNCHANGED <<step, head, base>>
    /\ UNCHANGED <<world, place, evidence, stack>>

RunStep(r) ==
    \/ Preflight(r) \/ PrepareSource(r) \/ DiffGate(r)
    \/ Enqueue(r) \/ Recheck(r) \/ Admit(r) \/ Capture(r) \/ Prepare(r)
    \/ PreviewProgram(r) \/ Gate(r) \/ ApplyProgram(r)
    \/ BeginUpdate(r) \/ UpdateWrites(r) \/ UpdateEnds(r) \/ UpdateAborts(r)
    \/ Confirm(r) \/ Final(r) \/ Recapture(r) \/ ReviewObservation(r)
    \/ ProofPrepare(r) \/ CreateReceipt(r) \/ CompleteReceipt(r) \/ ReadBack(r)
    \/ DispatchPrepare(r) \/ DispatchPost(r) \/ DispatchVerify(r)
    \/ JobFails(r) \/ CommentResult(r)

-----------------------------------------------------------------------------
(* Scheduled drift takes its place in the same group and reads.            *)

VisitorArrives(v) ==
    /\ visits[v] = "waiting"
    /\ LET out == Grp!Displaced(group) IN
       /\ group' = Grp!Enter(group, v)
       /\ IF out \in Runs
          THEN /\ outcome' = [outcome EXCEPT ![out] = "cancelled"]
               /\ step' = [step EXCEPT ![out] = "idle"]
          ELSE UNCHANGED <<outcome, step>>
       /\ visits' = [w \in Visitors |->
                        IF w = v THEN "queued"
                        ELSE IF w = out THEN "done" ELSE visits[w]]
    /\ UNCHANGED <<status, attempt, stage, head, base>>
    /\ UNCHANGED <<world, evidence, stack>>

VisitorLeaves(v) ==
    /\ group.holder = v
    /\ group' = Grp!Release(group)
    /\ visits' = [visits EXCEPT ![v] = "done"]
    /\ UNCHANGED <<world, control, evidence, stack>>

(* Operators run make pulumi-up or pulumi cancel from a terminal: outside  *)
(* the group, but under the same backend lock.                             *)
OperatorLocks ==
    /\ outside < MaxOutside
    /\ lock = NoOne
    /\ lock' = Operator
    /\ outside' = outside + 1
    /\ UNCHANGED <<version, graph, ciWrites, lastBase>>
    /\ UNCHANGED <<world, control, place, evidence>>

OperatorWrites ==
    /\ lock = Operator
    /\ version < MaxVersion
    /\ version' = version + 1
    /\ graph' \in {"baseline", "partial", "full"}
    /\ lock' = NoOne
    /\ UNCHANGED <<ciWrites, lastBase, outside>>
    /\ UNCHANGED <<world, control, place, evidence>>

OperatorUnlocks ==
    /\ outside < MaxOutside
    /\ lock = Orphan
    /\ lock' = NoOne
    /\ outside' = outside + 1
    /\ UNCHANGED <<version, graph, ciWrites, lastBase>>
    /\ UNCHANGED <<world, control, place, evidence>>

Others == \/ \E v \in Visitors : VisitorArrives(v) \/ VisitorLeaves(v)
          \/ OperatorLocks \/ OperatorWrites \/ OperatorUnlocks

Next == \/ World
        \/ Others
        \/ \E r \in Runs : Start(r) \/ Rerun(r) \/ CancelWaiting(r) \/ RunStep(r)

Spec == Init /\ [][Next]_vars

(* Hosted jobs have timeout-minutes, so a job that runs goes on or is ended*)
(* and a queued one starts when its turn comes; nobody has to push, review,*)
(* comment, cancel or operate.                                             *)
Fairness == /\ \A r \in Runs : WF_vars(RunStep(r))
            /\ \A v \in Visitors : WF_vars(VisitorLeaves(v))

FairSpec == Spec /\ Fairness

-----------------------------------------------------------------------------
(* Properties.                                                             *)

(* Whatever happens between preview and apply (other runs, cancelled jobs, *)
(* reruns, failed updates), an update begins on a checkpoint no run has    *)
(* written since the one its plan was computed on: the saved plan of       *)
(* test_apply is never replayed over another command's work.               *)
UpdateFollowsItsPlan ==
    \A r \in Runs : started[r] # 0 =>
        /\ planned[r] # 0
        /\ (planned[r] + 1) .. started[r] \cap ciWrites = {}

(* The checkpoint version sealed in a plan manifest is the very one pulumi *)
(* preview read, though the code reads the version before and after the    *)
(* program and never inside it.                                            *)
ManifestNamesPlannedCheckpoint ==
    \A r \in Runs : planned[r] # 0 => computed[r] = planned[r]

(* An update never starts over a half-applied graph unless an operator     *)
(* wrote it after the run's last capture: no command continues another     *)
(* command's broken update.                                                *)
NoUpdateOverBrokenOne ==
    \A r \in Runs : In(r, "update") /\ lock # r /\ graph = "partial"
                        => version \notin ciWrites

(* A receipt describes a version that was seen complete after this run's   *)
(* own update was confirmed, and so no older than the one it started from. *)
ReceiptFollowsUpdate ==
    \A r \in Runs : receipt[r] # "none" =>
        /\ updated[r]
        /\ observed[r] >= started[r]
        /\ started[r] >= planned[r]

(* The publisher hears of a run at most once and only of a complete        *)
(* receipt, even when an answer is lost and somebody re-runs the job.      *)
DispatchedOnce ==
    \A r \in Runs : /\ dispatched[r] <= 1
                    /\ dispatched[r] > 0 => receipt[r] = "success"

(* What a delivery leaves behind: its receipt, and what the publisher was  *)
(* told, in every attempt.                                                 *)
DeliveryInv == TypeOK /\ ReceiptFollowsUpdate /\ DispatchedOnce

(* The registry never goes back to an older main: updates begin in the     *)
(* order of the main revisions their runs are pinned to.                   *)
BasesNeverRegress == [][lastBase' >= lastBase]_vars

(* Every run that starts ends, whatever the group, the lock or the pull    *)
(* request do: an orphaned lock fails later runs, it does not hang them.   *)
RunsEnd == \A r \in Runs : status[r] = "active" ~> status[r] = "done"

(* The state group and the Pulumi lock agree: a run past its first recheck *)
(* holds the group, a member of the group is a job that runs, and the lock,*)
(* while a run has it, is held by the update of that run's apply job.  A   *)
(* displaced, cancelled or failed job leaves no step behind.               *)
InsideSteps == {"admit", "capture", "prepare", "program", "gate", "update",
                "confirm", "final", "recapture", "review"}

InsideHoldsGroup ==
    \A r \in Runs : step[r] \in InsideSteps => In(r, step[r])

MembersRun ==
    \A r \in Runs : r \in {group.holder, group.pending} =>
        Running(r) /\ stage[r] \in GroupJobs /\ step[r] # "idle"

HolderIsNotPending ==
    group.holder \in Runs => group.pending # group.holder

LockIsTheUpdate ==
    \A r \in Runs : /\ lock = r => step[r] = "update"
                    /\ step[r] = "update" => stage[r] = "apply"

GroupGuardsLock ==
    InsideHoldsGroup /\ MembersRun /\ HolderIsNotPending /\ LockIsTheUpdate

(* What makes UpdateFollowsItsPlan inductive: from the check of its        *)
(* manifest to the start of its update, no run but the one in the apply job*)
(* writes; what operators write is not theirs.                             *)
PlanStaysFresh ==
    \A r \in Runs :
        stage[r] = "apply" /\ step[r] \in {"gate", "program", "update"} /\ lock # r
            => planned[r] # 0 /\ (planned[r] + 1) .. version \cap ciWrites = {}

HistoryIsPast ==
    /\ \A n \in ciWrites : n <= version
    /\ \A r \in Runs : started[r] <= version

(* A re-run job is refused at its admission, so nothing past it belongs to *)
(* a second attempt, and a first attempt never comes back to its preview.  *)
FirstTryOnly ==
    \A r \in Runs :
        /\ step[r] \in InsideSteps \ {"admit"} => attempt[r] = 1
        /\ attempt[r] = 1
               /\ stage[r] \in {"preflight", "source", "preview", "diffgate"}
             => started[r] = 0

PlanInv ==
    PlanStaysFresh /\ HistoryIsPast /\ FirstTryOnly /\ UpdateFollowsItsPlan

(* What makes BasesNeverRegress hold: a run inside the group was admitted  *)
(* at a main no earlier update is ahead of.                                *)
BaseInv ==
    /\ lastBase <= main
    /\ \A r \in Runs : base[r] <= main
    /\ \A r \in Runs : step[r] \in InsideSteps => lastBase <= base[r]

(* What makes the properties of manifests, updates, receipts and dispatches*)
(* inductive, for one run: the job a step belongs to ...                   *)
StepsOfJobs(r) ==
    /\ step[r] \in {"prepare", "program", "gate", "final"}
         => stage[r] \in {"preview", "apply", "drift"}
    /\ step[r] = "confirm" => stage[r] = "apply"
    /\ step[r] \in {"recapture", "review"} => stage[r] = "observation"

(* ... a manifest is written once, over the version its preview read ...   *)
ManifestOf(r) ==
    /\ planned[r] # 0 => computed[r] = planned[r]
    /\ planned[r] <= version
    /\ stage[r] = "preview" /\ step[r] = "program" => prepared[r] <= version
    /\ stage[r] = "preview" /\ step[r] = "gate"
         => prepared[r] <= computed[r] /\ computed[r] <= version
    /\ attempt[r] = 1 /\ outcome[r] = "none"
           /\ (\/ stage[r] \in {"preflight", "source"}
               \/ stage[r] = "preview" /\ step[r] # "final")
         => planned[r] = 0

(* ... an update is confirmed once, between apply's gate and its end ...   *)
UpdateOf(r) ==
    /\ lock = r \/ step[r] = "confirm" \/ updated[r]
         => started[r] # 0 /\ started[r] >= planned[r]
    /\ attempt[r] = 1
           /\ (\/ stage[r] \in {"drift", "observation", "proof", "dispatch"}
               \/ stage[r] = "apply" /\ step[r] = "final")
         => updated[r]
    /\ attempt[r] = 1 /\ outcome[r] = "none"
           /\ stage[r] = "apply" /\ step[r] # "final"
         => ~updated[r]
    /\ stage[r] = "apply" /\ step[r] \in {"program", "update"} /\ lock # r
           /\ graph = "partial"
         => version \notin ciWrites

(* ... the observation comes after it and the receipt after both ...       *)
ReceiptOf(r) ==
    /\ step[r] \in {"recapture", "review"} => initial[r] >= started[r]
    /\ attempt[r] = 1 /\ stage[r] \notin {"proof", "dispatch"}
         => observed[r] = 0 /\ receipt[r] = "none"
    /\ attempt[r] = 1 /\ stage[r] \in {"proof", "dispatch"}
         => observed[r] >= started[r]
    /\ attempt[r] = 1 /\ outcome[r] = "none"
           /\ stage[r] = "proof" /\ step[r] \in {"idle", "publish"}
         => receipt[r] = "none"
    /\ step[r] = "status" => receipt[r] # "none"
    /\ receipt[r] # "none" => /\ updated[r]
                              /\ observed[r] >= started[r]
                              /\ started[r] >= planned[r]

(* ... and nothing follows the one dispatch of a first attempt.            *)
DispatchOf(r) ==
    /\ dispatched[r] <= 1
    /\ dispatched[r] > 0 => receipt[r] = "success"
    /\ attempt[r] = 1 /\ dispatched[r] > 0
         => stage[r] = "dispatch" /\ (step[r] = "native" \/ outcome[r] # "none")

EvidenceInv ==
    \A r \in Runs : /\ StepsOfJobs(r) /\ ManifestOf(r) /\ UpdateOf(r)
                    /\ ReceiptOf(r) /\ DispatchOf(r)

(* docs/ci-architecture.md: the registry completion observer and publisher *)
(* helpers remain unconnected, so no run leaves a receipt or a dispatch.   *)
CompletionUnconnected ==
    \A r \in Runs : receipt[r] = "none" /\ dispatched[r] = 0

(* The delivery implements the promise.                                    *)
Promise == INSTANCE DeliveryPromise WITH
    complete <- graph = "full",
    updater <- IF lock \in Runs THEN lock ELSE NoOne,
    plan <- planned,
    seen <- [r \in Runs |-> IF step[r] = "review" THEN initial[r]
                                               ELSE observed[r]],
    receipt <- [r \in Runs |-> receipt[r] = "success"],
    sent <- [r \in Runs |-> dispatched[r] > 0]

KeepsPromise == Promise!PSpec
===============================================================================
