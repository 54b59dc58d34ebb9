------------------------------- MODULE SavedPlan -------------------------------
(***************************************************************************)
(* scripts/run_pulumi_command.py: the commands of one workspace on several *)
(* stacks.  "plan" previews every stack and then writes one manifest that  *)
(* binds the plan and preview files to the commit, the project and the     *)
(* checkpoints; "up-plan" replays them, perhaps in a later job with        *)
(* another clock.  Commands fail or are killed between any two steps,      *)
(* files are altered and commits checked out between commands, and others  *)
(* write the checkpoints at any time.                                      *)
(***************************************************************************)
EXTENDS Integers, Sequences

CONSTANTS
    Stacks, Commits,
    Places,        \* backend URL, project and policy pack directories
    StackLists,    \* sequences of stacks commands are given
    Commands,
    SharedPlaces,  \* those whose backend is S3; others' is a directory
    CI,            \* GITHUB_ACTIONS
    MaxAge,        \* PULUMI_PLAN_MAX_AGE_SECONDS, in ticks
    TimeLimit,     \* of a command
    Offsets,       \* of a job's clock
    Spread,        \* at most so much apart are the clocks of two jobs
    MaxClock, MaxVersion, MaxEvents  \* bounds

ASSUME PlanAssumption ==
    /\ StackLists \in SUBSET Seq(Stacks) /\ <<>> \notin StackLists
    /\ SharedPlaces \in SUBSET Places /\ CI \in BOOLEAN
    /\ "none" \notin Stacks
    /\ MaxAge \in Nat /\ TimeLimit \in Nat /\ Offsets \in SUBSET Nat
    /\ Spread \in Nat /\ \A m, n \in Offsets : m - n <= Spread
    /\ MaxClock \in Nat /\ MaxVersion \in Nat \ {0} /\ MaxEvents \in Nat

VARIABLES
    clock, events,
    commit,      \* checked out
    checkpoint,  \* [Places \X Stacks -> version, 0 for none]
    planFile,    \* [Stacks -> Contents \cup {NoFile}]
    preview,     \* [Stacks -> Contents \cup {NoFile}]
    manifest,    \* Manifests \cup {NoFile}
    proc,        \* the command at work
    sealed       \* history: the last plan command that cleared the
                 \* artifacts has also written its manifest

files == <<planFile, preview, manifest>>
vars == <<clock, events, commit, checkpoint, files, proc, sealed>>

NoFile == [made |-> -1]

(* What a plan or preview file holds: whose it is, on which checkpoint and *)
(* commit it was computed and when, and if it destroys what is protected.  *)
Contents == [stack : Stacks, place : Places, base : 1 .. MaxVersion,
             commit : Commits, made : 0 .. MaxClock, destroys : BOOLEAN]

Entries == [plan : Contents, preview : Contents, identity : 0 .. MaxVersion]
NoEntry == [plan |-> NoFile]
Clocks == {t + o : t \in 0 .. MaxClock, o \in Offsets}
Manifests == [created : Clocks, commit : Commits, place : Places,
              entries : [Stacks -> Entries \cup {NoEntry}]]

Kinds == {"plan", "up-plan", "up", "refresh", "destroy", "preview", "drift",
          "preview script", "drift script"}
Steps == {"idle", "login", "clear", "validate", "select", "prepare", "run",
          "seal", "replay", "updating", "manifest"}

Idle == [step |-> "idle"]

(* A command at work: the stacks it was given and the one it is at, where  *)
(* it runs and since when, the plan file chosen for it, what it will write *)
(* or has read of a manifest, and the identity of the provider.            *)
Working == [command : Commands, stacks : StackLists, at : Nat, step : Steps,
            place : Places, selected : Stacks \cup {"none"},
            offset : Offsets, started : 0 .. MaxClock,
            entries : [Stacks -> Entries \cup {NoEntry}],
            loaded : Manifests \cup {NoFile}, identity : 0 .. MaxVersion]

ASSUME CommandsAssumption == Commands \in SUBSET Kinds

(* Files, manifest, checkpoints and the command at work have their types.  *)
TypeOK ==
    /\ clock \in 0 .. MaxClock /\ events \in 0 .. MaxEvents
    /\ commit \in Commits
    /\ checkpoint \in [Places \X Stacks -> 0 .. MaxVersion]
    /\ planFile \in [Stacks -> Contents \cup {NoFile}]
    /\ preview \in [Stacks -> Contents \cup {NoFile}]
    /\ manifest \in Manifests \cup {NoFile}
    /\ proc # Idle => proc \in Working /\ proc.at \in 1 .. Len(proc.stacks)
    /\ sealed \in BOOLEAN

Init ==
    /\ clock = 0 /\ events = 0
    /\ commit \in Commits
    /\ checkpoint \in [Places \X Stacks -> {0, 1}]
    /\ planFile = [s \in Stacks |-> NoFile]
    /\ preview = [s \in Stacks |-> NoFile]
    /\ manifest = NoFile
    /\ proc = Idle
    /\ sealed = FALSE

-----------------------------------------------------------------------------
(* The world around the commands.                                          *)

(* A job is killed at its time limit, so no tick finds a command older.    *)
Tick ==
    /\ clock < MaxClock
    /\ proc # Idle => clock < proc.started + TimeLimit
    /\ clock' = clock + 1
    /\ UNCHANGED <<events, commit, checkpoint, files, proc, sealed>>

Event == events < MaxEvents /\ events' = events + 1

Checkout ==
    /\ Event /\ proc = Idle
    /\ \E c \in Commits \ {commit} : commit' = c
    /\ UNCHANGED <<clock, checkpoint, files, proc, sealed>>

OtherWrites(at) ==
    /\ Event
    /\ checkpoint[at] \in 1 .. MaxVersion - 1
    /\ checkpoint' = [checkpoint EXCEPT ![at] = @ + 1]
    /\ UNCHANGED <<clock, commit, files, proc, sealed>>

(* A file is lost, mixed up with another stack's, or altered.              *)
Alter(s) ==
    /\ Event /\ proc = Idle
    /\ \E file \in {planFile[s], preview[s]} :
          /\ file # NoFile
          /\ \E x \in {NoFile, [file EXCEPT !.destroys = ~@]}
                          \cup {planFile[t] : t \in Stacks} :
                \/ planFile' = [planFile EXCEPT ![s] = x] /\ UNCHANGED preview
                \/ preview' = [preview EXCEPT ![s] = x] /\ UNCHANGED planFile
    /\ UNCHANGED <<clock, commit, checkpoint, manifest, proc, sealed>>

World ==
    \/ Tick \/ Checkout
    \/ \E at \in Places \X Stacks : OtherWrites(at)
    \/ \E s \in Stacks : Alter(s)

-----------------------------------------------------------------------------
(* What every command does.                                                *)

stack == proc.stacks[proc.at]
here == <<proc.place, stack>>
Shared == proc.place \in SharedPlaces

Goto(step) == proc' = [proc EXCEPT !.step = step]

(* The step a command's work on a stack begins with.                       *)
FirstStep(command) ==
    CASE command = "up-plan" -> "validate"
      [] command = "drift script" -> "run"
      [] OTHER -> "select"

(* up and destroy are refused in CI, a plan file chosen for several stacks *)
(* too; the drift script does nothing without a shared backend.            *)
Start(command) ==
    /\ proc = Idle
    /\ ~(CI /\ command \in {"up", "destroy"})
    /\ \E list \in StackLists, place \in Places, offset \in Offsets,
          selected \in Stacks \cup {"none"} :
          /\ selected # "none" => command = "up-plan" /\ Len(list) = 1
          /\ command = "drift script" => place \in SharedPlaces
          /\ proc' = [command |-> command, stacks |-> list, at |-> 1,
                      step |-> "login", place |-> place, selected |-> selected,
                      offset |-> offset, started |-> clock,
                      entries |-> [s \in Stacks |-> NoEntry],
                      loaded |-> NoFile, identity |-> 0]
    /\ UNCHANGED <<clock, events, commit, checkpoint, files, sealed>>

(* Logging in and preparing the policy pack come before anything is        *)
(* cleared: a plan that fails here leaves the earlier manifest in force.   *)
Login ==
    /\ proc.step = "login"
    /\ Goto(IF proc.command = "plan" THEN "clear" ELSE FirstStep(proc.command))
    /\ UNCHANGED <<clock, events, commit, checkpoint, files, sealed>>

(* The next stack, or what follows the last.                               *)
Advance ==
    proc' = IF proc.at < Len(proc.stacks)
            THEN [proc EXCEPT !.at = @ + 1, !.step = FirstStep(proc.command)]
            ELSE IF proc.command = "plan" THEN [proc EXCEPT !.step = "manifest"]
            ELSE Idle

(* A stack that does not exist is made on a local backend only.            *)
Select ==
    /\ proc.step = "select"
    /\ checkpoint[here] = 0 => ~Shared
    /\ checkpoint' = [checkpoint EXCEPT ![here] = IF @ = 0 THEN 1 ELSE @]
    /\ Goto(IF proc.command = "preview script" THEN "run" ELSE "prepare")
    /\ UNCHANGED <<clock, events, commit, files, sealed>>

(* prepared_stack_configuration, the subject of StackConfiguration: its    *)
(* identity is the version of the checkpoint it read.                      *)
Prepare ==
    /\ proc.step = "prepare"
    /\ proc' = [proc EXCEPT
          !.identity = IF Shared THEN checkpoint[here] ELSE 0,
          !.step = IF proc.command = "up-plan" THEN "replay" ELSE "run"]
    /\ UNCHANGED <<clock, events, commit, checkpoint, files, sealed>>

(* Previews and drift checks only read, in these commands and in the two   *)
(* scripts that need no prepared configuration.                            *)
Reads(commands) ==
    /\ proc.step = "run" /\ proc.command \in commands
    /\ checkpoint[here] # 0
    /\ Advance
    /\ UNCHANGED <<clock, events, commit, checkpoint, files, sealed>>

RunReading == Reads({"preview", "drift"})
RunPreviewScript == Reads({"preview script"})
RunDriftScript == Reads({"drift script"})

RunWriting ==
    /\ proc.step = "run"
    /\ proc.command \in {"up", "refresh", "destroy"}
    /\ Goto("updating")
    /\ UNCHANGED <<clock, events, commit, checkpoint, files, sealed>>

(* An update saves any number of times before it ends or fails.            *)
Save ==
    /\ proc.step = "updating"
    /\ checkpoint[here] < MaxVersion
    /\ checkpoint' = [checkpoint EXCEPT ![here] = @ + 1]
    /\ UNCHANGED <<clock, events, commit, files, proc, sealed>>

FinishUpdate ==
    /\ proc.step = "updating"
    /\ Advance
    /\ UNCHANGED <<clock, events, commit, checkpoint, files, sealed>>

(* A requirement does not hold, a call fails or the job is killed: no      *)
(* further stack is worked on, and what was written stays.                 *)
Fail ==
    /\ proc # Idle
    /\ proc' = Idle
    /\ UNCHANGED <<clock, events, commit, checkpoint, files, sealed>>

-----------------------------------------------------------------------------
(* plan                                                                    *)

(* Mutant: the manifest is left until the new one replaces it.             *)
ClearPreviews ==
    /\ proc.step = "clear"
    /\ preview' = [s \in Stacks |-> NoFile]
    /\ sealed' = FALSE
    /\ Goto("select")
    /\ UNCHANGED <<clock, events, commit, checkpoint, planFile, manifest>>

(* Plan files of earlier commands are not removed.                         *)
ClearArtifacts ==
    /\ proc.step = "clear"
    /\ manifest' = NoFile
    /\ preview' = [s \in Stacks |-> NoFile]
    /\ sealed' = FALSE
    /\ Goto("select")
    /\ UNCHANGED <<clock, events, commit, checkpoint, planFile>>

SavePlan ==
    /\ proc.step = "run" /\ proc.command = "plan"
    /\ checkpoint[here] # 0
    /\ \E destroys \in BOOLEAN :
          LET x == [stack |-> stack, place |-> proc.place,
                    base |-> checkpoint[here], commit |-> commit,
                    made |-> clock, destroys |-> destroys] IN
          /\ planFile' = [planFile EXCEPT ![stack] = x]
          /\ preview' = [preview EXCEPT ![stack] = x]
    /\ Goto("seal")
    /\ UNCHANGED <<clock, events, commit, checkpoint, manifest, sealed>>

(* Mutant: previews are not looked at.                                     *)
AnyPreview(file) == TRUE

SafePreview(file) == file # NoFile /\ ~file.destroys

(* Mutant: the manifest is written as soon as there is a plan to bind.     *)
SealFirst ==
    /\ proc.step = "seal"
    /\ SafePreview(preview[stack])
    /\ proc' = [proc EXCEPT
          !.entries[stack] = [plan |-> planFile[stack], preview |-> preview[stack],
                              identity |-> proc.identity],
          !.step = "manifest"]
    /\ UNCHANGED <<clock, events, commit, checkpoint, files, sealed>>

(* A stack listed twice has two entries; the first is the one found.       *)
Seal ==
    /\ proc.step = "seal"
    /\ SafePreview(preview[stack])
    /\ LET entry == [plan |-> planFile[stack], preview |-> preview[stack],
                     identity |-> proc.identity]
           next == [proc EXCEPT !.entries[stack] = IF @ = NoEntry THEN entry ELSE @]
       IN proc' = IF proc.at < Len(proc.stacks)
                  THEN [next EXCEPT !.at = @ + 1, !.step = "select"]
                  ELSE [next EXCEPT !.step = "manifest"]
    /\ UNCHANGED <<clock, events, commit, checkpoint, files, sealed>>

WriteManifest ==
    /\ proc.step = "manifest"
    /\ manifest' = [created |-> clock + proc.offset, commit |-> commit,
                    place |-> proc.place, entries |-> proc.entries]
    /\ sealed' = TRUE
    /\ proc' = Idle
    /\ UNCHANGED <<clock, events, commit, checkpoint, planFile, preview>>

-----------------------------------------------------------------------------
(* up-plan                                                                 *)

PlanOf(s) == planFile[IF proc.selected = "none" THEN s ELSE proc.selected]

(* Mutant: one tick too many.                                              *)
AgeNearlyOK(m) ==
    LET age == clock + proc.offset - m.created IN age >= 0 /\ age <= MaxAge + 1

(* A plan from the future is refused, one of exactly the greatest age not. *)
AgeOK(m) ==
    LET age == clock + proc.offset - m.created IN age >= 0 /\ age <= MaxAge

CommitOK(m) == m.commit = commit

(* Mutant: backend and project are not compared.                           *)
AnyProject(m) == TRUE

ProjectOK(m) == m.place = proc.place

(* Mutant: the digest of the plan file is not compared.                    *)
PreviewMatches(entry) ==
    /\ proc.selected \in {"none", stack}
    /\ preview[stack] = entry.preview /\ SafePreview(preview[stack])

(* The chosen plan file is the entry's, plan and preview have their        *)
(* digests, and the preview is safe.                                       *)
EntryOK(entry) ==
    /\ proc.selected \in {"none", stack}
    /\ PlanOf(stack) = entry.plan
    /\ preview[stack] = entry.preview /\ SafePreview(preview[stack])

(* The manifest is read for the first stack and kept for the others; it is *)
(* validated, and its age with it, for each.                               *)
Validate ==
    /\ proc.step = "validate"
    /\ PlanOf(stack) # NoFile
    /\ LET m == IF proc.loaded = NoFile THEN manifest ELSE proc.loaded IN
       /\ m # NoFile
       /\ AgeOK(m) /\ CommitOK(m) /\ ProjectOK(m)
       /\ m.entries[stack] # NoEntry /\ EntryOK(m.entries[stack])
       /\ proc' = [proc EXCEPT !.loaded = m, !.step = "select"]
    /\ UNCHANGED <<clock, events, commit, checkpoint, files, sealed>>

(* Mutant: the identity of the provider is not verified.                   *)
AnyIdentity(entry) == TRUE

SameIdentity(entry) == entry.identity = proc.identity

(* Another identity, or the registry gate, refuses by failing.             *)
Replay ==
    /\ proc.step = "replay"
    /\ SameIdentity(proc.loaded.entries[stack])
    /\ Goto("updating")
    /\ UNCHANGED <<clock, events, commit, checkpoint, files, sealed>>

Run ==
    \/ \E c \in Commands : Start(c)
    \/ Login \/ Select \/ Prepare
    \/ RunReading \/ RunPreviewScript \/ RunDriftScript \/ RunWriting \/ Save
    \/ FinishUpdate \/ Fail
    \/ ClearArtifacts \/ SavePlan \/ Seal \/ WriteManifest
    \/ Validate \/ Replay

Next == World \/ Run

Spec == Init /\ [][Next]_vars

-----------------------------------------------------------------------------
(* A manifest is in force only when the last plan command that cleared the *)
(* artifacts also finished: its failure at any stack leaves no plan of any *)
(* stack to replay, although the plan files of earlier commands remain.    *)
OnlyCompletePlans == manifest # NoFile => sealed

PlansInv == TypeOK /\ OnlyCompletePlans

(* The rest is about the step that hands a saved plan to Pulumi.           *)
Replays == proc # Idle /\ proc.step = "replay" /\ proc'.step = "updating"

(* What is replayed was planned for this stack, project and commit, by a   *)
(* command that finished, and destroys nothing protected, whatever became  *)
(* of the files in between and whichever file was selected.                *)
Reviewed ==
    Replays => LET x == PlanOf(stack) IN
        /\ sealed /\ x # NoFile
        /\ x.stack = stack /\ x.place = proc.place /\ x.commit = commit
        /\ ~x.destroys

ReplaysReviewedPlan == [][Reviewed]_vars

(* On a shared backend the plan was computed on the very checkpoint that   *)
(* the replay prepared its configuration from.  The identity in the        *)
(* manifest is read before the plan is computed, so others may write in    *)
(* between; but then the version has moved on when the replay reads it.    *)
(* In particular no plan is replayed over what its own failed or finished  *)
(* replay wrote.                                                           *)
OnPrepared == Replays /\ Shared => PlanOf(stack).base = proc.identity

PlannedOnPrepared == [][OnPrepared]_vars

(* A plan is at most so old, by a true clock, when it is replayed: the age *)
(* the manifest allows, the disagreement of the two clocks, and the time   *)
(* limits of the command that made it and the one that replays it.         *)
InTime == Replays => clock <= PlanOf(stack).made + MaxAge + Spread + 2 * TimeLimit

ReplayedInTime == [][InTime]_vars

-----------------------------------------------------------------------------
(* What of the files and of the command at work is promised: the plans the *)
(* manifest binds, the planning that has cleared the artifacts, with the   *)
(* plan it has just saved, and the replay that has prepared its stack.     *)
Promised(x) == [stack |-> x.stack, place |-> x.place, commit |-> x.commit,
                base |-> x.base, destroys |-> x.destroys]

PlansOf(entries) ==
    {Promised(entries[s].plan) : s \in {t \in Stacks : entries[t] # NoEntry}}

InForce == IF manifest = NoFile THEN {} ELSE PlansOf(manifest.entries)

Plans == proc # Idle /\ proc.command = "plan" /\ proc.step \notin {"login", "clear"}

Planning ==
    IF ~Plans THEN [wanted |-> {}]
    ELSE [wanted |-> {proc.stacks[i] : i \in 1 .. Len(proc.stacks)},
          place |-> proc.place, kept |-> PlansOf(proc.entries),
          draft |-> IF proc.step = "seal" THEN Promised(planFile[stack])
                    ELSE [base |-> 0]]

HoldsPlan ==
    proc # Idle /\ proc.command = "up-plan" /\ proc.step \in {"replay", "updating"}

Replaying ==
    IF ~HoldsPlan THEN [begun |-> FALSE]
    ELSE [plan |-> Promised(manifest.entries[stack].plan), read |-> proc.identity,
          begun |-> proc.step = "updating"]

Promise == INSTANCE PlanPromise WITH
    version <- checkpoint, inForce <- InForce, planning <- Planning,
    replay <- Replaying

(* The commands keep the promise, wherever they fail or are killed, what-  *)
(* ever becomes of the files between them and whoever else writes: plans   *)
(* come in force together and are withdrawn together, and only one of them *)
(* is replayed, on the version of the checkpoint it was computed on.       *)
KeepsPlans == Promise!PSpec
===============================================================================
