---------------------------- MODULE SavedPlan_proofs ----------------------------
(***************************************************************************)
(* What a replayed plan is, for any stacks, commits, backends, lists of    *)
(* stacks, clocks and limits, whatever happens to the files and to the     *)
(* checkpoints between and during the commands.                            *)
(***************************************************************************)
EXTENDS SavedPlan, TLAPS

-----------------------------------------------------------------------------
(* The inductive invariant.  What belongs to a command's step, and its age.*)
StepFits ==
    proc # Idle =>
        /\ proc.step # "idle"
        /\ proc.step \in {"clear", "seal", "manifest"} => proc.command = "plan"
        /\ proc.step \in {"validate", "replay"} => proc.command = "up-plan"
        /\ proc.step = "updating" => proc.command # "plan"
        /\ proc.started <= clock /\ clock <= proc.started + TimeLimit

(* What an entry says of its stack, at a place and a commit: the plan is   *)
(* safe, the checkpoint is not older than the one it was computed on, and  *)
(* on a shared backend that one is not older than the identity.            *)
GoodEntry(e, s, at, c) ==
    /\ e.plan.stack = s /\ e.plan.place = at /\ e.plan.commit = c
    /\ ~e.plan.destroys
    /\ e.plan.base <= checkpoint[<<at, s>>]
    /\ at \in SharedPlaces => e.identity <= e.plan.base

(* The entries a plan command has collected, and the one it is about to.   *)
Collected ==
    proc # Idle =>
        \A s \in Stacks : proc.entries[s] # NoEntry =>
            /\ GoodEntry(proc.entries[s], s, proc.place, commit)
            /\ proc.started <= proc.entries[s].plan.made

Saved ==
    proc # Idle /\ proc.step = "seal" =>
        /\ planFile[stack] \in Contents /\ preview[stack] = planFile[stack]
        /\ planFile[stack].stack = stack /\ planFile[stack].place = proc.place
        /\ planFile[stack].commit = commit
        /\ planFile[stack].base <= checkpoint[here]
        /\ Shared => proc.identity <= planFile[stack].base
        /\ proc.started <= planFile[stack].made

Identified ==
    proc # Idle /\ proc.step = "run" /\ proc.command = "plan" /\ Shared
        => proc.identity <= checkpoint[here]

(* The manifest on disk, which was written within a command's time limit   *)
(* of every plan it names.                                                 *)
Timely(m, e) == \E o \in Offsets : m.created <= e.plan.made + TimeLimit + o

Binding ==
    manifest # NoFile =>
        \A s \in Stacks : manifest.entries[s] # NoEntry =>
            /\ GoodEntry(manifest.entries[s], s, manifest.place, manifest.commit)
            /\ Timely(manifest, manifest.entries[s])

(* What a replaying command has read is still that manifest, and what it   *)
(* validated is still so while it prepares the stack.                      *)
Loaded ==
    proc # Idle /\ proc.command = "up-plan" /\ proc.loaded # NoFile =>
        /\ proc.loaded = manifest
        /\ manifest.place = proc.place /\ manifest.commit = commit
        /\ proc.started + proc.offset <= MaxAge + manifest.created

Validated ==
    proc # Idle /\ proc.command = "up-plan"
            /\ proc.step \in {"select", "prepare", "replay"} =>
        /\ proc.loaded # NoFile /\ proc.loaded.entries[stack] # NoEntry
        /\ PlanOf(stack) = proc.loaded.entries[stack].plan
        /\ proc.step = "replay" /\ Shared => PlanOf(stack).base <= proc.identity

RunInv == StepFits /\ Collected /\ Saved /\ Identified /\ Binding /\ Loaded
            /\ Validated

IInv == PlansInv /\ RunInv

-----------------------------------------------------------------------------
(* Where a command is.                                                     *)
LEMMA AtWork ==
    ASSUME TypeOK, proc # Idle
    PROVE  /\ proc \in Working /\ proc.at \in 1 .. Len(proc.stacks)
           /\ proc.stacks \in Seq(Stacks)
           /\ stack \in Stacks /\ proc.place \in Places
           /\ here \in Places \X Stacks
           /\ proc.entries \in [Stacks -> Entries \cup {NoEntry}]
           /\ proc.started \in 0 .. MaxClock /\ proc.identity \in 0 .. MaxVersion
           /\ proc.offset \in Offsets /\ proc.offset \in Nat
<1>1. proc \in Working /\ proc.at \in 1 .. Len(proc.stacks)
  BY DEF TypeOK
<1>2. /\ proc.stacks \in StackLists /\ proc.place \in Places
      /\ proc.entries \in [Stacks -> Entries \cup {NoEntry}]
      /\ proc.started \in 0 .. MaxClock /\ proc.identity \in 0 .. MaxVersion
      /\ proc.offset \in Offsets
  BY <1>1 DEF Working
<1>3. proc.stacks \in Seq(Stacks) /\ proc.offset \in Nat
  BY <1>2, PlanAssumption
<1>4. stack \in Stacks
  BY <1>1, <1>3 DEF stack
<1> QED BY <1>1, <1>2, <1>3, <1>4 DEF here

(* A file, an entry and a manifest are not mistaken for their absence.     *)
LEMMA Present ==
    /\ NoFile \notin Contents
    /\ NoEntry \notin Entries
    /\ \A x \in Contents : /\ x.stack \in Stacks /\ x.place \in Places
                           /\ x.base \in 1 .. MaxVersion /\ x.made \in 0 .. MaxClock
                           /\ x.destroys \in BOOLEAN
    /\ \A e \in Entries : e.plan \in Contents /\ e.identity \in 0 .. MaxVersion
<1>1. NoFile \notin Contents
  <2> SUFFICES ASSUME NoFile \in Contents PROVE FALSE
    OBVIOUS
  <2>1. NoFile.made = -1
    BY DEF NoFile
  <2>2. NoFile.made \in 0 .. MaxClock
    BY DEF Contents
  <2> QED BY <2>1, <2>2, PlanAssumption
<1>2. NoEntry \notin Entries
  <2> SUFFICES ASSUME NoEntry \in Entries PROVE FALSE
    OBVIOUS
  <2>1. NoEntry.plan = NoFile
    BY DEF NoEntry
  <2>2. NoEntry.plan \in Contents
    BY DEF Entries
  <2> QED BY <1>1, <2>1, <2>2
<1>3. \A x \in Contents : /\ x.stack \in Stacks /\ x.place \in Places
                          /\ x.base \in 1 .. MaxVersion /\ x.made \in 0 .. MaxClock
                          /\ x.destroys \in BOOLEAN
  BY DEF Contents
<1>4. \A e \in Entries : e.plan \in Contents /\ e.identity \in 0 .. MaxVersion
  BY DEF Entries
<1> QED BY <1>1, <1>2, <1>3, <1>4

LEMMA NoManifest == NoFile \notin Manifests
<1> SUFFICES ASSUME NoFile \in Manifests PROVE FALSE
  OBVIOUS
<1>1. DOMAIN NoFile = {"made"}
  BY DEF NoFile
<1>2. "created" \in DOMAIN NoFile
  BY DEF Manifests
<1> QED BY <1>1, <1>2

(* Checkpoints only grow.                                                  *)
Grown == /\ checkpoint' \in [Places \X Stacks -> 0 .. MaxVersion]
         /\ \A at \in Places \X Stacks : checkpoint[at] <= checkpoint'[at]

LEMMA StaysGood ==
    ASSUME TypeOK, Grown, NEW e \in Entries, NEW s \in Stacks, NEW at \in Places,
           NEW c, GoodEntry(e, s, at, c)
    PROVE  GoodEntry(e, s, at, c)'
<1>1. /\ e.plan.base \in Nat /\ <<at, s>> \in Places \X Stacks
      /\ checkpoint[<<at, s>>] \in Nat /\ checkpoint'[<<at, s>>] \in Nat
  BY Present, PlanAssumption DEF TypeOK, Grown
<1>2. checkpoint[<<at, s>>] <= checkpoint'[<<at, s>>]
  BY <1>1 DEF Grown
<1> QED BY <1>1, <1>2 DEF GoodEntry

LEMMA InitPlans == Init => IInv
<1> SUFFICES ASSUME Init PROVE IInv
  OBVIOUS
<1> USE PlanAssumption DEF Init
<1>1. checkpoint \in [Places \X Stacks -> 0 .. MaxVersion]
  OBVIOUS
<1>2. sealed \in BOOLEAN
  OBVIOUS
<1>3. PlansInv
  BY <1>1, <1>2 DEF PlansInv, TypeOK, OnlyCompletePlans
<1> QED BY <1>3 DEF IInv, RunInv, StepFits, Collected, Saved, Identified, Binding,
                    Loaded, Validated

(* What files bind, whatever the commands do, while checkpoints grow.      *)
LEMMA BindingStays ==
    ASSUME TypeOK, Binding, Grown, manifest' = manifest
    PROVE  Binding'
<1> SUFFICES ASSUME manifest # NoFile, NEW s \in Stacks,
                    manifest.entries[s] # NoEntry
             PROVE  /\ GoodEntry(manifest.entries[s], s, manifest.place,
                                 manifest.commit)'
                    /\ Timely(manifest, manifest.entries[s])
  BY DEF Binding, Timely
<1>1. manifest \in Manifests
  BY DEF TypeOK
<1>2. manifest.entries[s] \in Entries /\ manifest.place \in Places
  BY <1>1 DEF Manifests
<1>3. /\ GoodEntry(manifest.entries[s], s, manifest.place, manifest.commit)
      /\ Timely(manifest, manifest.entries[s])
  BY DEF Binding
<1> QED BY <1>2, <1>3, StaysGood DEF GoodEntry

LEMMA CollectedStays ==
    ASSUME TypeOK, Collected, Grown, proc # Idle,
           proc'.entries = proc.entries, proc'.place = proc.place,
           proc'.started = proc.started, commit' = commit
    PROVE  Collected'
<1> SUFFICES ASSUME NEW s \in Stacks, proc.entries[s] # NoEntry
             PROVE  /\ GoodEntry(proc.entries[s], s, proc.place, commit)'
                    /\ proc.started <= proc.entries[s].plan.made
  BY DEF Collected, GoodEntry
<1>1. proc.entries[s] \in Entries /\ proc.place \in Places
  BY AtWork
<1>2. /\ GoodEntry(proc.entries[s], s, proc.place, commit)
      /\ proc.started <= proc.entries[s].plan.made
  BY DEF Collected
<1> QED BY <1>1, <1>2, StaysGood DEF GoodEntry

-----------------------------------------------------------------------------
(* Steps of one kind.  A command ends, well or not.                        *)
Quiet == UNCHANGED <<clock, commit, files, sealed>> /\ events' \in 0 .. MaxEvents

LEMMA Ended ==
    ASSUME IInv, Quiet, Grown, proc' = Idle
    PROVE  IInv'
<1> USE DEF IInv, PlansInv, RunInv
<1>1. TypeOK'
  BY DEF TypeOK, Quiet, files, Grown
<1>2. OnlyCompletePlans'
  BY DEF OnlyCompletePlans, Quiet, files
<1>3. Binding'
  BY BindingStays DEF Quiet, files
<1> QED BY <1>1, <1>2, <1>3 DEF StepFits, Collected, Saved, Identified, Loaded,
                                Validated

(* Somebody writes a checkpoint; the commands stay where they are.         *)
LEMMA Written ==
    ASSUME IInv, Quiet, Grown, proc' = proc
    PROVE  IInv'
<1> USE DEF IInv, PlansInv, RunInv
<1>1. TypeOK'
  BY DEF TypeOK, Quiet, files, Grown
<1>2. OnlyCompletePlans'
  BY DEF OnlyCompletePlans, Quiet, files
<1>3. Binding'
  BY BindingStays DEF Quiet, files
<1>4. Collected'
  <2>1. CASE proc = Idle
    BY <2>1 DEF Collected
  <2>2. CASE proc # Idle
    BY <2>2, CollectedStays DEF Quiet
  <2> QED BY <2>1, <2>2
<1>5. StepFits'
  BY DEF StepFits, Quiet
<1>6. stack' = stack /\ here' = here /\ (Shared' <=> Shared)
  BY DEF stack, here, Shared
<1>7. Saved' /\ Identified'
  <2> SUFFICES ASSUME proc # Idle PROVE Saved' /\ Identified'
    BY DEF Saved, Identified
  <2>1. /\ checkpoint[here] \in Nat /\ checkpoint'[here] \in Nat
        /\ checkpoint[here] <= checkpoint'[here] /\ proc.identity \in Nat
    BY AtWork, PlanAssumption DEF TypeOK, Grown
  <2>2. Saved'
    <3> SUFFICES ASSUME proc.step = "seal"
                 PROVE  planFile[stack].base <= checkpoint'[here]
      BY <1>6 DEF Saved, Quiet, files
    <3>1. planFile[stack].base \in Nat /\ planFile[stack].base <= checkpoint[here]
      BY Present, PlanAssumption DEF Saved
    <3> QED BY <2>1, <3>1
  <2>3. Identified'
    BY <1>6, <2>1 DEF Identified
  <2> QED BY <2>2, <2>3
<1>8. Loaded'
  BY DEF Loaded, Quiet, files
<1>9. Validated'
  BY <1>6 DEF Validated, Quiet, files, PlanOf
<1> QED BY <1>1, <1>2, <1>3, <1>4, <1>5, <1>7, <1>8, <1>9

(* The command at work goes on to another step, or to another stack, with  *)
(* what it has.                                                            *)
SameCommand ==
    /\ proc'.command = proc.command /\ proc'.place = proc.place
    /\ proc'.selected = proc.selected /\ proc'.offset = proc.offset
    /\ proc'.started = proc.started /\ proc'.entries = proc.entries
    /\ proc'.loaded = proc.loaded

LEMMA GoesOn ==
    ASSUME IInv, Quiet, Grown, proc # Idle, SameCommand,
           proc' \in Working, proc'.at \in 1 .. Len(proc'.stacks),
           proc'.step \notin {"idle", "seal"},
           proc'.step \in {"clear", "manifest"} => proc.command = "plan",
           proc'.step \in {"validate", "replay"} => proc.command = "up-plan",
           proc'.step = "updating" => proc.command # "plan",
           proc'.step = "run" /\ proc.command = "plan" /\ Shared =>
               proc'.identity <= checkpoint'[here'],
           proc.command = "up-plan" /\ proc'.step \in {"select", "prepare", "replay"} =>
               /\ proc.step \in {"select", "prepare"} /\ stack' = stack
               /\ proc'.step = "replay" /\ Shared => proc'.identity = checkpoint[here]
    PROVE  IInv'
<1> USE DEF IInv, PlansInv, RunInv
<1>1. TypeOK'
  BY DEF TypeOK, Quiet, files, Grown
<1>2. OnlyCompletePlans'
  BY DEF OnlyCompletePlans, Quiet, files
<1>3. Binding'
  BY BindingStays DEF Quiet, files
<1>4. Collected'
  BY CollectedStays DEF SameCommand, Quiet
<1>5. StepFits'
  BY DEF StepFits, SameCommand, Quiet
<1>6. Shared' <=> Shared
  BY DEF Shared, SameCommand
<1>7. Saved' /\ Identified'
  BY <1>6 DEF Saved, Identified, SameCommand
<1>8. Loaded'
  BY DEF Loaded, SameCommand, Quiet, files
<1>9. Validated'
  <2> SUFFICES ASSUME proc.command = "up-plan",
                      proc'.step \in {"select", "prepare", "replay"}
               PROVE  /\ proc.loaded # NoFile
                      /\ proc.loaded.entries[stack] # NoEntry
                      /\ PlanOf(stack) = proc.loaded.entries[stack].plan
                      /\ proc'.step = "replay" /\ Shared =>
                            PlanOf(stack).base <= proc'.identity
    <3>1. stack' = stack => PlanOf(stack)' = PlanOf(stack)
      BY DEF PlanOf, SameCommand, Quiet, files
    <3> QED BY <1>6, <3>1 DEF Validated, SameCommand
  <2>1. /\ proc.loaded # NoFile /\ proc.loaded.entries[stack] # NoEntry
        /\ PlanOf(stack) = proc.loaded.entries[stack].plan
    BY DEF Validated
  <2>2. PlanOf(stack).base <= checkpoint[here]
    <3>1. /\ proc.loaded = manifest /\ manifest # NoFile
          /\ manifest.place = proc.place
      BY <2>1 DEF Loaded
    <3>2. stack \in Stacks
      BY AtWork
    <3>3. GoodEntry(manifest.entries[stack], stack, manifest.place, manifest.commit)
      BY <2>1, <3>1, <3>2 DEF Binding
    <3> QED BY <2>1, <3>1, <3>3 DEF GoodEntry, here
  <2> QED BY <2>1, <2>2
<1> QED BY <1>1, <1>2, <1>3, <1>4, <1>5, <1>7, <1>8, <1>9

(* What the updates of the command at work leave of it.                    *)
LEMMA Stepped ==
    ASSUME NEW p \in Working, NEW x \in Steps
    PROVE  LET q == [p EXCEPT !.step = x] IN
           /\ q \in Working /\ q.step = x /\ q.at = p.at /\ q.stacks = p.stacks
           /\ q.command = p.command /\ q.place = p.place
           /\ q.selected = p.selected /\ q.offset = p.offset
           /\ q.started = p.started /\ q.entries = p.entries
           /\ q.loaded = p.loaded /\ q.identity = p.identity
BY DEF Working

LEMMA Advanced ==
    ASSUME NEW p \in Working, NEW x \in Steps, p.at < Len(p.stacks),
           p.at \in 1 .. Len(p.stacks), p.stacks \in Seq(Stacks)
    PROVE  LET q == [p EXCEPT !.at = @ + 1, !.step = x] IN
           /\ q \in Working /\ q.step = x /\ q.stacks = p.stacks
           /\ q.at \in 1 .. Len(q.stacks)
           /\ q.command = p.command /\ q.place = p.place
           /\ q.selected = p.selected /\ q.offset = p.offset
           /\ q.started = p.started /\ q.entries = p.entries
           /\ q.loaded = p.loaded
<1>1. Len(p.stacks) \in Nat /\ p.at + 1 \in 1 .. Len(p.stacks) /\ p.at + 1 \in Nat
  OBVIOUS
<1>2. [p EXCEPT !.at = @ + 1, !.step = x] = [p EXCEPT !.at = p.at + 1, !.step = x]
  OBVIOUS
<1> QED BY <1>1, <1>2 DEF Working


-----------------------------------------------------------------------------
(* The world.                                                              *)
LEMMA Same ==
    ASSUME TypeOK, checkpoint' = checkpoint PROVE Grown
<1>1. \A at \in Places \X Stacks : checkpoint[at] \in Nat
  BY PlanAssumption DEF TypeOK
<1> QED BY <1>1 DEF Grown, TypeOK

LEMMA Saving ==
    ASSUME TypeOK, NEW at \in Places \X Stacks, checkpoint[at] < MaxVersion,
           checkpoint' = [checkpoint EXCEPT ![at] = @ + 1]
    PROVE  Grown
<1>1. /\ checkpoint \in [Places \X Stacks -> 0 .. MaxVersion]
      /\ \A x \in Places \X Stacks : checkpoint[x] \in 0 .. MaxVersion
  BY DEF TypeOK
<1>2. checkpoint[at] + 1 \in 0 .. MaxVersion /\ checkpoint[at] <= checkpoint[at] + 1
  BY <1>1, PlanAssumption
<1>3. \A x \in Places \X Stacks :
         /\ checkpoint'[x] = IF x = at THEN checkpoint[at] + 1 ELSE checkpoint[x]
         /\ checkpoint[x] <= checkpoint[x]
  BY <1>1, PlanAssumption
<1>4. checkpoint' \in [Places \X Stacks -> 0 .. MaxVersion]
  BY <1>1, <1>2
<1> QED BY <1>2, <1>3, <1>4 DEF Grown

LEMMA WorldKeeps == IInv /\ World => IInv'
<1> SUFFICES ASSUME IInv, World PROVE IInv'
  OBVIOUS
<1>1. TypeOK
  BY DEF IInv, PlansInv
<1>2. CASE Tick
  <2> USE <1>2 DEF Tick, IInv, PlansInv, RunInv, files
  <2>1. clock' \in 0 .. MaxClock
    BY PlanAssumption DEF TypeOK
  <2>2. TypeOK'
    BY <2>1 DEF TypeOK
  <2>3. StepFits'
    <3> SUFFICES ASSUME proc # Idle
                 PROVE  proc.started <= clock + 1 /\ clock + 1 <= proc.started + TimeLimit
      BY DEF StepFits
    <3>1. proc.started \in Nat /\ clock \in Nat
      BY AtWork, PlanAssumption DEF TypeOK
    <3> QED BY <3>1, PlanAssumption DEF StepFits
  <2>4. OnlyCompletePlans' /\ Binding'
    BY <1>1, Same, BindingStays DEF OnlyCompletePlans
  <2>5. stack' = stack /\ here' = here /\ (Shared' <=> Shared)
    BY DEF stack, here, Shared
  <2>6. Collected'
    <3>1. CASE proc = Idle
      BY <3>1 DEF Collected
    <3>2. CASE proc # Idle
      BY <1>1, <3>2, Same, CollectedStays
    <3> QED BY <3>1, <3>2
  <2>7. Saved' /\ Identified'
    BY <2>5 DEF Saved, Identified
  <2>8. Loaded' /\ Validated'
    BY <2>5 DEF Loaded, Validated, PlanOf
  <2> QED BY <2>2, <2>3, <2>4, <2>6, <2>7, <2>8
<1>3. CASE Checkout
  <2> USE <1>3 DEF Checkout, Event, IInv, PlansInv, RunInv, files
  <2>1. TypeOK'
    BY PlanAssumption DEF TypeOK
  <2>2. OnlyCompletePlans' /\ Binding'
    BY <1>1, Same, BindingStays DEF OnlyCompletePlans
  <2> QED BY <2>1, <2>2 DEF StepFits, Collected, Saved, Identified, Loaded, Validated
<1>4. ASSUME NEW at \in Places \X Stacks, OtherWrites(at) PROVE IInv'
  <2>1. Quiet /\ proc' = proc
    BY <1>1, <1>4, PlanAssumption DEF OtherWrites, Event, Quiet, TypeOK
  <2>2. Grown
    <3>1. /\ checkpoint[at] < MaxVersion
          /\ checkpoint' = [checkpoint EXCEPT ![at] = @ + 1]
      BY <1>4, PlanAssumption DEF OtherWrites
    <3> QED BY <1>1, <3>1, Saving
  <2> QED BY <2>1, <2>2, Written
<1>5. ASSUME NEW s \in Stacks, Alter(s) PROVE IInv'
  <2>1. PICK file \in {planFile[s], preview[s]} :
          /\ file # NoFile
          /\ \E x \in {NoFile, [file EXCEPT !.destroys = ~@]}
                          \cup {planFile[t] : t \in Stacks} :
                \/ planFile' = [planFile EXCEPT ![s] = x] /\ UNCHANGED preview
                \/ preview' = [preview EXCEPT ![s] = x] /\ UNCHANGED planFile
    BY <1>5 DEF Alter
  <2>2. PICK x \in {NoFile, [file EXCEPT !.destroys = ~@]}
                      \cup {planFile[t] : t \in Stacks} :
          \/ planFile' = [planFile EXCEPT ![s] = x] /\ UNCHANGED preview
          \/ preview' = [preview EXCEPT ![s] = x] /\ UNCHANGED planFile
    BY <2>1
  <2>3. x \in Contents \cup {NoFile}
    <3>1. file \in Contents
      BY <1>1, <2>1 DEF TypeOK
    <3>2. [file EXCEPT !.destroys = ~@] \in Contents
      BY <3>1 DEF Contents
    <3> QED BY <1>1, <2>2, <3>2 DEF TypeOK
  <2>4. /\ planFile' \in [Stacks -> Contents \cup {NoFile}]
        /\ preview' \in [Stacks -> Contents \cup {NoFile}]
    BY <1>1, <2>2, <2>3 DEF TypeOK
  <2>5. /\ UNCHANGED <<clock, commit, checkpoint, manifest, proc, sealed>>
        /\ proc = Idle /\ events' \in 0 .. MaxEvents
    BY <1>1, <1>5, PlanAssumption DEF Alter, Event, TypeOK
  <2>6. TypeOK'
    BY <1>1, <2>4, <2>5 DEF TypeOK
  <2>7. OnlyCompletePlans' /\ Binding'
    BY <1>1, <2>5, Same, BindingStays DEF OnlyCompletePlans, IInv, PlansInv, RunInv
  <2> QED BY <2>5, <2>6, <2>7
          DEF IInv, PlansInv, RunInv, StepFits, Collected, Saved, Identified, Loaded,
              Validated
<1> QED BY <1>2, <1>3, <1>4, <1>5 DEF World

-----------------------------------------------------------------------------
(* The commands.                                                           *)
LEMMA StartKeeps ==
    ASSUME IInv, NEW command \in Commands, Start(command) PROVE IInv'
<1> USE DEF IInv, PlansInv, RunInv
<1>1. PICK list \in StackLists, place \in Places, offset \in Offsets,
           selected \in Stacks \cup {"none"} :
        proc' = [command |-> command, stacks |-> list, at |-> 1,
                 step |-> "login", place |-> place, selected |-> selected,
                 offset |-> offset, started |-> clock,
                 entries |-> [s \in Stacks |-> NoEntry],
                 loaded |-> NoFile, identity |-> 0]
  BY DEF Start
<1>2. UNCHANGED <<clock, events, commit, checkpoint, files, sealed>>
  BY DEF Start
<1>3. 1 \in 1 .. Len(list)
  <2>1. list \in Seq(Stacks) /\ list # << >>
    BY PlanAssumption
  <2> QED BY <2>1
<1>4. proc' \in Working
  BY <1>1, PlanAssumption DEF Working, TypeOK, Steps
<1>5. TypeOK'
  BY <1>1, <1>2, <1>3, <1>4 DEF TypeOK, files
<1>6. StepFits'
  <2>1. clock \in Nat
    BY PlanAssumption DEF TypeOK
  <2> QED BY <1>1, <1>2, <2>1, PlanAssumption DEF StepFits
<1>7. OnlyCompletePlans' /\ Binding'
  BY <1>2, Same, BindingStays DEF OnlyCompletePlans, files
<1> QED BY <1>1, <1>5, <1>6, <1>7 DEF Collected, Saved, Identified, Loaded, Validated

(* What the command goes on with: a step, or what follows a stack.         *)
LEMMA GotoIs ==
    ASSUME IInv, proc # Idle, NEW x \in Steps \ {"idle"}, Goto(x)
    PROVE  /\ SameCommand /\ proc' \in Working /\ proc'.at \in 1 .. Len(proc'.stacks)
           /\ proc'.step = x /\ proc'.identity = proc.identity
           /\ stack' = stack /\ here' = here
<1>1. proc \in Working /\ proc.at \in 1 .. Len(proc.stacks)
  BY AtWork DEF IInv, PlansInv
<1>2. proc' = [proc EXCEPT !.step = x]
  BY DEF Goto
<1> QED BY <1>1, <1>2, Stepped DEF SameCommand, stack, here

LEMMA AdvanceKeeps ==
    ASSUME IInv, proc # Idle, Advance, Quiet, checkpoint' = checkpoint,
           proc.command # "plan"
    PROVE  IInv'
<1> USE DEF IInv, PlansInv
<1>1. proc \in Working /\ proc.at \in 1 .. Len(proc.stacks)
        /\ proc.stacks \in Seq(Stacks)
  BY AtWork
<1>2. Grown
  BY Same
<1>3. CASE proc.at < Len(proc.stacks)
  <2> DEFINE x == FirstStep(proc.command)
  <2>1. /\ x \in Steps \ {"idle", "seal", "clear", "manifest", "replay",
                     "updating"}
        /\ x = "validate" => proc.command = "up-plan"
        /\ proc.command = "up-plan" => x = "validate"
    BY DEF FirstStep, Steps
  <2>2. proc' = [proc EXCEPT !.at = @ + 1, !.step = x]
    BY <1>3 DEF Advance
  <2> HIDE DEF x
  <2>3. /\ SameCommand /\ proc' \in Working /\ proc'.at \in 1 .. Len(proc'.stacks)
        /\ proc'.step = x
    BY <1>1, <1>3, <2>1, <2>2, Advanced DEF SameCommand
  <2> QED BY <1>2, <2>1, <2>3, GoesOn
<1>4. CASE ~ (proc.at < Len(proc.stacks))
  <2>1. proc' = Idle
    BY <1>4 DEF Advance
  <2> QED BY <1>2, <2>1, Ended
<1> QED BY <1>3, <1>4

LEMMA Still ==
    ASSUME IInv, UNCHANGED <<clock, events, commit, files, sealed>> PROVE Quiet
BY DEF Quiet, IInv, PlansInv, TypeOK

LEMMA LoginKeeps ==
    ASSUME IInv, Login PROVE IInv'
<1>1. proc # Idle /\ Quiet /\ checkpoint' = checkpoint
  <2>1. proc # Idle /\ checkpoint' = checkpoint
    BY DEF Login, Idle
  <2> QED BY <2>1, Still DEF Login
<1>2. Grown
  BY <1>1, Same DEF IInv, PlansInv
<1> DEFINE x == IF proc.command = "plan" THEN "clear" ELSE FirstStep(proc.command)
<1>3. /\ x \in Steps \ {"idle", "seal", "manifest", "replay",
                     "updating"}
      /\ x = "validate" => proc.command = "up-plan"
      /\ x = "clear" => proc.command = "plan"
      /\ x = "run" => proc.command # "plan"
      /\ proc.command = "up-plan" => x = "validate"
  BY DEF FirstStep, Steps
<1>4. Goto(x)
  BY DEF Login
<1> HIDE DEF x
<1>5. /\ SameCommand /\ proc' \in Working /\ proc'.at \in 1 .. Len(proc'.stacks)
      /\ proc'.step = x
  BY <1>1, <1>3, <1>4, GotoIs
<1> QED BY <1>1, <1>2, <1>3, <1>5, GoesOn

LEMMA SelectKeeps ==
    ASSUME IInv, Select PROVE IInv'
<1>1. proc # Idle /\ Quiet /\ proc.step = "select"
  <2>1. proc.step = "select"
    BY Zenon DEF Select
  <2>2. proc # Idle
    BY <2>1 DEF Idle
  <2>3. UNCHANGED <<clock, events, commit, files, sealed>>
    BY Zenon DEF Select
  <2> QED BY <2>1, <2>2, <2>3, Still
<1>2. here \in Places \X Stacks
  BY <1>1, AtWork DEF IInv, PlansInv
<1>3. Grown
  <2>1. /\ checkpoint \in [Places \X Stacks -> 0 .. MaxVersion]
        /\ \A at \in Places \X Stacks : checkpoint[at] \in Nat
    BY PlanAssumption DEF IInv, PlansInv, TypeOK
  <2>2. checkpoint' = [checkpoint EXCEPT ![here] = IF @ = 0 THEN 1 ELSE @]
    BY DEF Select
  <2>3. 1 \in 0 .. MaxVersion
    BY PlanAssumption
  <2> QED BY <1>2, <2>1, <2>2, <2>3 DEF Grown
<1> DEFINE x == IF proc.command = "preview script" THEN "run" ELSE "prepare"
<1>4. /\ x \in Steps \ {"idle", "seal", "manifest", "replay", "clear", "validate",
                     "updating"}
      /\ x \notin {"select", "replay"}
      /\ x = "run" => proc.command # "plan"
  BY DEF Steps
<1>5. Goto(x)
  BY DEF Select
<1> HIDE DEF x
<1>6. /\ SameCommand /\ proc' \in Working /\ proc'.at \in 1 .. Len(proc'.stacks)
      /\ proc'.step = x /\ stack' = stack
  BY <1>1, <1>4, <1>5, GotoIs
<1> QED BY <1>1, <1>3, <1>4, <1>6, GoesOn

LEMMA PrepareKeeps ==
    ASSUME IInv, Prepare PROVE IInv'
<1>1. proc # Idle /\ Quiet /\ proc.step = "prepare" /\ checkpoint' = checkpoint
  <2>1. proc # Idle /\ proc.step = "prepare" /\ checkpoint' = checkpoint
    BY DEF Prepare, Idle
  <2> QED BY <2>1, Still DEF Prepare
<1>2. Grown
  BY <1>1, Same DEF IInv, PlansInv
<1>3. /\ proc \in Working /\ proc.at \in 1 .. Len(proc.stacks)
      /\ here \in Places \X Stacks
  BY <1>1, AtWork DEF IInv, PlansInv
<1> DEFINE x == IF proc.command = "up-plan" THEN "replay" ELSE "run"
           i == IF Shared THEN checkpoint[here] ELSE 0
<1>4. x \in Steps /\ (x = "replay" <=> proc.command = "up-plan") /\ x \in {"replay", "run"}
  BY DEF Steps
<1>5. i \in 0 .. MaxVersion /\ checkpoint[here] \in Nat
  BY <1>3, PlanAssumption DEF IInv, PlansInv, TypeOK
<1>9. Shared => i = checkpoint[here]
  OBVIOUS
<1>6. proc' = [proc EXCEPT !.identity = i, !.step = x]
  BY DEF Prepare
<1> HIDE DEF x, i
<1>7. /\ SameCommand /\ proc' \in Working /\ proc'.at \in 1 .. Len(proc'.stacks)
      /\ proc'.step = x /\ proc'.identity = i /\ stack' = stack /\ here' = here
  <2>1. /\ proc' \in Working /\ proc'.step = x /\ proc'.at = proc.at
        /\ proc'.stacks = proc.stacks /\ proc'.identity = i /\ SameCommand
    <3>1. proc \in Working /\ x \in Steps /\ i \in 0 .. MaxVersion
      BY <1>3, <1>4, <1>5
    <3> QED BY <1>6, <3>1 DEF SameCommand, Working
  <2>2. stack' = stack
    BY <2>1 DEF stack
  <2> QED BY <1>3, <2>1, <2>2 DEF here, SameCommand
<1>8. Shared => i <= checkpoint'[here']
  BY <1>1, <1>5, <1>7, <1>9
<1> QED BY <1>1, <1>2, <1>4, <1>7, <1>8, <1>9, GoesOn

LEMMA ReadsKeeps ==
    ASSUME IInv, NEW commands, "plan" \notin commands, Reads(commands) PROVE IInv'
<1>1. /\ proc.step = "run" /\ proc.command \in commands /\ Advance
      /\ checkpoint' = checkpoint
      /\ UNCHANGED <<clock, events, commit, files, sealed>>
  BY DEF Reads
<1>2. proc # Idle /\ Quiet
  BY <1>1, Still DEF Idle
<1> QED BY <1>1, <1>2, AdvanceKeeps

(* The command begins to update its stack.                                 *)
LEMMA BeginsUpdate ==
    ASSUME IInv, proc # Idle, proc.command # "plan", Goto("updating"),
           UNCHANGED <<clock, events, commit, checkpoint, files, sealed>>
    PROVE  IInv'
<1>1. Quiet /\ Grown
  BY Still, Same DEF IInv, PlansInv
<1>2. "updating" \in Steps \ {"idle"}
  BY DEF Steps
<1>3. /\ SameCommand /\ proc' \in Working /\ proc'.at \in 1 .. Len(proc'.stacks)
      /\ proc'.step = "updating"
  BY <1>2, GotoIs
<1> QED BY <1>1, <1>3, GoesOn

LEMMA UpdatesKeep ==
    ASSUME IInv, RunWriting \/ Replay \/ Save \/ FinishUpdate PROVE IInv'
<1>1. CASE RunWriting
  <2>1. proc # Idle /\ proc.command # "plan"
    BY <1>1 DEF RunWriting, Idle
  <2> QED BY <1>1, <2>1, BeginsUpdate DEF RunWriting
<1>2. CASE Replay
  <2>1. proc.step = "replay" /\ proc # Idle
    BY <1>2 DEF Replay, Idle
  <2>2. proc.command # "plan"
    BY <2>1 DEF IInv, RunInv, StepFits
  <2> QED BY <1>2, <2>1, <2>2, BeginsUpdate DEF Replay
<1>3. CASE Save
  <2>1. proc # Idle
    BY <1>3 DEF Save, Idle
  <2>2. here \in Places \X Stacks
    BY <2>1, AtWork DEF IInv, PlansInv
  <2>3. Grown
    BY <1>3, <2>2, Saving DEF Save, IInv, PlansInv
  <2>4. Quiet /\ proc' = proc
    BY <1>3, Still DEF Save
  <2> QED BY <2>3, <2>4, Written
<1>4. CASE FinishUpdate
  <2>1. proc.step = "updating" /\ proc # Idle
    BY <1>4 DEF FinishUpdate, Idle
  <2>2. proc.command # "plan"
    BY <2>1 DEF IInv, RunInv, StepFits
  <2>3. Quiet
    BY <1>4, Still DEF FinishUpdate
  <2> QED BY <1>4, <2>1, <2>2, <2>3, AdvanceKeeps DEF FinishUpdate
<1> QED BY <1>1, <1>2, <1>3, <1>4

LEMMA FailKeeps ==
    ASSUME IInv, Fail PROVE IInv'
<1>1. Quiet /\ Grown /\ proc' = Idle
  BY Still, Same DEF Fail, IInv, PlansInv
<1> QED BY <1>1, Ended

-----------------------------------------------------------------------------
(* plan                                                                    *)
LEMMA ClearKeeps ==
    ASSUME IInv, ClearArtifacts PROVE IInv'
<1> USE DEF IInv, PlansInv, RunInv
<1>1. /\ proc # Idle /\ proc.step = "clear" /\ Goto("select")
      /\ manifest' = NoFile /\ preview' = [s \in Stacks |-> NoFile] /\ sealed' = FALSE
      /\ UNCHANGED <<clock, events, commit, checkpoint, planFile>>
  BY DEF ClearArtifacts, Idle
<1>2. proc.command = "plan"
  BY <1>1 DEF StepFits
<1>3. "select" \in Steps \ {"idle"}
  BY DEF Steps
<1>4. /\ SameCommand /\ proc' \in Working /\ proc'.at \in 1 .. Len(proc'.stacks)
      /\ proc'.step = "select"
  BY <1>1, <1>3, GotoIs
<1>5. TypeOK'
  BY <1>1, <1>4 DEF TypeOK
<1>6. StepFits'
  BY <1>1, <1>4 DEF StepFits, SameCommand
<1>7. Collected'
  BY <1>1, <1>4, Same, CollectedStays DEF SameCommand
<1> QED BY <1>1, <1>2, <1>4, <1>5, <1>6, <1>7
        DEF OnlyCompletePlans, Saved, Identified, Binding, Loaded, Validated, SameCommand

LEMMA SavePlanKeeps ==
    ASSUME IInv, SavePlan PROVE IInv'
<1> USE DEF IInv, PlansInv, RunInv
<1>1. PICK destroys \in BOOLEAN :
        LET x == [stack |-> stack, place |-> proc.place,
                  base |-> checkpoint[here], commit |-> commit,
                  made |-> clock, destroys |-> destroys] IN
        /\ planFile' = [planFile EXCEPT ![stack] = x]
        /\ preview' = [preview EXCEPT ![stack] = x]
  BY DEF SavePlan
<1> DEFINE x == [stack |-> stack, place |-> proc.place,
                 base |-> checkpoint[here], commit |-> commit,
                 made |-> clock, destroys |-> destroys]
<1>2. /\ proc # Idle /\ proc.step = "run" /\ proc.command = "plan" /\ Goto("seal")
      /\ checkpoint[here] # 0
      /\ UNCHANGED <<clock, events, commit, checkpoint, manifest, sealed>>
  BY DEF SavePlan, Idle
<1>3. /\ stack \in Stacks /\ proc.place \in Places /\ here \in Places \X Stacks
      /\ proc.started \in 0 .. MaxClock /\ checkpoint[here] \in Nat
  BY <1>2, AtWork, PlanAssumption DEF TypeOK
<1>4. x \in Contents
  BY <1>2, <1>3 DEF TypeOK, Contents
<1>5. "seal" \in Steps \ {"idle"}
  BY DEF Steps
<1>6. /\ SameCommand /\ proc' \in Working /\ proc'.at \in 1 .. Len(proc'.stacks)
      /\ proc'.step = "seal" /\ proc'.identity = proc.identity
      /\ stack' = stack /\ here' = here
  BY <1>2, <1>5, GotoIs
<1>7. planFile'[stack] = x /\ preview'[stack] = x
  BY <1>1, <1>3 DEF TypeOK
<1>8. TypeOK'
  <2>1. /\ planFile' \in [Stacks -> Contents \cup {NoFile}]
        /\ preview' \in [Stacks -> Contents \cup {NoFile}]
    BY <1>1, <1>4 DEF TypeOK
  <2> QED BY <1>2, <1>6, <2>1 DEF TypeOK
<1>9. StepFits'
  BY <1>2, <1>6 DEF StepFits, SameCommand
<1>10. Collected' /\ Binding'
  BY <1>2, <1>6, Same, CollectedStays, BindingStays DEF SameCommand
<1>11. Saved'
  <2>1. Shared' <=> Shared
    BY <1>6 DEF SameCommand, Shared
  <2>2. Shared => proc.identity <= x.base
    BY <1>2 DEF Identified
  <2>3. proc.started <= x.made
    BY <1>2 DEF StepFits
  <2>4. x.base <= checkpoint[here]
    BY <1>3
  <2>5. /\ x.stack = stack /\ x.place = proc.place /\ x.commit = commit
    OBVIOUS
  <2> HIDE DEF x
  <2> QED BY <1>2, <1>4, <1>6, <1>7, <2>1, <2>2, <2>3, <2>4, <2>5
          DEF Saved, SameCommand
<1> QED BY <1>2, <1>6, <1>8, <1>9, <1>10, <1>11
        DEF OnlyCompletePlans, Identified, Loaded, Validated, SameCommand

LEMMA SealKeeps ==
    ASSUME IInv, Seal PROVE IInv'
<1> USE DEF IInv, PlansInv, RunInv
<1> DEFINE entry == [plan |-> planFile[stack], preview |-> preview[stack],
                     identity |-> proc.identity]
           kept == IF proc.entries[stack] = NoEntry THEN entry ELSE proc.entries[stack]
           next == [proc EXCEPT !.entries[stack] = IF @ = NoEntry THEN entry ELSE @]
<1>1. /\ proc # Idle /\ proc.step = "seal" /\ SafePreview(preview[stack])
      /\ proc' = IF proc.at < Len(proc.stacks)
                 THEN [next EXCEPT !.at = @ + 1, !.step = "select"]
                 ELSE [next EXCEPT !.step = "manifest"]
      /\ UNCHANGED <<clock, events, commit, checkpoint, files, sealed>>
  BY DEF Seal, Idle
<1>2. /\ proc \in Working /\ proc.at \in 1 .. Len(proc.stacks)
      /\ proc.stacks \in Seq(Stacks) /\ stack \in Stacks
      /\ proc.entries \in [Stacks -> Entries \cup {NoEntry}]
      /\ proc.identity \in 0 .. MaxVersion
  BY <1>1, AtWork
<1>3. proc.command = "plan"
  BY <1>1 DEF StepFits
<1>4. /\ planFile[stack] \in Contents /\ preview[stack] = planFile[stack]
      /\ planFile[stack].stack = stack /\ planFile[stack].place = proc.place
      /\ planFile[stack].commit = commit
      /\ planFile[stack].base <= checkpoint[here]
      /\ Shared => proc.identity <= planFile[stack].base
      /\ proc.started <= planFile[stack].made
  BY <1>1 DEF Saved
<1>5. ~planFile[stack].destroys
  BY <1>1, <1>4 DEF SafePreview
<1>6. entry \in Entries
  BY <1>2, <1>4 DEF Entries
<1>7. GoodEntry(entry, stack, proc.place, commit)
  <2>1. entry.plan = planFile[stack] /\ entry.identity = proc.identity
    OBVIOUS
  <2> HIDE DEF entry
  <2> QED BY <1>4, <1>5, <2>1 DEF GoodEntry, Shared, here
<1>8. proc.started <= entry.plan.made
  BY <1>4
<1> HIDE DEF entry
<1>9. /\ next \in Working /\ next.entries = [proc.entries EXCEPT ![stack] = kept]
      /\ next.at = proc.at /\ next.stacks = proc.stacks
      /\ next.command = proc.command /\ next.place = proc.place
      /\ next.started = proc.started
  <2>1. next = [proc EXCEPT !.entries = [proc.entries EXCEPT ![stack] = kept]]
    BY <1>2 DEF Working
  <2>2. [proc.entries EXCEPT ![stack] = kept] \in [Stacks -> Entries \cup {NoEntry}]
    BY <1>2, <1>6
  <2> HIDE DEF kept, next
  <2> QED BY <1>2, <2>1, <2>2 DEF Working
<1> HIDE DEF next
<1>10. /\ proc' \in Working /\ proc'.at \in 1 .. Len(proc'.stacks)
       /\ proc'.step \in {"select", "manifest"}
       /\ proc'.entries = next.entries /\ proc'.command = proc.command
       /\ proc'.place = proc.place /\ proc'.started = proc.started
  <2>1. CASE proc.at < Len(proc.stacks)
    <3>1. "select" \in Steps /\ next.at < Len(next.stacks)
             /\ next.at \in 1 .. Len(next.stacks) /\ next.stacks \in Seq(Stacks)
      BY <1>2, <1>9, <2>1 DEF Steps
    <3>2. proc' = [next EXCEPT !.at = @ + 1, !.step = "select"]
      BY <1>1, <2>1
    <3>3. /\ proc' \in Working /\ proc'.step = "select"
          /\ proc'.at \in 1 .. Len(proc'.stacks)
          /\ proc'.entries = next.entries /\ proc'.command = next.command
          /\ proc'.place = next.place /\ proc'.started = next.started
      <4>1. next \in Working
        BY <1>9
      <4> QED BY ONLY <3>1, <3>2, <4>1, Advanced
    <3> QED BY <1>9, <3>3
  <2>2. CASE ~ (proc.at < Len(proc.stacks))
    <3>1. "manifest" \in Steps
      BY DEF Steps
    <3>2. proc' = [next EXCEPT !.step = "manifest"]
      BY <1>1, <2>2
    <3> QED BY <1>2, <1>9, <3>1, <3>2, Stepped
  <2> QED BY <2>1, <2>2
<1>11. Quiet /\ Grown
  BY <1>1, Same, Still
<1>12. TypeOK'
  BY <1>10, <1>11 DEF TypeOK, Quiet, files, Grown
<1>13. OnlyCompletePlans' /\ Binding'
  BY <1>1, <1>11, BindingStays DEF OnlyCompletePlans, files
<1>14. StepFits'
  BY <1>1, <1>3, <1>10 DEF StepFits
<1>15. Collected'
  <2> SUFFICES ASSUME NEW s \in Stacks, next.entries[s] # NoEntry
               PROVE  /\ GoodEntry(next.entries[s], s, proc.place, commit)
                      /\ proc.started <= next.entries[s].plan.made
    BY <1>1, <1>10 DEF Collected, GoodEntry
  <2>1. next.entries[s] = IF s = stack THEN kept ELSE proc.entries[s]
    BY <1>2, <1>9
  <2>2. proc.entries[s] # NoEntry =>
          /\ GoodEntry(proc.entries[s], s, proc.place, commit)
          /\ proc.started <= proc.entries[s].plan.made
    BY <1>1 DEF Collected
  <2>3. CASE s = stack /\ proc.entries[stack] = NoEntry
    BY <1>7, <1>8, <2>1, <2>3
  <2>4. CASE ~ (s = stack /\ proc.entries[stack] = NoEntry)
    BY <2>1, <2>2, <2>4
  <2> QED BY <2>3, <2>4
<1> QED BY <1>3, <1>10, <1>12, <1>13, <1>14, <1>15
        DEF Saved, Identified, Loaded, Validated

LEMMA WriteKeeps ==
    ASSUME IInv, WriteManifest PROVE IInv'
<1> USE DEF IInv, PlansInv, RunInv
<1>1. /\ proc # Idle /\ proc' = Idle /\ sealed' = TRUE
      /\ manifest' = [created |-> clock + proc.offset, commit |-> commit,
                      place |-> proc.place, entries |-> proc.entries]
      /\ UNCHANGED <<clock, events, commit, checkpoint, planFile, preview>>
  BY DEF WriteManifest, Idle
<1>2. /\ proc.place \in Places /\ proc.offset \in Offsets /\ proc.offset \in Nat
      /\ proc.entries \in [Stacks -> Entries \cup {NoEntry}]
      /\ proc.started \in Nat /\ clock \in 0 .. MaxClock /\ clock \in Nat
  BY <1>1, AtWork, PlanAssumption DEF TypeOK
<1>3. manifest' \in Manifests
  <2>1. clock + proc.offset \in Clocks
    BY <1>2 DEF Clocks
  <2> QED BY <1>1, <1>2, <2>1 DEF Manifests, TypeOK
<1>4. TypeOK' /\ OnlyCompletePlans'
  BY <1>1, <1>3 DEF TypeOK, OnlyCompletePlans
<1>5. Binding'
  <2> SUFFICES ASSUME NEW s \in Stacks, proc.entries[s] # NoEntry
               PROVE  /\ GoodEntry(proc.entries[s], s, proc.place, commit)
                      /\ \E o \in Offsets : clock + proc.offset
                            <= proc.entries[s].plan.made + TimeLimit + o
    BY <1>1 DEF Binding, GoodEntry, Timely
  <2>1. /\ GoodEntry(proc.entries[s], s, proc.place, commit)
        /\ proc.started <= proc.entries[s].plan.made
    BY <1>1 DEF Collected
  <2>2. proc.entries[s].plan.made \in Nat
    BY <1>2, Present, PlanAssumption
  <2>3. clock <= proc.started + TimeLimit
    BY <1>1 DEF StepFits
  <2>4. clock + proc.offset <= proc.entries[s].plan.made + TimeLimit + proc.offset
    <3>1. TimeLimit \in Nat
      BY PlanAssumption
    <3> QED BY ONLY <1>2, <2>1, <2>2, <2>3, <3>1
  <2> QED BY <1>2, <2>1, <2>4
<1> QED BY <1>1, <1>4, <1>5
        DEF StepFits, Collected, Saved, Identified, Loaded, Validated

-----------------------------------------------------------------------------
(* up-plan                                                                 *)
LEMMA ValidateKeeps ==
    ASSUME IInv, Validate PROVE IInv'
<1> USE DEF IInv, PlansInv, RunInv
<1> DEFINE m == IF proc.loaded = NoFile THEN manifest ELSE proc.loaded
<1>1. /\ proc # Idle /\ proc.step = "validate" /\ m # NoFile
      /\ AgeOK(m) /\ CommitOK(m) /\ ProjectOK(m)
      /\ m.entries[stack] # NoEntry /\ EntryOK(m.entries[stack])
      /\ proc' = [proc EXCEPT !.loaded = m, !.step = "select"]
      /\ UNCHANGED <<clock, events, commit, checkpoint, files, sealed>>
  BY DEF Validate, Idle
<1>2. proc.command = "up-plan"
  BY <1>1 DEF StepFits
<1>3. m = manifest
  BY <1>1, <1>2 DEF Loaded
<1> HIDE DEF m
<1>4. manifest \in Manifests
  BY <1>1, <1>3 DEF TypeOK
<1>5. /\ proc \in Working /\ proc.at \in 1 .. Len(proc.stacks)
      /\ proc.offset \in Nat /\ proc.started \in Nat /\ clock \in Nat
      /\ proc.stacks \in Seq(Stacks)
  BY <1>1, AtWork, PlanAssumption DEF TypeOK
<1>6. /\ proc' \in Working /\ proc'.step = "select" /\ proc'.at = proc.at
      /\ proc'.stacks = proc.stacks /\ proc'.loaded = manifest
      /\ proc'.command = proc.command /\ proc'.place = proc.place
      /\ proc'.selected = proc.selected /\ proc'.offset = proc.offset
      /\ proc'.started = proc.started /\ proc'.entries = proc.entries
  <2>1. proc' = [proc EXCEPT !.loaded = manifest, !.step = "select"]
    BY <1>1, <1>3
  <2> QED BY <1>4, <1>5, <2>1 DEF Working, Steps
<1>7. Quiet /\ Grown
  BY <1>1, Same, Still
<1>8. TypeOK'
  BY <1>5, <1>6, <1>7 DEF TypeOK, Quiet, files, Grown
<1>9. OnlyCompletePlans' /\ Binding' /\ Collected'
  BY <1>1, <1>6, <1>7, BindingStays, CollectedStays DEF OnlyCompletePlans, files
<1>10. StepFits'
  BY <1>1, <1>2, <1>6 DEF StepFits
<1>11. stack' = stack /\ PlanOf(stack)' = PlanOf(stack)
  BY <1>1, <1>6 DEF stack, PlanOf, files
<1>12. Loaded'
  <2>1. proc.started + proc.offset <= MaxAge + manifest.created
    <3>1. manifest.created \in Nat
      BY <1>4, PlanAssumption DEF Manifests, Clocks
    <3>2. clock + proc.offset - manifest.created <= MaxAge
      BY <1>1, <1>3 DEF AgeOK
    <3>3. proc.started <= clock
      BY <1>1 DEF StepFits
    <3> QED BY <1>5, <3>1, <3>2, <3>3, PlanAssumption
  <2>2. manifest.place = proc.place /\ manifest.commit = commit
    BY <1>1, <1>3 DEF CommitOK, ProjectOK
  <2> QED BY <1>1, <1>6, <2>1, <2>2 DEF Loaded, files
<1>13. Validated'
  <2>1. PlanOf(stack) = manifest.entries[stack].plan /\ manifest # NoFile
          /\ manifest.entries[stack] # NoEntry
    BY <1>1, <1>3 DEF EntryOK
  <2> QED BY <1>6, <1>11, <2>1 DEF Validated
<1> QED BY <1>6, <1>8, <1>9, <1>10, <1>12, <1>13 DEF Saved, Identified

-----------------------------------------------------------------------------
(* The invariant holds.                                                    *)
LEMMA NextKeeps == IInv /\ [Next]_vars => IInv'
<1> SUFFICES ASSUME IInv, [Next]_vars PROVE IInv'
  OBVIOUS
<1>1. CASE World
  BY <1>1, WorldKeeps
<1>2. ASSUME NEW c \in Commands, Start(c) PROVE IInv'
  BY <1>2, StartKeeps
<1>3. CASE Login \/ Select \/ Prepare
  BY <1>3, LoginKeeps, SelectKeeps, PrepareKeeps
<1>4. CASE RunReading \/ RunPreviewScript \/ RunDriftScript
  <2>1. /\ "plan" \notin {"preview", "drift"}
        /\ "plan" \notin {"preview script"} /\ "plan" \notin {"drift script"}
    OBVIOUS
  <2> QED BY <1>4, <2>1, ReadsKeeps DEF RunReading, RunPreviewScript, RunDriftScript
<1>5. CASE RunWriting \/ Save \/ FinishUpdate \/ Replay
  BY <1>5, UpdatesKeep
<1>6. CASE Fail
  BY <1>6, FailKeeps
<1>7. CASE ClearArtifacts \/ SavePlan \/ Seal \/ WriteManifest
  BY <1>7, ClearKeeps, SavePlanKeeps, SealKeeps, WriteKeeps
<1>8. CASE Validate
  BY <1>8, ValidateKeeps
<1>9. CASE UNCHANGED vars
  <2>1. TypeOK /\ UNCHANGED <<clock, events, commit, checkpoint, files, proc, sealed>>
    BY <1>9 DEF vars, IInv, PlansInv
  <2>2. Quiet /\ Grown /\ proc' = proc
    BY <2>1, Still, Same
  <2> QED BY <2>2, Written
<1> QED BY <1>1, <1>2, <1>3, <1>4, <1>5, <1>6, <1>7, <1>8, <1>9 DEF Next, Run

LEMMA AlwaysIInv == Spec => []IInv
BY InitPlans, NextKeeps, PTL DEF Spec

(* Files, manifest, checkpoints and the command have their types, and a    *)
(* manifest is on disk only if the last plan command that cleared the      *)
(* artifacts also finished.                                                *)
THEOREM PlansInvariant == Spec => []PlansInv
<1>1. IInv => PlansInv
  BY DEF IInv
<1> QED BY <1>1, AlwaysIInv, PTL

-----------------------------------------------------------------------------
(* What is handed to Pulumi.                                               *)
LEMMA ReplayedEntry ==
    ASSUME IInv, proc # Idle, proc.step = "replay"
    PROVE  /\ stack \in Stacks /\ manifest \in Manifests /\ manifest # NoFile
           /\ proc.loaded = manifest
           /\ manifest.entries[stack] \in Entries
           /\ PlanOf(stack) = manifest.entries[stack].plan
           /\ GoodEntry(manifest.entries[stack], stack, proc.place, commit)
           /\ Timely(manifest, manifest.entries[stack])
           /\ proc.started + proc.offset <= MaxAge + manifest.created
           /\ Shared => PlanOf(stack).base <= proc.identity
<1> USE DEF IInv, PlansInv, RunInv
<1>1. proc.command = "up-plan"
  BY DEF StepFits
<1>2. /\ proc.loaded # NoFile /\ proc.loaded.entries[stack] # NoEntry
      /\ PlanOf(stack) = proc.loaded.entries[stack].plan
      /\ Shared => PlanOf(stack).base <= proc.identity
  BY <1>1 DEF Validated
<1>3. /\ proc.loaded = manifest /\ manifest.place = proc.place
      /\ manifest.commit = commit
      /\ proc.started + proc.offset <= MaxAge + manifest.created
  BY <1>1, <1>2 DEF Loaded
<1>4. stack \in Stacks
  BY AtWork
<1>5. manifest \in Manifests
  BY <1>2, <1>3 DEF TypeOK
<1>6. manifest.entries[stack] \in Entries
  BY <1>2, <1>3, <1>4, <1>5 DEF Manifests
<1>7. /\ GoodEntry(manifest.entries[stack], stack, manifest.place, manifest.commit)
      /\ Timely(manifest, manifest.entries[stack])
  BY <1>2, <1>3, <1>4 DEF Binding
<1> QED BY <1>2, <1>3, <1>4, <1>5, <1>6, <1>7

LEMMA ReviewedStep == IInv => Reviewed
<1> SUFFICES ASSUME IInv, proc # Idle, proc.step = "replay"
             PROVE  LET x == PlanOf(stack) IN
                    /\ sealed /\ x # NoFile
                    /\ x.stack = stack /\ x.place = proc.place /\ x.commit = commit
                    /\ ~x.destroys
  BY DEF Reviewed, Replays
<1>1. sealed
  BY ReplayedEntry DEF IInv, PlansInv, OnlyCompletePlans
<1>2. PlanOf(stack) \in Contents
  BY ReplayedEntry, Present
<1>3. GoodEntry(manifest.entries[stack], stack, proc.place, commit)
        /\ PlanOf(stack) = manifest.entries[stack].plan
  BY ReplayedEntry
<1> QED BY <1>1, <1>2, <1>3, Present DEF GoodEntry

LEMMA OnlyReplayReplays == [Next]_vars /\ Replays => Replay
<1> SUFFICES ASSUME [Next]_vars, proc # Idle, proc.step = "replay",
                    proc'.step = "updating"
             PROVE  Replay
  BY DEF Replays
<1>1. proc' # proc /\ proc' # Idle
  BY DEF Idle
<1>2. ~ UNCHANGED vars /\ ~ World
  BY <1>1 DEF vars, World, Tick, Checkout, OtherWrites, Alter
<1>3. ASSUME NEW c \in Commands PROVE ~Start(c)
  BY DEF Start
<1>4. ~Login /\ ~Select /\ ~Prepare /\ ~RunWriting /\ ~Save /\ ~FinishUpdate /\ ~Validate
  BY Zenon DEF Login, Select, Prepare, RunWriting, Save, FinishUpdate, Validate
<1>5. ~RunReading /\ ~RunPreviewScript /\ ~RunDriftScript /\ ~Fail
  BY <1>1 DEF RunReading, RunPreviewScript, RunDriftScript, Reads, Fail
<1>6. ~ClearArtifacts /\ ~SavePlan /\ ~Seal /\ ~WriteManifest
  BY Zenon DEF ClearArtifacts, SavePlan, Seal, WriteManifest
<1> QED BY <1>2, <1>3, <1>4, <1>5, <1>6 DEF Next, Run

LEMMA PreparedStep == IInv /\ [Next]_vars => OnPrepared
<1> SUFFICES ASSUME IInv, [Next]_vars, Replays, Shared
             PROVE  PlanOf(stack).base = proc.identity
  BY DEF OnPrepared
<1>1. proc # Idle /\ proc.step = "replay" /\ SameIdentity(proc.loaded.entries[stack])
  BY OnlyReplayReplays DEF Replays, Replay
<1> DEFINE e == manifest.entries[stack]
<1>2. /\ e \in Entries /\ proc.loaded = manifest /\ PlanOf(stack) = e.plan
      /\ GoodEntry(e, stack, proc.place, commit)
      /\ PlanOf(stack).base <= proc.identity
  BY <1>1, ReplayedEntry
<1> HIDE DEF e
<1>3. e.identity = proc.identity
  BY <1>1, <1>2 DEF SameIdentity, e
<1>4. e.identity <= e.plan.base
  BY <1>2 DEF GoodEntry, Shared
<1>5. e.plan.base \in Nat /\ e.identity \in Nat
  BY <1>2, Present, PlanAssumption
<1> QED BY <1>2, <1>3, <1>4, <1>5

LEMMA InTimeStep == IInv => InTime
<1> SUFFICES ASSUME IInv, proc # Idle, proc.step = "replay"
             PROVE  clock <= PlanOf(stack).made + MaxAge + Spread + 2 * TimeLimit
  BY DEF InTime, Replays
<1> DEFINE made == PlanOf(stack).made
           created == manifest.created
<1>1. PICK o \in Offsets : created <= made + TimeLimit + o
  BY ReplayedEntry DEF Timely
<1>2. proc.started + proc.offset <= MaxAge + created
  BY ReplayedEntry
<1>3. clock <= proc.started + TimeLimit
  BY DEF IInv, RunInv, StepFits
<1>4. /\ made \in Nat /\ created \in Nat /\ clock \in Nat /\ proc.started \in Nat
      /\ proc.offset \in Nat /\ o \in Nat
  <2>1. PlanOf(stack) \in Contents
    BY ReplayedEntry, Present
  <2>2. created \in Clocks
    BY ReplayedEntry DEF Manifests
  <2>3. made \in Nat /\ created \in Nat
    BY <2>1, <2>2, Present, PlanAssumption DEF Clocks
  <2> QED BY <2>3, AtWork, PlanAssumption DEF IInv, PlansInv, TypeOK
<1>5. o - proc.offset <= Spread
  BY AtWork, PlanAssumption DEF IInv, PlansInv
<1>6. MaxAge \in Nat /\ TimeLimit \in Nat /\ Spread \in Nat
  BY PlanAssumption
<1> HIDE DEF made, created
<1>7. clock <= made + MaxAge + Spread + 2 * TimeLimit
  <2>1. clock + proc.offset <= MaxAge + created + TimeLimit
    BY ONLY <1>2, <1>3, <1>4, <1>6
  <2>2. clock + proc.offset <= MaxAge + made + 2 * TimeLimit + o
    BY ONLY <1>1, <1>4, <1>6, <2>1
  <2> QED BY ONLY <1>4, <1>5, <1>6, <2>2
<1> QED BY <1>7 DEF made

(* Whatever became of the files in between and whichever file was selected,*)
(* what up-plan hands to Pulumi was planned for this stack, project and    *)
(* commit by a command that finished, and destroys nothing protected.      *)
THEOREM ReplayIsReviewed == Spec => ReplaysReviewedPlan
<1>1. IInv => [Reviewed]_vars
  BY ReviewedStep
<1> QED BY <1>1, AlwaysIInv, PTL DEF ReplaysReviewedPlan

(* On a shared backend no plan is replayed over a checkpoint other than the*)
(* one it was computed on, as far as the identity of the provider shows it:*)
(* the version the replay prepared its configuration from.                 *)
THEOREM ReplayIsOnPrepared == Spec => PlannedOnPrepared
<1>1. IInv /\ [Next]_vars => [OnPrepared]_vars
  BY PreparedStep
<1> QED BY <1>1, AlwaysIInv, PTL DEF PlannedOnPrepared, Spec

(* A replayed plan is at most as old as the manifest allows, give or take  *)
(* what two clocks differ and the time limits of the two commands.         *)
THEOREM ReplayIsInTime == Spec => ReplayedInTime
<1>1. IInv => [InTime]_vars
  BY InTimeStep
<1> QED BY <1>1, AlwaysIInv, PTL DEF ReplayedInTime

-----------------------------------------------------------------------------
(* The commands keep the promise of PlanPromise.  What it takes: a planning*)
(* begins with the first of its stacks, has withdrawn what was in force,   *)
(* and has kept a plan of exactly the stacks it is through with.           *)
Begins == proc # Idle /\ proc.step \in {"login", "clear"} => proc.at = 1

Cleared == Plans => manifest = NoFile

Through == IF proc.step = "manifest" THEN Len(proc.stacks) ELSE proc.at - 1

Covered ==
    proc # Idle /\ proc.command = "plan" =>
        \A s \in Stacks : proc.entries[s] # NoEntry <=>
                             \E i \in 1 .. Through : proc.stacks[i] = s

PromiseInv == Begins /\ Cleared /\ Covered

LEMMA InitPromiseInv == Init => PromiseInv
BY DEF Init, PromiseInv, Begins, Cleared, Covered, Plans

LEMMA UntouchedKeeps ==
    ASSUME PromiseInv, proc' = proc, manifest' = manifest PROVE PromiseInv'
BY DEF PromiseInv, Begins, Cleared, Covered, Plans, Through

LEMMA EndedKeeps ==
    ASSUME proc' = Idle PROVE PromiseInv'
BY DEF PromiseInv, Begins, Cleared, Covered, Plans

(* The command at work goes on with the stack it is at.                    *)
LEMMA SteppedKeeps ==
    ASSUME PromiseInv, proc # Idle,
           proc'.command = proc.command, proc'.entries = proc.entries,
           proc'.stacks = proc.stacks, proc'.at = proc.at,
           proc.step # "manifest", proc'.step \notin {"login", "manifest"},
           proc'.step = "clear" => proc.step = "login",
           Plans' => manifest' = NoFile
    PROVE  PromiseInv'
<1>1. Begins'
  BY DEF PromiseInv, Begins
<1>2. Cleared'
  BY DEF Cleared
<1>3. Covered'
  BY DEF PromiseInv, Covered, Through
<1> QED BY <1>1, <1>2, <1>3 DEF PromiseInv

(* A command that plans nothing.                                           *)
LEMMA OthersKeep ==
    ASSUME proc'.command # "plan", proc'.step \notin {"login", "clear"}
    PROVE  PromiseInv'
BY DEF PromiseInv, Begins, Cleared, Covered, Plans

LEMMA AdvanceOthers ==
    ASSUME IInv, proc # Idle, proc.command # "plan", Advance
    PROVE  \/ proc' = Idle
           \/ /\ proc'.command = proc.command
              /\ proc'.step \in {"validate", "run", "select"}
<1>1. proc \in Working
  BY AtWork DEF IInv, PlansInv
<1> DEFINE x == FirstStep(proc.command)
<1>2. x \in {"validate", "run", "select"}
  BY DEF FirstStep
<1>3. CASE proc.at < Len(proc.stacks)
  <2>1. proc' = [proc EXCEPT !.at = @ + 1, !.step = x]
    BY <1>3 DEF Advance
  <2> HIDE DEF x
  <2>2. proc'.step = x /\ proc'.command = proc.command
    BY <1>1, <2>1 DEF Working
  <2> QED BY <1>2, <2>2
<1>4. CASE ~ (proc.at < Len(proc.stacks))
  BY <1>4 DEF Advance
<1> QED BY <1>3, <1>4

(* What sealing a plan makes of the command.                               *)
LEMMA SealIs ==
    ASSUME IInv, Seal
    PROVE  LET entry == [plan |-> planFile[stack], preview |-> preview[stack],
                         identity |-> proc.identity] IN
           /\ proc # Idle /\ proc.step = "seal" /\ proc.command = "plan"
           /\ entry \in Entries /\ ~planFile[stack].destroys
           /\ proc'.command = "plan" /\ proc'.place = proc.place
           /\ proc'.stacks = proc.stacks
           /\ proc'.entries = [proc.entries EXCEPT
                  ![stack] = IF proc.entries[stack] = NoEntry THEN entry
                             ELSE proc.entries[stack]]
           /\ \/ proc.at < Len(proc.stacks) /\ proc'.step = "select"
                 /\ proc'.at = proc.at + 1
              \/ proc.at = Len(proc.stacks) /\ proc'.step = "manifest"
<1> USE DEF IInv, PlansInv, RunInv
<1> DEFINE entry == [plan |-> planFile[stack], preview |-> preview[stack],
                     identity |-> proc.identity]
           kept == IF proc.entries[stack] = NoEntry THEN entry ELSE proc.entries[stack]
           next == [proc EXCEPT !.entries[stack] = IF @ = NoEntry THEN entry ELSE @]
<1>1. /\ proc # Idle /\ proc.step = "seal"
      /\ proc' = IF proc.at < Len(proc.stacks)
                 THEN [next EXCEPT !.at = @ + 1, !.step = "select"]
                 ELSE [next EXCEPT !.step = "manifest"]
  BY DEF Seal, Idle
<1>2. /\ proc \in Working /\ proc.at \in 1 .. Len(proc.stacks)
      /\ proc.stacks \in Seq(Stacks) /\ stack \in Stacks
      /\ proc.entries \in [Stacks -> Entries \cup {NoEntry}]
      /\ proc.identity \in 0 .. MaxVersion
  BY <1>1, AtWork
<1>3. proc.command = "plan"
  BY <1>1 DEF StepFits
<1>4. entry \in Entries
  BY <1>1, <1>2 DEF Saved, Entries
<1>8. ~planFile[stack].destroys
  <2>1. preview[stack] = planFile[stack]
    BY <1>1 DEF Saved
  <2> QED BY <2>1 DEF Seal, SafePreview
<1> HIDE DEF entry
<1>5. /\ next \in Working /\ next.entries = [proc.entries EXCEPT ![stack] = kept]
      /\ next.at = proc.at /\ next.stacks = proc.stacks
      /\ next.command = proc.command /\ next.place = proc.place
  <2>1. next = [proc EXCEPT !.entries = [proc.entries EXCEPT ![stack] = kept]]
    BY <1>2 DEF Working
  <2>2. [proc.entries EXCEPT ![stack] = kept] \in [Stacks -> Entries \cup {NoEntry}]
    BY <1>2, <1>4
  <2> HIDE DEF kept, next
  <2> QED BY <1>2, <2>1, <2>2 DEF Working
<1> HIDE DEF next
<1>6. CASE proc.at < Len(proc.stacks)
  <2>1. proc' = [next EXCEPT !.at = @ + 1, !.step = "select"]
    BY <1>1, <1>6
  <2>2. /\ proc'.step = "select" /\ proc'.entries = next.entries
        /\ proc'.command = next.command /\ proc'.place = next.place
        /\ proc'.stacks = next.stacks /\ proc'.at = next.at + 1
    BY <1>5, <2>1 DEF Working
  <2> QED BY <1>1, <1>3, <1>4, <1>5, <1>6, <1>8, <2>2 DEF entry
<1>7. CASE ~ (proc.at < Len(proc.stacks))
  <2>1. proc' = [next EXCEPT !.step = "manifest"] /\ "manifest" \in Steps
    BY <1>1, <1>7 DEF Steps
  <2>2. proc.at = Len(proc.stacks)
    BY <1>2, <1>7
  <2>3. /\ proc'.step = "manifest" /\ proc'.entries = next.entries
        /\ proc'.command = next.command /\ proc'.place = next.place
        /\ proc'.stacks = next.stacks
    BY <1>5, <2>1, Stepped
  <2> QED BY <1>1, <1>3, <1>4, <1>5, <1>8, <2>2, <2>3 DEF entry
<1> QED BY <1>6, <1>7

(* The promise's invariant is kept.                                        *)
LEMMA SealCovers ==
    ASSUME IInv, PromiseInv, Seal PROVE PromiseInv'
<1> DEFINE entry == [plan |-> planFile[stack], preview |-> preview[stack],
                     identity |-> proc.identity]
<1>1. /\ proc # Idle /\ proc.step = "seal" /\ proc.command = "plan"
      /\ entry \in Entries
      /\ proc'.command = "plan" /\ proc'.stacks = proc.stacks
      /\ proc'.entries = [proc.entries EXCEPT
             ![stack] = IF proc.entries[stack] = NoEntry THEN entry
                        ELSE proc.entries[stack]]
      /\ \/ proc.at < Len(proc.stacks) /\ proc'.step = "select"
            /\ proc'.at = proc.at + 1
         \/ proc.at = Len(proc.stacks) /\ proc'.step = "manifest"
  BY SealIs
<1>2. /\ proc.at \in 1 .. Len(proc.stacks) /\ proc.stacks \in Seq(Stacks)
      /\ stack \in Stacks /\ proc.entries \in [Stacks -> Entries \cup {NoEntry}]
  BY <1>1, AtWork DEF IInv, PlansInv
<1>3. entry # NoEntry
  BY <1>1, Present
<1> HIDE DEF entry
<1>4. proc.at \in Nat /\ Through = proc.at - 1 /\ Through' = proc.at
  BY <1>1, <1>2 DEF Through
<1>5. \A s \in Stacks : proc'.entries[s] # NoEntry
                            <=> s = stack \/ proc.entries[s] # NoEntry
  BY <1>1, <1>2, <1>3
<1>6. \A s \in Stacks : proc.entries[s] # NoEntry
                            <=> \E i \in 1 .. proc.at - 1 : proc.stacks[i] = s
  BY <1>1, <1>4 DEF PromiseInv, Covered
<1>7. ASSUME NEW s \in Stacks
      PROVE  proc'.entries[s] # NoEntry <=> \E i \in 1 .. proc.at : proc.stacks[i] = s
  <2>1. stack = proc.stacks[proc.at]
    BY DEF stack
  <2>2. \A i \in 1 .. proc.at : i = proc.at \/ i \in 1 .. proc.at - 1
    BY <1>4
  <2>3. proc.at \in 1 .. proc.at /\ \A i \in 1 .. proc.at - 1 : i \in 1 .. proc.at
    BY <1>2, <1>4
  <2> QED BY <1>5, <1>6, <2>1, <2>2, <2>3
<1>8. Covered'
  BY <1>1, <1>4, <1>7 DEF Covered
<1>9. Begins'
  BY <1>1 DEF Begins
<1>10. Cleared'
  <2>1. manifest = NoFile /\ manifest' = manifest
    BY <1>1 DEF PromiseInv, Cleared, Plans, Seal, files
  <2> QED BY <2>1 DEF Cleared
<1> QED BY <1>8, <1>9, <1>10 DEF PromiseInv

LEMMA StartBegins ==
    ASSUME IInv, NEW command \in Commands, Start(command) PROVE PromiseInv'
<1>1. /\ proc'.step = "login" /\ proc'.at = 1
      /\ proc'.entries = [s \in Stacks |-> NoEntry]
  <2>1. PICK list \in StackLists, place \in Places, offset \in Offsets,
             selected \in Stacks \cup {"none"} :
          proc' = [command |-> command, stacks |-> list, at |-> 1,
                   step |-> "login", place |-> place, selected |-> selected,
                   offset |-> offset, started |-> clock,
                   entries |-> [s \in Stacks |-> NoEntry],
                   loaded |-> NoFile, identity |-> 0]
    BY Zenon DEF Start
  <2> QED BY <2>1
<1>2. Begins' /\ Cleared'
  BY <1>1 DEF Begins, Cleared, Plans
<1>3. Covered'
  <2>1. Through' = 0
    BY <1>1 DEF Through
  <2>2. \A s \in Stacks : proc'.entries[s] = NoEntry
    BY <1>1
  <2> QED BY <2>1, <2>2 DEF Covered
<1> QED BY <1>2, <1>3 DEF PromiseInv

(* The steps that leave a command at its stack.                            *)
SameWork ==
    /\ SameCommand /\ proc'.stacks = proc.stacks /\ proc'.at = proc.at
    /\ stack' = stack /\ here' = here

LEMMA GotoSame ==
    ASSUME IInv, proc # Idle, NEW x \in Steps, Goto(x)
    PROVE  SameWork /\ proc'.step = x /\ proc'.identity = proc.identity
<1>1. proc \in Working /\ proc' = [proc EXCEPT !.step = x]
  BY AtWork DEF IInv, PlansInv, Goto
<1>2. /\ SameCommand /\ proc'.stacks = proc.stacks /\ proc'.at = proc.at
      /\ proc'.step = x /\ proc'.identity = proc.identity
  BY <1>1, Stepped DEF SameCommand
<1>3. stack' = stack
  BY <1>2 DEF stack
<1> QED BY <1>2, <1>3 DEF SameWork, SameCommand, here

LEMMA PrepareIs ==
    ASSUME IInv, Prepare
    PROVE  /\ proc # Idle /\ proc.step = "prepare" /\ SameWork
           /\ proc'.step = IF proc.command = "up-plan" THEN "replay" ELSE "run"
           /\ proc'.identity = IF Shared THEN checkpoint[here] ELSE 0
<1>1. proc # Idle /\ proc.step = "prepare"
  BY DEF Prepare, Idle
<1>2. proc \in Working
  BY <1>1, AtWork DEF IInv, PlansInv
<1> DEFINE x == IF proc.command = "up-plan" THEN "replay" ELSE "run"
           i == IF Shared THEN checkpoint[here] ELSE 0
<1>3. proc' = [proc EXCEPT !.identity = i, !.step = x]
  BY DEF Prepare
<1> HIDE DEF x, i
<1>4. /\ SameCommand /\ proc'.stacks = proc.stacks /\ proc'.at = proc.at
      /\ proc'.step = x /\ proc'.identity = i
  BY <1>2, <1>3 DEF Working, SameCommand
<1>5. stack' = stack
  BY <1>4 DEF stack
<1> QED BY <1>1, <1>4, <1>5 DEF SameWork, SameCommand, here, x, i

LEMMA LoginIs ==
    ASSUME IInv, Login
    PROVE  /\ proc # Idle /\ proc.step = "login" /\ SameWork
           /\ proc'.step \in {"clear", "validate", "run", "select"}
           /\ proc.command = "plan" <=> proc'.step = "clear"
<1> DEFINE x == IF proc.command = "plan" THEN "clear" ELSE FirstStep(proc.command)
<1>1. proc # Idle /\ proc.step = "login" /\ Goto(x)
  BY DEF Login, Idle
<1>2. x \in Steps /\ x \in {"clear", "validate", "run", "select"}
        /\ (proc.command = "plan" <=> x = "clear")
  BY DEF FirstStep, Steps
<1> HIDE DEF x
<1> QED BY <1>1, <1>2, GotoSame

LEMMA SelectIs ==
    ASSUME IInv, Select
    PROVE  /\ proc # Idle /\ proc.step = "select" /\ SameWork
           /\ proc'.step \in {"run", "prepare"} /\ proc'.identity = proc.identity
<1> DEFINE x == IF proc.command = "preview script" THEN "run" ELSE "prepare"
<1>1. proc.step = "select" /\ Goto(x)
  BY Zenon DEF Select
<1>2. proc # Idle
  <2>1. proc.step = "select"
    BY Zenon DEF Select
  <2> QED BY <2>1 DEF Idle
<1>3. x \in Steps /\ x \in {"run", "prepare"}
  BY DEF Steps
<1> HIDE DEF x
<1> QED BY <1>1, <1>2, <1>3, GotoSame

LEMMA ClearIs ==
    ASSUME IInv, ClearArtifacts
    PROVE  /\ proc # Idle /\ proc.step = "clear" /\ proc.command = "plan"
           /\ SameWork /\ proc'.step = "select" /\ manifest' = NoFile
           /\ UNCHANGED <<commit, checkpoint>>
<1>1. /\ proc # Idle /\ proc.step = "clear" /\ Goto("select")
      /\ manifest' = NoFile /\ UNCHANGED <<commit, checkpoint>>
  BY DEF ClearArtifacts, Idle
<1>2. proc.command = "plan" /\ "select" \in Steps
  BY <1>1 DEF IInv, RunInv, StepFits, Steps
<1> QED BY <1>1, <1>2, GotoSame

LEMMA SaveIs ==
    ASSUME IInv, SavePlan
    PROVE  /\ proc # Idle /\ proc.step = "run" /\ proc.command = "plan"
           /\ SameWork /\ proc'.step = "seal"
           /\ UNCHANGED <<commit, checkpoint, manifest>>
<1>1. /\ proc # Idle /\ proc.step = "run" /\ proc.command = "plan" /\ Goto("seal")
      /\ UNCHANGED <<commit, checkpoint, manifest>>
  BY DEF SavePlan, Idle
<1>2. "seal" \in Steps
  BY DEF Steps
<1> QED BY <1>1, <1>2, GotoSame

LEMMA StepsKeepPromise ==
    ASSUME IInv, PromiseInv, Login \/ Select \/ Prepare \/ ClearArtifacts \/ SavePlan
    PROVE  PromiseInv'
<1>1. CASE Login
  <2>1. ~Plans'
    BY <1>1, LoginIs DEF Plans, SameWork, SameCommand
  <2> QED BY <1>1, <2>1, LoginIs, SteppedKeeps DEF SameWork, SameCommand
<1>2. CASE Select
  <2>1. Plans' => manifest' = NoFile
    <3>1. proc # Idle /\ proc.step = "select" /\ proc'.command = proc.command
      BY <1>2, SelectIs DEF SameWork, SameCommand
    <3>2. manifest' = manifest
      BY <1>2, Zenon DEF Select, files
    <3> QED BY <3>1, <3>2 DEF PromiseInv, Cleared, Plans
  <2>2. /\ proc # Idle /\ proc.step = "select" /\ SameWork
        /\ proc'.step \in {"run", "prepare"}
    BY <1>2, SelectIs
  <2> QED BY <2>1, <2>2, SteppedKeeps DEF SameWork, SameCommand
<1>3. CASE Prepare
  <2>1. Plans' => manifest' = NoFile
    <3>1. /\ proc # Idle /\ proc.step = "prepare" /\ proc'.command = proc.command
          /\ manifest' = manifest
      BY <1>3, PrepareIs DEF SameWork, SameCommand, Prepare, files
    <3> QED BY <3>1 DEF PromiseInv, Cleared, Plans
  <2>2. /\ proc # Idle /\ proc.step = "prepare" /\ SameWork
        /\ proc'.step \in {"run", "replay"}
    BY <1>3, PrepareIs
  <2> QED BY <2>1, <2>2, SteppedKeeps DEF SameWork, SameCommand
<1>4. CASE ClearArtifacts
  BY <1>4, ClearIs, SteppedKeeps DEF SameWork, SameCommand
<1>5. CASE SavePlan
  <2>1. Plans' => manifest' = NoFile
    <3>1. /\ proc # Idle /\ proc.step = "run" /\ proc'.command = proc.command
          /\ manifest' = manifest
      BY <1>5, SaveIs DEF SameWork, SameCommand
    <3> QED BY <3>1 DEF PromiseInv, Cleared, Plans
  <2> QED BY <1>5, <2>1, SaveIs, SteppedKeeps DEF SameWork, SameCommand
<1> QED BY <1>1, <1>2, <1>3, <1>4, <1>5

LEMMA ValidateIs ==
    ASSUME IInv, Validate
    PROVE  /\ proc # Idle /\ proc.step = "validate" /\ proc.command = "up-plan"
           /\ proc'.step = "select" /\ proc'.command = "up-plan"
           /\ UNCHANGED <<commit, checkpoint, manifest, planFile>>
<1> DEFINE m == IF proc.loaded = NoFile THEN manifest ELSE proc.loaded
<1>1. /\ proc # Idle /\ proc.step = "validate"
      /\ proc' = [proc EXCEPT !.loaded = m, !.step = "select"]
      /\ UNCHANGED <<commit, checkpoint, manifest, planFile>>
  BY DEF Validate, Idle, files
<1> HIDE DEF m
<1>2. proc.command = "up-plan"
  BY <1>1 DEF IInv, RunInv, StepFits
<1>3. proc \in Working
  BY <1>1, AtWork DEF IInv, PlansInv
<1> QED BY <1>1, <1>2, <1>3 DEF Working

(* A command that plans nothing goes on updating or to its next stack, or  *)
(* is done.                                                                *)
LEMMA OthersGoOn ==
    ASSUME IInv, \/ \E commands : "plan" \notin commands /\ Reads(commands)
                 \/ RunWriting \/ FinishUpdate \/ Replay
    PROVE  /\ proc # Idle /\ proc.command # "plan"
           /\ UNCHANGED <<commit, checkpoint, manifest, planFile>>
           /\ \/ proc' = Idle
              \/ /\ proc'.command = proc.command
                 /\ proc'.step \in {"validate", "run", "select"}
              \/ /\ RunWriting \/ Replay
                 /\ SameWork /\ proc'.step = "updating"
                 /\ proc'.identity = proc.identity
<1>0. "updating" \in Steps
  BY DEF Steps
<1>1. CASE \E commands : "plan" \notin commands /\ Reads(commands)
  <2>1. /\ proc # Idle /\ proc.command # "plan" /\ Advance
        /\ UNCHANGED <<commit, checkpoint, manifest, planFile>>
    BY <1>1 DEF Reads, Idle, files
  <2> QED BY <2>1, AdvanceOthers
<1>2. CASE RunWriting
  <2>1. /\ proc # Idle /\ proc.command # "plan" /\ Goto("updating")
        /\ UNCHANGED <<commit, checkpoint, manifest, planFile>>
    BY <1>2 DEF RunWriting, Idle, files
  <2> QED BY <1>0, <1>2, <2>1, GotoSame
<1>3. CASE FinishUpdate
  <2>1. /\ proc # Idle /\ proc.step = "updating" /\ Advance
        /\ UNCHANGED <<commit, checkpoint, manifest, planFile>>
    BY <1>3 DEF FinishUpdate, Idle, files
  <2>2. proc.command # "plan"
    BY <2>1 DEF IInv, RunInv, StepFits
  <2> QED BY <2>1, <2>2, AdvanceOthers
<1>4. CASE Replay
  <2>1. /\ proc # Idle /\ proc.step = "replay" /\ Goto("updating")
        /\ UNCHANGED <<commit, checkpoint, manifest, planFile>>
    BY <1>4 DEF Replay, Idle, files
  <2>2. proc.command # "plan"
    BY <2>1 DEF IInv, RunInv, StepFits
  <2> QED BY <1>0, <1>4, <2>1, <2>2, GotoSame
<1> QED BY <1>1, <1>2, <1>3, <1>4

LEMMA ReadsOthers ==
    RunReading \/ RunPreviewScript \/ RunDriftScript
        => \E commands : "plan" \notin commands /\ Reads(commands)
<1>1. /\ "plan" \notin {"preview", "drift"}
      /\ "plan" \notin {"preview script"} /\ "plan" \notin {"drift script"}
  OBVIOUS
<1>2. CASE RunReading
  BY <1>1, <1>2, Zenon DEF RunReading
<1>3. CASE RunPreviewScript
  BY <1>1, <1>3, Zenon DEF RunPreviewScript
<1>4. CASE RunDriftScript
  BY <1>1, <1>4, Zenon DEF RunDriftScript
<1> QED BY <1>2, <1>3, <1>4

(* Nobody else touches the command or the manifest.                        *)
LEMMA Aside ==
    ASSUME World \/ Save \/ UNCHANGED vars
    PROVE  proc' = proc /\ manifest' = manifest
<1>1. CASE World
  <2>1. CASE Tick \/ Checkout
    BY <2>1 DEF Tick, Checkout, files
  <2>2. CASE \E at \in Places \X Stacks : OtherWrites(at)
    BY <2>2 DEF OtherWrites, files
  <2>3. CASE \E s \in Stacks : Alter(s)
    BY <2>3 DEF Alter
  <2> QED BY <1>1, <2>1, <2>2, <2>3 DEF World
<1>2. CASE Save
  BY <1>2 DEF Save, files
<1>3. CASE UNCHANGED vars
  BY <1>3 DEF vars, files
<1> QED BY <1>1, <1>2, <1>3

LEMMA PromiseKept ==
    IInv /\ PromiseInv /\ [Next]_vars => PromiseInv'
<1> SUFFICES ASSUME IInv, PromiseInv, [Next]_vars PROVE PromiseInv'
  OBVIOUS
<1>1. CASE World \/ Save \/ UNCHANGED vars
  BY <1>1, Aside, UntouchedKeeps
<1>2. ASSUME NEW c \in Commands, Start(c) PROVE PromiseInv'
  BY <1>2, StartBegins
<1>3. CASE Login \/ Select \/ Prepare \/ ClearArtifacts \/ SavePlan
  BY <1>3, StepsKeepPromise
<1>4. CASE RunReading \/ RunPreviewScript \/ RunDriftScript
             \/ RunWriting \/ FinishUpdate \/ Replay
  <2>1. /\ proc.command # "plan"
        /\ \/ proc' = Idle
           \/ /\ proc'.command = proc.command
              /\ proc'.step \in {"validate", "run", "select"}
           \/ SameWork /\ proc'.step = "updating"
    BY <1>4, ReadsOthers, OthersGoOn
  <2> QED BY <2>1, EndedKeeps, OthersKeep DEF SameWork, SameCommand
<1>5. CASE Fail \/ WriteManifest
  BY <1>5, EndedKeeps DEF Fail, WriteManifest
<1>6. CASE Seal
  BY <1>6, SealCovers
<1>7. CASE Validate
  BY <1>7, ValidateIs, OthersKeep
<1> QED BY <1>1, <1>2, <1>3, <1>4, <1>5, <1>6, <1>7 DEF Next, Run

(* What the promise is about, step by step.  Neither a planning nor a      *)
(* replay is on before and after, or the one that is stays as it is.       *)
LEMMA NoPlanning ==
    ASSUME ~Plans PROVE Planning = Promise!NoJob
BY DEF Planning, Promise!NoJob

LEMMA NoReplaying ==
    ASSUME ~HoldsPlan PROVE Replaying = Promise!NoReplay
BY DEF Replaying, Promise!NoReplay

LEMMA SameInForce ==
    ASSUME manifest' = manifest PROVE InForce' = InForce
BY DEF InForce, PlansOf, Promised

LEMMA Unpromised ==
    ASSUME ~Plans, ~HoldsPlan, ~Plans', ~HoldsPlan'
    PROVE  Planning' = Planning /\ Replaying' = Replaying
BY DEF Planning, Replaying

LEMMA SameProc ==
    ASSUME proc' = proc, manifest' = manifest,
           proc.step = "seal" => planFile' = planFile
    PROVE  Planning' = Planning /\ Replaying' = Replaying
<1>1. stack' = stack /\ (Plans' <=> Plans) /\ (HoldsPlan' <=> HoldsPlan)
  BY DEF stack, Plans, HoldsPlan
<1>2. Planning' = Planning
  <2>1. CASE ~Plans
    BY <1>1, <2>1 DEF Planning
  <2>2. CASE Plans /\ proc.step = "seal"
    BY <1>1, <2>2 DEF Planning, PlansOf, Promised
  <2>3. CASE Plans /\ proc.step # "seal"
    BY <1>1, <2>3 DEF Planning, PlansOf, Promised
  <2> QED BY <2>1, <2>2, <2>3
<1>3. Replaying' = Replaying
  BY <1>1 DEF Replaying, Promised
<1> QED BY <1>2, <1>3

LEMMA PlanGoesOn ==
    ASSUME Plans, Plans', proc'.stacks = proc.stacks, proc'.place = proc.place,
           proc'.entries = proc.entries, proc.step # "seal", proc'.step # "seal"
    PROVE  Planning' = Planning /\ Replaying' = Replaying
<1>1. ~HoldsPlan /\ ~HoldsPlan'
  BY DEF Plans, HoldsPlan
<1> QED BY <1>1 DEF Planning, Replaying, PlansOf, Promised

LEMMA Stutters ==
    ASSUME UNCHANGED <<checkpoint, commit, manifest>>,
           Planning' = Planning, Replaying' = Replaying
    PROVE  UNCHANGED Promise!pvars
BY SameInForce DEF Promise!pvars

LEMMA Writes ==
    ASSUME NEW at \in Places \X Stacks, UNCHANGED <<commit, manifest>>,
           checkpoint' = [checkpoint EXCEPT ![at] = @ + 1],
           Planning' = Planning, Replaying' = Replaying
    PROVE  Promise!PNext
<1>1. Promise!Write(at)
  BY SameInForce DEF Promise!Write
<1> QED BY <1>1 DEF Promise!PNext

(* What a planning or a replay says while it is on.                        *)
LEMMA PlanningIs ==
    ASSUME Plans
    PROVE  Planning = [wanted |-> {proc.stacks[i] : i \in 1 .. Len(proc.stacks)},
                       place |-> proc.place, kept |-> PlansOf(proc.entries),
                       draft |-> IF proc.step = "seal" THEN Promised(planFile[stack])
                                 ELSE Promise!NoPlan]
BY DEF Planning, Promise!NoPlan

LEMMA SomePlanning ==
    ASSUME IInv, Plans
    PROVE  /\ Planning # Promise!NoJob
           /\ stack \in Planning.wanted /\ Planning.wanted \in SUBSET Stacks
<1>1. proc.at \in 1 .. Len(proc.stacks) /\ proc.stacks \in Seq(Stacks)
  BY AtWork DEF IInv, PlansInv, Plans
<1>2. Planning.wanted = {proc.stacks[i] : i \in 1 .. Len(proc.stacks)}
  BY PlanningIs
<1>3. stack \in Planning.wanted
  BY <1>1, <1>2 DEF stack
<1>4. Planning.wanted \in SUBSET Stacks
  BY <1>1, <1>2
<1>5. Promise!NoJob.wanted = {}
  BY DEF Promise!NoJob
<1> QED BY <1>3, <1>4, <1>5

LEMMA SomeReplaying ==
    ASSUME HoldsPlan PROVE Replaying # Promise!NoReplay
<1>1. DOMAIN Promise!NoReplay = {"begun"}
  BY DEF Promise!NoReplay
<1>2. "read" \in DOMAIN Replaying
  BY DEF Replaying
<1> QED BY <1>1, <1>2

LEMMA KeptStacks ==
    ASSUME IInv, proc # Idle
    PROVE  /\ \A p \in PlansOf(proc.entries) :
                 p.stack \in Stacks /\ proc.entries[p.stack] # NoEntry
           /\ \A s \in Stacks : proc.entries[s] # NoEntry =>
                 \E p \in PlansOf(proc.entries) : p.stack = s
<1>1. \A s \in Stacks : proc.entries[s] # NoEntry => proc.entries[s].plan.stack = s
  BY DEF IInv, RunInv, Collected, GoodEntry
<1>2. \A x : Promised(x).stack = x.stack
  BY DEF Promised
<1>3. ASSUME NEW p \in PlansOf(proc.entries)
      PROVE  p.stack \in Stacks /\ proc.entries[p.stack] # NoEntry
  <2>1. PICK s \in Stacks : proc.entries[s] # NoEntry
                             /\ p = Promised(proc.entries[s].plan)
    BY DEF PlansOf
  <2> QED BY <1>1, <1>2, <2>1
<1>4. ASSUME NEW s \in Stacks, proc.entries[s] # NoEntry
      PROVE  \E p \in PlansOf(proc.entries) : p.stack = s
  <2>1. Promised(proc.entries[s].plan) \in PlansOf(proc.entries)
    BY <1>4 DEF PlansOf
  <2> QED BY <1>1, <1>2, <1>4, <2>1
<1> QED BY <1>3, <1>4

(* Others write, and commits are checked out, while no command is at work. *)
LEMMA WorldRefines ==
    ASSUME IInv, World \/ Save \/ UNCHANGED vars
    PROVE  Promise!PNext \/ UNCHANGED Promise!pvars
<1>1. proc' = proc /\ manifest' = manifest
  BY Aside
<1>2. CASE Tick \/ UNCHANGED vars
  <2>1. UNCHANGED <<planFile, checkpoint, commit>>
    BY <1>2 DEF Tick, vars, files
  <2> QED BY <1>1, <2>1, SameProc, Stutters
<1>3. CASE Checkout
  <2>1. /\ proc = Idle /\ UNCHANGED <<planFile, checkpoint>>
        /\ commit' \in Commits
    BY <1>3 DEF Checkout, files
  <2>2. ~Plans /\ ~HoldsPlan
    BY <2>1 DEF Plans, HoldsPlan
  <2>3. Promise!Quiet
    BY <2>2, NoPlanning, NoReplaying DEF Promise!Quiet
  <2>4. Promise!Checkout
    BY <1>1, <2>1, <2>3, SameProc, SameInForce DEF Promise!Checkout
  <2> QED BY <2>4 DEF Promise!PNext
<1>4. ASSUME NEW at \in Places \X Stacks, OtherWrites(at)
      PROVE  Promise!PNext
  <2>1. /\ UNCHANGED <<planFile, commit>>
        /\ checkpoint' = [checkpoint EXCEPT ![at] = @ + 1]
    BY <1>4 DEF OtherWrites, files
  <2> QED BY <1>1, <2>1, SameProc, Writes
<1>5. ASSUME NEW s \in Stacks, Alter(s)
      PROVE  UNCHANGED Promise!pvars
  <2>1. proc = Idle /\ UNCHANGED <<checkpoint, commit>>
    BY <1>5 DEF Alter
  <2>2. proc.step # "seal"
    BY <2>1 DEF Idle
  <2> QED BY <1>1, <2>1, <2>2, SameProc, Stutters
<1>6. CASE Save
  <2>1. /\ proc # Idle /\ UNCHANGED <<planFile, commit>>
        /\ checkpoint' = [checkpoint EXCEPT ![here] = @ + 1]
    BY <1>6 DEF Save, Idle, files
  <2>2. here \in Places \X Stacks
    BY <2>1, AtWork DEF IInv, PlansInv
  <2> QED BY <1>1, <2>1, <2>2, SameProc, Writes
<1> QED BY <1>2, <1>3, <1>4, <1>5, <1>6 DEF World

(* What the promise is not about.                                         *)
LEMMA UnseenSteps ==
    ASSUME IInv, \/ \E c \in Commands : Start(c)
                 \/ Login \/ Validate \/ RunWriting
                 \/ \E commands : "plan" \notin commands /\ Reads(commands)
    PROVE  UNCHANGED Promise!pvars
<1> SUFFICES /\ UNCHANGED <<checkpoint, commit, manifest>>
             /\ ~Plans /\ ~HoldsPlan /\ ~Plans' /\ ~HoldsPlan'
  BY Unpromised, Stutters
<1>1. ASSUME NEW c \in Commands, Start(c)
      PROVE  /\ UNCHANGED <<checkpoint, commit, manifest>>
             /\ ~Plans /\ ~HoldsPlan /\ ~Plans' /\ ~HoldsPlan'
  <2>1. /\ proc = Idle /\ proc'.step = "login"
        /\ UNCHANGED <<checkpoint, commit, manifest>>
    <3>1. proc = Idle
      BY <1>1, Zenon DEF Start
    <3>2. UNCHANGED <<checkpoint, commit, manifest>>
      BY <1>1, Zenon DEF Start, files
    <3>3. PICK list \in StackLists, place \in Places, offset \in Offsets,
               selected \in Stacks \cup {"none"} :
            proc' = [command |-> c, stacks |-> list, at |-> 1,
                     step |-> "login", place |-> place, selected |-> selected,
                     offset |-> offset, started |-> clock,
                     entries |-> [s \in Stacks |-> NoEntry],
                     loaded |-> NoFile, identity |-> 0]
      BY <1>1, Zenon DEF Start
    <3> QED BY <3>1, <3>2, <3>3
  <2> QED BY <2>1 DEF Plans, HoldsPlan
<1>2. CASE Login
  <2>1. /\ proc.step = "login" /\ proc'.step \in {"clear", "validate", "run", "select"}
        /\ proc'.command = "plan" => proc'.step = "clear"
    BY <1>2, LoginIs DEF SameWork, SameCommand
  <2>2. UNCHANGED <<checkpoint, commit, manifest>>
    BY <1>2 DEF Login, files
  <2> QED BY <2>1, <2>2 DEF Plans, HoldsPlan
<1>3. CASE Validate
  BY <1>3, ValidateIs DEF Plans, HoldsPlan
<1>4. CASE RunWriting \/ \E commands : "plan" \notin commands /\ Reads(commands)
  <2>1. /\ proc # Idle /\ proc.command # "plan"
        /\ UNCHANGED <<commit, checkpoint, manifest>>
        /\ \/ proc' = Idle
           \/ /\ proc'.command = proc.command
              /\ proc'.step \in {"validate", "run", "select"}
           \/ /\ RunWriting \/ Replay
              /\ SameWork /\ proc'.step = "updating"
    BY <1>4, OthersGoOn
  <2>2. proc.step = "run" /\ (RunWriting => proc.command # "up-plan")
    BY <1>4 DEF RunWriting, Reads
  <2>3. ~Replay
    BY <2>2 DEF Replay
  <2>4. CASE proc' = Idle
    BY <2>1, <2>2, <2>4 DEF Plans, HoldsPlan
  <2>5. CASE /\ proc'.command = proc.command
             /\ proc'.step \in {"validate", "run", "select"}
    BY <2>1, <2>2, <2>5 DEF Plans, HoldsPlan
  <2>6. CASE RunWriting /\ SameWork
    BY <2>1, <2>2, <2>6 DEF Plans, HoldsPlan, SameWork, SameCommand
  <2> QED BY <2>1, <2>3, <2>4, <2>5, <2>6
<1> QED BY <1>1, <1>2, <1>3, <1>4

(* A stack that does not exist is made.                                    *)
LEMMA SelectRefines ==
    ASSUME IInv, Select PROVE Promise!PNext \/ UNCHANGED Promise!pvars
<1>1. /\ proc # Idle /\ proc.step = "select" /\ SameWork
      /\ proc'.step \in {"run", "prepare"}
  BY SelectIs
<1>2. /\ UNCHANGED <<commit, manifest>>
      /\ checkpoint' = [checkpoint EXCEPT ![here] = IF @ = 0 THEN 1 ELSE @]
  BY Zenon DEF Select, files
<1>3. Planning' = Planning /\ Replaying' = Replaying
  <2>1. proc' # Idle
    BY <1>1 DEF Idle
  <2>2. ~HoldsPlan /\ ~HoldsPlan' /\ (Plans' <=> Plans)
    BY <1>1, <2>1 DEF HoldsPlan, Plans, SameWork, SameCommand
  <2>3. CASE Plans
    BY <1>1, <2>2, <2>3, PlanGoesOn DEF SameWork, SameCommand
  <2>4. CASE ~Plans
    BY <2>2, <2>4, Unpromised
  <2> QED BY <2>3, <2>4
<1>4. /\ here \in Places \X Stacks
      /\ checkpoint \in [Places \X Stacks -> 0 .. MaxVersion]
  BY <1>1, AtWork DEF IInv, PlansInv, TypeOK
<1>5. CASE checkpoint[here] = 0
  <2>1. checkpoint' = [checkpoint EXCEPT ![here] = @ + 1]
    BY <1>2, <1>4, <1>5
  <2> QED BY <1>2, <1>3, <1>4, <2>1, Writes
<1>6. CASE checkpoint[here] # 0
  <2>1. checkpoint' = checkpoint
    BY <1>2, <1>4, <1>6
  <2> QED BY <1>2, <1>3, <2>1, Stutters
<1> QED BY <1>5, <1>6

(* plan: what was in force is withdrawn, plans are computed, kept and put  *)
(* in force.                                                               *)
LEMMA ClearRefines ==
    ASSUME IInv, PromiseInv, ClearArtifacts PROVE Promise!PNext
<1>1. /\ proc # Idle /\ proc.step = "clear" /\ proc.command = "plan"
      /\ SameWork /\ proc'.step = "select" /\ manifest' = NoFile
      /\ UNCHANGED <<commit, checkpoint>>
  BY ClearIs
<1>2. proc' # Idle
  BY <1>1 DEF Idle
<1>3. ~Plans /\ ~HoldsPlan /\ Plans' /\ ~HoldsPlan'
  BY <1>1, <1>2 DEF Plans, HoldsPlan, SameWork, SameCommand
<1>4. Promise!Quiet
  BY <1>3, NoPlanning, NoReplaying DEF Promise!Quiet
<1>5. InForce' = {}
  BY <1>1 DEF InForce
<1>6. PlansOf(proc.entries) = {}
  <2>1. Through = 0
    BY <1>1 DEF PromiseInv, Begins, Through
  <2>2. \A s \in Stacks : proc.entries[s] = NoEntry
    BY <1>1, <2>1 DEF PromiseInv, Covered
  <2> QED BY <2>2 DEF PlansOf
<1> DEFINE wanted == {proc.stacks[i] : i \in 1 .. Len(proc.stacks)}
<1>7. wanted \in (SUBSET Stacks) \ {{}} /\ proc.place \in Places
  <2>1. /\ proc.at \in 1 .. Len(proc.stacks) /\ proc.stacks \in Seq(Stacks)
        /\ proc.place \in Places
    BY <1>1, AtWork DEF IInv, PlansInv
  <2>2. proc.stacks[proc.at] \in wanted
    BY <2>1
  <2>3. wanted \in SUBSET Stacks
    BY <2>1
  <2>4. wanted # {}
    BY <2>2
  <2> HIDE DEF wanted
  <2>5. wanted \in (SUBSET Stacks) \ {{}}
    <3>1. wanted \notin {{}}
      BY <2>4
    <3> QED BY <2>3, <3>1
  <2> QED BY <2>1, <2>5
<1>8. Planning' = [wanted |-> wanted, place |-> proc.place, kept |-> {},
                   draft |-> Promise!NoPlan]
  <2>1. PlansOf(proc'.entries) = {} /\ proc'.place = proc.place
          /\ proc'.stacks = proc.stacks
    BY <1>1, <1>6 DEF SameWork, SameCommand
  <2> QED BY <1>1, <1>3, <2>1 DEF Planning, Promise!NoPlan
<1>9. Replaying' = Replaying
  BY <1>3 DEF Replaying
<1> HIDE DEF wanted
<1>10. Promise!Withdraw(wanted, proc.place)
  BY <1>1, <1>4, <1>5, <1>8, <1>9 DEF Promise!Withdraw
<1> QED BY <1>7, <1>10 DEF Promise!PNext

LEMMA SavePlanRefines ==
    ASSUME IInv, PromiseInv, SavePlan PROVE Promise!PNext
<1>1. /\ proc # Idle /\ proc.step = "run" /\ proc.command = "plan"
      /\ SameWork /\ proc'.step = "seal"
      /\ UNCHANGED <<commit, checkpoint, manifest>>
  BY SaveIs
<1>2. PICK destroys \in BOOLEAN :
        planFile' = [planFile EXCEPT
            ![stack] = [stack |-> stack, place |-> proc.place,
                        base |-> checkpoint[here], commit |-> commit,
                        made |-> clock, destroys |-> destroys]]
  BY DEF SavePlan
<1>3. checkpoint[here] # 0
  BY DEF SavePlan
<1>4. proc' # Idle
  BY <1>1 DEF Idle
<1>5. Plans /\ ~HoldsPlan /\ Plans' /\ ~HoldsPlan'
  BY <1>1, <1>4 DEF Plans, HoldsPlan, SameWork, SameCommand
<1>6. stack \in Stacks
  BY <1>1, AtWork DEF IInv, PlansInv
<1> DEFINE draft == [stack |-> stack, place |-> proc.place, commit |-> commit,
                     base |-> checkpoint[here], destroys |-> destroys]
<1>7. Promised(planFile'[stack]) = draft
  BY <1>2, <1>6 DEF Promised, IInv, PlansInv, TypeOK
<1>8. Promised(planFile[stack])' = draft
  BY <1>1, <1>7 DEF SameWork, Promised
<1>9. Planning = [wanted |-> {proc.stacks[i] : i \in 1 .. Len(proc.stacks)},
                  place |-> proc.place, kept |-> PlansOf(proc.entries),
                  draft |-> Promise!NoPlan]
  BY <1>1, <1>5, PlanningIs
<1>10. Planning' = [wanted |-> {proc.stacks[i] : i \in 1 .. Len(proc.stacks)},
                    place |-> proc.place, kept |-> PlansOf(proc.entries),
                    draft |-> draft]
  <2>1. /\ PlansOf(proc.entries)' = PlansOf(proc.entries)
        /\ proc'.place = proc.place /\ proc'.stacks = proc.stacks
    BY <1>1 DEF SameWork, SameCommand, PlansOf, Promised
  <2> HIDE DEF draft
  <2> QED BY <1>1, <1>5, <1>8, <2>1 DEF Planning
<1>11. /\ Replaying' = Replaying /\ InForce' = InForce
  BY <1>1, <1>5, SameInForce DEF Replaying
<1>12. Promise!Compute(stack, destroys)
  <2>1. /\ Planning # Promise!NoJob /\ stack \in Planning.wanted
    BY <1>5, SomePlanning
  <2>2. /\ Planning.place = proc.place /\ Planning.draft = Promise!NoPlan
        /\ Planning' = [Planning EXCEPT !.draft = draft]
    <3> DEFINE wanted == {proc.stacks[i] : i \in 1 .. Len(proc.stacks)}
               kept == PlansOf(proc.entries)
    <3>1. /\ Planning = [wanted |-> wanted, place |-> proc.place, kept |-> kept,
                         draft |-> Promise!NoPlan]
          /\ Planning' = [wanted |-> wanted, place |-> proc.place, kept |-> kept,
                          draft |-> draft]
      BY <1>9, <1>10
    <3> HIDE DEF wanted, kept, draft
    <3> QED BY <3>1
  <2>3. checkpoint[<<Planning.place, stack>>] = checkpoint[here]
    BY <2>2 DEF here
  <2>4. Planning' = [Planning EXCEPT !.draft =
            [stack |-> stack, place |-> Planning.place, commit |-> commit,
             base |-> checkpoint[<<Planning.place, stack>>], destroys |-> destroys]]
    BY <2>2, <2>3
  <2> HIDE DEF draft
  <2> QED BY <1>1, <1>3, <1>11, <2>1, <2>2, <2>3, <2>4 DEF Promise!Compute
<1> QED BY <1>6, <1>12 DEF Promise!PNext

LEMMA SealRefines ==
    ASSUME IInv, PromiseInv, Seal PROVE Promise!PNext
<1> DEFINE entry == [plan |-> planFile[stack], preview |-> preview[stack],
                     identity |-> proc.identity]
           plan == Promised(planFile[stack])
<1>1. /\ proc # Idle /\ proc.step = "seal" /\ proc.command = "plan"
      /\ entry \in Entries /\ ~planFile[stack].destroys
      /\ proc'.command = "plan" /\ proc'.place = proc.place
      /\ proc'.stacks = proc.stacks
      /\ proc'.entries = [proc.entries EXCEPT
             ![stack] = IF proc.entries[stack] = NoEntry THEN entry
                        ELSE proc.entries[stack]]
      /\ proc'.step \in {"select", "manifest"}
  BY SealIs
<1>2. UNCHANGED <<commit, checkpoint, manifest>>
  BY DEF Seal, files
<1>3. proc' # Idle
  BY <1>1 DEF Idle
<1>4. Plans /\ ~HoldsPlan /\ Plans' /\ ~HoldsPlan'
  BY <1>1, <1>3 DEF Plans, HoldsPlan
<1>5. stack \in Stacks /\ proc.entries \in [Stacks -> Entries \cup {NoEntry}]
  BY <1>1, AtWork DEF IInv, PlansInv
<1>6. planFile[stack].stack = stack /\ planFile[stack].base # 0
  <2>1. planFile[stack] \in Contents /\ planFile[stack].stack = stack
    BY <1>1 DEF IInv, RunInv, Saved
  <2>2. planFile[stack].base \in 1 .. MaxVersion
    BY <2>1, Present
  <2> QED BY <2>1, <2>2, PlanAssumption
<1>7. /\ plan.stack = stack /\ ~plan.destroys /\ plan # Promise!NoPlan
  <2>1. plan.stack = stack /\ plan.base # 0 /\ ~plan.destroys
    BY <1>1, <1>6 DEF Promised
  <2>2. Promise!NoPlan.base = 0
    BY DEF Promise!NoPlan
  <2> QED BY <2>1, <2>2
<1>8. PlansOf(proc'.entries) =
        IF \E p \in PlansOf(proc.entries) : p.stack = plan.stack
        THEN PlansOf(proc.entries) ELSE PlansOf(proc.entries) \cup {plan}
  <2>1. (\E p \in PlansOf(proc.entries) : p.stack = stack)
           <=> proc.entries[stack] # NoEntry
    BY <1>1, <1>5, KeptStacks
  <2>2. CASE proc.entries[stack] # NoEntry
    <3>1. proc'.entries = proc.entries
      BY <1>1, <1>5, <2>2
    <3> QED BY <1>7, <2>1, <2>2, <3>1
  <2>3. CASE proc.entries[stack] = NoEntry
    <3>1. entry # NoEntry
      BY <1>1, Present
    <3>2. entry.plan = planFile[stack]
      OBVIOUS
    <3> HIDE DEF entry
    <3>3. proc'.entries = [proc.entries EXCEPT ![stack] = entry]
      BY <1>1, <2>3
    <3>4. \A s \in Stacks :
             proc'.entries[s] = IF s = stack THEN entry ELSE proc.entries[s]
      BY <1>5, <3>3
    <3>5. PlansOf(proc'.entries) = PlansOf(proc.entries) \cup {plan}
      <4>1. ASSUME NEW p \in PlansOf(proc'.entries)
            PROVE  p \in PlansOf(proc.entries) \cup {plan}
        <5>1. PICK s \in Stacks : /\ proc'.entries[s] # NoEntry
                                  /\ p = Promised(proc'.entries[s].plan)
          BY DEF PlansOf
        <5>2. CASE s = stack
          BY <3>2, <3>4, <5>1, <5>2
        <5>3. CASE s # stack
          BY <3>4, <5>1, <5>3 DEF PlansOf
        <5> QED BY <5>2, <5>3
      <4>2. ASSUME NEW p \in PlansOf(proc.entries)
            PROVE  p \in PlansOf(proc'.entries)
        <5>1. PICK s \in Stacks : /\ proc.entries[s] # NoEntry
                                  /\ p = Promised(proc.entries[s].plan)
          BY DEF PlansOf
        <5>2. proc'.entries[s] = proc.entries[s]
          BY <2>3, <3>4, <5>1
        <5> QED BY <5>1, <5>2 DEF PlansOf
      <4>3. plan \in PlansOf(proc'.entries)
        <5>1. proc'.entries[stack] = entry
          BY <1>5, <3>4
        <5> QED BY <1>5, <3>1, <3>2, <5>1 DEF PlansOf
      <4> QED BY <4>1, <4>2, <4>3
    <3> QED BY <1>7, <2>1, <2>3, <3>5
  <2> QED BY <2>2, <2>3
<1> HIDE DEF plan
<1> DEFINE wanted == {proc.stacks[i] : i \in 1 .. Len(proc.stacks)}
           kept == PlansOf(proc.entries)
           keptNext == PlansOf(proc'.entries)
<1>9. Planning = [wanted |-> wanted, place |-> proc.place, kept |-> kept,
                  draft |-> plan]
  BY <1>1, <1>4, PlanningIs DEF plan
<1>10. Planning' = [wanted |-> wanted, place |-> proc.place, kept |-> keptNext,
                    draft |-> Promise!NoPlan]
  <2>1. /\ PlansOf(proc.entries)' = keptNext
        /\ {proc.stacks[i] : i \in 1 .. Len(proc.stacks)}' = wanted
    BY <1>1 DEF PlansOf, Promised
  <2>2. proc'.step # "seal"
    BY <1>1
  <2> HIDE DEF keptNext, wanted
  <2> QED BY <1>1, <1>4, <2>1, <2>2 DEF Planning, Promise!NoPlan
<1>11. Replaying' = Replaying /\ InForce' = InForce
  BY <1>2, <1>4, SameInForce DEF Replaying
<1>12. keptNext = IF \E p \in kept : p.stack = plan.stack THEN kept
                  ELSE kept \cup {plan}
  BY <1>8
<1> HIDE DEF wanted, kept, keptNext
<1>13. /\ Planning.draft = plan /\ Planning.kept = kept
       /\ Planning' = [Planning EXCEPT !.draft = Promise!NoPlan, !.kept = keptNext]
  <2>1. Planning.draft = plan /\ Planning.kept = kept
    BY <1>9
  <2>2. [Planning EXCEPT !.draft = Promise!NoPlan]
          = [wanted |-> wanted, place |-> proc.place, kept |-> kept,
             draft |-> Promise!NoPlan]
    BY <1>9
  <2>3. [Planning EXCEPT !.draft = Promise!NoPlan, !.kept = keptNext]
          = [wanted |-> wanted, place |-> proc.place, kept |-> keptNext,
             draft |-> Promise!NoPlan]
    <3> DEFINE q == [wanted |-> wanted, place |-> proc.place, kept |-> kept,
                     draft |-> Promise!NoPlan]
    <3>1. [q EXCEPT !.kept = keptNext]
            = [wanted |-> wanted, place |-> proc.place, kept |-> keptNext,
               draft |-> Promise!NoPlan]
      OBVIOUS
    <3> HIDE DEF q
    <3>2. [Planning EXCEPT !.draft = Promise!NoPlan] = q
      BY <2>2 DEF q
    <3> QED BY ONLY <3>1, <3>2, Zenon
  <2> QED BY <1>10, <2>1, <2>3
<1>14. Planning # Promise!NoJob
  BY <1>4, SomePlanning
<1>15. Promise!Keep
  BY <1>2, <1>7, <1>11, <1>12, <1>13, <1>14 DEF Promise!Keep
<1> QED BY <1>15 DEF Promise!PNext

LEMMA WriteRefines ==
    ASSUME IInv, PromiseInv, WriteManifest PROVE Promise!PNext
<1>1. /\ proc # Idle /\ proc.step = "manifest" /\ proc' = Idle
      /\ manifest' = [created |-> clock + proc.offset, commit |-> commit,
                      place |-> proc.place, entries |-> proc.entries]
      /\ UNCHANGED <<commit, checkpoint>>
  BY DEF WriteManifest, Idle
<1>2. proc.command = "plan"
  BY <1>1 DEF IInv, RunInv, StepFits
<1>3. Plans /\ ~HoldsPlan /\ ~Plans' /\ ~HoldsPlan'
  BY <1>1, <1>2 DEF Plans, HoldsPlan
<1>4. InForce' = PlansOf(proc.entries)
  <2>1. manifest' # NoFile
    <3>1. DOMAIN NoFile = {"made"}
      BY DEF NoFile
    <3>2. "created" \in DOMAIN manifest'
      BY <1>1
    <3> QED BY <3>1, <3>2
  <2>2. manifest'.entries = proc.entries
    BY <1>1
  <2> QED BY <2>1, <2>2 DEF InForce, PlansOf, Promised
<1>5. {proc.stacks[i] : i \in 1 .. Len(proc.stacks)}
        = {p.stack : p \in PlansOf(proc.entries)}
  <2>1. \A s \in Stacks : proc.entries[s] # NoEntry
                   <=> \E i \in 1 .. Len(proc.stacks) : proc.stacks[i] = s
    BY <1>1, <1>2 DEF PromiseInv, Covered, Through
  <2>2. \A i \in 1 .. Len(proc.stacks) : proc.stacks[i] \in Stacks
    BY <1>1, AtWork DEF IInv, PlansInv
  <2> QED BY <1>1, <2>1, <2>2, KeptStacks
<1>6. /\ Planning # Promise!NoJob
      /\ Planning.wanted = {proc.stacks[i] : i \in 1 .. Len(proc.stacks)}
      /\ Planning.kept = PlansOf(proc.entries)
  BY <1>3, SomePlanning, PlanningIs
<1>7. Planning' = Promise!NoJob /\ Replaying' = Replaying
  BY <1>3 DEF Planning, Replaying, Promise!NoJob
<1>8. Planning.wanted = {p.stack : p \in Planning.kept} /\ InForce' = Planning.kept
  BY <1>4, <1>5, <1>6
<1>9. Promise!PutInForce
  BY <1>1, <1>6, <1>7, <1>8 DEF Promise!PutInForce
<1> QED BY <1>9 DEF Promise!PNext

(* up-plan reads the version of the checkpoint as it prepares the stack of *)
(* a plan in force, and hands that plan to Pulumi if it was computed on it.*)
LEMMA PrepareRefines ==
    ASSUME IInv, Prepare PROVE Promise!PNext \/ UNCHANGED Promise!pvars
<1>1. /\ proc # Idle /\ proc.step = "prepare" /\ SameWork
      /\ proc'.step = IF proc.command = "up-plan" THEN "replay" ELSE "run"
      /\ proc'.identity = IF Shared THEN checkpoint[here] ELSE 0
  BY PrepareIs
<1>2. UNCHANGED <<commit, checkpoint, manifest>>
  BY DEF Prepare, files
<1>3. proc' # Idle
  BY <1>1 DEF Idle
<1>4. CASE proc.command # "up-plan"
  <2>1. ~HoldsPlan /\ ~HoldsPlan' /\ (Plans' <=> Plans)
    BY <1>1, <1>3, <1>4 DEF HoldsPlan, Plans, SameWork, SameCommand
  <2>2. Planning' = Planning /\ Replaying' = Replaying
    <3>1. CASE Plans
      BY <1>1, <1>4, <2>1, <3>1, PlanGoesOn DEF SameWork, SameCommand
    <3>2. CASE ~Plans
      BY <2>1, <3>2, Unpromised
    <3> QED BY <3>1, <3>2
  <2> QED BY <1>2, <2>2, Stutters
<1>5. CASE proc.command = "up-plan"
  <2> DEFINE p == Promised(manifest.entries[stack].plan)
  <2>1. ~Plans /\ ~HoldsPlan /\ ~Plans' /\ HoldsPlan'
    BY <1>1, <1>3, <1>5 DEF Plans, HoldsPlan, SameWork, SameCommand
  <2>2. Promise!Quiet
    BY <2>1, NoPlanning, NoReplaying DEF Promise!Quiet
  <2>3. /\ manifest # NoFile /\ manifest.entries[stack] # NoEntry
        /\ manifest.place = proc.place /\ manifest.commit = commit
    BY <1>1, <1>5 DEF IInv, RunInv, Validated, Loaded
  <2>4. stack \in Stacks
    BY <1>1, AtWork DEF IInv, PlansInv
  <2>5. p \in InForce
    BY <2>3, <2>4 DEF InForce, PlansOf
  <2>6. p.stack = stack /\ p.place = proc.place /\ p.commit = commit
    <3>1. GoodEntry(manifest.entries[stack], stack, manifest.place, manifest.commit)
      BY <2>3, <2>4 DEF IInv, RunInv, Binding
    <3> QED BY <2>3, <3>1 DEF GoodEntry, Promised
  <2>7. Promised(manifest.entries[stack].plan)' = p
    BY <1>1, <1>2 DEF SameWork, Promised
  <2> HIDE DEF p
  <2>8. Replaying' = [plan |-> p, read |-> proc'.identity, begun |-> FALSE]
    BY <1>1, <1>5, <2>1, <2>7 DEF Replaying
  <2>9. proc'.identity = IF p.place \in SharedPlaces
                         THEN checkpoint[<<p.place, p.stack>>] ELSE 0
    BY <1>1, <2>6 DEF Shared, here
  <2>10. Replaying' = [plan |-> p, begun |-> FALSE,
                       read |-> IF p.place \in SharedPlaces
                                THEN checkpoint[<<p.place, p.stack>>] ELSE 0]
    BY <2>8, <2>9
  <2>11. Planning' = Planning /\ InForce' = InForce
    BY <1>2, <2>1, SameInForce DEF Planning
  <2>12. Promise!ReadVersion(p)
    BY <1>2, <2>2, <2>5, <2>6, <2>10, <2>11 DEF Promise!ReadVersion
  <2> QED BY <2>5, <2>12 DEF Promise!PNext
<1> QED BY <1>4, <1>5

LEMMA ReplayRefines ==
    ASSUME IInv, [Next]_vars, Replay PROVE Promise!PNext
<1>1. /\ proc # Idle /\ proc.step = "replay" /\ SameWork
      /\ proc'.step = "updating" /\ proc'.identity = proc.identity
      /\ UNCHANGED <<commit, checkpoint, manifest>>
  <2>1. proc.step = "replay"
    BY DEF Replay
  <2>2. /\ proc # Idle /\ UNCHANGED <<commit, checkpoint, manifest>>
        /\ \/ proc' = Idle
           \/ /\ proc'.command = proc.command
              /\ proc'.step \in {"validate", "run", "select"}
           \/ /\ SameWork /\ proc'.step = "updating"
              /\ proc'.identity = proc.identity
    BY OthersGoOn
  <2>3. proc'.step = "updating"
    <3>1. Goto("updating") /\ "updating" \in Steps
      BY DEF Replay, Steps
    <3> QED BY <2>2, <3>1, GotoSame
  <2> QED BY <2>1, <2>2, <2>3 DEF Idle
<1>2. proc.command = "up-plan" /\ proc' # Idle
  BY <1>1 DEF IInv, RunInv, StepFits, Idle
<1>3. ~Plans /\ HoldsPlan /\ ~Plans' /\ HoldsPlan'
  BY <1>1, <1>2 DEF Plans, HoldsPlan, SameWork, SameCommand
<1> DEFINE p == Promised(manifest.entries[stack].plan)
<1>4. p.place = proc.place /\ p.base = PlanOf(stack).base
  <2>1. /\ PlanOf(stack) = manifest.entries[stack].plan
        /\ GoodEntry(manifest.entries[stack], stack, proc.place, commit)
    BY <1>1, ReplayedEntry
  <2> QED BY <2>1 DEF GoodEntry, Promised
<1>5. Promised(manifest.entries[stack].plan)' = p
  BY <1>1 DEF SameWork, Promised
<1> HIDE DEF p
<1>6. Replaying = [plan |-> p, read |-> proc.identity, begun |-> FALSE]
  BY <1>1, <1>3 DEF Replaying, p
<1>7. Replaying' = [plan |-> p, read |-> proc.identity, begun |-> TRUE]
  BY <1>1, <1>3, <1>5 DEF Replaying
<1>8. Shared => PlanOf(stack).base = proc.identity
  BY <1>1, PreparedStep DEF OnPrepared, Replays
<1>9. Planning' = Planning /\ InForce' = InForce
  BY <1>1, <1>3, SameInForce DEF Planning
<1>10. Promise!Begin
  <2>1. Replaying # Promise!NoReplay
    BY <1>3, SomeReplaying
  <2>2. Replaying.plan.place \in SharedPlaces
           => Replaying.read = Replaying.plan.base
    BY <1>4, <1>6, <1>8 DEF Shared
  <2>3. Replaying' = [Replaying EXCEPT !.begun = TRUE]
    <3> DEFINE yes == TRUE
               no == FALSE
    <3>1. Replaying = [plan |-> p, read |-> proc.identity, begun |-> no]
      BY <1>6
    <3> HIDE DEF yes, no
    <3>2. [Replaying EXCEPT !.begun = yes]
            = [plan |-> p, read |-> proc.identity, begun |-> yes]
      BY <3>1
    <3>3. yes = TRUE
      BY DEF yes
    <3> QED BY ONLY <1>7, <3>2, <3>3, Zenon
  <2>4. ~Replaying.begun
    BY <1>6
  <2> QED BY <1>1, <1>9, <2>1, <2>2, <2>3, <2>4 DEF Promise!Begin
<1> QED BY <1>10 DEF Promise!PNext

(* What is at work is done with or fails.                                  *)
LEMMA EndRefines ==
    ASSUME IInv, FinishUpdate \/ Fail PROVE Promise!PNext \/ UNCHANGED Promise!pvars
<1>1. UNCHANGED <<commit, checkpoint, manifest>>
  BY DEF FinishUpdate, Fail, files
<1>2. ~Plans' /\ ~HoldsPlan' /\ (Plans => proc' = Idle)
  <2>1. CASE Fail
    BY <2>1 DEF Fail, Plans, HoldsPlan
  <2>2. CASE FinishUpdate
    <3>1. proc.step = "updating"
      BY <2>2 DEF FinishUpdate
    <3>2. /\ proc # Idle /\ proc.command # "plan"
          /\ \/ proc' = Idle
             \/ /\ proc'.command = proc.command
                /\ proc'.step \in {"validate", "run", "select"}
             \/ RunWriting \/ Replay
      BY <2>2, OthersGoOn
    <3>3. ~RunWriting /\ ~Replay
      BY <3>1 DEF RunWriting, Replay
    <3> QED BY <3>2, <3>3 DEF Plans, HoldsPlan
  <2> QED BY <2>1, <2>2
<1>3. Planning' = Promise!NoJob /\ Replaying' = Promise!NoReplay
  BY <1>2 DEF Planning, Replaying, Promise!NoJob, Promise!NoReplay
<1>4. InForce' = InForce
  BY <1>1, SameInForce
<1>5. CASE Plans
  <2>1. ~HoldsPlan /\ Planning # Promise!NoJob
    BY <1>5, SomePlanning DEF Plans, HoldsPlan
  <2>2. Promise!Abandon
    BY <1>1, <1>3, <1>4, <2>1, NoReplaying DEF Promise!Abandon
  <2> QED BY <2>2 DEF Promise!PNext
<1>6. CASE HoldsPlan
  <2>1. ~Plans /\ Replaying # Promise!NoReplay
    BY <1>6, SomeReplaying DEF Plans, HoldsPlan
  <2>2. Promise!Leave
    BY <1>1, <1>3, <1>4, <2>1, NoPlanning DEF Promise!Leave
  <2> QED BY <2>2 DEF Promise!PNext
<1>7. CASE ~Plans /\ ~HoldsPlan
  BY <1>1, <1>3, <1>7, NoPlanning, NoReplaying, Stutters
<1> QED BY <1>5, <1>6, <1>7

LEMMA StepKeepsPromise ==
    IInv /\ PromiseInv /\ [Next]_vars => [Promise!PNext]_(Promise!pvars)
<1> SUFFICES ASSUME IInv, PromiseInv, [Next]_vars
             PROVE  Promise!PNext \/ UNCHANGED Promise!pvars
  OBVIOUS
<1>1. CASE World \/ Save \/ UNCHANGED vars
  BY <1>1, WorldRefines
<1>2. CASE \/ \E c \in Commands : Start(c)
           \/ Login \/ Validate \/ RunWriting
           \/ RunReading \/ RunPreviewScript \/ RunDriftScript
  BY <1>2, ReadsOthers, UnseenSteps
<1>3. CASE Select
  BY <1>3, SelectRefines
<1>4. CASE Prepare
  BY <1>4, PrepareRefines
<1>5. CASE ClearArtifacts \/ SavePlan \/ Seal \/ WriteManifest
  BY <1>5, ClearRefines, SavePlanRefines, SealRefines, WriteRefines
<1>6. CASE Replay
  BY <1>6, ReplayRefines
<1>7. CASE FinishUpdate \/ Fail
  BY <1>7, EndRefines
<1> QED BY <1>1, <1>2, <1>3, <1>4, <1>5, <1>6, <1>7 DEF Next, Run

LEMMA InitKeepsPromise == Init => Promise!PInit
<1> SUFFICES ASSUME Init PROVE Promise!PInit
  OBVIOUS
<1>1. proc = Idle /\ manifest = NoFile
  BY DEF Init
<1>2. ~Plans /\ ~HoldsPlan /\ InForce = {}
  BY <1>1 DEF Plans, HoldsPlan, InForce
<1> QED BY <1>2, NoPlanning, NoReplaying DEF Init, Promise!PInit

(* The commands of the runner, wherever they fail or are killed and        *)
(* whoever else writes or alters what they leave, implement PlanPromise:   *)
(* plans come in force all together and are withdrawn all together, and on *)
(* a shared backend only a plan in force is replayed, of the commit checked*)
(* out and on the very version of the checkpoint it was computed on.       *)
THEOREM PlansKeepPromise == Spec => KeepsPlans
<1>1. PromiseInv /\ IInv /\ [Next]_vars => PromiseInv'
  BY PromiseKept
<1>2. Spec => [](IInv /\ PromiseInv)
  BY <1>1, InitPromiseInv, AlwaysIInv, PTL DEF Spec
<1> QED BY <1>2, InitKeepsPromise, StepKeepsPromise, PTL
        DEF Spec, KeepsPlans, Promise!PSpec
===============================================================================
