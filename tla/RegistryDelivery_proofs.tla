----------------------- MODULE RegistryDelivery_proofs -----------------------
(***************************************************************************)
(* Proofs about RegistryDelivery for any runs, pull requests, visitors and *)
(* bounds: its types, the agreement of the state group with the Pulumi     *)
(* lock, the freshness of replayed plans, the order of bases, the evidence *)
(* (manifests, updates, receipts and dispatches), and that it implements   *)
(* DeliveryPromise.                                                        *)
(***************************************************************************)
EXTENDS RegistryDelivery, TLAPS

(* A slot of the group that is not empty names a member.                   *)
LEMMA GroupTypes ==
    ASSUME PlaceOK
    PROVE  /\ group.holder \in Runs \cup Visitors \cup {Nobody}
           /\ group.pending \in Runs \cup Visitors \cup {Nobody}
           /\ Grp!Release(group) \in Grp!GroupOf(Runs \cup Visitors)
           /\ \A m \in Runs \cup Visitors :
                 Grp!Enter(group, m) \in Grp!GroupOf(Runs \cup Visitors)
BY DEF PlaceOK, Grp!GroupOf, Grp!Release, Grp!Enter

(* What a step leaves alone keeps its type.                                *)
LEMMA UnchangedTypes ==
    /\ WorldOK /\ UNCHANGED world => WorldOK'
    /\ ControlOK /\ UNCHANGED control => ControlOK'
    /\ PlaceOK /\ UNCHANGED place => PlaceOK'
    /\ EvidenceOK /\ UNCHANGED evidence => EvidenceOK'
    /\ StackOK /\ UNCHANGED stack => StackOK'
<1>1. WorldOK /\ UNCHANGED world => WorldOK'
  BY DEF WorldOK, world
<1>2. ControlOK /\ UNCHANGED control => ControlOK'
  BY DEF ControlOK, control
<1>3. PlaceOK /\ UNCHANGED place => PlaceOK'
  BY DEF PlaceOK, place
<1>4. EvidenceOK /\ UNCHANGED evidence => EvidenceOK'
  BY DEF EvidenceOK, evidence, results
<1>5. StackOK /\ UNCHANGED stack => StackOK'
  BY DEF StackOK, stack
<1> QED BY <1>1, <1>2, <1>3, <1>4, <1>5

(* The ways a job moves on keep the types of the run control.              *)
LEMMA MoveTypes ==
    ASSUME ControlOK, NEW r \in Runs
    PROVE  /\ \A s \in Steps : Goto(r, s) => ControlOK'
           /\ JobSucceeds(r) => ControlOK'
           /\ \A how \in {"failure", "cancelled"} : JobEnds(r, how) => ControlOK'
<1>1. ASSUME NEW s \in Steps, Goto(r, s) PROVE ControlOK'
  BY <1>1 DEF ControlOK, Goto
<1>2. NextJob(r) \in Jobs
  BY DEF NextJob, Jobs
<1>3. ASSUME JobSucceeds(r) PROVE ControlOK'
  <2>1. step' \in [Runs -> Steps]
    BY <1>3 DEF ControlOK, JobSucceeds, Steps
  <2>2. stage' \in [Runs -> Jobs]
    BY <1>2, <1>3 DEF ControlOK, JobSucceeds
  <2> QED BY <1>3, <2>1, <2>2 DEF ControlOK, JobSucceeds
<1>4. ASSUME NEW how \in {"failure", "cancelled"}, JobEnds(r, how)
      PROVE  ControlOK'
  BY <1>4 DEF ControlOK, JobEnds, Steps
<1> QED BY <1>1, <1>3, <1>4

LEMMA LeaveTypes == PlaceOK /\ LeaveGroup => PlaceOK'
BY GroupTypes DEF PlaceOK, LeaveGroup

LEMMA ForgetTypes ==
    ASSUME EvidenceOK, NEW r \in Runs, Forget(r), UNCHANGED results
    PROVE  EvidenceOK'
BY DEF EvidenceOK, Forget, results

(* The initial state has the types.                                        *)
LEMMA InitTypes == Init => TypeOK
<1> SUFFICES ASSUME Init PROVE TypeOK
  OBVIOUS
<1>1. WorldOK
  BY DEF Init, WorldOK, PRStates
<1>2. ControlOK
  BY DEF Init, ControlOK, Jobs, Steps
<1>3. PlaceOK
  BY DEF Init, PlaceOK, Grp!GroupOf, Grp!EmptyGroup
<1>4. EvidenceOK
  BY DEF Init, EvidenceOK
<1>5. StackOK
  BY DEF Init, StackOK
<1> QED BY <1>1, <1>2, <1>3, <1>4, <1>5 DEF TypeOK

LEMMA WorldTypes == TypeOK /\ World => TypeOK'
<1> SUFFICES ASSUME TypeOK, World PROVE TypeOK'
  OBVIOUS
<1> USE DEF TypeOK
<1>1. CASE MainMoves
  BY <1>1, UnchangedTypes DEF MainMoves, Event, WorldOK
<1>2. ASSUME NEW p \in PRs, Push(p) PROVE TypeOK'
  <2>1. prs' \in [PRs -> PRStates]
    BY <1>2 DEF Push, WorldOK, PRStates
  <2>2. WorldOK'
    BY <1>2, <2>1 DEF Push, Event, WorldOK
  <2> QED BY <1>2, <2>2, UnchangedTypes DEF Push
<1>3. ASSUME NEW p \in PRs, Review(p) PROVE TypeOK'
  <2>1. prs' \in [PRs -> PRStates]
    BY <1>3 DEF Review, WorldOK, PRStates
  <2>2. WorldOK'
    BY <1>3, <2>1 DEF Review, Event, WorldOK
  <2> QED BY <1>3, <2>2, UnchangedTypes DEF Review
<1>4. ASSUME NEW p \in PRs, Merge(p) PROVE TypeOK'
  <2>1. prs' \in [PRs -> PRStates]
    BY <1>4 DEF Merge, WorldOK, PRStates
  <2>2. WorldOK'
    BY <1>4, <2>1 DEF Merge, Event, WorldOK
  <2> QED BY <1>4, <2>2, UnchangedTypes DEF Merge
<1> QED BY <1>1, <1>2, <1>3, <1>4 DEF World

LEMMA OthersTypes == TypeOK /\ Others => TypeOK'
<1> SUFFICES ASSUME TypeOK, Others PROVE TypeOK'
  OBVIOUS
<1> USE DEF TypeOK
<1>1. ASSUME NEW v \in Visitors, VisitorArrives(v) PROVE TypeOK'
  <2>1. PlaceOK'
    BY <1>1, GroupTypes DEF VisitorArrives, PlaceOK
  <2>2. ControlOK'
    BY <1>1 DEF VisitorArrives, ControlOK, Steps
  <2> QED BY <1>1, <2>1, <2>2, UnchangedTypes DEF VisitorArrives
<1>2. ASSUME NEW v \in Visitors, VisitorLeaves(v) PROVE TypeOK'
  <2>1. PlaceOK'
    BY <1>2, GroupTypes DEF VisitorLeaves, PlaceOK
  <2> QED BY <1>2, <2>1, UnchangedTypes DEF VisitorLeaves
<1>3. CASE OperatorLocks
  BY <1>3, UnchangedTypes DEF OperatorLocks, StackOK
<1>4. CASE OperatorWrites
  BY <1>4, UnchangedTypes DEF OperatorWrites, StackOK
<1>5. CASE OperatorUnlocks
  BY <1>5, UnchangedTypes DEF OperatorUnlocks, StackOK
<1> QED BY <1>1, <1>2, <1>3, <1>4, <1>5 DEF Others

LEMMA RunStepTypes ==
    ASSUME TypeOK, NEW r \in Runs, RunStep(r) PROVE TypeOK'
<1> USE DEF TypeOK
<1>0. WorldOK'
  BY UnchangedTypes
     DEF RunStep, Preflight, PrepareSource, DiffGate, Enqueue, Recheck, Admit,
         Capture, Prepare, PreviewProgram, Gate, ApplyProgram, BeginUpdate,
         UpdateWrites, UpdateEnds, UpdateAborts, Confirm, Final, Recapture,
         ReviewObservation, ProofPrepare, CreateReceipt, CompleteReceipt,
         ReadBack, DispatchPrepare, DispatchPost, DispatchVerify, JobFails,
         CommentResult
<1>1. CASE Preflight(r)
  BY <1>0, <1>1, UnchangedTypes, MoveTypes DEF Preflight
<1>2. CASE PrepareSource(r)
  BY <1>0, <1>2, UnchangedTypes, MoveTypes DEF PrepareSource
<1>3. CASE DiffGate(r)
  BY <1>0, <1>3, UnchangedTypes, MoveTypes DEF DiffGate
<1>4. CASE Enqueue(r)
  <2>1. PlaceOK'
    BY <1>4, GroupTypes DEF Enqueue, PlaceOK
  <2>2. ControlOK'
    BY <1>4 DEF Enqueue, ControlOK, Steps
  <2> QED BY <1>0, <1>4, <2>1, <2>2, UnchangedTypes DEF Enqueue
<1>5. CASE Recheck(r)
  BY <1>0, <1>5, UnchangedTypes, MoveTypes DEF Recheck, Steps
<1>6. CASE Admit(r)
  BY <1>0, <1>6, UnchangedTypes, MoveTypes DEF Admit, Steps
<1>7. CASE Capture(r)
  <2>1. EvidenceOK'
    BY <1>7 DEF Capture, EvidenceOK, StackOK, results
  <2>2. ControlOK'
    BY <1>7, MoveTypes DEF Capture, Steps
  <2> QED BY <1>0, <1>7, <2>1, <2>2, UnchangedTypes DEF Capture
<1>8. CASE Prepare(r)
  <2>1. EvidenceOK'
    BY <1>8 DEF Prepare, EvidenceOK, StackOK, results
  <2>2. ControlOK'
    BY <1>8, MoveTypes DEF Prepare, Steps
  <2> QED BY <1>0, <1>8, <2>1, <2>2, UnchangedTypes DEF Prepare
<1>9. CASE PreviewProgram(r)
  <2>1. EvidenceOK'
    BY <1>9 DEF PreviewProgram, EvidenceOK, StackOK
  <2>2. ControlOK'
    BY <1>9, MoveTypes DEF PreviewProgram, Steps
  <2> QED BY <1>0, <1>9, <2>1, <2>2, UnchangedTypes DEF PreviewProgram
<1>10. CASE Gate(r)
  <2>1. EvidenceOK'
    BY <1>10 DEF Gate, EvidenceOK
  <2>2. ControlOK'
    BY <1>10, MoveTypes DEF Gate, Steps
  <2> QED BY <1>0, <1>10, <2>1, <2>2, UnchangedTypes DEF Gate
<1>11. CASE ApplyProgram(r)
  BY <1>0, <1>11, UnchangedTypes, MoveTypes DEF ApplyProgram, Steps
<1>12. CASE BeginUpdate(r)
  <2>1. EvidenceOK'
    BY <1>12 DEF BeginUpdate, EvidenceOK, StackOK
  <2>2. StackOK'
    BY <1>12 DEF BeginUpdate, StackOK, ControlOK
  <2> QED BY <1>0, <1>12, <2>1, <2>2, UnchangedTypes DEF BeginUpdate
<1>13. CASE UpdateWrites(r)
  <2>1. StackOK'
    BY <1>13 DEF UpdateWrites, StackOK, Snapshots
  <2> QED BY <1>0, <1>13, <2>1, UnchangedTypes DEF UpdateWrites
<1>14. CASE UpdateEnds(r)
  <2>1. StackOK'
    BY <1>14 DEF UpdateEnds, StackOK
  <2> QED BY <1>0, <1>14, <2>1, UnchangedTypes, MoveTypes DEF UpdateEnds, Steps
<1>15. CASE UpdateAborts(r)
  <2>1. StackOK'
    BY <1>15 DEF UpdateAborts, StackOK
  <2> QED BY <1>0, <1>15, <2>1, MoveTypes, LeaveTypes, ForgetTypes
          DEF UpdateAborts
<1>16. CASE Confirm(r)
  <2>1. EvidenceOK'
    BY <1>16 DEF Confirm, EvidenceOK
  <2> QED BY <1>0, <1>16, <2>1, UnchangedTypes, MoveTypes DEF Confirm, Steps
<1>17. CASE Final(r)
  BY <1>0, <1>17, UnchangedTypes, MoveTypes, LeaveTypes, ForgetTypes DEF Final
<1>18. CASE Recapture(r)
  BY <1>0, <1>18, UnchangedTypes, MoveTypes DEF Recapture, Steps
<1>19. CASE ReviewObservation(r)
  <2>1. EvidenceOK'
    BY <1>19 DEF ReviewObservation, EvidenceOK, Forget
  <2> QED BY <1>0, <1>19, <2>1, UnchangedTypes, MoveTypes, LeaveTypes
          DEF ReviewObservation
<1>20. CASE ProofPrepare(r)
  BY <1>0, <1>20, UnchangedTypes, MoveTypes DEF ProofPrepare, Steps
<1>21. CASE CreateReceipt(r)
  <2>1. EvidenceOK'
    BY <1>21 DEF CreateReceipt, EvidenceOK
  <2> QED BY <1>0, <1>21, <2>1, UnchangedTypes, MoveTypes
          DEF CreateReceipt, Steps
<1>22. CASE CompleteReceipt(r)
  <2>1. EvidenceOK'
    BY <1>22 DEF CompleteReceipt, EvidenceOK
  <2> QED BY <1>0, <1>22, <2>1, UnchangedTypes, MoveTypes
          DEF CompleteReceipt, Steps
<1>23. CASE ReadBack(r)
  BY <1>0, <1>23, UnchangedTypes, MoveTypes DEF ReadBack
<1>24. CASE DispatchPrepare(r)
  BY <1>0, <1>24, UnchangedTypes, MoveTypes DEF DispatchPrepare, Steps
<1>25. CASE DispatchPost(r)
  <2>1. EvidenceOK'
    BY <1>25 DEF DispatchPost, EvidenceOK
  <2> QED BY <1>0, <1>25, <2>1, UnchangedTypes, MoveTypes
          DEF DispatchPost, Steps
<1>26. CASE DispatchVerify(r)
  BY <1>0, <1>26, UnchangedTypes, MoveTypes DEF DispatchVerify
<1>27. CASE JobFails(r)
  <2>1. PlaceOK'
    BY <1>27, LeaveTypes, UnchangedTypes DEF JobFails
  <2> QED BY <1>0, <1>27, <2>1, UnchangedTypes, MoveTypes, ForgetTypes
          DEF JobFails
<1>28. CASE CommentResult(r)
  <2>1. ControlOK'
    BY <1>28 DEF CommentResult, ControlOK
  <2> QED BY <1>0, <1>28, <2>1, UnchangedTypes DEF CommentResult
<1> QED
  BY <1>1, <1>2, <1>3, <1>4, <1>5, <1>6, <1>7, <1>8, <1>9, <1>10, <1>11,
     <1>12, <1>13, <1>14, <1>15, <1>16, <1>17, <1>18, <1>19, <1>20, <1>21,
     <1>22, <1>23, <1>24, <1>25, <1>26, <1>27, <1>28 DEF RunStep

LEMMA StepTypes == TypeOK /\ [Next]_vars => TypeOK'
<1> SUFFICES ASSUME TypeOK, [Next]_vars PROVE TypeOK'
  OBVIOUS
<1> USE DEF TypeOK
<1>1. CASE UNCHANGED vars
  BY <1>1, UnchangedTypes DEF vars
<1>2. ASSUME NEW r \in Runs, Start(r) PROVE TypeOK'
  <2>1. ControlOK'
    BY <1>2, RunsAssumption DEF Start, ControlOK, WorldOK, PRStates
  <2> QED BY <1>2, <2>1, UnchangedTypes DEF Start
<1>3. ASSUME NEW r \in Runs, Rerun(r) PROVE TypeOK'
  <2>1. ControlOK'
    BY <1>3 DEF Rerun, ControlOK, Jobs
  <2> QED BY <1>3, <2>1, UnchangedTypes DEF Rerun
<1>4. ASSUME NEW r \in Runs, CancelWaiting(r) PROVE TypeOK'
  <2>1. PlaceOK'
    BY <1>4 DEF CancelWaiting, PlaceOK, Grp!GroupOf
  <2> QED BY <1>4, <2>1, UnchangedTypes, MoveTypes DEF CancelWaiting
<1> QED BY <1>1, <1>2, <1>3, <1>4, WorldTypes, OthersTypes, RunStepTypes
        DEF Next

(* Every variable keeps its type in every behaviour.                       *)
THEOREM TypeCorrect == Spec => []TypeOK
BY InitTypes, StepTypes, PTL DEF Spec

-----------------------------------------------------------------------------
(* The state group and the Pulumi lock.  A step of a run either happens    *)
(* outside the group, or inside it, or leaves it; the three lemmas say when*)
(* such a step keeps GroupGuardsLock.                                      *)

OnlyMoves(r) ==
    \A q \in Runs \ {r} : /\ status'[q] = status[q] /\ outcome'[q] = outcome[q]
                          /\ stage'[q] = stage[q] /\ step'[q] = step[q]

LEMMA MovesAlone ==
    ASSUME ControlOK, NEW r \in Runs
    PROVE  /\ \A s : Goto(r, s) => OnlyMoves(r) /\ step'[r] = s
                                    /\ stage' = stage /\ Running(r)' = Running(r)
           /\ JobSucceeds(r) => OnlyMoves(r) /\ step'[r] = "idle"
           /\ \A how : JobEnds(r, how) => OnlyMoves(r) /\ step'[r] = "idle"
<1>1. ASSUME NEW s, Goto(r, s)
      PROVE  /\ OnlyMoves(r) /\ step'[r] = s /\ stage' = stage
             /\ Running(r)' = Running(r)
  BY <1>1 DEF ControlOK, Goto, OnlyMoves, Running
<1>2. ASSUME JobSucceeds(r) PROVE OnlyMoves(r) /\ step'[r] = "idle"
  BY <1>2 DEF ControlOK, JobSucceeds, OnlyMoves
<1>3. ASSUME NEW how, JobEnds(r, how) PROVE OnlyMoves(r) /\ step'[r] = "idle"
  BY <1>3 DEF ControlOK, JobEnds, OnlyMoves
<1> QED BY <1>1, <1>2, <1>3

(* A run that is not a member of the group before or after the step.       *)
LEMMA OutsideMove ==
    ASSUME TypeOK, GroupGuardsLock, NEW r \in Runs, OnlyMoves(r),
           r \notin {group.holder, group.pending}, step'[r] \notin InsideSteps,
           UNCHANGED <<group, lock>>
    PROVE  GroupGuardsLock'
<1> USE DEF GroupGuardsLock, OnlyMoves
<1>1. lock # r
  BY DEF InsideHoldsGroup, LockIsTheUpdate, InsideSteps, In
<1>2. InsideHoldsGroup'
  BY DEF InsideHoldsGroup, In, Running
<1>3. MembersRun'
  BY DEF MembersRun, Running
<1>4. HolderIsNotPending'
  BY DEF HolderIsNotPending
<1>5. LockIsTheUpdate'
  BY <1>1 DEF LockIsTheUpdate, InsideSteps
<1> QED BY <1>2, <1>3, <1>4, <1>5

(* The holder goes on with its job.                                        *)
LEMMA InsideMove ==
    ASSUME TypeOK, GroupGuardsLock, NEW r \in Runs, OnlyMoves(r),
           group.holder = r, UNCHANGED group,
           Running(r)', stage'[r] \in GroupJobs, step'[r] # "idle",
           lock' = r => step'[r] = "update",
           step'[r] = "update" => stage'[r] = "apply",
           lock' \in Runs \ {r} => lock' = lock
    PROVE  GroupGuardsLock'
<1> USE DEF GroupGuardsLock, OnlyMoves
<1>1. InsideHoldsGroup'
  BY DEF InsideHoldsGroup, In, Running
<1>2. MembersRun'
  BY DEF MembersRun, Running
<1>3. HolderIsNotPending'
  BY DEF HolderIsNotPending
<1>4. LockIsTheUpdate'
  BY DEF LockIsTheUpdate
<1> QED BY <1>1, <1>2, <1>3, <1>4

(* The holder's job ends and the waiting member takes its place.           *)
LEMMA LeavingMove ==
    ASSUME TypeOK, GroupGuardsLock, NEW r \in Runs, OnlyMoves(r),
           group.holder = r, LeaveGroup, step'[r] = "idle",
           lock' # r, lock' \in Runs \ {r} => lock' = lock
    PROVE  GroupGuardsLock'
<1> USE DEF GroupGuardsLock, OnlyMoves
<1>1. group'.holder = group.pending /\ group'.pending = Nobody
  BY DEF LeaveGroup, Grp!Release
<1>2. group.pending # r
  BY DEF HolderIsNotPending
<1>3. InsideHoldsGroup'
  <2> SUFFICES ASSUME NEW q \in Runs, step'[q] \in InsideSteps
               PROVE  In(q, step[q])'
    BY DEF InsideHoldsGroup
  <2>1. q # r
    BY DEF InsideSteps
  <2>2. step[q] \in InsideSteps
    BY <2>1
  <2>3. group.holder = q
    BY <2>2 DEF InsideHoldsGroup, In
  <2> QED BY <2>1, <2>3
<1>4. MembersRun'
  BY <1>1, <1>2, RunsAssumption DEF MembersRun, Running
<1>5. HolderIsNotPending'
  BY <1>1, RunsAssumption DEF HolderIsNotPending
<1>6. LockIsTheUpdate'
  BY DEF LockIsTheUpdate
<1> QED BY <1>3, <1>4, <1>5, <1>6

(* A newcomer takes its place; the run it pushes out was waiting.          *)
LEMMA EnterMove ==
    ASSUME TypeOK, GroupGuardsLock, NEW m \in Runs \cup Visitors,
           NEW out, out = Grp!Displaced(group),
           group' = Grp!Enter(group, m), UNCHANGED <<lock, status, stage>>,
           m \in Runs => /\ Running(m) /\ step[m] = "idle"
                         /\ stage[m] \in GroupJobs /\ step'[m] = "recheck",
           out \in Runs => outcome' = [outcome EXCEPT ![out] = "cancelled"]
                           /\ step'[out] = "idle",
           out \notin Runs => outcome' = outcome,
           \A q \in Runs : q # m /\ q # out => step'[q] = step[q]
    PROVE  GroupGuardsLock'
<1> USE DEF GroupGuardsLock
<1>1. (m # group.holder /\ m # group.pending) \/ m \in Visitors
  BY DEF MembersRun
<1>2. out # group.holder \/ out \notin Runs
  BY RunsAssumption DEF HolderIsNotPending, Grp!Displaced
<1>3. m # out \/ m \in Visitors
  BY <1>1, RunsAssumption DEF Grp!Displaced
<1>4. \A q \in Runs : q # out => outcome'[q] = outcome[q]
  BY DEF TypeOK, ControlOK
<1>5. /\ group.holder = Nobody =>
            group'.holder = m /\ group'.pending = group.pending
      /\ group.holder # Nobody =>
            group'.holder = group.holder /\ group'.pending = m
  BY DEF Grp!Enter, TypeOK, PlaceOK, Grp!GroupOf
<1>6. group.holder = Nobody => out = Nobody
  BY DEF Grp!Displaced
<1>7. group.holder # Nobody => out = group.pending
  BY DEF Grp!Displaced
<1>8. InsideHoldsGroup'
  <2> SUFFICES ASSUME NEW q \in Runs, step'[q] \in InsideSteps
               PROVE  In(q, step[q])'
    BY DEF InsideHoldsGroup
  <2>1. q # m /\ q # out
    BY DEF InsideSteps
  <2>2. In(q, step[q])
    BY <2>1 DEF InsideHoldsGroup
  <2>3. group.holder = q /\ group.holder # Nobody
    BY <2>2, RunsAssumption DEF In
  <2> QED BY <1>4, <1>5, <2>1, <2>2, <2>3 DEF In, Running
<1>9. MembersRun'
  <2> SUFFICES ASSUME NEW q \in Runs, q \in {group.holder, group.pending}'
               PROVE  (Running(q) /\ stage[q] \in GroupJobs /\ step[q] # "idle")'
    BY DEF MembersRun
  <2>1. CASE q = m
    BY <1>3, <1>4, <2>1, RunsAssumption DEF Running
  <2>2. CASE q # m
    <3>1. q \in {group.holder, group.pending} /\ q # out
      BY <1>2, <1>5, <1>6, <2>2, RunsAssumption, <1>7
    <3> QED BY <1>4, <2>2, <3>1 DEF MembersRun, Running
  <2> QED BY <2>1, <2>2
<1>10. HolderIsNotPending'
  BY <1>1, <1>5, RunsAssumption DEF HolderIsNotPending
<1>11. LockIsTheUpdate'
  <2>1. ASSUME NEW q \in Runs, lock = q PROVE step'[q] = "update"
    <3>1. step[q] = "update"
      BY <2>1 DEF LockIsTheUpdate
    <3>2. group.holder = q
      BY <3>1 DEF InsideHoldsGroup, InsideSteps, In
    <3> QED BY <1>2, <3>1, <3>2
  <2>2. ASSUME NEW q \in Runs, step'[q] = "update" PROVE stage[q] = "apply"
    <3>1. q # m /\ q # out
      BY <2>2
    <3> QED BY <2>2, <3>1 DEF LockIsTheUpdate
  <2> QED BY <2>1, <2>2 DEF LockIsTheUpdate
<1> QED BY <1>8, <1>9, <1>10, <1>11

(* Steps of jobs that run outside the group, or before they enter it.      *)
LEMMA OutsideSteps ==
    ASSUME TypeOK, GroupGuardsLock, NEW r \in Runs,
           \/ Preflight(r) \/ PrepareSource(r) \/ DiffGate(r)
           \/ ProofPrepare(r) \/ CreateReceipt(r) \/ CompleteReceipt(r)
           \/ ReadBack(r) \/ DispatchPrepare(r) \/ DispatchPost(r)
           \/ DispatchVerify(r)
    PROVE  GroupGuardsLock'
<1>1. OnlyMoves(r) /\ step'[r] \notin InsideSteps
  BY MovesAlone
     DEF TypeOK, InsideSteps, Preflight, PrepareSource, DiffGate, ProofPrepare,
         CreateReceipt, CompleteReceipt, ReadBack, DispatchPrepare,
         DispatchPost, DispatchVerify
<1>2. stage[r] \notin GroupJobs
  BY DEF At, GroupJobs, Preflight, PrepareSource, DiffGate, ProofPrepare,
         CreateReceipt, CompleteReceipt, ReadBack, DispatchPrepare,
         DispatchPost, DispatchVerify
<1>3. r \notin {group.holder, group.pending}
  BY <1>2 DEF GroupGuardsLock, MembersRun
<1>4. UNCHANGED <<group, lock>>
  BY DEF place, stack, Preflight, PrepareSource, DiffGate, ProofPrepare,
         CreateReceipt, CompleteReceipt, ReadBack, DispatchPrepare,
         DispatchPost, DispatchVerify
<1> QED BY <1>1, <1>3, <1>4, OutsideMove

(* Steps of a job that holds the group and keeps it.                       *)
LEMMA InsideStepsKeep ==
    ASSUME TypeOK, GroupGuardsLock, NEW r \in Runs,
           \/ Recheck(r) \/ Admit(r) \/ Capture(r) \/ Prepare(r)
           \/ PreviewProgram(r) \/ Gate(r) \/ ApplyProgram(r) \/ Confirm(r)
           \/ Recapture(r)
    PROVE  GroupGuardsLock'
<1>1. group.holder = r /\ Running(r) /\ stage[r] \in GroupJobs
  BY DEF In, Recheck, Admit, Capture, Prepare, PreviewProgram, Gate,
         BeforeProgram, ApplyProgram, Confirm, Recapture
<1>2. step[r] # "update"
  BY DEF In, Recheck, Admit, Capture, Prepare, PreviewProgram, Gate,
         BeforeProgram, ApplyProgram, Confirm, Recapture
<1>3. lock # r /\ UNCHANGED <<group, lock>>
  BY <1>2 DEF GroupGuardsLock, LockIsTheUpdate, place, stack, Recheck, Admit,
              Capture, Prepare, PreviewProgram, Gate, ApplyProgram, Confirm,
              Recapture
<1>4. OnlyMoves(r) /\ step'[r] # "idle" /\ Running(r)' /\ stage'[r] = stage[r]
  BY <1>1, MovesAlone
     DEF TypeOK, Recheck, Admit, Capture, Prepare, PreviewProgram, Gate,
         ApplyProgram, Confirm, Recapture
<1>5. step'[r] = "update" => stage[r] = "apply"
  BY MovesAlone
     DEF TypeOK, Recheck, Admit, Capture, Prepare, PreviewProgram, Gate,
         ApplyProgram, Confirm, Recapture
<1> QED BY <1>1, <1>3, <1>4, <1>5, InsideMove

(* The update: the only steps of a run that touch the lock.                *)
LEMMA UpdateStepsKeep ==
    ASSUME TypeOK, GroupGuardsLock, NEW r \in Runs,
           \/ BeginUpdate(r) \/ UpdateWrites(r) \/ UpdateEnds(r)
    PROVE  GroupGuardsLock'
<1>1. /\ group.holder = r /\ Running(r) /\ stage[r] \in GroupJobs
      /\ step[r] = "update" /\ stage[r] = "apply" /\ UNCHANGED group
  BY DEF In, BeginUpdate, UpdateWrites, UpdateEnds, place, GroupGuardsLock,
         LockIsTheUpdate
<1>2. CASE BeginUpdate(r) \/ UpdateWrites(r)
  <2>1. OnlyMoves(r) /\ step'[r] = step[r] /\ Running(r)' /\ stage'[r] = stage[r]
    BY <1>1, <1>2 DEF BeginUpdate, UpdateWrites, control, OnlyMoves, Running
  <2>2. lock' = r
    BY <1>2 DEF BeginUpdate, UpdateWrites
  <2> QED BY <1>1, <2>1, <2>2, InsideMove
<1>3. CASE UpdateEnds(r)
  <2>1. OnlyMoves(r) /\ step'[r] = "confirm" /\ Running(r)' /\ stage'[r] = stage[r]
    BY <1>1, <1>3, MovesAlone DEF UpdateEnds, TypeOK
  <2>2. lock' \notin Runs
    BY <1>3, RunsAssumption DEF UpdateEnds
  <2> QED BY <1>1, <2>1, <2>2, InsideMove
<1> QED BY <1>2, <1>3

(* Steps that end a job of the group.                                      *)
LEMMA LeavingSteps ==
    ASSUME TypeOK, GroupGuardsLock, NEW r \in Runs,
           Final(r) \/ ReviewObservation(r) \/ UpdateAborts(r)
    PROVE  GroupGuardsLock'
<1>1. group.holder = r /\ LeaveGroup
  BY DEF In, Final, ReviewObservation, UpdateAborts
<1>2. OnlyMoves(r) /\ step'[r] = "idle"
  BY MovesAlone DEF TypeOK, Final, ReviewObservation, UpdateAborts
<1>3. lock' # r /\ (lock' \in Runs \ {r} => lock' = lock)
  <2>1. CASE UpdateAborts(r)
    BY <2>1, RunsAssumption DEF UpdateAborts
  <2>2. CASE Final(r) \/ ReviewObservation(r)
    BY <2>2 DEF Final, ReviewObservation, In, stack, GroupGuardsLock,
                LockIsTheUpdate
  <2> QED BY <2>1, <2>2
<1> QED BY <1>1, <1>2, <1>3, LeavingMove

(* Steps of the world, of visitors and of operators.                       *)
LEMMA OthersKeep ==
    ASSUME TypeOK, GroupGuardsLock, World \/ Others
    PROVE  GroupGuardsLock'
<1> USE DEF GroupGuardsLock
<1>1. CASE World
  BY <1>1 DEF World, MainMoves, Push, Review, Merge, control, place, stack,
              InsideHoldsGroup, MembersRun, HolderIsNotPending,
              LockIsTheUpdate, In, Running
<1>2. ASSUME NEW v \in Visitors, VisitorArrives(v) PROVE GroupGuardsLock'
  <2> DEFINE out == Grp!Displaced(group)
  <2>1. group' = Grp!Enter(group, v) /\ UNCHANGED <<lock, status, stage>>
    BY <1>2 DEF VisitorArrives, stack
  <2>2. v \notin Runs
    BY RunsAssumption
  <2>3. out \in Runs => outcome' = [outcome EXCEPT ![out] = "cancelled"]
                        /\ step'[out] = "idle"
    BY <1>2 DEF VisitorArrives, TypeOK, ControlOK
  <2>4. out \notin Runs => outcome' = outcome
    BY <1>2 DEF VisitorArrives
  <2>5. \A q \in Runs : q # v /\ q # out => step'[q] = step[q]
    BY <1>2 DEF VisitorArrives, TypeOK, ControlOK
  <2> HIDE DEF out
  <2> QED BY <2>1, <2>2, <2>3, <2>4, <2>5, EnterMove DEF out
<1>3. ASSUME NEW v \in Visitors, VisitorLeaves(v) PROVE GroupGuardsLock'
  <2>1. /\ group.holder = v /\ v \notin Runs /\ UNCHANGED <<control, lock>>
        /\ group'.holder = group.pending /\ group'.pending = Nobody
    BY <1>3, RunsAssumption DEF VisitorLeaves, Grp!Release, stack
  <2>2. InsideHoldsGroup'
    BY <2>1 DEF InsideHoldsGroup, In, control
  <2>3. MembersRun'
    BY <2>1, RunsAssumption DEF MembersRun, Running, control
  <2>4. HolderIsNotPending'
    BY <2>1, RunsAssumption DEF HolderIsNotPending
  <2>5. LockIsTheUpdate'
    BY <2>1 DEF LockIsTheUpdate, control
  <2> QED BY <2>2, <2>3, <2>4, <2>5
<1>4. CASE OperatorLocks \/ OperatorWrites \/ OperatorUnlocks
  <2>1. UNCHANGED <<control, group>> /\ lock' \notin Runs
    BY <1>4, RunsAssumption
       DEF OperatorLocks, OperatorWrites, OperatorUnlocks, place
  <2> QED BY <2>1 DEF control, InsideHoldsGroup, MembersRun, In, Running,
                      HolderIsNotPending, LockIsTheUpdate
<1> QED BY <1>1, <1>2, <1>3, <1>4 DEF Others

(* A run starts, queues, fails, is cancelled, reports or is re-run.        *)
LEMMA RunControlKeeps ==
    ASSUME TypeOK, GroupGuardsLock, NEW r \in Runs,
           \/ Start(r) \/ Rerun(r) \/ CancelWaiting(r) \/ Enqueue(r)
           \/ JobFails(r) \/ CommentResult(r)
    PROVE  GroupGuardsLock'
<1>1. CASE Start(r) \/ Rerun(r) \/ CommentResult(r)
  <2>1. ~Running(r)
    BY <1>1 DEF Start, Rerun, CommentResult, Running, TypeOK, ControlOK
  <2>2. r \notin {group.holder, group.pending} /\ step[r] \notin InsideSteps
    BY <2>1 DEF GroupGuardsLock, MembersRun, InsideHoldsGroup, In
  <2>3. OnlyMoves(r) /\ step' = step /\ UNCHANGED <<group, lock>>
    BY <1>1 DEF Start, Rerun, CommentResult, OnlyMoves, TypeOK, ControlOK,
                place, stack
  <2> QED BY <2>2, <2>3, OutsideMove
<1>2. CASE Enqueue(r)
  <2> DEFINE out == Grp!Displaced(group)
  <2>1. /\ group' = Grp!Enter(group, r) /\ UNCHANGED <<lock, status, stage>>
        /\ Running(r) /\ step[r] = "idle" /\ stage[r] \in GroupJobs
    BY <1>2 DEF Enqueue, stack
  <2>2. r # out
    BY <2>1, RunsAssumption DEF GroupGuardsLock, MembersRun, Grp!Displaced
  <2>3. step'[r] = "recheck"
    BY <1>2, <2>2 DEF Enqueue, TypeOK, ControlOK
  <2>4. out \in Runs => outcome' = [outcome EXCEPT ![out] = "cancelled"]
                        /\ step'[out] = "idle"
    BY <1>2, <2>2 DEF Enqueue, TypeOK, ControlOK
  <2>5. out \notin Runs => outcome' = outcome
    BY <1>2 DEF Enqueue
  <2>6. \A q \in Runs : q # r /\ q # out => step'[q] = step[q]
    BY <1>2 DEF Enqueue, TypeOK, ControlOK
  <2> HIDE DEF out
  <2> QED BY <2>1, <2>3, <2>4, <2>5, <2>6, EnterMove DEF out
<1>3. CASE JobFails(r)
  <2>1. OnlyMoves(r) /\ step'[r] = "idle" /\ lock # r /\ UNCHANGED lock
    BY <1>3, MovesAlone DEF JobFails, TypeOK, stack
  <2>2. CASE group.holder = r
    BY <1>3, <2>1, <2>2, LeavingMove DEF JobFails
  <2>3. CASE group.holder # r
    <3>1. group.pending # r
      BY <1>3, <2>3 DEF JobFails, Waiting, GroupGuardsLock, MembersRun
    <3>2. UNCHANGED group
      BY <1>3, <2>3 DEF JobFails, place
    <3> QED BY <2>1, <2>3, <3>1, <3>2, OutsideMove DEF InsideSteps
  <2> QED BY <2>2, <2>3
<1>4. CASE CancelWaiting(r)
  <2>1. OnlyMoves(r) /\ step'[r] = "idle" /\ UNCHANGED lock
    BY <1>4, MovesAlone DEF CancelWaiting, TypeOK, stack
  <2>2. /\ group.holder # r /\ group.pending = r
        /\ group'.holder = group.holder /\ group'.pending = Nobody
    BY <1>4 DEF CancelWaiting, Waiting, TypeOK, PlaceOK, Grp!GroupOf
  <2>3. lock # r
    BY <2>2 DEF GroupGuardsLock, LockIsTheUpdate, InsideHoldsGroup, In,
                InsideSteps
  <2>4. InsideHoldsGroup'
    BY <2>1, <2>2 DEF GroupGuardsLock, InsideHoldsGroup, In, Running,
                      OnlyMoves, InsideSteps
  <2>5. MembersRun'
    BY <2>1, <2>2, RunsAssumption
       DEF GroupGuardsLock, MembersRun, Running, OnlyMoves
  <2>6. HolderIsNotPending'
    BY <2>2, RunsAssumption DEF HolderIsNotPending
  <2>7. LockIsTheUpdate'
    BY <2>1, <2>3 DEF GroupGuardsLock, LockIsTheUpdate, OnlyMoves
  <2> QED BY <2>4, <2>5, <2>6, <2>7 DEF GroupGuardsLock
<1> QED BY <1>1, <1>2, <1>3, <1>4

LEMMA GuardStep == TypeOK /\ GroupGuardsLock /\ [Next]_vars => GroupGuardsLock'
<1> SUFFICES ASSUME TypeOK, GroupGuardsLock, [Next]_vars
             PROVE  GroupGuardsLock'
  OBVIOUS
<1>1. CASE UNCHANGED vars
  BY <1>1 DEF vars, control, place, stack, GroupGuardsLock, InsideHoldsGroup,
              MembersRun, HolderIsNotPending, LockIsTheUpdate, In, Running
<1>2. ASSUME NEW r \in Runs, RunStep(r) PROVE GroupGuardsLock'
  BY <1>2, OutsideSteps, InsideStepsKeep, UpdateStepsKeep, LeavingSteps,
     RunControlKeeps DEF RunStep
<1>3. ASSUME NEW r \in Runs, Start(r) \/ Rerun(r) \/ CancelWaiting(r)
      PROVE  GroupGuardsLock'
  BY <1>3, RunControlKeeps
<1> QED BY <1>1, <1>2, <1>3, OthersKeep DEF Next

(* The state group guards the lock: whatever is displaced, cancelled or    *)
(* fails, a run past its first recheck holds the group.                    *)
THEOREM GroupGuards == Spec => []GroupGuardsLock
<1>1. Init => GroupGuardsLock
  BY RunsAssumption
     DEF Init, GroupGuardsLock, InsideHoldsGroup, MembersRun, InsideSteps,
         HolderIsNotPending, LockIsTheUpdate, Grp!EmptyGroup
<1> QED BY <1>1, TypeCorrect, GuardStep, PTL DEF Spec

-----------------------------------------------------------------------------
(* Plans stay fresh and bases never regress.                               *)

AllActions(r) == RunStep(r) \/ Start(r) \/ Rerun(r) \/ CancelWaiting(r)

(* Few steps touch what the two properties speak of.                       *)
LEMMA StepKinds ==
    ASSUME [Next]_vars
    PROVE  \/ UNCHANGED <<version, ciWrites, started, planned, lastBase>>
           \/ \E r \in Runs : BeginUpdate(r) \/ UpdateWrites(r) \/ Gate(r)
           \/ OperatorWrites
<1>1. CASE UNCHANGED vars
  BY <1>1 DEF vars, evidence, stack
<1>2. CASE World
  BY <1>2 DEF World, MainMoves, Push, Review, Merge, evidence, stack
<1>3. CASE Others
  BY <1>3 DEF Others, VisitorArrives, VisitorLeaves, OperatorLocks,
              OperatorUnlocks, evidence, stack
<1>4. ASSUME NEW r \in Runs, Start(r) \/ Rerun(r) \/ CancelWaiting(r)
      PROVE  UNCHANGED <<version, ciWrites, started, planned, lastBase>>
  BY <1>4 DEF Start, Rerun, CancelWaiting, evidence, stack
<1>5. ASSUME NEW r \in Runs, RunStep(r),
             ~(BeginUpdate(r) \/ UpdateWrites(r) \/ Gate(r))
      PROVE  UNCHANGED <<version, ciWrites, started, planned, lastBase>>
  BY <1>5 DEF RunStep, Preflight, PrepareSource, DiffGate, Enqueue, Recheck,
              Admit, Capture, Prepare, PreviewProgram, ApplyProgram,
              UpdateEnds, UpdateAborts, Confirm, Final, Recapture,
              ReviewObservation, ProofPrepare, CreateReceipt, CompleteReceipt,
              ReadBack, DispatchPrepare, DispatchPost, DispatchVerify,
              JobFails, CommentResult, evidence, results, stack
<1> QED BY <1>1, <1>2, <1>3, <1>4, <1>5 DEF Next

(* The steps that take a run further inside the group.                     *)
GoesInside(r) ==
    \/ Recheck(r) \/ Admit(r) \/ Capture(r) \/ Prepare(r) \/ PreviewProgram(r)
    \/ Gate(r) \/ ApplyProgram(r) \/ UpdateEnds(r) \/ Confirm(r) \/ Recapture(r)

StaysPut(r) == /\ step'[r] = step[r] /\ stage'[r] = stage[r]
               /\ attempt'[r] = attempt[r] /\ base'[r] = base[r]

(* A step of one run moves no other run, except that a queued one may be   *)
(* displaced.                                                              *)
LEMMA OtherRunsStay ==
    ASSUME TypeOK, NEW r \in Runs, NEW q \in Runs \ {r}, AllActions(q)
    PROVE  StaysPut(r) \/ (step'[r] = "idle" /\ stage'[r] = stage[r]
                           /\ attempt'[r] = attempt[r] /\ base'[r] = base[r])
<1> USE DEF TypeOK, ControlOK, StaysPut
<1>1. CASE Enqueue(q)
  BY <1>1 DEF Enqueue
<1>2. CASE Start(q) \/ Rerun(q) \/ CancelWaiting(q) \/ CommentResult(q)
  BY <1>2 DEF Start, Rerun, CancelWaiting, CommentResult, JobEnds
<1>3. CASE \/ Preflight(q) \/ PrepareSource(q) \/ DiffGate(q) \/ Final(q)
           \/ ReviewObservation(q) \/ ReadBack(q) \/ DispatchVerify(q)
           \/ UpdateAborts(q) \/ JobFails(q)
  BY <1>3 DEF Preflight, PrepareSource, DiffGate, Final, ReviewObservation,
              ReadBack, DispatchVerify, UpdateAborts, JobFails, JobSucceeds,
              JobEnds
<1>4. CASE \/ Recheck(q) \/ Admit(q) \/ Capture(q) \/ Prepare(q)
           \/ PreviewProgram(q) \/ Gate(q) \/ ApplyProgram(q)
           \/ UpdateEnds(q) \/ Confirm(q) \/ Recapture(q) \/ ProofPrepare(q)
           \/ CreateReceipt(q) \/ CompleteReceipt(q) \/ DispatchPrepare(q)
           \/ DispatchPost(q)
  BY <1>4 DEF Recheck, Admit, Capture, Prepare, PreviewProgram, Gate,
              ApplyProgram, UpdateEnds, Confirm, Recapture, ProofPrepare,
              CreateReceipt, CompleteReceipt, DispatchPrepare, DispatchPost,
              Goto
<1>5. CASE BeginUpdate(q) \/ UpdateWrites(q)
  BY <1>5 DEF BeginUpdate, UpdateWrites, control
<1> QED BY <1>1, <1>2, <1>3, <1>4, <1>5 DEF AllActions, RunStep

(* A run inside the group after a step was there before it, or has just    *)
(* taken one of the steps that lead further in.                            *)
LEMMA InsideOrigin ==
    ASSUME TypeOK, GroupGuardsLock, [Next]_vars, NEW r \in Runs,
           step'[r] \in InsideSteps
    PROVE  StaysPut(r) \/ GoesInside(r)
<1> USE DEF InsideSteps
<1>1. CASE UNCHANGED control
  BY <1>1 DEF control, StaysPut
<1>2. CASE World
  BY <1>1, <1>2 DEF World, MainMoves, Push, Review, Merge
<1>3. CASE Others
  <2>1. ASSUME NEW v \in Visitors, VisitorArrives(v) PROVE StaysPut(r)
    BY <2>1 DEF VisitorArrives, StaysPut, TypeOK, ControlOK
  <2>2. CASE \E v \in Visitors : VisitorLeaves(v)
    BY <1>1, <2>2 DEF VisitorLeaves
  <2>3. CASE OperatorLocks \/ OperatorWrites \/ OperatorUnlocks
    BY <1>1, <2>3 DEF OperatorLocks, OperatorWrites, OperatorUnlocks
  <2> QED BY <1>3, <2>1, <2>2, <2>3 DEF Others
<1>4. ASSUME NEW q \in Runs \ {r}, AllActions(q) PROVE StaysPut(r)
  BY <1>4, OtherRunsStay
<1>5. CASE AllActions(r) /\ ~GoesInside(r)
  <2>1. CASE BeginUpdate(r) \/ UpdateWrites(r)
    BY <1>1, <2>1 DEF BeginUpdate, UpdateWrites
  <2>2. CASE Start(r) \/ Rerun(r) \/ CommentResult(r)
    <3>1. step' = step /\ ~Running(r)
      BY <2>2 DEF Start, Rerun, CommentResult, Running, TypeOK, ControlOK
    <3> QED BY <3>1 DEF GroupGuardsLock, InsideHoldsGroup, In
  <2>3. CASE Enqueue(r)
    <3>1. Grp!Displaced(group) # r
      BY <2>3, RunsAssumption
         DEF Enqueue, GroupGuardsLock, MembersRun, Grp!Displaced
    <3>2. step'[r] = "recheck"
      BY <2>3, <3>1 DEF Enqueue, TypeOK, ControlOK
    <3> QED BY <3>2
  <2>4. CASE \/ Preflight(r) \/ PrepareSource(r) \/ DiffGate(r) \/ Final(r)
             \/ ReviewObservation(r) \/ ReadBack(r) \/ DispatchVerify(r)
             \/ UpdateAborts(r) \/ JobFails(r) \/ CancelWaiting(r)
    <3>1. step'[r] = "idle"
      BY <2>4, MovesAlone
         DEF TypeOK, Preflight, PrepareSource, DiffGate, Final,
             ReviewObservation, ReadBack, DispatchVerify, UpdateAborts,
             JobFails, CancelWaiting
    <3> QED BY <3>1
  <2>5. CASE \/ ProofPrepare(r) \/ CreateReceipt(r) \/ CompleteReceipt(r)
             \/ DispatchPrepare(r) \/ DispatchPost(r)
    <3>1. step'[r] \in {"publish", "status", "readback", "post", "native"}
      BY <2>5, MovesAlone
         DEF TypeOK, ProofPrepare, CreateReceipt, CompleteReceipt,
             DispatchPrepare, DispatchPost
    <3> QED BY <3>1
  <2> QED BY <1>5, <2>1, <2>2, <2>3, <2>4, <2>5
          DEF AllActions, RunStep, GoesInside
<1>6. CASE UNCHANGED vars
  BY <1>1, <1>6 DEF vars
<1> QED BY <1>2, <1>3, <1>4, <1>5, <1>6 DEF Next, AllActions

LEMMA HistoryStep ==
    ASSUME TypeOK, HistoryIsPast, [Next]_vars PROVE HistoryIsPast'
<1> USE DEF TypeOK, StackOK, EvidenceOK, HistoryIsPast
<1>1. CASE UNCHANGED <<version, ciWrites, started, planned, lastBase>>
  BY <1>1
<1>2. ASSUME NEW r \in Runs, BeginUpdate(r) PROVE HistoryIsPast'
  BY <1>2 DEF BeginUpdate
<1>3. ASSUME NEW r \in Runs, UpdateWrites(r) PROVE HistoryIsPast'
  BY <1>3 DEF UpdateWrites, evidence, results
<1>4. ASSUME NEW r \in Runs, Gate(r) PROVE HistoryIsPast'
  BY <1>4 DEF Gate, stack
<1>5. CASE OperatorWrites
  BY <1>5 DEF OperatorWrites, evidence, results
<1> QED BY <1>1, <1>2, <1>3, <1>4, <1>5, StepKinds

(* A first attempt that is before its apply job was there before.          *)
Early == {"preflight", "source", "preview", "diffgate"}

LEMMA EarlyOrigin ==
    ASSUME TypeOK, [Next]_vars, NEW r \in Runs, attempt'[r] = 1,
           stage'[r] \in Early
    PROVE  attempt[r] = 1 /\ stage[r] \in Early
<1> USE DEF TypeOK, ControlOK, Early
<1>1. CASE UNCHANGED <<attempt, stage>>
  BY <1>1
<1>2. ASSUME NEW q \in Runs, Rerun(q) PROVE attempt[r] = 1 /\ stage[r] \in Early
  BY <1>2 DEF Rerun
<1>3. ASSUME NEW q \in Runs, JobSucceeds(q)
      PROVE  attempt[r] = 1 /\ stage[r] \in Early
  <2>1. NextJob(q) \in Early => stage[q] \in Early
    BY DEF NextJob, Jobs
  <2> QED BY <1>3, <2>1 DEF JobSucceeds
<1>4. ASSUME NEW q \in Runs, RunStep(q), ~JobSucceeds(q)
      PROVE  UNCHANGED <<attempt, stage>>
  BY <1>4 DEF RunStep, Preflight, PrepareSource, DiffGate, Enqueue, Recheck,
              Admit, Capture, Prepare, PreviewProgram, Gate, ApplyProgram,
              BeginUpdate, UpdateWrites, UpdateEnds, UpdateAborts, Confirm,
              Final, Recapture, ReviewObservation, ProofPrepare,
              CreateReceipt, CompleteReceipt, ReadBack, DispatchPrepare,
              DispatchPost, DispatchVerify, JobFails, CommentResult, Goto,
              JobEnds, control
<1>5. ASSUME NEW q \in Runs, Start(q) \/ CancelWaiting(q)
      PROVE  UNCHANGED <<attempt, stage>>
  BY <1>5 DEF Start, CancelWaiting, JobEnds
<1>6. CASE World \/ Others
  BY <1>1, <1>6 DEF World, MainMoves, Push, Review, Merge, Others,
                    VisitorArrives, VisitorLeaves, OperatorLocks,
                    OperatorWrites, OperatorUnlocks, control
<1>7. CASE UNCHANGED vars
  BY <1>1, <1>7 DEF vars, control
<1> QED BY <1>1, <1>2, <1>3, <1>4, <1>5, <1>6, <1>7 DEF Next

LEMMA FirstTryStep ==
    ASSUME TypeOK, GroupGuardsLock, FirstTryOnly, [Next]_vars
    PROVE  FirstTryOnly'
<1>1. ASSUME NEW r \in Runs, step'[r] \in InsideSteps \ {"admit"}
      PROVE  attempt'[r] = 1
  <2>1. CASE StaysPut(r)
    BY <1>1, <2>1 DEF FirstTryOnly, StaysPut
  <2>2. CASE Recheck(r)
    BY <1>1, <2>2, MovesAlone DEF Recheck, TypeOK
  <2>3. CASE Admit(r)
    BY <2>3 DEF Admit, FirstAttempt, Goto
  <2>4. CASE GoesInside(r) /\ ~Recheck(r) /\ ~Admit(r)
    <3>1. step[r] \in InsideSteps \ {"admit"} /\ attempt' = attempt
      BY <2>4 DEF GoesInside, In, Capture, Prepare, PreviewProgram,
                  BeforeProgram, Gate, ApplyProgram, UpdateEnds, Confirm,
                  Recapture, Goto, InsideSteps
    <3> QED BY <3>1 DEF FirstTryOnly
  <2> QED BY <1>1, <2>1, <2>2, <2>3, <2>4, InsideOrigin
<1>2. ASSUME NEW r \in Runs, attempt'[r] = 1, stage'[r] \in Early
      PROVE  started'[r] = 0
  <2>1. attempt[r] = 1 /\ stage[r] \in Early
    BY <1>2, EarlyOrigin
  <2>2. started[r] = 0
    BY <2>1 DEF FirstTryOnly, Early
  <2>3. CASE UNCHANGED <<version, ciWrites, started, planned, lastBase>>
    BY <2>2, <2>3
  <2>4. ASSUME NEW q \in Runs, BeginUpdate(q) PROVE started'[r] = 0
    <3>1. stage[q] = "apply"
      BY <2>4 DEF BeginUpdate, In, GroupGuardsLock, LockIsTheUpdate
    <3>2. q # r
      BY <2>1, <3>1 DEF Early
    <3> QED BY <2>2, <2>4, <3>2 DEF BeginUpdate, TypeOK, EvidenceOK
  <2>5. ASSUME NEW q \in Runs, UpdateWrites(q) \/ Gate(q) \/ OperatorWrites
        PROVE  started'[r] = 0
    BY <2>2, <2>5 DEF UpdateWrites, Gate, OperatorWrites, evidence, results
  <2>6. CASE OperatorWrites
    BY <2>5, <2>6
  <2> QED BY <2>3, <2>4, <2>5, <2>6, StepKinds
<1> QED BY <1>1, <1>2 DEF FirstTryOnly, Early

LEMMA FreshStep ==
    ASSUME TypeOK, GroupGuardsLock, PlanStaysFresh, HistoryIsPast, [Next]_vars
    PROVE  PlanStaysFresh'
<1> DEFINE Late == {"gate", "program", "update"}
           Fresh(r) == planned[r] # 0
                       /\ (planned[r] + 1) .. version \cap ciWrites = {}
<1> SUFFICES ASSUME NEW r \in Runs, stage'[r] = "apply", step'[r] \in Late,
                    lock' # r
             PROVE  Fresh(r)'
  BY DEF PlanStaysFresh
<1> USE DEF TypeOK, StackOK, EvidenceOK
<1>1. CASE Prepare(r)
  <2>1. stage[r] = "apply"
    BY <1>1 DEF Prepare, Goto
  <2>2. planned[r] = version /\ UNCHANGED <<planned, version, ciWrites>>
    BY <1>1, <2>1 DEF Prepare, results, stack
  <2> QED BY <2>2
<1>2. CASE ~Prepare(r)
  <2>1. stage[r] = "apply" /\ step[r] \in Late
    <3>1. CASE StaysPut(r)
      BY <3>1 DEF StaysPut
    <3>2. CASE GoesInside(r)
      <4>1. stage[r] = "apply"
        BY <3>2, MovesAlone
           DEF GoesInside, Recheck, Admit, Capture, Prepare, PreviewProgram,
               Gate, ApplyProgram, UpdateEnds, Confirm, Recapture
      <4>2. CASE Gate(r) \/ ApplyProgram(r)
        BY <4>1, <4>2 DEF Gate, ApplyProgram, BeforeProgram, In
      <4>3. CASE PreviewProgram(r)
        BY <4>1, <4>3 DEF PreviewProgram
      <4>4. CASE \/ Recheck(r) \/ Admit(r) \/ Capture(r) \/ UpdateEnds(r)
                 \/ Confirm(r) \/ Recapture(r)
        <5>1. step'[r] \notin Late
          BY <4>4, MovesAlone
             DEF Recheck, Admit, Capture, UpdateEnds, Confirm, Recapture
        <5> QED BY <5>1
      <4> QED BY <1>2, <3>2, <4>2, <4>3, <4>4 DEF GoesInside
    <3> QED BY <3>1, <3>2, InsideOrigin DEF InsideSteps
  <2>2. group.holder = r
    BY <2>1 DEF GroupGuardsLock, InsideHoldsGroup, In, InsideSteps
  <2>3. CASE lock = r
    (* Only its own end or failure takes the lock from an update.          *)
    <3>1. step[r] = "update" /\ lock' # lock
      BY <2>3 DEF GroupGuardsLock, LockIsTheUpdate
    <3>2. UpdateEnds(r) \/ UpdateAborts(r)
      <4>1. \A q \in Runs \ {r} : ~In(q, "update")
        BY <2>2 DEF In
      <4>2. lock # NoOne /\ lock # Operator /\ lock # Orphan
        BY <2>3, RunsAssumption
      <4>3. CASE World \/ Others \/ UNCHANGED vars
        BY <2>3, <3>1, <4>2, <4>3
           DEF vars, stack, World, MainMoves, Push, Review, Merge, Others,
               VisitorArrives, VisitorLeaves, OperatorLocks, OperatorWrites,
               OperatorUnlocks
      <4>4. ASSUME NEW q \in Runs, Start(q) \/ Rerun(q) \/ CancelWaiting(q)
            PROVE  FALSE
        BY <3>1, <4>4 DEF stack, Start, Rerun, CancelWaiting
      <4>5. ASSUME NEW q \in Runs, RunStep(q), ~UpdateEnds(q), ~UpdateAborts(q)
            PROVE  FALSE
        <5>1. CASE BeginUpdate(q)
          BY <2>3, <4>2, <5>1 DEF BeginUpdate
        <5> QED BY <3>1, <4>5, <5>1
                DEF stack, RunStep, Preflight, PrepareSource, DiffGate, Enqueue,
                    Recheck, Admit, Capture, Prepare, PreviewProgram, Gate,
                    ApplyProgram, UpdateWrites, Confirm, Final, Recapture,
                    ReviewObservation, ProofPrepare, CreateReceipt,
                    CompleteReceipt, ReadBack, DispatchPrepare, DispatchPost,
                    DispatchVerify, JobFails, CommentResult
      <4>6. ASSUME NEW q \in Runs, UpdateEnds(q) \/ UpdateAborts(q)
            PROVE  UpdateEnds(r) \/ UpdateAborts(r)
        <5>1. In(q, "update")
          BY <4>6 DEF UpdateEnds, UpdateAborts
        <5> QED BY <4>1, <4>6, <5>1
      <4> QED BY <4>3, <4>4, <4>5, <4>6 DEF Next
    <3>3. step'[r] \notin Late
      BY <3>2, MovesAlone DEF UpdateEnds, UpdateAborts
    <3> QED BY <3>3
  <2>4. CASE lock # r
    <3>1. Fresh(r)
      BY <2>1, <2>4 DEF PlanStaysFresh
    <3>2. CASE UNCHANGED <<version, ciWrites, started, planned, lastBase>>
      BY <3>1, <3>2
    <3>3. ASSUME NEW q \in Runs, BeginUpdate(q) PROVE Fresh(r)'
      BY <3>1, <3>3 DEF BeginUpdate
    <3>4. ASSUME NEW q \in Runs, UpdateWrites(q) PROVE Fresh(r)'
      <4>1. q = r
        BY <2>2, <3>4 DEF UpdateWrites, In
      <4> QED BY <2>4, <3>4, <4>1 DEF UpdateWrites
    <3>5. ASSUME NEW q \in Runs, Gate(q) PROVE Fresh(r)'
      <4>1. q = r
        BY <2>2, <3>5 DEF Gate, In
      <4>2. UNCHANGED <<version, ciWrites, planned>>
        BY <2>1, <3>5, <4>1 DEF Gate, stack
      <4> QED BY <3>1, <4>2
    <3>6. CASE OperatorWrites
      <4>1. version' = version + 1 /\ UNCHANGED <<ciWrites, planned>>
        BY <3>6 DEF OperatorWrites, evidence, results
      <4> QED BY <3>1, <4>1 DEF HistoryIsPast
    <3> QED BY <3>2, <3>3, <3>4, <3>5, <3>6, StepKinds
  <2> QED BY <2>3, <2>4
<1> QED BY <1>1, <1>2

LEMMA FollowsStep ==
    ASSUME TypeOK, GroupGuardsLock, PlanInv, [Next]_vars
    PROVE  UpdateFollowsItsPlan'
<1> USE DEF TypeOK, StackOK, EvidenceOK, PlanInv
<1> SUFFICES ASSUME NEW r \in Runs, started'[r] # 0
             PROVE  (/\ planned[r] # 0
                     /\ (planned[r] + 1) .. started[r] \cap ciWrites = {})'
  BY DEF UpdateFollowsItsPlan
<1>1. CASE UNCHANGED <<version, ciWrites, started, planned, lastBase>>
  BY <1>1 DEF UpdateFollowsItsPlan
<1>2. CASE BeginUpdate(r)
  <2>1. stage[r] = "apply" /\ step[r] = "update" /\ lock # r
    BY <1>2, RunsAssumption DEF BeginUpdate, In, GroupGuardsLock, LockIsTheUpdate
  <2>2. started'[r] = version /\ UNCHANGED <<ciWrites, planned>>
    BY <1>2 DEF BeginUpdate
  <2> QED BY <2>1, <2>2 DEF PlanStaysFresh
<1>3. ASSUME NEW q \in Runs \ {r}, BeginUpdate(q)
      PROVE  UNCHANGED <<started[r], planned, ciWrites>>
  BY <1>3 DEF BeginUpdate
<1>4. ASSUME NEW q \in Runs, UpdateWrites(q)
      PROVE  /\ UNCHANGED <<started, planned>>
             /\ ciWrites' = ciWrites \cup {version + 1}
  BY <1>4 DEF UpdateWrites, evidence, results
<1>5. CASE Gate(r)
  <2>1. step[r] = "gate" /\ UNCHANGED <<started, ciWrites>>
    BY <1>5 DEF Gate, In, stack
  <2>2. stage[r] # "preview"
    BY <2>1 DEF FirstTryOnly, InsideSteps
  <2>3. UNCHANGED planned
    BY <1>5, <2>2 DEF Gate
  <2> QED BY <2>1, <2>3 DEF UpdateFollowsItsPlan
<1>6. ASSUME NEW q \in Runs \ {r}, Gate(q)
      PROVE  UNCHANGED <<started, planned[r], ciWrites>>
  BY <1>6 DEF Gate, stack
<1>7. CASE OperatorWrites
  BY <1>7 DEF OperatorWrites, evidence, results, UpdateFollowsItsPlan
<1>8. CASE \E q \in Runs : UpdateWrites(q)
  BY <1>4, <1>8 DEF UpdateFollowsItsPlan, HistoryIsPast
<1> QED BY <1>1, <1>2, <1>3, <1>5, <1>6, <1>7, <1>8, StepKinds
        DEF UpdateFollowsItsPlan

(* An update begins on a checkpoint no run has written since its plan.     *)
THEOREM PlansAreFollowed == Spec => []UpdateFollowsItsPlan
<1>1. Init => PlanInv
  BY RunsAssumption
     DEF Init, PlanInv, PlanStaysFresh, HistoryIsPast, FirstTryOnly,
         UpdateFollowsItsPlan, InsideSteps
<1>2. TypeOK /\ GroupGuardsLock /\ PlanInv /\ [Next]_vars => PlanInv'
  BY HistoryStep, FirstTryStep, FreshStep, FollowsStep DEF PlanInv
<1>3. PlanInv => UpdateFollowsItsPlan
  BY DEF PlanInv
<1> QED BY <1>1, <1>2, <1>3, TypeCorrect, GroupGuards, PTL DEF Spec

(* main and the bases of runs only grow, and only a start sets a base.     *)
LEMMA MainGrows ==
    ASSUME TypeOK, [Next]_vars
    PROVE  /\ main' >= main
           /\ \A r \in Runs : base'[r] = base[r] \/ base'[r] = main
<1> USE DEF TypeOK, WorldOK, ControlOK
<1>1. main' >= main
  <2>1. CASE World
    BY <2>1 DEF World, MainMoves, Push, Review, Merge
  <2>2. CASE Others
    BY <2>2 DEF Others, VisitorArrives, VisitorLeaves, OperatorLocks,
                OperatorWrites, OperatorUnlocks, world
  <2>3. CASE UNCHANGED vars
    BY <2>3 DEF vars, world
  <2>4. ASSUME NEW q \in Runs, Start(q) \/ Rerun(q) \/ CancelWaiting(q)
        PROVE  main' = main
    BY <2>4 DEF Start, Rerun, CancelWaiting, world
  <2>5. ASSUME NEW q \in Runs, RunStep(q) PROVE main' = main
    BY <2>5
       DEF RunStep, Preflight, PrepareSource, DiffGate, Enqueue, Recheck,
           Admit, Capture, Prepare, PreviewProgram, Gate, ApplyProgram,
           BeginUpdate, UpdateWrites, UpdateEnds, UpdateAborts, Confirm,
           Final, Recapture, ReviewObservation, ProofPrepare, CreateReceipt,
           CompleteReceipt, ReadBack, DispatchPrepare, DispatchPost,
           DispatchVerify, JobFails, CommentResult, world
  <2> QED BY <2>1, <2>2, <2>3, <2>4, <2>5 DEF Next
<1>2. ASSUME NEW q \in Runs, Start(q)
      PROVE  \A r \in Runs : base'[r] = base[r] \/ base'[r] = main
  BY <1>2 DEF Start
<1>3. ASSUME ~\E q \in Runs : Start(q) PROVE base' = base
  <2>1. CASE World \/ Others
    BY <2>1 DEF World, MainMoves, Push, Review, Merge, Others,
                VisitorArrives, VisitorLeaves, OperatorLocks,
                OperatorWrites, OperatorUnlocks, control
  <2>2. CASE UNCHANGED vars
    BY <2>2 DEF vars, control
  <2>3. ASSUME NEW q \in Runs, Rerun(q) \/ CancelWaiting(q) PROVE base' = base
    BY <2>3 DEF Rerun, CancelWaiting, JobEnds
  <2>4. ASSUME NEW q \in Runs, RunStep(q) PROVE base' = base
    BY <2>4
       DEF RunStep, Preflight, PrepareSource, DiffGate, Enqueue, Recheck,
           Admit, Capture, Prepare, PreviewProgram, Gate, ApplyProgram,
           BeginUpdate, UpdateWrites, UpdateEnds, UpdateAborts, Confirm,
           Final, Recapture, ReviewObservation, ProofPrepare, CreateReceipt,
           CompleteReceipt, ReadBack, DispatchPrepare, DispatchPost,
           DispatchVerify, JobFails, CommentResult, control, Goto,
           JobSucceeds, JobEnds
  <2> QED BY <1>3, <2>1, <2>2, <2>3, <2>4 DEF Next
<1> QED BY <1>1, <1>2, <1>3

LEMMA BaseStep ==
    ASSUME TypeOK, GroupGuardsLock, BaseInv, [Next]_vars
    PROVE  BaseInv' /\ lastBase' >= lastBase
<1> USE DEF TypeOK, WorldOK, ControlOK, StackOK, BaseInv
<1>1. lastBase' = lastBase \/ \E q \in Runs : BeginUpdate(q)
  <2>1. ASSUME NEW q \in Runs, UpdateWrites(q) \/ Gate(q)
        PROVE  lastBase' = lastBase
    BY <2>1 DEF UpdateWrites, Gate, stack
  <2>2. OperatorWrites => lastBase' = lastBase
    BY DEF OperatorWrites
  <2> QED BY <2>1, <2>2, StepKinds
<1>2. ASSUME NEW q \in Runs, BeginUpdate(q)
      PROVE  /\ lastBase' = base[q] /\ lastBase <= base[q]
             /\ group.holder = q /\ base' = base /\ step' = step
             /\ main' = main
  BY <1>2 DEF BeginUpdate, In, InsideSteps, control, world
<1>3. \A r \in Runs : base'[r] <= main'
  <2>1. main' \in Nat /\ base' \in [Runs -> Nat]
    BY StepTypes
  <2> QED BY <2>1, MainGrows
<1>4. lastBase' <= main' /\ lastBase' >= lastBase
  <2>1. CASE lastBase' = lastBase
    <3>1. main' \in Nat
      BY StepTypes
    <3> QED BY <2>1, <3>1, MainGrows
  <2>2. CASE lastBase' # lastBase
    BY <1>1, <1>2, <2>2
  <2> QED BY <2>1, <2>2
<1>5. ASSUME NEW r \in Runs, step'[r] \in InsideSteps PROVE lastBase' <= base'[r]
  <2>1. CASE \E q \in Runs : BeginUpdate(q)
    <3>1. PICK q \in Runs : BeginUpdate(q)
      BY <2>1
    <3>2. step[r] \in InsideSteps
      BY <1>2, <1>5, <3>1
    <3>3. r = q
      BY <1>2, <3>1, <3>2 DEF GroupGuardsLock, InsideHoldsGroup, In
    <3> QED BY <1>2, <3>1, <3>3
  <2>2. CASE lastBase' = lastBase
    <3>1. CASE StaysPut(r)
      BY <1>5, <2>2, <3>1 DEF StaysPut
    <3>2. CASE Recheck(r)
      BY <2>2, <3>2 DEF Recheck, Admitted, Goto
    <3>3. CASE GoesInside(r) /\ ~Recheck(r)
      <4>1. step[r] \in InsideSteps /\ base' = base
        BY <3>3 DEF GoesInside, In, Admit, Capture, Prepare, PreviewProgram,
                    BeforeProgram, Gate, ApplyProgram, UpdateEnds, Confirm,
                    Recapture, Goto, InsideSteps
      <4> QED BY <2>2, <4>1
    <3> QED BY <1>5, <3>1, <3>2, <3>3, InsideOrigin
  <2> QED BY <1>1, <2>1, <2>2
<1> QED BY <1>3, <1>4, <1>5

(* Updates begin in the order of the main revisions they are pinned to.    *)
THEOREM BasesAreOrdered == Spec => BasesNeverRegress
<1>1. Init => BaseInv
  BY DEF Init, BaseInv, InsideSteps
<1>2. TypeOK /\ GroupGuardsLock /\ BaseInv /\ [Next]_vars => BaseInv'
  BY BaseStep
<1>3. TypeOK /\ GroupGuardsLock /\ BaseInv /\ [Next]_vars
        => [lastBase' >= lastBase]_vars
  BY BaseStep
<1> QED BY <1>1, <1>2, <1>3, TypeCorrect, GroupGuards, PTL
        DEF Spec, BasesNeverRegress

-----------------------------------------------------------------------------
(* The evidence, and the promise.                                          *)

SameEvidence(r) ==
    /\ initial'[r] = initial[r] /\ prepared'[r] = prepared[r]
    /\ computed'[r] = computed[r] /\ planned'[r] = planned[r]
    /\ started'[r] = started[r] /\ updated'[r] = updated[r]
    /\ observed'[r] = observed[r] /\ receipt'[r] = receipt[r]
    /\ dispatched'[r] = dispatched[r]

(* At most, a step of somebody else displaces a run that waits.            *)
Displaceable(r) ==
    /\ stage'[r] = stage[r] /\ attempt'[r] = attempt[r]
    /\ \/ step'[r] = step[r] /\ outcome'[r] = outcome[r]
       \/ /\ step'[r] = "idle" /\ outcome'[r] # "none"
          /\ step[r] \notin InsideSteps

(* The step is not the run's own, or may as well be another run's.         *)
Elsewhere(r) == ~AllActions(r) \/ \E q \in Runs \ {r} : AllActions(q)

(* A run that a newcomer pushes out of the group was not past its recheck. *)
LEMMA DisplacedOutside ==
    ASSUME TypeOK, GroupGuardsLock, NEW r \in Runs, r = Grp!Displaced(group)
    PROVE  step[r] \notin InsideSteps
BY RunsAssumption
   DEF GroupGuardsLock, InsideHoldsGroup, HolderIsNotPending, In, Grp!Displaced

LEMMA OthersDisplace ==
    ASSUME TypeOK, GroupGuardsLock, [Next]_vars, NEW r \in Runs, Elsewhere(r)
    PROVE  Displaceable(r)
<1> USE DEF TypeOK, ControlOK, Displaceable
<1>1. CASE UNCHANGED control
  BY <1>1 DEF control
<1>2. ASSUME NEW v \in Visitors, VisitorArrives(v) PROVE Displaceable(r)
  BY <1>2, DisplacedOutside DEF VisitorArrives
<1>3. CASE World \/ Others
  BY <1>1, <1>2, <1>3
     DEF World, MainMoves, Push, Review, Merge, Others, VisitorLeaves,
         OperatorLocks, OperatorWrites, OperatorUnlocks
<1>4. ASSUME NEW q \in Runs \ {r}, Enqueue(q) PROVE Displaceable(r)
  BY <1>4, DisplacedOutside DEF Enqueue
<1>5. ASSUME NEW q \in Runs \ {r},
             Start(q) \/ Rerun(q) \/ CancelWaiting(q) \/ CommentResult(q)
      PROVE  Displaceable(r)
  BY <1>5 DEF Start, Rerun, CancelWaiting, CommentResult, JobEnds
<1>6. ASSUME NEW q \in Runs \ {r},
             \/ Preflight(q) \/ PrepareSource(q) \/ DiffGate(q) \/ Final(q)
             \/ ReviewObservation(q) \/ ReadBack(q) \/ DispatchVerify(q)
             \/ UpdateAborts(q) \/ JobFails(q)
      PROVE  Displaceable(r)
  BY <1>6 DEF Preflight, PrepareSource, DiffGate, Final, ReviewObservation,
              ReadBack, DispatchVerify, UpdateAborts, JobFails, JobSucceeds,
              JobEnds
<1>7. ASSUME NEW q \in Runs \ {r},
             \/ Recheck(q) \/ Admit(q) \/ Capture(q) \/ Prepare(q)
             \/ PreviewProgram(q) \/ Gate(q) \/ ApplyProgram(q)
             \/ UpdateEnds(q) \/ Confirm(q) \/ Recapture(q) \/ ProofPrepare(q)
             \/ CreateReceipt(q) \/ CompleteReceipt(q) \/ DispatchPrepare(q)
             \/ DispatchPost(q) \/ BeginUpdate(q) \/ UpdateWrites(q)
      PROVE  Displaceable(r)
  BY <1>7 DEF Recheck, Admit, Capture, Prepare, PreviewProgram, Gate,
              ApplyProgram, UpdateEnds, Confirm, Recapture, ProofPrepare,
              CreateReceipt, CompleteReceipt, DispatchPrepare, DispatchPost,
              BeginUpdate, UpdateWrites, Goto, control
<1>8. ASSUME NEW q \in Runs \ {r}, AllActions(q) PROVE Displaceable(r)
  BY <1>4, <1>5, <1>6, <1>7, <1>8 DEF AllActions, RunStep
<1>9. CASE UNCHANGED vars
  BY <1>1, <1>9 DEF vars
<1> QED BY <1>3, <1>8, <1>9 DEF Next, AllActions, Elsewhere

(* Nobody but the run itself touches its evidence or its hold on the lock. *)
LEMMA OthersLeave ==
    ASSUME TypeOK, [Next]_vars, NEW r \in Runs, Elsewhere(r)
    PROVE  SameEvidence(r) /\ (lock' = r <=> lock = r)
<1> USE DEF TypeOK, EvidenceOK, SameEvidence
<1>1. CASE UNCHANGED evidence /\ UNCHANGED lock
  BY <1>1 DEF evidence, results
<1>2. CASE World \/ Others
  <2>1. UNCHANGED evidence
    BY <1>2 DEF World, MainMoves, Push, Review, Merge, Others,
                VisitorArrives, VisitorLeaves, OperatorLocks, OperatorWrites,
                OperatorUnlocks
  <2>2. lock' = r <=> lock = r
    BY <1>2, RunsAssumption
       DEF World, MainMoves, Push, Review, Merge, Others, VisitorArrives,
           VisitorLeaves, OperatorLocks, OperatorWrites, OperatorUnlocks,
           stack
  <2> QED BY <2>1, <2>2 DEF evidence, results
<1>3. ASSUME NEW q \in Runs \ {r},
             \/ Start(q) \/ Rerun(q) \/ CancelWaiting(q) \/ CommentResult(q)
             \/ Preflight(q) \/ PrepareSource(q) \/ DiffGate(q) \/ Enqueue(q)
             \/ ReadBack(q) \/ DispatchVerify(q) \/ Recheck(q) \/ Admit(q)
             \/ ApplyProgram(q) \/ Recapture(q) \/ ProofPrepare(q)
             \/ DispatchPrepare(q)
      PROVE  UNCHANGED evidence /\ UNCHANGED lock
  BY <1>3 DEF Start, Rerun, CancelWaiting, CommentResult, Preflight,
              PrepareSource, DiffGate, Enqueue, ReadBack, DispatchVerify,
              Recheck, Admit, ApplyProgram, Recapture, ProofPrepare,
              DispatchPrepare, stack
<1>4. ASSUME NEW q \in Runs \ {r},
             \/ Final(q) \/ ReviewObservation(q) \/ JobFails(q) \/ Capture(q)
             \/ Prepare(q) \/ PreviewProgram(q) \/ Gate(q) \/ Confirm(q)
             \/ CreateReceipt(q) \/ CompleteReceipt(q) \/ DispatchPost(q)
      PROVE  SameEvidence(r) /\ UNCHANGED lock
  BY <1>4 DEF Final, ReviewObservation, JobFails, Capture, Prepare,
              PreviewProgram, Gate, Confirm, CreateReceipt, CompleteReceipt,
              DispatchPost, Forget, results, stack
<1>5. ASSUME NEW q \in Runs \ {r},
             \/ BeginUpdate(q) \/ UpdateWrites(q) \/ UpdateEnds(q)
             \/ UpdateAborts(q)
      PROVE  SameEvidence(r) /\ (lock' = r <=> lock = r)
  BY <1>5, RunsAssumption
     DEF BeginUpdate, UpdateWrites, UpdateEnds, UpdateAborts, Forget,
         evidence, results
<1>6. ASSUME NEW q \in Runs \ {r}, AllActions(q)
      PROVE  SameEvidence(r) /\ (lock' = r <=> lock = r)
  BY <1>1, <1>3, <1>4, <1>5, <1>6 DEF AllActions, RunStep
<1>7. CASE UNCHANGED vars
  BY <1>1, <1>7 DEF vars, stack
<1> QED BY <1>2, <1>6, <1>7 DEF Next, AllActions, Elsewhere

(* Checkpoint versions only grow, and only updates and operators write.    *)
LEMMA CheckpointKinds ==
    ASSUME TypeOK, [Next]_vars
    PROVE  /\ version' >= version
           /\ \/ UNCHANGED <<version, graph, ciWrites>>
              \/ OperatorWrites
              \/ \E q \in Runs : UpdateWrites(q)
<1> USE DEF TypeOK, StackOK
<1>1. CASE UNCHANGED vars
  BY <1>1 DEF vars, stack
<1>2. CASE World \/ (Others /\ ~OperatorWrites)
  BY <1>2 DEF World, MainMoves, Push, Review, Merge, Others, VisitorArrives,
              VisitorLeaves, OperatorLocks, OperatorUnlocks, stack
<1>3. CASE OperatorWrites
  BY <1>3 DEF OperatorWrites
<1>4. ASSUME NEW q \in Runs, Start(q) \/ Rerun(q) \/ CancelWaiting(q)
      PROVE  UNCHANGED <<version, graph, ciWrites>>
  BY <1>4 DEF Start, Rerun, CancelWaiting, stack
<1>5. ASSUME NEW q \in Runs, RunStep(q), ~UpdateWrites(q)
      PROVE  UNCHANGED <<version, graph, ciWrites>>
  BY <1>5 DEF RunStep, Preflight, PrepareSource, DiffGate, Enqueue, Recheck,
              Admit, Capture, Prepare, PreviewProgram, Gate, ApplyProgram,
              BeginUpdate, UpdateEnds, UpdateAborts, Confirm, Final,
              Recapture, ReviewObservation, ProofPrepare, CreateReceipt,
              CompleteReceipt, ReadBack, DispatchPrepare, DispatchPost,
              DispatchVerify, JobFails, CommentResult, stack
<1>6. ASSUME NEW q \in Runs, UpdateWrites(q) PROVE version' >= version
  BY <1>6 DEF UpdateWrites
<1> QED BY <1>1, <1>2, <1>3, <1>4, <1>5, <1>6 DEF Next

RunInv(r) == StepsOfJobs(r) /\ ManifestOf(r) /\ UpdateOf(r)
             /\ ReceiptOf(r) /\ DispatchOf(r)

(* A step of somebody else.                                                *)
LEMMA OthersKeepEvidence ==
    ASSUME TypeOK, GroupGuardsLock, HistoryIsPast, [Next]_vars,
           NEW r \in Runs, RunInv(r), ~AllActions(r)
    PROVE  RunInv(r)'
<1>1. Displaceable(r) /\ SameEvidence(r) /\ (lock' = r <=> lock = r)
  BY OthersDisplace, OthersLeave DEF Elsewhere
<1>2. version' \in Nat /\ version \in Nat /\ version' >= version
  BY CheckpointKinds, StepTypes DEF TypeOK, StackOK
<1> USE DEF RunInv, Displaceable, SameEvidence
<1>3. StepsOfJobs(r)'
  BY <1>1 DEF StepsOfJobs
<1>4. ManifestOf(r)'
  <2>1. /\ planned[r] \in Nat /\ prepared[r] \in Nat /\ computed[r] \in Nat
    BY DEF TypeOK, EvidenceOK
  <2>2. planned'[r] # 0 => computed'[r] = planned'[r]
    BY <1>1 DEF ManifestOf
  <2>3. planned'[r] <= version'
    BY <1>1, <1>2, <2>1 DEF ManifestOf
  <2>4. stage'[r] = "preview" /\ step'[r] = "program"
          => prepared'[r] <= version'
    BY <1>1, <1>2, <2>1 DEF ManifestOf
  <2>5. stage'[r] = "preview" /\ step'[r] = "gate"
          => prepared'[r] <= computed'[r] /\ computed'[r] <= version'
    BY <1>1, <1>2, <2>1 DEF ManifestOf
  <2>6. attempt'[r] = 1 /\ outcome'[r] = "none"
            /\ (\/ stage'[r] \in {"preflight", "source"}
                \/ stage'[r] = "preview" /\ step'[r] # "final")
          => planned'[r] = 0
    BY <1>1 DEF ManifestOf
  <2> QED BY <2>2, <2>3, <2>4, <2>5, <2>6 DEF ManifestOf
<1>5. UpdateOf(r)'
  <2>1. ASSUME stage'[r] = "apply", step'[r] \in {"program", "update"},
               lock' # r, graph' = "partial"
        PROVE  version' \notin ciWrites'
    <3>1. /\ stage[r] = "apply" /\ step[r] \in {"program", "update"}
          /\ lock # r /\ group.holder = r
      BY <1>1, <2>1 DEF GroupGuardsLock, InsideHoldsGroup, InsideSteps, In
    <3>2. CASE UNCHANGED <<version, graph, ciWrites>>
      BY <2>1, <3>1, <3>2 DEF UpdateOf
    <3>3. CASE OperatorWrites
      BY <3>3 DEF OperatorWrites, HistoryIsPast, TypeOK, StackOK
    <3>4. ASSUME NEW q \in Runs, UpdateWrites(q) PROVE FALSE
      BY <3>1, <3>4 DEF UpdateWrites, In, AllActions, RunStep
    <3> QED BY <3>2, <3>3, <3>4, CheckpointKinds
  <2> QED BY <1>1, <2>1 DEF UpdateOf
<1>6. ReceiptOf(r)'
  BY <1>1 DEF ReceiptOf
<1>7. DispatchOf(r)'
  BY <1>1 DEF DispatchOf
<1> QED BY <1>3, <1>4, <1>5, <1>6, <1>7

-----------------------------------------------------------------------------
(* The run's own steps.  First those that change no evidence: the run      *)
(* control, the jobs outside the group, and what only moves the step.      *)

LEMMA ControlKeepsEvidence ==
    ASSUME TypeOK, GroupGuardsLock, NEW r \in Runs, RunInv(r),
           Start(r) \/ Rerun(r) \/ CommentResult(r)
    PROVE  RunInv(r)'
<1>1. /\ UNCHANGED evidence /\ UNCHANGED stack /\ step' = step
      /\ step[r] \notin InsideSteps
  BY DEF Start, Rerun, CommentResult, TypeOK, ControlOK, GroupGuardsLock,
         InsideHoldsGroup, In, Running
<1>2. \/ attempt'[r] = 2
      \/ /\ attempt'[r] = attempt[r] /\ stage'[r] = stage[r]
         /\ outcome'[r] = outcome[r]
  BY DEF Start, Rerun, CommentResult, TypeOK, ControlOK
<1> USE <1>1, <1>2 DEF evidence, results, stack, InsideSteps
<1>3. StepsOfJobs(r)'
  BY DEF StepsOfJobs
<1>4. ManifestOf(r)'
  BY DEF RunInv, ManifestOf
<1>5. UpdateOf(r)'
  BY DEF RunInv, UpdateOf
<1>6. ReceiptOf(r)'
  BY DEF RunInv, ReceiptOf
<1>7. DispatchOf(r)'
  BY DEF RunInv, DispatchOf
<1> QED BY <1>3, <1>4, <1>5, <1>6, <1>7 DEF RunInv

(* A job outside the group succeeds.                                       *)
LEMMA OutsideJobsKeepEvidence ==
    ASSUME TypeOK, FirstTryOnly, NEW r \in Runs, RunInv(r),
           \/ Preflight(r) \/ PrepareSource(r) \/ DiffGate(r)
           \/ ReadBack(r) \/ DispatchVerify(r)
    PROVE  RunInv(r)'
<1> USE DEF TypeOK, ControlOK, EvidenceOK
<1>1. /\ UNCHANGED evidence /\ UNCHANGED stack /\ JobSucceeds(r)
      /\ outcome[r] = "none"
  BY DEF Preflight, PrepareSource, DiffGate, ReadBack, DispatchVerify, At,
         Running
<1>2. step'[r] = "idle" /\ attempt'[r] = attempt[r]
  BY <1>1 DEF JobSucceeds
<1>3. \/ stage[r] = "preflight" /\ stage'[r] = "source"
      \/ stage[r] = "source" /\ stage'[r] = "preview" /\ step[r] = "idle"
      \/ stage[r] = "diffgate" /\ stage'[r] = "diffgate"
      \/ stage[r] = "diffgate" /\ stage'[r] = "apply"
      \/ stage[r] = "proof" /\ stage'[r] = "dispatch" /\ step[r] = "readback"
      \/ /\ stage[r] = "dispatch" /\ stage'[r] = "dispatch"
         /\ step[r] = "native" /\ outcome'[r] = "success"
  BY <1>1 DEF Preflight, PrepareSource, DiffGate, ReadBack, DispatchVerify, At,
              JobSucceeds, LastJob, NextJob
<1> USE <1>1, <1>2, <1>3 DEF evidence, results, stack
<1>4. StepsOfJobs(r)'
  BY DEF StepsOfJobs
<1>5. ManifestOf(r)'
  BY DEF RunInv, ManifestOf
<1>6. UpdateOf(r)'
  <2>1. attempt[r] = 1 /\ stage[r] = "diffgate" => started[r] = 0
    BY DEF FirstTryOnly
  <2> QED BY <2>1 DEF RunInv, UpdateOf
<1>7. ReceiptOf(r)'
  BY DEF RunInv, ReceiptOf
<1>8. DispatchOf(r)'
  BY DEF RunInv, DispatchOf
<1> QED BY <1>4, <1>5, <1>6, <1>7, <1>8 DEF RunInv

(* A job enters the group, rechecks, is admitted, or hands its plan to the *)
(* update or its capture to the review.                                    *)
LEMMA MovesKeepEvidence ==
    ASSUME TypeOK, GroupGuardsLock, FirstTryOnly, NEW r \in Runs, RunInv(r),
           \/ Enqueue(r) \/ Recheck(r) \/ Admit(r) \/ ApplyProgram(r)
           \/ Recapture(r) \/ ProofPrepare(r) \/ DispatchPrepare(r)
    PROVE  RunInv(r)'
<1> USE DEF TypeOK, ControlOK
<1>1. /\ UNCHANGED evidence /\ UNCHANGED stack
      /\ attempt'[r] = attempt[r] /\ stage'[r] = stage[r]
      /\ outcome[r] = "none"
  BY DEF Enqueue, Recheck, Admit, ApplyProgram, Recapture, ProofPrepare,
         DispatchPrepare, Goto, At, In, BeforeProgram, Running
<1>2. \/ /\ step[r] = "idle" /\ stage[r] \in GroupJobs
         /\ step'[r] \in {"idle", "recheck"}
      \/ step[r] = "recheck" /\ step'[r] = "admit"
      \/ step[r] = "admit" /\ step'[r] = "capture"
      \/ step[r] = "program" /\ stage[r] = "apply" /\ step'[r] = "update"
      \/ step[r] = "recapture" /\ step'[r] = "review"
      \/ stage[r] = "proof" /\ step[r] = "idle" /\ step'[r] = "publish"
      \/ stage[r] = "dispatch" /\ step[r] = "idle" /\ step'[r] = "post"
  BY DEF Enqueue, Recheck, Admit, ApplyProgram, Recapture, ProofPrepare,
         DispatchPrepare, Goto, At, In, BeforeProgram
<1> USE <1>1, <1>2 DEF evidence, results, stack, GroupJobs
<1>3. StepsOfJobs(r)'
  BY DEF RunInv, StepsOfJobs
<1>4. ManifestOf(r)'
  BY DEF RunInv, ManifestOf
<1>5. UpdateOf(r)'
  <2>1. step'[r] \notin {"confirm", "final", "program"}
    OBVIOUS
  <2>2. step[r] \notin {"confirm", "final"}
    OBVIOUS
  <2>3. step'[r] = "update" => step[r] = "program"
    OBVIOUS
  <2>4. /\ updated' = updated /\ started' = started /\ planned' = planned
        /\ lock' = lock
    OBVIOUS
  <2>5. lock' = r \/ step'[r] = "confirm" \/ updated'[r]
          => started'[r] # 0 /\ started'[r] >= planned'[r]
    BY <2>1, <2>4 DEF RunInv, UpdateOf
  <2>6. attempt'[r] = 1
            /\ (\/ stage'[r] \in {"drift", "observation", "proof", "dispatch"}
                \/ stage'[r] = "apply" /\ step'[r] = "final")
          => updated'[r]
    BY <2>1, <2>4 DEF RunInv, UpdateOf
  <2>7. attempt'[r] = 1 /\ outcome'[r] = "none"
            /\ stage'[r] = "apply" /\ step'[r] # "final"
          => ~updated'[r]
    BY <2>2, <2>4 DEF RunInv, UpdateOf
  <2>8. stage'[r] = "apply" /\ step'[r] \in {"program", "update"} /\ lock' # r
            /\ graph' = "partial"
          => version' \notin ciWrites'
    BY <2>1, <2>3 DEF RunInv, UpdateOf
  <2> QED BY <2>5, <2>6, <2>7, <2>8 DEF UpdateOf
<1>6. ReceiptOf(r)'
  BY DEF RunInv, ReceiptOf
<1>7. DispatchOf(r)'
  BY DEF RunInv, DispatchOf
<1> QED BY <1>3, <1>4, <1>5, <1>6, <1>7 DEF RunInv

(* A job fails or is cancelled: it forgets its captures and is over.       *)
LEMMA EndsKeepEvidence ==
    ASSUME TypeOK, GroupGuardsLock, NEW r \in Runs, RunInv(r),
           UpdateAborts(r) \/ JobFails(r) \/ CancelWaiting(r)
    PROVE  RunInv(r)'
<1> USE DEF TypeOK, ControlOK, EvidenceOK
<1>1. /\ step'[r] = "idle" /\ outcome'[r] # "none"
      /\ attempt'[r] = attempt[r] /\ stage'[r] = stage[r]
      /\ UNCHANGED <<results, version, ciWrites, graph>>
      /\ lock' = r => lock = r
  BY RunsAssumption
     DEF UpdateAborts, JobFails, CancelWaiting, JobEnds, evidence, results,
         stack
<1>2. outcome[r] = "none" /\ (step[r] = "final" => In(r, "final"))
  BY DEF UpdateAborts, JobFails, CancelWaiting, In, Running, GroupGuardsLock,
         InsideHoldsGroup, InsideSteps
<1> USE <1>1, <1>2 DEF results
<1>3. StepsOfJobs(r)'
  BY DEF StepsOfJobs
<1>4. ManifestOf(r)'
  BY DEF RunInv, ManifestOf
<1>5. UpdateOf(r)'
  BY DEF RunInv, UpdateOf
<1>6. ReceiptOf(r)'
  BY DEF RunInv, ReceiptOf
<1>7. DispatchOf(r)'
  BY DEF RunInv, DispatchOf
<1> QED BY <1>3, <1>4, <1>5, <1>6, <1>7 DEF RunInv

-----------------------------------------------------------------------------
(* The run's own steps that write evidence: captures and the plan.         *)

LEMMA CaptureKeepsEvidence ==
    ASSUME TypeOK, GroupGuardsLock, FirstTryOnly, HistoryIsPast,
           NEW r \in Runs, RunInv(r), Capture(r) \/ Prepare(r)
    PROVE  RunInv(r)'
<1> USE DEF TypeOK, ControlOK, EvidenceOK, StackOK
<1>1. /\ UNCHANGED results /\ UNCHANGED stack /\ stage' = stage
      /\ attempt' = attempt /\ outcome' = outcome /\ outcome[r] = "none"
      /\ stage[r] \in GroupJobs
  BY DEF Capture, Prepare, Goto, In, Running
<1>2. \/ /\ step[r] = "capture" /\ initial'[r] = version
         /\ prepared'[r] = prepared[r]
         /\ \/ stage[r] = "observation" /\ step'[r] = "recapture"
            \/ stage[r] # "observation" /\ step'[r] = "prepare"
      \/ /\ step[r] = "prepare" /\ prepared'[r] = version
         /\ initial'[r] = initial[r]
         /\ \/ stage[r] = "apply" /\ step'[r] = "gate"
            \/ stage[r] # "apply" /\ step'[r] = "program"
  BY DEF Capture, Prepare, Goto, In
<1>3. started[r] <= version
  BY DEF HistoryIsPast
<1> USE <1>1, <1>2 DEF results, stack, GroupJobs
<1>4. StepsOfJobs(r)'
  BY DEF RunInv, StepsOfJobs
<1>5. ManifestOf(r)'
  BY DEF RunInv, ManifestOf
<1>6. UpdateOf(r)'
  BY DEF RunInv, UpdateOf
<1>7. ReceiptOf(r)'
  BY <1>3 DEF RunInv, ReceiptOf
<1>8. DispatchOf(r)'
  BY DEF RunInv, DispatchOf
<1> QED BY <1>4, <1>5, <1>6, <1>7, <1>8 DEF RunInv

LEMMA PreviewKeepsEvidence ==
    ASSUME TypeOK, NEW r \in Runs, RunInv(r), PreviewProgram(r)
    PROVE  RunInv(r)'
<1> USE DEF TypeOK, ControlOK, EvidenceOK, StackOK
<1>1. /\ UNCHANGED <<initial, prepared, planned, started, updated, observed,
                     receipt, dispatched>>
      /\ UNCHANGED stack /\ stage' = stage /\ attempt' = attempt
      /\ outcome' = outcome /\ outcome[r] = "none" /\ attempt[r] = 1
      /\ step[r] = "program" /\ step'[r] = "gate" /\ stage[r] # "apply"
  BY DEF PreviewProgram, BeforeProgram, FirstAttempt, Goto, In, Running
<1>2. computed'[r] = IF stage[r] = "preview" THEN version ELSE computed[r]
  BY DEF PreviewProgram
<1> USE <1>1 DEF stack
<1>3. StepsOfJobs(r)'
  BY DEF RunInv, StepsOfJobs
<1>4. ManifestOf(r)'
  BY <1>2 DEF RunInv, ManifestOf
<1>5. UpdateOf(r)'
  BY DEF RunInv, UpdateOf
<1>6. ReceiptOf(r)'
  BY DEF RunInv, ReceiptOf
<1>7. DispatchOf(r)'
  BY DEF RunInv, DispatchOf
<1> QED BY <1>3, <1>4, <1>5, <1>6, <1>7 DEF RunInv

(* The gate seals the version it compares: the one the preview read.       *)
LEMMA GateKeepsEvidence ==
    ASSUME TypeOK, FirstTryOnly, NEW r \in Runs, RunInv(r), Gate(r)
    PROVE  RunInv(r)'
<1> USE DEF TypeOK, ControlOK, EvidenceOK, StackOK
<1>1. /\ UNCHANGED <<initial, prepared, computed, started, updated, observed,
                     receipt, dispatched>>
      /\ UNCHANGED stack /\ stage' = stage /\ attempt' = attempt
      /\ outcome' = outcome /\ outcome[r] = "none"
      /\ step[r] = "gate" /\ version = prepared[r] /\ graph # "partial"
  BY DEF Gate, Capturable, SameCheckpoint, Goto, In, Running
<1>2. attempt[r] = 1
  BY <1>1 DEF FirstTryOnly, InsideSteps
<1>3. planned'[r] = IF stage[r] = "preview" THEN version ELSE planned[r]
  BY <1>1 DEF Gate
<1>4. step'[r] = IF stage[r] = "apply" THEN "program" ELSE "final"
  BY DEF Gate, Goto
<1>5. stage[r] = "preview" => started[r] = 0
  BY <1>2 DEF FirstTryOnly
<1> USE <1>1, <1>2 DEF stack
<1>6. StepsOfJobs(r)'
  BY <1>4 DEF RunInv, StepsOfJobs
<1>7. ManifestOf(r)'
  BY <1>3, <1>4 DEF RunInv, ManifestOf
<1>8. UpdateOf(r)'
  BY <1>3, <1>4, <1>5 DEF RunInv, UpdateOf
<1>9. ReceiptOf(r)'
  BY <1>3, <1>4 DEF RunInv, ReceiptOf
<1>10. DispatchOf(r)'
  BY <1>4 DEF RunInv, DispatchOf
<1> QED BY <1>6, <1>7, <1>8, <1>9, <1>10 DEF RunInv

(* The update: it begins on a version no older than its plan, writes newer *)
(* ones, ends, and is confirmed.                                           *)
LEMMA UpdateKeepsEvidence ==
    ASSUME TypeOK, GroupGuardsLock, FirstTryOnly, NEW r \in Runs, RunInv(r),
           BeginUpdate(r) \/ UpdateWrites(r) \/ UpdateEnds(r)
    PROVE  RunInv(r)'
<1> USE DEF TypeOK, ControlOK, EvidenceOK, StackOK
<1>1. /\ UNCHANGED <<initial, prepared, computed, planned, updated, observed,
                     receipt, dispatched>>
      /\ stage' = stage /\ attempt' = attempt /\ outcome' = outcome
      /\ step[r] = "update" /\ step'[r] \in {"update", "confirm"}
  BY DEF BeginUpdate, UpdateWrites, UpdateEnds, Goto, In, control, evidence,
         results
<1>2. stage[r] = "apply" /\ attempt[r] = 1
  BY <1>1 DEF GroupGuardsLock, LockIsTheUpdate, FirstTryOnly, InsideSteps
<1>3. version' \in Nat /\ version' >= version
  BY DEF BeginUpdate, UpdateWrites, UpdateEnds
<1>4. /\ planned[r] <= version
      /\ lock = r => started[r] # 0 /\ started[r] >= planned[r]
  BY DEF RunInv, ManifestOf, UpdateOf
<1>5. started'[r] # 0 /\ started'[r] >= planned[r]
  <2>1. CASE BeginUpdate(r)
    BY <1>4, <2>1 DEF BeginUpdate
  <2>2. CASE UpdateWrites(r) \/ UpdateEnds(r)
    BY <1>4, <2>2 DEF UpdateWrites, UpdateEnds, evidence
  <2> QED BY <2>1, <2>2
<1>6. step'[r] = "update" => lock' = r
  BY DEF BeginUpdate, UpdateWrites, UpdateEnds, Goto
<1> USE <1>1, <1>2
<1>7. StepsOfJobs(r)'
  BY DEF StepsOfJobs
<1>8. ManifestOf(r)'
  BY <1>3 DEF RunInv, ManifestOf
<1>9. UpdateOf(r)'
  BY <1>5, <1>6 DEF RunInv, UpdateOf
<1>10. ReceiptOf(r)'
  BY DEF RunInv, ReceiptOf
<1>11. DispatchOf(r)'
  BY DEF RunInv, DispatchOf
<1> QED BY <1>7, <1>8, <1>9, <1>10, <1>11 DEF RunInv

LEMMA ConfirmKeepsEvidence ==
    ASSUME TypeOK, FirstTryOnly, NEW r \in Runs, RunInv(r), Confirm(r)
    PROVE  RunInv(r)'
<1> USE DEF TypeOK, ControlOK, EvidenceOK
<1>1. /\ UNCHANGED <<initial, prepared, computed, planned, started, observed,
                     receipt, dispatched>>
      /\ UNCHANGED stack /\ updated'[r] = TRUE
      /\ stage' = stage /\ attempt' = attempt /\ outcome' = outcome
      /\ step[r] = "confirm" /\ step'[r] = "final"
  BY DEF Confirm, Goto, In
<1>2. stage[r] = "apply" /\ attempt[r] = 1
  BY <1>1 DEF RunInv, StepsOfJobs, FirstTryOnly, InsideSteps
<1> USE <1>1, <1>2 DEF stack
<1>3. StepsOfJobs(r)'
  BY DEF StepsOfJobs
<1>4. ManifestOf(r)'
  BY DEF RunInv, ManifestOf
<1>5. UpdateOf(r)'
  BY DEF RunInv, UpdateOf
<1>6. ReceiptOf(r)'
  BY DEF RunInv, ReceiptOf
<1>7. DispatchOf(r)'
  BY DEF RunInv, DispatchOf
<1> QED BY <1>3, <1>4, <1>5, <1>6, <1>7 DEF RunInv

(* A job of the group succeeds and leaves it.                              *)
LEMMA FinalKeepsEvidence ==
    ASSUME TypeOK, FirstTryOnly, NEW r \in Runs, RunInv(r),
           Final(r) \/ ReviewObservation(r)
    PROVE  RunInv(r)'
<1> USE DEF TypeOK, ControlOK, EvidenceOK
<1>1. /\ UNCHANGED <<computed, planned, started, updated, receipt, dispatched>>
      /\ UNCHANGED stack /\ JobSucceeds(r) /\ attempt[r] = 1
      /\ outcome[r] = "none" /\ step'[r] = "idle" /\ attempt' = attempt
      /\ \/ step[r] = "final" /\ observed' = observed
         \/ step[r] = "review" /\ observed'[r] = initial[r]
  BY DEF Final, ReviewObservation, JobSucceeds, FirstAttempt, In, Running,
         results
<1>2. /\ outcome' = outcome
      /\ \/ stage[r] = "preview" /\ stage'[r] = "diffgate"
         \/ stage[r] = "apply" /\ stage'[r] = "drift"
         \/ stage[r] = "drift" /\ stage'[r] = "observation"
         \/ /\ stage[r] = "observation" /\ stage'[r] = "proof"
            /\ step[r] = "review"
      /\ step[r] = "review" => stage[r] = "observation"
  BY <1>1 DEF RunInv, StepsOfJobs, JobSucceeds, LastJob, NextJob
<1> USE <1>1, <1>2 DEF stack
<1>3. StepsOfJobs(r)'
  BY DEF StepsOfJobs
<1>4. ManifestOf(r)'
  BY DEF RunInv, ManifestOf
<1>5. UpdateOf(r)'
  BY DEF RunInv, UpdateOf
<1>6. ReceiptOf(r)'
  BY DEF RunInv, ReceiptOf
<1>7. DispatchOf(r)'
  BY DEF RunInv, DispatchOf
<1> QED BY <1>3, <1>4, <1>5, <1>6, <1>7 DEF RunInv

(* The receipt and the dispatch.                                           *)
LEMMA CompletionKeepsEvidence ==
    ASSUME TypeOK, NEW r \in Runs, RunInv(r),
           CreateReceipt(r) \/ CompleteReceipt(r) \/ DispatchPost(r)
    PROVE  RunInv(r)'
<1> USE DEF TypeOK, ControlOK, EvidenceOK
<1>1. /\ UNCHANGED <<initial, prepared, computed, planned, started, updated,
                     observed>>
      /\ UNCHANGED stack /\ stage' = stage /\ attempt' = attempt
      /\ outcome' = outcome /\ outcome[r] = "none"
  BY DEF CreateReceipt, CompleteReceipt, DispatchPost, Goto, At, Running
<1>2. \/ /\ stage[r] = "proof" /\ step[r] = "publish" /\ step'[r] = "status"
         /\ attempt[r] = 1 /\ receipt'[r] = "created"
         /\ dispatched' = dispatched
      \/ /\ stage[r] = "proof" /\ step[r] = "status" /\ step'[r] = "readback"
         /\ receipt'[r] = "success" /\ dispatched' = dispatched
      \/ /\ stage[r] = "dispatch" /\ step[r] = "post" /\ step'[r] = "native"
         /\ attempt[r] = 1 /\ receipt[r] = "success" /\ receipt' = receipt
         /\ dispatched'[r] = dispatched[r] + 1
  BY DEF CreateReceipt, CompleteReceipt, DispatchPost, DispatchReady,
         FirstAttempt, Goto, At
<1> USE <1>1, <1>2 DEF stack
<1>3. StepsOfJobs(r)'
  BY DEF StepsOfJobs
<1>4. ManifestOf(r)'
  BY DEF RunInv, ManifestOf
<1>5. UpdateOf(r)'
  BY DEF RunInv, UpdateOf
<1>6. ReceiptOf(r)'
  BY DEF RunInv, ReceiptOf, UpdateOf
<1>7. DispatchOf(r)'
  BY DEF RunInv, DispatchOf
<1> QED BY <1>3, <1>4, <1>5, <1>6, <1>7 DEF RunInv

-----------------------------------------------------------------------------
LEMMA EvidenceStep ==
    ASSUME TypeOK, GroupGuardsLock, PlanInv, EvidenceInv, [Next]_vars
    PROVE  EvidenceInv'
<1>1. FirstTryOnly /\ HistoryIsPast
  BY DEF PlanInv
<1>2. SUFFICES ASSUME NEW r \in Runs PROVE RunInv(r)'
  BY DEF EvidenceInv, RunInv
<1>3. RunInv(r)
  BY DEF EvidenceInv, RunInv
<1>4. CASE ~AllActions(r)
  BY <1>1, <1>3, <1>4, OthersKeepEvidence
<1>5. CASE Start(r) \/ Rerun(r) \/ CancelWaiting(r)
  BY <1>3, <1>5, ControlKeepsEvidence, EndsKeepEvidence
<1>6. CASE RunStep(r)
  BY <1>1, <1>3, <1>6, ControlKeepsEvidence, OutsideJobsKeepEvidence,
     MovesKeepEvidence, EndsKeepEvidence, CaptureKeepsEvidence,
     PreviewKeepsEvidence, GateKeepsEvidence, UpdateKeepsEvidence,
     ConfirmKeepsEvidence, FinalKeepsEvidence, CompletionKeepsEvidence
     DEF RunStep
<1> QED BY <1>4, <1>5, <1>6 DEF AllActions

(* Every run keeps its evidence together.                                  *)
THEOREM EvidenceHolds == Spec => [](PlanInv /\ EvidenceInv)
<1>1. Init => PlanInv
  BY RunsAssumption
     DEF Init, PlanInv, PlanStaysFresh, HistoryIsPast, FirstTryOnly,
         UpdateFollowsItsPlan, InsideSteps
<1>2. Init => EvidenceInv
  <2> SUFFICES ASSUME Init, NEW r \in Runs PROVE RunInv(r)
    BY DEF EvidenceInv, RunInv
  <2>1. lock # r
    BY RunsAssumption DEF Init
  <2>2. /\ step[r] = "idle" /\ stage[r] = "preflight" /\ version = 1
        /\ planned[r] = 0 /\ updated[r] = FALSE /\ observed[r] = 0
        /\ receipt[r] = "none" /\ dispatched[r] = 0
    BY DEF Init
  <2> QED BY <2>1, <2>2 DEF RunInv, StepsOfJobs, ManifestOf, UpdateOf,
                            ReceiptOf, DispatchOf
<1>3. TypeOK /\ GroupGuardsLock /\ PlanInv /\ [Next]_vars => PlanInv'
  BY HistoryStep, FirstTryStep, FreshStep, FollowsStep DEF PlanInv
<1>4. TypeOK /\ GroupGuardsLock /\ PlanInv /\ EvidenceInv /\ [Next]_vars
        => EvidenceInv'
  BY EvidenceStep
<1> QED BY <1>1, <1>2, <1>3, <1>4, TypeCorrect, GroupGuards, PTL DEF Spec

(* The checkpoint version a plan manifest names is the one pulumi preview  *)
(* read.                                                                   *)
THEOREM ManifestsAreHonest == Spec => []ManifestNamesPlannedCheckpoint
<1>1. EvidenceInv => ManifestNamesPlannedCheckpoint
  BY DEF EvidenceInv, ManifestOf, ManifestNamesPlannedCheckpoint
<1> QED BY <1>1, EvidenceHolds, PTL

(* No command starts its update over the half-applied graph another        *)
(* command left.                                                           *)
THEOREM BrokenUpdatesStop == Spec => []NoUpdateOverBrokenOne
<1>1. GroupGuardsLock /\ EvidenceInv => NoUpdateOverBrokenOne
  BY DEF EvidenceInv, UpdateOf, NoUpdateOverBrokenOne, In, GroupGuardsLock,
         LockIsTheUpdate
<1> QED BY <1>1, GroupGuards, EvidenceHolds, PTL

(* A receipt follows the run's own confirmed update.                       *)
THEOREM ReceiptsFollowUpdates == Spec => []ReceiptFollowsUpdate
<1>1. EvidenceInv => ReceiptFollowsUpdate
  BY DEF EvidenceInv, ReceiptOf, ReceiptFollowsUpdate
<1> QED BY <1>1, EvidenceHolds, PTL

(* The publisher hears of a run at most once, of a complete receipt.       *)
THEOREM PublisherHearsOnce == Spec => []DispatchedOnce
<1>1. EvidenceInv => DispatchedOnce
  BY DEF EvidenceInv, DispatchOf, DispatchedOnce
<1> QED BY <1>1, EvidenceHolds, PTL

(* What a delivery leaves behind holds in every state.                     *)
THEOREM DeliveryInvariant == Spec => []DeliveryInv
<1>1. TypeOK /\ ReceiptFollowsUpdate /\ DispatchedOnce => DeliveryInv
  BY DEF DeliveryInv
<1> QED BY <1>1, TypeCorrect, ReceiptsFollowUpdates, PublisherHearsOnce, PTL

-----------------------------------------------------------------------------
(* The delivery implements its promise: every step of a run, of the world, *)
(* of a visitor or an operator is a step of the promise or changes nothing *)
(* the promise speaks of.                                                  *)

Complete == graph = "full"
Updater == IF lock \in Runs THEN lock ELSE NoOne
SeenBy(r) == IF step[r] = "review" THEN initial[r] ELSE observed[r]

Seen == [r \in Runs |-> SeenBy(r)]
Received == [r \in Runs |-> receipt[r] = "success"]
Sent == [r \in Runs |-> dispatched[r] > 0]

promised == <<version, Complete, ciWrites, Updater, planned, updated, Seen,
              Received, Sent>>

PInv == TypeOK /\ GroupGuardsLock /\ PlanInv /\ EvidenceInv

(* A step of one run changes what the promise says of that run only.       *)
LEMMA OneRunMoves ==
    ASSUME PInv, [Next]_vars, NEW r \in Runs, AllActions(r)
    PROVE  /\ planned' = [planned EXCEPT ![r] = planned'[r]]
           /\ updated' = [updated EXCEPT ![r] = updated'[r]]
           /\ Seen' = [Seen EXCEPT ![r] = SeenBy(r)']
           /\ Received' = [Received EXCEPT ![r] = (receipt'[r] = "success")]
           /\ Sent' = [Sent EXCEPT ![r] = (dispatched'[r] > 0)]
<1> USE DEF PInv
<1>1. ASSUME NEW q \in Runs \ {r}
      PROVE  SameEvidence(q) /\ SeenBy(q)' = SeenBy(q)
  <2>1. Displaceable(q) /\ SameEvidence(q)
    BY OthersDisplace, OthersLeave DEF Elsewhere
  <2> QED BY <2>1 DEF Displaceable, SameEvidence, SeenBy, InsideSteps
<1>2. TypeOK'
  BY StepTypes
<1>3. planned' = [planned EXCEPT ![r] = planned'[r]]
  BY <1>1, <1>2 DEF TypeOK, EvidenceOK, SameEvidence
<1>4. updated' = [updated EXCEPT ![r] = updated'[r]]
  BY <1>1, <1>2 DEF TypeOK, EvidenceOK, SameEvidence
<1>5. Seen' = [Seen EXCEPT ![r] = SeenBy(r)']
  BY <1>1 DEF Seen
<1>6. Received' = [Received EXCEPT ![r] = (receipt'[r] = "success")]
  BY <1>1 DEF Received, SameEvidence
<1>7. Sent' = [Sent EXCEPT ![r] = (dispatched'[r] > 0)]
  BY <1>1 DEF Sent, SameEvidence
<1> QED BY <1>3, <1>4, <1>5, <1>6, <1>7

SameReceipt(r) == receipt'[r] = "success" <=> receipt[r] = "success"

(* What each field of the promise needs of the run to stay as it is.       *)
LEMMA FieldsStay ==
    ASSUME PInv, [Next]_vars, NEW r \in Runs, AllActions(r)
    PROVE  /\ planned'[r] = planned[r] => planned' = planned
           /\ updated'[r] = updated[r] => updated' = updated
           /\ SeenBy(r)' = SeenBy(r) => Seen' = Seen
           /\ SameReceipt(r) => Received' = Received
           /\ dispatched'[r] = dispatched[r] => Sent' = Sent
<1> USE OneRunMoves
<1>1. planned'[r] = planned[r] => planned' = planned
  BY DEF PInv, TypeOK, EvidenceOK
<1>2. updated'[r] = updated[r] => updated' = updated
  BY DEF PInv, TypeOK, EvidenceOK
<1>3. SeenBy(r)' = SeenBy(r) => Seen' = Seen
  BY DEF Seen
<1>4. SameReceipt(r) => Received' = Received
  BY DEF Received, SameReceipt
<1>5. dispatched'[r] = dispatched[r] => Sent' = Sent
  BY DEF Sent
<1> QED BY <1>1, <1>2, <1>3, <1>4, <1>5

(* Steps the promise does not see.                                         *)
LEMMA QuietSteps ==
    ASSUME PInv, [Next]_vars, NEW r \in Runs,
           \/ Start(r) \/ Rerun(r) \/ CancelWaiting(r) \/ CommentResult(r)
           \/ Preflight(r) \/ PrepareSource(r) \/ DiffGate(r) \/ ReadBack(r)
           \/ DispatchVerify(r) \/ Enqueue(r) \/ Recheck(r) \/ Admit(r)
           \/ ApplyProgram(r) \/ ProofPrepare(r) \/ DispatchPrepare(r)
           \/ Capture(r) \/ Prepare(r) \/ PreviewProgram(r) \/ Final(r)
           \/ ReviewObservation(r) \/ CreateReceipt(r)
    PROVE  UNCHANGED promised
<1> USE DEF PInv, TypeOK, ControlOK, EvidenceOK
<1>0. RunInv(r)
  BY DEF EvidenceInv, RunInv
<1>1. AllActions(r)
  BY DEF AllActions, RunStep
<1>2. /\ UNCHANGED <<version, graph, ciWrites, lock>>
      /\ planned' = planned /\ updated' = updated /\ dispatched' = dispatched
  BY DEF Start, Rerun, CancelWaiting, CommentResult, Preflight, PrepareSource,
         DiffGate, ReadBack, DispatchVerify, Enqueue, Recheck, Admit,
         ApplyProgram, ProofPrepare, DispatchPrepare, Capture, Prepare,
         PreviewProgram, Final, ReviewObservation, CreateReceipt, evidence,
         results, stack
<1>3. SameReceipt(r)
  <2>1. CASE CreateReceipt(r)
    <3>1. receipt[r] = "none"
      BY <1>0, <2>1
         DEF CreateReceipt, FirstAttempt, At, Running, RunInv, ReceiptOf
    <3> QED BY <2>1, <3>1 DEF CreateReceipt, SameReceipt
  <2>2. CASE ~CreateReceipt(r)
    <3>1. receipt' = receipt
      BY <2>2
         DEF Start, Rerun, CancelWaiting, CommentResult, Preflight,
             PrepareSource, DiffGate, ReadBack, DispatchVerify, Enqueue,
             Recheck, Admit, ApplyProgram, ProofPrepare, DispatchPrepare,
             Capture, Prepare, PreviewProgram, Final, ReviewObservation,
             evidence, results
    <3> QED BY <3>1 DEF SameReceipt
  <2> QED BY <2>1, <2>2
<1>4. SeenBy(r)' = SeenBy(r)
  <2>1. CASE ReviewObservation(r)
    <3>1. /\ step[r] = "review" /\ step'[r] = "idle"
          /\ observed'[r] = initial[r]
      BY <2>1 DEF ReviewObservation, In, JobSucceeds
    <3> QED BY <3>1 DEF SeenBy
  <2>2. CASE ~ReviewObservation(r)
    <3>1. observed' = observed
      BY <2>2
         DEF Start, Rerun, CancelWaiting, CommentResult, Preflight,
             PrepareSource, DiffGate, ReadBack, DispatchVerify, Enqueue,
             Recheck, Admit, ApplyProgram, ProofPrepare, DispatchPrepare,
             Capture, Prepare, PreviewProgram, Final, CreateReceipt,
             evidence, results
    <3>2. CASE Start(r) \/ Rerun(r) \/ CommentResult(r)
      BY <3>1, <3>2 DEF Start, Rerun, CommentResult, SeenBy, evidence
    <3>3. CASE CancelWaiting(r)
      <4>1. step'[r] = "idle" /\ step[r] # "review"
        BY <3>3 DEF CancelWaiting, Waiting, JobEnds, GroupGuardsLock,
                    InsideHoldsGroup, InsideSteps, In
      <4> QED BY <3>1, <4>1 DEF SeenBy
    <3>4. CASE ~(Start(r) \/ Rerun(r) \/ CommentResult(r) \/ CancelWaiting(r))
      <4>1. step[r] # "review" /\ step'[r] # "review"
        BY <2>2, <3>4
           DEF Preflight, PrepareSource, DiffGate, ReadBack, DispatchVerify,
               Enqueue, Recheck, Admit, ApplyProgram, ProofPrepare,
               DispatchPrepare, Capture, Prepare, PreviewProgram, Final,
               CreateReceipt, BeforeProgram, At, In, Goto, JobSucceeds
      <4> QED BY <3>1, <4>1 DEF SeenBy
    <3> QED BY <3>2, <3>3, <3>4
  <2> QED BY <2>1, <2>2
<1>5. Seen' = Seen /\ Received' = Received /\ Sent' = Sent
  BY <1>1, <1>2, <1>3, <1>4, FieldsStay
<1> QED BY <1>2, <1>5 DEF promised, Complete, Updater

(* Nobody but a run is seen to do anything, except that operators write.   *)
LEMMA OutsideRefines ==
    ASSUME PInv, World \/ Others
    PROVE  Promise!OutsideWrite \/ UNCHANGED promised
<1> USE DEF PInv, TypeOK, ControlOK
<1>1. UNCHANGED evidence
  BY DEF World, MainMoves, Push, Review, Merge, Others, VisitorArrives,
         VisitorLeaves, OperatorLocks, OperatorWrites, OperatorUnlocks
<1>2. \A q \in Runs : \/ step'[q] = step[q]
                      \/ step'[q] = "idle" /\ step[q] # "review"
  <2>1. ASSUME NEW v \in Visitors, VisitorArrives(v), NEW q \in Runs
        PROVE  \/ step'[q] = step[q]
               \/ step'[q] = "idle" /\ step[q] # "review"
    BY <2>1, DisplacedOutside DEF VisitorArrives, InsideSteps
  <2>2. CASE ~\E v \in Visitors : VisitorArrives(v)
    <3>1. step' = step
      BY <2>2 DEF World, MainMoves, Push, Review, Merge, Others,
                  VisitorLeaves, OperatorLocks, OperatorWrites,
                  OperatorUnlocks, control
    <3> QED BY <3>1
  <2> QED BY <2>1, <2>2
<1>3. \A q \in Runs : SeenBy(q)' = SeenBy(q)
  BY <1>1, <1>2 DEF SeenBy, evidence
<1>4. /\ Seen' = Seen /\ Received' = Received /\ Sent' = Sent
      /\ planned' = planned /\ updated' = updated
  BY <1>1, <1>3 DEF Seen, Received, Sent, evidence
<1>5. CASE OperatorWrites
  <2>1. Updater = NoOne /\ Updater' = NoOne
    BY <1>5, RunsAssumption DEF OperatorWrites, Updater
  <2>2. version' = version + 1 /\ Complete' \in BOOLEAN /\ ciWrites' = ciWrites
    BY <1>5 DEF OperatorWrites, Complete
  <2> QED BY <1>4, <2>1, <2>2
          DEF Promise!OutsideWrite, Complete, Updater, Seen, SeenBy, Received,
              Sent
<1>6. CASE ~OperatorWrites
  <2>1. UNCHANGED <<version, graph, ciWrites>> /\ Updater' = Updater
    BY <1>6, RunsAssumption
       DEF World, MainMoves, Push, Review, Merge, Others, VisitorArrives,
           VisitorLeaves, OperatorLocks, OperatorUnlocks, stack, Updater
  <2> QED BY <1>4, <2>1 DEF promised, Complete
<1> QED BY <1>5, <1>6

(* Sealing a manifest makes a plan.                                        *)
LEMMA GateRefines ==
    ASSUME PInv, [Next]_vars, NEW r \in Runs, Gate(r)
    PROVE  Promise!MakePlan(r) \/ UNCHANGED promised
<1> USE DEF PInv, TypeOK, ControlOK, EvidenceOK
<1>1. AllActions(r) /\ RunInv(r)
  BY DEF AllActions, RunStep, EvidenceInv, RunInv
<1>2. /\ step[r] = "gate" /\ step'[r] # "review" /\ version = prepared[r]
      /\ outcome[r] = "none" /\ UNCHANGED stack
      /\ UNCHANGED <<initial, updated, observed, receipt, dispatched>>
  BY DEF Gate, Goto, In, Running, SameCheckpoint
<1>3. SameReceipt(r) /\ SeenBy(r)' = SeenBy(r)
  BY <1>2 DEF SameReceipt, SeenBy
<1>4. Seen' = Seen /\ Received' = Received /\ Sent' = Sent
  BY <1>1, <1>2, <1>3, FieldsStay
<1>5. Updater' = Updater /\ Complete' = Complete
  BY <1>2 DEF Updater, Complete, stack
<1>6. CASE stage[r] = "preview"
  <2>1. attempt[r] = 1
    BY <1>2 DEF PlanInv, FirstTryOnly, InsideSteps
  <2>2. planned[r] = 0
    BY <1>1, <1>2, <1>6, <2>1 DEF RunInv, ManifestOf
  <2>3. planned' = [planned EXCEPT ![r] = version]
    BY <1>2, <1>6 DEF Gate
  <2> QED BY <1>2, <1>4, <1>5, <2>2, <2>3
          DEF Promise!MakePlan, Promise!checkpoint, Complete, Updater, Seen,
              SeenBy, Received, Sent, stack
<1>7. CASE stage[r] # "preview"
  <2>1. planned' = planned
    BY <1>7 DEF Gate
  <2> QED BY <1>2, <1>4, <1>5, <2>1 DEF promised, stack
<1> QED BY <1>6, <1>7

(* The update of a run, from the lock to the release of it.                *)
LEMMA UpdateRefines ==
    ASSUME PInv, [Next]_vars, NEW r \in Runs,
           \/ BeginUpdate(r) \/ UpdateWrites(r) \/ UpdateEnds(r)
           \/ UpdateAborts(r)
    PROVE  \/ Promise!StartUpdate(r) \/ Promise!WriteCheckpoint(r)
           \/ Promise!StopUpdate(r)
<1> USE DEF PInv, TypeOK, ControlOK, EvidenceOK, StackOK
<1>1. AllActions(r) /\ RunInv(r)
  BY DEF AllActions, RunStep, EvidenceInv, RunInv
<1>2. /\ step[r] = "update" /\ step'[r] # "review"
      /\ outcome[r] = "none" /\ stage[r] = "apply" /\ attempt[r] = 1
      /\ UNCHANGED <<planned, updated, observed, receipt, dispatched>>
  BY DEF BeginUpdate, UpdateWrites, UpdateEnds, UpdateAborts, Goto, JobEnds,
         In, Running, control, evidence, results, GroupGuardsLock,
         LockIsTheUpdate, PlanInv, FirstTryOnly, InsideSteps
<1>3. SameReceipt(r) /\ SeenBy(r)' = SeenBy(r)
  BY <1>2 DEF SameReceipt, SeenBy
<1>4. Seen' = Seen /\ Received' = Received /\ Sent' = Sent
  BY <1>1, <1>2, <1>3, FieldsStay
<1>5. CASE BeginUpdate(r)
  <2>1. /\ Updater = NoOne /\ Updater' = r
        /\ UNCHANGED <<version, graph, ciWrites>>
    BY <1>5, RunsAssumption DEF BeginUpdate, Updater
  <2>2. planned[r] # 0 /\ (planned[r] + 1) .. version \cap ciWrites = {}
    <3>1. lock # r
      BY <1>5, RunsAssumption DEF BeginUpdate
    <3> QED BY <1>2, <3>1 DEF PlanInv, PlanStaysFresh
  <2>3. ~updated[r]
    BY <1>1, <1>2 DEF RunInv, UpdateOf
  <2>4. Complete' = Complete
    BY <2>1 DEF Complete
  <2> QED BY <1>2, <1>4, <2>1, <2>2, <2>3, <2>4
          DEF Promise!StartUpdate, Promise!PlanIsFresh, Promise!checkpoint,
              Complete, Updater, Seen, SeenBy, Received, Sent
<1>6. CASE UpdateWrites(r)
  <2>1. /\ Updater = r /\ Updater' = Updater /\ version' = version + 1
        /\ ciWrites' = ciWrites \cup {version'}
    BY <1>6 DEF UpdateWrites, Updater
  <2>2. Complete' \in BOOLEAN
    BY DEF Complete
  <2> QED BY <1>2, <1>4, <2>1, <2>2
          DEF Promise!WriteCheckpoint, Complete, Updater, Seen, SeenBy,
              Received, Sent
<1>7. CASE UpdateEnds(r) \/ UpdateAborts(r)
  <2>1. /\ Updater = r /\ Updater' = NoOne
        /\ UNCHANGED <<version, graph, ciWrites>>
    BY <1>7, RunsAssumption DEF UpdateEnds, UpdateAborts, Updater
  <2>2. Complete' = Complete
    BY <2>1 DEF Complete
  <2> QED BY <1>2, <1>4, <2>1, <2>2
          DEF Promise!StopUpdate, Promise!checkpoint, Complete, Updater, Seen,
              SeenBy, Received, Sent
<1> QED BY <1>5, <1>6, <1>7

LEMMA ConfirmRefines ==
    ASSUME PInv, [Next]_vars, NEW r \in Runs, Confirm(r)
    PROVE  Promise!ConfirmUpdate(r)
<1> USE DEF PInv, TypeOK, ControlOK, EvidenceOK
<1>1. AllActions(r) /\ RunInv(r)
  BY DEF AllActions, RunStep, EvidenceInv, RunInv
<1>2. /\ step[r] = "confirm" /\ step'[r] # "review" /\ UNCHANGED stack
      /\ UNCHANGED <<initial, planned, observed, receipt, dispatched>>
      /\ updated' = [updated EXCEPT ![r] = TRUE]
      /\ lock = NoOne /\ graph = "full"
  BY DEF Confirm, Goto, In
<1>3. SameReceipt(r) /\ SeenBy(r)' = SeenBy(r)
  BY <1>2 DEF SameReceipt, SeenBy
<1>4. Seen' = Seen /\ Received' = Received /\ Sent' = Sent
  BY <1>1, <1>2, <1>3, FieldsStay
<1>5. planned[r] # 0
  <2>1. started[r] # 0
    BY <1>1, <1>2 DEF RunInv, UpdateOf
  <2> QED BY <2>1 DEF PlanInv, UpdateFollowsItsPlan
<1>6. Updater = NoOne /\ Updater' = Updater /\ Complete /\ Complete' = Complete
  BY <1>2, RunsAssumption DEF Updater, Complete, stack
<1> QED BY <1>2, <1>4, <1>5, <1>6
        DEF Promise!ConfirmUpdate, Promise!checkpoint, Complete, Updater, Seen,
            SeenBy, Received, Sent, stack

(* The second capture of an observation is what the promise calls seeing;  *)
(* a job that fails before its review loses it.                            *)
LEMMA ObserveRefines ==
    ASSUME PInv, [Next]_vars, NEW r \in Runs, Recapture(r)
    PROVE  Promise!Observe(r)
<1> USE DEF PInv, TypeOK, ControlOK, EvidenceOK
<1>1. AllActions(r) /\ RunInv(r)
  BY DEF AllActions, RunStep, EvidenceInv, RunInv
<1>2. /\ step[r] = "recapture" /\ step'[r] = "review" /\ UNCHANGED stack
      /\ UNCHANGED evidence /\ lock = NoOne /\ graph = "full"
      /\ version = initial[r]
  BY DEF Recapture, Goto, In
<1>3. updated[r]
  <2>1. attempt[r] = 1 /\ stage[r] = "observation"
    BY <1>1, <1>2 DEF RunInv, StepsOfJobs, PlanInv, FirstTryOnly, InsideSteps
  <2> QED BY <1>1, <2>1 DEF RunInv, UpdateOf
<1>4. SameReceipt(r) /\ SeenBy(r)' = version
  BY <1>2 DEF SameReceipt, SeenBy, evidence
<1>5. Received' = Received /\ Sent' = Sent
  BY <1>1, <1>2, <1>4, FieldsStay DEF evidence
<1>6. Seen' = [Seen EXCEPT ![r] = version]
  BY <1>1, <1>4, OneRunMoves
<1>7. Updater = NoOne /\ Updater' = Updater /\ Complete /\ Complete' = Complete
  BY <1>2, RunsAssumption DEF Updater, Complete, stack
<1> QED BY <1>2, <1>3, <1>5, <1>6, <1>7
        DEF Promise!Observe, Promise!checkpoint, Complete, Updater, Seen,
            SeenBy, Received, Sent, stack, evidence

LEMMA FailureRefines ==
    ASSUME PInv, [Next]_vars, NEW r \in Runs, JobFails(r)
    PROVE  Promise!LoseObservation(r) \/ UNCHANGED promised
<1> USE DEF PInv, TypeOK, ControlOK, EvidenceOK
<1>1. AllActions(r) /\ RunInv(r)
  BY DEF AllActions, RunStep, EvidenceInv, RunInv
<1>2. step'[r] = "idle" /\ UNCHANGED results /\ UNCHANGED stack
  BY DEF JobFails, JobEnds
<1>3. SameReceipt(r)
  BY <1>2 DEF SameReceipt, results
<1>4. Received' = Received /\ Sent' = Sent
  BY <1>1, <1>2, <1>3, FieldsStay DEF results
<1>5. Updater' = Updater /\ Complete' = Complete
  BY <1>2 DEF Updater, Complete, stack
<1>6. CASE step[r] = "review"
  <2>1. attempt[r] = 1 /\ stage[r] = "observation"
    BY <1>1, <1>6 DEF RunInv, StepsOfJobs, PlanInv, FirstTryOnly, InsideSteps
  <2>2. observed[r] = 0 /\ receipt[r] = "none"
    BY <1>1, <2>1 DEF RunInv, ReceiptOf
  <2>3. SeenBy(r)' = 0
    BY <1>2, <2>2 DEF SeenBy, results
  <2>4. Seen' = [Seen EXCEPT ![r] = 0]
    BY <1>1, <2>3, OneRunMoves
  <2>5. ~Received[r]
    BY <2>2 DEF Received
  <2> QED BY <1>2, <1>4, <1>5, <2>4, <2>5
          DEF Promise!LoseObservation, Promise!checkpoint, Complete, Updater,
              Seen, SeenBy, Received, Sent, stack, results
<1>7. CASE step[r] # "review"
  <2>1. SeenBy(r)' = SeenBy(r)
    BY <1>2, <1>7 DEF SeenBy, results
  <2>2. Seen' = Seen
    BY <1>1, <2>1, FieldsStay
  <2> QED BY <1>2, <1>4, <1>5, <2>2 DEF promised, stack, results
<1> QED BY <1>6, <1>7

LEMMA ReceiptRefines ==
    ASSUME PInv, [Next]_vars, NEW r \in Runs,
           CompleteReceipt(r) \/ DispatchPost(r)
    PROVE  Promise!IssueReceipt(r) \/ Promise!TellPublisher(r)
<1> USE DEF PInv, TypeOK, ControlOK, EvidenceOK
<1>1. AllActions(r) /\ RunInv(r)
  BY DEF AllActions, RunStep, EvidenceInv, RunInv
<1>2. /\ UNCHANGED stack /\ UNCHANGED <<initial, planned, updated, observed>>
      /\ step[r] \in {"status", "post"} /\ step'[r] # "review"
  BY DEF CompleteReceipt, DispatchPost, Goto, At
<1>3. SeenBy(r)' = SeenBy(r) /\ SeenBy(r) = observed[r]
  BY <1>2 DEF SeenBy
<1>4. Seen' = Seen /\ Seen[r] = observed[r]
  BY <1>1, <1>3, FieldsStay DEF Seen
<1>5. Updater' = Updater /\ Complete' = Complete
  BY <1>2 DEF Updater, Complete, stack
<1>6. CASE CompleteReceipt(r)
  <2>1. /\ step[r] = "status" /\ receipt'[r] = "success"
        /\ dispatched' = dispatched
    BY <1>6 DEF CompleteReceipt, At
  <2>2. observed[r] # 0
    BY <1>1, <2>1 DEF RunInv, ReceiptOf, UpdateOf
  <2>3. Received' = [Received EXCEPT ![r] = TRUE] /\ Sent' = Sent
    BY <1>1, <2>1, OneRunMoves, FieldsStay
  <2> QED BY <1>2, <1>4, <1>5, <2>2, <2>3
          DEF Promise!IssueReceipt, Promise!checkpoint, Complete, Updater,
              Seen, SeenBy, Received, Sent, stack
<1>7. CASE DispatchPost(r)
  <2>1. /\ stage[r] = "dispatch" /\ step[r] = "post" /\ attempt[r] = 1
        /\ outcome[r] = "none" /\ receipt[r] = "success" /\ receipt' = receipt
        /\ dispatched'[r] = dispatched[r] + 1
    BY <1>7 DEF DispatchPost, DispatchReady, FirstAttempt, At, Running
  <2>2. dispatched[r] = 0
    BY <1>1, <2>1 DEF RunInv, DispatchOf
  <2>3. Received[r] /\ ~Sent[r]
    <3>1. /\ Sent[r] = (dispatched[r] > 0)
          /\ Received[r] = (receipt[r] = "success")
      BY DEF Sent, Received
    <3>2. ~(dispatched[r] > 0)
      BY <2>2
    <3> QED BY <2>1, <3>1, <3>2
  <2>4. SameReceipt(r) /\ dispatched'[r] > 0
    BY <2>1, <2>2 DEF SameReceipt
  <2>5. Received' = Received /\ Sent' = [Sent EXCEPT ![r] = TRUE]
    BY <1>1, <2>4, OneRunMoves, FieldsStay
  <2> QED BY <1>2, <1>4, <1>5, <2>3, <2>5
          DEF Promise!TellPublisher, Promise!checkpoint, Complete, Updater,
              Seen, SeenBy, Received, Sent, stack
<1> QED BY <1>6, <1>7

LEMMA StepRefines ==
    ASSUME PInv, [Next]_vars
    PROVE  Promise!PNext \/ UNCHANGED promised
<1>1. CASE UNCHANGED vars
  BY <1>1 DEF vars, control, evidence, stack, promised, Complete, Updater,
              Seen, SeenBy, Received, Sent
<1>2. CASE World \/ Others
  BY <1>2, OutsideRefines DEF Promise!PNext
<1>3. ASSUME NEW r \in Runs, AllActions(r)
      PROVE  Promise!PNext \/ UNCHANGED promised
  BY <1>3, QuietSteps, GateRefines, UpdateRefines, ConfirmRefines,
     ObserveRefines, FailureRefines, ReceiptRefines
     DEF AllActions, RunStep, Promise!PNext
<1> QED BY <1>1, <1>2, <1>3 DEF Next, AllActions

(* The TEST delivery implements DeliveryPromise: whatever pull requests,   *)
(* jobs, visitors and operators do, commands plan, update, observe, issue  *)
(* receipts and tell the publisher only as the promise lets them.          *)
THEOREM DeliveryKeepsPromise == Spec => KeepsPromise
<1>1. Init => Promise!PInit
  <2> SUFFICES ASSUME Init PROVE Promise!PInit
    OBVIOUS
  <2>1. \A r \in Runs : /\ SeenBy(r) = 0 /\ ~(receipt[r] = "success")
                        /\ ~(dispatched[r] > 0)
    <3> TAKE r \in Runs
    <3>1. /\ step[r] = "idle" /\ observed[r] = 0 /\ receipt[r] = "none"
          /\ dispatched[r] = 0
      BY DEF Init
    <3> QED BY <3>1 DEF SeenBy
  <2>2. /\ Seen = [r \in Runs |-> 0] /\ Received = [r \in Runs |-> FALSE]
        /\ Sent = [r \in Runs |-> FALSE]
    <3>1. \A r \in Runs : (receipt[r] = "success") = FALSE
      BY <2>1
    <3>2. \A r \in Runs : (dispatched[r] > 0) = FALSE
      <4>1. (0 > 0) = FALSE
        OBVIOUS
      <4>2. \A r \in Runs : dispatched[r] = 0
        BY DEF Init
      <4> QED BY <4>1, <4>2, Zenon
    <3>3. Seen = [r \in Runs |-> 0]
      BY <2>1 DEF Seen
    <3>4. Received = [r \in Runs |-> FALSE]
      BY <3>1, Zenon DEF Received
    <3>5. Sent = [r \in Runs |-> FALSE]
      BY <3>2, Zenon DEF Sent
    <3> QED BY <3>3, <3>4, <3>5
  <2>3. Updater = NoOne /\ Complete \in BOOLEAN
    BY DEF Init, Updater, Complete
  <2> QED BY <2>2, <2>3 DEF Init, Promise!PInit, Seen, SeenBy, Received, Sent,
                            Updater, Complete
<1>2. PInv /\ [Next]_vars => [Promise!PNext]_(Promise!pvars)
  BY StepRefines
     DEF promised, Promise!pvars, Complete, Updater, Seen, SeenBy, Received,
         Sent
<1>3. Spec => []PInv
  BY TypeCorrect, GroupGuards, EvidenceHolds, PTL DEF PInv
<1> QED BY <1>1, <1>2, <1>3, PTL DEF Spec, KeepsPromise, Promise!PSpec

=============================================================================
