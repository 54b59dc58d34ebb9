---------------------------- MODULE ServiceExecution ----------------------------
(***************************************************************************)
(* The jobs of a TEST delivery with the programs they run: every program   *)
(* of ServiceWorker is one call of ChildProcess, from its start to its     *)
(* verdict.  The host goes on only when run() has returned, takes the      *)
(* program for ended well only by its verdict, and a delivery ends because *)
(* every call does.                                                        *)
(***************************************************************************)
EXTENDS ServiceWorker

CONSTANTS
  Procs, Main, Capacity, Limit, Timeout, Cleanup, MaxTime, MaxChunks

VARIABLES
  now, life, opens, pipe, written, code,
  step, reading, got, verdict, listed, found, until, born, slipped

call == <<now, life, opens, pipe, written, code, step, reading, got, verdict,
          listed, found, until, born, slipped>>

Call == INSTANCE ChildProcess

ASSUME ExecutionAssumption == Call!ProcessAssumption

(* Between two programs the call is the one to come.                       *)
ExecInit == Init /\ Call!Init

NextCall ==
  /\ now' = 0
  /\ life' = [p \in Procs |-> IF p = Main THEN "live" ELSE "unborn"]
  /\ opens' = [p \in Procs |-> IF p = Main THEN Call!Streams ELSE {}]
  /\ pipe' = [s \in Call!Streams |-> 0] /\ written' = pipe' /\ got' = pipe'
  /\ code' = "none"
  /\ step' = "drain" /\ reading' = Call!Streams /\ verdict' = "none"
  /\ listed' = {} /\ found' = {} /\ born' = {} /\ slipped' = FALSE
  /\ until' = Timeout

Returned == running /\ step = "ended"

(* The host between programs; the world at any time; and the plan, which   *)
(* the program writes while it lives.                                      *)
Between ==
  \/ Check \/ Refuse
  \/ Download \/ Replay \/ Publish \/ HostCopy \/ Upload \/ Breaks
  \/ Inputs \/ Begin

HostStep == Between /\ UNCHANGED call
WorldStep == (BeginDelivery \/ World) /\ UNCHANGED call
PlanStep == life[Main] = "live" /\ Write /\ UNCHANGED call

(* A step of the call or of its processes.  Pulumi ends well only when it  *)
(* has written to its end what it writes.                                  *)
CallStep == running /\ Call!RunStep /\ UNCHANGED vars
TimeStep == running /\ Call!Tick /\ UNCHANGED vars
ProcessStep ==
  /\ running
  /\ \E p \in Procs : \/ Call!Fork(p) \/ Call!WriteOut(p)
                      \/ Call!CloseStream(p) \/ Call!Exit(p)
  /\ Step = "preview" /\ code' = "zero" =>
       tree["output"]["pulumi-plan"] # "half"
  /\ UNCHANGED vars

(* A program that ended well may have written no plan: the collection of   *)
(* its output fails.                                                       *)
PlanMissing == Step = "preview" /\ tree["output"]["pulumi-plan"] = "absent"

(* Mutant: the verdict of the call is not looked at.                       *)
GoesOnAnyway == Returned /\ ProgramEnds /\ NextCall

(* The call has returned well: the host takes what the program leaves,     *)
(* or gives up where the plan is not there.                                *)
GoesOn == Returned /\ verdict = "ok" /\ ProgramEnds /\ NextCall

GivesUp ==
  /\ Returned
  /\ verdict = "ok" => PlanMissing
  /\ ProgramFails /\ NextCall

ExecNext ==
  \/ WorldStep \/ HostStep \/ PlanStep
  \/ CallStep \/ TimeStep \/ ProcessStep
  \/ GoesOn \/ GivesUp

ExecVars == <<vars, call>>

(* The worker and the host go on until the job ends, and time passes.      *)
ExecSpec ==
  /\ ExecInit /\ [][ExecNext]_ExecVars
  /\ WF_ExecVars(HostStep) /\ WF_ExecVars(GoesOn \/ GivesUp)
  /\ WF_ExecVars(CallStep) /\ WF_ExecVars(TimeStep)

-----------------------------------------------------------------------------
(* The calls end in time and leave nobody behind.                          *)
ProcessInv == Call!ProcessInv

(* A job goes on from a program only with all it and its descendants ever  *)
(* wrote, and only when it ended well.                                     *)
GoesOnFromWhole ==
  [][running /\ ~running' /\ job' # 0 => code = "zero" /\ got = written]_ExecVars

(* What the host takes for a result is the whole output of a program that  *)
(* ended well, and a preview or an update began for a request that stood   *)
(* at some moment after the program before it ended.                       *)
WholeAndAdmitted ==
  Call!SuccessIsWhole /\ GoesOnFromWhole /\ ProgramsAreAdmitted
===============================================================================
