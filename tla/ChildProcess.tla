----------------------------- MODULE ChildProcess -----------------------------
(***************************************************************************)
(* scripts/service_execution_process.py: one call of run() for a child of  *)
(* the unprivileged user.  The worker drains two pipes under a deadline    *)
(* and a size limit, waits for the program, and then kills whatever is     *)
(* left of its descendants, found one by one in /proc while they live on.  *)
(***************************************************************************)
EXTENDS Naturals, FiniteSets

CONSTANTS
    Procs, Main,       \* processes of the program; the one run() starts
    Capacity,          \* chunks a pipe holds
    Limit,             \* [Streams -> Nat] MAX_BYTES and the bound on stderr
    Timeout, Cleanup,  \* the two deadlines
    MaxTime, MaxChunks \* bounds on the clock and on what is written

Streams == {"stdout", "stderr"}

ProcessAssumption ==
    /\ Main \in Procs /\ IsFiniteSet(Procs)
    /\ Capacity \in Nat \ {0} /\ Limit \in [Streams -> Nat]
    /\ {Timeout, Cleanup, MaxTime, MaxChunks} \subseteq Nat

VARIABLES
    now,
    life,       \* [Procs -> "unborn", "live", "zombie" or "gone"]
    opens,      \* [Procs -> SUBSET Streams] streams a process can write
    pipe,       \* [Streams -> Nat] chunks in the pipe
    written,    \* [Streams -> Nat] chunks the processes wrote
    code,       \* "none", "zero" or "other": how Main ended
    step,       \* of the worker
    reading,    \* streams the selector has
    got,        \* [Streams -> Nat] chunks collected
    verdict,    \* "none", "ok" or "error": what run() will do
    listed,     \* processes of /proc not yet looked at
    found,      \* result of the scan so far
    until,      \* deadline of the step
    born,       \* processes forked since the scan began
    slipped     \* history: a process forked and ended within one scan

program == <<life, opens, pipe, written, code>>
scan == <<listed, found, born, slipped>>
vars == <<now, program, step, reading, got, verdict, scan, until>>

Steps == {"drain", "wait", "kill", "reap", "list", "look", "found", "sleep", "ended"}

(* The processes, pipes and the worker have their types.                   *)
TypeOK ==
    /\ now \in 0 .. MaxTime
    /\ life \in [Procs -> {"unborn", "live", "zombie", "gone"}]
    /\ opens \in [Procs -> SUBSET Streams]
    /\ pipe \in [Streams -> 0 .. Capacity]
    /\ written \in [Streams -> 0 .. MaxChunks]
    /\ code \in {"none", "zero", "other"}
    /\ step \in Steps /\ reading \subseteq Streams
    /\ got \in [Streams -> Nat]
    /\ verdict \in {"none", "ok", "error"}
    /\ listed \subseteq Procs /\ found \subseteq Procs /\ born \subseteq Procs
    /\ until \in Nat /\ slipped \in BOOLEAN

Init ==
    /\ now = 0
    /\ life = [p \in Procs |-> IF p = Main THEN "live" ELSE "unborn"]
    /\ opens = [p \in Procs |-> IF p = Main THEN Streams ELSE {}]
    /\ pipe = [s \in Streams |-> 0] /\ written = pipe /\ got = pipe
    /\ code = "none"
    /\ step = "drain" /\ reading = Streams /\ verdict = "none"
    /\ listed = {} /\ found = {} /\ born = {} /\ slipped = FALSE
    /\ until = Timeout

Live == {p \in Procs : life[p] = "live"}
Scanning == step = "look"

-----------------------------------------------------------------------------
(* The program and the kernel.                                             *)

Worker == UNCHANGED <<now, step, reading, got, verdict, listed, found, until>>

Fork(p) ==
    /\ p \in Live
    /\ \E q \in Procs :
        /\ life[q] = "unborn"
        /\ life' = [life EXCEPT ![q] = "live"]
        /\ opens' = [opens EXCEPT ![q] = opens[p]]
        /\ born' = IF Scanning THEN born \cup {p} ELSE born
    /\ UNCHANGED <<pipe, written, code, slipped>> /\ Worker

(* A full pipe blocks, and one without a reader ends the writer.           *)
WriteOut(p) ==
    \E s \in opens[p] :
        /\ p \in Live
        /\ step \in {"drain", "wait", "kill", "reap"}
        /\ pipe[s] < Capacity /\ written[s] < MaxChunks
        /\ pipe' = [pipe EXCEPT ![s] = @ + 1]
        /\ written' = [written EXCEPT ![s] = @ + 1]
        /\ UNCHANGED <<life, opens, code, born, slipped>> /\ Worker

CloseStream(p) ==
    \E s \in opens[p] :
        /\ p \in Live
        /\ opens' = [opens EXCEPT ![p] = @ \ {s}]
        /\ UNCHANGED <<life, pipe, written, code, born, slipped>> /\ Worker

Dies(p, how) ==
    /\ life' = [life EXCEPT ![p] = "zombie"]
    /\ opens' = [opens EXCEPT ![p] = {}]
    /\ code' = IF p = Main THEN how ELSE code
    /\ slipped' = (slipped \/ (Scanning /\ p \in born))

Exit(p) ==
    /\ p \in Live
    /\ \E how \in {"zero", "other"} : Dies(p, how)
    /\ UNCHANGED <<pipe, written, born>> /\ Worker

(* Mutant: a program that closed its streams is waited for without end.    *)
NoWaitEnd == MaxTime + 1

(* The wait takes what is left of the deadline of the streams.             *)
WaitEnd == until

(* Time passes when the worker waits: for a stream, for Main or asleep.    *)
CanRead(s) == s \in reading /\ (pipe[s] > 0 \/ \A p \in Procs : s \notin opens[p])

Idle ==
    \/ step = "drain" /\ now < until /\ ~ \E s \in Streams : CanRead(s)
    \/ step = "wait" /\ now < WaitEnd /\ life[Main] = "live"
    \/ step = "sleep"

Tick ==
    /\ now < MaxTime /\ Idle
    /\ now' = now + 1
    /\ step' = IF step = "sleep" THEN "list" ELSE step
    /\ UNCHANGED <<program, reading, got, verdict, scan, until>>

Program ==
    \/ Tick
    \/ \E p \in Procs : Fork(p) \/ WriteOut(p) \/ CloseStream(p) \/ Exit(p)

-----------------------------------------------------------------------------
(* _streams: drain both pipes, then wait for the program.                  *)

Leave(result) == step' = "kill" /\ verdict' = result

(* One chunk, or the end of the stream, whichever stream is ready.         *)
Read(s) ==
    /\ step = "drain" /\ now < until /\ CanRead(s)
    /\ \/ /\ pipe[s] > 0
          /\ pipe' = [pipe EXCEPT ![s] = @ - 1]
          /\ IF got[s] < Limit[s]
             THEN got' = [got EXCEPT ![s] = @ + 1] /\ UNCHANGED <<step, verdict>>
             ELSE Leave("error") /\ UNCHANGED got
          /\ UNCHANGED reading
       \/ /\ pipe[s] = 0
          /\ reading' = reading \ {s}
          /\ UNCHANGED <<pipe, got, step, verdict>>
    /\ UNCHANGED <<now, life, opens, written, code, scan, until>>

(* Mutant: the output is complete when the program has ended.              *)
DrainedAtExit ==
    /\ step = "drain"
    /\ IF reading = {} \/ life[Main] = "zombie"
       THEN step' = "wait" /\ UNCHANGED verdict
       ELSE now >= until /\ Leave("error")
    /\ UNCHANGED <<now, program, reading, got, scan, until>>

Drained ==
    /\ step = "drain"
    /\ IF reading = {} THEN step' = "wait" /\ UNCHANGED verdict
                       ELSE now >= until /\ Leave("error")
    /\ UNCHANGED <<now, program, reading, got, scan, until>>

(* process.wait for what is left of the deadline, and the return code,     *)
(* which every caller of a preview or an update checks.                    *)
Wait ==
    /\ step = "wait"
    /\ IF life[Main] = "zombie"
       THEN /\ Leave(IF code = "zero" THEN "ok" ELSE "error")
            /\ life' = [life EXCEPT ![Main] = "gone"]
       ELSE now >= WaitEnd /\ Leave("error") /\ UNCHANGED life
    /\ UNCHANGED <<now, opens, pipe, written, code, reading, got, scan, until>>

-----------------------------------------------------------------------------
(* run: the finally block, and _stop_children.                             *)

Kill ==
    /\ step = "kill"
    /\ IF life[Main] = "live" THEN Dies(Main, "other")
                              ELSE UNCHANGED <<life, opens, code, slipped>>
    /\ step' = "reap"
    /\ UNCHANGED <<now, pipe, written, reading, got, verdict, listed, found, born, until>>

Reap ==
    /\ step = "reap"
    /\ life' = [life EXCEPT ![Main] = "gone"]
    /\ step' = "list" /\ until' = now + Cleanup
    /\ UNCHANGED <<now, opens, pipe, written, code, reading, got, verdict, scan>>

(* The directory names the processes there are ...                         *)
List ==
    /\ step = "list"
    /\ listed' = {p \in Procs : life[p] \in {"live", "zombie"}}
    /\ found' = {} /\ born' = {}
    /\ step' = "look"
    /\ UNCHANGED <<now, program, reading, got, verdict, until, slipped>>

(* ... and their states are read one after the other.                      *)
Look(p) ==
    /\ step = "look" /\ p \in listed
    /\ listed' = listed \ {p}
    /\ found' = IF p \in Live THEN found \cup {p} ELSE found
    /\ born' = born \ {p}
    /\ UNCHANGED <<now, program, step, reading, got, verdict, until, slipped>>

(* Mutant: one round of kills is enough.                                   *)
EndOfScanOnce ==
    /\ step = "look" /\ listed = {}
    /\ life' = [p \in Procs |-> IF p \in found THEN "zombie" ELSE life[p]]
    /\ opens' = [p \in Procs |-> IF p \in found THEN {} ELSE opens[p]]
    /\ step' = "ended"
    /\ UNCHANGED <<now, pipe, written, code, reading, got, verdict, scan, until>>

(* Nobody is left, the deadline is over, or all found are killed.          *)
EndOfScan ==
    /\ step = "look" /\ listed = {}
    /\ CASE found = {} -> step' = "ended" /\ UNCHANGED <<life, opens, verdict>>
         [] found # {} /\ now >= until ->
                /\ step' = "ended" /\ verdict' = "error"
                /\ UNCHANGED <<life, opens>>
         [] OTHER ->
                /\ life' = [p \in Procs |->
                              IF p \in found \cap Live THEN "zombie" ELSE life[p]]
                /\ opens' = [p \in Procs |-> IF p \in found THEN {} ELSE opens[p]]
                /\ step' = "sleep" /\ UNCHANGED verdict
    /\ UNCHANGED <<now, pipe, written, code, reading, got, scan, until>>

RunStep ==
    \/ \E s \in Streams : Read(s)
    \/ Drained \/ Wait \/ Kill \/ Reap \/ List
    \/ \E p \in Procs : Look(p)
    \/ EndOfScan

Next == RunStep \/ Program

Spec == Init /\ [][Next]_vars /\ WF_vars(RunStep) /\ WF_vars(Tick)

-----------------------------------------------------------------------------
(* A result that is handed on is whole: the program ended well and nothing *)
(* a descendant wrote, however late, is missing from it.                   *)
SuccessIsWhole ==
    [][step = "wait" /\ verdict' = "ok"
         => code = "zero" /\ got = written /\ \A s \in Streams : got[s] <= Limit[s]]_vars

(* Whatever the program does with its streams and its descendants, the     *)
(* worker waits no longer than the two deadlines and one pause.            *)
EndsInTime == step # "ended" => now <= Timeout + Cleanup + 1

(* A verdict other than an error is given with no process left, unless one *)
(* forked and ended while the scan was on its way to it.                   *)
NoneSurvives == step = "ended" /\ verdict = "ok" /\ ~slipped => Live = {}

ProcessInv == TypeOK /\ EndsInTime /\ NoneSurvives
===============================================================================
