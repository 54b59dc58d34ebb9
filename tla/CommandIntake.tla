----------------------------- MODULE CommandIntake -----------------------------
(***************************************************************************)
(* From a "/pulumi test up" comment to a command run allowed to start:     *)
(* .github/workflows/pulumi-pr-commands.yml records what the comment asked *)
(* for and dispatches self-deploy.yml, whose first job,                    *)
(* scripts/pulumi_command_preflight.py, authenticates the dispatch against *)
(* that record and consumes the comment, and whose second,                 *)
(* scripts/poc_phase_source_adapter.py, authenticates it again before      *)
(* anything is done with it.  Each step below is one read or write of      *)
(* GitHub; between two of them comments are edited, heads pushed, intake   *)
(* runs re-run and requests of any content dispatched.  The base revision  *)
(* and the review are the subject of RegistryDelivery and ReviewedSource.  *)
(***************************************************************************)
EXTENDS Naturals

CONSTANTS
    Comments, PRs, Heads, Runs,
    PrOf,          \* [Comments -> PRs]
    AuthorOf,      \* [Comments -> Users]
    Users,
    Approver,      \* the sole approver, who may not request an apply
    Commands,      \* what comments may ask for: of "plan" and "up"
    FirstHead,     \* the head every pull request opens with
    NoRequest,     \* nothing recorded or dispatched yet
    Nobody,        \* an empty slot of a concurrency group
    StaleAfter,    \* 300 seconds, in ticks of the clock
    ExpiresAfter,  \* 900 seconds
    TimeLimit,     \* timeout-minutes of the preflight job
    MaxClock,      \* bound on the clock
    MaxEvents      \* bound on pushes, edits, closings, re-runs and repeats

ASSUME IntakeAssumption ==
    /\ PrOf \in [Comments -> PRs]
    /\ AuthorOf \in [Comments -> Users]
    /\ Commands \subseteq {"plan", "up"}
    /\ FirstHead \in Heads
    /\ Nobody \notin Comments \cup Runs
    /\ StaleAfter \in Nat /\ ExpiresAfter \in Nat /\ TimeLimit \in Nat
    /\ MaxClock \in Nat /\ MaxEvents \in Nat

VARIABLES
    clock,
    events,
    prs,         \* [PRs -> [head, open]]
    writers,     \* users with write access
    comment,     \* [Comments -> [state, said, body, created]], said first
    intake,      \* [Comments -> [step, attempt, created, head]] intake run
    intakeGroup, \* [PRs -> concurrency group of intake runs]
    artifact,    \* [Comments -> Requests \cup {NoRequest}] latest upload
    recorded,    \* history: what the first attempt of the intake uploaded
    request,     \* [Runs -> Requests \cup {NoRequest}] dispatch payload
    step,        \* [Runs -> Steps] the command run
    since,       \* [Runs -> Nat] when its preflight job started
    runGroup,    \* [PRs -> concurrency group of command runs]
    claims,      \* commit statuses "Pulumi command claim/<comment>"
    claimedAt,   \* history: [Runs -> Nat] when the run posted its claim
    torn         \* history: runs that read their intake run before a re-run
                 \* of it and its artifact after

github == <<prs, writers, comment>>
intakes == <<intake, intakeGroup, artifact, recorded>>
commands == <<request, step, since, runGroup, claims, claimedAt, torn>>
vars == <<clock, events, github, intakes, commands>>

Grp == INSTANCE ConcurrencyGroup

Bodies == Commands \cup {"chat"}

(* The comment stands for its intake run too: a payload that names another *)
(* run differs from that run's artifact and is refused where it is read.   *)
Requests == [comment : Comments, pr : PRs, head : Heads, command : Commands]

ASSUME NoRequestAssumption == NoRequest \notin Requests

Claims == [comment : Comments, head : Heads]

IntakeSteps == {"none", "queued", "record", "dispatch", "answer",
                "done", "failed"}

(* "claimed" and "again" are the job that prepares the source, and         *)
(* "working" is the rest of the workflow.                                  *)
Steps == {"unused", "queued", "artifact", "comment", "head", "review", "now",
          "permission", "statuses", "claim", "claimed", "again", "working",
          "ended", "failed"}

Preflighting == {"artifact", "comment", "head", "review", "now", "permission",
                 "statuses", "claim"}

(* Comments, intake runs, requests, groups and claims have their types.    *)
TypeOK ==
    /\ clock \in Nat /\ events \in Nat
    /\ prs \in [PRs -> [head : Heads, open : BOOLEAN]]
    /\ writers \in SUBSET Users
    /\ comment \in [Comments -> [state : {"none", "posted", "edited"},
                                 said : Bodies, body : Bodies, created : Nat]]
    /\ intake \in [Comments -> [step : IntakeSteps, attempt : {1, 2},
                                created : Nat, head : Heads]]
    /\ intakeGroup \in [PRs -> Grp!GroupOf(Comments)]
    /\ artifact \in [Comments -> Requests \cup {NoRequest}]
    /\ recorded \in [Comments -> Requests \cup {NoRequest}]
    /\ request \in [Runs -> Requests \cup {NoRequest}]
    /\ step \in [Runs -> Steps]
    /\ since \in [Runs -> Nat]
    /\ runGroup \in [PRs -> Grp!GroupOf(Runs)]
    /\ claims \in SUBSET Claims
    /\ claimedAt \in [Runs -> Nat]
    /\ torn \in SUBSET Runs

Init ==
    /\ clock = 0 /\ events = 0
    /\ prs = [p \in PRs |-> [head |-> FirstHead, open |-> TRUE]]
    /\ writers = Users
    /\ comment = [c \in Comments |->
        [state |-> "none", said |-> "chat", body |-> "chat", created |-> 0]]
    /\ intake = [c \in Comments |-> [step |-> "none", attempt |-> 1,
                                     created |-> 0, head |-> FirstHead]]
    /\ intakeGroup = [p \in PRs |-> Grp!EmptyGroup]
    /\ artifact = [c \in Comments |-> NoRequest]
    /\ recorded = [c \in Comments |-> NoRequest]
    /\ request = [d \in Runs |-> NoRequest]
    /\ step = [d \in Runs |-> "unused"]
    /\ since = [d \in Runs |-> 0]
    /\ runGroup = [p \in PRs |-> Grp!EmptyGroup]
    /\ claims = {}
    /\ claimedAt = [d \in Runs |-> 0]
    /\ torn = {}

-----------------------------------------------------------------------------
(* GitHub moves on.                                                        *)

(* A running preflight job is killed when its time limit is reached, so no *)
(* tick finds it older.                                                    *)
Tick ==
    /\ clock < MaxClock
    /\ \A d \in Runs : step[d] \in Preflighting => clock < since[d] + TimeLimit
    /\ clock' = clock + 1
    /\ UNCHANGED <<events, github, intakes, commands>>

Event == events < MaxEvents /\ events' = events + 1

Push(p) ==
    /\ Event
    /\ prs[p].open
    /\ \E h \in Heads \ {prs[p].head} : prs' = [prs EXCEPT ![p].head = h]
    /\ UNCHANGED <<clock, writers, comment, intakes, commands>>

Close(p) ==
    /\ Event
    /\ prs[p].open
    /\ prs' = [prs EXCEPT ![p].open = FALSE]
    /\ UNCHANGED <<clock, writers, comment, intakes, commands>>

Revoke(u) ==
    /\ Event
    /\ u \in writers
    /\ writers' = writers \ {u}
    /\ UNCHANGED <<clock, prs, comment, intakes, commands>>

(* An edit in the second of the comment itself leaves updated_at equal to  *)
(* created_at and cannot be told from none.                                *)
EditComment(c) ==
    /\ Event
    /\ comment[c].state # "none"
    /\ \E b \in Bodies, s \in {"posted", "edited"} :
          /\ s = "posted" => comment[c].state = "posted"
                             /\ clock = comment[c].created
          /\ comment' = [comment EXCEPT ![c].state = s, ![c].body = b]
    /\ UNCHANGED <<clock, prs, writers, intakes, commands>>

Say(c) ==
    /\ comment[c].state = "none"
    /\ \E b \in Bodies : comment' = [comment EXCEPT ![c] =
            [state |-> "posted", said |-> b, body |-> b, created |-> clock]]
    /\ UNCHANGED <<clock, events, prs, writers, intakes, commands>>

World == \/ Tick
         \/ \E p \in PRs : Push(p) \/ Close(p)
         \/ \E u \in Users : Revoke(u)
         \/ \E c \in Comments : EditComment(c) \/ Say(c)

-----------------------------------------------------------------------------
(* The intake run of a comment.                                            *)

(* The slot of the intake group a queued run takes, and whom it displaces. *)
IntakeQueues(c) ==
    LET p == PrOf[c]
        out == Grp!Displaced(intakeGroup[p])
    IN /\ intakeGroup' = [intakeGroup EXCEPT ![p] = Grp!Enter(@, c)]
       /\ intake' = [e \in Comments |->
             IF e = c THEN [step |-> "queued",
                            attempt |-> IF intake[c].step = "none" THEN 1 ELSE 2,
                            created |-> IF intake[c].step = "none" THEN clock
                                        ELSE intake[c].created,
                            head |-> intake[c].head]
             ELSE IF e = out THEN [intake[e] EXCEPT !.step = "failed"]
             ELSE intake[e]]

(* issue_comment starts a run some time after the comment is posted.       *)
IntakeArrives(c) ==
    /\ comment[c].state # "none"
    /\ intake[c].step = "none"
    /\ IntakeQueues(c)
    /\ UNCHANGED <<clock, events, github, artifact, recorded, commands>>

(* Somebody re-runs an intake run that ended; 2 is any later attempt.      *)
IntakeRerun(c) ==
    /\ Event
    /\ intake[c].step \in {"done", "failed"}
    /\ IntakeQueues(c)
    /\ UNCHANGED <<clock, github, artifact, recorded, commands>>

IntakeAt(c, s) == intake[c].step = s /\ intakeGroup[PrOf[c]].holder = c

IntakeEnds(c, s) ==
    /\ intake' = [intake EXCEPT ![c].step = s]
    /\ intakeGroup' = [intakeGroup EXCEPT ![PrOf[c]] = Grp!Release(@)]

(* author_is_authorized: an apply comes from someone else than the sole    *)
(* approver.                                                               *)
MayAsk(c, command) == command = "up" => AuthorOf[c] # Approver

(* The parse reads the event's own copy of the comment.  One that asks for *)
(* nothing, is not authorized or belongs to a closed pull request ends the *)
(* run.                                                                    *)
IntakeReadsHead(c) ==
    /\ IntakeAt(c, "queued")
    /\ comment[c].said # "chat" /\ MayAsk(c, comment[c].said)
    /\ prs[PrOf[c]].open
    /\ intake' = [intake EXCEPT ![c].step = "record",
                                ![c].head = prs[PrOf[c]].head]
    /\ UNCHANGED <<clock, events, github, intakeGroup, artifact, recorded,
                   commands>>

IntakeRefuses(c) ==
    /\ IntakeAt(c, "queued")
    /\ \/ comment[c].said = "chat" \/ ~MayAsk(c, comment[c].said)
       \/ ~prs[PrOf[c]].open
    /\ IntakeEnds(c, "done")
    /\ UNCHANGED <<clock, events, github, artifact, recorded, commands>>

(* The request is written and uploaded; a later attempt replaces it.       *)
IntakeRecords(c) ==
    LET q == [comment |-> c, pr |-> PrOf[c], head |-> intake[c].head,
              command |-> comment[c].said]
    IN /\ IntakeAt(c, "record")
       /\ artifact' = [artifact EXCEPT ![c] = q]
       /\ recorded' = IF intake[c].attempt = 1
                      THEN [recorded EXCEPT ![c] = q] ELSE recorded
       /\ intake' = [intake EXCEPT ![c].step = "dispatch"]
       /\ UNCHANGED <<clock, events, github, intakeGroup, commands>>

(* repository_dispatch: a new command run joins the group of the pull      *)
(* request that the payload names; a run it displaces is cancelled before  *)
(* its first job.                                                          *)
Dispatch(q) ==
    LET p == q.pr
        out == Grp!Displaced(runGroup[p])
    IN \E d \in Runs :
        /\ step[d] = "unused"
        /\ request' = [request EXCEPT ![d] = q]
        /\ runGroup' = [runGroup EXCEPT ![p] = Grp!Enter(@, d)]
        /\ step' = [e \in Runs |-> IF e = d THEN "queued"
                                  ELSE IF e = out THEN "failed" ELSE step[e]]
        /\ UNCHANGED <<since, claims, claimedAt, torn>>

IntakeDispatches(c) ==
    /\ IntakeAt(c, "dispatch")
    /\ Dispatch(artifact[c])
    /\ intake' = [intake EXCEPT ![c].step = "answer"]
    /\ UNCHANGED <<clock, events, github, intakeGroup, artifact, recorded>>

(* "Queued ... for ...", and the run ends.                                 *)
IntakeAnswers(c) ==
    /\ IntakeAt(c, "answer")
    /\ IntakeEnds(c, "done")
    /\ UNCHANGED <<clock, events, github, artifact, recorded, commands>>

(* A step fails, or its answer is lost, or the job reaches its time limit. *)
IntakeFails(c) ==
    /\ \E s \in {"queued", "record", "dispatch", "answer"} : IntakeAt(c, s)
    /\ IntakeEnds(c, "failed")
    /\ UNCHANGED <<clock, events, github, artifact, recorded, commands>>

IntakeStep(c) == \/ IntakeReadsHead(c) \/ IntakeRefuses(c) \/ IntakeRecords(c)
                 \/ IntakeDispatches(c) \/ IntakeAnswers(c) \/ IntakeFails(c)

(* Somebody with a write token dispatches a request, recorded or not: any  *)
(* payload that read_request takes, a repetition among them.               *)
Redispatch(q) ==
    /\ Event
    /\ Dispatch(q)
    /\ UNCHANGED <<clock, github, intakes>>

-----------------------------------------------------------------------------
(* The preflight job of a command run.                                     *)

CommentOf(d) == request[d].comment
PrOfRun(d) == request[d].pr

At(d, s) == step[d] = s /\ runGroup[PrOfRun(d)].holder = d

Goto(d, s) ==
    /\ step' = [step EXCEPT ![d] = s]
    /\ UNCHANGED <<request, runGroup>>

Ends(d, s) ==
    /\ step' = [step EXCEPT ![d] = s]
    /\ runGroup' = [runGroup EXCEPT ![PrOfRun(d)] = Grp!Release(@)]
    /\ UNCHANGED request

Unchanged == UNCHANGED <<clock, events, github, intakes>>

(* Mutant: any attempt of the intake run will do.                          *)
TrustedIntakeAnyAttempt(c) ==
    /\ intake[c].step # "none"
    /\ intake[c].created - comment[c].created \in 0 .. StaleAfter

(* authenticate_intake: a run there is, in its first attempt, started soon *)
(* after the comment.                                                      *)
TrustedIntake(c) ==
    /\ intake[c].step # "none"
    /\ intake[c].attempt = 1
    /\ intake[c].created - comment[c].created \in 0 .. StaleAfter

ReadIntakeRun(d) ==
    /\ At(d, "queued")
    /\ TrustedIntake(CommentOf(d))
    /\ since' = [since EXCEPT ![d] = clock]
    /\ Goto(d, "artifact")
    /\ UNCHANGED <<claims, claimedAt, torn>> /\ Unchanged

(* The artifact of the latest attempt is downloaded, whichever attempt the *)
(* run just read was in.                                                   *)
ReadArtifact(d) ==
    /\ At(d, "artifact")
    /\ artifact[CommentOf(d)] = request[d]
    /\ torn' = IF intake[CommentOf(d)].attempt = 1 THEN torn
               ELSE torn \cup {d}
    /\ Goto(d, "comment")
    /\ UNCHANGED <<since, claims, claimedAt>> /\ Unchanged

(* An edited comment is refused, and what it says must be the request.     *)
ReadComment(d) ==
    /\ At(d, "comment")
    /\ comment[CommentOf(d)].state = "posted"
    /\ comment[CommentOf(d)].body = request[d].command
    /\ Goto(d, "head")
    /\ UNCHANGED <<since, claims, claimedAt, torn>> /\ Unchanged

(* collect_evidence reads the pull request before and after the scan of    *)
(* the changed files.                                                      *)
ReadHead(d) ==
    /\ At(d, "head")
    /\ prs[PrOfRun(d)].head = request[d].head
    /\ Goto(d, "review")
    /\ UNCHANGED <<since, claims, claimedAt, torn>> /\ Unchanged

ReadPullRequestAgain(d) ==
    /\ At(d, "review")
    /\ prs[PrOfRun(d)] = [head |-> request[d].head, open |-> TRUE]
    /\ Goto(d, "now")
    /\ UNCHANGED <<since, claims, claimedAt, torn>> /\ Unchanged

(* Mutant: no deadline.                                                    *)
InTimeAlways(d) == clock >= comment[CommentOf(d)].created

InTime(d) == clock - comment[CommentOf(d)].created \in 0 .. ExpiresAfter

ReadClock(d) ==
    /\ At(d, "now")
    /\ InTime(d)
    /\ Goto(d, "permission")
    /\ UNCHANGED <<since, claims, claimedAt, torn>> /\ Unchanged

(* The last read of the evidence, before the environments are verified.    *)
ReadPermission(d) ==
    /\ At(d, "permission")
    /\ AuthorOf[CommentOf(d)] \in writers
    /\ MayAsk(CommentOf(d), request[d].command)
    /\ Goto(d, "statuses")
    /\ UNCHANGED <<since, claims, claimedAt, torn>> /\ Unchanged

(* Mutant: the claim is a status of whatever commit is the head now.       *)
ClaimOfCurrentHead(d) ==
    [comment |-> CommentOf(d), head |-> prs[PrOfRun(d)].head]

ClaimOf(d) == [comment |-> CommentOf(d), head |-> request[d].head]

(* claim_request: the statuses of the head commit, then one more of them.  *)
ReadStatuses(d) ==
    /\ At(d, "statuses")
    /\ ClaimOf(d) \notin claims
    /\ Goto(d, "claim")
    /\ UNCHANGED <<since, claims, claimedAt, torn>> /\ Unchanged

PostClaim(d) ==
    /\ At(d, "claim")
    /\ claims' = claims \cup {ClaimOf(d)}
    /\ claimedAt' = [claimedAt EXCEPT ![d] = clock]
    /\ \/ Goto(d, "claimed")
       \/ Ends(d, "failed")    \* posted, but the answer was lost
    /\ UNCHANGED <<since, torn>> /\ Unchanged

(* Mutant: the job takes the preflight's word for the intake.              *)
RereadNothing(d) ==
    /\ At(d, "claimed")
    /\ Goto(d, "again")
    /\ UNCHANGED <<since, claims, claimedAt, torn>> /\ Unchanged

(* poc_prepare_source: the intake run is read and authenticated again,     *)
RereadIntakeRun(d) ==
    /\ At(d, "claimed")
    /\ TrustedIntake(CommentOf(d))
    /\ Goto(d, "again")
    /\ UNCHANGED <<since, claims, claimedAt, torn>> /\ Unchanged

(* and then all the preflight had read, the deadline included; the reads   *)
(* are taken together, for none of them can undo what the first one found. *)
Revalidate(d) ==
    LET c == CommentOf(d)
    IN /\ At(d, "again")
       /\ artifact[c] = request[d]
       /\ comment[c].state = "posted" /\ comment[c].body = request[d].command
       /\ prs[PrOfRun(d)] = [head |-> request[d].head, open |-> TRUE]
       /\ InTime(d)
       /\ AuthorOf[c] \in writers /\ MayAsk(c, request[d].command)
       /\ Goto(d, "working")
       /\ UNCHANGED <<since, claims, claimedAt, torn>> /\ Unchanged

(* A refused condition, an API error or the time limit.                    *)
PreflightFails(d) ==
    /\ \E s \in Preflighting \cup {"queued", "claimed", "again"} : At(d, s)
    /\ Ends(d, "failed")
    /\ UNCHANGED <<since, claims, claimedAt, torn>> /\ Unchanged

(* The rest of the workflow has run.                                       *)
Finish(d) ==
    /\ At(d, "working")
    /\ Ends(d, "ended")
    /\ UNCHANGED <<since, claims, claimedAt, torn>> /\ Unchanged

RunStep(d) ==
    \/ ReadIntakeRun(d) \/ ReadArtifact(d) \/ ReadComment(d) \/ ReadHead(d)
    \/ ReadPullRequestAgain(d) \/ ReadClock(d) \/ ReadPermission(d)
    \/ ReadStatuses(d) \/ PostClaim(d) \/ RereadIntakeRun(d) \/ Revalidate(d)
    \/ PreflightFails(d) \/ Finish(d)

Next == \/ World
        \/ \E c \in Comments : IntakeArrives(c) \/ IntakeRerun(c) \/ IntakeStep(c)
        \/ \E q \in Requests : Redispatch(q)
        \/ \E d \in Runs : RunStep(d)

Spec == Init /\ [][Next]_vars

(* Jobs that run go on or reach their time limit; comments, pushes, re-runs*)
(* and repeated dispatches need not happen.                                *)
Fairness == /\ \A c \in Comments : WF_vars(IntakeStep(c))
            /\ \A d \in Runs : WF_vars(RunStep(d))

FairSpec == Spec /\ Fairness

-----------------------------------------------------------------------------
(* Properties.                                                             *)

(* The preflight is over and the comment consumed;                         *)
Admitted(d) == step[d] \in {"claimed", "again", "working", "ended"}

(* and the source is prepared, without which nothing else begins.          *)
Prepared(d) == step[d] \in {"working", "ended"}

(* Whatever requests are dispatched, and although a claim is a status read *)
(* and a status written, kept per commit, at most one run of a comment     *)
(* gets as far as to act on it.                                            *)
ActedOnOnce ==
    \A d, e \in Runs :
        Prepared(d) /\ Prepared(e) /\ CommentOf(d) = CommentOf(e) => d = e

(* A run that acts does what the first attempt of the intake run recorded  *)
(* when the comment was made, whatever was edited, pushed, re-run or       *)
(* dispatched since, and whichever attempt uploaded what it compared.      *)
ActedOnAsRecorded ==
    \A d \in Runs : Prepared(d) => request[d] = recorded[CommentOf(d)]

(* claim_request: "Consume a comment once".  A claim is kept per head, and *)
(* the intake run is read before its artifact: a comment is consumed twice *)
(* only for two heads, and only if its intake was re-run while one of the  *)
(* two preflights was between these reads.                                 *)
ConsumedTwiceOnlyAcrossRerun ==
    \A d, e \in Runs :
        Admitted(d) /\ Admitted(e) /\ CommentOf(d) = CommentOf(e) /\ d # e =>
            /\ request[d].head # request[e].head
            /\ (d \in torn) # (e \in torn)

(* The same, taken at its word.                                            *)
ConsumedOnce ==
    \A d, e \in Runs :
        Admitted(d) /\ Admitted(e) /\ CommentOf(d) = CommentOf(e) => d = e

(* The deadline counts from the comment, however long the request waited   *)
(* in the two groups: no comment is consumed later than 900 seconds and    *)
(* one preflight job after it was written.                                 *)
ConsumedInTime ==
    \A d \in Runs : Admitted(d) =>
        claimedAt[d] <= comment[CommentOf(d)].created + ExpiresAfter + TimeLimit

(* Two command runs of one pull request never overlap: from its first read *)
(* to its end a run is alone, and so sees every claim made before it.      *)
Inside(d) == step[d] \in Preflighting \cup {"claimed", "again", "working"}

RunsOfOnePullRequestTakeTurns ==
    \A d, e \in Runs :
        Inside(d) /\ Inside(e) /\ PrOfRun(d) = PrOfRun(e) => d = e

(* Every dispatched run ends, and every intake run does: nobody waits for  *)
(* a place in a group for ever.                                            *)
EveryoneEnds ==
    /\ \A d \in Runs : step[d] = "queued" ~> step[d] \in {"ended", "failed"}
    /\ \A c \in Comments :
          intake[c].step = "queued" ~> intake[c].step \in {"done", "failed"}

(* What makes them hold.  An upload is the request of its own comment, for *)
(* what that first said; a run past its first read has an intake run, and  *)
(* that a comment; nobody waits in a group who was not started,            *)
Provenance ==
    /\ \A c \in Comments :
          /\ intake[c].step # "none" => comment[c].state # "none"
          /\ intake[c].step = "none" => intake[c].attempt = 1
          /\ intake[c].step = "record" => comment[c].said # "chat"
          /\ intake[c].step = "dispatch" => artifact[c] # NoRequest
          /\ artifact[c] # NoRequest => /\ artifact[c].comment = c
                                       /\ artifact[c].pr = PrOf[c]
                                       /\ intake[c].step # "none"
    /\ \A d \in Runs :
          /\ step[d] = "unused" <=> request[d] = NoRequest
          /\ step[d] \in Preflighting \/ Admitted(d)
                => intake[CommentOf(d)].step # "none"
    /\ \A p \in PRs :
          /\ \A c \in Comments :
                c \in {intakeGroup[p].holder, intakeGroup[p].pending}
                    => intake[c].step # "none"
          /\ \A d \in Runs : d \in {runGroup[p].holder, runGroup[p].pending}
                    => step[d] # "unused"

(* until somebody re-runs the intake its artifact is the record, and a run *)
(* past the comparison has the record's request unless its reads were torn *)
(* by a re-run,                                                            *)
Compared(d) == step[d] \in Preflighting \ {"artifact"} \/ Admitted(d)

FirstRecord ==
    /\ \A c \in Comments : intake[c].attempt = 1 =>
          /\ artifact[c] = recorded[c]
          /\ intake[c].step \in {"none", "queued", "record"} =>
                artifact[c] = NoRequest
    /\ \A d \in Runs : Compared(d) =>
          /\ artifact[CommentOf(d)] # NoRequest
          /\ PrOfRun(d) = PrOf[CommentOf(d)]
          /\ d \notin torn => request[d] = recorded[CommentOf(d)]

(* of the runs of one comment the torn one is the last that gets past the  *)
(* first read, and it gets no further than to its claim,                   *)
TornIsLast ==
    /\ \A e \in torn :
          /\ intake[CommentOf(e)].attempt = 2
          /\ step[e] \notin {"unused", "queued", "again"} /\ ~Prepared(e)
          /\ \A d \in Runs :
               step[d] = "artifact" /\ CommentOf(d) = CommentOf(e) =>
                 PrOfRun(d) # PrOf[CommentOf(d)]
    /\ \A d, e \in torn : CommentOf(d) = CommentOf(e) => d = e

(* a run holds its group from its first read to its end,                   *)
InsideHolds ==
    \A d \in Runs : Inside(d) => runGroup[PrOfRun(d)].holder = d

(* nobody else posts the claim a run is about to post,                     *)
ClaimsMatch ==
    \A d \in Runs : /\ Admitted(d) => ClaimOf(d) \in claims
                    /\ step[d] = "claim" => ClaimOf(d) \notin claims

(* and a preflight is no older than its time limit.                        *)
JobsAreYoung ==
    \A d \in Runs :
        /\ step[d] \in Preflighting =>
              since[d] <= clock /\ clock <= since[d] + TimeLimit
        /\ step[d] \in {"permission", "statuses", "claim"} =>
              since[d] <= comment[CommentOf(d)].created + ExpiresAfter

IntakeInv ==
    /\ TypeOK /\ Provenance /\ FirstRecord /\ TornIsLast /\ InsideHolds
    /\ ClaimsMatch /\ JobsAreYoung /\ ConsumedTwiceOnlyAcrossRerun
    /\ ConsumedInTime
================================================================================
