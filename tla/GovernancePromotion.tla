-------------------------- MODULE GovernancePromotion --------------------------
(***************************************************************************)
(* scripts/governance_promotion.py: the commit status "Governance          *)
(* Promotion" a pull request needs to merge.  A scope run                  *)
(* (.github/workflows/governance-promotion.yml), queued by every push,     *)
(* marks the head pending unless its promotion is already proven; a        *)
(* reporter writes the deployments of both environments and then the       *)
(* success.  Both read the pull request once or twice and write to a       *)
(* commit, which another pull request may have for head too.               *)
(***************************************************************************)
EXTENDS Naturals

CONSTANTS
    PRs, Heads,
    Scopes,        \* scope runs
    Reports,       \* promotion runs and their reporter jobs
    Nobody,        \* an empty slot of the concurrency group
    Touching,      \* heads that change governance paths
    MaxBase,       \* bound on the revisions of main
    MaxEvents      \* bound on what people do

PromotionAssumption ==
    /\ Scopes \cap Reports = {} /\ Nobody \notin Scopes \cup Reports
    /\ PRs # {} /\ Touching \in SUBSET Heads
    /\ MaxBase \in Nat /\ MaxEvents \in Nat

VARIABLES
    setting,    \* [service, grouped] which never changes: does main have
                \* self-deploy.yml, as this repository's does; does the
                \* reporter take the group of the scope runs
    events,
    prs,        \* [PRs -> [head, base, open]]
    status,     \* [Heads -> [state, bound]] the App's latest on each commit
    group,      \* [PRs -> promotion-status-<PR>]
    step,       \* [Scopes \cup Reports -> Steps]
    subject,    \* [Scopes \cup Reports -> [pr, head, base]] as last read
    evidence,   \* [Reports -> [kind, sound, plans]] of the run: do its
                \* stages succeed and its plans have their digests
    proof,      \* [Reports -> Proofs \cup {NoProof}] the uploaded artifact
    marked,     \* deployments with a success status: <<proof, environment>>
    lost        \* history: pull requests whose last scope run failed

vars == <<setting, events, prs, status, group, step, subject, evidence, proof, marked,
          lost>>

Grp == INSTANCE ConcurrencyGroup

Members == Scopes \cup Reports
Kinds == {"service", "governance", "platform"}
Bound == [pr : PRs, base : 0 .. MaxBase, kind : Kinds]
NoBound == [pr |-> Nobody]
Subjects == [pr : PRs, head : Heads, base : 0 .. MaxBase]
Evidence == [kind : Kinds, sound : BOOLEAN, plans : Heads]
Proofs == [of : Subjects, with : Evidence]
NoProof == [of |-> Nobody]

ScopeSteps == {"read", "compare", "statuses", "status"}
ReportSteps == {"publish", "test", "prod", "post"}
Working == ScopeSteps \cup ReportSteps
Steps == Working \cup {"unused", "prepare", "queued", "displaced", "done", "failed"}

(* Pull requests, statuses, runs and proofs have their types.              *)
TypeOK ==
    /\ setting \in [service : BOOLEAN, grouped : BOOLEAN]
    /\ events \in 0 .. MaxEvents
    /\ prs \in [PRs -> [head : Heads, base : 0 .. MaxBase, open : BOOLEAN]]
    /\ status \in [Heads -> [state : {"none", "pending", "success"},
                             bound : Bound \cup {NoBound}]]
    /\ group \in [PRs -> Grp!GroupOf(Members)]
    /\ step \in [Members -> Steps]
    /\ subject \in [Members -> Subjects]
    /\ evidence \in [Reports -> Evidence]
    /\ proof \in [Reports -> Proofs \cup {NoProof}]
    /\ marked \subseteq Proofs \X {"test", "prod"}
    /\ lost \subseteq PRs

Init ==
    /\ setting \in [service : BOOLEAN, grouped : BOOLEAN]
    /\ events = 0
    /\ prs \in [PRs -> [head : Heads, base : {0}, open : {FALSE}]]
    /\ status = [h \in Heads |-> [state |-> "none", bound |-> NoBound]]
    /\ group = [p \in PRs |-> Grp!EmptyGroup]
    /\ step = [m \in Members |-> "unused"]
    /\ subject = [m \in Members |-> CHOOSE s \in Subjects : s.base = 0]
    /\ evidence = [r \in Reports |-> CHOOSE e \in Evidence : ~e.sound]
    /\ proof = [r \in Reports |-> NoProof]
    /\ marked = {}
    /\ lost = {}

-----------------------------------------------------------------------------
(* The concurrency group promotion-status-<PR>.  The workflow that calls   *)
(* the reporter is not in this repository: it may take the group or not.   *)

InGroup(m) == m \in Scopes \/ setting.grouped

Queue(m, p) ==
    /\ group' = IF InGroup(m) THEN [group EXCEPT ![p] = Grp!Enter(@, m)] ELSE group
    /\ step' = [x \in Members |->
            IF x = m THEN "queued"
            ELSE IF InGroup(m) /\ x = Grp!Displaced(group[p]) THEN "displaced"
            ELSE step[x]]

Start(m) ==
    /\ step[m] = "queued"
    /\ InGroup(m) => group[subject[m].pr].holder = m
    /\ step' = [step EXCEPT ![m] = IF m \in Scopes THEN "read" ELSE "publish"]
    /\ UNCHANGED <<events, prs, status, group, subject, evidence, proof, marked, lost>>

End(m, how) ==
    /\ group' = IF InGroup(m) THEN [group EXCEPT ![subject[m].pr] = Grp!Release(@)]
                ELSE group
    /\ step' = [step EXCEPT ![m] = how]

-----------------------------------------------------------------------------
(* People and main.                                                        *)

Event == events < MaxEvents /\ events' = events + 1

(* opened, reopened or synchronize: a scope run is queued.                 *)
PullRequestEvent(p) ==
    /\ Event
    /\ \E s \in Scopes :
          /\ step[s] = "unused"
          /\ Queue(s, p)
          /\ subject' = [subject EXCEPT ![s].pr = p]
    /\ UNCHANGED <<status, evidence, proof, marked, lost>>

Open(p) ==
    /\ ~prs[p].open
    /\ prs' = [prs EXCEPT ![p].open = TRUE]
    /\ PullRequestEvent(p)

Push(p) ==
    /\ prs[p].open
    /\ \E h \in Heads \ {prs[p].head} : prs' = [prs EXCEPT ![p].head = h]
    /\ PullRequestEvent(p)

(* No event tells of these two.                                            *)
Close(p) ==
    /\ Event
    /\ prs[p].open
    /\ prs' = [prs EXCEPT ![p].open = FALSE]
    /\ UNCHANGED <<status, group, step, subject, evidence, proof, marked, lost>>

MoveBase(p) ==
    /\ Event
    /\ prs[p].base < MaxBase
    /\ prs' = [prs EXCEPT ![p].base = @ + 1]
    /\ UNCHANGED <<status, group, step, subject, evidence, proof, marked, lost>>

(* A promotion run of p ends, or all its jobs are re-run: with this head,  *)
(* stages, and saved plans which may be of another head or altered.        *)
Promote(r, p) ==
    /\ Event
    /\ \/ step[r] = "unused" /\ prs[p].open
       \/ step[r] \in {"failed", "displaced"} /\ subject[r].pr = p
    /\ step' = [step EXCEPT ![r] = "prepare"]
    /\ subject' = [subject EXCEPT ![r] =
            IF step[r] = "unused"
            THEN [pr |-> p, head |-> prs[p].head, base |-> prs[p].base] ELSE @]
    /\ \E e \in Evidence : evidence' = [evidence EXCEPT ![r] = e]
    /\ UNCHANGED <<prs, status, group, proof, marked, lost>>

(* Failed jobs are re-run; a reporter keeps the artifact it prepared.      *)
Rerun(m) ==
    /\ Event
    /\ step[m] \in {"failed", "displaced"}
    /\ m \in Reports => proof[m] # NoProof
    /\ Queue(m, subject[m].pr)
    /\ UNCHANGED <<prs, status, subject, evidence, proof, marked, lost>>

World ==
    \/ \E p \in PRs : \/ Open(p) \/ Push(p) \/ Close(p) \/ MoveBase(p)
                      \/ \E r \in Reports : Promote(r, p)
    \/ \E m \in Members : Rerun(m)

-----------------------------------------------------------------------------
(* report_scope                                                            *)

Kind(h) == IF setting.service THEN "service"
           ELSE IF h \in Touching THEN "governance" ELSE "platform"

NeedsPromotion(h) == h \in Touching \/ Kind(h) = "service"

Description(s, kind) == [pr |-> s.pr, base |-> s.base, kind |-> kind]

(* Mutant: the base revision is left out of the description.               *)
MatchingAnyBase(s) ==
    /\ status[s.head].state = "success"
    /\ status[s.head].bound # NoBound
    /\ status[s.head].bound.pr = s.pr /\ status[s.head].bound.kind = Kind(s.head)

Matching(s) ==
    /\ status[s.head].state = "success"
    /\ status[s.head].bound = Description(s, Kind(s.head))

ScopeUnchanged == UNCHANGED <<events, prs, evidence, proof, marked>>

ReadScope(s) ==
    /\ step[s] = "read"
    /\ LET pr == prs[subject[s].pr] IN
       subject' = [subject EXCEPT ![s].head = pr.head, ![s].base = pr.base]
    /\ step' = [step EXCEPT ![s] = "compare"]
    /\ UNCHANGED <<status, group, lost>> /\ ScopeUnchanged

Moved(s) ==
    LET pr == prs[subject[s].pr] IN
    pr.head # subject[s].head \/ pr.base # subject[s].base

(* Mutant: a scope run that finds the pull request moved just returns.     *)
CompareReturning(s) ==
    /\ step[s] = "compare"
    /\ IF Moved(s) THEN End(s, "done") /\ lost' = lost \ {subject[s].pr}
       ELSE step' = [step EXCEPT ![s] = "statuses"] /\ UNCHANGED <<group, lost>>
    /\ UNCHANGED <<status, subject>> /\ ScopeUnchanged

(* The listing of changed files, then the pull request again.              *)
Compare(s) ==
    /\ step[s] = "compare"
    /\ ~Moved(s)
    /\ step' = [step EXCEPT ![s] = "statuses"]
    /\ UNCHANGED <<status, group, subject, lost>> /\ ScopeUnchanged

ReadStatuses(s) ==
    /\ step[s] = "statuses"
    /\ IF Matching(subject[s])
       THEN End(s, "done") /\ lost' = lost \ {subject[s].pr}
       ELSE step' = [step EXCEPT ![s] = "status"] /\ UNCHANGED <<group, lost>>
    /\ UNCHANGED <<status, subject>> /\ ScopeUnchanged

(* The answer of a scope run whose head has no matching proof.             *)
ScopeState(h) == [state |-> IF NeedsPromotion(h) THEN "pending" ELSE "success",
                  bound |-> NoBound]

PostScope(s) ==
    /\ step[s] = "status"
    /\ LET h == subject[s].head IN status' = [status EXCEPT ![h] = ScopeState(h)]
    /\ End(s, "done")
    /\ lost' = lost \ {subject[s].pr}
    /\ UNCHANGED subject /\ ScopeUnchanged

-----------------------------------------------------------------------------
(* build_proof and publish_proof                                           *)

ReportUnchanged == UNCHANGED <<events, prs, subject, evidence, lost>>

(* Mutant: the saved plans' commit is not compared with the head.          *)
ProvableAnyPlan(r) == evidence[r].sound

Provable(r) == evidence[r].sound /\ evidence[r].plans = subject[r].head

BuildProof(r) == [of |-> subject[r], with |-> evidence[r]]

Prepare(r) ==
    /\ step[r] = "prepare"
    /\ Provable(r)
    /\ proof' = [proof EXCEPT ![r] = BuildProof(r)]
    /\ Queue(r, subject[r].pr)
    /\ UNCHANGED <<status, marked>> /\ ReportUnchanged

Publish(r) ==
    /\ step[r] = "publish"
    /\ Provable(r) /\ proof[r] = BuildProof(r)
    /\ prs[subject[r].pr].open
    /\ ~Moved(r)
    /\ step' = [step EXCEPT ![r] = "test"]
    /\ UNCHANGED <<status, group, proof, marked>> /\ ReportUnchanged

(* Mutant: the status is posted when the first deployment is recorded.     *)
RecordThenPost(r, env, next) ==
    /\ step[r] = env
    /\ marked' = marked \cup {<<proof[r], env>>}
    /\ step' = [step EXCEPT ![r] = "post"]
    /\ UNCHANGED <<status, group, proof>> /\ ReportUnchanged

(* The deployment and its status: one without the other means nothing.     *)
Record(r, env, next) ==
    /\ step[r] = env
    /\ marked' = marked \cup {<<proof[r], env>>}
    /\ step' = [step EXCEPT ![r] = next]
    /\ UNCHANGED <<status, group, proof>> /\ ReportUnchanged

PostSuccess(r) ==
    /\ step[r] = "post"
    /\ status' = [status EXCEPT ![subject[r].head] =
            [state |-> "success", bound |-> Description(subject[r], evidence[r].kind)]]
    /\ End(r, "done")
    /\ UNCHANGED <<proof, marked>> /\ ReportUnchanged

-----------------------------------------------------------------------------
(* A requirement does not hold, a call fails, or the time is up.           *)
Fail(m) ==
    /\ \/ step[m] \in Working /\ End(m, "failed")
       \/ step[m] = "prepare" /\ step' = [step EXCEPT ![m] = "failed"]
                              /\ UNCHANGED group
    /\ lost' = IF m \in Scopes THEN lost \cup {subject[m].pr} ELSE lost
    /\ UNCHANGED <<events, prs, status, subject, evidence, proof, marked>>

Work(m) ==
    \/ Start(m) \/ Fail(m)
    \/ m \in Scopes /\ (ReadScope(m) \/ Compare(m) \/ ReadStatuses(m) \/ PostScope(m))
    \/ m \in Reports /\ (\/ Prepare(m) \/ Publish(m) \/ Record(m, "test", "prod")
                         \/ Record(m, "prod", "post") \/ PostSuccess(m))

Next == UNCHANGED setting /\ (World \/ \E m \in Members : Work(m))

Spec == Init /\ [][Next]_vars

-----------------------------------------------------------------------------
(* A success that names a pull request and a base stands on deployments of *)
(* both environments, with one and the same proof for that head: every     *)
(* stage succeeded and the saved plans are unaltered and of that head,     *)
(* whatever failed and was re-run.  One that names none is on a head that  *)
(* needs no promotion.  A push or a merge between the reporter's reads and *)
(* its writes leaves this true of the head it wrote to.                    *)
SuccessIsProven ==
    \A h \in Heads : status[h].state = "success" =>
        IF status[h].bound = NoBound THEN ~NeedsPromotion(h)
        ELSE \E f \in Proofs :
                /\ f.of.head = h
                /\ status[h].bound = Description(f.of, f.with.kind)
                /\ f.with.sound /\ f.with.plans = h
                /\ <<f, "test">> \in marked /\ <<f, "prod">> \in marked

(* "Mark governance heads pending without overwriting verified promotion   *)
(* proof": no scope run of a pull request replaces the success of its      *)
(* present head, base and kind, even when the reporter is at work while    *)
(* the scope run is between its reads; provided the reporter is grouped.   *)
KeepsProof ==
    \A s \in Scopes : PostScope(s) =>
        LET p == subject[s].pr
            h == prs[p].head IN
        ~(/\ subject[s].head = h
          /\ Matching([pr |-> p, head |-> h, base |-> prs[p].base]))

(* A scope run that ends well leaves no success for another base or kind   *)
(* of its own pull request on the head it looked at.                       *)
WithdrawsStaleProof ==
    \A s \in Scopes : step[s] # "done" /\ step'[s] = "done" =>
        LET seen == subject[s]
            now == status'[seen.head] IN
        now.state = "success" /\ now.bound # NoBound /\ now.bound.pr = seen.pr
            => now.bound = Description(seen, Kind(seen.head))

(* So a scope run takes away the successes of its own pull request that no *)
(* longer hold, whatever the reporter does, and, when the reporter takes   *)
(* its group, none of its own pull request that holds.  Of the successes   *)
(* of other pull requests on the same head it says nothing.                *)
KeepsWhatHolds == (setting.grouped => KeepsProof) /\ WithdrawsStaleProof

ScopeRunsKeepProof == [][KeepsWhatHolds]_vars

(* An open pull request whose last scope run did not fail and that no      *)
(* scope run is about to look at has a status on its head, although pushes *)
(* displace waiting runs and move the head under working ones; provided    *)
(* no reporter displaces a scope run, so that it must not be grouped.      *)
NoHeadIsForgotten ==
    \A p \in PRs \ lost :
        \/ ~prs[p].open
        \/ status[prs[p].head].state # "none"
        \/ \E s \in Scopes : subject[s].pr = p /\ step[s] \in ScopeSteps \cup {"queued"}

PromotionInv == TypeOK /\ SuccessIsProven /\ (~setting.grouped => NoHeadIsForgotten)
================================================================================
