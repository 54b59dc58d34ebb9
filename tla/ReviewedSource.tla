---------------------------- MODULE ReviewedSource ----------------------------
(***************************************************************************)
(* scripts/reviewed_source_admission.py: five reads of GitHub, in turn the *)
(* rules of main, a snapshot of the pull request and its reviews, the write*)
(* access of one approving reviewer, the rules again and a second snapshot.*)
(* No transaction spans them: between two reads the pull request is pushed,*)
(* closed and reopened, reviews come and go, main moves, and administrators*)
(* change rules and permissions.  What does the answer then mean?          *)
(***************************************************************************)
EXTENDS Naturals, FiniteSets

CONSTANTS
    Reviewers, Author,
    Heads,        \* commits the pull request's branch may point to
    Rules,        \* rule sets of main
    Strong,       \* those with two approvals, dismissal on push, ...
    NoReview,     \* nothing chosen yet
    Required,     \* approvals the decision takes
    MaxEvents     \* bound on what happens around the reads

ASSUME ReviewAssumption ==
    /\ Strong \in SUBSET Rules
    /\ NoReview \notin Reviewers
    /\ Required \in Nat /\ MaxEvents \in Nat

VARIABLES
    events,
    head, base, open,  \* the pull request
    rules,
    reviews,     \* [Reviewers -> [id, commit, verdict]] latest of each
    nextId,      \* review ids are never used twice
    writers,
    step,        \* the read that comes next
    wanted,      \* [head, base] the caller asks about
    seenRules,   \* the rules of the first read
    chosen,      \* [id, reviewer] the approval picked in the first snapshot
    lapsed,      \* history: that approval was not in force at some time since
                 \* then
    strayed,     \* history: the head was another commit at some time since then
    weakened,    \* history: the rules were not strong at some time since the
                 \* first read
    together     \* history: at the permission read everything held at once

pr == <<head, base, open>>
world == <<pr, rules, reviews, nextId, writers>>
reader == <<step, wanted, seenRules, chosen, together>>
watched == <<lapsed, strayed, weakened>>
vars == <<events, world, reader, watched>>

Steps == {"start", "snapshot", "permission", "rules", "again", "admitted",
          "refused"}

Verdicts == {"none", "approved", "changes", "dismissed"}

(* Reviews, rules and what the reader holds have their types.              *)
TypeOK ==
    /\ events \in Nat
    /\ head \in Heads /\ base \in Nat /\ open \in BOOLEAN
    /\ rules \in Rules
    /\ reviews \in [Reviewers ->
                      [id : Nat, commit : Heads, verdict : Verdicts]]
    /\ nextId \in Nat
    /\ writers \in SUBSET Reviewers
    /\ step \in Steps
    /\ wanted \in [head : Heads, base : Nat]
    /\ seenRules \in Rules
    /\ chosen \in [id : Nat, reviewer : Reviewers \cup {NoReview}]
    /\ lapsed \in BOOLEAN /\ strayed \in BOOLEAN 
    /\ weakened \in BOOLEAN /\ together \in BOOLEAN

Init ==
    /\ events = 0
    /\ head \in Heads /\ base = 0 /\ open = TRUE
    /\ rules \in Strong
    /\ reviews = [u \in Reviewers |->
                    [id |-> 0, commit |-> head, verdict |-> "none"]]
    /\ nextId = 1
    /\ writers = Reviewers
    /\ step = "start"
    /\ wanted = [head |-> head, base |-> base]
    /\ seenRules = rules
    /\ chosen = [id |-> 0, reviewer |-> NoReview]
    /\ lapsed = FALSE /\ strayed = FALSE /\ weakened = FALSE /\ together = FALSE

-----------------------------------------------------------------------------
(* What GitHub answers.                                                    *)

(* latestOpinionatedReviews(writersOnly) of an independent human that      *)
(* approve commit h.                                                       *)
Approvals(h) ==
    {u \in (writers \ {Author}) :
        reviews[u].verdict = "approved" /\ reviews[u].commit = h}

(* reviewDecision: enough approvals not dismissed, no change requested.    *)
Approved ==
    /\ \A u \in writers : reviews[u].verdict # "changes"
    /\ Cardinality({u \in writers : reviews[u].verdict = "approved"})
            >= Required

(* What one snapshot requires.                                             *)
SnapshotGood ==
    /\ open
    /\ head = wanted.head /\ base = wanted.base
    /\ Approved
    /\ Approvals(wanted.head) # {}

(* The chosen approval is still that review, approving that commit.        *)
InForce ==
    LET u == chosen.reviewer IN
    reviews[u] = [id |-> chosen.id, commit |-> wanted.head,
                                  verdict |-> "approved"]

-----------------------------------------------------------------------------
(* The world, watched from the first read to the last.                     *)

Reading == step \notin {"start", "admitted", "refused"}

Chosen == Reading /\ chosen.reviewer # NoReview

(* What the reads cannot see and the properties speak of.                  *)
Watch ==
    /\ UNCHANGED reader
    /\ lapsed' = (lapsed \/ (Chosen /\ ~InForce'))
    /\ strayed' = (strayed \/ (Chosen /\ head' # wanted.head))
    /\ weakened' = (weakened \/ (Reading /\ rules' \notin Strong))

(* Strong rules dismiss every approval on a push; weaker ones may.         *)
Push ==
    /\ open
    /\ head' \in Heads \ {head}
    /\ \E dismisses \in BOOLEAN :
          /\ rules \in Strong => dismisses
          /\ reviews' = [u \in Reviewers |->
                IF dismisses /\ reviews[u].verdict = "approved"
                THEN [reviews[u] EXCEPT !.verdict = "dismissed"]
                ELSE reviews[u]]
    /\ UNCHANGED <<base, open, rules, nextId, writers>>

SubmitReview(u, verdict) ==
    /\ open
    /\ u # Author
    /\ reviews' = [reviews EXCEPT ![u] =
                     [id |-> nextId, commit |-> head, verdict |-> verdict]]
    /\ nextId' = nextId + 1
    /\ UNCHANGED <<pr, rules, writers>>

DismissReview(u) ==
    /\ reviews[u].verdict \in {"approved", "changes"}
    /\ reviews' = [reviews EXCEPT ![u].verdict = "dismissed"]
    /\ UNCHANGED <<pr, rules, nextId, writers>>

CloseOrReopen ==
    /\ open' = ~open
    /\ UNCHANGED <<head, base, rules, reviews, nextId, writers>>

MainMoves ==
    /\ base' = base + 1
    /\ UNCHANGED <<head, open, rules, reviews, nextId, writers>>

ChangeRules ==
    /\ rules' \in Rules \ {rules}
    /\ UNCHANGED <<pr, reviews, nextId, writers>>

ChangePermission(u) ==
    /\ writers' = IF u \in writers THEN writers \ {u} ELSE writers \cup {u}
    /\ UNCHANGED <<pr, rules, reviews, nextId>>

World ==
    /\ events < MaxEvents
    /\ events' = events + 1
    /\ \/ Push \/ CloseOrReopen \/ MainMoves \/ ChangeRules
       \/ \E u \in Reviewers :
            \/ SubmitReview(u, "approved") \/ SubmitReview(u, "changes")
            \/ DismissReview(u) \/ ChangePermission(u)
    /\ Watch

-----------------------------------------------------------------------------
(* verify_reviewed_source, one read per step.                              *)

Refuse ==
    /\ Reading \/ step = "start"
    /\ step' = "refused"
    /\ UNCHANGED <<events, world, wanted, seenRules, chosen, together, watched>>

(* The caller names the coordinates it has authenticated.                  *)
ReadRules ==
    /\ step = "start"
    /\ wanted' = [head |-> head, base |-> base]
    /\ rules \in Strong
    /\ seenRules' = rules
    /\ step' = "snapshot"
    /\ UNCHANGED <<events, world, chosen, together, watched>>

(* The first of the approvals in the order of their ids, which say nothing *)
(* of when they were given.                                                *)
ReadSnapshot ==
    /\ step = "snapshot"
    /\ SnapshotGood
    /\ \E u \in Approvals(wanted.head) :
          chosen' = [id |-> reviews[u].id, reviewer |-> u]
    /\ step' = "permission"
    /\ UNCHANGED <<events, world, wanted, seenRules, together, watched>>

(* Mutant: the reviewer's write access is not looked up.                   *)
ReadPermissionOfNobody ==
    /\ step = "permission"
    /\ together' = (/\ head = wanted.head /\ base = wanted.base
                    /\ InForce
                    /\ chosen.reviewer \in writers)
    /\ step' = "rules"
    /\ UNCHANGED <<events, world, wanted, seenRules, chosen, watched>>

ReadPermission ==
    /\ step = "permission"
    /\ chosen.reviewer \in writers
    /\ together' = (/\ head = wanted.head /\ base = wanted.base
                    /\ InForce
                    /\ chosen.reviewer \in writers)
    /\ step' = "rules"
    /\ UNCHANGED <<events, world, wanted, seenRules, chosen, watched>>

ReadRulesAgain ==
    /\ step = "rules"
    /\ rules = seenRules
    /\ step' = "again"
    /\ UNCHANGED <<events, world, wanted, seenRules, chosen, together, watched>>

(* Mutant: some approval of the same reviewer is good enough.              *)
SameApprovalOfReviewer == chosen.reviewer \in Approvals(wanted.head)

SameApproval ==
    /\ chosen.reviewer \in Approvals(wanted.head)
    /\ reviews[chosen.reviewer].id = chosen.id

(* The second snapshot must show the approval the first one chose.         *)
ReadSnapshotAgain ==
    /\ step = "again"
    /\ SnapshotGood
    /\ SameApproval
    /\ step' = "admitted"
    /\ UNCHANGED <<events, world, wanted, seenRules, chosen, together, watched>>

Reader == \/ ReadRules \/ ReadSnapshot \/ ReadPermission \/ ReadRulesAgain
          \/ ReadSnapshotAgain \/ Refuse

Next == World \/ Reader

Spec == Init /\ [][Next]_vars

-----------------------------------------------------------------------------
(* Properties.                                                             *)

Admitted == step = "admitted"

(* "Independent approval changed during verification" misses nothing: the  *)
(* approval an admission names was in force, for the very commit asked     *)
(* about, at every moment from the first snapshot to the second.           *)
ApprovalNeverLapsed == Admitted => ~lapsed

(* Although the reads are no transaction, there is a moment at which the   *)
(* commit was the head, main was at the base, the approval was in force    *)
(* and its reviewer could write, all at once, and a branch pushed away and *)
(* forced back to the reviewed commit during the reads is noticed although *)
(* both snapshots show the same head.  The exception the reads leave: the  *)
(* rules stopped being strong and came back, when a push need not dismiss. *)
HeldTogether == Admitted => weakened \/ (together /\ ~strayed)

(* What makes them hold.  Review ids are new, so a lapsed approval does not*)
(* come back,                                                              *)
LapseIsFinal ==
    /\ \A u \in Reviewers : reviews[u].id < nextId
    /\ chosen.id < nextId
    /\ Chosen => (lapsed <=> ~InForce)

(* a push under strong rules makes every approval lapse, and main does not *)
(* come back to an earlier base.                                           *)
StrayingLapses ==
    /\ step \in {"start", "snapshot"} =>
          chosen.reviewer = NoReview /\ ~lapsed /\ ~strayed
    /\ step \in {"permission", "rules", "again", "admitted"} =>
          chosen.reviewer \in Reviewers
    /\ Chosen => /\ strayed \/ head = wanted.head
                 /\ strayed => lapsed \/ weakened
    /\ Reading => weakened \/ rules \in Strong
    /\ base >= wanted.base
    /\ step \in {"rules", "again"} =>
          together \/ lapsed \/ weakened \/ base > wanted.base

ReviewInv ==
    /\ TypeOK /\ LapseIsFinal /\ StrayingLapses
    /\ ApprovalNeverLapsed /\ HeldTogether
================================================================================
