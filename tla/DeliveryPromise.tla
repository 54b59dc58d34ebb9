---------------------------- MODULE DeliveryPromise ----------------------------
(***************************************************************************)
(* What the TEST delivery promises, without pull requests, rechecks, jobs  *)
(* or the concurrency group: a command plans against one checkpoint        *)
(* version; its update starts only while no other command has written the  *)
(* checkpoint since; a receipt names a version somebody saw complete after *)
(* the command's own update; the publisher hears of a receipt once.        *)
(***************************************************************************)
EXTENDS Naturals

CONSTANTS Runs, NoOne

VARIABLES
    version,    \* number of the current checkpoint version
    complete,   \* the current checkpoint holds the whole registry graph
    ciWrites,   \* the versions written by the commands
    updater,    \* the command whose update runs, or NoOne
    plan,       \* [Runs -> Nat] version planned against, 0 for none
    updated,    \* [Runs -> BOOLEAN] the command's update succeeded
    seen,       \* [Runs -> Nat] version observed complete, 0 for none
    receipt,    \* [Runs -> BOOLEAN] a successful receipt exists
    sent        \* [Runs -> BOOLEAN] the publisher was dispatched

pvars == <<version, complete, ciWrites, updater, plan, updated, seen,
           receipt, sent>>

checkpoint == <<version, complete, ciWrites>>

PInit ==
    /\ version = 1
    /\ complete \in BOOLEAN
    /\ ciWrites = {}
    /\ updater = NoOne
    /\ plan = [r \in Runs |-> 0]
    /\ updated = [r \in Runs |-> FALSE]
    /\ seen = [r \in Runs |-> 0]
    /\ receipt = [r \in Runs |-> FALSE]
    /\ sent = [r \in Runs |-> FALSE]

MakePlan(r) ==
    /\ plan[r] = 0
    /\ plan' = [plan EXCEPT ![r] = version]
    /\ UNCHANGED <<checkpoint, updater, updated, seen, receipt, sent>>

(* No command wrote between the planned version and the current one.       *)
PlanIsFresh(r) ==
    /\ plan[r] # 0
    /\ (plan[r] + 1) .. version \cap ciWrites = {}

StartUpdate(r) ==
    /\ updater = NoOne
    /\ PlanIsFresh(r)
    /\ ~updated[r]
    /\ updater' = r
    /\ UNCHANGED <<checkpoint, plan, updated, seen, receipt, sent>>

WriteCheckpoint(r) ==
    /\ updater = r
    /\ version' = version + 1
    /\ ciWrites' = ciWrites \cup {version'}
    /\ complete' \in BOOLEAN
    /\ UNCHANGED <<updater, plan, updated, seen, receipt, sent>>

StopUpdate(r) ==
    /\ updater = r
    /\ updater' = NoOne
    /\ UNCHANGED <<checkpoint, plan, updated, seen, receipt, sent>>

(* The update ended well and the whole graph was read back.                *)
ConfirmUpdate(r) ==
    /\ updater = NoOne
    /\ complete
    /\ plan[r] # 0
    /\ updated' = [updated EXCEPT ![r] = TRUE]
    /\ UNCHANGED <<checkpoint, updater, plan, seen, receipt, sent>>

Observe(r) ==
    /\ updated[r]
    /\ updater = NoOne
    /\ complete
    /\ seen' = [seen EXCEPT ![r] = version]
    /\ UNCHANGED <<checkpoint, updater, plan, updated, receipt, sent>>

(* The job that saw it was lost before it could say so.                    *)
LoseObservation(r) ==
    /\ ~receipt[r]
    /\ seen' = [seen EXCEPT ![r] = 0]
    /\ UNCHANGED <<checkpoint, updater, plan, updated, receipt, sent>>

IssueReceipt(r) ==
    /\ seen[r] # 0
    /\ receipt' = [receipt EXCEPT ![r] = TRUE]
    /\ UNCHANGED <<checkpoint, updater, plan, updated, seen, sent>>

TellPublisher(r) ==
    /\ receipt[r]
    /\ ~sent[r]
    /\ sent' = [sent EXCEPT ![r] = TRUE]
    /\ UNCHANGED <<checkpoint, updater, plan, updated, seen, receipt>>

(* Somebody outside the commands updates or repairs the stack.             *)
OutsideWrite ==
    /\ updater = NoOne
    /\ version' = version + 1
    /\ complete' \in BOOLEAN
    /\ UNCHANGED <<ciWrites, updater, plan, updated, seen, receipt, sent>>

PNext ==
    \/ OutsideWrite
    \/ \E r \in Runs :
          \/ MakePlan(r) \/ StartUpdate(r) \/ WriteCheckpoint(r)
          \/ StopUpdate(r) \/ ConfirmUpdate(r) \/ Observe(r)
          \/ LoseObservation(r) \/ IssueReceipt(r) \/ TellPublisher(r)

PSpec == PInit /\ [][PNext]_pvars
================================================================================
