-------------------------- MODULE StackInitialization --------------------------
(***************************************************************************)
(* .github/workflows/initialize-stack.yml and                              *)
(* scripts/initialize_service_stack.py: creating the stack of an           *)
(* environment in the shared backend, once.  Runs wait in a group of their *)
(* own, and their second job also in the state group of the stack, where   *)
(* the commands of self-deploy.yml are.  Pulumi looks for the stack and    *)
(* then writes it, and nothing but the state group keeps two of them apart.*)
(***************************************************************************)
EXTENDS Naturals

CONSTANTS
    Runs,          \* initialization runs of one environment
    Commands,      \* jobs of the command workflow in the state group
    Nobody, MaxEvents

ASSUME InitializationAssumption ==
    /\ Nobody \notin Runs \cup Commands /\ Runs \cap Commands = {}
    /\ MaxEvents \in Nat

VARIABLES
    events,
    stack,       \* data key of the stack in the backend, 0 for no stack
    keys,        \* data keys made so far
    granted,     \* may the requesters initialize: write access, protection
    outer,       \* group service-stack-initialization-<env>
    state,       \* group pulumi-state-<repository>-<env>-<env>
    step,        \* [Runs \cup Commands -> Steps]
    exists,      \* [Runs -> BOOLEAN] what the listing said
    receipt,     \* [Runs -> "none", "created" or "existed"]
    wrote,       \* history: runs that wrote the stack
    verified,    \* history: runs that verified the request in the state group
    meddled      \* history: an operator created or removed the stack

groups == <<outer, state>>
vars == <<events, stack, keys, granted, groups, step, exists, receipt, wrote,
          verified, meddled>>

Grp == INSTANCE ConcurrencyGroup

Preflight == {"verify"}
Inside == {"verify again", "list", "select", "look", "write", "check"}
Steps == {"unused", "waiting", "queued", "done", "failed", "displaced", "working"}
            \cup Preflight \cup Inside

(* Groups, runs, receipts and the stack have their types.                  *)
TypeOK ==
    /\ events \in 0 .. MaxEvents
    /\ keys \in Nat /\ stack \in 0 .. keys
    /\ granted \in BOOLEAN
    /\ outer \in Grp!GroupOf(Runs)
    /\ state \in Grp!GroupOf(Runs \cup Commands)
    /\ step \in [Runs \cup Commands -> Steps]
    /\ exists \in [Runs -> BOOLEAN]
    /\ receipt \in [Runs -> {"none", "created", "existed"}]
    /\ wrote \subseteq Runs /\ verified \subseteq Runs
    /\ meddled \in BOOLEAN

Init ==
    /\ events = 0
    /\ keys \in {0, 1} /\ stack = keys
    /\ granted = TRUE
    /\ outer = Grp!EmptyGroup /\ state = Grp!EmptyGroup
    /\ step = [m \in Runs \cup Commands |-> "unused"]
    /\ exists = [r \in Runs |-> FALSE]
    /\ receipt = [r \in Runs |-> "none"]
    /\ wrote = {} /\ verified = {} /\ meddled = FALSE

-----------------------------------------------------------------------------
(* Settings and operators.                                                 *)

Event == events < MaxEvents /\ events' = events + 1

Grant ==
    /\ Event
    /\ granted' = ~granted
    /\ UNCHANGED <<stack, keys, groups, step, exists, receipt, wrote, verified, meddled>>

(* pulumi stack rm, or pulumi stack init, from a desk.                     *)
Meddle ==
    /\ Event
    /\ IF stack = 0 THEN keys' = keys + 1 /\ stack' = keys'
                    ELSE stack' = 0 /\ UNCHANGED keys
    /\ meddled' = TRUE
    /\ UNCHANGED <<granted, groups, step, exists, receipt, wrote, verified>>

World == Grant \/ Meddle

-----------------------------------------------------------------------------
(* The two groups.                                                         *)

Moved(m, to, group, where) ==
    [x \in Runs \cup Commands |->
        IF x = m THEN to
        ELSE IF x = Grp!Displaced(group) /\ step[x] = where THEN "displaced"
        ELSE step[x]]

Dispatch(r) ==
    /\ step[r] = "unused"
    /\ outer' = Grp!Enter(outer, r)
    /\ step' = Moved(r, "waiting", outer, "waiting")
    /\ UNCHANGED <<events, stack, keys, granted, state, exists, receipt, wrote,
                   verified, meddled>>

(* A run displaced from the state group ends and leaves its own group.     *)
QueueCommand(c) ==
    /\ step[c] = "unused"
    /\ state' = Grp!Enter(state, c)
    /\ IF Grp!Displaced(state) \in Runs
       THEN outer' = Grp!Release(outer)
       ELSE UNCHANGED outer
    /\ step' = Moved(c, "queued", state, "queued")
    /\ UNCHANGED <<events, stack, keys, granted, exists, receipt, wrote, verified, meddled>>

StartCommand(c) ==
    /\ step[c] = "queued" /\ state.holder = c
    /\ step' = [step EXCEPT ![c] = "working"]
    /\ UNCHANGED <<events, stack, keys, granted, groups, exists, receipt, wrote,
                   verified, meddled>>

(* A command reads or updates an existing stack and creates none.          *)
EndCommand(c) ==
    /\ step[c] = "working"
    /\ state' = Grp!Release(state)
    /\ step' = [step EXCEPT ![c] = "done"]
    /\ UNCHANGED <<events, stack, keys, granted, outer, exists, receipt, wrote,
                   verified, meddled>>

Quiet == UNCHANGED <<events, granted, meddled>>

End(r, how) ==
    /\ step' = [step EXCEPT ![r] = how]
    /\ outer' = Grp!Release(outer)
    /\ state' = IF step[r] \in Inside THEN Grp!Release(state) ELSE state

-----------------------------------------------------------------------------
(* The jobs preflight and initialize of a run.                             *)

Start(r) ==
    /\ step[r] = "waiting" /\ outer.holder = r
    /\ step' = [step EXCEPT ![r] = "verify"]
    /\ UNCHANGED <<stack, keys, groups, exists, receipt, wrote, verified>> /\ Quiet

(* First attempt, requester, write access, protected environment, main.    *)
Verify(r) ==
    /\ step[r] = "verify"
    /\ granted
    /\ state' = Grp!Enter(state, r)
    /\ step' = Moved(r, "queued", state, "queued")
    /\ UNCHANGED <<stack, keys, outer, exists, receipt, wrote, verified>> /\ Quiet

Enter(r) ==
    /\ step[r] = "queued" /\ state.holder = r
    /\ step' = [step EXCEPT ![r] = "verify again"]
    /\ UNCHANGED <<stack, keys, groups, exists, receipt, wrote, verified>> /\ Quiet

(* Mutant: the second verification is left out.                            *)
VerifyNothing(r) ==
    /\ step[r] = "verify again"
    /\ verified' = IF granted THEN verified \cup {r} ELSE verified
    /\ step' = [step EXCEPT ![r] = "list"]
    /\ UNCHANGED <<stack, keys, groups, exists, receipt, wrote>> /\ Quiet

VerifyAgain(r) ==
    /\ step[r] = "verify again"
    /\ granted
    /\ verified' = verified \cup {r}
    /\ step' = [step EXCEPT ![r] = "list"]
    /\ UNCHANGED <<stack, keys, groups, exists, receipt, wrote>> /\ Quiet

(* The contract, the CLI pin and the caller are checked before.            *)
List(r) ==
    /\ step[r] = "list"
    /\ exists' = [exists EXCEPT ![r] = (stack # 0)]
    /\ step' = [step EXCEPT ![r] = IF stack # 0 THEN "select" ELSE "look"]
    /\ UNCHANGED <<stack, keys, groups, receipt, wrote, verified>> /\ Quiet

Select(r) ==
    /\ step[r] = "select"
    /\ stack # 0
    /\ step' = [step EXCEPT ![r] = "check"]
    /\ UNCHANGED <<stack, keys, groups, exists, receipt, wrote, verified>> /\ Quiet

(* pulumi stack init fails when the stack is there ...                     *)
Look(r) ==
    /\ step[r] = "look"
    /\ stack = 0
    /\ step' = [step EXCEPT ![r] = "write"]
    /\ UNCHANGED <<stack, keys, groups, exists, receipt, wrote, verified>> /\ Quiet

(* ... and writes it with a new data key.                                  *)
Write(r) ==
    /\ step[r] = "write"
    /\ keys' = keys + 1 /\ stack' = keys'
    /\ wrote' = wrote \cup {r}
    /\ step' = [step EXCEPT ![r] = "check"]
    /\ UNCHANGED <<groups, exists, receipt, verified>> /\ Quiet

(* Mutant: the receipt always claims the creation.                         *)
CheckBoasting(r) ==
    /\ step[r] = "check"
    /\ stack # 0
    /\ receipt' = [receipt EXCEPT ![r] = "created"]
    /\ End(r, "done")
    /\ UNCHANGED <<stack, keys, exists, wrote, verified>> /\ Quiet

(* _verify_checkpoint and the receipt.                                     *)
Check(r) ==
    /\ step[r] = "check"
    /\ stack # 0
    /\ receipt' = [receipt EXCEPT ![r] = IF exists[r] THEN "existed" ELSE "created"]
    /\ End(r, "done")
    /\ UNCHANGED <<stack, keys, exists, wrote, verified>> /\ Quiet

(* A requirement or a call fails, or a job times out; no re-run goes on.   *)
Fail(r) ==
    /\ step[r] \in Preflight \cup Inside
    /\ End(r, "failed")
    /\ UNCHANGED <<stack, keys, exists, receipt, wrote, verified>> /\ Quiet

Work(r) ==
    \/ Start(r) \/ Verify(r) \/ Enter(r) \/ VerifyAgain(r) \/ List(r)
    \/ Select(r) \/ Look(r) \/ Write(r) \/ Check(r) \/ Fail(r)

Command(c) == StartCommand(c) \/ EndCommand(c)

Next ==
    \/ World
    \/ \E r \in Runs : Dispatch(r) \/ Work(r)
    \/ \E c \in Commands : QueueCommand(c) \/ Command(c)

Spec == Init /\ [][Next]_vars

-----------------------------------------------------------------------------
(* "Create only an absent backend stack": a run never writes over a stack, *)
(* whose data key would be lost with everything encrypted by it, unless an *)
(* operator creates one past the group between the look and the write; and *)
(* however long it waited for an approval or for the group, it touches the *)
(* backend only when the request held once more inside the group.          *)
OnlyAbsentIsCreated ==
    [][\A r \in Runs :
        /\ Write(r) /\ ~meddled => stack = 0
        /\ step[r] \in {"select", "write"} /\ step'[r] = "check" => r \in verified]_vars

(* A receipt says who created the stack, and of all runs at most one       *)
(* does, although runs fail after the creation and are dispatched again.   *)
ReceiptsAreTrue ==
    /\ \A r \in Runs : /\ receipt[r] = "created" => r \in wrote
                       /\ receipt[r] = "existed" => r \notin wrote
    /\ ~meddled => \A r, q \in wrote : r = q

InitializationInv == TypeOK /\ ReceiptsAreTrue
================================================================================
