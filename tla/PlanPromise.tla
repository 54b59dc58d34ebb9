------------------------------ MODULE PlanPromise ------------------------------
(***************************************************************************)
(* What the commands promise of saved plans, without files, manifests,     *)
(* digests, clocks or the identities of a provider: plans come in force    *)
(* all together, one for every stack a planning was asked for, each        *)
(* computed on the checkpoint as it then was; from the time a planning     *)
(* begins until it is complete no plan is in force; and on a shared        *)
(* backend a replay begins only with a plan in force, of the commit at     *)
(* hand, computed on the very version the replay has read.                 *)
(***************************************************************************)
EXTENDS Naturals

CONSTANTS
    Stacks, Places, Commits,
    SharedPlaces   \* where a replay can read the version

VARIABLES
    version,    \* [Places \X Stacks -> Nat] of the checkpoints, 0 for none
    commit,     \* checked out
    inForce,    \* the plans that may be replayed
    planning,   \* NoJob or [wanted, place, kept, draft]
    replay      \* NoReplay or [plan, read, begun]

pvars == <<version, commit, inForce, planning, replay>>

NoPlan == [base |-> 0]
NoJob == [wanted |-> {}]
NoReplay == [begun |-> FALSE]

Quiet == planning = NoJob /\ replay = NoReplay

PInit ==
    /\ version \in [Places \X Stacks -> {0, 1}]
    /\ commit \in Commits
    /\ inForce = {}
    /\ planning = NoJob
    /\ replay = NoReplay

(* The commands and others write checkpoints as they like.                 *)
Write(at) ==
    /\ version' = [version EXCEPT ![at] = @ + 1]
    /\ UNCHANGED <<commit, inForce, planning, replay>>

Checkout ==
    /\ Quiet
    /\ commit' \in Commits
    /\ UNCHANGED <<version, inForce, planning, replay>>

Withdraw(wanted, place) ==
    /\ Quiet
    /\ inForce' = {}
    /\ planning' = [wanted |-> wanted, place |-> place, kept |-> {}, draft |-> NoPlan]
    /\ UNCHANGED <<version, commit, replay>>

Compute(s, destroys) ==
    /\ planning # NoJob
    /\ s \in planning.wanted /\ version[<<planning.place, s>>] # 0
    /\ planning.draft = NoPlan
    /\ planning' = [planning EXCEPT !.draft =
            [stack |-> s, place |-> planning.place, commit |-> commit,
             base |-> version[<<planning.place, s>>], destroys |-> destroys]]
    /\ UNCHANGED <<version, commit, inForce, replay>>

(* A plan that destroys what is protected is not kept, nor is a second one *)
(* for the same stack.                                                     *)
Keep ==
    /\ planning # NoJob
    /\ planning.draft # NoPlan /\ ~planning.draft.destroys
    /\ planning' = [planning EXCEPT
          !.draft = NoPlan,
          !.kept = IF \E p \in @ : p.stack = planning.draft.stack THEN @
                   ELSE @ \cup {planning.draft}]
    /\ UNCHANGED <<version, commit, inForce, replay>>

PutInForce ==
    /\ planning # NoJob
    /\ planning.wanted = {p.stack : p \in planning.kept}
    /\ inForce' = planning.kept
    /\ planning' = NoJob
    /\ UNCHANGED <<version, commit, replay>>

Abandon ==
    /\ planning # NoJob
    /\ planning' = NoJob
    /\ UNCHANGED <<version, commit, inForce, replay>>

ReadVersion(p) ==
    /\ Quiet
    /\ p \in inForce /\ p.commit = commit
    /\ replay' = [plan |-> p, begun |-> FALSE,
                  read |-> IF p.place \in SharedPlaces
                           THEN version[<<p.place, p.stack>>] ELSE 0]
    /\ UNCHANGED <<version, commit, inForce, planning>>

Begin ==
    /\ replay # NoReplay
    /\ ~replay.begun
    /\ replay.plan.place \in SharedPlaces => replay.read = replay.plan.base
    /\ replay' = [replay EXCEPT !.begun = TRUE]
    /\ UNCHANGED <<version, commit, inForce, planning>>

(* It is done with, it fails, or it was never begun.                       *)
Leave ==
    /\ replay # NoReplay
    /\ replay' = NoReplay
    /\ UNCHANGED <<version, commit, inForce, planning>>

PNext ==
    \/ \E at \in Places \X Stacks : Write(at)
    \/ Checkout
    \/ \E wanted \in (SUBSET Stacks) \ {{}}, place \in Places : Withdraw(wanted, place)
    \/ \E s \in Stacks, destroys \in BOOLEAN : Compute(s, destroys)
    \/ Keep \/ PutInForce \/ Abandon
    \/ \E p \in inForce : ReadVersion(p)
    \/ Begin \/ Leave

PSpec == PInit /\ [][PNext]_pvars
================================================================================
