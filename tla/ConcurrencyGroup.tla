--------------------------- MODULE ConcurrencyGroup ---------------------------
(***************************************************************************)
(* A GitHub Actions concurrency group with cancel-in-progress: false, as   *)
(* the workflows of this repository declare it: at most one member runs,   *)
(* at most one waits, and a newcomer takes the place of the one waiting,   *)
(* which GitHub then cancels.  The group is a record [holder, pending];    *)
(* Nobody fills an empty slot.                                             *)
(***************************************************************************)

CONSTANT Nobody

EmptyGroup == [holder |-> Nobody, pending |-> Nobody]

GroupOf(Members) ==
    [holder : Members \cup {Nobody}, pending : Members \cup {Nobody}]

(* Mutant: no group, every newcomer starts.                                *)
EnterAtOnce(group, m) == [group EXCEPT !.holder = m]

(* A job that names the group starts at once when the group is free and    *)
(* otherwise becomes the one that waits.                                   *)
Enter(group, m) ==
    IF group.holder = Nobody
    THEN [group EXCEPT !.holder = m]
    ELSE [group EXCEPT !.pending = m]

(* The member that Enter pushes out, if any.                               *)
Displaced(group) ==
    IF group.holder = Nobody THEN Nobody ELSE group.pending

(* Mutant: the waiting member is dropped when the running one ends.        *)
ReleaseToNobody(group) == EmptyGroup

(* The running member ends: the waiting one starts.                        *)
Release(group) == [holder |-> group.pending, pending |-> Nobody]
===============================================================================
