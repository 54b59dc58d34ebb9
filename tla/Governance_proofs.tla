---------------------------- MODULE Governance_proofs ----------------------------
(***************************************************************************)
(* Proofs about the governance of the repository, for any pull requests,   *)
(* heads, sessions, environments, identifiers and bounds.                  *)
(*                                                                         *)
(* GovernancePromotion: every success is proven, no head is forgotten, and *)
(* scope runs take away exactly the successes that no longer hold.         *)
(* RepositoryControls: what a session verified holds, the next session     *)
(* repairs what it finds, and no step of a session loosens a control.      *)
(* DriftControls: an unattended environment is never open, and nothing     *)
(* that an inventory named is written to.                                  *)
(***************************************************************************)
EXTENDS GovernancePromotion, RepositoryControls, DriftControls, TLAPS,
        FiniteSetTheorems, WellFoundedInduction

-----------------------------------------------------------------------------
(* The inductive invariant.                                                *)

Active == Working \cup {"queued"}

(* The group of a pull request holds its running member and its waiting    *)
(* one, and these are all of its members in progress.                      *)
Ordered == \A p \in PRs : group[p].holder = Nobody => group[p].pending = Nobody

Holds ==
    \A p \in PRs, m \in Members : group[p].holder = m =>
        InGroup(m) /\ subject[m].pr = p /\ step[m] \in Active

Waits ==
    \A p \in PRs, m \in Members : group[p].pending = m =>
        /\ InGroup(m) /\ subject[m].pr = p /\ step[m] = "queued"
        /\ group[p].holder # m

Placed ==
    \A m \in Members : InGroup(m) =>
        /\ step[m] \in Working => group[subject[m].pr].holder = m
        /\ step[m] = "queued" =>
             group[subject[m].pr].holder = m \/ group[subject[m].pr].pending = m

GroupInv == Ordered /\ Holds /\ Waits /\ Placed

(* A reporter writes what it has checked, one environment after the other. *)
Recorded ==
    \A r \in Reports :
        /\ step[r] \in {"test", "prod", "post"} =>
             Provable(r) /\ proof[r] = BuildProof(r)
        /\ step[r] \in {"prod", "post"} => <<proof[r], "test">> \in marked
        /\ step[r] = "post" => <<proof[r], "prod">> \in marked

Looking == {"compare", "statuses", "status"}

(* A scope run that looks at an old head is followed by another.           *)
Followed ==
    \A s \in Scopes :
        step[s] \in Looking /\ subject[s].head # prs[subject[s].pr].head =>
        \E t \in Scopes : subject[t].pr = subject[s].pr /\ step[t] = "queued"

(* Nothing is bound to a revision of main that is still to come.           *)
Bases ==
    /\ \A s \in Scopes :
         step[s] \in Looking => subject[s].base <= prs[subject[s].pr].base
    /\ \A r \in Reports :
         step[r] # "unused" => subject[r].base <= prs[subject[r].pr].base
    /\ \A h \in Heads : status[h].bound # NoBound =>
         status[h].bound.base <= prs[status[h].bound.pr].base

(* While a scope run holds the group, no success of its pull request       *)
(* appears.                                                                *)
SeenLast ==
    \A s \in Scopes :
        /\ step[s] \in Looking => \A h \in Heads :
             status[h].bound # NoBound /\ status[h].bound.pr = subject[s].pr =>
               status[h].bound.base <= subject[s].base
        /\ step[s] = "status" => ~Matching(subject[s])

-----------------------------------------------------------------------------
(* The concurrency group.                                                  *)

LEMMA Free ==
    ASSUME TypeOK, GroupInv, NEW m \in Members, step[m] \notin Active
    PROVE  \A q \in PRs : group[q].holder # m /\ group[q].pending # m
BY DEF GroupInv, Holds, Waits, Active

(* A member that was not in progress enters.                               *)
LEMMA QueueTypes ==
    ASSUME TypeOK, NEW m \in Members, NEW p \in PRs, Queue(m, p)
    PROVE  group' \in [PRs -> Grp!GroupOf(Members)] /\ step' \in [Members -> Steps]
<1>1. step' \in [Members -> Steps]
  BY DEF Queue, Steps, TypeOK
<1>2. group' \in [PRs -> Grp!GroupOf(Members)]
  BY DEF Queue, TypeOK, Grp!Enter, Grp!GroupOf
<1> QED BY <1>1, <1>2

LEMMA QueueKeepsGroup ==
    ASSUME UNCHANGED setting,
           PromotionAssumption, TypeOK, GroupInv,
           NEW m \in Members, NEW p \in PRs, step[m] \notin Active, Queue(m, p),
           subject'[m].pr = p,
           \A x \in Members \ {m} : subject'[x].pr = subject[x].pr
    PROVE  GroupInv'
<1> DEFINE gone == Grp!Displaced(group[p])
<1>1. Nobody \notin Members
  BY DEF PromotionAssumption, Members
<1>2. \A x \in Members : subject[x].pr \in PRs
  BY DEF TypeOK, Subjects
<1>3. \A q \in PRs : group[q].holder # m /\ group[q].pending # m
  BY Free
<1>4. step'[m] = "queued"
  BY DEF Queue
<1>5. CASE ~InGroup(m)
  <2>1. group' = group /\ \A x \in Members \ {m} : step'[x] = step[x]
    BY <1>5 DEF Queue
  <2>2. Ordered'
    BY <2>1 DEF GroupInv, Ordered
  <2>3. Holds' /\ Waits'
    BY <1>3, <2>1 DEF GroupInv, Holds, Waits, InGroup
  <2>4. Placed'
    BY <1>5, <2>1 DEF GroupInv, Placed, InGroup
  <2> QED BY <2>2, <2>3, <2>4 DEF GroupInv
<1>6. CASE InGroup(m)
  <2>1. group' = [group EXCEPT ![p] = Grp!Enter(@, m)]
    BY <1>6 DEF Queue
  <2>2. \A x \in Members \ {m} : step'[x] = IF x = gone THEN "displaced" ELSE step[x]
    BY <1>6 DEF Queue
  <2>3. \A q \in PRs \ {p} : group'[q] = group[q]
    BY <2>1 DEF TypeOK
  <2>4. CASE group[p].holder = Nobody
    <3>1. group'[p].holder = m /\ group'[p].pending = Nobody
      BY <2>1, <2>4 DEF TypeOK, Grp!Enter, Grp!GroupOf, GroupInv, Ordered
    <3>2. \A x \in Members \ {m} : step'[x] = step[x]
      BY <1>1, <2>2, <2>4 DEF Grp!Displaced
    <3>3. Ordered'
      BY <1>1, <2>3, <3>1 DEF GroupInv, Ordered
    <3>4. Holds'
      BY <1>3, <1>4, <1>6, <2>3, <3>1, <3>2 DEF GroupInv, Holds, InGroup, Active
    <3>5. Waits'
      BY <1>1, <1>3, <2>3, <3>1, <3>2 DEF GroupInv, Waits, InGroup
    <3>6. Placed'
      <4>1. SUFFICES ASSUME NEW x \in Members, InGroup(x)
                     PROVE  /\ step'[x] \in Working => group'[subject'[x].pr].holder = x
                            /\ step'[x] = "queued" =>
                                 \/ group'[subject'[x].pr].holder = x
                                 \/ group'[subject'[x].pr].pending = x
        BY DEF Placed, InGroup
      <4>2. CASE x = m
        BY <1>4, <3>1, <4>2 DEF Working, ScopeSteps, ReportSteps
      <4>3. CASE x # m /\ subject[x].pr = p
        BY <1>1, <2>4, <3>2, <4>1, <4>3 DEF GroupInv, Placed, Ordered
      <4>4. CASE x # m /\ subject[x].pr # p
        BY <1>2, <2>3, <3>2, <4>1, <4>4 DEF GroupInv, Placed
      <4> QED BY <4>2, <4>3, <4>4
    <3> QED BY <3>3, <3>4, <3>5, <3>6 DEF GroupInv
  <2>5. CASE group[p].holder # Nobody
    <3>1. group'[p].holder = group[p].holder /\ group'[p].pending = m
      BY <2>1, <2>5 DEF TypeOK, Grp!Enter, Grp!GroupOf
    <3>2. gone = group[p].pending
      BY <2>5 DEF Grp!Displaced
    <3>3. Ordered'
      BY <2>3, <2>5, <3>1 DEF GroupInv, Ordered
    <3>4. Holds'
      BY <1>3, <2>2, <2>3, <3>1, <3>2 DEF GroupInv, Holds, Waits, InGroup
    <3>5. Waits'
      BY <1>3, <1>4, <1>6, <2>2, <2>3, <3>1, <3>2 DEF GroupInv, Waits, InGroup
    <3>6. Placed'
      <4>1. SUFFICES ASSUME NEW x \in Members, InGroup(x)
                     PROVE  /\ step'[x] \in Working => group'[subject'[x].pr].holder = x
                            /\ step'[x] = "queued" =>
                                 \/ group'[subject'[x].pr].holder = x
                                 \/ group'[subject'[x].pr].pending = x
        BY DEF Placed, InGroup
      <4>2. CASE x = m
        BY <1>4, <3>1, <4>2 DEF Working, ScopeSteps, ReportSteps
      <4>3. CASE x # m /\ x = gone
        BY <2>2, <4>3 DEF Working, ScopeSteps, ReportSteps
      <4>4. CASE x # m /\ x # gone /\ subject[x].pr = p
        BY <2>2, <3>1, <3>2, <4>1, <4>4 DEF GroupInv, Placed
      <4>5. CASE x # m /\ x # gone /\ subject[x].pr # p
        BY <1>2, <2>2, <2>3, <4>1, <4>5 DEF GroupInv, Placed
      <4> QED BY <4>2, <4>3, <4>4, <4>5
    <3> QED BY <3>3, <3>4, <3>5, <3>6 DEF GroupInv
  <2> QED BY <2>4, <2>5
<1> QED BY <1>5, <1>6

(* The running member ends, and the waiting one takes its place.           *)
LEMMA EndKeepsGroup ==
    ASSUME UNCHANGED setting,
           PromotionAssumption, TypeOK, GroupInv, NEW m \in Members, step[m] \in Working,
           NEW how \in {"done", "failed"}, End(m, how),
           \A x \in Members : subject'[x].pr = subject[x].pr
    PROVE  /\ GroupInv'
           /\ group' \in [PRs -> Grp!GroupOf(Members)] /\ step' \in [Members -> Steps]
<1>1. Nobody \notin Members
  BY DEF PromotionAssumption, Members
<1>2. \A x \in Members : subject[x].pr \in PRs
  BY DEF TypeOK, Subjects
<1>3. step' = [step EXCEPT ![m] = how] /\ step' \in [Members -> Steps]
  BY DEF End, TypeOK, Steps
<1>4. step'[m] \notin Active /\ \A x \in Members \ {m} : step'[x] = step[x]
  BY <1>3 DEF Active, Working, ScopeSteps, ReportSteps, TypeOK
<1>5. CASE ~InGroup(m)
  <2>1. group' = group
    BY <1>5 DEF End
  <2>2. \A q \in PRs : group[q].holder # m /\ group[q].pending # m
    BY <1>5 DEF GroupInv, Holds, Waits
  <2>3. Ordered' /\ Holds' /\ Waits'
    BY <1>4, <2>1, <2>2 DEF GroupInv, Ordered, Holds, Waits, InGroup
  <2>4. Placed'
    BY <1>4, <1>5, <2>1 DEF GroupInv, Placed, InGroup
  <2>5. group' \in [PRs -> Grp!GroupOf(Members)]
    BY <2>1 DEF TypeOK
  <2> QED BY <1>3, <2>3, <2>4, <2>5 DEF GroupInv
<1>6. CASE InGroup(m)
  <2> DEFINE p == subject[m].pr
  <2>1. group' = [group EXCEPT ![p] = Grp!Release(@)] /\ p \in PRs
    BY <1>2, <1>6 DEF End
  <2>2. group' \in [PRs -> Grp!GroupOf(Members)]
    BY <2>1 DEF TypeOK, Grp!Release, Grp!GroupOf
  <2>3. /\ group'[p].holder = group[p].pending /\ group'[p].pending = Nobody
        /\ \A q \in PRs \ {p} : group'[q] = group[q]
    BY <2>1 DEF TypeOK, Grp!Release
  <2>4. group[p].holder = m
    BY <1>6 DEF GroupInv, Placed
  <2>5. Ordered'
    BY <2>3 DEF GroupInv, Ordered
  <2>6. \A q \in PRs \ {p} : group[q].holder # m
    BY <2>1 DEF GroupInv, Holds
  <2>7. \A q \in PRs : group[q].pending # m
    BY DEF GroupInv, Waits, Working, ScopeSteps, ReportSteps
  <2>8. Holds'
    BY <1>4, <2>3, <2>6, <2>7 DEF GroupInv, Holds, Waits, InGroup, Active
  <2>9. Waits'
    BY <1>1, <1>4, <2>3, <2>7 DEF GroupInv, Waits, InGroup
  <2>10. Placed'
    <3>1. SUFFICES ASSUME NEW x \in Members, InGroup(x)
                   PROVE  /\ step'[x] \in Working => group'[subject'[x].pr].holder = x
                          /\ step'[x] = "queued" =>
                               \/ group'[subject'[x].pr].holder = x
                               \/ group'[subject'[x].pr].pending = x
      BY DEF Placed, InGroup
    <3>2. CASE x = m
      BY <1>4, <3>2 DEF Active
    <3>3. CASE x # m /\ subject[x].pr = p
      BY <1>4, <2>3, <2>4, <3>1, <3>3 DEF GroupInv, Placed
    <3>4. CASE x # m /\ subject[x].pr # p
      BY <1>2, <1>4, <2>3, <3>1, <3>4 DEF GroupInv, Placed
    <3> QED BY <3>2, <3>3, <3>4
  <2> QED BY <1>3, <2>2, <2>5, <2>8, <2>9, <2>10 DEF GroupInv
<1> QED BY <1>5, <1>6

(* A member works on, or starts as the one that holds its group.           *)
LEMMA StepKeepsGroup ==
    ASSUME UNCHANGED setting,
           TypeOK, GroupInv, NEW m \in Members, NEW y \in Working,
           \/ step[m] \in Working
           \/ InGroup(m) => group[subject[m].pr].holder = m /\ step[m] = "queued",
           step' = [step EXCEPT ![m] = y], group' = group,
           \A x \in Members : subject'[x].pr = subject[x].pr
    PROVE  GroupInv' /\ step' \in [Members -> Steps]
<1>1. step' \in [Members -> Steps]
  BY DEF TypeOK, Steps
<1>2. step'[m] = y /\ y # "queued" /\ \A x \in Members \ {m} : step'[x] = step[x]
  BY DEF TypeOK, Working, ScopeSteps, ReportSteps
<1>3. InGroup(m) => group[subject[m].pr].holder = m
  BY DEF GroupInv, Placed
<1>4. Holds'
  BY <1>2 DEF GroupInv, Holds, InGroup, Active
<1>5. \A q \in PRs : group[q].pending # m
  BY <1>3 DEF GroupInv, Waits, Working, ScopeSteps, ReportSteps
<1>6. Waits'
  BY <1>2, <1>5 DEF GroupInv, Waits, InGroup
<1>7. Placed'
  BY <1>2, <1>3 DEF GroupInv, Placed, InGroup
<1> QED BY <1>1, <1>4, <1>6, <1>7 DEF GroupInv, Ordered

(* What is not in progress may move as it likes.                           *)
LEMMA AsideKeepsGroup ==
    ASSUME UNCHANGED setting,
           GroupInv, TypeOK, NEW m \in Members, step[m] \notin Active,
           NEW y \in {"prepare", "failed"}, step' = [step EXCEPT ![m] = y], group' = group,
           \A x \in Members \ {m} : subject'[x].pr = subject[x].pr
    PROVE  GroupInv' /\ step' \in [Members -> Steps]
<1>1. step' \in [Members -> Steps]
  BY DEF TypeOK, Steps
<1>2. step'[m] \notin Active /\ \A x \in Members \ {m} : step'[x] = step[x]
  BY DEF TypeOK, Active, Working, ScopeSteps, ReportSteps
<1>3. \A q \in PRs : group[q].holder # m /\ group[q].pending # m
  BY Free
<1>4. Ordered' /\ Holds' /\ Waits'
  BY <1>2, <1>3 DEF GroupInv, Ordered, Holds, Waits, InGroup
<1>5. Placed'
  BY <1>2, <1>3 DEF GroupInv, Placed, InGroup, Active
<1> QED BY <1>1, <1>4, <1>5 DEF GroupInv

-----------------------------------------------------------------------------
(* Types.                                                                  *)
LEMMA SubjectTypes ==
    ASSUME TypeOK, NEW m \in Members, NEW p \in PRs,
           subject' = [subject EXCEPT ![m].pr = p]
    PROVE  /\ subject' \in [Members -> Subjects] /\ subject'[m].pr = p
           /\ \A x \in Members \ {m} : subject'[x] = subject[x]
BY DEF TypeOK, Subjects

LEMMA ReadTypes ==
    ASSUME TypeOK, NEW m \in Members, NEW h \in Heads, NEW b \in 0 .. MaxBase,
           subject' = [subject EXCEPT ![m].head = h, ![m].base = b]
    PROVE  /\ subject' \in [Members -> Subjects]
           /\ subject'[m] = [pr |-> subject[m].pr, head |-> h, base |-> b]
           /\ \A x \in Members \ {m} : subject'[x] = subject[x]
<1> DEFINE new == [pr |-> subject[m].pr, head |-> h, base |-> b]
<1>1. subject \in [Members -> Subjects] /\ subject[m].pr \in PRs
  BY DEF TypeOK, Subjects
<1>2. new \in Subjects
  BY <1>1 DEF Subjects
<1> DEFINE old == subject[m]
           pushed == [old EXCEPT !.head = h]
           first == [subject EXCEPT ![m] = pushed]
<1>3. [pushed EXCEPT !.base = b] = new
  <2>1. pushed = [pr |-> old.pr, head |-> h, base |-> old.base]
    BY <1>1 DEF Subjects
  <2> HIDE DEF pushed
  <2> QED BY <2>1
<1>4. first[m] = pushed /\ subject' = [first EXCEPT ![m].base = b]
  BY <1>1
<1> HIDE DEF new, pushed, first
<1>5. subject' = [first EXCEPT ![m] = new]
  BY <1>3, <1>4
<1>6. first \in [Members -> Subjects]
        /\ \A x \in Members \ {m} : first[x] = subject[x]
  <2>1. pushed \in Subjects
    BY <1>1 DEF pushed, Subjects
  <2> QED BY <1>1, <2>1 DEF first
<1>7. /\ subject' \in [Members -> Subjects] /\ subject'[m] = new
      /\ \A x \in Members \ {m} : subject'[x] = subject[x]
  BY <1>2, <1>5, <1>6
<1> QED BY <1>7 DEF new

LEMMA Describes ==
    ASSUME TypeOK, NEW m \in Members, NEW kind \in Kinds
    PROVE  /\ Description(subject[m], kind) \in Bound
           /\ Description(subject[m], kind) # NoBound
           /\ Description(subject[m], kind).pr = subject[m].pr
           /\ Description(subject[m], kind).base = subject[m].base
           /\ Description(subject[m], kind).kind = kind
BY DEF TypeOK, Subjects, Bound, NoBound, Description

LEMMA Proves ==
    ASSUME TypeOK, NEW r \in Reports
    PROVE  /\ BuildProof(r) \in Proofs
           /\ BuildProof(r).of = subject[r] /\ BuildProof(r).with = evidence[r]
           /\ evidence[r].kind \in Kinds
BY DEF TypeOK, BuildProof, Proofs, Evidence, Members

LEMMA KindTypes == \A h \in Heads : Kind(h) \in Kinds
BY DEF Kind, Kinds

TypedGroup == TypeOK /\ GroupInv /\ Recorded

LEMMA InitTypes ==
    ASSUME PromotionAssumption, Init PROVE TypedGroup
<1> USE DEF Init
<1>1. PICK p \in PRs : TRUE
  BY DEF PromotionAssumption
<1>2. prs[p].head \in Heads
  BY <1>1
<1>3. \E s \in Subjects : s.base = 0
  <2>1. [pr |-> p, head |-> prs[p].head, base |-> 0] \in Subjects
    BY <1>2 DEF Subjects, PromotionAssumption
  <2> QED BY <2>1
<1>4. \E e \in Evidence : ~e.sound
  <2>1. [kind |-> "service", sound |-> FALSE, plans |-> prs[p].head] \in Evidence
    BY <1>2, Zenon DEF Evidence, Kinds
  <2> QED BY <2>1
<1>5. /\ subject \in [Members -> Subjects] /\ evidence \in [Reports -> Evidence]
  BY <1>3, <1>4
<1>6. prs \in [PRs -> [head : Heads, base : 0 .. MaxBase, open : BOOLEAN]]
  <2>1. {FALSE} \subseteq BOOLEAN
    BY Zenon
  <2>2. {0} \subseteq 0 .. MaxBase
    BY DEF PromotionAssumption
  <2>3. \A F \in SUBSET BOOLEAN, B \in SUBSET (0 .. MaxBase) :
          prs \in [PRs -> [head : Heads, base : B, open : F]] =>
          prs \in [PRs -> [head : Heads, base : 0 .. MaxBase, open : BOOLEAN]]
    OBVIOUS
  <2> QED BY <2>1, <2>2, <2>3, Zenon
<1>7. /\ status \in [Heads -> [state : {"none", "pending", "success"},
                              bound : Bound \cup {NoBound}]]
      /\ group \in [PRs -> Grp!GroupOf(Members)]
      /\ step \in [Members -> Steps]
      /\ events \in 0 .. MaxEvents
  BY DEF PromotionAssumption, Steps, Grp!GroupOf, Grp!EmptyGroup
<1>8. TypeOK
  BY <1>5, <1>6, <1>7 DEF TypeOK
<1>9. GroupInv
  BY DEF GroupInv, Ordered, Holds, Waits, Placed, Grp!EmptyGroup, PromotionAssumption,
         Members, Working, ScopeSteps, ReportSteps
<1>10. Recorded
  BY DEF Recorded, Members
<1> QED BY <1>8, <1>9, <1>10 DEF TypedGroup

LEMMA RecordedKept ==
    ASSUME Recorded, marked \subseteq marked',
           \A r \in Reports : step'[r] \in {"test", "prod", "post"} =>
               /\ step'[r] = step[r] /\ evidence'[r] = evidence[r]
               /\ subject'[r] = subject[r] /\ proof'[r] = proof[r]
    PROVE  Recorded'
BY DEF Recorded, Provable, BuildProof

(* A run is queued: by a push, by an opening, or again.                    *)
LEMMA QueueFrame ==
    ASSUME UNCHANGED setting,
           PromotionAssumption, TypedGroup, NEW m \in Members, NEW p \in PRs,
           step[m] \notin Active, Queue(m, p),
           subject' \in [Members -> Subjects], subject'[m].pr = p,
           \A x \in Members \ {m} : subject'[x] = subject[x],
           events' \in 0 .. MaxEvents,
           prs' \in [PRs -> [head : Heads, base : 0 .. MaxBase, open : BOOLEAN]],
           UNCHANGED <<status, evidence, marked, lost>>,
           proof' \in [Reports -> Proofs \cup {NoProof}],
           \A r \in Reports : r # m => proof'[r] = proof[r]
    PROVE  TypedGroup'
<1> USE DEF TypedGroup
<1>1. GroupInv' /\ step' \in [Members -> Steps] /\ group' \in [PRs -> Grp!GroupOf(Members)]
  BY QueueKeepsGroup, QueueTypes
<1>2. \A r \in Reports : step'[r] \in {"test", "prod", "post"} => r # m /\ step'[r] = step[r]
  BY DEF Queue, Members
<1>3. Recorded'
  BY <1>2, RecordedKept DEF Members
<1>4. TypeOK'
  BY <1>1 DEF TypeOK
<1> QED BY <1>1, <1>3, <1>4

LEMMA EventTypes ==
    PromotionAssumption /\ TypeOK /\ Event => events' \in 0 .. MaxEvents
BY DEF PromotionAssumption, TypeOK, Event

LEMMA Pushed ==
    ASSUME UNCHANGED setting,
           PromotionAssumption, TypedGroup, NEW p \in PRs, Open(p) \/ Push(p)
    PROVE  TypedGroup'
<1>1. prs' \in [PRs -> [head : Heads, base : 0 .. MaxBase, open : BOOLEAN]]
  <2>1. CASE Open(p)
    <3>1. prs' = [prs EXCEPT ![p].open = TRUE]
      BY <2>1 DEF Open
    <3>2. prs \in [PRs -> [head : Heads, base : 0 .. MaxBase, open : BOOLEAN]]
      BY DEF TypedGroup, TypeOK
    <3> QED BY <3>1, <3>2
  <2>2. CASE Push(p)
    <3>1. PICK h \in Heads : prs' = [prs EXCEPT ![p].head = h]
      BY <2>2 DEF Push
    <3>2. /\ prs \in [PRs -> [head : Heads, base : 0 .. MaxBase, open : BOOLEAN]]
          /\ [prs[p] EXCEPT !.head = h]
                \in [head : Heads, base : 0 .. MaxBase, open : BOOLEAN]
      BY DEF TypedGroup, TypeOK
    <3> QED BY <3>1, <3>2
  <2> QED BY <2>1, <2>2
<1>2. PullRequestEvent(p)
  BY DEF Open, Push
<1>3. PICK s \in Scopes : /\ step[s] = "unused" /\ Queue(s, p)
                          /\ subject' = [subject EXCEPT ![s].pr = p]
  BY <1>2 DEF PullRequestEvent
<1>4. s \in Members /\ step[s] \notin Active
  BY <1>3 DEF Members, Active, Working, ScopeSteps, ReportSteps
<1>5. /\ subject' \in [Members -> Subjects] /\ subject'[s].pr = p
      /\ \A x \in Members \ {s} : subject'[x] = subject[x]
  BY <1>3, <1>4, SubjectTypes DEF TypedGroup
<1>6. /\ events' \in 0 .. MaxEvents /\ UNCHANGED <<status, evidence, proof, marked, lost>>
  BY <1>2, EventTypes DEF PullRequestEvent, TypedGroup
<1>7. proof' \in [Reports -> Proofs \cup {NoProof}] /\ proof' = proof
  BY <1>6 DEF TypedGroup, TypeOK
<1> QED BY <1>1, <1>3, <1>4, <1>5, <1>6, <1>7, QueueFrame

LEMMA Reran ==
    ASSUME UNCHANGED setting,
           PromotionAssumption, TypedGroup, NEW m \in Members, Rerun(m)
    PROVE  TypedGroup'
<1>1. subject[m].pr \in PRs /\ events' \in 0 .. MaxEvents
  BY EventTypes DEF TypedGroup, TypeOK, Subjects, Rerun
<1>2. /\ Queue(m, subject[m].pr) /\ step[m] \notin Active
      /\ UNCHANGED <<prs, status, subject, evidence, proof, marked, lost>>
  BY DEF Rerun, Active, Working, ScopeSteps, ReportSteps
<1>3. /\ subject' \in [Members -> Subjects]
      /\ prs' \in [PRs -> [head : Heads, base : 0 .. MaxBase, open : BOOLEAN]]
      /\ proof' \in [Reports -> Proofs \cup {NoProof}]
  BY <1>2 DEF TypedGroup, TypeOK
<1> QED BY <1>1, <1>2, <1>3, QueueFrame

LEMMA Prepared ==
    ASSUME UNCHANGED setting,
           PromotionAssumption, TypedGroup, NEW r \in Reports, Prepare(r)
    PROVE  TypedGroup'
<1>1. r \in Members /\ subject[r].pr \in PRs /\ events' \in 0 .. MaxEvents
  BY DEF TypedGroup, TypeOK, Subjects, Prepare, ReportUnchanged, Members
<1>2. /\ Queue(r, subject[r].pr) /\ step[r] \notin Active
      /\ UNCHANGED <<prs, status, subject, evidence, marked, lost>>
  BY DEF Prepare, ReportUnchanged, Active, Working, ScopeSteps, ReportSteps
<1>3. /\ subject' \in [Members -> Subjects]
      /\ prs' \in [PRs -> [head : Heads, base : 0 .. MaxBase, open : BOOLEAN]]
  BY <1>2 DEF TypedGroup, TypeOK
<1>4. /\ proof' \in [Reports -> Proofs \cup {NoProof}]
      /\ \A x \in Reports : x # r => proof'[x] = proof[x]
  BY Proves DEF Prepare, TypedGroup, TypeOK
<1> QED BY <1>1, <1>2, <1>3, <1>4, QueueFrame

(* The world's other moves.                                                *)
LEMMA MovedOn ==
    ASSUME UNCHANGED setting,
           PromotionAssumption, TypedGroup, NEW p \in PRs, Close(p) \/ MoveBase(p)
    PROVE  TypedGroup'
<1> USE DEF TypedGroup
<1>1. prs' \in [PRs -> [head : Heads, base : 0 .. MaxBase, open : BOOLEAN]]
  <2>1. CASE Close(p)
    BY <2>1 DEF Close, TypeOK
  <2>2. CASE MoveBase(p)
    <3>1. prs[p].base + 1 \in 0 .. MaxBase
      BY <2>2 DEF MoveBase, TypeOK, PromotionAssumption
    <3> QED BY <2>2, <3>1 DEF MoveBase, TypeOK
  <2> QED BY <2>1, <2>2
<1>2. /\ events' \in 0 .. MaxEvents
      /\ UNCHANGED <<status, group, step, subject, evidence, proof, marked, lost>>
  BY EventTypes DEF Close, MoveBase
<1>3. TypeOK'
  BY <1>1, <1>2 DEF TypeOK
<1>4. GroupInv' /\ Recorded'
  BY <1>2 DEF GroupInv, Ordered, Holds, Waits, Placed, InGroup, Recorded, Provable,
              BuildProof
<1> QED BY <1>3, <1>4

LEMMA Promoted ==
    ASSUME UNCHANGED setting,
           PromotionAssumption, TypedGroup, NEW p \in PRs, NEW r \in Reports,
           Promote(r, p)
    PROVE  TypedGroup'
<1> USE DEF TypedGroup
<1>1. r \in Members /\ step[r] \notin Active
  BY DEF Promote, Members, Active, Working, ScopeSteps, ReportSteps
<1>2. /\ events' \in 0 .. MaxEvents
      /\ UNCHANGED <<prs, status, group, proof, marked, lost>>
      /\ step' = [step EXCEPT ![r] = "prepare"]
  BY EventTypes DEF Promote
<1>3. [pr |-> p, head |-> prs[p].head, base |-> prs[p].base] \in Subjects
  BY DEF TypeOK, Subjects
<1>4. /\ subject' \in [Members -> Subjects]
      /\ \A x \in Members \ {r} : subject'[x] = subject[x]
  BY <1>1, <1>3 DEF Promote, TypeOK
<1>5. /\ evidence' \in [Reports -> Evidence]
      /\ \A x \in Reports \ {r} : evidence'[x] = evidence[x]
  BY DEF Promote, TypeOK
<1>6. GroupInv' /\ step' \in [Members -> Steps]
  BY <1>1, <1>2, <1>4, AsideKeepsGroup
<1>7. Recorded'
  BY <1>1, <1>2, <1>4, <1>5, RecordedKept DEF Members, TypeOK
<1>8. TypeOK'
  BY <1>2, <1>4, <1>5, <1>6 DEF TypeOK
<1> QED BY <1>6, <1>7, <1>8

(* A member works on; one that holds its group starts.                     *)
LEMMA StepFrame ==
    ASSUME UNCHANGED setting,
           PromotionAssumption, TypedGroup, NEW m \in Members, NEW y \in Working,
           \/ step[m] \in Working
           \/ InGroup(m) => group[subject[m].pr].holder = m /\ step[m] = "queued",
           step' = [step EXCEPT ![m] = y],
           subject' \in [Members -> Subjects], subject'[m].pr = subject[m].pr,
           \A x \in Members \ {m} : subject'[x] = subject[x],
           UNCHANGED <<events, prs, status, group, evidence, proof, lost>>,
           marked \subseteq marked', marked' \subseteq Proofs \X {"test", "prod"},
           m \in Reports /\ y # "publish" => Recorded'
    PROVE  TypedGroup'
<1> USE DEF TypedGroup
<1>1. GroupInv' /\ step' \in [Members -> Steps]
  BY StepKeepsGroup
<1>2. \A x \in Members \ {m} : step'[x] = step[x]
  BY DEF TypeOK
<1>3. step'[m] = y
  BY DEF TypeOK
<1>4. Recorded'
  <2>1. CASE m \in Reports /\ y # "publish"
    BY <2>1
  <2>2. CASE m \notin Reports \/ y = "publish"
    <3>1. \A r \in Reports : step'[r] \in {"test", "prod", "post"} => r # m
      BY <1>3, <2>2
    <3> QED BY <1>2, <3>1, RecordedKept DEF Members
  <2> QED BY <2>1, <2>2
<1>5. TypeOK'
  BY <1>1 DEF TypeOK
<1> QED BY <1>1, <1>4, <1>5

LEMMA EndFrame ==
    ASSUME UNCHANGED setting,
           PromotionAssumption, TypedGroup, NEW m \in Members, step[m] \in Working,
           NEW how \in {"done", "failed"}, End(m, how),
           UNCHANGED <<events, prs, subject, evidence, proof, marked>>,
           status' \in [Heads -> [state : {"none", "pending", "success"},
                                 bound : Bound \cup {NoBound}]],
           lost' \subseteq PRs
    PROVE  TypedGroup'
<1> USE DEF TypedGroup
<1>1. /\ GroupInv' /\ step' \in [Members -> Steps]
      /\ group' \in [PRs -> Grp!GroupOf(Members)]
  BY EndKeepsGroup
<1>2. \A r \in Reports : step'[r] \in {"test", "prod", "post"} => step'[r] = step[r]
  BY DEF End, TypeOK, Members
<1>3. Recorded'
  BY <1>2, RecordedKept
<1>4. TypeOK'
  BY <1>1 DEF TypeOK
<1> QED BY <1>1, <1>3, <1>4

LEMMA Started ==
    ASSUME UNCHANGED setting,
           PromotionAssumption, TypedGroup, NEW m \in Members, Start(m)
    PROVE  TypedGroup'
<1> DEFINE y == IF m \in Scopes THEN "read" ELSE "publish"
<1>1. y \in Working /\ (m \in Reports => y = "publish")
  BY DEF Working, ScopeSteps, ReportSteps, PromotionAssumption
<1>2. subject' = subject /\ subject' \in [Members -> Subjects]
  BY DEF Start, TypedGroup, TypeOK
<1>3. marked' = marked /\ marked' \subseteq Proofs \X {"test", "prod"}
  BY DEF Start, TypedGroup, TypeOK
<1>4. /\ InGroup(m) => group[subject[m].pr].holder = m /\ step[m] = "queued"
      /\ step' = [step EXCEPT ![m] = y]
      /\ UNCHANGED <<events, prs, status, group, evidence, proof, lost>>
  BY DEF Start
<1> HIDE DEF y
<1> QED BY <1>1, <1>2, <1>3, <1>4, StepFrame

LEMMA ScopeWorked ==
    ASSUME UNCHANGED setting,
           PromotionAssumption, TypedGroup, NEW s \in Scopes,
           ReadScope(s) \/ Compare(s) \/ ReadStatuses(s) \/ PostScope(s)
    PROVE  TypedGroup'
<1>1. s \in Members /\ s \notin Reports
  BY DEF Members, PromotionAssumption
<1>2. marked' = marked /\ marked' \subseteq Proofs \X {"test", "prod"}
  BY DEF ReadScope, Compare, ReadStatuses, PostScope, ScopeUnchanged, TypedGroup, TypeOK
<1>3. CASE ReadScope(s)
  <2>1. prs[subject[s].pr].head \in Heads /\ prs[subject[s].pr].base \in 0 .. MaxBase
    BY <1>1 DEF TypedGroup, TypeOK, Subjects
  <2>2. /\ subject' \in [Members -> Subjects] /\ subject'[s].pr = subject[s].pr
        /\ \A x \in Members \ {s} : subject'[x] = subject[x]
    <3> DEFINE h == prs[subject[s].pr].head
               b == prs[subject[s].pr].base
    <3>1. subject[s].pr \in PRs /\ h \in Heads /\ b \in 0 .. MaxBase
      BY <1>1, <2>1 DEF TypedGroup, TypeOK, Subjects
    <3>2. subject' = [subject EXCEPT ![s].head = h, ![s].base = b]
      BY <1>3 DEF ReadScope
    <3> HIDE DEF h, b
    <3>3. /\ subject'[s] = [pr |-> subject[s].pr, head |-> h, base |-> b]
          /\ subject' \in [Members -> Subjects]
          /\ \A x \in Members \ {s} : subject'[x] = subject[x]
      BY <1>1, <3>1, <3>2, ReadTypes DEF TypedGroup
    <3> QED BY <3>3
  <2>3. /\ step' = [step EXCEPT ![s] = "compare"] /\ step[s] \in Working
        /\ "compare" \in Working
        /\ UNCHANGED <<events, prs, status, group, evidence, proof, lost>>
    BY <1>3 DEF ReadScope, ScopeUnchanged, Working, ScopeSteps
  <2> QED BY <1>1, <1>2, <2>2, <2>3, StepFrame
<1>4. ASSUME NEW y \in Working, step[s] \in Working, step' = [step EXCEPT ![s] = y],
             UNCHANGED <<events, prs, status, group, subject, evidence, proof, lost>>
      PROVE  TypedGroup'
  <2>1. subject' \in [Members -> Subjects]
    BY <1>4 DEF TypedGroup, TypeOK
  <2> QED BY <1>1, <1>2, <1>4, <2>1, StepFrame
<1>5. ASSUME step[s] \in Working, End(s, "done"), lost' = lost \ {subject[s].pr},
             status' \in [Heads -> [state : {"none", "pending", "success"},
                                   bound : Bound \cup {NoBound}]],
             UNCHANGED <<events, prs, subject, evidence, proof, marked>>
      PROVE  TypedGroup'
  <2>1. lost' \subseteq PRs
    BY <1>5 DEF TypedGroup, TypeOK
  <2> QED BY <1>1, <1>5, <2>1, EndFrame
<1>6. CASE Compare(s)
  <2>1. "statuses" \in Working /\ step[s] \in Working
    BY <1>6 DEF Compare, Working, ScopeSteps
  <2> QED BY <1>4, <1>6, <2>1 DEF Compare, ScopeUnchanged
<1>7. CASE ReadStatuses(s)
  <2>1. "status" \in Working /\ step[s] \in Working
    BY <1>7 DEF ReadStatuses, Working, ScopeSteps
  <2>2. CASE Matching(subject[s])
    BY <1>5, <1>7, <2>1, <2>2 DEF ReadStatuses, ScopeUnchanged, TypedGroup, TypeOK
  <2>3. CASE ~Matching(subject[s])
    BY <1>4, <1>7, <2>1, <2>3 DEF ReadStatuses, ScopeUnchanged
  <2> QED BY <2>2, <2>3
<1>8. CASE PostScope(s)
  <2>1. step[s] \in Working
    BY <1>8 DEF PostScope, Working, ScopeSteps
  <2>2. status' \in [Heads -> [state : {"none", "pending", "success"},
                              bound : Bound \cup {NoBound}]]
    BY <1>8 DEF PostScope, ScopeState, TypedGroup, TypeOK
  <2> QED BY <1>5, <1>8, <2>1, <2>2 DEF PostScope, ScopeUnchanged
<1> QED BY <1>3, <1>6, <1>7, <1>8

LEMMA ReportWorked ==
    ASSUME UNCHANGED setting,
           PromotionAssumption, TypedGroup, NEW r \in Reports,
           \/ Publish(r) \/ Record(r, "test", "prod") \/ Record(r, "prod", "post")
           \/ PostSuccess(r)
    PROVE  TypedGroup'
<1>1. r \in Members
  BY DEF Members
<1>2. subject' = subject /\ subject' \in [Members -> Subjects]
  BY DEF Publish, Record, PostSuccess, ReportUnchanged, TypedGroup, TypeOK
<1>3. CASE Publish(r)
  <2>1. /\ step' = [step EXCEPT ![r] = "test"] /\ step[r] \in Working
        /\ "test" \in Working /\ marked' = marked
        /\ UNCHANGED <<events, prs, status, group, evidence, proof, lost>>
    BY <1>3 DEF Publish, ReportUnchanged, Working, ReportSteps
  <2>2. marked' \subseteq Proofs \X {"test", "prod"}
    BY <2>1 DEF TypedGroup, TypeOK
  <2>3. Recorded'
    <3>1. \A x \in Reports : step'[x] = IF x = r THEN "test" ELSE step[x]
      BY <2>1 DEF TypedGroup, TypeOK, Members
    <3>2. Provable(r) /\ proof[r] = BuildProof(r)
      BY <1>3 DEF Publish
    <3> QED BY <1>2, <2>1, <3>1, <3>2 DEF TypedGroup, Recorded, Provable, BuildProof
  <2> QED BY <1>1, <1>2, <2>1, <2>2, <2>3, StepFrame
<1>4. ASSUME NEW env \in {"test", "prod"}, NEW next \in {"prod", "post"},
             Record(r, env, next), env = "test" <=> next = "prod"
      PROVE  TypedGroup'
  <2>1. /\ step' = [step EXCEPT ![r] = next] /\ step[r] = env /\ step[r] \in Working
        /\ next \in Working /\ marked' = marked \cup {<<proof[r], env>>}
        /\ UNCHANGED <<events, prs, status, group, evidence, proof, lost>>
    BY <1>4 DEF Record, ReportUnchanged, Working, ReportSteps
  <2>2. proof[r] = BuildProof(r) /\ Provable(r)
    BY <2>1 DEF TypedGroup, Recorded
  <2>3. marked' \subseteq Proofs \X {"test", "prod"}
    <3>1. proof[r] \in Proofs
      BY <2>2, Proves DEF TypedGroup
    <3> QED BY <2>1, <3>1 DEF TypedGroup, TypeOK
  <2>4. Recorded'
    <3>1. \A x \in Reports : step'[x] = IF x = r THEN next ELSE step[x]
      BY <2>1 DEF TypedGroup, TypeOK, Members
    <3>2. next = "post" => <<proof[r], "test">> \in marked
      BY <1>4, <2>1 DEF TypedGroup, Recorded
    <3>3. \A x \in Reports : proof'[x] = proof[x] /\ (Provable(x)' <=> Provable(x))
                             /\ BuildProof(x)' = BuildProof(x)
      BY <1>2, <2>1 DEF Provable, BuildProof
    <3>4. \A x \in Reports \ {r} :
            /\ step'[x] \in {"test", "prod", "post"} =>
                 Provable(x)' /\ proof'[x] = BuildProof(x)'
            /\ step'[x] \in {"prod", "post"} => <<proof'[x], "test">> \in marked'
            /\ step'[x] = "post" => <<proof'[x], "prod">> \in marked'
      BY <2>1, <3>1, <3>3 DEF TypedGroup, Recorded
    <3>5. /\ Provable(r)' /\ proof'[r] = BuildProof(r)'
          /\ <<proof'[r], "test">> \in marked'
          /\ step'[r] = "post" => <<proof'[r], "prod">> \in marked'
      BY <1>4, <2>1, <2>2, <3>1, <3>2, <3>3
    <3>6. \A x \in Reports :
            /\ step'[x] \in {"test", "prod", "post"} =>
                 Provable(x)' /\ proof'[x] = BuildProof(x)'
            /\ step'[x] \in {"prod", "post"} => <<proof'[x], "test">> \in marked'
            /\ step'[x] = "post" => <<proof'[x], "prod">> \in marked'
      BY <3>4, <3>5
    <3> QED BY <3>6 DEF Recorded
  <2> QED BY <1>1, <1>2, <2>1, <2>3, <2>4, StepFrame
<1>5. CASE PostSuccess(r)
  <2>1. step[r] \in Working /\ End(r, "done")
    BY <1>5 DEF PostSuccess, Working, ReportSteps
  <2>2. status' \in [Heads -> [state : {"none", "pending", "success"},
                              bound : Bound \cup {NoBound}]]
    <3>1. Description(subject[r], evidence[r].kind) \in Bound
      BY <1>1, Proves, Describes DEF TypedGroup
    <3> QED BY <1>5, <3>1 DEF PostSuccess, TypedGroup, TypeOK
  <2>3. UNCHANGED <<events, prs, subject, evidence, proof, marked>> /\ lost' \subseteq PRs
    BY <1>5 DEF PostSuccess, ReportUnchanged, TypedGroup, TypeOK
  <2> QED BY <1>1, <2>1, <2>2, <2>3, EndFrame
<1> QED BY <1>3, <1>4, <1>5

LEMMA Failed ==
    ASSUME UNCHANGED setting,
           PromotionAssumption, TypedGroup, NEW m \in Members, Fail(m)
    PROVE  TypedGroup'
<1>1. /\ UNCHANGED <<events, prs, status, subject, evidence, proof, marked>>
      /\ lost' \subseteq PRs
  BY DEF Fail, TypedGroup, TypeOK, Subjects
<1>2. CASE step[m] \in Working /\ End(m, "failed")
  <2>1. status' \in [Heads -> [state : {"none", "pending", "success"},
                              bound : Bound \cup {NoBound}]]
    BY <1>1 DEF TypedGroup, TypeOK
  <2> QED BY <1>1, <1>2, <2>1, EndFrame
<1>3. CASE step[m] = "prepare" /\ step' = [step EXCEPT ![m] = "failed"] /\ group' = group
  <2>1. step[m] \notin Active
    BY <1>3 DEF Active, Working, ScopeSteps, ReportSteps
  <2>2. GroupInv' /\ step' \in [Members -> Steps]
    BY <1>1, <1>3, <2>1, AsideKeepsGroup DEF TypedGroup
  <2>3. Recorded'
    <3>1. \A r \in Reports : step'[r] \in {"test", "prod", "post"} => step'[r] = step[r]
      BY <1>3 DEF TypedGroup, TypeOK, Members
    <3> QED BY <1>1, <3>1, RecordedKept DEF TypedGroup
  <2>4. TypeOK'
    BY <1>1, <1>3, <2>2 DEF TypedGroup, TypeOK
  <2> QED BY <2>2, <2>3, <2>4 DEF TypedGroup
<1> QED BY <1>2, <1>3 DEF Fail

LEMMA SettingKept ==
    ASSUME [Next]_vars PROVE UNCHANGED setting
BY DEF Next, vars

LEMMA TypedGroupKept ==
    ASSUME PromotionAssumption, TypedGroup, [Next]_vars PROVE TypedGroup'
<1> UNCHANGED setting
  BY SettingKept
<1>1. CASE World
  BY <1>1, Pushed, MovedOn, Promoted, Reran DEF World
<1>2. ASSUME NEW m \in Members, Work(m) PROVE TypedGroup'
  BY <1>2, Started, Failed, ScopeWorked, ReportWorked, Prepared DEF Work
<1>3. CASE UNCHANGED vars
  BY <1>3 DEF vars, TypedGroup, TypeOK, GroupInv, Ordered, Holds, Waits, Placed, InGroup,
              Recorded, Provable, BuildProof
<1> QED BY <1>1, <1>2, <1>3 DEF Next

-----------------------------------------------------------------------------
(* What a success stands on.                                               *)
LEMMA Writers ==
    ASSUME [Next]_vars
    PROVE  /\ marked \subseteq marked'
           /\ \/ UNCHANGED status
              \/ \E s \in Scopes : PostScope(s)
              \/ \E r \in Reports : PostSuccess(r)
<1>1. CASE World
  BY <1>1 DEF World, Open, Push, PullRequestEvent, Close, MoveBase, Promote, Rerun
<1>2. ASSUME NEW m \in Members, Work(m)
      PROVE  /\ marked \subseteq marked'
             /\ \/ UNCHANGED status
                \/ \E s \in Scopes : PostScope(s)
                \/ \E r \in Reports : PostSuccess(r)
  BY <1>2 DEF Work, Start, Fail, ReadScope, Compare, ReadStatuses, PostScope, ScopeUnchanged,
     Prepare, Publish, Record, PostSuccess, ReportUnchanged
<1> QED BY <1>1, <1>2 DEF Next, vars

ProvenBy(h, now, marks) ==
    now.state = "success" =>
        IF now.bound = NoBound THEN ~NeedsPromotion(h)
        ELSE \E f \in Proofs :
                /\ f.of.head = h
                /\ now.bound = Description(f.of, f.with.kind)
                /\ f.with.sound /\ f.with.plans = h
                /\ <<f, "test">> \in marks /\ <<f, "prod">> \in marks

LEMMA ProvenEach ==
    ASSUME UNCHANGED setting
    PROVE  /\ SuccessIsProven <=> \A h \in Heads : ProvenBy(h, status[h], marked)
           /\ SuccessIsProven' <=> \A h \in Heads : ProvenBy(h, status'[h], marked')
<1>1. \A h \in Heads : NeedsPromotion(h)' <=> NeedsPromotion(h)
  BY DEF NeedsPromotion, Kind
<1> QED BY <1>1, Zenon DEF SuccessIsProven, ProvenBy

LEMMA MoreMarks ==
    ASSUME NEW h, NEW now, NEW old, NEW new, old \subseteq new, ProvenBy(h, now, old)
    PROVE  ProvenBy(h, now, new)
BY Zenon DEF ProvenBy

LEMMA ProvenKept ==
    ASSUME PromotionAssumption, TypedGroup, SuccessIsProven, [Next]_vars
    PROVE  SuccessIsProven'
<1> UNCHANGED setting
  BY SettingKept
<1>1. marked \subseteq marked'
  BY Writers
<1>2. \A h \in Heads : ProvenBy(h, status[h], marked')
  BY <1>1, ProvenEach, MoreMarks
<1>3. CASE UNCHANGED status
  BY <1>2, <1>3, ProvenEach
<1>4. ASSUME NEW s \in Scopes, PostScope(s) PROVE SuccessIsProven'
  <2> DEFINE h == subject[s].head
  <2>1. /\ h \in Heads /\ status'[h] = ScopeState(h)
        /\ \A x \in Heads \ {h} : status'[x] = status[x]
    BY <1>4 DEF PostScope, TypedGroup, TypeOK, Members, Subjects
  <2>2. /\ ScopeState(h).bound = NoBound
        /\ ScopeState(h).state = "success" => ~NeedsPromotion(h)
    BY DEF ScopeState
  <2> HIDE DEF h
  <2>3. ProvenBy(h, status'[h], marked')
    BY <2>1, <2>2 DEF ProvenBy
  <2> QED BY <1>2, <2>1, <2>3, ProvenEach
<1>5. ASSUME NEW r \in Reports, PostSuccess(r) PROVE SuccessIsProven'
  <2> DEFINE f == BuildProof(r)
             h == subject[r].head
             d == Description(subject[r], evidence[r].kind)
  <2>1. r \in Members /\ step[r] = "post"
    BY <1>5 DEF Members, PostSuccess
  <2>2. /\ f \in Proofs /\ f.of = subject[r] /\ f.with = evidence[r] /\ d # NoBound
    BY <2>1, Proves, Describes DEF TypedGroup
  <2>3. /\ evidence[r].sound /\ evidence[r].plans = h
        /\ <<f, "test">> \in marked /\ <<f, "prod">> \in marked
    BY <2>1 DEF TypedGroup, Recorded, Provable
  <2>4. /\ h \in Heads /\ status'[h] = [state |-> "success", bound |-> d]
        /\ \A x \in Heads \ {h} : status'[x] = status[x]
    BY <1>5, <2>1 DEF PostSuccess, TypedGroup, TypeOK, Subjects
  <2>5. d = Description(f.of, f.with.kind) /\ f.of.head = h
    BY <2>2
  <2> HIDE DEF f, d, h
  <2>6. f.with.sound /\ f.with.plans = h
    BY <2>2, <2>3, Zenon
  <2>7. <<f, "test">> \in marked' /\ <<f, "prod">> \in marked'
    BY <1>1, <2>3
  <2>8. status'[h].state = "success" /\ status'[h].bound = d
    BY <2>4
  <2>9. ProvenBy(h, status'[h], marked')
    BY <2>2, <2>5, <2>6, <2>7, <2>8, Zenon DEF ProvenBy
  <2> QED BY <1>2, <2>4, <2>9, ProvenEach
<1> QED BY <1>3, <1>4, <1>5, Writers

-----------------------------------------------------------------------------
(* No head is forgotten, when the reporter does not take the group.        *)
Watched == Followed /\ NoHeadIsForgotten

(* What a step does that leaves the scope runs alone.                      *)
LEMMA ScopesAlone ==
    ASSUME TypedGroup, Watched,
           \A s \in Scopes : step'[s] = step[s] /\ subject'[s] = subject[s],
           \A p \in PRs : prs'[p].head = prs[p].head /\ (prs'[p].open => prs[p].open),
           \A h \in Heads : status'[h].state = "none" => status[h].state = "none",
           lost' = lost
    PROVE  Watched'
<1>1. \A s \in Scopes : subject[s].pr \in PRs
  BY DEF TypedGroup, TypeOK, Members, Subjects
<1>2. Followed'
  BY <1>1 DEF Watched, Followed
<1>3. NoHeadIsForgotten'
  <2> SUFFICES ASSUME NEW p \in PRs \ lost,
                      prs[p].open, status[prs[p].head].state = "none"
               PROVE  \E s \in Scopes : /\ subject'[s].pr = p
                                        /\ step'[s] \in ScopeSteps \cup {"queued"}
    <3>1. \A p \in PRs : prs[p].head \in Heads
      BY DEF TypedGroup, TypeOK
    <3> QED BY <3>1 DEF NoHeadIsForgotten
  <2> QED BY DEF Watched, NoHeadIsForgotten
<1> QED BY <1>2, <1>3 DEF Watched

(* A scope run is queued.                                                  *)
LEMMA QueuedWatched ==
    ASSUME PromotionAssumption, ~setting.grouped, TypedGroup, Watched,
           NEW m \in Scopes, NEW p \in PRs, step[m] \notin Active, Queue(m, p),
           subject'[m].pr = p,
           \A x \in Members \ {m} : subject'[x] = subject[x],
           \A q \in PRs \ {p} : prs'[q] = prs[q],
           UNCHANGED <<status, lost>>
    PROVE  Watched'
<1> DEFINE gone == Grp!Displaced(group[p])
<1>1. m \in Members /\ InGroup(m) /\ Nobody \notin Members
  BY DEF Members, InGroup, PromotionAssumption
<1>2. /\ step'[m] = "queued"
      /\ \A x \in Members \ {m} : step'[x] = IF x = gone THEN "displaced" ELSE step[x]
  BY <1>1 DEF Queue
<1>3. \A x \in Members : x = gone => step[x] = "queued" /\ subject[x].pr = p
  BY <1>1 DEF Grp!Displaced, TypedGroup, GroupInv, Waits
<1>4. step[m] \notin Looking /\ step[m] \notin ScopeSteps \cup {"queued"}
  BY DEF Looking, ScopeSteps, Active, Working
<1>5. Followed'
  <2>1. SUFFICES ASSUME NEW s \in Scopes, step'[s] \in Looking,
                        subject'[s].head # prs'[subject'[s].pr].head
                 PROVE  \E t \in Scopes : subject'[t].pr = subject'[s].pr
                                           /\ step'[t] = "queued"
    BY DEF Followed, Looking
  <2>2. s # m /\ s \in Members /\ step'[s] = step[s] /\ subject'[s] = subject[s]
    BY <1>2, <1>3, <1>4, <2>1 DEF Members, Looking
  <2>3. CASE subject[s].pr = p
    BY <1>2, <2>2, <2>3
  <2>4. CASE subject[s].pr # p
    <3>1. subject[s].pr \in PRs
      BY <2>2 DEF TypedGroup, TypeOK, Subjects
    <3>2. PICK t \in Scopes : subject[t].pr = subject[s].pr /\ step[t] = "queued"
      BY <2>1, <2>2, <2>4, <3>1 DEF Watched, Followed
    <3>3. t \in Members /\ t # m /\ t # gone
      BY <1>3, <1>4, <2>4, <3>2 DEF Members
    <3> QED BY <1>2, <2>2, <3>2, <3>3
  <2> QED BY <2>3, <2>4
<1>6. NoHeadIsForgotten'
  <2>1. SUFFICES ASSUME NEW q \in PRs \ lost, prs'[q].open,
                        status[prs'[q].head].state = "none"
                 PROVE  \E s \in Scopes : subject'[s].pr = q
                                           /\ step'[s] \in ScopeSteps \cup {"queued"}
    BY DEF NoHeadIsForgotten
  <2>2. CASE q = p
    BY <1>2, <2>2
  <2>3. CASE q # p
    <3>1. PICK s \in Scopes : /\ subject[s].pr = q
                              /\ step[s] \in ScopeSteps \cup {"queued"}
      BY <2>1, <2>3 DEF Watched, NoHeadIsForgotten
    <3>2. s \in Members /\ s # m /\ s # gone
      BY <1>3, <1>4, <2>3, <3>1 DEF Members
    <3> QED BY <1>2, <3>1, <3>2
  <2> QED BY <2>2, <2>3
<1> QED BY <1>5, <1>6 DEF Watched

(* A scope run ends having seen to it that its head has a status, or fails.*)
LEMMA EndedWatched ==
    ASSUME PromotionAssumption, TypedGroup, Watched,
           NEW s \in Scopes, step[s] # "queued", NEW how \in {"done", "failed"},
           step' = [step EXCEPT ![s] = how],
           UNCHANGED <<prs, subject>>,
           \A h \in Heads : status'[h].state = "none" => status[h].state = "none",
           \/ lost' = lost \cup {subject[s].pr}
           \/ /\ lost' = lost \ {subject[s].pr}
              /\ step[s] \in Looking /\ status'[subject[s].head].state # "none"
    PROVE  Watched'
<1>1. \A x \in Scopes : step'[x] = IF x = s THEN how ELSE step[x]
  BY DEF TypedGroup, TypeOK, Members
<1>2. Followed'
  BY <1>1 DEF Watched, Followed, Looking
<1>3. NoHeadIsForgotten'
  <2>1. SUFFICES ASSUME NEW q \in PRs, q \notin lost', prs[q].open,
                        status'[prs[q].head].state = "none"
                 PROVE  \E t \in Scopes : subject[t].pr = q
                                           /\ step'[t] \in ScopeSteps \cup {"queued"}
    BY DEF NoHeadIsForgotten
  <2>2. prs[q].head \in Heads
    BY DEF TypedGroup, TypeOK
  <2>3. CASE q = subject[s].pr
    <3>1. step[s] \in Looking /\ subject[s].head # prs[q].head
      BY <2>1, <2>3
    <3>2. PICK t \in Scopes : subject[t].pr = q /\ step[t] = "queued"
      BY <2>3, <3>1 DEF Watched, Followed
    <3> QED BY <1>1, <3>2
  <2>4. CASE q # subject[s].pr
    <3>1. q \notin lost
      BY <2>1, <2>4
    <3>2. PICK t \in Scopes : subject[t].pr = q /\ step[t] \in ScopeSteps \cup {"queued"}
      BY <2>1, <2>2, <3>1 DEF Watched, NoHeadIsForgotten
    <3> QED BY <1>1, <2>4, <3>2
  <2> QED BY <2>3, <2>4
<1> QED BY <1>2, <1>3 DEF Watched

(* A scope run goes on.                                                    *)
LEMMA WorkedWatched ==
    ASSUME PromotionAssumption, TypedGroup, Watched,
           NEW s \in Scopes, NEW y \in ScopeSteps, step' = [step EXCEPT ![s] = y],
           step[s] # "queued" \/ (y = "read" /\ group[subject[s].pr].holder = s),
           \A x \in Scopes : subject'[x].pr = subject[x].pr,
           \A x \in Scopes \ {s} : subject'[x] = subject[x],
           \/ step[s] \in Looking /\ subject'[s] = subject[s]
           \/ y = "read"
           \/ subject'[s].head = prs[subject[s].pr].head,
           step[s] \in ScopeSteps \cup {"queued"},
           UNCHANGED <<prs, status, lost>>
    PROVE  Watched'
<1>1. \A x \in Scopes : step'[x] = IF x = s THEN y ELSE step[x]
  BY DEF TypedGroup, TypeOK, Members
<1>2. Followed'
  <2>1. SUFFICES ASSUME NEW x \in Scopes, step'[x] \in Looking,
                        subject'[x].head # prs[subject[x].pr].head
                 PROVE  \E t \in Scopes : subject[t].pr = subject[x].pr
                                           /\ step'[t] = "queued"
    BY DEF Followed, Looking
  <2>2. step[x] \in Looking /\ subject'[x] = subject[x]
    BY <1>1, <2>1 DEF Looking
  <2>3. PICK t \in Scopes : subject[t].pr = subject[x].pr /\ step[t] = "queued"
    BY <2>1, <2>2 DEF Watched, Followed
  <2>4. t # s
    <3>1. CASE step[s] # "queued"
      BY <2>3, <3>1
    <3>2. CASE y = "read" /\ group[subject[s].pr].holder = s
      <4>1. x # s
        BY <1>1, <2>1, <3>2 DEF Looking
      <4>2. group[subject[x].pr].holder = x
        BY <2>2 DEF TypedGroup, GroupInv, Placed, InGroup, Members, Looking, Working,
                    ScopeSteps
      <4> QED BY <2>3, <3>2, <4>1, <4>2
    <3> QED BY <3>1, <3>2
  <2> QED BY <1>1, <2>3, <2>4
<1>3. NoHeadIsForgotten'
  BY <1>1 DEF Watched, NoHeadIsForgotten
<1> QED BY <1>2, <1>3 DEF Watched

LEMMA Watchful ==
    ASSUME PromotionAssumption, ~setting.grouped, TypedGroup, Watched, [Next]_vars
    PROVE  Watched'
<1>1. \A r \in Reports : r \in Members /\ r \notin Scopes /\ ~InGroup(r)
  BY DEF PromotionAssumption, Members, InGroup
<1>2. \A s \in Scopes : s \in Members /\ s \notin Reports /\ InGroup(s)
  BY DEF PromotionAssumption, Members, InGroup
<1>3. ASSUME NEW p \in PRs, Open(p) \/ Push(p) PROVE Watched'
  <2>1. /\ PullRequestEvent(p) /\ UNCHANGED <<status, lost>>
        /\ \A q \in PRs \ {p} : prs'[q] = prs[q]
    BY <1>3 DEF Open, Push, PullRequestEvent, TypedGroup, TypeOK
  <2>2. PICK s \in Scopes : /\ step[s] = "unused" /\ Queue(s, p)
                            /\ subject' = [subject EXCEPT ![s].pr = p]
    BY <2>1 DEF PullRequestEvent
  <2>3. step[s] \notin Active /\ s \in Members
    BY <1>2, <2>2 DEF Active, Working, ScopeSteps, ReportSteps
  <2>4. subject'[s].pr = p /\ \A x \in Members \ {s} : subject'[x] = subject[x]
    BY <2>2, <2>3, SubjectTypes DEF TypedGroup
  <2> QED BY <2>1, <2>2, <2>3, <2>4, QueuedWatched
<1>4. ASSUME NEW p \in PRs, Close(p) \/ MoveBase(p) PROVE Watched'
  <2>1. UNCHANGED <<status, step, subject, lost>>
    BY <1>4 DEF Close, MoveBase
  <2>2. prs[p].open \/ prs'[p].open = prs[p].open
    BY <1>4 DEF Close, MoveBase, TypedGroup, TypeOK
  <2>3. /\ \A q \in PRs : prs'[q].head = prs[q].head
        /\ \A q \in PRs \ {p} : prs'[q] = prs[q]
    <3>1. prs \in [PRs -> [head : Heads, base : 0 .. MaxBase, open : BOOLEAN]]
      BY DEF TypedGroup, TypeOK
    <3>2. CASE Close(p)
      <4>1. prs' = [prs EXCEPT ![p].open = FALSE]
        BY <3>2 DEF Close
      <4> QED BY <3>1, <4>1
    <3>3. CASE MoveBase(p)
      <4>1. prs' = [prs EXCEPT ![p].base = @ + 1]
        BY <3>3 DEF MoveBase
      <4> QED BY <3>1, <4>1
    <3> QED BY <1>4, <3>2, <3>3
  <2>4. \A q \in PRs : prs'[q].open => prs[q].open
    BY <2>2, <2>3
  <2> QED BY <2>1, <2>3, <2>4, ScopesAlone
<1>5. ASSUME NEW p \in PRs, NEW r \in Reports, Promote(r, p) PROVE Watched'
  <2>1. /\ \A s \in Scopes : step'[s] = step[s] /\ subject'[s] = subject[s]
        /\ UNCHANGED <<prs, status, lost>>
    BY <1>1, <1>2, <1>5 DEF Promote, TypedGroup, TypeOK
  <2> QED BY <2>1, ScopesAlone
<1>6. ASSUME NEW m \in Members, Rerun(m) PROVE Watched'
  <2>1. /\ Queue(m, subject[m].pr) /\ step[m] \notin Active /\ subject[m].pr \in PRs
        /\ UNCHANGED <<prs, status, subject, lost>>
    BY <1>6 DEF Rerun, Active, Working, ScopeSteps, ReportSteps, TypedGroup, TypeOK,
                Subjects
  <2>2. CASE m \in Scopes
    BY <2>1, <2>2, QueuedWatched
  <2>3. CASE m \in Reports
    <3>1. \A s \in Scopes : step'[s] = step[s]
      BY <1>1, <1>2, <2>1, <2>3 DEF Queue
    <3> QED BY <2>1, <3>1, ScopesAlone
  <2> QED BY <2>2, <2>3 DEF Members
<1>7. ASSUME NEW r \in Reports,
             \/ Prepare(r) \/ Publish(r) \/ Record(r, "test", "prod")
             \/ Record(r, "prod", "post") \/ PostSuccess(r) \/ Start(r) \/ Fail(r)
      PROVE  Watched'
  <2>1. \A s \in Scopes : step'[s] = step[s]
    BY <1>1, <1>2, <1>7 DEF Prepare, Queue, Publish, Record, PostSuccess, Start, Fail, End,
       TypedGroup, TypeOK
  <2>2. UNCHANGED <<prs, subject, lost>>
    BY <1>1, <1>7 DEF Prepare, Publish, Record, PostSuccess, Start, Fail, ReportUnchanged
  <2>3. \A h \in Heads : status'[h].state = "none" => status[h].state = "none"
    BY <1>7 DEF Prepare, Publish, Record, PostSuccess, Start, Fail, TypedGroup, TypeOK
  <2> QED BY <2>1, <2>2, <2>3, ScopesAlone
<1>8. ASSUME NEW s \in Scopes, Start(s) PROVE Watched'
  <2>1. /\ step' = [step EXCEPT ![s] = "read"] /\ group[subject[s].pr].holder = s
        /\ step[s] = "queued" /\ UNCHANGED <<prs, status, subject, lost>>
        /\ "read" \in ScopeSteps
    BY <1>2, <1>8 DEF Start, ScopeSteps
  <2> QED BY <2>1, WorkedWatched
<1>9. ASSUME NEW s \in Scopes, ReadScope(s) PROVE Watched'
  <2> DEFINE h == prs[subject[s].pr].head
             b == prs[subject[s].pr].base
  <2>1. h \in Heads /\ b \in 0 .. MaxBase
    BY <1>2 DEF TypedGroup, TypeOK, Subjects
  <2>2. subject' = [subject EXCEPT ![s].head = h, ![s].base = b]
    BY <1>9 DEF ReadScope
  <2> HIDE DEF h, b
  <2>3. /\ subject'[s] = [pr |-> subject[s].pr, head |-> h, base |-> b]
        /\ \A x \in Members \ {s} : subject'[x] = subject[x]
    <3>1. subject \in [Members -> Subjects] /\ s \in Members
      BY <1>2 DEF TypedGroup, TypeOK
    <3> QED BY <2>2, <3>1 DEF Subjects
  <2>4. subject'[s].head = prs[subject[s].pr].head /\ subject'[s].pr = subject[s].pr
    BY <2>3 DEF h
  <2>5. /\ step' = [step EXCEPT ![s] = "compare"] /\ step[s] = "read"
        /\ step[s] \in ScopeSteps /\ "compare" \in ScopeSteps
        /\ UNCHANGED <<prs, status, lost>>
    BY <1>9 DEF ReadScope, ScopeUnchanged, ScopeSteps
  <2> QED BY <1>2, <2>3, <2>4, <2>5, WorkedWatched
<1>10. ASSUME NEW s \in Scopes, NEW y \in {"statuses", "status"}, step[s] \in Looking,
              step' = [step EXCEPT ![s] = y], UNCHANGED <<prs, status, subject, lost>>
       PROVE  Watched'
  <2>1. step[s] \in ScopeSteps /\ y \in ScopeSteps /\ step[s] # "queued"
    BY <1>10 DEF Looking, ScopeSteps
  <2> QED BY <1>10, <2>1, WorkedWatched
<1>11. ASSUME NEW s \in Scopes, Compare(s) PROVE Watched'
  BY <1>10, <1>11 DEF Compare, ScopeUnchanged, Looking
<1>12. ASSUME NEW s \in Scopes, ReadStatuses(s) PROVE Watched'
  <2>1. step[s] \in Looking /\ UNCHANGED <<prs, status, subject>>
    BY <1>12 DEF ReadStatuses, ScopeUnchanged, Looking
  <2>2. CASE Matching(subject[s])
    <3>1. /\ step' = [step EXCEPT ![s] = "done"] /\ lost' = lost \ {subject[s].pr}
          /\ status'[subject[s].head].state # "none" /\ step[s] # "queued"
      BY <1>12, <2>2 DEF ReadStatuses, End, Matching
    <3> QED BY <2>1, <3>1, EndedWatched
  <2>3. CASE ~Matching(subject[s])
    BY <1>10, <1>12, <2>1, <2>3 DEF ReadStatuses
  <2> QED BY <2>2, <2>3
<1>13. ASSUME NEW s \in Scopes, PostScope(s) PROVE Watched'
  <2>1. subject[s].head \in Heads
    BY <1>2 DEF TypedGroup, TypeOK, Subjects
  <2>2. /\ status' = [status EXCEPT ![subject[s].head] = ScopeState(subject[s].head)]
        /\ ScopeState(subject[s].head).state # "none"
    BY <1>13 DEF PostScope, ScopeState
  <2>3. \A h \in Heads : status'[h].state = "none" => status[h].state = "none"
    BY <2>2 DEF TypedGroup, TypeOK
  <2>4. /\ step' = [step EXCEPT ![s] = "done"] /\ lost' = lost \ {subject[s].pr}
        /\ status'[subject[s].head].state # "none" /\ step[s] # "queued"
        /\ step[s] \in Looking /\ UNCHANGED <<prs, subject>>
    BY <1>13, <2>1, <2>2 DEF PostScope, End, ScopeUnchanged, Looking, TypedGroup, TypeOK
  <2> QED BY <2>3, <2>4, EndedWatched
<1>14. ASSUME NEW s \in Scopes, Fail(s) PROVE Watched'
  <2>1. /\ step' = [step EXCEPT ![s] = "failed"] /\ lost' = lost \cup {subject[s].pr}
        /\ UNCHANGED <<prs, status, subject>> /\ step[s] # "queued"
    BY <1>14 DEF Fail, End, Working, ScopeSteps, ReportSteps
  <2> QED BY <2>1, EndedWatched
<1>15. CASE World
  BY <1>3, <1>4, <1>5, <1>6, <1>15 DEF World
<1>16. ASSUME NEW m \in Members, Work(m) PROVE Watched'
  BY <1>7, <1>8, <1>9, <1>11, <1>12, <1>13, <1>14, <1>16 DEF Work, Members
<1>17. CASE UNCHANGED vars
  BY <1>17, ScopesAlone DEF vars
<1> QED BY <1>15, <1>16, <1>17 DEF Next

-----------------------------------------------------------------------------
(* Scope runs keep what holds, when the reporter takes their group.        *)
Before == Bases /\ SeenLast

(* What a step does that reads and posts nothing.                          *)
LEMMA NothingPosted ==
    ASSUME UNCHANGED setting,
           TypedGroup, Before,
           \A s \in Scopes : step'[s] \in Looking =>
               /\ step[s] \in Looking /\ (step'[s] = "status" => step[s] = "status")
               /\ subject'[s] = subject[s],
           \A r \in Reports : step'[r] # "unused" =>
               \/ step[r] # "unused" /\ subject'[r] = subject[r]
               \/ subject'[r].base = prs[subject'[r].pr].base /\ subject'[r].pr \in PRs,
           \A p \in PRs : prs'[p].base \in Nat /\ prs[p].base <= prs'[p].base,
           status' = status
    PROVE  Before'
<1>1. \A m \in Members : subject[m].pr \in PRs /\ subject[m].base \in Nat
  BY DEF TypedGroup, TypeOK, Subjects
<1>2. \A h \in Heads : status[h].bound # NoBound =>
        status[h].bound.pr \in PRs /\ status[h].bound.base \in Nat
  BY DEF TypedGroup, TypeOK, Bound
<1>3. \A p \in PRs : prs[p].base \in Nat
  BY DEF TypedGroup, TypeOK
<1>4. \A s \in Scopes : step'[s] \in Looking =>
        subject'[s].base <= prs'[subject'[s].pr].base
  BY <1>1, <1>3 DEF Before, Bases, Members
<1>5. \A r \in Reports : step'[r] # "unused" =>
        subject'[r].base <= prs'[subject'[r].pr].base
  <2>1. SUFFICES ASSUME NEW r \in Reports, step'[r] # "unused"
                 PROVE  subject'[r].base <= prs'[subject'[r].pr].base
    OBVIOUS
  <2>2. CASE step[r] # "unused" /\ subject'[r] = subject[r]
    BY <1>1, <1>3, <2>2 DEF Before, Bases, Members
  <2>3. CASE subject'[r].base = prs[subject'[r].pr].base /\ subject'[r].pr \in PRs
    BY <2>3
  <2> QED BY <2>1, <2>2, <2>3
<1>6. \A h \in Heads : status[h].bound # NoBound =>
        status[h].bound.base <= prs'[status[h].bound.pr].base
  BY <1>2, <1>3 DEF Before, Bases
<1>7. Bases'
  BY <1>4, <1>5, <1>6 DEF Bases
<1>8. SeenLast'
  BY DEF Before, SeenLast, Matching, Kind, Looking
<1> QED BY <1>7, <1>8 DEF Before

(* A status is posted which is bound to no revision to come, and to no     *)
(* pull request that a scope run looks at.                                 *)
LEMMA OnePosted ==
    ASSUME UNCHANGED setting,
           TypedGroup, Before, NEW m \in Members, step' = [step EXCEPT ![m] = "done"],
           step[m] # "unused", UNCHANGED <<prs, subject>>,
           NEW h \in Heads, NEW now, status' = [status EXCEPT ![h] = now],
           now.bound # NoBound =>
               /\ now.bound.base <= prs[now.bound.pr].base
               /\ \A s \in Scopes \ {m} : step[s] \in Looking => now.bound.pr # subject[s].pr
    PROVE  Before'
<1>1. \A x \in Members : step'[x] = IF x = m THEN "done" ELSE step[x]
  BY DEF TypedGroup, TypeOK
<1>2. \A x \in Heads : status'[x] = IF x = h THEN now ELSE status[x]
  BY DEF TypedGroup, TypeOK
<1>3. Bases'
  BY <1>1, <1>2 DEF Before, Bases, Members, Looking
<1>4. SeenLast'
  <2>1. SUFFICES ASSUME NEW s \in Scopes, step'[s] \in Looking
                 PROVE  /\ \A x \in Heads :
                            /\ status'[x].bound # NoBound
                            /\ status'[x].bound.pr = subject[s].pr
                            => status'[x].bound.base <= subject[s].base
                        /\ step'[s] = "status" => ~Matching(subject[s])'
    BY DEF SeenLast, Looking
  <2>2. s # m /\ step'[s] = step[s] /\ s \in Members
    BY <1>1, <2>1 DEF Looking, Members
  <2>3. now.bound = NoBound \/ now.bound.pr # subject[s].pr
    BY <2>1, <2>2
  <2>4. \A x \in Heads : /\ status'[x].bound # NoBound
                         /\ status'[x].bound.pr = subject[s].pr
                         => status'[x].bound.base <= subject[s].base
    BY <1>2, <2>1, <2>2, <2>3 DEF Before, SeenLast
  <2>5. ASSUME step'[s] = "status" PROVE ~Matching(subject[s])'
    <3>1. ~Matching(subject[s])
      BY <2>2, <2>5 DEF Before, SeenLast
    <3>2. Description(subject[s], Kind(subject[s].head)) # NoBound
      BY <2>2, Describes, KindTypes DEF TypedGroup, TypeOK, Subjects
    <3>3. Description(subject[s], Kind(subject[s].head)).pr = subject[s].pr
      BY <2>2, Describes, KindTypes DEF TypedGroup, TypeOK, Subjects
    <3>4. now.bound # Description(subject[s], Kind(subject[s].head))
      BY <2>3, <3>2, <3>3
    <3>5. subject[s].head \in Heads
      BY <2>2 DEF TypedGroup, TypeOK, Subjects
    <3> QED BY <1>2, <3>1, <3>4, <3>5 DEF Matching, Kind
  <2> QED BY <2>4, <2>5
<1> QED BY <1>3, <1>4 DEF Before

(* A scope run reads.                                                      *)
LEMMA ScopeReads ==
    ASSUME UNCHANGED setting,
           PromotionAssumption, TypedGroup, Before, NEW s \in Scopes,
           ReadScope(s) \/ Compare(s) \/ ReadStatuses(s)
    PROVE  Before'
<1>1. s \in Members /\ s \notin Reports /\ UNCHANGED <<prs, status>>
  BY DEF PromotionAssumption, Members, ReadScope, Compare, ReadStatuses, ScopeUnchanged
<1>2. \A p \in PRs : prs'[p].base \in Nat /\ prs[p].base <= prs'[p].base
  BY <1>1 DEF TypedGroup, TypeOK
<1>3. CASE ReadScope(s)
  <2> DEFINE h == prs[subject[s].pr].head
             b == prs[subject[s].pr].base
  <2>1. h \in Heads /\ b \in 0 .. MaxBase
    BY <1>1 DEF TypedGroup, TypeOK, Subjects
  <2>2. subject' = [subject EXCEPT ![s].head = h, ![s].base = b]
    BY <1>3 DEF ReadScope
  <2> HIDE DEF h, b
  <2>3. /\ subject'[s] = [pr |-> subject[s].pr, head |-> h, base |-> b]
        /\ \A x \in Members \ {s} : subject'[x] = subject[x]
    BY <1>1, <2>1, <2>2, ReadTypes DEF TypedGroup
  <2>4. subject'[s].pr = subject[s].pr /\ subject'[s].base = prs[subject[s].pr].base
        /\ subject'[s].base \in Nat
    BY <2>1, <2>3 DEF b
  <2>5. step' = [step EXCEPT ![s] = "compare"]
    BY <1>3 DEF ReadScope
  <2>6. \A x \in Members : step'[x] = IF x = s THEN "compare" ELSE step[x]
    BY <2>5 DEF TypedGroup, TypeOK
  <2>7. Bases'
    BY <1>1, <2>3, <2>4, <2>6 DEF Before, Bases, Members
  <2>8. SeenLast'
    <3>1. \A x \in Scopes \ {s} : subject'[x] = subject[x] /\ step'[x] = step[x]
      BY <2>3, <2>6 DEF Members
    <3>2. step'[s] = "compare"
      BY <1>1, <2>6
    <3>3. \A x \in Heads : status[x].bound # NoBound /\ status[x].bound.pr = subject'[s].pr =>
                             status[x].bound.base <= subject'[s].base
      BY <2>4 DEF Before, Bases
    <3>4. \A x \in Scopes \ {s} : Matching(subject[x])' <=> Matching(subject[x])
      BY <1>1, <3>1 DEF Matching, Kind
    <3> QED BY <1>1, <3>1, <3>2, <3>3, <3>4 DEF Before, SeenLast
  <2> QED BY <2>7, <2>8 DEF Before
<1>4. CASE Compare(s) \/ (ReadStatuses(s) /\ Matching(subject[s]))
  <2>1. /\ subject' = subject
        /\ \/ step' = [step EXCEPT ![s] = "statuses"] /\ step[s] = "compare"
           \/ step' = [step EXCEPT ![s] = "done"]
    BY <1>4 DEF Compare, ReadStatuses, End
  <2>2. \A x \in Members \ {s} : step'[x] = step[x]
    BY <2>1 DEF TypedGroup, TypeOK
  <2>3. step'[s] \in Looking => step[s] \in Looking /\ step'[s] # "status"
    BY <1>1, <2>1 DEF TypedGroup, TypeOK, Looking
  <2>4. \A x \in Scopes : step'[x] \in Looking =>
          /\ step[x] \in Looking /\ (step'[x] = "status" => step[x] = "status")
          /\ subject'[x] = subject[x]
    BY <2>1, <2>2, <2>3 DEF Members
  <2>5. \A r \in Reports : step'[r] # "unused" =>
          step[r] # "unused" /\ subject'[r] = subject[r]
    BY <1>1, <2>1, <2>2 DEF Members
  <2> QED BY <1>1, <1>2, <2>4, <2>5, NothingPosted
<1>5. CASE ReadStatuses(s) /\ ~Matching(subject[s])
  <2>1. /\ subject' = subject /\ step[s] \in Looking
        /\ step' = [step EXCEPT ![s] = "status"]
    BY <1>5 DEF ReadStatuses, Looking
  <2>2. \A x \in Members : step'[x] = IF x = s THEN "status" ELSE step[x]
    BY <2>1 DEF TypedGroup, TypeOK
  <2>3. Bases'
    BY <1>1, <2>1, <2>2 DEF Before, Bases, Members
  <2>4. SeenLast'
    BY <1>1, <1>5, <2>1, <2>2 DEF Before, SeenLast, Members, Matching, Kind
  <2> QED BY <2>3, <2>4 DEF Before
<1> QED BY <1>3, <1>4, <1>5

LEMMA BeforeKept ==
    ASSUME PromotionAssumption, setting.grouped, TypedGroup, Before, [Next]_vars
    PROVE  Before'
<1> UNCHANGED setting
  BY SettingKept
<1>1. \A p \in PRs : prs[p].base \in Nat
  BY DEF TypedGroup, TypeOK
<1>2. ASSUME \A x \in Members : step'[x] \in Looking =>
               /\ step[x] \in Looking /\ (step'[x] = "status" => step[x] = "status")
               /\ subject'[x] = subject[x],
             \A r \in Reports : step'[r] # "unused" =>
                 step[r] # "unused" /\ subject'[r] = subject[r],
             \A p \in PRs : prs'[p].base \in Nat /\ prs[p].base <= prs'[p].base,
             status' = status
      PROVE  Before'
  BY <1>2, NothingPosted DEF Members
<1>3. ASSUME NEW p \in PRs, Open(p) \/ Push(p) PROVE Before'
  <2>1. PullRequestEvent(p) /\ UNCHANGED status
    BY <1>3 DEF Open, Push, PullRequestEvent
  <2>7. \A q \in PRs : prs'[q].base = prs[q].base
    <3>1. CASE Open(p)
      BY <3>1 DEF Open, TypedGroup, TypeOK
    <3>2. CASE Push(p)
      BY <3>2 DEF Push, TypedGroup, TypeOK
    <3> QED BY <1>3, <3>1, <3>2
  <2>2. PICK s \in Scopes : /\ step[s] = "unused" /\ Queue(s, p)
                            /\ subject' = [subject EXCEPT ![s].pr = p]
    BY <2>1 DEF PullRequestEvent
  <2>3. s \in Members /\ s \notin Reports
    BY DEF PromotionAssumption, Members
  <2>4. \A x \in Members \ {s} : subject'[x] = subject[x]
    BY <2>2, <2>3, SubjectTypes DEF TypedGroup
  <2>5. Grp!Displaced(group[p]) \in Members =>
          step[Grp!Displaced(group[p])] = "queued"
    BY DEF PromotionAssumption, Members, Grp!Displaced, TypedGroup, GroupInv, Waits
  <2>6. \A x \in Members : step'[x] = IF x = s THEN "queued"
                                      ELSE IF x = Grp!Displaced(group[p]) /\ InGroup(s)
                                      THEN "displaced" ELSE step[x]
    BY <2>2 DEF Queue
  <2>8. \A x \in Members : step'[x] \in Looking =>
          /\ step[x] \in Looking /\ (step'[x] = "status" => step[x] = "status")
          /\ subject'[x] = subject[x]
    <3>1. \A x \in Members : step'[x] \in Looking => x # s /\ step'[x] = step[x]
      BY <2>6 DEF Looking
    <3> QED BY <2>4, <3>1
  <2>9. \A r \in Reports : step'[r] # "unused" =>
          step[r] # "unused" /\ subject'[r] = subject[r]
    BY <2>3, <2>4, <2>5, <2>6 DEF Members
  <2>10. \A q \in PRs : prs'[q].base \in Nat /\ prs[q].base <= prs'[q].base
    BY <1>1, <2>7
  <2>11. status' = status
    BY <2>1
  <2> QED BY <1>2, <2>8, <2>9, <2>10, <2>11
<1>4. ASSUME NEW p \in PRs, Close(p) \/ MoveBase(p) PROVE Before'
  <2>1. UNCHANGED <<status, step, subject>>
    BY <1>4 DEF Close, MoveBase
  <2>2. \A q \in PRs : prs'[q].base \in Nat /\ prs[q].base <= prs'[q].base
    <3>1. CASE Close(p)
      BY <1>1, <3>1 DEF Close, TypedGroup, TypeOK
    <3>2. CASE MoveBase(p)
      BY <1>1, <3>2 DEF MoveBase, TypedGroup, TypeOK
    <3> QED BY <1>4, <3>1, <3>2
  <2> QED BY <1>2, <2>1, <2>2
<1>5. ASSUME NEW p \in PRs, NEW r \in Reports, Promote(r, p) PROVE Before'
  <2>1. r \in Members /\ UNCHANGED <<prs, status>> /\ r \notin Scopes
    BY <1>5 DEF Promote, Members, PromotionAssumption
  <2>2. \A x \in Members \ {r} : step'[x] = step[x] /\ subject'[x] = subject[x]
    BY <1>5 DEF Promote, TypedGroup, TypeOK
  <2>3. \/ step[r] # "unused" /\ subject'[r] = subject[r]
        \/ subject'[r] = [pr |-> p, head |-> prs[p].head, base |-> prs[p].base]
    BY <1>5, <2>1 DEF Promote, TypedGroup, TypeOK
  <2>4. \/ step[r] # "unused" /\ subject'[r] = subject[r]
        \/ subject'[r].base = prs[subject'[r].pr].base /\ subject'[r].pr \in PRs
    BY <2>3
  <2> QED BY <1>1, <2>1, <2>2, <2>4, NothingPosted DEF Members
<1>6. ASSUME NEW m \in Members, NEW p \in PRs, Queue(m, p), step[m] # "unused",
             UNCHANGED <<prs, status, subject>>
      PROVE  Before'
  <2>1. Grp!Displaced(group[p]) \in Members =>
          step[Grp!Displaced(group[p])] = "queued"
    BY DEF PromotionAssumption, Members, Grp!Displaced, TypedGroup, GroupInv, Waits
  <2>2. \A x \in Members : step'[x] = IF x = m THEN "queued"
                                      ELSE IF x = Grp!Displaced(group[p]) /\ InGroup(m)
                                      THEN "displaced" ELSE step[x]
    BY <1>6 DEF Queue
  <2> QED BY <1>1, <1>2, <1>6, <2>1, <2>2 DEF Looking, Members
<1>7. ASSUME NEW m \in Members, Rerun(m) PROVE Before'
  BY <1>6, <1>7 DEF Rerun, TypedGroup, TypeOK, Subjects
<1>8. ASSUME NEW r \in Reports, Prepare(r) PROVE Before'
  BY <1>6, <1>8 DEF Prepare, ReportUnchanged, TypedGroup, TypeOK, Subjects, Members
<1>9. ASSUME NEW m \in Members,
             NEW y \in {"read", "publish", "test", "prod", "post", "failed"},
             step' = [step EXCEPT ![m] = y], step[m] # "unused",
             UNCHANGED <<prs, status, subject>>
      PROVE  Before'
  <2>1. \A x \in Members : step'[x] = IF x = m THEN y ELSE step[x]
    BY <1>9 DEF TypedGroup, TypeOK
  <2> QED BY <1>1, <1>2, <1>9, <2>1 DEF Looking, Members
<1>10. ASSUME NEW m \in Members, Start(m) \/ Fail(m) PROVE Before'
  BY <1>9, <1>10 DEF Start, Fail, End, Working, ScopeSteps, ReportSteps
<1>11. ASSUME NEW r \in Reports,
              Publish(r) \/ Record(r, "test", "prod") \/ Record(r, "prod", "post")
       PROVE  Before'
  BY <1>9, <1>11 DEF Publish, Record, ReportUnchanged, Members
<1>12. ASSUME NEW s \in Scopes, PostScope(s) PROVE Before'
  <2>1. /\ step' = [step EXCEPT ![s] = "done"] /\ step[s] # "unused"
        /\ UNCHANGED <<prs, subject>>
        /\ status' = [status EXCEPT ![subject[s].head] = ScopeState(subject[s].head)]
        /\ ScopeState(subject[s].head).bound = NoBound
    BY <1>12 DEF PostScope, End, ScopeUnchanged, ScopeState
  <2>2. s \in Members /\ subject[s].head \in Heads
    BY DEF Members, TypedGroup, TypeOK, Subjects
  <2> QED BY <2>1, <2>2, OnePosted
<1>13. ASSUME NEW r \in Reports, PostSuccess(r) PROVE Before'
  <2> DEFINE d == Description(subject[r], evidence[r].kind)
             now == [state |-> "success", bound |-> d]
  <2>1. /\ step' = [step EXCEPT ![r] = "done"] /\ step[r] = "post"
        /\ UNCHANGED <<prs, subject>>
        /\ status' = [status EXCEPT ![subject[r].head] = now]
    BY <1>13 DEF PostSuccess, End, ReportUnchanged
  <2>2. r \in Members /\ subject[r].head \in Heads
    BY DEF Members, TypedGroup, TypeOK, Subjects
  <2>3. d.pr = subject[r].pr /\ d.base = subject[r].base
    BY <2>2, Proves, Describes DEF TypedGroup
  <2>4. subject[r].base <= prs[subject[r].pr].base
    BY <2>1 DEF Before, Bases
  <2>5. ASSUME NEW s \in Scopes \ {r}, step[s] \in Looking
        PROVE  subject[r].pr # subject[s].pr
    <3>1. s \in Members /\ InGroup(s) /\ InGroup(r)
      BY DEF Members, InGroup
    <3>2. group[subject[s].pr].holder = s
      BY <2>5, <3>1 DEF TypedGroup, GroupInv, Placed, Looking, Working, ScopeSteps
    <3>3. group[subject[r].pr].holder = r
      BY <2>1, <2>2, <3>1 DEF TypedGroup, GroupInv, Placed, Working, ReportSteps
    <3> QED BY <3>2, <3>3
  <2>6. now.bound = d
    OBVIOUS
  <2> HIDE DEF d, now
  <2> QED BY <2>1, <2>2, <2>3, <2>4, <2>5, <2>6, OnePosted
<1>14. CASE World
  BY <1>3, <1>4, <1>5, <1>7, <1>14 DEF World
<1>15. ASSUME NEW m \in Members, Work(m) PROVE Before'
  BY <1>8, <1>10, <1>11, <1>12, <1>13, <1>15, ScopeReads DEF Work
<1>16. CASE UNCHANGED vars
  BY <1>1, <1>2, <1>16 DEF vars
<1> QED BY <1>14, <1>15, <1>16 DEF Next

(* What is inductive: the two halves hold under settings that exclude each *)
(* other, and the setting never changes.                                   *)
PromotionIInv ==
    /\ TypedGroup /\ SuccessIsProven
    /\ ~setting.grouped => Watched
    /\ setting.grouped => Before

LEMMA InitPromotion ==
    ASSUME PromotionAssumption, Init PROVE PromotionIInv
<1>1. /\ \A h \in Heads : status[h].state = "none" /\ status[h].bound = NoBound
      /\ \A m \in Members : step[m] = "unused"
  BY DEF Init
<1>2. \A p \in PRs : prs[p].open = FALSE
  BY Zenon DEF Init
<1>3. SuccessIsProven
  BY <1>1 DEF SuccessIsProven
<1>4. Watched
  BY <1>1, <1>2 DEF Watched, Followed, Looking, NoHeadIsForgotten, Members
<1>5. Before
  BY <1>1 DEF Before, Bases, SeenLast, Looking, Members
<1> QED BY <1>3, <1>4, <1>5, InitTypes DEF PromotionIInv

LEMMA PromotionKept ==
    ASSUME PromotionAssumption, PromotionIInv, [Next]_vars PROVE PromotionIInv'
<1> USE DEF PromotionIInv
<1>1. TypedGroup' /\ SuccessIsProven'
  BY TypedGroupKept, ProvenKept
<1>2. (~setting.grouped => Watched)'
  BY SettingKept, Watchful
<1>3. (setting.grouped => Before)'
  BY SettingKept, BeforeKept
<1> QED BY <1>1, <1>2, <1>3

LEMMA KeepsEach ==
    ASSUME PromotionAssumption, PromotionIInv, [Next]_vars
    PROVE  [KeepsWhatHolds]_vars
<1> SUFFICES ASSUME Next PROVE KeepsWhatHolds
  BY DEF vars
<1> USE DEF PromotionIInv
<1>1. ASSUME setting.grouped PROVE KeepsProof
  <2> Before
    BY <1>1
  <2>1. SUFFICES ASSUME NEW s \in Scopes, PostScope(s),
                        subject[s].head = prs[subject[s].pr].head,
                        Matching([pr |-> subject[s].pr, head |-> subject[s].head,
                                  base |-> prs[subject[s].pr].base])
                 PROVE  FALSE
    BY DEF KeepsProof
  <2> DEFINE now == status[subject[s].head]
             b == prs[subject[s].pr].base
             kind == Kind(subject[s].head)
  <2>2. /\ s \in Members /\ subject[s] \in Subjects /\ subject[s].pr \in PRs
        /\ subject[s].head \in Heads /\ subject[s].base \in Nat /\ b \in Nat
    BY DEF Members, TypedGroup, TypeOK, Subjects
  <2>3. now.state = "success" /\ now.bound = [pr |-> subject[s].pr, base |-> b, kind |-> kind]
    BY <2>1 DEF Matching, Description
  <2>4. step[s] = "status" /\ step[s] \in Looking
    BY <2>1 DEF PostScope, Looking
  <2>5. subject[s].base <= b
    BY <2>4 DEF Before, Bases
  <2>6. now.bound # NoBound /\ now.bound.pr = subject[s].pr /\ now.bound.base = b
    BY <2>3 DEF NoBound
  <2>7. b <= subject[s].base
    BY <2>2, <2>4, <2>6 DEF Before, SeenLast
  <2>8. b = subject[s].base
    BY <2>2, <2>5, <2>7
  <2>9. Matching(subject[s])
    BY <2>3, <2>8 DEF Matching, Description
  <2> QED BY <2>4, <2>9 DEF Before, SeenLast
<1>2. WithdrawsStaleProof
  <2>1. SUFFICES ASSUME NEW s \in Scopes, step[s] # "done", step'[s] = "done"
                 PROVE  LET now == status'[subject[s].head] IN
                        now.state = "success" /\ now.bound # NoBound
                        /\ now.bound.pr = subject[s].pr
                          => now.bound = Description(subject[s], Kind(subject[s].head))
    BY DEF WithdrawsStaleProof
  <2>2. s \in Members /\ s \notin Reports /\ subject[s].head \in Heads
    BY DEF PromotionAssumption, Members, TypedGroup, TypeOK, Subjects
  <2>3. (ReadStatuses(s) /\ Matching(subject[s])) \/ PostScope(s)
    <3>1. ASSUME NEW m \in Members, NEW p \in PRs, Queue(m, p) PROVE FALSE
      BY <2>1, <2>2, <3>1 DEF Queue
    <3>2. ~World
      BY <2>1, <2>2, <3>1 DEF World, Open, Push, PullRequestEvent, Close, MoveBase, Promote,
         Rerun, TypedGroup, TypeOK, Members, Subjects
    <3>3. ~ \E r \in Reports : Prepare(r)
      BY <3>1 DEF Prepare, TypedGroup, TypeOK, Members, Subjects
    <3>4. PICK m \in Members : Work(m) /\ ~ (m \in Reports /\ Prepare(m))
      BY <3>2, <3>3 DEF Next
    <3>5. m = s
      BY <2>1, <2>2, <3>4 DEF Work, Start, Fail, End, ReadScope, Compare, ReadStatuses,
         PostScope, Publish, Record, PostSuccess, TypedGroup, TypeOK
    <3> QED BY <2>1, <2>2, <3>4, <3>5 DEF Work, Start, Fail, End, ReadScope, Compare,
        ReadStatuses, TypedGroup, TypeOK
  <2>4. CASE ReadStatuses(s) /\ Matching(subject[s])
    BY <2>4 DEF ReadStatuses, Matching
  <2>5. CASE PostScope(s)
    <3>1. status'[subject[s].head].bound = NoBound
      BY <2>2, <2>5 DEF PostScope, ScopeState, TypedGroup, TypeOK
    <3> QED BY <3>1
  <2> QED BY <2>3, <2>4, <2>5
<1> QED BY <1>1, <1>2 DEF KeepsWhatHolds

(* For any pull requests, scope runs and reporters, inside the group of    *)
(* the scope runs or outside it: every success is proven, and outside it   *)
(* no head of an open pull request is left without a status, unless its    *)
(* last scope run failed or one is about to look.                          *)
THEOREM PromotionsHold ==
    ASSUME PromotionAssumption PROVE Spec => []PromotionInv
<1>1. Init => PromotionIInv
  BY InitPromotion
<1>2. PromotionIInv /\ [Next]_vars => PromotionIInv'
  BY PromotionKept
<1>3. PromotionIInv => PromotionInv
  BY DEF PromotionIInv, PromotionInv, TypedGroup, Watched
<1> QED BY <1>1, <1>2, <1>3, PTL DEF Spec

(* A scope run takes away the successes of its own pull request that no    *)
(* longer hold and, when reporters take its group, none that does.         *)
THEOREM ProofIsKept ==
    ASSUME PromotionAssumption PROVE Spec => ScopeRunsKeepProof
<1>1. Init => PromotionIInv
  BY InitPromotion
<1>2. PromotionIInv /\ [Next]_vars => PromotionIInv'
  BY PromotionKept
<1>3. PromotionIInv /\ [Next]_vars => [KeepsWhatHolds]_vars
  BY KeepsEach
<1> QED BY <1>1, <1>2, <1>3, PTL DEF Spec, ScopeRunsKeepProof

-----------------------------------------------------------------------------
(* The controls.  Sessions beside each other are disturbed together: while *)
(* one counts that nobody disturbed, no other works on what somebody did.  *)
Undisturbed ==
    \A r \in Runs : at[r] # "unused" /\ ~meddled[r] =>
        \A q \in Runs : at[q] \in Busy => ~meddled[q]

(* What a session that applies still has to go through.                    *)
Applying == {"put", "list", "converge"}
Verifying == {"check", "check policies"}

Routed ==
    \A r \in Runs :
        /\ at[r] \in Applying \cup Verifying => left[r] # <<>>
        /\ at[r] \in Applying =>
              left[r] = <<KeyEnv>> \/ Listed(left[r]) \subseteq Listed(Protected)
        /\ at[r] = "unused" => ~blocked[r]

(* Policies are told apart by their ids, which are never given twice.      *)
Identified ==
    /\ \A e \in Envs : \A p \in envs[e].policies :
          /\ p.id < nextId
          /\ \A o \in envs[e].policies : p.id = o.id => p = o
    /\ \A r \in Runs : \A p \in todo[r] : p.id < nextId

(* No session is about to delete the first rule for main: of those it has  *)
(* listed as surplus and that are there, an older one stands.              *)
Spared ==
    \A r \in Runs : at[r] = "converge" /\ ~meddled[r] =>
        \A p \in todo[r] \cap envs[First(r)].policies :
            p.main => \E o \in Mains(envs[First(r)].policies) : o.id < p.id

(* The ruleset a session has read is, but for what it will write, the one  *)
(* it writes over.                                                         *)
Reread ==
    \A r \in Runs : at[r] = "write" /\ ~meddled[r] =>
        HardenedRules(ruleset) = HardenedRules(seen[r])

(* What a verification has found good so far is still so.                  *)
Closed(e) ==
    /\ envs[e].exists /\ envs[e].custom /\ ~envs[e].bypass
    /\ e # KeyEnv => envs[e].own /\ envs[e].reviewers = {Reviewer}

Lasting(e) == Shut(e) /\ Mains(envs[e].policies) # {}

Checked ==
    \A r \in Runs :
        /\ at[r] = "verified" => ~blocked[r] /\ left[r] = <<>>
        /\ ~meddled[r] /\ ~blocked[r] =>
            /\ at[r] \in Verifying \cup {"verified"} =>
                  Demanded /\ \A e \in Envs \ Listed(left[r]) : Lasting(e)
            /\ at[r] = "check policies" /\ custom[r] => Closed(First(r))

(* A session that works while nobody else does ...                         *)
Solitary ==
    \A r \in Runs : at[r] \in Busy /\ ~overlapped[r] =>
        \A q \in Runs : at[q] \in Busy => q = r

(* ... has mended what it is through with.                                 *)
Single(e) == \E p \in envs[e].policies : p.main /\ envs[e].policies = {p}

Sorting(r) ==
    LET there == envs[First(r)].policies IN
    IF lacks[r] THEN there = todo[r] /\ Mains(there) = {}
    ELSE \E p \in there : p.main /\ there \ todo[r] = {p}

MendedBy(r) ==
    /\ ~blocked[r]
    /\ at[r] \in Applying \cup Verifying \cup {"check rules"} => Demanded
    /\ at[r] = "put" =>
          \A e \in Listed(Protected) \ Listed(left[r]) :
              Closed(e) /\ (left[r] = <<KeyEnv>> => Single(e))
    /\ at[r] \in {"list", "converge"} =>
          /\ \A e \in Listed(Protected) :
                Closed(e) /\ (e \notin Listed(left[r]) => Single(e))
          /\ left[r] = <<KeyEnv>> => Closed(KeyEnv)
    /\ at[r] = "converge" => Sorting(r)
    /\ at[r] \in Verifying \cup {"check rules"} =>
          \A e \in Envs : Closed(e) /\ Single(e)
    /\ at[r] = "check policies" => custom[r]

Mended ==
    \A r \in Appliers :
        at[r] \in Busy /\ ~meddled[r] /\ ~overlapped[r] => MendedBy(r)

ControlsIInv ==
    /\ ControlsTypeOK /\ NextRunRepairs
    /\ Undisturbed /\ Routed /\ Identified /\ Spared /\ Reread /\ Checked
    /\ Solitary /\ Mended

-----------------------------------------------------------------------------
(* Sequences of environments.                                              *)
LEMMA ListedParts ==
    ASSUME NEW S, NEW s \in Seq(S), s # <<>>
    PROVE  /\ Head(s) \in S /\ Head(s) \in Listed(s) /\ Tail(s) \in Seq(S)
           /\ Listed(s) = {Head(s)} \cup Listed(Tail(s))
           /\ Len(s) \in Nat \ {0}
           /\ Len(s) > 1 => Tail(s) # <<>>
           /\ Len(s) <= 1 => Tail(s) = <<>> /\ s = <<Head(s)>>
<1>1. /\ Head(s) = s[1] /\ s[1] \in S /\ Len(s) \in Nat \ {0} /\ Tail(s) \in Seq(S)
  BY SMT
<1>2. Head(s) \in Listed(s)
  BY <1>1 DEF Listed
<1>3. /\ Len(Tail(s)) = Len(s) - 1
      /\ \A i \in 1 .. Len(s) - 1 : Tail(s)[i] = s[i + 1]
  BY <1>1, SMT
<1>4. ASSUME NEW e PROVE e \in Listed(s) <=> e = Head(s) \/ e \in Listed(Tail(s))
  <2>1. ASSUME NEW i \in 1 .. Len(s), e = s[i], i # 1
        PROVE  e \in Listed(Tail(s))
    <3>1. i - 1 \in 1 .. Len(Tail(s)) /\ Tail(s)[i - 1] = s[i]
      BY <1>1, <1>3, <2>1, SMT
    <3> QED BY <3>1, <2>1 DEF Listed
  <2>2. ASSUME NEW i \in 1 .. Len(Tail(s)), e = Tail(s)[i]
        PROVE  e \in Listed(s)
    <3>1. i + 1 \in 1 .. Len(s) /\ Tail(s)[i] = s[i + 1]
      BY <1>1, <1>3, SMT
    <3> QED BY <3>1, <2>2 DEF Listed
  <2> QED BY <2>1, <2>2, <1>1, <1>2 DEF Listed
<1>5. Len(s) > 1 => Tail(s) # <<>>
  <2>1. Len(<<>>) = 0
    BY SMT
  <2>2. Len(s) > 1 => Len(Tail(s)) # 0
    BY <1>1, <1>3
  <2> QED BY <2>1, <2>2
<1>6. Len(s) <= 1 => Tail(s) = <<>> /\ s = <<Head(s)>>
  BY <1>1, <1>3, SMT
<1> QED BY <1>1, <1>2, <1>4, <1>5, <1>6

LEMMA ListedSmall ==
    ASSUME NEW x
    PROVE  Listed(<<x>>) = {x} /\ Listed(<<>>) = {}
<1>1. Listed(<<>>) = {}
  BY SMT DEF Listed
<1>2. Listed(<<x>>) = {x}
  <2>1. Len(<<x>>) = 1 /\ <<x>>[1] = x
    BY SMT
  <2> QED BY <2>1, SMT DEF Listed
<1> QED BY <1>1, <1>2

LEMMA ListedAppend ==
    ASSUME NEW S, NEW s \in Seq(S), NEW x
    PROVE  /\ Append(s, x) # <<>>
           /\ Listed(Append(s, x)) = Listed(s) \cup {x}
<1>1. /\ Len(s) \in Nat /\ Len(Append(s, x)) = Len(s) + 1
      /\ \A i \in 1 .. Len(s) : Append(s, x)[i] = s[i]
      /\ Append(s, x)[Len(s) + 1] = x
  BY SMT
<1>2. Append(s, x) # <<>>
  BY <1>1, SMT
<1>3. ASSUME NEW e PROVE e \in Listed(Append(s, x)) <=> e \in Listed(s) \/ e = x
  <2>1. 1 .. Len(s) + 1 = 1 .. Len(s) \cup {Len(s) + 1}
    BY <1>1, SMT
  <2> QED BY <1>1, <2>1 DEF Listed
<1> QED BY <1>2, <1>3

LEMMA LongerThanOne ==
    ASSUME NEW s, NEW x, Len(s) > 1
    PROVE  s # <<x>>
<1> SUFFICES ASSUME s = <<x>> PROVE FALSE
  OBVIOUS
<1>1. Len(<<x>>) = 1
  BY SMT
<1>2. 1 > 1
  BY <1>1, Zenon
<1> QED BY <1>2

LEMMA Routes ==
    /\ Protected \in Seq(Envs) /\ Protected # <<>>
    /\ <<KeyEnv>> \in Seq(Envs) /\ <<KeyEnv>> # <<>>
    /\ Append(Protected, KeyEnv) \in Seq(Envs) /\ Append(Protected, KeyEnv) # <<>>
    /\ Listed(Append(Protected, KeyEnv)) = Envs
    /\ Listed(Protected) \subseteq Envs /\ KeyEnv \in Envs
    /\ KeyEnv \notin Listed(Protected) /\ Listed(<<KeyEnv>>) = {KeyEnv}
<1>1. /\ Protected \in Seq(Listed(Protected)) /\ Protected # <<>>
      /\ KeyEnv \notin Listed(Protected)
  BY ControlsAssumption DEF ControlsAssumption
<1>2. Listed(Protected) \subseteq Envs /\ KeyEnv \in Envs
  BY DEF Envs
<1>3. Protected \in Seq(Envs) /\ <<KeyEnv>> \in Seq(Envs) /\ <<KeyEnv>> # <<>>
  BY <1>1, <1>2, SMT
<1>4. Append(Protected, KeyEnv) \in Seq(Envs)
  BY <1>2, <1>3, SMT
<1>5. /\ Append(Protected, KeyEnv) # <<>>
      /\ Listed(Append(Protected, KeyEnv)) = Listed(Protected) \cup {KeyEnv}
  BY <1>1, ListedAppend
<1> QED BY <1>1, <1>2, <1>3, <1>4, <1>5, ListedSmall DEF Envs

-----------------------------------------------------------------------------
(* Types of the payloads.                                                  *)
LEMMA RulesTypes ==
    /\ NoRuleset \notin Rulesets /\ NoRuleset.contexts = {}
    /\ Loose \in Rulesets /\ Foreign \in Rulesets
    /\ [Loose EXCEPT !.active = FALSE] \in Rulesets
    /\ [Loose EXCEPT !.contexts = Contexts] \in Rulesets
    /\ \A old \in Rulesets \cup {NoRuleset} : HardenedRules(old) \in Rulesets
<1>1. NoRuleset \notin Rulesets
  <2>1. "active" \notin DOMAIN NoRuleset
    BY DEF NoRuleset
  <2>2. \A x \in Rulesets : "active" \in DOMAIN x
    BY DEF Rulesets
  <2> QED BY <2>1, <2>2
<1>2. NoRuleset.contexts = {}
  BY DEF NoRuleset
<1>3. /\ Loose \in Rulesets /\ Foreign \in Rulesets
      /\ [Loose EXCEPT !.active = FALSE] \in Rulesets
      /\ [Loose EXCEPT !.contexts = Contexts] \in Rulesets
  <2>1. Loose \in Rulesets
    BY DEF Loose, Rulesets, Contexts
  <2>2. /\ \A old \in Rulesets : \A b \in BOOLEAN : [old EXCEPT !.active = b] \in Rulesets
        /\ \A old \in Rulesets : \A some \in SUBSET Contexts :
              [old EXCEPT !.contexts = some] \in Rulesets
        /\ \A old \in Rulesets : [old EXCEPT !.issuer = "foreign"] \in Rulesets
    BY DEF Rulesets
  <2>3. [Loose EXCEPT !.contexts = {"promotion"}] \in Rulesets
    BY <2>1, <2>2 DEF Contexts
  <2>4. Foreign = [[Loose EXCEPT !.contexts = {"promotion"}] EXCEPT !.issuer = "foreign"]
    BY DEF Foreign, Loose
  <2> QED BY <2>1, <2>2, <2>3, <2>4
<1>4. ASSUME NEW old \in Rulesets \cup {NoRuleset}
      PROVE  HardenedRules(old) \in Rulesets
  <2>1. old.contexts \in SUBSET Contexts /\ Required \subseteq Contexts
    BY <1>2 DEF Rulesets, Required, Contexts
  <2>2. old # NoRuleset => old.reviews \in 0 .. 2 /\ old.more \in BOOLEAN
    BY DEF Rulesets
  <2>3. Reviews(old) \in 0 .. 2
    BY <2>2 DEF Reviews
  <2>4. (old # NoRuleset /\ old.more) \in BOOLEAN
    OBVIOUS
  <2> QED BY <2>1, <2>3, <2>4 DEF HardenedRules, Rulesets
<1> QED BY <1>1, <1>2, <1>3, <1>4

LEMMA EnvironmentTypes ==
    /\ Absent \in Environments /\ Wide \in Environments /\ Doubled \in Environments
    /\ [Wide EXCEPT !.policies = {}] \in Environments
    /\ \A env \in Environments : \A b \in BOOLEAN : Put(env, b) \in Environments
    /\ \A env \in Environments : \A some \in SUBSET Policies :
          [env EXCEPT !.policies = some] \in Environments
    /\ \A env \in Environments :
          [env EXCEPT !.reviewers = @ \cup {Other}] \in Environments
<1>1. MaxId \in Nat /\ MaxId >= 2
  BY SettingsAssumption DEF SettingsAssumption
<1>2. [id |-> 1, main |-> FALSE] \in Policies
  BY <1>1 DEF Policies
<1>3. {[id |-> i, main |-> TRUE] : i \in {1, 2}} \subseteq Policies
  <2>1. \A i \in {1, 2} : [id |-> i, main |-> TRUE] \in Policies
    BY <1>1 DEF Policies
  <2> QED BY <2>1
<1>4. Absent \in Environments /\ Wide \in Environments /\ Doubled \in Environments
  BY <1>2, <1>3 DEF Absent, Wide, Doubled, Environments
<1>5. \A env \in Environments : \A some \in SUBSET Policies :
          [env EXCEPT !.policies = some] \in Environments
  BY DEF Environments
<1>6. \A env \in Environments :
          [env EXCEPT !.reviewers = @ \cup {Other}] \in Environments
  BY DEF Environments
<1>7. ASSUME NEW env \in Environments, NEW b \in BOOLEAN
      PROVE  Put(env, b) \in Environments
  <2>1. (IF env.custom THEN env.policies ELSE {}) \in SUBSET Policies
    BY DEF Environments
  <2>2. (IF b THEN {Reviewer} ELSE {}) \in SUBSET {Reviewer, Other}
    OBVIOUS
  <2> QED BY <2>1, <2>2 DEF Put, Environments
<1> QED BY <1>4, <1>5, <1>6, <1>7

(* What a PUT makes of an environment.                                     *)
LEMMA PutFields ==
    ASSUME NEW env \in Environments, NEW b \in BOOLEAN
    PROVE  /\ Put(env, b).exists /\ Put(env, b).custom /\ ~Put(env, b).bypass
           /\ b => Put(env, b).own /\ Put(env, b).reviewers = {Reviewer}
           /\ env.custom => Put(env, b).policies = env.policies
           /\ ~env.custom => Put(env, b).policies = {}
BY DEF Put

-----------------------------------------------------------------------------
(* A session's step is its own.                                            *)
Others(q) ==
    \A r \in Runs \ {q} :
        /\ at'[r] = at[r] /\ left'[r] = left[r] /\ seen'[r] = seen[r]
        /\ custom'[r] = custom[r] /\ todo'[r] = todo[r]
        /\ lacks'[r] = lacks[r] /\ blocked'[r] = blocked[r]

LEMMA ProceedsAlone ==
    ASSUME ControlsTypeOK, NEW q \in Runs, Proceed(q)
    PROVE  Others(q) /\ at[q] \in Busy /\ UNCHANGED <<changes, meddled, overlapped>>
<1> USE DEF Others, Goto, github, history, Busy
<1>0. /\ at \in [Runs -> Stages] /\ left \in [Runs -> Seq(Envs)]
      /\ seen \in [Runs -> Rulesets \cup {NoRuleset}]
      /\ todo \in [Runs -> SUBSET Policies]
      /\ custom \in [Runs -> BOOLEAN] /\ lacks \in [Runs -> BOOLEAN]
      /\ blocked \in [Runs -> BOOLEAN]
  BY DEF ControlsTypeOK
<1>1. CASE ReadRules(q)
  BY <1>0, <1>1 DEF ReadRules
<1>2. CASE WriteRules(q)
  BY <1>0, <1>2 DEF WriteRules
<1>3. CASE PutSettings(q)
  BY <1>0, <1>3 DEF PutSettings
<1>4. CASE ListPolicies(q)
  BY <1>0, <1>4 DEF ListPolicies
<1>5. CASE DeletePolicy(q)
  BY <1>0, <1>5 DEF DeletePolicy
<1>6. CASE Converged(q)
  BY <1>0, <1>6 DEF Converged, NextTarget, PostMain
<1>7. CASE CheckRules(q)
  BY <1>0, <1>7 DEF CheckRules, Found
<1>8. CASE CheckSettings(q)
  BY <1>0, <1>8 DEF CheckSettings, Found
<1>9. CASE CheckPolicies(q)
  BY <1>0, <1>9 DEF CheckPolicies, Found
<1> QED BY <1>1, <1>2, <1>3, <1>4, <1>5, <1>6, <1>7, <1>8, <1>9 DEF Proceed

(* What a step does to the environments: the settings are closed, policies *)
(* are cleared that nothing used, a surplus one goes, a new one for main   *)
(* comes.                                                                  *)
Emptied(e) == ~envs[e].custom /\ envs'[e].policies = {}
Shed(e, q) ==
    /\ at[q] = "converge" /\ e = First(q)
    /\ \E p \in todo[q] \cap envs[e].policies : envs'[e].policies = envs[e].policies \ {p}
Grown(e) ==
    /\ nextId <= MaxId /\ nextId' = nextId + 1
    /\ envs'[e].policies = envs[e].policies \cup {[id |-> nextId, main |-> TRUE]}

LEMMA ProceedsOnEnvironments ==
    ASSUME ControlsTypeOK, Routed, NEW q \in Runs, Proceed(q)
    PROVE  /\ envs' \in [Envs -> Environments] /\ nextId' \in 1 .. MaxId + 1
           /\ nextId' >= nextId
           /\ \A e \in Envs :
                /\ Closed(e) => Closed(e)'
                /\ \/ envs'[e].policies = envs[e].policies
                   \/ Emptied(e) \/ Shed(e, q) \/ Grown(e)
<1>0. /\ envs \in [Envs -> Environments] /\ at \in [Runs -> Stages]
      /\ left \in [Runs -> Seq(Envs)] /\ todo \in [Runs -> SUBSET Policies]
      /\ nextId \in 1 .. MaxId + 1 /\ MaxId \in Nat
  BY SettingsAssumption DEF ControlsTypeOK, SettingsAssumption
<1>1. ASSUME at[q] \in {"put", "list", "converge"}
      PROVE  First(q) \in Envs
  BY <1>0, <1>1, ListedParts DEF First, Routed, Applying
<1>2. CASE UNCHANGED <<envs, nextId>>
  BY <1>0, <1>2 DEF Closed
<1>3. CASE PutSettings(q)
  <2>0. PICK f \in Envs : f = First(q)
    BY <1>1, <1>3 DEF PutSettings
  <2>1. nextId' = nextId /\ envs' = [envs EXCEPT ![f] = Put(@, f # KeyEnv)]
    BY <2>0, <1>3 DEF PutSettings
  <2>2. /\ envs' \in [Envs -> Environments] /\ envs'[f] = Put(envs[f], f # KeyEnv)
        /\ \A e \in Envs : e # f => envs'[e] = envs[e]
    BY <1>0, <2>1, EnvironmentTypes
  <2>3. Put(envs[f], f # KeyEnv).custom /\ Closed(f)'
    BY <1>0, <2>1, <2>2, PutFields DEF Closed
  <2>4. envs'[f].policies = envs[f].policies \/ Emptied(f)
    BY <1>0, <2>1, <2>2, PutFields DEF Emptied
  <2> QED BY <1>0, <2>1, <2>2, <2>3, <2>4 DEF Closed
<1>4. CASE DeletePolicy(q)
  <2>0. PICK f \in Envs : f = First(q)
    BY <1>1, <1>4 DEF DeletePolicy
  <2>1. PICK p \in todo[q] \cap envs[f].policies :
           envs' = [envs EXCEPT ![f].policies = @ \ {p}]
    BY <2>0, <1>4 DEF DeletePolicy
  <2>2. at[q] = "converge" /\ nextId' = nextId
    BY <1>4 DEF DeletePolicy
  <2>3. envs[f].policies \ {p} \in SUBSET Policies
    BY <1>0, <2>2 DEF Environments
  <2>4. /\ envs'[f] = [envs[f] EXCEPT !.policies = envs[f].policies \ {p}]
        /\ \A e \in Envs : e # f => envs'[e] = envs[e]
        /\ envs' \in [Envs -> Environments]
    BY <1>0, <2>1, <2>3, EnvironmentTypes
  <2>5. /\ envs'[f].exists = envs[f].exists /\ envs'[f].custom = envs[f].custom
        /\ envs'[f].bypass = envs[f].bypass /\ envs'[f].own = envs[f].own
        /\ envs'[f].reviewers = envs[f].reviewers
        /\ envs'[f].policies = envs[f].policies \ {p}
    BY <1>0, <2>2, <2>4 DEF Environments
  <2>6. Closed(f) => Closed(f)'
    BY <2>5 DEF Closed
  <2>7. Shed(f, q)
    BY <2>0, <2>2, <2>5 DEF Shed
  <2>8. ASSUME NEW e \in Envs, e # f PROVE Closed(e) => Closed(e)'
    BY <2>4, <2>8 DEF Closed
  <2> QED BY <1>0, <2>2, <2>4, <2>6, <2>7, <2>8
<1>5. CASE Converged(q) /\ ~UNCHANGED <<nextId, envs>>
  <2>0. PICK f \in Envs : f = First(q)
    BY <1>1, <1>5 DEF Converged
  <2> DEFINE new == [id |-> nextId, main |-> TRUE]
  <2>1. /\ nextId <= MaxId /\ nextId' = nextId + 1 /\ at[q] = "converge"
        /\ envs' = [envs EXCEPT ![f].policies = @ \cup {new}]
    BY <2>0, <1>5 DEF Converged, PostMain
  <2>2. new \in Policies
    BY <1>0, <2>1 DEF Policies
  <2>3. envs[f].policies \cup {new} \in SUBSET Policies
    BY <1>0, <2>2 DEF Environments
  <2>4. /\ envs'[f] = [envs[f] EXCEPT !.policies = envs[f].policies \cup {new}]
        /\ \A e \in Envs : e # f => envs'[e] = envs[e]
        /\ envs' \in [Envs -> Environments]
    BY <1>0, <2>1, <2>3, EnvironmentTypes
  <2>5. /\ envs'[f].exists = envs[f].exists /\ envs'[f].custom = envs[f].custom
        /\ envs'[f].bypass = envs[f].bypass /\ envs'[f].own = envs[f].own
        /\ envs'[f].reviewers = envs[f].reviewers
        /\ envs'[f].policies = envs[f].policies \cup {new}
    BY <1>0, <2>2, <2>4 DEF Environments
  <2>6. Closed(f) => Closed(f)'
    BY <2>5 DEF Closed
  <2>7. Grown(f)
    BY <2>1, <2>5 DEF Grown
  <2>8. ASSUME NEW e \in Envs, e # f PROVE Closed(e) => Closed(e)'
    BY <2>4, <2>8 DEF Closed
  <2> QED BY <1>0, <2>1, <2>4, <2>6, <2>7, <2>8
<1> QED BY <1>2, <1>3, <1>4, <1>5
    DEF Proceed, ReadRules, WriteRules, ListPolicies, CheckRules, CheckSettings,
        CheckPolicies, github

-----------------------------------------------------------------------------
(* Types, and the way of a session, step by step.                          *)
LEMMA TypesApart ==
    ControlsTypeOK <=>
        /\ changes \in 0 .. MaxChanges /\ nextId \in 1 .. MaxId + 1
        /\ ruleset \in Rulesets \cup {NoRuleset}
        /\ envs \in [Envs -> Environments]
        /\ at \in [Runs -> Stages] /\ left \in [Runs -> Seq(Envs)]
        /\ seen \in [Runs -> Rulesets \cup {NoRuleset}]
        /\ todo \in [Runs -> SUBSET Policies]
        /\ custom \in [Runs -> BOOLEAN] /\ lacks \in [Runs -> BOOLEAN]
        /\ blocked \in [Runs -> BOOLEAN]
        /\ meddled \in [Runs -> BOOLEAN] /\ overlapped \in [Runs -> BOOLEAN]
BY DEF ControlsTypeOK

LEMMA RouteOf ==
    ASSUME ControlsTypeOK, Routed, NEW q \in Runs, at[q] \in Applying \cup Verifying
    PROVE  /\ left[q] \in Seq(Envs) /\ left[q] # <<>>
           /\ First(q) \in Envs /\ First(q) = Head(left[q])
           /\ First(q) \in Listed(left[q])
           /\ Tail(left[q]) \in Seq(Envs)
           /\ Listed(left[q]) = {First(q)} \cup Listed(Tail(left[q]))
           /\ Len(left[q]) \in Nat
           /\ Len(left[q]) > 1 => Tail(left[q]) # <<>>
           /\ Len(left[q]) <= 1 => Tail(left[q]) = <<>> /\ left[q] = <<First(q)>>
<1>1. left[q] \in Seq(Envs) /\ left[q] # <<>>
  BY TypesApart DEF Routed
<1> QED BY <1>1, ListedParts DEF First

LEMMA GoesTo ==
    ASSUME at \in [Runs -> Stages], NEW q \in Runs, NEW s \in Stages, Goto(q, s)
    PROVE  at' \in [Runs -> Stages] /\ at'[q] = s
BY DEF Goto

LEMMA StepTyped ==
    ASSUME ControlsTypeOK, Routed, NEW q \in Runs, Proceed(q)
    PROVE  ControlsTypeOK'
<1>. /\ "write" \in Stages /\ "put" \in Stages /\ "list" \in Stages
     /\ "converge" \in Stages /\ "check rules" \in Stages /\ "check" \in Stages
     /\ "check policies" \in Stages /\ "verified" \in Stages
     /\ "refused" \in Stages /\ "failed" \in Stages
  BY DEF Stages, Busy
<1>0. /\ changes \in 0 .. MaxChanges /\ ruleset \in Rulesets \cup {NoRuleset}
      /\ at \in [Runs -> Stages] /\ left \in [Runs -> Seq(Envs)]
      /\ seen \in [Runs -> Rulesets \cup {NoRuleset}]
      /\ todo \in [Runs -> SUBSET Policies]
      /\ custom \in [Runs -> BOOLEAN] /\ lacks \in [Runs -> BOOLEAN]
      /\ blocked \in [Runs -> BOOLEAN]
      /\ meddled \in [Runs -> BOOLEAN] /\ overlapped \in [Runs -> BOOLEAN]
      /\ envs \in [Envs -> Environments]
  BY TypesApart
<1>1. /\ envs' \in [Envs -> Environments] /\ nextId' \in 1 .. MaxId + 1
      /\ changes' \in 0 .. MaxChanges
      /\ meddled' \in [Runs -> BOOLEAN] /\ overlapped' \in [Runs -> BOOLEAN]
  BY <1>0, ProceedsOnEnvironments, ProceedsAlone
<1> DEFINE Rest == /\ ruleset' \in Rulesets \cup {NoRuleset}
                   /\ at' \in [Runs -> Stages] /\ left' \in [Runs -> Seq(Envs)]
                   /\ seen' \in [Runs -> Rulesets \cup {NoRuleset}]
                   /\ todo' \in [Runs -> SUBSET Policies]
                   /\ custom' \in [Runs -> BOOLEAN] /\ lacks' \in [Runs -> BOOLEAN]
                   /\ blocked' \in [Runs -> BOOLEAN]
<1> SUFFICES Rest
  BY <1>1 DEF ControlsTypeOK
<1>2. CASE ReadRules(q)
  <2>1. at' \in [Runs -> Stages]
    BY <1>0, <1>2, GoesTo DEF ReadRules
  <2> QED BY <1>0, <1>2, <2>1 DEF ReadRules, github
<1>3. CASE WriteRules(q)
  <2>1. at' \in [Runs -> Stages]
    BY <1>0, <1>3, GoesTo DEF WriteRules
  <2>2. ruleset' \in Rulesets
    BY <1>0, <1>3, RulesTypes DEF WriteRules
  <2>3. left' \in [Runs -> Seq(Envs)]
    BY <1>0, <1>3, Routes DEF WriteRules
  <2> QED BY <1>0, <1>3, <2>1, <2>2, <2>3 DEF WriteRules
<1>4. CASE PutSettings(q)
  <2>1. Tail(left[q]) \in Seq(Envs)
    BY <1>4, RouteOf DEF PutSettings, Applying
  <2>2. at' \in [Runs -> Stages]
    BY <1>0, <1>4, GoesTo DEF PutSettings
  <2>3. left' \in [Runs -> Seq(Envs)]
    BY <1>0, <1>4, <2>1, Routes DEF PutSettings
  <2> QED BY <1>0, <1>4, <2>2, <2>3 DEF PutSettings
<1>5. CASE ListPolicies(q)
  <2>1. First(q) \in Envs
    BY <1>5, RouteOf DEF ListPolicies, Applying
  <2>2. \A surplus \in Surplus(envs[First(q)].policies) : surplus \in SUBSET Policies
    BY <1>0, <2>1 DEF Surplus, Environments
  <2>3. todo' \in [Runs -> SUBSET Policies]
    <3>1. PICK surplus \in Surplus(envs[First(q)].policies) :
             todo' = [todo EXCEPT ![q] = surplus]
      BY <1>5 DEF ListPolicies
    <3> QED BY <1>0, <2>2, <3>1
  <2>4. at' \in [Runs -> Stages] /\ lacks' \in [Runs -> BOOLEAN]
    BY <1>0, <1>5, GoesTo DEF ListPolicies
  <2> QED BY <1>0, <1>5, <2>3, <2>4 DEF ListPolicies, github
<1>6. CASE DeletePolicy(q)
  BY <1>0, <1>6 DEF DeletePolicy
<1>7. CASE Converged(q)
  <2>1. Tail(left[q]) \in Seq(Envs)
    BY <1>7, RouteOf DEF Converged, Applying
  <2>2. at' \in [Runs -> Stages]
    BY <1>0, <1>7, GoesTo DEF Converged, NextTarget
  <2>3. left' \in [Runs -> Seq(Envs)]
    BY <1>0, <1>7, <2>1, Routes DEF Converged, NextTarget
  <2> QED BY <1>0, <1>7, <2>2, <2>3 DEF Converged
<1>8. CASE CheckRules(q)
  <2>1. GoodRules(ruleset) \in BOOLEAN
    BY DEF GoodRules
  <2>2. at' \in [Runs -> Stages]
    BY <1>0, <1>8, GoesTo DEF CheckRules
  <2>3. left' \in [Runs -> Seq(Envs)] /\ blocked' \in [Runs -> BOOLEAN]
    BY <1>0, <1>8, <2>1, Routes DEF CheckRules, Found
  <2> QED BY <1>0, <1>8, <2>2, <2>3 DEF CheckRules, github
<1>9. CASE CheckSettings(q)
  <2>1. First(q) \in Envs
    BY <1>9, RouteOf DEF CheckSettings, Verifying
  <2>2. envs[First(q)].custom \in BOOLEAN
    BY <1>0, <2>1 DEF Environments
  <2>3. at' \in [Runs -> Stages]
    BY <1>0, <1>9, GoesTo DEF CheckSettings
  <2>4. custom' \in [Runs -> BOOLEAN] /\ blocked' \in [Runs -> BOOLEAN]
    BY <1>0, <1>9, <2>2 DEF CheckSettings, Found
  <2> QED BY <1>0, <1>9, <2>3, <2>4 DEF CheckSettings, github
<1>10. CASE CheckPolicies(q)
  <2>1. Tail(left[q]) \in Seq(Envs)
    BY <1>10, RouteOf DEF CheckPolicies, Verifying
  <2>2. at' \in [Runs -> Stages]
    BY <1>0, <1>10, GoesTo DEF CheckPolicies
  <2>3. left' \in [Runs -> Seq(Envs)] /\ blocked' \in [Runs -> BOOLEAN]
    BY <1>0, <1>10, <2>1 DEF CheckPolicies, Found
  <2> QED BY <1>0, <1>10, <2>2, <2>3 DEF CheckPolicies, github
<1> QED BY <1>2, <1>3, <1>4, <1>5, <1>6, <1>7, <1>8, <1>9, <1>10 DEF Proceed

LEMMA StepRouted ==
    ASSUME ControlsTypeOK, Routed, NEW q \in Runs, Proceed(q)
    PROVE  Routed'
<1> USE DEF Applying, Verifying
<1>0. /\ at \in [Runs -> Stages] /\ left \in [Runs -> Seq(Envs)]
  BY TypesApart
<1>1. Others(q) /\ at[q] \in Busy
  BY ProceedsAlone
<1> DEFINE Way == /\ at'[q] \in Applying \cup Verifying => left'[q] # <<>>
                  /\ at'[q] \in Applying =>
                        left'[q] = <<KeyEnv>> \/ Listed(left'[q]) \subseteq Listed(Protected)
                  /\ at'[q] # "unused"
<1> SUFFICES Way
  BY <1>1 DEF Routed, Others
<1>2. CASE ReadRules(q)
  BY <1>0, <1>2 DEF ReadRules, Goto
<1>3. CASE WriteRules(q)
  BY <1>0, <1>3, Routes DEF WriteRules, Goto
<1>4. CASE PutSettings(q)
  <2>1. CASE Len(left[q]) > 1
    <3>1. left'[q] = Tail(left[q]) /\ at'[q] = "put"
      BY <1>0, <1>4, <2>1 DEF PutSettings
    <3>2. left[q] # <<KeyEnv>>
      BY <2>1, LongerThanOne
    <3> QED BY <1>4, <2>1, <3>1, <3>2, RouteOf DEF PutSettings, Routed
  <2>2. CASE ~(Len(left[q]) > 1)
    BY <1>0, <1>4, <2>2, Routes DEF PutSettings, Goto
  <2> QED BY <2>1, <2>2
<1>5. CASE ListPolicies(q)
  <2>1. at'[q] = "converge" /\ left'[q] = left[q] /\ at[q] = "list"
    BY <1>0, <1>5 DEF ListPolicies, Goto
  <2> QED BY <2>1 DEF Routed
<1>6. CASE DeletePolicy(q)
  <2>1. at'[q] = "converge" /\ left'[q] = left[q] /\ at[q] = "converge"
    BY <1>0, <1>6 DEF DeletePolicy
  <2> QED BY <2>1 DEF Routed
<1>7. CASE Converged(q)
  <2>1. CASE Len(left[q]) > 1 /\ left' = [left EXCEPT ![q] = Tail(@)] /\ Goto(q, "list")
    <3>1. left'[q] = Tail(left[q]) /\ at'[q] = "list" /\ at[q] = "converge"
      BY <1>0, <1>7, <2>1 DEF Converged, Goto
    <3>2. left[q] # <<KeyEnv>>
      BY <2>1, LongerThanOne
    <3> QED BY <2>1, <3>1, <3>2, RouteOf DEF Routed
  <2>2. CASE left' = [left EXCEPT ![q] = <<KeyEnv>>] /\ Goto(q, "put")
    BY <1>0, <2>2, Routes DEF Goto
  <2>3. CASE Goto(q, "check rules")
    BY <1>0, <2>3 DEF Goto
  <2> QED BY <1>7, <2>1, <2>2, <2>3 DEF Converged, NextTarget
<1>8. CASE CheckRules(q)
  BY <1>0, <1>8, Routes DEF CheckRules, Goto
<1>9. CASE CheckSettings(q)
  <2>1. at'[q] = "check policies" /\ left'[q] = left[q] /\ at[q] = "check"
    BY <1>0, <1>9 DEF CheckSettings, Goto
  <2> QED BY <2>1 DEF Routed
<1>10. CASE CheckPolicies(q)
  <2>1. left'[q] = Tail(left[q]) /\ at[q] = "check policies"
    BY <1>0, <1>10 DEF CheckPolicies
  <2>2. (at'[q] = "check" /\ Len(left[q]) > 1) \/ at'[q] \in {"refused", "verified"}
    BY <1>0, <1>10 DEF CheckPolicies, Goto
  <2> QED BY <2>1, <2>2, RouteOf
<1> QED BY <1>2, <1>3, <1>4, <1>5, <1>6, <1>7, <1>8, <1>9, <1>10 DEF Proceed

-----------------------------------------------------------------------------
(* Policies.  Every policy of an environment was there, or is the new one. *)
LEMMA PolicyComes ==
    ASSUME ControlsTypeOK, Routed, NEW q \in Runs, Proceed(q), NEW e \in Envs,
           NEW p \in envs'[e].policies, p \notin envs[e].policies
    PROVE  p = [id |-> nextId, main |-> TRUE] /\ Grown(e)
BY ProceedsOnEnvironments DEF Emptied, Shed, Grown

LEMMA Ids ==
    ASSUME ControlsTypeOK
    PROVE  /\ nextId \in Nat
           /\ \A e \in Envs : \A p \in envs[e].policies : p.id \in Nat /\ p.main \in BOOLEAN
           /\ \A r \in Runs : \A p \in todo[r] : p.id \in Nat /\ p.main \in BOOLEAN
<1>1. \A p \in Policies : p.id \in Nat /\ p.main \in BOOLEAN
  BY SettingsAssumption DEF Policies, SettingsAssumption
<1>2. nextId \in Nat
  BY SettingsAssumption DEF ControlsTypeOK, SettingsAssumption
<1>3. \A e \in Envs : envs[e].policies \subseteq Policies
  BY DEF ControlsTypeOK, Environments
<1>4. \A r \in Runs : todo[r] \subseteq Policies
  BY DEF ControlsTypeOK
<1> QED BY <1>1, <1>2, <1>3, <1>4

(* What a session has listed as surplus was a policy then.                 *)
LEMMA SurplusTaken ==
    ASSUME ControlsTypeOK, Routed, NEW q \in Runs, Proceed(q), NEW p \in todo'[q]
    PROVE  \/ p \in todo[q]
           \/ at[q] = "list" /\ First(q) \in Envs /\ p \in envs[First(q)].policies
<1>0. todo \in [Runs -> SUBSET Policies]
  BY TypesApart
<1>1. CASE ListPolicies(q)
  <2>1. PICK surplus \in Surplus(envs[First(q)].policies) :
           todo' = [todo EXCEPT ![q] = surplus]
    BY <1>1 DEF ListPolicies
  <2>2. surplus \subseteq envs[First(q)].policies /\ p \in surplus
    BY <1>0, <2>1 DEF Surplus
  <2> QED BY <1>1, <2>2, RouteOf DEF ListPolicies, Applying
<1>2. CASE DeletePolicy(q)
  BY <1>0, <1>2 DEF DeletePolicy
<1> QED BY <1>1, <1>2
    DEF Proceed, ReadRules, WriteRules, PutSettings, Converged, CheckRules,
        CheckSettings, CheckPolicies

LEMMA StepIdentified ==
    ASSUME ControlsTypeOK, Routed, Identified, NEW q \in Runs, Proceed(q)
    PROVE  Identified'
<1>0. /\ nextId' >= nextId /\ nextId \in Nat /\ nextId' \in Nat
  BY ProceedsOnEnvironments, Ids, SettingsAssumption DEF SettingsAssumption
<1>1. ASSUME NEW e \in Envs, NEW p \in envs'[e].policies
      PROVE  p.id < nextId'
  <2>1. CASE p \in envs[e].policies
    BY <1>0, <2>1, Ids DEF Identified
  <2>2. CASE p \notin envs[e].policies
    BY <1>0, <2>2, PolicyComes DEF Grown
  <2> QED BY <2>1, <2>2
<1>2. ASSUME NEW e \in Envs, NEW p \in envs'[e].policies, NEW o \in envs'[e].policies,
             p.id = o.id
      PROVE  p = o
  <2>1. CASE p \in envs[e].policies /\ o \in envs[e].policies
    BY <1>2, <2>1 DEF Identified
  <2>2. CASE p \notin envs[e].policies /\ o \notin envs[e].policies
    BY <2>2, PolicyComes
  <2>3. CASE p \in envs[e].policies /\ o \notin envs[e].policies
    <3>1. p.id < nextId /\ p.id \in Nat /\ o.id = nextId
      BY <2>3, PolicyComes, Ids DEF Identified
    <3> QED BY <1>0, <1>2, <3>1
  <2>4. CASE p \notin envs[e].policies /\ o \in envs[e].policies
    <3>1. o.id < nextId /\ o.id \in Nat /\ p.id = nextId
      BY <2>4, PolicyComes, Ids DEF Identified
    <3> QED BY <1>0, <1>2, <3>1
  <2> QED BY <2>1, <2>2, <2>3, <2>4
<1>3. ASSUME NEW r \in Runs, NEW p \in todo'[r]
      PROVE  p.id < nextId'
  <2>1. p.id < nextId /\ p.id \in Nat
    <3>1. CASE p \in todo[r]
      BY <3>1, Ids DEF Identified
    <3>2. CASE p \notin todo[r]
      <4>1. r = q
        BY <3>2, ProceedsAlone DEF Others
      <4> QED BY <3>2, <4>1, SurplusTaken, Ids DEF Identified
    <3> QED BY <3>1, <3>2
  <2> QED BY <1>0, <2>1
<1> QED BY <1>1, <1>2, <1>3 DEF Identified

(* An older rule for main outlives what an undisturbed session does.       *)
LEMMA ElderStays ==
    ASSUME ControlsTypeOK, Routed, Spared, NEW q \in Runs, Proceed(q), ~meddled[q],
           NEW e \in Envs, NEW p \in envs'[e].policies,
           NEW o \in Mains(envs[e].policies), o.id < p.id
    PROVE  \E u \in Mains(envs'[e].policies) : u.id < p.id
<1>1. /\ p.id \in Nat /\ o.id \in Nat /\ o \in envs[e].policies /\ o.main
  <2>1. o \in envs[e].policies /\ o.main
    BY DEF Mains
  <2>2. p.id \in Nat
    <3>1. envs'[e].policies \subseteq Policies
      BY ProceedsOnEnvironments DEF Environments
    <3> QED BY <3>1, SettingsAssumption DEF Policies, SettingsAssumption
  <2> QED BY <2>1, <2>2, Ids
<1>2. CASE o \in envs'[e].policies
  BY <1>1, <1>2 DEF Mains
<1>3. CASE o \notin envs'[e].policies
  <2>1. Shed(e, q)
    BY <1>1, <1>3, ProceedsOnEnvironments DEF Emptied, Grown
  <2>2. at[q] = "converge" /\ e = First(q) /\ o \in todo[q] \cap envs[e].policies
    BY <1>1, <1>3, <2>1 DEF Shed
  <2>3. PICK u \in Mains(envs[e].policies) : u.id < o.id
    BY <1>1, <2>2 DEF Spared
  <2>4. u \in envs[e].policies /\ u.main /\ u.id \in Nat
    BY Ids DEF Mains
  <2>5. u \in envs'[e].policies
    BY <1>1, <1>3, <2>1, <2>3, <2>4 DEF Shed
  <2> QED BY <1>1, <2>3, <2>4, <2>5 DEF Mains
<1> QED BY <1>2, <1>3

LEMMA MainStays ==
    ASSUME ControlsTypeOK, Routed, Spared, NEW q \in Runs, Proceed(q), ~meddled[q],
           NEW e \in Envs, envs[e].custom, Mains(envs[e].policies) # {}
    PROVE  Mains(envs'[e].policies) # {}
<1>1. PICK o \in envs[e].policies : o.main
  BY DEF Mains
<1>2. CASE o \in envs'[e].policies
  BY <1>1, <1>2 DEF Mains
<1>3. CASE o \notin envs'[e].policies
  <2>1. Shed(e, q)
    BY <1>1, <1>3, ProceedsOnEnvironments DEF Emptied, Grown
  <2>2. at[q] = "converge" /\ e = First(q) /\ o \in todo[q] \cap envs[e].policies
    BY <1>1, <1>3, <2>1 DEF Shed
  <2>3. PICK u \in Mains(envs[e].policies) : u.id < o.id
    BY <1>1, <2>2 DEF Spared
  <2>4. u \in envs[e].policies /\ u.main /\ u.id \in Nat /\ o.id \in Nat
    BY Ids DEF Mains
  <2>5. u \in envs'[e].policies
    BY <1>1, <1>3, <2>1, <2>3, <2>4 DEF Shed
  <2> QED BY <2>4, <2>5 DEF Mains
<1> QED BY <1>2, <1>3

LEMMA ShutStays ==
    ASSUME ControlsTypeOK, Routed, NEW q \in Runs, Proceed(q), NEW e \in Envs, Shut(e)
    PROVE  Shut(e)'
<1>1. Closed(e) /\ \A p \in envs[e].policies : p.main
  BY DEF Shut, Closed
<1>2. Closed(e)'
  BY <1>1, ProceedsOnEnvironments
<1>3. ASSUME NEW p \in envs'[e].policies PROVE p.main
  BY <1>1, PolicyComes
<1> QED BY <1>2, <1>3 DEF Shut, Closed

LEMMA StepSpared ==
    ASSUME ControlsTypeOK, Routed, Identified, Undisturbed, Spared,
           NEW q \in Runs, Proceed(q)
    PROVE  Spared'
<1> SUFFICES ASSUME NEW r \in Runs, at'[r] = "converge", ~meddled'[r],
                    NEW p \in todo'[r], p \in envs'[First(r)'].policies, p.main
             PROVE  \E o \in Mains(envs'[First(r)'].policies) : o.id < p.id
  BY DEF Spared
<1>1. ~meddled[r] /\ Others(q) /\ at[q] \in Busy
  BY ProceedsAlone
<1>2. CASE r = q /\ ListPolicies(q)
  <2>1. PICK surplus \in Surplus(envs[First(q)].policies) :
           todo' = [todo EXCEPT ![q] = surplus]
    BY <1>2 DEF ListPolicies
  <2>2. envs' = envs /\ First(r)' = First(q)
    BY <1>2 DEF ListPolicies, github, First
  <2>3. p \in surplus
    BY <1>2, <2>1, TypesApart
  <2> QED BY <2>2, <2>3 DEF Surplus
<1>3. CASE ~(r = q /\ ListPolicies(q))
  <2>1. /\ at[r] = "converge" /\ p \in todo[r] /\ First(r)' = First(r)
        /\ ~meddled[q]
    <3>1. CASE r # q
      BY <1>1, <3>1 DEF Others, First, Undisturbed, Busy
    <3>2. CASE r = q
      <4>1. DeletePolicy(q)
        BY <1>3, <3>2, TypesApart
        DEF Proceed, ReadRules, WriteRules, PutSettings, Converged, NextTarget,
            CheckRules, CheckSettings, CheckPolicies, Goto
      <4> QED BY <1>1, <3>2, <4>1, TypesApart DEF DeletePolicy, First
    <3> QED BY <3>1, <3>2
  <2>2. PICK e \in Envs : e = First(r)
    BY <2>1, RouteOf DEF Applying
  <2>3. p \in envs[e].policies
    <3>1. p.id < nextId /\ p.id \in Nat /\ nextId \in Nat
      BY <2>1, Ids DEF Identified
    <3>2. p # [id |-> nextId, main |-> TRUE]
      BY <3>1
    <3> QED BY <2>1, <2>2, <3>2, PolicyComes
  <2>4. PICK o \in Mains(envs[e].policies) : o.id < p.id
    BY <1>1, <2>1, <2>2, <2>3 DEF Spared
  <2> QED BY <2>1, <2>2, <2>4, ElderStays
<1> QED BY <1>2, <1>3

-----------------------------------------------------------------------------
(* Among the rules for main one is the first.                              *)
LEMMA LeastNumber ==
    ASSUME NEW T \in SUBSET Nat, T # {}
    PROVE  \E x \in T : \A y \in T : ~(y < x)
<1>1. PICK x \in T : \A y \in T : ~(<<y, x>> \in OpToRel(<, Nat))
  BY NatLessThanWellFounded, WFMin
<1>2. \A y \in T : y < x => <<y, x>> \in OpToRel(<, Nat)
  BY DEF OpToRel
<1> QED BY <1>1, <1>2

-----------------------------------------------------------------------------
(* The ruleset.  What is hardened demands all, and hardening it again      *)
(* changes nothing.                                                        *)
LEMMA HardenedTwice ==
    ASSUME NEW old \in Rulesets \cup {NoRuleset}
    PROVE  HardenedRules(HardenedRules(old)) = HardenedRules(old)
<1> DEFINE new == HardenedRules(old)
<1>1. new \in Rulesets /\ new # NoRuleset
  BY RulesTypes
<1>2. /\ new.contexts = Required \cup old.contexts /\ new.reviews = Reviews(old)
      /\ new.more = (old # NoRuleset /\ old.more)
  BY DEF HardenedRules
<1>3. Reviews(old) \in Nat /\ Reviews(old) >= 1
  BY DEF Reviews, Rulesets
<1>4. Reviews(new) = Reviews(old)
  BY <1>1, <1>2, <1>3 DEF Reviews
<1>5. (new # NoRuleset /\ new.more) = new.more
  BY <1>1 DEF Rulesets
<1>6. Required \cup new.contexts = new.contexts
  BY <1>2
<1> HIDE DEF new
<1>7. HardenedRules(new) =
        [active |-> TRUE, contexts |-> new.contexts, issuer |-> "app",
         strict |-> TRUE, reviews |-> Reviews(old), gates |-> TRUE, more |-> new.more]
  BY <1>4, <1>5, <1>6 DEF HardenedRules
<1>8. HardenedRules(old) =
        [active |-> TRUE, contexts |-> new.contexts, issuer |-> "app",
         strict |-> TRUE, reviews |-> Reviews(old), gates |-> TRUE, more |-> new.more]
  BY <1>2 DEF HardenedRules
<1> QED BY <1>7, <1>8 DEF new

LEMMA HardenedDemands ==
    ASSUME NEW old \in Rulesets \cup {NoRuleset}, ruleset' = HardenedRules(old)
    PROVE  Demanded'
<1>1. ruleset' # NoRuleset
  BY RulesTypes
<1>2. Reviews(old) > 0
  BY DEF Reviews, Rulesets
<1> QED BY <1>1, <1>2 DEF HardenedRules, Demanded, Required

(* A session changes the ruleset only to what a session hardened.          *)
LEMMA RulesWritten ==
    ASSUME ControlsTypeOK, NEW q \in Runs, Proceed(q)
    PROVE  \/ ruleset' = ruleset
           \/ WriteRules(q) /\ ruleset' = HardenedRules(seen[q]) /\ at[q] = "write"
BY DEF Proceed, ReadRules, WriteRules, PutSettings, ListPolicies, DeletePolicy,
       Converged, CheckRules, CheckSettings, CheckPolicies, github

LEMMA DemandedStays ==
    ASSUME ControlsTypeOK, NEW q \in Runs, Proceed(q), Demanded
    PROVE  Demanded'
<1>1. CASE ruleset' = ruleset
  BY <1>1 DEF Demanded
<1>2. CASE ruleset' = HardenedRules(seen[q])
  BY <1>2, TypesApart, HardenedDemands
<1> QED BY <1>1, <1>2, RulesWritten

LEMMA StepReread ==
    ASSUME ControlsTypeOK, Undisturbed, Reread, NEW q \in Runs, Proceed(q)
    PROVE  Reread'
<1> SUFFICES ASSUME NEW r \in Runs, at'[r] = "write", ~meddled'[r]
             PROVE  HardenedRules(ruleset') = HardenedRules(seen'[r])
  BY DEF Reread
<1>1. ~meddled[r] /\ Others(q) /\ at[q] \in Busy
  BY ProceedsAlone
<1>2. CASE r = q
  <2>1. ReadRules(q)
    BY <1>1, <1>2, TypesApart
    DEF Proceed, ReadRules, WriteRules, PutSettings, ListPolicies, DeletePolicy,
        Converged, NextTarget, CheckRules, CheckSettings, CheckPolicies, Goto
  <2> QED BY <1>2, <2>1, TypesApart DEF ReadRules, github
<1>3. CASE r # q
  <2>1. /\ at[r] = "write" /\ seen'[r] = seen[r] /\ ~meddled[q]
        /\ HardenedRules(ruleset) = HardenedRules(seen[r])
    BY <1>1, <1>3 DEF Others, Undisturbed, Busy, Reread
  <2>2. CASE ruleset' = ruleset
    BY <2>1, <2>2
  <2>3. CASE ruleset' = HardenedRules(seen[q]) /\ at[q] = "write"
    <3>1. ruleset' = HardenedRules(ruleset)
      BY <2>1, <2>3 DEF Reread
    <3> QED BY <2>1, <3>1, HardenedTwice, TypesApart
  <2> QED BY <2>2, <2>3, RulesWritten
<1> QED BY <1>2, <1>3

-----------------------------------------------------------------------------
(* A session at work disturbs nobody, and is no more alone than before.    *)
LEMMA StepCompany ==
    ASSUME ControlsTypeOK, Undisturbed, Solitary, NEW q \in Runs, Proceed(q)
    PROVE  Undisturbed' /\ Solitary'
<1>1. Others(q) /\ at[q] \in Busy /\ UNCHANGED <<meddled, overlapped>>
  BY ProceedsAlone
<1>2. ASSUME NEW r \in Runs PROVE at'[r] \in Busy => at[r] \in Busy
  BY <1>1 DEF Others
<1>3. ASSUME NEW r \in Runs PROVE at'[r] # "unused" => at[r] # "unused"
  BY <1>1 DEF Others, Busy
<1> QED BY <1>1, <1>2, <1>3 DEF Undisturbed, Solitary

-----------------------------------------------------------------------------
(* What was found good lasts.                                              *)
LEMMA LastingStays ==
    ASSUME ControlsTypeOK, Routed, Spared, NEW q \in Runs, Proceed(q), ~meddled[q],
           NEW e \in Envs, Lasting(e)
    PROVE  Lasting(e)'
<1>1. Shut(e) /\ envs[e].custom /\ Mains(envs[e].policies) # {}
  BY DEF Lasting, Shut
<1>2. Shut(e)'
  BY <1>1, ShutStays
<1>3. Mains(envs'[e].policies) # {}
  BY <1>1, MainStays
<1> QED BY <1>2, <1>3 DEF Lasting

LEMMA OneIsThere ==
    ASSUME NEW some, NEW b, MainOnly(b, some)
    PROVE  b /\ Mains(some) # {} /\ \A p \in some : p.main
<1>1. some # {}
  BY FS_EmptySet DEF MainOnly
<1> QED BY <1>1 DEF MainOnly, Mains

LEMMA StepChecked ==
    ASSUME ControlsTypeOK, Routed, Undisturbed, Spared, Checked,
           NEW q \in Runs, Proceed(q)
    PROVE  Checked'
<1> USE DEF Verifying
<1>0. Others(q) /\ at[q] \in Busy /\ UNCHANGED <<meddled, overlapped>>
  BY ProceedsAlone
<1> DEFINE Sound(r) ==
      /\ at[r] = "verified" => ~blocked[r] /\ left[r] = <<>>
      /\ ~meddled[r] /\ ~blocked[r] =>
            /\ at[r] \in Verifying \cup {"verified"} =>
                  Demanded /\ \A e \in Envs \ Listed(left[r]) : Lasting(e)
            /\ at[r] = "check policies" /\ custom[r] => Closed(First(r))
<1> SUFFICES ASSUME NEW r \in Runs PROVE Sound(r)'
  BY DEF Checked
<1>1. Sound(r)
  BY DEF Checked
<1>2. CASE r # q
  <2>1. /\ at'[r] = at[r] /\ left'[r] = left[r] /\ custom'[r] = custom[r]
        /\ blocked'[r] = blocked[r] /\ meddled'[r] = meddled[r] /\ First(r)' = First(r)
    BY <1>0, <1>2 DEF Others, First
  <2>2. at[r] # "unused" /\ ~meddled[r] => ~meddled[q]
    BY <1>0 DEF Undisturbed
  <2>3. ASSUME ~meddled[r], ~blocked[r], at[r] \in Verifying \cup {"verified"}
        PROVE  /\ Demanded' /\ \A e \in Envs \ Listed(left[r]) : Lasting(e)'
               /\ at[r] = "check policies" /\ custom[r] => Closed(First(r))'
    <3>1. ~meddled[q] /\ Demanded /\ \A e \in Envs \ Listed(left[r]) : Lasting(e)
      BY <1>1, <2>2, <2>3
    <3>2. at[r] = "check policies" /\ custom[r] => Closed(First(r)) /\ First(r) \in Envs
      BY <1>1, <2>3, RouteOf
    <3>3. ASSUME NEW f \in Envs, f = First(r), Closed(f) PROVE Closed(First(r))'
      <4>1. Closed(f)'
        BY <3>3, ProceedsOnEnvironments
      <4>2. f = First(r)'
        BY <2>1, <3>3
      <4> QED BY <4>1, <4>2 DEF Closed
    <3> QED BY <3>1, <3>2, <3>3, DemandedStays, LastingStays
  <2> QED BY <1>1, <2>1, <2>3
<1>3. CASE r = q /\ CheckRules(q)
  <2>1. /\ at'[r] = "check" /\ left'[r] = Append(Protected, KeyEnv)
        /\ blocked'[r] = (blocked[r] \/ ~GoodRules(ruleset)) /\ ruleset' = ruleset
    BY <1>3, TypesApart DEF CheckRules, Found, Goto, github
  <2>2. GoodRules(ruleset) => Demanded
    <3>1. ruleset \in Rulesets => ruleset.reviews \in Nat
      BY DEF Rulesets
    <3> QED BY <3>1, TypesApart
        DEF GoodRules, Demanded, Required, IssuerPinned, ReviewsRequired
  <2>3. Demanded => Demanded'
    BY <2>1 DEF Demanded
  <2> QED BY <2>1, <2>2, <2>3, Routes
<1>4. CASE r = q /\ CheckSettings(q)
  <2>1. PICK f \in Envs : f = First(r)
    BY <1>4, RouteOf DEF CheckSettings
  <2>2. /\ at'[r] = "check policies" /\ left'[r] = left[r] /\ at[r] = "check"
        /\ blocked'[r] = (blocked[r] \/ ~(IF f = KeyEnv THEN GoodEvidence(envs[f])
                                                        ELSE GoodReviewed(envs[f])))
        /\ custom'[r] = envs[f].custom /\ ruleset' = ruleset /\ envs' = envs
        /\ First(r)' = f
    BY <1>4, <2>1, TypesApart DEF CheckSettings, Found, Goto, github, First
  <2>3. ~blocked'[r] /\ custom'[r] => Closed(f)'
    BY <2>2 DEF GoodEvidence, GoodReviewed, OnlyReviewer, Closed
  <2>4. Demanded => Demanded'
    BY <2>2 DEF Demanded
  <2>5. \A e \in Envs : Lasting(e) => Lasting(e)'
    BY <2>2 DEF Lasting, Shut
  <2>6. Closed(f)' => Closed(First(r))'
    BY <2>2 DEF Closed
  <2> QED BY <1>0, <1>1, <2>2, <2>3, <2>4, <2>5, <2>6
<1>5. CASE r = q /\ CheckPolicies(q)
  <2>1. PICK f \in Envs : f = First(r)
    BY <1>5, RouteOf DEF CheckPolicies
  <2>2. /\ left'[r] = Tail(left[r]) /\ at[r] = "check policies"
        /\ at'[r] = IF Len(left[r]) > 1 THEN "check"
                    ELSE IF blocked'[r] THEN "refused" ELSE "verified"
        /\ blocked'[r] = (blocked[r] \/ ~MainOnly(custom[r], envs[f].policies))
        /\ ruleset' = ruleset /\ envs' = envs
    BY <1>5, <2>1, TypesApart DEF CheckPolicies, Found, Goto, github
  <2>3. /\ Listed(left[r]) = {f} \cup Listed(Tail(left[r]))
        /\ Len(left[r]) \in Nat
        /\ Len(left[r]) <= 1 => Tail(left[r]) = <<>>
    BY <1>5, <2>1, RouteOf DEF CheckPolicies
  <2>4. ASSUME ~meddled[r], ~blocked'[r]
        PROVE  Demanded /\ \A e \in Envs \ Listed(Tail(left[r])) : Lasting(e)
    <3>1. ~blocked[r] /\ MainOnly(custom[r], envs[f].policies)
      BY <2>2, <2>4
    <3>2. /\ custom[r] /\ Mains(envs[f].policies) # {}
          /\ \A p \in envs[f].policies : p.main
      BY <3>1, OneIsThere
    <3>3. Closed(f)
      BY <1>1, <2>1, <2>2, <2>4, <3>1, <3>2
    <3>4. Lasting(f)
      BY <3>2, <3>3 DEF Lasting, Shut, Closed
    <3> QED BY <1>1, <2>2, <2>3, <2>4, <3>1, <3>4
  <2>5. Demanded => Demanded'
    BY <2>2 DEF Demanded
  <2>6. \A e \in Envs : Lasting(e) => Lasting(e)'
    BY <2>2 DEF Lasting, Shut
  <2>7. at'[r] = "verified" => ~blocked'[r] /\ left'[r] = <<>>
    <3>1. CASE Len(left[r]) > 1
      BY <2>2, <3>1
    <3>2. CASE blocked'[r]
      BY <2>2, <3>2
    <3>3. CASE ~(Len(left[r]) > 1) /\ ~blocked'[r]
      <4>1. left'[r] = Tail(left[r])
        BY <2>2
      <4>2. Len(left[r]) <= 1
        BY <2>3, <3>3
      <4> QED BY <2>3, <3>3, <4>1, <4>2
    <3> QED BY <3>1, <3>2, <3>3
  <2> QED BY <1>0, <2>2, <2>4, <2>5, <2>6, <2>7
<1>6. CASE r = q /\ ~CheckRules(q) /\ ~CheckSettings(q) /\ ~CheckPolicies(q)
  <2>1. at'[r] \notin Verifying \cup {"verified"}
    BY <1>6, TypesApart
    DEF Proceed, ReadRules, WriteRules, PutSettings, ListPolicies, DeletePolicy,
        Converged, NextTarget, Goto
  <2> QED BY <2>1
<1> QED BY <1>2, <1>3, <1>4, <1>5, <1>6

-----------------------------------------------------------------------------
(* What a session that is alone has mended.                                *)
LEMMA SingleStays ==
    ASSUME NEW e, Single(e), envs'[e].policies = envs[e].policies
    PROVE  Single(e)'
BY DEF Single

LEMMA SingleGood ==
    ASSUME NEW e, Single(e)
    PROVE  MainOnly(TRUE, envs[e].policies)
<1>1. PICK p \in envs[e].policies : p.main /\ envs[e].policies = {p}
  BY DEF Single
<1>2. Cardinality({p}) = 1
  BY FS_Singleton
<1> QED BY <1>1, <1>2 DEF MainOnly

LEMMA ClosedGood ==
    ASSUME NEW e, Closed(e)
    PROVE  IF e = KeyEnv THEN GoodEvidence(envs[e]) ELSE GoodReviewed(envs[e])
BY DEF Closed, GoodEvidence, GoodReviewed, OnlyReviewer

LEMMA DemandedGood ==
    ASSUME ControlsTypeOK, Demanded
    PROVE  GoodRules(ruleset)
<1>1. ruleset \in Rulesets => ruleset.reviews \in Nat
  BY DEF Rulesets
<1> QED BY <1>1, TypesApart DEF GoodRules, Demanded, Required, IssuerPinned, ReviewsRequired

(* Of the rules for main, all but the first are listed as surplus.         *)
LEMMA OneIsKept ==
    ASSUME ControlsTypeOK, Identified, NEW e \in Envs, Mains(envs[e].policies) # {},
           NEW surplus \in Surplus(envs[e].policies)
    PROVE  \E p \in envs[e].policies : p.main /\ envs[e].policies \ surplus = {p}
<1> DEFINE there == envs[e].policies
           numbers == {p.id : p \in Mains(there)}
<1>1. \A p \in there : p.id \in Nat
  BY Ids
<1>2. numbers \in SUBSET Nat /\ numbers # {}
  BY <1>1 DEF Mains
<1> HIDE DEF numbers
<1>3. PICK n \in numbers : \A m \in numbers : ~(m < n)
  BY <1>2, LeastNumber
<1>4. PICK p \in there : p.main /\ p.id = n
  BY <1>3 DEF Mains, numbers
<1>5. \A o \in there : o.main => ~(o.id < p.id)
  BY <1>3, <1>4 DEF Mains, numbers
<1>6. p \notin surplus
  BY <1>4, <1>5 DEF Surplus, Mains
<1>7. ASSUME NEW o \in there, o # p PROVE o \in surplus
  <2>1. o.id # p.id
    BY <1>7 DEF Identified
  <2>2. o.main => p.id < o.id
    BY <1>1, <1>5, <2>1
  <2> QED BY <1>4, <2>2 DEF Surplus, Mains
<1> QED BY <1>4, <1>6, <1>7

(* The environment of the key is by itself at the end.                     *)
LEMMA NotYetTheKey ==
    ASSUME ControlsTypeOK, Routed, NEW q \in Runs, at[q] \in Applying, Len(left[q]) > 1
    PROVE  /\ left[q] # <<KeyEnv>> /\ Tail(left[q]) # <<KeyEnv>>
           /\ Listed(left[q]) \subseteq Listed(Protected)
<1>1. left[q] # <<KeyEnv>>
  BY LongerThanOne
<1>2. Listed(left[q]) \subseteq Listed(Protected)
  BY <1>1 DEF Routed
<1>3. Listed(Tail(left[q])) \subseteq Listed(left[q])
  BY RouteOf
<1> QED BY <1>1, <1>2, <1>3, Routes

LEMMA ProtectedIsNotTheKey == Protected # <<KeyEnv>>
BY Routes

LEMMA PutMends ==
    ASSUME ControlsTypeOK, Routed, NEW q \in Runs, PutSettings(q), MendedBy(q)
    PROVE  MendedBy(q)'
<1>0. Proceed(q) /\ at[q] = "put" /\ at[q] \in Applying /\ "put" # "list"
  BY DEF PutSettings, Proceed, Applying
<1>1. PICK f \in Envs : f = First(q)
  BY <1>0, RouteOf
<1>2. /\ envs' = [envs EXCEPT ![f] = Put(@, f # KeyEnv)] /\ ruleset' = ruleset
      /\ blocked' = blocked
  BY <1>1 DEF PutSettings
<1>3. /\ envs'[f] = Put(envs[f], f # KeyEnv)
      /\ \A e \in Envs : e # f => envs'[e] = envs[e]
  BY <1>2, TypesApart
<1>4. Closed(f)'
  BY <1>2, <1>3, TypesApart, PutFields DEF Closed
<1>5. \A e \in Envs : Closed(e) => Closed(e)'
  BY <1>0, ProceedsOnEnvironments
<1>6. \A e \in Envs : e # f /\ Single(e) => Single(e)'
  BY <1>3, SingleStays
<1>7. /\ ~blocked'[q] /\ Demanded'
      /\ \A e \in Listed(Protected) \ Listed(left[q]) :
            Closed(e) /\ (left[q] = <<KeyEnv>> => Single(e))
  BY <1>0, <1>2 DEF MendedBy, Demanded
<1>8. Listed(left[q]) = {f} \cup Listed(Tail(left[q]))
  BY <1>0, <1>1, RouteOf
<1>9. CASE Len(left[q]) > 1
  <2>1. at'[q] = "put" /\ left'[q] = Tail(left[q])
    BY <1>0, <1>9, TypesApart DEF PutSettings
  <2>2. left'[q] # <<KeyEnv>>
    BY <1>0, <1>9, <2>1, NotYetTheKey
  <2>3. \A e \in Listed(Protected) \ Listed(left'[q]) : Closed(e)'
    BY <1>4, <1>5, <1>7, <1>8, <2>1, Routes
  <2> QED BY <1>7, <2>1, <2>2, <2>3 DEF MendedBy, Applying, Verifying
<1>10. CASE ~(Len(left[q]) > 1) /\ left[q] = <<KeyEnv>>
  <2>1. at'[q] = "list" /\ left'[q] = <<KeyEnv>>
    BY <1>0, <1>10, TypesApart DEF PutSettings, Goto
  <2>2. f = KeyEnv /\ Listed(left[q]) = {KeyEnv} /\ KeyEnv \notin Listed(Protected)
    BY <1>8, <1>10, Routes
  <2>3. \A e \in Listed(Protected) : Closed(e)' /\ Single(e)'
    BY <1>5, <1>6, <1>7, <1>10, <2>2, Routes
  <2>4. Closed(KeyEnv)'
    BY <1>4, <2>2 DEF Closed
  <2> QED BY <1>7, <2>1, <2>3, <2>4 DEF MendedBy, Applying, Verifying
<1>11. CASE ~(Len(left[q]) > 1) /\ left[q] # <<KeyEnv>>
  <2>1. at'[q] = "list" /\ left'[q] = Protected
    BY <1>0, <1>11, TypesApart DEF PutSettings, Goto
  <2>2. Listed(left[q]) = {f}
    <3>1. Len(left[q]) \in Nat /\ (Len(left[q]) <= 1 => Tail(left[q]) = <<>>)
      BY <1>0, RouteOf
    <3>2. Tail(left[q]) = <<>>
      BY <1>11, <3>1
    <3> QED BY <1>8, <3>2, ListedSmall
  <2>3. \A e \in Listed(Protected) : Closed(e)'
    BY <1>4, <1>5, <1>7, <2>2, Routes
  <2> QED BY <1>7, <2>1, <2>3, ProtectedIsNotTheKey DEF MendedBy, Applying, Verifying
<1> QED BY <1>9, <1>10, <1>11

LEMMA ListMends ==
    ASSUME ControlsTypeOK, Routed, Identified, NEW q \in Runs, ListPolicies(q), MendedBy(q)
    PROVE  MendedBy(q)'
<1>0. at[q] = "list" /\ at[q] \in Applying
  BY DEF ListPolicies, Applying
<1>1. PICK f \in Envs : f = First(q)
  BY <1>0, RouteOf
<1>2. PICK surplus \in Surplus(envs[f].policies) : todo' = [todo EXCEPT ![q] = surplus]
  BY <1>1 DEF ListPolicies
<1>3. /\ envs' = envs /\ ruleset' = ruleset /\ blocked' = blocked /\ left' = left
      /\ at'[q] = "converge" /\ First(q)' = f /\ todo'[q] = surplus
      /\ lacks'[q] = (Mains(envs[f].policies) = {})
  BY <1>1, <1>2, TypesApart DEF ListPolicies, Goto, github, First
<1>4. CASE Mains(envs[f].policies) = {}
  <2>1. surplus = envs[f].policies
    BY <1>4 DEF Surplus, Mains
  <2>2. Sorting(q)'
    BY <1>3, <1>4, <2>1 DEF Sorting
  <2> QED BY <1>0, <1>3, <2>2 DEF MendedBy, Demanded, Closed, Single, Applying, Verifying
<1>5. CASE Mains(envs[f].policies) # {}
  <2>1. \E p \in envs[f].policies : p.main /\ envs[f].policies \ surplus = {p}
    BY <1>5, OneIsKept
  <2>2. Sorting(q)'
    BY <1>3, <1>5, <2>1 DEF Sorting
  <2> QED BY <1>0, <1>3, <2>2 DEF MendedBy, Demanded, Closed, Single, Applying, Verifying
<1> QED BY <1>4, <1>5

LEMMA DeleteMends ==
    ASSUME ControlsTypeOK, Routed, NEW q \in Runs, DeletePolicy(q), MendedBy(q)
    PROVE  MendedBy(q)'
<1>0. Proceed(q) /\ at[q] = "converge" /\ at[q] \in Applying
  BY DEF DeletePolicy, Proceed, Applying
<1>1. PICK f \in Envs : f = First(q)
  BY <1>0, RouteOf
<1>2. PICK p \in todo[q] \cap envs[f].policies :
         /\ envs' = [envs EXCEPT ![f].policies = @ \ {p}]
         /\ todo' = [todo EXCEPT ![q] = @ \ {p}]
  BY <1>1 DEF DeletePolicy
<1>3. /\ ruleset' = ruleset /\ blocked' = blocked /\ left' = left /\ at' = at
      /\ lacks' = lacks /\ First(q)' = f /\ todo'[q] = todo[q] \ {p}
  BY <1>1, <1>2, TypesApart DEF DeletePolicy, First
<1>4. /\ envs'[f].policies = envs[f].policies \ {p}
      /\ \A e \in Envs : e # f => envs'[e] = envs[e]
  BY <1>2, TypesApart DEF Environments
<1>5. \A e \in Envs : Closed(e) => Closed(e)'
  BY <1>0, ProceedsOnEnvironments
<1>6. f \in Listed(left[q]) /\ Listed(Protected) \subseteq Envs /\ KeyEnv \in Envs
  BY <1>0, <1>1, RouteOf, Routes
<1>7. \A e \in Envs : e \notin Listed(left[q]) /\ Single(e) => Single(e)'
  BY <1>4, <1>6, SingleStays
<1>8. Sorting(q)'
  <2>1. CASE lacks[q]
    <3>1. envs[f].policies = todo[q] /\ Mains(envs[f].policies) = {}
      BY <1>0, <1>1, <2>1 DEF MendedBy, Sorting
    <3> QED BY <1>3, <1>4, <2>1, <3>1 DEF Sorting, Mains
  <2>2. CASE ~lacks[q]
    <3>1. PICK m \in envs[f].policies : m.main /\ envs[f].policies \ todo[q] = {m}
      BY <1>0, <1>1, <2>2 DEF MendedBy, Sorting
    <3>2. m # p /\ envs'[f].policies \ todo'[q] = {m} /\ m \in envs'[f].policies
      BY <1>3, <1>4, <3>1
    <3> QED BY <1>3, <2>2, <3>1, <3>2 DEF Sorting
  <2> QED BY <2>1, <2>2
<1>9. /\ ~blocked'[q] /\ Demanded'
      /\ \A e \in Listed(Protected) : Closed(e) /\ (e \notin Listed(left[q]) => Single(e))
      /\ left[q] = <<KeyEnv>> => Closed(KeyEnv)
  BY <1>0, <1>3 DEF MendedBy, Demanded
<1>10. /\ \A e \in Listed(Protected) : Closed(e)' /\ (e \notin Listed(left[q]) => Single(e)')
       /\ left[q] = <<KeyEnv>> => Closed(KeyEnv)'
  BY <1>5, <1>6, <1>7, <1>9
<1> QED BY <1>0, <1>3, <1>8, <1>9, <1>10 DEF MendedBy, Applying, Verifying

LEMMA ConvergedMends ==
    ASSUME ControlsTypeOK, Routed, NEW q \in Runs, Converged(q), MendedBy(q)
    PROVE  MendedBy(q)'
<1>0. Proceed(q) /\ at[q] = "converge" /\ at[q] \in Applying /\ todo[q] = {}
  BY DEF Converged, Proceed, Applying
<1>1. PICK f \in Envs : f = First(q)
  BY <1>0, RouteOf
<1>2. ruleset' = ruleset /\ blocked' = blocked
  BY DEF Converged
<1>3. Single(f)' /\ \A e \in Envs : e # f => envs'[e] = envs[e]
  <2>1. CASE lacks[q]
    <3>1. envs[f].policies = {} /\ Mains(envs[f].policies) = {}
      BY <1>0, <1>1, <2>1 DEF MendedBy, Sorting
    <3>2. envs' = [envs EXCEPT ![f].policies = @ \cup {[id |-> nextId, main |-> TRUE]}]
      BY <1>1, <2>1, <3>1 DEF Converged, PostMain
    <3>3. /\ envs'[f].policies = {[id |-> nextId, main |-> TRUE]}
          /\ \A e \in Envs : e # f => envs'[e] = envs[e]
      BY <3>1, <3>2, TypesApart DEF Environments
    <3> QED BY <3>3 DEF Single
  <2>2. CASE ~lacks[q]
    <3>1. PICK m \in envs[f].policies : m.main /\ envs[f].policies \ todo[q] = {m}
      BY <1>0, <1>1, <2>2 DEF MendedBy, Sorting
    <3>2. envs' = envs
      BY <2>2 DEF Converged
    <3> QED BY <1>0, <3>1, <3>2 DEF Single
  <2> QED BY <2>1, <2>2
<1>4. \A e \in Envs : Closed(e) => Closed(e)'
  BY <1>0, ProceedsOnEnvironments
<1>5. \A e \in Envs : Single(e) => Single(e)'
  BY <1>3, SingleStays
<1>6. /\ Listed(left[q]) = {f} \cup Listed(Tail(left[q]))
      /\ Listed(Protected) \subseteq Envs /\ KeyEnv \in Envs
  BY <1>0, <1>1, RouteOf, Routes
<1>7. /\ ~blocked'[q] /\ Demanded'
      /\ \A e \in Listed(Protected) : Closed(e) /\ (e \notin Listed(left[q]) => Single(e))
      /\ left[q] = <<KeyEnv>> => Closed(KeyEnv)
  BY <1>0, <1>2 DEF MendedBy, Demanded
<1>8. /\ \A e \in Listed(Protected) :
            Closed(e)' /\ (e \notin Listed(Tail(left[q])) => Single(e)')
      /\ left[q] = <<KeyEnv>> => Closed(KeyEnv)'
  BY <1>3, <1>4, <1>5, <1>6, <1>7
<1>9. CASE Len(left[q]) > 1 /\ left' = [left EXCEPT ![q] = Tail(@)] /\ Goto(q, "list")
  <2>1. at'[q] = "list" /\ left'[q] = Tail(left[q])
    BY <1>0, <1>9, TypesApart DEF Goto
  <2>2. left'[q] # <<KeyEnv>>
    BY <1>0, <1>9, <2>1, NotYetTheKey
  <2> QED BY <1>7, <1>8, <2>1, <2>2 DEF MendedBy, Applying, Verifying
<1>10. CASE /\ Len(left[q]) = 1 /\ left' = [left EXCEPT ![q] = <<KeyEnv>>]
            /\ Goto(q, "put")
  <2>1. at'[q] = "put" /\ left'[q] = <<KeyEnv>>
    BY <1>0, <1>10, TypesApart DEF Goto
  <2>2. Listed(Tail(left[q])) = {}
    <3>1. Len(left[q]) \in Nat /\ (Len(left[q]) <= 1 => Tail(left[q]) = <<>>)
      BY <1>0, RouteOf
    <3>2. Tail(left[q]) = <<>>
      BY <1>10, <3>1
    <3> QED BY <3>2, ListedSmall
  <2> QED BY <1>7, <1>8, <2>1, <2>2 DEF MendedBy, Applying, Verifying
<1>11. CASE left[q] = <<KeyEnv>> /\ Goto(q, "check rules")
  <2>1. at'[q] = "check rules"
    BY <1>0, <1>11, TypesApart DEF Goto
  <2>2. f = KeyEnv /\ Listed(left[q]) = {KeyEnv}
    BY <1>6, <1>11, Routes
  <2>3. Closed(KeyEnv)' /\ Single(KeyEnv)'
    BY <1>3, <1>8, <1>11, <2>2 DEF Single
  <2>4. \A e \in Listed(Protected) : Single(e)'
    BY <1>5, <1>6, <1>7, <2>2, Routes
  <2>5. \A e \in Envs : Closed(e)' /\ Single(e)'
    BY <1>8, <2>3, <2>4 DEF Envs
  <2> QED BY <1>7, <2>1, <2>5 DEF MendedBy, Applying, Verifying
<1> QED BY <1>9, <1>10, <1>11 DEF Converged, NextTarget

(* Nor does the verification find a blocker then.                          *)
LEMMA ChecksMend ==
    ASSUME ControlsTypeOK, Routed, NEW q \in Runs,
           CheckRules(q) \/ CheckSettings(q) \/ CheckPolicies(q), MendedBy(q)
    PROVE  MendedBy(q)'
<1>0. /\ at[q] \in Verifying \cup {"check rules"} /\ ruleset' = ruleset /\ envs' = envs
      /\ at[q] # "check rules" => at[q] \in Applying \cup Verifying
  BY DEF CheckRules, CheckSettings, CheckPolicies, Verifying, github
<1>1. ~blocked[q] /\ Demanded /\ \A e \in Envs : Closed(e) /\ Single(e)
  BY <1>0 DEF MendedBy
<1>2. Demanded' /\ \A e \in Envs : Closed(e)' /\ Single(e)'
  BY <1>0, <1>1 DEF Demanded, Closed, Single
<1>3. at'[q] \notin Applying
  BY TypesApart DEF CheckRules, CheckSettings, CheckPolicies, Goto, Applying
<1>4. ~blocked'[q] /\ (at'[q] = "check policies" => custom'[q])
  <2>1. CASE CheckRules(q)
    BY <1>1, <2>1, TypesApart, DemandedGood DEF CheckRules, Found, Goto
  <2>2. CASE CheckSettings(q)
    <3>1. PICK f \in Envs : f = First(q)
      BY <2>2, RouteOf DEF CheckSettings, Verifying
    <3>2. /\ IF f = KeyEnv THEN GoodEvidence(envs[f]) ELSE GoodReviewed(envs[f])
          /\ envs[f].custom
      BY <1>1, ClosedGood DEF Closed
    <3> QED BY <1>1, <2>2, <3>1, <3>2, TypesApart DEF CheckSettings, Found
  <2>3. CASE CheckPolicies(q)
    <3>1. PICK f \in Envs : f = First(q)
      BY <2>3, RouteOf DEF CheckPolicies, Verifying
    <3>2. at[q] = "check policies" /\ custom[q] = TRUE
      BY <2>3, TypesApart DEF CheckPolicies, MendedBy
    <3>3. MainOnly(custom[q], envs[f].policies)
      BY <1>1, <3>2, SingleGood
    <3>4. ~blocked'[q]
      BY <1>1, <2>3, <3>1, <3>3, TypesApart DEF CheckPolicies, Found
    <3>5. at'[q] # "check policies"
      BY <2>3, TypesApart DEF CheckPolicies, Goto
    <3> QED BY <3>4, <3>5
  <2> QED BY <2>1, <2>2, <2>3
<1> QED BY <1>2, <1>3, <1>4 DEF MendedBy, Applying

LEMMA RulesMend ==
    ASSUME ControlsTypeOK, NEW q \in Runs, ReadRules(q) \/ WriteRules(q), MendedBy(q)
    PROVE  MendedBy(q)'
<1>1. CASE ReadRules(q)
  <2>1. at'[q] \in {"failed", "write"} /\ ~blocked'[q]
    BY <1>1, TypesApart DEF ReadRules, Goto, MendedBy
  <2> QED BY <2>1 DEF MendedBy, Applying, Verifying
<1>2. CASE WriteRules(q)
  <2>1. at'[q] = "put" /\ left'[q] = Protected /\ ~blocked'[q]
    BY <1>2, TypesApart DEF WriteRules, Goto, MendedBy
  <2>2. Demanded'
    BY <1>2, TypesApart, HardenedDemands DEF WriteRules
  <2> QED BY <2>1, <2>2 DEF MendedBy, Applying, Verifying
<1> QED BY <1>1, <1>2

LEMMA StepMended ==
    ASSUME ControlsTypeOK, NextRunRepairs, Routed, Identified, Solitary, Mended,
           NEW q \in Runs, Proceed(q)
    PROVE  Mended' /\ NextRunRepairs'
<1>0. Others(q) /\ at[q] \in Busy /\ UNCHANGED <<meddled, overlapped>>
  BY ProceedsAlone
<1>1. Appliers \subseteq Runs
  BY SettingsAssumption DEF SettingsAssumption
<1>2. ASSUME q \in Appliers, ~meddled[q], ~overlapped[q] PROVE MendedBy(q)'
  <2>1. MendedBy(q)
    BY <1>0, <1>2 DEF Mended
  <2> QED BY <2>1, RulesMend, PutMends, ListMends, DeleteMends, ConvergedMends, ChecksMend
      DEF Proceed
<1>3. ASSUME NEW r \in Appliers, at'[r] \in Busy, ~meddled'[r], ~overlapped'[r]
      PROVE  MendedBy(r)'
  <2>1. r = q
    BY <1>0, <1>1, <1>3 DEF Others, Solitary
  <2> QED BY <1>0, <1>2, <1>3, <2>1
<1>4. ASSUME NEW r \in Appliers, at'[r] = "refused", ~meddled'[r], ~overlapped'[r]
      PROVE  FALSE
  <2>1. r = q
    BY <1>0, <1>1, <1>4 DEF Others, NextRunRepairs
  <2>2. at[q] # "refused"
    BY <1>0 DEF Busy
  <2>3. CheckPolicies(q) /\ blocked'[q]
    BY <1>4, <2>1, <2>2, TypesApart
    DEF Proceed, ReadRules, WriteRules, PutSettings, ListPolicies, DeletePolicy,
        Converged, NextTarget, CheckRules, CheckSettings, CheckPolicies, Goto
  <2>4. MendedBy(q)'
    BY <1>0, <1>2, <1>4, <2>1
  <2> QED BY <2>3, <2>4 DEF MendedBy
<1> QED BY <1>3, <1>4 DEF Mended, NextRunRepairs

-----------------------------------------------------------------------------
(* The invariant follows from the inductive one.                           *)
LEMMA ControlsSettle ==
    ASSUME ControlsIInv
    PROVE  ControlsInv
<1> SUFFICES ASSUME NEW r \in Runs, at[r] = "verified", ~meddled[r]
             PROVE  Demanded /\ \A e \in Envs : Shut(e) /\ Mains(envs[e].policies) # {}
  BY DEF ControlsIInv, ControlsInv, VerifiedHolds
<1>1. ~blocked[r] /\ left[r] = <<>>
  BY DEF ControlsIInv, Checked
<1>2. Demanded /\ \A e \in Envs \ Listed(left[r]) : Lasting(e)
  BY <1>1 DEF ControlsIInv, Checked
<1> QED BY <1>1, <1>2, ListedSmall DEF Lasting

LEMMA ProceedKeepsControls ==
    ASSUME ControlsIInv, NEW q \in Runs, Proceed(q)
    PROVE  ControlsIInv'
<1>1. ControlsTypeOK' /\ Routed'
  BY StepTyped, StepRouted DEF ControlsIInv
<1>2. Identified' /\ Spared'
  BY StepIdentified, StepSpared DEF ControlsIInv
<1>3. Reread' /\ Undisturbed' /\ Solitary'
  BY StepReread, StepCompany DEF ControlsIInv
<1>4. Checked'
  BY StepChecked DEF ControlsIInv
<1>5. Mended' /\ NextRunRepairs'
  BY StepMended DEF ControlsIInv
<1> QED BY <1>1, <1>2, <1>3, <1>4, <1>5 DEF ControlsIInv

LEMMA InitTyped ==
    ASSUME ControlsInit
    PROVE  ControlsTypeOK
<1>1. ruleset \in Rulesets \cup {NoRuleset} /\ NoRuleset \in Rulesets \cup {NoRuleset}
  BY RulesTypes DEF ControlsInit
<1>2. envs \in [Envs -> Environments]
  BY EnvironmentTypes DEF ControlsInit
<1>3. changes \in 0 .. MaxChanges /\ nextId \in 1 .. MaxId + 1
  BY SettingsAssumption DEF ControlsInit, SettingsAssumption
<1>4. at \in [Runs -> Stages] /\ left \in [Runs -> Seq(Envs)] /\ todo \in [Runs -> SUBSET Policies]
  <2>1. "unused" \in Stages /\ <<>> \in Seq(Envs) /\ {} \in SUBSET Policies
    BY SMT DEF Stages
  <2> QED BY <2>1 DEF ControlsInit
<1>5. seen \in [Runs -> Rulesets \cup {NoRuleset}]
  BY <1>1 DEF ControlsInit
<1>6. /\ custom \in [Runs -> BOOLEAN] /\ lacks \in [Runs -> BOOLEAN]
      /\ blocked \in [Runs -> BOOLEAN]
      /\ meddled \in [Runs -> BOOLEAN] /\ overlapped \in [Runs -> BOOLEAN]
  BY DEF ControlsInit
<1> QED BY <1>1, <1>2, <1>3, <1>4, <1>5, <1>6 DEF ControlsTypeOK

LEMMA InitControls ==
    ASSUME ControlsInit
    PROVE  ControlsIInv
<1>1. /\ nextId = 3 /\ envs \in [Envs -> {Absent, Wide, Doubled}]
      /\ \A r \in Runs : /\ at[r] = "unused" /\ todo[r] = {} /\ ~blocked[r]
  BY DEF ControlsInit
<1>2. Identified
  <2>1. \A e \in Envs : \A p \in envs[e].policies : p.id < 3
    BY <1>1 DEF Absent, Wide, Doubled
  <2>2. \A env \in {Absent, Wide, Doubled} : \A p, o \in env.policies : p.id = o.id => p = o
    <3>1. /\ \A p, o \in Absent.policies : p.id = o.id => p = o
          /\ \A p, o \in Wide.policies : p.id = o.id => p = o
      <4>1. Absent.policies = {} /\ Wide.policies = {[id |-> 1, main |-> FALSE]}
        BY DEF Absent, Wide
      <4> QED BY <4>1, Zenon
    <3>2. Doubled.policies = {[id |-> 1, main |-> TRUE], [id |-> 2, main |-> TRUE]}
      BY DEF Doubled
    <3>3. \A p, o \in Doubled.policies : p.id = o.id => p = o
      <4>1. \A p \in Doubled.policies : p = [id |-> p.id, main |-> TRUE]
        BY <3>2
      <4> QED BY <4>1, Zenon
    <3> QED BY <3>1, <3>3, Zenon
  <2> QED BY <1>1, <2>1, <2>2 DEF Identified
<1>3. Appliers \subseteq Runs
  BY SettingsAssumption DEF SettingsAssumption
<1>4. "unused" \notin Busy \cup Applying \cup Verifying \cup {"refused", "verified"}
  BY DEF Busy, Applying, Verifying
<1>5. NextRunRepairs
  BY <1>1, <1>3 DEF NextRunRepairs
<1>6. Undisturbed /\ Solitary
  BY <1>1, <1>4 DEF Undisturbed, Solitary
<1>7. Routed
  BY <1>1, <1>4 DEF Routed
<1>8. Spared /\ Reread
  BY <1>1 DEF Spared, Reread
<1>9. Checked
  BY <1>1, <1>4 DEF Checked
<1>10. Mended
  BY <1>1, <1>3, <1>4 DEF Mended
<1> QED BY <1>2, <1>5, <1>6, <1>7, <1>8, <1>9, <1>10, InitTyped DEF ControlsIInv

-----------------------------------------------------------------------------
(* A session begins, or dies.                                              *)
LEMMA BeginKeepsControls ==
    ASSUME ControlsIInv, NEW r \in Runs, BeginSession(r)
    PROVE  ControlsIInv'
<1> DEFINE first == IF r \in Appliers THEN "read" ELSE "check rules"
<1>0. ControlsTypeOK /\ Appliers \subseteq Runs
  BY SettingsAssumption DEF ControlsIInv, SettingsAssumption
<1>1. /\ at[r] = "unused" /\ at' = [at EXCEPT ![r] = first]
      /\ UNCHANGED <<changes, nextId, ruleset, envs, left, seen, custom, todo, lacks, blocked>>
      /\ overlapped' = [q \in Runs |-> \/ overlapped[q] \/ at[q] \in Busy
                                       \/ q = r /\ \E p \in Runs : at[p] \in Busy]
      /\ meddled' = [meddled EXCEPT ![r] = \E p \in Runs : at[p] \in Busy /\ meddled[p]]
  BY DEF BeginSession, Goto, github, session
<1>2. /\ at'[r] = first /\ \A q \in Runs : q # r => at'[q] = at[q]
      /\ meddled'[r] = (\E p \in Runs : at[p] \in Busy /\ meddled[p])
      /\ \A q \in Runs : q # r => meddled'[q] = meddled[q]
      /\ \A q \in Runs : overlapped[q] \/ at[q] \in Busy => overlapped'[q]
      /\ ~overlapped'[r] => \A p \in Runs : at[p] \notin Busy
  BY <1>0, <1>1, TypesApart
<1>3. /\ first \in Busy /\ first \in Stages
      /\ first \notin Applying \cup Verifying
                       \cup {"unused", "write", "verified", "refused", "failed"}
      /\ "unused" \notin Busy /\ "refused" \notin Busy
  BY DEF Busy, Stages, Applying, Verifying
<1> HIDE DEF first
<1>4. ControlsTypeOK'
  <2>1. at' \in [Runs -> Stages]
    BY <1>0, <1>1, <1>3, TypesApart
  <2>2. meddled' \in [Runs -> BOOLEAN] /\ overlapped' \in [Runs -> BOOLEAN]
    BY <1>0, <1>1, TypesApart
  <2> QED BY <1>0, <1>1, <2>1, <2>2, TypesApart DEF ControlsTypeOK
<1>5. Undisturbed'
  <2> SUFFICES ASSUME NEW s \in Runs, at'[s] # "unused", ~meddled'[s],
                      NEW q \in Runs, at'[q] \in Busy
               PROVE  ~meddled'[q]
    BY DEF Undisturbed
  <2>1. CASE s = r
    BY <1>2, <2>1
  <2>2. CASE s # r
    <3>1. \A p \in Runs : at[p] \in Busy => ~meddled[p]
      BY <1>2, <2>2 DEF ControlsIInv, Undisturbed
    <3> QED BY <1>2, <3>1
  <2> QED BY <2>1, <2>2
<1>6. Solitary'
  <2> SUFFICES ASSUME NEW s \in Runs, at'[s] \in Busy, ~overlapped'[s],
                      NEW q \in Runs, at'[q] \in Busy
               PROVE  q = s
    BY DEF Solitary
  <2>1. s = r
    BY <1>2
  <2> QED BY <1>2, <2>1
<1>7. Routed' /\ Identified'
  BY <1>1, <1>2, <1>3 DEF ControlsIInv, Routed, Identified
<1>8. Spared' /\ Reread'
  <2>1. "converge" \in Applying
    BY DEF Applying
  <2>2. \A s \in Runs : at'[s] \in {"converge", "write"} /\ ~meddled'[s] =>
           at'[s] = at[s] /\ ~meddled[s]
    BY <1>2, <1>3, <2>1
  <2>3. \A s \in Runs : First(s)' = First(s)
    BY <1>1 DEF First
  <2> QED BY <1>1, <2>2, <2>3 DEF ControlsIInv, Spared, Reread
<1>9. Checked'
  <2>1. \A s \in Runs : at'[s] \in Verifying \cup {"verified", "check policies"} =>
           at'[s] = at[s] /\ meddled'[s] = meddled[s]
    BY <1>2, <1>3 DEF Verifying
  <2> SUFFICES ASSUME NEW s \in Runs,
                      at'[s] \in Verifying \cup {"verified", "check policies"}
               PROVE  /\ at'[s] = "verified" => ~blocked'[s] /\ left'[s] = <<>>
                      /\ ~meddled'[s] /\ ~blocked'[s] =>
                            /\ Demanded' /\ \A e \in Envs \ Listed(left'[s]) : Lasting(e)'
                            /\ at'[s] = "check policies" /\ custom'[s] => Closed(First(s))'
    BY DEF Checked
  <2>2. Demanded => Demanded'
    BY <1>1 DEF Demanded
  <2>3. \A e \in Envs : Lasting(e) => Lasting(e)'
    BY <1>1 DEF Lasting, Shut
  <2>4. Closed(First(s)) => Closed(First(s))'
    BY <1>1 DEF Closed, First
  <2>5. /\ at[s] = "verified" => ~blocked[s] /\ left[s] = <<>>
        /\ ~meddled[s] /\ ~blocked[s] =>
              /\ Demanded /\ \A e \in Envs \ Listed(left[s]) : Lasting(e)
              /\ at[s] = "check policies" /\ custom[s] => Closed(First(s))
    BY <2>1 DEF ControlsIInv, Checked, Verifying
  <2> QED BY <1>1, <2>1, <2>2, <2>3, <2>4, <2>5
<1>10. NextRunRepairs'
  BY <1>0, <1>2, <1>3 DEF ControlsIInv, NextRunRepairs
<1>11. Mended'
  <2> SUFFICES ASSUME NEW s \in Appliers, at'[s] \in Busy, ~overlapped'[s]
               PROVE  MendedBy(s)'
    BY DEF Mended
  <2>1. s = r
    BY <1>0, <1>2
  <2>2. ~blocked'[r] /\ at'[r] = "read"
    BY <1>1, <1>2, <2>1 DEF ControlsIInv, Routed, first
  <2> QED BY <2>1, <2>2 DEF MendedBy, Applying, Verifying
<1> QED BY <1>4, <1>5, <1>6, <1>7, <1>8, <1>9, <1>10, <1>11 DEF ControlsIInv

LEMMA DieKeepsControls ==
    ASSUME ControlsIInv, NEW r \in Runs, Die(r)
    PROVE  ControlsIInv'
<1>0. ControlsTypeOK /\ Appliers \subseteq Runs
  BY SettingsAssumption DEF ControlsIInv, SettingsAssumption
<1>1. /\ at[r] \in Busy /\ at' = [at EXCEPT ![r] = "failed"]
      /\ UNCHANGED <<changes, nextId, ruleset, envs, left, seen, custom, todo, lacks, blocked,
                     meddled, overlapped>>
  BY DEF Die, Goto, github, session, history
<1>2. at'[r] = "failed" /\ \A q \in Runs : q # r => at'[q] = at[q]
  BY <1>0, <1>1, TypesApart
<1>3. /\ "failed" \in Stages
      /\ "failed" \notin Busy \cup Applying \cup Verifying
                          \cup {"unused", "write", "verified", "refused"}
      /\ "unused" \notin Busy
  BY DEF Busy, Stages, Applying, Verifying
<1>4. \A s \in Runs : at'[s] # "failed" => at'[s] = at[s]
  BY <1>2
<1>5. \A s \in Runs : at'[s] # "unused" => at[s] # "unused"
  BY <1>1, <1>2, <1>3
<1>6. ControlsTypeOK'
  <2>1. at' \in [Runs -> Stages]
    BY <1>0, <1>1, <1>3, TypesApart
  <2> QED BY <1>0, <1>1, <2>1, TypesApart DEF ControlsTypeOK
<1>7. Undisturbed' /\ Solitary'
  BY <1>1, <1>3, <1>4, <1>5 DEF ControlsIInv, Undisturbed, Solitary
<1>8. Routed' /\ Identified'
  BY <1>1, <1>3, <1>4 DEF ControlsIInv, Routed, Identified
<1>9. Spared' /\ Reread'
  <2>1. \A s \in Runs : First(s)' = First(s)
    BY <1>1 DEF First
  <2> QED BY <1>1, <1>4, <2>1 DEF ControlsIInv, Spared, Reread
<1>10. Checked'
  <2>1. \A s \in Runs : at'[s] \in Verifying \cup {"verified", "check policies"} =>
           at'[s] = at[s]
    BY <1>3, <1>4 DEF Verifying
  <2> SUFFICES ASSUME NEW s \in Runs,
                      at'[s] \in Verifying \cup {"verified", "check policies"}
               PROVE  /\ at'[s] = "verified" => ~blocked'[s] /\ left'[s] = <<>>
                      /\ ~meddled'[s] /\ ~blocked'[s] =>
                            /\ Demanded' /\ \A e \in Envs \ Listed(left'[s]) : Lasting(e)'
                            /\ at'[s] = "check policies" /\ custom'[s] => Closed(First(s))'
    BY DEF Checked
  <2>2. Demanded => Demanded'
    BY <1>1 DEF Demanded
  <2>3. \A e \in Envs : Lasting(e) => Lasting(e)'
    BY <1>1 DEF Lasting, Shut
  <2>4. Closed(First(s)) => Closed(First(s))'
    BY <1>1 DEF Closed, First
  <2>5. /\ at[s] = "verified" => ~blocked[s] /\ left[s] = <<>>
        /\ ~meddled[s] /\ ~blocked[s] =>
              /\ Demanded /\ \A e \in Envs \ Listed(left[s]) : Lasting(e)
              /\ at[s] = "check policies" /\ custom[s] => Closed(First(s))
    BY <2>1 DEF ControlsIInv, Checked, Verifying
  <2> QED BY <1>1, <2>1, <2>2, <2>3, <2>4, <2>5
<1>11. NextRunRepairs'
  BY <1>0, <1>1, <1>4 DEF ControlsIInv, NextRunRepairs
<1>12. Mended'
  <2> SUFFICES ASSUME NEW s \in Appliers, at'[s] \in Busy, ~meddled'[s], ~overlapped'[s]
               PROVE  MendedBy(s)'
    BY DEF Mended
  <2>1. at'[s] = at[s] /\ s \in Runs
    BY <1>0, <1>3, <1>4
  <2>2. MendedBy(s)
    BY <1>1, <2>1 DEF ControlsIInv, Mended
  <2> QED BY <1>1, <2>1, <2>2 DEF MendedBy, Demanded, Closed, Single, Sorting, First
<1> QED BY <1>6, <1>7, <1>8, <1>9, <1>10, <1>11, <1>12 DEF ControlsIInv


-----------------------------------------------------------------------------
(* Somebody changes a control by hand: no session counts on it after that. *)
LEMMA ByHandParts ==
    ASSUME ControlsTypeOK, Administrator
    PROVE  /\ changes' \in 0 .. MaxChanges
           /\ UNCHANGED <<at, left, seen, custom, todo, lacks, blocked, overlapped>>
           /\ meddled' = [r \in Runs |-> meddled[r] \/ at[r] # "unused"]
<1>1. ByHand
  BY DEF Administrator, ChangeRules, ChangeSettings, ChangePolicies
<1> QED BY <1>1, ControlsAssumption DEF ByHand, session, ControlsTypeOK, ControlsAssumption

LEMMA ByHandTyped ==
    ASSUME ControlsTypeOK, Identified, Administrator
    PROVE  /\ nextId' \in 1 .. MaxId + 1 /\ nextId' >= nextId
           /\ ruleset' \in Rulesets \cup {NoRuleset}
           /\ envs' \in [Envs -> Environments]
           /\ \A e \in Envs : \A p \in envs'[e].policies :
                 \/ p \in envs[e].policies
                 \/ p.id = nextId /\ nextId' = nextId + 1
                    /\ \A o \in envs'[e].policies : p = o \/ o \in envs[e].policies
<1>0. nextId \in 1 .. MaxId + 1 /\ MaxId \in Nat /\ nextId \in Nat
  BY SettingsAssumption, Ids DEF ControlsTypeOK, SettingsAssumption
<1>1. CASE ChangeRules
  <2>1. UNCHANGED <<nextId, envs>>
    BY <1>1 DEF ChangeRules
  <2>2. ruleset \in Rulesets => [ruleset EXCEPT !.active = FALSE] \in Rulesets
    BY DEF Rulesets
  <2>3. ruleset' \in Rulesets \cup {NoRuleset}
    BY <1>1, <2>2, RulesTypes, TypesApart DEF ChangeRules
  <2> QED BY <1>0, <2>1, <2>3, TypesApart
<1>2. CASE ChangeSettings
  <2>1. UNCHANGED <<nextId, ruleset>>
    BY <1>2 DEF ChangeSettings
  <2>2. PICK e \in Envs :
           \/ envs' = [envs EXCEPT ![e] = Absent]
           \/ envs' = [envs EXCEPT ![e] = [Wide EXCEPT !.policies = {}]]
           \/ envs' = [envs EXCEPT ![e].reviewers = @ \cup {Other}]
    BY <1>2 DEF ChangeSettings
  <2>3. [envs[e] EXCEPT !.reviewers = @ \cup {Other}] \in Environments
    BY EnvironmentTypes, TypesApart
  <2>4. envs' \in [Envs -> Environments]
    BY <2>2, <2>3, EnvironmentTypes, TypesApart
  <2>5. \A d \in Envs : envs'[d].policies \subseteq envs[d].policies
    <3>1. \A d \in Envs : d # e => envs'[d] = envs[d]
      BY <2>2, TypesApart
    <3>2. envs'[e].policies \subseteq envs[e].policies
      <4>1. Absent.policies = {} /\ [Wide EXCEPT !.policies = {}].policies = {}
        BY DEF Absent, Wide
      <4>2. [envs[e] EXCEPT !.reviewers = @ \cup {Other}].policies = envs[e].policies
        BY TypesApart DEF Environments
      <4>3. \/ envs'[e] = Absent
            \/ envs'[e] = [Wide EXCEPT !.policies = {}]
            \/ envs'[e] = [envs[e] EXCEPT !.reviewers = @ \cup {Other}]
        BY <2>2, TypesApart
      <4> QED BY <4>1, <4>2, <4>3
    <3> QED BY <3>1, <3>2
  <2> QED BY <1>0, <2>1, <2>4, <2>5, TypesApart
<1>3. CASE ChangePolicies
  <2>1. ruleset' = ruleset
    BY <1>3 DEF ChangePolicies
  <2>2. PICK e \in Envs :
           \/ /\ nextId <= MaxId /\ nextId' = nextId + 1
              /\ \E main \in BOOLEAN :
                    envs' = [envs EXCEPT ![e].policies =
                                @ \cup {[id |-> nextId, main |-> main]}]
           \/ /\ \E p \in envs[e].policies :
                    envs' = [envs EXCEPT ![e].policies = @ \ {p}]
              /\ UNCHANGED nextId
    BY <1>3 DEF ChangePolicies
  <2>3. envs[e].policies \subseteq Policies /\ envs[e] \in Environments
    BY TypesApart DEF Environments
  <2>4. CASE /\ nextId <= MaxId /\ nextId' = nextId + 1
             /\ \E main \in BOOLEAN :
                   envs' = [envs EXCEPT ![e].policies =
                               @ \cup {[id |-> nextId, main |-> main]}]
    <3>1. PICK new \in Policies : /\ new.id = nextId
                                  /\ envs' = [envs EXCEPT ![e].policies = @ \cup {new}]
      <4>1. PICK main \in BOOLEAN :
               envs' = [envs EXCEPT ![e].policies = @ \cup {[id |-> nextId, main |-> main]}]
        BY <2>4
      <4>2. [id |-> nextId, main |-> main] \in Policies
        BY <1>0, <2>4 DEF Policies
      <4> QED BY <4>1, <4>2
    <3>2. /\ envs' \in [Envs -> Environments]
          /\ envs'[e].policies = envs[e].policies \cup {new}
          /\ \A d \in Envs : d # e => envs'[d] = envs[d]
      <4>1. [envs[e] EXCEPT !.policies = @ \cup {new}] \in Environments
        BY <2>3, EnvironmentTypes
      <4> QED BY <3>1, <2>3, <4>1, TypesApart DEF Environments
    <3> QED BY <1>0, <2>1, <2>4, <3>1, <3>2, TypesApart
  <2>5. CASE /\ \E p \in envs[e].policies :
                   envs' = [envs EXCEPT ![e].policies = @ \ {p}]
             /\ UNCHANGED nextId
    <3>1. PICK old \in envs[e].policies : envs' = [envs EXCEPT ![e].policies = @ \ {old}]
      BY <2>5
    <3>2. /\ envs' \in [Envs -> Environments]
          /\ envs'[e].policies = envs[e].policies \ {old}
          /\ \A d \in Envs : d # e => envs'[d] = envs[d]
      <4>1. [envs[e] EXCEPT !.policies = @ \ {old}] \in Environments
        BY <2>3, EnvironmentTypes
      <4> QED BY <3>1, <2>3, <4>1, TypesApart DEF Environments
    <3> QED BY <1>0, <2>1, <2>5, <3>2, TypesApart
  <2> QED BY <2>2, <2>4, <2>5
<1> QED BY <1>1, <1>2, <1>3 DEF Administrator

LEMMA AdministratorKeepsControls ==
    ASSUME ControlsIInv, Administrator
    PROVE  ControlsIInv'
<1>0. ControlsTypeOK /\ Identified /\ Appliers \subseteq Runs
  BY SettingsAssumption DEF ControlsIInv, SettingsAssumption
<1>1. /\ changes' \in 0 .. MaxChanges
      /\ UNCHANGED <<at, left, seen, custom, todo, lacks, blocked, overlapped>>
      /\ meddled' = [r \in Runs |-> meddled[r] \/ at[r] # "unused"]
  BY <1>0, ByHandParts
<1>2. /\ meddled' \in [Runs -> BOOLEAN]
      /\ \A r \in Runs : ~meddled'[r] => ~meddled[r] /\ at[r] = "unused"
  BY <1>0, <1>1, TypesApart
<1>3. "unused" \notin Busy \cup Applying \cup Verifying \cup {"verified", "refused", "write"}
  BY DEF Busy, Applying, Verifying
<1>4. ControlsTypeOK'
  BY <1>0, <1>1, <1>2, ByHandTyped, TypesApart DEF ControlsTypeOK
<1>5. Identified'
  <2>1. nextId' >= nextId /\ nextId \in Nat /\ nextId' \in Nat
    BY <1>0, ByHandTyped, Ids, SettingsAssumption DEF SettingsAssumption
  <2>2. ASSUME NEW e \in Envs, NEW p \in envs'[e].policies
        PROVE  /\ p.id < nextId'
               /\ \A o \in envs'[e].policies : p.id = o.id => p = o
    <3>1. CASE p \in envs[e].policies
      <4>1. p.id < nextId /\ p.id \in Nat
        BY <1>0, <3>1, Ids DEF Identified
      <4>2. ASSUME NEW o \in envs'[e].policies, p.id = o.id PROVE p = o
        <5>1. o \in envs[e].policies
          BY <1>0, <4>1, <4>2, <2>1, ByHandTyped
        <5> QED BY <1>0, <3>1, <4>2, <5>1 DEF Identified
      <4> QED BY <2>1, <4>1, <4>2
    <3>2. CASE p \notin envs[e].policies
      <4>1. /\ p.id = nextId /\ nextId' = nextId + 1
            /\ \A o \in envs'[e].policies : p = o \/ o \in envs[e].policies
        BY <1>0, <3>2, ByHandTyped
      <4>2. \A o \in envs[e].policies : o.id < nextId /\ o.id \in Nat
        BY <1>0, Ids DEF Identified
      <4>3. \A o \in envs'[e].policies : p.id = o.id => p = o
        BY <2>1, <4>1, <4>2
      <4> QED BY <2>1, <4>1, <4>3
    <3> QED BY <3>1, <3>2
  <2>3. \A r \in Runs : \A p \in todo'[r] : p.id < nextId'
    BY <1>0, <1>1, <2>1, Ids DEF Identified
  <2> QED BY <2>2, <2>3 DEF Identified
<1>6. Undisturbed'
  BY <1>1, <1>2 DEF Undisturbed
<1>7. Solitary' /\ Routed'
  BY <1>1 DEF ControlsIInv, Solitary, Routed
<1>8. Spared' /\ Reread'
  BY <1>1, <1>2, <1>3 DEF Spared, Reread
<1>9. Checked'
  <2>1. \A r \in Runs : at'[r] = "verified" => ~blocked'[r] /\ left'[r] = <<>>
    BY <1>1 DEF ControlsIInv, Checked
  <2>2. \A r \in Runs : ~meddled'[r] =>
           at'[r] \notin Verifying \cup {"verified", "check policies"}
    BY <1>1, <1>2, <1>3 DEF Verifying
  <2> QED BY <2>1, <2>2 DEF Checked
<1>10. Mended' /\ NextRunRepairs'
  <2>1. Mended'
    BY <1>0, <1>1, <1>2, <1>3 DEF Mended
  <2>2. NextRunRepairs'
    BY <1>0, <1>1, <1>2, <1>3 DEF NextRunRepairs
  <2> QED BY <2>1, <2>2
<1> QED BY <1>4, <1>5, <1>6, <1>7, <1>8, <1>9, <1>10 DEF ControlsIInv

LEMMA StutterKeepsControls ==
    ASSUME ControlsIInv, UNCHANGED controlsVars
    PROVE  ControlsIInv'
<1>1. UNCHANGED <<changes, nextId, ruleset, envs, at, left, seen, custom, todo, lacks, blocked,
                  meddled, overlapped>>
  BY DEF controlsVars, github, session, history
<1>2. ControlsTypeOK' /\ NextRunRepairs' /\ Undisturbed' /\ Solitary'
  <2>1. ControlsTypeOK'
    BY <1>1 DEF ControlsIInv, ControlsTypeOK
  <2>2. NextRunRepairs'
    BY <1>1 DEF ControlsIInv, NextRunRepairs
  <2>3. Undisturbed' /\ Solitary'
    BY <1>1 DEF ControlsIInv, Undisturbed, Solitary
  <2> QED BY <2>1, <2>2, <2>3
<1>3. Routed' /\ Identified' /\ Spared' /\ Reread'
  BY <1>1 DEF ControlsIInv, Routed, Identified, Spared, Reread, First
<1>4. Checked'
  BY <1>1 DEF ControlsIInv, Checked, Demanded, Lasting, Shut, Closed, First
<1>5. Mended'
  <2>1. Appliers \subseteq Runs
    BY SettingsAssumption DEF SettingsAssumption
  <2> SUFFICES ASSUME NEW r \in Appliers, at'[r] \in Busy, ~meddled'[r], ~overlapped'[r]
               PROVE  MendedBy(r)'
    BY DEF Mended
  <2>2. MendedBy(r)
    BY <1>1 DEF ControlsIInv, Mended
  <2> QED BY <1>1, <2>1, <2>2 DEF MendedBy, Demanded, Closed, Single, Sorting, First
<1> QED BY <1>2, <1>3, <1>4, <1>5 DEF ControlsIInv

LEMMA StepKeepsControls ==
    ASSUME ControlsIInv, [ControlsNext]_controlsVars
    PROVE  ControlsIInv'
<1>1. CASE \E r \in Runs : BeginSession(r) \/ Proceed(r) \/ Die(r)
  BY <1>1, BeginKeepsControls, ProceedKeepsControls, DieKeepsControls
<1>2. CASE Administrator
  BY <1>2, AdministratorKeepsControls
<1>3. CASE UNCHANGED controlsVars
  BY <1>3, StutterKeepsControls
<1> QED BY <1>1, <1>2, <1>3 DEF ControlsNext

-----------------------------------------------------------------------------
(* Every session, whatever others do beside it, settles what it verified,  *)
(* and one that is alone and undisturbed repairs whatever it finds.        *)
THEOREM ControlsInvariant == ControlsSpec => []ControlsInv
<1>1. ControlsInit => ControlsIInv
  BY InitControls
<1>2. ControlsIInv /\ [ControlsNext]_controlsVars => ControlsIInv'
  BY StepKeepsControls
<1>3. ControlsIInv => ControlsInv
  BY ControlsSettle
<1> QED BY <1>1, <1>2, <1>3, PTL DEF ControlsSpec

(* No step of a session loosens the controls: none of them opens what was  *)
(* reserved to a reviewer, and none gives up a stronger rule.              *)
THEOREM ControlsTighten == ControlsSpec => OnlyTightens
<1>1. ControlsInit => ControlsIInv
  BY InitControls
<1>2. ControlsIInv /\ [ControlsNext]_controlsVars => ControlsIInv'
  BY StepKeepsControls
<1>3. ControlsIInv /\ ControlsNext => OpensNothing /\ KeepsStronger
  <2> SUFFICES ASSUME ControlsIInv PROVE OpensNothing /\ KeepsStronger
    OBVIOUS
  <2>1. OpensNothing
    <3> SUFFICES ASSUME NEW r \in Runs, Proceed(r), NEW e \in Envs
                 PROVE  /\ Shut(e) => Shut(e)'
                        /\ Mains(envs[e].policies) # {} /\ ~meddled[r] /\ envs[e].custom
                             => Mains(envs'[e].policies) # {}
      BY DEF OpensNothing
    <3> QED BY ShutStays, MainStays DEF ControlsIInv
  <2>2. KeepsStronger
    <3> SUFFICES ASSUME NEW r \in Runs, WriteRules(r), ~meddled[r], ruleset # NoRuleset
                 PROVE  /\ ruleset.contexts \subseteq ruleset'.contexts
                        /\ ruleset.reviews <= ruleset'.reviews
                        /\ ruleset.more => ruleset'.more
      BY DEF KeepsStronger
    <3>1. ruleset' = HardenedRules(ruleset)
      BY DEF WriteRules, ControlsIInv, Reread
    <3>2. ruleset.reviews \in Nat
      BY TypesApart DEF ControlsIInv, Rulesets
    <3>3. /\ ruleset'.contexts = Required \cup ruleset.contexts
          /\ ruleset'.reviews = Reviews(ruleset)
          /\ ruleset'.more = (ruleset # NoRuleset /\ ruleset.more)
      BY <3>1 DEF HardenedRules
    <3>4. ruleset.reviews <= Reviews(ruleset)
      BY <3>2 DEF Reviews
    <3> QED BY <3>3, <3>4
  <2> QED BY <2>1, <2>2
<1> QED BY <1>1, <1>2, <1>3, PTL DEF ControlsSpec, OnlyTightens

-----------------------------------------------------------------------------
(* The environments of scheduled drift.  A session goes through services,  *)
(* or through drift environments, and writes to missing ones only.         *)
Visiting == {"look", "policies"}
Creating == {"create", "list", "post"}

DriftRouted ==
    \A r \in Runs :
        /\ driftAt[r] \in Visiting \cup Creating => driftLeft[r] # <<>>
        /\ driftAt[r] \in Visiting =>
              \/ Listed(driftLeft[r]) \subseteq Listed(Services)
              \/ Listed(driftLeft[r]) \subseteq Listed(Drift)
        /\ driftAt[r] \in Creating =>
              created[r] /\ Listed(driftLeft[r]) \subseteq missing[r]
        /\ driftAt[r] = "inventory" => ~created[r]
        /\ r \notin Appliers /\ ~driftBlocked[r] => missing[r] = {}

(* While nobody else writes, what exists is tight,                         *)
Tight(e) ==
    /\ driftEnvs[e].exists /\ driftEnvs[e].custom
    /\ \A p \in driftEnvs[e].policies : p.main

Untouched ==
    ~driftMeddled =>
        /\ \A e \in Listed(Services) : driftEnvs[e] = Ready(e)
        /\ \A e \in Listed(Drift) : driftEnvs[e] = Absent \/ Tight(e)

(* and what was looked at and found good stays so.                         *)
Settled(e) == Tight(e) /\ Mains(driftEnvs[e].policies) # {}

Surveyed ==
    ~driftMeddled => \A r \in Runs :
        /\ driftAt[r] = "verified" => \A e \in Listed(Drift) : Settled(e)
        /\ driftAt[r] \in Visiting /\ ~driftBlocked[r] =>
              \/ Listed(driftLeft[r]) \subseteq Listed(Services)
              \/ \A e \in Listed(Drift) \ Listed(driftLeft[r]) :
                    Settled(e) \/ (~created[r] /\ e \in missing[r])

DriftIInv == DriftTypeOK /\ DriftRouted /\ Untouched /\ Surveyed

-----------------------------------------------------------------------------
(* What a session goes through.                                            *)
LEMMA DriftRoutes ==
    /\ Services \in Seq(DriftEnvs) /\ Services # <<>>
    /\ Drift \in Seq(DriftEnvs) /\ Drift # <<>>
    /\ Listed(Services) \subseteq DriftEnvs /\ Listed(Drift) \subseteq DriftEnvs
    /\ Listed(Services) \cap Listed(Drift) = {}
    /\ Listed(Drift) # {}
<1>1. /\ Services \in Seq(Listed(Services)) /\ Services # <<>>
      /\ Drift \in Seq(Listed(Drift)) /\ Drift # <<>>
      /\ Listed(Services) \cap Listed(Drift) = {}
  BY DriftAssumption DEF DriftAssumption
<1>2. Listed(Services) \subseteq DriftEnvs /\ Listed(Drift) \subseteq DriftEnvs
  BY DEF DriftEnvs
<1>3. Services \in Seq(DriftEnvs) /\ Drift \in Seq(DriftEnvs)
  BY <1>1, <1>2, SMT
<1>4. Listed(Drift) # {}
  BY <1>1, ListedParts
<1> QED BY <1>1, <1>2, <1>3, <1>4

LEMMA InOrderParts ==
    ASSUME NEW some \in SUBSET Listed(Drift), NEW s \in InOrder(some)
    PROVE  s \in Seq(DriftEnvs) /\ Listed(s) = some /\ (some # {} => s # <<>>)
<1>1. PICK n \in 0 .. Len(Drift) : s \in [1 .. n -> some]
  BY DEF InOrder
<1>2. n \in Nat
  BY <1>1, DriftRoutes, SMT
<1>3. s \in Seq(some)
  BY <1>1, <1>2, SMT
<1>4. s \in Seq(DriftEnvs)
  BY <1>3, DriftRoutes, SMT
<1>5. Listed(s) = some
  BY DEF InOrder
<1> QED BY <1>4, <1>5, ListedSmall

LEMMA DriftRouteOf ==
    ASSUME DriftTypeOK, DriftRouted, NEW q \in Runs, driftAt[q] \in Visiting \cup Creating
    PROVE  /\ driftLeft[q] \in Seq(DriftEnvs) /\ driftLeft[q] # <<>>
           /\ Visited(q) \in DriftEnvs /\ Visited(q) \in Listed(driftLeft[q])
           /\ Tail(driftLeft[q]) \in Seq(DriftEnvs)
           /\ Listed(driftLeft[q]) = {Visited(q)} \cup Listed(Tail(driftLeft[q]))
           /\ Len(driftLeft[q]) \in Nat \ {0}
           /\ Len(driftLeft[q]) > 1 => Tail(driftLeft[q]) # <<>>
           /\ Len(driftLeft[q]) <= 1 => Tail(driftLeft[q]) = <<>>
<1>1. driftLeft[q] \in Seq(DriftEnvs) /\ driftLeft[q] # <<>>
  BY DEF DriftTypeOK, DriftRouted
<1> QED BY <1>1, ListedParts DEF Visited

LEMMA DriftTypes ==
    DriftTypeOK <=>
        /\ tampers \in 0 .. MaxTampers /\ driftId \in 1 .. MaxId + 1
        /\ driftEnvs \in [DriftEnvs -> Environments]
        /\ driftAt \in [Runs -> DriftStages]
        /\ driftLeft \in [Runs -> Seq(DriftEnvs)]
        /\ missing \in [Runs -> SUBSET Listed(Drift)]
        /\ driftCustom \in [Runs -> BOOLEAN] /\ created \in [Runs -> BOOLEAN]
        /\ driftBlocked \in [Runs -> BOOLEAN] /\ driftMeddled \in BOOLEAN
BY DEF DriftTypeOK

LEMMA ReadyTypes ==
    ASSUME NEW e
    PROVE  /\ Ready(e) \in Environments
           /\ [Ready(e) EXCEPT !.reviewers = {Other}] \in Environments
           /\ [Ready(e) EXCEPT !.custom = FALSE, !.policies = {}] \in Environments
<1>1. {[id |-> 1, main |-> TRUE]} \in SUBSET Policies
  BY SettingsAssumption DEF Policies, SettingsAssumption
<1>2. /\ (IF e \in Listed(Services) THEN {Reviewer} ELSE {}) \in SUBSET {Reviewer, Other}
      /\ (e \in Listed(Services)) \in BOOLEAN
  OBVIOUS
<1>3. Ready(e) \in Environments
  BY <1>1, <1>2 DEF Ready, Environments
<1>4. \A env \in Environments : [env EXCEPT !.reviewers = {Other}] \in Environments
  BY DEF Environments
<1>5. \A env \in Environments :
         [env EXCEPT !.custom = FALSE, !.policies = {}] \in Environments
  BY DEF Environments
<1> QED BY <1>3, <1>4, <1>5

LEMMA DriftGoesTo ==
    ASSUME driftAt \in [Runs -> DriftStages], NEW q \in Runs, NEW s \in DriftStages,
           DriftGoto(q, s)
    PROVE  driftAt' \in [Runs -> DriftStages] /\ driftAt'[q] = s
BY DEF DriftGoto

-----------------------------------------------------------------------------
(* A session's step is its own, and writes to a missing environment only.  *)
DriftOthers(q) ==
    \A r \in Runs \ {q} :
        /\ driftAt'[r] = driftAt[r] /\ driftLeft'[r] = driftLeft[r]
        /\ driftCustom'[r] = driftCustom[r] /\ missing'[r] = missing[r]
        /\ created'[r] = created[r] /\ driftBlocked'[r] = driftBlocked[r]

LEMMA DriftAlone ==
    ASSUME DriftTypeOK, NEW q \in Runs, ProceedDrift(q)
    PROVE  DriftOthers(q) /\ UNCHANGED <<tampers, driftMeddled>>
<1> USE DriftTypes DEF DriftOthers, DriftGoto, GoThrough, Unseen
<1>1. CASE Look(q)
  BY <1>1 DEF Look
<1>2. CASE LookPolicies(q)
  BY <1>2 DEF LookPolicies, AfterServices, AfterDrift, Verdict
<1>3. CASE Inventory(q)
  BY <1>3 DEF Inventory
<1>4. CASE Create(q) \/ ListNew(q) \/ Post(q)
  BY <1>4 DEF Create, ListNew, Post
<1> QED BY <1>1, <1>2, <1>3, <1>4 DEF ProceedDrift

Made(e, q) ==
    /\ driftAt[q] = "create" /\ e \in missing[q]
    /\ driftEnvs'[e] = Put(driftEnvs[e], FALSE)

Opened(e, q) ==
    /\ driftAt[q] = "post" /\ e \in missing[q] /\ driftEnvs[e].custom
    /\ driftEnvs'[e] = [driftEnvs[e] EXCEPT !.policies =
                           @ \cup {[id |-> driftId, main |-> TRUE]}]

LEMMA DriftWrites ==
    ASSUME DriftTypeOK, DriftRouted, NEW q \in Runs, ProceedDrift(q)
    PROVE  /\ driftEnvs' \in [DriftEnvs -> Environments] /\ driftId' \in 1 .. MaxId + 1
           /\ \A e \in DriftEnvs :
                 driftEnvs'[e] = driftEnvs[e] \/ Made(e, q) \/ Opened(e, q)
<1>0. /\ driftEnvs \in [DriftEnvs -> Environments] /\ driftId \in 1 .. MaxId + 1
      /\ MaxId \in Nat
  BY DriftTypes, SettingsAssumption DEF SettingsAssumption
<1>1. ASSUME driftAt[q] \in Creating
      PROVE  Visited(q) \in DriftEnvs /\ Visited(q) \in missing[q]
  BY <1>1, DriftRouteOf DEF DriftRouted
<1>2. CASE UNCHANGED <<driftEnvs, driftId>>
  BY <1>0, <1>2
<1>3. CASE Create(q)
  <2>1. PICK f \in DriftEnvs : f = Visited(q) /\ f \in missing[q]
    BY <1>1, <1>3 DEF Create, Creating
  <2>2. /\ driftEnvs' = [driftEnvs EXCEPT ![f] = Put(@, FALSE)] /\ driftId' = driftId
        /\ driftAt[q] = "create"
    BY <1>3, <2>1 DEF Create
  <2>3. Put(driftEnvs[f], FALSE) \in Environments
    BY <1>0, EnvironmentTypes
  <2> QED BY <1>0, <2>1, <2>2, <2>3 DEF Made
<1>4. CASE Post(q) /\ ~UNCHANGED <<driftEnvs, driftId>>
  <2>1. PICK f \in DriftEnvs : f = Visited(q) /\ f \in missing[q]
    BY <1>1, <1>4 DEF Post, Creating
  <2> DEFINE new == [id |-> driftId, main |-> TRUE]
  <2>2. /\ driftEnvs' = [driftEnvs EXCEPT ![f].policies = @ \cup {new}]
        /\ driftId <= MaxId /\ driftId' = driftId + 1 /\ driftEnvs[f].custom
        /\ driftAt[q] = "post"
    BY <1>4, <2>1 DEF Post
  <2>3. new \in Policies
    BY <1>0, <2>2 DEF Policies
  <2>4. driftEnvs[f].policies \cup {new} \in SUBSET Policies
    BY <1>0, <2>3 DEF Environments
  <2> HIDE DEF new
  <2>5. [driftEnvs[f] EXCEPT !.policies = @ \cup {new}] \in Environments
    BY <1>0, <2>4, EnvironmentTypes
  <2>6. /\ driftEnvs'[f] = [driftEnvs[f] EXCEPT !.policies = @ \cup {new}]
        /\ \A e \in DriftEnvs : e # f => driftEnvs'[e] = driftEnvs[e]
        /\ driftEnvs' \in [DriftEnvs -> Environments]
    BY <1>0, <2>2, <2>5
  <2>7. Opened(f, q)
    BY <2>1, <2>2, <2>6 DEF Opened, new
  <2>8. driftId' \in 1 .. MaxId + 1
    BY <1>0, <2>2
  <2> QED BY <2>6, <2>7, <2>8
<1> QED BY <1>2, <1>3, <1>4
    DEF ProceedDrift, Look, LookPolicies, Inventory, ListNew

LEMMA TightStays ==
    ASSUME DriftTypeOK, DriftRouted, NEW q \in Runs, ProceedDrift(q),
           NEW e \in DriftEnvs, Tight(e)
    PROVE  Tight(e)' /\ driftEnvs[e].policies \subseteq driftEnvs'[e].policies
<1>0. driftEnvs[e] \in Environments
  BY DriftTypes
<1>1. CASE driftEnvs'[e] = driftEnvs[e]
  BY <1>1 DEF Tight
<1>2. CASE Made(e, q)
  BY <1>0, <1>2, PutFields DEF Made, Tight
<1>3. CASE Opened(e, q)
  <2>1. /\ driftEnvs'[e].exists = driftEnvs[e].exists
        /\ driftEnvs'[e].custom = driftEnvs[e].custom
        /\ driftEnvs'[e].policies =
              driftEnvs[e].policies \cup {[id |-> driftId, main |-> TRUE]}
    BY <1>0, <1>3 DEF Opened, Environments
  <2> QED BY <2>1 DEF Tight
<1> QED BY <1>1, <1>2, <1>3, DriftWrites

LEMMA SettledStays ==
    ASSUME DriftTypeOK, DriftRouted, NEW q \in Runs, ProceedDrift(q),
           NEW e \in DriftEnvs, Settled(e)
    PROVE  Settled(e)'
BY TightStays DEF Settled, Mains

LEMMA StepUntouched ==
    ASSUME DriftTypeOK, DriftRouted, Untouched, NEW q \in Runs, ProceedDrift(q)
    PROVE  Untouched'
<1> SUFFICES ASSUME ~driftMeddled
             PROVE  /\ \A e \in Listed(Services) : driftEnvs'[e] = Ready(e)
                    /\ \A e \in Listed(Drift) : driftEnvs'[e] = Absent \/ Tight(e)'
  BY DriftAlone DEF Untouched
<1>1. missing[q] \subseteq Listed(Drift)
  BY DriftTypes
<1>2. ASSUME NEW e \in Listed(Services) PROVE driftEnvs'[e] = Ready(e)
  BY <1>1, DriftWrites, DriftRoutes DEF Made, Opened, Untouched
<1>3. ASSUME NEW e \in Listed(Drift) PROVE driftEnvs'[e] = Absent \/ Tight(e)'
  <2>0. e \in DriftEnvs /\ driftEnvs[e] \in Environments
    BY DriftRoutes, DriftTypes
  <2>1. CASE Tight(e)
    BY <2>0, <2>1, TightStays
  <2>2. CASE driftEnvs[e] = Absent
    <3>1. ~driftEnvs[e].custom
      BY <2>2 DEF Absent
    <3>2. ~Opened(e, q)
      BY <3>1 DEF Opened
    <3>3. Made(e, q) => Tight(e)'
      BY <2>0, <3>1, PutFields DEF Made, Tight
    <3> QED BY <2>0, <2>2, <3>2, <3>3, DriftWrites
  <2> QED BY <2>1, <2>2 DEF Untouched
<1> QED BY <1>2, <1>3

LEMMA DriftStages1 ==
    \A s \in {"look", "policies", "inventory", "create", "list", "post", "verified",
              "refused", "failed", "unused"} : s \in DriftStages
BY DEF DriftStages, DriftBusy

(* Where a step leads: what a session goes through next, and where it is.  *)
LEMMA GoesThrough ==
    ASSUME DriftTypeOK, NEW q \in Runs, NEW some \in SUBSET Listed(Drift),
           NEW s \in DriftStages, GoThrough(q, some, s)
    PROVE  /\ driftLeft' \in [Runs -> Seq(DriftEnvs)] /\ Listed(driftLeft'[q]) = some
           /\ some # {} => driftLeft'[q] # <<>>
           /\ driftAt' \in [Runs -> DriftStages] /\ driftAt'[q] = s
<1>1. PICK way \in InOrder(some) : driftLeft' = [driftLeft EXCEPT ![q] = way]
  BY DEF GoThrough
<1>2. way \in Seq(DriftEnvs) /\ Listed(way) = some /\ (some # {} => way # <<>>)
  BY InOrderParts
<1> QED BY <1>1, <1>2, DriftTypes, DriftGoesTo DEF GoThrough

(* The last look at an environment, and what follows it.                   *)
LEMMA LookedAt ==
    ASSUME DriftTypeOK, DriftRouted, NEW q \in Runs, LookPolicies(q)
    PROVE  /\ driftBlocked' \in [Runs -> BOOLEAN] /\ driftLeft' \in [Runs -> Seq(DriftEnvs)]
           /\ driftAt' \in [Runs -> DriftStages] /\ created' \in [Runs -> BOOLEAN]
           /\ ~driftBlocked'[q] =>
                 ~driftBlocked[q] /\ Mains(driftEnvs[Visited(q)].policies) # {}
           /\ \/ /\ Listed(driftLeft[q]) = {Visited(q)} \cup Listed(driftLeft'[q])
                 /\ driftLeft'[q] # <<>> /\ driftAt'[q] = "look" /\ created'[q] = created[q]
              \/ /\ driftLeft'[q] = Drift /\ driftAt'[q] = "look"
              \/ /\ driftAt'[q] = "inventory" /\ ~created'[q]
              \/ /\ driftLeft'[q] = Services /\ driftAt'[q] = "look"
              \/ /\ Listed(driftLeft'[q]) = missing[q] /\ driftLeft'[q] # <<>>
                 /\ driftAt'[q] = "create" /\ created'[q]
              \/ driftAt'[q] = "refused"
              \/ /\ driftAt'[q] = "verified" /\ ~driftBlocked'[q]
                 /\ q \notin Appliers \/ created[q]
                 /\ Listed(driftLeft[q]) = {Visited(q)}
                 /\ Visited(q) \notin Listed(Services)
<1>1. /\ driftAt[q] = "policies" /\ Visited(q) \in DriftEnvs
      /\ Tail(driftLeft[q]) \in Seq(DriftEnvs)
      /\ Listed(driftLeft[q]) = {Visited(q)} \cup Listed(Tail(driftLeft[q]))
      /\ Len(driftLeft[q]) \in Nat \ {0}
      /\ Len(driftLeft[q]) > 1 => Tail(driftLeft[q]) # <<>>
      /\ Len(driftLeft[q]) <= 1 => Tail(driftLeft[q]) = <<>>
  BY DriftRouteOf DEF LookPolicies, Visiting
<1> DEFINE sound == MainOnly(driftCustom[q], driftEnvs[Visited(q)].policies)
<1>2. driftBlocked' = [driftBlocked EXCEPT ![q] = @ \/ ~sound]
  BY DEF LookPolicies
<1>3. /\ driftBlocked' \in [Runs -> BOOLEAN]
      /\ ~driftBlocked'[q] => ~driftBlocked[q] /\ sound
  BY <1>2, DriftTypes
<1>4. sound => Mains(driftEnvs[Visited(q)].policies) # {}
  BY OneIsThere
<1> HIDE DEF sound
<1> DEFINE
  Typed == /\ driftLeft' \in [Runs -> Seq(DriftEnvs)]
           /\ driftAt' \in [Runs -> DriftStages] /\ created' \in [Runs -> BOOLEAN]
  Way == \/ /\ Listed(driftLeft[q]) = {Visited(q)} \cup Listed(driftLeft'[q])
            /\ driftLeft'[q] # <<>> /\ driftAt'[q] = "look" /\ created'[q] = created[q]
         \/ /\ driftLeft'[q] = Drift /\ driftAt'[q] = "look"
         \/ /\ driftAt'[q] = "inventory" /\ ~created'[q]
         \/ /\ driftLeft'[q] = Services /\ driftAt'[q] = "look"
         \/ /\ Listed(driftLeft'[q]) = missing[q] /\ driftLeft'[q] # <<>>
            /\ driftAt'[q] = "create" /\ created'[q]
         \/ driftAt'[q] = "refused"
         \/ /\ driftAt'[q] = "verified" /\ ~driftBlocked'[q]
            /\ q \notin Appliers \/ created[q]
            /\ Listed(driftLeft[q]) = {Visited(q)}
            /\ Visited(q) \notin Listed(Services)
<1> SUFFICES Typed /\ Way
  BY <1>3, <1>4
<1>5. CASE Len(driftLeft[q]) > 1
  <2>1. /\ DriftGoto(q, "look") /\ driftLeft' = [driftLeft EXCEPT ![q] = Tail(@)]
        /\ created' = created
    <3>1. ~(1 > 1)
      OBVIOUS
    <3>2. Len(driftLeft[q]) # 1
      BY <1>5, <3>1, Zenon
    <3> QED BY <1>5, <3>2, Zenon DEF LookPolicies
  <2>2. driftAt' \in [Runs -> DriftStages] /\ driftAt'[q] = "look"
    BY <2>1, DriftTypes, DriftGoesTo, DriftStages1
  <2>3. driftLeft' \in [Runs -> Seq(DriftEnvs)] /\ driftLeft'[q] = Tail(driftLeft[q])
    BY <1>1, <2>1, DriftTypes
  <2> QED BY <1>1, <1>5, <2>1, <2>2, <2>3, DriftTypes
<1>6. CASE Len(driftLeft[q]) = 1 /\ Visited(q) \in Listed(Services)
  <2>1. AfterServices(q) /\ created' = created
    <3>1. ~(1 > 1)
      OBVIOUS
    <3>2. ~(Len(driftLeft[q]) > 1)
      BY <1>6, <3>1, Zenon
    <3> QED BY <1>6, <3>2, Zenon DEF LookPolicies
  <2>2. CASE created[q]
    <3>1. DriftGoto(q, "look") /\ driftLeft' = [driftLeft EXCEPT ![q] = Drift]
      BY <2>1, <2>2 DEF AfterServices
    <3>2. driftAt' \in [Runs -> DriftStages] /\ driftAt'[q] = "look"
      BY <3>1, DriftTypes, DriftGoesTo, DriftStages1
    <3> QED BY <2>1, <3>1, <3>2, DriftTypes, DriftRoutes
  <2>3. CASE ~created[q]
    <3>1. DriftGoto(q, "inventory") /\ driftLeft' = driftLeft
      BY <2>1, <2>3 DEF AfterServices
    <3>2. driftAt' \in [Runs -> DriftStages] /\ driftAt'[q] = "inventory"
      BY <3>1, DriftTypes, DriftGoesTo, DriftStages1
    <3> QED BY <2>1, <2>3, <3>1, <3>2, DriftTypes
  <2> QED BY <2>2, <2>3
<1>7. CASE ~(Len(driftLeft[q]) > 1) /\ ~(Len(driftLeft[q]) = 1 /\ Visited(q) \in Listed(Services))
  <2>1. AfterDrift(q)
    BY <1>7 DEF LookPolicies
  <2>2. /\ Tail(driftLeft[q]) = <<>> /\ Len(driftLeft[q]) = 1
        /\ Visited(q) \notin Listed(Services)
    <3>1. \A n \in Nat \ {0} : ~(n > 1) => n = 1 /\ n <= 1
      OBVIOUS
    <3>2. Len(driftLeft[q]) = 1 /\ Len(driftLeft[q]) <= 1
      BY <1>1, <1>7, <3>1, Zenon
    <3> QED BY <1>1, <1>7, <3>2, Zenon
  <2>3. Listed(driftLeft[q]) = {Visited(q)}
    BY <1>1, <2>2, ListedSmall
  <2>4. CASE q \in Appliers /\ ~created[q] /\ ~driftBlocked'[q]
    <3>1. created' = [created EXCEPT ![q] = TRUE]
      BY <2>1, <2>4 DEF AfterDrift
    <3>2. created' \in [Runs -> BOOLEAN] /\ created'[q]
      BY <3>1, DriftTypes
    <3>3. CASE missing[q] # {}
      <4>1. GoThrough(q, missing[q], "create")
        BY <2>1, <2>4, <3>3 DEF AfterDrift
      <4> QED BY <3>2, <3>3, <4>1, GoesThrough, DriftTypes, DriftStages1
    <3>4. CASE missing[q] = {}
      <4>1. DriftGoto(q, "look") /\ driftLeft' = [driftLeft EXCEPT ![q] = Services]
        BY <2>1, <2>4, <3>4 DEF AfterDrift
      <4>2. driftAt' \in [Runs -> DriftStages] /\ driftAt'[q] = "look"
        BY <4>1, DriftTypes, DriftGoesTo, DriftStages1
      <4> QED BY <3>2, <4>1, <4>2, DriftTypes, DriftRoutes
    <3> QED BY <3>3, <3>4
  <2>5. CASE ~(q \in Appliers /\ ~created[q] /\ ~driftBlocked'[q])
    <3>1. Verdict(q) /\ UNCHANGED <<driftLeft, created>>
      BY <2>1, <2>5 DEF AfterDrift
    <3>2. CASE driftBlocked'[q]
      <4>1. driftAt' \in [Runs -> DriftStages] /\ driftAt'[q] = "refused"
        BY <3>1, <3>2, DriftTypes, DriftGoesTo, DriftStages1 DEF Verdict
      <4> QED BY <3>1, <4>1, DriftTypes
    <3>3. CASE ~driftBlocked'[q]
      <4>1. driftAt' \in [Runs -> DriftStages] /\ driftAt'[q] = "verified"
        BY <3>1, <3>3, DriftTypes, DriftGoesTo, DriftStages1 DEF Verdict
      <4> QED BY <2>2, <2>3, <2>5, <3>1, <3>3, <4>1, DriftTypes
    <3> QED BY <3>2, <3>3
  <2> QED BY <2>4, <2>5
<1> QED BY <1>5, <1>6, <1>7

LEMMA Inventoried ==
    ASSUME DriftTypeOK, DriftRouted, NEW q \in Runs, Inventory(q)
    PROVE  /\ missing' \in [Runs -> SUBSET Listed(Drift)]
           /\ driftBlocked' \in [Runs -> BOOLEAN] /\ driftLeft' \in [Runs -> Seq(DriftEnvs)]
           /\ driftAt' \in [Runs -> DriftStages] /\ created' \in [Runs -> BOOLEAN]
           /\ ~driftBlocked'[q] /\ q \notin Appliers => missing'[q] = {}
           /\ \/ /\ Listed(driftLeft'[q]) = Listed(Drift) \ missing'[q]
                 /\ driftLeft'[q] # <<>> /\ driftAt'[q] = "look" /\ ~created'[q]
              \/ /\ Listed(driftLeft'[q]) = missing'[q]
                 /\ driftLeft'[q] # <<>> /\ driftAt'[q] = "create" /\ created'[q]
              \/ driftAt'[q] = "refused"
<1>1. /\ missing' = [missing EXCEPT ![q] = {e \in Listed(Drift) : ~driftEnvs[e].exists}]
      /\ driftBlocked' =
            [driftBlocked EXCEPT ![q] = @ \/ (q \notin Appliers /\ missing'[q] # {})]
      /\ ~created[q] /\ Present(q) = Listed(Drift) \ missing'[q]
  BY DEF Inventory, DriftRouted, Present
<1>2. /\ missing' \in [Runs -> SUBSET Listed(Drift)] /\ missing'[q] \subseteq Listed(Drift)
      /\ driftBlocked' \in [Runs -> BOOLEAN]
      /\ ~driftBlocked'[q] /\ q \notin Appliers => missing'[q] = {}
  BY <1>1, DriftTypes
<1>3. CASE Present(q) # {}
  <2>1. GoThrough(q, Present(q), "look") /\ created' = created
    BY <1>3 DEF Inventory
  <2>2. Present(q) \in SUBSET Listed(Drift)
    BY <1>1
  <2> QED BY <1>1, <1>2, <1>3, <2>1, <2>2, GoesThrough, DriftTypes, DriftStages1
<1>4. CASE Present(q) = {} /\ q \in Appliers /\ ~driftBlocked[q]
  <2>1. GoThrough(q, Listed(Drift), "create") /\ created' = [created EXCEPT ![q] = TRUE]
    BY <1>4 DEF Inventory
  <2>2. Listed(Drift) = missing'[q]
    BY <1>1, <1>2, <1>4
  <2>3. created' \in [Runs -> BOOLEAN] /\ created'[q]
    BY <2>1, DriftTypes
  <2> QED BY <1>2, <2>1, <2>2, <2>3, GoesThrough, DriftStages1, DriftRoutes
<1>5. CASE Present(q) = {} /\ ~(q \in Appliers /\ ~driftBlocked[q])
  <2>1. DriftGoto(q, "refused") /\ UNCHANGED <<driftLeft, created>>
    BY <1>5 DEF Inventory
  <2>2. driftAt' \in [Runs -> DriftStages] /\ driftAt'[q] = "refused"
    BY <2>1, DriftTypes, DriftGoesTo, DriftStages1
  <2> QED BY <1>2, <2>1, <2>2, DriftTypes
<1> QED BY <1>3, <1>4, <1>5

(* The other steps: a look at the settings, and a creation call by call.   *)
LEMMA LookedFirst ==
    ASSUME DriftTypeOK, DriftRouted, NEW q \in Runs, Look(q)
    PROVE  /\ driftAt[q] = "look" /\ driftAt'[q] = "policies"
           /\ driftAt' \in [Runs -> DriftStages] /\ driftBlocked' \in [Runs -> BOOLEAN]
           /\ driftCustom' \in [Runs -> BOOLEAN]
           /\ ~driftBlocked'[q] => ~driftBlocked[q]
           /\ UNCHANGED <<driftLeft, missing, created>>
<1>1. driftEnvs[Visited(q)].custom \in BOOLEAN
  BY DriftRouteOf, DriftTypes DEF Look, Visiting, Environments
<1>2. DriftGoto(q, "policies") /\ driftAt[q] = "look"
  BY DEF Look
<1>3. driftAt' \in [Runs -> DriftStages] /\ driftAt'[q] = "policies"
  BY <1>2, DriftTypes, DriftGoesTo, DriftStages1
<1>4. driftCustom' \in [Runs -> BOOLEAN]
  BY <1>1, DriftTypes DEF Look
<1>5. PICK good \in BOOLEAN : driftBlocked' = [driftBlocked EXCEPT ![q] = @ \/ ~good]
  <2>1. (IF Visited(q) \in Listed(Services) THEN GoodReviewed(driftEnvs[Visited(q)])
                                           ELSE GoodDrift(driftEnvs[Visited(q)])) \in BOOLEAN
    BY DEF GoodReviewed, GoodDrift
  <2> QED BY <2>1 DEF Look
<1> QED BY <1>2, <1>3, <1>4, <1>5, DriftTypes DEF Look

LEMMA Created ==
    ASSUME DriftTypeOK, DriftRouted, NEW q \in Runs, Create(q) \/ ListNew(q) \/ Post(q)
    PROVE  /\ driftAt' \in [Runs -> DriftStages] /\ driftLeft' \in [Runs -> Seq(DriftEnvs)]
           /\ driftAt[q] \in Creating
              /\ UNCHANGED <<missing, created, driftBlocked, driftCustom>>
           /\ \/ driftAt'[q] \in {"list", "post"} /\ driftLeft'[q] = driftLeft[q]
              \/ /\ driftAt'[q] = "create" /\ driftLeft'[q] # <<>>
                 /\ Listed(driftLeft'[q]) \subseteq Listed(driftLeft[q])
              \/ driftAt'[q] = "look" /\ driftLeft'[q] = Services
              \/ driftAt'[q] = "failed"
<1>0. driftAt[q] \in Creating /\ UNCHANGED <<missing, created, driftBlocked, driftCustom>>
  BY DEF Create, ListNew, Post, Creating
<1>1. CASE Create(q)
  <2>1. DriftGoto(q, "list") /\ driftLeft' = driftLeft
    BY <1>1 DEF Create
  <2> QED BY <1>0, <2>1, DriftTypes, DriftGoesTo, DriftStages1
<1>2. CASE ListNew(q)
  <2>1. (DriftGoto(q, "post") \/ DriftGoto(q, "failed")) /\ driftLeft' = driftLeft
    BY <1>2 DEF ListNew
  <2> QED BY <1>0, <2>1, DriftTypes, DriftGoesTo, DriftStages1
<1>3. CASE Post(q) /\ Len(driftLeft[q]) > 1
  <2>1. DriftGoto(q, "create") /\ driftLeft' = [driftLeft EXCEPT ![q] = Tail(@)]
    BY <1>3 DEF Post
  <2>2. /\ Tail(driftLeft[q]) \in Seq(DriftEnvs) /\ Tail(driftLeft[q]) # <<>>
        /\ Listed(Tail(driftLeft[q])) \subseteq Listed(driftLeft[q])
    BY <1>0, <1>3, DriftRouteOf
  <2>3. driftAt' \in [Runs -> DriftStages] /\ driftAt'[q] = "create"
    BY <2>1, DriftTypes, DriftGoesTo, DriftStages1
  <2>4. driftLeft' \in [Runs -> Seq(DriftEnvs)] /\ driftLeft'[q] = Tail(driftLeft[q])
    BY <2>1, <2>2, DriftTypes
  <2> QED BY <1>0, <2>2, <2>3, <2>4
<1>4. CASE Post(q) /\ ~(Len(driftLeft[q]) > 1)
  <2>1. DriftGoto(q, "look") /\ driftLeft' = [driftLeft EXCEPT ![q] = Services]
    BY <1>4 DEF Post
  <2>2. driftAt' \in [Runs -> DriftStages] /\ driftAt'[q] = "look"
    BY <2>1, DriftTypes, DriftGoesTo, DriftStages1
  <2> QED BY <1>0, <2>1, <2>2, DriftTypes, DriftRoutes
<1> QED BY <1>1, <1>2, <1>3, <1>4

-----------------------------------------------------------------------------
(* Every step keeps the parts of the invariant.                            *)
LEMMA DriftStepTyped ==
    ASSUME DriftTypeOK, DriftRouted, NEW q \in Runs, ProceedDrift(q)
    PROVE  DriftTypeOK'
<1>0. /\ driftEnvs' \in [DriftEnvs -> Environments] /\ driftId' \in 1 .. MaxId + 1
      /\ UNCHANGED <<tampers, driftMeddled>>
  BY DriftWrites, DriftAlone
<1>1. CASE Look(q)
  BY <1>0, <1>1, LookedFirst, DriftTypes DEF DriftTypeOK
<1>2. CASE LookPolicies(q)
  <2>1. UNCHANGED <<missing, driftCustom>>
    BY <1>2 DEF LookPolicies
  <2> QED BY <1>0, <1>2, <2>1, LookedAt, DriftTypes DEF DriftTypeOK
<1>3. CASE Inventory(q)
  <2>1. UNCHANGED driftCustom
    BY <1>3 DEF Inventory
  <2> QED BY <1>0, <1>3, <2>1, Inventoried, DriftTypes DEF DriftTypeOK
<1>4. CASE Create(q) \/ ListNew(q) \/ Post(q)
  BY <1>0, <1>4, Created, DriftTypes DEF DriftTypeOK
<1> QED BY <1>1, <1>2, <1>3, <1>4 DEF ProceedDrift

LEMMA DriftStepRouted ==
    ASSUME DriftTypeOK, DriftRouted, NEW q \in Runs, ProceedDrift(q)
    PROVE  DriftRouted'
<1> DEFINE Way(r) ==
      /\ driftAt[r] \in Visiting \cup Creating => driftLeft[r] # <<>>
      /\ driftAt[r] \in Visiting =>
            \/ Listed(driftLeft[r]) \subseteq Listed(Services)
            \/ Listed(driftLeft[r]) \subseteq Listed(Drift)
      /\ driftAt[r] \in Creating =>
            created[r] /\ Listed(driftLeft[r]) \subseteq missing[r]
      /\ driftAt[r] = "inventory" => ~created[r]
      /\ r \notin Appliers /\ ~driftBlocked[r] => missing[r] = {}
<1>0. \A r \in Runs : Way(r)
  BY DEF DriftRouted
<1> SUFFICES Way(q)'
  <2>1. ASSUME NEW r \in Runs, r # q PROVE Way(r)'
    BY <1>0, <2>1, DriftAlone DEF DriftOthers
  <2> QED BY <2>1 DEF DriftRouted
<1> USE DEF Visiting, Creating
<1>1. CASE Look(q)
  BY <1>0, <1>1, LookedFirst
<1>2. CASE LookPolicies(q)
  <2>1. missing' = missing /\ driftAt[q] = "policies"
    BY <1>2 DEF LookPolicies
  <2> QED BY <1>0, <1>2, <2>1, LookedAt, DriftRoutes
<1>3. CASE Inventory(q)
  <2>1. \/ /\ Listed(driftLeft'[q]) \subseteq Listed(Drift) /\ driftLeft'[q] # <<>>
           /\ driftAt'[q] = "look"
        \/ /\ Listed(driftLeft'[q]) = missing'[q]
           /\ driftLeft'[q] # <<>> /\ driftAt'[q] = "create" /\ created'[q]
        \/ driftAt'[q] = "refused"
    BY <1>3, Inventoried
  <2> QED BY <1>3, <2>1, Inventoried
<1>4. CASE Create(q) \/ ListNew(q) \/ Post(q)
  BY <1>0, <1>4, Created, DriftRoutes
<1> QED BY <1>1, <1>2, <1>3, <1>4 DEF ProceedDrift

LEMMA StepSurveyed ==
    ASSUME DriftTypeOK, DriftRouted, Untouched, Surveyed, NEW q \in Runs, ProceedDrift(q)
    PROVE  Surveyed'
<1> SUFFICES ASSUME ~driftMeddled, NEW r \in Runs
             PROVE  /\ driftAt'[r] = "verified" => \A e \in Listed(Drift) : Settled(e)'
                    /\ driftAt'[r] \in Visiting /\ ~driftBlocked'[r] =>
                          \/ Listed(driftLeft'[r]) \subseteq Listed(Services)
                          \/ \A e \in Listed(Drift) \ Listed(driftLeft'[r]) :
                                Settled(e)' \/ (~created'[r] /\ e \in missing'[r])
  BY DriftAlone DEF Surveyed
<1> USE DEF Visiting
<1>1. \A e \in Listed(Drift) : Settled(e) => Settled(e)'
  BY SettledStays, DriftRoutes
<1>2. /\ driftAt[r] = "verified" => \A e \in Listed(Drift) : Settled(e)
      /\ driftAt[r] \in Visiting /\ ~driftBlocked[r] =>
            \/ Listed(driftLeft[r]) \subseteq Listed(Services)
            \/ \A e \in Listed(Drift) \ Listed(driftLeft[r]) :
                  Settled(e) \/ (~created[r] /\ e \in missing[r])
  BY DEF Surveyed
<1>3. CASE r # q
  BY <1>1, <1>2, <1>3, DriftAlone DEF DriftOthers
<1>4. CASE r = q /\ Look(q)
  BY <1>1, <1>2, <1>4, LookedFirst
<1>5. CASE r = q /\ LookPolicies(q)
  <2>1. driftAt[q] = "policies" /\ missing' = missing
    BY <1>5 DEF LookPolicies
  <2>2. Visited(q) \in Listed(driftLeft[q])
    BY <2>1, DriftRouteOf
  <2>3. ASSUME ~driftBlocked'[q], Visited(q) \in Listed(Drift)
        PROVE  Settled(Visited(q))
    <3>1. PICK f \in Listed(Drift) : f = Visited(q)
      BY <2>3
    <3>2. Mains(driftEnvs[f].policies) # {}
      BY <1>5, <2>3, <3>1, LookedAt
    <3>3. driftEnvs[f] # Absent
      BY <3>2 DEF Absent, Mains
    <3> QED BY <3>1, <3>2, <3>3 DEF Untouched, Settled
  <2>4. CASE /\ Listed(driftLeft[q]) = {Visited(q)} \cup Listed(driftLeft'[q])
             /\ driftLeft'[q] # <<>> /\ driftAt'[q] = "look" /\ created'[q] = created[q]
    <3>1. ASSUME ~driftBlocked'[q]
          PROVE  \/ Listed(driftLeft'[q]) \subseteq Listed(Services)
                 \/ \A e \in Listed(Drift) \ Listed(driftLeft'[q]) :
                       Settled(e) \/ (~created[q] /\ e \in missing[q])
      <4>1. ~driftBlocked[q]
        BY <1>5, <3>1, LookedAt
      <4> QED BY <1>2, <1>5, <2>1, <2>3, <2>4, <3>1, <4>1
    <3> QED BY <1>1, <1>5, <2>1, <2>4, <3>1
  <2>5. CASE driftLeft'[q] \in {Drift, Services} /\ driftAt'[q] = "look"
    BY <1>5, <2>5
  <2>6. CASE driftAt'[q] \in {"inventory", "create", "refused"}
    BY <1>5, <2>6
  <2>7. CASE /\ driftAt'[q] = "verified" /\ ~driftBlocked'[q]
             /\ q \notin Appliers \/ created[q]
             /\ Listed(driftLeft[q]) = {Visited(q)}
             /\ Visited(q) \notin Listed(Services)
    <3>1. ~driftBlocked[q]
      BY <1>5, <2>7, LookedAt
    <3>2. created[q] \/ missing[q] = {}
      BY <2>7, <3>1 DEF DriftRouted
    <3>3. \A e \in Listed(Drift) : Settled(e)
      BY <1>2, <1>5, <2>1, <2>3, <2>7, <3>1, <3>2
    <3> QED BY <1>1, <1>5, <2>7, <3>3
  <2> QED BY <1>5, <2>4, <2>5, <2>6, <2>7, LookedAt
<1>6. CASE r = q /\ Inventory(q)
  BY <1>6, Inventoried
<1>7. CASE r = q /\ (Create(q) \/ ListNew(q) \/ Post(q))
  BY <1>7, Created
<1> QED BY <1>3, <1>4, <1>5, <1>6, <1>7 DEF ProceedDrift

LEMMA DriftSettles ==
    ASSUME DriftIInv
    PROVE  DriftInv
<1>1. BornShut
  <2> SUFFICES ASSUME ~driftMeddled, NEW e \in Listed(Drift), driftEnvs[e].exists
               PROVE  driftEnvs[e].custom /\ \A p \in driftEnvs[e].policies : p.main
    BY DEF BornShut
  <2>1. ~Absent.exists
    BY DEF Absent
  <2> QED BY <2>1 DEF DriftIInv, Untouched, Tight
<1>2. DriftVerifiedHolds
  BY DEF DriftIInv, DriftVerifiedHolds, Untouched, Surveyed, Settled, Tight
<1> QED BY <1>1, <1>2 DEF DriftIInv, DriftInv

LEMMA InitDrift ==
    ASSUME DriftInit
    PROVE  DriftIInv
<1>1. PICK there \in SUBSET Listed(Drift) :
         driftEnvs = [e \in DriftEnvs |->
                        IF e \in Listed(Drift) \ there THEN Absent ELSE Ready(e)]
  BY DEF DriftInit
<1>2. /\ driftId = 2 /\ tampers \in 0 .. MaxTampers /\ driftMeddled = FALSE
      /\ driftAt = [r \in Runs |-> "unused"] /\ driftLeft = [r \in Runs |-> <<>>]
      /\ missing = [r \in Runs |-> {}]
      /\ driftCustom = [r \in Runs |-> FALSE]
      /\ created = driftCustom /\ driftBlocked = driftCustom
  BY DEF DriftInit
<1>3. DriftTypeOK
  <2>1. driftId \in 1 .. MaxId + 1
    BY <1>2, SettingsAssumption DEF SettingsAssumption
  <2>2. driftEnvs \in [DriftEnvs -> Environments]
    BY <1>1, EnvironmentTypes, ReadyTypes
  <2>3. "unused" \in DriftStages /\ <<>> \in Seq(DriftEnvs)
    BY DriftStages1, SMT
  <2> QED BY <1>2, <2>1, <2>2, <2>3 DEF DriftTypeOK
<1>4. DriftRouted
  BY <1>2 DEF DriftRouted, Visiting, Creating
<1>5. Surveyed
  BY <1>2 DEF Surveyed, Visiting
<1>6. Untouched
  <2>1. \A e \in Listed(Services) : driftEnvs[e] = Ready(e)
    BY <1>1, DriftRoutes
  <2>2. ASSUME NEW e \in Listed(Drift) PROVE driftEnvs[e] = Absent \/ Tight(e)
    <3>1. driftEnvs[e] = Absent \/ driftEnvs[e] = Ready(e)
      BY <1>1, DriftRoutes
    <3>2. driftEnvs[e] = Ready(e) => Tight(e)
      BY DEF Tight, Ready
    <3> QED BY <3>1, <3>2
  <2> QED BY <2>1, <2>2 DEF Untouched
<1> QED BY <1>3, <1>4, <1>5, <1>6 DEF DriftIInv


(* A session begins, or dies; somebody changes an environment by hand.     *)
LEMMA AsideKeepsDrift ==
    ASSUME DriftIInv, NEW r \in Runs, BeginDrift(r) \/ DieDrift(r)
    PROVE  DriftIInv'
<1>0. DriftTypeOK
  BY DEF DriftIInv
<1>1. UNCHANGED <<tampers, driftMeddled, driftId, driftEnvs, driftCustom, missing, created,
                  driftBlocked>>
  BY DEF BeginDrift, DieDrift, driftSession, Unseen
<1>2. /\ driftAt' \in [Runs -> DriftStages] /\ driftLeft' \in [Runs -> Seq(DriftEnvs)]
      /\ \A q \in Runs : q # r => driftAt'[q] = driftAt[q] /\ driftLeft'[q] = driftLeft[q]
      /\ \/ driftAt'[r] = "look" /\ driftLeft'[r] = Services
         \/ driftAt'[r] = "failed"
  <2>1. CASE BeginDrift(r)
    <3>1. DriftGoto(r, "look") /\ driftLeft' = [driftLeft EXCEPT ![r] = Services]
      BY <2>1 DEF BeginDrift
    <3>2. driftAt' \in [Runs -> DriftStages] /\ driftAt'[r] = "look"
      BY <1>0, <3>1, DriftTypes, DriftGoesTo, DriftStages1
    <3> QED BY <1>0, <3>1, <3>2, DriftTypes, DriftRoutes DEF DriftGoto
  <2>2. CASE DieDrift(r)
    <3>1. DriftGoto(r, "failed") /\ driftLeft' = driftLeft
      BY <2>2 DEF DieDrift, driftSession
    <3>2. driftAt' \in [Runs -> DriftStages] /\ driftAt'[r] = "failed"
      BY <1>0, <3>1, DriftTypes, DriftGoesTo, DriftStages1
    <3> QED BY <1>0, <3>1, <3>2, DriftTypes DEF DriftGoto
  <2> QED BY <2>1, <2>2
<1>3. DriftTypeOK'
  BY <1>0, <1>1, <1>2, DriftTypes DEF DriftTypeOK
<1>4. DriftRouted'
  BY <1>1, <1>2, DriftRoutes DEF DriftIInv, DriftRouted, Visiting, Creating
<1>5. Untouched'
  BY <1>1 DEF DriftIInv, Untouched, Tight
<1>6. Surveyed'
  <2>1. \A e \in Listed(Drift) : Settled(e)' = Settled(e)
    BY <1>1 DEF Settled, Tight
  <2> QED BY <1>1, <1>2, <2>1 DEF DriftIInv, Surveyed, Visiting
<1> QED BY <1>3, <1>4, <1>5, <1>6 DEF DriftIInv

LEMMA TamperKeepsDrift ==
    ASSUME DriftIInv, Tamper
    PROVE  DriftIInv'
<1>1. /\ tampers' \in 0 .. MaxTampers /\ driftMeddled' = TRUE
      /\ UNCHANGED <<driftId, driftAt, driftLeft, driftCustom, missing, created, driftBlocked>>
  BY DriftAssumption DEF Tamper, driftSession, DriftIInv, DriftTypeOK, DriftAssumption
<1>2. driftEnvs' \in [DriftEnvs -> Environments]
  <2>1. driftEnvs \in [DriftEnvs -> Environments]
    BY DEF DriftIInv, DriftTypeOK
  <2>2. PICK e \in DriftEnvs :
           \/ driftEnvs' = [driftEnvs EXCEPT ![e] = Absent]
           \/ driftEnvs' = [driftEnvs EXCEPT ![e] = [Ready(e) EXCEPT !.reviewers = {Other}]]
           \/ driftEnvs' = [driftEnvs EXCEPT ![e] =
                               [Ready(e) EXCEPT !.custom = FALSE, !.policies = {}]]
    BY DEF Tamper
  <2>3. /\ Absent \in Environments
        /\ [Ready(e) EXCEPT !.reviewers = {Other}] \in Environments
        /\ [Ready(e) EXCEPT !.custom = FALSE, !.policies = {}] \in Environments
    BY EnvironmentTypes, ReadyTypes
  <2> QED BY <2>1, <2>2, <2>3
<1>3. DriftTypeOK'
  BY <1>1, <1>2 DEF DriftIInv, DriftTypeOK
<1>4. DriftRouted'
  BY <1>1 DEF DriftIInv, DriftRouted
<1>5. Untouched' /\ Surveyed'
  BY <1>1 DEF Untouched, Surveyed
<1> QED BY <1>3, <1>4, <1>5 DEF DriftIInv

LEMMA StepKeepsDrift ==
    ASSUME DriftIInv, [DriftNext]_driftVars
    PROVE  DriftIInv'
<1>1. CASE Tamper
  BY <1>1, TamperKeepsDrift
<1>2. ASSUME NEW r \in Runs, BeginDrift(r) \/ DieDrift(r) PROVE DriftIInv'
  BY <1>2, AsideKeepsDrift
<1>3. ASSUME NEW r \in Runs, ProceedDrift(r) PROVE DriftIInv'
  BY <1>3, DriftStepTyped, DriftStepRouted, StepUntouched, StepSurveyed DEF DriftIInv
<1>4. CASE UNCHANGED driftVars
  <2>1. UNCHANGED <<tampers, driftId, driftEnvs, driftAt, driftLeft, driftCustom, missing,
                    created, driftBlocked, driftMeddled>>
    BY <1>4 DEF driftVars, driftSession
  <2> QED BY <2>1 DEF DriftIInv, DriftTypeOK, DriftRouted, Untouched, Surveyed, Settled, Tight
<1> QED BY <1>1, <1>2, <1>3, <1>4 DEF DriftNext

-----------------------------------------------------------------------------
(* An unattended environment is never open, and what a session of the      *)
(* drift setup verified holds beside any other sessions.                   *)
THEOREM DriftInvariant == DriftSpec => []DriftInv
<1>1. DriftInit => DriftIInv
  BY InitDrift
<1>2. DriftIInv /\ [DriftNext]_driftVars => DriftIInv'
  BY StepKeepsDrift
<1>3. DriftIInv => DriftInv
  BY DriftSettles
<1> QED BY <1>1, <1>2, <1>3, PTL DEF DriftSpec

(* A session of the drift setup writes to nothing that its inventory       *)
(* named.                                                                  *)
THEOREM DriftAdds == DriftSpec => OnlyAdds
<1>1. DriftInit => DriftIInv
  BY InitDrift
<1>2. DriftIInv /\ [DriftNext]_driftVars => DriftIInv'
  BY StepKeepsDrift
<1>3. DriftIInv => KeepsExisting
  BY DriftWrites DEF DriftIInv, KeepsExisting, Made, Opened
<1> QED BY <1>1, <1>2, <1>3, PTL DEF DriftSpec, OnlyAdds
=================================================================================
