------------------------- MODULE CommandIntake_proofs -------------------------
(***************************************************************************)
(* Comments are acted on once, as recorded, and consumed in time, for any  *)
(* comments, pull requests, runs, requests, time limits and numbers of     *)
(* events.                                                                 *)
(***************************************************************************)
EXTENDS CommandIntake, TLAPS

-----------------------------------------------------------------------------
(* Groups.                                                                 *)

LEMMA GroupType ==
    ASSUME NEW Members, NEW g \in Grp!GroupOf(Members), NEW m \in Members
    PROVE  /\ Grp!Enter(g, m) \in Grp!GroupOf(Members)
           /\ Grp!Release(g) \in Grp!GroupOf(Members)
           /\ Grp!EmptyGroup \in Grp!GroupOf(Members)
BY DEF Grp!GroupOf, Grp!Enter, Grp!Release, Grp!EmptyGroup

(* A release brings nobody new into a group.                               *)
LEMMA ReleaseFrame ==
    ASSUME NEW Members, NEW r \in [PRs -> Grp!GroupOf(Members)], NEW q,
           NEW s, \/ s = r
                  \/ s = [r EXCEPT ![q] = Grp!Release(@)]
    PROVE  \A p \in PRs : {s[p].holder, s[p].pending}
              \subseteq {r[p].holder, r[p].pending, Nobody}
<1> SUFFICES ASSUME NEW p \in PRs
             PROVE  {s[p].holder, s[p].pending}
                      \subseteq {r[p].holder, r[p].pending, Nobody}
  OBVIOUS
<1>1. s[p] = r[p] \/ s[p] = Grp!Release(r[p])
  OBVIOUS
<1> QED BY <1>1 DEF Grp!Release

-----------------------------------------------------------------------------
(* Types.                                                                  *)

Intakes == [step : IntakeSteps, attempt : {1, 2}, created : Nat, head : Heads]

Texts == [state : {"none", "posted", "edited"},
          said : Bodies, body : Bodies, created : Nat]

LEMMA IntakeStepType ==
    ASSUME NEW r \in Intakes, NEW s \in IntakeSteps
    PROVE  [r EXCEPT !.step = s] \in Intakes
BY DEF Intakes

(* An intake run takes a step and stays the run it is.                     *)
Moves(c, s) ==
    /\ intake' \in [Comments -> Intakes]
    /\ \A e \in Comments \ {c} : intake'[e] = intake[e]
    /\ intake'[c].step = s
    /\ intake'[c].attempt = intake[c].attempt

LEMMA StepMoves ==
    ASSUME NEW c \in Comments, NEW s \in IntakeSteps,
           intake \in [Comments -> Intakes],
           intake' = [intake EXCEPT ![c].step = s]
    PROVE  Moves(c, s)
BY DEF Moves, Intakes

LEMMA HeadMoves ==
    ASSUME NEW c \in Comments, NEW s \in IntakeSteps, NEW h \in Heads,
           intake \in [Comments -> Intakes],
           intake' = [intake EXCEPT ![c].step = s, ![c].head = h]
    PROVE  Moves(c, s)
BY DEF Moves, Intakes

LEMMA IntakeMoves ==
    ASSUME TypeOK, NEW c \in Comments
    PROVE  /\ IntakeReadsHead(c) => Moves(c, "record")
           /\ IntakeRefuses(c) => Moves(c, "done")
           /\ IntakeRecords(c) => Moves(c, "dispatch")
           /\ IntakeDispatches(c) => Moves(c, "answer")
           /\ IntakeAnswers(c) => Moves(c, "done")
           /\ IntakeFails(c) => Moves(c, "failed")
<1>1. /\ intake \in [Comments -> Intakes]
      /\ prs[PrOf[c]].head \in Heads
  BY IntakeAssumption DEF TypeOK, Intakes
<1>2. {"record", "done", "dispatch", "answer", "failed"} \subseteq IntakeSteps
  BY DEF IntakeSteps
<1>3. IntakeReadsHead(c) => Moves(c, "record")
  BY <1>1, <1>2, HeadMoves DEF IntakeReadsHead
<1>4. IntakeRefuses(c) => Moves(c, "done")
  BY <1>1, <1>2, StepMoves DEF IntakeRefuses, IntakeEnds
<1>5. IntakeRecords(c) => Moves(c, "dispatch")
  BY <1>1, <1>2, StepMoves DEF IntakeRecords
<1>6. IntakeDispatches(c) => Moves(c, "answer")
  BY <1>1, <1>2, StepMoves DEF IntakeDispatches
<1>7. IntakeAnswers(c) => Moves(c, "done")
  BY <1>1, <1>2, StepMoves DEF IntakeAnswers, IntakeEnds
<1>8. IntakeFails(c) => Moves(c, "failed")
  BY <1>1, <1>2, StepMoves DEF IntakeFails, IntakeEnds
<1> QED BY <1>3, <1>4, <1>5, <1>6, <1>7, <1>8

LEMMA TextType ==
    ASSUME NEW f \in [Comments -> Texts], NEW c \in Comments,
           NEW s \in {"none", "posted", "edited"}, NEW b \in Bodies
    PROVE  [f EXCEPT ![c].state = s, ![c].body = b] \in [Comments -> Texts]
BY DEF Texts

Pulls == [head : Heads, open : BOOLEAN]

LEMMA CloseType ==
    ASSUME NEW f \in [PRs -> Pulls], NEW p \in PRs
    PROVE  [f EXCEPT ![p].open = FALSE] \in [PRs -> Pulls]
<1>1. ASSUME NEW q \in PRs
      PROVE  [f EXCEPT ![p].open = FALSE][q] \in Pulls
  <2>1. CASE q = p
    <3>1. [f EXCEPT ![p].open = FALSE][q] = [f[p] EXCEPT !.open = FALSE]
      BY <2>1
    <3>2. ASSUME NEW r \in Pulls PROVE [r EXCEPT !.open = FALSE] \in Pulls
      BY DEF Pulls
    <3> QED BY <3>1, <3>2
  <2>2. CASE q # p
    BY <2>2
  <2> QED BY <2>1, <2>2
<1>2. DOMAIN [f EXCEPT ![p].open = FALSE] = PRs
  OBVIOUS
<1> QED BY <1>1, <1>2

LEMMA InitTypes == Init => TypeOK
<1> SUFFICES ASSUME Init PROVE TypeOK
  OBVIOUS
<1> USE IntakeAssumption
<1>1. intakeGroup \in [PRs -> Grp!GroupOf(Comments)]
  BY DEF Init, Grp!GroupOf, Grp!EmptyGroup
<1>2. runGroup \in [PRs -> Grp!GroupOf(Runs)]
  BY DEF Init, Grp!GroupOf, Grp!EmptyGroup
<1>3. /\ comment \in [Comments -> [state : {"none", "posted", "edited"},
                                  said : Bodies, body : Bodies, created : Nat]]
      /\ intake \in [Comments -> [step : IntakeSteps, attempt : {1, 2},
                                  created : Nat, head : Heads]]
  BY DEF Init, Bodies, IntakeSteps
<1>4. /\ clock \in Nat /\ events \in Nat
      /\ prs \in [PRs -> [head : Heads, open : BOOLEAN]]
      /\ writers \in SUBSET Users
      /\ artifact \in [Comments -> Requests \cup {NoRequest}]
      /\ recorded \in [Comments -> Requests \cup {NoRequest}]
      /\ request \in [Runs -> Requests \cup {NoRequest}]
  BY DEF Init
<1>5. /\ step \in [Runs -> Steps]
      /\ since \in [Runs -> Nat]
      /\ claims \in SUBSET Claims
      /\ claimedAt \in [Runs -> Nat]
      /\ torn \in SUBSET Runs
  BY DEF Init, Steps
<1> QED BY <1>1, <1>2, <1>3, <1>4, <1>5 DEF TypeOK

LEMMA WorldTypes == TypeOK /\ World => TypeOK'
<1> SUFFICES ASSUME TypeOK, World PROVE TypeOK'
  OBVIOUS
<1> USE IntakeAssumption DEF TypeOK, intakes, commands
<1>1. CASE Tick
  BY <1>1 DEF Tick, github
<1>2. ASSUME NEW p \in PRs, Push(p) PROVE TypeOK'
  <2>1. PICK h \in Heads : prs' = [prs EXCEPT ![p].head = h]
    BY <1>2 DEF Push
  <2>2. prs' \in [PRs -> [head : Heads, open : BOOLEAN]]
    <3>1. prs \in [PRs -> [head : Heads, open : BOOLEAN]]
      OBVIOUS
    <3> HIDE DEF TypeOK
    <3> QED BY <2>1, <3>1
  <2>3. events' \in Nat /\ UNCHANGED <<clock, writers, comment, intakes, commands>>
    BY <1>2 DEF Push, Event
  <2> QED BY <2>2, <2>3
<1>3. ASSUME NEW p \in PRs, Close(p) PROVE TypeOK'
  <2>1. prs' = [prs EXCEPT ![p].open = FALSE]
    BY <1>3 DEF Close
  <2>2. prs' \in [PRs -> Pulls]
    BY <2>1, CloseType DEF Pulls
  <2> QED BY <1>3, <2>2 DEF Close, Event, Pulls
<1>4. ASSUME NEW u \in Users, Revoke(u) PROVE TypeOK'
  BY <1>4 DEF Revoke, Event
<1>5. ASSUME NEW c \in Comments, EditComment(c) PROVE TypeOK'
  <2>1. PICK b \in Bodies, s \in {"posted", "edited"} :
          comment' = [comment EXCEPT ![c].state = s, ![c].body = b]
    BY <1>5 DEF EditComment
  <2>2. comment' \in [Comments -> Texts]
    BY <2>1, TextType DEF Texts
  <2> QED BY <1>5, <2>2 DEF EditComment, Event, Texts
<1>6. ASSUME NEW c \in Comments, Say(c) PROVE TypeOK'
  BY <1>6 DEF Say
<1> QED BY <1>1, <1>2, <1>3, <1>4, <1>5, <1>6 DEF World

LEMMA QueuesTypes ==
    ASSUME TypeOK, NEW c \in Comments, IntakeQueues(c)
    PROVE  /\ intakeGroup' \in [PRs -> Grp!GroupOf(Comments)]
           /\ intake' \in [Comments -> [step : IntakeSteps, attempt : {1, 2},
                                        created : Nat, head : Heads]]
<1> USE IntakeAssumption DEF TypeOK
<1>1. Grp!Enter(intakeGroup[PrOf[c]], c) \in Grp!GroupOf(Comments)
  BY GroupType
<1>2. intakeGroup' \in [PRs -> Grp!GroupOf(Comments)]
  BY <1>1 DEF IntakeQueues
<1>3. intake' \in [Comments -> Intakes]
  <2>1. ASSUME NEW e \in Comments
        PROVE  [intake[e] EXCEPT !.step = "failed"] \in Intakes
    <3>1. intake[e] \in Intakes /\ "failed" \in IntakeSteps
      BY DEF IntakeSteps, Intakes
    <3> QED BY <3>1, IntakeStepType
  <2>2. [step |-> "queued",
         attempt |-> IF intake[c].step = "none" THEN 1 ELSE 2,
         created |-> IF intake[c].step = "none" THEN clock
                     ELSE intake[c].created,
         head |-> intake[c].head] \in Intakes
    BY DEF IntakeSteps, Intakes
  <2>3. \A e \in Comments : intake'[e] \in Intakes
    BY <2>1, <2>2 DEF IntakeQueues, Intakes
  <2>4. intake' \in [Comments -> Intakes]
    BY <2>3 DEF IntakeQueues, Intakes
  <2> QED BY <2>4
<1> QED BY <1>2, <1>3 DEF Intakes

LEMMA DispatchTypes ==
    ASSUME TypeOK, NEW q \in Requests, Dispatch(q)
    PROVE  /\ request' \in [Runs -> Requests \cup {NoRequest}]
           /\ step' \in [Runs -> Steps]
           /\ runGroup' \in [PRs -> Grp!GroupOf(Runs)]
           /\ UNCHANGED <<since, claims, claimedAt, torn>>
<1> USE IntakeAssumption DEF TypeOK
<1>1. PICK d \in Runs :
        /\ request' = [request EXCEPT ![d] = q]
        /\ runGroup' = [runGroup EXCEPT ![q.pr] = Grp!Enter(@, d)]
        /\ step' = [e \in Runs |-> IF e = d THEN "queued"
                          ELSE IF e = Grp!Displaced(runGroup[q.pr])
                               THEN "failed" ELSE step[e]]
        /\ UNCHANGED <<since, claims, claimedAt, torn>>
  BY DEF Dispatch
<1>2. q.pr \in PRs
  BY DEF Requests
<1>3. Grp!Enter(runGroup[q.pr], d) \in Grp!GroupOf(Runs)
  BY <1>2, GroupType
<1>4. step' \in [Runs -> Steps]
  BY <1>1 DEF Steps
<1> QED BY <1>1, <1>2, <1>3, <1>4

(* What an intake run writes is a request of its own comment.              *)
RecordOf(c) == [comment |-> c, pr |-> PrOf[c], head |-> intake[c].head,
                command |-> comment[c].said]

LEMMA RecordIsRequest ==
    ASSUME TypeOK, Provenance, NEW c \in Comments, intake[c].step = "record"
    PROVE  RecordOf(c) \in Requests
BY IntakeAssumption DEF TypeOK, Provenance, Bodies, Requests, RecordOf

LEMMA IntakeTypes ==
    ASSUME TypeOK, Provenance, NEW c \in Comments,
           IntakeArrives(c) \/ IntakeRerun(c) \/ IntakeStep(c)
    PROVE  TypeOK'
<1> USE IntakeAssumption
<1>1. CASE IntakeArrives(c)
  BY <1>1, QueuesTypes DEF TypeOK, IntakeArrives, github, commands
<1>2. CASE IntakeRerun(c)
  BY <1>2, QueuesTypes DEF TypeOK, IntakeRerun, Event, github, commands
<1>4. CASE IntakeStep(c)
  <2>1. \E t \in IntakeSteps : Moves(c, t)
    BY <1>4, IntakeMoves DEF IntakeStep, IntakeSteps
  <2>2. intake' \in [Comments -> [step : IntakeSteps, attempt : {1, 2},
                                 created : Nat, head : Heads]]
    BY <2>1 DEF Moves, Intakes
  <2>3. intakeGroup' \in [PRs -> Grp!GroupOf(Comments)]
    <3>1. Grp!Release(intakeGroup[PrOf[c]]) \in Grp!GroupOf(Comments)
      BY GroupType DEF TypeOK
    <3>2. \/ UNCHANGED intakeGroup
          \/ intakeGroup' = [intakeGroup EXCEPT ![PrOf[c]] = Grp!Release(@)]
      BY <1>4 DEF IntakeStep, IntakeReadsHead, IntakeRefuses, IntakeRecords,
                  IntakeDispatches, IntakeAnswers, IntakeFails, IntakeEnds
    <3> QED BY <3>1, <3>2 DEF TypeOK
  <2>4. CASE IntakeReadsHead(c) \/ IntakeRefuses(c) \/ IntakeAnswers(c)
             \/ IntakeFails(c)
    <3>1. UNCHANGED <<clock, events, github, artifact, recorded, commands>>
      BY <2>4 DEF IntakeReadsHead, IntakeRefuses, IntakeAnswers, IntakeFails
    <3> QED BY <2>2, <2>3, <3>1 DEF TypeOK, github, commands
  <2>5. CASE IntakeRecords(c)
    <3>1. RecordOf(c) \in Requests
      BY <2>5, RecordIsRequest DEF IntakeRecords, IntakeAt
    <3>2. /\ artifact' \in [Comments -> Requests \cup {NoRequest}]
          /\ recorded' \in [Comments -> Requests \cup {NoRequest}]
      <4>1. /\ artifact' = [artifact EXCEPT ![c] = RecordOf(c)]
            /\ \/ recorded' = [recorded EXCEPT ![c] = RecordOf(c)]
               \/ recorded' = recorded
        BY <2>5 DEF IntakeRecords, RecordOf
      <4>2. artifact \in [Comments -> Requests \cup {NoRequest}]
            /\ recorded \in [Comments -> Requests \cup {NoRequest}]
        BY DEF TypeOK
      <4> HIDE DEF Requests
      <4> QED BY <3>1, <4>1, <4>2
    <3>3. UNCHANGED <<clock, events, github, commands>>
      BY <2>5 DEF IntakeRecords
    <3> QED BY <2>2, <2>3, <3>2, <3>3 DEF TypeOK, github, commands
  <2>6. CASE IntakeDispatches(c)
    <3>1. artifact[c] \in Requests
      BY <2>6 DEF TypeOK, IntakeDispatches, IntakeAt, Provenance
    <3>2. UNCHANGED <<clock, events, github, artifact, recorded>>
      BY <2>6 DEF IntakeDispatches
    <3>3. Dispatch(artifact[c])
      BY <2>6 DEF IntakeDispatches
    <3> QED BY <2>2, <2>3, <3>1, <3>2, <3>3, DispatchTypes DEF TypeOK, github
  <2> QED BY <1>4, <2>4, <2>5, <2>6 DEF IntakeStep
<1> QED BY <1>1, <1>2, <1>4

LEMMA RedispatchTypes ==
    ASSUME TypeOK, NEW q \in Requests, Redispatch(q)
    PROVE  TypeOK'
<1>1. Dispatch(q) /\ UNCHANGED <<clock, github, intakes>> /\ events' = events + 1
  BY DEF Redispatch, Event
<1> QED BY <1>1, DispatchTypes DEF TypeOK, github, intakes

(* A run that was dispatched has a request.                                *)
LEMMA RequestOf ==
    ASSUME TypeOK, Provenance, NEW d \in Runs, step[d] # "unused"
    PROVE  /\ request[d] \in Requests
           /\ CommentOf(d) \in Comments
           /\ PrOfRun(d) \in PRs
           /\ ClaimOf(d) \in Claims
BY DEF TypeOK, Provenance, CommentOf, PrOfRun, ClaimOf, Requests, Claims

(* What a command run's step may change, by the step it is.                *)
LEMMA RunFrame ==
    ASSUME NEW d \in Runs, RunStep(d)
    PROVE  /\ step[d] # "unused" /\ runGroup[PrOfRun(d)].holder = d
           /\ UNCHANGED <<clock, events, github, intakes>>
           /\ since' = since \/ (since' = [since EXCEPT ![d] = clock]
                                 /\ ReadIntakeRun(d))
           /\ \/ claimedAt' = claimedAt /\ claims' = claims
              \/ /\ claimedAt' = [claimedAt EXCEPT ![d] = clock]
                 /\ claims' = claims \cup {ClaimOf(d)} /\ PostClaim(d)
           /\ torn' = torn \/ (torn' = torn \cup {d} /\ ReadArtifact(d)
                               /\ intake[CommentOf(d)].attempt # 1)
<1>1. step[d] # "unused" /\ runGroup[PrOfRun(d)].holder = d
  BY DEF RunStep, ReadIntakeRun, ReadArtifact, ReadComment, ReadHead,
         ReadPullRequestAgain, ReadClock, ReadPermission, ReadStatuses,
         PostClaim, RereadIntakeRun, Revalidate, PreflightFails, Finish, At,
         Preflighting
<1>2. UNCHANGED <<clock, events, github, intakes>>
  BY DEF RunStep, ReadIntakeRun, ReadArtifact, ReadComment, ReadHead,
         ReadPullRequestAgain, ReadClock, ReadPermission, ReadStatuses,
         PostClaim, RereadIntakeRun, Revalidate, PreflightFails, Finish,
         Unchanged
<1>3. CASE ReadIntakeRun(d)
  BY <1>1, <1>2, <1>3 DEF ReadIntakeRun
<1>4. CASE ReadArtifact(d)
  BY <1>1, <1>2, <1>4 DEF ReadArtifact
<1>5. CASE PostClaim(d)
  BY <1>1, <1>2, <1>5 DEF PostClaim
<1>6. CASE ~ReadIntakeRun(d) /\ ~ReadArtifact(d) /\ ~PostClaim(d)
  <2>1. UNCHANGED <<since, claims, claimedAt, torn>>
    BY <1>6 DEF RunStep, ReadComment, ReadHead, ReadPullRequestAgain, ReadClock,
         ReadPermission, ReadStatuses, RereadIntakeRun, Revalidate,
         PreflightFails, Finish
  <2> QED BY <1>1, <1>2, <2>1
<1> QED BY <1>3, <1>4, <1>5, <1>6

(* The steps in their order: each leads on from where the run stood, or    *)
(* ends it.                                                                *)
Leads == {<<"queued", "artifact">>, <<"artifact", "comment">>,
          <<"comment", "head">>, <<"head", "review">>, <<"review", "now">>,
          <<"now", "permission">>, <<"permission", "statuses">>,
          <<"statuses", "claim">>, <<"claim", "claimed">>,
          <<"claimed", "again">>, <<"again", "working">>}

LEMMA RunGoes ==
    ASSUME NEW d \in Runs, RunStep(d)
    PROVE  \E t \in Steps :
             \/ Goto(d, t) /\ <<step[d], t>> \in Leads
             \/ Ends(d, t) /\ t = "failed" /\ step[d] \notin {"working", "ended"}
             \/ Ends(d, t) /\ t = "ended" /\ Finish(d) /\ step[d] = "working"
<1> USE DEF At, Leads, Steps
<1>1. CASE ReadIntakeRun(d)
  BY <1>1 DEF ReadIntakeRun
<1>2. CASE ReadArtifact(d)
  BY <1>2 DEF ReadArtifact
<1>3. CASE ReadComment(d)
  BY <1>3 DEF ReadComment
<1>4. CASE ReadHead(d)
  BY <1>4 DEF ReadHead
<1>5. CASE ReadPullRequestAgain(d)
  BY <1>5 DEF ReadPullRequestAgain
<1>6. CASE ReadClock(d)
  BY <1>6 DEF ReadClock
<1>7. CASE ReadPermission(d)
  BY <1>7 DEF ReadPermission
<1>8. CASE ReadStatuses(d)
  BY <1>8 DEF ReadStatuses
<1>9. CASE PostClaim(d)
  BY <1>9 DEF PostClaim
<1>10. CASE RereadIntakeRun(d)
  BY <1>10 DEF RereadIntakeRun
<1>11. CASE Revalidate(d)
  BY <1>11 DEF Revalidate
<1>12. CASE PreflightFails(d)
  BY <1>12 DEF PreflightFails, Preflighting
<1>13. CASE Finish(d)
  BY <1>13 DEF Finish
<1> QED BY <1>1, <1>2, <1>3, <1>4, <1>5, <1>6, <1>7, <1>8, <1>9, <1>10, <1>11,
           <1>12, <1>13 DEF RunStep

LEMMA RunTypes ==
    ASSUME TypeOK, Provenance, NEW d \in Runs, RunStep(d)
    PROVE  TypeOK'
<1>1. step[d] # "unused" /\ UNCHANGED <<clock, events, github, intakes>>
  BY RunFrame
<1>2. claims' \in SUBSET Claims
  BY <1>1, RunFrame, RequestOf DEF TypeOK
<1>3. since' \in [Runs -> Nat] /\ claimedAt' \in [Runs -> Nat]
  <2>1. /\ since' = since \/ since' = [since EXCEPT ![d] = clock]
        /\ claimedAt' = claimedAt \/ claimedAt' = [claimedAt EXCEPT ![d] = clock]
    BY RunFrame
  <2> QED BY <2>1 DEF TypeOK
<1>4. torn' \in SUBSET Runs
  <2>1. torn' = torn \/ torn' = torn \cup {d}
    BY RunFrame
  <2> QED BY <2>1 DEF TypeOK
<1>5. /\ request' \in [Runs -> Requests \cup {NoRequest}]
      /\ step' \in [Runs -> Steps]
      /\ runGroup' \in [PRs -> Grp!GroupOf(Runs)]
  <2>1. ASSUME NEW s \in Steps, Goto(d, s) PROVE <1>5!1 /\ <1>5!2 /\ <1>5!3
    BY <2>1 DEF Goto, TypeOK
  <2>2. ASSUME NEW s \in Steps, Ends(d, s) PROVE <1>5!1 /\ <1>5!2 /\ <1>5!3
    <3>1. Grp!Release(runGroup[PrOfRun(d)]) \in Grp!GroupOf(Runs)
      BY <1>1, RequestOf, GroupType DEF TypeOK
    <3> QED BY <2>2, <3>1 DEF Ends, TypeOK
  <2>3. (\E s \in Steps : Goto(d, s)) \/ (\E s \in Steps : Ends(d, s))
    BY RunGoes
  <2> QED BY <2>1, <2>2, <2>3
<1> QED BY <1>1, <1>2, <1>3, <1>4, <1>5 DEF TypeOK, github, intakes

-----------------------------------------------------------------------------
(* Provenance.                                                             *)

LEMMA ProvenanceWorld ==
    ASSUME TypeOK, Provenance, World
    PROVE  Provenance'
<1>1. UNCHANGED <<intake, intakeGroup, artifact, request, step, runGroup>>
  BY DEF World, Tick, Push, Close, Revoke, EditComment, Say, intakes, commands
<1>2. ASSUME NEW c \in Comments
      PROVE  comment[c].state # "none" =>
                comment'[c].state # "none" /\ comment'[c].said = comment[c].said
  <2>1. CASE comment' = comment
    BY <2>1
  <2>2. ASSUME NEW e \in Comments, EditComment(e)
        PROVE  <1>2!2
    <3>1. PICK b \in Bodies, s \in {"posted", "edited"} :
            comment' = [comment EXCEPT ![e].state = s, ![e].body = b]
      BY <2>2 DEF EditComment
    <3>2. comment \in [Comments -> Texts]
      BY DEF TypeOK, Texts
    <3> QED BY <3>1, <3>2 DEF Texts
  <2>3. ASSUME NEW e \in Comments, Say(e)
        PROVE  <1>2!2
    <3>1. comment[e].state = "none" /\ \E t : comment' = [comment EXCEPT ![e] = t]
      BY <2>3 DEF Say
    <3> QED BY <3>1 DEF TypeOK
  <2> QED
    BY <2>1, <2>2, <2>3 DEF World, Tick, Push, Close, Revoke, github
<1>4. \A d \in Runs : CommentOf(d)' = CommentOf(d)
  BY <1>1 DEF CommentOf
<1>5. \A c \in Comments :
          /\ (intake[c].step # "none" => comment[c].state # "none")'
          /\ (intake[c].step = "record" => comment[c].said # "chat")'
  BY <1>1, <1>2 DEF Provenance
<1>6. \A d \in Runs :
          (step[d] \in Preflighting \/ Admitted(d)
                => intake[CommentOf(d)].step # "none")'
  BY <1>1, <1>4 DEF Provenance, Admitted
<1> QED BY <1>1, <1>5, <1>6 DEF Provenance

(* A dispatched request is new to an unused run, the run it displaces has  *)
(* failed, and whoever runs goes on running.                               *)
Dispatched(q, d) ==
    /\ step[d] = "unused" /\ step'[d] = "queued" /\ request'[d] = q
    /\ \A e \in Runs \ {d} :
          /\ request'[e] = request[e]
          /\ \/ step'[e] = step[e]
             \/ step'[e] = "failed" /\ step[e] # "unused"
    /\ \A p \in PRs :
          /\ {runGroup'[p].holder, runGroup'[p].pending}
               \subseteq {runGroup[p].holder, runGroup[p].pending, d, Nobody}
          /\ runGroup[p].holder # Nobody
               => runGroup'[p].holder = runGroup[p].holder
    /\ UNCHANGED <<since, claims, claimedAt, torn>>

LEMMA DispatchFrame ==
    ASSUME TypeOK, Provenance, NEW q \in Requests, Dispatch(q)
    PROVE  \E d \in Runs : Dispatched(q, d)
<1> USE IntakeAssumption
<1> DEFINE p0 == q.pr
           out == Grp!Displaced(runGroup[p0])
<1>1. PICK d \in Runs :
        /\ step[d] = "unused"
        /\ request' = [request EXCEPT ![d] = q]
        /\ runGroup' = [runGroup EXCEPT ![p0] = Grp!Enter(@, d)]
        /\ step' = [e \in Runs |-> IF e = d THEN "queued"
                                  ELSE IF e = out THEN "failed" ELSE step[e]]
        /\ UNCHANGED <<since, claims, claimedAt, torn>>
  BY DEF Dispatch
<1>2. p0 \in PRs
  BY DEF Requests
<1>3. out \in Runs => step[out] # "unused"
  <2>1. out = Nobody \/ out = runGroup[p0].pending
    BY DEF Grp!Displaced
  <2> HIDE DEF out, p0
  <2> QED BY <1>2, <2>1 DEF Provenance
<1> HIDE DEF out, p0
<1>4. ASSUME NEW e \in Runs \ {d}
      PROVE  /\ request'[e] = request[e]
             /\ \/ step'[e] = step[e]
                \/ step'[e] = "failed" /\ step[e] # "unused"
  BY <1>1, <1>3 DEF TypeOK
<1>5. ASSUME NEW p \in PRs
      PROVE  /\ {runGroup'[p].holder, runGroup'[p].pending}
                   \subseteq {runGroup[p].holder, runGroup[p].pending, d, Nobody}
             /\ runGroup[p].holder # Nobody
                   => runGroup'[p].holder = runGroup[p].holder
  BY <1>1 DEF TypeOK, Grp!GroupOf, Grp!Enter
<1>6. step'[d] = "queued" /\ request'[d] = q
  BY <1>1 DEF TypeOK
<1>7. Dispatched(q, d)
  BY <1>1, <1>4, <1>5, <1>6 DEF Dispatched
<1> QED BY <1>7

(* A command run takes a step, which does not start it, and gives its group*)
(* back when it ends.                                                      *)
RunMoved(d, t) ==
    /\ step[d] # "unused"
    /\ \/ <<step[d], t>> \in Leads
       \/ t = "failed" /\ step[d] \notin {"working", "ended"}
       \/ t = "ended" /\ step[d] = "working"
    /\ step' = [step EXCEPT ![d] = t] /\ request' = request
    /\ runGroup[PrOfRun(d)].holder = d
    /\ \/ runGroup' = runGroup
       \/ /\ t \in {"ended", "failed"}
          /\ runGroup' = [runGroup EXCEPT ![PrOfRun(d)] = Grp!Release(@)]

LEMMA RunMoves ==
    ASSUME NEW d \in Runs, RunStep(d)
    PROVE  \E t \in Steps : RunMoved(d, t)
<1>1. step[d] # "unused" /\ runGroup[PrOfRun(d)].holder = d
  BY RunFrame
<1>2. PICK t \in Steps :
             \/ Goto(d, t) /\ <<step[d], t>> \in Leads
             \/ Ends(d, t) /\ t = "failed" /\ step[d] \notin {"working", "ended"}
             \/ Ends(d, t) /\ t = "ended" /\ Finish(d) /\ step[d] = "working"
  BY RunGoes
<1>3. RunMoved(d, t)
  BY <1>1, <1>2 DEF Goto, Ends, RunMoved
<1> QED BY <1>3

(* A comment's intake run is queued; one it displaces has failed, and no   *)
(* other moves.                                                            *)
Queued(c) ==
    /\ intake'[c].step = "queued"
    /\ intake'[c].attempt = IF intake[c].step = "none" THEN 1 ELSE 2
    /\ \A e \in Comments \ {c} :
          /\ intake'[e].attempt = intake[e].attempt
          /\ \/ intake'[e].step = intake[e].step
             \/ intake'[e].step = "failed" /\ intake[e].step # "none"
    /\ \A p \in PRs : {intakeGroup'[p].holder, intakeGroup'[p].pending}
          \subseteq {intakeGroup[p].holder, intakeGroup[p].pending, c, Nobody}

LEMMA QueuesFrame ==
    ASSUME TypeOK, Provenance, NEW c \in Comments, IntakeQueues(c)
    PROVE  Queued(c)
<1> USE IntakeAssumption
<1> DEFINE out == Grp!Displaced(intakeGroup[PrOf[c]])
<1>1. out \in Comments => intake[out].step # "none"
  <2>1. out = Nobody \/ out = intakeGroup[PrOf[c]].pending
    BY DEF Grp!Displaced
  <2> HIDE DEF out
  <2> QED BY <2>1 DEF Provenance
<1>2. ASSUME NEW e \in Comments \ {c}
      PROVE  /\ intake'[e].attempt = intake[e].attempt
             /\ \/ intake'[e].step = intake[e].step
                \/ intake'[e].step = "failed" /\ intake[e].step # "none"
  <2>1. intake'[e] = IF e = out THEN [intake[e] EXCEPT !.step = "failed"]
                     ELSE intake[e]
    BY DEF IntakeQueues
  <2>2. /\ [intake[e] EXCEPT !.step = "failed"].step = "failed"
        /\ [intake[e] EXCEPT !.step = "failed"].attempt = intake[e].attempt
    <3>1. intake[e] \in Intakes
      BY DEF TypeOK, Intakes
    <3>2. ASSUME NEW r \in Intakes
          PROVE  /\ [r EXCEPT !.step = "failed"].step = "failed"
                 /\ [r EXCEPT !.step = "failed"].attempt = r.attempt
      BY DEF Intakes
    <3> QED BY <3>1, <3>2
  <2> HIDE DEF out
  <2>3. CASE e = out
    <3>1. intake'[e] = [intake[e] EXCEPT !.step = "failed"]
      BY <2>1, <2>3
    <3>2. intake'[e].step = "failed" /\ intake'[e].attempt = intake[e].attempt
      BY <3>1, <2>2
    <3> QED BY <2>3, <3>2, <1>1
  <2>4. CASE e # out
    BY <2>1, <2>4
  <2> QED BY <2>3, <2>4
<1>3. /\ intake'[c].step = "queued"
      /\ intake'[c].attempt = IF intake[c].step = "none" THEN 1 ELSE 2
  BY DEF IntakeQueues
<1>4. intakeGroup' = [intakeGroup EXCEPT ![PrOf[c]] = Grp!Enter(@, c)]
  BY DEF IntakeQueues
<1>5. ASSUME NEW p \in PRs
      PROVE  {intakeGroup'[p].holder, intakeGroup'[p].pending}
               \subseteq {intakeGroup[p].holder, intakeGroup[p].pending, c, Nobody}
  BY <1>4 DEF TypeOK, Grp!GroupOf, Grp!Enter
<1> QED BY <1>2, <1>3, <1>5 DEF Queued

LEMMA ProvenanceIntake ==
    ASSUME TypeOK, Provenance, NEW c \in Comments,
           IntakeArrives(c) \/ IntakeRerun(c)
    PROVE  Provenance'
<1> USE IntakeAssumption
<1>1. UNCHANGED <<comment, artifact, request, step, runGroup>>
  BY DEF IntakeArrives, IntakeRerun, github, commands
<1>2. Queued(c) /\ comment[c].state # "none"
  BY QueuesFrame DEF IntakeArrives, IntakeRerun, Provenance
<1>3. \A d \in Runs : CommentOf(d)' = CommentOf(d)
  BY <1>1 DEF CommentOf
<1>4. \A e \in Comments :
          /\ (intake[e].step # "none" => comment[e].state # "none")'
          /\ (intake[e].step = "none" => intake[e].attempt = 1)'
          /\ (intake[e].step = "record" => comment[e].said # "chat")'
          /\ (intake[e].step = "dispatch" => artifact[e] # NoRequest)'
          /\ (artifact[e] # NoRequest => /\ artifact[e].comment = e
                                        /\ artifact[e].pr = PrOf[e]
                                        /\ intake[e].step # "none")'
  BY <1>1, <1>2 DEF Provenance, Queued
<1>6. \A d \in Runs : (step[d] \in Preflighting \/ Admitted(d)
                          => intake[CommentOf(d)].step # "none")'
  <2>1. \A e \in Comments : intake[e].step # "none" => intake'[e].step # "none"
    BY <1>2 DEF Queued
  <2>2. ASSUME NEW d \in Runs, step[d] \in Preflighting \/ Admitted(d)
        PROVE  CommentOf(d) \in Comments
    BY <2>2, RequestOf DEF Preflighting, Admitted
  <2> QED BY <1>1, <1>3, <2>1, <2>2 DEF Provenance, Admitted
<1>5. \A p \in PRs : \A e \in Comments :
          (e \in {intakeGroup[p].holder, intakeGroup[p].pending}
                    => intake[e].step # "none")'
  BY <1>2 DEF Provenance, Queued
<1> QED BY <1>1, <1>3, <1>4, <1>5, <1>6 DEF Provenance

LEMMA ProvenanceRun ==
    ASSUME TypeOK, Provenance, NEW d \in Runs, RunStep(d)
    PROVE  Provenance'
<1>1. PICK t \in Steps : RunMoved(d, t)
  BY RunMoves
<1>2. UNCHANGED <<comment, intake, intakeGroup, artifact>>
  BY RunFrame DEF github, intakes
<1>3. \A e \in Runs : CommentOf(e)' = CommentOf(e)
  BY <1>1 DEF CommentOf, RunMoved
<1>4. \A e \in Runs : step[e] = "unused" <=> step'[e] = "unused"
  BY <1>1 DEF RunMoved, TypeOK, Leads
<1>7. ASSUME NEW e \in Runs, step'[e] \in Preflighting \/ Admitted(e)'
      PROVE  intake'[CommentOf(e)'].step # "none"
  <2>1. CASE step[e] \in Preflighting \/ Admitted(e)
    BY <1>2, <1>3, <2>1 DEF Provenance
  <2>2. CASE ~(step[e] \in Preflighting \/ Admitted(e))
    <3>1. e = d /\ step[d] = "queued" /\ t = "artifact"
      BY <1>1, <1>7, <2>2 DEF RunMoved, TypeOK, Leads, Preflighting, Admitted
    <3>2. ReadIntakeRun(d)
      <4>1. step'[d] = "artifact"
        BY <1>1, <3>1 DEF RunMoved, TypeOK
      <4> QED
        BY <3>1, <4>1 DEF RunStep, ReadArtifact, ReadComment, ReadHead,
          ReadPullRequestAgain, ReadClock, ReadPermission, ReadStatuses,
          PostClaim, RereadIntakeRun, Revalidate, PreflightFails, Finish, At,
          Ends, TypeOK
    <3> QED BY <1>2, <1>3, <3>1, <3>2 DEF ReadIntakeRun, TrustedIntake
  <2> QED BY <2>1, <2>2
<1>5. \A p \in PRs : {runGroup'[p].holder, runGroup'[p].pending}
            \subseteq {runGroup[p].holder, runGroup[p].pending, Nobody}
  <2>1. runGroup \in [PRs -> Grp!GroupOf(Runs)]
    BY DEF TypeOK
  <2>2. \/ runGroup' = runGroup
        \/ runGroup' = [runGroup EXCEPT ![PrOfRun(d)] = Grp!Release(@)]
    BY <1>1 DEF RunMoved
  <2> QED BY <2>1, <2>2, ReleaseFrame
<1>6. request' = request
  BY <1>1 DEF RunMoved
<1> QED BY <1>2, <1>3, <1>4, <1>5, <1>6, <1>7, IntakeAssumption DEF Provenance

(* The steps of an intake run that dispatch nothing.                       *)
LEMMA ProvenanceMoves ==
    ASSUME TypeOK, Provenance, NEW c \in Comments,
           \/ IntakeReadsHead(c) \/ IntakeRefuses(c) \/ IntakeRecords(c)
           \/ IntakeAnswers(c) \/ IntakeFails(c)
    PROVE  Provenance'
<1> USE IntakeAssumption
<1>1. UNCHANGED <<comment, request, step, runGroup>>
  BY DEF IntakeReadsHead, IntakeRefuses, IntakeRecords, IntakeAnswers,
         IntakeFails, github, commands
<1>2. PICK s \in IntakeSteps \ {"none"} : Moves(c, s) /\ intake[c].step # "none"
  BY IntakeMoves
     DEF IntakeReadsHead, IntakeRefuses, IntakeRecords, IntakeAnswers,
         IntakeFails, IntakeAt, IntakeSteps
<1>3. \A d \in Runs : CommentOf(d)' = CommentOf(d)
  BY <1>1 DEF CommentOf
<1>4. \A e \in Comments \ {c} : artifact'[e] = artifact[e]
  BY DEF IntakeReadsHead, IntakeRefuses, IntakeRecords, IntakeAnswers,
         IntakeFails, TypeOK
<1>5. artifact'[c] # NoRequest => /\ artifact'[c].comment = c
                                 /\ artifact'[c].pr = PrOf[c]
  <2>1. CASE IntakeRecords(c)
    <3>1. artifact'[c] = RecordOf(c)
      BY <2>1 DEF IntakeRecords, RecordOf, TypeOK
    <3> QED BY <3>1 DEF RecordOf
  <2>2. CASE artifact' = artifact
    BY <2>2 DEF Provenance
  <2> QED
    BY <2>1, <2>2 DEF IntakeReadsHead, IntakeRefuses, IntakeAnswers, IntakeFails
<1>6. intake'[c].step = "record" => comment[c].said # "chat"
  <2>1. CASE IntakeReadsHead(c)
    BY <2>1 DEF IntakeReadsHead
  <2>2. CASE ~IntakeReadsHead(c)
    BY <2>2, IntakeMoves DEF Moves
  <2> QED BY <2>1, <2>2
<1>7. intake'[c].step = "dispatch" => artifact'[c] # NoRequest
  <2>1. CASE IntakeRecords(c)
    <3>1. RecordOf(c) \in Requests
      BY <2>1, RecordIsRequest DEF IntakeRecords, IntakeAt
    <3>2. artifact'[c] = RecordOf(c)
      BY <2>1 DEF IntakeRecords, RecordOf, TypeOK
    <3> QED BY <3>1, <3>2, NoRequestAssumption
  <2>2. CASE ~IntakeRecords(c)
    BY <2>2, IntakeMoves DEF Moves
  <2> QED BY <2>1, <2>2
<1>8. \A p \in PRs : {intakeGroup'[p].holder, intakeGroup'[p].pending}
            \subseteq {intakeGroup[p].holder, intakeGroup[p].pending, Nobody}
  <2>1. \/ UNCHANGED intakeGroup
        \/ intakeGroup' = [intakeGroup EXCEPT ![PrOf[c]] = Grp!Release(@)]
    BY DEF IntakeReadsHead, IntakeRefuses, IntakeRecords, IntakeAnswers,
           IntakeFails, IntakeEnds
  <2>2. intakeGroup \in [PRs -> Grp!GroupOf(Comments)]
    BY DEF TypeOK
  <2> QED BY <2>1, <2>2, ReleaseFrame
<1>9. \A e \in Comments :
          /\ (intake[e].step # "none" => comment[e].state # "none")'
          /\ (intake[e].step = "none" => intake[e].attempt = 1)'
          /\ (intake[e].step = "record" => comment[e].said # "chat")'
          /\ (intake[e].step = "dispatch" => artifact[e] # NoRequest)'
          /\ (artifact[e] # NoRequest => /\ artifact[e].comment = e
                                        /\ artifact[e].pr = PrOf[e]
                                        /\ intake[e].step # "none")'
  BY <1>1, <1>2, <1>4, <1>5, <1>6, <1>7 DEF Provenance, Moves
<1>11. \A d \in Runs : (step[d] \in Preflighting \/ Admitted(d)
                          => intake[CommentOf(d)].step # "none")'
  <2>1. \A e \in Comments : intake[e].step # "none" => intake'[e].step # "none"
    BY <1>2 DEF Moves
  <2>2. ASSUME NEW d \in Runs, step[d] \in Preflighting \/ Admitted(d)
        PROVE  CommentOf(d) \in Comments
    BY <2>2, RequestOf DEF Preflighting, Admitted
  <2> QED BY <1>1, <1>3, <2>1, <2>2 DEF Provenance, Admitted
<1>10. \A p \in PRs : \A e \in Comments :
          (e \in {intakeGroup[p].holder, intakeGroup[p].pending}
                    => intake[e].step # "none")'
  BY <1>2, <1>8 DEF Provenance, Moves
<1> QED BY <1>1, <1>3, <1>9, <1>10, <1>11 DEF Provenance

(* A dispatch, by an intake run or by somebody else.                       *)
Sends(q) == \/ Redispatch(q)
            \/ \E c \in Comments : IntakeDispatches(c) /\ q = artifact[c]

LEMMA Dispatches ==
    ASSUME TypeOK, Provenance, NEW q \in Requests, Sends(q)
    PROVE  /\ \E d \in Runs : Dispatched(q, d)
           /\ UNCHANGED <<clock, comment, intakeGroup, artifact, recorded>>
           /\ \A e \in Comments :
                 /\ intake'[e].attempt = intake[e].attempt
                 /\ \/ intake'[e].step = intake[e].step
                    \/ intake[e].step = "dispatch" /\ intake'[e].step = "answer"
<1>1. Dispatch(q)
  BY DEF Sends, IntakeDispatches, Redispatch
<1>2. \E d \in Runs : Dispatched(q, d)
  BY <1>1, DispatchFrame
<1>3. UNCHANGED <<clock, comment, intakeGroup, artifact, recorded>>
  BY DEF Sends, IntakeDispatches, Redispatch, github, intakes
<1>4. CASE Redispatch(q)
  BY <1>2, <1>3, <1>4 DEF Redispatch, intakes
<1>5. ASSUME NEW c \in Comments, IntakeDispatches(c)
      PROVE  \A e \in Comments :
                 /\ intake'[e].attempt = intake[e].attempt
                 /\ \/ intake'[e].step = intake[e].step
                    \/ intake[e].step = "dispatch" /\ intake'[e].step = "answer"
  <2>1. Moves(c, "answer") /\ intake[c].step = "dispatch"
    BY <1>5, IntakeMoves DEF IntakeDispatches, IntakeAt
  <2> QED BY <2>1 DEF Moves
<1> QED BY <1>2, <1>3, <1>4, <1>5 DEF Sends

LEMMA ProvenanceDispatch ==
    ASSUME TypeOK, Provenance, NEW q \in Requests, Sends(q)
    PROVE  Provenance'
<1> USE IntakeAssumption
<1>1. PICK d \in Runs : Dispatched(q, d)
  BY Dispatches
<1>2. UNCHANGED <<comment, intakeGroup, artifact>>
  BY Dispatches
<1>3. \A e \in Comments :
        /\ intake'[e].attempt = intake[e].attempt
        /\ \/ intake'[e].step = intake[e].step
           \/ intake[e].step = "dispatch" /\ intake'[e].step = "answer"
  BY Dispatches
<1>4. \A e \in Runs : (step[e] = "unused" <=> request[e] = NoRequest)'
  BY <1>1, NoRequestAssumption DEF Dispatched, Provenance
<1>5. \A e \in Comments :
          /\ (intake[e].step # "none" => comment[e].state # "none")'
          /\ (intake[e].step = "none" => intake[e].attempt = 1)'
          /\ (intake[e].step = "record" => comment[e].said # "chat")'
          /\ (intake[e].step = "dispatch" => artifact[e] # NoRequest)'
          /\ (artifact[e] # NoRequest => /\ artifact[e].comment = e
                                        /\ artifact[e].pr = PrOf[e]
                                        /\ intake[e].step # "none")'
  BY <1>2, <1>3 DEF Provenance
<1>6. \A p \in PRs : \A e \in Comments :
          (e \in {intakeGroup[p].holder, intakeGroup[p].pending}
                    => intake[e].step # "none")'
  BY <1>2, <1>3 DEF Provenance
<1>7. \A p \in PRs : \A e \in Runs :
          (e \in {runGroup[p].holder, runGroup[p].pending}
                    => step[e] # "unused")'
  BY <1>1 DEF Provenance, Dispatched
<1>8. ASSUME NEW e \in Runs, step'[e] \in Preflighting \/ Admitted(e)'
      PROVE  intake'[CommentOf(e)'].step # "none"
  <2>1. /\ step[e] \in Preflighting \/ Admitted(e)
        /\ CommentOf(e)' = CommentOf(e)
    BY <1>1, <1>8 DEF Dispatched, Preflighting, Admitted, CommentOf
  <2>2. CommentOf(e) \in Comments
    BY <2>1, RequestOf DEF Preflighting, Admitted
  <2> QED BY <1>3, <2>1, <2>2 DEF Provenance
<1> QED BY <1>4, <1>5, <1>6, <1>7, <1>8 DEF Provenance

-----------------------------------------------------------------------------
(* The record.                                                             *)

(* Only runs that have been dispatched are compared or torn.               *)
LEMMA CommentsOf ==
    ASSUME TypeOK, Provenance
    PROVE  \A d \in Runs : step[d] # "unused" => CommentOf(d) \in Comments
BY RequestOf

LEMMA RecordQueues ==
    ASSUME TypeOK, Provenance, FirstRecord, NEW c \in Comments,
           IntakeArrives(c) \/ IntakeRerun(c)
    PROVE  FirstRecord'
<1>1. UNCHANGED <<artifact, recorded, request, step, torn>>
  BY DEF IntakeArrives, IntakeRerun, commands
<1>2. Queued(c)
  BY QueuesFrame DEF IntakeArrives, IntakeRerun
<1>3. \A e \in Comments : intake'[e].attempt = 1 =>
        /\ intake[e].attempt = 1
        /\ intake'[e].step \in {"none", "queued", "record"}
             => intake[e].step \in {"none", "queued", "record"}
  BY <1>2 DEF Queued, Provenance
<1>4. \A d \in Runs : /\ CommentOf(d)' = CommentOf(d)
                      /\ PrOfRun(d)' = PrOfRun(d)
                      /\ Compared(d)' <=> Compared(d)
  BY <1>1 DEF CommentOf, PrOfRun, Compared, Admitted
<1> QED BY <1>1, <1>3, <1>4 DEF FirstRecord

LEMMA RecordMoves ==
    ASSUME TypeOK, Provenance, FirstRecord, NEW c \in Comments,
           \/ IntakeReadsHead(c) \/ IntakeRefuses(c) \/ IntakeRecords(c)
           \/ IntakeAnswers(c) \/ IntakeFails(c)
    PROVE  FirstRecord'
<1>1. UNCHANGED <<request, step, torn>>
  BY DEF IntakeReadsHead, IntakeRefuses, IntakeRecords, IntakeAnswers,
         IntakeFails, commands
<1>2. \A d \in Runs : /\ CommentOf(d)' = CommentOf(d)
                      /\ PrOfRun(d)' = PrOfRun(d)
                      /\ Compared(d)' <=> Compared(d)
  BY <1>1 DEF CommentOf, PrOfRun, Compared, Admitted
<1>3. \A d \in Runs : Compared(d) => CommentOf(d) \in Comments
  BY CommentsOf DEF Compared, Preflighting, Admitted
<1>4. CASE IntakeRecords(c)
  <2>1. Moves(c, "dispatch") /\ intake[c].step = "record"
    BY <1>4, IntakeMoves DEF IntakeRecords, IntakeAt
  <2>2. /\ \A e \in Comments \ {c} :
              artifact'[e] = artifact[e] /\ recorded'[e] = recorded[e]
        /\ intake[c].attempt = 1 => artifact'[c] = recorded'[c]
        /\ intake[c].attempt # 1 => recorded'[c] = recorded[c]
    BY <1>4 DEF IntakeRecords, TypeOK
  <2>3. artifact'[c] # NoRequest
    <3>1. RecordOf(c) \in Requests /\ artifact'[c] = RecordOf(c)
      BY <1>4, <2>1, RecordIsRequest DEF IntakeRecords, RecordOf, TypeOK
    <3> QED BY <3>1, NoRequestAssumption
  <2>4. intake[c].attempt = 1 => artifact[c] = NoRequest
    BY <2>1 DEF FirstRecord
  <2>5. \A e \in Comments : (intake[e].attempt = 1 =>
          /\ artifact[e] = recorded[e]
          /\ intake[e].step \in {"none", "queued", "record"} =>
                artifact[e] = NoRequest)'
    BY <2>1, <2>2 DEF FirstRecord, Moves
  <2>6. ASSUME NEW d \in Runs, Compared(d)
        PROVE  /\ artifact'[CommentOf(d)] # NoRequest
               /\ PrOfRun(d) = PrOf[CommentOf(d)]
               /\ d \notin torn => request[d] = recorded'[CommentOf(d)]
    BY <1>3, <2>2, <2>3, <2>4, <2>6 DEF FirstRecord
  <2> QED BY <1>1, <1>2, <2>5, <2>6 DEF FirstRecord
<1>5. CASE ~IntakeRecords(c)
  <2>1. UNCHANGED <<artifact, recorded>>
    BY <1>5 DEF IntakeReadsHead, IntakeRefuses, IntakeAnswers, IntakeFails
  <2>2. \/ Moves(c, "record") /\ intake[c].step = "queued"
        \/ Moves(c, "done") \/ Moves(c, "failed")
    BY <1>5, IntakeMoves DEF IntakeReadsHead, IntakeAt
  <2>3. \A e \in Comments : intake'[e].attempt = 1 =>
          /\ intake[e].attempt = 1
          /\ intake'[e].step \in {"none", "queued", "record"}
               => intake[e].step \in {"none", "queued", "record"}
    BY <2>2 DEF Moves
  <2> QED BY <1>1, <1>2, <2>1, <2>3 DEF FirstRecord
<1> QED BY <1>4, <1>5

LEMMA RecordDispatch ==
    ASSUME TypeOK, Provenance, FirstRecord, NEW q \in Requests, Sends(q)
    PROVE  FirstRecord'
<1>1. PICK d \in Runs : Dispatched(q, d)
  BY Dispatches
<1>2. UNCHANGED <<artifact, recorded, torn>>
  BY <1>1, Dispatches DEF Dispatched
<1>3. \A e \in Comments : intake'[e].attempt = 1 =>
        /\ intake[e].attempt = 1
        /\ intake'[e].step \in {"none", "queued", "record"}
             => intake[e].step \in {"none", "queued", "record"}
  BY Dispatches
<1>4. ASSUME NEW e \in Runs, Compared(e)'
      PROVE  Compared(e) /\ request'[e] = request[e]
             /\ CommentOf(e)' = CommentOf(e) /\ PrOfRun(e)' = PrOfRun(e)
  BY <1>1, <1>4
     DEF Dispatched, Compared, Preflighting, Admitted, CommentOf, PrOfRun
<1> QED BY <1>2, <1>3, <1>4 DEF FirstRecord

(* A run is compared when it passes the download, and stays so.            *)
LEMMA RecordRun ==
    ASSUME TypeOK, Provenance, FirstRecord, NEW d \in Runs, RunStep(d)
    PROVE  FirstRecord'
<1>1. PICK t \in Steps : RunMoved(d, t)
  BY RunMoves
<1>2. UNCHANGED <<intake, artifact, recorded>>
  BY RunFrame DEF intakes
<1>3. /\ \A e \in Runs : /\ CommentOf(e)' = CommentOf(e)
                         /\ PrOfRun(e)' = PrOfRun(e)
      /\ \A e \in Runs \ {d} : step'[e] = step[e]
      /\ request' = request /\ step[d] # "unused" /\ step'[d] = t
  BY <1>1 DEF CommentOf, PrOfRun, RunMoved, TypeOK
<1>4. torn \subseteq torn' /\ torn' \subseteq torn \cup {d}
  BY RunFrame
<1>5. CASE ReadArtifact(d)
  <2>1. artifact[CommentOf(d)] = request[d] /\ request[d] \in Requests
        /\ CommentOf(d) \in Comments
    BY <1>3, <1>5, RequestOf DEF ReadArtifact
  <2>2. artifact[CommentOf(d)] # NoRequest
    BY <2>1, NoRequestAssumption
  <2>3. PrOfRun(d) = PrOf[CommentOf(d)]
    BY <2>1, <2>2 DEF Provenance, PrOfRun
  <2>4. d \notin torn' => request[d] = recorded[CommentOf(d)]
    <3>1. d \notin torn' => intake[CommentOf(d)].attempt = 1
      BY <1>5 DEF ReadArtifact
    <3> QED BY <2>1, <3>1 DEF FirstRecord
  <2>5. \A e \in Runs \ {d} : Compared(e)' <=> Compared(e)
    BY <1>3 DEF Compared, Admitted
  <2>6. ASSUME NEW e \in Runs, Compared(e)'
        PROVE  /\ artifact'[CommentOf(e)'] # NoRequest
               /\ PrOfRun(e)' = PrOf[CommentOf(e)']
               /\ e \notin torn' => request'[e] = recorded'[CommentOf(e)']
    BY <1>2, <1>3, <1>4, <2>2, <2>3, <2>4, <2>5, <2>6 DEF FirstRecord
  <2> QED BY <1>2, <2>6 DEF FirstRecord
<1>6. CASE ~ReadArtifact(d)
  <2>1. step[d] # "artifact" \/ t = "failed"
    BY <1>3, <1>6 DEF RunStep, ReadIntakeRun, ReadComment, ReadHead,
         ReadPullRequestAgain, ReadClock, ReadPermission, ReadStatuses,
         PostClaim, RereadIntakeRun, Revalidate, PreflightFails, Finish, At,
         Ends, TypeOK
  <2>2. \A e \in Runs : Compared(e)' => Compared(e)
    BY <1>1, <1>3, <2>1 DEF RunMoved, Leads, Compared, Preflighting, Admitted
  <2> QED BY <1>2, <1>3, <1>4, <2>2 DEF FirstRecord
<1> QED BY <1>5, <1>6

LEMMA RecordWorld ==
    ASSUME TypeOK, Provenance, FirstRecord, World
    PROVE  FirstRecord'
<1>1. UNCHANGED <<intake, artifact, recorded, request, step, torn>>
  BY DEF World, Tick, Push, Close, Revoke, EditComment, Say, intakes, commands
<1>2. \A d \in Runs : CommentOf(d)' = CommentOf(d) /\ PrOfRun(d)' = PrOfRun(d)
  BY <1>1 DEF CommentOf, PrOfRun
<1> QED BY <1>1, <1>2 DEF FirstRecord, Compared, Admitted

-----------------------------------------------------------------------------
(* Torn runs.                                                              *)

(* What neither moves a command run nor takes a later attempt back.        *)
LEMMA TornKept ==
    ASSUME TypeOK, Provenance, TornIsLast, UNCHANGED commands,
           \A c \in Comments : intake[c].attempt = 2 => intake'[c].attempt = 2
    PROVE  TornIsLast'
<1>1. \A d \in torn : d \in Runs /\ CommentOf(d) \in Comments
  BY CommentsOf DEF TypeOK, TornIsLast
<1>2. \A d \in Runs : /\ CommentOf(d)' = CommentOf(d)
                      /\ PrOfRun(d)' = PrOfRun(d)
                      /\ Prepared(d)' <=> Prepared(d)
  BY DEF CommentOf, PrOfRun, Prepared, commands
<1> QED BY <1>1, <1>2 DEF TornIsLast, commands

LEMMA TornDispatch ==
    ASSUME TypeOK, Provenance, TornIsLast, NEW q \in Requests, Sends(q)
    PROVE  TornIsLast'
<1>1. PICK d \in Runs : Dispatched(q, d)
  BY Dispatches
<1>2. torn' = torn /\ \A c \in Comments : intake'[c].attempt = intake[c].attempt
  BY <1>1, Dispatches DEF Dispatched
<1>3. /\ step[d] = "unused" /\ step'[d] = "queued"
      /\ \A e \in Runs \ {d} :
            /\ CommentOf(e)' = CommentOf(e) /\ PrOfRun(e)' = PrOfRun(e)
            /\ step'[e] = step[e] \/ step'[e] = "failed"
  BY <1>1 DEF Dispatched, CommentOf, PrOfRun
<1>4. \A e \in torn : e \in Runs \ {d} /\ CommentOf(e) \in Comments
  BY <1>3, CommentsOf DEF TypeOK, TornIsLast
<1>5. \A e \in torn :
         /\ (intake[CommentOf(e)].attempt)' = 2
         /\ step'[e] \notin {"unused", "queued", "again"} /\ ~Prepared(e)'
  BY <1>2, <1>3, <1>4 DEF TornIsLast, Prepared
<1>6. ASSUME NEW e \in torn, NEW x \in Runs, step'[x] = "artifact",
             CommentOf(x)' = CommentOf(e)'
      PROVE  PrOfRun(x)' # PrOf[CommentOf(x)']
  <2>1. x # d /\ step[x] = "artifact"
    BY <1>3, <1>6
  <2> QED BY <1>3, <1>4, <1>6, <2>1 DEF TornIsLast
<1>7. \A x, y \in torn : CommentOf(x)' = CommentOf(y)' => x = y
  BY <1>3, <1>4 DEF TornIsLast
<1> QED BY <1>2, <1>5, <1>6, <1>7 DEF TornIsLast

(* A run becomes torn alone in the group of its pull request, and no other *)
(* run of its comment gets past the first read any more.                   *)
LEMMA TornRun ==
    ASSUME TypeOK, Provenance, FirstRecord, InsideHolds, TornIsLast,
           NEW d \in Runs, RunStep(d)
    PROVE  TornIsLast'
<1>1. PICK t \in Steps : RunMoved(d, t)
  BY RunMoves
<1>2. intake' = intake /\ artifact' = artifact
  BY RunFrame DEF intakes
<1>3. /\ \A e \in Runs : /\ CommentOf(e)' = CommentOf(e)
                         /\ PrOfRun(e)' = PrOfRun(e)
      /\ \A e \in Runs \ {d} : step'[e] = step[e]
      /\ step[d] # "unused" /\ step'[d] = t /\ CommentOf(d) \in Comments
      /\ runGroup[PrOfRun(d)].holder = d
  BY <1>1, CommentsOf DEF CommentOf, PrOfRun, RunMoved, TypeOK
<1>4. \A e \in torn : e \in Runs
  BY DEF TypeOK
<1>5. CASE d \notin torn /\ ReadArtifact(d) /\ torn' = torn \cup {d}
           /\ intake[CommentOf(d)].attempt # 1
  <2>1. step[d] = "artifact" /\ t = "comment"
    BY <1>3, <1>5 DEF ReadArtifact, At, Goto, TypeOK
  <2>2. PrOfRun(d) = PrOf[CommentOf(d)]
    <3>1. artifact[CommentOf(d)] = request[d] /\ request[d] \in Requests
      BY <1>3, <1>5, RequestOf DEF ReadArtifact
    <3> QED BY <1>3, <3>1, NoRequestAssumption DEF Provenance, PrOfRun
  <2>3. \A e \in torn : CommentOf(e) # CommentOf(d)
    BY <2>1, <2>2 DEF TornIsLast
  <2>4. intake[CommentOf(d)].attempt = 2
    BY <1>3, <1>5 DEF TypeOK
  <2>5. ASSUME NEW x \in Runs, step'[x] = "artifact", CommentOf(x) = CommentOf(d)
        PROVE  PrOfRun(x) # PrOf[CommentOf(x)]
    <3>1. x # d /\ step[x] = "artifact"
      BY <1>3, <2>1, <2>5
    <3>2. runGroup[PrOfRun(x)].holder = x
      BY <3>1 DEF InsideHolds, Inside, Preflighting
    <3> QED BY <1>3, <2>2, <2>5, <3>1, <3>2
  <2>6. ASSUME NEW e \in torn'
        PROVE  /\ intake'[CommentOf(e)'].attempt = 2
               /\ step'[e] \notin {"unused", "queued", "again"}
               /\ ~Prepared(e)'
    BY <1>2, <1>3, <1>4, <1>5, <2>1, <2>4 DEF TornIsLast, Prepared
  <2>7. ASSUME NEW e \in torn', NEW x \in Runs, step'[x] = "artifact",
               CommentOf(x)' = CommentOf(e)'
        PROVE  PrOfRun(x)' # PrOf[CommentOf(x)']
    <3>1. step[x] = "artifact"
      BY <1>3, <2>1, <2>7
    <3> QED BY <1>3, <1>4, <1>5, <2>5, <2>7, <3>1 DEF TornIsLast
  <2>8. \A x, y \in torn' : CommentOf(x)' = CommentOf(y)' => x = y
    BY <1>3, <1>4, <1>5, <2>3 DEF TornIsLast
  <2> QED BY <2>6, <2>7, <2>8 DEF TornIsLast
<1>6. CASE torn' = torn
  <2>1. ASSUME d \in torn PROVE t \notin {"unused", "queued", "again"} /\ ~Prepared(d)'
    <3>1. intake[CommentOf(d)].attempt = 2 /\ step[d] \notin {"queued", "again"}
          /\ ~Prepared(d)
      BY <2>1 DEF TornIsLast
    <3>2. ~RereadIntakeRun(d)
      BY <3>1 DEF RereadIntakeRun, TrustedIntake
    <3>3. t # "again"
      <4>1. t = "again" => step[d] = "claimed"
        BY <1>1 DEF RunMoved, Leads
      <4>2. step[d] = "claimed" => t = "failed"
        BY <1>3, <3>2 DEF RunStep, ReadIntakeRun, ReadArtifact, ReadComment,
          ReadHead, ReadPullRequestAgain, ReadClock, ReadPermission,
          ReadStatuses, PostClaim, Revalidate, PreflightFails, Finish, At,
          Ends, TypeOK
      <4> QED BY <4>1, <4>2
    <3> QED BY <1>1, <1>3, <3>1, <3>3 DEF RunMoved, Leads, Prepared
  <2>2. ASSUME NEW e \in torn, NEW x \in Runs, step'[x] = "artifact",
               CommentOf(x) = CommentOf(e)
        PROVE  PrOfRun(x) # PrOf[CommentOf(x)]
    <3>1. CASE step[x] = "artifact"
      BY <2>2, <3>1 DEF TornIsLast
    <3>2. CASE step[x] # "artifact"
      <4>1. x = d /\ step[d] = "queued" /\ t = "artifact"
        BY <1>1, <1>3, <2>2, <3>2 DEF RunMoved, Leads
      <4>2. ReadIntakeRun(d)
        BY <1>3, <4>1 DEF RunStep, ReadArtifact, ReadComment,
          ReadHead, ReadPullRequestAgain, ReadClock, ReadPermission,
          ReadStatuses, PostClaim, RereadIntakeRun, Revalidate,
          PreflightFails, Finish, At, Ends, TypeOK
      <4>3. intake[CommentOf(e)].attempt = 1 /\ intake[CommentOf(e)].attempt = 2
        BY <2>2, <4>1, <4>2 DEF ReadIntakeRun, TrustedIntake, TornIsLast
      <4> QED BY <4>3
    <3> QED BY <3>1, <3>2
  <2>3. ASSUME NEW e \in torn
        PROVE  /\ intake'[CommentOf(e)'].attempt = 2
               /\ step'[e] \notin {"unused", "queued", "again"}
               /\ ~Prepared(e)'
    BY <1>2, <1>3, <1>4, <2>1 DEF TornIsLast, Prepared
  <2> QED BY <1>3, <1>4, <1>6, <2>2, <2>3 DEF TornIsLast
<1>7. \/ torn' = torn
      \/ d \notin torn /\ ReadArtifact(d) /\ torn' = torn \cup {d}
           /\ intake[CommentOf(d)].attempt # 1
  <2>1. torn' = torn \/ (torn' = torn \cup {d} /\ ReadArtifact(d)
                         /\ intake[CommentOf(d)].attempt # 1)
    BY RunFrame
  <2> QED BY <2>1
<1> QED BY <1>5, <1>6, <1>7

-----------------------------------------------------------------------------
(* Runs take turns, and claims.                                            *)

Turns == InsideHolds /\ ClaimsMatch /\ ConsumedTwiceOnlyAcrossRerun

(* What leaves the command runs alone leaves their turns and claims alone. *)
LEMMA TurnsKept ==
    ASSUME Turns, UNCHANGED commands
    PROVE  Turns'
BY DEF Turns, InsideHolds, ClaimsMatch, ConsumedTwiceOnlyAcrossRerun, Inside,
       Admitted, ClaimOf, CommentOf, PrOfRun, commands

LEMMA TurnsDispatch ==
    ASSUME TypeOK, Provenance, Turns, NEW q \in Requests, Sends(q)
    PROVE  Turns'
<1> USE IntakeAssumption
<1>1. PICK d \in Runs : Dispatched(q, d)
  BY Dispatches
<1>2. /\ step'[d] = "queued" /\ claims' = claims /\ torn' = torn
      /\ \A e \in Runs \ {d} : /\ request'[e] = request[e]
                               /\ \/ step'[e] = step[e]
                                  \/ step'[e] = "failed"
  BY <1>1 DEF Dispatched
<1>3. ASSUME NEW e \in Runs, Inside(e)'
      PROVE  runGroup'[PrOfRun(e)'].holder = e
  <2>1. e # d /\ Inside(e) /\ PrOfRun(e)' = PrOfRun(e)
    BY <1>2, <1>3 DEF Inside, Preflighting, PrOfRun
  <2>2. runGroup[PrOfRun(e)].holder = e
    BY <2>1 DEF Turns, InsideHolds
  <2>3. PrOfRun(e) \in PRs /\ e # Nobody
    BY <2>1, RequestOf DEF Inside, Preflighting
  <2> QED BY <1>1, <2>1, <2>2, <2>3 DEF Dispatched
<1>4. ASSUME NEW e \in Runs, Admitted(e)' \/ step'[e] = "claim"
      PROVE  /\ step'[e] = step[e] /\ CommentOf(e)' = CommentOf(e)
             /\ ClaimOf(e)' = ClaimOf(e) /\ request'[e] = request[e]
  BY <1>2, <1>4 DEF Admitted, ClaimOf, CommentOf
<1>5. InsideHolds'
  BY <1>3 DEF InsideHolds
<1>6. ClaimsMatch'
  BY <1>2, <1>4 DEF Turns, ClaimsMatch, Admitted
<1>7. ConsumedTwiceOnlyAcrossRerun'
  BY <1>2, <1>4 DEF Turns, ConsumedTwiceOnlyAcrossRerun, Admitted
<1> QED BY <1>5, <1>6, <1>7 DEF Turns

LEMMA HoldersRun ==
    ASSUME TypeOK, Provenance, InsideHolds, NEW d \in Runs, RunStep(d)
    PROVE  InsideHolds'
<1>1. PICK t \in Steps : RunMoved(d, t)
  BY RunMoves
<1>2. /\ \A e \in Runs : PrOfRun(e)' = PrOfRun(e)
      /\ step'[d] = t /\ \A e \in Runs \ {d} : step'[e] = step[e]
  BY <1>1 DEF RunMoved, TypeOK, PrOfRun
<1>3. ASSUME NEW e \in Runs, Inside(e)'
      PROVE  runGroup'[PrOfRun(e)].holder = e
  <2>1. CASE e = d
    <3>1. t \notin {"ended", "failed"}
      BY <1>2, <1>3, <2>1 DEF Inside, Preflighting
    <3> QED BY <1>1, <2>1, <3>1 DEF RunMoved
  <2>2. CASE e # d
    <3>1. Inside(e)
      BY <1>2, <1>3, <2>2 DEF Inside
    <3>2. runGroup[PrOfRun(e)].holder = e /\ PrOfRun(e) \in PRs
      BY <3>1, RequestOf DEF InsideHolds, Inside, Preflighting
    <3>3. runGroup[PrOfRun(d)].holder = d
      BY <1>1 DEF RunMoved
    <3>4. PrOfRun(e) # PrOfRun(d)
      BY <2>2, <3>2, <3>3
    <3> QED BY <1>1, <3>2, <3>4 DEF RunMoved, TypeOK
  <2> QED BY <2>1, <2>2
<1> QED BY <1>2, <1>3 DEF InsideHolds

(* Only PostClaim admits a run, and only with its claim.                   *)
LEMMA TurnsRun ==
    ASSUME TypeOK, Provenance, FirstRecord, TornIsLast, Turns,
           NEW d \in Runs, RunStep(d)
    PROVE  Turns'
<1>1. PICK t \in Steps : RunMoved(d, t)
  BY RunMoves
<1>2. /\ step'[d] = t /\ \A e \in Runs \ {d} : step'[e] = step[e]
      /\ request' = request
      /\ \A e \in Runs : /\ CommentOf(e)' = CommentOf(e)
                         /\ ClaimOf(e)' = ClaimOf(e)
  BY <1>1 DEF RunMoved, TypeOK, CommentOf, ClaimOf
<1>3. InsideHolds'
  BY HoldersRun DEF Turns
<1>4. CASE PostClaim(d)
  <2>1. step[d] = "claim" /\ claims' = claims \cup {ClaimOf(d)}
        /\ runGroup[PrOfRun(d)].holder = d /\ torn' = torn
    BY <1>4 DEF PostClaim, At
  <2>2. t \in {"claimed", "failed"}
    <3>1. Goto(d, "claimed") \/ Ends(d, "failed")
      BY <1>4 DEF PostClaim
    <3> QED BY <1>2, <3>1 DEF Goto, Ends, TypeOK
  <2>3. ASSUME NEW e \in Runs \ {d}, step[e] = "claim"
        PROVE  ClaimOf(e) # ClaimOf(d)
    <3>1. runGroup[PrOfRun(e)].holder = e
      BY <2>3 DEF Turns, InsideHolds, Inside, Preflighting
    <3>2. /\ PrOfRun(e) = PrOf[CommentOf(e)]
          /\ PrOfRun(d) = PrOf[CommentOf(d)]
      BY <2>1, <2>3 DEF FirstRecord, Compared, Preflighting
    <3>3. CommentOf(e) # CommentOf(d)
      BY <2>1, <3>1, <3>2
    <3> QED BY <3>3 DEF ClaimOf
  <2>4. ASSUME NEW e \in Runs, Admitted(e), CommentOf(e) = CommentOf(d)
        PROVE  /\ request[e].head # request[d].head
               /\ (e \in torn) # (d \in torn)
    <3>1. Compared(e) /\ Compared(d) /\ e # d
      BY <2>1, <2>4 DEF Compared, Admitted, Preflighting
    <3>2. ClaimOf(e) \in claims /\ ClaimOf(d) \notin claims
      BY <2>1, <2>4 DEF Turns, ClaimsMatch
    <3>3. request[e].head # request[d].head
      BY <2>4, <3>2 DEF ClaimOf
    <3>4. e \in torn \/ d \in torn
      BY <2>4, <3>1, <3>3 DEF FirstRecord
    <3>5. ~(e \in torn /\ d \in torn)
      BY <2>4, <3>1 DEF TornIsLast
    <3> QED BY <3>3, <3>4, <3>5
  <2>5. \A e \in Runs \ {d} : Admitted(e)' => Admitted(e)
    BY <1>2 DEF Admitted
  <2>6. ClaimsMatch'
    <3>1. ASSUME NEW e \in Runs, Admitted(e)' PROVE ClaimOf(e)' \in claims'
      BY <1>2, <2>1, <2>5, <3>1 DEF Turns, ClaimsMatch
    <3>2. ASSUME NEW e \in Runs, step'[e] = "claim"
          PROVE  ClaimOf(e)' \notin claims'
      <4>1. e # d /\ step[e] = "claim"
        BY <1>2, <2>2, <3>2
      <4> QED BY <1>2, <2>1, <2>3, <4>1 DEF Turns, ClaimsMatch
    <3> QED BY <3>1, <3>2 DEF ClaimsMatch
  <2>7. ConsumedTwiceOnlyAcrossRerun'
    <3> SUFFICES ASSUME NEW x \in Runs, NEW y \in Runs,
                        Admitted(x)', Admitted(y)', x # y,
                        CommentOf(x)' = CommentOf(y)'
                 PROVE  /\ request'[x].head # request'[y].head
                        /\ (x \in torn') # (y \in torn')
      BY DEF ConsumedTwiceOnlyAcrossRerun
    <3>1. CASE x # d /\ y # d
      BY <1>2, <2>1, <2>5, <3>1 DEF Turns, ConsumedTwiceOnlyAcrossRerun
    <3>2. CASE x = d
      BY <1>2, <2>1, <2>4, <2>5, <3>2
    <3>3. CASE y = d
      BY <1>2, <2>1, <2>4, <2>5, <3>3
    <3> QED BY <3>1, <3>2, <3>3
  <2> QED BY <1>3, <2>6, <2>7 DEF Turns
<1>5. CASE ~PostClaim(d)
  <2>1. claims' = claims
    BY <1>5, RunFrame
  <2>2. Admitted(d)' => Admitted(d)
    <3>1. step[d] # "claim" \/ t = "failed"
      BY <1>2, <1>5 DEF RunStep, ReadIntakeRun, ReadArtifact, ReadComment,
        ReadHead, ReadPullRequestAgain, ReadClock, ReadPermission,
        ReadStatuses, RereadIntakeRun, Revalidate, PreflightFails, Finish,
        At, Ends, TypeOK
    <3> QED BY <1>1, <1>2, <3>1 DEF RunMoved, Leads, Admitted
  <2>3. t = "claim" => ClaimOf(d) \notin claims
    <3>1. t = "claim" => step[d] = "statuses"
      BY <1>1 DEF RunMoved, Leads
    <3>2. step[d] = "statuses" => ReadStatuses(d) \/ t = "failed"
      BY <1>2 DEF RunStep, ReadIntakeRun, ReadArtifact, ReadComment,
        ReadHead, ReadPullRequestAgain, ReadClock, ReadPermission,
        PostClaim, RereadIntakeRun, Revalidate, PreflightFails, Finish,
        At, Ends, TypeOK
    <3> QED BY <3>1, <3>2 DEF ReadStatuses
  <2>4. \A e \in Runs : Admitted(e)' => Admitted(e)
    BY <1>2, <2>2 DEF Admitted
  <2>5. ClaimsMatch'
    BY <1>2, <2>1, <2>3, <2>4 DEF Turns, ClaimsMatch
  <2>6. ConsumedTwiceOnlyAcrossRerun'
    <3>1. \A e \in Runs : Admitted(e) => (e \in torn' <=> e \in torn)
      <4>1. Admitted(d) => torn' = torn
        BY RunFrame DEF ReadArtifact, At, Admitted
      <4>2. torn' = torn \/ torn' = torn \cup {d}
        BY RunFrame
      <4> QED BY <4>1, <4>2
    <3> QED BY <1>2, <2>4, <3>1 DEF Turns, ConsumedTwiceOnlyAcrossRerun
  <2> QED BY <1>3, <2>5, <2>6 DEF Turns
<1> QED BY <1>4, <1>5

-----------------------------------------------------------------------------
(* Time.                                                                   *)

Timely == JobsAreYoung /\ ConsumedInTime

LEMMA TimelyWorld ==
    ASSUME TypeOK, Provenance, Timely, World
    PROVE  Timely'
<1> USE IntakeAssumption
<1>1. UNCHANGED <<request, step, since, claimedAt>>
  BY DEF World, Tick, Push, Close, Revoke, EditComment, Say, commands
<1>2. \A d \in Runs : CommentOf(d)' = CommentOf(d)
  BY <1>1 DEF CommentOf
<1>3. ASSUME NEW c \in Comments, comment[c].state # "none"
      PROVE  comment'[c].created = comment[c].created
  <2>1. CASE comment' = comment
    BY <2>1
  <2>2. ASSUME NEW e \in Comments, EditComment(e)
        PROVE  comment'[c].created = comment[c].created
    <3>1. PICK b \in Bodies, s \in {"posted", "edited"} :
            comment' = [comment EXCEPT ![e].state = s, ![e].body = b]
      BY <2>2 DEF EditComment
    <3>2. comment \in [Comments -> Texts]
      BY DEF TypeOK, Texts
    <3> QED BY <3>1, <3>2 DEF Texts
  <2>3. ASSUME NEW e \in Comments, Say(e)
        PROVE  comment'[c].created = comment[c].created
    <3>1. comment[e].state = "none" /\ \E t : comment' = [comment EXCEPT ![e] = t]
      BY <2>3 DEF Say
    <3> QED BY <1>3, <3>1 DEF TypeOK
  <2> QED
    BY <2>1, <2>2, <2>3 DEF World, Tick, Push, Close, Revoke, github
<1>4. ASSUME NEW d \in Runs, step[d] \in Preflighting \/ Admitted(d)
      PROVE  comment'[CommentOf(d)].created = comment[CommentOf(d)].created
  <2>1. CommentOf(d) \in Comments
    BY <1>4, RequestOf DEF Preflighting, Admitted
  <2>2. comment[CommentOf(d)].state # "none"
    BY <1>4, <2>1 DEF Provenance
  <2> QED BY <1>3, <2>1, <2>2
<1>5. \/ clock' = clock
      \/ /\ clock' = clock + 1
         /\ \A d \in Runs :
               step[d] \in Preflighting => clock < since[d] + TimeLimit
  BY DEF World, Tick, Push, Close, Revoke, EditComment, Say
<1>6. ASSUME NEW d \in Runs, step[d] \in Preflighting
      PROVE  since[d] <= clock' /\ clock' <= since[d] + TimeLimit
  <2>1. since[d] <= clock /\ clock <= since[d] + TimeLimit
    BY <1>6 DEF Timely, JobsAreYoung
  <2>2. clock \in Nat /\ since[d] \in Nat /\ TimeLimit \in Nat
    BY DEF TypeOK
  <2> QED BY <1>5, <1>6, <2>1, <2>2
<1>7. JobsAreYoung'
  BY <1>1, <1>2, <1>4, <1>6 DEF Timely, JobsAreYoung, Preflighting
<1>8. ConsumedInTime'
  BY <1>1, <1>2, <1>4 DEF Timely, ConsumedInTime, Admitted
<1> QED BY <1>7, <1>8 DEF Timely

LEMMA TimelyKept ==
    ASSUME Timely, UNCHANGED <<clock, comment, commands>>
    PROVE  Timely'
BY DEF Timely, JobsAreYoung, ConsumedInTime, Admitted, CommentOf, commands

LEMMA TimelyDispatch ==
    ASSUME TypeOK, Provenance, Timely, NEW q \in Requests, Sends(q)
    PROVE  Timely'
<1>1. PICK d \in Runs : Dispatched(q, d)
  BY Dispatches
<1>2. UNCHANGED <<clock, comment, since, claimedAt>>
  BY <1>1, Dispatches DEF Dispatched
<1>3. ASSUME NEW e \in Runs, step'[e] \in Preflighting \/ Admitted(e)'
      PROVE  step'[e] = step[e] /\ CommentOf(e)' = CommentOf(e)
  BY <1>1, <1>3 DEF Dispatched, Admitted, CommentOf, Preflighting
<1>4. JobsAreYoung'
  BY <1>2, <1>3 DEF Timely, JobsAreYoung, Preflighting
<1>5. ConsumedInTime'
  BY <1>2, <1>3 DEF Timely, ConsumedInTime, Admitted
<1> QED BY <1>4, <1>5 DEF Timely

LEMMA TimelyRun ==
    ASSUME TypeOK, Provenance, Timely, NEW d \in Runs, RunStep(d)
    PROVE  Timely'
<1> USE IntakeAssumption
<1>1. PICK t \in Steps : RunMoved(d, t)
  BY RunMoves
<1>2. /\ step'[d] = t /\ \A e \in Runs \ {d} : step'[e] = step[e]
      /\ \A e \in Runs : CommentOf(e)' = CommentOf(e)
  BY <1>1 DEF RunMoved, TypeOK, CommentOf
<1>3. UNCHANGED <<clock, comment>>
  BY RunFrame DEF github
<1>4. /\ clock \in Nat /\ since[d] \in Nat /\ TimeLimit \in Nat
      /\ ExpiresAfter \in Nat /\ comment[CommentOf(d)].created \in Nat
  <2>1. CommentOf(d) \in Comments
    BY <1>1, RequestOf DEF RunMoved
  <2> QED BY <2>1 DEF TypeOK
<1>5. /\ \A e \in Runs \ {d} :
            since'[e] = since[e] /\ claimedAt'[e] = claimedAt[e]
      /\ since'[d] = since[d] \/ (since'[d] = clock /\ ReadIntakeRun(d))
      /\ claimedAt'[d] = claimedAt[d] \/ (claimedAt'[d] = clock /\ PostClaim(d))
  <2>1. \/ since' = since
        \/ since' = [since EXCEPT ![d] = clock] /\ ReadIntakeRun(d)
    BY RunFrame
  <2>2. \/ claimedAt' = claimedAt
        \/ claimedAt' = [claimedAt EXCEPT ![d] = clock] /\ PostClaim(d)
    BY RunFrame
  <2> QED BY <2>1, <2>2 DEF TypeOK
<1>6. CASE ReadIntakeRun(d)
  <2>1. since'[d] = clock /\ t = "artifact" /\ claimedAt' = claimedAt
    BY <1>2, <1>6 DEF ReadIntakeRun, Goto, TypeOK
  <2>2. JobsAreYoung'
    <3>1. clock <= clock + TimeLimit /\ clock <= clock
      BY <1>4
    <3>2. /\ since'[d] <= clock' /\ clock' <= since'[d] + TimeLimit
          /\ step'[d] \notin {"permission", "statuses", "claim"}
      BY <1>2, <1>3, <2>1, <3>1
    <3>3. ASSUME NEW e \in Runs \ {d}
          PROVE  /\ step'[e] = step[e] /\ since'[e] = since[e]
                 /\ comment'[CommentOf(e)'] = comment[CommentOf(e)]
      BY <1>2, <1>3, <1>5
    <3> QED BY <1>3, <3>2, <3>3 DEF Timely, JobsAreYoung
  <2>3. ConsumedInTime'
    BY <1>2, <1>3, <2>1 DEF Timely, ConsumedInTime, Admitted
  <2> QED BY <2>2, <2>3 DEF Timely
<1>7. CASE PostClaim(d)
  <2>1. t \in {"claimed", "failed"} /\ claimedAt'[d] = clock /\ since' = since
    <3>1. Goto(d, "claimed") \/ Ends(d, "failed")
      BY <1>7 DEF PostClaim
    <3> QED BY <1>2, <1>7, <3>1 DEF PostClaim, Goto, Ends, TypeOK
  <2>2. clock <= comment[CommentOf(d)].created + ExpiresAfter + TimeLimit
    <3>1. step[d] = "claim"
      BY <1>7 DEF PostClaim, At
    <3>2. /\ clock <= since[d] + TimeLimit
          /\ since[d] <= comment[CommentOf(d)].created + ExpiresAfter
      BY <3>1 DEF Timely, JobsAreYoung, Preflighting
    <3> QED BY <1>4, <3>2
  <2>3. JobsAreYoung'
    BY <1>2, <1>3, <2>1 DEF Timely, JobsAreYoung, Preflighting
  <2>4. ConsumedInTime'
    BY <1>2, <1>3, <1>5, <2>1, <2>2 DEF Timely, ConsumedInTime, Admitted
  <2> QED BY <2>3, <2>4 DEF Timely
<1>8. CASE ~ReadIntakeRun(d) /\ ~PostClaim(d)
  <2>1. /\ \A e \in Runs : since'[e] = since[e] /\ claimedAt'[e] = claimedAt[e]
    BY <1>5, <1>8
  <2>2. t \in Preflighting => step[d] \in Preflighting
    <3>1. step[d] = "queued" => t = "failed"
      BY <1>2, <1>8 DEF RunStep, ReadArtifact, ReadComment, ReadHead,
         ReadPullRequestAgain, ReadClock, ReadPermission, ReadStatuses,
         RereadIntakeRun, Revalidate, PreflightFails, Finish, At, Ends, TypeOK
    <3> QED BY <1>1, <3>1 DEF RunMoved, Leads, Preflighting
  <2>3. ASSUME t \in {"permission", "statuses", "claim"}
        PROVE  since[d] <= comment[CommentOf(d)].created + ExpiresAfter
    <3>1. CASE ReadClock(d)
      <4>1. /\ clock - comment[CommentOf(d)].created <= ExpiresAfter
            /\ step[d] \in Preflighting
        BY <1>4, <3>1 DEF ReadClock, InTime, At, Preflighting
      <4>2. since[d] <= clock
        BY <4>1 DEF Timely, JobsAreYoung
      <4> QED BY <1>4, <4>1, <4>2
    <3>2. CASE ~ReadClock(d)
      <4>1. step[d] = "now" => t = "failed"
        BY <1>2, <3>2 DEF RunStep, ReadIntakeRun, ReadArtifact, ReadComment,
         ReadHead, ReadPullRequestAgain, ReadPermission, ReadStatuses,
         PostClaim, RereadIntakeRun, Revalidate, PreflightFails, Finish, At,
         Ends, TypeOK
      <4>2. step[d] \in {"permission", "statuses"}
        BY <1>1, <2>3, <4>1 DEF RunMoved, Leads
      <4> QED BY <4>2 DEF Timely, JobsAreYoung
    <3> QED BY <3>1, <3>2
  <2>4. Admitted(d)' => Admitted(d)
    <3>1. step[d] = "claim" => t = "failed"
      BY <1>2, <1>8 DEF RunStep, ReadIntakeRun, ReadArtifact, ReadComment,
        ReadHead, ReadPullRequestAgain, ReadClock, ReadPermission,
        ReadStatuses, RereadIntakeRun, Revalidate, PreflightFails, Finish,
        At, Ends, TypeOK
    <3> QED BY <1>1, <1>2, <3>1 DEF RunMoved, Leads, Admitted
  <2>5. JobsAreYoung'
    BY <1>2, <1>3, <2>1, <2>2, <2>3 DEF Timely, JobsAreYoung
  <2>6. ConsumedInTime'
    <3>1. \A e \in Runs : Admitted(e)' => Admitted(e)
      BY <1>2, <2>4 DEF Admitted
    <3> QED BY <1>2, <1>3, <2>1, <3>1 DEF Timely, ConsumedInTime
  <2> QED BY <2>5, <2>6 DEF Timely
<1> QED BY <1>6, <1>7, <1>8

-----------------------------------------------------------------------------
(* Every step keeps the invariant.                                         *)

LEMMA InitIntake == Init => IntakeInv
<1> SUFFICES ASSUME Init PROVE IntakeInv
  OBVIOUS
<1> USE IntakeAssumption
<1>1. TypeOK
  BY InitTypes
<1>2. /\ \A d \in Runs : step[d] = "unused" /\ request[d] = NoRequest
      /\ \A c \in Comments : /\ artifact[c] = NoRequest /\ recorded[c] = NoRequest
                             /\ intake[c].step = "none" /\ intake[c].attempt = 1
      /\ \A p \in PRs : /\ intakeGroup[p].holder = Nobody
                        /\ intakeGroup[p].pending = Nobody
                        /\ runGroup[p].holder = Nobody
                        /\ runGroup[p].pending = Nobody
  BY DEF Init, Grp!EmptyGroup
<1>3. Provenance /\ FirstRecord
  BY <1>2 DEF Provenance, FirstRecord, Preflighting, Admitted, Compared
<1>4. TornIsLast
  BY DEF Init, TornIsLast
<1>5. InsideHolds /\ ClaimsMatch /\ JobsAreYoung /\ ConsumedInTime
      /\ ConsumedTwiceOnlyAcrossRerun
  BY <1>2 DEF InsideHolds, ClaimsMatch, JobsAreYoung, ConsumedInTime,
              ConsumedTwiceOnlyAcrossRerun, Inside, Preflighting, Admitted
<1> QED BY <1>1, <1>3, <1>4, <1>5 DEF IntakeInv

Kept == TypeOK /\ Provenance /\ FirstRecord /\ TornIsLast /\ Turns /\ Timely

LEMMA KeptIsInv == IntakeInv <=> Kept
BY DEF IntakeInv, Kept, Turns, Timely

LEMMA WorldKeeps == Kept /\ World => Kept'
<1> SUFFICES ASSUME Kept, World PROVE Kept'
  OBVIOUS
<1>1. UNCHANGED commands /\ UNCHANGED intakes
  BY DEF World, Tick, Push, Close, Revoke, EditComment, Say
<1>2. TypeOK' /\ Provenance' /\ FirstRecord'
  BY WorldTypes, ProvenanceWorld, RecordWorld DEF Kept
<1>3. TornIsLast'
  BY <1>1, TornKept DEF Kept, intakes
<1>4. Turns' /\ Timely'
  BY <1>1, TurnsKept, TimelyWorld DEF Kept
<1> QED BY <1>2, <1>3, <1>4 DEF Kept

LEMMA IntakeKeeps ==
    ASSUME Kept, NEW c \in Comments,
           \/ IntakeArrives(c) \/ IntakeRerun(c)
           \/ IntakeReadsHead(c) \/ IntakeRefuses(c) \/ IntakeRecords(c)
           \/ IntakeAnswers(c) \/ IntakeFails(c)
    PROVE  Kept'
<1>1. UNCHANGED <<clock, comment, commands>>
  BY DEF IntakeArrives, IntakeRerun, IntakeReadsHead, IntakeRefuses,
         IntakeRecords, IntakeAnswers, IntakeFails, github
<1>2. Turns' /\ Timely'
  BY <1>1, TurnsKept, TimelyKept DEF Kept
<1>3. CASE IntakeArrives(c) \/ IntakeRerun(c)
  <2>1. Queued(c)
    BY <1>3, QueuesFrame DEF Kept, IntakeArrives, IntakeRerun
  <2>2. \A e \in Comments : intake[e].attempt = 2 => intake'[e].attempt = 2
    BY <2>1 DEF Kept, Queued, Provenance
  <2> QED BY <1>1, <1>2, <1>3, <2>2, IntakeTypes, ProvenanceIntake,
             RecordQueues, TornKept DEF Kept
<1>4. CASE ~(IntakeArrives(c) \/ IntakeRerun(c))
  <2>1. IntakeStep(c)
    BY <1>4 DEF IntakeStep
  <2>2. \A e \in Comments : intake[e].attempt = 2 => intake'[e].attempt = 2
    BY <1>4, IntakeMoves DEF Kept, Moves
  <2> QED BY <1>1, <1>2, <1>4, <2>1, <2>2, IntakeTypes, ProvenanceMoves,
             RecordMoves, TornKept DEF Kept
<1> QED BY <1>3, <1>4

LEMMA DispatchKeeps ==
    ASSUME Kept, NEW q \in Requests, Sends(q), TypeOK'
    PROVE  Kept'
BY ProvenanceDispatch, RecordDispatch, TornDispatch, TurnsDispatch,
   TimelyDispatch DEF Kept

LEMMA RunKeeps ==
    ASSUME Kept, NEW d \in Runs, RunStep(d)
    PROVE  Kept'
<1>1. TypeOK' /\ Provenance' /\ FirstRecord'
  BY RunTypes, ProvenanceRun, RecordRun DEF Kept
<1>2. TornIsLast'
  BY TornRun DEF Kept, Turns
<1>3. Turns' /\ Timely'
  BY TurnsRun, TimelyRun DEF Kept
<1> QED BY <1>1, <1>2, <1>3 DEF Kept

LEMMA StutterKeeps == Kept /\ UNCHANGED vars => Kept'
<1> SUFFICES ASSUME Kept, UNCHANGED vars PROVE Kept'
  OBVIOUS
<1>1. /\ UNCHANGED <<clock, events, prs, writers, comment, commands>>
      /\ UNCHANGED <<intake, intakeGroup, artifact, recorded>>
  BY DEF vars, github, intakes
<1>2. UNCHANGED <<request, step, since, runGroup, claims, claimedAt, torn>>
  BY <1>1 DEF commands
<1>3. TypeOK'
  BY <1>1, <1>2 DEF Kept, TypeOK
<1>4. Provenance'
  BY <1>1, <1>2 DEF Kept, Provenance, CommentOf, Admitted
<1>5. FirstRecord'
  BY <1>1, <1>2 DEF Kept, FirstRecord, CommentOf, PrOfRun, Compared, Admitted
<1>6. TornIsLast'
  BY <1>1, TornKept DEF Kept
<1> QED BY <1>1, <1>3, <1>4, <1>5, <1>6, TurnsKept, TimelyKept DEF Kept

LEMMA NextKeeps == IntakeInv /\ [Next]_vars => IntakeInv'
<1> SUFFICES ASSUME Kept, [Next]_vars PROVE Kept'
  BY KeptIsInv DEF Kept, IntakeInv, Turns, Timely
<1>1. ASSUME NEW c \in Comments, IntakeDispatches(c)
      PROVE  Kept'
  <2>1. artifact[c] \in Requests
    BY <1>1 DEF Kept, TypeOK, Provenance, IntakeDispatches, IntakeAt
  <2>3. Sends(artifact[c])
    BY <1>1 DEF Sends
  <2>2. TypeOK'
    BY <1>1, IntakeTypes DEF Kept, IntakeStep
  <2> QED BY <2>1, <2>2, <2>3, DispatchKeeps
<1>2. ASSUME NEW q \in Requests, Redispatch(q)
      PROVE  Kept'
  <2>1. TypeOK'
    BY <1>2, RedispatchTypes DEF Kept
  <2> QED BY <1>2, <2>1, DispatchKeeps DEF Sends
<1> QED BY <1>1, <1>2, WorldKeeps, IntakeKeeps, RunKeeps, StutterKeeps
        DEF Next, IntakeStep

-----------------------------------------------------------------------------
(* Theorems.                                                               *)

(* The invariant of the intake and of the command runs it starts, whatever *)
(* payloads are dispatched.                                                *)
THEOREM IntakeInvariant == Spec => []IntakeInv
BY InitIntake, NextKeeps, PTL DEF Spec

(* Intake runs, requests, groups and claims keep their types.              *)
THEOREM IntakeTypeCorrect == Spec => []TypeOK
<1>1. IntakeInv => TypeOK
  BY DEF IntakeInv
<1> QED BY <1>1, IntakeInvariant, PTL

(* Of all runs dispatched for a comment, by the intake or by anybody else, *)
(* one at most gets as far as to act on it.                                *)
THEOREM CommentsActOnce == Spec => []ActedOnOnce
<1>1. IntakeInv => ActedOnOnce
  <2> SUFFICES ASSUME IntakeInv, NEW d \in Runs, NEW e \in Runs,
                      Prepared(d), Prepared(e), CommentOf(d) = CommentOf(e)
               PROVE  d = e
    BY DEF ActedOnOnce
  <2>1. d \notin torn /\ e \notin torn
    BY DEF IntakeInv, TornIsLast
  <2> QED BY <2>1 DEF IntakeInv, ConsumedTwiceOnlyAcrossRerun, Prepared, Admitted
<1> QED BY <1>1, IntakeInvariant, PTL

(* A run that acts does what the first attempt of the intake recorded,     *)
(* whatever payload started it and whichever artifact it compared.         *)
THEOREM ActionsAreRecorded == Spec => []ActedOnAsRecorded
<1>1. IntakeInv => ActedOnAsRecorded
  <2> SUFFICES ASSUME IntakeInv, NEW d \in Runs, Prepared(d)
               PROVE  request[d] = recorded[CommentOf(d)]
    BY DEF ActedOnAsRecorded
  <2>1. d \notin torn
    BY DEF IntakeInv, TornIsLast
  <2> QED BY <2>1 DEF IntakeInv, FirstRecord, Compared, Prepared, Admitted
<1> QED BY <1>1, IntakeInvariant, PTL

(* A comment consumed twice was consumed for two heads, by two runs of     *)
(* which exactly one read its artifact after a re-run of the intake.       *)
THEOREM ConsumptionsAcrossReruns == Spec => []ConsumedTwiceOnlyAcrossRerun
<1>1. IntakeInv => ConsumedTwiceOnlyAcrossRerun
  BY DEF IntakeInv
<1> QED BY <1>1, IntakeInvariant, PTL

(* No comment is consumed after its deadline and one preflight job.        *)
THEOREM ConsumptionsAreTimely == Spec => []ConsumedInTime
<1>1. IntakeInv => ConsumedInTime
  BY DEF IntakeInv
<1> QED BY <1>1, IntakeInvariant, PTL

(* Command runs of one pull request never overlap.                         *)
THEOREM RunsTakeTurns == Spec => []RunsOfOnePullRequestTakeTurns
<1>1. IntakeInv => RunsOfOnePullRequestTakeTurns
  <2> SUFFICES ASSUME IntakeInv, NEW d \in Runs, NEW e \in Runs,
                      Inside(d), Inside(e), PrOfRun(d) = PrOfRun(e)
               PROVE  d = e
    BY DEF RunsOfOnePullRequestTakeTurns
  <2> QED BY DEF IntakeInv, InsideHolds
<1> QED BY <1>1, IntakeInvariant, PTL
===============================================================================
