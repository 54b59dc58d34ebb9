------------------------ MODULE ServiceExecution_proofs ------------------------
(***************************************************************************)
(* Proofs about ServiceExecution for any set of processes, capacity, limits*)
(* and deadlines, any number of deliveries and requests that lapse and are *)
(* good again: the call ends in time with nobody left, its success is      *)
(* whole, what the jobs around it publish was admitted after it was made,  *)
(* and what they replay is what they published.                            *)
(***************************************************************************)
EXTENDS ServiceExecution, TLAPS

-----------------------------------------------------------------------------
(* A request that has not stood since the last program ended does not      *)
(* stand now, and none such is in sight where a program is about to begin. *)
Admitted ==
    /\ stale => ~valid
    /\ ~running /\ job \in {1, 3} /\ at = 11 => ~stale
    /\ ~running /\ job = 2 /\ at = 14 => ~stale

(* The output of the preview is made whole once, and goes on from place to *)
(* place with it.                                                          *)
Published ==
    /\ \A n \in Names : uploads[n] \in {"absent", "whole"}
    /\ job = 1 =>
         /\ at <= 12 => tree["public"] = NoUploads /\ tree["host"] = NoUploads
         /\ at >= 13 => ~stale
         /\ at >= 12 => \A n \in Names : tree["repo"][n] = "whole"
         /\ at >= 14 => \A n \in Names : tree["public"][n] = "whole"
         /\ at >= 15 => \A n \in Names : tree["host"][n] = "whole"
         /\ at >= 16 => uploads["pulumi-preview"] = "whole"

(* The downloads of the update are the uploads, in each place they reach.  *)
Replayed ==
    /\ job \in {2, 3} => \A n \in Names : uploads[n] = "whole"
    /\ job = 2 =>
         /\ at >= 5 => tree["host"] = uploads
         /\ at >= 9 => tree["repo"] = uploads
         /\ at >= 13 => tree["input"]["pulumi-plan"] = uploads["pulumi-plan"]

FlowInv == TypeOK /\ Admitted /\ Published /\ Replayed

-----------------------------------------------------------------------------
(* The steps of the jobs.                                                  *)
LEMMA FlowOfPreview ==
    LET f == Flow(1) IN
    /\ Len(f) = 16
    /\ f[1] = "recheck" /\ f[2] = "recheck" /\ f[3] = "recheck" /\ f[4] = "recheck"
    /\ f[5] = "admit" /\ f[6] = "source" /\ f[7] = "login" /\ f[8] = "select"
    /\ f[9] = "inputs" /\ f[10] = "before" /\ f[11] = "preview" /\ f[12] = "final"
    /\ f[13] = "publish" /\ f[14] = "copy"
    /\ f[15] = "upload-preview" /\ f[16] = "upload-plan"
BY DEF Flow, Before, Program, After

LEMMA FlowOfApply ==
    LET f == Flow(2) IN
    /\ Len(f) = 15
    /\ f[1] = "recheck" /\ f[2] = "recheck" /\ f[3] = "recheck" /\ f[4] = "download"
    /\ f[5] = "recheck" /\ f[6] = "recheck" /\ f[7] = "admit" /\ f[8] = "replay"
    /\ f[9] = "source" /\ f[10] = "login" /\ f[11] = "select" /\ f[12] = "inputs"
    /\ f[13] = "before" /\ f[14] = "up" /\ f[15] = "final"
BY DEF Flow, Before, Program, After

LEMMA FlowOfDrift ==
    LET f == Flow(3) IN
    /\ Len(f) = 12
    /\ f[1] = "recheck" /\ f[2] = "recheck" /\ f[3] = "recheck" /\ f[4] = "recheck"
    /\ f[5] = "admit" /\ f[6] = "source" /\ f[7] = "login" /\ f[8] = "select"
    /\ f[9] = "inputs" /\ f[10] = "before" /\ f[11] = "preview" /\ f[12] = "final"
BY DEF Flow, Before, Program, After

LEMMA Range ==
    ASSUME TypeOK
    PROVE  /\ job = 1 => at \in 1 .. 16
           /\ job = 2 => at \in 1 .. 15
           /\ job = 3 => at \in 1 .. 12
<1>1. job = 1 => at \in 1 .. 16
  BY FlowOfPreview DEF TypeOK
<1>2. job = 2 => at \in 1 .. 15
  BY FlowOfApply DEF TypeOK
<1>3. job = 3 => at \in 1 .. 12
  BY FlowOfDrift DEF TypeOK
<1> QED BY <1>1, <1>2, <1>3

(* Where a step stands.                                                    *)
At(jobs, i) == job \in jobs /\ at = i

LEMMA Where ==
    ASSUME TypeOK
    PROVE  /\ Step \in Admissions =>
                \/ job \in {1, 3} /\ at <= 12 /\ at \notin {7, 8, 9, 11}
                \/ job = 2 /\ at \notin {4, 8, 10, 11, 12, 14}
           /\ Step = "preview" <=> At({1, 3}, 11)
           /\ Step = "up" <=> At({2}, 14)
           /\ Step = "download" => At({2}, 4)
           /\ Step = "replay" => At({2}, 8)
           /\ Step = "inputs" => At({1, 3}, 9) \/ At({2}, 12)
           /\ Step = "publish" => At({1}, 13)
           /\ Step = "copy" => At({1}, 14)
           /\ Step = "upload-preview" => At({1}, 15)
           /\ Step = "upload-plan" => At({1}, 16)
           /\ Step = "login" => At({1, 3}, 7) \/ At({2}, 10)
           /\ Step = "select" => At({1, 3}, 8) \/ At({2}, 11)
<1> USE DEF At, Admissions
<1>1. CASE job = 0
  BY <1>1 DEF Step
<1>2. CASE job = 1
  <2>1. at \in 1 .. 16 /\ Step = Flow(1)[at]
    BY <1>2, FlowOfPreview DEF TypeOK, Step
  <2> QED BY <1>2, <2>1, FlowOfPreview
<1>3. CASE job = 2
  <2>1. at \in 1 .. 15 /\ Step = Flow(2)[at]
    BY <1>3, FlowOfApply DEF TypeOK, Step
  <2> QED BY <1>3, <2>1, FlowOfApply
<1>4. CASE job = 3
  <2>1. at \in 1 .. 12 /\ Step = Flow(3)[at]
    BY <1>4, FlowOfDrift DEF TypeOK, Step
  <2> QED BY <1>4, <2>1, FlowOfDrift
<1> QED BY <1>1, <1>2, <1>3, <1>4 DEF TypeOK, Jobs

LEMMA JobCount == Len(Jobs) = 3
BY DEF Jobs

(* How a job goes on.                                                      *)
LEMMA Goes ==
    ASSUME TypeOK, job # 0, Done
    PROVE  \/ /\ job' = job /\ at' = at + 1 /\ at' \in 1 .. Len(Flow(job'))
              /\ job = 1 => at < 16
              /\ job = 2 => at < 15
              /\ job = 3 => at < 12
              /\ ~Fresh
           \/ /\ Fresh /\ at' = 1
              /\ \/ job = 1 /\ at = 16 /\ job' = 2
                 \/ job = 2 /\ at = 15 /\ job' = 3
                 \/ job = 3 /\ at = 12 /\ job' = 0
<1> USE JobCount DEF Done, Fresh
<1>1. CASE job = 1
  <2>1. Len(Flow(1)) = 16 /\ at \in 1 .. 16 /\ Len(Flow(job)) = 16
    BY <1>1, FlowOfPreview DEF TypeOK
  <2>2. CASE at < 16
    <3>1. job' = job /\ at' = at + 1 /\ ~Fresh
      BY <2>1, <2>2
    <3>2. Len(Flow(job')) = 16
      BY <2>1, <3>1
    <3> QED BY <1>1, <2>1, <2>2, <3>1, <3>2
  <2>3. CASE at = 16
    <3>1. Fresh /\ ~ (at < Len(Flow(job)))
      BY <2>1, <2>3
    <3>2. at' = 1 /\ job' = IF job < 3 THEN job + 1 ELSE 0
      BY <3>1
    <3> QED BY <1>1, <2>3, <3>1, <3>2
  <2> QED BY <2>1, <2>2, <2>3
<1>2. CASE job = 2
  <2>1. Len(Flow(2)) = 15 /\ at \in 1 .. 15 /\ Len(Flow(job)) = 15
    BY <1>2, FlowOfApply DEF TypeOK
  <2>2. CASE at < 15
    <3>1. job' = job /\ at' = at + 1 /\ ~Fresh
      BY <2>1, <2>2
    <3>2. Len(Flow(job')) = 15
      BY <2>1, <3>1
    <3> QED BY <1>2, <2>1, <2>2, <3>1, <3>2
  <2>3. CASE at = 15
    <3>1. Fresh /\ ~ (at < Len(Flow(job)))
      BY <2>1, <2>3
    <3>2. at' = 1 /\ job' = IF job < 3 THEN job + 1 ELSE 0
      BY <3>1
    <3> QED BY <1>2, <2>3, <3>1, <3>2
  <2> QED BY <2>1, <2>2, <2>3
<1>3. CASE job = 3
  <2>1. Len(Flow(3)) = 12 /\ at \in 1 .. 12 /\ Len(Flow(job)) = 12
    BY <1>3, FlowOfDrift DEF TypeOK
  <2>2. CASE at < 12
    <3>1. job' = job /\ at' = at + 1 /\ ~Fresh
      BY <2>1, <2>2
    <3>2. Len(Flow(job')) = 12
      BY <2>1, <3>1
    <3> QED BY <1>3, <2>1, <2>2, <3>1, <3>2
  <2>3. CASE at = 12
    <3>1. Fresh /\ ~ (at < Len(Flow(job)))
      BY <2>1, <2>3
    <3>2. at' = 1 /\ job' = IF job < 3 THEN job + 1 ELSE 0
      BY <3>1
    <3> QED BY <1>3, <2>3, <3>1, <3>2
  <2> QED BY <2>1, <2>2, <2>3
<1> QED BY <1>1, <1>2, <1>3 DEF TypeOK

LEMMA GoesOnTyped ==
    ASSUME TypeOK, job # 0, Done
    PROVE  job' \in 0 .. Len(Jobs) /\ (job' # 0 => at' \in 1 .. Len(Flow(job')))
<1>1. /\ Len(Flow(1)) = 16 /\ Len(Flow(2)) = 15 /\ Len(Flow(3)) = 12
  BY FlowOfApply, FlowOfDrift, FlowOfPreview
<1>2. job \in 1 .. 3
  BY JobCount DEF TypeOK
<1>3. CASE job' = job
  BY <1>2, <1>3, Goes, JobCount
<1>4. CASE job' # job
  <2>1. job' \in {0, 2, 3} /\ at' = 1
    BY <1>4, Goes
  <2>2. CASE job' = 0
    BY <2>2, JobCount
  <2>3. CASE job' = 2
    <3>1. Len(Flow(job')) = 15 /\ job' \in 0 .. 3
      BY <1>1, <2>3
    <3>2. at' \in 1 .. 15
      BY <2>1
    <3> QED BY <3>1, <3>2, JobCount, Zenon
  <2>4. CASE job' = 3
    <3>1. Len(Flow(job')) = 12 /\ job' \in 0 .. 3
      BY <1>1, <2>4
    <3>2. at' \in 1 .. 12
      BY <2>1
    <3> QED BY <3>1, <3>2, JobCount, Zenon
  <2> QED BY <2>1, <2>2, <2>3, <2>4
<1> QED BY <1>3, <1>4

(* A copy is the directory it is made from.                                *)
LEMMA CopyIsWhole ==
    ASSUME TypeOK, NEW from \in Places, NEW to \in Places
    PROVE  /\ Copied(from, to, Names) \in [Places -> [Names -> Contents]]
           /\ Copied(from, to, Names)[to] = tree[from]
           /\ \A p \in Places \ {to} : Copied(from, to, Names)[p] = tree[p]
<1>1. [n \in Names |-> IF n \in Names THEN tree[from][n] ELSE tree[to][n]]
        = tree[from]
  BY DEF TypeOK
<1> QED BY <1>1 DEF Copied, TypeOK

LEMMA CopyOfOne ==
    ASSUME TypeOK, NEW from \in Places, NEW to \in Places, NEW n \in Names
    PROVE  /\ Copied(from, to, {n}) \in [Places -> [Names -> Contents]]
           /\ Copied(from, to, {n})[to][n] = tree[from][n]
           /\ \A p \in Places \ {to} : Copied(from, to, {n})[p] = tree[p]
BY DEF Copied, TypeOK

LEMMA NothingTyped ==
    /\ Nothing \in [Places -> [Names -> Contents]]
    /\ NoUploads \in [Names -> Contents]
    /\ \A p \in Places : Nothing[p] = NoUploads
BY DEF Nothing, NoUploads, Contents

LEMMA InitFlow == Init => FlowInv
<1> SUFFICES ASSUME Init PROVE FlowInv
  OBVIOUS
<1> USE DEF Init
<1>1. TypeOK
  <2>1. Step = "none"
    BY DEF Step
  <2>2. valid \in BOOLEAN /\ running \in BOOLEAN /\ stale \in BOOLEAN
    BY Zenon
  <2>3. try \in 0 .. MaxTries
    BY WorkerAssumption
  <2> QED BY <2>1, <2>2, <2>3, JobCount, NothingTyped DEF TypeOK
<1>2. Admitted /\ Published /\ Replayed
  BY DEF Admitted, Published, Replayed, NoUploads
<1> QED BY <1>1, <1>2 DEF FlowInv

-----------------------------------------------------------------------------
(* The steps.  Most leave the flags alone.                                 *)
Flags == valid \in BOOLEAN /\ running \in BOOLEAN /\ stale \in BOOLEAN

LEMMA Beginning ==
    ASSUME FlowInv, BeginDelivery PROVE FlowInv'
<1> USE DEF FlowInv, BeginDelivery
<1>1. Flags'
  BY Zenon DEF Flags, TypeOK
<1>2. ~running
  BY DEF TypeOK, Step, Programs
<1>3. TypeOK'
  <2>1. job' = 1 /\ at' = 1 /\ Len(Flow(job')) = 16
    BY FlowOfPreview
  <2>2. try' \in 0 .. MaxTries
    BY WorkerAssumption DEF TypeOK
  <2>3. tree' \in [Places -> [Names -> Contents]] /\ uploads' \in [Names -> Contents]
    BY NothingTyped
  <2>4. job' \in 0 .. Len(Jobs) /\ at' \in 1 .. Len(Flow(job'))
    BY <2>1, JobCount
  <2> QED BY <1>1, <1>2, <2>2, <2>3, <2>4 DEF TypeOK, Flags
<1>4. Admitted'
  <2>1. stale' => ~valid'
    BY Zenon
  <2> QED BY <2>1 DEF Admitted
<1>5. Published' /\ Replayed'
  BY <1>2, NothingTyped DEF Published, Replayed, NoUploads, Places
<1> QED BY <1>3, <1>4, <1>5

LEMMA Turning ==
    ASSUME FlowInv, World PROVE FlowInv'
<1> USE DEF FlowInv, World, Lapse, Reinstate
<1>1. Flags'
  BY Zenon DEF Flags, TypeOK
<1>2. Step' = Step
  BY DEF Step
<1>3. TypeOK'
  BY <1>1, <1>2 DEF TypeOK, Flags
<1>4. Admitted' /\ Published' /\ Replayed'
  BY DEF Admitted, Published, Replayed
<1> QED BY <1>3, <1>4

LEMMA Failing ==
    ASSUME FlowInv, running' = FALSE, job' = 0, at' = 1, tree' = Nothing,
           UNCHANGED <<valid, try, uploads>>,
           stale' \in BOOLEAN, stale' => ~valid
    PROVE  FlowInv'
<1> USE DEF FlowInv
<1>1. Flags'
  BY Zenon DEF Flags, TypeOK
<1>3. TypeOK'
  BY <1>1, JobCount, NothingTyped DEF TypeOK, Flags
<1>4. Admitted' /\ Published' /\ Replayed'
  BY DEF Admitted, Published, Replayed
<1> QED BY <1>3, <1>4

LEMMA MovedTyped ==
    ASSUME TypeOK, job # 0, Done, running' = FALSE, stale' \in BOOLEAN,
           tree' \in [Places -> [Names -> Contents]], uploads' \in [Names -> Contents],
           UNCHANGED <<valid, try>>
    PROVE  TypeOK'
<1>1. Flags'
  BY Zenon DEF Flags, TypeOK
<1> QED BY <1>1, GoesOnTyped DEF TypeOK, Flags

(* Nothing but a program runs beside a step.                               *)
LEMMA Idle ==
    ASSUME TypeOK, Step \in Admissions \cup Moves \cup {"inputs"}
    PROVE  running = FALSE /\ job # 0
<1>1. Step \notin Programs
  BY DEF Admissions, Moves, Programs
<1>2. running = FALSE
  BY <1>1, Zenon DEF TypeOK
<1>3. job # 0
  BY DEF Step, Admissions, Moves
<1> QED BY <1>2, <1>3

LEMMA Checking ==
    ASSUME FlowInv, Check PROVE FlowInv'
<1> USE DEF FlowInv
<1>1. valid /\ stale' = FALSE /\ running' = FALSE /\ job # 0 /\ running = FALSE
  <2>1. running = FALSE /\ job # 0
    BY Idle DEF Check
  <2>2. stale' = FALSE
    BY Zenon DEF Check, Admitted, TypeOK
  <2> QED BY <2>1, <2>2 DEF Check
<1>2. tree' \in [Places -> [Names -> Contents]] /\ UNCHANGED <<valid, try, uploads>>
  BY NothingTyped DEF Check, TypeOK
<1>3. TypeOK'
  BY <1>1, <1>2, MovedTyped DEF Check, TypeOK
<1>4. Admitted'
  BY <1>1 DEF Admitted
<1>5. Published' /\ Replayed'
  <2>1. CASE Fresh
    BY <2>1, <1>1, <1>2, Goes, Where DEF Check, Published, Replayed
  <2>2. CASE ~Fresh
    <3>1. job' = job /\ at' = at + 1 /\ tree' = tree /\ UNCHANGED uploads
      BY <2>2, <1>1, Goes DEF Check
    <3>2. /\ job = 1 => at \in 1 .. 12 /\ at # 11
          /\ job = 2 => at \in 1 .. 15 /\ at \notin {4, 8, 12}
      BY <1>1, Where, Range DEF Check
    <3>3. Published'
      BY <1>1, <3>1, <3>2 DEF Published
    <3>4. Replayed'
      BY <3>1, <3>2 DEF Replayed
    <3> QED BY <3>3, <3>4
  <2> QED BY <2>1, <2>2
<1> QED BY <1>3, <1>4, <1>5

(* The copies of the jobs: a place is filled, and the job goes on.         *)
LEMMA Copying ==
    ASSUME FlowInv, Replay \/ Publish \/ HostCopy \/ Inputs \/ Download PROVE FlowInv'
<1> USE DEF FlowInv
<1>1. /\ Step \in {"replay", "publish", "copy", "inputs", "download"}
      /\ Done /\ UNCHANGED <<valid, try, running, uploads, stale>>
  BY DEF Replay, Publish, HostCopy, Inputs, Download, Copy
<1>2. running' = FALSE /\ job # 0 /\ running = FALSE
  BY <1>1, Idle DEF Moves
<1>3. job' = job /\ at' = at + 1 /\ job \in 1 .. 3
  BY <1>1, <1>2, Goes, Where DEF At
<1>4. tree' \in [Places -> [Names -> Contents]]
  <2>1. CASE Download
    BY <2>1 DEF Download, TypeOK
  <2>2. CASE Inputs
    BY <2>2, CopyOfOne DEF Inputs, Places, Names
  <2>3. CASE Replay \/ Publish \/ HostCopy
    BY <2>3, CopyIsWhole DEF Replay, Publish, HostCopy, Copy, Places
  <2> QED BY <2>1, <2>2, <2>3
<1>5. stale' \in BOOLEAN
  BY <1>1, Zenon DEF TypeOK
<1>6. TypeOK'
  BY <1>1, <1>2, <1>4, <1>5, MovedTyped DEF TypeOK
<1>7. Admitted'
  BY <1>1, <1>2, <1>3, Where DEF Admitted, At
<1>8. Published' /\ Replayed'
  <2>1. CASE Download
    <3>1. job = 2 /\ at = 4 /\ tree'["host"] = uploads
      BY <2>1, Where DEF Download, At, TypeOK, Places
    <3> QED BY <1>1, <1>3, <3>1 DEF Published, Replayed
  <2>2. CASE Replay
    <3>1. /\ job = 2 /\ at = 8 /\ tree'["repo"] = tree["host"]
          /\ tree'["host"] = tree["host"]
      BY <2>2, Where, CopyIsWhole DEF Replay, Copy, At, Places
    <3> QED BY <1>1, <1>3, <3>1 DEF Published, Replayed
  <2>3. CASE Publish
    <3>1. /\ job = 1 /\ at = 13 /\ tree'["public"] = tree["repo"]
          /\ tree'["repo"] = tree["repo"]
      BY <2>3, Where, CopyIsWhole DEF Publish, Copy, At, Places
    <3> QED BY <1>1, <1>3, <3>1 DEF Published, Replayed
  <2>4. CASE HostCopy
    <3>1. /\ job = 1 /\ at = 14 /\ tree'["host"] = tree["public"]
          /\ tree'["repo"] = tree["repo"] /\ tree'["public"] = tree["public"]
      BY <2>4, Where, CopyIsWhole DEF HostCopy, Copy, At, Places
    <3> QED BY <1>1, <1>3, <3>1 DEF Published, Replayed
  <2>5. CASE Inputs
    <3>1. /\ tree'["input"]["pulumi-plan"] = tree["repo"]["pulumi-plan"]
          /\ \A p \in {"repo", "host", "public"} : tree'[p] = tree[p]
      BY <2>5, CopyOfOne DEF Inputs, Places, Names
    <3>2. (job = 1 /\ at = 9) \/ (job = 2 /\ at = 12) \/ job = 3
      BY <2>5, Where DEF Inputs, At
    <3> QED BY <1>1, <1>3, <3>1, <3>2 DEF Published, Replayed
  <2> QED BY <2>1, <2>2, <2>3, <2>4, <2>5
<1> QED BY <1>6, <1>7, <1>8

LEMMA Uploading ==
    ASSUME FlowInv, Upload PROVE FlowInv'
<1> USE DEF FlowInv, Upload, UploadOne
<1>1. /\ job = 1 /\ at \in {15, 16} /\ running = FALSE
      /\ Step = "upload-preview" => at = 15
      /\ Step = "upload-plan" => at = 16
  BY Where, Idle DEF At, Moves
<1>2. \A n \in Names : tree["host"][n] = "whole"
  BY <1>1 DEF Published
<1>3. stale = FALSE /\ running' = FALSE
  <2>1. ~stale
    BY <1>1 DEF Published
  <2>2. stale = FALSE
    BY <2>1, Zenon DEF TypeOK
  <2> QED BY <1>1, <2>2
<1>4. stale' \in BOOLEAN /\ (stale' => ~valid')
  <2>1. UNCHANGED valid /\ (stale' = (IF Fresh THEN ~valid ELSE stale))
    OBVIOUS
  <2>2. CASE Fresh
    BY <2>1, <2>2, Zenon
  <2>3. CASE ~Fresh
    BY <1>3, <2>1, <2>3, Zenon
  <2> QED BY <2>2, <2>3
<1>5. /\ tree' \in [Places -> [Names -> Contents]]
      /\ uploads' \in [Names -> Contents] /\ Done
  BY NothingTyped, <1>2 DEF TypeOK, Places, Contents
<1>6. TypeOK'
  <2>1. UNCHANGED <<valid, try>> /\ job # 0
    BY <1>1
  <2> QED BY <2>1, <1>3, <1>4, <1>5, MovedTyped, Zenon
<1>7. CASE at = 15
  <2>1. /\ job' = 1 /\ at' = 16 /\ ~Fresh
        /\ uploads' = [uploads EXCEPT !["pulumi-preview"] = "whole"]
    BY <1>1, <1>2, <1>5, <1>7, Goes DEF Names
  <2>2. stale' = FALSE /\ tree' = tree
    BY <2>1, <1>3
  <2>3. Published'
    BY <1>1, <1>7, <2>1, <2>2 DEF Published, Names, TypeOK
  <2>4. Admitted' /\ Replayed'
    BY <2>1, <2>2 DEF Admitted, Replayed
  <2> QED BY <1>6, <2>3, <2>4
<1>8. CASE at = 16
  <2>1. /\ job' = 2 /\ at' = 1
        /\ uploads' = [uploads EXCEPT !["pulumi-plan"] = "whole"]
    BY <1>1, <1>2, <1>5, <1>8, Goes DEF Names
  <2>2. uploads["pulumi-preview"] = "whole"
    BY <1>1, <1>8 DEF Published
  <2>3. \A n \in Names : uploads'[n] = "whole"
    BY <2>1, <2>2 DEF Names, TypeOK
  <2>4. Admitted' /\ Published' /\ Replayed'
    BY <1>4, <2>1, <2>3 DEF Admitted, Published, Replayed
  <2> QED BY <1>6, <2>4
<1> QED BY <1>1, <1>7, <1>8

-----------------------------------------------------------------------------
(* The programs.                                                           *)
LEMMA Starting ==
    ASSUME FlowInv, Begin PROVE FlowInv'
<1> USE DEF FlowInv, Begin
<1>1. Flags'
  BY Zenon DEF Flags, TypeOK
<1>2. Step' = Step
  BY DEF Step
<1>3. TypeOK'
  BY <1>1, <1>2 DEF TypeOK, Flags
<1>4. Admitted' /\ Published' /\ Replayed'
  BY DEF Admitted, Published, Replayed
<1> QED BY <1>3, <1>4

LEMMA Writing ==
    ASSUME FlowInv, Write PROVE FlowInv'
<1> USE DEF FlowInv, Write
<1>1. Flags'
  BY Zenon DEF Flags, TypeOK
<1>2. Step' = Step
  BY DEF Step
<1>3. tree' \in [Places -> [Names -> Contents]]
  BY DEF TypeOK, Places, Names, Contents
<1>4. TypeOK'
  BY <1>1, <1>2, <1>3 DEF TypeOK, Flags
<1>5. job \in {1, 3} /\ at = 11 /\ \A p \in {"public", "host"} : tree'[p] = tree[p]
  BY Where DEF At, TypeOK, Places
<1>6. Admitted' /\ Published' /\ Replayed'
  BY <1>5 DEF Admitted, Published, Replayed
<1> QED BY <1>4, <1>6

LEMMA Ending ==
    ASSUME FlowInv, ProgramEnds PROVE FlowInv'
<1> USE DEF FlowInv, ProgramEnds, Ends
<1>1. running' = FALSE /\ stale' \in BOOLEAN /\ (stale' => ~valid')
  BY Zenon DEF TypeOK
<1>2. Step \in Programs /\ job # 0
  BY DEF TypeOK, Step, Programs
<1>3. tree' \in [Places -> [Names -> Contents]]
  BY DEF Collect, TypeOK, Places, Names, Contents
<1>4. TypeOK'
  BY <1>1, <1>2, <1>3, MovedTyped DEF TypeOK
<1>5. (job \in {1, 3} /\ at \in {7, 8, 11}) \/ (job = 2 /\ at \in {10, 11, 14})
  BY <1>2, Where DEF Programs, At
<1>6. job' = job /\ at' = at + 1
  BY <1>2, <1>5, Goes
<1>7. Admitted'
  BY <1>1, <1>5, <1>6 DEF Admitted
<1>8. Published'
  <2>1. CASE job = 1 /\ at = 11
    <3>1. Step = "preview"
      BY <2>1, Where DEF At
    <3>2. /\ \A n \in Names : tree'["repo"][n] = "whole"
          /\ tree'["public"] = tree["public"] /\ tree'["host"] = tree["host"]
      BY <3>1 DEF Collect, TypeOK, Places, Names
    <3> QED BY <1>6, <2>1, <3>2 DEF Published
  <2>2. CASE job = 1 /\ at # 11
    <3>1. tree' = tree
      BY <2>2, Where DEF At, Collect
    <3> QED BY <1>5, <1>6, <2>2, <3>1 DEF Published
  <2>3. CASE job # 1
    BY <1>6, <2>3 DEF Published
  <2> QED BY <2>1, <2>2, <2>3
<1>9. Replayed'
  <2>1. job = 2 => tree' = tree
    BY Where DEF At, Collect
  <2> QED BY <1>5, <1>6, <2>1 DEF Replayed
<1> QED BY <1>4, <1>7, <1>8, <1>9

-----------------------------------------------------------------------------
LEMMA FailedFlow ==
    ASSUME FlowInv, Refuse \/ Breaks \/ ProgramFails PROVE FlowInv'
<1>1. running' = FALSE
  BY Idle DEF FlowInv, Refuse, Breaks, Fail, ProgramFails, Ends
<1>2. stale' \in BOOLEAN /\ (stale' => ~valid)
  <2>1. CASE UNCHANGED stale
    BY <2>1, Zenon DEF FlowInv, Admitted, TypeOK
  <2>2. CASE stale' = ~valid
    BY <2>2, Zenon DEF FlowInv, TypeOK
  <2> QED BY <2>1, <2>2 DEF Refuse, Breaks, ProgramFails, Ends
<1>3. job' = 0 /\ at' = 1 /\ tree' = Nothing /\ UNCHANGED <<valid, try, uploads>>
  BY DEF Refuse, Breaks, Fail, ProgramFails, Ends
<1> QED BY <1>1, <1>2, <1>3, Failing

LEMMA FlowKept ==
    ASSUME FlowInv, [Next]_vars PROVE FlowInv'
<1>1. CASE Next
  BY <1>1, Beginning, Turning, Writing, Checking, FailedFlow, Copying, Uploading,
     Starting, Ending DEF Next, Work
<1>2. CASE UNCHANGED vars
  <2>1. Step' = Step
    BY <1>2 DEF vars, Step
  <2> QED BY <1>2, <2>1 DEF vars, FlowInv, TypeOK, Admitted, Published, Replayed
<1> QED BY <1>1, <1>2

(* What the host can see was admitted after its program; an update has the *)
(* uploaded plan, whole.                                                   *)
LEMMA FlowPromises == FlowInv => WorkerInv
<1> SUFFICES ASSUME FlowInv PROVE WorkerInv
  OBVIOUS
<1> USE DEF FlowInv
<1>1. PublishedIsAdmitted
  BY Range DEF Published, PublishedIsAdmitted, Names
<1>2. ReplaysUploaded
  BY Where DEF At, Replayed, ReplaysUploaded, Names
<1> QED BY <1>1, <1>2 DEF WorkerInv

(* No program that counts begins but for a request that has stood since    *)
(* the program before it ended.                                            *)
LEMMA BeginsAdmitted ==
    ASSUME FlowInv, [Next]_vars
    PROVE  [~running /\ running' /\ Step \in {"preview", "up"} => ~stale]_vars
BY Where DEF At, FlowInv, Admitted

-----------------------------------------------------------------------------
(* The call of one program.                                                *)

(* What is read is what was written, and a stream whose end was seen has   *)
(* no writer left.                                                         *)
Drains ==
    /\ verdict # "error" =>
         \A s \in Call!Streams : got[s] + pipe[s] = written[s]
    /\ \A s \in Call!Streams \ reading :
         pipe[s] = 0 /\ \A p \in Procs : s \notin opens[p]
    /\ \A s \in Call!Streams : got[s] <= Limit[s]
    /\ step = "wait" \/ verdict = "ok" => reading = {}
    /\ step \in {"drain", "wait"} => verdict = "none"
    /\ verdict = "ok" => code = "zero" /\ life[Main] \notin {"live", "unborn"}

(* Every step has its deadline.                                            *)
InTime ==
    /\ step \in {"drain", "wait"} => until = Timeout
    /\ step \in {"drain", "wait", "kill", "reap"} => now <= Timeout
    /\ step \in {"list", "look", "sleep", "found"} =>
         now <= until /\ until <= Timeout + Cleanup
    /\ step = "sleep" => now < until

(* While a scan has found nobody, who lives is yet to be looked at, or is  *)
(* a child of somebody who is.                                             *)
ScanMisses ==
    step = "look" /\ found = {} /\ ~slipped =>
        \/ Call!Live \subseteq listed
        \/ born \cap listed \cap Call!Live # {}

CallInv == Call!TypeOK /\ Drains /\ InTime /\ ScanMisses /\ Call!NoneSurvives

ProgramStep ==
    \E p \in Procs : \/ Call!Fork(p) \/ Call!WriteOut(p)
                     \/ Call!CloseStream(p) \/ Call!Exit(p)

CallMoves == Call!RunStep \/ Call!Tick \/ ProgramStep

LEMMA Constants ==
    /\ Main \in Procs
    /\ Capacity \in Nat \ {0} /\ Limit \in [Call!Streams -> Nat]
    /\ Timeout \in Nat /\ Cleanup \in Nat /\ MaxTime \in Nat /\ MaxChunks \in Nat
BY ExecutionAssumption DEF Call!ProcessAssumption

LEMMA InitCall == Call!Init => CallInv
<1> SUFFICES ASSUME Call!Init PROVE CallInv
  OBVIOUS
<1> USE Constants DEF Call!Init
<1>1. Call!TypeOK
  <2>1. /\ now \in 0 .. MaxTime /\ code \in {"none", "zero", "other"}
        /\ step \in Call!Steps
        /\ verdict \in {"none", "ok", "error"}
        /\ until \in Nat
    BY DEF Call!Steps
  <2>7. slipped \in BOOLEAN
    BY Zenon
  <2>5. reading \subseteq Call!Streams
    BY Zenon
  <2>6. listed \subseteq Procs /\ found \subseteq Procs /\ born \subseteq Procs
    BY Zenon
  <2>2. life \in [Procs -> {"unborn", "live", "zombie", "gone"}]
    OBVIOUS
  <2>3. opens \in [Procs -> SUBSET Call!Streams]
    OBVIOUS
  <2>4. /\ pipe \in [Call!Streams -> 0 .. Capacity]
        /\ written \in [Call!Streams -> 0 .. MaxChunks]
        /\ got \in [Call!Streams -> Nat]
    OBVIOUS
  <2> QED BY <2>1, <2>2, <2>3, <2>4, <2>5, <2>6, <2>7 DEF Call!TypeOK
<1>2. Drains
  BY DEF Drains, Call!Streams
<1>3. InTime /\ ScanMisses /\ Call!NoneSurvives
  BY DEF InTime, ScanMisses, Call!NoneSurvives
<1> QED BY <1>1, <1>2, <1>3 DEF CallInv

(* The state in which the next call begins is an initial state.            *)
LEMMA NextCallInv == NextCall => CallInv'
<1> SUFFICES ASSUME NextCall PROVE CallInv'
  OBVIOUS
<1> USE Constants DEF NextCall
<1>1. Call!TypeOK'
  <2>1. /\ now' \in 0 .. MaxTime /\ code' \in {"none", "zero", "other"}
        /\ step' \in Call!Steps
        /\ verdict' \in {"none", "ok", "error"}
        /\ until' \in Nat
    BY DEF Call!Steps
  <2>7. slipped' \in BOOLEAN
    BY Zenon
  <2>5. reading' \subseteq Call!Streams
    BY Zenon
  <2>6. listed' \subseteq Procs /\ found' \subseteq Procs /\ born' \subseteq Procs
    BY Zenon
  <2>2. life' \in [Procs -> {"unborn", "live", "zombie", "gone"}]
    OBVIOUS
  <2>3. opens' \in [Procs -> SUBSET Call!Streams]
    OBVIOUS
  <2>4. /\ pipe' \in [Call!Streams -> 0 .. Capacity]
        /\ written' \in [Call!Streams -> 0 .. MaxChunks]
        /\ got' \in [Call!Streams -> Nat]
    OBVIOUS
  <2> QED BY <2>1, <2>2, <2>3, <2>4, <2>5, <2>6, <2>7 DEF Call!TypeOK
<1>2. Drains'
  BY DEF Drains, Call!Streams
<1>3. InTime' /\ ScanMisses' /\ Call!NoneSurvives'
  BY DEF InTime, ScanMisses, Call!NoneSurvives
<1> QED BY <1>1, <1>2, <1>3 DEF CallInv

LEMMA ProgramTypes ==
    ASSUME Call!TypeOK, ProgramStep PROVE Call!TypeOK'
<1> USE Constants DEF Call!TypeOK, Call!Worker, Call!Live
<1>1. ASSUME NEW p \in Procs, Call!Fork(p) PROVE Call!TypeOK'
  BY <1>1 DEF Call!Fork
<1>2. ASSUME NEW p \in Procs, Call!WriteOut(p) PROVE Call!TypeOK'
  BY <1>2 DEF Call!WriteOut
<1>3. ASSUME NEW p \in Procs, Call!CloseStream(p) PROVE Call!TypeOK'
  BY <1>3 DEF Call!CloseStream
<1>4. ASSUME NEW p \in Procs, Call!Exit(p) PROVE Call!TypeOK'
  BY <1>4 DEF Call!Exit, Call!Dies, Call!Scanning
<1> QED BY <1>1, <1>2, <1>3, <1>4 DEF ProgramStep

LEMMA RunTypes ==
    ASSUME Call!TypeOK, Call!RunStep \/ Call!Tick PROVE Call!TypeOK'
<1> USE Constants DEF Call!TypeOK, Call!Steps, Call!scan, Call!program
<1>1. ASSUME NEW s \in Call!Streams, Call!Read(s) PROVE Call!TypeOK'
  BY <1>1 DEF Call!Read, Call!Leave
<1>2. CASE Call!Drained
  BY <1>2 DEF Call!Drained, Call!Leave
<1>3. CASE Call!Wait
  BY <1>3 DEF Call!Wait, Call!Leave
<1>4. CASE Call!Kill
  BY <1>4 DEF Call!Kill, Call!Dies, Call!Scanning
<1>5. CASE Call!Reap
  BY <1>5 DEF Call!Reap
<1>6. CASE Call!List
  BY <1>6 DEF Call!List
<1>7. ASSUME NEW p \in Procs, Call!Look(p) PROVE Call!TypeOK'
  BY <1>7 DEF Call!Look
<1>8. CASE Call!EndOfScan
  BY <1>8 DEF Call!EndOfScan
<1>9. CASE Call!Tick
  BY <1>9 DEF Call!Tick
<1> QED BY <1>1, <1>2, <1>3, <1>4, <1>5, <1>6, <1>7, <1>8, <1>9
        DEF Call!RunStep

(* The processes of the program.                                           *)
LEMMA ProgramKeeps ==
    ASSUME CallInv, ProgramStep PROVE CallInv'
<1> USE Constants DEF CallInv
<1>1. Call!TypeOK'
  BY ProgramTypes
<1>2. InTime'
  BY DEF ProgramStep, Call!Fork, Call!WriteOut, Call!CloseStream, Call!Exit,
         Call!Worker, InTime
<1>3. Drains'
  <2>1. ASSUME NEW p \in Procs, Call!Fork(p) PROVE Drains'
    BY <2>1 DEF Call!Fork, Call!Worker, Call!Live, Drains, Call!TypeOK
  <2>2. ASSUME NEW p \in Procs, Call!WriteOut(p) PROVE Drains'
    BY <2>2 DEF Call!WriteOut, Call!Worker, Call!Live, Drains, Call!TypeOK
  <2>3. ASSUME NEW p \in Procs, Call!CloseStream(p) PROVE Drains'
    BY <2>3 DEF Call!CloseStream, Call!Worker, Call!Live, Drains, Call!TypeOK
  <2>4. ASSUME NEW p \in Procs, Call!Exit(p) PROVE Drains'
    BY <2>4 DEF Call!Exit, Call!Dies, Call!Worker, Call!Live, Drains, Call!TypeOK
  <2> QED BY <2>1, <2>2, <2>3, <2>4 DEF ProgramStep
<1>4. ScanMisses' /\ Call!NoneSurvives'
  <2> USE DEF ScanMisses, Call!NoneSurvives, Call!Live, Call!Scanning, Call!TypeOK
  <2>1. ASSUME NEW p \in Procs, Call!Fork(p) PROVE ScanMisses' /\ Call!NoneSurvives'
    BY <2>1 DEF Call!Fork, Call!Worker
  <2>2. ASSUME NEW p \in Procs, Call!WriteOut(p)
        PROVE ScanMisses' /\ Call!NoneSurvives'
    BY <2>2 DEF Call!WriteOut, Call!Worker
  <2>3. ASSUME NEW p \in Procs, Call!CloseStream(p)
        PROVE ScanMisses' /\ Call!NoneSurvives'
    BY <2>3 DEF Call!CloseStream, Call!Worker
  <2>4. ASSUME NEW p \in Procs, Call!Exit(p) PROVE ScanMisses' /\ Call!NoneSurvives'
    <3>1. /\ Call!Live' = Call!Live \ {p}
          /\ slipped' = (slipped \/ (step = "look" /\ p \in born))
          /\ UNCHANGED <<step, listed, found, born, verdict>>
      BY <2>4 DEF Call!Exit, Call!Dies, Call!Worker
    <3> HIDE DEF Call!Live, Call!TypeOK
    <3>2. ScanMisses'
      BY <3>1
    <3>3. Call!NoneSurvives'
      BY <3>1
    <3> QED BY <3>2, <3>3
  <2> QED BY <2>1, <2>2, <2>3, <2>4 DEF ProgramStep
<1> QED BY <1>1, <1>2, <1>3, <1>4

(* The worker, and time.                                                   *)
LEMMA RunDrains ==
    ASSUME CallInv, Call!RunStep \/ Call!Tick PROVE Drains'
<1> USE Constants DEF CallInv, Call!TypeOK, Call!scan, Call!program, Drains
<1>1. ASSUME NEW s \in Call!Streams, Call!Read(s) PROVE Drains'
  BY <1>1 DEF Call!Read, Call!Leave, Call!CanRead
<1>2. CASE Call!Drained
  BY <1>2 DEF Call!Drained, Call!Leave
<1>3. CASE Call!Wait
  BY <1>3 DEF Call!Wait, Call!Leave
<1>4. CASE Call!Kill
  BY <1>4 DEF Call!Kill, Call!Dies
<1>5. CASE Call!Reap
  BY <1>5 DEF Call!Reap
<1>6. CASE Call!List
  BY <1>6 DEF Call!List
<1>7. ASSUME NEW p \in Procs, Call!Look(p) PROVE Drains'
  BY <1>7 DEF Call!Look
<1>8. CASE Call!EndOfScan
  BY <1>8 DEF Call!EndOfScan
<1>9. CASE Call!Tick
  BY <1>9 DEF Call!Tick, Call!Idle
<1> QED BY <1>1, <1>2, <1>3, <1>4, <1>5, <1>6, <1>7, <1>8, <1>9
        DEF Call!RunStep

LEMMA RunInTime ==
    ASSUME CallInv, Call!RunStep \/ Call!Tick PROVE InTime'
<1> USE Constants DEF CallInv, Call!TypeOK, Call!scan, Call!program, InTime
<1>1. ASSUME NEW s \in Call!Streams, Call!Read(s) PROVE InTime'
  BY <1>1 DEF Call!Read, Call!Leave
<1>2. CASE Call!Drained
  BY <1>2 DEF Call!Drained, Call!Leave
<1>3. CASE Call!Wait
  BY <1>3 DEF Call!Wait, Call!Leave
<1>4. CASE Call!Kill
  BY <1>4 DEF Call!Kill
<1>5. CASE Call!Reap
  BY <1>5 DEF Call!Reap
<1>6. CASE Call!List
  BY <1>6 DEF Call!List
<1>7. ASSUME NEW p \in Procs, Call!Look(p) PROVE InTime'
  BY <1>7 DEF Call!Look
<1>8. CASE Call!EndOfScan
  BY <1>8 DEF Call!EndOfScan
<1>9. CASE Call!Tick
  BY <1>9 DEF Call!Tick, Call!Idle, Call!WaitEnd
<1> QED BY <1>1, <1>2, <1>3, <1>4, <1>5, <1>6, <1>7, <1>8, <1>9
        DEF Call!RunStep

(* A scan that ends with nobody found leaves nobody, or somebody slipped   *)
(* past it.                                                                *)
LEMMA RunScans ==
    ASSUME CallInv, Call!RunStep \/ Call!Tick
    PROVE  ScanMisses' /\ Call!NoneSurvives'
<1> DEFINE Goal == ScanMisses' /\ Call!NoneSurvives'
<1> USE Constants DEF CallInv, Call!TypeOK, Call!scan, Call!program, ScanMisses,
                      Call!NoneSurvives, Call!Live
<1>1. ASSUME NEW s \in Call!Streams, Call!Read(s) PROVE Goal
  BY <1>1 DEF Call!Read, Call!Leave
<1>2. CASE Call!Drained
  BY <1>2 DEF Call!Drained, Call!Leave
<1>3. CASE Call!Wait
  BY <1>3 DEF Call!Wait, Call!Leave
<1>4. CASE Call!Kill
  BY <1>4 DEF Call!Kill
<1>5. CASE Call!Reap
  BY <1>5 DEF Call!Reap
<1>6. CASE Call!List
  BY <1>6 DEF Call!List
<1>7. ASSUME NEW p \in Procs, Call!Look(p) PROVE Goal
  BY <1>7 DEF Call!Look
<1>8. CASE Call!EndOfScan
  BY <1>8 DEF Call!EndOfScan
<1>9. CASE Call!Tick
  BY <1>9 DEF Call!Tick, Call!Idle
<1> QED BY <1>1, <1>2, <1>3, <1>4, <1>5, <1>6, <1>7, <1>8, <1>9
        DEF Call!RunStep

LEMMA CallKeeps == CallInv /\ CallMoves => CallInv'
BY ProgramKeeps, RunTypes, RunDrains, RunInTime, RunScans DEF CallMoves, CallInv

LEMMA CallStutters == CallInv /\ UNCHANGED call => CallInv'
BY DEF CallInv, call, Drains, InTime, ScanMisses, Call!TypeOK, Call!NoneSurvives,
       Call!Live

LEMMA CallPromises == CallInv => ProcessInv
BY Constants DEF CallInv, InTime, Call!TypeOK, Call!Steps, ProcessInv,
                 Call!ProcessInv, Call!EndsInTime

LEMMA StepOfCall ==
    ASSUME [ExecNext]_ExecVars
    PROVE  CallMoves \/ UNCHANGED call \/ NextCall
BY DEF ExecNext, WorldStep, HostStep, PlanStep, CallStep, TimeStep, ProcessStep,
       GoesOn, GivesUp, ProgramStep, CallMoves, ExecVars

(* Every call of a program ends within its two deadlines and one pause, and*)
(* one that is handed on has left no process behind.                       *)
THEOREM CallsEnd == ExecSpec => []ProcessInv
<1>1. ExecInit => CallInv
  BY InitCall DEF ExecInit
<1>2. CallInv /\ [ExecNext]_ExecVars => CallInv'
  BY StepOfCall, CallKeeps, CallStutters, NextCallInv
<1>3. CallInv => ProcessInv
  BY CallPromises
<1> QED BY <1>1, <1>2, <1>3, PTL DEF ExecSpec

LEMMA WholeAtWait ==
    ASSUME CallInv, reading = {}, verdict # "error" PROVE got = written
<1> USE DEF CallInv, Call!TypeOK, Drains
<1>1. \A s \in Call!Streams : got[s] = written[s]
  OBVIOUS
<1> QED BY <1>1

(* A verdict that the program ended well is given with all that it and its *)
(* descendants wrote.                                                      *)
LEMMA WholeVerdict ==
    ASSUME CallInv, CallMoves, step = "wait", verdict' = "ok"
    PROVE  /\ code = "zero" /\ got = written
           /\ \A s \in Call!Streams : got[s] <= Limit[s]
<1>1. reading = {} /\ verdict = "none"
  BY DEF CallInv, Drains
<1>2. Call!Wait
  BY <1>1 DEF CallMoves, ProgramStep, Call!RunStep, Call!Read, Call!Drained,
     Call!Kill, Call!Reap, Call!List, Call!Look, Call!EndOfScan, Call!Tick, Call!Fork,
     Call!WriteOut, Call!CloseStream, Call!Exit, Call!Worker
<1>3. code = "zero"
  BY <1>1, <1>2 DEF Call!Wait, Call!Leave
<1>4. got = written
  BY <1>1, WholeAtWait
<1> QED BY <1>3, <1>4 DEF CallInv, Drains

(* The worker hands a result on, in every call, only whole.                *)
THEOREM ResultsAreWhole == ExecSpec => Call!SuccessIsWhole
<1> DEFINE Whole == step = "wait" /\ verdict' = "ok"
             => /\ code = "zero" /\ got = written
                /\ \A s \in Call!Streams : got[s] <= Limit[s]
<1>1. ExecInit => CallInv
  BY InitCall DEF ExecInit
<1>2. CallInv /\ [ExecNext]_ExecVars => CallInv'
  BY StepOfCall, CallKeeps, CallStutters, NextCallInv
<1>3. CallInv /\ [ExecNext]_ExecVars => [Whole]_(Call!vars)
  <2> SUFFICES ASSUME CallInv, [ExecNext]_ExecVars, step = "wait", verdict' = "ok"
               PROVE  /\ code = "zero" /\ got = written
                      /\ \A s \in Call!Streams : got[s] <= Limit[s]
    OBVIOUS
  <2>1. ~ NextCall
    BY DEF NextCall
  <2>2. ~ UNCHANGED call
    BY DEF call, CallInv, Drains
  <2> QED BY <2>1, <2>2, StepOfCall, WholeVerdict
<1> QED BY <1>1, <1>2, <1>3, PTL DEF ExecSpec, Call!SuccessIsWhole

(* A job goes on from a program only when it ended well, with all of it.   *)
LEMMA GoesOnWell ==
    ASSUME CallInv, [ExecNext]_ExecVars, running, ~running', job' # 0
    PROVE  code = "zero" /\ got = written
<1>1. GoesOn
  <2>1. ~ HostStep
    BY DEF HostStep, Between, Check, Refuse, Download, Replay, Publish, HostCopy, Copy,
           Upload, UploadOne, Breaks, Inputs, Begin, Fail
  <2>2. ~ (WorldStep \/ PlanStep)
    BY DEF WorldStep, BeginDelivery, World, Lapse, Reinstate, PlanStep, Write
  <2>3. ~ (CallStep \/ TimeStep \/ ProcessStep \/ UNCHANGED ExecVars)
    BY DEF CallStep, TimeStep, ProcessStep, ExecVars, vars
  <2>4. ~ GivesUp
    BY DEF GivesUp, ProgramFails
  <2> QED BY <2>1, <2>2, <2>3, <2>4 DEF ExecNext
<1>2. verdict = "ok"
  BY <1>1 DEF GoesOn
<1> QED BY <1>2, WholeAtWait DEF CallInv, Drains

THEOREM JobsGoOnFromWhole == ExecSpec => GoesOnFromWhole
<1>1. ExecInit => CallInv
  BY InitCall DEF ExecInit
<1>2. CallInv /\ [ExecNext]_ExecVars => CallInv'
  BY StepOfCall, CallKeeps, CallStutters, NextCallInv
<1>3. CallInv /\ [ExecNext]_ExecVars
        => [running /\ ~running' /\ job' # 0
              => code = "zero" /\ got = written]_ExecVars
  BY GoesOnWell
<1> QED BY <1>1, <1>2, <1>3, PTL DEF ExecSpec, GoesOnFromWhole

-----------------------------------------------------------------------------
(* The jobs around the calls move as the worker does, or not at all.       *)
LEMMA StepOfWorker ==
    ASSUME [ExecNext]_ExecVars PROVE [Next]_vars
BY DEF ExecNext, WorldStep, HostStep, Between, PlanStep, CallStep, TimeStep, ProcessStep,
       GoesOn, GivesUp, ExecVars, Next, Work

(* What a delivery publishes is whole and its request stood at some moment *)
(* after it was made, and what its update replays is what was published,   *)
(* however its programs behave and its request lapses and returns.         *)
THEOREM DeliveriesAreWhole == ExecSpec => []WorkerInv
<1>1. ExecInit => FlowInv
  BY InitFlow DEF ExecInit
<1>2. FlowInv /\ [ExecNext]_ExecVars => FlowInv'
  BY StepOfWorker, FlowKept
<1>3. FlowInv => WorkerInv
  BY FlowPromises
<1> QED BY <1>1, <1>2, <1>3, PTL DEF ExecSpec

(* No preview and no update begins but for a request that stood at some    *)
(* moment after the program ahead of it ended.                             *)
THEOREM ProgramsBeginAdmitted == ExecSpec => ProgramsAreAdmitted
<1>1. ExecInit => FlowInv
  BY InitFlow DEF ExecInit
<1>2. FlowInv /\ [ExecNext]_ExecVars => FlowInv'
  BY StepOfWorker, FlowKept
<1>3. FlowInv /\ [ExecNext]_ExecVars
        => [~running /\ running' /\ Step \in {"preview", "up"} => ~stale]_vars
  BY StepOfWorker, BeginsAdmitted
<1> QED BY <1>1, <1>2, <1>3, PTL DEF ExecSpec, ProgramsAreAdmitted

(* What a job takes for the result of a program is all of it, by a program *)
(* that ended well; and its previews and updates began for requests that   *)
(* stood after the programs before them.                                   *)
THEOREM ResultsAreWholeAndAdmitted == ExecSpec => WholeAndAdmitted
BY ResultsAreWhole, JobsGoOnFromWhole, ProgramsBeginAdmitted DEF WholeAndAdmitted

===============================================================================
