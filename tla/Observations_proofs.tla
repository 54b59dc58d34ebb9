------------------------- MODULE Observations_proofs -------------------------
(***************************************************************************)
(* The two observers that read a moving world in several steps: what an    *)
(* accepted capture of the backend is worth, for any number of updates,    *)
(* contents and versions, and what an admission of a reviewed source means,*)
(* for any reviewers, commits, rules and events around the five reads.     *)
(***************************************************************************)
EXTENDS BackendCapture, ReviewedSource, TLAPS

-----------------------------------------------------------------------------
(* The backend observer.                                                   *)

LEMMA FunctionInto ==
    ASSUME NEW S, NEW A, NEW B, A \subseteq B, NEW f \in [S -> A]
    PROVE  f \in [S -> B]
OBVIOUS

LEMMA InitCapture == CaptureInit => CaptureInv
<1> USE CaptureAssumption
<1>1. CaptureInit => CaptureTypeOK
  <2> SUFFICES ASSUME CaptureInit PROVE CaptureTypeOK
    OBVIOUS
  <2>1. latest \in 0 .. MaxVersion /\ current \in 0 .. latest
    BY DEF CaptureInit
  <2>2. versions \in [1 .. latest -> [update : Updates \cup {0},
                                     content : Contents]]
    <3>1. [update : {0}, content : Contents \ Pending]
            \subseteq [update : Updates \cup {0}, content : Contents]
      OBVIOUS
    <3> QED BY <3>1, FunctionInto DEF CaptureInit
  <2>3. /\ locks \in SUBSET Updates /\ running \in SUBSET Updates
        /\ begun \in SUBSET Updates
        /\ reading \in Readings /\ taken \in 0 .. latest
    BY <2>1 DEF CaptureInit, Readings
  <2>4. /\ listed \in BOOLEAN /\ moved \in BOOLEAN
        /\ began \in BOOLEAN /\ cancelled \in BOOLEAN
    BY DEF CaptureInit
  <2> QED BY <2>1, <2>2, <2>3, <2>4 DEF CaptureTypeOK
<1>2. CaptureInit => LockedWhileRunning /\ HeadsAgree /\ QuietSinceHeads
  BY DEF CaptureInit, LockedWhileRunning, HeadsAgree, QuietSinceHeads, Capturing,
         Looking
<1> QED BY <1>1, <1>2 DEF CaptureInv

(* A snapshot is a version nobody has read: numbers only grow.             *)
LEMMA SaveKeeps ==
    ASSUME CaptureInv, NEW u \in Updates, Save(u)
    PROVE  CaptureInv'
<1> USE CaptureAssumption
<1>1. CaptureTypeOK'
  BY DEF CaptureInv, CaptureTypeOK, Save, Now, Looking, updates, capture
<1>2. /\ \A v \in 1 .. latest : versions'[v] = versions[v]
      /\ latest' > latest
  BY DEF CaptureInv, CaptureTypeOK, Save
<1>3. LockedWhileRunning'
  BY DEF CaptureInv, LockedWhileRunning, Save, Now, Capturing, updates, capture
<1>4. HeadsAgree'
  <2>1. UNCHANGED <<reading, taken>> /\ (Looking <=> Looking')
    BY DEF Save, Looking, capture
  <2>2. taken \in 0 .. latest /\ latest \in Nat /\ current' # taken
    BY DEF CaptureInv, CaptureTypeOK, Save, Now
  <2>3. moved' <=> (moved \/ Looking)
    BY <2>2 DEF CaptureInv, CaptureTypeOK, Save, Now
  <2>4. taken # 0 => versions'[taken] = versions[taken]
    BY <1>2, <2>2
  <2>5. (reading \in {"start", "listing", "head"} => taken = 0 /\ ~moved)'
    BY <2>1, <2>3 DEF CaptureInv, HeadsAgree, Looking
  <2>6. (Looking => taken # 0 /\ (moved <=> current # taken))'
    BY <2>1, <2>2, <2>3 DEF CaptureInv, HeadsAgree
  <2>7. (reading \in {"relisting", "unlocked"} => ~moved)'
    BY <2>1, <2>3 DEF CaptureInv, HeadsAgree, Looking
  <2>8. (reading \in {"inventory", "relisting", "unlocked"} /\ taken # 0
          => versions[taken].content \notin Pending)'
    BY <2>1, <2>4 DEF CaptureInv, HeadsAgree
  <2> QED BY <2>5, <2>6, <2>7, <2>8 DEF HeadsAgree
<1>5. QuietSinceHeads'
  BY DEF CaptureInv, LockedWhileRunning, QuietSinceHeads, Save, Now, Capturing,
         updates, capture
<1> QED BY <1>1, <1>3, <1>4, <1>5 DEF CaptureInv

LEMMA PulumiKeeps == CaptureInv /\ Pulumi => CaptureInv'
<1> SUFFICES ASSUME CaptureInv, Pulumi PROVE CaptureInv'
  OBVIOUS
<1> USE CaptureAssumption
<1>1. CASE Cancel
  BY <1>1 DEF Cancel, CaptureInv, CaptureTypeOK, LockedWhileRunning, HeadsAgree,
              QuietSinceHeads, Capturing, Looking, updates, capture
<1>2. ASSUME NEW u \in Updates, Begin(u) PROVE CaptureInv'
  BY <1>2 DEF Begin, CaptureInv, CaptureTypeOK, LockedWhileRunning, HeadsAgree,
              QuietSinceHeads, Capturing, Looking, capture
<1>3. ASSUME NEW u \in Updates, Save(u) PROVE CaptureInv'
  BY <1>3, SaveKeeps
<1>4. ASSUME NEW u \in Updates, Remove(u) PROVE CaptureInv'
  <2>1. CaptureTypeOK'
    BY <1>4 DEF Remove, Now, CaptureInv, CaptureTypeOK, Looking, updates, capture
  <2>2. LockedWhileRunning' /\ HeadsAgree'
    BY <1>4 DEF Remove, Now, CaptureInv, CaptureTypeOK, LockedWhileRunning, HeadsAgree,
                Capturing, Looking, updates, capture
  <2>3. QuietSinceHeads'
    BY <1>4 DEF Remove, Now, CaptureInv, LockedWhileRunning, QuietSinceHeads,
                Capturing, updates, capture
  <2> QED BY <2>1, <2>2, <2>3 DEF CaptureInv
<1>5. ASSUME NEW u \in Updates, End(u) \/ Die(u) PROVE CaptureInv'
  <2>1. /\ UNCHANGED <<current, versions, latest, begun, capture, history>>
        /\ running' = running \ {u}
        /\ locks' \in {locks, locks \ {u}}
    BY <1>5 DEF End, Die, bucket
  <2>2. CaptureTypeOK'
    BY <2>1 DEF CaptureInv, CaptureTypeOK, capture, history
  <2>3. LockedWhileRunning'
    BY <2>1 DEF CaptureInv, LockedWhileRunning, Capturing, capture, history
  <2>4. HeadsAgree' /\ QuietSinceHeads'
    BY <2>1 DEF CaptureInv, HeadsAgree, QuietSinceHeads, Looking, capture,
                history
  <2> QED BY <2>2, <2>3, <2>4 DEF CaptureInv
<1> QED BY <1>1, <1>2, <1>3, <1>4, <1>5 DEF Pulumi

LEMMA CaptureKeeps == CaptureInv /\ Capture => CaptureInv'
<1> SUFFICES ASSUME CaptureInv, Capture PROVE CaptureInv'
  OBVIOUS
<1> USE CaptureAssumption
<1> USE DEF CaptureInv, CaptureTypeOK, LockedWhileRunning, HeadsAgree,
            QuietSinceHeads, Capturing, Looking, Frame, bucket, updates, history,
            Readings
<1>1. CASE ReadLocks
  BY <1>1 DEF ReadLocks
<1>2. CASE ReadListing
  BY <1>2 DEF ReadListing
<1>3. CASE ReadHead
  BY <1>3 DEF ReadHead
<1>4. CASE ReadObject
  BY <1>4 DEF ReadObject
<1>5. CASE ReadHeadAgain
  BY <1>5 DEF ReadHeadAgain, SameHead
<1>6. CASE ReadHeadAfterInventory
  BY <1>6 DEF ReadHeadAfterInventory, SameHead
<1>7. CASE ReadListingAgain
  BY <1>7 DEF ReadListingAgain
<1>8. CASE ReadLocksAgain
  BY <1>8 DEF ReadLocksAgain
<1>9. CASE RefuseCapture
  BY <1>9 DEF RefuseCapture
<1> QED
  BY <1>1, <1>2, <1>3, <1>4, <1>5, <1>6, <1>7, <1>8, <1>9 DEF Capture

LEMMA CaptureNextKeeps == CaptureInv /\ [CaptureNext]_captureVars => CaptureInv'
<1> SUFFICES ASSUME CaptureInv, [CaptureNext]_captureVars PROVE CaptureInv'
  OBVIOUS
<1>1. CASE UNCHANGED captureVars
  BY <1>1 DEF captureVars, bucket, updates, capture, history, CaptureInv, CaptureTypeOK,
              LockedWhileRunning, HeadsAgree, QuietSinceHeads, Capturing, Looking
<1> QED BY <1>1, PulumiKeeps, CaptureKeeps DEF CaptureNext

(* The invariant of the capture, for any updates, contents and bounds.     *)
THEOREM CaptureInvariant == CaptureSpec => []CaptureInv
BY InitCapture, CaptureNextKeeps, PTL DEF CaptureSpec

(* Only the second lock listing accepts.                                   *)
LEMMA OnlyLocksAccept ==
    ASSUME [CaptureNext]_captureVars, Accepts
    PROVE  /\ ReadLocksAgain
           /\ reading = "unlocked"
BY DEF CaptureNext, Pulumi, Capture, Accepts, captureVars, bucket, updates, capture, history,
       Cancel, Begin, Save, Remove, End, Die, Now, Frame, ReadLocks, ReadListing,
       ReadHead, ReadObject, ReadHeadAgain, ReadHeadAfterInventory,
       ReadListingAgain, ReadLocksAgain, RefuseCapture

(* The version a capture returns was current from its first head to its    *)
(* last, and lists no pending operation.                                   *)
THEOREM CapturesHold == CaptureSpec => VersionHeld
<1>1. CaptureInv /\ [CaptureNext]_captureVars =>
        [Accepts => ~moved /\ (taken # 0 =>
                      versions[taken].content \notin Pending)]_captureVars
  BY OnlyLocksAccept DEF CaptureInv, HeadsAgree
<1> QED BY <1>1, CaptureInvariant, PTL DEF CaptureSpec, VersionHeld

(* No accepted version belongs to an update at work, unless one was        *)
(* cancelled.                                                              *)
THEOREM CapturesAreWhole == CaptureSpec => NotHalfWritten
<1>1. CaptureInv /\ [CaptureNext]_captureVars =>
        [Accepts /\ ~cancelled /\ taken # 0
            => versions[taken].update \notin running]_captureVars
  BY OnlyLocksAccept DEF CaptureInv, LockedWhileRunning, ReadLocksAgain
<1> QED BY <1>1, CaptureInvariant, PTL DEF CaptureSpec, NotHalfWritten

(* Without an update begun between the lock listings, the capture is the   *)
(* checkpoint as it stands.                                                *)
THEOREM CapturesAreSettled == CaptureSpec => AcceptedIsSettled
<1>1. CaptureInv /\ [CaptureNext]_captureVars =>
        [Accepts /\ ~cancelled /\ ~began
            => current = taken /\ running = {}]_captureVars
  BY OnlyLocksAccept DEF CaptureInv, LockedWhileRunning, QuietSinceHeads,
                         ReadLocksAgain
<1> QED BY <1>1, CaptureInvariant, PTL DEF CaptureSpec, AcceptedIsSettled

-----------------------------------------------------------------------------
(* The admission of a reviewed source.                                     *)

LEMMA InitReview == Init => ReviewInv
<1> SUFFICES ASSUME Init PROVE ReviewInv
  OBVIOUS
<1>1. TypeOK
  <2>1. /\ events \in Nat
        /\ head \in Heads /\ base \in Nat /\ open \in BOOLEAN
        /\ rules \in Rules /\ nextId \in Nat
        /\ writers \in SUBSET Reviewers
        /\ step \in Steps
        /\ seenRules \in Rules
    BY ReviewAssumption DEF Init, Steps
  <2>2. reviews \in [Reviewers ->
                       [id : Nat, commit : Heads, verdict : Verdicts]]
    BY <2>1 DEF Init, Verdicts
  <2>3. /\ wanted \in [head : Heads, base : Nat]
        /\ chosen \in [id : Nat, reviewer : Reviewers \cup {NoReview}]
    BY <2>1 DEF Init
  <2>4. lapsed \in BOOLEAN /\ strayed \in BOOLEAN
        /\ weakened \in BOOLEAN /\ together \in BOOLEAN
    BY DEF Init
  <2> QED BY <2>1, <2>2, <2>3, <2>4 DEF TypeOK
<1>2. LapseIsFinal
  BY DEF Init, LapseIsFinal, Chosen
<1>3. StrayingLapses /\ ApprovalNeverLapsed /\ HeldTogether
  BY DEF Init, StrayingLapses, ApprovalNeverLapsed, HeldTogether, Chosen,
         Reading, Admitted
<1> QED BY <1>1, <1>2, <1>3 DEF ReviewInv

(* The flags after an event follow from what the event did to the chosen   *)
(* approval, the head, the rules and the base.                             *)
LEMMA WatchKeeps ==
    ASSUME ReviewInv, Watch, TypeOK',
           \A u \in Reviewers : reviews'[u].id < nextId',
           nextId' >= nextId, base' >= base,
           Chosen /\ ~InForce => ~InForce',
           Chosen /\ head' # head => ~InForce' \/ rules \notin Strong,
           rules' = rules \/ head' = head
    PROVE  ReviewInv'
<1> USE DEF ReviewInv, Watch, reader
<1>1. UNCHANGED <<step, wanted, seenRules, chosen, together, Chosen, Reading,
                  Admitted>>
  BY DEF Chosen, Reading, Admitted
<1>2. /\ lapsed' <=> (lapsed \/ (Chosen /\ ~InForce'))
      /\ strayed' <=> (strayed \/ (Chosen /\ head' # wanted.head))
      /\ weakened' <=> (weakened \/ (Reading /\ rules' \notin Strong))
  BY DEF TypeOK
<1>3. LapseIsFinal'
  <2>1. (chosen.id < nextId)'
    BY <1>1 DEF LapseIsFinal, TypeOK
  <2>2. Chosen => (lapsed' <=> ~InForce')
    BY <1>2 DEF LapseIsFinal
  <2> QED BY <1>1, <2>1, <2>2 DEF LapseIsFinal
<1>4. Chosen => strayed' \/ head' = wanted.head
  BY <1>2
<1>5. Chosen => (strayed' => lapsed' \/ weakened')
  <2> SUFFICES ASSUME Chosen, strayed', ~lapsed', ~weakened' PROVE FALSE
    OBVIOUS
  <2>1. Reading /\ rules' \in Strong /\ ~weakened /\ ~lapsed /\ InForce'
    BY <1>2 DEF Chosen
  <2>2. ~strayed /\ head = wanted.head
    BY <2>1 DEF StrayingLapses
  <2>3. head' # head
    BY <1>2, <2>2
  <2> QED BY <2>1, <2>3
<1>6. StrayingLapses'
  <2>1. (step \in {"start", "snapshot"} =>
          chosen.reviewer = NoReview /\ ~lapsed /\ ~strayed)'
    BY <1>1, <1>2 DEF StrayingLapses, Chosen
  <2>2. (Reading => weakened \/ rules \in Strong)'
    BY <1>1, <1>2
  <2>3. (base >= wanted.base)'
    BY <1>1 DEF StrayingLapses, TypeOK
  <2>4. (step \in {"rules", "again"} =>
          together \/ lapsed \/ weakened \/ base > wanted.base)'
    BY <1>1, <1>2 DEF StrayingLapses, TypeOK
  <2>5. (step \in {"permission", "rules", "again", "admitted"} =>
          chosen.reviewer \in Reviewers)'
    BY <1>1 DEF StrayingLapses
  <2> QED BY <1>1, <1>4, <1>5, <2>1, <2>2, <2>3, <2>4, <2>5 DEF StrayingLapses
<1>7. ApprovalNeverLapsed' /\ HeldTogether'
  BY <1>1, <1>2 DEF ApprovalNeverLapsed, HeldTogether, Admitted, Chosen, Reading
<1> QED BY <1>3, <1>6, <1>7

(* An approval that is not in force stays so through every event.          *)
LEMMA WorldKeeps == ReviewInv /\ World => ReviewInv'
<1> SUFFICES ASSUME ReviewInv, World PROVE ReviewInv'
  OBVIOUS
<1> USE ReviewAssumption
<1>1. Watch /\ UNCHANGED reader /\ events' \in Nat
  BY DEF World, Watch, ReviewInv, TypeOK
<1>2. /\ lapsed' \in BOOLEAN /\ strayed' \in BOOLEAN /\ weakened' \in BOOLEAN
      /\ step' \in Steps /\ wanted' \in [head : Heads, base : Nat]
      /\ seenRules' \in Rules /\ together' \in BOOLEAN
      /\ chosen' \in [id : Nat, reviewer : Reviewers \cup {NoReview}]
  BY <1>1 DEF Watch, reader, ReviewInv, TypeOK
<1>3. Chosen => chosen.reviewer \in Reviewers /\ chosen.id < nextId
  BY DEF ReviewInv, StrayingLapses, LapseIsFinal, Chosen, Reading, TypeOK, Steps
<1>a. /\ head \in Heads /\ base \in Nat /\ open \in BOOLEAN /\ rules \in Rules
      /\ reviews \in [Reviewers -> [id : Nat, commit : Heads, verdict : Verdicts]]
      /\ nextId \in Nat /\ writers \in SUBSET Reviewers
      /\ \A u \in Reviewers : reviews[u].id < nextId
  BY DEF ReviewInv, TypeOK, LapseIsFinal
<1>4. CASE Push
  <2>1. TypeOK'
    BY <1>1, <1>2, <1>4, <1>a DEF Push, TypeOK, Verdicts
  <2>2. \A u \in Reviewers :
          \/ reviews'[u] = reviews[u]
          \/ /\ reviews'[u].id = reviews[u].id
             /\ reviews'[u].verdict = "dismissed"
    BY <1>4, <1>a DEF Push
  <2>3. rules \in Strong => \A u \in Reviewers : reviews'[u].verdict # "approved"
    BY <1>4, <1>a DEF Push
  <2>4. /\ \A u \in Reviewers : reviews'[u].id < nextId'
        /\ nextId' = nextId /\ base' = base /\ rules' = rules
    BY <1>4, <2>2, <1>a DEF Push
  <2>5. Chosen /\ ~InForce => ~InForce'
    BY <1>1, <1>3, <2>2 DEF InForce, reader
  <2>6. Chosen /\ head' # head => ~InForce' \/ rules \notin Strong
    BY <1>1, <1>3, <2>3 DEF InForce, reader
  <2> QED BY <1>1, <1>a, <2>1, <2>4, <2>5, <2>6, WatchKeeps
<1>5. ASSUME NEW u \in Reviewers, NEW verdict \in {"approved", "changes"},
             SubmitReview(u, verdict)
      PROVE  ReviewInv'
  <2>1. TypeOK'
    BY <1>1, <1>2, <1>5, <1>a DEF SubmitReview, TypeOK, Verdicts, pr
  <2>2. /\ \A w \in Reviewers : w # u => reviews'[w] = reviews[w]
        /\ reviews'[u].id = nextId
        /\ nextId' = nextId + 1
        /\ head' = head /\ base' = base
    BY <1>5, <1>a DEF SubmitReview, pr
  <2>3. \A w \in Reviewers : reviews'[w].id < nextId'
    BY <2>2, <1>a
  <2>4. Chosen /\ ~InForce => ~InForce'
    <3> SUFFICES ASSUME Chosen, ~InForce PROVE ~InForce'
      OBVIOUS
    <3>1. CASE chosen.reviewer = u
      <4>1. reviews'[u].id # chosen.id
        BY <1>3, <2>2, <1>a DEF ReviewInv, TypeOK
      <4> QED BY <1>1, <3>1, <4>1 DEF InForce, reader
    <3>2. CASE chosen.reviewer # u
      BY <1>1, <1>3, <2>2, <3>2 DEF InForce, reader
    <3> QED BY <3>1, <3>2
  <2> QED BY <1>1, <1>a, <2>1, <2>2, <2>3, <2>4, WatchKeeps
<1>6. ASSUME NEW u \in Reviewers, DismissReview(u) PROVE ReviewInv'
  <2>1. TypeOK'
    BY <1>1, <1>2, <1>6, <1>a DEF DismissReview, TypeOK, Verdicts, pr
  <2>2. /\ \A w \in Reviewers : w # u => reviews'[w] = reviews[w]
        /\ reviews'[u].id = reviews[u].id
        /\ reviews'[u].verdict = "dismissed"
        /\ nextId' = nextId /\ head' = head /\ base' = base
    BY <1>6, <1>a DEF DismissReview, pr
  <2>3. \A w \in Reviewers : reviews'[w].id < nextId'
    BY <2>2, <1>a
  <2>4. Chosen /\ ~InForce => ~InForce'
    BY <1>1, <1>3, <2>2 DEF InForce, reader
  <2> QED BY <1>1, <1>a, <2>1, <2>2, <2>3, <2>4, WatchKeeps
<1>7. ASSUME CloseOrReopen \/ MainMoves \/ ChangeRules
             \/ \E u \in Reviewers : ChangePermission(u)
      PROVE  ReviewInv'
  <2>1. /\ UNCHANGED <<head, reviews, nextId>>
        /\ base' \in {base, base + 1}
        /\ open' \in BOOLEAN /\ rules' \in Rules
        /\ writers' \in SUBSET Reviewers
    BY <1>7, <1>a DEF CloseOrReopen, MainMoves, ChangeRules, ChangePermission, pr
  <2>2. TypeOK'
    BY <1>1, <1>2, <2>1, <1>a DEF TypeOK
  <2>3. Chosen /\ ~InForce => ~InForce'
    BY <1>1, <2>1 DEF InForce, reader
  <2> QED BY <1>1, <1>a, <2>1, <2>2, <2>3, WatchKeeps
<1> QED BY <1>4, <1>5, <1>6, <1>7 DEF World

LEMMA ReaderKeeps == ReviewInv /\ Reader => ReviewInv'
<1> SUFFICES ASSUME ReviewInv, Reader PROVE ReviewInv'
  OBVIOUS
<1> USE ReviewAssumption
<1> USE DEF ReviewInv, TypeOK, LapseIsFinal, StrayingLapses,
            ApprovalNeverLapsed, HeldTogether, Reading, Chosen, Admitted,
            Steps, world, pr, watched
<1>1. CASE Refuse
  BY <1>1 DEF Refuse, InForce
<1>2. CASE ReadRules
  BY <1>2 DEF ReadRules, InForce
<1>3. CASE ReadSnapshot
  <2>1. PICK u \in Approvals(wanted.head) :
          chosen' = [id |-> reviews[u].id, reviewer |-> u]
    BY <1>3 DEF ReadSnapshot
  <2>2. /\ u \in Reviewers /\ u # NoReview
        /\ reviews[u].verdict = "approved" /\ reviews[u].commit = wanted.head
    BY <2>1 DEF Approvals
  <2>3. /\ chosen' \in [id : Nat, reviewer : Reviewers \cup {NoReview}]
        /\ chosen'.id < nextId
        /\ chosen'.reviewer = u
    BY <2>1, <2>2
  <2>4. InForce'
    BY <1>3, <2>1, <2>2 DEF ReadSnapshot, InForce
  <2>5. head = wanted.head /\ ~lapsed /\ ~strayed /\ step' = "permission"
    BY <1>3 DEF ReadSnapshot, SnapshotGood
  <2> HIDE <2>1
  <2> QED BY <1>3, <2>2, <2>3, <2>4, <2>5 DEF ReadSnapshot
<1>4. CASE ReadPermission
  <2>1. /\ UNCHANGED <<events, world, wanted, seenRules, chosen, watched>>
        /\ step = "permission" /\ step' = "rules"
        /\ together' = (/\ head = wanted.head /\ base = wanted.base
                        /\ InForce /\ chosen.reviewer \in writers)
        /\ chosen.reviewer \in writers
    BY <1>4 DEF ReadPermission
  <2>2. Chosen /\ chosen.reviewer \in Reviewers
    BY <2>1
  <2>3. together' \/ lapsed \/ weakened \/ base > wanted.base
    <3> SUFFICES ASSUME ~lapsed, ~weakened, ~(base > wanted.base)
                 PROVE  together'
      OBVIOUS
    <3>1. InForce /\ head = wanted.head
      BY <2>2
    <3>2. base = wanted.base
      OBVIOUS
    <3> QED BY <2>1, <3>1, <3>2
  <2>4. InForce' <=> InForce
    BY <2>1 DEF InForce
  <2>5. together' \in BOOLEAN
    BY <2>1
  <2> QED BY <2>1, <2>2, <2>3, <2>4, <2>5
<1>5. CASE ReadRulesAgain
  BY <1>5 DEF ReadRulesAgain, InForce
<1>6. CASE ReadSnapshotAgain
  <2>1. /\ UNCHANGED <<events, world, wanted, seenRules, chosen, together,
                       watched>>
        /\ step = "again" /\ step' = "admitted"
        /\ SnapshotGood /\ SameApproval
    BY <1>6 DEF ReadSnapshotAgain
  <2>2. Chosen /\ chosen.reviewer \in Reviewers
    BY <2>1
  <2>3. InForce
    BY <2>1, <2>2 DEF SameApproval, Approvals, InForce
  <2>4. ~lapsed
    BY <2>2, <2>3
  <2>5. base = wanted.base
    BY <2>1 DEF SnapshotGood
  <2>6. weakened \/ (together /\ ~strayed)
    BY <2>1, <2>2, <2>4, <2>5
  <2> QED BY <2>1, <2>2, <2>4, <2>6
<1> QED BY <1>1, <1>2, <1>3, <1>4, <1>5, <1>6 DEF Reader

LEMMA ReviewNextKeeps == ReviewInv /\ [Next]_vars => ReviewInv'
<1>1. ReviewInv /\ UNCHANGED vars => ReviewInv'
  BY DEF vars, world, pr, reader, watched, ReviewInv, TypeOK, LapseIsFinal,
         StrayingLapses, ApprovalNeverLapsed, HeldTogether, Reading, Chosen,
         Admitted, InForce
<1> QED BY <1>1, WorldKeeps, ReaderKeeps DEF Next

(* The invariant of the five reads.                                        *)
THEOREM ReviewInvariant == Spec => []ReviewInv
BY InitReview, ReviewNextKeeps, PTL DEF Spec

(* The approval an admission names was in force all the time.              *)
THEOREM ApprovalsHold == Spec => []ApprovalNeverLapsed
<1>1. ReviewInv => ApprovalNeverLapsed
  BY DEF ReviewInv
<1> QED BY <1>1, ReviewInvariant, PTL

(* Under rules that stayed strong there was a moment at which everything   *)
(* held at once, and the head did not move.                                *)
THEOREM AdmissionsHeldTogether == Spec => []HeldTogether
<1>1. ReviewInv => HeldTogether
  BY DEF ReviewInv
<1> QED BY <1>1, ReviewInvariant, PTL
==============================================================================
