---------------------------- MODULE BackendCapture ----------------------------
(***************************************************************************)
(* scripts/poc_backend_observer.py: how the trusted jobs read the Pulumi   *)
(* checkpoint from S3.  The capture is a chain of reads (locks, listing,   *)
(* object head, the object by version, its head twice more, listing, locks)*)
(* while updates lock the stack, save snapshots and unlock, die with their *)
(* lock, or lose it to pulumi cancel.  The module says what an accepted    *)
(* capture is worth.                                                       *)
(***************************************************************************)
EXTENDS Naturals

CONSTANTS
    Updates,      \* the numbers of pulumi updates, 1 .. n
    Contents,     \* what a checkpoint may hold
    Pending,      \* those that list pending operations
    MaxVersion    \* bound on checkpoint versions

ASSUME CaptureAssumption ==
    /\ Updates \in SUBSET (Nat \ {0})
    /\ Pending \in SUBSET Contents
    /\ MaxVersion \in Nat \ {0}

VARIABLES
    current,     \* the checkpoint's version, 0 when the key is absent
    versions,    \* [1 .. latest -> [update, content]] every version so far
    latest,      \* number of the newest version
    locks,       \* updates with a lock object in the backend
    running,     \* updates at work
    begun,       \* updates that have begun
    reading,     \* the read of the capture that comes next
    listed,      \* did the first listing show the key
    taken,       \* version of the first head, 0 for none
    moved,       \* history: current was not taken at some time between the
                 \* first and the last head
    began,       \* history: an update began between the two lock listings
    cancelled    \* history: somebody cancelled an update

bucket == <<current, versions, latest, locks>>
updates == <<running, begun>>
capture == <<reading, listed, taken>>
history == <<moved, began, cancelled>>
captureVars == <<bucket, updates, capture, history>>

Readings == {"start", "listing", "head", "object", "recheck", "inventory",
             "relisting", "unlocked", "accepted", "refused"}

(* The bucket, the updates and the capture have their types.               *)
CaptureTypeOK ==
    /\ latest \in 0 .. MaxVersion
    /\ current \in 0 .. latest
    /\ versions \in [1 .. latest -> [update : Updates \cup {0},
                                     content : Contents]]
    /\ locks \in SUBSET Updates
    /\ running \in SUBSET Updates /\ begun \in SUBSET Updates
    /\ reading \in Readings
    /\ listed \in BOOLEAN
    /\ taken \in 0 .. latest
    /\ moved \in BOOLEAN /\ began \in BOOLEAN /\ cancelled \in BOOLEAN

CaptureInit ==
    /\ latest \in {0, 1} /\ current = latest
    /\ versions \in [1 .. latest -> [update : {0}, content : Contents \ Pending]]
    /\ locks = {} /\ running = {} /\ begun = {}
    /\ reading = "start" /\ listed = FALSE /\ taken = 0
    /\ moved = FALSE /\ began = FALSE /\ cancelled = FALSE

-----------------------------------------------------------------------------
(* Pulumi and its operators.                                               *)

Looking == reading \in {"object", "recheck", "inventory"}

Capturing == reading \notin {"start", "accepted", "refused"}

(* A new object, or none, is current; the reader may be between two heads. *)
Now(v) ==
    /\ current' = v
    /\ moved' = (moved \/ (Looking /\ v # taken))

Begin(u) ==
    /\ u \notin begun
    /\ locks = {}
    /\ locks' = {u}
    /\ running' = running \cup {u}
    /\ begun' = begun \cup {u}
    /\ began' = (began \/ Capturing)
    /\ UNCHANGED <<current, versions, latest, capture, moved, cancelled>>

(* A snapshot is a new version even when it holds the same as the last.    *)
Save(u) ==
    /\ u \in running
    /\ latest < MaxVersion
    /\ latest' = latest + 1
    /\ \E x \in Contents :
          versions' = [v \in 1 .. latest' |->
              IF v = latest' THEN [update |-> u, content |-> x] ELSE versions[v]]
    /\ Now(latest')
    /\ UNCHANGED <<locks, updates, capture, began, cancelled>>

(* pulumi stack rm deletes the key.                                        *)
Remove(u) ==
    /\ u \in running
    /\ current # 0
    /\ Now(0)
    /\ UNCHANGED <<versions, latest, locks, updates, capture, began, cancelled>>

(* The update ends, well or not, and gives its lock back.                  *)
End(u) ==
    /\ u \in running
    /\ running' = running \ {u}
    /\ locks' = locks \ {u}
    /\ UNCHANGED <<current, versions, latest, begun, capture, history>>

Die(u) ==
    /\ u \in running
    /\ running' = running \ {u}
    /\ UNCHANGED <<bucket, begun, capture, history>>

(* pulumi cancel deletes every lock; what runs goes on without one.        *)
Cancel ==
    /\ locks # {}
    /\ locks' = {}
    /\ cancelled' = TRUE
    /\ UNCHANGED <<current, versions, latest, updates, capture, moved, began>>

Pulumi == \/ Cancel
          \/ \E u \in Updates : \/ Begin(u) \/ Save(u) \/ Remove(u)
                                \/ End(u) \/ Die(u)

-----------------------------------------------------------------------------
(* _capture_backend.  The caller, the bucket's versioning, the key and the *)
(* backend's metadata are read before and after it and never change here.  *)

Frame == UNCHANGED <<bucket, updates, history>>

(* Mutant: the first lock listing is not looked at.                        *)
ReadLocksUnseen ==
    /\ reading = "start"
    /\ reading' = "listing"
    /\ UNCHANGED <<listed, taken>> /\ Frame

ReadLocks ==
    /\ reading = "start"
    /\ locks = {}
    /\ reading' = "listing"
    /\ UNCHANGED <<listed, taken>> /\ Frame

(* An absent checkpoint is an observation too, and has no heads to compare.*)
ReadListing ==
    /\ reading = "listing"
    /\ listed' = (current # 0)
    /\ reading' = IF current # 0 THEN "head" ELSE "relisting"
    /\ UNCHANGED taken /\ Frame

ReadHead ==
    /\ reading = "head"
    /\ current # 0
    /\ taken' = current
    /\ reading' = "object"
    /\ UNCHANGED listed /\ Frame

(* Mutant: heads are compared by entity tag, which rewriting keeps.        *)
SameEntityTag ==
    current # 0 /\ versions[current].content = versions[taken].content

SameHead == current = taken

(* The object is read by its version, current or not; its pending          *)
(* operations are looked at when the head has been compared.               *)
ReadObject ==
    /\ reading = "object"
    /\ reading' = "recheck"
    /\ UNCHANGED <<listed, taken>> /\ Frame

ReadHeadAgain ==
    /\ reading = "recheck"
    /\ SameHead
    /\ versions[taken].content \notin Pending
    /\ reading' = "inventory"
    /\ UNCHANGED <<listed, taken>> /\ Frame

ReadHeadAfterInventory ==
    /\ reading = "inventory"
    /\ SameHead
    /\ reading' = "relisting"
    /\ UNCHANGED <<listed, taken>> /\ Frame

ReadListingAgain ==
    /\ reading = "relisting"
    /\ listed = (current # 0)
    /\ reading' = "unlocked"
    /\ UNCHANGED <<listed, taken>> /\ Frame

(* Mutant: the second lock listing is not looked at.                       *)
ReadLocksAgainUnseen ==
    /\ reading = "unlocked"
    /\ reading' = "accepted"
    /\ UNCHANGED <<listed, taken>> /\ Frame

ReadLocksAgain ==
    /\ reading = "unlocked"
    /\ locks = {}
    /\ reading' = "accepted"
    /\ UNCHANGED <<listed, taken>> /\ Frame

(* A condition does not hold, or a read fails: nothing is retried.         *)
RefuseCapture ==
    /\ reading \notin {"accepted", "refused"}
    /\ reading' = "refused"
    /\ UNCHANGED <<listed, taken>> /\ Frame

Capture ==
    \/ ReadLocks \/ ReadListing \/ ReadHead \/ ReadObject \/ ReadHeadAgain
    \/ ReadHeadAfterInventory \/ ReadListingAgain \/ ReadLocksAgain
    \/ RefuseCapture

CaptureNext == Pulumi \/ Capture

CaptureSpec == CaptureInit /\ [][CaptureNext]_captureVars

-----------------------------------------------------------------------------
(* Properties, of the step that accepts.                                   *)

Accepts == reading # "accepted" /\ reading' = "accepted"

(* "Return private rows only after all native end-of-observation rechecks":*)
(* the version a capture returns was the current one without a break from  *)
(* its first head to its last, though the checkpoint may hold the same     *)
(* bytes again in another version, and it lists no operation under way;    *)
(* even when somebody cancelled an update.                                 *)
VersionHeld ==
    [][Accepts => /\ ~moved
                  /\ taken # 0 => versions[taken].content \notin Pending]_captureVars

(* Unless somebody ran pulumi cancel, what is returned was not saved by an *)
(* update that is still at work: a capture never hands on half of what is  *)
(* being written, even by an update that began after its first listing.    *)
NotHalfWritten ==
    [][Accepts /\ ~cancelled /\ taken # 0
            => versions[taken].update \notin running]_captureVars

(* When moreover no update began between its two lock listings (inside the *)
(* state group none can), the capture is the checkpoint as it stands, or   *)
(* its absence, with no update at work: it might as well have been one read*)
(* at the end.  An update that begins and ends between the listings, after *)
(* the last head, escapes the capture.                                     *)
AcceptedIsSettled ==
    [][Accepts /\ ~cancelled /\ ~began => current = taken /\ running = {}]_captureVars

(* What makes them hold: without a cancel an update at work has its lock,  *)
(* and without one begun since the first listing nobody has a lock.        *)
LockedWhileRunning ==
    /\ ~cancelled => running \subseteq locks
    /\ Capturing /\ ~cancelled /\ ~began => locks = {}

(* Version numbers never come back: the head has moved when, and only when,*)
(* another version is current.                                             *)
HeadsAgree ==
    /\ reading \in {"start", "listing", "head"} => taken = 0 /\ ~moved
    /\ Looking => taken # 0 /\ (moved <=> current # taken)
    /\ reading \in {"relisting", "unlocked"} => ~moved
    /\ reading \in {"inventory", "relisting", "unlocked"} /\ taken # 0
          => versions[taken].content \notin Pending

QuietSinceHeads ==
    reading \in {"relisting", "unlocked"} /\ ~cancelled /\ ~began
        => current = taken

CaptureInv == CaptureTypeOK /\ LockedWhileRunning /\ HeadsAgree /\ QuietSinceHeads
================================================================================
