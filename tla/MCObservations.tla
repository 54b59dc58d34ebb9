---------------------------- MODULE MCObservations ----------------------------
(***************************************************************************)
(* The two readers whose separate reads the core takes as one step each:   *)
(* the review, with two reviewers whose approvals are both required, two   *)
(* commits and three rule sets of which two are strong, and the capture,   *)
(* with two updates of a stack and contents with and without pending       *)
(* operations.  They share no state, so a behaviour is a behaviour of one  *)
(* of them, with the other at rest where it begins.                        *)
(***************************************************************************)
EXTENDS ReviewedSource, BackendCapture, TLC

CONSTANTS u1, u2, h1, h2, plain, half

VARIABLE part   \* "review" or "capture"

ReviewRests == rules = CHOOSE r \in Strong : TRUE

MCInit ==
  /\ part \in {"review", "capture"}
  /\ Init /\ (part = "review" \/ ReviewRests)
  /\ CaptureInit

MCNext ==
  \/ part = "review" /\ Next /\ UNCHANGED <<part, captureVars>>
  \/ part = "capture" /\ CaptureNext /\ UNCHANGED <<part, vars>>

MCSpec == MCInit /\ [][MCNext]_<<part, vars, captureVars>>

ReviewSymmetry == Permutations({h1, h2}) \cup Permutations({u1, u2})
===============================================================================
