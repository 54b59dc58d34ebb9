-------------------------- MODULE RegistryGraph_proofs --------------------------
(***************************************************************************)
(* What the registry graph of the TEST stack is at any time, for any       *)
(* records of the identity and any number of commands, changes by hand and *)
(* broken updates.                                                         *)
(***************************************************************************)
EXTENDS RegistryGraph, TLAPS

-----------------------------------------------------------------------------
(* The inductive invariant.  Numbers: token sets are drawn by hand or by   *)
(* the one creation of the identity that a command may still make.         *)
Drawn ==
  /\ sets \in Nat /\ begun \in 0 .. MaxCommands
  /\ meddles \in 0 .. MaxMeddles /\ breaks \in Nat
  /\ sets <= meddles + begun
  /\ \/ cmd = "none" \/ phase = "confirm"
     \/ phase = "update" /\ (state["identity"] # 0 \/ doing["identity"] # 0)
     \/ sets < meddles + begun

(* What belongs to the phase of a command, whatever happened to it.        *)
Phased ==
  /\ phase \in {"refresh", "update", "confirm"} => cmd = "up-plan"
  /\ phase # "update" => doing = None
  /\ cmd # "none" => verdict = NoVerdict
  /\ initial \in [Graph -> Nat]

(* Saved plans are those of a checkpoint, and there is one at most.        *)
Coherent(p) == p.refreshed = p.on /\ _goal(p, p.on)

PlansSaved ==
  /\ \A p \in saved : Coherent(p)
  /\ \A p, q \in saved : p = q
  /\ cmd = "up-plan" /\ phase = "gate" => plan \in saved

(* A plan that was let through is the one of the checkpoint captured first,*)
(* so that what is created was absent from it, or is the bound provider.   *)
LetThrough ==
  /\ phase \in {"refresh", "update"} =>
        \A r \in Graph : plan.op[r] = _operation(r, initial)
  /\ phase = "refresh" =>
        /\ state = initial
        /\ \A r \in Native : state[r] = 0 \/ native[r] = state[r] \/ r \in touched
  /\ phase = "update" =>
        \A r \in Doing :
          \/ initial[r] = 0
          \/ r = "provider" /\ initial[r] = 1 /\ doing[r] = 2

(* What people made is there; what the update just created is its own until*)
(* somebody lays hands on it, and what it took is in the checkpoint.       *)
Hands ==
  /\ \A r \in foreign : native[r] # 0
  /\ \A r \in Doing \cap foreign : r \in touched
  /\ phase = "refresh" => taken = {}
  /\ phase = "update" => \A r \in taken : state[r] # 0

(* When nobody meddled, what AWS holds is what the checkpoint says, but for*)
(* what is being created ...                                               *)
Agreed ==
  \A r \in Native : native[r] = IF doing[r] = 0 THEN state[r] ELSE doing[r]

(* ... an update makes each resource of its plan once, as it should be, and*)
(* after what it needs ...                                                 *)
New(r, v) ==
  /\ r = "provider" => v = 2
  /\ r \in Registries => v = 1
  /\ r \in Records => /\ v = state["identity"] /\ state["identity"] # 0
                      /\ doing["identity"] = 0

Changed(r) ==
  /\ doing[r] = 0 /\ _operation(r, initial) # "same"
  /\ state[r] # 0 /\ New(r, state[r])

Making(r) ==
  /\ _operation(r, initial) # "same" /\ New(r, doing[r])
  /\ state[r] = initial[r]

Follows(r) == state[r] # initial[r] \/ doing[r] # 0 =>
                /\ state["service"] # 0
                /\ r \in Native => state["provider"] \notin {0, 1}

Stepwise ==
  \A r \in Graph :
    /\ state[r] # initial[r] => Changed(r)
    /\ doing[r] # 0 => Making(r)

InOrder == \A r \in Native \cup {"plane"} : Follows(r)

Progress == Stepwise /\ InOrder

(* ... and the checkpoint is one the gate takes; or else the remains of an *)
(* update cut short are beyond the baseline, and no command gets past its  *)
(* first capture.                                                          *)
Stuck == /\ ~(Present(state) \subseteq Base) /\ Present(state) # Graph
         /\ phase \in {"idle", "capture"}

Sound ==
  /\ Agreed
  /\ phase # "update" => _prior(state)
  /\ phase \in {"program", "gate", "refresh"} => state = initial
  /\ cmd \in {"plan", "drift"} /\ phase = "gate" => validate(plan, state)
  /\ phase = "update" => _prior(initial) /\ Progress
  /\ phase = "confirm" => Present(state) = Graph

Undisturbed ==
  /\ phase # "update" => ~broken
  /\ cut => breaks # 0
  /\ meddles = 0 =>
       /\ broken => cut
       /\ Sound \/ (Stuck /\ breaks # 0)

Explained == RefusesOnlyTheDisturbed /\ OnlyRemainsHinder

IInv == /\ GraphInv /\ Explained /\ Drawn /\ Phased /\ PlansSaved
        /\ LetThrough /\ Hands /\ Undisturbed

-----------------------------------------------------------------------------
(* Numbers and kinds of resources.                                         *)
Top == 2 + MaxMeddles + MaxCommands

LEMMA Limits ==
  /\ MaxCommands \in Nat /\ MaxMeddles \in Nat /\ MaxBreaks \in Nat
  /\ Top \in Nat /\ Top >= 2
BY GraphAssumption DEF GraphAssumption, Top

LEMMA Kinds ==
  /\ Native \subseteq Graph /\ Records \subseteq Native
  /\ Registries \subseteq Native /\ "identity" \in Native
  /\ "provider" \in Graph /\ "provider" \notin Native
  /\ "identity" \notin Records /\ "identity" \notin Registries
  /\ Records \cap Registries = {}
  /\ Native = Registries \cup {"identity"} \cup Records
BY GraphAssumption DEF GraphAssumption, Native, Graph, Base, Mail, Registries

LEMMA TypeFacts ==
  ASSUME TypeOK
  PROVE  /\ state \in [Graph -> 0 .. Top] /\ native \in [Native -> 0 .. Top]
         /\ doing \in [Graph -> 0 .. Top]
         /\ (cmd = "none") = (phase = "idle")
BY DEF TypeOK, Top

(* An update makes of each resource what the gate's goal names, when the   *)
(* checkpoint is one the gate takes.                                       *)
LEMMA OpIsOperation ==
  ASSUME NEW s, s \in [Graph -> Nat], _prior(s), NEW r \in Graph
  PROVE  Op(r, s) = _operation(r, s)
<1>1. r \in Registries => s[r] # 2
  BY DEF _prior, _ecr_values
<1>2. r \in Records => s[r] = 0 \/ s[r] = s["identity"]
  BY DEF _prior, validate_bindings
<1> QED
  BY <1>1, <1>2 DEF Op, _operation

(* Nothing is captured but what AWS holds, when they agree.                *)
LEMMA AgreedIsCaptured ==
  ASSUME TypeOK, Agreed, doing = None, _prior(state)
  PROVE  /\ Capture
         /\ Refreshed(state, native) = state
<1>1. \A r \in Native : native[r] = state[r]
  BY Kinds DEF Agreed, None
<1>2. _ecr_inventory(state, native)
  BY <1>1, Kinds DEF _ecr_inventory
<1>3. inspect_inventory(state, native)
  BY <1>1, Kinds DEF inspect_inventory, _prior, validate_bindings
<1>4. Refreshed(state, native) = state
  <2>1. state = [r \in Graph |-> state[r]]
    BY TypeFacts
  <2> QED
    BY <1>1, <2>1 DEF Refreshed
<1> QED
  BY <1>2, <1>3, <1>4 DEF Capture

-----------------------------------------------------------------------------
LEMMA InitHolds == Init => IInv
<1> SUFFICES ASSUME Init PROVE IInv
  OBVIOUS
<1>0. /\ phase = "idle" /\ cmd = "none" /\ doing = None /\ verdict = NoVerdict
      /\ saved = {} /\ sets = 0 /\ begun = 0 /\ meddles = 0 /\ breaks = 0
      /\ foreign = {} /\ touched = {} /\ taken = {} /\ cut = FALSE
      /\ broken = FALSE /\ initial = None
      /\ native = [r \in Native |-> 0]
  BY DEF Init
<1>1. PICK provider \in {0, 1, 2} :
        state = [r \in Graph |->
                  CASE r = "provider" -> provider
                    [] r \in {"root", "environment"} ->
                         IF provider = 0 THEN 0 ELSE 1
                    [] OTHER -> 0]
  BY DEF Init
<1>2. /\ state["provider"] = provider
      /\ \A r \in Graph \ Base : state[r] = 0
      /\ \A r \in {"root", "environment"} :
           state[r] = IF provider = 0 THEN 0 ELSE 1
  BY <1>1, Kinds DEF Graph, Base
<1>3. state \in [Graph -> {0, 1, 2}]
  BY <1>1
<1>4. TypeOK
  <2>1. {0, 1, 2} \subseteq 0 .. Top
    BY Limits
  <2>2. state \in [Graph -> 0 .. Top]
    BY <1>3, <2>1
  <2>3. native \in [Native -> 0 .. Top] /\ doing \in [Graph -> 0 .. Top]
    BY <1>0, <2>1 DEF None
  <2> QED
    BY <1>0, <2>2, <2>3 DEF TypeOK, Top, NoVerdict
<1>5. GraphInv /\ Explained
  BY <1>0, <1>4 DEF GraphInv, OwnsWhatItHolds, ExistingStays, Explained,
                    RefusesOnlyTheDisturbed, OnlyRemainsHinder, NoVerdict
<1>6. Drawn /\ Phased /\ PlansSaved /\ LetThrough /\ Hands
  BY <1>0, Limits DEF Drawn, Phased, PlansSaved, LetThrough, Hands, Doing,
                      Present, None
<1>7. Undisturbed
  <2>0. \A r \in Native : r \in Graph \ Base
    BY GraphAssumption DEF GraphAssumption, Graph, Base, Native, Mail,
                           Registries
  <2>1. Agreed
    BY <1>0, <1>2, <2>0, Kinds DEF Agreed, None
  <2>2. Present(state) \subseteq Base
    BY <1>2 DEF Present
  <2>3. _legacy_snapshot(state)
    BY <1>2, <2>2 DEF _legacy_snapshot, Legacy, Present, Base, Graph
  <2>4. \A r \in Registries : _ecr_values(r, state)
    BY <1>2, <2>0, Kinds DEF _ecr_values
  <2>5. validate_bindings(state)
    BY <1>2, <2>0, Kinds DEF validate_bindings
  <2>6. _prior(state)
    BY <2>2, <2>3, <2>4, <2>5 DEF _prior
  <2> QED
    BY <1>0, <2>1, <2>6 DEF Undisturbed, Sound
<1> QED
  BY <1>5, <1>6, <1>7 DEF IInv

-----------------------------------------------------------------------------
(* A checkpoint a later command goes on from, or is held up by.            *)
Remaining == \/ Agreed' /\ _prior(state)
             \/ ~(Present(state) \subseteq Base) /\ Present(state) # Graph

(* A command that ends leaves what the graph is as it was.                 *)
LEMMA EndKeeps ==
  ASSUME IInv, NEW v, v \in {"ok", "refused", "failed"}, cmd # "none", End(v),
         UNCHANGED <<state, native, sets, begun, meddles, foreign, touched,
                     taken>>,
         breaks' \in Nat, cut' \in BOOLEAN, cut' => breaks' # 0,
         meddles = 0 => Remaining /\ (breaks' = 0 => Agreed' /\ _prior(state))
  PROVE  GraphInv' /\ Drawn' /\ Phased' /\ LetThrough' /\ Hands' /\ Undisturbed'
<1>0. /\ cmd' = "none" /\ phase' = "idle" /\ doing' = None /\ broken' = FALSE
      /\ initial' = None /\ verdict' = [of |-> cmd, how |-> v]
  BY DEF End
<1>1. TypeOK /\ OwnsWhatItHolds /\ Drawn /\ Phased /\ Hands
  BY DEF IInv, GraphInv
<1>2. GraphInv'
  <2>1. None \in [Graph -> 0 .. Top]
    BY Limits DEF None
  <2>2. TypeOK'
    BY <1>0, <1>1, <2>1 DEF TypeOK, Top
  <2> QED
    BY <1>0, <1>1, <2>2 DEF GraphInv, OwnsWhatItHolds, ExistingStays
<1>3. Drawn'
  BY <1>0, <1>1 DEF Drawn
<1>4. Phased' /\ LetThrough' /\ Hands'
  BY <1>0, <1>1 DEF Phased, LetThrough, Hands, Doing, Present, None
<1>5. Undisturbed'
  BY <1>0 DEF Undisturbed, Sound, Stuck, Remaining, Present
<1> QED
  BY <1>2, <1>3, <1>4, <1>5

(* Before and after its update a command leaves what it found.             *)
LEMMA LeavesAsFound ==
  ASSUME IInv, NEW v, End(v), phase # "update", meddles = 0,
         UNCHANGED <<state, native>>
  PROVE  Remaining /\ (breaks = 0 => Agreed' /\ _prior(state))
<1>1. doing = None /\ doing' = None
  BY DEF IInv, Phased, End
<1>2. Sound \/ (Stuck /\ breaks # 0)
  BY DEF IInv, Undisturbed
<1>3. CASE Sound
  <2>1. Agreed'
    BY <1>1, <1>3 DEF Sound, Agreed
  <2> QED
    BY <1>3, <2>1 DEF Sound, Remaining
<1>4. CASE Stuck /\ breaks # 0
  BY <1>4 DEF Stuck, Remaining
<1> QED
  BY <1>2, <1>3, <1>4

(* A checkpoint that an update filled is one the gate takes, and an update *)
(* cut short has kept to the baseline, or is stuck beyond it.              *)
LEMMA WholeIsPrior ==
  ASSUME TypeOK, _prior(initial), Progress, Present(state) = Graph
  PROVE  _prior(state) /\ \A r \in Native : doing[r] = 0
<1>1. \A r \in Graph : state[r] # 0
  BY DEF Present
<1>2. \A r \in Native : r \in Graph /\ r # "provider"
  BY Kinds
<1>3. \A r \in Native : _operation(r, initial) # "same" => initial[r] = 0
  BY <1>2 DEF _operation
<1>4. \A r \in Native : doing[r] = 0
  BY <1>1, <1>2, <1>3 DEF Progress, Stepwise, Making
<1>5. \A r \in Native : state[r] # initial[r] =>
                         initial[r] = 0 /\ New(r, state[r])
  BY <1>2, <1>3 DEF Progress, Stepwise, Changed
<1>6. _legacy_snapshot(state)
  <2>1. SUFFICES ASSUME state["provider"] = 1 PROVE FALSE
    BY DEF _legacy_snapshot, Legacy
  <2>2. \A r \in Native : state[r] = initial[r]
    BY <2>1 DEF Progress, InOrder, Follows
  <2>3. initial["identity"] # 0 /\ "identity" \in Graph \ Base
    BY <1>1, <2>2, Kinds DEF Base
  <2>4. initial["provider"] = 1
    BY <2>1, Kinds DEF Progress, Stepwise, Changed, New
  <2> QED
    BY <2>3, <2>4 DEF _prior, _legacy_snapshot, Legacy, Present
<1>7. \A r \in Registries : _ecr_values(r, state)
  <2> TAKE r \in Registries
  <2>1. r \in Native
    BY Kinds
  <2> QED
    BY <1>5, <2>1 DEF New, _prior, _ecr_values
<1>8. validate_bindings(state)
  <2>1. "identity" \in Native /\ \A r \in Records : r \in Native
    BY Kinds
  <2>2. \A r \in Records : state[r] = state["identity"]
    <3> TAKE r \in Records
    <3>1. CASE state[r] # initial[r]
      BY <1>5, <2>1, <3>1 DEF New
    <3>2. CASE state[r] = initial[r]
      <4>1. initial[r] # 0
        BY <1>1, <1>2, <2>1, <3>2
      <4>2. initial[r] = initial["identity"] /\ initial["identity"] # 0
        BY <4>1 DEF _prior, validate_bindings
      <4>3. state["identity"] = initial["identity"]
        BY <1>5, <2>1, <4>2
      <4> QED
        BY <3>2, <4>2, <4>3
    <3> QED
      BY <3>1, <3>2
  <2> QED
    BY <1>1, <1>2, <2>1, <2>2 DEF validate_bindings
<1> QED
  BY <1>4, <1>6, <1>7, <1>8 DEF _prior

LEMMA BaselineIsPrior ==
  ASSUME TypeOK, _prior(initial), Progress, Present(state) \subseteq Base
  PROVE  _prior(state) /\ \A r \in Native : doing[r] = 0
<1>1. \A r \in Native : r \in Graph /\ r \notin Base /\ state[r] = 0
  BY Kinds, GraphAssumption DEF Present, GraphAssumption, Graph, Base, Native,
                                Mail, Registries
<1>2. "service" \in Graph /\ state["service"] = 0
  BY DEF Present, Graph, Base
<1>3. \A r \in Native : doing[r] = 0
  BY <1>2 DEF Progress, InOrder, Follows
<1>4. _legacy_snapshot(state)
  <2>1. SUFFICES ASSUME state["provider"] = 1 PROVE Present(state) = Base
    BY DEF _legacy_snapshot, Legacy
  <2>2. initial["provider"] = 1
    BY <2>1, Kinds DEF Progress, Stepwise, Changed, New
  <2>3. Present(initial) = Base
    BY <2>2 DEF _prior, _legacy_snapshot, Legacy
  <2>4. \A r \in Graph : initial[r] # 0 => state[r] # 0
    BY DEF Progress, Stepwise, Changed
  <2> QED
    BY <2>3, <2>4 DEF Present
<1>5. \A r \in Registries : _ecr_values(r, state)
  BY <1>1, Kinds DEF _ecr_values
<1>6. validate_bindings(state)
  BY <1>1, Kinds DEF validate_bindings
<1> QED
  BY <1>3, <1>4, <1>5, <1>6 DEF _prior

LEMMA LeavesRemains ==
  ASSUME IInv, NEW v, End(v), phase = "update", meddles = 0,
         UNCHANGED <<state, native>>
  PROVE  Remaining
<1>1. TypeOK /\ Agreed /\ _prior(initial) /\ Progress
  BY DEF IInv, GraphInv, Undisturbed, Sound, Stuck
<1>2. doing' = None
  BY DEF End
<1>3. ASSUME _prior(state), \A r \in Native : doing[r] = 0 PROVE Remaining
  <2>1. Agreed'
    BY <1>1, <1>2, <1>3, Kinds DEF Agreed, None
  <2> QED
    BY <1>3, <2>1 DEF Remaining
<1> QED
  BY <1>1, <1>3, WholeIsPrior, BaselineIsPrior DEF Remaining

LEMMA EndsBeside ==
  ASSUME IInv, NEW v \in {"ok", "refused", "failed"}, cmd # "none", End(v),
         phase # "update",
         UNCHANGED <<state, native, sets, begun, meddles, breaks, foreign,
                     touched, taken, cut>>
  PROVE  GraphInv' /\ Drawn' /\ Phased' /\ LetThrough' /\ Hands' /\ Undisturbed'
<1>1. breaks' \in Nat /\ cut' \in BOOLEAN /\ (cut' => breaks' # 0)
  BY DEF IInv, GraphInv, TypeOK, Drawn, Undisturbed
<1>2. meddles = 0 => Remaining /\ (breaks' = 0 => Agreed' /\ _prior(state))
  BY LeavesAsFound
<1> QED
  BY <1>1, <1>2, EndKeeps

LEMMA BeginKeeps == ASSUME IInv, Begin PROVE IInv'
<1>0. /\ cmd = "none" /\ phase = "idle" /\ phase' = "capture"
      /\ begun' = begun + 1 /\ begun < MaxCommands
      /\ cmd' \in {"plan", "up-plan", "drift"} /\ verdict' = NoVerdict
      /\ cut' = FALSE
      /\ UNCHANGED <<state, native, sets, saved, initial, plan, doing, broken,
                     meddles, breaks, foreign, touched, taken>>
  BY DEF Begin, IInv, GraphInv, TypeOK
<1>1. GraphInv'
  BY <1>0 DEF IInv, GraphInv, TypeOK, OwnsWhatItHolds, ExistingStays, NoVerdict
<1>2. Drawn'
  BY <1>0, Limits DEF IInv, Drawn
<1>3. Phased' /\ PlansSaved' /\ LetThrough' /\ Hands' /\ Explained'
  BY <1>0 DEF IInv, Phased, PlansSaved, LetThrough, Hands, Doing, Present,
              Explained, RefusesOnlyTheDisturbed, OnlyRemainsHinder, NoVerdict,
              Coherent
<1>4. Undisturbed'
  BY <1>0 DEF IInv, Undisturbed, Sound, Stuck, Present, Agreed
<1> QED
  BY <1>1, <1>2, <1>3, <1>4 DEF IInv

LEMMA FirstCaptureKeeps == ASSUME IInv, FirstCapture PROVE IInv'
<1>0. /\ phase = "capture" /\ cmd # "none" /\ doing = None
      /\ UNCHANGED <<state, native, sets, saved, begun, meddles, breaks,
                     foreign, touched, taken, cut>>
  BY DEF FirstCapture, IInv, GraphInv, TypeOK, Phased, bounds, history
<1>1. CASE Capture /\ (cmd = "drift" => Present(state) = Graph)
  <2>1. /\ phase' = "program" /\ initial' = state
        /\ UNCHANGED <<cmd, plan, doing, broken, verdict>>
    BY <1>1 DEF FirstCapture
  <2>2. GraphInv'
    BY <1>0, <2>1 DEF IInv, GraphInv, TypeOK, OwnsWhatItHolds, ExistingStays
  <2>3. Drawn'
    BY <1>0, <2>1 DEF IInv, Drawn
  <2>4. Phased'
    <3>1. state \in [Graph -> Nat]
      BY TypeFacts, Limits DEF IInv, GraphInv
    <3> QED
      BY <1>0, <2>1, <3>1 DEF IInv, Phased
  <2>5. PlansSaved' /\ LetThrough' /\ Hands' /\ Explained'
    BY <1>0, <2>1 DEF IInv, PlansSaved, LetThrough, Hands, Doing, Present,
                      Explained, RefusesOnlyTheDisturbed, OnlyRemainsHinder,
                      Coherent
  <2>6. Undisturbed'
    <3>1. ~Stuck
      BY <1>1 DEF Capture, _prior, Stuck
    <3> QED
      BY <1>0, <2>1, <3>1 DEF IInv, Undisturbed, Sound, Agreed
  <2> QED
    BY <2>2, <2>3, <2>4, <2>5, <2>6 DEF IInv
<1>2. CASE ~(Capture /\ (cmd = "drift" => Present(state) = Graph))
  <2>1. End("refused")
    BY <1>2 DEF FirstCapture
  <2>2. GraphInv' /\ Drawn' /\ Phased' /\ LetThrough' /\ Hands' /\ Undisturbed'
    BY <1>0, <2>1, EndsBeside
  <2>3. PlansSaved'
    BY <1>0, <2>1 DEF IInv, PlansSaved, End, Coherent
  <2>4. ASSUME meddles = 0 PROVE Capture \/ (Stuck /\ breaks # 0)
    BY <1>0, <2>4, AgreedIsCaptured DEF IInv, GraphInv, Undisturbed, Sound
  <2>5. Explained'
    BY <1>0, <1>2, <2>1, <2>4 DEF Explained, RefusesOnlyTheDisturbed,
                                  OnlyRemainsHinder, Stuck, Present, End
  <2> QED
    BY <2>2, <2>3, <2>5 DEF IInv
<1> QED
  BY <1>1, <1>2

LEMMA PlanKeeps == ASSUME IInv, Plan PROVE IInv'
<1>0. /\ phase = "program" /\ phase' = "gate" /\ cmd # "none" /\ doing = None
      /\ UNCHANGED <<state, native, sets, saved, cmd, initial, doing, broken,
                     verdict, begun, meddles, breaks, foreign, touched, taken,
                     cut>>
  BY DEF Plan, IInv, GraphInv, TypeOK, Phased, bounds, history
<1>1. GraphInv'
  BY <1>0 DEF IInv, GraphInv, TypeOK, OwnsWhatItHolds, ExistingStays
<1>2. Drawn'
  BY <1>0 DEF IInv, Drawn
<1>3. Phased' /\ LetThrough' /\ Hands' /\ Explained'
  BY <1>0 DEF IInv, Phased, LetThrough, Hands, Doing, Present, Explained,
              RefusesOnlyTheDisturbed, OnlyRemainsHinder
<1>4. PlansSaved'
  BY <1>0 DEF IInv, PlansSaved, Coherent, Plan
<1>5. Undisturbed'
  <2>1. ASSUME meddles = 0, cmd # "up-plan"
        PROVE  validate(plan', state)
    <3>1. TypeOK /\ Agreed /\ _prior(state)
      BY <1>0, <2>1 DEF IInv, GraphInv, Undisturbed, Sound, Stuck
    <3>2. Refreshed(state, native) = state
      BY <1>0, <3>1, AgreedIsCaptured
    <3>3. plan' = [on |-> state, refreshed |-> state,
                   op |-> [r \in Graph |-> Op(r, state)]]
      BY <2>1, <3>2 DEF Plan, Preview
    <3>4. state \in [Graph -> Nat]
      BY <3>1, TypeFacts, Limits
    <3> QED
      BY <3>1, <3>3, <3>4, OpIsOperation DEF validate, _goal, _preview
  <2> QED
    BY <1>0, <2>1 DEF IInv, Undisturbed, Sound, Stuck, Agreed
<1> QED
  BY <1>1, <1>2, <1>3, <1>4, <1>5 DEF IInv

LEMMA GateKeeps == ASSUME IInv, Gate PROVE IInv'
<1>0. /\ phase = "gate" /\ cmd # "none" /\ doing = None
      /\ UNCHANGED <<state, native, sets, begun, meddles, breaks, foreign, cut>>
  BY DEF Gate, IInv, GraphInv, TypeOK, Phased, bounds
<1>1. ASSUME NEW v \in {"ok", "refused", "failed"}, End(v),
             UNCHANGED <<touched, taken>>
      PROVE  /\ GraphInv' /\ Drawn' /\ Phased' /\ LetThrough' /\ Hands'
             /\ Undisturbed'
  BY <1>0, <1>1, EndsBeside
<1>2. CASE ~(Capture /\ state = initial /\ validate(plan, state))
  <2>1. End("refused") /\ UNCHANGED <<saved, touched, taken>>
    BY <1>2 DEF Gate
  <2>2. PlansSaved'
    BY <1>0, <2>1 DEF IInv, PlansSaved, End, Coherent
  <2>3. ASSUME meddles = 0
        PROVE  cmd = "up-plan" /\ \A p \in saved : p.on # state
    <3>1. /\ Capture /\ state = initial /\ _prior(state)
          /\ cmd \in {"plan", "drift"} => validate(plan, state)
      BY <1>0, <2>3, AgreedIsCaptured DEF IInv, GraphInv, Undisturbed, Sound,
                                          Stuck
    <3>2. cmd = "up-plan" /\ ~validate(plan, state)
      BY <1>0, <1>2, <3>1 DEF IInv, GraphInv, TypeOK
    <3>3. plan \in saved /\ Coherent(plan) /\ \A p \in saved : p = plan
      BY <1>0, <3>2 DEF IInv, PlansSaved
    <3> QED
      BY <3>1, <3>2, <3>3 DEF Coherent, validate, _preview
  <2>4. Explained'
    BY <1>0, <2>1, <2>3 DEF Explained, RefusesOnlyTheDisturbed,
                            OnlyRemainsHinder, Present, End
  <2> QED
    BY <1>1, <2>1, <2>2, <2>4 DEF IInv
<1>3. CASE Capture /\ state = initial /\ validate(plan, state) /\ cmd # "up-plan"
  <2>1. /\ End("ok") /\ UNCHANGED <<touched, taken>>
        /\ saved' = IF cmd = "plan" THEN {plan} ELSE saved
    BY <1>3 DEF Gate, Save
  <2>2. Coherent(plan)
    BY <1>3 DEF Coherent, validate, _preview
  <2>3. PlansSaved'
    BY <2>1, <2>2 DEF IInv, PlansSaved, End, Coherent
  <2>4. Explained'
    BY <2>1 DEF Explained, RefusesOnlyTheDisturbed, OnlyRemainsHinder, End
  <2> QED
    BY <1>1, <2>1, <2>3, <2>4 DEF IInv
<1>4. CASE Capture /\ state = initial /\ validate(plan, state) /\ cmd = "up-plan"
  <2>1. /\ phase' = "refresh" /\ touched' = {} /\ taken' = {}
        /\ UNCHANGED <<saved, cmd, initial, plan, doing, broken, verdict>>
    BY <1>4 DEF Gate, Let
  <2>2. GraphInv'
    BY <1>0, <2>1 DEF IInv, GraphInv, TypeOK, OwnsWhatItHolds, ExistingStays
  <2>3. Drawn'
    BY <1>0, <2>1 DEF IInv, Drawn
  <2>4. Phased' /\ PlansSaved' /\ Hands' /\ Explained'
    BY <1>0, <1>4, <2>1 DEF IInv, Phased, PlansSaved, Hands, Doing, Present,
                            None, Explained, RefusesOnlyTheDisturbed,
                            OnlyRemainsHinder, Coherent
  <2>5. LetThrough'
    <3>1. \A r \in Graph : plan.op[r] = _operation(r, initial)
      BY <1>4 DEF validate, _goal
    <3>2. \A r \in Native : state[r] = 0 \/ native[r] = state[r]
      BY <1>4, Kinds DEF Capture, _ecr_inventory, inspect_inventory, _prior,
                         validate_bindings
    <3> QED
      BY <1>0, <1>4, <2>1, <3>1, <3>2 DEF LetThrough
  <2>6. Undisturbed'
    BY <1>0, <1>4, <2>1 DEF IInv, Undisturbed, Sound, Stuck, Agreed
  <2> QED
    BY <2>2, <2>3, <2>4, <2>5, <2>6 DEF IInv
<1> QED
  BY <1>2, <1>3, <1>4

LEMMA RefreshKeeps == ASSUME IInv, Refresh PROVE IInv'
<1>0. /\ phase = "refresh" /\ phase' = "update" /\ cmd = "up-plan"
      /\ doing = None /\ state = initial
      /\ state' = Refreshed(state, native)
      /\ UNCHANGED <<native, sets, saved, cmd, initial, plan, doing, broken,
                     verdict, begun, meddles, breaks, foreign, touched, cut>>
      /\ taken' = taken \cup {r \in foreign : state[r] \notin {0, native[r]}}
  BY DEF Refresh, IInv, Phased, LetThrough, bounds
<1>1. \A r \in Graph : state'[r] = IF r \in Native /\ state[r] # 0
                                   THEN native[r] ELSE state[r]
  BY <1>0 DEF Refreshed
<1>8. foreign \subseteq Native /\ taken = {}
  BY <1>0 DEF IInv, GraphInv, TypeOK, Hands
<1>9. \A r \in taken' : r \in foreign /\ r \in touched /\ state[r] # 0
  BY <1>0, <1>8 DEF IInv, LetThrough
<1>2. GraphInv'
  <2>1. state' \in [Graph -> 0 .. Top]
    BY <1>0, TypeFacts DEF Refreshed, IInv, GraphInv
  <2>2. TypeOK'
    BY <1>0, <1>8, <1>9, <2>1 DEF IInv, GraphInv, TypeOK, Top
  <2>3. ExistingStays'
    BY <1>0, <1>1 DEF IInv, LetThrough, ExistingStays, Present
  <2> QED
    BY <1>0, <1>9, <2>2, <2>3 DEF GraphInv, OwnsWhatItHolds
<1>3. Drawn'
  BY <1>0 DEF IInv, Drawn
<1>4. Phased' /\ PlansSaved'
  BY <1>0 DEF IInv, Phased, PlansSaved, Coherent
<1>5. Explained'
  BY <1>0 DEF IInv, Phased, Explained, RefusesOnlyTheDisturbed,
              OnlyRemainsHinder, NoVerdict
<1>6. LetThrough' /\ Hands'
  <2>1. \A r \in taken' : state'[r] # 0
    BY <1>0, <1>1, <1>8, <1>9, Kinds DEF IInv, Hands
  <2> QED
    BY <1>0, <2>1 DEF IInv, LetThrough, Hands, Doing, Present, None
<1>7. Undisturbed'
  <2> SUFFICES ASSUME meddles = 0
               PROVE  Agreed' /\ _prior(initial) /\ Progress'
    BY <1>0 DEF IInv, Undisturbed, Sound
  <2>1. Agreed /\ _prior(state)
    BY <1>0 DEF IInv, Undisturbed, Sound, Stuck
  <2>2. state' = state
    BY <1>0, <2>1, AgreedIsCaptured DEF IInv, GraphInv
  <2>3. Agreed'
    BY <1>0, <2>1, <2>2 DEF Agreed
  <2>4. Progress'
    <3>1. \A q \in Graph : state'[q] = initial'[q] /\ doing'[q] = 0
      BY <1>0, <2>2 DEF None
    <3>2. Native \cup {"plane"} \subseteq Graph
      BY Kinds DEF Graph
    <3>3. \A q \in Native \cup {"plane"} : Follows(q)'
      BY <3>1, <3>2 DEF Follows
    <3> QED
      BY <3>1, <3>3 DEF Progress, Stepwise, InOrder
  <2> QED
    BY <1>0, <2>1, <2>3, <2>4
<1> QED
  BY <1>2, <1>3, <1>4, <1>5, <1>6, <1>7 DEF IInv

(* When nothing disturbs it, an update meets every creation as planned and *)
(* nothing in its place.                                                   *)
LEMMA UndisturbedSteps ==
  ASSUME IInv, phase = "update", meddles = 0, NEW r \in ToDo
  PROVE  /\ r \in Graph /\ doing[r] = 0 /\ state[r] = initial[r]
         /\ Op(r, state) = _operation(r, initial)
         /\ _operation(r, initial) # "same"
         /\ r \in Native => native[r] = 0
<1>0. r \in Graph /\ doing[r] = 0 /\ Op(r, state) # "same"
  BY DEF ToDo, Doing, Present
<1>1. Agreed /\ _prior(initial) /\ Progress
  BY DEF IInv, Undisturbed, Sound, Stuck
<1>2. state[r] = initial[r]
  <2>1. SUFFICES ASSUME state[r] # initial[r] PROVE FALSE
    OBVIOUS
  <2>2. state[r] # 0 /\ New(r, state[r])
    BY <1>0, <1>1, <2>1 DEF Progress, Stepwise, Changed
  <2> QED
    BY <1>0, <2>2 DEF New, Op, Legacy
<1>3. r \in Registries => state[r] # 2
  BY <1>1, <1>2 DEF _prior, _ecr_values
<1>4. r \in Records /\ state[r] # 0 => state[r] = state["identity"]
  <2>1. SUFFICES ASSUME r \in Records, state[r] # 0, state[r] # state["identity"]
                 PROVE  FALSE
    OBVIOUS
  <2>2. initial["identity"] # 0 /\ initial[r] = initial["identity"]
    BY <1>1, <1>2, <2>1 DEF _prior, validate_bindings
  <2>3. _operation("identity", initial) = "same"
    BY <2>2 DEF _operation
  <2>4. state["identity"] # initial["identity"]
    BY <1>2, <2>1, <2>2
  <2> QED
    BY <1>1, <2>3, <2>4, Kinds DEF Progress, Stepwise, Changed
<1>5. Op(r, state) = _operation(r, initial)
  BY <1>0, <1>2, <1>3, <1>4 DEF Op, _operation, Legacy
<1>6. r \in Native => native[r] = 0
  <2>1. SUFFICES ASSUME r \in Native PROVE native[r] = 0
    OBVIOUS
  <2>2. native[r] = state[r] /\ r # "provider"
    BY <1>0, <1>1, <2>1, Kinds DEF Agreed
  <2> QED
    BY <1>0, <1>2, <1>5, <2>2 DEF _operation
<1> QED
  BY <1>0, <1>2, <1>5, <1>6

LEMMA MadeIsNew ==
  ASSUME IInv, phase = "update", NEW r \in ToDo, Ready(r)
  PROVE  /\ r \in Graph /\ doing[r] = 0 /\ Op(r, state) # "same"
         /\ Made(r) \in 1 .. Top
         /\ New(r, Made(r))
         /\ r = "identity" =>
              /\ state["identity"] = 0 /\ sets + 1 <= meddles + begun
              /\ Made(r) = sets + 1
<1>0. r \in Graph /\ doing[r] = 0 /\ Op(r, state) # "same"
  BY DEF ToDo, Doing, Present
<1>1. r \in Records =>
        /\ Made(r) = state["identity"] /\ state["identity"] # 0
        /\ doing["identity"] = 0
  <2>1. SUFFICES ASSUME r \in Records
                 PROVE  state["identity"] # 0 /\ doing["identity"] = 0
    BY Kinds DEF Made
  <2>2. "identity" \in Needs(r) /\ "identity" \in Graph
    BY <2>1, Kinds DEF Needs
  <2>3. "identity" \notin ToDo \cup Doing
    BY <2>2 DEF Ready
  <2> QED
    BY <2>2, <2>3 DEF ToDo, Doing, Present, Op
<1>2. r = "identity" =>
        /\ state["identity"] = 0 /\ sets + 1 <= meddles + begun
        /\ Made(r) = sets + 1
  <2>1. SUFFICES ASSUME r = "identity"
                 PROVE  state[r] = 0 /\ sets + 1 <= meddles + begun
    BY Kinds DEF Made
  <2>2. state[r] = 0
    BY <1>0, <2>1, Kinds DEF Op
  <2>3. cmd # "none"
    BY DEF IInv, Phased
  <2>4. sets < meddles + begun
    BY <1>0, <2>1, <2>2, <2>3 DEF IInv, Drawn
  <2>5. sets \in Nat /\ meddles \in Nat /\ begun \in Nat
    BY Limits DEF IInv, Drawn
  <2> QED
    BY <2>2, <2>4, <2>5
<1>3. Made(r) \in 1 .. Top
  <2>1. CASE r = "identity"
    <3>1. /\ sets \in Nat /\ meddles \in Nat /\ begun \in Nat
          /\ meddles <= MaxMeddles /\ begun <= MaxCommands
      BY Limits DEF IInv, Drawn
    <3>2. Made(r) = sets + 1 /\ sets + 1 <= meddles + begun
      BY <1>2, <2>1
    <3> QED
      BY ONLY <3>1, <3>2, Limits DEF Top
  <2>2. CASE r \in Records
    <3>1. state["identity"] \in 0 .. Top
      BY TypeFacts, Kinds DEF IInv, GraphInv
    <3> QED
      BY <1>1, <2>2, <3>1, Limits
  <2>3. CASE r \notin Records /\ r # "identity"
    <3>1. Made(r) \in {1, 2}
      BY <2>3 DEF Made
    <3> QED
      BY <3>1, Limits
  <2> QED
    BY <2>1, <2>2, <2>3
<1>4. New(r, Made(r))
  BY <1>1, Kinds DEF New, Made
<1> QED
  BY <1>0, <1>2, <1>3, <1>4

(* What an update may create has its owner and its provider.               *)
LEMMA NeedsAreMet ==
  ASSUME IInv, _prior(initial), Progress, NEW r \in Native \cup {"plane"},
         Ready(r)
  PROVE  /\ state["service"] # 0
         /\ r \in Native => state["provider"] \notin {0, 1}
<1>1. \A q \in Graph : q \in Needs(r) => state[q] # 0 /\ Op(q, state) = "same"
  BY DEF Ready, ToDo, Doing, Present, Op
<1>2. r \in Native => state["provider"] \notin {0, 1}
  <2>1. SUFFICES ASSUME r \in Native PROVE state["provider"] \notin {0, 1}
    OBVIOUS
  <2>2. "provider" \in Needs(r) /\ "provider" \in Graph
    BY <2>1, Kinds DEF Needs
  <2> QED
    BY <1>1, <2>2 DEF Op, Legacy
<1>3. state["service"] # 0
  <2>1. {"service", "plane"} \subseteq Graph
    BY DEF Graph
  <2>2. CASE r \in Mail \/ r = "plane"
    <3>1. Parent(r) = "service"
      BY <2>2, GraphAssumption DEF Parent, GraphAssumption, Mail, Registries
    <3> QED
      BY <1>1, <2>1, <3>1 DEF Needs
  <2>3. CASE r \in Registries
    <3>1. Parent(r) = "plane"
      <4>1. r \notin Mail /\ r # "plane" /\ r \notin {"environment", "service"}
        BY <2>3, GraphAssumption DEF GraphAssumption, Mail, Registries
      <4> QED
        BY <2>3, <4>1 DEF Parent
    <3>2. state["plane"] # 0
      BY <1>1, <2>1, <3>1 DEF Needs
    <3>3. CASE state["plane"] # initial["plane"]
      BY <3>3 DEF Progress, InOrder, Follows
    <3>4. CASE state["plane"] = initial["plane"]
      <4>1. "plane" \in Present(initial) /\ "plane" \notin Base
        BY <2>1, <3>2, <3>4 DEF Present, Base
      <4>2. initial["service"] # 0
        BY <2>1, <4>1 DEF _prior, Present
      <4> QED
        BY <2>1, <4>2 DEF Progress, Stepwise, Changed
    <3> QED
      BY <3>3, <3>4
  <2> QED
    BY <2>2, <2>3 DEF Native
<1> QED
  BY <1>2, <1>3

LEMMA CreateKeeps == ASSUME IInv, NEW r \in Graph, Create(r) PROVE IInv'
<1>0. /\ phase = "update" /\ cmd = "up-plan" /\ r \in ToDo /\ Ready(r) /\ ~broken
      /\ UNCHANGED <<state, saved, cmd, phase, initial, plan, verdict, begun,
                     meddles, breaks, foreign, taken, cut>>
  BY DEF Create, IInv, Phased, bounds
<1>1. /\ doing[r] = 0 /\ Op(r, state) # "same"
      /\ Made(r) \in 1 .. Top /\ New(r, Made(r))
      /\ r = "identity" =>
           /\ state["identity"] = 0 /\ sets + 1 <= meddles + begun
           /\ Made(r) = sets + 1
  BY <1>0, MadeIsNew
<1>2. PlansSaved' /\ Explained'
  BY <1>0 DEF IInv, Phased, PlansSaved, Explained, RefusesOnlyTheDisturbed,
              OnlyRemainsHinder, NoVerdict, Coherent
<1>3. CASE ~Planned(r) \/ (r \in Native /\ RefusesExisting(r))
  <2>1. broken' = TRUE /\ UNCHANGED <<native, sets, doing, touched>>
    BY <1>3 DEF Create
  <2>2. GraphInv'
    BY <1>0, <2>1 DEF IInv, GraphInv, TypeOK, OwnsWhatItHolds, ExistingStays
  <2>3. Drawn' /\ Phased' /\ LetThrough' /\ Hands'
    BY <1>0, <2>1 DEF IInv, Drawn, Phased, LetThrough, Hands, Doing, Present
  <2>4. meddles # 0
    <3>1. SUFFICES ASSUME meddles = 0 PROVE FALSE
      OBVIOUS
    <3>2. /\ Op(r, state) = _operation(r, initial)
          /\ r \in Native => native[r] = 0
      BY <1>0, <3>1, UndisturbedSteps
    <3>3. plan.op[r] = _operation(r, initial)
      BY <1>0 DEF IInv, LetThrough
    <3> QED
      BY <1>3, <3>2, <3>3 DEF Planned, RefusesExisting
  <2>5. Undisturbed'
    BY <1>0, <2>4 DEF IInv, Undisturbed
  <2> QED
    BY <1>2, <2>2, <2>3, <2>5 DEF IInv
<1>4. CASE Planned(r) /\ (r \in Native => native[r] = 0)
  <2>1. /\ doing' = [doing EXCEPT ![r] = Made(r)]
        /\ sets' = IF r = "identity" THEN sets + 1 ELSE sets
        /\ native' = IF r \in Native THEN [native EXCEPT ![r] = Made(r)]
                     ELSE native
        /\ touched' = touched \ {r} /\ broken' = broken
    BY <1>4 DEF Create, RefusesExisting
  <2>2. TypeOK /\ Drawn /\ Phased /\ LetThrough
    BY DEF IInv, GraphInv
  <2>9. /\ r \in Native => initial[r] = 0 /\ state[r] = 0
        /\ r \notin foreign /\ r \notin taken
    <3>1. r \in Native => r # "provider"
      BY Kinds
    <3>2. Op(r, state) = _operation(r, initial)
      BY <1>0, <1>4, <2>2 DEF LetThrough, Planned
    <3>3. r \in Native => initial[r] = 0 /\ state[r] = 0
      BY <1>1, <3>1, <3>2 DEF _operation, Op
    <3>4. foreign \subseteq Native /\ taken \subseteq Native
      BY <2>2 DEF TypeOK
    <3> QED
      BY <1>0, <1>4, <3>3, <3>4 DEF IInv, Hands
  <2>3. /\ doing'[r] = Made(r) /\ Made(r) # 0
        /\ \A q \in Graph \ {r} : doing'[q] = doing[q]
        /\ r \in Native => native'[r] = Made(r)
        /\ \A q \in Native \ {r} : native'[q] = native[q]
    BY <1>1, <2>1, <2>2, TypeFacts, Kinds
  <2>4. GraphInv'
    <3>1. doing' \in [Graph -> 0 .. Top] /\ native' \in [Native -> 0 .. Top]
      BY <1>1, <2>1, <2>2, TypeFacts
    <3>2. TypeOK'
      BY <1>0, <2>1, <2>2, <3>1 DEF TypeOK, Top
    <3>3. OwnsWhatItHolds'
      BY <1>0, <2>1, <2>9 DEF IInv, GraphInv, OwnsWhatItHolds
    <3>4. ExistingStays'
      <4>1. touched \subseteq Native /\ ExistingStays
        BY <2>2 DEF IInv, GraphInv, TypeOK
      <4>2. \A q \in Graph : initial[q] # 0 /\ q \in touched => q \in touched'
        BY <2>1, <2>9, <4>1
      <4> QED
        BY <1>0, <4>1, <4>2 DEF ExistingStays, Present
    <3> QED
      BY <3>2, <3>3, <3>4 DEF GraphInv
  <2>5. Drawn'
    <3>1. CASE r = "identity"
      BY <1>0, <1>1, <2>1, <2>2, <2>3, <3>1 DEF Drawn
    <3>2. CASE r # "identity"
      BY <1>0, <2>1, <2>2, <2>3, <3>2, Kinds DEF Drawn
    <3> QED
      BY <3>1, <3>2
  <2>6. Phased' /\ Hands'
    <3>1. \A q \in foreign : q # r /\ q \in Native
      BY <2>2, <2>9 DEF TypeOK
    <3>2. Hands'
      BY <1>0, <2>1, <2>3, <3>1, Kinds DEF IInv, Hands, Doing, Present
    <3> QED
      BY <1>0, <2>2, <3>2 DEF Phased
  <2>7. LetThrough'
    <3>1. \/ initial[r] = 0
          \/ r = "provider" /\ initial[r] = 1 /\ Made(r) = 2
      <4>1. _operation(r, initial) = Op(r, state)
        BY <1>0, <1>4, <2>2 DEF LetThrough, Planned
      <4>2. initial[r] = 0 \/ (r = "provider" /\ initial[r] = 1)
        BY <1>1, <4>1 DEF _operation, Legacy
      <4>3. r = "provider" => Made(r) = 2
        BY Kinds DEF Made
      <4> QED
        BY <4>2, <4>3
    <3> QED
      BY <1>0, <2>2, <2>3, <3>1 DEF LetThrough, Doing, Present
  <2>8. Undisturbed'
    <3> SUFFICES ASSUME meddles = 0
                 PROVE  Agreed' /\ Progress'
      BY <1>0, <2>1 DEF IInv, Undisturbed, Sound, Stuck
    <3>1. Agreed /\ Progress /\ _prior(initial)
      BY <1>0 DEF IInv, Undisturbed, Sound, Stuck
    <3>2. Agreed'
      BY <1>0, <1>1, <2>3, <3>1, Kinds DEF Agreed
    <3>3. state[r] = initial[r] /\ _operation(r, initial) # "same"
      BY <1>0, UndisturbedSteps
    <3>4. \A q \in Graph :
            /\ state[q] # initial[q] => New(q, state[q])'
            /\ doing'[q] # 0 => New(q, doing[q])'
      <4>1. ASSUME NEW q \in Graph, NEW x, New(q, x)
            PROVE  /\ q \in Records => doing'["identity"] = 0
                   /\ q = "provider" => x = 2
                   /\ q \in Registries => x = 1
                   /\ q \in Records => x = state["identity"] /\ state["identity"] # 0
        BY <1>1, <2>3, <4>1, Kinds DEF New
      <4>2. \A q \in Graph : /\ state[q] # initial[q] => New(q, state[q])
                             /\ doing[q] # 0 => New(q, doing[q])
        BY <3>1 DEF Progress, Stepwise, Changed, Making
      <4> QED
        BY <1>0, <1>1, <2>3, <4>1, <4>2 DEF New
    <3>5. Stepwise'
      BY <1>0, <2>3, <3>1, <3>3, <3>4 DEF Progress, Stepwise, Changed, Making
    <3>6. r \in Native \cup {"plane"} =>
            /\ state["service"] # 0
            /\ r \in Native => state["provider"] \notin {0, 1}
      BY <1>0, <3>1, NeedsAreMet
    <3>7. InOrder'
      <4> SUFFICES ASSUME NEW q \in Native \cup {"plane"} PROVE Follows(q)'
        BY DEF InOrder
      <4>1. CASE q = r
        BY <1>0, <3>6, <4>1 DEF Follows
      <4>2. CASE q # r
        <5>1. q \in Graph
          BY Kinds DEF Graph
        <5>2. doing'[q] = doing[q] /\ Follows(q)
          BY <2>3, <3>1, <4>2, <5>1 DEF Progress, InOrder
        <5> QED
          BY <1>0, <5>2 DEF Follows
      <4> QED
        BY <4>1, <4>2
    <3>8. Progress'
      BY <3>5, <3>7 DEF Progress
    <3> QED
      BY <3>2, <3>8
  <2> QED
    BY <1>2, <2>4, <2>5, <2>6, <2>7, <2>8 DEF IInv
<1> QED
  BY <1>3, <1>4 DEF RefusesExisting

LEMMA EnterKeeps == ASSUME IInv, NEW r \in Graph, Enter(r) PROVE IInv'
<1>0. /\ phase = "update" /\ cmd = "up-plan" /\ doing[r] # 0
      /\ doing' = [doing EXCEPT ![r] = 0]
      /\ state' = [state EXCEPT ![r] = doing[r]]
      /\ taken' = taken \cup ({r} \cap foreign)
      /\ UNCHANGED <<native, sets, saved, cmd, phase, initial, plan, broken,
                     verdict, begun, meddles, breaks, foreign, touched, cut>>
  BY DEF Enter, IInv, Phased, bounds, Doing, Present
<1>1. TypeOK /\ Drawn /\ Phased /\ LetThrough
  BY DEF IInv, GraphInv
<1>2. /\ doing'[r] = 0 /\ state'[r] = doing[r]
      /\ \A q \in Graph \ {r} : doing'[q] = doing[q] /\ state'[q] = state[q]
  BY <1>0, <1>1, TypeFacts
<1>3. GraphInv'
  <2>1. doing' \in [Graph -> 0 .. Top] /\ state' \in [Graph -> 0 .. Top]
    BY <1>0, <1>1, TypeFacts, Limits
  <2>2. TypeOK'
    BY <1>0, <1>1, <2>1 DEF TypeOK, Top
  <2>4. OwnsWhatItHolds'
    <3>1. r \in foreign => r \in touched
      BY <1>0 DEF IInv, Hands, Doing, Present
    <3> QED
      BY <1>0, <3>1 DEF IInv, GraphInv, OwnsWhatItHolds
  <2>3. ExistingStays'
    <3>1. \A q \in Graph : initial'[q] # 0 =>
            \/ state'[q] = state[q]
            \/ q = "provider" /\ initial'[q] = 1 /\ state'[q] = 2
      BY <1>0, <1>1, <1>2 DEF LetThrough, Doing, Present
    <3>2. ExistingStays
      BY DEF IInv, GraphInv
    <3> QED
      BY <1>0, <3>1, <3>2 DEF ExistingStays, Present
  <2> QED
    BY <2>2, <2>3, <2>4 DEF GraphInv
<1>4. Drawn'
  BY <1>0, <1>1, <1>2, Kinds DEF Drawn
<1>5. Phased' /\ PlansSaved' /\ Explained'
  BY <1>0 DEF IInv, Phased, PlansSaved, Explained, RefusesOnlyTheDisturbed,
              OnlyRemainsHinder, NoVerdict, Coherent
<1>6. LetThrough' /\ Hands'
  <2>1. LetThrough'
    BY <1>0, <1>1, <1>2 DEF LetThrough, Doing, Present
  <2>2. \A q \in taken' : q \in Graph /\ state'[q] # 0
    BY <1>0, <1>1, <1>2, Kinds DEF TypeOK, IInv, Hands
  <2>3. \A q \in Graph : doing'[q] # 0 => doing[q] # 0
    BY <1>2
  <2> QED
    BY <1>0, <2>1, <2>2, <2>3 DEF IInv, Hands, Doing, Present
<1>7. Undisturbed'
  <2> SUFFICES ASSUME meddles = 0
               PROVE  Agreed' /\ Progress'
    BY <1>0 DEF IInv, Undisturbed, Sound, Stuck
  <2>1. Agreed /\ Progress
    BY <1>0 DEF IInv, Undisturbed, Sound, Stuck
  <2>2. Agreed'
    BY <1>0, <1>2, <2>1, Kinds DEF Agreed
  <2>3. _operation(r, initial) # "same" /\ New(r, doing[r])
    BY <1>0, <2>1 DEF Progress, Stepwise, Making
  <2>4. ASSUME NEW q \in Graph, NEW x, New(q, x)
        PROVE  /\ q = "provider" => x = 2
               /\ q \in Registries => x = 1
               /\ q \in Records =>
                    /\ x = state'["identity"] /\ state'["identity"] # 0
                    /\ doing'["identity"] = 0
    BY <1>0, <1>2, <2>4, Kinds DEF New
  <2>5. \A q \in Graph :
          /\ state'[q] # initial[q] => New(q, state[q])' /\ state'[q] # 0
          /\ doing'[q] # 0 => New(q, doing[q])'
    BY <1>0, <1>2, <2>1, <2>3, <2>4 DEF Progress, Stepwise, Changed, Making,
                                        New
  <2>6. Stepwise'
    BY <1>0, <1>2, <2>1, <2>3, <2>5 DEF Progress, Stepwise, Changed, Making
  <2>7. /\ state["service"] # 0 => state'["service"] # 0
        /\ state["provider"] \notin {0, 1} => state'["provider"] \notin {0, 1}
    <3>1. r = "provider" => doing[r] = 2
      BY <2>3 DEF New
    <3>2. "service" \in Graph /\ "provider" \in Graph
      BY DEF Graph, Base
    <3> QED
      BY <1>0, <1>2, <3>1, <3>2
  <2>8. InOrder'
    <3> SUFFICES ASSUME NEW q \in Native \cup {"plane"} PROVE Follows(q)'
      BY DEF InOrder
    <3>1. Follows(q) /\ q \in Graph
      BY <2>1, Kinds DEF Progress, InOrder, Graph
    <3>2. state'[q] # initial[q] \/ doing'[q] # 0 =>
            state[q] # initial[q] \/ doing[q] # 0
      BY <1>0, <1>2, <3>1
    <3> QED
      BY <1>0, <2>7, <3>1, <3>2 DEF Follows
  <2>9. Progress'
    BY <2>6, <2>8 DEF Progress
  <2> QED
    BY <2>2, <2>9
<1> QED
  BY <1>3, <1>4, <1>5, <1>6, <1>7 DEF IInv

LEMMA CallFailsKeeps == ASSUME IInv, CallFails PROVE IInv'
<1>0. /\ phase = "update" /\ cmd = "up-plan" /\ breaks' = breaks + 1
      /\ broken' = TRUE /\ cut' = TRUE
      /\ UNCHANGED <<state, native, sets, saved, cmd, phase, initial, plan,
                     doing, verdict, begun, meddles, foreign, touched, taken>>
  BY DEF CallFails, IInv, Phased
<1>1. breaks' \in Nat /\ breaks' # 0
  BY <1>0 DEF IInv, Drawn
<1>2. GraphInv'
  BY <1>0 DEF IInv, GraphInv, TypeOK, OwnsWhatItHolds, ExistingStays
<1>3. Drawn' /\ Phased' /\ LetThrough' /\ Hands' /\ Undisturbed'
  <2>1. meddles = 0 => Sound
    BY <1>0 DEF IInv, Undisturbed, Stuck
  <2>2. Sound => Sound'
    BY <1>0 DEF Sound, Agreed, Progress, Stepwise, InOrder, Changed, Making,
                Follows, New
  <2> QED
    BY <1>0, <1>1, <2>1, <2>2 DEF IInv, Drawn, Phased, LetThrough, Hands,
                                  Doing,
                                  Present, Undisturbed
<1>4. PlansSaved' /\ Explained'
  BY <1>0, <1>1 DEF IInv, PlansSaved, Explained, RefusesOnlyTheDisturbed,
                    OnlyRemainsHinder, Coherent
<1> QED
  BY <1>2, <1>3, <1>4 DEF IInv

LEMMA UpdateEndsKeeps == ASSUME IInv, UpdateEnds PROVE IInv'
<1>0. /\ phase = "update" /\ cmd = "up-plan" /\ Doing = {}
      /\ broken \/ ToDo = {}
      /\ UNCHANGED <<state, native, sets, saved, begun, meddles, breaks,
                     foreign, touched, taken, cut>>
  BY DEF UpdateEnds, IInv, Phased, bounds, history
<1>1. ASSUME meddles = 0
      PROVE  (broken => cut) /\ Agreed /\ _prior(initial) /\ Progress
  BY <1>0, <1>1 DEF IInv, Undisturbed, Sound, Stuck
<1>2. CASE broken
  <2>1. End("failed")
    BY <1>2 DEF UpdateEnds
  <2>2. breaks' \in Nat /\ cut' \in BOOLEAN /\ (cut' => breaks' # 0)
    BY <1>0 DEF IInv, GraphInv, TypeOK, Drawn, Undisturbed
  <2>3. ASSUME meddles = 0 PROVE Remaining /\ breaks' # 0
    BY <1>0, <1>1, <1>2, <2>1, <2>2, <2>3, LeavesRemains
  <2>4. GraphInv' /\ Drawn' /\ Phased' /\ LetThrough' /\ Hands' /\ Undisturbed'
    BY <1>0, <2>1, <2>2, <2>3, EndKeeps
  <2>5. PlansSaved'
    BY <1>0, <2>1 DEF IInv, PlansSaved, End, Coherent
  <2>6. Explained'
    BY <1>0, <1>1, <1>2, <2>3 DEF Explained, RefusesOnlyTheDisturbed,
                                  OnlyRemainsHinder
  <2> QED
    BY <2>4, <2>5, <2>6 DEF IInv
<1>3. CASE ~broken
  <2>1. /\ phase' = "confirm"
        /\ UNCHANGED <<cmd, initial, plan, doing, broken, verdict>>
    BY <1>3 DEF UpdateEnds
  <2>2. GraphInv'
    BY <1>0, <2>1 DEF IInv, GraphInv, TypeOK, OwnsWhatItHolds, ExistingStays
  <2>3. Drawn'
    BY <1>0, <2>1 DEF IInv, Drawn
  <2>4. doing = None
    <3>1. doing = [r \in Graph |-> doing[r]]
      BY TypeFacts DEF IInv, GraphInv
    <3>2. \A r \in Graph : doing[r] = 0
      BY <1>0 DEF Doing, Present
    <3> QED
      BY <3>1, <3>2 DEF None
  <2>5. Phased' /\ LetThrough' /\ Hands'
    BY <1>0, <2>1, <2>4 DEF IInv, Phased, LetThrough, Hands, Doing, Present
  <2>6. PlansSaved' /\ Explained'
    BY <1>0, <2>1 DEF IInv, Phased, PlansSaved, Explained,
                      RefusesOnlyTheDisturbed, OnlyRemainsHinder, NoVerdict,
                      Coherent
  <2>7. Undisturbed'
    <3>1. ASSUME meddles = 0
          PROVE  Agreed' /\ _prior(state) /\ Present(state) = Graph
      <4>1. Present(state) = Graph
        BY <1>0, <1>3 DEF ToDo, Op, Doing, Present
      <4>2. Agreed'
        BY <1>0, <1>1, <2>1, <3>1 DEF Agreed
      <4> QED
        BY <1>1, <3>1, <4>1, <4>2, WholeIsPrior DEF IInv, GraphInv
    <3> QED
      BY <1>0, <1>3, <2>1, <3>1 DEF IInv, Undisturbed, Sound, Present
  <2> QED
    BY <2>2, <2>3, <2>5, <2>6, <2>7 DEF IInv
<1> QED
  BY <1>2, <1>3

LEMMA ConfirmKeeps == ASSUME IInv, Confirm PROVE IInv'
<1>0. /\ phase = "confirm" /\ cmd # "none" /\ doing = None
      /\ End(IF Capture /\ Present(state) = Graph THEN "ok" ELSE "refused")
      /\ UNCHANGED <<state, native, sets, saved, begun, meddles, breaks,
                     foreign, touched, taken, cut>>
  BY DEF Confirm, IInv, GraphInv, TypeOK, Phased, bounds, history
<1>1. GraphInv' /\ Drawn' /\ Phased' /\ LetThrough' /\ Hands' /\ Undisturbed'
  <2>1. (IF Capture /\ Present(state) = Graph THEN "ok" ELSE "refused")
          \in {"ok", "refused", "failed"}
    OBVIOUS
  <2> QED
    BY <1>0, <2>1, EndsBeside
<1>2. PlansSaved'
  BY <1>0 DEF IInv, PlansSaved, End, Coherent
<1>3. ASSUME meddles = 0
      PROVE  Capture /\ Present(state) = Graph
  BY <1>0, <1>3, AgreedIsCaptured DEF IInv, GraphInv, Undisturbed, Sound, Stuck
<1>4. Explained'
  BY <1>0, <1>3 DEF Explained, RefusesOnlyTheDisturbed, OnlyRemainsHinder, End
<1> QED
  BY <1>1, <1>2, <1>4 DEF IInv

LEMMA CrashKeeps == ASSUME IInv, Crash PROVE IInv'
<1>0. /\ cmd # "none" /\ End("failed") /\ breaks' = breaks + 1 /\ cut' = TRUE
      /\ UNCHANGED <<state, native, sets, saved, begun, meddles, foreign,
                     touched, taken>>
  BY DEF Crash
<1>1. breaks' \in Nat /\ breaks' # 0
  BY <1>0 DEF IInv, Drawn
<1>2. meddles = 0 => Remaining
  BY <1>0, LeavesAsFound, LeavesRemains
<1>3. GraphInv' /\ Drawn' /\ Phased' /\ LetThrough' /\ Hands' /\ Undisturbed'
  BY <1>0, <1>1, <1>2, EndKeeps
<1>4. PlansSaved'
  BY <1>0 DEF IInv, PlansSaved, End, Coherent
<1>5. Explained'
  BY <1>0, <1>1 DEF Explained, RefusesOnlyTheDisturbed, OnlyRemainsHinder
<1> QED
  BY <1>3, <1>4, <1>5 DEF IInv

LEMMA MeddleKeeps == ASSUME IInv, Meddle PROVE IInv'
<1>0. /\ meddles < MaxMeddles /\ meddles' = meddles + 1
      /\ touched' = touched \cup {r \in Native : native'[r] # native[r]}
      /\ UNCHANGED <<state, saved, cmd, phase, initial, plan, doing, broken,
                     verdict, begun, breaks, taken, cut>>
      /\ foreign' = {r \in Native : /\ native'[r] # 0
                                    /\ r \in foreign \/ native'[r] # native[r]}
  BY DEF Meddle, command
<1>1. TypeOK /\ Drawn /\ Phased /\ LetThrough /\ ExistingStays
  BY DEF IInv, GraphInv
<1>2. /\ sets \in Nat /\ meddles \in 0 .. MaxMeddles /\ begun \in 0 .. MaxCommands
      /\ sets <= meddles + begun
  BY <1>1 DEF Drawn
<1>3. meddles' # 0 /\ meddles' \in 0 .. MaxMeddles
  BY ONLY <1>0, <1>2, Limits
<1>4. sets + 1 \in 0 .. Top /\ sets \in 0 .. Top /\ {0, 2} \subseteq 0 .. Top
  BY ONLY <1>0, <1>2, Limits DEF Top
<1>5. /\ native' \in [Native -> 0 .. Top]
      /\ sets' = sets \/ sets' = sets + 1
  <2>1. native \in [Native -> 0 .. Top]
    BY <1>1, TypeFacts
  <2>2. \E r \in Native, x \in {0, sets + 1, sets, 2} :
          native' = [native EXCEPT ![r] = x]
    BY DEF Meddle
  <2>3. native' \in [Native -> 0 .. Top]
    BY <1>4, <2>1, <2>2
  <2> QED
    BY <2>3 DEF Meddle
<1>6. GraphInv'
  <2>1. TypeOK'
    BY <1>0, <1>1, <1>5 DEF TypeOK, Top
  <2> QED
    BY <1>0, <1>1, <2>1 DEF IInv, GraphInv, OwnsWhatItHolds, ExistingStays
<1>7. Drawn'
  <2>1. breaks' \in Nat /\ begun' = begun
    BY <1>0, <1>1 DEF Drawn
  <2>2. /\ sets' \in Nat /\ sets' <= meddles' + begun'
        /\ sets < meddles + begun => sets' < meddles' + begun'
    <3>1. begun' = begun
      BY <1>0
    <3> QED
      BY ONLY <1>0, <1>2, <1>5, <3>1, Limits
  <2> QED
    BY <1>0, <1>1, <1>2, <1>3, <2>1, <2>2 DEF Drawn
<1>8. Phased' /\ PlansSaved' /\ Hands'
  BY <1>0 DEF IInv, Phased, PlansSaved, Hands, Doing, Present, Coherent
<1>9. LetThrough'
  <2>1. \A r \in Native : native'[r] = native[r] \/ r \in touched'
    BY <1>0
  <2> QED
    BY <1>0, <1>1, <2>1 DEF LetThrough, Doing, Present
<1>10. Explained' /\ Undisturbed'
  BY <1>0, <1>3 DEF Explained, RefusesOnlyTheDisturbed, OnlyRemainsHinder,
                    IInv,
                    Undisturbed
<1> QED
  BY <1>6, <1>7, <1>8, <1>9, <1>10 DEF IInv

-----------------------------------------------------------------------------
LEMMA StutterKeeps == ASSUME IInv, UNCHANGED vars PROVE IInv'
<1>0. UNCHANGED <<state, native, sets, saved, cmd, phase, initial, plan, doing,
                  broken, verdict, begun, meddles, breaks, foreign, touched,
                  taken, cut>>
  BY DEF vars, command, bounds, history
<1>1. GraphInv'
  BY <1>0 DEF IInv, GraphInv, TypeOK, OwnsWhatItHolds, ExistingStays
<1>2. Drawn' /\ Phased' /\ PlansSaved' /\ Hands'
  BY <1>0 DEF IInv, Drawn, Phased, PlansSaved, Hands, Doing, Present, Coherent
<1>3. LetThrough' /\ Explained'
  BY <1>0 DEF IInv, LetThrough, Doing, Present, Explained,
              RefusesOnlyTheDisturbed, OnlyRemainsHinder
<1>4. Undisturbed'
  <2>1. Sound => Sound'
    BY <1>0 DEF Sound, Agreed, Progress, Stepwise, InOrder, Changed, Making,
                Follows, New
  <2> QED
    BY <1>0, <2>1 DEF IInv, Undisturbed, Stuck, Present
<1> QED
  BY <1>1, <1>2, <1>3, <1>4 DEF IInv

LEMMA NextKeeps == IInv /\ [Next]_vars => IInv'
BY BeginKeeps, FirstCaptureKeeps, PlanKeeps, GateKeeps, RefreshKeeps,
   CreateKeeps, EnterKeeps, UpdateEndsKeeps, ConfirmKeeps, CallFailsKeeps,
   CrashKeeps, MeddleKeeps, StutterKeeps DEF Next, Work

LEMMA Inductive == Spec => []IInv
BY InitHolds, NextKeeps, PTL DEF Spec

(* What people made comes under the stack only where they laid hands on it *)
(* while an update ran, and an update never changes or drops what the      *)
(* checkpoint held when it was let through, but for the legacy provider and*)
(* what was changed by hand after the gate: for any number of commands,    *)
(* hands and failures.                                                     *)
THEOREM GraphInvariant == Spec => []GraphInv
<1>1. IInv => GraphInv
  BY DEF IInv
<1> QED
  BY <1>1, Inductive, PTL

(* A command that nothing disturbs is never refused and never fails, but a *)
(* drift before the delivery and a plan that a newer update overtook.      *)
THEOREM UndisturbedSucceeds == Spec => []RefusesOnlyTheDisturbed
<1>1. IInv => RefusesOnlyTheDisturbed
  BY DEF IInv, Explained
<1> QED
  BY <1>1, Inductive, PTL

(* Commands cut short, in any number, hinder later ones only by remains    *)
(* beyond the baseline: otherwise the next delivery goes on from what they *)
(* left, and no update fails that is not cut short itself.                 *)
THEOREM RemainsHinder == Spec => []OnlyRemainsHinder
<1>1. IInv => OnlyRemainsHinder
  BY DEF IInv, Explained
<1> QED
  BY <1>1, Inductive, PTL
================================================================================
