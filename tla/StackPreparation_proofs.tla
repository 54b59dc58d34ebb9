------------------------- MODULE StackPreparation_proofs -------------------------
(***************************************************************************)
(* What a stack has before a Pulumi command works on it, for any keys,     *)
(* settings and versions, and any runs and commands: the private           *)
(* configuration (StackConfiguration), the stack itself                    *)
(* (StackInitialization), and the verdicts on its previews, for any stacks *)
(* and whatever the previews show (PreviewGuardrails).                     *)
(***************************************************************************)
EXTENDS StackConfiguration, StackInitialization, PreviewGuardrails,
        FiniteSetTheorems, SequenceTheorems, TLAPS

-----------------------------------------------------------------------------
(* The configuration.  The head is read, then a checkpoint that is not     *)
(* older, and when the head is found again they are one and the same.      *)
Followed ==
    /\ stage \in {"export", "key", "recheck", "write", "prepared"} => before \in 1 .. latest
    /\ stage \in {"key", "recheck"} =>
          \E v \in before .. latest : exported = versions[v] /\ Usable(exported)
    /\ stage \in {"write", "prepared"} =>
          exported = versions[before] /\ Usable(exported)

(* What is prepared is made of a committed file that contradicts nothing.  *)
Materialized ==
    stage = "prepared" =>
        /\ committed \in CommittedFiles
        /\ SameEncryption(committed) /\ PinsHold(committed) /\ WorkloadHolds(committed)
        /\ config = Configured(committed)

ConfigurationIInv == ConfigurationTypeOK /\ Followed /\ Materialized

-----------------------------------------------------------------------------
(* The initialization.  The state group keeps all apart that touch the     *)
(* backend ...                                                             *)
Alone ==
    /\ \A r \in Runs : step[r] \in Inside => state.holder = r
    /\ \A c \in Commands : step[c] = "working" => state.holder = c

(* ... and what a run goes by is what it verified and saw itself.          *)
Verified ==
    \A r \in Runs :
        step[r] \in {"list", "select", "look", "write", "check"} => r \in verified

Seen ==
    \A r \in Runs :
        /\ step[r] = "select" => exists[r]
        /\ step[r] \in {"look", "write"} => ~exists[r]
        /\ step[r] = "check" => (exists[r] <=> r \notin wrote)
        /\ r \in wrote => step[r] \in {"check", "done", "failed"}
        /\ receipt[r] # "none" => step[r] = "done"

(* Without an operator's hand the first stack written stays the only one.  *)
Untouched ==
    ~meddled =>
        /\ wrote # {} => stack # 0
        /\ \A r \in Runs : step[r] = "write" => stack = 0

InitializationIInv ==
    InitializationInv /\ Alone /\ Verified /\ Seen /\ Untouched

-----------------------------------------------------------------------------
(* What a command's configuration is made of.                              *)
LEMMA FilesAreCommitted == CommittedFiles \subseteq Committed
BY DEF CommittedFiles

LEMMA ConfiguredFacts ==
    ASSUME NEW c \in Committed, exported \in Checkpoints, Usable(exported)
    PROVE  /\ Configured(c) \in Committed
           /\ Configured(c).dataKey = exported.dataKey
           /\ Configured(c).aws = Pinned(c)
           /\ Configured(c).workload = WithWorkload(c)
<1>1. exported.dataKey \in DataKeys
  BY DEF Checkpoints, Usable
<1>2. Pinned(c) \in [Spellings \X Fields -> Values]
  BY DEF Pinned, Committed, Values
<1>3. WithWorkload(c) \in [WorkloadKeys -> WorkloadValues]
  BY DEF WithWorkload, Committed, WorkloadValues
<1> QED
  BY <1>1, <1>2, <1>3 DEF Configured, Committed

LEMMA ConfigurationInitHolds == ConfigurationInit => ConfigurationIInv
<1> SUFFICES ASSUME ConfigurationInit PROVE ConfigurationIInv
  OBVIOUS
<1>1. ConfigurationTypeOK
  BY ConfigurationAssumption
     DEF ConfigurationInit, ConfigurationTypeOK, ConfigurationAssumption, Stages
<1> QED
  BY <1>1 DEF ConfigurationInit, ConfigurationIInv, Followed, Materialized

(* Others write newer versions and never change an old one.                *)
LEMMA OtherWritesKeeps == ConfigurationIInv /\ OtherWrites => ConfigurationIInv'
<1> SUFFICES ASSUME ConfigurationIInv, OtherWrites PROVE ConfigurationIInv'
  OBVIOUS
<1>0. /\ latest \in 1 .. MaxVersion /\ MaxVersion \in Nat /\ before \in 0 .. latest
      /\ latest' = latest + 1 /\ latest < MaxVersion
      /\ UNCHANGED <<changes, key, workload, gated, region, committed, stage,
                     before, exported, config>>
  BY ConfigurationAssumption
     DEF OtherWrites, ConfigurationIInv, ConfigurationTypeOK, reading,
         ConfigurationAssumption
<1>1. /\ latest' \in 1 .. MaxVersion /\ before' \in 0 .. latest'
      /\ \A a, b \in Nat : a \in b .. latest => a \in b .. latest'
  BY ONLY <1>0
<1>2. PICK x \in Checkpoints :
        versions' = [v \in 1 .. latest' |-> IF v = latest' THEN x ELSE versions[v]]
  BY DEF OtherWrites
<1>3. /\ versions' \in [1 .. latest' -> Checkpoints]
      /\ \A v \in 1 .. latest : versions'[v] = versions[v]
  <2>1. /\ \A v \in 1 .. latest' : v # latest' => v \in 1 .. latest
        /\ \A v \in 1 .. latest : v \in 1 .. latest' /\ v # latest'
    BY ONLY <1>0
  <2>2. versions \in [1 .. latest -> Checkpoints]
    BY DEF ConfigurationIInv, ConfigurationTypeOK
  <2> QED
    BY <1>2, <2>1, <2>2
<1>4. ConfigurationTypeOK'
  BY <1>0, <1>1, <1>3 DEF ConfigurationIInv, ConfigurationTypeOK
<1>5. Followed'
  <2>1. stage \in {"export", "key", "recheck", "write", "prepared"} =>
          before \in 1 .. latest
    BY DEF ConfigurationIInv, Followed
  <2>2. before \in 1 .. latest =>
          /\ before \in 1 .. latest'
          /\ \A v \in before .. latest : v \in 1 .. latest /\ v \in before .. latest'
    BY ONLY <1>0
  <2> QED
    BY <1>0, <1>3, <2>1, <2>2 DEF ConfigurationIInv, Followed
<1>6. Materialized'
  BY <1>0 DEF ConfigurationIInv, Materialized, SameEncryption, PinsHold,
              WorkloadHolds, Configured, Pinned, WithWorkload
<1> QED
  BY <1>4, <1>5, <1>6 DEF ConfigurationIInv

LEMMA KeyChangesKeeps == ConfigurationIInv /\ KeyChanges => ConfigurationIInv'
<1> SUFFICES ASSUME ConfigurationIInv, KeyChanges PROVE ConfigurationIInv'
  OBVIOUS
<1>0. /\ changes < MaxChanges /\ changes' = changes + 1 /\ key' \in KeyStates
      /\ UNCHANGED <<latest, versions, workload, gated, region, committed, stage,
                     before, exported, config>>
  BY DEF KeyChanges, reading
<1>1. changes' \in 0 .. MaxChanges
  BY <1>0, ConfigurationAssumption
     DEF ConfigurationIInv, ConfigurationTypeOK, ConfigurationAssumption
<1>2. ConfigurationTypeOK'
  BY <1>0, <1>1 DEF ConfigurationIInv, ConfigurationTypeOK
<1>3. Followed'
  BY <1>0 DEF ConfigurationIInv, Followed
<1>4. Materialized'
  BY <1>0 DEF ConfigurationIInv, Materialized, SameEncryption, PinsHold,
              WorkloadHolds, Configured, Pinned, WithWorkload
<1> QED
  BY <1>2, <1>3, <1>4 DEF ConfigurationIInv

LEMMA PrepareKeeps == ConfigurationIInv /\ Prepare => ConfigurationIInv'
<1> SUFFICES ASSUME ConfigurationIInv, Prepare PROVE ConfigurationIInv'
  OBVIOUS
<1> USE DEF Goto
<1>0. /\ latest \in 1 .. MaxVersion /\ before \in 0 .. latest
      /\ versions \in [1 .. latest -> Checkpoints]
      /\ UNCHANGED <<changes, latest, versions, key, workload, gated>>
  BY DEF Prepare, ConfigurationIInv, ConfigurationTypeOK, Frame, Coordinates,
         Caller, FirstHead, Export, KeyIdentity, Recheck, WriteConfiguration, Refuse
<1>1. CASE Coordinates \/ Caller
  <2>1. stage' \in {"caller", "head"} /\ region' \in {"here", "there", NoRegion}
    BY <1>1 DEF Coordinates, Caller, ConfigurationIInv, ConfigurationTypeOK
  <2>2. UNCHANGED <<committed, before, exported, config>>
    BY <1>1 DEF Coordinates, Caller
  <2> QED
    BY <1>0, <2>1, <2>2
       DEF ConfigurationIInv, ConfigurationTypeOK, Stages, Followed, Materialized
<1>2. CASE FirstHead
  <2>1. /\ stage' = "export" /\ before' = latest
        /\ UNCHANGED <<region, committed, exported, config>>
    BY <1>2 DEF FirstHead
  <2>2. before' \in 1 .. latest' /\ before' \in 0 .. latest'
    BY <1>0, <2>1
  <2> QED
    BY <1>0, <2>1, <2>2
       DEF ConfigurationIInv, ConfigurationTypeOK, Stages, Followed, Materialized
<1>3. CASE Export
  <2>1. /\ stage = "export" /\ stage' = "key" /\ exported' = versions[latest]
        /\ Usable(exported') /\ UNCHANGED <<region, committed, before, config>>
    BY <1>3 DEF Export, Usable
  <2>2. before \in 1 .. latest
    BY <2>1 DEF ConfigurationIInv, Followed
  <2>3. exported' \in Checkpoints /\ latest \in before .. latest
    BY <1>0, <2>1, <2>2
  <2> QED
    BY <1>0, <2>1, <2>2, <2>3
       DEF ConfigurationIInv, ConfigurationTypeOK, Stages, Followed, Materialized
<1>4. CASE KeyIdentity
  <2>1. /\ stage = "key" /\ stage' = "recheck"
        /\ UNCHANGED <<region, committed, before, exported, config>>
    BY <1>4 DEF KeyIdentity
  <2> QED
    BY <1>0, <2>1 DEF ConfigurationIInv, ConfigurationTypeOK, Stages, Followed,
                      Materialized, Usable
<1>5. CASE Recheck
  <2>1. /\ stage = "recheck" /\ stage' = "write" /\ latest = before
        /\ UNCHANGED <<region, committed, before, exported, config>>
    BY <1>5 DEF Recheck
  <2>2. before \in 1 .. latest /\ exported = versions[before] /\ Usable(exported)
    <3>1. PICK v \in before .. latest : exported = versions[v] /\ Usable(exported)
      BY <2>1 DEF ConfigurationIInv, Followed
    <3>2. v = before /\ before \in 1 .. latest
      BY <1>0, <2>1
    <3> QED
      BY <3>1, <3>2
  <2> QED
    BY <1>0, <2>1, <2>2 DEF ConfigurationIInv, ConfigurationTypeOK, Stages,
                            Followed, Materialized, Usable
<1>6. CASE WriteConfiguration
  <2>1. /\ stage = "write" /\ stage' = "prepared"
        /\ UNCHANGED <<region, before, exported>>
    BY <1>6 DEF WriteConfiguration
  <2>2. PICK c \in CommittedFiles :
          /\ SameEncryption(c) /\ PinsHold(c) /\ WorkloadHolds(c)
          /\ committed' = c /\ config' = Configured(c)
    BY <1>6 DEF WriteConfiguration
  <2>3. /\ before \in 1 .. latest /\ exported = versions[before] /\ Usable(exported)
        /\ exported \in Checkpoints
    BY <1>0, <2>1 DEF ConfigurationIInv, Followed
  <2>4. c \in Committed /\ Configured(c) \in Committed
    BY <2>3, FilesAreCommitted, ConfiguredFacts
  <2>5. Materialized'
    BY <1>0, <2>1, <2>2 DEF Materialized, SameEncryption, PinsHold, WorkloadHolds,
                            Configured, Pinned, WithWorkload
  <2> QED
    BY <1>0, <2>1, <2>2, <2>3, <2>4, <2>5
       DEF ConfigurationIInv, ConfigurationTypeOK, Stages, Followed, Usable
<1>7. CASE Refuse
  <2>1. /\ stage' = "refused"
        /\ UNCHANGED <<region, committed, before, exported, config>>
    BY <1>7 DEF Refuse
  <2> QED
    BY <1>0, <2>1
       DEF ConfigurationIInv, ConfigurationTypeOK, Stages, Followed, Materialized
<1> QED
  BY <1>1, <1>2, <1>3, <1>4, <1>5, <1>6, <1>7 DEF Prepare

LEMMA ConfigurationNextKeeps ==
    ConfigurationIInv /\ [ConfigurationNext]_configurationVars => ConfigurationIInv'
<1>1. ASSUME ConfigurationIInv, UNCHANGED configurationVars PROVE ConfigurationIInv'
  <2>1. UNCHANGED <<changes, latest, versions, key, workload, gated, region,
                    committed, stage, before, exported, config>>
    BY <1>1 DEF configurationVars, reading
  <2>2. ConfigurationTypeOK' /\ Followed'
    BY <1>1, <2>1 DEF ConfigurationIInv, ConfigurationTypeOK, Followed, Usable
  <2>3. Materialized'
    BY <1>1, <2>1
       DEF ConfigurationIInv, Materialized, SameEncryption, PinsHold,
           WorkloadHolds, Configured, Pinned, WithWorkload
  <2> QED
    BY <2>2, <2>3 DEF ConfigurationIInv
<1> QED
  BY <1>1, OtherWritesKeeps, KeyChangesKeeps, PrepareKeeps
     DEF ConfigurationNext, Others

(* Whatever others write to the checkpoint and change in KMS meanwhile,    *)
(* what a command is prepared with keeps the encryption of the version it  *)
(* is bound to, holds the provider to the target in every spelling, and    *)
(* has a workload as a whole or not at all.                                *)
THEOREM ConfigurationInvariant == ConfigurationSpec => []ConfigurationInv
<1>1. ConfigurationIInv => ConfigurationInv
  <2> SUFFICES ASSUME ConfigurationIInv PROVE ConfigurationInv
    OBVIOUS
  <2>1. ConfigurationTypeOK
    BY DEF ConfigurationIInv
  <2>2. ASSUME stage = "prepared"
        PROVE  /\ exported = versions[before] /\ Usable(exported)
               /\ exported \in Checkpoints /\ committed \in Committed
               /\ SameEncryption(committed) /\ PinsHold(committed)
               /\ WorkloadHolds(committed)
               /\ config.dataKey = exported.dataKey /\ config.aws = Pinned(committed)
               /\ config.workload = WithWorkload(committed)
    <3>1. /\ exported = versions[before] /\ Usable(exported) /\ before \in 1 .. latest
          /\ committed \in CommittedFiles /\ config = Configured(committed)
          /\ SameEncryption(committed) /\ PinsHold(committed) /\ WorkloadHolds(committed)
      BY <2>2 DEF ConfigurationIInv, Followed, Materialized
    <3>2. exported \in Checkpoints /\ committed \in Committed
      BY <2>1, <3>1, FilesAreCommitted DEF ConfigurationTypeOK
    <3> QED
      BY <3>1, <3>2, ConfiguredFacts
  <2>3. KeepsEncryption
    BY <2>2 DEF KeepsEncryption, SameEncryption
  <2>4. ProviderPinned
    <3> SUFFICES ASSUME stage = "prepared", NEW f \in Fields
                 PROVE  /\ \A s \in Spellings : config.aws[<<s, f>>] # "other"
                        /\ gated => /\ config.aws[<<"aws", f>>] = "pinned"
                                    /\ config.aws[<<"aws:config", f>>] = "absent"
      BY DEF ProviderPinned
    <3>1. \A s \in Spellings : <<s, f>> \in Spellings \X Fields
      OBVIOUS
    <3>2. \A s \in Spellings :
            config.aws[<<s, f>>] = IF ~gated THEN committed.aws[<<s, f>>]
                                   ELSE IF s = "aws" THEN "pinned" ELSE "absent"
      BY <2>2, <3>1 DEF Pinned
    <3>3. \A s \in Spellings : committed.aws[<<s, f>>] # "other"
      BY <2>2, <3>1 DEF PinsHold
    <3> QED
      BY <3>2, <3>3 DEF Spellings
  <2>5. WorkloadIsWhole
    <3> SUFFICES ASSUME stage = "prepared"
                 PROVE  IF workload = NoWorkload
                        THEN config.workload = committed.workload
                        ELSE /\ \A k \in WorkloadKeys : config.workload[k] = "wanted"
                             /\ \A k \in WorkloadKeys :
                                   committed.workload[k] \in {"absent", "wanted"}
      BY DEF WorkloadIsWhole
    <3>1. committed.workload \in [WorkloadKeys -> WorkloadValues]
      BY <2>2 DEF Committed
    <3>2. CASE workload = NoWorkload
      BY <2>2, <3>1, <3>2 DEF WithWorkload
    <3>3. CASE workload # NoWorkload
      BY <2>2, <3>1, <3>3 DEF WithWorkload, WorkloadHolds, WorkloadValues
    <3> QED
      BY <3>2, <3>3
  <2> QED
    BY <2>1, <2>3, <2>4, <2>5 DEF ConfigurationInv
<1> QED
  BY <1>1, ConfigurationInitHolds, ConfigurationNextKeeps, PTL DEF ConfigurationSpec

-----------------------------------------------------------------------------
(* The groups of an initialization.                                        *)
LEMMA GroupFacts ==
    ASSUME NEW Members, NEW g \in Grp!GroupOf(Members), NEW m \in Members
    PROVE  /\ Grp!Enter(g, m) \in Grp!GroupOf(Members)
           /\ Grp!Release(g) \in Grp!GroupOf(Members)
           /\ g.holder # Nobody => Grp!Enter(g, m).holder = g.holder
BY DEF Grp!GroupOf, Grp!Enter, Grp!Release

LEMMA Roles ==
    /\ Nobody \notin Runs /\ Nobody \notin Commands
    /\ \A r \in Runs, c \in Commands : r # c
    /\ MaxEvents \in Nat
BY InitializationAssumption DEF InitializationAssumption

(* A newcomer pushes out one that waits, and none that works.              *)
LEMMA MovedFacts ==
    ASSUME TypeOK, NEW m \in Runs \cup Commands, NEW group,
           NEW to \in {"waiting", "queued"}, NEW where \in {"waiting", "queued"},
           step' = Moved(m, to, group, where)
    PROVE  /\ step' \in [Runs \cup Commands -> Steps]
           /\ \A x \in Runs \cup Commands :
                 \/ step'[x] = step[x]
                 \/ x = m /\ step'[x] = to
                 \/ x # m /\ step[x] = where /\ step'[x] = "displaced"
BY DEF TypeOK, Moved, Steps

(* A step of one run alone, from a place to another.                       *)
LEMMA StepFacts ==
    ASSUME TypeOK, NEW m \in Runs \cup Commands, NEW to \in Steps,
           step' = [step EXCEPT ![m] = to]
    PROVE  /\ step' \in [Runs \cup Commands -> Steps] /\ step'[m] = to
           /\ \A x \in (Runs \cup Commands) \ {m} : step'[x] = step[x]
BY DEF TypeOK

LEMMA InitHolds == Init => InitializationIInv
<1> SUFFICES ASSUME Init PROVE InitializationIInv
  OBVIOUS
<1>1. TypeOK
  <2>1. Grp!EmptyGroup \in Grp!GroupOf(Runs)
        /\ Grp!EmptyGroup \in Grp!GroupOf(Runs \cup Commands)
    BY DEF Grp!EmptyGroup, Grp!GroupOf
  <2>2. /\ events \in 0 .. MaxEvents /\ keys \in Nat /\ stack \in 0 .. keys
    BY Roles DEF Init
  <2>3. /\ step \in [Runs \cup Commands -> Steps] /\ exists \in [Runs -> BOOLEAN]
        /\ receipt \in [Runs -> {"none", "created", "existed"}]
    BY DEF Init, Steps
  <2> QED
    BY <2>1, <2>2, <2>3 DEF Init, TypeOK
<1>2. InitializationInv
  BY <1>1 DEF Init, InitializationInv, ReceiptsAreTrue
<1>3. Alone /\ Verified /\ Seen /\ Untouched
  BY DEF Init, Alone, Verified, Seen, Untouched, Inside
<1> QED
  BY <1>2, <1>3 DEF InitializationIInv

LEMMA WorldKeeps == InitializationIInv /\ World => InitializationIInv'
<1> SUFFICES ASSUME InitializationIInv, World PROVE InitializationIInv'
  OBVIOUS
<1>0. /\ events \in 0 .. MaxEvents /\ events < MaxEvents /\ events' = events + 1
      /\ UNCHANGED <<outer, state, step, exists, receipt, wrote, verified>>
  BY DEF World, Grant, Meddle, Event, groups, InitializationIInv,
         InitializationInv, TypeOK
<1>1. /\ keys \in Nat /\ stack \in 0 .. keys /\ granted \in BOOLEAN
      /\ meddled \in BOOLEAN
  BY DEF InitializationIInv, InitializationInv, TypeOK
<1>2. events' \in 0 .. MaxEvents
  BY ONLY <1>0, Roles
<1>3. /\ keys' \in Nat /\ stack' \in 0 .. keys' /\ granted' \in BOOLEAN
      /\ meddled' \in BOOLEAN
      /\ ~meddled' => ~meddled /\ stack' = stack
  <2>1. CASE Grant
    BY <1>1, <2>1 DEF Grant
  <2>2. CASE Meddle
    <3>1. keys' \in Nat /\ stack' \in 0 .. keys'
      BY <1>1, <2>2 DEF Meddle
    <3>2. meddled' = TRUE /\ granted' = granted
      BY <2>2 DEF Meddle
    <3> QED
      BY <1>1, <3>1, <3>2
  <2> QED
    BY <2>1, <2>2 DEF World
<1>4. TypeOK'
  BY <1>0, <1>2, <1>3 DEF InitializationIInv, InitializationInv, TypeOK
<1>5. ReceiptsAreTrue' /\ Alone' /\ Verified' /\ Seen' /\ Untouched'
  BY <1>0, <1>3 DEF InitializationIInv, InitializationInv, ReceiptsAreTrue,
                    Alone, Verified, Seen, Untouched
<1> QED
  BY <1>4, <1>5 DEF InitializationIInv, InitializationInv

(* A newcomer in a group, or a command: nothing of the stack changes.      *)
LEMMA OthersStay ==
    ASSUME InitializationIInv, UNCHANGED <<stack, exists, receipt, wrote, verified, meddled>>,
           TypeOK', Alone',
           \A r \in Runs :
              \/ step'[r] = step[r]
              \/ /\ step[r] \in {"unused", "waiting", "queued", "verify"}
                 /\ step'[r] \in {"waiting", "queued", "displaced", "verify",
                                  "verify again", "failed"}
              \/ step[r] \in Preflight \cup Inside /\ step'[r] = "failed"
    PROVE  InitializationIInv'
<1>1. \A r \in Runs : r \in wrote \/ receipt[r] # "none" =>
        \/ step'[r] = step[r]
        \/ step[r] = "check" /\ step'[r] = "failed" /\ receipt[r] = "none"
  BY DEF InitializationIInv, Seen, Preflight, Inside
<1>2. \A r \in Runs :
        step'[r] \in {"list", "select", "look", "write", "check"} => step'[r] = step[r]
  OBVIOUS
<1>3. ReceiptsAreTrue' /\ Verified' /\ Untouched'
  BY <1>2 DEF InitializationIInv, InitializationInv, ReceiptsAreTrue, Verified, Untouched
<1>4. Seen'
  BY <1>1, <1>2 DEF InitializationIInv, Seen
<1> QED
  BY <1>3, <1>4 DEF InitializationIInv, InitializationInv

LEMMA QueueingKeeps ==
    ASSUME InitializationIInv, NEW m \in Runs \cup Commands,
           \/ m \in Runs /\ (Dispatch(m) \/ Verify(m))
           \/ m \in Commands /\ QueueCommand(m)
    PROVE  InitializationIInv'
<1>0. TypeOK /\ Alone
  BY DEF InitializationIInv, InitializationInv
<1>1. /\ UNCHANGED <<events, stack, keys, granted, exists, receipt, wrote,
                     verified, meddled>>
      /\ step[m] \in {"unused", "verify"}
      /\ outer' \in {outer, Grp!Enter(outer, m), Grp!Release(outer)}
      /\ outer' = Grp!Enter(outer, m) => m \in Runs \/ outer' \in {outer, Grp!Release(outer)}
      /\ state' \in {state, Grp!Enter(state, m)}
  BY DEF Dispatch, Verify, QueueCommand, Quiet
<1>2. PICK to \in {"waiting", "queued"}, where \in {"waiting", "queued"}, g \in {outer, state} :
        step' = Moved(m, to, g, where)
  BY DEF Dispatch, Verify, QueueCommand
<1>3. /\ step' \in [Runs \cup Commands -> Steps]
      /\ \A x \in Runs \cup Commands :
            \/ step'[x] = step[x]
            \/ x = m /\ step'[x] \in {"waiting", "queued"}
            \/ x # m /\ step[x] \in {"waiting", "queued"} /\ step'[x] = "displaced"
  BY <1>0, <1>2, MovedFacts
<1>4. TypeOK'
  <2>1. outer' \in Grp!GroupOf(Runs)
    <3>1. outer \in Grp!GroupOf(Runs)
      BY <1>0 DEF TypeOK
    <3>2. m \in Runs => Grp!Enter(outer, m) \in Grp!GroupOf(Runs)
      BY <3>1, GroupFacts
    <3>3. Grp!Release(outer) \in Grp!GroupOf(Runs)
      BY <3>1 DEF Grp!Release, Grp!GroupOf
    <3> QED
      BY <1>1, <3>1, <3>2, <3>3
  <2>2. state' \in Grp!GroupOf(Runs \cup Commands)
    <3>1. state \in Grp!GroupOf(Runs \cup Commands)
      BY <1>0 DEF TypeOK
    <3>2. Grp!Enter(state, m) \in Grp!GroupOf(Runs \cup Commands)
      BY <3>1, GroupFacts
    <3> QED
      BY <1>1, <3>1, <3>2
  <2> QED
    BY <1>0, <1>1, <1>3, <2>1, <2>2 DEF TypeOK
<1>5. Alone'
  <2>1. state.holder # Nobody => state'.holder = state.holder
    <3>1. state \in Grp!GroupOf(Runs \cup Commands)
      BY <1>0 DEF TypeOK
    <3>2. state.holder # Nobody => Grp!Enter(state, m).holder = state.holder
      BY <3>1, GroupFacts
    <3> QED
      BY <1>1, <3>2
  <2>2. \A r \in Runs : step'[r] \in Inside => step[r] \in Inside
    BY <1>3 DEF Inside
  <2>3. \A c \in Commands : step'[c] = "working" => step[c] = "working"
    BY <1>3
  <2> QED
    BY <1>0, <2>1, <2>2, <2>3, Roles DEF Alone
<1>6. \A r \in Runs :
        \/ step'[r] = step[r]
        \/ /\ step[r] \in {"unused", "waiting", "queued", "verify"}
           /\ step'[r] \in {"waiting", "queued", "displaced", "verify",
                            "verify again", "failed"}
        \/ step[r] \in Preflight \cup Inside /\ step'[r] = "failed"
  BY <1>1, <1>3
<1> QED
  BY <1>1, <1>4, <1>5, <1>6, OthersStay

LEMMA CommandKeeps ==
    ASSUME InitializationIInv, NEW c \in Commands, Command(c)
    PROVE  InitializationIInv'
<1>0. TypeOK /\ Alone
  BY DEF InitializationIInv, InitializationInv
<1>1. UNCHANGED <<events, stack, keys, granted, outer, exists, receipt, wrote,
                  verified, meddled>>
  BY DEF Command, StartCommand, EndCommand, groups
<1>2. PICK to \in {"working", "done"} : step' = [step EXCEPT ![c] = to]
  BY DEF Command, StartCommand, EndCommand
<1>3. /\ step' \in [Runs \cup Commands -> Steps] /\ step'[c] = to
      /\ \A x \in (Runs \cup Commands) \ {c} : step'[x] = step[x]
  BY <1>0, <1>2, StepFacts DEF Steps
<1>4. \A r \in Runs : step'[r] = step[r]
  BY <1>3, Roles
<1>5. TypeOK'
  <2>1. state' \in Grp!GroupOf(Runs \cup Commands)
    BY <1>0, GroupFacts DEF TypeOK, Command, StartCommand, EndCommand, groups
  <2> QED
    BY <1>0, <1>1, <1>3, <2>1 DEF TypeOK
<1>6. Alone'
  <2>1. CASE StartCommand(c)
    <3>1. state' = state /\ state.holder = c
      BY <2>1 DEF StartCommand, groups
    <3> QED
      BY <1>0, <1>3, <1>4, <3>1 DEF Alone
  <2>2. CASE EndCommand(c)
    <3>1. state.holder = c /\ step'[c] = "done"
      BY <1>0, <1>3, <2>2 DEF EndCommand, Alone
    <3>2. \A r \in Runs : step'[r] \notin Inside
      BY <1>0, <1>4, <3>1, Roles DEF Alone
    <3>3. \A d \in Commands : step'[d] # "working"
      BY <1>0, <1>3, <3>1 DEF Alone
    <3> QED
      BY <3>2, <3>3 DEF Alone
  <2> QED
    BY <2>1, <2>2 DEF Command
<1> QED
  BY <1>1, <1>4, <1>5, <1>6, OthersStay

(* A run's own step inside the group, or into it, leaves it there.         *)
LEMMA InsideStays ==
    ASSUME TypeOK, Alone, NEW r \in Runs, NEW to \in Steps, state.holder = r,
           step' = [step EXCEPT ![r] = to], state' = state
    PROVE  Alone'
<1>1. /\ step'[r] = to
      /\ \A x \in (Runs \cup Commands) \ {r} : step'[x] = step[x]
  BY StepFacts
<1> QED
  BY <1>1, Roles DEF Alone

(* When a run ends, nobody but itself was inside.                          *)
LEMMA EndFacts ==
    ASSUME TypeOK, Alone, NEW r \in Runs, NEW how \in {"done", "failed"},
           End(r, how)
    PROVE  /\ step' \in [Runs \cup Commands -> Steps] /\ step'[r] = how
           /\ \A x \in (Runs \cup Commands) \ {r} : step'[x] = step[x]
           /\ outer' \in Grp!GroupOf(Runs)
           /\ state' \in Grp!GroupOf(Runs \cup Commands)
           /\ Alone'
<1>1. /\ step' \in [Runs \cup Commands -> Steps] /\ step'[r] = how
      /\ \A x \in (Runs \cup Commands) \ {r} : step'[x] = step[x]
  BY StepFacts DEF End, Steps
<1>2. outer' \in Grp!GroupOf(Runs) /\ state' \in Grp!GroupOf(Runs \cup Commands)
  BY GroupFacts DEF End, TypeOK
<1>3. Alone'
  <2>1. CASE step[r] \in Inside
    <3>1. /\ \A q \in Runs \ {r} : step[q] \notin Inside
          /\ \A c \in Commands : step[c] # "working"
      BY <2>1, Roles DEF Alone
    <3>2. how \notin Inside
      BY DEF Inside
    <3> QED
      BY <1>1, <3>1, <3>2, Roles DEF Alone
  <2>2. CASE step[r] \notin Inside
    <3>1. state' = state /\ how \notin Inside
      BY <2>2 DEF End, Inside
    <3> QED
      BY <1>1, <3>1, Roles DEF Alone
  <2> QED
    BY <2>1, <2>2
<1> QED
  BY <1>1, <1>2, <1>3

LEMMA WorkKeeps ==
    ASSUME InitializationIInv, NEW r \in Runs, Work(r)
    PROVE  InitializationIInv'
<1>0. TypeOK /\ Alone /\ ReceiptsAreTrue /\ Verified /\ Seen /\ Untouched
  BY DEF InitializationIInv, InitializationInv
<1>1. CASE Start(r) \/ Enter(r)
  <2>1. PICK to \in {"verify", "verify again"} : step' = [step EXCEPT ![r] = to]
    BY <1>1 DEF Start, Enter
  <2>2. /\ step' \in [Runs \cup Commands -> Steps] /\ step'[r] = to
        /\ \A x \in (Runs \cup Commands) \ {r} : step'[x] = step[x]
    BY <1>0, <2>1, StepFacts DEF Steps, Preflight, Inside
  <2>3. /\ step[r] \in {"waiting", "queued"}
        /\ UNCHANGED <<events, stack, keys, granted, outer, state, exists, receipt,
                       wrote, verified, meddled>>
        /\ to = "verify" \/ state.holder = r
    BY <1>0, <1>1, <2>1, <2>2 DEF Start, Enter, Quiet, groups, TypeOK
  <2>4. TypeOK'
    BY <1>0, <2>2, <2>3 DEF TypeOK
  <2>5. Alone'
    BY <1>0, <2>2, <2>3, Roles DEF Alone, Inside
  <2> QED
    BY <2>2, <2>3, <2>4, <2>5, OthersStay
<1>2. CASE Verify(r)
  BY <1>2, QueueingKeeps
<1>3. CASE Fail(r)
  <2>1. /\ End(r, "failed") /\ step[r] \in Preflight \cup Inside
        /\ UNCHANGED <<events, stack, keys, granted, exists, receipt, wrote,
                       verified, meddled>>
    BY <1>3 DEF Fail, Quiet
  <2>2. /\ step' \in [Runs \cup Commands -> Steps] /\ step'[r] = "failed"
        /\ \A x \in (Runs \cup Commands) \ {r} : step'[x] = step[x]
        /\ outer' \in Grp!GroupOf(Runs)
        /\ state' \in Grp!GroupOf(Runs \cup Commands)
        /\ Alone'
    BY <1>0, <2>1, EndFacts
  <2>3. TypeOK'
    BY <1>0, <2>1, <2>2 DEF TypeOK
  <2> QED
    BY <2>1, <2>2, <2>3, OthersStay
<1>4. CASE VerifyAgain(r)
  <2>1. /\ step[r] = "verify again" /\ step' = [step EXCEPT ![r] = "list"]
        /\ verified' = verified \cup {r}
        /\ UNCHANGED <<events, stack, keys, granted, outer, state, exists, receipt,
                       wrote, meddled>>
    BY <1>4 DEF VerifyAgain, Quiet, groups
  <2>2. /\ step' \in [Runs \cup Commands -> Steps] /\ step'[r] = "list"
        /\ \A x \in (Runs \cup Commands) \ {r} : step'[x] = step[x]
        /\ state.holder = r
    BY <1>0, <2>1, StepFacts DEF Steps, Inside, Alone
  <2>3. TypeOK' /\ Alone'
    BY <1>0, <2>1, <2>2, InsideStays DEF TypeOK, Steps, Inside
  <2>4. ReceiptsAreTrue' /\ Verified' /\ Untouched'
    BY <1>0, <2>1, <2>2 DEF ReceiptsAreTrue, Verified, Untouched
  <2>5. Seen'
    BY <1>0, <2>1, <2>2 DEF Seen
  <2> QED
    BY <2>3, <2>4, <2>5 DEF InitializationIInv, InitializationInv
<1>5. CASE List(r) \/ Select(r) \/ Look(r)
  <2>1. PICK to \in {"select", "look", "check", "write"} :
          step' = [step EXCEPT ![r] = to]
    BY <1>5 DEF List, Select, Look
  <2>2. /\ step' \in [Runs \cup Commands -> Steps] /\ step'[r] = to
        /\ \A x \in (Runs \cup Commands) \ {r} : step'[x] = step[x]
    BY <1>0, <2>1, StepFacts DEF Steps, Inside
  <2>3. /\ UNCHANGED <<events, stack, keys, granted, outer, state, receipt,
                       wrote, verified, meddled>>
        /\ step[r] \in {"list", "select", "look"} /\ state.holder = r
        /\ r \in verified /\ r \notin wrote /\ receipt[r] = "none"
    BY <1>0, <1>5 DEF List, Select, Look, Quiet, groups, Alone, Inside, Verified,
                      Seen
  <2>4. /\ exists' \in [Runs -> BOOLEAN]
        /\ \A q \in Runs \ {r} : exists'[q] = exists[q]
        /\ to = "select" => exists'[r]
        /\ to = "look" => ~exists'[r]
        /\ to = "check" => exists'[r]
        /\ to = "write" => ~exists'[r] /\ stack = 0
    <3>1. exists \in [Runs -> BOOLEAN]
      BY <1>0 DEF TypeOK
    <3>2. CASE List(r)
      <4>1. /\ exists' = [exists EXCEPT ![r] = (stack # 0)]
            /\ to = IF stack # 0 THEN "select" ELSE "look"
        BY <1>0, <2>1, <3>2 DEF List, TypeOK
      <4>2. (stack # 0) \in BOOLEAN
        OBVIOUS
      <4> QED
        BY <3>1, <4>1, <4>2, Zenon
    <3>3. CASE Select(r) \/ Look(r)
      <4>1. /\ exists' = exists
            /\ \/ step[r] = "select" /\ to = "check"
               \/ step[r] = "look" /\ to = "write" /\ stack = 0
        BY <1>0, <2>1, <3>3 DEF Select, Look, TypeOK
      <4> QED
        BY <1>0, <3>1, <4>1 DEF Seen
    <3> QED
      BY <1>5, <3>2, <3>3
  <2>5. TypeOK' /\ Alone'
    <3>1. to \in Steps
      BY DEF Steps, Inside
    <3>2. Alone'
      BY <1>0, <2>1, <2>3, <3>1, InsideStays
    <3> QED
      BY <1>0, <2>2, <2>3, <2>4, <3>2 DEF TypeOK
  <2>6. ReceiptsAreTrue' /\ Verified'
    BY <1>0, <2>2, <2>3 DEF ReceiptsAreTrue, Verified
  <2>7. Untouched'
    BY <1>0, <2>2, <2>3, <2>4 DEF Untouched
  <2>8. Seen'
    BY <1>0, <2>2, <2>3, <2>4 DEF Seen
  <2> QED
    BY <2>5, <2>6, <2>7, <2>8 DEF InitializationIInv, InitializationInv
<1>6. CASE Write(r)
  <2>1. /\ step[r] = "write" /\ step' = [step EXCEPT ![r] = "check"]
        /\ keys' = keys + 1 /\ stack' = keys' /\ wrote' = wrote \cup {r}
        /\ UNCHANGED <<events, granted, outer, state, exists, receipt, verified,
                       meddled>>
    BY <1>6 DEF Write, Quiet, groups
  <2>2. /\ step' \in [Runs \cup Commands -> Steps] /\ step'[r] = "check"
        /\ \A x \in (Runs \cup Commands) \ {r} : step'[x] = step[x]
        /\ state.holder = r
    BY <1>0, <2>1, StepFacts DEF Steps, Inside, Alone
  <2>3. keys' \in Nat /\ stack' \in 0 .. keys' /\ stack' # 0
    BY <1>0, <2>1 DEF TypeOK
  <2>4. TypeOK' /\ Alone'
    BY <1>0, <2>1, <2>2, <2>3, InsideStays DEF TypeOK, Steps, Inside
  <2>5. \A q \in Runs \ {r} : step'[q] # "write"
    BY <1>0, <2>2 DEF Alone, Inside
  <2>6. ReceiptsAreTrue'
    <3>1. ~meddled => wrote = {}
      BY <1>0, <2>1 DEF Untouched
    <3>2. receipt[r] = "none"
      BY <1>0, <2>1 DEF Seen, TypeOK
    <3> QED
      BY <1>0, <2>1, <3>1, <3>2 DEF ReceiptsAreTrue
  <2>7. Verified' /\ Untouched'
    BY <1>0, <2>1, <2>2, <2>3, <2>5 DEF Verified, Untouched
  <2>8. Seen'
    <3>1. ~exists[r] /\ r \in wrote'
      BY <1>0, <2>1 DEF Seen
    <3> QED
      BY <1>0, <2>1, <2>2, <3>1 DEF Seen
  <2> QED
    BY <2>4, <2>6, <2>7, <2>8 DEF InitializationIInv, InitializationInv
<1>7. CASE Check(r)
  <2>1. /\ step[r] = "check" /\ End(r, "done")
        /\ receipt' = [receipt EXCEPT ![r] = IF exists[r] THEN "existed" ELSE "created"]
        /\ UNCHANGED <<events, stack, keys, granted, exists, wrote, verified, meddled>>
    BY <1>7 DEF Check, Quiet
  <2>2. /\ step' \in [Runs \cup Commands -> Steps] /\ step'[r] = "done"
        /\ \A x \in (Runs \cup Commands) \ {r} : step'[x] = step[x]
        /\ outer' \in Grp!GroupOf(Runs)
        /\ state' \in Grp!GroupOf(Runs \cup Commands)
        /\ Alone'
    BY <1>0, <2>1, EndFacts
  <2>3. /\ receipt' \in [Runs -> {"none", "created", "existed"}]
        /\ \A q \in Runs \ {r} : receipt'[q] = receipt[q]
        /\ receipt'[r] = IF exists[r] THEN "existed" ELSE "created"
    BY <1>0, <2>1 DEF TypeOK
  <2>4. exists[r] <=> r \notin wrote
    BY <1>0, <2>1 DEF Seen
  <2>5. TypeOK'
    BY <1>0, <2>1, <2>2, <2>3 DEF TypeOK
  <2>6. ReceiptsAreTrue'
    BY <1>0, <2>1, <2>3, <2>4 DEF ReceiptsAreTrue
  <2>7. Verified' /\ Untouched'
    BY <1>0, <2>1, <2>2 DEF Verified, Untouched
  <2>8. Seen'
    BY <1>0, <2>1, <2>2, <2>3 DEF Seen
  <2> QED
    BY <2>2, <2>5, <2>6, <2>7, <2>8 DEF InitializationIInv, InitializationInv
<1> QED
  BY <1>1, <1>2, <1>3, <1>4, <1>5, <1>6, <1>7 DEF Work

LEMMA InitializationNextKeeps == InitializationIInv /\ [Next]_vars => InitializationIInv'
<1>1. ASSUME InitializationIInv, UNCHANGED vars PROVE InitializationIInv'
  <2>1. UNCHANGED <<events, stack, keys, granted, outer, state, step, exists, receipt,
                    wrote, verified, meddled>>
    BY <1>1 DEF vars, groups
  <2>2. InitializationInv'
    BY <1>1, <2>1 DEF InitializationIInv, InitializationInv, TypeOK, ReceiptsAreTrue
  <2>3. Alone' /\ Verified' /\ Seen' /\ Untouched'
    BY <1>1, <2>1 DEF InitializationIInv, Alone, Verified, Seen, Untouched
  <2> QED
    BY <2>2, <2>3 DEF InitializationIInv
<1>2. ASSUME InitializationIInv, NEW r \in Runs, Dispatch(r) PROVE InitializationIInv'
  BY <1>2, QueueingKeeps
<1>3. ASSUME InitializationIInv, NEW c \in Commands, QueueCommand(c)
      PROVE  InitializationIInv'
  BY <1>3, QueueingKeeps
<1> QED
  BY <1>1, <1>2, <1>3, WorldKeeps, WorkKeeps, CommandKeeps DEF Next

LEMMA InitializationInductive == Spec => []InitializationIInv
BY InitHolds, InitializationNextKeeps, PTL DEF Spec

(* However many runs are dispatched, displaced or fail, a receipt says who *)
(* created the stack, and without an operator's hand at most one run has.  *)
THEOREM InitializationInvariant == Spec => []InitializationInv
<1>1. InitializationIInv => InitializationInv
  BY DEF InitializationIInv
<1> QED
  BY <1>1, InitializationInductive, PTL

(* No run writes over a stack, and none touches the backend without having *)
(* verified its request inside the state group.                            *)
THEOREM CreatesOnlyTheAbsent == Spec => OnlyAbsentIsCreated
<1>1. InitializationIInv =>
        \A r \in Runs :
          /\ Write(r) /\ ~meddled => stack = 0
          /\ step[r] \in {"select", "write"} /\ step'[r] = "check" => r \in verified
  <2> SUFFICES ASSUME InitializationIInv, NEW r \in Runs
               PROVE  /\ Write(r) /\ ~meddled => stack = 0
                      /\ step[r] \in {"select", "write"} /\ step'[r] = "check"
                           => r \in verified
    OBVIOUS
  <2>1. /\ ~meddled /\ step[r] = "write" => stack = 0
        /\ step[r] \in {"select", "write"} => r \in verified
    BY DEF InitializationIInv, Untouched, Verified
  <2> QED
    BY <2>1 DEF Write
<1> QED
  BY <1>1, InitializationInductive, PTL DEF Spec, OnlyAbsentIsCreated
-----------------------------------------------------------------------------
(* The guardrails.  What the artifact directory holds is of the last run;  *)
(* a helper file is there only beside a preview.                           *)
Filled ==
    /\ \A f \in Files : dir[f].kind # "absent" => dir[f].run = runs
    /\ \A f \in Helpers : dir[f].kind \in {"absent", "helper"}
    /\ \A f \in Stacks : dir[f].kind # "helper"
    /\ (\E f \in Helpers : dir[f].kind # "absent") =>
          \E f \in Stacks : dir[f].kind # "absent"

(* A run that reached its end has previewed every stack.                   *)
Covered ==
    /\ todo # <<>> =>
          /\ ~whole /\ cmd = "none" /\ runs # 0
          /\ \A f \in Stacks : f \in Range(todo) \/ dir[f].kind = "preview"
    /\ whole => \A f \in Stacks : dir[f].kind = "preview"

(* A validation works on all documents of the previews that are there.     *)
Pooled ==
    /\ cmd = "none" =>
          input = {} /\ docs = <<>> /\ slot = <<>> /\ read = 0 /\ ~failed
    /\ cmd = "validate-iam" =>
          /\ todo = <<>> /\ Found # {}
          /\ input = preview_input_files(Found) /\ Loads(input)
          /\ \A d \in AllDocuments(input) : \E k \in 1 .. Len(docs) : docs[k] = d

(* What was read has been answered, a failure is remembered, and futures   *)
(* are cancelled for an exception only.                                    *)
Heard ==
    /\ \A k \in 1 .. read : slot[k] \notin {"pending", "running"}
    /\ failed <=> \E k \in 1 .. read : ValidationFails(slot[k])
    /\ (\E k \in 1 .. Len(docs) : slot[k] = "cancelled") => Raised

(* The last verdict says what it may be relied upon for.                   *)
Relied ==
    /\ last.cmd \in GuardrailCommands \cup {"none"}
    /\ last.status \in {"pass", "fail", "none"}
    /\ VerdictIsOfLastRun /\ PassedDestroysNothing /\ HelpersTurnNoVerdict
    /\ NothingPassesUnvalidated /\ VerdictIsOfAnswers /\ NoCallOutlives

GuardrailsIInv == GuardrailsTypeOK /\ Filled /\ Covered /\ Pooled /\ Heard /\ Relied

-----------------------------------------------------------------------------
(* A sequence made of a finite set contains all of it.                     *)
LEMMA Enumerates ==
    ASSUME NEW S, IsFiniteSet(S)
    PROVE  /\ SetToSeq(S) \in Seq(S) /\ Len(SetToSeq(S)) \in Nat
           /\ SetToSeq(S) \in [1 .. Len(SetToSeq(S)) -> S]
           /\ \A x \in S : \E i \in 1 .. Len(SetToSeq(S)) : SetToSeq(S)[i] = x
<1> DEFINE n == Cardinality(S)
           s == SetToSeq(S)
<1>1. n \in Nat /\ ExistsBijection(1 .. n, S)
  BY FS_CardinalityType
<1>2. \E f \in [1 .. n -> S] : IsInjective(f)
  BY <1>1 DEF ExistsBijection, Bijection, Injection
<1>3. s \in [1 .. n -> S] /\ IsInjective(s)
  BY <1>2 DEF SetToSeq
<1>4. IsFiniteSet(1 .. n) /\ Cardinality(1 .. n) = n
  BY <1>1, FS_Interval
<1>5. s \in Surjection(1 .. n, S)
  BY <1>3, <1>4, FS_Injection DEF Injection
<1>6. \A x \in S : \E i \in 1 .. n : s[i] = x
  BY <1>5 DEF Surjection
<1>7. s \in Seq(S) /\ Len(s) = n
  BY <1>1, <1>3, IsASeq, LenProperties
<1> QED BY <1>1, <1>3, <1>6, <1>7

(* The image of a finite set is finite.                                    *)
LEMMA ImageIsFinite ==
    ASSUME NEW S, NEW T, IsFiniteSet(S), NEW f \in [S -> T], \A t \in T : \E x \in S : f[x] = t
    PROVE  IsFiniteSet(T)
<1>1. f \in Surjection(S, T)
  BY DEF Surjection
<1> QED BY <1>1, FS_Surjection

(* Names are few.                                                          *)
LEMMA NamesAreFinite ==
    /\ IsFiniteSet({"policy", "assumeRolePolicy", "inline"})
    /\ IsFiniteSet({"iam-inputs", "cost-report"})
<1>1. \A x : IsFiniteSet({x})
  BY FS_Singleton
<1>2. \A x, y : IsFiniteSet({x} \cup {y})
  BY <1>1, FS_Union
<1>3. \A x, y, z : IsFiniteSet(({x} \cup {y}) \cup {z})
  BY <1>1, <1>2, FS_Union
<1>4. IsFiniteSet({"iam-inputs", "cost-report"})
  <2>1. {"iam-inputs", "cost-report"} = {"iam-inputs"} \cup {"cost-report"}
    OBVIOUS
  <2>2. IsFiniteSet({"iam-inputs"} \cup {"cost-report"})
    BY <1>2
  <2> QED BY ONLY <2>1, <2>2, Zenon
<1>5. IsFiniteSet({"policy", "assumeRolePolicy", "inline"})
  <2>1. {"policy", "assumeRolePolicy", "inline"}
           = ({"policy"} \cup {"assumeRolePolicy"}) \cup {"inline"}
    OBVIOUS
  <2>2. IsFiniteSet(({"policy"} \cup {"assumeRolePolicy"}) \cup {"inline"})
    BY <1>3
  <2> QED BY ONLY <2>1, <2>2, Zenon
<1> QED BY <1>4, <1>5

(* The documents of finitely many previews are finitely many.              *)
LEMMA DocumentsAreFinite ==
    ASSUME GuardrailsTypeOK, NEW files \in SUBSET Files
    PROVE  IsFiniteSet(AllDocuments(files))
<1>1. IsFiniteSet(Files)
  <2>1. IsFiniteSet(Helpers)
    BY NamesAreFinite DEF Helpers
  <2> QED BY <2>1, GuardrailAssumption, FS_Union DEF GuardrailAssumption, Files
<1>2. IsFiniteSet(files)
  BY <1>1, FS_Subset
<1>3. ASSUME NEW f \in files PROVE IsFiniteSet(extract_iam_validation_inputs(f))
  <2> DEFINE steps == dir[f].steps
             Of(i) == StepDocuments(f, i, steps[i])
             Docs == {Of(i) : i \in DOMAIN steps}
  <2>1. steps \in Seq(ShownSteps) /\ Len(steps) \in Nat /\ DOMAIN steps = 1 .. Len(steps)
    BY LenProperties DEF GuardrailsTypeOK, Artifacts
  <2>2. ASSUME NEW i \in DOMAIN steps PROVE IsFiniteSet(Of(i))
    <3> DEFINE s == steps[i]
               X == PolicyFields(step_resource_type(s)) \cap s.json
               D(field) == Document(f, i, s, field)
               T == {D(field) : field \in X}
               g == [field \in X |-> D(field)]
    <3>1. IsFiniteSet({"policy", "assumeRolePolicy", "inline"})
      BY NamesAreFinite
    <3>2. s \in ShownSteps
      BY <2>1
    <3>3. X \subseteq {"policy", "assumeRolePolicy", "inline"}
      BY <3>2 DEF ShownSteps
    <3>4. IsFiniteSet(X)
      BY <3>1, <3>3, FS_Subset
    <3> HIDE DEF X, D
    <3>5. g \in [X -> T] /\ \A t \in T : \E x \in X : g[x] = t
      OBVIOUS
    <3>6. IsFiniteSet(T)
      BY <3>4, <3>5, ImageIsFinite
    <3>7. Of(i) = {} \/ Of(i) = T
      BY DEF StepDocuments, X, D
    <3> QED BY <3>6, <3>7, FS_EmptySet
  <2>3. IsFiniteSet(Docs)
    <3> DEFINE g == [i \in DOMAIN steps |-> Of(i)]
    <3>1. IsFiniteSet(DOMAIN steps)
      <4>1. 1 \in Int /\ Len(steps) \in Int
        BY <2>1
      <4> HIDE DEF steps
      <4> QED BY <2>1, <4>1, FS_Interval
    <3> HIDE DEF Of, steps
    <3>2. g \in [DOMAIN steps -> Docs] /\ \A t \in Docs : \E x \in DOMAIN steps : g[x] = t
      OBVIOUS
    <3> QED BY <3>1, <3>2, ImageIsFinite
  <2>4. \A d \in Docs : IsFiniteSet(d)
    BY <2>2
  <2>5. IsFiniteSet(UNION Docs)
    BY <2>3, <2>4, FS_UNION
  <2> QED BY <2>5 DEF extract_iam_validation_inputs
<1> DEFINE All == {extract_iam_validation_inputs(f) : f \in files}
           g == [f \in files |-> extract_iam_validation_inputs(f)]
<1>4. g \in [files -> All] /\ \A t \in All : \E f \in files : g[f] = t
  OBVIOUS
<1>5. IsFiniteSet(All)
  BY <1>2, <1>4, ImageIsFinite
<1>6. IsFiniteSet(UNION All)
  BY <1>3, <1>5, FS_UNION
<1> QED BY <1>6 DEF AllDocuments
-----------------------------------------------------------------------------
(* What a command is given: previews of this run, beside a cost report at  *)
(* most, and after a whole run every stack.                                *)
LEMMA GivenFiles ==
    ASSUME GuardrailsTypeOK, Filled, Covered, Found # {}
    PROVE  /\ preview_input_files(Found) \subseteq Files
           /\ \A f \in preview_input_files(Found) :
                 dir[f].run = runs /\ (f \in Stacks \/ f = "cost-report")
           /\ Loads(preview_input_files(Found)) =>
                 \E f \in Stacks : f \in preview_input_files(Found)
           /\ whole => Stacks \subseteq preview_input_files(Found)
           /\ whole /\ "cost-report" \notin preview_input_files(Found) =>
                 Loads(preview_input_files(Found))
<1> USE GuardrailAssumption DEF GuardrailAssumption, preview_input_files, Found, Files, Helpers
<1>1. /\ preview_input_files(Found) \subseteq Files
      /\ \A f \in preview_input_files(Found) :
            dir[f].run = runs /\ (f \in Stacks \/ f = "cost-report")
  BY DEF Filled
<1>2. \E f \in Stacks : f \in preview_input_files(Found)
  <2>1. \E f \in Stacks : dir[f].kind # "absent"
    BY DEF Filled
  <2> QED BY <2>1
<1>3. whole => \A f \in Stacks : f \in preview_input_files(Found) /\ dir[f].kind = "preview"
  BY DEF Covered
<1>4. whole /\ "cost-report" \notin preview_input_files(Found) =>
          Loads(preview_input_files(Found))
  BY <1>1, <1>3 DEF Loads
<1> QED BY <1>1, <1>2, <1>3, <1>4

(* Every document of a step that leaves a resource is among those that are *)
(* validated, with the policy type of its field.                           *)
LEMMA DocumentIsGiven ==
    ASSUME GuardrailsTypeOK, NEW files \in SUBSET Files, NEW f \in files,
           NEW i \in DOMAIN dir[f].steps,
           dir[f].steps[i].op \notin {"delete", "delete-replaced"},
           NEW field \in dir[f].steps[i].json
    PROVE  \E d \in AllDocuments(files) :
              /\ d.file = f /\ d.step = i
              /\ d.type = dir[f].steps[i].type /\ d.field = field
              /\ d.policy = "RESOURCE_POLICY" <=>
                   field = "assumeRolePolicy" \/
                   (field = "policy" /\ dir[f].steps[i].type \notin {"role", "policy"})
<1> DEFINE s == dir[f].steps[i]
           d == Document(f, i, s, field)
<1>1. s \in ShownSteps
  BY LenProperties DEF GuardrailsTypeOK, Artifacts
<1>2. s.op \in NewOps /\ s.type \in ResourceTypes /\ field \in PolicyFields(s.type)
  BY <1>1 DEF ShownSteps, NewOps, OldOps
<1>3. step_resource_type(s) = s.type
  BY <1>2 DEF step_resource_type, NewType, ResourceTypes
<1>4. d \in StepDocuments(f, i, s)
  BY <1>2, <1>3 DEF StepDocuments
<1>5. d \in AllDocuments(files)
  BY <1>4 DEF AllDocuments, extract_iam_validation_inputs
<1>6. /\ d.file = f /\ d.step = i /\ d.type = s.type /\ d.field = field
      /\ d.policy = PolicyType(s.type, field)
  BY <1>3 DEF Document
<1>7. field \in {"policy", "assumeRolePolicy", "inline"}
  BY <1>1 DEF ShownSteps
<1>8. PolicyType(s.type, field) = "RESOURCE_POLICY" <=>
          field = "assumeRolePolicy" \/
          (field = "policy" /\ s.type \notin {"role", "policy"})
  BY <1>7 DEF PolicyType
<1> QED BY <1>5, <1>6, <1>8

-----------------------------------------------------------------------------
(* What each verdict says.                                                 *)
LEMMA NoVerdictSays ==
    ASSUME last' = NoVerdict
    PROVE  Relied'
BY DEF NoVerdict, Relied, VerdictIsOfLastRun, PassedDestroysNothing, HelpersTurnNoVerdict,
       NothingPassesUnvalidated, VerdictIsOfAnswers, NoCallOutlives, Passed

(* A verdict goes on saying what it said.                                  *)
LEMMA SameSays ==
    ASSUME Relied, UNCHANGED last
    PROVE  Relied'
<1>1. VerdictIsOfLastRun' /\ PassedDestroysNothing'
  BY DEF Relied, VerdictIsOfLastRun, PassedDestroysNothing, Passed
<1>2. HelpersTurnNoVerdict'
  BY DEF Relied, HelpersTurnNoVerdict
<1>3. NothingPassesUnvalidated'
  BY DEF Relied, NothingPassesUnvalidated, Passed
<1>4. VerdictIsOfAnswers' /\ NoCallOutlives'
  BY DEF Relied, VerdictIsOfAnswers, NoCallOutlives
<1> QED BY <1>1, <1>2, <1>3, <1>4 DEF Relied

(* A step destroys something protected or the gate has no finding in it.   *)
LEMMA DestructiveSteps ==
    ASSUME GuardrailsTypeOK, NEW f \in Files
    PROVE  find_destructive_steps(dir[f].steps) = {} <=>
              \A i \in DOMAIN dir[f].steps :
                 dir[f].steps[i].op \in {"delete", "replace", "delete-replaced"} =>
                    dir[f].steps[i].type \notin {"vpc", "role", "policy", "bucket"}
<1>1. ASSUME NEW i \in DOMAIN dir[f].steps PROVE dir[f].steps[i] \in ShownSteps
  BY LenProperties DEF GuardrailsTypeOK, Artifacts
<1>2. ASSUME NEW s \in ShownSteps PROVE step_resource_type(s) = s.type
  BY DEF ShownSteps, step_resource_type, NewType, OldType, NewOps, OldOps, ResourceTypes
<1> QED BY <1>1, <1>2 DEF find_destructive_steps, DESTRUCTIVE_OPS, CriticalType

(* What a verdict of any command has in common.                            *)
LEMMA VerdictSays ==
    ASSUME GuardrailsTypeOK, Filled, Covered, Found # {},
           NEW c \in GuardrailCommands, NEW status \in {"pass", "fail"},
           Verdict(c, status, preview_input_files(Found)),
           status = "pass" => Loads(preview_input_files(Found))
    PROVE  /\ last'.cmd = c /\ last'.status = status /\ last'.whole = whole
           /\ last'.docs = docs /\ last'.answers = slot
           /\ DOMAIN last'.files = preview_input_files(Found)
           /\ \A f \in preview_input_files(Found) : last'.files[f] = dir[f]
           /\ VerdictIsOfLastRun'
<1>1. /\ last'.cmd = c /\ last'.status = status /\ last'.whole = whole
      /\ last'.docs = docs /\ last'.answers = slot /\ last'.run = runs
      /\ DOMAIN last'.files = preview_input_files(Found)
      /\ \A f \in preview_input_files(Found) : last'.files[f] = dir[f]
  BY DEF Verdict
<1>2. VerdictIsOfLastRun'
  BY <1>1, GivenFiles DEF VerdictIsOfLastRun
<1> QED BY <1>1, <1>2

(* The verdict of a command that only reads.                               *)
LEMMA CommandSays ==
    ASSUME GuardrailsTypeOK, Filled, Covered, Pooled,
           NEW c \in {"destructive-gate", "iam-inputs", "cost-proxy"}, NEW writes,
           RunCommand(c, writes)
    PROVE  Relied'
<1> DEFINE files == preview_input_files(Found)
           status == ExitOf(c, files)
<1>1. Found # {} /\ docs = <<>> /\ slot = <<>> /\ Verdict(c, status, files)
  BY DEF RunCommand, Idle, Pooled
<1>2. status \in {"pass", "fail"} /\ (status = "pass" => Loads(files))
  BY DEF ExitOf
<1>3. c \in GuardrailCommands /\ c # "validate-iam"
  BY DEF GuardrailCommands, Gates
<1> HIDE DEF files, status
<1>4. /\ last'.cmd = c /\ last'.status = status /\ last'.whole = whole
      /\ last'.docs = <<>> /\ last'.answers = <<>>
      /\ DOMAIN last'.files = files
      /\ \A f \in files : last'.files[f] = dir[f]
      /\ VerdictIsOfLastRun'
  BY <1>1, <1>2, <1>3, VerdictSays DEF files, status
<1>5. files \subseteq Files
  BY <1>1, GivenFiles DEF files
<1>6. c = "destructive-gate" =>
          (status = "pass" <=> Loads(files) /\ \A f \in files :
                                  find_destructive_steps(dir[f].steps) = {})
  BY DEF status, ExitOf
<1>7. PassedDestroysNothing'
  BY <1>4, <1>5, <1>6, DestructiveSteps DEF PassedDestroysNothing, Passed
<1>8. HelpersTurnNoVerdict'
  <2> SUFFICES ASSUME c = "destructive-gate", status = "fail", whole, "cost-report" \notin files
               PROVE  \E f \in Stacks : \E i \in DOMAIN dir[f].steps :
                         /\ dir[f].steps[i].op \in {"delete", "replace", "delete-replaced"}
                         /\ dir[f].steps[i].type \in {"vpc", "role", "policy", "bucket"}
                         /\ f \in files
    BY <1>4 DEF HelpersTurnNoVerdict
  <2>1. Loads(files) /\ files \subseteq Stacks
    BY <1>1, GivenFiles DEF files
  <2>2. PICK f \in files : find_destructive_steps(dir[f].steps) # {}
    BY <1>6, <2>1
  <2> QED BY <1>5, <2>1, <2>2, DestructiveSteps
<1>9. NothingPassesUnvalidated' /\ VerdictIsOfAnswers' /\ NoCallOutlives'
  BY <1>3, <1>4 DEF NothingPassesUnvalidated, VerdictIsOfAnswers, NoCallOutlives, Passed
<1> QED BY <1>2, <1>3, <1>4, <1>7, <1>8, <1>9 DEF Relied

(* A validation that finds no document.                                    *)
LEMMA EmptySays ==
    ASSUME GuardrailsTypeOK, Filled, Covered, Pooled, RunValidateIam,
           Loads(preview_input_files(Found)) => AllDocuments(preview_input_files(Found)) = {}
    PROVE  Relied' /\ UNCHANGED <<cmd, pool>>
<1> DEFINE files == preview_input_files(Found)
           status == IF Loads(files) THEN "pass" ELSE "fail"
<1>1. Found # {} /\ docs = <<>> /\ slot = <<>> /\ Verdict("validate-iam", status, files)
      /\ UNCHANGED <<cmd, pool>>
  BY DEF RunValidateIam, Idle, Pooled
<1>2. status \in {"pass", "fail"} /\ (status = "pass" => Loads(files))
      /\ "validate-iam" \in GuardrailCommands
  BY DEF GuardrailCommands, Gates
<1> HIDE DEF files, status
<1>4. /\ last'.cmd = "validate-iam" /\ last'.status = status
      /\ last'.docs = <<>> /\ last'.answers = <<>>
      /\ DOMAIN last'.files = files
      /\ \A f \in files : last'.files[f] = dir[f]
      /\ VerdictIsOfLastRun'
  BY <1>1, <1>2, VerdictSays DEF files, status
<1>5. files \subseteq Files
  BY <1>1, GivenFiles DEF files
<1>6. NothingPassesUnvalidated'
  <2> SUFFICES ASSUME status = "pass", NEW f \in files, NEW i \in DOMAIN dir[f].steps,
                      dir[f].steps[i].op \notin {"delete", "delete-replaced"},
                      NEW field \in dir[f].steps[i].json
               PROVE  FALSE
    BY <1>4 DEF NothingPassesUnvalidated, Passed
  <2>1. \E d \in AllDocuments(files) : TRUE
    BY <1>5, DocumentIsGiven
  <2> QED BY <1>2, <2>1 DEF files
<1>7. /\ PassedDestroysNothing' /\ HelpersTurnNoVerdict'
      /\ VerdictIsOfAnswers' /\ NoCallOutlives'
  BY <1>4 DEF PassedDestroysNothing, HelpersTurnNoVerdict, VerdictIsOfAnswers,
              NoCallOutlives, Passed
<1> QED BY <1>1, <1>2, <1>4, <1>6, <1>7 DEF Relied

(* The verdict of a validation at its end.                                 *)
LEMMA ReturnSays ==
    ASSUME GuardrailsTypeOK, Filled, Covered, Pooled, Heard, Return
    PROVE  Relied'
<1> DEFINE files == preview_input_files(Found)
           status == IF Raised \/ failed THEN "fail" ELSE "pass"
<1>1. /\ Found # {} /\ input = files /\ Loads(files) /\ Verdict("validate-iam", status, files)
      /\ \A d \in AllDocuments(files) : \E k \in 1 .. Len(docs) : docs[k] = d
      /\ Raised \/ read = Len(docs)
      /\ \A k \in 1 .. Len(docs) : slot[k] # "running"
  BY DEF Return, Finish, Pooled, At, GuardrailsTypeOK
<1>2. status \in {"pass", "fail"} /\ "validate-iam" \in GuardrailCommands
  BY DEF GuardrailCommands, Gates
<1> HIDE DEF files
<1>4. /\ last'.cmd = "validate-iam" /\ last'.status = status
      /\ last'.docs = docs /\ last'.answers = slot
      /\ DOMAIN last'.files = files
      /\ \A f \in files : last'.files[f] = dir[f]
      /\ VerdictIsOfLastRun'
  BY <1>1, <1>2, VerdictSays DEF files
<1>5. files \subseteq Files
  BY <1>1, GivenFiles DEF files
<1>6. /\ DOMAIN slot = 1 .. Len(docs) /\ DOMAIN docs = 1 .. Len(docs)
      /\ read \in 0 .. Len(docs) /\ Len(docs) \in Nat
      /\ \A k \in 1 .. Len(docs) :
            slot[k] \in Answers \cup {"pending", "running", "cancelled"}
  BY LenProperties DEF GuardrailsTypeOK
<1>7. ASSUME status = "pass", NEW k \in 1 .. Len(docs) PROVE slot[k] = "clean"
  <2>1. ~Raised /\ ~failed /\ read = Len(docs)
    BY <1>1, <1>7
  <2>2. /\ slot[k] \notin {"pending", "running"} /\ ~ValidationFails(slot[k])
        /\ slot[k] # "cancelled" /\ ~Raises(slot[k])
    BY <2>1 DEF Heard, Raised
  <2> QED BY <1>6, <2>2 DEF Answers, Raises, ValidationFails
<1>8. ASSUME status = "fail"
      PROVE  \E k \in 1 .. Len(docs) : slot[k] \in Answers \ {"clean"}
  <2>1. \E k \in 1 .. read : Raises(slot[k]) \/ ValidationFails(slot[k])
    BY <1>8 DEF Heard, Raised
  <2> QED BY <1>6, <2>1 DEF Answers, Raises, ValidationFails
<1> HIDE DEF status
<1>9. NothingPassesUnvalidated'
  <2> SUFFICES ASSUME status = "pass", NEW f \in files, NEW i \in DOMAIN dir[f].steps,
                      dir[f].steps[i].op \notin {"delete", "delete-replaced"},
                      NEW field \in dir[f].steps[i].json
               PROVE  \E k \in DOMAIN docs :
                         /\ docs[k].file = f /\ docs[k].step = i
                         /\ docs[k].type = dir[f].steps[i].type /\ docs[k].field = field
                         /\ docs[k].policy = "RESOURCE_POLICY" <=>
                              field = "assumeRolePolicy" \/
                              (field = "policy" /\
                               dir[f].steps[i].type \notin {"role", "policy"})
                         /\ slot[k] = "clean"
    BY <1>4 DEF NothingPassesUnvalidated, Passed
  <2>1. PICK d \in AllDocuments(files) :
              /\ d.file = f /\ d.step = i
              /\ d.type = dir[f].steps[i].type /\ d.field = field
              /\ d.policy = "RESOURCE_POLICY" <=>
                   field = "assumeRolePolicy" \/
                   (field = "policy" /\ dir[f].steps[i].type \notin {"role", "policy"})
    BY <1>5, DocumentIsGiven
  <2>2. PICK k \in 1 .. Len(docs) : docs[k] = d
    BY <1>1, <2>1
  <2>3. slot[k] = "clean"
    BY <1>7, <2>2
  <2> QED BY <1>6, <2>1, <2>2, <2>3
<1>10. VerdictIsOfAnswers'
  <2>1. status = "fail" <=> \E k \in DOMAIN slot : slot[k] \in Answers \ {"clean"}
    BY <1>2, <1>6, <1>7, <1>8
  <2> QED BY <1>4, <2>1 DEF VerdictIsOfAnswers, Answers
<1>11. PassedDestroysNothing' /\ HelpersTurnNoVerdict' /\ NoCallOutlives'
  BY <1>1, <1>4, <1>6 DEF PassedDestroysNothing, HelpersTurnNoVerdict, NoCallOutlives, Passed
<1> QED BY <1>2, <1>4, <1>9, <1>10, <1>11 DEF Relied

-----------------------------------------------------------------------------
(* The types of the pool, by themselves.                                   *)
PoolTyped ==
    /\ input \subseteq Files
    /\ docs \in Seq(Range(docs))
    /\ slot \in [1 .. Len(docs) -> Answers \cup {"pending", "running", "cancelled"}]
    /\ read \in 0 .. Len(docs)
    /\ failed \in BOOLEAN

(* The type invariant is that of the pool and of the rest.                 *)
LEMMA TypeParts ==
    GuardrailsTypeOK <=>
       /\ dir \in [Files -> Artifacts] /\ runs \in 0 .. MaxRuns
       /\ todo \in Seq(Stacks) /\ whole \in BOOLEAN
       /\ cmd \in {"none", "validate-iam"}
       /\ PoolTyped
       /\ last.cmd \in GuardrailCommands \cup {"none"}
       /\ last.status \in {"pass", "fail", "none"}
BY DEF GuardrailsTypeOK, PoolTyped

(* The pool between two validations.                                       *)
LEMMA EmptyPool ==
    input = {} /\ docs = <<>> /\ slot = <<>> /\ read = 0 /\ ~failed /\ failed \in BOOLEAN
       => PoolTyped
<1> SUFFICES ASSUME input = {}, docs = <<>>, slot = <<>>, read = 0, failed \in BOOLEAN
             PROVE  PoolTyped
  OBVIOUS
<1>1. Len(docs) = 0 /\ docs \in Seq(Range(docs))
  <2>1. <<>> \in Seq(Range(<<>>)) /\ Len(<<>>) = 0
    BY EmptySeq
  <2> QED BY <2>1
<1>2. slot \in [1 .. Len(docs) -> Answers \cup {"pending", "running", "cancelled"}]
  <2>1. 1 .. Len(docs) = {}
    BY <1>1
  <2>2. <<>> \in [{} -> Answers \cup {"pending", "running", "cancelled"}]
    OBVIOUS
  <2> QED BY <2>1, <2>2
<1> QED BY <1>1, <1>2 DEF PoolTyped

(* Where the guardrails begin.                                             *)
LEMMA GuardrailsBegin == GuardrailsInit => GuardrailsIInv
<1> SUFFICES ASSUME GuardrailsInit PROVE GuardrailsIInv
  OBVIOUS
<1> USE GuardrailAssumption DEF GuardrailsInit, GuardrailAssumption
<1>1. GuardrailsTypeOK
  <2>1. Absent \in Artifacts /\ <<>> \in Seq(Stacks)
    BY EmptySeq DEF Artifacts, Absent
  <2>2. PoolTyped
    BY EmptyPool
  <2>3. last.cmd = "none" /\ last.status = "none"
    BY DEF NoVerdict
  <2>4. dir \in [Files -> Artifacts]
    BY <2>1
  <2>5. runs \in 0 .. MaxRuns /\ whole \in BOOLEAN /\ cmd = "none" /\ todo = <<>>
    <3>1. MaxRuns \in Nat /\ runs = 0
      OBVIOUS
    <3>2. runs \in 0 .. MaxRuns
      BY ONLY <3>1
    <3>3. whole \in BOOLEAN
      OBVIOUS
    <3>4. cmd = "none" /\ todo = <<>>
      OBVIOUS
    <3> QED BY ONLY <3>2, <3>3, <3>4
  <2> QED BY ONLY <2>1, <2>2, <2>3, <2>4, <2>5, TypeParts
<1>2. Filled /\ Covered
  BY DEF Filled, Covered, Absent, Files
<1>3. Pooled
  BY DEF Pooled
<1>4. Heard
  BY EmptySeq DEF Heard, Raised
<1>5. Relied
  BY DEF NoVerdict, Relied, VerdictIsOfLastRun, PassedDestroysNothing, HelpersTurnNoVerdict,
         NothingPassesUnvalidated, VerdictIsOfAnswers, NoCallOutlives, Passed
<1> QED BY <1>1, <1>2, <1>3, <1>4, <1>5 DEF GuardrailsIInv

(* What the pool holds is untouched by the preview runs and by the         *)
(* commands that only read.                                                *)
LEMMA PoolRests ==
    ASSUME Pooled, Heard, PoolTyped, cmd = "none", UNCHANGED <<cmd, pool>>
    PROVE  Pooled' /\ Heard' /\ PoolTyped'
<1>1. Pooled'
  BY DEF Pooled, pool
<1>2. Heard'
  BY DEF Heard, Raised, pool
<1>3. PoolTyped'
  BY DEF PoolTyped, Range, pool
<1> QED BY <1>1, <1>2, <1>3

(* A preview run begins with an empty directory and every stack to do.     *)
LEMMA BeginKeepsGuardrails ==
    ASSUME GuardrailsIInv, BeginPreview
    PROVE  GuardrailsIInv'
<1> USE DEF BeginPreview
<1>1. IsFiniteSet(Stacks)
  BY GuardrailAssumption DEF GuardrailAssumption
<1>2. /\ todo' \in Seq(Stacks) /\ \A f \in Stacks : f \in Range(todo')
  <2>1. \A f \in Stacks : \E i \in 1 .. Len(todo') : todo'[i] = f
    BY <1>1, Enumerates
  <2>2. todo' \in Seq(Stacks)
    BY <1>1, Enumerates
  <2>3. DOMAIN todo' = 1 .. Len(todo')
    BY <2>2, LenProperties
  <2> QED BY <2>1, <2>2, <2>3 DEF Range
<1>3. Relied'
  BY NoVerdictSays
<1>4. dir' \in [Files -> Artifacts] /\ \A f \in Files : dir'[f].kind = "absent"
  <2>1. Absent \in Artifacts /\ Absent.kind = "absent"
    BY EmptySeq, GuardrailAssumption DEF Artifacts, Absent, GuardrailAssumption
  <2> QED BY <2>1 DEF Cleared
<1>5. Pooled' /\ Heard' /\ PoolTyped'
  BY PoolRests, TypeParts DEF Idle, GuardrailsIInv
<1>6. runs' \in 0 .. MaxRuns /\ runs' # 0
  BY TypeParts, GuardrailAssumption DEF GuardrailsIInv, GuardrailAssumption
<1>7. cmd' = "none" /\ ~whole' /\ whole' \in BOOLEAN
  BY DEF Idle
<1>8. GuardrailsTypeOK'
  BY <1>2, <1>3, <1>4, <1>5, <1>6, <1>7 DEF GuardrailsTypeOK, PoolTyped, Relied
<1>9. Filled'
  BY <1>4 DEF Filled, Files
<1>10. Covered'
  BY <1>2, <1>4, <1>6, <1>7 DEF Covered
<1> QED BY <1>3, <1>5, <1>8, <1>9, <1>10 DEF GuardrailsIInv

(* What is left to preview after one more stack.                           *)
LEMMA OneLess ==
    ASSUME todo \in Seq(Stacks), todo # <<>>
    PROVE  /\ Head(todo) \in Stacks /\ Tail(todo) \in Seq(Stacks)
           /\ \A f \in Range(todo) : f = Head(todo) \/ f \in Range(Tail(todo))
<1>1. Head(todo) \in Stacks /\ Tail(todo) \in Seq(Stacks)
  BY HeadTailProperties
<1>2. /\ DOMAIN todo = 1 .. Len(todo) /\ DOMAIN Tail(todo) = 1 .. Len(Tail(todo))
      /\ Len(todo) \in Nat /\ Len(Tail(todo)) = Len(todo) - 1
  BY <1>1, HeadTailProperties, LenProperties
<1>3. ASSUME NEW i \in 1 .. Len(todo), i # 1
      PROVE  i - 1 \in 1 .. Len(Tail(todo)) /\ Tail(todo)[i - 1] = todo[i]
  BY <1>2, <1>3, HeadTailProperties
<1>4. todo[1] = Head(todo)
  BY HeadTailProperties
<1>5. ASSUME NEW f \in Range(todo), f # Head(todo) PROVE f \in Range(Tail(todo))
  <2>1. PICK i \in 1 .. Len(todo) : todo[i] = f
    BY <1>2 DEF Range
  <2>2. i # 1
    BY <1>4, <1>5, <2>1
  <2> QED BY <1>2, <1>3, <2>1, <2>2 DEF Range
<1> QED BY <1>1, <1>5

(* One more stack is previewed, in this run.                               *)
LEMMA PreviewKeepsGuardrails ==
    ASSUME GuardrailsIInv, PreviewStack
    PROVE  GuardrailsIInv'
<1>1. /\ todo # <<>> /\ todo' = Tail(todo) /\ whole' = (todo' = <<>>)
      /\ UNCHANGED <<runs, cmd, pool, last>>
  BY DEF PreviewStack
<1>2. todo \in Seq(Stacks) /\ dir \in [Files -> Artifacts] /\ runs \in 0 .. MaxRuns /\ runs # 0
      /\ cmd = "none" /\ PoolTyped
  BY <1>1, TypeParts DEF GuardrailsIInv, Covered
<1>3. PICK steps \in Previews[runs] : dir' = [dir EXCEPT ![Head(todo)] = Preview(runs, steps)]
  BY DEF PreviewStack
<1>4. Preview(runs, steps) \in Artifacts
  <2>1. runs \in 1 .. MaxRuns
    BY <1>2, GuardrailAssumption DEF GuardrailAssumption
  <2>2. steps \in Seq(ShownSteps)
    BY <2>1, GuardrailAssumption DEF GuardrailAssumption
  <2> QED BY <1>2, <2>2 DEF Preview, Artifacts
<1>5. /\ Head(todo) \in Stacks /\ todo' \in Seq(Stacks)
      /\ \A f \in Range(todo) : f = Head(todo) \/ f \in Range(todo')
  BY <1>1, <1>2, OneLess
<1>6. /\ dir' \in [Files -> Artifacts]
      /\ dir'[Head(todo)].kind = "preview" /\ dir'[Head(todo)].run = runs
      /\ \A f \in Files \ {Head(todo)} : dir'[f] = dir[f]
  BY <1>2, <1>3, <1>4, <1>5 DEF Preview, Files
<1>7. Relied'
  BY <1>1, SameSays DEF GuardrailsIInv
<1>8. Pooled' /\ Heard' /\ PoolTyped'
  BY <1>1, <1>2, PoolRests DEF GuardrailsIInv
<1>9. GuardrailsTypeOK'
  <2>1. whole' \in BOOLEAN
    BY <1>1
  <2> QED BY <1>1, <1>2, <1>5, <1>6, <1>7, <1>8, <2>1 DEF GuardrailsTypeOK, PoolTyped, Relied
<1>10. Filled'
  BY <1>1, <1>5, <1>6, GuardrailAssumption DEF GuardrailsIInv, Filled, Files, GuardrailAssumption
<1>11. Covered'
  <2>1. \A f \in Stacks : f \in Range(todo') \/ dir'[f].kind = "preview"
    BY <1>1, <1>5, <1>6 DEF GuardrailsIInv, Covered, Files
  <2>2. todo' = <<>> => Range(todo') = {}
    BY DEF Range
  <2> QED BY <1>1, <1>2, <2>1, <2>2 DEF Covered
<1> QED BY <1>7, <1>8, <1>9, <1>10, <1>11 DEF GuardrailsIInv

(* A preview run that fails never becomes whole.                           *)
LEMMA FailKeepsGuardrails ==
    ASSUME GuardrailsIInv, PreviewFails
    PROVE  GuardrailsIInv'
<1>1. /\ todo # <<>> /\ todo' = <<>> /\ UNCHANGED <<runs, whole, cmd, pool, last>>
  BY DEF PreviewFails
<1>2. todo \in Seq(Stacks) /\ dir \in [Files -> Artifacts] /\ runs \in 0 .. MaxRuns
      /\ cmd = "none" /\ ~whole /\ PoolTyped
  BY <1>1, TypeParts DEF GuardrailsIInv, Covered
<1>3. Head(todo) \in Stacks
  BY <1>1, <1>2, OneLess
<1>4. Partial(runs) \in Artifacts
  BY <1>2, EmptySeq DEF Partial, Artifacts
<1>5. /\ dir' \in [Files -> Artifacts]
      /\ \A f \in Files \ {Head(todo)} : dir'[f] = dir[f]
      /\ dir'[Head(todo)] = dir[Head(todo)] \/ dir'[Head(todo)] = Partial(runs)
  BY <1>2, <1>3, <1>4 DEF PreviewFails, Files
<1>6. Relied'
  BY <1>1, SameSays DEF GuardrailsIInv
<1>7. Pooled' /\ Heard' /\ PoolTyped'
  BY <1>1, <1>2, PoolRests DEF GuardrailsIInv
<1>8. GuardrailsTypeOK'
  <2>1. todo' \in Seq(Stacks)
    BY <1>1, EmptySeq
  <2>2. whole' \in BOOLEAN
    BY <1>1, TypeParts DEF GuardrailsIInv
  <2> QED BY <1>1, <1>2, <1>5, <1>6, <1>7, <2>1, <2>2 DEF GuardrailsTypeOK, PoolTyped, Relied
<1>9. Filled'
  <2>1. Partial(runs).kind = "partial" /\ Partial(runs).run = runs
    BY DEF Partial
  <2>2. \A f \in Files : dir'[f] = dir[f] \/ (f = Head(todo) /\ dir'[f] = Partial(runs))
    BY <1>5
  <2> QED BY <1>1, <1>3, <2>1, <2>2, GuardrailAssumption
             DEF GuardrailsIInv, Filled, Files, GuardrailAssumption
<1>10. Covered'
  BY <1>1, <1>2 DEF Covered
<1> QED BY <1>6, <1>7, <1>8, <1>9, <1>10 DEF GuardrailsIInv

(* A helper file is written beside previews that load.                     *)
LEMMA CommandKeepsGuardrails ==
    ASSUME GuardrailsIInv, NEW c \in {"destructive-gate", "iam-inputs", "cost-proxy"},
           NEW writes \in {"nothing", "iam-inputs", "cost-report"}, RunCommand(c, writes)
    PROVE  GuardrailsIInv'
<1> DEFINE files == preview_input_files(Found)
<1>1. /\ todo = <<>> /\ cmd = "none" /\ Found # {}
      /\ dir' = IF writes # "nothing" /\ Loads(files)
                THEN [dir EXCEPT ![writes] = Helper(runs)] ELSE dir
      /\ UNCHANGED <<runs, todo, whole, cmd, pool>>
  BY DEF RunCommand, Idle
<1>2. dir \in [Files -> Artifacts] /\ runs \in 0 .. MaxRuns /\ PoolTyped
  BY TypeParts DEF GuardrailsIInv
<1>3. Relied'
  BY CommandSays DEF GuardrailsIInv
<1>4. Pooled' /\ Heard' /\ PoolTyped'
  BY <1>1, <1>2, PoolRests DEF GuardrailsIInv
<1>5. /\ Helper(runs) \in Artifacts
      /\ Helper(runs).kind = "helper" /\ Helper(runs).run = runs
  BY <1>2, EmptySeq DEF Helper, Artifacts
<1>6. Loads(files) => \E f \in Stacks : dir[f].kind # "absent"
  BY <1>1, GivenFiles DEF GuardrailsIInv, preview_input_files, Found
<1>7. dir' = dir \/ /\ writes \in Helpers /\ Loads(files)
                    /\ dir' = [dir EXCEPT ![writes] = Helper(runs)]
  BY <1>1 DEF Helpers
<1> HIDE DEF files
<1>8. /\ dir' \in [Files -> Artifacts]
      /\ \A f \in Stacks : dir'[f] = dir[f]
      /\ \A f \in Helpers : dir'[f] = dir[f] \/ (Loads(files) /\ dir'[f] = Helper(runs))
  BY <1>2, <1>5, <1>7, GuardrailAssumption DEF Files, GuardrailAssumption
<1>9. GuardrailsTypeOK'
  <2>1. todo' \in Seq(Stacks) /\ whole' \in BOOLEAN
    BY <1>1, TypeParts DEF GuardrailsIInv
  <2> QED BY <1>1, <1>2, <1>3, <1>4, <1>8, <2>1 DEF GuardrailsTypeOK, PoolTyped, Relied
<1>10. Filled'
  BY <1>1, <1>5, <1>6, <1>8 DEF GuardrailsIInv, Filled, Files
<1>11. Covered'
  BY <1>1, <1>8 DEF GuardrailsIInv, Covered
<1> QED BY <1>3, <1>4, <1>9, <1>10, <1>11 DEF GuardrailsIInv

(* A validation begins with all documents of the previews.                 *)
LEMMA ValidateKeepsGuardrails ==
    ASSUME GuardrailsIInv, RunValidateIam
    PROVE  GuardrailsIInv'
<1> DEFINE files == preview_input_files(Found)
           all == IF Loads(files) THEN AllDocuments(files) ELSE {}
<1>1. /\ todo = <<>> /\ cmd = "none" /\ Found # {} /\ UNCHANGED <<dir, runs, todo, whole>>
  BY DEF RunValidateIam, Idle
<1>2. Filled' /\ Covered'
  BY <1>1 DEF GuardrailsIInv, Filled, Covered
<1>3. dir' \in [Files -> Artifacts] /\ runs' \in 0 .. MaxRuns
      /\ todo' \in Seq(Stacks) /\ whole' \in BOOLEAN /\ PoolTyped
  BY <1>1, TypeParts DEF GuardrailsIInv
<1>4. CASE all = {}
  <2>1. Relied' /\ UNCHANGED <<cmd, pool>>
    BY <1>4, EmptySays DEF GuardrailsIInv
  <2>2. Pooled' /\ Heard' /\ PoolTyped'
    BY <1>1, <1>3, <2>1, PoolRests DEF GuardrailsIInv
  <2>3. GuardrailsTypeOK'
    BY <1>1, <1>3, <2>1, <2>2 DEF GuardrailsTypeOK, PoolTyped, Relied
  <2> QED BY <1>2, <2>1, <2>2, <2>3 DEF GuardrailsIInv
<1>5. CASE all # {}
  <2>1. /\ cmd' = "validate-iam" /\ input' = files /\ docs' = SetToSeq(all)
        /\ slot' = [i \in DOMAIN docs' |-> "pending"]
        /\ last' = NoVerdict /\ read' = read /\ failed' = failed
    BY <1>5 DEF RunValidateIam
  <2>2. Loads(files) /\ all = AllDocuments(files)
    BY <1>5
  <2>3. files \subseteq Files
    BY <1>1, GivenFiles DEF GuardrailsIInv
  <2>4. IsFiniteSet(all)
    BY <2>2, <2>3, DocumentsAreFinite DEF GuardrailsIInv
  <2> HIDE DEF files, all
  <2>5. /\ docs' \in Seq(all) /\ Len(docs') \in Nat
        /\ \A d \in all : \E k \in 1 .. Len(docs') : docs'[k] = d
    BY <2>1, <2>4, Enumerates
  <2>6. DOMAIN docs' = 1 .. Len(docs')
    BY <2>5, LenProperties
  <2>7. docs' \in Seq(Range(docs'))
    <3>1. docs' \in [1 .. Len(docs') -> Range(docs')]
      BY <2>5, <2>6, ElementOfSeq DEF Range
    <3> QED BY <2>5, <3>1, IsASeq
  <2>8. Relied'
    BY <2>1, NoVerdictSays
  <2>9. read = 0 /\ ~failed /\ failed \in BOOLEAN
    BY <1>1, <1>3 DEF GuardrailsIInv, Pooled, PoolTyped
  <2>10. /\ slot' \in [1 .. Len(docs') -> Answers \cup {"pending", "running", "cancelled"}]
         /\ \A k \in 1 .. Len(docs') : slot'[k] = "pending"
    BY <2>1, <2>6
  <2>11. PoolTyped'
    BY <2>1, <2>3, <2>5, <2>7, <2>9, <2>10 DEF PoolTyped
  <2>12. GuardrailsTypeOK'
    BY <1>3, <2>1, <2>8, <2>11 DEF GuardrailsTypeOK, PoolTyped, Relied
  <2>13. Heard'
    BY <2>1, <2>9, <2>10 DEF Heard, Raised
  <2>14. Pooled'
    <3>1. Found' = Found /\ AllDocuments(input)' = AllDocuments(files) /\ Loads(input)'
      <4>1. AllDocuments(input)' = AllDocuments(files)
        BY <1>1, <2>1 DEF AllDocuments, extract_iam_validation_inputs
      <4> QED BY <1>1, <2>1, <2>2, <4>1 DEF Found, Loads
    <3>2. input' = preview_input_files(Found)'
      BY <2>1, <3>1 DEF files, preview_input_files
    <3> QED BY <1>1, <2>1, <2>2, <2>5, <3>1, <3>2 DEF Pooled
  <2> QED BY <1>2, <2>8, <2>12, <2>13, <2>14 DEF GuardrailsIInv
<1> QED BY <1>4, <1>5

(* A step of the pool moves futures and what was read of them only.        *)
LEMMA PoolMoves ==
    ASSUME GuardrailsIInv, cmd = "validate-iam",
           UNCHANGED <<dir, runs, todo, whole, cmd, input, docs, last>>,
           slot' \in [1 .. Len(docs) -> Answers \cup {"pending", "running", "cancelled"}],
           read' \in 0 .. Len(docs), failed' \in BOOLEAN, Heard'
    PROVE  GuardrailsIInv'
<1>1. Relied'
  BY SameSays DEF GuardrailsIInv
<1>2. Filled' /\ Covered'
  BY DEF GuardrailsIInv, Filled, Covered
<1>3. PoolTyped'
  <2>1. PoolTyped
    BY TypeParts DEF GuardrailsIInv
  <2>2. docs' \in Seq(Range(docs'))
    BY <2>1 DEF PoolTyped
  <2> QED BY <2>1, <2>2 DEF PoolTyped
<1>4. GuardrailsTypeOK'
  BY <1>1, <1>3, TypeParts DEF GuardrailsIInv, GuardrailsTypeOK, PoolTyped, Relied
<1>5. Pooled'
  <2>1. AllDocuments(input)' = AllDocuments(input) /\ Found' = Found /\ Loads(input)' = Loads(input)
    BY DEF AllDocuments, extract_iam_validation_inputs, Found, Loads
  <2> QED BY <2>1 DEF GuardrailsIInv, Pooled, preview_input_files
<1> QED BY <1>1, <1>2, <1>4, <1>5 DEF GuardrailsIInv

(* What the futures may hold.                                              *)
LEMMA SlotTypes ==
    ASSUME GuardrailsTypeOK
    PROVE  /\ slot \in [1 .. Len(docs) -> Answers \cup {"pending", "running", "cancelled"}]
           /\ DOMAIN slot = 1 .. Len(docs) /\ Len(docs) \in Nat
           /\ read \in 0 .. Len(docs) /\ failed \in BOOLEAN
BY LenProperties DEF GuardrailsTypeOK

(* A future moves on, and none that was read.                              *)
LEMMA FutureMoves ==
    ASSUME GuardrailsIInv, cmd = "validate-iam", NEW i \in 1 .. Len(docs),
           slot[i] \in {"pending", "running"}, NEW a \in Answers \cup {"running"},
           slot' = [slot EXCEPT ![i] = a],
           UNCHANGED <<dir, runs, todo, whole, cmd, input, docs, read, failed, last>>
    PROVE  GuardrailsIInv'
<1>1. /\ slot \in [1 .. Len(docs) -> Answers \cup {"pending", "running", "cancelled"}]
      /\ DOMAIN slot = 1 .. Len(docs) /\ Len(docs) \in Nat
      /\ read \in 0 .. Len(docs) /\ failed \in BOOLEAN
  BY SlotTypes DEF GuardrailsIInv
<1>2. slot' \in [1 .. Len(docs) -> Answers \cup {"pending", "running", "cancelled"}]
  BY <1>1
<1>3. ~(i \in 1 .. read) /\ \A k \in 1 .. read : k \in 1 .. Len(docs) /\ slot'[k] = slot[k]
  BY <1>1 DEF GuardrailsIInv, Heard
<1>4. \A k \in 1 .. Len(docs) : slot'[k] = "cancelled" => slot[k] = "cancelled"
  BY <1>1 DEF Answers
<1>5. Raised' <=> Raised
  BY <1>3 DEF Raised
<1>6. Heard'
  <2>1. \A k \in 1 .. read' : slot'[k] \notin {"pending", "running"}
    BY <1>3 DEF GuardrailsIInv, Heard
  <2>2. failed' <=> \E k \in 1 .. read' : ValidationFails(slot'[k])
    BY <1>3 DEF GuardrailsIInv, Heard
  <2>3. (\E k \in 1 .. Len(docs') : slot'[k] = "cancelled") => Raised'
    BY <1>4, <1>5 DEF GuardrailsIInv, Heard
  <2> QED BY <2>1, <2>2, <2>3 DEF Heard
<1> QED BY <1>1, <1>2, <1>6, PoolMoves

(* A thread takes a future.                                                *)
LEMMA TakeKeepsGuardrails ==
    ASSUME GuardrailsIInv, Take
    PROVE  GuardrailsIInv'
<1>1. PICK i \in At("pending") : slot' = [slot EXCEPT ![i] = "running"]
  BY DEF Take
<1>2. i \in 1 .. Len(docs) /\ slot[i] = "pending"
  BY SlotTypes DEF GuardrailsIInv, At
<1> QED BY <1>1, <1>2, FutureMoves DEF Take

(* An answer comes, whenever it does.                                      *)
LEMMA AnswerKeepsGuardrails ==
    ASSUME GuardrailsIInv, NEW i \in DOMAIN slot, Answer(i)
    PROVE  GuardrailsIInv'
<1>1. PICK a \in Answers : slot' = [slot EXCEPT ![i] = a]
  BY DEF Answer
<1>2. i \in 1 .. Len(docs) /\ slot[i] = "running"
  BY SlotTypes DEF GuardrailsIInv, Answer
<1> QED BY <1>1, <1>2, FutureMoves DEF Answer

(* The main thread reads the next future, and forgets no failure.          *)
LEMMA ReadKeepsGuardrails ==
    ASSUME GuardrailsIInv, Read
    PROVE  GuardrailsIInv'
<1> DEFINE r == read + 1
<1>1. /\ slot \in [1 .. Len(docs) -> Answers \cup {"pending", "running", "cancelled"}]
      /\ DOMAIN slot = 1 .. Len(docs) /\ Len(docs) \in Nat
      /\ read \in 0 .. Len(docs) /\ failed \in BOOLEAN
  BY SlotTypes DEF GuardrailsIInv
<1>2. /\ cmd = "validate-iam" /\ ~Raised /\ read < Len(docs)
      /\ slot[r] \notin {"pending", "running"} /\ read' = r
      /\ failed' = (failed \/ ValidationFails(slot[r]))
      /\ slot' = IF Raises(slot[r]) THEN Cancelled ELSE slot
      /\ UNCHANGED <<dir, runs, todo, whole, cmd, input, docs, last>>
  BY DEF Read
<1>3. r \in 1 .. Len(docs) /\ read' \in 0 .. Len(docs) /\ 1 .. r = (1 .. read) \cup {r}
      /\ 1 .. r \subseteq 1 .. Len(docs)
  BY <1>1, <1>2
<1>4. /\ slot' \in [1 .. Len(docs) -> Answers \cup {"pending", "running", "cancelled"}]
      /\ \A k \in 1 .. Len(docs) : slot[k] # "pending" => slot'[k] = slot[k]
      /\ ~Raises(slot[r]) => slot' = slot
  BY <1>1, <1>2 DEF Cancelled
<1>5. failed' \in BOOLEAN
  BY <1>1, <1>2 DEF ValidationFails
<1> HIDE DEF r
<1>6. \A k \in 1 .. r : slot[k] \notin {"pending", "running"} /\ slot'[k] = slot[k]
  BY <1>2, <1>3, <1>4 DEF GuardrailsIInv, Heard
<1>7. Heard'
  <2>1. \A k \in 1 .. read' : slot'[k] \notin {"pending", "running"}
    BY <1>2, <1>6
  <2>2. failed' <=> \E k \in 1 .. read' : ValidationFails(slot'[k])
    <3>1. failed <=> \E k \in 1 .. read : ValidationFails(slot[k])
      BY DEF GuardrailsIInv, Heard
    <3>2. failed' <=> \E k \in 1 .. r : ValidationFails(slot[k])
      BY <1>2, <1>3, <3>1
    <3> QED BY <1>2, <1>6, <3>2
  <2>3. (\E k \in 1 .. Len(docs') : slot'[k] = "cancelled") => Raised'
    <3>1. CASE Raises(slot[r])
      <4>1. r \in 1 .. r
        BY <1>3
      <4> QED BY <1>2, <1>6, <3>1, <4>1 DEF Raised
    <3>2. CASE ~Raises(slot[r])
      <4>1. ~\E k \in 1 .. Len(docs) : slot[k] = "cancelled"
        BY <1>2 DEF GuardrailsIInv, Heard
      <4> QED BY <1>2, <1>4, <3>2, <4>1
    <3> QED BY <3>1, <3>2
  <2> QED BY <2>1, <2>2, <2>3 DEF Heard
<1> QED BY <1>2, <1>3, <1>4, <1>5, <1>7, PoolMoves

(* The verdict is given and the pool is empty again.                       *)
LEMMA ReturnKeepsGuardrails ==
    ASSUME GuardrailsIInv, Return
    PROVE  GuardrailsIInv'
<1>1. /\ cmd' = "none" /\ input' = {} /\ docs' = <<>> /\ slot' = <<>> /\ read' = 0
      /\ failed' = FALSE /\ UNCHANGED <<dir, runs, todo, whole>> /\ cmd = "validate-iam"
  BY DEF Return, Finish
<1>2. Relied'
  BY ReturnSays DEF GuardrailsIInv
<1>3. PoolTyped'
  <2>1. (input = {} /\ docs = <<>> /\ slot = <<>> /\ read = 0 /\ ~failed /\ failed \in BOOLEAN)'
    BY <1>1
  <2> QED BY <2>1, EmptyPool, PTL
<1>4. GuardrailsTypeOK'
  <2>1. dir' \in [Files -> Artifacts] /\ runs' \in 0 .. MaxRuns
        /\ todo' \in Seq(Stacks) /\ whole' \in BOOLEAN
    BY <1>1, TypeParts DEF GuardrailsIInv
  <2> QED BY <1>1, <1>2, <1>3, <2>1 DEF GuardrailsTypeOK, PoolTyped, Relied
<1>5. Filled' /\ Covered'
  BY <1>1 DEF GuardrailsIInv, Filled, Covered
<1>6. Pooled' /\ Heard'
  BY <1>1, EmptySeq DEF Pooled, Heard, Raised
<1> QED BY <1>2, <1>4, <1>5, <1>6 DEF GuardrailsIInv

(* Nothing happens.                                                        *)
LEMMA GuardrailsStutter ==
    ASSUME GuardrailsIInv, UNCHANGED guardrailsVars
    PROVE  GuardrailsIInv'
<1> USE DEF guardrailsVars, pool
<1>1. Relied'
  BY SameSays DEF GuardrailsIInv
<1>2. Filled' /\ Covered' /\ Heard'
  BY DEF GuardrailsIInv, Filled, Covered, Heard, Raised
<1>3. GuardrailsTypeOK'
  BY DEF GuardrailsIInv, GuardrailsTypeOK, Range
<1>4. Pooled'
  <2>1. AllDocuments(input)' = AllDocuments(input) /\ Found' = Found /\ Loads(input)' = Loads(input)
    BY DEF AllDocuments, extract_iam_validation_inputs, Found, Loads
  <2> QED BY <2>1 DEF GuardrailsIInv, Pooled, preview_input_files
<1> QED BY <1>1, <1>2, <1>3, <1>4 DEF GuardrailsIInv

(* Every step keeps the guardrails.                                        *)
LEMMA GuardrailsStep ==
    GuardrailsIInv /\ [GuardrailsNext]_guardrailsVars => GuardrailsIInv'
<1> SUFFICES ASSUME GuardrailsIInv, [GuardrailsNext]_guardrailsVars PROVE GuardrailsIInv'
  OBVIOUS
<1>1. CASE BeginPreview BY <1>1, BeginKeepsGuardrails
<1>2. CASE PreviewStack BY <1>2, PreviewKeepsGuardrails
<1>3. CASE PreviewFails BY <1>3, FailKeepsGuardrails
<1>4. CASE RunDestructiveGate BY <1>4, CommandKeepsGuardrails DEF RunDestructiveGate
<1>5. CASE WriteIamInputs BY <1>5, CommandKeepsGuardrails DEF WriteIamInputs
<1>6. CASE RunCostProxy BY <1>6, CommandKeepsGuardrails DEF RunCostProxy
<1>7. CASE RunValidateIam BY <1>7, ValidateKeepsGuardrails
<1>8. CASE Take BY <1>8, TakeKeepsGuardrails
<1>9. CASE \E i \in DOMAIN slot : Answer(i) BY <1>9, AnswerKeepsGuardrails
<1>10. CASE Read BY <1>10, ReadKeepsGuardrails
<1>11. CASE Return BY <1>11, ReturnKeepsGuardrails
<1>12. CASE UNCHANGED guardrailsVars BY <1>12, GuardrailsStutter
<1> QED BY <1>1, <1>2, <1>3, <1>4, <1>5, <1>6, <1>7, <1>8, <1>9, <1>10, <1>11, <1>12
           DEF GuardrailsNext, Validation

(* Whatever the previews show, and in whatever order answers come: a gate  *)
(* passes only on the last preview run and all of it, lets no protected    *)
(* resource be destroyed, is not turned by the helper files of another,    *)
(* and a validation passes only when every document was answered cleanly.  *)
THEOREM GuardrailsInvariant == GuardrailsSpec => []GuardrailsInv
<1>1. GuardrailsIInv => GuardrailsInv
  BY DEF GuardrailsIInv, GuardrailsInv, Relied
<1> QED BY <1>1, GuardrailsBegin, GuardrailsStep, PTL DEF GuardrailsSpec
================================================================================
