-------------------------- MODULE StackConfiguration --------------------------
(***************************************************************************)
(* scripts/_pulumi_stack_config.py: prepared_stack_configuration writes a  *)
(* private configuration file for one Pulumi command.  It takes the data   *)
(* key from the existing checkpoint, which others write meanwhile, pins    *)
(* the AWS provider to the target, adds the workload settings, and returns *)
(* the identity that a saved plan is bound to.                             *)
(***************************************************************************)
EXTENDS Naturals

CONSTANTS
    DataKeys,      \* encrypted data keys of secrets providers
    NoKey,         \* none, or not valid base64
    Fields,        \* provider settings with a pin
    WorkloadKeys,  \* the closed set of public workload settings
    MaxVersion,    \* bound on checkpoint versions
    MaxChanges      \* bound on changes of KMS

ASSUME ConfigurationAssumption ==
    /\ NoKey \notin DataKeys
    /\ MaxVersion \in Nat \ {0} /\ MaxChanges \in Nat

VARIABLES
    changes,
    latest,      \* number of the current version of the checkpoint
    versions,    \* [1 .. latest -> Checkpoints]
    key,         \* the KMS key of the requested provider
    region,      \* of the job, once it is known
    committed,   \* Pulumi.<stack>.yaml, once it is read
    workload,    \* the workload settings asked for, or NoWorkload
    gated,       \* does the command have a registry plan gate
    stage,
    before,      \* version of the first head
    exported,    \* the checkpoint exported
    config       \* the configuration written

reading == <<region, committed, stage, before, exported, config>>
configurationVars == <<changes, latest, versions, key, workload, gated, reading>>

(* A checkpoint may lack a cloud provider, name another one than this      *)
(* command, list resources of another stack or operations under way.       *)
Checkpoints == [defect : {"none", "no cloud", "other provider", "foreign", "pending"},
                dataKey : DataKeys \cup {NoKey}]

KeyStates == {"ours", "foreign", "disabled"}

(* A provider setting may be spelled aws:<field> or aws:config:<field>.    *)
(* "encoded" stands for the pinned value in another scalar encoding.       *)
Spellings == {"aws", "aws:config"}
Values == {"absent", "pinned", "encoded", "other"}
WorkloadValues == {"absent", "wanted", "other"}

Committed == [dataKey : DataKeys \cup {"absent"}, salt : BOOLEAN,
              unknown : BOOLEAN,   \* a provider setting without a pin
              aws : [Spellings \X Fields -> Values],
              workload : [WorkloadKeys -> WorkloadValues]]

NoWorkload == "none"
Workloads == {NoWorkload, "well formed", "other keys", "other image", "other runtime"}

NoConfig == [dataKey |-> NoKey]
NoRegion == "none"

Stages == {"coordinates", "caller", "head", "export", "key", "recheck", "write",
          "prepared", "refused"}

(* The checkpoint, the job's inputs and what was read have their types.    *)
ConfigurationTypeOK ==
    /\ changes \in 0 .. MaxChanges
    /\ latest \in 1 .. MaxVersion
    /\ versions \in [1 .. latest -> Checkpoints]
    /\ key \in KeyStates
    /\ region \in {"here", "there", NoRegion}
    /\ committed = NoConfig \/ committed \in Committed
    /\ workload \in Workloads /\ gated \in BOOLEAN
    /\ stage \in Stages
    /\ before \in 0 .. latest
    /\ exported \in Checkpoints \cup {NoConfig}
    /\ config = NoConfig \/ config \in Committed

ConfigurationInit ==
    /\ changes = 0
    /\ latest = 1
    /\ versions \in [1 .. 1 -> Checkpoints]
    /\ key \in KeyStates
    /\ region = NoRegion
    /\ committed = NoConfig
    /\ workload \in Workloads /\ gated \in BOOLEAN
    /\ stage = "coordinates"
    /\ before = 0 /\ exported = NoConfig /\ config = NoConfig

-----------------------------------------------------------------------------
(* Others change the encryption of the stack, run updates, and change KMS. *)

OtherWrites ==
    /\ latest < MaxVersion
    /\ latest' = latest + 1
    /\ \E x \in Checkpoints :
          versions' = [v \in 1 .. latest' |-> IF v = latest' THEN x ELSE versions[v]]
    /\ UNCHANGED <<changes, key, workload, gated, reading>>

KeyChanges ==
    /\ changes < MaxChanges /\ changes' = changes + 1
    /\ key' \in KeyStates \ {key}
    /\ UNCHANGED <<latest, versions, workload, gated, reading>>

Others == OtherWrites \/ KeyChanges

-----------------------------------------------------------------------------
(* prepared_stack_configuration                                            *)

Frame == UNCHANGED <<changes, latest, versions, key, workload, gated>>

Goto(s) == stage' = s

(* Both region variables that are set agree, and nothing overrides the     *)
(* backend or the secrets provider.                                        *)
Coordinates ==
    /\ stage = "coordinates"
    /\ \E regions \in SUBSET {"here", "there"}, override \in BOOLEAN :
          /\ ~override
          /\ \E r \in regions : regions = {r} /\ region' = r
    /\ Goto("caller")
    /\ UNCHANGED <<committed, before, exported, config>> /\ Frame

(* The caller's account is the pinned one.                                 *)
Caller ==
    /\ stage = "caller"
    /\ Goto("head")
    /\ UNCHANGED <<region, committed, before, exported, config>> /\ Frame

FirstHead ==
    /\ stage = "head"
    /\ before' = latest
    /\ Goto("export")
    /\ UNCHANGED <<region, committed, exported, config>> /\ Frame

(* _validate_deployment and _provider_state                                *)
Usable(x) == x.defect = "none" /\ x.dataKey # NoKey

Export ==
    /\ stage = "export"
    /\ Usable(versions[latest])
    /\ exported' = versions[latest]
    /\ Goto("key")
    /\ UNCHANGED <<region, committed, before, config>> /\ Frame

(* The requested KMS key lies in the job's region and account.             *)
KeyIdentity ==
    /\ stage = "key"
    /\ region = "here"
    /\ key = "ours"
    /\ Goto("recheck")
    /\ UNCHANGED <<region, committed, before, exported, config>> /\ Frame

(* Mutant: the second head is not compared.                                *)
RecheckAny ==
    /\ stage = "recheck"
    /\ Goto("write")
    /\ UNCHANGED <<region, committed, before, exported, config>> /\ Frame

Recheck ==
    /\ stage = "recheck"
    /\ latest = before
    /\ Goto("write")
    /\ UNCHANGED <<region, committed, before, exported, config>> /\ Frame

SameEncryption(c) ==
    ~c.salt /\ c.dataKey \in {"absent", exported.dataKey}

PinsHold(c) ==
    /\ ~c.unknown
    /\ \A x \in Spellings \X Fields : c.aws[x] # "other"

(* Mutant: the settings in the other spelling are left where they are.     *)
PinnedBesides(c) ==
    [x \in Spellings \X Fields |->
        IF gated /\ x[1] = "aws" THEN "pinned" ELSE c.aws[x]]

(* Only the gated path replaces what was committed.                        *)
Pinned(c) ==
    [x \in Spellings \X Fields |->
        IF ~gated THEN c.aws[x]
        ELSE IF x[1] = "aws" THEN "pinned" ELSE "absent"]

(* Mutant: committed settings are not compared.                            *)
WorkloadUnconflicted(c) == workload \in {NoWorkload, "well formed"}

(* Keys, images, runtime, roles and endpoints of the projection, and no    *)
(* committed setting that says something else.                             *)
WorkloadHolds(c) ==
    workload # NoWorkload =>
        /\ workload = "well formed"
        /\ \A k \in WorkloadKeys : c.workload[k] # "other"

WithWorkload(c) ==
    [k \in WorkloadKeys |->
        IF workload = NoWorkload THEN c.workload[k] ELSE "wanted"]

Configured(c) ==
    [c EXCEPT !.dataKey = exported.dataKey, !.aws = Pinned(c), !.workload = WithWorkload(c)]

(* At most one of the committed provider settings and one of the workload  *)
(* settings is unlike the rest, to keep instances small.                   *)
Even(f, rests) ==
    \E at \in DOMAIN f, rest \in rests : \A x \in DOMAIN f \ {at} : f[x] = rest

CommittedFiles ==
    {c \in Committed : Even(c.aws, {"absent", "pinned"}) /\ Even(c.workload, {"absent"})}

WriteConfiguration ==
    /\ stage = "write"
    /\ \E c \in CommittedFiles :
          /\ SameEncryption(c) /\ PinsHold(c) /\ WorkloadHolds(c)
          /\ committed' = c
          /\ config' = Configured(c)
    /\ Goto("prepared")
    /\ UNCHANGED <<region, before, exported>> /\ Frame

Refuse ==
    /\ stage \notin {"prepared", "refused"}
    /\ Goto("refused")
    /\ UNCHANGED <<region, committed, before, exported, config>> /\ Frame

Prepare ==
    \/ Coordinates \/ Caller \/ FirstHead \/ Export \/ KeyIdentity \/ Recheck
    \/ WriteConfiguration \/ Refuse

ConfigurationNext == Others \/ Prepare

ConfigurationSpec == ConfigurationInit /\ [][ConfigurationNext]_configurationVars

-----------------------------------------------------------------------------
(* "Preserve existing S3 stack encryption": what the configuration says of *)
(* encryption is what the bound version of the checkpoint says, although   *)
(* the version and the checkpoint are read by different tools while others *)
(* write, and the committed file never says otherwise.                     *)
KeepsEncryption ==
    stage = "prepared" =>
        /\ Usable(versions[before])
        /\ config.dataKey = versions[before].dataKey
        /\ committed.dataKey \in {"absent", config.dataKey}

(* Whatever spelling and encoding the committed file uses, the provider is *)
(* held to the target: behind a gate by one plain setting per field, else  *)
(* by what is committed, which never says anything else.                   *)
ProviderPinned ==
    stage = "prepared" => \A f \in Fields :
        /\ \A s \in Spellings : config.aws[<<s, f>>] # "other"
        /\ gated => /\ config.aws[<<"aws", f>>] = "pinned"
                    /\ config.aws[<<"aws:config", f>>] = "absent"

(* A workload is materialized as a whole and only where the committed file *)
(* does not contradict it; a command without one changes none of it.       *)
WorkloadIsWhole ==
    stage = "prepared" =>
        IF workload = NoWorkload THEN config.workload = committed.workload
        ELSE /\ \A k \in WorkloadKeys : config.workload[k] = "wanted"
             /\ \A k \in WorkloadKeys : committed.workload[k] \in {"absent", "wanted"}

(* A prepared configuration keeps what the stack has and pins the rest.    *)
ConfigurationInv == ConfigurationTypeOK /\ KeepsEncryption /\ ProviderPinned /\ WorkloadIsWhole
================================================================================
