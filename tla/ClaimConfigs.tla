----------------------------- MODULE ClaimConfigs ------------------------------
(***************************************************************************)
(* prepareDevices: from the allocation of one claim to the edits of its    *)
(* container.  The configurations of the device class and of the claim are *)
(* put in order, each device gets the last one that applies to its         *)
(* request, and the devices with the same configuration, a group, are      *)
(* edited together.  The groups live in a Go map: they are applied, and    *)
(* later collected, in any order.  core is the feature gate HAMivNPUCore.  *)
(*                                                                         *)
(* That devices are allocatable, and the slices that are cut for them, is  *)
(* the subject of DeviceState; here a slice has the name of its device.    *)
(***************************************************************************)
EXTENDS Integers, Sequences, FiniteSets, SequencesExt

CONSTANTS
  Requests, Devices,
  Templates,   \* the templates that the vNPU manager has loaded
  NpuConfigs,  \* the NpuConfig values that a configuration may hold
  Quotas,      \* consumed capacities of a device
  Capacity,    \* the capacity of a device, used when none is recorded
  MiB,         \* bytes in a MiB
  MaxConfigs,  \* bound: configurations of a claim
  MaxResults,  \* bound: devices of a claim
  Nil,         \* an absent value
  NoTemplate

Intervals == {"Default", "Short", "Medium", "Long"}

NpuConfig ==
  [strategy : {"TimeSlicing", "SpacePartitioning", "unknown", Nil},
   interval : Intervals \cup {"unknown", Nil}, count : Int \cup {Nil},
   template : Templates \cup {"unknown", NoTemplate}]

Quota == [memory : Int, cores : Int]

ASSUME ClaimConfigsAssumption ==
  /\ NpuConfigs \subseteq NpuConfig /\ Quotas \subseteq Quota /\ Capacity \in Quota
  /\ MiB \in Nat \ {0} /\ MaxConfigs \in Nat /\ MaxResults \in Nat
  /\ NoTemplate \notin Templates /\ Nil \notin Quota /\ Nil \notin Int

VARIABLES
  core,
  possible,  \* claim.Status.Allocation.Devices.Config
  results,   \* claim.Status.Allocation.Devices.Results
  step,
  configs,   \* the configurations in order of precedence, lowest first
  template,  \* what slices are cut by
  todo,      \* groups to be applied or collected
  edits,     \* perDeviceCDIContainerEdits
  prepared   \* preparedDevices

claimVars == <<core, possible, results>>
vars == <<claimVars, step, configs, template, todo, edits, prepared>>

(* What a configuration may be: of this driver, of another one, or one     *)
(* that stops Prepare: not opaque, of an unknown source, undecodable.      *)
AllocationConfig ==
  [source : {"class", "claim"}, kind : {"npu"}, requests : SUBSET Requests,
   npu : NpuConfigs]
  \cup [source : {"claim"}, kind : {"other", "broken"}, requests : {{}}, npu : {Nil}]

Result == [request : Requests, device : Devices, quota : Quotas \cup {Nil}]

(* A slice or a whole card is given out once; in core mode a device may be *)
(* given to two requests of a claim.  The consumed capacity is recorded    *)
(* for all devices, or for none by a scheduler that does not know it.      *)
Allocated(rs) ==
  /\ \A i, j \in DOMAIN rs :
       /\ rs[i].quota = Nil <=> rs[j].quota = Nil
       /\ ~core /\ i # j => rs[i].device # rs[j].device
  /\ ~core => \A i \in DOMAIN rs : rs[i].quota = Nil

Init ==
  /\ core \in BOOLEAN
  /\ possible \in UNION {[1 .. n -> AllocationConfig] : n \in 0 .. MaxConfigs}
  /\ results \in {rs \in UNION {[1 .. n -> Result] : n \in 1 .. MaxResults} :
                    Allocated(rs)}
  /\ step = "decode"
  /\ configs = <<>> /\ template = NoTemplate
  /\ todo = {} /\ edits = <<>> /\ prepared = <<>>

-----------------------------------------------------------------------------
(* NpuConfig *)

DefaultNpuConfig ==
  [strategy |-> "TimeSlicing", interval |-> "Default", count |-> Nil,
   template |-> NoTemplate]

(* interval and count are the fields of the two pointers to the settings.  *)
Normalize(npu) ==
  LET strategy == IF npu.strategy = Nil THEN "TimeSlicing" ELSE npu.strategy
      Implied(s, field, value) == IF strategy = s /\ field = Nil THEN value ELSE field
  IN  [npu EXCEPT !.strategy = strategy,
                  !.interval = Implied("TimeSlicing", @, "Default"),
                  !.count = Implied("SpacePartitioning", @, 1)]

ValidSlicing(npu) ==  \* mutant: any partition count
  npu.strategy = "TimeSlicing" => npu.interval \in Intervals

Valid(npu) ==
  \/ npu.strategy = "TimeSlicing" /\ npu.interval \in Intervals
  \/ npu.strategy = "SpacePartitioning" /\ npu.count >= 0

(* A setting of the other strategy suppresses the variable.                *)
SharingEnv(npu) ==
  [strategy |-> npu.strategy,
   parameter |-> CASE npu.strategy = "TimeSlicing" /\ npu.count = Nil -> npu.interval
                   [] npu.strategy = "SpacePartitioning" /\ npu.interval = Nil -> npu.count
                   [] OTHER -> Nil]

-----------------------------------------------------------------------------
(* Order and choice of configurations *)

(* The members of a set of indices in their order, as a range loop meets   *)
(* them.                                                                   *)
InOrder(I) ==
  CHOOSE q \in [1 .. Cardinality(I) -> I] :
    \A j, k \in 1 .. Cardinality(I) : j < k => q[j] < q[k]

Mine(source) ==
  LET mine == InOrder({i \in DOMAIN possible :
                         possible[i].kind = "npu" /\ possible[i].source = source})
  IN  [k \in DOMAIN mine |-> possible[mine[k]]]

ClassAfterClaim ==  \* mutant: the claim's own configurations come first
  Mine("claim") \o Mine("class")

GetOpaqueDeviceConfigs == Mine("class") \o Mine("claim")

ForRequest(c, r) == c.requests = {} \/ r.request \in c.requests

(* The group of a device: the index of its configuration.                  *)
Group(i) == SelectLastInSeq(configs, LAMBDA c : ForRequest(c, results[i]))

Groups == {Group(i) : i \in DOMAIN results}

Members(g) == InOrder({i \in DOMAIN results : Group(i) = g})

(* Slices are cut by the first loaded template in the list, whichever      *)
(* request it is meant for.                                                *)
FirstTemplate ==
  LET k == SelectInSeq(configs, LAMBDA c : c.npu.template \in Templates)
  IN  IF k = 0 THEN NoTemplate ELSE configs[k].npu.template

-----------------------------------------------------------------------------
(* Edits.  visible is ASCEND_VISIBLE_DEVICES, <<>> when it is not set.     *)

NoEdits == [visible |-> <<>>, quota |-> Nil, sharing |-> Nil]

SameQuota(ds) ==
  \A i, j \in DOMAIN ds : ds[i].quota # Nil /\ ds[j].quota # Nil => ds[i].quota = ds[j].quota

CapacityOf(r) == IF r.quota = Nil THEN Capacity ELSE r.quota

AnyWhole(q) == q.memory > 0 /\ q.cores \in 1 .. 100  \* mutant: parts of a MiB

Accepted(q) == q.memory > 0 /\ q.memory % MiB = 0 /\ q.cores \in 1 .. 100

(* Core mode: the first device of the group has the edits of all; a device *)
(* that comes again later in the group overwrites them.                    *)
CoreEdits(ds) ==
  LET q == CapacityOf(ds[1])
      all == [visible |-> [i \in DOMAIN ds |-> ds[i].device], sharing |-> Nil,
              quota |-> [memory |-> q.memory \div MiB, cores |-> q.cores]]
  IN  [d \in {ds[i].device : i \in DOMAIN ds} |->
         IF \E i \in 2 .. Len(ds) : ds[i].device = d THEN NoEdits ELSE all]

SliceEdits(ds, npu) ==
  [d \in {ds[i].device : i \in DOMAIN ds} |->
     [visible |-> <<d>>, quota |-> Nil, sharing |-> SharingEnv(npu)]]

Applicable(ds, npu) ==
  Valid(npu) /\ (core => SameQuota(ds) /\ Accepted(CapacityOf(ds[1])))

-----------------------------------------------------------------------------
Fail ==
  step' = "failed" /\ UNCHANGED <<claimVars, configs, template, todo, edits, prepared>>

Broken == \E i \in DOMAIN possible : possible[i].kind = "broken"

Decode ==
  /\ step = "decode" /\ ~Broken
  /\ configs' = <<[requests |-> {}, npu |-> DefaultNpuConfig]>> \o
                [k \in DOMAIN GetOpaqueDeviceConfigs |->
                   [requests |-> GetOpaqueDeviceConfigs[k].requests,
                    npu |-> GetOpaqueDeviceConfigs[k].npu]]
  /\ step' = "match"
  /\ UNCHANGED <<claimVars, template, todo, edits, prepared>>

DecodeFails == step = "decode" /\ Broken /\ Fail

Match ==
  /\ step = "match"
  /\ template' = IF core THEN NoTemplate ELSE FirstTemplate
  /\ todo' = Groups
  /\ step' = "apply"
  /\ UNCHANGED <<claimVars, configs, edits, prepared>>

Devs(g) == [k \in DOMAIN Members(g) |-> results[Members(g)[k]]]

(* Normalize, validate and apply one group; its edits replace those of the *)
(* same devices of another group.                                          *)
Apply(g) ==
  LET npu == Normalize(configs[g].npu)
      new == IF core THEN CoreEdits(Devs(g)) ELSE SliceEdits(Devs(g), npu)
  IN  /\ step = "apply" /\ g \in todo
      /\ Applicable(Devs(g), npu)
      /\ edits' = [d \in DOMAIN edits \cup DOMAIN new |->
                     IF d \in DOMAIN new THEN new[d] ELSE edits[d]]
      /\ todo' = IF todo = {g} THEN Groups ELSE todo \ {g}
      /\ step' = IF todo = {g} THEN "collect" ELSE step
      /\ UNCHANGED <<claimVars, configs, template, prepared>>

ApplyFails(g) ==
  /\ step = "apply" /\ g \in todo
  /\ ~Applicable(Devs(g), Normalize(configs[g].npu))
  /\ Fail

Collect(g) ==
  /\ step = "collect" /\ g \in todo
  /\ prepared' = prepared \o [k \in DOMAIN Devs(g) |->
                   [device |-> Devs(g)[k].device, edits |-> edits[Devs(g)[k].device]]]
  /\ todo' = todo \ {g}
  /\ step' = IF todo' = {} THEN "done" ELSE step
  /\ UNCHANGED <<claimVars, configs, template, edits>>

Next ==
  \/ Decode \/ DecodeFails \/ Match
  \/ \E g \in todo : Apply(g) \/ ApplyFails(g) \/ Collect(g)

Spec == Init /\ [][Next]_vars

-----------------------------------------------------------------------------
(* What becomes of the edits *)

(* The values that the edits give a variable of the container.             *)
Visibles == {prepared[i].edits.visible : i \in DOMAIN prepared} \ {<<>>}
EnvQuotas == {prepared[i].edits.quota : i \in DOMAIN prepared} \ {Nil}

(* preparedCoreQuota, which the monitor asks: Nil when not supported.      *)
PreparedCoreQuotaLast ==  \* mutant: a later value replaces an earlier one
  IF EnvQuotas = {} THEN Nil ELSE (CHOOSE q \in EnvQuotas : TRUE).memory * MiB

PreparedCoreQuota ==
  IF Cardinality(Visibles) > 1 \/ Cardinality(EnvQuotas) # 1
  THEN Nil ELSE (CHOOSE q \in EnvQuotas : TRUE).memory * MiB

(* The CDI spec of a claim is one device with the edits of all, in their   *)
(* order; the last value of a variable is the one that holds.              *)
SeenByContainer ==
  LET k == SelectLastInSeq(prepared, LAMBDA p : p.edits.visible # <<>>)
  IN  IF k = 0 THEN {} ELSE ToSet(prepared[k].edits.visible)

-----------------------------------------------------------------------------
(* Properties.  Reference: which configuration is the claim's for a device *)

Applies(k, i) == possible[k].kind = "npu" /\ ForRequest(possible[k], results[i])

(* One of the claim beats one of the class, then a later an earlier one.   *)
Beats(k, j) ==
  IF possible[k].source = possible[j].source THEN k > j
  ELSE possible[k].source = "claim"

Winner(i) ==
  {k \in DOMAIN possible : Applies(k, i) /\
     \A j \in DOMAIN possible : Applies(j, i) /\ j # k => Beats(k, j)}

ConfigOf(i) ==
  IF Winner(i) = {} THEN DefaultNpuConfig
  ELSE possible[CHOOSE k \in Winner(i) : TRUE].npu

(* Every variable has its type, in particular the sharing that a container *)
(* is told.                                                                *)
ConfigsTypeOK ==
  /\ step \in {"decode", "match", "apply", "collect", "done", "failed"}
  /\ template \in Templates \cup {NoTemplate}
  /\ todo \subseteq DOMAIN configs
  /\ \A k \in DOMAIN configs :
       configs[k] \in [requests : SUBSET Requests, npu : NpuConfig]
  /\ \A d \in DOMAIN edits :
       /\ d \in Devices /\ edits[d].visible \in Seq(Devices)
       /\ edits[d].quota \in Quota \cup {Nil}
       /\ \/ edits[d].sharing = Nil
          \/ /\ edits[d].sharing.strategy = "TimeSlicing"
             /\ edits[d].sharing.parameter \in Intervals \cup {Nil}
          \/ /\ edits[d].sharing.strategy = "SpacePartitioning"
             /\ edits[d].sharing.parameter \in Nat \cup {Nil}
  /\ \A i \in DOMAIN prepared :
       prepared[i].device \in DOMAIN edits /\ prepared[i].edits = edits[prepared[i].device]

(* Traditional mode: the sharing that a container is told for a device is  *)
(* that of the configuration with precedence, and a claim is refused       *)
(* exactly when it cannot be read or such a configuration is not valid: an *)
(* invalid one that another one overrides does no harm.                    *)
ConfigPrecedence ==
  LET Good(i) == Valid(Normalize(ConfigOf(i)))
  IN  /\ ~core /\ step = "done" => \A i \in DOMAIN results :
           /\ Good(i)
           /\ \E k \in DOMAIN prepared :
                /\ prepared[k].device = results[i].device
                /\ prepared[k].edits.sharing = SharingEnv(Normalize(ConfigOf(i)))
      /\ ~core /\ step = "failed" => Broken \/ \E i \in DOMAIN results : ~Good(i)

(* The properties of core mode are about claims of different devices: the  *)
(* edits of a device that is given to two requests replace each other.     *)
DifferentDevices ==
  \A i, j \in DOMAIN results : i # j => results[i].device # results[j].device

(* Core mode: the monitor takes a claim for supported only if its          *)
(* container sees every device of the claim, whatever the order in which   *)
(* the groups were applied and collected, and although the first device of *)
(* each group carries the edits of all.                                    *)
SupportedSeesAll ==
  core /\ step = "done" /\ DifferentDevices /\ PreparedCoreQuota # Nil =>
    SeenByContainer = {results[i].device : i \in DOMAIN results}

(* Core mode: the quota that the monitor reads back from the edits is the  *)
(* capacity the scheduler took, and a claim with one group is always       *)
(* supported.                                                              *)
QuotaReadBack ==
  core /\ step = "done" /\ DifferentDevices =>
    /\ PreparedCoreQuota # Nil =>
         \A i \in DOMAIN results : CapacityOf(results[i]).memory = PreparedCoreQuota
    /\ Cardinality(Groups) = 1 => PreparedCoreQuota # Nil

(* What the comment of GetOpaqueDeviceConfigs says, for templates: the     *)
(* claim's configuration takes precedence over that of the class.          *)
TemplatePrecedence ==
  ~core /\ step = "apply" => \A i \in DOMAIN results :
    ConfigOf(i).template \in Templates => template = ConfigOf(i).template
=============================================================================
