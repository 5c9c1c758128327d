# Verification of the Ascend DRA driver

TLA+ models of `ascend-dra-driver`, the kubelet plugin that hands Ascend NPUs to
Kubernetes Pods by Dynamic Resource Allocation. The modules model the code under
`src/cmd/ascend-dra-kubeletplugin`, `src/internal/monitor`, `src/scripts` and
`src/api/.../v1alpha1`; TLC checks them on small instances and TLAPS proves the
theorems of the eight `...Proofs` modules for all instances. `PROJECT.json` lists
components, runs, mutants, findings, hazards, theorems, and the source lines of every
definition.

## The system

The driver runs as a DaemonSet, one process per node, in one of two modes, chosen
by the feature gate `HAMivNPUCore`:

* **core mode** (the default): a card is shared by the runtime library of
  HAMi-vNPU-core. Devices allow several allocations, nothing is cut; Prepare writes
  quotas and mounts into a CDI spec and makes one shared-memory directory per claim.
* **traditional mode** (experimental): the vNPU manager cuts cards into slices by
  templates and puts them together again.

| Component | State | Operations | Meets |
|---|---|---|---|
| vNPU manager (`vnpu.go`, end of `state.go`) | per card: free and used slices, supported templates, next slice index | `InitPhysicalNPU`, `AllocateSlice`, `ReleaseSlice`, snapshots | called by Prepare and Unprepare; calls back `UpdateAllocatableDevice`; read by `syncAllocatable` |
| DeviceState (`state.go`, `cdi.go`, `checkpoint.go`) | allocatable map, prepared claims, version tokens; durable: checkpoint, CDI specs, directories | `NewDeviceState`, `Prepare`, `Unprepare` under the state lock | called by the driver; read by the monitor |
| driver process (`driver.go`, `health.go`) | helper, published device list | startup, the two RPCs, `syncAllocatable`, health probe | kubelet by RPC, scheduler by the published list |
| device classes (`state.go`) | none; the API server holds them | created or updated at startup by every node | select what the scheduler may give to a claim |
| claim configuration (`api/.../v1alpha1`, `GetOpaqueDeviceConfigs`) | none | decode, precedence, normalize, validate | part of Prepare |
| libvnpu edits, prepared quota (`state.go`, `metrics.go`) | none | build edits; read the quota back from them | Prepare writes, monitor reads |
| monitor (`internal/monitor`) | cached samples, freshness of each source | sampling loop, hardware poller, scrape, Close | DeviceState (snapshot under the lock, tokens without), kubelet PodResources, shared memory |
| shared-memory reader (`shmem.go`) | none | double read of a file that the runtime writes | monitor, runtime library |
| device discovery (`discovery.go`, `manager.go`) | none after startup | queries of the hardware library, one turn per logical device | initial state of the allocatable map and of the vNPU manager |
| device-share setup (`device_share.go`) | none; the chips keep the setting | one `npu-smi` call per chip | before discovery, core mode only |
| vNPU template loading (`vnpu.go`) | none | a template file or the default | vNPU manager, device classes |
| core asset installer (`scripts/install-core-assets.sh`) | release directory of a node | install by rename, verify | installers of other Pods of the node; the plugin starts after it |
| command line, logging, tester, manifests, demo | - | - | - |

What is hard here: a claim lives in four places (checkpoint, CDI directory,
shared-memory directory, memory) that no transaction spans; every call may fail and
the process may die between two of them; slice names are used again after
`NextSliceIndex` restarts; the scheduler works on a list that was published earlier;
the startup of the process runs beside the first RPCs; installers of an old and a new
Pod race for a directory, and nodes for the same device classes; scrapes read tokens without
the lock, and join hardware, kubelet and memory readings of different age; the
groups of a claim lie in a Go map; the runtime stores to the memory that is read. What
makes the components correct: a card is never handed out twice and comes back whole; memory follows the checkpoint; a prepared claim has its files;
Unprepare can always be finished; a token stands for one prepared lifetime; the
published list catches up with the device state; an answer shows only what is fresh
and of a lifetime that has not ended; the configuration with precedence decides; a usage
is counted for the process it belongs to; a directory in use is never overwritten; no
node offers a part of its cards, or a chip before it is shared.

## Modules

| Module | Models | Extends |
|---|---|---|
| `VNPUSlices` | the vNPU manager and the allocatable map | - |
| `VNPUSlicesProofs` | theorems about it | `VNPUSlices`, TLAPS |
| `ClaimLifetimes` | abstract: what version tokens promise | - |
| `DeviceState` | Prepare, Unprepare, restart, failures | `VNPUSlices`, instance of `ClaimLifetimes` |
| `DeviceStateProofs` | theorems about it, and the refinement | `DeviceState`, `VNPUSlicesProofs` |
| `Driver` | process startup, RPCs, publication | `DeviceState` |
| `DriverProofs` | theorems about it, and those of `DeviceState` carried over | `Driver`, `DeviceStateProofs` |
| `Monitor` | rounds, hardware poller, scrapes, Close, and the lifetimes, rows and files they read | instance of `ClaimLifetimes` |
| `MonitorProofs` | theorems about it | `Monitor`, TLAPS |
| `ClaimConfigs` | `prepareDevices` as an algorithm: from the allocation of a claim to its edits and back | - |
| `ClaimConfigsProofs` | theorems about it | `ClaimConfigs`, TLAPS |
| `ShmemRead` | `readMemory` and `decodeMemory` beside the runtime | - |
| `ShmemReadProofs` | theorems about it | `ShmemRead`, TLAPS |
| `Fleet` | nodes, gate and failures of the startup | - |
| `CoreAssets` | the installers of all Pods | `Fleet` |
| `Discovery` | device-share, templates, loop over the devices, files | `Fleet` |
| `DeviceClasses` | creation and update of device classes by all nodes | `Discovery` |
| `Startup` | the nodes of a cluster that come up | `CoreAssets`, `DeviceClasses` |
| `StartupProofs` | theorems about installers, device-share, device lists and types | `Startup`, TLAPS |
| `DeviceClassesProofs` | theorems about the classes of all nodes | `StartupProofs` |
| `MCVNPUSlices`, `MCDeviceState`, `MCDriver`, `MCMonitor`, `MCClaimConfigs`, `MCShmemRead`, `MCStartup` | tables and values for TLC, claim symmetry | |

How they compose: `Driver` extends `DeviceState`, which extends `VNPUSlices`; all
three share their state and TLC runs them together. `DeviceState` implements
`ClaimLifetimes`, and `Monitor` is built on `ClaimLifetimes` instead of on
`DeviceState`: its Prepare and Unprepare are the steps that the abstract module
allows, seen from outside the lock. `ClaimConfigs` stands for itself: `DeviceState`
has only its outcome (valid, unreadable, rejected). So does `ShmemRead`: in `Monitor` a
file is ready, short, not initialized or refused. `Startup` composes the three modules
of what happens before the first RPC; its end, cards with the whole card free, is
the initial state of `VNPUSlices`.

**VNPUSlices.** `npus[c]` is a `PhysicalNPUState`: the lists `AvailableSlices` and
`AllocatedSlices` are the sets `available` and `allocated` (`SlicesDistinct` shows
that no name occurs twice, so nothing is lost), `SupportTemplates` is `support`,
`NextSliceIndex` is `next`. A name `npu-<card>-<k>` is the pair `<<card, k>>`. A
device of the allocatable map keeps the set of templates whose maxima it advertises
(a whole card advertises its own AICORE and memory, which admit every template).
`AllocateSlice` has one action per path of the code (`AllocateFullCard`,
`AllocateSliceByTemplate`), `ReleaseSlice` three (NPU slice, last vNPU slice, one of
several); the callback to `UpdateAllocatableDevice` is part of them. The loop over
templates runs over a Go map, so any template of least waste may win. Failed calls
change nothing and are not actions. `PruneAllocatable` is the part of
`syncAllocatable` under the lock.

**DeviceState.** The state lock is held for the whole of a call and kubeletplugin
runs calls one at a time, so one call at most is under way. It is cut into steps at
every effect that outlives a crash or can fail; `step` is its program counter,
`claim`, `todo` and `done` its locals, `reply` its result. `Fail(f)` takes the error
branch of a call of kind `f` and counts against `MaxFaults`:

| Fault | Where |
|---|---|
| `read` | `GetCheckpoint` |
| `mkdir` | `MkdirAll` or `Chmod`: the directory may be there or not |
| `spec`, `unspec` | writing, removing the CDI spec |
| `checkpoint` | `CreateCheckpoint` (the file stays as it was: the library renames) |
| `rmdir` | `RemoveAll` |
| `crash` | the process dies; `NewDeviceState` follows |
| `publish` | `PublishResources` (module `Driver`) |

Memory (`prepared`, `gen`, `nextGen`, the slices, the allocatable map) is lost in a
crash, `checkpoint`, `cdi` and `shm` stay. `gen` is `monitorGenerations`; a Go map is
walked in any order, hence the choice of `order` in `SetPreparedClaims`. A CDI spec
is reduced to the vNPU specs it names (`ClaimSpec`), a prepared device to its name
and to whether its edits are supported (`preparedCoreQuota`): claims in `Legacy` were
prepared by an older release. What can be wrong with a claim's configuration is one
value: `unreadable` fails before devices are allocated, `rejected` after. Scheduler,
claim controller and kubelet are the environment: `Schedule` obeys what the device
classes select (`Requestable`) and gives a slice to one claim at a time, `Deallocate`
waits until the claim is unprepared. `SyncAllocatable` may come at any moment between
two calls: here nothing is assumed about the caller, `Driver` fixes the order.

**Driver.** `main` is how far `NewDriver` is. RPCs are served from `serving` on,
`driver.helper` is set at `started`; a publication before that dereferences nil and
ends the process (`PublishWithoutHelper`). An RPC takes a set of claims, one call
each, then copies the allocatable map under the lock (`RpcSync`) and publishes the
copy without it (`RpcPublish`); `MainSync` and `MainPublish` do the same for startup,
interleaved with all of that. `published` survives the process and is what
`Schedule` reads. `HealthCheck` is the empty Prepare of the health service. `stray`
is for the properties: the cards the manager lost track of, because a Prepare that
failed left slices in use or a restart forgot those of prepared claims.

**ClaimLifetimes** is what the monitor may rely on: lifetimes begin with tokens never
seen in this process, one each; a token ends with its lifetime; a restart forgets
all. `DeviceState` implements it with `token <- gen, last <- nextGen`.

**Monitor.** Three goroutines interleave: `poll` is `pollHost`, `run` is the loop of
`run` with `refresh`, `sample` and `observeDomains` cut where it reads something that
others change (`ListWorkloads`, `Snapshot`, one `ReadDomain` per file, `Publish`), and
`scrape` is `Collect`. A scrape copies `current`, reads the token of each Claim in a
step of its own (`MetricsGeneration` takes no state lock) and answers; what it answers
are the sets `ShownMemory`, `ShownUtil`, `ShownHosts`, `Counted` and the function
`CountedState`, looked at when all tokens are read (`Answered`). `results` and `ticked`
are channels with room for one element; `close` is how far `Close` is, and a cancelled
context is `Cancelled`. The environment is in the same module: Prepare and Unprepare
(`Prepared`, `UnprepareEnds`, `UnprepareReturns`; `ending` is the Claim whose Unprepare
holds the state lock), kubelet's rows, and the runtime that creates and initializes
its memory file. Readings have no values: a reading is the time at which it was taken
and the lifetime it belongs to. What the code cannot see is recorded for the
properties only: `ran` (the pod of a lifetime), `left` (lifetimes whose directory could
not be removed), `read`, `life`, `listed` and `hostRead` in an observation, `ended` in
a scrape. Abstracted: the clock is read once per scrape, at its start; the values of
a query count as old as its start; two containers of a pod are two elements of `Pods`;
several devices of a Claim on one card, UUIDs that do not match, the gauges of the
sources, the memory of hosts and the log are left out.

**ClaimConfigs.** The initial state is any allocation of a claim: configurations of
class and claim in any order, for any requests, of this driver or not, readable or
not; devices with or without consumed capacity. `Decode` is `GetOpaqueDeviceConfigs`
with the default in front, `Match` the loop over the results, `Apply(g)` normalizes,
validates and applies one group, `Collect(g)` appends its devices. A group is the
index of its configuration (in the code, the pointer is the key of a map), `\E g`
is the order of the map. `InOrder` is what a range loop with an `if` keeps of a list.
`NpuConfig` has `interval` and `count` for the two pointers to settings, `Nil` for an absent one. In core mode edits are visible devices and
quota, otherwise device and sharing variables. `SeenByContainer` and
`PreparedCoreQuota` are the two readers of the edits: the container, for which the
last value of a variable holds (how CDI applies edits), and the monitor.

**ShmemRead.** `mem` is the file, reduced to the fields the reader looks at, in their
order in the file; widths are given by `SignBit` and `MaxUint`. Each of the two copies
(`ReadAt`) takes one step per field (`CopyField`), so a store of the runtime may fall
between any two fields; `Decode` is `decodeMemory` with the retry, `SumOf` its loop.
The runtime is external and as free as the properties allow: it stores pid, usage and
active flag of a slot in any order, may truncate the file at any moment, and is only
assumed to store the limit before the flag and never to come back to a slot with the
same pid within one attempt (which no reader could detect). `holder`, `left` and `cut`
record what the reader cannot see.

**Fleet, CoreAssets, Discovery, DeviceClasses, Startup.** Everything is a function of
the node (`Nodes`) or of the Pod (`Pods`; an old and a new Pod may be on one node).
`CoreAssets` is the script: `target` the release directory, `stage` the staging
directory, `inst` the line. A signal the script handles runs the trap, which removes
the stage, and the script goes on at the next command (`HandleSignal`); a kill leaves
everything (`KillInstaller`). `Discovery` is `NewDeviceState`: `phase` is how far it
is, `toShare` the chips `SetDeviceShare` has still to be called for (in any order: the
order tells nothing apart), `at` the turn of the loop in `NewHwDevManager`, `found` its
`AllDevs` (for each device the first and the last model, or nothing), `listed` the allocatable map and
`manager` the vNPU manager, both reduced to the model of a card. A card comes once for
each of its vNPUs; `enumerateDevices` keeps the last model, `InitPhysicalNPU` the
first. Each query may fail with its own outcome: the process ends, the card counts as
whole (`vdevs`), or the list is empty (`chip`). Lines of a template file are reduced to
header, rule, row and other text. `DeviceClasses` is `CreatePredefinedDeviceClasses`
with one `Get` and one `Create` or `Update` per class, of every node, beside the
others; `classes` is the API server with resource versions. A node with a checkpoint
makes its classes before it serves, a new one beside (`OpenFiles`). `Startup` lets a
plugin start when the installer of one of the node's Pods is done, and end at any
moment. `hw` is the machine: any of `Fleets`.

## Runs

Passing runs:

| Run | Question | Bounds |
|---|---|---|
| `DeviceStateCore` | core mode: do files, memory and tokens agree after any two failures or crashes, and is every Unprepare finished? | a claim of this release and a legacy one, two faults, four lifetimes per process |
| `DeviceStateSlices` | traditional mode: is every sequence of cuts and releases of a card safe, and do the specs of containers stay true meanwhile? | two claims, one card, two templates, five indices in a row, one fault, rejected configurations |
| `Driver` | with stale lists and startup interleaved: is a whole card given to one claim only, does a slice in use stay listed, and is a stale or failed publication made good? | two claims, two templates, one fault: publication, reading, checkpoint, spec removal or crash |
| `MonitorPair` | does an answer ever show an ended lifetime, memory of another one, or two samples with equal labels? | two claims of one pod on one card, two lifetimes, the clock stands |
| `MonitorTime` | is everything that is shown at most `MaxAge` old, whatever takes how long? | one claim that runs on from before, a clock from 1 to 3, `Interval` and `MaxAge` 1 |
| `MonitorLive` | do rounds and Close go on beside a query that blocks for ever? | no domain to observe, a clock from 1 to 3 |
| `ClaimConfigs` | are configurations chosen and edits built right for every claim? | two requests, devices and configurations; five values of `NpuConfig`, four capacities, two bytes to the MiB |
| `ShmemRead` | can a reader beside the runtime count a usage for the wrong process, take a half-made file for one without a quota, or wrap a sum? | two slots, pids of three bits (two positive, a negative), usages 0 and 2 of at most 3, three stores |
| `Startup` | does every node come up, with whole assets and whole lists, and do the classes of the cluster become and stay right? | two nodes, three Pods, two files, three fleets, one failure, signal, kill or crash |

Why the bounds are enough: cards do not influence each other in the manager (every
action changes one `npus[c]`), so one card shows every pattern of cuts; five indices
allow three slices in use, a release between them and reuse of the names after the
restart of the index. Two claims give every pair of interleaved lifetimes; two faults
give a failure during the cleanup of a failure, or a crash after one. Bounds on
counters (`MaxIndex`, `MaxTokens`, `MaxFaults`) are guards of the actions that count;
`Room` and `RoomFor` keep a call from being stopped half way by a bound. Claims are
symmetric in `DeviceStateSlices`. The properties of `Driver` also held at larger bounds
that take too long for a regular run: three lifetimes and seven indices, and
rejected configurations.

The monitor's questions are put separately. Who is shown does not depend on the clock,
except that age hides more, so `MonitorPair` has none; how old things are does not
depend on other claims, so `MonitorTime` has one, and a clock from 1 to 3 lets every stamp
become older than `MaxAge` while a query, a lookup, a round or a scrape is under way.
`MonitorPair` and `MonitorTime` run `OpenSpec`, without Close: Close only stops
goroutines and fails lookups, which may fail anyway, so it adds no answer.
In `ClaimConfigs` two configurations and two devices give every relation between
sources, positions and requests that the order compares, and both one and two groups.
In `ShmemRead` three stores let a slot change hands and back to free, or be given to a
third process, at any place of the four copies of two attempts; a fourth would repeat
one of these. The fleets of `Startup` have cards with two chips, chips with two logical
devices, vNPUs of one type, of two and of an unknown one, more vNPUs than allowed, and
template files with every outcome of the parser; both gates and a node with and
without a checkpoint and an installed release are initial states. One fault is enough
because a start that failed is a start from scratch: only `target`, `stage`, `shared`,
`saved` and `classes` outlive it.

Properties, beside one type invariant per module:

* `SlicesDistinct`, `FullCardExclusive`, `IdleCardIsWhole`, `ReleaseIsLocal`: see
  `VNPUSlices`; they hold for any caller, whatever names it asks for.
* `TokensFollowCheckpoint`: memory differs from the checkpoint only for the claim
  whose entry was written or removed an instant ago.
* `PreparedHasFiles`: a claim in the checkpoint has its CDI spec, unless Unprepare has
  begun, and its directory.
* `TokensAreLifetimes`: refinement of `ClaimLifetimes!Spec`.
* `UnprepareCompletes`: an Unprepare that has begun is finished.
* `SpecMatchesSlice`: a vNPU spec in a container's CDI spec is that of a slice the
  manager has in use.
* `WholeCardClaimAlone`: of a card that was given whole, the manager has one slice, the
  claim's, unless it lost track of the card (`stray`: a failed Prepare leaked its slices
  or a restart forgot them; see below). It speaks of the manager's slices and not of
  the names other claims were given: such a name may be stale (see below).
* `PreparedStaysListed`: a slice in use by a prepared claim stays allocatable.
* `PublishCatchesUp`: while RPCs keep coming, the published list becomes current.
* `EndedNotShown`: a scrape that starts after Unprepare has ended a lifetime shows
  nothing of it, however old the observation is that it copied.
* `MemoryOfLifetime`: memory that is shown is of the lifetime whose token vouches for
  it, although the file is found by Claim UID and read without the lock. (Unprepare
  removes the directory before it gives the lock back; that is what it rests on, and a
  directory that could not be removed, `left`, is the exception.)
* `NoDuplicateSeries`: no two samples of an answer have the same labels.
* `FreshWhenShown`: no value and no owner is shown that was read more than `MaxAge`
  before the scrape. `ReadyIsShown`: the counts of an answer agree with its samples.
* `RefreshesGoOn`, `CloseEnds`: a blocked hardware query stops neither.
* `ConfigPrecedence`: in traditional mode the sharing of a device is that of the
  configuration with precedence, defined apart from the code as a relation between
  positions (`Beats`), and a claim is refused only for a configuration that decides.
* `SupportedSeesAll`, `QuotaReadBack`: a core-mode claim that the monitor takes for
  supported sees all its devices, and the monitor's quota is what was allocated.
* `UsageOfHolder`: a usage that is accepted was copied while the process it is counted
  for held the slot. It rests on the comparison of the pids: a pid that is the same in
  both copies was there all the time between. `LimitIsQuota`: the quota is copied first and set
  first, the flag copied last and set last, so one attempt may see a flag without a
  quota; the second copy refutes it. `SumIsExact`: no sum wraps, and none is refused
  that fits.
* `InstalledIdentical`, `NeverOverwritten`: an installer that succeeds leaves the files
  of its own image, all of them, and no directory that is there changes, whoever races,
  is killed or goes on after a signal.
* `SharedBeforeServed`: in core mode no device is offered on a chip without
  device-share. `ListsAllOrNothing`: a node offers every card with a known type or
  none, whichever query fails.
* `FinishedNodeServed`: a node whose job met no failure but lost races finds its
  classes as it wants them; templates that share a size are left out (see below).
  `RightClassesStay`: a class that is as all nodes want it is not written again.
* `NodesComeUp`: a node with a valid machine comes up and stays up.

Fairness: in `FairStateSpec` the process is restarted (DaemonSet), a call that began
goes on (`WF` of `Continue`: one goroutine with the lock), and kubelet repeats an
Unprepare it has begun (`SF`, because other calls come in between). In
`FairDriverSpec` startup proceeds, `MainSync` gets the lock in the end (`SF`: a Go
mutex does not starve a waiter) and an RPC is served. No fairness is assumed of
kubelet's RPCs or of the health probe, which is off by default: `PublishCatchesUp`
says "if RPCs keep coming" instead. In `FairSpec` of `Monitor` time passes, the
goroutines run, Unprepare gives the lock back, and `Snapshot` gets it (`SF`, the same
property of Go's mutex). `HostReturns` has no fairness: a query may block for ever.
In `FairStartupSpec` an installer and a plugin proceed, and kubelet starts again what
has failed or ended (`StartInstall`, `StartPlugin`); failures, signals and crashes have
none.

Violation runs, each a finding of `PROJECT.json`:

| Run | What the code does |
|---|---|
| `RestartForgets` | a restart frees the slices of prepared claims |
| `VNPUSlicesLost` | a card given back after its name was pruned can no longer be requested |
| `ClaimTemplate` | the template of a slice is that of the configuration with the lowest precedence, of whichever request |

Other things that go wrong in the models, at lines that `PROJECT.json` lists under
"hazards", and that no run states:

* an Unprepare that fails at the checkpoint has removed the CDI spec; a Prepare that
  follows answers from the checkpoint without it;
* a crash between CDI spec and checkpoint leaves a spec that Unprepare does not remove;
* a rejected configuration leaks the slices that were cut for the claim, and a
  whole-card claim can then be prepared beside another claim on the card;
* a failed `AllocateSlice` is only logged, and the claim is prepared if its name is
  still listed. In one Prepare RPC a rollback may give the free slice another name, which
  the list has until the RPC prunes it: a later claim of the RPC that holds the old name
  is prepared without a slice. When the card is whole again, another claim gets all of
  it, and two prepared claims name the same card, one of them with nothing cut for it;
* the slice cut from `npu-X-0` keeps that name and gets no `ASCEND_VNPU_SPECS`;
* startup can publish its older list after that of an RPC (the next RPC repairs it);
* an observation can join a Claim's new lifetime with the pod of the one before, until
  the ownership is older than `MaxAge`;
* a core-mode device that comes twice in a claim loses its edits to empty ones, and
  `SupportedSeesAll` and `QuotaReadBack` are restricted to claims of different devices;
* in traditional mode a claim of two devices sees the last one only, because the edits
  of all are merged into one CDI device;
* templates that have the same memory (or AICOREs) and differ in the other share the
  name of a device class, and their classes overwrite each other, in the order of a Go map;
* a card with vNPUs of several types is listed with the last type, but the vNPU manager
  and so its device classes have the first one, which selects nothing;
* an error of `GetChipInfo` is swallowed: the node comes up with no devices and no error;
* a signal that the installer handles does not end it: it runs on without its stage, and
  the next `cp` or `mv` fails;
* a template file whose rule follows the header directly yields no templates.

`CHECK_DEADLOCK` is off in the runs of `Monitor`, whose clock is bounded and whose
goroutines end after Close, in those of `ClaimConfigs`, where a Prepare ends, and in
`Startup`, where nodes that are up have nothing left to do; it is on in the others.

## Proofs

`VNPUSlicesProofs` proves, for all sets of cards and templates and every `MaxIndex`,
from `TemplatesAssumption` and `MaxIndexAssumption` alone, that `Spec` implies
`[]TypeOK`, `[]SlicesDistinct`, `[]FullCardExclusive`, `[]IdleCardIsWhole` and
`ReleaseIsLocal`.

The safety properties are not inductive one by one: that names stay distinct needs
that every index in use is below `next`; that an idle card is whole needs that an NPU
slice is alone; and a restart of the index is safe only because the card is empty
then. `CardSafe(c, npu)` is their conjunction for one card, together with the facts
that a slice of type NPU is alone on a card that supports every template and that at
most one slice of a card is free. `StepShape` reduces every action to "one card takes a `CardStep`, the
others do not change"; `CardSafeStep` does the case analysis once for a card;
`SafeStep` and `Inductive` lift it. The properties follow from `IInv`, the conjunction
of `TypeOK` and `CardSafe` on all cards, and `ReleaseIsLocal` follows from `StepShape`
and the distinct names.

`DeviceStateProofs` proves, for any claims, cards, templates, failures and both modes,
from `DeviceStateAssumption` (what a claim, an allocation and a spec may be, and that
`None` is none of them) and those of the manager, that `StateSpec` implies
`[]StateTypeOK`, `[]TokensFollowCheckpoint`, `[]PreparedHasFiles` and
`TokensAreLifetimes`. `PreparedHasFiles` is not inductive: that a written checkpoint
has a spec and a directory must be known of the call that is about to write it, and
that a spec that goes belongs to a claim kubelet has begun to unprepare of the call
about to remove it. `CallInv` says both, step by step; `MemoryInv` adds that a process
that is down remembers nothing, and `Maps` what the maps are indexed by. `StateInv` is
their conjunction with the three properties. One lemma per part (`MemoryStep`,
`CallInvStep`, `FilesStep`, `FileTypesStep`, ...) goes through the actions; what a call
does to the manager is a step of the manager (`CallStepsSlices`), so `TypeOK` and
`IInv` of `VNPUSlicesProofs` carry over. For the refinement, `TokensFollowCheckpoint`
says that memory and checkpoint disagree about one claim at most, so a call of
`setPreparedClaims` is no step, or one `Begin` or one `End` of `ClaimLifetimes`
(`TokensStep`); a crash is its `Restart`, and the start of a process begins the
lifetimes of all claims of the checkpoint at once (`RestartTokens`).

`SpecsMatch` is `[]SpecMatchesSlice` for a process that does not die (`RestartForgets`
shows what a restart does).
A slice in use leaves the manager only when its own name is released
(`OthersStayInUse`), so it is enough to know who owns which names: `OwnInv` says that a
call allocates and releases only names of its own claim's allocation and that no two
allocations share a name, `SpecInv` that what a spec names is owned and in use, from
the moment at which the spec is written.

`DriverProofs` proves, of the whole process (`DriverSpec`) and from the assumptions of
`DeviceState` and `RpcAssumption`, `[]DriverTypeOK`, `[]PreparedStaysListed` and
`[]WholeCardClaimAlone`, and carries `[]TokensFollowCheckpoint`, `[]PreparedHasFiles` and
`TokensAreLifetimes` over. What a step of the process does to `DeviceState` is a step of
a call, the start or the end of the process, or nothing but the count of failures
(`StepMoves`, `StateMove`), so the invariants of `DeviceState` are kept (`MoveInductive`)
and so are those of the manager (`ManagerMove`).

`PreparedStaysListed` needs `ListedInv`: what a call has cut and not yet written to the
checkpoint is listed too. The rest is that releases and prunings take other names than
those in use (`OthersStayInUse`, `OwnInv`).
`WholeCardClaimAlone` is far from inductive, because the scheduler decides by a name in
a list that was published at any time before. `CardsInv` says what makes that harmless:
whoever has a slice in use of a card not in `stray` is a prepared claim or the call under
way (`HeldInv`); the name of a whole card is listed without such a slice only inside the
RPC that released it, and no claim of a Prepare RPC still waits for it (`StaleInv`); a
card that is free under that name is whole (`FreeInv`); so a claim without a template
really gets a slice of type NPU and keeps it until it is unprepared (`WholeInv`).
`RpcInv` ties the steps of a call to the RPC it is in. Trying to prove the property as it
was stated first, about the names of other claims, led to the sequence under "Other
things that go wrong"; the bounds of the run do not reach it. The proof also gave the assumption
that in traditional mode one claim at most is of an earlier release: in the model each
of them would hold the same cards.

`MonitorProofs` proves all six invariants of `Monitor` from `ConfigAssumption` alone,
for any claims, pods, clocks and interleavings.

* `[]EndedNotShown`: the property speaks of an observation that was made at any time
  before, but the argument needs only the scrape itself: tokens are numbered upwards
  (`TokensKnown`), so one that had ended when the scrape began is no Claim's token from
  then on and no token that the scrape has read (`EndedStayEnded`).
* `[]MonitorTypeOK` needs that every lifetime so far has a pod (`RanKnown`), and that
  what a snapshot joins is typed (`SnapshotTypes`).
* `[]FreshWhenShown`: `StampsInv`. Stamps are honest in every place an observation can
  be (`Observations`: under construction, current, copied by a scrape): the stamp is the
  time of the reading, or earlier for memory.
* `[]ReadyIsShown`: an observation has domains of prepared claims only, so token 0, the
  answer for an unknown claim, matches none (`PreparedInv`).
* `[]NoDuplicateSeries`: of the domains with the same pod and card one at most is to be
  read or was read (`LabelsInv`), because the ambiguity is decided before the first read.
* `[]MemoryOfLifetime` rests on the files: one that is there is of its claim's lifetime
  or of one whose directory could not be removed, except while Unprepare is between its
  two steps (`FilesInv`). Memory in an observation is then of the observed token whenever
  that token is the claim's now (`MemoryInv`), and of the token a scrape has read, since
  the file goes before the lock is given back.

`ShmemReadProofs` proves `[]UsageOfHolder`, `[]LimitIsQuota`, `[]SumIsExact` and
`[]ShmemTypeOK` for any number of slots, pids and stores, from `ShmemAssumption` (the
sign bit is not the lowest bit of a pid, or the flag 1 would be negative).
A pid that has been copied is in the
file still or has left its slot (`PidKnown`), so has it when the usage is copied
(`HolderKnown`), and one that has left is not in the file (`LeftIsGone`): a pid that is
found again was there all the time (`Verified`). `HeadInv` is the same for the two
fields of the head, and needs the order in which the runtime stores them: the flag that
was copied first tells that the quota is there for the second copy. `SumIsExact` compares
two recursive functions, the loop and the sum. `TotalIsLoop` gives the sum its recursion,
and `SumFits` goes through the loop beside it, by induction over the slots: as long as the
loop has not stopped it has the sum so far, and where it stops the whole does not fit.

`StartupProofs` proves, for any nodes, Pods, machines and failures, from the
assumptions of `Fleet`, `CoreAssets` and `Discovery` (an image has a file; a machine's
devices are a sequence), `[]InstalledIdentical`, `NeverOverwritten`,
`[]SharedBeforeServed`, `[]ListsAllOrNothing` and `[]StartupTypeOK` (with
`DeviceClassesAssumption` for the classes; its parts are `InstallerTypes`, `VersionTypes`,
`NodeTypes` and `JobTypes`). For the installers the step to prove
is that the stage is whole when it is renamed, although signals and failed commands
come between (`StageFilled`). For discovery, `NodeInv` says of every node how far it
is: the chips without device-share are those still to be called for (`ChipsShared`),
the devices found are those of the turns so far, each known one with a model
(`DevicesFound`), those listed are all or none (`DevicesListed`). `JobInv` says that a
job of a node runs only while its process does. A node's steps leave the others'
parts alone (`NodeUnaffected`), so each lemma is about one node.

`DeviceClassesProofs` adds the API server, where nodes do disturb each other, with
`DeviceClassesAssumption` (resource versions start above 0 and are in their bound).
`RightClassesStay` rests on `ReadIsCurrent`: what a node has read of a class is what it did not want, or another
node has written the class since, and then its write is refused. `FinishedNodeServed` rests
on `SeenTo`: what a clean job wants, and all nodes agree on, is in the server already
or still on its list. Both survive the other nodes because a class only moves by one
version from one wish to another (`AllMove`).

`ClaimConfigsProofs` proves the four invariants of `ClaimConfigs` for claims of any size,
from `ClaimConfigsAssumption` (an absent value is neither a number nor a quota). The
steps go through the groups of the claim, so `IInv` says of every step which groups are
behind it: `ConfigsInv` (the configurations are those of the claim in order, or the
claim was refused and why), `TodoInv`, `EditsInv` (a group that was applied was valid, and
its edits are still there if no device comes twice), `PreparedInv` (a group that was
collected is in the list). `ConfigPrecedence` is about choice, and its heart is about
operators and not about steps: `DecodedAscends` shows that the list is in ascending
precedence in the sense of `Beats`, `PickedRight` that the last one that applies is
therefore the only `Winner`. For core mode `GroupEdits` shows that one device of a group
has the edits of all of the group and the others have none, `GroupsSeeTheirOwn` that
different groups have different visible devices, and `EnvIs` that the monitor finds
exactly the values of the groups; one visible value then means one group, and the
container sees it all. `InOrderEnumerates`, `Greatest` and `Least` are the facts about
finite sets of positions they use.

Finding these proofs changed the models: `ClaimLifetimes` let a step begin no lifetime
and hand out tokens all the same (an operator precedence that no run had noticed);
`WholeCardClaimAlone` was about names (see above); `ClaimConfigs` filters lists by
`InOrder` instead of `SelectSeq`, of which the provers know nothing; and some assumptions
on constants were not written down (in `Monitor` pods are finitely many, and `NoPod`
is none).

Every invariant and every safety action property of the passing runs, and the refinement,
is a theorem. Only model-checked are the five liveness properties (`UnprepareCompletes`,
`PublishCatchesUp`, `RefreshesGoOn`, `CloseEnds`, `NodesComeUp`), because fairness is out of
reach of the provers installed here, and the violations. Induction over data is possible
for a fact that can be put as a set of numbers (`NatInductive`, from the least element of
its complement); the theorems of the library that take an operator are not usable.

## Not modelled

The contents of device records (UUID, capacities), checkpoint encoding, command line,
logging, the hardware tester and the manifests are I/O or text with no behaviour of
their own; a checkpoint is written atomically, as the library renames it. Shutdown and
`HandleError` end the process, which a crash covers. In `DeviceState` a claim has one
template; how it is found is in `ClaimConfigs`. The mode without a vNPU manager (its
loading failed) is core mode without directories and is not run separately after
startup. In `Startup` the checks of the image before line 17 of the script are left
out: they compare constants of the image.

## Plan

1. Done: vNPU manager with proofs, DeviceState, Driver, Monitor, ClaimConfigs,
   ShmemRead, and the startup of the nodes.
2. Done: theorems for every safety property the passing runs check.
3. Left: `DeviceState` as the composition with `ClaimConfigs` in place of the one value
   for a claim's configuration, and a proof that `Monitor`'s environment, the calls seen
   from outside the lock, is what `DeviceState` does.
