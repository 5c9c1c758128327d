---------------------------- MODULE StartupProofs ----------------------------
(***************************************************************************)
(* What holds of the installers and of the discovery, for any nodes, Pods, *)
(* images, machines and failures, and the types of the whole startup.      *)
(***************************************************************************)
EXTENDS Startup, TLAPS

-----------------------------------------------------------------------------
(* The installers.  A stage is whole when it is moved (StageFilled), so    *)
(* every directory is the whole image of the Pod that made it.             *)

StageFilled(p) ==
  /\ inst[p] = "copy" => stage[p] \in {None} \cup 0 .. Files - 1
  /\ inst[p] = "move" => stage[p] \in {None, Files}

AssetsInv ==
  /\ DOMAIN inst = Pods /\ DOMAIN stage = Pods /\ DOMAIN target = Nodes
  /\ \A p \in Pods : StageFilled(p)
  /\ InstalledIdentical

(* A node's directory, once there, is there to stay.                       *)
Kept == \A n \in Nodes : target[n] # None => target'[n] = target[n]

LEMMA WholeIsThere == \A p \in Pods : NodeOf[p] \in Nodes /\ WholeImage(p) # None
  BY CoreAssetsAssumption DEF WholeImage

LEMMA AssetsInitHolds == AssetsInit => AssetsInv
  BY DEF AssetsInit, AssetsInv, StageFilled, InstalledIdentical

(* Installers that are done stay right as long as directories stay.        *)
LEMMA OtherPodsKeep ==
  ASSUME AssetsInv, NEW p \in Pods, Kept, DOMAIN target' = Nodes,
         DOMAIN inst' = Pods, DOMAIN stage' = Pods,
         \A q \in Pods \ {p} : inst'[q] = inst[q] /\ stage'[q] = stage[q],
         StageFilled(p)', inst'[p] = "done" => Target(p)' = WholeImage(p)
  PROVE  AssetsInv'
<1>1. \A q \in Pods : StageFilled(q)'
  BY DEF AssetsInv, StageFilled
<1>2. \A q \in Pods \ {p} : inst'[q] = "done" => Target(q)' = WholeImage(q)
  BY WholeIsThere DEF AssetsInv, InstalledIdentical, Target, Kept
<1>3. InstalledIdentical'
  BY <1>2 DEF InstalledIdentical, Target, WholeImage
<1> QED BY <1>1, <1>3 DEF AssetsInv

LEMMA InstallerStep ==
  ASSUME AssetsInv, NEW p \in Pods, InstallStep(p) \/ HandleSignal(p) \/ KillInstaller(p)
  PROVE  AssetsInv' /\ Kept
<1>1. /\ NodeOf[p] \in Nodes /\ Files \in Nat \ {0} /\ StageFilled(p)
      /\ DOMAIN inst = Pods /\ DOMAIN stage = Pods /\ DOMAIN target = Nodes
  BY CoreAssetsAssumption DEF AssetsInv
<1>2. CASE StartInstall(p)
  <2>1. Kept /\ DOMAIN target' = Nodes /\ inst'[p] # "done"
    BY <1>1, <1>2 DEF StartInstall, InstallerGoesTo, Kept
  <2>2. StageFilled(p)'
    BY <1>1, <1>2 DEF StartInstall, InstallerGoesTo, StageFilled
  <2> QED BY <1>1, <1>2, <2>1, <2>2, OtherPodsKeep DEF StartInstall, InstallerGoesTo
<1>3. CASE CopyAsset(p)
  <2>1. Kept /\ DOMAIN target' = Nodes /\ inst'[p] # "done"
    BY <1>1, <1>3 DEF CopyAsset, InstallerGoesTo, Kept
  <2>2. StageFilled(p)'
    BY <1>1, <1>3 DEF CopyAsset, InstallerGoesTo, StageFilled
  <2> QED BY <1>1, <1>3, <2>1, <2>2, OtherPodsKeep DEF CopyAsset, InstallerGoesTo
<1>4. CASE Move(p)
  <2>1. CASE stage[p] # None /\ Target(p) = None
    <3>1. stage[p] = Files
      BY <1>1, <1>4, <2>1 DEF Move, StageFilled
    <3>2. /\ target' = [target EXCEPT ![NodeOf[p]] = WholeImage(p)]
          /\ InstallerEnds(p, "done")
      BY <1>4, <2>1, <3>1 DEF Move, WholeImage
    <3>3. Kept /\ DOMAIN target' = Nodes /\ Target(p)' = WholeImage(p)
      BY <1>1, <2>1, <3>2 DEF Kept, Target
    <3>4. StageFilled(p)'
      BY <1>1, <3>2 DEF InstallerEnds, StageFilled
    <3> QED BY <1>1, <3>2, <3>3, <3>4, OtherPodsKeep DEF InstallerEnds
  <2>2. CASE ~ (stage[p] # None /\ Target(p) = None)
    <3>1. InstallerGoesTo(p, "verify") /\ UNCHANGED <<target, stage>>
      BY <1>4, <2>2 DEF Move
    <3>2. Kept /\ DOMAIN target' = Nodes /\ inst'[p] # "done" /\ StageFilled(p)'
      BY <1>1, <3>1 DEF InstallerGoesTo, Kept, StageFilled
    <3> QED BY <1>1, <3>1, <3>2, OtherPodsKeep DEF InstallerGoesTo
  <2> QED BY <2>1, <2>2
<1>5. CASE Verify(p)
  <2>1. Kept /\ DOMAIN target' = Nodes
    BY <1>1, <1>5 DEF Verify, Kept
  <2>2. StageFilled(p)' /\ (inst'[p] = "done" => Target(p)' = WholeImage(p))
    BY <1>1, <1>5 DEF Verify, InstallerEnds, StageFilled, Target
  <2> QED BY <1>1, <1>5, <2>1, <2>2, OtherPodsKeep DEF Verify, InstallerEnds
<1>6. CASE CopyFails(p)
  <2>1. Kept /\ DOMAIN target' = Nodes /\ inst'[p] # "done" /\ StageFilled(p)'
    BY <1>1, <1>6 DEF CopyFails, InstallerEnds, Kept, StageFilled
  <2> QED BY <1>1, <1>6, <2>1, OtherPodsKeep DEF CopyFails, InstallerEnds
<1>7. CASE HandleSignal(p)
  <2>1. Kept /\ DOMAIN target' = Nodes /\ inst'[p] # "done" /\ StageFilled(p)'
    BY <1>1, <1>7 DEF HandleSignal, Running, Kept, StageFilled
  <2> QED BY <1>1, <1>7, <2>1, OtherPodsKeep DEF HandleSignal
<1>8. CASE KillInstaller(p)
  <2>1. Kept /\ DOMAIN target' = Nodes /\ inst'[p] # "done" /\ StageFilled(p)'
    BY <1>1, <1>8 DEF KillInstaller, InstallerGoesTo, Kept, StageFilled
  <2> QED BY <1>1, <1>8, <2>1, OtherPodsKeep DEF KillInstaller, InstallerGoesTo
<1> QED BY <1>2, <1>3, <1>4, <1>5, <1>6, <1>7, <1>8 DEF InstallStep

LEMMA AssetsStep == AssetsInv /\ [StartupNext]_startupVars => AssetsInv' /\ Kept
<1> SUFFICES ASSUME AssetsInv, [StartupNext]_startupVars PROVE AssetsInv' /\ Kept
  OBVIOUS
<1>1. ASSUME NEW p \in Pods, Install(p) \/ InstallerStopped(p) PROVE AssetsInv' /\ Kept
  BY <1>1, InstallerStep DEF Install, InstallerStopped
<1>2. ASSUME UNCHANGED assetVars PROVE AssetsInv' /\ Kept
  BY <1>2 DEF assetVars, AssetsInv, Kept, StageFilled, InstalledIdentical, Target, WholeImage
<1>3. ASSUME NEW n \in Nodes, PluginRuns(n) \/ PluginEnds(n) PROVE UNCHANGED assetVars
  BY <1>3 DEF PluginRuns, StartPlugin, Discover, CreateClasses, PluginEnds
<1>4. CASE UNCHANGED startupVars
  BY <1>4, <1>2 DEF startupVars
<1> QED BY <1>1, <1>2, <1>3, <1>4 DEF StartupNext

(* A Pod whose installer is done has the files of its image on its node,   *)
(* all of them, however many installers race, fail or are killed.          *)
THEOREM InstalledIsWhole == StartupSpec => []InstalledIdentical
<1>1. StartupInit => AssetsInv
  BY AssetsInitHolds DEF StartupInit
<1>2. AssetsInv => InstalledIdentical
  BY DEF AssetsInv
<1> QED BY <1>1, <1>2, AssetsStep, PTL DEF StartupSpec

(* No installer changes a release directory that is there.                 *)
THEOREM DirectoriesStay == StartupSpec => NeverOverwritten
<1>1. StartupInit => AssetsInv
  BY AssetsInitHolds DEF StartupInit
<1>2. Kept => [\A n \in Nodes : target[n] # None => target'[n] = target[n]]_assetVars
  BY DEF Kept
<1> QED BY <1>1, <1>2, AssetsStep, PTL DEF StartupSpec, NeverOverwritten

-----------------------------------------------------------------------------
(* Discovery.  For each node: the chips without device-share are those     *)
(* still to be called for (ChipsShared), the devices found are those of    *)
(* the turns so far (DevicesFound), those listed are all or none           *)
(* (DevicesListed), and the manager has models the hardware has            *)
(* (ManagerFilled).                                                        *)

ChipsShared(n) ==
  core =>
    /\ phase[n] = "share" => PhysicalChips(n) \subseteq shared[n] \cup toShare[n]
    /\ phase[n] \in {"scan", "files", "classes", "up"} => PhysicalChips(n) \subseteq shared[n]

Pairs(n) == {<<>>} \cup {<<a, b>> : a, b \in EveryModel(n)}

Count(n) == Len(Devices(n))

DevicesFound(n) ==
  /\ phase[n] \in {"off", "start", "share"} => found[n] = <<>>
  /\ phase[n] = "scan" =>
       /\ at[n] \in 1 .. Count(n) + 1
       /\ found[n] \in Seq(Pairs(n))
       /\ Len(found[n]) = at[n] - 1 \/ (found[n] = <<>> /\ at[n] = Count(n) + 1)
       /\ \A l \in DOMAIN found[n] : HasKnownType(n, l) => found[n][l] # <<>>

DevicesListed(n) ==
  phase[n] \in {"files", "classes", "up"} =>
    /\ DOMAIN listed[n] \subseteq DOMAIN Devices(n)
    /\ \/ DOMAIN listed[n] = {}
       \/ \A l \in DOMAIN Devices(n) : HasKnownType(n, l) => l \in DOMAIN listed[n]

ManagerFilled(n) ==
  manager[n] # None =>
    /\ Templates(n) # None
    /\ manager[n] = [templates |-> Templates(n), models |-> manager[n].models]
    /\ \A l \in DOMAIN manager[n].models : manager[n].models[l] \in EveryModel(n)

Domains ==
  /\ DOMAIN shared = Nodes /\ DOMAIN phase = Nodes /\ DOMAIN toShare = Nodes
  /\ DOMAIN at = Nodes /\ DOMAIN found = Nodes /\ DOMAIN listed = Nodes
  /\ DOMAIN manager = Nodes /\ DOMAIN chipType = Nodes

NodeInv(n) == ChipsShared(n) /\ DevicesFound(n) /\ DevicesListed(n) /\ ManagerFilled(n)

DiscoveryInv == hw \in Fleets /\ Domains /\ \A n \in Nodes : NodeInv(n)

(* What a node knows of itself is in its own part of the state.            *)
OwnPart(n) ==
  <<shared[n], phase[n], toShare[n], at[n], found[n], listed[n], manager[n]>>

LEMMA DevicesAreSeq ==
  ASSUME hw \in Fleets, NEW n \in Nodes
  PROVE  Count(n) \in Nat /\ DOMAIN Devices(n) = 1 .. Count(n)
  BY DiscoveryAssumption DEF Devices, Count

LEMMA SameMachine ==
  ASSUME UNCHANGED hw, NEW n \in Nodes
  PROVE  /\ Machine(n)' = Machine(n) /\ Devices(n)' = Devices(n) /\ Count(n)' = Count(n)
         /\ Templates(n)' = Templates(n) /\ EveryModel(n)' = EveryModel(n)
         /\ PhysicalChips(n)' = PhysicalChips(n) /\ Pairs(n)' = Pairs(n)
         /\ \A l : HasKnownType(n, l)' <=> HasKnownType(n, l)
  BY DEF Machine, Devices, Count, Templates, EveryModel, PhysicalChips, Pairs, HasKnownType

LEMMA NodeUnaffected ==
  ASSUME NEW n \in Nodes, NodeInv(n), UNCHANGED <<core, hw>>, UNCHANGED OwnPart(n)
  PROVE  NodeInv(n)'
<1>1. /\ shared'[n] = shared[n] /\ phase'[n] = phase[n] /\ toShare'[n] = toShare[n]
      /\ at'[n] = at[n] /\ found'[n] = found[n] /\ listed'[n] = listed[n]
      /\ manager'[n] = manager[n] /\ core' = core
  BY DEF OwnPart
<1>2. ChipsShared(n)'
  BY <1>1, SameMachine DEF NodeInv, ChipsShared
<1>3. DevicesFound(n)'
  BY <1>1, SameMachine DEF NodeInv, DevicesFound
<1>4. DevicesListed(n)'
  BY <1>1, SameMachine DEF NodeInv, DevicesListed
<1>5. ManagerFilled(n)'
  BY <1>1, SameMachine DEF NodeInv, ManagerFilled
<1> QED BY <1>2, <1>3, <1>4, <1>5 DEF NodeInv

(* A step of node n leaves the other nodes' parts alone.                   *)
Only(n) ==
  /\ UNCHANGED <<core, hw>> /\ Domains'
  /\ \A m \in Nodes \ {n} : UNCHANGED OwnPart(m)

LEMMA NodeStep ==
  ASSUME DiscoveryInv, NEW n \in Nodes, Only(n), NodeInv(n)'
  PROVE  DiscoveryInv'
<1>1. \A m \in Nodes \ {n} : NodeInv(m)'
  BY NodeUnaffected DEF DiscoveryInv, Only
<1> QED BY <1>1 DEF DiscoveryInv, Only

LEMMA PluginExits ==
  ASSUME DiscoveryInv, NEW n \in Nodes, ExitPlugin(n), UNCHANGED <<core, hw>>,
         DOMAIN shared' = Nodes, \A m \in Nodes \ {n} : shared'[m] = shared[m]
  PROVE  DiscoveryInv'
<1>1. Only(n)
  BY DEF DiscoveryInv, Domains, ExitPlugin, Only, OwnPart
<1>2. /\ phase'[n] = "off" /\ found'[n] = <<>> /\ manager'[n] = None
  BY DEF DiscoveryInv, Domains, ExitPlugin
<1>3. NodeInv(n)'
  BY <1>2 DEF NodeInv, ChipsShared, DevicesFound, DevicesListed, ManagerFilled
<1> QED BY <1>1, <1>3, NodeStep

LEMMA ChipsListed ==
  ASSUME DiscoveryInv, NEW n \in Nodes, ListChips(n), UNCHANGED core
  PROVE  DiscoveryInv'
<1>1. CASE ExitPlugin(n)
  BY <1>1, PluginExits DEF ListChips, DiscoveryInv, Domains
<1>2. CASE ~ ExitPlugin(n)
  <2>1. /\ phase'[n] = "share" /\ toShare'[n] = PhysicalChips(n)
        /\ phase[n] = "start"
        /\ UNCHANGED <<hw, shared, saved, at, chipType, found, listed, manager>>
    BY <1>2 DEF ListChips, DiscoveryInv, Domains
  <2>2. Only(n)
    BY <1>2 DEF ListChips, DiscoveryInv, Domains, Only, OwnPart
  <2>3. ChipsShared(n)' /\ ManagerFilled(n)' /\ DevicesListed(n)' /\ DevicesFound(n)'
    BY <2>1, SameMachine
       DEF DiscoveryInv, NodeInv, ChipsShared, ManagerFilled, DevicesListed, DevicesFound
  <2> QED BY <2>2, <2>3, NodeStep DEF NodeInv
<1> QED BY <1>1, <1>2

LEMMA ChipShared ==
  ASSUME DiscoveryInv, NEW n \in Nodes, SetDeviceShare(n), UNCHANGED core
  PROVE  DiscoveryInv'
<1>1. PICK chip \in toShare[n] :
        LET with == [shared EXCEPT ![n] = @ \cup {chip}]
        IN \/ ExitPlugin(n) /\ shared' \in {shared, with}
           \/ /\ shared' = with /\ toShare' = [toShare EXCEPT ![n] = @ \ {chip}]
              /\ UNCHANGED <<phase, at, chipType, found, listed, manager>>
  BY DEF SetDeviceShare
<1>2. DOMAIN shared' = Nodes /\ \A m \in Nodes \ {n} : shared'[m] = shared[m]
  BY <1>1 DEF DiscoveryInv, Domains
<1>3. CASE ExitPlugin(n)
  BY <1>2, <1>3, PluginExits DEF SetDeviceShare
<1>4. CASE ~ ExitPlugin(n)
  <2>1. /\ shared'[n] = shared[n] \cup {chip} /\ toShare'[n] = toShare[n] \ {chip}
        /\ UNCHANGED <<hw, phase, at, chipType, found, listed, manager>>
        /\ phase[n] = "share"
    BY <1>1, <1>4 DEF SetDeviceShare, DiscoveryInv, Domains
  <2>2. Only(n)
    BY <1>1, <1>4, <2>1 DEF DiscoveryInv, Domains, Only, OwnPart
  <2>3. ChipsShared(n)' /\ ManagerFilled(n)' /\ DevicesListed(n)' /\ DevicesFound(n)'
    BY <2>1, SameMachine
       DEF DiscoveryInv, NodeInv, ChipsShared, ManagerFilled, DevicesListed, DevicesFound
  <2> QED BY <2>2, <2>3, NodeStep DEF NodeInv
<1> QED BY <1>3, <1>4

LEMMA ScanBegun ==
  ASSUME DiscoveryInv, NEW n \in Nodes, LoadTemplates(n) \/ BeginScan(n), UNCHANGED core
  PROVE  DiscoveryInv'
<1>1. /\ phase'[n] = "scan" /\ at'[n] = 1 /\ found'[n] = <<>>
      /\ UNCHANGED <<hw, shared, toShare, found, listed>>
  BY DEF LoadTemplates, BeginScan, DiscoveryInv, Domains, NodeInv, DevicesFound
<1>2. Only(n)
  BY DEF LoadTemplates, BeginScan, DiscoveryInv, Domains, Only, OwnPart
<1>3. ChipsShared(n)'
  BY <1>1, SameMachine DEF LoadTemplates, BeginScan, DiscoveryInv, NodeInv, ChipsShared
<1>4. DevicesFound(n)'
  <2>1. Count(n)' = Count(n) /\ Count(n) \in Nat
    BY <1>1, SameMachine, DevicesAreSeq DEF DiscoveryInv
  <2>2. <<>> \in Seq(Pairs(n)') /\ Len(<<>>) = 0 /\ DOMAIN <<>> = {}
    OBVIOUS
  <2> QED BY <1>1, <2>1, <2>2 DEF DevicesFound
<1>5. DevicesListed(n)'
  BY <1>1 DEF DevicesListed
<1>6. ManagerFilled(n)'
  <2>1. CASE LoadTemplates(n)
    <3>1. manager'[n] = IF Templates(n) = None THEN None ELSE NewManager(Templates(n))
      BY <2>1 DEF LoadTemplates, DiscoveryInv, Domains
    <3> QED BY <1>1, <3>1, SameMachine DEF ManagerFilled, NewManager, NoDevices
  <2>2. CASE BeginScan(n)
    BY <1>1, <2>2, SameMachine DEF BeginScan, DiscoveryInv, NodeInv, ManagerFilled
  <2> QED BY <2>1, <2>2
<1> QED BY <1>2, <1>3, <1>4, <1>5, <1>6, NodeStep DEF NodeInv

(* What a turn assembles is a pair of the machine's models, none only for  *)
(* a card without a known type.                                            *)
LEMMA AssembledPairs ==
  ASSUME NEW n \in Nodes, NEW l \in DOMAIN Devices(n)
  PROVE  /\ \A a \in AssemblePhyDevices(Machine(n).chip) : a \in Pairs(n) /\ a # <<>>
         /\ \A a \in AssembleVirtualDevices(Machine(n).chip, Devices(n)[l].vdevs) :
              a \in Pairs(n) /\ (Devices(n)[l].vdevs # <<>> /\ HasKnownType(n, l) => a # <<>>)
<1> DEFINE chip == Machine(n).chip
           vdevs == Devices(n)[l].vdevs
           known == {k \in DOMAIN vdevs : vdevs[k] \in TemplateTypes}
<1>1. \A a \in AssemblePhyDevices(chip) : a \in Pairs(n) /\ a # <<>>
  BY DEF AssemblePhyDevices, Pairs, EveryModel
<1>2. ASSUME NEW a \in AssembleVirtualDevices(chip, vdevs)
      PROVE  a \in Pairs(n) /\ (vdevs # <<>> /\ HasKnownType(n, l) => a # <<>>)
  <2>1. CASE known = {}
    <3>1. a = <<>>
      BY <1>2, <2>1 DEF AssembleVirtualDevices
    <3>2. vdevs # <<>> => ~ HasKnownType(n, l)
      BY <2>1 DEF HasKnownType
    <3> QED BY <3>1, <3>2 DEF Pairs
  <2>2. CASE known # {}
    <3>1. PICK i \in known, j \in known : a = << <<chip, vdevs[i]>>, <<chip, vdevs[j]>> >>
      BY <1>2, <2>2 DEF AssembleVirtualDevices
    <3>2. <<chip, vdevs[i]>> \in EveryModel(n) /\ <<chip, vdevs[j]>> \in EveryModel(n)
      BY DEF EveryModel
    <3>3. a \in Pairs(n)
      BY <3>1, <3>2 DEF Pairs
    <3>4. a # <<>>
      BY <3>1
    <3> QED BY <3>3, <3>4
  <2> QED BY <2>1, <2>2
<1> QED BY <1>1, <1>2

LEMMA TurnTaken ==
  ASSUME DiscoveryInv, NEW n \in Nodes, phase[n] = "scan", at[n] \in DOMAIN Devices(n),
         NEW a \in Pairs(n), HasKnownType(n, at[n]) => a # <<>>,
         found' = [found EXCEPT ![n] = Append(@, a)],
         at' = [at EXCEPT ![n] = @ + 1], DOMAIN chipType' = Nodes,
         UNCHANGED <<core, hw, shared, phase, toShare, listed, manager>>
  PROVE  DiscoveryInv'
<1>1. Only(n)
  BY DEF DiscoveryInv, Domains, Only, OwnPart
<1>2. /\ Count(n) \in Nat /\ at[n] \in 1 .. Count(n) /\ found[n] \in Seq(Pairs(n))
      /\ Len(found[n]) = at[n] - 1
      /\ \A l \in DOMAIN found[n] : HasKnownType(n, l) => found[n][l] # <<>>
  BY DevicesAreSeq DEF DiscoveryInv, NodeInv, DevicesFound
<1>3. /\ found'[n] = Append(found[n], a) /\ at'[n] = at[n] + 1
  BY DEF DiscoveryInv, Domains
<1>4. DevicesFound(n)'
  <2>1. /\ found'[n] \in Seq(Pairs(n)) /\ Len(found'[n]) = at[n]
        /\ DOMAIN found'[n] = 1 .. at[n]
        /\ \A l \in 1 .. at[n] :
             found'[n][l] = IF l = at[n] THEN a ELSE found[n][l]
    BY <1>2, <1>3
  <2>2. \A l \in DOMAIN found'[n] : HasKnownType(n, l) => found'[n][l] # <<>>
    BY <1>2, <2>1
  <2> QED BY <1>2, <1>3, <2>1, <2>2, SameMachine DEF DevicesFound
<1>5. ChipsShared(n)' /\ DevicesListed(n)' /\ ManagerFilled(n)'
  BY SameMachine DEF DiscoveryInv, NodeInv, ChipsShared, DevicesListed, ManagerFilled
<1> QED BY <1>1, <1>4, <1>5, NodeStep DEF NodeInv

LEMMA TurnStep ==
  ASSUME DiscoveryInv, NEW n \in Nodes, ScanTurn(n), UNCHANGED core
  PROVE  DiscoveryInv'
<1> DEFINE vdevs == Devices(n)[at[n]].vdevs
           chip == Machine(n).chip
           Took(assembled) ==
             /\ \E a \in assembled : found' = [found EXCEPT ![n] = Append(@, a)]
             /\ at' = [at EXCEPT ![n] = @ + 1] /\ DOMAIN chipType' = Nodes
             /\ UNCHANGED <<phase, toShare, listed, manager>>
           GivesUp ==
             /\ found' = [found EXCEPT ![n] = <<>>]
             /\ at' = [at EXCEPT ![n] = Len(Devices(n)) + 1]
             /\ UNCHANGED <<phase, toShare, chipType, listed, manager>>
<1>1. /\ phase[n] = "scan" /\ at[n] \in DOMAIN Devices(n) /\ UNCHANGED <<hw, shared>>
      /\ \/ ExitPlugin(n)
         \/ GivesUp
         \/ Took(AssemblePhyDevices(chip))
         \/ vdevs # <<>> /\ Took(AssembleVirtualDevices(chip, vdevs))
  BY DEF ScanTurn, DiscoveryInv, Domains
<1>2. CASE ExitPlugin(n)
  BY <1>1, <1>2, PluginExits DEF DiscoveryInv, Domains
<1>3. CASE GivesUp
  <2>1. Only(n)
    BY <1>1, <1>3 DEF DiscoveryInv, Domains, Only, OwnPart
  <2>2. found'[n] = <<>> /\ at'[n] = Count(n) + 1 /\ Count(n) \in Nat
    BY <1>3, DevicesAreSeq DEF DiscoveryInv, Domains, Count
  <2>3. DevicesFound(n)'
    <3>1. <<>> \in Seq(Pairs(n)) /\ DOMAIN <<>> = {}
      OBVIOUS
    <3> QED BY <1>1, <2>2, <3>1, SameMachine DEF DevicesFound
  <2>4. ChipsShared(n)' /\ DevicesListed(n)' /\ ManagerFilled(n)'
    BY <1>1, <1>3, SameMachine
       DEF DiscoveryInv, NodeInv, ChipsShared, DevicesListed, ManagerFilled
  <2> QED BY <2>1, <2>3, <2>4, NodeStep DEF NodeInv
<1>4. CASE Took(AssemblePhyDevices(chip))
  <2>1. PICK a \in AssemblePhyDevices(chip) : found' = [found EXCEPT ![n] = Append(@, a)]
    BY <1>4
  <2>2. a \in Pairs(n) /\ a # <<>>
    BY <1>1, AssembledPairs
  <2> QED BY <1>1, <1>4, <2>1, <2>2, TurnTaken
<1>5. CASE vdevs # <<>> /\ Took(AssembleVirtualDevices(chip, vdevs))
  <2>1. PICK a \in AssembleVirtualDevices(chip, vdevs) :
          found' = [found EXCEPT ![n] = Append(@, a)]
    BY <1>5
  <2>2. a \in Pairs(n) /\ (HasKnownType(n, at[n]) => a # <<>>)
    BY <1>1, <1>5, AssembledPairs
  <2> QED BY <1>1, <1>5, <2>1, <2>2, TurnTaken
<1> QED BY <1>1, <1>2, <1>3, <1>4, <1>5

LEMMA ListStep ==
  ASSUME DiscoveryInv, NEW n \in Nodes, ListDevices(n), UNCHANGED core
  PROVE  DiscoveryInv'
<1> DEFINE logics == {l \in DOMAIN found[n] : found[n][l] # <<>>}
<1>1. /\ phase[n] = "scan" /\ phase'[n] = "files" /\ UNCHANGED <<hw, shared, toShare>>
      /\ listed'[n] = [l \in logics |-> found[n][l][2]]
      /\ manager'[n] = IF manager[n] = None THEN None
                       ELSE [manager[n] EXCEPT !.models = [l \in logics |-> found[n][l][1]]]
      /\ at[n] \notin DOMAIN Devices(n)
  BY DEF ListDevices, DiscoveryInv, Domains
<1>2. Only(n)
  BY DEF ListDevices, DiscoveryInv, Domains, Only, OwnPart
<1>3. /\ Count(n) \in Nat /\ DOMAIN Devices(n) = 1 .. Count(n) /\ at[n] = Count(n) + 1
      /\ found[n] \in Seq(Pairs(n)) /\ DOMAIN found[n] = 1 .. Len(found[n])
      /\ Len(found[n]) = Count(n) \/ (found[n] = <<>> /\ DOMAIN found[n] = {})
      /\ \A l \in DOMAIN found[n] : HasKnownType(n, l) => found[n][l] # <<>>
  BY <1>1, DevicesAreSeq DEF DiscoveryInv, NodeInv, DevicesFound
<1>4. DevicesListed(n)'
  <2>1. DOMAIN listed'[n] = logics /\ logics \subseteq DOMAIN Devices(n)
    BY <1>1, <1>3
  <2>2. DOMAIN found[n] = {} \/ \A l \in DOMAIN Devices(n) : HasKnownType(n, l) => l \in logics
    BY <1>3
  <2> QED BY <1>1, <2>1, <2>2, SameMachine DEF DevicesListed
<1>5. ManagerFilled(n)'
  <2>1. \A l \in logics : found[n][l][1] \in EveryModel(n)
    BY <1>3 DEF Pairs
  <2>2. CASE manager[n] = None
    BY <1>1, <2>2 DEF ManagerFilled
  <2>3. CASE manager[n] # None
    <3>1. Templates(n) # None
          /\ manager[n] = [templates |-> Templates(n), models |-> manager[n].models]
      BY <2>3 DEF DiscoveryInv, NodeInv, ManagerFilled
    <3>2. manager'[n] = [templates |-> Templates(n), models |-> [l \in logics |-> found[n][l][1]]]
      BY <1>1, <2>3, <3>1
    <3> QED BY <1>1, <2>1, <3>1, <3>2, SameMachine DEF ManagerFilled
  <2> QED BY <2>2, <2>3
<1>6. ChipsShared(n)' /\ DevicesFound(n)'
  BY <1>1, SameMachine DEF DiscoveryInv, NodeInv, ChipsShared, DevicesFound
<1> QED BY <1>2, <1>4, <1>5, <1>6, NodeStep DEF NodeInv

(* Steps that only go on to another phase keep what the node has.          *)
LEMMA PhaseMoves ==
  ASSUME DiscoveryInv, NEW n \in Nodes,
         UNCHANGED <<core, hw, shared, toShare, at, found, listed, manager>>,
         DOMAIN chipType' = Nodes, NEW to, phase' = [phase EXCEPT ![n] = to],
         \/ phase[n] = to
         \/ phase[n] \in {"files", "classes", "up"} /\ to \in {"classes", "up"}
         \/ phase[n] = "off" /\ to = "start"
  PROVE  DiscoveryInv'
<1>1. phase'[n] = to /\ Only(n)
  BY DEF DiscoveryInv, Domains, Only, OwnPart
<1>2. ChipsShared(n)' /\ DevicesFound(n)' /\ DevicesListed(n)' /\ ManagerFilled(n)'
  BY <1>1, SameMachine
     DEF DiscoveryInv, NodeInv, ChipsShared, DevicesFound, DevicesListed, ManagerFilled
<1> QED BY <1>1, <1>2, NodeStep DEF NodeInv

LEMMA FilesStep ==
  ASSUME DiscoveryInv, NEW n \in Nodes, OpenFiles(n), UNCHANGED core
  PROVE  DiscoveryInv'
<1>1. CASE ExitPlugin(n)
  BY <1>1, PluginExits DEF OpenFiles, DiscoveryInv, Domains
<1>2. CASE ~ ExitPlugin(n)
  <2>1. PICK to \in {"classes", "up"} : phase' = [phase EXCEPT ![n] = to]
    BY <1>2 DEF OpenFiles
  <2> QED BY <1>2, <2>1, PhaseMoves DEF OpenFiles, DiscoveryInv, Domains
<1> QED BY <1>1, <1>2

(* A job runs, or has ended, in a process that came up with a manager.     *)
JobWhileUp(n) ==
  job[n] # "off" => phase[n] \in {"classes", "up"} /\ manager[n] # None

JobInv ==
  /\ DOMAIN job = Nodes /\ DOMAIN phase = Nodes /\ DOMAIN manager = Nodes
  /\ \A n \in Nodes : JobWhileUp(n)

LEMMA JobInitHolds == StartupInit => JobInv
  BY DEF StartupInit, ClassesInit, DiscoveryInit, JobInv, JobWhileUp

LEMMA JobStep ==
  ASSUME JobInv, NEW n \in Nodes, DOMAIN job' = Nodes, DOMAIN phase' = Nodes,
         DOMAIN manager' = Nodes,
         \A m \in Nodes \ {n} :
           job'[m] = job[m] /\ phase'[m] = phase[m] /\ manager'[m] = manager[m],
         JobWhileUp(n)'
  PROVE  JobInv'
  BY DEF JobInv, JobWhileUp

(* A process that has not opened its files has no job.                     *)
LEMMA StepStartsLate ==
  ASSUME JobInv, NEW n \in Nodes, DiscoveryStep(n)
  PROVE  /\ job[n] = "off"
         /\ DOMAIN phase' = Nodes /\ DOMAIN manager' = Nodes
         /\ \A m \in Nodes \ {n} : phase'[m] = phase[m] /\ manager'[m] = manager[m]
<1>1. phase[n] \in {"start", "share", "scan", "files"}
  BY DEF DiscoveryStep, ListChips, SetDeviceShare, LoadTemplates, BeginScan, ScanTurn,
         ListDevices, OpenFiles
<1>2. job[n] = "off"
  BY <1>1 DEF JobInv, JobWhileUp
<1>3. ASSUME ExitPlugin(n)
      PROVE  /\ DOMAIN phase' = Nodes /\ DOMAIN manager' = Nodes
             /\ \A m \in Nodes \ {n} : phase'[m] = phase[m] /\ manager'[m] = manager[m]
  BY <1>3 DEF ExitPlugin, JobInv
<1> QED
  BY <1>2, <1>3 DEF DiscoveryStep, ListChips, SetDeviceShare, LoadTemplates, BeginScan,
                    ScanTurn, ListDevices, OpenFiles, JobInv

LEMMA ClassStepJob ==
  ASSUME JobInv, NEW n \in Nodes, ClassStep(n)
  PROVE  /\ job[n] \in {"snapshot", "upsert"} /\ DOMAIN job' = Nodes
         /\ \A m \in Nodes \ {n} : job'[m] = job[m]
  BY DEF ClassStep, TakeSnapshot, GetClass, PutClass, JobEnds, JobInv

LEMMA JobInductive == JobInv /\ [StartupNext]_startupVars => JobInv'
<1> SUFFICES ASSUME JobInv, [StartupNext]_startupVars PROVE JobInv'
  OBVIOUS
<1>1. ASSUME UNCHANGED <<job, phase, manager>> PROVE JobInv'
  BY <1>1 DEF JobInv, JobWhileUp
<1>2. ASSUME NEW p \in Pods, Install(p) \/ InstallerStopped(p) PROVE JobInv'
  BY <1>1, <1>2 DEF Install, InstallerStopped, discoveryVars, processVars, classVars
<1>3. ASSUME NEW n \in Nodes, StartPlugin(n) PROVE JobInv'
  <2>1. JobWhileUp(n)'
    BY <1>3 DEF StartPlugin, JobInv, JobWhileUp, classVars
  <2> QED BY <1>3, <2>1, JobStep DEF StartPlugin, JobInv, classVars
<1>4. ASSUME NEW n \in Nodes, Discover(n) PROVE JobInv'
  <2>1. DiscoveryStep(n)
    BY <1>4 DEF Discover
  <2>2. CASE phase'[n] \in {"classes", "up"} /\ manager'[n] # None
    <3>1. StartJob(n)
      BY <1>4, <2>2 DEF Discover
    <3>2. DOMAIN job' = Nodes /\ \A m \in Nodes \ {n} : job'[m] = job[m]
      BY <3>1 DEF StartJob, JobInv
    <3> QED BY <2>1, <2>2, <3>2, StepStartsLate, JobStep DEF JobWhileUp
  <2>3. CASE ~ (phase'[n] \in {"classes", "up"} /\ manager'[n] # None)
    <3>1. job' = job
      BY <1>4, <2>3 DEF Discover, classVars
    <3>2. JobWhileUp(n)' /\ DOMAIN job' = Nodes
      BY <2>1, <3>1, StepStartsLate DEF JobWhileUp, JobInv
    <3> QED BY <2>1, <3>1, <3>2, StepStartsLate, JobStep
  <2> QED BY <2>2, <2>3
<1>5. ASSUME NEW n \in Nodes, CreateClasses(n) PROVE JobInv'
  <2>1. /\ job[n] \in {"snapshot", "upsert"} /\ DOMAIN job' = Nodes
        /\ \A m \in Nodes \ {n} : job'[m] = job[m]
    BY <1>5, ClassStepJob DEF CreateClasses
  <2>2. /\ phase' = [phase EXCEPT ![n] = IF job'[n] = "done" THEN "up" ELSE @]
        /\ manager' = manager
    BY <1>5 DEF CreateClasses
  <2>3. JobWhileUp(n)'
    BY <2>1, <2>2 DEF JobInv, JobWhileUp
  <2> QED BY <2>1, <2>2, <2>3, JobStep DEF JobInv
<1>6. ASSUME NEW n \in Nodes, PluginEnds(n) PROVE JobInv'
  <2>1. JobWhileUp(n)'
    BY <1>6 DEF PluginEnds, LoseJob, JobInv, JobWhileUp
  <2> QED BY <1>6, <2>1, JobStep DEF PluginEnds, ExitPlugin, LoseJob, JobInv
<1> QED
  BY <1>1, <1>2, <1>3, <1>4, <1>5, <1>6
     DEF StartupNext, PluginRuns, startupVars, discoveryVars, processVars, classVars

LEMMA DiscoveryInitHolds == StartupInit => DiscoveryInv
  BY DEF StartupInit, DiscoveryInit, DiscoveryInv, Domains, NodeInv, ChipsShared,
     DevicesFound, DevicesListed, ManagerFilled

LEMMA DiscoveryInductive ==
  DiscoveryInv /\ JobInv /\ [StartupNext]_startupVars => DiscoveryInv'
<1> SUFFICES ASSUME DiscoveryInv, JobInv, [StartupNext]_startupVars PROVE DiscoveryInv'
  OBVIOUS
<1>1. ASSUME UNCHANGED <<core, discoveryVars>> PROVE DiscoveryInv'
  <2>1. \A n \in Nodes : NodeInv(n)'
    BY <1>1, NodeUnaffected DEF discoveryVars, processVars, DiscoveryInv, OwnPart
  <2> QED BY <1>1, <2>1 DEF discoveryVars, processVars, DiscoveryInv, Domains
<1>2. ASSUME NEW p \in Pods, Install(p) \/ InstallerStopped(p) PROVE DiscoveryInv'
  BY <1>1, <1>2 DEF Install, InstallerStopped
<1>3. ASSUME NEW n \in Nodes, StartPlugin(n) PROVE DiscoveryInv'
  BY <1>3, PhaseMoves DEF StartPlugin, DiscoveryInv, Domains
<1>4. ASSUME NEW n \in Nodes, Discover(n) PROVE DiscoveryInv'
  BY <1>4, ChipsListed, ChipShared, ScanBegun, TurnStep, ListStep, FilesStep
     DEF Discover, DiscoveryStep
<1>5. ASSUME NEW n \in Nodes, CreateClasses(n) PROVE DiscoveryInv'
  <2>1. phase[n] \in {"classes", "up"}
    BY <1>5, ClassStepJob DEF CreateClasses, JobInv, JobWhileUp
  <2>2. PICK to \in {phase[n], "up"} : phase' = [phase EXCEPT ![n] = to]
    BY <1>5 DEF CreateClasses
  <2> QED BY <1>5, <2>1, <2>2, PhaseMoves DEF CreateClasses, DiscoveryInv, Domains
<1>6. ASSUME NEW n \in Nodes, PluginEnds(n) PROVE DiscoveryInv'
  BY <1>6, PluginExits DEF PluginEnds, DiscoveryInv, Domains
<1> QED
  BY <1>1, <1>2, <1>3, <1>4, <1>5, <1>6 DEF StartupNext, PluginRuns, startupVars

LEMMA DiscoveryHolds == StartupSpec => [](DiscoveryInv /\ JobInv)
<1>1. StartupInit => DiscoveryInv /\ JobInv
  BY DiscoveryInitHolds, JobInitHolds
<1>2. DiscoveryInv /\ JobInv /\ [StartupNext]_startupVars => (DiscoveryInv /\ JobInv)'
  BY DiscoveryInductive, JobInductive
<1> QED BY <1>1, <1>2, PTL DEF StartupSpec

(* A node that serves in core mode has device-share on the chip of every   *)
(* device it lists, whatever failed or ended before.                       *)
THEOREM ServedIsShared == StartupSpec => []SharedBeforeServed
<1>1. DiscoveryInv => SharedBeforeServed
  BY DEF DiscoveryInv, NodeInv, ChipsShared, DevicesListed, SharedBeforeServed, Serves,
         PhysicalChips
<1> QED BY <1>1, DiscoveryHolds, PTL

(* A node that serves lists all of its cards of a known type, or none.     *)
THEOREM NoPartIsListed == StartupSpec => []ListsAllOrNothing
<1>1. DiscoveryInv => ListsAllOrNothing
  BY DEF DiscoveryInv, NodeInv, DevicesListed, ListsAllOrNothing, Serves
<1> QED BY <1>1, DiscoveryHolds, PTL

-----------------------------------------------------------------------------
(* The types.  Of a node: nothing is listed before the scan is over, the   *)
(* manager knows the devices listed, and a process that waits for its job  *)
(* has one that runs (NodeTypes).                                          *)

InstallerTypes ==
  /\ \A p \in Pods :
       /\ inst[p] \in {"off", "copy", "move", "verify", "done", "failed"}
       /\ stage[p] = None \/ stage[p] \in 0 .. Files
  /\ \A n \in Nodes : target[n] = None \/ target[n].files \in 0 .. Files

BeforeLists == {"off", "start", "share", "scan"}

NodeTypes(n) ==
  /\ phase[n] \in {"off", "start", "share", "scan", "files", "classes", "up"}
  /\ at[n] \in 0 .. Count(n) + 1
  /\ DOMAIN listed[n] \subseteq DOMAIN Devices(n)
  /\ phase[n] \in BeforeLists => DOMAIN listed[n] = {}
  /\ manager[n] = None \/ DOMAIN manager[n].models = DOMAIN listed[n]

JobTypes(n) ==
  /\ job[n] \in {"off", "snapshot", "upsert", "done"}
  /\ phase[n] = "classes" => job[n] \in {"snapshot", "upsert"}

VersionTypes == \A name \in DOMAIN classes : classes[name].version \in 1 .. MaxVersion

TypesInv ==
  /\ core \in BOOLEAN /\ faults \in 0 .. MaxFaults /\ saved \subseteq Nodes
  /\ InstallerTypes /\ VersionTypes
  /\ \A n \in Nodes : NodeTypes(n) /\ JobTypes(n)

LEMMA TypesInitHold == StartupInit => TypesInv
<1> SUFFICES ASSUME StartupInit PROVE TypesInv
  OBVIOUS
<1>1. core \in BOOLEAN /\ faults \in 0 .. MaxFaults /\ saved \subseteq Nodes
  BY FleetAssumption DEF StartupInit, DiscoveryInit
<1>2. InstallerTypes
  BY CoreAssetsAssumption DEF StartupInit, AssetsInit, InstallerTypes, WholeImage
<1>3. VersionTypes
  BY DeviceClassesAssumption DEF StartupInit, ClassesInit, VersionTypes
<1>4. ASSUME NEW n \in Nodes PROVE NodeTypes(n) /\ JobTypes(n)
  <2>1. Count(n) \in Nat
    BY DevicesAreSeq DEF StartupInit, DiscoveryInit
  <2> QED BY <2>1 DEF StartupInit, DiscoveryInit, ClassesInit, NodeTypes, JobTypes, NoDevices, BeforeLists
<1> QED BY <1>1, <1>2, <1>3, <1>4 DEF TypesInv

LEMMA InstallerTypesStep ==
  ASSUME AssetsInv, InstallerTypes, NEW p \in Pods, InstallStep(p) \/ HandleSignal(p) \/ KillInstaller(p)
  PROVE  InstallerTypes'
<1>1. /\ Files \in Nat \ {0} /\ NodeOf[p] \in Nodes /\ StageFilled(p)
      /\ DOMAIN inst = Pods /\ DOMAIN stage = Pods /\ DOMAIN target = Nodes
  BY CoreAssetsAssumption DEF AssetsInv
<1>2. ASSUME NEW i \in {"off", "copy", "move", "verify", "done", "failed"},
             NEW s, s = None \/ s \in 0 .. Files,
             inst' = [inst EXCEPT ![p] = i], stage' = [stage EXCEPT ![p] = s] \/ UNCHANGED stage,
             \A n \in Nodes : target'[n] = target[n] \/ target'[n].files \in 0 .. Files
      PROVE  InstallerTypes'
  BY <1>1, <1>2 DEF InstallerTypes
<1>3. CASE StartInstall(p)
  BY <1>1, <1>2, <1>3 DEF StartInstall, InstallerGoesTo
<1>4. CASE CopyAsset(p)
  <2>1. stage[p] + 1 \in 0 .. Files
    BY <1>1, <1>4 DEF CopyAsset, StageFilled
  <2>2. PICK i \in {"copy", "move"} : inst' = [inst EXCEPT ![p] = i]
    BY <1>4 DEF CopyAsset, InstallerGoesTo
  <2> QED BY <1>2, <1>4, <2>1, <2>2 DEF CopyAsset
<1>5. CASE Move(p)
  <2>1. stage[p] # None => stage[p] \in 0 .. Files
    BY DEF InstallerTypes
  <2>2. \A n \in Nodes : target'[n] = target[n] \/ target'[n].files \in 0 .. Files
    BY <1>1, <1>5, <2>1 DEF Move
  <2> QED BY <1>1, <1>2, <1>5, <2>2 DEF Move, InstallerGoesTo, InstallerEnds
<1>6. CASE Verify(p) \/ CopyFails(p)
  BY <1>1, <1>2, <1>6 DEF Verify, CopyFails, InstallerEnds
<1>7. CASE HandleSignal(p)
  BY <1>1, <1>7 DEF HandleSignal, InstallerTypes
<1>8. CASE KillInstaller(p)
  BY <1>1, <1>2, <1>8 DEF KillInstaller, InstallerGoesTo
<1> QED BY <1>3, <1>4, <1>5, <1>6, <1>7, <1>8 DEF InstallStep

LEMMA NodeTypesKept ==
  ASSUME NEW n \in Nodes, NodeTypes(n), UNCHANGED hw, UNCHANGED OwnPart(n)
  PROVE  NodeTypes(n)' /\ (JobTypes(n) /\ job'[n] = job[n] => JobTypes(n)')
  BY SameMachine DEF NodeTypes, JobTypes, OwnPart

(* A step of the discovery is one of its node only.                        *)
LEMMA OtherNodesKeep ==
  ASSUME Domains, NEW n \in Nodes, DiscoveryStep(n)
  PROVE  UNCHANGED hw /\ \A m \in Nodes \ {n} : UNCHANGED OwnPart(m)
<1>1. UNCHANGED hw
  BY DEF DiscoveryStep, ListChips, SetDeviceShare, LoadTemplates, BeginScan, ScanTurn, ListDevices,
         OpenFiles
<1>2. ASSUME NEW m \in Nodes \ {n} PROVE UNCHANGED OwnPart(m)
  <2>1. ExitPlugin(n) => /\ phase'[m] = phase[m] /\ toShare'[m] = toShare[m] /\ at'[m] = at[m]
                         /\ found'[m] = found[m] /\ listed'[m] = listed[m] /\ manager'[m] = manager[m]
    BY DEF Domains, ExitPlugin
  <2>2. CASE ListChips(n) \/ SetDeviceShare(n)
    BY <2>1, <2>2 DEF Domains, OwnPart, ListChips, SetDeviceShare
  <2>3. CASE LoadTemplates(n) \/ BeginScan(n)
    BY <2>1, <2>3 DEF Domains, OwnPart, LoadTemplates, BeginScan
  <2>4. CASE ScanTurn(n)
    BY <2>1, <2>4 DEF Domains, OwnPart, ScanTurn
  <2>5. CASE ListDevices(n) \/ OpenFiles(n)
    BY <2>1, <2>5 DEF Domains, OwnPart, ListDevices, OpenFiles
  <2> QED BY <2>2, <2>3, <2>4, <2>5 DEF DiscoveryStep
<1> QED BY <1>1, <1>2

LEMMA NodeTypesStep ==
  ASSUME DiscoveryInv, NEW n \in Nodes, NodeTypes(n), DiscoveryStep(n)
  PROVE  NodeTypes(n)' /\ (phase'[n] = "classes" => manager'[n] # None)
<1>1. /\ Count(n) \in Nat /\ DOMAIN Devices(n) = 1 .. Count(n)
      /\ UNCHANGED hw /\ Count(n)' = Count(n) /\ Devices(n)' = Devices(n)
      /\ DOMAIN phase = Nodes /\ DOMAIN at = Nodes /\ DOMAIN listed = Nodes /\ DOMAIN manager = Nodes
  BY OtherNodesKeep, DevicesAreSeq, SameMachine DEF DiscoveryInv, Domains
<1>2. CASE ExitPlugin(n)
  BY <1>1, <1>2 DEF ExitPlugin, NodeTypes, NoDevices, BeforeLists
<1>3. ASSUME NEW to \in {"share", "scan"}, phase'[n] = to, at'[n] \in {at[n], 1},
             phase[n] \in BeforeLists, listed'[n] = listed[n],
             manager'[n] = manager[n] \/ manager'[n] = None \/ DOMAIN manager'[n].models = {}
      PROVE  NodeTypes(n)'
  <2>1. at'[n] \in 0 .. Count(n)' + 1 /\ DOMAIN listed'[n] = {}
    BY <1>1, <1>3 DEF NodeTypes
  <2>2. manager'[n] = None \/ DOMAIN manager'[n].models = DOMAIN listed'[n]
    BY <1>3, <2>1 DEF NodeTypes
  <2> QED BY <1>3, <2>1, <2>2 DEF NodeTypes, BeforeLists
<1>4. CASE ListChips(n) /\ ~ ExitPlugin(n)
  BY <1>1, <1>3, <1>4 DEF ListChips, BeforeLists
<1>5. CASE SetDeviceShare(n) /\ ~ ExitPlugin(n)
  BY <1>1, <1>3, <1>5 DEF SetDeviceShare, BeforeLists
<1>6. CASE LoadTemplates(n)
  BY <1>1, <1>3, <1>6 DEF LoadTemplates, BeforeLists, NewManager, NoDevices
<1>7. CASE BeginScan(n)
  BY <1>1, <1>3, <1>7 DEF BeginScan, BeforeLists
<1>8. CASE ScanTurn(n) /\ ~ ExitPlugin(n)
  <2>1. /\ phase[n] = "scan" /\ phase'[n] = "scan" /\ listed'[n] = listed[n] /\ manager'[n] = manager[n]
        /\ at[n] \in 1 .. Count(n) /\ at'[n] \in {at[n] + 1, Count(n) + 1}
    BY <1>1, <1>8 DEF ScanTurn, Count
  <2> QED BY <1>1, <2>1 DEF NodeTypes, BeforeLists
<1>9. CASE ListDevices(n)
  <2> DEFINE logics == {l \in DOMAIN found[n] : found[n][l] # <<>>}
  <2>1. /\ phase[n] = "scan" /\ phase'[n] = "files" /\ at'[n] = 0 /\ at[n] \notin DOMAIN Devices(n)
        /\ DOMAIN listed'[n] = logics
        /\ manager'[n] = IF manager[n] = None THEN None
                         ELSE [manager[n] EXCEPT !.models = [l \in logics |-> found[n][l][1]]]
    BY <1>1, <1>9 DEF ListDevices
  <2>2. logics \subseteq DOMAIN Devices(n)
    BY <1>1, <2>1 DEF DiscoveryInv, NodeInv, DevicesFound
  <2>3. manager'[n] = None \/ DOMAIN manager'[n].models = logics
    BY <2>1 DEF DiscoveryInv, NodeInv, ManagerFilled
  <2> QED BY <1>1, <2>1, <2>2, <2>3 DEF NodeTypes, BeforeLists
<1>10. CASE OpenFiles(n) /\ ~ ExitPlugin(n)
  <2>1. /\ phase'[n] \in {"classes", "up"} /\ (phase'[n] = "classes" => manager[n] # None)
        /\ UNCHANGED <<at, listed, manager>>
    BY <1>1, <1>10 DEF OpenFiles
  <2> QED BY <1>1, <2>1 DEF NodeTypes, BeforeLists
<1>11. ~ ExitPlugin(n) /\ ~ OpenFiles(n) => phase'[n] # "classes"
  BY <1>1 DEF DiscoveryStep, ListChips, SetDeviceShare, LoadTemplates, BeginScan, ScanTurn, ListDevices
<1>12. phase'[n] = "classes" => manager'[n] # None
  BY <1>1, <1>11 DEF OpenFiles, ExitPlugin
<1> QED BY <1>2, <1>4, <1>5, <1>6, <1>7, <1>8, <1>9, <1>10, <1>12 DEF DiscoveryStep

LEMMA FaultsStep ==
  ASSUME faults \in 0 .. MaxFaults, [StartupNext]_startupVars
  PROVE  faults' \in 0 .. MaxFaults /\ core' = core
<1>1. MaxFaults \in Nat
  BY FleetAssumption
<1>2. (Works \/ \E f : Fail(f)) => faults' \in 0 .. MaxFaults
  BY <1>1 DEF Works, Fail
<1>3. Works \/ \E f : Fail(f)
  BY DEF StartupNext, startupVars, Install, InstallStep, InstallerStopped, HandleSignal, KillInstaller,
         CopyFails, PluginRuns, StartPlugin, Discover, DiscoveryStep, ListChips, SetDeviceShare,
         LoadTemplates, BeginScan, ScanTurn, ListDevices, OpenFiles, CreateClasses, ClassStep,
         TakeSnapshot, GetClass, PutClass, PluginEnds, Works
<1>4. core' = core
  BY DEF StartupNext, startupVars, Install, InstallerStopped, PluginRuns, StartPlugin, Discover,
         CreateClasses, PluginEnds
<1> QED BY <1>2, <1>3, <1>4

LEMMA VersionsStep ==
  ASSUME VersionTypes, [StartupNext]_startupVars
  PROVE  VersionTypes'
<1>1. UNCHANGED classes => VersionTypes'
  BY DEF VersionTypes
<1>2. CASE \E n \in Nodes : PutClass(n)
  <2>1. PICK n \in Nodes : PutClass(n)
    BY <1>2
  <2>2. CASE Written(n) /\ got[n].version = Version(got[n].wish.name)
    <3> DEFINE w == got[n].wish
               v == got[n].version
    <3>1. v \in Nat /\ v < MaxVersion /\ MaxVersion \in Nat
      BY <2>1, <2>2, DeviceClassesAssumption DEF VersionTypes, Version, PutClass
    <3>2. classes' = [name \in DOMAIN classes \cup {w.name} |->
                        IF name = w.name THEN [spec |-> w.spec, version |-> v + 1]
                        ELSE classes[name]]
      BY <2>2 DEF Written, Put
    <3> QED BY <3>1, <3>2 DEF VersionTypes
  <2>3. CASE ~ (Written(n) /\ got[n].version = Version(got[n].wish.name))
    BY <1>1, <2>1, <2>3 DEF PutClass, Written
  <2> QED BY <2>2, <2>3
<1>3. CASE ~ \E n \in Nodes : PutClass(n)
  <2>1. UNCHANGED classes
    BY <1>3 DEF StartupNext, startupVars, classVars, Install, InstallerStopped, PluginRuns, StartPlugin,
                Discover, StartJob, CreateClasses, ClassStep, TakeSnapshot, GetClass, JobEnds,
                PluginEnds, LoseJob
  <2> QED BY <1>1, <2>1
<1> QED BY <1>2, <1>3
LEMMA NodesStep ==
  ASSUME DiscoveryInv, JobInv, \A n \in Nodes : NodeTypes(n) /\ JobTypes(n), [StartupNext]_startupVars
  PROVE  \A n \in Nodes : NodeTypes(n)' /\ JobTypes(n)'
<1> DEFINE Kept1(m) == UNCHANGED hw /\ UNCHANGED OwnPart(m) /\ job'[m] = job[m]
<1>1. ASSUME NEW m \in Nodes, Kept1(m) PROVE NodeTypes(m)' /\ JobTypes(m)'
  BY <1>1, NodeTypesKept
<1>2. ASSUME NEW n \in Nodes, NodeTypes(n)', JobTypes(n)', \A m \in Nodes \ {n} : Kept1(m)
      PROVE  \A m \in Nodes : NodeTypes(m)' /\ JobTypes(m)'
  BY <1>1, <1>2
<1>3. Domains /\ DOMAIN job = Nodes
  BY DEF DiscoveryInv, JobInv
<1>4. CASE UNCHANGED <<discoveryVars, job>>
  BY <1>1, <1>4 DEF discoveryVars, processVars, OwnPart
<1>5. ASSUME NEW n \in Nodes, StartPlugin(n) PROVE \A m \in Nodes : NodeTypes(m)' /\ JobTypes(m)'
  <2>1. \A m \in Nodes \ {n} : Kept1(m)
    BY <1>3, <1>5 DEF StartPlugin, Domains, OwnPart, classVars
  <2>2. NodeTypes(n)' /\ JobTypes(n)'
    <3>1. /\ phase[n] = "off" /\ phase'[n] = "start"
          /\ UNCHANGED <<hw, at, listed, manager, job>>
      BY <1>3, <1>5 DEF StartPlugin, Domains, classVars
    <3> QED BY <3>1, SameMachine DEF NodeTypes, JobTypes, BeforeLists
  <2> QED BY <1>2, <2>1, <2>2
<1>6. ASSUME NEW n \in Nodes, Discover(n) PROVE \A m \in Nodes : NodeTypes(m)' /\ JobTypes(m)'
  <2>1. DiscoveryStep(n)
    BY <1>6 DEF Discover
  <2>2. \A m \in Nodes \ {n} : job'[m] = job[m]
    BY <1>3, <1>6 DEF Discover, StartJob, classVars
  <2>3. \A m \in Nodes \ {n} : Kept1(m)
    BY <1>3, <2>1, <2>2, OtherNodesKeep
  <2>4. NodeTypes(n)' /\ (phase'[n] = "classes" => manager'[n] # None)
    BY <2>1, NodeTypesStep
  <2>5. JobTypes(n)'
    <3>1. CASE phase'[n] \in {"classes", "up"} /\ manager'[n] # None
      BY <1>3, <1>6, <3>1 DEF Discover, StartJob, JobTypes
    <3>2. CASE ~ (phase'[n] \in {"classes", "up"} /\ manager'[n] # None)
      <4>1. job' = job /\ phase'[n] # "classes"
        BY <1>6, <2>4, <3>2 DEF Discover, classVars
      <4> QED BY <4>1 DEF JobTypes
    <3> QED BY <3>1, <3>2
  <2> QED BY <1>2, <2>3, <2>4, <2>5
<1>7. ASSUME NEW n \in Nodes, CreateClasses(n) PROVE \A m \in Nodes : NodeTypes(m)' /\ JobTypes(m)'
  <2>1. /\ job[n] \in {"snapshot", "upsert"} /\ DOMAIN job' = Nodes
        /\ \A m \in Nodes \ {n} : job'[m] = job[m]
    BY <1>7, ClassStepJob DEF CreateClasses
  <2>2. job'[n] \in {"snapshot", "upsert", "done"}
    BY <1>3, <1>7, <2>1 DEF CreateClasses, ClassStep, TakeSnapshot, GetClass, PutClass, JobEnds
  <2>3. /\ phase' = [phase EXCEPT ![n] = IF job'[n] = "done" THEN "up" ELSE @]
        /\ UNCHANGED <<hw, shared, toShare, at, found, listed, manager>>
    BY <1>7 DEF CreateClasses
  <2>4. \A m \in Nodes \ {n} : Kept1(m)
    BY <1>3, <2>1, <2>3 DEF Domains, OwnPart
  <2>5. NodeTypes(n)' /\ JobTypes(n)'
    <3>1. phase[n] \in {"classes", "up"}
      BY <2>1 DEF JobInv, JobWhileUp
    <3> QED BY <1>3, <2>2, <2>3, <3>1, SameMachine DEF Domains, NodeTypes, JobTypes, BeforeLists
  <2> QED BY <1>2, <2>4, <2>5
<1>8. ASSUME NEW n \in Nodes, PluginEnds(n) PROVE \A m \in Nodes : NodeTypes(m)' /\ JobTypes(m)'
  <2>1. \A m \in Nodes \ {n} : Kept1(m)
    BY <1>3, <1>8 DEF PluginEnds, ExitPlugin, LoseJob, Domains, OwnPart
  <2>2. NodeTypes(n)' /\ JobTypes(n)'
    <3>1. /\ phase'[n] = "off" /\ at'[n] = 0 /\ listed'[n] = NoDevices /\ manager'[n] = None
          /\ job'[n] = "off" /\ UNCHANGED hw
      BY <1>3, <1>8 DEF PluginEnds, ExitPlugin, LoseJob, Domains
    <3>2. Count(n)' \in Nat /\ DOMAIN NoDevices = {}
      BY <3>1, SameMachine, DevicesAreSeq DEF DiscoveryInv, NoDevices
    <3> QED BY <3>1, <3>2 DEF NodeTypes, JobTypes, BeforeLists
  <2> QED BY <1>2, <2>1, <2>2
<1> QED
  BY <1>4, <1>5, <1>6, <1>7, <1>8
     DEF StartupNext, PluginRuns, startupVars, Install, InstallerStopped, classVars

LEMMA TypesInductive ==
  ASSUME AssetsInv, DiscoveryInv, JobInv, TypesInv, [StartupNext]_startupVars
  PROVE  TypesInv'
<1>1. core' \in BOOLEAN /\ faults' \in 0 .. MaxFaults
  BY FaultsStep DEF TypesInv
<1>2. saved' \subseteq Nodes
  BY DEF TypesInv, StartupNext, startupVars, discoveryVars, Install, InstallerStopped, PluginRuns,
         StartPlugin, Discover, DiscoveryStep, ListChips, SetDeviceShare, LoadTemplates, BeginScan,
         ScanTurn, ListDevices, OpenFiles, CreateClasses, PluginEnds
<1>3. InstallerTypes'
  <2>1. UNCHANGED assetVars => InstallerTypes'
    BY DEF TypesInv, InstallerTypes, assetVars
  <2>2. ASSUME NEW p \in Pods, Install(p) \/ InstallerStopped(p) PROVE InstallerTypes'
    BY <2>2, InstallerTypesStep DEF TypesInv, Install, InstallerStopped
  <2>3. UNCHANGED assetVars \/ \E p \in Pods : Install(p) \/ InstallerStopped(p)
    BY DEF StartupNext, startupVars, PluginRuns, StartPlugin, Discover, CreateClasses, PluginEnds
  <2> QED BY <2>1, <2>2, <2>3
<1>4. VersionTypes'
  BY VersionsStep DEF TypesInv
<1>5. \A n \in Nodes : NodeTypes(n)' /\ JobTypes(n)'
  BY NodesStep DEF TypesInv
<1> QED BY <1>1, <1>2, <1>3, <1>4, <1>5 DEF TypesInv

(* Directories, processes and classes have their types: nothing is listed  *)
(* that the machine does not have, the manager knows what is listed, and a *)
(* process that waits for its job has one that runs.                       *)
THEOREM StartupTypes == StartupSpec => []StartupTypeOK
<1> DEFINE Inv == AssetsInv /\ DiscoveryInv /\ JobInv /\ TypesInv
<1>1. StartupInit => Inv
  BY AssetsInitHolds, DiscoveryInitHolds, JobInitHolds, TypesInitHold DEF StartupInit
<1>2. Inv /\ [StartupNext]_startupVars => Inv'
  BY AssetsStep, DiscoveryInductive, JobInductive, TypesInductive
<1>3. TypesInv => StartupTypeOK
  BY DEF TypesInv, InstallerTypes, VersionTypes, NodeTypes, JobTypes, StartupTypeOK, Count
<1>4. Inv => StartupTypeOK
  BY <1>3
<1> HIDE DEF Inv
<1> QED BY <1>1, <1>2, <1>4, PTL DEF StartupSpec
=============================================================================
