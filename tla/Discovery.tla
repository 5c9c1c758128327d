------------------------------ MODULE Discovery ------------------------------
(***************************************************************************)
(* NewDeviceState up to the first list of devices: device-share on every   *)
(* chip in core mode, or the vNPU templates, then one turn per logical     *)
(* device of the hardware, then the CDI files and the checkpoint.          *)
(* Source: cmd/ascend-dra-kubeletplugin/state.go, discovery.go,            *)
(* manager.go, device_share.go and vnpu.go.                                *)
(*                                                                         *)
(* The hardware library and npu-smi are external: they answer or fail.  An *)
(* error of NewDeviceState ends the process, and kubelet starts it again;  *)
(* device-share is a setting of the hardware and stays as it is.           *)
(***************************************************************************)
EXTENDS Fleet, FiniteSetsExt

CONSTANTS
  Fleets,              \* hardware and template file of every node: see Machine
  TemplateTypes,       \* vNPU templates that have a device type
  MaxVirtualDeviceNum

ASSUME DiscoveryAssumption ==
  \A f \in Fleets : DOMAIN f = Nodes /\ \A n \in Nodes :
    LET d == f[n].devices IN d \in Seq({d[l] : l \in DOMAIN d})

VARIABLES
  hw,         \* what the machines are
  shared,     \* chips with device-share
  saved,      \* nodes with a checkpoint file
  phase,      \* how far the process of a node is
  toShare,    \* chips that SetDeviceShare has still to be called for, in any order
  at,         \* turn of the loop over the logical devices
  chipType,   \* None before GetChipInfo
  found,      \* the models assembled for each device so far: see below
  listed,     \* the allocatable devices: the model of each
  manager     \* the vNPU manager, None in core mode or without templates

processVars == <<phase, toShare, at, chipType, found, listed, manager>>
discoveryVars == <<hw, shared, saved, processVars>>

(* A machine has a chip name, logical devices in order, each on a chip and *)
(* with the vNPUs cut from it, and None or the lines of a template file.   *)
Machine(n) == hw[n]

Devices(n) == hw[n].devices

NoDevices == [l \in {} |-> None]

NewManager(templates) == [templates |-> templates, models |-> NoDevices]

ExitPlugin(n) ==
  /\ phase' = [phase EXCEPT ![n] = "off"]
  /\ toShare' = [toShare EXCEPT ![n] = {}]
  /\ at' = [at EXCEPT ![n] = 0]
  /\ chipType' = [chipType EXCEPT ![n] = None]
  /\ found' = [found EXCEPT ![n] = <<>>]
  /\ listed' = [listed EXCEPT ![n] = NoDevices]
  /\ manager' = [manager EXCEPT ![n] = None]

-----------------------------------------------------------------------------
(* Device-share *)

PhysicalCards(n) ==  \* mutant: one chip of every card
  LET d == Devices(n)
  IN {d[i].chip : i \in {k \in DOMAIN d : \A j \in 1 .. k - 1 : d[j].chip[1] # d[k].chip[1]}}

(* A card and a chip on it, each pair once.                                *)
PhysicalChips(n) == {Devices(n)[i].chip : i \in DOMAIN Devices(n)}

ListChips(n) ==
  /\ phase[n] = "start" /\ core
  /\ \/ Fail("query") /\ ExitPlugin(n)
     \/ /\ Works
        /\ toShare' = [toShare EXCEPT ![n] = PhysicalChips(n)]
        /\ phase' = [phase EXCEPT ![n] = "share"]
        /\ UNCHANGED <<at, chipType, found, listed, manager>>
  /\ UNCHANGED <<hw, shared, saved>>

(* A command that fails may have done its work.                            *)
SetDeviceShare(n) ==
  /\ phase[n] = "share"
  /\ \E chip \in toShare[n] :
       LET with == [shared EXCEPT ![n] = @ \cup {chip}]
       IN \/ Fail("share") /\ ExitPlugin(n) /\ shared' \in {shared, with}
          \/ /\ Works /\ shared' = with
             /\ toShare' = [toShare EXCEPT ![n] = @ \ {chip}]
             /\ UNCHANGED <<phase, at, chipType, found, listed, manager>>
  /\ UNCHANGED <<hw, saved>>

-----------------------------------------------------------------------------
(* Templates *)

Template(name, aicore, memory) == [name |-> name, aicore |-> aicore, memory |-> memory]

createDefaultTemplates ==
  {Template("vir01", 4, 8), Template("vir02", 8, 12), Template("vir04", 16, 16)}

(* Of a file, the lines below the first "==" that follows the header and   *)
(* one more line; a name's last line counts.  None: an error.              *)
parseTemplateInfo(lines) ==
  LET Of(kind) == {i \in DOMAIN lines : lines[i].kind = kind}
      header == Min(Of("header"))
      rules == {i \in Of("rule") : i > header + 1}
      rows == {i \in Of("row") : rules # {} /\ i > Min(rules)}
  IN IF Of("header") = {} \/ header = Len(lines) THEN None
     ELSE {lines[i].template : i \in {k \in rows : \A j \in rows :
             lines[j].template.name = lines[k].template.name => j <= k}}

Templates(n) ==
  IF Machine(n).lines = None THEN createDefaultTemplates
  ELSE parseTemplateInfo(Machine(n).lines)

LoadTemplates(n) ==
  /\ phase[n] = "start" /\ ~ core
  /\ manager' = [manager EXCEPT ![n] =
                   IF Templates(n) = None THEN None ELSE NewManager(Templates(n))]
  /\ phase' = [phase EXCEPT ![n] = "scan"]
  /\ at' = [at EXCEPT ![n] = 1]
  /\ UNCHANGED <<hw, shared, saved, faults, toShare, chipType, found, listed>>

-----------------------------------------------------------------------------
(* NewHwDevManager and enumerateDevices *)

BeginScan(n) ==
  /\ phase[n] = "share" /\ toShare[n] = {}
  /\ phase' = [phase EXCEPT ![n] = "scan"]
  /\ at' = [at EXCEPT ![n] = 1]
  /\ UNCHANGED <<hw, shared, saved, faults, toShare, chipType, found, listed, manager>>

(* A device is assembled once for each of its vNPUs; one without cores, or *)
(* of a template without a type, is passed over.  Of the models that come  *)
(* with one logic ID only the first and the last are used: <<>> for none.  *)
AssemblePhyDevices(chip) == {<< <<chip>>, <<chip>> >>}

AssembleVirtualDevices(chip, vdevs) ==
  LET known == {k \in DOMAIN vdevs : vdevs[k] \in TemplateTypes}
      first == {k \in known : \A l \in known : k <= l}
      last == {k \in known : \A l \in known : l <= k}
  IN IF known = {} THEN {<<>>}
     ELSE {<< <<chip, vdevs[i]>>, <<chip, vdevs[j]>> >> : i \in first, j \in last}

ScanTurnGoesOn(n) ==  \* mutant: a device that cannot be queried is passed over
  /\ phase[n] = "scan" /\ at[n] \in DOMAIN Devices(n)
  /\ \/ Fail("query") /\ found' = [found EXCEPT ![n] = Append(@, <<>>)]
     \/ Works /\ \E a \in AssemblePhyDevices(Machine(n).chip) :
                   found' = [found EXCEPT ![n] = Append(@, a)]
  /\ at' = [at EXCEPT ![n] = @ + 1]
  /\ UNCHANGED <<hw, shared, saved, phase, toShare, chipType, listed, manager>>

ScanTurn(n) ==
  LET vdevs == Devices(n)[at[n]].vdevs
      chip == Machine(n).chip
      Next(assembled) ==
        /\ \E a \in assembled : found' = [found EXCEPT ![n] = Append(@, a)]
        /\ at' = [at EXCEPT ![n] = @ + 1]
        /\ chipType' = [chipType EXCEPT ![n] = chip]
        /\ UNCHANGED <<phase, toShare, listed, manager>>
  IN /\ phase[n] = "scan" /\ at[n] \in DOMAIN Devices(n)
     /\ \/ Fail("query") /\ ExitPlugin(n)
        \/ /\ chipType[n] = None /\ Fail("chip")
           /\ found' = [found EXCEPT ![n] = <<>>]
           /\ at' = [at EXCEPT ![n] = Len(Devices(n)) + 1]
           /\ UNCHANGED <<phase, toShare, chipType, listed, manager>>
        \/ Fail("vdevs") /\ Next(AssemblePhyDevices(chip))
        \/ Works /\ Len(vdevs) > MaxVirtualDeviceNum /\ ExitPlugin(n)
        \/ Works /\ vdevs = <<>> /\ Next(AssemblePhyDevices(chip))
        \/ /\ Works /\ vdevs # <<>> /\ Len(vdevs) <= MaxVirtualDeviceNum
           /\ Next(AssembleVirtualDevices(chip, vdevs))
     /\ UNCHANGED <<hw, shared, saved>>

(* A card comes once for each of its vNPUs: the device listed keeps what   *)
(* came last, the manager what came first.                                 *)
ListDevices(n) ==
  LET f == found[n]
      logics == {l \in DOMAIN f : f[l] # <<>>}
  IN /\ phase[n] = "scan" /\ at[n] \notin DOMAIN Devices(n)
     /\ listed' = [listed EXCEPT ![n] = [l \in logics |-> f[l][2]]]
     /\ manager' = [manager EXCEPT ![n] =
          IF @ = None THEN None
          ELSE [@ EXCEPT !.models = [l \in logics |-> f[l][1]]]]
     /\ found' = [found EXCEPT ![n] = <<>>]
     /\ at' = [at EXCEPT ![n] = 0]
     /\ phase' = [phase EXCEPT ![n] = "files"]
     /\ UNCHANGED <<hw, shared, saved, faults, toShare, chipType>>

-----------------------------------------------------------------------------
(* The CDI handler, its common spec file and the checkpoint; the device    *)
(* classes are made before the process serves, or, at the first start of a *)
(* node, beside it.                                                        *)
OpenFiles(n) ==
  /\ phase[n] = "files"
  /\ \/ Fail("files") /\ ExitPlugin(n) /\ UNCHANGED saved
     \/ /\ Works
        /\ phase' = [phase EXCEPT ![n] = IF n \in saved /\ manager[n] # None
                                         THEN "classes" ELSE "up"]
        /\ saved' = saved \cup {n}
        /\ UNCHANGED <<toShare, at, chipType, found, listed, manager>>
  /\ UNCHANGED <<hw, shared>>

DiscoveryStep(n) ==
  \/ ListChips(n) \/ SetDeviceShare(n) \/ LoadTemplates(n) \/ BeginScan(n)
  \/ ScanTurn(n) \/ ListDevices(n) \/ OpenFiles(n)

DiscoveryInit ==
  /\ hw \in Fleets
  /\ shared = [n \in Nodes |-> {}]
  /\ saved = Known
  /\ phase = [n \in Nodes |-> "off"]
  /\ toShare = [n \in Nodes |-> {}]
  /\ at = [n \in Nodes |-> 0]
  /\ chipType = [n \in Nodes |-> None]
  /\ found = [n \in Nodes |-> <<>>]
  /\ listed = [n \in Nodes |-> NoDevices]
  /\ manager = [n \in Nodes |-> None]

-----------------------------------------------------------------------------
(* Properties *)

Serves(n) == phase[n] = "up"

(* In core mode containers share a chip, so none of its devices is offered *)
(* before device-share is set on the chip, whichever step of an earlier    *)
(* start failed and whichever devices share a card or a chip.              *)
SharedBeforeServed ==
  \A n \in Nodes : core /\ Serves(n) =>
    \A l \in DOMAIN listed[n] : Devices(n)[l].chip \in shared[n]

HasKnownType(n, l) ==
  LET v == Devices(n)[l].vdevs
  IN v = <<>> \/ \E i \in DOMAIN v : v[i] \in TemplateTypes

(* A failed query never leaves a node with a part of its cards: either     *)
(* every card that has a device of a known type is listed, or none is.     *)
ListsAllOrNothing ==
  \A n \in Nodes : Serves(n) =>
    \/ DOMAIN listed[n] = {}
    \/ \A l \in DOMAIN Devices(n) : HasKnownType(n, l) => l \in DOMAIN listed[n]
=============================================================================
