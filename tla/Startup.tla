------------------------------- MODULE Startup -------------------------------
(***************************************************************************)
(* Nodes that come up: on each the init containers of its Pods install     *)
(* the assets, one of them then runs the plugin, whose discovery lists the *)
(* devices and whose job creates the device classes of the cluster.        *)
(* Source: cmd/ascend-dra-kubeletplugin/state.go,                          *)
(* scripts/install-core-assets.sh.                                         *)
(*                                                                         *)
(* kubelet, external, starts a container again that failed or ended, runs  *)
(* the plugin of a Pod when the Pod's init container has succeeded, and    *)
(* one plugin of a node at a time.                                         *)
(***************************************************************************)
EXTENDS CoreAssets, DeviceClasses

startupVars == <<core, faults, assetVars, discoveryVars, classVars>>

Install(p) == InstallStep(p) /\ UNCHANGED <<core, discoveryVars, classVars>>

InstallerStopped(p) ==
  /\ HandleSignal(p) \/ KillInstaller(p)
  /\ UNCHANGED <<core, discoveryVars, classVars>>

StartPlugin(n) ==
  /\ phase[n] = "off"
  /\ \E p \in Pods : NodeOf[p] = n /\ inst[p] = "done"
  /\ phase' = [phase EXCEPT ![n] = "start"]
  /\ UNCHANGED <<core, faults, hw, shared, saved, toShare, at, chipType, found, listed,
                 manager, assetVars, classVars>>

(* With the manager there, the end of NewDeviceState starts the job.       *)
Discover(n) ==
  /\ DiscoveryStep(n)
  /\ IF phase'[n] \in {"classes", "up"} /\ manager'[n] # None
     THEN StartJob(n) ELSE UNCHANGED classVars
  /\ UNCHANGED <<core, assetVars>>

CreateClasses(n) ==
  /\ ClassStep(n)
  /\ phase' = [phase EXCEPT ![n] = IF job'[n] = "done" THEN "up" ELSE @]
  /\ UNCHANGED <<core, hw, shared, saved, toShare, at, chipType, found, listed, manager,
                 assetVars>>

PluginEnds(n) ==
  /\ phase[n] # "off" /\ Fail("crash")
  /\ ExitPlugin(n) /\ LoseJob(n)
  /\ UNCHANGED <<core, hw, shared, saved, assetVars>>

PluginRuns(n) == StartPlugin(n) \/ Discover(n) \/ CreateClasses(n)

StartupInit ==
  /\ core \in BOOLEAN /\ faults = 0
  /\ AssetsInit /\ DiscoveryInit /\ ClassesInit

StartupNext ==
  \/ \E p \in Pods : Install(p) \/ InstallerStopped(p)
  \/ \E n \in Nodes : PluginRuns(n) \/ PluginEnds(n)

StartupSpec == StartupInit /\ [][StartupNext]_startupVars

(* Processes run, and kubelet starts again what has ended.                 *)
FairStartupSpec ==
  /\ StartupSpec
  /\ \A p \in Pods : WF_startupVars(Install(p))
  /\ \A n \in Nodes : WF_startupVars(PluginRuns(n))

-----------------------------------------------------------------------------
(* Properties *)

(* The types of the directories, the processes and the classes.            *)
StartupTypeOK ==
  /\ core \in BOOLEAN /\ faults \in 0 .. MaxFaults
  /\ \A p \in Pods :
       /\ inst[p] \in {"off", "copy", "move", "verify", "done", "failed"}
       /\ stage[p] = None \/ stage[p] \in 0 .. Files
  /\ saved \subseteq Nodes
  /\ \A n \in Nodes :
       /\ target[n] = None \/ target[n].files \in 0 .. Files
       /\ phase[n] \in {"off", "start", "share", "scan", "files", "classes", "up"}
       /\ at[n] \in 0 .. Len(Devices(n)) + 1
       /\ DOMAIN listed[n] \subseteq DOMAIN Devices(n)
       /\ manager[n] = None \/ DOMAIN manager[n].models = DOMAIN listed[n]
       /\ job[n] \in {"off", "snapshot", "upsert", "done"}
       /\ phase[n] = "classes" => job[n] \in {"snapshot", "upsert"}
  /\ \A name \in DOMAIN classes : classes[name].version \in 1 .. MaxVersion

(* Installers that race, are signalled or killed, calls that fail and      *)
(* processes that end do not keep a node down: as long as it has a valid   *)
(* machine, its plugin comes up and stays, whatever was left behind.       *)
NodesComeUp ==
  \A n \in Nodes :
    (\A l \in DOMAIN Devices(n) : Len(Devices(n)[l].vdevs) <= MaxVirtualDeviceNum)
      => <>[](phase[n] = "up")
=============================================================================
