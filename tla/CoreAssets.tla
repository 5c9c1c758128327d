----------------------------- MODULE CoreAssets -----------------------------
(***************************************************************************)
(* The init container of the plugin's Pods: every Pod installs the files   *)
(* of its image in one directory of its node, beside other installers, by  *)
(* a staging directory that is renamed.                                    *)
(* Source: scripts/install-core-assets.sh.                                 *)
(*                                                                         *)
(* The revision in the directory's name is the same in every image that    *)
(* gets this far (the script compares it with a constant), the files may   *)
(* differ.  The shell handles a signal after the command under way: the    *)
(* trap removes the staging directory, and the script goes on.             *)
(***************************************************************************)
EXTENDS Fleet

CONSTANTS
  Pods,       \* Pods of the DaemonSet, old ones and new ones
  NodeOf,     \* the node of a Pod
  Image,      \* the files in the image of a Pod, told apart as a whole
  Files       \* how many files an image has

ASSUME CoreAssetsAssumption ==
  /\ NodeOf \in [Pods -> Nodes]
  /\ Files \in Nat \ {0}
  /\ None \notin [image : {Image[p] : p \in Pods}, files : {Files}]

VARIABLES
  target,   \* the release directory of a node: its image and how many files
  inst,     \* where the installer of a Pod is
  stage     \* how many files are in its staging directory, None for no directory

assetVars == <<target, inst, stage>>

Target(p) == target[NodeOf[p]]

WholeImage(p) == [image |-> Image[p], files |-> Files]

Running(p) == inst[p] \in {"copy", "move", "verify"}

-----------------------------------------------------------------------------
(* The installer ends; the trap removes what is left of its directory.     *)
InstallerEnds(p, how) ==
  /\ inst' = [inst EXCEPT ![p] = how]
  /\ stage' = [stage EXCEPT ![p] = None]

InstallerGoesTo(p, where) == inst' = [inst EXCEPT ![p] = where]

StartInstallFixed(p) ==  \* mutant: the staging directory has one name
  /\ inst[p] \in {"off", "failed"}
  /\ \/ Target(p) # None /\ InstallerGoesTo(p, "verify") /\ UNCHANGED stage
     \/ /\ Target(p) = None
        /\ IF \A q \in Pods : NodeOf[q] = NodeOf[p] => stage[q] = None
           THEN InstallerGoesTo(p, "copy") /\ stage' = [stage EXCEPT ![p] = 0]
           ELSE InstallerGoesTo(p, "failed") /\ UNCHANGED stage
  /\ UNCHANGED target

(* A container that failed is started again, with a new directory; the     *)
(* one that a killed installer left is never looked at again.              *)
StartInstall(p) ==
  /\ inst[p] \in {"off", "failed"}
  /\ \/ Target(p) # None /\ InstallerGoesTo(p, "verify") /\ UNCHANGED stage
     \/ Target(p) = None /\ InstallerGoesTo(p, "copy") /\ stage' = [stage EXCEPT ![p] = 0]
  /\ UNCHANGED target

CopyAssetTwice(p) ==  \* mutant: one turn too many
  /\ inst[p] = "copy" /\ stage[p] # None
  /\ stage' = [stage EXCEPT ![p] = @ + 1]
  /\ InstallerGoesTo(p, IF stage[p] = Files THEN "move" ELSE "copy")
  /\ UNCHANGED target

CopyAsset(p) ==
  /\ inst[p] = "copy" /\ stage[p] # None
  /\ stage' = [stage EXCEPT ![p] = @ + 1]
  /\ InstallerGoesTo(p, IF stage[p] + 1 = Files THEN "move" ELSE "copy")
  /\ UNCHANGED target

(* Under "set -e", a copy that fails, or one into a directory that a       *)
(* handled signal has removed, ends the script.                            *)
CopyFails(p) ==
  /\ inst[p] = "copy"
  /\ \/ stage[p] # None /\ Fail("copy")
     \/ stage[p] = None /\ Works
  /\ InstallerEnds(p, "failed")
  /\ UNCHANGED target

MoveInto(p) ==  \* mutant: mv without -T puts the stage into the target
  /\ inst[p] = "move" /\ stage[p] # None
  /\ target' = [target EXCEPT ![NodeOf[p]] = IF @ = None THEN WholeImage(p) ELSE @]
  /\ InstallerEnds(p, "done")

MoveOver(p) ==  \* mutant: the target is removed first
  /\ inst[p] = "move" /\ stage[p] # None
  /\ target' = [target EXCEPT ![NodeOf[p]] = [image |-> Image[p], files |-> stage[p]]]
  /\ InstallerEnds(p, "done")

(* mv -T: a rename, refused while the target is there.                     *)
Move(p) ==
  /\ inst[p] = "move"
  /\ IF stage[p] # None /\ Target(p) = None
     THEN /\ target' = [target EXCEPT ![NodeOf[p]] = [image |-> Image[p], files |-> stage[p]]]
          /\ InstallerEnds(p, "done")
     ELSE InstallerGoesTo(p, "verify") /\ UNCHANGED <<target, stage>>

(* verify_existing *)
Verify(p) ==
  /\ inst[p] = "verify"
  /\ InstallerEnds(p, IF Target(p) = WholeImage(p) THEN "done" ELSE "failed")
  /\ UNCHANGED target

HandleSignal(p) ==
  /\ Running(p) /\ stage[p] # None /\ Fail("signal")
  /\ stage' = [stage EXCEPT ![p] = None]
  /\ UNCHANGED <<target, inst>>

KillInstaller(p) ==
  /\ Running(p) /\ Fail("kill")
  /\ InstallerGoesTo(p, "failed")
  /\ UNCHANGED <<target, stage>>

InstallStep(p) ==
  \/ (StartInstall(p) \/ CopyAsset(p) \/ Move(p) \/ Verify(p)) /\ Works
  \/ CopyFails(p)

(* Nothing is installed on a new node; on the others an earlier Pod with   *)
(* one of the images was.                                                  *)
AssetsInit ==
  /\ target \in [Nodes -> {None} \cup {WholeImage(p) : p \in Pods}]
  /\ \A n \in Nodes :
       IF n \in Known THEN \E p \in Pods : NodeOf[p] = n /\ target[n] = WholeImage(p)
       ELSE target[n] = None
  /\ inst = [p \in Pods |-> "off"]
  /\ stage = [p \in Pods |-> None]

-----------------------------------------------------------------------------
(* Properties *)

(* "accept only identical verified assets": a Pod whose installer is done  *)
(* runs on a node that has the files of its own image, all of them,        *)
(* whoever installed them.                                                 *)
InstalledIdentical ==
  \A p \in Pods : inst[p] = "done" => Target(p) = WholeImage(p)

(* "Never overwrite a library potentially mapped by a running workload":   *)
(* no installer changes a directory that is there, however many race.      *)
NeverOverwritten ==
  [][\A n \in Nodes : target[n] # None => target'[n] = target[n]]_assetVars
=============================================================================
